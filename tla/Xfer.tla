-------------------------------- MODULE Xfer --------------------------------
(* The extended transfer: an IPC that copies strings (api/v4/ipcx.cc) and   *)
(* the page faults on the way (api/v4/space.cc), on one processor.          *)
(*                                                                          *)
(* The sender copies in its own kernel context.  A fault on its own pages   *)
(* becomes an IPC to its pager, nested in the one that is going on.  A      *)
(* fault on the receiver's pages, seen through the copy area, is tunnelled: *)
(* the receiver, locked in the IPC, is made to send the nested IPC to its   *)
(* pager.  Meanwhile either thread may be aborted by ExchangeRegisters, and *)
(* the sender may have a transfer timeout.                                  *)
(*                                                                          *)
(* current = idle stands for the idle thread and for all threads outside    *)
(* Threads: pagers, and threads that call ExchangeRegisters.  Which thread  *)
(* is dispatched is left open (Dispatch).  An unwind is one step (its       *)
(* preemption by the partner it wakes is in Ipc), and an aborted nested IPC *)
(* has no further effect on the pager.  Left out: timeouts of the           *)
(* rendezvous, propagation, items that are not strings.                     *)
EXTENDS Strings, FiniteSets

CONSTANTS
    Threads, idle, nilthread, anythread, pager,
    Space,              \* [Threads -> address spaces]
    Sends,              \* [Threads -> SUBSET SendType]
    Receives,           \* [Threads -> SUBSET ReceiveType]
    Victims,            \* threads that others may abort
    PagerBusy           \* pagers may be busy when a fault comes

\* absent: the pages that fault on their first use; xfer: the transfer timeout.
Timeouts == {"zero", "finite", "never"}
SendType(s) == {"to", "strings", "absent", "xfer"} = DOMAIN s
               /\ s.to \in Threads /\ s.xfer \in Timeouts
               /\ s.strings \in StringsType
\* The first buffer register holds the acceptor.
ReceiveType(r) == {"buffers", "absent", "xfer"} = DOMAIN r /\ r.xfer \in Timeouts
                  /\ r.buffers \in StringsType /\ Len(Registers(r.buffers)) < NumBR

ASSUME XferAssumption ==
    /\ {idle, nilthread, anythread, pager} \cap Threads = {}
    /\ nilthread \notin {anythread, pager} /\ anythread # pager
    /\ \A t \in Threads : /\ \A s \in Sends[t] : SendType(s) /\ s.to # t
                          /\ \A r \in Receives[t] : ReceiveType(r)
    /\ Victims \subseteq Threads /\ PagerBusy \in BOOLEAN

VARIABLES
    state, partner,     \* of every TCB
    saved,              \* misc.saved_state[0]
    notify,             \* the function pushed on t's stack, if any
    frame,              \* where t continues in the kernel
    current,
    wakeup,             \* threads with an armed timeout
    has_xfer_timeout,   \* threads with that flag
    copy_area,          \* threads with the resource COPY_AREA
    queued,             \* threads in the send queue of a pager
    op,                 \* t's message or its buffers
    x,                  \* the locals of extended_transfer, in the sender
    absent,             \* <<t, page>>: pages of t that fault
    got,                \* history: the units copied to t since it received
    outcome,            \* history: what the last IPC that ended returned to its threads
    failed              \* ASSERTs that did not hold

tcbs == <<state, partner, saved, notify, frame, current>>
timers == <<wakeup, has_xfer_timeout>>
xfers == <<copy_area, x>>
vars == <<tcbs, timers, xfers, queued, op, absent, got, outcome, failed>>

NotSaved == [state |-> "aborted", partner |-> nilthread]
Nested(t) == saved[t] # NotSaved
Runnable == {"running", "locked_running", "locked_running_ipc_done",
             "locked_running_nested"}
Sending == {"polling", "locked_running"}
Receiving == {"waiting_forever", "locked_waiting"}

\* A notification: the function and, for handle_ipc_timeout, its argument.
Notification(fn, st) == [fn |-> fn, state |-> st]
NotNotified == Notification("none", "aborted")
NotifyError == Notification("handle_ipc_error", "aborted")
NotifyTunnel == Notification("tunnel_pagefault", "aborted")

NoOutcome == [err |-> "none", len |-> 0, copied |-> 0]
NoOp == [strings |-> <<>>, absent |-> {}, xfer |-> "never"]

Init ==
    /\ state = [t \in Threads |-> "running"]
    /\ partner = [t \in Threads |-> nilthread]
    /\ saved = [t \in Threads |-> NotSaved]
    /\ notify = [t \in Threads |-> NotNotified]
    /\ frame = [t \in Threads |-> "user"]
    /\ current = idle
    /\ wakeup = {} /\ has_xfer_timeout = {} /\ copy_area = {} /\ queued = {}
    /\ op = [t \in Threads |-> NoOp]
    /\ x = [t \in Threads |-> NoTransfer]
    /\ absent = {}
    /\ got = [t \in Threads |-> <<>>]
    /\ outcome = NoOutcome
    /\ failed = {}

At(t, f) ==
    current = t /\ frame[t] = f /\ notify[t] = NotNotified /\ failed = {}
GoTo(t, f) == frame' = [frame EXCEPT ![t] = f]
Pages(t, ps) == {<<t, p>> : p \in ps}
\* t's pages as they are when it issues an operation.
Unmapped(t, ps) == {a \in absent : a[1] # t} \cup Pages(t, ps)
\* A thread that returns to user level has no operation any more.
Forget(ts) ==
    /\ op' = [t \in Threads |-> IF t \in ts THEN NoOp ELSE op[t]]
    /\ got' = [t \in Threads |-> IF t \in ts THEN <<>> ELSE got[t]]
    /\ absent' = {a \in absent : a[1] \notin ts}

-----------------------------------------------------------------------------
(* The rendezvous (Ipc, without timeouts)                                   *)

\* extended_transfer begins: the two are locked, and find each other.
Begin(s, r, st) ==
    /\ state' = [st EXCEPT ![s] = "locked_running", ![r] = "locked_waiting"]
    /\ partner' = [partner EXCEPT ![s] = r, ![r] = s]
    /\ x' = [x EXCEPT ![s] = StartTransfer(op[r].buffers # <<>>)]
    /\ GoTo(s, "copy")

SendCall(s) ==
    /\ At(s, "user")
    /\ \E m \in Sends[s] :
        LET r == m.to
        IN  /\ op' = [op EXCEPT ![s] = m]
            /\ absent' = Unmapped(s, m.absent)
            /\ outcome' = NoOutcome
            /\ IF state[r] = "waiting_forever" /\ partner[r] \in {s, anythread}
               THEN Begin(s, r, state) /\ UNCHANGED current
               ELSE /\ state' = [state EXCEPT ![s] = "polling"]
                    /\ partner' = [partner EXCEPT ![s] = r]
                    /\ GoTo(s, "send")
                    /\ current' = idle
                    /\ UNCHANGED x
    /\ UNCHANGED <<saved, notify, timers, copy_area, queued, got, failed>>

SendResume(s) ==
    /\ At(s, "send")
    /\ wakeup' = wakeup \ {s}
    /\ Begin(s, op[s].to, state)
    /\ UNCHANGED <<saved, notify, current, has_xfer_timeout, copy_area, queued,
                   op, absent, got, outcome, failed>>

\* An open receive: a thread that polls on r is switched to, and copies.
ReceiveCall(r) ==
    LET polling == {s \in Threads : state[s] = "polling" /\ partner[s] = r
                                    /\ ~Nested(s)}
    IN  /\ At(r, "user")
        /\ \E b \in Receives[r] : /\ op' = [op EXCEPT ![r] = b]
                                  /\ absent' = Unmapped(r, b.absent)
        /\ got' = [got EXCEPT ![r] = <<>>]
        /\ outcome' = NoOutcome
        /\ GoTo(r, "receive")
        /\ \/ /\ polling = {}
              /\ state' = [state EXCEPT ![r] = "waiting_forever"]
              /\ partner' = [partner EXCEPT ![r] = anythread]
              /\ current' = idle
           \/ \E s \in polling :
              /\ state' = [state EXCEPT ![s] = "locked_running",
                                        ![r] = "locked_waiting"]
              /\ current' = s
              /\ UNCHANGED partner
        /\ UNCHANGED <<saved, notify, timers, xfers, queued, failed>>

ReceiveResume(r) ==
    /\ At(r, "receive")
    /\ state' = [state EXCEPT ![r] = "running"]
    /\ wakeup' = wakeup \ {r}
    /\ GoTo(r, "user")
    /\ Forget({r})
    /\ UNCHANGED <<partner, saved, notify, current, has_xfer_timeout, xfers,
                   queued, outcome, failed>>

-----------------------------------------------------------------------------
(* extended_transfer, run by the sender                                     *)

Copying(s, step) == At(s, "copy") /\ x[s].step = step
To(s) == op[s].to
Buffers(s) == Registers(op[To(s)].buffers)
Message(s) == Registers(op[s].strings)

\* Between two spaces the receiver's pages are seen through the copy area,
\* which ipc_copy sets up.
ViaCopyArea(s) == Space[s] # Space[To(s)]
EnableCopyArea(s) ==
    copy_area' = IF x'[s].step = "copy" /\ ViaCopyArea(s)
                 THEN copy_area \cup {s} ELSE copy_area

Item(s) ==
    /\ Copying(s, "item")
    /\ x' = [x EXCEPT ![s] = NextItem(@, Message(s), Buffers(s))]
    /\ EnableCopyArea(s)
    /\ UNCHANGED <<tcbs, timers, queued, op, absent, got, outcome, failed>>

SourcePage(s) == <<s, Source(x[s], Message(s)).page>>
TargetPage(s) == <<To(s), Target(x[s], Buffers(s)).page>>
InPart(s) == Copying(s, "copy") /\ x[s].done < PartLength(x[s])

CopyUnit(s) ==
    /\ InPart(s)
    /\ {SourcePage(s), TargetPage(s)} \cap absent = {}
    /\ got' = [got EXCEPT ![To(s)] =
                Append(@, [from |-> Source(x[s], Message(s)),
                           to |-> Target(x[s], Buffers(s))])]
    /\ x' = [x EXCEPT ![s].done = @ + 1]
    /\ UNCHANGED <<tcbs, timers, copy_area, queued, op, absent, outcome, failed>>

CopyDone(s) ==
    /\ Copying(s, "copy") /\ x[s].done = PartLength(x[s])
    /\ x' = [x EXCEPT ![s] = PartCopied(@, Message(s), Buffers(s))]
    /\ EnableCopyArea(s)
    /\ UNCHANGED <<tcbs, timers, queued, op, absent, got, outcome, failed>>

\* What the IPC returns to both, and the units that have arrived.
Returned(err, len, units) ==
    outcome' = [err |-> err, len |-> len, copied |-> Len(units)]

\* The end of the transfer, and of the IPC, that only sends.  After an
\* overflow has_xfer_timeout is not cleared.
Finish(s, err, flags) ==
    LET r == To(s)
    IN  /\ copy_area' = copy_area \ {s}
        /\ wakeup' = wakeup \ {s}
        /\ has_xfer_timeout' = flags
        /\ Returned(err, x[s].copied, got[r])
        /\ state' = [state EXCEPT ![s] = "running", ![r] = "running"]
        /\ x' = [x EXCEPT ![s] = NoTransfer]
        /\ GoTo(s, "user")
        /\ current' \in {s, r}
        /\ Forget({s})
        /\ UNCHANGED <<partner, saved, notify, queued, failed>>
Complete(s) == Copying(s, "done") /\ Finish(s, "ok", has_xfer_timeout \ {s})
MessageOverflow(s) ==
    Copying(s, "overflow") /\ Finish(s, "overflow", has_xfer_timeout)

-----------------------------------------------------------------------------
(* tcb_t::unwind of v in state st                                           *)

\* A nested IPC is given up first, and the IPC around it is unwound.
Unwinding(v, st) == IF Nested(v) THEN saved[v]
                                 ELSE [state |-> st, partner |-> partner[v]]

\* The partner that is aborted with v.
AbortedPartnerMut(v, st) ==
    LET u == Unwinding(v, st)
    IN  {p \in Threads \cap {u.partner} :
            /\ u.state = "locked_running"
            /\ state[p] = "locked_waiting" /\ partner[p] = v}
AbortedPartner(v, st) ==
    LET u == Unwinding(v, st)
    IN  {p \in Threads \cap {u.partner} :
            CASE u.state = "locked_running" ->
                    state[p] = "locked_waiting" /\ partner[p] = v
              [] u.state = "locked_waiting" -> state[p] = "locked_running"
              [] u.state = "locked_running_nested" ->
                    state[p] = "waiting_tunneled_pf"
              [] OTHER -> FALSE}

\* calculate_errorcodes: how far the sender has come.
Offset(s) == x[s].copied + x[s].fault
UnwoundLen(v, st) ==
    LET u == Unwinding(v, st)
    IN  CASE u.state = "locked_running" -> Offset(v)
          [] u.state \in {"locked_waiting", "locked_running_nested"} ->
                Offset(u.partner)
          [] OTHER -> 0
UnwoundUnits(v, st) ==
    CASE Unwinding(v, st).state = "locked_running" -> got[To(v)]
      [] Unwinding(v, st).state = "polling" -> <<>>
      [] OTHER -> got[v]

Unwind(v, st, err, len) ==
    LET ps == AbortedPartner(v, st)
    IN  /\ state' = [t \in Threads |-> IF t \in ps \cup {v} THEN "running"
                                                           ELSE state[t]]
        /\ partner' = [partner EXCEPT ![v] = Unwinding(v, st).partner]
        /\ wakeup' = IF st \in {"polling", "waiting_forever"}
                     THEN wakeup \ {v} ELSE wakeup
        /\ queued' = IF st = "polling" THEN queued \ {v} ELSE queued
        /\ Returned(err, len, UnwoundUnits(v, st))
        /\ UNCHANGED failed

\* handle_ipc_error: to user level, dropping the kernel stack.
BackToUser(t) ==
    /\ copy_area' = copy_area \ {t}
    /\ saved' = [saved EXCEPT ![t] = NotSaved]
    /\ x' = [x EXCEPT ![t] = NoTransfer]
    /\ GoTo(t, "user")
    /\ Forget({t})

HandleIpcError(t) ==
    /\ current = t /\ notify[t] = NotifyError /\ failed = {}
    /\ notify' = [notify EXCEPT ![t] = NotNotified]
    /\ BackToUser(t)
    /\ has_xfer_timeout' = has_xfer_timeout \ {t}
    /\ UNCHANGED <<state, partner, current, wakeup, queued, outcome, failed>>

\* handle_ipc_timeout (st), in the thread itself.
TimedOut(t, st, len) ==
    LET ps == AbortedPartner(t, st)
    IN  /\ Unwind(t, st, "timeout", len)
        /\ notify' = [u \in Threads |-> CASE u = t -> NotNotified
                                          [] u \in ps -> NotifyError
                                          [] OTHER -> notify[u]]
        /\ BackToUser(t)
        /\ has_xfer_timeout' = has_xfer_timeout \ {t}
        /\ current' \in {t} \cup ps
HandleIpcTimeout(t) ==
    LET st == notify[t].state
    IN  /\ current = t /\ notify[t].fn = "handle_ipc_timeout" /\ failed = {}
        /\ TimedOut(t, st, UnwoundLen(t, st))

-----------------------------------------------------------------------------
(* Page faults of the copy                                                  *)

\* handle_xfer_timeouts: the earlier of the two timeouts, once per transfer.
XferTimeout(s) ==
    LET both == {op[s].xfer, op[To(s)].xfer}
    IN  CASE s \in has_xfer_timeout \/ both = {"never"} -> "none"
          [] "zero" \in both /\ s \notin has_xfer_timeout -> "now"
          [] OTHER -> "later"
ArmTimeout(s) ==
    IF XferTimeout(s) = "later"
    THEN /\ wakeup' = wakeup \cup {s}
         /\ has_xfer_timeout' = has_xfer_timeout \cup {s}
    ELSE UNCHANGED timers
\* Its assertions on the states of the two.
Asserted(s) ==
    failed' = IF \/ s \in has_xfer_timeout
                 \/ state[s] = "locked_running" /\ state[partner[s]] = "locked_waiting"
              THEN failed ELSE failed \cup {"handle_xfer_timeouts"}

\* calculate_errorcodes takes a fault outside the copy area for a fault on the
\* source: on the target of a copy within one space, copy_start_src is another
\* address altogether.
Elsewhere == 100
FaultOffset(s) ==
    IF SourcePage(s) \notin absent /\ ~ViaCopyArea(s) THEN Elsewhere ELSE x[s].done
Fault(s) == InPart(s) /\ {SourcePage(s), TargetPage(s)} \cap absent # {}
Tunnelled(s) == SourcePage(s) \notin absent /\ ViaCopyArea(s)
RecordFault(s) == x' = [x EXCEPT ![s].fault = FaultOffset(s)]

\* send_pagefault_ipc of t: it saves its IPC, sends to its pager and waits.
SendPagefault(t, st) ==
    /\ saved' = [saved EXCEPT ![t] = [state |-> st[t], partner |-> partner[t]]]
    /\ partner' = [partner EXCEPT ![t] = pager]
    /\ current' = idle
    /\ \/ /\ state' = [st EXCEPT ![t] = "waiting_forever"]
          /\ GoTo(t, "fault_wait")
          /\ UNCHANGED queued
       \/ /\ PagerBusy
          /\ state' = [st EXCEPT ![t] = "polling"]
          /\ GoTo(t, "fault_send")
          /\ queued' = queued \cup {t}

FaultTimeout(s) ==
    /\ Fault(s) /\ XferTimeout(s) = "now"
    /\ state[s] = "locked_running"
    /\ TimedOut(s, "locked_running", x[s].copied + FaultOffset(s))

LocalFault(s) ==
    /\ Fault(s) /\ ~Tunnelled(s) /\ XferTimeout(s) # "now"
    /\ RecordFault(s) /\ ArmTimeout(s) /\ Asserted(s)
    /\ SendPagefault(s, state)
    /\ UNCHANGED <<notify, copy_area, op, absent, got, outcome>>

TunnelledFault(s) ==
    LET r == partner[s]
    IN  /\ Fault(s) /\ Tunnelled(s) /\ XferTimeout(s) # "now"
        /\ RecordFault(s) /\ ArmTimeout(s) /\ Asserted(s)
        /\ state' = [state EXCEPT ![s] = "waiting_tunneled_pf",
                                  ![r] = "locked_running_nested"]
        /\ notify' = [notify EXCEPT ![r] = NotifyTunnel]
        /\ current' = r
        /\ UNCHANGED <<partner, saved, frame, copy_area, queued, op, absent,
                       got, outcome>>

TunnelPagefault(r) ==
    /\ current = r /\ notify[r] = NotifyTunnel /\ failed = {}
    /\ notify' = [notify EXCEPT ![r] = NotNotified]
    /\ SendPagefault(r, state)
    /\ UNCHANGED <<timers, xfers, op, absent, got, outcome, failed>>

\* The pager has received from t: t's message goes over, and t waits.
FaultSent(t) ==
    /\ At(t, "fault_send")
    /\ state' = [state EXCEPT ![t] = "waiting_forever"]
    /\ wakeup' = wakeup \ {t}
    /\ queued' = queued \ {t}
    /\ GoTo(t, "fault_wait")
    /\ current' = idle
    /\ UNCHANGED <<partner, saved, notify, has_xfer_timeout, xfers, op, absent,
                   got, outcome, failed>>

\* The pager has replied: t's IPC is restored.  The sender goes on copying; a
\* receiver waits again and switches back to the sender.
FaultHandled(t) ==
    /\ At(t, "fault_wait")
    /\ wakeup' = wakeup \ {t}
    /\ saved' = [saved EXCEPT ![t] = NotSaved]
    /\ partner' = [partner EXCEPT ![t] = saved[t].partner]
    /\ IF saved[t].state = "locked_running_nested"
       THEN /\ state' = [state EXCEPT ![t] = "locked_waiting",
                                      ![saved[t].partner] = "locked_running"]
            /\ current' = saved[t].partner
            /\ GoTo(t, "receive")
       ELSE /\ state' = [state EXCEPT ![t] = saved[t].state]
            /\ GoTo(t, "copy")
            /\ UNCHANGED current
    /\ UNCHANGED <<notify, has_xfer_timeout, xfers, queued, op, absent, got,
                   outcome, failed>>

-----------------------------------------------------------------------------
(* The pagers, the timer and ExchangeRegisters: while current = idle        *)

Outside == current = idle /\ failed = {}

PagerReceives(t) ==
    /\ Outside
    /\ frame[t] = "fault_send" /\ state[t] = "polling"
    /\ state' = [state EXCEPT ![t] = "locked_running"]
    /\ current' = t
    /\ UNCHANGED <<partner, saved, notify, frame, timers, xfers, queued, op,
                   absent, got, outcome, failed>>

\* The reply maps the page.
PagerReplies(t) ==
    LET s == IF saved[t].state = "locked_running" THEN t ELSE saved[t].partner
        page == IF SourcePage(s) \in absent THEN SourcePage(s) ELSE TargetPage(s)
    IN  /\ Outside
        /\ frame[t] = "fault_wait" /\ state[t] = "waiting_forever"
        /\ absent' = absent \ {page}
        /\ state' = [state EXCEPT ![t] = "locked_running_ipc_done"]
        /\ current' \in {idle, t}
        /\ UNCHANGED <<partner, saved, notify, frame, timers, xfers, queued, op,
                       got, outcome, failed>>

\* parse_wakeup_queues.
Expire ==
    /\ Outside
    /\ \E expired \in SUBSET wakeup \ {{}} :
        LET woken == {t \in expired :
                        state[t] = "waiting_forever" => t \in has_xfer_timeout}
        IN  /\ wakeup' = wakeup \ expired
            /\ has_xfer_timeout' = has_xfer_timeout \ woken
            /\ notify' = [t \in Threads |->
                            IF t \in woken /\ state[t] \in Sending \cup Receiving
                            THEN Notification("handle_ipc_timeout", state[t])
                            ELSE notify[t]]
            /\ state' = [t \in Threads |-> IF t \in woken THEN "running"
                                                          ELSE state[t]]
    /\ UNCHANGED <<partner, saved, frame, current, xfers, queued, op, absent,
                   got, outcome, failed>>

\* ExchangeRegisters with the S and R flags, by a thread outside.
ExregsAbort(v) ==
    LET ps == AbortedPartner(v, state[v])
    IN  /\ Outside
        /\ v \in Victims /\ state[v] \in Sending \cup Receiving
        /\ Unwind(v, state[v], "aborted", UnwoundLen(v, state[v]))
        /\ notify' = [t \in Threads |-> IF t \in ps \cup {v} THEN NotifyError
                                                             ELSE notify[t]]
        /\ saved' = [saved EXCEPT ![v] = NotSaved]
        /\ current' \in {idle, v} \cup ps
        /\ UNCHANGED <<frame, has_xfer_timeout, xfers, op, absent, got>>

Dispatch(t) ==
    /\ Outside /\ state[t] \in Runnable
    /\ current' = t
    /\ UNCHANGED <<state, partner, saved, notify, frame, timers, xfers, queued,
                   op, absent, got, outcome, failed>>
Preempt(t) ==
    /\ At(t, "user")
    /\ current' = idle
    /\ UNCHANGED <<state, partner, saved, notify, frame, timers, xfers, queued,
                   op, absent, got, outcome, failed>>

-----------------------------------------------------------------------------
(* Specifications                                                           *)

KernelStep(t) ==
    \/ SendResume(t) \/ ReceiveResume(t)
    \/ Item(t) \/ CopyUnit(t) \/ CopyDone(t) \/ Complete(t) \/ MessageOverflow(t)
    \/ FaultTimeout(t) \/ LocalFault(t) \/ TunnelledFault(t)
    \/ TunnelPagefault(t) \/ FaultSent(t) \/ FaultHandled(t)
    \/ HandleIpcError(t) \/ HandleIpcTimeout(t)

Next ==
    \/ \E t \in Threads : \/ SendCall(t) \/ ReceiveCall(t) \/ KernelStep(t)
                          \/ PagerReceives(t) \/ PagerReplies(t)
                          \/ ExregsAbort(t) \/ Dispatch(t) \/ Preempt(t)
    \/ Expire

Spec == Init /\ [][Next]_vars

\* The kernel finishes what it has begun, and threads that are ready share the
\* processor (SchedRR), the pagers among them, who receive and reply.
FairSpec ==
    /\ Spec
    /\ \A t \in Threads :
        /\ WF_vars(KernelStep(t)) /\ WF_vars(Preempt(t)) /\ SF_vars(Dispatch(t))
        /\ SF_vars(PagerReceives(t)) /\ SF_vars(PagerReplies(t))

-----------------------------------------------------------------------------
(* Properties                                                               *)

\* The senders that transfer to r, or are accepted by it and about to.
SendersTo(r) ==
    {s \in Threads : /\ notify[s] # NotifyError
                     /\ \/ x[s].step # "none"
                        \/ frame[s] = "send" /\ state[s] = "locked_running"
                     /\ To(s) = r}
HandlesTunnelled(r) == "locked_running_nested" \in {state[r], saved[r].state}
Engaged(r) == /\ notify[r] # NotifyError
              /\ state[r] = "locked_waiting" \/ HandlesTunnelled(r)

\* The two threads of a transfer enter and leave it together, whatever happens
\* on the way: a thread locked in a receive, or in the fault of its partner,
\* has exactly one sender that is still busy with it, a sender waits for a
\* tunnelled fault exactly while its partner handles it, and a copy area is
\* kept only for a transfer (extended_transfer, handle_pagefault, unwind).
Coupled ==
    /\ \A r \in Threads : Cardinality(SendersTo(r)) = IF Engaged(r) THEN 1 ELSE 0
    /\ \A r \in Threads : \A s \in SendersTo(r) :
        state[s] = "waiting_tunneled_pf" <=> HandlesTunnelled(r)
    /\ \A s \in copy_area : notify[s] = NotifyError \/ x[s].step # "none"

\* The receiver gets what the sizes of strings and buffers say, unit by unit
\* and in this order, however the items are divided and wherever the copy
\* faults; an overflow is reported exactly if something does not fit.
StringsExact ==
    \A r \in Threads : \A s \in SendersTo(r) :
        LET strings == op[s].strings
            buffers == op[r].buffers
            all == Placement(strings, buffers)
        IN  x[s].step # "none" =>
                /\ IsPrefix(got[r], all)
                /\ x[s].step = "done" => got[r] = all /\ AllFit(strings, buffers)
                /\ x[s].step = "overflow" => got[r] = all /\ ~AllFit(strings, buffers)
\* Whatever ends a transfer, both threads are told how much has arrived.
LengthReported == outcome.len = outcome.copied
MessageExact == StringsExact /\ LengthReported

\* A transfer ends, if the pagers answer.
TransferEnds ==
    \A s \in Threads : x[s].step # "none" ~> x[s].step = "none"

\* has_xfer_timeout says that the thread is in the wakeup queue for a transfer.
XferTimeoutArmed == has_xfer_timeout = wakeup
\* The assertions of the code.
NoAssertFails == failed = {}
=============================================================================
