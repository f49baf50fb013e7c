-------------------------------- MODULE Ipc --------------------------------
(***************************************************************************)
(* Synchronous IPC of the kernel on one processor (no CONFIG_SMP,          *)
(* round-robin scheduler): SYS_IPC, the user-level page-fault IPC built on *)
(* it, the wakeup queue of IPC timeouts, the dispatcher as far as it       *)
(* decides which TCB runs, unwinding of an ongoing IPC, and the two system *)
(* calls that unwind other threads: ExchangeRegisters and the deletion     *)
(* branch of ThreadControl.                                                *)
(*                                                                         *)
(* The kernel runs with interrupts disabled and switches threads only      *)
(* inside scheduler_t::schedule.  `current' is the thread on the processor *)
(* and frame[t] the place where t's kernel stack continues, so a system    *)
(* call is a sequence of steps of `current', and nothing else is enabled   *)
(* before the next switch or the return to user mode.                      *)
(*                                                                         *)
(* Abstracted: the scheduling policy (modules Dispatch and SchedRR).       *)
(* Time: any set of armed timeouts may have expired at a tick.  A message  *)
(* is the name of the thread that composed it.                             *)
(***************************************************************************)
EXTENDS Dispatch, Lists

CONSTANTS
    nilthread, anythread, anylocalthread,    \* special thread ids
    invalid,            \* a thread id that no thread has
    Space,              \* [Threads -> address spaces]
    Calls,              \* [Threads -> SUBSET CallType]: the IPCs t may issue
    Pager,              \* [Threads -> Threads \cup {nilthread}]
    AbortRights,        \* <<a, v>>: a may abort v's IPC by ExchangeRegisters
    HaltRights,         \* <<a, v>>: a may halt and resume v
    DeleteRights        \* <<a, v>>: a may delete v

NilIds == {nilthread, anythread, anylocalthread}
Timeouts == {"never", "zero", "finite"}

\* to, from: the IPC's two thread ids; snd, rcv: its timeouts; virt: the
\* virtual sender of a propagated message; typed: the message has typed
\* items, whose transfer may fail.
CallType == [to : Threads \cup {nilthread, invalid},
             from : Threads \cup NilIds \cup {invalid},
             snd : Timeouts, rcv : Timeouts,
             virt : Threads \cup {nilthread}, typed : BOOLEAN]

ASSUME IdAssumption ==
    /\ idle \notin Threads
    /\ nilthread \notin Threads /\ anythread \notin Threads
    /\ anylocalthread \notin Threads
    /\ nilthread # anythread /\ nilthread # anylocalthread
    /\ anythread # anylocalthread
    /\ invalid \notin Threads \cup NilIds
ASSUME CallAssumption == Calls \in [Threads -> SUBSET CallType]
ASSUME PagerAssumption == Pager \in [Threads -> Threads \cup {nilthread}]
ASSUME RightsAssumption == /\ AbortRights \subseteq Threads \X Threads
                           /\ HaltRights \subseteq Threads \X Threads
                           /\ DeleteRights \subseteq Threads \X Threads

VARIABLES
    state,      \* thread_state of every TCB
    partner,    \* tcb_t::partner
    saved,      \* misc.saved_state[0]: state and partner before a nested IPC
    notify,     \* the function tcb_t::notify pushed on t's stack, if any
    frame,      \* where t continues in the kernel
    req,        \* arguments of t's SYS_IPC
    sender_id,  \* its local variable of that name
    uw,         \* the unwind t is performing
    mr,         \* message registers: who composed the contents, or an error tag
    sendq,      \* send_head: threads queued to send to t, first in, first out
    sendflag,   \* threads with queue_state_t::send
    alive,      \* threads whose global id is valid
    failed      \* ASSERTs that did not hold

tcbVars   == <<state, partner, saved, notify>>
stackVars == <<frame, req, sender_id, uw>>
listVars  == <<sendq, sendflag, wakeup, failed>>
vars == <<tcbVars, stackVars, listVars, schedVars, mr, alive>>

-----------------------------------------------------------------------------
(* Thread states                                                           *)

Waiting == {"waiting_forever", "waiting_timeout"}
Runnable == {"running", "locked_running", "locked_running_ipc_done"}
Sending == {"polling", "locked_running"}
Receiving == Waiting \cup {"locked_waiting"}
States == Runnable \cup Sending \cup Receiving \cup {"halted", "aborted"}

Frames == {"user", "send", "polling", "transfer", "receive", "waiting",
           "accepted", "restore", "unwind", "unwound"}
ErrorTag == "error"
ASSUME TagAssumption == ErrorTag \notin Threads
\* A notification: the function and, for handle_ipc_timeout, its argument.
Notification(fn, st) == [fn |-> fn, state |-> st]
NotNotified == Notification("none", "aborted")
NotifyError == Notification("handle_ipc_error", "aborted")
Notifications == [fn : {"none", "handle_ipc_error", "handle_ipc_timeout"},
                  state : States]
NotSaved == [state |-> "aborted", partner |-> nilthread]
Victims == [victim : Threads, by : {"exregs", "timeout", "delete"},
            halt : {"none", "halt", "resume"}]
NoUnwind(t) == [victim |-> t, by |-> "timeout", halt |-> "none"]
NoCall == [to |-> nilthread, from |-> nilthread, snd |-> "never",
           rcv |-> "never", virt |-> nilthread, typed |-> FALSE]
Asserts == {"enqueue_send", "dequeue_send"}

TypeOK ==
    /\ state \in [Threads -> States]
    /\ partner \in [Threads -> Threads \cup NilIds]
    /\ saved \in [Threads -> [state : States, partner : Threads \cup NilIds]]
    /\ notify \in [Threads -> Notifications]
    /\ frame \in [Threads -> Frames]
    /\ req \in [Threads -> CallType]
    /\ sender_id \in [Threads -> Threads]
    /\ uw \in [Threads -> Victims]
    /\ mr \in [Threads -> Threads \cup {ErrorTag}]
    /\ sendq \in [Threads -> Seq(Threads)]
    /\ sendflag \subseteq Threads
    /\ wakeup \subseteq Threads
    /\ ready \subseteq Threads
    /\ current \in Threads \cup {idle}
    /\ alive \subseteq Threads
    /\ failed \subseteq Asserts

\* Every thread is in user mode and in the ready queue; the idle thread is
\* about to dispatch the first of them.
Init ==
    /\ state = [t \in Threads |-> "running"]
    /\ partner = [t \in Threads |-> nilthread]
    /\ saved = [t \in Threads |-> NotSaved]
    /\ notify = [t \in Threads |-> NotNotified]
    /\ frame = [t \in Threads |-> "user"]
    /\ req = [t \in Threads |-> NoCall]
    /\ sender_id = [t \in Threads |-> t]
    /\ uw = [t \in Threads |-> NoUnwind(t)]
    /\ mr = [t \in Threads |-> t]
    /\ sendq = [t \in Threads |-> <<>>]
    /\ sendflag = {} /\ wakeup = {} /\ failed = {}
    /\ ready = Threads
    /\ current = idle
    /\ alive = Threads

-----------------------------------------------------------------------------
(* Where a thread continues                                                *)

CanRun(st) == {t \in Threads : st[t] \in Runnable}

\* t runs and continues at f; a pending notification comes first.
At(t, f) == /\ current = t /\ frame[t] = f /\ notify[t] = NotNotified
            /\ failed = {}

-----------------------------------------------------------------------------
(* Send queues                                                             *)

EnqueueSendMut(t, r) ==
    /\ sendq' = [sendq EXCEPT ![r] = EnqueueHead(@, t)]
    /\ sendflag' = sendflag \cup {t}
    /\ UNCHANGED failed
EnqueueSend(t, r) ==
    IF t \in sendflag
    THEN /\ failed' = failed \cup {"enqueue_send"}
         /\ UNCHANGED <<sendq, sendflag>>
    ELSE /\ sendq' = [sendq EXCEPT ![r] = EnqueueTail(@, t)]
         /\ sendflag' = sendflag \cup {t}
         /\ UNCHANGED failed

DequeueSendMut(t, r) ==
    /\ sendq' = [sendq EXCEPT ![r] = Without(@, t)]
    /\ UNCHANGED <<sendflag, failed>>
DequeueSend(t, r) ==
    IF t \notin sendflag
    THEN /\ failed' = failed \cup {"dequeue_send"}
         /\ UNCHANGED <<sendq, sendflag>>
    ELSE /\ sendq' = [sendq EXCEPT ![r] = Without(@, t)]
         /\ sendflag' = sendflag \ {t}
         /\ UNCHANGED failed

-----------------------------------------------------------------------------
(* SYS_IPC: send phase                                                     *)

\* Leaving SYS_IPC: to user mode, or back into send_pagefault_ipc.
ReturnFrame(t) == IF saved[t].state = "aborted" THEN "user" ELSE "restore"
Discarded(t, f) == /\ frame' = [frame EXCEPT ![t] = f]
                   /\ req' = [req EXCEPT ![t] = NoCall]
                   /\ sender_id' = [sender_id EXCEPT ![t] = t]
ReturnIpc(t) == Discarded(t, ReturnFrame(t))
GoTo(t, f) == frame' = [frame EXCEPT ![t] = f]

IpcCall(t) ==
    /\ At(t, "user")
    /\ \E c \in Calls[t] :
        /\ req' = [req EXCEPT ![t] = c]
        /\ GoTo(t, IF c.to = nilthread THEN "receive" ELSE "send")
    /\ mr' = [mr EXCEPT ![t] = t]
    /\ UNCHANGED <<tcbVars, sender_id, uw, listVars, schedVars, alive>>

\* tcb_t::send_pagefault_ipc: save_state, then do_ipc to and from the pager.
PageFault(t) ==
    /\ At(t, "user")
    /\ Pager[t] # nilthread
    /\ saved' = [saved EXCEPT ![t] = [state |-> state[t], partner |-> partner[t]]]
    /\ req' = [req EXCEPT ![t] = [NoCall EXCEPT !.to = Pager[t], !.from = Pager[t]]]
    /\ GoTo(t, "send")
    /\ mr' = [mr EXCEPT ![t] = t]
    /\ UNCHANGED <<state, partner, notify, sender_id, uw, listVars, schedVars, alive>>

RestoreState(t) ==
    /\ At(t, "restore")
    /\ state' = [state EXCEPT ![t] = saved[t].state]
    /\ partner' = [partner EXCEPT ![t] = saved[t].partner]
    /\ saved' = [saved EXCEPT ![t] = NotSaved]
    /\ GoTo(t, "user")
    /\ UNCHANGED <<notify, req, sender_id, uw, listVars, schedVars, mr, alive>>

\* Propagation is granted within one address space only.
Propagated(t) ==
    LET v == req[t].virt
    IN  /\ v \in alive
        /\ Space[t] \in {Space[v], Space[req[t].to]}
SenderIdMut(t) == req[t].virt
SenderId(t) == IF Propagated(t) THEN req[t].virt ELSE t

\* The receiver waits for this sender, for anybody, or for anybody local.
AcceptsMut(r, s) == state[r] \in Waiting
AcceptsMut2(r, s) == partner[r] \in {SenderId(s), anythread, s}
Accepts(r, s) ==
    /\ state[r] \in Waiting
    /\ \/ partner[r] \in {SenderId(s), anythread, s}
       \/ partner[r] = anylocalthread /\ Space[r] = Space[s]

SendNonExisting(t) ==
    /\ At(t, "send")
    /\ req[t].to \notin alive
    /\ mr' = [mr EXCEPT ![t] = ErrorTag]
    /\ ReturnIpc(t)
    /\ UNCHANGED <<tcbVars, uw, listVars, schedVars, alive>>

SendZeroTimeout(t) ==
    /\ At(t, "send")
    /\ req[t].to \in alive
    /\ ~Accepts(req[t].to, t)
    /\ req[t].snd = "zero"
    /\ state' = [state EXCEPT ![t] = "running"]
    /\ mr' = [mr EXCEPT ![t] = ErrorTag]
    /\ ReturnIpc(t)
    /\ UNCHANGED <<partner, saved, notify, uw, listVars,
                   schedVars, alive>>

SendBlocked(t) ==
    /\ At(t, "send")
    /\ req[t].to \in alive
    /\ ~Accepts(req[t].to, t)
    /\ req[t].snd # "zero"
    /\ wakeup' = IF req[t].snd = "finite" THEN wakeup \cup {t} ELSE wakeup
    /\ EnqueueSend(t, req[t].to)
    /\ partner' = [partner EXCEPT ![t] = req[t].to]
    /\ state' = [state EXCEPT ![t] = "polling"]
    /\ sender_id' = [sender_id EXCEPT ![t] = SenderId(t)]
    /\ GoTo(t, "polling")
    /\ SwitchTo(idle)
    /\ UNCHANGED <<saved, notify, req, uw, mr, alive>>

SendReady(t) ==
    /\ At(t, "send")
    /\ req[t].to \in alive
    /\ Accepts(req[t].to, t)
    /\ sender_id' = [sender_id EXCEPT ![t] = SenderId(t)]
    /\ GoTo(t, "transfer")
    /\ UNCHANGED <<tcbVars, req, uw, listVars, schedVars, mr, alive>>

\* Reactivated by the receiver: the receiver is not examined again.
SendResume(t) ==
    /\ At(t, "polling")
    /\ CancelTimeout(t)
    /\ DequeueSend(t, req[t].to)
    /\ GoTo(t, "transfer")
    /\ UNCHANGED <<tcbVars, req, sender_id, uw, schedVars, mr, alive>>

\* The partner of a virtual sender that waits for t is redirected to dst.
FixupPropagation(p, t, dst) ==
    LET v == req[t].virt
    IN  IF /\ sender_id[t] = v /\ Propagated(t)
           /\ state[v] \in Waiting /\ p[v] = t
        THEN [p EXCEPT ![v] = dst]
        ELSE p

Transfer(t) ==
    LET to == req[t].to
    IN  /\ At(t, "transfer")
        /\ partner' = FixupPropagation([partner EXCEPT ![to] = sender_id[t]], t, to)
        /\ mr' = [mr EXCEPT ![to] = mr[t]]
        /\ GoTo(t, "receive")
        /\ UNCHANGED <<state, saved, notify, req, sender_id, uw, listVars,
                       schedVars, alive>>

\* extended_transfer failed: both threads return with an error.
TransferErrorMut(t) ==
    LET to == req[t].to
    IN  /\ At(t, "transfer")
        /\ req[t].typed
        /\ partner' = [partner EXCEPT ![to] = sender_id[t]]
        /\ mr' = [mr EXCEPT ![to] = ErrorTag, ![t] = ErrorTag]
        /\ state' = [state EXCEPT ![t] = "running"]
        /\ ReturnIpc(t)
        /\ UNCHANGED <<saved, notify, uw, listVars, schedVars, alive>>
TransferError(t) ==
    LET to == req[t].to
    IN  /\ At(t, "transfer")
        /\ req[t].typed
        /\ partner' = [partner EXCEPT ![to] = sender_id[t]]
        /\ mr' = [mr EXCEPT ![to] = ErrorTag, ![t] = ErrorTag]
        /\ state' = [state EXCEPT ![t] = "running", ![to] = "running"]
        /\ ready' = ready \cup {to}
        /\ ReturnIpc(t)
        /\ UNCHANGED <<saved, notify, uw, listVars, current, alive>>

-----------------------------------------------------------------------------
(* SYS_IPC: receive phase.  A receiver found by the send phase (to) has not *)
(* been made runnable yet: to_tcb is still set.                             *)

\* Send only, or neither phase.
SendOnly(t) ==
    LET to == req[t].to
        woken == IF saved[to].partner = nilthread
                 THEN "running" ELSE "locked_running_ipc_done"
    IN  /\ At(t, "receive")
        /\ req[t].from = nilthread
        /\ ReturnIpc(t)
        /\ IF to = nilthread
           THEN UNCHANGED <<state, wakeup, schedVars>>
           ELSE /\ state' = [state EXCEPT ![to] = woken, ![t] = "running"]
                /\ ScheduleCheck(to)
                /\ wakeup' = IF current' = to THEN wakeup ELSE wakeup \ {to}
        /\ UNCHANGED <<partner, saved, notify, uw, sendq,
                       sendflag, failed, mr, alive>>

\* from_tcb: the head of the send queue, the first queued thread of t's own
\* address space, or the named thread; none if the queue has no such thread.
FromTcb(t) ==
    {s \in Threads :
        CASE req[t].from = anythread ->
                sendq[t] # <<>> /\ s = Head(sendq[t])
          [] req[t].from = anylocalthread ->
                /\ Space[s] = Space[t]
                /\ \E i \in 1..Len(sendq[t]) :
                     /\ sendq[t][i] = s
                     /\ \A j \in 1..(i - 1) : Space[sendq[t][j]] # Space[t]
          [] OTHER -> s = req[t].from}

Receives(t) == At(t, "receive") /\ req[t].from # nilthread
FromExists(t) == req[t].from \in alive \cup {anythread, anylocalthread}
\* from_tcb if it polls on t.
PollingSenderMut(t) == {s \in FromTcb(t) : state[s] = "polling"}
PollingSenderMut2(t) ==
    {s \in FromTcb(t) : state[s] = "polling" /\ sender_id[s] = s}
PollingSender(t) ==
    {s \in FromTcb(t) : state[s] = "polling" /\ partner[s] = t}

\* Returns at once, also when the send phase has found a receiver: that one is
\* not woken, and a sender that was resumed keeps its state.
ReceiveNonExisting(t) ==
    /\ Receives(t) /\ ~FromExists(t)
    /\ mr' = [mr EXCEPT ![t] = ErrorTag]
    /\ ReturnIpc(t)
    /\ UNCHANGED <<tcbVars, uw, listVars, schedVars, alive>>

\* Nobody to receive from and no time to wait: the rest of the timeslice is
\* donated to the receiver of the send phase (sched_rcverr).
ReceiveZeroTimeout(t) ==
    /\ Receives(t) /\ FromExists(t) /\ PollingSender(t) = {}
    /\ req[t].rcv = "zero"
    /\ mr' = [mr EXCEPT ![t] = ErrorTag]
    /\ state' = [state EXCEPT ![t] = "running"]
    /\ ReturnIpc(t)
    /\ IF req[t].to = nilthread THEN UNCHANGED schedVars
                                ELSE SwitchTo(req[t].to)
    /\ UNCHANGED <<partner, saved, notify, uw, listVars, alive>>

ReceiveBlocked(t) ==
    LET to == req[t].to
        wait == IF req[t].rcv = "finite" THEN "waiting_timeout"
                                         ELSE "waiting_forever"
        blocked == [state EXCEPT ![t] = wait]
    IN  /\ Receives(t) /\ FromExists(t) /\ PollingSender(t) = {}
        /\ req[t].rcv # "zero"
        /\ wakeup' = IF req[t].rcv = "finite" THEN wakeup \cup {t} ELSE wakeup
        /\ partner' = [partner EXCEPT ![t] = req[t].from]
        /\ state' = IF to = nilthread THEN blocked
                                      ELSE [blocked EXCEPT ![to] = "running"]
        /\ GoTo(t, "waiting")
        /\ SwitchTo(IF to = nilthread THEN idle ELSE to)
        /\ UNCHANGED <<saved, notify, req, sender_id, uw, sendq, sendflag,
                       failed, mr, alive>>

\* Perform receive: the polling sender runs the transfer.  The partner field
\* of the receiver is not written here.
ReceiveAccept(t) ==
    LET to == req[t].to
        locked(s) == [state EXCEPT ![s] = "locked_running", ![t] = "locked_waiting"]
    IN  /\ Receives(t) /\ FromExists(t)
        /\ \E s \in PollingSender(t) :
             IF to = nilthread
             THEN state' = locked(s) /\ SwitchTo(s) /\ UNCHANGED wakeup
             ELSE /\ state' = [locked(s) EXCEPT ![to] = "running"]
                  /\ ScheduleReplyWait(s, to)
        /\ GoTo(t, "accepted")
        /\ UNCHANGED <<partner, saved, notify, req, sender_id, uw, sendq,
                       sendflag, failed, mr, alive>>

ReceiveResume(t) ==
    /\ At(t, "waiting") \/ At(t, "accepted")
    /\ IF frame[t] = "waiting" THEN CancelTimeout(t) ELSE UNCHANGED wakeup
    /\ state' = [state EXCEPT ![t] = "running"]
    /\ ReturnIpc(t)
    /\ UNCHANGED <<partner, saved, notify, uw, sendq, sendflag,
                   failed, schedVars, mr, alive>>

-----------------------------------------------------------------------------
(* Timer interrupt and idle loop                                           *)

\* parse_wakeup_queues with the set of expired timeouts, then either back to
\* the interrupted thread, or a switch to a woken thread, or the end of the
\* timeslice.  Interrupts are taken in user mode and, when schedule() has found
\* nothing to run, in the idle loop.
TimerInterrupt ==
    /\ current \in Threads => At(current, "user")
    /\ current = idle => ready \cap CanRun(state) = {}
    /\ failed = {}
    /\ \E expired \in SUBSET wakeup :
        LET woken == {t \in expired : state[t] # "waiting_forever"}
            aborted == {t \in woken : state[t] \in Sending \cup Receiving}
        IN  /\ wakeup' = wakeup \ expired
            /\ notify' = [t \in Threads |->
                            IF t \in aborted
                            THEN Notification("handle_ipc_timeout", state[t])
                            ELSE notify[t]]
            /\ state' = [t \in Threads |-> IF t \in woken THEN "running"
                                                           ELSE state[t]]
            /\ \/ /\ UNCHANGED current
                  /\ ready' = ready \cup woken
               \/ /\ current # idle
                  /\ current' \in woken
                  /\ ready' = ready \cup woken \cup {current}
               \/ /\ current # idle
                  /\ Schedule(ready \cup woken \cup {current}, CanRun(state'))
    /\ UNCHANGED <<partner, saved, stackVars, sendq, sendflag, failed, mr, alive>>

\* The idle thread runs scheduler_t::schedule in a loop.
IdleSchedule ==
    /\ current = idle /\ failed = {}
    /\ Schedule(ready, CanRun(state))
    /\ UNCHANGED <<tcbVars, stackVars, listVars, mr, alive>>

-----------------------------------------------------------------------------
(* Unwinding an ongoing IPC: tcb_t::unwind                                 *)

Ongoing(v) == state[v] \in Sending \cup Receiving

\* A page-fault IPC that interrupted an IPC: that one is restored and unwound
\* too.
Nested(v) == saved[v].partner # nilthread /\ saved[v].state # "running"
UnwoundTo(v) == IF Nested(v) THEN saved[v].state ELSE "running"
Unwound(a, v) ==
    IF Nested(v)
    THEN /\ partner' = [partner EXCEPT ![v] = saved[v].partner]
         /\ saved' = [saved EXCEPT ![v] = NotSaved]
         /\ UNCHANGED frame
    ELSE GoTo(a, "unwound") /\ UNCHANGED <<partner, saved>>

\* cstate polling or waiting: the partner is not involved yet.
UnwindUnstarted(a) ==
    LET v == uw[a].victim
    IN  /\ At(a, "unwind")
        /\ state[v] \in Waiting \cup {"polling"}
        /\ state' = [state EXCEPT ![v] = UnwoundTo(v)]
        /\ Unwound(a, v)
        /\ CancelTimeout(v)
        /\ IF state[v] = "polling" THEN DequeueSend(v, partner[v])
                                   ELSE UNCHANGED <<sendq, sendflag, failed>>
        /\ UNCHANGED <<notify, req, sender_id, uw, schedVars, mr, alive>>

\* The partner that takes part in v's transfer and is aborted with it: for a
\* sender the receiver locked on it, for a receiver the thread its partner
\* field names, if that thread is locked running.
AbortedPartner(v) ==
    {p \in Threads \cap {partner[v]} :
        CASE state[v] = "locked_running" ->
                 state[p] = "locked_waiting" /\ partner[p] = v
          [] state[v] = "locked_waiting" -> state[p] = "locked_running"
          [] OTHER -> FALSE}

\* schedule(partner) may switch away before the unwind is complete.
UnwindLocked(a) ==
    LET v == uw[a].victim
        ps == AbortedPartner(v)
    IN  /\ At(a, "unwind")
        /\ state[v] \in {"locked_running", "locked_waiting"}
        /\ state' = [t \in Threads |-> CASE t = v -> UnwoundTo(v)
                                         [] t \in ps \ {v} -> "running"
                                         [] OTHER -> state[t]]
        /\ mr' = [t \in Threads |-> IF t \in ps THEN ErrorTag ELSE mr[t]]
        /\ notify' = [t \in Threads |-> IF t \in ps THEN NotifyError ELSE notify[t]]
        /\ IF ps = {} THEN UNCHANGED schedVars
                      ELSE \E p \in ps : ScheduleCheck(p)
        /\ Unwound(a, v)
        /\ UNCHANGED <<req, sender_id, uw, listVars, alive>>

\* handle_ipc_error: straight back to user mode, dropping the kernel stack.
\* A page-fault IPC is undone first.
HandleIpcError(t) ==
    /\ current = t /\ notify[t] = NotifyError /\ failed = {}
    /\ notify' = [notify EXCEPT ![t] = NotNotified]
    /\ saved' = [saved EXCEPT ![t] = NotSaved]
    /\ partner' = IF saved[t].state = "running"
                  THEN [partner EXCEPT ![t] = nilthread] ELSE partner
    /\ Discarded(t, "user")
    /\ UNCHANGED <<state, uw, listVars, schedVars, mr, alive>>

HandleIpcTimeout(t) ==
    /\ current = t /\ notify[t].fn = "handle_ipc_timeout"
    /\ failed = {}
    /\ state' = [state EXCEPT ![t] = notify[t].state]
    /\ notify' = [notify EXCEPT ![t] = NotNotified]
    /\ uw' = [uw EXCEPT ![t] = NoUnwind(t)]
    /\ GoTo(t, "unwind")
    /\ UNCHANGED <<partner, saved, req, sender_id, listVars, schedVars, mr, alive>>

\* The rest of handle_ipc_timeout.
TimedOut(t) ==
    /\ At(t, "unwound") /\ uw[t].by = "timeout"
    /\ mr' = [mr EXCEPT ![t] = ErrorTag]
    /\ state' = [state EXCEPT ![t] = "running"]
    /\ notify' = [notify EXCEPT ![t] = NotifyError]
    /\ UNCHANGED <<partner, saved, stackVars, listVars, schedVars, alive>>

-----------------------------------------------------------------------------
(* ExchangeRegisters: perform_exregs                                       *)

\* The halt section: resume a halted thread, halt a running one.
Halted(st, v, halt) ==
    CASE st[v] = "halted" /\ halt = "resume" -> [st EXCEPT ![v] = "running"]
      [] st[v] = "running" /\ halt = "halt" -> [st EXCEPT ![v] = "halted"]
      [] OTHER -> st

\* With the S and R flags an ongoing IPC of v is aborted.
ExregsAbort(a, v) ==
    /\ At(a, "user")
    /\ <<a, v>> \in AbortRights /\ v \in alive
    /\ Ongoing(v)
    /\ \E halt \in IF <<a, v>> \in HaltRights THEN {"none", "halt"} ELSE {"none"} :
        uw' = [uw EXCEPT ![a] = [victim |-> v, by |-> "exregs", halt |-> halt]]
    /\ GoTo(a, "unwind")
    /\ UNCHANGED <<tcbVars, req, sender_id, listVars, schedVars, mr, alive>>

\* After the unwind: the victim runs handle_ipc_error when next dispatched.
ExregsAborted(a) ==
    LET v == uw[a].victim
        st == [state EXCEPT ![v] = "running"]
    IN  /\ At(a, "unwound") /\ uw[a].by = "exregs"
        /\ state' = Halted(st, v, uw[a].halt)
        /\ notify' = [notify EXCEPT ![v] = NotifyError]
        /\ mr' = [mr EXCEPT ![v] = ErrorTag]
        /\ Schedule(ready \cup {v}, CanRun(state'))
        /\ GoTo(a, "user")
        /\ uw' = [uw EXCEPT ![a] = NoUnwind(a)]
        /\ UNCHANGED <<partner, saved, req, sender_id, listVars, alive>>

\* No IPC to abort: halt or resume only.
ExregsHalt(a, v) ==
    /\ At(a, "user")
    /\ <<a, v>> \in HaltRights /\ v \in alive
    /\ \E halt \in {"halt", "resume"} :
        /\ state' = Halted(state, v, halt)
        /\ state' # state
        /\ Schedule(IF halt = "resume" THEN ready \cup {v} ELSE ready, CanRun(state'))
    /\ UNCHANGED <<partner, saved, notify, stackVars, listVars, mr, alive>>

-----------------------------------------------------------------------------
(* ThreadControl, deletion: tcb_t::delete_tcb                              *)

\* deschedule, then unwind what the victim is doing.
Delete(a, v) ==
    /\ At(a, "user")
    /\ <<a, v>> \in DeleteRights /\ v \in alive /\ v # a
    /\ ready' = ready \ {v}
    /\ uw' = [uw EXCEPT ![a] = [victim |-> v, by |-> "delete", halt |-> "none"]]
    /\ GoTo(a, IF Ongoing(v) THEN "unwind" ELSE "unwound")
    /\ UNCHANGED <<tcbVars, req, sender_id, listVars, current, mr, alive>>

\* Pending senders are dequeued, the ids are cleared, the state is aborted.
Deleted(a) ==
    LET v == uw[a].victim
    IN  /\ At(a, "unwound") /\ uw[a].by = "delete"
        /\ sendflag' = {t \in sendflag : ~InList(sendq[v], t)}
        /\ sendq' = [sendq EXCEPT ![v] = <<>>]
        /\ alive' = alive \ {v}
        /\ state' = [state EXCEPT ![v] = "aborted"]
        /\ GoTo(a, "user")
        /\ uw' = [uw EXCEPT ![a] = NoUnwind(a)]
        /\ UNCHANGED <<partner, saved, notify, req, sender_id, wakeup, failed,
                       schedVars, mr>>

-----------------------------------------------------------------------------
(* Specifications                                                          *)

IpcStep(t) ==
    \/ IpcCall(t) \/ PageFault(t) \/ RestoreState(t)
    \/ SendNonExisting(t) \/ SendZeroTimeout(t) \/ SendBlocked(t)
    \/ SendReady(t) \/ SendResume(t) \/ Transfer(t) \/ TransferError(t)
    \/ SendOnly(t) \/ ReceiveNonExisting(t) \/ ReceiveZeroTimeout(t)
    \/ ReceiveBlocked(t) \/ ReceiveAccept(t) \/ ReceiveResume(t)

UnwindStep(t) ==
    \/ UnwindUnstarted(t) \/ UnwindLocked(t)
    \/ HandleIpcError(t) \/ HandleIpcTimeout(t) \/ TimedOut(t)

ControlStep(t) ==
    \/ ExregsAborted(t) \/ Deleted(t)
    \/ \E v \in Threads : ExregsAbort(t, v) \/ ExregsHalt(t, v) \/ Delete(t, v)

Next ==
    \/ \E t \in Threads : IpcStep(t) \/ UnwindStep(t) \/ ControlStep(t)
    \/ TimerInterrupt
    \/ IdleSchedule

Spec == Init /\ [][Next]_vars

\* Fairness.  The kernel finishes what it has begun and the idle loop keeps
\* dispatching.  Threads of one priority share the processor round robin, so
\* a thread that is ready again and again is dispatched (SchedRR).  A server
\* that is in user mode again and again issues an open receive at some time.
KernelStep ==
    \E t \in Threads : \/ frame[t] # "user" /\ IpcStep(t)
                       \/ UnwindStep(t) \/ ExregsAborted(t) \/ Deleted(t)
Dispatch(t) == /\ TimerInterrupt \/ IdleSchedule
               /\ current # t /\ current' = t
OpenReceive(t) == IpcCall(t) /\ req'[t].to = nilthread /\ req'[t].from = anythread
FairSpec ==
    /\ Spec
    /\ WF_vars(KernelStep) /\ WF_vars(IdleSchedule)
    /\ \A t \in Threads : SF_vars(Dispatch(t)) /\ SF_vars(OpenReceive(t))

-----------------------------------------------------------------------------
(* Properties                                                              *)

InKernel(f) == current \in Threads /\ frame[current] \in f

\* No runnable thread is lost: whoever may run and is not running is in the
\* ready queue.  IPC switches directly to its partner and queues lazily
\* (sched_handoff, sched_ipcblk), so this relates every switch to the state
\* of both threads.  The victim of an unwind is queued when the unwinding
\* thread finishes.
NoLostRunnable ==
    \A t \in alive : state[t] \in Runnable =>
        \/ t \in ready \cup {current}
        \/ InKernel({"unwind", "unwound"}) /\ uw[current].victim = t

Queued(t, r) == InList(sendq[r], t)
\* t polled, its timeout fired and handle_ipc_timeout has not dequeued it yet.
TimeoutPending(t) ==
    \/ notify[t] = Notification("handle_ipc_timeout", "polling")
    \/ t = current /\ frame[t] = "unwind" /\ uw[t].victim = t

\* A thread is queued to send exactly while it polls, is accepted and has
\* not resumed, or has timed out and not yet left: once, in the queue of the
\* thread it sends to, and with queue_state_t::send set.
SendQueueExact ==
    /\ \A r \in Threads : \A i, j \in 1..Len(sendq[r]) :
            sendq[r][i] = sendq[r][j] => i = j
    /\ \A r \in Threads, t \in Threads : Queued(t, r) =>
            /\ t \in sendflag /\ frame[t] \in {"polling", "unwind"}
            /\ req[t].to = r /\ partner[t] = r
            /\ state[t] \in Sending \/ TimeoutPending(t)
    /\ \A t \in alive : t \in sendflag \/ state[t] = "polling" =>
            \E r \in Threads : Queued(t, r)

\* s has agreed to send to r and has not completed the transfer.
LockedOn(s, r) == /\ state[s] = "locked_running" /\ req[s].to = r
                  /\ frame[s] \in {"polling", "transfer", "receive"}

\* s leaves SYS_IPC because the id it wants to receive from is nobody's, after
\* it has transferred its message to r.  The code does not wake r.
Abandons(s, r) == /\ ReceiveNonExisting(s) /\ req[s].to = r
                  /\ req[s].from \notin alive \cup NilIds

HasSender(r) == state[r] = "locked_waiting" /\ r # current =>
                    \E s \in alive : LockedOn(s, r)

\* A receiver locked for a transfer has a sender locked on it that will run
\* the transfer, unless the receiver is already running itself: no step takes
\* its sender away, except where it is abandoned.  Otherwise it would wait for
\* good: no timeout is armed any more.
LockedReceiverHasSender ==
    [][\A r \in alive : HasSender(r) /\ ~HasSender(r)' =>
          \E s \in Threads : Abandons(s, r)]_vars

\* A sender locked for a transfer finds its receiver: one that was accepted
\* finds it locked, and while it transfers the receiver waits for it.
\* SendResume does not examine the receiver again.
LockedSenderHasReceiver ==
    \A s \in alive : state[s] = "locked_running" =>
        /\ frame[s] = "polling" => state[req[s].to] = "locked_waiting"
        /\ frame[s] = "transfer" => state[req[s].to] \in Receiving

\* Once a transfer has been agreed on, no IPC timeout can fire at either
\* side: "make sure the IPC does not timeout meanwhile" (ipc.cc).
NoTimeoutInTransfer ==
    \A t \in wakeup \ {current} :
        state[t] \notin {"locked_running", "locked_waiting"}

Wants(r, s) == \/ partner[r] \in {sender_id[s], s, anythread}
               \/ partner[r] = anylocalthread /\ Space[r] = Space[s]

\* No rendezvous is missed: a thread does not wait for a message that a
\* polling thread is trying to send it.  (A thread whose timeout has fired has
\* its old state back while it unwinds, but waits no longer.)
Missed(r, s) == /\ state[s] = "polling" /\ partner[s] = r
                /\ state[r] \in Waiting /\ frame[r] # "unwind" /\ Wants(r, s)
NoMissedSender == \A r, s \in alive : ~Missed(r, s)

Noticed(r) == state[r] \in Waiting /\ r # current /\ mr[r] # r =>
                  InKernel({"receive"}) /\ req[current].to = r

\* A delivered message wakes its receiver: no step leaves a thread waiting with
\* the message of another one in its message registers, except where it is
\* abandoned.
DeliveredWakes ==
    [][\A r \in alive : Noticed(r) /\ ~Noticed(r)' =>
          \E s \in Threads : Abandons(s, r)]_vars

\* Nobody is abandoned: whatever becomes of the receive phase, the receiver that
\* the send phase has found is woken.
NobodyAbandoned == \A r \in alive : HasSender(r) /\ Noticed(r)

\* Whom t may get an answer from after a closed receive: the named thread,
\* or the one it passed t on to by propagation.
Answerers(t) == {req[t].from} \cup {c.to : c \in {d \in Calls[req[t].from] : d.virt = t}}

\* A receive that returns without an error tag returns another thread's
\* message, from a sender the receive asked for.
ReceiveContract ==
    [][\A t \in Threads :
        ReceiveResume(t) /\ mr[t] # ErrorTag =>
            /\ mr[t] # t /\ partner[t] \in Threads
            /\ \/ req[t].from = anythread
               \/ req[t].from = anylocalthread /\ Space[mr[t]] = Space[t]
               \/ req[t].from \in Threads /\ {partner[t], mr[t]} \cap Answerers(t) # {}
      ]_vars

\* A halted thread runs again only when ExchangeRegisters resumes it.
HaltedStaysHalted ==
    [][\A t \in alive : state[t] = "halted" /\ state'[t] # "halted" =>
          \/ \E a \in Threads : ExregsHalt(a, t)
          \/ t \notin alive']_vars

\* A deleted thread never becomes runnable again: nothing that still refers
\* to it (a timeout, a queue, a partner) brings its TCB back to life.
DeletedStaysDead == [][\A t \in Threads \ alive : state'[t] = "aborted"]_vars

\* ASSERT(queue_state.is_set(send)) in dequeue_send and its negation in
\* enqueue_send never fail.
NoAssertFails == failed = {}

\* Every sender that polls is accepted, or leaves the send phase otherwise:
\* the send queue is first in, first out, so no sender overtakes for ever.
Served == \A t \in Threads : state[t] = "polling" ~> state[t] # "polling"

=============================================================================
