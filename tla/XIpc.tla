-------------------------------- MODULE XIpc --------------------------------
(* IPC between threads of different processors (the SMP branches of         *)
(* api/v4/ipc.cc) and the activation of a thread of another processor       *)
(* (api/v4/sched-rr).  A sender announces itself by its state before it     *)
(* looks at the receiver under the receiver's lock; a receiver looks at its *)
(* sender under its own lock, but writes the sender's state without one.    *)
(* Threads to be activated go through a list of their processor, which that *)
(* processor empties before it looks for the next thread to run.            *)
(*                                                                          *)
(* Every access to what two processors share is a step.  The kernel is not  *)
(* interrupted; which of its threads a processor runs is left open.  Left   *)
(* out: IPC on one processor (Ipc), finite timeouts, aborts and migration,  *)
(* and transfers that fail.                                                 *)
EXTENDS Lists, FiniteSets

CONSTANTS
    Cpus, Threads, idle, null,
    anythread, nilthread,
    Home,               \* the processor of every thread
    Calls               \* the IPCs that every thread may issue

On(c) == {t \in Threads : Home[t] = c}
Ipcs == [to : Threads \cup {nilthread}, from : Threads \cup {nilthread, anythread},
         snd : {"zero", "never"}, rcv : {"zero", "never"}]

ASSUME XIpcAssumption ==
    /\ IsFiniteSet(Threads) /\ Home \in [Threads -> Cpus]
    /\ Threads \cap {idle, null, anythread, nilthread} = {}
    /\ anythread # nilthread
    /\ Calls \in [Threads -> SUBSET Ipcs]
    /\ \A t \in Threads : \A i \in Calls[t] :
           {i.to, i.from} \cap On(Home[t]) = {} /\ {i.to, i.from} # {nilthread}

VARIABLES
    state, partner, send_queue, tcb_lock,   \* of every TCB
    requeue,            \* smp_requeue_lists: a list per processor
    ready, current,     \* threads in ready queues; get_current_tcb()
    pc, req,            \* where a thread is in SYS_IPC, and with what
    other,              \* from_tcb, to_tcb: the thread it activates
    inbox               \* history: who sent to it since its receive began

tcbs == <<state, partner, send_queue, tcb_lock>>
sched == <<requeue, ready, current>>
vars == <<tcbs, sched, pc, req, other, inbox>>

TypeOK ==
    /\ state \in [Threads -> {"running", "polling", "locked_running", "waiting", "locked_waiting"}]
    /\ partner \in [Threads -> Threads \cup {anythread, nilthread}]
    /\ send_queue \in [Threads -> Seq(Threads)]
    /\ tcb_lock \in [Threads -> Threads \cup {null}]
    /\ requeue \in [Cpus -> Seq(Threads)]
    /\ ready \subseteq Threads
    /\ current \in [Cpus -> Threads \cup {idle}]
    /\ pc \in [Threads -> {"user", "send", "lock", "check", "block", "resumed", "transfer",
                           "activate", "insert", "sent", "receive", "select", "accept", "received"}]
    /\ req \in [Threads -> Ipcs]
    /\ other \in [Threads -> Threads]
    /\ inbox \in [Threads -> Seq(Threads)]

Runnable(s) == s \in {"running", "locked_running"}

Init ==
    /\ state = [t \in Threads |-> "running"]
    /\ partner = [t \in Threads |-> nilthread]
    /\ send_queue = [t \in Threads |-> <<>>]
    /\ tcb_lock = [t \in Threads |-> null]
    /\ requeue = [c \in Cpus |-> <<>>]
    /\ ready = Threads
    /\ current = [c \in Cpus |-> idle]
    /\ pc = [t \in Threads |-> "user"]
    /\ req = [t \in Threads |-> [to |-> nilthread, from |-> nilthread, snd |-> "never", rcv |-> "never"]]
    /\ other = [t \in Threads |-> t]
    /\ inbox = [t \in Threads |-> <<>>]

\* Thread t has come to this place of SYS_IPC and runs.
At(t, place) == pc[t] = place /\ current[Home[t]] = t
GoTo(t, place) == pc' = [pc EXCEPT ![t] = place]
Unlock(t) == tcb_lock' = [tcb_lock EXCEPT ![t] = null]
\* schedule(get_idle_tcb(), sched_ipcblk).
SwitchToIdle(t) == current' = [current EXCEPT ![Home[t]] = idle]

-----------------------------------------------------------------------------
(* The scheduler of a processor                                             *)

\* find_next_thread on the ready queue q.
FindNext(q) ==
    LET run == {t \in q : Runnable(state[t])}
    IN  IF run = {}
        THEN {[tcb |-> idle, ready |-> {}]}
        ELSE {[tcb |-> t, ready |-> q \ stale] : t \in run, stale \in SUBSET (q \ run)}

\* smp_requeue: the threads of the list that can run become ready.
Requeued(c) == {t \in Threads : InList(requeue[c], t) /\ Runnable(state[t])}

\* schedule(), in the idle loop or when the timer interrupts a thread.
Schedule(c, t) ==
    /\ current[c] \in {idle} \cup {u \in Threads : pc[u] = "user"}
    /\ requeue' = [requeue EXCEPT ![c] = <<>>]
    /\ \E next \in FindNext((ready \cap On(c)) \cup Requeued(c)) :
           /\ next.tcb = t
           /\ current' = [current EXCEPT ![c] = t]
           /\ ready' = (ready \ On(c)) \cup next.ready \cup ({current[c]} \ {t, idle})
    /\ UNCHANGED <<tcbs, pc, req, other, inbox>>

LinkedMut(t) == requeue[Home[t]] # <<>>
\* The pointer requeue of a TCB: NULL if it is in no list, and if it is the
\* last of its list.
Linked(t) == \E i \in 1..Len(requeue[Home[t]]) : requeue[Home[t]][i] = t /\ i < Len(requeue[Home[t]])

\* What follows remote_schedule, in the receive phase and in the send phase.
Activated(t) ==
    IF tcb_lock[t] = t
    THEN Unlock(t) /\ SwitchToIdle(t) /\ GoTo(t, "received")
    ELSE Unlock(other[t]) /\ GoTo(t, "sent") /\ UNCHANGED current

\* remote_schedule looks at the pointer without the lock of the list,
Activate(t) ==
    /\ At(t, "activate")
    /\ IF Linked(other[t]) THEN Activated(t) ELSE GoTo(t, "insert") /\ UNCHANGED <<tcb_lock, current>>
    /\ UNCHANGED <<state, partner, send_queue, requeue, ready, req, other, inbox>>

\* and inserts the thread with it.
Insert(t) ==
    /\ At(t, "insert")
    /\ requeue' = [requeue EXCEPT ![Home[other[t]]] = EnqueueHead(@, other[t])]
    /\ Activated(t)
    /\ UNCHANGED <<state, partner, send_queue, ready, req, other, inbox>>

-----------------------------------------------------------------------------
(* SYS_IPC: the send phase                                                  *)

Call(t, i) ==
    /\ At(t, "user")
    /\ req' = [req EXCEPT ![t] = i]
    /\ GoTo(t, IF i.to = nilthread THEN "receive" ELSE "send")
    /\ UNCHANGED <<tcbs, sched, other, inbox>>

\* The state is set before the partner is checked, for concurrent checks.
Send(t) ==
    /\ At(t, "send")
    /\ partner' = [partner EXCEPT ![t] = req[t].to]
    /\ state' = [state EXCEPT ![t] = "polling"]
    /\ GoTo(t, "lock")
    /\ UNCHANGED <<send_queue, tcb_lock, sched, req, other, inbox>>

LockReceiver(t) ==
    LET r == req[t].to
    IN  /\ At(t, "lock") /\ tcb_lock[r] = null
        /\ tcb_lock' = [tcb_lock EXCEPT ![r] = t]
        /\ GoTo(t, "check")
        /\ UNCHANGED <<state, partner, send_queue, sched, req, other, inbox>>

AcceptsMut(r, t) == state[r] \in {"waiting", "locked_waiting"} /\ partner[r] \in {t, anythread}
\* The receiver waits for this sender, or is locked for it.
Accepts(r, t) ==
    \/ state[r] = "waiting" /\ partner[r] \in {t, anythread}
    \/ state[r] = "locked_waiting" /\ partner[r] = t

SendReady(t) ==
    /\ At(t, "check") /\ Accepts(req[t].to, t)
    /\ GoTo(t, "transfer")
    /\ UNCHANGED <<tcbs, sched, req, other, inbox>>

SendZeroTimeout(t) ==
    /\ At(t, "check") /\ ~Accepts(req[t].to, t) /\ req[t].snd = "zero"
    /\ state' = [state EXCEPT ![t] = "running"]
    /\ Unlock(req[t].to) /\ GoTo(t, "user")
    /\ UNCHANGED <<partner, send_queue, sched, req, other, inbox>>

\* enqueue_send, and the lock is released ...
SendBlocked(t) ==
    /\ At(t, "check") /\ ~Accepts(req[t].to, t) /\ req[t].snd = "never"
    /\ send_queue' = [send_queue EXCEPT ![req[t].to] = EnqueueTail(@, t)]
    /\ Unlock(req[t].to) /\ GoTo(t, "block")
    /\ UNCHANGED <<state, partner, sched, req, other, inbox>>

\* ... before the state is set once more.
Block(t) ==
    /\ At(t, "block")
    /\ partner' = [partner EXCEPT ![t] = req[t].to]
    /\ state' = [state EXCEPT ![t] = "polling"]
    /\ SwitchToIdle(t) /\ GoTo(t, "resumed")
    /\ UNCHANGED <<send_queue, tcb_lock, requeue, ready, req, other, inbox>>

\* Activated by the receiver; its state is not checked again.
SendResume(t) ==
    LET r == req[t].to
    IN  /\ At(t, "resumed") /\ tcb_lock[r] = null
        /\ tcb_lock' = [tcb_lock EXCEPT ![r] = t]
        /\ send_queue' = [send_queue EXCEPT ![r] = Without(@, t)]
        /\ GoTo(t, "transfer")
        /\ UNCHANGED <<state, partner, sched, req, other, inbox>>

Transfer(t) ==
    LET r == req[t].to
    IN  /\ At(t, "transfer")
        /\ partner' = [partner EXCEPT ![r] = t]
        /\ state' = [state EXCEPT ![r] = "running"]
        /\ inbox' = [inbox EXCEPT ![r] = Append(@, t)]
        /\ other' = [other EXCEPT ![t] = r]
        /\ GoTo(t, "activate")
        /\ UNCHANGED <<send_queue, tcb_lock, sched, req>>

\* The receiver is unlocked; only now is the sender no longer polling.
Sent(t) ==
    /\ At(t, "sent")
    /\ state' = [state EXCEPT ![t] = "running"]
    /\ GoTo(t, IF req[t].from = nilthread THEN "user" ELSE "receive")
    /\ UNCHANGED <<partner, send_queue, tcb_lock, sched, req, other, inbox>>

-----------------------------------------------------------------------------
(* The receive phase                                                        *)

LockSelf(t) ==
    /\ At(t, "receive") /\ tcb_lock[t] = null
    /\ tcb_lock' = [tcb_lock EXCEPT ![t] = t]
    /\ GoTo(t, "select")
    /\ UNCHANGED <<state, partner, send_queue, sched, req, other, inbox>>

\* from_tcb.
Sender(t) ==
    IF req[t].from # anythread THEN req[t].from
    ELSE IF send_queue[t] = <<>> THEN null ELSE Head(send_queue[t])
Polls(s, t) == s # null /\ state[s] = "polling" /\ partner[s] = t

ReceiveZeroTimeout(t) ==
    /\ At(t, "select") /\ ~Polls(Sender(t), t) /\ req[t].rcv = "zero"
    /\ state' = [state EXCEPT ![t] = "running"]
    /\ Unlock(t) /\ GoTo(t, "user")
    /\ UNCHANGED <<partner, send_queue, sched, req, other, inbox>>

ReceiveBlocked(t) ==
    /\ At(t, "select") /\ ~Polls(Sender(t), t) /\ req[t].rcv = "never"
    /\ state' = [state EXCEPT ![t] = "waiting"]
    /\ partner' = [partner EXCEPT ![t] = req[t].from]
    /\ Unlock(t) /\ SwitchToIdle(t) /\ GoTo(t, "received")
    /\ UNCHANGED <<send_queue, requeue, ready, req, other, inbox>>

ReceiveReady(t) ==
    /\ At(t, "select") /\ Polls(Sender(t), t)
    /\ other' = [other EXCEPT ![t] = Sender(t)]
    /\ GoTo(t, "accept")
    /\ UNCHANGED <<tcbs, sched, req, inbox>>

AcceptMut(t) ==
    /\ At(t, "accept")
    /\ partner' = [partner EXCEPT ![t] = req[t].from]
    /\ state' = [state EXCEPT ![t] = "locked_waiting", ![other[t]] = "locked_running"]
    /\ Unlock(t) /\ SwitchToIdle(t) /\ GoTo(t, "received")
    /\ UNCHANGED <<send_queue, requeue, ready, req, other, inbox>>

\* The states of both are set, whatever the sender's is by now.
Accept(t) ==
    /\ At(t, "accept")
    /\ partner' = [partner EXCEPT ![t] = req[t].from]
    /\ state' = [state EXCEPT ![t] = "locked_waiting", ![other[t]] = "locked_running"]
    /\ GoTo(t, "activate")
    /\ UNCHANGED <<send_queue, tcb_lock, sched, req, other, inbox>>

Received(t) ==
    /\ At(t, "received")
    /\ state' = [state EXCEPT ![t] = "running"]
    /\ inbox' = [inbox EXCEPT ![t] = <<>>]
    /\ GoTo(t, "user")
    /\ UNCHANGED <<partner, send_queue, tcb_lock, sched, req, other>>

-----------------------------------------------------------------------------
\* What a thread in the kernel does next.
Kernel(t) ==
    \/ Send(t) \/ LockReceiver(t) \/ SendReady(t) \/ SendZeroTimeout(t) \/ SendBlocked(t)
    \/ Block(t) \/ SendResume(t) \/ Transfer(t) \/ Activate(t) \/ Insert(t) \/ Sent(t)
    \/ LockSelf(t) \/ ReceiveZeroTimeout(t) \/ ReceiveBlocked(t) \/ ReceiveReady(t)
    \/ Accept(t) \/ Received(t)

Next ==
    \/ \E t \in Threads : Kernel(t) \/ \E i \in Calls[t] : Call(t, i)
    \/ \E c \in Cpus, t \in Threads \cup {idle} : Schedule(c, t)

\* A processor goes on executing, and its timer and its idle loop give every
\* thread that can run its turn.
Fairness ==
    \A t \in Threads : WF_vars(Kernel(t)) /\ SF_vars(Schedule(Home[t], t))

Spec == Init /\ [][Next]_vars /\ Fairness
-----------------------------------------------------------------------------
(* Properties                                                               *)

Receiving(r) == pc[r] = "received"

\* A receive ends with one message, of a thread it asked for: nobody transfers
\* into a thread that does not receive, or has its message already, and nobody
\* returns from a receive without a message; though the states of two threads are
\* written by two processors.
OneMessage ==
    \A r \in Threads :
        /\ inbox[r] # <<>> =>
               Receiving(r) /\ Len(inbox[r]) = 1 /\ req[r].from \in {anythread, inbox[r][1]}
        /\ Receiving(r) /\ Runnable(state[r]) => inbox[r] # <<>>

Activating(s, t) == pc[s] \in {"activate", "insert"} /\ other[s] = t
\* A thread that can run does, or its processor knows, or is about to be told: the
\* test of remote_schedule without a lock, and its pointer that is NULL for the
\* last thread of a list, may insert a thread twice, but never lose it.
NoLostActivation ==
    \A t \in Threads : Runnable(state[t]) =>
        \/ current[Home[t]] = t \/ t \in ready \/ InList(requeue[Home[t]], t)
        \/ \E s \in Threads : Activating(s, t)

\* A sender that has set its state to polling when its receiver had already
\* told it to send: both wait for ever.
Forgotten(s, r) ==
    /\ pc[s] = "resumed" /\ state[s] = "polling" /\ req[s].to = r
    /\ Receiving(r) /\ state[r] = "locked_waiting" /\ other[r] = s
NobodyForgotten == \A s, r \in Threads : ~Forgotten(s, r)

\* A receiver that is locked for a sender gets its message, unless the sender is
\* forgotten, or a spinlock starves a processor: the locks of TCBs are not fair.
Starved(t) == <>[](pc[t] \in {"lock", "receive", "resumed"} /\ current[Home[t]] = t)
Rendezvous ==
    (\A t \in Threads : ~Starved(t)) =>
        \A r \in Threads : state[r] = "locked_waiting" ~>
            (state[r] # "locked_waiting" \/ \E s \in Threads : Forgotten(s, r))
=============================================================================
