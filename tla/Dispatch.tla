------------------------------ MODULE Dispatch ------------------------------
(* What the rest of the kernel sees of the scheduler of a processor: which  *)
(* TCB runs and which threads are in the ready queue.  The policy is left   *)
(* open: check_dispatch_thread may answer either way, and find_next_thread  *)
(* may pick any runnable thread of the ready queue.  SchedRR implements     *)
(* these operations with priorities, timeslices and queues.                 *)
(*                                                                          *)
(* `run' is the set of the threads that can run once the operation is over. *)
EXTENDS Naturals, FiniteSets

CONSTANTS Threads,      \* user threads (their TCBs)
          idle          \* the idle TCB

VARIABLES ready,        \* threads with queue_state_t::ready
          current,      \* get_current_tcb()
          wakeup        \* threads with queue_state_t::wakeup (an armed timeout)

schedVars == <<ready, current>>

\* find_next_thread on the queue q: some runnable member; non-runnable members
\* met on the way are dequeued, all of them when nothing is runnable.
FindNext(q, run) ==
    IF q \cap run = {}
    THEN {[tcb |-> idle, ready |-> {}]}
    ELSE {next \in [tcb : q \cap run, ready : SUBSET q] : q \cap run \subseteq next.ready}

\* schedule() when the ready queue is q: the search comes first, then the
\* thread switched away from is queued.
Schedule(q, run) ==
    \E next \in FindNext(q, run) :
        /\ current' = next.tcb
        /\ ready' = next.ready \cup ({current} \ {next.tcb, idle})

\* schedule(dest, flags) with sched_ds2: switch unconditionally.  Without
\* sched_c2r the current thread is not put into the ready queue.
SwitchTo(dest) == current' = dest /\ UNCHANGED ready

\* The ready queue once the current thread is in it (sched_c2r).
CurrentReadyMut == ready
CurrentReady == IF current = idle THEN ready ELSE ready \cup {current}

\* schedule(dest, flags) with sched_chk and sched_c2r: switch if the policy
\* prefers dest, else put dest into the ready queue.
ScheduleCheck(dest) ==
    \/ current' = dest /\ ready' = CurrentReady
    \/ current' = current /\ ready' = ready \cup {dest}

\* schedule(dest1, dest2, sched_rplywt): one of the two runs, the other is
\* put into the ready queue; dest1's timeout is cancelled if it does not run.
ScheduleReplyWaitMut(dest1, dest2) ==
    /\ \/ current' = dest2 /\ ready' = ready \cup {dest1}
       \/ current' = dest1 /\ ready' = ready \cup {dest2}
    /\ UNCHANGED wakeup
ScheduleReplyWait(dest1, dest2) ==
    \/ /\ current' = dest2 /\ ready' = ready \cup {dest1}
       /\ wakeup' = wakeup \ {dest1}
    \/ /\ current' = dest1 /\ ready' = ready \cup {dest2}
       /\ UNCHANGED wakeup

\* sched_ktcb_t::cancel_timeout.
CancelTimeoutMut(t) == UNCHANGED wakeup
CancelTimeout(t) == wakeup' = wakeup \ {t}
=============================================================================
