----------------------------- MODULE Dispatcher -----------------------------
(* What the scheduler of a processor promises the rest of the kernel: every *)
(* step is one of the operations of Dispatch, on the threads the caller has *)
(* just made runnable or has just blocked.  Ipc is written against these    *)
(* operations; SchedRR implements them.                                     *)
EXTENDS Dispatch

VARIABLE runnable       \* the threads in a runnable state

vars == <<schedVars, wakeup, runnable>>

Init == /\ ready = Threads /\ runnable = Threads
        /\ current = idle /\ wakeup = {}

\* A message or an interrupt makes `to' runnable; the policy decides.
Offer(to) ==
    /\ to \notin runnable
    /\ runnable' = runnable \cup {to}
    /\ ScheduleCheck(to)
    /\ wakeup' \in {wakeup, IF current' = to THEN wakeup ELSE wakeup \ {to}}

\* The current thread blocks, with or without a timeout, and hands the
\* processor to a partner it makes runnable, or to the idle thread.
Block(to) ==
    /\ current # idle /\ to \notin runnable
    /\ runnable' = (runnable \ {current}) \cup ({to} \ {idle})
    /\ SwitchTo(to)
    /\ wakeup' \in {wakeup, wakeup \cup {current}}

\* The current thread answers `to' and waits for `from'.
Answer(from, to) ==
    /\ current # idle /\ from \notin runnable /\ to \notin runnable
    /\ runnable' = (runnable \ {current}) \cup {from, to}
    /\ ScheduleReplyWait(from, to)

\* The current thread stays runnable and lets `to' run, without being queued.
Donate(to) ==
    /\ current # idle /\ to \in runnable
    /\ SwitchTo(to)
    /\ UNCHANGED <<wakeup, runnable>>

Yield ==
    /\ current # idle
    /\ Schedule(ready \cup {current}, runnable)
    /\ UNCHANGED <<wakeup, runnable>>

IdleSchedule ==
    /\ current = idle
    /\ Schedule(ready, runnable)
    /\ UNCHANGED <<wakeup, runnable>>

\* Any of the armed timeouts may have expired, and the timeslice too.
Tick ==
    \E expired \in SUBSET wakeup : \E woken \in SUBSET expired :
        /\ wakeup' = wakeup \ expired
        /\ runnable' = runnable \cup woken
        /\ \/ /\ UNCHANGED current
              /\ ready' = ready \cup woken
           \/ /\ current # idle
              /\ current' \in woken
              /\ ready' = ready \cup woken \cup {current}
           \/ /\ current # idle
              /\ Schedule(ready \cup woken \cup {current}, runnable')

\* ExchangeRegisters halts or resumes a thread, then calls schedule().
Halt(v) ==
    /\ current # idle /\ v \in runnable
    /\ runnable' = runnable \ {v}
    /\ Schedule(ready, runnable')
    /\ UNCHANGED wakeup
Resume(v) ==
    /\ current # idle /\ v \notin runnable
    /\ runnable' = runnable \cup {v}
    /\ Schedule(ready \cup {v}, runnable')
    /\ UNCHANGED wakeup

\* ThreadControl deletes a thread, Schedule sets the parameters of one, and
\* a thread that was woken leaves the wakeup queue itself.
Delete(v) ==
    /\ current \notin {idle, v}
    /\ runnable' = runnable \ {v}
    /\ ready' = ready \ {v}
    /\ wakeup' \in {wakeup, wakeup \ {v}}
    /\ UNCHANGED current
Requeue(v) ==
    current # idle /\ ready' = ready \cup {v} /\ UNCHANGED <<current, wakeup, runnable>>
LeaveQueue == CancelTimeout(current) /\ UNCHANGED <<schedVars, runnable>>

Next ==
    \/ Yield \/ IdleSchedule \/ Tick \/ LeaveQueue
    \/ Block(idle)
    \/ \E t \in Threads :
        \/ Offer(t) \/ Block(t) \/ Donate(t) \/ Halt(t) \/ Resume(t)
        \/ Delete(t) \/ Requeue(t)
        \/ \E to \in Threads \ {t} : Answer(t, to)

Spec == Init /\ [][Next]_vars
=============================================================================
