------------------------------ MODULE SchedRR ------------------------------
(* The round-robin scheduler of one processor (api/v4/sched-rr): priority   *)
(* queues, timeslices that are charged to the thread that owns them and can *)
(* be donated, delayed preemption, the wakeup queue, total quanta, and the  *)
(* Schedule and ThreadSwitch system calls.  What the rest of the kernel     *)
(* does to threads (IPC, interrupts, ExchangeRegisters, ThreadControl) is   *)
(* here as far as it calls the scheduler.                                   *)
(*                                                                          *)
(* Time is counted in units of which a timer tick takes TickLength.         *)
EXTENDS Lists, Integers, FiniteSets

CONSTANTS
    Threads,            \* user threads
    idle,               \* the idle TCB
    null,               \* no TCB
    nil,                \* schedule_ctrl_t::nilctrl()
    MaxPrio,            \* MAX_PRIORITY
    TickLength,         \* get_timer_tick_length()
    U32,                \* the number of values of a u32_t
    Overdue,            \* bound: how far a timeslice may be overdrawn
    Params,             \* initial parameters of every TCB
    Requests,           \* Schedule() requests each thread may issue
    Privileged,         \* threads in a privileged address space
    Handlers,           \* threads that handle interrupts
    Yielders,           \* threads that call ThreadSwitch(nilthread)
    Donors,             \* threads that call ThreadSwitch(thread)
    Delayers,           \* threads that set and clear their delay flag
    HaltRights,         \* <<a, v>>: a may halt or resume v
    DeleteRights        \* <<a, v>>: a may delete v

Tcbs == Threads \cup {idle}
Prios == 0..MaxPrio
Expired == -1           \* TOTAL_QUANTUM_EXPIRED, all bits set

\* rr_sched_ktcb_t: priority, sensitive priority, timeslice length, what is
\* left of it, current and initial maximum delay, total quantum.
Ktcb == [prio : Prios, sens : Prios, len : Nat, slice : Int,
         delay : Nat, maxdelay : Nat, quantum : Nat \cup {Expired}]

\* schedule_req_t: the control words for priority, preemption and time.
Request == [dest : Threads,
            prio : Prios \cup {nil},
            preempt : [sens : Prios, maxdelay : Nat] \cup {nil},
            time : [len : Nat, quantum : Nat] \cup {nil}]

ASSUME ThreadAssumption ==
    IsFiniteSet(Threads) /\ idle \notin Threads /\ null \notin Tcbs
ASSUME NumberAssumption ==
    /\ MaxPrio \in Nat /\ TickLength \in Nat \ {0} /\ U32 \in Nat \ {0} /\ Overdue \in Nat
ASSUME ParamAssumption ==
    /\ Params \in [Tcbs -> Ktcb] /\ Params[idle].prio = 0
    /\ \A t \in Tcbs : Params[t].prio <= Params[t].sens
    /\ Requests \in [Threads -> SUBSET Request]
    /\ Privileged \cup Handlers \cup Yielders \cup Donors \cup Delayers \subseteq Threads
    /\ HaltRights \cup DeleteRights \subseteq Threads \X Threads

VARIABLES
    state,              \* thread_state_t, as far as the scheduler tells it apart
    sched,              \* sched_state
    delayed, pending,   \* preempt_flags_t in the UTCBs
    rq,                 \* prio_queue_t: queues, max_prio; the queue_state ready flags
    timeslice_tcb,      \* get_accounted_tcb(): whose timeslice is charged
    wakeup_list,        \* the wakeup queue
    current,            \* get_current_tcb()
    panic               \* UNIMPLEMENTED() has stopped the kernel

flags == <<delayed, pending>>
vars == <<state, sched, flags, rq, timeslice_tcb, wakeup_list, current, panic>>

States == {"running", "waiting_forever", "waiting_timeout", "halted", "aborted"}
Runnable(st) == {t \in Threads : st[t] = "running"}
Waiting(st) == {t \in Threads : st[t] \in {"waiting_forever", "waiting_timeout"}}

TypeOK ==
    /\ state \in [Threads -> States]
    /\ sched \in [Tcbs -> Ktcb]
    /\ delayed \subseteq Threads /\ pending \subseteq Threads
    /\ rq \in [list : [Prios -> Seq(Threads)], max : -1..MaxPrio, ready : SUBSET Threads]
    /\ timeslice_tcb \in Tcbs \cup {null}
    /\ wakeup_list \in Seq(Threads)
    /\ current \in Tcbs
    /\ panic \in BOOLEAN

\* The orders in which the threads of priority p can stand in a queue.
Orders(p) ==
    LET ts == {t \in Threads : Params[t].prio = p}
    IN  {q \in [1..Cardinality(ts) -> ts] : \A t \in ts : InList(q, t)}

\* Every thread runs and is queued; the idle thread has just started.
Init ==
    /\ state = [t \in Threads |-> "running"]
    /\ sched = Params
    /\ delayed = {} /\ pending = {}
    /\ rq \in [list : {l \in [Prios -> UNION {Orders(p) : p \in Prios}] :
                         \A p \in Prios : l[p] \in Orders(p)},
               max : {p \in Prios : /\ \A t \in Threads : Params[t].prio <= p
                                    /\ \E t \in Threads : Params[t].prio = p},
               ready : {Threads}]
    /\ timeslice_tcb = idle /\ current = idle
    /\ wakeup_list = <<>> /\ panic = FALSE

-----------------------------------------------------------------------------
(* prio_queue_t: values q of rq, the priorities being those of s            *)

EnqueueMut(q, s, t) ==
    IF t \in q.ready THEN q
    ELSE [q EXCEPT !.list[s[t].prio] = EnqueueTail(@, t), !.ready = @ \cup {t}]
Enqueue(q, s, t) ==
    IF t \in q.ready THEN q
    ELSE LET p == s[t].prio
         IN  [list |-> [q.list EXCEPT ![p] = EnqueueTail(@, t)],
              max |-> IF q.max < p THEN p ELSE q.max,
              ready |-> q.ready \cup {t}]

EnqueueFirst(q, s, t) ==
    IF t \in q.ready THEN q
    ELSE LET p == s[t].prio
         IN  [list |-> [q.list EXCEPT ![p] = EnqueueHead(@, t)],
              max |-> IF q.max < p THEN p ELSE q.max,
              ready |-> q.ready \cup {t}]

DequeueMut(q, s, t) == q
Dequeue(q, s, t) ==
    IF t \notin q.ready THEN q
    ELSE [q EXCEPT !.list[s[t].prio] = Without(@, t), !.ready = @ \ {t}]

NextFirstMut(q, s, t) == q
\* prio_queue_t::set(prio, ready_list.next): the queue from t's successor on.
NextFirst(q, s, t) ==
    LET p == s[t].prio
        l == q.list[p]
        i == CHOOSE k \in 1..Len(l) : l[k] = t
    IN  IF t \in q.ready
        THEN [q EXCEPT !.list[p] = SubSeq(l, i + 1, Len(l)) \o SubSeq(l, 1, i)]
        ELSE q

\* schedule() keeps the thread it switches away from ready.
CurrentQueued(q, s) == IF current = idle THEN q ELSE Enqueue(q, s, current)

-----------------------------------------------------------------------------
(* Policy                                                                   *)

\* find_next_thread: from max_prio down, threads that cannot run are dequeued
\* until one that can is met; it stays at the head of its queue.
FindNext(q, run) ==
    LET found == {p \in Prios : p <= q.max /\ \E i \in 1..Len(q.list[p]) : q.list[p][i] \in run}
        top == CHOOSE p \in found : \A r \in found : r <= p
        l == q.list[top]
        first == CHOOSE i \in 1..Len(l) : l[i] \in run /\ \A j \in 1..(i - 1) : l[j] \notin run
        list == [p \in Prios |->
                    IF p > q.max \/ (found # {} /\ p < top) THEN q.list[p]
                    ELSE IF found # {} /\ p = top THEN SubSeq(l, first, Len(l))
                    ELSE <<>>]
    IN  [tcb |-> IF found = {} THEN idle ELSE l[first],
         queue |-> [list |-> list,
                    max |-> IF found = {} THEN -1 ELSE top,
                    ready |-> {t \in q.ready : \E p \in Prios : InList(list[p], t)}]]

DelayPreemptionMut(t, dest) == t = dest \/ sched[t].delay > 0
\* rr_sched_ktcb_t::delay_preemption: may t delay its preemption by dest?
DelayPreemption(t, dest) ==
    \/ t = dest
    \/ sched[t].sens >= sched[dest].prio /\ sched[t].delay > 0

\* check_dispatch_thread: does dest preempt t?
CheckDispatch(t, dest) ==
    IF t \in delayed /\ sched[t].delay > 0
    THEN ~DelayPreemption(t, dest)
    ELSE sched[t].prio < sched[dest].prio

\* schedule() when the queues are q and the threads are in the states st.
\* With s, the scheduling parameters after the operation.
Schedule(q, s, st) ==
    LET next == FindNext(q, Runnable(st))
    IN  /\ timeslice_tcb' = next.tcb
        /\ current' = next.tcb
        /\ rq' = IF next.tcb = current THEN next.queue ELSE CurrentQueued(next.queue, s)

\* schedule(dest, sched_ipcblk), schedule(dest, sched_rcverr): the caller's
\* timeslice is donated.
Donate(dest) == current' = dest /\ UNCHANGED <<rq, timeslice_tcb>>

SwitchToMut(q, dest) == current' = dest /\ timeslice_tcb' = dest /\ rq' = q
\* schedule(dest, sched_dest) when the queues are q.
SwitchTo(q, dest) ==
    /\ current' = dest /\ timeslice_tcb' = dest
    /\ rq' = IF current = idle THEN q ELSE EnqueueFirst(q, sched, current)

\* cancel_timeout
CancelTimeout(t) == Without(wakeup_list, t)

\* schedule(dest, flags) with sched_chk and sched_c2r.
ScheduleCheck(dest) ==
    \/ CheckDispatch(current, dest) /\ SwitchTo(rq, dest)
    \/ /\ ~CheckDispatch(current, dest)
       /\ rq' = Enqueue(rq, sched, dest)
       /\ UNCHANGED <<current, timeslice_tcb>>

-----------------------------------------------------------------------------
(* System calls.  They are issued by a thread that runs in user mode, which *)
(* is no longer in the wakeup queue.                                        *)

UserMut(t) == ~panic /\ current = t
User(t) == ~panic /\ current = t /\ ~InList(wakeup_list, t)

\* A waiting thread receives t's message, t goes on: sched_sndonly.
Send(t, to) ==
    /\ User(t) /\ to \in Waiting(state)
    /\ state' = [state EXCEPT ![to] = "running"]
    /\ ScheduleCheck(to)
    /\ wakeup_list' = IF current' = to THEN wakeup_list ELSE CancelTimeout(to)
    /\ UNCHANGED <<sched, flags, panic>>

\* t waits, with or without a timeout, and runs the receiver of its message
\* or, if there is none, the idle thread: sched_ipcblk.
Block(t, to, how) ==
    /\ User(t)
    /\ state' = [s \in Threads |-> CASE s = t -> how [] s = to -> "running"
                                     [] OTHER -> state[s]]
    /\ wakeup_list' = IF how = "waiting_timeout" THEN EnqueueTail(wakeup_list, t)
                                                 ELSE wakeup_list
    /\ Donate(to)
    /\ UNCHANGED <<sched, flags, panic>>

\* t answers to and waits for from, which is waiting to send: sched_rplywt.
Answer(t, from, to) ==
    /\ User(t) /\ from # to
    /\ from \in Waiting(state) /\ to \in Waiting(state)
    /\ state' = [state EXCEPT ![from] = "running", ![to] = "running",
                              ![t] = "waiting_forever"]
    /\ \/ /\ CheckDispatch(from, to)
          /\ wakeup_list' = CancelTimeout(from)
          /\ rq' = Enqueue(rq, sched, from) /\ current' = to
       \/ /\ ~CheckDispatch(from, to)
          /\ UNCHANGED wakeup_list
          /\ rq' = Enqueue(rq, sched, to) /\ current' = from
    /\ UNCHANGED <<timeslice_tcb, sched, flags, panic>>

\* Back from a blocking operation the thread cancels its timeout.
LeaveQueue(t) ==
    /\ ~panic /\ current = t /\ InList(wakeup_list, t)
    /\ wakeup_list' = CancelTimeout(t)
    /\ UNCHANGED <<state, sched, flags, rq, timeslice_tcb, current, panic>>

\* ThreadSwitch to a thread that can run: the flag word is the sum of two
\* flag numbers, which sets neither sched_c2r nor rr_tsdonate.
ThreadSwitch(t, dest) ==
    /\ User(t) /\ t \in Donors
    /\ dest # t /\ dest \in Runnable(state)
    /\ current' = dest /\ timeslice_tcb' = dest
    /\ UNCHANGED <<state, sched, flags, rq, wakeup_list, panic>>

-----------------------------------------------------------------------------
(* End of a timeslice                                                       *)

\* end_of_timeslice on the queues q: the owner's queue moves on to its
\* successor, the current thread is queued last.
TimesliceQueuesMut(q, s) == NextFirst(q, s, timeslice_tcb)
TimesliceQueues(q, s) == Enqueue(NextFirst(q, s, timeslice_tcb), s, current)

\* account_timeslice and renew_timeslice take a u32_t.
AsU32(n) == n % U32
Charge(s, t, n) == [s EXCEPT ![t].slice = @ - AsU32(n)]
RenewMut(s, t, n) == [s EXCEPT ![current].slice = @ + AsU32(n)]
Renew(s, t, n) == [s EXCEPT ![t].slice = @ + AsU32(n)]

\* ThreadSwitch(nilthread): refresh the delay, use up the timeslice, end it.
Yield(t) ==
    LET refresh == sched[t].delay < sched[t].maxdelay
        s == IF refresh THEN [sched EXCEPT ![t].delay = sched[t].maxdelay] ELSE sched
        spent == Charge(s, timeslice_tcb, s[timeslice_tcb].slice)
    IN  /\ User(t) /\ t \in Yielders
        /\ pending' = IF refresh THEN pending \ {t} ELSE pending
        /\ sched' = Renew(spent, timeslice_tcb, spent[timeslice_tcb].len)
        /\ Schedule(TimesliceQueues(rq, sched), sched, state)
        /\ UNCHANGED <<state, delayed, wakeup_list, panic>>

-----------------------------------------------------------------------------
(* Timer interrupt.  The timeouts of the threads in due have expired.       *)

\* The kernel runs with interrupts disabled; the idle thread enables them in
\* processor_sleep, when schedule() has found nothing to run.
Interruptible ==
    /\ ~panic
    /\ IF current = idle THEN rq.ready \cap Runnable(state) = {} ELSE User(current)

\* parse_wakeup_queues: the threads it sets running, in the order it does so.
Woken(due) == Among(wakeup_list, {t \in due : state[t] # "waiting_forever"})

StateAfter(due) ==
    [t \in Threads |-> IF InList(Woken(due), t) THEN "running" ELSE state[t]]

QueuesAfter(due) ==
    LET new(p) == Among(Woken(due), {t \in Threads \ rq.ready : sched[t].prio = p})
        ps == {rq.max} \cup {p \in Prios : new(p) # <<>>}
    IN  [list |-> [p \in Prios |-> rq.list[p] \o new(p)],
         max |-> CHOOSE m \in ps : \A p \in ps : p <= m,
         ready |-> rq.ready \cup {t \in Threads : InList(Woken(due), t)}]

\* parse_wakeup_queues: the thread to run; the owner of the timeslice counts
\* for the thread that runs on it.
HighestWakeup(due) ==
    LET owner == IF CheckDispatch(current, timeslice_tcb) THEN timeslice_tcb ELSE current
        w == Woken(due)
        highest[i \in 0..Len(w)] ==
            IF i = 0 THEN owner
            ELSE IF CheckDispatch(highest[i - 1], w[i]) THEN w[i] ELSE highest[i - 1]
    IN  IF highest[Len(w)] = timeslice_tcb THEN current ELSE highest[Len(w)]

ParseWakeupQueues(due) ==
    /\ Interruptible
    /\ state' = StateAfter(due)
    /\ wakeup_list' = Among(wakeup_list, Threads \ due)

\* The idle thread schedules itself.
TickIdle(due) ==
    /\ ParseWakeupQueues(due)
    /\ current = idle
    /\ rq' = QueuesAfter(due)
    /\ UNCHANGED <<sched, flags, timeslice_tcb, current, panic>>

Owner == sched[timeslice_tcb]
Finite == Owner.len # 0
Over == Finite /\ Owner.slice - TickLength <= 0
Charged == IF Finite THEN Charge(sched, timeslice_tcb, TickLength) ELSE sched
Delays(due) == current \in delayed /\ DelayPreemption(current, HighestWakeup(due))

\* A thread of higher priority was woken up: switch to it.
WakeupPreemption(due) ==
    LET wakeup == HighestWakeup(due)
    IN  IF wakeup = current
        THEN rq' = QueuesAfter(due) /\ UNCHANGED <<current, timeslice_tcb>>
        ELSE SwitchTo(QueuesAfter(due), wakeup)

TickWithin(due) ==
    /\ ParseWakeupQueues(due)
    /\ current # idle /\ ~Over
    /\ sched' = Charged
    /\ WakeupPreemption(due)
    /\ UNCHANGED <<flags, panic>>

\* The timeslice is over, and the current thread may delay its preemption.
TickDelayed(due) ==
    /\ ParseWakeupQueues(due)
    /\ current # idle /\ Over /\ Delays(due)
    /\ Owner.slice > -Overdue
    /\ sched' = [Renew(Charged, timeslice_tcb, sched[current].delay)
                    EXCEPT ![current].delay = 0]
    /\ pending' = pending \cup {current}
    /\ WakeupPreemption(due)
    /\ UNCHANGED <<delayed, panic>>

\* Total quantum of the owner of the timeslice.
AccountQuantum(s, t) ==
    CASE s[t].quantum = 0 -> s
      [] s[t].quantum # 0 /\ s[t].quantum <= s[t].len ->
            [Renew(s, t, s[t].quantum) EXCEPT ![t].quantum = Expired]
      [] OTHER -> [s EXCEPT ![t].quantum = @ - AsU32(s[t].len)]

\* The timeslice is over.  total_quantum_expired is not implemented and stops
\* the kernel.
TickExpired(due) ==
    LET s == Renew(Charged, timeslice_tcb, Owner.len)
        q == TimesliceQueues(QueuesAfter(due), sched)
    IN  /\ ParseWakeupQueues(due)
        /\ current # idle /\ Over /\ ~Delays(due)
        /\ Owner.slice > -Overdue
        /\ IF Owner.quantum = Expired
           THEN /\ panic' = TRUE
                /\ sched' = s /\ rq' = q /\ timeslice_tcb' = null
                /\ UNCHANGED current
           ELSE /\ sched' = AccountQuantum(s, timeslice_tcb)
                /\ Schedule(q, sched', state')
                /\ UNCHANGED panic
        /\ UNCHANGED flags

TimerInterrupt ==
    \E due \in SUBSET {t \in Threads : InList(wakeup_list, t)} :
        TickIdle(due) \/ TickWithin(due) \/ TickDelayed(due) \/ TickExpired(due)

\* The idle thread runs schedule() in a loop.
IdleSchedule ==
    /\ ~panic /\ current = idle
    /\ Schedule(rq, sched, state)
    /\ UNCHANGED <<state, sched, flags, wakeup_list, panic>>

-----------------------------------------------------------------------------
(* The rest of the kernel                                                   *)

\* A device interrupt finds its handler waiting: sched_default.
Interrupt(h) ==
    /\ Interruptible
    /\ h \in Handlers \cap Waiting(state)
    /\ state' = [state EXCEPT ![h] = "running"]
    /\ ScheduleCheck(h)
    /\ UNCHANGED <<sched, flags, wakeup_list, panic>>

\* ExchangeRegisters
Halt(t, v) ==
    /\ User(t) /\ <<t, v>> \in HaltRights /\ state[v] = "running"
    /\ state' = [state EXCEPT ![v] = "halted"]
    /\ Schedule(rq, sched, state')
    /\ UNCHANGED <<sched, flags, wakeup_list, panic>>

Resume(t, v) ==
    /\ User(t) /\ <<t, v>> \in HaltRights /\ state[v] = "halted"
    /\ state' = [state EXCEPT ![v] = "running"]
    /\ Schedule(Enqueue(rq, sched, v), sched, state')
    /\ UNCHANGED <<sched, flags, wakeup_list, panic>>

\* ThreadControl: delete_tcb.
Delete(t, v) ==
    /\ User(t) /\ <<t, v>> \in DeleteRights /\ v # t /\ state[v] # "aborted"
    /\ state' = [state EXCEPT ![v] = "aborted"]
    /\ rq' = Dequeue(rq, sched, v)
    /\ wakeup_list' = IF v \in Waiting(state) THEN CancelTimeout(v) ELSE wakeup_list
    /\ timeslice_tcb' = IF timeslice_tcb = v THEN idle ELSE timeslice_tcb
    /\ UNCHANGED <<sched, flags, current, panic>>

\* The delay flag is in the UTCB, which its thread may write.
SetDelay(t) ==
    /\ User(t) /\ t \in Delayers
    /\ delayed' = IF t \in delayed THEN delayed \ {t} ELSE delayed \cup {t}
    /\ UNCHANGED <<state, sched, pending, rq, timeslice_tcb, wakeup_list, current, panic>>

\* check_schedule_parameters.  The sensitive priority it tests is that of the
\* priority control word: the highest one if there is none.
ValidRequest(t, r) ==
    /\ r.prio # nil => t \in Privileged \/ r.prio <= sched[t].prio
    /\ r.preempt # nil => (IF r.prio = nil THEN MaxPrio ELSE 0) <= sched[t].prio

\* commit_schedule_parameters
WithPriority(s, r) ==
    IF r.prio = nil THEN s
    ELSE [s EXCEPT ![r.dest].prio = r.prio,
                   ![r.dest].sens = IF @ < r.prio THEN r.prio ELSE @]
WithPreemption(s, r) ==
    IF r.preempt = nil THEN s
    ELSE [s EXCEPT ![r.dest].delay = r.preempt.maxdelay,
                   ![r.dest].maxdelay = r.preempt.maxdelay,
                   ![r.dest].sens = IF r.preempt.sens >= s[r.dest].prio
                                    THEN r.preempt.sens ELSE @]
WithTime(s, r) ==
    IF r.time = nil THEN s
    ELSE [s EXCEPT ![r.dest].len = r.time.len, ![r.dest].slice = r.time.len,
                   ![r.dest].quantum = r.time.quantum]

SysSchedule(t, r) ==
    /\ User(t) /\ r \in Requests[t]
    /\ state[r.dest] # "aborted" /\ ValidRequest(t, r)
    /\ rq' = IF r.prio = nil THEN rq
             ELSE Enqueue(Dequeue(rq, sched, r.dest), WithPriority(sched, r), r.dest)
    /\ sched' = WithTime(WithPreemption(WithPriority(sched, r), r), r)
    /\ UNCHANGED <<state, flags, timeslice_tcb, wakeup_list, current, panic>>

-----------------------------------------------------------------------------
(* Specification                                                            *)

IpcStep(t) ==
    \/ \E to \in Threads \ {t} : Send(t, to)
    \/ \E to \in Waiting(state) \cup {idle}, how \in {"waiting_forever", "waiting_timeout"} :
            Block(t, to, how)
    \/ \E from, to \in Threads \ {t} : Answer(t, from, to)
    \/ LeaveQueue(t)

SystemCall(t) ==
    \/ \E v \in Threads : ThreadSwitch(t, v) \/ Halt(t, v) \/ Resume(t, v) \/ Delete(t, v)
    \/ \E r \in Requests[t] : SysSchedule(t, r)
    \/ Yield(t) \/ SetDelay(t)

Next ==
    \/ \E t \in Threads : IpcStep(t) \/ SystemCall(t)
    \/ \E h \in Threads : Interrupt(h)
    \/ TimerInterrupt \/ IdleSchedule

Spec == Init /\ [][Next]_vars

\* The idle loop runs on, a thread that was woken leaves the wakeup queue, and
\* a timer interrupt that has something to do is taken as soon as the kernel
\* is left again: weak and strong fairness, with ENABLED spelled out.
Work == rq.ready \cap Runnable(state) # {}
TickDue == Interruptible /\ (wakeup_list # <<>> \/ (current # idle /\ Finite))
Fairness ==
    /\ []<>(current = idle /\ Work => panic)
    /\ []<>(current # idle /\ InList(wakeup_list, current) => panic)
    /\ []<>TickDue => []<><<TimerInterrupt>>_vars

FairSpec == Spec /\ Fairness

-----------------------------------------------------------------------------
(* Properties                                                               *)

\* The ready queues are exact: a thread whose ready flag is set stands in one
\* queue, once, that of its priority, and max_prio is not below it.
\* find_next_thread starts from max_prio and would never meet it otherwise.
QueuesExact ==
    /\ \A p \in Prios : \A i \in 1..Len(rq.list[p]) :
        LET t == rq.list[p][i]
        IN  /\ t \in rq.ready /\ sched[t].prio = p /\ p <= rq.max
            /\ \A j \in 1..Len(rq.list[p]) : rq.list[p][j] = t => j = i
    /\ \A t \in rq.ready : InList(rq.list[sched[t].prio], t)

\* A thread that can run is running or will be found by find_next_thread.
NoLostRunnable ==
    \A t \in Runnable(state) : t = current \/ t \in rq.ready

\* A thread that waits with a timeout is in the wakeup queue, and no thread is
\* in it twice, which would corrupt the list.
TimeoutArmed ==
    /\ \A t \in Threads : state[t] = "waiting_timeout" => InList(wakeup_list, t)
    /\ \A i, j \in 1..Len(wakeup_list) : wakeup_list[i] = wakeup_list[j] => i = j

\* When a timeslice ends, when it is yielded and when the idle thread looks
\* for work, no thread that can run has a higher priority than the one that
\* is dispatched (find_next_thread searches lists that hold stale entries,
\* from a cached highest priority).
HighestFirst ==
    [][ (IdleSchedule \/ (\E t \in Threads : Yield(t))
         \/ (\E due \in SUBSET Threads : TickExpired(due)))
        => \/ panic'
           \/ \A t \in Threads : state'[t] = "running" =>
                 /\ current' # idle
                 /\ sched'[t].prio <= sched'[current'].prio ]_vars

\* A thread woken by its timeout preempts the current thread if it has a
\* higher priority than the current thread and than the owner of the
\* timeslice, unless a thread with a delay budget is insensitive to it: a
\* delay flag, which any thread can set for itself, is not enough.
MayDelay(u, t) == u \in delayed /\ sched[u].delay > 0 /\ sched[u].sens >= sched[t].prio
HigherWakes ==
    [][ \A t \in Threads :
        (/\ TimerInterrupt /\ current # idle /\ ~panic'
         /\ InList(wakeup_list, t) /\ ~InList(wakeup_list', t) /\ state'[t] = "running"
         /\ sched[t].prio > sched[current].prio /\ sched[t].prio > Owner.prio
         /\ \A u \in Threads : ~MayDelay(u, t))
        => current' # idle /\ sched[current'].prio >= sched[t].prio ]_vars

\* A thread runs only while the timeslice it is charged to, its own or a
\* donated one, is not used up.
SliceLeft == current # idle /\ ~panic /\ Owner.len # 0 => Owner.slice > 0

\* Once a thread has no delay budget left it is not granted another delay.
\* New TCBs have a budget of 0 ("defacto disable delayed preemptions").
DelayNeedsBudget ==
    [][ (\E due \in SUBSET Threads : TickDelayed(due)) => sched[current].delay > 0 ]_vars

\* A ready thread of the highest priority is dispatched eventually.
TopReady(t) ==
    /\ t \in rq.ready /\ state[t] = "running"
    /\ \A u \in Threads : sched[u].prio <= sched[t].prio
RoundRobin == \A t \in Threads : TopReady(t) ~> (current = t \/ ~TopReady(t) \/ panic)

\* The scheduler implements the operations the rest of the kernel relies on.
D == INSTANCE Dispatcher WITH
        ready <- rq.ready,
        wakeup <- {t \in Threads : InList(wakeup_list, t)},
        runnable <- Runnable(state)
ImplementsDispatcher == D!Spec
=============================================================================
