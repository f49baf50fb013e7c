------------------------------ MODULE Irq_proofs ------------------------------
(* Proofs about Irq, for any number of interrupts and handlers.              *)
EXTENDS Irq, Lists_proofs

-----------------------------------------------------------------------------
(* The inductive invariants                                                  *)

\* An interrupt thread that is not disabled has a handler.
HasHandler == \A i \in Irqs : state[i] \notin {null, "aborted"} => handler[i] \in Handlers

\* ThreadControl gives an interrupt another handler, or none, only while its
\* thread is in its loop and has not been told to send.
ChangesInLoop == \A x \in ChangeIn : x[2] = "loop" /\ x[1] # "locked_running"

\* An interrupt thread is in the send queue it polls on, and in no other.
InItsQueue ==
    \A i \in Irqs, h \in Handlers :
        InList(send_queue[h], i) <=> state[i] \in {"polling", "locked_running"} /\ partner[i] = h
QueuedOnce == \A h \in Handlers : Distinct(send_queue[h])

\* It polls on its handler,
PollsHandler ==
    \A i \in Irqs : state[i] \in {"polling", "locked_running"} => partner[i] = handler[i]

\* and waits in the middle of its loop for the acknowledgement of a message that
\* it has sent.
SentInLoop == \A i \in Irqs : goes_on[i] = "delivered" => state[i] \in {"waiting_forever", "running"}

LockedHasSender ==
    \A h \in exists : hstate[h] = "locked_waiting" =>
        \E i \in Irqs : state[i] = "locked_running" /\ partner[i] = h /\ goes_on[i] = "loop"

QueueInv == InItsQueue /\ QueuedOnce /\ PollsHandler /\ SentInLoop /\ LockedHasSender

-----------------------------------------------------------------------------
(* Types                                                                     *)

Inv == TypeOK /\ HasHandler

\* handle_interrupt is called for a thread that has a handler, if it is halted.
LEMMA HandleInterruptType ==
    ASSUME TypeOK, NEW i \in Irqs, NEW s, s = "halted" => handler[i] \in Handlers,
           HandleInterrupt(i, s)
    PROVE  /\ state' \in [Irqs -> States \cup {null}]
           /\ partner' \in [Irqs -> Handlers \cup {null}]
           /\ hstate' \in [Handlers -> {"running", "waiting", "locked_waiting"}]
           /\ send_queue' \in [Handlers -> Seq(Irqs)]
           /\ serving' \in [Handlers -> Irqs \cup {null}] /\ todo' \subseteq Handlers
           /\ \A j \in Irqs \ {i} : state'[j] = state[j]
<1> USE DEF TypeOK, States
<1>1. CASE s # "halted"
  BY <1>1 DEF HandleInterrupt
<1>2. CASE s = "halted"
  <2>1. handler[i] \in Handlers
    BY <1>2
  <2>2. Append(send_queue[handler[i]], i) \in Seq(Irqs)
    BY <2>1
  <2>3. CASE UNCHANGED <<partner, hstate, serving, todo, send_queue>>
    BY <1>2, <2>3 DEF HandleInterrupt, Deliver, ScheduleInterrupt
  <2>4. CASE Deliver(i, handler[i])
    BY <2>1, <2>4 DEF Deliver
  <2>5. CASE ScheduleInterrupt(i, handler[i])
    <3> DEFINE h == handler[i]
    <3>1. [send_queue EXCEPT ![h] = Append(@, i)] \in [Handlers -> Seq(Irqs)]
      BY <2>1, <2>2
    <3> QED
      BY <2>1, <2>5, <3>1 DEF ScheduleInterrupt, EnqueueTail
  <2>6. \/ UNCHANGED <<partner, hstate, serving, todo, send_queue>>
        \/ Deliver(i, handler[i]) \/ ScheduleInterrupt(i, handler[i])
    BY <1>2 DEF HandleInterrupt
  <2> QED
    BY <2>3, <2>4, <2>5, <2>6
<1> QED
  BY <1>1, <1>2

\* The receive phase finds an interrupt thread or none.
LEMMA ReceiveType ==
    ASSUME TypeOK, NEW h \in Handlers, NEW src \in Irqs \cup {anythread},
           NEW th \in [Irqs -> States \cup {null}], Receive(h, src, th)
    PROVE  /\ state' \in [Irqs -> States \cup {null}]
           /\ hstate' \in [Handlers -> {"running", "waiting", "locked_waiting"}]
           /\ from' \in [Handlers -> Irqs \cup {anythread}]
           /\ \A j \in Irqs : state'[j] = th[j] \/ (th[j] = "polling" /\ state'[j] = "locked_running")
<1> DEFINE i == Sender(h, src)
<1>1. i \in Irqs \cup {null}
  BY HeadInList DEF Sender, TypeOK
<1>2. CASE i # null /\ th[i] = "polling" /\ partner[i] = h
  <2>1. state' = [th EXCEPT ![i] = "locked_running"]
    BY <1>2 DEF Receive
  <2>2. hstate' = [hstate EXCEPT ![h] = "locked_waiting"] /\ from' = from
    BY <1>2 DEF Receive
  <2> HIDE DEF i
  <2> QED
    BY <1>1, <1>2, <2>1, <2>2 DEF TypeOK, States
<1>3. CASE ~(i # null /\ th[i] = "polling" /\ partner[i] = h)
  BY <1>3 DEF Receive, TypeOK
<1> QED
  BY <1>2, <1>3

\* Handlers, interrupt threads and the controller stay within their types.
LEMMA TypeStep == Inv /\ [Next]_vars => Inv'
<1> SUFFICES ASSUME Inv, [Next]_vars PROVE Inv'
  OBVIOUS
<1> USE DEF Inv, HasHandler, devices, table, threads, users
<1>1. ASSUME NEW i \in Irqs, Raise(i) PROVE Inv'
  BY <1>1 DEF TypeOK, Raise
<1>2. ASSUME NEW i \in Irqs, HandleIrq(i) PROVE Inv'
  <2>1. state[i] = "halted" => handler[i] \in Handlers
    BY IrqAssumption DEF States
  <2>2. CASE i \in EdgeTriggered /\ i \in masked
    BY <1>2, <2>2 DEF HandleIrq, TypeOK
  <2>3. CASE ~(i \in EdgeTriggered /\ i \in masked)
    <3>1. HandleInterrupt(i, state[i])
      BY <1>2, <2>3 DEF HandleIrq
    <3>2. state[i] = "halted" \/ state' = state
      BY <3>1 DEF HandleInterrupt
    <3> QED
      BY <1>2, <2>1, <2>3, <3>1, <3>2, HandleInterruptType DEF HandleIrq, TypeOK
  <2> QED
    BY <2>2, <2>3
<1>3. ASSUME NEW i \in Irqs, IrqThread(i) PROVE Inv'
  <2>1. handler[i] \in Handlers /\ state[i] # null
    BY <1>3, IrqAssumption DEF IrqThread, States
  <2>2. CASE Send(i)
    <3>1. Without(send_queue[handler[i]], i) \in Seq(Irqs)
      BY <2>1, WithoutType DEF TypeOK
    <3> QED
      BY <1>3, <2>1, <2>2, <3>1 DEF IrqThread, Send, TypeOK, States
  <2>3. CASE Acknowledged(i)
    <3>1. CASE i \in pending
      BY <1>3, <2>1, <2>3, <3>1, HandleInterruptType DEF IrqThread, Acknowledged, Unmask, TypeOK
    <3>2. CASE i \notin pending
      BY <1>3, <2>1, <2>3, <3>2 DEF IrqThread, Acknowledged, Unmask, TypeOK, States
    <3> QED
      BY <3>1, <3>2
  <2> QED
    BY <1>3, <2>2, <2>3 DEF IrqThread
<1>4. ASSUME NEW i \in Irqs, NEW h \in Handlers \cup {i}, ThreadControl(i, h) PROVE Inv'
  <2>1. send_queue' \in [Handlers -> Seq(Irqs)]
    <3>1. \A p \in Handlers : Without(send_queue[p], i) \in Seq(Irqs)
      BY WithoutType DEF TypeOK
    <3> QED
      BY <1>4, <3>1 DEF ThreadControl, TypeOK
  <2>2. h # i => h \in Handlers
    OBVIOUS
  <2>3. TypeOK'
    BY <1>4, <2>1 DEF ThreadControl, Enable, Disable, TypeOK, States
  <2>4. HasHandler'
    BY <1>4, <2>2 DEF ThreadControl, TypeOK, States
  <2> QED
    BY <2>3, <2>4
<1>5. ASSUME NEW h \in Handlers, Service(h) PROVE Inv'
  BY <1>5 DEF Service, TypeOK
<1>6. ASSUME NEW h \in Handlers, Delete(h) PROVE Inv'
  BY <1>6 DEF Delete, TypeOK
<1>7. ASSUME NEW h \in Handlers, NEW src \in Irqs \cup {anythread}, Wait(h, src) PROVE Inv'
  <2>1. Receive(h, src, state)
    BY <1>7 DEF Wait
  <2>2. state \in [Irqs -> States \cup {null}]
    BY DEF TypeOK
  <2>3. /\ state' \in [Irqs -> States \cup {null}]
        /\ hstate' \in [Handlers -> {"running", "waiting", "locked_waiting"}]
        /\ from' \in [Handlers -> Irqs \cup {anythread}]
        /\ \A j \in Irqs : state'[j] \in {null, "aborted"} <=> state[j] \in {null, "aborted"}
    BY <2>1, <2>2, ReceiveType, IrqAssumption DEF States
  <2> QED
    BY <1>7, <2>3 DEF Wait, TypeOK
<1>8. ASSUME NEW h \in Handlers, NEW src \in Irqs \cup {anythread}, ReplyWait(h, src) PROVE Inv'
  <2> DEFINE i == serving[h]
             th == [state EXCEPT ![i] = "running"]
  <2>1. i \in Irqs /\ th \in [Irqs -> States \cup {null}]
    BY <1>8 DEF ReplyWait, TypeOK, States
  <2>2. CASE state[i] = "waiting_forever" /\ partner[i] = h
    <3>1. Receive(h, src, th)
      BY <1>8, <2>2 DEF ReplyWait
    <3> HIDE DEF th
    <3>2. /\ state' \in [Irqs -> States \cup {null}]
          /\ hstate' \in [Handlers -> {"running", "waiting", "locked_waiting"}]
          /\ from' \in [Handlers -> Irqs \cup {anythread}]
          /\ \A j \in Irqs : state'[j] \in {null, "aborted"} <=> th[j] \in {null, "aborted"}
      BY <2>1, <3>1, ReceiveType, IrqAssumption DEF States
    <3>3. \A j \in Irqs : th[j] \in {null, "aborted"} <=> state[j] \in {null, "aborted"}
      BY <2>1, <2>2, IrqAssumption DEF th, TypeOK, States
    <3> QED
      BY <1>8, <3>2, <3>3 DEF ReplyWait, TypeOK
  <2>3. CASE ~(state[i] = "waiting_forever" /\ partner[i] = h)
    BY <1>8, <2>3 DEF ReplyWait, TypeOK
  <2> QED
    BY <2>2, <2>3
<1>9. CASE UNCHANGED vars
  BY <1>9 DEF vars, TypeOK
<1> QED
  BY <1>1, <1>2, <1>3, <1>4, <1>5, <1>6, <1>7, <1>8, <1>9 DEF Next

\* Interrupt threads, their handlers and the IO-APIC stay within their types.
THEOREM TypeCorrect == Spec => []Inv
<1>1. Init => Inv
  BY DEF Init, Inv, TypeOK, HasHandler, States
<1> QED
  BY <1>1, TypeStep, PTL DEF Spec

-----------------------------------------------------------------------------
(* Masking                                                                   *)

\* intctrl_t::unmask leaves an interrupt masked that it delivers again.
LEMMA MaskedStep == Inv /\ MaskedUntilAcknowledged /\ [Next]_vars => MaskedUntilAcknowledged'
<1> SUFFICES ASSUME Inv, MaskedUntilAcknowledged, [Next]_vars PROVE MaskedUntilAcknowledged'
  OBVIOUS
<1> USE DEF Inv, MaskedUntilAcknowledged, devices, table, threads, users
<1>1. ASSUME NEW i \in Irqs, Raise(i) PROVE MaskedUntilAcknowledged'
  BY <1>1 DEF Raise
<1>2. ASSUME NEW i \in Irqs, HandleIrq(i) PROVE MaskedUntilAcknowledged'
  <2>1. \A j \in Irqs \ {i} : state'[j] = state[j]
    BY <1>2 DEF HandleIrq, HandleInterrupt, Deliver, ScheduleInterrupt, TypeOK
  <2> QED
    BY <1>2, <2>1 DEF HandleIrq
<1>3. ASSUME NEW i \in Irqs, IrqThread(i) PROVE MaskedUntilAcknowledged'
  <2>1. CASE Send(i)
    BY <1>3, <2>1 DEF IrqThread, Send, TypeOK
  <2>2. CASE Acknowledged(i) /\ i \in pending
    <3>1. \A j \in Irqs \ {i} : state'[j] = state[j]
      BY <2>2 DEF Acknowledged, Unmask, HandleInterrupt, Deliver, ScheduleInterrupt, TypeOK
    <3> QED
      BY <2>2, <3>1 DEF Acknowledged, Unmask, TypeOK
  <2>3. CASE Acknowledged(i) /\ i \notin pending
    BY <2>3 DEF Acknowledged, Unmask, TypeOK
  <2> QED
    BY <1>3, <2>1, <2>2, <2>3 DEF IrqThread
<1>4. ASSUME NEW i \in Irqs, NEW h \in Handlers \cup {i}, ThreadControl(i, h)
      PROVE  MaskedUntilAcknowledged'
  BY <1>4 DEF ThreadControl, Enable, Disable, TypeOK
<1>5. ASSUME NEW h \in Handlers, Service(h) PROVE MaskedUntilAcknowledged'
  BY <1>5 DEF Service
<1>6. ASSUME NEW h \in Handlers, Delete(h) PROVE MaskedUntilAcknowledged'
  BY <1>6 DEF Delete
<1>7. ASSUME NEW h \in Handlers, NEW src \in Irqs \cup {anythread}, Wait(h, src)
      PROVE  MaskedUntilAcknowledged'
  BY <1>7 DEF Wait, Receive, TypeOK
<1>8. ASSUME NEW h \in Handlers, NEW src \in Irqs \cup {anythread}, ReplyWait(h, src)
      PROVE  MaskedUntilAcknowledged'
  BY <1>8 DEF ReplyWait, Receive, TypeOK
<1>9. CASE UNCHANGED vars
  BY <1>9 DEF vars
<1> QED
  BY <1>1, <1>2, <1>3, <1>4, <1>5, <1>6, <1>7, <1>8, <1>9 DEF Next

\* The device of an interrupt is not heard again before the handler has
\* acknowledged the message of the interrupt thread.
THEOREM StaysMasked == Spec => []MaskedUntilAcknowledged
<1>1. Init => MaskedUntilAcknowledged
  BY DEF Init, MaskedUntilAcknowledged
<1> QED
  BY <1>1, MaskedStep, TypeCorrect, PTL DEF Spec

-----------------------------------------------------------------------------
(* Send queues                                                               *)

\* handle_interrupt of a thread that is in no send queue.
LEMMA HandleInterruptQueues ==
    ASSUME Inv, QueueInv, NEW i \in Irqs, handler[i] \in Handlers,
           state[i] \notin {"polling", "locked_running"},
           HandleInterrupt(i, "halted"), UNCHANGED <<handler, exists>>,
           goes_on'[i] = "loop", \A j \in Irqs \ {i} : goes_on'[j] = goes_on[j]
    PROVE  QueueInv'
<1> DEFINE h == handler[i]
<1> USE DEF Inv, TypeOK
<1>1. \A p \in Handlers : ~InList(send_queue[p], i)
  BY DEF QueueInv, InItsQueue
<1>2. CASE state' = [state EXCEPT ![i] = "aborted"] /\ UNCHANGED <<partner, hstate, send_queue>>
  BY <1>1, <1>2 DEF QueueInv, InItsQueue, QueuedOnce, PollsHandler, SentInLoop, LockedHasSender
<1>3. CASE Deliver(i, h)
  <2>1. /\ state' = [state EXCEPT ![i] = "waiting_forever"] /\ partner' = [partner EXCEPT ![i] = h]
        /\ hstate' = [hstate EXCEPT ![h] = "running"] /\ send_queue' = send_queue
    BY <1>3 DEF Deliver
  <2>2. InItsQueue' /\ QueuedOnce'
    BY <1>1, <2>1 DEF QueueInv, InItsQueue, QueuedOnce
  <2>3. PollsHandler'
    BY <2>1 DEF QueueInv, PollsHandler
  <2>4. SentInLoop'
    BY <2>1 DEF QueueInv, SentInLoop
  <2>5. LockedHasSender'
    BY <2>1 DEF QueueInv, LockedHasSender
  <2> QED
    BY <2>2, <2>3, <2>4, <2>5 DEF QueueInv
<1>4. CASE ScheduleInterrupt(i, h)
  <2>1. /\ state' = [state EXCEPT ![i] = "polling"] /\ partner' = [partner EXCEPT ![i] = h]
        /\ send_queue' = [send_queue EXCEPT ![h] = Append(send_queue[h], i)] /\ hstate' = hstate
    BY <1>4 DEF ScheduleInterrupt, EnqueueTail
  <2>2. /\ \A u : InList(Append(send_queue[h], i), u) <=> InList(send_queue[h], u) \/ u = i
        /\ Distinct(Append(send_queue[h], i))
    BY <1>1, AppendMembers DEF QueueInv, QueuedOnce
  <2>3. InItsQueue'
    BY <1>1, <2>1, <2>2 DEF QueueInv, InItsQueue
  <2>4. QueuedOnce'
    BY <2>1, <2>2 DEF QueueInv, QueuedOnce
  <2>5. PollsHandler'
    BY <2>1 DEF QueueInv, PollsHandler
  <2>6. SentInLoop'
    BY <2>1 DEF QueueInv, SentInLoop
  <2>7. LockedHasSender'
    <3> SUFFICES ASSUME NEW g \in exists, hstate[g] = "locked_waiting"
                 PROVE  \E j \in Irqs : state'[j] = "locked_running" /\ partner'[j] = g
                                          /\ goes_on'[j] = "loop"
      BY <2>1 DEF LockedHasSender
    <3>1. PICK j \in Irqs : state[j] = "locked_running" /\ partner[j] = g /\ goes_on[j] = "loop"
      BY DEF QueueInv, LockedHasSender
    <3> QED
      BY <2>1, <3>1
  <2> QED
    BY <2>3, <2>4, <2>5, <2>6, <2>7 DEF QueueInv
<1> QED
  BY <1>2, <1>3, <1>4 DEF HandleInterrupt

\* The receive phase locks itself and the sender that it has found.
LEMMA ReceiveQueues ==
    ASSUME Inv, QueueInv, NEW h \in Handlers, NEW src \in Irqs \cup {anythread},
           NEW th \in [Irqs -> States \cup {null}], Receive(h, src, th),
           \A j \in Irqs : th[j] = state[j]
                            \/ (state[j] = "waiting_forever" /\ th[j] = "running"),
           UNCHANGED <<goes_on, handler, partner, exists, send_queue>>
    PROVE  QueueInv'
<1> DEFINE i == Sender(h, src)
<1> USE DEF Inv, TypeOK, States
<1>1. i \in Irqs \cup {null}
  BY HeadInList DEF Sender
<1>2. CASE i # null /\ th[i] = "polling" /\ partner[i] = h
  <2>1. state' = [th EXCEPT ![i] = "locked_running"] /\ hstate' = [hstate EXCEPT ![h] = "locked_waiting"]
    BY <1>2 DEF Receive
  <2> HIDE DEF i
  <2>2. i \in Irqs /\ state[i] = "polling" /\ partner[i] = h /\ goes_on[i] = "loop"
    BY <1>1, <1>2 DEF QueueInv, SentInLoop
  <2>3. InItsQueue' /\ QueuedOnce'
    BY <2>1, <2>2 DEF QueueInv, InItsQueue, QueuedOnce
  <2>4. PollsHandler' /\ SentInLoop'
    BY <2>1, <2>2 DEF QueueInv, PollsHandler, SentInLoop
  <2>5. LockedHasSender'
    BY <2>1, <2>2 DEF QueueInv, LockedHasSender
  <2> QED
    BY <2>3, <2>4, <2>5 DEF QueueInv
<1>3. CASE ~(i # null /\ th[i] = "polling" /\ partner[i] = h)
  <2>1. state' = th /\ hstate' = [hstate EXCEPT ![h] = "waiting"]
    BY <1>3 DEF Receive
  <2> QED
    BY <2>1 DEF QueueInv, InItsQueue, QueuedOnce, PollsHandler, SentInLoop, LockedHasSender
<1> QED
  BY <1>2, <1>3

\* Every interrupt thread that waits to send stays in the queue of its handler,
\* once.
LEMMA QueueStep ==
    ASSUME ChangesInLoop, Inv, QueueInv, [Next]_vars
    PROVE  QueueInv'
<1> USE DEF Inv, TypeOK, States, devices, table, threads, users
<1>1. ASSUME NEW i \in Irqs, Raise(i) PROVE QueueInv'
  BY <1>1 DEF Raise, QueueInv, InItsQueue, QueuedOnce, PollsHandler, SentInLoop, LockedHasSender
<1>2. ASSUME NEW i \in Irqs, HandleIrq(i) PROVE QueueInv'
  <2>1. CASE UNCHANGED <<state, partner, hstate, send_queue>>
    BY <1>2, <2>1
       DEF HandleIrq, QueueInv, InItsQueue, QueuedOnce, PollsHandler, SentInLoop, LockedHasSender
  <2>2. CASE state[i] = "halted" /\ HandleInterrupt(i, "halted")
    <3>1. handler[i] \in Handlers
      BY <2>2, IrqAssumption DEF HasHandler
    <3>2. goes_on[i] = "loop"
      BY <2>2 DEF QueueInv, SentInLoop
    <3> QED
      BY <1>2, <2>2, <3>1, <3>2, HandleInterruptQueues DEF HandleIrq
  <2> QED
    BY <1>2, <2>1, <2>2 DEF HandleIrq, HandleInterrupt
<1>3. ASSUME NEW i \in Irqs, IrqThread(i) PROVE QueueInv'
  <2> DEFINE h == handler[i]
  <2>1. h \in Handlers /\ state[i] \in {"locked_running", "running"}
    BY <1>3, IrqAssumption DEF IrqThread, HasHandler
  <2>2. CASE Send(i)
    <3>1. state[i] = "locked_running" /\ partner[i] = h
      BY <2>1, <2>2 DEF Send, InSendQueue, QueueInv, InItsQueue, PollsHandler
    <3>2. /\ send_queue' = [send_queue EXCEPT ![h] = Without(send_queue[h], i)]
          /\ state' = [state EXCEPT ![i] = "waiting_forever"]
          /\ goes_on' = [goes_on EXCEPT ![i] = "delivered"]
          /\ partner' = [partner EXCEPT ![i] = h]
          /\ hstate' = [hstate EXCEPT ![h] = "running"]
          /\ UNCHANGED <<handler, exists>>
      BY <1>3, <2>2 DEF IrqThread, Send
    <3>3. /\ \A u : u # i => (InList(Without(send_queue[h], i), u) <=> InList(send_queue[h], u))
          /\ Distinct(Without(send_queue[h], i)) /\ ~InList(Without(send_queue[h], i), i)
      BY <2>1, WithoutMembers DEF QueueInv, QueuedOnce
    <3>4. InItsQueue'
      BY <2>1, <3>1, <3>2, <3>3 DEF QueueInv, InItsQueue
    <3>5. QueuedOnce'
      BY <2>1, <3>2, <3>3 DEF QueueInv, QueuedOnce
    <3>6. PollsHandler' /\ SentInLoop'
      BY <2>1, <3>2 DEF QueueInv, PollsHandler, SentInLoop
    <3>7. LockedHasSender'
      BY <2>1, <3>1, <3>2 DEF QueueInv, LockedHasSender
    <3> QED
      BY <3>4, <3>5, <3>6, <3>7 DEF QueueInv
  <2>3. CASE Acknowledged(i)
    <3>1. state[i] = "running"
      BY <2>1, <2>3 DEF Acknowledged, InSendQueue, QueueInv, InItsQueue, PollsHandler, SentInLoop
    <3>2. CASE i \in pending
      BY <1>3, <2>1, <2>3, <3>1, <3>2, HandleInterruptQueues DEF IrqThread, Acknowledged, Unmask
    <3>3. CASE i \notin pending
      BY <1>3, <2>1, <2>3, <3>1, <3>3
         DEF IrqThread, Acknowledged, Unmask, QueueInv, InItsQueue, QueuedOnce, PollsHandler,
             SentInLoop, LockedHasSender
    <3> QED
      BY <3>2, <3>3
  <2> QED
    BY <1>3, <2>2, <2>3 DEF IrqThread
<1>4. ASSUME NEW i \in Irqs, NEW h \in Handlers \cup {i}, ThreadControl(i, h) PROVE QueueInv'
  <2>1. state[i] # "locked_running" /\ goes_on[i] = "loop"
    BY <1>4, IrqAssumption DEF ThreadControl, ChangesInLoop, QueueInv, SentInLoop
  <2>2. /\ state'[i] \in {"aborted", "halted"} /\ \A j \in Irqs \ {i} : state'[j] = state[j]
        /\ \A j \in Irqs \ {i} : handler'[j] = handler[j]
        /\ UNCHANGED <<goes_on, partner, exists, hstate>>
    BY <1>4 DEF ThreadControl
  <2>3. /\ \A p \in Handlers, u \in Irqs \ {i} : InList(send_queue'[p], u) <=> InList(send_queue[p], u)
        /\ \A p \in Handlers : ~InList(send_queue'[p], i) /\ Distinct(send_queue'[p])
    <3>1. CASE state[i] = "polling"
      <4>1. partner[i] \in Handlers
        BY <3>1, IrqAssumption DEF QueueInv, PollsHandler, HasHandler
      <4>2. send_queue' = [send_queue EXCEPT ![partner[i]] = Without(send_queue[partner[i]], i)]
        BY <1>4, <3>1 DEF ThreadControl
      <4>3. /\ \A u : u # i => (InList(Without(send_queue[partner[i]], i), u) <=> InList(send_queue[partner[i]], u))
            /\ Distinct(Without(send_queue[partner[i]], i)) /\ ~InList(Without(send_queue[partner[i]], i), i)
        BY <4>1, WithoutMembers DEF QueueInv, QueuedOnce
      <4> QED
        BY <3>1, <4>1, <4>2, <4>3 DEF QueueInv, InItsQueue, QueuedOnce
    <3>2. CASE state[i] # "polling"
      BY <1>4, <2>1, <3>2 DEF ThreadControl, QueueInv, InItsQueue, QueuedOnce
    <3> QED
      BY <3>1, <3>2
  <2>4. InItsQueue' /\ QueuedOnce'
    BY <2>2, <2>3 DEF QueueInv, InItsQueue, QueuedOnce
  <2>5. PollsHandler' /\ SentInLoop'
    BY <2>1, <2>2 DEF QueueInv, PollsHandler, SentInLoop
  <2>6. LockedHasSender'
    BY <2>1, <2>2 DEF QueueInv, LockedHasSender
  <2> QED
    BY <2>4, <2>5, <2>6 DEF QueueInv
<1>5. ASSUME NEW h \in Handlers, Service(h) PROVE QueueInv'
  BY <1>5 DEF Service, QueueInv, InItsQueue, QueuedOnce, PollsHandler, SentInLoop, LockedHasSender
<1>6. ASSUME NEW h \in Handlers, Delete(h) PROVE QueueInv'
  BY <1>6 DEF Delete, QueueInv, InItsQueue, QueuedOnce, PollsHandler, SentInLoop, LockedHasSender
<1>7. ASSUME NEW h \in Handlers, NEW src \in Irqs \cup {anythread}, Wait(h, src) PROVE QueueInv'
  <2>1. state \in [Irqs -> States \cup {null}]
    OBVIOUS
  <2> QED
    BY <1>7, <2>1, ReceiveQueues DEF Wait
<1>8. ASSUME NEW h \in Handlers, NEW src \in Irqs \cup {anythread}, ReplyWait(h, src) PROVE QueueInv'
  <2> DEFINE th == [state EXCEPT ![serving[h]] = "running"]
  <2>1. CASE state[serving[h]] = "waiting_forever" /\ partner[serving[h]] = h
    <3>1. /\ Receive(h, src, th) /\ th \in [Irqs -> States \cup {null}]
          /\ UNCHANGED <<goes_on, handler, partner, exists, send_queue>>
      BY <1>8, <2>1 DEF ReplyWait
    <3>2. \A j \in Irqs : th[j] = state[j] \/ (state[j] = "waiting_forever" /\ th[j] = "running")
      BY <2>1
    <3> HIDE DEF th
    <3> QED
      BY <3>1, <3>2, ReceiveQueues
  <2>2. CASE ~(state[serving[h]] = "waiting_forever" /\ partner[serving[h]] = h)
    BY <1>8, <2>2
       DEF ReplyWait, QueueInv, InItsQueue, QueuedOnce, PollsHandler, SentInLoop, LockedHasSender
  <2> QED
    BY <2>1, <2>2
<1>9. CASE UNCHANGED vars
  BY <1>9 DEF vars, QueueInv, InItsQueue, QueuedOnce, PollsHandler, SentInLoop, LockedHasSender
<1> QED
  BY <1>1, <1>2, <1>3, <1>4, <1>5, <1>6, <1>7, <1>8, <1>9 DEF Next

\* The send queues of handlers hold the interrupt threads that poll on them, each once, and
\* a handler that is locked for one will be sent its message, as long as
\* ThreadControl leaves a thread alone that is about to send or has sent.
THEOREM QueuesSound == ASSUME ChangesInLoop PROVE Spec => [](SendersQueued /\ QueuedOnce)
<1>1. Init => QueueInv
  BY EmptyList, IrqAssumption
     DEF Init, QueueInv, InItsQueue, QueuedOnce, PollsHandler, SentInLoop, LockedHasSender,
         Distinct, States
<1>2. Inv /\ QueueInv /\ [Next]_vars => QueueInv'
  BY ChangesInLoop, QueueStep
<1>3. QueueInv => SendersQueued /\ QueuedOnce
  BY DEF QueueInv, InItsQueue, LockedHasSender, SendersQueued
<1> QED
  BY <1>1, <1>2, <1>3, TypeCorrect, PTL DEF Spec
=============================================================================
