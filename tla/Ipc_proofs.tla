----------------------------- MODULE Ipc_proofs -----------------------------
(* Proofs about Ipc, for any number of threads, any address spaces, any     *)
(* rights and any set of IPCs.                                              *)
EXTENDS Ipc, Lists_proofs

\* The members of the type sets that the actions name.
LEMMA StateNames ==
    /\ {"running", "locked_running", "locked_running_ipc_done", "polling",
        "waiting_forever", "waiting_timeout", "locked_waiting", "halted",
        "aborted"} = States
    /\ "running" \in States /\ "polling" \in States /\ "halted" \in States
    /\ "aborted" \in States /\ "locked_running" \in States
    /\ "locked_waiting" \in States /\ "locked_running_ipc_done" \in States
    /\ Waiting \subseteq States
BY DEF States, Runnable, Sending, Receiving, Waiting

\* The records of calls, notifications and unwound threads have their types.
LEMMA RecordNames ==
    /\ NoCall \in CallType
    /\ NotNotified \in Notifications /\ NotifyError \in Notifications
    /\ \A st \in States : Notification("handle_ipc_timeout", st) \in Notifications
    /\ \A n \in Notifications : n.state \in States
    /\ \A t \in Threads : NoUnwind(t) \in Victims
    /\ \A c \in CallType : /\ c.to \in Threads \cup {nilthread, invalid}
                          /\ c.from \in Threads \cup NilIds \cup {invalid}
                          /\ c.virt \in Threads \cup {nilthread}
                          /\ \A p \in Threads \cup {nilthread} :
                               [c EXCEPT !.to = p, !.from = p] \in CallType
    /\ \A u \in Victims : u.victim \in Threads
BY StateNames
   DEF NoCall, CallType, NotNotified, NotifyError, Notification, Notifications,
       NoUnwind, Victims, NilIds, Timeouts

\* The initial threads have their types.
LEMMA TypeInit == Init => TypeOK
<1> SUFFICES ASSUME Init PROVE  TypeOK
  OBVIOUS
<1>1. partner \in [Threads -> Threads \cup NilIds]
  BY DEF Init, NilIds
<1>2. saved \in [Threads -> [state : States, partner : Threads \cup NilIds]]
  BY StateNames DEF Init, NotSaved, NilIds
<1>3. sendq \in [Threads -> Seq(Threads)]
  BY DEF Init
<1> QED
  BY <1>1, <1>2, <1>3, StateNames, RecordNames DEF Init, TypeOK, Frames

\* Scheduling keeps the types of the ready queue and the current thread.
LEMMA TypeSchedule ==
    ASSUME TypeOK
    PROVE  /\ CurrentReady \subseteq Threads
           /\ \A p \in Threads : ScheduleCheck(p) =>
                 current' \in Threads \cup {idle} /\ ready' \subseteq Threads
           /\ \A p, r \in Threads : ScheduleReplyWait(p, r) =>
                 /\ current' \in Threads \cup {idle} /\ ready' \subseteq Threads
                 /\ wakeup' \subseteq Threads
BY DEF TypeOK, CurrentReady, ScheduleCheck, ScheduleReplyWait

\* find_next_thread picks from the queue or the idle thread.
LEMMA TypeFindNext ==
    ASSUME NEW q \in SUBSET Threads, NEW run, NEW next \in FindNext(q, run)
    PROVE  next.tcb \in Threads \cup {idle} /\ next.ready \subseteq Threads
BY DEF FindNext

\* A switch to another thread keeps the types.
LEMMA TypeDispatch ==
    ASSUME TypeOK, NEW q \in SUBSET Threads,
           Schedule(q, CanRun(state)) \/ Schedule(q, CanRun(state'))
    PROVE  current' \in Threads \cup {idle} /\ ready' \subseteq Threads
BY TypeFindNext DEF Schedule, TypeOK

\* So do the operations on send queues.
LEMMA TypeQueues ==
    ASSUME TypeOK, NEW t \in Threads, NEW r \in Threads,
           EnqueueSend(t, r) \/ DequeueSend(t, r)
    PROVE  /\ sendq' \in [Threads -> Seq(Threads)]
           /\ sendflag' \subseteq Threads /\ failed' \subseteq Asserts
<1>1. Without(sendq[r], t) \in Seq(Threads)
  BY WithoutType DEF TypeOK
<1>2. Append(sendq[r], t) \in Seq(Threads)
  BY DEF TypeOK
<1>3. /\ [sendq EXCEPT ![r] = Without(sendq[r], t)] \in [Threads -> Seq(Threads)]
      /\ [sendq EXCEPT ![r] = Append(sendq[r], t)] \in [Threads -> Seq(Threads)]
  BY <1>1, <1>2, ExceptType DEF TypeOK
<1>4. sendq' \in [Threads -> Seq(Threads)]
  BY <1>3 DEF TypeOK, EnqueueSend, DequeueSend, EnqueueTail
<1>5. sendflag' \subseteq Threads /\ failed' \subseteq Asserts
  BY DEF TypeOK, EnqueueSend, DequeueSend, Asserts
<1> QED
  BY <1>4, <1>5

\* And leaving SYS_IPC.
LEMMA TypeReturn ==
    ASSUME TypeOK, NEW t \in Threads, NEW f \in Frames, Discarded(t, f)
    PROVE  /\ frame' \in [Threads -> Frames] /\ req' \in [Threads -> CallType]
           /\ sender_id' \in [Threads -> Threads]
BY RecordNames DEF TypeOK, Discarded

\* The end of an IPC keeps the types.
LEMMA TypeReturnIpc ==
    ASSUME TypeOK, NEW t \in Threads, ReturnIpc(t)
    PROVE  /\ frame' \in [Threads -> Frames] /\ req' \in [Threads -> CallType]
           /\ sender_id' \in [Threads -> Threads]
BY TypeReturn DEF ReturnIpc, ReturnFrame, Frames

\* A thread in the send phase has named somebody to send to, and the send phase
\* goes on only if that is a thread.
SendsToThread ==
    \A t \in Threads :
        /\ frame[t] = "send" => req[t].to \in Threads \cup {invalid}
        /\ frame[t] \in {"polling", "transfer"} => req[t].to \in Threads
        /\ frame[t] = "receive" => req[t].to \in Threads \cup {nilthread}

\* Every step of SYS_IPC and of the page-fault IPC keeps the types.
LEMMA TypeIpcStep ==
    ASSUME TypeOK, SendsToThread, NEW t \in Threads, IpcStep(t)
    PROVE  TypeOK'
<1> USE IdAssumption, StateNames, RecordNames
<1> USE DEF TypeOK, vars, tcbVars, stackVars, listVars, schedVars, At, GoTo, Frames
<1>1. CASE IpcCall(t)
  <2>1. PICK c \in Calls[t] : /\ req' = [req EXCEPT ![t] = c]
                             /\ GoTo(t, IF c.to = nilthread THEN "receive" ELSE "send")
    BY <1>1 DEF IpcCall
  <2>2. c \in CallType
    BY CallAssumption
  <2>3. req' \in [Threads -> CallType]
    BY <2>1, <2>2, ExceptType
  <2>4. frame' \in [Threads -> Frames] /\ mr' \in [Threads -> Threads \cup {ErrorTag}]
    BY <1>1, <2>1 DEF IpcCall
  <2> QED
    BY <1>1, <2>3, <2>4 DEF IpcCall
<1>2. CASE PageFault(t)
  <2> DEFINE r == [state |-> state[t], partner |-> partner[t]]
  <2>1. r \in [state : States, partner : Threads \cup NilIds]
    OBVIOUS
  <2>2. [saved EXCEPT ![t] = r] \in [Threads -> [state : States, partner : Threads \cup NilIds]]
    BY <2>1, ExceptType
  <2>3. saved' = [saved EXCEPT ![t] = r]
    BY <1>2 DEF PageFault
  <2>4. /\ req' \in [Threads -> CallType] /\ frame' \in [Threads -> Frames]
        /\ mr' \in [Threads -> Threads \cup {ErrorTag}]
    BY <1>2, PagerAssumption DEF PageFault
  <2> HIDE DEF r
  <2>5. saved' \in [Threads -> [state : States, partner : Threads \cup NilIds]]
    BY <2>2, <2>3
  <2>6. UNCHANGED <<state, partner, notify, sender_id, uw, listVars, schedVars, alive>>
    BY <1>2 DEF PageFault
  <2> QED
    BY <2>4, <2>5, <2>6
<1>3. CASE RestoreState(t)
  <2>1. saved[t].state \in States /\ saved[t].partner \in Threads \cup NilIds
    OBVIOUS
  <2>2. NotSaved \in [state : States, partner : Threads \cup NilIds]
    BY DEF NotSaved, NilIds
  <2>3. /\ state' \in [Threads -> States] /\ partner' \in [Threads -> Threads \cup NilIds]
        /\ frame' \in [Threads -> Frames]
    BY <1>3, <2>1 DEF RestoreState
  <2>4. saved' \in [Threads -> [state : States, partner : Threads \cup NilIds]]
    BY <1>3, <2>2, ExceptType DEF RestoreState
  <2> QED
    BY <1>3, <2>3, <2>4 DEF RestoreState
<1>4. CASE SendNonExisting(t)
  BY <1>4, TypeReturnIpc DEF SendNonExisting
<1>5. CASE SendZeroTimeout(t)
  BY <1>5, TypeReturnIpc DEF SendZeroTimeout
<1>6. CASE SendBlocked(t)
  BY <1>6, TypeQueues DEF SendBlocked, SwitchTo, SenderId, Propagated
<1>7. CASE SendReady(t)
  BY <1>7 DEF SendReady, SenderId, Propagated
<1>8. CASE SendResume(t)
  <2>1. wakeup' \subseteq Threads
    BY <1>8 DEF SendResume, CancelTimeout
  <2>2. req[t].to \in Threads
    BY <1>8 DEF SendResume, SendsToThread
  <2> QED
    BY <1>8, <2>1, <2>2, TypeQueues DEF SendResume
<1>9. CASE Transfer(t)
  <2> DEFINE p == [partner EXCEPT ![req[t].to] = sender_id[t]]
  <2>1. p \in [Threads -> Threads \cup NilIds]
    BY ExceptType
  <2>2. req[t].to \in Threads
    BY <1>9 DEF Transfer, SendsToThread
  <2>3. FixupPropagation(p, t, req[t].to) \in [Threads -> Threads \cup NilIds]
    BY <2>1, <2>2, ExceptType DEF FixupPropagation
  <2>4. partner' \in [Threads -> Threads \cup NilIds]
    BY <1>9, <2>3 DEF Transfer
  <2>5. mr' \in [Threads -> Threads \cup {ErrorTag}]
    BY <1>9 DEF Transfer
  <2>6. frame' \in [Threads -> Frames]
    BY <1>9 DEF Transfer
  <2> HIDE DEF p
  <2> QED
    BY <1>9, <2>4, <2>5, <2>6 DEF Transfer
<1>10. CASE TransferError(t)
  <2>1. req[t].to \in Threads
    BY <1>10 DEF TransferError, SendsToThread
  <2>2. /\ state' \in [Threads -> States] /\ mr' \in [Threads -> Threads \cup {ErrorTag}]
        /\ partner' \in [Threads -> Threads \cup NilIds]
        /\ ready' \subseteq Threads
    BY <1>10, <2>1 DEF TransferError
  <2>3. ReturnIpc(t)
    BY <1>10 DEF TransferError
  <2> QED
    BY <1>10, <2>2, <2>3, TypeReturnIpc DEF TransferError
<1>11. CASE SendOnly(t)
  <2>1. req[t].to \in Threads \cup {nilthread}
    BY <1>11 DEF SendOnly, SendsToThread
  <2>2. state' \in [Threads -> States]
    <3> DEFINE woken == IF saved[req[t].to].partner = nilthread
                        THEN "running" ELSE "locked_running_ipc_done"
    <3>1. woken \in States
      OBVIOUS
    <3>2. [state EXCEPT ![req[t].to] = woken, ![t] = "running"] \in [Threads -> States]
      BY <3>1, ExceptType
    <3>3. state' \in {state, [state EXCEPT ![req[t].to] = woken, ![t] = "running"]}
      BY <1>11 DEF SendOnly
    <3> HIDE DEF woken
    <3> QED
      BY <3>2, <3>3
  <2>5. wakeup' \subseteq Threads
    <3>1. wakeup' \in {wakeup, wakeup \ {req[t].to}}
      BY <1>11, Zenon DEF SendOnly
    <3> QED
      BY <3>1
  <2>3. current' \in Threads \cup {idle} /\ ready' \subseteq Threads
    BY <1>11, <2>1, TypeSchedule DEF SendOnly
  <2>4. ReturnIpc(t)
    BY <1>11 DEF SendOnly
  <2> QED
    BY <1>11, <2>2, <2>3, <2>4, <2>5, TypeReturnIpc DEF SendOnly
<1>12. CASE ReceiveNonExisting(t)
  BY <1>12, TypeReturnIpc DEF ReceiveNonExisting, Receives
<1>13. CASE ReceiveZeroTimeout(t)
  <2>1. req[t].to \in Threads \cup {nilthread}
    BY <1>13 DEF ReceiveZeroTimeout, Receives, SendsToThread
  <2>2. current' \in Threads \cup {idle} /\ ready' \subseteq Threads
    BY <1>13, <2>1 DEF ReceiveZeroTimeout, SwitchTo
  <2>3. /\ state' \in [Threads -> States] /\ mr' \in [Threads -> Threads \cup {ErrorTag}]
        /\ ReturnIpc(t)
    BY <1>13 DEF ReceiveZeroTimeout
  <2> QED
    BY <1>13, <2>2, <2>3, TypeReturnIpc DEF ReceiveZeroTimeout
<1>14. CASE ReceiveBlocked(t)
  <2>1. req[t].to \in Threads \cup {nilthread}
    BY <1>14 DEF ReceiveBlocked, Receives, SendsToThread
  <2>2. FromExists(t)
    BY <1>14 DEF ReceiveBlocked
  <2>3. req[t].from \in Threads \cup NilIds
    BY <2>2 DEF FromExists, NilIds
  <2> QED
    BY <1>14, <2>1, <2>3 DEF ReceiveBlocked, SwitchTo, Waiting
<1>15. CASE ReceiveAccept(t)
  <2> DEFINE locked(s) == [state EXCEPT ![s] = "locked_running", ![t] = "locked_waiting"]
  <2>1. PICK s \in Threads :
          IF req[t].to = nilthread
          THEN state' = locked(s) /\ SwitchTo(s) /\ UNCHANGED wakeup
          ELSE /\ state' = [locked(s) EXCEPT ![req[t].to] = "running"]
               /\ ScheduleReplyWait(s, req[t].to)
    BY <1>15 DEF ReceiveAccept, PollingSender, FromTcb
  <2>2. req[t].to \in Threads \cup {nilthread}
    BY <1>15 DEF ReceiveAccept, Receives, SendsToThread
  <2>3. /\ current' \in Threads \cup {idle} /\ ready' \subseteq Threads
        /\ wakeup' \subseteq Threads
    BY <2>1, <2>2, TypeSchedule DEF SwitchTo
  <2>4. locked(s) \in [Threads -> States]
    OBVIOUS
  <2>5. state' \in [Threads -> States]
    <3>1. [locked(s) EXCEPT ![req[t].to] = "running"] \in [Threads -> States]
      BY <2>4
    <3> HIDE DEF locked
    <3> QED
      BY <2>1, <2>4, <3>1
  <2>6. frame' \in [Threads -> Frames]
    BY <1>15 DEF ReceiveAccept
  <2> QED
    BY <1>15, <2>3, <2>5, <2>6 DEF ReceiveAccept
<1>16. CASE ReceiveResume(t)
  BY <1>16, TypeReturnIpc DEF ReceiveResume, CancelTimeout
<1> QED
  BY <1>1, <1>2, <1>3, <1>4, <1>5, <1>6, <1>7, <1>8, <1>9, <1>10, <1>11, <1>12, <1>13, <1>14,
     <1>15, <1>16
     DEF IpcStep

\* A nested unwind restores what was saved.
LEMMA TypeUnwound ==
    ASSUME TypeOK, NEW t \in Threads, NEW v \in Threads, Unwound(t, v)
    PROVE  /\ UnwoundTo(v) \in States
           /\ partner' \in [Threads -> Threads \cup NilIds]
           /\ saved' \in [Threads -> [state : States,
                                      partner : Threads \cup NilIds]]
           /\ frame' \in [Threads -> Frames]
<1>1. saved[v].state \in States /\ saved[v].partner \in Threads \cup NilIds
  BY StateNames DEF TypeOK
<1>2. NotSaved \in [state : States, partner : Threads \cup NilIds]
  BY StateNames DEF NotSaved, NilIds
<1>3. UnwoundTo(v) \in States
  BY <1>1, StateNames DEF UnwoundTo
<1>4. partner' \in [Threads -> Threads \cup NilIds] /\ frame' \in [Threads -> Frames]
  BY <1>1 DEF Unwound, GoTo, TypeOK, Frames
<1>5. saved' \in [Threads -> [state : States,
                             partner : Threads \cup NilIds]]
  <2>1. saved' \in {saved, [saved EXCEPT ![v] = NotSaved]}
    BY DEF Unwound
  <2>2. [saved EXCEPT ![v] = NotSaved] \in
            [Threads -> [state : States, partner : Threads \cup NilIds]]
    BY <1>2, ExceptType DEF TypeOK
  <2> QED
    BY <2>1, <2>2 DEF TypeOK
<1> QED
  BY <1>3, <1>4, <1>5

\* Every step of unwinding keeps the types.
LEMMA TypeUnwindStep ==
    ASSUME TypeOK, NEW t \in Threads, UnwindStep(t)
    PROVE  TypeOK'
<1> USE IdAssumption, StateNames, RecordNames
<1> USE DEF TypeOK, vars, tcbVars, stackVars, listVars, schedVars, At, GoTo, Frames
<1> DEFINE v == uw[t].victim
<1>0. v \in Threads
  OBVIOUS
<1>1. CASE UnwindUnstarted(t)
  <2>0. Unwound(t, v) /\ state' = [state EXCEPT ![v] = UnwoundTo(v)]
    BY <1>1 DEF UnwindUnstarted
  <2>1. state' \in [Threads -> States]
    BY <2>0, <1>0, TypeUnwound
  <2>2. wakeup' \subseteq Threads
    BY <1>1 DEF UnwindUnstarted, CancelTimeout
  <2>3. /\ sendq' \in [Threads -> Seq(Threads)]
        /\ sendflag' \subseteq Threads /\ failed' \subseteq Asserts
    <3>1. CASE DequeueSend(v, partner[v])
      <4>1. CASE partner[v] \in Threads
        BY <1>0, <3>1, <4>1, TypeQueues
      <4>2. CASE partner[v] \notin Threads
        <5>1. [sendq EXCEPT ![partner[v]] = Without(@, v)] = sendq
          <6>1. sendq \in [Threads -> Seq(Threads)]
            OBVIOUS
          <6> DEFINE rest == Without(sendq[partner[v]], v)
          <6> HIDE DEF rest, TypeOK
          <6>2. [sendq EXCEPT ![partner[v]] = rest] = sendq
            BY <4>2, <6>1, ExceptOutside
          <6> QED
            BY <6>2 DEF rest
        <5>2. sendq' = sendq
          BY <3>1, <5>1 DEF DequeueSend
        <5>3. sendflag' \subseteq Threads /\ failed' \subseteq Asserts
          BY ZenonT(40), <3>1 DEF DequeueSend, Asserts
        <5> QED
          BY <5>2, <5>3
      <4> QED
        BY <4>1, <4>2
    <3>2. CASE UNCHANGED <<sendq, sendflag, failed>>
      BY <3>2
    <3> QED
      BY <1>1, <3>1, <3>2 DEF UnwindUnstarted
  <2>4. UNCHANGED <<notify, req, sender_id, uw, schedVars, mr, alive>>
    BY <1>1 DEF UnwindUnstarted
  <2>5. /\ partner' \in [Threads -> Threads \cup NilIds]
        /\ saved' \in [Threads -> [state : States, partner : Threads \cup NilIds]]
        /\ frame' \in [Threads -> Frames]
    BY <1>0, <2>0, TypeUnwound
  <2> QED
    BY <2>1, <2>2, <2>3, <2>4, <2>5
<1>2. CASE UnwindLocked(t)
  <2>0. Unwound(t, v)
    BY <1>2 DEF UnwindLocked
  <2>4. UnwoundTo(v) \in States
    BY <2>0, <1>0, TypeUnwound
  <2>5. state' \in [Threads -> States]
    BY <1>2, <2>4 DEF UnwindLocked
  <2>1. /\ mr' \in [Threads -> Threads \cup {ErrorTag}]
        /\ notify' \in [Threads -> Notifications]
    BY <1>2 DEF UnwindLocked
  <2>2. AbortedPartner(v) \subseteq Threads
    BY DEF AbortedPartner
  <2>3. current' \in Threads \cup {idle} /\ ready' \subseteq Threads
    BY <1>2, <2>2, TypeSchedule DEF UnwindLocked
  <2> QED
    BY <1>0, <1>2, <2>0, <2>1, <2>3, <2>5, TypeUnwound DEF UnwindLocked
<1>3. CASE HandleIpcError(t)
  <2>1. Discarded(t, "user")
    BY <1>3 DEF HandleIpcError
  <2>2. NotSaved \in [state : States, partner : Threads \cup NilIds]
    BY DEF NotSaved, NilIds
  <2>3. saved' \in [Threads -> [state : States, partner : Threads \cup NilIds]]
    BY <1>3, <2>2, ExceptType DEF HandleIpcError
  <2>4. /\ notify' \in [Threads -> Notifications]
        /\ partner' \in [Threads -> Threads \cup NilIds]
    BY <1>3 DEF HandleIpcError, NilIds
  <2> QED
    BY <1>3, <2>1, <2>3, <2>4, TypeReturn DEF HandleIpcError
<1>4. CASE HandleIpcTimeout(t)
  BY <1>4 DEF HandleIpcTimeout
<1>5. CASE TimedOut(t)
  BY <1>5 DEF TimedOut
<1> QED
  BY <1>1, <1>2, <1>3, <1>4, <1>5 DEF UnwindStep

\* The halt section changes the state of one thread.
LEMMA HaltedType ==
    ASSUME NEW st \in [Threads -> States], NEW v \in Threads, NEW h
    PROVE  Halted(st, v, h) \in [Threads -> States]
BY StateNames, ExceptType DEF Halted

\* Every step of ExchangeRegisters and of the deletion keeps the types.
LEMMA TypeControlStep ==
    ASSUME TypeOK, NEW t \in Threads, ControlStep(t)
    PROVE  TypeOK'
<1> USE IdAssumption, StateNames, RecordNames
<1> USE DEF TypeOK, vars, tcbVars, stackVars, listVars, schedVars, At, GoTo, Frames
<1>1. CASE ExregsAborted(t)
  <2> DEFINE v == uw[t].victim
  <2>1. v \in Threads /\ [state EXCEPT ![v] = "running"] \in [Threads -> States]
    OBVIOUS
  <2>2. state' = Halted([state EXCEPT ![v] = "running"], v, uw[t].halt)
    BY <1>1 DEF ExregsAborted
  <2>5. state' \in [Threads -> States]
    BY <2>1, <2>2, HaltedType
  <2>3. current' \in Threads \cup {idle} /\ ready' \subseteq Threads
    <3>1. Schedule(ready \cup {v}, CanRun(state'))
      BY <1>1 DEF ExregsAborted
    <3>2. ready \cup {v} \in SUBSET Threads
      BY <2>1
    <3> QED
      BY <3>1, <3>2, TypeDispatch
  <2>4. /\ notify' \in [Threads -> Notifications] /\ frame' \in [Threads -> Frames]
        /\ mr' \in [Threads -> Threads \cup {ErrorTag}]
        /\ uw' \in [Threads -> Victims]
    BY <1>1 DEF ExregsAborted
  <2> QED
    BY <1>1, <2>3, <2>4, <2>5 DEF ExregsAborted
<1>2. CASE Deleted(t)
  <2>1. sendq' \in [Threads -> Seq(Threads)]
    <3>1. [sendq EXCEPT ![uw[t].victim] = <<>>] \in [Threads -> Seq(Threads)]
      BY EmptyQueue, ExceptType
    <3> QED
      BY <1>2, <3>1 DEF Deleted
  <2>2. /\ state' \in [Threads -> States] /\ frame' \in [Threads -> Frames]
        /\ uw' \in [Threads -> Victims]
    BY <1>2 DEF Deleted
  <2> QED
    BY <1>2, <2>1, <2>2 DEF Deleted
<1>3. CASE \E v \in Threads : ExregsAbort(t, v)
  <2>1. PICK v \in Threads : ExregsAbort(t, v)
    BY <1>3
  <2>2. \A h \in {"none", "halt"} :
          [victim |-> v, by |-> "exregs", halt |-> h] \in Victims
    BY DEF Victims
  <2>3. uw' \in [Threads -> Victims]
    <3>1. PICK h \in {"none", "halt"} :
            uw' = [uw EXCEPT ![t] = [victim |-> v, by |-> "exregs", halt |-> h]]
      BY <2>1 DEF ExregsAbort
    <3> QED
      BY <2>2, <3>1, ExceptType
  <2> QED
    BY <2>1, <2>3 DEF ExregsAbort
<1>4. CASE \E v \in Threads : ExregsHalt(t, v)
  <2>1. PICK v \in Threads : ExregsHalt(t, v)
    BY <1>4
  <2>2. state' \in [Threads -> States]
    <3>1. PICK h \in {"halt", "resume"} : state' = Halted(state, v, h)
      BY <2>1 DEF ExregsHalt
    <3>2. Halted(state, v, h) \in [Threads -> States]
      BY HaltedType
    <3> QED
      BY <3>1, <3>2
  <2>3. current' \in Threads \cup {idle} /\ ready' \subseteq Threads
    <3>1. Schedule(ready \cup {v}, CanRun(state')) \/ Schedule(ready, CanRun(state'))
      BY <2>1 DEF ExregsHalt
    <3>2. ready \cup {v} \in SUBSET Threads /\ ready \in SUBSET Threads
      OBVIOUS
    <3> QED
      <4> HIDE DEF TypeOK
      <4>1. CASE Schedule(ready \cup {v}, CanRun(state'))
        BY <3>2, <4>1, TypeDispatch
      <4>2. CASE Schedule(ready, CanRun(state'))
        BY <3>2, <4>2, TypeDispatch
      <4> QED
        BY <3>1, <4>1, <4>2
  <2> QED
    BY <2>1, <2>2, <2>3 DEF ExregsHalt
<1>5. CASE \E v \in Threads : Delete(t, v)
  <2>1. PICK v \in Threads : Delete(t, v)
    BY <1>5
  <2>2. [victim |-> v, by |-> "delete", halt |-> "none"] \in Victims
    BY DEF Victims
  <2> QED
    BY <2>1, <2>2 DEF Delete
<1> QED
  BY <1>1, <1>2, <1>3, <1>4, <1>5 DEF ControlStep

\* A tick and a turn of the idle loop keep the types.
LEMMA TypeTick ==
    ASSUME TypeOK, TimerInterrupt \/ IdleSchedule
    PROVE  TypeOK'
<1> USE IdAssumption, StateNames, RecordNames
<1> USE DEF TypeOK, vars, tcbVars, stackVars, listVars, schedVars
<1>1. CASE TimerInterrupt
  <2>1. PICK expired \in SUBSET wakeup :
          LET woken == {t \in expired : state[t] # "waiting_forever"}
              aborted == {t \in woken : state[t] \in Sending \cup Receiving}
          IN  /\ wakeup' = wakeup \ expired
              /\ notify' = [t \in Threads |->
                              IF t \in aborted
                              THEN Notification("handle_ipc_timeout", state[t])
                              ELSE notify[t]]
              /\ state' = [t \in Threads |-> IF t \in woken THEN "running" ELSE state[t]]
              /\ \/ UNCHANGED current /\ ready' = ready \cup woken
                 \/ /\ current # idle
                    /\ current' \in woken
                    /\ ready' = ready \cup woken \cup {current}
                 \/ /\ current # idle
                    /\ Schedule(ready \cup woken \cup {current}, CanRun(state'))
    BY <1>1, Zenon DEF TimerInterrupt
  <2> DEFINE woken == {t \in expired : state[t] # "waiting_forever"}
  <2>2. woken \subseteq Threads
    OBVIOUS
  <2>3. current' \in Threads \cup {idle} /\ ready' \subseteq Threads
    <3>1. CASE UNCHANGED current /\ ready' = ready \cup woken
      BY <2>2, <3>1
    <3>2. CASE current' \in woken /\ ready' = ready \cup woken \cup {current} /\ current # idle
      BY <2>2, <3>2
    <3>3. CASE current # idle /\ Schedule(ready \cup woken \cup {current}, CanRun(state'))
      <4>1. ready \cup woken \cup {current} \in SUBSET Threads
        BY <2>2, <3>3
      <4> QED
        BY <3>3, <4>1, TypeDispatch
    <3> QED
      BY <2>1, <3>1, <3>2, <3>3 DEF woken
  <2>4. wakeup' \subseteq Threads
    BY <2>1
  <2>5. state' \in [Threads -> States] /\ notify' \in [Threads -> Notifications]
    BY <2>1
  <2> QED
    BY <1>1, <2>3, <2>4, <2>5 DEF TimerInterrupt
<1>2. CASE IdleSchedule
  BY <1>2, TypeDispatch DEF IdleSchedule
<1> QED
  BY <1>1, <1>2

\* The send phase is entered with a thread to send to.
LEMMA SendsStep ==
    ASSUME TypeOK, SendsToThread, Next
    PROVE  SendsToThread'
<1> USE IdAssumption, PagerAssumption DEF TypeOK, SendsToThread, Unwound
<1> USE DEF vars, tcbVars, stackVars, listVars, schedVars, At, GoTo
<1>1. ASSUME NEW t \in Threads, IpcStep(t) PROVE SendsToThread'
  <2> USE DEF ReturnIpc, ReturnFrame, Discarded, NoCall
  <2>1. CASE IpcCall(t)
    <3>1. PICK c \in Calls[t] : /\ req' = [req EXCEPT ![t] = c]
                               /\ GoTo(t, IF c.to = nilthread THEN "receive" ELSE "send")
      BY <2>1 DEF IpcCall
    <3>2. c \in CallType
      BY CallAssumption
    <3>3. c.to \in Threads \cup {nilthread, invalid}
      BY <3>2, RecordNames
    <3> QED
      BY <3>1, <3>3
  <2>2. CASE PageFault(t)
    BY <2>2, RecordNames DEF PageFault
  <2>3. CASE SendBlocked(t) \/ SendReady(t)
    BY <2>3 DEF SendBlocked, SendReady
  <2>4. CASE SendResume(t) \/ Transfer(t)
    BY <2>4 DEF SendResume, Transfer
  <2>5. CASE ReceiveBlocked(t) \/ ReceiveAccept(t) \/ RestoreState(t)
    BY <2>5 DEF ReceiveBlocked, ReceiveAccept, RestoreState
  <2>6. CASE ReturnIpc(t)
    BY <2>6
  <2>7. CASE \/ SendNonExisting(t) \/ SendZeroTimeout(t) \/ TransferError(t) \/ SendOnly(t)
             \/ ReceiveNonExisting(t) \/ ReceiveZeroTimeout(t) \/ ReceiveResume(t)
    <3> HIDE DEF ReturnIpc
    <3> QED
      BY <2>6, <2>7 DEF SendNonExisting, SendZeroTimeout, TransferError, SendOnly,
                        ReceiveNonExisting, ReceiveZeroTimeout, ReceiveResume
  <2> QED
    BY <1>1, <2>1, <2>2, <2>3, <2>4, <2>5, <2>6, <2>7 DEF IpcStep
<1>2. ASSUME NEW t \in Threads, UnwindStep(t) PROVE SendsToThread'
  BY <1>2 DEF UnwindStep, UnwindUnstarted, UnwindLocked, HandleIpcError, HandleIpcTimeout,
              TimedOut, Discarded, NoCall
<1>3. ASSUME NEW t \in Threads, ControlStep(t) PROVE SendsToThread'
  <2>1. CASE ExregsAborted(t) \/ Deleted(t)
    BY <2>1 DEF ExregsAborted, Deleted
  <2>2. CASE \E v \in Threads : ExregsAbort(t, v)
    BY <2>2 DEF ExregsAbort
  <2>3. CASE \E v \in Threads : ExregsHalt(t, v)
    BY <2>3 DEF ExregsHalt
  <2>4. CASE \E v \in Threads : Delete(t, v)
    BY <2>4 DEF Delete
  <2> QED
    BY <1>3, <2>1, <2>2, <2>3, <2>4 DEF ControlStep
<1>4. CASE TimerInterrupt \/ IdleSchedule
  BY <1>4 DEF TimerInterrupt, IdleSchedule
<1> QED
  BY <1>1, <1>2, <1>3, <1>4 DEF Next

\* TypeOK is inductive together with SendsToThread: a thread in the send
\* phase queues itself at, and wakes, the thread its request names.
TypeInv == TypeOK /\ SendsToThread

\* Every step of the IPC path keeps the types.
LEMMA TypeInvInductive ==
    /\ Init => TypeInv
    /\ TypeInv /\ [Next]_vars => TypeInv'
<1>1. Init => TypeInv
  BY TypeInit DEF TypeInv, SendsToThread, Init
<1>2. ASSUME TypeInv, Next PROVE TypeInv'
  BY <1>2, TypeIpcStep, TypeUnwindStep, TypeControlStep, TypeTick, SendsStep
     DEF TypeInv, Next
<1>3. ASSUME TypeInv, UNCHANGED vars PROVE TypeInv'
  BY <1>3 DEF TypeInv, TypeOK, SendsToThread, vars, tcbVars, stackVars, listVars, schedVars
<1> QED
  BY <1>1, <1>2, <1>3

\* Type correctness of the kernel's IPC state: every state that SYS_IPC, the
\* timer, ExchangeRegisters and ThreadControl can reach has the declared types,
\* in particular no queue ever holds and no switch ever reaches a non-thread.
THEOREM TypeCorrect == Spec => []TypeOK
<1>1. TypeInv => TypeOK
  BY DEF TypeInv
<1> QED
  BY <1>1, TypeInvInductive, PTL DEF Spec

-----------------------------------------------------------------------------
(* No runnable thread is lost.  The two ways the code does lose one are     *)
(* excluded: timeslice donation with a zero receive timeout (sched_rcverr), *)
(* and a switch in the middle of another thread's unwind.                   *)

NoDonation == \A t \in Threads : \A c \in Calls[t] :
                c.rcv = "zero" => c.to = nilthread \/ c.from = nilthread
NoForeignUnwind == AbortRights = {} /\ DeleteRights = {}

DonatesNothing == \A t \in Threads :
    req[t].rcv = "zero" => req[t].to = nilthread \/ req[t].from = nilthread
UnwindsItself == \A t \in Threads : uw[t] = NoUnwind(t)
RunnableIsReady ==
    \A t \in Threads : state[t] \in Runnable => t \in ready \cup {current}

RunInv == TypeInv /\ DonatesNothing /\ UnwindsItself /\ RunnableIsReady

\* Requests come from Calls or are page faults, which wait for ever.
LEMMA DonatesStep ==
    ASSUME NoDonation, TypeOK, DonatesNothing, Next
    PROVE  DonatesNothing'
<1> USE DEF TypeOK, DonatesNothing, vars, tcbVars, stackVars, listVars, schedVars
<1>1. ASSUME NEW t \in Threads, IpcStep(t) PROVE DonatesNothing'
  <2>1. CASE ReturnIpc(t)
    BY <2>1 DEF ReturnIpc, Discarded, NoCall
  <2>2. CASE IpcCall(t)
    <3>1. PICK c \in Calls[t] : req' = [req EXCEPT ![t] = c]
      BY <2>2 DEF IpcCall
    <3> QED
      BY <3>1 DEF NoDonation
  <2>3. CASE PageFault(t)
    BY <2>3, CallAssumption, PagerAssumption, RecordNames DEF PageFault, NoCall
  <2>4. CASE UNCHANGED req
    BY <2>4
  <2> QED
    BY <1>1, <2>1, <2>2, <2>3, <2>4 DEF IpcStep, RestoreState, SendNonExisting,
       SendZeroTimeout, SendBlocked, SendReady, SendResume, Transfer, TransferError,
       SendOnly, ReceiveNonExisting, ReceiveZeroTimeout, ReceiveBlocked, ReceiveAccept,
       ReceiveResume
<1>2. ASSUME NEW t \in Threads, UnwindStep(t) PROVE DonatesNothing'
  <2>1. CASE HandleIpcError(t)
    BY <2>1 DEF HandleIpcError, Discarded, NoCall
  <2> QED
    BY <1>2, <2>1 DEF UnwindStep, UnwindUnstarted, UnwindLocked, HandleIpcTimeout, TimedOut
<1>3. ASSUME NEW t \in Threads, ControlStep(t) PROVE DonatesNothing'
  BY <1>3 DEF ControlStep, ExregsAborted, Deleted, ExregsAbort, ExregsHalt, Delete
<1>4. CASE TimerInterrupt \/ IdleSchedule
  BY <1>4 DEF TimerInterrupt, IdleSchedule
<1> QED
  BY <1>1, <1>2, <1>3, <1>4 DEF Next

\* Without rights over others a thread unwinds nobody but itself.
LEMMA UnwindsStep ==
    ASSUME NoForeignUnwind, TypeOK, UnwindsItself, Next
    PROVE  UnwindsItself'
<1> USE DEF UnwindsItself, NoForeignUnwind, vars, tcbVars, stackVars, listVars, schedVars
<1>1. ASSUME NEW t \in Threads, IpcStep(t) PROVE UnwindsItself'
  <2>1. UNCHANGED uw
    BY <1>1 DEF IpcStep, IpcCall, PageFault, RestoreState, SendNonExisting,
       SendZeroTimeout, SendBlocked, SendReady, SendResume, Transfer, TransferError,
       SendOnly, ReceiveNonExisting, ReceiveZeroTimeout, ReceiveBlocked, ReceiveAccept,
       ReceiveResume
  <2> QED
    BY <2>1
<1>2. ASSUME NEW t \in Threads, UnwindStep(t) PROVE UnwindsItself'
  BY <1>2 DEF UnwindStep, UnwindUnstarted, UnwindLocked, HandleIpcError, HandleIpcTimeout,
              TimedOut, TypeOK
<1>3. ASSUME NEW t \in Threads, ControlStep(t) PROVE UnwindsItself'
  BY <1>3 DEF ControlStep, ExregsAborted, Deleted, ExregsAbort, ExregsHalt, Delete, NoUnwind,
              TypeOK
<1>4. CASE TimerInterrupt \/ IdleSchedule
  BY <1>4 DEF TimerInterrupt, IdleSchedule
<1> QED
  BY <1>1, <1>2, <1>3, <1>4 DEF Next

\* A switch by IPC: whoever it makes runnable runs or is queued, and the
\* thread switched away from is queued or no longer runnable.
LEMMA RunnableIpcStep ==
    ASSUME RunInv, NEW t \in Threads, IpcStep(t)
    PROVE  RunnableIsReady'
<1> USE IdAssumption
<1> USE DEF RunInv, TypeInv, TypeOK, RunnableIsReady, Runnable, At
<1>1. CASE UNCHANGED <<state, schedVars>>
  BY <1>1 DEF schedVars
<1>2. CASE RestoreState(t)
  BY <1>2 DEF RestoreState, schedVars
<1>3. CASE SendZeroTimeout(t)
  BY <1>3 DEF SendZeroTimeout, schedVars
<1>4. CASE SendBlocked(t)
  BY <1>4 DEF SendBlocked, SwitchTo
<1>5. CASE TransferError(t)
  BY <1>5 DEF TransferError
<1>6. CASE SendOnly(t)
  BY <1>6 DEF SendOnly, ScheduleCheck, CurrentReady, schedVars
<1>7. CASE ReceiveZeroTimeout(t)
  BY <1>7 DEF ReceiveZeroTimeout, Receives, DonatesNothing, schedVars
<1>8. CASE ReceiveBlocked(t)
  BY <1>8 DEF ReceiveBlocked, Receives, SwitchTo
<1>9. CASE ReceiveAccept(t)
  <2>1. PICK s \in PollingSender(t) :
          IF req[t].to = nilthread
          THEN /\ state' = [state EXCEPT ![s] = "locked_running", ![t] = "locked_waiting"]
               /\ SwitchTo(s)
          ELSE /\ state' = [state EXCEPT ![s] = "locked_running", ![t] = "locked_waiting",
                                         ![req[t].to] = "running"]
               /\ ScheduleReplyWait(s, req[t].to)
    BY <1>9, Zenon DEF ReceiveAccept
  <2>2. s \in Threads /\ current = t
    BY <1>9 DEF ReceiveAccept, Receives, PollingSender, FromTcb
  <2>3. CASE req[t].to = nilthread
    BY <2>1, <2>2, <2>3 DEF SwitchTo
  <2>4. CASE req[t].to # nilthread
    <3> DEFINE to == req[t].to
    <3>1. to \in Threads
      BY <1>9, <2>4 DEF ReceiveAccept, Receives, SendsToThread
    <3> HIDE DEF to
    <3>2. \A x \in Threads \ {s, t, to} : state'[x] = state[x]
      BY <2>1, <2>4 DEF to
    <3>3. state'[t] \notin Runnable \/ t = to
      BY <2>1, <2>4 DEF to
    <3>4. ready \cup {s, to} \subseteq ready' \cup {current'}
      BY <2>1, <2>4 DEF to, ScheduleReplyWait
    <3> QED
      BY <2>2, <3>1, <3>2, <3>3, <3>4
  <2> QED
    BY <2>3, <2>4
<1>10. CASE ReceiveResume(t)
  BY <1>10 DEF ReceiveResume, schedVars
<1> QED
  BY <1>1, <1>2, <1>3, <1>4, <1>5, <1>6, <1>7, <1>8, <1>9, <1>10
     DEF IpcStep, IpcCall, PageFault, SendNonExisting, SendReady, SendResume, Transfer,
         ReceiveNonExisting, tcbVars

\* The partner that is aborted with a timed-out thread is queued or runs.
LEMMA RunnableUnwindStep ==
    ASSUME RunInv, NEW t \in Threads, UnwindStep(t)
    PROVE  RunnableIsReady'
<1> USE IdAssumption
<1> USE DEF RunInv, TypeInv, TypeOK, RunnableIsReady, At
<1>1. uw[t].victim = t
  BY DEF UnwindsItself, NoUnwind
<1>2. CASE UnwindUnstarted(t)
  BY <1>1, <1>2 DEF UnwindUnstarted, schedVars
<1>3. CASE UnwindLocked(t)
  <2> DEFINE ps == AbortedPartner(t)
  <2>1. /\ current = t
        /\ \A x \in Threads \ (ps \cup {t}) : state'[x] = state[x]
        /\ IF ps = {} THEN UNCHANGED schedVars ELSE \E p \in ps : ScheduleCheck(p)
    BY <1>1, <1>3, Zenon DEF UnwindLocked
  <2>2. \A p, q \in ps : p = q
    BY DEF AbortedPartner
  <2> HIDE DEF ps
  <2>3. CASE ps = {}
    BY <2>1, <2>3 DEF schedVars
  <2>4. CASE ps # {}
    <3>1. PICK p \in ps : ScheduleCheck(p)
      BY <2>1, <2>4
    <3>2. ps = {p}
      BY <2>2, <3>1
    <3>3. ready \cup {t, p} \subseteq ready' \cup {current'}
      BY <2>1, <3>1 DEF ScheduleCheck, CurrentReady
    <3> QED
      BY <2>1, <3>2, <3>3
  <2> QED
    BY <2>3, <2>4
<1>4. CASE HandleIpcError(t)
  BY <1>4 DEF HandleIpcError, schedVars
<1>5. CASE HandleIpcTimeout(t)
  BY <1>5 DEF HandleIpcTimeout, schedVars
<1>6. CASE TimedOut(t)
  BY <1>6 DEF TimedOut, schedVars
<1> QED
  BY <1>2, <1>3, <1>4, <1>5, <1>6 DEF UnwindStep

\* find_next_thread discards only threads that cannot run, and the thread
\* switched away from is queued.
LEMMA ScheduleLosesNobody ==
    ASSUME NEW q \in SUBSET Threads, NEW run \in SUBSET Threads, Schedule(q, run)
    PROVE  run \cap (q \cup ({current} \ {idle})) \subseteq ready' \cup {current'}
<1>1. PICK next \in FindNext(q, run) :
        /\ current' = next.tcb
        /\ ready' = next.ready \cup ({current} \ {next.tcb, idle})
  BY DEF Schedule
<1>2. run \cap q \subseteq next.ready
  BY <1>1 DEF FindNext
<1> QED
  BY <1>1, <1>2

\* Halting and resuming a thread by ExchangeRegisters leaves no runnable thread
\* out of the ready queue.
LEMMA RunnableControlStep ==
    ASSUME NoForeignUnwind, RunInv, NEW t \in Threads, ControlStep(t)
    PROVE  RunnableIsReady'
<1> USE IdAssumption
<1> USE DEF RunInv, TypeInv, TypeOK, RunnableIsReady, At
<1>1. uw[t].by = "timeout"
  BY DEF UnwindsItself, NoUnwind
<1>2. PICK v \in Threads : ExregsHalt(t, v)
  BY <1>1 DEF ControlStep, NoForeignUnwind, ExregsAbort, Delete, ExregsAborted, Deleted
<1>3. PICK h \in {"halt", "resume"} :
        /\ state' = Halted(state, v, h)
        /\ Schedule(IF h = "resume" THEN ready \cup {v} ELSE ready, CanRun(state'))
  BY <1>2 DEF ExregsHalt
<1> DEFINE q == IF h = "resume" THEN ready \cup {v} ELSE ready
           run == CanRun(state')
<1>4. run \subseteq q \cup {t}
  BY <1>2, <1>3 DEF Halted, Runnable, ExregsHalt, CanRun
<1>5. q \in SUBSET Threads /\ run \in SUBSET Threads /\ current = t
  BY <1>2 DEF CanRun, ExregsHalt
<1>6. \A x \in Threads : state'[x] \in Runnable => x \in run
  BY DEF CanRun
<1>7. Schedule(q, run)
  BY <1>3
<1> HIDE DEF q, run
<1>8. run \cap (q \cup ({t} \ {idle})) \subseteq ready' \cup {current'}
  BY <1>5, <1>7, ScheduleLosesNobody
<1> QED
  BY <1>4, <1>5, <1>6, <1>8

\* Neither does a timer tick.
LEMMA RunnableTick ==
    ASSUME RunInv, TimerInterrupt \/ IdleSchedule
    PROVE  RunnableIsReady'
<1> USE IdAssumption
<1> USE DEF RunInv, TypeInv, TypeOK, RunnableIsReady
<1> DEFINE run == CanRun(state')
<1>0. /\ run \in SUBSET Threads
      /\ \A x \in Threads : state'[x] \in Runnable => x \in run
  BY DEF CanRun
<1>1. CASE TimerInterrupt
  <2>1. PICK expired \in SUBSET wakeup :
          /\ state' = [t \in Threads |-> IF t \in {x \in expired : state[x] # "waiting_forever"}
                                         THEN "running" ELSE state[t]]
          /\ \/ /\ UNCHANGED current
                /\ ready' = ready \cup {x \in expired : state[x] # "waiting_forever"}
             \/ /\ current # idle
                /\ ready' = ready \cup {x \in expired : state[x] # "waiting_forever"} \cup {current}
             \/ /\ current # idle
                /\ Schedule(ready \cup {x \in expired : state[x] # "waiting_forever"}
                              \cup {current}, CanRun(state'))
    BY <1>1, Zenon DEF TimerInterrupt
  <2> DEFINE woken == {x \in expired : state[x] # "waiting_forever"}
             q == ready \cup woken \cup {current}
  <2>2. \A x \in Threads : state'[x] \in Runnable => x \in q
    BY <2>1
  <2>6. current # idle => q \in SUBSET Threads
    BY <2>1
  <2> HIDE DEF woken
  <2>3. CASE UNCHANGED current /\ ready' = ready \cup woken
    BY <2>2, <2>3
  <2>4. CASE current # idle /\ ready' = ready \cup woken \cup {current}
    BY <2>2, <2>4
  <2>5. CASE current # idle /\ Schedule(q, run)
    <3> HIDE DEF q, run
    <3>1. run \cap (q \cup ({current} \ {idle})) \subseteq ready' \cup {current'}
      BY <1>0, <2>5, <2>6, ScheduleLosesNobody
    <3> QED
      BY <1>0, <2>2, <3>1
  <2> QED
    BY <2>1, <2>3, <2>4, <2>5 DEF woken
<1>2. CASE IdleSchedule
  <2>1. Schedule(ready, run) /\ current = idle /\ UNCHANGED state
    BY <1>2 DEF IdleSchedule, tcbVars
  <2> HIDE DEF run
  <2>2. run \cap (ready \cup ({current} \ {idle})) \subseteq ready' \cup {current'}
    BY <1>0, <2>1, ScheduleLosesNobody
  <2> QED
    BY <1>0, <2>1, <2>2
<1> QED
  BY <1>1, <1>2

\* Every thread that can run is running or in the ready queue, whatever IPCs
\* the threads issue in whatever order and whenever ticks come, as long as no
\* IPC sends and polls with a zero timeout and nobody unwinds anybody else.
THEOREM RunnableNotLost ==
    ASSUME NoDonation, NoForeignUnwind
    PROVE  Spec => []NoLostRunnable
<1>1. Init => RunInv
  BY TypeInvInductive DEF RunInv, Init, DonatesNothing, UnwindsItself, RunnableIsReady, NoCall
<1>2. ASSUME RunInv, Next PROVE RunInv'
  <2>1. TypeInv' /\ DonatesNothing' /\ UnwindsItself'
    BY <1>2, NoDonation, NoForeignUnwind, TypeInvInductive, DonatesStep, UnwindsStep
       DEF RunInv, TypeInv
  <2>2. RunnableIsReady'
    BY <1>2, NoForeignUnwind, RunnableIpcStep, RunnableUnwindStep, RunnableControlStep,
       RunnableTick DEF Next
  <2> QED
    BY <2>1, <2>2 DEF RunInv
<1>3. ASSUME RunInv, UNCHANGED vars PROVE RunInv'
  <2>1. TypeInv'
    BY <1>3, TypeInvInductive DEF RunInv
  <2> QED
    BY <1>3, <2>1 DEF RunInv, DonatesNothing, UnwindsItself, RunnableIsReady,
                      vars, tcbVars, stackVars, schedVars
<1>4. RunInv => NoLostRunnable
  BY DEF RunInv, TypeInv, TypeOK, RunnableIsReady, NoLostRunnable
<1> QED
  BY <1>1, <1>2, <1>3, <1>4, PTL DEF Spec

-------------------------------------------------------------------------------

\* Transfers, for any threads and calls, as long as nobody unwinds anybody else.

\* Woken by IPC or by ExchangeRegisters, or halted since.
AtRest == {"running", "halted"}
Woken == AtRest \cup {"locked_running_ipc_done"}
TimedOutIn(t, st) == state[t] \in AtRest /\ notify[t] = Notification("handle_ipc_timeout", st)

\* What a thread's place in the kernel says of its state.
PlaceOK(t) ==
    /\ frame[t] \in {"user", "restore"} =>
           state[t] \in AtRest \cup {"locked_running"} /\ notify[t] = NotNotified
    /\ frame[t] \in {"send", "transfer", "receive", "unwind", "unwound"} => current = t
    /\ frame[t] \in {"send", "transfer", "receive", "unwind"} => notify[t] = NotNotified
    /\ frame[t] \in {"send", "transfer", "receive"} => state[t] \in {"running", "locked_running"}
    /\ frame[t] = "polling" =>
           \/ state[t] \in Sending /\ notify[t] = NotNotified
           \/ TimedOutIn(t, "polling")
    /\ frame[t] = "waiting" =>
           \/ state[t] \in Waiting \cup Woken /\ notify[t] = NotNotified
           \/ TimedOutIn(t, "waiting_timeout")
    /\ frame[t] = "accepted" => state[t] \in Woken \cup {"locked_waiting"} /\ notify[t] = NotNotified
    /\ frame[t] = "unwind" => state[t] \in {"polling", "waiting_timeout"}
    /\ frame[t] = "unwound" => state[t] = "running" /\ notify[t] \in {NotNotified, NotifyError}
    /\ current = t /\ frame[t] = "polling" => state[t] # "polling"
    /\ current = t => state[t] # "halted"
PlacesOK == \A t \in Threads : PlaceOK(t)

\* What a page fault interrupted is kept until its IPC is over, which has no
\* timeout: so no timeout ever undoes a nested IPC.
FaultOK(t) ==
    /\ saved[t] # NotSaved =>
           /\ saved[t].state \in {"running", "locked_running"}
           /\ frame[t] \notin {"user", "unwind", "unwound"}
           /\ req[t].snd = "never" /\ req[t].rcv = "never" /\ t \notin wakeup
           /\ notify[t].fn # "handle_ipc_timeout"
    /\ frame[t] = "restore" => saved[t] # NotSaved
FaultsOK == \A t \in Threads : FaultOK(t)

\* t is about to transfer to, or to wake, a receiver.
HasReceiver(t) == frame[t] \in {"transfer", "receive"} /\ req[t].to # nilthread
\* s is locked on r.  An abandoned sender may stay locked running for its next
\* IPCs, so the lock is the receiver's state once s is past its send queue.
LockOn(s, r) == /\ state[s] = "locked_running" /\ req[s].to = r
                /\ \/ frame[s] = "polling"
                   \/ frame[s] \in {"transfer", "receive"} /\ state[r] = "locked_waiting"
LocksOK ==
    /\ \A t \in Threads : HasReceiver(t) =>
           \/ state[req[t].to] \in Waiting /\ frame[req[t].to] = "waiting"
           \/ LockOn(t, req[t].to)
    /\ \A s, r \in Threads : LockOn(s, r) => state[r] = "locked_waiting" /\ r # current
    /\ \A s, u, r \in Threads : LockOn(s, r) /\ LockOn(u, r) => s = u

\* A receiver locked for a transfer has a sender locked on it.  No invariant: an
\* abandoned receiver has none.
Held(r) == state[r] = "locked_waiting" /\ r # current => \E s \in Threads : LockOn(s, r)

Enqueued(t) == frame[t] = "polling" \/ (frame[t] = "unwind" /\ state[t] = "polling")
QueuesOK ==
    /\ \A r \in Threads : Distinct(sendq[r])
    /\ \A t, r \in Threads : Queued(t, r) <=> Enqueued(t) /\ req[t].to = r
    /\ \A t \in Threads : t \in sendflag <=> Enqueued(t)
    /\ \A t \in Threads : Enqueued(t) => req[t].to \in Threads /\ partner[t] = req[t].to
    /\ failed = {}

TimeoutsOK ==
    \A t \in wakeup : /\ frame[t] \in {"polling", "waiting"} /\ notify[t] = NotNotified
                      /\ state[t] = "locked_running" => t = current

\* Before its message is transferred a thread has its own message in its
\* registers.
MessageOK(t) ==
    frame[t] \in {"send", "polling", "transfer", "receive"} => mr[t] = t
MessagesOK == \A t \in Threads : MessageOK(t)

TransferInv ==
    /\ TypeInv /\ UnwindsItself /\ alive = Threads
    /\ PlacesOK /\ FaultsOK /\ LocksOK /\ QueuesOK /\ TimeoutsOK /\ MessagesOK
-----------------------------------------------------------------------------
(* The steps that a thread can take                                          *)

\* Without rights over others only a timeout unwinds: its own thread, and before
\* its transfer is agreed on.
OwnStep(t) ==
    \/ IpcCall(t) \/ PageFault(t) \/ RestoreState(t)
    \/ SendNonExisting(t) \/ SendZeroTimeout(t) \/ SendBlocked(t)
    \/ SendReady(t) \/ SendResume(t) \/ Transfer(t) \/ TransferError(t)
    \/ SendOnly(t) \/ ReceiveNonExisting(t) \/ ReceiveZeroTimeout(t)
    \/ ReceiveBlocked(t) \/ ReceiveAccept(t) \/ ReceiveResume(t)
    \/ UnwindUnstarted(t) \/ HandleIpcError(t) \/ HandleIpcTimeout(t) \/ TimedOut(t)
    \/ \E v \in Threads : ExregsHalt(t, v)

\* Every step is one of OwnStep, the timer interrupt or a switch from the idle
\* thread: what Next has besides needs a right over another thread.
LEMMA OwnSteps ==
    ASSUME NoForeignUnwind, TransferInv, Next
    PROVE  (\E t \in Threads : OwnStep(t)) \/ TimerInterrupt \/ IdleSchedule
<1>1. ASSUME NEW t \in Threads, IpcStep(t) PROVE OwnStep(t)
  BY <1>1 DEF IpcStep, OwnStep
<1>2. ASSUME NEW t \in Threads, UnwindStep(t) PROVE OwnStep(t)
  <2>1. ~UnwindLocked(t)
    <3>1. uw[t].victim = t
      BY DEF TransferInv, TypeInv, TypeOK, Victims, UnwindsItself, NoUnwind
    <3>2. frame[t] = "unwind" => state[t] \in {"polling", "waiting_timeout"}
      BY DEF TransferInv, PlacesOK, PlaceOK
    <3> QED
      BY <3>1, <3>2 DEF UnwindLocked, At
  <2> QED
    BY <1>2, <2>1 DEF UnwindStep, OwnStep
<1>3. ASSUME NEW t \in Threads, ControlStep(t) PROVE OwnStep(t)
  <2>1. uw[t].by = "timeout"
    BY DEF TransferInv, TypeInv, TypeOK, Victims, UnwindsItself, NoUnwind
  <2>2. ~ExregsAborted(t) /\ ~Deleted(t)
    BY <2>1 DEF ExregsAborted, Deleted
  <2>3. ASSUME NEW v \in Threads PROVE ~ExregsAbort(t, v) /\ ~Delete(t, v)
    BY DEF NoForeignUnwind, ExregsAbort, Delete
  <2> QED
    BY <1>3, <2>2, <2>3 DEF ControlStep, OwnStep
<1> QED
  BY <1>1, <1>2, <1>3 DEF Next

-----------------------------------------------------------------------------
(* Places                                                                    *)

\* The notifications are told apart.
LEMMA NotificationNames ==
    /\ NotNotified # NotifyError /\ NotNotified.fn # "handle_ipc_timeout"
    /\ NotifyError.fn # "handle_ipc_timeout"
    /\ \A st \in States : /\ Notification("handle_ipc_timeout", st) \notin {NotNotified, NotifyError}
                          /\ Notification("handle_ipc_timeout", st).fn = "handle_ipc_timeout"
                          /\ Notification("handle_ipc_timeout", st).state = st
    /\ "polling" \in States /\ "waiting_timeout" \in States /\ "aborted" \in States
BY DEF NotNotified, NotifyError, Notification, States, Runnable, Sending, Receiving, Waiting

\* A thread that unwinds its own timeout restores nothing: no page fault waits.
LEMMA UnwindOwn ==
    ASSUME TransferInv, NEW t \in Threads, UnwindUnstarted(t)
    PROVE  /\ state' = [state EXCEPT ![t] = "running"] /\ GoTo(t, "unwound")
           /\ UNCHANGED <<partner, saved>> /\ CancelTimeout(t) /\ current = t
           /\ frame[t] = "unwind" /\ notify[t] = NotNotified
           /\ IF state[t] = "polling" THEN DequeueSend(t, partner[t])
                                      ELSE UNCHANGED <<sendq, sendflag, failed>>
           /\ UNCHANGED <<notify, req, sender_id, uw, schedVars, mr, alive>>
<1>1. uw[t].victim = t /\ frame[t] = "unwind"
  <2>1. uw[t] = NoUnwind(t)
    BY DEF TransferInv, UnwindsItself
  <2> QED
    BY <2>1 DEF NoUnwind, UnwindUnstarted, At
<1>2. saved[t].partner = nilthread
  BY <1>1 DEF TransferInv, FaultsOK, FaultOK, NotSaved
<1>3. ~Nested(t)
  BY <1>2 DEF Nested
<1>4. UnwoundTo(t) = "running" /\ (Unwound(t, t) => GoTo(t, "unwound") /\ UNCHANGED <<partner, saved>>)
  BY <1>3 DEF UnwoundTo, Unwound
<1> QED
  BY <1>1, <1>4 DEF UnwindUnstarted, At

\* A page fault restores a thread that was running, locked or not.
LEMMA RestoredState ==
    ASSUME TransferInv, NEW t \in Threads, RestoreState(t)
    PROVE  saved[t].state \in {"running", "locked_running"}
BY DEF TransferInv, FaultsOK, FaultOK, RestoreState, At

\* The receiver of a thread in the middle of its IPC waits for it in its own.
LEMMA ReceiverPlace ==
    ASSUME TransferInv, NEW t \in Threads, HasReceiver(t)
    PROVE  /\ current = t /\ req[t].to \in Threads /\ req[t].to # t
           /\ notify[req[t].to] = NotNotified /\ state[t] \in {"running", "locked_running"}
           /\ \/ /\ ~LockOn(t, req[t].to)
                 /\ state[req[t].to] \in Waiting /\ frame[req[t].to] = "waiting"
              \/ /\ LockOn(t, req[t].to) /\ state[t] = "locked_running"
                 /\ state[req[t].to] = "locked_waiting" /\ frame[req[t].to] = "accepted"
<1> DEFINE to == req[t].to
<1>1. to \in Threads
  BY DEF TransferInv, TypeInv, SendsToThread, HasReceiver
<1> HIDE DEF to
<1>2. PlaceOK(t) /\ PlaceOK(to)
  BY <1>1 DEF TransferInv, PlacesOK
<1>3. current = t /\ state[t] \in {"running", "locked_running"}
  BY <1>2 DEF PlaceOK, HasReceiver
<1>4. CASE state[to] \in Waiting /\ frame[to] = "waiting"
  <2>1. notify[to] = NotNotified
    BY <1>2, <1>4 DEF PlaceOK, TimedOutIn, AtRest, Waiting
  <2>2. ~LockOn(t, to)
    BY <1>1, <1>4 DEF TransferInv, LocksOK, Waiting
  <2> QED
    BY <1>1, <1>3, <1>4, <2>1, <2>2 DEF to, HasReceiver
<1>5. CASE LockOn(t, to)
  <2>2. state[to] = "locked_waiting"
    BY <1>1, <1>5 DEF TransferInv, LocksOK
  <2>3. /\ frame[to] \in Frames
        /\ frame[to] = "accepted" => notify[to] = NotNotified
    BY <1>1, <1>2 DEF TransferInv, TypeInv, TypeOK, PlaceOK
  <2>4. frame[to] = "accepted"
    BY <1>2, <2>2, <2>3 DEF PlaceOK, Frames, Waiting, Sending, Woken, AtRest, TimedOutIn
  <2> QED
    BY <1>1, <1>3, <1>5, <2>2, <2>3, <2>4 DEF to, HasReceiver, LockOn
<1> QED
  BY <1>4, <1>5 DEF to, TransferInv, LocksOK

\* The scheduler switches to a thread that can run, or to the idle thread.
LEMMA ScheduleRuns ==
    ASSUME NEW q, NEW st, Schedule(q, CanRun(st))
    PROVE  current' = idle \/ (current' \in Threads /\ st[current'] \in Runnable)
BY DEF Schedule, FindNext, CanRun

\* A step of a thread leaves every thread in a place that fits its state.
LEMMA PlacesOwnStep ==
    ASSUME TransferInv, NEW t \in Threads, OwnStep(t)
    PROVE  PlacesOK'
<1> USE IdAssumption, NotificationNames
<1> USE DEF TypeOK, At, AtRest, Woken, Sending, Waiting, Receiving, Runnable,
            TimedOutIn, tcbVars, stackVars, listVars, schedVars
<1> SUFFICES ASSUME NEW u \in Threads PROVE PlaceOK(u)'
  BY DEF PlacesOK
<1>0. /\ TypeOK /\ PlaceOK(t) /\ PlaceOK(u) /\ req[t] \in CallType /\ uw[t].victim = t
      /\ frame[t] = "transfer" => req[t].to # nilthread
      /\ FaultOK(t)
  BY DEF TransferInv, TypeInv, PlacesOK, SendsToThread, UnwindsItself, NoUnwind, Victims, FaultsOK
<1>1. CASE IpcCall(t)
  BY <1>0, <1>1 DEF IpcCall, GoTo, PlaceOK
<1>2. CASE PageFault(t)
  BY <1>0, <1>2 DEF PageFault, NoCall, GoTo, PlaceOK
<1>3. CASE RestoreState(t)
  BY <1>0, <1>3 DEF RestoreState, GoTo, PlaceOK, FaultOK
<1>4. CASE SendZeroTimeout(t)
  BY <1>0, <1>4 DEF SendZeroTimeout, ReturnIpc, ReturnFrame, Discarded, NoCall, PlaceOK
<1>5. CASE SendBlocked(t)
  BY <1>0, <1>5 DEF SendBlocked, SwitchTo, GoTo, EnqueueSend, PlaceOK
<1>6. CASE SendReady(t)
  BY <1>0, <1>6 DEF SendReady, GoTo, PlaceOK
<1>7. CASE SendResume(t)
  BY <1>0, <1>7 DEF SendResume, GoTo, CancelTimeout, DequeueSend, PlaceOK
<1>8. CASE Transfer(t)
  BY <1>0, <1>8 DEF Transfer, GoTo, FixupPropagation, PlaceOK
<1>9. CASE TransferError(t)
  <2>1. HasReceiver(t) => /\ req[t].to \in Threads /\ req[t].to # t /\ notify[req[t].to] = NotNotified
                          /\ frame[req[t].to] \in {"waiting", "accepted"}
                          /\ state[req[t].to] \in Waiting \cup {"locked_waiting"}
                          /\ current = t /\ state[t] \in {"running", "locked_running"}
    BY <1>0, ReceiverPlace DEF PlaceOK, HasReceiver
  <2> QED
    BY <1>0, <1>9, <2>1
       DEF TransferError, ReturnIpc, ReturnFrame, Discarded, NoCall, PlaceOK, HasReceiver
<1>10. CASE SendOnly(t)
  <2>1. HasReceiver(t) => /\ req[t].to \in Threads /\ req[t].to # t /\ notify[req[t].to] = NotNotified
                          /\ frame[req[t].to] \in {"waiting", "accepted"}
                          /\ state[req[t].to] \in Waiting \cup {"locked_waiting"}
                          /\ current = t /\ state[t] \in {"running", "locked_running"}
    BY <1>0, ReceiverPlace DEF PlaceOK, HasReceiver
  <2> QED
    BY <1>0, <1>10, <2>1
       DEF SendOnly, ReturnIpc, ReturnFrame, Discarded, NoCall, ScheduleCheck, PlaceOK, HasReceiver
<1>11. CASE ReceiveZeroTimeout(t)
  <2>1. HasReceiver(t) => /\ req[t].to \in Threads /\ req[t].to # t /\ notify[req[t].to] = NotNotified
                          /\ frame[req[t].to] \in {"waiting", "accepted"}
                          /\ state[req[t].to] \in Waiting \cup {"locked_waiting"}
                          /\ current = t /\ state[t] \in {"running", "locked_running"}
    BY <1>0, ReceiverPlace DEF PlaceOK, HasReceiver
  <2> QED
    BY <1>0, <1>11, <2>1
       DEF ReceiveZeroTimeout, Receives, ReturnIpc, ReturnFrame, Discarded, NoCall, SwitchTo,
           PlaceOK, HasReceiver
<1>12. CASE ReceiveBlocked(t)
  <2>1. HasReceiver(t) => /\ req[t].to \in Threads /\ req[t].to # t /\ notify[req[t].to] = NotNotified
                          /\ frame[req[t].to] \in {"waiting", "accepted"}
                          /\ state[req[t].to] \in Waiting \cup {"locked_waiting"}
                          /\ current = t /\ state[t] \in {"running", "locked_running"}
    BY <1>0, ReceiverPlace DEF PlaceOK, HasReceiver
  <2> QED
    BY <1>0, <1>12, <2>1 DEF ReceiveBlocked, Receives, GoTo, SwitchTo, PlaceOK, HasReceiver
<1>13. CASE ReceiveAccept(t)
  <2>1. HasReceiver(t) => /\ req[t].to \in Threads /\ req[t].to # t /\ notify[req[t].to] = NotNotified
                          /\ frame[req[t].to] \in {"waiting", "accepted"}
                          /\ state[req[t].to] \in Waiting \cup {"locked_waiting"}
                          /\ current = t /\ state[t] \in {"running", "locked_running"}
    BY <1>0, ReceiverPlace DEF PlaceOK, HasReceiver
  <2> QED
    BY <1>0, <1>13, <2>1
       DEF ReceiveAccept, Receives, GoTo, SwitchTo, ScheduleReplyWait, PollingSender, PlaceOK,
           HasReceiver
<1>14. CASE ReceiveResume(t)
  BY <1>0, <1>14
     DEF ReceiveResume, ReturnIpc, ReturnFrame, Discarded, NoCall, CancelTimeout, PlaceOK
<1>15. CASE UnwindUnstarted(t)
  <2>1. /\ state' = [state EXCEPT ![t] = "running"] /\ GoTo(t, "unwound") /\ current = t
        /\ notify[t] = NotNotified /\ UNCHANGED <<notify, schedVars>>
    BY <1>15, UnwindOwn DEF UnwindUnstarted
  <2> QED
    BY <1>0, <2>1 DEF GoTo, PlaceOK
<1>16. CASE HandleIpcError(t)
  <2>1. frame[t] = "unwound" /\ state[t] = "running"
    BY <1>0, <1>16 DEF HandleIpcError, PlaceOK, Frames
  <2> QED
    BY <1>0, <1>16, <2>1 DEF HandleIpcError, Discarded, NoCall, PlaceOK
<1>17. CASE HandleIpcTimeout(t)
  <2>1. notify[t].state \in {"polling", "waiting_timeout"} /\ current = t
    BY <1>0, <1>17 DEF HandleIpcTimeout, PlaceOK, Frames
  <2> QED
    BY <1>0, <1>17, <2>1 DEF HandleIpcTimeout, GoTo, PlaceOK
<1>18. CASE TimedOut(t)
  BY <1>0, <1>18 DEF TimedOut, PlaceOK
<1>19. CASE \E v \in Threads : ExregsHalt(t, v)
  <2>1. PICK v \in Threads, h \in {"halt", "resume"} :
          /\ state' = Halted(state, v, h)
          /\ Schedule(IF h = "resume" THEN ready \cup {v} ELSE ready, CanRun(state'))
    BY <1>19 DEF ExregsHalt
  <2>2. current' = idle \/ (current' \in Threads /\ state'[current'] \in Runnable)
    BY <2>1, ScheduleRuns
  <2>3. /\ current = t /\ frame[t] = "user"
        /\ UNCHANGED <<partner, saved, notify, stackVars, listVars, mr, alive>>
    BY <1>19 DEF ExregsHalt
  <2>4. /\ state'[u] = state[u] \/ (state[u] \in AtRest /\ state'[u] \in AtRest)
        /\ u # t /\ state'[u] # state[u] => frame[u] \notin {"transfer", "receive"}
    BY <1>0, <2>1, <2>3 DEF Halted, PlaceOK
  <2> QED
    BY <1>0, <2>2, <2>3, <2>4 DEF PlaceOK
<1>20. CASE SendNonExisting(t) \/ ReceiveNonExisting(t)
  BY <1>0, <1>20 DEF SendNonExisting, ReceiveNonExisting, Receives, ReturnIpc, ReturnFrame,
                     Discarded, NoCall, PlaceOK
<1> QED
  BY <1>1, <1>2, <1>3, <1>4, <1>5, <1>6, <1>7, <1>8, <1>9, <1>10, <1>11, <1>12, <1>13, <1>14,
     <1>15, <1>16, <1>17, <1>18, <1>19, <1>20
     DEF OwnStep

\* A timeout fires only at a thread that polls or waits, or has been woken.
LEMMA TickStates ==
    ASSUME TransferInv, TimerInterrupt
    PROVE  /\ UNCHANGED <<partner, saved, stackVars, sendq, sendflag, failed, mr, alive>>
           /\ wakeup' \subseteq wakeup /\ (current \in Threads => frame[current] = "user")
           /\ \A u \in Threads :
                 \/ state'[u] = state[u] /\ notify'[u] = notify[u]
                 \/ /\ frame[u] \in {"polling", "waiting"} /\ u \in wakeup \ wakeup' /\ u # current
                    /\ state'[u] = "running"
                    /\ \/ state[u] \in Woken /\ notify'[u] = notify[u]
                       \/ /\ state[u] = (IF frame[u] = "polling" THEN "polling" ELSE "waiting_timeout")
                          /\ notify[u] = NotNotified
                          /\ notify'[u] = Notification("handle_ipc_timeout", state[u])
           /\ current' = current \/ current' = idle \/ (current' \in Threads /\ state'[current'] \in Runnable)
<1> USE IdAssumption, NotificationNames
<1>0. TypeOK /\ PlacesOK /\ TimeoutsOK
  BY DEF TransferInv, TypeInv
<1>1. PICK expired \in SUBSET wakeup :
        LET woken == {t \in expired : state[t] # "waiting_forever"}
            aborted == {t \in woken : state[t] \in Sending \cup Receiving}
        IN  /\ wakeup' = wakeup \ expired
            /\ notify' = [t \in Threads |->
                            IF t \in aborted
                            THEN Notification("handle_ipc_timeout", state[t])
                            ELSE notify[t]]
            /\ state' = [t \in Threads |-> IF t \in woken THEN "running"
                                                           ELSE state[t]]
            /\ \/ /\ UNCHANGED current
                  /\ ready' = ready \cup woken
               \/ /\ current # idle
                  /\ current' \in woken
                  /\ ready' = ready \cup woken \cup {current}
               \/ /\ current # idle
                  /\ Schedule(ready \cup woken \cup {current}, CanRun(state'))
  BY Zenon DEF TimerInterrupt
<1> DEFINE woken == {t \in expired : state[t] # "waiting_forever"}
           aborted == {t \in woken : state[t] \in Sending \cup Receiving}
<1>2. current \in Threads => frame[current] = "user"
  BY DEF TimerInterrupt, At
<1>3. /\ UNCHANGED <<partner, saved, stackVars, sendq, sendflag, failed, mr, alive>>
      /\ wakeup' = wakeup \ expired
  BY <1>1 DEF TimerInterrupt
<1>4. ASSUME NEW u \in Threads
      PROVE  /\ state'[u] = (IF u \in woken THEN "running" ELSE state[u])
             /\ notify'[u] = (IF u \in aborted THEN Notification("handle_ipc_timeout", state[u])
                                               ELSE notify[u])
  BY <1>1
<1>5. current' = current \/ current' = idle \/ (current' \in Threads /\ state'[current'] \in Runnable)
  <2>1. CASE current' \in woken
    <3>1. current' \in Threads
      BY <1>0, <2>1 DEF TypeOK
    <3> QED
      BY <1>4, <2>1, <3>1 DEF Runnable
  <2>2. CASE Schedule(ready \cup woken \cup {current}, CanRun(state'))
    BY <2>2, ScheduleRuns
  <2> QED
    BY <1>1, <2>1, <2>2
<1>6. ASSUME NEW u \in Threads, u \in woken
      PROVE  /\ frame[u] \in {"polling", "waiting"} /\ u \in wakeup \ wakeup' /\ u # current
             /\ state'[u] = "running"
             /\ \/ state[u] \in Woken /\ notify'[u] = notify[u]
                \/ /\ state[u] = (IF frame[u] = "polling" THEN "polling" ELSE "waiting_timeout")
                   /\ notify[u] = NotNotified
                   /\ notify'[u] = Notification("handle_ipc_timeout", state[u])
  <2>1. u \in wakeup /\ u \notin wakeup' /\ state[u] # "waiting_forever"
    BY <1>3, <1>6
  <2>2. PlaceOK(u) /\ frame[u] \in {"polling", "waiting"} /\ state[u] \in States
    BY <1>0, <2>1 DEF TimeoutsOK, PlacesOK, TypeOK
  <2>3. u # current
    BY <1>2, <2>2
  <2>4. state[u] # "locked_running"
    BY <1>0, <2>1, <2>3 DEF TimeoutsOK
  <2>5. \/ state[u] \in Woken
        \/ /\ state[u] = (IF frame[u] = "polling" THEN "polling" ELSE "waiting_timeout")
           /\ notify[u] = NotNotified
    BY <2>1, <2>2, <2>4 DEF PlaceOK, TimedOutIn, Woken, AtRest, Sending, Waiting
  <2>6. u \in aborted <=> state[u] \in {"polling", "waiting_timeout"}
    BY <1>6, <2>1, <2>4, <2>5 DEF Sending, Receiving, Waiting, Woken, AtRest
  <2>7. state[u] \in Woken => state[u] \notin {"polling", "waiting_timeout"}
    BY DEF Woken, AtRest
  <2> HIDE DEF woken, aborted
  <2> QED
    BY <1>4, <1>6, <2>1, <2>2, <2>3, <2>5, <2>6, <2>7
<1>7. ASSUME NEW u \in Threads, u \notin woken
      PROVE  state'[u] = state[u] /\ notify'[u] = notify[u]
  BY <1>4, <1>7
<1> HIDE DEF woken, aborted
<1> QED
  BY <1>2, <1>3, <1>5, <1>6, <1>7

\* The timer interrupt, which un-waits the threads whose timeout has expired and may
\* switch, leaves every thread's place and state in agreement.
LEMMA PlacesTick ==
    ASSUME TransferInv, TimerInterrupt \/ IdleSchedule
    PROVE  PlacesOK'
<1> USE IdAssumption, NotificationNames
<1> SUFFICES ASSUME NEW u \in Threads PROVE PlaceOK(u)'
  BY DEF PlacesOK
<1>0. PlaceOK(u)
  BY DEF TransferInv, PlacesOK
<1>1. CASE TimerInterrupt
  <2>1. UNCHANGED <<partner, saved, frame, req>> /\ (current \in Threads => frame[current] = "user")
    BY <1>1, TickStates DEF stackVars
  <2>2. CASE state'[u] = state[u] /\ notify'[u] = notify[u]
    <3>1. current' = current \/ current' = idle \/ (current' \in Threads /\ state'[current'] \in Runnable)
      BY <1>1, TickStates
    <3>2. current = u => frame[u] = "user"
      BY <2>1
    <3> QED
      BY <1>0, <2>1, <2>2, <3>1, <3>2 DEF PlaceOK, Runnable, TimedOutIn
  <2>3. CASE /\ frame[u] \in {"polling", "waiting"} /\ u # current
             /\ state'[u] = "running"
             /\ \/ state[u] \in Woken /\ notify'[u] = notify[u]
                \/ /\ state[u] = (IF frame[u] = "polling" THEN "polling" ELSE "waiting_timeout")
                   /\ notify[u] = NotNotified
                   /\ notify'[u] = Notification("handle_ipc_timeout", state[u])
    BY <1>0, <2>1, <2>3 DEF PlaceOK, TimedOutIn, AtRest, Woken, Sending, Waiting
  <2> QED
    BY <1>1, <2>2, <2>3, TickStates
<1>2. CASE IdleSchedule
  <2>1. /\ UNCHANGED <<state, partner, saved, notify, frame, req>> /\ current = idle
        /\ Schedule(ready, CanRun(state))
    BY <1>2 DEF IdleSchedule, tcbVars, stackVars
  <2>2. current' = idle \/ (current' \in Threads /\ state[current'] \in Runnable)
    BY <2>1, ScheduleRuns
  <2> QED
    BY <1>0, <2>1, <2>2 DEF PlaceOK, Runnable, TimedOutIn
<1> QED
  BY <1>1, <1>2

\* What a page fault interrupted stays saved until the end of its IPC.
LEMMA FaultsOwnStep ==
    ASSUME TransferInv, NEW t \in Threads, OwnStep(t)
    PROVE  FaultsOK'
<1> USE IdAssumption, NotificationNames
<1> USE DEF TypeOK, At, GoTo, tcbVars, stackVars, listVars, schedVars
<1> SUFFICES ASSUME NEW u \in Threads PROVE FaultOK(u)'
  BY DEF FaultsOK
<1>0. TypeOK /\ PlaceOK(t) /\ FaultOK(t) /\ FaultOK(u) /\ (t \in wakeup => frame[t] \in {"polling", "waiting"})
  BY DEF TransferInv, TypeInv, PlacesOK, FaultsOK, TimeoutsOK
<1>1. CASE IpcCall(t)
  BY <1>0, <1>1 DEF IpcCall, FaultOK
<1>2. CASE PageFault(t)
  <2>1. state[t] \in {"running", "locked_running"}
    BY <1>0, <1>2 DEF PageFault, PlaceOK, AtRest
  <2> QED
    BY <1>0, <1>2, <2>1 DEF PageFault, FaultOK, NoCall, PlaceOK
<1>3. CASE RestoreState(t)
  BY <1>0, <1>3 DEF RestoreState, FaultOK
<1>4. ASSUME ReturnIpc(t), UNCHANGED <<saved, notify>>, wakeup' \subseteq wakeup,
             frame[t] \notin {"user", "restore", "unwind", "unwound"}
      PROVE  FaultOK(u)'
  BY <1>0, <1>4 DEF ReturnIpc, ReturnFrame, Discarded, NoCall, FaultOK, NotSaved
<1>5. CASE \/ SendNonExisting(t) \/ SendZeroTimeout(t) \/ TransferError(t) \/ SendOnly(t)
           \/ ReceiveNonExisting(t) \/ ReceiveZeroTimeout(t) \/ ReceiveResume(t)
  <2>1. ReturnIpc(t) /\ UNCHANGED <<saved, notify>>
    BY <1>5 DEF SendNonExisting, SendZeroTimeout, TransferError, SendOnly, ReceiveNonExisting,
                ReceiveZeroTimeout, ReceiveResume
  <2>2. wakeup' \subseteq wakeup
    BY <1>5 DEF SendNonExisting, SendZeroTimeout, TransferError, SendOnly, ReceiveNonExisting,
                ReceiveZeroTimeout, ReceiveResume, CancelTimeout
  <2>3. frame[t] \notin {"user", "restore", "unwind", "unwound"}
    BY <1>5 DEF SendNonExisting, SendZeroTimeout, TransferError, SendOnly, ReceiveNonExisting,
                ReceiveZeroTimeout, ReceiveResume, Receives
  <2> QED
    BY <1>4, <2>1, <2>2, <2>3
<1>6. CASE SendBlocked(t)
  BY <1>0, <1>6 DEF SendBlocked, FaultOK
<1>7. CASE SendReady(t) \/ SendResume(t) \/ Transfer(t)
  BY <1>0, <1>7 DEF SendReady, SendResume, Transfer, CancelTimeout, FaultOK
<1>8. CASE ReceiveBlocked(t)
  BY <1>0, <1>8 DEF ReceiveBlocked, Receives, FaultOK
<1>9. CASE ReceiveAccept(t)
  <2>1. wakeup' \subseteq wakeup
    BY <1>9 DEF ReceiveAccept, ScheduleReplyWait
  <2> QED
    BY <1>0, <1>9, <2>1 DEF ReceiveAccept, Receives, FaultOK
<1>10. CASE UnwindUnstarted(t)
  BY <1>0, <1>10, UnwindOwn DEF CancelTimeout, FaultOK
<1>11. CASE HandleIpcError(t)
  BY <1>0, <1>11 DEF HandleIpcError, Discarded, FaultOK
<1>12. CASE HandleIpcTimeout(t)
  BY <1>0, <1>12 DEF HandleIpcTimeout, FaultOK
<1>13. CASE TimedOut(t)
  BY <1>0, <1>13 DEF TimedOut, FaultOK
<1>14. CASE \E v \in Threads : ExregsHalt(t, v)
  BY <1>0, <1>14 DEF ExregsHalt, FaultOK
<1> QED
  BY <1>1, <1>2, <1>3, <1>5, <1>6, <1>7, <1>8, <1>9, <1>10, <1>11, <1>12, <1>13, <1>14
     DEF OwnStep

\* No timeout is armed in a page fault's IPC, so none fires.
LEMMA FaultsTick ==
    ASSUME TransferInv, TimerInterrupt \/ IdleSchedule
    PROVE  FaultsOK'
<1> SUFFICES ASSUME NEW u \in Threads PROVE FaultOK(u)'
  BY DEF FaultsOK
<1>0. FaultOK(u)
  BY DEF TransferInv, FaultsOK
<1>1. CASE TimerInterrupt
  <2>1. UNCHANGED <<saved, frame, req>> /\ wakeup' \subseteq wakeup
    BY <1>1, TickStates DEF stackVars
  <2>2. notify'[u] = notify[u] \/ u \in wakeup
    BY <1>1, TickStates
  <2> QED
    BY <1>0, <2>1, <2>2 DEF FaultOK
<1>2. CASE IdleSchedule
  BY <1>0, <1>2 DEF IdleSchedule, tcbVars, stackVars, listVars, FaultOK
<1> QED
  BY <1>1, <1>2

-----------------------------------------------------------------------------
(* The two sides of a transfer                                               *)

Locked(st) == st \in {"locked_running", "locked_waiting"}

\* A step keeps both sides of every transfer together, and takes no receiver's
\* sender away.
LocksKept == LocksOK' /\ \A r \in Threads : Held(r) => Held(r)'

\* A step that locks and unlocks nobody keeps both sides together, if it does
\* not switch to or from a locked receiver.
LEMMA LocksFrame ==
    ASSUME LocksOK,
           \A s, r \in Threads : LockOn(s, r)' <=> LockOn(s, r),
           \A r \in Threads : state'[r] = "locked_waiting" <=> state[r] = "locked_waiting",
           current' = current \/ \A u \in Threads : u \in {current, current'} => state[u] # "locked_waiting",
           \A u \in Threads : HasReceiver(u)' =>
               \/ state'[req'[u].to] \in Waiting /\ frame'[req'[u].to] = "waiting"
               \/ LockOn(u, req[u].to)'
    PROVE  LocksKept
<1>1. \A r \in Threads : state[r] = "locked_waiting" => (r = current' <=> r = current)
  OBVIOUS
<1> QED
  BY <1>1 DEF LocksOK, LocksKept, Held

\* At the end of its IPC t wakes its receiver, is no longer locked on it, and
\* the rest stays as it is.
LEMMA LocksEnd ==
    ASSUME LocksOK, NEW t \in Threads, NEW to \in Threads, t # to, current = t,
           req[t].to = to, ~Locked(state'[t]),
           ~Locked(state'[to]) \/ (current' = to /\ state'[to] = state[to]),
           \A u \in Threads \ {t, to} : state'[u] = state[u],
           \A u \in Threads \ {t} : frame'[u] = frame[u] /\ req'[u] = req[u],
           \A u \in Threads : ~HasReceiver(u)',
           current' \notin Threads \ {to} \/ state'[current'] # "locked_waiting",
           state[to] # "locked_running", \A x \in Threads : LockOn(x, to) => x = t
    PROVE  LocksKept
<1> USE IdAssumption
<1>1. ASSUME NEW s \in Threads, NEW r \in Threads, LockOn(s, r)'
      PROVE  LockOn(s, r) /\ s # t /\ r # to /\ r # t
  <2>1. s # t /\ s # to
    BY <1>1 DEF LockOn, Locked
  <2>2. frame'[s] = "polling"
    BY <1>1 DEF LockOn, HasReceiver
  <2>3. LockOn(s, r)
    BY <1>1, <2>1, <2>2 DEF LockOn
  <2>4. r # t /\ r # to
    BY <2>1, <2>3 DEF LocksOK
  <2> QED
    BY <2>1, <2>3, <2>4
<1>2. ASSUME NEW s \in Threads, NEW r \in Threads, LockOn(s, r), s # t
      PROVE  LockOn(s, r)'
  <2>1. s # to
    BY <1>2 DEF LockOn
  <2>2. frame[s] = "polling"
    BY <1>2 DEF LockOn, HasReceiver
  <2> QED
    BY <1>2, <2>1, <2>2 DEF LockOn
<1>3. ASSUME NEW s \in Threads, NEW r \in Threads, LockOn(s, r)'
      PROVE  state'[r] = "locked_waiting" /\ r # current'
  <2>1. LockOn(s, r) /\ r # to /\ r # t
    BY <1>1, <1>3
  <2>2. state[r] = "locked_waiting" /\ state'[r] = state[r]
    BY <2>1 DEF LocksOK
  <2> QED
    BY <2>1, <2>2
<1>4. ASSUME NEW r \in Threads, Held(r), state'[r] = "locked_waiting", r # current'
      PROVE  \E s \in Threads : LockOn(s, r)'
  <2>1. r # t /\ r # to /\ state[r] = "locked_waiting"
    BY <1>4 DEF Locked
  <2>2. PICK s \in Threads : LockOn(s, r)
    BY <1>4, <2>1 DEF Held
  <2>3. s # t
    BY <2>1, <2>2 DEF LockOn
  <2> QED
    BY <1>2, <2>2, <2>3
<1>5. ASSUME NEW x \in Threads, NEW u \in Threads, NEW r \in Threads, LockOn(x, r)', LockOn(u, r)'
      PROVE  x = u
  BY <1>1, <1>5 DEF LocksOK
<1>6. LocksOK'
  BY <1>3, <1>5 DEF LocksOK
<1>7. \A r \in Threads : Held(r) => Held(r)'
  BY <1>4 DEF Held
<1> QED
  BY <1>6, <1>7 DEF LocksKept

\* When t accepts the polling thread s it waits for s, and the receivers that
\* t wakes are locked no longer.
LEMMA LocksAccept ==
    ASSUME LocksOK, NEW t \in Threads, NEW s \in Threads, NEW woken \in SUBSET Threads,
           current = t, s # t, t \notin woken, s \notin woken, current' \in woken \cup {s},
           state[t] # "locked_waiting", state[s] = "polling", frame[s] = "polling", req[s].to = t,
           state'[s] = "locked_running", state'[t] = "locked_waiting",
           \A u \in woken : state'[u] = "running" /\ state[u] # "locked_running",
           \A u \in woken, x \in Threads : LockOn(x, u) => x = t,
           \A u \in Threads : LockOn(t, u) => u \in woken,
           \A u \in Threads \ (woken \cup {s, t}) : state'[u] = state[u],
           \A u \in Threads \ {t} : frame'[u] = frame[u] /\ req'[u] = req[u],
           \A u \in Threads : ~HasReceiver(u)'
    PROVE  LocksKept
<1> USE IdAssumption
<1>1. ASSUME NEW x \in Threads, NEW r \in Threads, LockOn(x, r)'
      PROVE  (x = s /\ r = t) \/ (LockOn(x, r) /\ x # s /\ r # s /\ r # t /\ r \notin woken)
  <2>1. x # t /\ x \notin woken /\ frame'[x] = "polling"
    BY <1>1 DEF LockOn, HasReceiver
  <2>2. CASE x = s
    BY <1>1, <2>2 DEF LockOn
  <2>3. CASE x # s
    <3>1. LockOn(x, r)
      BY <1>1, <2>1, <2>3 DEF LockOn
    <3>2. state[r] = "locked_waiting"
      BY <3>1 DEF LocksOK
    <3> QED
      BY <2>1, <2>3, <3>1, <3>2
  <2> QED
    BY <2>2, <2>3
<1>2. LockOn(s, t)'
  BY DEF LockOn
<1>3. ASSUME NEW x \in Threads, NEW r \in Threads, LockOn(x, r)'
      PROVE  state'[r] = "locked_waiting" /\ r # current'
  BY <1>1, <1>3 DEF LocksOK
<1>4. ASSUME NEW r \in Threads, Held(r), state'[r] = "locked_waiting"
      PROVE  \E x \in Threads : LockOn(x, r)'
  <2>1. CASE r = t
    BY <1>2, <2>1
  <2>2. CASE r # t
    <3>1. r # s /\ r \notin woken /\ state[r] = "locked_waiting"
      BY <1>4, <2>2
    <3>2. PICK x \in Threads : LockOn(x, r)
      BY <1>4, <2>2, <3>1 DEF Held
    <3>3. x # t /\ x # s /\ x \notin woken
      BY <3>1, <3>2 DEF LockOn
    <3>4. frame[x] = "polling"
      BY <3>2, <3>3 DEF LockOn, HasReceiver
    <3>5. LockOn(x, r)'
      BY <3>2, <3>3, <3>4 DEF LockOn
    <3> QED
      BY <3>5
  <2> QED
    BY <2>1, <2>2
<1>5. ASSUME NEW x \in Threads, NEW u \in Threads, NEW r \in Threads, LockOn(x, r)', LockOn(u, r)'
      PROVE  x = u
  BY <1>1, <1>5 DEF LocksOK
<1>6. LocksOK'
  BY <1>3, <1>5 DEF LocksOK
<1>7. \A r \in Threads : Held(r) => Held(r)'
  BY <1>4 DEF Held
<1> QED
  BY <1>6, <1>7 DEF LocksKept

\* Whoever is in the middle of a system call but does not wait runs it.
LEMMA OnlyCurrent ==
    ASSUME TransferInv, NEW t \in Threads, current = t
    PROVE  \A u \in Threads \ {t} : frame[u] \notin {"send", "transfer", "receive", "unwind", "unwound"}
BY DEF TransferInv, PlacesOK, PlaceOK

\* Where a thread that waits in state[u] is.
LEMMA WaitingPlace ==
    ASSUME TransferInv, NEW u \in Threads
    PROVE  /\ state[u] \in Waiting /\ u # current => frame[u] = "waiting" /\ notify[u] = NotNotified
           /\ state[u] = "polling" /\ u # current => frame[u] = "polling" /\ notify[u] = NotNotified
           /\ state[u] = "locked_waiting" => frame[u] = "accepted"
<1>1. PlaceOK(u) /\ frame[u] \in Frames
  BY DEF TransferInv, PlacesOK, TypeInv, TypeOK
<1> QED
  BY <1>1 DEF PlaceOK, Frames, Waiting, Sending, Woken, AtRest, TimedOutIn

\* A step of a thread keeps both sides of every transfer together.  Only one that
\* returns because nobody has the id to receive from leaves a receiver behind.
LEMMA LocksOwnStep ==
    ASSUME TransferInv, NEW t \in Threads, OwnStep(t)
    PROVE  /\ LocksOK'
           /\ \A r \in Threads : Held(r) /\ ~Held(r)' => ReceiveNonExisting(t) /\ req[t].to = r
<1> USE IdAssumption, NotificationNames
<1> USE DEF TypeOK, At
<1>0. /\ TypeOK /\ PlaceOK(t) /\ req[t] \in CallType /\ uw[t].victim = t /\ LocksOK /\ frame[t] \in Frames
      /\ frame[t] \in {"polling", "transfer"} => req[t].to \in Threads
  BY DEF TransferInv, TypeInv, PlacesOK, SendsToThread, UnwindsItself, NoUnwind, Victims
<1>s. current = t => \A u \in Threads \ {t} : ~HasReceiver(u) /\ frame[u] \notin {"transfer", "receive"}
  BY OnlyCurrent DEF HasReceiver
<1>same. ASSUME current = t,
                \A u \in Threads \ {t} : UNCHANGED <<state[u], frame[u], req[u]>>,
                ~HasReceiver(t), ~HasReceiver(t)',
                state[t] # "locked_waiting", state'[t] # "locked_waiting",
                state[t] = "locked_running" => frame[t] # "polling",
                state'[t] = "locked_running" => frame'[t] # "polling",
                current' = current \/ current' \notin Threads
         PROVE  LocksKept
  <2>1. \A u \in Threads : ~HasReceiver(u)'
    BY <1>same, <1>s DEF HasReceiver
  <2>2. current' = current \/ \A u \in Threads : u \in {current, current'} => state[u] # "locked_waiting"
    BY <1>same
  <2>3. \A r \in Threads : state'[r] = "locked_waiting" <=> state[r] = "locked_waiting"
    BY <1>same
  <2>4. ASSUME NEW x \in Threads, NEW r \in Threads PROVE LockOn(x, r)' <=> LockOn(x, r)
    <3>1. CASE x = t
      BY <1>same, <3>1, IdAssumption DEF LockOn, HasReceiver
    <3>2. CASE x # t
      BY <1>same, <2>3, <3>2 DEF LockOn
    <3> QED
      BY <3>1, <3>2
  <2> QED
    BY <1>0, <2>1, <2>2, <2>3, <2>4, LocksFrame
<1>kept. LocksKept => /\ LocksOK'
                     /\ \A r \in Threads : Held(r) /\ ~Held(r)' => ReceiveNonExisting(t) /\ req[t].to = r
  BY DEF LocksKept
<1>1. CASE IpcCall(t)
  <2>1. /\ current = t /\ frame[t] = "user" /\ UNCHANGED <<state, current>>
        /\ frame'[t] \in {"send", "receive"}
    BY <1>0, <1>1 DEF IpcCall, GoTo, tcbVars, schedVars
  <2>2. ~HasReceiver(t)' /\ \A u \in Threads \ {t} : UNCHANGED <<frame[u], req[u]>>
    BY <1>0, <1>1 DEF IpcCall, GoTo, HasReceiver
  <2>3. ~HasReceiver(t) /\ state[t] # "locked_waiting"
    BY <1>0, <2>1 DEF PlaceOK, AtRest, HasReceiver
  <2> QED
    BY <1>same, <1>kept, <2>1, <2>2, <2>3
<1>2. CASE PageFault(t)
  <2>1. /\ current = t /\ ~HasReceiver(t)'
        /\ \A u \in Threads \ {t} : UNCHANGED <<state[u], frame[u], req[u]>>
    BY <1>0, <1>2 DEF PageFault, NoCall, stackVars, tcbVars, listVars, schedVars, GoTo, HasReceiver
  <2>2. /\ ~HasReceiver(t) /\ state[t] # "locked_waiting" /\ state'[t] # "locked_waiting"
        /\ state[t] = "locked_running" => frame[t] # "polling"
        /\ state'[t] = "locked_running" => frame'[t] # "polling"
        /\ current' = current \/ current' \notin Threads
    BY <1>0, <1>2 DEF PageFault, NoCall, stackVars, tcbVars, listVars, schedVars, GoTo, PlaceOK,
       HasReceiver, AtRest, Woken, Waiting, Sending, TimedOutIn, Frames
  <2> QED
    BY <1>same, <1>kept, <2>1, <2>2
<1>3. CASE RestoreState(t)
  <2>1. /\ current = t /\ ~HasReceiver(t)'
        /\ \A u \in Threads \ {t} : UNCHANGED <<state[u], frame[u], req[u]>>
    BY <1>0, <1>3 DEF RestoreState, GoTo, stackVars, tcbVars, listVars, schedVars, HasReceiver
  <2>3. saved[t].state \in {"running", "locked_running"}
    BY <1>3 DEF RestoreState, TransferInv, FaultsOK, FaultOK
  <2>2. /\ ~HasReceiver(t) /\ state[t] # "locked_waiting" /\ state'[t] # "locked_waiting"
        /\ state[t] = "locked_running" => frame[t] # "polling"
        /\ state'[t] = "locked_running" => frame'[t] # "polling"
        /\ current' = current \/ current' \notin Threads
    BY <1>0, <1>3, <2>3 DEF RestoreState, GoTo, stackVars, tcbVars, listVars, schedVars, PlaceOK,
       HasReceiver, AtRest, Woken, Waiting, Sending, TimedOutIn, Frames
  <2> QED
    BY <1>same, <1>kept, <2>1, <2>2
<1>4. CASE SendZeroTimeout(t)
  <2>1. /\ current = t /\ ~HasReceiver(t)'
        /\ \A u \in Threads \ {t} : UNCHANGED <<state[u], frame[u], req[u]>>
    BY <1>0, <1>4
       DEF SendZeroTimeout, ReturnIpc, ReturnFrame, Discarded, NoCall, stackVars, tcbVars,
           listVars, schedVars, HasReceiver
  <2>2. /\ ~HasReceiver(t) /\ state[t] # "locked_waiting" /\ state'[t] # "locked_waiting"
        /\ state[t] = "locked_running" => frame[t] # "polling"
        /\ state'[t] = "locked_running" => frame'[t] # "polling"
        /\ current' = current \/ current' \notin Threads
    BY <1>0, <1>4 DEF SendZeroTimeout, ReturnIpc, ReturnFrame, Discarded, NoCall, stackVars,
       tcbVars, listVars, schedVars, PlaceOK, HasReceiver, AtRest, Woken, Waiting, Sending,
       TimedOutIn, Frames
  <2> QED
    BY <1>same, <1>kept, <2>1, <2>2
<1>5. CASE SendBlocked(t)
  <2>1. /\ current = t /\ ~HasReceiver(t)'
        /\ \A u \in Threads \ {t} : UNCHANGED <<state[u], frame[u], req[u]>>
    BY <1>0, <1>5
       DEF SendBlocked, SwitchTo, GoTo, EnqueueSend, stackVars, tcbVars, listVars, schedVars,
           HasReceiver
  <2>2. /\ ~HasReceiver(t) /\ state[t] # "locked_waiting" /\ state'[t] # "locked_waiting"
        /\ state[t] = "locked_running" => frame[t] # "polling"
        /\ state'[t] = "locked_running" => frame'[t] # "polling"
        /\ current' = current \/ current' \notin Threads
    BY <1>0, <1>5 DEF SendBlocked, SwitchTo, GoTo, EnqueueSend, stackVars, tcbVars, listVars,
       schedVars, PlaceOK, HasReceiver, AtRest, Woken, Waiting, Sending, TimedOutIn, Frames
  <2> QED
    BY <1>same, <1>kept, <2>1, <2>2
<1>6. CASE SendReady(t)
  <2>1. /\ current = t /\ UNCHANGED <<state, current, req>> /\ frame' = [frame EXCEPT ![t] = "transfer"]
        /\ frame[t] = "send"
    BY <1>6 DEF SendReady, GoTo, stackVars, tcbVars, listVars, schedVars
  <2>2. req[t].to \in Threads /\ req[t].to # t /\ state[req[t].to] \in Waiting
    BY <1>0, <1>6 DEF SendReady, Accepts, PlaceOK, Waiting, TransferInv
  <2>3. frame[req[t].to] = "waiting"
    BY <2>1, <2>2, WaitingPlace
  <2>4. \A u \in Threads : HasReceiver(u)' =>
               state'[req'[u].to] \in Waiting /\ frame'[req'[u].to] = "waiting"
    BY <1>0, <1>s, <2>1, <2>2, <2>3 DEF HasReceiver
  <2>5. \A x, r \in Threads : LockOn(x, r)' <=> LockOn(x, r)
    BY <1>0, <2>1, <2>2 DEF LockOn, Waiting
  <2> QED
    BY <1>0, <2>1, <2>4, <2>5, LocksFrame, <1>kept
<1>7. CASE SendResume(t)
  <2>1. /\ current = t /\ UNCHANGED <<state, current, req>> /\ frame' = [frame EXCEPT ![t] = "transfer"]
        /\ frame[t] = "polling"
    BY <1>7
       DEF SendResume, GoTo, CancelTimeout, DequeueSend, stackVars, tcbVars, listVars, schedVars
  <2>2. state[t] = "locked_running" /\ req[t].to \in Threads
    BY <1>0, <1>7, <2>1 DEF SendResume, PlaceOK, Sending, TimedOutIn
  <2>3. LockOn(t, req[t].to) /\ state[req[t].to] = "locked_waiting"
    <3>1. LockOn(t, req[t].to)
      BY <2>1, <2>2 DEF LockOn
    <3> QED
      BY <1>0, <2>2, <3>1 DEF LocksOK
  <2>4. \A x, r \in Threads : LockOn(x, r)' <=> LockOn(x, r)
    BY <1>0, <2>1, <2>3 DEF LockOn
  <2>5. \A u \in Threads : HasReceiver(u)' => LockOn(u, req[u].to)'
    BY <1>0, <1>s, <2>1, <2>2, <2>3 DEF HasReceiver, LockOn
  <2> QED
    BY <1>0, <2>1, <2>4, <2>5, LocksFrame, <1>kept
<1>8. CASE Transfer(t)
  <2>1. current = t /\ UNCHANGED <<state, current, req>> /\ frame' = [frame EXCEPT ![t] = "receive"]
    BY <1>8 DEF Transfer, GoTo, FixupPropagation, stackVars, tcbVars, listVars, schedVars
  <2>2. frame[t] = "transfer" /\ HasReceiver(t)
    BY <1>0, <1>8, IdAssumption DEF Transfer, HasReceiver
  <2>3. /\ req[t].to # t /\ req[t].to \in Threads
        /\ (state[req[t].to] \in Waiting /\ frame[req[t].to] = "waiting") \/ LockOn(t, req[t].to)
    BY <2>2, ReceiverPlace
  <2>4. \A x, r \in Threads : LockOn(x, r)' <=> LockOn(x, r)
    BY <1>0, <2>1, <2>2 DEF LockOn
  <2>5. \A u \in Threads : HasReceiver(u)' =>
               \/ state'[req'[u].to] \in Waiting /\ frame'[req'[u].to] = "waiting"
               \/ LockOn(u, req[u].to)'
    <3> SUFFICES ASSUME NEW u \in Threads, HasReceiver(u)'
                 PROVE  \/ state'[req'[u].to] \in Waiting /\ frame'[req'[u].to] = "waiting"
                        \/ LockOn(u, req[u].to)'
      OBVIOUS
    <3>1. u = t
      BY <1>0, <1>s, <2>1 DEF HasReceiver
    <3> DEFINE to == req[t].to
    <3>2. LockOn(t, to) => LockOn(t, to)'
      BY <2>1, <2>3, <2>4 DEF LockOn
    <3>3. frame'[to] = frame[to]
      BY <1>0, <2>1, <2>3
    <3>4. LockOn(t, to)' => LockOn(t, req[t].to)'
      BY <2>1 DEF LockOn
    <3> QED
      BY <2>1, <2>3, <3>1, <3>2, <3>3, <3>4
  <2> QED
    BY <1>0, <2>1, <2>4, <2>5, LocksFrame, <1>kept
<1>9. CASE TransferError(t)
  <2>1. /\ current = t /\ frame[t] = "transfer"
        /\ frame'[t] \in {"user", "restore", "waiting"}
        /\ \A u \in Threads \ {t} : UNCHANGED <<frame[u], req[u]>>
    BY <1>0, <1>9
       DEF TransferError, ReturnIpc, ReturnFrame, Discarded, NoCall, stackVars, tcbVars, listVars,
           schedVars
  <2>2. \A u \in Threads : ~HasReceiver(u)'
    BY <2>1, OnlyCurrent DEF HasReceiver
  <2>3. CASE req[t].to = nilthread
    BY <1>0, <2>1, <2>3, IdAssumption
  <2>4. CASE req[t].to # nilthread
    <3> DEFINE to == req[t].to
    <3>1. HasReceiver(t)
      BY <2>1, <2>4 DEF HasReceiver
    <3>2. /\ to \in Threads /\ to # t
          /\ state[to] \in Waiting \/ (LockOn(t, to) /\ state[to] = "locked_waiting")
      BY <3>1, ReceiverPlace
    <3>3. /\ state[to] \notin {"running", "locked_running"}
          /\ \A x \in Threads : LockOn(x, to) => x = t
      BY <1>0, <3>2 DEF Waiting, LocksOK
    <3>5. req[t].to = to
      OBVIOUS
    <3> HIDE DEF to
    <3>4. /\ ~Locked(state'[t]) /\ \A u \in Threads \ {t, to} : state'[u] = state[u]
          /\ ~Locked(state'[to]) \/ (current' = to /\ state'[to] = state[to])
          /\ current' \notin Threads \ {to} \/ state'[current'] # "locked_waiting"
      BY <1>0, <1>9, <2>4, <3>2
         DEF to, TransferError, ReturnIpc, ReturnFrame, Discarded, NoCall, stackVars, tcbVars,
             listVars, schedVars, Locked
    <3> QED
      BY <1>0, <2>1, <2>2, <3>2, <3>3, <3>4, <3>5, LocksEnd, <1>kept
  <2> QED
    BY <2>3, <2>4
<1>10. CASE SendOnly(t)
  <2>1. /\ current = t /\ frame[t] = "receive"
        /\ frame'[t] \in {"user", "restore", "waiting"}
        /\ \A u \in Threads \ {t} : UNCHANGED <<frame[u], req[u]>>
    BY <1>0, <1>10
       DEF SendOnly, ReturnIpc, ReturnFrame, Discarded, NoCall, ScheduleCheck, stackVars, tcbVars,
           listVars, schedVars
  <2>2. \A u \in Threads : ~HasReceiver(u)'
    BY <2>1, OnlyCurrent DEF HasReceiver
  <2>3. CASE req[t].to = nilthread
    <3>1. /\ ~HasReceiver(t) /\ state[t] # "locked_waiting" /\ state'[t] # "locked_waiting"
          /\ frame[t] # "polling" /\ frame'[t] # "polling"
      BY <1>0, <1>10, <2>1, <2>3
         DEF SendOnly, ReturnIpc, ReturnFrame, Discarded, NoCall, ScheduleCheck, stackVars,
             tcbVars, listVars, schedVars, PlaceOK, HasReceiver
    <3>2. /\ \A u \in Threads \ {t} : state'[u] = state[u]
          /\ current' = current \/ current' \notin Threads
      BY <1>0, <1>10, <2>3
         DEF SendOnly, ReturnIpc, ReturnFrame, Discarded, NoCall, ScheduleCheck, stackVars,
             tcbVars, listVars, schedVars
    <3> QED
      BY <1>same, <1>kept, <2>1, <2>2, <3>1, <3>2
  <2>4. CASE req[t].to # nilthread
    <3> DEFINE to == req[t].to
    <3>1. HasReceiver(t)
      BY <2>1, <2>4 DEF HasReceiver
    <3>2. /\ to \in Threads /\ to # t
          /\ state[to] \in Waiting \/ (LockOn(t, to) /\ state[to] = "locked_waiting")
      BY <3>1, ReceiverPlace
    <3>3. /\ state[to] \notin {"running", "locked_running"}
          /\ \A x \in Threads : LockOn(x, to) => x = t
      BY <1>0, <3>2 DEF Waiting, LocksOK
    <3>5. req[t].to = to
      OBVIOUS
    <3> HIDE DEF to
    <3>4. /\ ~Locked(state'[t]) /\ \A u \in Threads \ {t, to} : state'[u] = state[u]
          /\ ~Locked(state'[to]) \/ (current' = to /\ state'[to] = state[to])
          /\ current' \notin Threads \ {to} \/ state'[current'] # "locked_waiting"
      BY <1>0, <1>10, <2>4, <3>2
         DEF to, SendOnly, ReturnIpc, ReturnFrame, Discarded, NoCall, ScheduleCheck, stackVars,
             tcbVars, listVars, schedVars, Locked
    <3> QED
      BY <1>0, <2>1, <2>2, <3>2, <3>3, <3>4, <3>5, LocksEnd, <1>kept
  <2> QED
    BY <2>3, <2>4
<1>11. CASE ReceiveZeroTimeout(t)
  <2>1. /\ current = t /\ frame[t] = "receive"
        /\ frame'[t] \in {"user", "restore", "waiting"}
        /\ \A u \in Threads \ {t} : UNCHANGED <<frame[u], req[u]>>
    BY <1>0, <1>11
       DEF ReceiveZeroTimeout, Receives, ReturnIpc, ReturnFrame, Discarded, NoCall, SwitchTo,
           stackVars, tcbVars, listVars, schedVars
  <2>2. \A u \in Threads : ~HasReceiver(u)'
    BY <2>1, OnlyCurrent DEF HasReceiver
  <2>3. CASE req[t].to = nilthread
    <3>1. /\ ~HasReceiver(t) /\ state[t] # "locked_waiting" /\ state'[t] # "locked_waiting"
          /\ frame[t] # "polling" /\ frame'[t] # "polling"
      BY <1>0, <1>11, <2>1, <2>3
         DEF ReceiveZeroTimeout, Receives, ReturnIpc, ReturnFrame, Discarded, NoCall, SwitchTo,
             stackVars, tcbVars, listVars, schedVars, PlaceOK, HasReceiver
    <3>2. /\ \A u \in Threads \ {t} : state'[u] = state[u]
          /\ current' = current \/ current' \notin Threads
      BY <1>0, <1>11, <2>3
         DEF ReceiveZeroTimeout, Receives, ReturnIpc, ReturnFrame, Discarded, NoCall, SwitchTo,
             stackVars, tcbVars, listVars, schedVars
    <3> QED
      BY <1>same, <1>kept, <2>1, <2>2, <3>1, <3>2
  <2>4. CASE req[t].to # nilthread
    <3> DEFINE to == req[t].to
    <3>1. HasReceiver(t)
      BY <2>1, <2>4 DEF HasReceiver
    <3>2. /\ to \in Threads /\ to # t
          /\ state[to] \in Waiting \/ (LockOn(t, to) /\ state[to] = "locked_waiting")
      BY <3>1, ReceiverPlace
    <3>3. /\ state[to] \notin {"running", "locked_running"}
          /\ \A x \in Threads : LockOn(x, to) => x = t
      BY <1>0, <3>2 DEF Waiting, LocksOK
    <3>5. req[t].to = to
      OBVIOUS
    <3> HIDE DEF to
    <3>4. /\ ~Locked(state'[t]) /\ \A u \in Threads \ {t, to} : state'[u] = state[u]
          /\ ~Locked(state'[to]) \/ (current' = to /\ state'[to] = state[to])
          /\ current' \notin Threads \ {to} \/ state'[current'] # "locked_waiting"
      BY <1>0, <1>11, <2>4, <3>2
         DEF to, ReceiveZeroTimeout, Receives, ReturnIpc, ReturnFrame, Discarded, NoCall, SwitchTo,
             stackVars, tcbVars, listVars, schedVars, Locked
    <3> QED
      BY <1>0, <2>1, <2>2, <3>2, <3>3, <3>4, <3>5, LocksEnd, <1>kept
  <2> QED
    BY <2>3, <2>4
<1>12. CASE ReceiveBlocked(t)
  <2>1. /\ current = t /\ frame[t] = "receive"
        /\ frame'[t] \in {"user", "restore", "waiting"}
        /\ \A u \in Threads \ {t} : UNCHANGED <<frame[u], req[u]>>
    BY <1>0, <1>12
       DEF ReceiveBlocked, Receives, GoTo, SwitchTo, stackVars, tcbVars, listVars, schedVars
  <2>2. \A u \in Threads : ~HasReceiver(u)'
    BY <2>1, OnlyCurrent DEF HasReceiver
  <2>3. CASE req[t].to = nilthread
    <3>1. /\ ~HasReceiver(t) /\ state[t] # "locked_waiting" /\ state'[t] # "locked_waiting"
          /\ frame[t] # "polling" /\ frame'[t] # "polling"
      BY <1>0, <1>12, <2>1, <2>3
         DEF ReceiveBlocked, Receives, GoTo, SwitchTo, stackVars, tcbVars, listVars, schedVars,
             PlaceOK, HasReceiver
    <3>2. /\ \A u \in Threads \ {t} : state'[u] = state[u]
          /\ current' = current \/ current' \notin Threads
      BY <1>0, <1>12, <2>3
         DEF ReceiveBlocked, Receives, GoTo, SwitchTo, stackVars, tcbVars, listVars, schedVars
    <3> QED
      BY <1>same, <1>kept, <2>1, <2>2, <3>1, <3>2
  <2>4. CASE req[t].to # nilthread
    <3> DEFINE to == req[t].to
    <3>1. HasReceiver(t)
      BY <2>1, <2>4 DEF HasReceiver
    <3>2. /\ to \in Threads /\ to # t
          /\ state[to] \in Waiting \/ (LockOn(t, to) /\ state[to] = "locked_waiting")
      BY <3>1, ReceiverPlace
    <3>3. /\ state[to] \notin {"running", "locked_running"}
          /\ \A x \in Threads : LockOn(x, to) => x = t
      BY <1>0, <3>2 DEF Waiting, LocksOK
    <3>5. req[t].to = to
      OBVIOUS
    <3> HIDE DEF to
    <3>4. /\ ~Locked(state'[t]) /\ \A u \in Threads \ {t, to} : state'[u] = state[u]
          /\ ~Locked(state'[to]) \/ (current' = to /\ state'[to] = state[to])
          /\ current' \notin Threads \ {to} \/ state'[current'] # "locked_waiting"
      BY <1>0, <1>12, <2>4, <3>2
         DEF to, ReceiveBlocked, Receives, GoTo, SwitchTo, stackVars, tcbVars, listVars, schedVars,
             Locked
    <3> QED
      BY <1>0, <2>1, <2>2, <3>2, <3>3, <3>4, <3>5, LocksEnd, <1>kept
  <2> QED
    BY <2>3, <2>4
<1>13. CASE ReceiveAccept(t)
  <2> DEFINE woken == {req[t].to} \ {nilthread}
  <2>1. PICK s \in PollingSender(t) :
          IF req[t].to = nilthread
          THEN /\ state' = [state EXCEPT ![s] = "locked_running", ![t] = "locked_waiting"]
               /\ SwitchTo(s)
          ELSE /\ state' = [state EXCEPT ![s] = "locked_running", ![t] = "locked_waiting",
                                         ![req[t].to] = "running"]
               /\ ScheduleReplyWait(s, req[t].to)
    BY <1>13, Zenon DEF ReceiveAccept
  <2>2. /\ current = t /\ frame[t] = "receive" /\ UNCHANGED req
        /\ frame' = [frame EXCEPT ![t] = "accepted"]
    BY <1>13 DEF ReceiveAccept, Receives, GoTo
  <2>3. s \in Threads /\ state[s] = "polling" /\ partner[s] = t
    BY <2>1 DEF PollingSender, FromTcb
  <2>4. state[t] \in {"running", "locked_running"} /\ s # t
    BY <1>0, <2>2, <2>3 DEF PlaceOK
  <2>5. frame[s] = "polling" /\ req[s].to = t
    <3>1. frame[s] = "polling"
      BY <2>2, <2>3, <2>4, WaitingPlace
    <3> QED
      BY <2>3, <3>1 DEF TransferInv, QueuesOK, Enqueued
  <2>6. \A u \in Threads : ~HasReceiver(u)'
    BY <1>0, <2>2, OnlyCurrent DEF HasReceiver
  <2>7. \A u \in woken : /\ u \in Threads /\ u # t /\ u # s /\ state[u] # "locked_running"
                         /\ \A x \in Threads : LockOn(x, u) => x = t
    <3> SUFFICES ASSUME NEW u \in woken
                 PROVE  /\ u \in Threads /\ u # t /\ u # s /\ state[u] # "locked_running"
                        /\ \A x \in Threads : LockOn(x, u) => x = t
      OBVIOUS
    <3>1. HasReceiver(t) /\ u = req[t].to
      BY <2>2 DEF HasReceiver
    <3>2. /\ u \in Threads /\ u # t
          /\ state[u] \in Waiting \/ (LockOn(t, u) /\ state[u] = "locked_waiting")
      BY <3>1, ReceiverPlace
    <3>3. ASSUME NEW x \in Threads, LockOn(x, u) PROVE x = t
      <4>1. state[u] = "locked_waiting"
        BY <1>0, <3>2, <3>3 DEF LocksOK
      <4>2. LockOn(t, u)
        BY <3>2, <4>1 DEF Waiting
      <4> QED
        BY <1>0, <3>2, <3>3, <4>2 DEF LocksOK
    <3> QED
      BY <2>3, <3>2, <3>3 DEF Waiting
  <2>8. \A u \in Threads : LockOn(t, u) => u \in woken
    BY <2>2 DEF LockOn
  <2>9. /\ state'[s] = "locked_running" /\ state'[t] = "locked_waiting"
        /\ \A u \in woken : state'[u] = "running"
        /\ \A u \in Threads \ (woken \cup {s, t}) : state'[u] = state[u]
        /\ current' \in woken \cup {s}
    <3>1. CASE req[t].to = nilthread
      BY <1>0, <2>1, <2>3, <2>4, <3>1 DEF SwitchTo
    <3>2. CASE req[t].to # nilthread
      <4> DEFINE to == req[t].to
      <4>1. woken = {to} /\ to \in Threads /\ to # t /\ to # s
        BY <2>7, <3>2
      <4> HIDE DEF to
      <4>2. current' \in {to, s}
        BY <2>1, <3>2 DEF to, ScheduleReplyWait
      <4> QED
        BY <1>0, <2>1, <2>3, <2>4, <3>2, <4>1, <4>2 DEF to
    <3> QED
      BY <3>1, <3>2
  <2>10. woken \in SUBSET Threads
    BY <2>7
  <2> HIDE DEF woken
  <2>11. /\ t \notin woken /\ s \notin woken
         /\ \A u \in Threads \ {t} : frame'[u] = frame[u] /\ req'[u] = req[u]
    BY <1>0, <2>2, <2>7
  <2>12. /\ state[t] # "locked_waiting"
         /\ \A u \in woken : state'[u] = "running" /\ state[u] # "locked_running"
         /\ \A u \in woken, x \in Threads : LockOn(x, u) => x = t
    BY <2>4, <2>7, <2>9
  <2> QED
    BY <1>0, <2>2, <2>3, <2>4, <2>5, <2>6, <2>8, <2>9, <2>10, <2>11, <2>12, LocksAccept, <1>kept
<1>14. CASE ReceiveResume(t)
  <2>1. /\ current = t /\ frame[t] \in {"waiting", "accepted"} /\ frame'[t] \in {"user", "restore"}
        /\ state' = [state EXCEPT ![t] = "running"] /\ UNCHANGED current
        /\ \A u \in Threads \ {t} : UNCHANGED <<frame[u], req[u]>>
    BY <1>0, <1>14 DEF ReceiveResume, ReturnIpc, ReturnFrame, Discarded, schedVars
  <2>2. \A s \in Threads, r \in Threads : LockOn(s, r)' <=> LockOn(s, r)
    BY <1>0, <1>s, <2>1 DEF LockOn
  <2>3. \A r \in Threads : state'[r] = "locked_waiting" <=> state[r] = "locked_waiting" /\ r # t
    BY <1>0, <2>1
  <2>4. \A u \in Threads : ~HasReceiver(u)'
    BY <1>s, <2>1 DEF HasReceiver
  <2>5. LocksOK'
    BY <1>0, <2>1, <2>2, <2>3, <2>4 DEF LocksOK
  <2>6. \A r \in Threads : Held(r) => Held(r)'
    BY <2>1, <2>2, <2>3 DEF Held
  <2> QED
    BY <2>5, <2>6
<1>15. CASE UnwindUnstarted(t)
  <2>1. /\ current = t /\ frame[t] = "unwind" /\ UNCHANGED <<current, req>>
        /\ state' = [state EXCEPT ![t] = "running"] /\ frame' = [frame EXCEPT ![t] = "unwound"]
    BY <1>15, UnwindOwn DEF GoTo, schedVars
  <2>2. state[t] # "locked_waiting"
    BY <1>0, <2>1 DEF PlaceOK
  <2> QED
    BY <1>0, <1>same, <1>kept, <2>1, <2>2 DEF HasReceiver
<1>16. CASE HandleIpcError(t)
  <2>1. /\ current = t /\ ~HasReceiver(t)'
        /\ \A u \in Threads \ {t} : UNCHANGED <<state[u], frame[u], req[u]>>
    BY <1>0, <1>16
       DEF HandleIpcError, Discarded, NoCall, stackVars, tcbVars, listVars, schedVars, HasReceiver
  <2>2. /\ ~HasReceiver(t) /\ state[t] # "locked_waiting" /\ state'[t] # "locked_waiting"
        /\ state[t] = "locked_running" => frame[t] # "polling"
        /\ state'[t] = "locked_running" => frame'[t] # "polling"
        /\ current' = current \/ current' \notin Threads
    BY <1>0, <1>16 DEF HandleIpcError, Discarded, NoCall, stackVars, tcbVars, listVars, schedVars,
       PlaceOK, HasReceiver, AtRest, Woken, Waiting, Sending, TimedOutIn, Frames
  <2> QED
    BY <1>same, <1>kept, <2>1, <2>2
<1>17. CASE HandleIpcTimeout(t)
  <2>1. /\ current = t /\ ~HasReceiver(t)'
        /\ \A u \in Threads \ {t} : UNCHANGED <<state[u], frame[u], req[u]>>
    BY <1>0, <1>17
       DEF HandleIpcTimeout, GoTo, NoUnwind, stackVars, tcbVars, listVars, schedVars, HasReceiver
  <2>2. /\ ~HasReceiver(t) /\ state[t] # "locked_waiting" /\ state'[t] # "locked_waiting"
        /\ state[t] = "locked_running" => frame[t] # "polling"
        /\ state'[t] = "locked_running" => frame'[t] # "polling"
        /\ current' = current \/ current' \notin Threads
    BY <1>0, <1>17 DEF HandleIpcTimeout, GoTo, NoUnwind, stackVars, tcbVars, listVars, schedVars,
       PlaceOK, HasReceiver, AtRest, Woken, Waiting, Sending, TimedOutIn, Frames
  <2> QED
    BY <1>same, <1>kept, <2>1, <2>2
<1>18. CASE TimedOut(t)
  <2>1. /\ current = t /\ ~HasReceiver(t)'
        /\ \A u \in Threads \ {t} : UNCHANGED <<state[u], frame[u], req[u]>>
    BY <1>0, <1>18 DEF TimedOut, stackVars, tcbVars, listVars, schedVars, HasReceiver
  <2>2. /\ ~HasReceiver(t) /\ state[t] # "locked_waiting" /\ state'[t] # "locked_waiting"
        /\ state[t] = "locked_running" => frame[t] # "polling"
        /\ state'[t] = "locked_running" => frame'[t] # "polling"
        /\ current' = current \/ current' \notin Threads
    BY <1>0, <1>18 DEF TimedOut, stackVars, tcbVars, listVars, schedVars, PlaceOK, HasReceiver,
       AtRest, Woken, Waiting, Sending, TimedOutIn, Frames
  <2> QED
    BY <1>same, <1>kept, <2>1, <2>2
<1>19. CASE \E v \in Threads : ExregsHalt(t, v)
  <2>1. PICK v \in Threads, h \in {"halt", "resume"} :
          /\ state' = Halted(state, v, h)
          /\ Schedule(IF h = "resume" THEN ready \cup {v} ELSE ready, CanRun(state'))
    BY <1>19 DEF ExregsHalt
  <2>2. current' = idle \/ (current' \in Threads /\ state'[current'] \in Runnable)
    BY <2>1, ScheduleRuns
  <2>3. current = t /\ frame[t] = "user" /\ UNCHANGED <<frame, req>>
    BY <1>19 DEF ExregsHalt, stackVars
  <2>4. \A u \in Threads : state'[u] = state[u] \/ (~Locked(state[u]) /\ ~Locked(state'[u]))
    BY <1>0, <2>1 DEF Halted, Locked
  <2>5. \A u \in Threads : u \in {current, current'} => state[u] # "locked_waiting"
    BY <1>0, <2>2, <2>3, <2>4 DEF Runnable, PlaceOK, AtRest, Locked
  <2>6. \A u \in Threads : ~HasReceiver(u)'
    BY <2>3, OnlyCurrent DEF HasReceiver
  <2>7. \A x, r \in Threads : LockOn(x, r)' <=> LockOn(x, r)
    BY <1>0, <2>3, <2>4 DEF LockOn, Locked
  <2>8. \A r \in Threads : state'[r] = "locked_waiting" <=> state[r] = "locked_waiting"
    BY <2>4 DEF Locked
  <2> QED
    BY <1>0, <2>5, <2>6, <2>7, <2>8, LocksFrame, <1>kept
<1>20. CASE SendNonExisting(t)
  <2>1. /\ current = t /\ frame[t] = "send" /\ frame'[t] \in {"user", "restore"}
        /\ UNCHANGED <<state, current>>
        /\ \A u \in Threads \ {t} : UNCHANGED <<frame[u], req[u]>>
    BY <1>0, <1>20 DEF SendNonExisting, ReturnIpc, ReturnFrame, Discarded, tcbVars, schedVars
  <2>2. state[t] # "locked_waiting" /\ ~HasReceiver(t) /\ ~HasReceiver(t)'
    BY <1>0, <2>1 DEF PlaceOK, HasReceiver
  <2> QED
    BY <1>same, <1>kept, <2>1, <2>2
<1>21. CASE ReceiveNonExisting(t)
  <2>1. /\ current = t /\ frame[t] = "receive" /\ frame'[t] \in {"user", "restore"}
        /\ UNCHANGED <<state, current>>
        /\ \A u \in Threads \ {t} : UNCHANGED <<frame[u], req[u]>>
    BY <1>0, <1>21 DEF ReceiveNonExisting, Receives, ReturnIpc, ReturnFrame, Discarded, tcbVars, schedVars
  <2>2. \A x, r \in Threads : LockOn(x, r)' <=> LockOn(x, r) /\ x # t
    BY <1>0, <2>1 DEF LockOn
  <2>3. \A u \in Threads : ~HasReceiver(u)'
    BY <1>s, <2>1 DEF HasReceiver
  <2>4. LocksOK'
    BY <1>0, <2>1, <2>2, <2>3 DEF LocksOK
  <2>5. \A r \in Threads : Held(r) /\ req[t].to # r => Held(r)'
    BY <2>1, <2>2 DEF Held, LockOn
  <2> QED
    BY <1>21, <2>4, <2>5
<1> QED
  BY <1>1, <1>2, <1>3, <1>4, <1>5, <1>6, <1>7, <1>8, <1>9, <1>10, <1>11, <1>12, <1>13, <1>14,
     <1>15, <1>16, <1>17, <1>18, <1>19, <1>20, <1>21
     DEF OwnStep

\* The timer interrupt finds no thread that is locked for a transfer.
LEMMA LocksTick ==
    ASSUME TransferInv, TimerInterrupt \/ IdleSchedule
    PROVE  LocksKept
<1> USE IdAssumption
<1>0. LocksOK /\ PlacesOK
  BY DEF TransferInv
<1>1. CASE TimerInterrupt
  <2>1. UNCHANGED <<frame, req>> /\ (current \in Threads => frame[current] = "user")
    BY <1>1, TickStates DEF stackVars
  <2>2. \A u \in Threads : state'[u] = state[u] \/ (~Locked(state[u]) /\ ~Locked(state'[u]))
    BY <1>1, TickStates DEF Locked, Woken, AtRest
  <2>3. current' = current \/ current' = idle \/ (current' \in Threads /\ state'[current'] \in Runnable)
    BY <1>1, TickStates
  <2>4. current' = current \/ \A u \in Threads : u \in {current, current'} => state[u] # "locked_waiting"
    BY <1>0, <2>1, <2>2, <2>3 DEF Runnable, PlacesOK, PlaceOK, AtRest, Locked
  <2>5. \A u \in Threads : ~HasReceiver(u)'
    BY <1>0, <2>1 DEF HasReceiver, PlacesOK, PlaceOK
  <2>6. \A x, r \in Threads : LockOn(x, r)' <=> LockOn(x, r)
    BY <1>0, <2>1, <2>2 DEF LockOn, Locked
  <2>7. \A r \in Threads : state'[r] = "locked_waiting" <=> state[r] = "locked_waiting"
    BY <2>2 DEF Locked
  <2> QED
    BY <1>0, <2>4, <2>5, <2>6, <2>7, LocksFrame
<1>2. CASE IdleSchedule
  <2>1. /\ UNCHANGED <<state, partner, saved, notify, frame, req>> /\ current = idle
        /\ Schedule(ready, CanRun(state))
    BY <1>2 DEF IdleSchedule, tcbVars, stackVars
  <2>2. current' = idle \/ (current' \in Threads /\ state[current'] \in Runnable)
    BY <2>1, ScheduleRuns
  <2>3. \A u \in Threads : ~HasReceiver(u)'
    BY <1>0, <2>1 DEF HasReceiver, PlacesOK, PlaceOK
  <2>4. \A x, r \in Threads : LockOn(x, r)' <=> LockOn(x, r)
    BY <2>1 DEF LockOn
  <2> QED
    BY <1>0, <2>1, <2>2, <2>3, <2>4, LocksFrame DEF Runnable
<1> QED
  BY <1>1, <1>2

-----------------------------------------------------------------------------
(* Send queues                                                               *)

\* Who is queued and where depends on these alone.
SameEntry(u) == /\ Enqueued(u)' <=> Enqueued(u)
                /\ Enqueued(u) => req'[u] = req[u] /\ partner'[u] = partner[u]

\* The send queues stay exact if they and what tells who polls are unchanged.
LEMMA QueuesFrame ==
    ASSUME QueuesOK, UNCHANGED <<sendq, sendflag, failed>>, \A u \in Threads : SameEntry(u)
    PROVE  QueuesOK'
<1>1. \A r \in Threads : Distinct(sendq'[r])
  BY DEF QueuesOK
<1>2. ASSUME NEW t \in Threads, NEW r \in Threads
      PROVE  Queued(t, r)' <=> (Enqueued(t) /\ req[t].to = r)'
  BY DEF QueuesOK, SameEntry, Queued
<1>3. ASSUME NEW t \in Threads
      PROVE  /\ (t \in sendflag)' <=> Enqueued(t)'
             /\ Enqueued(t)' => (req[t].to \in Threads /\ partner[t] = req[t].to)'
  BY DEF QueuesOK, SameEntry
<1> QED
  BY <1>1, <1>2, <1>3 DEF QueuesOK

\* A thread that starts to poll is queued at its receiver, once.
LEMMA QueuesEnter ==
    ASSUME TypeOK, QueuesOK, NEW t \in Threads, NEW r \in Threads, EnqueueSend(t, r), ~Enqueued(t),
           Enqueued(t)', req'[t].to = r, partner'[t] = r, \A u \in Threads \ {t} : SameEntry(u)
    PROVE  QueuesOK'
<1>1. /\ sendq' = [sendq EXCEPT ![r] = Append(sendq[r], t)] /\ sendflag' = sendflag \cup {t}
      /\ failed' = failed /\ sendq[r] \in Seq(Threads) /\ sendq \in [Threads -> Seq(Threads)]
  BY DEF EnqueueSend, QueuesOK, TypeOK, EnqueueTail
<1>2. ~InList(sendq[r], t) /\ Distinct(sendq[r])
  BY DEF QueuesOK, Queued
<1>3. \A u : InList(sendq'[r], u) <=> InList(sendq[r], u) \/ u = t
  BY <1>1, AppendMembers
<1>4. \A x \in Threads : Distinct(sendq'[x])
  <2>1. Distinct(sendq'[r])
    BY <1>1, <1>2, AppendMembers
  <2> QED
    BY <1>1, <2>1 DEF QueuesOK
<1>5. ASSUME NEW u \in Threads, NEW x \in Threads
      PROVE  Queued(u, x)' <=> (Enqueued(u) /\ req[u].to = x)'
  <2>1. Queued(u, x)' <=> Queued(u, x) \/ (u = t /\ x = r)
    BY <1>1, <1>3 DEF Queued
  <2>2. CASE u = t
    BY <2>1, <2>2 DEF QueuesOK
  <2>3. CASE u # t
    BY <2>1, <2>3 DEF QueuesOK, SameEntry
  <2> QED
    BY <2>2, <2>3
<1>6. ASSUME NEW u \in Threads
      PROVE  /\ (u \in sendflag)' <=> Enqueued(u)'
             /\ Enqueued(u)' => (req[u].to \in Threads /\ partner[u] = req[u].to)'
  <2>1. CASE u = t
    BY <1>1, <2>1
  <2>2. CASE u # t
    BY <1>1, <2>2 DEF QueuesOK, SameEntry
  <2> QED
    BY <2>1, <2>2
<1>7. failed' = {}
  BY <1>1 DEF QueuesOK
<1> QED
  BY <1>4, <1>5, <1>6, <1>7 DEF QueuesOK

\* A sender that resumes or gives up leaves the queue.
LEMMA QueuesLeave ==
    ASSUME TypeOK, QueuesOK, NEW t \in Threads, NEW r \in Threads, DequeueSend(t, r), Enqueued(t),
           ~Enqueued(t)', req[t].to = r, \A u \in Threads \ {t} : SameEntry(u)
    PROVE  QueuesOK'
<1>1. /\ sendq' = [sendq EXCEPT ![r] = Without(sendq[r], t)] /\ sendflag' = sendflag \ {t}
      /\ failed' = failed /\ sendq[r] \in Seq(Threads) /\ sendq \in [Threads -> Seq(Threads)]
  BY DEF DequeueSend, QueuesOK, TypeOK
<1>2. Distinct(sendq[r])
  BY DEF QueuesOK
<1>3. /\ \A u : u # t => (InList(sendq'[r], u) <=> InList(sendq[r], u))
      /\ Distinct(sendq'[r]) /\ ~InList(sendq'[r], t)
  BY <1>1, <1>2, WithoutMembers
<1>4. \A x \in Threads : Distinct(sendq'[x])
  BY <1>1, <1>3 DEF QueuesOK
<1>5. ASSUME NEW u \in Threads, NEW x \in Threads
      PROVE  Queued(u, x)' <=> (Enqueued(u) /\ req[u].to = x)'
  <2>1. Queued(u, x)' <=> Queued(u, x) /\ ~(u = t /\ x = r)
    BY <1>1, <1>3 DEF Queued
  <2>2. CASE u = t
    BY <2>1, <2>2 DEF QueuesOK
  <2>3. CASE u # t
    BY <2>1, <2>3 DEF QueuesOK, SameEntry
  <2> QED
    BY <2>2, <2>3
<1>6. ASSUME NEW u \in Threads
      PROVE  /\ (u \in sendflag)' <=> Enqueued(u)'
             /\ Enqueued(u)' => (req[u].to \in Threads /\ partner[u] = req[u].to)'
  <2>1. CASE u = t
    BY <1>1, <2>1
  <2>2. CASE u # t
    BY <1>1, <2>2 DEF QueuesOK, SameEntry
  <2> QED
    BY <2>1, <2>2
<1>7. failed' = {}
  BY <1>1 DEF QueuesOK
<1> QED
  BY <1>4, <1>5, <1>6, <1>7 DEF QueuesOK

\* A step of a thread leaves the senders in the queues of their receivers.
LEMMA QueuesOwnStep ==
    ASSUME TransferInv, NEW t \in Threads, OwnStep(t)
    PROVE  QueuesOK'
<1> USE IdAssumption, NotificationNames
<1> USE DEF TypeOK, At
<1>0. /\ TypeOK /\ PlaceOK(t) /\ req[t] \in CallType /\ uw[t].victim = t /\ QueuesOK /\ frame[t] \in Frames
      /\ frame[t] \in {"transfer", "polling"} => req[t].to \in Threads
      /\ alive = Threads
  BY DEF TransferInv, TypeInv, PlacesOK, SendsToThread, UnwindsItself, NoUnwind, Victims
<1>others. ASSUME current = t,
                  \A u \in Threads \ {t} : UNCHANGED <<frame[u], req[u]>>,
                  \A u \in Threads \ {t} : frame[u] = "polling" => partner'[u] = partner[u]
           PROVE  \A u \in Threads \ {t} : SameEntry(u)
  BY <1>others, OnlyCurrent DEF SameEntry, Enqueued
<1>same. ASSUME current = t, UNCHANGED <<sendq, sendflag, failed>>, SameEntry(t),
                \A u \in Threads \ {t} : UNCHANGED <<frame[u], req[u]>>,
                \A u \in Threads \ {t} : frame[u] = "polling" => partner'[u] = partner[u]
         PROVE  QueuesOK'
  BY <1>0, <1>same, <1>others, QueuesFrame
<1>1. CASE IpcCall(t)
  <2>1. /\ current = t /\ UNCHANGED <<sendq, sendflag, failed>>
        /\ \A u \in Threads \ {t} : UNCHANGED <<frame[u], req[u]>>
    BY <1>0, <1>1 DEF IpcCall, stackVars, tcbVars, listVars, schedVars, GoTo
  <2>3. \A u \in Threads \ {t} : frame[u] = "polling" => partner'[u] = partner[u]
    BY <1>0, <1>1 DEF IpcCall, stackVars, tcbVars, listVars, schedVars, GoTo
  <2>4. SameEntry(t)
    BY <1>0, <1>1 DEF IpcCall, stackVars, tcbVars, listVars, schedVars, GoTo, SameEntry, Enqueued
  <2> QED
    BY <1>same, <2>1, <2>3, <2>4
<1>2. CASE PageFault(t)
  <2>1. /\ current = t /\ UNCHANGED <<sendq, sendflag, failed>>
        /\ \A u \in Threads \ {t} : UNCHANGED <<frame[u], req[u]>>
    BY <1>0, <1>2 DEF PageFault, NoCall, stackVars, tcbVars, listVars, schedVars, GoTo
  <2>3. \A u \in Threads \ {t} : frame[u] = "polling" => partner'[u] = partner[u]
    BY <1>0, <1>2 DEF PageFault, NoCall, stackVars, tcbVars, listVars, schedVars, GoTo
  <2>4. SameEntry(t)
    BY <1>0, <1>2
       DEF PageFault, NoCall, stackVars, tcbVars, listVars, schedVars, GoTo, SameEntry, Enqueued
  <2> QED
    BY <1>same, <2>1, <2>3, <2>4
<1>3. CASE RestoreState(t)
  <2>1. /\ current = t /\ UNCHANGED <<sendq, sendflag, failed>>
        /\ \A u \in Threads \ {t} : UNCHANGED <<frame[u], req[u]>>
    BY <1>0, <1>3 DEF RestoreState, GoTo, stackVars, tcbVars, listVars, schedVars
  <2>3. \A u \in Threads \ {t} : frame[u] = "polling" => partner'[u] = partner[u]
    BY <1>0, <1>3 DEF RestoreState, GoTo, stackVars, tcbVars, listVars, schedVars
  <2>4. SameEntry(t)
    BY <1>0, <1>3
       DEF RestoreState, GoTo, stackVars, tcbVars, listVars, schedVars, SameEntry, Enqueued
  <2> QED
    BY <1>same, <2>1, <2>3, <2>4
<1>4. CASE SendZeroTimeout(t)
  <2>1. /\ current = t /\ UNCHANGED <<sendq, sendflag, failed>>
        /\ \A u \in Threads \ {t} : UNCHANGED <<frame[u], req[u]>>
    BY <1>0, <1>4
       DEF SendZeroTimeout, ReturnIpc, ReturnFrame, Discarded, NoCall, stackVars, tcbVars,
           listVars, schedVars
  <2>3. \A u \in Threads \ {t} : frame[u] = "polling" => partner'[u] = partner[u]
    BY <1>0, <1>4
       DEF SendZeroTimeout, ReturnIpc, ReturnFrame, Discarded, NoCall, stackVars, tcbVars,
           listVars, schedVars
  <2>4. SameEntry(t)
    BY <1>0, <1>4
       DEF SendZeroTimeout, ReturnIpc, ReturnFrame, Discarded, NoCall, stackVars, tcbVars,
           listVars, schedVars, SameEntry, Enqueued
  <2> QED
    BY <1>same, <2>1, <2>3, <2>4
<1>5. CASE SendBlocked(t)
  <2>1. /\ current = t /\ \A u \in Threads \ {t} : UNCHANGED <<frame[u], req[u], partner[u]>>
        /\ EnqueueSend(t, req[t].to)
        /\ req'[t] = req[t]
    BY <1>0, <1>5 DEF SendBlocked, SwitchTo, GoTo, stackVars, tcbVars, listVars, schedVars
  <2>2. \A u \in Threads \ {t} : SameEntry(u)
    BY <2>1, <1>others
  <2>3. ~Enqueued(t) /\ Enqueued(t)' /\ req[t].to \in Threads /\ partner'[t] = req[t].to
    BY <1>0, <1>5 DEF SendBlocked, SwitchTo, GoTo, stackVars, tcbVars, listVars, schedVars, Enqueued
  <2> QED
    BY <1>0, <2>1, <2>2, <2>3, QueuesEnter
<1>6. CASE SendReady(t)
  <2>1. /\ current = t /\ UNCHANGED <<sendq, sendflag, failed>>
        /\ \A u \in Threads \ {t} : UNCHANGED <<frame[u], req[u]>>
    BY <1>0, <1>6 DEF SendReady, GoTo, stackVars, tcbVars, listVars, schedVars
  <2>3. \A u \in Threads \ {t} : frame[u] = "polling" => partner'[u] = partner[u]
    BY <1>0, <1>6 DEF SendReady, GoTo, stackVars, tcbVars, listVars, schedVars
  <2>4. SameEntry(t)
    BY <1>0, <1>6 DEF SendReady, GoTo, stackVars, tcbVars, listVars, schedVars, SameEntry, Enqueued
  <2> QED
    BY <1>same, <2>1, <2>3, <2>4
<1>7. CASE SendResume(t)
  <2>1. /\ current = t /\ \A u \in Threads \ {t} : UNCHANGED <<frame[u], req[u], partner[u]>>
        /\ DequeueSend(t, req[t].to)
        /\ req'[t] = req[t]
    BY <1>0, <1>7 DEF SendResume, GoTo, CancelTimeout, stackVars, tcbVars, listVars, schedVars
  <2>2. \A u \in Threads \ {t} : SameEntry(u)
    BY <2>1, <1>others
  <2>3. Enqueued(t) /\ ~Enqueued(t)' /\ req[t].to \in Threads
    BY <1>0, <1>7
       DEF SendResume, GoTo, CancelTimeout, stackVars, tcbVars, listVars, schedVars, Enqueued
  <2> QED
    BY <1>0, <2>1, <2>2, <2>3, QueuesLeave
<1>8. CASE Transfer(t)
  <2>1. /\ current = t /\ UNCHANGED <<sendq, sendflag, failed>>
        /\ \A u \in Threads \ {t} : UNCHANGED <<frame[u], req[u]>>
    BY <1>0, <1>8 DEF Transfer, GoTo, FixupPropagation, stackVars, tcbVars, listVars, schedVars
  <2>2. frame[req[t].to] \in {"waiting", "accepted"} /\ req[t].to \in Threads
    <3>1. HasReceiver(t)
      BY <1>0, <1>8 DEF Transfer, HasReceiver
    <3> QED
      BY <1>0, <3>1, ReceiverPlace DEF PlaceOK, HasReceiver
  <2>3. \A u \in Threads \ {t} : frame[u] = "polling" => partner'[u] = partner[u]
    <3> SUFFICES ASSUME NEW u \in Threads \ {t}, frame[u] = "polling" PROVE partner'[u] = partner[u]
      OBVIOUS
    <3>1. state[u] \notin Waiting
      BY <2>1, WaitingPlace
    <3> QED
      BY <1>0, <1>8, <2>2, <3>1 DEF Transfer, FixupPropagation
  <2>4. SameEntry(t)
    BY <1>0, <1>8
       DEF Transfer, GoTo, FixupPropagation, stackVars, tcbVars, listVars, schedVars, SameEntry,
           Enqueued
  <2> QED
    BY <1>same, <2>1, <2>3, <2>4
<1>9. CASE TransferError(t)
  <2>1. /\ current = t /\ UNCHANGED <<sendq, sendflag, failed>>
        /\ \A u \in Threads \ {t} : UNCHANGED <<frame[u], req[u]>>
    BY <1>0, <1>9
       DEF TransferError, ReturnIpc, ReturnFrame, Discarded, NoCall, stackVars, tcbVars, listVars,
           schedVars
  <2>2. frame[req[t].to] \in {"waiting", "accepted"} /\ req[t].to \in Threads
    <3>1. HasReceiver(t)
      BY <1>0, <1>9 DEF TransferError, HasReceiver
    <3> QED
      BY <1>0, <3>1, ReceiverPlace DEF PlaceOK, HasReceiver
  <2>3. \A u \in Threads \ {t} : frame[u] = "polling" => partner'[u] = partner[u]
    <3> SUFFICES ASSUME NEW u \in Threads \ {t}, frame[u] = "polling" PROVE partner'[u] = partner[u]
      OBVIOUS
    <3>1. state[u] \notin Waiting
      BY <2>1, WaitingPlace
    <3> QED
      BY <1>0, <1>9, <2>2, <3>1 DEF TransferError, FixupPropagation
  <2>4. SameEntry(t)
    BY <1>0, <1>9
       DEF TransferError, ReturnIpc, ReturnFrame, Discarded, NoCall, stackVars, tcbVars, listVars,
           schedVars, SameEntry, Enqueued
  <2> QED
    BY <1>same, <2>1, <2>3, <2>4
<1>10. CASE SendOnly(t)
  <2>1. /\ current = t /\ UNCHANGED <<sendq, sendflag, failed>>
        /\ \A u \in Threads \ {t} : UNCHANGED <<frame[u], req[u]>>
    BY <1>0, <1>10
       DEF SendOnly, ReturnIpc, ReturnFrame, Discarded, NoCall, ScheduleCheck, stackVars, tcbVars,
           listVars, schedVars
  <2>3. \A u \in Threads \ {t} : frame[u] = "polling" => partner'[u] = partner[u]
    BY <1>0, <1>10
       DEF SendOnly, ReturnIpc, ReturnFrame, Discarded, NoCall, ScheduleCheck, stackVars, tcbVars,
           listVars, schedVars
  <2>4. SameEntry(t)
    BY <1>0, <1>10
       DEF SendOnly, ReturnIpc, ReturnFrame, Discarded, NoCall, ScheduleCheck, stackVars, tcbVars,
           listVars, schedVars, SameEntry, Enqueued
  <2> QED
    BY <1>same, <2>1, <2>3, <2>4
<1>11. CASE ReceiveZeroTimeout(t)
  <2>1. /\ current = t /\ UNCHANGED <<sendq, sendflag, failed>>
        /\ \A u \in Threads \ {t} : UNCHANGED <<frame[u], req[u]>>
    BY <1>0, <1>11
       DEF ReceiveZeroTimeout, Receives, ReturnIpc, ReturnFrame, Discarded, NoCall, SwitchTo,
           stackVars, tcbVars, listVars, schedVars
  <2>3. \A u \in Threads \ {t} : frame[u] = "polling" => partner'[u] = partner[u]
    BY <1>0, <1>11
       DEF ReceiveZeroTimeout, Receives, ReturnIpc, ReturnFrame, Discarded, NoCall, SwitchTo,
           stackVars, tcbVars, listVars, schedVars
  <2>4. SameEntry(t)
    BY <1>0, <1>11
       DEF ReceiveZeroTimeout, Receives, ReturnIpc, ReturnFrame, Discarded, NoCall, SwitchTo,
           stackVars, tcbVars, listVars, schedVars, SameEntry, Enqueued
  <2> QED
    BY <1>same, <2>1, <2>3, <2>4
<1>12. CASE ReceiveBlocked(t)
  <2>1. /\ current = t /\ UNCHANGED <<sendq, sendflag, failed>>
        /\ \A u \in Threads \ {t} : UNCHANGED <<frame[u], req[u]>>
    BY <1>0, <1>12
       DEF ReceiveBlocked, Receives, GoTo, SwitchTo, stackVars, tcbVars, listVars, schedVars
  <2>3. \A u \in Threads \ {t} : frame[u] = "polling" => partner'[u] = partner[u]
    BY <1>0, <1>12
       DEF ReceiveBlocked, Receives, GoTo, SwitchTo, stackVars, tcbVars, listVars, schedVars
  <2>4. SameEntry(t)
    BY <1>0, <1>12
       DEF ReceiveBlocked, Receives, GoTo, SwitchTo, stackVars, tcbVars, listVars, schedVars,
           SameEntry, Enqueued
  <2> QED
    BY <1>same, <2>1, <2>3, <2>4
<1>13. CASE ReceiveAccept(t)
  <2>1. /\ current = t /\ UNCHANGED <<sendq, sendflag, failed>>
        /\ \A u \in Threads \ {t} : UNCHANGED <<frame[u], req[u]>>
    BY <1>0, <1>13
       DEF ReceiveAccept, Receives, GoTo, SwitchTo, ScheduleReplyWait, PollingSender, stackVars,
           tcbVars, listVars, schedVars
  <2>3. \A u \in Threads \ {t} : frame[u] = "polling" => partner'[u] = partner[u]
    BY <1>0, <1>13
       DEF ReceiveAccept, Receives, GoTo, SwitchTo, ScheduleReplyWait, PollingSender, stackVars,
           tcbVars, listVars, schedVars
  <2>4. SameEntry(t)
    BY <1>0, <1>13
       DEF ReceiveAccept, Receives, GoTo, SwitchTo, ScheduleReplyWait, PollingSender, stackVars,
           tcbVars, listVars, schedVars, SameEntry, Enqueued
  <2> QED
    BY <1>same, <2>1, <2>3, <2>4
<1>14. CASE ReceiveResume(t)
  <2>1. /\ current = t /\ UNCHANGED <<sendq, sendflag, failed>>
        /\ \A u \in Threads \ {t} : UNCHANGED <<frame[u], req[u]>>
    BY <1>0, <1>14
       DEF ReceiveResume, ReturnIpc, ReturnFrame, Discarded, NoCall, CancelTimeout, stackVars,
           tcbVars, listVars, schedVars
  <2>3. \A u \in Threads \ {t} : frame[u] = "polling" => partner'[u] = partner[u]
    BY <1>0, <1>14
       DEF ReceiveResume, ReturnIpc, ReturnFrame, Discarded, NoCall, CancelTimeout, stackVars,
           tcbVars, listVars, schedVars
  <2>4. SameEntry(t)
    BY <1>0, <1>14
       DEF ReceiveResume, ReturnIpc, ReturnFrame, Discarded, NoCall, CancelTimeout, stackVars,
           tcbVars, listVars, schedVars, SameEntry, Enqueued
  <2> QED
    BY <1>same, <2>1, <2>3, <2>4
<1>15. CASE UnwindUnstarted(t)
  <2>1. /\ current = t /\ \A u \in Threads \ {t} : UNCHANGED <<frame[u], req[u], partner[u]>>
        /\ (IF state[t] = "polling" THEN DequeueSend(t, partner[t]) ELSE UNCHANGED <<sendq, sendflag, failed>>)
        /\ req'[t] = req[t] /\ frame[t] = "unwind" /\ frame'[t] = "unwound"
    BY <1>0, <1>15, UnwindOwn DEF GoTo
  <2>2. \A u \in Threads \ {t} : SameEntry(u)
    BY <2>1, <1>others
  <2>3. (Enqueued(t) <=> state[t] = "polling") /\ ~Enqueued(t)'
    BY <2>1 DEF Enqueued
  <2>4. CASE state[t] = "polling"
    <3>1. partner[t] = req[t].to /\ req[t].to \in Threads
      BY <1>0, <2>3, <2>4 DEF QueuesOK
    <3> QED
      BY <1>0, <2>1, <2>2, <2>3, <2>4, <3>1, QueuesLeave
  <2>5. CASE state[t] # "polling"
    <3>1. SameEntry(t)
      BY <2>3, <2>5 DEF SameEntry
    <3> QED
      BY <1>0, <2>1, <2>2, <2>5, <3>1, QueuesFrame
  <2> QED
    BY <2>4, <2>5
<1>16. CASE HandleIpcError(t)
  <2>1. /\ current = t /\ UNCHANGED <<sendq, sendflag, failed>>
        /\ \A u \in Threads \ {t} : UNCHANGED <<frame[u], req[u]>>
    BY <1>0, <1>16 DEF HandleIpcError, Discarded, NoCall, stackVars, tcbVars, listVars, schedVars
  <2>3. \A u \in Threads \ {t} : frame[u] = "polling" => partner'[u] = partner[u]
    BY <1>0, <1>16 DEF HandleIpcError, Discarded, NoCall, stackVars, tcbVars, listVars, schedVars
  <2>4. SameEntry(t)
    <3>1. frame[t] = "unwound" /\ frame'[t] = "user"
      BY <1>0, <1>16 DEF HandleIpcError, Discarded, PlaceOK, Frames, TimedOutIn
    <3> QED
      BY <3>1 DEF SameEntry, Enqueued
  <2> QED
    BY <1>same, <2>1, <2>3, <2>4
<1>17. CASE HandleIpcTimeout(t)
  <2>1. /\ current = t /\ UNCHANGED <<sendq, sendflag, failed>>
        /\ \A u \in Threads \ {t} : UNCHANGED <<frame[u], req[u]>>
    BY <1>0, <1>17 DEF HandleIpcTimeout, GoTo, NoUnwind, stackVars, tcbVars, listVars, schedVars
  <2>3. \A u \in Threads \ {t} : frame[u] = "polling" => partner'[u] = partner[u]
    BY <1>0, <1>17 DEF HandleIpcTimeout, GoTo, NoUnwind, stackVars, tcbVars, listVars, schedVars
  <2>4. SameEntry(t)
    <3>1. /\ frame'[t] = "unwind" /\ state'[t] = notify[t].state /\ notify[t].fn = "handle_ipc_timeout"
          /\ UNCHANGED <<req, partner>>
      BY <1>0, <1>17 DEF HandleIpcTimeout, GoTo
    <3>2. (frame[t] = "polling" /\ notify[t].state = "polling") \/ (frame[t] = "waiting" /\ notify[t].state = "waiting_timeout")
      BY <1>0, <3>1 DEF PlaceOK, Frames, TimedOutIn
    <3> QED
      BY <3>1, <3>2 DEF SameEntry, Enqueued
  <2> QED
    BY <1>same, <2>1, <2>3, <2>4
<1>18. CASE TimedOut(t)
  <2>1. /\ current = t /\ UNCHANGED <<sendq, sendflag, failed>>
        /\ \A u \in Threads \ {t} : UNCHANGED <<frame[u], req[u]>>
    BY <1>0, <1>18 DEF TimedOut, stackVars, tcbVars, listVars, schedVars
  <2>3. \A u \in Threads \ {t} : frame[u] = "polling" => partner'[u] = partner[u]
    BY <1>0, <1>18 DEF TimedOut, stackVars, tcbVars, listVars, schedVars
  <2>4. SameEntry(t)
    BY <1>0, <1>18 DEF TimedOut, stackVars, tcbVars, listVars, schedVars, SameEntry, Enqueued
  <2> QED
    BY <1>same, <2>1, <2>3, <2>4
<1>19. CASE \E v \in Threads : ExregsHalt(t, v)
  <2>1. /\ current = t /\ frame[t] = "user"
        /\ UNCHANGED <<frame, req, partner, sendq, sendflag, failed>>
    BY <1>19 DEF ExregsHalt, stackVars, listVars
  <2>2. SameEntry(t)
    BY <2>1 DEF SameEntry, Enqueued
  <2> QED
    BY <1>same, <2>1, <2>2
<1>20. CASE SendNonExisting(t) \/ ReceiveNonExisting(t)
  <2>1. /\ current = t /\ UNCHANGED <<sendq, sendflag, failed, partner>>
        /\ frame[t] \in {"send", "receive"} /\ frame'[t] \in {"user", "restore"}
        /\ \A u \in Threads \ {t} : UNCHANGED <<frame[u], req[u]>>
    BY <1>0, <1>20
       DEF SendNonExisting, ReceiveNonExisting, Receives, ReturnIpc, ReturnFrame, Discarded,
           tcbVars, listVars
  <2>2. SameEntry(t)
    BY <2>1 DEF SameEntry, Enqueued
  <2> QED
    BY <1>same, <2>1, <2>2
<1> QED
  BY <1>1, <1>2, <1>3, <1>4, <1>5, <1>6, <1>7, <1>8, <1>9, <1>10, <1>11, <1>12, <1>13, <1>14,
     <1>15, <1>16, <1>17, <1>18, <1>19, <1>20
     DEF OwnStep

\* A sender whose timeout has expired stays in the queue until it unwinds itself.
LEMMA QueuesTick ==
    ASSUME TransferInv, TimerInterrupt \/ IdleSchedule
    PROVE  QueuesOK'
<1>0. QueuesOK /\ PlacesOK
  BY DEF TransferInv
<1>1. CASE TimerInterrupt
  <2>1. /\ UNCHANGED <<frame, req, partner, sendq, sendflag, failed>>
        /\ (current \in Threads => frame[current] = "user")
    BY <1>1, TickStates DEF stackVars
  <2>2. \A u \in Threads : SameEntry(u)
    BY <1>0, <2>1 DEF SameEntry, Enqueued, PlacesOK, PlaceOK
  <2> QED
    BY <1>0, <2>1, <2>2, QueuesFrame
<1>2. CASE IdleSchedule
  <2>1. /\ UNCHANGED <<state, frame, req, partner, sendq, sendflag, failed>>
    BY <1>2 DEF IdleSchedule, tcbVars, stackVars, listVars
  <2> QED
    BY <1>0, <2>1, QueuesFrame DEF SameEntry, Enqueued
<1> QED
  BY <1>1, <1>2
-----------------------------------------------------------------------------
(* Timeouts                                                                  *)

\* A step of a thread leaves no timeout armed at either side of a transfer.
LEMMA TimeoutsOwnStep ==
    ASSUME TransferInv, NEW t \in Threads, OwnStep(t)
    PROVE  TimeoutsOK'
<1> USE IdAssumption, NotificationNames
<1> USE DEF TypeOK, At
<1> SUFFICES ASSUME NEW u \in Threads, u \in wakeup'
             PROVE  (frame[u] \in {"polling", "waiting"} /\ notify[u] = NotNotified /\ (state[u] = "locked_running" => u = current))'
  <2>1. wakeup' \subseteq Threads
    BY TypeInvInductive DEF TransferInv, TypeInv, OwnStep, Next, IpcStep, UnwindStep, ControlStep
  <2> QED
    BY <2>1 DEF TimeoutsOK
<1>0. /\ TypeOK /\ PlaceOK(t) /\ req[t] \in CallType /\ uw[t].victim = t /\ frame[t] \in Frames
      /\ u \in wakeup => /\ frame[u] \in {"polling", "waiting"} /\ notify[u] = NotNotified
                         /\ state[u] = "locked_running" => u = current
      /\ HasReceiver(t) => /\ req[t].to \in Threads /\ req[t].to # t
                           /\ state[req[t].to] \in Waiting \cup {"locked_waiting"}
  <2>1. HasReceiver(t) => /\ req[t].to \in Threads /\ req[t].to # t
                          /\ state[req[t].to] \in Waiting \cup {"locked_waiting"}
    BY ReceiverPlace
  <2> QED
    BY <2>1 DEF TransferInv, TypeInv, PlacesOK, UnwindsItself, NoUnwind, Victims, TimeoutsOK
<1>1. CASE IpcCall(t)
  BY <1>0, <1>1 DEF IpcCall, stackVars, tcbVars, listVars, schedVars, GoTo
<1>2. CASE PageFault(t)
  BY <1>0, <1>2 DEF PageFault, NoCall, stackVars, tcbVars, listVars, schedVars, GoTo
<1>3. CASE RestoreState(t)
  BY <1>0, <1>3 DEF RestoreState, GoTo, stackVars, tcbVars, listVars, schedVars
<1>4. CASE SendZeroTimeout(t)
  BY <1>0, <1>4
     DEF SendZeroTimeout, ReturnIpc, ReturnFrame, Discarded, NoCall, stackVars, tcbVars, listVars,
         schedVars
<1>5. CASE SendBlocked(t)
  BY <1>0, <1>5
     DEF SendBlocked, SwitchTo, GoTo, EnqueueSend, stackVars, tcbVars, listVars, schedVars
<1>6. CASE SendReady(t)
  BY <1>0, <1>6 DEF SendReady, GoTo, stackVars, tcbVars, listVars, schedVars
<1>7. CASE SendResume(t)
  BY <1>0, <1>7
     DEF SendResume, GoTo, CancelTimeout, DequeueSend, stackVars, tcbVars, listVars, schedVars
<1>8. CASE Transfer(t)
  BY <1>0, <1>8
     DEF Transfer, GoTo, FixupPropagation, stackVars, tcbVars, listVars, schedVars, HasReceiver
<1>9. CASE TransferError(t)
  BY <1>0, <1>9
     DEF TransferError, ReturnIpc, ReturnFrame, Discarded, NoCall, stackVars, tcbVars, listVars,
         schedVars, HasReceiver
<1>10. CASE SendOnly(t)
  BY <1>0, <1>10
     DEF SendOnly, ReturnIpc, ReturnFrame, Discarded, NoCall, ScheduleCheck, stackVars, tcbVars,
         listVars, schedVars, HasReceiver
<1>11. CASE ReceiveZeroTimeout(t)
  BY <1>0, <1>11
     DEF ReceiveZeroTimeout, Receives, ReturnIpc, ReturnFrame, Discarded, NoCall, SwitchTo,
         stackVars, tcbVars, listVars, schedVars, HasReceiver
<1>12. CASE ReceiveBlocked(t)
  BY <1>0, <1>12
     DEF ReceiveBlocked, Receives, GoTo, SwitchTo, stackVars, tcbVars, listVars, schedVars,
         HasReceiver
<1>13. CASE ReceiveAccept(t)
  BY <1>0, <1>13
     DEF ReceiveAccept, Receives, GoTo, SwitchTo, ScheduleReplyWait, PollingSender, stackVars,
         tcbVars, listVars, schedVars, HasReceiver
<1>14. CASE ReceiveResume(t)
  BY <1>0, <1>14
     DEF ReceiveResume, ReturnIpc, ReturnFrame, Discarded, NoCall, CancelTimeout, stackVars,
         tcbVars, listVars, schedVars
<1>15. CASE UnwindUnstarted(t)
  BY <1>0, <1>15, UnwindOwn
     DEF GoTo, CancelTimeout, schedVars
<1>16. CASE HandleIpcError(t)
  BY <1>0, <1>16
     DEF HandleIpcError, Discarded, NoCall, stackVars, tcbVars, listVars, schedVars, PlaceOK,
         TimedOutIn, Frames
<1>17. CASE HandleIpcTimeout(t)
  BY <1>0, <1>17
     DEF HandleIpcTimeout, GoTo, NoUnwind, stackVars, tcbVars, listVars, schedVars, PlaceOK,
         TimedOutIn, Frames
<1>18. CASE TimedOut(t)
  BY <1>0, <1>18 DEF TimedOut, stackVars, tcbVars, listVars, schedVars, PlaceOK, TimedOutIn, Frames
<1>19. CASE \E v \in Threads : ExregsHalt(t, v)
  <2>1. PICK v \in Threads, h \in {"halt", "resume"} : state' = Halted(state, v, h)
    BY <1>19 DEF ExregsHalt
  <2>2. current = t /\ frame[t] = "user" /\ UNCHANGED <<frame, notify, wakeup>>
    BY <1>19 DEF ExregsHalt, stackVars, listVars
  <2>3. state'[u] = "locked_running" => state[u] = "locked_running"
    BY <1>0, <2>1 DEF Halted
  <2> QED
    BY <1>0, <2>2, <2>3
<1>20. CASE SendNonExisting(t) \/ ReceiveNonExisting(t)
  BY <1>0, <1>20
     DEF SendNonExisting, ReceiveNonExisting, Receives, ReturnIpc, ReturnFrame, Discarded, tcbVars,
         listVars, schedVars
<1> QED
  BY <1>1, <1>2, <1>3, <1>4, <1>5, <1>6, <1>7, <1>8, <1>9, <1>10, <1>11, <1>12, <1>13, <1>14,
     <1>15, <1>16, <1>17, <1>18, <1>19, <1>20
     DEF OwnStep

\* Neither a timer interrupt nor the idle loop arms a timeout.
LEMMA TimeoutsTick ==
    ASSUME TransferInv, TimerInterrupt \/ IdleSchedule
    PROVE  TimeoutsOK'
<1>0. TimeoutsOK /\ PlacesOK /\ wakeup \subseteq Threads
  BY DEF TransferInv, TypeInv, TypeOK
<1>1. CASE TimerInterrupt
  <2>1. UNCHANGED frame /\ wakeup' \subseteq wakeup /\ (current \in Threads => frame[current] = "user")
    BY <1>1, TickStates DEF stackVars
  <2>2. \A u \in Threads : state'[u] = "locked_running" => state[u] = "locked_running"
    BY <1>1, TickStates
  <2>3. \A u \in wakeup : u # current
    BY <1>0, <2>1 DEF TimeoutsOK
  <2>4. \A u \in wakeup' : notify'[u] = notify[u]
    BY <1>0, <1>1, <2>1, TickStates
  <2> QED
    BY <1>0, <2>1, <2>2, <2>3, <2>4 DEF TimeoutsOK
<1>2. CASE IdleSchedule
  <2>1. UNCHANGED <<state, frame, notify, wakeup>> /\ current = idle
    BY <1>2 DEF IdleSchedule, tcbVars, stackVars, listVars
  <2> QED
    BY <1>0, <2>1, IdAssumption DEF TimeoutsOK
<1> QED
  BY <1>1, <1>2

-----------------------------------------------------------------------------
(* Message registers                                                         *)

\* A step of a thread leaves no message behind at a thread that waits, unless it
\* returns because nobody has the id to receive from.
LEMMA MessagesOwnStep ==
    ASSUME TransferInv, NEW t \in Threads, OwnStep(t)
    PROVE  /\ MessagesOK'
           /\ \A r \in Threads : Noticed(r) /\ ~Noticed(r)' =>
                                    ReceiveNonExisting(t) /\ req[t].to = r
<1> USE IdAssumption, NotificationNames
<1> USE DEF TypeOK, At
<1> SUFFICES ASSUME NEW u \in Threads
             PROVE  /\ MessageOK(u)'
                    /\ Noticed(u) /\ ~Noticed(u)' => ReceiveNonExisting(t) /\ req[t].to = u
  BY DEF MessagesOK
<1>0. /\ TypeOK /\ PlaceOK(t) /\ PlaceOK(u) /\ MessageOK(t) /\ MessageOK(u)
      /\ req[t] \in CallType /\ uw[t].victim = t /\ frame[t] \in Frames
      /\ frame[t] = "transfer" => req[t].to # nilthread
      /\ HasReceiver(t) => /\ req[t].to \in Threads /\ req[t].to # t
                           /\ frame[req[t].to] \in {"waiting", "accepted"}
  <2>1. HasReceiver(t) => /\ req[t].to \in Threads /\ req[t].to # t
                          /\ frame[req[t].to] \in {"waiting", "accepted"}
    BY ReceiverPlace DEF PlaceOK, HasReceiver
  <2> QED
    BY <2>1
       DEF TransferInv, TypeInv, PlacesOK, UnwindsItself, NoUnwind, Victims, MessagesOK,
           SendsToThread
<1>1. CASE IpcCall(t)
  BY <1>0, <1>1
     DEF IpcCall, stackVars, tcbVars, listVars, schedVars, GoTo, MessageOK, Noticed, InKernel, PlaceOK, TimedOutIn,
         AtRest, Woken, Waiting
<1>2. CASE PageFault(t)
  BY <1>0, <1>2
     DEF PageFault, NoCall, stackVars, tcbVars, listVars, schedVars, GoTo, MessageOK, Noticed, InKernel, PlaceOK,
         TimedOutIn, AtRest, Woken, Waiting
<1>3. CASE RestoreState(t)
  BY <1>0, <1>3
     DEF RestoreState, GoTo, stackVars, tcbVars, listVars, schedVars, MessageOK, Noticed, InKernel, PlaceOK,
         TimedOutIn, AtRest, Woken, Waiting
<1>4. CASE SendZeroTimeout(t)
  BY <1>0, <1>4
     DEF SendZeroTimeout, ReturnIpc, ReturnFrame, Discarded, NoCall, stackVars, tcbVars, listVars,
         schedVars, MessageOK, Noticed, InKernel, PlaceOK, TimedOutIn, AtRest, Woken, Waiting
<1>5. CASE SendBlocked(t)
  BY <1>0, <1>5
     DEF SendBlocked, SwitchTo, GoTo, EnqueueSend, stackVars, tcbVars, listVars, schedVars,
         MessageOK, Noticed, InKernel, PlaceOK, TimedOutIn, AtRest, Woken, Waiting
<1>6. CASE SendReady(t)
  BY <1>0, <1>6
     DEF SendReady, GoTo, stackVars, tcbVars, listVars, schedVars, MessageOK, Noticed, InKernel, PlaceOK, TimedOutIn,
         AtRest, Woken, Waiting
<1>7. CASE SendResume(t)
  BY <1>0, <1>7
     DEF SendResume, GoTo, CancelTimeout, DequeueSend, stackVars, tcbVars, listVars, schedVars,
         MessageOK, Noticed, InKernel, PlaceOK, TimedOutIn, AtRest, Woken, Waiting
<1>8. CASE Transfer(t)
  BY <1>0, <1>8
     DEF Transfer, GoTo, FixupPropagation, stackVars, tcbVars, listVars, schedVars, HasReceiver,
         MessageOK, Noticed, InKernel, PlaceOK, TimedOutIn, AtRest, Woken, Waiting
<1>9. CASE TransferError(t)
  BY <1>0, <1>9
     DEF TransferError, ReturnIpc, ReturnFrame, Discarded, NoCall, stackVars, tcbVars, listVars,
         schedVars, HasReceiver, MessageOK, Noticed, InKernel, PlaceOK, TimedOutIn, AtRest, Woken, Waiting
<1>10. CASE SendOnly(t)
  BY <1>0, <1>10
     DEF SendOnly, ReturnIpc, ReturnFrame, Discarded, NoCall, ScheduleCheck, stackVars, tcbVars,
         listVars, schedVars, HasReceiver, MessageOK, Noticed, InKernel, PlaceOK, TimedOutIn, AtRest, Woken, Waiting
<1>11. CASE ReceiveZeroTimeout(t)
  BY <1>0, <1>11
     DEF ReceiveZeroTimeout, Receives, ReturnIpc, ReturnFrame, Discarded, NoCall, SwitchTo,
         stackVars, tcbVars, listVars, schedVars, HasReceiver, MessageOK, Noticed, InKernel, PlaceOK, TimedOutIn,
         AtRest, Woken, Waiting
<1>12. CASE ReceiveBlocked(t)
  BY <1>0, <1>12
     DEF ReceiveBlocked, Receives, GoTo, SwitchTo, stackVars, tcbVars, listVars, schedVars,
         HasReceiver, MessageOK, Noticed, InKernel, PlaceOK, TimedOutIn, AtRest, Woken, Waiting
<1>13. CASE ReceiveAccept(t)
  BY <1>0, <1>13
     DEF ReceiveAccept, Receives, GoTo, SwitchTo, ScheduleReplyWait, PollingSender, stackVars,
         tcbVars, listVars, schedVars, HasReceiver, MessageOK, Noticed, InKernel, PlaceOK, TimedOutIn, AtRest, Woken,
         Waiting
<1>14. CASE ReceiveResume(t)
  BY <1>0, <1>14
     DEF ReceiveResume, ReturnIpc, ReturnFrame, Discarded, NoCall, CancelTimeout, stackVars,
         tcbVars, listVars, schedVars, MessageOK, Noticed, InKernel, PlaceOK, TimedOutIn, AtRest, Woken, Waiting
<1>15. CASE UnwindUnstarted(t)
  BY <1>0, <1>15, UnwindOwn
     DEF GoTo, schedVars, MessageOK, Noticed, InKernel, Waiting
<1>16. CASE HandleIpcError(t)
  BY <1>0, <1>16
     DEF HandleIpcError, Discarded, NoCall, stackVars, tcbVars, listVars, schedVars, MessageOK,
         Noticed, InKernel, PlaceOK, TimedOutIn, AtRest, Woken, Waiting
<1>17. CASE HandleIpcTimeout(t)
  BY <1>0, <1>17
     DEF HandleIpcTimeout, GoTo, NoUnwind, stackVars, tcbVars, listVars, schedVars, MessageOK,
         Noticed, InKernel, PlaceOK, TimedOutIn, AtRest, Woken, Waiting
<1>18. CASE TimedOut(t)
  BY <1>0, <1>18
     DEF TimedOut, stackVars, tcbVars, listVars, schedVars, MessageOK, Noticed, InKernel, PlaceOK, TimedOutIn, AtRest,
         Woken, Waiting
<1>19. CASE \E v \in Threads : ExregsHalt(t, v)
  <2>1. PICK v \in Threads, h \in {"halt", "resume"} : state' = Halted(state, v, h)
    BY <1>19 DEF ExregsHalt
  <2>2. current = t /\ frame[t] = "user" /\ UNCHANGED <<frame, req, mr>>
    BY <1>19 DEF ExregsHalt, stackVars
  <2>3. state'[u] \in Waiting => state[u] \in Waiting
    BY <1>0, <2>1 DEF Halted, Waiting
  <2>4. u = t => state[u] \notin Waiting
    BY <1>0, <2>2 DEF PlaceOK, AtRest, Waiting
  <2> QED
    BY <1>0, <2>2, <2>3, <2>4 DEF MessageOK, Noticed, InKernel
<1>20. CASE SendNonExisting(t) \/ ReceiveNonExisting(t)
  BY <1>0, <1>20
     DEF SendNonExisting, ReceiveNonExisting, Receives, ReturnIpc, ReturnFrame, Discarded, tcbVars,
         listVars, schedVars, MessageOK, Noticed, InKernel
<1> QED
  BY <1>1, <1>2, <1>3, <1>4, <1>5, <1>6, <1>7, <1>8, <1>9, <1>10, <1>11, <1>12, <1>13, <1>14,
     <1>15, <1>16, <1>17, <1>18, <1>19, <1>20
     DEF OwnStep

\* Neither a timer interrupt nor the idle loop leaves a message behind.
LEMMA MessagesTick ==
    ASSUME TransferInv, TimerInterrupt \/ IdleSchedule
    PROVE  MessagesOK' /\ \A r \in Threads : Noticed(r) => Noticed(r)'
<1> SUFFICES ASSUME NEW u \in Threads PROVE MessageOK(u)' /\ (Noticed(u) => Noticed(u)')
  BY DEF MessagesOK
<1>0. MessageOK(u)
  BY DEF TransferInv, MessagesOK
<1>1. CASE TimerInterrupt
  <2>1. UNCHANGED <<frame, req, mr>> /\ (current \in Threads => frame[current] = "user")
    BY <1>1, TickStates DEF stackVars
  <2>2. state'[u] \in Waiting => state[u] \in Waiting
    BY <1>1, TickStates DEF Waiting
  <2>3. current' = current \/ current' = idle \/ (current' \in Threads /\ state'[current'] \in Runnable)
    BY <1>1, TickStates
  <2>4. ~InKernel({"receive"})
    BY <2>1 DEF InKernel
  <2>5. u = current => state[u] \notin Waiting
    BY <2>1 DEF TransferInv, PlacesOK, PlaceOK, AtRest, Waiting
  <2> QED
    BY <1>0, <2>1, <2>2, <2>3, <2>4, <2>5 DEF MessageOK, Noticed, InKernel
<1>2. CASE IdleSchedule
  <2>1. UNCHANGED <<state, frame, req, mr>> /\ current = idle
    BY <1>2 DEF IdleSchedule, tcbVars, stackVars
  <2> QED
    BY <1>0, <2>1, IdAssumption DEF MessageOK, Noticed, InKernel
<1> QED
  BY <1>1, <1>2


-----------------------------------------------------------------------------
(* What this means for the threads                                           *)

\* The invariant of a rendezvous holds at first, and every step keeps it.
LEMMA TransferInductive ==
    ASSUME NoForeignUnwind
    PROVE  /\ Init => TransferInv
           /\ TransferInv /\ [Next]_vars => TransferInv'
<1>1. ASSUME Init PROVE TransferInv
  <2>1. TypeInv /\ UnwindsItself /\ alive = Threads
    BY <1>1, TypeInvInductive DEF Init, UnwindsItself
  <2>2. PlacesOK
    BY <1>1, IdAssumption DEF Init, PlacesOK, PlaceOK, AtRest
  <2>3. LocksOK
    BY <1>1 DEF Init, LocksOK, HasReceiver, LockOn
  <2>4. QueuesOK
    <3>1. \A r \in Threads : sendq[r] = <<>>
      BY <1>1 DEF Init
    <3>2. \A t, r \in Threads : ~Queued(t, r)
      BY <3>1, EmptyList DEF Queued
    <3>3. \A r \in Threads : Distinct(sendq[r])
      BY <3>1 DEF Distinct
    <3> QED
      BY <1>1, <3>2, <3>3 DEF Init, QueuesOK, Enqueued
  <2>5. TimeoutsOK /\ MessagesOK
    BY <1>1 DEF Init, TimeoutsOK, MessagesOK, MessageOK
  <2>6. FaultsOK
    BY <1>1 DEF Init, FaultsOK, FaultOK
  <2> QED
    BY <2>1, <2>2, <2>3, <2>4, <2>5, <2>6 DEF TransferInv
<1>2. ASSUME TransferInv, Next PROVE TransferInv'
  <2>1. TypeInv' /\ UnwindsItself'
    BY <1>2, NoForeignUnwind, TypeInvInductive, UnwindsStep DEF TransferInv, TypeInv
  <2>2. CASE \E t \in Threads : OwnStep(t)
    <3>1. PICK t \in Threads : OwnStep(t)
      BY <2>2
    <3>2. UNCHANGED alive
      BY <3>1 DEF OwnStep, IpcCall, PageFault, RestoreState, SendNonExisting, SendZeroTimeout,
         SendBlocked, SendReady, SendResume, Transfer, TransferError, SendOnly,
         ReceiveNonExisting, ReceiveZeroTimeout, ReceiveBlocked, ReceiveAccept, ReceiveResume, UnwindUnstarted, HandleIpcError,
         HandleIpcTimeout, TimedOut, ExregsHalt
    <3> QED
      BY <1>2, <2>1, <3>1, <3>2, PlacesOwnStep, FaultsOwnStep, LocksOwnStep, QueuesOwnStep, TimeoutsOwnStep,
         MessagesOwnStep DEF TransferInv
  <2>3. CASE TimerInterrupt \/ IdleSchedule
    <3>1. UNCHANGED alive
      BY <2>3 DEF TimerInterrupt, IdleSchedule
    <3> QED
      BY <1>2, <2>1, <2>3, <3>1, PlacesTick, FaultsTick, LocksTick, QueuesTick,
         TimeoutsTick, MessagesTick DEF TransferInv, LocksKept
  <2> QED
    BY <1>2, <2>2, <2>3, NoForeignUnwind, OwnSteps
<1>3. ASSUME TransferInv, UNCHANGED vars PROVE TransferInv'
  <2> USE <1>3 DEF vars, tcbVars, stackVars, listVars, schedVars
  <2>1. TypeInv' /\ UnwindsItself' /\ alive' = Threads
    BY TypeInvInductive DEF TransferInv, UnwindsItself
  <2>2. PlacesOK' /\ FaultsOK' /\ TimeoutsOK' /\ MessagesOK'
    BY DEF TransferInv, PlacesOK, PlaceOK, FaultsOK, FaultOK, TimedOutIn, TimeoutsOK, MessagesOK,
           MessageOK
  <2>3. LocksOK'
    BY DEF TransferInv, LocksOK, HasReceiver, LockOn
  <2>4. QueuesOK'
    BY DEF TransferInv, QueuesOK, Enqueued, Queued
  <2> QED
    BY <2>1, <2>2, <2>3, <2>4 DEF TransferInv
<1> QED
  BY <1>1, <1>2, <1>3

\* The send queues hold exactly the threads that poll, are accepted and have
\* not resumed, or have timed out and not left: each once, where it sends to.
THEOREM SendersQueuedOnce ==
    ASSUME NoForeignUnwind
    PROVE  Spec => []SendQueueExact
<1>1. ASSUME TransferInv PROVE SendQueueExact
  <2> USE <1>1 DEF TransferInv
  <2>1. \A r \in Threads : \A i, j \in 1..Len(sendq[r]) : sendq[r][i] = sendq[r][j] => i = j
    BY DEF QueuesOK, Distinct
  <2>2. ASSUME NEW r \in Threads, NEW t \in Threads, Queued(t, r)
        PROVE  /\ t \in sendflag /\ frame[t] \in {"polling", "unwind"}
               /\ req[t].to = r /\ partner[t] = r
               /\ state[t] \in Sending \/ TimeoutPending(t)
    <3>1. Enqueued(t) /\ req[t].to = r /\ partner[t] = r /\ t \in sendflag
      BY <2>2 DEF QueuesOK
    <3>2. PlaceOK(t)
      BY DEF PlacesOK
    <3> QED
      BY <3>1, <3>2 DEF Enqueued, PlaceOK, Sending, TimeoutPending, TimedOutIn
  <2>3. ASSUME NEW t \in Threads, t \in sendflag \/ state[t] = "polling"
        PROVE  \E r \in Threads : Queued(t, r)
    <3>1. Enqueued(t)
      <4>1. PlaceOK(t) /\ frame[t] \in Frames
        BY DEF PlacesOK, TypeInv, TypeOK
      <4>2. t \in sendflag => Enqueued(t)
        BY DEF QueuesOK
      <4>3. state[t] = "polling" => Enqueued(t)
        BY <4>1 DEF Enqueued, PlaceOK, Frames, AtRest, Woken, Waiting, TimedOutIn
      <4> QED
        BY <2>3, <4>2, <4>3
    <3> QED
      BY <3>1 DEF QueuesOK
  <2> QED
    BY <2>1, <2>2, <2>3 DEF SendQueueExact
<1> QED
  BY <1>1, TransferInductive, PTL DEF Spec

\* A step that leaves a receiver without its sender, or with a message, abandons it:
\* its thread returns because nobody has the id it wants to receive from.
LEMMA OnlyAbandons ==
    ASSUME NoForeignUnwind, TransferInv, [Next]_vars, NEW r \in Threads
    PROVE  (HasSender(r) /\ ~HasSender(r)') \/ (Noticed(r) /\ ~Noticed(r)') =>
              \E s \in Threads : Abandons(s, r)
<1>1. alive = Threads /\ alive' = Threads
  BY TransferInductive DEF TransferInv
<1>2. (HasSender(r) <=> Held(r)) /\ (HasSender(r)' <=> Held(r)')
  BY <1>1 DEF HasSender, Held, LockedOn, LockOn
<1>3. CASE \E t \in Threads : OwnStep(t)
  <2>1. PICK t \in Threads : OwnStep(t)
    BY <1>3
  <2>2. ReceiveNonExisting(t) /\ req[t].to = r => Abandons(t, r)
    BY DEF Abandons, ReceiveNonExisting, Receives, FromExists, NilIds
  <2> QED
    BY <1>2, <2>1, <2>2, LocksOwnStep, MessagesOwnStep
<1>4. CASE TimerInterrupt \/ IdleSchedule
  BY <1>2, <1>4, LocksTick, MessagesTick DEF LocksKept
<1>5. CASE UNCHANGED vars
  BY <1>5 DEF vars, tcbVars, stackVars, listVars, schedVars, HasSender, LockedOn, Noticed, InKernel
<1> QED
  BY <1>3, <1>4, <1>5, OwnSteps

\* A receiver that is locked for a transfer keeps the thread that will run it, for
\* any calls and ids, valid or not: only a sender that goes on to receive from an id
\* of nobody (ipc.cc:554-565) leaves it behind.
THEOREM ReceiverHasSender ==
    ASSUME NoForeignUnwind
    PROVE  Spec => LockedReceiverHasSender
<1>1. ASSUME TransferInv, [Next]_vars
      PROVE  \A r \in alive : HasSender(r) /\ ~HasSender(r)' => \E s \in Threads : Abandons(s, r)
  BY <1>1, NoForeignUnwind, OnlyAbandons DEF TransferInv
<1> QED
  BY <1>1, TransferInductive, PTL DEF Spec, LockedReceiverHasSender

\* A sender that is locked for a transfer finds its receiver waiting for it.
THEOREM SenderHasReceiver ==
    ASSUME NoForeignUnwind
    PROVE  Spec => []LockedSenderHasReceiver
<1>1. ASSUME TransferInv PROVE LockedSenderHasReceiver
  <2> SUFFICES ASSUME NEW s \in Threads, state[s] = "locked_running"
               PROVE  /\ frame[s] = "polling" => state[req[s].to] = "locked_waiting"
                      /\ frame[s] = "transfer" => state[req[s].to] \in Receiving
    BY <1>1 DEF TransferInv, LockedSenderHasReceiver
  <2>1. CASE frame[s] = "polling"
    <3>1. req[s].to \in Threads /\ LockOn(s, req[s].to)
      BY <1>1, <2>1 DEF TransferInv, TypeInv, SendsToThread, LockOn
    <3> QED
      BY <1>1, <2>1, <3>1 DEF TransferInv, LocksOK
  <2>2. CASE frame[s] = "transfer"
    <3>1. HasReceiver(s)
      BY <1>1, <2>2, IdAssumption DEF TransferInv, TypeInv, SendsToThread, HasReceiver
    <3> QED
      BY <1>1, <2>2, <3>1, ReceiverPlace DEF Receiving
  <2> QED
    BY <2>1, <2>2
<1> QED
  BY <1>1, TransferInductive, PTL DEF Spec

\* Once a transfer is agreed on, no timeout can fire at either side of it.
THEOREM TimeoutsCancelled ==
    ASSUME NoForeignUnwind
    PROVE  Spec => []NoTimeoutInTransfer
<1>1. ASSUME TransferInv PROVE NoTimeoutInTransfer
  <2> SUFFICES ASSUME NEW t \in wakeup, t # current
               PROVE  state[t] \notin {"locked_running", "locked_waiting"}
    BY DEF NoTimeoutInTransfer
  <2>1. t \in Threads /\ PlaceOK(t)
    BY <1>1 DEF TransferInv, PlacesOK, TypeInv, TypeOK
  <2>2. frame[t] \in {"polling", "waiting"} /\ state[t] # "locked_running"
    BY <1>1 DEF TransferInv, TimeoutsOK
  <2> QED
    BY <2>1, <2>2 DEF PlaceOK, TimedOutIn, Sending, Waiting, Woken, AtRest
<1> QED
  BY <1>1, TransferInductive, PTL DEF Spec

\* A message that is delivered wakes its receiver, for any calls and ids, valid or
\* not: only a sender that goes on to receive from an id of nobody (ipc.cc:554-565)
\* leaves a thread waiting with another one's message in its registers.
THEOREM MessagesWake ==
    ASSUME NoForeignUnwind
    PROVE  Spec => DeliveredWakes
<1>1. ASSUME TransferInv, [Next]_vars
      PROVE  \A r \in alive : Noticed(r) /\ ~Noticed(r)' => \E s \in Threads : Abandons(s, r)
  BY <1>1, NoForeignUnwind, OnlyAbandons DEF TransferInv
<1> QED
  BY <1>1, TransferInductive, PTL DEF Spec, DeliveredWakes

\* The ASSERTs on the send queue hold whatever the threads do to themselves.
THEOREM AssertsHold ==
    ASSUME NoForeignUnwind
    PROVE  Spec => []NoAssertFails
<1>1. TransferInv => NoAssertFails
  BY DEF TransferInv, QueuesOK, NoAssertFails
<1> QED
  BY <1>1, TransferInductive, PTL DEF Spec

-----------------------------------------------------------------------------
(* What a receive returns                                                    *)

\* Without propagation every message is sent in its sender's own name.
NoPropagation == \A t \in Threads : \A c \in Calls[t] : c.virt = nilthread
OwnName == \A t \in Threads : req[t].virt = nilthread /\ sender_id[t] = t

\* t asked for a message of s.
Asked(t, s) == \/ req[t].from \in {s, anythread}
               \/ req[t].from = anylocalthread /\ Space[t] = Space[s]
\* t has got a message it asked for.
Got(t) == partner[t] \in Threads \ {t} /\ mr[t] = partner[t] /\ Asked(t, partner[t])

\* A thread in its receive phase has an error, or a message, or waits still;
\* whoever has agreed on a transfer was asked for; whoever has completed it
\* has delivered.
AnswerOK(t) ==
    frame[t] \in {"waiting", "accepted"} /\ notify[t] = NotNotified =>
        \/ mr[t] = ErrorTag /\ state[t] \notin Waiting
        \/ Got(t)
        \/ /\ mr[t] = t /\ current # t
           /\ frame[t] = "waiting" => state[t] \in Waiting /\ partner[t] = req[t].from
           /\ frame[t] = "accepted" => state[t] = "locked_waiting"
AgreedOK(t) ==
    frame[t] = "transfer" \/ (frame[t] = "polling" /\ state[t] = "locked_running") =>
        Asked(req[t].to, t) /\ req[t].to # t
DeliveredOK(t) == frame[t] = "receive" /\ req[t].to # nilthread => Got(req[t].to)
ContractOK == \A t \in Threads : AnswerOK(t) /\ AgreedOK(t) /\ DeliveredOK(t)
ContractInv == TransferInv /\ OwnName /\ ContractOK

\* Without propagation the name under which a thread sends stays its own.
LEMMA OwnNameStep ==
    ASSUME NoPropagation, ContractInv, NEW t \in Threads, OwnStep(t)
    PROVE  OwnName'
<1> USE DEF TypeOK, OwnName, At, GoTo, Discarded, ReturnIpc, NoCall
<1> USE DEF tcbVars, stackVars, listVars, schedVars
<1>0. TypeOK /\ OwnName /\ alive \subseteq Threads /\ nilthread \notin Threads
  BY IdAssumption DEF ContractInv, TransferInv, TypeInv
<1>1. CASE IpcCall(t)
  <2>1. PICK c \in Calls[t] : req' = [req EXCEPT ![t] = c]
    BY <1>1 DEF IpcCall
  <2>2. c.virt = nilthread
    BY NoPropagation DEF NoPropagation
  <2> QED
    BY <1>0, <1>1, <2>1, <2>2 DEF IpcCall
<1>2. CASE PageFault(t)
  BY <1>0, <1>2 DEF PageFault
<1>3. CASE SendBlocked(t) \/ SendReady(t)
  <2>1. SenderId(t) = t
    BY <1>0 DEF SenderId, Propagated
  <2> QED
    BY <1>0, <1>3, <2>1 DEF SendBlocked, SendReady
<1>4. CASE UNCHANGED <<req, sender_id>>
  BY <1>0, <1>4
<1>5. CASE \E f \in Frames : Discarded(t, f)
  BY <1>0, <1>5
<1>6. CASE ReturnIpc(t)
  BY <1>0, <1>6
<1> HIDE DEF Discarded, ReturnIpc
<1> QED
  BY <1>1, <1>2, <1>3, <1>4, <1>5, <1>6 DEF OwnStep, Frames, RestoreState, SendNonExisting,
     SendZeroTimeout, SendResume, Transfer, TransferError, SendOnly, ReceiveNonExisting,
     ReceiveZeroTimeout, ReceiveBlocked, ReceiveAccept, ReceiveResume, UnwindUnstarted,
     HandleIpcError, HandleIpcTimeout, TimedOut, ExregsHalt

\* A sender finds a receiver that asked for it: the receiver has been waiting
\* since.  One that was abandoned takes messages of its first sender only.
LEMMA AcceptsAsked ==
    ASSUME ContractInv, NEW t \in Threads, SendReady(t)
    PROVE  Asked(req[t].to, t) /\ req[t].to # t
<1> DEFINE to == req[t].to
<1>1. /\ TypeOK /\ TransferInv /\ OwnName /\ to \in Threads /\ current = t /\ Accepts(to, t)
      /\ frame[t] = "send"
  BY DEF SendReady, At, ContractInv, TransferInv, TypeInv, TypeOK
<1> HIDE DEF to
<1>2. SenderId(t) = t
  BY <1>1, IdAssumption DEF SenderId, Propagated, OwnName, TransferInv
<1>3. state[t] \in {"running", "locked_running"} /\ state[to] \in Waiting
  BY <1>1 DEF Accepts, TransferInv, PlacesOK, PlaceOK
<1>4. to # t
  BY <1>3 DEF Waiting
<1>5. frame[to] = "waiting" /\ notify[to] = NotNotified
  BY <1>1, <1>3, <1>4, WaitingPlace
<1>6. partner[to] \in {t, anythread} \/ (partner[to] = anylocalthread /\ Space[to] = Space[t])
  BY <1>1, <1>2 DEF Accepts
<1>7. AnswerOK(to)
  BY <1>1 DEF ContractInv, ContractOK
<1>8. Got(to) => Asked(to, t)
  BY <1>6, IdAssumption DEF Got
<1>9. partner[to] = req[to].from => Asked(to, t)
  BY <1>6 DEF Asked
<1>10. Asked(to, t)
  BY <1>3, <1>5, <1>7, <1>8, <1>9 DEF AnswerOK
<1> QED
  BY <1>4, <1>10 DEF to

\* Whom a step of t leaves alone keeps what it has.
LEMMA ContractOthers ==
    ASSUME ContractInv, NEW t \in Threads, NEW u \in Threads, current = t, u # t,
           \A x \in Threads \ {t} : UNCHANGED <<frame[x], req[x]>>,
           UNCHANGED <<partner[u], notify[u], mr[u]>>,
           state'[u] = "locked_running" => state[u] = "locked_running",
           (state'[u] = state[u] /\ current' # u) \/ (frame[u] \in {"waiting", "accepted"} => Got(u))
    PROVE  AnswerOK(u)' /\ AgreedOK(u)' /\ DeliveredOK(u)'
<1>1. AnswerOK(u) /\ AgreedOK(u) /\ TransferInv /\ frame[u] \notin {"transfer", "receive"}
  BY OnlyCurrent DEF ContractInv, ContractOK
<1>2. AnswerOK(u)'
  BY <1>1 DEF AnswerOK, Got, Asked
<1>3. AgreedOK(u)'
  <2> SUFFICES ASSUME frame[u] = "polling", state[u] = "locked_running"
               PROVE  Asked(req[u].to, u)' /\ req'[u].to # u
    BY <1>1 DEF AgreedOK
  <2>1. req[u].to \in Threads
    BY <1>1 DEF TransferInv, TypeInv, SendsToThread
  <2>2. LockOn(u, req[u].to)
    BY DEF LockOn
  <2>3. req[u].to # t
    BY <1>1, <2>1, <2>2 DEF TransferInv, LocksOK
  <2> QED
    BY <1>1, <2>1, <2>3 DEF AgreedOK, Asked
<1>4. DeliveredOK(u)'
  BY <1>1 DEF DeliveredOK
<1> QED
  BY <1>2, <1>3, <1>4

\* A step of a thread keeps the contract of every receive.
LEMMA ContractOwnStep ==
    ASSUME ContractInv, NEW t \in Threads, OwnStep(t)
    PROVE  ContractOK'
<1> USE IdAssumption, NotificationNames
<1> USE DEF TypeOK, At
<1> SUFFICES ASSUME NEW u \in Threads PROVE AnswerOK(u)' /\ AgreedOK(u)' /\ DeliveredOK(u)'
  BY DEF ContractOK
<1>0. /\ TypeOK /\ PlaceOK(t) /\ PlaceOK(u) /\ req[t] \in CallType /\ uw[t].victim = t
      /\ frame[t] \in Frames /\ TransferInv /\ MessageOK(t) /\ sender_id[t] = t
      /\ req[t].virt = nilthread
      /\ AnswerOK(t) /\ AgreedOK(t) /\ DeliveredOK(t)
      /\ AnswerOK(u)
      /\ frame[t] \in {"polling", "transfer"} => req[t].to \in Threads
  BY DEF ContractInv, TransferInv, TypeInv, PlacesOK, UnwindsItself, NoUnwind, Victims,
         ContractOK, OwnName, MessagesOK, SendsToThread
<1>rec. HasReceiver(t) => /\ req[t].to \in Threads /\ req[t].to # t
                          /\ current = t /\ state[t] \in {"running", "locked_running"}
                          /\ frame[t] = "receive" => Got(req[t].to)
  BY <1>0, ReceiverPlace DEF DeliveredOK, HasReceiver
<1>quiet. ASSUME current = t, \A x \in Threads \ {t} : UNCHANGED <<frame[x], req[x]>>,
                 \A x \in Threads \ {t} : UNCHANGED <<state[x], partner[x], notify[x], mr[x]>>,
                 current' = t \/ current' \notin Threads,
                 AnswerOK(t)' /\ AgreedOK(t)' /\ DeliveredOK(t)'
          PROVE  AnswerOK(u)' /\ AgreedOK(u)' /\ DeliveredOK(u)'
  <2>1. CASE u = t
    BY <1>quiet, <2>1
  <2>2. CASE u # t
    BY <1>quiet, <2>2, ContractOthers
  <2> QED
    BY <2>1, <2>2
<1>1. CASE IpcCall(t)
  <2>1. /\ current = t /\ \A x \in Threads \ {t} : UNCHANGED <<frame[x], req[x]>>
        /\ \A x \in Threads \ {t} : UNCHANGED <<state[x], partner[x], notify[x], mr[x]>>
        /\ current' = t \/ current' \notin Threads
    BY <1>0, <1>1 DEF IpcCall, stackVars, tcbVars, listVars, schedVars, GoTo
  <2>2. PICK c \in Calls[t] : /\ req' = [req EXCEPT ![t] = c]
                              /\ GoTo(t, IF c.to = nilthread THEN "receive" ELSE "send")
    BY <1>1 DEF IpcCall
  <2>3. AnswerOK(t)' /\ AgreedOK(t)' /\ DeliveredOK(t)'
    BY <1>0, <2>2 DEF GoTo, AnswerOK, AgreedOK, DeliveredOK
  <2> QED
    BY <1>quiet, <2>1, <2>3
<1>2. CASE PageFault(t)
  <2>1. /\ current = t /\ \A x \in Threads \ {t} : UNCHANGED <<frame[x], req[x]>>
        /\ \A x \in Threads \ {t} : UNCHANGED <<state[x], partner[x], notify[x], mr[x]>>
        /\ current' = t \/ current' \notin Threads
    BY <1>0, <1>2 DEF PageFault, NoCall, stackVars, tcbVars, listVars, schedVars, GoTo
  <2>3. AnswerOK(t)' /\ AgreedOK(t)' /\ DeliveredOK(t)'
    BY <1>0, <1>2
       DEF PageFault, NoCall, stackVars, tcbVars, listVars, schedVars, GoTo, AnswerOK, AgreedOK,
           DeliveredOK
  <2> QED
    BY <1>quiet, <2>1, <2>3
<1>3. CASE RestoreState(t)
  <2>1. /\ current = t /\ \A x \in Threads \ {t} : UNCHANGED <<frame[x], req[x]>>
        /\ \A x \in Threads \ {t} : UNCHANGED <<state[x], partner[x], notify[x], mr[x]>>
        /\ current' = t \/ current' \notin Threads
    BY <1>0, <1>3 DEF RestoreState, GoTo, stackVars, tcbVars, listVars, schedVars
  <2>3. AnswerOK(t)' /\ AgreedOK(t)' /\ DeliveredOK(t)'
    BY <1>0, <1>3
       DEF RestoreState, GoTo, stackVars, tcbVars, listVars, schedVars, AnswerOK, AgreedOK,
           DeliveredOK
  <2> QED
    BY <1>quiet, <2>1, <2>3
<1>4. CASE SendZeroTimeout(t)
  <2>1. /\ current = t /\ \A x \in Threads \ {t} : UNCHANGED <<frame[x], req[x]>>
        /\ \A x \in Threads \ {t} : UNCHANGED <<state[x], partner[x], notify[x], mr[x]>>
        /\ current' = t \/ current' \notin Threads
    BY <1>0, <1>4
       DEF SendZeroTimeout, ReturnIpc, ReturnFrame, Discarded, NoCall, stackVars, tcbVars,
           listVars, schedVars
  <2>3. AnswerOK(t)' /\ AgreedOK(t)' /\ DeliveredOK(t)'
    BY <1>0, <1>4
       DEF SendZeroTimeout, ReturnIpc, ReturnFrame, Discarded, NoCall, stackVars, tcbVars,
           listVars, schedVars, AnswerOK, AgreedOK, DeliveredOK
  <2> QED
    BY <1>quiet, <2>1, <2>3
<1>5. CASE SendBlocked(t)
  <2>1. /\ current = t /\ \A x \in Threads \ {t} : UNCHANGED <<frame[x], req[x]>>
        /\ \A x \in Threads \ {t} : UNCHANGED <<state[x], partner[x], notify[x], mr[x]>>
        /\ current' = t \/ current' \notin Threads
    BY <1>0, <1>5
       DEF SendBlocked, SwitchTo, GoTo, EnqueueSend, stackVars, tcbVars, listVars, schedVars
  <2>3. AnswerOK(t)' /\ AgreedOK(t)' /\ DeliveredOK(t)'
    BY <1>0, <1>5
       DEF SendBlocked, SwitchTo, GoTo, EnqueueSend, stackVars, tcbVars, listVars, schedVars,
           AnswerOK, AgreedOK, DeliveredOK
  <2> QED
    BY <1>quiet, <2>1, <2>3
<1>6. CASE SendReady(t)
  <2>1. /\ current = t /\ \A x \in Threads \ {t} : UNCHANGED <<frame[x], req[x]>>
        /\ \A x \in Threads \ {t} : UNCHANGED <<state[x], partner[x], notify[x], mr[x]>>
        /\ current' = t \/ current' \notin Threads
    BY <1>0, <1>6 DEF SendReady, GoTo, stackVars, tcbVars, listVars, schedVars
  <2>2. Asked(req[t].to, t) /\ req[t].to # t
    BY <1>6, AcceptsAsked
  <2>3. AnswerOK(t)' /\ AgreedOK(t)' /\ DeliveredOK(t)'
    BY <1>0, <1>6, <2>2
       DEF SendReady, GoTo, stackVars, tcbVars, listVars, schedVars, AnswerOK, AgreedOK,
           DeliveredOK, Asked
  <2> QED
    BY <1>quiet, <2>1, <2>3
<1>7. CASE SendResume(t)
  <2>1. /\ current = t /\ \A x \in Threads \ {t} : UNCHANGED <<frame[x], req[x]>>
        /\ \A x \in Threads \ {t} : UNCHANGED <<state[x], partner[x], notify[x], mr[x]>>
        /\ current' = t \/ current' \notin Threads
    BY <1>0, <1>7
       DEF SendResume, GoTo, CancelTimeout, DequeueSend, stackVars, tcbVars, listVars, schedVars
  <2>2. state[t] = "locked_running" /\ req[t].to # t /\ Asked(req[t].to, t)
    BY <1>0, <1>7 DEF SendResume, PlaceOK, TimedOutIn, AgreedOK, Sending
  <2>3. AnswerOK(t)' /\ AgreedOK(t)' /\ DeliveredOK(t)'
    BY <1>0, <1>7, <2>2
       DEF SendResume, GoTo, CancelTimeout, DequeueSend, stackVars, tcbVars, listVars, schedVars,
           AnswerOK, AgreedOK, DeliveredOK, Asked
  <2> QED
    BY <1>quiet, <2>1, <2>3
<1>8. CASE Transfer(t)
  <2> DEFINE to == req[t].to
  <2>1. HasReceiver(t) /\ to \in Threads /\ to # t
    BY <1>0, <1>rec, <1>8 DEF Transfer, HasReceiver
  <2>2. current = t /\ \A x \in Threads \ {t} : UNCHANGED <<frame[x], req[x]>>
    BY <1>0, <1>8 DEF Transfer, GoTo, FixupPropagation, stackVars, tcbVars, listVars, schedVars
  <2>3. CASE u = t
    BY <1>0, <1>8, <2>1, <2>3
       DEF Transfer, GoTo, FixupPropagation, stackVars, tcbVars, listVars, schedVars, AnswerOK,
           AgreedOK, DeliveredOK, Asked, MessageOK, Got
  <2>4. CASE u = to
    <3>1. frame'[u] \in {"waiting", "accepted"}
      BY <1>0, <2>1, <2>2, <2>4, ReceiverPlace DEF HasReceiver
    <3> QED
      <4>1. partner'[u] = t /\ mr'[u] = t /\ req'[u] = req[u] /\ mr[t] = t /\ partner'[t] = partner[t]
        BY <1>0, <1>8, <2>1, <2>2, <2>4
           DEF Transfer, GoTo, FixupPropagation, tcbVars, OwnName, MessageOK
      <4>2. Asked(u, t)
        BY <1>0, <1>8, <2>4 DEF Transfer, AgreedOK
      <4>3. Got(u)'
        BY <2>1, <2>4, <4>1, <4>2 DEF Got, Asked
      <4> QED
        BY <3>1, <4>3 DEF AnswerOK, AgreedOK, DeliveredOK
  <2>5. CASE u \notin {t, to}
    <3>1. /\ UNCHANGED <<state[u], partner[u], notify[u], mr[u]>> /\ current' = t
      BY <1>0, <1>8, <2>1, <2>5
         DEF Transfer, GoTo, FixupPropagation, stackVars, tcbVars, listVars, schedVars
    <3> QED
      BY <2>2, <2>5, <3>1, ContractOthers
  <2> QED
    BY <2>3, <2>4, <2>5
<1>9. CASE TransferError(t)
  <2> DEFINE to == req[t].to
  <2>1. HasReceiver(t) /\ to \in Threads /\ to # t
    BY <1>0, <1>rec, <1>9 DEF TransferError, HasReceiver
  <2>2. current = t /\ \A x \in Threads \ {t} : UNCHANGED <<frame[x], req[x]>>
    BY <1>0, <1>9
       DEF TransferError, ReturnIpc, ReturnFrame, Discarded, NoCall, stackVars, tcbVars, listVars,
           schedVars
  <2>3. CASE u = t
    BY <1>0, <1>9, <2>1, <2>3
       DEF TransferError, ReturnIpc, ReturnFrame, Discarded, NoCall, stackVars, tcbVars, listVars,
           schedVars, AnswerOK, AgreedOK, DeliveredOK
  <2>4. CASE u = to
    <3>1. frame'[u] \in {"waiting", "accepted"}
      BY <1>0, <2>1, <2>2, <2>4, ReceiverPlace DEF HasReceiver
    <3>2. mr'[u] = ErrorTag /\ state'[u] = "running"
      BY <1>0, <1>9, <2>1, <2>4 DEF TransferError
    <3> QED
      BY <3>1, <3>2 DEF AnswerOK, AgreedOK, DeliveredOK, Waiting
  <2>5. CASE u \notin {t, to}
    <3>1. /\ UNCHANGED <<state[u], partner[u], notify[u], mr[u]>> /\ current' = t
      BY <1>0, <1>9, <2>1, <2>5
         DEF TransferError, ReturnIpc, ReturnFrame, Discarded, NoCall, stackVars, tcbVars,
             listVars, schedVars
    <3> QED
      BY <2>2, <2>5, <3>1, ContractOthers
  <2> QED
    BY <2>3, <2>4, <2>5
<1>10. CASE SendOnly(t)
  <2> DEFINE to == req[t].to
  <2>1. /\ frame[t] = "receive"
        /\ to # nilthread => HasReceiver(t) /\ to \in Threads /\ to # t /\ Got(to)
    BY <1>0, <1>rec, <1>10 DEF SendOnly, Receives, HasReceiver
  <2>2. current = t /\ \A x \in Threads \ {t} : UNCHANGED <<frame[x], req[x]>>
    BY <1>0, <1>10
       DEF SendOnly, ReturnIpc, ReturnFrame, Discarded, NoCall, ScheduleCheck, stackVars, tcbVars,
           listVars, schedVars
  <2>3. CASE u = t
    BY <1>0, <1>10, <2>1, <2>3
       DEF SendOnly, ReturnIpc, ReturnFrame, Discarded, NoCall, ScheduleCheck, stackVars, tcbVars,
           listVars, schedVars, AnswerOK, AgreedOK, DeliveredOK
  <2>4. CASE u # t /\ (to = nilthread \/ u # to)
    <3>1. UNCHANGED <<state[u], partner[u], notify[u], mr[u]>> /\ current' # u
      BY <1>0, <1>10, <2>1, <2>2, <2>4
         DEF SendOnly, ReturnIpc, ReturnFrame, Discarded, NoCall, ScheduleCheck, stackVars,
             tcbVars, listVars, schedVars
    <3> QED
      BY <2>2, <2>4, <3>1, ContractOthers
  <2>5. CASE u = to /\ to # nilthread
    <3>1. UNCHANGED <<partner[u], notify[u], mr[u]>> /\ Got(u) /\ u # t
      BY <1>0, <1>10, <2>1, <2>2, <2>5
         DEF SendOnly, ReturnIpc, ReturnFrame, Discarded, NoCall, ScheduleCheck, stackVars,
             tcbVars, listVars, schedVars
    <3>2. state'[u] = "locked_running" => state[u] = "locked_running"
      BY <1>0, <1>10, <2>1, <2>2, <2>5
         DEF SendOnly, ReturnIpc, ReturnFrame, Discarded, NoCall, ScheduleCheck, stackVars,
             tcbVars, listVars, schedVars
    <3> QED
      BY <2>2, <2>5, <3>1, <3>2, ContractOthers
  <2> QED
    BY <2>3, <2>4, <2>5
<1>11. CASE ReceiveZeroTimeout(t)
  <2> DEFINE to == req[t].to
  <2>1. /\ frame[t] = "receive"
        /\ to # nilthread => HasReceiver(t) /\ to \in Threads /\ to # t /\ Got(to)
    BY <1>0, <1>rec, <1>11 DEF ReceiveZeroTimeout, Receives, HasReceiver
  <2>2. current = t /\ \A x \in Threads \ {t} : UNCHANGED <<frame[x], req[x]>>
    BY <1>0, <1>11
       DEF ReceiveZeroTimeout, Receives, ReturnIpc, ReturnFrame, Discarded, NoCall, SwitchTo,
           stackVars, tcbVars, listVars, schedVars
  <2>3. CASE u = t
    BY <1>0, <1>11, <2>1, <2>3
       DEF ReceiveZeroTimeout, Receives, ReturnIpc, ReturnFrame, Discarded, NoCall, SwitchTo,
           stackVars, tcbVars, listVars, schedVars, AnswerOK, AgreedOK, DeliveredOK
  <2>4. CASE u # t /\ (to = nilthread \/ u # to)
    <3>1. UNCHANGED <<state[u], partner[u], notify[u], mr[u]>> /\ current' # u
      BY <1>0, <1>11, <2>1, <2>2, <2>4
         DEF ReceiveZeroTimeout, Receives, ReturnIpc, ReturnFrame, Discarded, NoCall, SwitchTo,
             stackVars, tcbVars, listVars, schedVars
    <3> QED
      BY <2>2, <2>4, <3>1, ContractOthers
  <2>5. CASE u = to /\ to # nilthread
    <3>1. UNCHANGED <<partner[u], notify[u], mr[u]>> /\ Got(u) /\ u # t
      BY <1>0, <1>11, <2>1, <2>2, <2>5
         DEF ReceiveZeroTimeout, Receives, ReturnIpc, ReturnFrame, Discarded, NoCall, SwitchTo,
             stackVars, tcbVars, listVars, schedVars
    <3>2. state'[u] = "locked_running" => state[u] = "locked_running"
      BY <1>0, <1>11, <2>1, <2>2, <2>5
         DEF ReceiveZeroTimeout, Receives, ReturnIpc, ReturnFrame, Discarded, NoCall, SwitchTo,
             stackVars, tcbVars, listVars, schedVars
    <3> QED
      BY <2>2, <2>5, <3>1, <3>2, ContractOthers
  <2> QED
    BY <2>3, <2>4, <2>5
<1>12. CASE ReceiveBlocked(t)
  <2> DEFINE to == req[t].to
  <2>1. /\ frame[t] = "receive"
        /\ to # nilthread => HasReceiver(t) /\ to \in Threads /\ to # t /\ Got(to)
    BY <1>0, <1>rec, <1>12 DEF ReceiveBlocked, Receives, HasReceiver
  <2>2. current = t /\ \A x \in Threads \ {t} : UNCHANGED <<frame[x], req[x]>>
    BY <1>0, <1>12
       DEF ReceiveBlocked, Receives, GoTo, SwitchTo, stackVars, tcbVars, listVars, schedVars
  <2>3. CASE u = t
    BY <1>0, <1>rec, <1>12, <2>1, <2>3
       DEF ReceiveBlocked, Receives, GoTo, SwitchTo, stackVars, tcbVars, listVars, schedVars,
           AnswerOK, AgreedOK, DeliveredOK, Asked, MessageOK, Waiting, HasReceiver
  <2>4. CASE u # t /\ (to = nilthread \/ u # to)
    <3>1. UNCHANGED <<state[u], partner[u], notify[u], mr[u]>> /\ current' # u
      BY <1>0, <1>12, <2>1, <2>2, <2>4
         DEF ReceiveBlocked, Receives, GoTo, SwitchTo, stackVars, tcbVars, listVars, schedVars
    <3> QED
      BY <2>2, <2>4, <3>1, ContractOthers
  <2>5. CASE u = to /\ to # nilthread
    <3>1. UNCHANGED <<partner[u], notify[u], mr[u]>> /\ Got(u) /\ u # t
      BY <1>0, <1>12, <2>1, <2>2, <2>5
         DEF ReceiveBlocked, Receives, GoTo, SwitchTo, stackVars, tcbVars, listVars, schedVars
    <3>2. state'[u] = "locked_running" => state[u] = "locked_running"
      BY <1>0, <1>12, <2>1, <2>2, <2>5
         DEF ReceiveBlocked, Receives, GoTo, SwitchTo, stackVars, tcbVars, listVars, schedVars
    <3> QED
      BY <2>2, <2>5, <3>1, <3>2, ContractOthers
  <2> QED
    BY <2>3, <2>4, <2>5
<1>13. CASE ReceiveAccept(t)
  <2> DEFINE to == req[t].to
  <2>1. /\ frame[t] = "receive"
        /\ to # nilthread => HasReceiver(t) /\ to \in Threads /\ to # t /\ Got(to)
    BY <1>0, <1>rec, <1>13 DEF ReceiveAccept, Receives, HasReceiver
  <2>2. current = t /\ \A x \in Threads \ {t} : UNCHANGED <<frame[x], req[x]>>
    BY <1>0, <1>13
       DEF ReceiveAccept, Receives, GoTo, SwitchTo, ScheduleReplyWait, PollingSender, stackVars,
           tcbVars, listVars, schedVars
  <2>3. CASE u = t
    BY <1>0, <1>rec, <1>13, <2>1, <2>3
       DEF ReceiveAccept, Receives, GoTo, SwitchTo, ScheduleReplyWait, PollingSender, stackVars,
           tcbVars, listVars, schedVars, AnswerOK, AgreedOK, DeliveredOK, Asked, MessageOK,
           Waiting, HasReceiver
  <2>4. PICK s \in PollingSender(t) :
             IF to = nilthread
             THEN /\ state' = [state EXCEPT ![s] = "locked_running", ![t] = "locked_waiting"]
                  /\ SwitchTo(s)
             ELSE /\ state' = [state EXCEPT ![s] = "locked_running", ![t] = "locked_waiting", ![to] = "running"]
                  /\ ScheduleReplyWait(s, to)
    BY <1>13 DEF ReceiveAccept
  <2>5. /\ s \in Threads /\ s # t /\ frame[s] = "polling" /\ req[s].to = t /\ Asked(t, s) /\ s # to
        /\ UNCHANGED <<partner, notify, mr>>
    <3>1. s \in Threads /\ state[s] = "polling" /\ partner[s] = t /\ Asked(t, s)
      BY <1>0, <2>4 DEF PollingSender, FromTcb, Asked
    <3>2. s # t
      BY <1>0, <2>1, <3>1 DEF PlaceOK
    <3>3. frame[s] = "polling"
      BY <1>0, <2>2, <3>1, <3>2, WaitingPlace
    <3>4. req[s].to = t
      BY <1>0, <3>1, <3>3 DEF TransferInv, QueuesOK, Enqueued
    <3>5. s # to
      <4>1. HasReceiver(t) => frame[to] # "polling"
        BY <1>0, ReceiverPlace DEF HasReceiver, PlaceOK
      <4> QED
        BY <2>1, <3>1, <3>3, <4>1
    <3> QED
      BY <1>13, <3>1, <3>2, <3>3, <3>4, <3>5 DEF ReceiveAccept
  <2>6. CASE u = s
    <3>1. frame'[u] = "polling" /\ req'[u] = req[u] /\ Asked(t, s)'
      <4>1. req'[t] = req[t]
        BY <1>13 DEF ReceiveAccept
      <4> QED
        BY <2>2, <2>5, <2>6, <4>1 DEF Asked
    <3> QED
      BY <2>5, <2>6, <3>1 DEF AnswerOK, AgreedOK, DeliveredOK
  <2>7. CASE u \notin {t, s}
    <3>1. CASE to = nilthread \/ u # to
      <4>1. state'[u] = state[u] /\ current' # u
        BY <1>0, <2>1, <2>4, <2>5, <2>7, <3>1 DEF SwitchTo, ScheduleReplyWait
      <4> QED
        BY <2>2, <2>5, <2>7, <4>1, ContractOthers
    <3>2. CASE to # nilthread /\ u = to
      <4>1. state'[u] = "running" /\ Got(u)
        BY <1>0, <2>1, <2>4, <2>5, <2>7, <3>2
      <4> QED
        BY <2>2, <2>5, <2>7, <4>1, ContractOthers
    <3> QED
      BY <3>1, <3>2
  <2> QED
    BY <2>3, <2>6, <2>7
<1>14. CASE ReceiveResume(t)
  <2>1. /\ current = t /\ \A x \in Threads \ {t} : UNCHANGED <<frame[x], req[x]>>
        /\ \A x \in Threads \ {t} : UNCHANGED <<state[x], partner[x], notify[x], mr[x]>>
        /\ current' = t \/ current' \notin Threads
    BY <1>0, <1>14
       DEF ReceiveResume, ReturnIpc, ReturnFrame, Discarded, NoCall, CancelTimeout, stackVars,
           tcbVars, listVars, schedVars
  <2>3. AnswerOK(t)' /\ AgreedOK(t)' /\ DeliveredOK(t)'
    BY <1>0, <1>14
       DEF ReceiveResume, ReturnIpc, ReturnFrame, Discarded, NoCall, CancelTimeout, stackVars,
           tcbVars, listVars, schedVars, AnswerOK, AgreedOK, DeliveredOK
  <2> QED
    BY <1>quiet, <2>1, <2>3
<1>15. CASE UnwindUnstarted(t)
  <2>1. /\ current = t /\ \A x \in Threads \ {t} : UNCHANGED <<frame[x], req[x]>>
        /\ \A x \in Threads \ {t} : UNCHANGED <<state[x], partner[x], notify[x], mr[x]>>
        /\ current' = t \/ current' \notin Threads
    BY <1>0, <1>15, UnwindOwn DEF GoTo, schedVars
  <2>3. AnswerOK(t)' /\ AgreedOK(t)' /\ DeliveredOK(t)'
    BY <1>0, <1>15, UnwindOwn DEF GoTo, AnswerOK, AgreedOK, DeliveredOK
  <2> QED
    BY <1>quiet, <2>1, <2>3
<1>16. CASE HandleIpcError(t)
  <2>1. /\ current = t /\ \A x \in Threads \ {t} : UNCHANGED <<frame[x], req[x]>>
        /\ \A x \in Threads \ {t} : UNCHANGED <<state[x], partner[x], notify[x], mr[x]>>
        /\ current' = t \/ current' \notin Threads
    BY <1>0, <1>16
       DEF HandleIpcError, Discarded, NoCall, stackVars, tcbVars, listVars, schedVars, PlaceOK,
           TimedOutIn, Frames
  <2>3. AnswerOK(t)' /\ AgreedOK(t)' /\ DeliveredOK(t)'
    BY <1>0, <1>16
       DEF HandleIpcError, Discarded, NoCall, stackVars, tcbVars, listVars, schedVars, AnswerOK,
           AgreedOK, DeliveredOK, PlaceOK, TimedOutIn, Frames
  <2> QED
    BY <1>quiet, <2>1, <2>3
<1>17. CASE HandleIpcTimeout(t)
  <2>1. /\ current = t /\ \A x \in Threads \ {t} : UNCHANGED <<frame[x], req[x]>>
        /\ \A x \in Threads \ {t} : UNCHANGED <<state[x], partner[x], notify[x], mr[x]>>
        /\ current' = t \/ current' \notin Threads
    BY <1>0, <1>17
       DEF HandleIpcTimeout, GoTo, NoUnwind, stackVars, tcbVars, listVars, schedVars, PlaceOK,
           TimedOutIn, Frames
  <2>3. AnswerOK(t)' /\ AgreedOK(t)' /\ DeliveredOK(t)'
    BY <1>0, <1>17
       DEF HandleIpcTimeout, GoTo, NoUnwind, stackVars, tcbVars, listVars, schedVars, AnswerOK,
           AgreedOK, DeliveredOK, PlaceOK, TimedOutIn, Frames
  <2> QED
    BY <1>quiet, <2>1, <2>3
<1>18. CASE TimedOut(t)
  <2>1. /\ current = t /\ \A x \in Threads \ {t} : UNCHANGED <<frame[x], req[x]>>
        /\ \A x \in Threads \ {t} : UNCHANGED <<state[x], partner[x], notify[x], mr[x]>>
        /\ current' = t \/ current' \notin Threads
    BY <1>0, <1>18
       DEF TimedOut, stackVars, tcbVars, listVars, schedVars, PlaceOK, TimedOutIn, Frames
  <2>3. AnswerOK(t)' /\ AgreedOK(t)' /\ DeliveredOK(t)'
    BY <1>0, <1>18
       DEF TimedOut, stackVars, tcbVars, listVars, schedVars, AnswerOK, AgreedOK, DeliveredOK,
           PlaceOK, TimedOutIn, Frames
  <2> QED
    BY <1>quiet, <2>1, <2>3
<1>19. CASE \E v \in Threads : ExregsHalt(t, v)
  <2>1. PICK v \in Threads, h \in {"halt", "resume"} :
          /\ state' = Halted(state, v, h)
          /\ Schedule(IF h = "resume" THEN ready \cup {v} ELSE ready, CanRun(state'))
    BY <1>19 DEF ExregsHalt
  <2>2. /\ current = t /\ frame[t] = "user"
        /\ UNCHANGED <<frame, req, partner, notify, mr>>
    BY <1>19 DEF ExregsHalt, stackVars
  <2>3. current' = idle \/ (current' \in Threads /\ state'[current'] \in Runnable)
    BY <2>1, ScheduleRuns
  <2>4. /\ state'[u] = "locked_running" => state[u] = "locked_running"
        /\ state[u] \in Waiting \cup {"locked_waiting"} => state'[u] = state[u]
        /\ state'[u] \in Waiting => state[u] \in Waiting
    BY <1>0, <2>1 DEF Halted, Waiting
  <2>5. CASE u = t
    BY <2>2, <2>5 DEF AnswerOK, AgreedOK, DeliveredOK
  <2>6. CASE u # t
    <3>1. AgreedOK(u)
      BY DEF ContractInv, ContractOK
    <3>2. AnswerOK(u)'
      BY <1>0, <2>2, <2>3, <2>4 DEF AnswerOK, Got, Asked, Runnable, Waiting
    <3>3. AgreedOK(u)' /\ DeliveredOK(u)'
      BY <1>0, <2>2, <2>4, <2>6, <3>1, OnlyCurrent DEF AgreedOK, DeliveredOK, Asked
    <3> QED
      BY <3>2, <3>3
  <2> QED
    BY <2>5, <2>6
<1>20. CASE SendNonExisting(t) \/ ReceiveNonExisting(t)
  <2>1. ReturnIpc(t) /\ At(t, frame[t]) /\ frame[t] \in {"send", "receive"}
        /\ mr' = [mr EXCEPT ![t] = ErrorTag]
        /\ UNCHANGED <<state, partner, notify, current>>
    BY <1>20 DEF SendNonExisting, ReceiveNonExisting, Receives, tcbVars, schedVars
  <2>2. /\ current = t /\ \A x \in Threads \ {t} : UNCHANGED <<frame[x], req[x]>>
        /\ \A x \in Threads \ {t} : UNCHANGED <<state[x], partner[x], notify[x], mr[x]>>
        /\ current' = t \/ current' \notin Threads
    BY <1>0, <2>1 DEF ReturnIpc, Discarded
  <2>3. AnswerOK(t)' /\ AgreedOK(t)' /\ DeliveredOK(t)'
    BY <1>0, <2>1 DEF ReturnIpc, ReturnFrame, Discarded, AnswerOK, AgreedOK, DeliveredOK
  <2> QED
    BY <1>quiet, <2>2, <2>3
<1> QED
  BY <1>1, <1>2, <1>3, <1>4, <1>5, <1>6, <1>7, <1>8, <1>9, <1>10, <1>11, <1>12, <1>13, <1>14,
     <1>15, <1>16, <1>17, <1>18, <1>19, <1>20
     DEF OwnStep

\* A timeout takes a receive back, and otherwise ticks keep its contract.
LEMMA ContractTick ==
    ASSUME ContractInv, TimerInterrupt \/ IdleSchedule
    PROVE  OwnName' /\ ContractOK'
<1> USE IdAssumption, NotificationNames
<1>0. TransferInv /\ OwnName /\ ContractOK /\ PlacesOK
  BY DEF ContractInv, TransferInv
<1>1. OwnName'
  BY <1>0 DEF OwnName, TimerInterrupt, IdleSchedule, stackVars
<1>2. CASE TimerInterrupt
  <2> SUFFICES ASSUME NEW u \in Threads PROVE AnswerOK(u)' /\ AgreedOK(u)' /\ DeliveredOK(u)'
    BY <1>1 DEF ContractOK
  <2>0. AnswerOK(u) /\ AgreedOK(u) /\ DeliveredOK(u)
    BY <1>0 DEF ContractOK
  <2>1. UNCHANGED <<frame, req, partner, mr>> /\ (current \in Threads => frame[current] = "user")
    BY <1>0, <1>2, TickStates DEF stackVars
  <2>2. current' = current \/ current' = idle \/ (current' \in Threads /\ state'[current'] \in Runnable)
    BY <1>0, <1>2, TickStates
  <2>3. \/ state'[u] = state[u] /\ notify'[u] = notify[u]
        \/ state'[u] = "running" /\ state[u] \in Woken /\ notify'[u] = notify[u]
        \/ state'[u] = "running" /\ notify'[u] # NotNotified
    BY <1>0, <1>2, TickStates DEF States
  <2>4. AnswerOK(u)'
    BY <2>0, <2>1, <2>2, <2>3 DEF AnswerOK, Got, Asked, Runnable, Waiting, Woken, AtRest
  <2>5. AgreedOK(u)' /\ DeliveredOK(u)'
    BY <2>0, <2>1, <2>3 DEF AgreedOK, DeliveredOK, Asked, Got
  <2> QED
    BY <2>4, <2>5
<1>3. CASE IdleSchedule
  <2>1. /\ UNCHANGED <<state, partner, notify, mr, frame, req>> /\ current = idle
        /\ Schedule(ready, CanRun(state))
    BY <1>3 DEF IdleSchedule, tcbVars, stackVars
  <2>2. current' = idle \/ (current' \in Threads /\ state[current'] \in Runnable)
    BY <2>1, ScheduleRuns
  <2> QED
    BY <1>0, <1>1, <2>1, <2>2
       DEF ContractOK, AnswerOK, AgreedOK, DeliveredOK, Got, Asked, Runnable, Waiting
<1> QED
  BY <1>1, <1>2, <1>3

\* The contract holds at first, and every step keeps it.
LEMMA ContractInductive ==
    ASSUME NoForeignUnwind, NoPropagation
    PROVE  /\ Init => ContractInv
           /\ ContractInv /\ [Next]_vars => ContractInv'
<1>1. Init => ContractInv
  <2> SUFFICES ASSUME Init PROVE OwnName /\ ContractOK
    BY NoForeignUnwind, TransferInductive DEF ContractInv
  <2> QED
    BY DEF Init, OwnName, ContractOK, AnswerOK, AgreedOK, DeliveredOK, NoCall
<1>2. ASSUME ContractInv, Next PROVE ContractInv'
  <2>1. TransferInv'
    BY <1>2, NoForeignUnwind, TransferInductive DEF ContractInv
  <2>2. (\E t \in Threads : OwnStep(t)) \/ TimerInterrupt \/ IdleSchedule
    BY <1>2, NoForeignUnwind, OwnSteps DEF ContractInv
  <2> QED
    BY <1>2, <2>1, <2>2, NoPropagation, OwnNameStep, ContractOwnStep, ContractTick
       DEF ContractInv
<1>3. ASSUME ContractInv, UNCHANGED vars PROVE ContractInv'
  <2>1. TransferInv'
    BY <1>3, NoForeignUnwind, TransferInductive DEF ContractInv
  <2>2. OwnName' /\ ContractOK'
    BY <1>3 DEF vars, tcbVars, stackVars, listVars, schedVars, ContractInv, OwnName,
                ContractOK, AnswerOK, AgreedOK, DeliveredOK, Got, Asked
  <2> QED
    BY <2>1, <2>2 DEF ContractInv
<1> QED
  BY <1>1, <1>2, <1>3

\* A receive that returns without an error returns the message of another
\* thread, and one that it asked for: from the named thread, from anybody, or
\* from its own address space.
THEOREM ReceivesWhatItAsked ==
    ASSUME NoForeignUnwind, NoPropagation
    PROVE  Spec => ReceiveContract
<1>1. ASSUME ContractInv, NEW t \in Threads, ReceiveResume(t), mr[t] # ErrorTag
      PROVE  /\ mr[t] # t /\ partner[t] \in Threads
             /\ \/ req[t].from = anythread
                \/ req[t].from = anylocalthread /\ Space[mr[t]] = Space[t]
                \/ req[t].from \in Threads /\ {partner[t], mr[t]} \cap Answerers(t) # {}
  <2>1. Got(t)
    <3>1. AnswerOK(t)
      BY <1>1 DEF ContractInv, ContractOK
    <3> QED
      BY <1>1, <3>1 DEF AnswerOK, ReceiveResume, At
  <2> QED
    BY <2>1 DEF Got, Asked, Answerers
<1>2. ContractInv /\ [Next]_vars =>
        [\A t \in Threads :
            ReceiveResume(t) /\ mr[t] # ErrorTag =>
                /\ mr[t] # t /\ partner[t] \in Threads
                /\ \/ req[t].from = anythread
                   \/ req[t].from = anylocalthread /\ Space[mr[t]] = Space[t]
                   \/ req[t].from \in Threads /\ {partner[t], mr[t]} \cap Answerers(t) # {}
          ]_vars
  BY <1>1
<1> QED
  BY <1>2, NoForeignUnwind, NoPropagation, ContractInductive, PTL DEF Spec, ReceiveContract

-----------------------------------------------------------------------------
(* No rendezvous is missed.  The three ways the code does miss one are       *)
(* excluded: a timeout of a sender at the head of the queue, a message sent  *)
(* in the name of another thread, and a receiver that is unwound.            *)

NoSendTimeout == \A t \in Threads : \A c \in Calls[t] : c.snd # "finite"

\* Without send timeouts a thread in a send queue polls or is accepted.
PollsForEver(t) ==
    /\ req[t].snd # "finite"
    /\ frame[t] = "polling" => t \notin wakeup /\ notify[t] = NotNotified
    /\ frame[t] = "unwind" => state[t] # "polling"
MeetInv == /\ ContractInv
           /\ \A t \in Threads : PollsForEver(t)
           /\ \A r, s \in Threads : ~Missed(r, s)

\* A step of a thread arms no timeout for a sender.
LEMMA PollsOwnStep ==
    ASSUME NoSendTimeout, MeetInv, NEW t \in Threads, OwnStep(t)
    PROVE  \A u \in Threads : PollsForEver(u)'
<1> USE IdAssumption, NotificationNames
<1> USE DEF TypeOK, At
<1> SUFFICES ASSUME NEW u \in Threads PROVE PollsForEver(u)'
  OBVIOUS
<1>0. /\ TypeOK /\ PlaceOK(t) /\ req[t] \in CallType /\ uw[t].victim = t /\ frame[t] \in Frames
      /\ PollsForEver(t) /\ PollsForEver(u)
      /\ HasReceiver(t) => req[t].to \in Threads /\ req[t].to # t /\ frame[req[t].to] # "polling"
      /\ t \in wakeup => frame[t] \in {"polling", "waiting"}
  <2>1. HasReceiver(t) => req[t].to \in Threads /\ req[t].to # t /\ frame[req[t].to] # "polling"
    BY ReceiverPlace DEF MeetInv, ContractInv, HasReceiver, PlaceOK
  <2> QED
    BY <2>1 DEF MeetInv, ContractInv, TransferInv, TypeInv, PlacesOK, UnwindsItself, NoUnwind,
                Victims, TimeoutsOK
<1>1. CASE IpcCall(t)
  <2>1. PICK c \in Calls[t] : /\ req' = [req EXCEPT ![t] = c]
                              /\ GoTo(t, IF c.to = nilthread THEN "receive" ELSE "send")
    BY <1>1 DEF IpcCall
  <2>2. c.snd # "finite"
    BY NoSendTimeout DEF NoSendTimeout
  <2> QED
    BY <1>0, <1>1, <2>1, <2>2
       DEF IpcCall, stackVars, tcbVars, listVars, schedVars, GoTo, PollsForEver
<1>2. CASE PageFault(t)
  BY <1>0, <1>2 DEF PageFault, NoCall, stackVars, tcbVars, listVars, schedVars, GoTo, PollsForEver
<1>3. CASE RestoreState(t)
  BY <1>0, <1>3 DEF RestoreState, GoTo, stackVars, tcbVars, listVars, schedVars, PollsForEver
<1>4. CASE SendZeroTimeout(t)
  BY <1>0, <1>4
     DEF SendZeroTimeout, ReturnIpc, ReturnFrame, Discarded, NoCall, stackVars, tcbVars, listVars,
         schedVars, PollsForEver
<1>5. CASE SendBlocked(t)
  BY <1>0, <1>5
     DEF SendBlocked, SwitchTo, GoTo, EnqueueSend, stackVars, tcbVars, listVars, schedVars,
         PollsForEver
<1>6. CASE SendReady(t)
  BY <1>0, <1>6 DEF SendReady, GoTo, stackVars, tcbVars, listVars, schedVars, PollsForEver
<1>7. CASE SendResume(t)
  BY <1>0, <1>7
     DEF SendResume, GoTo, CancelTimeout, DequeueSend, stackVars, tcbVars, listVars, schedVars,
         PollsForEver
<1>8. CASE Transfer(t)
  BY <1>0, <1>8
     DEF Transfer, GoTo, FixupPropagation, stackVars, tcbVars, listVars, schedVars, HasReceiver,
         PollsForEver
<1>9. CASE TransferError(t)
  BY <1>0, <1>9
     DEF TransferError, ReturnIpc, ReturnFrame, Discarded, NoCall, stackVars, tcbVars, listVars,
         schedVars, HasReceiver, PollsForEver
<1>10. CASE SendOnly(t)
  BY <1>0, <1>10
     DEF SendOnly, ReturnIpc, ReturnFrame, Discarded, NoCall, ScheduleCheck, stackVars, tcbVars,
         listVars, schedVars, HasReceiver, PollsForEver
<1>11. CASE ReceiveZeroTimeout(t)
  BY <1>0, <1>11
     DEF ReceiveZeroTimeout, Receives, ReturnIpc, ReturnFrame, Discarded, NoCall, SwitchTo,
         stackVars, tcbVars, listVars, schedVars, HasReceiver, PollsForEver
<1>12. CASE ReceiveBlocked(t)
  BY <1>0, <1>12
     DEF ReceiveBlocked, Receives, GoTo, SwitchTo, stackVars, tcbVars, listVars, schedVars,
         HasReceiver, PollsForEver
<1>13. CASE ReceiveAccept(t)
  BY <1>0, <1>13
     DEF ReceiveAccept, Receives, GoTo, SwitchTo, ScheduleReplyWait, PollingSender, stackVars,
         tcbVars, listVars, schedVars, HasReceiver, PollsForEver
<1>14. CASE ReceiveResume(t)
  BY <1>0, <1>14
     DEF ReceiveResume, ReturnIpc, ReturnFrame, Discarded, NoCall, CancelTimeout, stackVars,
         tcbVars, listVars, schedVars, PollsForEver
<1>15. CASE UnwindUnstarted(t)
  <2>1. TransferInv
    BY DEF MeetInv, ContractInv
  <2> QED
    BY <1>0, <1>15, <2>1, UnwindOwn DEF GoTo, CancelTimeout, PollsForEver
<1>16. CASE HandleIpcError(t)
  BY <1>0, <1>16
     DEF HandleIpcError, Discarded, NoCall, stackVars, tcbVars, listVars, schedVars, PlaceOK,
         TimedOutIn, Frames, PollsForEver
<1>17. CASE HandleIpcTimeout(t)
  <2>1. frame[t] = "waiting" /\ notify[t].state = "waiting_timeout"
    BY <1>0, <1>17 DEF HandleIpcTimeout, PlaceOK, Frames, TimedOutIn, PollsForEver
  <2> QED
    BY <1>0, <1>17, <2>1
       DEF HandleIpcTimeout, GoTo, NoUnwind, stackVars, tcbVars, listVars, schedVars, PollsForEver
<1>18. CASE TimedOut(t)
  BY <1>0, <1>18
     DEF TimedOut, stackVars, tcbVars, listVars, schedVars, PlaceOK, TimedOutIn, Frames,
         PollsForEver
<1>19. CASE \E v \in Threads : ExregsHalt(t, v)
  <2>1. PICK v \in Threads, h \in {"halt", "resume"} : state' = Halted(state, v, h)
    BY <1>19 DEF ExregsHalt
  <2>2. current = t /\ frame[t] = "user" /\ UNCHANGED <<frame, req, notify, wakeup>>
    BY <1>19 DEF ExregsHalt, stackVars, listVars
  <2>3. state'[u] = "polling" => state[u] = "polling"
    BY <1>0, <2>1 DEF Halted
  <2> QED
    BY <1>0, <2>2, <2>3 DEF PollsForEver
<1>20. CASE SendNonExisting(t) \/ ReceiveNonExisting(t)
  BY <1>0, <1>20
     DEF SendNonExisting, ReceiveNonExisting, Receives, ReturnIpc, ReturnFrame, Discarded, NoCall,
         tcbVars, listVars, PollsForEver
<1> QED
  BY <1>1, <1>2, <1>3, <1>4, <1>5, <1>6, <1>7, <1>8, <1>9, <1>10, <1>11, <1>12, <1>13, <1>14,
     <1>15, <1>16, <1>17, <1>18, <1>19, <1>20
     DEF OwnStep

\* A pair of threads that a step brings no nearer to a missed rendezvous.
LEMMA MissedFrame ==
    ASSUME MeetInv, OwnName', NEW r \in Threads, NEW s \in Threads, Missed(r, s)',
           state'[s] = "polling" => state[s] = "polling" /\ partner'[s] = partner[s],
           state'[r] \in Waiting /\ frame'[r] # "unwind" =>
               state[r] \in Waiting /\ frame[r] # "unwind" /\ partner'[r] = partner[r]
    PROVE  FALSE
BY DEF MeetInv, ContractInv, OwnName, Missed, Wants

\* A receiver that finds nobody to receive from has nobody polling on it that
\* it would receive from: all in its queue poll, so looking at the first will do.
LEMMA NobodyPolls ==
    ASSUME MeetInv, NEW t \in Threads, Receives(t), PollingSender(t) = {},
           NEW s \in Threads, state[s] = "polling", partner[s] = t
    PROVE  ~Asked(t, s)
<1> SUFFICES ASSUME Asked(t, s) PROVE FALSE
  OBVIOUS
<1>0. /\ TransferInv /\ TypeOK /\ current = t /\ frame[t] = "receive" /\ PlaceOK(t)
      /\ \A u \in Threads : PollsForEver(u)
  BY DEF MeetInv, ContractInv, TransferInv, TypeInv, PlacesOK, Receives, At
<1>1. s # t /\ frame[s] = "polling"
  <2>1. s # t
    BY <1>0 DEF PlaceOK
  <2> QED
    BY <1>0, <2>1, WaitingPlace
<1>2. Queued(s, t) /\ sendq[t] \in Seq(Threads)
  BY <1>0, <1>1 DEF TransferInv, QueuesOK, Enqueued, TypeOK
<1>3. ASSUME NEW u \in Threads, Queued(u, t)
      PROVE  state[u] = "polling" /\ partner[u] = t
  <2>1. Enqueued(u) /\ req[u].to = t /\ partner[u] = t
    BY <1>0, <1>3 DEF TransferInv, QueuesOK
  <2>2. frame[u] = "polling" /\ notify[u] = NotNotified
    BY <1>0, <2>1 DEF Enqueued, PollsForEver
  <2>3. state[u] \in Sending
    BY <1>0, <2>2, NotificationNames DEF TransferInv, PlacesOK, PlaceOK, TimedOutIn
  <2>4. state[u] # "locked_running"
    <3> SUFFICES ASSUME state[u] = "locked_running" PROVE FALSE
      OBVIOUS
    <3>1. LockOn(u, t)
      BY <2>1, <2>2 DEF LockOn
    <3> QED
      BY <1>0, <3>1 DEF TransferInv, LocksOK
  <2> QED
    BY <2>1, <2>3, <2>4 DEF Sending
<1>4. \A u \in FromTcb(t) : ~Queued(u, t) /\ u # s
  <2> SUFFICES ASSUME NEW u \in FromTcb(t), Queued(u, t) \/ u = s PROVE FALSE
    OBVIOUS
  <2>1. u \in Threads
    BY DEF FromTcb
  <2>2. state[u] = "polling" /\ partner[u] = t
    BY <1>3, <2>1
  <2> QED
    BY <2>2 DEF PollingSender
<1>5. CASE req[t].from = anythread
  <2>1. sendq[t] # <<>>
    BY <1>2, EmptyList DEF Queued
  <2>2. Head(sendq[t]) \in Threads /\ InList(sendq[t], Head(sendq[t]))
    BY <1>2, <2>1, HeadInList
  <2>3. Head(sendq[t]) \in FromTcb(t)
    <3> DEFINE h == Head(sendq[t])
    <3>1. (CASE req[t].from = anythread -> sendq[t] # <<>> /\ h = Head(sendq[t])
            [] req[t].from = anylocalthread ->
                  /\ Space[h] = Space[t]
                  /\ \E i \in 1..Len(sendq[t]) :
                       /\ sendq[t][i] = h
                       /\ \A j \in 1..(i - 1) : Space[sendq[t][j]] # Space[t]
            [] OTHER -> h = req[t].from)
      BY <1>5, <2>1, IdAssumption
    <3> QED
      BY <2>2, <3>1 DEF FromTcb
  <2> QED
    BY <1>4, <2>2, <2>3 DEF Queued
<1>6. CASE req[t].from = anylocalthread
  <2> DEFINE Local == {u \in Threads : Space[u] = Space[t]}
  <2>1. s \in Local
    BY <1>6, IdAssumption DEF Asked
  <2>2. PICK u \in Local : \E i \in 1..Len(sendq[t]) :
                sendq[t][i] = u /\ \A j \in 1..(i - 1) : sendq[t][j] \notin Local
    <3> HIDE DEF Local
    <3> QED
      BY <1>2, <2>1, FirstMember DEF Queued
  <2>3. PICK i \in 1..Len(sendq[t]) :
                sendq[t][i] = u /\ \A j \in 1..(i - 1) : sendq[t][j] \notin Local
    BY <2>2
  <2>4. \A j \in 1..(i - 1) : Space[sendq[t][j]] # Space[t]
    BY <1>2, <2>3
  <2>5. u \in FromTcb(t) /\ Queued(u, t)
    BY <1>6, <2>3, <2>4, IdAssumption DEF FromTcb, Queued, InList
  <2> QED
    BY <1>4, <2>5
<1>7. CASE req[t].from \notin {anythread, anylocalthread}
  <2>1. s = req[t].from
    BY <1>7 DEF Asked
  <2>2. s \in FromTcb(t)
    BY <1>7, <2>1 DEF FromTcb
  <2> QED
    BY <1>4, <2>2
<1> QED
  BY <1>5, <1>6, <1>7

\* A step of a thread misses no rendezvous: whoever starts to poll has looked
\* at its receiver, whoever starts to wait has looked at its send queue.
LEMMA MeetOwnStep ==
    ASSUME NoPropagation, MeetInv, NEW t \in Threads, OwnStep(t), NEW r \in Threads, NEW s \in Threads
    PROVE  ~Missed(r, s)'
<1> USE IdAssumption, NotificationNames
<1> USE DEF TypeOK, At
<1> SUFFICES ASSUME Missed(r, s)' PROVE FALSE
  OBVIOUS
<1>0. /\ TypeOK /\ PlaceOK(t) /\ PlaceOK(r) /\ PlaceOK(s)
      /\ req[t] \in CallType /\ uw[t].victim = t /\ frame[t] \in Frames
      /\ PollsForEver(t) /\ TransferInv /\ alive = Threads /\ OwnName
      /\ frame[t] = "transfer" => req[t].to # nilthread
      /\ HasReceiver(t) => /\ req[t].to \in Threads /\ req[t].to # t
                           /\ frame[req[t].to] \in {"waiting", "accepted"}
  <2>1. HasReceiver(t) => /\ req[t].to \in Threads /\ req[t].to # t
                          /\ frame[req[t].to] \in {"waiting", "accepted"}
    BY ReceiverPlace DEF MeetInv, ContractInv, HasReceiver, PlaceOK
  <2> QED
    BY <2>1 DEF MeetInv, ContractInv, TransferInv, TypeInv, PlacesOK, UnwindsItself, NoUnwind,
                Victims, SendsToThread
<1>name. OwnName'
  BY NoPropagation, OwnNameStep DEF MeetInv
<1>missed. /\ state'[s] = "polling" /\ partner'[s] = r /\ state'[r] \in Waiting /\ frame'[r] # "unwind"
           /\ \/ partner'[r] \in {s, anythread}
              \/ partner'[r] = anylocalthread /\ Space[r] = Space[s]
  BY <1>name DEF Missed, Wants, OwnName
<1>1. CASE IpcCall(t)
  <2>1. state'[s] = "polling" => state[s] = "polling" /\ partner'[s] = partner[s]
    BY <1>0, <1>1
       DEF IpcCall, stackVars, tcbVars, listVars, schedVars, GoTo, PlaceOK, TimedOutIn, AtRest,
           Woken, Waiting, Sending
  <2>2. state'[r] \in Waiting /\ frame'[r] # "unwind" =>
            state[r] \in Waiting /\ frame[r] # "unwind" /\ partner'[r] = partner[r]
    BY <1>0, <1>1
       DEF IpcCall, stackVars, tcbVars, listVars, schedVars, GoTo, PlaceOK, TimedOutIn, AtRest,
           Woken, Waiting, Sending
  <2> QED
    BY <1>name, <2>1, <2>2, MissedFrame
<1>2. CASE PageFault(t)
  <2>1. state'[s] = "polling" => state[s] = "polling" /\ partner'[s] = partner[s]
    BY <1>0, <1>2
       DEF PageFault, NoCall, stackVars, tcbVars, listVars, schedVars, GoTo, PlaceOK, TimedOutIn,
           AtRest, Woken, Waiting, Sending
  <2>2. state'[r] \in Waiting /\ frame'[r] # "unwind" =>
            state[r] \in Waiting /\ frame[r] # "unwind" /\ partner'[r] = partner[r]
    BY <1>0, <1>2
       DEF PageFault, NoCall, stackVars, tcbVars, listVars, schedVars, GoTo, PlaceOK, TimedOutIn,
           AtRest, Woken, Waiting, Sending
  <2> QED
    BY <1>name, <2>1, <2>2, MissedFrame
<1>3. CASE RestoreState(t)
  <2>1. state'[s] = "polling" => state[s] = "polling" /\ partner'[s] = partner[s]
    BY <1>0, <1>3, RestoredState
       DEF RestoreState, GoTo, stackVars, tcbVars, listVars, schedVars, PlaceOK, TimedOutIn,
           AtRest, Woken, Waiting, Sending
  <2>2. state'[r] \in Waiting /\ frame'[r] # "unwind" =>
            state[r] \in Waiting /\ frame[r] # "unwind" /\ partner'[r] = partner[r]
    BY <1>0, <1>3, RestoredState
       DEF RestoreState, GoTo, stackVars, tcbVars, listVars, schedVars, PlaceOK, TimedOutIn,
           AtRest, Woken, Waiting, Sending
  <2> QED
    BY <1>name, <2>1, <2>2, MissedFrame
<1>4. CASE SendZeroTimeout(t)
  <2>1. state'[s] = "polling" => state[s] = "polling" /\ partner'[s] = partner[s]
    BY <1>0, <1>4
       DEF SendZeroTimeout, ReturnIpc, ReturnFrame, Discarded, NoCall, stackVars, tcbVars,
           listVars, schedVars, PlaceOK, TimedOutIn, AtRest, Woken, Waiting, Sending
  <2>2. state'[r] \in Waiting /\ frame'[r] # "unwind" =>
            state[r] \in Waiting /\ frame[r] # "unwind" /\ partner'[r] = partner[r]
    BY <1>0, <1>4
       DEF SendZeroTimeout, ReturnIpc, ReturnFrame, Discarded, NoCall, stackVars, tcbVars,
           listVars, schedVars, PlaceOK, TimedOutIn, AtRest, Woken, Waiting, Sending
  <2> QED
    BY <1>name, <2>1, <2>2, MissedFrame
<1>5. CASE SendBlocked(t)
  <2>1. SenderId(t) = t
    BY <1>0 DEF SenderId, Propagated, OwnName
  <2>2. CASE s = t
    <3>1. /\ ~Accepts(r, t) /\ r # t /\ UNCHANGED <<state[r], partner[r]>>
      BY <1>0, <1>5, <1>missed, <2>2 DEF SendBlocked, Waiting
    <3> QED
      BY <1>missed, <2>1, <2>2, <3>1 DEF Accepts
  <2>3. CASE s # t
    <3>1. state'[s] = "polling" => state[s] = "polling" /\ partner'[s] = partner[s]
      BY <1>0, <1>5, <2>3 DEF SendBlocked
    <3>2. state'[r] \in Waiting /\ frame'[r] # "unwind" =>
              state[r] \in Waiting /\ frame[r] # "unwind" /\ partner'[r] = partner[r]
      BY <1>0, <1>5 DEF SendBlocked, GoTo, Waiting
    <3> QED
      BY <1>name, <3>1, <3>2, MissedFrame
  <2> QED
    BY <2>2, <2>3
<1>6. CASE SendReady(t)
  <2>1. state'[s] = "polling" => state[s] = "polling" /\ partner'[s] = partner[s]
    BY <1>0, <1>6
       DEF SendReady, GoTo, stackVars, tcbVars, listVars, schedVars, PlaceOK, TimedOutIn, AtRest,
           Woken, Waiting, Sending
  <2>2. state'[r] \in Waiting /\ frame'[r] # "unwind" =>
            state[r] \in Waiting /\ frame[r] # "unwind" /\ partner'[r] = partner[r]
    BY <1>0, <1>6
       DEF SendReady, GoTo, stackVars, tcbVars, listVars, schedVars, PlaceOK, TimedOutIn, AtRest,
           Woken, Waiting, Sending
  <2> QED
    BY <1>name, <2>1, <2>2, MissedFrame
<1>7. CASE SendResume(t)
  <2>1. state'[s] = "polling" => state[s] = "polling" /\ partner'[s] = partner[s]
    BY <1>0, <1>7
       DEF SendResume, GoTo, CancelTimeout, DequeueSend, stackVars, tcbVars, listVars, schedVars,
           PlaceOK, TimedOutIn, AtRest, Woken, Waiting, Sending, Frames
  <2>2. state'[r] \in Waiting /\ frame'[r] # "unwind" =>
            state[r] \in Waiting /\ frame[r] # "unwind" /\ partner'[r] = partner[r]
    BY <1>0, <1>7
       DEF SendResume, GoTo, CancelTimeout, DequeueSend, stackVars, tcbVars, listVars, schedVars,
           PlaceOK, TimedOutIn, AtRest, Woken, Waiting, Sending, Frames
  <2> QED
    BY <1>name, <2>1, <2>2, MissedFrame
<1>8. CASE Transfer(t)
  <2> DEFINE to == req[t].to
  <2>1. /\ partner' = [partner EXCEPT ![to] = t] /\ UNCHANGED state /\ frame' = [frame EXCEPT ![t] = "receive"]
        /\ to \in Threads /\ to # t /\ frame[to] \in {"waiting", "accepted"} /\ current = t
    BY ZenonT(40), <1>0, <1>8 DEF Transfer, FixupPropagation, GoTo, HasReceiver, OwnName
  <2>2. state[s] = "polling" => s \notin {t, to}
    <3>1. state[t] # "polling" /\ state[to] # "polling"
      BY <1>0, <1>8, ReceiverPlace DEF Transfer, HasReceiver, Waiting
    <3> QED
      BY <3>1
  <2>3. CASE r = to
    BY <1>0, <1>missed, <2>1, <2>2, <2>3
  <2>4. CASE r # to
    <3>1. partner'[r] = partner[r] /\ state'[r] = state[r] /\ frame[r] # "unwind"
      BY ZenonT(40), <1>0, <1>8, <2>1, <2>4, OnlyCurrent DEF Transfer
    <3>2. state'[s] = "polling" => state[s] = "polling" /\ partner'[s] = partner[s]
      BY <1>0, <2>1, <2>2
    <3> QED
      BY <1>name, <3>1, <3>2, MissedFrame
  <2> QED
    BY <2>3, <2>4
<1>9. CASE TransferError(t)
  <2>1. HasReceiver(t)
    BY <1>0, <1>9 DEF TransferError, HasReceiver
  <2>2. state'[req[t].to] = "running"
    BY <1>0, <1>9, <2>1 DEF TransferError
  <2>3. \A u \in Threads \ {t, req[t].to} : UNCHANGED <<state[u], partner[u], frame[u]>>
    BY <1>0, <1>9, <2>1 DEF TransferError, ReturnIpc, Discarded
  <2>4. state'[t] = "running"
    BY <1>0, <1>9, <2>1 DEF TransferError
  <2> QED
    BY <1>name, <2>2, <2>3, <2>4, MissedFrame DEF Waiting
<1>10. CASE SendOnly(t)
  <2>1. /\ UNCHANGED partner /\ \A u \in Threads \ {t} : frame'[u] = frame[u]
        /\ frame[t] = "receive"
    BY <1>0, <1>10 DEF SendOnly, Receives, ReturnIpc, Discarded, GoTo
  <2>2. \A u \in Threads : \/ state'[u] = state[u]
                          \/ state'[u] \in Runnable \cup {"locked_waiting"}
    <3> SUFFICES ASSUME NEW u \in Threads
                 PROVE  state'[u] = state[u] \/ state'[u] \in Runnable \cup {"locked_waiting"}
      OBVIOUS
    <3>1. \/ UNCHANGED state
          \/ \E w \in Runnable : state' = [state EXCEPT ![req[t].to] = w, ![t] = "running"]
      BY <1>10 DEF SendOnly, Runnable
    <3> QED
      BY ZenonT(40), <1>0, <3>1 DEF Runnable
  <2>3. state'[s] = state[s] /\ state'[r] = state[r]
    BY <1>missed, <2>2 DEF Runnable, Waiting
  <2>4. r # t
    BY <1>0, <1>missed, <2>1, <2>3 DEF PlaceOK, Waiting
  <2> QED
    BY <1>missed, <1>name, <2>1, <2>3, <2>4, MissedFrame
<1>11. CASE ReceiveZeroTimeout(t)
  <2>1. state'[s] = "polling" => state[s] = "polling" /\ partner'[s] = partner[s]
    BY <1>0, <1>11
       DEF ReceiveZeroTimeout, Receives, ReturnIpc, ReturnFrame, Discarded, NoCall, SwitchTo,
           stackVars, tcbVars, listVars, schedVars, HasReceiver, PlaceOK, TimedOutIn, AtRest,
           Woken, Waiting, Sending
  <2>2. state'[r] \in Waiting /\ frame'[r] # "unwind" =>
            state[r] \in Waiting /\ frame[r] # "unwind" /\ partner'[r] = partner[r]
    BY <1>0, <1>11
       DEF ReceiveZeroTimeout, Receives, ReturnIpc, ReturnFrame, Discarded, NoCall, SwitchTo,
           stackVars, tcbVars, listVars, schedVars, HasReceiver, PlaceOK, TimedOutIn, AtRest,
           Woken, Waiting, Sending
  <2> QED
    BY <1>name, <2>1, <2>2, MissedFrame
<1>12. CASE ReceiveBlocked(t)
  <2>1. CASE r = t
    <3>1. /\ s # t /\ state[s] = "polling" /\ partner[s] = t /\ partner'[t] = req[t].from
      BY <1>0, <1>12, <1>missed, <2>1 DEF ReceiveBlocked, Waiting
    <3>2. Asked(t, s)
      BY <1>missed, <2>1, <3>1 DEF Asked
    <3> QED
      BY <1>12, <3>1, <3>2, NobodyPolls DEF ReceiveBlocked
  <2>2. CASE r # t
    <3>1. state'[s] = "polling" => state[s] = "polling" /\ partner'[s] = partner[s]
      BY <1>0, <1>12
         DEF ReceiveBlocked, Receives, GoTo, SwitchTo, stackVars, tcbVars, listVars, schedVars,
             HasReceiver, PlaceOK, TimedOutIn, AtRest, Woken, Waiting, Sending
    <3>2. state'[r] \in Waiting /\ frame'[r] # "unwind" =>
              state[r] \in Waiting /\ frame[r] # "unwind" /\ partner'[r] = partner[r]
      BY <1>0, <1>12, <2>2
         DEF ReceiveBlocked, Receives, GoTo, SwitchTo, stackVars, tcbVars, listVars, schedVars,
             HasReceiver, PlaceOK, TimedOutIn, AtRest, Woken, Waiting, Sending
    <3> QED
      BY <1>name, <3>1, <3>2, MissedFrame
  <2> QED
    BY <2>1, <2>2
<1>13. CASE ReceiveAccept(t)
  <2>1. /\ UNCHANGED partner /\ \A u \in Threads \ {t} : frame'[u] = frame[u]
        /\ frame[t] = "receive"
    BY <1>0, <1>13 DEF ReceiveAccept, Receives, ReturnIpc, Discarded, GoTo
  <2>2. \A u \in Threads : \/ state'[u] = state[u]
                          \/ state'[u] \in Runnable \cup {"locked_waiting"}
    <3> SUFFICES ASSUME NEW u \in Threads
                 PROVE  state'[u] = state[u] \/ state'[u] \in Runnable \cup {"locked_waiting"}
      OBVIOUS
    <3>1. \E x \in PollingSender(t) :
            LET locked == [state EXCEPT ![x] = "locked_running", ![t] = "locked_waiting"]
            IN  state' = locked \/ state' = [locked EXCEPT ![req[t].to] = "running"]
      BY <1>13 DEF ReceiveAccept
    <3> QED
      BY ZenonT(40), <1>0, <3>1 DEF Runnable
  <2>3. state'[s] = state[s] /\ state'[r] = state[r]
    BY <1>missed, <2>2 DEF Runnable, Waiting
  <2>4. r # t
    BY <1>0, <1>missed, <2>1, <2>3 DEF PlaceOK, Waiting
  <2> QED
    BY <1>missed, <1>name, <2>1, <2>3, <2>4, MissedFrame
<1>14. CASE ReceiveResume(t)
  <2>1. state'[s] = "polling" => state[s] = "polling" /\ partner'[s] = partner[s]
    BY <1>0, <1>14
       DEF ReceiveResume, ReturnIpc, ReturnFrame, Discarded, NoCall, CancelTimeout, stackVars,
           tcbVars, listVars, schedVars, PlaceOK, TimedOutIn, AtRest, Woken, Waiting, Sending
  <2>2. state'[r] \in Waiting /\ frame'[r] # "unwind" =>
            state[r] \in Waiting /\ frame[r] # "unwind" /\ partner'[r] = partner[r]
    BY <1>0, <1>14
       DEF ReceiveResume, ReturnIpc, ReturnFrame, Discarded, NoCall, CancelTimeout, stackVars,
           tcbVars, listVars, schedVars, PlaceOK, TimedOutIn, AtRest, Woken, Waiting, Sending
  <2> QED
    BY <1>name, <2>1, <2>2, MissedFrame
<1>15. CASE UnwindUnstarted(t)
  <2>1. state'[s] = "polling" => state[s] = "polling" /\ partner'[s] = partner[s]
    BY <1>0, <1>15, UnwindOwn
  <2>2. state'[r] \in Waiting /\ frame'[r] # "unwind" =>
            state[r] \in Waiting /\ frame[r] # "unwind" /\ partner'[r] = partner[r]
    BY <1>0, <1>15, UnwindOwn DEF GoTo, Waiting
  <2> QED
    BY <1>name, <2>1, <2>2, MissedFrame
<1>16. CASE HandleIpcError(t)
  <2>1. state'[s] = "polling" => state[s] = "polling" /\ partner'[s] = partner[s]
    BY <1>0, <1>16
       DEF HandleIpcError, Discarded, NoCall, stackVars, tcbVars, listVars, schedVars, PlaceOK,
           TimedOutIn, AtRest, Woken, Waiting, Sending, Frames
  <2>2. state'[r] \in Waiting /\ frame'[r] # "unwind" =>
            state[r] \in Waiting /\ frame[r] # "unwind" /\ partner'[r] = partner[r]
    BY <1>0, <1>16
       DEF HandleIpcError, Discarded, NoCall, stackVars, tcbVars, listVars, schedVars, PlaceOK,
           TimedOutIn, AtRest, Woken, Waiting, Sending, Frames
  <2> QED
    BY <1>name, <2>1, <2>2, MissedFrame
<1>17. CASE HandleIpcTimeout(t)
  <2>0. notify[t].state # "polling" /\ frame[t] = "waiting"
    BY <1>0, <1>17 DEF HandleIpcTimeout, PlaceOK, Frames, TimedOutIn, PollsForEver
  <2>1. state'[s] = "polling" => state[s] = "polling" /\ partner'[s] = partner[s]
    BY <1>0, <1>17, <2>0
       DEF HandleIpcTimeout, GoTo, NoUnwind, stackVars, tcbVars, listVars, schedVars, PlaceOK,
           TimedOutIn, AtRest, Woken, Waiting, Sending
  <2>2. state'[r] \in Waiting /\ frame'[r] # "unwind" =>
            state[r] \in Waiting /\ frame[r] # "unwind" /\ partner'[r] = partner[r]
    BY <1>0, <1>17, <2>0
       DEF HandleIpcTimeout, GoTo, NoUnwind, stackVars, tcbVars, listVars, schedVars, PlaceOK,
           TimedOutIn, AtRest, Woken, Waiting, Sending
  <2> QED
    BY <1>name, <2>1, <2>2, MissedFrame
<1>18. CASE TimedOut(t)
  <2>1. state'[s] = "polling" => state[s] = "polling" /\ partner'[s] = partner[s]
    BY <1>0, <1>18
       DEF TimedOut, stackVars, tcbVars, listVars, schedVars, PlaceOK, TimedOutIn, AtRest, Woken,
           Waiting, Sending, Frames
  <2>2. state'[r] \in Waiting /\ frame'[r] # "unwind" =>
            state[r] \in Waiting /\ frame[r] # "unwind" /\ partner'[r] = partner[r]
    BY <1>0, <1>18
       DEF TimedOut, stackVars, tcbVars, listVars, schedVars, PlaceOK, TimedOutIn, AtRest, Woken,
           Waiting, Sending, Frames
  <2> QED
    BY <1>name, <2>1, <2>2, MissedFrame
<1>19. CASE \E v \in Threads : ExregsHalt(t, v)
  <2>1. PICK v \in Threads, h \in {"halt", "resume"} : state' = Halted(state, v, h)
    BY <1>19 DEF ExregsHalt
  <2>2. UNCHANGED <<frame, partner>>
    BY <1>19 DEF ExregsHalt, stackVars
  <2>3. \A u \in Threads : state'[u] \in Waiting \cup {"polling"} => state'[u] = state[u]
    BY <1>0, <2>1 DEF Halted, Waiting
  <2> QED
    BY <1>name, <2>2, <2>3, MissedFrame
<1>20. CASE SendNonExisting(t) \/ ReceiveNonExisting(t)
  <2>1. UNCHANGED <<state, partner>> /\ ReturnIpc(t) /\ current = t
        /\ frame[t] \in {"send", "receive"}
    BY <1>20 DEF SendNonExisting, ReceiveNonExisting, Receives, tcbVars
  <2>2. frame'[r] # "unwind" => frame[r] # "unwind"
    BY <1>0, <2>1 DEF ReturnIpc, Discarded
  <2> QED
    BY <1>name, <2>1, <2>2, MissedFrame
<1> QED
  BY <1>1, <1>2, <1>3, <1>4, <1>5, <1>6, <1>7, <1>8, <1>9, <1>10, <1>11, <1>12, <1>13, <1>14,
     <1>15, <1>16, <1>17, <1>18, <1>19, <1>20
     DEF OwnStep

\* No thread waits for a message that another one is polling to send it, as
\* long as send timeouts do not fire, nobody sends in the name of another
\* thread and nobody unwinds another.
THEOREM RendezvousMet ==
    ASSUME NoForeignUnwind, NoPropagation, NoSendTimeout
    PROVE  Spec => []NoMissedSender
<1>1. Init => MeetInv
  <2>1. Init => ContractInv
    BY NoForeignUnwind, ContractInductive
  <2>2. Init => /\ \A t \in Threads : PollsForEver(t)
                /\ \A r, s \in Threads : ~Missed(r, s)
    BY DEF Init, PollsForEver, Missed, NoCall
  <2> QED
    BY <2>1, <2>2 DEF MeetInv
<1>2. ASSUME MeetInv, Next PROVE MeetInv'
  <2>1. ContractInv'
    BY <1>2, NoForeignUnwind, NoPropagation, ContractInductive DEF MeetInv
  <2>2. (\E t \in Threads : OwnStep(t)) \/ TimerInterrupt \/ IdleSchedule
    BY <1>2, NoForeignUnwind, OwnSteps DEF MeetInv, ContractInv
  <2>3. CASE \E t \in Threads : OwnStep(t)
    BY <1>2, <2>1, <2>3, NoPropagation, NoSendTimeout, PollsOwnStep, MeetOwnStep DEF MeetInv
  <2>4. CASE TimerInterrupt \/ IdleSchedule
    <3>1. /\ UNCHANGED <<frame, req, partner, sender_id>> /\ wakeup' \subseteq wakeup
      BY <1>2, <2>4, TickStates DEF MeetInv, ContractInv, IdleSchedule, stackVars, tcbVars, listVars
    <3>2. \A u \in Threads : state'[u] \in Waiting \cup {"polling"} => state'[u] = state[u]
      BY <1>2, <2>4, TickStates
         DEF MeetInv, ContractInv, IdleSchedule, stackVars, tcbVars, Waiting
    <3>3. \A u \in Threads : frame[u] = "polling" => notify'[u] = notify[u]
      <4> SUFFICES ASSUME NEW u \in Threads, frame[u] = "polling" PROVE notify'[u] = notify[u]
        OBVIOUS
      <4>1. u \notin wakeup
        BY <1>2 DEF MeetInv, PollsForEver
      <4> QED
        BY <1>2, <2>4, <4>1, TickStates DEF MeetInv, ContractInv, IdleSchedule, tcbVars
    <3>4. \A u \in Threads : PollsForEver(u)'
      BY <1>2, <3>1, <3>2, <3>3 DEF MeetInv, PollsForEver
    <3>5. \A r, s \in Threads : ~Missed(r, s)'
      BY <1>2, <3>1, <3>2 DEF MeetInv, Missed, Wants
    <3> QED
      BY <2>1, <3>4, <3>5 DEF MeetInv
  <2> QED
    BY <2>2, <2>3, <2>4
<1>3. ASSUME MeetInv, UNCHANGED vars PROVE MeetInv'
  <2>1. ContractInv'
    BY <1>3, NoForeignUnwind, NoPropagation, ContractInductive DEF MeetInv
  <2> QED
    BY <1>3, <2>1
       DEF MeetInv, PollsForEver, Missed, Wants, vars, tcbVars, stackVars, listVars, schedVars
<1>4. MeetInv => NoMissedSender
  BY DEF MeetInv, ContractInv, TransferInv, NoMissedSender
<1> QED
  BY <1>1, <1>2, <1>3, <1>4, PTL DEF Spec

-----------------------------------------------------------------------------
(* Halted threads.  The way the code does wake one is excluded: a timeout    *)
(* that was armed when the thread was halted still fires.                    *)

Haltable == {v \in Threads : \E a \in Threads : <<a, v>> \in HaltRights}
NoTimeoutOfHalted == \A v \in Haltable : \A c \in Calls[v] :
                        c.snd # "finite" /\ c.rcv # "finite"

\* Nobody but the threads that may be halted is, and they arm no timeout.
WaitsForEver(t) == req[t].snd # "finite" /\ req[t].rcv # "finite" /\ t \notin wakeup
HaltInv == /\ TransferInv
           /\ \A t \in Threads : state[t] = "halted" => t \in Haltable
           /\ \A t \in Haltable : WaitsForEver(t)

\* A step of a thread halts or wakes a halted thread only by ExchangeRegisters.
LEMMA HaltOwnStep ==
    ASSUME NoTimeoutOfHalted, HaltInv, NEW t \in Threads, OwnStep(t), NEW u \in Threads
    PROVE  /\ u \in Haltable => WaitsForEver(u)'
           /\ \/ state'[u] = "halted" <=> state[u] = "halted"
              \/ u \in Haltable /\ ExregsHalt(t, u)
<1> USE IdAssumption, NotificationNames
<1> USE DEF TypeOK, At
<1>0. /\ TypeOK /\ TransferInv /\ PlaceOK(t) /\ req[t] \in CallType /\ uw[t].victim = t /\ frame[t] \in Frames
      /\ u \in Haltable => WaitsForEver(u)
      /\ frame[t] = "transfer" => req[t].to # nilthread
      /\ HasReceiver(t) => /\ req[t].to \in Threads /\ req[t].to # t
                           /\ state[req[t].to] \in Waiting \cup {"locked_waiting"}
  <2>1. HasReceiver(t) => /\ req[t].to \in Threads /\ req[t].to # t
                          /\ state[req[t].to] \in Waiting \cup {"locked_waiting"}
    BY ReceiverPlace DEF HaltInv
  <2> QED
    BY <2>1 DEF HaltInv, TransferInv, TypeInv, PlacesOK, UnwindsItself, NoUnwind, Victims,
                SendsToThread
<1>1. CASE IpcCall(t)
  <2>1. PICK c \in Calls[t] : req' = [req EXCEPT ![t] = c]
    BY <1>1 DEF IpcCall
  <2>2. t \in Haltable => c.snd # "finite" /\ c.rcv # "finite"
    BY NoTimeoutOfHalted DEF NoTimeoutOfHalted
  <2> QED
    BY <1>0, <1>1, <2>1, <2>2 DEF IpcCall, stackVars, tcbVars, listVars, schedVars, WaitsForEver
<1>2. CASE PageFault(t)
  <2>1. u \in Haltable => WaitsForEver(u)'
    BY <1>0, <1>2 DEF PageFault, NoCall, stackVars, tcbVars, listVars, schedVars, WaitsForEver
  <2>2. state'[u] = "halted" <=> state[u] = "halted"
    BY <1>0, <1>2
       DEF PageFault, NoCall, stackVars, tcbVars, listVars, schedVars, PlaceOK, TimedOutIn, Frames,
           AtRest, Woken, Waiting, Sending, States
  <2> QED
    BY <2>1, <2>2
<1>3. CASE RestoreState(t)
  <2>1. u \in Haltable => WaitsForEver(u)'
    BY <1>0, <1>3 DEF RestoreState, GoTo, stackVars, tcbVars, listVars, schedVars, WaitsForEver
  <2>2. state'[u] = "halted" <=> state[u] = "halted"
    BY <1>0, <1>3, RestoredState
       DEF RestoreState, GoTo, stackVars, tcbVars, listVars, schedVars, PlaceOK, TimedOutIn,
           Frames, AtRest, Woken, Waiting, Sending, States
  <2> QED
    BY <2>1, <2>2
<1>4. CASE SendZeroTimeout(t)
  <2>1. u \in Haltable => WaitsForEver(u)'
    BY <1>0, <1>4
       DEF SendZeroTimeout, ReturnIpc, ReturnFrame, Discarded, NoCall, stackVars, tcbVars,
           listVars, schedVars, WaitsForEver
  <2>2. state'[u] = "halted" <=> state[u] = "halted"
    BY <1>0, <1>4
       DEF SendZeroTimeout, ReturnIpc, ReturnFrame, Discarded, NoCall, stackVars, tcbVars,
           listVars, schedVars, PlaceOK, TimedOutIn, Frames, AtRest, Woken, Waiting, Sending,
           States
  <2> QED
    BY <2>1, <2>2
<1>5. CASE SendBlocked(t)
  <2>1. u \in Haltable => WaitsForEver(u)'
    BY <1>0, <1>5
       DEF SendBlocked, SwitchTo, GoTo, EnqueueSend, stackVars, tcbVars, listVars, schedVars,
           WaitsForEver
  <2>2. state'[u] = "halted" <=> state[u] = "halted"
    BY <1>0, <1>5
       DEF SendBlocked, SwitchTo, GoTo, EnqueueSend, stackVars, tcbVars, listVars, schedVars,
           PlaceOK, TimedOutIn, Frames, AtRest, Woken, Waiting, Sending, States
  <2> QED
    BY <2>1, <2>2
<1>6. CASE SendReady(t)
  <2>1. u \in Haltable => WaitsForEver(u)'
    BY <1>0, <1>6 DEF SendReady, GoTo, stackVars, tcbVars, listVars, schedVars, WaitsForEver
  <2>2. state'[u] = "halted" <=> state[u] = "halted"
    BY <1>0, <1>6
       DEF SendReady, GoTo, stackVars, tcbVars, listVars, schedVars, PlaceOK, TimedOutIn, Frames,
           AtRest, Woken, Waiting, Sending, States
  <2> QED
    BY <2>1, <2>2
<1>7. CASE SendResume(t)
  <2>1. u \in Haltable => WaitsForEver(u)'
    BY <1>0, <1>7
       DEF SendResume, GoTo, CancelTimeout, DequeueSend, stackVars, tcbVars, listVars, schedVars,
           WaitsForEver
  <2>2. state'[u] = "halted" <=> state[u] = "halted"
    BY <1>0, <1>7
       DEF SendResume, GoTo, CancelTimeout, DequeueSend, stackVars, tcbVars, listVars, schedVars,
           PlaceOK, TimedOutIn, Frames, AtRest, Woken, Waiting, Sending, States
  <2> QED
    BY <2>1, <2>2
<1>8. CASE Transfer(t)
  <2>1. u \in Haltable => WaitsForEver(u)'
    BY <1>0, <1>8
       DEF Transfer, GoTo, FixupPropagation, stackVars, tcbVars, listVars, schedVars, HasReceiver,
           WaitsForEver
  <2>2. state'[u] = "halted" <=> state[u] = "halted"
    BY <1>0, <1>8
       DEF Transfer, GoTo, FixupPropagation, stackVars, tcbVars, listVars, schedVars, HasReceiver,
           PlaceOK, TimedOutIn, Frames, AtRest, Woken, Waiting, Sending, States
  <2> QED
    BY <2>1, <2>2
<1>9. CASE TransferError(t)
  <2>1. u \in Haltable => WaitsForEver(u)'
    BY <1>0, <1>9
       DEF TransferError, ReturnIpc, ReturnFrame, Discarded, NoCall, stackVars, tcbVars, listVars,
           schedVars, HasReceiver, WaitsForEver
  <2>2. state'[u] = "halted" <=> state[u] = "halted"
    BY <1>0, <1>9
       DEF TransferError, ReturnIpc, ReturnFrame, Discarded, NoCall, stackVars, tcbVars, listVars,
           schedVars, HasReceiver, PlaceOK, TimedOutIn, Frames, AtRest, Woken, Waiting, Sending,
           States
  <2> QED
    BY <2>1, <2>2
<1>10. CASE SendOnly(t)
  <2>1. u \in Haltable => WaitsForEver(u)'
    BY <1>0, <1>10
       DEF SendOnly, ReturnIpc, ReturnFrame, Discarded, NoCall, ScheduleCheck, stackVars, tcbVars,
           listVars, schedVars, HasReceiver, WaitsForEver
  <2>2. frame[t] = "receive" /\ state[t] # "halted"
    BY <1>0, <1>10 DEF SendOnly, Receives, PlaceOK
  <2>3. state'[u] = "halted" => state[u] = "halted"
    <3>1. \/ UNCHANGED state
          \/ \E w \in Runnable : state' = [state EXCEPT ![req[t].to] = w, ![t] = "running"]
      BY <1>10 DEF SendOnly, Runnable
    <3> QED
      BY <1>0, <3>1 DEF Runnable
  <2>4. state[u] = "halted" => state'[u] = "halted"
    <3>1. \/ UNCHANGED state
          \/ \E w \in Runnable : state' = [state EXCEPT ![req[t].to] = w, ![t] = "running"]
      BY <1>10 DEF SendOnly, Runnable
    <3>2. state[u] = "halted" /\ req[t].to # nilthread => u # req[t].to /\ u # t
      BY <1>0, <2>2 DEF HasReceiver, Waiting
    <3> QED
      BY <1>0, <1>10, <2>2, <3>1, <3>2 DEF SendOnly, Receives, PollingSender
  <2> QED
    BY <2>1, <2>3, <2>4
<1>11. CASE ReceiveZeroTimeout(t)
  <2>1. u \in Haltable => WaitsForEver(u)'
    BY <1>0, <1>11
       DEF ReceiveZeroTimeout, Receives, ReturnIpc, ReturnFrame, Discarded, NoCall, SwitchTo,
           stackVars, tcbVars, listVars, schedVars, HasReceiver, WaitsForEver
  <2>2. state'[u] = "halted" <=> state[u] = "halted"
    BY <1>0, <1>11
       DEF ReceiveZeroTimeout, Receives, ReturnIpc, ReturnFrame, Discarded, NoCall, SwitchTo,
           stackVars, tcbVars, listVars, schedVars, HasReceiver, PlaceOK, TimedOutIn, Frames,
           AtRest, Woken, Waiting, Sending, States
  <2> QED
    BY <2>1, <2>2
<1>12. CASE ReceiveBlocked(t)
  <2>1. u \in Haltable => WaitsForEver(u)'
    BY <1>0, <1>12
       DEF ReceiveBlocked, Receives, GoTo, SwitchTo, stackVars, tcbVars, listVars, schedVars,
           HasReceiver, WaitsForEver
  <2>2. state'[u] = "halted" <=> state[u] = "halted"
    BY <1>0, <1>12
       DEF ReceiveBlocked, Receives, GoTo, SwitchTo, stackVars, tcbVars, listVars, schedVars,
           HasReceiver, PlaceOK, TimedOutIn, Frames, AtRest, Woken, Waiting, Sending, States
  <2> QED
    BY <2>1, <2>2
<1>13. CASE ReceiveAccept(t)
  <2>1. u \in Haltable => WaitsForEver(u)'
    BY <1>0, <1>13
       DEF ReceiveAccept, Receives, GoTo, SwitchTo, ScheduleReplyWait, PollingSender, stackVars,
           tcbVars, listVars, schedVars, HasReceiver, WaitsForEver
  <2>2. frame[t] = "receive" /\ state[t] # "halted"
    BY <1>0, <1>13 DEF ReceiveAccept, Receives, PlaceOK
  <2>3. state'[u] = "halted" => state[u] = "halted"
    <3>1. \E x \in PollingSender(t) :
            LET locked == [state EXCEPT ![x] = "locked_running", ![t] = "locked_waiting"]
            IN  state' = locked \/ state' = [locked EXCEPT ![req[t].to] = "running"]
      BY <1>13 DEF ReceiveAccept
    <3> QED
      BY ZenonT(40), <1>0, <3>1 DEF Runnable
  <2>4. state[u] = "halted" => state'[u] = "halted"
    <3>1. \E x \in PollingSender(t) :
            LET locked == [state EXCEPT ![x] = "locked_running", ![t] = "locked_waiting"]
            IN  state' = locked \/ state' = [locked EXCEPT ![req[t].to] = "running"]
      BY <1>13 DEF ReceiveAccept
    <3>2. state[u] = "halted" /\ req[t].to # nilthread => u # req[t].to /\ u # t
      BY <1>0, <2>2 DEF HasReceiver, Waiting
    <3> QED
      BY <1>0, <1>13, <2>2, <3>1, <3>2 DEF ReceiveAccept, Receives, PollingSender
  <2> QED
    BY <2>1, <2>3, <2>4
<1>14. CASE ReceiveResume(t)
  <2>1. u \in Haltable => WaitsForEver(u)'
    BY <1>0, <1>14
       DEF ReceiveResume, ReturnIpc, ReturnFrame, Discarded, NoCall, CancelTimeout, stackVars,
           tcbVars, listVars, schedVars, WaitsForEver
  <2>2. state'[u] = "halted" <=> state[u] = "halted"
    BY <1>0, <1>14
       DEF ReceiveResume, ReturnIpc, ReturnFrame, Discarded, NoCall, CancelTimeout, stackVars,
           tcbVars, listVars, schedVars, PlaceOK, TimedOutIn, Frames, AtRest, Woken, Waiting,
           Sending, States
  <2> QED
    BY <2>1, <2>2
<1>15. CASE UnwindUnstarted(t)
  <2>1. u \in Haltable => WaitsForEver(u)'
    BY <1>0, <1>15, UnwindOwn DEF CancelTimeout, WaitsForEver
  <2>2. state'[u] = "halted" <=> state[u] = "halted"
    BY <1>0, <1>15, UnwindOwn DEF PlaceOK
  <2> QED
    BY <2>1, <2>2
<1>16. CASE HandleIpcError(t)
  <2>1. u \in Haltable => WaitsForEver(u)'
    BY <1>0, <1>16
       DEF HandleIpcError, Discarded, NoCall, stackVars, tcbVars, listVars, schedVars, WaitsForEver
  <2>2. state'[u] = "halted" <=> state[u] = "halted"
    BY <1>0, <1>16
       DEF HandleIpcError, Discarded, NoCall, stackVars, tcbVars, listVars, schedVars, PlaceOK,
           TimedOutIn, Frames, AtRest, Woken, Waiting, Sending, States
  <2> QED
    BY <2>1, <2>2
<1>17. CASE HandleIpcTimeout(t)
  <2>1. u \in Haltable => WaitsForEver(u)'
    BY <1>0, <1>17
       DEF HandleIpcTimeout, GoTo, NoUnwind, stackVars, tcbVars, listVars, schedVars, WaitsForEver
  <2>2. state'[u] = "halted" <=> state[u] = "halted"
    BY <1>0, <1>17
       DEF HandleIpcTimeout, GoTo, NoUnwind, stackVars, tcbVars, listVars, schedVars, PlaceOK,
           TimedOutIn, Frames, AtRest, Woken, Waiting, Sending, States
  <2> QED
    BY <2>1, <2>2
<1>18. CASE TimedOut(t)
  <2>1. u \in Haltable => WaitsForEver(u)'
    BY <1>0, <1>18 DEF TimedOut, stackVars, tcbVars, listVars, schedVars, WaitsForEver
  <2>2. state'[u] = "halted" <=> state[u] = "halted"
    BY <1>0, <1>18
       DEF TimedOut, stackVars, tcbVars, listVars, schedVars, PlaceOK, TimedOutIn, Frames, AtRest,
           Woken, Waiting, Sending, States
  <2> QED
    BY <2>1, <2>2
<1>19. CASE \E v \in Threads : ExregsHalt(t, v)
  <2>1. PICK v \in Threads : ExregsHalt(t, v)
    BY <1>19
  <2>2. v \in Haltable /\ UNCHANGED <<req, wakeup>>
    BY <2>1 DEF ExregsHalt, Haltable, stackVars, listVars
  <2>3. u # v => state'[u] = state[u]
    BY <1>0, <2>1 DEF ExregsHalt, Halted
  <2> QED
    BY <1>0, <2>1, <2>2, <2>3 DEF WaitsForEver
<1>20. CASE SendNonExisting(t) \/ ReceiveNonExisting(t)
  <2>1. UNCHANGED <<state, wakeup>> /\ req' = [req EXCEPT ![t] = NoCall]
    BY <1>20 DEF SendNonExisting, ReceiveNonExisting, ReturnIpc, Discarded, tcbVars, listVars
  <2>2. u \in Haltable => WaitsForEver(u)'
    BY <1>0, <2>1 DEF NoCall, WaitsForEver
  <2> QED
    BY <2>1, <2>2
<1> QED
  BY <1>1, <1>2, <1>3, <1>4, <1>5, <1>6, <1>7, <1>8, <1>9, <1>10, <1>11, <1>12, <1>13, <1>14,
     <1>15, <1>16, <1>17, <1>18, <1>19, <1>20
     DEF OwnStep

\* Ticks halt nobody, and wake no thread without a timeout.
LEMMA HaltTick ==
    ASSUME HaltInv, TimerInterrupt \/ IdleSchedule, NEW u \in Threads
    PROVE  /\ u \in Haltable => WaitsForEver(u)'
           /\ state'[u] = "halted" <=> state[u] = "halted"
<1>0. TransferInv /\ (u \in Haltable => WaitsForEver(u)) /\ (state[u] = "halted" => u \in Haltable)
  BY DEF HaltInv
<1>1. UNCHANGED req /\ wakeup' \subseteq wakeup
  BY <1>0, TickStates DEF IdleSchedule, stackVars, listVars
<1>2. state'[u] = state[u] \/ (state'[u] = "running" /\ u \in wakeup)
  BY <1>0, TickStates DEF IdleSchedule, tcbVars
<1> QED
  BY <1>0, <1>1, <1>2 DEF WaitsForEver

\* A halted thread stays halted until ExchangeRegisters resumes it: no IPC
\* and no switch wakes it, if it is not halted with a timeout armed.
THEOREM HaltedUntilResumed ==
    ASSUME NoForeignUnwind, NoTimeoutOfHalted
    PROVE  Spec => HaltedStaysHalted
<1>1. Init => HaltInv
  <2>1. Init => TransferInv
    BY NoForeignUnwind, TransferInductive
  <2>2. Init => \A t \in Threads : state[t] # "halted" /\ WaitsForEver(t)
    BY DEF Init, WaitsForEver, NoCall
  <2> QED
    BY <2>1, <2>2 DEF HaltInv, Haltable
<1>2. ASSUME HaltInv, Next PROVE HaltInv'
  <2>1. TransferInv'
    BY <1>2, NoForeignUnwind, TransferInductive DEF HaltInv
  <2>2. (\E t \in Threads : OwnStep(t)) \/ TimerInterrupt \/ IdleSchedule
    BY <1>2, NoForeignUnwind, OwnSteps DEF HaltInv
  <2>3. ASSUME NEW u \in Threads
        PROVE  /\ u \in Haltable => WaitsForEver(u)'
               /\ state'[u] = "halted" => u \in Haltable
    BY <1>2, <2>2, NoTimeoutOfHalted, HaltOwnStep, HaltTick DEF HaltInv
  <2> QED
    BY <2>1, <2>3 DEF HaltInv, Haltable
<1>3. ASSUME HaltInv, UNCHANGED vars PROVE HaltInv'
  <2>1. TransferInv'
    BY <1>3, NoForeignUnwind, TransferInductive DEF HaltInv
  <2> QED
    BY <1>3, <2>1 DEF HaltInv, WaitsForEver, vars, tcbVars, stackVars, listVars
<1>4. ASSUME HaltInv, Next, NEW t \in alive, state[t] = "halted", state'[t] # "halted"
      PROVE  \E a \in Threads : ExregsHalt(a, t)
  <2>1. t \in Threads
    BY <1>4 DEF HaltInv, TransferInv
  <2>2. (\E a \in Threads : OwnStep(a)) \/ TimerInterrupt \/ IdleSchedule
    BY <1>4, NoForeignUnwind, OwnSteps DEF HaltInv
  <2> QED
    BY <1>4, <2>1, <2>2, NoTimeoutOfHalted, HaltOwnStep, HaltTick
<1>5. HaltInv /\ [Next]_vars =>
        [\A t \in alive : state[t] = "halted" /\ state'[t] # "halted" =>
            \/ \E a \in Threads : ExregsHalt(a, t)
            \/ t \notin alive']_vars
  BY <1>4
<1> QED
  BY <1>1, <1>2, <1>3, <1>5, PTL DEF Spec, HaltedStaysHalted
-----------------------------------------------------------------------------
(* Deletions.  A deleted TCB comes back to life if a timeout of it is still *)
(* armed, if a sender was accepted that it leaves behind, or if an abort of *)
(* it was under way; the premises exclude the three.                        *)

Deletable == {v \in Threads : \E a \in Threads : <<a, v>> \in DeleteRights}
NoTimeoutOfDeleted == \A v \in Deletable : \A c \in Calls[v] :
                         c.snd # "finite" /\ c.rcv # "finite"
NobodyWaitsForDeleted ==
    \A t \in Threads : /\ Pager[t] \notin Deletable
                       /\ \A c \in Calls[t] : c.to \in Deletable => c.snd = "zero"
NoAbortOfDeleted == \A r \in AbortRights : r[2] \notin Deletable

\* A thread in its send phase, or between the phases, is the current one.
RunsItsCall == \A t \in Threads : frame[t] \in {"send", "transfer", "receive"} => current = t
\* Whoever is about to transfer to a thread, or to wake it, finds it alive.
FindsAlive ==
    \A t \in Threads :
        /\ req[t].to \in Deletable => req[t].snd = "zero" /\ frame[t] # "polling"
        /\ frame[t] \in {"transfer", "receive"} => req[t].to \in alive \cup {nilthread}
NoTimeoutArmed ==
    \A v \in Deletable : v \notin wakeup /\ req[v].snd # "finite" /\ req[v].rcv # "finite"
VictimsKnown ==
    \A t \in Threads : /\ uw[t].by = "exregs" => uw[t].victim \notin Deletable
                       /\ uw[t].by = "delete" => uw[t].victim \in Deletable \ {t}
DeadRest ==
    /\ Threads \ alive \subseteq Deletable
    /\ \A v \in Threads \ alive : state[v] = "aborted" /\ v # current
DeadInv == TypeInv /\ RunsItsCall /\ FindsAlive /\ NoTimeoutArmed /\ VictimsKnown /\ DeadRest

\* A step of a thread in the kernel or out of it.
ThreadStep(t) == IpcStep(t) \/ UnwindStep(t) \/ ControlStep(t)

\* It is the current one, and places nobody but itself; a switch leaves it
\* outside its call.
LEMMA ThreadSteps ==
    ASSUME NEW t \in Threads, ThreadStep(t)
    PROVE  /\ current = t
           /\ \/ frame' = frame /\ frame[t] \in {"user", "unwind", "unwound"}
              \/ \E f : /\ frame' = [frame EXCEPT ![t] = f]
                        /\ f \in {"send", "transfer", "receive"} => current' = current
<1> USE DEF At, vars, tcbVars, stackVars, listVars, schedVars, GoTo, ReturnIpc, Discarded,
            ReturnFrame
<1>1. CASE IpcStep(t)
  <2>1. CASE IpcCall(t) \/ PageFault(t) \/ RestoreState(t)
    BY <2>1 DEF IpcCall, PageFault, RestoreState
  <2>2. CASE SendNonExisting(t) \/ SendZeroTimeout(t) \/ SendBlocked(t) \/ SendReady(t)
    BY <2>2 DEF SendNonExisting, SendZeroTimeout, SendBlocked, SendReady
  <2>3. CASE SendResume(t) \/ Transfer(t) \/ TransferError(t) \/ SendOnly(t)
    BY <2>3 DEF SendResume, Transfer, TransferError, SendOnly
  <2>4. CASE ReceiveNonExisting(t) \/ ReceiveZeroTimeout(t) \/ ReceiveBlocked(t)
    BY <2>4 DEF ReceiveNonExisting, ReceiveZeroTimeout, ReceiveBlocked, Receives
  <2>5. CASE ReceiveAccept(t) \/ ReceiveResume(t)
    BY <2>5 DEF ReceiveAccept, ReceiveResume, Receives
  <2> QED
    BY <1>1, <2>1, <2>2, <2>3, <2>4, <2>5 DEF IpcStep
<1>2. CASE UnwindStep(t)
  BY <1>2 DEF UnwindStep, UnwindUnstarted, UnwindLocked, Unwound, HandleIpcError,
              HandleIpcTimeout, TimedOut
<1>3. CASE ControlStep(t)
  BY <1>3 DEF ControlStep, ExregsAborted, Deleted, ExregsAbort, ExregsHalt, Delete
<1> QED
  BY <1>1, <1>2, <1>3 DEF ThreadStep

\* Nobody is switched out in its call.
LEMMA RunsStep ==
    ASSUME TypeInv, RunsItsCall, Next
    PROVE  RunsItsCall'
<1> USE DEF RunsItsCall
<1>0. frame \in [Threads -> Frames] /\ idle \notin Threads
  BY IdAssumption DEF TypeInv, TypeOK
<1>1. ASSUME NEW t \in Threads, ThreadStep(t) PROVE RunsItsCall'
  <2>1. current = t /\ \A u \in Threads \ {t} : frame[u] \notin {"send", "transfer", "receive"}
    BY <1>1, ThreadSteps
  <2>2. CASE frame' = frame /\ frame[t] \in {"user", "unwind", "unwound"}
    BY <2>1, <2>2
  <2>3. ASSUME NEW f, frame' = [frame EXCEPT ![t] = f],
               f \in {"send", "transfer", "receive"} => current' = current
        PROVE  RunsItsCall'
    BY <1>0, <2>1, <2>3
  <2> QED
    BY <1>1, <2>2, <2>3, ThreadSteps
<1>2. CASE TimerInterrupt
  <2>1. frame' = frame /\ (current \in Threads => frame[current] = "user")
    BY <1>2 DEF TimerInterrupt, At, stackVars
  <2> QED
    BY <2>1
<1>3. CASE IdleSchedule
  <2>1. frame' = frame /\ current = idle
    BY <1>3 DEF IdleSchedule, stackVars
  <2> QED
    BY <1>0, <2>1
<1> QED
  BY <1>1, <1>2, <1>3 DEF Next, ThreadStep

\* Only the victim of a deletion stops being alive.
LEMMA AliveStep ==
    ASSUME Next, NEW u \in Threads, u \in alive, u \notin alive'
    PROVE  \E a \in Threads : Deleted(a) /\ u = uw[a].victim
<1> USE DEF vars, tcbVars, stackVars, listVars, schedVars
<1>1. ASSUME NEW t \in Threads, IpcStep(t) PROVE alive' = alive
  BY <1>1
     DEF IpcStep, IpcCall, PageFault, RestoreState, SendNonExisting, SendZeroTimeout, SendBlocked,
         SendReady, SendResume, Transfer, TransferError, SendOnly, ReceiveNonExisting,
         ReceiveZeroTimeout, ReceiveBlocked, ReceiveAccept, ReceiveResume
<1>2. ASSUME NEW t \in Threads, UnwindStep(t) PROVE alive' = alive
  BY <1>2 DEF UnwindStep, UnwindUnstarted, UnwindLocked, HandleIpcError, HandleIpcTimeout, TimedOut
<1>3. ASSUME NEW t \in Threads, ControlStep(t)
      PROVE  alive' = alive \/ (Deleted(t) /\ alive' = alive \ {uw[t].victim})
  BY <1>3 DEF ControlStep, ExregsAborted, Deleted, ExregsAbort, ExregsHalt, Delete
<1>4. CASE TimerInterrupt \/ IdleSchedule
  BY <1>4 DEF TimerInterrupt, IdleSchedule
<1> QED
  BY <1>1, <1>2, <1>3, <1>4 DEF Next

\* Whoever is sent to with a wait is not deleted, and whoever is deleted is not
\* being sent to: the thread that does either is the current one.
LEMMA FindsStep ==
    ASSUME NobodyWaitsForDeleted, DeadInv, Next
    PROVE  FindsAlive'
<1> USE DEF FindsAlive
<1>0. /\ frame \in [Threads -> Frames] /\ req \in [Threads -> CallType]
      /\ idle \notin Threads /\ nilthread \notin Deletable
      /\ Threads \ alive \subseteq Deletable /\ FindsAlive
      /\ \A t \in Threads : frame[t] \in {"polling", "transfer"} => req[t].to \in Threads
  BY IdAssumption DEF DeadInv, TypeInv, TypeOK, SendsToThread, DeadRest, Deletable
<1> DEFINE Fine(t) ==
             /\ req[t].to \in Deletable => req[t].snd = "zero" /\ frame[t] # "polling"
             /\ frame[t] \in {"transfer", "receive"} => req[t].to \in alive \cup {nilthread}
<1>1. ASSUME NEW t \in Threads, IpcStep(t) PROVE Fine(t)' /\ \A u \in Threads \ {t} : req'[u] = req[u]
  <2> USE DEF At, vars, tcbVars, stackVars, listVars, schedVars, GoTo, ReturnIpc, Discarded,
              ReturnFrame, NoCall
  <2>1. CASE IpcCall(t)
    <3>1. PICK c \in Calls[t] : /\ req' = [req EXCEPT ![t] = c]
                                /\ frame' = [frame EXCEPT ![t] = IF c.to = nilthread
                                                                 THEN "receive" ELSE "send"]
      BY <2>1 DEF IpcCall
    <3> QED
      BY <1>0, <3>1 DEF NobodyWaitsForDeleted
  <2>2. CASE PageFault(t)
    BY <1>0, <2>2 DEF PageFault, NobodyWaitsForDeleted
  <2>3. CASE ReturnIpc(t)
    BY <1>0, <2>3
  <2>4. CASE RestoreState(t) \/ Transfer(t)
    BY <1>0, <2>4 DEF RestoreState, Transfer
  <2>5. CASE SendBlocked(t) \/ SendReady(t) \/ SendResume(t)
    BY <1>0, <2>5 DEF SendBlocked, SendReady, SendResume
  <2>6. CASE ReceiveBlocked(t) \/ ReceiveAccept(t)
    BY <1>0, <2>6 DEF ReceiveBlocked, ReceiveAccept
  <2> QED
    BY <1>1, <2>1, <2>2, <2>3, <2>4, <2>5, <2>6
       DEF IpcStep, SendNonExisting, SendZeroTimeout, TransferError, SendOnly,
           ReceiveNonExisting, ReceiveZeroTimeout, ReceiveResume
<1>2. ASSUME NEW t \in Threads, UnwindStep(t) \/ ControlStep(t)
      PROVE  Fine(t)' /\ \A u \in Threads \ {t} : req'[u] = req[u]
  <2> USE DEF At, vars, tcbVars, stackVars, listVars, schedVars, GoTo, Discarded, NoCall
  <2>1. CASE HandleIpcError(t)
    BY <1>0, <2>1 DEF HandleIpcError
  <2>2. CASE UnwindUnstarted(t) \/ UnwindLocked(t) \/ HandleIpcTimeout(t) \/ TimedOut(t)
    BY <1>0, <2>2 DEF UnwindUnstarted, UnwindLocked, Unwound, HandleIpcTimeout, TimedOut
  <2>3. CASE ControlStep(t)
    BY <1>0, <2>3 DEF ControlStep, ExregsAborted, Deleted, ExregsAbort, ExregsHalt, Delete
  <2> QED
    BY <1>2, <2>1, <2>2, <2>3 DEF UnwindStep
<1>3. ASSUME NEW t \in Threads, ThreadStep(t) PROVE FindsAlive'
  <2>1. current = t /\ \A u \in Threads \ {t} : /\ frame[u] \notin {"transfer", "receive"}
                                                /\ frame'[u] = frame[u]
    BY <1>0, <1>3, ThreadSteps DEF DeadInv, RunsItsCall
  <2>2. ASSUME NEW u \in Threads \ {t} PROVE Fine(u)'
    <3>1. req'[u] = req[u]
      BY <1>1, <1>2, <1>3 DEF ThreadStep
    <3> QED
      BY <1>0, <2>1, <3>1
  <2>3. Fine(t)'
    BY <1>1, <1>2, <1>3 DEF ThreadStep
  <2> QED
    BY <2>2, <2>3
<1>4. CASE TimerInterrupt \/ IdleSchedule
  BY <1>0, <1>4 DEF TimerInterrupt, IdleSchedule, stackVars
<1> QED
  BY <1>3, <1>4 DEF Next, ThreadStep

\* A thread that may be deleted arms no timeout.
LEMMA UntimedStep ==
    ASSUME NoTimeoutOfDeleted, NobodyWaitsForDeleted, TypeInv, NoTimeoutArmed, Next
    PROVE  NoTimeoutArmed'
<1> USE DEF NoTimeoutArmed
<1>0. /\ req \in [Threads -> CallType] /\ Deletable \subseteq Threads
      /\ \A v \in Deletable : v \notin wakeup /\ req[v].snd # "finite" /\ req[v].rcv # "finite"
  BY DEF TypeInv, TypeOK, Deletable
<1>1. ASSUME NEW t \in Threads, IpcStep(t) PROVE NoTimeoutArmed'
  <2> USE DEF At, vars, tcbVars, stackVars, listVars, schedVars, GoTo, ReturnIpc, Discarded,
              ReturnFrame, NoCall
  <2>1. CASE IpcCall(t)
    <3>1. PICK c \in Calls[t] : req' = [req EXCEPT ![t] = c]
      BY <2>1 DEF IpcCall
    <3>2. wakeup' = wakeup
      BY <2>1 DEF IpcCall
    <3> QED
      BY <1>0, <3>1, <3>2 DEF NoTimeoutOfDeleted
  <2>2. CASE PageFault(t)
    BY <1>0, <2>2 DEF PageFault
  <2>3. CASE SendBlocked(t) \/ SendResume(t)
    BY <1>0, <2>3 DEF SendBlocked, SendResume, CancelTimeout
  <2>4. CASE ReceiveBlocked(t) \/ ReceiveAccept(t) \/ ReceiveResume(t)
    BY <1>0, <2>4 DEF ReceiveBlocked, ReceiveAccept, ReceiveResume, CancelTimeout,
                      ScheduleReplyWait
  <2>5. CASE SendOnly(t) \/ ReceiveZeroTimeout(t)
    BY <1>0, <2>5 DEF SendOnly, ReceiveZeroTimeout
  <2>6. CASE SendNonExisting(t) \/ SendZeroTimeout(t) \/ TransferError(t) \/ ReceiveNonExisting(t)
    BY <1>0, <2>6 DEF SendNonExisting, SendZeroTimeout, TransferError, ReceiveNonExisting
  <2>7. CASE RestoreState(t) \/ SendReady(t) \/ Transfer(t)
    BY <1>0, <2>7 DEF RestoreState, SendReady, Transfer
  <2> QED
    BY <1>1, <2>1, <2>2, <2>3, <2>4, <2>5, <2>6, <2>7 DEF IpcStep
<1>2. ASSUME NEW t \in Threads, UnwindStep(t) PROVE NoTimeoutArmed'
  BY <1>0, <1>2
     DEF UnwindStep, UnwindUnstarted, UnwindLocked, HandleIpcError, HandleIpcTimeout, TimedOut,
         Discarded, NoCall, CancelTimeout, stackVars, listVars
<1>3. ASSUME NEW t \in Threads, ControlStep(t) PROVE NoTimeoutArmed'
  BY <1>0, <1>3 DEF ControlStep, ExregsAborted, Deleted, ExregsAbort, ExregsHalt, Delete,
                    stackVars, listVars
<1>4. CASE TimerInterrupt \/ IdleSchedule
  BY <1>0, <1>4 DEF TimerInterrupt, IdleSchedule, stackVars, listVars
<1> QED
  BY <1>1, <1>2, <1>3, <1>4 DEF Next

\* An abort is of a thread that may not be deleted, a deletion of another thread.
LEMMA VictimsStep ==
    ASSUME NoAbortOfDeleted, TypeInv, VictimsKnown, Next
    PROVE  VictimsKnown'
<1> USE DEF VictimsKnown
<1>0. /\ uw \in [Threads -> Victims] /\ Deletable \subseteq Threads
      /\ \A t \in Threads : /\ uw[t].by = "exregs" => uw[t].victim \notin Deletable
                            /\ uw[t].by = "delete" => uw[t].victim \in Deletable \ {t}
  BY DEF TypeInv, TypeOK, Deletable
<1>1. ASSUME NEW t \in Threads, IpcStep(t) PROVE uw' = uw
  BY <1>1
     DEF IpcStep, IpcCall, PageFault, RestoreState, SendNonExisting, SendZeroTimeout, SendBlocked,
         SendReady, SendResume, Transfer, TransferError, SendOnly, ReceiveNonExisting,
         ReceiveZeroTimeout, ReceiveBlocked, ReceiveAccept, ReceiveResume, stackVars
<1>2. ASSUME NEW t \in Threads, UnwindStep(t) PROVE VictimsKnown'
  BY <1>0, <1>2
     DEF UnwindStep, UnwindUnstarted, UnwindLocked, HandleIpcError, HandleIpcTimeout, TimedOut,
         NoUnwind, stackVars
<1>3. ASSUME NEW t \in Threads, ExregsAborted(t) \/ Deleted(t) PROVE VictimsKnown'
  BY <1>0, <1>3 DEF ExregsAborted, Deleted, NoUnwind
<1>4. ASSUME NEW t \in Threads, NEW v \in Threads, ExregsAbort(t, v) PROVE VictimsKnown'
  <2>1. v \notin Deletable
    BY <1>4 DEF ExregsAbort, NoAbortOfDeleted
  <2>2. PICK halt : uw' = [uw EXCEPT ![t] = [victim |-> v, by |-> "exregs", halt |-> halt]]
    BY <1>4 DEF ExregsAbort
  <2> QED
    BY <1>0, <2>1, <2>2
<1>5. ASSUME NEW t \in Threads, NEW v \in Threads, ExregsHalt(t, v) PROVE uw' = uw
  BY <1>5 DEF ExregsHalt, stackVars
<1>6. ASSUME NEW t \in Threads, NEW v \in Threads, Delete(t, v) PROVE VictimsKnown'
  <2>1. v \in Deletable /\ v # t
    BY <1>6 DEF Delete, Deletable
  <2>2. uw' = [uw EXCEPT ![t] = [victim |-> v, by |-> "delete", halt |-> "none"]]
    BY <1>6 DEF Delete
  <2> QED
    BY <1>0, <2>1, <2>2
<1>7. CASE TimerInterrupt \/ IdleSchedule
  BY <1>0, <1>7 DEF TimerInterrupt, IdleSchedule, stackVars
<1> QED
  BY <1>0, <1>1, <1>2, <1>3, <1>4, <1>5, <1>6, <1>7 DEF Next, ControlStep

\* A thread that is dead before a step of the others is neither set running nor
\* switched to: what is set running was waiting, sending or halted, or is a
\* receiver that was found alive.
LEMMA DeadStays ==
    ASSUME DeadInv, Next, NEW v \in Threads \ alive
    PROVE  state'[v] = "aborted" /\ v # current'
<1> USE StateNames
<1>0. /\ state \in [Threads -> States] /\ current \in Threads \cup {idle} /\ idle \notin Threads
      /\ nilthread \notin Threads
      /\ state[v] = "aborted" /\ v # current /\ v \in Deletable /\ v \notin wakeup
      /\ "aborted" \notin Runnable \cup Sending \cup Receiving
      /\ \A r \in Threads : frame[r] \in {"transfer", "receive"} => req[r].to # v
  BY IdAssumption DEF DeadInv, TypeInv, TypeOK, DeadRest, NoTimeoutArmed, FindsAlive, Runnable,
                      Sending, Receiving, Waiting
<1>1. ASSUME NEW q, NEW st, st[v] = "aborted", Schedule(q, CanRun(st)) PROVE v # current'
  BY <1>0, <1>1 DEF Schedule, FindNext, CanRun
<1>2. ASSUME NEW t \in Threads, IpcStep(t) PROVE state'[v] = "aborted" /\ v # current'
  <2> USE DEF At, vars, tcbVars, stackVars, listVars, schedVars, SwitchTo, ScheduleCheck,
              ScheduleReplyWait, Receives
  <2>1. CASE IpcCall(t) \/ PageFault(t) \/ RestoreState(t)
    BY <1>0, <2>1 DEF IpcCall, PageFault, RestoreState
  <2>2. CASE SendNonExisting(t) \/ SendZeroTimeout(t) \/ SendBlocked(t)
    BY <1>0, <2>2 DEF SendNonExisting, SendZeroTimeout, SendBlocked
  <2>3. CASE SendReady(t) \/ SendResume(t) \/ Transfer(t)
    BY <1>0, <2>3 DEF SendReady, SendResume, Transfer
  <2>4. CASE TransferError(t) \/ SendOnly(t)
    BY <1>0, <2>4 DEF TransferError, SendOnly
  <2>5. CASE ReceiveNonExisting(t) \/ ReceiveZeroTimeout(t) \/ ReceiveBlocked(t)
    BY <1>0, <2>5 DEF ReceiveNonExisting, ReceiveZeroTimeout, ReceiveBlocked
  <2>6. CASE ReceiveAccept(t)
    <3>1. PICK s \in PollingSender(t) :
            IF req[t].to = nilthread
            THEN /\ state' = [state EXCEPT ![s] = "locked_running", ![t] = "locked_waiting"]
                 /\ current' = s
            ELSE /\ state' = [state EXCEPT ![s] = "locked_running", ![t] = "locked_waiting",
                                           ![req[t].to] = "running"]
                 /\ current' \in {s, req[t].to}
      BY <2>6 DEF ReceiveAccept
    <3>2. s # v /\ t # v /\ req[t].to # v
      <4>1. state[s] = "polling"
        BY <3>1 DEF PollingSender
      <4> QED
        BY <1>0, <2>6, <4>1 DEF ReceiveAccept
    <3> QED
      BY <1>0, <3>1, <3>2
  <2>7. CASE ReceiveResume(t)
    BY <1>0, <2>7 DEF ReceiveResume
  <2> QED
    BY <1>2, <2>1, <2>2, <2>3, <2>4, <2>5, <2>6, <2>7 DEF IpcStep
<1>3. ASSUME NEW t \in Threads, UnwindStep(t) PROVE state'[v] = "aborted" /\ v # current'
  <2> USE DEF At, vars, tcbVars, stackVars, listVars, schedVars
  <2>1. CASE UnwindUnstarted(t)
    BY <1>0, <2>1 DEF UnwindUnstarted, Sending, Receiving
  <2>2. CASE UnwindLocked(t)
    <3>1. \A p \in AbortedPartner(uw[t].victim) : p # v
      BY <1>0 DEF AbortedPartner, Sending, Receiving
    <3>2. uw[t].victim # v
      BY <1>0, <2>2 DEF UnwindLocked, Sending, Receiving
    <3> QED
      BY <1>0, <2>2, <3>1, <3>2 DEF UnwindLocked, ScheduleCheck
  <2>3. CASE HandleIpcError(t) \/ HandleIpcTimeout(t) \/ TimedOut(t)
    BY <1>0, <2>3 DEF HandleIpcError, HandleIpcTimeout, TimedOut
  <2> QED
    BY <1>3, <2>1, <2>2, <2>3 DEF UnwindStep
<1>4. ASSUME NEW t \in Threads, ControlStep(t) PROVE state'[v] = "aborted" /\ v # current'
  <2> USE DEF At, vars, tcbVars, stackVars, listVars, schedVars
  <2>1. CASE ExregsAborted(t)
    <3>1. uw[t].victim # v
      BY <1>0, <2>1 DEF ExregsAborted, DeadInv, VictimsKnown
    <3>2. state'[v] = "aborted"
      BY <1>0, <2>1, <3>1 DEF ExregsAborted, Halted
    <3> QED
      BY <1>1, <2>1, <3>2 DEF ExregsAborted
  <2>2. CASE Deleted(t)
    BY <1>0, <2>2 DEF Deleted
  <2>3. ASSUME NEW u \in Threads, ExregsAbort(t, u) \/ Delete(t, u)
        PROVE  state'[v] = "aborted" /\ v # current'
    BY <1>0, <2>3 DEF ExregsAbort, Delete
  <2>4. ASSUME NEW u \in Threads, ExregsHalt(t, u) PROVE state'[v] = "aborted" /\ v # current'
    <3>1. PICK halt \in {"halt", "resume"} :
            /\ state' = Halted(state, u, halt)
            /\ Schedule(IF halt = "resume" THEN ready \cup {u} ELSE ready, CanRun(state'))
      BY <2>4 DEF ExregsHalt
    <3>2. state'[v] = "aborted"
      BY <1>0, <3>1 DEF Halted
    <3> QED
      BY <1>1, <3>1, <3>2
  <2> QED
    BY <1>4, <2>1, <2>2, <2>3, <2>4 DEF ControlStep
<1>5. CASE TimerInterrupt
  <2>1. PICK expired \in SUBSET wakeup :
          /\ state' = [t \in Threads |->
                         IF t \in {u \in expired : state[u] # "waiting_forever"}
                         THEN "running" ELSE state[t]]
          /\ \/ UNCHANGED current
             \/ current' \in expired
             \/ \E q : Schedule(q, CanRun(state'))
    BY <1>5 DEF TimerInterrupt
  <2>2. state'[v] = "aborted"
    BY <1>0, <2>1
  <2> QED
    BY <1>0, <1>1, <2>1, <2>2
<1>6. CASE IdleSchedule
  BY <1>0, <1>1, <1>6 DEF IdleSchedule, tcbVars
<1> QED
  BY <1>2, <1>3, <1>4, <1>5, <1>6 DEF Next

\* The invariant holds at first and is kept by every step.
LEMMA DeadInductive ==
    ASSUME NoTimeoutOfDeleted, NobodyWaitsForDeleted, NoAbortOfDeleted
    PROVE  /\ Init => DeadInv
           /\ DeadInv /\ [Next]_vars => DeadInv'
<1>1. ASSUME Init PROVE DeadInv
  <2>1. TypeInv
    BY <1>1, TypeInvInductive
  <2>2. RunsItsCall /\ FindsAlive /\ NoTimeoutArmed /\ VictimsKnown /\ DeadRest
    BY <1>1, IdAssumption
       DEF Init, RunsItsCall, FindsAlive, NoTimeoutArmed, VictimsKnown, DeadRest, Deletable,
           NoCall, NoUnwind
  <2> QED
    BY <2>1, <2>2 DEF DeadInv
<1>2. ASSUME DeadInv, Next PROVE DeadInv'
  <2>1. TypeInv'
    BY <1>2, TypeInvInductive DEF DeadInv
  <2>2. RunsItsCall' /\ FindsAlive' /\ NoTimeoutArmed' /\ VictimsKnown'
    BY <1>2, NoTimeoutOfDeleted, NobodyWaitsForDeleted, NoAbortOfDeleted, RunsStep, FindsStep,
       UntimedStep, VictimsStep DEF DeadInv
  <2>3. ASSUME NEW v \in Threads, v \notin alive'
        PROVE  v \in Deletable /\ state'[v] = "aborted" /\ v # current'
    <3>1. CASE v \in Threads \ alive
      <4>1. v \in Deletable
        BY <1>2, <3>1 DEF DeadInv, DeadRest
      <4> QED
        BY <1>2, <3>1, <4>1, DeadStays
    <3>2. CASE v \in alive
      <4>1. PICK a \in Threads : Deleted(a) /\ v = uw[a].victim
        BY <1>2, <2>3, <3>2, AliveStep
      <4>2. v \in Deletable \ {a}
        BY <1>2, <4>1 DEF Deleted, DeadInv, VictimsKnown
      <4>3. state \in [Threads -> States] /\ current = a
        BY <1>2, <4>1 DEF DeadInv, TypeInv, TypeOK, Deleted, At
      <4> QED
        BY <4>1, <4>2, <4>3 DEF Deleted, schedVars
    <3> QED
      BY <3>1, <3>2
  <2>4. DeadRest'
    BY <2>3 DEF DeadRest, Deletable
  <2> QED
    BY <2>1, <2>2, <2>4 DEF DeadInv
<1>3. ASSUME DeadInv, UNCHANGED vars PROVE DeadInv'
  <2>1. TypeInv'
    BY <1>3, TypeInvInductive DEF DeadInv
  <2> QED
    BY <1>3, <2>1
       DEF DeadInv, RunsItsCall, FindsAlive, NoTimeoutArmed, VictimsKnown, DeadRest, vars,
           tcbVars, stackVars, listVars, schedVars
<1> QED
  BY <1>1, <1>2, <1>3

\* A deleted thread stays dead, whatever the others do: it arms no timeouts,
\* nobody waits to send to it, and nobody aborts an IPC of it at the same time.
\* Others may still be aborted, halted and deleted in every state.
THEOREM StaysDead ==
    ASSUME NoTimeoutOfDeleted, NobodyWaitsForDeleted, NoAbortOfDeleted
    PROVE  Spec => DeletedStaysDead
<1>1. /\ Init => DeadInv
      /\ DeadInv /\ [Next]_vars => DeadInv'
  BY NoTimeoutOfDeleted, NobodyWaitsForDeleted, NoAbortOfDeleted, DeadInductive
<1>2. DeadInv /\ [Next]_vars => [\A t \in Threads \ alive : state'[t] = "aborted"]_vars
  BY DeadStays
<1> QED
  BY <1>1, <1>2, PTL DEF Spec, DeletedStaysDead
=============================================================================
