---------------------------- MODULE XIpc_proofs ----------------------------
(* Proofs about IPC between processors: no activation is lost, though the   *)
(* states of a thread are written by two processors and the list of the     *)
(* threads to be activated is looked at without its lock.                   *)
EXTENDS XIpc, Lists_proofs, TLAPS

SendPlaces == {"send", "lock", "check", "block", "resumed", "transfer"}

\* Threads deal with threads of other processors only.
Distant ==
    /\ \A t \in Threads : req[t] \in Calls[t] \/ pc[t] = "user"
    /\ \A t \in Threads : pc[t] \in SendPlaces => req[t].to \in Threads
    /\ \A t \in Threads : pc[t] \in {"receive", "select"} => req[t].from # nilthread
    /\ \A r \in Threads : \A s : InList(send_queue[r], s) => Home[s] # Home[r]
    /\ \A t \in Threads : pc[t] \in {"accept", "activate", "insert"} => Home[other[t]] # Home[t]

\* A thread in the kernel has its processor, unless it waits to be activated.
InKernel == \A t \in Threads : pc[t] \notin {"user", "resumed", "received"} => current[Home[t]] = t

\* A thread has its own lock while it receives only.
OwnLock == \A t \in Threads : tcb_lock[t] = t => pc[t] \in {"select", "accept", "activate", "insert"}

\* Where a thread that can run is to be found once it gives its processor up.
Known(t) == InList(requeue[Home[t]], t) \/ \E s \in Threads : Activating(s, t)

\* A thread that is about to give its processor up after it has activated its
\* sender, and has been told to run in between, will be found.
Parting ==
    \A t \in Threads :
        pc[t] \in {"activate", "insert"} /\ tcb_lock[t] = t /\ Runnable(state[t]) => Known(t)

-----------------------------------------------------------------------------
(* Types and distances                                                      *)

\* The partner a thread waits for, if it polls on it.
LEMMA SenderType ==
    ASSUME TypeOK, Distant, NEW t \in Threads, pc[t] = "select", Polls(Sender(t), t)
    PROVE  Sender(t) \in Threads /\ Home[Sender(t)] # Home[t]
<1>1. req[t] \in Ipcs /\ req[t] \in Calls[t] /\ req[t].from # nilthread
  BY DEF TypeOK, Distant
<1>2. CASE req[t].from # anythread
  <2>1. Sender(t) = req[t].from
    BY <1>2 DEF Sender
  <2>2. req[t].from \in Threads /\ req[t].from \notin On(Home[t])
    BY <1>1, <1>2, XIpcAssumption DEF Ipcs
  <2> QED
    BY <2>1, <2>2 DEF On
<1>3. CASE req[t].from = anythread
  <2>1. send_queue[t] # <<>> /\ Sender(t) = Head(send_queue[t])
    BY <1>3 DEF Sender, Polls
  <2>2. send_queue[t] \in Seq(Threads)
    BY DEF TypeOK
  <2> QED
    BY <2>1, <2>2, HeadInList DEF Distant
<1> QED
  BY <1>2, <1>3

\* The receiver of a thread in the send phase is on another processor.
LEMMA ReceiverType ==
    ASSUME TypeOK, Distant, NEW t \in Threads, pc[t] \in SendPlaces
    PROVE  req[t].to \in Threads /\ Home[req[t].to] # Home[t]
<1>1. req[t] \in Calls[t] /\ req[t].to \in Threads
  BY DEF Distant, SendPlaces
<1>2. req[t].to \notin On(Home[t])
  BY <1>1, XIpcAssumption
<1> QED
  BY <1>1, <1>2 DEF On

\* Types.
LEMMA TypeStep ==
    ASSUME TypeOK, Distant, [Next]_vars
    PROVE  TypeOK'
<1> USE DEF tcbs, sched, At, GoTo, Unlock, SwitchToIdle
<1>1. ASSUME NEW t \in Threads, NEW i \in Calls[t], Call(t, i) PROVE TypeOK'
  <2>1. i \in Ipcs
    BY XIpcAssumption
  <2> QED
    BY <1>1, <2>1 DEF Call, TypeOK
<1>2. ASSUME NEW t \in Threads,
             Send(t) \/ LockReceiver(t) \/ SendReady(t) \/ SendZeroTimeout(t) \/ Block(t)
      PROVE  TypeOK'
  <2>1. req[t].to \in Threads /\ Home[t] \in Cpus
    BY <1>2, ReceiverType, XIpcAssumption
       DEF SendPlaces, Send, LockReceiver, SendReady, SendZeroTimeout, Block
  <2>2. CASE Send(t)
    BY <2>1, <2>2 DEF Send, TypeOK
  <2>3. CASE LockReceiver(t)
    BY <2>1, <2>3 DEF LockReceiver, TypeOK
  <2>4. CASE SendReady(t)
    BY <2>1, <2>4 DEF SendReady, TypeOK
  <2>5. CASE SendZeroTimeout(t)
    BY <2>1, <2>5 DEF SendZeroTimeout, TypeOK
  <2>6. CASE Block(t)
    BY <2>1, <2>6 DEF Block, TypeOK
  <2> QED
    BY <1>2, <2>2, <2>3, <2>4, <2>5, <2>6
<1>3. ASSUME NEW t \in Threads, SendBlocked(t) PROVE TypeOK'
  <2> DEFINE r == req[t].to
  <2>1. r \in Threads
    BY <1>3, ReceiverType DEF SendPlaces, SendBlocked
  <2>2. Append(send_queue[r], t) \in Seq(Threads)
    BY <2>1 DEF TypeOK
  <2> QED
    BY <1>3, <2>1, <2>2 DEF SendBlocked, EnqueueTail, TypeOK
<1>4. ASSUME NEW t \in Threads, SendResume(t) PROVE TypeOK'
  <2> DEFINE r == req[t].to
  <2>1. r \in Threads
    BY <1>4, ReceiverType DEF SendPlaces, SendResume
  <2>2. Without(send_queue[r], t) \in Seq(Threads)
    BY <2>1, WithoutType DEF TypeOK
  <2> QED
    BY <1>4, <2>1, <2>2 DEF SendResume, TypeOK
<1>5. ASSUME NEW t \in Threads, Transfer(t) PROVE TypeOK'
  <2> DEFINE r == req[t].to
  <2>1. r \in Threads
    BY <1>5, ReceiverType DEF SendPlaces, Transfer
  <2>2. Append(inbox[r], t) \in Seq(Threads)
    BY <2>1 DEF TypeOK
  <2> QED
    BY <1>5, <2>1, <2>2 DEF Transfer, TypeOK
<1>6. ASSUME NEW t \in Threads, Activate(t) PROVE TypeOK'
  BY ZenonT(40), <1>6, XIpcAssumption DEF Activate, Activated, TypeOK
<1>7. ASSUME NEW t \in Threads, Insert(t) PROVE TypeOK'
  <2>1. other[t] \in Threads /\ Home[other[t]] \in Cpus
    BY XIpcAssumption DEF TypeOK
  <2>2. EnqueueHead(requeue[Home[other[t]]], other[t]) \in Seq(Threads)
    <3>1. requeue[Home[other[t]]] \in Seq(Threads)
      BY <2>1 DEF TypeOK
    <3> QED
      BY <2>1, <3>1, HeadMembers
  <2>3. requeue' \in [Cpus -> Seq(Threads)]
    BY <1>7, <2>1, <2>2 DEF Insert, TypeOK
  <2> QED
    BY ZenonT(40), <1>7, <2>3, XIpcAssumption DEF Insert, Activated, TypeOK
<1>8. ASSUME NEW t \in Threads,
             Sent(t) \/ LockSelf(t) \/ ReceiveZeroTimeout(t) \/ ReceiveBlocked(t) \/ Accept(t)
      PROVE  TypeOK'
  <2>1. req[t].from \in Threads \cup {nilthread, anythread}
    BY DEF TypeOK, Ipcs
  <2>2. Home[t] \in Cpus
    BY XIpcAssumption
  <2>3. CASE Sent(t)
    BY <2>3 DEF Sent, TypeOK
  <2>4. CASE LockSelf(t)
    BY <2>4 DEF LockSelf, TypeOK
  <2>5. CASE ReceiveZeroTimeout(t)
    BY <2>5 DEF ReceiveZeroTimeout, TypeOK
  <2>6. CASE ReceiveBlocked(t)
    BY <2>1, <2>2, <2>6 DEF ReceiveBlocked, TypeOK
  <2>7. CASE Accept(t)
    BY <2>1, <2>7 DEF Accept, TypeOK
  <2> QED
    BY <1>8, <2>3, <2>4, <2>5, <2>6, <2>7
<1>9. ASSUME NEW t \in Threads, ReceiveReady(t) PROVE TypeOK'
  <2>1. Sender(t) \in Threads
    BY <1>9, SenderType DEF ReceiveReady
  <2> QED
    BY <1>9, <2>1 DEF ReceiveReady, TypeOK
<1>10. ASSUME NEW t \in Threads, Received(t) PROVE TypeOK'
  <2>1. <<>> \in Seq(Threads)
    BY EmptyQueue
  <2> QED
    BY <1>10, <2>1 DEF Received, TypeOK
<1>11. ASSUME NEW c \in Cpus, NEW t \in Threads \cup {idle}, Schedule(c, t) PROVE TypeOK'
  <2>1. <<>> \in Seq(Threads)
    BY EmptyQueue
  <2>2. ready' \subseteq Threads
    <3>1. PICK next \in FindNext((ready \cap On(c)) \cup Requeued(c)) :
              ready' = (ready \ On(c)) \cup next.ready \cup ({current[c]} \ {t, idle})
      BY <1>11 DEF Schedule
    <3>2. next.ready \subseteq Threads
      BY <3>1 DEF FindNext, Requeued, TypeOK
    <3> QED
      BY <3>1, <3>2 DEF TypeOK
  <2> QED
    BY <1>11, <2>1, <2>2 DEF Schedule, TypeOK
<1>12. CASE UNCHANGED vars
  BY <1>12 DEF vars, TypeOK
<1> QED
  BY <1>1, <1>2, <1>3, <1>4, <1>5, <1>6, <1>7, <1>8, <1>9, <1>10, <1>11, <1>12 DEF Next, Kernel

\* A thread that looks for its sender or sends to its receiver has one.
LEMMA DistantStep ==
    ASSUME TypeOK, Distant, [Next]_vars
    PROVE  Distant'
<1> USE DEF tcbs, sched, At, GoTo, Unlock, SwitchToIdle
<1>1. ASSUME NEW t \in Threads, NEW i \in Calls[t], Call(t, i) PROVE Distant'
  <2>1. i \in Ipcs /\ {i.to, i.from} # {nilthread}
    BY XIpcAssumption
  <2>2. i.to # nilthread => i.to \in Threads
    BY <2>1 DEF Ipcs
  <2>3. i.to = nilthread => i.from # nilthread
    BY <2>1
  <2> QED
    BY <1>1, <2>2, <2>3 DEF Call, Distant, SendPlaces, TypeOK
<1>2. ASSUME NEW t \in Threads, NEW place,
             GoTo(t, place), pc[t] # "user", UNCHANGED <<send_queue, req, other>>,
             place \in SendPlaces => pc[t] \in SendPlaces,
             place \in {"receive", "select"} =>
                 req[t].from # nilthread \/ pc[t] \in {"receive", "select"},
             place \in {"accept", "activate", "insert"} => pc[t] \in {"accept", "activate", "insert"}
      PROVE  Distant'
  BY <1>2 DEF Distant, TypeOK
<1>3. ASSUME NEW t \in Threads,
             Send(t) \/ LockReceiver(t) \/ SendReady(t) \/ SendZeroTimeout(t) \/ Block(t)
             \/ Sent(t) \/ LockSelf(t) \/ ReceiveZeroTimeout(t) \/ ReceiveBlocked(t) \/ Accept(t)
             \/ Received(t) \/ Activate(t) \/ Insert(t)
      PROVE  Distant'
  <2>1. CASE Send(t)
    BY <1>2, <2>1 DEF Send, SendPlaces
  <2>2. CASE LockReceiver(t)
    BY <1>2, <2>2 DEF LockReceiver, SendPlaces
  <2>3. CASE SendReady(t)
    BY <1>2, <2>3 DEF SendReady, SendPlaces
  <2>4. CASE SendZeroTimeout(t)
    BY <1>2, <2>4 DEF SendZeroTimeout, SendPlaces
  <2>5. CASE Block(t)
    BY <1>2, <2>5 DEF Block, SendPlaces
  <2>6. CASE Sent(t)
    BY <1>2, <2>6 DEF Sent, SendPlaces
  <2>7. CASE LockSelf(t)
    BY <1>2, <2>7 DEF LockSelf, SendPlaces
  <2>8. CASE ReceiveZeroTimeout(t)
    BY <1>2, <2>8 DEF ReceiveZeroTimeout, SendPlaces
  <2>9. CASE ReceiveBlocked(t)
    BY <1>2, <2>9 DEF ReceiveBlocked, SendPlaces
  <2>10. CASE Accept(t)
    BY <1>2, <2>10 DEF Accept, SendPlaces
  <2>11. CASE Received(t)
    BY <1>2, <2>11 DEF Received, SendPlaces
  <2>12. CASE Activate(t)
    BY <1>2, <2>12 DEF Activate, SendPlaces, Activated
  <2>13. CASE Insert(t)
    BY <1>2, <2>13 DEF Insert, SendPlaces, Activated
  <2> QED
    BY <1>3, <2>1, <2>2, <2>3, <2>4, <2>5, <2>6, <2>7, <2>8, <2>9, <2>10, <2>11, <2>12, <2>13
<1>4. ASSUME NEW t \in Threads, SendBlocked(t) PROVE Distant'
  <2> DEFINE r == req[t].to
  <2>1. r \in Threads /\ Home[r] # Home[t]
    BY <1>4, ReceiverType DEF SendPlaces, SendBlocked
  <2>2. \A s : InList(Append(send_queue[r], t), s) <=> InList(send_queue[r], s) \/ s = t
    BY <2>1, AppendMembers DEF TypeOK
  <2>3. \A u \in Threads : \A s : InList(send_queue'[u], s) => Home[s] # Home[u]
    BY <1>4, <2>1, <2>2 DEF SendBlocked, EnqueueTail, Distant, TypeOK
  <2> QED
    BY <1>4, <2>3 DEF SendBlocked, Distant, SendPlaces, TypeOK
<1>5. ASSUME NEW t \in Threads, SendResume(t) PROVE Distant'
  <2> DEFINE r == req[t].to
  <2>1. r \in Threads
    BY <1>5, ReceiverType DEF SendPlaces, SendResume
  <2>2. \A s : InList(Without(send_queue[r], t), s) => InList(send_queue[r], s)
    BY <2>1, WithoutMembers DEF TypeOK
  <2>3. \A u \in Threads : \A s : InList(send_queue'[u], s) => Home[s] # Home[u]
    BY <1>5, <2>1, <2>2 DEF SendResume, Distant, TypeOK
  <2> QED
    BY <1>5, <2>3 DEF SendResume, Distant, SendPlaces, TypeOK
<1>6. ASSUME NEW t \in Threads, Transfer(t) PROVE Distant'
  <2>1. req[t].to \in Threads /\ Home[req[t].to] # Home[t]
    BY <1>6, ReceiverType DEF SendPlaces, Transfer
  <2> QED
    BY <1>6, <2>1 DEF Transfer, Distant, SendPlaces, TypeOK
<1>7. ASSUME NEW t \in Threads, ReceiveReady(t) PROVE Distant'
  <2>1. Home[Sender(t)] # Home[t]
    BY <1>7, SenderType DEF ReceiveReady
  <2> QED
    BY <1>7, <2>1 DEF ReceiveReady, Distant, SendPlaces, TypeOK
<1>8. ASSUME NEW c \in Cpus, NEW t \in Threads \cup {idle}, Schedule(c, t) PROVE Distant'
  BY <1>8 DEF Schedule, Distant
<1>9. CASE UNCHANGED vars
  BY <1>9 DEF vars, Distant
<1> QED
  BY <1>1, <1>3, <1>4, <1>5, <1>6, <1>7, <1>8, <1>9 DEF Next, Kernel

-----------------------------------------------------------------------------
(* Processors and locks                                                     *)

\* A kernel entry is not interrupted.
LEMMA InKernelStep ==
    ASSUME TypeOK, InKernel, [Next]_vars
    PROVE  InKernel'
<1> USE DEF At, GoTo
<1>1. ASSUME NEW t \in Threads, NEW place, GoTo(t, place), current[Home[t]] = t,
             \/ UNCHANGED current
             \/ place \in {"resumed", "received"} /\ SwitchToIdle(t)
                /\ pc[t] \notin {"user", "resumed", "received"}
      PROVE  InKernel'
  BY ZenonT(40), <1>1, XIpcAssumption DEF InKernel, TypeOK, SwitchToIdle
<1>2. ASSUME NEW t \in Threads, NEW i \in Calls[t], Call(t, i) PROVE InKernel'
  BY <1>1, <1>2 DEF Call, sched
<1>3. ASSUME NEW t \in Threads, Kernel(t) PROVE InKernel'
  <2>1. CASE Send(t)
    BY <1>1, <2>1 DEF Send, sched
  <2>2. CASE LockReceiver(t)
    BY <1>1, <2>2 DEF LockReceiver, sched
  <2>3. CASE SendReady(t)
    BY <1>1, <2>3 DEF SendReady, sched
  <2>4. CASE SendZeroTimeout(t)
    BY <1>1, <2>4 DEF SendZeroTimeout, sched
  <2>5. CASE SendBlocked(t)
    BY <1>1, <2>5 DEF SendBlocked, sched
  <2>6. CASE Block(t)
    BY <1>1, <2>6 DEF Block
  <2>7. CASE SendResume(t)
    BY <1>1, <2>7 DEF SendResume, sched
  <2>8. CASE Transfer(t)
    BY <1>1, <2>8 DEF Transfer, sched
  <2>9. CASE Activate(t)
    BY <1>1, <2>9 DEF Activate, Activated
  <2>10. CASE Insert(t)
    BY <1>1, <2>10 DEF Insert, Activated
  <2>11. CASE Sent(t)
    BY <1>1, <2>11 DEF Sent, sched
  <2>12. CASE LockSelf(t)
    BY <1>1, <2>12 DEF LockSelf, sched
  <2>13. CASE ReceiveZeroTimeout(t)
    BY <1>1, <2>13 DEF ReceiveZeroTimeout, sched
  <2>14. CASE ReceiveBlocked(t)
    BY <1>1, <2>14 DEF ReceiveBlocked
  <2>15. CASE ReceiveReady(t)
    BY <1>1, <2>15 DEF ReceiveReady, sched
  <2>16. CASE Accept(t)
    BY <1>1, <2>16 DEF Accept, sched
  <2>17. CASE Received(t)
    BY <1>1, <2>17 DEF Received, sched
  <2> QED
    BY <1>3, <2>1, <2>2, <2>3, <2>4, <2>5, <2>6, <2>7, <2>8, <2>9, <2>10, <2>11, <2>12, <2>13,
       <2>14, <2>15, <2>16, <2>17 DEF Kernel
<1>4. ASSUME NEW c \in Cpus, NEW t \in Threads \cup {idle}, Schedule(c, t) PROVE InKernel'
  BY <1>4, XIpcAssumption DEF Schedule, InKernel, TypeOK
<1>5. CASE UNCHANGED vars
  BY <1>5 DEF vars, sched, InKernel
<1> QED
  BY <1>2, <1>3, <1>4, <1>5 DEF Next

\* Locks are released where they are taken.
LEMMA OwnLockStep ==
    ASSUME TypeOK, Distant, OwnLock, [Next]_vars
    PROVE  OwnLock'
<1> USE DEF At, GoTo
<1>1. ASSUME NEW t \in Threads, NEW place, GoTo(t, place),
             \A u \in Threads : u # t /\ tcb_lock'[u] = u => tcb_lock[u] = u,
             tcb_lock'[t] = t =>
                 \/ place \in {"select", "accept", "activate", "insert"}
                 \/ tcb_lock[t] = t /\ pc[t] \notin {"select", "accept", "activate", "insert"}
      PROVE  OwnLock'
  BY <1>1 DEF OwnLock, TypeOK
<1>2. ASSUME NEW t \in Threads, NEW i \in Calls[t], Call(t, i) PROVE OwnLock'
  BY <1>1, <1>2 DEF Call, tcbs
<1>4. ASSUME NEW t \in Threads, Activated(t) PROVE OwnLock'
  <2>1. null \notin Threads
    BY XIpcAssumption
  <2>2. CASE tcb_lock[t] = t
    <3>1. GoTo(t, "received") /\ tcb_lock' = [tcb_lock EXCEPT ![t] = null]
      BY <1>4, <2>2 DEF Activated, Unlock
    <3>2. tcb_lock'[t] # t
      BY <2>1, <3>1 DEF TypeOK
    <3>3. \A u \in Threads : u # t /\ tcb_lock'[u] = u => tcb_lock[u] = u
      BY <3>1 DEF TypeOK
    <3> QED
      BY <1>1, <3>1, <3>2, <3>3
  <2>3. CASE tcb_lock[t] # t
    <3>1. GoTo(t, "sent") /\ tcb_lock' = [tcb_lock EXCEPT ![other[t]] = null]
      BY <1>4, <2>3 DEF Activated, Unlock
    <3>2. \A u \in Threads : tcb_lock'[u] = u => tcb_lock[u] = u
      BY <2>1, <3>1 DEF TypeOK
    <3> QED
      BY <1>1, <2>3, <3>1, <3>2
  <2> QED
    BY <2>2, <2>3
<1>3. ASSUME NEW t \in Threads, Kernel(t) PROVE OwnLock'
  <2>1. CASE Send(t)
    BY <1>1, <2>1 DEF Send
  <2>2. CASE LockReceiver(t)
    <3>1. req[t].to \in Threads /\ req[t].to # t
      BY <2>2, ReceiverType DEF LockReceiver, SendPlaces
    <3> QED
      BY <1>1, <2>2, <3>1 DEF LockReceiver, TypeOK
  <2>3. CASE SendReady(t)
    BY <1>1, <2>3 DEF SendReady, tcbs
  <2>4. CASE SendZeroTimeout(t)
    BY <1>1, <2>4, XIpcAssumption DEF SendZeroTimeout, Unlock, TypeOK
  <2>5. CASE SendBlocked(t)
    BY <1>1, <2>5, XIpcAssumption DEF SendBlocked, Unlock, TypeOK
  <2>6. CASE Block(t)
    BY <1>1, <2>6 DEF Block
  <2>7. CASE SendResume(t)
    <3>1. req[t].to \in Threads /\ req[t].to # t
      BY <2>7, ReceiverType DEF SendResume, SendPlaces
    <3> QED
      BY <1>1, <2>7, <3>1 DEF SendResume, TypeOK
  <2>8. CASE Transfer(t)
    BY <1>1, <2>8 DEF Transfer
  <2>9. CASE Activate(t)
    <3>1. CASE Linked(other[t])
      BY <1>4, <2>9, <3>1 DEF Activate
    <3>2. CASE ~Linked(other[t])
      BY <1>1, <2>9, <3>2 DEF Activate
    <3> QED
      BY <3>1, <3>2
  <2>10. CASE Insert(t)
    BY <1>4, <2>10 DEF Insert
  <2>11. CASE Sent(t)
    BY <1>1, <2>11 DEF Sent
  <2>12. CASE LockSelf(t)
    BY <1>1, <2>12 DEF LockSelf, TypeOK
  <2>13. CASE ReceiveZeroTimeout(t)
    BY ZenonT(40), <1>1, <2>13, XIpcAssumption DEF ReceiveZeroTimeout, Unlock, TypeOK
  <2>14. CASE ReceiveBlocked(t)
    BY ZenonT(40), <1>1, <2>14, XIpcAssumption DEF ReceiveBlocked, Unlock, TypeOK
  <2>15. CASE ReceiveReady(t)
    BY <1>1, <2>15 DEF ReceiveReady, tcbs
  <2>16. CASE Accept(t)
    BY <1>1, <2>16 DEF Accept
  <2>17. CASE Received(t)
    BY <1>1, <2>17 DEF Received
  <2> QED
    BY <1>3, <2>1, <2>2, <2>3, <2>4, <2>5, <2>6, <2>7, <2>8, <2>9, <2>10, <2>11, <2>12, <2>13,
       <2>14, <2>15, <2>16, <2>17 DEF Kernel
<1>5. ASSUME NEW c \in Cpus, NEW t \in Threads \cup {idle}, Schedule(c, t) PROVE OwnLock'
  BY <1>5 DEF Schedule, OwnLock, tcbs
<1>6. CASE UNCHANGED vars
  BY <1>6 DEF vars, tcbs, OwnLock
<1> QED
  BY <1>2, <1>3, <1>5, <1>6 DEF Next

-----------------------------------------------------------------------------
(* Activations                                                              *)

\* The steps of IPC that leave the activations of others alone.
Elsewhere(t) ==
    \/ Send(t) \/ LockReceiver(t) \/ SendReady(t) \/ SendZeroTimeout(t) \/ SendBlocked(t)
    \/ SendResume(t) \/ Sent(t) \/ LockSelf(t) \/ ReceiveZeroTimeout(t) \/ ReceiveReady(t)
    \/ Received(t) \/ \E i \in Calls[t] : Call(t, i)

\* What such a step does: only the state, the place and the partner of the thread itself
\* change, and it does not become ready to give its processor up.
LEMMA ElsewhereStep ==
    ASSUME TypeOK, NEW t \in Threads, Elsewhere(t)
    PROVE  /\ current[Home[t]] = t /\ UNCHANGED sched
           /\ pc[t] \notin {"activate", "insert"} /\ pc'[t] \notin {"activate", "insert"}
           /\ \A u \in Threads : u # t =>
                  /\ state'[u] = state[u] /\ pc'[u] = pc[u] /\ other'[u] = other[u]
                  /\ tcb_lock'[u] = u => tcb_lock[u] = u
<1> USE DEF TypeOK, At, GoTo
<1>1. CASE Send(t)
  BY <1>1 DEF Send
<1>2. CASE LockReceiver(t)
  BY <1>2 DEF LockReceiver
<1>3. CASE SendReady(t)
  BY <1>3 DEF SendReady, tcbs
<1>4. CASE SendZeroTimeout(t)
  BY <1>4, XIpcAssumption DEF SendZeroTimeout, Unlock
<1>5. CASE SendBlocked(t)
  BY <1>5, XIpcAssumption DEF SendBlocked, Unlock
<1>6. CASE SendResume(t)
  BY <1>6 DEF SendResume
<1>7. CASE Sent(t)
  BY <1>7 DEF Sent
<1>8. CASE LockSelf(t)
  BY <1>8 DEF LockSelf
<1>9. CASE ReceiveZeroTimeout(t)
  BY <1>9, XIpcAssumption DEF ReceiveZeroTimeout, Unlock
<1>10. CASE ReceiveReady(t)
  BY <1>10 DEF ReceiveReady, tcbs
<1>11. CASE Received(t)
  BY <1>11 DEF Received
<1>12. ASSUME NEW i \in Calls[t], Call(t, i)
       PROVE  /\ current[Home[t]] = t /\ UNCHANGED sched
              /\ pc[t] \notin {"activate", "insert"} /\ pc'[t] \notin {"activate", "insert"}
              /\ \A u \in Threads : u # t =>
                     /\ state'[u] = state[u] /\ pc'[u] = pc[u] /\ other'[u] = other[u]
                     /\ tcb_lock'[u] = u => tcb_lock[u] = u
  BY <1>12 DEF Call, tcbs
<1> QED
  BY <1>1, <1>2, <1>3, <1>4, <1>5, <1>6, <1>7, <1>8, <1>9, <1>10, <1>11, <1>12 DEF Elsewhere

\* A step of a kernel entry that is not elsewhere.
LEMMA KernelSplit ==
    ASSUME NEW t \in Threads, Kernel(t)
    PROVE  Elsewhere(t) \/ Block(t) \/ ReceiveBlocked(t) \/ Transfer(t) \/ Accept(t)
           \/ Activate(t) \/ Insert(t)
BY DEF Kernel, Elsewhere

\* A thread that has been put into the list of its processor or is about to be stays so.
LEMMA KnownStep ==
    ASSUME TypeOK, NEW t \in Threads, Kernel(t) \/ Elsewhere(t), NEW u \in Threads, Known(u)
    PROVE  Known(u)'
<1> USE DEF At, GoTo
<1>1. Elsewhere(t) \/ Block(t) \/ ReceiveBlocked(t) \/ Transfer(t) \/ Accept(t)
      \/ Activate(t) \/ Insert(t)
  BY KernelSplit
<1>2. ASSUME requeue' = requeue, pc[t] \notin {"activate", "insert"},
             \A s \in Threads \ {t} : pc'[s] = pc[s] /\ other'[s] = other[s]
      PROVE  Known(u)'
  BY <1>2 DEF Known, Activating
<1>3. CASE Elsewhere(t)
  BY <1>2, <1>3, ElsewhereStep DEF sched
<1>4. CASE Block(t)
  BY <1>2, <1>4 DEF Block, TypeOK
<1>5. CASE ReceiveBlocked(t)
  BY <1>2, <1>5 DEF ReceiveBlocked, TypeOK
<1>6. CASE Transfer(t)
  BY <1>2, <1>6 DEF Transfer, TypeOK, sched
<1>7. CASE Accept(t)
  BY <1>2, <1>7 DEF Accept, TypeOK, sched
<1>8. CASE Activate(t)
  <2>1. requeue' = requeue /\ other' = other
        /\ \A s \in Threads \ {t} : pc'[s] = pc[s]
    BY <1>8 DEF Activate, Activated, TypeOK
  <2>2. CASE Linked(other[t])
    <3>1. InList(requeue[Home[other[t]]], other[t])
      BY <2>2 DEF Linked, InList
    <3> QED
      BY <2>1, <3>1 DEF Known, Activating
  <2>3. CASE ~Linked(other[t])
    <3>1. pc'[t] = "insert"
      BY <1>8, <2>3 DEF Activate, TypeOK
    <3> QED
      BY <2>1, <3>1 DEF Known, Activating
  <2> QED
    BY <2>2, <2>3
<1>9. CASE Insert(t)
  <2> DEFINE c == Home[other[t]]
  <2>1. other[t] \in Threads /\ c \in Cpus /\ requeue[c] \in Seq(Threads)
    BY XIpcAssumption DEF TypeOK
  <2>2. /\ requeue' = [requeue EXCEPT ![c] = EnqueueHead(requeue[c], other[t])]
        /\ other' = other /\ \A s \in Threads \ {t} : pc'[s] = pc[s]
    BY <1>9 DEF Insert, Activated, TypeOK
  <2>3. \A w : InList(EnqueueHead(requeue[c], other[t]), w) <=> InList(requeue[c], w) \/ w = other[t]
    <3> HIDE DEF c
    <3> QED
      BY <2>1, HeadMembers
  <2>4. /\ InList(requeue'[c], other[t])
        /\ \A d \in Cpus : \A w : InList(requeue[d], w) => InList(requeue'[d], w)
    BY <2>1, <2>2, <2>3 DEF TypeOK
  <2>5. Home[u] \in Cpus
    BY XIpcAssumption
  <2> QED
    BY <2>2, <2>4, <2>5 DEF Known, Activating
<1> QED
  BY <1>1, <1>3, <1>4, <1>5, <1>6, <1>7, <1>8, <1>9

\* What Transfer and Accept do to the other thread.
LEMMA TellStep ==
    ASSUME TypeOK, Distant, NEW t \in Threads, Transfer(t) \/ Accept(t)
    PROVE  \E r \in Threads \ {t} :
               /\ Activating(t, r)'
               /\ \A u \in Threads \ {t, r} : state'[u] = state[u]
               /\ state'[t] = IF Transfer(t) THEN state[t] ELSE "locked_waiting"
<1> USE DEF At, GoTo
<1>1. CASE Transfer(t)
  <2>1. req[t].to \in Threads /\ req[t].to # t
    BY <1>1, ReceiverType DEF Transfer, SendPlaces
  <2> QED
    BY <1>1, <2>1 DEF Transfer, Activating, TypeOK
<1>2. CASE Accept(t) /\ ~Transfer(t)
  <2>1. other[t] \in Threads /\ other[t] # t
    BY <1>2 DEF Accept, Distant, TypeOK
  <2> QED
    BY <1>2, <2>1 DEF Accept, Activating, TypeOK
<1> QED
  BY <1>1, <1>2

\* A thread that parts from its processor is known to it.
LEMMA PartingStep ==
    ASSUME TypeOK, Distant, InKernel, OwnLock, Parting, [Next]_vars
    PROVE  Parting'
<1> USE DEF At, GoTo
<1>1. ASSUME NEW t \in Threads, Elsewhere(t) PROVE Parting'
  <2> SUFFICES ASSUME NEW u \in Threads, pc'[u] \in {"activate", "insert"}, tcb_lock'[u] = u,
                      Runnable(state'[u])
               PROVE  Known(u)'
    BY DEF Parting
  <2>1. u # t /\ pc[u] \in {"activate", "insert"} /\ tcb_lock[u] = u /\ state'[u] = state[u]
    BY <1>1, ElsewhereStep
  <2> QED
    BY <1>1, <2>1, KnownStep DEF Parting
<1>2. ASSUME NEW t \in Threads, Kernel(t), ~Elsewhere(t) PROVE Parting'
  <2> SUFFICES ASSUME NEW u \in Threads, pc'[u] \in {"activate", "insert"}, tcb_lock'[u] = u,
                      Runnable(state'[u])
               PROVE  Known(u)'
    BY DEF Parting
  <2> DEFINE Before == pc[u] \in {"activate", "insert"} /\ tcb_lock[u] = u /\ state'[u] = state[u]
  <2>1. ASSUME Before PROVE Known(u)'
    BY <1>2, <2>1, KnownStep DEF Parting
  <2>2. CASE Block(t)
    BY <2>1, <2>2 DEF Block, TypeOK
  <2>3. CASE ReceiveBlocked(t)
    BY <2>1, <2>3, XIpcAssumption DEF ReceiveBlocked, Unlock, TypeOK
  <2>4. CASE Transfer(t) \/ Accept(t)
    <3>1. PICK r \in Threads \ {t} :
              /\ Activating(t, r)'
              /\ \A w \in Threads \ {t, r} : state'[w] = state[w]
              /\ state'[t] = IF Transfer(t) THEN state[t] ELSE "locked_waiting"
      BY <2>4, TellStep
    <3>2. tcb_lock' = tcb_lock /\ \A w \in Threads \ {t} : pc'[w] = pc[w]
      BY <2>4 DEF Transfer, Accept, sched, TypeOK
    <3>3. u # t
      <4>1. CASE Transfer(t)
        BY <4>1, <3>2 DEF Transfer, OwnLock
      <4>2. CASE ~Transfer(t)
        BY <4>2, <3>1 DEF Runnable
      <4> QED
        BY <4>1, <4>2
    <3>4. CASE u = r
      BY <3>1, <3>4 DEF Known
    <3>5. CASE u # r
      BY <2>1, <3>1, <3>2, <3>3, <3>5
    <3> QED
      BY <3>4, <3>5
  <2>5. ASSUME Activated(t) PROVE \A w \in Threads : tcb_lock'[w] = w => tcb_lock[w] = w
    BY <2>5, XIpcAssumption DEF Activated, Unlock, TypeOK
  <2>6. CASE Activate(t)
    <3>1. state' = state
      BY <2>6 DEF Activate
    <3>2. tcb_lock[u] = u
      BY <2>5, <2>6 DEF Activate
    <3>3. pc[u] \in {"activate", "insert"}
      BY <2>6 DEF Activate, Activated, TypeOK
    <3> QED
      BY <2>1, <3>1, <3>2, <3>3
  <2>7. CASE Insert(t)
    <3>1. state' = state /\ tcb_lock[u] = u
      BY <2>5, <2>7 DEF Insert
    <3>2. pc[u] \in {"activate", "insert"}
      BY <2>7 DEF Insert, Activated, TypeOK
    <3> QED
      BY <2>1, <3>1, <3>2
  <2> QED
    BY <1>2, <2>2, <2>3, <2>4, <2>6, <2>7, KernelSplit
<1>3. ASSUME NEW c \in Cpus, NEW t \in Threads \cup {idle}, Schedule(c, t) PROVE Parting'
  <2> SUFFICES ASSUME NEW u \in Threads, pc'[u] \in {"activate", "insert"}, tcb_lock'[u] = u,
                      Runnable(state'[u])
               PROVE  Known(u)'
    BY DEF Parting
  <2>1. pc' = pc /\ tcb_lock' = tcb_lock /\ state' = state /\ other' = other
    BY <1>3 DEF Schedule, tcbs
  <2>2. Known(u) /\ current[Home[u]] = u
    BY <2>1 DEF Parting, InKernel
  <2>3. c # Home[u]
    BY <1>3, <2>1, <2>2, XIpcAssumption DEF Schedule
  <2>4. requeue'[Home[u]] = requeue[Home[u]]
    BY <1>3, <2>3, XIpcAssumption DEF Schedule, TypeOK
  <2> QED
    BY <2>1, <2>2, <2>4 DEF Known, Activating
<1>4. CASE UNCHANGED vars
  BY <1>4 DEF vars, tcbs, sched, Parting, Known, Activating
<1> QED
  BY <1>1, <1>2, <1>3, <1>4 DEF Next, Elsewhere

\* A thread that can run is found, whatever its own processor and the others do.
LEMMA FoundStep ==
    ASSUME TypeOK, Distant, InKernel, Parting, NoLostActivation, [Next]_vars
    PROVE  NoLostActivation'
<1> USE DEF At, GoTo
<1> DEFINE Where(u) == current[Home[u]] = u \/ u \in ready \/ Known(u)
<1>1. \A u \in Threads : Runnable(state[u]) => Where(u)
  BY DEF NoLostActivation, Known
<1>2. SUFFICES ASSUME NEW u \in Threads, Runnable(state'[u])
               PROVE  Where(u)'
  BY DEF NoLostActivation, Known
<1>3. ASSUME NEW t \in Threads, Elsewhere(t) PROVE Where(u)'
  <2>1. /\ current[Home[t]] = t /\ current' = current /\ ready' = ready
        /\ u # t => state'[u] = state[u]
    BY <1>3, ElsewhereStep DEF sched
  <2>2. CASE u = t
    BY <2>1, <2>2
  <2>3. CASE u # t
    BY <1>1, <1>2, <1>3, <2>1, <2>3, KnownStep
  <2> QED
    BY <2>2, <2>3
<1>4. ASSUME NEW t \in Threads, Kernel(t), ~Elsewhere(t) PROVE Where(u)'
  <2>1. /\ Block(t) \/ ReceiveBlocked(t) \/ Transfer(t) \/ Accept(t) \/ Activate(t) \/ Insert(t)
        /\ current[Home[t]] = t /\ ready' = ready
        /\ current' = current \/ current' = [current EXCEPT ![Home[t]] = idle]
    <3>1. Block(t) \/ ReceiveBlocked(t) \/ Transfer(t) \/ Accept(t) \/ Activate(t) \/ Insert(t)
      BY <1>4, KernelSplit
    <3> QED
      BY <3>1 DEF Block, ReceiveBlocked, Transfer, Accept, Activate, Insert, Activated,
                  SwitchToIdle, sched
  <2>2. ASSUME state'[u] = state[u], u # t PROVE Where(u)'
    <3>1. Where(u)
      BY <1>1, <1>2, <2>2
    <3>2. CASE Known(u)
      BY <1>4, <3>2, KnownStep
    <3>3. CASE current[Home[u]] = u
      BY <2>1, <2>2, <3>3, XIpcAssumption DEF TypeOK
    <3>4. CASE u \in ready
      BY <2>1, <3>4
    <3> QED
      BY <3>1, <3>2, <3>3, <3>4
  <2>3. CASE Block(t) \/ ReceiveBlocked(t)
    <3>1. u # t /\ state'[u] = state[u]
      BY <1>2, <2>3 DEF Block, ReceiveBlocked, Runnable, TypeOK
    <3> QED
      BY <2>2, <3>1
  <2>4. CASE Transfer(t) \/ Accept(t)
    <3>1. PICK r \in Threads \ {t} :
              /\ Activating(t, r)'
              /\ \A w \in Threads \ {t, r} : state'[w] = state[w]
              /\ state'[t] = IF Transfer(t) THEN state[t] ELSE "locked_waiting"
      BY <2>4, TellStep
    <3>2. current' = current
      BY <2>4 DEF Transfer, Accept, sched
    <3>3. CASE u = t
      BY <2>1, <3>2, <3>3
    <3>4. CASE u = r
      BY <3>1, <3>4 DEF Known
    <3>5. CASE u # t /\ u # r
      BY <2>2, <3>1, <3>5
    <3> QED
      BY <3>3, <3>4, <3>5
  <2>5. CASE Activate(t) \/ Insert(t)
    <3>1. state' = state /\ pc[t] \in {"activate", "insert"}
      BY <2>5 DEF Activate, Insert
    <3>2. CASE u # t
      BY <2>2, <3>1, <3>2
    <3>3. CASE u = t /\ tcb_lock[t] = t
      <4>1. Known(t)
        BY <1>2, <3>1, <3>3 DEF Parting
      <4> QED
        BY <1>4, <3>3, <4>1, KnownStep
    <3>4. CASE u = t /\ tcb_lock[t] # t
      <4>1. current' = current
        BY <2>5, <3>4 DEF Activate, Insert, Activated
      <4> QED
        BY <2>1, <3>4, <4>1
    <3> QED
      BY <3>2, <3>3, <3>4
  <2> QED
    BY <2>1, <2>3, <2>4, <2>5
<1>5. ASSUME NEW c \in Cpus, NEW t \in Threads \cup {idle}, Schedule(c, t) PROVE Where(u)'
  <2>1. state' = state /\ pc' = pc /\ other' = other
    BY <1>5 DEF Schedule, tcbs
  <2>2. Where(u) /\ Home[u] \in Cpus
    BY <1>1, <1>2, <2>1, XIpcAssumption
  <2> DEFINE q == (ready \cap On(c)) \cup Requeued(c)
  <2>3. PICK next \in FindNext(q) :
            /\ next.tcb = t
            /\ ready' = (ready \ On(c)) \cup next.ready \cup ({current[c]} \ {t, idle})
    BY <1>5 DEF Schedule
  <2>4. requeue' = [requeue EXCEPT ![c] = <<>>] /\ current' = [current EXCEPT ![c] = t]
    BY <1>5 DEF Schedule
  <2>5. CASE Home[u] # c
    <3>1. requeue'[Home[u]] = requeue[Home[u]] /\ current'[Home[u]] = current[Home[u]]
      BY <2>2, <2>4, <2>5 DEF TypeOK
    <3>2. u \in ready => u \in ready'
      BY <2>3, <2>5 DEF On
    <3> QED
      BY <2>1, <2>2, <3>1, <3>2 DEF Known, Activating
  <2>6. CASE Home[u] = c
    <3>1. CASE \E s \in Threads : Activating(s, u)
      BY <2>1, <3>1 DEF Known, Activating
    <3>2. CASE current[c] = u
      <4>1. u # idle
        BY XIpcAssumption
      <4> QED
        BY <2>2, <2>3, <2>4, <2>6, <3>2, <4>1 DEF TypeOK
    <3>3. CASE u \in q
      <4>1. Runnable(state[u])
        BY <1>2, <2>1
      <4>2. u \in next.ready
        BY <2>3, <3>3, <4>1 DEF FindNext
      <4> QED
        BY <2>3, <4>2
    <3>4. current[c] = u \/ u \in q \/ \E s \in Threads : Activating(s, u)
      BY <1>2, <2>1, <2>2, <2>6 DEF Known, Requeued, On
    <3> QED
      BY <3>1, <3>2, <3>3, <3>4
  <2> QED
    BY <2>5, <2>6
<1>6. CASE UNCHANGED vars
  BY <1>1, <1>2, <1>6 DEF vars, tcbs, sched, Known, Activating
<1> QED
  BY <1>3, <1>4, <1>5, <1>6 DEF Next, Elsewhere

-----------------------------------------------------------------------------
(* One message                                                              *)

\* A receive from a thread by name is the second phase of a call to it.
NamedReceives == \A t \in Threads : \A i \in Calls[t] : i.from \in Threads => i.to = i.from

\* A sender before it unlocks the receiver it has sent to, and a receiver before it
\* unlocks itself.
Delivering(t) == pc[t] \in {"activate", "insert"} /\ tcb_lock[t] # t
Closing(t) == pc[t] \in {"activate", "insert"} /\ tcb_lock[t] = t
Waits(r) == state[r] \in {"waiting", "locked_waiting"}

\* What the state and the partner of a thread are at the places of SYS_IPC.
PlacesOK ==
    \A t \in Threads :
        /\ pc[t] \in {"user", "send", "receive", "select", "accept"} => state[t] = "running"
        /\ pc[t] \in {"lock", "check", "block", "resumed", "transfer", "sent"} \/ Delivering(t) =>
               state[t] \in {"polling", "locked_running"} /\ partner[t] = req[t].to
        /\ Closing(t) => state[t] = "locked_waiting"
        /\ pc[t] = "received" => state[t] \in {"waiting", "locked_waiting", "running"}

\* Whose locks they hold there.
LocksOK ==
    \A t \in Threads :
        /\ pc[t] \in {"check", "transfer"} => tcb_lock[req[t].to] = t
        /\ pc[t] \in {"select", "accept"} => tcb_lock[t] = t
        /\ Delivering(t) => other[t] = req[t].to /\ tcb_lock[other[t]] = t

\* Send queues hold the threads that have blocked, once.
SendersOK ==
    \A r \in Threads :
        /\ Distinct(send_queue[r])
        /\ \A s \in Threads : InList(send_queue[r], s) =>
               pc[s] \in {"block", "resumed"} /\ req[s].to = r

\* A blocked thread gets a processor only if it can run.
ResumedOK ==
    \A t \in Threads :
        pc[t] \in {"resumed", "received"} /\ current[Home[t]] = t => Runnable(state[t])

\* A thread that waits has no message, and is locked for a thread it asked for.
WaitsOK ==
    \A r \in Threads :
        /\ Waits(r) => inbox[r] = <<>> /\ partner[r] = req[r].from
        /\ state[r] = "locked_waiting" => req[r].from \in {anythread, other[r]}

\* A sender that transfers has a receiver that waits for it.
TransferOK ==
    \A t \in Threads :
        pc[t] = "transfer" =>
            LET r == req[t].to
            IN  /\ Receiving(r) /\ Waits(r) /\ req[r].from \in {anythread, t}
                /\ state[r] = "locked_waiting" => other[r] = t

\* A sender that was told to run has a receiver that is locked for it.
TurnOK ==
    \A t \in Threads :
        state[t] = "locked_running" /\ pc[t] \in {"lock", "check", "block", "resumed"} =>
            LET r == req[t].to
            IN  /\ state[r] = "locked_waiting" /\ other[r] = t
                /\ pc[t] \in {"lock", "check"} => req[r].from = t

\* The sender a receiver has found polling has not moved on when it is told to run.
ChosenOK ==
    \A r \in Threads :
        pc[r] = "accept" =>
            LET s == other[r]
            IN  /\ pc[s] \in {"lock", "block", "resumed"} /\ req[s].to = r
                /\ req[r].from \in {anythread, s}
                /\ pc[s] = "lock" => req[r].from = s

\* A thread that has just sent to another one is not called by it: the state of
\* the sender, that still says polling, is not looked at.
Past(s) == pc[s] = "sent" \/ Delivering(s)
CalledOK ==
    \A s, r \in Threads :
        Past(s) /\ req[s].to = r /\ req[r].from = s =>
            ~(Past(r) \/ pc[r] \in {"receive", "select"})

\* The rules that IPC between processors keeps.
Rules == /\ PlacesOK /\ LocksOK /\ SendersOK /\ ResumedOK /\ WaitsOK /\ TransferOK
         /\ TurnOK /\ ChosenOK /\ CalledOK /\ OneMessage

\* The ends of remote_schedule: the thread is about to be inserted, the receiver gives its
\* processor up, and the sender goes on.
Inserts(t) == /\ pc[t] = "activate" /\ GoTo(t, "insert") /\ UNCHANGED <<tcb_lock, current>>
Closes(t) == /\ Closing(t) /\ Unlock(t) /\ SwitchToIdle(t) /\ GoTo(t, "received")
Delivers(t) == /\ Delivering(t) /\ Unlock(other[t]) /\ GoTo(t, "sent") /\ UNCHANGED current
Ends(t) == /\ Inserts(t) \/ Closes(t) \/ Delivers(t)
           /\ current[Home[t]] = t
           /\ UNCHANGED <<state, partner, send_queue, ready, req, other, inbox>>

\* A step of remote_schedule is one of them.
LEMMA EndsStep ==
    ASSUME NEW t \in Threads, Activate(t) \/ Insert(t)
    PROVE  Ends(t)
<1> USE DEF At, Ends, Inserts, Closes, Delivers, Closing, Delivering, Activated
<1>1. CASE Activate(t)
  BY <1>1 DEF Activate
<1>2. CASE Insert(t)
  BY <1>2 DEF Insert
<1> QED
  BY <1>1, <1>2

\* The steps of a thread in the kernel.
LEMMA StepCases ==
    ASSUME NEW t \in Threads, Kernel(t)
    PROVE  \/ Send(t) \/ LockReceiver(t) \/ SendReady(t) \/ SendZeroTimeout(t) \/ SendBlocked(t)
           \/ Block(t) \/ SendResume(t) \/ Transfer(t) \/ Sent(t) \/ LockSelf(t)
           \/ ReceiveZeroTimeout(t) \/ ReceiveBlocked(t) \/ ReceiveReady(t) \/ Accept(t)
           \/ Received(t) \/ Ends(t)
BY EndsStep DEF Kernel

\* A step leaves every thread with a state and a partner that fit its place.
LEMMA PlacesOKStep ==
    ASSUME TypeOK, Distant, InKernel, OwnLock, Rules, NamedReceives, [Next]_vars
    PROVE  PlacesOK'
<1> USE DEF tcbs, sched, At, GoTo, Unlock, SwitchToIdle
<1>0. PlacesOK /\ LocksOK /\ SendersOK /\ ResumedOK /\ WaitsOK /\ TransferOK
      /\ TurnOK /\ ChosenOK /\ CalledOK /\ OneMessage
  BY DEF Rules
<1>1. ASSUME NEW t \in Threads, NEW i \in Calls[t], Call(t, i) PROVE PlacesOK'
  BY <1>0, <1>1 DEF Call, PlacesOK, Delivering, Closing, TypeOK
<1>2. ASSUME NEW t \in Threads, Kernel(t) PROVE PlacesOK'
  <2>1. CASE Send(t)
    <3>1. req[t].to \in Threads /\ req[t].to # t
      BY <2>1, ReceiverType DEF Send, SendPlaces
    <3> QED
      BY <1>0, <2>1, <3>1 DEF Send, PlacesOK, Delivering, Closing, TypeOK
  <2>2. CASE LockReceiver(t)
    <3>1. req[t].to \in Threads /\ req[t].to # t
      BY <2>2, ReceiverType DEF LockReceiver, SendPlaces
    <3> QED
      BY <1>0, <2>2, <3>1, XIpcAssumption DEF LockReceiver, PlacesOK, Delivering, Closing, TypeOK
  <2>3. CASE SendReady(t)
    <3>1. req[t].to \in Threads /\ req[t].to # t
      BY <2>3, ReceiverType DEF SendReady, SendPlaces
    <3> QED
      BY <1>0, <2>3, <3>1 DEF SendReady, PlacesOK, Delivering, Closing, TypeOK
  <2>4. CASE SendZeroTimeout(t)
    <3>1. req[t].to \in Threads /\ req[t].to # t
      BY <2>4, ReceiverType DEF SendZeroTimeout, SendPlaces
    <3> QED
      BY <1>0, <2>4, <3>1, XIpcAssumption
         DEF SendZeroTimeout, PlacesOK, Delivering, Closing, LocksOK, TypeOK
  <2>5. CASE SendBlocked(t)
    <3>1. req[t].to \in Threads /\ req[t].to # t
      BY <2>5, ReceiverType DEF SendBlocked, SendPlaces
    <3> QED
      BY <1>0, <2>5, <3>1, XIpcAssumption
         DEF SendBlocked, PlacesOK, Delivering, Closing, LocksOK, TypeOK
  <2>6. CASE Block(t)
    <3>1. req[t].to \in Threads /\ req[t].to # t
      BY <2>6, ReceiverType DEF Block, SendPlaces
    <3> QED
      BY <1>0, <2>6, <3>1 DEF Block, PlacesOK, Delivering, Closing, TypeOK
  <2>7. CASE SendResume(t)
    <3>1. req[t].to \in Threads /\ req[t].to # t
      BY <2>7, ReceiverType DEF SendResume, SendPlaces
    <3> QED
      BY <1>0, <2>7, <3>1, XIpcAssumption DEF SendResume, PlacesOK, Delivering, Closing, TypeOK
  <2>8. CASE Transfer(t)
    <3>1. req[t].to \in Threads /\ req[t].to # t
      BY <2>8, ReceiverType DEF Transfer, SendPlaces
    <3> QED
      BY <1>0, <2>8, <3>1
         DEF Transfer, PlacesOK, Delivering, Closing, TransferOK, Receiving, Waits, OwnLock, TypeOK
  <2>9. CASE Sent(t)
    BY <1>0, <2>9 DEF Sent, PlacesOK, Delivering, Closing, TypeOK
  <2>10. CASE LockSelf(t)
    BY <1>0, <2>10 DEF LockSelf, PlacesOK, Delivering, Closing, TypeOK
  <2>11. CASE ReceiveZeroTimeout(t)
    BY <1>0, <2>11 DEF ReceiveZeroTimeout, PlacesOK, Delivering, Closing, TypeOK
  <2>12. CASE ReceiveBlocked(t)
    BY <1>0, <2>12 DEF ReceiveBlocked, PlacesOK, Delivering, Closing, TypeOK
  <2>13. CASE ReceiveReady(t)
    <3>1. Sender(t) \in Threads /\ Sender(t) # t
      BY <2>13, SenderType DEF ReceiveReady
    <3> QED
      BY <1>0, <2>13, <3>1 DEF ReceiveReady, PlacesOK, Delivering, Closing, TypeOK
  <2>14. CASE Accept(t)
    <3>1. other[t] \in Threads /\ other[t] # t
      BY <2>14 DEF Accept, Distant, TypeOK
    <3> DEFINE s == other[t]
    <3>2. pc[t] = "accept" /\ pc[s] \in {"lock", "block", "resumed"} /\ tcb_lock[t] = t
      BY <1>0, <2>14 DEF Accept, ChosenOK, LocksOK
    <3>3. /\ pc'[t] = "activate" /\ state'[t] = "locked_waiting" /\ state'[s] = "locked_running"
          /\ tcb_lock' = tcb_lock /\ req' = req
          /\ \A u \in Threads \ {t} : pc'[u] = pc[u] /\ partner'[u] = partner[u]
          /\ \A u \in Threads \ {t, s} : state'[u] = state[u]
      BY <2>14, <3>1 DEF Accept, TypeOK
    <3> QED
      BY <1>0, <3>1, <3>2, <3>3 DEF PlacesOK, Delivering, Closing
  <2>15. CASE Received(t)
    BY <1>0, <2>15 DEF Received, PlacesOK, Delivering, Closing, TypeOK
  <2>16. CASE Ends(t)
    <3>1. CASE Inserts(t)
      BY <1>0, <2>16, <3>1 DEF Ends, Inserts, PlacesOK, Delivering, Closing, TypeOK
    <3>2. CASE Closes(t)
      BY <1>0, <2>16, <3>2, XIpcAssumption DEF Ends, Closes, PlacesOK, Delivering, Closing, TypeOK
    <3>3. CASE Delivers(t)
      BY <1>0, <2>16, <3>3, XIpcAssumption
         DEF Ends, Delivers, PlacesOK, Delivering, Closing, LocksOK, TypeOK
    <3> QED
      BY <2>16, <3>1, <3>2, <3>3 DEF Ends
  <2> QED
    BY <1>2, StepCases, <2>1, <2>2, <2>3, <2>4, <2>5, <2>6, <2>7, <2>8, <2>9, <2>10, <2>11, <2>12,
       <2>13, <2>14, <2>15, <2>16
<1>3. ASSUME NEW c \in Cpus, NEW t \in Threads \cup {idle}, Schedule(c, t) PROVE PlacesOK'
  BY <1>0, <1>3 DEF Schedule, PlacesOK, Delivering, Closing, TypeOK
<1>4. CASE UNCHANGED vars
  BY <1>0, <1>4 DEF vars, PlacesOK, Delivering, Closing
<1> QED
  BY <1>1, <1>2, <1>3, <1>4 DEF Next

\* A step leaves the locks where SYS_IPC holds them.
LEMMA LocksOKStep ==
    ASSUME TypeOK, Distant, InKernel, OwnLock, Rules, NamedReceives, [Next]_vars
    PROVE  LocksOK'
<1> USE DEF tcbs, sched, At, GoTo, Unlock, SwitchToIdle
<1>0. PlacesOK /\ LocksOK /\ SendersOK /\ ResumedOK /\ WaitsOK /\ TransferOK
      /\ TurnOK /\ ChosenOK /\ CalledOK /\ OneMessage
  BY DEF Rules
<1>a. \A u \in Threads : pc[u] \in {"check", "transfer"} => req[u].to \in Threads
  BY DEF Distant, SendPlaces
<1>1. ASSUME NEW t \in Threads, NEW i \in Calls[t], Call(t, i) PROVE LocksOK'
  BY <1>0, <1>1 DEF Call, LocksOK, Delivering, TypeOK
<1>2. ASSUME NEW t \in Threads, Kernel(t) PROVE LocksOK'
  <2>1. CASE Send(t)
    <3>1. req[t].to \in Threads /\ req[t].to # t
      BY <2>1, ReceiverType DEF Send, SendPlaces
    <3> QED
      BY <1>0, <2>1, <3>1 DEF Send, LocksOK, Delivering, TypeOK
  <2>2. CASE LockReceiver(t)
    <3>1. req[t].to \in Threads /\ req[t].to # t
      BY <2>2, ReceiverType DEF LockReceiver, SendPlaces
    <3> QED
      BY <1>0, <2>2, <3>1, <1>a, XIpcAssumption DEF LockReceiver, LocksOK, Delivering, TypeOK
  <2>3. CASE SendReady(t)
    <3>1. req[t].to \in Threads /\ req[t].to # t
      BY <2>3, ReceiverType DEF SendReady, SendPlaces
    <3> QED
      BY <1>0, <2>3, <3>1 DEF SendReady, LocksOK, Delivering, TypeOK
  <2>4. CASE SendZeroTimeout(t)
    <3>1. req[t].to \in Threads /\ req[t].to # t
      BY <2>4, ReceiverType DEF SendZeroTimeout, SendPlaces
    <3> QED
      BY <1>0, <2>4, <3>1 DEF SendZeroTimeout, LocksOK, Delivering, TypeOK
  <2>5. CASE SendBlocked(t)
    <3>1. req[t].to \in Threads /\ req[t].to # t
      BY <2>5, ReceiverType DEF SendBlocked, SendPlaces
    <3> QED
      BY <1>0, <2>5, <3>1 DEF SendBlocked, LocksOK, Delivering, TypeOK
  <2>6. CASE Block(t)
    <3>1. req[t].to \in Threads /\ req[t].to # t
      BY <2>6, ReceiverType DEF Block, SendPlaces
    <3> QED
      BY <1>0, <2>6, <3>1 DEF Block, LocksOK, Delivering, TypeOK
  <2>7. CASE SendResume(t)
    <3>1. req[t].to \in Threads /\ req[t].to # t
      BY <2>7, ReceiverType DEF SendResume, SendPlaces
    <3> QED
      BY <1>0, <2>7, <3>1, XIpcAssumption DEF SendResume, LocksOK, Delivering, TypeOK
  <2>8. CASE Transfer(t)
    <3>1. req[t].to \in Threads /\ req[t].to # t
      BY <2>8, ReceiverType DEF Transfer, SendPlaces
    <3> QED
      BY <1>0, <2>8, <3>1 DEF Transfer, LocksOK, Delivering, TypeOK
  <2>9. CASE Sent(t)
    BY <1>0, <2>9 DEF Sent, LocksOK, Delivering, TypeOK
  <2>10. CASE LockSelf(t)
    BY <1>0, <2>10, XIpcAssumption DEF LockSelf, LocksOK, Delivering, TypeOK
  <2>11. CASE ReceiveZeroTimeout(t)
    BY <1>0, <2>11 DEF ReceiveZeroTimeout, LocksOK, Delivering, TypeOK
  <2>12. CASE ReceiveBlocked(t)
    BY <1>0, <2>12 DEF ReceiveBlocked, LocksOK, Delivering, TypeOK
  <2>13. CASE ReceiveReady(t)
    <3>1. Sender(t) \in Threads /\ Sender(t) # t
      BY <2>13, SenderType DEF ReceiveReady
    <3> QED
      BY <1>0, <2>13, <3>1 DEF ReceiveReady, LocksOK, Delivering, TypeOK
  <2>14. CASE Accept(t)
    <3>1. other[t] \in Threads /\ other[t] # t
      BY <2>14 DEF Accept, Distant, TypeOK
    <3> QED
      BY <1>0, <2>14, <3>1 DEF Accept, LocksOK, Delivering, TypeOK
  <2>15. CASE Received(t)
    BY <1>0, <2>15 DEF Received, LocksOK, Delivering, TypeOK
  <2>16. CASE Ends(t)
    <3>1. CASE Inserts(t)
      BY <1>0, <2>16, <3>1 DEF Ends, Inserts, LocksOK, Delivering, TypeOK
    <3>2. CASE Closes(t)
      BY <1>0, <2>16, <3>2 DEF Ends, Closes, LocksOK, Delivering, Closing, TypeOK
    <3>3. CASE Delivers(t)
      BY <1>0, <2>16, <3>3 DEF Ends, Delivers, LocksOK, Delivering, TypeOK
    <3> QED
      BY <2>16, <3>1, <3>2, <3>3 DEF Ends
  <2> QED
    BY <1>2, StepCases, <2>1, <2>2, <2>3, <2>4, <2>5, <2>6, <2>7, <2>8, <2>9, <2>10, <2>11, <2>12,
       <2>13, <2>14, <2>15, <2>16
<1>3. ASSUME NEW c \in Cpus, NEW t \in Threads \cup {idle}, Schedule(c, t) PROVE LocksOK'
  BY <1>0, <1>3 DEF Schedule, LocksOK, Delivering, TypeOK
<1>4. CASE UNCHANGED vars
  BY <1>0, <1>4 DEF vars, LocksOK, Delivering
<1> QED
  BY <1>1, <1>2, <1>3, <1>4 DEF Next

\* A step gives no processor to a blocked thread that cannot run.
LEMMA ResumedOKStep ==
    ASSUME TypeOK, Distant, InKernel, OwnLock, Rules, NamedReceives, [Next]_vars
    PROVE  ResumedOK'
<1> USE DEF tcbs, sched, At, GoTo, Unlock, SwitchToIdle
<1>0. PlacesOK /\ LocksOK /\ SendersOK /\ ResumedOK /\ WaitsOK /\ TransferOK
      /\ TurnOK /\ ChosenOK /\ CalledOK /\ OneMessage
  BY DEF Rules
<1>1. ASSUME NEW t \in Threads, NEW i \in Calls[t], Call(t, i) PROVE ResumedOK'
  BY <1>0, <1>1 DEF Call, ResumedOK, Runnable, TypeOK
<1>2. ASSUME NEW t \in Threads, Kernel(t) PROVE ResumedOK'
  <2>1. CASE Send(t)
    <3>1. req[t].to \in Threads /\ req[t].to # t
      BY <2>1, ReceiverType DEF Send, SendPlaces
    <3> QED
      BY <1>0, <2>1, <3>1 DEF Send, ResumedOK, Runnable, TypeOK
  <2>2. CASE LockReceiver(t)
    <3>1. req[t].to \in Threads /\ req[t].to # t
      BY <2>2, ReceiverType DEF LockReceiver, SendPlaces
    <3> QED
      BY <1>0, <2>2, <3>1 DEF LockReceiver, ResumedOK, Runnable, TypeOK
  <2>3. CASE SendReady(t)
    <3>1. req[t].to \in Threads /\ req[t].to # t
      BY <2>3, ReceiverType DEF SendReady, SendPlaces
    <3> QED
      BY <1>0, <2>3, <3>1 DEF SendReady, ResumedOK, Runnable, TypeOK
  <2>4. CASE SendZeroTimeout(t)
    <3>1. req[t].to \in Threads /\ req[t].to # t
      BY <2>4, ReceiverType DEF SendZeroTimeout, SendPlaces
    <3> QED
      BY <1>0, <2>4, <3>1 DEF SendZeroTimeout, ResumedOK, Runnable, TypeOK
  <2>5. CASE SendBlocked(t)
    <3>1. req[t].to \in Threads /\ req[t].to # t
      BY <2>5, ReceiverType DEF SendBlocked, SendPlaces
    <3> QED
      BY <1>0, <2>5, <3>1 DEF SendBlocked, ResumedOK, Runnable, TypeOK
  <2>6. CASE Block(t)
    <3>1. Home \in [Threads -> Cpus] /\ idle \notin Threads
      BY XIpcAssumption
    <3>2. \A u \in Threads : current'[Home[u]] = u =>
              u # t /\ current[Home[u]] = u /\ pc'[u] = pc[u] /\ state'[u] = state[u]
      BY <2>6, <3>1 DEF Block, TypeOK
    <3> QED
      BY <1>0, <3>2 DEF ResumedOK
  <2>7. CASE SendResume(t)
    <3>1. req[t].to \in Threads /\ req[t].to # t
      BY <2>7, ReceiverType DEF SendResume, SendPlaces
    <3> QED
      BY <1>0, <2>7, <3>1 DEF SendResume, ResumedOK, Runnable, TypeOK
  <2>8. CASE Transfer(t)
    <3>1. req[t].to \in Threads /\ req[t].to # t
      BY <2>8, ReceiverType DEF Transfer, SendPlaces
    <3> QED
      BY <1>0, <2>8, <3>1 DEF Transfer, ResumedOK, Runnable, TypeOK
  <2>9. CASE Sent(t)
    BY <1>0, <2>9 DEF Sent, ResumedOK, Runnable, TypeOK
  <2>10. CASE LockSelf(t)
    BY <1>0, <2>10 DEF LockSelf, ResumedOK, Runnable, TypeOK
  <2>11. CASE ReceiveZeroTimeout(t)
    BY <1>0, <2>11 DEF ReceiveZeroTimeout, ResumedOK, Runnable, TypeOK
  <2>12. CASE ReceiveBlocked(t)
    <3>1. Home \in [Threads -> Cpus] /\ idle \notin Threads
      BY XIpcAssumption
    <3>2. \A u \in Threads : current'[Home[u]] = u =>
              u # t /\ current[Home[u]] = u /\ pc'[u] = pc[u] /\ state'[u] = state[u]
      BY <2>12, <3>1 DEF ReceiveBlocked, TypeOK
    <3> QED
      BY <1>0, <3>2 DEF ResumedOK
  <2>13. CASE ReceiveReady(t)
    <3>1. Sender(t) \in Threads /\ Sender(t) # t
      BY <2>13, SenderType DEF ReceiveReady
    <3> QED
      BY <1>0, <2>13, <3>1 DEF ReceiveReady, ResumedOK, Runnable, TypeOK
  <2>14. CASE Accept(t)
    <3>1. other[t] \in Threads /\ other[t] # t
      BY <2>14 DEF Accept, Distant, TypeOK
    <3> QED
      BY <1>0, <2>14, <3>1 DEF Accept, ResumedOK, Runnable, TypeOK
  <2>15. CASE Received(t)
    BY <1>0, <2>15 DEF Received, ResumedOK, Runnable, TypeOK
  <2>16. CASE Ends(t)
    <3>1. CASE Inserts(t)
      BY <1>0, <2>16, <3>1 DEF Ends, Inserts, ResumedOK, Runnable, TypeOK
    <3>2. CASE Closes(t)
      <4>1. Home \in [Threads -> Cpus] /\ idle \notin Threads
        BY XIpcAssumption
      <4>2. \A u \in Threads : current'[Home[u]] = u =>
                u # t /\ current[Home[u]] = u /\ pc'[u] = pc[u] /\ state'[u] = state[u]
        BY <2>16, <3>2, <4>1 DEF Ends, Closes, TypeOK
      <4> QED
        BY <1>0, <4>2 DEF ResumedOK
    <3>3. CASE Delivers(t)
      BY <1>0, <2>16, <3>3 DEF Ends, Delivers, ResumedOK, Runnable, TypeOK
    <3> QED
      BY <2>16, <3>1, <3>2, <3>3 DEF Ends
  <2> QED
    BY <1>2, StepCases, <2>1, <2>2, <2>3, <2>4, <2>5, <2>6, <2>7, <2>8, <2>9, <2>10, <2>11, <2>12,
       <2>13, <2>14, <2>15, <2>16
<1>3. ASSUME NEW c \in Cpus, NEW t \in Threads \cup {idle}, Schedule(c, t) PROVE ResumedOK'
  <2>1. pc' = pc /\ state' = state /\ current' = [current EXCEPT ![c] = t]
    BY <1>3 DEF Schedule
  <2>2. t = idle \/ Runnable(state[t])
    BY <1>3 DEF Schedule, FindNext
  <2>3. Home \in [Threads -> Cpus] /\ idle \notin Threads
    BY XIpcAssumption
  <2>4. \A u \in Threads : current'[Home[u]] = u => u = t \/ current[Home[u]] = u
    BY <2>1, <2>3 DEF TypeOK
  <2> QED
    BY <1>0, <2>1, <2>2, <2>3, <2>4 DEF ResumedOK
<1>4. CASE UNCHANGED vars
  BY <1>0, <1>4 DEF vars, ResumedOK, Runnable
<1> QED
  BY <1>1, <1>2, <1>3, <1>4 DEF Next

\* A step leaves the receivers that wait without a message.
LEMMA WaitsOKStep ==
    ASSUME TypeOK, Distant, InKernel, OwnLock, Rules, NamedReceives, [Next]_vars
    PROVE  WaitsOK'
<1> USE DEF tcbs, sched, At, GoTo, Unlock, SwitchToIdle
<1>0. PlacesOK /\ LocksOK /\ SendersOK /\ ResumedOK /\ WaitsOK /\ TransferOK
      /\ TurnOK /\ ChosenOK /\ CalledOK /\ OneMessage
  BY DEF Rules
<1>1. ASSUME NEW t \in Threads, NEW i \in Calls[t], Call(t, i) PROVE WaitsOK'
  BY <1>0, <1>1 DEF Call, WaitsOK, Waits, PlacesOK, TypeOK
<1>2. ASSUME NEW t \in Threads, Kernel(t) PROVE WaitsOK'
  <2>1. CASE Send(t)
    <3>1. req[t].to \in Threads /\ req[t].to # t
      BY <2>1, ReceiverType DEF Send, SendPlaces
    <3> QED
      BY <1>0, <2>1, <3>1 DEF Send, WaitsOK, Waits, TypeOK
  <2>2. CASE LockReceiver(t)
    <3>1. req[t].to \in Threads /\ req[t].to # t
      BY <2>2, ReceiverType DEF LockReceiver, SendPlaces
    <3> QED
      BY <1>0, <2>2, <3>1 DEF LockReceiver, WaitsOK, Waits, TypeOK
  <2>3. CASE SendReady(t)
    <3>1. req[t].to \in Threads /\ req[t].to # t
      BY <2>3, ReceiverType DEF SendReady, SendPlaces
    <3> QED
      BY <1>0, <2>3, <3>1 DEF SendReady, WaitsOK, Waits, TypeOK
  <2>4. CASE SendZeroTimeout(t)
    <3>1. req[t].to \in Threads /\ req[t].to # t
      BY <2>4, ReceiverType DEF SendZeroTimeout, SendPlaces
    <3> QED
      BY <1>0, <2>4, <3>1 DEF SendZeroTimeout, WaitsOK, Waits, TypeOK
  <2>5. CASE SendBlocked(t)
    <3>1. req[t].to \in Threads /\ req[t].to # t
      BY <2>5, ReceiverType DEF SendBlocked, SendPlaces
    <3> QED
      BY <1>0, <2>5, <3>1 DEF SendBlocked, WaitsOK, Waits, TypeOK
  <2>6. CASE Block(t)
    <3>1. req[t].to \in Threads /\ req[t].to # t
      BY <2>6, ReceiverType DEF Block, SendPlaces
    <3> QED
      BY <1>0, <2>6, <3>1 DEF Block, WaitsOK, Waits, TypeOK
  <2>7. CASE SendResume(t)
    <3>1. req[t].to \in Threads /\ req[t].to # t
      BY <2>7, ReceiverType DEF SendResume, SendPlaces
    <3> QED
      BY <1>0, <2>7, <3>1 DEF SendResume, WaitsOK, Waits, TypeOK
  <2>8. CASE Transfer(t)
    <3>1. req[t].to \in Threads /\ req[t].to # t
      BY <2>8, ReceiverType DEF Transfer, SendPlaces
    <3> QED
      BY <1>0, <2>8, <3>1 DEF Transfer, WaitsOK, Waits, PlacesOK, TransferOK, Receiving, TypeOK
  <2>9. CASE Sent(t)
    BY <1>0, <2>9 DEF Sent, WaitsOK, Waits, TypeOK
  <2>10. CASE LockSelf(t)
    BY <1>0, <2>10 DEF LockSelf, WaitsOK, Waits, TypeOK
  <2>11. CASE ReceiveZeroTimeout(t)
    BY <1>0, <2>11 DEF ReceiveZeroTimeout, WaitsOK, Waits, TypeOK
  <2>12. CASE ReceiveBlocked(t)
    BY <1>0, <2>12 DEF ReceiveBlocked, WaitsOK, Waits, PlacesOK, OneMessage, Receiving, TypeOK
  <2>13. CASE ReceiveReady(t)
    <3>1. Sender(t) \in Threads /\ Sender(t) # t
      BY <2>13, SenderType DEF ReceiveReady
    <3> QED
      BY <1>0, <2>13, <3>1 DEF ReceiveReady, WaitsOK, Waits, PlacesOK, TypeOK
  <2>14. CASE Accept(t)
    <3>1. other[t] \in Threads /\ other[t] # t
      BY <2>14 DEF Accept, Distant, TypeOK
    <3> QED
      BY <1>0, <2>14, <3>1 DEF Accept, WaitsOK, Waits, ChosenOK, OneMessage, Receiving, TypeOK
  <2>15. CASE Received(t)
    BY <1>0, <2>15 DEF Received, WaitsOK, Waits, TypeOK
  <2>16. CASE Ends(t)
    <3>1. CASE Inserts(t)
      BY <1>0, <2>16, <3>1 DEF Ends, Inserts, WaitsOK, Waits, TypeOK
    <3>2. CASE Closes(t)
      BY <1>0, <2>16, <3>2 DEF Ends, Closes, WaitsOK, Waits, TypeOK
    <3>3. CASE Delivers(t)
      BY <1>0, <2>16, <3>3 DEF Ends, Delivers, WaitsOK, Waits, TypeOK
    <3> QED
      BY <2>16, <3>1, <3>2, <3>3 DEF Ends
  <2> QED
    BY <1>2, StepCases, <2>1, <2>2, <2>3, <2>4, <2>5, <2>6, <2>7, <2>8, <2>9, <2>10, <2>11, <2>12,
       <2>13, <2>14, <2>15, <2>16
<1>3. ASSUME NEW c \in Cpus, NEW t \in Threads \cup {idle}, Schedule(c, t) PROVE WaitsOK'
  BY <1>0, <1>3 DEF Schedule, WaitsOK, Waits, TypeOK
<1>4. CASE UNCHANGED vars
  BY <1>0, <1>4 DEF vars, WaitsOK, Waits
<1> QED
  BY <1>1, <1>2, <1>3, <1>4 DEF Next

\* A step leaves every transfer its receiver: the lock keeps other senders out.
LEMMA TransferOKStep ==
    ASSUME TypeOK, Distant, InKernel, OwnLock, Rules, NamedReceives, [Next]_vars
    PROVE  TransferOK'
<1> USE DEF tcbs, sched, At, GoTo, Unlock, SwitchToIdle
<1>0. PlacesOK /\ LocksOK /\ SendersOK /\ ResumedOK /\ WaitsOK /\ TransferOK
      /\ TurnOK /\ ChosenOK /\ CalledOK /\ OneMessage
  BY DEF Rules
<1>a. \A u \in Threads : pc[u] = "transfer" => req[u].to \in Threads
  BY DEF Distant, SendPlaces
<1>1. ASSUME NEW t \in Threads, NEW i \in Calls[t], Call(t, i) PROVE TransferOK'
  BY <1>0, <1>1 DEF Call, TransferOK, Receiving, Waits, TypeOK
<1>2. ASSUME NEW t \in Threads, Kernel(t) PROVE TransferOK'
  <2>1. CASE Send(t)
    <3>1. req[t].to \in Threads /\ req[t].to # t
      BY <2>1, ReceiverType DEF Send, SendPlaces
    <3> QED
      BY <1>0, <2>1, <3>1 DEF Send, TransferOK, Receiving, Waits, TypeOK
  <2>2. CASE LockReceiver(t)
    <3>1. req[t].to \in Threads /\ req[t].to # t
      BY <2>2, ReceiverType DEF LockReceiver, SendPlaces
    <3> QED
      BY <1>0, <2>2, <3>1 DEF LockReceiver, TransferOK, Receiving, Waits, TypeOK
  <2>3. CASE SendReady(t)
    <3>1. req[t].to \in Threads /\ req[t].to # t
      BY <2>3, ReceiverType DEF SendReady, SendPlaces
    <3> DEFINE r == req[t].to
    <3>2. tcb_lock[r] = t /\ Accepts(r, t)
      BY <1>0, <2>3 DEF SendReady, LocksOK
    <3>3. Waits(r) /\ partner[r] \in {t, anythread} /\ (state[r] = "locked_waiting" => partner[r] = t)
      BY <3>2 DEF Accepts, Waits
    <3>4. ~Closing(r) /\ pc[r] \notin {"select", "accept"}
      BY <1>0, <3>1, <3>2 DEF Closing, LocksOK
    <3>5. Receiving(r)
      BY <1>0, <3>1, <3>3, <3>4 DEF PlacesOK, Closing, Delivering, Receiving, Waits, TypeOK
    <3>6. req[r].from \in {anythread, t} /\ (state[r] = "locked_waiting" => other[r] = t)
      <4>1. anythread \notin Threads
        BY XIpcAssumption
      <4> QED
        BY <1>0, <3>1, <3>3, <4>1 DEF WaitsOK
    <3>7. state' = state /\ other' = other /\ req' = req /\ pc' = [pc EXCEPT ![t] = "transfer"]
      BY <2>3 DEF SendReady
    <3>8. \A u \in Threads \ {t} : pc'[u] = pc[u] /\ (pc[u] = "transfer" => req[u].to # t)
      BY <1>0, <2>3, <3>7 DEF SendReady, TransferOK, Receiving, TypeOK
    <3>9. \A u \in Threads \ {t} : Receiving(u)' = Receiving(u) /\ Waits(u)' = Waits(u)
      BY <3>7, <3>8 DEF Receiving, Waits
    <3> QED
      BY <1>0, <1>a, <3>1, <3>3, <3>5, <3>6, <3>7, <3>8, <3>9 DEF TransferOK
  <2>4. CASE SendZeroTimeout(t)
    <3>1. req[t].to \in Threads /\ req[t].to # t
      BY <2>4, ReceiverType DEF SendZeroTimeout, SendPlaces
    <3> QED
      BY <1>0, <2>4, <3>1 DEF SendZeroTimeout, TransferOK, Receiving, Waits, TypeOK
  <2>5. CASE SendBlocked(t)
    <3>1. req[t].to \in Threads /\ req[t].to # t
      BY <2>5, ReceiverType DEF SendBlocked, SendPlaces
    <3> QED
      BY <1>0, <2>5, <3>1 DEF SendBlocked, TransferOK, Receiving, Waits, TypeOK
  <2>6. CASE Block(t)
    <3>1. req[t].to \in Threads /\ req[t].to # t
      BY <2>6, ReceiverType DEF Block, SendPlaces
    <3> QED
      BY <1>0, <2>6, <3>1 DEF Block, TransferOK, Receiving, Waits, TypeOK
  <2>7. CASE SendResume(t)
    <3>1. req[t].to \in Threads /\ req[t].to # t
      BY <2>7, ReceiverType DEF SendResume, SendPlaces
    <3> DEFINE r == req[t].to
    <3>2. state[t] = "locked_running"
      BY <1>0, <2>7 DEF SendResume, ResumedOK, PlacesOK, Runnable
    <3>3. state[r] = "locked_waiting" /\ other[r] = t
      BY <1>0, <2>7, <3>2 DEF SendResume, TurnOK
    <3>4. tcb_lock[r] # r
      BY <2>7, <3>1, XIpcAssumption DEF SendResume
    <3>5. Receiving(r)
      BY <1>0, <3>1, <3>3, <3>4 DEF PlacesOK, Closing, Delivering, Receiving, TypeOK
    <3>6. req[r].from \in {anythread, t}
      BY <1>0, <3>1, <3>3 DEF WaitsOK
    <3>7. state' = state /\ other' = other /\ req' = req /\ pc' = [pc EXCEPT ![t] = "transfer"]
      BY <2>7 DEF SendResume
    <3>8. \A u \in Threads \ {t} : pc'[u] = pc[u] /\ (pc[u] = "transfer" => req[u].to # t)
      BY <1>0, <2>7, <3>7 DEF SendResume, TransferOK, Receiving, TypeOK
    <3>9. \A u \in Threads \ {t} : Receiving(u)' = Receiving(u) /\ Waits(u)' = Waits(u)
      BY <3>7, <3>8 DEF Receiving, Waits
    <3> QED
      BY <1>0, <1>a, <3>1, <3>3, <3>5, <3>6, <3>7, <3>8, <3>9 DEF TransferOK, Waits
  <2>8. CASE Transfer(t)
    <3>1. req[t].to \in Threads /\ req[t].to # t
      BY <2>8, ReceiverType DEF Transfer, SendPlaces
    <3>2. tcb_lock[req[t].to] = t
      BY <1>0, <2>8 DEF Transfer, LocksOK
    <3>3. ASSUME NEW u \in Threads, pc'[u] = "transfer"
          PROVE  u # t /\ pc[u] = "transfer" /\ req[u].to # req[t].to
      <4>1. u # t /\ pc[u] = "transfer"
        BY <2>8, <3>3 DEF Transfer, TypeOK
      <4> QED
        BY <1>0, <3>2, <4>1 DEF LocksOK
    <3>4. \A u \in Threads : pc[u] = "transfer" => Receiving(req[u].to)
      BY <1>0 DEF TransferOK
    <3> QED
      BY <1>0, <2>8, <3>1, <3>3, <3>4 DEF Transfer, TransferOK, Receiving, Waits, TypeOK
  <2>9. CASE Sent(t)
    BY <1>0, <2>9 DEF Sent, TransferOK, Receiving, Waits, TypeOK
  <2>10. CASE LockSelf(t)
    BY <1>0, <2>10 DEF LockSelf, TransferOK, Receiving, Waits, TypeOK
  <2>11. CASE ReceiveZeroTimeout(t)
    BY <1>0, <2>11 DEF ReceiveZeroTimeout, TransferOK, Receiving, Waits, TypeOK
  <2>12. CASE ReceiveBlocked(t)
    BY <1>0, <2>12 DEF ReceiveBlocked, TransferOK, Receiving, Waits, TypeOK
  <2>13. CASE ReceiveReady(t)
    <3>1. Sender(t) \in Threads /\ Sender(t) # t
      BY <2>13, SenderType DEF ReceiveReady
    <3> QED
      BY <1>0, <2>13, <3>1 DEF ReceiveReady, TransferOK, Receiving, Waits, TypeOK
  <2>14. CASE Accept(t)
    <3>1. other[t] \in Threads /\ other[t] # t
      BY <2>14 DEF Accept, Distant, TypeOK
    <3>2. pc[t] = "accept" /\ pc[other[t]] \in {"lock", "block", "resumed"}
      BY <1>0, <2>14 DEF Accept, ChosenOK
    <3>3. \A u \in Threads : pc'[u] = "transfer" =>
              pc[u] = "transfer" /\ Receiving(req[u].to) /\ req[u].to \notin {t, other[t]}
      BY <1>0, <2>14, <3>1, <3>2 DEF Accept, TransferOK, Receiving, TypeOK
    <3> QED
      BY <1>0, <1>a, <2>14, <3>1, <3>3 DEF Accept, TransferOK, Receiving, Waits, TypeOK
  <2>15. CASE Received(t)
    BY <1>0, <2>15, <1>a DEF Received, TransferOK, Receiving, Waits, ResumedOK, Runnable, TypeOK
  <2>16. CASE Ends(t)
    <3>1. CASE Inserts(t)
      BY <1>0, <2>16, <3>1 DEF Ends, Inserts, TransferOK, Receiving, Waits, TypeOK
    <3>2. CASE Closes(t)
      BY <1>0, <2>16, <3>2 DEF Ends, Closes, TransferOK, Receiving, Waits, TypeOK
    <3>3. CASE Delivers(t)
      BY <1>0, <2>16, <3>3, <1>a
         DEF Ends, Delivers, TransferOK, Receiving, Waits, Delivering, TypeOK
    <3> QED
      BY <2>16, <3>1, <3>2, <3>3 DEF Ends
  <2> QED
    BY <1>2, StepCases, <2>1, <2>2, <2>3, <2>4, <2>5, <2>6, <2>7, <2>8, <2>9, <2>10, <2>11, <2>12,
       <2>13, <2>14, <2>15, <2>16
<1>3. ASSUME NEW c \in Cpus, NEW t \in Threads \cup {idle}, Schedule(c, t) PROVE TransferOK'
  BY <1>0, <1>3 DEF Schedule, TransferOK, Receiving, Waits, TypeOK
<1>4. CASE UNCHANGED vars
  BY <1>0, <1>4 DEF vars, TransferOK, Receiving, Waits
<1> QED
  BY <1>1, <1>2, <1>3, <1>4 DEF Next

\* A step leaves the receiver locked for the sender that was told to run.
LEMMA TurnOKStep ==
    ASSUME TypeOK, Distant, InKernel, OwnLock, Rules, NamedReceives, [Next]_vars
    PROVE  TurnOK'
<1> USE DEF tcbs, sched, At, GoTo, Unlock, SwitchToIdle
<1>0. PlacesOK /\ LocksOK /\ SendersOK /\ ResumedOK /\ WaitsOK /\ TransferOK
      /\ TurnOK /\ ChosenOK /\ CalledOK /\ OneMessage
  BY DEF Rules
<1>a. \A u \in Threads : pc[u] \in {"lock", "check", "block", "resumed"} => req[u].to \in Threads
  BY DEF Distant, SendPlaces
<1>1. ASSUME NEW t \in Threads, NEW i \in Calls[t], Call(t, i) PROVE TurnOK'
  BY <1>0, <1>1 DEF Call, TurnOK, PlacesOK, TypeOK
<1>2. ASSUME NEW t \in Threads, Kernel(t) PROVE TurnOK'
  <2>1. CASE Send(t)
    <3>1. req[t].to \in Threads /\ req[t].to # t
      BY <2>1, ReceiverType DEF Send, SendPlaces
    <3> QED
      BY <1>0, <2>1, <3>1 DEF Send, TurnOK, PlacesOK, TypeOK
  <2>2. CASE LockReceiver(t)
    <3>1. req[t].to \in Threads /\ req[t].to # t
      BY <2>2, ReceiverType DEF LockReceiver, SendPlaces
    <3> QED
      BY <1>0, <2>2, <3>1 DEF LockReceiver, TurnOK, TypeOK
  <2>3. CASE SendReady(t)
    <3>1. req[t].to \in Threads /\ req[t].to # t
      BY <2>3, ReceiverType DEF SendReady, SendPlaces
    <3> QED
      BY <1>0, <2>3, <3>1 DEF SendReady, TurnOK, TypeOK
  <2>4. CASE SendZeroTimeout(t)
    <3>1. req[t].to \in Threads /\ req[t].to # t
      BY <2>4, ReceiverType DEF SendZeroTimeout, SendPlaces
    <3>2. pc[t] = "check" /\ ~Accepts(req[t].to, t)
          /\ state' = [state EXCEPT ![t] = "running"] /\ pc' = [pc EXCEPT ![t] = "user"]
          /\ other' = other /\ req' = req
      BY <2>4 DEF SendZeroTimeout
    <3>3. state[t] # "locked_waiting"
      BY <1>0, <3>2 DEF PlacesOK
    <3> QED
      BY <1>0, <3>2, <3>3 DEF TurnOK, TypeOK
  <2>5. CASE SendBlocked(t)
    <3>1. req[t].to \in Threads /\ req[t].to # t
      BY <2>5, ReceiverType DEF SendBlocked, SendPlaces
    <3>2. state[t] = "locked_running" => Accepts(req[t].to, t)
      BY <1>0, <2>5, <3>1 DEF SendBlocked, TurnOK, WaitsOK, Waits, Accepts
    <3> QED
      BY <1>0, <2>5, <3>2 DEF SendBlocked, TurnOK, TypeOK
  <2>6. CASE Block(t)
    <3>1. state[t] # "locked_waiting"
      BY <1>0, <2>6 DEF Block, PlacesOK
    <3>2. \A u \in Threads \ {t} : state'[u] = "locked_running"
                  /\ pc'[u] \in {"lock", "check", "block", "resumed"} =>
              state[u] = state'[u] /\ pc[u] = pc'[u] /\ req[u].to # t
      BY <1>0, <2>6, <3>1 DEF Block, TurnOK, TypeOK
    <3> QED
      BY <1>0, <1>a, <2>6, <3>1, <3>2 DEF Block, TurnOK, TypeOK
  <2>7. CASE SendResume(t)
    <3>1. req[t].to \in Threads /\ req[t].to # t
      BY <2>7, ReceiverType DEF SendResume, SendPlaces
    <3> QED
      BY <1>0, <2>7, <3>1 DEF SendResume, TurnOK, TypeOK
  <2>8. CASE Transfer(t)
    <3>1. req[t].to \in Threads /\ req[t].to # t
      BY <2>8, ReceiverType DEF Transfer, SendPlaces
    <3> DEFINE r == req[t].to
    <3>2. pc[t] = "transfer" /\ state' = [state EXCEPT ![r] = "running"]
          /\ other' = [other EXCEPT ![t] = r] /\ pc' = [pc EXCEPT ![t] = "activate"] /\ req' = req
      BY <2>8 DEF Transfer
    <3>3. Receiving(r) /\ (state[r] = "locked_waiting" => other[r] = t)
      BY <1>0, <3>2 DEF TransferOK
    <3>4. state[t] # "locked_waiting"
      BY <1>0, <3>2 DEF PlacesOK
    <3>5. ASSUME NEW u \in Threads, state'[u] = "locked_running",
                 pc'[u] \in {"lock", "check", "block", "resumed"}
          PROVE  /\ u # t /\ state[u] = "locked_running" /\ pc[u] = pc'[u]
                 /\ req[u].to \notin {t, r}
      <4>1. u # t /\ state[u] = "locked_running" /\ pc[u] = pc'[u]
        BY <3>1, <3>2, <3>5 DEF TypeOK
      <4> QED
        BY <1>0, <3>3, <3>4, <3>5, <4>1 DEF TurnOK
    <3> QED
      BY <1>0, <3>1, <3>2, <3>5 DEF TurnOK, TypeOK
  <2>9. CASE Sent(t)
    <3>1. state[t] # "locked_waiting"
      BY <1>0, <2>9 DEF Sent, PlacesOK
    <3> QED
      BY <1>0, <2>9, <3>1 DEF Sent, TurnOK, TypeOK
  <2>10. CASE LockSelf(t)
    BY <1>0, <2>10 DEF LockSelf, TurnOK, TypeOK
  <2>11. CASE ReceiveZeroTimeout(t)
    BY <1>0, <2>11 DEF ReceiveZeroTimeout, TurnOK, PlacesOK, TypeOK
  <2>12. CASE ReceiveBlocked(t)
    BY <1>0, <2>12 DEF ReceiveBlocked, TurnOK, PlacesOK, TypeOK
  <2>13. CASE ReceiveReady(t)
    <3>1. Sender(t) \in Threads /\ Sender(t) # t
      BY <2>13, SenderType DEF ReceiveReady
    <3> QED
      BY <1>0, <2>13, <3>1 DEF ReceiveReady, TurnOK, PlacesOK, TypeOK
  <2>14. CASE Accept(t)
    <3>1. other[t] \in Threads /\ other[t] # t
      BY <2>14 DEF Accept, Distant, TypeOK
    <3> DEFINE s == other[t]
    <3>2. /\ pc[t] = "accept" /\ pc' = [pc EXCEPT ![t] = "activate"] /\ req' = req /\ other' = other
          /\ state' = [state EXCEPT ![t] = "locked_waiting", ![s] = "locked_running"]
      BY <2>14 DEF Accept
    <3>3. /\ pc[s] \in {"lock", "block", "resumed"} /\ req[s].to = t
          /\ pc[s] = "lock" => req[t].from = s
      BY <1>0, <3>2 DEF ChosenOK
    <3>4. state[s] # "locked_waiting" /\ state[t] = "running"
      BY <1>0, <3>1, <3>2, <3>3 DEF PlacesOK
    <3>5. ASSUME NEW u \in Threads, u # s, state'[u] = "locked_running",
                 pc'[u] \in {"lock", "check", "block", "resumed"}
          PROVE  state[u] = "locked_running" /\ pc[u] = pc'[u] /\ req[u].to \notin {t, s}
      <4>1. state[u] = "locked_running" /\ pc[u] = pc'[u]
        BY <3>1, <3>2, <3>5 DEF TypeOK
      <4> QED
        BY <1>0, <3>4, <3>5, <4>1 DEF TurnOK
    <3>6. ASSUME NEW u \in Threads, u # s, state'[u] = "locked_running",
                 pc'[u] \in {"lock", "check", "block", "resumed"}
          PROVE  LET r == req'[u].to
                 IN  /\ state'[r] = "locked_waiting" /\ other'[r] = u
                     /\ pc'[u] \in {"lock", "check"} => req'[r].from = u
      BY <1>0, <1>a, <3>1, <3>2, <3>5, <3>6 DEF TurnOK, TypeOK
    <3>7. LET r == req'[s].to
          IN  /\ state'[r] = "locked_waiting" /\ other'[r] = s
              /\ pc'[s] \in {"lock", "check"} => req'[r].from = s
      BY <3>1, <3>2, <3>3 DEF TypeOK
    <3> QED
      BY <3>6, <3>7 DEF TurnOK
  <2>15. CASE Received(t)
    <3>1. state[t] # "locked_waiting"
      BY <1>0, <2>15 DEF Received, ResumedOK, Runnable
    <3>2. \A u \in Threads \ {t} : state'[u] = "locked_running"
                  /\ pc'[u] \in {"lock", "check", "block", "resumed"} =>
              state[u] = state'[u] /\ pc[u] = pc'[u] /\ req[u].to # t
      BY <1>0, <2>15, <3>1 DEF Received, TurnOK, TypeOK
    <3> QED
      BY <1>0, <1>a, <2>15, <3>1, <3>2 DEF Received, TurnOK, TypeOK
  <2>16. CASE Ends(t)
    <3>1. CASE Inserts(t)
      BY <1>0, <2>16, <3>1 DEF Ends, Inserts, TurnOK, TypeOK
    <3>2. CASE Closes(t)
      BY <1>0, <2>16, <3>2 DEF Ends, Closes, TurnOK, TypeOK
    <3>3. CASE Delivers(t)
      BY <1>0, <2>16, <3>3 DEF Ends, Delivers, TurnOK, TypeOK
    <3> QED
      BY <2>16, <3>1, <3>2, <3>3 DEF Ends
  <2> QED
    BY <1>2, StepCases, <2>1, <2>2, <2>3, <2>4, <2>5, <2>6, <2>7, <2>8, <2>9, <2>10, <2>11, <2>12,
       <2>13, <2>14, <2>15, <2>16
<1>3. ASSUME NEW c \in Cpus, NEW t \in Threads \cup {idle}, Schedule(c, t) PROVE TurnOK'
  BY <1>0, <1>3 DEF Schedule, TurnOK, TypeOK
<1>4. CASE UNCHANGED vars
  BY <1>0, <1>4 DEF vars, TurnOK
<1> QED
  BY <1>1, <1>2, <1>3, <1>4 DEF Next

\* A step leaves the sender that was found polling where it is: it needs the lock.
LEMMA ChosenOKStep ==
    ASSUME TypeOK, Distant, InKernel, OwnLock, Rules, NamedReceives, [Next]_vars
    PROVE  ChosenOK'
<1> USE DEF tcbs, sched, At, GoTo, Unlock, SwitchToIdle
<1>0. PlacesOK /\ LocksOK /\ SendersOK /\ ResumedOK /\ WaitsOK /\ TransferOK
      /\ TurnOK /\ ChosenOK /\ CalledOK /\ OneMessage
  BY DEF Rules
<1>1. ASSUME NEW t \in Threads, NEW i \in Calls[t], Call(t, i) PROVE ChosenOK'
  BY <1>0, <1>1 DEF Call, ChosenOK, TypeOK
<1>2. ASSUME NEW t \in Threads, Kernel(t) PROVE ChosenOK'
  <2>1. CASE Send(t)
    <3>1. req[t].to \in Threads /\ req[t].to # t
      BY <2>1, ReceiverType DEF Send, SendPlaces
    <3> QED
      BY <1>0, <2>1, <3>1 DEF Send, ChosenOK, TypeOK
  <2>2. CASE LockReceiver(t)
    <3>1. req[t].to \in Threads /\ req[t].to # t
      BY <2>2, ReceiverType DEF LockReceiver, SendPlaces
    <3> QED
      BY <1>0, <2>2, <3>1, XIpcAssumption DEF LockReceiver, ChosenOK, LocksOK, TypeOK
  <2>3. CASE SendReady(t)
    <3>1. req[t].to \in Threads /\ req[t].to # t
      BY <2>3, ReceiverType DEF SendReady, SendPlaces
    <3> QED
      BY <1>0, <2>3, <3>1 DEF SendReady, ChosenOK, TypeOK
  <2>4. CASE SendZeroTimeout(t)
    <3>1. req[t].to \in Threads /\ req[t].to # t
      BY <2>4, ReceiverType DEF SendZeroTimeout, SendPlaces
    <3> QED
      BY <1>0, <2>4, <3>1 DEF SendZeroTimeout, ChosenOK, TypeOK
  <2>5. CASE SendBlocked(t)
    <3>1. req[t].to \in Threads /\ req[t].to # t
      BY <2>5, ReceiverType DEF SendBlocked, SendPlaces
    <3> QED
      BY SMTT(30), <1>0, <2>5, <3>1 DEF SendBlocked, ChosenOK, TypeOK
  <2>6. CASE Block(t)
    <3>1. req[t].to \in Threads /\ req[t].to # t
      BY <2>6, ReceiverType DEF Block, SendPlaces
    <3> QED
      BY <1>0, <2>6, <3>1 DEF Block, ChosenOK, TypeOK
  <2>7. CASE SendResume(t)
    <3>1. req[t].to \in Threads /\ req[t].to # t
      BY <2>7, ReceiverType DEF SendResume, SendPlaces
    <3> QED
      BY <1>0, <2>7, <3>1, XIpcAssumption DEF SendResume, ChosenOK, LocksOK, TypeOK
  <2>8. CASE Transfer(t)
    <3>1. req[t].to \in Threads /\ req[t].to # t
      BY <2>8, ReceiverType DEF Transfer, SendPlaces
    <3> QED
      BY <1>0, <2>8, <3>1 DEF Transfer, ChosenOK, TypeOK
  <2>9. CASE Sent(t)
    BY <1>0, <2>9 DEF Sent, ChosenOK, TypeOK
  <2>10. CASE LockSelf(t)
    BY <1>0, <2>10 DEF LockSelf, ChosenOK, TypeOK
  <2>11. CASE ReceiveZeroTimeout(t)
    BY <1>0, <2>11 DEF ReceiveZeroTimeout, ChosenOK, TypeOK
  <2>12. CASE ReceiveBlocked(t)
    BY <1>0, <2>12 DEF ReceiveBlocked, ChosenOK, TypeOK
  <2>13. CASE ReceiveReady(t)
    <3> DEFINE s == Sender(t)
    <3>1. s \in Threads /\ s # t
      BY <2>13, SenderType DEF ReceiveReady
    <3>2. /\ pc[t] = "select" /\ pc' = [pc EXCEPT ![t] = "accept"] /\ req' = req
          /\ other' = [other EXCEPT ![t] = s] /\ state[s] = "polling" /\ partner[s] = t
      BY <2>13 DEF ReceiveReady, Polls
    <3>3. pc[s] \in {"lock", "check", "block", "resumed", "transfer", "sent"} \/ Delivering(s)
      BY <1>0, <3>1, <3>2 DEF PlacesOK, Closing, Delivering, TypeOK
    <3>4. pc[s] \in {"lock", "block", "resumed", "sent"} /\ req[s].to = t
      <4>1. req[s].to = t /\ tcb_lock[t] = t
        BY <1>0, <3>1, <3>2, <3>3 DEF PlacesOK, LocksOK
      <4>2. pc[s] \notin {"check", "transfer"} /\ ~Delivering(s)
        BY <1>0, <3>1, <4>1 DEF LocksOK
      <4> QED
        BY <3>3, <4>1, <4>2
    <3>5. CASE req[t].from # anythread
      <4>1. req[t].from = s
        BY <3>5 DEF Sender
      <4>2. pc[s] # "sent"
        BY <1>0, <3>1, <3>2, <3>4, <4>1 DEF CalledOK, Past
      <4> QED
        BY <1>0, <3>1, <3>2, <3>4, <4>1, <4>2 DEF ChosenOK, TypeOK
    <3>6. CASE req[t].from = anythread
      <4>1. send_queue[t] # <<>> /\ s = Head(send_queue[t]) /\ send_queue[t] \in Seq(Threads)
        <5>1. s # null
          BY <2>13 DEF ReceiveReady, Polls
        <5> QED
          BY <3>6, <5>1 DEF Sender, TypeOK
      <4>2. InList(send_queue[t], s)
        <5> HIDE DEF s
        <5> QED
          BY <4>1, HeadInList
      <4>3. pc[s] \in {"block", "resumed"}
        BY <1>0, <3>1, <4>2 DEF SendersOK
      <4> QED
        BY <1>0, <3>1, <3>2, <3>4, <3>6, <4>3 DEF ChosenOK, TypeOK
    <3> QED
      BY <3>5, <3>6
  <2>14. CASE Accept(t)
    <3>1. other[t] \in Threads /\ other[t] # t
      BY <2>14 DEF Accept, Distant, TypeOK
    <3> QED
      BY <1>0, <2>14, <3>1 DEF Accept, ChosenOK, TypeOK
  <2>15. CASE Received(t)
    BY <1>0, <2>15 DEF Received, ChosenOK, TypeOK
  <2>16. CASE Ends(t)
    <3>1. CASE Inserts(t)
      BY <1>0, <2>16, <3>1 DEF Ends, Inserts, ChosenOK, TypeOK
    <3>2. CASE Closes(t)
      <4>1. pc' = [pc EXCEPT ![t] = "received"] /\ req' = req /\ other' = other
            /\ pc[t] \in {"activate", "insert"}
        BY <2>16, <3>2 DEF Ends, Closes, Closing
      <4> QED
        BY <1>0, <4>1 DEF ChosenOK, TypeOK
    <3>3. CASE Delivers(t)
      <4>1. pc' = [pc EXCEPT ![t] = "sent"] /\ req' = req /\ other' = other
            /\ pc[t] \in {"activate", "insert"}
        BY <2>16, <3>3 DEF Ends, Delivers, Delivering
      <4> QED
        BY <1>0, <4>1 DEF ChosenOK, TypeOK
    <3> QED
      BY <2>16, <3>1, <3>2, <3>3 DEF Ends
  <2> QED
    BY <1>2, StepCases, <2>1, <2>2, <2>3, <2>4, <2>5, <2>6, <2>7, <2>8, <2>9, <2>10, <2>11, <2>12,
       <2>13, <2>14, <2>15, <2>16
<1>3. ASSUME NEW c \in Cpus, NEW t \in Threads \cup {idle}, Schedule(c, t) PROVE ChosenOK'
  BY <1>0, <1>3 DEF Schedule, ChosenOK, TypeOK
<1>4. CASE UNCHANGED vars
  BY <1>0, <1>4 DEF vars, ChosenOK
<1> QED
  BY <1>1, <1>2, <1>3, <1>4 DEF Next

\* A step lets no thread call a sender that has not finished sending to it.
LEMMA CalledOKStep ==
    ASSUME TypeOK, Distant, InKernel, OwnLock, Rules, NamedReceives, [Next]_vars
    PROVE  CalledOK'
<1> USE DEF tcbs, sched, At, GoTo, Unlock, SwitchToIdle
<1>0. LocksOK /\ TransferOK /\ CalledOK
  BY DEF Rules
<1> DEFINE Coming(r) == Past(r) \/ pc[r] \in {"receive", "select"}
<1>1. ASSUME req' = req,
             \A u \in Threads : (Past(u)' => Past(u)) /\ (Coming(u)' => Coming(u))
      PROVE  CalledOK'
  BY <1>0, <1>1 DEF CalledOK
<1>2. ASSUME NEW t \in Threads, NEW i \in Calls[t], Call(t, i) PROVE CalledOK'
  <2> SUFFICES ASSUME NEW s \in Threads, NEW r \in Threads, Past(s)', req'[s].to = r,
                      req'[r].from = s, Coming(r)'
               PROVE  FALSE
    BY DEF CalledOK
  <2>1. /\ req' = [req EXCEPT ![t] = i] /\ tcb_lock' = tcb_lock
        /\ pc' = [pc EXCEPT ![t] = IF i.to = nilthread THEN "receive" ELSE "send"]
    BY <1>2 DEF Call
  <2>2. s # t /\ Past(s) /\ req[s].to = r
    BY <2>1 DEF Past, Delivering, TypeOK
  <2>3. CASE r # t
    BY <1>0, <2>1, <2>2, <2>3 DEF CalledOK, Past, Delivering, TypeOK
  <2>4. CASE r = t
    <3>1. i.from = s /\ i.to = nilthread
      BY <2>1, <2>4 DEF Past, Delivering, TypeOK
    <3> QED
      BY <3>1, XIpcAssumption DEF NamedReceives
  <2> QED
    BY <2>3, <2>4
<1>3. ASSUME NEW t \in Threads, Transfer(t) PROVE CalledOK'
  <2> SUFFICES ASSUME NEW s \in Threads, NEW r \in Threads, Past(s)', req'[s].to = r,
                      req'[r].from = s, Coming(r)'
               PROVE  FALSE
    BY DEF CalledOK
  <2>1. /\ req' = req /\ tcb_lock' = tcb_lock /\ pc[t] = "transfer"
        /\ \A u \in Threads \ {t} : pc'[u] = pc[u]
    BY <1>3 DEF Transfer, TypeOK
  <2>2. pc[req[t].to] = "received" /\ req[t].to \in Threads \ {t}
    BY <1>0, <2>1, ReceiverType DEF TransferOK, Receiving, SendPlaces
  <2>3. CASE s = t
    BY <2>1, <2>2, <2>3 DEF Past, Delivering
  <2>4. CASE s # t /\ r = t
    <3>1. req[t].to = s
      BY <2>1, <2>4 DEF Distant, NamedReceives
    <3> QED
      BY <2>1, <2>2, <2>4, <3>1 DEF Past, Delivering
  <2>5. CASE s # t /\ r # t
    BY <1>0, <2>1, <2>5 DEF CalledOK, Past, Delivering
  <2> QED
    BY <2>3, <2>4, <2>5
<1>4. ASSUME NEW t \in Threads, Kernel(t) PROVE CalledOK'
  <2>1. CASE Send(t)
    BY <1>0, <1>1, <2>1 DEF Send, Past, Coming, Delivering, TypeOK
  <2>2. CASE LockReceiver(t)
    <3>1. req[t].to \in Threads /\ req[t].to # t
      BY <2>2, ReceiverType DEF LockReceiver, SendPlaces
    <3> QED
      BY <1>0, <1>1, <2>2, <3>1, XIpcAssumption DEF LockReceiver, Past, Coming, Delivering, TypeOK
  <2>3. CASE SendReady(t)
    BY <1>0, <1>1, <2>3 DEF SendReady, Past, Coming, Delivering, TypeOK
  <2>4. CASE SendZeroTimeout(t)
    <3>1. req[t].to \in Threads /\ req[t].to # t
      BY <2>4, ReceiverType DEF SendZeroTimeout, SendPlaces
    <3> QED
      BY <1>0, <1>1, <2>4, <3>1, XIpcAssumption
         DEF SendZeroTimeout, Past, Coming, Delivering, LocksOK, TypeOK
  <2>5. CASE SendBlocked(t)
    <3>1. req[t].to \in Threads /\ req[t].to # t
      BY <2>5, ReceiverType DEF SendBlocked, SendPlaces
    <3> QED
      BY <1>0, <1>1, <2>5, <3>1, XIpcAssumption
         DEF SendBlocked, Past, Coming, Delivering, LocksOK, TypeOK
  <2>6. CASE Block(t)
    BY <1>0, <1>1, <2>6 DEF Block, Past, Coming, Delivering, TypeOK
  <2>7. CASE SendResume(t)
    <3>1. req[t].to \in Threads /\ req[t].to # t
      BY <2>7, ReceiverType DEF SendResume, SendPlaces
    <3> QED
      BY <1>0, <1>1, <2>7, <3>1, XIpcAssumption DEF SendResume, Past, Coming, Delivering, TypeOK
  <2>8. CASE Transfer(t)
    BY <1>3, <2>8
  <2>9. CASE Sent(t)
    BY <1>0, <1>1, <2>9 DEF Sent, Past, Coming, Delivering, TypeOK
  <2>10. CASE LockSelf(t)
    BY <1>0, <1>1, <2>10, XIpcAssumption DEF LockSelf, Past, Coming, Delivering, TypeOK
  <2>11. CASE ReceiveZeroTimeout(t)
    BY <1>0, <1>1, <2>11 DEF ReceiveZeroTimeout, Past, Coming, Delivering, LocksOK, TypeOK
  <2>12. CASE ReceiveBlocked(t)
    BY <1>0, <1>1, <2>12 DEF ReceiveBlocked, Past, Coming, Delivering, LocksOK, TypeOK
  <2>13. CASE ReceiveReady(t)
    BY <1>0, <1>1, <2>13 DEF ReceiveReady, Past, Coming, Delivering, TypeOK
  <2>14. CASE Accept(t)
    BY <1>0, <1>1, <2>14 DEF Accept, Past, Coming, Delivering, LocksOK, TypeOK
  <2>15. CASE Received(t)
    BY <1>0, <1>1, <2>15 DEF Received, Past, Coming, Delivering, TypeOK
  <2>16. CASE Ends(t)
    <3>1. CASE Inserts(t)
      BY <1>0, <1>1, <2>16, <3>1, XIpcAssumption
         DEF Ends, Inserts, Past, Coming, Delivering, Closing, LocksOK, TypeOK
    <3>2. CASE Closes(t)
      BY <1>0, <1>1, <2>16, <3>2, XIpcAssumption
         DEF Ends, Closes, Past, Coming, Delivering, Closing, LocksOK, TypeOK
    <3>3. CASE Delivers(t)
      BY <1>0, <1>1, <2>16, <3>3, XIpcAssumption
         DEF Ends, Delivers, Past, Coming, Delivering, Closing, LocksOK, TypeOK
    <3> QED
      BY <2>16, <3>1, <3>2, <3>3 DEF Ends
  <2> QED
    BY <1>4, StepCases, <2>1, <2>2, <2>3, <2>4, <2>5, <2>6, <2>7, <2>8, <2>9, <2>10, <2>11, <2>12,
       <2>13, <2>14, <2>15, <2>16
<1>5. ASSUME NEW c \in Cpus, NEW t \in Threads \cup {idle}, Schedule(c, t) PROVE CalledOK'
  BY <1>1, <1>5 DEF Schedule, Past, Coming, Delivering
<1>6. CASE UNCHANGED vars
  BY <1>1, <1>6 DEF vars, Past, Coming, Delivering
<1> QED
  BY <1>2, <1>4, <1>5, <1>6 DEF Next

\* A step leaves the receivers with one message at most, and none without.
LEMMA OneMessageStep ==
    ASSUME TypeOK, Distant, InKernel, OwnLock, Rules, NamedReceives, [Next]_vars
    PROVE  OneMessage'
<1> USE DEF tcbs, sched, At, GoTo, Unlock, SwitchToIdle
<1>0. PlacesOK /\ LocksOK /\ SendersOK /\ ResumedOK /\ WaitsOK /\ TransferOK
      /\ TurnOK /\ ChosenOK /\ CalledOK /\ OneMessage
  BY DEF Rules
<1>1. ASSUME NEW t \in Threads, NEW i \in Calls[t], Call(t, i) PROVE OneMessage'
  BY <1>0, <1>1 DEF Call, OneMessage, Receiving, Runnable, TypeOK
<1>2. ASSUME NEW t \in Threads, Kernel(t) PROVE OneMessage'
  <2>1. CASE Send(t)
    <3>1. req[t].to \in Threads /\ req[t].to # t
      BY <2>1, ReceiverType DEF Send, SendPlaces
    <3> QED
      BY <1>0, <2>1, <3>1 DEF Send, OneMessage, Receiving, Runnable, TypeOK
  <2>2. CASE LockReceiver(t)
    <3>1. req[t].to \in Threads /\ req[t].to # t
      BY <2>2, ReceiverType DEF LockReceiver, SendPlaces
    <3> QED
      BY <1>0, <2>2, <3>1 DEF LockReceiver, OneMessage, Receiving, Runnable, TypeOK
  <2>3. CASE SendReady(t)
    <3>1. req[t].to \in Threads /\ req[t].to # t
      BY <2>3, ReceiverType DEF SendReady, SendPlaces
    <3> QED
      BY <1>0, <2>3, <3>1 DEF SendReady, OneMessage, Receiving, Runnable, TypeOK
  <2>4. CASE SendZeroTimeout(t)
    <3>1. req[t].to \in Threads /\ req[t].to # t
      BY <2>4, ReceiverType DEF SendZeroTimeout, SendPlaces
    <3> QED
      BY <1>0, <2>4, <3>1 DEF SendZeroTimeout, OneMessage, Receiving, Runnable, TypeOK
  <2>5. CASE SendBlocked(t)
    <3>1. req[t].to \in Threads /\ req[t].to # t
      BY <2>5, ReceiverType DEF SendBlocked, SendPlaces
    <3> QED
      BY <1>0, <2>5, <3>1 DEF SendBlocked, OneMessage, Receiving, Runnable, TypeOK
  <2>6. CASE Block(t)
    <3>1. req[t].to \in Threads /\ req[t].to # t
      BY <2>6, ReceiverType DEF Block, SendPlaces
    <3> QED
      BY <1>0, <2>6, <3>1 DEF Block, OneMessage, Receiving, Runnable, TypeOK
  <2>7. CASE SendResume(t)
    <3>1. req[t].to \in Threads /\ req[t].to # t
      BY <2>7, ReceiverType DEF SendResume, SendPlaces
    <3> QED
      BY <1>0, <2>7, <3>1 DEF SendResume, OneMessage, Receiving, Runnable, TypeOK
  <2>8. CASE Transfer(t)
    <3>1. req[t].to \in Threads /\ req[t].to # t
      BY <2>8, ReceiverType DEF Transfer, SendPlaces
    <3> DEFINE r == req[t].to
    <3>2. /\ pc[t] = "transfer" /\ state' = [state EXCEPT ![r] = "running"] /\ req' = req
          /\ inbox' = [inbox EXCEPT ![r] = Append(inbox[r], t)] /\ pc' = [pc EXCEPT ![t] = "activate"]
      BY <2>8 DEF Transfer
    <3>3. Receiving(r) /\ Waits(r) /\ req[r].from \in {anythread, t}
      BY <1>0, <3>2 DEF TransferOK
    <3>4. inbox[r] = <<>>
      BY <1>0, <3>1, <3>3 DEF WaitsOK
    <3>5. Append(inbox[r], t) = <<t>>
      BY <3>4
    <3>6. inbox'[r] = <<t>> /\ Receiving(r)'
      BY <3>1, <3>2, <3>3, <3>5 DEF Receiving, TypeOK
    <3>7. \A u \in Threads \ {r} : inbox'[u] = inbox[u] /\ state'[u] = state[u]
      BY <3>1, <3>2 DEF TypeOK
    <3>8. inbox[t] = <<>> /\ ~Receiving(t)
      BY <1>0, <3>2 DEF OneMessage, Receiving
    <3>9. \A u \in Threads \ {t} : pc'[u] = pc[u]
      BY <3>2 DEF TypeOK
    <3>10. ~Receiving(t)'
      BY <3>2 DEF Receiving, TypeOK
    <3>11. Len(inbox'[r]) = 1 /\ inbox'[r][1] = t /\ inbox'[r] # <<>>
      BY <3>6
    <3> QED
      BY <1>0, <3>1, <3>2, <3>3, <3>6, <3>7, <3>8, <3>9, <3>10, <3>11 DEF OneMessage, Receiving
  <2>9. CASE Sent(t)
    BY <1>0, <2>9 DEF Sent, OneMessage, Receiving, Runnable, TypeOK
  <2>10. CASE LockSelf(t)
    BY <1>0, <2>10 DEF LockSelf, OneMessage, Receiving, Runnable, TypeOK
  <2>11. CASE ReceiveZeroTimeout(t)
    BY <1>0, <2>11 DEF ReceiveZeroTimeout, OneMessage, Receiving, Runnable, TypeOK
  <2>12. CASE ReceiveBlocked(t)
    BY <1>0, <2>12 DEF ReceiveBlocked, OneMessage, Receiving, Runnable, TypeOK
  <2>13. CASE ReceiveReady(t)
    <3>1. Sender(t) \in Threads /\ Sender(t) # t
      BY <2>13, SenderType DEF ReceiveReady
    <3> QED
      BY <1>0, <2>13, <3>1 DEF ReceiveReady, OneMessage, Receiving, Runnable, TypeOK
  <2>14. CASE Accept(t)
    <3>1. other[t] \in Threads /\ other[t] # t
      BY <2>14 DEF Accept, Distant, TypeOK
    <3>2. pc[t] = "accept" /\ pc[other[t]] \in {"lock", "block", "resumed"}
      BY <1>0, <2>14 DEF Accept, ChosenOK
    <3>3. pc'[t] = "activate" /\ pc'[other[t]] = pc[other[t]] /\ inbox' = inbox /\ req' = req
          /\ \A u \in Threads \ {t, other[t]} : pc'[u] = pc[u] /\ state'[u] = state[u]
      BY <2>14, <3>1 DEF Accept, TypeOK
    <3>4. inbox[t] = <<>> /\ inbox[other[t]] = <<>>
      BY <1>0, <3>1, <3>2 DEF OneMessage, Receiving
    <3> QED
      BY <1>0, <3>1, <3>2, <3>3, <3>4 DEF OneMessage, Receiving
  <2>15. CASE Received(t)
    BY <1>0, <2>15 DEF Received, OneMessage, Receiving, Runnable, TypeOK
  <2>16. CASE Ends(t)
    <3>1. CASE Inserts(t)
      BY <1>0, <2>16, <3>1 DEF Ends, Inserts, OneMessage, Receiving, Runnable, TypeOK
    <3>2. CASE Closes(t)
      BY <1>0, <2>16, <3>2
         DEF Ends, Closes, OneMessage, Receiving, Runnable, PlacesOK, WaitsOK, Waits, TypeOK
    <3>3. CASE Delivers(t)
      BY <1>0, <2>16, <3>3 DEF Ends, Delivers, OneMessage, Receiving, Runnable, Delivering, TypeOK
    <3> QED
      BY <2>16, <3>1, <3>2, <3>3 DEF Ends
  <2> QED
    BY <1>2, StepCases, <2>1, <2>2, <2>3, <2>4, <2>5, <2>6, <2>7, <2>8, <2>9, <2>10, <2>11, <2>12,
       <2>13, <2>14, <2>15, <2>16
<1>3. ASSUME NEW c \in Cpus, NEW t \in Threads \cup {idle}, Schedule(c, t) PROVE OneMessage'
  BY <1>0, <1>3 DEF Schedule, OneMessage, Receiving, Runnable, TypeOK
<1>4. CASE UNCHANGED vars
  BY <1>0, <1>4 DEF vars, OneMessage, Receiving, Runnable
<1> QED
  BY <1>1, <1>2, <1>3, <1>4 DEF Next

\* A step leaves the threads that have blocked in the send queues, once.
LEMMA SendersOKStep ==
    ASSUME TypeOK, Distant, InKernel, OwnLock, Rules, NamedReceives, [Next]_vars
    PROVE  SendersOK'
<1> USE DEF tcbs, sched, At, GoTo
<1>0. SendersOK
  BY DEF Rules
<1>1. ASSUME NEW t \in Threads, pc[t] \notin {"block", "resumed"}, send_queue' = send_queue,
             \A u \in Threads \ {t} : pc'[u] = pc[u] /\ req'[u] = req[u]
      PROVE  SendersOK'
  BY <1>0, <1>1 DEF SendersOK
<1>2. ASSUME NEW t \in Threads, NEW i \in Calls[t], Call(t, i) PROVE SendersOK'
  BY <1>1, <1>2 DEF Call, TypeOK
<1>3. ASSUME NEW t \in Threads,
             \/ Send(t) \/ LockReceiver(t) \/ SendReady(t) \/ SendZeroTimeout(t) \/ Transfer(t)
             \/ Sent(t) \/ LockSelf(t) \/ ReceiveZeroTimeout(t) \/ ReceiveBlocked(t)
             \/ ReceiveReady(t) \/ Accept(t) \/ Received(t) \/ Ends(t)
      PROVE  SendersOK'
  <2>1. CASE Send(t) \/ LockReceiver(t) \/ SendReady(t) \/ SendZeroTimeout(t)
    BY <1>1, <2>1 DEF Send, LockReceiver, SendReady, SendZeroTimeout, TypeOK
  <2>2. CASE Transfer(t) \/ Sent(t) \/ LockSelf(t) \/ ReceiveZeroTimeout(t)
    BY <1>1, <2>2 DEF Transfer, Sent, LockSelf, ReceiveZeroTimeout, TypeOK
  <2>3. CASE ReceiveBlocked(t) \/ ReceiveReady(t) \/ Accept(t) \/ Received(t)
    BY <1>1, <2>3 DEF ReceiveBlocked, ReceiveReady, Accept, Received, TypeOK
  <2>4. CASE Ends(t)
    BY <1>1, <2>4 DEF Ends, Inserts, Closes, Closing, Delivers, Delivering, TypeOK
  <2> QED
    BY <1>3, <2>1, <2>2, <2>3, <2>4
<1>4. ASSUME NEW t \in Threads, Block(t) PROVE SendersOK'
  BY <1>0, <1>4 DEF Block, SendersOK, TypeOK
<1>5. ASSUME NEW t \in Threads, SendBlocked(t) PROVE SendersOK'
  <2> DEFINE r == req[t].to
  <2>1. r \in Threads /\ send_queue[r] \in Seq(Threads)
    BY <1>5, ReceiverType DEF SendBlocked, SendPlaces, TypeOK
  <2>2. ~InList(send_queue[r], t)
    BY <1>0, <1>5, <2>1 DEF SendBlocked, SendersOK
  <2>3. /\ Distinct(Append(send_queue[r], t))
        /\ \A s : InList(Append(send_queue[r], t), s) <=> InList(send_queue[r], s) \/ s = t
    <3> HIDE DEF r
    <3> QED
      BY <1>0, <2>1, <2>2, AppendMembers DEF SendersOK
  <2>4. /\ send_queue' = [send_queue EXCEPT ![r] = Append(send_queue[r], t)] /\ req' = req
        /\ pc' = [pc EXCEPT ![t] = "block"]
    BY <1>5 DEF SendBlocked, EnqueueTail
  <2> QED
    BY <1>0, <2>1, <2>3, <2>4 DEF SendersOK, TypeOK
<1>6. ASSUME NEW t \in Threads, SendResume(t) PROVE SendersOK'
  <2> DEFINE r == req[t].to
             q == Without(send_queue[r], t)
  <2>1. r \in Threads /\ send_queue[r] \in Seq(Threads)
    BY <1>6, ReceiverType DEF SendResume, SendPlaces, TypeOK
  <2>2. /\ Distinct(q) /\ ~InList(q, t)
        /\ \A s : InList(q, s) => InList(send_queue[r], s)
    <3>1. Distinct(send_queue[r])
      BY <1>0, <2>1 DEF SendersOK
    <3> HIDE DEF r
    <3> QED
      BY <2>1, <3>1, WithoutMembers
  <2>3. /\ send_queue' = [send_queue EXCEPT ![r] = q] /\ req' = req
        /\ pc' = [pc EXCEPT ![t] = "transfer"]
    BY <1>6 DEF SendResume
  <2>4. ASSUME NEW u \in Threads, NEW s \in Threads, InList(send_queue'[u], s)
        PROVE  s # t /\ InList(send_queue[u], s)
    <3> HIDE DEF q
    <3>1. CASE u = r
      BY <2>1, <2>2, <2>3, <2>4, <3>1 DEF TypeOK
    <3>2. CASE u # r
      <4>1. InList(send_queue[u], s)
        BY <2>3, <2>4, <3>2 DEF TypeOK
      <4> QED
        BY <1>0, <3>2, <4>1 DEF SendersOK
    <3> QED
      BY <3>1, <3>2
  <2> QED
    BY <1>0, <2>1, <2>2, <2>3, <2>4 DEF SendersOK, TypeOK
<1>7. ASSUME NEW c \in Cpus, NEW t \in Threads \cup {idle}, Schedule(c, t) PROVE SendersOK'
  BY <1>0, <1>7 DEF Schedule, SendersOK
<1>8. CASE UNCHANGED vars
  BY <1>0, <1>8 DEF vars, SendersOK
<1> QED
  BY <1>2, <1>3, <1>4, <1>5, <1>6, <1>7, <1>8, StepCases DEF Next

\* What the steps of all processors keep, whatever the threads ask for.
Inv == /\ TypeOK /\ Distant /\ InKernel /\ OwnLock /\ Parting /\ NoLostActivation

\* It holds at the start,
LEMMA InvInit == Init => Inv
<1> SUFFICES ASSUME Init PROVE Inv
  OBVIOUS
<1>1. <<>> \in Seq(Threads) /\ nilthread \in Threads \cup {nilthread} /\ null \notin Threads
  BY EmptyQueue, XIpcAssumption
<1>2. TypeOK
  BY <1>1, XIpcAssumption DEF Init, TypeOK, Ipcs
<1>3. \A s : ~InList(<<>>, s)
  BY DEF InList
<1>4. Distant
  BY <1>3 DEF Init, Distant, SendPlaces
<1> QED
  BY <1>1, <1>2, <1>4 DEF Inv, Init, InKernel, OwnLock, Parting, NoLostActivation

\* and every step keeps it.
LEMMA InvStep == Inv /\ [Next]_vars => Inv'
BY TypeStep, DistantStep, InKernelStep, OwnLockStep, PartingStep, FoundStep DEF Inv

\* A thread that can run does, or its processor knows, or is about to be told: though
\* remote_schedule looks at the list without its lock, and a sender is told to run by the
\* receiver before it has set its state and left its processor.
THEOREM ActivationsKept == Spec => []NoLostActivation
<1>1. Inv => NoLostActivation
  BY DEF Inv
<1> QED
  BY <1>1, InvInit, InvStep, PTL DEF Spec

\* A receive ends with one message, of a thread it asked for, if no thread receives from
\* another one by name but in a call to it: then the state polling of a sender that is
\* done, which it resets without a lock, is never taken for that of the next message.
THEOREM MessagesReceived == ASSUME NamedReceives PROVE Spec => []OneMessage
<1>1. Init => Rules
  <2> SUFFICES ASSUME Init PROVE Rules
    OBVIOUS
  <2>1. Distinct(<<>>) /\ \A s : ~InList(<<>>, s)
    BY DEF Distinct, InList
  <2>2. SendersOK
    BY <2>1 DEF Init, SendersOK
  <2> QED
    BY <2>2 DEF Init, Rules, PlacesOK, LocksOK, ResumedOK, WaitsOK, Waits, TransferOK, TurnOK,
                ChosenOK, CalledOK, Past, Delivering, Closing, OneMessage, Receiving, Runnable
<1>2. Inv /\ Rules /\ [Next]_vars => Rules'
  BY PlacesOKStep, LocksOKStep, SendersOKStep, ResumedOKStep, WaitsOKStep, TransferOKStep,
     TurnOKStep, ChosenOKStep, CalledOKStep, OneMessageStep DEF Inv, Rules
<1>3. Rules => OneMessage
  BY DEF Rules
<1> QED
  BY <1>1, <1>2, <1>3, InvInit, InvStep, PTL DEF Spec
=============================================================================
