----------------------------- MODULE Xfer_proofs -----------------------------
(* Proofs about Xfer, for any threads, spaces, operations and pagers.        *)
(*                                                                           *)
(* The two threads of a transfer enter and leave it together.  The proof     *)
(* keeps track of the pair: a step changes one pair, or one thread that has  *)
(* no partner, and PairStep does the rest.                                   *)
(*                                                                           *)
(* What has arrived is what should: first that the item loop of Strings      *)
(* delivers the units of the reference one after the other (Exact), then     *)
(* that every step of Xfer keeps that between the pairs (DataStep).          *)
EXTENDS Xfer, Lists_proofs, FiniteSetTheorems, TLAPS

\* The faults s may have when it sends m to a receiver with b: those it handles in
\* an IPC of its own, and those it makes the receiver handle.
LocalFaults(s, m, b) ==
    \/ m.absent # {}
    \/ Space[s] = Space[m.to] /\ b.absent # {}
TunnelledFaults(s, m, b) == Space[s] # Space[m.to] /\ b.absent # {}
\* A thread that may be aborted receives only from senders that do not fault
\* themselves: otherwise it leaves such a sender behind (unwind, thread.cc:743).
NoAbortInLocalFault ==
    \A s \in Threads : \A m \in Sends[s] : \A b \in Receives[m.to] :
        m.to \in Victims => ~LocalFaults(s, m, b)
\* No transfer timeout is armed for a tunnelled fault: its expiry wakes the sender
\* without a handler (parse_wakeup_queues, sched-rr/schedule.cc:181-194).
NoTimeoutInTunnelledFault ==
    \A s \in Threads : \A m \in Sends[s] : \A b \in Receives[m.to] :
        TunnelledFaults(s, m, b) => "finite" \notin {m.xfer, b.xfer}

-----------------------------------------------------------------------------

\* Every thread has a TCB, an operation and the locals of a transfer.
DomainsOK ==
    /\ DOMAIN state = Threads /\ DOMAIN partner = Threads /\ DOMAIN saved = Threads
    /\ DOMAIN notify = Threads /\ DOMAIN frame = Threads
    /\ DOMAIN op = Threads /\ DOMAIN x = Threads
    /\ \A t \in Threads : "step" \in DOMAIN x[t]

\* Not aborted; and in the IPC to its pager.
Kept(t) == notify[t] # NotifyError
InFault(t) == frame[t] \in {"fault_send", "fault_wait"}

\* What holds of a thread at each place of the kernel: in user mode; polling or
\* accepted in SYS_IPC; in its receive phase; in extended_transfer; in the nested
\* IPC for a fault of its own; and in that for a fault of its sender.
InUser(t) == /\ state[t] = "running" /\ notify[t] = NotNotified
             /\ saved[t] = NotSaved /\ x[t].step = "none"
InSend(t) ==
    /\ state[t] \in {"polling", "locked_running"} /\ notify[t] = NotNotified
    /\ saved[t] = NotSaved /\ x[t].step = "none"
    /\ op[t] \in Sends[t] /\ partner[t] = To(t)
InReceive(t) ==
    /\ \/ state[t] \in {"waiting_forever", "locked_waiting", "running"} /\ notify[t] = NotNotified
       \/ state[t] = "locked_running_nested" /\ notify[t] = NotifyTunnel
    /\ saved[t] = NotSaved /\ x[t].step = "none"
    /\ op[t] \in Receives[t]
InCopy(t) ==
    /\ state[t] \in {"locked_running", "waiting_tunneled_pf"} /\ notify[t] = NotNotified
    /\ saved[t] = NotSaved /\ x[t].step # "none"
    /\ op[t] \in Sends[t] /\ partner[t] = To(t)
InOwnFault(t) ==
    /\ op[t] \in Sends[t] /\ partner[t] = pager
    /\ state[t] \in {"polling", "locked_running", "waiting_forever",
                     "locked_running_ipc_done", "running"}
    /\ \/ notify[t] = NotNotified
       \/ notify[t].fn = "handle_ipc_timeout" /\ state[t] = "running"
    /\ saved[t] = [state |-> "locked_running", partner |-> To(t)]
    /\ x[t].step # "none"
InTunnelled(t) ==
    /\ op[t] \in Receives[t] /\ partner[t] = pager
    /\ state[t] \in {"polling", "locked_running", "waiting_forever",
                     "locked_running_ipc_done"}
    /\ notify[t] = NotNotified
    /\ saved[t].state = "locked_running_nested" /\ saved[t].partner \in Threads
    /\ x[t].step = "none"
\* Told by unwind to drop its kernel stack.
IsAborted(t) == state[t] = "running" /\ saved[t] = NotSaved /\ frame[t] # "user"

Place(t) ==
    /\ ~Kept(t) => IsAborted(t)
    /\ Kept(t) =>
            \/ frame[t] = "user" /\ InUser(t)
            \/ frame[t] = "send" /\ InSend(t)
            \/ frame[t] = "receive" /\ InReceive(t)
            \/ frame[t] = "copy" /\ InCopy(t)
            \/ InFault(t) /\ (InOwnFault(t) \/ InTunnelled(t))
PlacesOK == \A t \in Threads : Place(t)
\* Who is locked in a transfer it drives, or has to handle a tunnelled fault, has
\* been switched to, and nobody else is.
Runs(t) ==
    /\ state[t] = "locked_running" \/ notify[t] = NotifyTunnel => current = t
    /\ current = t => state[t] \in Runnable
\* Only a thread in a fault of its own has a timeout, and only one that copies a
\* copy area.
Timed(t) == InFault(t) /\ InOwnFault(t) /\ notify[t] = NotNotified
Copies(t) == Kept(t) => x[t].step # "none"
RunsOK == \A t \in Threads : Runs(t)
TimersOK == \A t \in wakeup : t \in Threads /\ Timed(t)
\* A page that faults is one of those of an operation.
PagesOK == \A a \in absent : a[1] \in Threads /\ op[a[1]].absent # {}

\* s is transferring, or accepted and about to.
Busy(s) == /\ Kept(s)
           /\ \/ x[s].step # "none"
              \/ frame[s] = "send" /\ state[s] = "locked_running"
\* How far s and its receiver r are: accepted; copying; in a fault of s; and in a
\* fault of r, which r has been told of or sends to its pager.
Stage(s, r) ==
    \/ frame[s] = "send" /\ state[s] = "locked_running" /\ state[r] = "locked_waiting"
    \/ /\ frame[s] = "copy" /\ state[s] = "locked_running"
       /\ state[r] = "locked_waiting" /\ partner[r] = s
    \/ InFault(s) /\ state[r] = "locked_waiting" /\ partner[r] = s /\ r \notin Victims
    \/ /\ frame[s] = "copy" /\ state[s] = "waiting_tunneled_pf"
       /\ state[r] = "locked_running_nested" /\ partner[r] = s
    \/ /\ frame[s] = "copy" /\ state[s] = "waiting_tunneled_pf"
       /\ saved[r] = [state |-> "locked_running_nested", partner |-> s]
\* Every sender that is busy is at a stage with its receiver, no two have the same
\* receiver, and a receiver that is locked has one.
StagesOK == \A s \in Threads : Busy(s) => Stage(s, To(s))
OneSender == \A s, u \in Threads : Busy(s) /\ Busy(u) /\ To(s) = To(u) => s = u
HasSender == \A r \in Threads : Engaged(r) => \E s \in Threads : Busy(s) /\ To(s) = r
CopyAreasOK == \A s \in copy_area : s \in Threads /\ Copies(s)
XInv == /\ DomainsOK /\ PlacesOK /\ RunsOK /\ TimersOK /\ PagesOK
        /\ StagesOK /\ OneSender /\ HasSender /\ CopyAreasOK

-----------------------------------------------------------------------------

\* The tags that tell notifications and saved states from each other.
LEMMA Tags ==
    /\ NotNotified # NotifyError /\ NotNotified # NotifyTunnel /\ NotifyError # NotifyTunnel
    /\ NotNotified.fn = "none" /\ NotifyError.fn = "handle_ipc_error"
    /\ NotifyTunnel.fn = "tunnel_pagefault"
    /\ \A st : Notification("handle_ipc_timeout", st).fn = "handle_ipc_timeout"
    /\ NotSaved.state = "aborted"
    /\ NotSaved.partner = nilthread
BY DEF NotNotified, NotifyError, NotifyTunnel, Notification, NotSaved

\* Nothing of t changes that its place depends on.
Same(t) ==
    /\ state'[t] = state[t] /\ partner'[t] = partner[t] /\ saved'[t] = saved[t]
    /\ notify'[t] = notify[t] /\ frame'[t] = frame[t] /\ op'[t] = op[t]
    /\ x'[t].step = x[t].step

\* What is said of a thread alone stays true of one that nothing happens to.
LEMMA SameThread ==
    ASSUME NEW t \in Threads, Same(t)
    PROVE  /\ Place(t) => Place(t)'
           /\ Timed(t) => Timed(t)'
           /\ Copies(t) => Copies(t)'
           /\ Busy(t)' = Busy(t) /\ Engaged(t)' = Engaged(t) /\ To(t)' = To(t)
           /\ Kept(t)' = Kept(t)
<1> USE DEF Same, Kept, InFault, To
<1>1. Place(t) => Place(t)'
  BY DEF Place, IsAborted, InUser, InSend, InReceive, InCopy, InOwnFault, InTunnelled
<1>2. Timed(t) => Timed(t)'
  BY DEF Timed, InOwnFault
<1>3. Copies(t) => Copies(t)'
  BY DEF Copies
<1>4. Busy(t)' = Busy(t)
  BY DEF Busy
<1>5. Engaged(t)' = Engaged(t)
  BY DEF Engaged, HandlesTunnelled
<1> QED
  BY <1>1, <1>2, <1>3, <1>4, <1>5

\* The two sides of a transfer.
LEMMA Sides ==
    ASSUME XInv, NEW s \in Threads, Busy(s)
    PROVE  /\ To(s) \in Threads /\ To(s) # s
           /\ Engaged(To(s)) /\ ~Busy(To(s)) /\ ~Engaged(s)
           /\ op[s] \in Sends[s] /\ op[To(s)] \in Receives[To(s)]
<1> DEFINE r == To(s)
<1>1. /\ Place(s) /\ Stage(s, r) /\ Kept(s)
  BY DEF XInv, PlacesOK, StagesOK, Busy
<1>2. op[s] \in Sends[s] /\ frame[s] \in {"send", "copy", "fault_send", "fault_wait"}
  BY <1>1 DEF Place, InUser, InReceive, InSend, InCopy, InOwnFault, InTunnelled, Busy, InFault
<1>3. r \in Threads /\ r # s
  BY <1>2, XferAssumption DEF SendType, To
<1>4. Place(r)
  BY <1>3 DEF XInv, PlacesOK
<1>5. /\ state[r] = "locked_waiting" \/ state[r] = "locked_running_nested"
            \/ saved[r].state = "locked_running_nested"
  BY <1>1 DEF Stage
<1>6. Kept(r)
  BY <1>4, <1>5, Tags DEF Place, IsAborted
<1>7. \/ frame[r] = "receive" /\ InReceive(r)
      \/ InFault(r) /\ InTunnelled(r)
  <2>1. ~InUser(r) /\ ~InSend(r) /\ ~InCopy(r)
    BY <1>5, Tags DEF InUser, InSend, InCopy
  <2>2. ~InOwnFault(r)
    BY <1>5 DEF InOwnFault
  <2> QED
    BY <1>4, <1>6, <2>1, <2>2 DEF Place
<1>8. op[r] \in Receives[r] /\ ~Busy(r)
  BY <1>7 DEF Busy, InReceive, InTunnelled, InFault
<1>9. Engaged(r)
  BY <1>5, <1>6 DEF Engaged, HandlesTunnelled, Kept
<1>10. ~Engaged(s)
  BY <1>1, <1>2, Tags DEF Engaged, HandlesTunnelled, Place, InSend, InCopy, InOwnFault,
     InTunnelled, InReceive, InUser, Busy, InFault
<1> QED
  BY <1>2, <1>3, <1>8, <1>9, <1>10

\* t is in no transfer; s transfers to r.
Free(t) == ~Busy(t) /\ ~Engaged(t)
Together(s, r) == Busy(s) /\ To(s) = r

\* The thread, or the two of a transfer, that a step changes: the rest of XInv
\* follows from what holds of them afterwards.
PairChanges(s, r) ==
    /\ \A u \in Threads \ {s, r} : Same(u)
    /\ {current, current'} \subseteq {s, r, idle} /\ Runs(s)' /\ Runs(r)'
    /\ Place(s)' /\ Place(r)'
    /\ wakeup' \subseteq wakeup \cup {s, r}
    /\ \A u \in {s, r} \cap wakeup' : Timed(u)'
    /\ copy_area' \subseteq copy_area \cup {s, r}
    /\ \A u \in {s, r} \cap copy_area' : Copies(u)'
PairBefore(s, r) == Together(s, r) \/ (Free(s) /\ Free(r))
PairAfter(s, r) ==
    \/ Together(s, r) /\ Stage(s, r) /\ ~Engaged(s) /\ ~Busy(r)
    \/ Free(s) /\ Free(r)

LEMMA PairStep ==
    ASSUME XInv, DomainsOK', PagesOK', NEW s \in Threads, NEW r \in Threads,
           PairChanges(s, r), PairBefore(s, r), PairAfter(s, r)'
    PROVE  XInv'
<1>0. \A u \in Threads \ {s, r} : Same(u)
  BY DEF PairChanges
<1>1. PlacesOK'
  BY <1>0, SameThread DEF XInv, PlacesOK, PairChanges
<1>2. RunsOK'
  <2>1. \A u \in Threads \ {s, r} : Runs(u)'
    <3> SUFFICES ASSUME NEW u \in Threads \ {s, r} PROVE Runs(u)'
      OBVIOUS
    <3>1. current # u /\ current' # u
      BY XferAssumption DEF PairChanges
    <3>2. state[u] # "locked_running" /\ notify[u] # NotifyTunnel
      BY <3>1 DEF XInv, RunsOK, Runs
    <3> QED
      BY <1>0, <3>1, <3>2 DEF Same, Runs
  <2> QED
    BY <2>1 DEF RunsOK, PairChanges
<1>3. TimersOK'
  <2> SUFFICES ASSUME NEW u \in wakeup' PROVE u \in Threads /\ Timed(u)'
    BY DEF TimersOK
  <2>1. CASE u \in {s, r}
    BY <2>1 DEF PairChanges
  <2>2. CASE u \notin {s, r}
    <3>1. u \in wakeup /\ u \in Threads /\ Timed(u)
      BY <2>2 DEF PairChanges, XInv, TimersOK
    <3> QED
      BY <1>0, <2>2, <3>1, SameThread
  <2> QED
    BY <2>1, <2>2
<1>4. CopyAreasOK'
  <2> SUFFICES ASSUME NEW u \in copy_area' PROVE u \in Threads /\ Copies(u)'
    BY DEF CopyAreasOK
  <2>1. CASE u \in {s, r}
    BY <2>1 DEF PairChanges
  <2>2. CASE u \notin {s, r}
    <3>1. u \in copy_area /\ u \in Threads /\ Copies(u)
      BY <2>2 DEF PairChanges, XInv, CopyAreasOK
    <3> QED
      BY <1>0, <2>2, <3>1, SameThread
  <2> QED
    BY <2>1, <2>2
<1>5. \A u \in Threads \ {s, r} :
         Busy(u)' = Busy(u) /\ Engaged(u)' = Engaged(u) /\ To(u)' = To(u)
  BY <1>0, SameThread
<1>6. \A u \in Threads \ {s, r} : Busy(u) => To(u) \in Threads \ {s, r}
  <2> SUFFICES ASSUME NEW u \in Threads \ {s, r}, Busy(u) PROVE To(u) \notin {s, r}
    BY Sides
  <2>1. Engaged(To(u))
    BY Sides
  <2>2. CASE Together(s, r)
    <3>1. ~Engaged(s)
      BY <2>2, Sides DEF Together
    <3>2. To(u) # r
      BY <2>2 DEF Together, XInv, OneSender
    <3> QED
      BY <2>1, <3>1, <3>2
  <2>3. CASE Free(s) /\ Free(r)
    BY <2>1, <2>3 DEF Free
  <2> QED
    BY <2>2, <2>3 DEF PairBefore
<1>7. \A u \in Threads \ {s, r} : Busy(u)' => Stage(u, To(u))'
  <2> SUFFICES ASSUME NEW u \in Threads \ {s, r}, Busy(u)' PROVE Stage(u, To(u))'
    OBVIOUS
  <2>1. Busy(u) /\ To(u) \in Threads \ {s, r} /\ Stage(u, To(u)) /\ To(u)' = To(u)
    BY <1>5, <1>6 DEF XInv, StagesOK
  <2>2. Same(u) /\ Same(To(u))
    BY <1>0, <2>1
  <2>3. PICK v \in Threads : v = To(u)
    BY <2>1
  <2>4. Stage(u, v) => Stage(u, v)'
    BY <2>2, <2>3 DEF Same, Stage, InFault
  <2> QED
    BY <2>1, <2>3, <2>4
<1>8. CASE Together(s, r)' /\ Stage(s, r)' /\ ~Engaged(s)' /\ ~Busy(r)'
  <2>1. StagesOK'
    BY <1>7, <1>8 DEF StagesOK, Together
  <2>2. OneSender'
    BY <1>5, <1>6, <1>8 DEF OneSender, Together, XInv
  <2>3. HasSender'
    BY <1>5, <1>6, <1>8, Sides DEF HasSender, Together, XInv, PairBefore, Free
  <2> QED
    BY <1>1, <1>2, <1>3, <1>4, <2>1, <2>2, <2>3 DEF XInv
<1>9. CASE Free(s)' /\ Free(r)'
  <2>1. StagesOK'
    BY <1>7, <1>9 DEF StagesOK, Free
  <2>2. OneSender'
    BY <1>5, <1>9 DEF OneSender, Free, XInv
  <2>3. HasSender'
    BY <1>5, <1>6, <1>9, Sides DEF HasSender, Free, Together, XInv, PairBefore
  <2> QED
    BY <1>1, <1>2, <1>3, <1>4, <2>1, <2>2, <2>3 DEF XInv
<1> QED
  BY <1>8, <1>9 DEF PairAfter

-----------------------------------------------------------------------------

\* Where a thread stands that takes a step in the kernel.
LEMMA AtUser ==
    ASSUME XInv, NEW t \in Threads, At(t, "user")
    PROVE  InUser(t) /\ Free(t)
<1>1. Place(t) /\ Kept(t)
  BY Tags DEF XInv, PlacesOK, At, Kept
<1>2. InUser(t)
  BY <1>1 DEF Place, At, InFault
<1>3. Free(t)
  BY <1>2, Tags DEF InUser, Free, Busy, Engaged, HandlesTunnelled, At
<1> QED
  BY <1>2, <1>3

\* A sender that is switched to has been accepted, and its receiver is locked.
LEMMA AtSend ==
    ASSUME XInv, NEW t \in Threads, At(t, "send")
    PROVE  InSend(t) /\ Together(t, To(t)) /\ state[t] = "locked_running"
           /\ state[To(t)] = "locked_waiting"
<1>1. Place(t) /\ Kept(t) /\ Runs(t)
  BY Tags DEF XInv, PlacesOK, RunsOK, At, Kept
<1>2. InSend(t)
  BY <1>1 DEF Place, At, InFault
<1>3. state[t] = "locked_running"
  BY <1>1, <1>2 DEF Runs, InSend, At, Runnable
<1>4. Busy(t)
  BY <1>1, <1>3 DEF Busy, At
<1>5. Stage(t, To(t))
  BY <1>4 DEF XInv, StagesOK
<1>6. state[To(t)] = "locked_waiting"
  BY <1>5 DEF Stage, At, InFault
<1> QED
  BY <1>2, <1>3, <1>4, <1>6 DEF Together

\* A receiver that continues behind its receive has no sender any more.
LEMMA AtReceive ==
    ASSUME XInv, NEW t \in Threads, At(t, "receive")
    PROVE  InReceive(t) /\ Free(t) /\ state[t] = "running"
<1>1. Place(t) /\ Kept(t) /\ Runs(t)
  BY Tags DEF XInv, PlacesOK, RunsOK, At, Kept
<1>2. InReceive(t)
  BY <1>1 DEF Place, At, InFault
<1>3. state[t] = "running"
  BY <1>1, <1>2, Tags DEF Runs, InReceive, At, Runnable
<1>4. Free(t)
  BY <1>2, <1>3, Tags DEF InReceive, Free, Busy, Engaged, HandlesTunnelled, At
<1> QED
  BY <1>2, <1>3, <1>4

\* A sender that copies has its receiver locked, and each names the other.
LEMMA AtCopy ==
    ASSUME XInv, NEW t \in Threads, At(t, "copy")
    PROVE  InCopy(t) /\ Together(t, To(t)) /\ state[t] = "locked_running"
           /\ state[To(t)] = "locked_waiting" /\ partner[To(t)] = t
<1>1. Place(t) /\ Kept(t) /\ Runs(t)
  BY Tags DEF XInv, PlacesOK, RunsOK, At, Kept
<1>2. InCopy(t)
  BY <1>1 DEF Place, At, InFault
<1>3. state[t] = "locked_running"
  BY <1>1, <1>2 DEF Runs, InCopy, At, Runnable
<1>4. Busy(t)
  BY <1>1, <1>2 DEF Busy, InCopy
<1>5. Stage(t, To(t))
  BY <1>4 DEF XInv, StagesOK
<1>6. state[To(t)] = "locked_waiting" /\ partner[To(t)] = t
  BY <1>3, <1>5 DEF Stage, At, InFault
<1> QED
  BY <1>2, <1>3, <1>4, <1>6 DEF Together

\* A receiver that is locked waits in its receive.
LEMMA LockedWaiting ==
    ASSUME XInv, NEW r \in Threads, state[r] = "locked_waiting"
    PROVE  frame[r] = "receive" /\ InReceive(r) /\ notify[r] = NotNotified /\ Kept(r)
<1>1. Place(r)
  BY DEF XInv, PlacesOK
<1>2. Kept(r)
  BY <1>1 DEF Place, IsAborted
<1>3. frame[r] = "receive" /\ InReceive(r)
  BY <1>1, <1>2 DEF Place, InUser, InSend, InCopy, InOwnFault, InTunnelled
<1> QED
  BY <1>2, <1>3 DEF InReceive

\* A thread in a fault of its own copies to a receiver that is locked for it and
\* that nobody aborts.
LEMMA OwnFault ==
    ASSUME XInv, NEW t \in Threads, InFault(t), Kept(t), InOwnFault(t)
    PROVE  Together(t, To(t)) /\ state[To(t)] = "locked_waiting" /\ partner[To(t)] = t
           /\ To(t) \notin Victims
<1>1. Busy(t)
  BY DEF Busy, InOwnFault
<1>2. Stage(t, To(t))
  BY <1>1 DEF XInv, StagesOK
<1> QED
  BY <1>1, <1>2 DEF Stage, InFault, Together

\* A thread in the fault of its sender has that sender waiting for it.
LEMMA TunnelFault ==
    ASSUME XInv, NEW t \in Threads, InFault(t), Kept(t), InTunnelled(t)
    PROVE  \E s \in Threads : /\ Together(s, t) /\ frame[s] = "copy"
                              /\ state[s] = "waiting_tunneled_pf"
                              /\ saved[t] = [state |-> "locked_running_nested", partner |-> s]
<1>1. Engaged(t)
  BY DEF Engaged, HandlesTunnelled, InTunnelled, Kept
<1>2. PICK s \in Threads : Busy(s) /\ To(s) = t
  BY <1>1 DEF XInv, HasSender
<1>3. Stage(s, t)
  BY <1>2 DEF XInv, StagesOK
<1> QED
  BY <1>2, <1>3 DEF Stage, InTunnelled, Together

\* Every thread is in a pair, or free.
LEMMA PairOf ==
    ASSUME XInv, NEW t \in Threads
    PROVE  \E s, r \in Threads : t \in {s, r} /\ PairBefore(s, r)
<1>1. CASE Busy(t)
  BY <1>1, Sides DEF PairBefore, Together
<1>2. CASE Engaged(t)
  BY <1>2 DEF XInv, HasSender, PairBefore, Together
<1>3. CASE Free(t)
  BY <1>3 DEF PairBefore
<1> QED
  BY <1>1, <1>2, <1>3 DEF Free

\* What PairStep asks for if the pair stays as it is.
LEMMA PairStays ==
    ASSUME XInv, NEW s \in Threads, NEW r \in Threads, Same(s), Same(r), PairBefore(s, r)
    PROVE  PairAfter(s, r)'
<1>1. CASE Together(s, r)
  <2>1. Stage(s, r) /\ ~Engaged(s) /\ ~Busy(r)
    BY <1>1, Sides DEF XInv, StagesOK, Together
  <2>2. Stage(s, r)'
    BY <2>1 DEF Same, Stage, InFault
  <2> QED
    BY <1>1, <2>1, <2>2, SameThread DEF PairAfter, Together
<1>2. CASE Free(s) /\ Free(r)
  BY <1>2, SameThread DEF Free, PairAfter
<1> QED
  BY <1>1, <1>2 DEF PairBefore
-----------------------------------------------------------------------------

\* Who runs changes, and nothing else.
LEMMA DispatchStep ==
    ASSUME XInv, NEW t \in Threads, Dispatch(t) \/ Preempt(t)
    PROVE  XInv'
<1> USE DEF Dispatch, Preempt, Outside, At, tcbs, timers, xfers
<1>1. PICK s \in Threads, r \in Threads : t \in {s, r} /\ PairBefore(s, r)
  BY PairOf
<1>2. \A u \in Threads : Same(u)
  BY DEF Same
<1>3. DomainsOK' /\ PagesOK'
  BY DEF XInv, DomainsOK, PagesOK
<1>4. \A u \in Threads : Runs(u)'
  <2>1. CASE Dispatch(t)
    BY <2>1, XferAssumption DEF XInv, RunsOK, Runs
  <2>2. CASE Preempt(t)
    <3>1. InUser(t)
      BY <2>2, AtUser
    <3> QED
      BY <2>2, <3>1, XferAssumption, Tags DEF XInv, RunsOK, Runs, InUser
  <2> QED
    BY <2>1, <2>2
<1>5. PairChanges(s, r)
  BY <1>1, <1>2, <1>4, SameThread DEF PairChanges, XInv, PlacesOK, TimersOK, CopyAreasOK
<1>6. PairAfter(s, r)'
  BY <1>1, <1>2, PairStays
<1> QED
  BY <1>1, <1>3, <1>5, <1>6, PairStep

\* NextItem and PartCopied go on with a transfer.
LEMMA TransferGoesOn ==
    ASSUME NEW y, NEW m, NEW b, "step" \in DOMAIN y, y.step # "none"
    PROVE  /\ "step" \in DOMAIN NextItem(y, m, b) /\ NextItem(y, m, b).step # "none"
           /\ "step" \in DOMAIN PartCopied(y, m, b) /\ PartCopied(y, m, b).step # "none"
<1>1. /\ "step" \in DOMAIN NextItem(y, m, b) /\ NextItem(y, m, b).step # "none"
  BY DEF NextItem, Overflow
<1>2. ASSUME NEW z, "step" \in DOMAIN z, z.step # "none"
      PROVE  "step" \in DOMAIN NextSource(z, m) /\ NextSource(z, m).step # "none"
  BY <1>2 DEF NextSource, Overflow
<1>3. ASSUME NEW z, "step" \in DOMAIN z, z.step # "none"
      PROVE  "step" \in DOMAIN NextTarget(z, b) /\ NextTarget(z, b).step # "none"
  BY <1>3 DEF NextTarget, Overflow
<1> DEFINE n == PartLength(y)
           z == [y EXCEPT !.copied = @ + n, !.slen = @ - n, !.dlen = @ - n,
                          !.done = 0, !.fault = 0]
<1>4. "step" \in DOMAIN z /\ z.step = y.step
  OBVIOUS
<1>5. PartCopied(y, m, b) = NextTarget(NextSource(z, m), b)
  BY DEF PartCopied
<1> HIDE DEF z
<1> QED
  BY <1>1, <1>2, <1>3, <1>4, <1>5

\* The copy itself: only the sender's locals change.
LEMMA CopyStep ==
    ASSUME XInv, NEW t \in Threads, Item(t) \/ CopyUnit(t) \/ CopyDone(t)
    PROVE  XInv'
<1> USE DEF Item, CopyUnit, CopyDone, InPart, Copying, tcbs, timers, xfers, EnableCopyArea
<1>0. PICK r \in Threads : r = To(t)
  BY AtCopy, Sides DEF Together
<1>1. At(t, "copy") /\ InCopy(t) /\ Together(t, r) /\ r # t
  BY <1>0, AtCopy, Sides DEF Together
<1>2. /\ DOMAIN x' = Threads /\ "step" \in DOMAIN x'[t] /\ x'[t].step # "none"
      /\ \A u \in Threads \ {t} : x'[u] = x[u]
      /\ x[t].step # "none"
  <2>1. x[t].step # "none" /\ "step" \in DOMAIN x[t] /\ DOMAIN x = Threads
    BY <1>1 DEF InCopy, XInv, DomainsOK
  <2>2. CASE CopyUnit(t)
    BY <2>1, <2>2
  <2>3. CASE Item(t) \/ CopyDone(t)
    BY <2>1, <2>3, TransferGoesOn
  <2> QED
    BY <2>2, <2>3
<1>3. \A u \in Threads \ {t} : Same(u)
  BY <1>2 DEF Same
<1>4. DomainsOK' /\ PagesOK'
  BY <1>2, <1>3 DEF XInv, DomainsOK, PagesOK
<1>5. Place(t)' /\ Runs(t)' /\ Copies(t)'
  BY <1>1, <1>2, XferAssumption
     DEF XInv, PlacesOK, RunsOK, Place, IsAborted, InCopy, Kept, Runs, To, At, InFault, Copies
<1>6. Place(r)' /\ Runs(r)' /\ (Copies(r) => Copies(r)')
  BY <1>1, <1>3, SameThread DEF XInv, PlacesOK, RunsOK, Runs
<1>7. t \notin wakeup
  BY <1>1 DEF XInv, TimersOK, Timed, InFault, At
<1>8. PairChanges(t, r)
  BY <1>1, <1>3, <1>5, <1>6, <1>7, SameThread DEF PairChanges, At, XInv, TimersOK, CopyAreasOK
<1>9. Stage(t, r) /\ ~Engaged(t) /\ ~Busy(r)
  BY <1>1, Sides DEF XInv, StagesOK, Together
<1>10. PairAfter(t, r)'
  <2>1. Stage(t, r)'
    BY <1>1, <1>9 DEF Stage, InFault
  <2>2. Together(t, r)' /\ ~Engaged(t)'
    BY <1>1, <1>2, <1>9 DEF Together, Busy, To, Engaged, HandlesTunnelled, Kept
  <2> QED
    BY <1>1, <1>3, <1>9, <2>1, <2>2, SameThread DEF PairAfter
<1> QED
  BY <1>1, <1>4, <1>8, <1>10, PairStep DEF PairBefore

\* extended_transfer begins between a sender and a receiver that is locked, or
\* waits for it.
LEMMA BeginStep ==
    ASSUME XInv, NEW t \in Threads, NEW r \in Threads, t # r, Begin(t, r, state),
           PairBefore(t, r), current = t, current' = current,
           op'[t] \in Sends[t], op'[t].to = r, DOMAIN op' = Threads,
           \A u \in Threads \ {t} : op'[u] = op[u],
           notify[t] = NotNotified, saved[t] = NotSaved, t \notin wakeup, t \notin copy_area,
           state[r] \in {"locked_waiting", "waiting_forever"}, frame[r] = "receive", InReceive(r),
           notify' = notify, saved' = saved, copy_area' = copy_area, wakeup' \subseteq wakeup,
           PagesOK'
    PROVE  XInv'
<1>1. StartTransfer(op[r].buffers # <<>>).step = "item"
      /\ "step" \in DOMAIN StartTransfer(op[r].buffers # <<>>)
  BY DEF StartTransfer, NoTransfer
<1>2. /\ state'[t] = "locked_running" /\ state'[r] = "locked_waiting"
      /\ partner'[t] = r /\ partner'[r] = t /\ frame'[t] = "copy" /\ frame'[r] = frame[r]
      /\ x'[t].step = "item" /\ x'[r] = x[r] /\ DOMAIN x' = Threads
      /\ \A u \in Threads : "step" \in DOMAIN x'[u]
  BY <1>1 DEF XInv, DomainsOK, Begin, GoTo
<1>3. \A u \in Threads \ {t, r} : Same(u)
  BY DEF Same, Begin, GoTo, XInv, DomainsOK
<1>4. DomainsOK'
  BY <1>2 DEF DomainsOK, XInv, Begin, GoTo
<1>5. notify[r] = NotNotified
  BY Tags DEF InReceive
<1>6. Place(t)' /\ Runs(t)' /\ Copies(t)'
  BY <1>2, Tags DEF Place, InCopy, Kept, Runs, To, Runnable, Copies
<1>7. InReceive(r)'
  BY <1>2, <1>5 DEF InReceive
<1>8. Place(r)' /\ Runs(r)' /\ Copies(r)' = Copies(r)
  BY <1>2, <1>5, <1>7, Tags DEF Place, Kept, Runs, Copies
<1>9. r \notin wakeup
  BY DEF XInv, TimersOK, Timed, InFault
<1>10. PairChanges(t, r)
  BY <1>3, <1>6, <1>8, <1>9 DEF PairChanges, XInv, CopyAreasOK
<1>11. PairAfter(t, r)'
  <2>1. Stage(t, r)'
    BY <1>2 DEF Stage
  <2>2. Together(t, r)' /\ ~Engaged(t)'
    BY <1>2, Tags DEF Together, Busy, To, Kept, Engaged, HandlesTunnelled
  <2>3. ~Busy(r)'
    BY <1>2 DEF Busy, InReceive
  <2> QED
    BY <2>1, <2>2, <2>3 DEF PairAfter
<1> QED
  BY <1>4, <1>10, <1>11, PairStep

\* A sender that was accepted begins to copy.
LEMMA SendResumeStep ==
    ASSUME XInv, NEW t \in Threads, SendResume(t)
    PROVE  XInv'
<1> USE DEF SendResume
<1>0. PICK r \in Threads : r = To(t)
  BY AtSend, Sides DEF Together
<1>1. At(t, "send") /\ InSend(t) /\ Together(t, r) /\ r # t /\ state[r] = "locked_waiting"
  BY <1>0, AtSend, Sides DEF Together
<1>2. frame[r] = "receive" /\ InReceive(r)
  BY <1>1, LockedWaiting
<1>3. PagesOK'
  BY DEF XInv, PagesOK
<1>4. t \notin wakeup /\ t \notin copy_area
  BY <1>1, Tags DEF XInv, TimersOK, CopyAreasOK, Copies, Timed, InFault, At, InSend, Kept
<1> QED
  BY <1>0, <1>1, <1>2, <1>3, <1>4, BeginStep DEF InSend, At, PairBefore, To, XInv, DomainsOK

\* A receiver returns to user mode, to no partner.
LEMMA ReceiveResumeStep ==
    ASSUME XInv, NEW t \in Threads, ReceiveResume(t)
    PROVE  XInv'
<1> USE DEF ReceiveResume, Forget, GoTo, xfers
<1>1. At(t, "receive") /\ InReceive(t) /\ Free(t) /\ state[t] = "running"
  BY AtReceive
<1>2. \A u \in Threads \ {t} : Same(u)
  BY DEF Same, XInv, DomainsOK
<1>3. DomainsOK'
  BY DEF XInv, DomainsOK
<1>4. PagesOK'
  BY DEF XInv, PagesOK
<1>5. /\ state'[t] = "running" /\ notify'[t] = NotNotified /\ saved'[t] = NotSaved
      /\ frame'[t] = "user" /\ x' = x
  BY <1>1, Tags DEF XInv, DomainsOK, InReceive
<1>6. InUser(t)'
  BY <1>1, <1>5 DEF InUser, InReceive
<1>7. Place(t)' /\ Runs(t)' /\ Free(t)'
  BY <1>1, <1>5, <1>6, Tags DEF Place, Kept, Runs, Runnable, At, Free, Busy, Engaged,
     HandlesTunnelled, InUser
<1>8. t \notin copy_area
  BY <1>1, Tags DEF XInv, CopyAreasOK, Copies, At, InReceive, Kept
<1>9. PairChanges(t, t)
  BY <1>1, <1>2, <1>7, <1>8 DEF PairChanges, At
<1> QED
  BY <1>1, <1>3, <1>4, <1>7, <1>9, PairStep DEF PairBefore, PairAfter

\* The pages of a thread as it issues an operation, or drops the last one.
LEMMA PagesStep ==
    ASSUME XInv, NEW t \in Threads, NEW m, DOMAIN op' = Threads, op'[t] = m,
           \A u \in Threads \ {t} : op'[u] = op[u],
           absent' = Unmapped(t, m.absent)
    PROVE  PagesOK'
BY DEF XInv, PagesOK, Unmapped, Pages

\* A send finds its receiver waiting and begins, or polls.
LEMMA SendCallStep ==
    ASSUME XInv, NEW t \in Threads, SendCall(t)
    PROVE  XInv'
<1> USE DEF SendCall
<1>1. At(t, "user") /\ InUser(t) /\ Free(t)
  BY AtUser
<1>2. PICK m \in Sends[t] :
        /\ op' = [op EXCEPT ![t] = m] /\ absent' = Unmapped(t, m.absent)
        /\ IF state[m.to] = "waiting_forever" /\ partner[m.to] \in {t, anythread}
           THEN Begin(t, m.to, state) /\ UNCHANGED current
           ELSE /\ state' = [state EXCEPT ![t] = "polling"]
                /\ partner' = [partner EXCEPT ![t] = m.to]
                /\ GoTo(t, "send") /\ current' = idle /\ UNCHANGED x
  OBVIOUS
<1>3. m.to \in Threads /\ m.to # t
  BY XferAssumption DEF SendType
<1>4. /\ DOMAIN op' = Threads /\ op'[t] = m /\ \A u \in Threads \ {t} : op'[u] = op[u]
  BY <1>2 DEF XInv, DomainsOK
<1>5. PagesOK'
  BY <1>2, <1>4, PagesStep
<1>6. t \notin wakeup /\ t \notin copy_area
  BY <1>1, Tags DEF XInv, TimersOK, CopyAreasOK, Copies, Timed, InFault, At, InUser, Kept
<1>7. CASE state[m.to] = "waiting_forever" /\ partner[m.to] \in {t, anythread}
  <2>1. PICK r \in Threads : r = m.to
    BY <1>3
  <2>2. Begin(t, r, state) /\ current' = current
    BY <1>2, <1>7, <2>1
  <2>3. Place(r) /\ partner[r] # pager /\ state[r] = "waiting_forever"
    BY <1>7, <2>1, XferAssumption DEF XInv, PlacesOK
  <2>4. frame[r] = "receive" /\ InReceive(r)
    BY <2>3 DEF Place, IsAborted, InUser, InSend, InCopy, InOwnFault, InTunnelled
  <2>5. Free(r)
    BY <2>3, <2>4, Tags DEF Free, Busy, Engaged, HandlesTunnelled, InReceive
  <2> QED
    BY <1>1, <1>3, <1>4, <1>5, <1>6, <2>1, <2>2, <2>3, <2>4, <2>5, BeginStep
       DEF At, InUser, PairBefore, timers
<1>8. CASE ~(state[m.to] = "waiting_forever" /\ partner[m.to] \in {t, anythread})
  <2>1. /\ state' = [state EXCEPT ![t] = "polling"]
        /\ partner' = [partner EXCEPT ![t] = m.to]
        /\ GoTo(t, "send") /\ current' = idle /\ UNCHANGED x
    BY <1>2, <1>8
  <2> USE DEF GoTo, timers
  <2>2. \A u \in Threads \ {t} : Same(u)
    BY <1>4, <2>1 DEF Same, XInv, DomainsOK
  <2>3. DomainsOK'
    BY <1>4, <2>1 DEF XInv, DomainsOK
  <2>4. /\ state'[t] = "polling" /\ partner'[t] = m.to /\ frame'[t] = "send"
        /\ x'[t].step = "none" /\ notify'[t] = NotNotified /\ saved'[t] = NotSaved
    BY <1>1, <2>1 DEF XInv, DomainsOK, InUser
  <2>5. InSend(t)'
    BY <1>4, <2>4 DEF InSend, To
  <2>6. Place(t)' /\ Runs(t)' /\ Free(t)'
    BY <2>1, <2>4, <2>5, Tags, XferAssumption
       DEF Place, Kept, Runs, Free, Busy, Engaged, HandlesTunnelled
  <2>7. PairChanges(t, t)
    BY <1>1, <1>6, <2>1, <2>2, <2>6 DEF PairChanges, At
  <2> QED
    BY <1>1, <1>5, <2>3, <2>6, <2>7, PairStep DEF PairBefore, PairAfter
<1> QED
  BY <1>7, <1>8

\* A receive accepts a sender that polls, or waits.
LEMMA ReceiveCallStep ==
    ASSUME XInv, NEW t \in Threads, ReceiveCall(t)
    PROVE  XInv'
<1> USE DEF GoTo, timers, xfers
<1> DEFINE polling == {s \in Threads : state[s] = "polling" /\ partner[s] = t /\ ~Nested(s)}
<1>1. At(t, "user") /\ InUser(t) /\ Free(t)
  BY AtUser DEF ReceiveCall
<1>2. PICK b \in Receives[t] : op' = [op EXCEPT ![t] = b] /\ absent' = Unmapped(t, b.absent)
  BY DEF ReceiveCall
<1>3. /\ GoTo(t, "receive") /\ UNCHANGED <<saved, notify, wakeup, copy_area, x>>
      /\ \/ /\ state' = [state EXCEPT ![t] = "waiting_forever"]
            /\ partner' = [partner EXCEPT ![t] = anythread]
            /\ current' = idle
         \/ \E s \in polling :
              /\ state' = [state EXCEPT ![s] = "locked_running", ![t] = "locked_waiting"]
              /\ current' = s
              /\ UNCHANGED partner
  BY DEF ReceiveCall
<1>4. /\ DOMAIN op' = Threads /\ op'[t] = b /\ \A u \in Threads \ {t} : op'[u] = op[u]
  BY <1>2 DEF XInv, DomainsOK
<1>5. PagesOK'
  BY <1>2, <1>4, PagesStep
<1>6. t \notin wakeup /\ t \notin copy_area
  BY <1>1, Tags DEF XInv, TimersOK, CopyAreasOK, Copies, Timed, InFault, At, InUser, Kept
<1>7. CASE /\ state' = [state EXCEPT ![t] = "waiting_forever"]
           /\ partner' = [partner EXCEPT ![t] = anythread]
           /\ current' = idle
  <2>2. \A u \in Threads \ {t} : Same(u)
    BY <1>3, <1>4, <1>7 DEF Same, XInv, DomainsOK
  <2>3. DomainsOK'
    BY <1>3, <1>4, <1>7 DEF XInv, DomainsOK
  <2>4. /\ state'[t] = "waiting_forever" /\ frame'[t] = "receive"
        /\ x'[t].step = "none" /\ notify'[t] = NotNotified /\ saved'[t] = NotSaved
    BY <1>1, <1>3, <1>7 DEF XInv, DomainsOK, InUser
  <2>5. InReceive(t)'
    BY <1>4, <2>4 DEF InReceive
  <2>6. Place(t)' /\ Runs(t)' /\ Free(t)'
    BY <1>7, <2>4, <2>5, Tags, XferAssumption
       DEF Place, Kept, Runs, Free, Busy, Engaged, HandlesTunnelled
  <2>7. PairChanges(t, t)
    BY <1>1, <1>3, <1>6, <1>7, <2>2, <2>6 DEF PairChanges, At
  <2> QED
    BY <1>1, <1>5, <2>3, <2>6, <2>7, PairStep DEF PairBefore, PairAfter
<1>8. ASSUME NEW s \in polling,
             state' = [state EXCEPT ![s] = "locked_running", ![t] = "locked_waiting"],
             current' = s, UNCHANGED partner
      PROVE  XInv'
  <2>1. Place(s) /\ state[s] = "polling" /\ saved[s] = NotSaved /\ partner[s] = t /\ s # t
    BY <1>1 DEF XInv, PlacesOK, Nested, InUser
  <2>2. frame[s] = "send" /\ InSend(s) /\ Free(s)
    <3>1. frame[s] = "send" /\ InSend(s)
      BY <2>1, Tags DEF Place, IsAborted, InUser, InReceive, InCopy, InOwnFault, InTunnelled
    <3> QED
      BY <2>1, <3>1, Tags DEF Free, Busy, Engaged, HandlesTunnelled, InSend
  <2>3. \A u \in Threads \ {s, t} : Same(u)
    BY <1>3, <1>4, <1>8 DEF Same, XInv, DomainsOK
  <2>4. DomainsOK'
    BY <1>3, <1>4, <1>8 DEF XInv, DomainsOK
  <2>5. /\ state'[t] = "locked_waiting" /\ frame'[t] = "receive"
        /\ x'[t].step = "none" /\ notify'[t] = NotNotified /\ saved'[t] = NotSaved
        /\ state'[s] = "locked_running" /\ frame'[s] = "send" /\ x'[s].step = "none"
        /\ notify'[s] = NotNotified /\ saved'[s] = NotSaved /\ op'[s] = op[s]
    BY <1>1, <1>3, <1>4, <1>8, <2>1, <2>2 DEF XInv, DomainsOK, InUser, InSend
  <2>6. InReceive(t)' /\ InSend(s)' /\ To(s)' = t
    BY <1>4, <1>8, <2>1, <2>2, <2>5 DEF InReceive, InSend, To
  <2>7. Place(t)' /\ Runs(t)' /\ Place(s)' /\ Runs(s)'
    BY <1>8, <2>1, <2>5, <2>6, Tags DEF Place, Kept, Runs, Runnable
  <2>8. s \notin wakeup /\ s \notin copy_area
    BY <2>2, Tags DEF XInv, TimersOK, CopyAreasOK, Copies, Timed, InFault, InSend, Kept
  <2>9. PairChanges(s, t)
    BY <1>1, <1>3, <1>6, <1>8, <2>3, <2>7, <2>8 DEF PairChanges, At
  <2>10. PairAfter(s, t)'
    BY <2>5, <2>6, Tags DEF PairAfter, Together, Stage, Busy, Engaged, HandlesTunnelled, Kept
  <2> QED
    BY <1>1, <1>5, <2>2, <2>4, <2>9, <2>10, PairStep DEF PairBefore
<1> QED
  BY <1>3, <1>7, <1>8

\* A thread without an operation has no pages.
LEMMA PagesForgotten ==
    ASSUME XInv, NEW t \in Threads, Forget({t})
    PROVE  PagesOK'
BY DEF XInv, PagesOK, Forget

\* A transfer that ends lets both go.
LEMMA FinishStep ==
    ASSUME XInv, NEW t \in Threads, Complete(t) \/ MessageOverflow(t)
    PROVE  XInv'
<1>0. PICK r \in Threads : r = To(t)
  BY AtCopy, Sides DEF Together, Complete, MessageOverflow, Copying
<1>1. At(t, "copy") /\ InCopy(t) /\ Together(t, r) /\ r # t /\ state[r] = "locked_waiting"
  BY <1>0, AtCopy, Sides DEF Together, Complete, MessageOverflow, Copying
<1>2. /\ copy_area' = copy_area \ {t} /\ wakeup' = wakeup \ {t}
      /\ state' = [state EXCEPT ![t] = "running", ![r] = "running"]
      /\ x' = [x EXCEPT ![t] = NoTransfer] /\ GoTo(t, "user") /\ current' \in {t, r}
      /\ Forget({t}) /\ UNCHANGED <<partner, saved, notify>>
  BY <1>0 DEF Complete, MessageOverflow, Finish
<1>3. frame[r] = "receive" /\ InReceive(r) /\ notify[r] = NotNotified
  BY <1>1, LockedWaiting
<1>4. \A u \in Threads \ {t, r} : Same(u)
  BY <1>2 DEF Same, XInv, DomainsOK, GoTo, Forget
<1>5. DomainsOK'
  BY <1>2 DEF XInv, DomainsOK, GoTo, Forget, NoTransfer
<1>6. PagesOK'
  BY <1>2, PagesForgotten
<1>7. /\ state'[t] = "running" /\ notify'[t] = NotNotified /\ saved'[t] = NotSaved
      /\ x'[t].step = "none" /\ frame'[t] = "user"
      /\ state'[r] = "running" /\ notify'[r] = NotNotified /\ saved'[r] = NotSaved
      /\ x'[r] = x[r] /\ frame'[r] = "receive" /\ op'[r] = op[r]
  BY <1>1, <1>2, <1>3 DEF XInv, DomainsOK, GoTo, Forget, NoTransfer, InCopy, InReceive
<1>8. InUser(t)' /\ InReceive(r)'
  BY <1>3, <1>7 DEF InUser, InReceive
<1>9. Place(t)' /\ Place(r)' /\ Runs(t)' /\ Runs(r)' /\ Free(t)' /\ Free(r)'
  BY <1>7, <1>8, Tags DEF Place, Kept, Runs, Runnable, Free, Busy, Engaged, HandlesTunnelled,
     InReceive
<1>10. r \notin wakeup /\ (r \in copy_area => Copies(r)')
  BY <1>3, <1>7, Tags DEF XInv, TimersOK, Timed, InFault, CopyAreasOK, Copies, Kept
<1>11. PairChanges(t, r)
  BY <1>1, <1>2, <1>4, <1>9, <1>10 DEF PairChanges, At
<1> QED
  BY <1>1, <1>5, <1>6, <1>9, <1>11, PairStep DEF PairBefore, PairAfter

\* An aborted thread returns to user mode; its partner has gone before.
LEMMA HandleIpcErrorStep ==
    ASSUME XInv, NEW t \in Threads, HandleIpcError(t)
    PROVE  XInv'
<1> USE DEF HandleIpcError, BackToUser, GoTo, Forget
<1>1. ~Kept(t) /\ IsAborted(t) /\ Runs(t)
  BY DEF XInv, PlacesOK, Place, Kept, RunsOK
<1>2. \A u \in Threads \ {t} : Same(u)
  BY DEF Same, XInv, DomainsOK
<1>3. DomainsOK'
  BY DEF XInv, DomainsOK, NoTransfer
<1>4. PagesOK'
  BY PagesForgotten
<1>5. /\ state'[t] = "running" /\ notify'[t] = NotNotified /\ saved'[t] = NotSaved
      /\ x'[t].step = "none" /\ frame'[t] = "user"
  BY <1>1 DEF XInv, DomainsOK, NoTransfer, IsAborted
<1>6. Free(t) /\ t \notin wakeup
  BY <1>1, Tags DEF Free, Busy, Engaged, Kept, XInv, TimersOK, Timed
<1>7. Place(t)' /\ Runs(t)' /\ Free(t)'
  BY <1>5, Tags DEF Place, Kept, InUser, Runs, Runnable, Free, Busy, Engaged, HandlesTunnelled
<1>8. PairChanges(t, t)
  BY <1>2, <1>6, <1>7 DEF PairChanges
<1> QED
  BY <1>3, <1>4, <1>6, <1>7, <1>8, PairStep DEF PairBefore, PairAfter

\* A timeout takes the thread out of its transfer, and the receiver that is
\* locked for it.
LEMMA TimedOutStep ==
    ASSUME XInv, NEW t \in Threads, NEW r \in Threads, Together(t, r), r # t,
           NEW st, NEW len, TimedOut(t, st, len), AbortedPartner(t, st) = {r},
           state[r] = "locked_waiting", current = t, t \notin wakeup
    PROVE  XInv'
<1> USE DEF TimedOut, Unwind, BackToUser, GoTo, Forget, Returned
<1>1. frame[r] = "receive" /\ InReceive(r) /\ notify[r] = NotNotified
  BY LockedWaiting
<1>2. \A u \in Threads \ {t, r} : Same(u)
  BY DEF Same, XInv, DomainsOK
<1>3. DomainsOK'
  BY DEF XInv, DomainsOK, NoTransfer
<1>4. PagesOK'
  BY PagesForgotten
<1>5. /\ state'[t] = "running" /\ notify'[t] = NotNotified /\ saved'[t] = NotSaved
      /\ x'[t].step = "none" /\ frame'[t] = "user"
      /\ state'[r] = "running" /\ notify'[r] = NotifyError /\ saved'[r] = saved[r]
      /\ x'[r] = x[r] /\ frame'[r] = "receive"
  BY <1>1 DEF XInv, DomainsOK, NoTransfer
<1>6. Place(t)' /\ Place(r)' /\ Runs(t)' /\ Runs(r)' /\ Free(t)' /\ Free(r)'
  BY <1>1, <1>5, Tags DEF Place, Kept, InUser, IsAborted, InReceive, Runs, Runnable, Free, Busy,
     Engaged, HandlesTunnelled
<1>7. r \notin wakeup /\ Copies(r)'
  BY <1>1, <1>5 DEF XInv, TimersOK, Timed, InFault, Copies, Kept
<1>8. t \notin wakeup' /\ t \notin copy_area' /\ wakeup' \subseteq wakeup
  OBVIOUS
<1>9. PairChanges(t, r)
  BY <1>2, <1>6, <1>7, <1>8 DEF PairChanges
<1> QED
  BY <1>3, <1>4, <1>6, <1>9, PairStep DEF PairBefore, PairAfter

\* A transfer timeout of zero ends the transfer at the first fault.
LEMMA FaultTimeoutStep ==
    ASSUME XInv, NEW t \in Threads, FaultTimeout(t)
    PROVE  XInv'
<1>0. PICK r \in Threads : r = To(t)
  BY AtCopy, Sides DEF Together, FaultTimeout, Fault, InPart, Copying
<1>1. At(t, "copy") /\ InCopy(t) /\ Together(t, r) /\ r # t /\ state[r] = "locked_waiting"
      /\ partner[r] = t
  BY <1>0, AtCopy, Sides DEF Together, FaultTimeout, Fault, InPart, Copying
<1>2. PICK len : TimedOut(t, "locked_running", len)
  BY DEF FaultTimeout
<1>3. AbortedPartner(t, "locked_running") = {r}
  BY <1>0, <1>1 DEF AbortedPartner, Unwinding, Nested, InCopy
<1>4. t \notin wakeup
  BY <1>1 DEF XInv, TimersOK, Timed, InFault, At
<1> QED
  BY <1>1, <1>2, <1>3, <1>4, TimedOutStep DEF At

\* A sender whose timeout expired in a fault of its own takes its receiver along.
LEMMA HandleIpcTimeoutStep ==
    ASSUME XInv, NEW t \in Threads, HandleIpcTimeout(t)
    PROVE  XInv'
<1>1. /\ current = t /\ notify[t].fn = "handle_ipc_timeout"
      /\ TimedOut(t, notify[t].state, UnwoundLen(t, notify[t].state))
  BY DEF HandleIpcTimeout
<1>2. Place(t) /\ Kept(t) /\ notify[t] # NotNotified /\ notify[t] # NotifyTunnel
  BY <1>1, Tags DEF XInv, PlacesOK, Kept
<1>3. InFault(t) /\ InOwnFault(t)
  BY <1>2 DEF Place, InUser, InSend, InReceive, InCopy, InTunnelled
<1>4. PICK r \in Threads : r = To(t)
  BY <1>2, <1>3, OwnFault, Sides DEF Together
<1>5. Together(t, r) /\ state[r] = "locked_waiting" /\ partner[r] = t /\ r # t
  BY <1>2, <1>3, <1>4, OwnFault, Sides DEF Together
<1>6. AbortedPartner(t, notify[t].state) = {r}
  <2>1. saved[t] = [state |-> "locked_running", partner |-> r] /\ saved[t] # NotSaved
    BY <1>3, <1>4, Tags DEF InOwnFault
  <2>2. Unwinding(t, notify[t].state) = [state |-> "locked_running", partner |-> r]
    BY <2>1 DEF Unwinding, Nested
  <2> QED
    BY <1>5, <2>2 DEF AbortedPartner
<1>7. t \notin wakeup
  BY <1>2 DEF XInv, TimersOK, Timed
<1> QED
  BY <1>1, <1>5, <1>6, <1>7, TimedOutStep

\* The nested IPC of a thread whose fault was on its own pages, or of one
\* that was told to handle the fault of its sender.
LEMMA SendPagefaultPlace ==
    ASSUME XInv, DomainsOK', NEW t \in Threads, SendPagefault(t, state),
           state[t] = "locked_running", InCopy(t), notify' = notify, op' = op, x'[t].step # "none"
    PROVE  /\ InFault(t)' /\ InOwnFault(t)' /\ Place(t)' /\ Runs(t)' /\ Kept(t)'
           /\ state'[t] \in {"waiting_forever", "polling"} /\ current' = idle
           /\ notify'[t] = NotNotified
<1>1. /\ state'[t] \in {"waiting_forever", "polling"}
      /\ frame'[t] \in {"fault_send", "fault_wait"} /\ partner'[t] = pager
      /\ saved'[t] = [state |-> "locked_running", partner |-> To(t)] /\ current' = idle
      /\ notify'[t] = NotNotified
  BY DEF SendPagefault, GoTo, XInv, DomainsOK, InCopy
<1>2. InFault(t)' /\ InOwnFault(t)'
  BY <1>1 DEF InFault, InOwnFault, InCopy, To
<1> QED
  BY <1>1, <1>2, Tags, XferAssumption DEF Place, Runs, Kept

\* The sender sends to its pager; the receiver stays locked, and may not be aborted
\* meanwhile.
LEMMA LocalFaultStep ==
    ASSUME XInv, NEW t \in Threads, LocalFault(t), NoAbortInLocalFault
    PROVE  XInv'
<1>0. PICK r \in Threads : r = To(t)
  BY AtCopy, Sides DEF Together, LocalFault, Fault, InPart, Copying
<1>1. /\ At(t, "copy") /\ InCopy(t) /\ Together(t, r) /\ r # t
      /\ state[t] = "locked_running" /\ state[r] = "locked_waiting" /\ partner[r] = t
  BY <1>0, AtCopy, Sides DEF Together, LocalFault, Fault, InPart, Copying
<1>2. SendPagefault(t, state) /\ notify' = notify /\ op' = op /\ absent' = absent
      /\ copy_area' = copy_area /\ wakeup' \subseteq wakeup \cup {t} /\ RecordFault(t)
  BY DEF LocalFault, ArmTimeout, timers
<1>3. /\ DOMAIN x' = Threads /\ "step" \in DOMAIN x'[t] /\ x'[t].step = x[t].step
      /\ \A u \in Threads \ {t} : x'[u] = x[u]
      /\ x[t].step # "none"
  BY <1>1, <1>2 DEF RecordFault, XInv, DomainsOK, InCopy
<1>4. DomainsOK' /\ PagesOK'
  BY <1>2, <1>3 DEF SendPagefault, GoTo, XInv, DomainsOK, PagesOK
<1>5. \A u \in Threads \ {t} : Same(u)
  BY <1>2, <1>3 DEF Same, SendPagefault, GoTo, XInv, DomainsOK
<1>6. /\ InFault(t)' /\ InOwnFault(t)' /\ Place(t)' /\ Runs(t)' /\ Kept(t)'
      /\ state'[t] \in {"waiting_forever", "polling"} /\ current' = idle
      /\ notify'[t] = NotNotified
  BY <1>1, <1>2, <1>3, <1>4, SendPagefaultPlace
<1>7. r \notin Victims
  <2>1. op[t] \in Sends[t] /\ op[r] \in Receives[r] /\ op[t].to = r
    BY <1>0, <1>1, Sides DEF Together, To
  <2>2. SourcePage(t) \in absent => op[t].absent # {}
    BY DEF XInv, PagesOK, SourcePage
  <2>3. TargetPage(t) \in absent => op[r].absent # {}
    BY <1>0 DEF XInv, PagesOK, TargetPage
  <2>4. \/ SourcePage(t) \in absent
        \/ TargetPage(t) \in absent /\ Space[t] = Space[r]
    BY <1>0 DEF LocalFault, Fault, Tunnelled, ViaCopyArea
  <2>5. LocalFaults(t, op[t], op[r])
    BY <2>1, <2>2, <2>3, <2>4 DEF LocalFaults
  <2> QED
    BY <2>1, <2>5 DEF NoAbortInLocalFault
<1>8. r \notin wakeup /\ Runs(r)' /\ Place(r)' /\ (r \in copy_area => Copies(r)') /\ ~Busy(r)'
  <2>1. frame[r] = "receive" /\ notify[r] = NotNotified /\ Place(r) /\ ~Busy(r)
    BY <1>1, LockedWaiting, Sides DEF XInv, PlacesOK, Together
  <2>2. r \in copy_area => Copies(r)
    BY DEF XInv, CopyAreasOK
  <2> QED
    BY <1>1, <1>5, <1>6, <2>1, <2>2, SameThread, Tags, XferAssumption
       DEF XInv, TimersOK, Timed, InFault, Runs, Same
<1>9. Timed(t)' /\ Copies(t)'
  BY <1>3, <1>6 DEF Timed, Copies
<1>10. PairChanges(t, r)
  BY <1>1, <1>2, <1>5, <1>6, <1>8, <1>9 DEF PairChanges, At
<1>11. PairAfter(t, r)'
  <2>1. Stage(t, r)'
    BY <1>1, <1>5, <1>6, <1>7 DEF Stage, Same
  <2>2. Together(t, r)'
    BY <1>0, <1>2, <1>3, <1>6 DEF Together, Busy, To
  <2>3. ~Engaged(t)'
    BY <1>6 DEF Engaged, HandlesTunnelled, InOwnFault
  <2> QED
    BY <1>8, <2>1, <2>2, <2>3 DEF PairAfter
<1> QED
  BY <1>1, <1>4, <1>10, <1>11, PairStep DEF PairBefore

\* The sender waits, and the receiver is told to handle the fault.
LEMMA TunnelledFaultStep ==
    ASSUME XInv, NEW t \in Threads, TunnelledFault(t), NoTimeoutInTunnelledFault
    PROVE  XInv'
<1>0. PICK r \in Threads : r = To(t)
  BY AtCopy, Sides DEF Together, TunnelledFault, Fault, InPart, Copying
<1>1. /\ At(t, "copy") /\ InCopy(t) /\ Together(t, r) /\ r # t /\ partner[t] = r
      /\ state[t] = "locked_running" /\ state[r] = "locked_waiting" /\ partner[r] = t
  BY <1>0, AtCopy, Sides DEF Together, TunnelledFault, Fault, InPart, Copying, InCopy
<1>2. frame[r] = "receive" /\ InReceive(r) /\ notify[r] = NotNotified /\ Kept(r)
  BY <1>1, LockedWaiting
<1>3. /\ state' = [state EXCEPT ![t] = "waiting_tunneled_pf", ![r] = "locked_running_nested"]
      /\ notify' = [notify EXCEPT ![r] = NotifyTunnel] /\ current' = r
      /\ UNCHANGED <<partner, saved, frame, copy_area, op, absent>>
      /\ RecordFault(t) /\ ArmTimeout(t)
  BY <1>1 DEF TunnelledFault
<1>4. /\ DOMAIN x' = Threads /\ "step" \in DOMAIN x'[t] /\ x'[t].step = x[t].step
      /\ \A u \in Threads \ {t} : x'[u] = x[u]
      /\ x[t].step # "none"
  BY <1>1, <1>3 DEF RecordFault, XInv, DomainsOK, InCopy
<1>5. wakeup' = wakeup
  <2>1. op[t] \in Sends[t] /\ op[r] \in Receives[r] /\ op[t].to = r
    BY <1>0, <1>1, Sides DEF Together, To
  <2>2. TargetPage(t) \in absent => op[r].absent # {}
    BY <1>0 DEF XInv, PagesOK, TargetPage
  <2>3. TargetPage(t) \in absent /\ Space[t] # Space[r]
    BY <1>0 DEF TunnelledFault, Fault, Tunnelled, ViaCopyArea
  <2>4. "finite" \notin {op[t].xfer, op[r].xfer}
    BY <2>1, <2>2, <2>3 DEF TunnelledFaults, NoTimeoutInTunnelledFault
  <2>5. {op[t].xfer, op[r].xfer} \subseteq Timeouts
    BY <2>1, XferAssumption DEF SendType, ReceiveType
  <2>6. XferTimeout(t) # "later"
    BY <1>0, <2>4, <2>5 DEF XferTimeout, Timeouts
  <2> QED
    BY <1>3, <2>6 DEF ArmTimeout, timers
<1>6. DomainsOK' /\ PagesOK'
  BY <1>3, <1>4 DEF XInv, DomainsOK, PagesOK
<1>7. \A u \in Threads \ {t, r} : Same(u)
  BY <1>3, <1>4 DEF Same, XInv, DomainsOK
<1>8. /\ state'[t] = "waiting_tunneled_pf" /\ state'[r] = "locked_running_nested"
      /\ notify'[t] = NotNotified /\ notify'[r] = NotifyTunnel /\ x'[r].step = "none"
  BY <1>1, <1>2, <1>3, <1>4 DEF XInv, DomainsOK, InCopy, InReceive
<1>9. InCopy(t)' /\ InReceive(r)'
  BY <1>1, <1>2, <1>3, <1>4, <1>8 DEF InCopy, InReceive, To
<1>10. Place(t)' /\ Place(r)' /\ Runs(t)' /\ Runs(r)' /\ Copies(t)'
  BY <1>1, <1>2, <1>3, <1>4, <1>8, <1>9, Tags DEF At, Place, Kept, Runs, Runnable, Copies
<1>11. /\ t \notin wakeup /\ r \notin wakeup /\ r \notin copy_area
  BY <1>1, <1>2, Tags
     DEF XInv, TimersOK, Timed, InFault, At, CopyAreasOK, Copies, InReceive
<1>12. PairChanges(t, r)
  BY <1>1, <1>3, <1>5, <1>7, <1>10, <1>11 DEF PairChanges, At
<1>13. PairAfter(t, r)'
  <2>1. Stage(t, r)'
    BY <1>1, <1>3, <1>8 DEF Stage, At
  <2>2. Together(t, r)' /\ ~Engaged(t)' /\ ~Busy(r)'
    BY <1>0, <1>2, <1>3, <1>4, <1>8, <1>9, Tags
       DEF Together, Busy, To, Kept, Engaged, HandlesTunnelled, InCopy
  <2> QED
    BY <2>1, <2>2 DEF PairAfter
<1> QED
  BY <1>1, <1>6, <1>12, <1>13, PairStep DEF PairBefore

\* The receiver sends to its pager for its sender.
LEMMA TunnelPagefaultStep ==
    ASSUME XInv, NEW t \in Threads, TunnelPagefault(t)
    PROVE  XInv'
<1>1. /\ current = t /\ notify[t] = NotifyTunnel /\ notify' = [notify EXCEPT ![t] = NotNotified]
      /\ SendPagefault(t, state) /\ UNCHANGED <<timers, xfers, op, absent>>
  BY DEF TunnelPagefault
<1>2. Place(t) /\ Kept(t)
  BY <1>1, Tags DEF XInv, PlacesOK, Kept
<1>3. frame[t] = "receive" /\ InReceive(t) /\ state[t] = "locked_running_nested"
  <2>1. frame[t] = "receive" /\ InReceive(t)
    BY <1>1, <1>2, Tags DEF Place, InUser, InSend, InCopy, InOwnFault, InTunnelled
  <2> QED
    BY <1>1, <2>1, Tags DEF InReceive
<1>4. PICK s \in Threads : Together(s, t)
  BY <1>2, <1>3 DEF XInv, HasSender, Engaged, HandlesTunnelled, Kept, Together
<1>5. /\ frame[s] = "copy" /\ state[s] = "waiting_tunneled_pf" /\ partner[t] = s /\ s # t
  <2>1. Stage(s, t) /\ s # t
    BY <1>4, Sides DEF XInv, StagesOK, Together
  <2>2. saved[t] # [state |-> "locked_running_nested", partner |-> s]
    BY <1>3, Tags DEF InReceive
  <2> QED
    BY <1>3, <2>1, <2>2 DEF Stage
<1>6. \A u \in Threads \ {t} : Same(u)
  BY <1>1 DEF Same, XInv, DomainsOK, SendPagefault, GoTo, xfers
<1>7. DomainsOK' /\ PagesOK'
  BY <1>1 DEF XInv, DomainsOK, PagesOK, SendPagefault, GoTo, xfers
<1>8. /\ state'[t] \in {"waiting_forever", "polling"} /\ current' = idle
      /\ frame'[t] \in {"fault_send", "fault_wait"} /\ partner'[t] = pager
      /\ saved'[t] = [state |-> "locked_running_nested", partner |-> s]
      /\ notify'[t] = NotNotified /\ x'[t].step = "none" /\ op' = op
  BY <1>1, <1>3, <1>5 DEF XInv, DomainsOK, SendPagefault, GoTo, xfers, InReceive
<1>9. InFault(t)' /\ InTunnelled(t)'
  BY <1>3, <1>8 DEF InFault, InTunnelled, InReceive
<1>10. Place(t)' /\ Runs(t)' /\ ~Busy(t)'
  BY <1>8, <1>9, Tags, XferAssumption DEF Place, Kept, Runs, Busy
<1>11. Place(s)' /\ Runs(s)' /\ (s \in copy_area => Copies(s)')
  BY <1>1, <1>5, <1>6, <1>8, SameThread, XferAssumption
     DEF XInv, PlacesOK, RunsOK, Runs, CopyAreasOK, Same
<1>12. /\ t \notin wakeup /\ t \notin copy_area /\ s \notin wakeup
  BY <1>2, <1>3, <1>5 DEF XInv, TimersOK, Timed, InFault, CopyAreasOK, Copies, InReceive
<1>13. PairChanges(s, t)
  BY <1>1, <1>6, <1>8, <1>10, <1>11, <1>12 DEF PairChanges, timers, xfers
<1>14. PairAfter(s, t)'
  <2>1. Stage(s, t)'
    BY <1>5, <1>6, <1>8 DEF Stage, Same
  <2>2. Together(s, t)' /\ ~Engaged(s)'
    BY <1>4, <1>5, <1>6, Sides, SameThread DEF Together
  <2> QED
    BY <1>10, <2>1, <2>2 DEF PairAfter
<1> QED
  BY <1>4, <1>7, <1>13, <1>14, PairStep DEF PairBefore

\* A step of a nested IPC that does not end it.
LEMMA NestedStep ==
    ASSUME XInv, DomainsOK', PagesOK', NEW t \in Threads, InFault(t), Kept(t),
           notify[t] = NotNotified, InFault(t)',
           state'[t] \in {"locked_running", "waiting_forever", "locked_running_ipc_done"},
           UNCHANGED <<partner, saved, notify, op, x, copy_area>>, wakeup' \subseteq wakeup,
           \A u \in Threads \ {t} : Same(u),
           {current, current'} \subseteq {t, idle},
           state'[t] = "locked_running" => current' = t,
           current' = t => state'[t] \in Runnable
    PROVE  XInv'
<1>1. Place(t)
  BY DEF XInv, PlacesOK
<1>2. InOwnFault(t) \/ InTunnelled(t)
  BY <1>1 DEF Place, InFault
<1>3. InOwnFault(t) => InOwnFault(t)'
  BY DEF InOwnFault, To
<1>4. InTunnelled(t) => InTunnelled(t)'
  BY DEF InTunnelled
<1>5. Place(t)' /\ Runs(t)' /\ Kept(t)'
  BY <1>2, <1>3, <1>4, Tags DEF Place, Kept, Runs
<1>6. t \in wakeup => Timed(t)'
  BY <1>3 DEF XInv, TimersOK, Timed
<1>7. t \in copy_area => Copies(t)'
  BY DEF XInv, CopyAreasOK, Copies
<1>8. \A u \in Threads \ {t} : /\ Place(u)' /\ Runs(u)'
                               /\ u \in wakeup => Timed(u)'
                               /\ u \in copy_area => Copies(u)'
  <2> SUFFICES ASSUME NEW u \in Threads \ {t}
               PROVE  /\ Place(u)' /\ Runs(u)'
                      /\ u \in wakeup => Timed(u)'
                      /\ u \in copy_area => Copies(u)'
    OBVIOUS
  <2>1. Place(u) /\ Runs(u) /\ current # u /\ current' # u
    BY XferAssumption DEF XInv, PlacesOK, RunsOK
  <2>2. Runs(u)'
    BY <2>1 DEF Runs, Same
  <2> QED
    BY <2>1, <2>2, SameThread DEF XInv, TimersOK, CopyAreasOK
<1>9. CASE InOwnFault(t)
  <2>1. PICK r \in Threads : r = To(t)
    BY <1>9, OwnFault, Sides DEF Together
  <2>2. /\ Together(t, r) /\ state[r] = "locked_waiting" /\ partner[r] = t
        /\ r \notin Victims /\ r # t /\ ~Busy(r)
    BY <1>9, <2>1, OwnFault, Sides DEF Together
  <2>3. PairChanges(t, r)
    BY <1>5, <1>6, <1>7, <1>8, <2>2 DEF PairChanges, XInv, TimersOK, CopyAreasOK
  <2>4. Stage(t, r)'
    BY <2>2 DEF Stage, Same
  <2>5. Together(t, r)' /\ ~Engaged(t)'
    BY <1>3, <1>5, <1>9, <2>1 DEF Together, Busy, To, Engaged, HandlesTunnelled, InOwnFault
  <2>6. ~Busy(r)'
    BY <2>2, SameThread
  <2> QED
    BY <2>2, <2>3, <2>4, <2>5, <2>6, PairStep DEF PairBefore, PairAfter
<1>10. CASE InTunnelled(t)
  <2>1. PICK s \in Threads :
          /\ Together(s, t) /\ frame[s] = "copy" /\ state[s] = "waiting_tunneled_pf"
          /\ saved[t] = [state |-> "locked_running_nested", partner |-> s]
    BY <1>10, TunnelFault
  <2>2. s # t /\ ~Engaged(s) /\ ~Busy(t)
    BY <2>1, Sides DEF Together
  <2>3. PairChanges(s, t)
    BY <1>5, <1>6, <1>7, <1>8, <2>2 DEF PairChanges, XInv, TimersOK, CopyAreasOK
  <2>4. Stage(s, t)'
    BY <2>1, <2>2 DEF Stage, Same
  <2>5. Together(s, t)' /\ ~Engaged(s)'
    BY <2>1, <2>2, SameThread DEF Together
  <2>6. ~Busy(t)'
    BY <1>4, <1>10 DEF Busy, InTunnelled, InFault
  <2> QED
    BY <2>1, <2>3, <2>4, <2>5, <2>6, PairStep DEF PairBefore, PairAfter
<1> QED
  BY <1>2, <1>9, <1>10

\* The pager receives and replies, and the thread goes on in between.
LEMMA NestedSteps ==
    ASSUME XInv, NEW t \in Threads, FaultSent(t) \/ PagerReceives(t) \/ PagerReplies(t)
    PROVE  XInv'
<1> USE DEF FaultSent, PagerReceives, PagerReplies, Outside, At, GoTo, timers, xfers
<1>1. DomainsOK' /\ PagesOK'
  BY DEF XInv, DomainsOK, PagesOK
<1>2. \A u \in Threads \ {t} : Same(u)
  BY DEF Same, XInv, DomainsOK
<1>3. InFault(t) /\ InFault(t)'
  BY DEF InFault, XInv, DomainsOK
<1>4. Kept(t) /\ notify[t] = NotNotified
  <2>1. CASE FaultSent(t)
    BY <2>1, Tags DEF Kept
  <2>2. CASE PagerReceives(t) \/ PagerReplies(t)
    <3>1. Place(t) /\ state[t] # "running"
      BY <2>2 DEF XInv, PlacesOK
    <3>2. Kept(t)
      BY <3>1 DEF Place, IsAborted
    <3> QED
      BY <1>3, <3>1, <3>2 DEF Place, InFault, InOwnFault, InTunnelled
  <2> QED
    BY <2>1, <2>2
<1>5. /\ state'[t] \in {"locked_running", "waiting_forever", "locked_running_ipc_done"}
      /\ {current, current'} \subseteq {t, idle}
      /\ state'[t] = "locked_running" => current' = t
      /\ current' = t => state'[t] \in Runnable
      /\ UNCHANGED <<partner, saved, notify, op, x, copy_area>> /\ wakeup' \subseteq wakeup
  BY XferAssumption DEF XInv, DomainsOK, Runnable
<1> QED
  BY <1>1, <1>2, <1>3, <1>4, <1>5, NestedStep

\* The IPC around the nested one is restored as it was: the sender copies on.
LEMMA FaultHandledStep ==
    ASSUME XInv, NEW t \in Threads, FaultHandled(t)
    PROVE  XInv'
<1> USE DEF At, GoTo, timers, xfers
<1>1. /\ At(t, "fault_wait") /\ wakeup' = wakeup \ {t}
      /\ saved' = [saved EXCEPT ![t] = NotSaved]
      /\ partner' = [partner EXCEPT ![t] = saved[t].partner]
      /\ UNCHANGED <<notify, has_xfer_timeout, xfers, op, absent>>
  BY DEF FaultHandled
<1>2. Place(t) /\ Kept(t) /\ InFault(t) /\ notify[t] = NotNotified
  BY <1>1, Tags DEF XInv, PlacesOK, Kept, InFault
<1>3. CASE InOwnFault(t)
  <2>1. PICK r \in Threads : r = To(t)
    BY <1>2, <1>3, OwnFault, Sides DEF Together
  <2>2. /\ Together(t, r) /\ state[r] = "locked_waiting" /\ partner[r] = t
        /\ r # t /\ ~Busy(r) /\ saved[t] = [state |-> "locked_running", partner |-> r]
    BY <1>2, <1>3, <2>1, OwnFault, Sides DEF Together, InOwnFault
  <2>3. /\ state' = [state EXCEPT ![t] = "locked_running"] /\ frame' = [frame EXCEPT ![t] = "copy"]
        /\ current' = current
    BY <2>2 DEF FaultHandled
  <2>4. DomainsOK' /\ PagesOK'
    BY <1>1, <2>3 DEF XInv, DomainsOK, PagesOK
  <2>5. \A u \in Threads \ {t} : Same(u)
    BY <1>1, <2>3 DEF Same, XInv, DomainsOK
  <2>6. /\ state'[t] = "locked_running" /\ frame'[t] = "copy" /\ saved'[t] = NotSaved
        /\ partner'[t] = r /\ notify'[t] = NotNotified /\ x' = x /\ op' = op
    BY <1>1, <1>2, <2>2, <2>3 DEF XInv, DomainsOK
  <2>7. InCopy(t)'
    BY <1>3, <2>1, <2>6 DEF InCopy, InOwnFault, To
  <2>8. Place(t)' /\ Runs(t)' /\ Copies(t)'
    BY <1>1, <2>3, <2>6, <2>7, Tags DEF Place, Kept, Runs, Runnable, Copies, InCopy
  <2>9. frame[r] = "receive" /\ Place(r) /\ Runs(r) /\ current # r
    BY <1>1, <2>2, LockedWaiting DEF XInv, PlacesOK, RunsOK
  <2>10. Place(r)' /\ Runs(r)' /\ (r \in copy_area => Copies(r)') /\ r \notin wakeup
    BY <2>2, <2>3, <2>5, <2>9, SameThread
       DEF XInv, Runs, Same, CopyAreasOK, TimersOK, Timed, InFault
  <2>11. PairChanges(t, r)
    BY <1>1, <2>3, <2>5, <2>8, <2>10 DEF PairChanges
  <2>12. Stage(t, r)'
    BY <2>2, <2>5, <2>6 DEF Stage, Same
  <2>13. Together(t, r)' /\ ~Engaged(t)' /\ ~Busy(r)'
    BY <2>1, <2>2, <2>5, <2>6, <2>7, SameThread, Tags
       DEF Together, Busy, To, Kept, Engaged, HandlesTunnelled, InCopy
  <2> QED
    BY <2>2, <2>4, <2>11, <2>12, <2>13, PairStep DEF PairBefore, PairAfter
<1>4. CASE InTunnelled(t)
  <2>1. PICK s \in Threads :
          /\ Together(s, t) /\ frame[s] = "copy" /\ state[s] = "waiting_tunneled_pf"
          /\ saved[t] = [state |-> "locked_running_nested", partner |-> s]
    BY <1>2, <1>4, TunnelFault
  <2>2. s # t /\ ~Engaged(s) /\ ~Busy(t)
    BY <2>1, Sides DEF Together
  <2>3. /\ state' = [state EXCEPT ![t] = "locked_waiting", ![s] = "locked_running"]
        /\ current' = s /\ frame' = [frame EXCEPT ![t] = "receive"]
    BY <2>1 DEF FaultHandled
  <2>4. DomainsOK' /\ PagesOK'
    BY <1>1, <2>3 DEF XInv, DomainsOK, PagesOK
  <2>5. \A u \in Threads \ {s, t} : Same(u)
    BY <1>1, <2>3 DEF Same, XInv, DomainsOK
  <2>6. Place(s) /\ Kept(s)
    BY <2>1 DEF XInv, PlacesOK, Together, Busy
  <2>7. InCopy(s)
    BY <2>1, <2>6 DEF Place, InFault
  <2>8. /\ state'[t] = "locked_waiting" /\ frame'[t] = "receive" /\ saved'[t] = NotSaved
        /\ partner'[t] = s /\ notify'[t] = NotNotified /\ x' = x /\ op' = op
        /\ state'[s] = "locked_running" /\ frame'[s] = "copy" /\ saved'[s] = NotSaved
        /\ partner'[s] = partner[s] /\ notify'[s] = NotNotified
    BY <1>1, <1>2, <2>1, <2>2, <2>3, <2>7 DEF XInv, DomainsOK, InCopy
  <2>9. InReceive(t)' /\ InCopy(s)'
    BY <1>4, <2>7, <2>8 DEF InReceive, InCopy, InTunnelled, To
  <2>10. Place(t)' /\ Runs(t)' /\ Place(s)' /\ Runs(s)' /\ Copies(s)'
    BY <2>2, <2>3, <2>8, <2>9, Tags DEF Place, Kept, Runs, Runnable, Copies, InCopy
  <2>11. s \notin wakeup /\ t \notin copy_area
    BY <1>2, <1>4, <2>1 DEF XInv, TimersOK, Timed, InFault, CopyAreasOK, Copies, InTunnelled
  <2>12. PairChanges(s, t)
    BY <1>1, <2>3, <2>5, <2>10, <2>11 DEF PairChanges
  <2>13. Stage(s, t)'
    BY <2>8 DEF Stage
  <2>14. Together(s, t)' /\ ~Engaged(s)' /\ ~Busy(t)'
    BY <2>1, <2>8, <2>9, Tags
       DEF Together, Busy, To, Kept, Engaged, HandlesTunnelled, InCopy, InReceive
  <2> QED
    BY <2>1, <2>4, <2>12, <2>13, <2>14, PairStep DEF PairBefore, PairAfter
<1> QED
  BY <1>2, <1>3, <1>4 DEF Place, InFault

\* The timer: whoever is woken is in a fault of its own, and its receiver is
\* not told.
LEMMA ExpireStep ==
    ASSUME XInv, Expire
    PROVE  XInv'
<1>1. PICK expired \in SUBSET wakeup \ {{}} :
        LET woken == {t \in expired :
                        state[t] = "waiting_forever" => t \in has_xfer_timeout}
        IN  /\ wakeup' = wakeup \ expired
            /\ notify' = [t \in Threads |->
                            IF t \in woken /\ state[t] \in Sending \cup Receiving
                            THEN Notification("handle_ipc_timeout", state[t])
                            ELSE notify[t]]
            /\ state' = [t \in Threads |-> IF t \in woken THEN "running" ELSE state[t]]
  BY DEF Expire
<1> DEFINE woken == {t \in expired : state[t] = "waiting_forever" => t \in has_xfer_timeout}
<1>2. /\ current = idle /\ UNCHANGED <<partner, saved, frame, current, copy_area, x, op, absent>>
  BY DEF Expire, Outside, xfers
<1>3. PICK W \in SUBSET wakeup :
        /\ wakeup' \subseteq wakeup \ W /\ DOMAIN state' = Threads /\ DOMAIN notify' = Threads
        /\ \A t \in W : state'[t] = "running"
        /\ \A t \in W : notify'[t] = notify[t] \/ notify'[t].fn = "handle_ipc_timeout"
        /\ \A t \in Threads \ W : state'[t] = state[t] /\ notify'[t] = notify[t]
  <2>1. woken \in SUBSET wakeup /\ wakeup' \subseteq wakeup \ woken
    BY <1>1
  <2>2. /\ DOMAIN state' = Threads /\ DOMAIN notify' = Threads
        /\ \A t \in Threads : state'[t] = IF t \in woken THEN "running" ELSE state[t]
    BY <1>1
  <2>4. ASSUME NEW t \in Threads
        PROVE  \/ notify'[t] = notify[t]
               \/ t \in woken /\ notify'[t].fn = "handle_ipc_timeout"
    <3>1. notify'[t] = IF t \in woken /\ state[t] \in Sending \cup Receiving
                       THEN Notification("handle_ipc_timeout", state[t]) ELSE notify[t]
      BY <1>1
    <3>2. Notification("handle_ipc_timeout", state[t]).fn = "handle_ipc_timeout"
      BY Tags
    <3> HIDE DEF woken
    <3> QED
      BY <3>1, <3>2
  <2>3. wakeup \subseteq Threads
    BY DEF XInv, TimersOK
  <2> QED
    BY <2>1, <2>2, <2>3, <2>4
<1>4. \A t \in Threads \ W : Same(t)
  BY <1>2, <1>3 DEF Same
<1>5. \A t \in W : t \in Threads /\ Timed(t)
  BY <1>3 DEF XInv, TimersOK
<1>6. ASSUME NEW t \in W
      PROVE  /\ Place(t)' /\ Runs(t)' /\ Copies(t)'
             /\ Busy(t) /\ Busy(t)' /\ ~Engaged(t) /\ ~Engaged(t)' /\ InFault(t) /\ InFault(t)'
  <2>1. t \in Threads /\ InFault(t) /\ InOwnFault(t) /\ Kept(t)
    BY <1>5, Tags DEF Timed, Kept
  <2>2. /\ state'[t] = "running" /\ InFault(t)' /\ x' = x /\ saved' = saved /\ op' = op
        /\ partner' = partner
        /\ notify'[t] = NotNotified \/ notify'[t].fn = "handle_ipc_timeout"
    BY <1>2, <1>3, <1>5, <2>1 DEF InFault, Timed
  <2>3. InOwnFault(t)'
    BY <2>1, <2>2 DEF InOwnFault, To
  <2>4. Kept(t)' /\ notify'[t] # NotifyTunnel
    BY <2>2, Tags DEF Kept
  <2>5. Place(t)' /\ Runs(t)'
    BY <1>2, <1>5, <2>2, <2>3, <2>4, XferAssumption DEF Place, Runs
  <2>6. Copies(t)' /\ Busy(t) /\ Busy(t)'
    BY <2>1, <2>3, <2>4 DEF Copies, Busy, InOwnFault
  <2>7. ~Engaged(t) /\ ~Engaged(t)'
    BY <2>1, <2>3 DEF Engaged, HandlesTunnelled, InOwnFault
  <2> QED
    BY <2>1, <2>2, <2>5, <2>6, <2>7
<1>7. ASSUME NEW t \in Threads
      PROVE  /\ Busy(t)' = Busy(t) /\ Engaged(t)' = Engaged(t) /\ To(t)' = To(t)
             /\ Copies(t) => Copies(t)'
  <2>1. CASE t \in W
    <3>1. To(t)' = To(t)
      BY <1>2 DEF To
    <3> QED
      BY <1>6, <2>1, <3>1 DEF Busy, Engaged
  <2>2. CASE t \notin W
    BY <1>4, <2>2, SameThread
  <2> QED
    BY <2>1, <2>2
<1>8. DomainsOK' /\ PagesOK'
  BY <1>2, <1>3 DEF XInv, DomainsOK, PagesOK
<1>9. PlacesOK' /\ RunsOK'
  <2>1. ASSUME NEW t \in Threads \ W PROVE Place(t)' /\ Runs(t)'
    BY <1>2, <1>4, SameThread, XferAssumption DEF XInv, PlacesOK, RunsOK, Runs, Same
  <2> QED
    BY <1>6, <2>1 DEF PlacesOK, RunsOK
<1>10. TimersOK' /\ CopyAreasOK'
  BY <1>2, <1>3, <1>4, <1>7, SameThread DEF XInv, TimersOK, CopyAreasOK
<1>11. StagesOK'
  <2> SUFFICES ASSUME NEW s \in Threads, Busy(s)' PROVE Stage(s, To(s))'
    BY DEF StagesOK
  <2>1. PICK r \in Threads : r = To(s) /\ Busy(s) /\ Stage(s, r) /\ ~Busy(r)
    BY <1>7, Sides DEF XInv, StagesOK
  <2>2. Same(r) /\ To(s)' = r
    BY <1>4, <1>6, <1>7, <2>1
  <2>3. CASE s \in W
    <3>1. state[r] = "locked_waiting" /\ partner[r] = s /\ r \notin Victims
      BY <1>6, <2>1, <2>3 DEF Stage, InFault
    <3> QED
      BY <1>6, <2>2, <2>3, <3>1 DEF Stage, Same
  <2>4. CASE s \notin W
    BY <1>4, <2>1, <2>2, <2>4 DEF Stage, Same, InFault
  <2> QED
    BY <2>3, <2>4
<1>12. OneSender' /\ HasSender'
  BY <1>7 DEF XInv, OneSender, HasSender
<1> QED
  BY <1>8, <1>9, <1>10, <1>11, <1>12 DEF XInv

\* Aborted: nobody who has begun a copy runs, and the partner goes with the
\* thread, or the thread has none.
LEMMA ExregsAbortStep ==
    ASSUME XInv, NEW v \in Threads, ExregsAbort(v)
    PROVE  XInv'
<1> DEFINE ps == AbortedPartner(v, state[v])
           u == Unwinding(v, state[v])
<1>1. /\ current = idle /\ v \in Victims /\ state[v] \in Sending \cup Receiving
      /\ state' = [t \in Threads |-> IF t \in ps \cup {v} THEN "running" ELSE state[t]]
      /\ partner' = [partner EXCEPT ![v] = u.partner]
      /\ wakeup' = IF state[v] \in {"polling", "waiting_forever"} THEN wakeup \ {v} ELSE wakeup
      /\ notify' = [t \in Threads |-> IF t \in ps \cup {v} THEN NotifyError ELSE notify[t]]
      /\ saved' = [saved EXCEPT ![v] = NotSaved]
      /\ current' \in {idle, v} \cup ps
      /\ UNCHANGED <<frame, copy_area, x, op, absent>>
  BY DEF ExregsAbort, Unwind, Outside, xfers
<1>2. /\ Place(v) /\ Runs(v) /\ Kept(v)
      /\ state[v] \in {"polling", "waiting_forever", "locked_waiting"}
  <2>1. Place(v) /\ Runs(v)
    BY DEF XInv, PlacesOK, RunsOK
  <2>2. state[v] # "locked_running" /\ state[v] # "running"
    BY <1>1, <2>1, XferAssumption DEF Runs, Sending, Receiving
  <2> QED
    BY <1>1, <2>1, <2>2 DEF Sending, Receiving, Place, IsAborted
<1>3. state[v] # "locked_waiting"
  <2> SUFFICES ASSUME state[v] = "locked_waiting" PROVE FALSE
    OBVIOUS
  <2>1. InReceive(v) /\ Engaged(v)
    BY LockedWaiting DEF Engaged, Kept
  <2>2. PICK s \in Threads : Busy(s) /\ To(s) = v
    BY <2>1 DEF XInv, HasSender
  <2>3. state[s] # "locked_running"
    BY <1>1, XferAssumption DEF XInv, RunsOK, Runs
  <2>4. Stage(s, v)
    BY <2>2 DEF XInv, StagesOK
  <2>5. saved[v] = NotSaved /\ NotSaved.state = "aborted"
    BY <2>1, Tags DEF InReceive
  <2>6. saved[v] # [state |-> "locked_running_nested", partner |-> s]
    BY <2>5
  <2> QED
    BY <1>1, <2>3, <2>4, <2>6 DEF Stage
<1>4. ASSUME NEW s \in Threads, NEW r \in Threads, PairBefore(s, r), ps \cup {v} = {s, r},
             \A t \in {s, r} : /\ frame[t] # "user"
                               /\ t # v => saved[t] = NotSaved /\ t \notin wakeup
      PROVE  XInv'
  <2> HIDE DEF ps, u
  <2>1. \A t \in {s, r} : /\ state'[t] = "running" /\ notify'[t] = NotifyError
                          /\ saved'[t] = NotSaved /\ frame'[t] # "user" /\ t \notin wakeup'
    BY <1>1, <1>2, <1>3, <1>4 DEF XInv, DomainsOK
  <2>2. \A t \in Threads \ {s, r} : Same(t)
    BY <1>1, <1>4 DEF Same, XInv, DomainsOK
  <2>3. DomainsOK' /\ PagesOK'
    BY <1>1 DEF XInv, DomainsOK, PagesOK
  <2>4. \A t \in {s, r} : /\ Place(t)' /\ Runs(t)' /\ Copies(t)' /\ ~Busy(t)' /\ ~Engaged(t)'
    BY <2>1, Tags DEF Place, IsAborted, Kept, Runs, Runnable, Copies, Busy, Engaged
  <2>5. PairChanges(s, r)
    BY <1>1, <1>4, <2>1, <2>2, <2>4 DEF PairChanges
  <2>6. PairAfter(s, r)'
    BY <2>4 DEF PairAfter, Free
  <2> QED
    BY <1>4, <2>3, <2>5, <2>6, PairStep
<1>5. CASE frame[v] \in {"send", "receive"}
  <2>1. saved[v] = NotSaved /\ x[v].step = "none"
    BY <1>2, <1>5 DEF Place, InSend, InReceive, InFault
  <2>2. u.state \in {"polling", "waiting_forever"}
    BY <1>2, <1>3, <2>1 DEF Unwinding, Nested
  <2>3. ps = {}
    BY <2>2 DEF AbortedPartner
  <2>4. Free(v)
    BY <1>2, <1>3, <2>1, Tags DEF Free, Busy, Engaged, HandlesTunnelled
  <2> QED
    BY <1>4, <1>5, <2>3, <2>4 DEF PairBefore
<1>6. CASE InFault(v) /\ InOwnFault(v)
  <2>1. PICK r \in Threads : r = To(v)
    BY <1>2, <1>6, OwnFault, Sides DEF Together
  <2>2. /\ Together(v, r) /\ state[r] = "locked_waiting" /\ partner[r] = v
    BY <1>2, <1>6, <2>1, OwnFault
  <2>3. u = [state |-> "locked_running", partner |-> r]
    BY <1>6, <2>1, Tags DEF Unwinding, Nested, InOwnFault
  <2>4. ps = {r}
    BY <2>2, <2>3 DEF AbortedPartner
  <2>5. frame[r] = "receive" /\ saved[r] = NotSaved /\ r \notin wakeup
    BY <2>2, LockedWaiting DEF InReceive, XInv, TimersOK, Timed, InFault
  <2> QED
    BY <1>4, <1>6, <2>2, <2>4, <2>5 DEF PairBefore, InFault
<1>7. CASE InFault(v) /\ InTunnelled(v)
  <2>1. PICK s \in Threads :
          /\ Together(s, v) /\ frame[s] = "copy" /\ state[s] = "waiting_tunneled_pf"
          /\ saved[v] = [state |-> "locked_running_nested", partner |-> s]
    BY <1>2, <1>7, TunnelFault
  <2>2. u = [state |-> "locked_running_nested", partner |-> s]
    BY <2>1, Tags DEF Unwinding, Nested
  <2>3. ps = {s}
    BY <2>1, <2>2 DEF AbortedPartner
  <2>4. saved[s] = NotSaved /\ s \notin wakeup
    <3>1. Place(s) /\ Kept(s)
      BY <2>1 DEF XInv, PlacesOK, Together, Busy
    <3> QED
      BY <2>1, <3>1 DEF Place, InCopy, InFault, XInv, TimersOK, Timed
  <2> QED
    BY <1>4, <1>7, <2>1, <2>3, <2>4 DEF PairBefore, InFault
<1> QED
  BY <1>2, <1>3, <1>5, <1>6, <1>7 DEF Place, InUser, InCopy, InFault

-----------------------------------------------------------------------------
(* The invariant, and what it says                                          *)

\* In the beginning everybody is in user mode.
LEMMA Initially == Init => XInv
<1> SUFFICES ASSUME Init PROVE XInv
  OBVIOUS
<1> USE DEF Init
<1>1. DomainsOK
  BY DEF DomainsOK, NoTransfer
<1>2. \A t \in Threads : Kept(t) /\ frame[t] = "user" /\ InUser(t) /\ ~Busy(t) /\ ~Engaged(t)
  BY Tags DEF Kept, InUser, NoTransfer, Busy, Engaged, HandlesTunnelled
<1>3. PlacesOK
  BY <1>2 DEF PlacesOK, Place
<1>4. RunsOK
  BY Tags, XferAssumption DEF RunsOK, Runs
<1>5. /\ TimersOK /\ PagesOK /\ CopyAreasOK
  BY DEF TimersOK, PagesOK, CopyAreasOK
<1>6. StagesOK /\ OneSender /\ HasSender
  BY <1>2 DEF StagesOK, OneSender, HasSender
<1> QED
  BY <1>1, <1>3, <1>4, <1>5, <1>6 DEF XInv

\* The invariant depends on the variables alone.
LEMMA Stutter ==
    ASSUME XInv, UNCHANGED vars
    PROVE  XInv'
<1> USE DEF vars, tcbs, timers, xfers
<1>1. \A t \in Threads : Same(t)
  BY DEF Same
<1>2. \A t \in Threads : /\ Place(t)' /\ Runs(t)'
                         /\ Busy(t)' = Busy(t) /\ Engaged(t)' = Engaged(t) /\ To(t)' = To(t)
                         /\ Copies(t) => Copies(t)'
  BY <1>1, SameThread DEF XInv, PlacesOK, RunsOK, Runs
<1>3. DomainsOK' /\ PagesOK' /\ PlacesOK' /\ RunsOK'
  BY <1>2 DEF XInv, DomainsOK, PagesOK, PlacesOK, RunsOK
<1>4. TimersOK' /\ CopyAreasOK'
  BY <1>1, <1>2, SameThread DEF XInv, TimersOK, CopyAreasOK
<1>5. OneSender' /\ HasSender'
  BY <1>2 DEF XInv, OneSender, HasSender
<1>6. StagesOK'
  BY DEF XInv, StagesOK, Stage, Busy, Kept, To, InFault
<1> QED
  BY <1>3, <1>4, <1>5, <1>6 DEF XInv

\* Every step keeps the invariant, of one pair at a time.
LEMMA Step ==
    ASSUME XInv, [Next]_vars, NoAbortInLocalFault, NoTimeoutInTunnelledFault
    PROVE  XInv'
<1>1. CASE \E t \in Threads : SendCall(t) \/ ReceiveCall(t)
  BY <1>1, SendCallStep, ReceiveCallStep
<1>2. CASE \E t \in Threads : SendResume(t) \/ ReceiveResume(t)
  BY <1>2, SendResumeStep, ReceiveResumeStep
<1>3. CASE \E t \in Threads : Item(t) \/ CopyUnit(t) \/ CopyDone(t)
  BY <1>3, CopyStep
<1>4. CASE \E t \in Threads : Complete(t) \/ MessageOverflow(t)
  BY <1>4, FinishStep
<1>5. CASE \E t \in Threads : FaultTimeout(t) \/ HandleIpcError(t) \/ HandleIpcTimeout(t)
  BY <1>5, FaultTimeoutStep, HandleIpcErrorStep, HandleIpcTimeoutStep
<1>6. CASE \E t \in Threads : LocalFault(t) \/ TunnelledFault(t)
  BY <1>6, LocalFaultStep, TunnelledFaultStep
<1>7. CASE \E t \in Threads : TunnelPagefault(t) \/ FaultHandled(t)
  BY <1>7, TunnelPagefaultStep, FaultHandledStep
<1>8. CASE \E t \in Threads : FaultSent(t) \/ PagerReceives(t) \/ PagerReplies(t)
  BY <1>8, NestedSteps
<1>9. CASE \E t \in Threads : ExregsAbort(t) \/ Dispatch(t) \/ Preempt(t)
  BY <1>9, ExregsAbortStep, DispatchStep
<1>10. CASE Expire
  BY <1>10, ExpireStep
<1>11. CASE UNCHANGED vars
  BY <1>11, Stutter
<1> QED
  BY <1>1, <1>2, <1>3, <1>4, <1>5, <1>6, <1>7, <1>8, <1>9, <1>10, <1>11 DEF Next, KernelStep

\* The invariant says who is coupled with whom.
LEMMA InvCoupled == XInv => Coupled
<1> SUFFICES ASSUME XInv PROVE Coupled
  OBVIOUS
<1>1. \A r \in Threads : SendersTo(r) = {s \in Threads : Busy(s) /\ To(s) = r}
  BY DEF SendersTo, Busy, Kept
<1>2. ASSUME NEW r \in Threads
      PROVE  Cardinality(SendersTo(r)) = IF Engaged(r) THEN 1 ELSE 0
  <2>1. CASE Engaged(r)
    <3>1. PICK s \in Threads : Busy(s) /\ To(s) = r
      BY <2>1 DEF XInv, HasSender
    <3>2. SendersTo(r) = {s}
      BY <1>1, <3>1 DEF XInv, OneSender
    <3> QED
      BY <2>1, <3>2, FS_Singleton
  <2>2. CASE ~Engaged(r)
    <3>1. SendersTo(r) = {}
      BY <1>1, <2>2, Sides
    <3> QED
      BY <2>2, <3>1, FS_EmptySet
  <2> QED
    BY <2>1, <2>2
<1>3. ASSUME NEW r \in Threads, NEW s \in SendersTo(r)
      PROVE  state[s] = "waiting_tunneled_pf" <=> HandlesTunnelled(r)
  <2>1. s \in Threads /\ Busy(s) /\ To(s) = r
    BY <1>1
  <2>2. Stage(s, r)
    BY <2>1 DEF XInv, StagesOK
  <2>3. CASE state[r] = "locked_waiting"
    <3>1. saved[r].state = "aborted"
      BY <2>3, LockedWaiting, Tags DEF InReceive
    <3>2. ~HandlesTunnelled(r)
      BY <2>3, <3>1 DEF HandlesTunnelled
    <3>3. state[s] # "waiting_tunneled_pf"
      <4>1. Stage(s, r) /\ state[r] = "locked_waiting" /\ saved[r].state # "locked_running_nested"
        BY <2>2, <2>3, <3>1
      <4>2. state[s] = "locked_running" \/ InFault(s)
        BY <4>1 DEF Stage
      <4>3. InFault(s) => state[s] # "waiting_tunneled_pf"
        BY <2>1 DEF XInv, PlacesOK, Place, Busy, InOwnFault, InTunnelled, InFault
      <4> QED
        BY <4>2, <4>3
    <3> QED
      BY <3>2, <3>3
  <2>4. CASE state[r] # "locked_waiting"
    BY <2>2, <2>4 DEF Stage, HandlesTunnelled
  <2> QED
    BY <2>3, <2>4
<1>4. \A s \in copy_area : notify[s] = NotifyError \/ x[s].step # "none"
  BY DEF XInv, CopyAreasOK, Copies, Kept
<1> QED
  BY <1>2, <1>3, <1>4 DEF Coupled

\* For any threads, spaces, operations and faults the two threads of a transfer
\* enter and leave it together: a receiver that is locked has exactly one sender
\* busy with it, a sender waits for a tunnelled fault exactly while its receiver
\* handles it, and copy areas are kept only for transfers (extended_transfer,
\* handle_pagefault, unwind).  The premises exclude an abort of the receiver in a
\* fault of the sender and a timeout in a tunnelled fault, in which the code loses
\* one of the two.
THEOREM TransfersCoupled ==
    ASSUME NoAbortInLocalFault, NoTimeoutInTunnelledFault
    PROVE  Spec => []Coupled
<1>1. Init => XInv
  BY Initially
<1>2. XInv /\ [Next]_vars => XInv'
  BY Step
<1>3. XInv => Coupled
  BY InvCoupled
<1> QED
  BY <1>1, <1>2, <1>3, PTL DEF Spec

-----------------------------------------------------------------------------
(* The strings *)

\* The first k sequences of F, one behind the other.
Parts(F, k) == FlattenSeq(SubSeq(F, 1, k))

\* f are the first N prefixes of F, one behind the other.
Joined(F, N, f) == \A n \in 1..N : f[n] = f[n - 1] \o F[n]

\* Two sequences of prefixes are the same.
LEMMA JoinedUnique ==
    ASSUME NEW F, NEW N \in Nat, NEW f, NEW g, f[0] = g[0],
           Joined(F, N, f), Joined(F, N, g)
    PROVE  \A n \in 0..N : f[n] = g[n]
<1> DEFINE Q == {n \in Nat : n <= N => f[n] = g[n]}
<1>1. 0 \in Q
  OBVIOUS
<1>2. ASSUME NEW n \in Nat, n \in Q PROVE n + 1 \in Q
  <2>1. SUFFICES ASSUME n + 1 <= N PROVE f[n + 1] = g[n + 1]
    OBVIOUS
  <2>2. n + 1 \in 1..N /\ (n + 1) - 1 = n /\ f[n] = g[n]
    BY <1>2, <2>1
  <2> QED
    BY <2>2 DEF Joined
<1>3. \A n \in Nat : n \in Q
  <2> HIDE DEF Q
  <2> QED
    BY <1>1, <1>2, Induction
<1> QED
  BY <1>3

\* FlattenSeq appends one sequence after the other.
LEMMA FlattenSteps ==
    ASSUME NEW S, NEW F \in Seq(Seq(S))
    PROVE  \E f :
             /\ \A n \in 0..Len(F) : f[n] \in Seq(S)
             /\ f[0] = <<>> /\ FlattenSeq(F) = f[Len(F)]
             /\ \A n \in 1..Len(F) : f[n] = f[n - 1] \o F[n]
<1> DEFINE N == Len(F)
           Z == Seq(S)
           h == [n \in 1..N |-> [s \in Z |-> s \o F[n]]]
           a == <<>>
<1>1. N \in Nat /\ a \in Z /\ \A n \in 1..N : F[n] \in Z
  OBVIOUS
<1>2. h \in [1..N -> [Z -> Z]]
  BY <1>1
<1>3. PICK f \in [0..N -> Z] : Computes(f, N, a, h)
  <2> HIDE DEF h, Z, N, a
  <2> QED
    BY <1>1, <1>2, Recursion
<1>4. f[0] = <<>> /\ \A n \in 1..N : f[n] = f[n - 1] \o F[n]
  <2>1. ASSUME NEW n \in 1..N PROVE f[n] = f[n - 1] \o F[n]
    <3>1. n - 1 \in 0..N
      BY <1>1
    <3>2. f[n - 1] \in Z
      <4> HIDE DEF Z, N
      <4> QED
        BY <3>1
    <3>3. f[n] = h[n][f[n - 1]]
      BY <1>3 DEF Computes
    <3> QED
      BY <3>2, <3>3
  <2> QED
    BY <1>3, <2>1 DEF Computes
<1> HIDE DEF Z
<1>4a. \A n \in 0..N : f[n] \in Z
  BY <1>3
<1>5. CASE N = 0
  <2>1. F = <<>> /\ FlattenSeq(F) = <<>>
    BY <1>5 DEF FlattenSeq
  <2> QED
    BY <1>4, <1>4a, <1>5, <2>1 DEF Z
<1>6. CASE N # 0
  <2> DEFINE e == [i \in 1..N |-> f[i]]
             g == CHOOSE fl : fl = [i \in 1..N |-> IF i = 1 THEN F[i] ELSE fl[i - 1] \o F[i]]
  <2>1. FlattenSeq(F) = g[N]
    BY <1>6 DEF FlattenSeq
  <2>2. \A i \in 1..N : e[i] = IF i = 1 THEN F[i] ELSE e[i - 1] \o F[i]
    <3> SUFFICES ASSUME NEW i \in 1..N PROVE e[i] = IF i = 1 THEN F[i] ELSE e[i - 1] \o F[i]
      OBVIOUS
    <3>0. e[i] = f[i] /\ f[i] = f[i - 1] \o F[i]
      BY <1>4
    <3>1. CASE i = 1
      <4>1. f[1] = <<>> \o F[1] /\ F[1] \in Seq(S)
        <5>1. f[1] = f[1 - 1] \o F[1] /\ 1 - 1 = 0
          <6>1. f[1] = f[1 - 1] \o F[1]
            BY <3>0, <3>1, Zenon
          <6> QED
            BY <6>1
        <5> QED
          BY <1>1, <1>4, <3>1, <5>1
      <4>2. \A s \in Seq(S) : <<>> \o s = s
        OBVIOUS
      <4> QED
        BY <3>0, <3>1, <4>1, <4>2
    <3>2. CASE i # 1
      <4>1. i - 1 \in 1..N
        BY <1>1, <3>2
      <4>2. e[i - 1] = f[i - 1]
        BY <4>1
      <4> QED
        BY <3>0, <3>2, <4>2
    <3> QED
      BY <3>1, <3>2
  <2>3. e = [i \in 1..N |-> IF i = 1 THEN F[i] ELSE e[i - 1] \o F[i]]
    BY <2>2
  <2>4. g = [i \in 1..N |-> IF i = 1 THEN F[i] ELSE g[i - 1] \o F[i]]
    <3> HIDE DEF e
    <3> QED
      BY <2>3
  <2> HIDE DEF g
  <2>5. \A n \in 1..N : g[n] = f[n]
    <3> DEFINE Q == {n \in Nat : n \in 1..N => g[n] = f[n]}
    <3>1. 0 \in Q
      OBVIOUS
    <3>2. ASSUME NEW n \in Nat, n \in Q PROVE n + 1 \in Q
      <4>1. SUFFICES ASSUME n + 1 \in 1..N PROVE g[n + 1] = f[n + 1]
        OBVIOUS
      <4>2. e[n + 1] = IF n + 1 = 1 THEN F[n + 1] ELSE e[(n + 1) - 1] \o F[n + 1]
        BY <2>2, <4>1
      <4>3. g[n + 1] = IF n + 1 = 1 THEN F[n + 1] ELSE g[(n + 1) - 1] \o F[n + 1]
        BY <2>4, <4>1
      <4>4. CASE n = 0
        BY <4>1, <4>2, <4>3, <4>4
      <4>5. CASE n # 0
        <5>1. n \in 1..N /\ (n + 1) - 1 = n /\ n + 1 # 1
          BY <1>1, <4>1, <4>5
        <5>2. g[n] = f[n] /\ e[n] = f[n]
          BY <3>2, <5>1
        <5> QED
          BY <4>1, <4>2, <4>3, <5>1, <5>2
      <4> QED
        BY <4>4, <4>5
    <3>3. \A n \in Nat : n \in Q
      <4> HIDE DEF Q
      <4> QED
        BY <3>1, <3>2, Induction
    <3> QED
      BY <1>1, <3>3
  <2>6. N \in 1..N
    BY <1>1, <1>6
  <2> QED
    BY <1>4, <1>4a, <2>1, <2>5, <2>6 DEF Z
<1> QED
  BY <1>5, <1>6

\* So do its parts.
LEMMA PartsSteps ==
    ASSUME NEW S, NEW F \in Seq(Seq(S))
    PROVE  /\ Len(F) \in Nat /\ FlattenSeq(F) \in Seq(S)
           /\ Parts(F, 0) = <<>> /\ Parts(F, Len(F)) = FlattenSeq(F)
           /\ \A n \in 0..Len(F) : Parts(F, n) \in Seq(S)
           /\ \A n \in 1..Len(F) : Parts(F, n) = Parts(F, n - 1) \o F[n]
<1>1. PICK f :
             /\ \A n \in 0..Len(F) : f[n] \in Seq(S)
             /\ f[0] = <<>> /\ FlattenSeq(F) = f[Len(F)]
             /\ \A n \in 1..Len(F) : f[n] = f[n - 1] \o F[n]
  BY FlattenSteps
<1>2. Len(F) \in Nat
  OBVIOUS
<1>3. ASSUME NEW k \in 0..Len(F) PROVE Parts(F, k) = f[k]
  <2> DEFINE G == SubSeq(F, 1, k)
  <2>1. G \in Seq(Seq(S)) /\ Len(G) = k /\ \A i \in 1..k : G[i] = F[i]
    BY <1>2
  <2> HIDE DEF G
  <2>2. PICK e :
             /\ \A n \in 0..Len(G) : e[n] \in Seq(S)
             /\ e[0] = <<>> /\ FlattenSeq(G) = e[Len(G)]
             /\ \A n \in 1..Len(G) : e[n] = e[n - 1] \o G[n]
    BY <2>1, FlattenSteps
  <2>3. e[0] = f[0] /\ k \in Nat /\ k \in 0..k
    BY <1>1, <2>2
  <2>4. Joined(F, k, e)
    BY <2>1, <2>2 DEF Joined
  <2>5. Joined(F, k, f)
    <3>1. \A n \in 1..k : n \in 1..Len(F)
      BY <1>2
    <3> QED
      BY <1>1, <3>1 DEF Joined
  <2>6. \A n \in 0..k : e[n] = f[n]
    BY <2>3, <2>4, <2>5, JoinedUnique
  <2>7. e[k] = f[k]
    BY <2>3, <2>6
  <2> QED
    BY <2>1, <2>2, <2>7 DEF Parts, G
<1>4. \A n \in 1..Len(F) : n - 1 \in 0..Len(F) /\ n \in 0..Len(F)
  BY <1>2
<1>5. 0 \in 0..Len(F) /\ Len(F) \in 0..Len(F)
  BY <1>2
<1> QED
  BY <1>1, <1>2, <1>3, <1>4, <1>5

\* Two sequences, one behind the other.
LEMMA Concatenation ==
    ASSUME NEW S, NEW s \in Seq(S), NEW t \in Seq(S)
    PROVE  /\ s \o t \in Seq(S) /\ Len(s \o t) = Len(s) + Len(t)
           /\ \A p \in 1..Len(s) : (s \o t)[p] = s[p]
           /\ \A p \in 1..Len(t) : (s \o t)[Len(s) + p] = t[p]
           /\ s \o <<>> = s
OBVIOUS

\* A sequence behind one element.
LEMMA Preceded ==
    ASSUME NEW S, NEW e \in S, NEW t \in Seq(S)
    PROVE  /\ <<e>> \o t \in Seq(S) /\ Len(<<e>> \o t) = 1 + Len(t) /\ (<<e>> \o t)[1] = e
           /\ \A k \in 1..Len(t) : (<<e>> \o t)[1 + k] = t[k]
<1>1. <<e>> \o t \in Seq(S)
  OBVIOUS
<1>2. Len(<<e>> \o t) = 1 + Len(t)
  OBVIOUS
<1>3. (<<e>> \o t)[1] = e
  OBVIOUS
<1>4. \A k \in 1..Len(t) : (<<e>> \o t)[1 + k] = t[k]
  OBVIOUS
<1> QED
  BY <1>1, <1>2, <1>3, <1>4

\* Each part begins where the one before it ends.
LEMMA PartLengths ==
    ASSUME NEW S, NEW F \in Seq(Seq(S))
    PROVE  /\ Len(Parts(F, 0)) = 0
           /\ \A n \in 0..Len(F) : Len(Parts(F, n)) \in Nat
           /\ \A n \in 1..Len(F) : Len(Parts(F, n)) = Len(Parts(F, n - 1)) + Len(F[n])
           /\ \A k, n \in 0..Len(F) : k <= n => Len(Parts(F, k)) <= Len(Parts(F, n))
<1> DEFINE L(n) == Len(Parts(F, n))
<1>1. L(0) = 0 /\ Len(F) \in Nat /\ \A n \in 0..Len(F) : L(n) \in Nat
  <2>1. /\ Len(F) \in Nat /\ Parts(F, 0) = <<>>
        /\ \A n \in 0..Len(F) : Parts(F, n) \in Seq(S)
    BY PartsSteps
  <2> QED
    BY <2>1
<1>2. \A n \in 1..Len(F) : L(n) = L(n - 1) + Len(F[n]) /\ Len(F[n]) \in Nat
  <2> SUFFICES ASSUME NEW n \in 1..Len(F)
               PROVE  L(n) = L(n - 1) + Len(F[n]) /\ Len(F[n]) \in Nat
    OBVIOUS
  <2>1. n - 1 \in 0..Len(F) /\ F[n] \in Seq(S)
    BY <1>1
  <2>2. Parts(F, n - 1) \in Seq(S) /\ Parts(F, n) = Parts(F, n - 1) \o F[n]
    BY <2>1, PartsSteps
  <2> QED
    BY <2>1, <2>2, Concatenation
<1>3. ASSUME NEW k \in 0..Len(F) PROVE \A n \in 0..Len(F) : k <= n => L(k) <= L(n)
  <2> DEFINE Q == {n \in Nat : n \in 0..Len(F) /\ k <= n => L(k) <= L(n)}
  <2> HIDE DEF L
  <2>1. 0 \in Q
    BY <1>1
  <2>2. ASSUME NEW n \in Nat, n \in Q PROVE n + 1 \in Q
    <3>1. SUFFICES ASSUME n + 1 \in 0..Len(F), k <= n + 1 PROVE L(k) <= L(n + 1)
      OBVIOUS
    <3>2. CASE k = n + 1
      BY <1>1, <3>2
    <3>3. CASE k # n + 1
      <4>1. n + 1 \in 1..Len(F) /\ (n + 1) - 1 = n /\ n \in 0..Len(F) /\ k <= n
        BY <1>1, <3>1, <3>3
      <4>2. L(k) <= L(n) /\ L(n + 1) = L(n) + Len(F[n + 1]) /\ Len(F[n + 1]) \in Nat
        BY <1>2, <2>2, <4>1
      <4> QED
        BY <1>1, <3>1, <4>1, <4>2
    <3> QED
      BY <3>2, <3>3
  <2>3. \A n \in Nat : n \in Q
    <3> HIDE DEF Q
    <3> QED
      BY <2>1, <2>2, Induction
  <2> QED
    BY <1>1, <2>3
<1> QED
  BY <1>1, <1>2, <1>3

\* What stands in the first parts stands there in all of them.
LEMMA PartsPrefix ==
    ASSUME NEW S, NEW F \in Seq(Seq(S)), NEW k \in 0..Len(F)
    PROVE  /\ Len(Parts(F, k)) <= Len(FlattenSeq(F))
           /\ \A p \in 1..Len(Parts(F, k)) : FlattenSeq(F)[p] = Parts(F, k)[p]
<1> DEFINE P(n) == Parts(F, n)
           Q == {n \in Nat : n \in 0..Len(F) /\ k <= n =>
                    \A p \in 1..Len(P(k)) : P(n)[p] = P(k)[p]}
<1>1. /\ Len(F) \in Nat /\ P(Len(F)) = FlattenSeq(F)
      /\ \A n \in 0..Len(F) : P(n) \in Seq(S)
      /\ \A n \in 1..Len(F) : P(n) = P(n - 1) \o F[n]
  BY PartsSteps
<1>2. \A n \in 0..Len(F) : k <= n => Len(P(k)) <= Len(P(n))
  BY PartLengths
<1> HIDE DEF P
<1>3. 0 \in Q
  OBVIOUS
<1>4. ASSUME NEW n \in Nat, n \in Q PROVE n + 1 \in Q
  <2>1. SUFFICES ASSUME n + 1 \in 0..Len(F), k <= n + 1, NEW p \in 1..Len(P(k))
                 PROVE  P(n + 1)[p] = P(k)[p]
    OBVIOUS
  <2>2. CASE k = n + 1
    BY <2>2
  <2>3. CASE k # n + 1
    <3>1. n + 1 \in 1..Len(F) /\ (n + 1) - 1 = n /\ n \in 0..Len(F) /\ k <= n
      BY <1>1, <2>1, <2>3
    <3>2. P(n) \in Seq(S) /\ F[n + 1] \in Seq(S) /\ P(n + 1) = P(n) \o F[n + 1]
      <4>1. P(n) \in Seq(S) /\ F[n + 1] \in Seq(S)
        BY <1>1, <3>1
      <4>2. P(n + 1) = P((n + 1) - 1) \o F[n + 1]
        BY <1>1, <3>1, Zenon
      <4> QED
        BY <3>1, <4>1, <4>2
    <3>2a. Len(P(k)) <= Len(P(n)) /\ P(n)[p] = P(k)[p] /\ P(k) \in Seq(S)
      BY <1>1, <1>2, <1>4, <3>1
    <3>3. p \in 1..Len(P(n))
      BY <3>2, <3>2a
    <3>4. (P(n) \o F[n + 1])[p] = P(n)[p]
      BY <3>2, <3>3, Concatenation
    <3> QED
      BY <3>2, <3>2a, <3>4
  <2> QED
    BY <2>2, <2>3
<1>5. \A n \in Nat : n \in Q
  <2> HIDE DEF Q
  <2> QED
    BY <1>3, <1>4, Induction
<1>6. Len(F) \in 0..Len(F) /\ k <= Len(F)
  BY <1>1
<1> QED
  BY <1>1, <1>2, <1>5, <1>6 DEF P

\* Where each part stands.
LEMMA PartAt ==
    ASSUME NEW S, NEW F \in Seq(Seq(S)), NEW k \in 1..Len(F), NEW p \in 1..Len(F[k])
    PROVE  /\ Len(Parts(F, k - 1)) + p \in 1..Len(FlattenSeq(F))
           /\ FlattenSeq(F)[Len(Parts(F, k - 1)) + p] = F[k][p]
<1> DEFINE a == Parts(F, k - 1)
           i == Len(a) + p
<1>1. k \in 0..Len(F) /\ k - 1 \in 0..Len(F) /\ F[k] \in Seq(S)
  OBVIOUS
<1>2. a \in Seq(S) /\ Parts(F, k) = a \o F[k]
  BY <1>1, PartsSteps
<1>3. Len(a) \in Nat /\ Len(Parts(F, k)) = Len(a) + Len(F[k]) /\ Parts(F, k)[i] = F[k][p]
  <2> HIDE DEF a
  <2> QED
    BY <1>1, <1>2, Concatenation
<1>4. /\ Len(Parts(F, k)) <= Len(FlattenSeq(F))
      /\ \A q \in 1..Len(Parts(F, k)) : FlattenSeq(F)[q] = Parts(F, k)[q]
  BY <1>1, PartsPrefix
<1>5. FlattenSeq(F) \in Seq(S)
  <2>1. Len(F) \in 0..Len(F)
    BY <1>1
  <2> QED
    BY <2>1, PartsSteps
<1>6. Len(FlattenSeq(F)) \in Nat /\ Len(F[k]) \in Nat
  BY <1>1, <1>5
<1> HIDE DEF a
<1>7. i \in 1..Len(Parts(F, k)) /\ i \in 1..Len(FlattenSeq(F))
  BY <1>3, <1>4, <1>6
<1> QED
  BY <1>3, <1>4, <1>7 DEF a

\* Empty parts add nothing.
LEMMA EmptyParts ==
    ASSUME NEW S, NEW F \in Seq(Seq(S)), NEW k \in 0..Len(F),
           \A n \in 1..Len(F) : n > k => F[n] = <<>>
    PROVE  FlattenSeq(F) = Parts(F, k)
<1> DEFINE P(n) == Parts(F, n)
           Q == {n \in Nat : n \in 0..Len(F) /\ k <= n => P(n) = P(k)}
<1>1. /\ Len(F) \in Nat /\ P(Len(F)) = FlattenSeq(F)
      /\ \A n \in 0..Len(F) : P(n) \in Seq(S)
      /\ \A n \in 1..Len(F) : P(n) = P(n - 1) \o F[n]
  BY PartsSteps
<1> HIDE DEF P
<1>2. 0 \in Q
  OBVIOUS
<1>3. ASSUME NEW n \in Nat, n \in Q PROVE n + 1 \in Q
  <2>1. SUFFICES ASSUME n + 1 \in 0..Len(F), k <= n + 1, k # n + 1 PROVE P(n + 1) = P(k)
    OBVIOUS
  <2>2. n + 1 \in 1..Len(F) /\ (n + 1) - 1 = n /\ n \in 0..Len(F) /\ k <= n /\ n + 1 > k
    BY <1>1, <2>1
  <2>3. P(n) \in Seq(S) /\ F[n + 1] = <<>> /\ P(n + 1) = P(n) \o F[n + 1] /\ P(n) = P(k)
    BY <1>1, <1>3, <2>2
  <2> QED
    BY <2>3
<1>4. \A n \in Nat : n \in Q
  <2> HIDE DEF Q
  <2> QED
    BY <1>2, <1>3, Induction
<1> QED
  BY <1>1, <1>4 DEF P

-----------------------------------------------------------------------------

\* The registers of string i, item by item; those of all strings; where string i
\* begins; and where its item j does.
ItemsOf(ss, i) == [j \in DOMAIN ss[i] |-> ItemRegisters(ss, i, j)]
StringsOf(ss) == [i \in DOMAIN ss |-> FlattenSeq(ItemsOf(ss, i))]
Begins(ss, i) == Len(Parts(StringsOf(ss), i - 1)) + 1
HeaderAt(ss, i, j) == Begins(ss, i) + Len(Parts(ItemsOf(ss, i), j - 1))
HeaderOf(ss, i, j) == Header(ss[i][j], j < Len(ss[i]), i < Len(ss))
Regs == [len : Nat, ptrs : Nat, compound : BOOLEAN, more : BOOLEAN, page : Seq(Nat)]

\* What strings consist of.
LEMMA StringTypes ==
    ASSUME NEW ss \in StringsType
    PROVE  /\ Len(ss) \in Nat /\ DOMAIN ss = 1..Len(ss)
           /\ \A i \in DOMAIN ss : /\ Len(ss[i]) \in Nat \ {0} /\ DOMAIN ss[i] = 1..Len(ss[i])
                                   /\ ss[i] \in Seq(Items)
           /\ \A i \in DOMAIN ss : \A j \in DOMAIN ss[i] :
                ss[i][j] \in Items /\ ss[i][j].len \in Nat /\ ss[i][j].ptrs \in Nat \ {0}
<1>1. Len(ss) \in Nat /\ DOMAIN ss = 1..Len(ss)
  BY DEF StringsType
<1>2. ASSUME NEW i \in DOMAIN ss
      PROVE  /\ ss[i] \in Seq(Items) /\ Len(ss[i]) \in Nat \ {0}
             /\ DOMAIN ss[i] = 1..Len(ss[i])
  <2>1. ss[i] \in Seq(Items) /\ ss[i] # <<>>
    BY <1>1 DEF StringsType
  <2> QED
    BY <2>1
<1>3. ASSUME NEW i \in DOMAIN ss, NEW j \in DOMAIN ss[i]
      PROVE  ss[i][j] \in Items /\ ss[i][j].len \in Nat /\ ss[i][j].ptrs \in Nat \ {0}
  <2>1. ss[i][j] \in Items
    BY <1>2
  <2> QED
    BY <2>1 DEF Items
<1> QED
  BY <1>1, <1>2, <1>3

\* The registers of an item: its header, then its pointers.
LEMMA ItemShape ==
    ASSUME NEW ss \in StringsType, NEW i \in DOMAIN ss, NEW j \in DOMAIN ss[i]
    PROVE  LET rs == ItemRegisters(ss, i, j)
           IN  /\ rs \in Seq(Regs) /\ Len(rs) = ss[i][j].ptrs + 1
               /\ rs[1] = HeaderOf(ss, i, j)
               /\ \A k \in 1..ss[i][j].ptrs : rs[k + 1] = Pointer(<<i, j, k>>)
<1> DEFINE n == ss[i][j].ptrs
           hd == HeaderOf(ss, i, j)
           ps == [k \in 1..n |-> Pointer(<<i, j, k>>)]
<1>1. n \in Nat /\ ss[i][j].len \in Nat /\ i \in Nat /\ j \in Nat
  BY StringTypes
<1>2. hd \in Regs
  BY <1>1 DEF HeaderOf, Header, Regs
<1>3. \A k \in 1..n : Pointer(<<i, j, k>>) \in Regs
  <2> SUFFICES ASSUME NEW k \in 1..n PROVE Pointer(<<i, j, k>>) \in Regs
    OBVIOUS
  <2>1. <<i, j, k>> \in Seq(Nat)
    BY <1>1
  <2> QED
    BY <2>1 DEF Pointer, Regs
<1>4. ps \in Seq(Regs) /\ Len(ps) = n /\ <<hd>> \in Seq(Regs) /\ Len(<<hd>>) = 1
  <2> HIDE DEF hd, n
  <2>1. ps \in Seq(Regs)
    BY <1>1, <1>3
  <2>2. Len(ps) = n
    BY <1>1
  <2> HIDE DEF ps
  <2> QED
    BY <1>2, <2>1, <2>2
<1>5. ItemRegisters(ss, i, j) = <<hd>> \o ps
  BY DEF ItemRegisters, HeaderOf
<1>6. \A k \in 1..n : ps[k] = Pointer(<<i, j, k>>)
  OBVIOUS
<1>7. <<hd>>[1] = hd
  OBVIOUS
<1> HIDE DEF hd, ps, n
<1>8. /\ <<hd>> \o ps \in Seq(Regs) /\ Len(<<hd>> \o ps) = 1 + n
      /\ (<<hd>> \o ps)[1] = hd
      /\ \A k \in 1..n : (<<hd>> \o ps)[1 + k] = ps[k]
  <2>1. ps \in Seq(Regs) /\ Len(ps) = n
    BY <1>4
  <2> QED
    BY <1>2, <2>1, Preceded
<1> QED
  BY <1>1, <1>5, <1>6, <1>8 DEF hd, n

\* The registers of the strings, as sequences of sequences.
LEMMA RegistersShape ==
    ASSUME NEW ss \in StringsType
    PROVE  /\ StringsOf(ss) \in Seq(Seq(Regs)) /\ Len(StringsOf(ss)) = Len(ss)
           /\ Registers(ss) = FlattenSeq(StringsOf(ss)) /\ Registers(ss) \in Seq(Regs)
           /\ \A i \in DOMAIN ss :
                /\ ItemsOf(ss, i) \in Seq(Seq(Regs)) /\ Len(ItemsOf(ss, i)) = Len(ss[i])
                /\ StringsOf(ss)[i] = FlattenSeq(ItemsOf(ss, i))
                /\ \A j \in DOMAIN ss[i] : ItemsOf(ss, i)[j] = ItemRegisters(ss, i, j)
<1>1. ASSUME NEW i \in DOMAIN ss
      PROVE  /\ ItemsOf(ss, i) \in Seq(Seq(Regs)) /\ Len(ItemsOf(ss, i)) = Len(ss[i])
             /\ \A j \in DOMAIN ss[i] : ItemsOf(ss, i)[j] = ItemRegisters(ss, i, j)
             /\ FlattenSeq(ItemsOf(ss, i)) \in Seq(Regs)
  <2>1. \A j \in DOMAIN ss[i] : ItemRegisters(ss, i, j) \in Seq(Regs)
    BY ItemShape
  <2>2. DOMAIN ss[i] = 1..Len(ss[i]) /\ Len(ss[i]) \in Nat
    BY StringTypes
  <2>3. ItemsOf(ss, i) \in Seq(Seq(Regs)) /\ Len(ItemsOf(ss, i)) = Len(ss[i])
    BY <2>1, <2>2 DEF ItemsOf
  <2> QED
    BY <2>3, PartsSteps DEF ItemsOf
<1>2. DOMAIN ss = 1..Len(ss) /\ Len(ss) \in Nat
  BY StringTypes
<1>3. StringsOf(ss) \in Seq(Seq(Regs)) /\ Len(StringsOf(ss)) = Len(ss)
  BY <1>1, <1>2 DEF StringsOf
<1>4. Registers(ss) = FlattenSeq(StringsOf(ss))
  BY DEF Registers, StringsOf, ItemsOf
<1> QED
  BY <1>1, <1>3, <1>4, PartsSteps DEF StringsOf

\* Where the first string begins, and where there is no string any more.
LEMMA StringPlaces ==
    ASSUME NEW ss \in StringsType
    PROVE  /\ Begins(ss, 1) = 1 /\ Begins(ss, Len(ss) + 1) = Len(Registers(ss)) + 1
           /\ \A i \in DOMAIN ss : HeaderAt(ss, i, 1) = Begins(ss, i)
           /\ Len(Registers(ss)) \in Nat
           /\ \A i \in 1..(Len(ss) + 1) : /\ Begins(ss, i) \in Nat \ {0}
                                          /\ Begins(ss, i) <= Len(Registers(ss)) + 1
<1> DEFINE F == StringsOf(ss)
<1>1. /\ F \in Seq(Seq(Regs)) /\ Len(F) = Len(ss) /\ Registers(ss) = FlattenSeq(F)
      /\ Len(ss) \in Nat
  BY RegistersShape, StringTypes
<1> HIDE DEF F
<1>2. /\ Len(Parts(F, 0)) = 0 /\ Parts(F, Len(F)) = FlattenSeq(F) /\ FlattenSeq(F) \in Seq(Regs)
  <2>1. Parts(F, Len(F)) = FlattenSeq(F) /\ FlattenSeq(F) \in Seq(Regs)
    BY <1>1, PartsSteps
  <2>2. Len(Parts(F, 0)) = 0
    BY <1>1, PartLengths
  <2> QED
    BY <2>1, <2>2
<1>3. ASSUME NEW i \in 1..(Len(ss) + 1)
      PROVE  Begins(ss, i) \in Nat \ {0} /\ Begins(ss, i) <= Len(Registers(ss)) + 1
  <2>1. i - 1 \in 0..Len(F)
    BY <1>1
  <2>2. /\ Len(Parts(F, i - 1)) \in Nat /\ Len(Parts(F, i - 1)) <= Len(FlattenSeq(F))
    BY <1>1, <2>1, PartLengths, PartsPrefix
  <2>3. Len(FlattenSeq(F)) \in Nat
    BY <1>2
  <2> QED
    BY <1>1, <2>2, <2>3 DEF Begins, F
<1>4. Begins(ss, 1) = 1 /\ Begins(ss, Len(ss) + 1) = Len(Registers(ss)) + 1
  <2>1. 1 - 1 = 0 /\ (Len(ss) + 1) - 1 = Len(F)
    BY <1>1
  <2> QED
    BY <1>1, <1>2, <2>1 DEF Begins, F
<1>5. ASSUME NEW i \in DOMAIN ss PROVE HeaderAt(ss, i, 1) = Begins(ss, i)
  <2>1. ItemsOf(ss, i) \in Seq(Seq(Regs))
    BY RegistersShape
  <2>2. Len(Parts(ItemsOf(ss, i), 0)) = 0
    BY <2>1, PartLengths
  <2>3. i \in 1..(Len(ss) + 1)
    BY StringTypes
  <2>4. Begins(ss, i) \in Nat
    BY <1>3, <2>3
  <2> QED
    BY <2>2, <2>4 DEF HeaderAt
<1>6. Len(Registers(ss)) \in Nat
  BY <1>1, <1>2
<1> QED
  BY <1>3, <1>4, <1>5, <1>6

\* The registers of item j of string i stand behind each other, and what follows
\* is the next item or the next string.
LEMMA ItemPlace ==
    ASSUME NEW ss \in StringsType, NEW i \in DOMAIN ss, NEW j \in DOMAIN ss[i]
    PROVE  LET h == HeaderAt(ss, i, j)
               n == ss[i][j].ptrs
           IN  /\ h \in Nat \ {0} /\ h + n <= Len(Registers(ss))
               /\ Reg(Registers(ss), h) = HeaderOf(ss, i, j)
               /\ \A k \in 1..n : Reg(Registers(ss), h + k) = Pointer(<<i, j, k>>)
               /\ j < Len(ss[i]) => h + n + 1 = HeaderAt(ss, i, j + 1)
               /\ j = Len(ss[i]) => h + n + 1 = Begins(ss, i + 1)
<1> DEFINE F == StringsOf(ss)
           G == ItemsOf(ss, i)
           h == HeaderAt(ss, i, j)
           n == ss[i][j].ptrs
           a == Len(Parts(F, i - 1))
           b == Len(Parts(G, j - 1))
           rs == Registers(ss)
<1>1. /\ F \in Seq(Seq(Regs)) /\ Len(F) = Len(ss) /\ rs = FlattenSeq(F)
      /\ G \in Seq(Seq(Regs)) /\ Len(G) = Len(ss[i]) /\ F[i] = FlattenSeq(G)
      /\ G[j] = ItemRegisters(ss, i, j)
  BY RegistersShape
<1>2. /\ i \in 1..Len(F) /\ j \in 1..Len(G) /\ n \in Nat /\ Len(ss) \in Nat
      /\ Len(ss[i]) \in Nat
  BY <1>1, StringTypes
<1>3. /\ G[j] \in Seq(Regs) /\ Len(G[j]) = n + 1 /\ G[j][1] = HeaderOf(ss, i, j)
      /\ \A k \in 1..n : G[j][k + 1] = Pointer(<<i, j, k>>)
  BY <1>1, ItemShape
<1>4. h = a + 1 + b
  BY DEF HeaderAt, Begins
<1> HIDE DEF F, G, h, n, rs
<1>5. a \in Nat /\ b \in Nat
  <2>1. i - 1 \in 0..Len(F) /\ j - 1 \in 0..Len(G)
    <3>1. Len(F) \in Nat /\ Len(G) \in Nat
      BY <1>1
    <3> QED
      BY <1>2, <3>1
  <2> QED
    BY <1>1, <2>1, PartLengths
<1> HIDE DEF a, b
<1>6. ASSUME NEW p \in 1..(n + 1) PROVE Reg(rs, a + (b + p)) = G[j][p] /\ a + (b + p) <= Len(rs)
  <2>0. p \in 1..Len(G[j])
    BY <1>3
  <2>1. b + p \in 1..Len(F[i]) /\ F[i][b + p] = G[j][p]
    <3>1. b + p \in 1..Len(FlattenSeq(G)) /\ FlattenSeq(G)[b + p] = G[j][p]
      BY <1>1, <1>2, <2>0, PartAt DEF b
    <3> QED
      BY <1>1, <3>1
  <2>2. a + (b + p) \in 1..Len(rs) /\ rs[a + (b + p)] = F[i][b + p]
    BY <1>1, <1>2, <2>1, PartAt DEF a
  <2>3. Len(rs) \in Nat
    BY StringPlaces DEF rs
  <2> QED
    BY <2>1, <2>2, <2>3 DEF Reg
<1>7. Reg(rs, h) = HeaderOf(ss, i, j)
  <2>1. 1 \in 1..(n + 1) /\ a + (b + 1) = h
    BY <1>2, <1>4, <1>5
  <2> QED
    BY <1>3, <1>6, <2>1
<1>8. ASSUME NEW k \in 1..n PROVE Reg(rs, h + k) = Pointer(<<i, j, k>>)
  <2>1. k + 1 \in 1..(n + 1) /\ a + (b + (k + 1)) = h + k
    BY <1>2, <1>4, <1>5
  <2>2. Reg(rs, a + (b + (k + 1))) = G[j][k + 1]
    BY <1>6, <2>1
  <2> QED
    BY <1>3, <2>1, <2>2
<1>9. h \in Nat \ {0} /\ h + n <= Len(rs)
  <2>1. n + 1 \in 1..(n + 1) /\ a + (b + (n + 1)) = h + n
    BY <1>2, <1>4, <1>5
  <2>2. a + (b + (n + 1)) <= Len(rs)
    BY <1>6, <2>1
  <2> QED
    BY <1>4, <1>5, <2>1, <2>2
<1>10. Len(Parts(G, j)) = b + (n + 1)
  BY <1>1, <1>2, <1>3, PartLengths DEF b
<1>11. ASSUME j < Len(ss[i]) PROVE h + n + 1 = HeaderAt(ss, i, j + 1)
  <2>1. (j + 1) - 1 = j
    BY <1>1, <1>2
  <2>2. HeaderAt(ss, i, j + 1) = a + 1 + Len(Parts(G, j))
    BY <2>1 DEF HeaderAt, Begins, a, F, G
  <2> QED
    BY <1>2, <1>4, <1>5, <1>10, <2>2
<1>12. ASSUME j = Len(ss[i]) PROVE h + n + 1 = Begins(ss, i + 1)
  <2>1. (i + 1) - 1 = i
    BY <1>2
  <2>2. Begins(ss, i + 1) = Len(Parts(F, i)) + 1
    BY <2>1 DEF Begins, F
  <2>3. Parts(G, j) = F[i]
    BY <1>1, <1>12, PartsSteps
  <2>4. Len(Parts(F, i)) = a + Len(F[i])
    BY <1>1, <1>2, PartLengths DEF a
  <2>5. Len(F[i]) = b + (n + 1)
    BY <1>10, <2>3
  <2>6. Begins(ss, i + 1) = a + (b + (n + 1)) + 1
    BY <2>2, <2>4, <2>5
  <2> QED
    BY <1>2, <1>4, <1>5, <2>6
<1> QED
  BY <1>7, <1>8, <1>9, <1>11, <1>12 DEF h, n, rs

\* The memory behind the pointers of item j of string i; that of the items; and
\* how much of the string stands before pointer k of item j.
UnitType == [page : Seq(Nat), at : Nat]
PtrUnits(ss, i, j) ==
    [k \in 1..ss[i][j].ptrs |->
        [n \in 1..ss[i][j].len |-> [page |-> <<i, j, k>>, at |-> n - 1]]]
ItemUnits(ss, i) == [j \in DOMAIN ss[i] |-> FlattenSeq(PtrUnits(ss, i, j))]
UnitsBefore(ss, i, j, k) ==
    Len(Parts(ItemUnits(ss, i), j - 1)) + Len(Parts(PtrUnits(ss, i, j), k - 1))

\* The memory of a string, as sequences of sequences.
LEMMA UnitsShape ==
    ASSUME NEW ss \in StringsType, NEW i \in DOMAIN ss
    PROVE  /\ ItemUnits(ss, i) \in Seq(Seq(UnitType)) /\ Len(ItemUnits(ss, i)) = Len(ss[i])
           /\ Units(ss, i) = FlattenSeq(ItemUnits(ss, i)) /\ Units(ss, i) \in Seq(UnitType)
           /\ \A j \in DOMAIN ss[i] :
                /\ PtrUnits(ss, i, j) \in Seq(Seq(UnitType))
                /\ Len(PtrUnits(ss, i, j)) = ss[i][j].ptrs
                /\ ItemUnits(ss, i)[j] = FlattenSeq(PtrUnits(ss, i, j))
                /\ \A k \in 1..ss[i][j].ptrs : Len(PtrUnits(ss, i, j)[k]) = ss[i][j].len
<1>1. ASSUME NEW j \in DOMAIN ss[i]
      PROVE  /\ PtrUnits(ss, i, j) \in Seq(Seq(UnitType))
             /\ Len(PtrUnits(ss, i, j)) = ss[i][j].ptrs
             /\ \A k \in 1..ss[i][j].ptrs : Len(PtrUnits(ss, i, j)[k]) = ss[i][j].len
             /\ FlattenSeq(PtrUnits(ss, i, j)) \in Seq(UnitType)
  <2> DEFINE piece(k) == [n \in 1..ss[i][j].len |-> [page |-> <<i, j, k>>, at |-> n - 1]]
  <2>1. ss[i][j].len \in Nat /\ ss[i][j].ptrs \in Nat /\ i \in Nat /\ j \in Nat
    BY StringTypes
  <2>2. \A k \in 1..ss[i][j].ptrs : piece(k) \in Seq(UnitType) /\ Len(piece(k)) = ss[i][j].len
    <3> SUFFICES ASSUME NEW k \in 1..ss[i][j].ptrs
                 PROVE  piece(k) \in Seq(UnitType) /\ Len(piece(k)) = ss[i][j].len
      OBVIOUS
    <3>1. <<i, j, k>> \in Seq(Nat)
      BY <2>1
    <3>2. ASSUME NEW n \in 1..ss[i][j].len
          PROVE  [page |-> <<i, j, k>>, at |-> n - 1] \in UnitType
      <4>1. n - 1 \in Nat
        BY <2>1
      <4> QED
        BY <3>1, <4>1 DEF UnitType
    <3> QED
      BY <2>1, <3>2
  <2>3. PtrUnits(ss, i, j) = [k \in 1..ss[i][j].ptrs |-> piece(k)]
    BY DEF PtrUnits
  <2> HIDE DEF piece
  <2>4. PtrUnits(ss, i, j) \in Seq(Seq(UnitType)) /\ Len(PtrUnits(ss, i, j)) = ss[i][j].ptrs
    BY <2>1, <2>2, <2>3
  <2> QED
    BY <2>2, <2>3, <2>4, PartsSteps
<1>2. DOMAIN ss[i] = 1..Len(ss[i]) /\ Len(ss[i]) \in Nat
  BY StringTypes
<1>3. ItemUnits(ss, i) \in Seq(Seq(UnitType)) /\ Len(ItemUnits(ss, i)) = Len(ss[i])
  BY <1>1, <1>2 DEF ItemUnits
<1>4. Units(ss, i) = FlattenSeq(ItemUnits(ss, i))
  BY DEF Units, ItemUnits, PtrUnits
<1> QED
  BY <1>1, <1>3, <1>4, PartsSteps DEF ItemUnits

\* The memory behind a pointer stands together, and what follows is that of the
\* next pointer, the next item, or nothing.
LEMMA UnitPlace ==
    ASSUME NEW ss \in StringsType, NEW i \in DOMAIN ss, NEW j \in DOMAIN ss[i],
           NEW k \in 1..ss[i][j].ptrs
    PROVE  LET u == UnitsBefore(ss, i, j, k)
               l == ss[i][j].len
           IN  /\ u \in Nat /\ l \in Nat /\ u + l <= Len(Units(ss, i))
               /\ \A n \in 1..l : Units(ss, i)[u + n] = [page |-> <<i, j, k>>, at |-> n - 1]
               /\ k < ss[i][j].ptrs => u + l = UnitsBefore(ss, i, j, k + 1)
               /\ k = ss[i][j].ptrs /\ j < Len(ss[i]) => u + l = UnitsBefore(ss, i, j + 1, 1)
               /\ k = ss[i][j].ptrs /\ j = Len(ss[i]) => u + l = Len(Units(ss, i))
<1> DEFINE F == ItemUnits(ss, i)
           G == PtrUnits(ss, i, j)
           u == UnitsBefore(ss, i, j, k)
           l == ss[i][j].len
           m == ss[i][j].ptrs
           a == Len(Parts(F, j - 1))
           b == Len(Parts(G, k - 1))
           us == Units(ss, i)
<1>1. /\ F \in Seq(Seq(UnitType)) /\ Len(F) = Len(ss[i]) /\ us = FlattenSeq(F)
      /\ G \in Seq(Seq(UnitType)) /\ Len(G) = m /\ F[j] = FlattenSeq(G)
      /\ Len(G[k]) = l /\ us \in Seq(UnitType)
  BY UnitsShape
<1>2. /\ j \in 1..Len(F) /\ k \in 1..Len(G) /\ l \in Nat /\ m \in Nat
      /\ Len(ss[i]) \in Nat
  BY <1>1, StringTypes
<1>3. \A n \in 1..l : G[k][n] = [page |-> <<i, j, k>>, at |-> n - 1]
  BY DEF PtrUnits
<1>4. u = a + b
  BY DEF UnitsBefore
<1> HIDE DEF F, G, u, l, m, us
<1>5. a \in Nat /\ b \in Nat
  <2>1. j - 1 \in 0..Len(F) /\ k - 1 \in 0..Len(G)
    BY <1>1, <1>2
  <2> QED
    BY <1>1, <2>1, PartLengths
<1> HIDE DEF a, b
<1>6. Len(Parts(G, k)) = b + l /\ Len(Parts(F, j)) = a + Len(F[j])
  BY <1>1, <1>2, PartLengths DEF a, b
<1>7. Len(F[j]) \in Nat /\ Len(us) \in Nat
  BY <1>1, <1>2
<1>8. b + l <= Len(F[j]) /\ a + Len(F[j]) <= Len(us)
  <2>1. k \in 0..Len(G) /\ j \in 0..Len(F)
    BY <1>2
  <2>2. Len(Parts(G, k)) <= Len(FlattenSeq(G)) /\ Len(Parts(F, j)) <= Len(FlattenSeq(F))
    BY <1>1, <2>1, PartsPrefix
  <2> QED
    BY <1>1, <1>6, <2>2
<1>9. ASSUME NEW n \in 1..l PROVE us[u + n] = [page |-> <<i, j, k>>, at |-> n - 1]
  <2>0. n \in 1..Len(G[k])
    BY <1>1
  <2>1. b + n \in 1..Len(F[j]) /\ F[j][b + n] = G[k][n]
    <3>1. b + n \in 1..Len(FlattenSeq(G)) /\ FlattenSeq(G)[b + n] = G[k][n]
      BY <1>1, <1>2, <2>0, PartAt DEF b
    <3> QED
      BY <1>1, <3>1
  <2>2. us[a + (b + n)] = F[j][b + n]
    BY <1>1, <1>2, <2>1, PartAt DEF a
  <2>3. a + (b + n) = u + n
    BY <1>2, <1>4, <1>5
  <2> QED
    BY <1>3, <2>1, <2>2, <2>3
<1>10. ASSUME k < m PROVE u + l = UnitsBefore(ss, i, j, k + 1)
  <2>1. (k + 1) - 1 = k
    BY <1>2
  <2>2. UnitsBefore(ss, i, j, k + 1) = a + Len(Parts(G, k))
    BY <2>1 DEF UnitsBefore, a, F, G
  <2> QED
    BY <1>2, <1>4, <1>5, <1>6, <2>2
<1>11. ASSUME k = m PROVE b + l = Len(F[j])
  <2>1. Parts(G, k) = F[j]
    BY <1>1, <1>11, PartsSteps
  <2> QED
    BY <1>6, <2>1
<1>12. ASSUME k = m, j < Len(ss[i]) PROVE u + l = UnitsBefore(ss, i, j + 1, 1)
  <2>0. DOMAIN ss[i] = 1..Len(ss[i]) /\ Len(ss[i]) \in Nat
    BY StringTypes
  <2>1. (j + 1) - 1 = j /\ 1 - 1 = 0 /\ j + 1 \in DOMAIN ss[i]
    BY <1>12, <2>0
  <2>2. PtrUnits(ss, i, j + 1) \in Seq(Seq(UnitType))
    BY <2>1, UnitsShape
  <2>3. Len(Parts(PtrUnits(ss, i, j + 1), 0)) = 0
    BY <2>2, PartLengths
  <2>4. UnitsBefore(ss, i, j + 1, 1) = Len(Parts(F, j)) + 0
    BY <2>1, <2>3 DEF UnitsBefore, F
  <2> QED
    BY <1>2, <1>4, <1>5, <1>6, <1>7, <1>11, <1>12, <2>4
<1>13. ASSUME k = m, j = Len(ss[i]) PROVE u + l = Len(us)
  <2>1. Parts(F, j) = us
    BY <1>1, <1>13, PartsSteps
  <2> QED
    BY <1>2, <1>4, <1>5, <1>6, <1>7, <1>11, <1>13, <2>1
<1>14. u \in Nat /\ l \in Nat /\ u + l <= Len(us)
  BY <1>2, <1>4, <1>5, <1>7, <1>8
<1> QED
  BY <1>9, <1>10, <1>12, <1>13, <1>14 DEF u, l, m, us

\* Nothing stands before the first pointer.
LEMMA FirstUnit ==
    ASSUME NEW ss \in StringsType, NEW i \in DOMAIN ss
    PROVE  UnitsBefore(ss, i, 1, 1) = 0
<1> DEFINE F == ItemUnits(ss, i)
           G == PtrUnits(ss, i, 1)
<1>1. 1 \in DOMAIN ss[i]
  BY StringTypes
<1>2. F \in Seq(Seq(UnitType)) /\ G \in Seq(Seq(UnitType))
  BY <1>1, UnitsShape
<1>3. UnitsBefore(ss, i, 1, 1) = Len(Parts(F, 0)) + Len(Parts(G, 0))
  BY DEF UnitsBefore
<1> HIDE DEF F, G
<1>4. Len(Parts(F, 0)) = 0 /\ Len(Parts(G, 0)) = 0
  BY <1>2, PartLengths
<1> QED
  BY <1>3, <1>4

\* SkippedBuffer follows the compound items to the last.
Skipped(b, k, f) ==
    LET next == k + Reg(b, k).ptrs + 1
    IN  IF next < NumBR /\ Reg(b, k).compound THEN f[next] ELSE next
SkipTable(b, n, f) ==
    /\ f \in [1..NumBR -> Nat]
    /\ \A k \in 1..NumBR : k > NumBR - n => f[k] = Skipped(b, k, f)
\* It does so in finitely many steps, from the last register back.
LEMMA SkipSteps ==
    ASSUME NEW bs \in StringsType
    PROVE  \E f : \A k \in 1..NumBR : /\ SkippedBuffer(Registers(bs), k) = f[k]
                                      /\ f[k] = Skipped(Registers(bs), k, f)
<1> DEFINE b == Registers(bs)
           Q == {n \in Nat : \E f : SkipTable(b, n, f)}
           e == CHOOSE f : f = [k \in 1..NumBR |-> Skipped(b, k, f)]
<1>1. \A k \in 1..NumBR : Reg(b, k).ptrs \in Nat
  <2>1. b \in Seq(Regs)
    BY RegistersShape
  <2> HIDE DEF b
  <2>2. \A k \in 1..Len(b) : b[k] \in Regs
    BY <2>1
  <2>3. \A k : k \notin 1..Len(b) => Reg(b, k).ptrs = 1
    BY DEF Reg, Unset, Pointer
  <2> QED
    BY <2>2, <2>3 DEF Regs, Reg
<1> HIDE DEF b
<1>2. 0 \in Q
  <2>1. [k \in 1..NumBR |-> 0] \in [1..NumBR -> Nat]
    OBVIOUS
  <2>2. \A k \in 1..NumBR : ~(k > NumBR - 0)
    BY StringsAssumption
  <2>3. SkipTable(b, 0, [k \in 1..NumBR |-> 0])
    BY <2>1, <2>2 DEF SkipTable
  <2> QED
    BY <2>3
<1>3. ASSUME NEW n \in Nat, n \in Q PROVE n + 1 \in Q
  <2>0. PICK f : SkipTable(b, n, f)
    BY <1>3
  <2>1. /\ f \in [1..NumBR -> Nat]
        /\ \A k \in 1..NumBR : k > NumBR - n => f[k] = Skipped(b, k, f)
    BY <2>0 DEF SkipTable
  <2> DEFINE d == NumBR - n
             g == [f EXCEPT ![d] = Skipped(b, d, f)]
  <2>2. CASE d \notin 1..NumBR
    <3>1. \A k \in 1..NumBR : ~(k > NumBR - (n + 1)) \/ k > NumBR - n
      BY <2>2, StringsAssumption
    <3>2. SkipTable(b, n + 1, f)
      BY <2>1, <3>1 DEF SkipTable
    <3> QED
      BY <3>2
  <2>3. CASE d \in 1..NumBR
    <3>1. ASSUME NEW k \in 1..NumBR, k > NumBR - (n + 1)
          PROVE  Skipped(b, k, g) = Skipped(b, k, f)
      <4>1. LET next == k + Reg(b, k).ptrs + 1 IN next \in Nat /\ next # d
        BY <1>1, <3>1, StringsAssumption
      <4> QED
        BY <2>1, <4>1 DEF Skipped
    <3>2. ASSUME NEW k \in 1..NumBR, k > NumBR - (n + 1)
          PROVE  g[k] = Skipped(b, k, g)
      <4>1. CASE k = d
        BY <2>1, <2>3, <3>1, <3>2, <4>1
      <4>2. CASE k # d
        <5>1. k > NumBR - n
          BY <3>2, <4>2, StringsAssumption
        <5>2. g[k] = f[k] /\ f[k] = Skipped(b, k, f)
          BY <2>1, <4>2, <5>1
        <5> QED
          BY <3>1, <3>2, <5>2
      <4> QED
        BY <4>1, <4>2
    <3>3. g \in [1..NumBR -> Nat]
      <4>1. LET next == d + Reg(b, d).ptrs + 1
            IN  next \in Nat /\ (next < NumBR => next \in 1..NumBR)
        BY <1>1, <2>3, StringsAssumption
      <4>2. Skipped(b, d, f) \in Nat
        BY <2>1, <4>1 DEF Skipped
      <4> QED
        BY <2>1, <4>2, ExceptType
    <3>4. SkipTable(b, n + 1, g)
      BY <3>2, <3>3 DEF SkipTable
    <3> QED
      BY <3>4
  <2> QED
    BY <2>2, <2>3
<1>4. \A n \in Nat : n \in Q
  <2> HIDE DEF Q
  <2> QED
    BY <1>2, <1>3, Induction
<1>5. PICK f \in [1..NumBR -> Nat] : \A k \in 1..NumBR : f[k] = Skipped(b, k, f)
  <2>1. NumBR \in Q
    BY <1>4, StringsAssumption
  <2>2. PICK f : SkipTable(b, NumBR, f)
    BY <2>1
  <2>3. \A k \in 1..NumBR : k > NumBR - NumBR
    BY StringsAssumption
  <2> QED
    BY <2>2, <2>3 DEF SkipTable
<1>6. e = [k \in 1..NumBR |-> Skipped(b, k, e)]
  <2>1. f = [k \in 1..NumBR |-> Skipped(b, k, f)]
    BY <1>5
  <2> QED
    BY <2>1
<1>7. \A k \in 1..NumBR : SkippedBuffer(b, k) = e[k]
  BY DEF SkippedBuffer, Skipped
<1> HIDE DEF e
<1>8. \A k \in 1..NumBR : e[k] = Skipped(b, k, e)
  BY <1>6
<1> QED
  BY <1>7, <1>8 DEF b

\* From any item of a buffer it comes to the next buffer.
LEMMA SkippedString ==
    ASSUME NEW bs \in StringsType, Len(Registers(bs)) < NumBR, NEW i \in DOMAIN bs,
           NEW j \in DOMAIN bs[i]
    PROVE  SkippedBuffer(Registers(bs), HeaderAt(bs, i, j)) = Begins(bs, i + 1)
<1> DEFINE b == Registers(bs)
           n == Len(bs[i])
           H(k) == HeaderAt(bs, i, k)
           Q(f) == {d \in Nat : d < n => f[H(n - d)] = Begins(bs, i + 1)}
<1>1. PICK f : \A k \in 1..NumBR : SkippedBuffer(b, k) = f[k] /\ f[k] = Skipped(b, k, f)
  BY SkipSteps
<1>2. n \in Nat /\ DOMAIN bs[i] = 1..n
  BY StringTypes
<1>3. ASSUME NEW k \in 1..n
      PROVE  /\ H(k) \in 1..NumBR
             /\ k = n => f[H(k)] = Begins(bs, i + 1)
             /\ k < n => f[H(k)] = f[H(k + 1)]
  <2>1. /\ H(k) \in Nat \ {0} /\ H(k) + bs[i][k].ptrs <= Len(b)
        /\ Reg(b, H(k)) = HeaderOf(bs, i, k)
        /\ k < n => H(k) + bs[i][k].ptrs + 1 = H(k + 1)
        /\ k = n => H(k) + bs[i][k].ptrs + 1 = Begins(bs, i + 1)
    <3>1. k \in DOMAIN bs[i]
      BY <1>2
    <3> QED
      BY <3>1, ItemPlace
  <2>2. Reg(b, H(k)).ptrs = bs[i][k].ptrs /\ Reg(b, H(k)).compound = (k < n)
    BY <2>1 DEF HeaderOf, Header
  <2>3. bs[i][k].ptrs \in Nat /\ Len(b) \in Nat
    BY <1>2, StringTypes, StringPlaces
  <2>4. H(k) \in 1..NumBR
    BY <2>1, <2>3, StringsAssumption
  <2>5. f[H(k)] = Skipped(b, H(k), f)
    BY <1>1, <2>4
  <2>6. CASE k = n
    <3>1. ~(k < n)
      BY <1>2, <2>6
    <3> QED
      BY <2>1, <2>2, <2>4, <2>5, <2>6, <3>1 DEF Skipped
  <2>7. CASE k < n
    <3>1. k + 1 \in DOMAIN bs[i]
      BY <1>2, <2>7
    <3>2. /\ H(k + 1) \in Nat \ {0} /\ H(k + 1) + bs[i][k + 1].ptrs <= Len(b)
          /\ bs[i][k + 1].ptrs \in Nat
      BY <3>1, ItemPlace, StringTypes
    <3>3. H(k + 1) < NumBR
      BY <2>3, <3>2, StringsAssumption
    <3>4. H(k) + Reg(b, H(k)).ptrs + 1 = H(k + 1) /\ Reg(b, H(k)).compound
      BY <2>1, <2>2, <2>7
    <3>5. f[H(k)] = f[H(k + 1)]
      BY <2>5, <3>3, <3>4 DEF Skipped
    <3>6. k # n
      <4> HIDE DEF n
      <4> QED
        BY <1>2, <2>7
    <3> QED
      BY <2>4, <3>5, <3>6
  <2> QED
    BY <1>2, <2>4, <2>6, <2>7
<1> HIDE DEF H, b, n
<1>4. 0 \in Q(f)
  BY <1>2, <1>3
<1>5. ASSUME NEW d \in Nat, d \in Q(f) PROVE d + 1 \in Q(f)
  <2>1. SUFFICES ASSUME d + 1 < n PROVE f[H(n - (d + 1))] = Begins(bs, i + 1)
    OBVIOUS
  <2>2. n - (d + 1) \in 1..n /\ n - (d + 1) < n /\ (n - (d + 1)) + 1 = n - d /\ d < n
    BY <1>2, <2>1
  <2> QED
    BY <1>3, <1>5, <2>2
<1>6. \A d \in Nat : d \in Q(f)
  <2> HIDE DEF Q
  <2> QED
    BY <1>4, <1>5, Induction
<1>7. j \in 1..n /\ n - j \in Nat /\ n - j < n /\ n - (n - j) = j
  BY <1>2
<1>8. f[H(j)] = Begins(bs, i + 1)
  BY <1>6, <1>7
<1> QED
  BY <1>1, <1>3, <1>7, <1>8 DEF H, b

-----------------------------------------------------------------------------

\* What the locals of extended_transfer range over.
Locals(y) ==
    /\ {"step", "src", "sptr", "slen", "buf", "dptr", "dlen", "accept", "copied", "done",
        "fault"} \subseteq DOMAIN y
    /\ y.src \in Nat /\ y.sptr \in Nat /\ y.slen \in Nat /\ y.buf \in Nat /\ y.dptr \in Nat
    /\ y.dlen \in Nat /\ y.accept \in BOOLEAN /\ y.copied \in Nat /\ y.done \in Nat
\* The transfer is at pointer ptr of the item at src of string i, of which left units
\* are left; u units of the string stand before it.
Cursor(ss, i, src, ptr, left, u) ==
    \E j \in DOMAIN ss[i] :
       /\ ptr \in 1..ss[i][j].ptrs /\ left \in 0..ss[i][j].len
       /\ src = HeaderAt(ss, i, j)
       /\ u = UnitsBefore(ss, i, j, ptr) + (ss[i][j].len - left)

\* The unit d places behind the cursor.
UnitBehind(m, src, ptr, left, d) ==
    [page |-> Reg(m, src + ptr).page, at |-> Reg(m, src).len - left + d]

\* The next units are those that follow in the string.
LEMMA CursorUnits ==
    ASSUME NEW ss \in StringsType, NEW i \in DOMAIN ss, NEW src, NEW ptr, NEW left, NEW u,
           Cursor(ss, i, src, ptr, left, u)
    PROVE  /\ u \in Nat /\ left \in Nat /\ src \in Nat /\ ptr \in Nat
           /\ Len(Units(ss, i)) \in Nat /\ u + left <= Len(Units(ss, i))
           /\ \A n \in Nat : n < left =>
                Units(ss, i)[u + n + 1] = UnitBehind(Registers(ss), src, ptr, left, n)
<1> DEFINE rs == Registers(ss)
           us == Units(ss, i)
<1>1. PICK j \in DOMAIN ss[i] :
         /\ ptr \in 1..ss[i][j].ptrs /\ left \in 0..ss[i][j].len
         /\ src = HeaderAt(ss, i, j)
         /\ u = UnitsBefore(ss, i, j, ptr) + (ss[i][j].len - left)
  BY DEF Cursor
<1> DEFINE l == ss[i][j].len
           v == UnitsBefore(ss, i, j, ptr)
<1>2. /\ v \in Nat /\ l \in Nat /\ v + l <= Len(us)
      /\ \A n \in 1..l : us[v + n] = [page |-> <<i, j, ptr>>, at |-> n - 1]
  BY <1>1, UnitPlace
<1>3. src \in Nat /\ Reg(rs, src) = HeaderOf(ss, i, j)
      /\ Reg(rs, src + ptr) = Pointer(<<i, j, ptr>>)
  BY <1>1, ItemPlace
<1>4. Reg(rs, src).len = l /\ Reg(rs, src + ptr).page = <<i, j, ptr>>
  BY <1>3 DEF HeaderOf, Header, Pointer
<1>5. Len(us) \in Nat
  <2>1. us \in Seq(UnitType)
    BY UnitsShape
  <2> QED
    BY <2>1
<1>6. ptr \in Nat
  BY <1>1, StringTypes
<1> HIDE DEF rs, us, l, v
<1>7. left \in 0..l /\ u = v + (l - left)
  BY <1>1 DEF l, v
<1>8. ASSUME NEW n \in Nat, n < left
      PROVE  us[u + n + 1] = UnitBehind(rs, src, ptr, left, n)
  <2> DEFINE q == l - left + n + 1
  <2>1. q \in 1..l /\ v + q = u + n + 1 /\ q - 1 = l - left + n
    <3>1. v \in Nat /\ l \in Nat
      BY <1>2
    <3> QED
      BY <1>7, <1>8, <3>1
  <2>2. us[v + q] = [page |-> <<i, j, ptr>>, at |-> q - 1]
    BY <1>2, <2>1
  <2> QED
    BY <1>4, <2>1, <2>2 DEF UnitBehind
<1>9. u \in Nat /\ left \in Nat /\ u + left <= Len(us)
  BY <1>2, <1>5, <1>7
<1> QED
  BY <1>3, <1>5, <1>6, <1>8, <1>9 DEF rs, us

\* Each of them by itself.
LEMMA UnitAtCursor ==
    ASSUME NEW ss \in StringsType, NEW i \in DOMAIN ss, NEW src, NEW ptr, NEW left, NEW u,
           Cursor(ss, i, src, ptr, left, u), NEW d \in Nat, d < left
    PROVE  Units(ss, i)[u + d + 1] = UnitBehind(Registers(ss), src, ptr, left, d)
BY CursorUnits

\* The register behind a source item whose last substring is y.sptr.
BehindSource(y) == y.src + y.sptr + 1
\* What NextSource does behind an item.
LEMMA SourceAfterItem ==
    ASSUME NEW m, NEW y, y.src \in Nat, y.sptr \in Nat, y.slen = 0,
           y.sptr = Reg(m, y.src).ptrs
    PROVE  /\ BehindSource(y) \in Nat
           /\ ~Reg(m, y.src).compound =>
                NextSource(y, m) = [y EXCEPT !.step = "end", !.src = BehindSource(y)]
           /\ /\ Reg(m, y.src).compound /\ ~MrTooLarge(m, BehindSource(y) + 1)
              /\ ~MrTooLarge(m, BehindSource(y) + Reg(m, BehindSource(y)).ptrs)
              => NextSource(y, m) = [y EXCEPT !.src = BehindSource(y), !.sptr = 1,
                                              !.slen = Reg(m, BehindSource(y)).len]
<1>1. PICK next \in Nat : next = y.src + y.sptr + 1 /\ next = BehindSource(y)
  BY DEF BehindSource
<1>2. PICK p \in Nat : p = Reg(m, y.src).ptrs
  OBVIOUS
<1>3. ASSUME ~Reg(m, y.src).compound
      PROVE  NextSource(y, m) = [y EXCEPT !.step = "end", !.src = next]
  BY <1>1, <1>2, <1>3 DEF NextSource
<1>4. ASSUME Reg(m, y.src).compound,
             ~MrTooLarge(m, next + 1), ~MrTooLarge(m, next + Reg(m, next).ptrs)
      PROVE  NextSource(y, m) = [y EXCEPT !.src = next, !.sptr = 1, !.slen = Reg(m, next).len]
  BY <1>1, <1>2, <1>4 DEF NextSource
<1> QED
  BY <1>1, <1>3, <1>4

\* What the header of an item says.
LEMMA ItemHeader ==
    ASSUME NEW ss \in StringsType, NEW i \in DOMAIN ss, NEW j \in DOMAIN ss[i]
    PROVE  LET hd == Reg(Registers(ss), HeaderAt(ss, i, j))
           IN  /\ hd.len = ss[i][j].len /\ hd.ptrs = ss[i][j].ptrs
               /\ j < Len(ss[i]) => hd.compound
               /\ j = Len(ss[i]) => ~hd.compound
               /\ hd.more = (i < Len(ss))
<1> DEFINE hd == Reg(Registers(ss), HeaderAt(ss, i, j))
<1>1. hd = HeaderOf(ss, i, j)
  BY ItemPlace
<1> HIDE DEF hd
<1>2. /\ hd.len = ss[i][j].len /\ hd.ptrs = ss[i][j].ptrs
      /\ hd.compound = (j < Len(ss[i])) /\ hd.more = (i < Len(ss))
  BY <1>1 DEF HeaderOf, Header
<1>3. j = Len(ss[i]) => ~(j < Len(ss[i]))
  BY StringTypes
<1> QED
  BY <1>2, <1>3 DEF hd

\* NextSource goes on behind what has been copied, and ends behind all of it.
LEMMA SourceGoesOn ==
    ASSUME NEW ss \in StringsType, NEW i \in DOMAIN ss,
           \A j \in DOMAIN ss[i] : ss[i][j].len > 0,
           NEW y, Locals(y), y.step = "copy", NEW u,
           Cursor(ss, i, y.src, y.sptr, y.slen, u)
    PROVE  LET z == NextSource(y, Registers(ss))
           IN  /\ Locals(z)
               /\ z.buf = y.buf /\ z.dptr = y.dptr /\ z.dlen = y.dlen /\ z.accept = y.accept
               /\ z.copied = y.copied /\ z.done = y.done
               /\ \/ /\ z.step = "copy" /\ z.slen > 0
                     /\ Cursor(ss, i, z.src, z.sptr, z.slen, u)
                  \/ z.step = "end" /\ z.src = Begins(ss, i + 1) /\ u = Len(Units(ss, i))
<1> DEFINE m == Registers(ss)
           z == NextSource(y, m)
           next == BehindSource(y)
<1>1. PICK j \in DOMAIN ss[i] :
         /\ y.sptr \in 1..ss[i][j].ptrs /\ y.slen \in 0..ss[i][j].len
         /\ y.src = HeaderAt(ss, i, j)
         /\ u = UnitsBefore(ss, i, j, y.sptr) + (ss[i][j].len - y.slen)
  BY DEF Cursor
<1> DEFINE l == ss[i][j].len
           p == ss[i][j].ptrs
<1>2. /\ l \in Nat /\ p \in Nat \ {0} /\ j \in 1..Len(ss[i]) /\ Len(ss[i]) \in Nat
      /\ l > 0
  BY StringTypes
<1>3. /\ Reg(m, y.src).len = l /\ Reg(m, y.src).ptrs = p
      /\ j < Len(ss[i]) => Reg(m, y.src).compound
      /\ j = Len(ss[i]) => ~Reg(m, y.src).compound
  BY <1>1, ItemHeader
<1>4. y.slen \in Nat /\ y.sptr \in Nat /\ y.src \in Nat /\ next \in Nat
  BY DEF Locals, BehindSource
<1>5. CASE y.slen > 0
  BY <1>5 DEF NextSource
<1>6. CASE y.slen = 0 /\ y.sptr < p
  <2>1. z = [y EXCEPT !.sptr = y.sptr + 1, !.slen = l]
    <3> HIDE DEF m, l, p
    <3> QED
      BY <1>2, <1>3, <1>4, <1>6 DEF NextSource
  <2>2. /\ Locals(z) /\ z.step = "copy" /\ z.src = y.src /\ z.sptr = y.sptr + 1
        /\ z.slen = l
        /\ z.buf = y.buf /\ z.dptr = y.dptr /\ z.dlen = y.dlen /\ z.accept = y.accept
        /\ z.copied = y.copied /\ z.done = y.done
    BY <1>2, <1>4, <2>1 DEF Locals
  <2>3. u = UnitsBefore(ss, i, j, y.sptr) + l
    BY <1>1, <1>2, <1>6
  <2>4. u = UnitsBefore(ss, i, j, y.sptr + 1) /\ u \in Nat
    BY <1>1, <1>6, <2>3, UnitPlace
  <2>5. y.sptr + 1 \in 1..p /\ l \in 0..l /\ u = UnitsBefore(ss, i, j, y.sptr + 1) + (l - l)
    BY <1>2, <1>4, <1>6, <2>4
  <2>6. Cursor(ss, i, y.src, y.sptr + 1, l, u)
    BY <1>1, <2>5 DEF Cursor
  <2> QED
    BY <1>2, <2>2, <2>6
<1>7. CASE y.slen = 0 /\ y.sptr = p /\ j < Len(ss[i])
  <2>1. j + 1 \in DOMAIN ss[i]
    BY <1>2, <1>7, StringTypes
  <2> DEFINE l2 == ss[i][j + 1].len
             p2 == ss[i][j + 1].ptrs
  <2>2. next = HeaderAt(ss, i, j + 1)
    BY <1>1, <1>7, ItemPlace DEF BehindSource
  <2>3. /\ next + p2 <= Len(m) /\ Reg(m, next).len = l2 /\ Reg(m, next).ptrs = p2
    BY <2>1, <2>2, ItemPlace, ItemHeader
  <2>4. l2 \in Nat /\ p2 \in Nat \ {0} /\ l2 > 0 /\ Len(m) \in Nat
    BY <2>1, StringTypes, StringPlaces
  <2> HIDE DEF m, l2, p2
  <2>5. ~MrTooLarge(m, next + 1) /\ ~MrTooLarge(m, next + Reg(m, next).ptrs)
    BY <1>4, <2>3, <2>4 DEF MrTooLarge
  <2>6. z = [y EXCEPT !.src = next, !.sptr = 1, !.slen = l2]
    <3>1. Reg(m, y.src).compound /\ y.sptr = Reg(m, y.src).ptrs
      BY <1>3, <1>7
    <3>2. z = [y EXCEPT !.src = next, !.sptr = 1, !.slen = Reg(m, next).len]
      BY <1>4, <1>7, <2>5, <3>1, SourceAfterItem
    <3> QED
      BY <2>3, <3>2
  <2>7. /\ Locals(z) /\ z.step = "copy" /\ z.src = next /\ z.sptr = 1
        /\ z.slen = l2
        /\ z.buf = y.buf /\ z.dptr = y.dptr /\ z.dlen = y.dlen /\ z.accept = y.accept
        /\ z.copied = y.copied /\ z.done = y.done
    BY <1>4, <2>4, <2>6 DEF Locals
  <2>8. u = UnitsBefore(ss, i, j, p) + l
    BY <1>1, <1>2, <1>7
  <2>9. u = UnitsBefore(ss, i, j + 1, 1) /\ u \in Nat
    BY <1>1, <1>7, <2>8, UnitPlace
  <2>10. 1 \in 1..p2 /\ l2 \in 0..l2 /\ u = UnitsBefore(ss, i, j + 1, 1) + (l2 - l2)
    BY <2>4, <2>9
  <2>11. Cursor(ss, i, next, 1, l2, u)
    BY <2>1, <2>2, <2>10 DEF Cursor, l2, p2
  <2> QED
    BY <2>4, <2>7, <2>11 DEF m
<1>8. CASE y.slen = 0 /\ y.sptr = p /\ j = Len(ss[i])
  <2>1. z = [y EXCEPT !.step = "end", !.src = next]
    <3>1. ~Reg(m, y.src).compound /\ y.sptr = Reg(m, y.src).ptrs
      BY <1>3, <1>8
    <3> QED
      BY <1>4, <1>8, <3>1, SourceAfterItem
  <2>2. next = Begins(ss, i + 1)
    BY <1>1, <1>8, ItemPlace DEF BehindSource
  <2>3. u = UnitsBefore(ss, i, j, p) + l
    BY <1>1, <1>2, <1>8
  <2>4. u = Len(Units(ss, i))
    BY <1>1, <1>8, <2>3, UnitPlace
  <2>5. /\ Locals(z) /\ z.step = "end" /\ z.src = next
        /\ z.buf = y.buf /\ z.dptr = y.dptr /\ z.dlen = y.dlen /\ z.accept = y.accept
        /\ z.copied = y.copied /\ z.done = y.done
    BY <1>4, <2>1 DEF Locals
  <2> QED
    BY <2>2, <2>4, <2>5
<1>9. y.sptr \in 1..p /\ y.slen \in 0..l
  BY <1>1
<1> HIDE DEF z, next, p, l
<1>10. \/ y.slen > 0
       \/ y.slen = 0 /\ y.sptr < p
       \/ y.slen = 0 /\ y.sptr = p /\ j < Len(ss[i])
       \/ y.slen = 0 /\ y.sptr = p /\ j = Len(ss[i])
  BY <1>2, <1>4, <1>9
<1> QED
  BY <1>5, <1>6, <1>7, <1>8, <1>10 DEF z

\* The register behind a buffer item whose last piece is y.dptr.
BehindTarget(y) == y.buf + y.dptr + 1
\* What NextTarget does behind an item.
LEMMA TargetAfterItem ==
    ASSUME NEW b, NEW y, y.buf \in Nat, y.dptr \in Nat, y.dlen = 0, y.step = "copy",
           y.dptr = Reg(b, y.buf).ptrs
    PROVE  /\ ~Reg(b, y.buf).compound => NextTarget(y, b) = Overflow(y)
           /\ /\ Reg(b, y.buf).compound /\ ~BrTooLarge(BehindTarget(y) + 1)
              /\ ~BrTooLarge(BehindTarget(y) + Reg(b, BehindTarget(y)).ptrs)
              => NextTarget(y, b) = [y EXCEPT !.buf = BehindTarget(y), !.dptr = 1,
                                              !.dlen = Reg(b, BehindTarget(y)).len]
<1>1. PICK next \in Nat : next = y.buf + y.dptr + 1 /\ next = BehindTarget(y)
  BY DEF BehindTarget
<1>2. PICK p \in Nat : p = Reg(b, y.buf).ptrs
  OBVIOUS
<1>3. ASSUME ~Reg(b, y.buf).compound PROVE NextTarget(y, b) = Overflow(y)
  BY <1>1, <1>2, <1>3 DEF NextTarget
<1>4. ASSUME Reg(b, y.buf).compound,
             ~BrTooLarge(next + 1), ~BrTooLarge(next + Reg(b, next).ptrs)
      PROVE  NextTarget(y, b) = [y EXCEPT !.buf = next, !.dptr = 1, !.dlen = Reg(b, next).len]
  BY <1>1, <1>2, <1>4 DEF NextTarget
<1> QED
  BY <1>1, <1>3, <1>4

\* NextTarget goes on behind what has been filled, and overflows if that is all.
LEMMA TargetGoesOn ==
    ASSUME NEW bs \in StringsType, NEW i \in DOMAIN bs, Len(Registers(bs)) < NumBR,
           NEW y, Locals(y), y.step = "copy", NEW u,
           Cursor(bs, i, y.buf, y.dptr, y.dlen, u)
    PROVE  LET z == NextTarget(y, Registers(bs))
           IN  /\ Locals(z)
               /\ z.src = y.src /\ z.sptr = y.sptr /\ z.slen = y.slen /\ z.accept = y.accept
               /\ z.copied = y.copied /\ z.done = y.done
               /\ \/ z.step = "copy" /\ Cursor(bs, i, z.buf, z.dptr, z.dlen, u)
                  \/ z.step = "overflow" /\ u = Len(Units(bs, i))
<1> DEFINE b == Registers(bs)
           z == NextTarget(y, b)
           next == BehindTarget(y)
<1>1. PICK j \in DOMAIN bs[i] :
         /\ y.dptr \in 1..bs[i][j].ptrs /\ y.dlen \in 0..bs[i][j].len
         /\ y.buf = HeaderAt(bs, i, j)
         /\ u = UnitsBefore(bs, i, j, y.dptr) + (bs[i][j].len - y.dlen)
  BY DEF Cursor
<1> DEFINE l == bs[i][j].len
           p == bs[i][j].ptrs
<1>2. l \in Nat /\ p \in Nat \ {0} /\ j \in 1..Len(bs[i]) /\ Len(bs[i]) \in Nat
  BY StringTypes
<1>3. /\ Reg(b, y.buf).len = l /\ Reg(b, y.buf).ptrs = p
      /\ j < Len(bs[i]) => Reg(b, y.buf).compound
      /\ j = Len(bs[i]) => ~Reg(b, y.buf).compound
  BY <1>1, ItemHeader
<1>4. y.dlen \in Nat /\ y.dptr \in Nat /\ y.buf \in Nat /\ next \in Nat
  BY DEF Locals, BehindTarget
<1>5. CASE y.dlen > 0
  <2>1. z = y
    BY <1>5 DEF NextTarget
  <2> QED
    BY <2>1
<1>6. CASE y.dlen = 0 /\ y.dptr < p
  <2>1. z = [y EXCEPT !.dptr = y.dptr + 1, !.dlen = l]
    <3> HIDE DEF b, l, p
    <3> QED
      BY <1>2, <1>3, <1>4, <1>6 DEF NextTarget
  <2>2. /\ Locals(z) /\ z.step = "copy" /\ z.buf = y.buf /\ z.dptr = y.dptr + 1
        /\ z.dlen = l
        /\ z.src = y.src /\ z.sptr = y.sptr /\ z.slen = y.slen /\ z.accept = y.accept
        /\ z.copied = y.copied /\ z.done = y.done
    BY <1>2, <1>4, <2>1 DEF Locals
  <2>3. u = UnitsBefore(bs, i, j, y.dptr) + l
    BY <1>1, <1>2, <1>6
  <2>4. u = UnitsBefore(bs, i, j, y.dptr + 1) /\ u \in Nat
    BY <1>1, <1>6, <2>3, UnitPlace
  <2>5. y.dptr + 1 \in 1..p /\ l \in 0..l /\ u = UnitsBefore(bs, i, j, y.dptr + 1) + (l - l)
    BY <1>2, <1>4, <1>6, <2>4
  <2>6. Cursor(bs, i, y.buf, y.dptr + 1, l, u)
    BY <1>1, <2>5 DEF Cursor
  <2> QED
    BY <2>2, <2>6
<1>7. CASE y.dlen = 0 /\ y.dptr = p /\ j < Len(bs[i])
  <2>1. j + 1 \in DOMAIN bs[i]
    BY <1>2, <1>7, StringTypes
  <2> DEFINE l2 == bs[i][j + 1].len
             p2 == bs[i][j + 1].ptrs
  <2>2. next = HeaderAt(bs, i, j + 1)
    BY <1>1, <1>7, ItemPlace DEF BehindTarget
  <2>3. /\ next + p2 <= Len(b) /\ Reg(b, next).len = l2 /\ Reg(b, next).ptrs = p2
    BY <2>1, <2>2, ItemPlace, ItemHeader
  <2>4. l2 \in Nat /\ p2 \in Nat \ {0} /\ Len(b) \in Nat /\ Len(b) < NumBR
    BY <2>1, StringTypes, StringPlaces
  <2> HIDE DEF b, l2, p2
  <2>5. ~BrTooLarge(next + 1) /\ ~BrTooLarge(next + Reg(b, next).ptrs)
    BY <1>4, <2>3, <2>4, StringsAssumption DEF BrTooLarge
  <2>6. z = [y EXCEPT !.buf = next, !.dptr = 1, !.dlen = l2]
    <3>1. Reg(b, y.buf).compound /\ y.dptr = Reg(b, y.buf).ptrs
      BY <1>3, <1>7
    <3>2. z = [y EXCEPT !.buf = next, !.dptr = 1, !.dlen = Reg(b, next).len]
      BY <1>4, <1>7, <2>5, <3>1, TargetAfterItem
    <3> QED
      BY <2>3, <3>2
  <2>7. /\ Locals(z) /\ z.step = "copy" /\ z.buf = next /\ z.dptr = 1
        /\ z.dlen = l2
        /\ z.src = y.src /\ z.sptr = y.sptr /\ z.slen = y.slen /\ z.accept = y.accept
        /\ z.copied = y.copied /\ z.done = y.done
    <3>1. /\ z.step = y.step /\ z.buf = next /\ z.dptr = 1 /\ z.dlen = l2
          /\ z.src = y.src /\ z.sptr = y.sptr /\ z.slen = y.slen /\ z.accept = y.accept
          /\ z.copied = y.copied /\ z.done = y.done /\ DOMAIN z = DOMAIN y
      BY <1>4, <2>6 DEF Locals
    <3> HIDE DEF z
    <3>2. Locals(z)
      BY <1>4, <2>4, <3>1 DEF Locals
    <3> QED
      BY <3>1, <3>2
  <2>8. u = UnitsBefore(bs, i, j, p) + l
    BY <1>1, <1>2, <1>7
  <2>9. u = UnitsBefore(bs, i, j + 1, 1) /\ u \in Nat
    BY <1>1, <1>7, <2>8, UnitPlace
  <2>10. 1 \in 1..p2 /\ l2 \in 0..l2 /\ u = UnitsBefore(bs, i, j + 1, 1) + (l2 - l2)
    BY <2>4, <2>9
  <2>11. Cursor(bs, i, next, 1, l2, u)
    BY <2>1, <2>2, <2>10 DEF Cursor, l2, p2
  <2> QED
    BY <2>7, <2>11 DEF b
<1>8. CASE y.dlen = 0 /\ y.dptr = p /\ j = Len(bs[i])
  <2>1. z = Overflow(y)
    <3>1. ~Reg(b, y.buf).compound /\ y.dptr = Reg(b, y.buf).ptrs
      BY <1>3, <1>8
    <3> QED
      BY <1>4, <1>8, <3>1, TargetAfterItem
  <2>3. u = UnitsBefore(bs, i, j, p) + l
    BY <1>1, <1>2, <1>8
  <2>4. u = Len(Units(bs, i))
    BY <1>1, <1>8, <2>3, UnitPlace
  <2>5. /\ Locals(z) /\ z.step = "overflow"
        /\ z.src = y.src /\ z.sptr = y.sptr /\ z.slen = y.slen /\ z.accept = y.accept
        /\ z.copied = y.copied /\ z.done = y.done
    BY <1>4, <2>1 DEF Locals, Overflow
  <2> QED
    BY <2>4, <2>5
<1>9. y.dptr \in 1..p /\ y.dlen \in 0..l
  BY <1>1
<1> HIDE DEF z, next, p, l
<1>10. \/ y.dlen > 0
       \/ y.dlen = 0 /\ y.dptr < p
       \/ y.dlen = 0 /\ y.dptr = p /\ j < Len(bs[i])
       \/ y.dlen = 0 /\ y.dptr = p /\ j = Len(bs[i])
  BY <1>2, <1>4, <1>9
<1> QED
  BY <1>5, <1>6, <1>7, <1>8, <1>10 DEF z

\* Behind a string it goes to the next buffer, if there is one.
LEMMA TargetEnds ==
    ASSUME NEW bs \in StringsType, NEW i \in DOMAIN bs, Len(Registers(bs)) < NumBR,
           NEW y, Locals(y), y.step = "end", NEW u,
           Cursor(bs, i, y.buf, y.dptr, y.dlen, u), y.accept = (i < Len(bs))
    PROVE  LET z == NextTarget(y, Registers(bs))
           IN  /\ Locals(z) /\ z.step = "item" /\ z.src = y.src /\ z.buf = Begins(bs, i + 1)
               /\ z.accept = (i + 1 <= Len(bs)) /\ z.copied = y.copied /\ z.done = y.done
<1> DEFINE b == Registers(bs)
           z == NextTarget(y, b)
           n == Begins(bs, i + 1)
<1>1. SkippedBuffer(b, y.buf) = n
  BY SkippedString DEF Cursor
<1>2. Len(bs) \in Nat /\ i \in 1..Len(bs)
  BY StringTypes
<1>3. n \in Nat
  <2>1. i + 1 \in 1..(Len(bs) + 1)
    BY <1>2
  <2> QED
    BY <2>1, StringPlaces
<1>4. i + 1 <= Len(bs) => n < NumBR
  <2> SUFFICES ASSUME i + 1 <= Len(bs) PROVE n < NumBR
    OBVIOUS
  <2>1. i + 1 \in DOMAIN bs
    BY <1>2, StringTypes
  <2>2. 1 \in DOMAIN bs[i + 1] /\ HeaderAt(bs, i + 1, 1) = n
    BY <2>1, StringTypes, StringPlaces
  <2>3. n + bs[i + 1][1].ptrs <= Len(b)
    BY <2>1, <2>2, ItemPlace
  <2>4. bs[i + 1][1].ptrs \in Nat /\ Len(b) \in Nat
    BY <2>1, <2>2, StringTypes, StringPlaces
  <2> QED
    BY <1>3, <2>3, <2>4, StringsAssumption
<1> HIDE DEF b, n
<1>5. z = [y EXCEPT !.step = "item", !.buf = n, !.accept = y.accept /\ n < NumBR]
  BY <1>1 DEF NextTarget
<1>6. /\ z.accept = (y.accept /\ n < NumBR) /\ z.step = "item" /\ z.src = y.src /\ z.buf = n
      /\ z.copied = y.copied /\ z.done = y.done /\ Locals(z)
  BY <1>3, <1>5 DEF Locals
<1>7. (y.accept /\ n < NumBR) = (i + 1 <= Len(bs))
  <2>1. (i < Len(bs)) = (i + 1 <= Len(bs))
    BY <1>2
  <2>2. y.accept = (i + 1 <= Len(bs))
    BY <2>1
  <2> DEFINE c == i + 1 <= Len(bs)
             d == n < NumBR
  <2>3. c \in BOOLEAN /\ d \in BOOLEAN /\ (c => d) /\ y.accept = c
    BY <1>4, <2>2
  <2> HIDE DEF c, d
  <2>4. (y.accept /\ d) = c
    BY <2>3
  <2> QED
    BY <2>4 DEF c, d
<1> QED
  BY <1>6, <1>7 DEF b, n

-----------------------------------------------------------------------------

\* Where the units of each string go; and whether all strings before i have fitted.
PairType == [from : UnitType, to : UnitType]
Pairs(ss, bs) == [i \in DOMAIN ss |-> Placed(ss, bs, i)]
FitBefore(ss, bs, i) == \A h \in 1..(i - 1) : Fits(ss, bs, h)

\* A string is placed as far as both it and its buffer reach.
LEMMA PlacedShape ==
    ASSUME NEW ss \in StringsType, NEW bs \in StringsType, NEW i \in DOMAIN ss
    PROVE  LET from == Units(ss, i)
               to == Units(bs, i)
               all == Placed(ss, bs, i)
           IN  /\ all \in Seq(PairType)
               /\ i \notin DOMAIN bs \/ ~FitBefore(ss, bs, i) => all = <<>>
               /\ i \in DOMAIN bs /\ FitBefore(ss, bs, i) =>
                    /\ Len(all) = IF Len(from) < Len(to) THEN Len(from) ELSE Len(to)
                    /\ \A u \in 1..Len(all) : all[u] = [from |-> from[u], to |-> to[u]]
<1> DEFINE from == Units(ss, i)
           to == Units(bs, i)
           n == IF Len(from) < Len(to) THEN Len(from) ELSE Len(to)
           all == Placed(ss, bs, i)
<1>1. i \in Nat \ {0} /\ Len(bs) \in Nat /\ DOMAIN bs = 1..Len(bs)
  BY StringTypes
<1>2. (i > Len(bs) \/ \E h \in 1..(i - 1) : ~Fits(ss, bs, h)) <=>
        (i \notin DOMAIN bs \/ ~FitBefore(ss, bs, i))
  BY <1>1 DEF FitBefore
<1>3. CASE i \notin DOMAIN bs \/ ~FitBefore(ss, bs, i)
  <2>1. all = <<>>
    BY <1>2, <1>3 DEF Placed
  <2> QED
    BY <1>3, <2>1
<1>4. CASE i \in DOMAIN bs /\ FitBefore(ss, bs, i)
  <2>1. all = [u \in 1..n |-> [from |-> from[u], to |-> to[u]]]
    BY <1>2, <1>4 DEF Placed
  <2>2. from \in Seq(UnitType) /\ to \in Seq(UnitType)
    BY <1>4, UnitsShape
  <2> HIDE DEF from, to, all
  <2>3. n \in Nat /\ n <= Len(from) /\ n <= Len(to)
    BY <2>2
  <2> HIDE DEF n
  <2>4. \A u \in 1..n : [from |-> from[u], to |-> to[u]] \in PairType
    <3> SUFFICES ASSUME NEW u \in 1..n PROVE [from |-> from[u], to |-> to[u]] \in PairType
      OBVIOUS
    <3>1. u \in 1..Len(from) /\ u \in 1..Len(to)
      BY <2>2, <2>3
    <3>2. from[u] \in UnitType /\ to[u] \in UnitType
      BY <2>2, <3>1
    <3> QED
      BY <3>2 DEF PairType
  <2>5. all \in Seq(PairType)
    BY <2>1, <2>3, <2>4
  <2>6. Len(all) = n /\ \A u \in 1..n : all[u] = [from |-> from[u], to |-> to[u]]
    BY <2>1, <2>3
  <2> QED
    BY <1>4, <2>5, <2>6 DEF from, to, all, n
<1> QED
  BY <1>3, <1>4

\* The strings one after the other.
LEMMA PlacementShape ==
    ASSUME NEW ss \in StringsType, NEW bs \in StringsType
    PROVE  /\ Pairs(ss, bs) \in Seq(Seq(PairType)) /\ Len(Pairs(ss, bs)) = Len(ss)
           /\ \A i \in DOMAIN ss : Pairs(ss, bs)[i] = Placed(ss, bs, i)
           /\ Placement(ss, bs) = FlattenSeq(Pairs(ss, bs))
           /\ Placement(ss, bs) \in Seq(PairType)
<1>1. DOMAIN ss = 1..Len(ss) /\ Len(ss) \in Nat
  BY StringTypes
<1>2. \A i \in DOMAIN ss : Placed(ss, bs, i) \in Seq(PairType)
  BY PlacedShape
<1>3. Pairs(ss, bs) \in Seq(Seq(PairType)) /\ Len(Pairs(ss, bs)) = Len(ss)
  BY <1>1, <1>2 DEF Pairs
<1>4. Placement(ss, bs) = FlattenSeq(Pairs(ss, bs))
  BY DEF Placement, Pairs
<1> QED
  BY <1>3, <1>4, PartsSteps DEF Pairs

\* A string that has no buffer, or not enough room in it, is the last.
LEMMA PlacementStops ==
    ASSUME NEW ss \in StringsType, NEW bs \in StringsType, NEW i \in DOMAIN ss,
           ~Fits(ss, bs, i)
    PROVE  /\ Placement(ss, bs) = Parts(Pairs(ss, bs), i) /\ ~AllFit(ss, bs)
           /\ i \notin DOMAIN bs => Placement(ss, bs) = Parts(Pairs(ss, bs), i - 1)
<1> DEFINE F == Pairs(ss, bs)
<1>1. /\ F \in Seq(Seq(PairType)) /\ Len(F) = Len(ss) /\ Placement(ss, bs) = FlattenSeq(F)
      /\ \A h \in DOMAIN ss : F[h] = Placed(ss, bs, h)
  BY PlacementShape
<1>2. /\ DOMAIN ss = 1..Len(ss) /\ Len(ss) \in Nat /\ DOMAIN bs = 1..Len(bs)
      /\ Len(bs) \in Nat
  BY StringTypes
<1> HIDE DEF F
<1>3. ASSUME NEW h \in 1..Len(F), h > i PROVE F[h] = <<>>
  <2>1. h \in DOMAIN ss /\ i \in 1..(h - 1)
    BY <1>1, <1>2, <1>3
  <2>2. ~FitBefore(ss, bs, h)
    BY <2>1 DEF FitBefore
  <2> QED
    BY <1>1, <2>1, <2>2, PlacedShape
<1>4. FlattenSeq(F) = Parts(F, i)
  <2>1. i \in 0..Len(F)
    BY <1>1, <1>2
  <2> QED
    BY <1>1, <1>3, <2>1, EmptyParts
<1>5. ASSUME i \notin DOMAIN bs PROVE FlattenSeq(F) = Parts(F, i - 1)
  <2>1. i \in 1..Len(F) /\ i - 1 \in 0..Len(F) /\ F[i] = <<>>
    BY <1>1, <1>2, <1>5, PlacedShape
  <2>2. \A h \in 1..Len(F) : h > i - 1 => F[h] = <<>>
    BY <1>2, <1>3, <2>1
  <2> QED
    BY <1>1, <2>1, <2>2, EmptyParts
<1> QED
  BY <1>1, <1>4, <1>5 DEF F, AllFit

-----------------------------------------------------------------------------

\* The data of a transfer with locals y that has delivered g: before an item, all
\* strings before it are there; while it copies, so are the units in front of both
\* cursors; and at the end all there is room for.
AtItem(ss, bs, y, g) ==
    \E i \in 1..(Len(ss) + 1) :
      /\ y.src = Begins(ss, i) /\ FitBefore(ss, bs, i)
      /\ y.accept = (i <= Len(bs)) /\ (i <= Len(bs) => y.buf = Begins(bs, i))
      /\ y.done = 0 /\ g = Parts(Pairs(ss, bs), i - 1)
InString(ss, bs, y, g, i, u) ==
    /\ i \in DOMAIN bs /\ FitBefore(ss, bs, i) /\ y.accept = (i < Len(bs))
    /\ Cursor(ss, i, y.src, y.sptr, y.slen, u) /\ y.slen > 0
    /\ Cursor(bs, i, y.buf, y.dptr, y.dlen, u)
    /\ y.done \in 0..PartLength(y)
    /\ g = Parts(Pairs(ss, bs), i - 1) \o SubSeq(Placed(ss, bs, i), 1, u + y.done)
AtEnd(ss, bs, y, g) ==
    /\ y.done = 0 /\ g = Placement(ss, bs) /\ (y.step = "done" <=> AllFit(ss, bs))
Exact(ss, bs, y, g) ==
    /\ \/ y.step = "item" /\ AtItem(ss, bs, y, g)
       \/ y.step = "copy" /\ \E i \in DOMAIN ss : \E u : InString(ss, bs, y, g, i, u)
       \/ y.step \in {"done", "overflow"} /\ AtEnd(ss, bs, y, g)
    /\ y.copied + y.done = Len(g)
    /\ Locals(y)
\* The strings and buffers a transfer may meet.
Transferable(ss, bs) ==
    /\ ss \in StringsType /\ bs \in StringsType /\ Len(Registers(bs)) < NumBR
    /\ \A i \in DOMAIN ss : \A j \in DOMAIN ss[i] : ss[i][j].len > 0

\* A transfer begins at the first string and the first buffer.
LEMMA BeginsExact ==
    ASSUME NEW ss, NEW bs, Transferable(ss, bs)
    PROVE  Exact(ss, bs, StartTransfer(bs # <<>>), <<>>)
<1> DEFINE y == StartTransfer(bs # <<>>)
<1>1. ss \in StringsType /\ bs \in StringsType
  BY DEF Transferable
<1>2. /\ y.step = "item" /\ y.src = 1 /\ y.buf = 1 /\ y.accept = (bs # <<>>)
      /\ y.copied = 0 /\ y.done = 0 /\ Locals(y)
  BY DEF StartTransfer, NoTransfer, Locals
<1> HIDE DEF y
<1>3. Begins(ss, 1) = 1 /\ Begins(bs, 1) = 1
  BY <1>1, StringPlaces
<1>4. 1 \in 1..(Len(ss) + 1)
  BY <1>1, StringTypes
<1>5. (bs # <<>>) = (1 <= Len(bs))
  <2>1. bs \in Seq(Seq(Items))
    BY <1>1 DEF StringsType
  <2> QED
    BY <2>1
<1>6. FitBefore(ss, bs, 1)
  BY DEF FitBefore
<1>7. Parts(Pairs(ss, bs), 0) = <<>>
  <2>1. Pairs(ss, bs) \in Seq(Seq(PairType))
    BY <1>1, PlacementShape
  <2> QED
    BY <2>1, PartsSteps
<1>8. AtItem(ss, bs, y, <<>>)
  <2>1. 1 - 1 = 0
    OBVIOUS
  <2>2. y.accept = (1 <= Len(bs))
    BY <1>2, <1>5
  <2> QED
    BY <1>2, <1>3, <1>4, <1>6, <1>7, <2>1, <2>2 DEF AtItem
<1>9. y.copied + y.done = Len(<<>>)
  BY <1>2
<1> QED
  BY <1>2, <1>8, <1>9 DEF Exact, y

\* What stands in g while string i is copied.
LEMMA InStringUnits ==
    ASSUME NEW ss, NEW bs, Transferable(ss, bs), NEW i \in DOMAIN ss, NEW u, NEW y, NEW g,
           InString(ss, bs, y, g, i, u), Locals(y)
    PROVE  /\ u \in Nat /\ u + y.slen <= Len(Units(ss, i)) /\ u + y.dlen <= Len(Units(bs, i))
           /\ Len(Units(ss, i)) \in Nat /\ Len(Units(bs, i)) \in Nat
           /\ Placed(ss, bs, i) \in Seq(PairType)
           /\ Len(Placed(ss, bs, i)) = IF Len(Units(ss, i)) < Len(Units(bs, i))
                                       THEN Len(Units(ss, i)) ELSE Len(Units(bs, i))
           /\ u + PartLength(y) <= Len(Placed(ss, bs, i))
           /\ PartLength(y) \in Nat /\ PartLength(y) <= y.slen /\ PartLength(y) <= y.dlen
           /\ Parts(Pairs(ss, bs), i - 1) \in Seq(PairType)
           /\ Parts(Pairs(ss, bs), i) = Parts(Pairs(ss, bs), i - 1) \o Placed(ss, bs, i)
<1>1. ss \in StringsType /\ bs \in StringsType
  BY DEF Transferable
<1>2. /\ i \in DOMAIN bs /\ FitBefore(ss, bs, i)
      /\ Cursor(ss, i, y.src, y.sptr, y.slen, u)
      /\ Cursor(bs, i, y.buf, y.dptr, y.dlen, u)
  BY DEF InString
<1>3. /\ u \in Nat /\ u + y.slen <= Len(Units(ss, i)) /\ u + y.dlen <= Len(Units(bs, i))
      /\ Len(Units(ss, i)) \in Nat /\ Len(Units(bs, i)) \in Nat
      /\ y.slen \in Nat /\ y.dlen \in Nat
  <2>1. /\ u \in Nat /\ u + y.slen <= Len(Units(ss, i)) /\ Len(Units(ss, i)) \in Nat
        /\ y.slen \in Nat
    BY <1>1, <1>2, CursorUnits
  <2>2. u + y.dlen <= Len(Units(bs, i)) /\ Len(Units(bs, i)) \in Nat /\ y.dlen \in Nat
    BY <1>1, <1>2, CursorUnits
  <2> QED
    BY <2>1, <2>2
<1>4. /\ Placed(ss, bs, i) \in Seq(PairType)
      /\ Len(Placed(ss, bs, i)) = IF Len(Units(ss, i)) < Len(Units(bs, i))
                                  THEN Len(Units(ss, i)) ELSE Len(Units(bs, i))
  BY <1>1, <1>2, PlacedShape
<1>5. PartLength(y) \in Nat /\ PartLength(y) <= y.slen /\ PartLength(y) <= y.dlen
  BY <1>3 DEF PartLength
<1>6. u + PartLength(y) <= Len(Placed(ss, bs, i))
  BY <1>3, <1>4, <1>5
<1>7. /\ Parts(Pairs(ss, bs), i - 1) \in Seq(PairType)
      /\ Parts(Pairs(ss, bs), i) = Parts(Pairs(ss, bs), i - 1) \o Placed(ss, bs, i)
  <2>1. /\ Pairs(ss, bs) \in Seq(Seq(PairType)) /\ Len(Pairs(ss, bs)) = Len(ss)
        /\ Pairs(ss, bs)[i] = Placed(ss, bs, i)
    BY <1>1, PlacementShape
  <2>2. i \in 1..Len(Pairs(ss, bs)) /\ i - 1 \in 0..Len(Pairs(ss, bs))
    BY <1>1, <2>1, StringTypes
  <2> QED
    BY <2>1, <2>2, PartsSteps
<1> QED
  BY <1>3, <1>4, <1>5, <1>6, <1>7

\* The beginnings of a sequence.
LEMMA Beginnings ==
    ASSUME NEW S, NEW s \in Seq(S)
    PROVE  /\ \A n \in 0..Len(s) : /\ SubSeq(s, 1, n) \in Seq(S) /\ Len(SubSeq(s, 1, n)) = n
                                   /\ \A p \in 1..n : SubSeq(s, 1, n)[p] = s[p]
           /\ SubSeq(s, 1, 0) = <<>> /\ SubSeq(s, 1, Len(s)) = s
           /\ \A n \in 0..Len(s) : n < Len(s) =>
                SubSeq(s, 1, n + 1) = Append(SubSeq(s, 1, n), s[n + 1])
<1>1. \A n \in 0..Len(s) : /\ SubSeq(s, 1, n) \in Seq(S) /\ Len(SubSeq(s, 1, n)) = n
                           /\ \A p \in 1..n : SubSeq(s, 1, n)[p] = s[p]
  OBVIOUS
<1>2. SubSeq(s, 1, 0) = <<>> /\ SubSeq(s, 1, Len(s)) = s
  OBVIOUS
<1>3. ASSUME NEW n \in 0..Len(s), n < Len(s)
      PROVE  SubSeq(s, 1, n + 1) = Append(SubSeq(s, 1, n), s[n + 1])
  BY <1>3
<1> QED
  BY <1>1, <1>2, <1>3

\* CopyUnit delivers the next unit to where it belongs.
LEMMA UnitExact ==
    ASSUME NEW ss, NEW bs, Transferable(ss, bs), NEW y, NEW g, Exact(ss, bs, y, g),
           y.step = "copy", y.done < PartLength(y)
    PROVE  Exact(ss, bs, [y EXCEPT !.done = @ + 1],
                 Append(g, [from |-> Source(y, Registers(ss)), to |-> Target(y, Registers(bs))]))
<1> DEFINE z == [y EXCEPT !.done = @ + 1]
           e == [from |-> Source(y, Registers(ss)), to |-> Target(y, Registers(bs))]
<1>1. ss \in StringsType /\ bs \in StringsType
  BY DEF Transferable
<1>2. Locals(y) /\ y.copied + y.done = Len(g) /\ y.done \in Nat /\ y.copied \in Nat
  BY DEF Exact, Locals
<1>0. PICK i \in DOMAIN ss : \E u : InString(ss, bs, y, g, i, u)
  BY DEF Exact
<1>3. PICK u : InString(ss, bs, y, g, i, u)
  BY <1>0
<1> DEFINE from == Units(ss, i)
           to == Units(bs, i)
           a == Parts(Pairs(ss, bs), i - 1)
           all == Placed(ss, bs, i)
           n == u + y.done
<1>4. /\ u \in Nat /\ all \in Seq(PairType) /\ a \in Seq(PairType)
      /\ u + PartLength(y) <= Len(all) /\ PartLength(y) \in Nat
      /\ PartLength(y) <= y.slen /\ PartLength(y) <= y.dlen
  BY <1>2, <1>3, InStringUnits
<1>5. /\ i \in DOMAIN bs /\ FitBefore(ss, bs, i)
      /\ Cursor(ss, i, y.src, y.sptr, y.slen, u)
      /\ Cursor(bs, i, y.buf, y.dptr, y.dlen, u)
      /\ g = a \o SubSeq(all, 1, n)
  BY <1>3 DEF InString
<1>6. n \in 0..Len(all) /\ n < Len(all) /\ n + 1 \in 1..Len(all)
  <2>1. Len(all) \in Nat
    BY <1>4
  <2> HIDE DEF all
  <2>2. PICK d, p, l \in Nat : d = y.done /\ p = PartLength(y) /\ l = Len(all)
    BY <1>2, <1>4, <2>1
  <2>3. u \in Nat /\ d < p /\ u + p <= l
    BY <1>4, <2>2
  <2>4. u + d \in 0..l /\ u + d < l /\ u + d + 1 \in 1..l
    BY <2>2, <2>3
  <2> QED
    BY <2>2, <2>4
<1>7. y.done < y.slen /\ y.done < y.dlen
  BY <1>2, <1>4 DEF Locals
<1>8. from[n + 1] = Source(y, Registers(ss))
  <2>0. Cursor(ss, i, y.src, y.sptr, y.slen, u)
    BY <1>5
  <2>1. from[n + 1] = UnitBehind(Registers(ss), y.src, y.sptr, y.slen, y.done)
    BY <1>1, <1>2, <1>7, <2>0, UnitAtCursor
  <2> QED
    BY <2>1 DEF Source, UnitBehind
<1>9. to[n + 1] = Target(y, Registers(bs))
  <2>0. Cursor(bs, i, y.buf, y.dptr, y.dlen, u) /\ i \in DOMAIN bs
    BY <1>5
  <2>1. to[n + 1] = UnitBehind(Registers(bs), y.buf, y.dptr, y.dlen, y.done)
    BY <1>1, <1>2, <1>7, <2>0, UnitAtCursor
  <2> QED
    BY <2>1 DEF Target, UnitBehind
<1>10. all[n + 1] = e
  <2>1. all[n + 1] = [from |-> from[n + 1], to |-> to[n + 1]]
    BY <1>1, <1>5, <1>6, PlacedShape
  <2> QED
    BY <1>8, <1>9, <2>1
<1> HIDE DEF all, a, e
<1>11. e \in PairType
  BY <1>4, <1>6, <1>10
<1>12. SubSeq(all, 1, n) \in Seq(PairType) /\ Len(SubSeq(all, 1, n)) = n
       /\ SubSeq(all, 1, n + 1) = Append(SubSeq(all, 1, n), e)
  BY <1>4, <1>6, <1>10, Beginnings
<1>13. Append(g, e) = a \o SubSeq(all, 1, n + 1)
  <2> DEFINE b == SubSeq(all, 1, n)
  <2>0. b \in Seq(PairType)
    BY <1>12
  <2>1. Append(a \o b, e) = a \o Append(b, e)
    <3> HIDE DEF b
    <3> QED
      BY <1>4, <1>11, <2>0, SMTT(30)
  <2> QED
    BY <1>5, <1>12, <2>1
<1>14. Len(Append(g, e)) = Len(g) + 1
  <2>1. g \in Seq(PairType)
    BY <1>4, <1>5, <1>12, Concatenation
  <2> QED
    BY <1>11, <2>1
<1>15. /\ z.done = y.done + 1 /\ z.step = "copy" /\ z.copied = y.copied
       /\ z.src = y.src /\ z.sptr = y.sptr /\ z.slen = y.slen /\ z.buf = y.buf
       /\ z.dptr = y.dptr /\ z.dlen = y.dlen /\ z.accept = y.accept /\ Locals(z)
  BY <1>2 DEF Locals
<1> HIDE DEF z
<1>16. InString(ss, bs, z, Append(g, e), i, u)
  <2>1. z.done \in 0..PartLength(z)
    BY <1>2, <1>4, <1>15 DEF PartLength
  <2>2. n + 1 = u + z.done
    BY <1>2, <1>4, <1>15
  <2> QED
    BY <1>3, <1>13, <1>15, <2>1, <2>2 DEF InString, a, all
<1>17. z.copied + z.done = Len(Append(g, e))
  BY <1>2, <1>14, <1>15
<1> QED
  BY <1>15, <1>16, <1>17 DEF Exact, z, e

\* What has arrived is always a prefix of what should; at the end it is all of it.
LEMMA ExactPrefix ==
    ASSUME NEW ss, NEW bs, Transferable(ss, bs), NEW y, NEW g, Exact(ss, bs, y, g)
    PROVE  /\ IsPrefix(g, Placement(ss, bs))
           /\ y.step = "done" => g = Placement(ss, bs) /\ AllFit(ss, bs)
           /\ y.step = "overflow" => g = Placement(ss, bs) /\ ~AllFit(ss, bs)
           /\ y.step \in {"done", "overflow"} => y.done = 0
<1> DEFINE all == Placement(ss, bs)
           F == Pairs(ss, bs)
<1>1. ss \in StringsType /\ bs \in StringsType
  BY DEF Transferable
<1>2. /\ F \in Seq(Seq(PairType)) /\ Len(F) = Len(ss) /\ all = FlattenSeq(F)
      /\ all \in Seq(PairType) /\ \A i \in DOMAIN ss : F[i] = Placed(ss, bs, i)
  BY <1>1, PlacementShape
<1>3. Len(ss) \in Nat /\ DOMAIN ss = 1..Len(ss)
  BY <1>1, StringTypes
<1>4. ASSUME NEW s \in Seq(PairType), Len(s) <= Len(all),
             \A p \in 1..Len(s) : all[p] = s[p]
      PROVE  IsPrefix(s, all)
  <2> HIDE DEF all
  <2>1. Len(s) \in 0..Len(all) /\ Len(s) \in 0..Len(s)
    BY <1>2, <1>4
  <2>2. SubSeq(all, 1, Len(s)) \in Seq(PairType) /\ Len(SubSeq(all, 1, Len(s))) = Len(s)
        /\ \A p \in 1..Len(s) : SubSeq(all, 1, Len(s))[p] = s[p]
    BY <1>2, <1>4, <2>1, Beginnings
  <2>3. SubSeq(all, 1, Len(s)) = s /\ SubSeq(s, 1, Len(s)) = s
    BY <2>2, Beginnings
  <2> QED
    BY <1>4, <2>3 DEF IsPrefix
<1> HIDE DEF all, F
<1>5. \A k \in 0..Len(F) : /\ Parts(F, k) \in Seq(PairType) /\ Len(Parts(F, k)) <= Len(all)
                           /\ \A p \in 1..Len(Parts(F, k)) : all[p] = Parts(F, k)[p]
  BY <1>2, PartsSteps, PartsPrefix
<1>6. CASE y.step = "item" /\ AtItem(ss, bs, y, g)
  <2>1. PICK i \in 1..(Len(ss) + 1) : g = Parts(F, i - 1)
    BY <1>6 DEF AtItem, F
  <2>2. i - 1 \in 0..Len(F)
    BY <1>2, <1>3
  <2> QED
    BY <1>4, <1>5, <1>6, <2>1, <2>2 DEF all
<1>7. CASE y.step = "copy" /\ \E i \in DOMAIN ss : \E u : InString(ss, bs, y, g, i, u)
  <2>0. PICK i \in DOMAIN ss : \E u : InString(ss, bs, y, g, i, u)
    BY <1>7
  <2>1. PICK u : InString(ss, bs, y, g, i, u)
    BY <2>0
  <2> DEFINE a == Parts(F, i - 1)
             b == Placed(ss, bs, i)
             n == u + y.done
             c == SubSeq(b, 1, n)
  <2>2. /\ u \in Nat /\ b \in Seq(PairType) /\ a \in Seq(PairType)
        /\ u + PartLength(y) <= Len(b) /\ PartLength(y) \in Nat /\ Parts(F, i) = a \o b
    BY <2>1, InStringUnits DEF Exact, F
  <2>3. g = a \o c /\ y.done \in 0..PartLength(y)
    BY <2>1 DEF InString, F
  <2>4. i \in 0..Len(F)
    BY <1>2, <1>3
  <2>5. /\ Len(Parts(F, i)) <= Len(all)
        /\ \A p \in 1..Len(Parts(F, i)) : all[p] = Parts(F, i)[p]
    BY <1>5, <2>4
  <2> HIDE DEF a, b
  <2>6. n \in 0..Len(b)
    <3>1. PICK p, l \in Nat : p = PartLength(y) /\ l = Len(b)
      BY <2>2
    <3>2. u \in Nat /\ u + p <= l /\ y.done \in 0..p
      BY <2>2, <2>3, <3>1
    <3>3. n \in 0..l
      BY <3>1, <3>2
    <3> QED
      BY <3>1, <3>3
  <2>7. c \in Seq(PairType) /\ Len(c) = n /\ \A p \in 1..n : c[p] = b[p]
    BY <2>2, <2>6, Beginnings
  <2> HIDE DEF c, n
  <2>8. g \in Seq(PairType) /\ Len(g) = Len(a) + n /\ Len(Parts(F, i)) = Len(a) + Len(b)
    BY <2>2, <2>3, <2>7, Concatenation
  <2>9. Len(a) \in Nat /\ Len(b) \in Nat /\ Len(all) \in Nat
    BY <1>2, <2>2
  <2>10. ASSUME NEW p \in 1..Len(g) PROVE all[p] = g[p]
    <3>0. p \in 1..Len(Parts(F, i))
      BY <2>6, <2>8, <2>9
    <3>1. all[p] = (a \o b)[p]
      BY <2>2, <2>5, <3>0
    <3>2. CASE p <= Len(a)
      <4>1. p \in 1..Len(a)
        BY <2>8, <2>9, <3>2
      <4>2. (a \o b)[p] = a[p] /\ (a \o c)[p] = a[p]
        BY <2>2, <2>7, <4>1, Concatenation
      <4> QED
        BY <2>3, <3>1, <4>2
    <3>3. CASE p > Len(a)
      <4>1. PICK q \in 1..n : p = Len(a) + q
        <5>1. p - Len(a) \in 1..n /\ p = Len(a) + (p - Len(a))
          BY <2>6, <2>8, <2>9, <3>3
        <5> QED
          BY <5>1
      <4>2. q \in 1..Len(b) /\ q \in 1..Len(c)
        BY <2>6, <2>7, <2>9
      <4>3. (a \o b)[Len(a) + q] = b[q]
        BY <2>2, <4>2, Concatenation
      <4>4. (a \o c)[Len(a) + q] = c[q]
        BY <2>2, <2>7, <4>2, Concatenation
      <4> QED
        BY <2>3, <2>7, <3>1, <4>1, <4>3, <4>4
    <3> QED
      BY <2>8, <2>9, <3>2, <3>3
  <2>11. Len(g) <= Len(all)
    BY <2>5, <2>6, <2>8, <2>9
  <2> QED
    BY <1>4, <1>7, <2>8, <2>10, <2>11 DEF all
<1>8. CASE y.step \in {"done", "overflow"} /\ AtEnd(ss, bs, y, g)
  <2>1. g = all /\ y.done = 0 /\ (y.step = "done" <=> AllFit(ss, bs))
    BY <1>8 DEF AtEnd, all
  <2>2. IsPrefix(g, all)
    BY <1>2, <1>4, <2>1
  <2> QED
    BY <1>8, <2>1, <2>2 DEF all
<1> QED
  BY <1>6, <1>7, <1>8 DEF Exact

\* What NextItem does.
LEMMA NextItemEnds ==
    ASSUME NEW y, NEW m, NEW b, Len(m) \in Nat, y.src \in Nat
    PROVE  /\ y.src > Len(m) => NextItem(y, m, b) = [y EXCEPT !.step = "done"]
           /\ y.src <= Len(m) /\ ~y.accept => NextItem(y, m, b) = Overflow(y)
<1>1. ASSUME y.src > Len(m) PROVE NextItem(y, m, b) = [y EXCEPT !.step = "done"]
  BY <1>1 DEF NextItem
<1>2. ASSUME y.src <= Len(m), ~y.accept PROVE NextItem(y, m, b) = Overflow(y)
  BY <1>2 DEF NextItem
<1> QED
  BY <1>1, <1>2

\* The locals as the next item begins.
ItemBegun(y, item, buffer) ==
    [y EXCEPT !.step = "copy", !.sptr = 1, !.dptr = 1, !.slen = item.len, !.dlen = buffer.len,
              !.accept = buffer.more, !.done = 0, !.fault = 0]
\* What NextItem does if neither the string nor its buffer ends too early.
LEMMA NextItemBegins ==
    ASSUME NEW y, NEW m, NEW b, Len(m) \in Nat, y.src \in Nat, y.buf \in Nat,
           Reg(m, y.src).ptrs \in Nat, Reg(b, y.buf).ptrs \in Nat,
           y.src <= Len(m), y.accept, ~MrTooLarge(m, y.src + Reg(m, y.src).ptrs),
           ~BrTooLarge(y.buf + Reg(b, y.buf).ptrs)
    PROVE  NextItem(y, m, b) = ItemBegun(y, Reg(m, y.src), Reg(b, y.buf))
BY DEF NextItem, ItemBegun

\* Every register has a number of pointers.
LEMMA RegPtrs ==
    ASSUME NEW ss \in StringsType, NEW k \in Nat
    PROVE  Reg(Registers(ss), k).ptrs \in Nat /\ Reg(Registers(ss), k).len \in Nat
<1> DEFINE b == Registers(ss)
<1>1. b \in Seq(Regs)
  BY RegistersShape
<1> HIDE DEF b
<1>2. k \in 1..Len(b) => b[k] \in Regs
  BY <1>1
<1>3. k \notin 1..Len(b) => Reg(b, k).ptrs = 1 /\ Reg(b, k).len = 0
  BY DEF Reg, Unset, Pointer
<1> QED
  BY <1>2, <1>3 DEF Regs, Reg, b

\* NextItem begins the next string, or ends the transfer.
LEMMA ItemExact ==
    ASSUME NEW ss, NEW bs, Transferable(ss, bs), NEW y, NEW g, Exact(ss, bs, y, g),
           y.step = "item"
    PROVE  Exact(ss, bs, NextItem(y, Registers(ss), Registers(bs)), g)
<1> DEFINE m == Registers(ss)
           b == Registers(bs)
           z == NextItem(y, m, b)
           F == Pairs(ss, bs)
<1>1. ss \in StringsType /\ bs \in StringsType /\ Len(b) < NumBR
  BY DEF Transferable
<1>2. Locals(y) /\ y.copied + y.done = Len(g)
  BY DEF Exact
<1>3. PICK i \in 1..(Len(ss) + 1) :
         /\ y.src = Begins(ss, i) /\ FitBefore(ss, bs, i)
         /\ y.accept = (i <= Len(bs)) /\ (i <= Len(bs) => y.buf = Begins(bs, i))
         /\ y.done = 0 /\ g = Parts(F, i - 1)
  BY DEF Exact, AtItem
<1>4. /\ DOMAIN ss = 1..Len(ss) /\ Len(ss) \in Nat /\ DOMAIN bs = 1..Len(bs)
      /\ Len(bs) \in Nat /\ Len(m) \in Nat /\ Len(b) \in Nat
  BY <1>1, StringTypes, StringPlaces
<1>5. /\ y.src \in Nat /\ y.buf \in Nat /\ Reg(m, y.src).ptrs \in Nat
      /\ Reg(b, y.buf).ptrs \in Nat
  BY <1>1, <1>2, RegPtrs DEF Locals
<1>6. /\ Len(F) = Len(ss) /\ F \in Seq(Seq(PairType)) /\ Placement(ss, bs) = FlattenSeq(F)
      /\ \A h \in DOMAIN ss : F[h] = Placed(ss, bs, h)
  BY <1>1, PlacementShape
<1>7. CASE i = Len(ss) + 1
  <2>1. y.src > Len(m)
    BY <1>1, <1>3, <1>4, <1>7, StringPlaces
  <2>2. z = [y EXCEPT !.step = "done"]
    BY <1>4, <1>5, <2>1, NextItemEnds
  <2>3. AllFit(ss, bs)
    <3>1. i - 1 = Len(ss)
      BY <1>4, <1>7
    <3> QED
      BY <1>3, <1>4, <3>1 DEF AllFit, FitBefore
  <2>4. g = Placement(ss, bs)
    <3>1. i - 1 = Len(F)
      BY <1>4, <1>6, <1>7
    <3> HIDE DEF F
    <3> QED
      BY <1>3, <1>6, <3>1, PartsSteps
  <2>5. z.step = "done" /\ z.done = 0 /\ z.copied = y.copied /\ Locals(z)
    BY <1>2, <1>3, <2>2 DEF Locals
  <2>6. z.copied + z.done = Len(g)
    BY <1>2, <1>3, <2>5
  <2> HIDE DEF z
  <2> QED
    BY <2>3, <2>4, <2>5, <2>6 DEF Exact, AtEnd, z
<1>8. CASE i # Len(ss) + 1
  <2>1. i \in DOMAIN ss
    BY <1>4, <1>8
  <2>2. 1 \in DOMAIN ss[i] /\ HeaderAt(ss, i, 1) = y.src
    BY <1>1, <1>3, <2>1, StringTypes, StringPlaces
  <2> DEFINE l == ss[i][1].len
             p == ss[i][1].ptrs
  <2>3. l \in Nat /\ l > 0 /\ p \in Nat \ {0}
    BY <1>1, <2>1, <2>2, StringTypes DEF Transferable
  <2>4. y.src + p <= Len(m) /\ Reg(m, y.src).len = l /\ Reg(m, y.src).ptrs = p
    BY <1>1, <2>1, <2>2, ItemPlace, ItemHeader
  <2> HIDE DEF l, p, m, b
  <2>5. y.src <= Len(m) /\ ~MrTooLarge(m, y.src + Reg(m, y.src).ptrs)
    BY <1>4, <1>5, <2>3, <2>4 DEF MrTooLarge
  <2>6. CASE i > Len(bs)
    <3>1. ~y.accept /\ i \notin DOMAIN bs
      <4>1. ~(i <= Len(bs)) /\ i \notin DOMAIN bs
        BY <1>4, <2>6
      <4>2. y.accept = (i <= Len(bs))
        BY <1>3
      <4>3. ~y.accept
        BY <4>1, <4>2
      <4> QED
        BY <4>1, <4>3
    <3>2. z = Overflow(y)
      BY <1>4, <1>5, <2>5, <3>1, NextItemEnds
    <3>3. ~Fits(ss, bs, i)
      BY <1>4, <2>1, <2>6 DEF Fits
    <3>4. ~AllFit(ss, bs) /\ g = Placement(ss, bs)
      BY <1>1, <1>3, <2>1, <3>1, <3>3, PlacementStops
    <3>5. z.step = "overflow" /\ z.done = 0 /\ z.copied = y.copied /\ Locals(z)
      BY <1>2, <1>3, <3>2 DEF Locals, Overflow
    <3>6. z.copied + z.done = Len(g)
      BY <1>2, <1>3, <3>5
    <3> HIDE DEF z
    <3> QED
      BY <3>4, <3>5, <3>6 DEF Exact, AtEnd, z, m, b
  <2>7. CASE i <= Len(bs)
    <3>1. i \in DOMAIN bs /\ y.accept /\ y.buf = Begins(bs, i)
      <4>1. i \in DOMAIN bs
        BY <1>4, <2>7
      <4> QED
        BY <1>3, <2>7, <4>1
    <3>2. 1 \in DOMAIN bs[i] /\ HeaderAt(bs, i, 1) = y.buf
      BY <1>1, <3>1, StringTypes, StringPlaces
    <3> DEFINE l2 == bs[i][1].len
               p2 == bs[i][1].ptrs
    <3>3. l2 \in Nat /\ p2 \in Nat \ {0}
      BY <1>1, <3>1, <3>2, StringTypes
    <3>4. /\ y.buf + p2 <= Len(b) /\ Reg(b, y.buf).len = l2 /\ Reg(b, y.buf).ptrs = p2
          /\ Reg(b, y.buf).more = (i < Len(bs))
      BY <1>1, <3>1, <3>2, ItemPlace, ItemHeader DEF b
    <3> HIDE DEF l2, p2
    <3>5. ~BrTooLarge(y.buf + Reg(b, y.buf).ptrs)
      BY <1>1, <1>4, <1>5, <3>3, <3>4, StringsAssumption DEF BrTooLarge
    <3>6. z = ItemBegun(y, Reg(m, y.src), Reg(b, y.buf))
      BY <1>4, <1>5, <2>5, <3>1, <3>5, NextItemBegins
    <3>7. z = [y EXCEPT !.step = "copy", !.sptr = 1, !.dptr = 1,
                        !.slen = l, !.dlen = l2,
                        !.accept = (i < Len(bs)), !.done = 0, !.fault = 0]
      BY <2>4, <3>4, <3>6 DEF ItemBegun
    <3>8. /\ z.step = "copy" /\ z.src = y.src /\ z.buf = y.buf /\ z.sptr = 1 /\ z.dptr = 1
          /\ z.slen = l /\ z.dlen = l2 /\ z.accept = (i < Len(bs)) /\ z.done = 0
          /\ z.copied = y.copied /\ Locals(z)
      BY <1>2, <2>3, <3>3, <3>7 DEF Locals
    <3>9. Cursor(ss, i, y.src, 1, l, 0)
      <4>1. UnitsBefore(ss, i, 1, 1) = 0
        BY <1>1, <2>1, FirstUnit
      <4>2. 1 \in 1..p /\ l \in 0..l /\ 0 = 0 + (l - l)
        BY <2>3
      <4> QED
        BY <2>2, <4>1, <4>2 DEF Cursor, l, p
    <3>10. Cursor(bs, i, y.buf, 1, l2, 0)
      <4>1. UnitsBefore(bs, i, 1, 1) = 0
        BY <1>1, <3>1, FirstUnit
      <4>2. 1 \in 1..p2 /\ l2 \in 0..l2 /\ 0 = 0 + (l2 - l2)
        BY <3>3
      <4> QED
        BY <3>2, <4>1, <4>2 DEF Cursor, l2, p2
    <3> HIDE DEF z
    <3>11. g = Parts(F, i - 1) \o SubSeq(Placed(ss, bs, i), 1, 0 + z.done)
      <4>1. Placed(ss, bs, i) \in Seq(PairType)
        BY <1>1, <2>1, PlacedShape
      <4>2. SubSeq(Placed(ss, bs, i), 1, 0) = <<>>
        BY <4>1, Beginnings
      <4>3. i - 1 \in 0..Len(F)
        BY <1>4, <1>6, <2>1
      <4>4. Parts(F, i - 1) \in Seq(PairType)
        BY <1>6, <4>3, PartsSteps
      <4>5. 0 + z.done = 0
        BY <3>8
      <4> QED
        BY <1>3, <4>2, <4>4, <4>5
    <3>12. z.done \in 0..PartLength(z)
      BY <2>3, <3>3, <3>8 DEF PartLength
    <3>13. InString(ss, bs, z, g, i, 0)
      BY <1>3, <2>3, <3>1, <3>8, <3>9, <3>10, <3>11, <3>12 DEF InString
    <3>14. z.copied + z.done = Len(g)
      BY <1>2, <1>3, <3>8
    <3> QED
      BY <2>1, <3>8, <3>13, <3>14 DEF Exact, z, m, b
  <2>8. i > Len(bs) \/ i <= Len(bs)
    BY <1>4
  <2> QED
    BY <2>6, <2>7, <2>8
<1> QED
  BY <1>7, <1>8

\* The rest of a part: what remains of the substring and of the piece.
Remaining(y) ==
    LET n == PartLength(y)
    IN  [y EXCEPT !.copied = @ + n, !.slen = @ - n, !.dlen = @ - n, !.done = 0, !.fault = 0]

\* A cursor that has moved by n units within a substring.
LEMMA CursorMoves ==
    ASSUME NEW ss \in StringsType, NEW i \in DOMAIN ss, NEW src, NEW ptr, NEW left, NEW u,
           Cursor(ss, i, src, ptr, left, u), NEW n \in Nat, n <= left
    PROVE  Cursor(ss, i, src, ptr, left - n, u + n)
<1>1. PICK j \in DOMAIN ss[i] :
         /\ ptr \in 1..ss[i][j].ptrs /\ left \in 0..ss[i][j].len
         /\ src = HeaderAt(ss, i, j)
         /\ u = UnitsBefore(ss, i, j, ptr) + (ss[i][j].len - left)
  BY DEF Cursor
<1>2. ss[i][j].len \in Nat
  BY StringTypes
<1>3. u \in Nat
  BY CursorUnits
<1>4. UnitsBefore(ss, i, j, ptr) \in Nat
  BY <1>1, UnitPlace
<1> DEFINE l == ss[i][j].len
           ub == UnitsBefore(ss, i, j, ptr)
<1>5. l \in Nat /\ ub \in Nat /\ left \in 0..l /\ u = ub + (l - left)
  BY <1>1, <1>2, <1>4
<1> HIDE DEF l, ub
<1>6. left - n \in 0..l /\ u + n = ub + (l - (left - n))
  BY <1>5
<1> QED
  BY <1>1, <1>6 DEF Cursor, l, ub

\* What is left of the locals.
LEMMA RemainingLocals ==
    ASSUME NEW y, Locals(y), PartLength(y) \in Nat,
           PartLength(y) <= y.slen, PartLength(y) <= y.dlen
    PROVE  LET n == PartLength(y)
               z == Remaining(y)
           IN  /\ z.step = y.step /\ z.src = y.src /\ z.sptr = y.sptr /\ z.slen = y.slen - n
               /\ z.buf = y.buf /\ z.dptr = y.dptr /\ z.dlen = y.dlen - n
               /\ z.copied = y.copied + n /\ z.done = 0 /\ Locals(z)
               /\ z.accept = y.accept
<1>1. PICK n \in Nat : n = PartLength(y)
  OBVIOUS
<1>2. PICK s, d, c \in Nat : s = y.slen - n /\ d = y.dlen - n /\ c = y.copied + n
  BY <1>1 DEF Locals
<1>3. Remaining(y) = [y EXCEPT !.copied = c, !.slen = s, !.dlen = d, !.done = 0, !.fault = 0]
  BY <1>1, <1>2 DEF Remaining
<1> DEFINE z == Remaining(y)
<1>4. /\ z.step = y.step /\ z.src = y.src /\ z.sptr = y.sptr /\ z.slen = s
      /\ z.buf = y.buf /\ z.dptr = y.dptr /\ z.dlen = d
      /\ z.copied = c /\ z.done = 0 /\ z.accept = y.accept /\ DOMAIN z = DOMAIN y
  BY <1>3 DEF Locals
<1> HIDE DEF z
<1>5. Locals(z)
  BY <1>2, <1>4 DEF Locals
<1> QED
  BY <1>1, <1>2, <1>4, <1>5 DEF z

\* When a part has been copied, the next part begins where it ended.
LEMMA PartExact ==
    ASSUME NEW ss, NEW bs, Transferable(ss, bs), NEW y, NEW g, Exact(ss, bs, y, g),
           y.step = "copy", y.done = PartLength(y)
    PROVE  Exact(ss, bs, PartCopied(y, Registers(ss), Registers(bs)), g)
<1> DEFINE m == Registers(ss)
           b == Registers(bs)
           n == PartLength(y)
           y2 == Remaining(y)
           z1 == NextSource(y2, m)
           z == NextTarget(z1, b)
           F == Pairs(ss, bs)
<1>1. ss \in StringsType /\ bs \in StringsType /\ Len(b) < NumBR
      /\ \A i \in DOMAIN ss : \A j \in DOMAIN ss[i] : ss[i][j].len > 0
  BY DEF Transferable
<1>2. Locals(y) /\ y.copied + y.done = Len(g)
  BY DEF Exact
<1>3. PICK i \in DOMAIN ss : \E u : InString(ss, bs, y, g, i, u)
  BY DEF Exact
<1>4. PICK u : InString(ss, bs, y, g, i, u)
  BY <1>3
<1>5. /\ i \in DOMAIN bs /\ FitBefore(ss, bs, i) /\ (y.accept = (i < Len(bs)))
      /\ Cursor(ss, i, y.src, y.sptr, y.slen, u) /\ Cursor(bs, i, y.buf, y.dptr, y.dlen, u)
      /\ g = Parts(F, i - 1) \o SubSeq(Placed(ss, bs, i), 1, u + y.done)
  BY <1>4 DEF InString
<1> DEFINE lf == Len(Units(ss, i))
           lt == Len(Units(bs, i))
           all == Placed(ss, bs, i)
           w == u + n
<1>6. /\ u \in Nat /\ lf \in Nat /\ lt \in Nat /\ u + y.slen <= lf /\ u + y.dlen <= lt
      /\ all \in Seq(PairType)
      /\ Len(all) = IF lf < lt THEN lf ELSE lt
      /\ u + n <= Len(all) /\ n \in Nat /\ n <= y.slen /\ n <= y.dlen
      /\ Parts(F, i - 1) \in Seq(PairType)
      /\ Parts(F, i) = Parts(F, i - 1) \o all
  BY <1>2, <1>4, InStringUnits
<1>7. /\ y2.step = "copy" /\ y2.src = y.src /\ y2.sptr = y.sptr /\ y2.slen = y.slen - n
      /\ y2.buf = y.buf /\ y2.dptr = y.dptr /\ y2.dlen = y.dlen - n /\ y2.accept = y.accept
      /\ y2.copied = y.copied + n /\ y2.done = 0 /\ Locals(y2)
  BY <1>2, <1>6, RemainingLocals
<1>8. z = PartCopied(y, m, b)
  BY DEF PartCopied, Remaining
<1>9. y2.copied = Len(g) /\ y2.copied \in Nat
  BY <1>2, <1>6, <1>7 DEF Locals
<1>10. w \in Nat /\ w <= Len(all) /\ w = u + y.done
  BY <1>6
<1>11. Cursor(ss, i, y2.src, y2.sptr, y2.slen, w)
  BY <1>1, <1>5, <1>6, <1>7, CursorMoves
<1>12. Cursor(bs, i, y2.buf, y2.dptr, y2.dlen, w)
  BY <1>1, <1>5, <1>6, <1>7, CursorMoves
<1>13. g = Parts(F, i - 1) \o SubSeq(all, 1, w)
  BY <1>5, <1>10
<1> HIDE DEF m, b, n, y2, F, lf, lt, all, w
<1>14. /\ Locals(z1)
       /\ z1.buf = y2.buf /\ z1.dptr = y2.dptr /\ z1.dlen = y2.dlen
       /\ z1.copied = y2.copied /\ z1.done = y2.done
       /\ \/ /\ z1.step = "copy" /\ z1.slen > 0
             /\ Cursor(ss, i, z1.src, z1.sptr, z1.slen, w)
          \/ z1.step = "end" /\ z1.src = Begins(ss, i + 1) /\ w = lf
  <2>1. LET z0 == NextSource(y2, Registers(ss))
        IN  /\ Locals(z0)
            /\ z0.buf = y2.buf /\ z0.dptr = y2.dptr /\ z0.dlen = y2.dlen
            /\ z0.accept = y2.accept /\ z0.copied = y2.copied /\ z0.done = y2.done
            /\ \/ /\ z0.step = "copy" /\ z0.slen > 0
                  /\ Cursor(ss, i, z0.src, z0.sptr, z0.slen, w)
               \/ z0.step = "end" /\ z0.src = Begins(ss, i + 1) /\ w = Len(Units(ss, i))
    <3>1. ss \in StringsType /\ i \in DOMAIN ss /\ Locals(y2) /\ y2.step = "copy"
          /\ Cursor(ss, i, y2.src, y2.sptr, y2.slen, w)
      BY <1>1, <1>7, <1>11
    <3>2. \A j \in DOMAIN ss[i] : ss[i][j].len > 0
      BY <1>1
    <3> QED
      BY <3>1, <3>2, SourceGoesOn, ZenonT(60)
  <2> QED
    BY <2>1 DEF m, lf
<1>15. z1.accept = y2.accept
  BY <1>1, <1>7, <1>11, SourceGoesOn DEF m
<1>16. z1.accept = (i < Len(bs))
  BY <1>5, <1>7, <1>15
<1>17. Cursor(bs, i, z1.buf, z1.dptr, z1.dlen, w)
  BY <1>12, <1>14
<1>18. i \in Nat \ {0} /\ i <= Len(ss) /\ Len(ss) \in Nat /\ i + 1 - 1 = i /\ Len(bs) \in Nat
  BY <1>1 DEF StringsType
<1> HIDE DEF z1
<1>19. CASE z1.step = "copy"
  <2>1. z1.slen > 0 /\ Cursor(ss, i, z1.src, z1.sptr, z1.slen, w)
    BY <1>14, <1>19
  <2>2. /\ Locals(z)
        /\ z.src = z1.src /\ z.sptr = z1.sptr /\ z.slen = z1.slen
        /\ z.copied = z1.copied /\ z.done = z1.done
        /\ \/ z.step = "copy" /\ Cursor(bs, i, z.buf, z.dptr, z.dlen, w)
           \/ z.step = "overflow" /\ w = lt
    <3>1. LET z0 == NextTarget(z1, Registers(bs))
          IN  /\ Locals(z0)
              /\ z0.src = z1.src /\ z0.sptr = z1.sptr /\ z0.slen = z1.slen
              /\ z0.accept = z1.accept /\ z0.copied = z1.copied /\ z0.done = z1.done
              /\ \/ z0.step = "copy" /\ Cursor(bs, i, z0.buf, z0.dptr, z0.dlen, w)
                 \/ z0.step = "overflow" /\ w = Len(Units(bs, i))
      <4>1. bs \in StringsType /\ i \in DOMAIN bs /\ Len(Registers(bs)) < NumBR
            /\ Locals(z1) /\ z1.step = "copy" /\ Cursor(bs, i, z1.buf, z1.dptr, z1.dlen, w)
        BY <1>1, <1>5, <1>14, <1>17, <1>19 DEF b
      <4> QED
        BY <4>1, TargetGoesOn, ZenonT(60)
    <3> QED
      BY <3>1 DEF b, lt
  <2>3. z.accept = z1.accept
    BY <1>1, <1>5, <1>14, <1>17, <1>19, TargetGoesOn DEF b
  <2>4. z.accept = (i < Len(bs))
    BY <1>16, <2>3
  <2> HIDE DEF z
  <2>5. z.done = 0 /\ z.copied + z.done = Len(g)
    BY <1>7, <1>9, <1>14, <2>2
  <2>6. CASE z.step = "copy"
    <3>1. z.done \in 0..PartLength(z)
      BY <2>2, <2>5 DEF PartLength, Locals
    <3>2. w + z.done = w
      BY <1>10, <2>5
    <3>3. g = Parts(F, i - 1) \o SubSeq(all, 1, w + z.done)
      BY <1>13, <3>2
    <3>4. Cursor(ss, i, z.src, z.sptr, z.slen, w) /\ z.slen > 0
      BY <2>1, <2>2
    <3>5. Cursor(bs, i, z.buf, z.dptr, z.dlen, w)
      BY <2>2, <2>6
    <3>6. InString(ss, bs, z, g, i, w)
      BY <1>5, <2>4, <3>1, <3>3, <3>4, <3>5 DEF InString, F, all
    <3> QED
      BY <1>8, <2>2, <2>5, <2>6, <3>6 DEF Exact, m, b
  <2>7. CASE z.step = "overflow"
    <3>1. w = lt
      BY <2>2, <2>7
    <3>2. w + z1.slen <= lf /\ z1.slen \in Nat
      BY <1>1, <2>1, CursorUnits DEF lf
    <3>3. ~(lf <= lt)
      BY <1>6, <1>10, <2>1, <3>1, <3>2
    <3>4. ~Fits(ss, bs, i)
      BY <3>3 DEF Fits, lf, lt
    <3>5. Placement(ss, bs) = Parts(F, i) /\ ~AllFit(ss, bs)
      BY <1>1, <3>4, PlacementStops DEF F
    <3>6. Len(all) = w
      BY <1>6, <1>10, <3>1, <3>3
    <3>7. SubSeq(all, 1, w) = all
      BY <1>6, <3>6, Beginnings
    <3>8. g = Placement(ss, bs)
      BY <1>6, <1>13, <3>5, <3>7
    <3>9. AtEnd(ss, bs, z, g)
      BY <2>5, <2>7, <3>5, <3>8 DEF AtEnd
    <3> QED
      BY <1>8, <2>2, <2>5, <2>7, <3>9 DEF Exact, m, b
  <2> QED
    BY <2>2, <2>6, <2>7
<1>20. CASE z1.step = "end"
  <2>1. z1.src = Begins(ss, i + 1) /\ w = lf
    BY <1>14, <1>20
  <2>2. /\ Locals(z) /\ z.step = "item" /\ z.src = z1.src /\ z.buf = Begins(bs, i + 1)
        /\ z.copied = z1.copied /\ z.done = z1.done
    BY <1>1, <1>5, <1>14, <1>16, <1>17, <1>20, TargetEnds DEF b
  <2>3. z.accept = (i + 1 <= Len(bs))
    BY <1>1, <1>5, <1>14, <1>16, <1>17, <1>20, TargetEnds DEF b
  <2> HIDE DEF z
  <2>4. z.done = 0 /\ z.copied + z.done = Len(g)
    BY <1>7, <1>9, <1>14, <2>2
  <2>5. lf <= lt /\ Len(all) = w
    BY <1>6, <1>10, <2>1
  <2>6. i <= Len(bs)
    BY <1>1, <1>5
  <2>7. Fits(ss, bs, i)
    BY <2>5, <2>6 DEF Fits, lf, lt
  <2>8. FitBefore(ss, bs, i + 1)
    <3>1. ASSUME NEW h \in 1..i PROVE Fits(ss, bs, h)
      <4>1. h = i \/ h \in 1..(i - 1)
        BY <1>18
      <4> QED
        BY <1>5, <2>7, <4>1 DEF FitBefore
    <3>2. PICK k \in Nat : k = i + 1 /\ k - 1 = i
      BY <1>18
    <3>3. FitBefore(ss, bs, k)
      BY <3>1, <3>2 DEF FitBefore
    <3> QED
      BY <3>2, <3>3
  <2>9. SubSeq(all, 1, w) = all
    BY <1>6, <2>5, Beginnings
  <2>10. g = Parts(F, i + 1 - 1)
    BY <1>6, <1>13, <1>18, <2>9
  <2>11. i + 1 \in 1..(Len(ss) + 1)
    BY <1>18
  <2>12. AtItem(ss, bs, z, g)
    <3>1. z.src = Begins(ss, i + 1) /\ z.buf = Begins(bs, i + 1)
      BY <2>1, <2>2
    <3>2. PICK h \in 1..(Len(ss) + 1) : h = i + 1
      BY <2>11
    <3> QED
      BY <2>3, <2>4, <2>8, <2>10, <3>1, <3>2 DEF AtItem, F
  <2> QED
    BY <1>8, <2>2, <2>4, <2>12 DEF Exact, m, b
<1> QED
  BY <1>14, <1>19, <1>20

-----------------------------------------------------------------------------
(* The data of the transfers *)

\* Every string item has a length: behind one without, the code still looks for the
\* next piece of the buffer.
NoEmptyItems ==
    \A s \in Threads : \A m \in Sends[s] :
        \A i \in DOMAIN m.strings : \A j \in DOMAIN m.strings[i] : m.strings[i][j].len > 0
\* No faults of a receiver in the space of its sender, whose place the code takes from
\* the wrong pointer (FaultOffset).
NoTargetFaultInOneSpace ==
    \A s \in Threads : \A m \in Sends[s] : \A b \in Receives[m.to] :
        Space[s] = Space[m.to] => b.absent = {}

\* The copy stands still, in a fault.
Halted(s) == InFault(s) \/ state[s] = "waiting_tunneled_pf"
\* r waits for a sender.
Waits(r) == frame[r] = "receive" /\ Kept(r) /\ state[r] = "waiting_forever"
\* What has arrived at r is what s has copied.
Data(s, r) ==
    /\ x[s].step = "none" => got[r] = <<>>
    /\ x[s].step # "none" => Exact(op[s].strings, op[r].buffers, x[s], got[r])
DataOK(s) == /\ Busy(s) => Data(s, To(s))
             /\ Busy(s) /\ Halted(s) => x[s].fault = x[s].done
WaitOK(r) == Waits(r) => got[r] = <<>>
DInv == /\ DOMAIN got = Threads
        /\ \A t \in Threads : DataOK(t) /\ WaitOK(t)
        /\ LengthReported

-----------------------------------------------------------------------------

\* Nothing happens to what t sends, receives or has received.
SameData(t) ==
    /\ Busy(t)' => Busy(t)
    /\ Busy(t)' /\ Halted(t)' => Halted(t)
    /\ Waits(t)' => Waits(t)
    /\ x'[t] = x[t] /\ op'[t] = op[t] /\ got'[t] = got[t]
\* A change of s is in no transfer but its own.
Alone(C) == \A c \in C : ~Engaged(c) \/ \E s \in C : Busy(s) /\ To(s) = c

\* A step that changes the threads of C, or what they have of a transfer.
LEMMA DataStep ==
    ASSUME XInv, DInv, NEW C, C \subseteq Threads, Alone(C),
           \A u \in Threads \ C : SameData(u),
           \A c \in C : DataOK(c)' /\ WaitOK(c)',
           DOMAIN got' = Threads, LengthReported'
    PROVE  DInv'
<1>1. \A u \in Threads \ C : WaitOK(u)'
  BY DEF SameData, WaitOK, DInv
<1>2. ASSUME NEW u \in Threads \ C PROVE DataOK(u)'
  <2>1. CASE Busy(u)'
    <3>1. Busy(u) /\ SameData(u) /\ u \in Threads
      BY <2>1 DEF SameData
    <3>2. PICK r \in Threads : r = To(u) /\ Engaged(r)
      BY <3>1, Sides
    <3>3. r \notin C
      <4>1. ASSUME NEW s \in C, Busy(s) /\ To(s) = r PROVE FALSE
        <5>1. s = u
          BY <3>1, <3>2, <4>1 DEF XInv, OneSender
        <5> QED
          BY <5>1
      <4> QED
        BY <3>2, <4>1 DEF Alone
    <3>4. SameData(r)
      BY <3>3
    <3>5. Data(u, r) /\ (Halted(u) => x[u].fault = x[u].done)
      BY <3>1, <3>2 DEF DInv, DataOK
    <3>6. To(u)' = r /\ Data(u, r)'
      BY <3>1, <3>2, <3>4, <3>5 DEF SameData, To, Data
    <3> QED
      BY <2>1, <3>1, <3>5, <3>6 DEF DataOK, SameData
  <2>2. CASE ~Busy(u)'
    BY <2>2 DEF DataOK
  <2> QED
    BY <2>1, <2>2
<1> QED
  BY <1>1, <1>2 DEF DInv

\* The tags of a thread tell whether it is in a transfer, halted or waiting.
LEMMA SameTags ==
    ASSUME NEW t \in Threads, Same(t), x'[t] = x[t], op'[t] = op[t], got'[t] = got[t]
    PROVE  SameData(t)
<1>1. Busy(t)' = Busy(t) /\ Kept(t)' = Kept(t)
  BY SameThread
<1>2. Halted(t)' = Halted(t) /\ Waits(t)' = Waits(t)
  BY <1>1 DEF Same, Halted, Waits, InFault
<1> QED
  BY <1>1, <1>2 DEF SameData

\* What a transfer meets.
LEMMA MetStrings ==
    ASSUME XInv, NoEmptyItems, NEW s \in Threads, Busy(s)
    PROVE  Transferable(op[s].strings, op[To(s)].buffers)
<1>1. /\ To(s) \in Threads /\ op[s] \in Sends[s] /\ op[To(s)] \in Receives[To(s)]
  BY Sides
<1>2. SendType(op[s]) /\ ReceiveType(op[To(s)])
  BY <1>1, XferAssumption
<1> QED
  BY <1>1, <1>2 DEF NoEmptyItems, SendType, ReceiveType, Transferable

\* Where a fault is recorded does not matter to what has arrived.
LEMMA FaultExact ==
    ASSUME NEW ss, NEW bs, NEW y, NEW g, NEW f, Exact(ss, bs, y, g)
    PROVE  Exact(ss, bs, [y EXCEPT !.fault = f], g)
<1> DEFINE z == [y EXCEPT !.fault = f]
<1>1. Locals(y)
  BY DEF Exact
<1>2. /\ z.step = y.step /\ z.src = y.src /\ z.sptr = y.sptr /\ z.slen = y.slen
      /\ z.buf = y.buf /\ z.dptr = y.dptr /\ z.dlen = y.dlen /\ z.accept = y.accept
      /\ z.copied = y.copied /\ z.done = y.done /\ DOMAIN z = DOMAIN y
  BY <1>1 DEF Locals
<1> HIDE DEF z
<1>3. Locals(z)
  BY <1>1, <1>2 DEF Locals
<1>4. AtItem(ss, bs, y, g) => AtItem(ss, bs, z, g)
  BY <1>2 DEF AtItem
<1>5. PartLength(z) = PartLength(y)
  BY <1>2 DEF PartLength
<1>6. \A i, u : InString(ss, bs, y, g, i, u) => InString(ss, bs, z, g, i, u)
  BY <1>2, <1>5 DEF InString
<1>7. AtEnd(ss, bs, y, g) => AtEnd(ss, bs, z, g)
  BY <1>2 DEF AtEnd
<1>8. z.copied + z.done = Len(g)
  BY <1>2 DEF Exact
<1> QED
  BY <1>2, <1>3, <1>4, <1>6, <1>7, <1>8 DEF Exact, z

\* Steps that copy nothing, and begin and end no operation.
LEMMA QuietStep ==
    ASSUME XInv, DInv, x' = x, op' = op, got' = got, LengthReported',
           \A t \in Threads : /\ Busy(t)' => Busy(t)
                              /\ Busy(t)' /\ Halted(t)' => Halted(t)
                              /\ Waits(t)' => Waits(t)
    PROVE  DInv'
<1>1. \A u \in Threads \ {} : SameData(u)
  BY DEF SameData
<1>2. Alone({})
  BY DEF Alone
<1>3. DOMAIN got' = Threads
  BY DEF DInv
<1> QED
  BY <1>1, <1>2, <1>3, DataStep

\* Who runs changes.
LEMMA DispatchData ==
    ASSUME XInv, DInv, NEW t \in Threads, Dispatch(t) \/ Preempt(t)
    PROVE  DInv'
<1> USE DEF Dispatch, Preempt, xfers
<1>1. x' = x /\ op' = op /\ got' = got /\ LengthReported'
  BY DEF DInv, LengthReported
<1>2. \A u \in Threads : Busy(u)' = Busy(u) /\ Halted(u)' = Halted(u) /\ Waits(u)' = Waits(u)
  BY DEF Busy, Halted, Waits, InFault, Kept
<1> QED
  BY <1>1, <1>2, QuietStep

\* A pager receives, and replies; the message of a thread goes over to it.
LEMMA PagerData ==
    ASSUME XInv, DInv, NEW t \in Threads, FaultSent(t) \/ PagerReceives(t) \/ PagerReplies(t)
    PROVE  DInv'
<1> USE DEF FaultSent, PagerReceives, PagerReplies, xfers
<1>1. x' = x /\ op' = op /\ got' = got /\ LengthReported'
  BY DEF DInv, LengthReported
<1>2. notify' = notify /\ InFault(t) /\ InFault(t)' /\ state'[t] # "waiting_tunneled_pf"
      /\ \A u \in Threads \ {t} : state'[u] = state[u] /\ frame'[u] = frame[u]
  BY DEF At, InFault, GoTo, XInv, DomainsOK
<1>3. ASSUME NEW u \in Threads
      PROVE  /\ Busy(u)' => Busy(u)
             /\ Busy(u)' /\ Halted(u)' => Halted(u)
             /\ Waits(u)' => Waits(u)
  <2>1. CASE u = t
    BY <1>1, <1>2, <2>1 DEF Busy, Halted, Waits, InFault, Kept
  <2>2. CASE u # t
    BY <1>1, <1>2, <2>2 DEF Busy, Halted, Waits, InFault, Kept
  <2> QED
    BY <2>1, <2>2
<1> QED
  BY <1>1, <1>3, QuietStep

\* A receiver sends its fault to its pager.
LEMMA TunnelPagefaultData ==
    ASSUME XInv, DInv, NEW t \in Threads, TunnelPagefault(t)
    PROVE  DInv'
<1> USE DEF TunnelPagefault, xfers
<1>1. x' = x /\ op' = op /\ got' = got /\ LengthReported'
  BY DEF DInv, LengthReported
<1>2. Place(t) /\ notify[t] = NotifyTunnel
  BY DEF XInv, PlacesOK
<1>3. x[t].step = "none"
  BY <1>2, Tags DEF Place, Kept, InUser, InSend, InReceive, InCopy, InOwnFault, InTunnelled
<1>4. InFault(t)'
  BY DEF InFault, SendPagefault, GoTo, XInv, DomainsOK
<1>5. \A u \in Threads \ {t} : Same(u)
  BY DEF Same, SendPagefault, GoTo, XInv, DomainsOK
<1>6. ASSUME NEW u \in Threads
      PROVE  /\ Busy(u)' => Busy(u)
             /\ Busy(u)' /\ Halted(u)' => Halted(u)
             /\ Waits(u)' => Waits(u)
  <2>1. CASE u = t
    BY <1>1, <1>3, <1>4, <2>1 DEF Busy, Waits, InFault
  <2>2. CASE u # t
    BY <1>1, <1>5, <2>2, SameTags DEF SameData
  <2> QED
    BY <2>1, <2>2
<1> QED
  BY <1>1, <1>6, QuietStep

\* A fault has been handled: the copy goes on where it was.
LEMMA FaultHandledData ==
    ASSUME XInv, DInv, NEW t \in Threads, FaultHandled(t)
    PROVE  DInv'
<1> USE DEF FaultHandled, xfers, GoTo
<1>1. x' = x /\ op' = op /\ got' = got /\ LengthReported'
  BY DEF DInv, LengthReported
<1>2. InFault(t) /\ Kept(t) /\ Place(t)
  BY Tags DEF At, InFault, Kept, XInv, PlacesOK
<1>3. CASE saved[t].state = "locked_running_nested"
  <2>1. InTunnelled(t)
    BY <1>2, <1>3 DEF Place, InFault, InOwnFault
  <2>2. PICK s \in Threads : /\ Together(s, t) /\ frame[s] = "copy"
                             /\ state[s] = "waiting_tunneled_pf"
                             /\ saved[t] = [state |-> "locked_running_nested", partner |-> s]
    BY <1>2, <2>1, TunnelFault
  <2>3. s # t
    BY <1>2, <2>2 DEF InFault
  <2>4. /\ state'[t] = "locked_waiting" /\ frame'[t] = "receive" /\ notify' = notify
        /\ state'[s] = "locked_running" /\ frame'[s] = frame[s]
        /\ \A u \in Threads \ {s, t} : state'[u] = state[u] /\ frame'[u] = frame[u]
    BY <1>3, <2>2, <2>3 DEF XInv, DomainsOK
  <2>5. x[t].step = "none"
    BY <2>1 DEF InTunnelled
  <2>6. ASSUME NEW u \in Threads
        PROVE  /\ Busy(u)' => Busy(u)
               /\ Busy(u)' /\ Halted(u)' => Halted(u)
               /\ Waits(u)' => Waits(u)
    <3>1. CASE u = t
      BY <1>1, <2>4, <2>5, <3>1 DEF Busy, Waits
    <3>2. CASE u = s
      BY <1>1, <2>2, <2>4, <3>2 DEF Busy, Waits, Halted, InFault, Together
    <3>3. CASE u \notin {s, t}
      BY <1>1, <2>4, <3>3 DEF Busy, Halted, Waits, InFault, Kept
    <3> QED
      BY <3>1, <3>2, <3>3
  <2> QED
    BY <1>1, <2>6, QuietStep
<1>4. CASE saved[t].state # "locked_running_nested"
  <2>1. /\ frame'[t] = "copy" /\ notify' = notify
        /\ \A u \in Threads \ {t} : state'[u] = state[u] /\ frame'[u] = frame[u]
    BY <1>4 DEF XInv, DomainsOK
  <2>2. ASSUME NEW u \in Threads
        PROVE  /\ Busy(u)' => Busy(u)
               /\ Busy(u)' /\ Halted(u)' => Halted(u)
               /\ Waits(u)' => Waits(u)
    <3>1. CASE u = t
      BY <1>1, <1>2, <2>1, <3>1 DEF Busy, Waits, Halted, Kept
    <3>2. CASE u # t
      BY <1>1, <2>1, <3>2 DEF Busy, Halted, Waits, InFault, Kept
    <3> QED
      BY <3>1, <3>2
  <2> QED
    BY <1>1, <2>2, QuietStep
<1> QED
  BY <1>3, <1>4

\* Timeouts expire in faults.
LEMMA ExpireData ==
    ASSUME XInv, DInv, Expire
    PROVE  DInv'
<1> USE DEF Expire, xfers
<1>1. x' = x /\ op' = op /\ got' = got /\ frame' = frame /\ LengthReported'
  BY DEF DInv, LengthReported
<1>2. PICK expired \in SUBSET wakeup \ {{}} :
        LET woken == {t \in expired : state[t] = "waiting_forever" => t \in has_xfer_timeout}
        IN  /\ notify' = [t \in Threads |->
                            IF t \in woken /\ state[t] \in Sending \cup Receiving
                            THEN Notification("handle_ipc_timeout", state[t])
                            ELSE notify[t]]
            /\ state' = [t \in Threads |-> IF t \in woken THEN "running" ELSE state[t]]
  OBVIOUS
<1>3. ASSUME NEW u \in Threads
      PROVE  /\ Busy(u)' => Busy(u)
             /\ Busy(u)' /\ Halted(u)' => Halted(u)
             /\ Waits(u)' => Waits(u)
  <2>1. CASE u \in wakeup
    <3>1. Kept(u) /\ InFault(u)
      BY <2>1, Tags DEF XInv, TimersOK, Timed, Kept
    <3> QED
      BY <1>1, <3>1 DEF Busy, Halted, Waits, InFault
  <2>2. CASE u \notin wakeup
    <3>1. notify'[u] = notify[u] /\ state'[u] = state[u]
      BY <1>2, <2>2
    <3> QED
      BY <1>1, <3>1 DEF Busy, Halted, Waits, InFault, Kept
  <2> QED
    BY <2>1, <2>2
<1> QED
  BY <1>1, <1>3, QuietStep

\* Unwinding a sender in a fault of its own reports what has arrived.
LEMMA OwnFaultLength ==
    ASSUME XInv, DInv, NEW t \in Threads, InFault(t), Kept(t), InOwnFault(t), NEW st
    PROVE  UnwoundLen(t, st) = Len(UnwoundUnits(t, st))
<1>1. Busy(t)
  BY OwnFault DEF Together
<1>2. Halted(t) /\ x[t].step # "none"
  BY DEF Halted, InOwnFault
<1>3. x[t].fault = x[t].done /\ x[t].copied + x[t].done = Len(got[To(t)])
  BY <1>1, <1>2 DEF DInv, DataOK, Data, Exact
<1>4. Unwinding(t, st).state = "locked_running"
  BY Tags DEF Unwinding, Nested, InOwnFault
<1>5. UnwoundLen(t, st) = x[t].copied + x[t].fault /\ UnwoundUnits(t, st) = got[To(t)]
  BY <1>4 DEF UnwoundLen, UnwoundUnits, Offset
<1> QED
  BY <1>3, <1>5

\* So does unwinding a receiver in the fault of its sender.
LEMMA TunnelFaultLength ==
    ASSUME XInv, DInv, NEW t \in Threads, InFault(t), Kept(t), InTunnelled(t), NEW st
    PROVE  UnwoundLen(t, st) = Len(UnwoundUnits(t, st))
<1>1. PICK s \in Threads : /\ Together(s, t) /\ frame[s] = "copy"
                           /\ state[s] = "waiting_tunneled_pf"
                           /\ saved[t] = [state |-> "locked_running_nested", partner |-> s]
  BY TunnelFault
<1>2. Busy(s) /\ To(s) = t /\ Halted(s) /\ x[s].step # "none"
  BY <1>1 DEF Together, Halted, Busy
<1>3. x[s].fault = x[s].done /\ x[s].copied + x[s].done = Len(got[t])
  BY <1>2 DEF DInv, DataOK, Data, Exact
<1>4. Unwinding(t, st) = [state |-> "locked_running_nested", partner |-> s]
  BY <1>1, Tags DEF Unwinding, Nested
<1>5. UnwoundLen(t, st) = Offset(s) /\ UnwoundUnits(t, st) = got[t]
  BY <1>4 DEF UnwoundLen, UnwoundUnits
<1>6. UnwoundLen(t, st) = x[s].copied + x[s].fault
  BY <1>5 DEF Offset
<1> QED
  BY <1>3, <1>5, <1>6

\* An abort from outside reports what has arrived, wherever it finds the thread.
LEMMA AbortLength ==
    ASSUME XInv, DInv, NEW v \in Victims, v \in Threads, current = idle,
           state[v] \in Sending \cup Receiving
    PROVE  UnwoundLen(v, state[v]) = Len(UnwoundUnits(v, state[v]))
<1>1. Place(v) /\ Kept(v)
  BY DEF XInv, PlacesOK, Place, IsAborted, Sending, Receiving
<1>2. \A t \in Threads : state[t] # "locked_running"
  BY XferAssumption DEF XInv, RunsOK, Runs
<1>3. CASE InFault(v)
  BY <1>1, <1>3, OwnFaultLength, TunnelFaultLength DEF Place, InFault
<1>4. CASE ~InFault(v)
  <2>1. state[v] \in {"polling", "waiting_forever", "locked_waiting"}
    BY <1>2 DEF Sending, Receiving
  <2>2. \/ frame[v] = "send" /\ InSend(v)
        \/ frame[v] = "receive" /\ InReceive(v)
    BY <1>1, <1>4, <2>1 DEF Place, InUser, InCopy
  <2>3. Unwinding(v, state[v]).state = state[v]
    BY <2>2 DEF Unwinding, Nested, InSend, InReceive
  <2>4. CASE state[v] = "polling"
    BY <2>3, <2>4 DEF UnwoundLen, UnwoundUnits
  <2>5. CASE state[v] = "waiting_forever"
    <3>1. frame[v] = "receive"
      BY <2>2, <2>5 DEF InSend
    <3>2. got[v] = <<>>
      BY <1>1, <2>5, <3>1 DEF DInv, WaitOK, Waits
    <3>3. UnwoundLen(v, state[v]) = 0 /\ UnwoundUnits(v, state[v]) = got[v]
      BY <2>3, <2>5 DEF UnwoundLen, UnwoundUnits
    <3> QED
      BY <3>2, <3>3
  <2>6. CASE state[v] = "locked_waiting"
    <3>1. Engaged(v)
      BY <1>1, <2>6 DEF Engaged, Kept
    <3>2. PICK s \in Threads : Busy(s) /\ To(s) = v
      BY <3>1 DEF XInv, HasSender
    <3>3. Stage(s, v)
      BY <3>2 DEF XInv, StagesOK
    <3>4. saved[v] = NotSaved
      BY <2>6, LockedWaiting DEF InReceive
    <3>5. FALSE
      BY <1>2, <2>6, <3>3, <3>4, Tags DEF Stage
    <3> QED
      BY <3>5
  <2> QED
    BY <2>1, <2>4, <2>5, <2>6
<1> QED
  BY <1>3, <1>4

\* The threads that are aborted are in no transfer any more.
LEMMA ExregsAbortData ==
    ASSUME XInv, DInv, NEW v \in Threads, ExregsAbort(v)
    PROVE  DInv'
<1> USE DEF ExregsAbort, Outside, xfers
<1>1. x' = x /\ op' = op /\ got' = got /\ frame' = frame
  OBVIOUS
<1>2. LengthReported'
  BY AbortLength DEF Unwind, Returned, LengthReported
<1>3. PICK ps : /\ state' = [t \in Threads |-> IF t \in ps \cup {v} THEN "running" ELSE state[t]]
                /\ notify' = [t \in Threads |-> IF t \in ps \cup {v} THEN NotifyError
                                                                    ELSE notify[t]]
  BY DEF Unwind
<1>4. ASSUME NEW u \in Threads
      PROVE  /\ Busy(u)' => Busy(u)
             /\ Busy(u)' /\ Halted(u)' => Halted(u)
             /\ Waits(u)' => Waits(u)
  <2>1. CASE u \in ps \cup {v}
    <3>1. notify'[u] = NotifyError
      BY <1>3, <2>1
    <3> QED
      BY <3>1 DEF Busy, Waits, Kept
  <2>2. CASE u \notin ps \cup {v}
    <3>1. notify'[u] = notify[u] /\ state'[u] = state[u]
      BY <1>3, <2>2
    <3> QED
      BY <1>1, <3>1 DEF Busy, Halted, Waits, InFault, Kept
  <2> QED
    BY <2>1, <2>2
<1> QED
  BY <1>1, <1>2, <1>4, QuietStep

\* A thread that leaves its operation, from a transfer or not, forgets its data.
LEMMA LeaveStep ==
    ASSUME XInv, DInv, NEW C, C \subseteq Threads, Alone(C), NEW t \in C,
           x' = [x EXCEPT ![t] = NoTransfer] \/ (x' = x /\ x[t].step = "none"),
           Forget({t}), frame' = [frame EXCEPT ![t] = "user"], LengthReported',
           \A u \in Threads \ C : state'[u] = state[u] /\ notify'[u] = notify[u],
           \A u \in C : state'[u] = "running" /\ (u # t => ~Busy(u)')
    PROVE  DInv'
<1>1. DOMAIN got' = Threads
  BY DEF Forget
<1>2. \A u \in Threads \ {t} : /\ x'[u] = x[u] /\ op'[u] = op[u] /\ got'[u] = got[u]
                               /\ frame'[u] = frame[u]
  BY DEF Forget, XInv, DomainsOK
<1>4. \A u \in Threads \ C : SameData(u)
  BY <1>2 DEF SameData, Busy, Halted, Waits, InFault, Kept
<1>5. x'[t].step = "none" /\ frame'[t] = "user"
  BY DEF NoTransfer, XInv, DomainsOK
<1>6. ~Busy(t)'
  BY <1>5 DEF Busy
<1>7. \A c \in C : DataOK(c)' /\ WaitOK(c)'
  BY <1>6 DEF DataOK, WaitOK, Waits
<1> QED
  BY <1>1, <1>4, <1>7, DataStep

\* A fault stands where the copy has come to.
LEMMA FaultPlace ==
    ASSUME XInv, NoTargetFaultInOneSpace, NEW t \in Threads, Fault(t)
    PROVE  FaultOffset(t) = x[t].done
<1>1. Together(t, To(t))
  BY AtCopy DEF Fault, InPart, Copying
<1>2. To(t) \in Threads /\ op[t] \in Sends[t] /\ op[To(t)] \in Receives[op[t].to]
  BY <1>1, Sides DEF Together, To
<1>3. SourcePage(t) \in absent \/ ViaCopyArea(t)
  <2>1. SUFFICES ASSUME SourcePage(t) \notin absent, Space[t] = Space[op[t].to] PROVE FALSE
    BY DEF ViaCopyArea, To
  <2>2. op[To(t)].absent = {}
    BY <1>2, <2>1 DEF NoTargetFaultInOneSpace
  <2>3. TargetPage(t) \in absent
    BY <2>1 DEF Fault
  <2>4. TargetPage(t)[1] = To(t)
    BY DEF TargetPage
  <2> QED
    BY <2>2, <2>3, <2>4 DEF XInv, PagesOK
<1> QED
  BY <1>3 DEF FaultOffset

\* A receiver returns to user mode.
LEMMA ReceiveResumeData ==
    ASSUME XInv, DInv, NEW t \in Threads, ReceiveResume(t)
    PROVE  DInv'
<1> USE DEF ReceiveResume, xfers, GoTo
<1>1. InReceive(t) /\ Free(t) /\ state[t] = "running"
  BY AtReceive
<1>2. Alone({t})
  BY <1>1 DEF Alone, Free
<1>3. x' = x /\ x[t].step = "none" /\ LengthReported'
  BY <1>1 DEF InReceive, DInv, LengthReported
<1>4. /\ \A u \in Threads \ {t} : state'[u] = state[u] /\ notify'[u] = notify[u]
      /\ state'[t] = "running"
  BY DEF XInv, DomainsOK
<1> QED
  BY <1>2, <1>3, <1>4, LeaveStep

\* An aborted thread returns to user mode.
LEMMA HandleIpcErrorData ==
    ASSUME XInv, DInv, NEW t \in Threads, HandleIpcError(t)
    PROVE  DInv'
<1> USE DEF HandleIpcError, BackToUser, GoTo
<1>1. ~Kept(t) /\ IsAborted(t)
  BY DEF XInv, PlacesOK, Place, Kept
<1>2. Alone({t})
  BY <1>1 DEF Alone, Engaged, Kept
<1>3. LengthReported'
  BY DEF DInv, LengthReported
<1>4. /\ \A u \in Threads \ {t} : state'[u] = state[u] /\ notify'[u] = notify[u]
      /\ state'[t] = "running"
  BY <1>1 DEF XInv, DomainsOK, IsAborted
<1> QED
  BY <1>2, <1>3, <1>4, LeaveStep

\* A transfer ends: its length is what has arrived.
LEMMA FinishData ==
    ASSUME XInv, DInv, NoEmptyItems, NEW t \in Threads, Complete(t) \/ MessageOverflow(t)
    PROVE  DInv'
<1>0. PICK r \in Threads : r = To(t)
  BY AtCopy, Sides DEF Together, Complete, MessageOverflow, Copying
<1>1. At(t, "copy") /\ Together(t, r) /\ r # t /\ state[r] = "locked_waiting"
  BY <1>0, AtCopy, Sides DEF Together, Complete, MessageOverflow, Copying
<1>2. /\ state' = [state EXCEPT ![t] = "running", ![r] = "running"]
      /\ x' = [x EXCEPT ![t] = NoTransfer] /\ frame' = [frame EXCEPT ![t] = "user"]
      /\ Forget({t}) /\ notify' = notify
      /\ outcome'.len = x[t].copied /\ outcome'.copied = Len(got[r])
      /\ x[t].step \in {"done", "overflow"}
  BY <1>0 DEF Complete, MessageOverflow, Finish, Returned, GoTo, Copying
<1>3. Alone({t, r})
  BY <1>1, Sides DEF Alone, Together
<1>4. LengthReported'
  <2>1. Exact(op[t].strings, op[r].buffers, x[t], got[r])
    BY <1>1, <1>2 DEF DInv, DataOK, Data, Together
  <2>2. Transferable(op[t].strings, op[r].buffers)
    BY <1>1, MetStrings DEF Together
  <2>3. x[t].done = 0
    BY <1>2, <2>1, <2>2, ExactPrefix
  <2>4. x[t].copied \in Nat /\ x[t].copied + x[t].done = Len(got[r])
    BY <2>1 DEF Exact, Locals
  <2> QED
    BY <1>2, <2>3, <2>4 DEF LengthReported
<1>5. /\ \A u \in Threads \ {t, r} : state'[u] = state[u] /\ notify'[u] = notify[u]
      /\ state'[t] = "running" /\ state'[r] = "running"
  BY <1>1, <1>2 DEF XInv, DomainsOK
<1>6. ~Busy(r)'
  <2>1. ~Busy(r) /\ x'[r] = x[r]
    BY <1>1, <1>2, Sides DEF Together, XInv, DomainsOK
  <2> QED
    BY <1>2, <1>5, <2>1 DEF Busy, Kept
<1>7. /\ \A u \in {t, r} : state'[u] = "running" /\ (u # t => ~Busy(u)')
      /\ {t, r} \subseteq Threads /\ t \in {t, r}
  BY <1>5, <1>6
<1>8. /\ x' = [x EXCEPT ![t] = NoTransfer] \/ (x' = x /\ x[t].step = "none")
      /\ frame' = [frame EXCEPT ![t] = "user"] /\ Forget({t})
  BY <1>2
<1>9. \A u \in Threads \ {t, r} : state'[u] = state[u] /\ notify'[u] = notify[u]
  BY <1>5
<1> QED
  BY <1>3, <1>4, <1>7, <1>8, <1>9, LeaveStep, Zenon

\* A timeout ends a transfer.
LEMMA TimedOutData ==
    ASSUME XInv, DInv, NEW t \in Threads, NEW r \in Threads, Together(t, r), r # t,
           NEW st, NEW len, TimedOut(t, st, len), AbortedPartner(t, st) = {r},
           len = Len(UnwoundUnits(t, st))
    PROVE  DInv'
<1> USE DEF TimedOut, Unwind, BackToUser, GoTo, Returned
<1>1. Alone({t, r})
  BY Sides DEF Alone, Together
<1>2. LengthReported'
  BY DEF LengthReported
<1>3. /\ \A u \in Threads \ {t, r} : state'[u] = state[u] /\ notify'[u] = notify[u]
      /\ state'[t] = "running" /\ state'[r] = "running" /\ notify'[r] = NotifyError
  OBVIOUS
<1>4. ~Busy(r)'
  BY <1>3 DEF Busy, Kept
<1> QED
  BY <1>1, <1>2, <1>3, <1>4, LeaveStep

\* A timeout of zero, at the first fault.
LEMMA FaultTimeoutData ==
    ASSUME XInv, DInv, NoTargetFaultInOneSpace, NEW t \in Threads, FaultTimeout(t)
    PROVE  DInv'
<1>0. PICK r \in Threads : r = To(t)
  BY AtCopy, Sides DEF Together, FaultTimeout, Fault, InPart, Copying
<1>1. At(t, "copy") /\ InCopy(t) /\ Together(t, r) /\ r # t /\ state[r] = "locked_waiting"
      /\ partner[r] = t
  BY <1>0, AtCopy, Sides DEF Together, FaultTimeout, Fault, InPart, Copying
<1>2. Unwinding(t, "locked_running") = [state |-> "locked_running", partner |-> r]
  BY <1>0, <1>1 DEF Unwinding, Nested, InCopy
<1>3. AbortedPartner(t, "locked_running") = {r}
  BY <1>1, <1>2 DEF AbortedPartner
<1>4. UnwoundUnits(t, "locked_running") = got[r]
  BY <1>0, <1>2 DEF UnwoundUnits
<1>5. FaultOffset(t) = x[t].done
  BY FaultPlace DEF FaultTimeout
<1>6. x[t].copied + FaultOffset(t) = Len(got[r])
  BY <1>1, <1>5 DEF DInv, DataOK, Data, Exact, InCopy, Together
<1> DEFINE len == x[t].copied + FaultOffset(t)
<1>7. TimedOut(t, "locked_running", len)
  BY DEF FaultTimeout
<1> HIDE DEF len
<1> QED
  BY <1>1, <1>3, <1>4, <1>6, <1>7, TimedOutData DEF len

\* A timeout that expired in a fault.
LEMMA HandleIpcTimeoutData ==
    ASSUME XInv, DInv, NEW t \in Threads, HandleIpcTimeout(t)
    PROVE  DInv'
<1>1. notify[t].fn = "handle_ipc_timeout"
      /\ TimedOut(t, notify[t].state, UnwoundLen(t, notify[t].state))
  BY DEF HandleIpcTimeout
<1>2. Place(t) /\ Kept(t) /\ notify[t] # NotNotified /\ notify[t] # NotifyTunnel
  BY <1>1, Tags DEF XInv, PlacesOK, Kept
<1>3. InFault(t) /\ InOwnFault(t)
  BY <1>2 DEF Place, InUser, InSend, InReceive, InCopy, InTunnelled
<1>4. PICK r \in Threads : r = To(t) /\ r # t /\ Together(t, r)
      /\ state[r] = "locked_waiting" /\ partner[r] = t
  BY <1>2, <1>3, OwnFault, Sides DEF Together
<1>5. AbortedPartner(t, notify[t].state) = {r}
  <2>1. Unwinding(t, notify[t].state) = [state |-> "locked_running", partner |-> r]
    BY <1>3, <1>4, Tags DEF InOwnFault, Unwinding, Nested
  <2> QED
    BY <1>4, <2>1 DEF AbortedPartner
<1>6. UnwoundLen(t, notify[t].state) = Len(UnwoundUnits(t, notify[t].state))
  BY <1>2, <1>3, OwnFaultLength
<1> QED
  BY <1>1, <1>4, <1>5, <1>6, TimedOutData

\* The copy itself.
LEMMA CopyData ==
    ASSUME XInv, DInv, NoEmptyItems, NEW t \in Threads, Item(t) \/ CopyUnit(t) \/ CopyDone(t)
    PROVE  DInv'
<1>0. PICK r \in Threads : r = To(t)
  BY AtCopy, Sides DEF Together, Item, CopyUnit, CopyDone, InPart, Copying
<1> DEFINE ss == op[t].strings
           bs == op[r].buffers
<1>1. At(t, "copy") /\ InCopy(t) /\ Busy(t) /\ r \in Threads /\ r # t
      /\ state[r] = "locked_waiting"
  BY <1>0, AtCopy, Sides DEF Together, Item, CopyUnit, CopyDone, InPart, Copying
<1>2. Transferable(ss, bs) /\ Exact(ss, bs, x[t], got[r])
  BY <1>0, <1>1, MetStrings DEF DInv, DataOK, Data, InCopy
<1>3. /\ op' = op /\ state' = state /\ notify' = notify /\ frame' = frame
      /\ outcome' = outcome /\ \A u \in Threads \ {t} : x'[u] = x[u]
      /\ DOMAIN got' = Threads /\ \A u \in Threads \ {r} : got'[u] = got[u]
  BY <1>0 DEF Item, CopyUnit, CopyDone, tcbs, XInv, DomainsOK, DInv
<1>4. Exact(ss, bs, x'[t], got'[r])
  <2>1. /\ Message(t) = Registers(ss) /\ Buffers(t) = Registers(bs)
        /\ t \in DOMAIN x /\ r \in DOMAIN got
    BY <1>0, <1>1 DEF Message, Buffers, XInv, DomainsOK, DInv
  <2> HIDE DEF ss, bs
  <2>2. CASE Item(t)
    <3>1. x'[t] = NextItem(x[t], Registers(ss), Registers(bs)) /\ got'[r] = got[r]
      BY <2>1, <2>2 DEF Item
    <3> QED
      BY <1>2, <2>2, <3>1, ItemExact DEF Item, Copying
  <2>3. CASE CopyUnit(t)
    <3>1. /\ x'[t] = [x[t] EXCEPT !.done = @ + 1]
          /\ got'[r] = Append(got[r], [from |-> Source(x[t], Registers(ss)),
                                       to |-> Target(x[t], Registers(bs))])
      BY <1>0, <2>1, <2>3 DEF CopyUnit
    <3> QED
      BY <1>2, <2>3, <3>1, UnitExact DEF CopyUnit, InPart, Copying
  <2>4. CASE CopyDone(t)
    <3>1. x'[t] = PartCopied(x[t], Registers(ss), Registers(bs)) /\ got'[r] = got[r]
      BY <2>1, <2>4 DEF CopyDone
    <3> QED
      BY <1>2, <2>4, <3>1, PartExact DEF CopyDone, Copying
  <2> QED
    BY <2>2, <2>3, <2>4 DEF Item, CopyUnit, CopyDone
<1>5. Alone({t, r})
  BY <1>0, <1>1, Sides DEF Alone
<1>6. \A u \in Threads \ {t, r} : SameData(u)
  BY <1>3 DEF SameData, Busy, Halted, Waits, InFault, Kept
<1>7. DataOK(t)'
  <2>1. x'[t].step # "none"
    BY <1>4, Tags DEF Exact
  <2>2. To(t)' = r /\ Data(t, r)'
    BY <1>0, <1>3, <1>4, <2>1 DEF To, Data
  <2>3. ~Halted(t)'
    BY <1>1, <1>3, AtCopy DEF Halted, InFault, At, Item, CopyUnit, CopyDone, InPart, Copying
  <2> QED
    BY <2>2, <2>3 DEF DataOK
<1>8. ~Busy(r)'
  BY <1>0, <1>1, <1>3, Sides DEF Busy, Kept
<1>9. ~Waits(t)' /\ ~Waits(r)'
  BY <1>1, <1>3 DEF Waits, At
<1>10. \A c \in {t, r} : DataOK(c)' /\ WaitOK(c)'
  BY <1>7, <1>8, <1>9 DEF DataOK, WaitOK
<1>11. LengthReported'
  BY <1>3 DEF DInv, LengthReported
<1>12. {t, r} \subseteq Threads
  BY <1>1
<1> QED
  BY <1>3, <1>5, <1>6, <1>10, <1>11, <1>12, DataStep

\* A fault is recorded where the copy has come to.
LEMMA FaultData ==
    ASSUME XInv, DInv, NoTargetFaultInOneSpace, NEW t \in Threads,
           LocalFault(t) \/ TunnelledFault(t)
    PROVE  DInv'
<1>0. PICK r \in Threads : r = To(t)
  BY AtCopy, Sides DEF Together, LocalFault, TunnelledFault, Fault, InPart, Copying
<1>1. At(t, "copy") /\ InCopy(t) /\ Busy(t) /\ r \in Threads /\ r # t
      /\ state[r] = "locked_waiting" /\ partner[t] = r
  BY <1>0, AtCopy, Sides DEF Together, LocalFault, TunnelledFault, Fault, InPart, Copying, InCopy
<1>2. FaultOffset(t) = x[t].done
  BY FaultPlace DEF LocalFault, TunnelledFault
<1>3. Exact(op[t].strings, op[r].buffers, x[t], got[r])
  BY <1>0, <1>1 DEF DInv, DataOK, Data, InCopy
<1>4. x' = [x EXCEPT ![t].fault = FaultOffset(t)]
  BY DEF LocalFault, TunnelledFault, RecordFault
<1>5. op' = op /\ got' = got /\ outcome' = outcome
  BY DEF LocalFault, TunnelledFault
<1>6. /\ x'[t] = [x[t] EXCEPT !.fault = FaultOffset(t)]
      /\ \A u \in Threads \ {t} : x'[u] = x[u]
  BY <1>4 DEF XInv, DomainsOK
<1>7. x'[t].fault = x'[t].done /\ x'[t].step = x[t].step
  BY <1>2, <1>3, <1>6 DEF Exact, Locals
<1>8. Exact(op[t].strings, op[r].buffers, x'[t], got[r])
  BY <1>3, <1>6, FaultExact
<1>9. \A u \in Threads \ {t, r} : Same(u)
  BY <1>1, <1>5, <1>6 DEF Same, LocalFault, TunnelledFault, SendPagefault, GoTo, XInv, DomainsOK
<1>10. /\ state'[r] # "waiting_forever" /\ frame'[r] = frame[r] /\ frame'[t] # "receive"
       /\ notify'[r] # NotifyError
  BY <1>1, LockedWaiting, Tags
     DEF LocalFault, TunnelledFault, SendPagefault, GoTo, XInv, DomainsOK, At, Kept
<1>11. Alone({t, r})
  BY <1>0, <1>1, Sides DEF Alone
<1>12. \A u \in Threads \ {t, r} : SameData(u)
  BY <1>5, <1>6, <1>9, SameTags
<1>13. DataOK(t)'
  <2>1. x'[t].step # "none"
    BY <1>1, <1>7 DEF InCopy
  <2>2. To(t)' = r /\ Data(t, r)'
    BY <1>0, <1>5, <1>8, <2>1 DEF Data, To
  <2> QED
    BY <1>7, <2>2 DEF DataOK
<1>14. ~Busy(r)'
  <2>1. x'[r].step = "none"
    BY <1>1, <1>6, LockedWaiting DEF InReceive
  <2>2. frame'[r] # "send"
    BY <1>1, <1>10, LockedWaiting
  <2> QED
    BY <2>1, <2>2 DEF Busy
<1>15. \A c \in {t, r} : DataOK(c)' /\ WaitOK(c)'
  BY <1>10, <1>13, <1>14 DEF DataOK, WaitOK, Waits
<1>16. LengthReported' /\ DOMAIN got' = Threads /\ {t, r} \subseteq Threads
  BY <1>1, <1>5 DEF DInv, LengthReported
<1> QED
  BY <1>11, <1>12, <1>15, <1>16, DataStep

\* What a send and a receive describe.
LEMMA CalledStrings ==
    ASSUME NoEmptyItems, NEW t \in Threads, NEW m \in Sends[t], NEW b \in Receives[m.to]
    PROVE  Transferable(m.strings, b.buffers)
<1>1. SendType(m)
  BY XferAssumption
<1>2. m.to \in Threads
  BY <1>1 DEF SendType
<1>3. ReceiveType(b)
  BY <1>2, XferAssumption
<1> QED
  BY <1>1, <1>3 DEF NoEmptyItems, SendType, ReceiveType, Transferable

\* A transfer begins with nothing copied.
LEMMA BeginData ==
    ASSUME XInv, DInv, NEW t \in Threads, NEW r \in Threads, t # r, Begin(t, r, state),
           Alone({t, r}), DOMAIN op' = Threads, \A u \in Threads \ {t} : op'[u] = op[u],
           op'[t].to = r, got' = got, got[r] = <<>>, notify' = notify,
           Transferable(op'[t].strings, op[r].buffers), frame[r] = "receive",
           x[r].step = "none", LengthReported'
    PROVE  DInv'
<1> USE DEF Begin, GoTo
<1>1. /\ x'[t] = StartTransfer(op[r].buffers # <<>>) /\ x'[r] = x[r]
      /\ frame'[t] = "copy" /\ frame'[r] = frame[r]
      /\ state'[t] = "locked_running" /\ state'[r] = "locked_waiting" /\ op'[r] = op[r]
  BY DEF XInv, DomainsOK
<1>2. \A u \in Threads \ {t, r} : SameData(u)
  BY DEF SameData, Busy, Halted, Waits, InFault, Kept, XInv, DomainsOK
<1>3. Exact(op'[t].strings, op[r].buffers, x'[t], <<>>)
  BY <1>1, BeginsExact
<1>4. x'[t].step # "none"
  BY <1>3 DEF Exact
<1>5. To(t)' = r /\ Data(t, r)'
  BY <1>1, <1>3, <1>4 DEF To, Data
<1>6. ~Halted(t)' /\ ~Waits(t)' /\ ~Waits(r)' /\ ~Busy(r)'
  BY <1>1 DEF Halted, InFault, Waits, Busy
<1>7. \A c \in {t, r} : DataOK(c)' /\ WaitOK(c)'
  BY <1>5, <1>6 DEF DataOK, WaitOK
<1>8. {t, r} \subseteq Threads /\ DOMAIN got' = Threads
  BY DEF DInv
<1> QED
  BY <1>2, <1>7, <1>8, DataStep

\* A sender that was accepted begins to copy.
LEMMA SendResumeData ==
    ASSUME XInv, DInv, NoEmptyItems, NEW t \in Threads, SendResume(t)
    PROVE  DInv'
<1> USE DEF SendResume
<1>0. PICK r \in Threads : r = To(t)
  BY AtSend, Sides DEF Together
<1>1. At(t, "send") /\ InSend(t) /\ Busy(t) /\ r # t /\ state[r] = "locked_waiting"
  BY <1>0, AtSend, Sides DEF Together
<1>2. Begin(t, r, state)
  BY <1>0 DEF To
<1>3. Alone({t, r})
  BY <1>0, <1>1, Sides DEF Alone
<1>4. got[r] = <<>>
  BY <1>0, <1>1 DEF DInv, DataOK, Data, InSend
<1>5. Transferable(op[t].strings, op[r].buffers)
  BY <1>0, <1>1, MetStrings
<1>6. frame[r] = "receive" /\ x[r].step = "none"
  BY <1>1, LockedWaiting DEF InReceive
<1>7. LengthReported' /\ DOMAIN op' = Threads /\ op'[t].to = r
  BY <1>0 DEF DInv, LengthReported, XInv, DomainsOK, To
<1> QED
  BY <1>1, <1>2, <1>3, <1>4, <1>5, <1>6, <1>7, BeginData

\* A send finds its receiver waiting and begins, or polls.
LEMMA SendCallData ==
    ASSUME XInv, DInv, NoEmptyItems, NEW t \in Threads, SendCall(t)
    PROVE  DInv'
<1> USE DEF SendCall
<1>1. At(t, "user") /\ InUser(t) /\ Free(t)
  BY AtUser
<1>2. PICK m \in Sends[t] :
        /\ op' = [op EXCEPT ![t] = m]
        /\ IF state[m.to] = "waiting_forever" /\ partner[m.to] \in {t, anythread}
           THEN Begin(t, m.to, state) /\ UNCHANGED current
           ELSE /\ state' = [state EXCEPT ![t] = "polling"]
                /\ GoTo(t, "send") /\ UNCHANGED x
  OBVIOUS
<1>3. PICK r \in Threads : r = m.to /\ r # t
  BY XferAssumption DEF SendType
<1>4. /\ DOMAIN op' = Threads /\ op'[t] = m /\ \A u \in Threads \ {t} : op'[u] = op[u]
  BY <1>2 DEF XInv, DomainsOK
<1>5. LengthReported'
  BY DEF LengthReported, NoOutcome
<1>6. CASE state[r] = "waiting_forever" /\ partner[r] \in {t, anythread}
  <2>1. Begin(t, r, state)
    BY <1>2, <1>3, <1>6
  <2>2. Place(r) /\ partner[r] # pager
    BY <1>6, XferAssumption DEF XInv, PlacesOK
  <2>3. frame[r] = "receive" /\ InReceive(r) /\ Kept(r)
    BY <1>6, <2>2 DEF Place, IsAborted, InUser, InSend, InCopy, InOwnFault, InTunnelled
  <2>4. got[r] = <<>>
    BY <1>6, <2>3 DEF DInv, WaitOK, Waits
  <2>5. ~Engaged(r)
    BY <1>6, <2>3, Tags DEF Engaged, HandlesTunnelled, InReceive
  <2>6. Alone({t, r})
    BY <1>1, <2>5 DEF Alone, Free
  <2>7. Transferable(m.strings, op[r].buffers)
    BY <1>3, <2>3, CalledStrings DEF InReceive
  <2>8. x[r].step = "none"
    BY <2>3 DEF InReceive
  <2> QED
    BY <1>3, <1>4, <1>5, <2>1, <2>3, <2>4, <2>6, <2>7, <2>8, BeginData
<1>7. CASE ~(state[r] = "waiting_forever" /\ partner[r] \in {t, anythread})
  <2>1. state' = [state EXCEPT ![t] = "polling"] /\ GoTo(t, "send") /\ UNCHANGED x
    BY <1>2, <1>3, <1>7
  <2>2. state'[t] = "polling" /\ frame'[t] = "send" /\ x'[t].step = "none"
    BY <1>1, <2>1 DEF GoTo, XInv, DomainsOK, InUser
  <2>3. \A u \in Threads \ {t} : SameData(u)
    BY <1>4, <2>1 DEF GoTo, SameData, Busy, Halted, Waits, InFault, Kept, XInv, DomainsOK
  <2>4. ~Busy(t)' /\ ~Waits(t)'
    BY <2>2 DEF Busy, Waits
  <2>5. \A c \in {t} : DataOK(c)' /\ WaitOK(c)'
    BY <2>4 DEF DataOK, WaitOK
  <2>6. Alone({t}) /\ DOMAIN got' = Threads
    BY <1>1 DEF Alone, Free, DInv
  <2> QED
    BY <1>5, <2>3, <2>5, <2>6, DataStep
<1> QED
  BY <1>6, <1>7

\* A receive starts with nothing, and accepts a sender that polls, or waits.
LEMMA ReceiveCallData ==
    ASSUME XInv, DInv, NEW t \in Threads, ReceiveCall(t)
    PROVE  DInv'
<1> USE DEF ReceiveCall, xfers
<1>1. At(t, "user") /\ InUser(t) /\ Free(t)
  BY AtUser
<1>2. /\ x' = x /\ notify' = notify /\ got'[t] = <<>> /\ DOMAIN got' = Threads
      /\ \A u \in Threads \ {t} : op'[u] = op[u] /\ got'[u] = got[u] /\ frame'[u] = frame[u]
      /\ frame'[t] = "receive" /\ x'[t].step = "none"
  BY <1>1 DEF DInv, XInv, DomainsOK, GoTo, InUser
<1>3. LengthReported'
  BY DEF LengthReported, NoOutcome
<1>4. DataOK(t)' /\ WaitOK(t)'
  BY <1>2 DEF DataOK, WaitOK, Busy
<1>5. CASE state' = [state EXCEPT ![t] = "waiting_forever"]
  <2>1. \A u \in Threads \ {t} : SameData(u)
    BY <1>2, <1>5 DEF SameData, Busy, Halted, Waits, InFault, Kept, XInv, DomainsOK
  <2>2. Alone({t})
    BY <1>1 DEF Alone, Free
  <2> QED
    BY <1>2, <1>3, <1>4, <2>1, <2>2, DataStep
<1>6. CASE \E s \in Threads :
             /\ state[s] = "polling" /\ partner[s] = t /\ ~Nested(s)
             /\ state' = [state EXCEPT ![s] = "locked_running", ![t] = "locked_waiting"]
  <2>1. PICK s \in Threads :
             /\ state[s] = "polling" /\ partner[s] = t /\ ~Nested(s)
             /\ state' = [state EXCEPT ![s] = "locked_running", ![t] = "locked_waiting"]
    BY <1>6
  <2>2. Place(s)
    BY DEF XInv, PlacesOK
  <2>3. frame[s] = "send" /\ InSend(s)
    BY <2>1, <2>2, Tags DEF Place, Nested, IsAborted, InUser, InReceive, InCopy, InOwnFault,
       InTunnelled
  <2>4. s # t /\ To(s) = t
    BY <1>1, <2>1, <2>3 DEF InUser, InSend
  <2>5. x'[s].step = "none" /\ frame'[s] = "send" /\ state'[s] = "locked_running"
        /\ To(s)' = t
    BY <1>2, <2>1, <2>3, <2>4 DEF InSend, XInv, DomainsOK, To
  <2>6. Data(s, t)' /\ ~Halted(s)' /\ ~Waits(s)'
    BY <1>2, <2>5 DEF Data, Halted, InFault, Waits
  <2>7. DataOK(s)' /\ WaitOK(s)'
    BY <2>5, <2>6 DEF DataOK, WaitOK
  <2>8. Alone({s, t})
    BY <1>1, <2>1, <2>3, Tags DEF Alone, Free, Engaged, HandlesTunnelled, InSend
  <2>9. \A u \in Threads \ {s, t} : SameData(u)
    BY <1>2, <2>1 DEF SameData, Busy, Halted, Waits, InFault, Kept, XInv, DomainsOK
  <2> QED
    BY <1>2, <1>3, <1>4, <2>7, <2>8, <2>9, DataStep
<1> QED
  BY <1>5, <1>6

\* Nothing has been received at first.
LEMMA InitData == Init => DInv
<1> SUFFICES ASSUME Init PROVE DInv
  OBVIOUS
<1> USE DEF Init
<1>1. \A t \in Threads : ~Busy(t) /\ ~Waits(t)
  BY DEF Busy, Waits, NoTransfer
<1>2. LengthReported
  BY DEF LengthReported, NoOutcome
<1> QED
  BY <1>1, <1>2 DEF DInv, DataOK, WaitOK

\* Every step copies what it has to.
LEMMA StepData ==
    ASSUME XInv, DInv, [Next]_vars, NoEmptyItems, NoTargetFaultInOneSpace
    PROVE  DInv'
<1>1. CASE \E t \in Threads : SendCall(t) \/ ReceiveCall(t)
  BY <1>1, SendCallData, ReceiveCallData
<1>2. CASE \E t \in Threads : SendResume(t) \/ ReceiveResume(t)
  BY <1>2, SendResumeData, ReceiveResumeData
<1>3. CASE \E t \in Threads : Item(t) \/ CopyUnit(t) \/ CopyDone(t)
  BY <1>3, CopyData
<1>4. CASE \E t \in Threads : Complete(t) \/ MessageOverflow(t)
  BY <1>4, FinishData
<1>5. CASE \E t \in Threads : FaultTimeout(t) \/ HandleIpcError(t) \/ HandleIpcTimeout(t)
  BY <1>5, FaultTimeoutData, HandleIpcErrorData, HandleIpcTimeoutData
<1>6. CASE \E t \in Threads : LocalFault(t) \/ TunnelledFault(t)
  BY <1>6, FaultData
<1>7. CASE \E t \in Threads : TunnelPagefault(t) \/ FaultHandled(t)
  BY <1>7, TunnelPagefaultData, FaultHandledData
<1>8. CASE \E t \in Threads : FaultSent(t) \/ PagerReceives(t) \/ PagerReplies(t)
  BY <1>8, PagerData
<1>9. CASE \E t \in Threads : ExregsAbort(t)
  BY <1>9, ExregsAbortData
<1>10. CASE \E t \in Threads : Dispatch(t) \/ Preempt(t)
  BY <1>10, DispatchData
<1>11. CASE Expire
  BY <1>11, ExpireData
<1>12. CASE UNCHANGED vars
  <2>1. LengthReported' /\ x' = x /\ op' = op /\ got' = got
    BY <1>12 DEF vars, xfers, DInv, LengthReported
  <2>2. \A u \in Threads : Busy(u)' = Busy(u) /\ Halted(u)' = Halted(u) /\ Waits(u)' = Waits(u)
    BY <1>12 DEF vars, tcbs, xfers, Busy, Halted, Waits, InFault, Kept
  <2> QED
    BY <2>1, <2>2, QuietStep
<1> QED
  BY <1>1, <1>2, <1>3, <1>4, <1>5, <1>6, <1>7, <1>8, <1>9, <1>10, <1>11, <1>12
     DEF Next, KernelStep

\* The invariant says what has arrived.
LEMMA InvExact == XInv /\ DInv /\ NoEmptyItems => MessageExact
<1> SUFFICES ASSUME XInv, DInv, NoEmptyItems PROVE MessageExact
  OBVIOUS
<1>1. ASSUME NEW r \in Threads, NEW s \in SendersTo(r), x[s].step # "none"
      PROVE  LET all == Placement(op[s].strings, op[r].buffers)
             IN  /\ IsPrefix(got[r], all)
                 /\ x[s].step = "done" =>
                      got[r] = all /\ AllFit(op[s].strings, op[r].buffers)
                 /\ x[s].step = "overflow" =>
                      got[r] = all /\ ~AllFit(op[s].strings, op[r].buffers)
  <2>1. s \in Threads /\ Busy(s) /\ To(s) = r
    BY <1>1 DEF SendersTo, Busy, Kept
  <2>2. Exact(op[s].strings, op[r].buffers, x[s], got[r])
    BY <1>1, <2>1 DEF DInv, DataOK, Data
  <2>3. Transferable(op[s].strings, op[r].buffers)
    BY <2>1, MetStrings
  <2> QED
    BY <2>2, <2>3, ExactPrefix
<1>2. StringsExact
  BY <1>1 DEF StringsExact
<1> QED
  BY <1>2 DEF DInv, MessageExact

\* For any threads, spaces, strings and buffers: what has arrived is what the sizes of
\* the strings and of the buffers say, unit by unit and in this order, however they are
\* divided into items and wherever the copy faults; an overflow is reported exactly if
\* something does not fit; and whatever ends a transfer, both threads are told how much
\* has arrived (extended_transfer, unwind, calculate_errorcodes).
THEOREM MessagesExact ==
    ASSUME NoAbortInLocalFault, NoTimeoutInTunnelledFault,
           NoEmptyItems, NoTargetFaultInOneSpace
    PROVE  Spec => []MessageExact
<1>1. Init => XInv /\ DInv
  BY Initially, InitData
<1>2. (XInv /\ DInv) /\ [Next]_vars => (XInv /\ DInv)'
  BY Step, StepData
<1>3. XInv /\ DInv => MessageExact
  BY InvExact
<1> QED
  BY <1>1, <1>2, <1>3, PTL DEF Spec
==============================================================================
