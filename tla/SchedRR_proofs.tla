---------------------------- MODULE SchedRR_proofs ----------------------------
(* Proofs about the round-robin scheduler: its queues are exact, a thread   *)
(* that can run is found, timeouts are armed, the highest priority runs,    *)
(* and every step is one that the rest of the kernel relies on.             *)
EXTENDS SchedRR, Lists_proofs, FiniteSetTheorems

\* Somebody's timeslice is charged, unless the kernel has stopped.
OwnerKnown == panic \/ timeslice_tcb \in Tcbs

\* The thread that runs can run.
CurrentRuns == current # idle => state[current] = "running"

Inv == TypeOK /\ OwnerKnown /\ CurrentRuns /\ QueuesExact /\ TimeoutArmed

-----------------------------------------------------------------------------
(* Queues                                                                   *)

\* prio_queue_t, and what QueuesExact says of rq, of any queues q when the
\* priorities are those of s.
Queue == [list : [Prios -> Seq(Threads)], max : -1..MaxPrio, ready : SUBSET Threads]
Ktcbs == [Tcbs -> Ktcb]
Exact(q, s) ==
    /\ \A p \in Prios : /\ Distinct(q.list[p])
                        /\ \A t : InList(q.list[p], t) =>
                               t \in q.ready /\ s[t].prio = p /\ p <= q.max
    /\ \A t \in q.ready : InList(q.list[s[t].prio], t)

\* The property of the queues of the scheduler.
LEMMA ExactIs == QueuesExact <=> Exact(rq, sched)
<1>1. ASSUME QueuesExact PROVE Exact(rq, sched)
  BY <1>1 DEF QueuesExact, Exact, InList, Distinct
<1>2. ASSUME Exact(rq, sched) PROVE QueuesExact
  BY <1>2 DEF QueuesExact, Exact, InList, Distinct
<1> QED
  BY <1>1, <1>2

\* Only the priorities of the threads in the queues matter.
LEMMA ExactSamePrio ==
    ASSUME NEW q, NEW s, NEW z, Exact(q, s), \A t \in q.ready : z[t].prio = s[t].prio
    PROVE  Exact(q, z)
BY DEF Exact

\* Where a thread of a priority stands.
LEMMA PrioType ==
    ASSUME NEW s \in Ktcbs, NEW t \in Threads
    PROVE  s[t].prio \in Prios
BY DEF Ktcbs, Ktcb, Tcbs

\* Queues q once thread t is in that of its priority, which is now h.
Put(q, s, t, h) ==
    LET p == s[t].prio
    IN  [list |-> [q.list EXCEPT ![p] = h],
         max |-> IF q.max < p THEN p ELSE q.max,
         ready |-> q.ready \cup {t}]

\* Wherever a thread is put into its queue, the queues stay exact.
LEMMA PutExact ==
    ASSUME NEW q \in Queue, NEW s \in Ktcbs, Exact(q, s), NEW t \in Threads,
           NEW h \in Seq(Threads), Distinct(h),
           \A u : InList(h, u) <=> InList(q.list[s[t].prio], u) \/ u = t
    PROVE  Put(q, s, t, h) \in Queue /\ Exact(Put(q, s, t, h), s)
<1> DEFINE p == s[t].prio
           l == q.list[p]
           e == Put(q, s, t, h)
<1>1. p \in Prios /\ q.list \in [Prios -> Seq(Threads)] /\ l \in Seq(Threads)
      /\ q.max \in -1..MaxPrio /\ q.ready \subseteq Threads
  BY PrioType DEF Queue
<1>2. /\ e.list = [q.list EXCEPT ![p] = h]
      /\ e.max = IF q.max < p THEN p ELSE q.max
      /\ e.ready = q.ready \cup {t}
      /\ e = [list |-> e.list, max |-> e.max, ready |-> e.ready]
  BY DEF Put
<1> HIDE DEF e
<1>3. e.max \in -1..MaxPrio /\ p <= e.max /\ \A r \in Prios : r <= q.max => r <= e.max
  BY <1>1, <1>2, NumberAssumption DEF Prios
<1>4. e \in Queue
  BY <1>1, <1>2, <1>3 DEF Queue
<1>5. e.list[p] = h /\ \A r \in Prios : r # p => e.list[r] = q.list[r]
  BY <1>1, <1>2
<1>6. ASSUME NEW r \in Prios
      PROVE  /\ Distinct(e.list[r])
             /\ \A u : InList(e.list[r], u) => u \in e.ready /\ s[u].prio = r /\ r <= e.max
  <2>1. CASE r = p
    BY <1>1, <1>2, <1>3, <1>5, <2>1 DEF Exact
  <2>2. CASE r # p
    BY <1>2, <1>3, <1>5, <2>2 DEF Exact
  <2> QED
    BY <2>1, <2>2
<1>7. ASSUME NEW u \in e.ready PROVE InList(e.list[s[u].prio], u)
  <2>1. CASE u = t
    BY <1>5, <2>1
  <2>2. CASE u # t
    <3>1. u \in q.ready /\ s[u].prio \in Prios /\ InList(q.list[s[u].prio], u)
      BY <1>1, <1>2, <2>2, PrioType DEF Exact
    <3> QED
      BY <1>5, <3>1
  <2> QED
    BY <2>1, <2>2
<1>8. Exact(e, s)
  BY <1>6, <1>7 DEF Exact
<1> QED
  BY <1>4, <1>8 DEF e

\* The thread that is to be put into its queue is not in it.
LEMMA NotQueued ==
    ASSUME NEW q \in Queue, NEW s \in Ktcbs, Exact(q, s), NEW t \in Threads, t \notin q.ready
    PROVE  /\ q.list[s[t].prio] \in Seq(Threads)
           /\ Distinct(q.list[s[t].prio]) /\ ~InList(q.list[s[t].prio], t)
<1>1. s[t].prio \in Prios /\ q.list \in [Prios -> Seq(Threads)]
  BY PrioType DEF Queue
<1> QED
  BY <1>1 DEF Exact

\* prio_queue_t::enqueue at the end of the queue of t's priority.
LEMMA EnqueueExact ==
    ASSUME NEW q \in Queue, NEW s \in Ktcbs, NEW t \in Threads, Exact(q, s)
    PROVE  /\ Enqueue(q, s, t) \in Queue /\ Exact(Enqueue(q, s, t), s)
           /\ Enqueue(q, s, t).ready = q.ready \cup {t}
<1>1. CASE t \in q.ready
  BY <1>1 DEF Enqueue
<1>2. CASE t \notin q.ready
  <2> DEFINE l == q.list[s[t].prio]
  <2>1. l \in Seq(Threads) /\ Distinct(l) /\ ~InList(l, t)
    BY <1>2, NotQueued
  <2>2. /\ Append(l, t) \in Seq(Threads) /\ Distinct(Append(l, t))
        /\ \A u : InList(Append(l, t), u) <=> InList(l, u) \/ u = t
    BY <2>1, AppendMembers
  <2>3. s[t].prio \in Prios /\ q.list \in [Prios -> Seq(Threads)]
    BY PrioType DEF Queue
  <2>4. Enqueue(q, s, t) = Put(q, s, t, Append(l, t))
    BY <1>2, <2>3 DEF Enqueue, Put, EnqueueTail
  <2>5. Put(q, s, t, Append(l, t)).ready = q.ready \cup {t}
    BY DEF Put
  <2> HIDE DEF l
  <2> QED
    BY <2>2, <2>4, <2>5, PutExact DEF l
<1> QED
  BY <1>1, <1>2

\* prio_queue_t::enqueue at the head of it.
LEMMA EnqueueFirstExact ==
    ASSUME NEW q \in Queue, NEW s \in Ktcbs, NEW t \in Threads, Exact(q, s)
    PROVE  /\ EnqueueFirst(q, s, t) \in Queue /\ Exact(EnqueueFirst(q, s, t), s)
           /\ EnqueueFirst(q, s, t).ready = q.ready \cup {t}
<1>1. CASE t \in q.ready
  BY <1>1 DEF EnqueueFirst
<1>2. CASE t \notin q.ready
  <2> DEFINE l == q.list[s[t].prio]
             h == EnqueueHead(l, t)
  <2>1. l \in Seq(Threads) /\ Distinct(l) /\ ~InList(l, t)
    BY <1>2, NotQueued
  <2>2. /\ h \in Seq(Threads) /\ Distinct(h)
        /\ \A u : InList(h, u) <=> InList(l, u) \/ u = t
    BY <2>1, HeadMembers, HeadDistinct
  <2>3. s[t].prio \in Prios /\ q.list \in [Prios -> Seq(Threads)]
    BY PrioType DEF Queue
  <2>4. EnqueueFirst(q, s, t) = Put(q, s, t, h)
    BY <1>2, <2>3 DEF EnqueueFirst, Put
  <2>5. Put(q, s, t, h).ready = q.ready \cup {t}
    BY DEF Put
  <2> HIDE DEF l, h
  <2> QED
    BY <2>2, <2>4, <2>5, PutExact DEF l
<1> QED
  BY <1>1, <1>2

\* prio_queue_t::dequeue.
LEMMA DequeueExact ==
    ASSUME NEW q \in Queue, NEW s \in Ktcbs, NEW t \in Threads, Exact(q, s)
    PROVE  /\ Dequeue(q, s, t) \in Queue /\ Exact(Dequeue(q, s, t), s)
           /\ Dequeue(q, s, t).ready = q.ready \ {t}
           /\ \A r \in Prios : ~InList(Dequeue(q, s, t).list[r], t)
<1> DEFINE p == s[t].prio
           l == q.list[p]
           w == Without(l, t)
           e == Dequeue(q, s, t)
<1>1. p \in Prios /\ q.list \in [Prios -> Seq(Threads)] /\ l \in Seq(Threads)
      /\ q.max \in -1..MaxPrio /\ q.ready \subseteq Threads
  BY PrioType DEF Queue
<1>2. CASE t \notin q.ready
  <2>1. e = q /\ q.ready = q.ready \ {t}
    BY <1>2 DEF Dequeue
  <2>2. \A r \in Prios : ~InList(q.list[r], t)
    BY <1>2 DEF Exact
  <2> QED
    BY <2>1, <2>2
<1>3. CASE t \in q.ready
  <2>1. e = [list |-> [q.list EXCEPT ![p] = w], max |-> q.max, ready |-> q.ready \ {t}]
    BY <1>1, <1>3 DEF Dequeue, Queue
  <2>2. /\ w \in Seq(Threads) /\ Distinct(w)
        /\ \A u : InList(w, u) <=> InList(l, u) /\ u # t
    <3>1. Distinct(l)
      BY <1>1 DEF Exact
    <3> QED
      BY <1>1, <3>1, WithoutType, WithoutMembers
  <2> HIDE DEF e, w
  <2>3. e \in Queue /\ e.ready = q.ready \ {t} /\ e.max = q.max
    BY <1>1, <2>1, <2>2 DEF Queue
  <2>4. e.list[p] = w /\ \A r \in Prios : r # p => e.list[r] = q.list[r]
    BY <1>1, <2>1
  <2>5. ASSUME NEW r \in Prios
        PROVE  /\ Distinct(e.list[r])
               /\ \A u : InList(e.list[r], u) => u \in e.ready /\ s[u].prio = r /\ r <= e.max
               /\ ~InList(e.list[r], t)
    <3>1. CASE r = p
      BY <1>1, <2>2, <2>3, <2>4, <3>1 DEF Exact
    <3>2. CASE r # p
      <4>1. \A u : InList(q.list[r], u) => s[u].prio = r /\ u # t
        BY <3>2 DEF Exact
      <4> QED
        BY <2>3, <2>4, <3>2, <4>1 DEF Exact
    <3> QED
      BY <3>1, <3>2
  <2>6. ASSUME NEW u \in e.ready PROVE InList(e.list[s[u].prio], u)
    <3>1. u \in q.ready /\ u # t /\ s[u].prio \in Prios /\ InList(q.list[s[u].prio], u)
      BY <1>1, <2>3, PrioType DEF Exact
    <3> QED
      BY <2>2, <2>4, <3>1
  <2>7. Exact(e, s)
    BY <2>5, <2>6 DEF Exact
  <2> QED
    BY <2>3, <2>5, <2>7 DEF e
<1> QED
  BY <1>2, <1>3

\* end_of_timeslice turns a queue and leaves everybody in it.
LEMMA NextFirstExact ==
    ASSUME NEW q \in Queue, NEW s \in Ktcbs, NEW t \in Tcbs, Exact(q, s)
    PROVE  /\ NextFirst(q, s, t) \in Queue /\ Exact(NextFirst(q, s, t), s)
           /\ NextFirst(q, s, t).ready = q.ready
<1> DEFINE p == s[t].prio
           l == q.list[p]
           i == CHOOSE k \in 1..Len(l) : l[k] = t
           h == SubSeq(l, i + 1, Len(l)) \o SubSeq(l, 1, i)
           e == NextFirst(q, s, t)
<1>1. q.list \in [Prios -> Seq(Threads)] /\ q.max \in -1..MaxPrio /\ q.ready \subseteq Threads
  BY DEF Queue
<1>2. CASE t \notin q.ready
  BY <1>2 DEF NextFirst
<1>3. CASE t \in q.ready
  <2>1. p \in Prios /\ l \in Seq(Threads) /\ Distinct(l) /\ InList(l, t)
    BY <1>1, <1>3, PrioType DEF Exact
  <2>2. i \in 1..Len(l)
    BY <2>1 DEF InList
  <2>3. e = [list |-> [q.list EXCEPT ![p] = h], max |-> q.max, ready |-> q.ready]
    BY <1>1, <1>3 DEF NextFirst, Queue
  <2> HIDE DEF i, l
  <2>4. h \in Seq(Threads) /\ Distinct(h) /\ \A u : InList(h, u) <=> InList(l, u)
    BY <2>1, <2>2, TurnedMembers
  <2> HIDE DEF e, h
  <2>5. e \in Queue /\ e.ready = q.ready /\ e.max = q.max
    BY <1>1, <2>3, <2>4 DEF Queue
  <2>6. \A r \in Prios : /\ Distinct(e.list[r])
                         /\ \A u : InList(e.list[r], u) <=> InList(q.list[r], u)
    BY <1>1, <2>1, <2>3, <2>4 DEF Exact, l
  <2>7. \A u \in q.ready : s[u].prio \in Prios
    BY <1>1, PrioType
  <2>8. Exact(e, s)
    BY <2>5, <2>6, <2>7 DEF Exact
  <2> QED
    BY <2>5, <2>8 DEF e
<1> QED
  BY <1>2, <1>3

\* find_next_thread finds a thread of the highest priority among those that are
\* queued and can run, and dequeues only threads that cannot.
LEMMA FindNextExact ==
    ASSUME NEW q \in Queue, NEW s \in Ktcbs, Exact(q, s), NEW run \in SUBSET Threads
    PROVE  LET next == FindNext(q, run)
           IN  /\ next.queue \in Queue /\ Exact(next.queue, s)
               /\ next.queue.ready \subseteq q.ready /\ q.ready \cap run \subseteq next.queue.ready
               /\ q.ready \cap run = {} => next.tcb = idle /\ next.queue.ready = {}
               /\ q.ready \cap run # {} => next.tcb \in q.ready \cap run
               /\ \A t \in q.ready \cap run : s[t].prio <= s[next.tcb].prio
<1> DEFINE found == {p \in Prios : p <= q.max /\ \E i \in 1..Len(q.list[p]) : q.list[p][i] \in run}
           top == CHOOSE p \in found : \A r \in found : r <= p
           l == q.list[top]
           first == CHOOSE i \in 1..Len(l) : l[i] \in run /\ \A j \in 1..(i - 1) : l[j] \notin run
           list == [p \in Prios |->
                       IF p > q.max \/ (found # {} /\ p < top) THEN q.list[p]
                       ELSE IF found # {} /\ p = top THEN SubSeq(l, first, Len(l))
                       ELSE <<>>]
           next == FindNext(q, run)
           e == next.queue
<1>1. /\ q.list \in [Prios -> Seq(Threads)] /\ q.max \in -1..MaxPrio /\ q.ready \subseteq Threads
      /\ \A p \in Prios : q.list[p] \in Seq(Threads) /\ Distinct(q.list[p])
      /\ \A p \in Prios : p > q.max => \A t : ~InList(q.list[p], t)
  <2>1. ASSUME NEW p \in Prios, p > q.max, NEW t PROVE ~InList(q.list[p], t)
    <3>1. p \in Int /\ q.max \in Int
      BY NumberAssumption DEF Prios, Queue
    <3>2. ~(p <= q.max)
      BY <2>1, <3>1
    <3> QED
      BY <3>2 DEF Exact
  <2> QED
    BY <2>1 DEF Queue, Exact
<1>2. /\ next.tcb = IF found = {} THEN idle ELSE l[first]
      /\ e = [list |-> list, max |-> IF found = {} THEN -1 ELSE top,
              ready |-> {t \in q.ready : \E p \in Prios : InList(list[p], t)}]
  BY DEF FindNext
<1> HIDE DEF next
<1>3. /\ e.list = list /\ e.max = IF found = {} THEN -1 ELSE top
      /\ e.ready = {t \in q.ready : \E p \in Prios : InList(list[p], t)}
  <2> HIDE DEF list, found, top, e
  <2> QED
    BY <1>2
<1>4. ASSUME NEW t \in q.ready \cap run
      PROVE  s[t].prio \in found /\ s[t].prio \in Prios /\ InList(q.list[s[t].prio], t)
  <2>1. t \in Threads /\ s[t].prio \in Prios
    BY <1>1, PrioType
  <2>2. InList(q.list[s[t].prio], t) /\ s[t].prio <= q.max
    BY <2>1 DEF Exact
  <2> QED
    BY <2>1, <2>2 DEF InList
<1> HIDE DEF e
<1>5. CASE found = {}
  <2>1. q.ready \cap run = {}
    BY <1>4, <1>5
  <2>2. ASSUME NEW p \in Prios PROVE list[p] \in Seq(Threads) /\ \A t : ~InList(list[p], t)
    <3>1. list[p] = IF p > q.max THEN q.list[p] ELSE <<>>
      BY <1>5
    <3>2. <<>> \in Seq(Threads) /\ \A t : ~InList(<<>>, t)
      BY EmptyList
    <3> HIDE DEF list, found
    <3> QED
      BY <1>1, <3>1, <3>2
  <2>3. e.ready = {} /\ e.list \in [Prios -> Seq(Threads)] /\ e.max = -1
    <3>1. list = [p \in Prios |-> list[p]]
      OBVIOUS
    <3> HIDE DEF list, found
    <3> QED
      BY <1>3, <1>5, <2>2, <3>1
  <2> HIDE DEF list, found, top
  <2>4. e \in Queue
    BY <1>2, <1>3, <2>3, NumberAssumption DEF Queue
  <2>5. \A p \in Prios : Distinct(list[p])
    BY <2>2 DEF Distinct, InList
  <2>6. Exact(e, s)
    BY <1>3, <2>2, <2>3, <2>5 DEF Exact
  <2> QED
    BY <1>2, <1>5, <2>1, <2>3, <2>4, <2>6 DEF next, e
<1>6. CASE found # {}
  <2>1. top \in found /\ \A r \in found : r <= top
    <3>1. found \in SUBSET Nat /\ MaxPrio \in Nat /\ \A p \in found : p <= MaxPrio
      BY NumberAssumption DEF Prios
    <3>2. \E p \in found : \A r \in found : r <= p
      <4> HIDE DEF found
      <4> QED
        BY <1>6, <3>1, GreatestIndex
    <3> HIDE DEF found
    <3> QED
      BY <3>2
  <2>2. top \in Prios /\ top <= q.max /\ l \in Seq(Threads) /\ Distinct(l)
        /\ \E i \in 1..Len(l) : l[i] \in run
    BY <1>1, <2>1
  <2> HIDE DEF found
  <2> HIDE DEF top
  <2>3. first \in 1..Len(l) /\ l[first] \in run /\ \A j \in 1..(first - 1) : l[j] \notin run
    <3>1. PICK i \in 1..Len(l) : l[i] \in run
      BY <2>2
    <3>2. InList(l, l[i])
      BY DEF InList
    <3>3. \E u \in run : \E k \in 1..Len(l) : l[k] = u /\ \A j \in 1..(k - 1) : l[j] \notin run
      BY <2>2, <3>1, <3>2, FirstMember
    <3> QED
      BY <3>3
  <2> HIDE DEF first
  <2> DEFINE rest == SubSeq(l, first, Len(l))
  <2>4. Len(l) \in Nat /\ first \in 1..(Len(l) + 1) /\ Len(l) \in 0..Len(l) /\ first <= Len(l) + 1
    BY <2>2, <2>3
  <2>5. /\ rest \in Seq(Threads) /\ Distinct(rest)
        /\ \A u : InList(rest, u) <=> \E i \in first..Len(l) : l[i] = u
    BY <2>2, <2>4, SubSeqMembers
  <2>6. \A u : InList(rest, u) => InList(l, u)
    BY <2>3, <2>5 DEF InList
  <2>7. ASSUME NEW u \in run, InList(l, u) PROVE InList(rest, u)
    <3>1. PICK i \in 1..Len(l) : l[i] = u
      BY <2>7 DEF InList
    <3>2. i \notin 1..(first - 1)
      BY <2>3, <2>7, <3>1
    <3>3. i \in first..Len(l)
      BY <2>3, <3>1, <3>2
    <3> QED
      BY <2>5, <3>1, <3>3
  <2>8. InList(l, l[first]) /\ InList(rest, l[first])
    <3>1. InList(l, l[first])
      BY <2>3 DEF InList
    <3> QED
      BY <2>3, <2>7, <3>1
  <2> HIDE DEF rest
  <2>9. /\ list \in [Prios -> Seq(Threads)]
        /\ list[top] = rest
        /\ \A p \in Prios : p < top => list[p] = q.list[p]
        /\ \A p \in Prios : p > top => \A t : ~InList(list[p], t)
        /\ \A p \in Prios : Distinct(list[p]) /\ \A t : InList(list[p], t) => InList(q.list[p], t)
    <3>1. \A p \in Prios : p > q.max => q.list[p] \in Seq(Threads) /\ p > top
      BY <1>1, <2>2, NumberAssumption DEF Prios
    <3>2. list[top] = rest
      <4>1. ~(top > q.max) /\ ~(top < top)
        BY <1>1, <2>2, NumberAssumption DEF Prios
      <4> QED
        BY <1>6, <2>2, <4>1 DEF rest
    <3>3. \A p \in Prios : p < top => list[p] = q.list[p]
      BY <1>6
    <3>4. \A p \in Prios : p > top => (list[p] = q.list[p] /\ p > q.max) \/ list[p] = <<>>
      BY <1>6, <2>2, NumberAssumption DEF Prios
    <3>5. <<>> \in Seq(Threads) /\ Distinct(<<>>) /\ \A t : ~InList(<<>>, t)
      BY EmptyList DEF Distinct
    <3>6. ASSUME NEW p \in Prios PROVE p < top \/ p = top \/ p > top
      BY <2>2, NumberAssumption DEF Prios
    <3>7. list = [p \in Prios |-> list[p]]
      OBVIOUS
    <3> HIDE DEF list
    <3>8. ASSUME NEW p \in Prios
          PROVE  /\ list[p] \in Seq(Threads) /\ Distinct(list[p])
                 /\ \A t : InList(list[p], t) => InList(q.list[p], t)
                 /\ p > top => \A t : ~InList(list[p], t)
      <4>1. CASE p < top
        <5>1. ~(p > top)
          BY <2>2, <4>1, NumberAssumption DEF Prios
        <5> QED
          BY <1>1, <3>3, <4>1, <5>1
      <4>2. CASE p = top
        <5>1. ~(p > top)
          BY <2>2, <4>2, NumberAssumption DEF Prios
        <5> QED
          BY <2>5, <2>6, <3>2, <4>2, <5>1
      <4>3. CASE p > top
        BY <1>1, <3>4, <3>5, <4>3
      <4> QED
        BY <3>6, <4>1, <4>2, <4>3
    <3> QED
      BY <3>2, <3>3, <3>7, <3>8
  <2> HIDE DEF list
  <2>10. e.max = top /\ e.list = list /\ top \in -1..MaxPrio
    BY <1>3, <1>6, <2>2, NumberAssumption DEF Prios
  <2>11. e \in Queue
    BY <1>1, <1>2, <1>3, <2>9, <2>10 DEF Queue
  <2>12. ASSUME NEW p \in Prios, NEW t, InList(list[p], t)
         PROVE  t \in q.ready /\ s[t].prio = p /\ t \in e.ready /\ p <= e.max
    <3>1. t \in q.ready /\ s[t].prio = p
      BY <2>9, <2>12 DEF Exact
    <3>2. ~(p > top)
      BY <2>9, <2>12
    <3> QED
      BY <1>3, <2>2, <2>10, <2>12, <3>1, <3>2, NumberAssumption DEF Prios
  <2>13. ASSUME NEW t \in e.ready PROVE InList(list[s[t].prio], t)
    <3>1. PICK p \in Prios : InList(list[p], t)
      BY <1>3
    <3> QED
      BY <2>12, <3>1
  <2>14. Exact(e, s)
    BY <2>9, <2>10, <2>12, <2>13 DEF Exact
  <2>15. ASSUME NEW t \in q.ready \cap run
         PROVE  t \in e.ready /\ s[t].prio <= top
    <3>1. s[t].prio \in found /\ s[t].prio \in Prios /\ InList(q.list[s[t].prio], t)
      BY <1>4
    <3>2. s[t].prio <= top
      BY <2>1, <3>1
    <3>3. CASE s[t].prio = top
      <4>1. InList(list[top], t)
        BY <2>7, <2>9, <3>1, <3>3
      <4> QED
        BY <1>3, <2>2, <3>2, <4>1
    <3>4. CASE s[t].prio < top
      <4>1. InList(list[s[t].prio], t)
        BY <2>9, <3>1, <3>4
      <4> QED
        BY <1>3, <3>1, <3>2, <4>1
    <3> QED
      BY <2>2, <3>1, <3>2, <3>3, <3>4, NumberAssumption DEF Prios
  <2>16. next.tcb = l[first] /\ l[first] \in run /\ l[first] \in q.ready /\ s[l[first]].prio = top
    BY <1>2, <1>6, <2>2, <2>3, <2>8 DEF Exact
  <2> QED
    BY <1>3, <2>11, <2>14, <2>15, <2>16 DEF next, e
<1> QED
  BY <1>5, <1>6

-----------------------------------------------------------------------------
(* Timeouts                                                                 *)

\* parse_wakeup_queues wakes every thread once.
LEMMA WokenMembers ==
    ASSUME TypeOK, TimeoutArmed, NEW due
    PROVE  /\ Woken(due) \in Seq(Threads) /\ Distinct(Woken(due))
           /\ \A t : InList(Woken(due), t) <=>
                  InList(wakeup_list, t) /\ t \in due /\ state[t] # "waiting_forever"
<1>1. wakeup_list \in Seq(Threads) /\ Distinct(wakeup_list)
  BY DEF TypeOK, TimeoutArmed, Distinct
<1> DEFINE M == {t \in due : state[t] # "waiting_forever"}
<1>2. Woken(due) = Among(wakeup_list, M)
  BY DEF Woken
<1>3. /\ Among(wakeup_list, M) \in Seq(Threads) /\ Distinct(Among(wakeup_list, M))
      /\ \A t : InList(Among(wakeup_list, M), t) <=> InList(wakeup_list, t) /\ t \in M
  BY <1>1, AmongMembers
<1> QED
  BY <1>2, <1>3

\* Who is in a list of threads is a thread.
LEMMA ListedType ==
    ASSUME NEW S, NEW q \in Seq(S), NEW t, InList(q, t)
    PROVE  t \in S
BY DEF InList

\* The woken threads are put into their queues.
LEMMA QueuesAfterExact ==
    ASSUME TypeOK, QueuesExact, TimeoutArmed, NEW due
    PROVE  /\ QueuesAfter(due) \in Queue /\ Exact(QueuesAfter(due), sched)
           /\ QueuesAfter(due).ready = rq.ready \cup {t \in Threads : InList(Woken(due), t)}
<1> DEFINE new(p) == Among(Woken(due), {t \in Threads \ rq.ready : sched[t].prio = p})
           ps == {rq.max} \cup {p \in Prios : new(p) # <<>>}
           max == CHOOSE m \in ps : \A p \in ps : p <= m
           e == QueuesAfter(due)
<1>1. rq \in Queue /\ Exact(rq, sched) /\ sched \in Ktcbs
  BY ExactIs DEF TypeOK, Queue, Ktcbs
<1>2. /\ rq.list \in [Prios -> Seq(Threads)] /\ rq.max \in -1..MaxPrio /\ rq.ready \subseteq Threads
      /\ \A p \in Prios : rq.list[p] \in Seq(Threads) /\ Distinct(rq.list[p])
  BY <1>1 DEF Queue, Exact
<1>3. /\ e = [list |-> [p \in Prios |-> rq.list[p] \o new(p)], max |-> max,
              ready |-> rq.ready \cup {t \in Threads : InList(Woken(due), t)}]
  BY DEF QueuesAfter
<1> HIDE DEF e
<1>4. /\ e.list = [p \in Prios |-> rq.list[p] \o new(p)] /\ e.max = max
      /\ e.ready = rq.ready \cup {t \in Threads : InList(Woken(due), t)}
  <2> HIDE DEF new, max
  <2> QED
    BY <1>3
<1>5. ASSUME NEW p \in Prios
      PROVE  /\ new(p) \in Seq(Threads) /\ Distinct(new(p))
             /\ \A t : InList(new(p), t) <=>
                    InList(Woken(due), t) /\ t \in Threads \ rq.ready /\ sched[t].prio = p
  <2> DEFINE M == {t \in Threads \ rq.ready : sched[t].prio = p}
  <2>1. Woken(due) \in Seq(Threads) /\ Distinct(Woken(due))
    BY WokenMembers
  <2>2. /\ Among(Woken(due), M) \in Seq(Threads) /\ Distinct(Among(Woken(due), M))
        /\ \A t : InList(Among(Woken(due), M), t) <=> InList(Woken(due), t) /\ t \in M
    BY <2>1, AmongMembers
  <2> QED
    BY <2>2
<1> HIDE DEF new
<1>6. ASSUME NEW p \in Prios
      PROVE  /\ rq.list[p] \o new(p) \in Seq(Threads) /\ Distinct(rq.list[p] \o new(p))
             /\ \A t : InList(rq.list[p] \o new(p), t) <=> InList(rq.list[p], t) \/ InList(new(p), t)
  <2>1. \A t : ~(InList(rq.list[p], t) /\ InList(new(p), t))
    BY <1>1, <1>5 DEF Exact
  <2> QED
    BY <1>2, <1>5, <2>1, ConcatMembers
<1>7. max \in ps /\ \A p \in ps : p <= max
  <2>1. \E m \in ps : \A p \in ps : p <= m
    <3>1. CASE ps \cap Nat = {}
      <4>1. ps = {rq.max} /\ rq.max \in Int
        BY <1>2, <3>1, NumberAssumption DEF Prios
      <4> QED
        BY <4>1
    <3>2. CASE ps \cap Nat # {}
      <4>1. ps \subseteq -1..MaxPrio /\ MaxPrio \in Nat
        BY <1>2, NumberAssumption DEF Prios
      <4> HIDE DEF ps
      <4>2. \A p \in ps \cap Nat : p <= MaxPrio
        BY <4>1
      <4>3. PICK m \in ps \cap Nat : \A p \in ps \cap Nat : p <= m
        BY <3>2, <4>1, <4>2, GreatestIndex
      <4>4. \A p \in ps : p \in Nat \/ p = -1
        BY <4>1
      <4>5. \A p \in ps : p <= m
        BY <4>3, <4>4
      <4> QED
        BY <4>3, <4>5
    <3> QED
      BY <3>1, <3>2
  <2> HIDE DEF ps
  <2> QED
    BY <2>1
<1>8. max \in -1..MaxPrio /\ rq.max <= max /\ \A p \in Prios : new(p) # <<>> => p <= max
  <2>1. ps \subseteq -1..MaxPrio /\ rq.max \in ps /\ \A p \in Prios : new(p) # <<>> => p \in ps
    BY <1>2, NumberAssumption DEF Prios
  <2> HIDE DEF ps, max
  <2> QED
    BY <1>7, <2>1
<1> HIDE DEF max
<1>9. e \in Queue
  BY <1>2, <1>3, <1>6, <1>8 DEF Queue
<1>10. ASSUME NEW p \in Prios, NEW t, InList(e.list[p], t)
       PROVE  t \in e.ready /\ sched[t].prio = p /\ p <= e.max
  <2>1. CASE InList(rq.list[p], t)
    <3>1. t \in rq.ready /\ sched[t].prio = p /\ p <= rq.max
      BY <1>1, <2>1 DEF Exact
    <3>2. p <= max
      BY <1>2, <1>8, <3>1, NumberAssumption DEF Prios
    <3> QED
      BY <1>4, <3>1, <3>2
  <2>2. CASE InList(new(p), t)
    <3>1. new(p) # <<>>
      BY <2>2, EmptyList
    <3> QED
      BY <1>4, <1>5, <1>8, <2>2, <3>1
  <2> QED
    BY <1>4, <1>6, <1>10, <2>1, <2>2
<1>11. ASSUME NEW t \in e.ready PROVE InList(e.list[sched[t].prio], t)
  <2>1. t \in Threads /\ sched[t].prio \in Prios
    BY <1>1, <1>2, <1>4, PrioType
  <2>2. CASE t \in rq.ready
    <3>1. InList(rq.list[sched[t].prio], t)
      BY <1>1, <2>2 DEF Exact
    <3> QED
      BY <1>4, <1>6, <2>1, <3>1
  <2>3. CASE t \notin rq.ready
    <3>1. InList(Woken(due), t)
      BY <1>4, <2>3
    <3>2. InList(new(sched[t].prio), t)
      BY <1>5, <2>1, <2>3, <3>1
    <3> QED
      BY <1>4, <1>6, <2>1, <3>2
  <2> QED
    BY <2>2, <2>3
<1>12. Exact(e, sched)
  <2>1. \A p \in Prios : Distinct(e.list[p])
    BY <1>4, <1>6
  <2> QED
    BY <1>10, <1>11, <2>1 DEF Exact
<1> QED
  BY <1>4, <1>9, <1>12 DEF e

\* The search of parse_wakeup_queues for the highest of the threads w, from
\* `owner' on.
Highest(f, owner, w) ==
    /\ f[0] = owner
    /\ \A i \in 1..Len(w) : f[i] = IF CheckDispatch(f[i - 1], w[i]) THEN w[i] ELSE f[i - 1]
WakeupOwner == IF CheckDispatch(current, timeslice_tcb) THEN timeslice_tcb ELSE current

\* HighestWakeup is such a search.
LEMMA HighestSteps ==
    ASSUME TypeOK, TimeoutArmed, timeslice_tcb \in Tcbs, NEW due
    PROVE  \E f \in [0..Len(Woken(due)) -> Tcbs] :
               /\ Highest(f, WakeupOwner, Woken(due))
               /\ HighestWakeup(due) = IF f[Len(Woken(due))] = timeslice_tcb
                                       THEN current ELSE f[Len(Woken(due))]
<1> DEFINE w == Woken(due)
           N == Len(w)
           owner == WakeupOwner
           step(f) == [i \in 0..N |->
                          IF i = 0 THEN owner
                          ELSE IF CheckDispatch(f[i - 1], w[i]) THEN w[i] ELSE f[i - 1]]
           g == CHOOSE f : f = step(f)
           h == [i \in 1..N |-> [t \in Tcbs |-> IF CheckDispatch(t, w[i]) THEN w[i] ELSE t]]
<1>1. w \in Seq(Threads) /\ N \in Nat /\ owner \in Tcbs /\ \A i \in 1..N : w[i] \in Tcbs
  BY WokenMembers DEF WakeupOwner, TypeOK, Tcbs
<1>2. HighestWakeup(due) = IF g[N] = timeslice_tcb THEN current ELSE g[N]
  BY DEF HighestWakeup, WakeupOwner
<1>3. h \in [1..N -> [Tcbs -> Tcbs]]
  BY <1>1
<1> HIDE DEF g, w, N, owner
<1>4. PICK f \in [0..N -> Tcbs] : f[0] = owner /\ \A i \in 1..N : f[i] = h[i][f[i - 1]]
  <2> HIDE DEF h
  <2>1. N \in Nat /\ owner \in Tcbs /\ h \in [1..N -> [Tcbs -> Tcbs]]
    BY <1>1, <1>3
  <2>2. \E f \in [0..N -> Tcbs] : Computes(f, N, owner, h)
    BY <2>1, Recursion
  <2> QED
    BY <2>2 DEF Computes
<1>5. ASSUME NEW i \in 1..N
      PROVE  f[i] = IF CheckDispatch(f[i - 1], w[i]) THEN w[i] ELSE f[i - 1]
  <2>1. i - 1 \in 0..N /\ f[i - 1] \in Tcbs
    BY <1>1
  <2> QED
    BY <1>4, <2>1
<1> HIDE DEF h
<1>6. f = step(f)
  <2>1. f = [i \in 0..N |-> f[i]]
    BY <1>4
  <2>2. ASSUME NEW i \in 0..N PROVE f[i] = step(f)[i]
    <3>1. CASE i = 0
      BY <1>4, <3>1
    <3>2. CASE i # 0
      <4>1. i \in 1..N
        BY <1>1, <3>2
      <4> QED
        BY <1>5, <3>2, <4>1
    <3> QED
      BY <3>1, <3>2
  <2> QED
    BY <2>1, <2>2
<1>7. g = step(g)
  <2>1. g = CHOOSE v : v = step(v)
    BY DEF g
  <2> HIDE DEF step
  <2> QED
    BY <1>6, <2>1
<1>8. \A i \in 0..N : g[i] = step(g)[i]
  BY <1>7
<1>9. g[0] = owner /\ \A i \in 1..N : g[i] = IF CheckDispatch(g[i - 1], w[i]) THEN w[i] ELSE g[i - 1]
  <2>1. 0 \in 0..N /\ \A i \in 1..N : i \in 0..N /\ i # 0
    BY <1>1
  <2> QED
    BY <1>8, <2>1
<1>10. \A i \in 0..N : g[i] \in Tcbs
  <2> DEFINE T == {i \in Nat : i <= N => g[i] \in Tcbs}
  <2>1. 0 \in T
    BY <1>1, <1>9
  <2>2. ASSUME NEW i \in Nat, i \in T PROVE i + 1 \in T
    <3>1. CASE i + 1 <= N
      <4>1. i + 1 \in 1..N /\ (i + 1) - 1 = i /\ i <= N
        BY <1>1, <3>1
      <4>2. g[i + 1] = w[i + 1] \/ g[i + 1] = g[i]
        BY <1>9, <4>1
      <4> QED
        BY <1>1, <2>2, <4>1, <4>2
    <3>2. CASE ~(i + 1 <= N)
      BY <3>2
    <3> QED
      BY <3>1, <3>2
  <2>3. \A i \in Nat : i \in T
    <3> HIDE DEF T
    <3> QED
      BY <2>1, <2>2, Induction
  <2> QED
    BY <1>1, <2>3
<1>11. g \in [0..N -> Tcbs]
  BY <1>7, <1>10
<1>12. Highest(g, owner, w)
  BY <1>9 DEF Highest, N
<1> QED
  BY <1>2, <1>11, <1>12 DEF N, w, owner

\* The thread to run after a tick is the current one or has been woken.
LEMMA HighestWakes ==
    ASSUME TypeOK, TimeoutArmed, timeslice_tcb \in Tcbs, NEW due
    PROVE  HighestWakeup(due) = current \/ InList(Woken(due), HighestWakeup(due))
<1> DEFINE w == Woken(due)
           N == Len(w)
<1>1. w \in Seq(Threads) /\ N \in Nat
  BY WokenMembers
<1>2. PICK f \in [0..N -> Tcbs] : /\ Highest(f, WakeupOwner, w)
                                  /\ HighestWakeup(due) = IF f[N] = timeslice_tcb
                                                          THEN current ELSE f[N]
  BY HighestSteps
<1> HIDE DEF w
<1> DEFINE Known(t) == t \in {current, timeslice_tcb} \/ InList(w, t)
           T == {i \in Nat : i <= N => Known(f[i])}
<1>3. 0 \in T
  BY <1>2 DEF Highest, WakeupOwner
<1>4. ASSUME NEW i \in Nat, i \in T PROVE i + 1 \in T
  <2>1. CASE i + 1 <= N
    <3>1. i + 1 \in 1..N /\ (i + 1) - 1 = i /\ i <= N
      BY <1>1, <2>1
    <3>2. f[i + 1] = w[i + 1] \/ f[i + 1] = f[i]
      BY <1>2, <3>1 DEF Highest
    <3>3. InList(w, w[i + 1])
      BY <3>1 DEF InList
    <3> QED
      BY <1>4, <3>1, <3>2, <3>3
  <2>2. CASE ~(i + 1 <= N)
    BY <2>2
  <2> QED
    BY <2>1, <2>2
<1>5. \A i \in Nat : i \in T
  <2> HIDE DEF T
  <2> QED
    BY <1>3, <1>4, Induction
<1>6. Known(f[N])
  BY <1>1, <1>5
<1> QED
  BY <1>2, <1>6 DEF w

-----------------------------------------------------------------------------
(* The operations that choose the next thread                               *)

\* schedule() keeps the thread it switches away from ready.
LEMMA CurrentQueuedExact ==
    ASSUME TypeOK, NEW q \in Queue, NEW s \in Ktcbs, Exact(q, s)
    PROVE  /\ CurrentQueued(q, s) \in Queue /\ Exact(CurrentQueued(q, s), s)
           /\ CurrentQueued(q, s).ready = q.ready \cup ({current} \ {idle})
<1>1. CASE current = idle
  BY <1>1 DEF CurrentQueued
<1>2. CASE current # idle
  <2>1. current \in Threads
    BY <1>2 DEF TypeOK, Tcbs
  <2>2. CurrentQueued(q, s) = Enqueue(q, s, current)
    BY <1>2 DEF CurrentQueued
  <2> QED
    BY <1>2, <2>1, <2>2, EnqueueExact
<1> QED
  BY <1>1, <1>2

\* schedule(): what it leaves in the queues, and what it dispatches.
LEMMA ScheduleExact ==
    ASSUME TypeOK, NEW q \in Queue, NEW s \in Ktcbs, Exact(q, s),
           NEW st \in [Threads -> States], Schedule(q, s, st)
    PROVE  /\ rq' \in Queue /\ Exact(rq', s)
           /\ current' \in Tcbs /\ timeslice_tcb' = current'
           /\ current' # idle => current' \in q.ready /\ st[current'] = "running"
           /\ \A t \in q.ready : st[t] = "running" =>
                  t \in rq'.ready /\ current' # idle /\ s[t].prio <= s[current'].prio
           /\ current \in {current', idle} \cup rq'.ready
           /\ D!Schedule(q.ready, Runnable(st))
<1> DEFINE run == Runnable(st)
           next == FindNext(q, run)
           e == next.queue
<1>1. /\ timeslice_tcb' = next.tcb /\ current' = next.tcb
      /\ rq' = IF next.tcb = current THEN e ELSE CurrentQueued(e, s)
  BY DEF Schedule
<1>2. run \in SUBSET Threads /\ \A t \in Threads : t \in run <=> st[t] = "running"
  BY DEF Runnable
<1> HIDE DEF run
<1>3. /\ e \in Queue /\ Exact(e, s)
      /\ e.ready \subseteq q.ready /\ q.ready \cap run \subseteq e.ready
      /\ q.ready \cap run = {} => next.tcb = idle /\ e.ready = {}
      /\ q.ready \cap run # {} => next.tcb \in q.ready \cap run
      /\ \A t \in q.ready \cap run : s[t].prio <= s[next.tcb].prio
  BY <1>2, FindNextExact
<1> HIDE DEF next, e
<1>4. q.ready \subseteq Threads /\ idle \notin Threads /\ current \in Tcbs
  BY ThreadAssumption DEF Queue, TypeOK
<1>5. /\ CurrentQueued(e, s) \in Queue /\ Exact(CurrentQueued(e, s), s)
      /\ CurrentQueued(e, s).ready = e.ready \cup ({current} \ {idle})
  BY <1>3, CurrentQueuedExact
<1>6. rq' \in Queue /\ Exact(rq', s) /\ rq'.ready = e.ready \cup ({current} \ {next.tcb, idle})
  BY <1>1, <1>3, <1>5
<1>7. /\ current' \in Tcbs /\ timeslice_tcb' = current'
      /\ current' # idle => current' \in q.ready /\ st[current'] = "running"
  BY <1>1, <1>2, <1>3, <1>4 DEF Tcbs
<1>8. ASSUME NEW t \in q.ready, st[t] = "running"
      PROVE  t \in rq'.ready /\ current' # idle /\ s[t].prio <= s[current'].prio
  <2>1. t \in q.ready \cap run
    BY <1>2, <1>4, <1>8
  <2> QED
    BY <1>1, <1>3, <1>4, <1>6, <2>1
<1>9. D!Schedule(q.ready, run)
  <2>1. [tcb |-> next.tcb, ready |-> e.ready] \in D!FindNext(q.ready, run)
    <3>1. CASE q.ready \cap run = {}
      BY <1>3, <3>1 DEF D!FindNext
    <3>2. CASE q.ready \cap run # {}
      <4>1. next.tcb \in q.ready \cap run /\ e.ready \in SUBSET q.ready
        BY <1>3, <3>2
      <4> QED
        BY <1>3, <3>2, <4>1 DEF D!FindNext
    <3> QED
      BY <3>1, <3>2
  <2> QED
    BY <1>1, <1>6, <2>1 DEF D!Schedule
<1>10. current \in {current', idle} \cup rq'.ready
  BY <1>1, <1>6
<1> QED
  BY <1>6, <1>7, <1>8, <1>9, <1>10 DEF run

\* schedule(dest): dest runs, and the thread that ran becomes ready.
LEMMA SwitchToExact ==
    ASSUME TypeOK, NEW q \in Queue, Exact(q, sched), NEW dest \in Tcbs, SwitchTo(q, dest)
    PROVE  /\ rq' \in Queue /\ Exact(rq', sched)
           /\ current' = dest /\ timeslice_tcb' = dest
           /\ rq'.ready = q.ready \cup ({current} \ {idle})
<1>1. sched \in Ktcbs /\ current \in Tcbs
  BY DEF TypeOK, Ktcbs
<1>2. CASE current = idle
  BY <1>2 DEF SwitchTo
<1>3. CASE current # idle
  <2>1. current \in Threads /\ rq' = EnqueueFirst(q, sched, current)
    BY <1>1, <1>3 DEF SwitchTo, Tcbs
  <2> QED
    BY <1>1, <1>3, <2>1, EnqueueFirstExact DEF SwitchTo
<1> QED
  BY <1>2, <1>3

\* The queues of the invariant.
LEMMA Queues ==
    ASSUME Inv
    PROVE  rq \in Queue /\ Exact(rq, sched) /\ sched \in Ktcbs
BY ExactIs DEF Inv, TypeOK, Queue, Ktcbs

\* schedule(dest) with sched_chk: one of the two runs, the other is ready.
LEMMA ScheduleCheckExact ==
    ASSUME Inv, NEW dest \in Threads, ScheduleCheck(dest)
    PROVE  /\ rq' \in Queue /\ Exact(rq', sched)
           /\ \/ current' = dest /\ timeslice_tcb' = dest
                 /\ rq'.ready = rq.ready \cup ({current} \ {idle})
              \/ /\ UNCHANGED <<current, timeslice_tcb>>
                 /\ rq'.ready = rq.ready \cup {dest}
<1>1. TypeOK /\ rq \in Queue /\ Exact(rq, sched) /\ sched \in Ktcbs /\ dest \in Tcbs
  BY Queues DEF Inv, Tcbs
<1>2. CASE SwitchTo(rq, dest)
  BY <1>1, <1>2, SwitchToExact
<1>3. CASE rq' = Enqueue(rq, sched, dest) /\ UNCHANGED <<current, timeslice_tcb>>
  BY <1>1, <1>3, EnqueueExact
<1> QED
  BY <1>2, <1>3 DEF ScheduleCheck

\* A timeout that is cancelled leaves the others armed.
LEMMA CancelArmed ==
    ASSUME TypeOK, TimeoutArmed, NEW t
    PROVE  /\ CancelTimeout(t) \in Seq(Threads) /\ Distinct(CancelTimeout(t))
           /\ \A u : InList(CancelTimeout(t), u) <=> InList(wakeup_list, u) /\ u # t
<1>1. wakeup_list \in Seq(Threads) /\ Distinct(wakeup_list)
  BY DEF TypeOK, TimeoutArmed, Distinct
<1> QED
  BY <1>1, WithoutType, WithoutMembers DEF CancelTimeout

\* The invariant, put together from what an action did.
LEMMA Together ==
    ASSUME /\ state' \in [Threads -> States] /\ sched' \in Ktcbs
           /\ delayed' \subseteq Threads /\ pending' \subseteq Threads,
           rq' \in Queue /\ Exact(rq', sched'),
           timeslice_tcb' \in Tcbs \/ (panic' /\ timeslice_tcb' = null),
           current' \in Tcbs, panic' \in BOOLEAN,
           current' # idle => state'[current'] = "running",
           wakeup_list' \in Seq(Threads) /\ Distinct(wakeup_list'),
           \A t \in Threads : state'[t] = "waiting_timeout" => InList(wakeup_list', t)
    PROVE  Inv'
<1>1. TypeOK'
  BY DEF TypeOK, Queue, Ktcbs
<1>2. QueuesExact'
  <2>1. (QueuesExact <=> Exact(rq, sched))'
    BY ExactIs, PTL
  <2> QED
    BY <2>1
<1>3. TimeoutArmed'
  BY DEF TimeoutArmed, Distinct
<1>4. OwnerKnown' /\ CurrentRuns'
  BY DEF OwnerKnown, CurrentRuns
<1> QED
  BY <1>1, <1>2, <1>3, <1>4 DEF Inv

-----------------------------------------------------------------------------
(* The invariant, action by action                                          *)

\* What the invariant says before an action of a running thread.
LEMMA Before ==
    ASSUME Inv, ~panic
    PROVE  /\ TypeOK /\ rq \in Queue /\ Exact(rq, sched) /\ sched \in Ktcbs
           /\ timeslice_tcb \in Tcbs /\ current \in Tcbs /\ state \in [Threads -> States]
           /\ delayed \subseteq Threads /\ pending \subseteq Threads
           /\ idle \notin Threads
           /\ current \in Threads => state[current] = "running"
           /\ wakeup_list \in Seq(Threads) /\ Distinct(wakeup_list) /\ TimeoutArmed
           /\ \A t \in Threads : state[t] = "waiting_timeout" => InList(wakeup_list, t)
<1>1. idle \notin Threads
  BY ThreadAssumption
<1>2. rq \in Queue /\ Exact(rq, sched) /\ sched \in Ktcbs
  BY Queues
<1> QED
  BY <1>1, <1>2 DEF Inv, TypeOK, OwnerKnown, CurrentRuns, TimeoutArmed, Distinct

\* Once the kernel has stopped it has, and nothing else stops it here.
LEMMA PanicType ==
    ASSUME Inv, panic' = panic
    PROVE  panic' \in BOOLEAN
<1>1. panic \in BOOLEAN
  BY DEF Inv, TypeOK
<1> QED
  BY <1>1, Zenon

\* A message without a reply.
LEMMA InvSend ==
    ASSUME Inv, NEW t \in Threads, NEW to \in Threads, Send(t, to)
    PROVE  Inv'
<1>1. /\ ~panic /\ current = t /\ to \in Threads /\ state[to] # "running"
      /\ state' = [state EXCEPT ![to] = "running"]
      /\ ScheduleCheck(to)
      /\ wakeup_list' = IF current' = to THEN wakeup_list ELSE CancelTimeout(to)
      /\ UNCHANGED <<sched, delayed, pending>> /\ panic' = panic
  BY DEF Send, User, Waiting, flags
<1>2. /\ rq' \in Queue /\ Exact(rq', sched)
      /\ current' \in {to, current} /\ timeslice_tcb' \in {to, timeslice_tcb}
  BY <1>1, ScheduleCheckExact
<1>3. /\ wakeup_list' \in Seq(Threads) /\ Distinct(wakeup_list')
      /\ \A u \in Threads : InList(wakeup_list, u) /\ u # to => InList(wakeup_list', u)
  BY <1>1, Before, CancelArmed
<1>4. /\ state' \in [Threads -> States]
      /\ \A u \in Threads : state'[u] = IF u = to THEN "running" ELSE state[u]
  BY <1>1, Before DEF States
<1>5. \A u \in Threads : state'[u] = "waiting_timeout" => InList(wakeup_list', u)
  BY <1>1, <1>3, <1>4, Before
<1>6. current' # idle => state'[current'] = "running"
  BY <1>1, <1>2, <1>4, Before
<1>7. to \in Tcbs
  BY <1>1 DEF Tcbs
<1> QED
  BY <1>1, <1>2, <1>3, <1>4, <1>5, <1>6, <1>7, Before, PanicType, Together

\* Who runs once a thread waits: its partner, if it has one.
LEMMA BlockStates ==
    ASSUME Inv, NEW t \in Threads, NEW to \in Waiting(state) \cup {idle},
           NEW how \in {"waiting_forever", "waiting_timeout"}, Block(t, to, how)
    PROVE  \A u \in Threads :
               state'[u] = IF u = t THEN how ELSE IF u = to THEN "running" ELSE state[u]
<1> SUFFICES ASSUME NEW u \in Threads
             PROVE  state'[u] = IF u = t THEN how ELSE IF u = to THEN "running" ELSE state[u]
  OBVIOUS
<1>1. /\ ~panic /\ current = t
      /\ state'[u] = CASE u = t -> how [] u = to -> "running" [] OTHER -> state[u]
  BY DEF Block, User
<1>2. to # t
  BY <1>1, Before DEF Waiting
<1>3. CASE u = t
  BY <1>1, <1>2, <1>3
<1>4. CASE u = to
  BY <1>1, <1>2, <1>4
<1>5. CASE u # t /\ u # to
  BY <1>1, <1>5
<1> QED
  BY <1>3, <1>4, <1>5

\* A thread waits and hands its timeslice to a partner.
LEMMA InvBlock ==
    ASSUME Inv, NEW t \in Threads, NEW to \in Waiting(state) \cup {idle},
           NEW how \in {"waiting_forever", "waiting_timeout"}, Block(t, to, how)
    PROVE  Inv'
<1>1. /\ ~panic /\ current = t /\ ~InList(wakeup_list, t)
      /\ state' = [s \in Threads |-> CASE s = t -> how [] s = to -> "running"
                                       [] OTHER -> state[s]]
      /\ wakeup_list' = IF how = "waiting_timeout" THEN Append(wakeup_list, t) ELSE wakeup_list
      /\ current' = to /\ UNCHANGED <<rq, timeslice_tcb, sched, delayed, pending>> /\ panic' = panic
  BY DEF Block, User, Donate, EnqueueTail, flags
<1>2. to \in Tcbs /\ to # t /\ (to # idle => to \in Threads)
  BY <1>1, Before DEF Waiting, Tcbs
<1>3. /\ state' \in [Threads -> States]
      /\ \A u \in Threads : state'[u] = IF u = t THEN how ELSE IF u = to THEN "running" ELSE state[u]
  <2>1. \A u \in Threads : state[u] \in States
    BY <1>1, Before
  <2>2. state' = [u \in Threads |-> state'[u]]
    BY <1>1
  <2> QED
    BY <2>1, <2>2, BlockStates DEF States
<1>4. /\ wakeup_list' \in Seq(Threads) /\ Distinct(wakeup_list')
      /\ \A u : InList(wakeup_list', u) <=>
             InList(wakeup_list, u) \/ (u = t /\ how = "waiting_timeout")
  <2>1. CASE how = "waiting_timeout"
    <3>1. /\ Append(wakeup_list, t) \in Seq(Threads)
          /\ \A u : InList(Append(wakeup_list, t), u) <=> InList(wakeup_list, u) \/ u = t
          /\ Distinct(Append(wakeup_list, t))
      BY <1>1, Before, AppendMembers
    <3> QED
      BY <1>1, <2>1, <3>1
  <2>2. CASE how # "waiting_timeout"
    BY <1>1, <2>2, Before
  <2> QED
    BY <2>1, <2>2
<1>5. \A u \in Threads : state'[u] = "waiting_timeout" => InList(wakeup_list', u)
  BY <1>3, <1>4, Before, <1>1
<1>6. current' # idle => state'[current'] = "running"
  BY <1>1, <1>2, <1>3
<1> QED
  BY <1>1, <1>2, <1>3, <1>4, <1>5, <1>6, Before, PanicType, Together

\* A thread answers one thread and waits for another.
LEMMA InvAnswer ==
    ASSUME Inv, NEW t \in Threads, NEW from \in Threads, NEW to \in Threads, Answer(t, from, to)
    PROVE  Inv'
<1>1. /\ ~panic /\ current = t /\ from # to /\ from # t /\ to # t
      /\ state' = [state EXCEPT ![from] = "running", ![to] = "running",
                                ![t] = "waiting_forever"]
      /\ \/ wakeup_list' = CancelTimeout(from) /\ rq' = Enqueue(rq, sched, from) /\ current' = to
         \/ UNCHANGED wakeup_list /\ rq' = Enqueue(rq, sched, to) /\ current' = from
      /\ UNCHANGED <<timeslice_tcb, sched, delayed, pending>> /\ panic' = panic
  BY Before DEF Answer, User, Waiting, flags
<1>2. rq' \in Queue /\ Exact(rq', sched)
  BY <1>1, Before, EnqueueExact
<1>3. /\ state' \in [Threads -> States]
      /\ \A u \in Threads : state'[u] = IF u = t THEN "waiting_forever"
                                        ELSE IF u \in {from, to} THEN "running" ELSE state[u]
  BY <1>1, Before DEF States
<1>4. /\ wakeup_list' \in Seq(Threads) /\ Distinct(wakeup_list')
      /\ \A u : InList(wakeup_list, u) /\ u # from => InList(wakeup_list', u)
  BY <1>1, Before, CancelArmed
<1>5. \A u \in Threads : state'[u] = "waiting_timeout" => InList(wakeup_list', u)
  BY <1>1, <1>3, <1>4, Before
<1>6. current' \in Tcbs /\ (current' # idle => state'[current'] = "running")
  BY <1>1, <1>3, Before DEF Tcbs
<1> QED
  BY <1>1, <1>2, <1>3, <1>4, <1>5, <1>6, Before, PanicType, Together

\* A thread that is back cancels its timeout.
LEMMA InvLeaveQueue ==
    ASSUME Inv, NEW t \in Threads, LeaveQueue(t)
    PROVE  Inv'
<1>1. /\ ~panic /\ current = t /\ wakeup_list' = CancelTimeout(t)
      /\ UNCHANGED <<state, sched, delayed, pending, rq, timeslice_tcb, current>> /\ panic' = panic
  BY DEF LeaveQueue, flags
<1>2. /\ wakeup_list' \in Seq(Threads) /\ Distinct(wakeup_list')
      /\ \A u : InList(wakeup_list', u) <=> InList(wakeup_list, u) /\ u # t
  BY <1>1, Before, CancelArmed
<1>3. \A u \in Threads : state'[u] = "waiting_timeout" => InList(wakeup_list', u)
  BY <1>1, <1>2, Before
<1>4. (current' # idle => state'[current'] = "running")
  BY <1>1, Before
<1> QED
  BY <1>1, <1>2, <1>3, <1>4, Before, PanicType, Together

\* ThreadSwitch to a thread.
LEMMA InvThreadSwitch ==
    ASSUME Inv, NEW t \in Threads, NEW dest \in Threads, ThreadSwitch(t, dest)
    PROVE  Inv'
<1>1. /\ ~panic /\ dest \in Threads /\ state[dest] = "running"
      /\ current' = dest /\ timeslice_tcb' = dest
      /\ UNCHANGED <<state, sched, delayed, pending, rq, wakeup_list>> /\ panic' = panic
  BY DEF ThreadSwitch, User, Runnable, flags
<1>2. dest \in Tcbs /\ (current' # idle => state'[current'] = "running")
  BY <1>1, Before DEF Tcbs
<1> QED
  BY <1>1, <1>2, Before, PanicType, Together

\* A device interrupt.
LEMMA InvInterrupt ==
    ASSUME Inv, NEW h \in Threads, Interrupt(h)
    PROVE  Inv'
<1>1. /\ ~panic /\ state[h] # "running"
      /\ state' = [state EXCEPT ![h] = "running"]
      /\ ScheduleCheck(h) /\ UNCHANGED <<sched, delayed, pending, wakeup_list>> /\ panic' = panic
  BY DEF Interrupt, Interruptible, Waiting, flags
<1>2. /\ rq' \in Queue /\ Exact(rq', sched)
      /\ current' \in {h, current} /\ timeslice_tcb' \in {h, timeslice_tcb}
  BY <1>1, ScheduleCheckExact
<1>3. /\ state' \in [Threads -> States]
      /\ \A u \in Threads : state'[u] = IF u = h THEN "running" ELSE state[u]
  BY <1>1, Before DEF States
<1>4. /\ h \in Tcbs /\ (current' # idle => state'[current'] = "running")
      /\ \A u \in Threads : state'[u] = "waiting_timeout" => InList(wakeup_list', u)
  BY <1>1, <1>2, <1>3, Before DEF Tcbs
<1> QED
  BY <1>1, <1>2, <1>3, <1>4, Before, PanicType, Together

\* account_timeslice and renew_timeslice change what is left and nothing else.
LEMMA SliceType ==
    ASSUME NEW s \in Ktcbs, NEW t \in Tcbs, NEW n \in Int
    PROVE  /\ Charge(s, t, n) \in Ktcbs /\ Renew(s, t, n) \in Ktcbs
           /\ \A u \in Tcbs : /\ Charge(s, t, n)[u].prio = s[u].prio
                              /\ Renew(s, t, n)[u].prio = s[u].prio
                              /\ Charge(s, t, n)[u].sens = s[u].sens
                              /\ Renew(s, t, n)[u].sens = s[u].sens
                              /\ Charge(s, t, n)[u].len = s[u].len
                              /\ Renew(s, t, n)[u].len = s[u].len
                              /\ Renew(s, t, n)[u].quantum = s[u].quantum
<1>1. AsU32(n) \in Int
  BY NumberAssumption DEF AsU32
<1>2. \A u \in Tcbs : s[u] \in Ktcb /\ s[u].slice \in Int
  BY DEF Ktcbs, Ktcb
<1>3. Charge(s, t, n) \in Ktcbs /\ Renew(s, t, n) \in Ktcbs
  <2> DEFINE c == [s[t] EXCEPT !.slice = @ - AsU32(n)]
             r == [s[t] EXCEPT !.slice = @ + AsU32(n)]
  <2>1. c \in Ktcb /\ r \in Ktcb
    BY <1>1, <1>2 DEF Ktcb
  <2>2. Charge(s, t, n) = [s EXCEPT ![t] = c] /\ Renew(s, t, n) = [s EXCEPT ![t] = r]
    BY DEF Charge, Renew
  <2> HIDE DEF c, r
  <2> QED
    BY <2>1, <2>2 DEF Ktcbs
<1>4. ASSUME NEW u \in Tcbs
      PROVE  /\ Charge(s, t, n)[u].prio = s[u].prio
             /\ Renew(s, t, n)[u].prio = s[u].prio
             /\ Charge(s, t, n)[u].sens = s[u].sens
             /\ Renew(s, t, n)[u].sens = s[u].sens
             /\ Charge(s, t, n)[u].len = s[u].len
             /\ Renew(s, t, n)[u].len = s[u].len
             /\ Renew(s, t, n)[u].quantum = s[u].quantum
  BY <1>2 DEF Charge, Renew, Ktcbs, Ktcb
<1> QED
  BY <1>3, <1>4

\* The accounting of the total quantum, unless it has expired already.
LEMMA QuantumType ==
    ASSUME NEW s \in Ktcbs, NEW t \in Tcbs, s[t].quantum # Expired
    PROVE  /\ AccountQuantum(s, t) \in Ktcbs
           /\ \A u \in Tcbs : AccountQuantum(s, t)[u].prio = s[u].prio /\ AccountQuantum(s, t)[u].sens = s[u].sens
<1>1. s[t] \in Ktcb /\ s[t].quantum \in Nat /\ s[t].len \in Nat
  BY DEF Ktcbs, Ktcb
<1>2. CASE s[t].quantum = 0
  BY <1>2 DEF AccountQuantum
<1>3. CASE s[t].quantum # 0 /\ s[t].quantum <= s[t].len
  <2> DEFINE r == Renew(s, t, s[t].quantum)
  <2>1. r \in Ktcbs /\ \A u \in Tcbs : r[u].prio = s[u].prio /\ r[u].sens = s[u].sens
    <3>1. s[t].quantum \in Int
      BY <1>1
    <3> QED
      BY <3>1, SliceType
  <2>2. AccountQuantum(s, t) = [r EXCEPT ![t].quantum = Expired]
    BY <1>1, <1>3 DEF AccountQuantum
  <2> HIDE DEF r
  <2> QED
    BY <2>1, <2>2 DEF Ktcbs, Ktcb, Expired
<1>4. CASE s[t].quantum # 0 /\ ~(s[t].quantum <= s[t].len)
  <2>1. AccountQuantum(s, t) = [s EXCEPT ![t].quantum = @ - AsU32(s[t].len)]
    BY <1>1, <1>4 DEF AccountQuantum
  <2>2. AsU32(s[t].len) \in Nat /\ AsU32(s[t].len) <= s[t].len
    BY <1>1, NumberAssumption DEF AsU32
  <2>3. s[t].quantum - AsU32(s[t].len) \in Nat
    BY <1>1, <1>4, <2>2
  <2> QED
    BY <2>1, <2>3 DEF Ktcbs, Ktcb
<1> QED
  BY <1>2, <1>3, <1>4

\* end_of_timeslice, as far as the queues go.
LEMMA TimesliceQueuesExact ==
    ASSUME TypeOK, NEW q \in Queue, NEW s \in Ktcbs, Exact(q, s),
           timeslice_tcb \in Tcbs, current # idle
    PROVE  /\ TimesliceQueues(q, s) \in Queue /\ Exact(TimesliceQueues(q, s), s)
           /\ TimesliceQueues(q, s).ready = q.ready \cup {current}
<1>1. current \in Threads
  BY DEF TypeOK, Tcbs
<1>2. /\ NextFirst(q, s, timeslice_tcb) \in Queue /\ Exact(NextFirst(q, s, timeslice_tcb), s)
      /\ NextFirst(q, s, timeslice_tcb).ready = q.ready
  BY NextFirstExact
<1> QED
  BY <1>1, <1>2, EnqueueExact DEF TimesliceQueues

\* A thread that gives up the rest of its timeslice keeps its priority.
LEMMA YieldPrio ==
    ASSUME Inv, NEW t \in Threads, Yield(t)
    PROVE  sched' \in Ktcbs /\ \A u \in Tcbs : sched'[u].prio = sched[u].prio /\ sched'[u].sens = sched[u].sens
<1> DEFINE s == IF sched[t].delay < sched[t].maxdelay
                THEN [sched EXCEPT ![t].delay = sched[t].maxdelay] ELSE sched
           spent == Charge(s, timeslice_tcb, s[timeslice_tcb].slice)
<1>1. ~panic /\ sched' = Renew(spent, timeslice_tcb, spent[timeslice_tcb].len)
  BY DEF Yield, User
<1>2. s \in Ktcbs /\ \A u \in Tcbs : s[u].prio = sched[u].prio /\ s[u].sens = sched[u].sens
  BY ZenonT(40), Before, <1>1 DEF Ktcbs, Ktcb, Tcbs
<1> HIDE DEF s
<1>3. timeslice_tcb \in Tcbs /\ s[timeslice_tcb].slice \in Int
  BY <1>1, <1>2, Before DEF Ktcbs, Ktcb
<1>4. spent \in Ktcbs /\ \A u \in Tcbs : spent[u].prio = sched[u].prio /\ spent[u].sens = sched[u].sens
  <2>1. spent \in Ktcbs /\ \A u \in Tcbs : spent[u].prio = s[u].prio /\ spent[u].sens = s[u].sens
    BY <1>2, <1>3, SliceType
  <2> HIDE DEF spent
  <2> QED
    BY <1>2, <2>1
<1> HIDE DEF spent
<1>5. spent[timeslice_tcb].len \in Int
  BY <1>3, <1>4 DEF Ktcbs, Ktcb
<1> DEFINE z == Renew(spent, timeslice_tcb, spent[timeslice_tcb].len)
<1>6. z \in Ktcbs /\ \A u \in Tcbs : z[u].prio = spent[u].prio /\ z[u].sens = spent[u].sens
  BY <1>3, <1>4, <1>5, SliceType
<1>7. sched' = z
  BY <1>1
<1> HIDE DEF z
<1> QED
  BY <1>4, <1>6, <1>7

\* A thread gives up the rest of its timeslice.
LEMMA InvYield ==
    ASSUME Inv, NEW t \in Threads, Yield(t)
    PROVE  Inv'
<1> DEFINE q == TimesliceQueues(rq, sched)
<1>1. /\ ~panic /\ current = t
      /\ pending' \in {pending, pending \ {t}}
      /\ Schedule(q, sched, state)
      /\ UNCHANGED <<state, delayed, wakeup_list>> /\ panic' = panic
  BY DEF Yield, User
<1>2. sched' \in Ktcbs /\ \A u \in Tcbs : sched'[u].prio = sched[u].prio
  BY YieldPrio
<1>3. q \in Queue /\ Exact(q, sched)
  <2>1. current # idle
    BY <1>1, Before
  <2> QED
    BY <1>1, <2>1, Before, TimesliceQueuesExact
<1> HIDE DEF q
<1>4. /\ rq' \in Queue /\ Exact(rq', sched) /\ current' \in Tcbs /\ timeslice_tcb' = current'
      /\ current' # idle => state[current'] = "running"
  BY <1>1, <1>3, Before, ScheduleExact
<1>5. Exact(rq', sched')
  <2>1. \A u \in rq'.ready : sched'[u].prio = sched[u].prio
    BY <1>2, <1>4 DEF Queue, Tcbs
  <2> QED
    BY <1>4, <2>1, ExactSamePrio
<1>6. pending' \subseteq Threads
  BY <1>1, Before
<1> QED
  BY <1>1, <1>2, <1>4, <1>5, <1>6, Before, PanicType, Together

\* The idle thread looks for a thread to run.
LEMMA InvIdleSchedule ==
    ASSUME Inv, IdleSchedule
    PROVE  Inv'
<1>1. /\ ~panic /\ Schedule(rq, sched, state)
      /\ UNCHANGED <<state, sched, delayed, pending, wakeup_list>> /\ panic' = panic
  BY DEF IdleSchedule, flags
<1>2. /\ rq' \in Queue /\ Exact(rq', sched) /\ current' \in Tcbs /\ timeslice_tcb' = current'
      /\ current' # idle => state[current'] = "running"
  BY <1>1, Before, ScheduleExact
<1> QED
  BY <1>1, <1>2, Before, PanicType, Together

\* ExchangeRegisters halts a thread.
LEMMA InvHalt ==
    ASSUME Inv, NEW t \in Threads, NEW v \in Threads, Halt(t, v)
    PROVE  Inv'
<1> DEFINE st == [state EXCEPT ![v] = "halted"]
<1>1. /\ ~panic /\ state' = st /\ Schedule(rq, sched, st)
      /\ UNCHANGED <<sched, delayed, pending, wakeup_list>> /\ panic' = panic
  BY DEF Halt, User, flags
<1>2. st \in [Threads -> States] /\ \A u \in Threads : st[u] = "waiting_timeout" => state[u] = "waiting_timeout"
  BY <1>1, Before DEF States
<1> HIDE DEF st
<1>3. /\ rq' \in Queue /\ Exact(rq', sched) /\ current' \in Tcbs /\ timeslice_tcb' = current'
      /\ current' # idle => st[current'] = "running"
  BY <1>1, <1>2, Before, ScheduleExact
<1>4. \A u \in Threads : state'[u] = "waiting_timeout" => InList(wakeup_list', u)
  BY <1>1, <1>2, Before
<1> QED
  BY <1>1, <1>2, <1>3, <1>4, Before, PanicType, Together

\* ExchangeRegisters resumes a thread.
LEMMA InvResume ==
    ASSUME Inv, NEW t \in Threads, NEW v \in Threads, Resume(t, v)
    PROVE  Inv'
<1> DEFINE st == [state EXCEPT ![v] = "running"]
           q == Enqueue(rq, sched, v)
<1>1. /\ ~panic /\ state' = st /\ Schedule(q, sched, st)
      /\ UNCHANGED <<sched, delayed, pending, wakeup_list>> /\ panic' = panic
  BY DEF Resume, User, flags
<1>2. st \in [Threads -> States] /\ \A u \in Threads : st[u] = "waiting_timeout" => state[u] = "waiting_timeout"
  BY <1>1, Before DEF States
<1>3. q \in Queue /\ Exact(q, sched)
  BY <1>1, Before, EnqueueExact
<1> HIDE DEF st, q
<1>4. /\ rq' \in Queue /\ Exact(rq', sched) /\ current' \in Tcbs /\ timeslice_tcb' = current'
      /\ current' # idle => st[current'] = "running"
  BY <1>1, <1>2, <1>3, Before, ScheduleExact
<1>5. \A u \in Threads : state'[u] = "waiting_timeout" => InList(wakeup_list', u)
  BY <1>1, <1>2, Before
<1> QED
  BY <1>1, <1>2, <1>4, <1>5, Before, PanicType, Together

\* ThreadControl deletes a thread.
LEMMA InvDelete ==
    ASSUME Inv, NEW t \in Threads, NEW v \in Threads, Delete(t, v)
    PROVE  Inv'
<1>1. /\ ~panic /\ current = t /\ v # t /\ state' = [state EXCEPT ![v] = "aborted"]
      /\ rq' = Dequeue(rq, sched, v)
      /\ wakeup_list' \in {wakeup_list, CancelTimeout(v)}
      /\ timeslice_tcb' \in {timeslice_tcb, idle}
      /\ UNCHANGED <<sched, delayed, pending, current>> /\ panic' = panic
  BY DEF Delete, User, flags
<1>2. /\ state' \in [Threads -> States]
      /\ \A u \in Threads : state'[u] = IF u = v THEN "aborted" ELSE state[u]
  BY <1>1, Before DEF States
<1>3. rq' \in Queue /\ Exact(rq', sched)
  BY <1>1, Before, DequeueExact
<1>4. /\ wakeup_list' \in Seq(Threads) /\ Distinct(wakeup_list')
      /\ \A u : InList(wakeup_list, u) /\ u # v => InList(wakeup_list', u)
  BY <1>1, Before, CancelArmed
<1>5. \A u \in Threads : state'[u] = "waiting_timeout" => InList(wakeup_list', u)
  BY <1>1, <1>2, <1>4, Before
<1>6. timeslice_tcb' \in Tcbs /\ (current' # idle => state'[current'] = "running")
  BY <1>1, <1>2, Before DEF Tcbs
<1> QED
  BY <1>1, <1>2, <1>3, <1>4, <1>5, <1>6, Before, PanicType, Together

\* A thread writes its delay flag.
LEMMA InvSetDelay ==
    ASSUME Inv, NEW t \in Threads, SetDelay(t)
    PROVE  Inv'
<1>1. /\ ~panic /\ delayed' \in {delayed \ {t}, delayed \cup {t}}
      /\ UNCHANGED <<state, sched, pending, rq, timeslice_tcb, wakeup_list, current>>
      /\ panic' = panic
  BY DEF SetDelay, User
<1>2. delayed' \subseteq Threads /\ (current' # idle => state'[current'] = "running")
  BY <1>1, Before DEF Tcbs
<1> QED
  BY <1>1, <1>2, Before, PanicType, Together

\* commit_schedule_parameters: the priority changes for the destination only.
LEMMA RequestType ==
    ASSUME NEW s \in Ktcbs, NEW r \in Request
    PROVE  /\ WithPriority(s, r) \in Ktcbs
           /\ WithPreemption(WithPriority(s, r), r) \in Ktcbs
           /\ WithTime(WithPreemption(WithPriority(s, r), r), r) \in Ktcbs
           /\ \A u \in Tcbs :
                  /\ u # r.dest \/ r.prio = nil => WithPriority(s, r)[u].prio = s[u].prio
                  /\ WithTime(WithPreemption(WithPriority(s, r), r), r)[u].prio
                         = WithPriority(s, r)[u].prio
<1> DEFINE a == WithPriority(s, r)
           b == WithPreemption(a, r)
           c == WithTime(b, r)
<1>1. r.dest \in Tcbs /\ (r.prio # nil => r.prio \in Prios)
      /\ (r.preempt # nil => r.preempt.sens \in Prios /\ r.preempt.maxdelay \in Nat)
      /\ (r.time # nil => r.time.len \in Nat /\ r.time.quantum \in Nat)
  BY DEF Request, Tcbs
<1>2. a \in Ktcbs /\ \A u \in Tcbs : u # r.dest \/ r.prio = nil => a[u].prio = s[u].prio
  BY <1>1 DEF WithPriority, Ktcbs, Ktcb
<1> HIDE DEF a
<1>3. b \in Ktcbs /\ \A u \in Tcbs : b[u].prio = a[u].prio
  <2> DEFINE d == r.dest
             sens == IF r.preempt.sens >= a[d].prio THEN r.preempt.sens ELSE a[d].sens
             k == [a[d] EXCEPT !.delay = r.preempt.maxdelay, !.maxdelay = r.preempt.maxdelay,
                               !.sens = sens]
  <2>1. CASE r.preempt = nil
    BY <1>2, <2>1 DEF WithPreemption
  <2>2. CASE r.preempt # nil
    <3>1. a[d] \in Ktcb
      BY <1>1, <1>2 DEF Ktcbs
    <3>2. sens \in Prios /\ r.preempt.maxdelay \in Nat
      BY <1>1, <2>2, <3>1 DEF Ktcb
    <3> HIDE DEF sens
    <3>3. k \in Ktcb /\ k.prio = a[d].prio
      BY <3>1, <3>2 DEF Ktcb
    <3>4. b = [a EXCEPT ![d] = k]
      BY <1>1, <1>2, <2>2 DEF WithPreemption, Ktcbs, sens
    <3> HIDE DEF k
    <3> QED
      BY <1>1, <1>2, <3>3, <3>4 DEF Ktcbs
  <2> QED
    BY <2>1, <2>2
<1> HIDE DEF b
<1>4. c \in Ktcbs /\ \A u \in Tcbs : c[u].prio = b[u].prio
  <2> DEFINE d == r.dest
             k == [b[d] EXCEPT !.len = r.time.len, !.slice = r.time.len,
                               !.quantum = r.time.quantum]
  <2>1. CASE r.time = nil
    BY <1>3, <2>1 DEF WithTime
  <2>2. CASE r.time # nil
    <3>1. b[d] \in Ktcb
      BY <1>1, <1>3 DEF Ktcbs
    <3>2. r.time.len \in Nat /\ r.time.len \in Int /\ r.time.quantum \in Nat
      BY <1>1, <2>2
    <3>3. k \in Ktcb /\ k.prio = b[d].prio
      BY <3>1, <3>2 DEF Ktcb
    <3>4. c = [b EXCEPT ![d] = k]
      BY <1>1, <1>3, <2>2 DEF WithTime, Ktcbs
    <3> HIDE DEF k
    <3> QED
      BY <1>1, <1>3, <3>3, <3>4 DEF Ktcbs
  <2> QED
    BY <2>1, <2>2
<1> HIDE DEF c
<1> QED
  BY <1>2, <1>3, <1>4 DEF a, b, c

\* Schedule: a thread whose priority changes moves to another queue.
LEMMA InvSysSchedule ==
    ASSUME Inv, NEW t \in Threads, NEW r \in Requests[t], SysSchedule(t, r)
    PROVE  Inv'
<1> DEFINE s == WithPriority(sched, r)
           z == WithTime(WithPreemption(s, r), r)
           q == Dequeue(rq, sched, r.dest)
<1>1. r \in Request /\ r.dest \in Threads
  BY ParamAssumption DEF Request
<1>2. /\ ~panic /\ sched' = z
      /\ rq' = IF r.prio = nil THEN rq ELSE Enqueue(q, s, r.dest)
      /\ UNCHANGED <<state, delayed, pending, timeslice_tcb, wakeup_list, current>>
      /\ panic' = panic
  BY DEF SysSchedule, User, flags
<1>3. /\ s \in Ktcbs /\ z \in Ktcbs
      /\ \A u \in Tcbs : /\ u # r.dest \/ r.prio = nil => s[u].prio = sched[u].prio
                         /\ z[u].prio = s[u].prio
  BY <1>1, <1>2, Before, RequestType
<1>4. /\ q \in Queue /\ Exact(q, sched) /\ q.ready = rq.ready \ {r.dest}
      /\ rq.ready \subseteq Threads
  <2>1. rq.ready \subseteq Threads
    BY <1>2, Before DEF Queue
  <2> QED
    BY <1>1, <1>2, <2>1, Before, DequeueExact
<1> HIDE DEF s, z, q
<1>5. rq' \in Queue /\ Exact(rq', s)
  <2>1. CASE r.prio = nil
    <3>1. \A u \in rq.ready : s[u].prio = sched[u].prio
      BY <1>3, <1>4, <2>1 DEF Tcbs
    <3>2. rq' = rq /\ rq \in Queue /\ Exact(rq, sched)
      BY <1>2, <2>1, Before
    <3> QED
      BY <3>1, <3>2, ExactSamePrio
  <2>2. CASE r.prio # nil
    <3>1. \A u \in q.ready : s[u].prio = sched[u].prio
      BY <1>3, <1>4 DEF Tcbs
    <3>2. Exact(q, s)
      BY <1>4, <3>1, ExactSamePrio
    <3> QED
      BY <1>1, <1>2, <1>3, <1>4, <2>2, <3>2, EnqueueExact
  <2> QED
    BY <2>1, <2>2
<1>6. Exact(rq', sched')
  <2>1. \A u \in rq'.ready : z[u].prio = s[u].prio
    BY <1>3, <1>5 DEF Queue, Tcbs
  <2> QED
    BY <1>2, <1>5, <2>1, ExactSamePrio
<1>7. sched' \in Ktcbs /\ (current' # idle => state'[current'] = "running")
  BY <1>2, <1>3, Before DEF Tcbs
<1> QED
  BY <1>2, <1>5, <1>6, <1>7, Before, PanicType, Together

\* parse_wakeup_queues: who is woken runs, the others stay armed.
LEMMA TickWakes ==
    ASSUME Inv, NEW due \in SUBSET Threads, ParseWakeupQueues(due)
    PROVE  /\ ~panic /\ state' \in [Threads -> States]
           /\ \A u \in Threads : state'[u] = IF InList(Woken(due), u) THEN "running" ELSE state[u]
           /\ wakeup_list' \in Seq(Threads) /\ Distinct(wakeup_list')
           /\ \A u \in Threads : InList(wakeup_list', u) <=> InList(wakeup_list, u) /\ u \notin due
           /\ \A u \in Threads : state'[u] = "waiting_timeout" => InList(wakeup_list', u)
           /\ QueuesAfter(due) \in Queue /\ Exact(QueuesAfter(due), sched)
           /\ QueuesAfter(due).ready = rq.ready \cup {u \in Threads : InList(Woken(due), u)}
<1>1. /\ ~panic /\ state' = [u \in Threads |-> IF InList(Woken(due), u) THEN "running" ELSE state[u]]
      /\ wakeup_list' = Among(wakeup_list, Threads \ due)
  BY DEF ParseWakeupQueues, Interruptible, StateAfter
<1>2. /\ state' \in [Threads -> States]
      /\ \A u \in Threads : state'[u] = IF InList(Woken(due), u) THEN "running" ELSE state[u]
  BY <1>1, Before DEF States
<1>3. wakeup_list \in Seq(Threads) /\ Distinct(wakeup_list)
  BY <1>1, Before
<1>4. /\ wakeup_list' \in Seq(Threads) /\ Distinct(wakeup_list')
      /\ \A u : InList(wakeup_list', u) <=> InList(wakeup_list, u) /\ u \in Threads \ due
  BY <1>1, <1>3, AmongMembers
<1>5. \A u : InList(Woken(due), u) <=>
                 InList(wakeup_list, u) /\ u \in due /\ state[u] # "waiting_forever"
  BY <1>1, Before, WokenMembers
<1>6. ASSUME NEW u \in Threads, state'[u] = "waiting_timeout" PROVE InList(wakeup_list', u)
  <2>1. ~InList(Woken(due), u) /\ state[u] = "waiting_timeout" /\ InList(wakeup_list, u)
    BY <1>1, <1>2, <1>6, Before
  <2> QED
    BY <1>4, <1>5, <2>1
<1>7. /\ QueuesAfter(due) \in Queue /\ Exact(QueuesAfter(due), sched)
      /\ QueuesAfter(due).ready = rq.ready \cup {u \in Threads : InList(Woken(due), u)}
  BY QueuesAfterExact DEF Inv
<1> QED
  BY <1>1, <1>2, <1>4, <1>6, <1>7

\* The timer interrupts the idle thread.
LEMMA InvTickIdle ==
    ASSUME Inv, NEW due \in SUBSET Threads, TickIdle(due)
    PROVE  Inv'
<1>1. /\ ParseWakeupQueues(due) /\ current = idle /\ rq' = QueuesAfter(due)
      /\ UNCHANGED <<sched, delayed, pending, timeslice_tcb, current>> /\ panic' = panic
  BY DEF TickIdle, flags
<1> QED
  BY <1>1, TickWakes, Before, PanicType, Together

\* A woken thread may preempt the current one.
LEMMA WakeupSwitches ==
    ASSUME Inv, NEW due \in SUBSET Threads, ParseWakeupQueues(due), WakeupPreemption(due)
    PROVE  /\ rq' \in Queue /\ Exact(rq', sched)
           /\ QueuesAfter(due).ready \subseteq rq'.ready
           /\ timeslice_tcb' \in Tcbs /\ current' \in Tcbs
           /\ current' = HighestWakeup(due)
           /\ rq'.ready = QueuesAfter(due).ready \cup ({current} \ {idle, current'})
           /\ current' # idle => state'[current'] = "running"
<1> DEFINE h == HighestWakeup(due)
<1>1. ~panic /\ timeslice_tcb \in Tcbs /\ TypeOK /\ TimeoutArmed
  BY TickWakes, Before
<1>2. h = current \/ InList(Woken(due), h)
  BY <1>1, HighestWakes
<1>3. h \in Tcbs /\ (h # idle => state'[h] = "running")
  <2>1. Woken(due) \in Seq(Threads)
    BY <1>1, WokenMembers
  <2>2. CASE h = current
    BY <1>1, <2>2, Before, TickWakes DEF Tcbs
  <2>3. CASE InList(Woken(due), h)
    <3>1. h \in Threads
      BY <2>1, <2>3, ListedType
    <3> QED
      BY <2>3, <3>1, TickWakes DEF Tcbs
  <2> QED
    BY <1>2, <2>2, <2>3
<1> HIDE DEF h
<1>4. QueuesAfter(due) \in Queue /\ Exact(QueuesAfter(due), sched)
  BY TickWakes
<1>5. CASE h = current
  BY <1>1, <1>3, <1>4, <1>5 DEF WakeupPreemption, h
<1>6. CASE h # current
  <2>1. SwitchTo(QueuesAfter(due), h)
    BY <1>6 DEF WakeupPreemption, h
  <2>2. /\ rq' \in Queue /\ Exact(rq', sched)
        /\ current' = h /\ timeslice_tcb' = h
        /\ rq'.ready = QueuesAfter(due).ready \cup ({current} \ {idle})
    BY <1>1, <1>3, <1>4, <2>1, SwitchToExact
  <2> QED
    BY <1>3, <1>6, <2>2 DEF h
<1> QED
  BY <1>5, <1>6

\* The charge for a tick.
LEMMA ChargedType ==
    ASSUME sched \in Ktcbs, timeslice_tcb \in Tcbs
    PROVE  /\ Charged \in Ktcbs
           /\ \A u \in Tcbs : /\ Charged[u].prio = sched[u].prio
                              /\ Charged[u].sens = sched[u].sens
                              /\ Charged[u].len = sched[u].len
                              /\ Charged[u].quantum = sched[u].quantum
<1>1. TickLength \in Int
  BY NumberAssumption
<1>2. /\ Charge(sched, timeslice_tcb, TickLength) \in Ktcbs
      /\ \A u \in Tcbs : /\ Charge(sched, timeslice_tcb, TickLength)[u].prio = sched[u].prio
                         /\ Charge(sched, timeslice_tcb, TickLength)[u].sens = sched[u].sens
                         /\ Charge(sched, timeslice_tcb, TickLength)[u].len = sched[u].len
  BY <1>1, SliceType
<1>3. \A u \in Tcbs : Charge(sched, timeslice_tcb, TickLength)[u].quantum = sched[u].quantum
  BY DEF Charge, Ktcbs, Ktcb
<1> QED
  BY <1>2, <1>3 DEF Charged

\* A tick within the timeslice.
LEMMA InvTickWithin ==
    ASSUME Inv, NEW due \in SUBSET Threads, TickWithin(due)
    PROVE  Inv'
<1>1. /\ ParseWakeupQueues(due) /\ sched' = Charged /\ WakeupPreemption(due)
      /\ delayed' = delayed /\ pending' = pending /\ panic' = panic
  BY DEF TickWithin, flags
<1>2. ~panic /\ sched \in Ktcbs /\ timeslice_tcb \in Tcbs
  BY <1>1, TickWakes, Before
<1>3. sched' \in Ktcbs /\ \A u \in Tcbs : sched'[u].prio = sched[u].prio
  BY <1>1, <1>2, ChargedType
<1>4. /\ rq' \in Queue /\ Exact(rq', sched) /\ timeslice_tcb' \in Tcbs /\ current' \in Tcbs
      /\ current' # idle => state'[current'] = "running"
  BY <1>1, WakeupSwitches
<1>5. Exact(rq', sched')
  <2>1. \A u \in rq'.ready : sched'[u].prio = sched[u].prio
    BY <1>3, <1>4 DEF Queue, Tcbs
  <2> QED
    BY <1>4, <2>1, ExactSamePrio
<1> QED
  BY <1>1, <1>2, <1>3, <1>4, <1>5, TickWakes, Before, PanicType, Together

\* A thread that delays its preemption keeps its priority.
LEMMA DelayedPrio ==
    ASSUME Inv, NEW due \in SUBSET Threads, TickDelayed(due)
    PROVE  /\ sched' \in Ktcbs
           /\ \A u \in Tcbs : sched'[u].prio = sched[u].prio /\ sched'[u].sens = sched[u].sens
<1> DEFINE z == Renew(Charged, timeslice_tcb, sched[current].delay)
<1>1. /\ ParseWakeupQueues(due) /\ current # idle
      /\ sched' = [z EXCEPT ![current].delay = 0]
  BY DEF TickDelayed
<1>2. sched \in Ktcbs /\ timeslice_tcb \in Tcbs /\ current \in Tcbs
  BY <1>1, TickWakes, Before DEF Tcbs
<1>3. sched[current].delay \in Int
  BY <1>2 DEF Ktcbs, Ktcb
<1>4. /\ Charged \in Ktcbs
      /\ \A u \in Tcbs : Charged[u].prio = sched[u].prio /\ Charged[u].sens = sched[u].sens
  BY <1>2, ChargedType
<1>5. z \in Ktcbs /\ \A u \in Tcbs : z[u].prio = sched[u].prio /\ z[u].sens = sched[u].sens
  <2>1. z \in Ktcbs /\ \A u \in Tcbs : z[u].prio = Charged[u].prio /\ z[u].sens = Charged[u].sens
    BY ZenonT(40), <1>2, <1>3, <1>4, SliceType
  <2> HIDE DEF z
  <2> QED
    BY <1>4, <2>1
<1> HIDE DEF z
<1> QED
  BY <1>1, <1>2, <1>5 DEF Ktcbs, Ktcb

\* The end of a timeslice whose thread may delay its preemption.
LEMMA InvTickDelayed ==
    ASSUME Inv, NEW due \in SUBSET Threads, TickDelayed(due)
    PROVE  Inv'
<1>1. /\ ParseWakeupQueues(due) /\ current # idle /\ WakeupPreemption(due)
      /\ delayed' = delayed /\ pending' = pending \cup {current} /\ panic' = panic
  BY DEF TickDelayed
<1>2. ~panic /\ current \in Threads
  BY <1>1, TickWakes, Before DEF Tcbs
<1>3. sched' \in Ktcbs /\ \A u \in Tcbs : sched'[u].prio = sched[u].prio
  BY DelayedPrio
<1>4. /\ rq' \in Queue /\ Exact(rq', sched) /\ timeslice_tcb' \in Tcbs /\ current' \in Tcbs
      /\ current' # idle => state'[current'] = "running"
  BY <1>1, WakeupSwitches
<1>5. Exact(rq', sched')
  <2>1. \A u \in rq'.ready : sched'[u].prio = sched[u].prio
    BY <1>3, <1>4 DEF Queue, Tcbs
  <2> QED
    BY <1>4, <2>1, ExactSamePrio
<1>6. pending' \subseteq Threads /\ delayed' \subseteq Threads
  BY <1>1, <1>2, Before
<1> QED
  BY <1>1, <1>2, <1>3, <1>4, <1>5, <1>6, TickWakes, PanicType, Together

\* The end of a timeslice, and what the scheduler chooses then.
LEMMA TickExpires ==
    ASSUME Inv, NEW due \in SUBSET Threads, TickExpired(due)
    PROVE  LET q == TimesliceQueues(QueuesAfter(due), sched)
           IN  /\ q \in Queue /\ Exact(q, sched)
               /\ q.ready = QueuesAfter(due).ready \cup {current}
               /\ sched' \in Ktcbs /\ \A u \in Tcbs : sched'[u].prio = sched[u].prio /\ sched'[u].sens = sched[u].sens
               /\ ParseWakeupQueues(due) /\ current \in Threads
               /\ delayed' = delayed /\ pending' = pending
               /\ \/ panic' = TRUE /\ rq' = q /\ timeslice_tcb' = null /\ current' = current
                  \/ panic' = panic /\ Schedule(q, sched', state')
<1> DEFINE s == Renew(Charged, timeslice_tcb, Owner.len)
           q == TimesliceQueues(QueuesAfter(due), sched)
<1>1. /\ ParseWakeupQueues(due) /\ current # idle /\ delayed' = delayed /\ pending' = pending
      /\ \/ Owner.quantum = Expired /\ panic' = TRUE /\ sched' = s /\ rq' = q
            /\ timeslice_tcb' = null /\ current' = current
         \/ Owner.quantum # Expired /\ sched' = AccountQuantum(s, timeslice_tcb)
            /\ Schedule(q, sched', state') /\ panic' = panic
  BY DEF TickExpired, flags
<1>2. ~panic /\ sched \in Ktcbs /\ timeslice_tcb \in Tcbs /\ current \in Threads /\ TypeOK
  BY <1>1, TickWakes, Before DEF Tcbs
<1>3. Owner.len \in Int
  BY <1>2 DEF Owner, Ktcbs, Ktcb
<1>4. /\ Charged \in Ktcbs
      /\ \A u \in Tcbs : Charged[u].prio = sched[u].prio /\ Charged[u].sens = sched[u].sens /\ Charged[u].quantum = sched[u].quantum
  BY <1>2, ChargedType
<1>5. s \in Ktcbs /\ \A u \in Tcbs : s[u].prio = sched[u].prio /\ s[u].sens = sched[u].sens /\ s[u].quantum = sched[u].quantum
  <2>1. s \in Ktcbs /\ \A u \in Tcbs : s[u].prio = Charged[u].prio /\ s[u].sens = Charged[u].sens /\ s[u].quantum = Charged[u].quantum
    BY <1>2, <1>3, <1>4, SliceType
  <2> HIDE DEF s
  <2> QED
    BY <1>4, <2>1
<1> HIDE DEF s
<1>6. sched' \in Ktcbs /\ \A u \in Tcbs : sched'[u].prio = sched[u].prio /\ sched'[u].sens = sched[u].sens
  <2>1. CASE sched' = s
    BY <1>5, <2>1
  <2>2. CASE Owner.quantum # Expired /\ sched' = AccountQuantum(s, timeslice_tcb)
    <3>1. s[timeslice_tcb].quantum # Expired
      BY <1>2, <1>5, <2>2 DEF Owner
    <3>2. /\ AccountQuantum(s, timeslice_tcb) \in Ktcbs
          /\ \A u \in Tcbs : AccountQuantum(s, timeslice_tcb)[u].prio = s[u].prio /\ AccountQuantum(s, timeslice_tcb)[u].sens = s[u].sens
      BY <1>2, <1>5, <3>1, QuantumType
    <3> QED
      BY <1>5, <2>2, <3>2
  <2> QED
    BY <1>1, <2>1, <2>2
<1>7. QueuesAfter(due) \in Queue /\ Exact(QueuesAfter(due), sched)
  BY <1>1, TickWakes
<1>8. q \in Queue /\ Exact(q, sched) /\ q.ready = QueuesAfter(due).ready \cup {current}
  BY <1>1, <1>2, <1>7, TimesliceQueuesExact
<1> HIDE DEF q
<1>9. \/ panic' = TRUE /\ rq' = q /\ timeslice_tcb' = null /\ current' = current
      \/ panic' = panic /\ Schedule(q, sched', state')
  BY <1>1
<1> QED
  BY <1>1, <1>2, <1>6, <1>8, <1>9 DEF q

\* The invariant at the end of a timeslice.
LEMMA InvTickExpired ==
    ASSUME Inv, NEW due \in SUBSET Threads, TickExpired(due)
    PROVE  Inv'
<1> DEFINE q == TimesliceQueues(QueuesAfter(due), sched)
<1>1. /\ q \in Queue /\ Exact(q, sched)
      /\ sched' \in Ktcbs /\ \A u \in Tcbs : sched'[u].prio = sched[u].prio
      /\ ParseWakeupQueues(due) /\ current \in Threads
      /\ delayed' = delayed /\ pending' = pending
      /\ \/ panic' = TRUE /\ rq' = q /\ timeslice_tcb' = null /\ current' = current
         \/ panic' = panic /\ Schedule(q, sched', state')
  BY TickExpires
<1> HIDE DEF q
<1>2. Exact(q, sched')
  <2>1. \A u \in q.ready : sched'[u].prio = sched[u].prio
    BY <1>1 DEF Queue, Tcbs
  <2> QED
    BY <1>1, <2>1, ExactSamePrio
<1>3. /\ ~panic /\ state' \in [Threads -> States]
      /\ \A u \in Threads : state[u] = "running" => state'[u] = "running"
      /\ wakeup_list' \in Seq(Threads) /\ Distinct(wakeup_list')
      /\ \A u \in Threads : state'[u] = "waiting_timeout" => InList(wakeup_list', u)
  BY <1>1, TickWakes
<1>4. delayed' \subseteq Threads /\ pending' \subseteq Threads
  BY <1>1, <1>3, Before
<1>5. CASE panic' = TRUE /\ rq' = q /\ timeslice_tcb' = null /\ current' = current
  <2>1. current' \in Tcbs /\ (current' # idle => state'[current'] = "running")
    BY <1>1, <1>3, <1>5, Before DEF Tcbs
  <2>2. rq' \in Queue /\ Exact(rq', sched')
    BY <1>1, <1>2, <1>5
  <2>3. panic' \in BOOLEAN /\ (panic' /\ timeslice_tcb' = null)
    BY <1>5
  <2> QED
    BY <1>1, <1>3, <1>4, <2>1, <2>2, <2>3, Together
<1>6. CASE panic' = panic /\ Schedule(q, sched', state')
  <2>1. /\ rq' \in Queue /\ Exact(rq', sched') /\ current' \in Tcbs /\ timeslice_tcb' = current'
        /\ current' # idle => state'[current'] = "running"
    BY <1>1, <1>2, <1>3, <1>6, Before, ScheduleExact
  <2> QED
    BY <1>1, <1>3, <1>4, <1>6, <2>1, PanicType, Together
<1> QED
  BY <1>1, <1>5, <1>6

\* The order in which threads of one priority stand is a list of them.
LEMMA OrdersType ==
    ASSUME NEW p \in Prios, NEW l \in Orders(p)
    PROVE  /\ l \in Seq(Threads) /\ Distinct(l)
           /\ \A t : InList(l, t) <=> t \in Threads /\ Params[t].prio = p
<1> DEFINE ts == {t \in Threads : Params[t].prio = p}
           n == Cardinality(ts)
<1>1. IsFiniteSet(ts) /\ n \in Nat
  <2>1. ts \subseteq Threads
    OBVIOUS
  <2> QED
    BY <2>1, ThreadAssumption, FS_Subset, FS_CardinalityType
<1>2. l \in [1..n -> ts] /\ \A t \in ts : InList(l, t)
  BY DEF Orders
<1> HIDE DEF n
<1>3. l \in Seq(ts) /\ Len(l) = n
  BY <1>1, <1>2
<1>4. l \in Seq(Threads)
  BY <1>1, <1>2
<1>5. \A t : InList(l, t) <=> t \in ts
  BY <1>2, <1>3 DEF InList
<1>6. Distinct(l)
  <2>1. l \in Surjection(1..n, ts)
    <3>1. \A t \in ts : \E i \in 1..n : l[i] = t
      BY <1>2, <1>3 DEF InList
    <3> QED
      BY <1>2, <3>1 DEF Surjection
  <2>2. IsFiniteSet(1..n) /\ Cardinality(1..n) = n
    BY <1>1, FS_Interval
  <2>3. l \in Injection(1..n, ts)
    BY <2>1, <2>2, FS_SurjSameCardinalityImpliesInj DEF n
  <2> QED
    BY <1>3, <2>3 DEF Injection, IsInjective, Distinct
<1> QED
  BY <1>4, <1>5, <1>6

\* The invariant holds when the kernel has started.
LEMMA InvInit ==
    ASSUME Init
    PROVE  Inv
<1>1. /\ state = [t \in Threads |-> "running"] /\ sched = Params
      /\ delayed = {} /\ pending = {} /\ timeslice_tcb = idle /\ current = idle
      /\ wakeup_list = <<>> /\ panic = FALSE
  BY DEF Init
<1>2. /\ rq = [list |-> rq.list, max |-> rq.max, ready |-> rq.ready]
      /\ rq.ready = Threads /\ rq.max \in Prios /\ \A t \in Threads : Params[t].prio <= rq.max
      /\ rq.list \in [Prios -> UNION {Orders(p) : p \in Prios}]
      /\ \A p \in Prios : rq.list[p] \in Orders(p)
  BY DEF Init
<1>3. \A p \in Prios : /\ rq.list[p] \in Seq(Threads) /\ Distinct(rq.list[p])
                       /\ \A t : InList(rq.list[p], t) <=> t \in Threads /\ Params[t].prio = p
  BY <1>2, OrdersType
<1>4. rq \in Queue
  <2>1. rq.list = [p \in Prios |-> rq.list[p]]
    BY <1>2
  <2>2. rq.list \in [Prios -> Seq(Threads)]
    BY <1>3, <2>1
  <2> QED
    BY SMTT(30), <1>2, <2>2, NumberAssumption DEF Queue, Prios
<1>5. Params \in Ktcbs
  BY ParamAssumption DEF Ktcbs
<1>6. Exact(rq, sched)
  <2>1. \A t \in Threads : Params[t].prio \in Prios
    BY <1>5, PrioType
  <2>2. ASSUME NEW p \in Prios, NEW t, InList(rq.list[p], t)
        PROVE  t \in rq.ready /\ sched[t].prio = p /\ p <= rq.max
    <3>1. t \in Threads /\ Params[t].prio = p
      BY <1>3, <2>2
    <3>2. Params[t].prio <= rq.max
      BY <1>2, <3>1
    <3> QED
      BY <1>1, <1>2, <3>1, <3>2
  <2>3. ASSUME NEW t \in rq.ready PROVE InList(rq.list[sched[t].prio], t)
    BY <1>1, <1>2, <1>3, <2>1
  <2> QED
    BY <1>3, <2>2, <2>3 DEF Exact
<1>7. TypeOK
  <2>1. state \in [Threads -> States] /\ panic \in BOOLEAN
    BY <1>1 DEF States
  <2> QED
    BY <1>1, <1>4, <1>5, <2>1, EmptyQueue DEF TypeOK, Queue, Ktcbs, Tcbs
<1>8. QueuesExact
  BY <1>6, ExactIs
<1>9. TimeoutArmed
  BY <1>1 DEF TimeoutArmed
<1>10. OwnerKnown /\ CurrentRuns
  BY <1>1 DEF OwnerKnown, CurrentRuns, Tcbs
<1> QED
  BY <1>7, <1>8, <1>9, <1>10 DEF Inv

\* Every step keeps the invariant.
LEMMA InvInductive ==
    ASSUME Inv, [Next]_vars
    PROVE  Inv'
<1>1. CASE UNCHANGED vars
  BY <1>1 DEF vars, flags, Inv, TypeOK, OwnerKnown, CurrentRuns, QueuesExact, TimeoutArmed
<1>2. ASSUME NEW t \in Threads, IpcStep(t) PROVE Inv'
  BY <1>2, InvSend, InvBlock, InvAnswer, InvLeaveQueue DEF IpcStep
<1>3. ASSUME NEW t \in Threads, SystemCall(t) PROVE Inv'
  BY <1>3, InvThreadSwitch, InvHalt, InvResume, InvDelete, InvSysSchedule, InvYield, InvSetDelay
     DEF SystemCall
<1>4. ASSUME TimerInterrupt PROVE Inv'
  <2>1. PICK due \in SUBSET Threads :
            TickIdle(due) \/ TickWithin(due) \/ TickDelayed(due) \/ TickExpired(due)
    BY <1>4 DEF TimerInterrupt
  <2> QED
    BY <2>1, InvTickIdle, InvTickWithin, InvTickDelayed, InvTickExpired
<1>5. ASSUME NEW h \in Threads, Interrupt(h) PROVE Inv'
  BY <1>5, InvInterrupt
<1>6. ASSUME IdleSchedule PROVE Inv'
  BY <1>6, InvIdleSchedule
<1> QED
  BY <1>1, <1>2, <1>3, <1>4, <1>5, <1>6 DEF Next

\* The invariant holds in every state.
LEMMA InvAlways == Spec => []Inv
<1>1. Init => Inv
  BY InvInit
<1>2. Inv /\ [Next]_vars => Inv'
  BY InvInductive
<1> QED
  BY <1>1, <1>2, PTL DEF Spec

\* The scheduler's variables have their types: the threads it runs and charges are
\* threads, and nobody's timeslice is charged only once the kernel has stopped.
THEOREM SchedulerTypes == Spec => []TypeOK
<1>1. Inv => TypeOK
  BY DEF Inv
<1> QED
  BY <1>1, InvAlways, PTL

\* A thread whose ready flag is set stands in one queue, once, that of its
\* priority, at or below max_prio, whatever the order of wakeups, ends of
\* timeslices and changes of priority: find_next_thread will meet it.
THEOREM ReadyThreadsQueued == Spec => []QueuesExact
<1>1. Inv => QueuesExact
  BY DEF Inv
<1> QED
  BY <1>1, InvAlways, PTL

\* A thread that waits with a timeout is in the wakeup queue, and no thread is in
\* it twice, though its entry may outlive the wait it was made for.
THEOREM TimeoutsArmed == Spec => []TimeoutArmed
<1>1. Inv => TimeoutArmed
  BY DEF Inv
<1> QED
  BY <1>1, InvAlways, PTL

-----------------------------------------------------------------------------
(* Nobody is lost                                                           *)

\* Every thread that can run is found, thread by thread.
LEMMA FoundIs ==
    NoLostRunnable <=> \A u \in Threads : state[u] = "running" => u = current \/ u \in rq.ready
BY DEF NoLostRunnable, Runnable

\* Messages.
LEMMA FoundIpc ==
    ASSUME Inv, NoLostRunnable, NEW t \in Threads, IpcStep(t)
    PROVE  NoLostRunnable'
<1>1. \A u \in Threads : state[u] = "running" => u = current \/ u \in rq.ready
  BY FoundIs
<1>2. SUFFICES \A u \in Threads : state'[u] = "running" => u = current' \/ u \in rq'.ready
  BY DEF NoLostRunnable, Runnable
<1>3. ASSUME NEW to \in Threads \ {t}, Send(t, to)
      PROVE  \A u \in Threads : state'[u] = "running" => u = current' \/ u \in rq'.ready
  <2>1. /\ ~panic /\ current = t /\ ScheduleCheck(to)
        /\ state' = [state EXCEPT ![to] = "running"]
    BY <1>3 DEF Send, User
  <2>2. \/ current' = to /\ rq'.ready = rq.ready \cup ({current} \ {idle})
        \/ current' = current /\ rq'.ready = rq.ready \cup {to}
    BY <2>1, ScheduleCheckExact
  <2> QED
    BY <1>1, <2>1, <2>2, Before
<1>4. ASSUME NEW to \in Waiting(state) \cup {idle},
             NEW how \in {"waiting_forever", "waiting_timeout"}, Block(t, to, how)
      PROVE  \A u \in Threads : state'[u] = "running" => u = current' \/ u \in rq'.ready
  <2>1. /\ current = t /\ current' = to /\ rq' = rq
        /\ state' = [s \in Threads |-> CASE s = t -> how [] s = to -> "running"
                                         [] OTHER -> state[s]]
    BY <1>4 DEF Block, User, Donate
  <2>2. ASSUME NEW u \in Threads, state'[u] = "running"
        PROVE  u = to \/ (u # t /\ state[u] = "running")
    <3>1. state'[u] = CASE u = t -> how [] u = to -> "running" [] OTHER -> state[u]
      BY <2>1
    <3>2. CASE u = t
      BY <2>2, <3>1, <3>2
    <3>3. CASE u # t /\ u # to
      BY <2>2, <3>1, <3>3
    <3> QED
      BY <3>2, <3>3
  <2> QED
    BY <1>1, <2>1, <2>2
<1>5. ASSUME NEW from \in Threads \ {t}, NEW to \in Threads \ {t}, Answer(t, from, to)
      PROVE  \A u \in Threads : state'[u] = "running" => u = current' \/ u \in rq'.ready
  <2>1. /\ ~panic /\ current = t
        /\ state' = [state EXCEPT ![from] = "running", ![to] = "running",
                                  ![t] = "waiting_forever"]
        /\ \/ rq' = Enqueue(rq, sched, from) /\ current' = to
           \/ rq' = Enqueue(rq, sched, to) /\ current' = from
    BY <1>5 DEF Answer, User
  <2>2. \/ rq'.ready = rq.ready \cup {from} /\ current' = to
        \/ rq'.ready = rq.ready \cup {to} /\ current' = from
    BY <2>1, Before, EnqueueExact
  <2> QED
    BY <1>1, <2>1, <2>2, Before
<1>6. ASSUME LeaveQueue(t)
      PROVE  \A u \in Threads : state'[u] = "running" => u = current' \/ u \in rq'.ready
  BY <1>1, <1>6 DEF LeaveQueue
<1> QED
  BY <1>3, <1>4, <1>5, <1>6 DEF IpcStep

\* System calls other than ThreadSwitch to a thread, which queues nobody.
LEMMA FoundCall ==
    ASSUME Inv, NoLostRunnable, Donors = {}, NEW t \in Threads, SystemCall(t)
    PROVE  NoLostRunnable'
<1>1. \A u \in Threads : state[u] = "running" => u = current \/ u \in rq.ready
  BY FoundIs
<1>2. SUFFICES \A u \in Threads : state'[u] = "running" => u = current' \/ u \in rq'.ready
  BY DEF NoLostRunnable, Runnable
<1>3. ASSUME NEW v \in Threads, Halt(t, v)
      PROVE  \A u \in Threads : state'[u] = "running" => u = current' \/ u \in rq'.ready
  <2> DEFINE st == [state EXCEPT ![v] = "halted"]
  <2>1. ~panic /\ current = t /\ state' = st /\ Schedule(rq, sched, st)
    BY <1>3 DEF Halt, User
  <2>2. st \in [Threads -> States] /\ \A u \in Threads : st[u] = "running" => state[u] = "running"
    BY <2>1, Before DEF States
  <2> HIDE DEF st
  <2>3. /\ \A u \in rq.ready : st[u] = "running" => u \in rq'.ready
        /\ current \in {current', idle} \cup rq'.ready
    BY <2>1, <2>2, Before, ScheduleExact
  <2> QED
    BY <1>1, <2>1, <2>2, <2>3, Before
<1>4. ASSUME NEW v \in Threads, Resume(t, v)
      PROVE  \A u \in Threads : state'[u] = "running" => u = current' \/ u \in rq'.ready
  <2> DEFINE st == [state EXCEPT ![v] = "running"]
             q == Enqueue(rq, sched, v)
  <2>1. ~panic /\ current = t /\ state' = st /\ Schedule(q, sched, st)
    BY <1>4 DEF Resume, User
  <2>2. st \in [Threads -> States] /\ \A u \in Threads : st[u] = "running" => state[u] = "running" \/ u = v
    BY <2>1, Before DEF States
  <2>3. q \in Queue /\ Exact(q, sched) /\ q.ready = rq.ready \cup {v}
    BY <2>1, Before, EnqueueExact
  <2> HIDE DEF st, q
  <2>4. /\ \A u \in q.ready : st[u] = "running" => u \in rq'.ready
        /\ current \in {current', idle} \cup rq'.ready
    BY <2>1, <2>2, <2>3, Before, ScheduleExact
  <2> QED
    BY <1>1, <2>1, <2>2, <2>3, <2>4, Before
<1>5. ASSUME NEW v \in Threads, Delete(t, v)
      PROVE  \A u \in Threads : state'[u] = "running" => u = current' \/ u \in rq'.ready
  <2>1. /\ ~panic /\ current' = current /\ rq' = Dequeue(rq, sched, v)
        /\ state' = [state EXCEPT ![v] = "aborted"]
    BY <1>5 DEF Delete, User
  <2>2. rq'.ready = rq.ready \ {v}
    BY <2>1, Before, DequeueExact
  <2> QED
    BY <1>1, <2>1, <2>2, Before
<1>6. ASSUME NEW r \in Requests[t], SysSchedule(t, r)
      PROVE  \A u \in Threads : state'[u] = "running" => u = current' \/ u \in rq'.ready
  <2> DEFINE q == Dequeue(rq, sched, r.dest)
             s == WithPriority(sched, r)
  <2>1. /\ ~panic /\ current' = current /\ state' = state
        /\ rq' = IF r.prio = nil THEN rq ELSE Enqueue(q, s, r.dest)
    BY <1>6 DEF SysSchedule, User
  <2>2. r \in Request /\ r.dest \in Threads
    BY ParamAssumption DEF Request
  <2>3. q.ready = rq.ready \ {r.dest}
    BY <2>1, <2>2, Before, DequeueExact
  <2>4. Enqueue(q, s, r.dest).ready = q.ready \cup {r.dest}
    BY DEF Enqueue
  <2> HIDE DEF q, s
  <2> QED
    BY <1>1, <2>1, <2>3, <2>4
<1>7. ASSUME Yield(t)
      PROVE  \A u \in Threads : state'[u] = "running" => u = current' \/ u \in rq'.ready
  <2> DEFINE q == TimesliceQueues(rq, sched)
  <2>1. ~panic /\ current = t /\ state' = state /\ Schedule(q, sched, state)
    BY <1>7 DEF Yield, User
  <2>2. q \in Queue /\ Exact(q, sched) /\ q.ready = rq.ready \cup {current}
    BY <2>1, Before, TimesliceQueuesExact
  <2> HIDE DEF q
  <2>3. \A u \in q.ready : state[u] = "running" => u \in rq'.ready
    BY <2>1, <2>2, Before, ScheduleExact
  <2> QED
    BY <1>1, <2>1, <2>2, <2>3
<1>8. ASSUME SetDelay(t)
      PROVE  \A u \in Threads : state'[u] = "running" => u = current' \/ u \in rq'.ready
  BY <1>1, <1>8 DEF SetDelay
<1>9. \A v \in Threads : ~ThreadSwitch(t, v)
  BY DEF ThreadSwitch
<1> QED
  BY <1>3, <1>4, <1>5, <1>6, <1>7, <1>8, <1>9 DEF SystemCall

\* Interrupts: of a device, of the timer.
LEMMA FoundTick ==
    ASSUME Inv, NoLostRunnable, TimerInterrupt
    PROVE  NoLostRunnable'
<1>1. \A u \in Threads : state[u] = "running" => u = current \/ u \in rq.ready
  BY FoundIs
<1>2. SUFFICES \A u \in Threads : state'[u] = "running" => u = current' \/ u \in rq'.ready
  BY DEF NoLostRunnable, Runnable
<1>3. PICK due \in SUBSET Threads :
          TickIdle(due) \/ TickWithin(due) \/ TickDelayed(due) \/ TickExpired(due)
  BY DEF TimerInterrupt
<1>4. ParseWakeupQueues(due)
  BY <1>3 DEF TickIdle, TickWithin, TickDelayed, TickExpired
<1>5. ~panic /\ current \in Tcbs /\ idle \notin Threads /\ state' \in [Threads -> States]
  BY <1>4, TickWakes, Before
<1>6. \A u \in Threads : state'[u] = "running" => u = current \/ u \in QueuesAfter(due).ready
  BY <1>1, <1>4, TickWakes
<1>7. CASE TickIdle(due)
  <2>1. rq' = QueuesAfter(due) /\ current' = current
    BY <1>7 DEF TickIdle
  <2> QED
    BY <1>6, <2>1
<1>8. CASE WakeupPreemption(due)
  <2>1. rq'.ready = QueuesAfter(due).ready \cup ({current} \ {idle, current'})
    BY <1>4, <1>8, WakeupSwitches
  <2> QED
    BY <1>5, <1>6, <2>1
<1>9. CASE TickExpired(due)
  <2> DEFINE q == TimesliceQueues(QueuesAfter(due), sched)
  <2>1. /\ q \in Queue /\ Exact(q, sched) /\ q.ready = QueuesAfter(due).ready \cup {current}
        /\ sched' \in Ktcbs /\ \A u \in Tcbs : sched'[u].prio = sched[u].prio
        /\ \/ panic' = TRUE /\ rq' = q /\ timeslice_tcb' = null /\ current' = current
           \/ panic' = panic /\ Schedule(q, sched', state')
    BY <1>9, TickExpires
  <2> HIDE DEF q
  <2>2. \A u \in Threads : state'[u] = "running" => u \in q.ready
    BY <1>6, <2>1
  <2>3. CASE rq' = q
    BY <2>2, <2>3
  <2>4. CASE Schedule(q, sched', state')
    <3>1. Exact(q, sched')
      <4>1. \A u \in q.ready : sched'[u].prio = sched[u].prio
        BY <2>1 DEF Queue, Tcbs
      <4> QED
        BY <2>1, <4>1, ExactSamePrio
    <3>2. \A u \in q.ready : state'[u] = "running" => u \in rq'.ready
      BY <1>5, <2>1, <2>4, <3>1, Before, ScheduleExact
    <3> QED
      BY <2>2, <3>2
  <2> QED
    BY <2>1, <2>3, <2>4
<1> QED
  BY <1>3, <1>7, <1>8, <1>9 DEF TickWithin, TickDelayed

\* A thread that can run runs or stands in the ready queue, from where the
\* scheduler dispatches it, as long as nobody calls ThreadSwitch to a thread.
THEOREM RunnableFound ==
    ASSUME Donors = {}
    PROVE  Spec => []NoLostRunnable
<1>1. Init => NoLostRunnable
  BY DEF Init, NoLostRunnable, Runnable
<1>2. ASSUME Inv, NoLostRunnable, [Next]_vars PROVE NoLostRunnable'
  <2>1. CASE UNCHANGED vars
    BY <1>2, <2>1 DEF vars, NoLostRunnable, Runnable
  <2>2. ASSUME NEW t \in Threads, IpcStep(t) PROVE NoLostRunnable'
    BY <1>2, <2>2, FoundIpc
  <2>3. ASSUME NEW t \in Threads, SystemCall(t) PROVE NoLostRunnable'
    BY <1>2, <2>3, FoundCall
  <2>4. ASSUME TimerInterrupt PROVE NoLostRunnable'
    BY <1>2, <2>4, FoundTick
  <2>5. ASSUME NEW h \in Threads, Interrupt(h) PROVE NoLostRunnable'
    <3>1. ~panic /\ state' = [state EXCEPT ![h] = "running"] /\ ScheduleCheck(h)
      BY <2>5 DEF Interrupt, Interruptible
    <3>2. \/ current' = h /\ rq'.ready = rq.ready \cup ({current} \ {idle})
          \/ current' = current /\ rq'.ready = rq.ready \cup {h}
      BY <1>2, <3>1, ScheduleCheckExact
    <3>3. \A u \in Threads : state'[u] = "running" => u = current' \/ u \in rq'.ready
      BY <1>2, <3>1, <3>2, FoundIs, Before
    <3> QED
      BY <3>3 DEF NoLostRunnable, Runnable
  <2>6. ASSUME IdleSchedule PROVE NoLostRunnable'
    <3>1. ~panic /\ current = idle /\ state' = state /\ Schedule(rq, sched, state)
      BY <2>6 DEF IdleSchedule
    <3>2. \A u \in rq.ready : state[u] = "running" => u \in rq'.ready
      BY <1>2, <3>1, Before, ScheduleExact
    <3>3. \A u \in Threads : state'[u] = "running" => u = current' \/ u \in rq'.ready
      BY <1>2, <3>1, <3>2, FoundIs, Before
    <3> QED
      BY <3>3 DEF NoLostRunnable, Runnable
  <2> QED
    BY <1>2, <2>1, <2>2, <2>3, <2>4, <2>5, <2>6 DEF Next
<1> QED
  BY <1>1, <1>2, InvAlways, PTL DEF Spec

\* schedule() on queues that hold every thread that can run dispatches one of
\* the highest priority.
LEMMA ScheduleHighest ==
    ASSUME TypeOK, NEW q \in Queue, NEW s \in Ktcbs, Exact(q, s), Schedule(q, s, state'),
           state' \in [Threads -> States], sched' \in Ktcbs,
           \A u \in Threads : state'[u] = "running" => u \in q.ready,
           \A u \in Threads : sched'[u].prio = s[u].prio
    PROVE  \A u \in Threads : state'[u] = "running" =>
               current' # idle /\ sched'[u].prio <= sched'[current'].prio
<1> SUFFICES ASSUME NEW u \in Threads, state'[u] = "running"
             PROVE  current' # idle /\ sched'[u].prio <= sched'[current'].prio
  OBVIOUS
<1> DEFINE st == state'
<1>1. st \in [Threads -> States] /\ Schedule(q, s, st)
  OBVIOUS
<1>2. u \in q.ready /\ st[u] = "running"
  OBVIOUS
<1> HIDE DEF st
<1>3. /\ current' # idle /\ s[u].prio <= s[current'].prio
      /\ current' \in Tcbs
  BY <1>1, <1>2, ScheduleExact
<1> QED
  BY <1>3 DEF Tcbs

\* Whenever a timeslice ends, is yielded, or the idle thread looks for work, a
\* thread of the highest priority runs, as long as nobody calls ThreadSwitch to
\* a thread, which loses the one that calls it.
THEOREM HighestRuns ==
    ASSUME Donors = {}
    PROVE  Spec => HighestFirst
<1> DEFINE Dispatched == \A t \in Threads : state'[t] = "running" =>
                             /\ current' # idle
                             /\ sched'[t].prio <= sched'[current'].prio
           Step == (IdleSchedule \/ (\E t \in Threads : Yield(t))
                    \/ (\E due \in SUBSET Threads : TickExpired(due))) => panic' \/ Dispatched
<1>1. ASSUME Inv, NoLostRunnable, Inv' PROVE Step
  <2>1. \A u \in Threads : state[u] = "running" => u = current \/ u \in rq.ready
    BY <1>1, FoundIs
  <2>2. state' \in [Threads -> States] /\ sched' \in Ktcbs
    BY <1>1 DEF Inv, TypeOK, Ktcbs
  <2>3. ASSUME IdleSchedule PROVE Dispatched
    <3>1. ~panic /\ Schedule(rq, sched, state) /\ state' = state /\ sched' = sched /\ current = idle
      BY <2>3 DEF IdleSchedule
    <3>2. \A u \in Threads : state[u] = "running" => u \in rq.ready
      BY <1>1, <2>1, <3>1, Before
    <3> QED
      BY <1>1, <2>2, <3>1, <3>2, Before, ScheduleHighest
  <2>4. ASSUME NEW t \in Threads, Yield(t) PROVE Dispatched
    <3> DEFINE q == TimesliceQueues(rq, sched)
    <3>1. ~panic /\ current = t /\ Schedule(q, sched, state) /\ state' = state
      BY <2>4 DEF Yield, User
    <3>2. \A u \in Tcbs : sched'[u].prio = sched[u].prio
      BY <1>1, <2>4, YieldPrio
    <3>3. q \in Queue /\ Exact(q, sched) /\ q.ready = rq.ready \cup {current}
      BY <1>1, <3>1, Before, TimesliceQueuesExact
    <3> HIDE DEF q
    <3>4. \A u \in Threads : state'[u] = "running" => u \in q.ready
      BY <2>1, <3>1, <3>3
    <3> QED
      BY <1>1, <2>2, <3>1, <3>2, <3>3, <3>4, Before, ScheduleHighest DEF Tcbs
  <2>5. ASSUME NEW due \in SUBSET Threads, TickExpired(due) PROVE panic' \/ Dispatched
    <3> DEFINE q == TimesliceQueues(QueuesAfter(due), sched)
    <3>1. /\ q \in Queue /\ Exact(q, sched) /\ q.ready = QueuesAfter(due).ready \cup {current}
          /\ ParseWakeupQueues(due) /\ \A u \in Tcbs : sched'[u].prio = sched[u].prio
          /\ panic' \/ Schedule(q, sched', state')
      BY <1>1, <2>5, TickExpires
    <3> HIDE DEF q
    <3>2. \A u \in Threads : state'[u] = "running" => u \in q.ready
      BY <1>1, <2>1, <3>1, TickWakes
    <3>3. Exact(q, sched')
      <4>1. \A u \in q.ready : sched'[u].prio = sched[u].prio
        BY <3>1 DEF Queue, Tcbs
      <4> QED
        BY <3>1, <4>1, ExactSamePrio
    <3> SUFFICES ASSUME ~panic' PROVE Dispatched
      OBVIOUS
    <3>4. Schedule(q, sched', state')
      BY <3>1
    <3> QED
      BY <1>1, <2>2, <3>1, <3>2, <3>3, <3>4, ScheduleHighest DEF Inv
  <2> QED
    BY <2>3, <2>4, <2>5
<1>2. Spec => []NoLostRunnable
  BY RunnableFound
<1>3. Inv /\ NoLostRunnable /\ Inv' => [Step]_vars
  BY <1>1
<1> QED
  BY <1>2, <1>3, InvAlways, PTL DEF HighestFirst

\* What the rest of the kernel sees of the wakeup queue.
Armed == {t \in Threads : InList(wakeup_list, t)}

\* Every IPC step is one of the operations of the dispatcher.
LEMMA DispatchesIpc ==
    ASSUME Inv, NEW t \in Threads, IpcStep(t)
    PROVE  D!Next
<1>1. ~panic /\ current = t /\ state[t] = "running" /\ t # idle /\ idle \notin Threads
  BY Before DEF IpcStep, Send, Block, Answer, LeaveQueue, User
<1>2. /\ state \in [Threads -> States]
      /\ \A u \in Threads : Armed \ {u} = {v \in Threads : InList(CancelTimeout(u), v)}
  BY Before, <1>1, CancelArmed DEF Armed
<1>3. ASSUME NEW to \in Threads \ {t}, Send(t, to) PROVE D!Offer(to)
  <2>1. /\ state[to] # "running" /\ state' = [state EXCEPT ![to] = "running"]
        /\ ScheduleCheck(to)
        /\ wakeup_list' = IF current' = to THEN wakeup_list ELSE CancelTimeout(to)
    BY <1>3 DEF Send, Waiting
  <2>2. to \notin Runnable(state) /\ Runnable(state)' = Runnable(state) \cup {to}
    BY <1>2, <2>1 DEF Runnable
  <2>3. D!ScheduleCheck(to)
    BY <1>1, <2>1, ScheduleCheckExact DEF D!ScheduleCheck, D!CurrentReady
  <2>4. Armed' \in {Armed, IF current' = to THEN Armed ELSE Armed \ {to}}
    BY <1>2, <2>1 DEF Armed
  <2> QED
    BY <2>2, <2>3, <2>4 DEF D!Offer, Armed
<1>4. ASSUME NEW to \in Waiting(state) \cup {idle},
             NEW how \in {"waiting_forever", "waiting_timeout"}, Block(t, to, how)
      PROVE  D!Block(to)
  <2>1. /\ \A s \in Threads : state'[s] = IF s = t THEN how ELSE IF s = to THEN "running" ELSE state[s]
        /\ wakeup_list' = IF how = "waiting_timeout" THEN EnqueueTail(wakeup_list, t)
                                                     ELSE wakeup_list
        /\ current' = to /\ rq' = rq
    BY <1>4, BlockStates DEF Block, Donate
  <2>2. to \notin Runnable(state)
    BY <1>1 DEF Waiting, Runnable
  <2>3. Runnable(state)' = (Runnable(state) \ {current}) \cup ({to} \ {idle})
    BY <1>1, <2>1 DEF Waiting, Runnable
  <2>4. Armed' \in {Armed, Armed \cup {current}}
    BY <1>1, <2>1, Before, AppendMembers DEF EnqueueTail, Armed
  <2> QED
    BY <1>1, <2>1, <2>2, <2>3, <2>4 DEF D!Block, D!SwitchTo, D!schedVars, Armed
<1>5. ASSUME NEW from \in Threads \ {t}, NEW to \in Threads \ {t}, Answer(t, from, to)
      PROVE  from # to /\ D!Answer(from, to)
  <2>1. /\ from # to /\ state[from] # "running" /\ state[to] # "running"
        /\ state' = [state EXCEPT ![from] = "running", ![to] = "running",
                                  ![t] = "waiting_forever"]
        /\ \/ /\ wakeup_list' = CancelTimeout(from)
              /\ rq' = Enqueue(rq, sched, from) /\ current' = to
           \/ /\ wakeup_list' = wakeup_list
              /\ rq' = Enqueue(rq, sched, to) /\ current' = from
    BY <1>5 DEF Answer, Waiting
  <2>2. /\ from \notin Runnable(state) /\ to \notin Runnable(state)
        /\ Runnable(state)' = (Runnable(state) \ {current}) \cup {from, to}
    BY <1>1, <1>2, <2>1 DEF Runnable
  <2>3. \A u \in Threads : Enqueue(rq, sched, u).ready = rq.ready \cup {u}
    BY <1>1, Before, EnqueueExact
  <2>4. \/ current' = to /\ rq'.ready = rq.ready \cup {from} /\ Armed' = Armed \ {from}
        \/ current' = from /\ rq'.ready = rq.ready \cup {to} /\ Armed' = Armed
    BY <1>2, <2>1, <2>3 DEF Armed
  <2> QED
    BY <1>1, <2>1, <2>2, <2>4 DEF D!Answer, D!ScheduleReplyWait, Armed
<1>6. ASSUME LeaveQueue(t) PROVE D!LeaveQueue
  <2>1. wakeup_list' = CancelTimeout(t) /\ UNCHANGED <<state, rq, current>>
    BY <1>6 DEF LeaveQueue
  <2>2. Armed' = Armed \ {current} /\ UNCHANGED <<rq.ready, current, Runnable(state)>>
    BY <1>1, <1>2, <2>1 DEF Armed
  <2> QED
    BY <2>2 DEF D!LeaveQueue, D!CancelTimeout, D!schedVars, Armed
<1> QED
  BY <1>3, <1>4, <1>5, <1>6 DEF IpcStep, D!Next, Waiting

\* Every system call is one of the operations of the dispatcher, or nothing
\* that it knows of.
LEMMA DispatchesCall ==
    ASSUME Inv, NEW t \in Threads, SystemCall(t)
    PROVE  [D!Next]_(D!vars)
<1>1. ~panic /\ current = t /\ state[t] = "running" /\ t # idle /\ idle \notin Threads
  BY Before DEF SystemCall, ThreadSwitch, Halt, Resume, Delete, SysSchedule, Yield, SetDelay, User
<1>2. /\ state \in [Threads -> States]
      /\ \A u \in Threads : Armed \ {u} = {v \in Threads : InList(CancelTimeout(u), v)}
  BY Before, <1>1, CancelArmed DEF Armed
<1>3. ASSUME NEW v \in Threads, ThreadSwitch(t, v) PROVE D!Donate(v)
  BY <1>1, <1>3 DEF ThreadSwitch, D!Donate, D!SwitchTo, D!schedVars, Runnable
<1>4. ASSUME NEW v \in Threads, Halt(t, v) PROVE D!Halt(v)
  <2>1. /\ state[v] = "running" /\ state' = [state EXCEPT ![v] = "halted"]
        /\ Schedule(rq, sched, state') /\ wakeup_list' = wakeup_list
    BY <1>4 DEF Halt
  <2>2. state' \in [Threads -> States]
    BY <1>2, <2>1 DEF States
  <2>3. D!Schedule(rq.ready, Runnable(state'))
    BY <1>1, <2>1, <2>2, Before, ScheduleExact
  <2>4. v \in Runnable(state) /\ Runnable(state') = Runnable(state) \ {v}
    BY <1>2, <2>1 DEF Runnable
  <2> QED
    BY <1>1, <2>1, <2>3, <2>4 DEF D!Halt, Runnable
<1>5. ASSUME NEW v \in Threads, Resume(t, v) PROVE D!Resume(v)
  <2> DEFINE q == Enqueue(rq, sched, v)
  <2>1. /\ state[v] = "halted" /\ state' = [state EXCEPT ![v] = "running"]
        /\ Schedule(q, sched, state') /\ wakeup_list' = wakeup_list
    BY <1>5 DEF Resume
  <2>2. state' \in [Threads -> States]
    BY <1>2, <2>1 DEF States
  <2>3. q \in Queue /\ Exact(q, sched) /\ q.ready = rq.ready \cup {v}
    BY <1>1, Before, EnqueueExact
  <2> HIDE DEF q
  <2>4. D!Schedule(rq.ready \cup {v}, Runnable(state'))
    <3>1. D!Schedule(q.ready, Runnable(state'))
      BY <1>1, <2>1, <2>2, <2>3, Before, ScheduleExact
    <3> QED
      BY <2>3, <3>1
  <2>5. v \notin Runnable(state) /\ Runnable(state') = Runnable(state) \cup {v}
    BY <1>2, <2>1 DEF Runnable
  <2> QED
    BY <1>1, <2>1, <2>4, <2>5 DEF D!Resume, Runnable
<1>6. ASSUME NEW v \in Threads, Delete(t, v) PROVE D!Delete(v)
  <2>1. /\ v # t /\ state' = [state EXCEPT ![v] = "aborted"] /\ current' = current
        /\ rq' = Dequeue(rq, sched, v)
        /\ wakeup_list' \in {wakeup_list, CancelTimeout(v)}
    BY <1>6 DEF Delete
  <2>2. rq'.ready = rq.ready \ {v}
    BY <1>1, <2>1, Before, DequeueExact
  <2>3. Runnable(state)' = Runnable(state) \ {v}
    BY <1>2, <2>1 DEF Runnable
  <2>4. Armed' \in {Armed, Armed \ {v}}
    BY <1>2, <2>1 DEF Armed
  <2> QED
    BY <1>1, <2>1, <2>2, <2>3, <2>4 DEF D!Delete, Armed
<1>7. ASSUME NEW r \in Requests[t], SysSchedule(t, r) PROVE [D!Next]_(D!vars)
  <2>1. /\ rq' = IF r.prio = nil THEN rq
                 ELSE Enqueue(Dequeue(rq, sched, r.dest), WithPriority(sched, r), r.dest)
        /\ UNCHANGED <<state, current, wakeup_list>>
    BY <1>7 DEF SysSchedule
  <2>2. CASE r.prio = nil
    BY <2>1, <2>2 DEF D!vars, D!schedVars
  <2>3. CASE r.prio # nil
    <3> DEFINE s == WithPriority(sched, r)
               q == Dequeue(rq, sched, r.dest)
    <3>1. r \in Request
      BY ParamAssumption
    <3>2. r.dest \in Threads
      BY <3>1 DEF Request
    <3>3. s \in Ktcbs /\ \A u \in Tcbs : u # r.dest => s[u].prio = sched[u].prio
      BY <1>1, <3>1, Before, RequestType
    <3>4. /\ q \in Queue /\ Exact(q, sched) /\ q.ready = rq.ready \ {r.dest}
      BY <1>1, <3>2, Before, DequeueExact
    <3>5. Exact(q, s)
      <4>1. \A u \in q.ready : s[u].prio = sched[u].prio
        BY <1>1, <3>3, <3>4, Before DEF Queue, Tcbs
      <4> QED
        BY <3>4, <4>1, ExactSamePrio
    <3>6. rq' = Enqueue(q, s, r.dest)
      BY <2>1, <2>3
    <3> HIDE DEF q, s
    <3>7. rq'.ready = q.ready \cup {r.dest}
      BY <3>2, <3>3, <3>4, <3>5, <3>6, EnqueueExact
    <3>8. D!Requeue(r.dest)
      BY <1>1, <2>1, <3>2, <3>4, <3>7 DEF D!Requeue
    <3> QED
      BY <3>2, <3>8 DEF D!Next
  <2> QED
    BY <2>2, <2>3
<1>8. ASSUME Yield(t) PROVE D!Yield
  <2> DEFINE q == TimesliceQueues(rq, sched)
  <2>1. Schedule(q, sched, state) /\ UNCHANGED <<state, wakeup_list>>
    BY <1>8 DEF Yield
  <2>2. q \in Queue /\ Exact(q, sched) /\ q.ready = rq.ready \cup {current}
    BY <1>1, Before, TimesliceQueuesExact
  <2> HIDE DEF q
  <2>3. D!Schedule(rq.ready \cup {current}, Runnable(state))
    BY ZenonT(40), <1>1, <2>1, <2>2, Before, ScheduleExact
  <2> QED
    BY <1>1, <2>1, <2>3 DEF D!Yield
<1>9. ASSUME SetDelay(t) PROVE UNCHANGED D!vars
  BY <1>9 DEF SetDelay, D!vars, D!schedVars
<1> QED
  BY <1>3, <1>4, <1>5, <1>6, <1>7, <1>8, <1>9 DEF SystemCall, D!Next

\* schedule() may let the current thread run on.
LEMMA RunsOn ==
    ASSUME NEW q \in SUBSET Threads, NEW run \in SUBSET Threads,
           current \in q \cap run, current' = current, rq'.ready = q
    PROVE  D!Schedule(q, run)
<1> DEFINE next == [tcb |-> current, ready |-> q]
<1>1. next \in D!FindNext(q, run)
  BY DEF D!FindNext
<1>2. current' = next.tcb /\ rq'.ready = next.ready \cup ({current} \ {next.tcb, idle})
  OBVIOUS
<1> QED
  BY <1>1, <1>2 DEF D!Schedule

\* A timer tick wakes threads and may end the timeslice: a Tick.
LEMMA DispatchesTick ==
    ASSUME Inv, TimerInterrupt
    PROVE  D!Tick
<1>1. PICK due \in SUBSET Threads :
          /\ \A t \in due : InList(wakeup_list, t)
          /\ TickIdle(due) \/ TickWithin(due) \/ TickDelayed(due) \/ TickExpired(due)
  BY DEF TimerInterrupt
<1>2. ParseWakeupQueues(due)
  BY <1>1 DEF TickIdle, TickWithin, TickDelayed, TickExpired
<1> DEFINE woken == {u \in Threads : InList(Woken(due), u)}
<1>3. ~panic /\ state' \in [Threads -> States] /\ idle \notin Threads /\ current \in Tcbs
  BY <1>2, TickWakes, Before
<1>4. due \in SUBSET Armed /\ woken \in SUBSET due
  BY <1>1, <1>3, Before, WokenMembers DEF Armed
<1>5. Armed' = Armed \ due /\ Runnable(state)' = Runnable(state) \cup woken
  BY <1>2, TickWakes DEF Armed, Runnable
<1>6. QueuesAfter(due).ready = rq.ready \cup woken
  BY <1>2, TickWakes
<1>7. current # idle => current \in Runnable(state)'
  BY <1>3, <1>5, Before DEF Runnable, Tcbs
<1> HIDE DEF woken
<1>8. \/ current' = current /\ rq'.ready = rq.ready \cup woken
      \/ /\ current # idle /\ current' \in woken
         /\ rq'.ready = rq.ready \cup woken \cup {current}
      \/ current # idle /\ D!Schedule(rq.ready \cup woken \cup {current}, Runnable(state)')
  <2>1. CASE TickIdle(due)
    BY <1>6, <2>1 DEF TickIdle
  <2>2. CASE current # idle /\ WakeupPreemption(due)
    <3>1. /\ current' = HighestWakeup(due)
          /\ rq'.ready = QueuesAfter(due).ready \cup ({current} \ {idle, current'})
      BY <1>2, <2>2, WakeupSwitches
    <3>2. current' = current \/ InList(Woken(due), current')
      BY <1>3, <3>1, Before, HighestWakes
    <3>3. InList(Woken(due), current') => current' \in woken
      BY <1>3, Before, WokenMembers, ListedType DEF woken
    <3> QED
      BY <1>6, <2>2, <3>1, <3>2, <3>3
  <2>3. CASE TickExpired(due)
    <3> DEFINE q == TimesliceQueues(QueuesAfter(due), sched)
    <3>1. /\ q \in Queue /\ Exact(q, sched) /\ q.ready = QueuesAfter(due).ready \cup {current}
          /\ sched' \in Ktcbs /\ \A u \in Tcbs : sched'[u].prio = sched[u].prio
          /\ current \in Threads
          /\ \/ rq' = q /\ current' = current
             \/ Schedule(q, sched', state')
      BY <2>3, TickExpires
    <3> HIDE DEF q
    <3>2. Exact(q, sched')
      <4>1. \A u \in q.ready : sched'[u].prio = sched[u].prio
        BY <3>1 DEF Queue, Tcbs
      <4> QED
        BY <3>1, <4>1, ExactSamePrio
    <3>3. q.ready \in SUBSET Threads /\ Runnable(state') \in SUBSET Threads /\ current # idle
      BY <1>3, <3>1 DEF Queue, Runnable
    <3>4. Runnable(state') = Runnable(state)'
      BY DEF Runnable
    <3>5. D!Schedule(q.ready, Runnable(state'))
      <4>1. CASE rq' = q /\ current' = current
        BY <1>7, <3>1, <3>3, <3>4, <4>1, RunsOn
      <4>2. CASE Schedule(q, sched', state')
        BY <1>3, <3>1, <3>2, <4>2, Before, ScheduleExact
      <4> QED
        BY <3>1, <4>1, <4>2
    <3> QED
      BY <1>6, <3>1, <3>3, <3>4, <3>5
  <2> QED
    BY <1>1, <2>1, <2>2, <2>3 DEF TickWithin, TickDelayed
<1> QED
  BY <1>4, <1>5, <1>8 DEF D!Tick, Armed

\* The scheduler implements what the rest of the kernel relies on: every step
\* is an operation of the dispatcher, on the threads that the queues hold.
THEOREM ImplementsOperations == Spec => ImplementsDispatcher
<1>1. Init => D!Init
  <2> SUFFICES ASSUME Init PROVE D!Init
    OBVIOUS
  <2>1. Runnable(state) = Threads
    BY DEF Init, Runnable
  <2>2. rq.ready = Threads /\ current = idle
    BY DEF Init
  <2>3. Armed = {}
    BY DEF Init, Armed, InList
  <2> QED
    BY <2>1, <2>2, <2>3 DEF D!Init, Armed
<1>2. ASSUME Inv, [Next]_vars PROVE [D!Next]_(D!vars)
  <2>1. CASE UNCHANGED vars
    BY <2>1 DEF vars, D!vars, D!schedVars
  <2>2. ASSUME NEW t \in Threads, IpcStep(t) PROVE D!Next
    BY <1>2, <2>2, DispatchesIpc
  <2>3. ASSUME NEW t \in Threads, SystemCall(t) PROVE [D!Next]_(D!vars)
    BY <1>2, <2>3, DispatchesCall
  <2>4. ASSUME TimerInterrupt PROVE D!Next
    BY <1>2, <2>4, DispatchesTick DEF D!Next
  <2>5. ASSUME NEW h \in Threads, Interrupt(h) PROVE D!Next
    <3>1. /\ ~panic /\ state[h] # "running" /\ state' = [state EXCEPT ![h] = "running"]
          /\ ScheduleCheck(h) /\ wakeup_list' = wakeup_list
      BY <2>5 DEF Interrupt, Interruptible, Waiting
    <3>2. h \notin Runnable(state) /\ Runnable(state)' = Runnable(state) \cup {h}
      BY <1>2, <3>1, Before DEF Runnable
    <3>3. D!ScheduleCheck(h)
      BY <1>2, <3>1, ScheduleCheckExact DEF D!ScheduleCheck, D!CurrentReady
    <3>4. D!Offer(h)
      BY <3>1, <3>2, <3>3 DEF D!Offer
    <3> QED
      BY <3>4 DEF D!Next
  <2>6. ASSUME IdleSchedule PROVE D!IdleSchedule
    <3>1. /\ ~panic /\ current = idle /\ Schedule(rq, sched, state)
          /\ UNCHANGED <<state, wakeup_list>>
      BY <2>6 DEF IdleSchedule
    <3>2. D!Schedule(rq.ready, Runnable(state))
      BY <1>2, <3>1, Before, ScheduleExact
    <3> QED
      BY <3>1, <3>2 DEF D!IdleSchedule
  <2> QED
    BY <1>2, <2>1, <2>2, <2>3, <2>4, <2>5, <2>6 DEF Next, D!Next
<1> QED
  BY <1>1, <1>2, InvAlways, PTL DEF Spec, ImplementsDispatcher, D!Spec

-----------------------------------------------------------------------------
(* Wakeups preempt                                                          *)

\* set_priority keeps the sensitive priority from falling below the priority.
Above(s) == \A u \in Tcbs : s[u].prio <= s[u].sens

\* Schedule changes parameters, and keeps it so.
LEMMA AboveRequest ==
    ASSUME NEW s \in Ktcbs, Above(s), NEW r \in Request
    PROVE  Above(WithTime(WithPreemption(WithPriority(s, r), r), r))
<1> DEFINE a == WithPriority(s, r)
           b == WithPreemption(a, r)
           c == WithTime(b, r)
<1>1. /\ r.dest \in Tcbs /\ (r.prio # nil => r.prio \in Prios)
      /\ (r.preempt # nil => r.preempt.sens \in Prios /\ r.preempt.maxdelay \in Nat)
  BY DEF Request, Tcbs
<1>2. a \in Ktcbs /\ b \in Ktcbs
  BY RequestType
<1>3. Above(a)
  BY <1>1, NumberAssumption DEF WithPriority, Above, Ktcbs, Ktcb, Prios
<1> HIDE DEF a
<1>4. ASSUME NEW u \in Tcbs
      PROVE  /\ b[u].prio = a[u].prio
             /\ b[u].sens = IF u = r.dest /\ r.preempt # nil /\ r.preempt.sens >= a[u].prio
                            THEN r.preempt.sens ELSE a[u].sens
  BY <1>1, <1>2 DEF WithPreemption, Ktcbs, Ktcb
<1>5. Above(b)
  <2>1. \A u \in Tcbs : a[u].prio \in Prios /\ a[u].sens \in Prios
    BY <1>2 DEF Ktcbs, Ktcb
  <2> HIDE DEF b
  <2> QED
    BY <1>1, <1>3, <1>4, <2>1, NumberAssumption DEF Above, Prios
<1> HIDE DEF b
<1>6. \A u \in Tcbs : c[u].prio = b[u].prio /\ c[u].sens = b[u].sens
  BY <1>1, <1>2 DEF WithTime, Ktcbs, Ktcb
<1> HIDE DEF c
<1>7. Above(c)
  BY <1>5, <1>6 DEF Above
<1> QED
  BY <1>7 DEF a, b, c

\* Equal parameters rank equally.
LEMMA AboveSame ==
    ASSUME Above(sched), \A u \in Tcbs : sched'[u].prio = sched[u].prio /\ sched'[u].sens = sched[u].sens
    PROVE  Above(sched)'
BY DEF Above

\* In every state the sensitive priorities are not below the priorities.
LEMMA AboveAlways == Spec => []Above(sched)
<1>1. Init => Above(sched)
  BY ParamAssumption DEF Init, Above
<1>2. ASSUME Inv, Above(sched), [Next]_vars PROVE Above(sched)'
  <2>1. CASE sched' = sched
    BY <1>2, <2>1 DEF Above
  <2>2. ASSUME NEW t \in Threads, Yield(t) PROVE Above(sched)'
    BY <1>2, <2>2, YieldPrio, AboveSame
  <2>3. ASSUME NEW t \in Threads, NEW r \in Requests[t], SysSchedule(t, r) PROVE Above(sched)'
    <3>1. /\ ~panic
          /\ sched' = WithTime(WithPreemption(WithPriority(sched, r), r), r)
      BY <2>3 DEF SysSchedule, User
    <3>2. sched \in Ktcbs /\ r \in Request
      BY <1>2, <3>1, Before, ParamAssumption
    <3>3. Above(WithTime(WithPreemption(WithPriority(sched, r), r), r))
      BY <1>2, <3>2, AboveRequest
    <3> QED
      BY <3>1, <3>3 DEF Above
  <2>4. ASSUME NEW t \in Threads, SystemCall(t) PROVE Above(sched)'
    BY <2>1, <2>2, <2>3, <2>4 DEF SystemCall, ThreadSwitch, Halt, Resume, Delete, SetDelay
  <2>5. ASSUME NEW t \in Threads, IpcStep(t) PROVE Above(sched)'
    BY <2>1, <2>5 DEF IpcStep, Send, Block, Answer, LeaveQueue
  <2>6. ASSUME NEW due \in SUBSET Threads, TickWithin(due) PROVE Above(sched)'
    <3>1. sched' = Charged /\ ParseWakeupQueues(due)
      BY <2>6 DEF TickWithin
    <3>2. sched \in Ktcbs /\ timeslice_tcb \in Tcbs
      BY <1>2, <3>1, TickWakes, Before
    <3>3. \A u \in Tcbs : sched'[u].prio = sched[u].prio /\ sched'[u].sens = sched[u].sens
      BY <3>1, <3>2, ChargedType
    <3> QED
      BY <1>2, <3>3, AboveSame
  <2>7. ASSUME TimerInterrupt PROVE Above(sched)'
    <3>1. PICK due \in SUBSET Threads :
              TickIdle(due) \/ TickWithin(due) \/ TickDelayed(due) \/ TickExpired(due)
      BY <2>7 DEF TimerInterrupt
    <3>2. CASE TickIdle(due)
      BY <2>1, <3>2 DEF TickIdle
    <3>3. CASE TickDelayed(due)
      BY <1>2, <3>3, DelayedPrio, AboveSame
    <3>4. CASE TickExpired(due)
      BY <1>2, <3>4, TickExpires, AboveSame
    <3> QED
      BY <2>6, <3>1, <3>2, <3>3, <3>4
  <2> QED
    BY <1>2, <2>1, <2>4, <2>5, <2>7 DEF Next, Interrupt, IdleSchedule, vars
<1> QED
  BY <1>1, <1>2, InvAlways, PTL DEF Spec

\* parse_wakeup_queues finds a thread that is not below t, which it wakes, when
\* t is above the current thread and the owner of the timeslice, and no delay
\* budget holds t off.
LEMMA HighestFinds ==
    ASSUME TypeOK, TimeoutArmed, Above(sched), timeslice_tcb \in Tcbs,
           NEW due, NEW t \in Threads, InList(Woken(due), t),
           sched[t].prio > sched[current].prio, sched[t].prio > Owner.prio,
           \A u \in Threads : ~MayDelay(u, t)
    PROVE  /\ InList(Woken(due), HighestWakeup(due))
           /\ sched[HighestWakeup(due)].prio >= sched[t].prio
<1> DEFINE w == Woken(due)
           N == Len(w)
<1>1. w \in Seq(Threads) /\ N \in Nat /\ \A i \in 1..N : w[i] \in Threads
  BY WokenMembers
<1>2. \A u \in Tcbs : sched[u].prio \in Int /\ sched[u].sens \in Int /\ sched[u].prio <= sched[u].sens
  BY DEF TypeOK, Ktcb, Above, Prios
<1>3. PICK f \in [0..N -> Tcbs] : /\ Highest(f, WakeupOwner, w)
                                  /\ HighestWakeup(due) = IF f[N] = timeslice_tcb
                                                          THEN current ELSE f[N]
  BY HighestSteps
<1>4. PICK k \in 1..N : w[k] = t
  BY DEF InList
<1> HIDE DEF w
<1>5. \A i \in 1..N : /\ i - 1 \in 0..N /\ f[i - 1] \in Tcbs
                      /\ f[i] = IF CheckDispatch(f[i - 1], w[i]) THEN w[i] ELSE f[i - 1]
  BY <1>1, <1>3 DEF Highest
\* The search stops at t, or is at another one that t does not preempt.
<1>6. sched[f[k]].prio >= sched[t].prio
  <2>1. ASSUME NEW u \in Tcbs, ~CheckDispatch(u, t) PROVE sched[u].prio >= sched[t].prio
    <3>1. u \in delayed => u \in Threads
      BY DEF TypeOK
    <3> QED
      BY <1>2, <2>1, <3>1 DEF CheckDispatch, DelayPreemption, MayDelay, Tcbs, TypeOK
  <2> QED
    BY <1>2, <1>4, <1>5, <2>1 DEF Tcbs
\* From then on only a higher one is preferred.
<1>7. ASSUME NEW u \in Tcbs, NEW v \in Threads, CheckDispatch(u, v) PROVE sched[v].prio > sched[u].prio
  BY <1>2, <1>7 DEF CheckDispatch, DelayPreemption, Tcbs
<1> DEFINE T == {i \in Nat : k <= i /\ i <= N => sched[f[i]].prio >= sched[t].prio}
<1>8. 0 \in T
  BY <1>1, <1>4
<1>9. ASSUME NEW i \in Nat, i \in T PROVE i + 1 \in T
  <2>1. CASE i + 1 = k
    BY <1>6, <2>1
  <2>2. CASE ~(k <= i + 1 /\ i + 1 <= N)
    BY <2>2
  <2>3. CASE k <= i /\ i + 1 <= N
    <3>1. i + 1 \in 1..N /\ (i + 1) - 1 = i
      BY <1>1, <2>3
    <3>2. sched[f[i]].prio >= sched[t].prio /\ f[i] \in Tcbs
      BY <1>1, <1>4, <1>5, <1>9, <2>3, <3>1
    <3>3. f[i + 1] = IF CheckDispatch(f[i], w[i + 1]) THEN w[i + 1] ELSE f[i]
      BY <1>5, <3>1
    <3>4. w[i + 1] \in Threads /\ w[i + 1] \in Tcbs /\ t \in Tcbs
      BY <1>1, <3>1 DEF Tcbs
    <3>5. sched[f[i + 1]].prio >= sched[t].prio
      BY <1>2, <1>7, <3>2, <3>3, <3>4
    <3> QED
      BY <3>5
  <2> QED
    BY <1>1, <1>4, <2>1, <2>2, <2>3
<1>10. \A i \in Nat : i \in T
  <2> HIDE DEF T
  <2> QED
    BY <1>8, <1>9, Induction
<1>11. sched[f[N]].prio >= sched[t].prio
  BY <1>1, <1>4, <1>10
<1>12. f[N] \in Tcbs /\ t \in Tcbs /\ current \in Tcbs
  BY SMTT(30), <1>1, <1>3 DEF Tcbs, TypeOK
<1>13. f[N] # timeslice_tcb /\ f[N] # current
  BY <1>2, <1>11, <1>12 DEF Owner
<1>14. HighestWakeup(due) = f[N]
  BY <1>3, <1>13
<1> QED
  BY <1>11, <1>13, <1>14, HighestWakes

\* A thread woken by its timeout preempts the current thread if it has a higher
\* priority than that and than the owner of the timeslice, whatever else is
\* woken in the same tick and in whatever order, unless a delay budget holds it off.
THEOREM WakeupsPreempt == Spec => HigherWakes
<1> DEFINE Step(t) ==
        (/\ TimerInterrupt /\ current # idle /\ ~panic'
         /\ InList(wakeup_list, t) /\ ~InList(wakeup_list', t) /\ state'[t] = "running"
         /\ sched[t].prio > sched[current].prio /\ sched[t].prio > Owner.prio
         /\ \A u \in Threads : ~MayDelay(u, t))
        => current' # idle /\ sched[current'].prio >= sched[t].prio
<1>1. ASSUME Inv, Above(sched), NEW t \in Threads PROVE Step(t)
  <2> SUFFICES ASSUME TimerInterrupt, current # idle, ~panic',
                      InList(wakeup_list, t), ~InList(wakeup_list', t), state'[t] = "running",
                      sched[t].prio > sched[current].prio, sched[t].prio > Owner.prio,
                      \A u \in Threads : ~MayDelay(u, t)
               PROVE  current' # idle /\ sched[current'].prio >= sched[t].prio
    OBVIOUS
  <2>1. PICK due \in SUBSET Threads :
            TickIdle(due) \/ TickWithin(due) \/ TickDelayed(due) \/ TickExpired(due)
    BY DEF TimerInterrupt
  <2>2. ParseWakeupQueues(due)
    BY <2>1 DEF TickIdle, TickWithin, TickDelayed, TickExpired
  <2>3. ~panic /\ TypeOK /\ TimeoutArmed /\ timeslice_tcb \in Tcbs /\ current \in Threads
        /\ idle \notin Threads
    BY <1>1, <2>2, TickWakes, Before DEF Tcbs
  <2>4. InList(Woken(due), t)
    <3>1. t \in due
      BY <1>1, <2>2, TickWakes
    <3>2. ~InList(Woken(due), t) => state'[t] = state[t]
      BY <1>1, <2>2, TickWakes
    <3> QED
      BY <2>3, <3>1, <3>2, WokenMembers
  <2>5. CASE WakeupPreemption(due)
    <3>1. /\ InList(Woken(due), HighestWakeup(due))
          /\ sched[HighestWakeup(due)].prio >= sched[t].prio
      BY <1>1, <2>3, <2>4, HighestFinds
    <3>2. current' = HighestWakeup(due)
      BY <1>1, <2>2, <2>5, WakeupSwitches
    <3>3. current' \in Threads
      BY <2>3, <3>1, <3>2, WokenMembers, ListedType
    <3> QED
      BY <2>3, <3>1, <3>2, <3>3
  <2>6. CASE TickExpired(due)
    <3> DEFINE q == TimesliceQueues(QueuesAfter(due), sched)
    <3>1. /\ q \in Queue /\ Exact(q, sched) /\ q.ready = QueuesAfter(due).ready \cup {current}
          /\ sched' \in Ktcbs /\ \A u \in Tcbs : sched'[u].prio = sched[u].prio
          /\ panic' \/ Schedule(q, sched', state')
      BY <1>1, <2>6, TickExpires
    <3> HIDE DEF q
    <3>2. Exact(q, sched')
      <4>1. \A u \in q.ready : sched'[u].prio = sched[u].prio
        BY <3>1 DEF Queue, Tcbs
      <4> QED
        BY <3>1, <4>1, ExactSamePrio
    <3>3. t \in q.ready /\ state' \in [Threads -> States]
      BY <1>1, <2>2, <2>4, <3>1, TickWakes
    <3>4. current' \in Tcbs /\ current' # idle /\ sched'[t].prio <= sched'[current'].prio
      BY <2>3, <3>1, <3>2, <3>3, ScheduleExact
    <3>5. sched[t].prio \in Int /\ sched[current'].prio \in Int
      BY <2>3, <3>4 DEF TypeOK, Tcbs, Ktcb, Prios
    <3> QED
      BY <3>1, <3>4, <3>5 DEF Tcbs
  <2> QED
    BY <2>1, <2>5, <2>6 DEF TickIdle, TickWithin, TickDelayed
<1>2. Inv /\ Above(sched) => [\A t \in Threads : Step(t)]_vars
  BY <1>1
<1> QED
  BY <1>2, InvAlways, AboveAlways, PTL DEF HigherWakes

-----------------------------------------------------------------------------
(* Timeslices                                                               *)

\* A timeslice that a thread may be given: unlimited, or of a tick at least.
Lasting(len) == len = 0 \/ AsU32(len) >= TickLength

\* All the timeslices that are handed out are such, and whole at first.
SlicesLast ==
    /\ \A t \in Tcbs : Lasting(Params[t].len) /\ (Params[t].len # 0 => Params[t].slice > 0)
    /\ \A t \in Threads : \A r \in Requests[t] : r.time # nil => Lasting(r.time.len)

\* No timeslice is used up.
Left(s) == \A t \in Tcbs : Lasting(s[t].len) /\ (s[t].len # 0 => s[t].slice > 0)

\* What account_timeslice and renew_timeslice make of a timeslice.
LEMMA SliceOf ==
    ASSUME NEW s \in Ktcbs, NEW t \in Tcbs, NEW n \in Int
    PROVE  \A u \in Tcbs :
               /\ Charge(s, t, n)[u].slice = IF u = t THEN s[u].slice - AsU32(n) ELSE s[u].slice
               /\ Renew(s, t, n)[u].slice = IF u = t THEN s[u].slice + AsU32(n) ELSE s[u].slice
BY DEF Charge, Renew, Ktcbs, Ktcb

\* The conversion to u32_t.
LEMMA AsU32Type ==
    /\ \A n \in Int : AsU32(n) \in Nat
    /\ \A n \in Nat : AsU32(n) <= n
BY NumberAssumption DEF AsU32

\* The accounting of the total quantum takes nothing from the timeslice.
LEMMA LeftQuantum ==
    ASSUME NEW s \in Ktcbs, NEW t \in Tcbs, s[t].quantum # Expired, Left(s)
    PROVE  Left(AccountQuantum(s, t))
<1>1. s[t] \in Ktcb /\ s[t].quantum \in Nat /\ s[t].len \in Nat
  BY DEF Ktcbs, Ktcb
<1>2. CASE s[t].quantum = 0
  BY <1>2 DEF AccountQuantum
<1>3. CASE s[t].quantum # 0 /\ s[t].quantum <= s[t].len
  <2> DEFINE r == Renew(s, t, s[t].quantum)
  <2>1. s[t].quantum \in Int /\ AsU32(s[t].quantum) \in Nat
    BY <1>1, AsU32Type
  <2>2. r \in Ktcbs /\ \A u \in Tcbs : r[u].len = s[u].len /\ r[u].slice >= s[u].slice
    <3>1. r \in Ktcbs /\ \A u \in Tcbs : r[u].len = s[u].len
      BY <2>1, SliceType
    <3>2. \A u \in Tcbs : r[u].slice = IF u = t THEN s[u].slice + AsU32(s[t].quantum) ELSE s[u].slice
      BY <2>1, SliceOf
    <3> HIDE DEF r
    <3> QED
      BY <2>1, <3>1, <3>2 DEF Ktcbs, Ktcb
  <2>3. AccountQuantum(s, t) = [r EXCEPT ![t].quantum = Expired]
    BY <1>1, <1>3 DEF AccountQuantum
  <2> HIDE DEF r
  <2>4. \A u \in Tcbs : AccountQuantum(s, t)[u].len = r[u].len
                        /\ AccountQuantum(s, t)[u].slice = r[u].slice
    BY <2>2, <2>3 DEF Ktcbs, Ktcb
  <2>5. \A u \in Tcbs : r[u].slice \in Int /\ s[u].slice \in Int
    BY <2>2 DEF Ktcbs, Ktcb
  <2> QED
    BY <2>2, <2>4, <2>5 DEF Left
<1>4. CASE s[t].quantum # 0 /\ ~(s[t].quantum <= s[t].len)
  <2>1. AccountQuantum(s, t) = [s EXCEPT ![t].quantum = @ - AsU32(s[t].len)]
    BY <1>1, <1>4 DEF AccountQuantum
  <2>2. \A u \in Tcbs : AccountQuantum(s, t)[u].len = s[u].len
                        /\ AccountQuantum(s, t)[u].slice = s[u].slice
    BY <2>1 DEF Ktcbs, Ktcb
  <2> QED
    BY <2>2 DEF Left
<1> QED
  BY <1>2, <1>3, <1>4

\* A tick that does not use up the timeslice leaves something of it.
LEMMA LeftCharged ==
    ASSUME sched \in Ktcbs, timeslice_tcb \in Tcbs, Left(sched), ~Over
    PROVE  Left(Charged)
<1>1. CASE ~Finite
  BY <1>1 DEF Charged
<1>2. CASE Finite
  <2> DEFINE c == Charge(sched, timeslice_tcb, TickLength)
  <2>1. TickLength \in Nat /\ AsU32(TickLength) \in Nat /\ AsU32(TickLength) <= TickLength
    BY NumberAssumption, AsU32Type
  <2>2. \A u \in Tcbs : c[u].len = sched[u].len
    BY <2>1, SliceType
  <2>3. \A u \in Tcbs : c[u].slice = IF u = timeslice_tcb THEN sched[u].slice - AsU32(TickLength)
                                                          ELSE sched[u].slice
    BY <2>1, SliceOf
  <2>4. Charged = c
    BY <1>2 DEF Charged
  <2> HIDE DEF c
  <2>5. Owner.slice \in Int /\ Owner.slice - TickLength > 0
    BY <1>2, <2>1 DEF Over, Owner, Ktcbs, Ktcb
  <2> QED
    BY <2>1, <2>2, <2>3, <2>4, <2>5 DEF Left, Owner
<1> QED
  BY <1>1, <1>2

\* A timeslice that is over is renewed.
LEMMA LeftRenewed ==
    ASSUME sched \in Ktcbs, timeslice_tcb \in Tcbs, Left(sched), Over
    PROVE  /\ Renew(Charged, timeslice_tcb, Owner.len) \in Ktcbs
           /\ Renew(Charged, timeslice_tcb, Owner.len)[timeslice_tcb].quantum = Owner.quantum
           /\ Left(Renew(Charged, timeslice_tcb, Owner.len))
<1> DEFINE c == Charge(sched, timeslice_tcb, TickLength)
           r == Renew(c, timeslice_tcb, Owner.len)
<1>1. TickLength \in Int /\ AsU32(TickLength) \in Nat /\ AsU32(TickLength) <= TickLength
  BY NumberAssumption, AsU32Type
<1>2. /\ Owner.len \in Int /\ AsU32(Owner.len) \in Nat /\ Owner.slice \in Int
      /\ Owner.len # 0 /\ Owner.slice > 0 /\ AsU32(Owner.len) >= TickLength
  <2>1. Owner.len \in Nat /\ Owner.slice \in Int /\ Owner.len # 0
    BY DEF Owner, Ktcbs, Ktcb, Over, Finite
  <2>2. Owner.slice > 0 /\ AsU32(Owner.len) >= TickLength
    BY <2>1 DEF Left, Lasting, Owner
  <2> QED
    BY <2>1, <2>2, AsU32Type
<1>3. Charged = c
  BY <1>2 DEF Charged, Finite
<1>4. c \in Ktcbs /\ \A u \in Tcbs : c[u].len = sched[u].len
  BY <1>1, SliceType
<1>5. \A u \in Tcbs : c[u].slice = IF u = timeslice_tcb THEN sched[u].slice - AsU32(TickLength)
                                                        ELSE sched[u].slice
  BY <1>1, SliceOf
<1>6. \A u \in Tcbs : c[u].quantum = sched[u].quantum
  BY DEF Charge, Ktcbs, Ktcb
<1> HIDE DEF c
<1>7. r \in Ktcbs /\ \A u \in Tcbs : r[u].len = c[u].len /\ r[u].quantum = c[u].quantum
  BY ZenonT(40), <1>2, <1>4, SliceType
<1>8. \A u \in Tcbs : r[u].slice = IF u = timeslice_tcb THEN c[u].slice + AsU32(Owner.len)
                                                        ELSE c[u].slice
  BY <1>2, <1>4, SliceOf
<1> HIDE DEF r
<1>9. Left(r)
  BY <1>1, <1>2, <1>4, <1>5, <1>7, <1>8 DEF Left, Owner
<1>10. r[timeslice_tcb].quantum = Owner.quantum
  BY <1>6, <1>7 DEF Owner
<1> QED
  BY <1>3, <1>7, <1>9, <1>10 DEF r

\* ThreadSwitch(nilthread) uses up the timeslice and renews it.
LEMMA LeftYield ==
    ASSUME Inv, Left(sched), NEW t \in Threads, Yield(t)
    PROVE  Left(sched)'
<1> DEFINE s == IF sched[t].delay < sched[t].maxdelay
                THEN [sched EXCEPT ![t].delay = sched[t].maxdelay] ELSE sched
           spent == Charge(s, timeslice_tcb, s[timeslice_tcb].slice)
           z == Renew(spent, timeslice_tcb, spent[timeslice_tcb].len)
<1>1. ~panic /\ sched' = z
  BY DEF Yield, User
<1>2. sched \in Ktcbs /\ timeslice_tcb \in Tcbs
  BY <1>1, Before
<1>3. s \in Ktcbs /\ \A u \in Tcbs : s[u].len = sched[u].len /\ s[u].slice = sched[u].slice
  BY <1>2 DEF Ktcbs, Ktcb, Tcbs
<1> HIDE DEF s
<1>4. Left(s)
  BY <1>3 DEF Left
<1> DEFINE n == s[timeslice_tcb].slice
           len == s[timeslice_tcb].len
<1>5. n \in Int /\ len \in Nat
  BY <1>2, <1>3 DEF Ktcbs, Ktcb
<1>6. spent \in Ktcbs /\ \A u \in Tcbs : spent[u].len = s[u].len
  BY <1>2, <1>3, <1>5, SliceType
<1>7. \A u \in Tcbs : spent[u].slice = IF u = timeslice_tcb THEN s[u].slice - AsU32(n) ELSE s[u].slice
  BY <1>2, <1>3, <1>5, SliceOf
<1> HIDE DEF spent
<1>8. z \in Ktcbs /\ \A u \in Tcbs : z[u].len = spent[u].len
  <2>1. spent[timeslice_tcb].len \in Int
    BY <1>2, <1>5, <1>6
  <2> QED
    BY <1>2, <1>6, <2>1, SliceType
<1>9. \A u \in Tcbs : z[u].slice = IF u = timeslice_tcb THEN spent[u].slice + AsU32(len)
                                                        ELSE spent[u].slice
  <2>1. spent[timeslice_tcb].len = len /\ len \in Int
    BY <1>2, <1>5, <1>6
  <2> HIDE DEF len
  <2> QED
    BY <1>2, <1>6, <2>1, SliceOf
<1> HIDE DEF z
<1>10. len # 0 => n > 0 /\ AsU32(n) <= n /\ AsU32(len) >= TickLength
  BY <1>2, <1>4, <1>5, AsU32Type DEF Left, Lasting
<1>11. TickLength \in Nat \ {0} /\ AsU32(n) \in Nat /\ AsU32(len) \in Nat
  BY <1>5, AsU32Type, NumberAssumption
<1>12. \A u \in Tcbs : Lasting(z[u].len) /\ (z[u].len # 0 => z[u].slice > 0)
  <2> SUFFICES ASSUME NEW u \in Tcbs PROVE Lasting(z[u].len) /\ (z[u].len # 0 => z[u].slice > 0)
    OBVIOUS
  <2>1. z[u].len = s[u].len
    BY <1>6, <1>8
  <2>2. CASE u = timeslice_tcb
    <3>1. z[u].slice = n - AsU32(n) + AsU32(len)
      BY <1>7, <1>9, <2>2
    <3> QED
      BY <1>4, <1>5, <1>10, <1>11, <2>1, <2>2, <3>1 DEF Left
  <2>3. CASE u # timeslice_tcb
    BY <1>4, <1>7, <1>9, <2>1, <2>3 DEF Left
  <2> QED
    BY <2>2, <2>3
<1> QED
  BY <1>1, <1>12 DEF Left

\* Whoever runs has something left of the timeslice that it is charged to, as
\* long as timeslices last a tick and nobody delays its preemption, which would
\* be granted without a delay budget.
THEOREM RunsOnTime ==
    ASSUME SlicesLast, Delayers = {}
    PROVE  Spec => []SliceLeft
<1> DEFINE J == delayed = {} /\ Left(sched)
<1>1. Init => J
  BY SlicesLast DEF Init, Left, SlicesLast
<1>2. ASSUME Inv, J, [Next]_vars PROVE J'
  <2>1. delayed' = {}
    BY <1>2, Delayers = {} DEF Next, IpcStep, SystemCall, TimerInterrupt, Send, Block, Answer,
       LeaveQueue, ThreadSwitch, Halt, Resume, Delete, SysSchedule, Yield, SetDelay, Interrupt,
       IdleSchedule, TickIdle, TickWithin, TickDelayed, TickExpired, flags, vars
  <2>2. ASSUME sched' = sched PROVE Left(sched)'
    BY <1>2, <2>2 DEF Left
  <2>3. ASSUME NEW t \in Threads, Yield(t) PROVE Left(sched)'
    BY <1>2, <2>3, LeftYield
  <2>4. ASSUME NEW t \in Threads, NEW r \in Requests[t], SysSchedule(t, r) PROVE Left(sched)'
    <3> DEFINE b == WithPreemption(WithPriority(sched, r), r)
    <3>1. ~panic /\ sched' = WithTime(b, r)
      BY <2>4 DEF SysSchedule, User
    <3>2. sched \in Ktcbs /\ r \in Request
      BY <1>2, <3>1, Before, ParamAssumption
    <3>3. b \in Ktcbs
      BY <3>2, RequestType
    <3>4. \A u \in Tcbs : b[u].len = sched[u].len /\ b[u].slice = sched[u].slice
      BY <3>2 DEF WithPriority, WithPreemption, Ktcbs, Ktcb
    <3> HIDE DEF b
    <3>5. r.time # nil => r.time.len \in Nat /\ Lasting(r.time.len)
      BY <3>2, SlicesLast DEF Request, SlicesLast
    <3>6. ASSUME NEW u \in Tcbs
          PROVE  Lasting(WithTime(b, r)[u].len)
                 /\ (WithTime(b, r)[u].len # 0 => WithTime(b, r)[u].slice > 0)
      BY <1>2, <3>3, <3>4, <3>5 DEF WithTime, Left, Ktcbs, Ktcb
    <3> QED
      BY <3>1, <3>6 DEF Left
  <2>5. ASSUME NEW t \in Threads, SystemCall(t) PROVE Left(sched)'
    BY <2>2, <2>3, <2>4, <2>5 DEF SystemCall, ThreadSwitch, Halt, Resume, Delete, SetDelay
  <2>6. ASSUME NEW t \in Threads, IpcStep(t) PROVE Left(sched)'
    BY <2>2, <2>6 DEF IpcStep, Send, Block, Answer, LeaveQueue
  <2>7. ASSUME TimerInterrupt PROVE Left(sched)'
    <3>1. PICK due \in SUBSET Threads :
              TickIdle(due) \/ TickWithin(due) \/ TickDelayed(due) \/ TickExpired(due)
      BY <2>7 DEF TimerInterrupt
    <3>2. ParseWakeupQueues(due)
      BY <3>1 DEF TickIdle, TickWithin, TickDelayed, TickExpired
    <3>3. sched \in Ktcbs /\ timeslice_tcb \in Tcbs
      BY <1>2, <3>2, TickWakes, Before
    <3>4. CASE TickIdle(due)
      BY <2>2, <3>4 DEF TickIdle
    <3>5. CASE TickWithin(due)
      <4>1. sched' = Charged /\ ~Over
        BY <3>5 DEF TickWithin
      <4> QED
        BY <1>2, <3>3, <4>1, LeftCharged DEF Left
    <3>6. ~TickDelayed(due)
      BY <1>2 DEF TickDelayed, Delays
    <3>7. CASE TickExpired(due)
      <4> DEFINE s == Renew(Charged, timeslice_tcb, Owner.len)
      <4>1. /\ Over
            /\ \/ sched' = s
               \/ Owner.quantum # Expired /\ sched' = AccountQuantum(s, timeslice_tcb)
        BY <3>7 DEF TickExpired
      <4>2. s \in Ktcbs /\ s[timeslice_tcb].quantum = Owner.quantum /\ Left(s)
        BY <1>2, <3>3, <4>1, LeftRenewed
      <4> HIDE DEF s
      <4>3. Owner.quantum # Expired => Left(AccountQuantum(s, timeslice_tcb))
        BY <3>3, <4>2, LeftQuantum
      <4> QED
        BY <4>1, <4>2, <4>3 DEF Left
    <3> QED
      BY <3>1, <3>4, <3>5, <3>6, <3>7
  <2>8. Left(sched)'
    BY <1>2, <2>2, <2>5, <2>6, <2>7 DEF Next, Interrupt, IdleSchedule, vars
  <2> QED
    BY <2>1, <2>8
<1>3. Inv /\ J => SliceLeft
  BY DEF Inv, OwnerKnown, Left, SliceLeft, Owner
<1> QED
  BY <1>1, <1>2, <1>3, InvAlways, PTL DEF Spec
===============================================================================
