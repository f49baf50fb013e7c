------------------------------ MODULE Smp_proofs ------------------------------
(* Proofs about Smp, for any number of processors, threads and mailbox       *)
(* entries: its mailboxes are the bounded queues of Channels, and no request *)
(* is lost, doubled or handled half-written.                                 *)
EXTENDS Smp, FiniteSetTheorems, SequenceTheorems, TLAPS

-----------------------------------------------------------------------------
(* Rings                                                                     *)

\* The slot after a slot is a slot: indices wrap at MAX_MAILBOX_ENTRIES.
LEMMA NextSlotValue ==
    ASSUME NEW i \in Slots
    PROVE  /\ NextSlot(i) = (IF i = MaxEntries - 1 THEN 0 ELSE i + 1)
           /\ NextSlot(i) \in Slots
<1>1. i \in Nat /\ i < MaxEntries /\ MaxEntries \in Nat
  BY SmpAssumption DEF Slots
<1>2. CASE i = MaxEntries - 1
  BY <1>1, <1>2 DEF NextSlot, Slots
<1>3. CASE i # MaxEntries - 1
  BY <1>1, <1>3 DEF NextSlot, Slots
<1> QED
  BY <1>2, <1>3

\* The distance from first_alloc up to first_free, around the ring.
LEMMA HeldValue ==
    ASSUME NEW a \in Slots, NEW f \in Slots
    PROVE  /\ (f + MaxEntries - a) % MaxEntries = (IF a <= f THEN f - a ELSE f + MaxEntries - a)
           /\ (f + MaxEntries - a) % MaxEntries \in Slots
<1>1. a \in Nat /\ a < MaxEntries /\ f \in Nat /\ f < MaxEntries /\ MaxEntries \in Nat
  BY SmpAssumption DEF Slots
<1>2. CASE a <= f
  BY <1>1, <1>2 DEF Slots
<1>3. CASE ~(a <= f)
  BY <1>1, <1>3 DEF Slots
<1> QED
  BY <1>2, <1>3

\* The k-th slot from a on, around the ring.
LEMMA NthValue ==
    ASSUME NEW a \in Slots, NEW k \in 1..MaxEntries
    PROVE  /\ (a + k - 1) % MaxEntries = (IF a + k - 1 < MaxEntries THEN a + k - 1 ELSE a + k - 1 - MaxEntries)
           /\ (a + k - 1) % MaxEntries \in Slots
<1>1. a \in Nat /\ a < MaxEntries /\ MaxEntries \in Nat
  BY SmpAssumption DEF Slots
<1>2. CASE a + k - 1 < MaxEntries
  BY <1>1, <1>2 DEF Slots
<1>3. CASE ~(a + k - 1 < MaxEntries)
  BY <1>1, <1>3 DEF Slots
<1> QED
  BY <1>2, <1>3

\* The slots from a up to f.
Between(a, f, i) == IF a <= f THEN a <= i /\ i < f ELSE a <= i \/ i < f

\* The slots in use when an end of the ring moves.
LEMMA BetweenSteps ==
    ASSUME NEW a \in Slots, NEW f \in Slots, NEW i \in Slots
    PROVE  /\ NextSlot(f) # a => (Between(a, NextSlot(f), i) <=> Between(a, f, i) \/ i = f)
           /\ a # f => (Between(NextSlot(a), f, i) <=> Between(a, f, i) /\ i # a)
           /\ a # f => Between(a, f, a)
           /\ NextSlot(i) = f /\ f # a => Between(a, f, i)
           /\ ~Between(a, f, f)
<1>1. /\ a \in Nat /\ a < MaxEntries /\ f \in Nat /\ f < MaxEntries
      /\ i \in Nat /\ i < MaxEntries /\ MaxEntries \in Nat
  BY SmpAssumption DEF Slots
<1>2. /\ NextSlot(f) = (IF f = MaxEntries - 1 THEN 0 ELSE f + 1)
      /\ NextSlot(a) = (IF a = MaxEntries - 1 THEN 0 ELSE a + 1)
      /\ NextSlot(i) = (IF i = MaxEntries - 1 THEN 0 ELSE i + 1)
  BY NextSlotValue
<1> QED
  BY <1>1, <1>2 DEF Between

-----------------------------------------------------------------------------
(* The inductive invariant                                                   *)

\* A processor that sends knows what and where to.
OutOK == \A c \in Cpus : pc[c] \in {"alloc", "set", "stopped"} => out[c] \in Sends

\* A mailbox is locked by the processor that fills its last entry.
LockOK ==
    /\ \A c \in Cpus : pc[c] = "set" => lock[out[c].to] = c
    /\ \A d \in Cpus : lock[d] # null =>
           /\ pc[lock[d]] = "set" /\ out[lock[d]].to = d
           /\ first_free[d] = NextSlot(out[lock[d]].slot) /\ first_free[d] # first_alloc[d]

\* Only its owner takes requests out of a mailbox.
TakeOK == \A c \in Cpus : pc[c] = "take" => first_free[c] # first_alloc[c]

\* The entries in use are complete but for the one that is being filled; the
\* others are empty.
InRing(d, i) == Between(first_alloc[d], first_free[d], i)
EntriesOK ==
    \A d \in Cpus, i \in Slots :
        entries[d][i] \in Requests <=> InRing(d, i) /\ ~(lock[d] # null /\ out[lock[d]].slot = i)

HandleOK == \A c \in Cpus : pc[c] = "handle" => entry[c] \in Requests

RingInv == OutOK /\ LockOK /\ TakeOK /\ EntriesOK /\ HandleOK

\* The request of a thread that waits is in a mailbox (at one of the places
\* mailed), being handled or being sent.
OnePlaceOf(waits, mailed, handled, sending) ==
    IF waits
    THEN \/ (\E x \in Cpus \X Slots : mailed = {x}) /\ handled = {} /\ sending = {}
         \/ mailed = {} /\ (\E c \in Cpus : handled = {c}) /\ sending = {}
         \/ mailed = {} /\ handled = {} /\ (\E c \in Cpus : sending = {c})
    ELSE mailed = {} /\ handled = {} /\ sending = {}

OnePlace == \A t \in Threads : OnePlaceOf(t \in waiting, Mailed(t), Handled(t), Sending(t))

-----------------------------------------------------------------------------
(* Types                                                                     *)

Inv == TypeOK /\ RingInv

\* Requests, the empty entry and what a processor sends.
LEMMA RequestTypes ==
    /\ 0 \in Slots /\ NoRequest \notin Requests
    /\ \A t \in Threads : /\ [handler |-> "call", tcb |-> t] \in Requests
                          /\ [handler |-> "post", tcb |-> t] \in Requests
                          /\ [handler |-> "reply", tcb |-> t] \in Requests
    /\ \A r \in Requests : r.handler \in {"call", "reply", "post"} /\ r.tcb \in Threads
    /\ NoRequest.handler \notin {"call", "reply", "post"}
    /\ \A r \in Requests, d \in Cpus, b \in {"user", "return"} :
           [req |-> r, to |-> d, slot |-> 0, back |-> b] \in Sends
    /\ \A o \in Sends, i \in Slots : /\ [o EXCEPT !.slot = i] \in Sends
                                     /\ [o EXCEPT !.slot = i].to = o.to
                                     /\ [o EXCEPT !.slot = i].req = o.req
                                     /\ [o EXCEPT !.slot = i].slot = i
    /\ \A o \in Sends : o.req \in Requests /\ o.to \in Cpus /\ o.slot \in Slots
BY SmpAssumption DEF Slots, NoRequest, Requests, Sends

\* A handler leaves the walk, or goes on with it.
LEMMA ReturnType ==
    ASSUME TypeOK, NEW c \in Cpus, Return(c)
    PROVE  /\ pc' \in [Cpus -> Places]
           /\ suspended' \in [Cpus -> Nat] /\ \A d \in Cpus : suspended'[d] <= MaxSuspended[d]
<1>1. CASE Walk(c) /\ UNCHANGED suspended
  BY <1>1 DEF TypeOK, Walk, GoTo, Places
<1>2. CASE /\ suspended[c] < MaxSuspended[c]
           /\ suspended' = [suspended EXCEPT ![c] = @ + 1] /\ GoTo(c, "user")
  <2>1. suspended[c] \in Nat /\ MaxSuspended[c] \in Nat
    BY SmpAssumption DEF TypeOK
  <2> QED
    BY <1>2, <2>1 DEF TypeOK, GoTo, Places
<1> QED
  BY <1>1, <1>2 DEF Return

\* xcpu_request leaves the processor with a request to send.
LEMMA RequestType ==
    ASSUME TypeOK, NEW c \in Cpus, NEW d \in Cpus, NEW r \in Requests,
           NEW back \in {"user", "return"}, Request(c, d, r, back)
    PROVE  out' \in [Cpus -> Sends \cup {null}] /\ pc' \in [Cpus -> Places]
<1>1. [req |-> r, to |-> d, slot |-> 0, back |-> back] \in Sends
  BY RequestTypes
<1> QED
  BY <1>1 DEF TypeOK, Request, GoTo, Places

\* The processors and mailboxes stay within their types.
LEMMA TypeStep ==
    ASSUME Inv, [Next]_vars
    PROVE  TypeOK'
<1> USE DEF Inv, boxes
<1>1. ASSUME NEW t \in Threads, NEW d \in Cpus, Call(t, d) PROVE TypeOK'
  <2>1. Home[t] \in Cpus /\ [handler |-> "call", tcb |-> t] \in Requests
    BY SmpAssumption, RequestTypes
  <2>2. out' \in [Cpus -> Sends \cup {null}] /\ pc' \in [Cpus -> Places]
    BY <1>1, <2>1, RequestType DEF Call
  <2> QED
    BY <1>1, <2>2 DEF Call, TypeOK
<1>2. ASSUME NEW t \in Threads, NEW d \in Cpus, Post(t, d) PROVE TypeOK'
  <2>1. Home[t] \in Cpus /\ [handler |-> "post", tcb |-> t] \in Requests
    BY SmpAssumption, RequestTypes
  <2>2. out' \in [Cpus -> Sends \cup {null}] /\ pc' \in [Cpus -> Places]
    BY <1>2, <2>1, RequestType DEF Post
  <2> QED
    BY <1>2, <2>2 DEF Post, TypeOK
<1>3. ASSUME NEW c \in Cpus, Alloc(c) PROVE TypeOK'
  <2> DEFINE d == out[c].to
  <2>1. out[c] \in Sends /\ d \in Cpus
    BY <1>3, RequestTypes DEF Alloc, RingInv, OutOK
  <2>2. first_free[d] \in Slots /\ NextSlot(first_free[d]) \in Slots
    BY <2>1, NextSlotValue DEF TypeOK
  <2>3. [out[c] EXCEPT !.slot = first_free[d]] \in Sends
    BY <2>1, <2>2, RequestTypes
  <2>4. CASE Full(d)
    BY <1>3, <2>4 DEF Alloc, TypeOK, GoTo, Places
  <2>5. CASE ~Full(d)
    <3>1. /\ out' = [out EXCEPT ![c] = [out[c] EXCEPT !.slot = first_free[d]]]
          /\ first_free' = [first_free EXCEPT ![d] = NextSlot(first_free[d])]
          /\ lock' = [lock EXCEPT ![d] = c] /\ pc' = [pc EXCEPT ![c] = "set"]
          /\ UNCHANGED <<entries, first_alloc, ipi, entry, suspended, waiting>>
      BY <1>3, <2>5 DEF Alloc, GoTo
    <3> QED
      BY <2>1, <2>2, <2>3, <3>1 DEF TypeOK, Places
  <2> QED
    BY <2>4, <2>5
<1>4. ASSUME NEW c \in Cpus, Commit(c) PROVE TypeOK'
  <2> DEFINE d == out[c].to
  <2>1. out[c] \in Sends /\ d \in Cpus /\ out[c].slot \in Slots /\ out[c].req \in Requests
    BY <1>4, RequestTypes DEF Commit, RingInv, OutOK
  <2>2. entries' \in [Cpus -> [Slots -> Requests \cup {NoRequest}]]
    <3>1. [entries[d] EXCEPT ![out[c].slot] = out[c].req] \in [Slots -> Requests \cup {NoRequest}]
      BY <2>1 DEF TypeOK
    <3> QED
      BY <1>4, <2>1, <3>1 DEF Commit, TypeOK
  <2>3. /\ pc' \in [Cpus -> Places]
        /\ suspended' \in [Cpus -> Nat] /\ \A e \in Cpus : suspended'[e] <= MaxSuspended[e]
    <3>1. CASE Return(c)
      BY <3>1, ReturnType
    <3>2. CASE GoTo(c, "user") /\ UNCHANGED suspended
      BY <3>2 DEF GoTo, TypeOK, Places
    <3> QED
      BY <1>4, <3>1, <3>2 DEF Commit
  <2> QED
    BY <1>4, <2>1, <2>2, <2>3 DEF Commit, TypeOK
<1>5. ASSUME NEW c \in Cpus, Interrupt(c) PROVE TypeOK'
  BY <1>5 DEF Interrupt, Walk, GoTo, TypeOK, Places
<1>6. ASSUME NEW c \in Cpus, TimerInterrupt(c) PROVE TypeOK'
  BY <1>6 DEF TimerInterrupt, Walk, GoTo, TypeOK, Places
<1>7. ASSUME NEW c \in Cpus, Resume(c) PROVE TypeOK'
  <2>1. suspended[c] \in Nat /\ suspended[c] > 0
    BY <1>7 DEF Resume, TypeOK
  <2>2. MaxSuspended[c] \in Nat
    BY SmpAssumption
  <2> QED
    BY <1>7, <2>1, <2>2 DEF Resume, Walk, GoTo, TypeOK, Places
<1>8. ASSUME NEW c \in Cpus, Take(c) PROVE TypeOK'
  <2> DEFINE i == first_alloc[c]
  <2>1. i \in Slots /\ NextSlot(i) \in Slots
    BY NextSlotValue DEF TypeOK
  <2>2. [entries[c] EXCEPT ![i] = NoRequest] \in [Slots -> Requests \cup {NoRequest}]
    BY <2>1 DEF TypeOK
  <2>3. entries' = [entries EXCEPT ![c] = [entries[c] EXCEPT ![i] = NoRequest]]
    BY <1>8 DEF Take
  <2>4. entries' \in [Cpus -> [Slots -> Requests \cup {NoRequest}]]
    BY <2>2, <2>3 DEF TypeOK
  <2>5. entries[c][i] \in Requests \cup {NoRequest}
    BY <2>1 DEF TypeOK
  <2> QED
    BY <1>8, <2>1, <2>4, <2>5 DEF Take, GoTo, TypeOK, Places
<1>9. ASSUME NEW c \in Cpus, Handle(c) PROVE TypeOK'
  <2> DEFINE t == entry[c].tcb
  <2>1. entry[c] \in Requests /\ t \in Threads /\ Home[t] \in Cpus
    BY <1>9, RequestTypes, SmpAssumption DEF Handle, RingInv, HandleOK
  <2>2. [handler |-> "reply", tcb |-> t] \in Requests
    BY <2>1, RequestTypes
  <2>3. /\ out' \in [Cpus -> Sends \cup {null}] /\ pc' \in [Cpus -> Places]
        /\ suspended' \in [Cpus -> Nat] /\ \A d \in Cpus : suspended'[d] <= MaxSuspended[d]
        /\ waiting' \subseteq Threads
    <3>1. CASE Request(c, Home[t], [handler |-> "reply", tcb |-> t], "return")
               /\ UNCHANGED <<suspended, waiting>>
      <4>1. out' \in [Cpus -> Sends \cup {null}] /\ pc' \in [Cpus -> Places]
        BY <2>1, <2>2, <3>1, RequestType
      <4> QED
        BY <3>1, <4>1 DEF TypeOK
    <3>2. CASE Return(c) /\ UNCHANGED out /\ waiting' \subseteq waiting
      BY <3>2, ReturnType DEF TypeOK
    <3> QED
      BY <1>9, <3>1, <3>2 DEF Handle
  <2> QED
    BY <1>9, <2>3 DEF Handle, TypeOK
<1>10. CASE UNCHANGED vars
  BY <1>10 DEF vars, TypeOK
<1> QED
  BY <1>1, <1>2, <1>3, <1>4, <1>5, <1>6, <1>7, <1>8, <1>9, <1>10 DEF Next

-----------------------------------------------------------------------------
(* Requests in the rings                                                     *)

\* A processor that is sending keeps its request until it has committed it.
LEMMA OutStep ==
    ASSUME Inv, [Next]_vars
    PROVE  OutOK'
<1> USE DEF Inv, RingInv, OutOK, boxes, TypeOK, GoTo
<1>1. ASSUME NEW t \in Threads, NEW d \in Cpus, Call(t, d) PROVE OutOK'
  BY ZenonT(40), <1>1, SmpAssumption, RequestTypes DEF Call, Request
<1>2. ASSUME NEW t \in Threads, NEW d \in Cpus, Post(t, d) PROVE OutOK'
  BY ZenonT(40), <1>2, SmpAssumption, RequestTypes DEF Post, Request
<1>3. ASSUME NEW c \in Cpus, Alloc(c) PROVE OutOK'
  <2>1. out[c] \in Sends /\ out[c].to \in Cpus /\ first_free[out[c].to] \in Slots
    BY <1>3, RequestTypes DEF Alloc
  <2>2. [out[c] EXCEPT !.slot = first_free[out[c].to]] \in Sends
    BY <2>1, RequestTypes
  <2> QED
    BY ZenonT(40), <1>3, <2>1, <2>2 DEF Alloc
<1>4. ASSUME NEW c \in Cpus, Commit(c) PROVE OutOK'
  BY <1>4 DEF Commit, Return, Walk, GoTo
<1>5. ASSUME NEW c \in Cpus, Interrupt(c) PROVE OutOK'
  BY <1>5 DEF Interrupt, Walk, GoTo
<1>6. ASSUME NEW c \in Cpus, TimerInterrupt(c) PROVE OutOK'
  BY <1>6 DEF TimerInterrupt, Walk, GoTo
<1>7. ASSUME NEW c \in Cpus, Resume(c) PROVE OutOK'
  BY <1>7 DEF Resume, Walk, GoTo
<1>8. ASSUME NEW c \in Cpus, Take(c) PROVE OutOK'
  BY <1>8 DEF Take, GoTo
<1>9. ASSUME NEW c \in Cpus, Handle(c) PROVE OutOK'
  <2>1. entry[c] \in Requests /\ entry[c].tcb \in Threads /\ Home[entry[c].tcb] \in Cpus
    BY <1>9, RequestTypes, SmpAssumption DEF Handle, HandleOK
  <2>2. CASE Request(c, Home[entry[c].tcb], [handler |-> "reply", tcb |-> entry[c].tcb], "return")
    <3> DEFINE o == [req |-> [handler |-> "reply", tcb |-> entry[c].tcb],
                     to |-> Home[entry[c].tcb], slot |-> 0, back |-> "return"]
    <3>1. o \in Sends
      BY <2>1, RequestTypes
    <3> QED
      BY <2>2, <3>1 DEF Request
  <2>3. CASE Return(c) /\ UNCHANGED out
    BY <1>9, <2>3 DEF Handle, Return, Walk
  <2> QED
    BY <1>9, <2>2, <2>3 DEF Handle
<1>10. CASE UNCHANGED vars
  BY <1>10 DEF vars
<1> QED
  BY <1>1, <1>2, <1>3, <1>4, <1>5, <1>6, <1>7, <1>8, <1>9, <1>10 DEF Next

\* A mailbox stays locked from the allocation of its last entry until its
\* sender has written it, and by nobody else.
LEMMA LockStep ==
    ASSUME Inv, [Next]_vars
    PROVE  LockOK'
<1> USE DEF Inv, RingInv, OutOK, LockOK, boxes, TypeOK, GoTo
<1>1. ASSUME NEW t \in Threads, NEW d \in Cpus, Call(t, d) PROVE LockOK'
  BY <1>1 DEF Call, Request, GoTo
<1>2. ASSUME NEW t \in Threads, NEW d \in Cpus, Post(t, d) PROVE LockOK'
  BY <1>2 DEF Post, Request, GoTo
<1>3. ASSUME NEW c \in Cpus, Alloc(c) PROVE LockOK'
  <2> DEFINE d == out[c].to
  <2>1. out[c] \in Sends /\ d \in Cpus /\ first_free[d] \in Slots
    BY <1>3, RequestTypes DEF Alloc
  <2>2. CASE Full(d)
    BY <1>3, <2>2 DEF Alloc
  <2>3. CASE ~Full(d)
    <3>1. /\ out' = [out EXCEPT ![c] = [out[c] EXCEPT !.slot = first_free[d]]]
          /\ first_free' = [first_free EXCEPT ![d] = NextSlot(first_free[d])]
          /\ lock[d] = null /\ lock' = [lock EXCEPT ![d] = c]
          /\ pc[c] = "alloc" /\ pc' = [pc EXCEPT ![c] = "set"] /\ first_alloc' = first_alloc
      BY <1>3, <2>3 DEF Alloc
    <3>2. out'[c].to = d /\ out'[c].slot = first_free[d]
      BY <2>1, <3>1, RequestTypes
    <3>3. first_free'[d] = NextSlot(out'[c].slot) /\ first_free'[d] # first_alloc[d]
      BY <2>1, <2>3, <3>1, <3>2 DEF Full
    <3>4. ASSUME NEW e \in Cpus, pc'[e] = "set" PROVE lock'[out'[e].to] = e
      BY <2>1, <3>1, <3>2, <3>4, SmpAssumption
    <3>5. ASSUME NEW e \in Cpus, lock'[e] # null
          PROVE  /\ pc'[lock'[e]] = "set" /\ out'[lock'[e]].to = e
                 /\ first_free'[e] = NextSlot(out'[lock'[e]].slot) /\ first_free'[e] # first_alloc'[e]
      <4>1. CASE e = d
        BY <2>1, <3>1, <3>2, <3>3, <4>1
      <4>2. CASE e # d
        BY <2>1, <3>1, <3>5, <4>2
      <4> QED
        BY <4>1, <4>2
    <3> QED
      BY <3>4, <3>5
  <2> QED
    BY <2>2, <2>3
<1>4. ASSUME NEW c \in Cpus, Commit(c) PROVE LockOK'
  <2>1. out[c].to \in Cpus /\ lock[out[c].to] = c
    BY <1>4, RequestTypes DEF Commit
  <2>2. \A e \in Cpus : pc'[e] = "set" <=> pc[e] = "set" /\ e # c
    BY <1>4 DEF Commit, Return, Walk
  <2>3. ASSUME NEW e \in Cpus, pc'[e] = "set" PROVE lock'[out'[e].to] = e
    BY <1>4, <2>1, <2>2, <2>3 DEF Commit
  <2>4. ASSUME NEW e \in Cpus, lock'[e] # null
        PROVE  /\ pc'[lock'[e]] = "set" /\ out'[lock'[e]].to = e
               /\ first_free'[e] = NextSlot(out'[lock'[e]].slot) /\ first_free'[e] # first_alloc'[e]
    <3>1. lock[e] \in Cpus /\ lock'[e] = lock[e] /\ lock[e] # c
      BY <1>4, <2>1, <2>4 DEF Commit
    <3>2. PICK g \in Cpus : lock[e] = g
      BY <3>1
    <3>3. /\ pc[g] = "set" /\ out[g].to = e
          /\ first_free[e] = NextSlot(out[g].slot) /\ first_free[e] # first_alloc[e]
      BY <3>1, <3>2, SmpAssumption
    <3>4. pc'[g] = "set"
      BY <2>2, <3>1, <3>2, <3>3
    <3>5. out'[g] = out[g] /\ UNCHANGED <<first_free, first_alloc>>
      BY <1>4, <3>1, <3>2 DEF Commit
    <3> QED
      BY <3>1, <3>2, <3>3, <3>4, <3>5
  <2> QED
    BY <2>3, <2>4
<1>5. ASSUME NEW c \in Cpus, Interrupt(c) PROVE LockOK'
  BY <1>5 DEF Interrupt, Walk, GoTo
<1>6. ASSUME NEW c \in Cpus, TimerInterrupt(c) PROVE LockOK'
  BY <1>6 DEF TimerInterrupt, Walk, GoTo
<1>7. ASSUME NEW c \in Cpus, Resume(c) PROVE LockOK'
  BY <1>7 DEF Resume, Walk, GoTo
<1>8. ASSUME NEW c \in Cpus, Take(c) PROVE LockOK'
  BY <1>8 DEF Take, GoTo
<1>9. ASSUME NEW c \in Cpus, Handle(c) PROVE LockOK'
  <2>1. pc[c] = "handle" /\ UNCHANGED <<lock, first_free, first_alloc>>
    BY <1>9 DEF Handle
  <2>2. \A e \in Cpus : /\ pc'[e] = "set" <=> pc[e] = "set"
                        /\ pc[e] = "set" => out'[e] = out[e]
    BY <1>9, <2>1 DEF Handle, Request, Return, Walk
  <2> QED
    BY <2>1, <2>2
<1>10. CASE UNCHANGED vars
  BY <1>10 DEF vars
<1> QED
  BY <1>1, <1>2, <1>3, <1>4, <1>5, <1>6, <1>7, <1>8, <1>9, <1>10 DEF Next

\* What a walk has seen in its mailbox nobody else takes.
LEMMA TakeStep ==
    ASSUME Inv, [Next]_vars
    PROVE  TakeOK'
<1> USE DEF Inv, RingInv, TakeOK, boxes, TypeOK, GoTo
<1>1. ASSUME NEW t \in Threads, NEW d \in Cpus, Call(t, d) PROVE TakeOK'
  BY <1>1 DEF Call, Request, GoTo
<1>2. ASSUME NEW t \in Threads, NEW d \in Cpus, Post(t, d) PROVE TakeOK'
  BY <1>2 DEF Post, Request, GoTo
<1>3. ASSUME NEW c \in Cpus, Alloc(c) PROVE TakeOK'
  <2> DEFINE d == out[c].to
  <2>1. CASE Full(d)
    BY <1>3, <2>1 DEF Alloc
  <2>2. CASE ~Full(d)
    BY <1>3, <2>2 DEF Alloc, Full
  <2> QED
    BY <2>1, <2>2
<1>4. ASSUME NEW c \in Cpus, Commit(c) PROVE TakeOK'
  BY <1>4 DEF Commit, Return, Walk, GoTo
<1>5. ASSUME NEW c \in Cpus, Interrupt(c) PROVE TakeOK'
  BY <1>5 DEF Interrupt, Walk, GoTo
<1>6. ASSUME NEW c \in Cpus, TimerInterrupt(c) PROVE TakeOK'
  BY <1>6 DEF TimerInterrupt, Walk, GoTo
<1>7. ASSUME NEW c \in Cpus, Resume(c) PROVE TakeOK'
  BY <1>7 DEF Resume, Walk, GoTo
<1>8. ASSUME NEW c \in Cpus, Take(c) PROVE TakeOK'
  BY <1>8 DEF Take, GoTo
<1>9. ASSUME NEW c \in Cpus, Handle(c) PROVE TakeOK'
  BY <1>9 DEF Handle, Request, Return, Walk, GoTo
<1>10. CASE UNCHANGED vars
  BY <1>10 DEF vars
<1> QED
  BY <1>1, <1>2, <1>3, <1>4, <1>5, <1>6, <1>7, <1>8, <1>9, <1>10 DEF Next

\* The entry that d's mailbox is being filled at.
Filling(d, i) == lock[d] # null /\ out[lock[d]].slot = i

\* What leaves a mailbox, its lock and the request of its holder alone keeps it
\* sound.
LEMMA EntriesFrame ==
    ASSUME Inv, NEW d \in Cpus, lock[d] # null => out'[lock[d]] = out[lock[d]],
           UNCHANGED <<entries[d], lock[d], first_alloc[d], first_free[d]>>
    PROVE  \A i \in Slots : (entries[d][i] \in Requests)' <=> (InRing(d, i) /\ ~Filling(d, i))'
BY DEF Inv, RingInv, EntriesOK, InRing, Filling

\* Exactly the entries from first_alloc up to first_free hold requests, but for
\* the one that is being written.
LEMMA EntriesStep ==
    ASSUME Inv, [Next]_vars
    PROVE  EntriesOK'
<1> USE DEF Inv, RingInv, Filling
<1>same. ASSUME UNCHANGED boxes, \A e \in Cpus : pc[e] = "set" => out'[e] = out[e]
         PROVE  EntriesOK'
  <2> SUFFICES ASSUME NEW d \in Cpus
               PROVE  \A i \in Slots : (entries[d][i] \in Requests)' <=> (InRing(d, i) /\ ~Filling(d, i))'
    BY DEF EntriesOK
  <2>1. lock[d] # null => out'[lock[d]] = out[lock[d]]
    BY <1>same DEF LockOK, TypeOK
  <2> QED
    BY <1>same, <2>1, EntriesFrame DEF boxes
<1>1. ASSUME NEW t \in Threads, NEW d \in Cpus, Call(t, d) PROVE EntriesOK'
  <2>1. /\ UNCHANGED boxes
        /\ \A e \in Cpus : pc[e] = "set" => out'[e] = out[e]
    BY <1>1 DEF Call, Request, GoTo, boxes, TypeOK
  <2> QED
    BY <1>same, <2>1
<1>2. ASSUME NEW t \in Threads, NEW d \in Cpus, Post(t, d) PROVE EntriesOK'
  <2>1. /\ UNCHANGED boxes
        /\ \A e \in Cpus : pc[e] = "set" => out'[e] = out[e]
    BY <1>2 DEF Post, Request, GoTo, boxes, TypeOK
  <2> QED
    BY <1>same, <2>1
<1>3. ASSUME NEW c \in Cpus, Alloc(c) PROVE EntriesOK'
  <2>0. PICK d \in Cpus : out[c].to = d
    BY <1>3, RequestTypes DEF Alloc, OutOK
  <2>1. out[c] \in Sends /\ first_free[d] \in Slots /\ first_alloc[d] \in Slots
    BY <1>3 DEF Alloc, OutOK, TypeOK
  <2>2. CASE Full(d)
    <3>1. UNCHANGED <<boxes, out>>
      BY <1>3, <2>0, <2>2 DEF Alloc
    <3> QED
      BY <1>same, <3>1
  <2>3. CASE ~Full(d)
    <3>1. /\ out' = [out EXCEPT ![c] = [out[c] EXCEPT !.slot = first_free[d]]]
          /\ first_free' = [first_free EXCEPT ![d] = NextSlot(first_free[d])]
          /\ lock[d] = null /\ lock' = [lock EXCEPT ![d] = c]
          /\ pc[c] = "alloc" /\ UNCHANGED <<entries, first_alloc>>
      BY <1>3, <2>0, <2>3 DEF Alloc
    <3>2. lock'[d] = c /\ out'[c].slot = first_free[d] /\ first_free'[d] = NextSlot(first_free[d])
      BY <2>1, <3>1, RequestTypes DEF TypeOK
    <3>3. ASSUME NEW i \in Slots
          PROVE  (entries[d][i] \in Requests)' <=> (InRing(d, i) /\ ~Filling(d, i))'
      <4>1. NextSlot(first_free[d]) # first_alloc[d]
        BY <2>3 DEF Full
      <4>2. InRing(d, i)' <=> InRing(d, i) \/ i = first_free[d]
        BY <2>1, <3>1, <3>2, <4>1, BetweenSteps DEF InRing
      <4>3. ~InRing(d, first_free[d])
        BY <2>1, BetweenSteps DEF InRing
      <4>4. entries[d][i] \in Requests <=> InRing(d, i)
        BY <2>1, <3>1 DEF EntriesOK
      <4>5. Filling(d, i)' <=> i = first_free[d]
        BY <3>2, SmpAssumption
      <4> QED
        BY <3>1, <4>2, <4>3, <4>4, <4>5
    <3>4. ASSUME NEW e \in Cpus \ {d}, NEW i \in Slots
          PROVE  (entries[e][i] \in Requests)' <=> (InRing(e, i) /\ ~Filling(e, i))'
      <4>1. lock[e] # null => lock[e] # c
        BY <3>1 DEF LockOK
      <4>2. lock[e] # null => out'[lock[e]] = out[lock[e]]
        BY <3>1, <4>1 DEF TypeOK
      <4>3. UNCHANGED <<entries[e], lock[e], first_alloc[e], first_free[e]>>
        BY <3>1 DEF TypeOK
      <4> QED
        BY <4>2, <4>3, EntriesFrame
    <3> QED
      BY <3>3, <3>4 DEF EntriesOK
  <2> QED
    BY <2>2, <2>3
<1>4. ASSUME NEW c \in Cpus, Commit(c) PROVE EntriesOK'
  <2>0. PICK d \in Cpus, s \in Slots : out[c].to = d /\ out[c].slot = s
    BY <1>4, RequestTypes DEF Commit, OutOK
  <2>1. /\ out[c].req \in Requests /\ lock[d] = c /\ c # null
        /\ first_alloc[d] \in Slots /\ first_free[d] \in Slots
    BY <1>4, <2>0, RequestTypes, SmpAssumption DEF Commit, OutOK, LockOK, TypeOK
  <2>2. /\ entries' = [entries EXCEPT ![d][s] = out[c].req]
        /\ lock' = [lock EXCEPT ![d] = null] /\ out' = [out EXCEPT ![c] = null]
        /\ UNCHANGED <<first_alloc, first_free>>
    BY <1>4, <2>0 DEF Commit
  <2>3. InRing(d, s)
    BY <2>0, <2>1, BetweenSteps DEF InRing, LockOK
  <2>4. ASSUME NEW i \in Slots
        PROVE  (entries[d][i] \in Requests)' <=> (InRing(d, i) /\ ~Filling(d, i))'
    <3>1. ~Filling(d, i)'
      BY <2>1, <2>2 DEF TypeOK
    <3>2. InRing(d, i)' <=> InRing(d, i)
      BY <2>2 DEF InRing
    <3>3. entries'[d][i] = IF i = s THEN out[c].req ELSE entries[d][i]
      BY <2>1, <2>2 DEF TypeOK
    <3>4. entries[d][i] \in Requests <=> InRing(d, i) /\ i # s
      BY <2>0, <2>1 DEF EntriesOK
    <3> QED
      BY <2>1, <2>3, <3>1, <3>2, <3>3, <3>4
  <2>5. ASSUME NEW e \in Cpus \ {d}, NEW i \in Slots
        PROVE  (entries[e][i] \in Requests)' <=> (InRing(e, i) /\ ~Filling(e, i))'
    <3>1. lock[e] # null => lock[e] # c
      BY <2>0 DEF LockOK
    <3>2. lock[e] # null => out'[lock[e]] = out[lock[e]]
      BY <2>2, <3>1 DEF TypeOK
    <3>3. UNCHANGED <<entries[e], lock[e], first_alloc[e], first_free[e]>>
      BY <2>2 DEF TypeOK
    <3> QED
      BY <3>2, <3>3, EntriesFrame
  <2> QED
    BY <2>4, <2>5 DEF EntriesOK
<1>5. ASSUME NEW c \in Cpus, Interrupt(c) PROVE EntriesOK'
  <2>1. /\ UNCHANGED boxes
        /\ \A e \in Cpus : pc[e] = "set" => out'[e] = out[e]
    BY <1>5 DEF Interrupt, Walk, GoTo, boxes, TypeOK
  <2> QED
    BY <1>same, <2>1
<1>6. ASSUME NEW c \in Cpus, TimerInterrupt(c) PROVE EntriesOK'
  <2>1. /\ UNCHANGED boxes
        /\ \A e \in Cpus : pc[e] = "set" => out'[e] = out[e]
    BY <1>6 DEF TimerInterrupt, Walk, GoTo, boxes, TypeOK
  <2> QED
    BY <1>same, <2>1
<1>7. ASSUME NEW c \in Cpus, Resume(c) PROVE EntriesOK'
  <2>1. /\ UNCHANGED boxes
        /\ \A e \in Cpus : pc[e] = "set" => out'[e] = out[e]
    BY <1>7 DEF Resume, Walk, GoTo, boxes, TypeOK
  <2> QED
    BY <1>same, <2>1
<1>8. ASSUME NEW c \in Cpus, Take(c) PROVE EntriesOK'
  <2> DEFINE a == first_alloc[c]
  <2>1. /\ a \in Slots /\ first_free[c] \in Slots /\ a # first_free[c] /\ lock[c] = null
    BY <1>8 DEF Take, TakeOK, TypeOK
  <2>2. /\ entries' = [entries EXCEPT ![c][a] = NoRequest]
        /\ first_alloc' = [first_alloc EXCEPT ![c] = NextSlot(a)]
        /\ UNCHANGED <<first_free, lock, out>>
    BY <1>8 DEF Take
  <2> HIDE DEF a
  <2>3. ASSUME NEW i \in Slots
        PROVE  (entries[c][i] \in Requests)' <=> (InRing(c, i) /\ ~Filling(c, i))'
    <3>1. ~Filling(c, i) /\ ~Filling(c, i)'
      BY <2>1, <2>2
    <3>2. InRing(c, i)' <=> InRing(c, i) /\ i # a
      <4>1. first_alloc'[c] = NextSlot(a) /\ first_free'[c] = first_free[c]
        BY <2>2 DEF TypeOK
      <4> QED
        BY <2>1, <4>1, BetweenSteps DEF InRing, a
    <3>3. entries'[c][i] = IF i = a THEN NoRequest ELSE entries[c][i]
      BY <2>1, <2>2 DEF TypeOK
    <3>4. entries[c][i] \in Requests <=> InRing(c, i)
      BY <2>1 DEF EntriesOK
    <3> QED
      BY <3>1, <3>2, <3>3, <3>4, RequestTypes
  <2>4. ASSUME NEW e \in Cpus \ {c}, NEW i \in Slots
        PROVE  (entries[e][i] \in Requests)' <=> (InRing(e, i) /\ ~Filling(e, i))'
    <3>1. UNCHANGED <<entries[e], lock[e], first_alloc[e], first_free[e], out>>
      BY <2>2 DEF TypeOK
    <3> QED
      BY <3>1, EntriesFrame
  <2> QED
    BY <2>3, <2>4 DEF EntriesOK
<1>9. ASSUME NEW c \in Cpus, Handle(c) PROVE EntriesOK'
  <2>1. /\ UNCHANGED boxes
        /\ \A e \in Cpus : pc[e] = "set" => out'[e] = out[e]
    BY <1>9 DEF Handle, Request, Return, Walk, GoTo, boxes, TypeOK
  <2> QED
    BY <1>same, <2>1
<1>10. CASE UNCHANGED vars
  BY <1>same, <1>10 DEF vars
<1> QED
  BY <1>1, <1>2, <1>3, <1>4, <1>5, <1>6, <1>7, <1>8, <1>9, <1>10 DEF Next

\* A walk only handles requests that are complete.
LEMMA HandleStep ==
    ASSUME Inv, [Next]_vars
    PROVE  HandleOK'
<1> USE DEF Inv, RingInv, HandleOK, boxes, TypeOK, GoTo
<1>1. ASSUME NEW t \in Threads, NEW d \in Cpus, Call(t, d) PROVE HandleOK'
  BY <1>1 DEF Call, Request, GoTo
<1>2. ASSUME NEW t \in Threads, NEW d \in Cpus, Post(t, d) PROVE HandleOK'
  BY <1>2 DEF Post, Request, GoTo
<1>3. ASSUME NEW c \in Cpus, Alloc(c) PROVE HandleOK'
  BY <1>3 DEF Alloc, GoTo
<1>4. ASSUME NEW c \in Cpus, Commit(c) PROVE HandleOK'
  BY <1>4 DEF Commit, Return, Walk, GoTo
<1>5. ASSUME NEW c \in Cpus, Interrupt(c) PROVE HandleOK'
  BY <1>5 DEF Interrupt, Walk, GoTo
<1>6. ASSUME NEW c \in Cpus, TimerInterrupt(c) PROVE HandleOK'
  BY <1>6 DEF TimerInterrupt, Walk, GoTo
<1>7. ASSUME NEW c \in Cpus, Resume(c) PROVE HandleOK'
  BY <1>7 DEF Resume, Walk, GoTo
<1>8. ASSUME NEW c \in Cpus, Take(c) PROVE HandleOK'
  <2>1. /\ first_alloc[c] \in Slots /\ first_free[c] \in Slots /\ first_alloc[c] # first_free[c]
        /\ lock[c] = null
    BY <1>8 DEF Take, TakeOK
  <2>2. InRing(c, first_alloc[c])
    BY <2>1, BetweenSteps DEF InRing
  <2>3. entries[c][first_alloc[c]] \in Requests
    BY <2>1, <2>2 DEF EntriesOK
  <2> QED
    BY <1>8, <2>3 DEF Take
<1>9. ASSUME NEW c \in Cpus, Handle(c) PROVE HandleOK'
  BY <1>9 DEF Handle, Request, Return, Walk, GoTo
<1>10. CASE UNCHANGED vars
  BY <1>10 DEF vars
<1> QED
  BY <1>1, <1>2, <1>3, <1>4, <1>5, <1>6, <1>7, <1>8, <1>9, <1>10 DEF Next

\* The rings and their requests are sound.
THEOREM RingsSound == Spec => []Inv
<1>1. ASSUME Init PROVE Inv
  <2>1. TypeOK
    BY <1>1, SmpAssumption, RequestTypes DEF Init, TypeOK, Places
  <2>2. OutOK /\ LockOK /\ TakeOK /\ HandleOK
    BY <1>1 DEF Init, OutOK, LockOK, TakeOK, HandleOK
  <2>3. EntriesOK
    <3>1. \A i \in Slots : ~Between(0, 0, i)
      BY SmpAssumption DEF Between, Slots
    <3> QED
      BY <1>1, <3>1, RequestTypes DEF Init, EntriesOK, InRing
  <2> QED
    BY <2>1, <2>2, <2>3 DEF Inv, RingInv
<1>2. Inv /\ [Next]_vars => Inv'
  BY TypeStep, OutStep, LockStep, TakeStep, EntriesStep, HandleStep DEF Inv, RingInv
<1> QED
  BY <1>1, <1>2, PTL DEF Spec

-----------------------------------------------------------------------------
(* One request for every wait                                                *)

\* The empty entry is nobody's call or answer.
LEMMA IsForRequest ==
    ASSUME NEW t \in Threads
    PROVE  /\ ~IsFor(NoRequest, t)
           /\ \A u \in Threads : /\ IsFor([handler |-> "call", tcb |-> u], t) <=> u = t
                                /\ IsFor([handler |-> "reply", tcb |-> u], t) <=> u = t
                                /\ ~IsFor([handler |-> "post", tcb |-> u], t)
BY SmpAssumption DEF IsFor, NoRequest

\* Every step takes the request of a thread from one place to the next.
LEMMA OnePlaceStep == Inv /\ OnePlace /\ [Next]_vars => OnePlace'
<1> SUFFICES ASSUME Inv, OnePlace, [Next]_vars, NEW t \in Threads
             PROVE  OnePlaceOf(t \in waiting, Mailed(t), Handled(t), Sending(t))'
  BY DEF OnePlace
<1> DEFINE Goal == OnePlaceOf(t \in waiting', Mailed(t)', Handled(t)', Sending(t)')
<1>old. OnePlaceOf(t \in waiting, Mailed(t), Handled(t), Sending(t))
  BY DEF OnePlace
<1>same. ASSUME UNCHANGED <<Mailed(t), Handled(t), Sending(t), t \in waiting>> PROVE Goal
  BY <1>old, <1>same
<1>1. ASSUME NEW u \in Threads, NEW d \in Cpus, Call(u, d) PROVE Goal
  <2>1. PICK c \in Cpus : Home[u] = c
    BY SmpAssumption
  <2>2. /\ pc[c] = "user" /\ u \notin waiting /\ waiting' = waiting \cup {u}
        /\ pc' = [pc EXCEPT ![c] = "alloc"] /\ UNCHANGED <<entries, entry>>
        /\ out' = [out EXCEPT ![c] = [req |-> [handler |-> "call", tcb |-> u], to |-> d,
                                      slot |-> 0, back |-> "user"]]
    BY <1>1, <2>1 DEF Call, Request, GoTo, boxes
  <2>3. Mailed(t)' = Mailed(t) /\ Handled(t)' = Handled(t)
    BY <2>2 DEF Mailed, Handled, Inv, TypeOK
  <2>4. IsFor(out'[c].req, t) <=> u = t
    <3>1. out'[c].req = [handler |-> "call", tcb |-> u]
      BY <2>2 DEF Inv, TypeOK
    <3> QED
      BY <3>1 DEF IsFor
  <2>5. Sending(t)' = IF u = t THEN Sending(t) \cup {c} ELSE Sending(t)
    BY <2>2, <2>4 DEF Sending, Inv, TypeOK
  <2> QED
    BY <1>old, <2>2, <2>3, <2>5 DEF OnePlaceOf
<1>2. ASSUME NEW u \in Threads, NEW d \in Cpus, Post(u, d) PROVE Goal
  <2>1. PICK c \in Cpus : Home[u] = c
    BY SmpAssumption
  <2>2. /\ pc[c] = "user" /\ pc' = [pc EXCEPT ![c] = "alloc"] /\ UNCHANGED <<entries, entry, waiting>>
        /\ out' = [out EXCEPT ![c] = [req |-> [handler |-> "post", tcb |-> u], to |-> d,
                                      slot |-> 0, back |-> "user"]]
    BY <1>2, <2>1 DEF Post, Request, GoTo, boxes
  <2>3. Mailed(t)' = Mailed(t) /\ Handled(t)' = Handled(t)
    BY <2>2 DEF Mailed, Handled, Inv, TypeOK
  <2>4. ~IsFor(out'[c].req, t)
    <3>1. out'[c].req = [handler |-> "post", tcb |-> u]
      BY <2>2 DEF Inv, TypeOK
    <3> QED
      BY <3>1 DEF IsFor
  <2>5. Sending(t)' = Sending(t)
    BY <2>2, <2>4 DEF Sending, Inv, TypeOK
  <2> QED
    BY <1>same, <2>2, <2>3, <2>5
<1>3. ASSUME NEW c \in Cpus, Alloc(c) PROVE Goal
  <2>1. /\ pc[c] = "alloc" /\ pc' \in {[pc EXCEPT ![c] = p] : p \in {"set", "stopped"}}
        /\ UNCHANGED <<entries, entry, waiting>>
    BY <1>3 DEF Alloc, GoTo, boxes
  <2>2. Mailed(t)' = Mailed(t) /\ Handled(t)' = Handled(t)
    BY <2>1 DEF Mailed, Handled, Inv, TypeOK
  <2>3. \A e \in Cpus : IsFor(out'[e].req, t) <=> IsFor(out[e].req, t)
    <3>1. PICK d \in Cpus : out[c].to = d
      BY <1>3, RequestTypes DEF Alloc, Inv, RingInv, OutOK
    <3>2. out[c] \in Sends /\ first_free[d] \in Slots
      BY <1>3 DEF Alloc, Inv, RingInv, OutOK, TypeOK
    <3>3. [out[c] EXCEPT !.slot = first_free[d]].req = out[c].req
      BY <3>2, RequestTypes
    <3>4. out' \in {out, [out EXCEPT ![c] = [out[c] EXCEPT !.slot = first_free[d]]]}
      BY <1>3, <3>1 DEF Alloc
    <3> QED
      BY <3>3, <3>4 DEF Inv, TypeOK
  <2>4. Sending(t)' = Sending(t)
    BY <2>1, <2>3 DEF Sending, Inv, TypeOK
  <2> QED
    BY <1>same, <2>1, <2>2, <2>4
<1>4. ASSUME NEW c \in Cpus, Commit(c) PROVE Goal
  <2>1. PICK d \in Cpus, i \in Slots : out[c].to = d /\ out[c].slot = i
    BY <1>4, RequestTypes DEF Commit, Inv, RingInv, OutOK
  <2>2. /\ pc[c] = "set" /\ pc' \in {[pc EXCEPT ![c] = p] : p \in {"take", "user"}}
        /\ entries' = [entries EXCEPT ![d][i] = out[c].req] /\ out' = [out EXCEPT ![c] = null]
        /\ UNCHANGED <<entry, waiting>>
    BY <1>4, <2>1 DEF Commit, Return, Walk, GoTo
  <2>3. entries[d][i] = NoRequest
    <3>1. lock[d] = c /\ c # null
      BY <2>1, <2>2, SmpAssumption DEF Inv, RingInv, LockOK
    <3> QED
      BY <2>1, <3>1 DEF Inv, RingInv, EntriesOK, TypeOK
  <2>4. Handled(t)' = Handled(t)
    BY <2>2 DEF Handled, Inv, TypeOK
  <2>5. Sending(t)' = Sending(t) \ {c}
    BY <2>2 DEF Sending, Inv, TypeOK
  <2>6. Mailed(t)' = IF IsFor(out[c].req, t) THEN Mailed(t) \cup {<<d, i>>} ELSE Mailed(t)
    <3>1. \A x \in Cpus \X Slots : entries'[x[1]][x[2]] = IF x = <<d, i>> THEN out[c].req ELSE entries[x[1]][x[2]]
      BY <2>2 DEF Inv, TypeOK
    <3>2. ~IsFor(entries[d][i], t)
      BY <2>3, IsForRequest
    <3> QED
      BY <3>1, <3>2 DEF Mailed
  <2>7. c \in Sending(t) <=> IsFor(out[c].req, t)
    BY <2>2 DEF Sending
  <2>8. <<d, i>> \in Cpus \X Slots
    OBVIOUS
  <2> QED
    BY <1>old, <2>2, <2>4, <2>5, <2>6, <2>7, <2>8 DEF OnePlaceOf
<1>5. ASSUME NEW c \in Cpus, Interrupt(c) PROVE Goal
  <2>1. /\ pc[c] = "user" /\ pc' \in {[pc EXCEPT ![c] = p] : p \in {"take", "user"}}
        /\ UNCHANGED <<entries, out, entry, waiting>>
    BY <1>5 DEF Interrupt, Walk, GoTo, boxes
  <2> QED
    BY <1>same, <2>1 DEF Mailed, Handled, Sending, Inv, TypeOK
<1>6. ASSUME NEW c \in Cpus, TimerInterrupt(c) PROVE Goal
  <2>1. /\ pc[c] = "user" /\ pc' \in {[pc EXCEPT ![c] = p] : p \in {"take", "user"}}
        /\ UNCHANGED <<entries, out, entry, waiting>>
    BY <1>6 DEF TimerInterrupt, Walk, GoTo, boxes
  <2> QED
    BY <1>same, <2>1 DEF Mailed, Handled, Sending, Inv, TypeOK
<1>7. ASSUME NEW c \in Cpus, Resume(c) PROVE Goal
  <2>1. /\ pc[c] = "user" /\ pc' \in {[pc EXCEPT ![c] = p] : p \in {"take", "user"}}
        /\ UNCHANGED <<entries, out, entry, waiting>>
    BY <1>7 DEF Resume, Walk, GoTo, boxes
  <2> QED
    BY <1>same, <2>1 DEF Mailed, Handled, Sending, Inv, TypeOK
<1>8. ASSUME NEW c \in Cpus, Take(c) PROVE Goal
  <2>1. PICK i \in Slots : first_alloc[c] = i
    BY DEF Inv, TypeOK
  <2>2. /\ pc[c] = "take" /\ pc' = [pc EXCEPT ![c] = "handle"]
        /\ entry' = [entry EXCEPT ![c] = entries[c][i]]
        /\ entries' = [entries EXCEPT ![c][i] = NoRequest]
        /\ UNCHANGED <<out, waiting>>
    BY <1>8, <2>1 DEF Take, GoTo
  <2>3. Sending(t)' = Sending(t)
    BY <2>2 DEF Sending, Inv, TypeOK
  <2>4. Handled(t)' = IF IsFor(entries[c][i], t) THEN Handled(t) \cup {c} ELSE Handled(t)
    BY <2>2 DEF Handled, Inv, TypeOK
  <2>5. Mailed(t)' = Mailed(t) \ {<<c, i>>}
    <3>1. \A x \in Cpus \X Slots : entries'[x[1]][x[2]] = IF x = <<c, i>> THEN NoRequest ELSE entries[x[1]][x[2]]
      BY <2>2 DEF Inv, TypeOK
    <3> QED
      BY <3>1, IsForRequest DEF Mailed
  <2>6. <<c, i>> \in Mailed(t) <=> IsFor(entries[c][i], t)
    BY DEF Mailed
  <2> QED
    BY <1>old, <2>2, <2>3, <2>4, <2>5, <2>6 DEF OnePlaceOf
<1>9. ASSUME NEW c \in Cpus, Handle(c) PROVE Goal
  <2>1. entry[c] \in Requests /\ entry[c].tcb \in Threads
    BY <1>9, RequestTypes DEF Handle, Inv, RingInv, HandleOK
  <2>2. PICK u \in Threads : entry[c].tcb = u
    BY <2>1
  <2>3. pc[c] = "handle" /\ entry' = [entry EXCEPT ![c] = NoRequest] /\ UNCHANGED entries
    BY <1>9 DEF Handle, boxes
  <2>4. Mailed(t)' = Mailed(t)
    BY <2>3 DEF Mailed
  <2>5. c \in Handled(t) <=> IsFor(entry[c], t)
    BY <2>3 DEF Handled
  <2>6. Handled(t)' = Handled(t) \ {c}
    <3>1. ~IsFor(entry'[c], t)
      BY <2>3, IsForRequest DEF Inv, TypeOK
    <3>2. \A e \in Cpus \ {c} : pc'[e] = pc[e] /\ entry'[e] = entry[e]
      BY <1>9, <2>3 DEF Handle, Request, Return, Walk, GoTo, Inv, TypeOK
    <3> QED
      BY <3>1, <3>2 DEF Handled
  <2>7. CASE entry[c].handler = "call"
    <3>1. /\ pc' = [pc EXCEPT ![c] = "alloc"] /\ waiting' = waiting
          /\ out' = [out EXCEPT ![c] = [req |-> [handler |-> "reply", tcb |-> u], to |-> Home[u],
                                        slot |-> 0, back |-> "return"]]
      BY <1>9, <2>2, <2>7 DEF Handle, Request, GoTo
    <3>2. IsFor(out'[c].req, t) <=> u = t
      <4>1. out'[c].req = [handler |-> "reply", tcb |-> u]
        BY <3>1 DEF Inv, TypeOK
      <4> QED
        BY <4>1 DEF IsFor
    <3>3. Sending(t)' = IF u = t THEN Sending(t) \cup {c} ELSE Sending(t)
      BY <2>3, <3>1, <3>2 DEF Sending, Inv, TypeOK
    <3>4. IsFor(entry[c], t) <=> u = t
      BY <2>2, <2>7 DEF IsFor
    <3> QED
      BY <1>old, <2>4, <2>5, <2>6, <3>1, <3>3, <3>4 DEF OnePlaceOf
  <2>8. CASE entry[c].handler = "reply"
    <3>1. /\ waiting' = waiting \ {u} /\ out' = out
          /\ pc' \in {[pc EXCEPT ![c] = p] : p \in {"take", "user"}}
      BY <1>9, <2>2, <2>8 DEF Handle, Return, Walk, GoTo
    <3>2. Sending(t)' = Sending(t)
      BY <2>3, <3>1 DEF Sending, Inv, TypeOK
    <3>3. IsFor(entry[c], t) <=> u = t
      BY <2>2, <2>8 DEF IsFor
    <3> QED
      BY <1>old, <2>4, <2>5, <2>6, <3>1, <3>2, <3>3 DEF OnePlaceOf
  <2>9. CASE entry[c].handler = "post"
    <3>1. /\ waiting' = waiting /\ out' = out
          /\ pc' \in {[pc EXCEPT ![c] = p] : p \in {"take", "user"}}
      BY <1>9, <2>9 DEF Handle, Return, Walk, GoTo
    <3>2. Sending(t)' = Sending(t)
      BY <2>3, <3>1 DEF Sending, Inv, TypeOK
    <3>3. ~IsFor(entry[c], t)
      BY <2>9 DEF IsFor
    <3> QED
      BY <1>old, <2>4, <2>5, <2>6, <3>1, <3>2, <3>3 DEF OnePlaceOf
  <2> QED
    BY <2>1, <2>7, <2>8, <2>9, RequestTypes
<1>10. CASE UNCHANGED vars
  BY <1>same, <1>10 DEF vars, boxes, Mailed, Handled, Sending
<1> QED
  BY <1>1, <1>2, <1>3, <1>4, <1>5, <1>6, <1>7, <1>8, <1>9, <1>10 DEF Next

\* A thread that waits for another processor has exactly one call or answer under
\* way, and a handler is never run on an entry that is not complete.
THEOREM RequestsNotLost == Spec => []RequestsExact
<1>1. Init => OnePlace
  BY IsForRequest DEF Init, OnePlace, OnePlaceOf, Mailed, Handled, Sending
<1>2. ASSUME Inv, OnePlace PROVE RequestsExact
  <2>1. HandlesComplete
    BY <1>2, RequestTypes DEF Inv, RingInv, HandleOK, HandlesComplete
  <2>2. ASSUME NEW t \in Threads PROVE InFlight(t) = (IF t \in waiting THEN 1 ELSE 0)
    <3>1. Cardinality({}) = 0 /\ \A x : Cardinality({x}) = 1
      BY FS_EmptySet, FS_Singleton
    <3>2. OnePlaceOf(t \in waiting, Mailed(t), Handled(t), Sending(t))
      BY <1>2 DEF OnePlace
    <3>3. CASE t \notin waiting
      BY <3>1, <3>2, <3>3 DEF InFlight, OnePlaceOf
    <3>4. CASE t \in waiting
      <4>1. CASE \E x : Mailed(t) = {x} /\ Handled(t) = {} /\ Sending(t) = {}
        <5>1. Cardinality(Mailed(t)) = 1 /\ Cardinality(Handled(t)) = 0 /\ Cardinality(Sending(t)) = 0
          BY <3>1, <4>1, Zenon
        <5> QED
          BY <3>4, <5>1 DEF InFlight
      <4>2. CASE \E x : Mailed(t) = {} /\ Handled(t) = {x} /\ Sending(t) = {}
        <5>1. Cardinality(Mailed(t)) = 0 /\ Cardinality(Handled(t)) = 1 /\ Cardinality(Sending(t)) = 0
          BY <3>1, <4>2, Zenon
        <5> QED
          BY <3>4, <5>1 DEF InFlight
      <4>3. CASE \E x : Mailed(t) = {} /\ Handled(t) = {} /\ Sending(t) = {x}
        <5>1. Cardinality(Mailed(t)) = 0 /\ Cardinality(Handled(t)) = 0 /\ Cardinality(Sending(t)) = 1
          BY <3>1, <4>3, Zenon
        <5> QED
          BY <3>4, <5>1 DEF InFlight
      <4> QED
        BY <3>2, <3>4, <4>1, <4>2, <4>3 DEF OnePlaceOf
    <3> QED
      BY <3>3, <3>4
  <2> QED
    BY <2>1, <2>2 DEF RequestsExact, OneRequestPerWait
<1> QED
  BY <1>1, <1>2, OnePlaceStep, RingsSound, PTL DEF Spec

-----------------------------------------------------------------------------
(* The refinement of Channels                                                *)

\* The number of entries in use from a up to f, and the k-th of them.
HeldIn(a, f) == (f + MaxEntries - a) % MaxEntries
NthFrom(a, k) == (a + k - 1) % MaxEntries

\* The entries in use when an end of the ring moves: how many they are and which
\* is the k-th.
LEMMA RingSteps ==
    ASSUME NEW a \in Slots, NEW f \in Slots
    PROVE  /\ HeldIn(a, f) \in 0..(MaxEntries - 1) /\ (HeldIn(a, f) = 0 <=> a = f)
           /\ \A k \in 1..HeldIn(a, f) : NthFrom(a, k) \in Slots
           /\ NextSlot(f) # a => HeldIn(a, NextSlot(f)) = HeldIn(a, f) + 1
           /\ NextSlot(f) = a => HeldIn(a, f) = MaxEntries - 1
           /\ \A i \in Slots : f # a /\ NextSlot(i) = f =>
                  /\ NthFrom(a, HeldIn(a, f)) = i
                  /\ \A k \in 1..(HeldIn(a, f) - 1) : NthFrom(a, k) # i
           /\ a # f => /\ HeldIn(NextSlot(a), f) = HeldIn(a, f) - 1
                       /\ \A k \in 1..(HeldIn(a, f) - 1) :
                              NthFrom(NextSlot(a), k) = NthFrom(a, k + 1) /\ NthFrom(a, k + 1) # a
<1>1. /\ a \in Nat /\ a < MaxEntries /\ f \in Nat /\ f < MaxEntries /\ MaxEntries \in Nat
      /\ MaxEntries >= 2 /\ \A i \in Slots : i \in Nat /\ i < MaxEntries
  BY SmpAssumption DEF Slots
<1>2. \A i \in Slots : NextSlot(i) = (IF i = MaxEntries - 1 THEN 0 ELSE i + 1) /\ NextSlot(i) \in Slots
  BY NextSlotValue
<1>3. \A i, j \in Slots : HeldIn(i, j) = (IF i <= j THEN j - i ELSE j + MaxEntries - i)
  BY HeldValue DEF HeldIn
<1>4. \A i \in Slots, k \in 1..MaxEntries :
          /\ NthFrom(i, k) = (IF i + k - 1 < MaxEntries THEN i + k - 1 ELSE i + k - 1 - MaxEntries)
          /\ NthFrom(i, k) \in Slots
  BY NthValue DEF NthFrom
<1>5. HeldIn(a, f) \in 0..(MaxEntries - 1) /\ (HeldIn(a, f) = 0 <=> a = f)
  BY <1>1, <1>3
<1>6. \A k \in 1..HeldIn(a, f) : k \in 1..MaxEntries
  BY <1>1, <1>5
<1>7. NextSlot(f) # a => HeldIn(a, NextSlot(f)) = HeldIn(a, f) + 1
  BY <1>1, <1>2, <1>3
<1>8. NextSlot(f) = a => HeldIn(a, f) = MaxEntries - 1
  BY <1>1, <1>2, <1>3
<1>9. ASSUME NEW i \in Slots, f # a, NextSlot(i) = f
      PROVE  /\ NthFrom(a, HeldIn(a, f)) = i
             /\ \A k \in 1..(HeldIn(a, f) - 1) : NthFrom(a, k) # i
  <2>1. HeldIn(a, f) \in 1..MaxEntries
    BY <1>1, <1>5, <1>9
  <2>2. NthFrom(a, HeldIn(a, f)) = i
    <3>1. /\ HeldIn(a, f) = (IF a <= f THEN f - a ELSE f + MaxEntries - a)
          /\ NextSlot(i) = (IF i = MaxEntries - 1 THEN 0 ELSE i + 1)
          /\ i \in Nat /\ i < MaxEntries
      BY <1>1, <1>2, <1>3
    <3>2. \A k \in 1..MaxEntries : NthFrom(a, k) = (IF a + k - 1 < MaxEntries THEN a + k - 1
                                                    ELSE a + k - 1 - MaxEntries)
      BY <1>4
    <3>3. CASE a <= f
      <4>1. i = f - 1 /\ HeldIn(a, f) = f - a /\ a + (f - a) - 1 = f - 1 /\ f - 1 < MaxEntries
        BY <1>1, <1>9, <3>1, <3>3
      <4> QED
        BY <2>1, <3>2, <4>1
    <3>4. CASE ~(a <= f)
      <4>1. HeldIn(a, f) = f + MaxEntries - a /\ a + HeldIn(a, f) - 1 = f + MaxEntries - 1
        BY <1>1, <3>1, <3>4
      <4>2. NthFrom(a, HeldIn(a, f)) = (IF f + MaxEntries - 1 < MaxEntries THEN f + MaxEntries - 1
                                        ELSE f + MaxEntries - 1 - MaxEntries)
        BY <1>1, <2>1, <3>2, <4>1
      <4>3. CASE f = 0
        <5>1. i = MaxEntries - 1
          <6>1. i + 1 # 0
            BY <1>1
          <6>2. NextSlot(i) = 0
            BY <1>9, <4>3
          <6> QED
            BY <3>1, <6>1, <6>2
        <5> QED
          BY <1>1, <4>2, <4>3, <5>1
      <4>4. CASE f # 0
        <5>1. i = f - 1
          BY <1>1, <1>9, <3>1, <4>4
        <5> QED
          BY <1>1, <4>2, <4>4, <5>1
      <4> QED
        BY <4>3, <4>4
    <3> QED
      BY <3>3, <3>4
  <2>3. ASSUME NEW k \in 1..(HeldIn(a, f) - 1) PROVE NthFrom(a, k) # i
    <3>1. k \in 1..MaxEntries
      BY <1>1, <1>5
    <3> QED
      BY <1>1, <1>2, <1>3, <1>4, <1>9, <3>1
  <2> QED
    BY <2>2, <2>3
<1>10. ASSUME a # f
       PROVE  /\ HeldIn(NextSlot(a), f) = HeldIn(a, f) - 1
              /\ \A k \in 1..(HeldIn(a, f) - 1) :
                     NthFrom(NextSlot(a), k) = NthFrom(a, k + 1) /\ NthFrom(a, k + 1) # a
  <2>1. HeldIn(NextSlot(a), f) = HeldIn(a, f) - 1
    BY <1>1, <1>2, <1>3, <1>10
  <2>2. ASSUME NEW k \in 1..(HeldIn(a, f) - 1)
        PROVE  NthFrom(NextSlot(a), k) = NthFrom(a, k + 1) /\ NthFrom(a, k + 1) # a
    <3>1. k \in 1..MaxEntries /\ k + 1 \in 1..MaxEntries
      BY <1>1, <1>5
    <3>2. NextSlot(a) = (IF a = MaxEntries - 1 THEN 0 ELSE a + 1) /\ NextSlot(a) \in Slots
      BY <1>2
    <3>3. /\ NthFrom(a, k + 1) = (IF a + k < MaxEntries THEN a + k ELSE a + k - MaxEntries)
          /\ NthFrom(NextSlot(a), k) = (IF NextSlot(a) + k - 1 < MaxEntries THEN NextSlot(a) + k - 1
                                        ELSE NextSlot(a) + k - 1 - MaxEntries)
      <4>1. a + (k + 1) - 1 = a + k
        BY <1>1, <3>1
      <4> QED
        BY <1>4, <3>1, <3>2, <4>1
    <3> QED
      BY <1>1, <1>5, <3>1, <3>2, <3>3
  <2> QED
    BY <2>1, <2>2
<1> QED
  BY <1>4, <1>5, <1>6, <1>7, <1>8, <1>9, <1>10

\* The first n requests of a ring whose entries are row, from slot a on.
QueueOf(row, a, n) == [k \in 1..n |-> row[NthFrom(a, k)]]
Entry == Requests \cup {NoRequest}

\* They are a sequence of n requests.
LEMMA QueueType ==
    ASSUME NEW row \in [Slots -> Entry], NEW a \in Slots, NEW n \in 0..(MaxEntries - 1)
    PROVE  /\ QueueOf(row, a, n) \in Seq(Entry) /\ Len(QueueOf(row, a, n)) = n
           /\ \A k \in 1..n : QueueOf(row, a, n)[k] = row[NthFrom(a, k)]
<1>1. MaxEntries \in Nat /\ n \in Nat /\ n < MaxEntries
  BY SmpAssumption
<1>2. ASSUME NEW k \in 1..n PROVE NthFrom(a, k) \in Slots
  <2>1. k \in 1..MaxEntries
    BY <1>1
  <2> QED
    BY <2>1, NthValue DEF NthFrom
<1> QED
  BY <1>1, <1>2 DEF QueueOf

\* A ring with one more request at its end.
LEMMA QueueAppend ==
    ASSUME NEW row \in [Slots -> Entry], NEW next \in [Slots -> Entry], NEW a \in Slots,
           NEW n \in 0..(MaxEntries - 2), NEW r \in Entry, next[NthFrom(a, n + 1)] = r,
           \A k \in 1..n : next[NthFrom(a, k)] = row[NthFrom(a, k)]
    PROVE  QueueOf(next, a, n + 1) = Append(QueueOf(row, a, n), r)
<1> DEFINE s == QueueOf(row, a, n)
           t == QueueOf(next, a, n + 1)
<1>1. n \in 0..(MaxEntries - 1) /\ n + 1 \in 0..(MaxEntries - 1) /\ n \in Nat
  BY SmpAssumption
<1>2. /\ s \in Seq(Entry) /\ Len(s) = n /\ \A k \in 1..n : s[k] = row[NthFrom(a, k)]
      /\ t \in Seq(Entry) /\ Len(t) = n + 1 /\ \A k \in 1..(n + 1) : t[k] = next[NthFrom(a, k)]
  BY <1>1, QueueType
<1> HIDE DEF s, t
<1>3. /\ Append(s, r) \in Seq(Entry) /\ Len(Append(s, r)) = n + 1 /\ Append(s, r)[n + 1] = r
      /\ \A k \in 1..n : Append(s, r)[k] = s[k]
  BY <1>1, <1>2
<1>4. \A k \in 1..(n + 1) : k \in 1..n \/ k = n + 1
  BY <1>1
<1>5. \A k \in 1..Len(t) : t[k] = Append(s, r)[k]
  BY <1>2, <1>3, <1>4
<1>6. t = Append(s, r)
  BY <1>2, <1>3, <1>5, SeqEqual
<1> QED
  BY <1>6 DEF s, t

\* A ring without its oldest request.
LEMMA QueueTail ==
    ASSUME NEW row \in [Slots -> Entry], NEW next \in [Slots -> Entry],
           NEW a \in Slots, NEW b \in Slots, NEW n \in 1..(MaxEntries - 1),
           \A k \in 1..(n - 1) : next[NthFrom(b, k)] = row[NthFrom(a, k + 1)]
    PROVE  /\ QueueOf(row, a, n) # <<>>
           /\ QueueOf(next, b, n - 1) = Tail(QueueOf(row, a, n))
<1> DEFINE s == QueueOf(row, a, n)
           t == QueueOf(next, b, n - 1)
<1>1. n \in 0..(MaxEntries - 1) /\ n - 1 \in 0..(MaxEntries - 1) /\ n \in Nat /\ n # 0
  BY SmpAssumption
<1>2. /\ s \in Seq(Entry) /\ Len(s) = n /\ \A k \in 1..n : s[k] = row[NthFrom(a, k)]
      /\ t \in Seq(Entry) /\ Len(t) = n - 1 /\ \A k \in 1..(n - 1) : t[k] = next[NthFrom(b, k)]
  BY <1>1, QueueType
<1> HIDE DEF s, t
<1>3. s # <<>>
  BY <1>1, <1>2, EmptySeq
<1>4. /\ Tail(s) \in Seq(Entry) /\ Len(Tail(s)) = n - 1
      /\ \A k \in 1..(n - 1) : Tail(s)[k] = s[k + 1]
  BY <1>2, <1>3, HeadTailProperties
<1>5. \A k \in 1..(n - 1) : k + 1 \in 1..n
  BY <1>1
<1>6. \A k \in 1..Len(t) : t[k] = Tail(s)[k]
  BY <1>2, <1>4, <1>5
<1>7. t = Tail(s)
  BY <1>2, <1>4, <1>6, SeqEqual
<1> QED
  BY <1>3, <1>7 DEF s, t

\* The requests a mailbox has accepted: all entries in use but the one that is
\* being filled, at most MaxEntries - 1.
LEMMA QueueValue ==
    ASSUME Inv, NEW d \in Cpus
    PROVE  /\ first_alloc[d] \in Slots /\ first_free[d] \in Slots /\ entries[d] \in [Slots -> Entry]
           /\ Held(d) = HeldIn(first_alloc[d], first_free[d])
           /\ Accepted(d) = IF lock[d] = null THEN Held(d) ELSE Held(d) - 1
           /\ Accepted(d) \in 0..(MaxEntries - 1) /\ Held(d) \in 0..(MaxEntries - 1)
           /\ Queue(d) = QueueOf(entries[d], first_alloc[d], Accepted(d))
           /\ Queue(d) \in Seq(Entry) /\ Len(Queue(d)) = Accepted(d)
<1>1. first_alloc[d] \in Slots /\ first_free[d] \in Slots /\ entries[d] \in [Slots -> Entry]
  BY DEF Inv, TypeOK, Entry
<1>2. Held(d) = HeldIn(first_alloc[d], first_free[d])
  BY DEF Held, HeldIn
<1>3. lock[d] # null => first_free[d] # first_alloc[d]
  BY DEF Inv, RingInv, LockOK
<1>4. MaxEntries \in Nat /\ Held(d) \in 0..(MaxEntries - 1) /\ (lock[d] # null => Held(d) # 0)
  BY <1>1, <1>2, <1>3, RingSteps, SmpAssumption
<1>5. Accepted(d) \in 0..(MaxEntries - 1)
  BY <1>4 DEF Accepted
<1>6. Queue(d) = QueueOf(entries[d], first_alloc[d], Accepted(d))
  BY DEF Queue, QueueOf, Nth, NthFrom
<1> QED
  BY <1>1, <1>2, <1>4, <1>5, <1>6, QueueType DEF Accepted

\* The accepted requests after a step.
LEMMA QueueNext ==
    ASSUME NEW d \in Cpus
    PROVE  /\ Held(d)' = HeldIn(first_alloc'[d], first_free'[d])
           /\ Accepted(d)' = IF lock'[d] = null THEN Held(d)' ELSE Held(d)' - 1
           /\ Queue(d)' = QueueOf(entries'[d], first_alloc'[d], Accepted(d)')
BY DEF Held, HeldIn, Accepted, Queue, QueueOf, Nth, NthFrom


\* What leaves the mailboxes alone and stops nobody is no step of the queues.
LEMMA NoQueueStep ==
    ASSUME UNCHANGED boxes, UNCHANGED Stopped
    PROVE  UNCHANGED <<Queues, Stopped>>
BY DEF boxes, Queues, Queue, Accepted, Held, Nth

\* Neither is the allocation of an entry; one that finds the ring full stops
\* its processor, and the queue has MaxEntries - 1 requests.
LEMMA AllocQueues ==
    ASSUME Inv, NEW c \in Cpus, Alloc(c)
    PROVE  Channel!ChanNext \/ UNCHANGED <<Queues, Stopped>>
<1>1. PICK d \in Cpus, r \in Requests : out[c].to = d /\ out[c].req = r
  BY RequestTypes DEF Inv, RingInv, OutOK, Alloc
<1>2. lock[d] = null /\ pc[c] = "alloc" /\ pc \in [Cpus -> Places] /\ lock \in [Cpus -> Cpus \cup {null}]
  BY <1>1 DEF Alloc, Inv, TypeOK
<1>3. /\ first_alloc[d] \in Slots /\ first_free[d] \in Slots
      /\ Held(d) = HeldIn(first_alloc[d], first_free[d]) /\ Accepted(d) = Held(d)
      /\ Held(d) \in 0..(MaxEntries - 1) /\ Len(Queue(d)) = Accepted(d)
  BY <1>2, QueueValue
<1>4. CASE Full(d)
  <2>1. pc' = [pc EXCEPT ![c] = "stopped"] /\ UNCHANGED boxes
    BY <1>1, <1>4 DEF Alloc, GoTo
  <2>2. Stopped' = Stopped \cup {c} /\ c \notin Stopped
    BY <1>2, <2>1 DEF Stopped
  <2>3. UNCHANGED Queues
    BY <2>1 DEF boxes, Queues, Queue, Accepted, Held, Nth
  <2>4. Len(Queues[d]) >= MaxEntries - 1
    <3>1. Held(d) = MaxEntries - 1
      BY <1>3, <1>4, RingSteps DEF Full
    <3> QED
      BY <1>3, <3>1, SmpAssumption DEF Queues
  <2>5. Channel!Send(c, d, r)
    BY <2>2, <2>3, <2>4 DEF Channel!Send
  <2> QED
    BY <2>2, <2>5 DEF Channel!ChanNext
<1>5. CASE ~Full(d)
  <2>1. /\ first_free' = [first_free EXCEPT ![d] = NextSlot(first_free[d])]
        /\ lock' = [lock EXCEPT ![d] = c] /\ pc' = [pc EXCEPT ![c] = "set"]
        /\ UNCHANGED <<entries, first_alloc>>
    BY <1>1, <1>5 DEF Alloc, GoTo
  <2>2. first_free'[d] = NextSlot(first_free[d]) /\ lock'[d] = c /\ c # null
    BY <1>2, <2>1, SmpAssumption DEF Inv, TypeOK
  <2>3. UNCHANGED Stopped
    BY <1>2, <2>1 DEF Stopped
  <2>4. ASSUME NEW e \in Cpus PROVE Queue(e)' = Queue(e)
    <3>1. CASE e # d
      <4>1. UNCHANGED <<entries[e], first_alloc[e], first_free[e], lock[e]>>
        BY <2>1, <3>1 DEF Inv, TypeOK
      <4> QED
        BY <4>1 DEF Queue, Accepted, Held, Nth
    <3>2. CASE e = d
      <4>1. Held(d)' = Held(d) + 1
        BY <1>3, <1>5, <2>1, <2>2, RingSteps, QueueNext DEF Full
      <4>2. Accepted(d)' = Accepted(d)
        BY <1>3, <2>2, <4>1, QueueNext, SmpAssumption
      <4>3. Queue(d)' = Queue(d)
        BY <2>1, <4>2, QueueNext, QueueValue
      <4> QED
        BY <3>2, <4>3
    <3> QED
      BY <3>1, <3>2
  <2>5. UNCHANGED Queues
    BY <2>4 DEF Queues
  <2> QED
    BY <2>3, <2>5
<1> QED
  BY <1>4, <1>5

\* A request is accepted when its entry is written.
LEMMA CommitQueues ==
    ASSUME Inv, NEW c \in Cpus, Commit(c)
    PROVE  Channel!ChanNext
<1>1. PICK d \in Cpus, r \in Requests, i \in Slots : out[c].to = d /\ out[c].req = r /\ out[c].slot = i
  BY RequestTypes DEF Inv, RingInv, OutOK, Commit
<1>2. /\ pc[c] = "set" /\ pc \in [Cpus -> Places] /\ lock \in [Cpus -> Cpus \cup {null}]
      /\ lock[d] = c /\ lock[d] # null /\ NextSlot(i) = first_free[d] /\ first_free[d] # first_alloc[d]
  BY <1>1, SmpAssumption DEF Commit, Inv, TypeOK, RingInv, LockOK
<1>3. /\ entries' = [entries EXCEPT ![d][i] = r] /\ lock' = [lock EXCEPT ![d] = null]
      /\ UNCHANGED <<first_alloc, first_free>>
  BY <1>1 DEF Commit
<1>4. c \notin Stopped /\ UNCHANGED Stopped
  <2>1. \A e \in Cpus : pc'[e] = "stopped" <=> pc[e] = "stopped"
    BY <1>2 DEF Commit, Return, Walk, GoTo
  <2> QED
    BY <1>2, <2>1 DEF Stopped
<1>5. /\ first_alloc[d] \in Slots /\ first_free[d] \in Slots /\ entries[d] \in [Slots -> Entry]
      /\ Held(d) = HeldIn(first_alloc[d], first_free[d]) /\ Accepted(d) = Held(d) - 1
      /\ Held(d) \in 0..(MaxEntries - 1) /\ Len(Queue(d)) = Accepted(d)
      /\ Accepted(d) \in 0..(MaxEntries - 1)
      /\ Queue(d) = QueueOf(entries[d], first_alloc[d], Accepted(d))
  BY <1>2, QueueValue
<1>6. Held(d) = Accepted(d) + 1 /\ Accepted(d) \in 0..(MaxEntries - 2) /\ Accepted(d) < MaxEntries - 1
  BY <1>5, SmpAssumption
<1>7. /\ NthFrom(first_alloc[d], Held(d)) = i
      /\ \A k \in 1..Accepted(d) : NthFrom(first_alloc[d], k) # i
  <2>1. PICK a \in Slots, f \in Slots : a = first_alloc[d] /\ f = first_free[d]
    BY <1>5
  <2>2. f # a /\ NextSlot(i) = f
    BY <1>2, <2>1
  <2>3. NthFrom(a, HeldIn(a, f)) = i /\ \A k \in 1..(HeldIn(a, f) - 1) : NthFrom(a, k) # i
    BY <2>2, RingSteps
  <2> QED
    BY <1>5, <2>1, <2>3
<1>8. Queue(d)' = Append(Queue(d), r)
  <2>1. lock'[d] = null /\ entries'[d] = [entries[d] EXCEPT ![i] = r] /\ r \in Entry
    BY <1>2, <1>3 DEF Inv, TypeOK, Entry
  <2>2. entries'[d] \in [Slots -> Entry] /\ entries'[d][i] = r
    BY <1>5, <2>1
  <2>3. Accepted(d)' = Accepted(d) + 1
    BY <1>3, <1>5, <1>6, <2>1, QueueNext
  <2>4. \A k \in 1..Accepted(d) : NthFrom(first_alloc[d], k) \in Slots
    BY <1>5, <1>6, RingSteps
  <2>5. \A k \in 1..Accepted(d) : entries'[d][NthFrom(first_alloc[d], k)] = entries[d][NthFrom(first_alloc[d], k)]
    BY <1>5, <1>7, <2>1, <2>4
  <2>6. PICK a \in Slots, n \in 0..(MaxEntries - 2), row \in [Slots -> Entry], next \in [Slots -> Entry] :
            a = first_alloc[d] /\ n = Accepted(d) /\ row = entries[d] /\ next = entries'[d]
    BY <1>5, <1>6, <2>2
  <2>7. next[NthFrom(a, n + 1)] = r /\ \A k \in 1..n : next[NthFrom(a, k)] = row[NthFrom(a, k)]
    BY <1>6, <1>7, <2>2, <2>5, <2>6
  <2>8. QueueOf(next, a, n + 1) = Append(QueueOf(row, a, n), r)
    BY SMTT(30), <2>1, <2>7, QueueAppend
  <2> QED
    BY <1>3, <1>5, <2>3, <2>6, <2>8, QueueNext
<1>9. ASSUME NEW e \in Cpus, e # d PROVE Queue(e)' = Queue(e)
  <2>1. UNCHANGED <<entries[e], first_alloc[e], first_free[e], lock[e]>>
    BY <1>3, <1>9 DEF Inv, TypeOK
  <2> QED
    BY <2>1 DEF Queue, Accepted, Held, Nth
<1>10. Queues' = [Queues EXCEPT ![d] = Append(Queues[d], r)] /\ Len(Queues[d]) < MaxEntries - 1
  BY <1>5, <1>6, <1>8, <1>9 DEF Queues
<1>11. Channel!Send(c, d, r)
  BY <1>4, <1>10 DEF Channel!Send
<1> QED
  BY <1>4, <1>11 DEF Channel!ChanNext

\* The walk of the mailbox takes the oldest request.
LEMMA TakeQueues ==
    ASSUME Inv, NEW d \in Cpus, Take(d)
    PROVE  Channel!ChanNext
<1>1. /\ pc[d] = "take" /\ lock[d] = null /\ pc' = [pc EXCEPT ![d] = "handle"]
      /\ entries' = [entries EXCEPT ![d][first_alloc[d]] = NoRequest]
      /\ first_alloc' = [first_alloc EXCEPT ![d] = NextSlot(first_alloc[d])]
      /\ UNCHANGED <<first_free, lock>> /\ pc \in [Cpus -> Places]
      /\ first_alloc[d] # first_free[d]
  BY DEF Take, GoTo, Inv, TypeOK, RingInv, TakeOK
<1>2. d \notin Stopped /\ UNCHANGED Stopped
  BY <1>1 DEF Stopped
<1>3. /\ first_alloc[d] \in Slots /\ first_free[d] \in Slots /\ entries[d] \in [Slots -> Entry]
      /\ Held(d) = HeldIn(first_alloc[d], first_free[d]) /\ Accepted(d) = Held(d)
      /\ Held(d) \in 0..(MaxEntries - 1)
      /\ Queue(d) = QueueOf(entries[d], first_alloc[d], Accepted(d))
  BY <1>1, QueueValue
<1>4. PICK a \in Slots, b \in Slots : a = first_alloc[d] /\ b = NextSlot(a)
  BY <1>3, NextSlotValue
<1>5. PICK n \in 1..(MaxEntries - 1) : n = Accepted(d)
  BY <1>1, <1>3, RingSteps, SmpAssumption
<1>6. /\ HeldIn(b, first_free[d]) = n - 1
      /\ \A k \in 1..(n - 1) : NthFrom(b, k) = NthFrom(a, k + 1) /\ NthFrom(a, k + 1) # a
  BY <1>1, <1>3, <1>4, <1>5, RingSteps
<1>7. Queue(d) # <<>> /\ Queue(d)' = Tail(Queue(d))
  <2>1. /\ entries'[d] = [entries[d] EXCEPT ![a] = NoRequest] /\ first_alloc'[d] = b
        /\ first_free'[d] = first_free[d] /\ lock'[d] = null /\ NoRequest \in Entry
    BY <1>1, <1>4 DEF Inv, TypeOK, Entry
  <2>2. entries'[d] \in [Slots -> Entry]
    BY <1>3, <2>1
  <2>3. Accepted(d)' = n - 1
    BY <1>6, <2>1, QueueNext
  <2>4. \A k \in 1..(n - 1) : entries'[d][NthFrom(b, k)] = entries[d][NthFrom(a, k + 1)]
    <3> SUFFICES ASSUME NEW k \in 1..(n - 1)
                 PROVE  entries'[d][NthFrom(b, k)] = entries[d][NthFrom(a, k + 1)]
      OBVIOUS
    <3>1. k + 1 \in 1..HeldIn(a, first_free[d])
      BY <1>3, <1>4, <1>5, SmpAssumption
    <3>2. NthFrom(a, k + 1) \in Slots
      BY <1>3, <3>1, RingSteps
    <3> QED
      BY <1>3, <1>6, <2>1, <3>2
  <2>5. /\ QueueOf(entries[d], a, n) # <<>>
        /\ QueueOf(entries'[d], b, n - 1) = Tail(QueueOf(entries[d], a, n))
    BY ZenonT(40), <1>3, <2>2, <2>4, QueueTail
  <2> QED
    BY <1>3, <1>4, <1>5, <2>1, <2>3, <2>5, QueueNext
<1>8. ASSUME NEW e \in Cpus, e # d PROVE Queue(e)' = Queue(e)
  <2>1. UNCHANGED <<entries[e], first_alloc[e], first_free[e], lock[e]>>
    BY <1>1, <1>8 DEF Inv, TypeOK
  <2> QED
    BY <2>1 DEF Queue, Accepted, Held, Nth
<1>9. Queues' = [Queues EXCEPT ![d] = Tail(Queues[d])] /\ Queues[d] # <<>>
  BY <1>7, <1>8 DEF Queues
<1>10. Channel!Deliver(d)
  BY <1>2, <1>9 DEF Channel!Deliver
<1> QED
  BY <1>2, <1>10 DEF Channel!ChanNext

\* The mailboxes are bounded queues that are served in order: no request is lost,
\* repeated, overtaken or taken before it is complete, though entries are
\* allocated before they are written and the owner looks for requests without
\* the lock, and a processor stops only if MAX_MAILBOX_ENTRIES - 1 requests wait.
THEOREM ImplementsQueues == Spec => ImplementsChannels
<1>1. Init => Channel!ChanInit
  <2> SUFFICES ASSUME Init PROVE Channel!ChanInit
    OBVIOUS
  <2>1. ASSUME NEW d \in Cpus PROVE Queue(d) = <<>>
    <3>1. first_alloc[d] = 0 /\ first_free[d] = 0 /\ lock[d] = null /\ 0 \in Slots
      BY RequestTypes DEF Init
    <3>2. Accepted(d) = 0
      BY <3>1, HeldValue DEF Accepted, Held
    <3> QED
      BY <3>2 DEF Queue
  <2>2. Stopped = {}
    BY DEF Init, Stopped
  <2> QED
    BY <2>1, <2>2 DEF Channel!ChanInit, Queues
<1>2. Inv /\ [Next]_vars => [Channel!ChanNext]_(Channel!chanVars)
  <2> SUFFICES ASSUME Inv, [Next]_vars PROVE Channel!ChanNext \/ UNCHANGED <<Queues, Stopped>>
    BY DEF Channel!chanVars
  <2>1. pc \in [Cpus -> Places]
    BY DEF Inv, TypeOK
  <2>2. ASSUME UNCHANGED boxes,
               \A e \in Cpus : pc'[e] = "stopped" <=> pc[e] = "stopped"
        PROVE  UNCHANGED <<Queues, Stopped>>
    <3>1. UNCHANGED Stopped
      BY <2>2 DEF Stopped
    <3> QED
      BY <2>2, <3>1, NoQueueStep
  <2>3. ASSUME NEW t \in Threads, NEW d \in Cpus, Call(t, d) PROVE UNCHANGED <<Queues, Stopped>>
    <3>1. Home[t] \in Cpus
      BY SmpAssumption
    <3> QED
      BY <2>1, <2>2, <2>3, <3>1 DEF Call, Request, GoTo
  <2>4. ASSUME NEW t \in Threads, NEW d \in Cpus, Post(t, d) PROVE UNCHANGED <<Queues, Stopped>>
    <3>1. Home[t] \in Cpus
      BY SmpAssumption
    <3> QED
      BY <2>1, <2>2, <2>4, <3>1 DEF Post, Request, GoTo
  <2>5. ASSUME NEW c \in Cpus, Interrupt(c) PROVE UNCHANGED <<Queues, Stopped>>
    BY <2>1, <2>2, <2>5 DEF Interrupt, Walk, GoTo
  <2>6. ASSUME NEW c \in Cpus, TimerInterrupt(c) PROVE UNCHANGED <<Queues, Stopped>>
    BY <2>1, <2>2, <2>6 DEF TimerInterrupt, Walk, GoTo
  <2>7. ASSUME NEW c \in Cpus, Resume(c) PROVE UNCHANGED <<Queues, Stopped>>
    BY <2>1, <2>2, <2>7 DEF Resume, Walk, GoTo
  <2>8. ASSUME NEW c \in Cpus, Handle(c) PROVE UNCHANGED <<Queues, Stopped>>
    <3>1. \A e \in Cpus : pc'[e] = "stopped" <=> pc[e] = "stopped"
      BY <2>1, <2>8 DEF Handle, Request, Return, Walk, GoTo
    <3> QED
      BY <2>2, <2>8, <3>1 DEF Handle
  <2>9. CASE UNCHANGED vars
    BY <2>2, <2>9 DEF vars
  <2> QED
    BY <2>3, <2>4, <2>5, <2>6, <2>7, <2>8, <2>9, AllocQueues, CommitQueues, TakeQueues DEF Next
<1> QED
  BY <1>1, <1>2, RingsSound, PTL DEF Spec, ImplementsChannels, Channel!ChanSpec

=============================================================================
