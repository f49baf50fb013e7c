---------------------------- MODULE Mapping_proofs ----------------------------
(* Proofs about the memory of mappings and their revocation: Kmem and        *)
(* MdbBuffers, for any regions, requests and sizes of buffers (memory is     *)
(* conserved, and the chains of frames are exact); Tlb, for any number of    *)
(* processors and address spaces and any revocations; and Mdb, on one        *)
(* processor, for any places and derivations of whole pages or of pieces     *)
(* (the lists are the tree of derivations, and a flush is recursive).  They  *)
(* share nothing but the lemmas about lists.                                 *)
EXTENDS MdbBuffers, Mdb, Tlb, Lists_proofs, FiniteSetTheorems, TLAPS

\* The chunks in a free list.
Members(q) == {q[i] : i \in 1..Len(q)}

Sorted(q) == \A i, j \in 1..Len(q) : i < j => q[i] < q[j]

\* Where the members of two lists come to be, one behind the other.
LEMMA ConcatPlaces ==
    ASSUME NEW S, NEW q \in Seq(S), NEW r \in Seq(S)
    PROVE  /\ q \o r \in Seq(S) /\ Len(q \o r) = Len(q) + Len(r)
           /\ Len(q) \in Nat /\ Len(r) \in Nat
           /\ \A i \in 1..Len(q) : (q \o r)[i] = q[i]
           /\ \A i \in (Len(q) + 1)..(Len(q) + Len(r)) : (q \o r)[i] = r[i - Len(q)]
OBVIOUS

\* q with the chunks of run(a, n) from place at on, and without n of its
\* members from place i on.
Inserted(q, at, a, n) ==
    SubSeq(q, 1, at - 1) \o [k \in 1..n |-> a + k - 1] \o SubSeq(q, at, Len(q))
Removed(q, i, n) == SubSeq(q, 1, i - 1) \o SubSeq(q, i + n, Len(q))

\* kmem_t::free between the elements below the block and those above it.
LEMMA InsertRun ==
    ASSUME NEW q \in Seq(Nat), Sorted(q), NEW a \in Nat, NEW n \in Nat, NEW at \in 1..(Len(q) + 1),
           \A i \in 1..Len(q) : (i < at => q[i] < a) /\ (i >= at => q[i] >= a + n)
    PROVE  /\ Inserted(q, at, a, n) \in Seq(Nat) /\ Sorted(Inserted(q, at, a, n))
           /\ Len(Inserted(q, at, a, n)) = Len(q) + n
           /\ Members(Inserted(q, at, a, n)) = Members(q) \cup run(a, n)
<1> DEFINE x == SubSeq(q, 1, at - 1)
           y == [k \in 1..n |-> a + k - 1]
           z == SubSeq(q, at, Len(q))
           r == x \o y \o z
<1>1. /\ Len(q) \in Nat /\ at \in Nat
      /\ x \in Seq(Nat) /\ Len(x) = at - 1 /\ \A i \in 1..(at - 1) : x[i] = q[i]
  OBVIOUS
<1>2. y \in Seq(Nat) /\ Len(y) = n /\ \A i \in 1..n : y[i] = a + i - 1
  <2>1. y \in [1..n -> Nat]
    OBVIOUS
  <2> QED
    BY <2>1
<1>3. /\ z \in Seq(Nat) /\ Len(z) = (Len(q) - at) + 1
      /\ \A i \in 1..Len(z) : z[i] = q[(at + i) - 1]
  OBVIOUS
<1> HIDE DEF x, y, z
<1>4. /\ x \o y \in Seq(Nat) /\ Len(x \o y) = (at - 1) + n
      /\ \A i \in 1..(at - 1) : (x \o y)[i] = q[i]
      /\ \A i \in at..((at - 1) + n) : (x \o y)[i] = a + (i - at)
  <2>1. /\ x \o y \in Seq(Nat) /\ Len(x \o y) = Len(x) + Len(y)
        /\ \A i \in 1..Len(x) : (x \o y)[i] = x[i]
        /\ \A i \in (Len(x) + 1)..(Len(x) + Len(y)) : (x \o y)[i] = y[i - Len(x)]
    BY <1>1, <1>2, ConcatPlaces
  <2>2. ASSUME NEW i \in 1..(at - 1) PROVE (x \o y)[i] = q[i]
    BY <1>1, <2>1, <2>2
  <2>3. ASSUME NEW i \in at..((at - 1) + n) PROVE (x \o y)[i] = a + (i - at)
    <3>1. i - Len(x) \in 1..n /\ i \in (Len(x) + 1)..(Len(x) + Len(y))
      BY <1>1, <1>2, <2>3
    <3>2. (x \o y)[i] = y[i - Len(x)]
      BY <2>1, <3>1
    <3> QED
      BY <1>1, <1>2, <3>1, <3>2
  <2> QED
    BY <1>1, <1>2, <2>1, <2>2, <2>3
<1> DEFINE w == x \o y
<1> HIDE DEF w
<1>5. /\ r \in Seq(Nat) /\ Len(r) = Len(q) + n
      /\ \A i \in 1..(at - 1) : r[i] = q[i]
      /\ \A i \in at..((at - 1) + n) : r[i] = a + (i - at)
      /\ \A i \in (at + n)..(Len(q) + n) : r[i] = q[i - n]
  <2>0. /\ w \in Seq(Nat) /\ Len(w) = (at - 1) + n /\ r = w \o z
        /\ \A i \in 1..(at - 1) : w[i] = q[i]
        /\ \A i \in at..((at - 1) + n) : w[i] = a + (i - at)
    BY <1>4 DEF w
  <2> HIDE DEF r
  <2>10. /\ r \in Seq(Nat) /\ Len(r) = Len(w) + Len(z)
         /\ \A i \in 1..Len(w) : r[i] = w[i]
         /\ \A i \in (Len(w) + 1)..(Len(w) + Len(z)) : r[i] = z[i - Len(w)]
    BY ZenonT(40), <1>3, <2>0, ConcatPlaces
  <2>1. r \in Seq(Nat) /\ Len(r) = Len(q) + n
    BY <1>1, <1>3, <2>0, <2>10
  <2>2. \A i \in 1..Len(w) : r[i] = w[i]
    BY <2>10
  <2>3. ASSUME NEW i \in (at + n)..(Len(q) + n) PROVE r[i] = q[i - n]
    <3>1. i - Len(w) \in 1..Len(z) /\ i \in (Len(w) + 1)..(Len(w) + Len(z))
      <4>1. Len(w) = (at - 1) + n /\ Len(z) = Len(q) - at + 1
        BY <1>1, <1>3, <2>0
      <4>2. at \in Nat /\ at >= 1 /\ Len(q) \in Nat
        BY <1>1
      <4> HIDE DEF w, z
      <4> QED
        BY <2>3, <4>1, <4>2
    <3>2. r[i] = z[i - Len(w)]
      BY <2>10, <3>1
    <3>3. (at + (i - Len(w))) - 1 = i - n
      BY <1>1, <2>0, <2>3
    <3> QED
      BY <1>3, <3>1, <3>2, <3>3
  <2>4. /\ \A i \in 1..(at - 1) : i \in 1..Len(w)
        /\ \A i \in at..((at - 1) + n) : i \in 1..Len(w)
    BY <1>1, <2>0
  <2> QED
    BY <2>0, <2>1, <2>2, <2>3, <2>4
<1> HIDE DEF r
<1>6. \A i \in 1..Len(r) :
         i \in 1..(at - 1) \/ i \in at..((at - 1) + n) \/ i \in (at + n)..(Len(q) + n)
  BY <1>1, <1>5
<1>7. /\ \A i \in 1..(at - 1) : i \in 1..Len(q) /\ i \in 1..Len(r)
      /\ \A i \in (at + n)..(Len(q) + n) : i - n \in 1..Len(q) /\ i - n >= at /\ i \in 1..Len(r)
      /\ \A i \in at..((at - 1) + n) : i - at \in 0..(n - 1) /\ i \in 1..Len(r)
  BY <1>1, <1>5
<1>8. \A i \in 1..Len(q) : q[i] \in Nat
  OBVIOUS
<1>9. ASSUME NEW i \in 1..Len(r), NEW j \in 1..Len(r), i < j PROVE r[i] < r[j]
  <2>1. CASE i \in 1..(at - 1) /\ j \in 1..(at - 1)
    BY <1>5, <1>7, <1>9, <2>1 DEF Sorted
  <2>2. CASE i \in 1..(at - 1) /\ j \in at..((at - 1) + n)
    <3>1. r[i] = q[i] /\ q[i] < a /\ r[j] = a + (j - at) /\ j - at \in Nat /\ q[i] \in Nat
      BY SMTT(30), <1>5, <1>7, <1>8, <2>2
    <3> QED
      BY <3>1
  <2>3. CASE i \in 1..(at - 1) /\ j \in (at + n)..(Len(q) + n)
    <3>0. i < at /\ i \in 1..Len(q)
      BY <1>1, <1>7, <2>3
    <3>1. r[i] = q[i] /\ q[i] < a /\ q[i] \in Nat
      BY <1>5, <1>8, <2>3, <3>0
    <3>2. r[j] = q[j - n] /\ q[j - n] >= a + n /\ q[j - n] \in Nat
      BY <1>5, <1>7, <1>8, <2>3
    <3> QED
      BY <3>1, <3>2
  <2>4. CASE i \in at..((at - 1) + n) /\ j \in at..((at - 1) + n)
    <3>1. r[i] = a + (i - at) /\ r[j] = a + (j - at)
      BY <1>5, <2>4
    <3> QED
      BY <1>1, <1>9, <3>1
  <2>5. CASE i \in at..((at - 1) + n) /\ j \in (at + n)..(Len(q) + n)
    <3>1. /\ r[i] = a + (i - at) /\ i - at \in 0..(n - 1) /\ r[j] = q[j - n]
          /\ q[j - n] >= a + n /\ q[j - n] \in Nat
      BY <1>5, <1>7, <1>8, <2>5
    <3> QED
      BY <3>1
  <2>6. CASE i \in (at + n)..(Len(q) + n) /\ j \in (at + n)..(Len(q) + n)
    <3>1. r[i] = q[i - n] /\ r[j] = q[j - n] /\ i - n \in 1..Len(q) /\ j - n \in 1..Len(q)
      BY <1>5, <1>7, <2>6
    <3>2. i - n < j - n
      BY <1>9
    <3> QED
      BY <3>1, <3>2 DEF Sorted
  <2> QED
    BY <1>1, <1>6, <1>9, <2>1, <2>2, <2>3, <2>4, <2>5, <2>6
<1>10. Members(r) \subseteq Members(q) \cup run(a, n)
  <2>1. SUFFICES ASSUME NEW i \in 1..Len(r) PROVE r[i] \in Members(q) \cup run(a, n)
    BY DEF Members
  <2>2. CASE i \in at..((at - 1) + n)
    BY <1>5, <1>7, <2>2 DEF run
  <2> QED
    BY <1>5, <1>6, <1>7, <2>2 DEF Members
<1>11. ASSUME NEW i \in 1..Len(q) PROVE q[i] \in Members(r)
  <2>1. CASE i < at
    <3>1. i \in 1..(at - 1)
      BY <1>1, <2>1
    <3> QED
      BY <1>5, <1>7, <3>1 DEF Members
  <2>2. CASE i >= at
    <3>1. i + n \in (at + n)..(Len(q) + n) /\ (i + n) - n = i
      BY <1>1, <2>2
    <3> QED
      BY <1>5, <1>7, <3>1 DEF Members
  <2> QED
    BY <1>1, <2>1, <2>2
<1>12. ASSUME NEW c \in run(a, n) PROVE c \in Members(r)
  <2>1. (c - a) + at \in at..((at - 1) + n) /\ a + (((c - a) + at) - at) = c
    BY <1>1 DEF run
  <2> QED
    BY <1>5, <1>7, <2>1 DEF Members
<1>13. Members(r) = Members(q) \cup run(a, n)
  BY <1>10, <1>11, <1>12 DEF Members
<1> QED
  BY <1>5, <1>9, <1>13 DEF r, x, y, z, Sorted, Inserted

\* alloc takes consecutive elements of the list that are consecutive chunks.
LEMMA RemoveRun ==
    ASSUME NEW q \in Seq(Nat), Sorted(q), NEW i \in 1..Len(q), NEW n \in Nat \ {0}, i + n <= Len(q),
           \A k \in 1..(n - 1) : q[i + k] = q[i] + k
    PROVE  /\ Removed(q, i, n) \in Seq(Nat) /\ Sorted(Removed(q, i, n))
           /\ Len(Removed(q, i, n)) = Len(q) - n
           /\ run(q[i], n) \subseteq Members(q)
           /\ Members(Removed(q, i, n)) = Members(q) \ run(q[i], n)
<1> DEFINE x == SubSeq(q, 1, i - 1)
           z == SubSeq(q, i + n, Len(q))
           r == x \o z
           p(j) == IF j < i THEN j ELSE j + n
<1>1. /\ Len(q) \in Nat /\ i \in Nat
      /\ x \in Seq(Nat) /\ Len(x) = i - 1 /\ \A j \in 1..(i - 1) : x[j] = q[j]
  OBVIOUS
<1>2. /\ z \in Seq(Nat) /\ Len(z) = (Len(q) - (i + n)) + 1
      /\ \A j \in 1..Len(z) : z[j] = q[((i + n) + j) - 1]
  BY <1>1
<1> HIDE DEF x, z
<1>0. /\ r \in Seq(Nat) /\ Len(r) = Len(x) + Len(z)
      /\ \A j \in 1..Len(x) : r[j] = x[j]
      /\ \A j \in (Len(x) + 1)..(Len(x) + Len(z)) : r[j] = z[j - Len(x)]
  BY ZenonT(40), <1>1, <1>2, ConcatPlaces
<1> HIDE DEF r
<1>3. r \in Seq(Nat) /\ Len(r) = Len(q) - n
  BY <1>0, <1>1, <1>2
<1>4. ASSUME NEW j \in 1..Len(r) PROVE r[j] = q[p(j)] /\ p(j) \in 1..Len(q)
  <2>1. CASE j < i
    <3>1. j \in 1..Len(x) /\ j \in 1..(i - 1) /\ p(j) = j
      BY <1>1, <2>1
    <3>2. r[j] = x[j]
      BY <1>0, <3>1
    <3> QED
      BY <1>1, <3>1, <3>2
  <2>2. CASE ~(j < i)
    <3>0. j \in Nat /\ j <= Len(q) - n /\ j >= i
      BY <1>1, <1>3, <2>2
    <3>1. j - Len(x) \in 1..Len(z) /\ j \in (Len(x) + 1)..(Len(x) + Len(z))
      BY SMTT(30), <1>1, <1>2, <3>0
    <3>2. r[j] = z[j - Len(x)]
      BY <1>0, <3>1
    <3>3. ((i + n) + (j - Len(x))) - 1 = j + n /\ p(j) = j + n
      BY <1>1, <2>2
    <3>4. z[j - Len(x)] = q[j + n]
      BY <1>2, <3>1, <3>3
    <3>5. j + n \in 1..Len(q)
      BY <1>1, <1>3
    <3> QED
      BY <3>2, <3>3, <3>4, <3>5
  <2> QED
    BY <2>1, <2>2
<1>5. Sorted(r)
  <2>1. ASSUME NEW j \in 1..Len(r), NEW k \in 1..Len(r), j < k PROVE p(j) < p(k)
    <3>1. j \in Nat /\ k \in Nat
      OBVIOUS
    <3> QED
      BY <1>1, <2>1, <3>1
  <2> HIDE DEF p
  <2> QED
    BY <1>4, <2>1 DEF Sorted
<1>6. ASSUME NEW k \in 0..(n - 1) PROVE q[i + k] = q[i] + k /\ i + k \in 1..Len(q)
  <2>1. CASE k = 0
    BY <1>1, <2>1
  <2>2. CASE k # 0
    BY <1>1, <2>2
  <2> QED
    BY <2>1, <2>2
<1>7. ASSUME NEW c \in run(q[i], n) PROVE c - q[i] \in 0..(n - 1) /\ c = q[i] + (c - q[i])
  <2>1. q[i] \in Nat
    OBVIOUS
  <2> QED
    BY SMTT(30), <2>1 DEF run
<1>8. run(q[i], n) \subseteq Members(q)
  <2>1. SUFFICES ASSUME NEW c \in run(q[i], n) PROVE c \in Members(q)
    OBVIOUS
  <2>2. c = q[i + (c - q[i])] /\ i + (c - q[i]) \in 1..Len(q)
    BY <1>6, <1>7
  <2> QED
    BY <2>2 DEF Members
<1>9. ASSUME NEW j \in 1..Len(r), r[j] \in run(q[i], n) PROVE FALSE
  <2>1. PICK k \in 0..(n - 1) : r[j] = q[i] + k
    BY <1>7, <1>9
  <2>2. q[p(j)] = q[i + k] /\ p(j) \in 1..Len(q) /\ i + k \in 1..Len(q)
    BY <1>4, <1>6, <2>1
  <2>3. p(j) # i + k
    BY <1>1, <1>3
  <2>4. p(j) < i + k \/ i + k < p(j)
    BY <1>1, <2>2, <2>3
  <2>5. \A e \in 1..Len(q) : q[e] \in Nat
    OBVIOUS
  <2> HIDE DEF p
  <2>6. p(j) < i + k => q[p(j)] < q[i + k]
    BY <2>2 DEF Sorted
  <2>7. i + k < p(j) => q[i + k] < q[p(j)]
    BY <2>2 DEF Sorted
  <2> QED
    BY <2>2, <2>4, <2>5, <2>6, <2>7
<1>10. ASSUME NEW e \in 1..Len(q), q[e] \notin run(q[i], n) PROVE q[e] \in Members(r)
  <2>1. ~(e \in i..(i + (n - 1)))
    <3>1. SUFFICES ASSUME e \in i..(i + (n - 1)) PROVE FALSE
      OBVIOUS
    <3>2. e - i \in 0..(n - 1) /\ i + (e - i) = e
      BY <1>1, <3>1
    <3>3. q[e] = q[i] + (e - i) /\ q[i] \in Nat
      BY <1>6, <3>2
    <3> QED
      BY <1>10, <3>2, <3>3 DEF run
  <2>2. CASE e < i
    <3>1. e \in 1..Len(r) /\ p(e) = e
      BY <1>1, <1>3, <2>2
    <3> QED
      BY <1>4, <3>1 DEF Members
  <2>3. CASE e >= i + n
    <3>1. e - n \in 1..Len(r) /\ p(e - n) = e
      BY <1>1, <1>3, <2>3
    <3> QED
      BY <1>4, <3>1 DEF Members
  <2> QED
    BY <1>1, <2>1, <2>2, <2>3
<1>11. Members(r) = Members(q) \ run(q[i], n)
  <2>1. \A j \in 1..Len(r) : r[j] \in Members(q)
    BY <1>4 DEF Members
  <2> QED
    BY <1>9, <1>10, <2>1 DEF Members
<1> QED
  BY <1>3, <1>5, <1>8, <1>11 DEF r, x, z, Removed
-----------------------------------------------------------------------------

FreeList == Members(kmem_free_list)

\* The chunk or frame numbers of an ordered list are natural numbers.
LEMMA FreeListType ==
    ASSUME ListOrdered
    PROVE  FreeList \subseteq Nat /\ Sorted(kmem_free_list)
BY DEF ListOrdered, FreeList, Members, Sorted

\* kmem_t::free of chunks that are not free: the list stays in order, and
\* has just these chunks more.
LEMMA EnqueueExact ==
    ASSUME ListOrdered, NEW a \in Nat, NEW n \in Nat, run(a, n) \cap FreeList = {}, Enqueue(a, n)
    PROVE  ListOrdered' /\ FreeList' = FreeList \cup run(a, n)
<1> DEFINE q == kmem_free_list
           above == {i \in 1..Len(q) : q[i] >= a}
           at == IF above = {} THEN Len(q) + 1 ELSE FirstOf(above)
<1>1. /\ kmem_free_list' =
            SubSeq(q, 1, at - 1) \o [k \in 1..n |-> a + k - 1] \o SubSeq(q, at, Len(q))
      /\ free_chunks' = free_chunks + n
  BY DEF Enqueue
<1>2. q \in Seq(Nat) /\ Sorted(q) /\ Len(q) \in Nat /\ free_chunks = Len(q)
  BY DEF ListOrdered, Sorted
<1>3. \A i \in 1..Len(q) : q[i] \in Nat
  BY <1>2
<1>4. /\ at \in 1..(Len(q) + 1)
      /\ \A i \in 1..Len(q) : (i < at => q[i] < a) /\ (i >= at => q[i] >= a)
  <2>1. CASE above = {}
    BY <1>2, <1>3, <2>1
  <2>2. CASE above # {}
    <3>1. above \in SUBSET Nat /\ \A i \in above : i \in 1..Len(q) /\ q[i] >= a
      OBVIOUS
    <3>2. \A i \in 1..Len(q) : i \notin above => q[i] < a
      BY <1>3
    <3> HIDE DEF above
    <3>3. \E i \in above : \A j \in above : i <= j
      BY <2>2, <3>1, LeastIndex
    <3>4. at \in above /\ \A j \in above : at <= j
      BY <2>2, <3>3 DEF FirstOf
    <3> HIDE DEF at
    <3>5. at \in 1..Len(q) /\ q[at] >= a
      BY <3>1, <3>4
    <3>6. ASSUME NEW i \in 1..Len(q), i < at PROVE q[i] < a
      <4>1. i \notin above
        BY <3>4, <3>5, <3>6
      <4> QED
        BY <3>2, <4>1
    <3>7. ASSUME NEW i \in 1..Len(q), i >= at PROVE q[i] >= a
      <4>1. CASE i = at
        BY <3>5, <4>1
      <4>2. CASE i # at
        <5>1. q[at] < q[i]
          BY <1>2, <3>5, <3>7, <4>2 DEF Sorted
        <5> QED
          BY <1>3, <3>5, <5>1
      <4> QED
        BY <4>1, <4>2
    <3> QED
      BY <1>2, <3>5, <3>6, <3>7
  <2> QED
    BY <2>1, <2>2
<1> HIDE DEF at
<1>5. ASSUME NEW i \in 1..Len(q), i >= at PROVE q[i] >= a + n
  <2>1. q[i] >= a /\ q[i] \in Nat
    BY <1>3, <1>4, <1>5
  <2>2. q[i] \notin run(a, n)
    BY DEF FreeList, Members
  <2> QED
    BY <2>1, <2>2 DEF run
<1>6. \A i \in 1..Len(q) : (i < at => q[i] < a) /\ (i >= at => q[i] >= a + n)
  BY <1>4, <1>5
<1> DEFINE r == Inserted(q, at, a, n)
<1>7. /\ r \in Seq(Nat) /\ Sorted(r) /\ Len(r) = Len(q) + n
      /\ Members(r) = Members(q) \cup run(a, n)
  <2> HIDE DEF q
  <2> QED
    BY ZenonT(40), <1>2, <1>4, <1>6, InsertRun
<1>8. kmem_free_list' = r
  BY <1>1 DEF Inserted
<1> HIDE DEF r
<1>9. ListOrdered'
  BY <1>1, <1>2, <1>7, <1>8 DEF ListOrdered, Sorted
<1> QED
  BY <1>7, <1>8, <1>9 DEF FreeList

\* kmem_t::alloc and alloc_aligned hand out chunks that were free, at an
\* address aligned to the size, and nothing else leaves the list.
LEMMA TakeExact ==
    ASSUME ListOrdered, NEW size \in Nat \ {0}, NEW alignment, NEW mask, Take(size, alignment, mask)
    PROVE  LET f == Found(size, alignment, mask)
           IN  /\ f \in Nat /\ f % size = 0 /\ run(f, size) \subseteq FreeList
               /\ ListOrdered' /\ FreeList' = FreeList \ run(f, size)
<1> DEFINE q == kmem_free_list
           I == Candidates(size, alignment, mask)
           i == FirstOf(I)
           r == Removed(q, i, size)
<1>1. I # {} /\ Dequeue(i, size)
  BY DEF Take
<1>2. q \in Seq(Nat) /\ Sorted(q) /\ Len(q) \in Nat /\ free_chunks = Len(q)
  BY DEF ListOrdered, Sorted
<1>3. i \in I
  <2>1. I \in SUBSET Nat
    BY DEF Candidates
  <2> HIDE DEF I
  <2>2. \E j \in I : \A k \in I : j <= k
    BY <1>1, <2>1, LeastIndex
  <2> QED
    BY <2>2 DEF FirstOf
<1>4. i \in 1..Len(q) /\ Fits(i, size)
  BY <1>3 DEF Candidates
<1>5. Found(size, alignment, mask) = q[i]
  BY DEF Found
<1>6. kmem_free_list' = r /\ free_chunks' = free_chunks - size
  BY <1>1 DEF Dequeue, Removed
<1> HIDE DEF i
<1>7. /\ q[i] % size = 0 /\ i + size <= Len(q)
      /\ \A k \in 1..(size - 1) : q[i + k] = q[i] + k
  BY <1>4 DEF Fits
<1>8. /\ r \in Seq(Nat) /\ Sorted(r) /\ Len(r) = Len(q) - size
      /\ run(q[i], size) \subseteq Members(q) /\ Members(r) = Members(q) \ run(q[i], size)
  <2> HIDE DEF q
  <2> QED
    BY SMTT(30), <1>2, <1>4, <1>7, RemoveRun
<1>9. q[i] \in Nat
  BY <1>2, <1>4
<1> HIDE DEF r
<1>10. ListOrdered'
  BY <1>2, <1>6, <1>8 DEF ListOrdered, Sorted
<1> QED
  BY <1>5, <1>6, <1>7, <1>8, <1>9, <1>10 DEF FreeList

\* The memory M is cut into the free chunks F and the chunks of the blocks B.
Part(M, F, B) ==
    /\ M = F \cup UNION {chunks(b) : b \in B}
    /\ \A b \in B : chunks(b) \cap F = {}
    /\ \A b, c \in B : b # c => chunks(b) \cap chunks(c) = {}

\* A block made of free chunks is none of the others.
LEMMA PartTake ==
    ASSUME NEW M, NEW F, NEW B, NEW b, Part(M, F, B), chunks(b) \subseteq F, chunks(b) # {}
    PROVE  b \notin B /\ Part(M, F \ chunks(b), B \cup {b})
<1>1. b \notin B
  BY DEF Part
<1>2. UNION {chunks(c) : c \in B \cup {b}} = chunks(b) \cup UNION {chunks(c) : c \in B}
  OBVIOUS
<1>3. M = (F \ chunks(b)) \cup UNION {chunks(c) : c \in B \cup {b}}
  BY <1>2 DEF Part
<1>4. \A c \in B : chunks(c) \cap chunks(b) = {} /\ chunks(b) \cap chunks(c) = {}
  BY DEF Part
<1> QED
  BY <1>1, <1>3, <1>4 DEF Part

\* The chunks of a block that is given back are free.
LEMMA PartGive ==
    ASSUME NEW M, NEW F, NEW B, NEW b \in B, Part(M, F, B)
    PROVE  chunks(b) \cap F = {} /\ Part(M, F \cup chunks(b), B \ {b})
<1>1. UNION {chunks(c) : c \in B} = chunks(b) \cup UNION {chunks(c) : c \in B \ {b}}
  OBVIOUS
<1>2. M = (F \cup chunks(b)) \cup UNION {chunks(c) : c \in B \ {b}}
  BY <1>1 DEF Part
<1> QED
  BY <1>2 DEF Part

\* New memory is free.
LEMMA PartAdd ==
    ASSUME NEW M, NEW F, NEW B, NEW R, Part(M, F, B), R \cap M = {}
    PROVE  R \cap F = {} /\ Part(M \cup R, F \cup R, B)
<1>1. \A b \in B : chunks(b) \subseteq M
  BY DEF Part
<1> QED
  BY <1>1 DEF Part

-----------------------------------------------------------------------------

Page(f) == [first |-> f, size |-> FrameChunks]
Pages == {Page(f) : f \in frames}

\* Who holds the kernel's memory.
MemoryInv ==
    /\ ListOrdered
    /\ added \subseteq Regions
    /\ blocks \subseteq [first : Nat, size : Nat \ {0}]
    /\ frames \subseteq Nat
    /\ \A f \in frames : f % FrameChunks = 0
    /\ blocks \cap Pages = {}
    /\ Part(memory, FreeList, blocks \cup Pages)

\* It is what MemoryExact says.
LEMMA MemoryInvExact == MemoryInv => MemoryExact
BY DEF MemoryInv, MemoryExact, Part, Partition, FreeList, Members, Pages, Page

\* The chunks of a block of at least one.
LEMMA RunNonempty ==
    ASSUME NEW a \in Nat, NEW n \in Nat \ {0}
    PROVE  run(a, n) # {} /\ a \in run(a, n)
<1>1. a <= a /\ a <= a + n - 1
  OBVIOUS
<1>2. a \in run(a, n)
  BY <1>1 DEF run
<1> QED
  BY <1>2

\* init and add hand over memory that nobody had.
LEMMA AddMemory ==
    ASSUME MemoryInv, NEW r \in Regions, Add(r), UNCHANGED mng
    PROVE  MemoryInv'
<1>1. /\ r \notin added /\ added' = added \cup {r} /\ blocks' = blocks
      /\ Enqueue(r.first, r.size)
  BY DEF Add
<1>2. r.first \in Nat /\ r.size \in Nat
  BY KmemAssumption
<1>3. chunks(r) \cap memory = {}
  <2>1. \A s \in added : chunks(r) \cap chunks(s) = {}
    BY <1>1, KmemAssumption DEF MemoryInv
  <2> QED
    BY <2>1 DEF memory
<1>4. memory' = memory \cup chunks(r)
  BY <1>1 DEF memory
<1>5. /\ chunks(r) \cap FreeList = {}
      /\ Part(memory \cup chunks(r), FreeList \cup chunks(r), blocks \cup Pages)
  BY <1>3, PartAdd DEF MemoryInv
<1>6. ListOrdered' /\ FreeList' = FreeList \cup chunks(r)
  BY <1>1, <1>2, <1>5, EnqueueExact DEF MemoryInv, chunks
<1>7. frames' = frames /\ Pages' = Pages
  BY DEF frames, Pages
<1>8. Part(memory, FreeList, blocks \cup Pages)'
  BY <1>1, <1>4, <1>5, <1>6, <1>7 DEF Part
<1> QED
  BY <1>1, <1>6, <1>7, <1>8 DEF MemoryInv

\* A block that is allocated is nobody else's.
LEMMA AllocMemory ==
    ASSUME MemoryInv, NEW q \in Requests, Alloc(q), UNCHANGED mng
    PROVE  MemoryInv'
<1> DEFINE f == Found(q.size, q.alignment, q.mask)
           b == [first |-> f, size |-> q.size]
<1>1. Take(q.size, q.alignment, q.mask) /\ blocks' = blocks \cup {b} /\ added' = added
  BY DEF Alloc
<1>2. q.size \in Nat \ {0}
  BY KmemAssumption
<1>3. /\ f \in Nat /\ run(f, q.size) \subseteq FreeList
      /\ ListOrdered' /\ FreeList' = FreeList \ run(f, q.size)
  BY <1>1, <1>2, TakeExact DEF MemoryInv
<1> HIDE DEF f
<1>4. chunks(b) = run(f, q.size) /\ chunks(b) # {} /\ b \in [first : Nat, size : Nat \ {0}]
  BY <1>2, <1>3, RunNonempty DEF chunks
<1> HIDE DEF b
<1>5. /\ b \notin blocks \cup Pages
      /\ Part(memory, FreeList \ chunks(b), (blocks \cup Pages) \cup {b})
  BY <1>3, <1>4, PartTake DEF MemoryInv
<1>6. frames' = frames /\ Pages' = Pages /\ memory' = memory
  BY <1>1 DEF frames, Pages, memory
<1>7. blocks' \cup Pages' = (blocks \cup Pages) \cup {b}
  BY <1>1, <1>6
<1>8. Part(memory, FreeList, blocks \cup Pages)'
  BY <1>3, <1>4, <1>5, <1>6, <1>7 DEF Part
<1> QED
  BY <1>1, <1>3, <1>4, <1>5, <1>6, <1>8 DEF MemoryInv

\* A block that is given back was not free.
LEMMA FreeMemory ==
    ASSUME MemoryInv, NEW b \in blocks, Free(b), UNCHANGED mng
    PROVE  MemoryInv'
<1>1. Enqueue(b.first, b.size) /\ blocks' = blocks \ {b} /\ added' = added
  BY DEF Free
<1>2. b.first \in Nat /\ b.size \in Nat /\ b \notin Pages
  BY DEF MemoryInv
<1>3. /\ chunks(b) \cap FreeList = {}
      /\ Part(memory, FreeList \cup chunks(b), (blocks \cup Pages) \ {b})
  BY PartGive DEF MemoryInv
<1>4. ListOrdered' /\ FreeList' = FreeList \cup chunks(b)
  BY <1>1, <1>2, <1>3, EnqueueExact DEF MemoryInv, chunks
<1>5. frames' = frames /\ Pages' = Pages /\ memory' = memory
  BY <1>1 DEF frames, Pages, memory
<1>6. blocks' \cup Pages' = (blocks \cup Pages) \ {b}
  BY <1>1, <1>2, <1>5
<1>7. Part(memory, FreeList, blocks \cup Pages)'
  BY <1>3, <1>4, <1>5, <1>6 DEF Part
<1> QED
  BY <1>1, <1>4, <1>5, <1>7 DEF MemoryInv

\* Of a block that is given back in part the rest remains.
LEMMA FreePartMemory ==
    ASSUME MemoryInv, NEW b \in blocks, NEW n \in Nat, FreePart(b, n), UNCHANGED mng
    PROVE  MemoryInv'
<1> DEFINE d == [first |-> b.first + n, size |-> b.size - n]
<1>1. /\ n < b.size /\ Enqueue(b.first, n) /\ blocks' = (blocks \ {b}) \cup {d}
      /\ added' = added
  BY DEF FreePart
<1>2. b.first \in Nat /\ b.size \in Nat /\ b \notin Pages
  BY DEF MemoryInv
<1>3. /\ chunks(b) \cap FreeList = {}
      /\ Part(memory, FreeList \cup chunks(b), (blocks \cup Pages) \ {b})
  BY PartGive DEF MemoryInv
<1>4. d \in [first : Nat, size : Nat \ {0}] /\ chunks(d) # {}
  <2>1. b.first + n \in Nat /\ b.size - n \in Nat \ {0}
    BY <1>1, <1>2
  <2> QED
    BY <2>1, RunNonempty DEF chunks
<1>5. /\ chunks(b) = run(b.first, n) \cup chunks(d)
      /\ run(b.first, n) \cap chunks(d) = {}
  BY <1>1, <1>2 DEF chunks, run
<1> HIDE DEF d
<1>6. /\ d \notin (blocks \cup Pages) \ {b}
      /\ Part(memory, (FreeList \cup chunks(b)) \ chunks(d), ((blocks \cup Pages) \ {b}) \cup {d})
  <2>1. chunks(d) \subseteq FreeList \cup chunks(b)
    BY <1>5
  <2> QED
    BY SMTT(30), <1>3, <1>4, <2>1, PartTake
<1>7. run(b.first, n) \cap FreeList = {}
  BY <1>3, <1>5
<1>8. ListOrdered' /\ FreeList' = FreeList \cup run(b.first, n)
  BY <1>1, <1>2, <1>7, EnqueueExact DEF MemoryInv
<1>9. FreeList' = (FreeList \cup chunks(b)) \ chunks(d)
  BY <1>3, <1>5, <1>8
<1>10. frames' = frames /\ Pages' = Pages /\ memory' = memory
  BY <1>1 DEF frames, Pages, memory
<1>11. blocks' \cup Pages' = ((blocks \cup Pages) \ {b}) \cup {d}
  BY <1>1, <1>2, <1>10
<1>12. Part(memory, FreeList, blocks \cup Pages)'
  BY <1>6, <1>9, <1>10, <1>11 DEF Part
<1> QED
  BY <1>1, <1>2, <1>4, <1>6, <1>8, <1>10, <1>12 DEF MemoryInv

\* A new frame of the buffer lists is in no use, and takes its page.
LEMMA TakePage ==
    ASSUME MemoryInv, Take(FrameChunks, 0, 1), UNCHANGED <<added, blocks>>,
           frames' = frames \cup {Found(FrameChunks, 0, 1)}
    PROVE  MemoryInv' /\ Found(FrameChunks, 0, 1) \in Nat \ frames
<1> DEFINE f == Found(FrameChunks, 0, 1)
<1>1. FrameChunks \in Nat \ {0}
  BY MdbBuffersAssumption
<1>2. /\ f \in Nat /\ f % FrameChunks = 0 /\ run(f, FrameChunks) \subseteq FreeList
      /\ ListOrdered' /\ FreeList' = FreeList \ run(f, FrameChunks)
  BY <1>1, TakeExact DEF MemoryInv
<1> HIDE DEF f
<1>3. chunks(Page(f)) = run(f, FrameChunks) /\ chunks(Page(f)) # {}
  BY <1>1, <1>2, RunNonempty DEF chunks, Page
<1>4. /\ Page(f) \notin blocks \cup Pages
      /\ Part(memory, FreeList \ chunks(Page(f)), (blocks \cup Pages) \cup {Page(f)})
  <2> DEFINE b == Page(f)
             B == blocks \cup Pages
  <2>1. Part(memory, FreeList, B) /\ chunks(b) \subseteq FreeList /\ chunks(b) # {}
    BY <1>2, <1>3 DEF MemoryInv
  <2> HIDE DEF b, B
  <2>2. b \notin B /\ Part(memory, FreeList \ chunks(b), B \cup {b})
    BY <2>1, PartTake
  <2> QED
    BY <2>2 DEF b, B
<1>5. frames' = frames \cup {f} /\ Pages' = Pages \cup {Page(f)} /\ memory' = memory
  BY DEF f, Pages, memory
<1>6. f \notin frames
  BY <1>4 DEF Pages
<1>7. blocks' = blocks /\ blocks' \cup Pages' = (blocks \cup Pages) \cup {Page(f)}
  BY <1>5
<1>8. Part(memory, FreeList, blocks \cup Pages)'
  BY <1>2, <1>3, <1>4, <1>5, <1>7 DEF Part
<1>9. MemoryInv'
  BY ZenonT(40), <1>2, <1>4, <1>5, <1>7, <1>8 DEF MemoryInv
<1> QED
  BY <1>2, <1>6, <1>9 DEF f

\* A frame that goes back takes its page along.
LEMMA GivePage ==
    ASSUME MemoryInv, NEW f \in frames, Enqueue(f, FrameChunks), UNCHANGED <<added, blocks>>,
           frames' = frames \ {f}
    PROVE  MemoryInv'
<1>1. f \in Nat /\ FrameChunks \in Nat /\ Page(f) \in Pages /\ Page(f) \notin blocks
  BY MdbBuffersAssumption DEF MemoryInv, Pages
<1>2. chunks(Page(f)) = run(f, FrameChunks)
  BY DEF chunks, Page
<1>3. /\ chunks(Page(f)) \cap FreeList = {}
      /\ Part(memory, FreeList \cup chunks(Page(f)), (blocks \cup Pages) \ {Page(f)})
  BY <1>1, PartGive DEF MemoryInv
<1>4. ListOrdered' /\ FreeList' = FreeList \cup chunks(Page(f))
  BY <1>1, <1>2, <1>3, EnqueueExact DEF MemoryInv
<1>5. \A g, h \in frames : Page(g) = Page(h) => g = h
  BY DEF Page
<1>6. Pages' = Pages \ {Page(f)} /\ memory' = memory /\ blocks' = blocks
  <2>1. Pages' = {Page(g) : g \in frames \ {f}}
    BY DEF Pages, Page
  <2> HIDE DEF Page
  <2> QED
    BY <1>5, <2>1 DEF Pages, memory
<1>7. blocks' \cup Pages' = (blocks \cup Pages) \ {Page(f)}
  BY <1>1, <1>6
<1>8. Part(memory, FreeList, blocks \cup Pages)'
  BY <1>3, <1>4, <1>6, <1>7 DEF Part
<1> QED
  BY <1>4, <1>6, <1>8 DEF MemoryInv

-----------------------------------------------------------------------------

Links == Nat \cup {none}
Mng == [bl : Lists, freelist : Seq(Nat), num_free : Nat,
        next_freelist : Links, prev_freelist : Links]

\* The frames of list l that have a free buffer.
OnList(m, l) == {f \in DOMAIN m : m[f].bl = l /\ m[f].num_free > 0}

\* They are linked both ways from head h on, in the order of q.
Chain(l, q, m, h) ==
    /\ q \in Seq(Nat) /\ Distinct(q)
    /\ \A f : InList(q, f) <=> f \in OnList(m, l)
    /\ h = IF q = <<>> THEN none ELSE q[1]
    /\ \A i \in 1..Len(q) :
        /\ m[q[i]].next_freelist = IF i = Len(q) THEN none ELSE q[i + 1]
        /\ m[q[i]].prev_freelist = IF i = 1 THEN none ELSE q[i - 1]

\* A frame does not leave the chain while its links stay.
LEMMA ChainKept ==
    ASSUME NEW l, NEW q, NEW m, NEW n, NEW h, Chain(l, q, m, h), OnList(n, l) = OnList(m, l),
           \A f \in OnList(m, l) : /\ n[f].next_freelist = m[f].next_freelist
                                   /\ n[f].prev_freelist = m[f].prev_freelist
    PROVE  Chain(l, q, n, h)
<1>1. \A i \in 1..Len(q) : q[i] \in OnList(m, l)
  BY DEF Chain, InList
<1> QED
  BY <1>1 DEF Chain

\* Where the links of a frame on the chain lead.
LEMMA ChainFacts ==
    ASSUME NEW l, NEW q, NEW m, NEW h, Chain(l, q, m, h)
    PROVE  /\ OnList(m, l) \subseteq Nat
           /\ h \in OnList(m, l) \cup {none}
           /\ h # none => m[h].prev_freelist = none
           /\ \A f \in OnList(m, l) :
                /\ m[f].next_freelist \in (OnList(m, l) \cup {none}) \ {f}
                /\ m[f].prev_freelist \in (OnList(m, l) \cup {none}) \ {f}
                /\ m[f].next_freelist # none => m[m[f].next_freelist].prev_freelist = f
                /\ h # none /\ (m[f].prev_freelist = none <=> h = f)
<1>1. /\ q \in Seq(Nat) /\ Len(q) \in Nat /\ none \notin Nat
      /\ \A i \in 1..Len(q) : q[i] \in OnList(m, l) /\ q[i] \in Nat
  BY MdbBuffersAssumption DEF Chain, InList
<1>2. OnList(m, l) \subseteq Nat
  BY <1>1 DEF Chain, InList
<1>3. h \in OnList(m, l) \cup {none} /\ (h # none => h = q[1] /\ 1 \in 1..Len(q))
  <2>1. CASE q = <<>>
    BY <2>1 DEF Chain
  <2>2. CASE q # <<>>
    <3>1. 1 \in 1..Len(q)
      BY <1>1, <2>2
    <3> QED
      BY <1>1, <2>2, <3>1 DEF Chain
  <2> QED
    BY <2>1, <2>2
<1>4. h # none => m[h].prev_freelist = none
  BY <1>3 DEF Chain
<1>5. ASSUME NEW f \in OnList(m, l)
      PROVE  /\ m[f].next_freelist \in (OnList(m, l) \cup {none}) \ {f}
             /\ m[f].prev_freelist \in (OnList(m, l) \cup {none}) \ {f}
             /\ m[f].next_freelist # none => m[m[f].next_freelist].prev_freelist = f
             /\ h # none /\ (m[f].prev_freelist = none <=> h = f)
  <2>1. PICK i \in 1..Len(q) : q[i] = f
    BY DEF Chain, InList
  <2>2. /\ m[f].next_freelist = IF i = Len(q) THEN none ELSE q[i + 1]
        /\ m[f].prev_freelist = IF i = 1 THEN none ELSE q[i - 1]
    BY <2>1 DEF Chain
  <2>3. /\ i # Len(q) => i + 1 \in 1..Len(q) /\ i + 1 # 1 /\ i + 1 # i /\ (i + 1) - 1 = i
        /\ i # 1 => i - 1 \in 1..Len(q) /\ i - 1 # i
        /\ 1 \in 1..Len(q) /\ f \in Nat
    BY <1>1, <2>1
  <2>4. /\ i # Len(q) => q[i + 1] \in OnList(m, l) /\ q[i + 1] # f /\ q[i + 1] # none
        /\ i # 1 => q[i - 1] \in OnList(m, l) /\ q[i - 1] # f /\ q[i - 1] # none /\ q[1] # f
        /\ f # none
    BY SMTT(30), <1>1, <2>1, <2>3 DEF Chain, Distinct
  <2>5. q # <<>> /\ h = q[1] /\ q[1] # none
    BY <1>1, <2>3 DEF Chain
  <2>6. i # Len(q) => m[q[i + 1]].prev_freelist = f
    BY <2>1, <2>3 DEF Chain
  <2> QED
    BY <2>1, <2>2, <2>4, <2>5, <2>6
<1> QED
  BY <1>2, <1>3, <1>4, <1>5

\* A frame becomes the first of its list.
LEMMA ChainPush ==
    ASSUME NEW l, NEW q, NEW m, NEW n, NEW h, Chain(l, q, m, h),
           NEW f \in Nat, f \notin OnList(m, l), OnList(n, l) = OnList(m, l) \cup {f},
           n[f].next_freelist = h, n[f].prev_freelist = none,
           \A g \in OnList(m, l) :
               /\ n[g].next_freelist = m[g].next_freelist
               /\ n[g].prev_freelist = IF g = h THEN f ELSE m[g].prev_freelist
    PROVE  Chain(l, EnqueueHead(q, f), n, f)
<1> DEFINE r == EnqueueHead(q, f)
<1>1. /\ q \in Seq(Nat) /\ Distinct(q) /\ Len(q) \in Nat
      /\ \A u : InList(q, u) <=> u \in OnList(m, l)
      /\ \A i \in 1..Len(q) : q[i] \in OnList(m, l)
  <2>1. /\ q \in Seq(Nat) /\ Distinct(q) /\ \A u : InList(q, u) <=> u \in OnList(m, l)
    BY DEF Chain
  <2>2. ASSUME NEW i \in 1..Len(q) PROVE q[i] \in OnList(m, l)
    <3>1. InList(q, q[i])
      BY DEF InList
    <3> QED
      BY <2>1, <3>1
  <2> QED
    BY <2>1, <2>2
<1>2. /\ r \in Seq(Nat) /\ Distinct(r)
      /\ \A u : InList(r, u) <=> u \in OnList(n, l)
  BY <1>1, HeadMembers, HeadDistinct
<1>3. /\ Len(r) = Len(q) + 1 /\ r[1] = f /\ r # <<>>
      /\ \A i \in 2..Len(r) : r[i] = q[i - 1]
  BY <1>1 DEF EnqueueHead
<1> HIDE DEF r
<1>4. ASSUME NEW i \in 1..Len(r)
      PROVE  /\ n[r[i]].next_freelist = IF i = Len(r) THEN none ELSE r[i + 1]
             /\ n[r[i]].prev_freelist = IF i = 1 THEN none ELSE r[i - 1]
  <2>1. CASE i = 1
    <3>1. CASE q = <<>>
      BY <1>1, <1>3, <2>1, <3>1 DEF Chain
    <3>2. CASE q # <<>>
      <4>1. h = q[1] /\ Len(r) # 1 /\ 2 \in 2..Len(r)
        BY <1>1, <1>3, <3>2 DEF Chain
      <4> QED
        BY <1>3, <2>1, <4>1
    <3> QED
      BY <3>1, <3>2
  <2>2. CASE i # 1
    <3> DEFINE j == i - 1
    <3>1. j \in 1..Len(q) /\ i \in 2..Len(r) /\ (i = Len(r) <=> j = Len(q)) /\ i = j + 1
      BY <1>1, <1>3, <2>2
    <3> HIDE DEF j
    <3>2. r[i] = q[j] /\ q[j] \in OnList(m, l)
      BY <1>1, <1>3, <3>1 DEF j
    <3>3. /\ m[q[j]].next_freelist = IF j = Len(q) THEN none ELSE q[j + 1]
          /\ m[q[j]].prev_freelist = IF j = 1 THEN none ELSE q[j - 1]
      BY <3>1 DEF Chain
    <3>4. n[r[i]].next_freelist = IF i = Len(r) THEN none ELSE r[i + 1]
      <4>1. i # Len(r) => r[i + 1] = q[j + 1]
        <5>1. i # Len(r) => i + 1 \in 2..Len(r) /\ (i + 1) - 1 = j + 1
          BY <1>1, <1>3, <3>1
        <5> QED
          BY <1>3, <5>1
      <4> QED
        BY <3>1, <3>2, <3>3, <4>1
    <3>5. n[r[i]].prev_freelist = r[i - 1]
      <4>1. CASE j = 1
        <5>1. q[j] = h
          BY <1>1, <3>1, <4>1 DEF Chain
        <5>2. r[i - 1] = f
          BY <1>3, <3>1, <4>1
        <5> QED
          BY <3>2, <5>1, <5>2
      <4>2. CASE j # 1
        <5>1. q[j] # h
          <6>1. 1 \in 1..Len(q) /\ q # <<>>
            BY <1>1, <3>1
          <6> QED
            BY <1>1, <3>1, <4>2, <6>1 DEF Chain, Distinct
        <5>2. i - 1 \in 2..Len(r) /\ (i - 1) - 1 = j - 1
          BY <1>1, <1>3, <3>1, <4>2
        <5> QED
          BY <1>3, <3>2, <3>3, <4>2, <5>1, <5>2
      <4> QED
        BY <4>1, <4>2
    <3> QED
      BY <2>2, <3>4, <3>5
  <2> QED
    BY <2>1, <2>2
<1> QED
  BY <1>2, <1>3, <1>4 DEF Chain, r

\* Where the members of a list come to be when one leaves it.
LEMMA WithoutPlaces ==
    ASSUME NEW S, NEW q \in Seq(S), Distinct(q), NEW k \in 1..Len(q)
    PROVE  /\ Len(Without(q, q[k])) = Len(q) - 1
           /\ \A j \in 1..(Len(q) - 1) : Without(q, q[k])[j] = q[IF j < k THEN j ELSE j + 1]
<1> DEFINE e == CHOOSE i \in 1..Len(q) : q[i] = q[k]
<1>1. e = k
  BY DEF Distinct
<1>2. InList(q, q[k])
  BY DEF InList
<1>3. Without(q, q[k]) = [j \in 1..(Len(q) - 1) |-> q[IF j < e THEN j ELSE j + 1]]
  BY <1>2 DEF Without
<1>4. Len(q) - 1 \in Nat
  OBVIOUS
<1> HIDE DEF e
<1> QED
  BY <1>1, <1>3, <1>4

\* A frame leaves its list, from any place in it: its neighbours are linked.
LEMMA ChainDrop ==
    ASSUME NEW l, NEW q, NEW m, NEW n, NEW h, Chain(l, q, m, h),
           NEW f \in OnList(m, l), OnList(n, l) = OnList(m, l) \ {f},
           \A g \in OnList(n, l) :
               /\ n[g].next_freelist = IF g = m[f].prev_freelist THEN m[f].next_freelist
                                       ELSE m[g].next_freelist
               /\ n[g].prev_freelist = IF g = m[f].next_freelist THEN m[f].prev_freelist
                                       ELSE m[g].prev_freelist
    PROVE  Chain(l, Without(q, f), n, IF h = f THEN m[f].next_freelist ELSE h)
<1> DEFINE r == Without(q, f)
<1>1. /\ q \in Seq(Nat) /\ Distinct(q) /\ Len(q) \in Nat
      /\ \A u : InList(q, u) <=> u \in OnList(m, l)
      /\ \A i \in 1..Len(q) : q[i] \in OnList(m, l)
  BY DEF Chain, InList
<1>2. PICK k \in 1..Len(q) : q[k] = f
  BY <1>1 DEF InList
<1> DEFINE p(j) == IF j < k THEN j ELSE j + 1
<1>3. /\ r \in Seq(Nat) /\ Distinct(r)
      /\ \A u : InList(r, u) <=> u \in OnList(n, l)
  BY <1>1, WithoutType, WithoutMembers
<1>4. /\ Len(r) = Len(q) - 1
      /\ \A j \in 1..Len(r) : r[j] = q[p(j)]
  <2>1. /\ Len(Without(q, q[k])) = Len(q) - 1
        /\ \A j \in 1..(Len(q) - 1) : Without(q, q[k])[j] = q[IF j < k THEN j ELSE j + 1]
    BY <1>1, WithoutPlaces
  <2> QED
    BY <1>2, <2>1
<1> HIDE DEF r
<1>5. ASSUME NEW i \in 1..Len(q)
      PROVE  /\ m[q[i]].next_freelist = IF i = Len(q) THEN none ELSE q[i + 1]
             /\ m[q[i]].prev_freelist = IF i = 1 THEN none ELSE q[i - 1]
  BY DEF Chain
<1>6. \A i, j \in 1..Len(q) : q[i] = q[j] => i = j
  BY <1>1 DEF Distinct
<1>7. none \notin Nat /\ \A i \in 1..Len(q) : q[i] \in Nat
  BY <1>1, MdbBuffersAssumption
<1>8. ASSUME NEW j \in 1..Len(r)
      PROVE  /\ n[r[j]].next_freelist = IF j = Len(r) THEN none ELSE r[j + 1]
             /\ n[r[j]].prev_freelist = IF j = 1 THEN none ELSE r[j - 1]
  <2>1. /\ r[j] = q[p(j)] /\ p(j) \in 1..Len(q) /\ p(j) # k /\ r[j] \in OnList(n, l)
        /\ j \in Nat /\ j <= Len(q) - 1 /\ k \in Nat /\ k <= Len(q)
    <3>1. p(j) \in 1..Len(q) /\ p(j) # k
      BY <1>1, <1>4
    <3>2. r[j] \in OnList(n, l)
      BY <1>3 DEF InList
    <3> QED
      BY <1>1, <1>4, <3>1, <3>2
  <2>2. n[r[j]].next_freelist = IF j = Len(r) THEN none ELSE r[j + 1]
    <3>1. CASE j = k - 1
      <4>1. p(j) = j /\ k # 1 /\ m[f].prev_freelist = r[j]
        BY <1>2, <1>5, <2>1, <3>1
      <4>2. n[r[j]].next_freelist = IF k = Len(q) THEN none ELSE q[k + 1]
        BY <1>2, <1>5, <2>1, <4>1
      <4>3. j = Len(r) <=> k = Len(q)
        BY <1>1, <1>4, <3>1
      <4>4. j # Len(r) => r[j + 1] = q[k + 1]
        <5>1. j # Len(r) => j + 1 \in 1..Len(r) /\ p(j + 1) = k + 1
          BY <1>1, <1>4, <2>1, <3>1
        <5> QED
          BY <1>4, <5>1
      <4> QED
        BY <4>2, <4>3, <4>4
    <3>2. CASE j # k - 1
      <4>1. m[f].prev_freelist # r[j]
        <5>1. CASE k = 1
          BY <1>2, <1>5, <1>7, <2>1, <5>1
        <5>2. CASE k # 1
          <6>1. k - 1 \in 1..Len(q) /\ p(j) # k - 1 /\ m[f].prev_freelist = q[k - 1]
            BY <1>2, <1>5, <2>1, <3>2, <5>2
          <6> QED
            BY <1>6, <2>1, <6>1
        <5> QED
          BY <5>1, <5>2
      <4>2. n[r[j]].next_freelist = IF p(j) = Len(q) THEN none ELSE q[p(j) + 1]
        BY ZenonT(40), <1>5, <2>1, <4>1
      <4>3. j = Len(r) <=> p(j) = Len(q)
        BY <1>1, <1>4, <2>1, <3>2
      <4>4. j # Len(r) => r[j + 1] = q[p(j) + 1]
        <5>1. j # Len(r) => j + 1 \in 1..Len(r)
          BY <1>1, <1>4, <2>1
        <5>2. p(j + 1) = p(j) + 1
          <6>1. CASE j < k
            <7>1. j + 1 < k
              BY <2>1, <3>2, <6>1
            <7> QED
              BY <6>1, <7>1
          <6>2. CASE ~(j < k)
            <7>1. ~(j + 1 < k)
              BY <2>1, <6>2
            <7> QED
              BY <6>2, <7>1
          <6> QED
            BY <6>1, <6>2
        <5> QED
          BY <1>4, <5>1, <5>2
      <4> QED
        BY <4>2, <4>3, <4>4
    <3> QED
      BY <3>1, <3>2
  <2>3. n[r[j]].prev_freelist = IF j = 1 THEN none ELSE r[j - 1]
    <3>1. CASE j = k
      <4>1. p(j) = k + 1 /\ k # Len(q) /\ m[f].next_freelist = r[j]
        BY <1>2, <1>5, <2>1, <3>1
      <4>2. n[r[j]].prev_freelist = IF k = 1 THEN none ELSE q[k - 1]
        BY <1>2, <1>5, <2>1, <4>1
      <4>3. j # 1 => r[j - 1] = q[k - 1]
        <5>1. j # 1 => j - 1 \in 1..Len(r) /\ p(j - 1) = k - 1
          BY <1>1, <1>4, <2>1, <3>1
        <5> QED
          BY <1>4, <5>1
      <4> QED
        BY <3>1, <4>2, <4>3
    <3>2. CASE j # k
      <4>1. m[f].next_freelist # r[j]
        <5>1. CASE k = Len(q)
          BY <1>2, <1>5, <1>7, <2>1, <5>1
        <5>2. CASE k # Len(q)
          <6>1. k + 1 \in 1..Len(q) /\ p(j) # k + 1 /\ m[f].next_freelist = q[k + 1]
            BY <1>2, <1>5, <2>1, <3>2, <5>2
          <6> QED
            BY <1>6, <2>1, <6>1
        <5> QED
          BY <5>1, <5>2
      <4>2. n[r[j]].prev_freelist = IF p(j) = 1 THEN none ELSE q[p(j) - 1]
        BY ZenonT(40), <1>5, <2>1, <4>1
      <4>3. j = 1 <=> p(j) = 1
        BY <1>1, <1>4, <2>1, <3>2
      <4>4. j # 1 => r[j - 1] = q[p(j) - 1]
        <5>1. j # 1 => j - 1 \in 1..Len(r) /\ p(j - 1) = p(j) - 1
          BY <1>1, <1>4, <2>1, <3>2
        <5> QED
          BY <1>4, <5>1
      <4> QED
        BY <4>2, <4>3, <4>4
    <3> QED
      BY <3>1, <3>2
  <2> QED
    BY <2>2, <2>3
<1> DEFINE e == IF h = f THEN m[f].next_freelist ELSE h
<1>9. e = IF r = <<>> THEN none ELSE r[1]
  <2>1. /\ 1 \in 1..Len(q) /\ q # <<>> /\ h = q[1]
        /\ m[f].next_freelist = IF k = Len(q) THEN none ELSE q[k + 1]
    <3>1. 1 \in 1..Len(q)
      BY <1>1, <1>2
    <3> QED
      BY <1>2, <1>5, <3>1 DEF Chain
  <2>2. h = f <=> k = 1
    BY <1>2, <1>6, <2>1
  <2>3. r = <<>> <=> Len(q) = 1
    BY SMTT(30), <1>1, <1>3, <1>4
  <2>4. Len(q) # 1 => 1 \in 1..Len(r) /\ r[1] = q[p(1)]
    BY SMTT(30), <1>1, <1>4, <2>1
  <2>5. CASE k = 1
    <3>1. e = IF Len(q) = 1 THEN none ELSE q[2]
      BY <2>1, <2>2, <2>5
    <3>2. p(1) = 2
      BY <2>5
    <3> QED
      BY <2>3, <2>4, <3>1, <3>2
  <2>6. CASE k # 1
    <3>1. e = q[1] /\ Len(q) # 1
      BY <1>1, <1>2, <2>1, <2>2, <2>6
    <3>2. p(1) = 1
      BY <1>2, <2>6
    <3> QED
      BY <2>3, <2>4, <3>1, <3>2
  <2> QED
    BY <2>5, <2>6
<1> HIDE DEF e
<1>10. Chain(l, r, n, e)
  BY <1>3, <1>8, <1>9 DEF Chain
<1> QED
  BY <1>10 DEF r, e

-----------------------------------------------------------------------------

\* Who is a member of a list, as a set.
LEMMA MembersIn == \A q, s : s \in Members(q) <=> InList(q, s)
BY DEF Members, InList

\* A list that holds everyone once is as long as the set of its members.
LEMMA MembersCardinality ==
    ASSUME NEW S, NEW q \in Seq(S), Distinct(q)
    PROVE  IsFiniteSet(Members(q)) /\ Cardinality(Members(q)) = Len(q)
<1> DEFINE N == 1..Len(q)
           f == [i \in N |-> q[i]]
<1>1. Len(q) \in Nat
  OBVIOUS
<1>2. IsFiniteSet(N) /\ Cardinality(N) = Len(q)
  BY <1>1, FS_Interval
<1>3. f \in [N -> Members(q)]
  BY DEF Members
<1>4. IsInjective(f)
  BY DEF IsInjective, Distinct
<1>5. f \in Surjection(N, Members(q))
  BY <1>3 DEF Surjection, Members
<1>6. f \in Bijection(N, Members(q))
  BY <1>3, <1>4, <1>5 DEF Bijection, Injection
<1> HIDE DEF N, f
<1> QED
  BY <1>2, <1>6, FS_Bijection DEF ExistsBijection

\* The slots of a frame of c buffers that are not in its free list are in use.
Exact(q, c, U) ==
    /\ q \in Seq(Nat) /\ Distinct(q)
    /\ \A s \in Nat : InList(q, s) => s \in 1..c
    /\ \A s \in Nat : s \in U <=> s \in 1..c /\ ~InList(q, s)

\* A buffer is taken from the front of the free list.
LEMMA ExactPop ==
    ASSUME NEW q, NEW c \in Nat, NEW U, Exact(q, c, U), q # <<>>
    PROVE  /\ Head(q) \in 1..c /\ Tail(q) \in Seq(Nat) /\ Len(Tail(q)) = Len(q) - 1
           /\ Exact(Tail(q), c, U \cup {Head(q)})
<1>1. /\ q \in Seq(Nat) /\ Len(q) \in Nat \ {0} /\ Head(q) = q[1] /\ 1 \in 1..Len(q)
      /\ Tail(q) \in Seq(Nat) /\ Len(Tail(q)) = Len(q) - 1
      /\ \A i \in 1..(Len(q) - 1) : Tail(q)[i] = q[i + 1]
  BY DEF Exact
<1>2. Head(q) \in Nat /\ InList(q, Head(q)) /\ Head(q) \in 1..c
  BY <1>1 DEF Exact, InList
<1>3. \A i, j \in 1..Len(q) : q[i] = q[j] => i = j
  BY DEF Exact, Distinct
<1>4. \A i \in 1..Len(Tail(q)) : i + 1 \in 1..Len(q) /\ Tail(q)[i] = q[i + 1] /\ i + 1 # 1
  BY <1>1
<1>5. Distinct(Tail(q))
  <2>1. ASSUME NEW i \in 1..Len(Tail(q)), NEW j \in 1..Len(Tail(q)), Tail(q)[i] = Tail(q)[j]
        PROVE  i = j
    <3>1. i + 1 = j + 1
      BY <1>3, <1>4, <2>1
    <3> QED
      BY <3>1
  <2> QED
    BY <2>1 DEF Distinct
<1>6. ASSUME NEW s \in Nat
      PROVE  InList(Tail(q), s) <=> InList(q, s) /\ s # Head(q)
  <2>1. ASSUME InList(Tail(q), s) PROVE InList(q, s) /\ s # Head(q)
    <3>1. PICK i \in 1..Len(Tail(q)) : Tail(q)[i] = s
      BY <2>1 DEF InList
    <3> QED
      BY <1>1, <1>3, <1>4, <3>1 DEF InList
  <2>2. ASSUME InList(q, s), s # Head(q) PROVE InList(Tail(q), s)
    <3>1. PICK i \in 1..Len(q) : q[i] = s
      BY <2>2 DEF InList
    <3>2. i # 1
      BY <1>1, <2>2, <3>1
    <3>3. i - 1 \in 1..(Len(q) - 1) /\ (i - 1) + 1 = i
      BY <1>1, <3>2
    <3>4. Tail(q)[i - 1] = s
      BY <1>1, <3>1, <3>3
    <3> QED
      BY <1>1, <3>3, <3>4 DEF InList
  <2> QED
    BY <2>1, <2>2
<1>7. Exact(Tail(q), c, U \cup {Head(q)})
  BY <1>1, <1>2, <1>5, <1>6 DEF Exact
<1> QED
  BY <1>1, <1>2, <1>7

\* A buffer that was in use is put at its front.
LEMMA ExactPush ==
    ASSUME NEW q, NEW c \in Nat, NEW U, Exact(q, c, U), NEW s \in Nat, s \in U
    PROVE  /\ <<s>> \o q \in Seq(Nat) /\ Len(<<s>> \o q) = Len(q) + 1
           /\ Exact(<<s>> \o q, c, U \ {s})
<1>1. q \in Seq(Nat) /\ Distinct(q) /\ ~InList(q, s) /\ s \in 1..c
  BY DEF Exact
<1>2. /\ <<s>> \o q \in Seq(Nat) /\ Distinct(<<s>> \o q)
      /\ \A u : InList(<<s>> \o q, u) <=> InList(q, u) \/ u = s
  BY <1>1, HeadMembers, HeadDistinct DEF EnqueueHead
<1>3. Len(<<s>> \o q) = Len(q) + 1
  BY <1>1
<1> DEFINE r == <<s>> \o q
<1> HIDE DEF r
<1>4. Exact(r, c, U \ {s})
  BY <1>1, <1>2 DEF Exact, r
<1> QED
  BY <1>2, <1>3, <1>4 DEF r

\* When all buffers but one are free, this one is the only one in use.
LEMMA ExactLast ==
    ASSUME NEW q, NEW c \in Nat, NEW U, Exact(q, c, U), NEW s \in Nat, s \in U, Len(q) + 1 = c
    PROVE  \A u \in Nat : u \in U => u = s
<1>1. q \in Seq(Nat) /\ Distinct(q) /\ Len(q) \in Nat /\ s \in 1..c /\ ~InList(q, s)
  BY DEF Exact
<1>2. IsFiniteSet(Members(q)) /\ Cardinality(Members(q)) = Len(q)
  BY <1>1, MembersCardinality
<1>3. /\ IsFiniteSet(Members(q) \cup {s})
      /\ Cardinality(Members(q) \cup {s}) = Len(q) + 1
  BY <1>1, <1>2, MembersIn, FS_AddElement
<1>4. Members(q) \cup {s} \in SUBSET (1..c)
  <2>1. \A i \in 1..Len(q) : q[i] \in Nat /\ InList(q, q[i])
    BY <1>1 DEF InList
  <2>2. \A i \in 1..Len(q) : q[i] \in 1..c
    BY <2>1 DEF Exact
  <2> QED
    BY <1>1, <2>2 DEF Members
<1>5. IsFiniteSet(1..c) /\ Cardinality(1..c) = c
  BY FS_Interval
<1>6. 1..c = Members(q) \cup {s}
  BY <1>3, <1>4, <1>5, FS_Subset
<1> QED
  BY <1>6, MembersIn DEF Exact

\* A new frame has all its buffers in order.
LEMMA ExactFresh ==
    ASSUME NEW c \in Nat \ {0}
    PROVE  LET q == [s \in 1..c |-> s]
           IN  Exact(q, c, {}) /\ q \in Seq(Nat) /\ Len(q) = c /\ q # <<>>
<1> DEFINE q == [s \in 1..c |-> s]
<1>1. q \in Seq(Nat)
  <2>1. q \in [1..c -> Nat]
    OBVIOUS
  <2> QED
    BY <2>1
<1>2. Len(q) = c /\ \A s \in 1..c : q[s] = s
  BY <1>1
<1> HIDE DEF q
<1>3. Exact(q, c, {})
  BY <1>1, <1>2 DEF Exact, Distinct, InList
<1>4. q # <<>>
  BY <1>2
<1> QED
  BY <1>1, <1>2, <1>3, <1>4 DEF q

-----------------------------------------------------------------------------

\* What writing one link of a frame does, and to a frame that is none.
PrevWritten(D, m, f, g, n) ==
    /\ n \in [D -> Mng]
    /\ \A x \in D :
         /\ n[x].bl = m[x].bl
         /\ n[x].freelist = m[x].freelist
         /\ n[x].num_free = m[x].num_free
         /\ n[x].next_freelist = m[x].next_freelist
         /\ n[x].prev_freelist = IF x = f THEN g ELSE m[x].prev_freelist

NextWritten(D, m, f, g, n) ==
    /\ n \in [D -> Mng]
    /\ \A x \in D :
         /\ n[x].bl = m[x].bl
         /\ n[x].freelist = m[x].freelist
         /\ n[x].num_free = m[x].num_free
         /\ n[x].prev_freelist = m[x].prev_freelist
         /\ n[x].next_freelist = IF x = f THEN g ELSE m[x].next_freelist

\* The backward link, by SetPrev.
LEMMA SetPrevExact ==
    ASSUME NEW D, D \subseteq Nat, NEW m \in [D -> Mng], NEW f \in D \cup {none}, NEW g \in Links
    PROVE  PrevWritten(D, m, f, g, SetPrev(m, f, g))
<1>1. \A x \in D : x # none
  BY MdbBuffersAssumption
<1>2. CASE f = none
  BY <1>1, <1>2 DEF SetPrev, PrevWritten
<1>3. CASE f # none
  <2> DEFINE y == [m[f] EXCEPT !.prev_freelist = g]
  <2>1. f \in D /\ SetPrev(m, f, g) = [m EXCEPT ![f] = y]
    BY <1>3 DEF SetPrev
  <2>2. /\ y \in Mng /\ y.bl = m[f].bl /\ y.freelist = m[f].freelist
        /\ y.num_free = m[f].num_free /\ y.next_freelist = m[f].next_freelist
        /\ y.prev_freelist = g
    <3>1. m[f] \in Mng
      BY <2>1
    <3> QED
      BY <3>1 DEF Mng
  <2> HIDE DEF y
  <2> QED
    BY <2>1, <2>2 DEF PrevWritten
<1> QED
  BY <1>2, <1>3

\* The forward link, by SetNext.
LEMMA SetNextExact ==
    ASSUME NEW D, D \subseteq Nat, NEW m \in [D -> Mng], NEW f \in D \cup {none}, NEW g \in Links
    PROVE  NextWritten(D, m, f, g, SetNext(m, f, g))
<1>1. \A x \in D : x # none
  BY MdbBuffersAssumption
<1>2. CASE f = none
  BY <1>1, <1>2 DEF SetNext, NextWritten
<1>3. CASE f # none
  <2> DEFINE y == [m[f] EXCEPT !.next_freelist = g]
  <2>1. f \in D /\ SetNext(m, f, g) = [m EXCEPT ![f] = y]
    BY <1>3 DEF SetNext
  <2>2. /\ y \in Mng /\ y.bl = m[f].bl /\ y.freelist = m[f].freelist
        /\ y.num_free = m[f].num_free /\ y.prev_freelist = m[f].prev_freelist
        /\ y.next_freelist = g
    <3>1. m[f] \in Mng
      BY <2>1
    <3> QED
      BY <3>1 DEF Mng
  <2> HIDE DEF y
  <2> QED
    BY <2>1, <2>2 DEF NextWritten
<1> QED
  BY <1>2, <1>3

\* The structures m when the free list of frame f is written, and its links.
WithSlots(m, f, q, k) == [m EXCEPT ![f].freelist = q, ![f].num_free = k]
WithLinks(m, f, g, h) == [m EXCEPT ![f].next_freelist = g, ![f].prev_freelist = h]

SlotsWritten(D, m, f, q, k, n) ==
    /\ n \in [D -> Mng] /\ n[f].freelist = q /\ n[f].num_free = k
    /\ \A x \in D :
         /\ n[x].bl = m[x].bl
         /\ n[x].next_freelist = m[x].next_freelist
         /\ n[x].prev_freelist = m[x].prev_freelist
         /\ x # f => n[x] = m[x]

LinksWritten(D, m, f, g, h, n) ==
    /\ n \in [D -> Mng] /\ n[f].next_freelist = g /\ n[f].prev_freelist = h
    /\ \A x \in D :
         /\ n[x].bl = m[x].bl
         /\ n[x].freelist = m[x].freelist
         /\ n[x].num_free = m[x].num_free
         /\ x # f => n[x] = m[x]

\* What writing the free list of one frame does.
LEMMA SlotsExact ==
    ASSUME NEW D, NEW m \in [D -> Mng], NEW f \in D, NEW q \in Seq(Nat), NEW k \in Nat
    PROVE  SlotsWritten(D, m, f, q, k, WithSlots(m, f, q, k))
<1> DEFINE n == WithSlots(m, f, q, k)
           y == [[m[f] EXCEPT !.freelist = q] EXCEPT !.num_free = k]
<1>1. n = [m EXCEPT ![f] = y]
  BY DEF WithSlots
<1>2. /\ y \in Mng /\ y.bl = m[f].bl /\ y.freelist = q /\ y.num_free = k
      /\ y.next_freelist = m[f].next_freelist /\ y.prev_freelist = m[f].prev_freelist
  <2>1. m[f] \in Mng
    OBVIOUS
  <2> QED
    BY <2>1 DEF Mng
<1> HIDE DEF y
<1>3. n \in [D -> Mng] /\ n[f] = y /\ \A x \in D : x # f => n[x] = m[x]
  BY <1>1, <1>2
<1> HIDE DEF n
<1>4. SlotsWritten(D, m, f, q, k, n)
  BY <1>2, <1>3 DEF SlotsWritten
<1> QED
  BY <1>4 DEF n

\* What writing both links of one frame does.
LEMMA LinksExact ==
    ASSUME NEW D, NEW m \in [D -> Mng], NEW f \in D, NEW g \in Links, NEW h \in Links
    PROVE  LinksWritten(D, m, f, g, h, WithLinks(m, f, g, h))
<1> DEFINE n == WithLinks(m, f, g, h)
           y == [[m[f] EXCEPT !.next_freelist = g] EXCEPT !.prev_freelist = h]
<1>1. n = [m EXCEPT ![f] = y]
  BY DEF WithLinks
<1>2. /\ y \in Mng /\ y.bl = m[f].bl /\ y.freelist = m[f].freelist
      /\ y.num_free = m[f].num_free /\ y.next_freelist = g /\ y.prev_freelist = h
  <2>1. m[f] \in Mng
    OBVIOUS
  <2> QED
    BY <2>1 DEF Mng
<1> HIDE DEF y
<1>3. n \in [D -> Mng] /\ n[f] = y /\ \A x \in D : x # f => n[x] = m[x]
  BY <1>1, <1>2
<1> HIDE DEF n
<1>4. LinksWritten(D, m, f, g, h, n)
  BY <1>2, <1>3 DEF LinksWritten
<1> QED
  BY <1>4 DEF n

\* What the walk of listed computes, frame by frame.
LEMMA ListedSteps ==
    ASSUME NEW l, NEW q, Chain(l, q, mng, list_of_lists[l]), NEW C \in Nat, Len(q) <= C,
           C = Cardinality(frames)
    PROVE  listed(l) = {IF n < Len(q) THEN q[n + 1] ELSE none : n \in 0..C} \ {none}
<1> DEFINE D == 0..C
           step(w) == [n \in D |-> IF n = 0 THEN list_of_lists[l]
                          ELSE IF w[n - 1] = none THEN none ELSE mng[w[n - 1]].next_freelist]
           g == CHOOSE w : w = step(w)
           v(n) == IF n < Len(q) THEN q[n + 1] ELSE none
           f == [n \in D |-> v(n)]
<1>1. listed(l) = {g[n] : n \in D} \ {none}
  BY DEF listed
<1>2. /\ q \in Seq(Nat) /\ Len(q) \in Nat /\ none \notin Nat
      /\ \A i \in 1..Len(q) : q[i] \in Nat
  BY MdbBuffersAssumption DEF Chain
<1>3. v(0) = list_of_lists[l]
  <2>1. 0 < Len(q) <=> q # <<>>
    BY <1>2
  <2> QED
    BY <2>1 DEF Chain
<1>4. ASSUME NEW n \in 1..C
      PROVE  v(n) = IF v(n - 1) = none THEN none ELSE mng[v(n - 1)].next_freelist
  <2>1. CASE n - 1 < Len(q)
    <3>1. n \in 1..Len(q) /\ v(n - 1) = q[n] /\ q[n] # none
      BY <1>2, <2>1
    <3>2. mng[q[n]].next_freelist = IF n = Len(q) THEN none ELSE q[n + 1]
      BY <3>1 DEF Chain
    <3>3. n < Len(q) <=> n # Len(q)
      BY <3>1
    <3> QED
      BY <3>1, <3>2, <3>3
  <2>2. CASE ~(n - 1 < Len(q))
    <3>1. ~(n < Len(q))
      BY <1>2, <2>2
    <3> QED
      BY <2>2, <3>1
  <2> QED
    BY <2>1, <2>2
<1> HIDE DEF v
<1>5. f = step(f)
  <2>1. ASSUME NEW n \in D PROVE f[n] = step(f)[n]
    <3>1. CASE n = 0
      BY <1>3, <3>1
    <3>2. CASE n # 0
      <4>1. n \in 1..C /\ n - 1 \in D
        BY <3>2
      <4> QED
        BY <1>4, <3>2, <4>1
    <3> QED
      BY <3>1, <3>2
  <2> HIDE DEF D
  <2> QED
    BY <2>1
<1>6. g = step(g)
  <2>1. g = CHOOSE w : w = step(w)
    OBVIOUS
  <2> HIDE DEF g, step, f
  <2> QED
    BY <1>5, <2>1
<1> HIDE DEF g
<1>7. \A n \in D : g[n] = v(n)
  <2> DEFINE T == {n \in Nat : n <= C => g[n] = v(n)}
  <2>0. \A n \in D : g[n] = step(g)[n]
    BY <1>6
  <2>1. 0 \in T
    BY <1>3, <2>0
  <2>2. ASSUME NEW n \in Nat, n \in T PROVE n + 1 \in T
    <3>1. CASE n + 1 <= C
      <4>1. n + 1 \in 1..C /\ n + 1 \in D /\ (n + 1) - 1 = n /\ n <= C /\ n + 1 # 0
        BY <3>1
      <4>2. g[n] = v(n)
        BY <2>2, <4>1
      <4>3. g[n + 1] = IF g[n] = none THEN none ELSE mng[g[n]].next_freelist
        BY <2>0, <4>1
      <4>4. v(n + 1) = IF v(n) = none THEN none ELSE mng[v(n)].next_freelist
        BY <1>4, <4>1
      <4> QED
        BY <4>2, <4>3, <4>4
    <3>2. CASE ~(n + 1 <= C)
      BY <3>2
    <3> QED
      BY <3>1, <3>2
  <2>3. \A n \in Nat : n \in T
    <3> HIDE DEF T
    <3> QED
      BY <2>1, <2>2, Induction
  <2> QED
    BY <2>3
<1>8. {g[n] : n \in D} = {v(n) : n \in D}
  BY <1>7
<1> QED
  BY <1>1, <1>8 DEF v

\* The walk finds the frames that have a free buffer: a list has no more
\* members than there are frames.
LEMMA ListedExact ==
    ASSUME NEW l, NEW q, Chain(l, q, mng, list_of_lists[l]), IsFiniteSet(frames)
    PROVE  listed(l) = OnList(mng, l)
<1> DEFINE N == 1..Len(q)
           C == Cardinality(frames)
           f == [i \in N |-> q[i]]
<1>1. /\ q \in Seq(Nat) /\ Len(q) \in Nat /\ none \notin Nat
      /\ \A i \in N : q[i] \in Nat /\ q[i] \in frames
  BY MdbBuffersAssumption DEF Chain, InList, OnList, frames
<1>2. f \in Injection(N, frames)
  <2>1. f \in [N -> frames]
    BY <1>1
  <2>2. IsInjective(f)
    BY DEF IsInjective, Chain, Distinct
  <2> QED
    BY <2>1, <2>2 DEF Injection
<1>3. IsFiniteSet(N) /\ Cardinality(N) = Len(q)
  BY <1>1, FS_Interval
<1>4. Cardinality(N) <= C /\ C \in Nat
  <2> HIDE DEF N, f
  <2> QED
    BY <1>2, FS_Injection, FS_CardinalityType
<1>5. listed(l) = {IF n < Len(q) THEN q[n + 1] ELSE none : n \in 0..C} \ {none}
  BY <1>3, <1>4, ListedSteps
<1>6. ASSUME NEW x \in listed(l) PROVE x \in OnList(mng, l)
  <2>1. PICK n \in 0..C : x = IF n < Len(q) THEN q[n + 1] ELSE none
    BY <1>5
  <2>2. n < Len(q) /\ x = q[n + 1] /\ n + 1 \in N
    BY <1>1, <1>5, <2>1
  <2> QED
    BY <2>2 DEF Chain, InList
<1>7. ASSUME NEW x \in OnList(mng, l) PROVE x \in listed(l)
  <2>1. PICK i \in N : q[i] = x
    BY DEF Chain, InList
  <2>2. i - 1 \in 0..C /\ i - 1 < Len(q) /\ (i - 1) + 1 = i /\ x # none
    BY <1>1, <1>3, <1>4, <2>1
  <2> QED
    BY <1>5, <2>1, <2>2
<1> QED
  BY <1>6, <1>7

-----------------------------------------------------------------------------

Used(f) == {s \in Nat : <<f, s>> \in taken}

\* A frame knows its free buffers, and one of its buffers is in use.
FrameFine(p, U) ==
    /\ p.num_free = Len(p.freelist) /\ p.num_free < MaxFree[p.bl]
    /\ Exact(p.freelist, MaxFree[p.bl], U)

BuffersInv ==
    /\ mng \in [frames -> Mng] /\ IsFiniteSet(frames)
    /\ list_of_lists \in [Lists -> Links]
    /\ taken \subseteq frames \X Nat
    /\ \A f \in frames : FrameFine(mng[f], Used(f))
    /\ \A l \in Lists : \E q : Chain(l, q, mng, list_of_lists[l])

\* It implies what PoolsExact says.
LEMMA BuffersInvExact == BuffersInv => PoolsExact
<1> SUFFICES ASSUME BuffersInv PROVE PoolsExact
  OBVIOUS
<1>1. ASSUME NEW l \in Lists
      PROVE  /\ listed(l) = {f \in frames : mng[f].bl = l /\ mng[f].num_free > 0}
             /\ list_of_lists[l] # none => mng[list_of_lists[l]].prev_freelist = none
  <2>1. PICK q : Chain(l, q, mng, list_of_lists[l])
    BY DEF BuffersInv
  <2>2. listed(l) = OnList(mng, l)
    BY <2>1, ListedExact DEF BuffersInv
  <2>3. list_of_lists[l] # none => mng[list_of_lists[l]].prev_freelist = none
    BY <2>1, ChainFacts
  <2> QED
    BY <2>2, <2>3 DEF OnList, frames
<1>2. ASSUME NEW f \in frames
      PROVE  LET p == mng[f]
             IN /\ p.num_free = Len(p.freelist) /\ p.num_free = Cardinality(FreeSlots(f))
                /\ p.num_free < MaxFree[p.bl]
                /\ {s \in Slots(f) : <<f, s>> \in taken} = Slots(f) \ FreeSlots(f)
                /\ p.num_free > 0 /\ p.next_freelist # none
                     => mng[p.next_freelist].prev_freelist = f
  <2> DEFINE p == mng[f]
  <2>1. p \in Mng /\ FrameFine(p, Used(f))
    BY DEF BuffersInv
  <2>2. /\ p.bl \in Lists /\ p.freelist \in Seq(Nat) /\ Distinct(p.freelist)
        /\ MaxFree[p.bl] \in Nat
    BY <2>1, MdbBuffersAssumption DEF Mng, FrameFine, Exact
  <2>3. FreeSlots(f) = Members(p.freelist)
    BY DEF FreeSlots, Members
  <2>4. p.num_free = Cardinality(FreeSlots(f))
    BY <2>1, <2>2, <2>3, MembersCardinality DEF FrameFine
  <2>5. {s \in Slots(f) : <<f, s>> \in taken} = Slots(f) \ FreeSlots(f)
    <3>1. \A s \in Slots(f) : s \in Nat
      BY <2>2 DEF Slots
    <3>2. \A s \in Slots(f) : <<f, s>> \in taken <=> s \notin FreeSlots(f)
      BY <2>1, <2>3, <3>1, MembersIn DEF FrameFine, Exact, Used, Slots
    <3> QED
      BY <3>2
  <2>6. p.num_free > 0 /\ p.next_freelist # none => mng[p.next_freelist].prev_freelist = f
    <3>1. SUFFICES ASSUME p.num_free > 0, p.next_freelist # none
                   PROVE  mng[p.next_freelist].prev_freelist = f
      OBVIOUS
    <3>2. PICK q : Chain(p.bl, q, mng, list_of_lists[p.bl])
      BY <2>2 DEF BuffersInv
    <3>3. f \in OnList(mng, p.bl)
      BY <3>1 DEF OnList, frames
    <3> QED
      BY <3>1, <3>2, <3>3, ChainFacts
  <2> QED
    BY <2>1, <2>4, <2>5, <2>6 DEF FrameFine
<1>3. \A b \in taken : b[1] \in frames
  BY DEF BuffersInv
<1> QED
  BY <1>1, <1>2, <1>3 DEF PoolsExact

-----------------------------------------------------------------------------

\* The structures m when a buffer is taken from frame f.
Popped(m, f) ==
    LET popped == WithSlots(m, f, Tail(m[f].freelist), m[f].num_free - 1)
    IN  IF m[f].num_free = 1 THEN SetPrev(popped, m[f].next_freelist, none) ELSE popped

\* What becomes of them.
BufferPopped(D, m, f, n) ==
    /\ n \in [D -> Mng] /\ n[f].freelist = Tail(m[f].freelist)
    /\ n[f].num_free = m[f].num_free - 1
    /\ \A x \in D :
         /\ n[x].bl = m[x].bl
         /\ n[x].next_freelist = m[x].next_freelist
         /\ n[x].prev_freelist =
              IF m[f].num_free = 1 /\ x = m[f].next_freelist THEN none
              ELSE m[x].prev_freelist
         /\ x # f => /\ n[x].freelist = m[x].freelist
                     /\ n[x].num_free = m[x].num_free

\* The frame has one buffer less, and the next one no frame before it.
LEMMA PoppedExact ==
    ASSUME NEW D, D \subseteq Nat, NEW m \in [D -> Mng], NEW f \in D,
           m[f].num_free \in Nat \ {0}, Tail(m[f].freelist) \in Seq(Nat),
           m[f].next_freelist \in D \cup {none}
    PROVE  BufferPopped(D, m, f, Popped(m, f))
<1> DEFINE t == Tail(m[f].freelist)
           c == m[f].num_free - 1
           y == m[f].next_freelist
           popped == WithSlots(m, f, t, c)
           n == Popped(m, f)
<1>1. t \in Seq(Nat) /\ c \in Nat /\ y \in D \cup {none} /\ none \in Links
  BY DEF Links
<1>2. n = IF m[f].num_free = 1 THEN SetPrev(popped, y, none) ELSE popped
  BY DEF Popped
<1> HIDE DEF t, c, y, n
<1>3. SlotsWritten(D, m, f, t, c, popped)
  BY <1>1, SlotsExact
<1> HIDE DEF popped
<1>4. PrevWritten(D, popped, y, none, SetPrev(popped, y, none))
  <2>1. popped \in [D -> Mng]
    BY <1>3 DEF SlotsWritten
  <2> QED
    BY <1>1, <2>1, SetPrevExact
<1>5. CASE m[f].num_free = 1
  <2>1. PrevWritten(D, popped, y, none, n)
    BY <1>2, <1>4, <1>5
  <2>2. BufferPopped(D, m, f, n)
    BY <1>3, <1>5, <2>1 DEF t, c, y, PrevWritten, SlotsWritten, BufferPopped
  <2> QED
    BY <2>2 DEF n
<1>6. CASE m[f].num_free # 1
  <2>1. SlotsWritten(D, m, f, t, c, n)
    BY <1>2, <1>3, <1>6
  <2>2. BufferPopped(D, m, f, n)
    BY <1>6, <2>1 DEF t, c, y, SlotsWritten, BufferPopped
  <2> QED
    BY <2>2 DEF n
<1> QED
  BY <1>5, <1>6

\* The chain of another list stays.
LEMMA PoppedOther ==
    ASSUME NEW D, D \subseteq Nat, NEW m \in [D -> Mng], NEW f \in D, NEW n,
           BufferPopped(D, m, f, n), m[f].num_free \in Nat \ {0}, NEW q, Chain(m[f].bl, q, m, f),
           NEW k, k # m[f].bl, NEW h, NEW r, Chain(k, r, m, h)
    PROVE  Chain(k, r, n, h)
<1> DEFINE l == m[f].bl
<1>1. DOMAIN m = D /\ DOMAIN n = D
  BY DEF BufferPopped
<1>2. f \in OnList(m, l)
  BY <1>1 DEF OnList
<1>3. OnList(m, l) \subseteq D /\ none \notin D
  BY <1>1, MdbBuffersAssumption DEF OnList
<1>4. m[f].next_freelist \in (OnList(m, l) \cup {none}) \ {f}
  BY <1>2, ChainFacts
<1>5. \A x \in D : n[x].bl = m[x].bl /\ (m[x].bl = k => n[x].num_free = m[x].num_free)
  BY DEF BufferPopped
<1>6. OnList(n, k) = OnList(m, k)
  BY <1>1, <1>5 DEF OnList
<1>7. \A x \in OnList(m, k) : x \in D /\ x \notin OnList(m, l)
  BY <1>1 DEF OnList
<1>8. \A x \in OnList(m, k) : x \in D /\ x # m[f].next_freelist
  BY <1>3, <1>4, <1>7
<1>9. \A x \in OnList(m, k) : /\ n[x].next_freelist = m[x].next_freelist
                              /\ n[x].prev_freelist = m[x].prev_freelist
  BY <1>8 DEF BufferPopped
<1> QED
  BY <1>6, <1>9, ChainKept

\* The chain begins with this frame still, or with the next.
LEMMA PoppedChain ==
    ASSUME NEW D, D \subseteq Nat, NEW m \in [D -> Mng], NEW f \in D, NEW n,
           BufferPopped(D, m, f, n), m[f].num_free \in Nat \ {0},
           NEW l, l = m[f].bl, NEW q, Chain(l, q, m, f)
    PROVE  \E r : Chain(l, r, n, IF m[f].num_free = 1 THEN m[f].next_freelist ELSE f)
<1>1. DOMAIN m = D /\ DOMAIN n = D
  BY DEF BufferPopped
<1>2. f \in OnList(m, l)
  BY <1>1 DEF OnList
<1>3. OnList(m, l) \subseteq D /\ none \notin D
  BY <1>1, MdbBuffersAssumption DEF OnList
<1>4. /\ m[f].next_freelist \in (OnList(m, l) \cup {none}) \ {f}
      /\ m[f].prev_freelist = none
  BY <1>2, ChainFacts
<1>6. CASE m[f].num_free = 1
  <2>1. /\ ~(n[f].num_free > 0)
        /\ \A x \in D : n[x].bl = m[x].bl /\ (x # f => n[x].num_free = m[x].num_free)
    BY <1>6 DEF BufferPopped
  <2>2. OnList(n, l) = OnList(m, l) \ {f}
    BY <1>1, <2>1 DEF OnList
  <2>3. \A g \in OnList(n, l) : g \in D /\ g # none
    BY <1>3, <2>2
  <2>4. \A g \in OnList(n, l) :
             /\ n[g].next_freelist = IF g = m[f].prev_freelist THEN m[f].next_freelist
                                     ELSE m[g].next_freelist
             /\ n[g].prev_freelist = IF g = m[f].next_freelist THEN m[f].prev_freelist
                                     ELSE m[g].prev_freelist
    BY <1>4, <1>6, <2>3 DEF BufferPopped
  <2>5. Chain(l, Without(q, f), n, IF f = f THEN m[f].next_freelist ELSE f)
    BY <1>2, <2>2, <2>4, ChainDrop
  <2> QED
    BY <1>6, <2>5
<1>7. CASE m[f].num_free # 1
  <2>1. /\ n[f].num_free > 0 /\ m[f].num_free > 0
        /\ \A x \in D : n[x].bl = m[x].bl /\ (x # f => n[x].num_free = m[x].num_free)
    BY <1>7 DEF BufferPopped
  <2>2. OnList(n, l) = OnList(m, l)
    BY <1>1, <2>1 DEF OnList
  <2>3. \A x \in OnList(m, l) : /\ n[x].next_freelist = m[x].next_freelist
                                /\ n[x].prev_freelist = m[x].prev_freelist
    BY <1>3, <1>7 DEF BufferPopped
  <2>4. Chain(l, q, n, f)
    BY <2>2, <2>3, ChainKept
  <2> QED
    BY <1>7, <2>4
<1> QED
  BY <1>6, <1>7

\* A buffer is taken from the first frame of list l, with the structures m:
\* those of the frames in use, or these and one of a fresh frame.
LEMMA PopBuffers ==
    ASSUME NEW D, D \subseteq Nat, IsFiniteSet(D), NEW m \in [D -> Mng],
           list_of_lists \in [Lists -> Links], taken \subseteq D \X Nat,
           NEW l \in Lists, NEW f \in D, m[f].bl = l,
           m[f].num_free = Len(m[f].freelist), m[f].num_free > 0, m[f].num_free <= MaxFree[l],
           Exact(m[f].freelist, MaxFree[l], Used(f)),
           \A g \in D \ {f} : FrameFine(m[g], Used(g)),
           \E q : Chain(l, q, m, f),
           \A k \in Lists \ {l} : \E q : Chain(k, q, m, list_of_lists[k]),
           Pop(l, f, m)
    PROVE  BuffersInv' /\ frames' = D
<1> DEFINE p == m[f]
           s == Head(p.freelist)
           n == Popped(m, f)
           head == IF p.num_free = 1 THEN p.next_freelist ELSE f
<1>1. /\ taken' = taken \cup {<<f, s>>} /\ mng' = n
      /\ list_of_lists' = [list_of_lists EXCEPT ![l] = head]
  BY DEF Pop, Popped, WithSlots
<1>2. p \in Mng /\ p.num_free = Len(p.freelist) /\ p.num_free > 0
  OBVIOUS
<1>3. /\ p.num_free \in Nat \ {0} /\ p.freelist \in Seq(Nat) /\ p.freelist # <<>>
      /\ p.next_freelist \in Links /\ MaxFree[l] \in Nat
  <2> HIDE DEF p
  <2>1. /\ p.num_free \in Nat /\ p.freelist \in Seq(Nat) /\ p.next_freelist \in Links
    BY <1>2 DEF Mng
  <2>2. p.freelist # <<>>
    BY <1>2, <2>1
  <2> QED
    BY <1>2, <2>1, <2>2, MdbBuffersAssumption
<1>4. /\ s \in 1..MaxFree[l] /\ s \in Nat /\ Tail(p.freelist) \in Seq(Nat)
      /\ Len(Tail(p.freelist)) = Len(p.freelist) - 1
      /\ Exact(Tail(p.freelist), MaxFree[l], Used(f) \cup {s})
  <2> DEFINE e == p.freelist
             U == Used(f)
             c == MaxFree[l]
  <2>1. c \in Nat /\ Exact(e, c, U) /\ e # <<>>
    BY <1>3
  <2> HIDE DEF e, U, c
  <2>2. /\ Head(e) \in 1..c /\ Tail(e) \in Seq(Nat) /\ Len(Tail(e)) = Len(e) - 1
        /\ Exact(Tail(e), c, U \cup {Head(e)})
    BY <2>1, ExactPop
  <2>3. Head(e) \in Nat
    BY <2>1, <2>2
  <2> QED
    BY <2>2, <2>3 DEF e, U, c
<1>5. PICK q : Chain(l, q, m, f)
  OBVIOUS
<1>6. p.next_freelist \in D \cup {none}
  <2>1. f \in OnList(m, l) /\ OnList(m, l) \subseteq D
    BY DEF OnList
  <2> QED
    BY <1>5, <2>1, ChainFacts
<1>7. BufferPopped(D, m, f, n)
  BY <1>3, <1>4, <1>6, PoppedExact
<1> HIDE DEF n
<1>8. /\ \E r : Chain(l, r, n, head)
      /\ \A k, h : k # l /\ (\E r : Chain(k, r, m, h)) => \E r : Chain(k, r, n, h)
  <2>1. l = m[f].bl /\ m[f].num_free \in Nat \ {0} /\ D \subseteq Nat /\ m \in [D -> Mng]
    BY <1>3
  <2> HIDE DEF p
  <2>2. \E r : Chain(l, r, n, head)
    BY <1>5, <1>7, <2>1, PoppedChain DEF p
  <2>3. ASSUME NEW k, NEW h, k # l, NEW e, Chain(k, e, m, h) PROVE \E r : Chain(k, r, n, h)
    <3>1. Chain(m[f].bl, q, m, f) /\ k # m[f].bl
      BY <1>5, <2>1, <2>3
    <3>2. Chain(k, e, n, h)
      BY <1>7, <2>1, <2>3, <3>1, PoppedOther
    <3> QED
      BY <3>2
  <2> QED
    BY <2>2, <2>3
<1>9. frames' = D
  BY <1>1, <1>7 DEF frames, BufferPopped
<1>10. list_of_lists' \in [Lists -> Links] /\ list_of_lists'[l] = head
       /\ \A k \in Lists \ {l} : list_of_lists'[k] = list_of_lists[k]
  <2>1. head \in Links
    BY <1>3 DEF Links
  <2> HIDE DEF head
  <2> QED
    BY <1>1, <2>1
<1>11. taken' \subseteq D \X Nat
  BY <1>1, <1>4
<1>12. ASSUME NEW g \in D PROVE FrameFine(n[g], Used(g)')
  <2>1. CASE g = f
    <3>1. Used(f)' = Used(f) \cup {s}
      BY <1>1, <1>4 DEF Used
    <3>2. n[f].bl = l /\ n[f].num_free < MaxFree[l] /\ n[f].num_free = Len(n[f].freelist)
      <4>1. \A i, c \in Nat : i # 0 /\ i <= c => i - 1 < c
        OBVIOUS
      <4> QED
        BY <1>3, <1>4, <1>7, <4>1 DEF BufferPopped
    <3> QED
      BY <1>4, <1>7, <2>1, <3>1, <3>2 DEF FrameFine, BufferPopped
  <2>2. CASE g # f
    <3>1. Used(g)' = Used(g)
      BY <1>1, <2>2 DEF Used
    <3>2. FrameFine(m[g], Used(g))
      BY <2>2
    <3> QED
      BY <1>7, <2>2, <3>1, <3>2 DEF FrameFine, BufferPopped
  <2> QED
    BY <2>1, <2>2
<1>13. ASSUME NEW k \in Lists PROVE \E r : Chain(k, r, n, list_of_lists'[k])
  BY <1>8, <1>10
<1>14. BuffersInv'
  <2>1. \A g \in frames' : FrameFine(mng'[g], Used(g)')
    BY <1>1, <1>9, <1>12
  <2>2. \A k \in Lists : \E r : Chain(k, r, mng', list_of_lists'[k])
    BY <1>1, <1>13
  <2>3. mng' \in [frames' -> Mng] /\ IsFiniteSet(frames')
    BY <1>1, <1>7, <1>9 DEF BufferPopped
  <2> QED
    BY <1>9, <1>10, <1>11, <2>1, <2>2, <2>3 DEF BuffersInv
<1> QED
  BY <1>9, <1>14

\* mdb_alloc_buffer from a frame of the list.
LEMMA AllocBufferStep ==
    ASSUME MemoryInv, BuffersInv, NEW l \in Lists, AllocBuffer(l)
    PROVE  MemoryInv' /\ BuffersInv'
<1> DEFINE f == list_of_lists[l]
<1>1. f # none /\ Pop(l, f, mng) /\ UNCHANGED kmemVars
  BY DEF AllocBuffer
<1>2. \E q : Chain(l, q, mng, f)
  BY DEF BuffersInv
<1>3. f \in OnList(mng, l)
  BY <1>1, <1>2, ChainFacts
<1> HIDE DEF f
<1>4. f \in frames /\ mng[f].bl = l /\ mng[f].num_free > 0
  BY <1>3 DEF OnList, frames
<1>5. FrameFine(mng[f], Used(f)) /\ mng[f] \in Mng /\ MaxFree[l] \in Nat
  BY <1>4, MdbBuffersAssumption DEF BuffersInv
<1>6. /\ mng[f].num_free = Len(mng[f].freelist) /\ mng[f].num_free <= MaxFree[l]
      /\ Exact(mng[f].freelist, MaxFree[l], Used(f))
  BY <1>4, <1>5 DEF FrameFine, Mng
<1>7. /\ frames \subseteq Nat /\ IsFiniteSet(frames) /\ mng \in [frames -> Mng]
      /\ list_of_lists \in [Lists -> Links] /\ taken \subseteq frames \X Nat
      /\ \A g \in frames \ {f} : FrameFine(mng[g], Used(g))
      /\ \A k \in Lists \ {l} : \E q : Chain(k, q, mng, list_of_lists[k])
  BY DEF MemoryInv, BuffersInv
<1>8. BuffersInv' /\ frames' = frames
  BY <1>1, <1>2, <1>4, <1>6, <1>7, PopBuffers
<1>9. MemoryInv'
  BY <1>1, <1>8 DEF MemoryInv, kmemVars, ListOrdered, FreeList, Pages, memory, Part
<1> QED
  BY <1>8, <1>9

\* mdb_alloc_buffer from a new frame.
LEMMA AllocFrameStep ==
    ASSUME MemoryInv, BuffersInv, NEW l \in Lists, AllocFrame(l)
    PROVE  MemoryInv' /\ BuffersInv'
<1> DEFINE f == Found(FrameChunks, 0, 1)
           D == frames \cup {f}
           m == [g \in D |-> IF g = f THEN Fresh(l) ELSE mng[g]]
<1>1. /\ list_of_lists[l] = none /\ Take(FrameChunks, 0, 1) /\ Pop(l, f, m)
      /\ UNCHANGED <<added, blocks>>
  BY DEF AllocFrame
<1>2. f \in Nat /\ f \notin frames
  <2>1. /\ FrameChunks \in Nat \ {0}
        /\ f \in Nat /\ run(f, FrameChunks) \subseteq FreeList
    BY <1>1, MdbBuffersAssumption, TakeExact DEF MemoryInv
  <2>2. f \in FreeList
    BY <2>1, RunNonempty
  <2>3. ASSUME f \in frames PROVE FALSE
    <3>1. Page(f) \in blocks \cup Pages /\ chunks(Page(f)) = run(f, FrameChunks)
      BY <2>3 DEF Pages, Page, chunks
    <3>2. chunks(Page(f)) \cap FreeList = {}
      BY <3>1 DEF MemoryInv, Part
    <3> QED
      BY <2>1, <2>2, <3>1, <3>2, RunNonempty
  <2> QED
    BY <2>1, <2>3
<1> HIDE DEF f
<1>3. MaxFree[l] \in Nat /\ MaxFree[l] >= 2 /\ none \notin Nat
  BY MdbBuffersAssumption
<1>4. /\ Exact(Fresh(l).freelist, MaxFree[l], {}) /\ Fresh(l).freelist \in Seq(Nat)
      /\ Len(Fresh(l).freelist) = MaxFree[l] /\ Fresh(l).num_free = MaxFree[l]
      /\ Fresh(l).bl = l /\ Fresh(l).next_freelist = none /\ Fresh(l).prev_freelist = none
      /\ Fresh(l) \in Mng
  <2>1. MaxFree[l] \in Nat \ {0}
    BY <1>3
  <2>2. LET q == [s \in 1..MaxFree[l] |-> s]
        IN  Exact(q, MaxFree[l], {}) /\ q \in Seq(Nat) /\ Len(q) = MaxFree[l] /\ q # <<>>
    BY <2>1, ExactFresh
  <2> QED
    BY <1>3, <2>2 DEF Fresh, Mng, Links
<1>5. /\ frames \subseteq Nat /\ IsFiniteSet(frames) /\ mng \in [frames -> Mng]
      /\ list_of_lists \in [Lists -> Links] /\ taken \subseteq frames \X Nat
      /\ \A g \in frames : FrameFine(mng[g], Used(g))
      /\ \A k \in Lists : \E q : Chain(k, q, mng, list_of_lists[k])
  BY DEF MemoryInv, BuffersInv
<1>6. /\ D \subseteq Nat /\ IsFiniteSet(D) /\ m \in [D -> Mng]
      /\ m[f] = Fresh(l) /\ f \in D
      /\ \A g \in frames : m[g] = mng[g]
  <2>1. IsFiniteSet(D)
    BY <1>5, FS_AddElement
  <2> QED
    BY <1>2, <1>4, <1>5, <2>1
<1>7. /\ frames = DOMAIN mng /\ D = DOMAIN m
  BY DEF frames
<1> HIDE DEF m
<1>8. Used(f) = {} /\ taken \subseteq D \X Nat
  BY <1>2, <1>5 DEF Used
<1>9. PICK q : Chain(l, q, mng, none)
  BY <1>1, <1>5
<1>10. OnList(mng, l) = {}
  BY <1>3, <1>9, ChainFacts
<1>11. \E r : Chain(l, r, m, f)
  <2>1. OnList(m, l) = {f}
    <3>1. m[f].bl = l /\ m[f].num_free > 0
      BY <1>3, <1>4, <1>6
    <3> QED
      BY <1>6, <1>7, <1>10, <3>1 DEF OnList
  <2>2. OnList(m, l) = OnList(mng, l) \cup {f} /\ f \notin OnList(mng, l)
    BY <1>10, <2>1
  <2>3. m[f].next_freelist = none /\ m[f].prev_freelist = none
    BY <1>4, <1>6
  <2>4. \A g \in OnList(mng, l) :
            /\ m[g].next_freelist = mng[g].next_freelist
            /\ m[g].prev_freelist = IF g = none THEN f ELSE mng[g].prev_freelist
    BY <1>10
  <2>5. Chain(l, EnqueueHead(q, f), m, f)
    BY <1>2, <1>9, <2>2, <2>3, <2>4, ChainPush
  <2> QED
    BY <2>5
<1>12. ASSUME NEW k \in Lists \ {l} PROVE \E r : Chain(k, r, m, list_of_lists[k])
  <2>1. PICK r : Chain(k, r, mng, list_of_lists[k])
    BY <1>5
  <2>2. OnList(m, k) = OnList(mng, k)
    BY <1>4, <1>6, <1>7 DEF OnList
  <2>3. \A x \in OnList(mng, k) : /\ m[x].next_freelist = mng[x].next_freelist
                                  /\ m[x].prev_freelist = mng[x].prev_freelist
    BY <1>6, <1>7 DEF OnList
  <2>4. Chain(k, r, m, list_of_lists[k])
    BY <2>1, <2>2, <2>3, ChainKept
  <2> QED
    BY <2>4
<1>13. \A g \in D \ {f} : FrameFine(m[g], Used(g))
  BY <1>5, <1>6
<1>14. /\ m[f].bl = l /\ m[f].num_free = Len(m[f].freelist) /\ m[f].num_free > 0
       /\ m[f].num_free <= MaxFree[l] /\ Exact(m[f].freelist, MaxFree[l], Used(f))
  BY <1>3, <1>4, <1>6, <1>8
<1> HIDE DEF D
<1>15. BuffersInv' /\ frames' = D
  BY <1>1, <1>5, <1>6, <1>8, <1>11, <1>12, <1>13, <1>14, PopBuffers
<1>16. MemoryInv'
  BY <1>1, <1>15, TakePage DEF D, f
<1> QED
  BY <1>15, <1>16

\* The structures m when buffer s of frame f has been put back, as the rest of
\* mdb_free_buffer finds them.
BufferPushed(f, s, m) ==
    /\ f \in frames
    /\ SlotsWritten(frames, mng, f, <<s>> \o mng[f].freelist, mng[f].num_free + 1, m)
    /\ m[f].num_free = Len(m[f].freelist)
    /\ Exact(m[f].freelist, MaxFree[mng[f].bl], Used(f)')
    /\ \A g \in frames \ {f} : FrameFine(m[g], Used(g)')
    /\ taken' \subseteq frames \X Nat
    /\ mng[f].num_free + 1 = MaxFree[mng[f].bl] => \A b \in taken' : b[1] # f

\* mdb_free_buffer first pushes the buffer onto the free list of its frame.
LEMMA PushExact ==
    ASSUME BuffersInv, NEW f, NEW s, <<f, s>> \in taken, taken' = taken \ {<<f, s>>}
    PROVE  BufferPushed(f, s, WithSlots(mng, f, <<s>> \o mng[f].freelist, mng[f].num_free + 1))
<1> DEFINE p == mng[f]
           q == <<s>> \o p.freelist
           k == p.num_free + 1
           c == MaxFree[p.bl]
           m == WithSlots(mng, f, q, k)
<1>1. f \in frames /\ s \in Nat /\ s \in Used(f)
  BY DEF BuffersInv, Used
<1>2. p \in Mng /\ FrameFine(p, Used(f)) /\ mng \in [frames -> Mng]
  BY <1>1 DEF BuffersInv
<1>3. /\ p.num_free \in Nat /\ p.bl \in Lists /\ p.freelist \in Seq(Nat) /\ c \in Nat
      /\ p.num_free = Len(p.freelist) /\ p.num_free < c
      /\ Exact(p.freelist, c, Used(f))
  BY <1>2, MdbBuffersAssumption DEF Mng, FrameFine
<1>4. /\ q \in Seq(Nat) /\ Len(q) = Len(p.freelist) + 1
      /\ Exact(q, c, Used(f) \ {s})
  <2> DEFINE e == p.freelist
             U == Used(f)
  <2>1. c \in Nat /\ Exact(e, c, U) /\ s \in U
    BY <1>1, <1>3
  <2> HIDE DEF c, e, U
  <2>2. /\ <<s>> \o e \in Seq(Nat) /\ Len(<<s>> \o e) = Len(e) + 1
        /\ Exact(<<s>> \o e, c, U \ {s})
    BY <1>1, <2>1, ExactPush
  <2> QED
    BY <2>2 DEF e, U
<1>5. Used(f)' = Used(f) \ {s} /\ \A g : g # f => Used(g)' = Used(g)
  BY DEF Used
<1>6. k \in Nat /\ k = Len(q)
  BY <1>3, <1>4
<1>7. taken' \subseteq frames \X Nat
  BY DEF BuffersInv
<1>8. ASSUME k = c PROVE \A b \in taken' : b[1] # f
  <2>1. \A u \in Nat : u \in Used(f) => u = s
    <3> DEFINE e == p.freelist
               U == Used(f)
    <3>1. c \in Nat /\ Exact(e, c, U) /\ s \in U /\ Len(e) + 1 = c
      BY <1>1, <1>3, <1>8
    <3> HIDE DEF c, e, U
    <3>2. \A u \in Nat : u \in U => u = s
      BY <1>1, <3>1, ExactLast
    <3> QED
      BY <3>2 DEF U
  <2>2. ASSUME NEW b \in taken', b[1] = f PROVE FALSE
    <3>1. b \in taken /\ b \in frames \X Nat /\ b # <<f, s>>
      BY <2>2 DEF BuffersInv
    <3>2. b = <<f, b[2]>> /\ b[2] \in Nat
      BY <2>2, <3>1
    <3>3. b[2] \in Used(f)
      BY <3>1, <3>2 DEF Used
    <3> QED
      BY <2>1, <3>1, <3>2, <3>3
  <2> QED
    BY <2>2
<1>9. \A g \in frames \ {f} : FrameFine(mng[g], Used(g)')
  BY <1>5 DEF BuffersInv
<1> HIDE DEF q, k
<1>10. SlotsWritten(frames, mng, f, q, k, m)
  BY <1>1, <1>2, <1>4, <1>6, SlotsExact
<1> HIDE DEF m
<1>11. m[f].freelist = q /\ m[f].num_free = k /\ \A g \in frames \ {f} : m[g] = mng[g]
  BY <1>10 DEF SlotsWritten
<1>12. \A g \in frames \ {f} : FrameFine(m[g], Used(g)')
  BY <1>9, <1>11
<1>13. Exact(m[f].freelist, c, Used(f)') /\ m[f].num_free = Len(m[f].freelist)
  BY <1>4, <1>5, <1>6, <1>11
<1>14. SlotsWritten(frames, mng, f, <<s>> \o mng[f].freelist, mng[f].num_free + 1, m)
  BY <1>10 DEF q, k
<1>15. mng[f].num_free + 1 = MaxFree[mng[f].bl] => \A b \in taken' : b[1] # f
  BY <1>8 DEF k
<1>16. BufferPushed(f, s, m)
  BY <1>1, <1>7, <1>12, <1>13, <1>14, <1>15 DEF BufferPushed
<1> QED
  BY <1>16 DEF m, q, k

\* The frame stays in its list and in use.
LEMMA StayStep ==
    ASSUME BuffersInv, NEW f, NEW s, NEW m, BufferPushed(f, s, m),
           mng[f].num_free # 0, mng[f].num_free + 1 # MaxFree[mng[f].bl],
           mng' = m, list_of_lists' = list_of_lists
    PROVE  BuffersInv' /\ frames' = frames
<1>1. /\ f \in frames /\ m \in [frames -> Mng] /\ m[f].num_free = mng[f].num_free + 1
      /\ \A x \in frames :
           /\ m[x].bl = mng[x].bl
           /\ m[x].next_freelist = mng[x].next_freelist
           /\ m[x].prev_freelist = mng[x].prev_freelist
           /\ x # f => m[x] = mng[x]
  BY DEF BufferPushed, SlotsWritten
<1>2. mng[f] \in Mng /\ FrameFine(mng[f], Used(f))
  BY <1>1 DEF BuffersInv
<1>3. /\ mng[f].num_free \in Nat /\ MaxFree[mng[f].bl] \in Nat
      /\ mng[f].num_free < MaxFree[mng[f].bl]
  BY <1>2, MdbBuffersAssumption DEF Mng, FrameFine
<1>4. frames' = frames
  BY <1>1 DEF frames
<1>5. \A g \in frames : FrameFine(m[g], Used(g)')
  <2>1. FrameFine(m[f], Used(f)')
    <3>1. m[f].num_free < MaxFree[m[f].bl] /\ m[f].bl = mng[f].bl
      BY <1>1, <1>3
    <3> QED
      BY <3>1 DEF FrameFine, BufferPushed
  <2> QED
    BY <2>1 DEF BufferPushed
<1>6. ASSUME NEW l \in Lists PROVE \E q : Chain(l, q, m, list_of_lists[l])
  <2>1. PICK q : Chain(l, q, mng, list_of_lists[l])
    BY DEF BuffersInv
  <2>2. m[f].num_free > 0 /\ mng[f].num_free > 0
    BY <1>1, <1>3
  <2>3. frames = DOMAIN mng /\ frames = DOMAIN m
    BY <1>1 DEF frames
  <2>4. \A x \in frames : m[x].bl = mng[x].bl /\ (m[x].num_free > 0 <=> mng[x].num_free > 0)
    BY <1>1, <2>2
  <2>5. OnList(m, l) = OnList(mng, l)
    BY <2>3, <2>4 DEF OnList
  <2>6. \A x \in OnList(mng, l) : /\ m[x].next_freelist = mng[x].next_freelist
                                  /\ m[x].prev_freelist = mng[x].prev_freelist
    BY <1>1, <2>3 DEF OnList
  <2> QED
    BY <2>1, <2>5, <2>6, ChainKept
<1>7. BuffersInv'
  <2>1. \A g \in frames' : FrameFine(mng'[g], Used(g)')
    BY <1>4, <1>5
  <2>2. \A l \in Lists : \E q : Chain(l, q, mng', list_of_lists'[l])
    BY <1>6
  <2>3. mng' \in [frames' -> Mng] /\ IsFiniteSet(frames') /\ list_of_lists' \in [Lists -> Links]
    BY <1>1, <1>4 DEF BuffersInv
  <2>4. taken' \subseteq frames' \X Nat
    BY <1>4 DEF BufferPushed
  <2> QED
    BY <2>1, <2>2, <2>3, <2>4 DEF BuffersInv
<1> QED
  BY <1>4, <1>7

\* A frame that was full is the first of its list.
LEMMA RelistStep ==
    ASSUME BuffersInv, frames \subseteq Nat, NEW f, NEW s, NEW m, BufferPushed(f, s, m),
           mng[f].num_free = 0, Relist(f, m)
    PROVE  BuffersInv' /\ frames' = frames
<1> DEFINE l == mng[f].bl
           h == list_of_lists[l]
           m1 == SetPrev(m, h, f)
           n == WithLinks(m1, f, h, none)
<1>1. /\ f \in frames /\ m \in [frames -> Mng] /\ m[f].num_free = mng[f].num_free + 1
      /\ \A x \in frames :
           /\ m[x].bl = mng[x].bl
           /\ m[x].next_freelist = mng[x].next_freelist
           /\ m[x].prev_freelist = mng[x].prev_freelist
           /\ x # f => m[x] = mng[x]
  BY DEF BufferPushed, SlotsWritten
<1>2. /\ mng' = n /\ list_of_lists' = [list_of_lists EXCEPT ![l] = f]
  BY <1>1 DEF Relist, WithLinks
<1>3. /\ mng \in [frames -> Mng] /\ mng[f] \in Mng /\ f \in Nat
      /\ frames = DOMAIN mng /\ frames = DOMAIN m
  BY <1>1 DEF BuffersInv, frames
<1>4. l \in Lists /\ MaxFree[l] \in Nat /\ MaxFree[l] >= 2 /\ m[f].num_free = 1 /\ none \notin Nat
  BY <1>1, <1>3, MdbBuffersAssumption DEF Mng
<1>5. PICK q : Chain(l, q, mng, h)
  BY <1>4 DEF BuffersInv
<1>6. h \in OnList(mng, l) \cup {none} /\ f \notin OnList(mng, l) /\ OnList(mng, l) \subseteq frames
  <2>1. h \in OnList(mng, l) \cup {none}
    BY <1>5, ChainFacts
  <2> QED
    BY <1>3, <2>1 DEF OnList
<1>7. h \in frames \cup {none} /\ h # f /\ f \in Links /\ h \in Links /\ none \in Links
  BY <1>3, <1>4, <1>6 DEF Links
<1> HIDE DEF h
<1>8. PrevWritten(frames, m, h, f, m1)
  BY <1>1, <1>7, SetPrevExact
<1> HIDE DEF m1
<1>9. LinksWritten(frames, m1, f, h, none, n)
  <2>1. m1 \in [frames -> Mng]
    BY <1>8 DEF PrevWritten
  <2> QED
    BY <1>1, <1>7, <2>1, LinksExact
<1> HIDE DEF n
<1>10. /\ n \in [frames -> Mng] /\ DOMAIN n = frames
       /\ n[f].next_freelist = h /\ n[f].prev_freelist = none
       /\ \A x \in frames :
            /\ n[x].bl = mng[x].bl
            /\ n[x].freelist = m[x].freelist /\ n[x].num_free = m[x].num_free
            /\ x # f => /\ n[x].next_freelist = mng[x].next_freelist
                        /\ n[x].prev_freelist = IF x = h THEN f ELSE mng[x].prev_freelist
  BY <1>1, <1>8, <1>9 DEF PrevWritten, LinksWritten
<1>11. frames' = frames
  BY <1>2, <1>10 DEF frames
<1>12. list_of_lists' \in [Lists -> Links] /\ list_of_lists'[l] = f
       /\ \A k \in Lists : k # l => list_of_lists'[k] = list_of_lists[k]
  BY <1>2, <1>4, <1>7 DEF BuffersInv
<1>13. ASSUME NEW g \in frames PROVE FrameFine(n[g], Used(g)')
  <2>1. CASE g = f
    <3>1. n[f].bl = l /\ n[f].num_free < MaxFree[l]
      BY <1>1, <1>4, <1>10
    <3>2. m[f].num_free = Len(m[f].freelist) /\ Exact(m[f].freelist, MaxFree[l], Used(f)')
      BY DEF BufferPushed
    <3> QED
      BY <1>1, <1>10, <2>1, <3>1, <3>2 DEF FrameFine
  <2>2. CASE g # f
    <3>1. FrameFine(m[g], Used(g)')
      BY <2>2 DEF BufferPushed
    <3>2. n[g].bl = m[g].bl /\ n[g].freelist = m[g].freelist /\ n[g].num_free = m[g].num_free
      BY <1>1, <1>10
    <3> QED
      BY <3>1, <3>2 DEF FrameFine
  <2> QED
    BY <2>1, <2>2
<1>14. \A x \in frames : n[x].num_free = IF x = f THEN 1 ELSE mng[x].num_free
  BY <1>1, <1>4, <1>10
<1>15. ASSUME NEW k \in Lists, k # l PROVE \E r : Chain(k, r, n, list_of_lists'[k])
  <2>1. PICK r : Chain(k, r, mng, list_of_lists[k])
    BY DEF BuffersInv
  <2>2. \A x \in frames : n[x].bl = k <=> mng[x].bl = k
    BY <1>10
  <2>3. OnList(n, k) = OnList(mng, k)
    <3>1. \A x \in frames : mng[x].bl = k => x # f
      BY <1>15
    <3> QED
      BY <1>3, <1>10, <1>14, <2>2, <3>1 DEF OnList
  <2>4. \A x \in OnList(mng, k) : x \in frames /\ x # f /\ x # h
    <3>1. \A x \in OnList(mng, k) : x \in frames /\ mng[x].bl = k
      BY <1>3 DEF OnList
    <3>2. h # none => mng[h].bl = l
      BY <1>6 DEF OnList
    <3>3. \A x \in frames : x # none
      BY <1>4
    <3>4. \A x \in OnList(mng, k) : x # h
      <4> HIDE DEF l
      <4> QED
        BY <1>15, <3>1, <3>2, <3>3
    <3> QED
      BY <1>15, <3>1, <3>4
  <2>5. \A x \in OnList(mng, k) : /\ n[x].next_freelist = mng[x].next_freelist
                                  /\ n[x].prev_freelist = mng[x].prev_freelist
    BY <1>10, <2>4
  <2>6. Chain(k, r, n, list_of_lists[k])
    BY <2>1, <2>3, <2>5, ChainKept
  <2> QED
    BY <1>12, <1>15, <2>6
<1>16. \E r : Chain(l, r, n, list_of_lists'[l])
  <2>1. n[f].num_free > 0 /\ n[f].bl = l
    BY <1>1, <1>10, <1>14
  <2>2. OnList(n, l) = OnList(mng, l) \cup {f}
    <3>1. \A x \in frames : x # f =>
             (n[x].bl = l /\ n[x].num_free > 0 <=> mng[x].bl = l /\ mng[x].num_free > 0)
      BY <1>10, <1>14
    <3>2. \A x : x \in OnList(n, l) <=> x \in frames /\ n[x].bl = l /\ n[x].num_free > 0
      BY <1>10 DEF OnList
    <3>3. \A x : x \in OnList(mng, l) <=> x \in frames /\ mng[x].bl = l /\ mng[x].num_free > 0
      BY <1>3 DEF OnList
    <3> HIDE DEF l
    <3> QED
      BY <1>1, <2>1, <3>1, <3>2, <3>3
  <2>3. \A g \in OnList(mng, l) :
            /\ n[g].next_freelist = mng[g].next_freelist
            /\ n[g].prev_freelist = IF g = h THEN f ELSE mng[g].prev_freelist
    <3>1. \A g \in OnList(mng, l) : g \in frames /\ g # f
      BY <1>6
    <3> QED
      BY <1>10, <3>1
  <2> HIDE DEF l
  <2>4. Chain(l, EnqueueHead(q, f), n, f)
    BY <1>3, <1>5, <1>6, <1>10, <2>2, <2>3, ChainPush
  <2> QED
    BY <1>12, <2>4
<1>17. BuffersInv'
  <2>1. \A g \in frames' : FrameFine(mng'[g], Used(g)')
    BY <1>2, <1>11, <1>13
  <2>2. \A k \in Lists : \E r : Chain(k, r, mng', list_of_lists'[k])
    BY <1>2, <1>15, <1>16
  <2>3. mng' \in [frames' -> Mng] /\ IsFiniteSet(frames')
    BY <1>2, <1>10, <1>11 DEF BuffersInv
  <2>4. taken' \subseteq frames' \X Nat
    BY <1>11 DEF BufferPushed
  <2> QED
    BY <1>12, <2>1, <2>2, <2>3, <2>4 DEF BuffersInv
<1> QED
  BY <1>11, <1>17

\* The structures m when the neighbours of frame f have been linked.
Bridged(D, m, f, n) ==
    /\ n \in [D -> Mng]
    /\ \A x \in D :
         /\ n[x].bl = m[x].bl
         /\ n[x].freelist = m[x].freelist
         /\ n[x].num_free = m[x].num_free
         /\ n[x].next_freelist = IF x = m[f].prev_freelist THEN m[f].next_freelist
                                 ELSE m[x].next_freelist
         /\ n[x].prev_freelist = IF x = m[f].next_freelist THEN m[f].prev_freelist
                                 ELSE m[x].prev_freelist

\* Unlinking a frame links its two neighbours to each other and changes nothing else.
LEMMA BridgedExact ==
    ASSUME NEW D, D \subseteq Nat, NEW m \in [D -> Mng], NEW f \in D,
           NEW x \in D \cup {none}, x = m[f].next_freelist,
           NEW y \in D \cup {none}, y = m[f].prev_freelist,
           NEW first \in BOOLEAN, first <=> y = none
    PROVE  Bridged(D, m, f, IF first THEN SetPrev(m, x, y) ELSE SetNext(SetPrev(m, x, y), y, x))
<1> DEFINE m1 == SetPrev(m, x, y)
           n == IF first THEN m1 ELSE SetNext(m1, y, x)
<1>1. x \in Links /\ y \in Links /\ none \notin Nat
  BY MdbBuffersAssumption DEF Links
<1>2. PrevWritten(D, m, x, y, m1)
  BY <1>1, SetPrevExact
<1> HIDE DEF m1
<1>3. m1 \in [D -> Mng]
  BY <1>2 DEF PrevWritten
<1>4. NextWritten(D, m1, y, x, SetNext(m1, y, x))
  BY <1>1, <1>3, SetNextExact
<1>5. CASE first
  <2>1. n = m1 /\ \A g \in D : g # y
    BY <1>1, <1>5
  <2>2. Bridged(D, m, f, m1)
    BY <1>2, <2>1 DEF PrevWritten, Bridged
  <2> QED
    BY <2>1, <2>2 DEF m1
<1>6. CASE ~first
  <2>1. NextWritten(D, m1, y, x, n)
    BY <1>4, <1>6
  <2> HIDE DEF n
  <2>2. Bridged(D, m, f, n)
    BY <1>2, <2>1 DEF PrevWritten, NextWritten, Bridged
  <2> QED
    BY <2>2 DEF n, m1
<1> QED
  BY <1>5, <1>6

\* A frame without a buffer in use leaves its list, from any place in it.
LEMMA UnlinkStep ==
    ASSUME BuffersInv, frames \subseteq Nat, NEW f, NEW s, NEW m, BufferPushed(f, s, m),
           mng[f].num_free # 0, mng[f].num_free + 1 = MaxFree[mng[f].bl], Unlink(f, m)
    PROVE  /\ BuffersInv' /\ frames' = frames \ {f} /\ f \in frames
           /\ Enqueue(f, FrameChunks) /\ UNCHANGED <<added, blocks>>
<1> DEFINE l == mng[f].bl
           h == list_of_lists[l]
           x == m[f].next_freelist
           y == m[f].prev_freelist
           first == h = f
           m2 == IF first THEN SetPrev(m, x, y) ELSE SetNext(SetPrev(m, x, y), y, x)
           D == frames \ {f}
           n == [g \in D |-> m2[g]]
           h2 == IF h = f THEN mng[f].next_freelist ELSE h
<1>1. /\ f \in frames /\ m \in [frames -> Mng] /\ m[f].num_free = mng[f].num_free + 1
      /\ \A g \in frames :
           /\ m[g].bl = mng[g].bl
           /\ m[g].next_freelist = mng[g].next_freelist
           /\ m[g].prev_freelist = mng[g].prev_freelist
           /\ g # f => m[g] = mng[g]
  BY DEF BufferPushed, SlotsWritten
<1>2. /\ mng' = n /\ Enqueue(f, FrameChunks) /\ UNCHANGED <<added, blocks>>
      /\ list_of_lists' = IF first THEN [list_of_lists EXCEPT ![l] = x] ELSE list_of_lists
  <2>1. m[f].bl = l
    BY <1>1
  <2> QED
    BY <2>1 DEF Unlink
<1>3. /\ mng \in [frames -> Mng] /\ mng[f] \in Mng /\ f \in Nat
      /\ frames = DOMAIN mng /\ frames = DOMAIN m
  BY <1>1 DEF BuffersInv, frames
<1>4. l \in Lists /\ mng[f].num_free \in Nat /\ none \notin Nat
  BY <1>3, MdbBuffersAssumption DEF Mng
<1>5. PICK q : Chain(l, q, mng, h)
  BY <1>4 DEF BuffersInv
<1>6. f \in OnList(mng, l) /\ OnList(mng, l) \subseteq frames
  <2>1. mng[f].num_free > 0
    BY <1>4
  <2>2. f \in {g \in DOMAIN mng : mng[g].bl = l /\ mng[g].num_free > 0}
    BY <1>1, <1>3, <2>1
  <2>3. OnList(mng, l) \subseteq DOMAIN mng
    BY DEF OnList
  <2> QED
    BY <1>3, <2>2, <2>3 DEF OnList
<1>7. /\ x = mng[f].next_freelist /\ y = mng[f].prev_freelist
      /\ x \in (OnList(mng, l) \cup {none}) \ {f} /\ y \in (OnList(mng, l) \cup {none}) \ {f}
      /\ (first <=> y = none) /\ first \in BOOLEAN
  <2>1. x = mng[f].next_freelist /\ y = mng[f].prev_freelist
    BY <1>1
  <2>2. /\ mng[f].next_freelist \in (OnList(mng, l) \cup {none}) \ {f}
        /\ mng[f].prev_freelist \in (OnList(mng, l) \cup {none}) \ {f}
        /\ mng[f].prev_freelist = none <=> h = f
    BY <1>5, <1>6, ChainFacts
  <2> QED
    BY <2>1, <2>2
<1>8. Bridged(frames, m, f, m2)
  <2>1. /\ x = m[f].next_freelist /\ y = m[f].prev_freelist
        /\ x \in frames \cup {none} /\ y \in frames \cup {none}
    BY <1>6, <1>7
  <2> HIDE DEF x, y, first
  <2> QED
    BY <1>1, <1>7, <2>1, BridgedExact
<1> HIDE DEF m2
<1>9. /\ n \in [D -> Mng] /\ DOMAIN n = D
      /\ \A g \in D :
           /\ n[g].bl = mng[g].bl
           /\ n[g].freelist = m[g].freelist
           /\ n[g].num_free = mng[g].num_free
           /\ n[g].next_freelist = IF g = mng[f].prev_freelist THEN mng[f].next_freelist
                                   ELSE mng[g].next_freelist
           /\ n[g].prev_freelist = IF g = mng[f].next_freelist THEN mng[f].prev_freelist
                                   ELSE mng[g].prev_freelist
  <2>1. m2 \in [frames -> Mng] /\ \A g \in D : n[g] = m2[g]
    BY <1>8 DEF Bridged
  <2>2. n \in [D -> Mng] /\ DOMAIN n = D
    BY <2>1
  <2> HIDE DEF n
  <2> QED
    BY <1>1, <1>8, <2>1, <2>2 DEF Bridged
<1> HIDE DEF n
<1>10. frames' = D
  BY <1>2, <1>9 DEF frames
<1>11. list_of_lists' \in [Lists -> Links] /\ list_of_lists'[l] = h2
       /\ \A k \in Lists : k # l => list_of_lists'[k] = list_of_lists[k]
  <2>1. x \in Links
    BY <1>3, <1>6, <1>7 DEF Links
  <2> HIDE DEF x
  <2>2. list_of_lists \in [Lists -> Links]
    BY DEF BuffersInv
  <2>3. CASE first
    BY <1>2, <1>4, <1>7, <2>1, <2>2, <2>3
  <2>4. CASE ~first
    BY <1>2, <1>4, <2>2, <2>4
  <2> QED
    BY <2>3, <2>4
<1>12. ASSUME NEW g \in D PROVE FrameFine(n[g], Used(g)')
  <2>1. FrameFine(m[g], Used(g)') /\ m[g] = mng[g]
    BY <1>1 DEF BufferPushed
  <2>2. n[g].bl = m[g].bl /\ n[g].freelist = m[g].freelist /\ n[g].num_free = m[g].num_free
    BY <1>9, <2>1
  <2> QED
    BY <2>1, <2>2 DEF FrameFine
<1>13. /\ \A k, g : g \in OnList(n, k) <=> g \in D /\ n[g].bl = k /\ n[g].num_free > 0
       /\ \A k, g : g \in OnList(mng, k) <=> g \in frames /\ mng[g].bl = k /\ mng[g].num_free > 0
  BY <1>3, <1>9 DEF OnList
<1>14. ASSUME NEW k \in Lists, k # l PROVE \E r : Chain(k, r, n, list_of_lists'[k])
  <2>1. PICK r : Chain(k, r, mng, list_of_lists[k])
    BY DEF BuffersInv
  <2>2. OnList(n, k) = OnList(mng, k)
    <3>1. \A g : g \in frames /\ mng[g].bl = k => g \in D
      BY <1>14
    <3>2. \A g \in D : n[g].bl = mng[g].bl /\ n[g].num_free = mng[g].num_free
      BY <1>9
    <3>3. D \subseteq frames
      OBVIOUS
    <3> HIDE DEF l, D
    <3>4. ASSUME NEW g PROVE g \in OnList(n, k) <=> g \in OnList(mng, k)
      <4>1. g \in OnList(n, k) <=> g \in D /\ n[g].bl = k /\ n[g].num_free > 0
        BY <1>13
      <4>2. g \in OnList(mng, k) <=> g \in frames /\ mng[g].bl = k /\ mng[g].num_free > 0
        BY <1>13
      <4> QED
        BY <4>1, <4>2, <3>1, <3>2, <3>3
    <3> QED
      BY <3>4
  <2>3. \A g \in OnList(mng, k) : g \in D /\ g \notin OnList(mng, l)
    BY <1>13, <1>14
  <2>4. \A g \in OnList(mng, k) : g \in D /\ g # mng[f].prev_freelist /\ g # mng[f].next_freelist
    <3>1. \A g \in OnList(mng, k) : g # none
      BY <1>4, <2>3
    <3> QED
      BY <1>7, <2>3, <3>1
  <2>5. \A g \in OnList(mng, k) : /\ n[g].next_freelist = mng[g].next_freelist
                                  /\ n[g].prev_freelist = mng[g].prev_freelist
    BY <1>9, <2>4
  <2>6. Chain(k, r, n, list_of_lists[k])
    BY <2>1, <2>2, <2>5, ChainKept
  <2> QED
    BY <1>11, <1>14, <2>6
<1>15. \E r : Chain(l, r, n, list_of_lists'[l])
  <2> HIDE DEF l, h
  <2>1. OnList(n, l) = OnList(mng, l) \ {f}
    <3>1. \A g \in D : n[g].bl = mng[g].bl /\ n[g].num_free = mng[g].num_free
      BY <1>9
    <3>2. \A g : g \in D <=> g \in frames /\ g # f
      OBVIOUS
    <3> HIDE DEF D
    <3>3. ASSUME NEW g PROVE g \in OnList(n, l) <=> g \in OnList(mng, l) /\ g # f
      <4>1. g \in OnList(n, l) <=> g \in D /\ n[g].bl = l /\ n[g].num_free > 0
        BY <1>13
      <4>2. g \in OnList(mng, l) <=> g \in frames /\ mng[g].bl = l /\ mng[g].num_free > 0
        BY <1>13
      <4> QED
        BY <3>1, <3>2, <4>1, <4>2
    <3> QED
      BY <3>3
  <2>2. \A g \in OnList(n, l) :
             /\ n[g].next_freelist = IF g = mng[f].prev_freelist THEN mng[f].next_freelist
                                     ELSE mng[g].next_freelist
             /\ n[g].prev_freelist = IF g = mng[f].next_freelist THEN mng[f].prev_freelist
                                     ELSE mng[g].prev_freelist
    BY <1>9, <1>13
  <2>3. Chain(l, Without(q, f), n, h2)
    BY <1>5, <1>6, <2>1, <2>2, ChainDrop
  <2> QED
    BY <1>11, <2>3
<1>16. BuffersInv'
  <2>1. \A g \in frames' : FrameFine(mng'[g], Used(g)')
    BY <1>2, <1>10, <1>12
  <2>2. \A k \in Lists : \E r : Chain(k, r, mng', list_of_lists'[k])
    BY <1>2, <1>14, <1>15
  <2>3. mng' \in [frames' -> Mng] /\ IsFiniteSet(frames')
    <3>1. IsFiniteSet(D)
      BY FS_RemoveElement DEF BuffersInv
    <3> QED
      BY <1>2, <1>9, <1>10, <3>1
  <2>4. taken' \subseteq frames' \X Nat
    BY <1>10 DEF BufferPushed
  <2> QED
    BY <1>11, <2>1, <2>2, <2>3, <2>4 DEF BuffersInv
<1> QED
  BY <1>1, <1>2, <1>10, <1>16

\* mdb_free_buffer, whatever becomes of the frame.
LEMMA FreeBufferStep ==
    ASSUME MemoryInv, BuffersInv, NEW f, NEW s, FreeBuffer(f, s)
    PROVE  MemoryInv' /\ BuffersInv'
<1> DEFINE p == mng[f]
           m == WithSlots(mng, f, <<s>> \o p.freelist, p.num_free + 1)
<1>1. /\ <<f, s>> \in taken /\ taken' = taken \ {<<f, s>>}
      /\ \/ p.num_free = 0 /\ Relist(f, m)
         \/ p.num_free # 0 /\ p.num_free + 1 = MaxFree[p.bl] /\ Unlink(f, m)
         \/ /\ p.num_free # 0 /\ p.num_free + 1 # MaxFree[p.bl]
            /\ mng' = m /\ UNCHANGED <<kmemVars, list_of_lists>>
  BY DEF FreeBuffer, WithSlots
<1>2. BufferPushed(f, s, m)
  BY <1>1, PushExact
<1> HIDE DEF m
<1>3. frames \subseteq Nat
  BY DEF MemoryInv
<1>4. ASSUME UNCHANGED kmemVars, frames' = frames PROVE MemoryInv'
  BY <1>4 DEF MemoryInv, kmemVars, ListOrdered, FreeList, Pages, memory, Part
<1>5. CASE p.num_free = 0 /\ Relist(f, m)
  <2>1. BuffersInv' /\ frames' = frames
    BY <1>2, <1>3, <1>5, RelistStep
  <2> QED
    BY <1>4, <1>5, <2>1 DEF Relist
<1>6. CASE p.num_free # 0 /\ p.num_free + 1 = MaxFree[p.bl] /\ Unlink(f, m)
  <2>1. /\ BuffersInv' /\ frames' = frames \ {f} /\ f \in frames
        /\ Enqueue(f, FrameChunks) /\ UNCHANGED <<added, blocks>>
    BY <1>2, <1>3, <1>6, UnlinkStep
  <2> QED
    BY <2>1, GivePage
<1>7. CASE /\ p.num_free # 0 /\ p.num_free + 1 # MaxFree[p.bl]
           /\ mng' = m /\ UNCHANGED <<kmemVars, list_of_lists>>
  <2>1. BuffersInv' /\ frames' = frames
    BY <1>2, <1>7, StayStep
  <2> QED
    BY <1>4, <1>7, <2>1
<1> QED
  BY <1>1, <1>5, <1>6, <1>7

\* The kernel's own blocks leave the buffers alone.
LEMMA KmemSteps ==
    ASSUME MemoryInv, BuffersInv, KmemStep
    PROVE  MemoryInv' /\ BuffersInv'
<1>1. KmemNext /\ UNCHANGED <<mng, list_of_lists, taken>>
  BY DEF KmemStep
<1>2. BuffersInv'
  BY <1>1 DEF BuffersInv, frames, Used, FrameFine, Exact, Chain, OnList, InList, Distinct
<1>3. ASSUME NEW r \in Regions, Add(r) PROVE MemoryInv'
  <2>1. UNCHANGED mng
    BY <1>1
  <2> QED
    BY <1>3, <2>1, AddMemory
<1>4. ASSUME NEW q \in Requests, Alloc(q) PROVE MemoryInv'
  <2>1. UNCHANGED mng
    BY <1>1
  <2> QED
    BY <1>4, <2>1, AllocMemory
<1>5. ASSUME NEW b \in blocks, Free(b) PROVE MemoryInv'
  BY <1>1, <1>5, FreeMemory
<1>6. ASSUME NEW b \in blocks, FreePart(b, b.size \div 2) PROVE MemoryInv'
  <2>1. b.size \div 2 \in Nat
    BY DEF MemoryInv
  <2> QED
    BY <1>1, <1>6, <2>1, FreePartMemory
<1> QED
  BY <1>1, <1>2, <1>3, <1>4, <1>5, <1>6 DEF KmemNext

-----------------------------------------------------------------------------

Inv == MemoryInv /\ BuffersInv

\* There is no memory at first.
LEMMA InvInit == BuffersInit => Inv
<1> SUFFICES ASSUME BuffersInit PROVE Inv
  OBVIOUS
<1>1. /\ kmem_free_list = <<>> /\ free_chunks = 0 /\ added = {} /\ blocks = {}
      /\ mng = [f \in {} |-> none] /\ list_of_lists = [l \in Lists |-> none] /\ taken = {}
  BY DEF BuffersInit, KmemInit
<1>2. frames = {} /\ Pages = {} /\ memory = {} /\ FreeList = {}
  BY <1>1 DEF frames, Pages, memory, FreeList, Members
<1>3. ListOrdered
  BY <1>1 DEF ListOrdered
<1>4. MemoryInv
  BY <1>1, <1>2, <1>3 DEF MemoryInv, Part
<1>5. ASSUME NEW l \in Lists PROVE Chain(l, <<>>, mng, list_of_lists[l])
  BY <1>1 DEF Chain, OnList, InList, Distinct
<1>6. mng \in [frames -> Mng] /\ IsFiniteSet(frames)
  BY <1>1, <1>2, FS_EmptySet
<1>7. list_of_lists \in [Lists -> Links]
  BY <1>1 DEF Links
<1> QED
  BY <1>1, <1>2, <1>4, <1>5, <1>6, <1>7 DEF Inv, BuffersInv

\* Every operation keeps it.
LEMMA InvStep == Inv /\ [BuffersNext]_buffersVars => Inv'
<1> SUFFICES ASSUME Inv, [BuffersNext]_buffersVars PROVE Inv'
  OBVIOUS
<1>1. CASE KmemStep
  BY <1>1, KmemSteps DEF Inv
<1>2. ASSUME NEW l \in Lists, AllocBuffer(l) PROVE Inv'
  BY <1>2, AllocBufferStep DEF Inv
<1>3. ASSUME NEW l \in Lists, AllocFrame(l) PROVE Inv'
  BY <1>3, AllocFrameStep DEF Inv
<1>4. ASSUME NEW b \in taken, FreeBuffer(b[1], b[2]) PROVE Inv'
  BY <1>4, FreeBufferStep DEF Inv
<1>5. CASE UNCHANGED buffersVars
  <2>1. UNCHANGED kmemVars /\ UNCHANGED <<mng, list_of_lists, taken>>
    BY <1>5 DEF buffersVars
  <2>2. MemoryInv'
    BY <2>1 DEF Inv, MemoryInv, kmemVars, ListOrdered, FreeList, Pages, memory, Part, frames
  <2>3. BuffersInv'
    BY <2>1 DEF Inv, BuffersInv, frames, Used, FrameFine, Exact, Chain, OnList, InList, Distinct
  <2> QED
    BY <2>2, <2>3 DEF Inv
<1> QED
  BY <1>1, <1>2, <1>3, <1>4, <1>5 DEF BuffersNext

\* Kernel memory is never lost and never handed out twice, for any regions,
\* any requests and any sizes of buffers, whatever the order in which the
\* kernel and the mapping database allocate and give back.
THEOREM MemoryIsExact == BuffersSpec => []MemoryExact
<1>1. Inv => MemoryExact
  BY MemoryInvExact DEF Inv
<1> QED
  BY <1>1, InvInit, InvStep, PTL DEF BuffersSpec

\* The lists of frames with a free buffer, the free buffers of each frame and
\* the buffers in use fit together, however frames leave and join their list.
THEOREM PoolsAreExact == BuffersSpec => []PoolsExact
<1>1. Inv => PoolsExact
  BY BuffersInvExact DEF Inv
<1> QED
  BY <1>1, InvInit, InvStep, PTL DEF BuffersSpec

-----------------------------------------------------------------------------
(* Tlb: the inductive invariant                                              *)

\* Processor d has the request of c to flush its TLB: its pending bit is set, or
\* handle_sync_requests has not come to the acknowledgement.
Outstanding(c, d) ==
    c \in pending[d] \/ (stage[d] \in {"clear", "ack"} /\ serving[d] = c)

\* A processor polls for a request that is outstanding, for one at a time, and
\* is not acknowledged meanwhile.
OneRequest ==
    /\ \A c, d \in Cpus : Outstanding(c, d) => pc[c] = "poll" /\ c \notin acked
    /\ \A c, d, e \in Cpus : Outstanding(c, d) /\ Outstanding(c, e) => d = e
    /\ \A d \in Cpus : stage[d] = "ack" => serving[d] \notin pending[d]

\* The announcement of an address space comes before CR3 is loaded.
Announced == \A c \in Cpus : active[c] = cr3[c] \/ pc[c] = "switch"

Revoking == {"tcb", "mdb", "clear", "tag", "end", "poll"}

\* A processor that revokes stays in the address space it revokes in, and clears
\* the entries of this revocation.
OpRuns ==
    \A c \in Cpus : pc[c] \in Revoking =>
        /\ op[c] \in Revocations /\ op[c].by = cr3[c]
        /\ pc[c] \in {"clear", "tag"} => left[c] \subseteq op[c].from

\* The revocation on r will flush the TLB of c: all flushing is still to come
\* (of a large fpage), it is c's turn in tag_flush_remote, c is tagged, or c has
\* the request and has not begun to handle it.
WillFlush(r, c) ==
    \/ pc[r] = "clear" /\ op[r].large
    \/ pc[r] = "tag" /\ c \in untagged[r] /\ cleared[r] = cr3[c]
    \/ pc[r] \in {"clear", "tag", "end", "poll"} /\ c \in cpu_remote_flush[r]
    \/ pc[r] = "poll" /\ r \in pending[c] /\ ~(stage[c] = "clear" /\ serving[c] = r)

Covers(r, c) == pc[r] \in Revoking /\ cr3[c] \in op[r].from /\ WillFlush(r, c)

Covered == \A c \in stale : pc[c] # "switch" => \E r \in Cpus : Covers(r, c)

FlushInv == OneRequest /\ Announced /\ OpRuns /\ Covered
-----------------------------------------------------------------------------
(* Types                                                                     *)

\* Processors, requests and revocations stay within their types.
LEMMA TypeStep == TypeOK /\ [Next]_vars => TypeOK'
<1> SUFFICES ASSUME TypeOK, [Next]_vars PROVE TypeOK'
  OBVIOUS
<1> USE DEF TypeOK, mmu, revoke, sync, serve, locks
<1>1. ASSUME NEW c \in Cpus, Load(c) PROVE TypeOK'
  BY <1>1 DEF Load
<1>2. ASSUME NEW s \in Spaces, Map(s) PROVE TypeOK'
  BY <1>2 DEF Map
<1>3. ASSUME NEW c \in Cpus, NEW s \in Spaces, Switch(c, s) PROVE TypeOK'
  BY <1>3 DEF Switch, GoTo
<1>4. ASSUME NEW c \in Cpus, LoadCr3(c) PROVE TypeOK'
  BY <1>4 DEF LoadCr3, GoTo, FlushTlb
<1>5. ASSUME NEW c \in Cpus, NEW r \in Revocations, Start(c, r) PROVE TypeOK'
  BY <1>5 DEF Start, GoTo
<1>6. ASSUME NEW c \in Cpus, LockTcb(c) PROVE TypeOK'
  BY <1>6 DEF LockTcb, GoTo
<1>7. ASSUME NEW c \in Cpus, LockMdb(c) PROVE TypeOK'
  BY <1>7 DEF LockMdb, GoTo
<1>8. ASSUME NEW c \in Cpus, NEW s \in Spaces, Clear(c, s) PROVE TypeOK'
  BY <1>8 DEF Clear, GoTo
<1>9. ASSUME NEW c \in Cpus, NEW d \in Cpus, Tag(c, d) PROVE TypeOK'
  BY <1>9 DEF Tag, GoTo
<1>10. ASSUME NEW c \in Cpus, UnlockMdb(c) PROVE TypeOK'
  BY SMTT(30), <1>10 DEF UnlockMdb, GoTo, FlushTlb
<1>11. ASSUME NEW c \in Cpus, NEW d \in Cpus, Request(c, d) PROVE TypeOK'
  BY <1>11 DEF Request, GoTo
<1>12. ASSUME NEW c \in Cpus, Poll(c) PROVE TypeOK'
  BY <1>12 DEF Poll, GoTo
<1>13. ASSUME NEW c \in Cpus, Return(c) PROVE TypeOK'
  BY <1>13 DEF Return, GoTo
<1>14. ASSUME NEW c \in Cpus, Interrupt(c) PROVE TypeOK'
  BY <1>14 DEF Interrupt, GoTo
<1>15. ASSUME NEW c \in Cpus, NEW a \in Cpus, Handle(c, a) PROVE TypeOK'
  BY <1>15 DEF Handle, FlushTlb
<1>16. ASSUME NEW c \in Cpus, ClearPending(c) PROVE TypeOK'
  BY <1>16 DEF ClearPending
<1>17. ASSUME NEW c \in Cpus, Ack(c) PROVE TypeOK'
  BY <1>17 DEF Ack
<1>18. ASSUME NEW c \in Cpus, Served(c) PROVE TypeOK'
  BY <1>18 DEF Served, GoTo
<1>19. CASE UNCHANGED vars
  BY <1>19 DEF vars
<1> QED
  BY <1>1, <1>2, <1>3, <1>4, <1>5, <1>6, <1>7, <1>8, <1>9, <1>10, <1>11, <1>12, <1>13, <1>14,
     <1>15, <1>16, <1>17, <1>18, <1>19
     DEF Next, Kernel

\* The state of the page tables, TLBs and requests stays within its types.
THEOREM TypeCorrect == Spec => []TypeOK
<1>1. Init => TypeOK
  BY TlbAssumption DEF Init, TypeOK
<1> QED
  BY <1>1, TypeStep, PTL DEF Spec

-----------------------------------------------------------------------------
(* Requests                                                                  *)

\* sync_xcpu_request is not called again before it has been answered.
LEMMA OneRequestStep ==
    ASSUME TypeOK, OneRequest, [Next]_vars
    PROVE  OneRequest'
<1> USE DEF TypeOK, mmu, revoke, sync, serve, locks, OneRequest, Outstanding
<1>1. ASSUME NEW c \in Cpus, Load(c) PROVE OneRequest'
  BY <1>1 DEF Load
<1>2. ASSUME NEW s \in Spaces, Map(s) PROVE OneRequest'
  BY <1>2 DEF Map
<1>3. ASSUME NEW c \in Cpus, NEW s \in Spaces, Switch(c, s) PROVE OneRequest'
  BY <1>3 DEF Switch, GoTo
<1>4. ASSUME NEW c \in Cpus, LoadCr3(c) PROVE OneRequest'
  BY <1>4 DEF LoadCr3, GoTo, FlushTlb
<1>5. ASSUME NEW c \in Cpus, NEW r \in Revocations, Start(c, r) PROVE OneRequest'
  BY <1>5 DEF Start, GoTo
<1>6. ASSUME NEW c \in Cpus, LockTcb(c) PROVE OneRequest'
  BY <1>6 DEF LockTcb, GoTo
<1>7. ASSUME NEW c \in Cpus, LockMdb(c) PROVE OneRequest'
  BY <1>7 DEF LockMdb, GoTo
<1>8. ASSUME NEW c \in Cpus, NEW s \in Spaces, Clear(c, s) PROVE OneRequest'
  BY <1>8 DEF Clear, GoTo
<1>9. ASSUME NEW c \in Cpus, NEW d \in Cpus, Tag(c, d) PROVE OneRequest'
  BY <1>9 DEF Tag, GoTo
<1>10. ASSUME NEW c \in Cpus, UnlockMdb(c) PROVE OneRequest'
  BY <1>10 DEF UnlockMdb, GoTo, FlushTlb
<1>11. ASSUME NEW c \in Cpus, NEW d \in Cpus, Request(c, d) PROVE OneRequest'
  BY <1>11 DEF Request, GoTo
<1>12. ASSUME NEW c \in Cpus, Poll(c) PROVE OneRequest'
  BY <1>12 DEF Poll, GoTo
<1>13. ASSUME NEW c \in Cpus, Return(c) PROVE OneRequest'
  BY <1>13 DEF Return, GoTo
<1>14. ASSUME NEW c \in Cpus, Interrupt(c) PROVE OneRequest'
  BY <1>14 DEF Interrupt, GoTo
<1>15. ASSUME NEW c \in Cpus, NEW a \in Cpus, Handle(c, a) PROVE OneRequest'
  BY <1>15 DEF Handle, FlushTlb
<1>16. ASSUME NEW c \in Cpus, ClearPending(c) PROVE OneRequest'
  BY <1>16 DEF ClearPending
<1>17. ASSUME NEW c \in Cpus, Ack(c) PROVE OneRequest'
  BY <1>17 DEF Ack
<1>18. ASSUME NEW c \in Cpus, Served(c) PROVE OneRequest'
  BY <1>18 DEF Served, GoTo
<1>19. CASE UNCHANGED vars
  BY <1>19 DEF vars
<1> QED
  BY <1>1, <1>2, <1>3, <1>4, <1>5, <1>6, <1>7, <1>8, <1>9, <1>10, <1>11, <1>12, <1>13, <1>14,
     <1>15, <1>16, <1>17, <1>18, <1>19
     DEF Next, Kernel

\* Only switch_to changes the announcement.
LEMMA AnnouncedStep ==
    ASSUME TypeOK, Announced, [Next]_vars
    PROVE  Announced'
<1> USE DEF TypeOK, mmu, revoke, sync, serve, locks, Announced
<1>1. ASSUME NEW c \in Cpus, Load(c) PROVE Announced'
  BY <1>1 DEF Load
<1>2. ASSUME NEW s \in Spaces, Map(s) PROVE Announced'
  BY <1>2 DEF Map
<1>3. ASSUME NEW c \in Cpus, NEW s \in Spaces, Switch(c, s) PROVE Announced'
  BY <1>3 DEF Switch, GoTo
<1>4. ASSUME NEW c \in Cpus, LoadCr3(c) PROVE Announced'
  BY <1>4 DEF LoadCr3, GoTo, FlushTlb
<1>5. ASSUME NEW c \in Cpus, NEW r \in Revocations, Start(c, r) PROVE Announced'
  BY <1>5 DEF Start, GoTo
<1>6. ASSUME NEW c \in Cpus, LockTcb(c) PROVE Announced'
  BY <1>6 DEF LockTcb, GoTo
<1>7. ASSUME NEW c \in Cpus, LockMdb(c) PROVE Announced'
  BY <1>7 DEF LockMdb, GoTo
<1>8. ASSUME NEW c \in Cpus, NEW s \in Spaces, Clear(c, s) PROVE Announced'
  BY <1>8 DEF Clear, GoTo
<1>9. ASSUME NEW c \in Cpus, NEW d \in Cpus, Tag(c, d) PROVE Announced'
  BY <1>9 DEF Tag, GoTo
<1>10. ASSUME NEW c \in Cpus, UnlockMdb(c) PROVE Announced'
  BY <1>10 DEF UnlockMdb, GoTo, FlushTlb
<1>11. ASSUME NEW c \in Cpus, NEW d \in Cpus, Request(c, d) PROVE Announced'
  BY <1>11 DEF Request, GoTo
<1>12. ASSUME NEW c \in Cpus, Poll(c) PROVE Announced'
  BY <1>12 DEF Poll, GoTo
<1>13. ASSUME NEW c \in Cpus, Return(c) PROVE Announced'
  BY <1>13 DEF Return, GoTo
<1>14. ASSUME NEW c \in Cpus, Interrupt(c) PROVE Announced'
  BY <1>14 DEF Interrupt, GoTo
<1>15. ASSUME NEW c \in Cpus, NEW a \in Cpus, Handle(c, a) PROVE Announced'
  BY <1>15 DEF Handle, FlushTlb
<1>16. ASSUME NEW c \in Cpus, ClearPending(c) PROVE Announced'
  BY <1>16 DEF ClearPending
<1>17. ASSUME NEW c \in Cpus, Ack(c) PROVE Announced'
  BY <1>17 DEF Ack
<1>18. ASSUME NEW c \in Cpus, Served(c) PROVE Announced'
  BY <1>18 DEF Served, GoTo
<1>19. CASE UNCHANGED vars
  BY <1>19 DEF vars
<1> QED
  BY <1>1, <1>2, <1>3, <1>4, <1>5, <1>6, <1>7, <1>8, <1>9, <1>10, <1>11, <1>12, <1>13, <1>14,
     <1>15, <1>16, <1>17, <1>18, <1>19
     DEF Next, Kernel

\* A revocation keeps its processor in the kernel.
LEMMA OpRunsStep ==
    ASSUME TypeOK, OpRuns, [Next]_vars
    PROVE  OpRuns'
<1> USE DEF TypeOK, mmu, revoke, sync, serve, locks, OpRuns, Revoking
<1>1. ASSUME NEW c \in Cpus, Load(c) PROVE OpRuns'
  BY <1>1 DEF Load
<1>2. ASSUME NEW s \in Spaces, Map(s) PROVE OpRuns'
  BY <1>2 DEF Map
<1>3. ASSUME NEW c \in Cpus, NEW s \in Spaces, Switch(c, s) PROVE OpRuns'
  BY <1>3 DEF Switch, GoTo
<1>4. ASSUME NEW c \in Cpus, LoadCr3(c) PROVE OpRuns'
  BY <1>4 DEF LoadCr3, GoTo, FlushTlb
<1>5. ASSUME NEW c \in Cpus, NEW r \in Revocations, Start(c, r) PROVE OpRuns'
  BY <1>5 DEF Start, GoTo
<1>6. ASSUME NEW c \in Cpus, LockTcb(c) PROVE OpRuns'
  BY <1>6 DEF LockTcb, GoTo
<1>7. ASSUME NEW c \in Cpus, LockMdb(c) PROVE OpRuns'
  BY <1>7 DEF LockMdb, GoTo
<1>8. ASSUME NEW c \in Cpus, NEW s \in Spaces, Clear(c, s) PROVE OpRuns'
  BY <1>8 DEF Clear, GoTo
<1>9. ASSUME NEW c \in Cpus, NEW d \in Cpus, Tag(c, d) PROVE OpRuns'
  BY <1>9 DEF Tag, GoTo
<1>10. ASSUME NEW c \in Cpus, UnlockMdb(c) PROVE OpRuns'
  BY <1>10 DEF UnlockMdb, GoTo, FlushTlb
<1>11. ASSUME NEW c \in Cpus, NEW d \in Cpus, Request(c, d) PROVE OpRuns'
  BY <1>11 DEF Request, GoTo
<1>12. ASSUME NEW c \in Cpus, Poll(c) PROVE OpRuns'
  BY <1>12 DEF Poll, GoTo
<1>13. ASSUME NEW c \in Cpus, Return(c) PROVE OpRuns'
  BY <1>13 DEF Return, GoTo
<1>14. ASSUME NEW c \in Cpus, Interrupt(c) PROVE OpRuns'
  BY <1>14 DEF Interrupt, GoTo
<1>15. ASSUME NEW c \in Cpus, NEW a \in Cpus, Handle(c, a) PROVE OpRuns'
  BY <1>15 DEF Handle, FlushTlb
<1>16. ASSUME NEW c \in Cpus, ClearPending(c) PROVE OpRuns'
  BY <1>16 DEF ClearPending
<1>17. ASSUME NEW c \in Cpus, Ack(c) PROVE OpRuns'
  BY <1>17 DEF Ack
<1>18. ASSUME NEW c \in Cpus, Served(c) PROVE OpRuns'
  BY <1>18 DEF Served, GoTo
<1>19. CASE UNCHANGED vars
  BY <1>19 DEF vars
<1> QED
  BY <1>1, <1>2, <1>3, <1>4, <1>5, <1>6, <1>7, <1>8, <1>9, <1>10, <1>11, <1>12, <1>13, <1>14,
     <1>15, <1>16, <1>17, <1>18, <1>19
     DEF Next, Kernel

-----------------------------------------------------------------------------
(* Stale entries                                                             *)

\* A large fpage is revoked in the address space of the caller only: it has been
\* given to nobody.  (mapctrl_fpage flushes for that space alone.)
LargeNotGiven == \A r \in Revocations : r.large => r.from \subseteq {r.by}

\* Whoever makes an entry stale will flush it, and the processor that holds it
\* goes from one set of processors to flush to the next until it does.
LEMMA CoveredStep ==
    ASSUME TypeOK, FlushInv, LargeNotGiven, [Next]_vars
    PROVE  Covered'
<1> USE DEF TypeOK, FlushInv, OneRequest, Outstanding, Announced, OpRuns, Revoking, Covers,
            WillFlush, mmu, revoke, sync, serve, locks
<1> SUFFICES ASSUME NEW e \in stale', pc'[e] # "switch"
             PROVE  \E r \in Cpus : Covers(r, e)'
  BY DEF Covered
<1>old. ASSUME e \in stale, pc[e] # "switch" PROVE \E r \in Cpus : Covers(r, e)
  BY <1>old DEF Covered
<1>1. ASSUME NEW c \in Cpus, Load(c) PROVE \E r \in Cpus : Covers(r, e)'
  <2>1. e \in stale /\ pc[e] # "switch"
    BY <1>1 DEF Load
  <2>2. PICK r \in Cpus : Covers(r, e)
    BY <2>1, <1>old
  <2> QED
    BY <1>1, <2>1, <2>2 DEF Load
<1>2. ASSUME NEW s \in Spaces, Map(s) PROVE \E r \in Cpus : Covers(r, e)'
  <2>1. e \in stale /\ pc[e] # "switch"
    BY <1>2 DEF Map
  <2>2. PICK r \in Cpus : Covers(r, e)
    BY <2>1, <1>old
  <2> QED
    BY <1>2, <2>1, <2>2 DEF Map
<1>3. ASSUME NEW c \in Cpus, NEW s \in Spaces, Switch(c, s) PROVE \E r \in Cpus : Covers(r, e)'
  <2>1. e \in stale /\ pc[e] # "switch"
    BY <1>3 DEF Switch, GoTo
  <2>2. PICK r \in Cpus : Covers(r, e)
    BY <2>1, <1>old
  <2> QED
    BY <1>3, <2>1, <2>2 DEF Switch, GoTo
<1>4. ASSUME NEW c \in Cpus, LoadCr3(c) PROVE \E r \in Cpus : Covers(r, e)'
  <2>1. e \in stale /\ pc[e] # "switch"
    BY <1>4 DEF LoadCr3, GoTo, FlushTlb
  <2>2. PICK r \in Cpus : Covers(r, e)
    BY <2>1, <1>old
  <2> QED
    BY <1>4, <2>1, <2>2 DEF LoadCr3, GoTo, FlushTlb
<1>5. ASSUME NEW c \in Cpus, NEW rv \in Revocations, Start(c, rv)
      PROVE  \E r \in Cpus : Covers(r, e)'
  <2>1. e \in stale /\ pc[e] # "switch"
    BY <1>5 DEF Start, GoTo
  <2>2. PICK r \in Cpus : Covers(r, e)
    BY <2>1, <1>old
  <2> QED
    BY <1>5, <2>1, <2>2 DEF Start, GoTo
<1>6. ASSUME NEW c \in Cpus, LockTcb(c) PROVE \E r \in Cpus : Covers(r, e)'
  <2>1. e \in stale /\ pc[e] # "switch"
    BY <1>6 DEF LockTcb, GoTo
  <2>2. PICK r \in Cpus : Covers(r, e)
    BY <2>1, <1>old
  <2> QED
    BY <1>6, <2>1, <2>2 DEF LockTcb, GoTo
<1>7. ASSUME NEW c \in Cpus, LockMdb(c) PROVE \E r \in Cpus : Covers(r, e)'
  <2>1. e \in stale /\ pc[e] # "switch"
    BY <1>7 DEF LockMdb, GoTo
  <2>2. PICK r \in Cpus : Covers(r, e)
    BY <2>1, <1>old
  <2> QED
    BY <1>7, <2>1, <2>2 DEF LockMdb, GoTo
<1>8. ASSUME NEW c \in Cpus, NEW s \in Spaces, Clear(c, s) PROVE \E r \in Cpus : Covers(r, e)'
  <2>1. CASE cr3[e] = s
    BY <1>8, <2>1 DEF Clear, GoTo
  <2>2. CASE cr3[e] # s
    <3>1. e \in stale /\ pc[e] # "switch"
      BY <1>8, <2>2 DEF Clear, GoTo
    <3>2. PICK r \in Cpus : Covers(r, e)
      BY <3>1, <1>old
    <3> QED
      BY <1>8, <3>1, <3>2 DEF Clear, GoTo
  <2> QED
    BY <2>1, <2>2
<1>9. ASSUME NEW c \in Cpus, NEW d \in Cpus, Tag(c, d) PROVE \E r \in Cpus : Covers(r, e)'
  <2>1. e \in stale /\ pc[e] # "switch"
    BY <1>9 DEF Tag, GoTo
  <2>2. PICK r \in Cpus : Covers(r, e)
    BY <2>1, <1>old
  <2> QED
    BY <1>9, <2>1, <2>2 DEF Tag, GoTo
<1>10. ASSUME NEW c \in Cpus, UnlockMdb(c) PROVE \E r \in Cpus : Covers(r, e)'
  <2>1. e \in stale /\ pc[e] # "switch"
    BY <1>10 DEF UnlockMdb, GoTo, FlushTlb
  <2>2. PICK r \in Cpus : Covers(r, e)
    BY <2>1, <1>old
  <2>3. CASE r = c /\ op[c].large
    <3>1. op[c].from \subseteq {cr3[c]}
      BY <1>10, <2>3 DEF UnlockMdb, GoTo, FlushTlb, LargeNotGiven
    <3> QED
      BY SMTT(30), <1>10, <2>1, <2>2, <2>3, <3>1 DEF UnlockMdb, GoTo, FlushTlb
  <2>4. CASE ~(r = c /\ op[c].large)
    BY <1>10, <2>1, <2>2, <2>4 DEF UnlockMdb, GoTo, FlushTlb
  <2> QED
    BY <2>3, <2>4
<1>11. ASSUME NEW c \in Cpus, NEW d \in Cpus, Request(c, d) PROVE \E r \in Cpus : Covers(r, e)'
  <2>1. e \in stale /\ pc[e] # "switch"
    BY <1>11 DEF Request, GoTo
  <2>2. PICK r \in Cpus : Covers(r, e)
    BY <2>1, <1>old
  <2> QED
    BY <1>11, <2>1, <2>2 DEF Request, GoTo
<1>12. ASSUME NEW c \in Cpus, Poll(c) PROVE \E r \in Cpus : Covers(r, e)'
  <2>1. e \in stale /\ pc[e] # "switch"
    BY <1>12 DEF Poll, GoTo
  <2>2. PICK r \in Cpus : Covers(r, e)
    BY <2>1, <1>old
  <2> QED
    BY SMTT(30), <1>12, <2>1, <2>2 DEF Poll, GoTo
<1>13. ASSUME NEW c \in Cpus, Return(c) PROVE \E r \in Cpus : Covers(r, e)'
  <2>1. e \in stale /\ pc[e] # "switch"
    BY <1>13 DEF Return, GoTo
  <2>2. PICK r \in Cpus : Covers(r, e)
    BY <2>1, <1>old
  <2> QED
    BY <1>13, <2>1, <2>2 DEF Return, GoTo
<1>14. ASSUME NEW c \in Cpus, Interrupt(c) PROVE \E r \in Cpus : Covers(r, e)'
  <2>1. e \in stale /\ pc[e] # "switch"
    BY <1>14 DEF Interrupt, GoTo
  <2>2. PICK r \in Cpus : Covers(r, e)
    BY <2>1, <1>old
  <2> QED
    BY <1>14, <2>1, <2>2 DEF Interrupt, GoTo
<1>15. ASSUME NEW c \in Cpus, NEW a \in Cpus, Handle(c, a) PROVE \E r \in Cpus : Covers(r, e)'
  <2>1. e \in stale /\ pc[e] # "switch"
    BY <1>15 DEF Handle, FlushTlb
  <2>2. PICK r \in Cpus : Covers(r, e)
    BY <2>1, <1>old
  <2> QED
    BY <1>15, <2>1, <2>2 DEF Handle, FlushTlb
<1>16. ASSUME NEW c \in Cpus, ClearPending(c) PROVE \E r \in Cpus : Covers(r, e)'
  <2>1. e \in stale /\ pc[e] # "switch"
    BY <1>16 DEF ClearPending
  <2>2. PICK r \in Cpus : Covers(r, e)
    BY <2>1, <1>old
  <2> QED
    BY <1>16, <2>1, <2>2 DEF ClearPending
<1>17. ASSUME NEW c \in Cpus, Ack(c) PROVE \E r \in Cpus : Covers(r, e)'
  <2>1. e \in stale /\ pc[e] # "switch"
    BY <1>17 DEF Ack
  <2>2. PICK r \in Cpus : Covers(r, e)
    BY <2>1, <1>old
  <2> QED
    BY <1>17, <2>1, <2>2 DEF Ack
<1>18. ASSUME NEW c \in Cpus, Served(c) PROVE \E r \in Cpus : Covers(r, e)'
  <2>1. e \in stale /\ pc[e] # "switch"
    BY <1>18 DEF Served, GoTo
  <2>2. PICK r \in Cpus : Covers(r, e)
    BY <2>1, <1>old
  <2>3. pc' = [pc EXCEPT ![c] = IF pc[c] = "ipi" THEN "user" ELSE pc[c]]
    BY <1>18 DEF Served, GoTo
  <2>4. pc[r] # "ipi" => pc'[r] = pc[r]
    BY <2>3
  <2> QED
    BY <1>18, <2>1, <2>2, <2>3, <2>4 DEF Served
<1>19. CASE UNCHANGED vars
  BY <1>19, <1>old DEF vars
<1> QED
  BY <1>1, <1>2, <1>3, <1>4, <1>5, <1>6, <1>7, <1>8, <1>9, <1>10, <1>11, <1>12, <1>13, <1>14,
     <1>15, <1>16, <1>17, <1>18, <1>19
     DEF Next, Kernel

-----------------------------------------------------------------------------
(* Theorems                                                                  *)

\* A processor polls for the request that is outstanding, and stays in the
\* address space it revokes in.
THEOREM RequestsMatched == Spec => [](OneRequest /\ Announced /\ OpRuns)
<1>1. Init => OneRequest /\ Announced /\ OpRuns
  BY DEF Init, OneRequest, Outstanding, Announced, OpRuns, Revoking
<1>2. TypeOK /\ OneRequest /\ Announced /\ OpRuns /\ [Next]_vars
          => (OneRequest /\ Announced /\ OpRuns)'
  BY OneRequestStep, AnnouncedStep, OpRunsStep
<1> QED
  BY <1>1, <1>2, TypeCorrect, PTL DEF Spec

\* A processor that ends its poll has been answered: xcpu_request and the handler
\* on the other processor have both done with the entry (api/v4/smp.cc).
THEOREM AckFresh == Spec => []AckIsFresh
<1>1. OneRequest => AckIsFresh
  BY DEF OneRequest, Outstanding, AckIsFresh
<1> QED
  BY <1>1, RequestsMatched, PTL

\* No processor goes on using a revoked entry after mdb_flush has returned, as
\* long as only fpages that were given to nobody are revoked as large ones.
THEOREM NoStale == ASSUME LargeNotGiven PROVE Spec => []NoStaleEntry
<1>1. Init => FlushInv
  BY DEF Init, FlushInv, OneRequest, Outstanding, Announced, OpRuns, Revoking, Covered
<1>2. TypeOK /\ FlushInv /\ [Next]_vars => FlushInv'
  BY LargeNotGiven, OneRequestStep, AnnouncedStep, OpRunsStep, CoveredStep DEF FlushInv
<1>3. TypeOK /\ FlushInv => NoStaleEntry
  <2> SUFFICES ASSUME TypeOK, FlushInv, NEW c \in stale, pc[c] # "switch"
               PROVE  \E d \in Cpus : op[d] # null /\ cr3[c] \in op[d].from
    BY DEF NoStaleEntry
  <2>1. PICK r \in Cpus : Covers(r, c)
    BY DEF FlushInv, Covered
  <2>2. op[r] # null /\ cr3[c] \in op[r].from
    BY <2>1, TlbAssumption DEF Covers, FlushInv, OpRuns
  <2> QED
    BY <2>2
<1> QED
  BY <1>1, <1>2, <1>3, TypeCorrect, PTL DEF Spec

-----------------------------------------------------------------------------
(* The mapping database: a list with its depths is a forest                 *)

\* In the list q with depths dep, position k is derived from position j: all that
\* stands between is deeper than j, and so is k.
Spans(q, dep, j, k) == j < k /\ \A i \in (j + 1)..k : dep[q[i]] > dep[q[j]]
\* The member at position k stands where its origin says.
Stands(q, dep, org, k) ==
    IF org[q[k]] = sigma0 THEN dep[q[k]] = 1
    ELSE \E j \in 1..(k - 1) :
             Spans(q, dep, j, k) /\ org[q[k]] = q[j] /\ dep[q[k]] = dep[q[j]] + 1
\* The members of q with depths dep stand in the order of the derivations org.
Forest(q, dep, org) ==
    /\ q \in Seq(Places) /\ Distinct(q)
    /\ \A k \in 1..Len(q) : dep[q[k]] \in Nat \ {0} /\ Stands(q, dep, org, k)

\* The depths and origins of the members are all that matters.
LEMMA ForestSame ==
    ASSUME NEW q, NEW dep, NEW org, Forest(q, dep, org), NEW dep2, NEW org2,
           \A k \in 1..Len(q) : dep2[q[k]] = dep[q[k]] /\ org2[q[k]] = org[q[k]]
    PROVE  Forest(q, dep2, org2)
<1>1. Len(q) \in Nat
  BY DEF Forest
<1>2. ASSUME NEW k \in 1..Len(q) PROVE Stands(q, dep2, org2, k)
  <2>1. Stands(q, dep, org, k)
    BY DEF Forest
  <2>2. \A j \in 1..(k - 1) : j \in 1..Len(q) /\ (Spans(q, dep, j, k) => Spans(q, dep2, j, k))
    BY <1>1 DEF Spans
  <2> QED
    BY <1>1, <2>1, <2>2 DEF Stands
<1> QED
  BY <1>2 DEF Forest

\* A member is no deeper than its place.
LEMMA ForestDepth ==
    ASSUME NEW q, NEW dep, NEW org, Forest(q, dep, org)
    PROVE  \A k \in 1..Len(q) : dep[q[k]] <= k
<1> DEFINE T == {k \in 1..Len(q) : dep[q[k]] > k}
<1>1. Len(q) \in Nat /\ \A k \in 1..Len(q) : dep[q[k]] \in Nat /\ Stands(q, dep, org, k)
  BY DEF Forest
<1>2. SUFFICES ASSUME T # {} PROVE FALSE
  BY <1>1
<1>3. PICK k \in T : \A j \in T : k <= j
  <2> T \in SUBSET Nat
    BY <1>1
  <2> HIDE DEF T
  <2> QED
    BY <1>2, LeastIndex
<1>4. k \in 1..Len(q) /\ dep[q[k]] > k
  OBVIOUS
<1>5. dep[q[k]] # 1
  BY <1>1, <1>4
<1>6. PICK j \in 1..(k - 1) : dep[q[k]] = dep[q[j]] + 1
  BY <1>1, <1>4, <1>5 DEF Stands
<1>7. j \in 1..Len(q) /\ dep[q[j]] > j /\ j < k
  BY <1>1, <1>4, <1>6
<1> QED
  BY <1>1, <1>3, <1>4, <1>7

\* The origin of a member is the nearest one before it that is less deep.
LEMMA ForestParent ==
    ASSUME NEW q, NEW dep, NEW org, Forest(q, dep, org), NEW k \in 1..Len(q)
    PROVE  LET shallower == {j \in 1..(k - 1) : dep[q[j]] < dep[q[k]]}
           IN  /\ shallower = {} <=> org[q[k]] = sigma0
               /\ shallower # {} =>
                      q[CHOOSE j \in shallower : \A i \in shallower : i <= j] = org[q[k]]
<1> DEFINE sh == {j \in 1..(k - 1) : dep[q[j]] < dep[q[k]]}
<1>1. Len(q) \in Nat /\ k \in Nat /\ \A i \in 1..Len(q) : dep[q[i]] \in Nat \ {0}
  BY DEF Forest
<1>2. Stands(q, dep, org, k)
  BY DEF Forest
<1>3. CASE org[q[k]] = sigma0
  <2>1. dep[q[k]] = 1
    BY <1>2, <1>3 DEF Stands
  <2>2. \A j \in 1..(k - 1) : j \in 1..Len(q)
    BY <1>1
  <2>3. sh = {}
    BY <1>1, <2>1, <2>2
  <2> QED
    BY <1>3, <2>3
<1>4. CASE org[q[k]] # sigma0
  <2>1. PICK j \in 1..(k - 1) :
            Spans(q, dep, j, k) /\ org[q[k]] = q[j] /\ dep[q[k]] = dep[q[j]] + 1
    BY <1>2, <1>4 DEF Stands
  <2>2. j \in sh
    BY <1>1, <2>1
  <2>3. ASSUME NEW i \in sh PROVE i <= j
    <3>1. i \in 1..Len(q) /\ i \in 1..(k - 1) /\ dep[q[i]] < dep[q[k]]
      BY <1>1
    <3>2. i > j => dep[q[i]] > dep[q[j]]
      BY <1>1, <2>1, <3>1 DEF Spans
    <3> QED
      BY <1>1, <2>1, <3>1, <3>2
  <2>4. (CHOOSE m \in sh : \A i \in sh : i <= m) = j
    <3> DEFINE n == CHOOSE m \in sh : \A i \in sh : i <= m
    <3>1. n \in sh /\ \A i \in sh : i <= n
      BY <2>2, <2>3
    <3>2. n <= j /\ j <= n /\ n \in Nat /\ j \in Nat
      <4>1. \A i \in sh : i \in Nat
        BY <1>1
      <4> HIDE DEF n, sh
      <4> QED
        BY <2>2, <2>3, <3>1, <4>1
    <3>3. n = j
      <4> HIDE DEF n, sh
      <4> QED
        BY <3>2
    <3> QED
      BY <3>3
  <2> QED
    BY <1>4, <2>1, <2>2, <2>4
<1> QED
  BY <1>3, <1>4

\* Where the members of a list come to be when one is inserted behind another.
LEMMA BehindPlaces ==
    ASSUME NEW S, NEW q \in Seq(S), Distinct(q), NEW k \in 1..Len(q), NEW new \in S
    PROVE  /\ InsertBehind(q, q[k], new) \in Seq(S)
           /\ Len(InsertBehind(q, q[k], new)) = Len(q) + 1
           /\ \A i \in 1..k : InsertBehind(q, q[k], new)[i] = q[i]
           /\ InsertBehind(q, q[k], new)[k + 1] = new
           /\ \A i \in (k + 2)..(Len(q) + 1) : InsertBehind(q, q[k], new)[i] = q[i - 1]
<1> DEFINE e == PlaceIn(q, q[k])
           x == SubSeq(q, 1, k)
           y == SubSeq(q, k + 1, Len(q))
           m == x \o <<new>>
<1>1. e = k
  BY DEF PlaceIn, Distinct
<1>2. Len(q) \in Nat /\ k \in Nat /\ k >= 1 /\ k <= Len(q)
  OBVIOUS
<1>3. x \in Seq(S) /\ Len(x) = k /\ \A i \in 1..k : x[i] = q[i]
  BY <1>2
<1>4. y \in Seq(S) /\ Len(y) = Len(q) - k /\ \A i \in 1..(Len(q) - k) : y[i] = q[i + k]
  BY <1>2
<1>5. <<new>> \in Seq(S) /\ Len(<<new>>) = 1 /\ <<new>>[1] = new
  OBVIOUS
<1> HIDE DEF x, y
<1>6. m \in Seq(S) /\ Len(m) = k + 1 /\ (\A i \in 1..k : m[i] = q[i]) /\ m[k + 1] = new
  <2>1. /\ m \in Seq(S) /\ Len(m) = Len(x) + 1
        /\ \A i \in 1..Len(x) : m[i] = x[i]
        /\ m[Len(x) + 1] = new
    BY <1>3
  <2> QED
    BY <1>2, <1>3, <2>1
<1> HIDE DEF m
<1> DEFINE r == m \o y
<1>7. /\ r \in Seq(S) /\ Len(r) = Len(m) + Len(y)
      /\ \A i \in 1..Len(m) : r[i] = m[i]
      /\ \A i \in (Len(m) + 1)..(Len(m) + Len(y)) : r[i] = y[i - Len(m)]
  BY <1>4, <1>6, ConcatPlaces
<1>8. \A i \in (k + 2)..(Len(q) + 1) : r[i] = q[i - 1]
  <2> TAKE i \in (k + 2)..(Len(q) + 1)
  <2>1. i \in (Len(m) + 1)..(Len(m) + Len(y)) /\ i - (k + 1) \in 1..(Len(q) - k)
    BY <1>2, <1>4, <1>6
  <2>2. (i - (k + 1)) + k = i - 1
    BY <1>2, <2>1
  <2> QED
    BY <1>4, <1>6, <1>7, <2>1, <2>2
<1>9. InsertBehind(q, q[k], new) = r
  BY <1>1 DEF InsertBehind, m, x, y
<1> HIDE DEF r
<1> QED
  BY <1>2, <1>4, <1>6, <1>7, <1>8, <1>9

\* Who is in a list with one more behind a member.
LEMMA BehindMembers ==
    ASSUME NEW S, NEW q \in Seq(S), Distinct(q), NEW k \in 1..Len(q), NEW new \in S
    PROVE  \A u : InList(InsertBehind(q, q[k], new), u) <=> InList(q, u) \/ u = new
<1> DEFINE r == InsertBehind(q, q[k], new)
<1>1. Len(q) \in Nat /\ k \in Nat /\ k >= 1 /\ k <= Len(q)
  OBVIOUS
<1>2. Len(r) = Len(q) + 1
  BY BehindPlaces
<1>3. \A i \in 1..k : r[i] = q[i]
  BY BehindPlaces
<1>4. r[k + 1] = new
  BY BehindPlaces
<1>5. \A i \in (k + 2)..(Len(q) + 1) : r[i] = q[i - 1]
  BY BehindPlaces
<1> HIDE DEF r
<1>6. ASSUME NEW i \in 1..(Len(q) + 1) PROVE r[i] = new \/ \E j \in 1..Len(q) : r[i] = q[j]
  <2>1. i \in 1..k \/ i = k + 1 \/ (i \in (k + 2)..(Len(q) + 1) /\ i - 1 \in 1..Len(q))
    BY <1>1
  <2>2. i \in 1..k => i \in 1..Len(q)
    BY <1>1
  <2> QED
    BY <1>3, <1>4, <1>5, <2>1, <2>2
<1>7. ASSUME NEW j \in 1..Len(q) PROVE \E i \in 1..(Len(q) + 1) : r[i] = q[j]
  <2>1. CASE j <= k
    <3>1. j \in 1..k /\ j \in 1..(Len(q) + 1)
      BY <1>1, <2>1
    <3> QED
      BY <1>3, <3>1
  <2>2. CASE j > k
    <3>1. j + 1 \in (k + 2)..(Len(q) + 1) /\ (j + 1) - 1 = j /\ j + 1 \in 1..(Len(q) + 1)
      BY <1>1, <2>2
    <3> QED
      BY <1>5, <3>1
  <2> QED
    BY <1>1, <2>1, <2>2
<1>8. k + 1 \in 1..(Len(q) + 1)
  BY <1>1
<1> QED
  BY <1>2, <1>4, <1>6, <1>7, <1>8 DEF InList, r

\* A mapping is inserted behind its origin, one deeper.
LEMMA ForestInsert ==
    ASSUME NEW q, NEW dep, NEW org, Forest(q, dep, org), NEW k \in 1..Len(q),
           NEW new \in Places, ~InList(q, new), NEW dep2, NEW org2,
           \A i \in 1..Len(q) : dep2[q[i]] = dep[q[i]] /\ org2[q[i]] = org[q[i]],
           dep2[new] = dep[q[k]] + 1, org2[new] = q[k]
    PROVE  Forest(InsertBehind(q, q[k], new), dep2, org2)
<1> DEFINE r == InsertBehind(q, q[k], new)
           n == Len(q)
<1>1. /\ q \in Seq(Places) /\ Distinct(q) /\ n \in Nat /\ k \in Nat /\ k >= 1 /\ k <= n
      /\ \A i \in 1..n : q[i] \in Places /\ q[i] # new
  BY DEF Forest, InList
<1>2. /\ r \in Seq(Places) /\ Len(r) = n + 1
      /\ \A i \in 1..k : r[i] = q[i]
      /\ r[k + 1] = new
      /\ \A i \in (k + 2)..(n + 1) : r[i] = q[i - 1]
  <2>1. q \in Seq(Places) /\ Distinct(q) /\ k \in 1..Len(q) /\ new \in Places
    BY <1>1
  <2>2. InsertBehind(q, q[k], new) \in Seq(Places)
    BY <2>1, BehindPlaces
  <2>3. Len(InsertBehind(q, q[k], new)) = Len(q) + 1
    BY <2>1, BehindPlaces
  <2>4. \A i \in 1..k : InsertBehind(q, q[k], new)[i] = q[i]
    BY <2>1, BehindPlaces
  <2>5. InsertBehind(q, q[k], new)[k + 1] = new
    BY <2>1, BehindPlaces
  <2>6. \A i \in (k + 2)..(Len(q) + 1) : InsertBehind(q, q[k], new)[i] = q[i - 1]
    BY <2>1, BehindPlaces
  <2> QED
    BY <2>2, <2>3, <2>4, <2>5, <2>6
<1> HIDE DEF r
<1>3. Forest(q, dep2, org2)
  BY ForestSame
<1>4. \A i \in 1..n : dep2[q[i]] \in Nat \ {0} /\ Stands(q, dep2, org2, i)
  BY <1>3 DEF Forest
<1>5. \A i \in 1..(n + 1) : i \in 1..k \/ i = k + 1 \/ (i \in (k + 2)..(n + 1) /\ i - 1 \in (k + 1)..n)
  BY <1>1
<1>6. Distinct(r)
  <2> SUFFICES ASSUME NEW i \in 1..(n + 1), NEW j \in 1..(n + 1), r[i] = r[j], i < j
               PROVE  FALSE
    BY <1>1, <1>2 DEF Distinct
  <2>1. CASE j <= k
    <3>1. i \in 1..k /\ j \in 1..k /\ i \in 1..n /\ j \in 1..n /\ i # j
      BY <1>1, <2>1
    <3>2. q[i] = q[j]
      BY <1>2, <3>1
    <3> QED
      BY <1>1, <3>1, <3>2 DEF Distinct
  <2>2. CASE i = k + 1
    <3>1. j \in (k + 2)..(n + 1) /\ j - 1 \in 1..n
      BY <1>1, <2>2
    <3> QED
      BY <1>1, <1>2, <2>2, <3>1
  <2>3. CASE j = k + 1
    <3>1. i \in 1..k /\ i \in 1..n
      BY <1>1, <2>3
    <3> QED
      BY <1>1, <1>2, <2>3, <3>1
  <2>4. CASE i <= k /\ j > k + 1
    <3>1. i \in 1..k /\ i \in 1..n /\ j \in (k + 2)..(n + 1) /\ j - 1 \in 1..n /\ j - 1 # i
      BY <1>1, <2>4
    <3> QED
      BY <1>1, <1>2, <3>1 DEF Distinct
  <2>5. CASE i > k + 1
    <3>1. /\ i \in (k + 2)..(n + 1) /\ j \in (k + 2)..(n + 1)
          /\ i - 1 \in 1..n /\ j - 1 \in 1..n /\ j - 1 # i - 1
      BY <1>1, <2>5
    <3> QED
      BY <1>1, <1>2, <3>1 DEF Distinct
  <2> QED
    BY <1>1, <2>1, <2>2, <2>3, <2>4, <2>5
<1>7. ASSUME NEW i \in 1..(n + 1) PROVE dep2[r[i]] \in Nat \ {0} /\ Stands(r, dep2, org2, i)
  <2>1. CASE i \in 1..k
    <3>1. r[i] = q[i] /\ i \in 1..n /\ i \in Nat
      BY <1>1, <1>2, <2>1
    <3>2. \A j \in 1..(i - 1) : r[j] = q[j] /\ (Spans(q, dep2, j, i) => Spans(r, dep2, j, i))
      BY <1>1, <1>2, <2>1 DEF Spans
    <3>3. dep2[q[i]] \in Nat \ {0} /\ Stands(q, dep2, org2, i)
      BY <1>4, <3>1
    <3>4. Stands(r, dep2, org2, i)
      BY <3>1, <3>2, <3>3 DEF Stands
    <3> QED
      BY <3>1, <3>3, <3>4
  <2>2. CASE i = k + 1
    <3>1. k \in 1..n /\ r[i] = new /\ r[k] = q[k] /\ dep2[q[k]] = dep[q[k]] /\ dep2[q[k]] \in Nat \ {0}
      BY <1>1, <1>2, <1>4, <2>2
    <3>2. \A j \in (k + 1)..i : j = i
      BY <1>1, <2>2
    <3>3. Spans(r, dep2, k, i)
      BY <1>1, <2>2, <3>1, <3>2 DEF Spans
    <3>4. q[k] # sigma0
      BY <1>1, MdbAssumption
    <3>5. k \in 1..(i - 1)
      BY <1>1, <2>2
    <3> QED
      BY <3>1, <3>3, <3>4, <3>5 DEF Stands
  <2>3. CASE i \in (k + 2)..(n + 1)
    <3> DEFINE h == i - 1
    <3>1. h \in 1..n /\ h > k /\ r[i] = q[h] /\ i = h + 1 /\ i \in Nat
      BY <1>1, <1>2, <2>3
    <3>2. Stands(q, dep2, org2, h) /\ dep2[q[h]] \in Nat \ {0}
      BY <1>4, <3>1
    <3> HIDE DEF h
    <3>3. CASE org2[q[h]] = sigma0
      BY <3>1, <3>2, <3>3 DEF Stands
    <3>4. CASE org2[q[h]] # sigma0
      <4>1. PICK j \in 1..(h - 1) :
                Spans(q, dep2, j, h) /\ org2[q[h]] = q[j] /\ dep2[q[h]] = dep2[q[j]] + 1
        BY <3>2, <3>4 DEF Stands
      <4>2. j \in 1..n /\ j < h /\ \A m \in (j + 1)..h : dep2[q[m]] > dep2[q[j]]
        BY <1>1, <3>1, <4>1 DEF Spans
      <4>3. CASE j <= k
        <5>1. r[j] = q[j] /\ j \in 1..(i - 1)
          BY <1>1, <1>2, <3>1, <4>2, <4>3
        <5>2. ASSUME NEW m \in (j + 1)..i PROVE dep2[r[m]] > dep2[r[j]]
          <6>1. CASE m \in 1..k
            BY <1>1, <1>2, <3>1, <4>2, <5>1, <6>1
          <6>2. CASE m = k + 1
            <7>1. dep2[r[m]] = dep2[q[k]] + 1 /\ dep2[q[k]] \in Nat /\ dep2[q[j]] \in Nat
              BY <1>1, <1>2, <1>4, <4>2, <6>2
            <7>2. j = k \/ k \in (j + 1)..h
              BY <1>1, <3>1, <4>2, <4>3
            <7> QED
              BY <4>2, <5>1, <7>1, <7>2
          <6>3. CASE m \in (k + 2)..(n + 1)
            <7>1. r[m] = q[m - 1] /\ m - 1 \in (j + 1)..h
              BY <1>1, <1>2, <3>1, <4>2, <4>3, <5>2, <6>3
            <7> QED
              BY <4>2, <5>1, <7>1
          <6>4. m \in 1..(n + 1)
            BY <1>1, <3>1, <4>2, <5>2
          <6> QED
            BY <1>5, <6>1, <6>2, <6>3, <6>4
        <5>3. Spans(r, dep2, j, i)
          BY <1>1, <3>1, <4>2, <5>2 DEF Spans
        <5> QED
          BY <3>1, <3>2, <3>4, <4>1, <5>1, <5>3 DEF Stands
      <4>4. CASE j > k
        <5>1. j + 1 \in (k + 2)..(n + 1) /\ (j + 1) - 1 = j /\ j + 1 \in 1..(i - 1)
          BY <1>1, <3>1, <4>2, <4>4
        <5>2. r[j + 1] = q[j]
          BY <1>2, <5>1
        <5>3. ASSUME NEW m \in ((j + 1) + 1)..i PROVE dep2[r[m]] > dep2[r[j + 1]]
          <6>1. m \in (k + 2)..(n + 1) /\ m - 1 \in (j + 1)..h
            BY <1>1, <3>1, <4>2, <4>4
          <6> QED
            BY <1>2, <4>2, <5>2, <6>1
        <5>4. Spans(r, dep2, j + 1, i)
          BY <1>1, <3>1, <4>2, <5>3 DEF Spans
        <5> QED
          BY <3>1, <3>2, <3>4, <4>1, <5>1, <5>2, <5>4 DEF Stands
      <4> QED
        BY <1>1, <4>2, <4>3, <4>4
    <3> QED
      BY <3>3, <3>4
  <2> QED
    BY <1>5, <2>1, <2>2, <2>3
<1> QED
  BY <1>2, <1>6, <1>7 DEF Forest, r

\* A mapping from the root of a list is its first member.
LEMMA ForestHead ==
    ASSUME NEW q, NEW dep, NEW org, Forest(q, dep, org), NEW new \in Places, ~InList(q, new),
           NEW dep2, NEW org2,
           \A i \in 1..Len(q) : dep2[q[i]] = dep[q[i]] /\ org2[q[i]] = org[q[i]],
           dep2[new] = 1, org2[new] = sigma0
    PROVE  Forest(EnqueueHead(q, new), dep2, org2)
<1> DEFINE r == <<new>> \o q
           n == Len(q)
<1>1. q \in Seq(Places) /\ Distinct(q) /\ n \in Nat
  BY DEF Forest
<1>2. EnqueueHead(q, new) = r /\ r \in Seq(Places) /\ Distinct(r)
  BY <1>1, HeadDistinct, HeadMembers DEF EnqueueHead
<1>3. Len(r) = n + 1 /\ r[1] = new /\ \A i \in 2..(n + 1) : r[i] = q[i - 1]
  BY <1>1
<1> HIDE DEF r
<1>4. Forest(q, dep2, org2)
  BY ForestSame
<1>5. \A i \in 1..n : dep2[q[i]] \in Nat \ {0} /\ Stands(q, dep2, org2, i)
  BY <1>4 DEF Forest
<1>6. ASSUME NEW i \in 1..(n + 1) PROVE dep2[r[i]] \in Nat \ {0} /\ Stands(r, dep2, org2, i)
  <2>1. CASE i = 1
    BY <1>3, <2>1 DEF Stands
  <2>2. CASE i # 1
    <3> DEFINE h == i - 1
    <3>1. h \in 1..n /\ i \in 2..(n + 1) /\ r[i] = q[h] /\ i = h + 1
      BY <1>1, <1>3, <2>2
    <3>2. Stands(q, dep2, org2, h) /\ dep2[q[h]] \in Nat \ {0}
      BY <1>5, <3>1
    <3> HIDE DEF h
    <3>3. CASE org2[q[h]] = sigma0
      BY <3>1, <3>2, <3>3 DEF Stands
    <3>4. CASE org2[q[h]] # sigma0
      <4>1. PICK j \in 1..(h - 1) :
                Spans(q, dep2, j, h) /\ org2[q[h]] = q[j] /\ dep2[q[h]] = dep2[q[j]] + 1
        BY <3>2, <3>4 DEF Stands
      <4>2. j \in 1..n /\ j < h /\ \A m \in (j + 1)..h : dep2[q[m]] > dep2[q[j]]
        BY <1>1, <3>1, <4>1 DEF Spans
      <4>3. j + 1 \in 2..(n + 1) /\ (j + 1) - 1 = j /\ j + 1 \in 1..(i - 1)
        BY <1>1, <3>1, <4>2
      <4>4. r[j + 1] = q[j]
        BY <1>3, <4>3
      <4>5. ASSUME NEW m \in ((j + 1) + 1)..i PROVE dep2[r[m]] > dep2[r[j + 1]]
        <5>1. m \in 2..(n + 1) /\ m - 1 \in (j + 1)..h
          BY <1>1, <3>1, <4>2
        <5> QED
          BY <1>3, <4>2, <4>4, <5>1
      <4>6. Spans(r, dep2, j + 1, i)
        BY <1>1, <3>1, <4>2, <4>5 DEF Spans
      <4> QED
        BY <3>1, <3>2, <3>4, <4>1, <4>3, <4>4, <4>6 DEF Stands
    <3> QED
      BY <3>3, <3>4
  <2> QED
    BY <2>1, <2>2
<1> QED
  BY <1>2, <1>3, <1>6 DEF Forest

\* q without n of its members from position s on.
Cut(q, s, n) == [i \in 1..(Len(q) - n) |-> q[IF i < s THEN i ELSE i + n]]

\* Where the rest stands.
LEMMA CutPlaces ==
    ASSUME NEW S, NEW q \in Seq(S), NEW s \in 1..(Len(q) + 1), NEW n \in 0..((Len(q) + 1) - s)
    PROVE  /\ Cut(q, s, n) \in Seq(S) /\ Len(Cut(q, s, n)) = Len(q) - n /\ Len(q) - n \in Nat
           /\ \A i \in 1..(Len(q) - n) :
                  /\ i < s => i \in 1..Len(q) /\ Cut(q, s, n)[i] = q[i]
                  /\ i >= s => i + n \in 1..Len(q) /\ Cut(q, s, n)[i] = q[i + n]
           /\ \A u : InList(Cut(q, s, n), u) <=>
                         \E i \in 1..Len(q) : (i < s \/ i >= s + n) /\ q[i] = u
           /\ Distinct(q) => Distinct(Cut(q, s, n))
<1> DEFINE r == Cut(q, s, n)
           l == Len(q) - n
<1>1. Len(q) \in Nat /\ s \in Nat /\ n \in Nat /\ l \in Nat /\ s >= 1 /\ s + n <= Len(q) + 1
  OBVIOUS
<1>2. \A i \in 1..l : (IF i < s THEN i ELSE i + n) \in 1..Len(q)
  BY <1>1
<1>3. r \in [1..l -> S]
  BY <1>2 DEF Cut
<1>4. r \in Seq(S) /\ Len(r) = l
  <2> HIDE DEF l, r
  <2> QED
    BY <1>1, <1>3
<1>5. \A i \in 1..l : /\ i < s => i \in 1..Len(q) /\ r[i] = q[i]
                      /\ i >= s => i + n \in 1..Len(q) /\ r[i] = q[i + n]
  BY <1>1, <1>2 DEF Cut
<1> HIDE DEF r
<1>6. ASSUME NEW u, InList(r, u) PROVE \E i \in 1..Len(q) : (i < s \/ i >= s + n) /\ q[i] = u
  <2>1. PICK i \in 1..l : r[i] = u
    BY <1>4, <1>6 DEF InList
  <2>2. CASE i < s
    BY <1>5, <2>1, <2>2
  <2>3. CASE i >= s
    <3>1. i + n \in 1..Len(q) /\ i + n >= s + n /\ q[i + n] = u
      BY <1>1, <1>5, <2>1, <2>3
    <3> QED
      BY <3>1
  <2> QED
    BY <1>1, <2>2, <2>3
<1>7. ASSUME NEW u, NEW i \in 1..Len(q), i < s \/ i >= s + n, q[i] = u PROVE InList(r, u)
  <2>1. CASE i < s
    <3>1. i \in 1..l
      BY <1>1, <2>1
    <3> QED
      BY <1>4, <1>5, <1>7, <2>1, <3>1 DEF InList
  <2>2. CASE i >= s + n
    <3>1. i - n \in 1..l /\ i - n >= s /\ (i - n) + n = i
      BY <1>1, <2>2
    <3>2. r[i - n] = u
      BY <1>5, <1>7, <3>1
    <3> QED
      BY <1>4, <3>1, <3>2 DEF InList
  <2> QED
    BY <1>7, <2>1, <2>2
<1>8. Distinct(q) => Distinct(r)
  <2> SUFFICES ASSUME Distinct(q), NEW i \in 1..l, NEW j \in 1..l, r[i] = r[j], i < j PROVE FALSE
    BY <1>1, <1>4 DEF Distinct
  <2>1. CASE j < s
    BY <1>1, <1>5, <2>1 DEF Distinct
  <2>2. CASE i < s /\ j >= s
    <3>1. q[i] = q[j + n] /\ i \in 1..Len(q) /\ j + n \in 1..Len(q) /\ i < j + n
      BY <1>1, <1>5, <2>2
    <3> QED
      BY <3>1 DEF Distinct
  <2>3. CASE i >= s
    <3>1. q[i + n] = q[j + n] /\ i + n \in 1..Len(q) /\ j + n \in 1..Len(q) /\ i + n < j + n
      BY <1>1, <1>5, <2>3
    <3> QED
      BY <3>1 DEF Distinct
  <2> QED
    BY <1>1, <2>1, <2>2, <2>3
<1> QED
  BY <1>1, <1>4, <1>5, <1>6, <1>7, <1>8 DEF r

\* Nothing cut out, and one more.
LEMMA CutStep ==
    ASSUME NEW S, NEW q \in Seq(S), Distinct(q), NEW s \in 1..(Len(q) + 1)
    PROVE  /\ Cut(q, s, 0) = q
           /\ \A n \in 0..(Len(q) - s) :
                  /\ s \in 1..Len(Cut(q, s, n)) /\ Cut(q, s, n)[s] = q[s + n]
                  /\ Without(Cut(q, s, n), q[s + n]) = Cut(q, s, n + 1)
<1>1. Len(q) \in Nat /\ s \in Nat /\ s >= 1
  OBVIOUS
<1>2. Cut(q, s, 0) = q
  <2>1. Len(q) - 0 = Len(q) /\ \A i \in 1..Len(q) : (IF i < s THEN i ELSE i + 0) = i
    BY <1>1
  <2>2. Cut(q, s, 0) = [i \in 1..Len(q) |-> q[i]]
    BY <2>1 DEF Cut
  <2> QED
    BY <2>2
<1>3. ASSUME NEW n \in 0..(Len(q) - s)
      PROVE  /\ s \in 1..Len(Cut(q, s, n)) /\ Cut(q, s, n)[s] = q[s + n]
             /\ Without(Cut(q, s, n), q[s + n]) = Cut(q, s, n + 1)
  <2> DEFINE r == Cut(q, s, n)
             l == Len(q) - n
  <2>1. n \in Nat /\ n \in 0..((Len(q) + 1) - s) /\ n + 1 \in 0..((Len(q) + 1) - s)
        /\ l \in Nat /\ s <= l /\ s \in 1..l
    BY <1>1
  <2>2. /\ r \in Seq(S) /\ Len(r) = l /\ Distinct(r)
        /\ \A i \in 1..l : /\ i < s => r[i] = q[i]
                           /\ i >= s => r[i] = q[i + n]
    BY <2>1, CutPlaces
  <2>3. r[s] = q[s + n]
    BY <1>1, <2>1, <2>2
  <2> HIDE DEF r
  <2> DEFINE w == Without(r, r[s])
  <2>4. Len(w) = l - 1 /\ w \in Seq(S)
        /\ \A j \in 1..(l - 1) : w[j] = r[IF j < s THEN j ELSE j + 1]
    <3>1. s \in 1..Len(r)
      BY <2>1, <2>2
    <3>2. /\ Len(w) = Len(r) - 1
          /\ \A j \in 1..(Len(r) - 1) : w[j] = r[IF j < s THEN j ELSE j + 1]
      BY <2>2, <3>1, WithoutPlaces
    <3>3. w \in Seq(S)
      BY <2>2, WithoutType
    <3> QED
      BY <2>2, <3>2, <3>3
  <2> HIDE DEF w
  <2> DEFINE v == Cut(q, s, n + 1)
  <2>5. /\ v \in Seq(S) /\ Len(v) = Len(q) - (n + 1)
        /\ \A i \in 1..(Len(q) - (n + 1)) : /\ i < s => v[i] = q[i]
                                            /\ i >= s => v[i] = q[i + (n + 1)]
    BY <2>1, CutPlaces
  <2> HIDE DEF v
  <2>6. Len(v) = l - 1 /\ Len(q) - (n + 1) = l - 1
    BY <1>1, <2>1, <2>5
  <2>7. ASSUME NEW j \in 1..(l - 1) PROVE w[j] = v[j]
    <3>1. CASE j < s
      <4>1. j \in 1..l
        BY <2>1
      <4> QED
        BY <2>2, <2>4, <2>5, <2>6, <3>1, <4>1
    <3>2. CASE j >= s
      <4>1. j + 1 \in 1..l /\ j + 1 >= s /\ (j + 1) + n = j + (n + 1) /\ ~(j < s)
        BY <1>1, <2>1, <3>2
      <4>2. w[j] = q[(j + 1) + n]
        BY <2>2, <2>4, <4>1
      <4>3. v[j] = q[j + (n + 1)]
        BY <2>5, <2>6, <3>2
      <4> QED
        BY <4>1, <4>2, <4>3
    <3> QED
      BY <1>1, <2>1, <3>1, <3>2
  <2>8. w = v
    BY <2>4, <2>5, <2>6, <2>7
  <2> QED
    BY <2>1, <2>2, <2>3, <2>8 DEF w, v, r
<1> QED
  BY <1>2, <1>3

\* What is left when all that is derived from the member at position a has gone, with
\* that member or without it.
LEMMA ForestCut ==
    ASSUME NEW q, NEW dep, NEW org, Forest(q, dep, org), NEW a \in 1..Len(q), NEW s \in {a, a + 1},
           NEW b \in (a + 1)..(Len(q) + 1), \A i \in (a + 1)..(b - 1) : dep[q[i]] > dep[q[a]],
           b <= Len(q) => dep[q[b]] <= dep[q[a]]
    PROVE  Forest(Cut(q, s, b - s), dep, org)
<1> DEFINE n == b - s
           l == Len(q) - n
           r == Cut(q, s, n)
           Old(i) == IF i < s THEN i ELSE i + n
<1>1. q \in Seq(Places) /\ Distinct(q) /\ \A i \in 1..Len(q) : dep[q[i]] \in Nat \ {0} /\ Stands(q, dep, org, i)
  BY DEF Forest
<1>2. /\ Len(q) \in Nat /\ a \in Nat /\ b \in Nat /\ s \in Nat /\ a >= 1 /\ s >= a /\ s <= b
      /\ b <= Len(q) + 1 /\ s \in 1..(Len(q) + 1) /\ n \in 0..((Len(q) + 1) - s) /\ s + n = b /\ n \in Nat
      /\ l \in Nat /\ l = Len(q) - n /\ b > a
  BY <1>1
<1>3. /\ r \in Seq(Places) /\ Len(r) = l /\ Distinct(r)
      /\ \A i \in 1..l : /\ i < s => i \in 1..Len(q) /\ r[i] = q[i]
                         /\ i >= s => i + n \in 1..Len(q) /\ r[i] = q[i + n]
  <2> HIDE DEF n
  <2>1. q \in Seq(Places) /\ s \in 1..(Len(q) + 1) /\ n \in 0..((Len(q) + 1) - s) /\ Distinct(q)
    BY <1>1, <1>2
  <2>2. r \in Seq(Places) /\ Len(r) = Len(q) - n /\ Distinct(r)
    BY <2>1, CutPlaces
  <2>3. \A i \in 1..(Len(q) - n) : /\ i < s => i \in 1..Len(q) /\ r[i] = q[i]
                                   /\ i >= s => i + n \in 1..Len(q) /\ r[i] = q[i + n]
    BY <2>1, CutPlaces
  <2> QED
    BY <2>2, <2>3
<1> HIDE DEF r, n, l
<1>4. ASSUME NEW i \in 1..l
      PROVE  Old(i) \in 1..Len(q) /\ r[i] = q[Old(i)] /\ (Old(i) < s \/ Old(i) >= b) /\ Old(i) >= i
  <2>1. CASE i < s
    <3>1. i \in 1..Len(q) /\ r[i] = q[i] /\ Old(i) = i
      BY <1>3, <2>1
    <3> QED
      BY <2>1, <3>1
  <2>2. CASE i >= s
    <3>1. i + n \in 1..Len(q) /\ r[i] = q[i + n] /\ Old(i) = i + n
      BY <1>2, <1>3, <2>2
    <3> QED
      BY <1>2, <2>2, <3>1
  <2> QED
    BY <1>2, <2>1, <2>2
<1>5. ASSUME NEW k \in 1..l PROVE dep[r[k]] \in Nat \ {0} /\ Stands(r, dep, org, k)
  <2>1. Old(k) \in 1..Len(q) /\ r[k] = q[Old(k)]
    BY <1>4
  <2>2. dep[q[Old(k)]] \in Nat \ {0} /\ Stands(q, dep, org, Old(k))
    BY <1>1, <2>1
  <2>3. CASE org[q[Old(k)]] = sigma0
    BY <2>1, <2>2, <2>3 DEF Stands
  <2>4. CASE org[q[Old(k)]] # sigma0
    <3>1. PICK j \in 1..(Old(k) - 1) : /\ Spans(q, dep, j, Old(k)) /\ org[q[Old(k)]] = q[j]
                                       /\ dep[q[Old(k)]] = dep[q[j]] + 1
      <4> HIDE DEF Old
      <4> QED
        BY <2>2, <2>4 DEF Stands
    <3>2. j \in 1..Len(q) /\ j < Old(k) /\ \A i \in (j + 1)..Old(k) : dep[q[i]] > dep[q[j]]
      <4> HIDE DEF Old
      <4> QED
        BY <1>2, <2>1, <3>1 DEF Spans
    <3>3. j < s \/ j >= b
      <4>1. SUFFICES ASSUME j >= s, j < b PROVE FALSE
        BY <1>2, <3>2
      <4>2. Old(k) >= b
        BY <1>2, <1>4, <3>2, <4>1
      <4>3. b \in (j + 1)..Old(k) /\ b \in 1..Len(q)
        BY <1>2, <2>1, <3>2, <4>1, <4>2
      <4>4. dep[q[b]] > dep[q[j]]
        BY <3>2, <4>3
      <4>5. j = a \/ j \in (a + 1)..(b - 1)
        BY <1>2, <3>2, <4>1
      <4>6. dep[q[j]] >= dep[q[a]] /\ dep[q[j]] \in Nat /\ dep[q[a]] \in Nat /\ dep[q[b]] \in Nat
        BY <1>1, <3>2, <4>3, <4>5
      <4>7. dep[q[b]] <= dep[q[a]]
        BY <1>2, <4>3
      <4> QED
        BY <4>4, <4>6, <4>7
    <3>4. PICK h \in 1..l : Old(h) = j
      <4>1. CASE j < s
        BY <1>2, <3>2, <4>1
      <4>2. CASE j >= b
        <5>1. j - n \in 1..l /\ j - n >= s /\ Old(j - n) = j
          BY <1>2, <3>2, <4>2
        <5> QED
          BY <5>1
      <4> QED
        BY <3>3, <4>1, <4>2
    <3>5. h < k
      BY <1>2, <3>2, <3>4
    <3>6. r[h] = q[j]
      BY <1>4, <3>4
    <3>7. ASSUME NEW i \in (h + 1)..k PROVE dep[r[i]] > dep[r[h]]
      <4>1. i \in 1..l /\ Old(i) \in (j + 1)..Old(k)
        BY <1>2, <3>2, <3>4
      <4>2. r[i] = q[Old(i)]
        BY <1>4, <4>1
      <4> QED
        BY <3>2, <3>6, <4>1, <4>2
    <3>8. Spans(r, dep, h, k) /\ h \in 1..(k - 1)
      BY <1>2, <3>5, <3>7 DEF Spans
    <3>9. org[r[k]] # sigma0 /\ org[r[k]] = r[h] /\ dep[r[k]] = dep[r[h]] + 1
      BY <2>1, <2>4, <3>1, <3>6
    <3> QED
      BY <2>1, <2>2, <3>8, <3>9 DEF Stands
  <2> QED
    BY <2>3, <2>4
<1> QED
  BY <1>3, <1>5 DEF Forest, r, n

\* Spans is transitive, and what spans a member spans its origin or is it.
LEMMA SpansParent ==
    ASSUME NEW q, NEW dep, NEW org, Forest(q, dep, org), NEW k \in 1..Len(q), NEW j \in 1..(k - 1),
           Spans(q, dep, j, k), dep[q[k]] = dep[q[j]] + 1, NEW i \in 1..Len(q)
    PROVE  Spans(q, dep, i, k) <=> i = j \/ Spans(q, dep, i, j)
<1>1. Len(q) \in Nat /\ k \in Nat /\ j \in 1..Len(q) /\ j < k /\ \A m \in 1..Len(q) : dep[q[m]] \in Nat
  BY DEF Forest
<1>2. \A m \in (j + 1)..k : m \in 1..Len(q) /\ dep[q[m]] > dep[q[j]]
  BY <1>1 DEF Spans
<1>3. CASE i < j
  <2>1. ASSUME Spans(q, dep, i, k) PROVE Spans(q, dep, i, j)
    BY <1>1, <1>3, <2>1 DEF Spans
  <2>2. ASSUME Spans(q, dep, i, j), NEW m \in (i + 1)..k PROVE dep[q[m]] > dep[q[i]]
    <3>1. CASE m \in (i + 1)..j
      BY <2>2, <3>1 DEF Spans
    <3>2. CASE m \in (j + 1)..k
      <4>1. j \in (i + 1)..j
        BY <1>1, <1>3
      <4>2. dep[q[j]] > dep[q[i]] /\ dep[q[m]] > dep[q[j]]
        BY <1>2, <2>2, <3>2, <4>1 DEF Spans
      <4> QED
        BY <1>1, <1>2, <3>2, <4>2
    <3> QED
      BY <1>1, <1>3, <3>1, <3>2
  <2> QED
    BY <1>1, <1>3, <2>1, <2>2 DEF Spans
<1>4. CASE i > j
  <2>1. ~Spans(q, dep, i, j)
    BY <1>1, <1>4 DEF Spans
  <2>2. ASSUME Spans(q, dep, i, k) PROVE FALSE
    <3>1. i < k /\ k \in (i + 1)..k
      BY <1>1, <2>2 DEF Spans
    <3>2. dep[q[k]] > dep[q[i]] /\ dep[q[i]] > dep[q[j]]
      BY <1>1, <1>2, <1>4, <2>2, <3>1 DEF Spans
    <3> QED
      BY <1>1, <3>2
  <2> QED
    BY <1>1, <1>4, <2>1, <2>2
<1> QED
  BY <1>1, <1>3, <1>4

-----------------------------------------------------------------------------
(* The lists of a page and of its pieces, and the derivations they stand for *)

Chains == 0..Pieces
\* The list a place belongs to.
Home(p) == IF p \in Big THEN Pieces ELSE PieceOf[p]
Family(F, dep, org) ==
    /\ DOMAIN F = Chains
    /\ \A i \in Chains : Forest(F[i], dep, org) /\ \A k \in 1..Len(F[i]) : Home(F[i][k]) = i
TreeOf(F, org) == [p \in Places |-> IF InList(F[Home(p)], p) THEN org[p] ELSE nil]

\* Every place has its list: the pages have one, and each piece has one.
LEMMA HomeChain == \A p \in Places : Home(p) \in Chains /\ (p \in Big <=> Home(p) = Pieces)
<1> TAKE p \in Places
<1>1. CASE p \in Big
  BY <1>1, MdbAssumption DEF Home, Chains
<1>2. CASE p \notin Big
  <2>1. p \in Small /\ PieceOf[p] \in 0..(Pieces - 1)
    BY <1>2, MdbAssumption DEF Small, Indices
  <2>2. Home(p) = PieceOf[p]
    BY <1>2 DEF Home
  <2> QED
    BY <1>2, <2>1, <2>2, MdbAssumption DEF Chains
<1> QED
  BY <1>1, <1>2

\* Whoever can be found above p in its list.
AboveIn(F, dep) ==
    [p \in Places |-> {u \in Places :
        \E j, k \in 1..Len(F[Home(p)]) :
            F[Home(p)][k] = p /\ F[Home(p)][j] = u /\ Spans(F[Home(p)], dep, j, k)}]
AboveEquation(A, par) ==
    \A p \in Places : A[p] = IF par[p] \in Places THEN {par[p]} \cup A[par[p]] ELSE {}

\* That is what the ancestors are defined to be.
LEMMA AboveRecursive ==
    ASSUME NEW F, NEW dep, NEW org, Family(F, dep, org)
    PROVE  /\ AboveEquation(AboveIn(F, dep), TreeOf(F, org))
           /\ \A p \in Places : TreeOf(F, org)[p] \in Places =>
                  dep[p] \in Nat /\ dep[TreeOf(F, org)[p]] \in Nat /\ dep[TreeOf(F, org)[p]] < dep[p]
<1> DEFINE A == AboveIn(F, dep)
           par == TreeOf(F, org)
<1> SUFFICES ASSUME NEW p \in Places
             PROVE  /\ A[p] = IF par[p] \in Places THEN {par[p]} \cup A[par[p]] ELSE {}
                    /\ par[p] \in Places => dep[p] \in Nat /\ dep[par[p]] \in Nat /\ dep[par[p]] < dep[p]
  BY DEF AboveEquation
<1> DEFINE h == Home(p)
           q == F[h]
<1>1. h \in Chains /\ Forest(q, dep, org) /\ \A k \in 1..Len(q) : Home(q[k]) = h
  BY HomeChain DEF Family
<1>2. q \in Seq(Places) /\ Distinct(q) /\ Len(q) \in Nat
  BY <1>1 DEF Forest
<1>3. A[p] = {u \in Places : \E j, k \in 1..Len(q) : q[k] = p /\ q[j] = u /\ Spans(q, dep, j, k)}
  BY DEF AboveIn
<1>4. par[p] = IF InList(q, p) THEN org[p] ELSE nil
  BY DEF TreeOf
<1>5. CASE ~InList(q, p)
  <2>1. par[p] = nil /\ nil \notin Places
    BY <1>4, <1>5, MdbAssumption
  <2>2. A[p] = {}
    BY <1>3, <1>5 DEF InList
  <2> QED
    BY <2>1, <2>2
<1>6. CASE InList(q, p)
  <2>1. PICK k \in 1..Len(q) : q[k] = p
    BY <1>6 DEF InList
  <2>2. par[p] = org[q[k]]
    BY <1>4, <1>6, <2>1
  <2>3. A[p] = {u \in Places : \E j \in 1..Len(q) : q[j] = u /\ Spans(q, dep, j, k)}
    <3>1. \A m \in 1..Len(q) : q[m] = p => m = k
      BY <1>2, <2>1 DEF Distinct
    <3> QED
      BY <1>3, <2>1, <3>1
  <2>4. \A j \in 1..Len(q) : dep[q[j]] \in Nat \ {0} /\ q[j] \in Places
    BY <1>1, <1>2 DEF Forest
  <2>5. Stands(q, dep, org, k)
    BY <1>1 DEF Forest
  <2>6. CASE org[q[k]] = sigma0
    <3>1. par[p] \notin Places
      BY <2>2, <2>6, MdbAssumption
    <3>2. dep[q[k]] = 1
      BY <2>5, <2>6 DEF Stands
    <3>3. ASSUME NEW j \in 1..Len(q), Spans(q, dep, j, k) PROVE FALSE
      <4>1. k \in (j + 1)..k
        BY <1>2, <3>3 DEF Spans
      <4>2. dep[q[k]] > dep[q[j]]
        BY <3>3, <4>1 DEF Spans
      <4> QED
        BY <2>4, <3>2, <4>2
    <3> QED
      BY <2>3, <3>1, <3>3
  <2>7. CASE org[q[k]] # sigma0
    <3>1. PICK j \in 1..(k - 1) :
              Spans(q, dep, j, k) /\ org[q[k]] = q[j] /\ dep[q[k]] = dep[q[j]] + 1
      <4> HIDE DEF q
      <4> QED
        BY <2>5, <2>7 DEF Stands
    <3>2. j \in 1..Len(q) /\ par[p] = q[j] /\ par[p] \in Places
      BY <1>2, <2>2, <2>4, <3>1
    <3>3. Home(par[p]) = h
      BY <1>1, <3>2
    <3>4. A[par[p]] = {u \in Places : \E i, m \in 1..Len(q) :
                           q[m] = par[p] /\ q[i] = u /\ Spans(q, dep, i, m)}
      BY <3>2, <3>3 DEF AboveIn
    <3>5. A[par[p]] = {u \in Places : \E i \in 1..Len(q) : q[i] = u /\ Spans(q, dep, i, j)}
      <4>1. \A m \in 1..Len(q) : q[m] = par[p] => m = j
        BY <1>2, <3>2 DEF Distinct
      <4> HIDE DEF A, par, q
      <4> QED
        BY <3>2, <3>4, <4>1
    <3>6. \A i \in 1..Len(q) : Spans(q, dep, i, k) <=> i = j \/ Spans(q, dep, i, j)
      <4> HIDE DEF q
      <4> QED
        BY <1>1, <3>1, SpansParent
    <3>7. A[p] = {par[p]} \cup A[par[p]]
      <4> HIDE DEF A, par, q
      <4> QED
        BY <2>3, <3>2, <3>5, <3>6
    <3>8. dep[p] = dep[par[p]] + 1 /\ dep[par[p]] \in Nat
      BY <2>1, <2>4, <3>1, <3>2
    <3> QED
      BY <3>2, <3>7, <3>8
  <2> QED
    BY <2>6, <2>7
<1> QED
  BY <1>5, <1>6

\* Nothing else satisfies the equation.
LEMMA AboveUnique ==
    ASSUME NEW par, NEW dep, NEW A, NEW B, AboveEquation(A, par), AboveEquation(B, par),
           \A p \in Places : par[p] \in Places =>
               dep[p] \in Nat /\ dep[par[p]] \in Nat /\ dep[par[p]] < dep[p]
    PROVE  \A p \in Places : A[p] = B[p]
<1> DEFINE Bad == {p \in Places : A[p] # B[p]}
           T == {dep[p] : p \in Bad}
<1>1. \A p \in Bad : par[p] \in Bad
  BY DEF AboveEquation
<1>2. SUFFICES ASSUME Bad # {} PROVE FALSE
  OBVIOUS
<1>3. \A p \in Bad : p \in Places
  OBVIOUS
<1> HIDE DEF Bad
<1>4. T \in SUBSET Nat /\ T # {}
  BY <1>1, <1>2, <1>3
<1>5. PICK n \in T : \A m \in T : n <= m
  <2> HIDE DEF T
  <2> QED
    BY <1>4, LeastIndex
<1>6. PICK p \in Bad : n = dep[p]
  OBVIOUS
<1>7. dep[par[p]] \in T /\ dep[par[p]] < dep[p] /\ dep[par[p]] \in Nat /\ dep[p] \in Nat
  BY <1>1, <1>3, <1>6
<1>8. n <= dep[par[p]]
  BY <1>5, <1>7
<1> QED
  BY <1>6, <1>7, <1>8

\* What was derived from a member of a list is what it spans.
LEMMA DerivedSpans ==
    ASSUME NEW F, NEW dep, NEW org, Family(F, dep, org), NEW h \in Chains, NEW a \in 1..Len(F[h])
    PROVE  /\ \A u : u \in Derivations!Derived(TreeOf(F, org), F[h][a]) =>
                      \E k \in 1..Len(F[h]) : Spans(F[h], dep, a, k) /\ u = F[h][k]
           /\ \A k \in 1..Len(F[h]) :
                  Spans(F[h], dep, a, k) => F[h][k] \in Derivations!Derived(TreeOf(F, org), F[h][a])
<1> DEFINE par == TreeOf(F, org)
           W == AboveIn(F, dep)
           A == Derivations!Ancestors(par)
           q == F[h]
<1>1. /\ AboveEquation(W, par)
      /\ \A p \in Places : par[p] \in Places =>
             dep[p] \in Nat /\ dep[par[p]] \in Nat /\ dep[par[p]] < dep[p]
  BY AboveRecursive
<1>2. W = [p \in Places |-> W[p]]
  BY DEF AboveIn
<1> HIDE DEF W, par
<1>3. A = CHOOSE f : f = [p \in Places |-> IF par[p] \in Places THEN {par[p]} \cup f[par[p]] ELSE {}]
  BY DEF Derivations!Ancestors
<1>4. W = [p \in Places |-> IF par[p] \in Places THEN {par[p]} \cup W[par[p]] ELSE {}]
  BY <1>1, <1>2 DEF AboveEquation
<1>5. A = [p \in Places |-> IF par[p] \in Places THEN {par[p]} \cup A[par[p]] ELSE {}]
  BY <1>3, <1>4
<1> HIDE DEF A
<1>6. AboveEquation(A, par)
  BY <1>5 DEF AboveEquation
<1>7. \A p \in Places : A[p] = W[p]
  BY <1>1, <1>6, AboveUnique
<1>8. Derivations!Derived(par, q[a]) = {d \in Places : q[a] \in W[d]}
  BY <1>7 DEF Derivations!Derived, A
<1>9. Forest(q, dep, org) /\ q \in Seq(Places) /\ Distinct(q) /\ \A k \in 1..Len(q) : Home(q[k]) = h /\ q[k] \in Places
  <2>1. Forest(q, dep, org) /\ \A k \in 1..Len(q) : Home(q[k]) = h
    BY DEF Family
  <2> QED
    BY <2>1 DEF Forest
<1>10. ASSUME NEW d \in Places, q[a] \in W[d]
       PROVE  \E k \in 1..Len(q) : Spans(q, dep, a, k) /\ d = q[k]
  <2>1. PICK j \in 1..Len(F[Home(d)]), k \in 1..Len(F[Home(d)]) :
            F[Home(d)][k] = d /\ F[Home(d)][j] = q[a] /\ Spans(F[Home(d)], dep, j, k)
    BY <1>10 DEF W, AboveIn
  <2>2. Home(d) \in Chains
    BY HomeChain
  <2>3. Home(d) = h
    BY <1>9, <2>1, <2>2 DEF Family
  <2>4. j = a
    BY <1>9, <2>1, <2>3 DEF Distinct
  <2> QED
    BY <2>1, <2>3, <2>4
<1>11. ASSUME NEW k \in 1..Len(q), Spans(q, dep, a, k) PROVE q[k] \in Places /\ q[a] \in W[q[k]]
  <2>1. q[k] \in Places /\ q[a] \in Places /\ Home(q[k]) = h
    BY <1>9
  <2> QED
    BY <1>11, <2>1 DEF W, AboveIn
<1>12. /\ \A u : u \in {d \in Places : q[a] \in W[d]} => \E k \in 1..Len(q) : Spans(q, dep, a, k) /\ u = q[k]
       /\ \A k \in 1..Len(q) : Spans(q, dep, a, k) => q[k] \in {d \in Places : q[a] \in W[d]}
  <2> HIDE DEF q
  <2> QED
    BY <1>10, <1>11
<1> QED
  BY <1>8, <1>12 DEF par

-----------------------------------------------------------------------------
(* The invariant of the mapping database                                    *)

\* The database runs on one processor: the order of the lock and the page-table
\* entries is lost with two.
OneProcessor == \E c : Processors = {c}
\* Whoever holds a page maps it on as a whole; only sigma0 maps pieces of the frame.
PagesWhole == \A m \in Maps : m[1] \in Big => m[2] \in Big
\* tree_depth does not wrap around.
DepthsSuffice == Cardinality(Places) < Depths

Line(i) == IF i = Pieces THEN pages ELSE pieces[sigma0][i]
Lines == [i \in Chains |-> Line(i)]
\* p has a node.
InLine(p) == InList(Lines[Home(p)], p)

DbShape ==
    /\ MdbTypes
    /\ array \subseteq {sigma0} /\ freed = {}
    /\ \A o \in Big : pieces[o] = NoPieces

\* A flush takes out what it meets; with pages whole, one of pieces meets none below a page.
Removes(o) == o.src \in Small \/ o.size = "big"
Asked(o) ==
    /\ <<o.src, o.size, o.self>> \in Revokes
    /\ o.size = "small" /\ o.src \in Small => o.piece = PieceOf[o.src]

\* The first position it takes out of a list in which its mapping is at a, and how
\* many it has taken out when it has come to position b.
TakenFrom(o, a) == IF o.self THEN a ELSE a + 1
Taken(o, a, b) == IF Removes(o) /\ b > TakenFrom(o, a) THEN b - TakenFrom(o, a) ELSE 0

\* The flush o found the lists F, the mapping it was asked for at position a, and has
\* come to position b: what it has met since is gone.
Progress(o, F, a, b) ==
    LET h == Home(o.src)
        q == F[h]
    IN  /\ Family(F, depth, origin)
        /\ a \in 1..Len(q) /\ q[a] = o.src /\ b \in a..(Len(q) + 1)
        /\ \A i \in (a + 1)..(b - 1) : depth[q[i]] > depth[q[a]]
        /\ Lines = [F EXCEPT ![h] = Cut(q, TakenFrom(o, a), Taken(o, a, b))]
        /\ doomed.before = TreeOf(F, origin)
        /\ doomed.set = (Derivations!Derived(TreeOf(F, origin), o.src)
                            \cup (IF o.self THEN {o.src} ELSE {})) \cap Region(o.size, o.piece)
        /\ walk.start = depth[q[a]]
        /\ o.at = "flush" =>
               /\ b <= Len(q) /\ walk.map = q[b] /\ (b > a => depth[q[b]] > depth[q[a]])
               /\ walk.level = Size(o.src) /\ walk.owner = nil
               /\ walk.self = (IF b = a THEN o.self ELSE Removes(o))
        /\ o.at = "unlock" => b > a /\ (b <= Len(q) => depth[q[b]] <= depth[q[a]])

\* What the processor is doing.
DoingOK(o) ==
    /\ o.at \in {"insert", "entry"} => <<o.src, o.dst>> \in Maps
    /\ o.at = "insert" => (o.src = sigma0 \/ o.src \in valid) /\ o.dst \notin valid
    /\ o.at = "entry" => InLine(o.dst)
    /\ o.at \in {"lock", "flush", "unlock"} => Asked(o)
    /\ o.at = "lock" => o.src \in valid
InFlush(o) == o # nil /\ o.at \in {"flush", "unlock"}
Entering(o, p) == o # nil /\ o.at = "entry" /\ o.dst = p

DbState(o) ==
    /\ o # nil => DoingOK(o)
    /\ \A p \in Places : p \in valid <=> InLine(p) /\ ~Entering(o, p)
    /\ InFlush(o) => /\ walk # nil /\ doomed # nil
                     /\ \E F : \E a, b \in Nat : Progress(o, F, a, b)
    /\ ~InFlush(o) => /\ walk = nil /\ doomed = nil /\ holder = nil
                      /\ Family(Lines, depth, origin)
DbInv == DbShape /\ \A c \in Processors : DbState(doing[c])

\* The lists are lists of places.
LEMMA LineTypes ==
    ASSUME DbShape
    PROVE  /\ DOMAIN Lines = Chains
           /\ \A i \in Chains : Lines[i] = Line(i) /\ Lines[i] \in Seq(Places)
           /\ Lines[Pieces] = pages /\ Pieces \in Chains
           /\ \A i \in Indices : Lines[i] = pieces[sigma0][i] /\ i \in Chains /\ i # Pieces
           /\ \A i \in Chains : i = Pieces \/ i \in Indices
<1>1. Pieces \in Nat \ {0} /\ Big \subseteq Places
  BY MdbAssumption
<1>2. /\ Pieces \in Chains
      /\ \A i \in Indices : i \in Chains /\ i # Pieces
      /\ \A i \in Chains : i = Pieces \/ i \in Indices
  BY <1>1 DEF Chains, Indices
<1>3. pages \in Seq(Places)
  <2>1. pages \in Seq(Big)
    BY DEF DbShape, MdbTypes
  <2> QED
    BY <1>1, <2>1
<1>4. \A i \in Indices : pieces[sigma0][i] \in Seq(Places)
  <2>1. \A i \in Indices : pieces[sigma0][i] \in Seq(Small)
    BY DEF DbShape, MdbTypes, Owners
  <2>2. Small \subseteq Places
    BY DEF Small
  <2> QED
    BY <2>1, <2>2
<1> QED
  BY <1>2, <1>3, <1>4 DEF Lines, Line

\* The members of a list are where they belong.
LEMMA LineHomes ==
    ASSUME DbShape, NEW p \in Places
    PROVE  /\ p \in Big => Lines[Home(p)] = pages /\ Home(p) = Pieces
           /\ p \in Small => /\ Lines[Home(p)] = pieces[sigma0][PieceOf[p]]
                             /\ Home(p) = PieceOf[p] /\ PieceOf[p] \in Indices
<1>1. p \in Small => PieceOf[p] \in Indices /\ p \notin Big
  BY MdbAssumption DEF Small
<1> QED
  BY <1>1, LineTypes DEF Home

\* The nodes of the database are the members of its lists.
LEMMA NodesListed ==
    ASSUME DbShape, NEW p \in Places
    PROVE  /\ HasNode(p) <=> InLine(p)
           /\ InLine(p) => ListOf(p) = Lines[Home(p)]
           /\ InLine(p) /\ p \in Small =>
                  (CHOOSE o \in Owners : InPieces(o, p)) = sigma0
<1>1. p # sigma0 /\ (p \in Big \/ p \in Small) /\ ~(p \in Big /\ p \in Small)
  BY MdbAssumption DEF Small
<1>2. \A o \in Big : ~InPieces(o, p)
  <2>1. \A o \in Big : p \in Small => pieces[o][PieceOf[p]] = <<>>
    BY LineHomes DEF DbShape, NoPieces
  <2> QED
    BY <2>1, EmptyList DEF InPieces
<1>3. CASE p \in Big
  <2>1. ~InPages(p) => ~HasNode(p)
    BY <1>1, <1>3 DEF HasNode, InPieces
  <2>2. InPages(p) <=> InLine(p)
    BY <1>3, LineHomes DEF InPages, InLine
  <2> QED
    BY <1>1, <1>3, <2>1, <2>2, LineHomes DEF HasNode, ListOf
<1>4. CASE p \in Small
  <2>1. \A i \in 1..Len(pages) : pages[i] \in Big
    BY DEF DbShape, MdbTypes
  <2>2. ~InPages(p)
    BY <1>1, <1>4, <2>1 DEF InPages, InList
  <2>3. InPieces(sigma0, p) <=> InLine(p)
    BY <1>4, LineHomes DEF InPieces, InLine
  <2>4. \A o \in Owners : InPieces(o, p) => o = sigma0
    BY <1>2 DEF Owners
  <2>5. HasNode(p) <=> InPieces(sigma0, p)
    BY <1>1, <2>2, <2>4 DEF HasNode, Owners
  <2>6. InLine(p) => (CHOOSE o \in Owners : InPieces(o, p)) = sigma0
    BY <2>3, <2>4 DEF Owners
  <2> QED
    BY <1>1, <1>4, <2>3, <2>5, <2>6, LineHomes DEF ListOf
<1> QED
  BY <1>1, <1>3, <1>4

\* So the tree of the database is that of its lists.
LEMMA TreeIsOf == ASSUME DbShape PROVE Tree = TreeOf(Lines, origin)
BY NodesListed DEF Tree, TreeOf, InLine

\* Where a member of a list stands, and what comes next.
LEMMA NextInList ==
    ASSUME DbShape, NEW p \in Places, Distinct(Lines[Home(p)]),
           NEW k \in 1..Len(Lines[Home(p)]), Lines[Home(p)][k] = p
    PROVE  NextMap(p) = IF k < Len(Lines[Home(p)]) THEN Lines[Home(p)][k + 1] ELSE nil
<1>1. InLine(p)
  BY DEF InLine, InList
<1>2. ListOf(p) = Lines[Home(p)]
  BY <1>1, NodesListed
<1>3. PlaceIn(Lines[Home(p)], p) = k
  BY DEF PlaceIn, Distinct
<1> QED
  BY <1>2, <1>3 DEF NextMap

\* A node that is taken out leaves its list and no other.
LEMMA RemoveLine ==
    ASSUME DbShape, NEW p \in Places, Remove(p)
    PROVE  /\ Lines' = [Lines EXCEPT ![Home(p)] = Without(@, p)]
           /\ pages' \in Seq(Big) /\ pieces' \in [Owners -> [Indices -> Seq(Small)]]
           /\ \A o \in Big : pieces'[o] = NoPieces
<1>1. pages \in Seq(Big) /\ pieces \in [Owners -> [Indices -> Seq(Small)]] /\ sigma0 \in Owners
      /\ sigma0 \notin Big
  BY MdbAssumption DEF DbShape, MdbTypes, Owners
<1>2. CASE p \in Big
  <2>1. pages' = Without(pages, p) /\ pieces' = pieces
    BY <1>2 DEF Remove
  <2>2. pages' \in Seq(Big)
    BY <1>1, <2>1, WithoutType
  <2>3. \A i \in Chains : Line(i)' = IF i = Home(p) THEN Without(Lines[i], p) ELSE Lines[i]
    BY <1>2, <2>1, LineHomes, LineTypes DEF Line
  <2>4. Lines' = [Lines EXCEPT ![Home(p)] = Without(@, p)]
    BY <2>3, LineTypes DEF Lines
  <2> QED
    BY <1>1, <2>1, <2>2, <2>4 DEF DbShape
<1>3. CASE p \notin Big
  <2>1. p \in Small /\ PieceOf[p] \in Indices /\ Home(p) = PieceOf[p]
    BY <1>3, LineHomes DEF Small
  <2>2. /\ pieces' = [o \in Owners |-> [pieces[o] EXCEPT ![PieceOf[p]] = Without(@, p)]]
        /\ pages' = pages
    BY <1>3 DEF Remove
  <2>3. \A o \in Owners : pieces[o] \in [Indices -> Seq(Small)]
    BY <1>1
  <2>4. \A o \in Owners : pieces'[o] \in [Indices -> Seq(Small)]
    <3> TAKE o \in Owners
    <3>1. pieces[o][PieceOf[p]] \in Seq(Small)
      BY <2>1, <2>3
    <3>2. Without(pieces[o][PieceOf[p]], p) \in Seq(Small)
      BY <3>1, WithoutType
    <3>3. pieces'[o] = [pieces[o] EXCEPT ![PieceOf[p]] = Without(@, p)]
      BY <2>2
    <3> QED
      BY <2>3, <3>2, <3>3, ExceptType
  <2>5. \A o \in Big : pieces'[o] = NoPieces
    <3> TAKE o \in Big
    <3>1. o \in Owners /\ pieces[o] = NoPieces
      BY DEF DbShape, Owners
    <3>2. Without(<<>>, p) = <<>>
      BY EmptyList DEF Without
    <3>3. NoPieces[PieceOf[p]] = <<>>
      BY <2>1 DEF NoPieces
    <3>4. pieces'[o] = [NoPieces EXCEPT ![PieceOf[p]] = <<>>]
      BY <2>2, <3>1, <3>2, <3>3
    <3> QED
      BY <3>4 DEF NoPieces
  <2>6. \A i \in Indices : pieces'[sigma0][i] =
            IF i = PieceOf[p] THEN Without(pieces[sigma0][i], p) ELSE pieces[sigma0][i]
    BY <1>1, <2>1, <2>2, <2>3
  <2>7. \A i \in Chains : Line(i)' = IF i = Home(p) THEN Without(Lines[i], p) ELSE Lines[i]
    BY <2>1, <2>2, <2>6, LineTypes DEF Line
  <2>8. Lines' = [Lines EXCEPT ![Home(p)] = Without(@, p)]
    BY <2>7, LineTypes DEF Lines
  <2>9. pieces' \in [Owners -> [Indices -> Seq(Small)]]
    BY <2>2, <2>4
  <2> QED
    BY <1>1, <2>2, <2>5, <2>8, <2>9
<1> QED
  BY <1>2, <1>3

\* A mapping and its origin are of one list.
LEMMA MapHomes ==
    ASSUME PagesWhole, NEW p, NEW q, <<p, q>> \in Maps, p # sigma0
    PROVE  p \in Places /\ q \in Places /\ Home(p) = Home(q) /\ (p \in Big <=> q \in Big)
<1>1. p \in Places /\ q \in Places
  BY MdbAssumption
<1>2. CASE p \in Big
  BY <1>1, <1>2 DEF PagesWhole, Home
<1>3. CASE p \notin Big
  <2>1. p \in Small
    BY <1>1, <1>3 DEF Small
  <2>2. q \in Small /\ PieceOf[p] = PieceOf[q]
    BY <2>1, MdbAssumption
  <2> QED
    BY <1>1, <1>3, <2>2 DEF Home, Small
<1> QED
  BY <1>2, <1>3

\* A new node is inserted in the list it belongs to, and in no other.
LEMMA MapLine ==
    ASSUME DbShape, PagesWhole, NEW p, NEW q \in Places, <<p, q>> \in Maps, MdbMap(p, q),
           p = sigma0 \/ InLine(p), Distinct(Lines[Home(q)])
    PROVE  /\ Lines' = [Lines EXCEPT ![Home(q)] =
                           IF p = sigma0 THEN EnqueueHead(@, q) ELSE InsertBehind(@, p, q)]
           /\ pages' \in Seq(Big) /\ pieces' \in [Owners -> [Indices -> Seq(Small)]]
           /\ \A o \in Big : pieces'[o] = NoPieces
           /\ array' \subseteq {sigma0} /\ freed' = {}
<1>1. /\ pages \in Seq(Big) /\ pieces \in [Owners -> [Indices -> Seq(Small)]]
      /\ sigma0 \in Owners /\ sigma0 \notin Big /\ Big \subseteq Owners
      /\ array \subseteq {sigma0} /\ freed = {} /\ \A o \in Big : pieces[o] = NoPieces
  BY MdbAssumption DEF DbShape, MdbTypes, Owners
<1>2. NoPieces \in [Indices -> Seq(Small)]
  BY EmptyQueue DEF NoPieces
<1>3. CASE q \in Big
  <2>1. /\ pages' = (IF p = sigma0 THEN EnqueueHead(pages, q) ELSE InsertBehind(pages, p, q))
        /\ array' = array \ {q} /\ freed' = freed \ {q}
        /\ pieces' = [pieces EXCEPT ![q] = NoPieces]
    BY <1>3 DEF MdbMap
  <2>2. pages' \in Seq(Big)
    <3>1. CASE p = sigma0
      BY <1>1, <1>3, <2>1, <3>1, HeadMembers
    <3>2. CASE p # sigma0
      <4>1. p \in Big /\ InList(pages, p) /\ Distinct(pages)
        BY <1>3, <3>2, MapHomes, LineHomes DEF InLine
      <4>2. PICK k \in 1..Len(pages) : pages[k] = p
        BY <4>1 DEF InList
      <4>3. InsertBehind(pages, pages[k], q) \in Seq(Big)
        BY <1>1, <1>3, <4>1, BehindPlaces
      <4> QED
        BY <2>1, <3>2, <4>2, <4>3
    <3> QED
      BY <3>1, <3>2
  <2>3. /\ pieces' \in [Owners -> [Indices -> Seq(Small)]]
        /\ \A o \in Big : pieces'[o] = NoPieces
        /\ pieces'[sigma0] = pieces[sigma0]
    BY <1>1, <1>2, <1>3, <2>1
  <2>4. \A i \in Chains : Line(i)' =
            IF i = Home(q)
            THEN IF p = sigma0 THEN EnqueueHead(Lines[i], q) ELSE InsertBehind(Lines[i], p, q)
            ELSE Lines[i]
    BY <1>3, <2>1, <2>3, LineHomes, LineTypes DEF Line
  <2>5. Lines' = [Lines EXCEPT ![Home(q)] =
                     IF p = sigma0 THEN EnqueueHead(@, q) ELSE InsertBehind(@, p, q)]
    BY <2>4, LineTypes DEF Lines
  <2> QED
    BY <1>1, <2>1, <2>2, <2>3, <2>5
<1>4. CASE q \notin Big
  <2>1. q \in Small /\ PieceOf[q] \in Indices /\ Home(q) = PieceOf[q]
    BY <1>4, LineHomes DEF Small
  <2> DEFINE new == IF p = sigma0 THEN EnqueueHead(pieces[sigma0][PieceOf[q]], q)
                    ELSE InsertBehind(pieces[sigma0][PieceOf[q]], p, q)
  <2>2. /\ pieces' = [pieces EXCEPT ![sigma0][PieceOf[q]] = new]
        /\ pages' = pages /\ freed' = freed /\ array' \subseteq array \cup {sigma0}
    <3>1. CASE p = sigma0
      BY <1>4, <2>1, <3>1, MdbAssumption DEF MdbMap, Small
    <3>2. CASE p # sigma0
      <4>1. p \in Small /\ p \in Places
        BY <1>4, <3>2, MapHomes DEF Small
      <4>2. (CHOOSE o \in Owners : InPieces(o, p)) = sigma0
        BY <3>2, <4>1, NodesListed
      <4>3. /\ pieces' = [pieces EXCEPT ![sigma0][PieceOf[q]] = InsertBehind(@, p, q)]
            /\ UNCHANGED <<pages, array, freed>>
        BY <1>4, <4>1, <4>2 DEF MdbMap
      <4> QED
        BY <3>2, <4>3
    <3> QED
      BY <3>1, <3>2
  <2>3. pieces[sigma0] \in [Indices -> Seq(Small)] /\ pieces[sigma0][PieceOf[q]] \in Seq(Small)
    BY <1>1, <2>1
  <2>4. new \in Seq(Small)
    <3>1. CASE p = sigma0
      BY <2>1, <2>3, <3>1, HeadMembers
    <3>2. CASE p # sigma0
      <4>1. InList(pieces[sigma0][PieceOf[q]], p) /\ Distinct(pieces[sigma0][PieceOf[q]])
        BY <2>1, <3>2, MapHomes, LineHomes DEF InLine
      <4>2. PICK k \in 1..Len(pieces[sigma0][PieceOf[q]]) : pieces[sigma0][PieceOf[q]][k] = p
        BY <4>1 DEF InList
      <4>3. InsertBehind(pieces[sigma0][PieceOf[q]], pieces[sigma0][PieceOf[q]][k], q) \in Seq(Small)
        BY <2>1, <2>3, <4>1, BehindPlaces
      <4> QED
        BY <3>2, <4>2, <4>3
    <3> QED
      BY <3>1, <3>2
  <2> HIDE DEF new
  <2>5. [pieces[sigma0] EXCEPT ![PieceOf[q]] = new] \in [Indices -> Seq(Small)]
    BY <2>3, <2>4, ExceptType
  <2>6. pieces' = [pieces EXCEPT ![sigma0] = [pieces[sigma0] EXCEPT ![PieceOf[q]] = new]]
    BY <2>2
  <2>7. /\ pieces' \in [Owners -> [Indices -> Seq(Small)]]
        /\ pieces'[sigma0] = [pieces[sigma0] EXCEPT ![PieceOf[q]] = new]
        /\ \A o \in Big : pieces'[o] = NoPieces
    BY <1>1, <2>5, <2>6
  <2>8. \A i \in Chains : Line(i)' = IF i = Home(q) THEN new ELSE Lines[i]
    BY <2>1, <2>2, <2>3, <2>7, LineTypes DEF Line
  <2>9. Lines' = [Lines EXCEPT ![Home(q)] = new]
    BY <2>8, LineTypes DEF Lines
  <2>10. new = IF p = sigma0 THEN EnqueueHead(Lines[Home(q)], q) ELSE InsertBehind(Lines[Home(q)], p, q)
    BY <2>1, LineTypes DEF new
  <2> QED
    BY <1>1, <2>2, <2>7, <2>9, <2>10
<1> QED
  BY <1>3, <1>4

\* The depth of a new node does not wrap around.
LEMMA DepthFits ==
    ASSUME DbShape, DepthsSuffice, Family(Lines, depth, origin), NEW p, NEW q \in Places,
           ~InLine(q), p = sigma0 \/ (p \in Places /\ InLine(p) /\ Home(p) = Home(q))
    PROVE  NewDepth(p) = (IF p = sigma0 THEN 1 ELSE depth[p] + 1) /\ NewDepth(p) \in 0..(Depths - 1)
<1>1. Depths \in Nat \ {0} /\ IsFiniteSet(Places) /\ Cardinality(Places) \in Nat /\ Cardinality(Places) < Depths
  BY MdbAssumption, FS_CardinalityType DEF DepthsSuffice
<1> DEFINE d == IF p = sigma0 THEN 1 ELSE depth[p] + 1
<1>2. d \in Nat /\ d <= Cardinality(Places)
  <2>1. CASE p = sigma0
    <3>1. Cardinality({q}) = 1 /\ Cardinality({q}) <= Cardinality(Places)
      BY <1>1, FS_Singleton, FS_Subset
    <3> QED
      BY <1>1, <2>1, <3>1
  <2>2. CASE p # sigma0
    <3> DEFINE l == Lines[Home(q)]
    <3>1. Home(q) \in Chains /\ InList(l, p) /\ ~InList(l, q)
      BY <2>2, HomeChain DEF InLine
    <3>2. Forest(l, depth, origin) /\ l \in Seq(Places) /\ Distinct(l)
      BY <3>1 DEF Family, Forest
    <3> HIDE DEF l
    <3>3. IsFiniteSet(Members(l)) /\ Cardinality(Members(l)) = Len(l)
      BY <3>2, MembersCardinality
    <3>4. q \notin Members(l) /\ Members(l) \cup {q} \subseteq Places
      BY <3>1, <3>2 DEF Members, InList
    <3>5. Cardinality(Members(l) \cup {q}) = Len(l) + 1
      BY <3>3, <3>4, FS_AddElement
    <3>6. Len(l) + 1 <= Cardinality(Places) /\ Len(l) \in Nat
      BY <1>1, <3>2, <3>4, <3>5, FS_Subset
    <3>7. PICK k \in 1..Len(l) : l[k] = p
      BY <3>1 DEF InList
    <3>8. depth[p] <= k /\ depth[p] \in Nat
      BY <3>2, <3>7, ForestDepth DEF Forest
    <3> QED
      BY <1>1, <2>2, <3>6, <3>7, <3>8
  <2> QED
    BY <2>1, <2>2
<1>3. NewDepth(p) = d % Depths
  BY DEF NewDepth
<1> HIDE DEF d
<1>4. d % Depths = d
  BY <1>1, <1>2
<1>5. NewDepth(p) = d /\ d \in 0..(Depths - 1)
  BY <1>1, <1>2, <1>3, <1>4
<1> QED
  BY <1>5 DEF d

\* With the new node the lists still stand for the derivations.
LEMMA MapFamily ==
    ASSUME DbShape, PagesWhole, DepthsSuffice, Family(Lines, depth, origin),
           NEW p, NEW q \in Places, <<p, q>> \in Maps, MdbMap(p, q),
           p = sigma0 \/ InLine(p), ~InLine(q)
    PROVE  /\ Family(Lines, depth, origin)'
           /\ \A u \in Places : InLine(u)' <=> InLine(u) \/ u = q
           /\ depth' \in [Places -> 0..(Depths - 1)] /\ origin' \in [Places -> Places \cup {sigma0}]
           /\ origin' = [origin EXCEPT ![q] = p]
<1> DEFINE h == Home(q)
           l == Lines[h]
           dep2 == depth'
           org2 == origin'
           new == IF p = sigma0 THEN EnqueueHead(l, q) ELSE InsertBehind(l, p, q)
<1>1. p # sigma0 => p \in Places /\ Home(p) = h
  BY MapHomes
<1>2. h \in Chains /\ ~InList(l, q) /\ \A i \in Chains : Forest(Lines[i], depth, origin)
      /\ \A k \in 1..Len(Lines[i]) : Home(Lines[i][k]) = i
  BY HomeChain DEF Family, InLine
<1>3. Forest(l, depth, origin) /\ l \in Seq(Places) /\ Distinct(l)
  BY <1>2 DEF Forest
<1>4. Lines' = [Lines EXCEPT ![h] = new]
  BY <1>3, MapLine
<1>5. /\ NewDepth(p) = (IF p = sigma0 THEN 1 ELSE depth[p] + 1) /\ NewDepth(p) \in 0..(Depths - 1)
      /\ depth' = [depth EXCEPT ![q] = NewDepth(p)] /\ origin' = [origin EXCEPT ![q] = p]
  <2>1. NewDepth(p) = (IF p = sigma0 THEN 1 ELSE depth[p] + 1) /\ NewDepth(p) \in 0..(Depths - 1)
    BY <1>1, DepthFits
  <2> QED
    BY <2>1 DEF MdbMap
<1>6. depth \in [Places -> 0..(Depths - 1)] /\ origin \in [Places -> Places \cup {sigma0}]
  BY DEF DbShape, MdbTypes
<1>7. /\ depth' \in [Places -> 0..(Depths - 1)] /\ origin' \in [Places -> Places \cup {sigma0}]
      /\ dep2[q] = (IF p = sigma0 THEN 1 ELSE depth[p] + 1) /\ org2[q] = p
      /\ \A u \in Places : u # q => dep2[u] = depth[u] /\ org2[u] = origin[u]
  BY <1>1, <1>5, <1>6
<1>8. \A i \in Chains : \A k \in 1..Len(Lines[i]) : Lines[i][k] \in Places /\ Lines[i][k] # q
  <2> SUFFICES ASSUME NEW i \in Chains, NEW k \in 1..Len(Lines[i]), Lines[i][k] = q PROVE FALSE
    BY <1>2 DEF Forest
  <2>1. i = h
    BY <1>2
  <2> QED
    BY <1>2, <2>1 DEF InList
<1>9. \A i \in Chains : \A k \in 1..Len(Lines[i]) :
          dep2[Lines[i][k]] = depth[Lines[i][k]] /\ org2[Lines[i][k]] = origin[Lines[i][k]]
  BY <1>7, <1>8
<1>10. Forest(new, dep2, org2) /\ \A u : InList(new, u) <=> InList(l, u) \/ u = q
  <2>1. CASE p = sigma0
    <3>1. dep2[q] = 1 /\ org2[q] = sigma0 /\ new = EnqueueHead(l, q)
      BY <1>7, <2>1
    <3>2. \A i \in 1..Len(l) : dep2[l[i]] = depth[l[i]] /\ org2[l[i]] = origin[l[i]]
      BY <1>2, <1>9
    <3> HIDE DEF l, dep2, org2, new
    <3>3. Forest(EnqueueHead(l, q), dep2, org2)
      BY <1>2, <1>3, <3>1, <3>2, ForestHead
    <3>4. \A u : InList(EnqueueHead(l, q), u) <=> InList(l, u) \/ u = q
      BY <1>3, HeadMembers
    <3> QED
      BY <3>1, <3>3, <3>4
  <2>2. CASE p # sigma0
    <3>1. PICK k \in 1..Len(l) : l[k] = p
      BY <1>1, <2>2 DEF InLine, InList
    <3>2. dep2[q] = depth[l[k]] + 1 /\ org2[q] = l[k] /\ new = InsertBehind(l, l[k], q)
      BY <1>7, <2>2, <3>1
    <3>3. \A i \in 1..Len(l) : dep2[l[i]] = depth[l[i]] /\ org2[l[i]] = origin[l[i]]
      BY <1>2, <1>9
    <3> HIDE DEF l, dep2, org2, new
    <3>4. Forest(InsertBehind(l, l[k], q), dep2, org2)
      BY <1>2, <1>3, <3>2, <3>3, ForestInsert
    <3>5. \A u : InList(InsertBehind(l, l[k], q), u) <=> InList(l, u) \/ u = q
      BY <1>3, BehindMembers
    <3> QED
      BY <3>2, <3>4, <3>5
  <2> QED
    BY <2>1, <2>2
<1>11. \A i \in Chains : i # h => Forest(Lines[i], dep2, org2)
  BY <1>2, <1>9, ForestSame
<1>12. \A k \in 1..Len(new) : Home(new[k]) = h
  <2> TAKE k \in 1..Len(new)
  <2>1. InList(new, new[k])
    BY DEF InList
  <2>2. InList(l, new[k]) \/ new[k] = q
    BY <1>10, <2>1
  <2> QED
    BY <1>2, <2>2 DEF InList
<1>13. DOMAIN Lines = Chains /\ DOMAIN Lines' = Chains
  BY LineTypes DEF Lines
<1>14. \A i \in Chains : Lines'[i] = IF i = h THEN new ELSE Lines[i]
  BY <1>2, <1>4, <1>13
<1>15. Family(Lines, depth, origin)'
  BY <1>2, <1>10, <1>11, <1>12, <1>13, <1>14 DEF Family
<1>16. \A u \in Places : InLine(u)' <=> InLine(u) \/ u = q
  <2> TAKE u \in Places
  <2>1. Home(u) \in Chains
    BY HomeChain
  <2> QED
    BY <1>10, <1>14, <2>1 DEF InLine
<1> QED
  BY <1>5, <1>7, <1>15, <1>16

-----------------------------------------------------------------------------
(* The mapping database: the steps                                        *)

\* What the processor may be doing.
LEMMA OpKinds ==
    ASSUME NEW o \in Ops
    PROVE  /\ o # nil
           /\ o.at \in {"insert", "entry"} =>
                  /\ o = [at |-> o.at, src |-> o.src, dst |-> o.dst]
                  /\ o.src \in Places \cup {sigma0} /\ o.dst \in Places
                  /\ \A v \in {"insert", "entry"} :
                         /\ [o EXCEPT !.at = v] = [at |-> v, src |-> o.src, dst |-> o.dst]
                         /\ [o EXCEPT !.at = v] \in Ops
           /\ o.at \in {"lock", "flush", "unlock"} =>
                  /\ o.src \in Places /\ o.size \in Sizes /\ o.piece \in Indices /\ o.self \in BOOLEAN
                  /\ \A v \in {"lock", "flush", "unlock"} :
                         /\ [o EXCEPT !.at = v].at = v /\ [o EXCEPT !.at = v] \in Ops
                         /\ [o EXCEPT !.at = v].src = o.src /\ [o EXCEPT !.at = v].size = o.size
                         /\ [o EXCEPT !.at = v].piece = o.piece /\ [o EXCEPT !.at = v].self = o.self
           /\ o.at \in {"insert", "entry", "lock", "flush", "unlock"}
<1>1. o # nil
  BY MdbAssumption
<1>2. CASE o \in [at : {"insert", "entry"}, src : Places \cup {sigma0}, dst : Places]
  BY <1>1, <1>2 DEF Ops
<1>3. CASE o \in [at : {"lock", "flush", "unlock"}, src : Places, size : Sizes, piece : Indices, self : BOOLEAN]
  BY <1>1, <1>3 DEF Ops
<1> QED
  BY <1>2, <1>3 DEF Ops

\* The processor goes on to something else.
LEMMA OneDoing ==
    ASSUME MdbTypes, NEW c, Processors = {c}, NEW v \in Ops \cup {nil}, doing' = [doing EXCEPT ![c] = v]
    PROVE  doing' \in [Processors -> Ops \cup {nil}] /\ doing'[c] = v /\ doing[c] \in Ops \cup {nil}
BY DEF MdbTypes

\* A step that changes no node.
LEMMA NodesQuiet ==
    ASSUME DbShape, UNCHANGED nodes, UNCHANGED origin, valid' \subseteq Places,
           holder' \in Processors \cup {nil}, doing' \in [Processors -> Ops \cup {nil}],
           walk' \in Walks \cup {nil}, doomed' \in Dooms \cup {nil}
    PROVE  /\ DbShape' /\ Lines' = Lines /\ depth' = depth /\ origin' = origin
           /\ \A p \in Places : InLine(p)' <=> InLine(p)
           /\ Family(Lines, depth, origin)' <=> Family(Lines, depth, origin)
<1>1. /\ pages' = pages /\ pieces' = pieces /\ array' = array /\ freed' = freed
      /\ depth' = depth /\ origin' = origin
  BY DEF nodes
<1>2. DbShape'
  BY <1>1 DEF DbShape, MdbTypes
<1>3. Lines' = Lines
  BY <1>1 DEF Lines, Line
<1> QED
  BY <1>1, <1>2, <1>3 DEF InLine, Family

\* The processor and its state.
LEMMA DbStateOf == ASSUME NEW c, Processors = {c} PROVE DbInv <=> DbShape /\ DbState(doing[c])
BY DEF DbInv

\* map_fpage takes up a mapping: nothing of the database has changed.
LEMMA DbStartMap ==
    ASSUME NEW c, Processors = {c}, DbInv, NEW p \in Places \cup {sigma0}, NEW q \in Places,
           StartMap(c, p, q)
    PROVE  DbInv'
<1> DEFINE v == [at |-> "insert", src |-> p, dst |-> q]
<1>1. DbShape /\ DbState(doing[c]) /\ MdbTypes
  BY DbStateOf DEF DbShape
<1>2. /\ doing[c] = nil /\ <<p, q>> \in Maps /\ (p = sigma0 \/ p \in valid) /\ q \notin valid
      /\ doing' = [doing EXCEPT ![c] = v]
      /\ UNCHANGED <<valid, nodes, holder, origin, walk, doomed>>
  BY DEF StartMap
<1>3. v \in Ops
  BY DEF Ops
<1>4. doing' \in [Processors -> Ops \cup {nil}] /\ doing'[c] = v
  BY <1>1, <1>2, <1>3, OneDoing
<1>5. /\ DbShape' /\ (Family(Lines, depth, origin)' <=> Family(Lines, depth, origin))
      /\ \A u \in Places : InLine(u)' <=> InLine(u)
  BY <1>1, <1>2, <1>4, NodesQuiet DEF MdbTypes
<1>6. v # nil /\ v.at = "insert" /\ v.src = p /\ v.dst = q
  BY <1>3, OpKinds
<1> HIDE DEF v
<1>7. ~InFlush(nil) /\ ~InFlush(v) /\ \A u : ~Entering(nil, u) /\ ~Entering(v, u)
  BY <1>6 DEF InFlush, Entering
<1>8. DbState(doing[c])'
  BY <1>1, <1>2, <1>4, <1>5, <1>6, <1>7 DEF DbState, DoingOK, InFlush, Entering
<1> QED
  BY <1>5, <1>8 DEF DbInv

\* map_fpage writes the entry of the mapping it made: entry and node agree again.
LEMMA DbSetEntry ==
    ASSUME NEW c, Processors = {c}, DbInv, SetEntry(c)
    PROVE  DbInv'
<1>1. DbShape /\ DbState(doing[c]) /\ MdbTypes
  BY DbStateOf DEF DbShape
<1> DEFINE o == doing[c]
<1>2. /\ o # nil /\ o.at = "entry" /\ valid' = valid \cup {o.dst}
      /\ doing' = [doing EXCEPT ![c] = nil]
      /\ UNCHANGED <<nodes, holder, origin, walk, doomed>>
  BY DEF SetEntry
<1>3. doing' \in [Processors -> Ops \cup {nil}] /\ doing'[c] = nil /\ o \in Ops
  BY <1>1, <1>2, OneDoing
<1>4. o.dst \in Places /\ InLine(o.dst)
  BY <1>1, <1>2, <1>3, OpKinds DEF DbState, DoingOK
<1>5. /\ DbShape' /\ (Family(Lines, depth, origin)' <=> Family(Lines, depth, origin))
      /\ \A u \in Places : InLine(u)' <=> InLine(u)
  BY <1>1, <1>2, <1>3, <1>4, NodesQuiet DEF MdbTypes
<1>6. ~InFlush(nil) /\ ~InFlush(o) /\ \A u : ~Entering(nil, u) /\ (Entering(o, u) <=> u = o.dst)
  BY <1>2 DEF InFlush, Entering
<1>7. \A u \in Places : u \in valid' <=> InLine(u)'
  BY <1>1, <1>2, <1>4, <1>5, <1>6 DEF DbState
<1>8. DbState(doing[c])'
  BY <1>1, <1>2, <1>3, <1>5, <1>6, <1>7 DEF DbState, InFlush, Entering
<1> QED
  BY <1>5, <1>8 DEF DbInv

\* mdb_map: the node is where its depth says that it is, and its entry is to come.
LEMMA DbInsert ==
    ASSUME PagesWhole, DepthsSuffice, NEW c, Processors = {c}, DbInv, Insert(c)
    PROVE  DbInv'
<1>1. DbShape /\ DbState(doing[c]) /\ MdbTypes
  BY DbStateOf DEF DbShape
<1> DEFINE o == doing[c]
           v == [o EXCEPT !.at = "entry"]
<1>2. /\ o # nil /\ o.at = "insert" /\ doing' = [doing EXCEPT ![c] = v]
      /\ UNCHANGED <<valid, holder, walk, doomed>>
      /\ HasNode(o.src) => MdbMap(o.src, o.dst)
  BY DEF Insert
<1>3. o \in Ops
  BY <1>1, <1>2 DEF MdbTypes
<1>4. v \in Ops /\ v.at = "entry" /\ v.src = o.src /\ v.dst = o.dst /\ o.dst \in Places /\ v # nil
  <2>1. v = [at |-> "entry", src |-> o.src, dst |-> o.dst] /\ v \in Ops /\ o.dst \in Places
    BY <1>2, <1>3, OpKinds
  <2> HIDE DEF v
  <2>2. v # nil
    BY <2>1, OpKinds
  <2>3. v.at = "entry" /\ v.src = o.src /\ v.dst = o.dst
    BY <2>1
  <2> QED
    BY <2>1, <2>2, <2>3
<1>5. doing' \in [Processors -> Ops \cup {nil}] /\ doing'[c] = v
  BY <1>1, <1>2, <1>4, OneDoing
<1> HIDE DEF v
<1>6. <<o.src, o.dst>> \in Maps /\ (o.src = sigma0 \/ o.src \in valid) /\ o.dst \notin valid
  BY <1>1, <1>2 DEF DbState, DoingOK
<1>7. ~InFlush(o) /\ \A u : ~Entering(o, u)
  BY <1>2 DEF InFlush, Entering
<1>8. /\ \A u \in Places : u \in valid <=> InLine(u)
      /\ walk = nil /\ doomed = nil /\ holder = nil /\ Family(Lines, depth, origin)
  BY <1>1, <1>7 DEF DbState
<1>9. o.src = sigma0 \/ InLine(o.src)
  BY <1>1, <1>6, <1>8 DEF MdbTypes
<1>10. MdbMap(o.src, o.dst)
  <2>1. o.src = sigma0 => HasNode(o.src)
    BY DEF HasNode
  <2>2. o.src # sigma0 => o.src \in Places
    BY <1>1, <1>6 DEF MdbTypes
  <2> QED
    BY <1>1, <1>2, <1>9, <2>1, <2>2, NodesListed
<1>11. ~InLine(o.dst)
  BY <1>4, <1>6, <1>8
<1> HIDE DEF o
<1>12. /\ Family(Lines, depth, origin)'
       /\ \A u \in Places : InLine(u)' <=> InLine(u) \/ u = o.dst
       /\ depth' \in [Places -> 0..(Depths - 1)] /\ origin' \in [Places -> Places \cup {sigma0}]
  BY <1>1, <1>4, <1>6, <1>8, <1>9, <1>10, <1>11, MapFamily
<1>13. Distinct(Lines[Home(o.dst)])
  BY <1>4, <1>8, HomeChain DEF Family, Forest
<1>14. /\ pages' \in Seq(Big) /\ pieces' \in [Owners -> [Indices -> Seq(Small)]]
       /\ \A b \in Big : pieces'[b] = NoPieces
       /\ array' \subseteq {sigma0} /\ freed' = {}
  BY <1>1, <1>4, <1>6, <1>9, <1>10, <1>13, MapLine
<1>15. array' \subseteq Owners
  BY <1>14 DEF Owners
<1>16. DbShape'
  BY <1>1, <1>2, <1>5, <1>12, <1>14, <1>15 DEF DbShape, MdbTypes
<1>17. ~InFlush(v) /\ \A u : Entering(v, u) <=> u = o.dst
  BY <1>4 DEF InFlush, Entering
<1>18. \A u \in Places : u \in valid' <=> InLine(u)' /\ ~Entering(v, u)
  BY <1>2, <1>8, <1>11, <1>12, <1>17
<1>19. DbState(doing[c])'
  BY <1>2, <1>4, <1>5, <1>6, <1>8, <1>12, <1>17, <1>18 DEF DbState, DoingOK, InFlush, Entering
<1> QED
  BY <1>16, <1>19 DEF DbInv

\* mapctrl_fpage takes up a flush: nothing of the database has changed.
LEMMA DbStartFlush ==
    ASSUME NEW c, Processors = {c}, DbInv, NEW p \in Places, NEW size \in Sizes, NEW i \in Indices,
           NEW self \in BOOLEAN, StartFlush(c, p, size, i, self)
    PROVE  DbInv'
<1> DEFINE v == [at |-> "lock", src |-> p, size |-> size, piece |-> i, self |-> self]
<1>1. DbShape /\ DbState(doing[c]) /\ MdbTypes
  BY DbStateOf DEF DbShape
<1>2. /\ doing[c] = nil /\ p \in valid /\ <<p, size, self>> \in Revokes
      /\ (size = "small" /\ p \in Small => i = PieceOf[p])
      /\ doing' = [doing EXCEPT ![c] = v]
      /\ UNCHANGED <<valid, nodes, holder, origin, walk, doomed>>
  BY DEF StartFlush
<1>3. v \in Ops /\ v # nil
  BY OpKinds DEF Ops
<1>4. doing' \in [Processors -> Ops \cup {nil}] /\ doing'[c] = v
  BY <1>1, <1>2, <1>3, OneDoing
<1>5. /\ DbShape' /\ (Family(Lines, depth, origin)' <=> Family(Lines, depth, origin))
      /\ \A u \in Places : InLine(u)' <=> InLine(u)
  BY <1>1, <1>2, <1>4, NodesQuiet DEF MdbTypes
<1>6. v.at = "lock" /\ v.src = p /\ v.size = size /\ v.piece = i /\ v.self = self
  OBVIOUS
<1> HIDE DEF v
<1>7. ~InFlush(nil) /\ ~InFlush(v) /\ \A u : ~Entering(nil, u) /\ ~Entering(v, u)
  BY <1>6 DEF InFlush, Entering
<1>8. Asked(v) /\ v.src \in valid'
  BY <1>2, <1>6 DEF Asked
<1>9. DoingOK(v)'
  BY <1>6, <1>8 DEF DoingOK, Asked
<1>10. DbState(doing[c])'
  BY <1>1, <1>2, <1>3, <1>4, <1>5, <1>7, <1>9 DEF DbState, InFlush, Entering, DoingOK
<1> QED
  BY <1>5, <1>10 DEF DbInv

\* mdb_flush begins: it has come to its mapping, and has taken out nothing.
LEMMA DbLock ==
    ASSUME NEW c, Processors = {c}, DbInv, Lock(c)
    PROVE  DbInv'
<1>1. DbShape /\ DbState(doing[c]) /\ MdbTypes
  BY DbStateOf DEF DbShape
<1>0. PICK o, F : o = doing[c] /\ F = Lines
  OBVIOUS
<1> DEFINE v == [o EXCEPT !.at = "flush"]
<1>2. o # nil /\ o.at = "lock" /\ UNCHANGED <<valid, nodes, origin>>
  BY <1>0 DEF Lock
<1>3. o \in Ops
  BY <1>0, <1>1, <1>2 DEF MdbTypes
<1>4. o.src \in Places /\ o.src \in valid /\ Asked(o)
  BY <1>0, <1>1, <1>2, <1>3, OpKinds DEF DbState, DoingOK
<1>5. ~InFlush(o) /\ \A u : ~Entering(o, u)
  BY <1>2 DEF InFlush, Entering
<1>6. /\ \A u \in Places : u \in valid <=> InLine(u)
      /\ Family(F, depth, origin)
  BY <1>0, <1>1, <1>5 DEF DbState
<1>7. InLine(o.src) /\ HasNode(o.src)
  BY <1>1, <1>4, <1>6, NodesListed
<1>8. /\ holder' = c /\ doing' = [doing EXCEPT ![c] = v]
      /\ walk' = [map |-> o.src, level |-> Size(o.src), owner |-> nil, at |-> 0,
                  up |-> nil, self |-> o.self, start |-> depth[o.src]]
      /\ doomed' = [before |-> Tree,
                    set |-> (Derivations!Derived(Tree, o.src)
                               \cup (IF o.self THEN {o.src} ELSE {})) \cap Region(o.size, o.piece)]
  BY <1>0, <1>7 DEF Lock
<1>9. /\ v \in Ops /\ v.at = "flush" /\ v.src = o.src /\ v.size = o.size /\ v.piece = o.piece
      /\ v.self = o.self /\ o.self \in BOOLEAN
  BY <1>2, <1>3, OpKinds
<1>10. v # nil
  BY <1>9, OpKinds
<1>11. doing' \in [Processors -> Ops \cup {nil}] /\ doing'[c] = v
  BY <1>1, <1>8, <1>9, OneDoing
<1> HIDE DEF v
<1>12. walk' \in Walks
  <2>1. depth[o.src] \in 0..(Depths - 1) /\ 0 \in Indices /\ Size(o.src) \in Sizes
    BY <1>1, <1>4, MdbAssumption DEF MdbTypes, Indices, Size, Sizes
  <2> QED
    BY <1>4, <1>8, <1>9, <2>1 DEF Walks
<1>13. doomed' \in Dooms
  <2>1. Tree \in [Places -> Places \cup {sigma0, nil}]
    BY <1>1 DEF Tree, MdbTypes
  <2>2. Derivations!Derived(Tree, o.src) \subseteq Places
    BY DEF Derivations!Derived
  <2> QED
    BY <1>4, <1>8, <2>1, <2>2 DEF Dooms
<1>14. /\ DbShape' /\ Lines' = F /\ depth' = depth /\ origin' = origin
       /\ \A u \in Places : InLine(u)' <=> InLine(u)
  <2>1. holder' \in Processors \cup {nil} /\ valid' \subseteq Places
    BY <1>1, <1>2, <1>8 DEF MdbTypes
  <2> QED
    BY <1>0, <1>1, <1>2, <1>11, <1>12, <1>13, <2>1, NodesQuiet
<1> DEFINE h == Home(o.src)
           q == F[h]
<1>15. PICK a \in 1..Len(q) : q[a] = o.src
  BY <1>0, <1>7 DEF InLine, InList
<1>16. h \in Chains /\ q \in Seq(Places) /\ Distinct(q) /\ Len(q) \in Nat /\ DOMAIN F = Chains
  BY <1>4, <1>6, HomeChain DEF Family, Forest
<1> DEFINE s == TakenFrom(v, a)
<1>17. Taken(v, a, a) = 0 /\ s \in 1..(Len(q) + 1)
  BY <1>16 DEF Taken, TakenFrom
<1>18. Cut(q, s, 0) = q
  BY <1>16, <1>17, CutStep
<1>19. F = [F EXCEPT ![h] = Cut(q, s, 0)]
  <2>1. F = [i \in Chains |-> F[i]]
    BY <1>0 DEF Lines
  <2> QED
    BY <1>18, <2>1
<1>20. Tree = TreeOf(F, origin')
  BY <1>0, <1>1, <1>14, TreeIsOf
<1>21. /\ walk'.start = depth'[q[a]] /\ walk'.map = q[a] /\ walk'.level = Size(v.src)
       /\ walk'.owner = nil /\ walk'.self = v.self
  BY <1>8, <1>9, <1>14, <1>15
<1>22. /\ doomed'.before = TreeOf(F, origin')
       /\ doomed'.set = (Derivations!Derived(TreeOf(F, origin'), v.src)
                               \cup (IF v.self THEN {v.src} ELSE {})) \cap Region(v.size, v.piece)
  <2>1. /\ doomed'.before = Tree
        /\ doomed'.set = (Derivations!Derived(Tree, o.src)
                               \cup (IF o.self THEN {o.src} ELSE {})) \cap Region(o.size, o.piece)
    BY <1>8
  <2> QED
    BY <1>9, <1>20, <2>1
<1>23. a \in a..(Len(q) + 1) /\ a \in Nat /\ a <= Len(q) /\ ~(a > a) /\ \A i \in (a + 1)..(a - 1) : FALSE
  BY <1>16
<1>24. Progress(v, F, a, a)'
  <2>1. Home(v.src) = h /\ F[Home(v.src)] = q
    BY <1>9
  <2>2. Lines' = [F EXCEPT ![h] = Cut(q, TakenFrom(v, a), Taken(v, a, a))]
    BY <1>14, <1>17, <1>19
  <2>3. Family(F, depth', origin')
    BY <1>6, <1>14
  <2>4. v.at # "unlock" /\ q[a] = v.src
    BY <1>9, <1>15
  <2> HIDE DEF h, q, s
  <2> QED
    BY <1>15, <1>21, <1>22, <1>23, <2>1, <2>2, <2>3, <2>4 DEF Progress
<1>25. walk' # nil /\ doomed' # nil
  BY <1>12, <1>13, MdbAssumption
<1>26. InFlush(v) /\ \A u : ~Entering(v, u)
  BY <1>9, <1>10 DEF InFlush, Entering
<1>27. DoingOK(v)'
  BY <1>4, <1>9 DEF DoingOK, Asked
<1>28. \E G : \E a1, b1 \in Nat : Progress(v, G, a1, b1)'
  BY <1>23, <1>24
<1>29. DbState(doing[c])'
  BY <1>2, <1>6, <1>10, <1>11, <1>14, <1>25, <1>26, <1>27, <1>28 DEF DbState, DoingOK, InFlush, Entering
<1> QED
  BY <1>14, <1>29 DEF DbInv

\* Where the flush is, and what the lists are.
LEMMA FlushShape ==
    ASSUME DbShape, NEW o \in Ops, InFlush(o), NEW F, NEW a \in Nat, NEW b \in Nat, Progress(o, F, a, b)
    PROVE  LET h == Home(o.src)
               q == F[h]
               s == TakenFrom(o, a)
               n == Taken(o, a, b)
           IN  /\ o.src \in Places /\ h \in Chains /\ DOMAIN F = Chains
               /\ q \in Seq(Places) /\ Distinct(q) /\ Len(q) \in Nat
               /\ a \in 1..Len(q) /\ b \in a..(Len(q) + 1)
               /\ \A i \in 1..Len(q) : q[i] \in Places /\ Home(q[i]) = h /\ depth[q[i]] \in Nat \ {0}
               /\ s \in 1..(Len(q) + 1) /\ n \in 0..((Len(q) + 1) - s)
               /\ Lines[h] = Cut(q, s, n) /\ \A i \in Chains : i # h => Lines[i] = F[i]
<1> DEFINE h == Home(o.src)
           q == F[h]
           s == TakenFrom(o, a)
           n == Taken(o, a, b)
<1>1. o.src \in Places /\ o.self \in BOOLEAN
  BY OpKinds DEF InFlush
<1>2. h \in Chains /\ Family(F, depth, origin) /\ a \in 1..Len(q) /\ b \in a..(Len(q) + 1)
      /\ Lines = [F EXCEPT ![h] = Cut(q, s, n)]
  BY <1>1, HomeChain DEF Progress
<1>3. DOMAIN F = Chains /\ Forest(q, depth, origin) /\ \A i \in 1..Len(q) : Home(q[i]) = h
  BY <1>2 DEF Family
<1>4. q \in Seq(Places) /\ Distinct(q) /\ Len(q) \in Nat /\ \A i \in 1..Len(q) : q[i] \in Places /\ depth[q[i]] \in Nat \ {0}
  BY <1>3 DEF Forest
<1>5. s \in 1..(Len(q) + 1) /\ n \in 0..((Len(q) + 1) - s)
  <2> HIDE DEF q
  <2> QED
    BY <1>1, <1>2, <1>4 DEF TakenFrom, Taken
<1>6. Lines[h] = Cut(q, s, n) /\ \A i \in Chains : i # h => Lines[i] = F[i]
  <2> HIDE DEF s, n
  <2> QED
    BY <1>2, <1>3
<1> QED
  BY <1>1, <1>2, <1>3, <1>4, <1>5, <1>6

\* The mapping it has come to is in its list, and the next one of the list is that of
\* the list it found.
LEMMA FlushPlace ==
    ASSUME DbShape, NEW o \in Ops, InFlush(o), NEW F, NEW a \in Nat, NEW b \in Nat, Progress(o, F, a, b),
           b <= Len(F[Home(o.src)])
    PROVE  LET q == F[Home(o.src)]
               s == TakenFrom(o, a)
               n == Taken(o, a, b)
           IN  /\ q[b] \in Places /\ Home(q[b]) = Home(o.src) /\ InLine(q[b])
               /\ NextMap(q[b]) = IF b < Len(q) THEN q[b + 1] ELSE nil
               /\ n > 0 => b = s + n
<1> DEFINE h == Home(o.src)
           q == F[h]
           s == TakenFrom(o, a)
           n == Taken(o, a, b)
           r == Cut(q, s, n)
<1>1. /\ o.src \in Places /\ h \in Chains
      /\ q \in Seq(Places) /\ Distinct(q) /\ Len(q) \in Nat
      /\ a \in 1..Len(q) /\ b \in a..(Len(q) + 1)
      /\ \A i \in 1..Len(q) : q[i] \in Places /\ Home(q[i]) = h
      /\ s \in 1..(Len(q) + 1) /\ n \in 0..((Len(q) + 1) - s) /\ Lines[h] = r
  BY FlushShape
<1>2. b \in 1..Len(q)
  BY <1>1
<1>3. (n > 0 => b = s + n /\ b > s) /\ n \in Nat
  BY <1>1 DEF Taken
<1> HIDE DEF s, n
<1>4. Distinct(r) /\ Len(r) = Len(q) - n
      /\ \A i \in 1..(Len(q) - n) : /\ i < s => r[i] = q[i]
                                    /\ i >= s => r[i] = q[i + n]
  <2> HIDE DEF q
  <2> QED
    BY <1>1, CutPlaces
<1> HIDE DEF r
<1> DEFINE k == b - n
<1>5. k \in 1..(Len(q) - n) /\ (n > 0 => k = s) /\ (n = 0 => k = b) /\ k + n = b /\ k \in Nat
  <2> HIDE DEF q
  <2> QED
    BY <1>1, <1>2, <1>3
<1>6. r[k] = q[b]
  <2> HIDE DEF q
  <2>1. CASE n > 0
    BY <1>1, <1>4, <1>5, <2>1
  <2>2. CASE n = 0
    <3>1. k + n = k
      BY <1>5, <2>2
    <3>2. k < s \/ k >= s
      BY <1>1, <1>5
    <3> QED
      BY <1>4, <1>5, <2>2, <3>1, <3>2
  <2> QED
    BY <1>3, <2>1, <2>2
<1>7. ASSUME b < Len(q) PROVE r[k + 1] = q[b + 1]
  <2> HIDE DEF q
  <2>1. k + 1 \in 1..(Len(q) - n) /\ (k + 1) + n = b + 1 /\ (k + 1 < s \/ k + 1 >= s)
    BY <1>1, <1>3, <1>5, <1>7
  <2>2. CASE n > 0
    <3>1. k + 1 >= s
      BY <1>1, <1>5, <2>2
    <3> QED
      BY <1>4, <2>1, <3>1
  <2>3. CASE n = 0
    <3>1. k + 1 = b + 1
      BY <1>5, <2>3
    <3> QED
      BY <1>4, <2>1, <2>3, <3>1
  <2> QED
    BY <1>3, <2>2, <2>3
<1>8. q[b] \in Places /\ Home(q[b]) = h /\ Lines[Home(q[b])] = r
  BY <1>1, <1>2
<1> HIDE DEF q, h, k
<1>9. InLine(q[b])
  BY <1>4, <1>5, <1>6, <1>8 DEF InLine, InList
<1>10. NextMap(q[b]) = IF k < Len(r) THEN r[k + 1] ELSE nil
  BY <1>4, <1>5, <1>6, <1>8, NextInList
<1>11. k < Len(r) <=> b < Len(q)
  BY <1>1, <1>3, <1>4, <1>5
<1>12. NextMap(q[b]) = IF b < Len(q) THEN q[b + 1] ELSE nil
  BY <1>7, <1>10, <1>11
<1> QED
  BY <1>3, <1>8, <1>9, <1>12 DEF q, h, s, n

\* What the lists are when it has gone on, after it took out the mapping or left it.
LEMMA FlushTakes ==
    ASSUME DbShape, NEW o \in Ops, InFlush(o), NEW F, NEW a \in Nat, NEW b \in Nat, Progress(o, F, a, b),
           b <= Len(F[Home(o.src)]), o.self => Removes(o),
           NEW self, self = (IF b = a THEN o.self ELSE Removes(o))
    PROVE  LET h == Home(o.src)
               q == F[h]
               s == TakenFrom(o, a)
           IN  /\ Taken(o, a, b + 1) \in Nat
               /\ self => Without(Lines[h], q[b]) = Cut(q, s, Taken(o, a, b + 1))
               /\ ~self => Taken(o, a, b + 1) = Taken(o, a, b)
<1> DEFINE h == Home(o.src)
           q == F[h]
           s == TakenFrom(o, a)
           n == Taken(o, a, b)
           m == Taken(o, a, b + 1)
<1>1. /\ q \in Seq(Places) /\ Distinct(q) /\ Len(q) \in Nat
      /\ a \in 1..Len(q) /\ b \in a..(Len(q) + 1) /\ b <= Len(q)
      /\ s \in 1..(Len(q) + 1) /\ n \in 0..((Len(q) + 1) - s) /\ Lines[h] = Cut(q, s, n)
  BY FlushShape
<1>2. o.self \in BOOLEAN /\ Removes(o) \in BOOLEAN /\ self \in BOOLEAN
  BY OpKinds DEF InFlush, Removes
<1> HIDE DEF q
<1>3. m \in Nat
  BY <1>1 DEF Taken
<1>4. CASE self
  <2>0. (b = a => o.self) /\ Removes(o)
    BY <1>4
  <2>1. Removes(o) /\ b >= s
    <3>1. CASE b = a
      <4>1. s = a
        BY <2>0, <3>1 DEF TakenFrom
      <4> QED
        BY <1>1, <2>0, <3>1, <4>1
    <3>2. CASE b # a
      <4>1. s = a \/ s = a + 1
        BY DEF TakenFrom
      <4> QED
        BY <1>1, <2>0, <3>2, <4>1
    <3> QED
      BY <3>1, <3>2
  <2>2. n = b - s /\ m = n + 1 /\ n \in 0..(Len(q) - s) /\ s + n = b
    BY <1>1, <2>1 DEF Taken
  <2> HIDE DEF s, n, m
  <2>3. Without(Cut(q, s, n), q[s + n]) = Cut(q, s, n + 1)
    BY <1>1, <2>2, CutStep
  <2> QED
    BY <1>1, <1>3, <1>4, <2>2, <2>3 DEF s, n, m, q
<1>5. CASE ~self
  <2>1. CASE b = a
    <3>1. ~o.self
      BY <1>5, <2>1
    <3>2. s = a + 1
      BY <3>1 DEF TakenFrom
    <3>3. ~(b > s) /\ ~(b + 1 > s)
      BY <1>1, <2>1, <3>2
    <3> QED
      BY <1>5, <1>3, <3>3 DEF Taken
  <2>2. CASE b # a
    <3>1. ~Removes(o)
      BY <1>5, <2>2
    <3> QED
      BY <1>5, <1>3, <3>1 DEF Taken
  <2> QED
    BY <2>1, <2>2
<1> QED
  BY <1>2, <1>4, <1>5

\* One turn of the loop of mdb_flush: it goes on to the next member of the list it
\* found, and leaves if that one is not deeper than its mapping.
LEMMA DbVisit ==
    ASSUME NEW c, Processors = {c}, DbInv, Visit(c)
    PROVE  DbInv'
<1>1. DbShape /\ DbState(doing[c]) /\ MdbTypes
  BY DbStateOf DEF DbShape
<1>2. doing[c] # nil /\ doing[c].at = "flush"
  BY DEF Visit
<1>3. doing[c] \in Ops /\ InFlush(doing[c])
  BY <1>1, <1>2 DEF MdbTypes, InFlush
<1>4. PICK o \in Ops, w \in {walk} : o = doing[c] /\ w = walk
  BY <1>3
<1>5. \E F : \E a, b \in Nat : Progress(o, F, a, b)
  BY <1>1, <1>3, <1>4 DEF DbState
<1>6. PICK F : \E a, b \in Nat : Progress(o, F, a, b)
  BY <1>5
<1>7. PICK a \in Nat, b \in Nat : Progress(o, F, a, b)
  BY <1>6
<1> DEFINE h == Home(o.src)
           q == F[h]
           s == TakenFrom(o, a)
<1>8. /\ b <= Len(q) /\ w.map = q[b] /\ (b > a => depth[q[b]] > depth[q[a]])
      /\ w.level = Size(o.src) /\ w.owner = nil /\ w.start = depth[q[a]]
      /\ w.self = (IF b = a THEN o.self ELSE Removes(o))
      /\ Family(F, depth, origin) /\ q[a] = o.src
      /\ \A i \in (a + 1)..(b - 1) : depth[q[i]] > depth[q[a]]
      /\ Lines = [F EXCEPT ![h] = Cut(q, s, Taken(o, a, b))]
  BY <1>2, <1>4, <1>7 DEF Progress
<1>9. /\ o.src \in Places /\ h \in Chains /\ DOMAIN F = Chains
      /\ q \in Seq(Places) /\ Distinct(q) /\ Len(q) \in Nat
      /\ a \in 1..Len(q) /\ b \in a..(Len(q) + 1)
      /\ \A i \in 1..Len(q) : q[i] \in Places /\ Home(q[i]) = h /\ depth[q[i]] \in Nat \ {0}
  BY <1>1, <1>3, <1>4, <1>7, FlushShape
<1>10. /\ q[b] \in Places /\ Home(q[b]) = h /\ InLine(q[b])
       /\ NextMap(q[b]) = IF b < Len(q) THEN q[b + 1] ELSE nil
  BY <1>1, <1>3, <1>4, <1>7, <1>8, FlushPlace
<1>11. o.self \in BOOLEAN /\ Asked(o) /\ DoingOK(o)
  BY <1>1, <1>2, <1>3, <1>4, OpKinds DEF DbState, DoingOK
<1>12. o.self => Removes(o)
  <2>1. <<o.src, o.size, o.self>> \in Revokes
    BY <1>11 DEF Asked
  <2> QED
    BY <2>1, MdbAssumption DEF Removes
<1>13. /\ Taken(o, a, b + 1) \in Nat
       /\ w.self => Without(Lines[h], q[b]) = Cut(q, s, Taken(o, a, b + 1))
       /\ ~w.self => Taken(o, a, b + 1) = Taken(o, a, b)
  BY <1>1, <1>3, <1>4, <1>7, <1>8, <1>12, FlushTakes
<1>14. w \in Walks /\ doomed # nil /\ doomed \in Dooms /\ w.map # nil /\ array \subseteq {sigma0} /\ nil \notin Places
       /\ q[b] \notin array
  <2>1. walk # nil /\ doomed # nil
    BY <1>1, <1>3 DEF DbState
  <2> QED
    BY <1>1, <1>4, <1>8, <1>10, <2>1, MdbAssumption DEF DbShape, MdbTypes
<1>15. /\ Along(o, w) \/ Over(o, w)
       /\ IF w.self THEN Remove(q[b]) /\ valid' = valid \ {q[b]} ELSE UNCHANGED <<valid, pages, pieces>>
       /\ UNCHANGED <<depth, holder, origin, doomed>>
       /\ doing' = [doing EXCEPT ![c].at = IF walk'.map # nil /\ depth[walk'.map] > w.start THEN @ ELSE "unlock"]
  <2>1. ~Below(o, w) /\ ~Back(o, w)
    BY <1>8, <1>14 DEF Below, Back
  <2> QED
    BY <1>4, <1>8, <2>1 DEF Visit
<1> HIDE DEF h, q, s
<1>16. /\ array' = array /\ freed' = freed /\ walk' \in Walks
       /\ walk'.map = (IF b < Len(q) THEN q[b + 1] ELSE nil)
       /\ walk'.start = w.start /\ walk'.owner = nil /\ walk'.level = w.level
       /\ b < Len(q) => walk'.self = Removes(o)
  <2>1. CASE Along(o, w)
    <3>1. /\ walk' = [w EXCEPT !.map = NextMap(w.map), !.self = w.self \/ w.level = "small" \/ o.size = "big"]
          /\ NextMap(w.map) # nil /\ UNCHANGED <<array, freed>>
      BY <2>1 DEF Along
    <3>2. b < Len(q) /\ NextMap(w.map) = q[b + 1] /\ q[b + 1] \in Places
      BY <1>8, <1>9, <1>10, <3>1
    <3>3. w.level = "small" <=> o.src \in Small
      BY <1>8 DEF Size
    <3>4. (w.self \/ w.level = "small" \/ o.size = "big") = Removes(o)
      BY <1>8, <1>11, <1>12, <3>3 DEF Removes
    <3>5. Removes(o) \in BOOLEAN
      BY DEF Removes
    <3>6. walk' = [w EXCEPT !.map = q[b + 1], !.self = Removes(o)]
      BY <3>1, <3>2, <3>4
    <3> QED
      BY <1>8, <1>14, <3>1, <3>2, <3>5, <3>6 DEF Walks
  <2>2. CASE Over(o, w)
    <3>1. walk' = [w EXCEPT !.map = nil] /\ NextMap(w.map) = nil /\ UNCHANGED <<array, freed>>
      BY <2>2 DEF Over
    <3>2. ~(b < Len(q))
      BY <1>8, <1>9, <1>10, <1>14, <3>1
    <3> QED
      BY <1>8, <1>14, <3>1, <3>2 DEF Walks
  <2> QED
    BY <1>15, <2>1, <2>2
<1> DEFINE goes == b < Len(q) /\ depth[q[b + 1]] > depth[q[a]]
           next == IF goes THEN "flush" ELSE "unlock"
<1>17. doing' = [doing EXCEPT ![c] = [o EXCEPT !.at = next]]
  <2>1. walk'.map # nil /\ depth[walk'.map] > w.start <=> goes
    <3>1. b < Len(q) => q[b + 1] # nil
      BY <1>9, <1>14
    <3> QED
      BY <1>8, <1>16, <3>1
  <2>2. doing' = [doing EXCEPT ![c] = [o EXCEPT !.at = IF walk'.map # nil /\ depth[walk'.map] > w.start THEN "flush" ELSE "unlock"]]
    BY <1>2, <1>4, <1>15
  <2> QED
    BY <2>1, <2>2
<1>18. PICK v \in Ops :
           /\ doing' = [doing EXCEPT ![c] = v]
           /\ v.src = o.src /\ v.size = o.size /\ v.piece = o.piece /\ v.self = o.self
           /\ v.at = (IF goes THEN "flush" ELSE "unlock") /\ v # nil
  <2> DEFINE u == [o EXCEPT !.at = next]
  <2>1. o.at \in {"lock", "flush", "unlock"}
    BY <1>2, <1>4
  <2>2. next \in {"lock", "flush", "unlock"}
    OBVIOUS
  <2> HIDE DEF next
  <2>5. \A t \in {"lock", "flush", "unlock"} :
            /\ [o EXCEPT !.at = t].at = t /\ [o EXCEPT !.at = t] \in Ops
            /\ [o EXCEPT !.at = t].src = o.src /\ [o EXCEPT !.at = t].size = o.size
            /\ [o EXCEPT !.at = t].piece = o.piece /\ [o EXCEPT !.at = t].self = o.self
    <3> HIDE DEF u
    <3> QED
      BY <2>1, OpKinds
  <2>3. /\ u.at = next /\ u \in Ops
        /\ u.src = o.src /\ u.size = o.size
        /\ u.piece = o.piece /\ u.self = o.self
    BY <2>2, <2>5
  <2> HIDE DEF u
  <2>4. u # nil
    BY <2>3, OpKinds
  <2> QED
    <3>1. doing' = [doing EXCEPT ![c] = u]
      BY <1>17 DEF u
    <3>2. u.at = (IF goes THEN "flush" ELSE "unlock")
      BY <2>3 DEF next
    <3> QED
      BY <2>3, <2>4, <3>1, <3>2
<1> HIDE DEF next
<1>19. doing' \in [Processors -> Ops \cup {nil}] /\ doing'[c] = v
  BY <1>1, <1>18, OneDoing
<1> DEFINE lines2 == [F EXCEPT ![h] = Cut(q, s, Taken(o, a, b + 1))]
<1>20. /\ pages' \in Seq(Big) /\ pieces' \in [Owners -> [Indices -> Seq(Small)]]
       /\ \A e \in Big : pieces'[e] = NoPieces
       /\ Lines' = lines2 /\ valid' \subseteq valid
       /\ \A u \in Places : InLine(u)' <=> InLine(u) /\ (w.self => u # q[b])
  <2>1. CASE w.self
    <3>1. /\ Lines' = [Lines EXCEPT ![h] = Without(Lines[h], q[b])]
          /\ pages' \in Seq(Big) /\ pieces' \in [Owners -> [Indices -> Seq(Small)]]
          /\ \A e \in Big : pieces'[e] = NoPieces
      BY <1>1, <1>10, <1>15, <2>1, RemoveLine
    <3>2. Lines' = lines2
      <4>1. Without(Lines[h], q[b]) = Cut(q, s, Taken(o, a, b + 1))
        BY <1>13, <2>1 DEF h, q, s
      <4>2. Lines = [F EXCEPT ![h] = Cut(q, s, Taken(o, a, b))]
        BY <1>8 DEF h, q, s
      <4>3. [Lines EXCEPT ![h] = Cut(q, s, Taken(o, a, b + 1))] = lines2
        BY <4>2
      <4> QED
        BY <3>1, <4>1, <4>3
    <3>3. ASSUME NEW u \in Places PROVE InLine(u)' <=> InLine(u) /\ u # q[b]
      <4>1. Home(u) \in Chains /\ DOMAIN Lines = Chains /\ Lines[h] \in Seq(Places) /\ h \in Chains
        BY <1>1, <1>9, HomeChain, LineTypes
      <4>2. Distinct(Lines[h])
        <5>1. /\ Lines[h] = Cut(F[h], TakenFrom(o, a), Taken(o, a, b))
              /\ F[h] \in Seq(Places) /\ Distinct(F[h]) /\ TakenFrom(o, a) \in 1..(Len(F[h]) + 1)
              /\ Taken(o, a, b) \in 0..((Len(F[h]) + 1) - TakenFrom(o, a))
          BY <1>1, <1>3, <1>4, <1>7, FlushShape DEF h
        <5> QED
          BY <5>1, CutPlaces
      <4>3. CASE Home(u) = h
        <5>1. Lines'[Home(u)] = Without(Lines[h], q[b])
          BY <3>1, <4>1, <4>3
        <5>2. /\ u # q[b] => (InList(Without(Lines[h], q[b]), u) <=> InList(Lines[h], u))
              /\ ~InList(Without(Lines[h], q[b]), q[b])
          BY <4>1, <4>2, WithoutMembers
        <5> QED
          BY <4>3, <5>1, <5>2 DEF InLine
      <4>4. CASE Home(u) # h
        <5>1. u # q[b]
          BY <1>10, <4>4
        <5>2. Lines'[Home(u)] = Lines[Home(u)]
          BY <3>1, <4>1, <4>4
        <5> QED
          BY <5>1, <5>2 DEF InLine
      <4> QED
        BY <4>3, <4>4
    <3>4. valid' \subseteq valid
      BY <1>15, <2>1
    <3> QED
      BY <2>1, <3>1, <3>2, <3>3, <3>4
  <2>2. CASE ~w.self
    <3>1. pages' = pages /\ pieces' = pieces /\ valid' = valid
      BY <1>15, <2>2
    <3>2. Lines' = Lines
      BY <3>1 DEF Lines, Line
    <3>3. Lines' = lines2
      BY <1>8, <1>13, <2>2, <3>2 DEF h, q, s
    <3>4. pages \in Seq(Big) /\ pieces \in [Owners -> [Indices -> Seq(Small)]] /\ \A e \in Big : pieces[e] = NoPieces
      BY <1>1 DEF DbShape, MdbTypes
    <3> QED
      BY <2>2, <3>1, <3>2, <3>3, <3>4 DEF InLine
  <2> QED
    BY <2>1, <2>2
<1> HIDE DEF lines2
<1>21. DbShape'
  BY <1>1, <1>14, <1>15, <1>16, <1>19, <1>20 DEF DbShape, MdbTypes
<1>22. Progress(v, F, a, b + 1)'
  <2>1. /\ Home(v.src) = h /\ F[Home(v.src)] = q /\ TakenFrom(v, a) = s
        /\ Taken(v, a, b + 1) = Taken(o, a, b + 1) /\ Removes(v) = Removes(o)
    BY <1>18 DEF h, q, s, TakenFrom, Taken, Removes
  <2>2. depth' = depth /\ origin' = origin /\ doomed' = doomed
    BY <1>15
  <2>3. Family(F, depth', origin')
    BY <1>8, <2>2
  <2>4. /\ doomed'.before = TreeOf(F, origin')
        /\ doomed'.set = (Derivations!Derived(TreeOf(F, origin'), v.src)
                            \cup (IF v.self THEN {v.src} ELSE {})) \cap Region(v.size, v.piece)
    BY <1>7, <1>18, <2>2 DEF Progress
  <2>5. a \in 1..Len(q) /\ q[a] = v.src /\ b + 1 \in a..(Len(q) + 1) /\ b + 1 > a /\ b + 1 # a
    BY <1>8, <1>9, <1>18 DEF h, q
  <2>6. \A i \in (a + 1)..((b + 1) - 1) : depth'[q[i]] > depth'[q[a]]
    <3> TAKE i \in (a + 1)..((b + 1) - 1)
    <3>1. i \in (a + 1)..(b - 1) \/ (i = b /\ b > a)
      BY <1>9
    <3> QED
      BY <1>8, <2>2, <3>1 DEF h, q
  <2>7. Lines' = [F EXCEPT ![h] = Cut(q, s, Taken(o, a, b + 1))]
    BY <1>20 DEF lines2
  <2>8. walk'.start = depth'[q[a]]
    BY <1>8, <1>16, <2>2 DEF h, q
  <2>9. v.at = "flush" =>
            /\ b + 1 <= Len(q) /\ walk'.map = q[b + 1] /\ (b + 1 > a => depth'[q[b + 1]] > depth'[q[a]])
            /\ walk'.level = Size(v.src) /\ walk'.owner = nil
            /\ walk'.self = Removes(o)
    <3>1. v.at = "flush" => goes
      BY <1>18
    <3>2. walk'.level = Size(v.src)
      BY <1>8, <1>16, <1>18
    <3>3. goes => b + 1 <= Len(q)
      BY <1>9
    <3> QED
      BY <1>16, <2>2, <3>1, <3>2, <3>3
  <2>10. v.at = "unlock" => b + 1 > a /\ (b + 1 <= Len(q) => depth'[q[b + 1]] <= depth'[q[a]])
    <3>1. v.at = "unlock" => ~goes
      BY <1>18
    <3>2. ASSUME b + 1 <= Len(q), ~goes PROVE depth[q[b + 1]] <= depth[q[a]]
      <4>1. b + 1 \in 1..Len(q) /\ b < Len(q)
        BY <1>9, <3>2
      <4>2. depth[q[b + 1]] \in Nat /\ depth[q[a]] \in Nat
        BY <1>9, <4>1 DEF h, q
      <4> QED
        BY <3>2, <4>1, <4>2
    <3> QED
      BY <2>2, <2>5, <3>1, <3>2
  <2> HIDE DEF goes
  <2> QED
    BY <2>1, <2>3, <2>4, <2>5, <2>6, <2>7, <2>8, <2>9, <2>10 DEF Progress
<1>23. b + 1 \in Nat
  OBVIOUS
<1>24. InFlush(v) /\ \A u : ~Entering(v, u) /\ ~Entering(o, u)
  <2>1. v.at \in {"flush", "unlock"} /\ o.at = "flush"
    BY <1>2, <1>4, <1>18
  <2> QED
    BY <1>18, <2>1 DEF InFlush, Entering
<1>25. \A u \in Places : u \in valid' <=> InLine(u)' /\ ~Entering(v, u)
  <2>1. \A u \in Places : u \in valid <=> InLine(u)
    BY <1>1, <1>4, <1>24 DEF DbState
  <2>2. \A u \in Places : u \in valid' <=> u \in valid /\ (w.self => u # q[b])
    BY <1>15
  <2> QED
    BY <1>20, <1>24, <2>1, <2>2
<1>26. DoingOK(v)'
  <2>1. v.at \in {"flush", "unlock"}
    BY <1>18
  <2>2. Asked(v)
    BY <1>11, <1>18 DEF Asked
  <2> QED
    BY <2>1, <2>2 DEF DoingOK, Asked
<1>27. walk' # nil /\ doomed' # nil
  BY <1>14, <1>15, <1>16, MdbAssumption
<1>28. \E G : \E a1, b1 \in Nat : Progress(v, G, a1, b1)'
  BY <1>22, <1>23
<1>29. DbState(doing[c])'
  BY <1>18, <1>19, <1>24, <1>25, <1>26, <1>27, <1>28 DEF DbState, DoingOK, InFlush, Entering
<1> QED
  BY <1>21, <1>29 DEF DbInv

\* When the flush is over, what it must revoke has gone from the lists it found, and
\* nothing else; what is left still stands for the derivations.
LEMMA FlushDone ==
    ASSUME DbShape, NEW o \in Ops, o.at = "unlock", Asked(o), NEW F, NEW a \in Nat, NEW b \in Nat,
           Progress(o, F, a, b)
    PROVE  /\ Family(Lines, depth, origin)
           /\ \A u \in Places : InLine(u) <=> InList(F[Home(u)], u) /\ u \notin doomed.set
           /\ InList(F[Home(o.src)], o.src) /\ o.src \in Places
<1> DEFINE h == Home(o.src)
           q == F[h]
           s == TakenFrom(o, a)
           n == Taken(o, a, b)
           gone == Derivations!Derived(TreeOf(F, origin), o.src) \cup (IF o.self THEN {o.src} ELSE {})
<1>1. InFlush(o) /\ o.self \in BOOLEAN /\ o.size \in Sizes /\ o.src \in Places
  BY OpKinds DEF InFlush
<1>2. /\ h \in Chains /\ DOMAIN F = Chains
      /\ q \in Seq(Places) /\ Distinct(q) /\ Len(q) \in Nat
      /\ a \in 1..Len(q) /\ b \in a..(Len(q) + 1)
      /\ \A i \in 1..Len(q) : q[i] \in Places /\ Home(q[i]) = h /\ depth[q[i]] \in Nat \ {0}
      /\ s \in 1..(Len(q) + 1) /\ n \in 0..((Len(q) + 1) - s)
      /\ Lines[h] = Cut(q, s, n) /\ \A i \in Chains : i # h => Lines[i] = F[i]
  BY <1>1, FlushShape
<1>3. /\ Family(F, depth, origin) /\ q[a] = o.src
      /\ b > a /\ (b <= Len(q) => depth[q[b]] <= depth[q[a]])
      /\ \A i \in (a + 1)..(b - 1) : depth[q[i]] > depth[q[a]]
      /\ doomed.set = gone \cap Region(o.size, o.piece)
  BY DEF Progress
<1>4. Forest(q, depth, origin) /\ \A i \in Chains : Forest(F[i], depth, origin) /\ \A k \in 1..Len(F[i]) : Home(F[i][k]) = i
  BY <1>2, <1>3 DEF Family
<1>5. \A u : u \in Derivations!Derived(TreeOf(F, origin), o.src) <=>
               \E k \in 1..Len(q) : Spans(q, depth, a, k) /\ u = q[k]
  <2> HIDE DEF h
  <2>1. Family(F, depth, origin) /\ h \in Chains /\ a \in 1..Len(F[h])
    BY <1>2, <1>3
  <2> HIDE DEF q
  <2>2. \A u : u \in Derivations!Derived(TreeOf(F, origin), F[h][a]) =>
                   \E k \in 1..Len(F[h]) : Spans(F[h], depth, a, k) /\ u = F[h][k]
    BY <2>1, DerivedSpans
  <2>3. \A k \in 1..Len(F[h]) : Spans(F[h], depth, a, k) =>
                   F[h][k] \in Derivations!Derived(TreeOf(F, origin), F[h][a])
    BY <2>1, DerivedSpans
  <2>4. F[h] = q
    BY DEF q
  <2> QED
    BY <1>3, <2>2, <2>3, <2>4
<1> HIDE DEF q, h
<1>6. \A k \in 1..Len(q) : Spans(q, depth, a, k) <=> k \in (a + 1)..(b - 1)
  <2> TAKE k \in 1..Len(q)
  <2>1. ASSUME k \in (a + 1)..(b - 1) PROVE Spans(q, depth, a, k)
    BY <1>2, <1>3, <2>1 DEF Spans
  <2>2. ASSUME Spans(q, depth, a, k), ~(k <= b - 1) PROVE FALSE
    <3>1. b \in (a + 1)..k /\ b \in 1..Len(q)
      BY <1>2, <1>3, <2>2
    <3>2. depth[q[b]] > depth[q[a]] /\ depth[q[b]] \in Nat /\ depth[q[a]] \in Nat
      BY <1>2, <2>2, <3>1 DEF Spans
    <3> QED
      BY <1>3, <3>1, <3>2
  <2>3. Spans(q, depth, a, k) => k > a
    BY <1>2 DEF Spans
  <2> QED
    BY <1>2, <2>1, <2>2, <2>3
<1>7. o.self => Removes(o)
  <2>1. <<o.src, o.size, o.self>> \in Revokes
    BY DEF Asked
  <2> QED
    BY <2>1, MdbAssumption DEF Removes
<1>8. (s = a /\ o.self) \/ (s = a + 1 /\ ~o.self)
  BY <1>1 DEF TakenFrom
<1>9. gone = {q[k] : k \in s..(b - 1)}
  <2>1. \A k \in s..(b - 1) : k \in 1..Len(q) /\ (k \in (a + 1)..(b - 1) \/ (k = a /\ o.self))
    BY <1>2, <1>8
  <2>2. \A k \in (a + 1)..(b - 1) : k \in s..(b - 1) /\ k \in 1..Len(q)
    BY <1>2, <1>8
  <2>3. o.self => a \in s..(b - 1)
    BY <1>2, <1>3, <1>8
  <2>4. \A u : u \in gone <=> \/ \E k \in 1..Len(q) : k \in (a + 1)..(b - 1) /\ u = q[k]
                              \/ o.self /\ u = q[a]
    BY <1>3, <1>5, <1>6
  <2> HIDE DEF gone, s
  <2>5. \A u \in gone : \E k \in s..(b - 1) : u = q[k]
    <3> TAKE u \in gone
    <3>1. (\E k \in (a + 1)..(b - 1) : u = q[k]) \/ (o.self /\ u = q[a])
      BY <2>4
    <3> QED
      BY <2>2, <2>3, <3>1
  <2>6. \A k \in s..(b - 1) : q[k] \in gone
    BY <2>1, <2>4
  <2> QED
    BY <2>5, <2>6
<1> HIDE DEF gone, s, n
<1>10. CASE Removes(o)
  <2>1. n = b - s /\ s + n = b
    BY <1>2, <1>3, <1>8, <1>10 DEF n, Taken, s
  <2>2. Forest(Lines[h], depth, origin)
    <3>1. Forest(Cut(q, s, b - s), depth, origin)
      <4>1. s \in {a, a + 1} /\ b \in (a + 1)..(Len(q) + 1)
        BY <1>2, <1>3, <1>8
      <4> QED
        BY <1>2, <1>3, <1>4, <4>1, ForestCut
    <3> QED
      BY <1>2, <2>1, <3>1
  <2>3. \A u : InList(Lines[h], u) <=> \E i \in 1..Len(q) : (i < s \/ i >= b) /\ q[i] = u
    <3>1. \A u : InList(Cut(q, s, n), u) <=> \E i \in 1..Len(q) : (i < s \/ i >= s + n) /\ q[i] = u
      <4>1. q \in Seq(Places) /\ s \in 1..(Len(q) + 1) /\ n \in 0..((Len(q) + 1) - s)
        BY <1>2
      <4> QED
        BY <4>1, CutPlaces
    <3> QED
      BY <1>2, <2>1, <3>1
  <2>4. \A u : InList(Lines[h], u) <=> InList(q, u) /\ u \notin gone
    <3> TAKE u
    <3>1. ASSUME InList(Lines[h], u) PROVE InList(q, u) /\ u \notin gone
      <4>1. PICK i \in 1..Len(q) : (i < s \/ i >= b) /\ q[i] = u
        BY <2>3, <3>1
      <4>2. ASSUME NEW k \in s..(b - 1), q[k] = u PROVE FALSE
        <5>1. k \in 1..Len(q) /\ k # i
          BY <1>2, <4>1
        <5> QED
          BY <1>2, <4>1, <4>2, <5>1 DEF Distinct
      <4> QED
        BY <1>9, <4>1, <4>2 DEF InList
    <3>2. ASSUME InList(q, u), u \notin gone PROVE InList(Lines[h], u)
      <4>1. PICK i \in 1..Len(q) : q[i] = u
        BY <3>2 DEF InList
      <4>2. i \notin s..(b - 1)
        BY <1>9, <3>2, <4>1
      <4>3. i < s \/ i >= b
        BY <1>2, <4>2
      <4> QED
        BY <2>3, <4>1, <4>3
    <3> QED
      BY <3>1, <3>2
  <2>5. \A u \in gone : u \in Places /\ Home(u) = h
    <3>1. \A k \in s..(b - 1) : k \in 1..Len(q)
      BY <1>2
    <3> QED
      BY <1>2, <1>9, <3>1
  <2>6. doomed.set = gone
    <3>1. CASE o.size = "big"
      BY <1>3, <2>5, <3>1 DEF Region
    <3>2. CASE o.size # "big"
      <4>1. o.size = "small" /\ o.src \in Small /\ o.piece = PieceOf[o.src] /\ o.src \notin Big
        BY <1>1, <1>10, <3>2 DEF Removes, Sizes, Asked, Small
      <4>2. h = o.piece /\ h # Pieces
        BY <1>1, <4>1, HomeChain DEF h, Home
      <4>3. \A u \in gone : u \in Small /\ PieceOf[u] = o.piece
        <5> TAKE u \in gone
        <5>1. u \in Places /\ u \notin Big
          BY <2>5, <4>2, HomeChain
        <5> QED
          BY <2>5, <4>2, <5>1 DEF Small, Home
      <4> QED
        BY <1>3, <3>2, <4>3 DEF Region
    <3> QED
      BY <3>1, <3>2
  <2>7. Family(Lines, depth, origin)
    <3>1. \A k \in 1..Len(Lines[h]) : Home(Lines[h][k]) = h
      <4> TAKE k \in 1..Len(Lines[h])
      <4>1. InList(Lines[h], Lines[h][k])
        BY DEF InList
      <4> QED
        BY <1>2, <2>3, <4>1
    <3> QED
      BY <1>2, <1>4, <2>2, <3>1, LineTypes DEF Family
  <2>8. ASSUME NEW u \in Places PROVE InLine(u) <=> InList(F[Home(u)], u) /\ u \notin doomed.set
    <3>1. Home(u) \in Chains
      BY HomeChain
    <3>2. CASE Home(u) = h
      BY <2>4, <2>6, <3>2 DEF InLine, q
    <3>3. CASE Home(u) # h
      BY <1>2, <2>5, <2>6, <3>1, <3>3 DEF InLine
    <3> QED
      BY <3>2, <3>3
  <2>9. InList(F[Home(o.src)], o.src)
    BY <1>2, <1>3 DEF InList, q, h
  <2> QED
    BY <1>1, <2>7, <2>8, <2>9
<1>11. CASE ~Removes(o)
  <2>1. ~o.self /\ o.src \in Big /\ o.size = "small" /\ n = 0
    BY <1>1, <1>7, <1>11 DEF Removes, Sizes, Small, n, Taken
  <2>2. Lines[h] = q
    BY <1>2, <2>1, CutStep
  <2>3. \A i \in Chains : Lines[i] = F[i]
    BY <1>2, <2>2 DEF q
  <2>4. Family(Lines, depth, origin)
    BY <1>4, <2>3, LineTypes DEF Family
  <2>5. doomed.set = {}
    <3>1. h = Pieces
      BY <2>1 DEF h, Home
    <3>2. \A u \in gone : u \in Big
      <4> TAKE u \in gone
      <4>1. PICK k \in s..(b - 1) : u = q[k]
        BY <1>9
      <4>2. k \in 1..Len(q)
        BY <1>2
      <4> QED
        BY <1>2, <3>1, <4>1, <4>2, HomeChain
    <3>3. \A u \in Region(o.size, o.piece) : u \notin Big
      BY <2>1 DEF Region, Small
    <3> QED
      BY <1>3, <3>2, <3>3
  <2>6. ASSUME NEW u \in Places PROVE InLine(u) <=> InList(F[Home(u)], u)
    BY <2>3, HomeChain DEF InLine
  <2>7. InList(F[Home(o.src)], o.src)
    BY <1>2, <1>3 DEF InList, q, h
  <2> QED
    BY <1>1, <2>4, <2>5, <2>6, <2>7
<1> QED
  BY <1>10, <1>11

\* mdb_flush returns: the tree of derivations is the one it found without what it
\* had to revoke.
LEMMA DbUnlock ==
    ASSUME NEW c, Processors = {c}, DbInv, Unlock(c)
    PROVE  /\ DbInv'
           /\ doomed # nil /\ doing[c].src \in Places /\ doing[c].self \in BOOLEAN
           /\ Region(doing[c].size, doing[c].piece) \in
                  {Places} \cup {{p \in Small : PieceOf[p] = i} : i \in Indices}
           /\ doomed.before[doing[c].src] # nil
           /\ doomed.set = (Derivations!Derived(doomed.before, doing[c].src)
                               \cup (IF doing[c].self THEN {doing[c].src} ELSE {}))
                              \cap Region(doing[c].size, doing[c].piece)
           /\ Tree' = [p \in Places |-> IF p \in doomed.set THEN nil ELSE doomed.before[p]]
<1>1. DbShape /\ DbState(doing[c]) /\ MdbTypes
  BY DbStateOf DEF DbShape
<1>2. PICK o : o = doing[c]
  OBVIOUS
<1>3. /\ o # nil /\ o.at = "unlock" /\ holder' = nil /\ walk' = nil /\ doomed' = nil
      /\ doing' = [doing EXCEPT ![c] = nil] /\ UNCHANGED <<valid, nodes, origin>>
  BY <1>2 DEF Unlock
<1>4. o \in Ops /\ InFlush(o) /\ \A u : ~Entering(o, u) /\ ~Entering(nil, u)
  BY <1>1, <1>2, <1>3 DEF MdbTypes, InFlush, Entering
<1>5. Asked(o) /\ walk # nil /\ doomed # nil /\ \A u \in Places : u \in valid <=> InLine(u)
  BY <1>1, <1>2, <1>3, <1>4 DEF DbState, DoingOK
<1>6. PICK F : \E a, b \in Nat : Progress(o, F, a, b)
  BY <1>1, <1>2, <1>4 DEF DbState
<1>7. PICK a \in Nat, b \in Nat : Progress(o, F, a, b)
  BY <1>6
<1>8. /\ Family(Lines, depth, origin)
      /\ \A u \in Places : InLine(u) <=> InList(F[Home(u)], u) /\ u \notin doomed.set
      /\ InList(F[Home(o.src)], o.src) /\ o.src \in Places
  BY <1>1, <1>3, <1>4, <1>5, <1>7, FlushDone
<1>9. doing' \in [Processors -> Ops \cup {nil}] /\ doing'[c] = nil
  BY <1>1, <1>3, OneDoing
<1>10. /\ DbShape' /\ Family(Lines, depth, origin)' /\ Lines' = Lines /\ origin' = origin
       /\ \A u \in Places : InLine(u)' <=> InLine(u)
  BY <1>1, <1>3, <1>8, <1>9, NodesQuiet DEF MdbTypes
<1>11. DbState(doing[c])'
  BY <1>3, <1>4, <1>5, <1>9, <1>10 DEF DbState, InFlush, Entering
<1>12. DbInv'
  BY <1>10, <1>11 DEF DbInv
<1>13. /\ doomed.before = TreeOf(F, origin)
       /\ doomed.set = (Derivations!Derived(doomed.before, o.src)
                               \cup (IF o.self THEN {o.src} ELSE {})) \cap Region(o.size, o.piece)
  BY <1>7 DEF Progress
<1>14. o.self \in BOOLEAN /\ o.size \in Sizes /\ o.piece \in Indices
  BY <1>3, <1>4, OpKinds
<1>15. doomed.before[o.src] = origin[o.src] /\ origin[o.src] # nil
  BY <1>1, <1>8, <1>13, MdbAssumption DEF TreeOf, MdbTypes
<1>16. Region(o.size, o.piece) \in {Places} \cup {{p \in Small : PieceOf[p] = i} : i \in Indices}
  BY <1>14 DEF Region
<1>17. Tree' = [p \in Places |-> IF p \in doomed.set THEN nil ELSE doomed.before[p]]
  <2>1. \A p \in Places : HasNode(p)' <=> InLine(p)'
    <3>1. \A p \in Places : HasNode(p)' <=> HasNode(p)
      BY <1>3 DEF HasNode, InPages, InPieces, nodes
    <3> QED
      BY <1>1, <1>10, <3>1, NodesListed
  <2>2. \A p \in Places : HasNode(p)' <=> InList(F[Home(p)], p) /\ p \notin doomed.set
    BY <1>8, <1>10, <2>1
  <2>3. \A p \in Places : doomed.before[p] = IF InList(F[Home(p)], p) THEN origin[p] ELSE nil
    BY <1>13 DEF TreeOf
  <2>4. Tree' = [p \in Places |-> IF HasNode(p)' THEN origin[p] ELSE nil]
    BY <1>10 DEF Tree
  <2> QED
    BY <2>2, <2>3, <2>4
<1> QED
  BY <1>2, <1>5, <1>8, <1>12, <1>13, <1>14, <1>15, <1>16, <1>17

\* The invariant holds of the empty database.
LEMMA DbStart == ASSUME NEW c, Processors = {c}, MdbInit PROVE DbInv
<1>1. /\ valid = {} /\ pages = <<>> /\ array = {} /\ freed = {}
      /\ pieces = [o \in Owners |-> NoPieces]
      /\ depth = [p \in Places |-> 0]
      /\ holder = nil /\ doing = [d \in Processors |-> nil]
      /\ origin = [p \in Places |-> sigma0]
      /\ walk = nil /\ doomed = nil
  BY DEF MdbInit
<1>2. NoPieces \in [Indices -> Seq(Small)] /\ pages \in Seq(Big)
  BY <1>1, EmptyQueue DEF NoPieces
<1>3. depth \in [Places -> 0..(Depths - 1)]
  <2>1. 0 \in 0..(Depths - 1)
    BY MdbAssumption
  <2> QED
    BY <1>1, <2>1
<1>4. DbShape
  <2>1. pieces \in [Owners -> [Indices -> Seq(Small)]] /\ \A o \in Big : pieces[o] = NoPieces
    BY <1>1, <1>2 DEF Owners
  <2> QED
    BY <1>1, <1>2, <1>3, <2>1 DEF DbShape, MdbTypes
<1>5. \A i \in Chains : Lines[i] = <<>>
  <2>1. \A i \in Indices : pieces[sigma0][i] = <<>>
    BY <1>1 DEF NoPieces, Owners
  <2> QED
    BY <1>1, <1>4, <2>1, LineTypes
<1>6. Family(Lines, depth, origin)
  <2>1. <<>> \in Seq(Places) /\ 1..Len(<<>>) = {}
    BY EmptyQueue
  <2>2. Forest(<<>>, depth, origin)
    BY <2>1 DEF Forest, Distinct
  <2> QED
    BY <1>4, <1>5, <2>1, <2>2, LineTypes DEF Family
<1>7. \A p \in Places : ~InLine(p)
  BY <1>5, EmptyList, HomeChain DEF InLine
<1>8. DbState(doing[c])
  BY <1>1, <1>6, <1>7 DEF DbState, InFlush
<1> QED
  BY <1>4, <1>8 DEF DbInv

\* Every step preserves it.
LEMMA DbStep ==
    ASSUME PagesWhole, DepthsSuffice, NEW c, Processors = {c}, DbInv, [MdbNext]_mdbVars
    PROVE  DbInv'
<1>1. CASE UNCHANGED mdbVars
  <2>1. /\ valid' = valid /\ pages' = pages /\ pieces' = pieces /\ array' = array /\ freed' = freed
        /\ depth' = depth /\ holder' = holder /\ doing' = doing /\ origin' = origin /\ walk' = walk
        /\ doomed' = doomed
    BY <1>1 DEF mdbVars, nodes
  <2>2. Lines' = Lines
    BY <2>1 DEF Lines, Line
  <2>3. DbShape'
    BY <2>1 DEF DbInv, DbShape, MdbTypes
  <2>4. ASSUME NEW o, DbState(o) PROVE DbState(o)'
    <3>1. DoingOK(o)' <=> DoingOK(o)
      BY <2>1, <2>2 DEF DoingOK, Asked, InLine
    <3>2. \A p \in Places : InLine(p)' <=> InLine(p)
      BY <2>2 DEF InLine
    <3>3. \A F : Family(F, depth, origin)' <=> Family(F, depth, origin)
      BY <2>1 DEF Family
    <3>4. Family(Lines, depth, origin)' <=> Family(Lines, depth, origin)
      BY <2>1, <2>2 DEF Family
    <3>5. \A F : \A a, b \in Nat : Progress(o, F, a, b) => Progress(o, F, a, b)'
      BY <2>1, <2>2, <3>3 DEF Progress
    <3> QED
      BY <2>1, <2>4, <3>1, <3>2, <3>4, <3>5 DEF DbState
  <2> QED
    BY <2>1, <2>3, <2>4 DEF DbInv
<1>2. ASSUME NEW p \in Places \cup {sigma0}, NEW q \in Places, StartMap(c, p, q) PROVE DbInv'
  BY <1>2, DbStartMap
<1>3. ASSUME NEW p \in Places, NEW size \in Sizes, NEW i \in Indices, NEW self \in BOOLEAN,
             StartFlush(c, p, size, i, self)
      PROVE  DbInv'
  BY <1>3, DbStartFlush
<1>4. CASE Insert(c)
  BY <1>4, DbInsert
<1>5. CASE SetEntry(c)
  BY <1>5, DbSetEntry
<1>6. CASE Lock(c)
  BY <1>6, DbLock
<1>7. CASE Visit(c)
  BY <1>7, DbVisit
<1>8. CASE Unlock(c)
  BY <1>8, DbUnlock
<1> QED
  BY <1>1, <1>2, <1>3, <1>4, <1>5, <1>6, <1>7, <1>8 DEF MdbNext

\* So it always holds, on one processor, if pages are mapped on as a whole and the
\* depths suffice.
LEMMA DbAlways == ASSUME OneProcessor, PagesWhole, DepthsSuffice PROVE MdbSpec => []DbInv
<1>1. PICK c : Processors = {c}
  BY DEF OneProcessor
<1>2. MdbInit => DbInv
  BY <1>1, DbStart
<1>3. DbInv /\ [MdbNext]_mdbVars => DbInv'
  BY <1>1, DbStep
<1> QED
  BY <1>2, <1>3, PTL DEF MdbSpec

\* The invariant says that the nodes and the page tables agree.
LEMMA DbLinks == ASSUME OneProcessor, DbInv PROVE LinksSound
<1>1. PICK c : Processors = {c}
  BY DEF OneProcessor
<1>2. DbShape /\ DbState(doing[c])
  BY <1>1 DEF DbInv
<1>3. EntriesHaveNodes
  <2> SUFFICES ASSUME NEW p \in Places, ~Entering(doing[c], p) PROVE p \in valid <=> HasNode(p)
    BY <1>1 DEF EntriesHaveNodes, Entering
  <2>1. p \in valid <=> InLine(p)
    BY <1>2 DEF DbState
  <2> QED
    BY <1>2, <2>1, NodesListed
<1>4. ArraysAllocated
  BY <1>2 DEF DbShape, ArraysAllocated
<1>5. ASSUME walk = nil, NEW p \in Places, HasNode(p) PROVE Parent(p) = origin[p]
  <2>1. Family(Lines, depth, origin)
    BY <1>2, <1>5 DEF DbState
  <2> DEFINE q == Lines[Home(p)]
             k == PlaceIn(q, p)
             shallower == {j \in 1..(k - 1) : depth[q[j]] < depth[p]}
  <2>2. InLine(p) /\ ListOf(p) = q /\ (p \in Small => (CHOOSE o \in Owners : InPieces(o, p)) = sigma0)
    BY <1>2, <1>5, NodesListed
  <2>3. Forest(q, depth, origin)
    BY <2>1, HomeChain DEF Family
  <2>4. k \in 1..Len(q) /\ q[k] = p
    BY <2>2 DEF InLine, InList, PlaceIn
  <2>5. /\ shallower = {} <=> origin[p] = sigma0
        /\ shallower # {} => q[CHOOSE j \in shallower : \A i \in shallower : i <= j] = origin[p]
    <3> HIDE DEF q, k
    <3>1. LET sh == {j \in 1..(k - 1) : depth[q[j]] < depth[q[k]]}
          IN  /\ sh = {} <=> origin[q[k]] = sigma0
              /\ sh # {} => q[CHOOSE j \in sh : \A i \in sh : i <= j] = origin[q[k]]
      BY <2>3, <2>4, ForestParent
    <3> QED
      BY <2>4, <3>1
  <2>6. Parent(p) = IF shallower # {}
                    THEN q[CHOOSE j \in shallower : \A i \in shallower : i <= j]
                    ELSE IF p \in Big THEN sigma0 ELSE CHOOSE o \in Owners : InPieces(o, p)
    BY <2>2 DEF Parent
  <2>7. p \in Big \/ p \in Small
    BY DEF Small
  <2> HIDE DEF q, k, shallower
  <2> QED
    BY <2>2, <2>5, <2>6, <2>7
<1> QED
  BY <1>3, <1>4, <1>5 DEF LinksSound, DepthsGiveParents

\* When mdb_flush returns, no entry it had to revoke is left.
LEMMA DbRevoked == ASSUME OneProcessor, DbInv PROVE RevokedRecursively
<1>1. PICK c : Processors = {c}
  BY DEF OneProcessor
<1>2. DbShape /\ DbState(doing[c]) /\ MdbTypes
  BY <1>1 DEF DbInv, DbShape
<1>3. SUFFICES ASSUME doing[c] # nil, doing[c].at = "unlock" PROVE valid \cap doomed.set = {}
  BY <1>1 DEF RevokedRecursively
<1>4. PICK o : o = doing[c]
  OBVIOUS
<1>5. o \in Ops /\ o.at = "unlock" /\ InFlush(o)
  BY <1>1, <1>2, <1>3, <1>4 DEF MdbTypes, InFlush
<1>6. Asked(o)
  BY <1>2, <1>3, <1>4, <1>5 DEF DbState, DoingOK
<1>7. PICK F : \E a, b \in Nat : Progress(o, F, a, b)
  BY <1>2, <1>4, <1>5 DEF DbState
<1>8. PICK a \in Nat, b \in Nat : Progress(o, F, a, b)
  BY <1>7
<1>9. \A u \in Places : InLine(u) => u \notin doomed.set
  BY <1>2, <1>5, <1>6, <1>8, FlushDone
<1>10. \A u \in Places : u \in valid => InLine(u)
  BY <1>2 DEF DbState
<1> QED
  BY <1>2, <1>9, <1>10 DEF MdbTypes

\* The derivations as Derivation sees them.
Now == IF doomed = nil THEN Tree ELSE doomed.before

\* Every step derives a mapping, or revokes what was derived from one, or changes
\* nothing of that.
LEMMA DbDerives ==
    ASSUME PagesWhole, DepthsSuffice, NEW c, Processors = {c}, DbInv, DbInv', [MdbNext]_mdbVars
    PROVE  Derivations!DerivationNext \/ UNCHANGED Now
<1>1. DbShape /\ DbState(doing[c]) /\ MdbTypes
  BY DbStateOf DEF DbShape
<1>2. ASSUME pages' = pages, pieces' = pieces, origin' = origin PROVE Tree' = Tree
  BY <1>2 DEF Tree, HasNode, InPages, InPieces
<1>3. ASSUME UNCHANGED nodes, UNCHANGED origin, UNCHANGED doomed PROVE UNCHANGED Now
  BY <1>2, <1>3 DEF Now, nodes
<1>4. CASE UNCHANGED mdbVars
  BY <1>3, <1>4 DEF mdbVars
<1>5. ASSUME NEW p \in Places \cup {sigma0}, NEW q \in Places, StartMap(c, p, q) PROVE UNCHANGED Now
  BY <1>3, <1>5 DEF StartMap
<1>6. ASSUME NEW p \in Places, NEW size \in Sizes, NEW i \in Indices, NEW self \in BOOLEAN,
             StartFlush(c, p, size, i, self)
      PROVE  UNCHANGED Now
  BY <1>3, <1>6 DEF StartFlush
<1>7. CASE SetEntry(c)
  BY <1>3, <1>7 DEF SetEntry
<1>8. CASE Insert(c)
  <2>1. PICK o : o = doing[c]
    OBVIOUS
  <2>2. /\ o # nil /\ o.at = "insert" /\ o \in Ops /\ doomed' = doomed
        /\ HasNode(o.src) => MdbMap(o.src, o.dst)
    BY <1>1, <1>8, <2>1 DEF Insert, MdbTypes
  <2>3. o.dst \in Places /\ o.src \in Places \cup {sigma0}
    BY <2>2, OpKinds
  <2>4. <<o.src, o.dst>> \in Maps /\ (o.src = sigma0 \/ o.src \in valid) /\ o.dst \notin valid
        /\ ~InFlush(o) /\ \A u : ~Entering(o, u)
    BY <1>1, <2>1, <2>2 DEF DbState, DoingOK, InFlush, Entering
  <2>5. doomed = nil /\ Family(Lines, depth, origin) /\ \A u \in Places : u \in valid <=> InLine(u)
    BY <1>1, <2>1, <2>4 DEF DbState
  <2>6. (o.src = sigma0 \/ InLine(o.src)) /\ ~InLine(o.dst) /\ HasNode(o.src)
    <3>1. o.src = sigma0 \/ InLine(o.src)
      BY <2>3, <2>4, <2>5
    <3>2. o.src # sigma0 => o.src \in Places
      BY <2>3
    <3> QED
      BY <1>1, <2>3, <2>4, <2>5, <3>1, <3>2, NodesListed DEF HasNode
  <2>7. /\ \A u \in Places : InLine(u)' <=> InLine(u) \/ u = o.dst
        /\ origin' = [origin EXCEPT ![o.dst] = o.src]
    BY <1>1, <2>2, <2>3, <2>4, <2>5, <2>6, MapFamily
  <2>8. Tree = TreeOf(Lines, origin)
    BY <1>1, TreeIsOf
  <2>9. Tree' = TreeOf(Lines, origin)'
    <3>1. DbShape' => (Tree = TreeOf(Lines, origin))'
      BY TreeIsOf, PTL
    <3> QED
      BY <3>1 DEF DbInv
  <2>10. Tree' = [Tree EXCEPT ![o.dst] = o.src]
    BY <1>1, <2>3, <2>7, <2>8, <2>9 DEF TreeOf, InLine, MdbTypes
  <2>11. Tree[o.dst] = nil /\ (o.src = sigma0 \/ Tree[o.src] # nil)
    <3>1. \A u \in Places : origin[u] # nil
      BY <1>1, MdbAssumption DEF MdbTypes
    <3> QED
      BY <2>3, <2>6, <2>8, <3>1 DEF TreeOf, InLine
  <2>12. Derivations!Derive(o.src, o.dst)
    BY <2>2, <2>5, <2>10, <2>11 DEF Derivations!Derive, Derivations!Held
  <2> QED
    BY <2>3, <2>12 DEF Derivations!DerivationNext
<1>9. CASE Lock(c)
  <2>1. UNCHANGED <<nodes, origin>> /\ doing[c] # nil /\ doing[c].at = "lock"
    BY <1>9 DEF Lock
  <2>2. doomed = nil
    BY <1>1, <2>1 DEF DbState, InFlush
  <2>3. Tree' = Tree
    BY <1>2, <2>1 DEF nodes
  <2>4. doomed' = nil \/ doomed'.before = Tree
    BY <1>9, <2>2 DEF Lock
  <2> QED
    BY <2>2, <2>3, <2>4 DEF Now
<1>10. CASE Visit(c)
  <2>1. doomed # nil /\ doomed' = doomed
    BY <1>1, <1>10 DEF Visit, DbState, InFlush
  <2> QED
    BY <2>1 DEF Now
<1>11. CASE Unlock(c)
  <2>1. PICK o : o = doing[c]
    OBVIOUS
  <2>2. /\ doomed # nil /\ o.src \in Places /\ o.self \in BOOLEAN
        /\ Region(o.size, o.piece) \in {Places} \cup {{p \in Small : PieceOf[p] = i} : i \in Indices}
        /\ doomed.before[o.src] # nil
        /\ doomed.set = (Derivations!Derived(doomed.before, o.src)
                               \cup (IF o.self THEN {o.src} ELSE {})) \cap Region(o.size, o.piece)
        /\ Tree' = [p \in Places |-> IF p \in doomed.set THEN nil ELSE doomed.before[p]]
        /\ doomed' = nil
    BY <1>11, <2>1, DbUnlock DEF Unlock
  <2>3. Derivations!Revoke(o.src, o.self, Region(o.size, o.piece))
    BY <2>2 DEF Derivations!Revoke, Derivations!Held
  <2> QED
    BY <2>2, <2>3 DEF Derivations!DerivationNext
<1> QED
  BY <1>4, <1>5, <1>6, <1>7, <1>8, <1>9, <1>10, <1>11 DEF MdbNext

-----------------------------------------------------------------------------
(* The mapping database: theorems                                         *)

\* Every valid page-table entry has a node and every node a valid entry, but for the
\* mapping map_fpage is about to enter; no node names a freed array; and the order of
\* the lists with their depths gives every mapping its parent: on one processor, for
\* any places, maps and flushes, if pages are mapped on as a whole and tree_depth does
\* not wrap around.
THEOREM LinksHold ==
    ASSUME OneProcessor, PagesWhole, DepthsSuffice
    PROVE  MdbSpec => []LinksSound
BY DbAlways, DbLinks, PTL

\* When mdb_flush returns, no entry that was derived from its mapping is left in what
\* it was asked to revoke, under the same premises.
THEOREM NothingLeft ==
    ASSUME OneProcessor, PagesWhole, DepthsSuffice
    PROVE  MdbSpec => []RevokedRecursively
BY DbAlways, DbRevoked, PTL

\* mdb_map adds one leaf to the tree of derivations, and mdb_flush takes out what was
\* derived from its mapping and nothing else, though it goes by the depths alone.
THEOREM ListsAreTheTree ==
    ASSUME OneProcessor, PagesWhole, DepthsSuffice
    PROVE  MdbSpec => ImplementsDerivation
<1>1. PICK c : Processors = {c}
  BY DEF OneProcessor
<1>2. MdbInit => Derivations!DerivationInit
  <2> SUFFICES ASSUME MdbInit PROVE Now = [p \in Places |-> nil]
    BY DEF Derivations!DerivationInit, Now
  <2>1. doomed = nil /\ pages = <<>> /\ pieces = [o \in Owners |-> NoPieces]
    BY DEF MdbInit
  <2>2. ASSUME NEW p \in Places PROVE ~HasNode(p)
    <3>1. \A o \in Owners : ~InPieces(o, p)
      BY <2>1, EmptyList, MdbAssumption DEF InPieces, NoPieces
    <3> QED
      BY <2>1, <3>1, EmptyList, MdbAssumption DEF HasNode, InPages
  <2> QED
    BY <2>1, <2>2 DEF Now, Tree
<1>3. DbInv /\ DbInv' /\ [MdbNext]_mdbVars => [Derivations!DerivationNext]_Now
  BY <1>1, DbDerives
<1> QED
  BY <1>2, <1>3, DbAlways, PTL DEF MdbSpec, ImplementsDerivation, Derivations!DerivationSpec, Now
==============================================================================
