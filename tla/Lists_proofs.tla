----------------------------- MODULE Lists_proofs -----------------------------
(* Facts about the lists of queueing.h, and about updating functions, that   *)
(* the proofs about the components share.                                    *)
EXTENDS Lists, Integers, WellFoundedInduction, TLAPS

\* Updating a function at one argument keeps its type.
LEMMA ExceptType ==
    ASSUME NEW S, NEW T, NEW f \in [S -> T], NEW x, NEW v \in T
    PROVE  [f EXCEPT ![x] = v] \in [S -> T]
OBVIOUS

\* Updating it outside its domain changes nothing.
LEMMA ExceptOutside ==
    ASSUME NEW S, NEW T, NEW f \in [S -> T], NEW x, x \notin S, NEW v
    PROVE  [f EXCEPT ![x] = v] = f
OBVIOUS

\* The empty queue is one.
LEMMA EmptyQueue == ASSUME NEW S PROVE <<>> \in Seq(S)
OBVIOUS

\* Removing a thread from a queue leaves a queue.
LEMMA WithoutType ==
    ASSUME NEW S, NEW q \in Seq(S), NEW t
    PROVE  Without(q, t) \in Seq(S)
<1>1. CASE ~InList(q, t)
  BY <1>1 DEF Without
<1>2. CASE InList(q, t)
  <2> DEFINE k == CHOOSE i \in 1..Len(q) : q[i] = t
  <2>1. k \in 1..Len(q)
    BY <1>2 DEF InList
  <2>2. Len(q) - 1 \in Nat
    BY <2>1
  <2>3. \A j \in 1..(Len(q) - 1) : q[IF j < k THEN j ELSE j + 1] \in S
    BY <2>1
  <2>4. Without(q, t) = [j \in 1..(Len(q) - 1) |-> q[IF j < k THEN j ELSE j + 1]]
    BY <1>2 DEF Without
  <2> QED
    BY <2>2, <2>3, <2>4
<1> QED
  BY <1>1, <1>2

\* Every member is in the list once.
Distinct(q) == \A i, j \in 1..Len(q) : q[i] = q[j] => i = j

\* Nobody is in an empty list.
LEMMA EmptyList == \A t : ~InList(<<>>, t)
BY DEF InList

\* Who is in a list with one more at its end.
LEMMA AppendMembers ==
    ASSUME NEW S, NEW q \in Seq(S), NEW t \in S
    PROVE  /\ \A u : InList(Append(q, t), u) <=> InList(q, u) \/ u = t
           /\ Distinct(q) /\ ~InList(q, t) => Distinct(Append(q, t))
<1> DEFINE a == Append(q, t)
<1>1. /\ Len(a) = Len(q) + 1 /\ Len(q) \in Nat /\ a[Len(q) + 1] = t
      /\ \A i \in 1..Len(q) : a[i] = q[i]
  OBVIOUS
<1>2. \A u : InList(a, u) <=> InList(q, u) \/ u = t
  BY <1>1 DEF InList
<1>3. Distinct(q) /\ ~InList(q, t) => Distinct(a)
  BY <1>1 DEF InList, Distinct
<1> QED
  BY <1>2, <1>3

\* Enqueueing at the head.
LEMMA HeadMembers ==
    ASSUME NEW S, NEW q \in Seq(S), NEW t \in S
    PROVE  /\ EnqueueHead(q, t) \in Seq(S)
           /\ \A u : InList(EnqueueHead(q, t), u) <=> InList(q, u) \/ u = t
<1> DEFINE a == <<t>> \o q
<1>1. /\ a \in Seq(S) /\ Len(a) = Len(q) + 1 /\ Len(q) \in Nat /\ a[1] = t
      /\ \A i \in 2..Len(a) : a[i] = q[i - 1]
  OBVIOUS
<1>2. ASSUME NEW u, InList(q, u) PROVE InList(a, u)
  <2>1. PICK i \in 1..Len(q) : q[i] = u
    BY <1>2 DEF InList
  <2>2. i + 1 \in 2..Len(a) /\ i = (i + 1) - 1
    BY <1>1
  <2>3. a[i + 1] = q[i]
    BY <1>1, <2>2
  <2>4. i + 1 \in 1..Len(a)
    BY <1>1
  <2> QED
    BY <2>1, <2>3, <2>4 DEF InList
<1>3. ASSUME NEW u, InList(a, u) PROVE InList(q, u) \/ u = t
  <2>1. PICK i \in 1..Len(a) : a[i] = u
    BY <1>3 DEF InList
  <2>2. CASE i = 1
    BY <1>1, <2>1, <2>2
  <2>3. CASE i # 1
    <3>1. i \in 2..Len(a) /\ i - 1 \in 1..Len(q)
      BY <1>1, <2>3
    <3>2. q[i - 1] = u
      BY <1>1, <2>1, <3>1
    <3> QED
      BY <3>1, <3>2 DEF InList
  <2> QED
    BY <2>2, <2>3
<1>4. InList(a, t)
  <2>1. 1 \in 1..Len(a)
    BY <1>1
  <2> QED
    BY <1>1, <2>1 DEF InList
<1> QED
  BY <1>1, <1>2, <1>3, <1>4 DEF EnqueueHead

\* Enqueueing one that is not in the list.
LEMMA HeadDistinct ==
    ASSUME NEW S, NEW q \in Seq(S), NEW t \in S, Distinct(q), ~InList(q, t)
    PROVE  Distinct(EnqueueHead(q, t))
<1> DEFINE a == <<t>> \o q
<1>1. /\ Len(a) = Len(q) + 1 /\ Len(q) \in Nat /\ a[1] = t
      /\ \A i \in 2..Len(a) : a[i] = q[i - 1] /\ i - 1 \in 1..Len(q)
      /\ \A i \in 1..Len(a) : i = 1 \/ i \in 2..Len(a)
  OBVIOUS
<1> HIDE DEF a
<1>2. ASSUME NEW i \in 1..Len(a), NEW j \in 1..Len(a), a[i] = a[j] PROVE i = j
  <2>1. CASE i = 1 /\ j # 1
    BY <1>1, <1>2, <2>1 DEF InList
  <2>2. CASE i # 1 /\ j = 1
    BY <1>1, <1>2, <2>2 DEF InList
  <2>3. CASE i # 1 /\ j # 1
    BY <1>1, <1>2, <2>3 DEF Distinct
  <2> QED
    BY <2>1, <2>2, <2>3
<1> QED
  BY <1>2 DEF Distinct, EnqueueHead, a

\* dequeue takes exactly one member out of a list that holds it once.
LEMMA WithoutMembers ==
    ASSUME NEW S, NEW q \in Seq(S), NEW t
    PROVE  /\ \A u : u # t => (InList(Without(q, t), u) <=> InList(q, u))
           /\ \A u : InList(Without(q, t), u) => InList(q, u)
           /\ Distinct(q) => Distinct(Without(q, t)) /\ ~InList(Without(q, t), t)
<1>1. CASE ~InList(q, t)
  BY <1>1 DEF Without
<1>2. CASE InList(q, t)
  <2> DEFINE k == CHOOSE i \in 1..Len(q) : q[i] = t
             w == Without(q, t)
  <2>1. k \in 1..Len(q) /\ q[k] = t
    BY <1>2 DEF InList
  <2>2. w = [j \in 1..(Len(q) - 1) |-> q[IF j < k THEN j ELSE j + 1]]
    BY <1>2 DEF Without
  <2> HIDE DEF k
  <2>3. Len(q) \in Nat /\ Len(q) - 1 \in Nat
    BY <2>1
  <2>4. Len(w) = Len(q) - 1 /\ \A j \in 1..Len(w) : w[j] = q[IF j < k THEN j ELSE j + 1]
    BY <2>2, <2>3
  <2> HIDE DEF w
  <2>5. ASSUME NEW u, InList(w, u) PROVE InList(q, u)
    BY <2>1, <2>3, <2>4, <2>5 DEF InList
  <2>6. ASSUME NEW u, u # t, InList(q, u) PROVE InList(w, u)
    <3>1. PICK i \in 1..Len(q) : q[i] = u
      BY <2>6 DEF InList
    <3>2. CASE i < k
      <4>1. i \in 1..Len(w) /\ w[i] = u
        BY <2>1, <2>3, <2>4, <3>1, <3>2
      <4> QED
        BY <4>1 DEF InList
    <3>3. CASE i > k
      <4>1. i - 1 \in 1..Len(w) /\ w[i - 1] = u
        BY <2>1, <2>3, <2>4, <3>1, <3>3
      <4> QED
        BY <4>1 DEF InList
    <3> QED
      BY <2>1, <2>6, <3>1, <3>2, <3>3
  <2>7. ASSUME Distinct(q) PROVE Distinct(w) /\ ~InList(w, t)
    <3> DEFINE n(j) == IF j < k THEN j ELSE j + 1
    <3>1. \A j \in 1..Len(w) : n(j) \in 1..Len(q) /\ n(j) # k /\ w[j] = q[n(j)]
      BY <2>1, <2>3, <2>4
    <3>2. \A i, j \in 1..Len(w) : n(i) = n(j) => i = j
      BY <2>1, <2>3, <2>4
    <3> HIDE DEF n
    <3>3. Distinct(w)
      BY <2>7, <3>1, <3>2 DEF Distinct
    <3>4. ~InList(w, t)
      BY <2>1, <2>7, <3>1 DEF Distinct, InList
    <3> QED
      BY <3>3, <3>4
  <2> QED
    BY <2>5, <2>6, <2>7 DEF w
<1> QED
  BY <1>1, <1>2

\* The head of a list is in it.
LEMMA HeadInList ==
    ASSUME NEW S, NEW q \in Seq(S), q # <<>>
    PROVE  Head(q) \in S /\ InList(q, Head(q))
<1>1. 1 \in 1..Len(q) /\ Head(q) = q[1]
  OBVIOUS
<1> QED
  BY <1>1 DEF InList

\* A set of natural numbers has a least one.
LEMMA LeastIndex ==
    ASSUME NEW T \in SUBSET Nat, T # {}
    PROVE  \E i \in T : \A j \in T : i <= j
<1>1. PICK i \in T : \A j \in T : <<j, i>> \notin OpToRel(<, Nat)
  BY NatLessThanWellFounded, WFMin
<1>2. i \in Nat
  OBVIOUS
<1>3. ASSUME NEW j \in T PROVE i <= j
  <2>1. j \in Nat
    OBVIOUS
  <2>2. ~ j < i
    BY <1>1, <1>2, <2>1 DEF OpToRel
  <2> QED
    BY <1>2, <2>1, <2>2
<1> QED
  BY <1>3

\* Of the list's members with some property one comes first.
LEMMA FirstMember ==
    ASSUME NEW S, NEW q \in Seq(S), NEW M, NEW t \in M, InList(q, t)
    PROVE  \E s \in M : \E i \in 1..Len(q) : q[i] = s /\ \A j \in 1..(i - 1) : q[j] \notin M
<1> DEFINE T == {i \in 1..Len(q) : q[i] \in M}
<1>1. PICK k \in 1..Len(q) : q[k] = t
  BY DEF InList
<1>2. T \in SUBSET Nat /\ T # {} /\ \A i \in T : i \in 1..Len(q)
  BY <1>1
<1>3. PICK i \in T : \A j \in T : i <= j
  <2> HIDE DEF T
  <2> QED
    BY <1>2, LeastIndex
<1>4. i \in 1..Len(q) /\ q[i] \in M
  BY <1>3
<1>5. ASSUME NEW j \in 1..(i - 1) PROVE q[j] \notin M
  <2>1. j \in 1..Len(q) /\ ~ i <= j
    BY <1>4
  <2> QED
    BY <1>3, <2>1
<1> QED
  BY <1>4, <1>5

\* Induction, for a set of natural numbers.
LEMMA Induction ==
    ASSUME NEW S, 0 \in S, \A n \in Nat : n \in S => n + 1 \in S
    PROVE  \A n \in Nat : n \in S
<1> DEFINE T == {n \in Nat : n \notin S}
<1>1. SUFFICES ASSUME T # {} PROVE FALSE
  OBVIOUS
<1>2. PICK n \in T : \A m \in T : n <= m
  <2> T \in SUBSET Nat
    OBVIOUS
  <2> HIDE DEF T
  <2> QED
    BY <1>1, LeastIndex
<1>3. n \in Nat /\ n \notin S /\ n # 0
  BY <1>2
<1>4. n - 1 \in Nat /\ ~(n <= n - 1)
  BY <1>3
<1>5. n - 1 \in S
  BY <1>2, <1>4
<1> QED
  BY <1>3, <1>4, <1>5

\* Function f computes N steps of h, from `a' on.
Computes(f, N, a, h) == f[0] = a /\ \A i \in 1..N : f[i] = h[i][f[i - 1]]

\* What is computed step by step is a function of the step.
LEMMA Recursion ==
    ASSUME NEW N \in Nat, NEW T, NEW a \in T, NEW h \in [1..N -> [T -> T]]
    PROVE  \E f \in [0..N -> T] : Computes(f, N, a, h)
<1> DEFINE S == {n \in Nat : n <= N => \E f \in [0..n -> T] : Computes(f, n, a, h)}
<1>1. 0 \in S
  <2>1. [i \in 0..0 |-> a] \in [0..0 -> T] /\ Computes([i \in 0..0 |-> a], 0, a, h)
    BY DEF Computes
  <2> QED
    BY <2>1
<1>2. ASSUME NEW n \in Nat, n \in S PROVE n + 1 \in S
  <2>1. SUFFICES ASSUME n + 1 <= N PROVE \E f \in [0..(n + 1) -> T] : Computes(f, n + 1, a, h)
    OBVIOUS
  <2>2. n <= N
    BY <2>1
  <2>3. PICK f \in [0..n -> T] : Computes(f, n, a, h)
    BY <1>2, <2>2
  <2> DEFINE g == [i \in 0..(n + 1) |-> IF i = n + 1 THEN h[n + 1][f[n]] ELSE f[i]]
  <2>4. n \in 0..n /\ n + 1 \in 1..N /\ f[n] \in T
    BY <2>1
  <2>5. h[n + 1][f[n]] \in T
    BY <2>4
  <2>6. g \in [0..(n + 1) -> T]
    BY <2>5
  <2>7. Computes(g, n + 1, a, h)
    BY <2>3 DEF Computes
  <2> QED
    BY <2>6, <2>7
<1>3. \A n \in Nat : n \in S
  <2> HIDE DEF S
  <2> QED
    BY <1>1, <1>2, Induction
<1> QED
  BY <1>3

\* What Among computes, member by member.
AmongComputes(q, M, f) ==
    /\ f[0] = <<>> /\ Among(q, M) = f[Len(q)]
    /\ \A n \in 1..Len(q) : f[n] = IF q[n] \in M THEN Append(f[n - 1], q[n]) ELSE f[n - 1]

\* It does.
LEMMA AmongSteps ==
    ASSUME NEW S, NEW q \in Seq(S), NEW M
    PROVE  \E f \in [0..Len(q) -> Seq(S)] : AmongComputes(q, M, f)
<1> DEFINE D == 0..Len(q)
           g == CHOOSE f : f = [n \in D |->
                    IF n = 0 THEN <<>>
                    ELSE IF q[n] \in M THEN Append(f[n - 1], q[n]) ELSE f[n - 1]]
           h == [n \in 1..Len(q) |-> [s \in Seq(S) |-> IF q[n] \in M THEN Append(s, q[n]) ELSE s]]
<1>1. Among(q, M) = g[Len(q)]
  BY DEF Among
<1>2. Len(q) \in Nat /\ <<>> \in Seq(S)
  OBVIOUS
<1>3. h \in [1..Len(q) -> [Seq(S) -> Seq(S)]]
  OBVIOUS
<1>4. PICK f \in [0..Len(q) -> Seq(S)] : f[0] = <<>> /\ \A n \in 1..Len(q) : f[n] = h[n][f[n - 1]]
  <2> DEFINE Z == Seq(S)
             N == Len(q)
             a == <<>>
  <2>1. N \in Nat /\ a \in Z /\ h \in [1..N -> [Z -> Z]]
    BY <1>2, <1>3
  <2> HIDE DEF h, Z, N, a
  <2>2. \E f \in [0..N -> Z] : Computes(f, N, a, h)
    BY <2>1, Recursion
  <2> QED
    BY <2>2 DEF Z, N, a, Computes
<1>5. ASSUME NEW n \in 1..Len(q)
      PROVE  f[n] = IF q[n] \in M THEN Append(f[n - 1], q[n]) ELSE f[n - 1]
  <2>1. n - 1 \in 0..Len(q) /\ f[n - 1] \in Seq(S)
    BY <1>2
  <2>2. f[n] = h[n][f[n - 1]]
    BY <1>4
  <2>3. h[n] = [s \in Seq(S) |-> IF q[n] \in M THEN Append(s, q[n]) ELSE s]
    OBVIOUS
  <2> QED
    BY <2>1, <2>2, <2>3
<1> HIDE DEF h
<1> DEFINE step(w) == [n \in D |-> IF n = 0 THEN <<>>
                          ELSE IF q[n] \in M THEN Append(w[n - 1], q[n]) ELSE w[n - 1]]
<1>6. f = step(f)
  <2>1. f = [n \in D |-> f[n]]
    BY <1>4
  <2>2. ASSUME NEW n \in D PROVE f[n] = step(f)[n]
    <3>1. CASE n = 0
      BY <1>4, <3>1
    <3>2. CASE n # 0
      <4>1. n \in 1..Len(q)
        BY <1>2, <3>2
      <4> QED
        BY <1>5, <3>2, <4>1
    <3> QED
      BY <3>1, <3>2
  <2> QED
    BY <2>1, <2>2
<1>7. g = step(g)
  <2>1. g = CHOOSE w : w = step(w)
    OBVIOUS
  <2> HIDE DEF g, step
  <2> QED
    BY <1>6, <2>1
<1> HIDE DEF g
<1>8. /\ g[0] = <<>>
      /\ \A n \in 1..Len(q) : g[n] = IF q[n] \in M THEN Append(g[n - 1], q[n]) ELSE g[n - 1]
  <2>1. \A n \in D : g[n] = step(g)[n]
    BY <1>7
  <2>2. 0 \in D /\ \A n \in 1..Len(q) : n \in D /\ n # 0
    BY <1>2
  <2> QED
    BY <2>1, <2>2
<1>9. \A n \in D : g[n] \in Seq(S)
  <2> DEFINE T == {n \in Nat : n <= Len(q) => g[n] \in Seq(S)}
  <2>1. 0 \in T
    BY <1>2, <1>8
  <2>2. ASSUME NEW n \in Nat, n \in T PROVE n + 1 \in T
    <3>1. CASE n + 1 <= Len(q)
      <4>1. n + 1 \in 1..Len(q) /\ (n + 1) - 1 = n /\ n <= Len(q)
        BY <1>2, <3>1
      <4>2. g[n] \in Seq(S) /\ q[n + 1] \in S
        BY <2>2, <4>1
      <4>3. g[n + 1] = IF q[n + 1] \in M THEN Append(g[n], q[n + 1]) ELSE g[n]
        BY <1>8, <4>1
      <4>4. g[n + 1] \in Seq(S)
        BY <4>2, <4>3
      <4> QED
        BY <4>4
    <3>2. CASE ~(n + 1 <= Len(q))
      BY <3>2
    <3> QED
      BY <3>1, <3>2
  <2>3. \A n \in Nat : n \in T
    <3> HIDE DEF T
    <3> QED
      BY <2>1, <2>2, Induction
  <2> QED
    BY <1>2, <2>3
<1>10. g \in [0..Len(q) -> Seq(S)]
  BY <1>7, <1>9
<1>11. AmongComputes(q, M, g)
  BY <1>1, <1>8 DEF AmongComputes
<1> QED
  BY <1>10, <1>11

\* Who is left, and that nobody is in it twice who was not so before.
LEMMA AmongMembers ==
    ASSUME NEW S, NEW q \in Seq(S), NEW M
    PROVE  /\ Among(q, M) \in Seq(S)
           /\ \A u : InList(Among(q, M), u) <=> InList(q, u) /\ u \in M
           /\ Distinct(q) => Distinct(Among(q, M))
<1>0. PICK f \in [0..Len(q) -> Seq(S)] : AmongComputes(q, M, f)
  BY AmongSteps
<1>1. /\ f[0] = <<>> /\ Among(q, M) = f[Len(q)]
      /\ \A n \in 1..Len(q) :
             f[n] = IF q[n] \in M THEN Append(f[n - 1], q[n]) ELSE f[n - 1]
  BY <1>0 DEF AmongComputes
<1> DEFINE Upto(n, u) == \E i \in 1..n : q[i] = u
           Members(n) == \A u : InList(f[n], u) <=> Upto(n, u) /\ u \in M
           Once(n) == Distinct(q) => Distinct(f[n])
           T == {n \in Nat : n <= Len(q) => Members(n) /\ Once(n)}
<1>2. Len(q) \in Nat
  OBVIOUS
<1>3. 0 \in T
  BY <1>1 DEF InList, Distinct
<1>4. ASSUME NEW n \in Nat, n \in T PROVE n + 1 \in T
  <2>1. SUFFICES ASSUME n + 1 <= Len(q) PROVE Members(n + 1) /\ Once(n + 1)
    OBVIOUS
  <2>2. n + 1 \in 1..Len(q) /\ (n + 1) - 1 = n /\ n <= Len(q) /\ n \in 0..Len(q)
    BY <1>2, <2>1
  <2>3. Members(n) /\ Once(n)
    BY <1>4, <2>2
  <2>4. f[n] \in Seq(S) /\ q[n + 1] \in S
    BY <2>2
  <2>5. f[n + 1] = IF q[n + 1] \in M THEN Append(f[n], q[n + 1]) ELSE f[n]
    BY <1>1, <2>2
  <2>6. \A u : Upto(n + 1, u) <=> Upto(n, u) \/ u = q[n + 1]
    <3>1. 1..(n + 1) = 1..n \cup {n + 1}
      OBVIOUS
    <3> QED
      BY <3>1
  <2>7. Distinct(q) => ~Upto(n, q[n + 1])
    BY <2>2 DEF Distinct
  <2> HIDE DEF Upto
  <2>8. CASE q[n + 1] \in M
    <3>1. f[n + 1] = Append(f[n], q[n + 1])
      BY <2>5, <2>8
    <3>2. /\ \A u : InList(f[n + 1], u) <=> InList(f[n], u) \/ u = q[n + 1]
          /\ Distinct(f[n]) /\ ~InList(f[n], q[n + 1]) => Distinct(f[n + 1])
      BY <2>4, <3>1, AppendMembers
    <3>3. Members(n + 1)
      BY <2>3, <2>6, <2>8, <3>2
    <3>4. Once(n + 1)
      BY <2>3, <2>7, <3>2
    <3> QED
      BY <3>3, <3>4
  <2>9. CASE q[n + 1] \notin M
    <3>1. f[n + 1] = f[n]
      BY <2>5, <2>9
    <3> QED
      BY <2>3, <2>6, <2>9, <3>1
  <2> QED
    BY <2>8, <2>9
<1>5. \A n \in Nat : n \in T
  <2> HIDE DEF T
  <2> QED
    BY <1>3, <1>4, Induction
<1>6. Members(Len(q)) /\ Once(Len(q))
  <2> HIDE DEF Members, Once
  <2> QED
    BY <1>2, <1>5
<1>7. Among(q, M) \in Seq(S)
  BY <1>1, <1>2
<1> QED
  BY <1>1, <1>6, <1>7 DEF InList

\* A set of natural numbers with a bound has a greatest one.
LEMMA GreatestIndex ==
    ASSUME NEW T \in SUBSET Nat, T # {}, NEW m \in Nat, \A i \in T : i <= m
    PROVE  \E i \in T : \A j \in T : j <= i
<1> DEFINE U == {k \in Nat : \A i \in T : i <= k}
<1>1. U \in SUBSET Nat /\ U # {}
  OBVIOUS
<1>2. PICK k \in U : \A j \in U : k <= j
  <2> HIDE DEF U
  <2> QED
    BY <1>1, LeastIndex
<1>3. k \in Nat /\ \A i \in T : i \in Nat /\ i <= k
  BY <1>2
<1>4. k \in T
  <2>1. SUFFICES ASSUME k \notin T PROVE FALSE
    OBVIOUS
  <2>2. PICK i \in T : TRUE
    OBVIOUS
  <2>3. k - 1 \in Nat /\ \A j \in T : j <= k - 1
    BY <1>3, <2>1, <2>2
  <2>4. k - 1 \in U /\ ~(k <= k - 1)
    BY <1>3, <2>3
  <2> QED
    BY <1>2, <2>4
<1> QED
  BY <1>3, <1>4

\* Two lists, one behind the other.
LEMMA ConcatMembers ==
    ASSUME NEW S, NEW q \in Seq(S), NEW r \in Seq(S)
    PROVE  /\ q \o r \in Seq(S)
           /\ \A u : InList(q \o r, u) <=> InList(q, u) \/ InList(r, u)
           /\ Distinct(q) /\ Distinct(r) /\ (\A u : ~(InList(q, u) /\ InList(r, u)))
                  => Distinct(q \o r)
<1> DEFINE c == q \o r
           n == Len(q)
           m == Len(r)
<1>1. /\ c \in Seq(S) /\ Len(c) = n + m /\ n \in Nat /\ m \in Nat
      /\ \A i \in 1..n : c[i] = q[i]
      /\ \A i \in (n + 1)..(n + m) : c[i] = r[i - n]
  OBVIOUS
<1>2. ASSUME NEW i \in 1..Len(c) PROVE i \in 1..n \/ (i \in (n + 1)..(n + m) /\ i - n \in 1..m)
  BY <1>1
<1>3. /\ \A i \in 1..n : i \in 1..Len(c)
      /\ \A i \in 1..m : i + n \in (n + 1)..(n + m) /\ i + n \in 1..Len(c) /\ (i + n) - n = i
  BY <1>1
<1> HIDE DEF c
<1>4. \A u : InList(c, u) => InList(q, u) \/ InList(r, u)
  BY <1>1, <1>2 DEF InList
<1>5. ASSUME NEW u, InList(q, u) PROVE InList(c, u)
  <2>1. PICK i \in 1..n : q[i] = u
    BY <1>5 DEF InList
  <2> QED
    BY <1>1, <1>3, <2>1 DEF InList
<1>6. ASSUME NEW u, InList(r, u) PROVE InList(c, u)
  <2>1. PICK i \in 1..m : r[i] = u
    BY <1>6 DEF InList
  <2>2. c[i + n] = u /\ i + n \in 1..Len(c)
    BY <1>1, <1>3, <2>1
  <2> QED
    BY <2>2 DEF InList
<1>7. ASSUME Distinct(q), Distinct(r), \A u : ~(InList(q, u) /\ InList(r, u)),
             NEW i \in 1..Len(c), NEW j \in 1..Len(c), c[i] = c[j]
      PROVE  i = j
  <2>1. CASE i \in 1..n /\ j \in 1..n
    BY <1>1, <1>7, <2>1 DEF Distinct
  <2>2. CASE i \in 1..n /\ j \notin 1..n
    <3>1. c[i] = q[i] /\ c[j] = r[j - n] /\ j - n \in 1..m
      BY <1>1, <1>2, <1>7, <2>2
    <3>2. InList(q, c[i]) /\ InList(r, c[j])
      BY <2>2, <3>1 DEF InList
    <3> QED
      BY <1>7, <3>2
  <2>3. CASE i \notin 1..n /\ j \in 1..n
    <3>1. c[j] = q[j] /\ c[i] = r[i - n] /\ i - n \in 1..m
      BY <1>1, <1>2, <1>7, <2>3
    <3>2. InList(q, c[j]) /\ InList(r, c[i])
      BY <2>3, <3>1 DEF InList
    <3> QED
      BY <1>7, <3>2
  <2>4. CASE i \notin 1..n /\ j \notin 1..n
    <3>1. /\ c[i] = r[i - n] /\ i - n \in 1..m
          /\ c[j] = r[j - n] /\ j - n \in 1..m
      BY <1>1, <1>2, <2>4
    <3>2. i - n = j - n
      BY <1>7, <3>1 DEF Distinct
    <3> QED
      BY <1>1, <3>2
  <2> QED
    BY <2>1, <2>2, <2>3, <2>4
<1> QED
  BY <1>1, <1>4, <1>5, <1>6, <1>7 DEF c, Distinct

\* A part of a list, from a place in it to another.
LEMMA SubSeqMembers ==
    ASSUME NEW S, NEW q \in Seq(S), NEW a \in 1..(Len(q) + 1), NEW b \in 0..Len(q), a <= b + 1
    PROVE  /\ SubSeq(q, a, b) \in Seq(S)
           /\ \A u : InList(SubSeq(q, a, b), u) <=> \E i \in a..b : q[i] = u
           /\ Distinct(q) => Distinct(SubSeq(q, a, b))
<1> DEFINE c == SubSeq(q, a, b)
<1>1. /\ c \in Seq(S) /\ Len(c) = (b - a) + 1 /\ Len(q) \in Nat
      /\ \A i \in 1..Len(c) : c[i] = q[(a + i) - 1]
  OBVIOUS
<1>2. \A i \in 1..Len(c) : (a + i) - 1 \in a..b /\ (a + i) - 1 \in 1..Len(q)
  BY <1>1
<1>3. \A i \in a..b : (i - a) + 1 \in 1..Len(c) /\ (a + ((i - a) + 1)) - 1 = i
  BY <1>1
<1> HIDE DEF c
<1>4. \A u : InList(c, u) => \E i \in a..b : q[i] = u
  BY <1>1, <1>2 DEF InList
<1>5. ASSUME NEW i \in a..b PROVE InList(c, q[i])
  <2>1. c[(i - a) + 1] = q[i] /\ (i - a) + 1 \in 1..Len(c)
    BY <1>1, <1>3
  <2> QED
    BY <2>1 DEF InList
<1>6. ASSUME Distinct(q) PROVE Distinct(c)
  <2>1. ASSUME NEW i \in 1..Len(c), NEW j \in 1..Len(c), c[i] = c[j] PROVE i = j
    <3>1. (a + i) - 1 = (a + j) - 1
      BY <1>1, <1>2, <1>6, <2>1 DEF Distinct
    <3> QED
      BY <1>1, <3>1
  <2> QED
    BY <2>1 DEF Distinct
<1> QED
  BY <1>1, <1>4, <1>5, <1>6 DEF c

\* A list that is turned: it starts behind the place i and goes round.
LEMMA TurnedMembers ==
    ASSUME NEW S, NEW q \in Seq(S), NEW i \in 1..Len(q)
    PROVE  LET r == SubSeq(q, i + 1, Len(q)) \o SubSeq(q, 1, i)
           IN  /\ r \in Seq(S)
               /\ \A u : InList(r, u) <=> InList(q, u)
               /\ Distinct(q) => Distinct(r)
<1> DEFINE x == SubSeq(q, i + 1, Len(q))
           y == SubSeq(q, 1, i)
           n == Len(q)
<1>1. n \in Nat /\ i \in Nat /\ i + 1 \in 1..(n + 1) /\ n \in 0..n /\ 1 \in 1..(n + 1) /\ i \in 0..n
  OBVIOUS
<1>2. /\ x \in Seq(S)
      /\ \A u : InList(x, u) <=> \E k \in (i + 1)..n : q[k] = u
      /\ Distinct(q) => Distinct(x)
  BY <1>1, SubSeqMembers
<1>3. /\ y \in Seq(S)
      /\ \A u : InList(y, u) <=> \E k \in 1..i : q[k] = u
      /\ Distinct(q) => Distinct(y)
  BY <1>1, SubSeqMembers
<1> HIDE DEF x, y
<1>4. 1..n = 1..i \cup (i + 1)..n
  BY <1>1
<1>5. \A u : InList(q, u) <=> InList(x, u) \/ InList(y, u)
  BY <1>2, <1>3, <1>4 DEF InList
<1>6. ASSUME Distinct(q), NEW u, InList(x, u), InList(y, u) PROVE FALSE
  <2>1. PICK k \in (i + 1)..n : q[k] = u
    BY <1>2, <1>6
  <2>2. PICK j \in 1..i : q[j] = u
    BY <1>3, <1>6
  <2>3. k = j
    BY <1>1, <1>6, <2>1, <2>2 DEF Distinct
  <2> QED
    BY <1>1, <2>3
<1>7. /\ x \o y \in Seq(S)
      /\ \A u : InList(x \o y, u) <=> InList(x, u) \/ InList(y, u)
      /\ Distinct(x) /\ Distinct(y) /\ (\A u : ~(InList(x, u) /\ InList(y, u))) => Distinct(x \o y)
  BY <1>2, <1>3, ConcatMembers
<1> QED
  BY <1>2, <1>3, <1>5, <1>6, <1>7 DEF x, y
===============================================================================
