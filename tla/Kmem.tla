-------------------------------- MODULE Kmem --------------------------------
(* The kernel memory allocator (generic/kmemory.cc): a list of free chunks  *)
(* in address order, searched from its start.  Every operation holds the    *)
(* allocator's spinlock from its first access to the list to its last, so   *)
(* each is one step.  Chunks are counted from address 0, in units of        *)
(* KMEM_CHUNKSIZE; a list element is the chunk, its pointer the next one.   *)
EXTENDS Integers, Sequences, FiniteSets

CONSTANTS
    Regions,        \* memory the boot code hands over: init and add
    Requests        \* what the kernel allocates: [size, alignment, mask]

run(a, n) == a..(a + n - 1)
chunks(b) == run(b.first, b.size)

\* Sizes are powers of two: curr & (size - 1) is then the remainder.  The mask
\* of alloc_aligned selects the low bits of the chunk number; alloc has none.
ASSUME KmemAssumption ==
    /\ \A r \in Regions : r.first \in Nat \ {0} /\ r.size \in Nat \ {0}
    /\ \A r, s \in Regions : r # s => chunks(r) \cap chunks(s) = {}
    /\ \A q \in Requests :
        /\ q.size \in Nat \ {0} /\ \E k \in 0..q.size : q.size = 2^k
        /\ q.mask \in Nat \ {0} /\ q.alignment \in Nat

VARIABLES
    kmem_free_list, free_chunks,
    added,      \* regions handed over so far
    blocks      \* [first, size]: what the kernel holds

kmemVars == <<kmem_free_list, free_chunks, added, blocks>>

KmemInit ==
    /\ kmem_free_list = <<>> /\ free_chunks = 0
    /\ added = {} /\ blocks = {}

-----------------------------------------------------------------------------

\* As Fits, without the test that the run is contiguous.
FitsMut(i, size) ==
    kmem_free_list[i] % size = 0 /\ i + size <= Len(kmem_free_list)

\* The run at position i of the list is taken only if a chunk follows it:
\* tmp has moved past the run and must not be NULL.
Fits(i, size) ==
    /\ kmem_free_list[i] % size = 0
    /\ i + size <= Len(kmem_free_list)
    /\ \A k \in 1..(size - 1) : kmem_free_list[i + k] = kmem_free_list[i] + k

Candidates(size, alignment, mask) ==
    {i \in 1..Len(kmem_free_list) :
        Fits(i, size) /\ kmem_free_list[i] % mask = alignment % mask}

FirstOf(I) == CHOOSE i \in I : \A j \in I : i <= j

\* The run at position i leaves the list.
Dequeue(i, size) ==
    /\ kmem_free_list' = SubSeq(kmem_free_list, 1, i - 1)
            \o SubSeq(kmem_free_list, i + size, Len(kmem_free_list))
    /\ free_chunks' = free_chunks - size

\* The chunks from address on enter the list, before the first one above them.
Enqueue(address, size) ==
    /\ LET above == {i \in 1..Len(kmem_free_list) : kmem_free_list[i] >= address}
           at == IF above = {} THEN Len(kmem_free_list) + 1 ELSE FirstOf(above)
       IN kmem_free_list' = SubSeq(kmem_free_list, 1, at - 1)
                \o [k \in 1..size |-> address + k - 1]
                \o SubSeq(kmem_free_list, at, Len(kmem_free_list))
    /\ free_chunks' = free_chunks + size

\* Take the first run that fits; without one the kernel enters the debugger.
Take(size, alignment, mask) ==
    LET I == Candidates(size, alignment, mask)
    IN I # {} /\ Dequeue(FirstOf(I), size)

Found(size, alignment, mask) == kmem_free_list[FirstOf(Candidates(size, alignment, mask))]

-----------------------------------------------------------------------------

\* init for the boot memory, add for what the memory descriptors name.
Add(r) ==
    /\ r \notin added
    /\ added' = added \cup {r}
    /\ Enqueue(r.first, r.size)
    /\ UNCHANGED blocks

\* alloc and alloc_aligned by some part of the kernel.
Alloc(q) ==
    /\ Take(q.size, q.alignment, q.mask)
    /\ blocks' = blocks \cup
            {[first |-> Found(q.size, q.alignment, q.mask), size |-> q.size]}
    /\ UNCHANGED added

Free(b) ==
    /\ Enqueue(b.first, b.size)
    /\ blocks' = blocks \ {b}
    /\ UNCHANGED added

\* Some blocks are given back in two parts: an address space and the page
\* directory behind it.
FreePart(b, size) ==
    /\ size < b.size
    /\ Enqueue(b.first, size)
    /\ blocks' = (blocks \ {b}) \cup
            {[first |-> b.first + size, size |-> b.size - size]}
    /\ UNCHANGED added

KmemNext ==
    \/ \E r \in Regions : Add(r)
    \/ \E q \in Requests : Alloc(q)
    \/ \E b \in blocks : Free(b) \/ FreePart(b, b.size \div 2)

-----------------------------------------------------------------------------

memory == UNION {chunks(r) : r \in added}

\* The list is in address order and as long as the counter says.
ListOrdered ==
    /\ kmem_free_list \in Seq(Nat) /\ free_chunks = Len(kmem_free_list)
    /\ \A i, j \in 1..Len(kmem_free_list) :
        i < j => kmem_free_list[i] < kmem_free_list[j]

\* Free chunks and the blocks of B partition the memory handed over.
Partition(B) ==
    LET free == {kmem_free_list[i] : i \in 1..Len(kmem_free_list)}
    IN /\ memory = free \cup UNION {chunks(b) : b \in B}
       /\ \A b \in B : chunks(b) \cap free = {}
       /\ \A b, c \in B : b # c => chunks(b) \cap chunks(c) = {}
=============================================================================
