----------------------------- MODULE MdbBuffers -----------------------------
(* The buffers of the mapping database (generic/mapping_alloc.cc) on top of *)
(* the kernel memory allocator.  A frame of MDB_ALLOC_CHUNKSZ bytes is cut  *)
(* into buffers of one size behind its management structure, which links    *)
(* the frames that have a free buffer; the structure of a buffer's frame is *)
(* found by masking the address.  Every caller in generic/mapping.cc holds  *)
(* mdb_lock, so an operation is one step.  Buffers of a chunk or more are   *)
(* blocks of Kmem.                                                          *)
EXTENDS Kmem

CONSTANTS
    none,
    Lists,          \* mdb_buflists: one for every size below a chunk
    MaxFree,        \* max_free: the buffers of a frame
    FrameChunks     \* MDB_ALLOC_CHUNKSZ / KMEM_CHUNKSIZE

\* A buffer is smaller than a quarter of a frame.
ASSUME MdbBuffersAssumption ==
    /\ MaxFree \in [Lists -> Nat] /\ \A l \in Lists : MaxFree[l] >= 2
    /\ FrameChunks \in Nat \ {0} /\ \E k \in 0..FrameChunks : FrameChunks = 2^k
    /\ none \notin Nat

VARIABLES
    mng,                \* the management structures of the frames in use
    list_of_lists,      \* the first frame of every list that has a free buffer
    taken               \* <<frame, slot>>: the buffers in use

buffersVars == <<kmemVars, mng, list_of_lists, taken>>

BuffersInit ==
    /\ KmemInit
    /\ mng = [f \in {} |-> none]
    /\ list_of_lists = [l \in Lists |-> none]
    /\ taken = {}

frames == DOMAIN mng

-----------------------------------------------------------------------------

\* A frame fresh from kmem.alloc, its buffers linked in order.
Fresh(l) ==
    [bl |-> l, freelist |-> [s \in 1..MaxFree[l] |-> s], num_free |-> MaxFree[l],
     next_freelist |-> none, prev_freelist |-> none]

SetPrev(m, f, g) == IF f = none THEN m ELSE [m EXCEPT ![f].prev_freelist = g]
SetNext(m, f, g) == IF f = none THEN m ELSE [m EXCEPT ![f].next_freelist = g]

\* As Pop, the next frame keeps its link to the full one.
PopMut(l, f, m) ==
    LET p == m[f]
        popped == [m EXCEPT ![f].freelist = Tail(@), ![f].num_free = @ - 1]
    IN /\ taken' = taken \cup {<<f, Head(p.freelist)>>}
       /\ list_of_lists' = [list_of_lists EXCEPT
                ![l] = IF p.num_free = 1 THEN p.next_freelist ELSE f]
       /\ mng' = popped

\* Take the first buffer of frame f of list l, with the structures m; a frame
\* without another one leaves the list.
Pop(l, f, m) ==
    LET p == m[f]
        popped == [m EXCEPT ![f].freelist = Tail(@), ![f].num_free = @ - 1]
        full == p.num_free = 1
    IN /\ taken' = taken \cup {<<f, Head(p.freelist)>>}
       /\ list_of_lists' = [list_of_lists EXCEPT
                ![l] = IF full THEN p.next_freelist ELSE f]
       /\ mng' = IF full THEN SetPrev(popped, p.next_freelist, none) ELSE popped

\* mdb_alloc_buffer from a frame of the list.
AllocBuffer(l) ==
    /\ list_of_lists[l] # none
    /\ Pop(l, list_of_lists[l], mng)
    /\ UNCHANGED kmemVars

\* mdb_alloc_buffer when every frame of the list is full: a new frame.
AllocFrame(l) ==
    /\ list_of_lists[l] = none
    /\ Take(FrameChunks, 0, 1)
    /\ LET f == Found(FrameChunks, 0, 1)
       IN Pop(l, f, [g \in frames \cup {f} |-> IF g = f THEN Fresh(l) ELSE mng[g]])
    /\ UNCHANGED <<added, blocks>>

-----------------------------------------------------------------------------

\* The frame was full: it is the first of its list again.
Relist(f, m) ==
    LET l == m[f].bl
    IN /\ mng' = [SetPrev(m, list_of_lists[l], f) EXCEPT
                    ![f].next_freelist = list_of_lists[l], ![f].prev_freelist = none]
       /\ list_of_lists' = [list_of_lists EXCEPT ![l] = f]
       /\ UNCHANGED kmemVars

\* The frame has no buffer in use: unlink it and give it back.
Unlink(f, m) ==
    LET p == m[f]
        first == list_of_lists[p.bl] = f
        m1 == SetPrev(m, p.next_freelist, p.prev_freelist)
        m2 == IF first THEN m1 ELSE SetNext(m1, p.prev_freelist, p.next_freelist)
    IN /\ list_of_lists' = IF first
                THEN [list_of_lists EXCEPT ![p.bl] = p.next_freelist] ELSE list_of_lists
       /\ mng' = [g \in frames \ {f} |-> m2[g]]
       /\ Enqueue(f, FrameChunks)
       /\ UNCHANGED <<added, blocks>>

\* mdb_free_buffer.
FreeBuffer(f, s) ==
    LET p == mng[f]
        m == [mng EXCEPT ![f].freelist = <<s>> \o @, ![f].num_free = @ + 1]
    IN /\ <<f, s>> \in taken
       /\ taken' = taken \ {<<f, s>>}
       /\ \/ p.num_free = 0 /\ Relist(f, m)
          \/ p.num_free # 0 /\ p.num_free + 1 = MaxFree[p.bl] /\ Unlink(f, m)
          \/ /\ p.num_free # 0 /\ p.num_free + 1 # MaxFree[p.bl]
             /\ mng' = m /\ UNCHANGED <<kmemVars, list_of_lists>>

KmemStep == KmemNext /\ UNCHANGED <<mng, list_of_lists, taken>>

BuffersNext ==
    \/ KmemStep
    \/ \E l \in Lists : AllocBuffer(l) \/ AllocFrame(l)
    \/ \E b \in taken : FreeBuffer(b[1], b[2])

BuffersSpec == BuffersInit /\ [][BuffersNext]_buffersVars

-----------------------------------------------------------------------------

\* Kernel memory is never lost and never handed out twice: the free list is in
\* address order, as long as its counter, and with the blocks of the kernel
\* and the frames of the buffer lists it partitions the memory handed over; a
\* frame is aligned to its size, or mdb_free_buffer would not find its
\* management structure.
MemoryExact ==
    /\ ListOrdered
    /\ LET pages == {[first |-> f, size |-> FrameChunks] : f \in frames}
       IN blocks \cap pages = {} /\ Partition(blocks \cup pages)
    /\ \A f \in frames : f % FrameChunks = 0

\* The frames reached from the head of list l.
listed(l) ==
    LET at[n \in 0..Cardinality(frames)] ==
            IF n = 0 THEN list_of_lists[l]
            ELSE IF at[n - 1] = none THEN none ELSE mng[at[n - 1]].next_freelist
    IN {at[n] : n \in 0..Cardinality(frames)} \ {none}

Slots(f) == 1..MaxFree[mng[f].bl]
FreeSlots(f) == {mng[f].freelist[i] : i \in 1..Len(mng[f].freelist)}

\* The lists of buffers are exact: the chain of a list holds just its frames
\* that have a free buffer, linked both ways; a frame knows its free buffers,
\* each once, and every other one is in use; and a frame without a buffer in
\* use has gone back to the kernel memory allocator.
PoolsExact ==
    /\ \A l \in Lists : /\ listed(l) = {f \in frames : mng[f].bl = l /\ mng[f].num_free > 0}
                        /\ list_of_lists[l] # none
                             => mng[list_of_lists[l]].prev_freelist = none
    /\ \A f \in frames :
        LET p == mng[f]
        IN /\ p.num_free = Len(p.freelist) /\ p.num_free = Cardinality(FreeSlots(f))
           /\ p.num_free < MaxFree[p.bl]
           /\ {s \in Slots(f) : <<f, s>> \in taken} = Slots(f) \ FreeSlots(f)
           /\ p.num_free > 0 /\ p.next_freelist # none
                => mng[p.next_freelist].prev_freelist = f
    /\ \A b \in taken : b[1] \in frames
=============================================================================
