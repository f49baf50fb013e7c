---------------------------- MODULE MCMdbBuffers ----------------------------
(* MdbBuffers for TLC: two regions handed over in either order, frames of   *)
(* two chunks cut into two or three buffers, blocks of one and two chunks.  *)
EXTENDS MdbBuffers

CONSTANTS mapnode, dualnode

region(a, n) == [first |-> a, size |-> n]
MCRegions == {region(2, 7), region(9, 3)}
MCRequests == {[size |-> 1, alignment |-> 1, mask |-> 2],
               [size |-> 2, alignment |-> 0, mask |-> 1]}
MCLists == {mapnode, dualnode}
MCMaxFree == [l \in MCLists |-> IF l = mapnode THEN 2 ELSE 3]
=============================================================================
