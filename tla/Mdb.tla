-------------------------------- MODULE Mdb --------------------------------
(* The mapping database (generic/mapping.cc) and the page-table entries it  *)
(* tracks (generic/linear_ptab_walker.cc), for one page frame that can be   *)
(* mapped as a whole or in pieces: the two page sizes of x86.               *)
(*                                                                          *)
(* The mappings of a frame are kept in lists.  A mapping is inserted right  *)
(* behind the one it was derived from; nothing but its depth tells that it  *)
(* was.  Pieces of a page hang from an array of lists below the page.       *)
(* mdb_flush walks lists and arrays with the spinlock mdb_lock held, one    *)
(* mapping at a time; map_fpage writes the page-table entry of a mapping    *)
(* after mdb_map has released it.                                           *)
(*                                                                          *)
(* Left out: access rights that are only lowered, reference bits, grants.   *)
EXTENDS Lists, FiniteSets

CONSTANTS
    Processors, Places, sigma0, nil,
    Big,                \* the places that hold a whole page
    Pieces,             \* mdb_arraysize: the pieces of a page
    PieceOf,            \* the piece that each other place holds
    Maps,               \* <<p, q>>: the holder of p may map from it to q
    Revokes,            \* <<p, size, self>>: it may unmap or, with self, flush p
    Depths              \* the number of values of tree_depth, 2^8 on x86

Small == Places \ Big
Owners == Big \cup {sigma0}         \* what can have an array of pieces
Indices == 0..(Pieces - 1)
Sizes == {"big", "small"}
Size(p) == IF p \in Small THEN "small" ELSE "big"

\* map_fpage between its test of the source and mdb_map, and between mdb_map
\* and the write of the entry; mapctrl_fpage waiting for the lock or flushing.
Ops == [at : {"insert", "entry"}, src : Places \cup {sigma0}, dst : Places]
         \cup [at : {"lock", "flush", "unlock"}, src : Places, size : Sizes, piece : Indices, self : BOOLEAN]
\* The local variables of mdb_flush, and what it must revoke.
Walks == [map : Places \cup {nil}, level : Sizes, owner : Owners \cup {nil}, at : Indices,
          up : Places \cup {nil}, self : BOOLEAN, start : 0..(Depths - 1)]
Dooms == [before : [Places -> Places \cup {sigma0, nil}], set : SUBSET Places]

ASSUME MdbAssumption ==
    /\ IsFiniteSet(Processors) /\ IsFiniteSet(Places)
    /\ sigma0 \notin Places /\ nil \notin Places \cup Processors \cup {sigma0}
    /\ nil \notin Ops /\ nil \notin Walks /\ nil \notin Dooms
    /\ Big \subseteq Places /\ Pieces \in Nat \ {0} /\ Depths \in Nat \ {0}
    /\ PieceOf \in [Small -> Indices]
    /\ Maps \subseteq (Places \cup {sigma0}) \X Places
    /\ Revokes \subseteq Places \X Sizes \X BOOLEAN
    /\ \A r \in Revokes : r[3] => r[2] = "big" \/ r[1] \in Small
    /\ \A m \in Maps : m[1] \in Small => m[2] \in Small /\ PieceOf[m[1]] = PieceOf[m[2]]

VARIABLES
    valid,              \* the places whose page-table entry is valid
    pages,              \* the list of the whole-page mappings of the frame
    pieces,             \* the lists of its pieces, per owner and piece
    array,              \* the owners whose node names an array of pieces
    freed,              \* those of them whose array has been freed
    depth,              \* tree_depth of the mapping nodes
    holder,             \* of mdb_lock
    doing,              \* what a processor is doing
    origin,             \* history: the mapping each mapping was made from
    walk,               \* the variables of the mdb_flush in progress
    doomed              \* history: what that flush must revoke, and from where

nodes == <<pages, pieces, array, freed, depth>>
mdbVars == <<valid, nodes, holder, doing, origin, walk, doomed>>

MdbTypes ==
    /\ valid \subseteq Places
    /\ pages \in Seq(Big)
    /\ pieces \in [Owners -> [Indices -> Seq(Small)]]
    /\ freed \subseteq array /\ array \subseteq Owners
    /\ depth \in [Places -> 0..(Depths - 1)]
    /\ holder \in Processors \cup {nil}
    /\ doing \in [Processors -> Ops \cup {nil}]
    /\ origin \in [Places -> Places \cup {sigma0}]
    /\ walk \in Walks \cup {nil}
    /\ doomed \in Dooms \cup {nil}

NoPieces == [i \in Indices |-> <<>>]

MdbInit ==
    /\ valid = {} /\ pages = <<>> /\ array = {} /\ freed = {}
    /\ pieces = [o \in Owners |-> NoPieces]
    /\ depth = [p \in Places |-> 0]
    /\ holder = nil /\ doing = [c \in Processors |-> nil]
    /\ origin = [p \in Places |-> sigma0]
    /\ walk = nil /\ doomed = nil

-----------------------------------------------------------------------------
(* The lists                                                                *)

InPages(p) == InList(pages, p)
InPieces(o, p) == p \in Small /\ InList(pieces[o][PieceOf[p]], p)
HasNode(p) == p = sigma0 \/ InPages(p) \/ \E o \in Owners : InPieces(o, p)
ListOf(p) ==
    IF p \in Big THEN pages ELSE pieces[CHOOSE o \in Owners : InPieces(o, p)][PieceOf[p]]
PlaceIn(q, p) == CHOOSE k \in 1..Len(q) : q[k] = p

InsertBehindMut(q, p, new) == Append(q, new)
InsertBehind(q, p, new) ==
    LET k == PlaceIn(q, p)
    IN  SubSeq(q, 1, k) \o <<new>> \o SubSeq(q, k + 1, Len(q))

\* get_nextmap.
NextMap(p) ==
    LET q == ListOf(p)
        k == PlaceIn(q, p)
    IN  IF k < Len(q) THEN q[k + 1] ELSE nil

NewDepthMut(p) == IF p = sigma0 THEN 1 ELSE depth[p]
\* set_depth(f_map->get_depth() + 1), in a bit field.
NewDepth(p) == (IF p = sigma0 THEN 1 ELSE depth[p] + 1) % Depths

\* mdb_map: q is mapped from p, behind it in its list or first in the list of
\* its piece below p; the new node has no array.
MdbMap(p, q) ==
    /\ depth' = [depth EXCEPT ![q] = NewDepth(p)]
    /\ origin' = [origin EXCEPT ![q] = p]
    /\ IF q \in Big
       THEN /\ pages' = (IF p = sigma0 THEN EnqueueHead(pages, q) ELSE InsertBehind(pages, p, q))
            /\ array' = array \ {q} /\ freed' = freed \ {q}
            /\ pieces' = [pieces EXCEPT ![q] = NoPieces]
       ELSE IF p \in Small
       THEN LET o == CHOOSE o \in Owners : InPieces(o, p)
            IN  /\ pieces' = [pieces EXCEPT ![o][PieceOf[q]] = InsertBehind(@, p, q)]
                /\ UNCHANGED <<pages, array, freed>>
       ELSE /\ pieces' = [pieces EXCEPT ![p][PieceOf[q]] = EnqueueHead(@, q)]
            /\ array' = array \cup {p}
            /\ UNCHANGED <<pages, freed>>

RemoveMut(p) ==
    /\ pieces' = [o \in Owners |-> [i \in Indices |-> Without(pieces[o][i], p)]]
    /\ UNCHANGED pages

\* remove_map.
Remove(p) ==
    IF p \in Big
    THEN pages' = Without(pages, p) /\ UNCHANGED pieces
    ELSE /\ pieces' = [o \in Owners |->
                          [pieces[o] EXCEPT ![PieceOf[p]] = Without(@, p)]]
         /\ UNCHANGED pages

\* The derivations: who each mapping of the database was made from.
Tree == [p \in Places |-> IF HasNode(p) THEN origin[p] ELSE nil]

Derivations == INSTANCE Derivation WITH
    Regions <- {Places} \cup {{p \in Small : PieceOf[p] = i} : i \in Indices},
    from <- IF doomed = nil THEN Tree ELSE doomed.before,
    null <- nil

-----------------------------------------------------------------------------
(* map_fpage                                                                *)

\* The source is mapped, the destination is free.
StartMap(c, p, q) ==
    /\ doing[c] = nil /\ <<p, q>> \in Maps
    /\ p = sigma0 \/ p \in valid
    /\ q \notin valid
    /\ \A d \in Processors : doing[d] # nil /\ doing[d].at \in {"insert", "entry"} => doing[d].dst # q
    /\ doing' = [doing EXCEPT ![c] = [at |-> "insert", src |-> p, dst |-> q]]
    /\ UNCHANGED <<valid, nodes, holder, origin, walk, doomed>>

\* mdb_map, with the lock taken and released.  A node that is gone is not in
\* any list: what is hooked to it is lost.
Insert(c) ==
    /\ doing[c] # nil /\ doing[c].at = "insert" /\ holder = nil
    /\ doing' = [doing EXCEPT ![c].at = "entry"]
    /\ IF HasNode(doing[c].src)
       THEN MdbMap(doing[c].src, doing[c].dst)
       ELSE UNCHANGED <<nodes, origin>>
    /\ UNCHANGED <<valid, holder, walk, doomed>>

\* pgent_t::set_entry and set_linknode.
SetEntry(c) ==
    /\ doing[c] # nil /\ doing[c].at = "entry"
    /\ valid' = valid \cup {doing[c].dst}
    /\ doing' = [doing EXCEPT ![c] = nil]
    /\ UNCHANGED <<nodes, holder, origin, walk, doomed>>

-----------------------------------------------------------------------------
(* mapctrl_fpage and mdb_flush                                              *)

\* Revoke what was derived from p: the whole page or the piece i of it.  A
\* flush, which includes p, is never of less than p.
StartFlush(c, p, size, i, self) ==
    /\ doing[c] = nil /\ p \in valid /\ <<p, size, self>> \in Revokes
    /\ size = "small" /\ p \in Small => i = PieceOf[p]
    /\ size = "big" => i = 0
    /\ doing' = [doing EXCEPT ![c] = [at |-> "lock", src |-> p, size |-> size, piece |-> i, self |-> self]]
    /\ UNCHANGED <<valid, nodes, holder, origin, walk, doomed>>

Region(size, i) == IF size = "big" THEN Places ELSE {p \in Small : PieceOf[p] = i}

\* The lock is taken.  (A node that is gone by now has nothing below it.)
Lock(c) ==
    LET o == doing[c]
    IN  /\ o # nil /\ o.at = "lock" /\ holder = nil
        /\ IF HasNode(o.src)
           THEN /\ holder' = c
                /\ doing' = [doing EXCEPT ![c].at = "flush"]
                /\ walk' = [map |-> o.src, level |-> Size(o.src), owner |-> nil, at |-> 0,
                            up |-> nil, self |-> o.self, start |-> depth[o.src]]
                /\ doomed' = [before |-> Tree,
                              set |-> (Derivations!Derived(Tree, o.src)
                                         \cup (IF o.self THEN {o.src} ELSE {}))
                                      \cap Region(o.size, o.piece)]
           ELSE /\ doing' = [doing EXCEPT ![c] = nil]
                /\ UNCHANGED <<holder, walk, doomed>>
        /\ UNCHANGED <<valid, nodes, origin>>

\* The first mapping in the lists i..j-1 of the pieces of o.
FirstMap(o, i, j) ==
    LET found == {k \in i..(j - 1) : pieces[o][k] # <<>>}
    IN  IF found = {} THEN nil ELSE Head(pieces[o][CHOOSE k \in found : \A l \in found : k <= l])
FirstIndex(o, i, j) ==
    LET found == {k \in i..(j - 1) : pieces[o][k] # <<>>}
    IN  IF found = {} THEN j - 1 ELSE CHOOSE k \in found : \A l \in found : k <= l

\* From a page that has an array: into all its lists, or into that of the piece.
Below(o, w) ==
    LET whole == o.size = "big"
        i == IF whole THEN 0 ELSE o.piece
        j == IF whole THEN Pieces ELSE o.piece + 1
    IN  /\ w.map \in array
        /\ walk' = [w EXCEPT !.map = FirstMap(w.map, i, j), !.level = "small", !.owner = w.map,
                             !.at = FirstIndex(w.map, i, j), !.self = TRUE,
                             !.up = IF whole THEN NextMap(w.map) ELSE nil]
        /\ UNCHANGED <<array, freed>>

\* To the next mapping of a list.
Along(o, w) ==
    /\ w.map \notin array /\ NextMap(w.map) # nil
    /\ walk' = [w EXCEPT !.map = NextMap(w.map), !.self = @ \/ w.level = "small" \/ o.size = "big"]
    /\ UNCHANGED <<array, freed>>

\* From the end of a list of pieces back to the page behind the one they belong
\* to.  The array is freed, from the address it has if this was its last list; a
\* page that is still there goes on naming it.
Back(o, w) ==
    /\ w.map \notin array /\ NextMap(w.map) = nil
    /\ w.level = "small" /\ o.size = "big" /\ w.owner # nil
    /\ walk' = [w EXCEPT !.map = w.up, !.level = "big", !.owner = nil, !.at = 0, !.up = nil]
    /\ IF w.at # Pieces - 1
       THEN UNCHANGED <<array, freed>>
       ELSE IF HasNode(w.owner)
       THEN freed' = freed \cup {w.owner} /\ UNCHANGED array
       ELSE array' = array \ {w.owner} /\ freed' = freed \ {w.owner}

\* Nowhere.
Over(o, w) ==
    /\ w.map \notin array /\ NextMap(w.map) = nil
    /\ w.level = "big" \/ o.size = "small" \/ w.owner = nil
    /\ walk' = [w EXCEPT !.map = nil]
    /\ UNCHANGED <<array, freed>>

\* One turn of the loop of mdb_flush: revoke the mapping, unless it is the one
\* to be kept, and go on to the next.
Visit(c) ==
    LET o == doing[c]
        w == walk
    IN  /\ o # nil /\ o.at = "flush" /\ (w.self => w.map \in Places)
        /\ Below(o, w) \/ Along(o, w) \/ Back(o, w) \/ Over(o, w)
        /\ IF w.self
           THEN Remove(w.map) /\ valid' = valid \ {w.map}
           ELSE UNCHANGED <<valid, pages, pieces>>
        /\ doing' = [doing EXCEPT ![c].at = IF walk'.map # nil /\ depth[walk'.map] > w.start
                                      THEN @ ELSE "unlock"]
        /\ UNCHANGED <<depth, holder, origin, doomed>>

Unlock(c) ==
    /\ doing[c] # nil /\ doing[c].at = "unlock"
    /\ holder' = nil /\ walk' = nil /\ doomed' = nil
    /\ doing' = [doing EXCEPT ![c] = nil]
    /\ UNCHANGED <<valid, nodes, origin>>

-----------------------------------------------------------------------------
MdbNext ==
    \E c \in Processors :
        \/ \E p \in Places \cup {sigma0}, q \in Places : StartMap(c, p, q)
        \/ \E p \in Places, size \in Sizes, i \in Indices, self \in BOOLEAN :
               StartFlush(c, p, size, i, self)
        \/ Insert(c) \/ SetEntry(c) \/ Lock(c) \/ Visit(c) \/ Unlock(c)

MdbSpec == MdbInit /\ [][MdbNext]_mdbVars
-----------------------------------------------------------------------------
(* Properties                                                               *)

\* When mdb_flush returns, nothing that was derived from its mapping is left,
\* in the page or the piece it was asked to revoke: "Recursively revokes access
\* attributes of indicated mapping.  If all access rights are revoked, the
\* mapping will be recursively removed from the mapping database."
RevokedRecursively ==
    \A c \in Processors : doing[c] # nil /\ doing[c].at = "unlock" => valid \cap doomed.set = {}

\* The parent that the order of a list and the depths give a mapping: the nearest
\* one before it that is less deep, or the owner of the list.  mdb_flush, which
\* stops at the first mapping no deeper than its own, goes by that.
Parent(p) ==
    LET q == ListOf(p)
        k == PlaceIn(q, p)
        shallower == {j \in 1..(k - 1) : depth[q[j]] < depth[p]}
    IN  IF shallower # {}
        THEN q[CHOOSE j \in shallower : \A i \in shallower : i <= j]
        ELSE IF p \in Big THEN sigma0 ELSE CHOOSE o \in Owners : InPieces(o, p)
DepthsGiveParents ==
    walk = nil => \A p \in Places : HasNode(p) => Parent(p) = origin[p]

EntriesHaveNodes ==
    \A p \in Places :
        \/ p \in valid <=> HasNode(p)
        \/ \E c \in Processors : doing[c] # nil /\ doing[c].at = "entry" /\ doing[c].dst = p

ArraysAllocated == freed = {}

\* What the nodes and the page tables say of each other is true: every valid
\* entry has a node by which it can be revoked, every node stands for a valid
\* entry, except for the mapping that map_fpage is in the middle of, and no node
\* names an array that has been freed, into which a piece mapped later would be
\* hooked; and the lists with their depths give every mapping its parent.
LinksSound == EntriesHaveNodes /\ ArraysAllocated /\ DepthsGiveParents

\* The lists with their depths are the tree of derivations: a mapping adds one
\* leaf to it, and a flush takes out what was derived from its mapping and
\* nothing else, though no node names its parent.
ImplementsDerivation == Derivations!DerivationSpec
=============================================================================
