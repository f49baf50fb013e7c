------------------------------- MODULE MCMdb -------------------------------
(* Instances of Mdb for TLC.                                                *)
EXTENDS Mdb

CONSTANTS cpu1, cpu2, page1, page2, piece1, piece2, piece3

\* One processor: a page derived from another one and mapped on in its last
\* piece, and pieces derived from each other and side by side.
OneCpu == {cpu1}
MCPlaces == {page1, page2, piece1, piece2, piece3}
MCBig == {page1, page2}
LastPiece == [p \in MCPlaces \ MCBig |-> 1]
MCMaps == {<<sigma0, page1>>, <<page1, page2>>, <<page2, piece1>>, <<page2, piece2>>, <<sigma0, piece1>>,
           <<sigma0, piece3>>, <<piece1, piece2>>, <<piece2, piece3>>, <<piece1, piece3>>}
\* Unless it is flushed with them, the page that pieces hang from is not unmapped.
MCRevokes == {<<page1, "big", TRUE>>, <<page1, "big", FALSE>>, <<page1, "small", FALSE>>,
              <<page2, "big", TRUE>>, <<page2, "small", FALSE>>}
                 \cup {piece1, piece2, piece3} \X {"small", "big"} \X BOOLEAN

\* Pages mapped on as a whole only, the premise PagesWhole of Mapping_proofs.
WholeMaps == {m \in MCMaps : m[1] \in MCBig => m[2] \in MCBig}

\* A page mapped on in both of its pieces, and unmapped.
TwoPieces == {page1, piece1, piece2}
OnePage == {page1}
EachPiece == [p \in {piece1, piece2} |-> IF p = piece1 THEN 0 ELSE 1]
TwoPiecesMaps == {<<sigma0, page1>>, <<page1, piece1>>, <<page1, piece2>>}
Unmap == {<<page1, "big", FALSE>>}

\* A page mapped on as a whole and in a piece, and the piece revoked before it.
PagesAndPiece == {page1, page2, piece1}
OnlyPiece == [p \in {piece1} |-> 1]
PagesAndPieceMaps == {<<sigma0, page1>>, <<page1, page2>>, <<page1, piece1>>}
PieceFirst == {<<page1, "small", FALSE>>, <<page1, "big", TRUE>>}
=============================================================================
