CONSTANTS
    nil = nil
    sigma0 = sigma0
    cpu1 = cpu1
    cpu2 = cpu2
    page1 = page1
    page2 = page2
    piece1 = piece1
    piece2 = piece2
    piece3 = piece3
    Processors <- OneCpu
    Places <- TwoPieces
    Big <- OnePage
    Pieces = 2
    PieceOf <- EachPiece
    Maps <- TwoPiecesMaps
    Revokes <- Unmap
    Depths = 8
SPECIFICATION MdbSpec
INVARIANTS
    RevokedRecursively
\* Or, a page whose array of pieces was emptied before it is flushed:
\*  Places <- PagesAndPiece
\*  PieceOf <- OnlyPiece
\*  Maps <- PagesAndPieceMaps
\*  Revokes <- PieceFirst
