CONSTANTS
    nil = nil
    sigma0 = sigma0
    cpu1 = cpu1
    cpu2 = cpu2
    page1 = page1
    page2 = page2
    piece1 = piece1
    piece2 = piece2
    piece3 = piece3
    Processors <- OneCpu
    Places <- MCPlaces
    Big <- MCBig
    Pieces = 2
    PieceOf <- LastPiece
    Maps <- MCMaps
    Revokes <- MCRevokes
    Depths = 8
SPECIFICATION MdbSpec
INVARIANTS
    RevokedRecursively
    LinksSound
PROPERTIES
    ImplementsDerivation
\* Or, within the premises of the theorems:
\*  Maps <- WholeMaps
