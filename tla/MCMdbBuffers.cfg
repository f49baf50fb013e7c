CONSTANTS
    none = none
    mapnode = mapnode
    dualnode = dualnode
    Regions <- MCRegions
    Requests <- MCRequests
    Lists <- MCLists
    MaxFree <- MCMaxFree
    FrameChunks = 2
SPECIFICATION BuffersSpec
INVARIANTS
    MemoryExact
    PoolsExact
