CONSTANTS
    idle = idle
    null = null
    nil = nil
    low = low
    peer = peer
    high = high
    Threads <- MCThreads
    MaxPrio = 1
    TickLength = 1
    U32 = 64
    Overdue = 1
    Params <- SliceParams
    Requests <- SliceRequests
    Privileged <- MCThreads
    Handlers <- Nothing
    Yielders <- Peers
    Donors <- OnlyLow
    Delayers <- Nothing
    HaltRights <- PrioHalts
    DeleteRights <- SliceDeletes
SPECIFICATION FairSpec
INVARIANTS
    SliceLeft
PROPERTIES
    RoundRobin
CHECK_DEADLOCK FALSE
