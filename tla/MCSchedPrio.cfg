CONSTANTS
    idle = idle
    null = null
    nil = nil
    low = low
    peer = peer
    high = high
    Threads <- MCThreads
    MaxPrio = 1
    TickLength = 1
    U32 = 64
    Overdue = 0
    Params <- PrioParams
    Requests <- PrioRequests
    Privileged <- MCThreads
    Handlers <- OnlyHigh
    Yielders <- OnlyPeer
    Donors <- Nothing
    Delayers <- OnlyLow
    HaltRights <- PrioHalts
    DeleteRights <- Nothing
SPECIFICATION Spec
INVARIANTS
    QueuesExact
    NoLostRunnable
    TimeoutArmed
PROPERTIES
    HighestFirst
    HigherWakes
    ImplementsDispatcher
