CONSTANTS
    idle = idle
    null = null
    nil = nil
    low = low
    peer = peer
    high = high
    Threads <- MCThreads
    MaxPrio = 1
    TickLength = 1
    U32 = 64
    Overdue = 1
    Params <- PrioParams
    Requests <- NoRequests
    Privileged <- MCThreads
    Handlers <- Nothing
    Yielders <- Peers
    Donors <- OnlyLow
    Delayers <- OnlyLow
    HaltRights <- Nothing
    DeleteRights <- Nothing
SPECIFICATION Spec
\* One at a time.
INVARIANT
    NoLostRunnable
\* PROPERTY
\*  DelayNeedsBudget
