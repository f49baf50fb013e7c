CONSTANTS
    idle = idle
    nilthread = nilthread
    anythread = anythread
    pager = pager
    client = client
    other = other
    server = server
    Threads <- MCThreads
    NumBR = 33
    Space <- OwnSpaces
    Sends <- SendTimed
    Receives <- ReceiverFaults
    Victims <- Nobody
    PagerBusy = TRUE
SPECIFICATION Spec
INVARIANTS
    NoAssertFails
    LengthReported
    XferTimeoutArmed
CHECK_DEADLOCK FALSE
