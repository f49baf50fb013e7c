CONSTANTS
    idle = idle
    nilthread = nilthread
    anythread = anythread
    pager = pager
    client = client
    other = other
    server = server
    Threads <- MCThreads
    NumBR = 33
    Space <- OwnSpaces
    Sends <- PassSends
    Receives <- PassReceives
    Victims <- ClientAndServer
    PagerBusy = TRUE
SPECIFICATION FairSpec
INVARIANTS
    Coupled
    MessageExact
PROPERTIES
    TransferEnds
CHECK_DEADLOCK FALSE
