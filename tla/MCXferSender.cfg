CONSTANTS
    idle = idle
    nilthread = nilthread
    anythread = anythread
    pager = pager
    client = client
    other = other
    server = server
    Threads <- MCThreads
    NumBR = 33
    Space <- OwnSpaces
    Sends <- SenderFaults
    Receives <- ReceivePlain
    Victims <- Server
    PagerBusy = TRUE
SPECIFICATION Spec
INVARIANTS
    Coupled
CHECK_DEADLOCK FALSE
