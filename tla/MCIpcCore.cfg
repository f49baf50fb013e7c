CONSTANTS
    idle = idle
    nilthread = nilthread
    anythread = anythread
    anylocalthread = anylocalthread
    invalid = invalid
    server = server
    client = client
    other = other
    Threads <- MCThreads
    Space <- OwnSpaces
    Calls <- CallsCore
    Pager <- PagerIsServer
    AbortRights <- NoRights
    HaltRights <- NoRights
    DeleteRights <- NoRights
SPECIFICATION Spec
INVARIANTS
    TypeOK
    SendQueueExact
    NoTimeoutInTransfer
PROPERTIES
    LockedReceiverHasSender
    DeliveredWakes
    ReceiveContract
