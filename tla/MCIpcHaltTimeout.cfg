CONSTANTS
    idle = idle
    nilthread = nilthread
    anythread = anythread
    anylocalthread = anylocalthread
    invalid = invalid
    server = server
    client = client
    other = other
    Threads <- MCThreads
    Space <- SameSpace
    Calls <- CallsHalt
    Pager <- NoPager
    AbortRights <- NoRights
    HaltRights <- HaltClient
    DeleteRights <- NoRights
SPECIFICATION Spec
PROPERTIES
    HaltedStaysHalted
