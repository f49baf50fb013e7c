CONSTANTS
    idle = idle
    nilthread = nilthread
    anythread = anythread
    anylocalthread = anylocalthread
    invalid = invalid
    server = server
    client = client
    other = other
    Threads <- MCThreads
    Space <- SameSpace
    Calls <- CallsReplyWait
    Pager <- NoPager
    AbortRights <- AbortServer
    HaltRights <- NoRights
    DeleteRights <- NoRights
SPECIFICATION Spec
INVARIANTS
    LockedSenderHasReceiver
