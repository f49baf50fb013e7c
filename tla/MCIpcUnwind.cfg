CONSTANTS
    idle = idle
    nilthread = nilthread
    anythread = anythread
    anylocalthread = anylocalthread
    invalid = invalid
    server = server
    client = client
    other = other
    Threads <- MCThreads
    Space <- SameSpace
    Calls <- CallsUnwind
    Pager <- NoPager
    AbortRights <- OtherAborts
    HaltRights <- OtherAndClient
    DeleteRights <- DeleteClient
SPECIFICATION Spec
INVARIANTS
    LockedSenderHasReceiver
    NoLostRunnable
PROPERTIES
    HaltedStaysHalted
    DeletedStaysDead
CHECK_DEADLOCK FALSE
