CONSTANTS
    idle = idle
    nilthread = nilthread
    anythread = anythread
    anylocalthread = anylocalthread
    invalid = invalid
    server = server
    client = client
    other = other
    Threads <- MCThreads
    Space <- SameSpace
    Calls <- CallsSendPoll
    Pager <- NoPager
    AbortRights <- NoRights
    HaltRights <- NoRights
    DeleteRights <- NoRights
SPECIFICATION Spec
\* One at a time.
INVARIANTS
    NoLostRunnable
\*  NobodyAbandoned
