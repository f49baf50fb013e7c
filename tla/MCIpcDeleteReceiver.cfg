CONSTANTS
    idle = idle
    nilthread = nilthread
    anythread = anythread
    anylocalthread = anylocalthread
    invalid = invalid
    server = server
    client = client
    other = other
    Threads <- MCThreads
    Space <- SameSpace
    Calls <- CallsTimeout
    Pager <- NoPager
    AbortRights <- NoRights
    HaltRights <- NoRights
    DeleteRights <- DeleteServer
SPECIFICATION Spec
\* One at a time.
INVARIANTS
    NoAssertFails
\* PROPERTIES
\*  DeletedStaysDead
