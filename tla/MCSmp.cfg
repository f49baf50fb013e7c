CONSTANTS
    null = null
    cpu1 = cpu1
    cpu2 = cpu2
    cpu3 = cpu3
    caller = caller
    poster = poster
    Cpus <- MCCpus
    Threads <- MCThreads
    Home <- MCHome
    Calls <- MCCalls
    Posts <- MCPosts
    MaxEntries = 3
    MaxSuspended <- MCSuspended
SPECIFICATION Spec
INVARIANTS
    RequestsExact
PROPERTIES
    ImplementsChannels
    CallsAnswered
