CONSTANTS
    idle = idle
    null = null
    anythread = anythread
    nilthread = nilthread
    cpu1 = cpu1
    cpu2 = cpu2
    server = server
    client = client
    user = user
    Cpus <- MCCpus
    Threads <- MCThreads
    Home <- MCHome
    Calls <- Twice
SPECIFICATION Spec
\* One at a time.
INVARIANT
    NobodyForgotten
\*  OneMessage
