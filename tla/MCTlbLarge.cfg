CONSTANTS
    null = null
    cpu1 = cpu1
    cpu2 = cpu2
    cpu3 = cpu3
    pager = pager
    client = client
    Cpus <- MCCpus
    Spaces <- MCSpaces
    Revocations <- Large
    Senders <- NoSender
SPECIFICATION Spec
INVARIANTS
    TypeOK
    NoStaleEntry
