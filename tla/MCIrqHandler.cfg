CONSTANTS
    null = null
    anythread = anythread
    level = level
    edge = edge
    driver = driver
    driver2 = driver2
    Irqs <- MCIrqs
    Handlers <- MCHandlers
    EdgeTriggered <- MCEdge
    Associations <- MCAssociations
    ChangeIn <- AnyTime
    Deletions <- MCDeletions
SPECIFICATION Spec
INVARIANTS
    TypeOK
    SendersQueued
