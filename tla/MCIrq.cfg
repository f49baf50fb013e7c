CONSTANTS
    null = null
    anythread = anythread
    level = level
    edge = edge
    driver = driver
    driver2 = driver2
    Irqs <- MCIrqs
    Handlers <- MCHandlers
    EdgeTriggered <- MCEdge
    Associations <- MCAssociations
    ChangeIn <- MCChangeIn
    Deletions <- MCDeletions
SPECIFICATION Spec
INVARIANTS
    SendersQueued
    MaskedUntilAcknowledged
PROPERTIES
    Serviced
