SPECIFICATION Spec
CONSTANTS
    c1 = c1
    Names = {c1}
    Outbox <- MCOutbox
    Chunks <- MCOneChunk
    QueueSize = 1
    MaxRetries = 1
    MaxReloads = 2
INVARIANTS
    TypeOK
    InOrder
    NothingStranded
    WorkersAreOpen
PROPERTIES
    Settles
CHECK_DEADLOCK FALSE
