SPECIFICATION Spec
CONSTANTS
    c1 = c1
    Names = {c1}
    Outbox <- MCOutbox
    Chunks <- MCOneChunk
    QueueSize = 1
    MaxRetries = 1
    MaxReloads = 3
INVARIANTS
    InOrder
CHECK_DEADLOCK FALSE
