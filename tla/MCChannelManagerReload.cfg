SPECIFICATION Spec
CONSTANTS
    c1 = c1
    Names = {c1}
    Outbox <- MCOutbox
    Chunks <- MCChunks
    QueueSize = 1
    MaxRetries = 1
    MaxReloads = 1
INVARIANTS
    RunningHasWorker
CHECK_DEADLOCK FALSE
