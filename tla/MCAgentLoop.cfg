SPECIFICATION Spec
CONSTANTS
    Sessions = {s1}
    Slots = 1
    QueueCap = 2
    SteeringMode = "one-at-a-time"
    MaxMsgs = 3
INVARIANTS
    TypeOK
    SlotsExact
    NoOrphanEntry
    QueuedInOrder
PROPERTIES
    WorkersFinish
\* The loop may stop for good: no more messages, or shutdown.
CHECK_DEADLOCK FALSE
