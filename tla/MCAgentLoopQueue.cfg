SPECIFICATION Spec
CONSTANTS
    Sessions = {s1}
    Slots = 1
    QueueCap = 2
    SteeringMode = "one-at-a-time"
    MaxMsgs = 4
INVARIANTS
    TypeOK
    QueuedInOrder
\* The loop may stop for good: no more messages, or shutdown.
CHECK_DEADLOCK FALSE
