SPECIFICATION Spec
CONSTANTS
    MaxMessages = 3
    MaxTools = 2
    Chunks = 2
INVARIANTS
    TypeOK
    ShownOnce
CHECK_DEADLOCK FALSE
