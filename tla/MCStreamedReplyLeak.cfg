SPECIFICATION Spec
CONSTANTS
    MaxMessages = 2
    MaxTools = 1
    Chunks = 2
INVARIANTS
    NothingLeaks
CHECK_DEADLOCK FALSE
