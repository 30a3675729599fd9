SPECIFICATION Spec
CONSTANTS
    Keys <- MCKeys
    RPM <- MCRPM
    Requests <- MCRequests
    Minute = 2
    MaxExecs = 3
    MaxCancels = 1
    MaxJumps = 1
INVARIANTS
    TypeOK
    RateIsBounded
PROPERTIES
    FailureNeverShortens
    ExecutionsReturn
CHECK_DEADLOCK FALSE
