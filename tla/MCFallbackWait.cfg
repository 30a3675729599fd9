SPECIFICATION Spec
CONSTANTS
    Keys <- MCKeys
    RPM <- MCRPM
    Requests <- MCRequests
    Minute = 2
    MaxExecs = 3
    MaxCancels = 0
    MaxJumps = 1
PROPERTIES
    CoolingIsSkipped
CHECK_DEADLOCK FALSE
