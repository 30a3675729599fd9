SPECIFICATION Spec
CONSTANTS
    MaxTurns = 3
    MaxDepth = 2
    MaxConcurrent = 1
    ResultCap = 1
    MaxSwitches = 1
    MaxAborts = 1
    AbortTargets = {1}
PROPERTIES
    FullIsOrphan
CHECK_DEADLOCK FALSE
