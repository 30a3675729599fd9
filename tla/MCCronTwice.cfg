SPECIFICATION Spec
CONSTANTS
    MaxJobs = 2
    MaxTime = 4
    Hour = 1
    Schedules <- MCSchedules
    MaxEdits = 2
    MaxServices = 2
INVARIANTS
    NeverTwice
CHECK_DEADLOCK FALSE
