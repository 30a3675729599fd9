SPECIFICATION Spec
CONSTANTS
    MaxJobs = 2
    MaxTime = 4
    Hour = 1
    Schedules <- MCSchedules
    MaxEdits = 2
    MaxServices = 2
INVARIANTS
    TypeOK
    NoDoubleRun
    NoOversleep
PROPERTIES
    DueJobRuns
CHECK_DEADLOCK FALSE
