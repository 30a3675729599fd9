SPECIFICATION Spec
CONSTANTS
    MaxIterations = 2
    MaxRetries = 1
    SteeringMode = "one-at-a-time"
    MaxCalls = 2
    MaxSteer = 1
INVARIANT SingleTurnKept
