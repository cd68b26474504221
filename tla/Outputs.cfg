SPECIFICATION Spec
CONSTANTS
    ApplyDelay = 7
    Gap = 10
    CommandSpan = 8
    PatchSpan = 2
    Pulse = 3
    Fallback = 4
    Least = 2
    Period = 5
    High = 2
    Recheck = 2
    MaxSkew = 2
    MaxCases = 3
    MaxSteps = 2
    MaxTime = 36
INVARIANTS AtMostOnePulse WaveFollowsClock
PROPERTIES NoCaseLost AppliesOnTime
CHECK_DEADLOCK FALSE
