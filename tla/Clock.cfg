SPECIFICATION Spec
CONSTANTS
    LockSamples = 2
    ResetAfterRejects = 2
    DelayMargin = 0
    Outlier = 2
    MaxFreq = 1
    PhaseDivisor = 2
    FreqDivisor = 2
    FilterDivisor = 2
    Billion = 4
    ProductLimit = 7
    MaxDelay = 1
    Interval = 1
    Timeout = 2
    Uptime = 9
    MaxTime = 4
    MaxSequence = 2
    MaxBoot = 2
    MaxFlight = 2
    MaxFaults = 3
INVARIANTS Recovered
PROPERTIES SampleTruth AnswersLatest NeverWorse SmallSteps
CHECK_DEADLOCK FALSE
