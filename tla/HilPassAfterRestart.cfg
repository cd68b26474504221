\* docs/hil-testbench.md against a restart of the controller between two plans.
SPECIFICATION Spec
CONSTANTS
    Sats = {s1}
    Cases = 2
    Selects = {1}
    Sets = {2}
    Copies = 1
    QueueLen = 1
    SendRetries = 1
    MaxAttempts = 2
    MaxSatellites = 1
    DiscoveryTicks = 1
    DeadlineTicks = 1
    ExpectedSatellites = 1
    RequireDiscovery = FALSE
    MaxBoot = 2
    MaxCrash = 0
INVARIANT PassMeansApplied
