\* The commands of the test plan: two satellites behind the SoftAP gate with
\* duplicated commands, both kinds of injected loss and late joiners, and one
\* satellite while both sides power cycle.  Liveness: no symmetry.
SPECIFICATION PlanSpec
CONSTANTS
    Sats = {s1, s2}
    Cases = 2
    Selects = {1}
    Sets = {2}
    Copies = 2
    QueueLen = 2
    SendRetries = 1
    MaxAttempts = 2
    MaxSatellites = 2
    DiscoveryTicks = 1
    DeadlineTicks = 1
    ExpectedSatellites = 2
    RequireDiscovery = TRUE
    MaxBoot = 2
    MaxCrash = 1
INVARIANTS PassIsBacked AckReportsCase AppliedInOrder
PROPERTY PlanCompletes
