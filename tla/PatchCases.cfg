\* Two patches of two blocks one after the other: two satellites, late joiners,
\* lost blocks, one ready long before the other; and one satellite while both
\* sides power cycle and the second boot offers the same patches under the same
\* numbers.  Liveness: no symmetry.
SPECIFICATION PatchSpec
CONSTANTS
    Sats = {s1, s2}
    Patches = 2
    Blocks = 2
    QueueLen = 1
    OfferTicks = 2
    SendRetries = 1
    MaxSatellites = 2
    MaxBoot = 2
    MaxCrash = 1
INVARIANTS ReportsWhatItHas ReadyTellsTheTruth
PROPERTIES AppliesWhatIsStaged ImplementsService PatchPlanCompletes
