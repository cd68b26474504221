\* Two satellites, one boot, two rounds: late joiners, evictions, stale ACKs
\* of the first round arriving in the second, unicast after one broadcast.
SPECIFICATION Spec
CONSTANTS
    Sats = {s1, s2}
    QueueLen = 1
    SendRetries = 1
    MaxAttempts = 2
    MaxSatellites = 2
    DeadlineTicks = 1
    MaxBoot = 1
    MaxSend = 2
    MaxCrash = 0
SYMMETRY SatSymmetry
INVARIANTS CompleteMeansDelivered
PROPERTIES RoundOnlyGrows
