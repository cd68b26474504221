\* Two satellites and one table slot in one round of one boot; one satellite, two
\* payloads, two broadcasts and up to two unicast passes while both sides power
\* cycle, frames and ACKs of the old boot meeting the rounds of the new one.
\* Liveness: no symmetry.
SPECIFICATION EndsSpec
CONSTANTS
    Sats = {s1, s2}
    QueueLen = 1
    SendRetries = 2
    MaxAttempts = 3
    MaxSatellites = 1
    DeadlineTicks = 2
    MaxBoot = 2
    MaxSend = 2
    MaxCrash = 1
INVARIANTS AckedMeansDelivered BoundedEffort DuplicatesWereDelivered
PROPERTIES ImplementsService RoundEnds SlotDrains
