SPECIFICATION LiveSpec
CONSTANTS
    Half = 5
    Channels = {c1, c2}
    FirstChannel = c1
    Scanning = scanning
    Timeout = 2
    Interval = 1
    Listen = 1
    Retry = 2
    Scan = 1
    Connect = 1
    Hold = 1
    WaitCap = 1
    QueueLength = 1
    MaxEvents = 1
    MaxMoves = 1
INVARIANTS DroppedInTime RequestsOnTime DiscoveryGoesOn DiscoveredByJoining
PROPERTIES Relocks
