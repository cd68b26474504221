\* A clock of five bits, two nodes, every start.
SPECIFICATION Spec
CONSTANTS
    Nodes = {n1, n2}
    MaxAttempts = 2
    Backoff = 1
    MaxBackoff = 3
    Jitter = 1
    Deadline = 7
    Half = 16
INVARIANTS HilPunctual FanoutPunctualBeforeWrap
