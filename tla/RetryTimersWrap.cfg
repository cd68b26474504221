\* espnow_mesh_priv.h:16-17 against the unsigned minimum.
SPECIFICATION Spec
CONSTANTS
    Nodes = {n1, n2}
    MaxAttempts = 2
    Backoff = 1
    MaxBackoff = 3
    Jitter = 1
    Deadline = 7
    Half = 16
INVARIANT FanoutPunctual
