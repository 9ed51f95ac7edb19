SPECIFICATION Spec
CONSTANTS
    Pids = {1, 2, 3}
    Cap = 4
    PubQos = {2}
    MaxPub = 0
    MaxTimeouts = 1
    MaxPings = 1
    Partial = FALSE
    MaxBPub = 0
    BQos = {2}
    MaxDup = 0
    Reuse = FALSE
    Refuse = FALSE
INVARIANT NoUnknownAck
CHECK_DEADLOCK FALSE
