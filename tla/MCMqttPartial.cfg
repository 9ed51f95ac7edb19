SPECIFICATION Spec
CONSTANTS
    Pids = {1, 2, 3}
    Cap = 5
    PubQos = {2}
    MaxPub = 2
    MaxTimeouts = 0
    MaxPings = 1
    Partial = TRUE
    MaxBPub = 0
    BQos = {2}
    MaxDup = 0
    Reuse = FALSE
    Refuse = FALSE
INVARIANT Framed
CHECK_DEADLOCK FALSE
