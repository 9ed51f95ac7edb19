SPECIFICATION FairSpec
CONSTANTS
    Pids = {1, 2, 3}
    Cap = 4
    PubQos = {2}
    MaxPub = 2
    MaxTimeouts = 0
    MaxPings = 1
    Partial = FALSE
    MaxBPub = 1
    BQos = {0, 1, 2}
    MaxDup = 0
    Reuse = FALSE
    Refuse = FALSE
INVARIANT NoUnknownAck
PROPERTIES AllDelivered AllPassed
CHECK_DEADLOCK FALSE
