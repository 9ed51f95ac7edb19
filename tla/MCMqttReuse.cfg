SPECIFICATION FairSpec
CONSTANTS
    Pids = {1, 2, 3}
    Cap = 6
    PubQos = {2}
    MaxPub = 0
    MaxTimeouts = 0
    MaxPings = 0
    Partial = FALSE
    MaxBPub = 2
    BQos = {2}
    MaxDup = 0
    Reuse = TRUE
    Refuse = FALSE
PROPERTY AllPassed
CHECK_DEADLOCK FALSE
