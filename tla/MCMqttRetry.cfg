SPECIFICATION Spec
CONSTANTS
    Pids = {p1, p2, p3}
    Cap = 4
    PubQos = {2}
    MaxPub = 2
    MaxTimeouts = 1
    MaxPings = 0
    Partial = FALSE
    MaxBPub = 2
    BQos = {2}
    MaxDup = 1
    Reuse = FALSE
    Refuse = TRUE
SYMMETRY PidSymmetry
INVARIANTS TypeOK OneInflight DistinctPids NothingLost CalledOnce AckedIsCalled
PROPERTIES ExactlyOnceOut
CHECK_DEADLOCK FALSE
