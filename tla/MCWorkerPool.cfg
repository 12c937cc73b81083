\* Safety: three workers, one normal and two batch jobs, pool of one to three.
SPECIFICATION PoolSpec
CONSTANTS
    None = None
    Workers = {w1, w2, w3}
    Jobs = {n1, b1, b2}
    BatchJobs = {b1, b2}
    NotifyCap = 3
    RepeatedIds = FALSE
    MaxPool = 3
SYMMETRY Symmetry
CHECK_DEADLOCK FALSE
INVARIANTS PoolTypeOK EnoughWakeups HoldsOwed OneHolder SliceIsLive
