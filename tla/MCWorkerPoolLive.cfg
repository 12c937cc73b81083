\* Liveness and the contract: two workers, one normal and one batch job.
SPECIFICATION PoolSpec
CONSTANTS
    None = None
    Workers = {w1, w2}
    Jobs = {n1, b1}
    BatchJobs = {b1}
    NotifyCap = 2
    RepeatedIds = FALSE
    MaxPool = 2
CHECK_DEADLOCK FALSE
PROPERTIES StopTerminates ShrinkTerminates EveryJobServed ImplementsContract
