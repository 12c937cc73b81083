CONSTANTS
    None = None
    Jobs = {j1}
    BatchJobs = {j1}
    Workers = {w1, w2}
    Clients = {c1}
    FaultKinds = {"start", "graduate", "park", "panic", "list"}
    MaxFaults = 2
    MaxCrashes = 1
SPECIFICATION LiveSpec
CHECK_DEADLOCK FALSE
INVARIANTS RunsAtMostOnce QueuedIsReachable
PROPERTIES EventuallyTerminal
