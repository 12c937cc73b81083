CONSTANTS
    None = None
    Jobs = {j1, j2}
    BatchJobs = {j1, j2}
    Workers = {w1}
    Clients = {c1}
    FaultKinds = {"graduate", "park", "list"}
    MaxFaults = 1
    MaxCrashes = 1
SPECIFICATION Spec
SYMMETRY Symmetry
CHECK_DEADLOCK FALSE
INVARIANTS LifecycleTypeOK
PROPERTIES ImplementsJobContract
