CONSTANTS
    None = None
    Jobs = {j1}
    BatchJobs = {j1}
    Workers = {w1, w2}
    Clients = {c1, c2}
    FaultKinds = {"start", "get", "cancel", "graduate", "park", "panic", "list"}
    MaxFaults = 2
    MaxCrashes = 1
SPECIFICATION Spec
SYMMETRY Symmetry
CHECK_DEADLOCK FALSE
INVARIANTS RowXorRun RegistryExact
PROPERTIES ReapsOnlyAbandoned
