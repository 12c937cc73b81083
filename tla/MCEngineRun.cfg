\* Runs of the engine, three servers asked by two workers or one by one, with
\* up to two faults of any kind.
SPECIFICATION LiveSpec
CONSTANTS
    None = None
    Profile <- MCProfile
    Scenarios <- MCScenarios
    Width <- MCWidth
    MaxParallel = 2
    FaultKinds = {"panic", "error", "callback", "cancel", "timeout"}
CHECK_DEADLOCK FALSE
INVARIANTS SucceededAsSequential QueriesCounted
PROPERTIES RunEnds
