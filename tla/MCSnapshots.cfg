CONSTANTS
    NoSnap = NoSnap
    w1 = w1
    Workers = {w1, w2}
    b1 = b1
    r1 = r1
    Runs = {r1, r2}
    Batches = {b1}
    BatchOf <- OneBatch
    Results = {"succeeded"}
    Scenarios <- Disturbed
SPECIFICATION Spec
INVARIANTS SnapshotTypeOK CapturedIsWhole FactsKept
CHECK_DEADLOCK FALSE
PROPERTIES SettlesCaptured
