CONSTANTS
    None = None
    t1 = t1
    t2 = t2
    Threads = {t1, t2}
    Worlds <- SmallWorlds
    Reply <- WorldReply
    Truth <- WorldTruth
    Root <- RootServers
    Requests <- SmallRequests
    Plans <- SmallPlans
    Moves <- SmallMoves
    LoopLimit = 7
    recurseCacheMaxEntries = 1
    CNAMEMaxChainLength = 2
    NegativeTTL = TRUE
SPECIFICATION Spec
INVARIANTS RecursorTypeOK Truthful WaitsForTheLiving
PROPERTY LookupsReturn
CHECK_DEADLOCK FALSE
