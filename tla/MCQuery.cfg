CONSTANTS
    None = None
    t1 = t1
    t2 = t2
    t3 = t3
    r1 = r1
    r2 = r2
    sick = sick
    dead = dead
    well = well
    twin = twin
    k1 = k1
    q1 = q1
    q2 = q2
    q3 = q3
    Threads = {t1, t2, t3}
    Runs = {r1, r2}
    RunOf <- Goroutines
    HotKeys = {k1}
    HotKeyOf <- OneKey
    MaxHot = 1
    Servers = {sick, dead, well, twin}
    Addrs = {sick, dead, well}
    AddrOf <- Address
    Behaviour <- Health
    Questions = {q1, q2, q3}
    PlainSOA = {q1}
    Diagnostic = {q2}
    CapLimit = 1
    Threshold = 2
    LatencyBudget = TRUE
    QueryCacheMaxEntries = 1
    MaxRunAddresses = 1
    Plans <- Small
    MaxFaults = 1
SPECIFICATION Spec
INVARIANTS QueryTypeOK OneLeader CapExact HealthyNotBlamed
PROPERTY QueriesReturn
CHECK_DEADLOCK FALSE
