\* Two servers, one cohort, an occurrence at every time, one request, one fault.
SPECIFICATION LiveSpec
CONSTANTS
    None = None
    Servers = {s1, s2}
    Cohorts = {c1}
    Rules <- MCRules
    Batches = {b1, b2}
    MaxDomains = 1
    Grace = 0
    Forms <- MCForms
    MaxTime = 2
    MaxRequests = 1
    MaxFaults = 1
    FaultKinds = {"claim", "put", "count", "create", "record", "exit", "stop", "zone"}
CHECK_DEADLOCK FALSE
INVARIANTS SchedTypeOK SerialRunsDoNotOverlap NextIsFirst
PROPERTIES FiresOnce DueIsHandled
