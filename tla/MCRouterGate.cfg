\* The gate: one slot, two places in line, more requests than both.
CONSTANTS
    r1 = r1
    r2 = r2
    r3 = r3
    r4 = r4
    a = a
    None = None
    Requests = {r1, r2, r3, r4}
    Replicas = {a}
    MaxConcurrency = 1
    MaxQueueDepth = 2
    MaxIncarnation = 0
SPECIFICATION FairSpec
CHECK_DEADLOCK FALSE
INVARIANTS
    SlotsReachWaiters
    CountersBalanced
PROPERTIES
    ImplementsAdmission
    
