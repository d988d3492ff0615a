\* Routing, retries and restarts: no gate, three replicas that restart once.
CONSTANTS
    r1 = r1
    r2 = r2
    a = a
    b = b
    c = c
    None = None
    Requests = {r1, r2}
    Replicas = {a, b, c}
    MaxConcurrency = 0
    MaxQueueDepth = 0
    MaxIncarnation = 1
SPECIFICATION Spec
SYMMETRY Symmetry
CHECK_DEADLOCK FALSE
INVARIANTS
    TypeOK
    InflightMatchesLeases
    EachFailureChargedOnce
    RetriesElsewhere
