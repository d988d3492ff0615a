SPECIFICATION FairSpec
CONSTANTS
    None = None
    N = 4
    W = 2
    Concurrency = 2
INVARIANTS
    LoadAsAsked
    EveryRequestCounted
    SuccessMeansGenerated
PROPERTY RunEnds
