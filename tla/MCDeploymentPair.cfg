\* Two serve processes over one state directory, two kills, one `stop`, stop
\* requests at any moment.
CONSTANTS
    d1 = d1
    d2 = d2
    None = None
    Deployments = {d1, d2}
    SharedPort = FALSE
    MaxRestarts = 2
    MaxKills = 2
SPECIFICATION FairSpec
CHECK_DEADLOCK FALSE
INVARIANTS
    ExitLeavesNothing
    
PROPERTIES
    AskedEnds
