\* Two replicas, a budget of one restart per window, a clock that goes past the
\* window once, shutdown at any moment.
CONSTANTS
    i0 = i0
    i1 = i1
    Indices = {i0, i1}
    UnhealthyAfter = 2
    MaxRestarts = 1
    Window = 1
    RestartEnabled = TRUE
    MaxLaunches = 2
    MaxTime = 2
SPECIFICATION FairSpec
CHECK_DEADLOCK FALSE
INVARIANTS
    OneEnginePerGroup
    NoUnownedEngine
    TablesAgree
    ShutdownLeavesNothing
    RestartBudget
PROPERTIES
    StoppedIsFinal
    RestartsAndShutdownEnd
