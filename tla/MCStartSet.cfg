\* One process: a set of three on three ports, a failed start and the next, Ctrl-C.
CONSTANTS
    p1 = p1
    None = None
    Pilots = {p1}
    Interruptible = {p1}
    Count = 3
    FirstPort = 1
    LastPort = 3
    MaxStarts = 2
SPECIFICATION FairSpec
CHECK_DEADLOCK FALSE
INVARIANTS
    AllOrNothing
    PortsApart
    
PROPERTIES
    StartEnds
