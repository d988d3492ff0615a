SPECIFICATION FairSpec
CONSTANTS
    None = None
    Launches = {l1, l2}
    MaxNodes = 2
    JoinTries = 1
    WaitPolls = 1
    MaxEdits = 1
    MaxUps = 2
INVARIANTS
    
    NothingRentedUnsaid
PROPERTIES
    
    WaitsEnd
CHECK_DEADLOCK FALSE
