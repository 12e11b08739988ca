SPECIFICATION FairSpec
CONSTANTS
    Services <- Deployed
    MaxDepth = 2
    Clients = {c1, c2}
    Keys = {x, y}
    Nil = Nil
    Err = Err
    MaxAsks = 3
    MaxFaults = 2
INVARIANTS
    NoStaleReads
    ErrorsHaveACause
    
PROPERTIES
    RequestsEnd
CHECK_DEADLOCK FALSE
