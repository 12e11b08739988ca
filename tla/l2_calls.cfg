SPECIFICATION FairSpec
CONSTANTS
    g1 = g1
    g2 = g2
    g3 = g3
    x = x
    y = y
    Callers = {g1, g2}
    Vals = {x}
    Nil = Nil
    Ok = Ok
    Error = Error
    NoCommand = NoCommand
    None = None
    Attempts = 2
    MaxCalls = 3
    Faults = {"dial", "write", "timeout", "restart"}
    MaxFaults = 2
INVARIANTS
    ConnInv
    OneFailureIsAbsorbed
PROPERTIES
    PromiseKept
    CallsReturn
CHECK_DEADLOCK FALSE
