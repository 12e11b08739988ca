SPECIFICATION FairSpec
CONSTANTS
    x = x
    y = y
    z = z
    e1 = e1
    e2 = e2
    e3 = e3
    Keys = {x, y}
    Entries = {e1, e2, e3}
    Miss = Miss
    NoKey = NoKey
    InitSource <- SourceTwo
    SlabOf <- SlabOfTwo
    Cold = {x, y}
    Embedded = {e2}
    Cut <- CutOfE2
    MaxKeys = 3
    MinDump = 1
    MaxChanges = 0
    Faults = {"timeout"}
    MaxFaults = 1
INVARIANTS
    EntriesAreFaithful
CHECK_DEADLOCK FALSE
