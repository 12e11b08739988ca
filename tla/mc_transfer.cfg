SPECIFICATION FairSpec
CONSTANTS
    x = x
    y = y
    z = z
    e1 = e1
    e2 = e2
    e3 = e3
    Keys = {x, y, z}
    Entries = {e1, e2, e3}
    Miss = Miss
    NoKey = NoKey
    InitSource <- SourceFull
    SlabOf <- SlabOfKeys
    Cold <- ColdKeys
    Embedded = {e2}
    Cut <- CutOfE2
    MaxKeys = 3
    MinDump = 1
    MaxChanges = 2
    Faults = {"refused", "close", "reject", "timeout", "cut"}
    MaxFaults = 2
INVARIANTS
    SnapshotIsComplete
PROPERTIES
    
    PrefetchEnds
CHECK_DEADLOCK FALSE
