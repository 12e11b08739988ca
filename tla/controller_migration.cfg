SPECIFICATION Spec
CONSTANTS
    a = a
    b = b
    c = c
    x = x
    y = y
    t1 = t1
    t2 = t2
    NoPod = NoPod
    Pods = {a, b, c}
    Keys = {x, y}
    Ip <- MCIp
    Hash <- MCHash
    Version <- OneVersion
    InitPhase <- ThreeReady
    InitCache <- WarmCache
    EnablePrefetch = FALSE
    EnableMigration = TRUE
    Backend = "redis"
    TopN = 2
    RMin = 1
    Threads = {}
    Timeouts = FALSE
    MaxEvents = 2
    Changes = {"fill", "touch"}
    MaxChanges = 1
    Faults = {}
    MaxFaults = 0
INVARIANTS
    RegistryMatchesView
    
PROPERTIES
    SoleCopiesFirst
CHECK_DEADLOCK FALSE
