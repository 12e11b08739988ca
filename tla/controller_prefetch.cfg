SPECIFICATION Spec
CONSTANTS
    a = a
    b = b
    c = c
    x = x
    y = y
    t1 = t1
    t2 = t2
    NoPod = NoPod
    Pods = {a, b, c}
    Keys = {x, y}
    Ip <- MCIp
    Hash <- MCHash
    Version <- OneVersion
    InitPhase <- ThirdBooting
    InitCache <- OneWarm
    EnablePrefetch = TRUE
    EnableMigration = FALSE
    Backend = "redis"
    TopN = 2
    RMin = 1
    Threads = {t1, t2}
    Timeouts = FALSE
    MaxEvents = 1
    Changes = {}
    MaxChanges = 0
    Faults = {}
    MaxFaults = 0
INVARIANTS
    
    
    PrefetchAgreesWithRouting
SYMMETRY ThreadSymmetry
CHECK_DEADLOCK FALSE
