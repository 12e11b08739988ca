SPECIFICATION Spec
CONSTANTS
    a = a
    b = b
    c = c
    x = x
    y = y
    t1 = t1
    t2 = t2
    NoPod = NoPod
    Pods = {a, b}
    Keys = {x, y}
    Ip <- MCIp
    Hash <- MCHash
    Version <- OneVersion
    InitPhase <- SecondPending
    InitCache <- OneWarm
    EnablePrefetch = FALSE
    EnableMigration = TRUE
    Backend = "redis"
    TopN = 2
    RMin = 1
    Threads = {}
    Timeouts = TRUE
    MaxEvents = 2
    Changes = {"flap", "touch", "drop"}
    MaxChanges = 1
    Faults = {"call", "l2", "deadline", "watch"}
    MaxFaults = 1
INVARIANTS
    GoneIsNoticed
    ViewFollowsCluster
    L2NamesKnownPods
    SkBacked
CHECK_DEADLOCK FALSE
