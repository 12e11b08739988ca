SPECIFICATION FairSpec
CONSTANTS
    a = a
    b = b
    c = c
    x = x
    y = y
    t1 = t1
    t2 = t2
    NoPod = NoPod
    Pods = {a, b}
    Keys = {x}
    Ip <- MCIp
    Hash <- MCHash
    Version <- OneVersion
    InitPhase <- SecondBooting
    InitCache <- OneWarm
    EnablePrefetch = FALSE
    EnableMigration = TRUE
    Backend = "redis"
    TopN = 2
    RMin = 1
    Threads = {}
    Timeouts = TRUE
    MaxEvents = 1
    Changes = {}
    MaxChanges = 0
    Faults = {"restart", "l2restart", "l2"}
    MaxFaults = 2
PROPERTIES
    DeletedPodIsForgotten
    ReadyPodIsRegistered
CHECK_DEADLOCK FALSE
