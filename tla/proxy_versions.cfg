SPECIFICATION Spec
CONSTANTS
    p1 = p1
    p2 = p2
    p3 = p3
    p4 = p4
    p5 = p5
    c1 = c1
    c2 = c2
    c3 = c3
    c4 = c4
    c5 = c5
    k1 = k1
    x = x
    y = y
    v1 = v1
    v2 = v2
    Nil = Nil
    NoIp = NoIp
    ErrorText = ErrorText
    Pods = {p1, p2, p3}
    Keys = {k1}
    Vals = {x, y}
    Ips = {1, 2}
    Versions = {v1, v2}
    Version <- TwoVersions
    Clients = {c1, c2, c3}
    Home <- OneEach
    PeerLimit = 3
    PeerPortOpen = TRUE
    Ops = {"GET", "SET", "MSET", "DEL"}
    MaxRequests = 3
    Faults = {"evict", "l2", "peer", "l2restart", "crash", "redis"}
    MaxFaults = 1
INVARIANTS
    
    RepliesAreGenuine
SYMMETRY ValSymmetry
CHECK_DEADLOCK FALSE
