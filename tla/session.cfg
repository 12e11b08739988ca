SPECIFICATION FairSpec
CONSTANTS
    x = x
    y = y
    c1 = c1
    c2 = c2
    a = a
    b = b
    Keys = {x, y}
    VersionTag = "v1"
    Conns = {c1, c2}
    Vals = {a, b}
    PeerVals = {b}
    Nil = Nil
    Ok = Ok
    Error = Error
    Queued = Queued
    Argvs <- ArgvsAll
    MaxRequests = 4
    Star = Star
    Dollar = Dollar
    Plus = Plus
    Minus = Minus
    Colon = Colon
    Crlf = Crlf
    Byte = Byte
    Payloads <- PayloadsAll
INVARIANTS
    RepliesInOrder
    Transparent
    
    FramesAreReadBack
    CutFramesFail
    CommandsAreReadBack
PROPERTIES
    CommandsAreAnswered
CHECK_DEADLOCK FALSE
