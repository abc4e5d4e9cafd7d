SPECIFICATION Spec
CONSTANTS
    Callers = {c1, c2}
    Channels = {chA}
    MaxId = 3
    MaxCalls = 2
    MaxOwn = 1
    NoMsg = NoMsg
    NoChan = NoChan
    Unsolicited <- OverlapUnsolicited
    ReplyShapes <- TurnsReplies
SYMMETRY Symmetric
INVARIANTS
    TakenOnce
\* The library is idle when its users are and the device is silent.
CHECK_DEADLOCK FALSE
