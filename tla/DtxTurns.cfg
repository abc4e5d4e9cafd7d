SPECIFICATION Spec
CONSTANTS
    Callers = {c1}
    Channels = {chA, chB}
    MaxId = 4
    MaxCalls = 3
    MaxOwn = 1
    NoMsg = NoMsg
    NoChan = NoChan
    Unsolicited <- TurnsUnsolicited
    ReplyShapes <- TurnsReplies
SYMMETRY Symmetric
INVARIANTS
    TypeOK
    OwnAnswer
    DesyncHasCause
    
    OverIsLast
\* The library is idle when its users are and the device is silent.
CHECK_DEADLOCK FALSE
