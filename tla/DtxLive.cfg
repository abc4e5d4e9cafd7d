SPECIFICATION Spec
CONSTANTS
    Callers = {c1}
    Channels = {chA}
    MaxId = 2
    MaxCalls = 1
    MaxOwn = 2
    NoMsg = NoMsg
    NoChan = NoChan
    Unsolicited <- LiveUnsolicited
    ReplyShapes <- LiveReplies
INVARIANT AckOnce
PROPERTIES
    CallReturns
    AckedOrCancelled
    
\* The library is idle when its users are and the device is silent.
CHECK_DEADLOCK FALSE
