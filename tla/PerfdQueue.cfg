SPECIFICATION Spec
CONSTANTS
    Monitor = "sysmontap"
    Options <- SysOptions
    Shapes <- SysShapes
    CapChan = 2
    CapOut = 1
    CapWire = 1
    Numbers = 4
    Ids = 4
INVARIANTS
    TypeOK
    ToldAfterForwarder
PROPERTY IsQueue
\* A monitor whose reader has gone, or whose connection has ended, stands still.
CHECK_DEADLOCK FALSE
