SPECIFICATION ReadingSpec
CONSTANTS
    Monitor = "graphics"
    Options <- GraphOptions
    Shapes <- GraphShapes
    CapChan = 1
    CapOut = 1
    CapWire = 1
    Numbers = 6
    Ids = 4
PROPERTIES
    NotStarved
    Delivered
    CallbackReturns
    ForwarderEnds
\* A device that does not sample and owes nothing leaves the monitor still.
CHECK_DEADLOCK FALSE
