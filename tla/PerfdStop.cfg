SPECIFICATION ReadingSpec
CONSTANTS
    Monitor = "networking"
    Options = {}
    Shapes <- NetShapes
    CapChan = 1
    CapOut = 1
    CapWire = 1
    Numbers = 6
    Ids = 4
PROPERTY StopStopsDevice
CHECK_DEADLOCK FALSE
