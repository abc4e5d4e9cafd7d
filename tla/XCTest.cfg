SPECIFICATION Spec
CONSTANTS
    Runs = {r1, r2}
    MaxFaults = 2
    MaxOutputs = 2
    NoRun = NoRun
INVARIANTS
    TypeOK
    OwnOutput
    
PROPERTIES
    
    CallbackReturns
\* A run whose call is stuck, or that nobody cancels, stands still.
CHECK_DEADLOCK FALSE
