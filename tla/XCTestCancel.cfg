SPECIFICATION Spec
CONSTANTS
    Runs = {r1}
    MaxFaults = 0
    MaxOutputs = 2
    NoRun = NoRun
INVARIANT CancelIsClean
CHECK_DEADLOCK FALSE
