SPECIFICATION Spec
CONSTANTS
    Users = {u1, u2}
    MaxMonitors = 4
    MaxStops = 2
SYMMETRY Symmetric
INVARIANTS
    TypeOK
    Stoppable
    AllStopped
    PanicHasCause
\* A program that has panicked, or users who no longer call, stand still.
CHECK_DEADLOCK FALSE
