SPECIFICATION Spec
CONSTANTS
    Dirs = {".", "Retired"}
    Reports = {"a", "a.synced", "b.plist", "b.crash"}
    Root = "."
    In <- MCIn
    HostName <- MCHostName
    Extracts <- MCExtracts
    NoReport = "none"
    Parts = 2
    MaxMoves = 2
    MaxFaults = 2
INVARIANTS
    NoReportLost
    
\* After MaxMoves calls nothing is left to do.
CHECK_DEADLOCK FALSE
