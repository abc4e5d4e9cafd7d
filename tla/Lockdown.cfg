SPECIFICATION Spec
CONSTANTS
    Callers = {c1, c2}
    Devs = {d1, d2}
    Ops = {"afc", "misagent", "crashReportMover", "getValue", "pair", "deletePairRecord",
           "queryType", "enterRecovery", "testmanagerd", "icon"}
    Sharing <- OfOneDevice
    MaxCalls = 2
    MaxFaults = 1
    NoCaller = NoCaller
    NoDev = NoDev
INVARIANTS TypeOK OwnService OwnRecord PairsOnlyIfMissing SessionsAgree AnswerAwaited PanicHasCause
PROPERTIES StopsRunningFirst
SYMMETRY Symmetric
CHECK_DEADLOCK FALSE
