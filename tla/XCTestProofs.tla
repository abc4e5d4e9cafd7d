----------------------------- MODULE XCTestProofs -----------------------------
(***************************************************************************)
(* Theorems about XCTest, for any number of runs, failures and outputs.    *)
(***************************************************************************)
EXTENDS XCTest, SequenceTheorems, TLAPS

Pcs == {"idle", "session", "lookup", "container", "config", "instruments", "process", "output",
        "launch", "launching", "launched", "authorize", "authorized", "return", "returned",
        "stuck"}
RunRec == [pc: Pcs,
           err: BOOLEAN, outcome: {"none", "error", "ok"}, user: {"none", "reading", "left"},
           chan: {"open", "closed"}, cancelled: BOOLEAN,
           closer: {"none", "register", "wait", "kill", "close", "done"},
           app: {"none", "running", "killed", "exited"},
           outputs: 0..MaxOutputs, got: SUBSET Runs,
           control: {"none", "open", "closed"}, plan: {"none", "ready", "started", "failed"}]
InstRec == [up: BOOLEAN, over: BOOLEAN, output: Runs \cup {NoRun}, end: Runs \cup {NoRun},
            rx: {"idle", "sending", "over"}, to: Runs \cup {NoRun}, from: Runs \cup {NoRun}]
Message == [kind: {"output", "reply"}, of: Runs]

Types == /\ run \in [Runs -> RunRec] /\ inst \in InstRec /\ wire \in Seq(Message)
         /\ arrest \in {"none", "requests", "files"} /\ faults \in 0..MaxFaults

\* The steps of a call past house arrest, and those past the registration of its output.
Registered == {"launch", "launching", "launched", "authorize", "authorized", "return"}
Past == {"config", "instruments", "process", "output"} \cup Registered

\* House arrest lets one run past, the one whose output may be registered.
OnePast ==
    \A r \in Runs : run[r].pc \in Past \/ inst.output = r =>
        /\ arrest = "files"
        /\ \A s \in Runs : run[s].pc \in Past \/ inst.output = s => s = r

\* Whatever is launched, on its way or in the receiver's hand is that run's.
RegisteredFirst ==
    /\ \A r \in Runs : run[r].pc \in Registered \/ run[r].app # "none" => inst.output = r
    /\ \A i \in 1..Len(wire) : wire[i].of = inst.output
    /\ inst.rx = "sending" => /\ inst.to = inst.output /\ inst.from = inst.output
                              /\ inst.output \in Runs

\* What a call has done when its goroutine runs, and what that has done before it closes.
Ends(r) ==
    /\ run[r].closer # "none" => run[r].pc \in {"return", "returned"}
    /\ run[r].pc = "return" => run[r].closer # "none"
    /\ run[r].outcome = "ok" => run[r].pc = "returned" /\ run[r].closer # "none"
    /\ run[r].chan = "closed" <=> run[r].closer = "done"
    /\ run[r].closer \in {"close", "done"} => run[r].app # "running" \/ inst.over

Inv == Types /\ OnePast /\ RegisteredFirst /\ (\A r \in Runs : Ends(r)) /\ OwnOutput

LEMMA Bounds == MaxFaults \in Nat /\ MaxOutputs \in Nat /\ NoRun \notin Runs
  BY XCTestAssumption DEF XCTestAssumption

LEMMA InvInit == Init => Inv
<1> SUFFICES ASSUME Init PROVE Inv
  OBVIOUS
<1>1. NewRun \in RunRec
  BY Bounds DEF NewRun, RunRec, Pcs
<1>2. <<>> \in Seq(Message)
  OBVIOUS
<1>3. run \in [Runs -> RunRec] /\ wire \in Seq(Message)
  BY <1>1, <1>2 DEF Init
<1>4. inst \in InstRec
  BY DEF Init, InstRec
<1>5. Types
  <2>1. faults \in 0..MaxFaults
    <3>1. faults = 0
      BY DEF Init
    <3>2. QED
      BY <3>1, Bounds
  <2>2. arrest \in {"none", "requests", "files"}
    BY DEF Init
  <2>3. QED
    BY <1>3, <1>4, <2>1, <2>2 DEF Types
<1>6. \A r \in Runs : /\ run[r].pc = "idle" /\ run[r].app = "none" /\ run[r].got = {}
                      /\ run[r].closer = "none" /\ run[r].chan = "open" /\ run[r].outcome = "none"
  BY DEF Init, NewRun
<1>7. inst.output = NoRun /\ inst.rx = "idle" /\ Len(wire) = 0
  BY DEF Init
<1>8. OnePast
  BY <1>6, <1>7, Bounds DEF OnePast, Past, Registered
<1>9. RegisteredFirst
  BY <1>6, <1>7 DEF RegisteredFirst, Registered
<1>10. (\A r \in Runs : Ends(r)) /\ OwnOutput
  BY <1>6 DEF Ends, OwnOutput
<1>11. QED
  BY <1>5, <1>8, <1>9, <1>10 DEF Inv

\* What the steps of a call leave alone.
OnlyCall(r) ==
    /\ run' \in [Runs -> RunRec] /\ \A q \in Runs \ {r} : run'[q] = run[q]
    /\ run'[r].app = run[r].app /\ run'[r].got = run[r].got /\ run'[r].chan = run[r].chan

LEMMA GoKeeps ==
    ASSUME Types, NEW r \in Runs, NEW pc \in Pcs, Go(r, pc)
    PROVE  /\ OnlyCall(r) /\ run'[r].pc = pc
           /\ run'[r].closer = run[r].closer /\ run'[r].outcome = run[r].outcome
<1> DEFINE new == [run[r] EXCEPT !.pc = pc]
<1>1. run[r] \in RunRec
  BY DEF Types
<1>2. new.pc = pc /\ new.app = run[r].app /\ new.got = run[r].got /\ new.chan = run[r].chan
      /\ new.closer = run[r].closer /\ new.outcome = run[r].outcome /\ new \in RunRec
  BY <1>1 DEF RunRec
<1>3. run' = [run EXCEPT ![r] = new]
  BY DEF Go
<1> HIDE DEF new
<1>4. run'[r] = new /\ run' \in [Runs -> RunRec] /\ \A q \in Runs \ {r} : run'[q] = run[q]
  BY <1>2, <1>3 DEF Types
<1>5. QED
  BY <1>2, <1>4 DEF OnlyCall

LEMMA FailKeeps ==
    ASSUME Types, NEW r \in Runs, Fail(r)
    PROVE  /\ OnlyCall(r) /\ run'[r].pc = "returned"
           /\ run'[r].closer = run[r].closer /\ run'[r].outcome = "error"
<1> DEFINE new == [run[r] EXCEPT !.pc = "returned", !.outcome = "error", !.err = TRUE]
<1>1. run[r] \in RunRec
  BY DEF Types
<1>2. new.pc = "returned" /\ new.app = run[r].app /\ new.got = run[r].got /\ new.chan = run[r].chan
      /\ new.closer = run[r].closer /\ new.outcome = "error" /\ new \in RunRec
  BY <1>1 DEF RunRec, Pcs
<1>3. run' = [run EXCEPT ![r] = new]
  BY DEF Fail, Types
<1> HIDE DEF new
<1>4. run'[r] = new /\ run' \in [Runs -> RunRec] /\ \A q \in Runs \ {r} : run'[q] = run[q]
  BY <1>2, <1>3 DEF Types
<1>5. QED
  BY <1>2, <1>4 DEF OnlyCall
\* A step of a call before its return, which adds no claim on the connection or on the
\* container, keeps Inv.
LEMMA CallStep ==
    ASSUME Inv, NEW r \in Runs, OnlyCall(r),
           run[r].pc \notin {"return", "returned"}, run'[r].pc # "return",
           run'[r].closer = run[r].closer, run'[r].outcome \in {run[r].outcome, "error"},
           run'[r].pc \in Past => run[r].pc \in Past,
           run'[r].pc \in Registered => run[r].pc \in Registered,
           inst' \in InstRec, inst'.output = inst.output, inst'.rx = inst.rx,
           inst'.to = inst.to, inst'.from = inst.from, inst'.over = inst.over,
           UNCHANGED wire, arrest' = arrest \/ (arrest' \in {"requests", "files"} /\ arrest # "files"),
           faults' \in 0..MaxFaults
    PROVE  Inv'
<1> USE DEF Inv, OnlyCall
<1>1. Types'
  BY DEF Types
<1>2. OnePast'
  BY DEF OnePast
<1>3. RegisteredFirst'
  <2>1. \A q \in Runs : run'[q].pc \in Registered \/ run'[q].app # "none" => inst'.output = q
    BY DEF RegisteredFirst
  <2>2. QED
    BY <2>1 DEF RegisteredFirst
<1>4. \A q \in Runs : Ends(q)'
  <2>1. Ends(r)'
    BY DEF Ends
  <2>2. \A q \in Runs \ {r} : Ends(q)'
    BY DEF Ends
  <2>3. QED
    BY <2>1, <2>2
<1>5. OwnOutput'
  BY DEF OwnOutput
<1>6. QED
  BY <1>1, <1>2, <1>3, <1>4, <1>5

LEMMA FaultType == ASSUME Types PROVE MayFail \/ UNCHANGED faults => faults' \in 0..MaxFaults
  BY Bounds DEF Types, MayFail
LEMMA GoStep ==
    ASSUME Inv, NEW r \in Runs, NEW pc \in Pcs \ {"return"}, Go(r, pc),
           run[r].pc \notin {"return", "returned"},
           pc \in Past => run[r].pc \in Past, pc \in Registered => run[r].pc \in Registered,
           UNCHANGED <<inst, wire, arrest>>, MayFail \/ UNCHANGED faults
    PROVE  Inv'
<1>1. OnlyCall(r) /\ run'[r].pc = pc /\ run'[r].closer = run[r].closer
      /\ run'[r].outcome = run[r].outcome
  BY GoKeeps DEF Inv
<1>2. inst' \in InstRec /\ faults' \in 0..MaxFaults
  BY FaultType DEF Inv, Types
<1>3. QED
  BY <1>1, <1>2, CallStep

LEMMA FailStep ==
    ASSUME Inv, NEW r \in Runs, Fail(r), run[r].pc \notin {"return", "returned"},
           UNCHANGED <<inst, wire>>, MayFail \/ UNCHANGED faults,
           arrest' = arrest \/ (arrest' \in {"requests", "files"} /\ arrest # "files")
    PROVE  Inv'
<1>1. OnlyCall(r) /\ run'[r].pc = "returned" /\ run'[r].closer = run[r].closer
      /\ run'[r].outcome = "error"
  BY FailKeeps DEF Inv
<1>2. inst' \in InstRec /\ faults' \in 0..MaxFaults
  BY FaultType DEF Inv, Types
<1>3. run'[r].pc \notin Past /\ run'[r].pc \notin Registered
  BY <1>1 DEF Past, Registered
<1>4. QED
  BY <1>1, <1>2, <1>3, CallStep

\* A step that ends the program, or only counts a failure.
LEMMA PanicStep ==
    ASSUME Inv, UNCHANGED <<run, inst, wire, arrest>>, MayFail \/ UNCHANGED faults
    PROVE  Inv'
<1>1. faults' \in 0..MaxFaults
  BY FaultType DEF Inv
<1>2. QED
  BY <1>1 DEF Inv, Types, OnePast, RegisteredFirst, Ends, OwnOutput

LEMMA Proceed ==
    ASSUME Inv, NEW r \in Runs, NEW pc \in Pcs \ {"return"},
           Go(r, pc) \/ Fail(r) \/ UNCHANGED run,
           run[r].pc \notin {"return", "returned"},
           pc \in Past => run[r].pc \in Past, pc \in Registered => run[r].pc \in Registered,
           inst' = inst, wire' = wire, arrest' = arrest, MayFail \/ UNCHANGED faults
    PROVE  Inv'
  BY GoStep, FailStep, PanicStep

LEMMA ControlInv == ASSUME Inv, NEW r \in Runs, Control(r) PROVE Inv'
  BY Proceed DEF Control, At, Pcs, Past, Registered

LEMMA LookupInv == ASSUME Inv, NEW r \in Runs, Lookup(r) PROVE Inv'
  BY Proceed DEF Lookup, At, Pcs, Past, Registered

LEMMA ConfigInv == ASSUME Inv, NEW r \in Runs, Config(r) PROVE Inv'
  BY Proceed DEF Config, At, Pcs, Past, Registered

LEMMA AppProcessInv == ASSUME Inv, NEW r \in Runs, AppProcess(r) PROVE Inv'
  BY Proceed DEF AppProcess, At, Pcs, Past, Registered

LEMMA AppLaunchInv == ASSUME Inv, NEW r \in Runs, AppLaunch(r) PROVE Inv'
  BY Proceed DEF AppLaunch, At, Pcs, Past, Registered

LEMMA LaunchedInv == ASSUME Inv, NEW r \in Runs, Launched(r) PROVE Inv'
  BY Proceed DEF Launched, At, Pcs, Past, Registered
\* The record of one run is replaced.
LEMMA Replace ==
    ASSUME Types, NEW r \in Runs, NEW new \in RunRec, run' = [run EXCEPT ![r] = new]
    PROVE  run' \in [Runs -> RunRec] /\ run'[r] = new /\ \A q \in Runs \ {r} : run'[q] = run[q]
  BY DEF Types

LEMMA SessionInv == ASSUME Inv, NEW r \in Runs, Session(r) PROVE Inv'
<1> DEFINE new == [run[r] EXCEPT !.pc = "lookup", !.control = "open"]
<1>1. run[r] \in RunRec /\ run \in [Runs -> RunRec]
  BY DEF Inv, Types
<1>2. CASE Fail(r) /\ MayFail
  BY <1>2, FailStep DEF Session, At
<1>3. CASE run' = [run EXCEPT ![r].pc = "lookup", ![r].control = "open"] /\ UNCHANGED faults
  <2>1. /\ new.pc = "lookup" /\ new.app = run[r].app /\ new.got = run[r].got
        /\ new.chan = run[r].chan /\ new.closer = run[r].closer /\ new.outcome = run[r].outcome
    BY <1>1 DEF RunRec
  <2>2. new \in RunRec
    <3>1. "lookup" \in Pcs
      BY DEF Pcs
    <3>2. QED
      BY <1>1, <3>1 DEF RunRec
  <2>3. run' = [run EXCEPT ![r] = new]
    BY <1>1, <1>3
  <2> HIDE DEF new
  <2>4. run'[r] = new /\ OnlyCall(r)
    BY <2>1, <2>3, <2>2, Replace DEF Inv, OnlyCall
  <2>5. inst' \in InstRec /\ faults' \in 0..MaxFaults
    BY <1>3 DEF Session, Inv, Types
  <2>6. new.pc \notin Past /\ new.pc \notin Registered
    BY <2>1 DEF Past, Registered
  <2>7. QED
    BY <2>1, <2>4, <2>5, <2>6, CallStep DEF Session, At
<1>4. QED
  BY <1>2, <1>3 DEF Session

\* A step of the call that has passed house arrest, and of which the connection and the
\* goroutine learn nothing: the two assignments of err, with the next pc.
LEMMA ErrStep ==
    ASSUME Inv, NEW r \in Runs, NEW pc \in Registered \ {"return"}, NEW err \in BOOLEAN,
           run[r].pc \in Registered \ {"return"},
           run' = [run EXCEPT ![r].pc = pc, ![r].err = err],
           inst' = inst, wire' = wire, arrest' = arrest, MayFail \/ UNCHANGED faults
    PROVE  Inv'
<1> DEFINE new == [run[r] EXCEPT !.pc = pc, !.err = err]
<1>1. run[r] \in RunRec /\ run \in [Runs -> RunRec] /\ inst \in InstRec
  BY DEF Inv, Types
<1>2. new \in RunRec /\ new.pc = pc /\ new.app = run[r].app /\ new.got = run[r].got
      /\ new.chan = run[r].chan /\ new.closer = run[r].closer /\ new.outcome = run[r].outcome
  BY <1>1 DEF RunRec, Pcs, Registered
<1>3. run' = [run EXCEPT ![r] = new]
  BY <1>1
<1> HIDE DEF new
<1>4. run'[r] = new /\ OnlyCall(r)
  BY <1>2, <1>3, Replace DEF Inv, OnlyCall
<1>5. faults' \in 0..MaxFaults
  BY FaultType DEF Inv
<1>6. run[r].pc \in Past /\ run[r].pc \notin {"return", "returned"}
  BY DEF Past, Registered
<1>7. QED
  BY <1>1, <1>2, <1>4, <1>5, <1>6, CallStep

LEMMA LaunchTimeoutInv == ASSUME Inv, NEW r \in Runs, LaunchTimeout(r) PROVE Inv'
  BY ErrStep DEF LaunchTimeout, At, Registered

LEMMA AuthorizeInv == ASSUME Inv, NEW r \in Runs, Authorize(r) PROVE Inv'
  BY ErrStep DEF Authorize, At, Registered

LEMMA InstrumentsServiceInv == ASSUME Inv, NEW r \in Runs, InstrumentsService(r) PROVE Inv'
<1>1. CASE Fail(r) /\ MayFail /\ UNCHANGED inst
  BY <1>1, FailStep DEF InstrumentsService, At
<1>2. CASE inst' = [inst EXCEPT !.up = TRUE] /\ Go(r, "process") /\ UNCHANGED faults
  <2>1. /\ inst' \in InstRec /\ inst'.output = inst.output /\ inst'.rx = inst.rx
        /\ inst'.to = inst.to /\ inst'.from = inst.from /\ inst'.over = inst.over
    BY <1>2 DEF Inv, Types, InstRec
  <2>2. "process" \in Pcs
    BY DEF Pcs
  <2>3. OnlyCall(r) /\ run'[r].pc = "process" /\ run'[r].closer = run[r].closer
        /\ run'[r].outcome = run[r].outcome
    BY <1>2, <2>2, GoKeeps DEF Inv
  <2>4. run[r].pc = "instruments" /\ "instruments" \in Past /\ "process" \notin Registered
    BY DEF InstrumentsService, At, Past, Registered
  <2>5. faults' \in 0..MaxFaults
    BY <1>2 DEF Inv, Types
  <2>6. QED
    BY <2>1, <2>3, <2>4, <2>5, CallStep DEF InstrumentsService
<1>3. QED
  BY <1>1, <1>2 DEF InstrumentsService
LEMMA ContainerInv == ASSUME Inv, NEW r \in Runs, Container(r) PROVE Inv'
<1>1. run[r].pc = "container" /\ UNCHANGED <<inst, wire>> /\ "container" \notin {"return", "returned"}
  BY DEF Container, At
<1>2. CASE Fail(r) /\ (MayFail \/ UNCHANGED faults) /\ (UNCHANGED arrest \/ (arrest # "files" /\ arrest' = "requests"))
  BY <1>1, <1>2, FailStep
<1>3. CASE Go(r, "stuck") /\ UNCHANGED <<arrest, faults>>
  BY <1>1, <1>3, Proceed DEF Pcs, Past, Registered
<1>4. CASE arrest # "files" /\ arrest' = "files" /\ Go(r, "config") /\ UNCHANGED faults
  <2>1. "config" \in Pcs /\ "config" \notin Registered
    BY DEF Pcs, Registered
  <2>2. OnlyCall(r) /\ run'[r].pc = "config" /\ run'[r].closer = run[r].closer
        /\ run'[r].outcome = run[r].outcome
    BY <1>4, <2>1, GoKeeps DEF Inv
  <2>3. \A q \in Runs : run[q].pc \notin Past /\ inst.output # q
    BY <1>4 DEF Inv, OnePast
  <2>4. OnePast'
    BY <1>1, <1>4, <2>2, <2>3 DEF OnePast, OnlyCall
  <2>5. RegisteredFirst'
    BY <1>1, <2>1, <2>2 DEF Inv, RegisteredFirst, OnlyCall
  <2>6. \A q \in Runs : Ends(q)'
    BY <1>1, <2>2 DEF Inv, Ends, OnlyCall
  <2>7. Types' /\ OwnOutput'
    BY <1>1, <1>4, <2>2 DEF Inv, Types, OnlyCall, OwnOutput
  <2>8. QED
    BY <2>4, <2>5, <2>6, <2>7 DEF Inv
<1>5. QED
  BY <1>2, <1>3, <1>4 DEF Container

LEMMA RegisterOutputInv == ASSUME Inv, NEW r \in Runs, RegisterOutput(r) PROVE Inv'
<1>1. run[r].pc = "output" /\ "output" \in Past /\ UNCHANGED <<wire, arrest, faults>>
  BY DEF RegisterOutput, At, Past
<1>2. "launch" \in Pcs /\ "launch" \in Past /\ "launch" \notin {"return", "returned"}
  BY DEF Pcs, Past, Registered
<1>3. OnlyCall(r) /\ run'[r].pc = "launch" /\ run'[r].closer = run[r].closer
      /\ run'[r].outcome = run[r].outcome
  BY <1>2, GoKeeps DEF Inv, RegisterOutput
<1>4. /\ inst' \in InstRec /\ inst'.output = r /\ inst'.rx = inst.rx
      /\ inst'.to = inst.to /\ inst'.from = inst.from /\ inst'.over = inst.over
  BY DEF RegisterOutput, Inv, Types, InstRec
<1>5. arrest = "files" /\ \A q \in Runs : run[q].pc \in Past \/ inst.output = q => q = r
  BY <1>1 DEF Inv, OnePast
<1>6. inst.output \in {r, NoRun}
  BY <1>5 DEF Inv, Types, InstRec
<1>7. \A q \in Runs : run[q].pc \in Registered \/ run[q].app # "none" => q = r
  BY <1>5 DEF Inv, RegisteredFirst
<1>8. OnePast'
  BY <1>1, <1>2, <1>3, <1>4, <1>5 DEF OnePast, OnlyCall
<1>9. \A i \in 1..Len(wire) : wire[i].of = r
  <2> SUFFICES ASSUME NEW i \in 1..Len(wire) PROVE wire[i].of = r
    OBVIOUS
  <2>1. wire[i] \in Message
    BY DEF Inv, Types
  <2>2. wire[i].of \in Runs /\ wire[i].of = inst.output
    BY <2>1 DEF Inv, RegisteredFirst, Message
  <2>3. QED
    BY <1>6, <2>2, Bounds
<1>10. inst.rx = "sending" => inst.to = r /\ inst.from = r
  BY <1>6, Bounds DEF Inv, RegisteredFirst
<1>11. RegisteredFirst'
  BY <1>1, <1>3, <1>4, <1>7, <1>9, <1>10 DEF RegisteredFirst, OnlyCall
<1>12. \A q \in Runs : Ends(q)'
  BY <1>1, <1>2, <1>3, <1>4 DEF Inv, Ends, OnlyCall
<1>13. Types' /\ OwnOutput'
  BY <1>1, <1>3, <1>4 DEF Inv, Types, OnlyCall, OwnOutput
<1>14. QED
  BY <1>8, <1>11, <1>12, <1>13 DEF Inv

\* A step at or after a call's return, or of the goroutine: it makes no claim on the
\* connection or the container.
LEMMA RunStep ==
    ASSUME Inv, NEW r \in Runs, NEW new \in RunRec, run' = [run EXCEPT ![r] = new],
           new.pc \in Past => run[r].pc \in Past,
           new.pc \in Registered => run[r].pc \in Registered,
           new.app # "none" => run[r].app # "none", new.got = run[r].got,
           Ends(r)', inst' \in InstRec, inst'.output = inst.output, inst'.rx = inst.rx,
           inst'.to = inst.to, inst'.from = inst.from, inst'.over = inst.over,
           wire' = wire, arrest' = arrest, MayFail \/ UNCHANGED faults
    PROVE  Inv'
<1>1. run' \in [Runs -> RunRec] /\ run'[r] = new /\ \A q \in Runs \ {r} : run'[q] = run[q]
  BY Replace DEF Inv
<1>2. faults' \in 0..MaxFaults
  BY FaultType DEF Inv
<1>3. OnePast'
  BY <1>1 DEF Inv, OnePast
<1>4. RegisteredFirst'
  BY <1>1 DEF Inv, RegisteredFirst
<1>5. \A q \in Runs : Ends(q)'
  BY <1>1 DEF Inv, Ends
<1>6. Types' /\ OwnOutput'
  BY <1>1, <1>2 DEF Inv, Types, OwnOutput
<1>7. QED
  BY <1>3, <1>4, <1>5, <1>6 DEF Inv

LEMMA ReturnInv == ASSUME Inv, NEW r \in Runs, Return(r) PROVE Inv'
<1> DEFINE new == [run[r] EXCEPT !.pc = "returned", !.outcome = (IF run[r].err THEN "error" ELSE "ok"), !.user = (IF run[r].err THEN "left" ELSE "reading")]
<1>1. run[r] \in RunRec /\ run \in [Runs -> RunRec] /\ inst \in InstRec /\ Ends(r)
  BY DEF Inv, Types
<1>2. /\ new \in RunRec
      /\ new.pc = "returned"
      /\ new.outcome = (IF run[r].err THEN "error" ELSE "ok")
      /\ new.closer = run[r].closer /\ new.chan = run[r].chan /\ new.app = run[r].app /\ new.got = run[r].got
  BY <1>1 DEF Return, At, RunRec, Pcs
<1>3. run' = [run EXCEPT ![r] = new]
  BY <1>1 DEF Return
<1> HIDE DEF new
<1>4. run'[r] = new
  BY <1>2, <1>3, Replace DEF Inv
<1>5. /\ inst' \in InstRec /\ inst'.output = inst.output /\ inst'.rx = inst.rx
      /\ inst'.to = inst.to /\ inst'.from = inst.from /\ inst'.over = inst.over
  BY <1>1 DEF Return, InstRec
<1>6. Ends(r)'
  BY <1>1, <1>2, <1>4, <1>5 DEF Return, At, Ends
<1>7. QED
  BY <1>2, <1>3, <1>5, <1>6, RunStep DEF Return, At, Past, Registered

LEMMA RegisterEndInv == ASSUME Inv, NEW r \in Runs, RegisterEnd(r) PROVE Inv'
<1> DEFINE new == [run[r] EXCEPT !.closer = "wait"]
<1>1. run[r] \in RunRec /\ run \in [Runs -> RunRec] /\ inst \in InstRec /\ Ends(r)
  BY DEF Inv, Types
<1>2. /\ new \in RunRec
      /\ new.closer = "wait"
      /\ new.pc = run[r].pc /\ new.outcome = run[r].outcome /\ new.chan = run[r].chan /\ new.app = run[r].app /\ new.got = run[r].got
  BY <1>1 DEF RegisterEnd, CloserAt, RunRec, Pcs
<1>3. run' = [run EXCEPT ![r] = new]
  BY <1>1 DEF RegisterEnd
<1> HIDE DEF new
<1>4. run'[r] = new
  BY <1>2, <1>3, Replace DEF Inv
<1>5. /\ inst' \in InstRec /\ inst'.output = inst.output /\ inst'.rx = inst.rx
      /\ inst'.to = inst.to /\ inst'.from = inst.from /\ inst'.over = inst.over
  BY <1>1 DEF RegisterEnd, InstRec
<1>6. Ends(r)'
  BY <1>1, <1>2, <1>4, <1>5 DEF RegisterEnd, CloserAt, Ends
<1>7. QED
  BY <1>2, <1>3, <1>5, <1>6, RunStep DEF RegisterEnd, CloserAt, Past, Registered

LEMMA CloseControlInv == ASSUME Inv, NEW r \in Runs, CloseControl(r) PROVE Inv'
<1> DEFINE new == [run[r] EXCEPT !.closer = "kill", !.control = "closed"]
<1>1. run[r] \in RunRec /\ run \in [Runs -> RunRec] /\ inst \in InstRec /\ Ends(r)
  BY DEF Inv, Types
<1>2. /\ new \in RunRec
      /\ new.closer = "kill"
      /\ new.pc = run[r].pc /\ new.outcome = run[r].outcome /\ new.chan = run[r].chan /\ new.app = run[r].app /\ new.got = run[r].got
  BY <1>1 DEF CloseControl, CloserAt, RunRec, Pcs
<1>3. run' = [run EXCEPT ![r] = new]
  BY <1>1 DEF CloseControl
<1> HIDE DEF new
<1>4. run'[r] = new
  BY <1>2, <1>3, Replace DEF Inv
<1>5. /\ inst' \in InstRec /\ inst'.output = inst.output /\ inst'.rx = inst.rx
      /\ inst'.to = inst.to /\ inst'.from = inst.from /\ inst'.over = inst.over
  BY <1>1 DEF CloseControl, InstRec
<1>6. Ends(r)'
  BY <1>1, <1>2, <1>4, <1>5 DEF CloseControl, CloserAt, Ends
<1>7. QED
  BY <1>2, <1>3, <1>5, <1>6, RunStep DEF CloseControl, CloserAt, Past, Registered

LEMMA AppKillInv == ASSUME Inv, NEW r \in Runs, AppKill(r) PROVE Inv'
<1> DEFINE new == [run[r] EXCEPT !.closer = "close", !.app = (IF run[r].app = "running" /\ ~inst.over THEN "killed" ELSE run[r].app)]
<1>1. run[r] \in RunRec /\ run \in [Runs -> RunRec] /\ inst \in InstRec /\ Ends(r)
  BY DEF Inv, Types
<1>2. /\ new.closer = "close" /\ (new.app # "running" \/ inst.over)
      /\ (new.app # "none" => run[r].app # "none") /\ new \in RunRec
      /\ new.pc = run[r].pc /\ new.outcome = run[r].outcome /\ new.chan = run[r].chan /\ new.got = run[r].got
  <2>1. CASE run[r].app = "running" /\ ~inst.over
    BY <1>1, <2>1 DEF RunRec
  <2>2. CASE ~(run[r].app = "running" /\ ~inst.over)
    BY <1>1, <2>2 DEF RunRec
  <2>3. QED
    BY <2>1, <2>2
<1>3. run' = [run EXCEPT ![r] = new]
  BY <1>1 DEF AppKill
<1> HIDE DEF new
<1>4. run'[r] = new
  BY <1>2, <1>3, Replace DEF Inv
<1>5. /\ inst' \in InstRec /\ inst'.output = inst.output /\ inst'.rx = inst.rx
      /\ inst'.to = inst.to /\ inst'.from = inst.from /\ inst'.over = inst.over
  BY <1>1 DEF AppKill, InstRec
<1>6. Ends(r)'
  BY <1>1, <1>2, <1>4, <1>5 DEF AppKill, CloserAt, Ends
<1>7. QED
  BY <1>2, <1>3, <1>5, <1>6, RunStep DEF AppKill, CloserAt, Past, Registered

LEMMA CloseOutputInv == ASSUME Inv, NEW r \in Runs, CloseOutput(r) PROVE Inv'
<1> DEFINE new == [run[r] EXCEPT !.closer = "done", !.chan = "closed"]
<1>1. run[r] \in RunRec /\ run \in [Runs -> RunRec] /\ inst \in InstRec /\ Ends(r)
  BY DEF Inv, Types
<1>2. /\ new \in RunRec
      /\ new.closer = "done"
      /\ new.chan = "closed"
      /\ new.pc = run[r].pc /\ new.outcome = run[r].outcome /\ new.app = run[r].app /\ new.got = run[r].got
  BY <1>1 DEF CloseOutput, CloserAt, RunRec, Pcs
<1>3. run' = [run EXCEPT ![r] = new]
  BY <1>1 DEF CloseOutput
<1> HIDE DEF new
<1>4. run'[r] = new
  BY <1>2, <1>3, Replace DEF Inv
<1>5. /\ inst' \in InstRec /\ inst'.output = inst.output /\ inst'.rx = inst.rx
      /\ inst'.to = inst.to /\ inst'.from = inst.from /\ inst'.over = inst.over
  BY <1>1 DEF CloseOutput, InstRec
<1>6. Ends(r)'
  BY <1>1, <1>2, <1>4, <1>5 DEF CloseOutput, CloserAt, Ends
<1>7. QED
  BY <1>2, <1>3, <1>5, <1>6, RunStep DEF CloseOutput, CloserAt, Past, Registered

LEMMA CancelInv == ASSUME Inv, NEW r \in Runs, Cancel(r) PROVE Inv'
<1> DEFINE new == [run[r] EXCEPT !.cancelled = TRUE]
<1>1. run[r] \in RunRec /\ run \in [Runs -> RunRec] /\ inst \in InstRec /\ Ends(r)
  BY DEF Inv, Types
<1>2. /\ new \in RunRec
      /\ new.pc = run[r].pc /\ new.outcome = run[r].outcome /\ new.closer = run[r].closer /\ new.chan = run[r].chan /\ new.app = run[r].app /\ new.got = run[r].got
  BY <1>1 DEF Cancel, At, RunRec, Pcs
<1>3. run' = [run EXCEPT ![r] = new]
  BY <1>1 DEF Cancel
<1> HIDE DEF new
<1>4. run'[r] = new
  BY <1>2, <1>3, Replace DEF Inv
<1>5. /\ inst' \in InstRec /\ inst'.output = inst.output /\ inst'.rx = inst.rx
      /\ inst'.to = inst.to /\ inst'.from = inst.from /\ inst'.over = inst.over
  BY <1>1 DEF Cancel, InstRec
<1>6. Ends(r)'
  BY <1>1, <1>2, <1>4, <1>5 DEF Cancel, At, Ends
<1>7. QED
  BY <1>2, <1>3, <1>5, <1>6, RunStep DEF Cancel, At, Past, Registered

LEMMA LeaveInv == ASSUME Inv, NEW r \in Runs, Leave(r) PROVE Inv'
<1> DEFINE new == [run[r] EXCEPT !.user = "left"]
<1>1. run[r] \in RunRec /\ run \in [Runs -> RunRec] /\ inst \in InstRec /\ Ends(r)
  BY DEF Inv, Types
<1>2. /\ new \in RunRec
      /\ new.pc = run[r].pc /\ new.outcome = run[r].outcome /\ new.closer = run[r].closer /\ new.chan = run[r].chan /\ new.app = run[r].app /\ new.got = run[r].got
  BY <1>1 DEF Leave, At, RunRec, Pcs
<1>3. run' = [run EXCEPT ![r] = new]
  BY <1>1 DEF Leave
<1> HIDE DEF new
<1>4. run'[r] = new
  BY <1>2, <1>3, Replace DEF Inv
<1>5. /\ inst' \in InstRec /\ inst'.output = inst.output /\ inst'.rx = inst.rx
      /\ inst'.to = inst.to /\ inst'.from = inst.from /\ inst'.over = inst.over
  BY <1>1 DEF Leave, InstRec
<1>6. Ends(r)'
  BY <1>1, <1>2, <1>4, <1>5 DEF Leave, At, Ends
<1>7. QED
  BY <1>2, <1>3, <1>5, <1>6, RunStep DEF Leave, At, Past, Registered

LEMMA ExitInv == ASSUME Inv, NEW r \in Runs, Exit(r) PROVE Inv'
<1> DEFINE new == [run[r] EXCEPT !.app = "exited"]
<1>1. run[r] \in RunRec /\ run \in [Runs -> RunRec] /\ inst \in InstRec /\ Ends(r)
  BY DEF Inv, Types
<1>2. /\ new \in RunRec
      /\ new.app = "exited"
      /\ new.pc = run[r].pc /\ new.outcome = run[r].outcome /\ new.closer = run[r].closer /\ new.chan = run[r].chan /\ new.got = run[r].got
  BY <1>1 DEF RunRec
<1>3. run' = [run EXCEPT ![r] = new]
  BY <1>1 DEF Exit
<1> HIDE DEF new
<1>4. run'[r] = new
  BY <1>2, <1>3, Replace DEF Inv
<1>5. /\ inst' \in InstRec /\ inst'.output = inst.output /\ inst'.rx = inst.rx
      /\ inst'.to = inst.to /\ inst'.from = inst.from /\ inst'.over = inst.over
  BY <1>1 DEF Exit, InstRec
<1>6. Ends(r)'
  BY <1>1, <1>2, <1>4, <1>5 DEF Exit, At, Ends
<1>7. QED
  BY <1>2, <1>3, <1>5, <1>6, RunStep DEF Exit, At, Past, Registered

LEMMA ReadyInv == ASSUME Inv, NEW r \in Runs, Ready(r) PROVE Inv'
<1> DEFINE new == [run[r] EXCEPT !.plan = "ready"]
<1>1. run[r] \in RunRec /\ run \in [Runs -> RunRec] /\ inst \in InstRec /\ Ends(r)
  BY DEF Inv, Types
<1>2. /\ new \in RunRec
      /\ new.pc = run[r].pc /\ new.outcome = run[r].outcome /\ new.closer = run[r].closer /\ new.chan = run[r].chan /\ new.app = run[r].app /\ new.got = run[r].got
  BY <1>1 DEF Ready, At, RunRec, Pcs
<1>3. run' = [run EXCEPT ![r] = new]
  BY <1>1 DEF Ready
<1> HIDE DEF new
<1>4. run'[r] = new
  BY <1>2, <1>3, Replace DEF Inv
<1>5. /\ inst' \in InstRec /\ inst'.output = inst.output /\ inst'.rx = inst.rx
      /\ inst'.to = inst.to /\ inst'.from = inst.from /\ inst'.over = inst.over
  BY <1>1 DEF Ready, InstRec
<1>6. Ends(r)'
  BY <1>1, <1>2, <1>4, <1>5 DEF Ready, At, Ends
<1>7. QED
  BY <1>2, <1>3, <1>5, <1>6, RunStep DEF Ready, At, Past, Registered
LEMMA AuthorizedInv == ASSUME Inv, NEW r \in Runs, Authorized(r) PROVE Inv'
<1> DEFINE new == [run[r] EXCEPT !.pc = "return", !.closer = "register"]
<1>1. /\ run[r] \in RunRec /\ run \in [Runs -> RunRec] /\ inst \in InstRec /\ Ends(r)
      /\ run[r].pc = "authorized" /\ UNCHANGED <<inst, wire, arrest, faults>>
  BY DEF Inv, Types, Authorized, At
<1>2. CASE Fail(r)
  BY <1>1, <1>2, FailStep
<1>3. CASE run' = [run EXCEPT ![r].pc = "return", ![r].closer = "register"]
  <2>1. /\ new.pc = "return" /\ new.closer = "register" /\ new.app = run[r].app
        /\ new.got = run[r].got /\ new.outcome = run[r].outcome /\ new.chan = run[r].chan
    BY <1>1 DEF RunRec
  <2>2. new \in RunRec
    BY <1>1 DEF RunRec, Pcs
  <2>3. run' = [run EXCEPT ![r] = new]
    BY <1>1, <1>3
  <2> HIDE DEF new
  <2>4. run'[r] = new
    BY <2>2, <2>3, Replace DEF Inv
  <2>5. Ends(r)'
    BY <1>1, <2>1, <2>4 DEF Ends
  <2>6. QED
    BY <1>1, <2>1, <2>2, <2>3, <2>5, RunStep DEF Past, Registered
<1>4. QED
  BY <1>2, <1>3 DEF Authorized

LEMMA StartPlanInv == ASSUME Inv, NEW r \in Runs, StartPlan(r) PROVE Inv'
<1> DEFINE started == [run[r] EXCEPT !.plan = "started"]
           failed == [run[r] EXCEPT !.plan = "failed", !.err = TRUE]
<1>1. run[r] \in RunRec /\ run \in [Runs -> RunRec] /\ inst \in InstRec /\ Ends(r)
  BY DEF Inv, Types
<1>2. PICK new \in {started, failed} : run' = [run EXCEPT ![r] = new]
  BY <1>1 DEF StartPlan
<1>3. started \in RunRec /\ failed \in RunRec
  BY <1>1 DEF RunRec
<1>4. /\ new.pc = run[r].pc /\ new.outcome = run[r].outcome /\ new.closer = run[r].closer
      /\ new.chan = run[r].chan /\ new.app = run[r].app /\ new.got = run[r].got
  BY <1>1 DEF RunRec
<1>5. run'[r] = new
  BY <1>2, <1>3, Replace DEF Inv
<1>6. Ends(r)'
  BY <1>1, <1>4, <1>5 DEF StartPlan, Ends
<1>7. MayFail \/ UNCHANGED faults
  BY DEF StartPlan
<1>8. inst' = inst /\ wire' = wire /\ arrest' = arrest
  BY DEF StartPlan
<1>9. QED
  BY <1>1, <1>2, <1>3, <1>4, <1>6, <1>7, <1>8, RunStep

\* A step of the device: an application of the registered run, and messages from it.
LEMMA DeviceStep ==
    ASSUME Inv, NEW r \in Runs, NEW new \in RunRec, run' = [run EXCEPT ![r] = new],
           new.pc = run[r].pc, new.outcome = run[r].outcome, new.closer = run[r].closer,
           new.chan = run[r].chan, new.got = run[r].got,
           inst.output = r, new.app # "running" \/ run[r].app = "running" \/ run[r].closer = "none",
           NEW m \in Seq(Message), wire' = wire \o m, \A i \in 1..Len(m) : m[i].of = r,
           inst' = inst, arrest' = arrest, faults' = faults
    PROVE  Inv'
<1>1. run' \in [Runs -> RunRec] /\ run'[r] = new /\ \A q \in Runs \ {r} : run'[q] = run[q]
  BY Replace DEF Inv
<1>2. wire' \in Seq(Message) /\ \A i \in 1..Len(wire') : wire'[i].of = inst.output
  <2>1. wire \in Seq(Message) /\ \A i \in 1..Len(wire) : wire[i].of = inst.output
    BY DEF Inv, Types, RegisteredFirst
  <2>2. Len(wire') = Len(wire) + Len(m) /\ wire' \in Seq(Message)
    BY <2>1
  <2>3. ASSUME NEW i \in 1..Len(wire') PROVE wire'[i].of = inst.output
    <3>1. CASE i \in 1..Len(wire)
      BY <2>1, <3>1
    <3>2. CASE i \notin 1..Len(wire)
      <4>1. i - Len(wire) \in 1..Len(m) /\ wire'[i] = m[i - Len(wire)]
        BY <2>1, <2>2, <3>2
      <4>2. QED
        BY <4>1
    <3>3. QED
      BY <3>1, <3>2
  <2>4. QED
    BY <2>2, <2>3
<1>3. OnePast'
  BY <1>1 DEF Inv, OnePast
<1>4. RegisteredFirst'
  BY <1>1, <1>2 DEF Inv, RegisteredFirst
<1>5. \A q \in Runs : Ends(q)'
  BY <1>1 DEF Inv, Ends
<1>6. Types' /\ OwnOutput'
  BY <1>1, <1>2 DEF Inv, Types, OwnOutput
<1>7. QED
  BY <1>3, <1>4, <1>5, <1>6 DEF Inv

LEMMA MessageType ==
    ASSUME NEW r \in Runs
    PROVE  /\ <<Reply(r)>> \in Seq(Message) /\ <<Output(r)>> \in Seq(Message)
           /\ <<Output(r), Reply(r)>> \in Seq(Message)
           /\ Reply(r).of = r /\ Output(r).of = r
<1>1. Reply(r) \in Message /\ Output(r) \in Message /\ Reply(r).of = r /\ Output(r).of = r
  BY DEF Reply, Output, Message
<1>2. QED
  BY <1>1

LEMMA LaunchInv == ASSUME Inv, NEW r \in Runs, Launch(r) PROVE Inv'
<1> DEFINE new == [run[r] EXCEPT !.app = "running"]
<1>1. run[r] \in RunRec /\ run \in [Runs -> RunRec] /\ run[r].pc = "launching" /\ Ends(r)
  BY DEF Inv, Types, Launch
<1>2. /\ new.pc = run[r].pc /\ new.outcome = run[r].outcome /\ new.closer = run[r].closer
      /\ new.chan = run[r].chan /\ new.app = "running" /\ new.got = run[r].got
  BY <1>1 DEF RunRec
<1>3. new \in RunRec
  BY <1>1 DEF RunRec
<1>4. run' = [run EXCEPT ![r] = new]
  BY <1>1 DEF Launch
<1> HIDE DEF new
<1>5. inst.output = r /\ run[r].closer = "none"
  BY <1>1 DEF Inv, RegisteredFirst, Registered, Ends
<1>6. wire \in Seq(Message)
  BY DEF Inv, Types
<1>7. \E m \in Seq(Message) : wire' = wire \o m /\ \A i \in 1..Len(m) : m[i].of = r
  <2>1. Append(wire, Reply(r)) = wire \o <<Reply(r)>>
    BY <1>6, MessageType
  <2>2. CASE wire' = wire \o <<Reply(r)>>
    <3>1. \A i \in 1..Len(<<Reply(r)>>) : <<Reply(r)>>[i].of = r
      BY MessageType
    <3>2. QED
      BY <2>2, <3>1, MessageType
  <2>3. CASE wire' = wire \o <<Output(r), Reply(r)>>
    <3>1. \A i \in 1..Len(<<Output(r), Reply(r)>>) : <<Output(r), Reply(r)>>[i].of = r
      BY MessageType
    <3>2. QED
      BY <2>3, <3>1, MessageType
  <2>4. QED
    BY <2>1, <2>2, <2>3 DEF Launch
<1>8. QED
  BY <1>2, <1>3, <1>4, <1>5, <1>7, DeviceStep DEF Launch

LEMMA EmitInv == ASSUME Inv, NEW r \in Runs, Emit(r) PROVE Inv'
<1> DEFINE new == [run[r] EXCEPT !.outputs = run[r].outputs + 1]
<1>1. run[r] \in RunRec /\ run \in [Runs -> RunRec] /\ run[r].app \in {"running", "killed"}
  BY DEF Inv, Types, Emit
<1>2. /\ new.pc = run[r].pc /\ new.outcome = run[r].outcome /\ new.closer = run[r].closer
      /\ new.chan = run[r].chan /\ new.app = run[r].app /\ new.got = run[r].got
  BY <1>1 DEF RunRec
<1>3. new \in RunRec
  <2>1. run[r].outputs + 1 \in 0..MaxOutputs
    <3>1. run[r].outputs \in 0..MaxOutputs /\ run[r].outputs < MaxOutputs
      BY <1>1 DEF Emit, RunRec
    <3>2. QED
      BY <3>1, Bounds
  <2>2. QED
    BY <1>1, <2>1 DEF RunRec
<1>4. run' = [run EXCEPT ![r] = new]
  BY <1>1 DEF Emit
<1> HIDE DEF new
<1>5. inst.output = r
  BY <1>1 DEF Inv, RegisteredFirst
<1>6. wire' = wire \o <<Output(r)>>
  <2>1. wire' = Append(wire, Output(r)) /\ wire \in Seq(Message)
    BY DEF Inv, Types, Emit
  <2>2. Output(r) \in Message
    BY DEF Output, Message
  <2>3. QED
    BY <2>1, <2>2
<1>7. \A i \in 1..Len(<<Output(r)>>) : <<Output(r)>>[i].of = r
  BY MessageType
<1>8. <<Output(r)>> \in Seq(Message)
  BY MessageType
<1>9. QED
  BY <1>2, <1>3, <1>4, <1>5, <1>6, <1>7, <1>8, DeviceStep DEF Emit
\* The first message is taken off the wire.
LEMMA TailWire ==
    ASSUME Inv, wire # <<>>
    PROVE  /\ Head(wire) \in Message /\ Head(wire).of = inst.output /\ inst.output \in Runs
           /\ Tail(wire) \in Seq(Message)
           /\ \A i \in 1..Len(Tail(wire)) : Tail(wire)[i].of = inst.output
<1>1. wire \in Seq(Message) /\ \A i \in 1..Len(wire) : wire[i].of = inst.output
  BY DEF Inv, Types, RegisteredFirst
<1>2. Head(wire) = wire[1] /\ 1 \in 1..Len(wire)
  BY <1>1
<1>3. Head(wire) \in Message
  BY <1>1, <1>2
<1>4. inst.output \in Runs
  BY <1>1, <1>2, <1>3 DEF Message
<1>5. Tail(wire) \in Seq(Message) /\ \A i \in 1..Len(Tail(wire)) : Tail(wire)[i] = wire[i + 1] /\ i + 1 \in 1..Len(wire)
  BY <1>1
<1>6. QED
  BY <1>1, <1>2, <1>3, <1>4, <1>5

LEMMA RxOutputInv == ASSUME Inv, RxOutput PROVE Inv'
<1>1. wire # <<>> /\ wire' = Tail(wire) /\ inst.rx = "idle" /\ UNCHANGED <<run, arrest, faults>>
  BY DEF RxOutput, Head1
<1>2. inst \in InstRec
  BY DEF Inv, Types
<1>3. /\ inst' \in InstRec /\ inst'.output = inst.output /\ inst'.over = inst.over
      /\ inst'.rx = "sending" => inst'.to = inst.output /\ inst'.from = inst.output
  <2>1. CASE UNCHANGED inst
    BY <1>1, <1>2, <2>1
  <2>2. CASE inst' = [inst EXCEPT !.rx = "sending", !.to = inst.output, !.from = Head(wire).of]
    <3>1. Head(wire).of = inst.output
      BY <1>1, TailWire
    <3>2. QED
      BY <1>2, <2>2, <3>1 DEF InstRec
  <2>3. QED
    BY <2>1, <2>2 DEF RxOutput
<1>4. Types'
  BY <1>1, <1>3, TailWire DEF Inv, Types
<1>5. OnePast'
  BY <1>1, <1>3 DEF Inv, OnePast
<1>6. RegisteredFirst'
  BY <1>1, <1>3, TailWire DEF Inv, RegisteredFirst
<1>7. (\A q \in Runs : Ends(q)') /\ OwnOutput'
  BY <1>1, <1>3 DEF Inv, Ends, OwnOutput
<1>8. QED
  BY <1>4, <1>5, <1>6, <1>7 DEF Inv

LEMMA RxReplyInv == ASSUME Inv, RxReply PROVE Inv'
<1> DEFINE r == Head(wire).of
           new == [run[r] EXCEPT !.pc = "launched", !.err = FALSE]
<1>1. wire # <<>> /\ wire' = Tail(wire) /\ UNCHANGED <<inst, arrest, faults>>
  BY DEF RxReply, Head1
<1>2. r \in Runs
  BY <1>1, TailWire
<1>3. run[r] \in RunRec /\ run \in [Runs -> RunRec] /\ Ends(r)
  BY <1>2 DEF Inv, Types
<1>4. CASE UNCHANGED run
  <2>1. Types'
    BY <1>1, <1>4, TailWire DEF Inv, Types
  <2>2. OnePast'
    BY <1>1, <1>4 DEF Inv, OnePast
  <2>3. RegisteredFirst'
    BY <1>1, <1>4, TailWire DEF Inv, RegisteredFirst
  <2>4. (\A q \in Runs : Ends(q)') /\ OwnOutput'
    BY <1>1, <1>4 DEF Inv, Ends, OwnOutput
  <2>5. QED
    BY <2>1, <2>2, <2>3, <2>4 DEF Inv
<1>5. CASE run[r].pc = "launching" /\ run' = [run EXCEPT ![r].pc = "launched", ![r].err = FALSE]
  <2>1. /\ new.pc = "launched" /\ new.outcome = run[r].outcome /\ new.closer = run[r].closer
        /\ new.chan = run[r].chan /\ new.app = run[r].app /\ new.got = run[r].got
    BY <1>3 DEF RunRec
  <2>2. new \in RunRec
    BY <1>3 DEF RunRec, Pcs
  <2>3. run' = [run EXCEPT ![r] = new]
    BY <1>3, <1>5
  <2> HIDE DEF new
  <2>4. run' \in [Runs -> RunRec] /\ run'[r] = new /\ \A q \in Runs \ {r} : run'[q] = run[q]
    BY <1>2, <2>2, <2>3, Replace DEF Inv
  <2>5. run[r].pc \in Past /\ run[r].pc \in Registered
    BY <1>5 DEF Past, Registered
  <2>6. OnePast'
    BY <1>1, <2>4, <2>5 DEF Inv, OnePast
  <2>7. RegisteredFirst'
    BY <1>1, <2>1, <2>4, <2>5, TailWire DEF Inv, RegisteredFirst
  <2>8. \A q \in Runs : Ends(q)'
    BY <1>1, <1>5, <2>1, <2>4 DEF Inv, Ends
  <2>9. Types' /\ OwnOutput'
    BY <1>1, <2>1, <2>4, TailWire DEF Inv, Types, OwnOutput
  <2>10. QED
    BY <2>6, <2>7, <2>8, <2>9 DEF Inv
<1>6. QED
  BY <1>4, <1>5 DEF RxReply

LEMMA RxEndInv == ASSUME Inv, RxEnd PROVE Inv'
<1>1. UNCHANGED <<wire, arrest, faults>> /\ run \in [Runs -> RunRec] /\ inst \in InstRec
  BY DEF RxEnd, Inv, Types
<1>2. /\ inst' \in InstRec /\ inst'.output = inst.output /\ inst'.rx = "over"
      /\ inst'.to = inst.to /\ inst'.from = inst.from /\ inst'.over = inst.over
  BY <1>1 DEF RxEnd, InstRec
<1>3. \A q \in Runs : /\ run'[q] \in RunRec /\ run'[q].pc = run[q].pc
                      /\ run'[q].outcome = run[q].outcome /\ run'[q].closer = run[q].closer
                      /\ run'[q].chan = run[q].chan /\ run'[q].app = run[q].app
                      /\ run'[q].got = run[q].got
  <2> TAKE q \in Runs
  <2>1. run[q] \in RunRec /\ run'[q] \in {run[q], [run[q] EXCEPT !.cancelled = TRUE]}
    BY <1>1 DEF RxEnd
  <2>2. [run[q] EXCEPT !.cancelled = TRUE] \in RunRec
    BY <2>1 DEF RunRec
  <2>3. QED
    BY <2>1, <2>2 DEF RunRec
<1>4. run' \in [Runs -> RunRec]
  BY <1>3 DEF RxEnd
<1>5. Types'
  BY <1>1, <1>2, <1>4 DEF Inv, Types
<1>6. OnePast'
  BY <1>1, <1>2, <1>3 DEF Inv, OnePast
<1>7. RegisteredFirst'
  BY <1>1, <1>2, <1>3 DEF Inv, RegisteredFirst
<1>8. (\A q \in Runs : Ends(q)') /\ OwnOutput'
  BY <1>2, <1>3 DEF Inv, Ends, OwnOutput
<1>9. QED
  BY <1>5, <1>6, <1>7, <1>8 DEF Inv

LEMMA DeliverInv == ASSUME Inv, Deliver PROVE Inv'
<1> DEFINE r == inst.to
           new == [run[r] EXCEPT !.got = run[r].got \cup {inst.from}]
<1>1. r \in Runs /\ inst.output = r /\ inst.from = r /\ UNCHANGED <<wire, arrest, faults>>
  BY DEF Deliver, Inv, RegisteredFirst
<1>2. run[r] \in RunRec /\ run \in [Runs -> RunRec] /\ inst \in InstRec /\ Ends(r)
  BY <1>1 DEF Inv, Types
<1>3. inst' \in InstRec /\ inst'.output = inst.output /\ inst'.rx = "idle" /\ inst'.over = inst.over
  BY <1>2 DEF Deliver, InstRec
<1>4. /\ new.pc = run[r].pc /\ new.outcome = run[r].outcome /\ new.closer = run[r].closer
      /\ new.chan = run[r].chan /\ new.app = run[r].app /\ new.got = run[r].got \cup {r}
      /\ new \in RunRec
  BY <1>1, <1>2 DEF RunRec
<1>5. run' = [run EXCEPT ![r] = new]
  BY <1>1, <1>2 DEF Deliver
<1> HIDE DEF new
<1>6. run' \in [Runs -> RunRec] /\ run'[r] = new /\ \A q \in Runs \ {r} : run'[q] = run[q]
  BY <1>1, <1>4, <1>5, Replace DEF Inv
<1>7. OnePast'
  BY <1>1, <1>3, <1>4, <1>6 DEF Inv, OnePast
<1>8. RegisteredFirst'
  BY <1>1, <1>3, <1>4, <1>6 DEF Inv, RegisteredFirst
<1>9. \A q \in Runs : Ends(q)'
  BY <1>1, <1>3, <1>4, <1>6 DEF Inv, Ends
<1>10. Types' /\ OwnOutput'
  BY <1>1, <1>3, <1>4, <1>6 DEF Inv, Types, OwnOutput
<1>11. QED
  BY <1>7, <1>8, <1>9, <1>10 DEF Inv

LEMMA EndInv == ASSUME Inv, End PROVE Inv'
<1>1. /\ inst' \in InstRec /\ inst'.output = inst.output /\ inst'.rx = inst.rx
      /\ inst'.to = inst.to /\ inst'.from = inst.from /\ inst'.over
  BY DEF End, Inv, Types, InstRec
<1>2. UNCHANGED <<run, wire, arrest, faults>>
  BY DEF End
<1>3. Types' /\ OwnOutput'
  BY <1>1, <1>2 DEF Inv, Types, OwnOutput
<1>4. OnePast' /\ RegisteredFirst'
  BY <1>1, <1>2 DEF Inv, OnePast, RegisteredFirst
<1>5. \A q \in Runs : Ends(q)'
  BY <1>1, <1>2 DEF Inv, Ends
<1>6. QED
  BY <1>3, <1>4, <1>5 DEF Inv

LEMMA StutterInv == ASSUME Inv, UNCHANGED vars PROVE Inv'
  BY PanicStep DEF vars

\* The inductive invariant: types; one run at most is past house arrest, and only its output
\* is registered; nothing is launched before its output is registered; what a call and its
\* goroutine have done at each of their steps.
THEOREM InvHolds == Spec => []Inv
<1>1. Init => Inv
  BY InvInit
<1>2. ASSUME Inv, [Next]_vars PROVE Inv'
  <2>1. ASSUME NEW r \in Runs, Call(r) PROVE Inv'
    BY <1>2, <2>1, ControlInv, SessionInv, LookupInv, ContainerInv, ConfigInv,
       InstrumentsServiceInv, AppProcessInv, RegisterOutputInv, AppLaunchInv,
       LaunchTimeoutInv, LaunchedInv, AuthorizeInv, AuthorizedInv, ReturnInv DEF Call
  <2>2. ASSUME NEW r \in Runs, Closer(r) PROVE Inv'
    BY <1>2, <2>2, RegisterEndInv, CloseControlInv, AppKillInv, CloseOutputInv DEF Closer
  <2>3. CASE Receiver
    BY <1>2, <2>3, RxOutputInv, RxReplyInv, RxEndInv DEF Receiver
  <2>4. ASSUME NEW r \in Runs, Cancel(r) \/ Leave(r) \/ Device(r) PROVE Inv'
    BY <1>2, <2>4, CancelInv, LeaveInv, LaunchInv, EmitInv, ExitInv, ReadyInv DEF Device
  <2>5. QED
    BY <1>2, <2>1, <2>2, <2>3, <2>4, StartPlanInv, DeliverInv, EndInv, StutterInv
       DEF Next, Program, World
<1>3. QED
  BY <1>1, <1>2, PTL DEF Spec

\* The states of a call, of its goroutine and of the connection its runs share; in
\* particular a channel is closed by its goroutine only, which only a call that has passed
\* its last error return starts.
THEOREM TypeCorrect == Spec => []TypeOK
<1>1. Inv => TypeOK
  <2> SUFFICES ASSUME Inv PROVE TypeOK
    OBVIOUS
  <2>1. ASSUME NEW r \in Runs
        PROVE  /\ run[r].pc \in Pcs
               /\ run[r].closer \in {"none", "register", "wait", "kill", "close", "done"}
               /\ run[r].app \in {"none", "running", "killed", "exited"}
               /\ run[r].outputs \in 0..MaxOutputs /\ run[r].got \subseteq Runs
    BY DEF Inv, Types, RunRec
  <2>2. ASSUME NEW r \in Runs
        PROVE  /\ run[r].closer # "none" => run[r].pc \in {"return", "returned"}
               /\ run[r].chan = "closed" <=> run[r].closer = "done"
    BY DEF Inv, Ends
  <2>3. inst.rx = "sending" => {inst.to, inst.from} \subseteq Runs
    BY DEF Inv, RegisteredFirst
  <2>4. {m.of : m \in {wire[i] : i \in DOMAIN wire}} \subseteq Runs
    <3>1. wire \in Seq(Message)
      BY DEF Inv, Types
    <3>2. \A i \in DOMAIN wire : wire[i].of \in Runs
      <4>1. \A i \in DOMAIN wire : wire[i] \in Message
        BY <3>1
      <4>2. QED
        BY <4>1 DEF Message
    <3>3. QED
      BY <3>2
  <2>5. arrest \in {"none", "requests", "files"} /\ faults \in 0..MaxFaults
    BY DEF Inv, Types
  <2>6. QED
    BY <2>1, <2>2, <2>3, <2>4, <2>5 DEF TypeOK, Pcs
<1>2. QED
  BY <1>1, InvHolds, PTL

\* Whoever reads the output of a run reads that of its own application, although the runs
\* share the connection and its one output callback, which a later run would take over.
THEOREM OwnOutputHolds == Spec => []OwnOutput
<1>1. Inv => OwnOutput
  BY DEF Inv
<1>2. QED
  BY <1>1, InvHolds, PTL

\* A run that returned without an error never leaves its application running behind a
\* goroutine that has gone past the kill, on a connection that is still there.
THEOREM KilledOnEndHolds == Spec => []KilledOnEnd
<1>1. Inv => KilledOnEnd
  <2> SUFFICES ASSUME Inv, NEW r \in Runs, run[r].outcome = "ok"
               PROVE  \/ run[r].app # "running" \/ inst.over
                      \/ run[r].closer \in {"register", "wait", "kill"}
    BY DEF KilledOnEnd
  <2>1. run[r].closer \in {"none", "register", "wait", "kill", "close", "done"}
    BY DEF Inv, Types, RunRec
  <2>2. Ends(r)
    BY DEF Inv
  <2>3. QED
    BY <2>1, <2>2 DEF Ends
<1>2. QED
  BY <1>1, InvHolds, PTL
=============================================================================
