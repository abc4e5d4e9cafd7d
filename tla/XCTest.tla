-------------------------------- MODULE XCTest --------------------------------
(***************************************************************************)
(* Runs of XCTest on one device object (device.go XCTest): the call with   *)
(* its error returns, the output callback on the receiver of the           *)
(* instruments connection, which the device object keeps and all its runs  *)
(* share, the test plan started from the receiver of testmanagerd, and the *)
(* goroutine that waits for cancel, ends the run and closes its output.    *)
(*                                                                         *)
(* Two kept services are shared state: instruments, with one callback for  *)
(* the output and one for the end of the connection, and house arrest,     *)
(* whose connection speaks AFC once a container has been asked for on it.  *)
(*                                                                         *)
(* External: the device, and a user for each run, who reads the output,    *)
(* may leave, and may cancel. The clock of GetResult may expire at any     *)
(* moment of a wait. Opening a service is one step (LockdownSession has    *)
(* its own); what is uploaded (AfcFiles) and the arguments of a launch are *)
(* left out.                                                               *)
(***************************************************************************)
EXTENDS Naturals, Sequences

CONSTANTS Runs,       \* calls of XCTest
          MaxFaults,  \* bound: steps that fail
          MaxOutputs, \* bound: outputs of a run's application
          NoRun

ASSUME XCTestAssumption == MaxFaults \in Nat /\ MaxOutputs \in Nat /\ NoRun \notin Runs

VARIABLES run,    \* each run: its call, its goroutine, its channel, its application
          inst,   \* d.instruments: kept, ended, its callbacks, what the receiver sends to
          wire,   \* messages of the instruments connection under way to the receiver
          arrest, \* d.houseArrest: "none", or what its connection speaks
          faults, panic

vars == <<run, inst, wire, arrest, faults, panic>>

NewRun == [pc |-> "idle", err |-> FALSE, outcome |-> "none", user |-> "none",
           chan |-> "open", cancelled |-> FALSE, closer |-> "none",
           app |-> "none", outputs |-> 0, got |-> {},
           control |-> "none", plan |-> "none"]

Init == /\ run = [r \in Runs |-> NewRun]
        /\ inst = [up |-> FALSE, over |-> FALSE, output |-> NoRun, end |-> NoRun, rx |-> "idle",
                   to |-> NoRun, from |-> NoRun]
        /\ wire = <<>> /\ arrest = "none" /\ faults = 0 /\ panic = ""

At(r, pc) == panic = "" /\ run[r].pc = pc
Go(r, pc) == run' = [run EXCEPT ![r].pc = pc]
MayFail == faults < MaxFaults /\ faults' = faults + 1
\* An error return: the channel stays open, nothing that was begun is ended.
Fail(r) == run' = [run EXCEPT ![r].pc = "returned", ![r].outcome = "error", ![r].err = TRUE]
Output(r) == [kind |-> "output", of |-> r]
Reply(r) == [kind |-> "reply", of |-> r]
-----------------------------------------------------------------------------
\* The first testmanagerd connection and its control session.
Control(r) ==
    /\ At(r, "idle")
    /\ \/ Go(r, "session") /\ UNCHANGED faults
       \/ MayFail /\ Fail(r)
    /\ UNCHANGED <<inst, wire, arrest, panic>>

\* The second, its callbacks and the test session.
Session(r) ==
    /\ At(r, "session")
    /\ \/ run' = [run EXCEPT ![r].pc = "lookup", ![r].control = "open"] /\ UNCHANGED faults
       \/ MayFail /\ Fail(r)
    /\ UNCHANGED <<inst, wire, arrest, panic>>

\* lookupResult[bundleID].(map[string]interface{}): the application is not there.
Lookup(r) ==
    /\ At(r, "lookup")
    /\ \/ Go(r, "container") /\ UNCHANGED <<faults, panic>>
       \/ MayFail /\ Fail(r) /\ UNCHANGED panic
       \/ MayFail /\ panic' = "not installed" /\ UNCHANGED run
    /\ UNCHANGED <<inst, wire, arrest>>

\* Mutant: house arrest is opened for each run.
ContainerAnew(r) ==
    /\ At(r, "container")
    /\ \/ arrest' = "files" /\ Go(r, "config") /\ UNCHANGED faults
       \/ MayFail /\ Fail(r) /\ UNCHANGED arrest
    /\ UNCHANGED <<inst, wire, panic>>

\* The kept house arrest service. After a container has been vended its connection
\* speaks AFC: a second request is no AFC packet, and the device ends the connection
\* or answers something whose first bytes are read as a length that never comes.
Container(r) ==
    /\ At(r, "container")
    /\ \/ arrest # "files" /\ arrest' = "files" /\ Go(r, "config") /\ UNCHANGED faults
       \/ arrest = "none" /\ MayFail /\ Fail(r) /\ UNCHANGED arrest
       \/ arrest # "files" /\ MayFail /\ Fail(r) /\ arrest' = "requests"
       \/ arrest = "files" /\ (Fail(r) \/ Go(r, "stuck")) /\ UNCHANGED <<arrest, faults>>
    /\ UNCHANGED <<inst, wire, panic>>

\* nameExec[:len(nameExec)-len("-Runner")]: the name of the executable is shorter.
Config(r) ==
    /\ At(r, "config")
    /\ \/ Go(r, "instruments") /\ UNCHANGED <<faults, panic>>
       \/ MayFail /\ Fail(r) /\ UNCHANGED panic
       \/ MayFail /\ panic' = "short name" /\ UNCHANGED run
    /\ UNCHANGED <<inst, wire, arrest>>

\* The kept instruments service, also one whose connection has ended.
InstrumentsService(r) ==
    /\ At(r, "instruments")
    /\ \/ inst' = [inst EXCEPT !.up = TRUE] /\ Go(r, "process") /\ UNCHANGED faults
       \/ ~inst.up /\ MayFail /\ Fail(r) /\ UNCHANGED inst
    /\ UNCHANGED <<wire, arrest, panic>>

\* appProcess waits for an answer, which only a receiver that is free delivers.
AppProcess(r) ==
    /\ At(r, "process")
    /\ \/ inst.rx = "idle" /\ ~inst.over /\ Go(r, "output") /\ UNCHANGED faults
       \/ (inst.rx # "idle" \/ inst.over) /\ Fail(r) /\ UNCHANGED faults
       \/ MayFail /\ Fail(r)
    /\ UNCHANGED <<inst, wire, arrest, panic>>

RegisterOutput(r) ==
    /\ At(r, "output")
    /\ inst' = [inst EXCEPT !.output = r]
    /\ Go(r, "launch")
    /\ UNCHANGED <<wire, arrest, faults, panic>>

\* AppLaunch: the request; its answer comes on the wire.
AppLaunch(r) ==
    /\ At(r, "launch")
    /\ \/ ~inst.over /\ Go(r, "launching") /\ UNCHANGED faults
       \/ inst.over /\ Fail(r) /\ UNCHANGED faults
       \/ MayFail /\ Fail(r)
    /\ UNCHANGED <<inst, wire, arrest, panic>>

\* Mutant: GetResult waits without an end.
LaunchTimeoutNever(r) ==
    /\ At(r, "launching") /\ FALSE
    /\ UNCHANGED vars

\* GetResult gives up, whatever has become of the launch.
LaunchTimeout(r) ==
    /\ At(r, "launching")
    /\ run' = [run EXCEPT ![r].pc = "launched", ![r].err = TRUE]
    /\ UNCHANGED <<inst, wire, arrest, faults, panic>>

\* err is one variable of the call and of the callback that starts the test plan: it
\* is read after it was assigned.
Launched(r) ==
    /\ At(r, "launched")
    /\ IF run[r].err THEN Fail(r) ELSE Go(r, "authorize")
    /\ UNCHANGED <<inst, wire, arrest, faults, panic>>

\* Mutant: the goroutine is started before the session is authorized.
AuthorizeLate(r) ==
    /\ At(r, "authorize")
    /\ \/ run' = [run EXCEPT ![r].pc = "authorized", ![r].err = FALSE, ![r].closer = "register"]
          /\ UNCHANGED faults
       \/ MayFail /\ run' = [run EXCEPT ![r].pc = "authorized", ![r].err = TRUE]
    /\ UNCHANGED <<inst, wire, arrest, panic>>

\* authorizeTestSession and its older forms.
Authorize(r) ==
    /\ At(r, "authorize")
    /\ \/ run' = [run EXCEPT ![r].pc = "authorized", ![r].err = FALSE] /\ UNCHANGED faults
       \/ MayFail /\ run' = [run EXCEPT ![r].pc = "authorized", ![r].err = TRUE]
    /\ UNCHANGED <<inst, wire, arrest, panic>>

Authorized(r) ==
    /\ At(r, "authorized")
    /\ IF run[r].err THEN Fail(r)
       ELSE run' = [run EXCEPT ![r].pc = "return", ![r].closer = "register"]
    /\ UNCHANGED <<inst, wire, arrest, faults, panic>>

Return(r) ==
    /\ At(r, "return")
    /\ run' = [run EXCEPT ![r].pc = "returned",
                          ![r].outcome = IF run[r].err THEN "error" ELSE "ok",
                          ![r].user = IF run[r].err THEN "left" ELSE "reading"]
    /\ UNCHANGED <<inst, wire, arrest, faults, panic>>

Call(r) == \/ Control(r) \/ Session(r) \/ Lookup(r) \/ Container(r) \/ Config(r)
           \/ InstrumentsService(r) \/ AppProcess(r) \/ RegisterOutput(r) \/ AppLaunch(r)
           \/ LaunchTimeout(r) \/ Launched(r) \/ Authorize(r) \/ Authorized(r) \/ Return(r)
-----------------------------------------------------------------------------
\* The goroutine of a run.
CloserAt(r, pc) == panic = "" /\ run[r].closer = pc

RegisterEnd(r) ==
    /\ CloserAt(r, "register")
    /\ inst' = [inst EXCEPT !.end = r]
    /\ run' = [run EXCEPT ![r].closer = "wait"]
    /\ UNCHANGED <<wire, arrest, faults, panic>>

\* The run is cancelled: both testmanagerd connections are closed.
CloseControl(r) ==
    /\ CloserAt(r, "wait") /\ run[r].cancelled
    /\ run' = [run EXCEPT ![r].closer = "kill", ![r].control = "closed"]
    /\ UNCHANGED <<inst, wire, arrest, faults, panic>>

\* Mutant: the application is killed only if the test plan was started.
AppKillStarted(r) ==
    /\ CloserAt(r, "kill")
    /\ run' = [run EXCEPT ![r].closer = "close",
                          ![r].app = IF @ = "running" /\ run[r].plan = "started" THEN "killed" ELSE @]
    /\ UNCHANGED <<inst, wire, arrest, faults, panic>>

\* AppKill expects no answer; what the device still sends is not waited for.
AppKill(r) ==
    /\ CloserAt(r, "kill")
    /\ run' = [run EXCEPT ![r].closer = "close",
                          ![r].app = IF @ = "running" /\ ~inst.over THEN "killed" ELSE @]
    /\ UNCHANGED <<inst, wire, arrest, faults, panic>>

\* close(_out) under a receiver that is sending to it.
CloseOutput(r) ==
    /\ CloserAt(r, "close")
    /\ run' = [run EXCEPT ![r].closer = "done", ![r].chan = "closed"]
    /\ panic' = IF inst.rx = "sending" /\ inst.to = r THEN "closed" ELSE panic
    /\ UNCHANGED <<inst, wire, arrest, faults>>

Closer(r) == RegisterEnd(r) \/ CloseControl(r) \/ AppKill(r) \/ CloseOutput(r)
-----------------------------------------------------------------------------
\* The receiver of the instruments connection.
Head1(kind) == /\ panic = "" /\ inst.rx = "idle" /\ wire # <<>> /\ Head(wire).kind = kind
               /\ wire' = Tail(wire)

\* The output callback, the one registered last, whoever the output is from.
RxOutput ==
    /\ Head1("output")
    /\ IF run[inst.output].chan = "closed" THEN panic' = "closed" /\ UNCHANGED inst
       ELSE /\ inst' = [inst EXCEPT !.rx = "sending", !.to = inst.output, !.from = Head(wire).of]
            /\ UNCHANGED panic
    /\ UNCHANGED <<run, arrest, faults>>

RxReply ==
    /\ Head1("reply")
    /\ LET r == Head(wire).of
       IN run' = IF run[r].pc = "launching"
                 THEN [run EXCEPT ![r].pc = "launched", ![r].err = FALSE] ELSE run
    /\ UNCHANGED <<inst, arrest, faults, panic>>

\* Mutant: the callback of the end is not called.
RxEndQuiet ==
    /\ panic = "" /\ inst.rx = "idle" /\ wire = <<>> /\ inst.over
    /\ inst' = [inst EXCEPT !.rx = "over"]
    /\ UNCHANGED <<run, wire, arrest, faults, panic>>

\* EOF: the callback of the end, the one registered last, cancels its run.
RxEnd ==
    /\ panic = "" /\ inst.rx = "idle" /\ wire = <<>> /\ inst.over
    /\ inst' = [inst EXCEPT !.rx = "over"]
    /\ run' = [r \in Runs |-> IF r = inst.end THEN [run[r] EXCEPT !.cancelled = TRUE] ELSE run[r]]
    /\ UNCHANGED <<wire, arrest, faults, panic>>

\* The user of the channel takes what the callback sends.
Deliver ==
    /\ panic = "" /\ inst.rx = "sending" /\ run[inst.to].user = "reading"
    /\ run' = [run EXCEPT ![inst.to].got = @ \cup {inst.from}]
    /\ inst' = [inst EXCEPT !.rx = "idle", !.to = NoRun, !.from = NoRun]
    /\ UNCHANGED <<wire, arrest, faults, panic>>

Receiver == RxOutput \/ RxReply \/ RxEnd

\* The receiver of testmanagerd: one second after the runner is ready, the test plan.
\* An error goes to the err of the call.
StartPlan(r) ==
    /\ panic = "" /\ run[r].plan = "ready"
    /\ \/ run[r].control = "open" /\ run' = [run EXCEPT ![r].plan = "started"] /\ UNCHANGED faults
       \/ run[r].control = "closed" /\ run' = [run EXCEPT ![r].plan = "failed", ![r].err = TRUE]
          /\ UNCHANGED faults
       \/ MayFail /\ run' = [run EXCEPT ![r].plan = "failed", ![r].err = TRUE]
    /\ UNCHANGED <<inst, wire, arrest, panic>>
-----------------------------------------------------------------------------
\* The user.
Cancel(r) ==
    /\ panic = "" /\ run[r].pc = "returned" /\ ~run[r].cancelled
    /\ run' = [run EXCEPT ![r].cancelled = TRUE]
    /\ UNCHANGED <<inst, wire, arrest, faults, panic>>

Leave(r) ==
    /\ panic = "" /\ run[r].user = "reading"
    /\ run' = [run EXCEPT ![r].user = "left"]
    /\ UNCHANGED <<inst, wire, arrest, faults, panic>>

\* The device (external): it launches the application; the answer may be sent after
\* the application's first output; it kills, and ends the connection.
Launch(r) ==
    /\ panic = "" /\ ~inst.over /\ run[r].app = "none" /\ run[r].pc = "launching"
    /\ run' = [run EXCEPT ![r].app = "running"]
    /\ \/ wire' = Append(wire, Reply(r))
       \/ wire' = wire \o <<Output(r), Reply(r)>>
    /\ UNCHANGED <<inst, arrest, faults, panic>>

Emit(r) ==
    /\ panic = "" /\ ~inst.over /\ run[r].app \in {"running", "killed"} /\ run[r].outputs < MaxOutputs
    /\ run' = [run EXCEPT ![r].outputs = @ + 1]
    /\ wire' = Append(wire, Output(r))
    /\ UNCHANGED <<inst, arrest, faults, panic>>

Exit(r) ==
    /\ panic = "" /\ run[r].app \in {"running", "killed"}
    /\ run' = [run EXCEPT ![r].app = "exited"]
    /\ UNCHANGED <<inst, wire, arrest, faults, panic>>

Ready(r) ==
    /\ panic = "" /\ run[r].app = "running" /\ run[r].plan = "none" /\ run[r].control = "open"
    /\ run' = [run EXCEPT ![r].plan = "ready"]
    /\ UNCHANGED <<inst, wire, arrest, faults, panic>>

End == /\ panic = "" /\ inst.up /\ ~inst.over
       /\ inst' = [inst EXCEPT !.over = TRUE]
       /\ UNCHANGED <<run, wire, arrest, faults, panic>>

Device(r) == Launch(r) \/ Emit(r) \/ Exit(r) \/ Ready(r)

Program == \/ \E r \in Runs : Call(r) \/ Closer(r) \/ StartPlan(r)
           \/ Receiver
World == End \/ \E r \in Runs : Cancel(r) \/ Leave(r) \/ Device(r)
Next == Program \/ Deliver \/ World

\* A user reads while he has not left; nobody need cancel, and the device owes nothing.
Fair == /\ \A r \in Runs : WF_vars(Call(r)) /\ WF_vars(Closer(r)) /\ WF_vars(StartPlan(r))
        /\ WF_vars(Receiver) /\ WF_vars(Deliver)

Spec == Init /\ [][Next]_vars /\ Fair
-----------------------------------------------------------------------------
\* The states of a call, of its goroutine and of the shared connection; a goroutine
\* runs only for a call that has passed its last error return.
TypeOK ==
    /\ \A r \in Runs :
         /\ run[r].pc \in {"idle", "session", "lookup", "container", "config", "instruments",
                           "process", "output", "launch", "launching", "launched", "authorize",
                           "authorized", "return", "returned", "stuck"}
         /\ run[r].closer \in {"none", "register", "wait", "kill", "close", "done"}
         /\ run[r].closer # "none" => run[r].pc \in {"return", "returned"}
         /\ run[r].chan = "closed" <=> run[r].closer = "done"
         /\ run[r].app \in {"none", "running", "killed", "exited"}
         /\ run[r].outputs \in 0..MaxOutputs /\ run[r].got \subseteq Runs
    /\ inst.rx = "sending" => {inst.to, inst.from} \subseteq Runs
    /\ {m.of : m \in {wire[i] : i \in DOMAIN wire}} \subseteq Runs
    /\ arrest \in {"none", "requests", "files"} /\ faults \in 0..MaxFaults

\* A user reads the output of his own run's application only, although all runs share
\* the connection and its one output callback: house arrest lets no second run past.
OwnOutput == \A r \in Runs : run[r].got \subseteq {r}

\* The application of a run that returned without an error is killed before its
\* goroutine goes on, unless it has exited or the connection has ended.
KilledOnEnd ==
    \A r \in Runs :
        run[r].outcome = "ok" => \/ run[r].app # "running" \/ inst.over
                                \/ run[r].closer \in {"register", "wait", "kill"}

\* Once a run that returned without an error is cancelled, its output is closed; also
\* once the connection ends with its callback of the end registered, if its user reads.
EndsClosed ==
    \A r \in Runs :
        (/\ run[r].outcome = "ok"
         /\ run[r].cancelled \/ (inst.over /\ inst.rx # "over" /\ inst.end = r))
            ~> (run[r].chan = "closed" \/ panic # "" \/ (run[r].user = "left" /\ ~run[r].cancelled))

\* With a user who reads, the output callback does not hold the receiver, which every
\* other use of the instruments service needs, for ever: but for a run that returned an
\* error after its application was launched, whose output nobody reads.
CallbackReturns ==
    \A r \in Runs :
        (inst.rx = "sending" /\ inst.to = r)
            ~> (inst.rx # "sending" \/ run[r].user = "left" \/ run[r].outcome = "error" \/ panic # "")

\* A test of the repository reads the output until it is closed, cancels, and is done:
\* ending a run does not make the program panic.
CancelIsClean == panic # "closed"
=============================================================================
