-------------------------------- MODULE Perfd --------------------------------
(***************************************************************************)
(* One performance monitor (perfd.go): perfdSysmontap, perfdNetworking or  *)
(* perfdGraphicsOpengl, on a DTX connection of its own, with the goroutine *)
(* of PerfStart (device.go) that copies its samples to the user's channel. *)
(*                                                                         *)
(*   user       Start's calls and RegisterCallback (Call, Answered,        *)
(*              TimeOut, Register), PerfStop (Stop), Read                  *)
(*   receiver   of the DTX client: it runs the callback, which puts the    *)
(*              metrics of a sample in their channels (Emit...) or, once   *)
(*              ctx is done, calls the device and waits (RxStop, RxReturn) *)
(*   forwarder  the goroutine of Start: FwTake, FwSend, FwStop             *)
(*   pump       the goroutine of PerfStart: PumpTake, PumpSend             *)
(*   device     external                                                   *)
(*                                                                         *)
(* Abstracted: values of samples; requestChannel, one more request before  *)
(* the first call; identifiers, counted modulo Ids (DtxClient shows        *)
(* that an old result is not taken for a new one); a reply refused for its *)
(* identifier leads the receiver astray, so that it may miss what follows. *)
(***************************************************************************)
EXTENDS Integers, Sequences, FiniteSets

CONSTANTS Monitor,  \* "sysmontap", "networking" or "graphics"
          Options,  \* what PerfOptions asks for: pid, cpu, mem, disk, net, gpu, fps
          Shapes,   \* forms of the samples the device sends
          CapChan,  \* capacity of a metric's channel (10)
          CapOut,   \* capacity of Start's channel and of PerfStart's (100)
          CapWire,  \* messages under way in each direction of the connection
          Numbers,  \* samples are numbered modulo Numbers
          Ids       \* identifiers of calls are numbered modulo Ids

ASSUME PerfdAssumption ==
    /\ Monitor \in {"sysmontap", "networking", "graphics"}
    /\ CapChan \in Nat \ {0} /\ CapOut \in Nat \ {0} /\ CapWire \in Nat \ {0}
    /\ Numbers \in Nat /\ Numbers > 1
    /\ Ids \in Nat /\ Ids > 2 * CapWire + 1

Asked(m) == m = "network" \/ m \in Options
Metrics  == CASE Monitor = "sysmontap"  -> {"pid", "cpu", "mem", "disk", "net"} \cap Options
              [] Monitor = "networking" -> {"network"}
              [] Monitor = "graphics"   -> {"gpu", "fps"} \cap Options

\* What the callback sends for a message, in order. For sysmontap it is a "list" of
\* the system's and the processes' part, lacks one of them ("processes", "system") or
\* is no list of two ("other"): a missing part is read as nil, and the callback
\* panics. Networking leaves out what is no pair; graphics sends its metrics for any
\* message, with a note of the error.
ProcessEmits(shape) ==
    IF "pid" \notin Options THEN <<>>
    ELSE IF shape = "system" THEN <<"pid", "panic">> ELSE <<"pid">>

Sends(m) == IF Asked(m) THEN <<m>> ELSE <<>>
SystemEmits(shape) ==
    IF shape = "processes" THEN <<"panic">>
    ELSE Sends("cpu") \o Sends("mem") \o Sends("disk") \o Sends("net")

NetworkingEmits(shape) == IF shape = "other" THEN <<>> ELSE <<"network">>
GraphicsEmits == Sends("gpu") \o Sends("fps")

Emits(shape) ==
    CASE Monitor = "sysmontap"  -> IF shape = "other" THEN <<>>
                                   ELSE ProcessEmits(shape) \o SystemEmits(shape)
      [] Monitor = "networking" -> NetworkingEmits(shape)
      [] Monitor = "graphics"   -> GraphicsEmits

VARIABLES
    ctl,       \* control of Start: "config", "start", "register", "run", "failed"
    waiting,   \* Start waits for the answer of its call
    answered,  \* the result of the latest call is in resultMap
    msgID,     \* identifier of the latest call
    stop,      \* c.stop is closed
    cancelled, \* ctx is done
    rx,        \* control of the receiver
    hand,      \* the message the callback runs for
    rest,      \* metrics the callback has yet to send
    astray,    \* the receiver is to miss the next message
    chan,      \* chanSysCPU and the others, for each metric
    fw,        \* control of the forwarder: "off", "select", "send", "done"
    fwHolds,   \* the sample it is sending
    out,       \* outCh of Start
    pumpHolds, \* the sample the pump is sending
    data,      \* outCh of PerfStart
    next,      \* history: number of each metric's next sample
    sampling,  \* the device samples
    owed,      \* calls the device has not handled
    wire,      \* messages of the device not read
    devClosed  \* the device has closed the connection

uvars == <<ctl, waiting, answered, msgID, stop>>
rvars == <<rx, hand, rest, astray>>
pvars == <<fw, fwHolds, out, pumpHolds, data>>
dvars == <<sampling, owed, wire, devClosed>>
vars  == <<uvars, cancelled, rvars, chan, pvars, next, dvars>>

Sample  == [metric: Metrics, n: 0..Numbers - 1]
Wired   == [kind: {"sample"}, shape: Shapes] \cup [kind: {"reply"}, id: 0..Ids - 1]
Request == [what: {"config", "start", "stop"}, id: 0..Ids - 1]
NoHand  == [kind |-> "none"]

Init ==
    /\ ctl = "config" /\ waiting = FALSE /\ answered = FALSE /\ msgID = 0
    /\ stop = FALSE /\ cancelled = FALSE
    /\ rx = "loop" /\ hand = NoHand /\ rest = <<>> /\ astray = FALSE
    /\ chan = [m \in Metrics |-> <<>>]
    /\ fw = "off" /\ fwHolds = <<>> /\ out = <<>> /\ pumpHolds = <<>> /\ data = <<>>
    /\ next = [m \in Metrics |-> 0]
    /\ sampling = FALSE /\ owed = <<>> /\ wire = <<>> /\ devClosed = FALSE
-----------------------------------------------------------------------------
\* User

\* Invoke writes its request, or fails if the connection is gone.
Invoke(what) ==
    /\ Len(owed) < CapWire
    /\ msgID' = (msgID + 1) % Ids
    /\ owed' = Append(owed, [what |-> what, id |-> msgID'])
    /\ answered' = FALSE

Call ==
    /\ ctl \in {"config", "start"} /\ ~waiting
    /\ \/ /\ ~devClosed /\ Invoke(ctl)
          /\ waiting' = TRUE /\ UNCHANGED ctl
       \/ /\ devClosed /\ ctl' = "failed"
          /\ UNCHANGED <<waiting, answered, msgID, owed>>
    /\ UNCHANGED <<stop, cancelled, rvars, chan, pvars, next, sampling, wire, devClosed>>

Answered ==
    /\ waiting /\ answered
    /\ waiting' = FALSE
    /\ ctl' = IF ctl = "config" THEN "start" ELSE "register"
    /\ UNCHANGED <<answered, msgID, stop, cancelled, rvars, chan, pvars, next, dvars>>

\* 30 seconds without the answer: Start returns the error.
TimeOut ==
    /\ waiting /\ ~answered
    /\ waiting' = FALSE /\ ctl' = "failed"
    /\ UNCHANGED <<answered, msgID, stop, cancelled, rvars, chan, pvars, next, dvars>>

\* The callback is registered, the forwarder and PerfStart's pump are started.
Register ==
    /\ ctl = "register"
    /\ ctl' = "run" /\ fw' = "select"
    /\ UNCHANGED <<waiting, answered, msgID, stop, cancelled, rvars, chan, fwHolds, out,
                   pumpHolds, data, next, dvars>>

Stop ==
    /\ ctl = "run" /\ ~stop
    /\ stop' = TRUE
    /\ UNCHANGED <<ctl, waiting, answered, msgID, cancelled, rvars, chan, pvars, next, dvars>>

Read ==
    /\ data # <<>>
    /\ data' = Tail(data)
    /\ UNCHANGED <<uvars, cancelled, rvars, chan, fw, fwHolds, out, pumpHolds, next, dvars>>
-----------------------------------------------------------------------------
\* Receiver

Received == /\ rx = "loop" /\ wire # <<>>
            /\ wire' = Tail(wire)
Registered == ctl = "run"
Accepted(m) == ~astray /\ (m.kind = "reply" => m.id = msgID)

\* A reply to another call than the latest is refused, its payload left unread: with
\* it goes, or does not go, the message that follows, by the length of the payload.
RxRefuse ==
    /\ Received
    /\ ~Accepted(Head(wire))
    /\ astray' \in BOOLEAN
    /\ UNCHANGED <<uvars, cancelled, rx, hand, rest, chan, pvars, next, sampling, owed,
                   devClosed>>

\* No callback yet: a sample is dropped, a reply is for the call that waits.
RxEarly ==
    /\ Received /\ Accepted(Head(wire)) /\ ~Registered
    /\ answered' = (answered \/ Head(wire).kind = "reply")
    /\ UNCHANGED <<ctl, waiting, msgID, stop, cancelled, rvars, chan, pvars, next, sampling,
                   owed, devClosed>>

\* The callback, before ctx is done: any message whose object is not a string.
RxSample ==
    /\ Received /\ Accepted(Head(wire)) /\ Registered /\ ~cancelled
    /\ rx' = "emit" /\ hand' = Head(wire)
    /\ rest' = Emits(IF Head(wire).kind = "sample" THEN Head(wire).shape ELSE "other")
    /\ UNCHANGED <<uvars, cancelled, astray, chan, pvars, next, sampling, owed, devClosed>>

\* The callback sends a metric, blocking while its channel is full.
Emit ==
    /\ rx = "emit" /\ rest # <<>>
    /\ LET m == Head(rest)
       IN  /\ m \in Metrics /\ Len(chan[m]) < CapChan
           /\ chan' = [chan EXCEPT ![m] = Append(@, [metric |-> m, n |-> next[m]])]
           /\ next' = [next EXCEPT ![m] = (@ + 1) % Numbers]
    /\ rest' = Tail(rest)
    /\ UNCHANGED <<uvars, cancelled, rx, hand, astray, pvars, dvars>>

\* A failed type assertion ends the program.
EmitPanic ==
    /\ rx = "emit" /\ rest # <<>> /\ Head(rest) = "panic"
    /\ rx' = "panic"
    /\ UNCHANGED <<uvars, cancelled, hand, rest, astray, chan, pvars, next, dvars>>

\* The callback returns; a reply is stored.
Emitted ==
    /\ rx = "emit" /\ rest = <<>>
    /\ rx' = "loop" /\ hand' = NoHand
    /\ answered' = (answered \/ hand.kind = "reply")
    /\ UNCHANGED <<ctl, waiting, msgID, stop, cancelled, rest, astray, chan, pvars, next, dvars>>

\* Mutant: the callback looks at c.stop.
RxStopEarly ==
    /\ Received /\ Accepted(Head(wire)) /\ Registered /\ stop
    /\ ~devClosed /\ Invoke("stop")
    /\ rx' = "wait" /\ hand' = Head(wire)
    /\ UNCHANGED <<ctl, waiting, stop, cancelled, rest, astray, chan, pvars, next, sampling,
                   devClosed>>

\* The callback, once ctx is done: it calls the device and waits for the answer, on
\* the goroutine that alone could receive it.
RxStop ==
    /\ Received /\ Accepted(Head(wire)) /\ Registered /\ cancelled
    /\ \/ /\ ~devClosed /\ Invoke("stop")
          /\ rx' = "wait" /\ hand' = Head(wire)
       \/ /\ devClosed
          /\ UNCHANGED <<rx, hand, answered, msgID, owed>>
    /\ UNCHANGED <<ctl, waiting, stop, cancelled, rest, astray, chan, pvars, next, sampling,
                   devClosed>>

\* 30 seconds later (the answer cannot have been stored).
RxReturn ==
    /\ rx = "wait"
    /\ rx' = "loop" /\ hand' = NoHand
    /\ UNCHANGED <<uvars, cancelled, rest, astray, chan, pvars, next, dvars>>

RxOver ==
    /\ rx = "loop" /\ wire = <<>> /\ devClosed
    /\ rx' = "done"
    /\ UNCHANGED <<uvars, cancelled, hand, rest, astray, chan, pvars, next, dvars>>

Receiver == RxRefuse \/ RxEarly \/ RxSample \/ Emit \/ EmitPanic \/ Emitted \/ RxStop
            \/ RxReturn \/ RxOver
-----------------------------------------------------------------------------
\* Forwarder and pump

\* Mutant: the forwarder empties the channels before it stops.
FwStopDrained ==
    /\ fw = "select" /\ stop /\ \A m \in Metrics : chan[m] = <<>>
    /\ cancelled' = TRUE /\ fw' = "done"
    /\ UNCHANGED <<uvars, rvars, chan, fwHolds, out, pumpHolds, data, next, dvars>>

\* Mutant: the forwarder leaves at the end of the connection.
FwStopAtEnd ==
    /\ fw = "select" /\ (stop \/ devClosed)
    /\ cancelled' = TRUE /\ fw' = "done"
    /\ UNCHANGED <<uvars, rvars, chan, fwHolds, out, pumpHolds, data, next, dvars>>

\* select takes any branch that is ready.
FwStop ==
    /\ fw = "select" /\ stop
    /\ cancelled' = TRUE /\ fw' = "done"
    /\ UNCHANGED <<uvars, rvars, chan, fwHolds, out, pumpHolds, data, next, dvars>>

\* Mutant: the select has a case for the first metric only.
FwTakeFirst(m) ==
    /\ fw = "select" /\ chan[m] # <<>> /\ m = "gpu"
    /\ fw' = "send" /\ fwHolds' = <<Head(chan[m])>>
    /\ chan' = [chan EXCEPT ![m] = Tail(@)]
    /\ UNCHANGED <<uvars, cancelled, rvars, out, pumpHolds, data, next, dvars>>

FwTake(m) ==
    /\ fw = "select" /\ chan[m] # <<>>
    /\ fw' = "send" /\ fwHolds' = <<Head(chan[m])>>
    /\ chan' = [chan EXCEPT ![m] = Tail(@)]
    /\ UNCHANGED <<uvars, cancelled, rvars, out, pumpHolds, data, next, dvars>>

\* Mutant: a sample is thrown away when the reader is slow.
FwSendLossy ==
    /\ fw = "send"
    /\ out' = IF Len(out) < CapOut THEN out \o fwHolds ELSE out
    /\ fw' = "select" /\ fwHolds' = <<>>
    /\ UNCHANGED <<uvars, cancelled, rvars, chan, pumpHolds, data, next, dvars>>

\* Mutant: the sample stays in hand.
FwSendKeeps ==
    /\ fw = "send" /\ Len(out) < CapOut
    /\ out' = out \o fwHolds
    /\ fw' = "select"
    /\ UNCHANGED <<uvars, cancelled, rvars, chan, fwHolds, pumpHolds, data, next, dvars>>

FwSend ==
    /\ fw = "send" /\ Len(out) < CapOut
    /\ out' = out \o fwHolds
    /\ fw' = "select" /\ fwHolds' = <<>>
    /\ UNCHANGED <<uvars, cancelled, rvars, chan, pumpHolds, data, next, dvars>>

PumpTake ==
    /\ pumpHolds = <<>> /\ out # <<>>
    /\ pumpHolds' = <<Head(out)>> /\ out' = Tail(out)
    /\ UNCHANGED <<uvars, cancelled, rvars, chan, fw, fwHolds, data, next, dvars>>

PumpSend ==
    /\ pumpHolds # <<>> /\ Len(data) < CapOut
    /\ data' = data \o pumpHolds /\ pumpHolds' = <<>>
    /\ UNCHANGED <<uvars, cancelled, rvars, chan, fw, fwHolds, out, next, dvars>>
-----------------------------------------------------------------------------
\* Device

\* A call is handled, and answered or not.
DevHandle ==
    /\ ~devClosed /\ owed # <<>>
    /\ owed' = Tail(owed)
    /\ sampling' = CASE Head(owed).what = "start" -> TRUE
                     [] Head(owed).what = "stop" -> FALSE
                     [] Head(owed).what = "config" -> sampling
    /\ \/ /\ Len(wire) < CapWire
          /\ wire' = Append(wire, [kind |-> "reply", id |-> Head(owed).id])
       \/ UNCHANGED wire
    /\ UNCHANGED <<uvars, cancelled, rvars, chan, pvars, next, devClosed>>

DevSample ==
    /\ ~devClosed /\ sampling /\ Len(wire) < CapWire
    /\ \E s \in Shapes : wire' = Append(wire, [kind |-> "sample", shape |-> s])
    /\ UNCHANGED <<uvars, cancelled, rvars, chan, pvars, next, sampling, owed, devClosed>>

DevClose ==
    /\ ~devClosed
    /\ devClosed' = TRUE
    /\ UNCHANGED <<uvars, cancelled, rvars, chan, pvars, next, sampling, owed, wire>>

User == Call \/ Answered \/ TimeOut \/ Register

Next ==
    /\ rx # "panic"
    /\ \/ User \/ Stop \/ Read
       \/ Receiver
       \/ FwStop \/ FwSend \/ \E m \in Metrics : FwTake(m)
       \/ PumpTake \/ PumpSend
       \/ DevHandle \/ DevSample \/ DevClose

\* Goroutines that can run do; a select that is ready again and again takes each of
\* its branches some time (the runtime chooses at random). A device that samples
\* goes on sampling and handles the calls it gets.
Alive == rx # "panic"
Fairness ==
    /\ WF_vars(Alive /\ User) /\ WF_vars(Receiver)
    /\ SF_vars(Alive /\ FwStop) /\ WF_vars(Alive /\ FwSend)
    /\ \A m \in Metrics : SF_vars(Alive /\ FwTake(m))
    /\ WF_vars(Alive /\ (PumpTake \/ PumpSend))
    /\ WF_vars(Alive /\ DevHandle) /\ WF_vars(Alive /\ DevSample)

Spec == Init /\ [][Next]_vars /\ Fairness

\* A user who reads the channel as long as there is something in it.
ReadingSpec == Spec /\ WF_vars(Alive /\ Read)
-----------------------------------------------------------------------------
\* Properties

TypeOK ==
    /\ ctl \in {"config", "start", "register", "run", "failed"}
    /\ waiting \in BOOLEAN /\ answered \in BOOLEAN /\ msgID \in 0..Ids - 1
    /\ stop \in BOOLEAN /\ cancelled \in BOOLEAN
    /\ rx \in {"loop", "emit", "wait", "done", "panic"}
    /\ hand \in Wired \cup {NoHand} /\ rest \in Seq(Metrics \cup {"panic"})
    /\ astray \in BOOLEAN
    /\ chan \in [Metrics -> Seq(Sample)]
    /\ \A m \in Metrics : Len(chan[m]) <= CapChan
    /\ fw \in {"off", "select", "send", "done"}
    /\ fwHolds \in Seq(Sample) /\ Len(fwHolds) = (IF fw = "send" THEN 1 ELSE 0)
    /\ out \in Seq(Sample) /\ Len(out) <= CapOut
    /\ pumpHolds \in Seq(Sample) /\ Len(pumpHolds) <= 1
    /\ data \in Seq(Sample) /\ Len(data) <= CapOut
    /\ next \in [Metrics -> 0..Numbers - 1]
    /\ sampling \in BOOLEAN /\ devClosed \in BOOLEAN
    /\ owed \in Seq(Request) /\ Len(owed) <= CapWire
    /\ wire \in Seq(Wired) /\ Len(wire) <= CapWire

\* The numbers of the samples of metric m in s, in their order: the i-th is that of the
\* one that has i of them up to its place.
Places(s, m) == {p \in 1..Len(s) : s[p].metric = m}
NumbersOf(s, m) ==
    [i \in 1..Cardinality(Places(s, m)) |->
        s[CHOOSE p \in Places(s, m) : Cardinality({q \in Places(s, m) : q <= p}) = i].n]

\* The samples of a metric between the callback and the user, the oldest first: those that
\* the forwarder has taken, and those in the metric's channel.
Taken == data \o pumpHolds \o out \o fwHolds
OnWay(m) == NumbersOf(Taken, m) \o [i \in 1..Len(chan[m]) |-> chan[m][i].n]

Limit == CapChan + 2 * CapOut + 2
Queue == INSTANCE SampleQueue WITH queue <- [m \in Metrics |-> OnWay(m)]

\* The pipeline of three channels and two goroutines is a queue for each metric: no
\* sample is lost, doubled or overtaken by a later one, before, during and after Stop.
IsQueue == Queue!Spec

\* The device is told to stop only after the forwarder has left, so that no sample
\* is taken out of the channels while the device is being stopped, and until then
\* the receiver does not wait for itself.
ToldAfterForwarder ==
    (rx = "wait" \/ \E i \in DOMAIN owed : owed[i].what = "stop") => fw = "done" /\ stop

UnderWay(v) ==
    LET all == data \o pumpHolds \o out \o fwHolds \o chan[v.metric]
    IN  \E i \in DOMAIN all : all[i] = v

\* A user who reads gets every sample the callback has put in its channel, unless the
\* monitor is stopped.
Delivered ==
    \A v \in Sample : UnderWay(v) ~> (~Alive \/ stop \/ ~UnderWay(v))

\* No metric is starved by another: a full channel is taken from, if the user reads.
NotStarved ==
    \A m \in Metrics :
        Len(chan[m]) = CapChan ~> (Len(chan[m]) < CapChan \/ stop \/ ~Alive)

\* While the user reads, the callback returns to the receiver until the monitor is
\* stopped: the connection is not stalled.
CallbackReturns == rx = "emit" ~> (rx \in {"loop", "panic"} \/ stop)

\* The forwarder of a stopped monitor ends, if the user goes on reading.
ForwarderEnds == stop ~> (fw = "done" \/ ~Alive)

\* "used to stop perf client" (perfd.go:154): a stopped monitor's device is told to stop.
StopStopsDevice == (stop /\ sampling) ~> (~sampling \/ devClosed \/ ~Alive)
=============================================================================
