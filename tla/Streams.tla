------------------------------- MODULE Streams --------------------------------
(***************************************************************************)
(* The three streams a user reads from a channel: the devices of usbmux    *)
(* (usbmux.go Listen and listen), the lines of the system log              *)
(* (syslogrelay.go) and captured packets (pcapd.go). Each has a goroutine  *)
(* that reads the connection and sends to a channel; Listen has a second   *)
(* one that takes from an unbuffered channel and sends to the user's. They *)
(* are stopped in three ways: a context, a send on an unbuffered channel,  *)
(* and a channel that is closed together with the connection.              *)
(*                                                                         *)
(* External: the device, which sends or is silent, and ends the connection *)
(* or lets it fail; a user who reads, and may leave; goroutines that stop  *)
(* the stream, or cancel it. What is sent is left out. A goroutine stopped *)
(* before it has received finds the stop at its next select.               *)
(***************************************************************************)
EXTENDS Naturals

CONSTANTS Kinds,    \* of "listen", "syslog", "pcap"
          Stoppers, \* goroutines that call Stop, or the CancelFunc
          Cap       \* of the channel of packets (10 in the code)

ASSUME StreamsAssumption == Kinds \subseteq {"listen", "syslog", "pcap"} /\ Cap \in Nat \ {0}

VARIABLES kind,
          rd,      \* the goroutine that reads the connection
          fw,      \* Listen's other goroutine, which reads baseDevNotifier
          chan,    \* the user's channel: "open", "closed"
          held,    \* packets in it
          stopped, \* ctx is done (listen), stop is closed (pcap)
          reading, \* r.isReading (syslog)
          stop,    \* each caller of Stop
          conn,    \* "up", "eof", "error", "closed"
          user,    \* "reading", "left"
          panic

vars == <<kind, rd, fw, chan, held, stopped, reading, stop, conn, user, panic>>

Init == /\ kind \in Kinds /\ rd = "none" /\ fw = "none" /\ chan = "open" /\ held = 0
        /\ stopped = FALSE /\ reading = FALSE /\ stop = [s \in Stoppers |-> "no"]
        /\ conn = "up" /\ user = "reading" /\ panic = ""

Is(k) == panic = "" /\ kind = k
Rd(pc) == rd = pc
RdTo(pc) == rd' = pc
Waiting == {s \in Stoppers : stop[s] = "waiting"}
-----------------------------------------------------------------------------
\* When the request fails there is no context, and the goroutine that Listen starts
\* all the same asks for its Done.
Listen ==
    /\ Is("listen") /\ Rd("none") /\ fw = "none"
    /\ \/ conn = "up" /\ RdTo("select") /\ fw' = "select" /\ UNCHANGED panic
       \/ panic' = "no context" /\ UNCHANGED <<rd, fw>>
    /\ UNCHANGED <<kind, chan, held, stopped, reading, stop, conn, user>>

\* Lines, Packet.
Begin ==
    /\ panic = "" /\ kind # "listen" /\ Rd("none") /\ RdTo("select")
    /\ reading' = (kind = "syslog")
    /\ UNCHANGED <<kind, fw, chan, held, stopped, stop, conn, user, panic>>

\* A context that is done, or a closed stop, is found before the default. Packet's
\* goroutine leaves its channel open.
SelectStop ==
    /\ panic = "" /\ Rd("select") /\ stopped
    /\ RdTo("end")
    /\ UNCHANGED <<kind, fw, chan, held, stopped, reading, stop, conn, user, panic>>

\* A Stop of the log that waits is taken before the default.
TakeStop ==
    /\ Is("syslog") /\ Rd("select")
    /\ \E s \in Waiting : stop' = [stop EXCEPT ![s] = "returned"]
    /\ RdTo("closing")
    /\ UNCHANGED <<kind, fw, chan, held, stopped, reading, conn, user, panic>>

Default ==
    /\ panic = "" /\ Rd("select") /\ ~stopped /\ Waiting = {}
    /\ RdTo("receive")
    /\ UNCHANGED <<kind, fw, chan, held, stopped, reading, stop, conn, user, panic>>

\* Something to send on: a device that comes or goes, a line, a packet.
Receive ==
    /\ panic = "" /\ Rd("receive") /\ conn = "up"
    /\ RdTo("send")
    /\ UNCHANGED <<kind, fw, chan, held, stopped, reading, stop, conn, user, panic>>

\* The result of the request, or a message that cannot be read, is passed over.
ReceiveOther ==
    /\ Is("listen") /\ Rd("receive") /\ conn = "up"
    /\ RdTo("select")
    /\ UNCHANGED <<kind, fw, chan, held, stopped, reading, stop, conn, user, panic>>

\* 30 seconds without a message, which is the deadline of an answer, end the listening;
\* so does a result that is an error.
Deadline ==
    /\ Is("listen") /\ Rd("receive") /\ conn = "up"
    /\ RdTo("end")
    /\ UNCHANGED <<kind, fw, chan, held, stopped, reading, stop, conn, user, panic>>

\* A packet whose header is longer than the packet ends the capture.
BadPacket ==
    /\ Is("pcap") /\ Rd("receive") /\ conn = "up"
    /\ RdTo("end") /\ chan' = "closed"
    /\ UNCHANGED <<kind, fw, held, stopped, reading, stop, conn, user, panic>>

\* Mutant: after an error that is not EOF the log is read again at once.
ReceiveErrorAgain ==
    /\ panic = "" /\ Rd("receive") /\ conn # "up"
    /\ \/ kind = "listen" /\ RdTo("end") /\ UNCHANGED chan
       \/ kind = "pcap" /\ RdTo("end") /\ chan' = "closed"
       \/ kind = "syslog" /\ conn = "eof" /\ RdTo("closing") /\ UNCHANGED chan
       \/ kind = "syslog" /\ conn # "eof" /\ UNCHANGED <<rd, chan>>
    /\ UNCHANGED <<kind, fw, held, stopped, reading, stop, conn, user, panic>>

\* An error of the log's connection that is not EOF is sent on as an empty line.
ReceiveError ==
    /\ panic = "" /\ Rd("receive") /\ conn # "up"
    /\ \/ kind = "listen" /\ RdTo("end") /\ UNCHANGED chan
       \/ kind = "pcap" /\ RdTo("end") /\ chan' = "closed"
       \/ kind = "syslog" /\ RdTo(IF conn = "eof" THEN "closing" ELSE "send") /\ UNCHANGED chan
    /\ UNCHANGED <<kind, fw, held, stopped, reading, stop, conn, user, panic>>

Send ==
    /\ panic = "" /\ Rd("send") /\ RdTo("select")
    /\ \/ kind = "listen" /\ fw = "select" /\ fw' = "client" /\ UNCHANGED held
       \/ kind = "syslog" /\ user = "reading" /\ UNCHANGED <<fw, held>>
       \/ kind = "pcap" /\ held < Cap /\ held' = held + 1 /\ UNCHANGED fw
    /\ UNCHANGED <<kind, chan, stopped, reading, stop, conn, user, panic>>

\* Lines' deferred function: the channel is closed, then isReading is cleared.
CloseLines ==
    /\ Rd("closing") /\ RdTo("closed") /\ chan' = "closed"
    /\ UNCHANGED <<kind, fw, held, stopped, reading, stop, conn, user, panic>>
ClearReading ==
    /\ Rd("closed") /\ RdTo("end") /\ reading' = FALSE
    /\ UNCHANGED <<kind, fw, chan, held, stopped, stop, conn, user, panic>>

\* Listen's other goroutine: ctx, or a closed channel; its deferred close.
FwDone ==
    /\ panic = "" /\ fw = "select" /\ stopped
    /\ fw' = "end" /\ chan' = "closed"
    /\ UNCHANGED <<kind, rd, held, stopped, reading, stop, conn, user, panic>>
FwClosed ==
    /\ panic = "" /\ fw = "select" /\ Rd("end")
    /\ fw' = "end" /\ chan' = "closed"
    /\ UNCHANGED <<kind, rd, held, stopped, reading, stop, conn, user, panic>>
\* A connection for the device's requests; without one the event is dropped.
FwClient ==
    /\ panic = "" /\ fw = "client" /\ fw' \in {"deliver", "select"}
    /\ UNCHANGED <<kind, rd, chan, held, stopped, reading, stop, conn, user, panic>>
FwDeliver ==
    /\ panic = "" /\ fw = "deliver" /\ user = "reading" /\ fw' = "select"
    /\ UNCHANGED <<kind, rd, chan, held, stopped, reading, stop, conn, user, panic>>
-----------------------------------------------------------------------------
\* The CancelFunc, which may be called again.
Cancel(s) ==
    /\ Is("listen") /\ stop[s] = "no" /\ ~Rd("none")
    /\ stop' = [stop EXCEPT ![s] = "returned"] /\ stopped' = TRUE
    /\ UNCHANGED <<kind, rd, fw, chan, held, reading, conn, user, panic>>

\* SyslogRelay.Stop: isReading is looked at, then the stop is sent.
StopLines(s) ==
    /\ Is("syslog") /\ stop[s] = "no"
    /\ stop' = [stop EXCEPT ![s] = IF reading THEN "waiting" ELSE "returned"]
    /\ UNCHANGED <<kind, rd, fw, chan, held, stopped, reading, conn, user, panic>>

\* Pcapd.Stop: c.stop is looked at and closed, then the connection. Two of them may
\* both find it open.
StopPackets(s) ==
    /\ Is("pcap") /\ stop[s] = "no"
    /\ stop' = [stop EXCEPT ![s] = IF stopped THEN "closing" ELSE "stopping"]
    /\ UNCHANGED <<kind, rd, fw, chan, held, stopped, reading, conn, user, panic>>
CloseStop(s) ==
    /\ Is("pcap") /\ stop[s] = "stopping"
    /\ \/ ~stopped /\ stopped' = TRUE /\ stop' = [stop EXCEPT ![s] = "closing"] /\ UNCHANGED panic
       \/ stopped /\ panic' = "closed twice" /\ UNCHANGED <<stop, stopped>>
    /\ UNCHANGED <<kind, rd, fw, chan, held, reading, conn, user>>
\* Mutant: the connection stays open, and a read of it goes on.
CloseConnNot(s) ==
    /\ Is("pcap") /\ stop[s] = "closing"
    /\ stop' = [stop EXCEPT ![s] = "returned"]
    /\ UNCHANGED <<kind, rd, fw, chan, held, stopped, reading, conn, user, panic>>
CloseConn(s) ==
    /\ Is("pcap") /\ stop[s] = "closing"
    /\ stop' = [stop EXCEPT ![s] = "returned"] /\ conn' = "closed"
    /\ UNCHANGED <<kind, rd, fw, chan, held, stopped, reading, user, panic>>

Take ==
    /\ panic = "" /\ user = "reading" /\ held > 0 /\ held' = held - 1
    /\ UNCHANGED <<kind, rd, fw, chan, stopped, reading, stop, conn, user, panic>>
Leave ==
    /\ user = "reading" /\ user' = "left"
    /\ UNCHANGED <<kind, rd, fw, chan, held, stopped, reading, stop, conn, panic>>
End ==
    /\ conn = "up" /\ conn' \in {"eof", "error"}
    /\ UNCHANGED <<kind, rd, fw, chan, held, stopped, reading, stop, user, panic>>
-----------------------------------------------------------------------------
Select == SelectStop \/ TakeStop \/ Default
Closing == CloseLines \/ ClearReading
Forwarder == FwClosed \/ FwClient \/ FwDeliver

Next == \/ Listen \/ Begin \/ Select \/ Receive \/ ReceiveOther \/ Deadline \/ BadPacket
        \/ ReceiveError \/ Send \/ Closing \/ FwDone \/ Forwarder
        \/ \E s \in Stoppers : Cancel(s) \/ StopLines(s) \/ StopPackets(s)
                               \/ CloseStop(s) \/ CloseConn(s)
        \/ Take \/ Leave \/ End

\* Goroutines that can run do. Listen's read has a deadline, the other reads wait for the
\* device: only the log is taken to go on. The user takes packets until leaving.
Fairness ==
    /\ WF_vars(Select) /\ WF_vars(ReceiveError) /\ WF_vars(Send) /\ WF_vars(Closing)
    /\ WF_vars(Deadline) /\ WF_vars(Forwarder) /\ WF_vars(FwDone) /\ WF_vars(Take)
    /\ WF_vars(kind = "syslog" /\ Receive)
    /\ \A s \in Stoppers : WF_vars(CloseStop(s) \/ CloseConn(s))

Spec == Init /\ [][Next]_vars /\ Fairness
-----------------------------------------------------------------------------
Asked == stopped \/ Waiting # {}
\* Listen's reader holds an event for the other goroutine, which has left.
Stranded == kind = "listen" /\ rd = "send" /\ fw = "end"
\* Packet's goroutine has found the stop in its select and left the channel open.
LeftOpen == kind = "pcap" /\ rd = "end" /\ stopped

\* A stream that is stopped, or whose connection ends, is over for a user who reads:
\* the channel is closed, so that a range over it ends, and no goroutine is left. But
\* for the goroutine of Listen that is stranded, the channel that Packet leaves open,
\* a Listen or a Stop that panics; and the log does not end by an error that is not EOF.
StreamEnds ==
    (rd # "none" /\ (Asked \/ conn = "eof" \/ (conn # "up" /\ kind # "syslog")))
        ~> \/ chan = "closed" /\ rd = "end" /\ fw \in {"none", "end"}
           \/ chan = "closed" /\ Stranded
           \/ LeftOpen \/ user = "left" \/ panic # ""

\* The Stop of the log returns when the user reads and the device logs, unless the
\* goroutine that should take it was already leaving: for another Stop, or by EOF.
StopReturns ==
    \A s \in Stoppers :
        stop[s] = "waiting" ~> (stop[s] = "returned" \/ rd \in {"closed", "end"} \/ user = "left")
=============================================================================
