------------------------------ MODULE DtxClient ------------------------------
(***************************************************************************)
(* The DTX message client of pkg/libimobiledevice/client_dtxmessage.go:    *)
(* the connection every instruments and testmanagerd operation runs on.    *)
(*                                                                         *)
(* Goroutines of the program, and their steps here:                        *)
(*   callers   Invoke, MakeChannel and Connection of user goroutines:      *)
(*             Begin, IncStore, Send, then Take or GiveUp; Tick is the     *)
(*             clock of GetResult's 30 second limit                        *)
(*   receiver  startReceive and ReceiveDTXMessage: the Rx... actions       *)
(*   replier   startWaitingForReply: Ack and AckStop; the goroutines that  *)
(*             wait to hand it a header are the set senders                *)
(*   closer    Close: CloseCancel, then CloseConn                          *)
(*   device    external: DevReply, DevSend, DevClose                       *)
(*                                                                         *)
(* msgID is read and written by callers and receiver without a lock, so    *)
(* c.msgID++ is a load (Begin) and a store (IncStore), the identifier is a *)
(* load of its own (Send), and the receiver's "if id > msgID { msgID = id }"*)
(* is a load (RxHeader) and a store (RxBump).                              *)
(*                                                                         *)
(* Abstracted: the contents of selectors, arguments and results; a payload *)
(* is its length in units of 16 bytes (a header is two units), whether it  *)
(* decodes, and whether its selector is _notifyOfPublishedCapabilities:.   *)
(* User callbacks registered on the client return at once (no state here). *)
(***************************************************************************)
EXTENDS Integers, Sequences, FiniteSets

CONSTANTS Callers,      \* user goroutines that share the client
          Channels,     \* channel names
          MaxId,        \* bound: largest message identifier
          MaxCalls,     \* bound: number of requests begun
          MaxOwn,       \* bound: number of messages the device originates
          Unsolicited,  \* messages the device may originate
          ReplyShapes,  \* payloads the device may answer with
          NoMsg,        \* no result: (nil, err), or nothing under a key
          NoChan        \* no channel name

Ids  == 1..MaxId
\* resultMap's keys: identifiers, and 0 for "_notifyOfPublishedCapabilities:".
NotifyKey == 0
Keys == Ids \cup {NotifyKey}

Shape    == [ok: BOOLEAN, frags: 1..2, len: Nat]
Template == [conv: {0, 2}, id: Ids, expects: BOOLEAN, notify: BOOLEAN,
             ok: BOOLEAN, frags: 1..2, len: Nat]
\* serial numbers the request a reply (conv = 1) answers, or the message the
\* device originated: it is not on the wire and no guard of the client reads it.
Message  == [conv: {0, 1, 2}, id: Ids, expects: BOOLEAN, notify: BOOLEAN,
             ok: BOOLEAN, frags: 1..2, len: Nat, serial: Nat]
\* A message of two fragments is a header alone, then a header and the payload.
Packet   == [msg: Message, body: BOOLEAN]

ASSUME DtxAssumption ==
    /\ MaxId \in Nat /\ MaxCalls \in Nat /\ MaxOwn \in Nat
    /\ IsFiniteSet(Channels)
    /\ Unsolicited \subseteq Template
    /\ ReplyShapes \subseteq Shape
    /\ NoMsg \notin Message
    /\ NoChan \notin Channels

VARIABLES
    msgID,     \* c.msgID
    opened,    \* c.openedChannels, 0 for a name that is not a key
    results,   \* c.resultMap, NoMsg for a key that is not there
    cancelled, \* c.ctx is done
    closer,    \* control of Close: "idle", "conn" (before innerConn.Close), "done"
    call,      \* control and locals of each caller
    rpc,       \* control of the receiver
    rx,        \* the packet the receiver has read the header of
    skip,      \* units of a rejected message's payload still in the stream
    senders,   \* messages whose header a goroutine waits to send on c.toReply
    rp,        \* control of the replier
    stream,    \* packets sent by the device and not read
    due,       \* requests the device has not answered
    devChan,   \* the name the device has bound to a channel code
    ownSent,   \* messages the device has originated
    devClosed, \* the device has closed its end
    begun,     \* history: requests begun
    acks,      \* history: replies written to each message the device originated
    overs,     \* history: calls of the _over callback
    timedOut,  \* history: a GetResult has timed out
    overlapped,\* history: a call began while another was in progress
    disturbed  \* history: the device's own message was being read during a call

cvars == <<msgID, opened, results>>
rvars == <<rpc, rx, skip, senders>>
dvars == <<stream, due, devChan, ownSent, devClosed>>
hvars == <<acks, overs, timedOut, overlapped, disturbed>>
vars  == <<cvars, cancelled, closer, call, rvars, rp, dvars, begun, hvars>>

Kinds == {"invoke", "post", "connect", "open"}
CallState ==
    [pc: {"idle", "inc", "send", "wait"}, kind: Kinds,
     chan: Channels \cup {NoChan}, code: Nat, reg: Nat, key: Keys,
     serial: Nat, expired: BOOLEAN, got: Message \cup {NoMsg}]

NoPacket == [body |-> FALSE]
Busy(c)    == call[c].pc # "idle"
SomeBusy   == \E c \in Callers : Busy(c)
connClosed == closer = "done"

Init ==
    /\ msgID = 0
    /\ opened = [n \in Channels |-> 0]
    /\ results = [k \in Keys |-> NoMsg]
    /\ cancelled = FALSE /\ closer = "idle"
    /\ call = [c \in Callers |->
                 [pc |-> "idle", kind |-> "post", chan |-> NoChan, code |-> 0,
                  reg |-> 0, key |-> NotifyKey, serial |-> 0,
                  expired |-> FALSE, got |-> NoMsg]]
    /\ rpc = "loop" /\ rx = NoPacket /\ skip = 0 /\ senders = {} /\ rp = "run"
    /\ stream = <<>> /\ due = {} /\ ownSent = 0 /\ devClosed = FALSE
    /\ devChan = [k \in 1..MaxCalls |-> NoChan]
    /\ begun = 0 /\ acks = [n \in 1..MaxOwn |-> 0] /\ overs = 0
    /\ timedOut = FALSE /\ overlapped = FALSE /\ disturbed = FALSE
-----------------------------------------------------------------------------
\* Callers

\* The call returns: its locals go out of scope.
Return(c, result) ==
    [call EXCEPT ![c] = [@ EXCEPT !.pc = "idle", !.got = result, !.chan = NoChan,
                          !.code = 0, !.key = NotifyKey, !.expired = FALSE]]

\* Mutant: the code of the last channel opened, not the next one.
NextCodeLast == LET n == Cardinality({ch \in Channels : opened[ch] # 0})
                IN  IF n = 0 THEN 1 ELSE n

\* uint32(len(c.openedChannels) + 1)
NextCode == Cardinality({ch \in Channels : opened[ch] # 0}) + 1

\* A call starts: a MakeChannel of a name that is open returns at once (a
\* stuttering step); otherwise it takes the next code, and SendDTXMessage loads
\* msgID to increment it.
Begin(c, kind, ch) ==
    /\ ~Busy(c)
    /\ begun < MaxCalls /\ msgID < MaxId
    /\ IF kind = "open" THEN ch \in Channels /\ opened[ch] = 0 ELSE ch = NoChan
    /\ begun' = begun + 1
    /\ overlapped' = (overlapped \/ SomeBusy)
    /\ disturbed' = (disturbed \/ rpc = "bump")
    /\ call' = [call EXCEPT ![c] =
         [pc |-> "inc", kind |-> kind, chan |-> ch,
          code |-> IF kind = "open" THEN NextCode ELSE 0,
          reg |-> msgID, key |-> NotifyKey, serial |-> begun + 1,
          expired |-> FALSE, got |-> NoMsg]]
    /\ UNCHANGED <<cvars, cancelled, closer, rvars, rp, dvars, acks, overs, timedOut>>

\* The store of c.msgID++.
IncStore(c) ==
    /\ call[c].pc = "inc"
    /\ msgID' = call[c].reg + 1
    /\ call' = [call EXCEPT ![c] = [@ EXCEPT !.pc = "send", !.reg = 0]]
    /\ UNCHANGED <<opened, results, cancelled, closer, rvars, rp, dvars, begun, hvars>>

\* The request reaches the device: it binds the channel it is asked to open, and
\* owes an answer to a request that expects one.
Deliver(c, id) ==
    /\ devChan' = IF call[c].kind = "open"
                  THEN [devChan EXCEPT ![call[c].code] = call[c].chan] ELSE devChan
    /\ due' = IF call[c].kind \in {"invoke", "open"}
              THEN due \cup {[id |-> id, serial |-> call[c].serial]} ELSE due

\* The identifier is loaded and the message written. A write error ends the
\* call; Invoke without a reply is over; the others wait under a key.
Send(c) ==
    /\ call[c].pc = "send"
    /\ \/ /\ ~connClosed
          /\ IF devClosed THEN UNCHANGED <<due, devChan>> ELSE Deliver(c, msgID)
          /\ call' = IF call[c].kind = "post" THEN Return(c, NoMsg)
                     ELSE [call EXCEPT ![c] = [@ EXCEPT !.pc = "wait",
                             !.key = IF call[c].kind = "connect" THEN NotifyKey ELSE msgID]]
       \/ /\ connClosed \/ devClosed
          /\ call' = Return(c, NoMsg)
          /\ UNCHANGED <<due, devChan>>
    /\ UNCHANGED <<cvars, cancelled, closer, rvars, rp, stream, ownSent, devClosed,
                   begun, hvars>>

\* Mutant: the result stays in the map.
RemovedNot(k) == results

Removed(k) == [results EXCEPT ![k] = NoMsg]

\* GetResult finds its key under the lock and removes it; MakeChannel then
\* records the channel.
Take(c) ==
    /\ call[c].pc = "wait"
    /\ results[call[c].key] # NoMsg
    /\ results' = Removed(call[c].key)
    /\ call' = Return(c, results[call[c].key])
    /\ opened' = IF call[c].kind = "open"
                 THEN [opened EXCEPT ![call[c].chan] = call[c].code] ELSE opened
    /\ UNCHANGED <<msgID, cancelled, closer, rvars, rp, dvars, begun, hvars>>

\* Mutant: the clock of a call stops when the client is cancelled.
TickUntilCancel(c) ==
    /\ call[c].pc = "wait" /\ ~call[c].expired /\ ~cancelled
    /\ call' = [call EXCEPT ![c].expired = TRUE]
    /\ UNCHANGED <<cvars, cancelled, closer, rvars, rp, dvars, begun, hvars>>

\* 30 seconds have passed since GetResult started.
Tick(c) ==
    /\ call[c].pc = "wait" /\ ~call[c].expired
    /\ call' = [call EXCEPT ![c].expired = TRUE]
    /\ UNCHANGED <<cvars, cancelled, closer, rvars, rp, dvars, begun, hvars>>

\* GetResult does not find its key and gives up. (When it does not find it and
\* the time has not passed it sleeps and looks again, which changes nothing.)
GiveUp(c) ==
    /\ call[c].pc = "wait" /\ call[c].expired
    /\ results[call[c].key] = NoMsg
    /\ call' = Return(c, NoMsg)
    /\ timedOut' = TRUE
    /\ UNCHANGED <<cvars, cancelled, closer, rvars, rp, dvars, begun, acks, overs,
                   overlapped, disturbed>>
-----------------------------------------------------------------------------
\* Receiver

\* Mutant: the loop does not look at ctx.
RxLoopNoCtx ==
    /\ rpc = "loop" /\ rpc' = "read"
    /\ UNCHANGED <<cvars, cancelled, closer, call, rx, skip, senders, rp, dvars, begun, hvars>>

\* The select of startReceive: nothing but the start of a message looks at ctx.
RxLoop ==
    /\ rpc = "loop"
    /\ rpc' = IF cancelled THEN "done" ELSE "read"
    /\ UNCHANGED <<cvars, cancelled, closer, call, rx, skip, senders, rp, dvars, begun, hvars>>

\* Where ReceiveDTXMessage goes once a header has passed: the first fragment has
\* no payload, the last one is followed by it.
AfterHeader(p) == IF p.body THEN "handle" ELSE "read"

PayloadLen(p) == IF p.body THEN p.msg.len ELSE 0

\* Mutant: a message of the device's own never raises msgID.
RaisesNever(m) == FALSE

Raises(m) == m.conv = 0 /\ m.id > msgID

\* Mutant: a reply in fragments is refused.
AcceptedWhole(m) == m.conv = 0 \/ (m.conv = 1 /\ m.id = msgID /\ m.frags = 1)

\* A reply must carry the latest identifier used.
Accepted(m) == m.conv = 0 \/ (m.conv = 1 /\ m.id = msgID)

\* A header is read and checked, before anything of the payload is read.
RxHeader ==
    /\ rpc = "read" /\ ~connClosed /\ skip = 0 /\ stream # <<>>
    /\ LET p == Head(stream)
           m == p.msg
       IN  /\ \/ Accepted(m) /\ ~Raises(m) /\ rpc' = AfterHeader(p) /\ UNCHANGED skip
              \/ Accepted(m) /\ Raises(m) /\ rpc' = "bump" /\ UNCHANGED skip
              \/ ~Accepted(m) /\ rpc' = "loop" /\ skip' = PayloadLen(p)
           /\ rx' = IF rpc' \in {"bump", "handle"} THEN p ELSE NoPacket
           /\ disturbed' = (disturbed \/ m.conv = 2 \/ (m.conv = 0 /\ SomeBusy))
    /\ stream' = Tail(stream)
    /\ UNCHANGED <<cvars, cancelled, closer, call, senders, rp, due, devChan, ownSent,
                   devClosed, begun, acks, overs, timedOut, overlapped>>

\* The store of c.msgID = header.Identifier.
RxBump ==
    /\ rpc = "bump"
    /\ msgID' = rx.msg.id
    /\ rpc' = AfterHeader(rx)
    /\ rx' = IF rx.body THEN rx ELSE NoPacket
    /\ UNCHANGED <<opened, results, cancelled, closer, call, skip, senders, rp, dvars,
                   begun, hvars>>

\* Mutant: a header is assumed to fit in what is left of the payload.
RxGarbageShort ==
    /\ rpc = "read" /\ ~connClosed /\ skip > 0
    /\ skip' = skip - 2 /\ rpc' = "loop"
    /\ UNCHANGED <<cvars, cancelled, closer, call, rx, senders, rp, dvars, begun, hvars>>

\* What follows a refused header is read as headers of two units: payload, or its
\* last unit and the first half of the next header, whose second half and payload
\* follow in turn. None of them has the magic number.
RxGarbage ==
    /\ rpc = "read" /\ ~connClosed /\ skip > 0
    /\ \/ skip >= 2 /\ skip' = skip - 2 /\ UNCHANGED stream
       \/ skip = 1 /\ stream # <<>> /\ skip' = 1 + PayloadLen(Head(stream))
          /\ stream' = Tail(stream)
    /\ rpc' = "loop"
    /\ UNCHANGED <<cvars, cancelled, closer, call, rx, senders, rp, due, devChan, ownSent,
                   devClosed, begun, hvars>>

\* The payload has been read: a message that does not decode is dropped, another
\* goes to its callback.
RxHandle ==
    /\ rpc = "handle"
    /\ IF rx.msg.ok THEN rpc' = "deliver" /\ UNCHANGED rx
       ELSE rpc' = "loop" /\ rx' = NoPacket
    /\ UNCHANGED <<cvars, cancelled, closer, call, skip, senders, rp, dvars, begun, hvars>>

\* After the callback: a goroutine is started for a message that expects a
\* reply, another message is stored for GetResult.
RxDeliver ==
    /\ rpc = "deliver"
    /\ rpc' = "loop" /\ rx' = NoPacket
    /\ IF rx.msg.expects
       THEN senders' = senders \cup {rx.msg} /\ UNCHANGED results
       ELSE /\ results' = [results EXCEPT
                  ![IF rx.msg.notify THEN NotifyKey ELSE rx.msg.id] = rx.msg]
            /\ UNCHANGED senders
    /\ UNCHANGED <<msgID, opened, cancelled, closer, call, skip, rp, dvars, begun, hvars>>

\* Mutant: the end of the stream does not cancel the client.
RxEofNoCancel ==
    /\ rpc = "read" /\ ~connClosed /\ devClosed /\ stream = <<>> /\ skip < 2
    /\ rpc' = "over"
    /\ UNCHANGED <<cvars, cancelled, closer, call, rx, skip, senders, rp, dvars, begun, hvars>>

\* The end of the stream, with less than a header left to read: cancel, then the
\* _over callback.
RxEof ==
    /\ rpc = "read" /\ ~connClosed /\ devClosed /\ stream = <<>> /\ skip < 2
    /\ cancelled' = TRUE
    /\ rpc' = "over"
    /\ UNCHANGED <<cvars, closer, call, rx, skip, senders, rp, dvars, begun, hvars>>

\* The _over callback; break leaves the select only, so the loop goes on.
RxOver ==
    /\ rpc = "over"
    /\ overs' = overs + 1
    /\ rpc' = "loop"
    /\ UNCHANGED <<cvars, cancelled, closer, call, rx, skip, senders, rp, dvars, begun, acks,
                   timedOut, overlapped, disturbed>>

\* A read of a connection closed at this end: an error without EOF in it.
RxClosed ==
    /\ rpc = "read" /\ connClosed
    /\ rpc' = "loop"
    /\ UNCHANGED <<cvars, cancelled, closer, call, rx, skip, senders, rp, dvars, begun, hvars>>

Receiver == \/ RxLoop \/ RxHeader \/ RxBump \/ RxGarbage \/ RxHandle
            \/ RxDeliver \/ RxEof \/ RxOver \/ RxClosed
-----------------------------------------------------------------------------
\* Replier and Close

\* Mutant: the header is not taken from the goroutine that holds it.
AckKeep(n) ==
    /\ rp = "run"
    /\ \E m \in senders : m.serial = n
    /\ acks' = IF connClosed THEN acks ELSE [acks EXCEPT ![n] = @ + 1]
    /\ UNCHANGED <<cvars, cancelled, closer, call, rvars, rp, dvars, begun, overs,
                   timedOut, overlapped, disturbed>>

\* The replier receives a waiting header and writes the reply; a write error is
\* only logged.
Ack(n) ==
    /\ rp = "run"
    /\ \E m \in senders :
         /\ m.serial = n
         /\ senders' = senders \ {m}
         /\ acks' = IF connClosed THEN acks ELSE [acks EXCEPT ![n] = @ + 1]
    /\ UNCHANGED <<cvars, cancelled, closer, call, rpc, rx, skip, rp, dvars, begun, overs,
                   timedOut, overlapped, disturbed>>

\* Mutant: the replier may stop while the client is in use.
AckStopEarly ==
    /\ rp = "run" /\ rp' = "done"
    /\ UNCHANGED <<cvars, cancelled, closer, call, rvars, dvars, begun, hvars>>

\* select takes either branch when both are ready.
AckStop ==
    /\ rp = "run" /\ cancelled
    /\ rp' = "done"
    /\ UNCHANGED <<cvars, cancelled, closer, call, rvars, dvars, begun, hvars>>

CloseCancel ==
    /\ closer = "idle"
    /\ closer' = "conn" /\ cancelled' = TRUE
    /\ UNCHANGED <<cvars, call, rvars, rp, dvars, begun, hvars>>

CloseConn ==
    /\ closer = "conn"
    /\ closer' = "done"
    /\ UNCHANGED <<cvars, cancelled, call, rvars, rp, dvars, begun, hvars>>
-----------------------------------------------------------------------------
\* Device

Packets(m) ==
    IF m.frags = 1 THEN <<[msg |-> m, body |-> TRUE]>>
    ELSE <<[msg |-> m, body |-> FALSE], [msg |-> m, body |-> TRUE]>>

\* The device answers a request, in any order, with its identifier.
DevReply ==
    /\ ~devClosed
    /\ \E r \in due, s \in ReplyShapes :
         /\ due' = due \ {r}
         /\ stream' = stream \o Packets(
              [conv |-> 1, id |-> r.id, expects |-> FALSE, notify |-> FALSE,
               ok |-> s.ok, frags |-> s.frags, len |-> s.len, serial |-> r.serial])
    /\ UNCHANGED <<cvars, cancelled, closer, call, rvars, rp, devChan, ownSent, devClosed,
                   begun, hvars>>

\* The device sends a message of its own.
DevSend ==
    /\ ~devClosed /\ ownSent < MaxOwn
    /\ \E u \in Unsolicited :
         stream' = stream \o Packets(
              [conv |-> u.conv, id |-> u.id, expects |-> u.expects, notify |-> u.notify,
               ok |-> u.ok, frags |-> u.frags, len |-> u.len, serial |-> ownSent + 1])
    /\ ownSent' = ownSent + 1
    /\ UNCHANGED <<cvars, cancelled, closer, call, rvars, rp, due, devChan, devClosed,
                   begun, hvars>>

DevClose ==
    /\ ~devClosed
    /\ devClosed' = TRUE
    /\ UNCHANGED <<cvars, cancelled, closer, call, rvars, rp, stream, due, devChan, ownSent,
                   begun, hvars>>

Caller(c) == IncStore(c) \/ Send(c) \/ Take(c) \/ GiveUp(c)

Next ==
    \/ \E c \in Callers :
         \/ \E kind \in Kinds, ch \in Channels \cup {NoChan} : Begin(c, kind, ch)
         \/ Caller(c)
         \/ Tick(c)
    \/ Receiver
    \/ \E n \in 1..MaxOwn : Ack(n)
    \/ AckStop
    \/ CloseCancel \/ CloseConn
    \/ DevReply \/ DevSend \/ DevClose

\* Goroutines that can run do, and time passes. Users need not call, and nothing
\* is assumed of the device. A select among senders is served in turn (the
\* runtime queues blocked senders first in, first out).
Fairness ==
    /\ \A c \in Callers : WF_vars(Caller(c)) /\ WF_vars(Tick(c))
    /\ WF_vars(Receiver)
    /\ \A n \in 1..MaxOwn : WF_vars(Ack(n))
    /\ WF_vars(AckStop) /\ WF_vars(CloseConn)

Spec == Init /\ [][Next]_vars /\ Fairness
-----------------------------------------------------------------------------
\* Properties

TypeOK ==
    /\ msgID \in 0..MaxId
    /\ opened \in [Channels -> Nat]
    /\ results \in [Keys -> Message \cup {NoMsg}]
    /\ cancelled \in BOOLEAN /\ closer \in {"idle", "conn", "done"}
    /\ call \in [Callers -> CallState]
    /\ \A c \in Callers : /\ call[c].pc = "inc" => call[c].reg < MaxId
                          /\ call[c].pc = "send" => msgID > 0
    /\ rpc \in {"loop", "read", "bump", "handle", "deliver", "over", "done"}
    /\ rx \in Packet \cup {NoPacket}
    /\ rpc \in {"bump", "handle", "deliver"} => rx \in Packet
    /\ skip \in Nat /\ senders \subseteq Message /\ rp \in {"run", "done"}
    /\ stream \in Seq(Packet)
    /\ due \subseteq [id: Ids, serial: Nat]
    /\ devChan \in [1..MaxCalls -> Channels \cup {NoChan}]
    /\ ownSent \in 0..MaxOwn /\ devClosed \in BOOLEAN
    /\ begun \in 0..MaxCalls /\ acks \in [1..MaxOwn -> Nat] /\ overs \in Nat
    /\ timedOut \in BOOLEAN /\ overlapped \in BOOLEAN /\ disturbed \in BOOLEAN

\* As long as calls do not overlap and the device sends nothing of its own during
\* a call, what Invoke and MakeChannel return is the device's answer to that very
\* request: identifiers are never used twice and no result left behind by an
\* earlier call lies under the new key.
OwnAnswer ==
    ~overlapped /\ ~disturbed =>
        \A c \in Callers :
            call[c].kind \in {"invoke", "open"} /\ call[c].got # NoMsg =>
                call[c].got.conv = 1 /\ call[c].got.serial = call[c].serial

\* The receiver loses its place in the stream (a refused header leaves its payload
\* unread) only through one of three causes: overlapping calls, a message the
\* device sends on its own during a call, or an answer that came after its 30
\* seconds. In particular a reply is refused on no other occasion.
DesyncHasCause == skip > 0 => overlapped \/ disturbed \/ timedOut

\* No message is handed to two calls: GetResult looks and removes under one lock.
TakenOnce ==
    \A c \in Callers : call[c].got # NoMsg =>
        /\ \A d \in Callers \ {c} : call[d].got # call[c].got
        /\ \A k \in Keys : results[k] # call[c].got

\* A channel code MakeChannel has handed out means the same channel to a connected
\* device, though a failed request leaves its code to be asked for again, for any channel.
ChannelsAgree ==
    ~overlapped /\ ~devClosed =>
        \A n \in Channels : opened[n] # 0 => devChan[opened[n]] = n

\* Each message the device originates is replied to at most once, and only if it
\* asks for a reply: a header is held by one goroutine at a time.
AckOnce ==
    \A n \in 1..MaxOwn :
        /\ acks[n] <= 1
        /\ \A m \in senders : m.expects /\ (m.serial = n => acks[n] = 0)

\* The _over callback is called once at most, and after it the receiver neither
\* reads a message nor runs a callback (XCTest closes its output after it).
OverIsLast ==
    overs + (IF rpc = "over" THEN 1 ELSE 0) > 0 =>
        overs <= 1 /\ rpc \in {"over", "loop", "done"} /\ cancelled

\* Every call returns: with a result, a write error or after 30 seconds.
CallReturns == \A c \in Callers : Busy(c) ~> ~Busy(c)

\* A header handed over for a reply is replied to, unless the client has been
\* cancelled, which leaves the goroutine that holds it blocked for ever.
AckedOrCancelled ==
    \A n \in 1..MaxOwn :
        (\E m \in senders : m.serial = n) ~>
            (cancelled \/ ~\E m \in senders : m.serial = n)

\* After Close, or the device's close, both loops of the client end.
LoopsEnd == cancelled ~> (rpc = "done" /\ rp = "done")
=============================================================================
