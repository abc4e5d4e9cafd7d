--------------------------- MODULE DtxAnswerProofs ---------------------------
(***************************************************************************)
(* Whose answer a call gets, and when the receiver loses its place: proofs *)
(* of OwnAnswer and DesyncHasCause, for any callers, channels and device   *)
(* messages.                                                               *)
(***************************************************************************)
EXTENDS DtxClientProofs

Asks    == {"invoke", "open"}
Held    == rpc \in {"handle", "deliver"}
\* The messages that have a packet in the stream.
StreamMsgs == {stream[i].msg : i \in DOMAIN stream}

\* What is numbered id is not newer than msgID, older than a request about to be
\* sent, and if it has the number of a request that waits it is the reply to it.
Fits(id, conv, serial) ==
    /\ id <= msgID
    /\ \A c \in Callers :
         /\ call[c].pc = "send" => id < msgID
         /\ call[c].pc = "wait" /\ call[c].kind \in Asks /\ id = msgID =>
              conv = 1 /\ serial = call[c].serial

\* Calls that take turns: one at a time, whose number nobody else moves.
OneCall ==
    /\ \A c, d \in Callers : Busy(c) /\ Busy(d) => c = d
    /\ \A c \in Callers :
         /\ call[c].pc = "inc" => call[c].reg = msgID
         /\ call[c].pc = "wait" /\ call[c].kind \in Asks =>
              call[c].key = msgID /\ msgID > 0
    /\ rpc = "bump" => ~SomeBusy /\ rx.msg.conv = 0 /\ rx.msg.id > msgID

\* Everything that is or may become a result has its number in order.
InOrder ==
    /\ \A r \in due : Fits(r.id, 1, r.serial)
    /\ \A m \in StreamMsgs : m.conv = 1 => Fits(m.id, m.conv, m.serial)
    /\ Held => Fits(rx.msg.id, rx.msg.conv, rx.msg.serial)
    /\ \A k \in Ids : results[k] # NoMsg => Fits(k, results[k].conv, results[k].serial)

Got ==
    \A c \in Callers :
        /\ call[c].got # NoMsg => ~Busy(c)
        /\ call[c].kind \in Asks /\ call[c].got # NoMsg =>
             call[c].got.conv = 1 /\ call[c].got.serial = call[c].serial

Quiet == ~overlapped /\ ~disturbed
Turns == Quiet => OneCall /\ InOrder /\ Got

\* At most one reply is outstanding, that of the call that waits: it is owed by the
\* device, in the stream, in the receiver's hands or in the result map.
Awaited   == \E c \in Callers : call[c].pc = "wait" /\ call[c].kind \in Asks
IsReply(m) == m.conv = 1
InStream  == \E m \in StreamMsgs : IsReply(m)
InHand    == Held /\ IsReply(rx.msg)
Stored    == msgID \in Ids /\ results[msgID] # NoMsg

\* After the payload of a reply comes no packet of a reply.
LastReply ==
    \A i, j \in DOMAIN stream :
        i < j /\ stream[i].body /\ IsReply(stream[i].msg) => ~IsReply(stream[j].msg)

OneReply ==
    /\ skip = 0
    /\ \A r \in due : r.id = msgID
    /\ \A m \in StreamMsgs : IsReply(m) => m.id = msgID
    /\ due # {} \/ InStream \/ InHand => Awaited /\ ~Stored
    /\ due # {} => ~InStream
    /\ InHand => due = {} /\ ~InStream
    /\ LastReply

InStep == Quiet /\ ~timedOut => OneReply
-----------------------------------------------------------------------------
\* The stream

LEMMA StreamMsgsType == ASSUME stream \in Seq(Packet) PROVE StreamMsgs \subseteq Message
<1>1. ASSUME NEW i \in DOMAIN stream PROVE stream[i].msg \in Message
  <2>1. stream[i] \in Packet
    BY LenProperties
  <2>2. QED
    BY <2>1 DEF Packet
<1>2. QED
  BY <1>1 DEF StreamMsgs

\* Reading a packet takes no message into the stream.
LEMMA TailMsgs ==
    ASSUME stream \in Seq(Packet), stream # <<>>, stream' = Tail(stream)
    PROVE  StreamMsgs' \subseteq StreamMsgs /\ Head(stream).msg \in StreamMsgs
<1>1. /\ DOMAIN stream = 1..Len(stream) /\ Len(stream) \in Nat \ {0}
      /\ DOMAIN Tail(stream) = 1..(Len(stream) - 1)
      /\ \A i \in 1..(Len(stream) - 1) : Tail(stream)[i] = stream[i + 1]
      /\ Head(stream) = stream[1]
  BY HeadTailProperties, EmptySeq, LenProperties
<1>2. Head(stream).msg \in StreamMsgs
  BY <1>1 DEF StreamMsgs
<1>3. ASSUME NEW i \in DOMAIN Tail(stream)
      PROVE  Tail(stream)[i].msg \in StreamMsgs
  BY <1>1, <1>3 DEF StreamMsgs
<1>4. QED
  BY <1>2, <1>3 DEF StreamMsgs

\* A message sent puts its own packets at the end of the stream.
LEMMA AppendMsgs ==
    ASSUME stream \in Seq(Packet), NEW m \in Message, stream' = stream \o Packets(m)
    PROVE  StreamMsgs' \subseteq StreamMsgs \cup {m}
<1>1. Packets(m) \in Seq(Packet)
  BY PacketsType
<1>2. ASSUME NEW i \in DOMAIN Packets(m)
      PROVE  Packets(m)[i].msg = m
  BY <1>2 DEF Packets
<1>3. ASSUME NEW i \in DOMAIN stream'
      PROVE  stream'[i].msg \in StreamMsgs \cup {m}
  <2>1. /\ DOMAIN stream = 1..Len(stream) /\ DOMAIN Packets(m) = 1..Len(Packets(m))
        /\ DOMAIN stream' = 1..(Len(stream) + Len(Packets(m)))
        /\ Len(stream) \in Nat /\ Len(Packets(m)) \in Nat
    BY <1>1, ConcatProperties, LenProperties
  <2>2. CASE i <= Len(stream)
    BY <1>1, <1>3, <2>1, <2>2, ConcatProperties DEF StreamMsgs
  <2>3. CASE i > Len(stream)
    <3>1. i - Len(stream) \in DOMAIN Packets(m) /\ stream'[i] = Packets(m)[i - Len(stream)]
      BY <1>1, <1>3, <2>1, <2>3, ConcatProperties
    <3>2. QED
      BY <1>2, <3>1
  <2>4. QED
    BY <1>3, <2>1, <2>2, <2>3
<1>4. QED
  BY <1>3 DEF StreamMsgs
-----------------------------------------------------------------------------
\* Calls

\* What a step of a call changes of the callers.
Moved(c, pc) ==
    /\ \A d \in Callers \ {c} : call'[d] = call[d]
    /\ call'[c].pc = pc
Stays(c) == call'[c].kind = call[c].kind /\ call'[c].serial = call[c].serial

CallStep(c) ==
    \/ \E kind \in Kinds, ch \in Channels \cup {NoChan} : Begin(c, kind, ch)
    \/ Caller(c) \/ Tick(c)

LEMMA BeginMoves ==
    ASSUME TypeOK, NEW c \in Callers, NEW kind \in Kinds, NEW ch \in Channels \cup {NoChan},
           Begin(c, kind, ch)
    PROVE  /\ Moved(c, "inc") /\ call'[c].reg = msgID /\ call'[c].got = NoMsg
           /\ msgID' = msgID /\ (~overlapped' => ~SomeBusy)
           /\ (~disturbed' => rpc # "bump")
  BY DEF Begin, TypeOK, Moved, cvars

LEMMA IncMoves ==
    ASSUME TypeOK, NEW c \in Callers, IncStore(c)
    PROVE  /\ call[c].pc = "inc" /\ Moved(c, "send") /\ Stays(c)
           /\ call'[c].got = call[c].got /\ msgID' = call[c].reg + 1
  BY DEF IncStore, TypeOK, CallState, Moved, Stays

\* A call that returns keeps its kind and serial number with its result.
LEMMA ReturnMoves ==
    ASSUME TypeOK, NEW c \in Callers, NEW result, call' = Return(c, result)
    PROVE  Moved(c, "idle") /\ Stays(c) /\ call'[c].got = result
  BY DEF Return, TypeOK, CallState, Moved, Stays

\* A request that has been written waits under its number, or under the key of the
\* capabilities, or is over.
LEMMA SendMoves ==
    ASSUME TypeOK, NEW c \in Callers, Send(c)
    PROVE  /\ call[c].pc = "send" /\ Stays(c) /\ msgID' = msgID
           /\ \/ /\ Moved(c, "wait") /\ call'[c].got = call[c].got
                 /\ call[c].kind # "connect" => call'[c].key = msgID
              \/ Moved(c, "idle") /\ call'[c].got = NoMsg
           /\ \A r \in due' : r \in due \/ r = [id |-> msgID, serial |-> call[c].serial]
           /\ due' # due => /\ call[c].kind \in Asks /\ Moved(c, "wait")
                            /\ due' = due \cup {[id |-> msgID, serial |-> call[c].serial]}
<1>1. call[c].pc = "send" /\ msgID' = msgID
  BY DEF Send, cvars
<1>2. CASE call' = Return(c, NoMsg) /\ UNCHANGED due
  BY <1>1, <1>2, ReturnMoves
<1>3. CASE /\ call[c].kind # "post" /\ (UNCHANGED due \/ Deliver(c, msgID))
           /\ call' = [call EXCEPT ![c] = [@ EXCEPT !.pc = "wait",
                  !.key = IF call[c].kind = "connect" THEN NotifyKey ELSE msgID]]
  <2>1. Moved(c, "wait") /\ call'[c].got = call[c].got /\ Stays(c)
        /\ (call[c].kind # "connect" => call'[c].key = msgID)
    BY <1>3 DEF TypeOK, CallState, Moved, Stays
  <2>2. CASE UNCHANGED due
    BY <1>1, <2>1, <2>2
  <2>3. CASE Deliver(c, msgID)
    BY <1>1, <2>1, <2>3 DEF Deliver, Asks
  <2>4. QED
    BY <1>3, <2>2, <2>3
<1>4. QED
  <2>1. CASE call[c].kind = "post"
    BY <1>2, <2>1 DEF Send, Deliver
  <2>2. CASE call[c].kind # "post"
    BY <1>2, <1>3, <2>2 DEF Send
  <2>3. QED
    BY <2>1, <2>2
\* A step of a call, as the invariants see it.
LEMMA CallMoves ==
    ASSUME TypeOK, NEW c \in Callers, CallStep(c)
    PROVE  \/ Moved(c, "inc") /\ msgID' = msgID /\ (~overlapped' => ~SomeBusy)
              /\ call'[c].reg = msgID /\ call'[c].got = NoMsg
              /\ (~disturbed' => rpc # "bump")
           \/ /\ call[c].pc = "inc" /\ Moved(c, "send") /\ Stays(c)
              /\ call'[c].got = call[c].got /\ msgID' = call[c].reg + 1
           \/ /\ call[c].pc = "send" /\ Moved(c, "wait") /\ Stays(c)
              /\ call'[c].got = call[c].got /\ msgID' = msgID
              /\ (call[c].kind # "connect" => call'[c].key = msgID)
           \/ /\ call[c].pc \in {"send", "wait"} /\ Moved(c, "idle") /\ Stays(c)
              /\ msgID' = msgID
              /\ \/ call'[c].got = NoMsg
                 \/ Take(c) /\ call'[c].got = results[call[c].key]
           \/ /\ call[c].pc = "wait" /\ Moved(c, "wait") /\ Stays(c)
              /\ call'[c].got = call[c].got /\ call'[c].key = call[c].key
              /\ msgID' = msgID
<1>1. ASSUME NEW kind \in Kinds, NEW ch \in Channels \cup {NoChan}, Begin(c, kind, ch)
      PROVE  /\ Moved(c, "inc") /\ msgID' = msgID /\ (~overlapped' => ~SomeBusy)
             /\ call'[c].reg = msgID /\ call'[c].got = NoMsg
             /\ (~disturbed' => rpc # "bump")
  BY <1>1, BeginMoves
<1>2. CASE IncStore(c)
  BY <1>2, IncMoves
<1>3. CASE Send(c)
  BY <1>3, SendMoves
<1>4. CASE Take(c)
  <2>1. call' = Return(c, results[call[c].key]) /\ call[c].pc = "wait" /\ msgID' = msgID
    BY <1>4 DEF Take
  <2>2. QED
    BY <1>4, <2>1, ReturnMoves
<1>5. CASE GiveUp(c)
  <2>1. call' = Return(c, NoMsg) /\ call[c].pc = "wait" /\ msgID' = msgID
    BY <1>5 DEF GiveUp, cvars
  <2>2. QED
    BY <2>1, ReturnMoves
<1>6. CASE Tick(c)
  BY <1>6 DEF Tick, TypeOK, CallState, Moved, Stays, cvars
<1>7. QED
  BY <1>1, <1>2, <1>3, <1>4, <1>5, <1>6 DEF CallStep, Caller

\* While calls take turns, a step of a call keeps every number in order: a new
\* request takes a number above all of them.
LEMMA FitsStep ==
    ASSUME TypeOK, OneCall, NEW c \in Callers, CallStep(c), ~overlapped',
           NEW id \in Nat, NEW conv, NEW serial, Fits(id, conv, serial)
    PROVE  Fits(id, conv, serial)'
<1>1. msgID \in Nat
  BY Bounds DEF TypeOK
<1>2. CASE Moved(c, "inc") /\ msgID' = msgID
  BY <1>2 DEF Fits, Moved
<1>3. CASE call[c].pc = "inc" /\ Moved(c, "send") /\ msgID' = call[c].reg + 1
  <2>1. msgID' = msgID + 1 /\ \A d \in Callers \ {c} : ~Busy(d)
    BY <1>3 DEF OneCall, Busy
  <2>2. QED
    BY <1>1, <1>3, <2>1 DEF Fits, Moved, Busy
<1>4. CASE call[c].pc = "send" /\ Moved(c, "wait") /\ msgID' = msgID
  BY <1>1, <1>4 DEF Fits, Moved
<1>5. CASE Moved(c, "idle") /\ msgID' = msgID
  BY <1>5 DEF Fits, Moved
<1>6. CASE call[c].pc = "wait" /\ Moved(c, "wait") /\ Stays(c) /\ msgID' = msgID
  BY <1>6 DEF Fits, Moved, Stays
<1>7. QED
  BY <1>2, <1>3, <1>4, <1>5, <1>6, CallMoves

\* Calls go on taking turns.
LEMMA OneCallStep ==
    ASSUME TypeOK, OneCall, NEW c \in Callers, CallStep(c), ~overlapped', ~disturbed'
    PROVE  OneCall'
<1>1. rpc' = rpc /\ rx' = rx
  BY DEF CallStep, Caller, Begin, IncStore, Send, Take, GiveUp, Tick, rvars
<1>2. \A d \in Callers : Busy(d)' <=> call'[d].pc # "idle"
  BY DEF Busy
<1>3. SomeBusy' <=> \E d \in Callers : Busy(d)'
  BY DEF SomeBusy, Busy
<1>4. CASE /\ Moved(c, "inc") /\ msgID' = msgID /\ ~SomeBusy
           /\ call'[c].reg = msgID /\ rpc # "bump"
  BY <1>1, <1>2, <1>3, <1>4 DEF OneCall, Moved, Busy, SomeBusy
<1>5. CASE call[c].pc = "inc" /\ Moved(c, "send") /\ msgID' = call[c].reg + 1
  BY <1>1, <1>2, <1>3, <1>5 DEF OneCall, Moved, Busy, SomeBusy
<1>6. CASE /\ call[c].pc = "send" /\ Moved(c, "wait") /\ Stays(c) /\ msgID' = msgID
           /\ (call[c].kind # "connect" => call'[c].key = msgID)
  <2>1. msgID > 0
    BY <1>6 DEF TypeOK
  <2>2. QED
    BY <1>1, <1>2, <1>3, <1>6, <2>1 DEF OneCall, Moved, Stays, Busy, SomeBusy, Asks
<1>7. CASE Moved(c, "idle") /\ msgID' = msgID
  BY <1>1, <1>2, <1>3, <1>7 DEF OneCall, Moved, Busy, SomeBusy
<1>8. CASE /\ call[c].pc = "wait" /\ Moved(c, "wait") /\ Stays(c)
           /\ call'[c].key = call[c].key /\ msgID' = msgID
  BY <1>1, <1>2, <1>3, <1>8 DEF OneCall, Moved, Stays, Busy, SomeBusy
<1>9. QED
  BY <1>4, <1>5, <1>6, <1>7, <1>8, CallMoves
\* A call disturbs nothing that is in order.
LEMMA InOrderCall ==
    ASSUME TypeOK, OneCall, InOrder, NEW c \in Callers, CallStep(c),
           ~overlapped', ~disturbed'
    PROVE  InOrder'
<1>1. rpc' = rpc /\ rx' = rx /\ stream' = stream
  BY DEF CallStep, Caller, Begin, IncStore, Send, Take, GiveUp, Tick, rvars, dvars
<1>2. ASSUME NEW r \in due' PROVE Fits(r.id, 1, r.serial)'
  <2>1. CASE r \in due
    <3>1. r.id \in Nat /\ Fits(r.id, 1, r.serial)
      BY <2>1, Bounds DEF InOrder, TypeOK, Ids
    <3>2. QED
      BY <3>1, FitsStep
  <2>2. CASE r \notin due
    <3>1. Send(c)
      BY <1>2, <2>2 DEF CallStep, Caller, Begin, IncStore, Take, GiveUp, Tick, dvars
    <3>2. /\ r.id = msgID /\ r.serial = call[c].serial /\ call[c].pc = "send"
          /\ Stays(c) /\ msgID' = msgID /\ \A d \in Callers \ {c} : call'[d] = call[d]
      BY <1>2, <2>2, <3>1, SendMoves DEF Moved
    <3>3. \A d \in Callers \ {c} : call'[d].pc = "idle"
      BY <3>2 DEF OneCall, Busy
    <3>4. call'[c].pc # "send"
      BY <3>1, SendMoves DEF Moved
    <3>5. msgID \in Nat
      BY Bounds DEF TypeOK
    <3>6. QED
      BY <3>2, <3>3, <3>4, <3>5 DEF Fits, Stays
  <2>3. QED
    BY <2>1, <2>2
<1>3. ASSUME NEW m \in StreamMsgs', m.conv = 1 PROVE Fits(m.id, m.conv, m.serial)'
  <2>1. m \in StreamMsgs
    BY <1>1, <1>3 DEF StreamMsgs
  <2>2. m.id \in Nat
    <3>1. m \in Message
      BY <2>1, StreamMsgsType DEF TypeOK
    <3>2. QED
      BY <3>1, Bounds DEF Message, Ids
  <2>3. QED
    BY <1>3, <2>1, <2>2, FitsStep DEF InOrder
<1>4. ASSUME Held' PROVE Fits(rx.msg.id, rx.msg.conv, rx.msg.serial)'
  <2>1. Held /\ rx.msg.id \in Nat
    BY <1>1, <1>4, Bounds DEF Held, TypeOK, Packet, Message, Ids
  <2>2. Fits(rx.msg.id, rx.msg.conv, rx.msg.serial)
    BY <2>1 DEF InOrder
  <2>3. QED
    BY <1>1, <2>1, <2>2, FitsStep
<1>5. ASSUME NEW k \in Ids, results'[k] # NoMsg
      PROVE  Fits(k, results[k].conv, results[k].serial)' 
  <2>1. results'[k] = results[k]
    BY <1>5 DEF CallStep, Caller, Begin, IncStore, Send, Take, Removed, GiveUp, Tick, cvars, TypeOK, Keys
  <2>2. Fits(k, results[k].conv, results[k].serial) /\ k \in Nat
    BY <1>5, <2>1, Bounds DEF InOrder, Ids
  <2>3. QED
    BY <2>1, <2>2, FitsStep
<1>6. QED
  BY <1>2, <1>3, <1>4, <1>5 DEF InOrder

\* What a call takes is the reply to it.
LEMMA GotStep ==
    ASSUME TypeOK, OneCall, InOrder, Got, NEW c \in Callers, CallStep(c)
    PROVE  Got'
<1>1. \A d \in Callers : Busy(d)' <=> call'[d].pc # "idle"
  BY DEF Busy
<1>2. CASE call'[c].got = NoMsg /\ \A d \in Callers \ {c} : call'[d] = call[d]
  BY <1>1, <1>2 DEF Got, Busy
<1>3. CASE /\ \A d \in Callers \ {c} : call'[d] = call[d]
           /\ Busy(c) /\ call'[c].got = call[c].got
  BY <1>1, <1>2, <1>3 DEF Got
<1>4. CASE Moved(c, "idle") /\ Stays(c) /\ Take(c) /\ call'[c].got = results[call[c].key]
  <2>1. call[c].pc = "wait" /\ results[call[c].key] # NoMsg
    BY <1>4 DEF Take
  <2>2. CASE call[c].kind \in Asks
    <3>1. call[c].key = msgID /\ msgID \in Ids
      BY <2>1, <2>2, Bounds DEF OneCall, TypeOK, Ids
    <3>2. Fits(msgID, results[msgID].conv, results[msgID].serial)
      BY <2>1, <3>1 DEF InOrder
    <3>3. results[msgID].conv = 1 /\ results[msgID].serial = call[c].serial
      BY <2>1, <2>2, <3>2 DEF Fits
    <3>4. QED
      BY <1>1, <1>4, <3>1, <3>3 DEF Got, Moved, Stays, Busy
  <2>3. CASE call[c].kind \notin Asks
    BY <1>1, <1>4, <2>3 DEF Got, Moved, Stays, Busy
  <2>4. QED
    BY <2>2, <2>3
<1>5. QED
  BY <1>2, <1>3, <1>4, CallMoves DEF Moved, Busy
-----------------------------------------------------------------------------
\* Receiver and device

\* Calls and numbers left alone, results only dropped or in order.
LEMMA Kept ==
    ASSUME OneCall, InOrder, Got, call' = call, msgID' = msgID,
           due' \subseteq due,
           \A m \in StreamMsgs' : m \in StreamMsgs \/ m.conv # 1 \/ Fits(m.id, m.conv, m.serial),
           Held' => \/ Held /\ rx' = rx
                    \/ Fits(rx'.msg.id, rx'.msg.conv, rx'.msg.serial),
           \A k \in Ids : \/ results'[k] = results[k]
                          \/ Fits(k, results'[k].conv, results'[k].serial),
           rpc' = "bump" => \/ rpc = "bump" /\ rx' = rx
                            \/ ~SomeBusy /\ rx'.msg.conv = 0 /\ rx'.msg.id > msgID
    PROVE  OneCall' /\ InOrder' /\ Got'
<1>1. ASSUME NEW id, NEW conv, NEW serial, Fits(id, conv, serial)
      PROVE  Fits(id, conv, serial)'
  BY <1>1 DEF Fits
<1>2. OneCall'
  BY DEF OneCall, SomeBusy, Busy
<1>3. Got'
  BY DEF Got, Busy
<1>4. \A r \in due' : Fits(r.id, 1, r.serial)'
  BY <1>1 DEF InOrder
<1>5. \A m \in StreamMsgs' : m.conv = 1 => Fits(m.id, m.conv, m.serial)'
  BY <1>1 DEF InOrder
<1>6. Held' => Fits(rx.msg.id, rx.msg.conv, rx.msg.serial)'
  BY <1>1 DEF InOrder
<1>7. \A k \in Ids : results'[k] # NoMsg => Fits(k, results[k].conv, results[k].serial)'
  BY <1>1 DEF InOrder
<1>8. QED
  BY <1>2, <1>3, <1>4, <1>5, <1>6, <1>7 DEF InOrder

LEMMA ReceiverTurns ==
    ASSUME TypeOK, OneCall, InOrder, Got, Receiver, ~disturbed'
    PROVE  OneCall' /\ InOrder' /\ Got'
<1> USE DEF cvars, rvars, dvars, hvars
<1>1. CASE RxLoop \/ RxHandle \/ RxEof \/ RxOver \/ RxClosed
  <2>1. /\ call' = call /\ msgID' = msgID /\ due' = due /\ stream' = stream
        /\ results' = results /\ (Held' => Held /\ rx' = rx) /\ rpc' # "bump"
    BY <1>1 DEF RxLoop, RxHandle, RxEof, RxOver, RxClosed, Held
  <2>2. StreamMsgs' = StreamMsgs
    BY <2>1 DEF StreamMsgs
  <2>3. QED
    BY <2>1, <2>2, Kept
<1>2. CASE RxHeader
  <2>1. Head(stream).msg \in StreamMsgs /\ StreamMsgs' \subseteq StreamMsgs
    BY <1>2, TailMsgs DEF RxHeader, TypeOK
  <2>2. /\ call' = call /\ msgID' = msgID /\ due' = due /\ results' = results
        /\ rpc' \in {"bump", "handle"} => rx' = Head(stream)
        /\ rpc' \in {"bump", "handle", "read", "loop"}
    BY <1>2 DEF RxHeader, AfterHeader
  <2>3. rpc' = "bump" => ~SomeBusy /\ rx'.msg.conv = 0 /\ rx'.msg.id > msgID
    BY <1>2, <2>2 DEF RxHeader, Raises, AfterHeader
  <2>4. ASSUME Held' PROVE Fits(rx'.msg.id, rx'.msg.conv, rx'.msg.serial)
    <3>1. rpc' = "handle" /\ rx' = Head(stream)
      BY <2>2, <2>4 DEF Held
    <3> DEFINE m == Head(stream).msg
    <3>2. Accepted(m) /\ ~Raises(m)
      BY <1>2, <3>1 DEF RxHeader, AfterHeader
    <3>3. CASE m.conv = 1
      BY <2>1, <3>1, <3>3 DEF InOrder
    <3>4. CASE m.conv = 0
      <4>1. ~SomeBusy
        BY <1>2, <3>4 DEF RxHeader
      <4>2. m.id \in Nat /\ msgID \in Nat
        BY <2>1, StreamMsgsType, Bounds DEF TypeOK, Message, Ids
      <4>3. m.id <= msgID
        BY <3>2, <3>4, <4>2 DEF Raises
      <4>4. QED
        BY <3>1, <4>1, <4>3 DEF Fits, SomeBusy, Busy
    <3>5. QED
      BY <3>2, <3>3, <3>4 DEF Accepted
  <2>5. QED
    BY <2>1, <2>2, <2>3, <2>4, Kept
<1>3. CASE RxBump
  <2>1. /\ call' = call /\ msgID' = rx.msg.id /\ due' = due /\ stream' = stream
        /\ results' = results /\ rpc' # "bump" /\ (Held' => rx' = rx)
        /\ ~SomeBusy /\ rx.msg.id > msgID
    BY <1>3 DEF RxBump, OneCall, AfterHeader, Held
  <2>2. ~SomeBusy' /\ \A c \in Callers : call'[c].pc = "idle"
    BY <2>1 DEF SomeBusy, Busy
  <2>3. msgID \in Nat /\ rx.msg.id \in Nat
    BY <1>3, Bounds DEF RxBump, TypeOK, Packet, Message, Ids
  <2>4. ASSUME NEW id \in Nat, NEW conv, NEW serial, id <= msgID'
        PROVE  Fits(id, conv, serial)'
    BY <2>2, <2>4 DEF Fits
  <2>5. OneCall' /\ Got'
    BY <2>1, <2>2 DEF OneCall, Got, SomeBusy, Busy
  <2>6. \A r \in due' : Fits(r.id, 1, r.serial)'
    BY <2>1, <2>3, <2>4 DEF InOrder, TypeOK, Ids, Fits
  <2>7. \A m \in StreamMsgs' : m.conv = 1 => Fits(m.id, m.conv, m.serial)'
    <3>1. \A m \in StreamMsgs : m.id \in Nat
      BY StreamMsgsType, Bounds DEF TypeOK, Message, Ids
    <3>2. StreamMsgs' = StreamMsgs
      BY <2>1 DEF StreamMsgs
    <3>3. QED
      BY <2>1, <2>3, <2>4, <3>1, <3>2 DEF InOrder, Fits
  <2>8. Held' => Fits(rx.msg.id, rx.msg.conv, rx.msg.serial)'
    BY <2>1, <2>3, <2>4
  <2>9. \A k \in Ids : results'[k] # NoMsg => Fits(k, results[k].conv, results[k].serial)'
    BY <2>1, <2>3, <2>4, Bounds DEF InOrder, Ids, Fits
  <2>10. QED
    BY <2>5, <2>6, <2>7, <2>8, <2>9 DEF InOrder
<1>4. CASE RxGarbage
  <2>1. /\ call' = call /\ msgID' = msgID /\ due' = due /\ results' = results
        /\ rpc' = "loop"
    BY <1>4 DEF RxGarbage
  <2>2. StreamMsgs' \subseteq StreamMsgs
    <3>1. CASE stream' = stream
      BY <3>1 DEF StreamMsgs
    <3>2. CASE stream # <<>> /\ stream' = Tail(stream)
      BY <3>2, TailMsgs DEF TypeOK
    <3>3. QED
      BY <1>4, <3>1, <3>2 DEF RxGarbage
  <2>3. QED
    BY <2>1, <2>2, Kept DEF Held
<1>5. CASE RxDeliver
  <2>1. /\ call' = call /\ msgID' = msgID /\ due' = due /\ stream' = stream
        /\ rpc' = "loop" /\ Held
    BY <1>5 DEF RxDeliver, Held
  <2>2. StreamMsgs' = StreamMsgs
    BY <2>1 DEF StreamMsgs
  <2>3. ASSUME NEW k \in Ids, results'[k] # results[k]
        PROVE  Fits(k, results'[k].conv, results'[k].serial)
    <3>1. results'[k] = rx.msg /\ k \in {NotifyKey, rx.msg.id}
      BY <1>5, <2>3 DEF RxDeliver, TypeOK, Keys
    <3>2. k = rx.msg.id
      BY <3>1, Bounds DEF Ids, NotifyKey
    <3>3. QED
      BY <2>1, <3>1, <3>2 DEF InOrder
  <2>4. QED
    BY <2>1, <2>2, <2>3, Kept DEF Held
<1>6. QED
  BY <1>1, <1>2, <1>3, <1>4, <1>5 DEF Receiver
\* What the replier, Close and the device do.
Outside ==
    \/ \E n \in 1..MaxOwn : Ack(n)
    \/ AckStop \/ CloseCancel \/ CloseConn
    \/ DevReply \/ DevSend \/ DevClose

LEMMA ReplyMessage ==
    ASSUME TypeOK, DevReply
    PROVE  \E r \in due, m \in Message :
             /\ due' = due \ {r} /\ stream' = stream \o Packets(m)
             /\ m.conv = 1 /\ m.id = r.id /\ m.serial = r.serial
<1>1. PICK r \in due, s \in ReplyShapes :
        /\ due' = due \ {r}
        /\ stream' = stream \o Packets(
             [conv |-> 1, id |-> r.id, expects |-> FALSE, notify |-> FALSE,
              ok |-> s.ok, frags |-> s.frags, len |-> s.len, serial |-> r.serial])
  BY DEF DevReply
<1> DEFINE m == [conv |-> 1, id |-> r.id, expects |-> FALSE, notify |-> FALSE,
                 ok |-> s.ok, frags |-> s.frags, len |-> s.len, serial |-> r.serial]
<1>2. m \in Message
  BY DtxAssumption DEF DtxAssumption, TypeOK, Message, Shape
<1>3. m.conv = 1 /\ m.id = r.id /\ m.serial = r.serial
  OBVIOUS
<1>4. QED
  BY <1>1, <1>2, <1>3

LEMMA OwnMessage ==
    ASSUME TypeOK, DevSend
    PROVE  \E m \in Message : stream' = stream \o Packets(m) /\ m.conv # 1
<1>1. PICK u \in Unsolicited :
        stream' = stream \o Packets(
             [conv |-> u.conv, id |-> u.id, expects |-> u.expects, notify |-> u.notify,
              ok |-> u.ok, frags |-> u.frags, len |-> u.len, serial |-> ownSent + 1])
  BY DEF DevSend
<1> DEFINE m == [conv |-> u.conv, id |-> u.id, expects |-> u.expects, notify |-> u.notify,
                 ok |-> u.ok, frags |-> u.frags, len |-> u.len, serial |-> ownSent + 1]
<1>2. u \in Template
  BY DtxAssumption DEF DtxAssumption
<1>3. m \in Message /\ m.conv # 1
  BY <1>2, Bounds DEF TypeOK, Message, Template
<1>4. QED
  BY <1>1, <1>3

LEMMA OutsideTurns ==
    ASSUME TypeOK, OneCall, InOrder, Got, Outside
    PROVE  OneCall' /\ InOrder' /\ Got'
<1> USE DEF cvars, rvars, dvars, hvars
<1>1. /\ call' = call /\ msgID' = msgID /\ results' = results /\ rpc' = rpc /\ rx' = rx
  BY DEF Outside, Ack, AckStop, CloseCancel, CloseConn, DevReply, DevSend, DevClose
<1>2. due' \subseteq due
        /\ \A m \in StreamMsgs' :
             m \in StreamMsgs \/ m.conv # 1 \/ Fits(m.id, m.conv, m.serial)
  <2>1. CASE DevReply
    <3>1. PICK r \in due, m \in Message :
             /\ due' = due \ {r} /\ stream' = stream \o Packets(m)
             /\ m.conv = 1 /\ m.id = r.id /\ m.serial = r.serial
      BY <2>1, ReplyMessage
    <3>2. StreamMsgs' \subseteq StreamMsgs \cup {m}
      BY <3>1, AppendMsgs DEF TypeOK
    <3>3. Fits(m.id, m.conv, m.serial)
      BY <3>1 DEF InOrder
    <3>4. QED
      BY <3>1, <3>2, <3>3
  <2>2. CASE DevSend
    <3>1. PICK m \in Message : stream' = stream \o Packets(m) /\ m.conv # 1
      BY <2>2, OwnMessage
    <3>2. StreamMsgs' \subseteq StreamMsgs \cup {m}
      BY <3>1, AppendMsgs DEF TypeOK
    <3>3. QED
      BY <2>2, <3>1, <3>2 DEF DevSend
  <2>3. CASE ~DevReply /\ ~DevSend
    <3>1. stream' = stream /\ due' = due
      BY <2>3 DEF Outside, Ack, AckStop, CloseCancel, CloseConn, DevClose
    <3>2. QED
      BY <3>1 DEF StreamMsgs
  <2>4. QED
    BY <2>1, <2>2, <2>3
<1>3. QED
  BY <1>1, <1>2, Kept DEF Held
-----------------------------------------------------------------------------
LEMMA TurnsInit == Init => Turns
<1> SUFFICES ASSUME Init PROVE OneCall /\ InOrder /\ Got
  BY DEF Turns
<1>1. /\ msgID = 0 /\ due = {} /\ rpc = "loop" /\ stream = <<>>
      /\ \A k \in Keys : results[k] = NoMsg
      /\ \A c \in Callers : call[c].pc = "idle" /\ call[c].got = NoMsg
  BY DEF Init
<1>2. StreamMsgs = {}
  BY <1>1 DEF StreamMsgs
<1>3. QED
  BY <1>1, <1>2 DEF OneCall, InOrder, Got, Busy, Held, Keys

LEMMA TurnsStep == TypeOK /\ Turns /\ [Next]_vars => Turns'
<1> SUFFICES ASSUME TypeOK, Turns, [Next]_vars, Quiet'
             PROVE  OneCall' /\ InOrder' /\ Got'
  BY DEF Turns
<1>1. Quiet
  BY DEF Quiet, TypeOK, Next, Begin, Caller, IncStore, Send, Take, GiveUp, Tick, Receiver,
         RxLoop, RxHeader, RxBump, RxGarbage, RxHandle, RxDeliver, RxEof, RxOver, RxClosed,
         Ack, AckStop, CloseCancel, CloseConn, DevReply, DevSend, DevClose, vars, hvars
<1>2. OneCall /\ InOrder /\ Got
  BY <1>1 DEF Turns
<1>3. ~overlapped' /\ ~disturbed'
  BY DEF Quiet
<1>4. ASSUME NEW c \in Callers, CallStep(c)
      PROVE  OneCall' /\ InOrder' /\ Got'
  BY <1>2, <1>3, <1>4, OneCallStep, InOrderCall, GotStep
<1>5. CASE Receiver
  BY <1>2, <1>3, <1>5, ReceiverTurns
<1>6. CASE Outside
  BY <1>2, <1>6, OutsideTurns
<1>7. CASE UNCHANGED vars
  BY <1>2, <1>7 DEF OneCall, InOrder, Got, Fits, SomeBusy, Busy, Held, StreamMsgs, vars,
                    cvars, rvars, dvars
<1>8. QED
  BY <1>4, <1>5, <1>6, <1>7 DEF Next, CallStep, Outside

\* As long as calls take turns and the device sends nothing of its own during a call,
\* Invoke and MakeChannel return the device's answer to that very request.
THEOREM OwnAnswerHolds == Spec => []OwnAnswer
<1>1. Turns => OwnAnswer
  BY DEF Turns, Quiet, Got, OwnAnswer, Asks
<1>2. QED
  BY <1>1, TurnsInit, TurnsStep, TypeCorrect, PTL DEF Spec
-----------------------------------------------------------------------------
\* The place in the stream

Outstanding == due # {} \/ InStream \/ InHand

\* Reading a packet leaves replies in order; nothing follows the payload of one.
LEMMA TailReplies ==
    ASSUME stream \in Seq(Packet), stream # <<>>, stream' = Tail(stream), LastReply
    PROVE  /\ LastReply'
           /\ Head(stream).body /\ IsReply(Head(stream).msg) => ~InStream'
<1>1. /\ DOMAIN stream = 1..Len(stream) /\ Len(stream) \in Nat \ {0}
      /\ DOMAIN Tail(stream) = 1..(Len(stream) - 1)
      /\ \A i \in 1..(Len(stream) - 1) : Tail(stream)[i] = stream[i + 1]
      /\ Head(stream) = stream[1]
  BY HeadTailProperties, EmptySeq, LenProperties
<1>2. LastReply'
  <2> SUFFICES ASSUME NEW i \in DOMAIN Tail(stream), NEW j \in DOMAIN Tail(stream), i < j,
                      Tail(stream)[i].body, IsReply(Tail(stream)[i].msg)
               PROVE  ~IsReply(Tail(stream)[j].msg)
    BY DEF LastReply, IsReply
  <2>1. /\ i + 1 \in DOMAIN stream /\ j + 1 \in DOMAIN stream /\ i + 1 < j + 1
        /\ Tail(stream)[i] = stream[i + 1] /\ Tail(stream)[j] = stream[j + 1]
    BY <1>1
  <2>2. QED
    BY <2>1 DEF LastReply
<1>3. ASSUME Head(stream).body, IsReply(Head(stream).msg), NEW i \in DOMAIN Tail(stream)
      PROVE  ~IsReply(Tail(stream)[i].msg)
  <2>1. 1 \in DOMAIN stream /\ i + 1 \in DOMAIN stream /\ 1 < i + 1
    BY <1>1
  <2>2. Tail(stream)[i] = stream[i + 1] /\ Head(stream) = stream[1]
    BY <1>1
  <2>3. QED
    BY <1>3, <2>1, <2>2 DEF LastReply
<1>4. QED
  BY <1>2, <1>3 DEF InStream, StreamMsgs

\* So does sending a message, if it is not a reply or the first one.
LEMMA AppendReplies ==
    ASSUME stream \in Seq(Packet), NEW m \in Message, stream' = stream \o Packets(m),
           LastReply, ~IsReply(m) \/ ~InStream
    PROVE  LastReply'
<1> DEFINE n == Len(stream)
           new == Packets(m)
<1>1. new \in Seq(Packet)
  BY PacketsType
<1>2. /\ DOMAIN stream = 1..n /\ DOMAIN new = 1..Len(new)
      /\ DOMAIN stream' = 1..(n + Len(new)) /\ n \in Nat /\ Len(new) \in Nat
  BY <1>1, ConcatProperties, LenProperties
<1>3. ASSUME NEW i \in DOMAIN stream'
      PROVE  \/ i \in DOMAIN stream /\ stream'[i] = stream[i]
             \/ i - n \in DOMAIN new /\ stream'[i] = new[i - n] /\ i > n
  <2>1. CASE i <= n
    BY <1>1, <1>2, <1>3, <2>1, ConcatProperties
  <2>2. CASE i > n
    BY <1>1, <1>2, <1>3, <2>2, ConcatProperties
  <2>3. QED
    BY <1>2, <1>3, <2>1, <2>2
<1>4. \A i, j \in DOMAIN new : i < j => ~new[i].body
  BY DEF Packets
<1>5. \A i \in DOMAIN new : new[i].msg = m
  BY DEF Packets
<1>6. SUFFICES ASSUME NEW i \in DOMAIN stream', NEW j \in DOMAIN stream', i < j,
                      stream'[i].body, IsReply(stream'[i].msg), IsReply(stream'[j].msg)
               PROVE  FALSE
  BY DEF LastReply, IsReply
<1>7. CASE i > n /\ j > n
  BY <1>2, <1>3, <1>4, <1>6, <1>7
<1>8. CASE i \in DOMAIN stream /\ stream'[i] = stream[i]
  <2>1. CASE j \in DOMAIN stream /\ stream'[j] = stream[j]
    BY <1>6, <1>8, <2>1 DEF LastReply
  <2>2. CASE j - n \in DOMAIN new /\ stream'[j] = new[j - n]
    <3>1. IsReply(m) /\ InStream
      BY <1>5, <1>6, <1>8, <2>2 DEF InStream, StreamMsgs
    <3>2. QED
      BY <3>1
  <2>3. QED
    BY <1>3, <2>1, <2>2
<1>9. QED
  BY <1>2, <1>3, <1>6, <1>7, <1>8

\* Nothing is outstanding, and nothing that was becomes so.
LEMMA NothingOut ==
    ASSUME LastReply', skip' = 0, due' = {}, ~InStream', ~InHand'
    PROVE  OneReply'
  BY DEF OneReply, InStream

LEMMA CallInStep ==
    ASSUME TypeOK, OneCall, InOrder, OneReply, NEW c \in Callers, CallStep(c),
           ~overlapped', ~timedOut'
    PROVE  OneReply'
<1> USE DEF cvars, rvars, dvars
<1>1. /\ rpc' = rpc /\ rx' = rx /\ stream' = stream /\ skip' = skip
  BY DEF CallStep, Caller, Begin, IncStore, Send, Take, GiveUp, Tick
<1>2. /\ LastReply' /\ skip' = 0 /\ (InStream' <=> InStream) /\ (InHand' <=> InHand)
  BY <1>1 DEF OneReply, LastReply, InStream, InHand, Held, IsReply, StreamMsgs
<1>3. ~Awaited => ~Outstanding
  BY DEF OneReply, Outstanding
<1>4. (call[c].pc # "wait" \/ call[c].kind \notin Asks) /\ Busy(c) => ~Awaited
  BY DEF OneCall, Busy, Awaited
<1>5. ASSUME ~Outstanding, due' = due PROVE OneReply'
  BY <1>2, <1>5, NothingOut DEF Outstanding
<1>6. ASSUME NEW kind \in Kinds, NEW ch \in Channels \cup {NoChan}, Begin(c, kind, ch)
      PROVE  OneReply'
  <2>1. ~Awaited
    BY <1>6, BeginMoves DEF Awaited, SomeBusy, Busy
  <2>2. QED
    BY <1>3, <1>5, <1>6, <2>1 DEF Begin
<1>7. CASE IncStore(c)
  BY <1>3, <1>4, <1>5, <1>7 DEF IncStore, Busy
<1>8. CASE Send(c)
  <2>1. ~Outstanding
    BY <1>3, <1>4, <1>8 DEF Send, Busy
  <2>2. CASE due' = due
    BY <1>5, <2>1, <2>2
  <2>3. CASE due' # due
    <3>1. /\ call[c].kind \in Asks /\ Moved(c, "wait") /\ Stays(c) /\ msgID' = msgID
          /\ due' = {[id |-> msgID, serial |-> call[c].serial]}
      BY <1>8, <2>1, <2>3, SendMoves DEF Outstanding
    <3>2. Awaited'
      BY <3>1 DEF Awaited, Moved, Stays
    <3>3. ~Stored'
      <4>1. call[c].pc = "send" /\ results' = results /\ msgID \in Nat
        BY <1>8, Bounds DEF Send, TypeOK
      <4>2. msgID \in Ids => results[msgID] = NoMsg
        BY <4>1 DEF InOrder, Fits
      <4>3. QED
        BY <3>1, <4>1, <4>2 DEF Stored
    <3>4. QED
      BY <1>2, <2>1, <3>1, <3>2, <3>3 DEF OneReply, Outstanding, InStream
  <2>4. QED
    BY <2>2, <2>3
<1>9. CASE Take(c)
  <2>1. call[c].pc = "wait" /\ results[call[c].key] # NoMsg /\ due' = due
    BY <1>9 DEF Take
  <2>2. ~Outstanding
    <3>1. CASE call[c].kind \in Asks
      <4>1. Stored
        BY <2>1, <3>1, Bounds DEF OneCall, Stored, TypeOK, Ids
      <4>2. QED
        BY <4>1 DEF OneReply, Outstanding
    <3>2. CASE call[c].kind \notin Asks
      BY <1>3, <1>4, <2>1, <3>2 DEF Busy
    <3>3. QED
      BY <3>1, <3>2
  <2>3. QED
    BY <1>5, <2>1, <2>2
<1>10. CASE GiveUp(c)
  BY <1>10 DEF GiveUp
<1>11. CASE Tick(c)
  <2>1. /\ \A d \in Callers : call'[d].pc = call[d].pc /\ call'[d].kind = call[d].kind
        /\ due' = due /\ msgID' = msgID /\ results' = results
    BY <1>11 DEF Tick, TypeOK, CallState
  <2>2. (Awaited' <=> Awaited) /\ (Stored' <=> Stored)
    BY <2>1 DEF Awaited, Stored
  <2>3. StreamMsgs' = StreamMsgs
    BY <1>1 DEF StreamMsgs
  <2>4. QED
    BY <1>2, <2>1, <2>2, <2>3 DEF OneReply
<1>12. QED
  BY <1>6, <1>7, <1>8, <1>9, <1>10, <1>11 DEF CallStep, Caller
LEMMA ReceiverInStep ==
    ASSUME TypeOK, OneCall, InOrder, OneReply, Receiver, ~disturbed'
    PROVE  OneReply'
<1> USE DEF cvars, rvars, dvars, hvars
<1>1. ASSUME due' = due, skip' = 0, LastReply', StreamMsgs' \subseteq StreamMsgs,
             call' = call, msgID' = msgID, InHand' => InHand, Stored' => Stored
      PROVE  OneReply'
  <2>1. (Awaited' <=> Awaited) /\ (InStream' => InStream)
    BY <1>1 DEF Awaited, InStream, IsReply
  <2>2. QED
    BY <1>1, <2>1 DEF OneReply
<1>2. CASE RxLoop \/ RxHandle \/ RxEof \/ RxOver \/ RxClosed
  <2>1. /\ due' = due /\ skip' = skip /\ stream' = stream /\ call' = call /\ msgID' = msgID
        /\ results' = results /\ (Held' => Held /\ rx' = rx)
    BY <1>2 DEF RxLoop, RxHandle, RxEof, RxOver, RxClosed, Held
  <2>2. QED
    BY <1>1, <2>1 DEF OneReply, LastReply, StreamMsgs, InHand, IsReply, Stored
<1>3. CASE RxHeader
  <2> DEFINE p == Head(stream)
  <2>1. p.msg \in StreamMsgs /\ StreamMsgs' \subseteq StreamMsgs
    BY <1>3, TailMsgs DEF RxHeader, TypeOK
  <2>2. LastReply' /\ (p.body /\ IsReply(p.msg) => ~InStream')
    BY <1>3, TailReplies DEF RxHeader, TypeOK, OneReply
  <2>3. /\ due' = due /\ call' = call /\ msgID' = msgID /\ results' = results
        /\ rpc = "read"
    BY <1>3 DEF RxHeader
  <2>4. p.msg.conv \in {0, 1}
    BY <1>3, <2>1, StreamMsgsType DEF RxHeader, TypeOK, Message
  <2>5. Accepted(p.msg)
    BY <2>1, <2>4 DEF OneReply, Accepted, IsReply
  <2>6. skip' = 0 /\ (Held' => p.body /\ rx' = p)
    BY <1>3, <2>5 DEF RxHeader, AfterHeader, Held, OneReply
  <2>7. CASE Held' /\ IsReply(p.msg)
    <3>1. due = {} /\ Awaited /\ ~Stored /\ ~InStream'
      BY <2>1, <2>2, <2>6, <2>7 DEF OneReply, InStream
    <3>2. Awaited' /\ ~Stored'
      BY <2>3, <3>1 DEF Awaited, Stored
    <3>3. QED
      BY <2>2, <2>3, <2>6, <3>1, <3>2 DEF OneReply, InStream
  <2>8. CASE ~(Held' /\ IsReply(p.msg))
    BY <1>1, <2>1, <2>2, <2>3, <2>6, <2>8 DEF InHand, IsReply, Stored
  <2>9. QED
    BY <2>7, <2>8
<1>4. CASE RxBump
  <2>1. ~Awaited /\ rx.msg.conv = 0
    BY <1>4 DEF RxBump, OneCall, SomeBusy, Busy, Awaited
  <2>2. /\ due' = due /\ stream' = stream /\ skip' = skip /\ (Held' => rx' = rx)
    BY <1>4 DEF RxBump, AfterHeader, Held
  <2>3. due = {} /\ ~InStream
    BY <2>1 DEF OneReply
  <2>4. QED
    BY <2>1, <2>2, <2>3, NothingOut DEF OneReply, LastReply, InStream, StreamMsgs, InHand, IsReply
<1>5. CASE RxGarbage
  BY <1>5 DEF RxGarbage, OneReply
<1>6. CASE RxDeliver
  <2>1. /\ Held /\ ~Held' /\ due' = due /\ stream' = stream /\ skip' = skip /\ call' = call
        /\ msgID' = msgID
    BY <1>6 DEF RxDeliver, Held
  <2>2. LastReply' /\ skip' = 0 /\ StreamMsgs' = StreamMsgs /\ ~InHand'
    BY <2>1 DEF OneReply, LastReply, IsReply, StreamMsgs, InHand
  <2>3. CASE InHand
    BY <2>1, <2>2, <2>3, NothingOut DEF OneReply, InStream, IsReply
  <2>4. CASE ~InHand
    <3>1. CASE Awaited
      <4>1. rx.msg.id # msgID
        BY <2>1, <2>4, <3>1 DEF InOrder, Fits, InHand, IsReply, Awaited
      <4>2. Stored' => Stored
        <5>1. ASSUME msgID \in Ids PROVE results'[msgID] = results[msgID]
          <6>1. (IF rx.msg.notify THEN NotifyKey ELSE rx.msg.id) # msgID
            BY <4>1, <5>1, Bounds DEF Ids, NotifyKey
          <6>2. CASE rx.msg.expects
            BY <1>6, <6>2 DEF RxDeliver
          <6>3. CASE ~rx.msg.expects
            <7>1. results' = [results EXCEPT
                     ![IF rx.msg.notify THEN NotifyKey ELSE rx.msg.id] = rx.msg]
              BY <1>6, <6>3 DEF RxDeliver
            <7>2. results \in [Keys -> Message \cup {NoMsg}] /\ msgID \in Keys
              BY <5>1 DEF TypeOK, Keys
            <7>3. QED
              BY <6>1, <7>1, <7>2
          <6>4. QED
            BY <6>2, <6>3
        <5>2. QED
          BY <2>1, <5>1 DEF Stored
      <4>3. QED
        BY <1>1, <2>1, <2>2, <4>2
    <3>2. CASE ~Awaited
      BY <2>1, <2>2, <3>2, NothingOut DEF OneReply, InStream, IsReply
    <3>3. QED
      BY <3>1, <3>2
  <2>5. QED
    BY <2>3, <2>4
<1>7. QED
  BY <1>2, <1>3, <1>4, <1>5, <1>6 DEF Receiver

LEMMA SameRequest ==
    ASSUME NEW q \in [id: Ids, serial: Nat], NEW r \in [id: Ids, serial: Nat],
           q.id = r.id, q.serial = r.serial
    PROVE  q = r
<1>1. q = [id |-> q.id, serial |-> q.serial] /\ r = [id |-> r.id, serial |-> r.serial]
  OBVIOUS
<1>2. QED
  BY <1>1

LEMMA OutsideInStep ==
    ASSUME TypeOK, OneCall, InOrder, OneReply, Outside
    PROVE  OneReply'
<1> USE DEF cvars, rvars, dvars, hvars
<1>1. /\ call' = call /\ msgID' = msgID /\ results' = results /\ rpc' = rpc /\ rx' = rx
      /\ skip' = skip
  BY DEF Outside, Ack, AckStop, CloseCancel, CloseConn, DevReply, DevSend, DevClose
<1>2. (Awaited' <=> Awaited) /\ (Stored' <=> Stored) /\ (InHand' <=> InHand)
  BY <1>1 DEF Awaited, Stored, InHand, Held, IsReply
<1>3. CASE DevReply
  <2>1. PICK r \in due, m \in Message :
           /\ due' = due \ {r} /\ stream' = stream \o Packets(m)
           /\ m.conv = 1 /\ m.id = r.id /\ m.serial = r.serial
    BY <1>3, ReplyMessage
  <2>2. Awaited /\ ~Stored /\ ~InStream /\ ~InHand
    BY <2>1 DEF OneReply
  <2>3. PICK c \in Callers : call[c].pc = "wait" /\ call[c].kind \in Asks
    BY <2>2 DEF Awaited
  <2>4. ASSUME NEW q \in due PROVE q = r
    <3>1. q.id = r.id /\ q.id = msgID
      BY <2>1, <2>4 DEF OneReply
    <3>2. q.serial = call[c].serial /\ r.serial = call[c].serial
      BY <2>1, <2>3, <3>1 DEF InOrder, Fits
    <3>3. q \in [id: Ids, serial: Nat] /\ r \in [id: Ids, serial: Nat]
      BY <2>1 DEF TypeOK
    <3>4. QED
      BY <3>1, <3>2, <3>3, SameRequest
  <2>5. due' = {}
    BY <2>1, <2>4
  <2>6. StreamMsgs' \subseteq StreamMsgs \cup {m}
    BY <2>1, AppendMsgs DEF TypeOK
  <2>7. \A q \in StreamMsgs' : IsReply(q) => q.id = msgID
    BY <2>1, <2>2, <2>6 DEF InStream, OneReply
  <2>8. LastReply'
    BY <2>1, <2>2, AppendReplies DEF TypeOK, OneReply
  <2>9. QED
    BY <1>1, <1>2, <2>2, <2>5, <2>7, <2>8 DEF OneReply, IsReply
<1>4. CASE DevSend
  <2>1. PICK m \in Message : stream' = stream \o Packets(m) /\ m.conv # 1
    BY <1>4, OwnMessage
  <2>2. StreamMsgs' \subseteq StreamMsgs \cup {m} /\ due' = due
    BY <1>4, <2>1, AppendMsgs DEF TypeOK, DevSend
  <2>3. LastReply'
    BY <2>1, AppendReplies DEF TypeOK, OneReply, IsReply
  <2>4. InStream' => InStream
    BY <2>1, <2>2 DEF InStream, IsReply
  <2>5. \A q \in StreamMsgs' : IsReply(q) => q.id = msgID
    BY <2>1, <2>2 DEF OneReply, IsReply
  <2>6. QED
    BY <1>1, <1>2, <2>2, <2>3, <2>4, <2>5 DEF OneReply, IsReply
<1>5. CASE ~DevReply /\ ~DevSend
  <2>1. stream' = stream /\ due' = due
    BY <1>5 DEF Outside, Ack, AckStop, CloseCancel, CloseConn, DevClose
  <2>2. LastReply' = LastReply /\ StreamMsgs' = StreamMsgs /\ InStream' = InStream
    BY <2>1 DEF LastReply, StreamMsgs, InStream, IsReply
  <2>3. QED
    BY <1>1, <1>2, <2>1, <2>2 DEF OneReply, IsReply
<1>6. QED
  BY <1>3, <1>4, <1>5

LEMMA InStepInit == Init => InStep
<1> SUFFICES ASSUME Init PROVE OneReply
  BY DEF InStep
<1>1. due = {} /\ rpc = "loop" /\ stream = <<>> /\ skip = 0
  BY DEF Init
<1>2. QED
  BY <1>1 DEF OneReply, LastReply, InStream, InHand, Held, StreamMsgs

LEMMA InStepStep == TypeOK /\ Turns /\ InStep /\ [Next]_vars => InStep'
<1> SUFFICES ASSUME TypeOK, Turns, InStep, [Next]_vars, Quiet', ~timedOut'
             PROVE  OneReply'
  BY DEF InStep
<1>1. Quiet /\ ~timedOut
  BY DEF Quiet, TypeOK, Next, Begin, Caller, IncStore, Send, Take, GiveUp, Tick, Receiver,
         RxLoop, RxHeader, RxBump, RxGarbage, RxHandle, RxDeliver, RxEof, RxOver, RxClosed,
         Ack, AckStop, CloseCancel, CloseConn, DevReply, DevSend, DevClose, vars, hvars
<1>2. OneCall /\ InOrder /\ OneReply
  BY <1>1 DEF Turns, InStep
<1>3. ~overlapped' /\ ~disturbed'
  BY DEF Quiet
<1>4. ASSUME NEW c \in Callers, CallStep(c) PROVE OneReply'
  BY <1>2, <1>3, <1>4, CallInStep
<1>5. CASE Receiver
  BY <1>2, <1>3, <1>5, ReceiverInStep
<1>6. CASE Outside
  BY <1>2, <1>6, OutsideInStep
<1>7. CASE UNCHANGED vars
  BY <1>2, <1>7 DEF OneReply, LastReply, InStream, InHand, Held, IsReply, StreamMsgs,
                    Awaited, Stored, vars, cvars, rvars, dvars
<1>8. QED
  BY <1>4, <1>5, <1>6, <1>7 DEF Next, CallStep, Outside

\* The receiver loses its place in the stream only through overlapping calls, a
\* message the device sends on its own during a call, or an answer that was late: on
\* no other occasion is a header refused.
THEOREM DesyncHasCauseHolds == Spec => []DesyncHasCause
<1>1. InStep /\ TypeOK => DesyncHasCause
  BY DEF InStep, Quiet, OneReply, DesyncHasCause, TypeOK
<1>2. QED
  BY <1>1, TurnsInit, TurnsStep, InStepInit, InStepStep, TypeCorrect, PTL DEF Spec
=============================================================================
