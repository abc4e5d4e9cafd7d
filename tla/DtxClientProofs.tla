--------------------------- MODULE DtxClientProofs ---------------------------
(***************************************************************************)
(* Proofs about DtxClient, for any callers, channels and device messages.  *)
(***************************************************************************)
EXTENDS DtxClient, FiniteSetTheorems, SequenceTheorems, TLAPS

\* The next channel code is a number: only finitely many names are open.
LEMMA NextCodeType == NextCode \in Nat
<1>1. IsFiniteSet({ch \in Channels : opened[ch] # 0})
  BY FS_Subset, DtxAssumption DEF DtxAssumption
<1>2. QED
  BY <1>1, FS_CardinalityType DEF NextCode

LEMMA Bounds == /\ MaxId \in Nat /\ MaxCalls \in Nat /\ MaxOwn \in Nat
                /\ NoMsg \notin Message
  BY DtxAssumption DEF DtxAssumption

\* The fields of a caller.
LEMMA CallFields ==
    ASSUME NEW r \in CallState
    PROVE  /\ r.pc \in {"idle", "inc", "send", "wait"} /\ r.kind \in Kinds
           /\ r.chan \in Channels \cup {NoChan} /\ r.code \in Nat /\ r.reg \in Nat
           /\ r.key \in Keys /\ r.serial \in Nat
  BY DEF CallState

\* What the steps of a call make of its record.
LEMMA CallUpdates ==
    ASSUME NEW r \in CallState, NEW k \in Keys, NEW result \in Message \cup {NoMsg}
    PROVE  /\ [r EXCEPT !.pc = "send", !.reg = 0] \in CallState
           /\ [r EXCEPT !.pc = "wait", !.key = k] \in CallState
           /\ [r EXCEPT !.expired = TRUE] \in CallState
           /\ [r EXCEPT !.pc = "idle", !.got = result, !.chan = NoChan,
                        !.code = 0, !.key = NotifyKey, !.expired = FALSE] \in CallState
<1>1. [r EXCEPT !.pc = "send", !.reg = 0] \in CallState
  BY DEF CallState
<1>2. [r EXCEPT !.pc = "wait", !.key = k] \in CallState
  BY DEF CallState
<1>3. [r EXCEPT !.expired = TRUE] \in CallState
  BY DEF CallState
<1>4. [r EXCEPT !.pc = "idle", !.got = result, !.chan = NoChan,
               !.code = 0, !.key = NotifyKey, !.expired = FALSE] \in CallState
  BY DEF CallState, Keys
<1>5. QED
  BY <1>1, <1>2, <1>3, <1>4

\* A call that returns leaves a well-formed caller, which is idle.
LEMMA ReturnType ==
    ASSUME call \in [Callers -> CallState], NEW c \in Callers,
           NEW result \in Message \cup {NoMsg}
    PROVE  /\ Return(c, result) \in [Callers -> CallState]
           /\ Return(c, result)[c].pc = "idle"
           /\ \A d \in Callers \ {c} : Return(c, result)[d] = call[d]
<1>1. [call[c] EXCEPT !.pc = "idle", !.got = result, !.chan = NoChan,
                     !.code = 0, !.key = NotifyKey, !.expired = FALSE] \in CallState
  BY CallUpdates DEF Keys
<1>2. [call[c] EXCEPT !.pc = "idle", !.got = result, !.chan = NoChan,
                     !.code = 0, !.key = NotifyKey, !.expired = FALSE].pc = "idle"
  BY DEF CallState
<1>3. QED
  BY <1>1, <1>2 DEF Return

\* A message is framed in packets.
LEMMA PacketsType ==
    ASSUME NEW m \in Message
    PROVE  Packets(m) \in Seq(Packet)
<1> DEFINE head == [msg |-> m, body |-> FALSE]
           full == [msg |-> m, body |-> TRUE]
<1>1. head \in Packet /\ full \in Packet
  BY DEF Packet
<1>2. <<full>> \in Seq(Packet) /\ <<head, full>> \in Seq(Packet)
  BY <1>1
<1>3. QED
  BY <1>2 DEF Packets

\* Reading a packet off the stream.
LEMMA StreamType ==
    ASSUME stream \in Seq(Packet), stream # <<>>
    PROVE  /\ Head(stream) \in Packet
           /\ Tail(stream) \in Seq(Packet)
           /\ PayloadLen(Head(stream)) \in Nat
<1>1. Head(stream) \in Packet /\ Tail(stream) \in Seq(Packet)
  BY HeadTailProperties
<1>2. QED
  BY <1>1 DEF Packet, Message, PayloadLen
-----------------------------------------------------------------------------
\* What TypeOK says of the callers.
CallersOK ==
    /\ call \in [Callers -> CallState]
    /\ \A c \in Callers : /\ call[c].pc = "inc" => call[c].reg < MaxId
                          /\ call[c].pc = "send" => msgID > 0

LEMMA InitType == Init => TypeOK
<1> SUFFICES ASSUME Init PROVE TypeOK
  OBVIOUS
<1> USE Bounds
<1>1. CallersOK
  BY DEF Init, CallersOK, CallState, Keys, NotifyKey, Kinds
<1>2. opened \in [Channels -> Nat] /\ results \in [Keys -> Message \cup {NoMsg}]
      /\ devChan \in [1..MaxCalls -> Channels \cup {NoChan}]
      /\ acks \in [1..MaxOwn -> Nat]
  BY DEF Init
<1>3. stream \in Seq(Packet) /\ rx \in Packet \cup {NoPacket}
  BY DEF Init
<1>4. msgID \in 0..MaxId /\ skip \in Nat /\ overs \in Nat /\ ownSent \in 0..MaxOwn
      /\ begun \in 0..MaxCalls
  BY DEF Init
<1>5. senders \subseteq Message /\ due \subseteq [id: Ids, serial: Nat]
  BY DEF Init
<1>6. QED
  BY <1>1, <1>2, <1>3, <1>4, <1>5 DEF Init, TypeOK, CallersOK

\* A step that ends a call or leaves msgID alone.
LEMMA ReturnKeeps ==
    ASSUME CallersOK, NEW c \in Callers, NEW result \in Message \cup {NoMsg},
           call' = Return(c, result), msgID' = msgID
    PROVE  CallersOK'
<1>1. /\ Return(c, result) \in [Callers -> CallState]
      /\ Return(c, result)[c].pc = "idle"
      /\ \A d \in Callers \ {c} : Return(c, result)[d] = call[d]
  BY ReturnType DEF CallersOK
<1>2. QED
  BY <1>1 DEF CallersOK

LEMMA CallerType ==
    ASSUME TypeOK, NEW c \in Callers,
           \/ \E kind \in Kinds, ch \in Channels \cup {NoChan} : Begin(c, kind, ch)
           \/ Caller(c) \/ Tick(c)
    PROVE  TypeOK'
<1> USE Bounds DEF cvars, rvars, dvars, hvars
<1>0. call[c] \in CallState
  BY DEF TypeOK
<1>c. CallersOK
  BY DEF TypeOK, CallersOK
<1>1. ASSUME NEW kind \in Kinds, NEW ch \in Channels \cup {NoChan}, Begin(c, kind, ch)
      PROVE  TypeOK'
  <2>1. [pc |-> "inc", kind |-> kind, chan |-> ch,
         code |-> IF kind = "open" THEN NextCode ELSE 0,
         reg |-> msgID, key |-> NotifyKey, serial |-> begun + 1,
         expired |-> FALSE, got |-> NoMsg] \in CallState
    BY NextCodeType DEF TypeOK, CallState, Keys
  <2>2. call' \in [Callers -> CallState]
    BY <1>1, <2>1 DEF Begin, TypeOK
  <2>3. CallersOK'
    BY <1>1, <2>2 DEF Begin, TypeOK, CallersOK
  <2>4. QED
    BY <1>1, <2>3 DEF Begin, TypeOK, CallersOK
<1>2. CASE IncStore(c)
  <2>1. msgID' \in 1..MaxId
    <3>1. call[c].reg \in Nat
      BY <1>0, CallFields
    <3>i. call[c].pc = "inc"
      BY <1>2 DEF IncStore
    <3>2. call[c].reg < MaxId
      BY <1>c, <3>i DEF CallersOK
    <3>3. QED
      BY <1>2, <3>1, <3>2 DEF IncStore
  <2>2. call' \in [Callers -> CallState]
    BY <1>0, <1>2, CallUpdates DEF IncStore, TypeOK, Keys
  <2>3. \A d \in Callers : call'[d].pc = "inc" => call'[d] = call[d]
    BY <1>0, <1>2 DEF IncStore, TypeOK, CallState
  <2>4. CallersOK'
    BY <1>2, <2>1, <2>2, <2>3 DEF IncStore, TypeOK, CallersOK
  <2>5. QED
    BY <1>2, <2>1, <2>4 DEF IncStore, TypeOK, CallersOK
<1>3. CASE Send(c)
  <2>1. msgID \in Ids
    BY <1>3 DEF Send, TypeOK, Ids
  <2>2. CallersOK'
    <3>1. CASE call' = Return(c, NoMsg)
      BY <1>c, <1>3, <3>1, ReturnKeeps DEF Send
    <3>2. CASE call' = [call EXCEPT ![c] = [@ EXCEPT !.pc = "wait",
                 !.key = IF call[c].kind = "connect" THEN NotifyKey ELSE msgID]]
      <4>1. call' \in [Callers -> CallState]
        BY <1>0, <2>1, <3>2, CallUpdates DEF TypeOK, Keys
      <4>2. \A d \in Callers : call'[d].pc \in {"inc", "send"} => call'[d] = call[d]
        BY <1>0, <3>2 DEF TypeOK, CallState
      <4>3. QED
        BY <1>3, <4>1, <4>2 DEF TypeOK, CallersOK, Send
    <3>3. QED
      BY <1>3, <3>1, <3>2 DEF Send
  <2>3. due' \subseteq [id: Ids, serial: Nat]
        /\ devChan' \in [1..MaxCalls -> Channels \cup {NoChan}]
    <3>1. call[c].chan \in Channels \cup {NoChan} /\ call[c].serial \in Nat
      BY <1>0, CallFields
    <3>2. due \subseteq [id: Ids, serial: Nat]
          /\ devChan \in [1..MaxCalls -> Channels \cup {NoChan}]
      BY DEF TypeOK
    <3>3. [devChan EXCEPT ![call[c].code] = call[c].chan]
            \in [1..MaxCalls -> Channels \cup {NoChan}]
      BY <3>1, <3>2
    <3>4. [id |-> msgID, serial |-> call[c].serial] \in [id: Ids, serial: Nat]
      BY <2>1, <3>1
    <3>5. QED
      BY <1>3, <3>2, <3>3, <3>4 DEF Send, Deliver
  <2>4. QED
    BY <1>3, <2>2, <2>3 DEF Send, TypeOK, CallersOK
<1>4. CASE Take(c)
  <2>1. results[call[c].key] \in Message
    BY <1>0, <1>4, CallFields DEF Take, TypeOK
  <2>2. CallersOK'
    BY <1>c, <1>4, <2>1, ReturnKeeps DEF Take
  <2>3. results' \in [Keys -> Message \cup {NoMsg}]
    BY <1>4 DEF Take, Removed, TypeOK
  <2>4. opened' \in [Channels -> Nat]
    BY <1>0, <1>4, CallFields DEF Take, TypeOK
  <2>5. QED
    BY <1>4, <2>2, <2>3, <2>4 DEF Take, TypeOK, CallersOK
<1>5. CASE GiveUp(c)
  <2>1. CallersOK'
    BY <1>c, <1>5, ReturnKeeps DEF GiveUp
  <2>2. QED
    BY <1>5, <2>1 DEF GiveUp, TypeOK, CallersOK
<1>6. CASE Tick(c)
  <2>1. call' = [call EXCEPT ![c] = [@ EXCEPT !.expired = TRUE]]
    BY <1>6 DEF Tick, TypeOK
  <2>2. call' \in [Callers -> CallState]
    BY <1>0, <2>1, CallUpdates DEF TypeOK, Keys
  <2>3. \A d \in Callers : call'[d].pc = call[d].pc /\ call'[d].reg = call[d].reg
    BY <1>0, <2>1 DEF TypeOK, CallState
  <2>4. CallersOK'
    BY <1>6, <2>2, <2>3 DEF Tick, TypeOK, CallersOK
  <2>5. QED
    BY <1>6, <2>4 DEF Tick, TypeOK, CallersOK
<1>7. QED
  BY <1>1, <1>2, <1>3, <1>4, <1>5, <1>6 DEF Caller

LEMMA ReceiverType ==
    ASSUME TypeOK, Receiver
    PROVE  TypeOK'
<1> USE Bounds DEF cvars, rvars, dvars, hvars
<1>1. CASE RxLoop
  BY <1>1 DEF RxLoop, TypeOK
<1>2. CASE RxHeader
  <2>1. Head(stream) \in Packet /\ stream' \in Seq(Packet)
        /\ PayloadLen(Head(stream)) \in Nat
    BY <1>2, StreamType DEF RxHeader, TypeOK
  <2>2. rpc' \in {"bump", "handle", "read", "loop"} /\ skip' \in Nat
    BY <1>2, <2>1 DEF RxHeader, TypeOK, AfterHeader
  <2>3. rx' \in Packet \cup {NoPacket}
        /\ (rpc' \in {"bump", "handle", "deliver"} => rx' \in Packet)
    BY <1>2, <2>1, <2>2 DEF RxHeader
  <2>4. disturbed' \in BOOLEAN
    BY <1>2 DEF RxHeader, TypeOK
  <2>5. QED
    BY <1>2, <2>1, <2>2, <2>3, <2>4 DEF RxHeader, TypeOK
<1>3. CASE RxBump
  <2>1. rx \in Packet /\ msgID' \in 1..MaxId
    BY <1>3 DEF RxBump, TypeOK, Packet, Message, Ids
  <2>2. rpc' \in {"handle", "read"} /\ rx' \in Packet \cup {NoPacket}
        /\ (rpc' = "handle" => rx' \in Packet)
    BY <1>3, <2>1 DEF RxBump, AfterHeader
  <2>3. CallersOK'
    BY <1>3, <2>1 DEF RxBump, TypeOK, CallersOK
  <2>4. QED
    BY <1>3, <2>1, <2>2, <2>3 DEF RxBump, TypeOK, CallersOK
<1>4. CASE RxGarbage
  <2>1. CASE skip >= 2 /\ skip' = skip - 2 /\ UNCHANGED stream
    BY <1>4, <2>1 DEF RxGarbage, TypeOK
  <2>2. CASE /\ skip = 1 /\ stream # <<>> /\ skip' = 1 + PayloadLen(Head(stream))
             /\ stream' = Tail(stream)
    <3>1. skip' \in Nat /\ stream' \in Seq(Packet)
      BY <2>2, StreamType DEF TypeOK
    <3>2. QED
      BY <1>4, <3>1 DEF RxGarbage, TypeOK
  <2>3. QED
    BY <1>4, <2>1, <2>2 DEF RxGarbage
<1>5. CASE RxHandle
  BY <1>5 DEF RxHandle, TypeOK
<1>6. CASE RxDeliver
  <2>1. rx.msg \in Message /\ (IF rx.msg.notify THEN NotifyKey ELSE rx.msg.id) \in Keys
    BY <1>6 DEF RxDeliver, TypeOK, Packet, Message, Keys
  <2>2. senders' \subseteq Message /\ results' \in [Keys -> Message \cup {NoMsg}]
    BY <1>6, <2>1 DEF RxDeliver, TypeOK
  <2>3. QED
    BY <1>6, <2>2 DEF RxDeliver, TypeOK
<1>7. CASE RxEof
  BY <1>7 DEF RxEof, TypeOK
<1>8. CASE RxOver
  BY <1>8 DEF RxOver, TypeOK
<1>9. CASE RxClosed
  BY <1>9 DEF RxClosed, TypeOK
<1>10. QED
  BY <1>1, <1>2, <1>3, <1>4, <1>5, <1>6, <1>7, <1>8, <1>9 DEF Receiver

LEMMA OtherType ==
    ASSUME TypeOK,
           \/ \E n \in 1..MaxOwn : Ack(n)
           \/ AckStop \/ CloseCancel \/ CloseConn
           \/ DevReply \/ DevSend \/ DevClose
    PROVE  TypeOK'
<1> USE Bounds DEF cvars, rvars, dvars, hvars
<1>1. ASSUME NEW n \in 1..MaxOwn, Ack(n)
      PROVE  TypeOK'
  BY <1>1 DEF Ack, TypeOK
<1>2. CASE AckStop
  BY <1>2 DEF AckStop, TypeOK
<1>3. CASE CloseCancel
  BY <1>3 DEF CloseCancel, TypeOK
<1>4. CASE CloseConn
  BY <1>4 DEF CloseConn, TypeOK
<1>5. CASE DevReply
  <2>1. PICK r \in due, s \in ReplyShapes :
          /\ due' = due \ {r}
          /\ stream' = stream \o Packets(
               [conv |-> 1, id |-> r.id, expects |-> FALSE, notify |-> FALSE,
                ok |-> s.ok, frags |-> s.frags, len |-> s.len, serial |-> r.serial])
    BY <1>5 DEF DevReply
  <2> DEFINE m == [conv |-> 1, id |-> r.id, expects |-> FALSE, notify |-> FALSE,
                   ok |-> s.ok, frags |-> s.frags, len |-> s.len, serial |-> r.serial]
  <2>2. m \in Message
    BY DtxAssumption DEF DtxAssumption, TypeOK, Message, Shape
  <2>3. Packets(m) \in Seq(Packet)
    BY <2>2, PacketsType
  <2>4. stream' \in Seq(Packet)
    BY <2>1, <2>3, ConcatProperties DEF TypeOK
  <2>5. QED
    BY <1>5, <2>1, <2>4 DEF DevReply, TypeOK
<1>6. CASE DevSend
  <2>1. PICK u \in Unsolicited :
          stream' = stream \o Packets(
               [conv |-> u.conv, id |-> u.id, expects |-> u.expects, notify |-> u.notify,
                ok |-> u.ok, frags |-> u.frags, len |-> u.len, serial |-> ownSent + 1])
    BY <1>6 DEF DevSend
  <2> DEFINE m == [conv |-> u.conv, id |-> u.id, expects |-> u.expects, notify |-> u.notify,
                   ok |-> u.ok, frags |-> u.frags, len |-> u.len, serial |-> ownSent + 1]
  <2>2. m \in Message
    BY DtxAssumption DEF DtxAssumption, TypeOK, Message, Template
  <2>3. Packets(m) \in Seq(Packet)
    BY <2>2, PacketsType
  <2>4. stream' \in Seq(Packet)
    BY <2>1, <2>3, ConcatProperties DEF TypeOK
  <2>5. QED
    BY <1>6, <2>4 DEF DevSend, TypeOK
<1>7. CASE DevClose
  BY <1>7 DEF DevClose, TypeOK
<1>8. QED
  BY <1>1, <1>2, <1>3, <1>4, <1>5, <1>6, <1>7

\* Every reachable state of the client is well formed: identifiers stay within the
\* numbering, the receiver holds a packet exactly when it works on one, and every
\* channel code and result is of the kind its reader expects.
THEOREM TypeCorrect == Spec => []TypeOK
<1>1. TypeOK /\ [Next]_vars => TypeOK'
  <2> SUFFICES ASSUME TypeOK, [Next]_vars PROVE TypeOK'
    OBVIOUS
  <2>1. CASE UNCHANGED vars
    BY <2>1 DEF vars, cvars, rvars, dvars, hvars, TypeOK
  <2>2. CASE Next
    BY <2>2, CallerType, ReceiverType, OtherType DEF Next
  <2>3. QED
    BY <2>1, <2>2
<1>2. QED
  BY <1>1, InitType, PTL DEF Spec
=============================================================================
