---------------------------- MODULE DtxOrderProofs ----------------------------
(***************************************************************************)
(* The end of the connection, the channel codes, and the way of a message  *)
(* through the client: proofs of OverIsLast, ChannelsAgree, AckOnce and    *)
(* TakenOnce, for any callers, channels and device messages.               *)
(***************************************************************************)
EXTENDS DtxClientProofs

\* The receiver enters "over" from "read", where no _over has been called yet.
Over == /\ OverIsLast
        /\ rpc = "over" => overs = 0

LEMMA OverStep == TypeOK /\ Over /\ [Next]_vars => Over'
<1> SUFFICES ASSUME TypeOK, Over, [Next]_vars PROVE Over'
  OBVIOUS
<1> USE DEF Over, OverIsLast, TypeOK, rvars, hvars
<1>1. CASE Receiver
  <2>1. CASE RxLoop
    BY <2>1 DEF RxLoop
  <2>2. CASE RxHeader
    BY <2>2 DEF RxHeader, AfterHeader
  <2>3. CASE RxBump
    BY <2>3 DEF RxBump, AfterHeader
  <2>4. CASE RxGarbage \/ RxHandle \/ RxDeliver \/ RxClosed
    BY <2>4 DEF RxGarbage, RxHandle, RxDeliver, RxClosed
  <2>5. CASE RxEof
    BY <2>5 DEF RxEof
  <2>6. CASE RxOver
    BY <2>6 DEF RxOver
  <2>7. QED
    BY <1>1, <2>1, <2>2, <2>3, <2>4, <2>5, <2>6 DEF Receiver
<1>2. CASE UNCHANGED <<rpc, overs>> /\ (cancelled => cancelled')
  BY <1>2
<1>3. QED
  BY <1>1, <1>2 DEF Next, Begin, Caller, IncStore, Send, Take, GiveUp, Tick, Ack, AckStop,
     CloseCancel, CloseConn, DevReply, DevSend, DevClose, vars

\* The _over callback is called once at most, and after it the receiver neither reads
\* a message nor runs a callback.
THEOREM OverIsLastHolds == Spec => []OverIsLast
<1>1. Init => Over
  BY DEF Init, Over, OverIsLast
<1>2. Over => OverIsLast
  BY DEF Over
<1>3. QED
  BY <1>1, <1>2, OverStep, TypeCorrect, PTL DEF Spec
-----------------------------------------------------------------------------
\* The channels MakeChannel has recorded.
Open      == {ch \in Channels : opened[ch] # 0}
Opening(c) == Busy(c) /\ call[c].kind = "open"

\* One call at a time: the one that opens a channel asks for the code after the
\* last one recorded, and the device has bound that code once it waits. A request is
\* begun for each code, so that there is a request left for the next one.
Numbered ==
    /\ \A c, d \in Callers : Busy(c) /\ Busy(d) => c = d
    /\ \A ch \in Open : opened[ch] < NextCode
    /\ NextCode <= begun + 1
    /\ \A c \in Callers : Opening(c) =>
         /\ call[c].chan \in Channels \ Open
         /\ call[c].code = NextCode /\ NextCode <= begun

Bound ==
    /\ \A ch \in Open : devChan[opened[ch]] = ch
    /\ \A c \in Callers : Opening(c) /\ call[c].pc = "wait" =>
         devChan[call[c].code] = call[c].chan

Codes == ~overlapped => Numbered /\ (~devClosed => Bound)

LEMMA OpenFinite == IsFiniteSet(Open)
  BY FS_Subset, DtxAssumption DEF DtxAssumption, Open

LEMMA NextCodeOpen == NextCode = Cardinality(Open) + 1 /\ Cardinality(Open) \in Nat
  BY OpenFinite, FS_CardinalityType DEF NextCode, Open

\* A step that records no channel.
LEMMA SameCodes ==
    ASSUME opened' = opened
    PROVE  Open' = Open /\ NextCode' = NextCode
  BY DEF Open, NextCode

\* A caller moves without starting or ending a call to open a channel.
Same(c) == /\ \A d \in Callers \ {c} : call'[d] = call[d]
           /\ call'[c].kind = call[c].kind /\ call'[c].chan = call[c].chan
           /\ call'[c].code = call[c].code
Ended(c) == /\ \A d \in Callers \ {c} : call'[d] = call[d]
            /\ ~Busy(c)'

LEMMA EndedReturn ==
    ASSUME TypeOK, NEW c \in Callers, NEW result, call' = Return(c, result)
    PROVE  Ended(c)
  BY DEF Ended, Return, TypeOK, CallState, Busy

LEMMA CallerMoves ==
    ASSUME TypeOK, NEW c \in Callers,
           NEW v \in {"inc", "wait"}, call[c].pc = v,
           \/ v = "inc" /\ call' = [call EXCEPT ![c] = [@ EXCEPT !.pc = "send", !.reg = 0]]
           \/ v = "wait" /\ call' = [call EXCEPT ![c].expired = TRUE]
    PROVE  /\ Same(c) /\ Busy(c) /\ Busy(c)'
           /\ (call'[c].pc = "wait" => call[c].pc = "wait")
<1>1. call[c] \in CallState /\ call \in [Callers -> CallState]
  BY DEF TypeOK
<1>2. CASE v = "inc"
  BY <1>1, <1>2 DEF Same, Busy, CallState
<1>3. CASE v = "wait"
  BY <1>1, <1>3 DEF Same, Busy, CallState
<1>4. QED
  BY <1>2, <1>3

\* Steps that leave the recorded channels and the device's alone.
LEMMA CodesKept ==
    ASSUME Codes, opened' = opened, devChan' = devChan, begun' = begun,
           overlapped' = overlapped, devClosed => devClosed',
           devClosed \in BOOLEAN, devClosed' \in BOOLEAN,
           \/ call' = call
           \/ \E c \in Callers : Ended(c)
           \/ \E c \in Callers : /\ Same(c) /\ Busy(c) /\ Busy(c)'
                                 /\ (call'[c].pc = "wait" => call[c].pc = "wait" \/ devClosed)
    PROVE  Codes'
<1> SUFFICES ASSUME ~overlapped PROVE Numbered' /\ (~devClosed' => Bound')
  BY DEF Codes
<1>1. Open' = Open /\ NextCode' = NextCode
  BY SameCodes
<1>2. Numbered /\ (~devClosed => Bound)
  BY DEF Codes
<1>3. \A d \in Callers : /\ Busy(d)' => Busy(d)
                         /\ Opening(d)' => /\ Opening(d) /\ call'[d].chan = call[d].chan
                                           /\ call'[d].code = call[d].code
                                           /\ (call'[d].pc = "wait" =>
                                                 call[d].pc = "wait" \/ devClosed)
  <2>1. CASE call' = call
    BY <2>1 DEF Busy, Opening
  <2>2. ASSUME NEW c \in Callers, Ended(c), NEW d \in Callers
        PROVE  Busy(d)' => call'[d] = call[d]
    BY <2>2 DEF Busy, Ended
  <2>3. ASSUME NEW c \in Callers, Same(c), Busy(c), Busy(c)',
               call'[c].pc = "wait" => call[c].pc = "wait" \/ devClosed, NEW d \in Callers
        PROVE  \/ call'[d] = call[d]
               \/ /\ Busy(d) /\ call'[d].kind = call[d].kind
                  /\ call'[d].chan = call[d].chan /\ call'[d].code = call[d].code
                  /\ (call'[d].pc = "wait" => call[d].pc = "wait" \/ devClosed)
    BY <2>3 DEF Same
  <2>4. QED
    BY <2>1, <2>2, <2>3 DEF Busy, Opening
<1>4. Numbered'
  BY <1>1, <1>2, <1>3 DEF Numbered, Open
<1>5. ~devClosed' => Bound'
  BY <1>1, <1>2, <1>3 DEF Bound, Open
<1>6. QED
  BY <1>4, <1>5

LEMMA BeginCodes ==
    ASSUME TypeOK, Codes, NEW c \in Callers, NEW kind \in Kinds,
           NEW ch \in Channels \cup {NoChan}, Begin(c, kind, ch)
    PROVE  Codes'
<1> SUFFICES ASSUME ~overlapped' PROVE Numbered' /\ (~devClosed' => Bound')
  BY DEF Codes
<1>1. ~overlapped /\ ~SomeBusy /\ devClosed' = devClosed /\ devChan' = devChan
      /\ opened' = opened /\ begun' = begun + 1 /\ begun \in Nat
  <2>1. ~overlapped /\ ~SomeBusy
    BY DEF Begin
  <2>2. QED
    BY <2>1, Bounds DEF Begin, cvars, dvars, TypeOK
<1>2. Open' = Open /\ NextCode' = NextCode /\ NextCode \in Nat
  BY <1>1, SameCodes, NextCodeType
<1>3. Numbered /\ (~devClosed => Bound)
  BY <1>1 DEF Codes
<1>4. /\ \A d \in Callers \ {c} : ~Busy(d)'
      /\ call'[c].pc = "inc" /\ call'[c].kind = kind /\ call'[c].chan = ch
      /\ (kind = "open" => /\ call'[c].code = NextCode
                           /\ ch \in Channels /\ opened[ch] = 0)
  BY <1>1 DEF Begin, TypeOK, SomeBusy, Busy
<1>5. Numbered'
  BY <1>1, <1>2, <1>3, <1>4 DEF Numbered, Opening, Open
<1>6. Bound' <=> Bound
  BY <1>1, <1>2, <1>4 DEF Bound, Opening, Open, SomeBusy
<1>7. QED
  BY <1>1, <1>3, <1>5, <1>6

\* A request the device receives binds the code after those recorded.
LEMMA DeliverCodes ==
    ASSUME TypeOK, Codes, NEW c \in Callers, Send(c), ~devClosed, Deliver(c, msgID),
           Same(c), Busy(c)', ~overlapped
    PROVE  Numbered' /\ Bound'
<1>1. Numbered /\ Bound /\ opened' = opened /\ begun' = begun /\ begun \in 0..MaxCalls
      /\ devChan \in [1..MaxCalls -> Channels \cup {NoChan}]
  BY DEF Codes, Send, cvars, TypeOK
<1>2. Open' = Open /\ NextCode' = NextCode /\ NextCode \in Nat /\ NextCode >= 1
  BY <1>1, SameCodes, NextCodeOpen
<1>3. Busy(c)
  BY DEF Send, Busy
<1>4. \A d \in Callers : /\ Busy(d)' <=> d = c
                         /\ Opening(d)' => /\ d = c /\ Opening(c)
                                           /\ call'[d].chan = call[d].chan
                                           /\ call'[d].code = call[d].code
  BY <1>1, <1>3 DEF Same, Opening, Numbered, Busy
<1>5. Numbered'
  BY <1>1, <1>2, <1>4 DEF Numbered, Open
<1>6. CASE call[c].kind = "open"
  <2>1. Opening(c) /\ call[c].code = NextCode /\ NextCode \in 1..MaxCalls
    BY <1>1, <1>2, <1>3, <1>6, Bounds DEF Numbered, Opening
  <2>2. devChan' = [devChan EXCEPT ![NextCode] = call[c].chan]
    BY <1>6, <2>1 DEF Deliver
  <2>3. devChan'[NextCode] = call[c].chan
    BY <1>1, <2>1, <2>2
  <2>4. \A ch \in Open : devChan'[opened[ch]] = devChan[opened[ch]]
    <3>1. ASSUME NEW ch \in Open PROVE devChan'[opened[ch]] = devChan[opened[ch]]
      <4>1. opened[ch] # NextCode /\ opened[ch] \in 1..MaxCalls
        BY <1>1, <1>2, <2>1, <3>1, Bounds DEF Numbered, Open, TypeOK
      <4>2. QED
        BY <1>1, <2>2, <4>1
    <3>2. QED
      BY <3>1
  <2>5. QED
    BY <1>1, <1>2, <1>4, <1>5, <2>1, <2>3, <2>4 DEF Bound
<1>7. CASE call[c].kind # "open"
  BY <1>1, <1>2, <1>4, <1>5, <1>7 DEF Deliver, Bound, Opening
<1>8. QED
  BY <1>6, <1>7

LEMMA SendCodes ==
    ASSUME TypeOK, Codes, NEW c \in Callers, Send(c)
    PROVE  Codes'
<1>1. /\ opened' = opened /\ begun' = begun /\ devClosed' = devClosed
      /\ overlapped' = overlapped /\ devClosed \in BOOLEAN /\ Busy(c)
  BY DEF Send, cvars, hvars, TypeOK, Busy
<1>2. ASSUME NEW k, call' = [call EXCEPT ![c] = [@ EXCEPT !.pc = "wait", !.key = k]]
      PROVE  Same(c) /\ Busy(c)'
  BY <1>2 DEF TypeOK, CallState, Same, Busy
<1>3. CASE devChan' = devChan /\ call' = Return(c, NoMsg)
  BY <1>1, <1>3, EndedReturn, CodesKept
<1>4. CASE ~devClosed /\ Deliver(c, msgID) /\ Same(c) /\ Busy(c)'
  BY <1>1, <1>4, DeliverCodes DEF Codes
<1>5. CASE devClosed /\ devChan' = devChan /\ Same(c) /\ Busy(c)'
  BY <1>1, <1>5, CodesKept
<1>6. QED
  <2>1. CASE call' = Return(c, NoMsg)
    <3>1. ~Busy(c)'
      BY <2>1, EndedReturn DEF Ended
    <3>2. devChan' = devChan
      BY <1>2, <3>1 DEF Send, Deliver
    <3>3. QED
      BY <1>3, <2>1, <3>2
  <2>2. CASE call' # Return(c, NoMsg)
    <3>1. Same(c) /\ Busy(c)'
      BY <1>2, <2>2 DEF Send
    <3>2. QED
      BY <1>4, <1>5, <2>2, <3>1 DEF Send
  <2>3. QED
    BY <2>1, <2>2

\* MakeChannel records the channel, under the code the device has bound to it.
LEMMA TakeCodes ==
    ASSUME TypeOK, Codes, NEW c \in Callers, Take(c)
    PROVE  Codes'
<1> SUFFICES ASSUME ~overlapped PROVE Numbered' /\ (~devClosed' => Bound')
  BY DEF Codes, Take, hvars
<1>1. /\ devChan' = devChan /\ begun' = begun /\ devClosed' = devClosed
      /\ Busy(c) /\ begun \in Nat /\ devClosed \in BOOLEAN /\ overlapped' = overlapped
  BY Bounds DEF Take, dvars, hvars, TypeOK, Busy
<1>2. Ended(c) /\ Numbered /\ (~devClosed => Bound)
  BY EndedReturn DEF Take, Codes
<1>3. CASE call[c].kind # "open"
  <2>1. opened' = opened
    BY <1>3 DEF Take
  <2>2. QED
    BY <1>1, <1>2, <2>1, CodesKept DEF Codes
<1>4. CASE call[c].kind = "open"
  <2> DEFINE name == call[c].chan
  <2>1. /\ opened' = [opened EXCEPT ![name] = call[c].code]
        /\ name \in Channels \ Open /\ call[c].code = NextCode /\ NextCode <= begun
    BY <1>1, <1>2, <1>4 DEF Take, Numbered, Opening
  <2>2. NextCode \in Nat /\ NextCode >= 1
    BY NextCodeOpen
  <2>3. /\ opened'[name] = NextCode
        /\ \A ch \in Channels : ch # name => opened'[ch] = opened[ch]
    BY <2>1 DEF TypeOK
  <2>4. Open' = Open \cup {name}
    BY <2>1, <2>2, <2>3 DEF Open
  <2>5. NextCode' = NextCode + 1
    <3>1. Cardinality(Open \cup {name}) = Cardinality(Open) + 1
      BY <2>1, OpenFinite, FS_AddElement
    <3>2. NextCode' = Cardinality(Open') + 1
      BY DEF NextCode, Open
    <3>3. QED
      BY <2>4, <3>1, <3>2, NextCodeOpen
  <2>6. \A d \in Callers : ~Busy(d)'
    BY <1>1, <1>2 DEF Ended, Busy, Numbered
  <2>7. \A ch \in Open' : opened'[ch] < NextCode'
    BY <1>2, <2>1, <2>2, <2>3, <2>4, <2>5 DEF Numbered, Open, TypeOK
  <2>8. Numbered'
    BY <1>1, <2>1, <2>2, <2>5, <2>6, <2>7 DEF Numbered, Opening
  <2>9. ~devClosed => Bound'
    <3>1. ~devClosed => devChan[NextCode] = name
      BY <1>1, <1>2, <1>4, <2>1 DEF Bound, Opening, Take
    <3>2. QED
      BY <1>1, <1>2, <2>1, <2>3, <2>4, <2>6, <3>1 DEF Bound, Opening, Open
  <2>10. QED
    BY <1>1, <2>8, <2>9
<1>5. QED
  BY <1>3, <1>4

LEMMA CodesStep == TypeOK /\ Codes /\ [Next]_vars => Codes'
<1> SUFFICES ASSUME TypeOK, Codes, [Next]_vars PROVE Codes'
  OBVIOUS
<1> USE DEF cvars, rvars, dvars, hvars
<1>1. devClosed \in BOOLEAN
  BY DEF TypeOK
<1>2. ASSUME NEW c \in Callers, NEW kind \in Kinds, NEW ch \in Channels \cup {NoChan},
             Begin(c, kind, ch)
      PROVE  Codes'
  BY <1>2, BeginCodes
<1>3. ASSUME NEW c \in Callers, IncStore(c) PROVE Codes'
  BY <1>1, <1>3, CallerMoves, CodesKept DEF IncStore
<1>4. ASSUME NEW c \in Callers, Tick(c) PROVE Codes'
  BY <1>1, <1>4, CallerMoves, CodesKept DEF Tick
<1>5. ASSUME NEW c \in Callers, GiveUp(c) PROVE Codes'
  BY <1>1, <1>5, EndedReturn, CodesKept DEF GiveUp
<1>6. ASSUME NEW c \in Callers, Send(c) \/ Take(c) PROVE Codes'
  BY <1>6, SendCodes, TakeCodes
<1>7. CASE UNCHANGED <<opened, call, devChan, begun, overlapped>> /\ devClosed' \in BOOLEAN
           /\ (devClosed => devClosed')
  BY <1>1, <1>7, CodesKept
<1>8. CASE Receiver \/ UNCHANGED vars
  BY <1>1, <1>7, <1>8 DEF Receiver, RxLoop, RxHeader, RxBump, RxGarbage, RxHandle,
     RxDeliver, RxEof, RxOver, RxClosed, vars
<1>9. ASSUME NEW n \in 1..MaxOwn, Ack(n) PROVE Codes'
  BY <1>1, <1>7, <1>9 DEF Ack
<1>10. CASE AckStop \/ CloseCancel \/ CloseConn \/ DevReply \/ DevSend \/ DevClose
  BY <1>1, <1>7, <1>10 DEF AckStop, CloseCancel, CloseConn, DevReply, DevSend, DevClose
<1>11. QED
  BY <1>2, <1>3, <1>4, <1>5, <1>6, <1>8, <1>9, <1>10 DEF Next, Caller

\* A channel code MakeChannel has handed out means the same channel to a connected
\* device, though a failed request leaves its code to be asked for again.
THEOREM ChannelsAgreeHolds == Spec => []ChannelsAgree
<1>1. Init => Codes
  <2> SUFFICES ASSUME Init PROVE Numbered /\ Bound
    BY DEF Codes
  <2>1. Open = {} /\ (\A c \in Callers : ~Busy(c)) /\ begun = 0
    BY DEF Init, Open, Busy
  <2>2. NextCode = 1
    BY <2>1, NextCodeOpen, FS_EmptySet
  <2>3. QED
    BY <2>1, <2>2 DEF Numbered, Bound, Opening
<1>2. Codes => ChannelsAgree
  BY DEF Codes, Bound, ChannelsAgree, Open
<1>3. QED
  BY <1>1, <1>2, CodesStep, TypeCorrect, PTL DEF Spec
-----------------------------------------------------------------------------
\* Messages are told apart by who began the exchange and by its serial number.
Own(n)    == <<"own", n>>
Answer(n) == <<"answer", n>>
Name(m)   == IF m.conv = 1 THEN Answer(m.serial) ELSE Own(m.serial)

\* Where a message is on its way through the client. It is in the stream once, with its
\* payload.
Bodies   == {i \in DOMAIN stream : stream[i].body}
InStream == {Name(stream[i].msg) : i \in Bodies}
InHand   == IF rx.body THEN {Name(rx.msg)} ELSE {}
InMap    == {Name(results[k]) : k \in {j \in Keys : results[j] # NoMsg}}
Returned == {Name(call[c].got) : c \in {d \in Callers : call[d].got # NoMsg}}
Waiting  == {Name(m) : m \in senders}
Acked    == {Own(n) : n \in {k \in 1..MaxOwn : acks[k] # 0}}
Handled  == InMap \cup Returned \cup Waiting \cup Acked

\* A request that is not written yet, or not answered yet.
Unsent == {c \in Callers : call[c].pc \in {"inc", "send"}}
Pending(n) == \/ n > begun
              \/ \E c \in Unsent : call[c].serial = n
              \/ \E r \in due : r.serial = n
Coming == {Answer(n) : n \in {k \in Nat : Pending(k)}} \cup
          {Own(n) : n \in {k \in Nat : k > ownSent}}

\* One request for each serial number.
OneRequest ==
    /\ \A c \in Unsent : call[c].serial <= begun
    /\ \A r \in due : r.serial <= begun
    /\ \A c, d \in Unsent : call[c].serial = call[d].serial => c = d
    /\ \A r, q \in due : r.serial = q.serial => r = q
    /\ \A c \in Unsent, r \in due : call[c].serial # r.serial

\* A message moves from one place to the next and is in no other.
Moving == /\ \A i, j \in Bodies : Name(stream[i].msg) = Name(stream[j].msg) => i = j
          /\ Coming \cap (InStream \cup InHand \cup Handled) = {}
          /\ InStream \cap (InHand \cup Handled) = {}
          /\ InHand \cap Handled = {}

\* What has been handled: in the map under one key or returned to one caller; in the hands
\* of one goroutine or acknowledged once.
Kept == /\ \A k, l \in Keys : results[k] # NoMsg /\ results[l] # NoMsg
                              /\ Name(results[k]) = Name(results[l]) => k = l
        /\ \A c, d \in Callers : call[c].got # NoMsg /\ call[d].got # NoMsg
                                 /\ Name(call[c].got) = Name(call[d].got) => c = d
        /\ InMap \cap Returned = {}
        /\ \A m, n \in senders : Name(m) = Name(n) => m = n
        /\ Waiting \cap Acked = {} /\ \A n \in 1..MaxOwn : acks[n] <= 1

\* Only the device's own messages ask for a reply, and only those wait for one.
Asking == /\ \A i \in DOMAIN stream : stream[i].msg.expects => stream[i].msg.conv # 1
          /\ rx.body /\ rx.msg.expects => rx.msg.conv # 1
          /\ \A m \in senders : m.expects /\ m.conv # 1
          /\ rpc \in {"handle", "deliver"} => rx.body

Once == OneRequest /\ Moving /\ Kept /\ Asking

\* Serial numbers tell the answers and the device's own messages apart.
LEMMA Names ==
    /\ \A n, k : Answer(n) # Own(k) /\ (Answer(n) = Answer(k) => n = k)
                 /\ (Own(n) = Own(k) => n = k)
    /\ \A m : Name(m) = IF m.conv = 1 THEN Answer(m.serial) ELSE Own(m.serial)
  BY DEF Answer, Own, Name

\* What the types say, for short.
LEMMA MessageTypes ==
    ASSUME TypeOK
    PROVE  /\ stream \in Seq(Packet) /\ DOMAIN stream = 1..Len(stream) /\ Len(stream) \in Nat
           /\ \A i \in DOMAIN stream : stream[i] \in Packet /\ stream[i].msg \in Message
           /\ rx.body => rx.msg \in Message
           /\ \A k \in Keys : results[k] \in Message \cup {NoMsg}
           /\ senders \subseteq Message
           /\ acks \in [1..MaxOwn -> Nat] /\ begun \in Nat /\ ownSent \in Nat
<1>1. stream \in Seq(Packet) /\ DOMAIN stream = 1..Len(stream) /\ Len(stream) \in Nat
  BY DEF TypeOK
<1>2. \A i \in DOMAIN stream : stream[i] \in Packet
  BY <1>1
<1>3. \A p \in Packet : p.msg \in Message
  BY DEF Packet
<1>4. rx.body => rx.msg \in Message
  <2>1. CASE rx \in Packet
    BY <2>1, <1>3
  <2>2. CASE rx = NoPacket
    BY <2>2 DEF NoPacket
  <2>3. QED
    BY <2>1, <2>2 DEF TypeOK
<1>5. /\ \A k \in Keys : results[k] \in Message \cup {NoMsg}
      /\ senders \subseteq Message
      /\ acks \in [1..MaxOwn -> Nat] /\ begun \in Nat /\ ownSent \in Nat
  BY Bounds DEF TypeOK
<1>6. QED
  BY <1>1, <1>2, <1>3, <1>4, <1>5

\* Reading a packet: the other messages keep their order.
LEMMA TailBodies ==
    ASSUME TypeOK, Moving, stream # <<>>, stream' = Tail(stream)
    PROVE  /\ InStream' \subseteq InStream
           /\ \A i, j \in Bodies' : Name(stream'[i].msg) = Name(stream'[j].msg) => i = j
           /\ Head(stream).body => /\ Name(Head(stream).msg) \in InStream
                                   /\ Name(Head(stream).msg) \notin InStream'
           /\ \A i \in DOMAIN stream' : \E j \in DOMAIN stream : stream'[i] = stream[j]
           /\ \E j \in DOMAIN stream : Head(stream) = stream[j]
<1>1. /\ stream \in Seq(Packet) /\ DOMAIN stream = 1..Len(stream) /\ Len(stream) \in Nat
  BY MessageTypes
<1>2. /\ DOMAIN stream' = 1..Len(stream) - 1 /\ Head(stream) = stream[1] /\ 1 \in DOMAIN stream
      /\ \A i \in DOMAIN stream' : i + 1 \in DOMAIN stream /\ stream'[i] = stream[i + 1]
                                   /\ i \in Nat /\ i + 1 # 1
  BY <1>1
<1>3. \A i \in Bodies' : i + 1 \in Bodies /\ stream'[i] = stream[i + 1] /\ i \in Nat
                         /\ i + 1 # 1
  BY <1>2 DEF Bodies
<1>4. \A i, j \in Bodies : Name(stream[i].msg) = Name(stream[j].msg) => i = j
  BY DEF Moving
<1>5. InStream' \subseteq InStream
  BY <1>3 DEF InStream
<1>6. ASSUME NEW i \in Bodies', NEW j \in Bodies', Name(stream'[i].msg) = Name(stream'[j].msg)
      PROVE  i = j
  <2>1. i + 1 = j + 1
    BY <1>3, <1>4, <1>6
  <2>2. QED
    BY <2>1, <1>3
<1>7. ASSUME Head(stream).body
      PROVE  Name(Head(stream).msg) \in InStream /\ Name(Head(stream).msg) \notin InStream'
  <2>1. 1 \in Bodies
    BY <1>2, <1>7 DEF Bodies
  <2>2. \A i \in Bodies' : Name(stream'[i].msg) # Name(stream[1].msg)
    <3> TAKE i \in Bodies'
    <3>1. i + 1 \in Bodies /\ stream'[i] = stream[i + 1] /\ i + 1 # 1
      BY <1>3
    <3>2. QED
      BY <3>1, <1>4, <2>1
  <2>3. QED
    BY <1>2, <2>1, <2>2 DEF InStream
<1>8. QED
  BY <1>2, <1>5, <1>6, <1>7

\* A message sent: it is in the stream, once.
LEMMA SentBodies ==
    ASSUME TypeOK, Moving, NEW m \in Message, stream' = stream \o Packets(m),
           Name(m) \notin InStream
    PROVE  /\ InStream' = InStream \cup {Name(m)}
           /\ \A i, j \in Bodies' : Name(stream'[i].msg) = Name(stream'[j].msg) => i = j
           /\ \A i \in DOMAIN stream' :
                 stream'[i].msg = m \/ \E j \in DOMAIN stream : stream'[i] = stream[j]
<1> DEFINE n == Len(stream)
           p == Len(Packets(m))
<1>1. /\ stream \in Seq(Packet) /\ DOMAIN stream = 1..n /\ n \in Nat
  BY MessageTypes
<1>2. /\ Packets(m) \in Seq(Packet) /\ p \in {1, 2}
      /\ \A i \in 1..p : Packets(m)[i].msg = m /\ (Packets(m)[i].body <=> i = p)
  <2>1. CASE m.frags = 1
    <3> DEFINE full == [msg |-> m, body |-> TRUE]
    <3>1. Packets(m) = <<full>> /\ full.msg = m /\ full.body
      BY <2>1 DEF Packets
    <3>2. Packets(m) \in Seq(Packet)
      BY PacketsType
    <3> HIDE DEF full
    <3>3. p = 1 /\ Packets(m)[1] = full
      BY <3>1
    <3>4. QED
      BY <3>1, <3>2, <3>3
  <2>2. CASE m.frags # 1
    BY <2>2, PacketsType DEF Packets
  <2>3. QED
    BY <2>1, <2>2
<1> HIDE DEF n, p
<1>3. /\ DOMAIN stream' = 1..n + p
      /\ \A i \in 1..n : stream'[i] = stream[i]
      /\ \A i \in 1..p : stream'[n + i] = Packets(m)[i]
  <2>1. /\ stream' \in Seq(Packet) /\ Len(stream') = n + p
        /\ \A i \in 1..n + p : stream'[i] =
               IF i <= n THEN stream[i] ELSE Packets(m)[i - n]
    BY <1>1, <1>2, ConcatProperties DEF n, p
  <2>2. \A i \in 1..n : i \in 1..n + p /\ i <= n
    BY <1>1, <1>2
  <2>3. \A i \in 1..p : n + i \in 1..n + p /\ ~(n + i <= n) /\ (n + i) - n = i
    BY <1>1, <1>2
  <2>4. DOMAIN stream' = 1..n + p
    BY <2>1
  <2>5. QED
    BY <2>1, <2>2, <2>3, <2>4
<1>4. \A i \in 1..n + p : i \in 1..n \/ \E k \in 1..p : i = n + k
  <2> TAKE i \in 1..n + p
  <2>1. CASE i <= n
    BY <2>1, <1>1, <1>2
  <2>2. CASE ~(i <= n)
    <3>1. i - n \in 1..p /\ i = n + (i - n)
      BY <2>2, <1>1, <1>2
    <3>2. QED
      BY <3>1
  <2>3. QED
    BY <2>1, <2>2
<1>5. \A i : i \in Bodies' <=> i \in Bodies \/ i = n + p
  <2>1. \A i \in 1..n : i # n + p /\ i \in 1..n + p
    BY <1>1, <1>2
  <2>2. p \in 1..p /\ n + p \in 1..n + p /\ n + p \notin 1..n
    BY <1>1, <1>2
  <2>3. \A k \in 1..p : k # p => n + k # n + p
    BY <1>1, <1>2
  <2>4. \A k \in 1..p : stream'[n + k].body <=> k = p
    BY <1>2, <1>3
  <2>5. QED
    BY <1>1, <1>3, <1>4, <2>1, <2>2, <2>3, <2>4 DEF Bodies
<1>6. stream'[n + p].msg = m /\ n + p \notin Bodies
  <2>1. p \in 1..p /\ n + p \notin 1..n
    BY <1>1, <1>2
  <2>2. QED
    BY <2>1, <1>1, <1>2, <1>3 DEF Bodies
<1>7. \A i \in Bodies : stream'[i] = stream[i]
  BY <1>1, <1>3 DEF Bodies
<1>8. InStream' = InStream \cup {Name(m)}
  BY <1>5, <1>6, <1>7 DEF InStream
<1>9. \A i, j \in Bodies' : Name(stream'[i].msg) = Name(stream'[j].msg) => i = j
  <2>1. \A i, j \in Bodies : Name(stream[i].msg) = Name(stream[j].msg) => i = j
    BY DEF Moving
  <2>2. \A i \in Bodies : Name(stream[i].msg) # Name(m)
    BY DEF InStream
  <2>3. QED
    BY <1>5, <1>6, <1>7, <2>1, <2>2
<1>10. \A i \in DOMAIN stream' :
          stream'[i].msg = m \/ \E j \in DOMAIN stream : stream'[i] = stream[j]
  BY <1>1, <1>2, <1>3, <1>4
<1>11. QED
  BY <1>8, <1>9, <1>10
\* Nothing enters a place: what was apart stays apart.
LEMMA StaysApart ==
    ASSUME Moving, Coming' \subseteq Coming, InStream' \subseteq InStream,
           InHand' \subseteq InHand, Handled' \subseteq Handled,
           \A i, j \in Bodies' : Name(stream'[i].msg) = Name(stream'[j].msg) => i = j
    PROVE  Moving'
  BY Zenon DEF Moving

\* A step of a caller leaves the device's side and the receiver's as they are.
LEMMA CallerFrame ==
    ASSUME UNCHANGED <<stream, rx, rpc, senders, acks, ownSent>>
    PROVE  /\ Bodies' = Bodies /\ InStream' = InStream /\ InHand' = InHand
           /\ Waiting' = Waiting /\ Acked' = Acked
           /\ Asking => Asking'
  BY DEF Bodies, InStream, InHand, Waiting, Acked, Asking

LEMMA FewerComing ==
    ASSUME ownSent' = ownSent, \A n \in Nat : Pending(n)' => Pending(n)
    PROVE  Coming' \subseteq Coming
  BY DEF Coming

\* A step of one caller that takes no result.
LEMMA CallerOnce ==
    ASSUME Once, UNCHANGED <<stream, rx, rpc, senders, acks, ownSent, results>>,
           OneRequest', \A n \in Nat : Pending(n)' => Pending(n),
           \A d \in Callers : call'[d].got \in {call[d].got, NoMsg}
    PROVE  Once'
<1>1. /\ Bodies' = Bodies /\ InStream' = InStream /\ InHand' = InHand
      /\ Waiting' = Waiting /\ Acked' = Acked /\ Asking'
  BY CallerFrame DEF Once
<1>2. InMap' = InMap
  BY DEF InMap
<1>3. Returned' \subseteq Returned
  BY DEF Returned
<1>4. Handled' \subseteq Handled
  BY <1>1, <1>2, <1>3 DEF Handled
<1>5. Coming' \subseteq Coming
  BY FewerComing
<1>6. Moving'
  <2>1. \A i, j \in Bodies' : Name(stream'[i].msg) = Name(stream'[j].msg) => i = j
    BY <1>1 DEF Once, Moving
  <2>2. Moving
    BY DEF Once
  <2>3. QED
    BY <1>1, <1>4, <1>5, <2>1, <2>2, StaysApart
<1>7. Kept'
  <2>1. InMap' \cap Returned' = {}
    BY <1>2, <1>3 DEF Once, Kept
  <2>2. \A c, d \in Callers : call'[c].got # NoMsg /\ call'[d].got # NoMsg
            /\ Name(call'[c].got) = Name(call'[d].got) => c = d
    BY DEF Once, Kept
  <2>3. QED
    BY <1>1, <2>1, <2>2 DEF Once, Kept
<1>8. QED
  BY <1>1, <1>6, <1>7 DEF Once

LEMMA BeginOnce ==
    ASSUME TypeOK, Once, NEW c \in Callers, NEW kind \in Kinds,
           NEW ch \in Channels \cup {NoChan}, Begin(c, kind, ch)
    PROVE  Once'
<1>1. /\ call \in [Callers -> CallState] /\ begun \in Nat /\ begun' = begun + 1
      /\ call[c].pc = "idle" /\ due' = due
      /\ UNCHANGED <<stream, rx, rpc, senders, acks, ownSent, results>>
  BY MessageTypes DEF TypeOK, Begin, Busy, cvars, rvars, dvars
<1>2. /\ call'[c].pc = "inc" /\ call'[c].serial = begun + 1 /\ call'[c].got = NoMsg
      /\ \A d \in Callers \ {c} : call'[d] = call[d]
  BY <1>1 DEF Begin
<1>3. Unsent' = Unsent \cup {c} /\ c \notin Unsent
  BY <1>1, <1>2 DEF Unsent
<1>4. \A d \in Unsent : call'[d] = call[d]
  BY <1>2, <1>3 DEF Unsent
<1>5. /\ \A d \in Unsent : call[d].serial \in Nat /\ call[d].serial <= begun
      /\ \A r \in due : r.serial \in Nat /\ r.serial <= begun
  BY <1>1, CallFields DEF Unsent, Once, OneRequest, TypeOK
<1>6. OneRequest'
  <2>1. \A d \in Unsent' : call'[d].serial <= begun'
    BY <1>1, <1>2, <1>3, <1>4, <1>5
  <2>2. \A r \in due' : r.serial <= begun'
    BY <1>1, <1>5
  <2>3. \A d, e \in Unsent' : call'[d].serial = call'[e].serial => d = e
    BY <1>1, <1>2, <1>3, <1>4, <1>5 DEF Once, OneRequest
  <2>4. \A d \in Unsent', r \in due' : call'[d].serial # r.serial
    BY <1>1, <1>2, <1>3, <1>4, <1>5 DEF Once, OneRequest
  <2>5. QED
    BY <1>1, <2>1, <2>2, <2>3, <2>4 DEF Once, OneRequest
<1>7. \A n \in Nat : Pending(n)' => Pending(n)
  <2> SUFFICES ASSUME NEW n \in Nat, Pending(n)' PROVE Pending(n)
    OBVIOUS
  <2>1. CASE n > begun + 1
    BY <2>1, <1>1 DEF Pending
  <2>2. ASSUME NEW d \in Unsent', call'[d].serial = n PROVE Pending(n)
    BY <2>2, <1>1, <1>2, <1>3, <1>4 DEF Pending
  <2>3. ASSUME NEW r \in due, r.serial = n PROVE Pending(n)
    BY <2>3 DEF Pending
  <2>4. QED
    BY <2>1, <2>2, <2>3, <1>1 DEF Pending
<1>8. \A d \in Callers : call'[d].got \in {call[d].got, NoMsg}
  BY <1>2
<1>9. QED
  BY <1>1, <1>6, <1>7, <1>8, CallerOnce

\* A caller moves on, and no request becomes one that is pending.
LEMMA MovesOnce ==
    ASSUME TypeOK, Once, NEW c \in Callers,
           UNCHANGED <<stream, rx, rpc, senders, acks, ownSent, results, begun>>,
           \A d \in Callers \ {c} : call'[d] = call[d],
           call'[c].got \in {call[c].got, NoMsg}, call'[c].serial = call[c].serial,
           c \in Unsent' => c \in Unsent,
           \/ due' = due
           \/ c \in Unsent /\ c \notin Unsent'
              /\ \E i \in Ids : due' = due \cup {[id |-> i, serial |-> call[c].serial]}
    PROVE  Once'
<1>1. \A d \in Unsent' : d \in Unsent /\ call'[d].serial = call[d].serial
  BY DEF Unsent
<1>2. \A d \in Callers : call'[d].got \in {call[d].got, NoMsg}
  OBVIOUS
<1>3. OneRequest' /\ \A n \in Nat : Pending(n)' => Pending(n)
  <2>1. CASE due' = due
    <3>1. OneRequest'
      BY <1>1, <2>1 DEF Once, OneRequest
    <3>2. \A n \in Nat : Pending(n)' => Pending(n)
      BY <1>1, <2>1 DEF Pending
    <3>3. QED
      BY <3>1, <3>2
  <2>2. ASSUME c \in Unsent, c \notin Unsent', NEW i \in Ids,
               due' = due \cup {[id |-> i, serial |-> call[c].serial]}
        PROVE  OneRequest' /\ \A n \in Nat : Pending(n)' => Pending(n)
    <3> DEFINE q == [id |-> i, serial |-> call[c].serial]
    <3>1. q.serial = call[c].serial /\ due' = due \cup {q}
      BY <2>2
    <3> HIDE DEF q
    <3>2. OneRequest'
      <4>1. \A d \in Unsent' : d # c /\ d \in Unsent /\ call'[d].serial = call[d].serial
        BY <1>1, <2>2
      <4>2. \A r \in due : r.serial # q.serial
        BY <2>2, <3>1 DEF Once, OneRequest
      <4>3. \A r \in due' : r.serial <= begun
        BY <2>2, <3>1 DEF Once, OneRequest
      <4>4. \A r, s \in due' : r.serial = s.serial => r = s
        BY <3>1, <4>2 DEF Once, OneRequest
      <4>5. \A d \in Unsent', r \in due' : call'[d].serial # r.serial
        BY <2>2, <3>1, <4>1 DEF Once, OneRequest
      <4>6. QED
        BY <4>1, <4>3, <4>4, <4>5 DEF Once, OneRequest
    <3>3. \A n \in Nat : Pending(n)' => Pending(n)
      BY <1>1, <2>2, <3>1 DEF Pending
    <3>4. QED
      BY <3>2, <3>3
  <2>3. QED
    BY <2>1, <2>2
<1>4. QED
  BY <1>2, <1>3, CallerOnce

LEMMA ReturnFields ==
    ASSUME TypeOK, NEW c \in Callers, NEW result, call' = Return(c, result)
    PROVE  /\ \A d \in Callers \ {c} : call'[d] = call[d]
           /\ call'[c].got = result /\ call'[c].serial = call[c].serial
           /\ call'[c].pc = "idle" /\ c \notin Unsent'
  BY DEF Return, TypeOK, CallState, Unsent

LEMMA SendOnce ==
    ASSUME TypeOK, Once, NEW c \in Callers, Send(c)
    PROVE  Once'
<1>1. /\ call \in [Callers -> CallState] /\ call[c].pc = "send" /\ c \in Unsent
      /\ msgID \in Ids
      /\ UNCHANGED <<stream, rx, rpc, senders, acks, ownSent, results, begun>>
  BY Bounds DEF TypeOK, Send, Unsent, cvars, rvars, hvars, Ids
<1>2. due' = due \/ \E i \in Ids : due' = due \cup {[id |-> i, serial |-> call[c].serial]}
  BY <1>1 DEF Send, Deliver
<1>3. CASE call' = Return(c, NoMsg)
  BY <1>1, <1>2, <1>3, ReturnFields, MovesOnce
<1>4. ASSUME NEW k, call' = [call EXCEPT ![c] = [@ EXCEPT !.pc = "wait", !.key = k]]
      PROVE  Once'
  <2>1. /\ \A d \in Callers \ {c} : call'[d] = call[d]
        /\ call'[c].got = call[c].got /\ call'[c].serial = call[c].serial
        /\ call'[c].pc = "wait" /\ c \notin Unsent'
    BY <1>1, <1>4 DEF CallState, Unsent
  <2>2. QED
    BY <1>1, <1>2, <2>1, MovesOnce
<1>5. QED
  BY <1>3, <1>4 DEF Send

\* The result leaves the map for the caller.
LEMMA TakeOnce ==
    ASSUME TypeOK, Once, NEW c \in Callers, Take(c)
    PROVE  Once'
<1>1. PICK x : x = results[call[c].key]
  OBVIOUS
<1>2. PICK key \in Keys : key = call[c].key
  BY CallFields DEF TypeOK
<1>3. /\ x # NoMsg /\ results[key] = x /\ results' = [results EXCEPT ![key] = NoMsg]
      /\ call' = Return(c, x) /\ results \in [Keys -> Message \cup {NoMsg}]
      /\ UNCHANGED <<stream, rx, rpc, senders, acks, ownSent, begun, due>>
      /\ c \notin Unsent
  BY <1>1, <1>2 DEF Take, Removed, rvars, dvars, hvars, TypeOK, Unsent
<1>4. /\ \A d \in Callers \ {c} : call'[d] = call[d]
      /\ call'[c].got = x /\ c \notin Unsent'
  BY <1>3, ReturnFields
<1>5. /\ Bodies' = Bodies /\ InStream' = InStream /\ InHand' = InHand
      /\ Waiting' = Waiting /\ Acked' = Acked /\ Asking'
  BY <1>3, CallerFrame DEF Once
<1>6. results'[key] = NoMsg /\ \A j \in Keys : j # key => results'[j] = results[j]
  BY <1>3
<1>7. InMap' \subseteq InMap /\ Name(x) \in InMap /\ Name(x) \notin InMap'
  BY <1>3, <1>6 DEF InMap, Once, Kept
<1>8. /\ Returned' \subseteq Returned \cup {Name(x)}
      /\ \A d \in Callers \ {c} : call[d].got # NoMsg => Name(call[d].got) # Name(x)
  BY <1>4, <1>7 DEF Returned, Once, Kept
<1>9. Unsent' = Unsent /\ \A d \in Unsent : call'[d] = call[d]
  BY <1>3, <1>4 DEF Unsent
<1>10. OneRequest' /\ \A n \in Nat : Pending(n)' => Pending(n)
  <2>1. OneRequest'
    BY <1>3, <1>9 DEF Once, OneRequest
  <2>2. \A n \in Nat : Pending(n)' => Pending(n)
    BY <1>3, <1>9 DEF Pending
  <2>3. QED
    BY <2>1, <2>2
<1>11. Moving'
  <2>1. \A i, j \in Bodies' : Name(stream'[i].msg) = Name(stream'[j].msg) => i = j
    BY <1>3, <1>5 DEF Once, Moving
  <2>2. Handled' \subseteq Handled
    BY <1>5, <1>7, <1>8 DEF Handled
  <2>3. Coming' \subseteq Coming
    BY <1>3, <1>10, FewerComing
  <2>4. Moving
    BY DEF Once
  <2>5. QED
    BY <1>5, <2>1, <2>2, <2>3, <2>4, StaysApart
<1>12. Kept'
  <2>1. InMap' \cap Returned' = {}
    BY <1>7, <1>8 DEF Once, Kept
  <2>2. \A d, e \in Callers : call'[d].got # NoMsg /\ call'[e].got # NoMsg
            /\ Name(call'[d].got) = Name(call'[e].got) => d = e
    BY <1>4, <1>8 DEF Once, Kept
  <2>3. \A i, j \in Keys : results'[i] # NoMsg /\ results'[j] # NoMsg
            /\ Name(results'[i]) = Name(results'[j]) => i = j
    BY <1>6 DEF Once, Kept
  <2>4. QED
    BY <1>3, <1>5, <2>1, <2>2, <2>3 DEF Once, Kept
<1>13. QED
  BY <1>5, <1>10, <1>11, <1>12 DEF Once

LEMMA CallerStepOnce ==
    ASSUME TypeOK, Once, NEW c \in Callers,
           \/ \E kind \in Kinds, ch \in Channels \cup {NoChan} : Begin(c, kind, ch)
           \/ Caller(c) \/ Tick(c)
    PROVE  Once'
<1> USE DEF cvars, rvars, dvars, hvars
<1>1. CASE IncStore(c)
  <2>1. /\ \A d \in Callers \ {c} : call'[d] = call[d]
        /\ call'[c].got = call[c].got /\ call'[c].serial = call[c].serial
        /\ c \in Unsent
    BY <1>1 DEF IncStore, TypeOK, CallState, Unsent
  <2>2. UNCHANGED <<stream, rx, rpc, senders, acks, ownSent, results, begun, due>>
    BY <1>1 DEF IncStore
  <2>3. QED
    BY <2>1, <2>2, MovesOnce
<1>2. CASE Tick(c)
  <2>1. /\ \A d \in Callers \ {c} : call'[d] = call[d]
        /\ call'[c].got = call[c].got /\ call'[c].serial = call[c].serial
        /\ c \notin Unsent'
    BY <1>2 DEF Tick, TypeOK, CallState, Unsent
  <2>2. UNCHANGED <<stream, rx, rpc, senders, acks, ownSent, results, begun, due>>
    BY <1>2 DEF Tick
  <2>3. QED
    BY <2>1, <2>2, MovesOnce
<1>3. CASE GiveUp(c)
  <2>1. UNCHANGED <<stream, rx, rpc, senders, acks, ownSent, results, begun, due>>
    BY <1>3 DEF GiveUp
  <2>2. call' = Return(c, NoMsg)
    BY <1>3 DEF GiveUp
  <2>3. QED
    BY <2>1, <2>2, ReturnFields, MovesOnce
<1>4. QED
  BY <1>1, <1>2, <1>3, BeginOnce, SendOnce, TakeOnce DEF Caller
\* A step of the receiver or the replier leaves the requests and what was returned.
LEMMA ReceiverFrame ==
    ASSUME UNCHANGED <<call, due, begun, ownSent>>
    PROVE  Coming' = Coming /\ Returned' = Returned /\ (OneRequest => OneRequest')
  BY DEF Coming, Pending, Unsent, Returned, OneRequest

\* A packet is read: its message is in the receiver's hand, or lost.
LEMMA ReadOnce ==
    ASSUME TypeOK, Once, stream # <<>>, stream' = Tail(stream),
           UNCHANGED <<call, due, begun, ownSent, acks, senders, results>>,
           \/ rx' = rx /\ rpc' \notin {"handle", "deliver"}
           \/ rx' = Head(stream) /\ (rpc' \in {"handle", "deliver"} => rx'.body)
           \/ rx' = NoPacket /\ rpc' \notin {"handle", "deliver"}
    PROVE  Once'
<1>1. Coming' = Coming /\ Returned' = Returned /\ OneRequest'
  BY ReceiverFrame DEF Once
<1>2. /\ InMap' = InMap /\ Waiting' = Waiting /\ Acked' = Acked /\ Handled' = Handled
      /\ Kept'
  <2>1. InMap' = InMap /\ Waiting' = Waiting /\ Acked' = Acked
    BY DEF InMap, Waiting, Acked
  <2>2. Handled' = Handled
    BY <1>1, <2>1 DEF Handled
  <2>3. Kept'
    BY <1>1, <2>1 DEF Once, Kept
  <2>4. QED
    BY <2>1, <2>2, <2>3
<1>3. /\ InStream' \subseteq InStream
      /\ \A i, j \in Bodies' : Name(stream'[i].msg) = Name(stream'[j].msg) => i = j
      /\ Head(stream).body => /\ Name(Head(stream).msg) \in InStream
                              /\ Name(Head(stream).msg) \notin InStream'
      /\ \A i \in DOMAIN stream' : \E j \in DOMAIN stream : stream'[i] = stream[j]
      /\ \E j \in DOMAIN stream : Head(stream) = stream[j]
  BY TailBodies DEF Once
<1>4. \/ InHand' \subseteq InHand
      \/ Head(stream).body /\ InHand' = {Name(Head(stream).msg)}
  BY DEF InHand, NoPacket
<1>5. Moving'
  <2>1. Moving
    BY DEF Once
  <2>2. CASE InHand' \subseteq InHand
    BY <1>1, <1>2, <1>3, <2>1, <2>2, StaysApart
  <2>3. CASE Head(stream).body /\ InHand' = {Name(Head(stream).msg)}
    <3> DEFINE x == Name(Head(stream).msg)
    <3>1. x \in InStream /\ x \notin InStream' /\ InHand' = {x}
      BY <1>3, <2>3
    <3> HIDE DEF x
    <3>2. /\ Coming' \cap (InStream' \cup InHand' \cup Handled') = {}
          /\ InStream' \cap (InHand' \cup Handled') = {}
          /\ InHand' \cap Handled' = {}
      BY <1>1, <1>2, <1>3, <2>1, <3>1 DEF Moving
    <3>3. QED
      BY <1>3, <3>2 DEF Moving
  <2>4. QED
    BY <1>4, <2>2, <2>3
<1>6. Asking'
  <2>1. \A i \in DOMAIN stream' : stream'[i].msg.expects => stream'[i].msg.conv # 1
    BY <1>3 DEF Once, Asking
  <2>2. rx'.body /\ rx'.msg.expects => rx'.msg.conv # 1
    BY <1>3 DEF Once, Asking, NoPacket
  <2>3. rpc' \in {"handle", "deliver"} => rx'.body
    OBVIOUS
  <2>4. QED
    BY <2>1, <2>2, <2>3 DEF Once, Asking
<1>7. QED
  BY <1>1, <1>2, <1>5, <1>6 DEF Once

\* The receiver keeps or drops what it has in hand.
LEMMA HoldOnce ==
    ASSUME Once, UNCHANGED <<stream, call, due, begun, ownSent, acks, senders, results>>,
           rx' = rx \/ rx' = NoPacket,
           rpc' \in {"handle", "deliver"} => rx' = rx /\ rx.body
    PROVE  Once'
<1>1. Coming' = Coming /\ Returned' = Returned /\ OneRequest'
  BY ReceiverFrame DEF Once
<1>2. /\ InMap' = InMap /\ Waiting' = Waiting /\ Acked' = Acked /\ Bodies' = Bodies
      /\ InStream' = InStream
  BY DEF InMap, Waiting, Acked, Bodies, InStream
<1>3. InHand' \subseteq InHand
  BY DEF InHand, NoPacket
<1>4. Moving'
  <2>1. \A i, j \in Bodies' : Name(stream'[i].msg) = Name(stream'[j].msg) => i = j
    BY <1>2 DEF Once, Moving
  <2>2. Handled' = Handled
    BY <1>1, <1>2 DEF Handled
  <2>3. Moving
    BY DEF Once
  <2>4. QED
    BY <1>1, <1>2, <1>3, <2>1, <2>2, <2>3, StaysApart
<1>5. Kept'
  BY <1>1, <1>2 DEF Once, Kept
<1>6. Asking'
  BY DEF Once, Asking, NoPacket
<1>7. QED
  BY <1>1, <1>4, <1>5, <1>6 DEF Once

\* The message in hand goes to a goroutine that waits to reply, or in the map.
LEMMA DeliverOnce == ASSUME TypeOK, Once, RxDeliver PROVE Once'
<1> DEFINE x == Name(rx.msg)
<1>1. /\ rx.body /\ rx.msg \in Message /\ rpc' = "loop" /\ rx' = NoPacket
      /\ UNCHANGED <<stream, call, due, begun, ownSent, acks>>
  BY MessageTypes DEF Once, Asking, RxDeliver, dvars, hvars
<1>2. Coming' = Coming /\ Returned' = Returned /\ OneRequest'
  BY <1>1, ReceiverFrame DEF Once
<1>3. /\ Acked' = Acked /\ Bodies' = Bodies /\ InStream' = InStream
      /\ InHand = {x} /\ InHand' = {}
  BY <1>1 DEF Acked, Bodies, InStream, InHand, NoPacket
<1>4. /\ x \notin InMap /\ x \notin Returned /\ x \notin Waiting /\ x \notin Acked
      /\ x \notin Coming /\ x \notin InStream
  BY <1>3 DEF Once, Moving, Handled
<1>5. /\ InMap' \subseteq InMap \cup {x} /\ Waiting' \subseteq Waiting \cup {x}
      /\ Kept' /\ (\A m \in senders' : m.expects /\ m.conv # 1)
  <2>1. CASE rx.msg.expects /\ senders' = senders \cup {rx.msg} /\ results' = results
    <3>1. InMap' = InMap /\ Waiting' = Waiting \cup {x}
      BY <2>1 DEF InMap, Waiting
    <3>2. \A m \in senders : Name(m) # x
      BY <1>4 DEF Waiting
    <3>3. \A m, n \in senders' : Name(m) = Name(n) => m = n
      BY <2>1, <3>2 DEF Once, Kept
    <3>4. Waiting' \cap Acked' = {}
      BY <1>3, <1>4, <3>1 DEF Once, Kept
    <3>5. Kept'
      BY <1>1, <1>2, <1>3, <2>1, <3>1, <3>3, <3>4 DEF Once, Kept
    <3>6. \A m \in senders' : m.expects /\ m.conv # 1
      BY <1>1, <2>1 DEF Once, Asking
    <3>7. QED
      BY <3>1, <3>5, <3>6
  <2>2. ASSUME NEW key \in Keys, results' = [results EXCEPT ![key] = rx.msg],
               senders' = senders
        PROVE  /\ InMap' \subseteq InMap \cup {x} /\ Waiting' = Waiting /\ Kept'
               /\ \A m \in senders' : m.expects /\ m.conv # 1
    <3>1. \A j \in Keys : results'[j] = IF j = key THEN rx.msg ELSE results[j]
      BY <2>2 DEF TypeOK
    <3>2. InMap' \subseteq InMap \cup {x} /\ Waiting' = Waiting
      BY <2>2, <3>1 DEF InMap, Waiting
    <3>3. \A j \in Keys : results[j] # NoMsg => Name(results[j]) # x
      BY <1>4 DEF InMap
    <3>4. \A i, j \in Keys : results'[i] # NoMsg /\ results'[j] # NoMsg
              /\ Name(results'[i]) = Name(results'[j]) => i = j
      BY <3>1, <3>3 DEF Once, Kept
    <3>5. InMap' \cap Returned' = {}
      BY <1>2, <1>4, <3>2 DEF Once, Kept
    <3>6. Kept'
      BY <1>1, <1>2, <1>3, <2>2, <3>2, <3>4, <3>5 DEF Once, Kept
    <3>7. QED
      BY <2>2, <3>2, <3>6 DEF Once, Asking
  <2>3. CASE rx.msg.expects
    BY <2>1, <2>3 DEF RxDeliver
  <2>4. CASE ~rx.msg.expects
    <3>1. NotifyKey \in Keys /\ rx.msg.id \in Keys
      BY <1>1 DEF Keys, Message
    <3>2. PICK key \in Keys : results' = [results EXCEPT ![key] = rx.msg]
      BY <2>4, <3>1 DEF RxDeliver
    <3>3. senders' = senders
      BY <2>4 DEF RxDeliver
    <3>4. QED
      BY <2>2, <3>2, <3>3
  <2>5. QED
    BY <2>3, <2>4
<1>6. Handled' \subseteq Handled \cup {x}
  BY <1>2, <1>3, <1>5 DEF Handled
<1>7. Moving'
  <2>1. \A i, j \in Bodies' : Name(stream'[i].msg) = Name(stream'[j].msg) => i = j
    BY <1>1, <1>3 DEF Once, Moving
  <2> HIDE DEF x
  <2>2. /\ Coming' \cap (InStream' \cup InHand' \cup Handled') = {}
        /\ InStream' \cap (InHand' \cup Handled') = {}
        /\ InHand' \cap Handled' = {}
    BY <1>2, <1>3, <1>4, <1>6 DEF Once, Moving
  <2>3. QED
    BY <2>1, <2>2 DEF Moving
<1>8. Asking'
  BY <1>1, <1>5 DEF Once, Asking, NoPacket
<1>9. QED
  BY <1>2, <1>5, <1>7, <1>8 DEF Once

LEMMA ReceiverStepOnce == ASSUME TypeOK, Once, Receiver PROVE Once'
<1> USE DEF cvars, dvars, hvars
<1>1. CASE RxHeader
  <2>1. /\ stream # <<>> /\ stream' = Tail(stream)
        /\ UNCHANGED <<call, due, begun, ownSent, acks, senders, results>>
    BY <1>1 DEF RxHeader
  <2>2. \/ rx' = Head(stream) /\ rpc' = "handle" /\ Head(stream).body
        \/ rx' = Head(stream) /\ rpc' = "bump"
        \/ rx' = NoPacket /\ rpc' \notin {"handle", "deliver"}
    BY <1>1 DEF RxHeader, AfterHeader
  <2>3. QED
    BY <2>1, <2>2, ReadOnce
<1>2. CASE RxGarbage
  <2>1. /\ UNCHANGED <<call, due, begun, ownSent, acks, senders, results, rx>>
        /\ rpc' = "loop"
    BY <1>2 DEF RxGarbage
  <2>2. \/ stream' = stream
        \/ stream # <<>> /\ stream' = Tail(stream)
    BY <1>2 DEF RxGarbage
  <2>3. QED
    BY <2>1, <2>2, ReadOnce, HoldOnce
<1>3. CASE RxBump
  <2>1. /\ UNCHANGED <<stream, call, due, begun, ownSent, acks, senders, results>>
        /\ \/ rx.body /\ rx' = rx
           \/ rpc' = "read" /\ rx' = NoPacket
    BY <1>3 DEF RxBump, AfterHeader
  <2>2. QED
    BY <2>1, HoldOnce
<1>4. CASE RxHandle
  <2>1. /\ UNCHANGED <<stream, call, due, begun, ownSent, acks, senders, results>>
        /\ \/ rx.body /\ rx' = rx
           \/ rpc' = "loop" /\ rx' = NoPacket
    BY <1>4 DEF RxHandle, Once, Asking
  <2>2. QED
    BY <2>1, HoldOnce
<1>5. CASE RxLoop \/ RxEof \/ RxOver \/ RxClosed
  <2>1. /\ UNCHANGED <<stream, call, due, begun, ownSent, acks, senders, results, rx>>
        /\ rpc' \notin {"handle", "deliver"}
    BY <1>5 DEF RxLoop, RxEof, RxOver, RxClosed
  <2>2. QED
    BY <2>1, HoldOnce
<1>6. QED
  BY <1>1, <1>2, <1>3, <1>4, <1>5, DeliverOnce DEF Receiver

\* The replier takes the header of message n: no other goroutine holds one of it.
LEMMA AckStepOnce ==
    ASSUME TypeOK, Once, NEW n \in 1..MaxOwn, Ack(n)
    PROVE  Once'
<1>1. PICK m \in senders : /\ m.serial = n /\ senders' = senders \ {m}
                           /\ acks' = IF connClosed THEN acks ELSE [acks EXCEPT ![n] = @ + 1]
  BY DEF Ack
<1>2. UNCHANGED <<stream, rx, rpc, call, due, begun, ownSent, results>>
  BY DEF Ack, cvars, dvars, hvars
<1>3. Coming' = Coming /\ Returned' = Returned /\ OneRequest'
  BY <1>2, ReceiverFrame DEF Once
<1>4. InMap' = InMap /\ Bodies' = Bodies /\ InStream' = InStream /\ InHand' = InHand
  BY <1>2 DEF InMap, Bodies, InStream, InHand
<1>5. Name(m) = Own(n) /\ Own(n) \in Waiting /\ Waiting' \subseteq Waiting \ {Own(n)}
  <2>1. Name(m) = Own(n)
    BY <1>1, Names DEF Once, Asking
  <2>2. QED
    BY <1>1, <2>1 DEF Waiting, Once, Kept
<1>6. acks[n] = 0
  <2>1. Own(n) \notin Acked
    BY <1>5 DEF Once, Kept
  <2>2. QED
    BY <2>1 DEF Acked
<1>7. (\A k \in 1..MaxOwn : acks'[k] <= 1) /\ Acked' \subseteq Acked \cup {Own(n)}
  <2>1. acks \in [1..MaxOwn -> Nat]
    BY DEF TypeOK
  <2>2. \A k \in 1..MaxOwn : acks'[k] = acks[k] \/ (k = n /\ acks'[k] = 1)
    <3> TAKE k \in 1..MaxOwn
    <3>1. CASE acks' = acks
      BY <3>1
    <3>2. CASE acks' = [acks EXCEPT ![n] = acks[n] + 1]
      BY <3>2, <1>6, <2>1
    <3>3. QED
      BY <1>1, <3>1, <3>2
  <2>3. \A k \in 1..MaxOwn : acks'[k] <= 1
    BY <2>2 DEF Once, Kept
  <2>4. QED
    BY <2>2, <2>3 DEF Acked
<1>8. Kept'
  BY <1>1, <1>2, <1>3, <1>4, <1>5, <1>7 DEF Once, Kept
<1>9. Handled' \subseteq Handled
  BY <1>3, <1>4, <1>5, <1>7 DEF Handled
<1>10. Moving'
  <2>1. \A i, j \in Bodies' : Name(stream'[i].msg) = Name(stream'[j].msg) => i = j
    BY <1>2, <1>4 DEF Once, Moving
  <2>2. Moving
    BY DEF Once
  <2>3. QED
    BY <1>3, <1>4, <1>9, <2>1, <2>2, StaysApart
<1>11. Asking'
  BY <1>1, <1>2 DEF Once, Asking
<1>12. QED
  BY <1>3, <1>8, <1>10, <1>11 DEF Once

\* The device sends a message that was still to come.
LEMMA SentOnce ==
    ASSUME TypeOK, Once, NEW m \in Message, stream' = stream \o Packets(m),
           UNCHANGED <<rx, rpc, senders, acks, results, call, begun>>,
           Name(m) \in Coming, Coming' \subseteq Coming \ {Name(m)}, OneRequest',
           m.expects => m.conv # 1
    PROVE  Once'
<1>1. Name(m) \notin InStream
  BY DEF Once, Moving
<1>2. /\ InStream' = InStream \cup {Name(m)}
      /\ \A i, j \in Bodies' : Name(stream'[i].msg) = Name(stream'[j].msg) => i = j
      /\ \A i \in DOMAIN stream' :
             stream'[i].msg = m \/ \E j \in DOMAIN stream : stream'[i] = stream[j]
  BY <1>1, SentBodies DEF Once
<1>3. /\ InHand' = InHand /\ InMap' = InMap /\ Returned' = Returned /\ Waiting' = Waiting
      /\ Acked' = Acked /\ Handled' = Handled
  BY DEF InHand, InMap, Returned, Waiting, Acked, Handled
<1>4. Moving'
  <2>1. /\ Coming' \cap (InStream' \cup InHand' \cup Handled') = {}
        /\ InStream' \cap (InHand' \cup Handled') = {}
        /\ InHand' \cap Handled' = {}
    BY <1>2, <1>3 DEF Once, Moving
  <2>2. QED
    BY <1>2, <2>1 DEF Moving
<1>5. Kept'
  BY <1>3 DEF Once, Kept
<1>6. Asking'
  BY <1>2 DEF Once, Asking
<1>7. QED
  BY <1>4, <1>5, <1>6 DEF Once

LEMMA DeviceOnce == ASSUME TypeOK, Once, DevReply \/ DevSend PROVE Once'
<1> USE DEF cvars, rvars, dvars, hvars
<1>1. CASE DevReply
  <2>1. PICK r \in due, s \in ReplyShapes :
            /\ due' = due \ {r}
            /\ stream' = stream \o Packets(
                 [conv |-> 1, id |-> r.id, expects |-> FALSE, notify |-> FALSE,
                  ok |-> s.ok, frags |-> s.frags, len |-> s.len, serial |-> r.serial])
    BY <1>1 DEF DevReply
  <2> DEFINE m == [conv |-> 1, id |-> r.id, expects |-> FALSE, notify |-> FALSE,
                   ok |-> s.ok, frags |-> s.frags, len |-> s.len, serial |-> r.serial]
  <2>2. r.id \in Ids /\ r.serial \in Nat
    BY DEF TypeOK
  <2>3. s.ok \in BOOLEAN /\ s.frags \in 1..2 /\ s.len \in Nat
    BY DtxAssumption DEF DtxAssumption, Shape
  <2>4. m \in Message
    BY <2>2, <2>3 DEF Message
  <2>5. m.conv = 1 /\ m.serial = r.serial /\ ~m.expects /\ stream' = stream \o Packets(m)
    BY <2>1
  <2> HIDE DEF m
  <2>6. Name(m) = Answer(r.serial)
    BY <2>5 DEF Name
  <2>7. UNCHANGED <<rx, rpc, senders, acks, results, call, begun, ownSent>>
    BY <1>1 DEF DevReply
  <2>8. Name(m) \in Coming
    BY <2>2, <2>6 DEF Coming, Pending
  <2>9. Unsent' = Unsent
    BY <2>7 DEF Unsent
  <2>10. OneRequest'
    BY <2>1, <2>7, <2>9 DEF Once, OneRequest
  <2>11. \A n \in Nat : Pending(n)' => Pending(n) /\ n # r.serial
    <3> SUFFICES ASSUME NEW n \in Nat, Pending(n)' PROVE Pending(n) /\ n # r.serial
      OBVIOUS
    <3>1. CASE n > begun
      <4>1. r.serial <= begun /\ begun \in Nat
        BY MessageTypes DEF Once, OneRequest
      <4>2. QED
        BY <3>1, <4>1, <2>2 DEF Pending
    <3>2. ASSUME NEW c \in Unsent, call[c].serial = n PROVE Pending(n) /\ n # r.serial
      BY <3>2 DEF Pending, Once, OneRequest
    <3>3. ASSUME NEW q \in due, q # r, q.serial = n PROVE Pending(n) /\ n # r.serial
      BY <3>3 DEF Pending, Once, OneRequest
    <3>4. QED
      BY <2>1, <2>7, <2>9, <3>1, <3>2, <3>3 DEF Pending
  <2>12. Coming' \subseteq Coming \ {Name(m)}
    BY <2>6, <2>7, <2>11, Names DEF Coming
  <2>13. QED
    BY <2>4, <2>5, <2>7, <2>8, <2>10, <2>12, SentOnce
<1>2. CASE DevSend
  <2>1. PICK u \in Unsolicited :
            stream' = stream \o Packets(
              [conv |-> u.conv, id |-> u.id, expects |-> u.expects, notify |-> u.notify,
               ok |-> u.ok, frags |-> u.frags, len |-> u.len, serial |-> ownSent + 1])
    BY <1>2 DEF DevSend
  <2> DEFINE m == [conv |-> u.conv, id |-> u.id, expects |-> u.expects, notify |-> u.notify,
                   ok |-> u.ok, frags |-> u.frags, len |-> u.len, serial |-> ownSent + 1]
  <2>2. /\ u.conv \in {0, 2} /\ u.id \in Ids /\ u.expects \in BOOLEAN
        /\ u.notify \in BOOLEAN /\ u.ok \in BOOLEAN /\ u.frags \in 1..2 /\ u.len \in Nat
    BY DtxAssumption DEF DtxAssumption, Template
  <2>3. ownSent \in Nat /\ ownSent' = ownSent + 1
    BY <1>2, MessageTypes DEF DevSend
  <2>4. m \in Message
    BY <2>2, <2>3 DEF Message
  <2>5. m.conv # 1 /\ m.serial = ownSent + 1 /\ stream' = stream \o Packets(m)
    BY <2>1, <2>2
  <2> HIDE DEF m
  <2>6. Name(m) = Own(ownSent + 1)
    BY <2>5 DEF Name
  <2>7. UNCHANGED <<rx, rpc, senders, acks, results, call, begun, due>>
    BY <1>2 DEF DevSend
  <2>8. Name(m) \in Coming
    BY <2>3, <2>6 DEF Coming
  <2>9. OneRequest' /\ \A n \in Nat : Pending(n)' <=> Pending(n)
    BY <2>7 DEF Once, OneRequest, Pending, Unsent
  <2>10. Coming' \subseteq Coming \ {Name(m)}
    <3> SUFFICES ASSUME NEW x \in Coming' PROVE x \in Coming /\ x # Own(ownSent + 1)
      BY <2>6
    <3>1. ASSUME NEW n \in Nat, Pending(n)', x = Answer(n)
          PROVE  x \in Coming /\ x # Own(ownSent + 1)
      BY <2>9, <3>1, Names DEF Coming
    <3>2. ASSUME NEW n \in Nat, n > ownSent + 1, x = Own(n)
          PROVE  x \in Coming /\ x # Own(ownSent + 1)
      <4>1. n > ownSent /\ n # ownSent + 1
        BY <2>3, <3>2
      <4>2. QED
        BY <3>2, <4>1, Names DEF Coming
    <3>3. QED
      BY <2>3, <3>1, <3>2 DEF Coming
  <2>11. QED
    BY <2>4, <2>5, <2>7, <2>8, <2>9, <2>10, SentOnce
<1>3. QED
  BY <1>1, <1>2

LEMMA OnceStep == TypeOK /\ Once /\ [Next]_vars => Once'
<1> SUFFICES ASSUME TypeOK, Once, [Next]_vars PROVE Once'
  OBVIOUS
<1>1. CASE AckStop \/ CloseCancel \/ CloseConn \/ DevClose \/ UNCHANGED vars
  <2>1. UNCHANGED <<stream, call, due, begun, ownSent, acks, senders, results, rx, rpc>>
    BY <1>1 DEF AckStop, CloseCancel, CloseConn, DevClose, vars, cvars, rvars, dvars, hvars
  <2>2. QED
    BY <2>1, HoldOnce DEF Once, Asking
<1>2. QED
  BY <1>1, CallerStepOnce, ReceiverStepOnce, AckStepOnce, DeviceOnce DEF Next

LEMMA OnceInit == Init => Once
<1> SUFFICES ASSUME Init PROVE Once
  OBVIOUS
<1>1. /\ Bodies = {} /\ InStream = {} /\ InHand = {} /\ InMap = {} /\ Returned = {}
      /\ Waiting = {} /\ Acked = {} /\ Unsent = {}
  BY DEF Init, Bodies, InStream, InHand, NoPacket, InMap, Returned, Waiting, Acked, Unsent
<1>2. Handled = {}
  BY <1>1 DEF Handled
<1>3. \A n \in 1..MaxOwn : acks[n] <= 1
  BY DEF Init
<1>4. QED
  BY <1>1, <1>2, <1>3 DEF Init, Once, OneRequest, Moving, Kept, Asking, NoPacket

LEMMA OnceHolds == Spec => []Once
<1>1. QED
  BY OnceInit, OnceStep, TypeCorrect, PTL DEF Spec

\* Each message the device originates is replied to at most once, and only if it asks for
\* a reply (startWaitingForReply), whatever arrives while its header waits.
THEOREM AckOnceHolds == Spec => []AckOnce
<1>1. Once => AckOnce
  <2> SUFFICES ASSUME Once, NEW n \in 1..MaxOwn, NEW m \in senders
               PROVE  acks[n] <= 1 /\ m.expects /\ (m.serial = n => acks[n] = 0)
    BY DEF Once, Kept, AckOnce
  <2>1. m.serial = n => Own(n) \in Waiting
    BY Names DEF Once, Asking, Waiting
  <2>2. acks[n] # 0 => Own(n) \in Acked
    BY DEF Acked
  <2>3. QED
    BY <2>1, <2>2 DEF Once, Kept, Asking
<1>2. QED
  BY <1>1, OnceHolds, PTL

\* No message is handed to two calls, and none is left in the map for another (GetResult).
THEOREM TakenOnceHolds == Spec => []TakenOnce
<1>1. Once => TakenOnce
  <2> SUFFICES ASSUME Once, NEW c \in Callers, call[c].got # NoMsg
               PROVE  /\ \A d \in Callers \ {c} : call[d].got # call[c].got
                      /\ \A k \in Keys : results[k] # call[c].got
    BY DEF TakenOnce
  <2>1. Name(call[c].got) \in Returned
    BY DEF Returned
  <2>2. \A k \in Keys : results[k] # NoMsg => Name(results[k]) # Name(call[c].got)
    BY <2>1 DEF InMap, Once, Kept
  <2>3. QED
    BY <2>2 DEF Once, Kept
<1>2. QED
  BY <1>1, OnceHolds, PTL
=============================================================================
