---------------------------- MODULE LockdownProofs ----------------------------
(***************************************************************************)
(* Theorems about LockdownSession, for any number of callers, devices,     *)
(* calls and faults.                                                       *)
(***************************************************************************)
EXTENDS LockdownSession, SequenceTheorems, FiniteSetTheorems, TLAPS

LEMMA Bounds ==
    /\ Ops \subseteq ServiceOps \cup PlainOps /\ NoCaller \notin Callers /\ NoDev \notin Devs
  BY LockdownAssumption DEF LockdownAssumption

\* The pcs of requests on a lockdown connection.
LockPcs == {"version", "publicKey", "wifi", "value", "queryType", "pairDevice", "stopRunning",
            "start", "service", "stop", "recovery"}

LEMMA Kinds ==
    /\ DOMAIN LockKind = LockPcs /\ LockPcs \cap MuxPcs = {}
    /\ \A pc \in LockPcs : LockKind[pc] \in Requests
    /\ \A pc \in {"version", "publicKey", "wifi", "value"} : LockKind[pc] = "GetValue"
    /\ LockKind["queryType"] = "QueryType" /\ LockKind["pairDevice"] = "Pair"
    /\ LockKind["stopRunning"] = "StopSession" /\ LockKind["stop"] = "StopSession"
    /\ LockKind["start"] = "StartSession" /\ LockKind["service"] = "StartService"
    /\ LockKind["recovery"] = "EnterRecovery"
<1>1. DOMAIN LockKind = LockPcs
  BY DEF LockKind, LockPcs
<1>2. /\ \A pc \in {"version", "publicKey", "wifi", "value"} : LockKind[pc] = "GetValue"
      /\ LockKind["queryType"] = "QueryType" /\ LockKind["pairDevice"] = "Pair"
      /\ LockKind["stopRunning"] = "StopSession" /\ LockKind["stop"] = "StopSession"
      /\ LockKind["start"] = "StartSession" /\ LockKind["service"] = "StartService"
      /\ LockKind["recovery"] = "EnterRecovery"
  BY DEF LockKind
<1>3. LockPcs \cap MuxPcs = {}
  BY DEF MuxPcs, LockPcs
<1>4. \A pc \in LockPcs : LockKind[pc] \in Requests
  BY <1>1 DEF Requests
<1>5. QED
  BY <1>1, <1>2, <1>3, <1>4
-----------------------------------------------------------------------------
\* Types.
AnswerRec == [to: Requests, err: {"", "error", "bad device"}, rec: Record, num: Nat,
              key: Names, ssl: BOOLEAN]
ConnRec == [stream: Stream, dev: Devs, tls: Tls, devTls: Tls, session: Nat, sessions: Nat]
ObjRec == [client: Nat, version: BOOLEAN, record: Record, session: Nat]
DeviceRec == [client: Nat, lock: Nat, cache: [Kept \cup Reopened -> Seq(Nat)]]
\* The pcs at which lockdownService has returned.
Locked == LockPcs \cup {"readRecord", "buid", "saveRecord"}
                  \cup {"session", "tls", "end", "dial", "secure"}
Pcs == {"idle", "connect", "object", "use", "deleteRecord"} \cup Locked
CallRec == [op: ServiceOps \cup PlainOps \cup {""}, dev: Devs \cup {NoDev}, pc: Pcs,
            phase: {"send", "length", "body"}, obj: Nat, num: Nat, rec: Record,
            inner: BOOLEAN, want: Names, got: Seq(Nat)]

Types ==
    /\ mux \in Stream /\ saved \in [Devs -> Record] /\ trust \in [Devs -> SUBSET Record]
    /\ paired \in [Devs -> Nat] /\ services \in Seq([dev: Devs, svc: Names])
    /\ conns \in Seq(ConnRec) /\ objs \in Seq(ObjRec)
    /\ device \in [Devs -> DeviceRec] /\ call \in [Callers -> CallRec]

\* What refers to a session, a connection, an object or a service refers to one there is.
\* A reader that has read a length has the body of that answer before it.
ReaderOK(q) == q.reader # NoCaller => q.answers # <<>>
ConnOK(cn) ==
    /\ cn.session <= cn.sessions /\ ReaderOK(cn.stream)
    /\ \A j \in 1..Len(cn.stream.answers) : cn.stream.answers[j].num <= cn.sessions
Conns == \A i \in 1..Len(conns) : ConnOK(conns[i])
Objs == \A o \in 1..Len(objs) :
    /\ objs[o].client \in 1..Len(conns) /\ objs[o].session <= conns[objs[o].client].sessions
Held(s, n) == \A j \in 1..Len(s) : s[j] \in 1..n
Devices == \A d \in Devs :
    /\ device[d].client <= Len(conns) /\ device[d].lock <= Len(objs)
    /\ \A f \in Kept \cup Reopened : Held(device[d].cache[f], Len(services))
CallOK(k) ==
    /\ k.obj <= Len(objs) /\ Held(k.got, Len(services))
    /\ k.pc # "idle" => k.dev \in Devs
    /\ k.pc = "object" => device[k.dev].client # 0
    /\ k.pc \in Locked \/ k.inner => device[k.dev].lock # 0 /\ k.pc # "idle"
    /\ k.pc \in Locked \ {"version"} \/ (k.pc = "version" /\ k.phase # "send") => k.obj # 0
    /\ k.pc = "tls" => k.num <= conns[objs[k.obj].client].sessions
    /\ k.phase # "send" => k.pc \in LockPcs \cup MuxPcs
Referring == Conns /\ Objs /\ Devices /\ ReaderOK(mux) /\ \A c \in Callers : CallOK(call[c])
TypeInv == Types /\ Referring

\* Nothing that is referred to goes away.
ConnsGrow == /\ conns' \in Seq(ConnRec) /\ Conns' /\ Len(conns') >= Len(conns)
             /\ \A i \in 1..Len(conns) : conns'[i].sessions >= conns[i].sessions
ObjsGrow == /\ objs' \in Seq(ObjRec) /\ Objs' /\ Len(objs') >= Len(objs)
            /\ \A o \in 1..Len(objs) : objs'[o].client = objs[o].client
ServicesGrow == /\ services' \in Seq([dev: Devs, svc: Names])
                /\ Len(services') >= Len(services)
DevicesGrow ==
    /\ device' \in [Devs -> DeviceRec] /\ Devices'
    /\ \A d \in Devs : /\ device[d].client # 0 => device'[d].client # 0
                       /\ device[d].lock # 0 => device'[d].lock # 0
Grow == ConnsGrow /\ ObjsGrow /\ ServicesGrow /\ DevicesGrow

LEMMA Lengths == Types => /\ Len(conns) \in Nat /\ Len(objs) \in Nat /\ Len(services) \in Nat
                          /\ \A i \in 1..Len(conns) : conns[i] \in ConnRec
                          /\ \A o \in 1..Len(objs) : objs[o] \in ObjRec
                          /\ \A d \in Devs : device[d] \in DeviceRec
                          /\ \A c \in Callers : call[c] \in CallRec
  BY DEF Types

LEMMA HeldKept ==
    ASSUME Types, ServicesGrow, NEW s \in Seq(Nat), Held(s, Len(services))
    PROVE  Held(s, Len(services'))
<1>1. Len(services) \in Nat /\ Len(services') \in Nat /\ Len(services') >= Len(services)
  BY DEF Types, ServicesGrow
<1>2. 1..Len(services) \subseteq 1..Len(services')
  BY <1>1
<1>3. QED
  BY <1>2 DEF Held

\* A call's references outlive a step.
LEMMA CallKept == ASSUME TypeInv, Grow, NEW k \in CallRec, CallOK(k) PROVE CallOK(k)'
<1>1. /\ k.obj \in Nat /\ k.num \in Nat /\ k.got \in Seq(Nat)
      /\ Len(objs) \in Nat /\ Len(conns) \in Nat
      /\ Len(objs') \in Nat /\ Len(objs') >= Len(objs)
      /\ Len(conns') \in Nat /\ Len(conns') >= Len(conns)
  <2>1. k.obj \in Nat /\ k.num \in Nat /\ k.got \in Seq(Nat)
    BY DEF CallRec
  <2>2. Len(objs) \in Nat /\ Len(conns) \in Nat
    BY Lengths DEF TypeInv
  <2>3. objs' \in Seq(ObjRec) /\ conns' \in Seq(ConnRec) /\ Len(objs') >= Len(objs)
        /\ Len(conns') >= Len(conns)
    BY DEF Grow, ObjsGrow, ConnsGrow
  <2>4. QED
    BY <2>1, <2>2, <2>3
<1>2. k.obj <= Len(objs') /\ Held(k.got, Len(services'))
  BY <1>1, HeldKept DEF CallOK, TypeInv, Grow
<1>3. k.pc = "object" => device'[k.dev].client # 0
  BY DEF CallOK, Grow, DevicesGrow
<1>4. k.pc \in Locked \/ k.inner => device'[k.dev].lock # 0 /\ k.pc # "idle"
  BY DEF CallOK, Grow, DevicesGrow
<1>5. ASSUME k.pc = "tls" PROVE k.num <= conns'[objs'[k.obj].client].sessions
  <2>1. k.obj \in 1..Len(objs) /\ k.num <= conns[objs[k.obj].client].sessions
    BY <1>1, <1>5 DEF CallOK, Locked
  <2>2. objs'[k.obj].client = objs[k.obj].client /\ objs[k.obj].client \in 1..Len(conns)
    BY <2>1 DEF TypeInv, Referring, Objs, Grow, ObjsGrow
  <2>3. PICK i \in 1..Len(conns) : i = objs[k.obj].client
    BY <2>2
  <2>4. conns'[i].sessions >= conns[i].sessions /\ i \in 1..Len(conns')
    BY <1>1, <2>3 DEF Grow, ConnsGrow
  <2>5. conns'[i].sessions \in Nat /\ conns[i].sessions \in Nat
    <3>1. conns[i] \in ConnRec /\ conns' \in Seq(ConnRec)
      BY <2>3, Lengths DEF TypeInv, Grow, ConnsGrow
    <3>2. conns'[i] \in ConnRec
      BY <2>4, <3>1
    <3>3. QED
      BY <3>1, <3>2 DEF ConnRec
  <2>6. k.num <= conns'[i].sessions
    BY <1>1, <2>1, <2>3, <2>4, <2>5
  <2>7. QED
    BY <2>2, <2>3, <2>6
<1>6. QED
  BY <1>2, <1>3, <1>4, <1>5 DEF CallOK

\* A step of c: its call becomes k.
LEMMA TypesStep ==
    ASSUME TypeInv, NEW c \in Callers, NEW k \in CallRec, call' = [call EXCEPT ![c] = k],
           CallOK(k)', Grow, mux' \in Stream, ReaderOK(mux'), saved' \in [Devs -> Record],
           trust' \in [Devs -> SUBSET Record], paired' \in [Devs -> Nat]
    PROVE  TypeInv'
<1>1. Types'
  BY DEF TypeInv, Types, Grow, ConnsGrow, ObjsGrow, ServicesGrow, DevicesGrow
<1>2. \A b \in Callers \ {c} : call'[b] = call[b]
  BY DEF TypeInv, Types
<1>3. call'[c] = k
  BY DEF TypeInv, Types
<1>4. ASSUME NEW b \in Callers \ {c} PROVE CallOK(call[b])'
  <2>1. PICK l \in CallRec : l = call[b]
    BY Lengths DEF TypeInv
  <2>2. CallOK(l)
    BY <2>1 DEF TypeInv, Referring
  <2>3. CallOK(l)'
    BY <2>2, CallKept
  <2>4. call'[b] = l
    BY <1>2, <2>1
  <2>5. QED
    BY <2>3, <2>4 DEF CallOK
<1>5. CallOK(call[c])'
  BY <1>3 DEF CallOK
<1>6. Referring'
  BY <1>4, <1>5 DEF Referring, ReaderOK, Grow, ConnsGrow, ObjsGrow, DevicesGrow
<1>7. QED
  BY <1>1, <1>6 DEF TypeInv
\* What a step leaves alone still refers to what there is.
LEMMA SameConns == ASSUME TypeInv, UNCHANGED conns PROVE ConnsGrow
<1>1. \A i \in 1..Len(conns) : conns[i].sessions \in Nat
  BY Lengths DEF TypeInv, ConnRec
<1>2. Len(conns) >= Len(conns) /\ \A i \in 1..Len(conns) : conns[i].sessions >= conns[i].sessions
  BY <1>1, Lengths DEF TypeInv
<1>3. conns \in Seq(ConnRec) /\ Conns
  BY DEF TypeInv, Types, Referring
<1>4. Conns'
  BY <1>3 DEF Conns
<1>5. QED
  BY <1>2, <1>3, <1>4 DEF ConnsGrow

LEMMA SessionsKept ==
    ASSUME TypeInv, ConnsGrow, NEW o \in 1..Len(objs)
    PROVE  /\ objs[o].client \in 1..Len(conns) /\ objs[o].client \in 1..Len(conns')
           /\ conns'[objs[o].client].sessions \in Nat
           /\ \A n \in Nat : n <= conns[objs[o].client].sessions
                                => n <= conns'[objs[o].client].sessions
<1>1. PICK i \in 1..Len(conns) : i = objs[o].client
  BY DEF TypeInv, Referring, Objs
<1>2. Len(conns) \in Nat /\ conns[i] \in ConnRec /\ conns' \in Seq(ConnRec)
  BY <1>1, Lengths DEF TypeInv, ConnsGrow
<1>3. i \in 1..Len(conns')
  <2>1. Len(conns') \in Nat /\ Len(conns') >= Len(conns)
    BY <1>2 DEF ConnsGrow
  <2>2. QED
    BY <1>1, <1>2, <2>1
<1>4. conns'[i] \in ConnRec
  BY <1>2, <1>3
<1>5. conns[i].sessions \in Nat /\ conns'[i].sessions \in Nat
  BY <1>2, <1>4 DEF ConnRec
<1>6. conns'[i].sessions >= conns[i].sessions
  BY <1>1 DEF ConnsGrow
<1>7. \A n \in Nat : n <= conns[i].sessions => n <= conns'[i].sessions
  BY <1>5, <1>6
<1>8. QED
  BY <1>1, <1>3, <1>5, <1>7

\* Objects of which one at most is changed, in all but its client.
LEMMA ObjsSet ==
    ASSUME TypeInv, ConnsGrow, objs' \in Seq(ObjRec), Len(objs') = Len(objs),
           \A o \in 1..Len(objs) :
               /\ objs'[o].client = objs[o].client
               /\ objs'[o].session = objs[o].session
                  \/ objs'[o].session <= conns'[objs[o].client].sessions
    PROVE  ObjsGrow
<1>1. ASSUME NEW o \in 1..Len(objs')
      PROVE  objs'[o].client \in 1..Len(conns')
             /\ objs'[o].session <= conns'[objs'[o].client].sessions
  <2>1. o \in 1..Len(objs)
    OBVIOUS
  <2>2. objs[o].session \in Nat /\ objs[o].session <= conns[objs[o].client].sessions
    BY <2>1, Lengths DEF TypeInv, ObjRec, Referring, Objs
  <2>3. objs[o].session <= conns'[objs[o].client].sessions
    BY <2>1, <2>2, SessionsKept
  <2>4. QED
    BY <2>1, <2>3, SessionsKept
<1>2. Objs'
  BY <1>1 DEF Objs
<1>3. Len(objs') >= Len(objs)
  BY Lengths DEF TypeInv
<1>4. QED
  BY <1>2, <1>3 DEF ObjsGrow

LEMMA SameObjs == ASSUME TypeInv, ConnsGrow, UNCHANGED objs PROVE ObjsGrow
<1>1. objs \in Seq(ObjRec)
  BY DEF TypeInv, Types
<1>2. QED
  BY <1>1, ObjsSet

LEMMA SetObj ==
    ASSUME TypeInv, ConnsGrow, NEW o \in 1..Len(objs), NEW r \in ObjRec,
           objs' = [objs EXCEPT ![o] = r], r.client = objs[o].client,
           r.session = objs[o].session \/ r.session <= conns'[r.client].sessions
    PROVE  ObjsGrow
<1>1. objs \in Seq(ObjRec)
  BY DEF TypeInv, Types
<1>2. objs' \in Seq(ObjRec) /\ Len(objs') = Len(objs)
      /\ \A p \in 1..Len(objs) : objs'[p] = IF p = o THEN r ELSE objs[p]
  BY <1>1
<1>3. QED
  BY <1>2, ObjsSet

LEMMA SameServices == ASSUME TypeInv, UNCHANGED services PROVE ServicesGrow
<1>1. services \in Seq([dev: Devs, svc: Names]) /\ Len(services) \in Nat
  BY Lengths DEF TypeInv, Types
<1>2. QED
  BY <1>1 DEF ServicesGrow

\* The devices' clients and locks are replaced by others; a field is emptied or filled.
LEMMA DevicesSet ==
    ASSUME TypeInv, ConnsGrow, ObjsGrow, ServicesGrow, device' \in [Devs -> DeviceRec],
           \A d \in Devs :
              /\ \/ device'[d].client = device[d].client
                 \/ device'[d].client # 0 /\ device'[d].client <= Len(conns')
              /\ \/ device'[d].lock = device[d].lock
                 \/ device'[d].lock # 0 /\ device'[d].lock <= Len(objs')
              /\ \A f \in Kept \cup Reopened :
                    device'[d].cache[f] = device[d].cache[f] \/ Held(device'[d].cache[f], Len(services'))
    PROVE  DevicesGrow
<1>1. ASSUME NEW d \in Devs
      PROVE  /\ device'[d].client <= Len(conns') /\ device'[d].lock <= Len(objs')
             /\ \A f \in Kept \cup Reopened : Held(device'[d].cache[f], Len(services'))
             /\ device[d].client # 0 => device'[d].client # 0
             /\ device[d].lock # 0 => device'[d].lock # 0
  <2>1. device[d] \in DeviceRec /\ Len(conns) \in Nat /\ Len(objs) \in Nat
    BY Lengths DEF TypeInv
  <2>2. Len(conns') \in Nat /\ Len(objs') \in Nat /\ Len(conns') >= Len(conns)
        /\ Len(objs') >= Len(objs)
    BY DEF ConnsGrow, ObjsGrow
  <2>3. device[d].client \in Nat /\ device[d].lock \in Nat
        /\ \A f \in Kept \cup Reopened : device[d].cache[f] \in Seq(Nat)
    BY <2>1 DEF DeviceRec
  <2>4. device[d].client <= Len(conns) /\ device[d].lock <= Len(objs)
        /\ \A f \in Kept \cup Reopened : Held(device[d].cache[f], Len(services))
    BY DEF TypeInv, Referring, Devices
  <2>5. device[d].client <= Len(conns') /\ device[d].lock <= Len(objs')
    BY <2>1, <2>2, <2>3, <2>4
  <2>6. ASSUME NEW f \in Kept \cup Reopened PROVE Held(device'[d].cache[f], Len(services'))
    <3>1. PICK s \in Seq(Nat) : s = device[d].cache[f] /\ Held(s, Len(services))
      BY <2>3, <2>4
    <3>2. Held(s, Len(services'))
      BY <3>1, HeldKept DEF TypeInv
    <3>3. QED
      BY <3>1, <3>2
  <2>7. QED
    BY <2>5, <2>6
<1>2. Devices'
  BY <1>1 DEF Devices
<1>3. QED
  BY <1>1, <1>2 DEF DevicesGrow
LEMMA SameDevices ==
    ASSUME TypeInv, ConnsGrow, ObjsGrow, ServicesGrow, UNCHANGED device PROVE DevicesGrow
<1>1. device \in [Devs -> DeviceRec]
  BY DEF TypeInv, Types
<1>2. QED
  BY <1>1, DevicesSet

LEMMA SetConn ==
    ASSUME TypeInv, NEW i \in 1..Len(conns), NEW cn \in ConnRec, ConnOK(cn),
           cn.sessions >= conns[i].sessions, conns' = [conns EXCEPT ![i] = cn]
    PROVE  ConnsGrow
<1>1. conns \in Seq(ConnRec) /\ \A j \in 1..Len(conns) : ConnOK(conns[j])
  BY DEF TypeInv, Types, Referring, Conns
<1>2. conns' \in Seq(ConnRec) /\ Len(conns') = Len(conns) /\ Len(conns) \in Nat
      /\ \A j \in 1..Len(conns) : conns'[j] = IF j = i THEN cn ELSE conns[j]
  BY <1>1
<1>3. \A j \in 1..Len(conns) : conns[j].sessions \in Nat
  BY Lengths DEF TypeInv, ConnRec
<1>4. \A j \in 1..Len(conns') : ConnOK(conns'[j])
  BY <1>1, <1>2
<1>5. Conns'
  BY <1>4 DEF Conns, ConnOK, ReaderOK
<1>6. Len(conns') >= Len(conns)
  BY <1>2
<1>7. \A j \in 1..Len(conns) : conns'[j].sessions >= conns[j].sessions
  BY <1>2, <1>3
<1>8. QED
  BY <1>2, <1>5, <1>6, <1>7 DEF ConnsGrow

\* What reading and sending do to a stream.
LEMMA StreamParts ==
    ASSUME NEW q \in Stream
    PROVE  /\ q.answers \in Seq(AnswerRec) /\ q.reader \in Callers \cup {NoCaller}
           /\ q.mixed \in BOOLEAN /\ q.ended \in BOOLEAN
  BY DEF Stream, AnswerRec

LEMMA TakeBodyType ==
    ASSUME NEW q \in Stream, q.answers # <<>>
    PROVE  /\ TakeBody(q) \in Stream /\ ReaderOK(TakeBody(q))
           /\ TakeBody(q).answers = Tail(q.answers) /\ TakeBody(q).reader = NoCaller
           /\ TakeBody(q).mixed = q.mixed /\ TakeBody(q).ended = q.ended
           /\ Head(q.answers) \in AnswerRec
<1>1. Tail(q.answers) \in Seq(AnswerRec) /\ Head(q.answers) \in AnswerRec
  BY StreamParts
<1>2. QED
  BY <1>1, StreamParts DEF TakeBody, Stream, AnswerRec, ReaderOK

LEMMA TakeLengthType ==
    ASSUME NEW q \in Stream, NEW c \in Callers, q.answers # <<>>
    PROVE  /\ TakeLength(q, c) \in Stream /\ ReaderOK(TakeLength(q, c))
           /\ TakeLength(q, c).answers = q.answers /\ TakeLength(q, c).ended = q.ended
           /\ q.reader = NoCaller => TakeLength(q, c).reader = c /\ TakeLength(q, c).mixed = q.mixed
           /\ q.reader # NoCaller => TakeLength(q, c).reader = q.reader /\ TakeLength(q, c).mixed
<1>1. CASE q.reader = NoCaller
  BY <1>1 DEF TakeLength, Stream, ReaderOK
<1>2. CASE q.reader # NoCaller
  BY <1>2 DEF TakeLength, Stream, ReaderOK
<1>3. QED
  BY <1>1, <1>2

\* A connection with another stream.
LEMMA StreamSet ==
    ASSUME NEW cn \in ConnRec, ConnOK(cn), NEW q \in Stream, ReaderOK(q),
           \A j \in 1..Len(q.answers) : q.answers[j].num <= cn.sessions
    PROVE  /\ [cn EXCEPT !.stream = q] \in ConnRec /\ ConnOK([cn EXCEPT !.stream = q])
           /\ [cn EXCEPT !.stream = q].sessions >= cn.sessions
           /\ [cn EXCEPT !.stream = q].stream = q
           /\ [cn EXCEPT !.stream = q].sessions = cn.sessions
           /\ [cn EXCEPT !.stream = q].session = cn.session
           /\ [cn EXCEPT !.stream = q].tls = cn.tls /\ [cn EXCEPT !.stream = q].dev = cn.dev
           /\ [cn EXCEPT !.stream = q].devTls = cn.devTls
<1> DEFINE new == [cn EXCEPT !.stream = q]
<1>1. new \in ConnRec /\ new.stream = q /\ new.sessions = cn.sessions /\ new.session = cn.session
      /\ new.tls = cn.tls /\ new.devTls = cn.devTls /\ new.dev = cn.dev
  BY DEF ConnRec
<1>2. cn.sessions \in Nat
  BY DEF ConnRec
<1>3. ConnOK(new)
  BY <1>1 DEF ConnOK
<1>4. QED
  BY <1>1, <1>2, <1>3
LEMMA IdleType == Idle \in CallRec /\ Idle.pc = "idle" /\ Idle.phase = "send" /\ Idle.obj = 0
                  /\ Idle.op = "" /\ ~Idle.inner /\ Idle.got = <<>> /\ Idle.dev = NoDev
<1>1. <<>> \in Seq(Nat) /\ "" \in Names /\ NoRecord \in Record
  BY DEF Names, NoRecord, Record
<1>2. QED
  BY <1>1 DEF Idle, CallRec, Pcs

LEMMA IdleOK == TypeInv => CallOK(Idle)
<1>1. Idle.got = <<>> /\ Idle.obj = 0 /\ Idle.pc = "idle" /\ Idle.phase = "send" /\ ~Idle.inner
  BY IdleType
<1>2. "idle" \notin Locked /\ Held(<<>>, Len(services))
  BY DEF Locked, LockPcs, Held
<1>3. TypeInv => 0 <= Len(objs)
  BY Lengths DEF TypeInv
<1>4. QED
  BY <1>1, <1>2, <1>3 DEF CallOK

LEMMA WithObj ==
    ASSUME NEW l \in CallRec, NEW o \in Nat, NEW k, k = [l EXCEPT !.obj = o]
    PROVE  /\ k \in CallRec /\ k.obj = o /\ k.op = l.op /\ k.dev = l.dev /\ k.pc = l.pc
           /\ k.phase = l.phase /\ k.num = l.num /\ k.rec = l.rec /\ k.inner = l.inner
           /\ k.want = l.want /\ k.got = l.got
  BY DEF CallRec

LEMMA WithInner ==
    ASSUME NEW l \in CallRec, NEW k, k = [l EXCEPT !.inner = TRUE]
    PROVE  /\ k \in CallRec /\ k.inner /\ k.op = l.op /\ k.dev = l.dev /\ k.pc = l.pc
           /\ k.phase = l.phase /\ k.num = l.num /\ k.rec = l.rec /\ k.obj = l.obj
           /\ k.want = l.want /\ k.got = l.got
  BY DEF CallRec

LEMMA WithoutInner ==
    ASSUME NEW l \in CallRec, NEW k, k = [l EXCEPT !.inner = FALSE]
    PROVE  /\ k \in CallRec /\ ~k.inner /\ k.op = l.op /\ k.dev = l.dev /\ k.pc = l.pc
           /\ k.phase = l.phase /\ k.num = l.num /\ k.rec = l.rec /\ k.obj = l.obj
           /\ k.want = l.want /\ k.got = l.got
  BY DEF CallRec

LEMMA WithPhase ==
    ASSUME NEW l \in CallRec, NEW p \in {"send", "length", "body"}, NEW k,
           k = [l EXCEPT !.phase = p]
    PROVE  /\ k \in CallRec /\ k.phase = p /\ k.op = l.op /\ k.dev = l.dev /\ k.pc = l.pc
           /\ k.num = l.num /\ k.rec = l.rec /\ k.obj = l.obj /\ k.inner = l.inner
           /\ k.want = l.want /\ k.got = l.got
  BY DEF CallRec

\* A request or statement follows another one of the same call.
LEMMA GotoType ==
    ASSUME NEW l \in CallRec, NEW pc \in Pcs
    PROVE  /\ Goto(l, pc) \in CallRec /\ Goto(l, pc).pc = pc /\ Goto(l, pc).phase = "send"
           /\ Goto(l, pc).op = l.op /\ Goto(l, pc).dev = l.dev /\ Goto(l, pc).obj = l.obj
           /\ Goto(l, pc).num = l.num /\ Goto(l, pc).rec = l.rec /\ Goto(l, pc).inner = l.inner
           /\ Goto(l, pc).want = l.want /\ Goto(l, pc).got = l.got
  BY DEF Goto, CallRec

LEMMA ObjNow ==
    ASSUME TypeInv, NEW c \in Callers
    PROVE  /\ call[c].pc # "idle" => call[c].dev \in Devs
           /\ call[c].pc \in Locked \/ call[c].inner =>
                 /\ MyLock(c) \in 1..Len(objs) /\ call[c].pc # "idle"
           /\ call[c].pc \in Locked => ObjOf(c) \in 1..Len(objs)
           /\ call[c].pc \in Locked /\ ~(call[c].pc = "version" /\ call[c].phase = "send")
                 => call[c].obj \in 1..Len(objs)
<1>1. CallOK(call[c]) /\ call[c] \in CallRec
  BY Lengths DEF TypeInv, Referring
<1>2. call[c].pc # "idle" => call[c].dev \in Devs
  BY <1>1 DEF CallOK
<1>3. ASSUME call[c].pc \in Locked \/ call[c].inner
      PROVE  MyLock(c) \in 1..Len(objs) /\ call[c].pc # "idle"
  <2>1. device[call[c].dev].lock # 0 /\ call[c].pc # "idle"
    BY <1>1, <1>3 DEF CallOK
  <2>2. device[call[c].dev].lock <= Len(objs) /\ device[call[c].dev].lock \in Nat
    BY <1>2, <2>1, Lengths DEF TypeInv, Referring, Devices, DeviceRec
  <2>3. QED
    BY <2>1, <2>2, Lengths DEF MyLock, TypeInv
<1>4. ASSUME call[c].pc \in Locked, ~(call[c].pc = "version" /\ call[c].phase = "send")
      PROVE  call[c].obj \in 1..Len(objs)
  <2>1. call[c].obj # 0 /\ call[c].obj <= Len(objs)
    <3>1. call[c].phase \in {"send", "length", "body"}
      BY <1>1 DEF CallRec
    <3>2. QED
      BY <1>1, <1>4, <3>1 DEF CallOK
  <2>2. call[c].obj \in Nat
    BY <1>1 DEF CallRec
  <2>3. QED
    BY <2>1, <2>2, Lengths DEF TypeInv
<1>5. ASSUME call[c].pc \in Locked PROVE ObjOf(c) \in 1..Len(objs)
  BY <1>3, <1>4, <1>5 DEF ObjOf, Pc
<1>6. QED
  BY <1>2, <1>3, <1>4, <1>5

\* The same call at another request or statement, but those that need more.
LEMMA NextOK ==
    ASSUME TypeInv, NEW c \in Callers, call[c].pc # "idle", NEW k \in CallRec,
           k.got = call[c].got, k.dev = call[c].dev, k.pc \notin {"idle", "object", "tls"},
           k.pc \in Locked \/ k.inner => call[c].pc \in Locked \/ call[c].inner,
           k.obj <= Len(objs),
           k.pc \in Locked \ {"version"} \/ (k.pc = "version" /\ k.phase # "send") => k.obj # 0,
           k.phase # "send" => k.pc \in LockPcs \cup MuxPcs
    PROVE  CallOK(k)
<1>1. CallOK(call[c])
  BY DEF TypeInv, Referring
<1>2. k.dev \in Devs /\ Held(k.got, Len(services))
  BY <1>1 DEF CallOK
<1>3. k.pc \in Locked \/ k.inner => device[k.dev].lock # 0
  BY <1>1 DEF CallOK
<1>4. QED
  BY <1>2, <1>3 DEF CallOK

\* A step that ends the call, or starts the body of MisagentService: k is its call after.
Failed(c, k) ==
    /\ call' = [call EXCEPT ![c] = k] /\ k.phase = "send" /\ CallOK(k)
    /\ \/ ~call[c].inner /\ k = Idle
       \/ /\ call[c].inner /\ k.pc = "queryType" /\ k.obj = MyLock(c) /\ ~k.inner
          /\ k.op = call[c].op /\ k.dev = call[c].dev /\ k.want = call[c].want
          /\ k.got = call[c].got

LEMMA FailType ==
    ASSUME TypeInv, NEW c \in Callers, call[c].pc # "idle", Fail(c)
    PROVE  (\E k \in CallRec : Failed(c, k)) /\ panic' = panic
<1> DEFINE l == call[c]
<1>1. l \in CallRec /\ panic' = panic
  BY Lengths DEF TypeInv, Fail
<1>2. CASE l.inner
  <2> DEFINE k == [Goto(l, "queryType") EXCEPT !.inner = FALSE, !.obj = MyLock(c)]
  <2>1. MyLock(c) \in 1..Len(objs) /\ MyLock(c) \in Nat
    BY <1>2, ObjNow
  <2>2. "queryType" \in Pcs /\ "queryType" \in Locked
    BY DEF Pcs, Locked, LockPcs
  <2>3. k \in CallRec /\ k.pc = "queryType" /\ k.obj = MyLock(c) /\ ~k.inner
        /\ k.op = l.op /\ k.dev = l.dev /\ k.want = l.want /\ k.got = l.got /\ k.phase = "send"
    <3>1. PICK g \in CallRec : /\ g = Goto(l, "queryType") /\ g.pc = "queryType"
                               /\ g.op = l.op /\ g.dev = l.dev /\ g.want = l.want
                               /\ g.got = l.got /\ g.phase = "send"
      BY <1>1, <2>2, GotoType
    <3>2. k = [g EXCEPT !.inner = FALSE, !.obj = MyLock(c)]
      BY <3>1
    <3>3. QED
      BY <2>1, <3>1, <3>2 DEF CallRec
  <2>4. k.obj <= Len(objs) /\ k.obj # 0
    BY <2>1, <2>3, Lengths DEF TypeInv
  <2>5. CallOK(k)
    <3> HIDE DEF k
    <3>1. QED
      BY <1>2, <2>2, <2>3, <2>4, NextOK
  <2>6. call' = [call EXCEPT ![c] = k]
    BY <1>2 DEF Fail
  <2>7. Failed(c, k)
    BY <1>2, <2>3, <2>5, <2>6 DEF Failed
  <2>8. QED
    BY <1>1, <2>3, <2>7
<1>3. CASE ~l.inner
  <2>1. call' = [call EXCEPT ![c] = Idle]
    BY <1>3 DEF Fail
  <2>2. Failed(c, Idle)
    BY <1>3, <2>1, IdleType, IdleOK DEF Failed
  <2>3. QED
    BY <1>1, <2>2, IdleType
<1>4. QED
  BY <1>2, <1>3

\* A failure may empty the field of the service.
LEMMA FailDevices ==
    ASSUME TypeInv, NEW c \in Callers, call[c].pc # "idle", Fail(c)
    PROVE  /\ device' \in [Devs -> DeviceRec]
           /\ \A d \in Devs : /\ device'[d].client = device[d].client
                              /\ device'[d].lock = device[d].lock
                              /\ \A f \in Kept \cup Reopened :
                                    device'[d].cache[f] \in {device[d].cache[f], <<>>}
<1>0. device \in [Devs -> DeviceRec] /\ call[c].dev \in Devs
  BY ObjNow DEF TypeInv, Types
<1>1. CASE device' = device
  BY <1>0, <1>1
<1>2. CASE device' = [device EXCEPT ![call[c].dev].cache[Field(call[c].op)] = <<>>]
  <2> DEFINE old == device[call[c].dev]
             new == [old EXCEPT !.cache = [old.cache EXCEPT ![Field(call[c].op)] = <<>>]]
  <2>1. device' = [device EXCEPT ![call[c].dev] = new]
    BY <1>2
  <2>2. old \in DeviceRec /\ old.cache \in [Kept \cup Reopened -> Seq(Nat)]
    BY <1>0 DEF DeviceRec
  <2>3. <<>> \in Seq(Nat)
    OBVIOUS
  <2>4. new \in DeviceRec /\ new.client = old.client /\ new.lock = old.lock
        /\ \A f \in Kept \cup Reopened : new.cache[f] \in {old.cache[f], <<>>}
    BY <2>2, <2>3 DEF DeviceRec
  <2>5. QED
    BY <1>0, <2>1, <2>4
<1>3. QED
  BY <1>1, <1>2 DEF Fail

\* The kinds of steps, as far as types go: the call goes on, fails, or stands still.
LEMMA CallStep ==
    ASSUME TypeInv, NEW c \in Callers, NEW k \in CallRec, CallOK(k),
           call' = [call EXCEPT ![c] = k], ConnsGrow, ObjsGrow,
           UNCHANGED <<device, services, saved, trust, paired>>, mux' \in Stream, ReaderOK(mux')
    PROVE  TypeInv'
<1>1. ServicesGrow
  BY SameServices
<1>2. Grow
  BY <1>1, SameDevices DEF Grow
<1>3. CallOK(k)'
  BY <1>2, CallKept
<1>4. saved' \in [Devs -> Record] /\ trust' \in [Devs -> SUBSET Record] /\ paired' \in [Devs -> Nat]
  BY DEF TypeInv, Types
<1>5. QED
  BY <1>2, <1>3, <1>4, TypesStep

LEMMA FailStep ==
    ASSUME TypeInv, NEW c \in Callers, call[c].pc # "idle", Fail(c), ConnsGrow, ObjsGrow,
           UNCHANGED <<services, saved, trust, paired>>, mux' \in Stream, ReaderOK(mux')
    PROVE  TypeInv'
<1>1. ServicesGrow
  BY SameServices
<1>2. PICK k \in CallRec : Failed(c, k)
  BY FailType
<1>3. DevicesGrow
  <2>1. Held(<<>>, Len(services'))
    BY DEF Held
  <2>2. \A d \in Devs : \A f \in Kept \cup Reopened :
            device'[d].cache[f] = device[d].cache[f] \/ Held(device'[d].cache[f], Len(services'))
    BY <2>1, FailDevices
  <2>3. QED
    BY <1>1, <2>2, FailDevices, DevicesSet
<1>4. Grow
  BY <1>1, <1>3 DEF Grow
<1>5. CallOK(k)' /\ call' = [call EXCEPT ![c] = k]
  BY <1>2, <1>4, CallKept DEF Failed
<1>6. saved' \in [Devs -> Record] /\ trust' \in [Devs -> SUBSET Record] /\ paired' \in [Devs -> Nat]
  BY DEF TypeInv, Types
<1>7. QED
  BY <1>4, <1>5, <1>6, TypesStep

LEMMA StillStep ==
    ASSUME TypeInv, NEW c \in Callers, UNCHANGED call, ConnsGrow, ObjsGrow,
           UNCHANGED <<device, services, saved, trust, paired>>, mux' \in Stream, ReaderOK(mux')
    PROVE  TypeInv'
<1>1. PICK k \in CallRec : k = call[c]
  BY Lengths DEF TypeInv
<1>2. CallOK(k)
  BY <1>1 DEF TypeInv, Referring
<1>3. call' = [call EXCEPT ![c] = k]
  BY <1>1 DEF TypeInv, Types
<1>4. QED
  BY <1>2, <1>3, CallStep

\* A caller that takes an answer off a lockdown connection, or off usbmuxd's.
Takes(c) == /\ call[c].pc \in LockPcs /\ call[c].phase = "body"
            /\ conns[ConnOf(c)].stream.reader = c
            /\ conns' = [conns EXCEPT ![ConnOf(c)].stream = TakeBody(@)]

LEMMA ConnNow ==
    ASSUME TypeInv, NEW c \in Callers, call[c].pc \in Locked
    PROVE  /\ ConnOf(c) \in 1..Len(conns) /\ conns[ConnOf(c)] \in ConnRec
           /\ ConnOK(conns[ConnOf(c)]) /\ conns[ConnOf(c)].stream \in Stream
<1>1. PICK o \in 1..Len(objs) : ConnOf(c) = objs[o].client
  <2>1. CASE call[c].phase = "send"
    BY <2>1, ObjNow DEF ConnOf
  <2>2. CASE call[c].phase # "send"
    BY <2>2, ObjNow DEF ConnOf
  <2>3. QED
    BY <2>1, <2>2
<1>2. ConnOf(c) \in 1..Len(conns)
  BY <1>1 DEF TypeInv, Referring, Objs
<1>3. PICK i \in 1..Len(conns) : i = ConnOf(c)
  BY <1>2
<1>4. conns[i] \in ConnRec /\ ConnOK(conns[i])
  BY Lengths DEF TypeInv, Referring, Conns
<1>5. conns[i].stream \in Stream
  BY <1>4 DEF ConnRec
<1>6. QED
  BY <1>3, <1>4, <1>5

LEMMA TakesType ==
    ASSUME TypeInv, NEW c \in Callers, Takes(c)
    PROVE  /\ ConnsGrow /\ Ans(c) \in AnswerRec /\ Ans(c).num <= conns[ConnOf(c)].sessions
           /\ \A o \in 1..Len(objs) : conns'[objs[o].client].sessions = conns[objs[o].client].sessions
<1>1. call[c].pc \in Locked
  BY DEF Takes, Locked
<1>2. PICK i \in 1..Len(conns), cn \in ConnRec :
        i = ConnOf(c) /\ cn = conns[i] /\ ConnOK(cn) /\ cn.stream \in Stream
  BY <1>1, ConnNow
<1>3. cn.stream.answers # <<>>
  BY <1>2, Bounds DEF Takes, ConnOK, ReaderOK
<1>4. PICK q \in Stream : q = TakeBody(cn.stream) /\ ReaderOK(q) /\ q.answers = Tail(cn.stream.answers)
  BY <1>2, <1>3, TakeBodyType
<1>5. cn.stream.answers \in Seq(AnswerRec)
  BY <1>2, StreamParts
<1>6. \A j \in 1..Len(q.answers) : q.answers[j].num <= cn.sessions
  <2>1. \A j \in 1..Len(q.answers) : j + 1 \in 1..Len(cn.stream.answers)
                                     /\ q.answers[j] = cn.stream.answers[j + 1]
    BY <1>3, <1>4, <1>5
  <2>2. QED
    BY <1>2, <2>1 DEF ConnOK
<1>7. Head(cn.stream.answers) = cn.stream.answers[1] /\ 1 \in 1..Len(cn.stream.answers)
  BY <1>3, <1>5
<1>8. Ans(c) \in AnswerRec /\ Ans(c).num <= conns[ConnOf(c)].sessions
  BY <1>2, <1>5, <1>7 DEF Ans, ConnOK
<1>9. PICK new \in ConnRec : /\ new = [cn EXCEPT !.stream = q] /\ ConnOK(new)
                             /\ new.sessions >= cn.sessions /\ new.sessions = cn.sessions
  BY <1>2, <1>4, <1>6, StreamSet
<1>10. conns' = [conns EXCEPT ![i] = new]
  BY <1>2, <1>4, <1>9 DEF Takes
<1>11. ConnsGrow
  BY <1>2, <1>9, <1>10, SetConn
<1>12. \A j \in 1..Len(conns) : conns'[j].sessions = conns[j].sessions
  BY <1>2, <1>9, <1>10 DEF TypeInv, Types
<1>13. \A o \in 1..Len(objs) : objs[o].client \in 1..Len(conns)
  BY DEF TypeInv, Referring, Objs
<1>14. QED
  BY <1>8, <1>11, <1>12, <1>13

MuxTakes(c) == /\ call[c].pc \in MuxPcs /\ call[c].phase = "body" /\ mux.reader = c
               /\ mux' = TakeBody(mux)
LEMMA MuxTakesType ==
    ASSUME TypeInv, NEW c \in Callers, MuxTakes(c)
    PROVE  mux' \in Stream /\ ReaderOK(mux') /\ MuxAns \in AnswerRec
<1>1. mux \in Stream /\ mux.answers # <<>>
  BY Bounds DEF TypeInv, Types, Referring, ReaderOK, MuxTakes
<1>2. QED
  BY <1>1, TakeBodyType DEF MuxTakes, MuxAns

LEMMA SameMux == TypeInv /\ UNCHANGED mux => mux' \in Stream /\ ReaderOK(mux')
  BY DEF TypeInv, Types, Referring
-----------------------------------------------------------------------------
LEMMA TypeInit == Init => TypeInv
<1> SUFFICES ASSUME Init PROVE TypeInv
  OBVIOUS
<1>1. NoRecord \in Record /\ \A d \in Devs : [of |-> d, n |-> 0] \in Record
  BY DEF NoRecord, Record
<1>2. mux \in Stream /\ ReaderOK(mux)
  <2>1. mux = NoStream
    BY DEF Init
  <2>2. <<>> \in Seq(AnswerRec)
    OBVIOUS
  <2>3. NoStream \in Stream /\ NoStream.reader = NoCaller
    BY <2>2 DEF NoStream, Stream, AnswerRec
  <2>4. QED
    BY <2>1, <2>3 DEF ReaderOK
<1>3. saved \in [Devs -> Record] /\ trust \in [Devs -> SUBSET Record] /\ paired \in [Devs -> Nat]
  BY <1>1 DEF Init
<1>4. conns = <<>> /\ objs = <<>> /\ services = <<>>
  BY DEF Init
<1>5. conns \in Seq(ConnRec) /\ objs \in Seq(ObjRec) /\ services \in Seq([dev: Devs, svc: Names])
      /\ Len(conns) = 0 /\ Len(objs) = 0 /\ Len(services) = 0
  BY <1>4
<1>6. device \in [Devs -> DeviceRec]
      /\ \A d \in Devs : /\ device[d].client = 0 /\ device[d].lock = 0
                         /\ \A f \in Kept \cup Reopened : device[d].cache[f] = <<>>
  <2> DEFINE none == [client |-> 0, lock |-> 0, cache |-> [f \in Kept \cup Reopened |-> <<>>]]
  <2>1. none \in DeviceRec
    <3>1. <<>> \in Seq(Nat)
      OBVIOUS
    <3>2. QED
      BY <3>1 DEF DeviceRec
  <2>2. device = [d \in Devs |-> none]
    BY DEF Init
  <2>3. QED
    BY <2>1, <2>2
<1>7. call \in [Callers -> CallRec] /\ \A c \in Callers : call[c] = Idle
  BY IdleType DEF Init
<1>8. Types
  BY <1>2, <1>3, <1>5, <1>6, <1>7 DEF Types
<1>9. Conns /\ Objs /\ Devices
  <2>1. \A d \in Devs : device[d].client <= Len(conns) /\ device[d].lock <= Len(objs)
    BY <1>5, <1>6
  <2>2. Held(<<>>, Len(services))
    BY DEF Held
  <2>3. QED
    BY <1>5, <1>6, <2>1, <2>2 DEF Conns, Objs, Devices
<1>10. CallOK(Idle)
  <2>1. Idle.got = <<>> /\ Idle.obj = 0 /\ Idle.pc = "idle" /\ Idle.phase = "send" /\ ~Idle.inner
    BY IdleType
  <2>2. "idle" \notin Locked /\ Held(<<>>, Len(services))
    BY DEF Locked, LockPcs, Held
  <2>3. 0 <= Len(objs)
    BY <1>5
  <2>4. QED
    BY <2>1, <2>2, <2>3 DEF CallOK
<1>11. QED
  BY <1>2, <1>7, <1>8, <1>9, <1>10 DEF TypeInv, Referring

\* lockdownService has returned.
LEMMA AfterType ==
    ASSUME TypeInv, NEW c \in Callers, Pc(c) = "version"
    PROVE  LET k == AfterLockdown(c)
           IN /\ k \in CallRec /\ CallOK(k) /\ k.phase = "send" /\ k.obj = MyLock(c)
              /\ k.op = call[c].op /\ k.dev = call[c].dev /\ k.want = call[c].want
              /\ k.rec = call[c].rec /\ k.got = call[c].got
              /\ k.pc \in {"connect", "buid", "recovery", "session", "queryType"}
              /\ (k.inner <=> call[c].inner \/ k.pc = "connect")
              /\ k.pc = "connect" => k.op = "misagent" /\ ~call[c].inner
              /\ k.pc = "session" => InGetValue(c) /\ objs[k.obj].record # NoRecord
              /\ k.pc = "buid" => k.op = "pair"
              /\ k.pc = "recovery" => k.op = "enterRecovery"
<1> DEFINE l == call[c]
<1>1. l \in CallRec /\ "version" \in Locked /\ l.pc = "version"
  BY Lengths DEF TypeInv, Locked, LockPcs, Pc
<1>2. MyLock(c) \in 1..Len(objs) /\ MyLock(c) \in Nat
  BY <1>1, ObjNow
<1>3. PICK k0 : k0 = [l EXCEPT !.obj = MyLock(c)]
  OBVIOUS
<1>3a. /\ k0 \in CallRec /\ k0.obj = MyLock(c) /\ k0.op = l.op /\ k0.dev = l.dev
       /\ k0.want = l.want /\ k0.rec = l.rec /\ k0.got = l.got /\ k0.inner = l.inner
  BY <1>1, <1>2, <1>3, WithObj
<1>4. {"connect", "buid", "recovery", "session", "queryType"} \subseteq Pcs
  BY DEF Pcs, Locked, LockPcs
<1>5. ASSUME NEW pc \in {"connect", "buid", "recovery", "session", "queryType"}
      PROVE  /\ Goto(k0, pc) \in CallRec /\ Goto(k0, pc).obj = MyLock(c)
             /\ Goto(k0, pc).op = l.op /\ Goto(k0, pc).dev = l.dev /\ Goto(k0, pc).want = l.want
             /\ Goto(k0, pc).rec = l.rec /\ Goto(k0, pc).got = l.got
             /\ Goto(k0, pc).inner = l.inner /\ Goto(k0, pc).pc = pc /\ Goto(k0, pc).phase = "send"
  <2>1. pc \in Pcs
    BY <1>4
  <2>2. QED
    BY <1>3a, <2>1, GotoType
<1>6. PICK g : g = Goto(k0, "connect")
  OBVIOUS
<1>6a. PICK h : h = [g EXCEPT !.inner = TRUE]
  OBVIOUS
<1>7. /\ h \in CallRec /\ h.obj = MyLock(c) /\ h.op = l.op /\ h.dev = l.dev /\ h.want = l.want
      /\ h.pc = "connect" /\ h.rec = l.rec /\ h.got = l.got /\ h.phase = "send" /\ h.inner
  <2>1. "connect" \in {"connect", "buid", "recovery", "session", "queryType"}
    OBVIOUS
  <2>2. /\ g \in CallRec /\ g.obj = MyLock(c) /\ g.op = l.op /\ g.dev = l.dev /\ g.want = l.want
        /\ g.pc = "connect" /\ g.rec = l.rec /\ g.got = l.got /\ g.phase = "send"
    BY <1>5, <1>6, <2>1
  <2>3. QED
    BY <1>6a, <2>2, WithInner
<1>8. l.inner \in BOOLEAN
  BY <1>1 DEF CallRec
<1>9. AfterLockdown(c) =
        CASE l.op = "misagent" /\ ~l.inner -> h
          [] l.op = "pair" -> Goto(k0, "buid")
          [] l.op = "enterRecovery" -> Goto(k0, "recovery")
          [] InGetValue(c) /\ objs[MyLock(c)].record # NoRecord -> Goto(k0, "session")
          [] OTHER -> Goto(k0, "queryType")
  BY <1>3, <1>6, <1>6a DEF AfterLockdown
<1>10. PICK k : k = AfterLockdown(c)
  OBVIOUS
<1>11. /\ k \in CallRec /\ k.phase = "send" /\ k.obj = MyLock(c)
       /\ k.op = l.op /\ k.dev = l.dev /\ k.want = l.want /\ k.rec = l.rec /\ k.got = l.got
       /\ k.pc \in {"connect", "buid", "recovery", "session", "queryType"}
       /\ (k.inner <=> l.inner \/ k.pc = "connect")
       /\ k.pc = "connect" => k.op = "misagent" /\ ~l.inner
       /\ k.pc = "session" => InGetValue(c) /\ objs[k.obj].record # NoRecord
       /\ k.pc = "buid" => k.op = "pair"
       /\ k.pc = "recovery" => k.op = "enterRecovery"
  <2>1. CASE l.op = "misagent" /\ ~l.inner
    <3>1. k = h /\ ~l.inner
      BY <1>9, <1>10, <2>1 DEF InGetValue
    <3>2. QED
      BY <1>7, <2>1, <3>1
  <2>2. CASE ~(l.op = "misagent" /\ ~l.inner) /\ l.op = "pair"
    BY <1>5, <1>8, <1>9, <1>10, <2>2
  <2>3. CASE ~(l.op = "misagent" /\ ~l.inner) /\ l.op = "enterRecovery"
    BY <1>5, <1>8, <1>9, <1>10, <2>3
  <2>4. CASE /\ ~(l.op = "misagent" /\ ~l.inner) /\ l.op # "pair" /\ l.op # "enterRecovery"
             /\ InGetValue(c) /\ objs[MyLock(c)].record # NoRecord
    BY <1>5, <1>8, <1>9, <1>10, <2>4
  <2>5. CASE /\ ~(l.op = "misagent" /\ ~l.inner) /\ l.op # "pair" /\ l.op # "enterRecovery"
             /\ ~(InGetValue(c) /\ objs[MyLock(c)].record # NoRecord)
    BY <1>5, <1>8, <1>9, <1>10, <2>5
  <2>6. QED
    BY <2>1, <2>2, <2>3, <2>4, <2>5
<1>12. CallOK(k)
  <2>1. k.obj <= Len(objs) /\ k.obj # 0
    BY <1>2, <1>11, Lengths DEF TypeInv
  <2>2. k.pc \notin {"idle", "object", "tls"} /\ call[c].pc \in Locked /\ call[c].pc # "idle"
    BY <1>1, <1>11
  <2>3. QED
    BY <1>11, <2>1, <2>2, NextOK
<1>13. QED
  BY <1>10, <1>11, <1>12
\* The session is over.
LEMMA AfterSessionType ==
    ASSUME TypeInv, NEW c \in Callers, call[c].pc \in Locked, NEW l \in CallRec,
           l.dev = call[c].dev, l.got = call[c].got, l.inner <=> call[c].inner,
           l.obj \in 1..Len(objs), NEW m, m = AfterSession(l)
    PROVE  /\ m \in CallRec /\ CallOK(m) /\ m.phase = "send"
           /\ m = Idle \/ /\ m.op = l.op /\ m.dev = l.dev /\ m.want = l.want /\ m.got = l.got
                          /\ m.rec = l.rec /\ ~m.inner
           /\ l.inner => m.pc = "queryType" /\ m.obj = MyLock(c) /\ m.op = l.op
           /\ ~l.inner /\ l.op = "getValue" => m = Idle
           /\ ~l.inner /\ l.op # "getValue" => m.pc = "dial" /\ m.obj = l.obj /\ m.op = l.op
<1>0. {"queryType", "dial"} \subseteq Pcs \cap Locked /\ call[c].pc # "idle"
  BY DEF Pcs, Locked, LockPcs
<1>1. MyLock(c) \in 1..Len(objs) /\ MyLock(c) \in Nat /\ device[l.dev].lock = MyLock(c)
  BY ObjNow DEF MyLock
<1>2. CASE l.inner
  <2>1. PICK g : g = Goto(l, "queryType")
    OBVIOUS
  <2>2. /\ g \in CallRec /\ g.pc = "queryType" /\ g.op = l.op /\ g.dev = l.dev /\ g.want = l.want
        /\ g.got = l.got /\ g.phase = "send" /\ g.rec = l.rec
    BY <1>0, <2>1, GotoType
  <2>3. PICK h : h = [g EXCEPT !.inner = FALSE]
    OBVIOUS
  <2>4. /\ h \in CallRec /\ h.pc = "queryType" /\ h.op = l.op /\ h.dev = l.dev /\ h.want = l.want
        /\ h.got = l.got /\ h.phase = "send" /\ h.rec = l.rec /\ ~h.inner
    BY <2>2, <2>3, WithoutInner
  <2>5. m = [h EXCEPT !.obj = MyLock(c)]
    BY <1>1, <1>2, <2>1, <2>2, <2>3 DEF AfterSession, CallRec
  <2>6. /\ m \in CallRec /\ m.pc = "queryType" /\ m.op = l.op /\ m.dev = l.dev /\ m.want = l.want
        /\ m.got = l.got /\ m.phase = "send" /\ m.rec = l.rec /\ ~m.inner /\ m.obj = MyLock(c)
    BY <1>1, <2>4, <2>5, WithObj
  <2>7. m.obj <= Len(objs) /\ m.obj # 0
    BY <1>1, <2>6, Lengths DEF TypeInv
  <2>8. CallOK(m)
    BY <1>0, <2>6, <2>7, NextOK
  <2>9. QED
    BY <1>2, <2>6, <2>8
<1>3. CASE ~l.inner /\ l.op = "getValue"
  <2>1. m = Idle
    BY <1>3 DEF AfterSession
  <2>2. QED
    BY <1>3, <2>1, IdleType, IdleOK
<1>4. CASE ~l.inner /\ l.op # "getValue"
  <2>1. m = Goto(l, "dial")
    BY <1>4 DEF AfterSession
  <2>2. /\ m \in CallRec /\ m.pc = "dial" /\ m.op = l.op /\ m.dev = l.dev /\ m.want = l.want
        /\ m.got = l.got /\ m.phase = "send" /\ m.rec = l.rec /\ m.obj = l.obj
        /\ m.inner = l.inner
    BY <1>0, <2>1, GotoType
  <2>3. m.obj <= Len(objs) /\ m.obj # 0
    BY <2>2, Lengths DEF TypeInv
  <2>4. CallOK(m)
    BY <1>0, <2>2, <2>3, NextOK
  <2>5. QED
    BY <1>4, <2>2, <2>4
<1>5. QED
  BY <1>2, <1>3, <1>4
-----------------------------------------------------------------------------
\* The steps, as far as types go.
LEMMA FieldType ==
    /\ \A op \in ServiceOps \cup PlainOps : Field(op) \in Names
    /\ \A op \in Kept \cup Reopened : Field(op) \in Kept \cup Reopened
    /\ \A op \in Kept : Field(op) = op
<1>1. "springBoard" \in Kept /\ "icon" \notin Kept
  BY DEF Kept
<1>2. QED
  BY <1>1 DEF Field, Names, ServiceOps

LEMMA BeginType == ASSUME TypeInv, NEW c \in Callers, Begin(c) PROVE TypeInv'
<1>1. PICK op \in Ops, d \in Devs :
        call' = [call EXCEPT ![c] =
             [Idle EXCEPT !.op = op, !.dev = d, !.want = Field(op),
                          !.pc = IF op = "deletePairRecord" THEN "deleteRecord"
                                 ELSE IF op \in Kept /\ device[d].cache[op] # <<>> THEN "use"
                                 ELSE "connect"]]
  BY DEF Begin
<1>2. PICK pc \in {"deleteRecord", "use", "connect"} :
        pc = IF op = "deletePairRecord" THEN "deleteRecord"
             ELSE IF op \in Kept /\ device[d].cache[op] # <<>> THEN "use" ELSE "connect"
  OBVIOUS
<1>3. PICK k : k = [Idle EXCEPT !.op = op, !.dev = d, !.want = Field(op), !.pc = pc]
  OBVIOUS
<1>4. op \in ServiceOps \cup PlainOps /\ Field(op) \in Names
  BY Bounds, FieldType
<1>5. pc \in Pcs /\ pc \notin Locked /\ pc # "idle" /\ pc # "object" /\ pc # "tls"
  BY DEF Pcs, Locked, LockPcs
<1>6. k \in CallRec /\ k.pc = pc /\ k.dev = d /\ k.obj = 0 /\ k.got = <<>> /\ ~k.inner
      /\ k.phase = "send"
  BY <1>3, <1>4, <1>5, IdleType DEF CallRec
<1>7. CallOK(k)
  <2>1. 0 <= Len(objs) /\ Held(<<>>, Len(services))
    BY Lengths DEF TypeInv, Held
  <2>2. QED
    BY <1>5, <1>6, <2>1 DEF CallOK
<1>8. call' = [call EXCEPT ![c] = k]
  BY <1>1, <1>2, <1>3
<1>9. UNCHANGED <<mux, conns, objs, device, services, saved, trust, paired>>
  BY DEF Begin, world
<1>10. ConnsGrow
  BY <1>9, SameConns
<1>11. ObjsGrow
  BY <1>9, <1>10, SameObjs
<1>12. QED
  BY <1>6, <1>7, <1>8, <1>9, <1>10, <1>11, SameMux, CallStep
LEMMA OnlyCall ==
    ASSUME TypeInv, NEW c \in Callers, NEW k \in CallRec, CallOK(k),
           call' = [call EXCEPT ![c] = k], UNCHANGED <<mux, conns, objs, device, world>>
    PROVE  TypeInv'
<1>1. ConnsGrow
  BY SameConns
<1>2. ObjsGrow
  BY <1>1, SameObjs
<1>3. QED
  BY <1>1, <1>2, SameMux, CallStep DEF world

LEMMA OnlyFail ==
    ASSUME TypeInv, NEW c \in Callers, call[c].pc # "idle", Fail(c),
           UNCHANGED <<mux, conns, objs, world>>
    PROVE  TypeInv'
<1>1. ConnsGrow
  BY SameConns
<1>2. ObjsGrow
  BY <1>1, SameObjs
<1>3. QED
  BY <1>1, <1>2, SameMux, FailStep DEF world

LEMMA OnlyStill ==
    ASSUME TypeInv, NEW c \in Callers, UNCHANGED <<mux, conns, objs, device, call, world>>
    PROVE  TypeInv'
<1>1. ConnsGrow
  BY SameConns
<1>2. ObjsGrow
  BY <1>1, SameObjs
<1>3. QED
  BY <1>1, <1>2, SameMux, StillStep DEF world

LEMMA ConnectType == ASSUME TypeInv, NEW c \in Callers, Connect(c) PROVE TypeInv'
<1>1. call[c].pc = "connect" /\ UNCHANGED <<mux, objs, world>> /\ call[c].dev \in Devs
  BY ObjNow DEF Connect, Pc
<1>2. CASE Fail(c) /\ UNCHANGED conns
  BY <1>1, <1>2, OnlyFail
<1>3. CASE /\ conns' = Append(conns, [stream |-> NoStream, dev |-> call[c].dev, tls |-> "off",
                                     devTls |-> "off", session |-> 0, sessions |-> 0])
           /\ device' = [device EXCEPT ![call[c].dev].client = Len(conns')]
           /\ call' = [call EXCEPT ![c].pc = "object"]
  <2> DEFINE new == [stream |-> NoStream, dev |-> call[c].dev, tls |-> "off",
                     devTls |-> "off", session |-> 0, sessions |-> 0]
  <2>0. NoStream \in Stream /\ NoStream.reader = NoCaller /\ NoStream.answers = <<>>
    <3>1. <<>> \in Seq(AnswerRec)
      OBVIOUS
    <3>2. QED
      BY <3>1 DEF NoStream, Stream, AnswerRec
  <2>1. new \in ConnRec /\ ConnOK(new)
    BY <1>1, <2>0 DEF ConnRec, Tls, ConnOK, ReaderOK
  <2>2. conns \in Seq(ConnRec) /\ Len(conns) \in Nat
    BY Lengths DEF TypeInv, Types
  <2> HIDE DEF new
  <2>3. conns' = Append(conns, new)
    BY <1>3 DEF new
  <2>4. /\ conns' \in Seq(ConnRec) /\ Len(conns') = Len(conns) + 1
        /\ \A i \in 1..Len(conns) : conns'[i] = conns[i]
        /\ conns'[Len(conns) + 1] = new
    BY <2>1, <2>2, <2>3
  <2>5. \A i \in 1..Len(conns') : i \in 1..Len(conns) \/ i = Len(conns) + 1
    BY <2>2, <2>4
  <2>6. \A i \in 1..Len(conns') : ConnOK(conns'[i])
    BY <2>1, <2>4, <2>5 DEF TypeInv, Referring, Conns
  <2>7. \A i \in 1..Len(conns) : conns[i].sessions \in Nat
    BY Lengths DEF TypeInv, ConnRec
  <2>8. ConnsGrow
    <3>1. Conns'
      BY <2>6 DEF Conns, ConnOK, ReaderOK
    <3>2. Len(conns') >= Len(conns) /\ \A i \in 1..Len(conns) : conns'[i].sessions >= conns[i].sessions
      BY <2>2, <2>4, <2>7
    <3>3. QED
      BY <2>4, <3>1, <3>2 DEF ConnsGrow
  <2>9. ObjsGrow /\ ServicesGrow
    BY <1>1, <2>8, SameObjs, SameServices DEF world
  <2>10. device \in [Devs -> DeviceRec]
    BY DEF TypeInv, Types
  <2>11. PICK old \in DeviceRec : old = device[call[c].dev]
    BY <1>1, <2>10
  <2>12. PICK d2 : d2 = [old EXCEPT !.client = Len(conns')]
    OBVIOUS
  <2>13. Len(conns') \in Nat /\ Len(conns') # 0 /\ Len(conns') <= Len(conns')
    BY <2>2, <2>4
  <2>14. d2 \in DeviceRec /\ d2.client = Len(conns') /\ d2.lock = old.lock /\ d2.cache = old.cache
    BY <2>12, <2>13 DEF DeviceRec
  <2>15. device' = [device EXCEPT ![call[c].dev] = d2]
    BY <1>3, <2>11, <2>12
  <2>16. device' \in [Devs -> DeviceRec]
         /\ \A d \in Devs : device'[d] = IF d = call[c].dev THEN d2 ELSE device[d]
    BY <1>1, <2>10, <2>14, <2>15
  <2>17. DevicesGrow
    BY <2>8, <2>9, <2>11, <2>13, <2>14, <2>16, DevicesSet
  <2>18. Grow
    BY <2>8, <2>9, <2>17 DEF Grow
  <2>19. call[c] \in CallRec /\ CallOK(call[c]) /\ "object" \in Pcs
    BY Lengths DEF TypeInv, Referring, Pcs
  <2>20. PICK l \in CallRec : l = call[c] /\ CallOK(l)
    BY <2>19
  <2>21. CallOK(l)'
    BY <2>18, <2>20, CallKept
  <2>22. PICK k : k = [l EXCEPT !.pc = "object"]
    OBVIOUS
  <2>23. /\ k \in CallRec /\ k.pc = "object" /\ k.dev = l.dev /\ k.obj = l.obj /\ k.got = l.got
         /\ k.inner = l.inner /\ k.phase = l.phase
    BY <2>19, <2>22 DEF CallRec
  <2>24. "object" \notin Locked /\ "connect" \notin LockPcs \cup MuxPcs
    BY DEF Locked, LockPcs, MuxPcs
  <2>25. CallOK(k)'
    <3>1. k.dev \in Devs /\ device'[k.dev].client # 0
      BY <1>1, <2>13, <2>14, <2>16, <2>20, <2>23
    <3>2. k.obj <= Len(objs') /\ Held(k.got, Len(services')) /\ k.phase = "send"
          /\ (k.inner => device'[k.dev].lock # 0)
      BY <1>1, <2>20, <2>21, <2>23, <2>24 DEF CallOK
    <3>3. QED
      BY <2>23, <2>24, <3>1, <3>2 DEF CallOK
  <2>26. call' = [call EXCEPT ![c] = k]
    BY <1>3, <2>20, <2>22
  <2>27. saved' \in [Devs -> Record] /\ trust' \in [Devs -> SUBSET Record] /\ paired' \in [Devs -> Nat]
         /\ mux' \in Stream /\ ReaderOK(mux')
    BY <1>1, SameMux DEF TypeInv, Types, world
  <2>28. QED
    BY <2>18, <2>23, <2>25, <2>26, <2>27, TypesStep
<1>4. QED
  BY <1>2, <1>3 DEF Connect

LEMMA NewLockdownType == ASSUME TypeInv, NEW c \in Callers, NewLockdown(c) PROVE TypeInv'
<1>1. /\ call[c].pc = "object" /\ UNCHANGED <<mux, conns, world>> /\ call[c].dev \in Devs
      /\ call[c] \in CallRec /\ CallOK(call[c])
      /\ objs' = Append(objs, [client |-> device[call[c].dev].client, version |-> FALSE,
                               record |-> NoRecord, session |-> 0])
      /\ device' = [device EXCEPT ![call[c].dev].lock = Len(objs')]
      /\ call' = [call EXCEPT ![c].pc = "version"]
  BY ObjNow, Lengths DEF NewLockdown, Pc, TypeInv, Referring
<1> DEFINE n == device[call[c].dev].client
           new == [client |-> n, version |-> FALSE, record |-> NoRecord, session |-> 0]
<1>2. n \in 1..Len(conns) /\ n \in Nat
  <2>1. n # 0 /\ n <= Len(conns)
    BY <1>1 DEF CallOK, TypeInv, Referring, Devices
  <2>2. n \in Nat
    BY <1>1, Lengths DEF TypeInv, DeviceRec
  <2>3. QED
    BY <2>1, <2>2, Lengths DEF TypeInv
<1>3. new \in ObjRec /\ new.client = n /\ new.session = 0
  BY <1>2 DEF ObjRec, NoRecord, Record
<1>4. objs \in Seq(ObjRec) /\ Len(objs) \in Nat
  BY Lengths DEF TypeInv, Types
<1>5. objs' = Append(objs, new)
  BY <1>1
<1> HIDE DEF n, new
<1>6. /\ objs' \in Seq(ObjRec) /\ Len(objs') = Len(objs) + 1
      /\ \A o \in 1..Len(objs) : objs'[o] = objs[o]
      /\ objs'[Len(objs) + 1] = new
  BY <1>3, <1>4, <1>5
<1>7. ConnsGrow
  BY <1>1, SameConns
<1>8. ObjsGrow
  <2>1. \A o \in 1..Len(objs') : o \in 1..Len(objs) \/ o = Len(objs) + 1
    BY <1>4, <1>6
  <2>2. conns[n].sessions \in Nat
    <3>1. PICK i \in 1..Len(conns) : i = n
      BY <1>2
    <3>2. QED
      BY <3>1, Lengths DEF TypeInv, ConnRec
  <2>3. 0 <= conns[n].sessions
    BY <2>2
  <2>4. \A o \in 1..Len(objs') : objs'[o].client \in 1..Len(conns)
                                 /\ objs'[o].session <= conns[objs'[o].client].sessions
    BY <1>2, <1>3, <1>6, <2>1, <2>3 DEF TypeInv, Referring, Objs
  <2>5. Objs'
    BY <1>1, <2>4 DEF Objs
  <2>6. Len(objs') >= Len(objs)
    BY <1>4, <1>6
  <2>7. QED
    BY <1>6, <2>5, <2>6 DEF ObjsGrow
<1>9. ServicesGrow
  BY <1>1, SameServices DEF world
<1>10. device \in [Devs -> DeviceRec]
  BY DEF TypeInv, Types
<1>11. PICK old \in DeviceRec : old = device[call[c].dev]
  BY <1>1, <1>10
<1>12. PICK d2 : d2 = [old EXCEPT !.lock = Len(objs')]
  OBVIOUS
<1>13. Len(objs') \in Nat /\ Len(objs') # 0 /\ Len(objs') <= Len(objs')
  BY <1>4, <1>6
<1>14. d2 \in DeviceRec /\ d2.lock = Len(objs') /\ d2.client = old.client /\ d2.cache = old.cache
  BY <1>12, <1>13 DEF DeviceRec
<1>15. device' = [device EXCEPT ![call[c].dev] = d2]
  BY <1>1, <1>11, <1>12
<1>16. device' \in [Devs -> DeviceRec]
       /\ \A d \in Devs : device'[d] = IF d = call[c].dev THEN d2 ELSE device[d]
  BY <1>1, <1>10, <1>14, <1>15
<1>17. DevicesGrow
  BY <1>7, <1>8, <1>9, <1>11, <1>13, <1>14, <1>16, DevicesSet
<1>18. Grow
  BY <1>7, <1>8, <1>9, <1>17 DEF Grow
<1>19. PICK l \in CallRec : l = call[c] /\ CallOK(l)
  BY <1>1
<1>20. CallOK(l)'
  BY <1>18, <1>19, CallKept
<1>21. PICK k : k = [l EXCEPT !.pc = "version"]
  OBVIOUS
<1>22. "version" \in Pcs /\ "version" \notin {"idle", "object", "tls"}
       /\ "object" \notin LockPcs \cup MuxPcs
  BY DEF Pcs, Locked, LockPcs, MuxPcs
<1>23. /\ k \in CallRec /\ k.pc = "version" /\ k.dev = l.dev /\ k.obj = l.obj /\ k.got = l.got
       /\ k.inner = l.inner /\ k.phase = l.phase
  BY <1>21, <1>22 DEF CallRec
<1>24. CallOK(k)'
  <2>1. k.dev \in Devs /\ device'[k.dev].lock # 0 /\ k.phase = "send"
    BY <1>1, <1>13, <1>14, <1>16, <1>19, <1>22, <1>23 DEF CallOK
  <2>2. k.obj <= Len(objs') /\ Held(k.got, Len(services'))
    BY <1>20, <1>23 DEF CallOK
  <2>3. QED
    BY <1>22, <1>23, <2>1, <2>2 DEF CallOK
<1>25. call' = [call EXCEPT ![c] = k]
  BY <1>1, <1>19, <1>21
<1>26. saved' \in [Devs -> Record] /\ trust' \in [Devs -> SUBSET Record] /\ paired' \in [Devs -> Nat]
       /\ mux' \in Stream /\ ReaderOK(mux')
  BY <1>1, SameMux DEF TypeInv, Types, world
<1>27. QED
  BY <1>18, <1>23, <1>24, <1>25, <1>26, TypesStep

LEMMA KnownVersionType == ASSUME TypeInv, NEW c \in Callers, KnownVersion(c) PROVE TypeInv'
<1>1. Pc(c) = "version" /\ UNCHANGED <<mux, conns, objs, device, world>>
      /\ call' = [call EXCEPT ![c] = AfterLockdown(c)]
  BY DEF KnownVersion
<1>2. PICK k \in CallRec : k = AfterLockdown(c) /\ CallOK(k)
  BY <1>1, AfterType
<1>3. QED
  BY <1>1, <1>2, OnlyCall
-----------------------------------------------------------------------------
\* What the device answers: a, after which its end of the connection is base.
Reply(c, cn, base, a) ==
    /\ base \in ConnRec /\ base.stream = cn.stream /\ base.dev = cn.dev /\ base.tls = cn.tls
    /\ a \in AnswerRec /\ a.to = LockKind[Pc(c)] /\ a.num <= base.sessions
    /\ base.session <= base.sessions /\ base.sessions >= cn.sessions
    /\ \/ a.err = "error" /\ base = cn
       \/ /\ a.err = "" /\ a.to = "StartSession" /\ a.num = base.session
          /\ base.session = cn.sessions + 1 /\ base.sessions = cn.sessions + 1
          /\ base.devTls = IF a.ssl THEN "asked" ELSE cn.devTls
       \/ /\ a.err = "" /\ a.to = "StopSession" /\ base.session = 0
          /\ base.sessions = cn.sessions /\ base.devTls \in {cn.devTls, "off"}
       \/ a.err = "" /\ a.to = "StartService" /\ a.key = call[c].want /\ base = cn
       \/ /\ a.err = "" /\ a.to \in {"GetValue", "QueryType", "Pair", "EnterRecovery"}
          /\ a.key = Pc(c) /\ base = cn

LEMMA AnswerType ==
    ASSUME NEW to \in Requests
    PROVE  /\ Answer(to) \in AnswerRec /\ Answer(to).to = to /\ Answer(to).err = ""
           /\ Answer(to).num = 0 /\ Answer(to).rec = NoRecord
<1>1. "" \in Names /\ NoRecord \in Record
  BY DEF Names, NoRecord, Record
<1>2. QED
  BY <1>1 DEF Answer, AnswerRec

LEMMA RefuseReply ==
    ASSUME TypeInv, NEW c \in Callers, Pc(c) \in LockPcs, NEW cn \in ConnRec, ConnOK(cn)
    PROVE  LET a == [Answer(LockKind[Pc(c)]) EXCEPT !.err = "error"]
           IN Reply(c, cn, cn, a) /\ Refuse(cn, LockKind[Pc(c)]) = Put(cn, a)
<1>1. LockKind[Pc(c)] \in Requests
  BY Kinds
<1> DEFINE a0 == Answer(LockKind[Pc(c)])
           a == [a0 EXCEPT !.err = "error"]
<1>2. a0 \in AnswerRec /\ a0.to = LockKind[Pc(c)] /\ a0.num = 0
  BY <1>1, AnswerType
<1>3. a \in AnswerRec /\ a.to = LockKind[Pc(c)] /\ a.num = 0 /\ a.err = "error"
  <2> HIDE DEF a0
  <2>1. QED
    BY <1>2 DEF AnswerRec
<1>4. cn.sessions \in Nat /\ cn.session <= cn.sessions
  BY DEF ConnRec, ConnOK
<1>5. 0 <= cn.sessions /\ cn.sessions >= cn.sessions
  BY <1>4
<1> HIDE DEF a0, a
<1>6. Reply(c, cn, cn, a)
  BY <1>3, <1>4, <1>5 DEF Reply
<1>7. QED
  BY <1>6 DEF a, a0, Refuse

LEMMA ServedReply ==
    ASSUME TypeInv, NEW c \in Callers, Pc(c) \in LockPcs, NEW cn \in ConnRec, ConnOK(cn),
           NEW cn2 \in Served(cn, c)
    PROVE  \E base \in ConnRec, a \in AnswerRec : Reply(c, cn, base, a) /\ cn2 = Put(base, a)
<1> DEFINE kind == LockKind[Pc(c)]
           a0 == Answer(kind)
<1>0. /\ cn.sessions \in Nat /\ cn.session \in Nat /\ cn.session <= cn.sessions
      /\ cn.devTls \in Tls /\ "asked" \in Tls /\ "off" \in Tls
  BY DEF ConnRec, ConnOK, Tls
<1>1. kind \in Requests /\ a0 \in AnswerRec /\ a0.to = kind /\ a0.num = 0 /\ a0.err = ""
  BY Kinds, AnswerType
<1>2. call[c].want \in Names /\ Pc(c) \in Names
  BY Kinds, Lengths DEF TypeInv, CallRec, Names
<1> HIDE DEF a0
<1>3. CASE cn2 = Refuse(cn, kind)
  <2>1. PICK a : a = [Answer(LockKind[Pc(c)]) EXCEPT !.err = "error"]
    OBVIOUS
  <2>2. Reply(c, cn, cn, a) /\ cn2 = Put(cn, a)
    BY <1>3, <2>1, RefuseReply
  <2>3. a \in AnswerRec
    BY <2>2 DEF Reply
  <2>4. QED
    BY <2>2, <2>3
<1>4. ASSUME NEW ssl \in BOOLEAN, kind = "StartSession",
             cn2 = Put([cn EXCEPT !.session = cn.sessions + 1, !.sessions = @ + 1,
                                  !.devTls = IF ssl THEN "asked" ELSE @],
                       [a0 EXCEPT !.num = cn.sessions + 1, !.ssl = ssl])
      PROVE  \E base \in ConnRec, a \in AnswerRec : Reply(c, cn, base, a) /\ cn2 = Put(base, a)
  <2>1. PICK n \in Nat : n = cn.sessions + 1
    BY <1>0
  <2>2. PICK t \in Tls : t = IF ssl THEN "asked" ELSE cn.devTls
    BY <1>0
  <2>3. PICK base : base = [cn EXCEPT !.session = n, !.sessions = n, !.devTls = t]
    OBVIOUS
  <2>4. PICK a : a = [a0 EXCEPT !.num = n, !.ssl = ssl]
    OBVIOUS
  <2>5. base \in ConnRec /\ base.stream = cn.stream /\ base.dev = cn.dev /\ base.tls = cn.tls
        /\ base.session = n /\ base.sessions = n /\ base.devTls = t
    BY <2>3 DEF ConnRec
  <2>6. a \in AnswerRec /\ a.to = kind /\ a.num = n /\ a.err = "" /\ (a.ssl <=> ssl)
    BY <1>1, <2>4 DEF AnswerRec
  <2>7. n <= n /\ n >= cn.sessions
    BY <1>0, <2>1
  <2>8. Reply(c, cn, base, a)
    <3>1. base.devTls = IF a.ssl THEN "asked" ELSE cn.devTls
      BY <2>2, <2>5, <2>6
    <3>2. QED
      BY <1>4, <2>1, <2>5, <2>6, <2>7, <3>1 DEF Reply
  <2>9. cn2 = Put(base, a)
    BY <1>4, <2>1, <2>2, <2>3, <2>4
  <2>10. QED
    BY <2>5, <2>6, <2>8, <2>9
<1>5. ASSUME NEW t \in {cn.devTls, "off"}, kind = "StopSession",
             cn2 = Put([cn EXCEPT !.session = 0, !.devTls = t], a0)
      PROVE  \E base \in ConnRec, a \in AnswerRec : Reply(c, cn, base, a) /\ cn2 = Put(base, a)
  <2>1. PICK base : base = [cn EXCEPT !.session = 0, !.devTls = t]
    OBVIOUS
  <2>2. base \in ConnRec /\ base.stream = cn.stream /\ base.dev = cn.dev /\ base.tls = cn.tls
        /\ base.session = 0 /\ base.sessions = cn.sessions /\ base.devTls = t
    BY <1>0, <2>1 DEF ConnRec
  <2>3. 0 <= cn.sessions /\ cn.sessions >= cn.sessions
    BY <1>0
  <2>4. Reply(c, cn, base, a0)
    BY <1>1, <1>5, <2>2, <2>3 DEF Reply
  <2>5. QED
    BY <1>1, <1>5, <2>1, <2>2, <2>4
<1>6. ASSUME NEW key \in Names, cn2 = Put(cn, [a0 EXCEPT !.key = key]),
             \/ kind = "StartService" /\ key = call[c].want
             \/ kind \in {"GetValue", "QueryType", "Pair", "EnterRecovery"} /\ key = Pc(c)
      PROVE  \E base \in ConnRec, a \in AnswerRec : Reply(c, cn, base, a) /\ cn2 = Put(base, a)
  <2>1. PICK a : a = [a0 EXCEPT !.key = key]
    OBVIOUS
  <2>2. a \in AnswerRec /\ a.to = kind /\ a.num = 0 /\ a.err = "" /\ a.key = key
    BY <1>1, <2>1 DEF AnswerRec
  <2>3. 0 <= cn.sessions /\ cn.sessions >= cn.sessions
    BY <1>0
  <2>4. Reply(c, cn, cn, a)
    BY <1>0, <1>6, <2>2, <2>3 DEF Reply
  <2>5. QED
    BY <1>6, <2>1, <2>2, <2>4
<1>7. \/ cn2 = Refuse(cn, kind)
      \/ /\ kind = "StartSession"
         /\ \E ssl \in BOOLEAN :
              cn2 = Put([cn EXCEPT !.session = cn.sessions + 1, !.sessions = @ + 1,
                                   !.devTls = IF ssl THEN "asked" ELSE @],
                        [a0 EXCEPT !.num = cn.sessions + 1, !.ssl = ssl])
      \/ /\ kind = "StopSession"
         /\ \E t \in {cn.devTls, "off"} : cn2 = Put([cn EXCEPT !.session = 0, !.devTls = t], a0)
      \/ kind = "StartService" /\ cn2 = Put(cn, [a0 EXCEPT !.key = call[c].want])
      \/ /\ kind \in {"GetValue", "QueryType", "Pair", "EnterRecovery"}
         /\ cn2 = Put(cn, [a0 EXCEPT !.key = Pc(c)])
  BY Zenon DEF Served, a0
<1>8. QED
  BY <1>2, <1>3, <1>4, <1>5, <1>6, <1>7, Zenon

LEMMA PutType ==
    ASSUME NEW cn \in ConnRec, NEW base \in ConnRec, NEW a \in AnswerRec, ConnOK(cn),
           base.stream = cn.stream, base.sessions >= cn.sessions, base.session <= base.sessions,
           a.num <= base.sessions, NEW cn2, cn2 = Put(base, a)
    PROVE  /\ cn2 \in ConnRec /\ ConnOK(cn2) /\ cn2.sessions = base.sessions
           /\ cn2.session = base.session /\ cn2.tls = base.tls /\ cn2.devTls = base.devTls
           /\ cn2.dev = base.dev /\ cn2.sessions >= cn.sessions
           /\ cn2.stream.answers = Append(cn.stream.answers, a)
           /\ cn2.stream.reader = cn.stream.reader /\ cn2.stream.mixed = cn.stream.mixed
           /\ cn2.stream.ended = cn.stream.ended
<1>1. PICK q \in Stream, s \in Seq(AnswerRec) :
        q = cn.stream /\ s = q.answers /\ cn.sessions \in Nat /\ base.sessions \in Nat
  BY StreamParts DEF ConnRec
<1>2. PICK s2 : s2 = Append(s, a)
  OBVIOUS
<1>3. /\ s2 \in Seq(AnswerRec) /\ s2 # <<>> /\ Len(s2) = Len(s) + 1 /\ Len(s) \in Nat
      /\ \A j \in 1..Len(s) : s2[j] = s[j] /\ s[j] \in AnswerRec
      /\ s2[Len(s) + 1] = a
  BY <1>2
<1>4. PICK q2 : q2 = [q EXCEPT !.answers = s2]
  OBVIOUS
<1>5. q2 \in Stream /\ q2.answers = s2 /\ q2.reader = q.reader /\ q2.mixed = q.mixed
      /\ q2.ended = q.ended
  BY <1>3, <1>4 DEF Stream, AnswerRec
<1>6. \A j \in 1..Len(s2) : s2[j].num <= base.sessions
  <2>1. ASSUME NEW j \in 1..Len(s) PROVE s2[j].num <= base.sessions
    <3>1. s[j].num <= cn.sessions /\ s2[j] = s[j]
      BY <1>1, <1>3 DEF ConnOK
    <3>2. s[j].num \in Nat
      BY <1>3 DEF AnswerRec
    <3>3. QED
      BY <1>1, <3>1, <3>2
  <2>2. \A j \in 1..Len(s2) : j \in 1..Len(s) \/ j = Len(s) + 1
    BY <1>3
  <2>3. s2[Len(s) + 1].num <= base.sessions
    <3>1. a.num <= base.sessions
      OBVIOUS
    <3>2. QED
      BY <1>3, <3>1
  <2>4. QED
    BY <2>1, <2>2, <2>3
<1>7. cn2 = [base EXCEPT !.stream = q2]
  BY <1>1, <1>2, <1>4 DEF Put, ConnRec
<1>8. cn2 \in ConnRec /\ cn2.stream = q2 /\ cn2.sessions = base.sessions
      /\ cn2.session = base.session /\ cn2.tls = base.tls /\ cn2.devTls = base.devTls
      /\ cn2.dev = base.dev
  BY <1>5, <1>7 DEF ConnRec
<1>9. ConnOK(cn2)
  BY <1>3, <1>5, <1>6, <1>8 DEF ConnOK, ReaderOK
<1>10. QED
  BY <1>1, <1>2, <1>5, <1>8, <1>9
LEMMA PcSets ==
    /\ LockPcs \subseteq Locked /\ Locked \subseteq Pcs /\ MuxPcs \subseteq Pcs
    /\ LockPcs \cap {"idle", "connect", "object", "tls", "use"} = {}
    /\ MuxPcs \cap {"idle", "connect", "object", "tls", "use", "version"} = {}
    /\ "idle" \notin Locked
  BY DEF LockPcs, Locked, Pcs, MuxPcs

\* A request has been sent on a lockdown connection.
LEMMA SentType ==
    ASSUME TypeInv, NEW c \in Callers, Pc(c) \in LockPcs, NEW k,
           k = [call[c] EXCEPT !.phase = "length", !.obj = ObjOf(c)]
    PROVE  /\ k \in CallRec /\ CallOK(k) /\ k.phase = "length" /\ k.obj = ObjOf(c)
           /\ k.pc = call[c].pc /\ k.op = call[c].op /\ k.dev = call[c].dev /\ k.num = call[c].num
           /\ k.rec = call[c].rec /\ k.inner = call[c].inner /\ k.want = call[c].want
           /\ k.got = call[c].got
<1>1. PICK l \in CallRec : l = call[c]
  BY Lengths DEF TypeInv
<1>2. PICK o : o = ObjOf(c)
  OBVIOUS
<1>3. o \in 1..Len(objs) /\ l.pc \in Locked /\ l.pc \in LockPcs
  BY <1>1, <1>2, ObjNow, PcSets DEF Pc
<1>4. o \in Nat /\ o # 0 /\ o <= Len(objs)
  BY <1>3, Lengths DEF TypeInv
<1>5. PICK g : g = [l EXCEPT !.phase = "length"]
  OBVIOUS
<1>6. /\ g \in CallRec /\ g.phase = "length" /\ g.op = l.op /\ g.dev = l.dev /\ g.pc = l.pc
      /\ g.num = l.num /\ g.rec = l.rec /\ g.inner = l.inner /\ g.want = l.want /\ g.got = l.got
  BY <1>5, WithPhase
<1>7. k = [g EXCEPT !.obj = o]
  BY <1>1, <1>2, <1>5
<1>8. /\ k \in CallRec /\ k.phase = "length" /\ k.obj = o /\ k.op = l.op /\ k.dev = l.dev
      /\ k.pc = l.pc /\ k.num = l.num /\ k.rec = l.rec /\ k.inner = l.inner
      /\ k.want = l.want /\ k.got = l.got
  <2>1. g \in CallRec /\ o \in Nat
    BY <1>4, <1>6
  <2>2. /\ k \in CallRec /\ k.phase = g.phase /\ k.obj = o /\ k.op = g.op /\ k.dev = g.dev
        /\ k.pc = g.pc /\ k.num = g.num /\ k.rec = g.rec /\ k.inner = g.inner
        /\ k.want = g.want /\ k.got = g.got
    BY <1>7, <2>1 DEF CallRec
  <2>3. QED
    BY <1>6, <2>2
<1>9. CallOK(k)
  <2>1. k.pc \notin {"idle", "object", "tls"} /\ call[c].pc # "idle" /\ call[c].pc \in Locked
    BY <1>1, <1>3, <1>8, PcSets
  <2>2. QED
    BY <1>1, <1>3, <1>4, <1>8, <2>1, NextOK
<1>10. QED
  BY <1>1, <1>2, <1>8, <1>9

LEMMA EndedType ==
    ASSUME NEW cn \in ConnRec, ConnOK(cn), NEW cn2, cn2 = Ended(cn)
    PROVE  /\ cn2 \in ConnRec /\ ConnOK(cn2) /\ cn2.sessions = cn.sessions
           /\ cn2.sessions >= cn.sessions /\ cn2.session = cn.session /\ cn2.tls = cn.tls
           /\ cn2.devTls = cn.devTls /\ cn2.dev = cn.dev /\ cn2.stream.ended
           /\ cn2.stream.answers = cn.stream.answers /\ cn2.stream.reader = cn.stream.reader
           /\ cn2.stream.mixed = cn.stream.mixed
<1>1. PICK q \in Stream : q = cn.stream
  BY DEF ConnRec
<1>2. PICK q2 : q2 = [q EXCEPT !.ended = TRUE]
  OBVIOUS
<1>3. q2 \in Stream /\ q2.answers = q.answers /\ q2.reader = q.reader /\ q2.mixed = q.mixed
      /\ q2.ended
  BY <1>2 DEF Stream
<1>4. cn2 = [cn EXCEPT !.stream = q2]
  BY <1>1, <1>2 DEF Ended
<1>5. ReaderOK(q2) /\ \A j \in 1..Len(q2.answers) : q2.answers[j].num <= cn.sessions
  BY <1>1, <1>3 DEF ConnOK, ReaderOK
<1>6. QED
  BY <1>1, <1>3, <1>4, <1>5, StreamSet

\* A step of c on its lockdown connection, of which cn2 is left.
LEMMA LockStep ==
    ASSUME TypeInv, NEW c \in Callers, Pc(c) \in LockPcs, NEW cn2 \in ConnRec, ConnOK(cn2),
           cn2.sessions >= conns[ConnOf(c)].sessions,
           conns' = [conns EXCEPT ![ConnOf(c)] = cn2]
    PROVE  ConnsGrow
<1>1. PICK i \in 1..Len(conns) : i = ConnOf(c)
  BY ConnNow, PcSets DEF Pc
<1>2. QED
  BY <1>1, SetConn

LEMMA SendPacketType == ASSUME TypeInv, NEW c \in Callers, SendPacket(c) PROVE TypeInv'
<1>1. /\ Pc(c) \in LockPcs /\ call[c].pc \in Locked /\ call[c].pc # "idle"
      /\ UNCHANGED <<mux, objs, saved, paired, services>>
  BY Kinds, PcSets DEF SendPacket, Pc
<1>2. PICK cn \in ConnRec : cn = conns[ConnOf(c)] /\ ConnOK(cn)
  BY <1>1, ConnNow
<1>3. PICK k : k = [call[c] EXCEPT !.phase = "length", !.obj = ObjOf(c)]
  OBVIOUS
<1>4. k \in CallRec /\ CallOK(k)
  BY <1>1, <1>3, SentType
<1> DEFINE Sent == /\ call' = [call EXCEPT ![c].phase = "length", ![c].obj = ObjOf(c)]
                   /\ UNCHANGED <<device, panic>>
<1>5. ASSUME Sent PROVE call' = [call EXCEPT ![c] = k] /\ UNCHANGED device
  BY <1>3, <1>5
<1>6. mux' \in Stream /\ ReaderOK(mux') /\ saved' \in [Devs -> Record] /\ paired' \in [Devs -> Nat]
      /\ trust \in [Devs -> SUBSET Record]
  BY <1>1, SameMux DEF TypeInv, Types
<1>7. ASSUME Sent, trust' \in [Devs -> SUBSET Record], NEW cn2, conns' = [conns EXCEPT ![ConnOf(c)] = cn2],
             cn2 \in ConnRec, ConnOK(cn2), cn2.sessions >= cn.sessions
      PROVE  TypeInv'
  <2>1. ConnsGrow
    BY <1>1, <1>2, <1>7, LockStep
  <2>2. ObjsGrow /\ ServicesGrow
    BY <1>1, <2>1, SameObjs, SameServices
  <2>3. call' = [call EXCEPT ![c] = k] /\ UNCHANGED device
    BY <1>5, <1>7
  <2>4. Grow
    BY <2>1, <2>2, <2>3, SameDevices DEF Grow
  <2>5. CallOK(k)'
    BY <1>4, <2>4, CallKept
  <2>6. QED
    BY <1>4, <1>6, <1>7, <2>3, <2>4, <2>5, TypesStep
<1>8. CASE Fail(c) /\ UNCHANGED <<conns, trust>>
  BY <1>1, <1>8, OnlyFail DEF world
<1>9. CASE conns' = [conns EXCEPT ![ConnOf(c)] = Ended(cn)] /\ Sent /\ UNCHANGED trust
  <2>1. PICK cn2 : cn2 = Ended(cn)
    OBVIOUS
  <2>2. cn2 \in ConnRec /\ ConnOK(cn2) /\ cn2.sessions >= cn.sessions
    BY <1>2, <2>1, EndedType
  <2>3. trust' \in [Devs -> SUBSET Record]
    BY <1>6, <1>9
  <2>4. QED
    BY <1>7, <1>9, <2>1, <2>2, <2>3
<1>10. ASSUME Sent, NEW cn2 \in Served(cn, c), conns' = [conns EXCEPT ![ConnOf(c)] = cn2],
             trust' = IF Pc(c) = "pairDevice"
                      THEN [trust EXCEPT ![cn.dev] = @ \cup {call[c].rec}] ELSE trust
      PROVE  TypeInv'
  <2>1. PICK base \in ConnRec, a \in AnswerRec : Reply(c, cn, base, a) /\ cn2 = Put(base, a)
    BY <1>1, <1>2, ServedReply
  <2>2. cn2 \in ConnRec /\ ConnOK(cn2) /\ cn2.sessions >= cn.sessions
    BY <1>2, <2>1, PutType DEF Reply
  <2>3. call[c].rec \in Record /\ cn.dev \in Devs
    BY Lengths DEF TypeInv, CallRec, ConnRec
  <2>4. trust' \in [Devs -> SUBSET Record]
    BY <1>6, <1>10, <2>3
  <2>5. QED
    BY <1>7, <1>10, <2>2, <2>4
<1>11. CASE /\ Sent /\ UNCHANGED trust
            /\ conns' = [conns EXCEPT ![ConnOf(c)] = Refuse(cn, LockKind[Pc(c)])]
  <2>1. PICK a : a = [Answer(LockKind[Pc(c)]) EXCEPT !.err = "error"]
    OBVIOUS
  <2>2. Reply(c, cn, cn, a) /\ Refuse(cn, LockKind[Pc(c)]) = Put(cn, a)
    BY <1>1, <1>2, <2>1, RefuseReply
  <2>3. PICK cn2 : cn2 = Put(cn, a)
    OBVIOUS
  <2>4. cn2 \in ConnRec /\ ConnOK(cn2) /\ cn2.sessions >= cn.sessions
    BY <1>2, <2>2, <2>3, PutType DEF Reply
  <2>5. trust' \in [Devs -> SUBSET Record]
    BY <1>6, <1>11
  <2>6. QED
    BY <1>7, <1>11, <2>2, <2>3, <2>4, <2>5
<1>12. \/ Fail(c) /\ UNCHANGED <<conns, trust>>
       \/ conns' = [conns EXCEPT ![ConnOf(c)] = Ended(cn)] /\ Sent /\ UNCHANGED trust
       \/ /\ Sent /\ \E cn2 \in Served(cn, c) : conns' = [conns EXCEPT ![ConnOf(c)] = cn2]
          /\ trust' = IF Pc(c) = "pairDevice"
                      THEN [trust EXCEPT ![cn.dev] = @ \cup {call[c].rec}] ELSE trust
       \/ /\ Sent /\ UNCHANGED trust
          /\ conns' = [conns EXCEPT ![ConnOf(c)] = Refuse(cn, LockKind[Pc(c)])]
  BY <1>2 DEF SendPacket
<1>13. QED
  <2> HIDE DEF Sent
  <2>1. QED
    BY <1>8, <1>9, <1>10, <1>11, <1>12
LEMMA NilRecordType == ASSUME TypeInv, NEW c \in Callers, NilRecord(c) PROVE TypeInv'
  BY OnlyStill DEF NilRecord, Panic

LEMMA ReadLengthType == ASSUME TypeInv, NEW c \in Callers, ReadLength(c) PROVE TypeInv'
<1>1. /\ Pc(c) \in LockPcs /\ call[c].pc \in Locked /\ call[c].pc # "idle"
      /\ call[c].phase = "length" /\ UNCHANGED <<mux, objs, device, world>>
      /\ call' = [call EXCEPT ![c].phase = "body"]
      /\ conns' = [conns EXCEPT ![ConnOf(c)].stream = TakeLength(@, c)]
      /\ conns[ConnOf(c)].stream.answers # <<>>
  BY Kinds, PcSets DEF ReadLength, Unread, Pc
<1>2. PICK cn \in ConnRec : cn = conns[ConnOf(c)] /\ ConnOK(cn)
  BY <1>1, ConnNow
<1>3. PICK q \in Stream : q = cn.stream
  BY DEF ConnRec
<1>4. PICK q2 : q2 = TakeLength(q, c)
  OBVIOUS
<1>5. q2 \in Stream /\ ReaderOK(q2) /\ q2.answers = q.answers
  BY <1>1, <1>2, <1>3, <1>4, TakeLengthType
<1>6. \A j \in 1..Len(q2.answers) : q2.answers[j].num <= cn.sessions
  BY <1>2, <1>3, <1>5 DEF ConnOK
<1>7. PICK cn2 : cn2 = [cn EXCEPT !.stream = q2]
  OBVIOUS
<1>8. cn2 \in ConnRec /\ ConnOK(cn2) /\ cn2.sessions >= cn.sessions
  BY <1>2, <1>5, <1>6, <1>7, StreamSet
<1>9. conns' = [conns EXCEPT ![ConnOf(c)] = cn2]
  BY <1>1, <1>2, <1>3, <1>4, <1>7
<1>10. ConnsGrow
  BY <1>1, <1>2, <1>8, <1>9, LockStep
<1>11. PICK l \in CallRec : l = call[c] /\ CallOK(l)
  BY Lengths DEF TypeInv, Referring
<1>12. PICK k : k = [l EXCEPT !.phase = "body"]
  OBVIOUS
<1>13. /\ k \in CallRec /\ k.phase = "body" /\ k.op = l.op /\ k.dev = l.dev /\ k.pc = l.pc
       /\ k.num = l.num /\ k.rec = l.rec /\ k.obj = l.obj /\ k.inner = l.inner
       /\ k.got = l.got
  BY <1>12, WithPhase
<1>14. CallOK(k)
  BY <1>1, <1>11, <1>13 DEF CallOK, Pc
<1>15. call' = [call EXCEPT ![c] = k]
  BY <1>1, <1>11, <1>12
<1>16. ObjsGrow
  BY <1>1, <1>10, SameObjs
<1>17. QED
  BY <1>1, <1>10, <1>13, <1>14, <1>15, <1>16, SameMux, CallStep DEF world

LEMMA ReadErrorType == ASSUME TypeInv, NEW c \in Callers, ReadError(c) PROVE TypeInv'
<1>1. call[c].pc # "idle"
  BY Kinds, PcSets DEF ReadError, Pc
<1>2. QED
  BY <1>1, OnlyFail DEF ReadError

\* The caller at pc goes on to another request or statement with the same object.
LEMMA GoType ==
    ASSUME TypeInv, NEW c \in Callers, call[c].pc \in Locked \ {"version"}, NEW pc \in Locked,
           pc # "tls", NEW k, k = Goto(call[c], pc)
    PROVE  /\ k \in CallRec /\ CallOK(k) /\ k.pc = pc /\ k.phase = "send"
           /\ k.obj = call[c].obj /\ k.op = call[c].op /\ k.dev = call[c].dev
           /\ k.num = call[c].num /\ k.rec = call[c].rec /\ k.inner = call[c].inner
           /\ k.want = call[c].want /\ k.got = call[c].got
<1>1. PICK l \in CallRec : l = call[c]
  BY Lengths DEF TypeInv
<1>2. pc \in Pcs
  BY PcSets
<1>3. /\ k \in CallRec /\ k.pc = pc /\ k.phase = "send" /\ k.obj = l.obj /\ k.op = l.op
      /\ k.dev = l.dev /\ k.num = l.num /\ k.rec = l.rec /\ k.inner = l.inner
      /\ k.want = l.want /\ k.got = l.got
  BY <1>1, <1>2, GotoType
<1>4. l.obj \in 1..Len(objs)
  BY <1>1, ObjNow
<1>5. k.obj # 0 /\ k.obj <= Len(objs)
  BY <1>3, <1>4, Lengths DEF TypeInv
<1>6. k.pc \notin {"idle", "object", "tls"} /\ call[c].pc # "idle"
  BY <1>3, PcSets DEF Locked, LockPcs
<1>7. CallOK(k)
  BY <1>1, <1>3, <1>5, <1>6, NextOK
<1>8. QED
  BY <1>1, <1>3, <1>7

\* An answer taken off a connection whose objects keep their sessions.
LEMMA GotTakes ==
    ASSUME NEW c \in Callers, NEW pc \in LockPcs, Got(c, {pc})
    PROVE  Takes(c) /\ UNCHANGED <<mux, world>> /\ call[c].pc \in Locked /\ call[c].pc # "idle"
           /\ call[c].pc = pc /\ Pc(c) = pc
  BY PcSets DEF Got, Takes, Pc

\* The three kinds of steps that take an answer and leave the objects.
LEMMA TakesGo ==
    ASSUME TypeInv, NEW c \in Callers, Takes(c), UNCHANGED <<mux, objs, device, world>>,
           NEW k \in CallRec, CallOK(k), call' = [call EXCEPT ![c] = k]
    PROVE  TypeInv'
<1>1. ConnsGrow
  BY TakesType
<1>2. ObjsGrow
  BY <1>1, SameObjs
<1>3. QED
  BY <1>1, <1>2, SameMux, CallStep DEF world

LEMMA TakesFail ==
    ASSUME TypeInv, NEW c \in Callers, Takes(c), UNCHANGED <<mux, objs, world>>, Fail(c)
    PROVE  TypeInv'
<1>1. ConnsGrow /\ call[c].pc # "idle"
  BY TakesType, PcSets DEF Takes
<1>2. ObjsGrow
  BY <1>1, SameObjs
<1>3. QED
  BY <1>1, <1>2, SameMux, FailStep DEF world

LEMMA TakesStill ==
    ASSUME TypeInv, NEW c \in Callers, Takes(c), UNCHANGED <<mux, objs, device, call, world>>
    PROVE  TypeInv'
<1>1. ConnsGrow
  BY TakesType
<1>2. ObjsGrow
  BY <1>1, SameObjs
<1>3. QED
  BY <1>1, <1>2, SameMux, StillStep DEF world

\* An answer taken and an object of the caller's changed, but its client.
LEMMA TakesSet ==
    ASSUME TypeInv, NEW c \in Callers, Takes(c), UNCHANGED <<mux, device, world>>,
           NEW k \in CallRec, CallOK(k), call' = [call EXCEPT ![c] = k],
           NEW r \in ObjRec, objs' = [objs EXCEPT ![call[c].obj] = r],
           r.client = objs[call[c].obj].client,
           r.session = objs[call[c].obj].session \/ r.session <= conns[r.client].sessions
    PROVE  TypeInv'
<1>1. ConnsGrow
  BY TakesType
<1>2. PICK o \in 1..Len(objs) : o = call[c].obj
  BY ObjNow, PcSets DEF Takes
<1>3. conns'[objs[o].client].sessions = conns[objs[o].client].sessions
  BY TakesType
<1>4. r.session = objs[o].session \/ r.session <= conns'[r.client].sessions
  BY <1>2, <1>3
<1>5. ObjsGrow
  BY <1>1, <1>2, <1>4, SetObj
<1>6. QED
  BY <1>1, <1>5, SameMux, CallStep DEF world

LEMMA DoneType ==
    ASSUME NEW c \in Callers, Done(c)
    PROVE  call' = [call EXCEPT ![c] = Idle] /\ UNCHANGED device
  BY DEF Done
LEMMA IdleDone == ASSUME TypeInv, NEW c \in Callers, Done(c)
                  PROVE  /\ Idle \in CallRec /\ CallOK(Idle)
                         /\ call' = [call EXCEPT ![c] = Idle] /\ UNCHANGED device
  BY IdleType, IdleOK DEF Done

LEMMA GotVersionType == ASSUME TypeInv, NEW c \in Callers, GotVersion(c) PROVE TypeInv'
<1>1. /\ Takes(c) /\ UNCHANGED <<mux, world>> /\ Pc(c) = "version"
  <2>1. Got(c, {"version"}) /\ "version" \in LockPcs
    BY DEF GotVersion, LockPcs
  <2>2. QED
    BY <2>1, GotTakes DEF GotVersion
<1>2. CASE Fail(c) /\ UNCHANGED objs
  BY <1>1, <1>2, TakesFail
<1>3. CASE Panic("type") /\ UNCHANGED objs
  BY <1>1, <1>3, TakesStill DEF Panic
<1>4. CASE /\ objs' = [objs EXCEPT ![call[c].obj].version = TRUE]
           /\ call' = [call EXCEPT ![c] = AfterLockdown(c)] /\ UNCHANGED <<device, panic>>
  <2>1. PICK k \in CallRec : k = AfterLockdown(c) /\ CallOK(k)
    BY <1>1, AfterType
  <2>2. PICK o \in 1..Len(objs) : o = call[c].obj
    BY <1>1, ObjNow, PcSets DEF Takes
  <2>3. PICK old \in ObjRec : old = objs[o]
    BY Lengths DEF TypeInv
  <2>4. PICK r : r = [old EXCEPT !.version = TRUE]
    OBVIOUS
  <2>5. r \in ObjRec /\ r.client = old.client /\ r.session = old.session
    BY <2>4 DEF ObjRec
  <2>6. objs' = [objs EXCEPT ![call[c].obj] = r]
    BY <1>4, <2>2, <2>3, <2>4
  <2>7. QED
    BY <1>1, <1>4, <2>1, <2>2, <2>3, <2>5, <2>6, TakesSet
<1>5. QED
  BY <1>2, <1>3, <1>4 DEF GotVersion

LEMMA GotTypeType == ASSUME TypeInv, NEW c \in Callers, GotType(c) PROVE TypeInv'
<1>1. /\ Takes(c) /\ UNCHANGED <<mux, world, objs>> /\ call[c].pc = "queryType"
  <2>1. Got(c, {"queryType"}) /\ "queryType" \in LockPcs
    BY DEF GotType, LockPcs
  <2>2. QED
    BY <2>1, GotTakes DEF GotType
<1>2. CASE Go(c, "readRecord")
  <2>1. PICK k : k = Goto(call[c], "readRecord")
    OBVIOUS
  <2>2. k \in CallRec /\ CallOK(k)
    BY <1>1, <2>1, GoType DEF Locked, LockPcs
  <2>3. QED
    BY <1>1, <1>2, <2>1, <2>2, TakesGo DEF Go
<1>3. CASE Done(c)
  BY <1>1, <1>3, IdleDone, TakesGo
<1>4. CASE Fail(c)
  BY <1>1, <1>4, TakesFail
<1>5. QED
  BY <1>2, <1>3, <1>4 DEF GotType

LEMMA GotPublicKeyType == ASSUME TypeInv, NEW c \in Callers, GotPublicKey(c) PROVE TypeInv'
<1>1. /\ Takes(c) /\ UNCHANGED <<mux, world, objs>> /\ call[c].pc = "publicKey"
  <2>1. Got(c, {"publicKey"}) /\ "publicKey" \in LockPcs
    BY DEF GotPublicKey, LockPcs
  <2>2. QED
    BY <2>1, GotTakes DEF GotPublicKey
<1>2. CASE Go(c, "wifi")
  <2>1. PICK k : k = Goto(call[c], "wifi")
    OBVIOUS
  <2>2. k \in CallRec /\ CallOK(k)
    BY <1>1, <2>1, GoType DEF Locked, LockPcs
  <2>3. QED
    BY <1>1, <1>2, <2>1, <2>2, TakesGo DEF Go
<1>3. CASE Panic("type")
  BY <1>1, <1>3, TakesStill DEF Panic
<1>4. CASE Fail(c)
  BY <1>1, <1>4, TakesFail
<1>5. QED
  BY <1>2, <1>3, <1>4 DEF GotPublicKey

LEMMA WithRec ==
    ASSUME NEW l \in CallRec, NEW r \in Record, NEW k, k = [l EXCEPT !.rec = r]
    PROVE  /\ k \in CallRec /\ k.rec = r /\ k.op = l.op /\ k.dev = l.dev /\ k.pc = l.pc
           /\ k.phase = l.phase /\ k.num = l.num /\ k.obj = l.obj /\ k.inner = l.inner
           /\ k.want = l.want /\ k.got = l.got
  BY DEF CallRec

\* The same call but for its record, its number or the name it is to start.
LEMMA SameRefs ==
    ASSUME NEW k \in CallRec, NEW l \in CallRec, CallOK(l), k.obj = l.obj, k.dev = l.dev,
           k.pc = l.pc, k.phase = l.phase, k.got = l.got, k.inner = l.inner,
           k.num = l.num \/ k.pc # "tls"
    PROVE  CallOK(k)
  BY DEF CallOK

LEMMA GotWifiType == ASSUME TypeInv, NEW c \in Callers, GotWifi(c) PROVE TypeInv'
<1>1. /\ Takes(c) /\ UNCHANGED <<mux, objs, saved, trust, services>> /\ call[c].pc = "wifi"
      /\ call[c].pc \in Locked
  BY PcSets DEF GotWifi, LockPcs, Pc, Takes
<1>2. CASE Fail(c) /\ UNCHANGED paired
  BY <1>1, <1>2, TakesFail DEF world
<1>3. CASE Panic("type") /\ UNCHANGED paired
  BY <1>1, <1>3, TakesStill DEF Panic, world
<1>4. CASE /\ paired' = [paired EXCEPT ![call[c].dev] = @ + 1]
           /\ call' = [call EXCEPT ![c] = [Goto(@, "pairDevice") EXCEPT
                          !.rec = [of |-> call[c].dev, n |-> paired'[call[c].dev]]]]
           /\ UNCHANGED <<device, panic>>
  <2>1. call[c].dev \in Devs /\ paired \in [Devs -> Nat]
    BY <1>1, ObjNow DEF TypeInv, Types
  <2>2. paired' \in [Devs -> Nat]
    BY <1>4, <2>1
  <2>3. PICK r \in Record : r = [of |-> call[c].dev, n |-> paired'[call[c].dev]]
    BY <2>1, <2>2 DEF Record
  <2>4. PICK g : g = Goto(call[c], "pairDevice")
    OBVIOUS
  <2>5. g \in CallRec /\ CallOK(g) /\ g.pc = "pairDevice"
    BY <1>1, <2>4, GoType DEF Locked, LockPcs
  <2>6. PICK k : k = [g EXCEPT !.rec = r]
    OBVIOUS
  <2>7. /\ k \in CallRec /\ k.dev = g.dev /\ k.pc = g.pc /\ k.phase = g.phase /\ k.num = g.num
        /\ k.obj = g.obj /\ k.inner = g.inner /\ k.got = g.got
    BY <2>5, <2>6, WithRec
  <2>8. CallOK(k)
    BY <2>5, <2>7, SameRefs
  <2>9. call' = [call EXCEPT ![c] = k]
    BY <1>4, <2>3, <2>4, <2>6
  <2>10. ConnsGrow
    BY <1>1, TakesType
  <2>11. ObjsGrow /\ ServicesGrow
    BY <1>1, <2>10, SameObjs, SameServices
  <2>12. Grow
    BY <1>4, <2>10, <2>11, SameDevices DEF Grow
  <2>13. CallOK(k)'
    BY <2>7, <2>8, <2>12, CallKept
  <2>14. mux' \in Stream /\ ReaderOK(mux') /\ saved' \in [Devs -> Record]
         /\ trust' \in [Devs -> SUBSET Record]
    BY <1>1, SameMux DEF TypeInv, Types
  <2>15. QED
    BY <2>2, <2>7, <2>9, <2>12, <2>13, <2>14, TypesStep
<1>5. QED
  BY <1>2, <1>3, <1>4 DEF GotWifi

LEMMA GotPairType == ASSUME TypeInv, NEW c \in Callers, GotPair(c) PROVE TypeInv'
<1>1. /\ Takes(c) /\ UNCHANGED <<mux, world>> /\ call[c].pc = "pairDevice"
  <2>1. Got(c, {"pairDevice"}) /\ "pairDevice" \in LockPcs
    BY DEF GotPair, LockPcs
  <2>2. QED
    BY <2>1, GotTakes DEF GotPair
<1>2. CASE Fail(c) /\ UNCHANGED objs
  BY <1>1, <1>2, TakesFail
<1>3. CASE Done(c) /\ UNCHANGED objs
  BY <1>1, <1>3, IdleDone, TakesGo
<1>4. CASE objs' = [objs EXCEPT ![call[c].obj].record = call[c].rec] /\ Go(c, "saveRecord")
  <2>1. PICK k : k = Goto(call[c], "saveRecord")
    OBVIOUS
  <2>2. k \in CallRec /\ CallOK(k)
    BY <1>1, <2>1, GoType DEF Locked, LockPcs
  <2>3. PICK o \in 1..Len(objs) : o = call[c].obj
    BY <1>1, ObjNow, PcSets DEF Takes
  <2>4. PICK old \in ObjRec : old = objs[o]
    BY Lengths DEF TypeInv
  <2>5. PICK r : r = [old EXCEPT !.record = call[c].rec]
    OBVIOUS
  <2>6. call[c].rec \in Record
    BY Lengths DEF TypeInv, CallRec
  <2>7. r \in ObjRec /\ r.client = old.client /\ r.session = old.session
    BY <2>5, <2>6 DEF ObjRec
  <2>8. objs' = [objs EXCEPT ![call[c].obj] = r]
    BY <1>4, <2>3, <2>4, <2>5
  <2>9. QED
    BY <1>1, <1>4, <2>1, <2>2, <2>3, <2>4, <2>7, <2>8, TakesSet DEF Go
<1>5. QED
  BY <1>2, <1>3, <1>4 DEF GotPair
LEMMA BeginSessionType == ASSUME TypeInv, NEW c \in Callers, BeginSession(c) PROVE TypeInv'
<1> DEFINE from == IF InGetValue(c) THEN MyLock(c) ELSE call[c].obj
           first == IF objs[from].session # 0 THEN "stopRunning" ELSE "start"
<1>1. /\ call[c].pc = "session" /\ UNCHANGED <<mux, conns, objs, device, world>>
      /\ call' = [call EXCEPT ![c] = [Goto(@, first) EXCEPT !.obj = from, !.rec = objs[from].record]]
  BY DEF BeginSession, Pc
<1>2. call[c].pc \in Locked \ {"version"}
  BY <1>1 DEF Locked
<1>3. PICK o \in 1..Len(objs) : o = from
  BY <1>2, ObjNow
<1>4. PICK pc \in {"stopRunning", "start"} : pc = first
  OBVIOUS
<1>5. PICK r \in Record : r = objs[o].record
  BY Lengths DEF TypeInv, ObjRec
<1>6. PICK g : g = Goto(call[c], pc)
  OBVIOUS
<1>7. g \in CallRec /\ CallOK(g) /\ g.pc = pc /\ g.phase = "send" /\ g.dev = call[c].dev
      /\ g.got = call[c].got /\ g.inner = call[c].inner
  BY <1>2, <1>6, GoType DEF Locked, LockPcs
<1>8. o \in Nat /\ o # 0 /\ o <= Len(objs)
  BY <1>3, Lengths DEF TypeInv
<1>9. PICK h : h = [g EXCEPT !.obj = o]
  OBVIOUS
<1>10. /\ h \in CallRec /\ h.obj = o /\ h.pc = g.pc /\ h.phase = g.phase /\ h.dev = g.dev
       /\ h.got = g.got /\ h.inner = g.inner
  BY <1>7, <1>8, <1>9, WithObj
<1>11. PICK k : k = [h EXCEPT !.rec = r]
  OBVIOUS
<1>12. /\ k \in CallRec /\ k.obj = h.obj /\ k.pc = h.pc /\ k.phase = h.phase /\ k.dev = h.dev
       /\ k.got = h.got /\ k.inner = h.inner
  BY <1>10, <1>11, WithRec
<1>13. CallOK(k)
  <2>1. k.pc \notin {"idle", "object", "tls"} /\ call[c].pc # "idle"
    BY <1>1, <1>7, <1>10, <1>12
  <2>2. QED
    BY <1>2, <1>7, <1>8, <1>10, <1>12, <2>1, NextOK
<1>14. call' = [call EXCEPT ![c] = k]
  <2>1. k = [Goto(call[c], first) EXCEPT !.obj = from, !.rec = objs[from].record]
    BY <1>3, <1>4, <1>5, <1>6, <1>9, <1>11
  <2>2. QED
    BY <1>1, <2>1
<1>15. QED
  BY <1>1, <1>12, <1>13, <1>14, OnlyCall

LEMMA InSessionPc == ASSUME NEW c \in Callers
                     PROVE  InSession(c) \in {"value", "service"} /\ InSession(c) \in Locked
                            /\ InSession(c) # "tls"
  BY DEF InSession, Locked, LockPcs

LEMMA WithNum ==
    ASSUME NEW l \in CallRec, NEW n \in Nat, NEW k, k = [l EXCEPT !.num = n]
    PROVE  /\ k \in CallRec /\ k.num = n /\ k.op = l.op /\ k.dev = l.dev /\ k.pc = l.pc
           /\ k.phase = l.phase /\ k.rec = l.rec /\ k.obj = l.obj /\ k.inner = l.inner
           /\ k.want = l.want /\ k.got = l.got
  BY DEF CallRec

LEMMA GotSessionType == ASSUME TypeInv, NEW c \in Callers, GotSession(c) PROVE TypeInv'
<1>1. /\ Takes(c) /\ UNCHANGED <<mux, world>> /\ call[c].pc = "start" /\ call[c].pc \in Locked
  <2>1. Got(c, {"start"}) /\ "start" \in LockPcs
    BY DEF GotSession, LockPcs
  <2>2. QED
    BY <2>1, GotTakes DEF GotSession
<1>2. CASE Fail(c) /\ UNCHANGED objs
  BY <1>1, <1>2, TakesFail
<1>3. PICK n : n = Ans(c).num
  OBVIOUS
<1>4. n \in Nat /\ n <= conns[ConnOf(c)].sessions /\ call[c].phase = "body"
  <2>1. Ans(c) \in AnswerRec /\ Ans(c).num <= conns[ConnOf(c)].sessions
    BY <1>1, TakesType
  <2>2. QED
    BY <1>1, <1>3, <2>1 DEF AnswerRec, Takes
<1>5. PICK o \in 1..Len(objs) : o = call[c].obj
  BY <1>1, ObjNow
<1>6. ConnOf(c) = objs[o].client
  BY <1>4, <1>5 DEF ConnOf
<1>7. CASE /\ call' = [call EXCEPT ![c] = [Goto(@, "tls") EXCEPT !.num = Ans(c).num]]
           /\ UNCHANGED <<objs, device, panic>>
  <2>1. PICK l \in CallRec : l = call[c] /\ CallOK(l)
    BY Lengths DEF TypeInv, Referring
  <2>2. PICK g : g = Goto(l, "tls")
    OBVIOUS
  <2>3. "tls" \in Pcs /\ "tls" \in Locked
    BY DEF Pcs, Locked
  <2>4. /\ g \in CallRec /\ g.pc = "tls" /\ g.phase = "send" /\ g.dev = l.dev /\ g.obj = l.obj
        /\ g.got = l.got /\ g.inner = l.inner
    BY <2>2, <2>3, GotoType
  <2>5. PICK k : k = [g EXCEPT !.num = n]
    OBVIOUS
  <2>6. /\ k \in CallRec /\ k.num = n /\ k.pc = g.pc /\ k.phase = g.phase /\ k.dev = g.dev
        /\ k.obj = g.obj /\ k.got = g.got /\ k.inner = g.inner
    BY <1>4, <2>4, <2>5, WithNum
  <2>7. k.num <= conns[objs[k.obj].client].sessions
    BY <1>4, <1>5, <1>6, <2>1, <2>4, <2>6
  <2>8. k.obj <= Len(objs) /\ k.obj # 0
    BY <1>5, <2>1, <2>4, <2>6, Lengths DEF TypeInv
  <2>9. /\ k.dev \in Devs /\ device[k.dev].lock # 0 /\ Held(k.got, Len(services))
    BY <1>1, <2>1, <2>4, <2>6 DEF CallOK
  <2>10. CallOK(k)
    BY <2>4, <2>6, <2>7, <2>8, <2>9 DEF CallOK
  <2>11. call' = [call EXCEPT ![c] = k]
    BY <1>3, <1>7, <2>1, <2>2, <2>5
  <2>12. QED
    BY <1>1, <1>7, <2>6, <2>10, <2>11, TakesGo
<1>8. CASE objs' = [objs EXCEPT ![call[c].obj].session = Ans(c).num] /\ Go(c, InSession(c))
  <2>1. PICK pc : pc = InSession(c)
    OBVIOUS
  <2>2. PICK k : k = Goto(call[c], pc)
    OBVIOUS
  <2>3. k \in CallRec /\ CallOK(k)
    BY <1>1, <2>1, <2>2, InSessionPc, GoType
  <2>4. PICK old \in ObjRec : old = objs[o]
    BY Lengths DEF TypeInv
  <2>5. PICK r : r = [old EXCEPT !.session = n]
    OBVIOUS
  <2>6. r \in ObjRec /\ r.client = old.client /\ r.session = n
    BY <1>4, <2>5 DEF ObjRec
  <2>7. objs' = [objs EXCEPT ![call[c].obj] = r]
    BY <1>3, <1>5, <1>8, <2>4, <2>5
  <2>8. call' = [call EXCEPT ![c] = k] /\ UNCHANGED device
    BY <1>8, <2>1, <2>2 DEF Go
  <2>9. r.session <= conns[r.client].sessions
    BY <1>4, <1>6, <2>4, <2>6
  <2>10. QED
    BY <1>1, <1>5, <2>3, <2>4, <2>6, <2>7, <2>8, <2>9, TakesSet
<1>9. QED
  BY <1>2, <1>7, <1>8 DEF GotSession
LEMMA EnableSSLType == ASSUME TypeInv, NEW c \in Callers, EnableSSL(c) PROVE TypeInv'
<1>1. /\ call[c].pc = "tls" /\ UNCHANGED <<mux, world>>
      /\ call[c].pc \in Locked /\ call[c].pc # "idle"
  BY DEF EnableSSL, Pc, Locked
<1>2. PICK o \in 1..Len(objs) : o = call[c].obj
  BY <1>1, ObjNow
<1>3. PICK i \in 1..Len(conns), cn \in ConnRec : i = ConnOf(c) /\ cn = conns[i] /\ ConnOK(cn)
  BY <1>1, ConnNow
<1>4. PICK old \in ObjRec : old = objs[o]
  BY Lengths DEF TypeInv
<1>5. i = old.client
  BY <1>1, <1>2, <1>3, <1>4 DEF ConnOf, ObjOf, Pc
<1>6. call[c].num \in Nat /\ call[c].num <= conns[i].sessions
  <2>1. call[c] \in CallRec /\ CallOK(call[c])
    BY Lengths DEF TypeInv, Referring
  <2>2. call[c].num <= conns[objs[call[c].obj].client].sessions
    BY <1>1, <2>1 DEF CallOK
  <2>3. QED
    BY <1>2, <1>4, <1>5, <2>1, <2>2 DEF CallRec
<1>7. cn.sessions \in Nat /\ cn.stream \in Stream
  BY DEF ConnRec
<1>8. CASE Fail(c) /\ UNCHANGED <<conns, objs>>
  BY <1>1, <1>8, OnlyFail
<1>9. CASE /\ conns' = [conns EXCEPT ![i].tls = "on", ![i].devTls = "on"]
           /\ objs' = [objs EXCEPT ![call[c].obj].session = call[c].num]
           /\ Go(c, InSession(c))
  <2>1. PICK cn2 : cn2 = [cn EXCEPT !.tls = "on", !.devTls = "on"]
    OBVIOUS
  <2>2. cn2 \in ConnRec /\ cn2.stream = cn.stream /\ cn2.session = cn.session
        /\ cn2.sessions = cn.sessions
    BY <2>1 DEF ConnRec, Tls
  <2>3. ConnOK(cn2) /\ cn2.sessions >= conns[i].sessions
    BY <1>3, <1>7, <2>2 DEF ConnOK
  <2>4. conns' = [conns EXCEPT ![i] = cn2]
    BY <1>3, <1>9, <2>1 DEF TypeInv, Types
  <2>5. ConnsGrow
    BY <2>2, <2>3, <2>4, SetConn
  <2>6. conns'[i].sessions = cn.sessions
    BY <1>3, <2>2, <2>4 DEF TypeInv, Types
  <2>7. PICK r : r = [old EXCEPT !.session = call[c].num]
    OBVIOUS
  <2>8. r \in ObjRec /\ r.client = old.client /\ r.session = call[c].num
    BY <1>6, <2>7 DEF ObjRec
  <2>9. objs' = [objs EXCEPT ![o] = r]
    BY <1>2, <1>4, <1>9, <2>7
  <2>10. ObjsGrow
    BY <1>3, <1>4, <1>5, <1>6, <2>5, <2>6, <2>8, <2>9, SetObj
  <2>11. PICK pc : pc = InSession(c)
    OBVIOUS
  <2>12. PICK k : k = Goto(call[c], pc)
    OBVIOUS
  <2>13. k \in CallRec /\ CallOK(k)
    BY <1>1, <2>11, <2>12, InSessionPc, GoType
  <2>14. call' = [call EXCEPT ![c] = k] /\ UNCHANGED device
    BY <1>9, <2>11, <2>12 DEF Go
  <2>15. QED
    BY <1>1, <2>5, <2>10, <2>13, <2>14, SameMux, CallStep DEF world
<1>10. CASE /\ conns' = [conns EXCEPT ![i] = [cn EXCEPT !.tls = "failed", !.stream.ended = TRUE]]
            /\ Fail(c) /\ UNCHANGED objs
  <2>1. PICK e : e = Ended(cn)
    OBVIOUS
  <2>2. e \in ConnRec /\ ConnOK(e) /\ e.sessions = cn.sessions
    BY <1>3, <2>1, EndedType
  <2>3. PICK cn2 : cn2 = [e EXCEPT !.tls = "failed"]
    OBVIOUS
  <2>4. cn2 \in ConnRec /\ cn2.stream = e.stream /\ cn2.session = e.session
        /\ cn2.sessions = e.sessions
    BY <2>2, <2>3 DEF ConnRec, Tls
  <2>5. ConnOK(cn2) /\ cn2.sessions >= conns[i].sessions
    BY <1>3, <1>7, <2>2, <2>4 DEF ConnOK
  <2>6. conns' = [conns EXCEPT ![i] = cn2]
    BY <1>3, <1>10, <2>1, <2>3 DEF Ended, ConnRec
  <2>7. ConnsGrow
    BY <2>4, <2>5, <2>6, SetConn
  <2>8. ObjsGrow
    BY <1>10, <2>7, SameObjs
  <2>9. QED
    BY <1>1, <1>10, <2>7, <2>8, SameMux, FailStep DEF world
<1>11. QED
  BY <1>3, <1>8, <1>9, <1>10 DEF EnableSSL

LEMMA NilVersionType == ASSUME TypeInv, NEW c \in Callers, NilVersion(c) PROVE TypeInv'
  BY OnlyStill DEF NilVersion, Panic

LEMMA WithWant ==
    ASSUME NEW l \in CallRec, NEW w \in Names, NEW k, k = [l EXCEPT !.want = w]
    PROVE  /\ k \in CallRec /\ k.want = w /\ k.op = l.op /\ k.dev = l.dev /\ k.pc = l.pc
           /\ k.phase = l.phase /\ k.num = l.num /\ k.rec = l.rec /\ k.obj = l.obj
           /\ k.inner = l.inner /\ k.got = l.got
  BY DEF CallRec
LEMMA GotServiceType == ASSUME TypeInv, NEW c \in Callers, GotService(c) PROVE TypeInv'
<1>1. /\ Takes(c) /\ UNCHANGED <<mux, world, objs>> /\ call[c].pc = "service"
  <2>1. Got(c, {"service"}) /\ "service" \in LockPcs
    BY DEF GotService, LockPcs
  <2>2. QED
    BY <2>1, GotTakes DEF GotService
<1>2. CASE Fail(c)
  BY <1>1, <1>2, TakesFail
<1>3. CASE /\ call' = [call EXCEPT ![c] = [Goto(@, "end") EXCEPT
                          !.want = IF Ans(c).to = "StartService" THEN Ans(c).key ELSE ""]]
           /\ UNCHANGED <<device, panic>>
  <2>1. Ans(c).key \in Names /\ "" \in Names
    <3>1. Ans(c) \in AnswerRec
      BY <1>1, TakesType
    <3>2. QED
      BY <3>1 DEF AnswerRec, Names
  <2>2. PICK w \in Names : w = IF Ans(c).to = "StartService" THEN Ans(c).key ELSE ""
    BY <2>1
  <2>3. PICK g : g = Goto(call[c], "end")
    OBVIOUS
  <2>4. g \in CallRec /\ CallOK(g) /\ g.pc = "end"
    BY <1>1, <2>3, GoType DEF Locked, LockPcs
  <2>5. PICK k : k = [g EXCEPT !.want = w]
    OBVIOUS
  <2>6. /\ k \in CallRec /\ k.dev = g.dev /\ k.pc = g.pc /\ k.phase = g.phase /\ k.num = g.num
        /\ k.obj = g.obj /\ k.inner = g.inner /\ k.got = g.got
    BY <2>4, <2>5, WithWant
  <2>7. CallOK(k)
    BY <2>4, <2>6, SameRefs
  <2>8. call' = [call EXCEPT ![c] = k]
    BY <1>3, <2>2, <2>3, <2>5
  <2>9. QED
    BY <1>1, <1>3, <2>6, <2>7, <2>8, TakesGo
<1>4. QED
  BY <1>2, <1>3 DEF GotService

LEMMA GotValueType == ASSUME TypeInv, NEW c \in Callers, GotValue(c) PROVE TypeInv'
<1>1. /\ Takes(c) /\ UNCHANGED <<mux, world, objs>> /\ call[c].pc = "value"
  <2>1. Got(c, {"value"}) /\ "value" \in LockPcs
    BY DEF GotValue, LockPcs
  <2>2. QED
    BY <2>1, GotTakes DEF GotValue
<1>2. CASE Fail(c)
  BY <1>1, <1>2, TakesFail
<1>3. CASE Go(c, "end")
  <2>1. PICK k : k = Goto(call[c], "end")
    OBVIOUS
  <2>2. k \in CallRec /\ CallOK(k)
    BY <1>1, <2>1, GoType DEF Locked, LockPcs
  <2>3. QED
    BY <1>1, <1>3, <2>1, <2>2, TakesGo DEF Go
<1>4. QED
  BY <1>2, <1>3 DEF GotValue

LEMMA EndSessionType == ASSUME TypeInv, NEW c \in Callers, EndSession(c) PROVE TypeInv'
<1> DEFINE from == IF InGetValue(c) THEN MyLock(c) ELSE call[c].obj
           l == [call[c] EXCEPT !.obj = from]
<1>1. /\ call[c].pc = "end" /\ UNCHANGED <<mux, conns, objs, device, world>>
      /\ call' = [call EXCEPT ![c] = IF objs[from].session # 0 THEN Goto(l, "stop") ELSE AfterSession(l)]
  BY DEF EndSession, Pc
<1>2. call[c].pc \in Locked \ {"version"} /\ call[c].pc # "idle"
  BY <1>1 DEF Locked
<1>3. PICK o \in 1..Len(objs) : o = from
  BY <1>2, ObjNow
<1>4. o \in Nat /\ o # 0 /\ o <= Len(objs) /\ call[c] \in CallRec
  BY <1>3, Lengths DEF TypeInv
<1>5. PICK h : h = l
  OBVIOUS
<1>6. /\ h \in CallRec /\ h.obj = o /\ h.dev = call[c].dev /\ h.got = call[c].got
      /\ h.inner = call[c].inner
  BY <1>3, <1>4, <1>5, WithObj
<1>7. CASE objs[from].session # 0
  <2>1. PICK k : k = Goto(h, "stop")
    OBVIOUS
  <2>2. "stop" \in Pcs /\ "stop" \in Locked
    BY DEF Pcs, Locked, LockPcs
  <2>3. /\ k \in CallRec /\ k.pc = "stop" /\ k.phase = "send" /\ k.obj = o /\ k.dev = call[c].dev
        /\ k.got = call[c].got /\ k.inner = call[c].inner
    BY <1>6, <2>1, <2>2, GotoType
  <2>4. CallOK(k)
    BY <1>2, <1>4, <2>2, <2>3, NextOK
  <2>5. QED
    BY <1>1, <1>5, <1>7, <2>1, <2>3, <2>4, OnlyCall
<1>8. CASE ~(objs[from].session # 0)
  <2>1. PICK k : k = AfterSession(h)
    OBVIOUS
  <2>2. k \in CallRec /\ CallOK(k)
    BY <1>2, <1>3, <1>6, <2>1, AfterSessionType
  <2>3. QED
    BY <1>1, <1>5, <1>8, <2>1, <2>2, OnlyCall
<1>9. QED
  BY <1>7, <1>8

LEMMA StoppedType == ASSUME TypeInv, NEW c \in Callers, Stopped(c) PROVE TypeInv'
<1>1. /\ Takes(c) /\ UNCHANGED <<mux, world>> /\ call[c].pc \in Locked \ {"version"}
      /\ call[c].pc \in {"stop", "stopRunning"}
  BY PcSets DEF Stopped, Got, Takes, LockPcs, Pc
<1>2. CASE Fail(c) /\ UNCHANGED objs
  BY <1>1, <1>2, TakesFail
<1>3. PICK o \in 1..Len(objs) : o = call[c].obj
  BY <1>1, ObjNow
<1>4. PICK l \in CallRec : l = call[c]
  BY Lengths DEF TypeInv
<1>5. PICK old \in ObjRec : old = objs[o]
  BY Lengths DEF TypeInv
<1>6. CASE /\ objs' = [objs EXCEPT ![call[c].obj].session = 0]
           /\ call' = [call EXCEPT ![c] = IF Pc(c) = "stop" THEN AfterSession(call[c])
                                          ELSE Goto(call[c], "start")]
           /\ UNCHANGED <<device, panic>>
  <2>1. PICK k : k = IF Pc(c) = "stop" THEN AfterSession(l) ELSE Goto(call[c], "start")
    OBVIOUS
  <2>2. k \in CallRec /\ CallOK(k)
    <3>1. CASE Pc(c) = "stop"
      BY <1>1, <1>3, <1>4, <2>1, <3>1, AfterSessionType
    <3>2. CASE Pc(c) # "stop"
      <4>1. k = Goto(call[c], "start")
        BY <2>1, <3>2
      <4>2. QED
        BY <1>1, <4>1, GoType DEF Locked, LockPcs
    <3>3. QED
      BY <3>1, <3>2
  <2>3. PICK r : r = [old EXCEPT !.session = 0]
    OBVIOUS
  <2>4. r \in ObjRec /\ r.client = old.client /\ r.session = 0
    BY <2>3 DEF ObjRec
  <2>5. 0 <= conns[r.client].sessions
    <3>1. old.client \in 1..Len(conns)
      BY <1>5 DEF TypeInv, Referring, Objs
    <3>2. PICK i \in 1..Len(conns) : i = old.client
      BY <3>1
    <3>3. conns[i].sessions \in Nat
      BY Lengths DEF TypeInv, ConnRec
    <3>4. QED
      BY <2>4, <3>2, <3>3
  <2>6. objs' = [objs EXCEPT ![call[c].obj] = r]
    BY <1>3, <1>5, <1>6, <2>3
  <2>7. call' = [call EXCEPT ![c] = k] /\ UNCHANGED device
    BY <1>4, <1>6, <2>1
  <2>8. QED
    BY <1>1, <1>3, <1>5, <2>2, <2>4, <2>5, <2>6, <2>7, TakesSet
<1>7. QED
  BY <1>2, <1>6 DEF Stopped

LEMMA GotRecoveryType == ASSUME TypeInv, NEW c \in Callers, GotRecovery(c) PROVE TypeInv'
<1>1. /\ Takes(c) /\ UNCHANGED <<mux, world, objs>>
  <2>1. Got(c, {"recovery"}) /\ "recovery" \in LockPcs
    BY DEF GotRecovery, LockPcs
  <2>2. QED
    BY <2>1, GotTakes DEF GotRecovery
<1>2. CASE Fail(c)
  BY <1>1, <1>2, TakesFail
<1>3. CASE Done(c)
  BY <1>1, <1>3, IdleDone, TakesGo
<1>4. QED
  BY <1>2, <1>3 DEF GotRecovery
LEMMA WithGot ==
    ASSUME NEW l \in CallRec, NEW s \in Seq(Nat), NEW k, k = [l EXCEPT !.got = s]
    PROVE  /\ k \in CallRec /\ k.got = s /\ k.op = l.op /\ k.dev = l.dev /\ k.pc = l.pc
           /\ k.phase = l.phase /\ k.num = l.num /\ k.rec = l.rec /\ k.obj = l.obj
           /\ k.inner = l.inner /\ k.want = l.want
  BY DEF CallRec

LEMMA DialType == ASSUME TypeInv, NEW c \in Callers, Dial(c) PROVE TypeInv'
<1>1. /\ call[c].pc = "dial" /\ UNCHANGED <<mux, conns, objs, saved, trust, paired>>
      /\ call[c].pc \in Locked \ {"version"} /\ call[c].pc # "idle"
  BY DEF Dial, Pc, Locked
<1>2. CASE Fail(c) /\ UNCHANGED services
  BY <1>1, <1>2, OnlyFail DEF world
<1>3. CASE /\ services' = Append(services, [dev |-> call[c].dev, svc |-> call[c].want])
           /\ call' = [call EXCEPT ![c] = [Goto(@, "secure") EXCEPT !.got = Append(call[c].got, Len(services'))]]
           /\ UNCHANGED <<device, panic>>
  <2>1. PICK l \in CallRec : l = call[c] /\ CallOK(l)
    BY Lengths DEF TypeInv, Referring
  <2>2. PICK new \in [dev: Devs, svc: Names] : new = [dev |-> l.dev, svc |-> l.want]
    <3>1. l.dev \in Devs /\ l.want \in Names
      BY <1>1, <2>1 DEF CallOK, CallRec
    <3>2. QED
      BY <3>1
  <2>3. services \in Seq([dev: Devs, svc: Names]) /\ Len(services) \in Nat
    BY Lengths DEF TypeInv, Types
  <2>4. services' = Append(services, new)
    BY <1>3, <2>1, <2>2
  <2>5. PICK n \in Nat : n = Len(services') /\ n = Len(services) + 1
    BY <2>3, <2>4
  <2>6. ServicesGrow
    BY <2>3, <2>4, <2>5 DEF ServicesGrow
  <2>7. ConnsGrow
    BY <1>1, SameConns
  <2>8. ObjsGrow
    BY <1>1, <2>7, SameObjs
  <2>9. Grow
    BY <1>3, <2>6, <2>7, <2>8, SameDevices DEF Grow
  <2>10. PICK g : g = Goto(l, "secure")
    OBVIOUS
  <2>11. /\ g \in CallRec /\ CallOK(g) /\ g.pc = "secure" /\ g.got = l.got
    BY <1>1, <2>1, <2>10, GoType DEF Locked
  <2>12. PICK s : s = Append(l.got, n)
    OBVIOUS
  <2>13. l.got \in Seq(Nat)
    BY DEF CallRec
  <2>14. PICK s0 \in Seq(Nat) : s0 = l.got
    BY <2>13
  <2>15. /\ s \in Seq(Nat) /\ Len(s) = Len(s0) + 1 /\ Len(s0) \in Nat
         /\ \A j \in 1..Len(s0) : s[j] = s0[j]
         /\ s[Len(s0) + 1] = n
    BY <2>5, <2>12, <2>14
  <2>16. Held(s, Len(services'))
    <3>1. Held(s0, Len(services'))
      BY <2>1, <2>6, <2>14, HeldKept DEF CallOK, TypeInv
    <3>2. n \in 1..Len(services')
      BY <2>3, <2>5
    <3>3. \A j \in 1..Len(s) : j \in 1..Len(s0) \/ j = Len(s0) + 1
      BY <2>15
    <3>4. QED
      BY <2>15, <3>1, <3>2, <3>3 DEF Held
  <2>17. PICK k : k = [g EXCEPT !.got = s]
    OBVIOUS
  <2>18. /\ k \in CallRec /\ k.dev = g.dev /\ k.pc = g.pc /\ k.phase = g.phase /\ k.num = g.num
         /\ k.obj = g.obj /\ k.inner = g.inner /\ k.got = s
    BY <2>11, <2>15, <2>17, WithGot
  <2>19. CallOK(g)'
    BY <2>9, <2>11, CallKept
  <2>20. CallOK(k)'
    BY <2>11, <2>16, <2>18, <2>19 DEF CallOK
  <2>21. call' = [call EXCEPT ![c] = k]
    <3>1. k = [Goto(call[c], "secure") EXCEPT !.got = Append(call[c].got, Len(services'))]
      BY <2>1, <2>5, <2>10, <2>12, <2>17
    <3>2. QED
      BY <1>3, <3>1
  <2>22. mux' \in Stream /\ ReaderOK(mux') /\ saved' \in [Devs -> Record]
         /\ trust' \in [Devs -> SUBSET Record] /\ paired' \in [Devs -> Nat]
    BY <1>1, SameMux DEF TypeInv, Types
  <2>23. QED
    BY <2>9, <2>18, <2>20, <2>21, <2>22, TypesStep
<1>4. QED
  BY <1>2, <1>3 DEF Dial

LEMMA SecureType == ASSUME TypeInv, NEW c \in Callers, Secure(c) PROVE TypeInv'
<1>1. /\ call[c].pc = "secure" /\ UNCHANGED <<mux, conns, objs, world>>
      /\ call[c].pc \in Locked \ {"version"} /\ call[c].pc # "idle"
  BY DEF Secure, Pc, Locked
<1>2. PICK l \in CallRec : l = call[c] /\ CallOK(l) /\ l.dev \in Devs
  BY <1>1, ObjNow, Lengths DEF TypeInv, Referring
<1>3. CASE Fail(c)
  BY <1>1, <1>3, OnlyFail
<1>4. CASE Done(c)
  BY <1>1, <1>4, IdleDone, OnlyCall
<1>5. CASE /\ call' = [call EXCEPT ![c] = [Goto(@, "queryType") EXCEPT !.want = "crashReportCopy"]]
           /\ UNCHANGED <<device, panic>>
  <2>1. PICK g : g = Goto(l, "queryType")
    OBVIOUS
  <2>2. g \in CallRec /\ CallOK(g) /\ g.pc = "queryType"
    BY <1>1, <1>2, <2>1, GoType DEF Locked, LockPcs
  <2>3. PICK k : k = [g EXCEPT !.want = "crashReportCopy"]
    OBVIOUS
  <2>4. "crashReportCopy" \in Names
    BY DEF Names
  <2>5. /\ k \in CallRec /\ k.dev = g.dev /\ k.pc = g.pc /\ k.phase = g.phase /\ k.num = g.num
        /\ k.obj = g.obj /\ k.inner = g.inner /\ k.got = g.got
    BY <2>2, <2>3, <2>4, WithWant
  <2>6. CallOK(k)
    BY <2>2, <2>5, SameRefs
  <2>7. call' = [call EXCEPT ![c] = k]
    BY <1>2, <1>5, <2>1, <2>3
  <2>8. QED
    BY <1>1, <1>5, <2>5, <2>6, <2>7, OnlyCall
<1>6. CASE /\ call[c].op \in Kept \cup Reopened
           /\ device' = [device EXCEPT ![call[c].dev].cache[Field(call[c].op)] = call[c].got]
           /\ call' = [call EXCEPT ![c] = Goto(@, "use")]
  <2>1. device \in [Devs -> DeviceRec] /\ l.got \in Seq(Nat) /\ Held(l.got, Len(services))
    BY <1>2 DEF TypeInv, Types, CallRec, CallOK
  <2>2. PICK f \in Kept \cup Reopened : f = Field(call[c].op)
    BY <1>6, FieldType
  <2>3. PICK old \in DeviceRec : old = device[l.dev]
    BY <1>2, <2>1
  <2>4. PICK ch : ch = [old.cache EXCEPT ![f] = l.got]
    OBVIOUS
  <2>5. /\ ch \in [Kept \cup Reopened -> Seq(Nat)] /\ ch[f] = l.got
        /\ \A g \in Kept \cup Reopened : g # f => ch[g] = old.cache[g]
    BY <2>1, <2>4 DEF DeviceRec
  <2>6. PICK d2 : d2 = [old EXCEPT !.cache = ch]
    OBVIOUS
  <2>7. d2 \in DeviceRec /\ d2.client = old.client /\ d2.lock = old.lock /\ d2.cache = ch
    BY <2>5, <2>6 DEF DeviceRec
  <2>8. device' = [device EXCEPT ![l.dev] = d2]
    BY <1>2, <1>6, <2>1, <2>2, <2>3, <2>4, <2>6
  <2>9. device' \in [Devs -> DeviceRec]
        /\ \A d \in Devs : device'[d] = IF d = l.dev THEN d2 ELSE device[d]
    BY <1>2, <2>1, <2>7, <2>8
  <2>10. ConnsGrow /\ ServicesGrow
    BY <1>1, SameConns, SameServices DEF world
  <2>11. ObjsGrow
    BY <1>1, <2>10, SameObjs
  <2>12. Held(l.got, Len(services'))
    BY <1>1, <2>1 DEF world
  <2>13. ASSUME NEW d \in Devs
         PROVE  /\ device'[d].client = device[d].client /\ device'[d].lock = device[d].lock
                /\ \A g \in Kept \cup Reopened :
                     device'[d].cache[g] = device[d].cache[g] \/ Held(device'[d].cache[g], Len(services'))
    BY <2>3, <2>5, <2>7, <2>9, <2>12
  <2>14. DevicesGrow
    BY <2>9, <2>10, <2>11, <2>13, DevicesSet
  <2>15. Grow
    BY <2>10, <2>11, <2>14 DEF Grow
  <2>16. PICK k : k = Goto(l, "use")
    OBVIOUS
  <2>17. /\ k \in CallRec /\ k.pc = "use" /\ k.phase = "send" /\ k.dev = l.dev /\ k.obj = l.obj
         /\ k.got = l.got /\ k.inner = l.inner
    BY <2>16, GotoType DEF Pcs
  <2>18. CallOK(l)'
    BY <1>2, <2>15, CallKept
  <2>19. CallOK(k)'
    BY <1>1, <1>2, <2>17, <2>18 DEF CallOK, Locked, LockPcs
  <2>20. call' = [call EXCEPT ![c] = k]
    BY <1>2, <1>6, <2>16
  <2>21. mux' \in Stream /\ ReaderOK(mux') /\ saved' \in [Devs -> Record]
         /\ trust' \in [Devs -> SUBSET Record] /\ paired' \in [Devs -> Nat]
    BY <1>1, SameMux DEF TypeInv, Types, world
  <2>22. QED
    BY <2>15, <2>17, <2>19, <2>20, <2>21, TypesStep
<1>7. QED
  BY <1>3, <1>4, <1>5, <1>6 DEF Secure

LEMMA UseType == ASSUME TypeInv, NEW c \in Callers, Use(c) PROVE TypeInv'
<1>1. UNCHANGED <<mux, conns, objs, world>>
  BY DEF Use
<1>2. CASE Panic("nil service")
  BY <1>1, <1>2, OnlyStill DEF Panic
<1>3. CASE Done(c)
  BY <1>1, <1>3, IdleDone, OnlyCall
<1>4. QED
  BY <1>2, <1>3 DEF Use
\* What a request to usbmuxd leaves in its stream, and the record that comes back.
LEMMA MuxPutType ==
    ASSUME TypeInv, NEW a \in AnswerRec, NEW q, q = [mux EXCEPT !.answers = Append(@, a)]
    PROVE  /\ q \in Stream /\ ReaderOK(q) /\ q.answers = Append(mux.answers, a)
           /\ q.reader = mux.reader /\ q.mixed = mux.mixed /\ q.ended = mux.ended
<1>1. mux \in Stream /\ mux.answers \in Seq(AnswerRec)
  BY StreamParts DEF TypeInv, Types
<1>2. PICK s0 \in Seq(AnswerRec) : s0 = mux.answers
  BY <1>1
<1>3. PICK s : s = Append(s0, a)
  OBVIOUS
<1>4. s \in Seq(AnswerRec) /\ s # <<>>
  BY <1>3
<1>5. q = [mux EXCEPT !.answers = s]
  BY <1>2, <1>3
<1>6. /\ q \in Stream /\ q.answers = s /\ q.reader = mux.reader /\ q.mixed = mux.mixed
      /\ q.ended = mux.ended
  BY <1>1, <1>4, <1>5 DEF Stream, AnswerRec
<1>7. QED
  BY <1>2, <1>3, <1>4, <1>6 DEF ReaderOK

LEMMA MuxAnswerType ==
    ASSUME TypeInv, NEW c \in Callers, Pc(c) \in MuxPcs, NEW a, a = MuxAnswer(c)
    PROVE  /\ a \in AnswerRec
           /\ a.to = (CASE Pc(c) = "readRecord" -> "ReadPairRecord"
                        [] Pc(c) = "deleteRecord" /\ saved[call[c].dev] = NoRecord -> "DeletePairRecord"
                        [] OTHER -> Pc(c))
           /\ a.err \in {"", "error", "bad device"}
           /\ Pc(c) = "readRecord" =>
                 IF saved[call[c].dev] = NoRecord THEN a.err = "bad device"
                 ELSE a.err = "" /\ a.rec = saved[call[c].dev]
<1>1. call[c].dev \in Devs /\ saved[call[c].dev] \in Record
  BY ObjNow, PcSets DEF TypeInv, Types, Pc
<1>2. {"ReadPairRecord", "DeletePairRecord"} \subseteq Requests /\ MuxPcs \subseteq Requests
  BY DEF Requests
<1>3. CASE Pc(c) = "readRecord"
  <2>1. PICK a0 : a0 = Answer("ReadPairRecord")
    OBVIOUS
  <2>2. a0 \in AnswerRec /\ a0.to = "ReadPairRecord" /\ a0.err = ""
    BY <1>2, <2>1, AnswerType
  <2>3. CASE saved[call[c].dev] = NoRecord
    <3>1. a = [a0 EXCEPT !.err = "bad device"]
      BY <1>3, <2>1, <2>3 DEF MuxAnswer, Pc
    <3>2. a \in AnswerRec /\ a.to = "ReadPairRecord" /\ a.err = "bad device"
      BY <2>2, <3>1 DEF AnswerRec
    <3>3. QED
      BY <1>3, <2>3, <3>2
  <2>4. CASE saved[call[c].dev] # NoRecord
    <3>1. a = [a0 EXCEPT !.rec = saved[call[c].dev]]
      BY <1>3, <2>1, <2>4 DEF MuxAnswer, Pc
    <3>2. a \in AnswerRec /\ a.to = "ReadPairRecord" /\ a.err = "" /\ a.rec = saved[call[c].dev]
      BY <1>1, <2>2, <3>1 DEF AnswerRec
    <3>3. QED
      BY <1>3, <2>4, <3>2
  <2>5. QED
    BY <2>3, <2>4
<1>4. CASE Pc(c) = "deleteRecord" /\ saved[call[c].dev] = NoRecord
  <2>1. PICK a0 : a0 = Answer("DeletePairRecord")
    OBVIOUS
  <2>2. a0 \in AnswerRec /\ a0.to = "DeletePairRecord" /\ a0.err = ""
    BY <1>2, <2>1, AnswerType
  <2>3. a = [a0 EXCEPT !.err = "error"]
    BY <1>4, <2>1 DEF MuxAnswer, Pc
  <2>4. a \in AnswerRec /\ a.to = "DeletePairRecord" /\ a.err = "error"
    BY <2>2, <2>3 DEF AnswerRec
  <2>5. QED
    BY <1>4, <2>4
<1>5. CASE Pc(c) # "readRecord" /\ ~(Pc(c) = "deleteRecord" /\ saved[call[c].dev] = NoRecord)
  <2>1. a = Answer(Pc(c))
    BY <1>5 DEF MuxAnswer, Pc
  <2>2. a \in AnswerRec /\ a.to = Pc(c) /\ a.err = ""
    BY <1>2, <2>1, AnswerType
  <2>3. QED
    BY <1>5, <2>2
<1>6. QED
  BY <1>3, <1>4, <1>5

LEMMA SavedType ==
    ASSUME TypeInv, NEW k \in CallRec, k.dev \in Devs
    PROVE  Saved(k) \in [Devs -> Record]
<1>1. saved \in [Devs -> Record] /\ k.rec \in Record /\ NoRecord \in Record
  BY DEF TypeInv, Types, CallRec, NoRecord, Record
<1>2. QED
  BY <1>1 DEF Saved

LEMMA MuxSendType == ASSUME TypeInv, NEW c \in Callers, MuxSend(c) PROVE TypeInv'
<1>1. /\ Pc(c) \in MuxPcs /\ UNCHANGED <<conns, objs, device, trust, paired, services>>
      /\ call' = [call EXCEPT ![c].phase = "length"] /\ call[c].phase = "send"
  BY DEF MuxSend
<1>2. PICK l \in CallRec : l = call[c] /\ CallOK(l) /\ l.dev \in Devs
  BY <1>1, ObjNow, PcSets, Lengths DEF TypeInv, Referring, Pc
<1>3. PICK k : k = [l EXCEPT !.phase = "length"]
  OBVIOUS
<1>4. /\ k \in CallRec /\ k.phase = "length" /\ k.dev = l.dev /\ k.pc = l.pc
      /\ k.num = l.num /\ k.obj = l.obj /\ k.inner = l.inner /\ k.got = l.got
  BY <1>3, WithPhase
<1>5. CallOK(k)
  BY <1>1, <1>2, <1>4, PcSets DEF CallOK, Pc
<1>6. call' = [call EXCEPT ![c] = k]
  BY <1>1, <1>2, <1>3
<1>7. mux' \in Stream /\ ReaderOK(mux')
  <2>1. CASE mux' = [mux EXCEPT !.answers = Append(@, MuxAnswer(c))]
    <3>1. PICK a : a = MuxAnswer(c)
      OBVIOUS
    <3>2. a \in AnswerRec
      BY <1>1, <3>1, MuxAnswerType
    <3>3. QED
      BY <2>1, <3>1, <3>2, MuxPutType DEF ReaderOK
  <2>2. CASE mux' = [mux EXCEPT !.answers = Append(@, [Answer(Pc(c)) EXCEPT !.err = "error"])]
    <3>1. PICK a0 : a0 = Answer(Pc(c))
      OBVIOUS
    <3>2. a0 \in AnswerRec
      BY <1>1, <3>1, AnswerType DEF Requests
    <3>3. PICK a : a = [a0 EXCEPT !.err = "error"]
      OBVIOUS
    <3>4. a \in AnswerRec
      BY <3>2, <3>3 DEF AnswerRec
    <3>5. mux' = [mux EXCEPT !.answers = Append(@, a)]
      BY <2>2, <3>1, <3>3
    <3>6. QED
      BY <3>4, <3>5, MuxPutType DEF ReaderOK
  <2>3. QED
    BY <2>1, <2>2 DEF MuxSend
<1>8. saved' \in [Devs -> Record]
  BY <1>2, SavedType DEF MuxSend, TypeInv, Types
<1>9. ConnsGrow /\ ServicesGrow
  BY <1>1, SameConns, SameServices
<1>10. ObjsGrow
  BY <1>1, <1>9, SameObjs
<1>11. Grow
  BY <1>1, <1>9, <1>10, SameDevices DEF Grow
<1>12. CallOK(k)'
  BY <1>4, <1>5, <1>11, CallKept
<1>13. trust' \in [Devs -> SUBSET Record] /\ paired' \in [Devs -> Nat]
  BY <1>1 DEF TypeInv, Types
<1>14. QED
  BY <1>4, <1>6, <1>7, <1>8, <1>11, <1>12, <1>13, TypesStep

LEMMA MuxReadLengthType == ASSUME TypeInv, NEW c \in Callers, MuxReadLength(c) PROVE TypeInv'
<1>1. /\ Pc(c) \in MuxPcs /\ UNCHANGED <<conns, objs, device, world>>
      /\ call' = [call EXCEPT ![c].phase = "body"] /\ mux.answers # <<>>
      /\ mux' = TakeLength(mux, c) /\ mux \in Stream
  BY DEF MuxReadLength, Unread, TypeInv, Types
<1>2. PICK l \in CallRec : l = call[c] /\ CallOK(l)
  BY Lengths DEF TypeInv, Referring
<1>3. PICK k : k = [l EXCEPT !.phase = "body"]
  OBVIOUS
<1>4. /\ k \in CallRec /\ k.phase = "body" /\ k.dev = l.dev /\ k.pc = l.pc
      /\ k.num = l.num /\ k.obj = l.obj /\ k.inner = l.inner /\ k.got = l.got
  BY <1>3, WithPhase
<1>5. CallOK(k)
  BY <1>1, <1>2, <1>4, PcSets DEF CallOK, Pc
<1>6. call' = [call EXCEPT ![c] = k]
  BY <1>1, <1>2, <1>3
<1>7. mux' \in Stream /\ ReaderOK(mux')
  BY <1>1, TakeLengthType DEF ReaderOK
<1>8. ConnsGrow
  BY <1>1, SameConns
<1>9. ObjsGrow
  BY <1>1, <1>8, SameObjs
<1>10. QED
  BY <1>1, <1>4, <1>5, <1>6, <1>7, <1>8, <1>9, CallStep DEF world

LEMMA MuxDeadlineType == ASSUME TypeInv, NEW c \in Callers, MuxDeadline(c) PROVE TypeInv'
<1>1. /\ call[c].pc # "idle" /\ UNCHANGED <<conns, objs, world>> /\ Fail(c)
      /\ mux' = [mux EXCEPT !.mixed = @ \/ (mux.reader = c)] /\ mux \in Stream /\ ReaderOK(mux)
  BY PcSets DEF MuxDeadline, Pc, TypeInv, Types, Referring
<1>2. mux' \in Stream /\ ReaderOK(mux')
  <2>1. PICK b \in BOOLEAN : b = (mux.mixed \/ (mux.reader = c))
    OBVIOUS
  <2>2. mux' = [mux EXCEPT !.mixed = b]
    BY <1>1, <2>1
  <2>3. QED
    BY <1>1, <2>2 DEF Stream, ReaderOK
<1>3. ConnsGrow
  BY <1>1, SameConns
<1>4. ObjsGrow
  BY <1>1, <1>3, SameObjs
<1>5. QED
  BY <1>1, <1>2, <1>3, <1>4, FailStep DEF world
\* An answer taken from usbmuxd.
LEMMA MuxGotTakes ==
    ASSUME NEW c \in Callers, NEW pcs, pcs \subseteq MuxPcs, MuxGot(c, pcs)
    PROVE  /\ MuxTakes(c) /\ UNCHANGED <<conns, world>> /\ call[c].pc # "idle"
           /\ call[c].pc \in pcs
  BY PcSets DEF MuxGot, MuxTakes, Pc

LEMMA MuxTakesGo ==
    ASSUME TypeInv, NEW c \in Callers, MuxTakes(c), UNCHANGED <<conns, device, world>>, ObjsGrow,
           NEW k \in CallRec, CallOK(k), call' = [call EXCEPT ![c] = k]
    PROVE  TypeInv'
<1>1. ConnsGrow
  BY SameConns
<1>2. QED
  BY <1>1, MuxTakesType, CallStep DEF world

LEMMA MuxTakesFail ==
    ASSUME TypeInv, NEW c \in Callers, MuxTakes(c), UNCHANGED <<conns, world>>, ObjsGrow, Fail(c)
    PROVE  TypeInv'
<1>1. ConnsGrow /\ call[c].pc # "idle"
  BY SameConns, PcSets DEF MuxTakes
<1>2. QED
  BY <1>1, MuxTakesType, FailStep DEF world

LEMMA SetRecordType ==
    ASSUME TypeInv, NEW c \in Callers, call[c].pc \in Locked \ {"version"}, UNCHANGED conns,
           NEW r \in Record, SetRecord(c, r)
    PROVE  ObjsGrow
<1>1. ConnsGrow
  BY SameConns
<1>2. PICK o \in 1..Len(objs) : o = call[c].obj
  BY ObjNow
<1>3. PICK old \in ObjRec : old = objs[o]
  BY Lengths DEF TypeInv
<1>4. PICK new : new = [old EXCEPT !.record = r]
  OBVIOUS
<1>5. new \in ObjRec /\ new.client = old.client /\ new.session = old.session
  BY <1>4 DEF ObjRec
<1>6. objs' = [objs EXCEPT ![o] = new]
  BY <1>2, <1>3, <1>4 DEF SetRecord
<1>7. QED
  BY <1>1, <1>3, <1>5, <1>6, SetObj

LEMMA GotRecordType == ASSUME TypeInv, NEW c \in Callers, GotRecord(c) PROVE TypeInv'
<1>1. /\ MuxTakes(c) /\ UNCHANGED <<conns, world>> /\ call[c].pc = "readRecord"
      /\ call[c].pc \in Locked \ {"version"}
  <2>1. {"readRecord"} \subseteq MuxPcs /\ "readRecord" \in Locked \ {"version"}
    BY DEF MuxPcs, Locked
  <2>2. MuxGot(c, {"readRecord"})
    BY DEF GotRecord
  <2>3. /\ MuxTakes(c) /\ UNCHANGED <<conns, world>> /\ call[c].pc \in {"readRecord"}
    BY <2>1, <2>2, MuxGotTakes
  <2>4. QED
    BY <2>1, <2>3
<1>2. NoRecord \in Record /\ EmptyRecord \in Record /\ MuxAns.rec \in Record
  <2>1. MuxAns \in AnswerRec
    BY <1>1, MuxTakesType
  <2>2. QED
    BY <2>1 DEF AnswerRec, NoRecord, EmptyRecord, Record
<1>3. CASE Go(c, "buid") /\ SetRecord(c, NoRecord)
  <2>1. ObjsGrow
    BY <1>1, <1>2, <1>3, SetRecordType
  <2>2. PICK k : k = Goto(call[c], "buid")
    OBVIOUS
  <2>3. k \in CallRec /\ CallOK(k)
    BY <1>1, <2>2, GoType DEF Locked
  <2>4. QED
    BY <1>1, <1>3, <2>1, <2>2, <2>3, MuxTakesGo DEF Go
<1>4. CASE Fail(c) /\ SetRecord(c, NoRecord)
  <2>1. ObjsGrow
    BY <1>1, <1>2, <1>4, SetRecordType
  <2>2. QED
    BY <1>1, <1>4, <2>1, MuxTakesFail
<1>5. CASE /\ SetRecord(c, IF MuxAns.to = "ReadPairRecord" THEN MuxAns.rec ELSE EmptyRecord)
           /\ Go(c, "session")
  <2>1. PICK r \in Record : r = IF MuxAns.to = "ReadPairRecord" THEN MuxAns.rec ELSE EmptyRecord
    BY <1>2
  <2>2. ObjsGrow
    BY <1>1, <1>5, <2>1, SetRecordType
  <2>3. PICK k : k = Goto(call[c], "session")
    OBVIOUS
  <2>4. k \in CallRec /\ CallOK(k)
    BY <1>1, <2>3, GoType DEF Locked
  <2>5. QED
    BY <1>1, <1>5, <2>2, <2>3, <2>4, MuxTakesGo DEF Go
<1>6. QED
  BY <1>3, <1>4, <1>5 DEF GotRecord

LEMMA GotBUIDType == ASSUME TypeInv, NEW c \in Callers, GotBUID(c) PROVE TypeInv'
<1>1. /\ MuxTakes(c) /\ UNCHANGED <<conns, objs, world>> /\ call[c].pc = "buid"
      /\ call[c].pc \in Locked \ {"version"}
  <2>1. {"buid"} \subseteq MuxPcs /\ "buid" \in Locked \ {"version"}
    BY DEF MuxPcs, Locked
  <2>2. MuxGot(c, {"buid"})
    BY DEF GotBUID
  <2>3. /\ MuxTakes(c) /\ UNCHANGED <<conns, world>> /\ call[c].pc \in {"buid"}
    BY <2>1, <2>2, MuxGotTakes
  <2>4. QED
    BY <2>1, <2>3 DEF GotBUID
<1>2. ConnsGrow
  BY <1>1, SameConns
<1>3. ObjsGrow
  BY <1>1, <1>2, SameObjs
<1>4. CASE Fail(c)
  BY <1>1, <1>3, <1>4, MuxTakesFail
<1>5. CASE Go(c, "publicKey")
  <2>1. PICK k : k = Goto(call[c], "publicKey")
    OBVIOUS
  <2>2. k \in CallRec /\ CallOK(k)
    BY <1>1, <2>1, GoType DEF Locked, LockPcs
  <2>3. QED
    BY <1>1, <1>3, <1>5, <2>1, <2>2, MuxTakesGo DEF Go
<1>6. QED
  BY <1>4, <1>5 DEF GotBUID

LEMMA GotSavedType == ASSUME TypeInv, NEW c \in Callers, GotSaved(c) PROVE TypeInv'
<1>1. /\ MuxTakes(c) /\ UNCHANGED <<conns, objs, world>> /\ call[c].pc \in {"saveRecord", "deleteRecord"}
  <2>1. {"saveRecord", "deleteRecord"} \subseteq MuxPcs
    BY DEF MuxPcs
  <2>2. QED
    BY <2>1, MuxGotTakes DEF GotSaved
<1>2. ConnsGrow
  BY <1>1, SameConns
<1>3. ObjsGrow
  BY <1>1, <1>2, SameObjs
<1>4. CASE Fail(c)
  BY <1>1, <1>3, <1>4, MuxTakesFail
<1>5. CASE Pc(c) = "saveRecord" /\ Go(c, "session")
  <2>1. PICK k : k = Goto(call[c], "session")
    OBVIOUS
  <2>2. k \in CallRec /\ CallOK(k)
    BY <1>1, <1>5, <2>1, GoType DEF Locked, Pc
  <2>3. QED
    BY <1>1, <1>3, <1>5, <2>1, <2>2, MuxTakesGo DEF Go
<1>6. CASE Done(c)
  BY <1>1, <1>3, <1>6, IdleDone, MuxTakesGo
<1>7. QED
  BY <1>4, <1>5, <1>6 DEF GotSaved
-----------------------------------------------------------------------------
LEMMA TypeStep == TypeInv /\ [Next]_vars => TypeInv'
<1> SUFFICES ASSUME TypeInv, [Next]_vars PROVE TypeInv'
  OBVIOUS
<1>1. CASE UNCHANGED vars
  BY <1>1 DEF vars, host, world, hist, TypeInv, Types, Referring, Conns, Objs, Devices, ConnOK,
       ReaderOK, Held, CallOK
<1>2. ASSUME NEW c \in Callers, Begin(c) \/ Step(c) PROVE TypeInv'
  BY <1>2, BeginType, ConnectType, NewLockdownType, KnownVersionType, SendPacketType,
     NilRecordType, ReadLengthType, ReadErrorType, GotVersionType, GotTypeType,
     GotPublicKeyType, GotWifiType, GotPairType, BeginSessionType, GotSessionType,
     EnableSSLType, NilVersionType, GotServiceType, GotValueType, EndSessionType, StoppedType,
     GotRecoveryType, DialType, SecureType, UseType, MuxSendType, MuxReadLengthType,
     MuxDeadlineType, GotRecordType, GotBUIDType, GotSavedType DEF Step
<1>3. QED
  BY <1>1, <1>2 DEF Next

LEMMA TypeHolds == Spec => []TypeInv
  BY TypeInit, TypeStep, PTL DEF Spec

\* The invariant says what TypeOK does.
LEMMA TypeImplied == TypeInv => TypeOK
<1> SUFFICES ASSUME TypeInv PROVE TypeOK
  OBVIOUS
<1>1. mux \in Stream /\ saved \in [Devs -> Record] /\ trust \in [Devs -> SUBSET Record]
  BY DEF TypeInv, Types
<1>2. conns \in Seq(ConnRec) /\ objs \in Seq(ObjRec) /\ DOMAIN conns = 1..Len(conns)
      /\ DOMAIN objs = 1..Len(objs) /\ DOMAIN services = 1..Len(services)
      /\ Len(conns) \in Nat /\ Len(objs) \in Nat /\ Len(services) \in Nat
  BY DEF TypeInv, Types
<1>3. ASSUME NEW cn \in ToSet(conns)
      PROVE  /\ cn.stream \in Stream /\ cn.tls \in Tls /\ cn.devTls \in Tls
             /\ cn.session \in 0..cn.sessions
  <2>1. PICK i \in 1..Len(conns) : cn = conns[i]
    BY <1>2 DEF ToSet
  <2>2. cn \in ConnRec /\ ConnOK(cn)
    BY <2>1, Lengths DEF TypeInv, Referring, Conns
  <2>3. cn.session \in Nat /\ cn.sessions \in Nat /\ cn.session <= cn.sessions
    BY <2>2 DEF ConnRec, ConnOK
  <2>4. QED
    BY <2>2, <2>3 DEF ConnRec
<1>4. ASSUME NEW o \in ToSet(objs)
      PROVE  o.client \in DOMAIN conns /\ o.session \in 0..conns[o.client].sessions
  <2>1. PICK j \in 1..Len(objs) : o = objs[j]
    BY <1>2 DEF ToSet
  <2>2. o.client \in 1..Len(conns) /\ o.session <= conns[o.client].sessions /\ o \in ObjRec
    BY <2>1, Lengths DEF TypeInv, Referring, Objs
  <2>3. PICK i \in 1..Len(conns) : i = o.client
    BY <2>2
  <2>4. conns[i].sessions \in Nat /\ o.session \in Nat
    BY <2>2, Lengths DEF TypeInv, ConnRec, ObjRec
  <2>5. QED
    BY <1>2, <2>2, <2>3, <2>4
<1>5. ASSUME NEW d \in Devs
      PROVE  /\ device[d].client \in 0..Len(conns) /\ device[d].lock \in 0..Len(objs)
             /\ \A f \in DOMAIN device[d].cache :
                  ToSet(device[d].cache[f]) \subseteq DOMAIN services
  <2>1. /\ device[d].client \in Nat /\ device[d].lock \in Nat
        /\ device[d].cache \in [Kept \cup Reopened -> Seq(Nat)]
    BY Lengths DEF TypeInv, DeviceRec
  <2>2. /\ device[d].client <= Len(conns) /\ device[d].lock <= Len(objs)
        /\ \A f \in Kept \cup Reopened : Held(device[d].cache[f], Len(services))
    BY DEF TypeInv, Referring, Devices
  <2>3. ASSUME NEW f \in Kept \cup Reopened
        PROVE  ToSet(device[d].cache[f]) \subseteq DOMAIN services
    <3>1. PICK s \in Seq(Nat) : s = device[d].cache[f]
      BY <2>1
    <3>2. QED
      BY <1>2, <2>2, <3>1 DEF Held, ToSet
  <2>4. QED
    BY <1>2, <2>1, <2>2, <2>3
<1>6. ASSUME NEW c \in Callers PROVE call[c].obj \in 0..Len(objs) /\ call[c].rec \in Record
  <2>1. call[c] \in CallRec /\ CallOK(call[c])
    BY Lengths DEF TypeInv, Referring
  <2>2. call[c].obj \in Nat /\ call[c].rec \in Record /\ call[c].obj <= Len(objs)
    BY <2>1 DEF CallRec, CallOK
  <2>3. QED
    BY <1>2, <2>2
<1>7. QED
  BY <1>1, <1>3, <1>4, <1>5, <1>6 DEF TypeOK

\* Whatever calls overlap, answers come late and connections end, each lockdown object,
\* session, record, service and caller's place refers to one that exists.
THEOREM TypeCorrect == Spec => []TypeOK
  BY TypeHolds, TypeImplied, PTL
-----------------------------------------------------------------------------
\* Answers that are awaited. On each stream there are as many answers as callers that wait
\* for one and one that has read a length, unless it has ended or its packets are mixed up.
Waiting(i) == {c \in Callers : /\ call[c].pc \in LockPcs /\ call[c].phase = "length"
                               /\ objs[call[c].obj].client = i}
MuxWaiting == {c \in Callers : call[c].pc \in MuxPcs /\ call[c].phase = "length"}
Taking(q) == IF q.reader = NoCaller THEN 0 ELSE 1
Covered(q, w) ==
    q.ended \/ q.mixed \/ (IsFiniteSet(w) /\ Cardinality(w) + Taking(q) <= Len(q.answers))
Awaiting == /\ \A i \in 1..Len(conns) : Covered(conns[i].stream, Waiting(i))
            /\ Covered(mux, MuxWaiting)

\* Nothing is taken off the stream, or it can no longer be read.
NoneTaken(q, q2) == /\ q.ended => q2.ended
                    /\ q.mixed => q2.mixed
                    /\ (q2.answers = q.answers /\ q2.reader = q.reader) \/ q2.ended \/ q2.mixed

LEMMA Counts ==
    ASSUME NEW w, IsFiniteSet(w), NEW w2 \in SUBSET w, NEW q \in Stream
    PROVE  /\ Cardinality(w) \in Nat /\ Cardinality(w2) \in Nat /\ IsFiniteSet(w2)
           /\ Cardinality(w2) <= Cardinality(w)
           /\ Taking(q) \in {0, 1} /\ Len(q.answers) \in Nat
<1>1. IsFiniteSet(w2) /\ Cardinality(w2) <= Cardinality(w)
  BY FS_Subset
<1>2. Cardinality(w) \in Nat /\ Cardinality(w2) \in Nat
  BY <1>1, FS_CardinalityType
<1>3. QED
  BY <1>1, <1>2, StreamParts DEF Taking

LEMMA CoveredKept ==
    ASSUME NEW q \in Stream, NEW q2 \in Stream, NEW w, NEW w2 \in SUBSET w,
           Covered(q, w), NoneTaken(q, q2)
    PROVE  Covered(q2, w2)
<1>1. CASE q2.ended \/ q2.mixed
  BY <1>1 DEF Covered
<1>2. CASE ~(q2.ended \/ q2.mixed)
  <2>1. /\ IsFiniteSet(w) /\ Cardinality(w) + Taking(q) <= Len(q.answers)
        /\ q2.answers = q.answers /\ Taking(q2) = Taking(q)
    BY <1>2 DEF Covered, NoneTaken, Taking
  <2>2. /\ Cardinality(w) \in Nat /\ Cardinality(w2) \in Nat /\ IsFiniteSet(w2)
        /\ Cardinality(w2) <= Cardinality(w)
        /\ Taking(q) \in {0, 1} /\ Len(q.answers) \in Nat
    BY <2>1, Counts
  <2>3. Cardinality(w2) + Taking(q) <= Len(q.answers)
    BY <2>1, <2>2
  <2>4. QED
    BY <2>1, <2>2, <2>3 DEF Covered
<1>3. QED
  BY <1>1, <1>2

LEMMA CoveredSent ==
    ASSUME NEW q \in Stream, NEW q2 \in Stream, NEW w, NEW c, NEW w2 \in SUBSET (w \cup {c}),
           NEW a \in AnswerRec, Covered(q, w), q2.ended <=> q.ended, q2.mixed <=> q.mixed,
           q2.answers = Append(q.answers, a), q2.reader = q.reader
    PROVE  Covered(q2, w2)
<1>1. CASE q2.ended \/ q2.mixed
  BY <1>1 DEF Covered
<1>2. CASE ~(q2.ended \/ q2.mixed)
  <2>1. /\ IsFiniteSet(w) /\ Cardinality(w) + Taking(q) <= Len(q.answers)
        /\ Taking(q2) = Taking(q)
    BY <1>2 DEF Covered, Taking
  <2>2. IsFiniteSet(w \cup {c}) /\ Cardinality(w \cup {c}) \in {Cardinality(w), Cardinality(w) + 1}
    BY <2>1, FS_AddElement
  <2>3. /\ Cardinality(w \cup {c}) \in Nat /\ Cardinality(w2) \in Nat /\ IsFiniteSet(w2)
        /\ Cardinality(w2) <= Cardinality(w \cup {c})
        /\ Taking(q) \in {0, 1} /\ Len(q.answers) \in Nat
    BY <2>2, Counts
  <2>4. Cardinality(w) \in Nat
    BY <2>1, FS_CardinalityType
  <2>5. Len(q2.answers) = Len(q.answers) + 1
    <3>1. PICK s \in Seq(AnswerRec) : s = q.answers
      BY StreamParts
    <3>2. QED
      BY <3>1
  <2>6. Cardinality(w2) + Taking(q) <= Len(q2.answers)
    BY <2>1, <2>2, <2>3, <2>4, <2>5
  <2>7. QED
    BY <2>1, <2>3, <2>6 DEF Covered
<1>3. QED
  BY <1>1, <1>2

LEMMA CoveredTaken ==
    ASSUME NEW q \in Stream, NEW q2 \in Stream, NEW w, NEW w2 \in SUBSET w,
           Covered(q, w), q.ended <=> q2.ended, q.mixed <=> q2.mixed, q.answers # <<>>,
           q.reader # NoCaller, q2.reader = NoCaller, q2.answers = Tail(q.answers)
    PROVE  Covered(q2, w2)
<1>1. CASE q2.ended \/ q2.mixed
  BY <1>1 DEF Covered
<1>2. CASE ~(q2.ended \/ q2.mixed)
  <2>1. /\ IsFiniteSet(w) /\ Cardinality(w) + 1 <= Len(q.answers) /\ Taking(q2) = 0
    BY <1>2 DEF Covered, Taking
  <2>2. /\ Cardinality(w) \in Nat /\ Cardinality(w2) \in Nat /\ IsFiniteSet(w2)
        /\ Cardinality(w2) <= Cardinality(w)
    BY <2>1, Counts
  <2>3. Len(q.answers) \in Nat /\ Len(q2.answers) = Len(q.answers) - 1
    <3>1. PICK s \in Seq(AnswerRec) : s = q.answers
      BY StreamParts
    <3>2. QED
      BY <3>1
  <2>4. Cardinality(w2) + 0 <= Len(q2.answers)
    BY <2>1, <2>2, <2>3
  <2>5. QED
    BY <2>1, <2>2, <2>4 DEF Covered
<1>3. QED
  BY <1>1, <1>2

LEMMA CoveredLength ==
    ASSUME NEW q \in Stream, NEW w, NEW c \in Callers, c \in w, NEW w2 \in SUBSET (w \ {c}),
           Covered(q, w), q.answers # <<>>
    PROVE  Covered(TakeLength(q, c), w2)
<1>1. PICK q2 \in Stream : q2 = TakeLength(q, c)
  BY TakeLengthType
<1>2. CASE q2.ended \/ q2.mixed
  BY <1>1, <1>2 DEF Covered
<1>3. CASE ~(q2.ended \/ q2.mixed)
  <2>1. /\ q.reader = NoCaller /\ ~q.ended /\ ~q.mixed /\ q2.answers = q.answers /\ q2.reader = c
    BY <1>1, <1>3, TakeLengthType
  <2>2. Taking(q) = 0 /\ Taking(q2) = 1
    BY <2>1, Bounds DEF Taking
  <2>3. IsFiniteSet(w) /\ Cardinality(w) <= Len(q.answers)
    <3>1. IsFiniteSet(w) /\ Cardinality(w) + 0 <= Len(q.answers)
      BY <2>1, <2>2 DEF Covered
    <3>2. Cardinality(w) \in Nat
      BY <3>1, FS_CardinalityType
    <3>3. QED
      BY <3>1, <3>2
  <2>4. IsFiniteSet(w \ {c}) /\ Cardinality(w \ {c}) = Cardinality(w) - 1
    BY <2>3, FS_RemoveElement
  <2>5. /\ Cardinality(w2) \in Nat /\ IsFiniteSet(w2) /\ Cardinality(w2) <= Cardinality(w \ {c})
        /\ Len(q.answers) \in Nat
    BY <2>4, Counts
  <2>6. Cardinality(w) \in Nat
    BY <2>3, FS_CardinalityType
  <2>7. Cardinality(w2) + 1 <= Len(q.answers)
    BY <2>3, <2>4, <2>5, <2>6
  <2>8. Covered(q2, w2)
    BY <2>1, <2>2, <2>5, <2>7 DEF Covered
  <2>9. QED
    BY <1>1, <2>8
<1>4. QED
  BY <1>2, <1>3

\* An object keeps its connection.
ClientsKept == \A o \in 1..Len(objs) : objs'[o].client = objs[o].client

\* Who waits after a step of c.
LEMMA WaitingStep ==
    ASSUME TypeInv, NEW c \in Callers, NEW k, call' = [call EXCEPT ![c] = k], ClientsKept
    PROVE  /\ \A i \in Nat : Waiting(i)' \subseteq Waiting(i) \cup {c}
           /\ MuxWaiting' \subseteq MuxWaiting \cup {c}
           /\ k.pc \notin MuxPcs \/ k.phase # "length" => MuxWaiting' \subseteq MuxWaiting \ {c}
           /\ k.pc \notin LockPcs \/ k.phase # "length" =>
                 \A i \in Nat : Waiting(i)' \subseteq Waiting(i) \ {c}
           /\ \A i \in Nat : objs'[k.obj].client # i => Waiting(i)' \subseteq Waiting(i) \ {c}
<1>1. call'[c] = k /\ \A b \in Callers : b # c => call'[b] = call[b]
  BY DEF TypeInv, Types
<1>2. ASSUME NEW i \in Nat, NEW b \in Waiting(i)', b # c PROVE b \in Waiting(i)
  <2>1. b \in Callers /\ call[b].pc \in LockPcs /\ call[b].phase = "length"
        /\ objs'[call[b].obj].client = i
    BY <1>1, <1>2 DEF Waiting
  <2>2. call[b].obj \in 1..Len(objs)
    BY <2>1, ObjNow, PcSets
  <2>3. objs'[call[b].obj].client = objs[call[b].obj].client
    BY <2>2 DEF ClientsKept
  <2>4. QED
    BY <2>1, <2>3 DEF Waiting
<1>3. ASSUME NEW b \in MuxWaiting', b # c PROVE b \in MuxWaiting
  BY <1>1, <1>3 DEF MuxWaiting
<1>4. k.pc \notin MuxPcs \/ k.phase # "length" => c \notin MuxWaiting'
  BY <1>1 DEF MuxWaiting
<1>5. ASSUME NEW i \in Nat, k.pc \notin LockPcs \/ k.phase # "length" \/ objs'[k.obj].client # i
      PROVE  c \notin Waiting(i)'
  BY <1>1, <1>5 DEF Waiting
<1>6. QED
  BY <1>2, <1>3, <1>4, <1>5

\* A connection is one of those there were; a step changes the streams of one at most.
LEMMA StreamsAt ==
    ASSUME TypeInv, TypeInv', Len(conns') = Len(conns), NEW i \in 1..Len(conns')
    PROVE  /\ i \in 1..Len(conns) /\ i \in Nat
           /\ conns[i].stream \in Stream /\ conns'[i].stream \in Stream
<1>1. i \in 1..Len(conns) /\ i \in Nat
  BY Lengths DEF TypeInv
<1>2. conns[i] \in ConnRec /\ conns'[i] \in ConnRec
  BY <1>1 DEF TypeInv, Types
<1>3. QED
  BY <1>1, <1>2 DEF ConnRec

\* A step after which c does not wait, and which takes no answer.
LEMMA RestAwaits ==
    ASSUME TypeInv, TypeInv', Awaiting, NEW c \in Callers, NEW k, k.phase # "length",
           call' = [call EXCEPT ![c] = k], ClientsKept, Len(conns') = Len(conns),
           \A i \in 1..Len(conns) : NoneTaken(conns[i].stream, conns'[i].stream),
           NoneTaken(mux, mux')
    PROVE  Awaiting'
<1>1. mux \in Stream /\ mux' \in Stream
  BY DEF TypeInv, Types
<1>2. ASSUME NEW i \in 1..Len(conns') PROVE Covered(conns'[i].stream, Waiting(i)')
  <2>1. Waiting(i)' \subseteq Waiting(i)
    BY StreamsAt, WaitingStep
  <2>2. Covered(conns[i].stream, Waiting(i)) /\ NoneTaken(conns[i].stream, conns'[i].stream)
    BY StreamsAt DEF Awaiting
  <2>3. QED
    BY <2>1, <2>2, StreamsAt, CoveredKept
<1>3. Covered(mux', MuxWaiting')
  <2>1. MuxWaiting' \subseteq MuxWaiting /\ Covered(mux, MuxWaiting)
    BY WaitingStep DEF Awaiting
  <2>2. QED
    BY <1>1, <2>1, CoveredKept
<1>4. QED
  BY <1>2, <1>3 DEF Awaiting, Covered, Taking
LEMMA TakesAwaits ==
    ASSUME TypeInv, TypeInv', Awaiting, NEW c \in Callers, NEW k, k.phase # "length",
           call' = [call EXCEPT ![c] = k], ClientsKept, Takes(c), UNCHANGED mux
    PROVE  Awaiting'
<1>1. PICK n \in 1..Len(conns), q \in Stream :
        n = ConnOf(c) /\ q = conns[n].stream /\ ConnOK(conns[n]) /\ conns[n] \in ConnRec
  BY ConnNow, PcSets DEF Takes
<1>2. q.reader = c /\ q.answers # <<>> /\ q.reader # NoCaller
  BY <1>1, Bounds DEF Takes, ConnOK, ReaderOK
<1>3. PICK q2 \in Stream : /\ q2 = TakeBody(q) /\ q2.answers = Tail(q.answers)
                           /\ q2.reader = NoCaller /\ q2.mixed = q.mixed /\ q2.ended = q.ended
  BY <1>2, TakeBodyType
<1>4. conns' = [conns EXCEPT ![n].stream = q2] /\ Len(conns') = Len(conns)
      /\ \A i \in 1..Len(conns) : conns'[i].stream = IF i = n THEN q2 ELSE conns[i].stream
  <2>1. conns \in Seq(ConnRec) /\ conns' = [conns EXCEPT ![n].stream = q2]
    BY <1>1, <1>3 DEF Takes, TypeInv, Types
  <2>2. [conns[n] EXCEPT !.stream = q2].stream = q2
    BY <1>1 DEF ConnRec
  <2>3. QED
    BY <2>1, <2>2
<1>5. ASSUME NEW i \in 1..Len(conns') PROVE Covered(conns'[i].stream, Waiting(i)')
  <2>1. Waiting(i)' \subseteq Waiting(i)
    BY <1>4, StreamsAt, WaitingStep
  <2>2. Covered(conns[i].stream, Waiting(i))
    BY <1>4, StreamsAt DEF Awaiting
  <2>3. CASE i = n
    <3>1. Covered(q, Waiting(i)) /\ conns'[i].stream = q2
      BY <1>1, <1>4, <2>2, <2>3
    <3>2. Covered(q2, Waiting(i)')
      BY <1>2, <1>3, <2>1, <3>1, CoveredTaken
    <3>3. QED
      BY <3>1, <3>2
  <2>4. CASE i # n
    <3>1. conns'[i].stream = conns[i].stream /\ conns[i].stream \in Stream
      BY <1>4, <2>4, StreamsAt
    <3>2. QED
      BY <2>1, <2>2, <3>1, CoveredKept DEF NoneTaken
  <2>5. QED
    BY <2>3, <2>4
<1>6. Covered(mux', MuxWaiting')
  <2>1. mux \in Stream /\ mux' = mux /\ MuxWaiting' \subseteq MuxWaiting /\ Covered(mux, MuxWaiting)
    BY WaitingStep DEF Awaiting, TypeInv, Types
  <2>2. QED
    BY <2>1, CoveredKept DEF NoneTaken
<1>7. QED
  BY <1>5, <1>6 DEF Awaiting, Covered, Taking

LEMMA ConnsSameAwaits ==
    ASSUME TypeInv, TypeInv', Awaiting, NEW c \in Callers, NEW k, call' = [call EXCEPT ![c] = k],
           k.pc \notin LockPcs \/ k.phase # "length", ClientsKept, UNCHANGED conns
    PROVE  \A i \in 1..Len(conns') : Covered(conns'[i].stream, Waiting(i)')
<1>1. ASSUME NEW i \in 1..Len(conns') PROVE Covered(conns'[i].stream, Waiting(i)')
  <2>1. Waiting(i)' \subseteq Waiting(i)
    BY StreamsAt, WaitingStep
  <2>2. Covered(conns[i].stream, Waiting(i)) /\ conns'[i].stream = conns[i].stream
    BY DEF Awaiting
  <2>3. conns[i].stream \in Stream
    BY StreamsAt
  <2>4. QED
    BY <2>1, <2>2, <2>3, CoveredKept DEF NoneTaken
<1>2. QED
  BY <1>1

LEMMA MuxTakesAwaits ==
    ASSUME TypeInv, TypeInv', Awaiting, NEW c \in Callers, NEW k, k.phase # "length",
           call' = [call EXCEPT ![c] = k], ClientsKept, MuxTakes(c), UNCHANGED conns
    PROVE  Awaiting'
<1>1. /\ mux \in Stream /\ mux' \in Stream /\ mux.answers # <<>> /\ mux.reader # NoCaller
      /\ mux' = TakeBody(mux)
  BY Bounds DEF TypeInv, Types, Referring, ReaderOK, MuxTakes
<1>2. MuxWaiting' \subseteq MuxWaiting /\ Covered(mux, MuxWaiting)
  BY WaitingStep DEF Awaiting
<1>3. PICK q2 \in Stream : /\ q2 = TakeBody(mux) /\ q2.answers = Tail(mux.answers)
                           /\ q2.reader = NoCaller /\ q2.mixed = mux.mixed /\ q2.ended = mux.ended
  BY <1>1, TakeBodyType
<1>4. Covered(q2, MuxWaiting')
  BY <1>1, <1>2, <1>3, CoveredTaken
<1>5. Covered(mux', MuxWaiting')
  BY <1>1, <1>3, <1>4
<1>6. QED
  BY <1>5, ConnsSameAwaits DEF Awaiting, Covered, Taking
-----------------------------------------------------------------------------
\* The steps in three kinds: those that leave both streams, and those that take an answer
\* off one of them; and the others.
Local(c) == \/ Begin(c) \/ NewLockdown(c) \/ KnownVersion(c) \/ NilRecord(c) \/ ReadError(c)
            \/ BeginSession(c) \/ NilVersion(c) \/ EndSession(c) \/ Dial(c) \/ Secure(c) \/ Use(c)
            \/ (Connect(c) /\ Fail(c) /\ UNCHANGED conns)
Taken(c) == \/ GotVersion(c) \/ GotType(c) \/ GotPublicKey(c) \/ GotWifi(c) \/ GotPair(c)
            \/ GotSession(c) \/ GotService(c) \/ GotValue(c) \/ Stopped(c) \/ GotRecovery(c)
MuxTaken(c) == GotRecord(c) \/ GotBUID(c) \/ GotSaved(c)

LEMMA LocalSame == ASSUME NEW c \in Callers, Local(c) PROVE UNCHANGED <<mux, conns>>
<1>1. CASE Begin(c) \/ NewLockdown(c) \/ KnownVersion(c) \/ NilRecord(c) \/ ReadError(c)
  BY <1>1 DEF Begin, NewLockdown, KnownVersion, NilRecord, ReadError
<1>2. CASE BeginSession(c) \/ NilVersion(c) \/ EndSession(c) \/ Dial(c) \/ Secure(c) \/ Use(c)
  BY <1>2 DEF BeginSession, NilVersion, EndSession, Dial, Secure, Use
<1>3. CASE Connect(c) /\ Fail(c) /\ UNCHANGED conns
  BY <1>3 DEF Connect
<1>4. QED
  BY <1>1, <1>2, <1>3 DEF Local

LEMMA TakenTakes == ASSUME NEW c \in Callers, Taken(c) PROVE Takes(c) /\ UNCHANGED mux
<1>1. ASSUME NEW pcs, pcs \subseteq LockPcs, Got(c, pcs) PROVE Takes(c) /\ UNCHANGED mux
  BY <1>1 DEF Got, Takes, Pc
<1>2. /\ {"version"} \subseteq LockPcs /\ {"queryType"} \subseteq LockPcs
      /\ {"publicKey"} \subseteq LockPcs /\ {"pairDevice"} \subseteq LockPcs
      /\ {"start"} \subseteq LockPcs /\ {"service"} \subseteq LockPcs /\ {"value"} \subseteq LockPcs
      /\ {"stop", "stopRunning"} \subseteq LockPcs /\ {"recovery"} \subseteq LockPcs
  BY DEF LockPcs
<1>3. CASE GotVersion(c) \/ GotType(c) \/ GotPublicKey(c) \/ GotPair(c) \/ GotSession(c)
  BY <1>1, <1>2, <1>3 DEF GotVersion, GotType, GotPublicKey, GotPair, GotSession
<1>4. CASE GotService(c) \/ GotValue(c) \/ Stopped(c) \/ GotRecovery(c)
  BY <1>1, <1>2, <1>4 DEF GotService, GotValue, Stopped, GotRecovery
<1>5. CASE GotWifi(c)
  BY <1>5 DEF GotWifi, Takes, Pc, LockPcs
<1>6. QED
  BY <1>3, <1>4, <1>5 DEF Taken

LEMMA MuxTakenTakes ==
    ASSUME NEW c \in Callers, MuxTaken(c) PROVE MuxTakes(c) /\ UNCHANGED <<conns, world>>
<1>1. /\ {"readRecord"} \subseteq MuxPcs /\ {"buid"} \subseteq MuxPcs
      /\ {"saveRecord", "deleteRecord"} \subseteq MuxPcs
  BY DEF MuxPcs
<1>2. QED
  BY <1>1, MuxGotTakes DEF MuxTaken, GotRecord, GotBUID, GotSaved

\* What steps do to the objects.
LEMMA ClientsStep == ASSUME TypeInv, NEW c \in Callers, Begin(c) \/ Step(c) PROVE ClientsKept
<1>0. objs \in Seq(ObjRec)
  BY DEF TypeInv, Types
<1>1. CASE UNCHANGED objs
  BY <1>1 DEF ClientsKept
<1>2. ASSUME NEW r, objs' = Append(objs, r) PROVE ClientsKept
  BY <1>0, <1>2 DEF ClientsKept
<1>3. ASSUME NEW o, NEW v, \/ objs' = [objs EXCEPT ![o].version = v]
                           \/ objs' = [objs EXCEPT ![o].session = v]
                           \/ objs' = [objs EXCEPT ![o].record = v]
      PROVE  ClientsKept
  <2>1. \A p \in 1..Len(objs) : objs[p] \in ObjRec
    BY Lengths DEF TypeInv
  <2>2. QED
    BY <1>0, <1>3, <2>1 DEF ClientsKept, ObjRec
<1>4. \/ UNCHANGED objs
      \/ \E r : objs' = Append(objs, r)
      \/ \E o, v : \/ objs' = [objs EXCEPT ![o].version = v]
                   \/ objs' = [objs EXCEPT ![o].session = v]
                   \/ objs' = [objs EXCEPT ![o].record = v]
  <2>1. CASE Begin(c) \/ Connect(c) \/ NewLockdown(c) \/ KnownVersion(c) \/ SendPacket(c)
    BY <2>1 DEF Begin, Connect, NewLockdown, KnownVersion, SendPacket
  <2>2. CASE NilRecord(c) \/ ReadLength(c) \/ ReadError(c) \/ GotVersion(c) \/ GotType(c)
    BY <2>2 DEF NilRecord, ReadLength, ReadError, GotVersion, GotType
  <2>3. CASE GotPublicKey(c) \/ GotWifi(c) \/ GotPair(c) \/ BeginSession(c) \/ GotSession(c)
    BY <2>3 DEF GotPublicKey, GotWifi, GotPair, BeginSession, GotSession
  <2>4. CASE EnableSSL(c) \/ NilVersion(c) \/ GotService(c) \/ GotValue(c) \/ EndSession(c)
    BY <2>4 DEF EnableSSL, NilVersion, GotService, GotValue, EndSession
  <2>5. CASE Stopped(c) \/ GotRecovery(c) \/ Dial(c) \/ Secure(c) \/ Use(c)
    BY <2>5 DEF Stopped, GotRecovery, Dial, Secure, Use
  <2>6. CASE MuxSend(c) \/ MuxReadLength(c) \/ MuxDeadline(c)
    BY <2>6 DEF MuxSend, MuxReadLength, MuxDeadline
  <2>7. CASE GotRecord(c) \/ GotBUID(c) \/ GotSaved(c)
    BY <2>7 DEF GotRecord, GotBUID, GotSaved, SetRecord
  <2>8. QED
    BY <2>1, <2>2, <2>3, <2>4, <2>5, <2>6, <2>7 DEF Step
<1>5. QED
  BY <1>1, <1>2, <1>3, <1>4
\* After the step c does not wait for the length of an answer.
Rests(c) == \E k : k.phase # "length" /\ call' = [call EXCEPT ![c] = k]

LEMMA RestPhases ==
    ASSUME NEW l \in CallRec, NEW pc
    PROVE  /\ Goto(l, pc).phase = "send"
           /\ \A v : [Goto(l, pc) EXCEPT !.rec = v].phase = "send"
           /\ \A v : [Goto(l, pc) EXCEPT !.num = v].phase = "send"
           /\ \A v : [Goto(l, pc) EXCEPT !.want = v].phase = "send"
           /\ \A v : [Goto(l, pc) EXCEPT !.got = v].phase = "send"
           /\ \A v, w : [Goto(l, pc) EXCEPT !.obj = v, !.rec = w].phase = "send"
  BY DEF Goto, CallRec

LEMMA RestFail == ASSUME TypeInv, NEW c \in Callers, call[c].pc # "idle", Fail(c) PROVE Rests(c)
  BY FailType DEF Failed, Rests

LEMMA RestDone == ASSUME NEW c \in Callers, Done(c) PROVE Rests(c)
  BY IdleType DEF Done, Rests

LEMMA RestGo == ASSUME TypeInv, NEW c \in Callers, NEW pc, Go(c, pc) PROVE Rests(c)
<1>1. call[c] \in CallRec /\ call' = [call EXCEPT ![c] = Goto(call[c], pc)]
  BY Lengths DEF TypeInv, Go
<1>2. Goto(call[c], pc).phase # "length"
  BY <1>1, RestPhases
<1>3. QED
  BY <1>1, <1>2 DEF Rests

LEMMA RestPanic ==
    ASSUME TypeInv, NEW c \in Callers, NEW what, Panic(what), call[c].phase # "length"
    PROVE  Rests(c)
<1>1. call' = [call EXCEPT ![c] = call[c]]
  BY DEF Panic, TypeInv, Types
<1>2. QED
  BY <1>1 DEF Rests

LEMMA TakenRests == ASSUME TypeInv, NEW c \in Callers, Taken(c) PROVE Rests(c)
<1>1. call[c].phase # "length" /\ call[c].pc # "idle" /\ call[c].pc \in Locked
      /\ call[c] \in CallRec
  BY TakenTakes, PcSets, Lengths DEF Takes, TypeInv
<1>2. CASE Fail(c) \/ Done(c) \/ (\E pc : Go(c, pc)) \/ (\E what : Panic(what))
  BY <1>1, <1>2, RestFail, RestDone, RestGo, RestPanic
<1>3. ASSUME NEW k, k.phase = "send", call' = [call EXCEPT ![c] = k] PROVE Rests(c)
  BY <1>3 DEF Rests
<1>4. CASE GotVersion(c)
  <2>1. CASE call' = [call EXCEPT ![c] = AfterLockdown(c)]
    <3>1. Pc(c) = "version"
      BY <1>4 DEF GotVersion, Got
    <3>2. AfterLockdown(c).phase = "send"
      BY <3>1, AfterType
    <3>3. QED
      BY <1>3, <2>1, <3>2
  <2>2. QED
    BY <1>2, <1>4, <2>1 DEF GotVersion
<1>5. CASE GotType(c) \/ GotPublicKey(c) \/ GotPair(c) \/ GotValue(c) \/ GotRecovery(c)
  BY <1>2, <1>5 DEF GotType, GotPublicKey, GotPair, GotValue, GotRecovery
<1>6. CASE GotWifi(c) \/ GotSession(c) \/ GotService(c)
  <2>1. \A v : /\ [Goto(call[c], "pairDevice") EXCEPT !.rec = v].phase = "send"
               /\ [Goto(call[c], "tls") EXCEPT !.num = v].phase = "send"
               /\ [Goto(call[c], "end") EXCEPT !.want = v].phase = "send"
    BY <1>1, RestPhases
  <2>2. CASE GotWifi(c)
    BY <1>2, <1>3, <2>1, <2>2 DEF GotWifi
  <2>3. CASE GotSession(c)
    BY <1>2, <1>3, <2>1, <2>3 DEF GotSession
  <2>4. CASE GotService(c)
    BY <1>2, <1>3, <2>1, <2>4 DEF GotService
  <2>5. QED
    BY <1>6, <2>2, <2>3, <2>4
<1>7. CASE Stopped(c)
  <2>1. CASE call' = [call EXCEPT ![c] = IF Pc(c) = "stop" THEN AfterSession(call[c])
                                         ELSE Goto(call[c], "start")]
    <3>1. Goto(call[c], "start").phase = "send"
      BY <1>1, RestPhases
    <3>2. call[c].obj \in 1..Len(objs)
      BY <1>1, <1>7, ObjNow DEF Stopped, Got, Pc
    <3>3. AfterSession(call[c]).phase = "send"
      BY <1>1, <3>2, AfterSessionType
    <3>4. QED
      BY <1>3, <2>1, <3>1, <3>3
  <2>2. QED
    BY <1>2, <1>7, <2>1 DEF Stopped
<1>8. QED
  BY <1>4, <1>5, <1>6, <1>7 DEF Taken

LEMMA MuxTakenRests == ASSUME TypeInv, NEW c \in Callers, MuxTaken(c) PROVE Rests(c)
<1>1. call[c].pc # "idle"
  BY MuxTakenTakes, PcSets DEF MuxTakes
<1>2. QED
  BY <1>1, RestFail, RestDone, RestGo DEF MuxTaken, GotRecord, GotBUID, GotSaved

LEMMA LocalRests == ASSUME TypeInv, NEW c \in Callers, Local(c) PROVE Rests(c)
<1>1. call[c] \in CallRec /\ call[c].phase \in {"send", "length", "body"}
  BY Lengths DEF TypeInv, CallRec
<1>2. call[c].phase # "send" => call[c].pc \in LockPcs \cup MuxPcs
  BY DEF TypeInv, Referring, CallOK
<1>3. ASSUME NEW k, k.phase = "send", call' = [call EXCEPT ![c] = k] PROVE Rests(c)
  BY <1>3 DEF Rests
<1>4. CASE Begin(c)
  <2>1. PICK op \in Ops, d \in Devs :
        call' = [call EXCEPT ![c] =
             [Idle EXCEPT !.op = op, !.dev = d, !.want = Field(op),
                          !.pc = IF op = "deletePairRecord" THEN "deleteRecord"
                                 ELSE IF op \in Kept /\ device[d].cache[op] # <<>> THEN "use"
                                 ELSE "connect"]]
    BY <1>4 DEF Begin
  <2>2. PICK k : k = [Idle EXCEPT !.op = op, !.dev = d, !.want = Field(op),
                          !.pc = IF op = "deletePairRecord" THEN "deleteRecord"
                                 ELSE IF op \in Kept /\ device[d].cache[op] # <<>> THEN "use"
                                 ELSE "connect"]
    OBVIOUS
  <2>3. k.phase = "send"
    BY <2>2 DEF Idle
  <2>4. QED
    BY <1>3, <2>1, <2>2, <2>3
<1>5. CASE NewLockdown(c)
  <2>1. call[c].phase = "send" /\ call' = [call EXCEPT ![c].pc = "version"]
    BY <1>2, <1>5 DEF NewLockdown, Pc, LockPcs, MuxPcs
  <2>2. [call[c] EXCEPT !.pc = "version"].phase = "send"
    BY <1>1, <2>1 DEF CallRec
  <2>3. QED
    BY <1>3, <2>1, <2>2
<1>6. CASE KnownVersion(c)
  BY <1>3, <1>6, AfterType DEF KnownVersion
<1>7. CASE NilRecord(c) \/ NilVersion(c)
  <2>1. call[c].phase = "send" /\ \E what : Panic(what)
    BY <1>2, <1>7 DEF NilRecord, NilVersion, Pc, LockPcs, MuxPcs
  <2>2. QED
    BY <2>1, RestPanic
<1>8. CASE ReadError(c) \/ (Connect(c) /\ Fail(c))
  <2>1. call[c].pc # "idle" /\ Fail(c)
    BY <1>8, Kinds, PcSets DEF ReadError, Connect, Pc
  <2>2. QED
    BY <2>1, RestFail
<1>9. CASE BeginSession(c)
  <2>1. PICK pc, o, r : call' = [call EXCEPT ![c] = [Goto(@, pc) EXCEPT !.obj = o, !.rec = r]]
    BY <1>9 DEF BeginSession
  <2>2. PICK k : k = [Goto(call[c], pc) EXCEPT !.obj = o, !.rec = r]
    OBVIOUS
  <2>3. k.phase = "send"
    BY <1>1, <2>2, RestPhases
  <2>4. QED
    BY <1>3, <2>1, <2>2, <2>3
<1>10. CASE EndSession(c)
  <2>1. /\ call[c].pc \in Locked \ {"version"}
    BY <1>10 DEF EndSession, Pc, Locked
  <2>2. PICK o \in 1..Len(objs) : o = IF InGetValue(c) THEN MyLock(c) ELSE call[c].obj
    BY <2>1, ObjNow
  <2>3. PICK h : h = [call[c] EXCEPT !.obj = o]
    OBVIOUS
  <2>4. o \in Nat
    BY <2>2, Lengths DEF TypeInv
  <2>5. /\ h \in CallRec /\ h.obj = o /\ h.dev = call[c].dev /\ h.got = call[c].got
        /\ h.inner = call[c].inner
    BY <1>1, <2>3, <2>4, WithObj
  <2>6. Goto(h, "stop").phase = "send" /\ AfterSession(h).phase = "send"
    BY <2>1, <2>2, <2>5, RestPhases, AfterSessionType
  <2>7. call' = [call EXCEPT ![c] = IF objs[o].session # 0 THEN Goto(h, "stop") ELSE AfterSession(h)]
    BY <1>10, <2>2, <2>3 DEF EndSession
  <2>8. QED
    BY <1>3, <2>6, <2>7
<1>11. CASE Dial(c)
  <2>1. call[c].pc # "idle"
    BY <1>11 DEF Dial, Pc
  <2>2. CASE Fail(c)
    BY <2>1, <2>2, RestFail
  <2>3. ASSUME NEW v, call' = [call EXCEPT ![c] = [Goto(@, "secure") EXCEPT !.got = v]]
        PROVE  Rests(c)
    <3>1. PICK k : k = [Goto(call[c], "secure") EXCEPT !.got = v]
      OBVIOUS
    <3>2. k.phase = "send"
      BY <1>1, <3>1, RestPhases
    <3>3. QED
      BY <1>3, <2>3, <3>1, <3>2
  <2>4. QED
    BY <1>11, <2>2, <2>3 DEF Dial
<1>12. CASE Secure(c)
  <2>1. call[c].pc # "idle"
    BY <1>12 DEF Secure, Pc
  <2>2. CASE Fail(c) \/ Done(c)
    BY <2>1, <2>2, RestFail, RestDone
  <2>3. CASE call' = [call EXCEPT ![c] = [Goto(@, "queryType") EXCEPT !.want = "crashReportCopy"]]
    <3>1. PICK k : k = [Goto(call[c], "queryType") EXCEPT !.want = "crashReportCopy"]
      OBVIOUS
    <3>2. k.phase = "send"
      BY <1>1, <3>1, RestPhases
    <3>3. QED
      BY <1>3, <2>3, <3>1, <3>2
  <2>4. CASE call' = [call EXCEPT ![c] = Goto(@, "use")]
    BY <1>1, <1>3, <2>4, RestPhases
  <2>5. QED
    BY <1>12, <2>2, <2>3, <2>4 DEF Secure
<1>13. CASE Use(c)
  <2>1. call[c].phase # "length"
    BY <1>2, <1>13, PcSets DEF Use, Pc
  <2>2. QED
    BY <1>13, <2>1, RestDone, RestPanic DEF Use
<1>14. QED
  BY <1>4, <1>5, <1>6, <1>7, <1>8, <1>9, <1>10, <1>11, <1>12, <1>13 DEF Local
\* The other steps.
LEMMA ConnectAwaits ==
    ASSUME TypeInv, TypeInv', Awaiting, NEW c \in Callers, Connect(c), ~Local(c)
    PROVE  Awaiting'
<1>1. /\ UNCHANGED <<mux, objs>> /\ call[c].pc = "connect"
      /\ conns' = Append(conns, [stream |-> NoStream, dev |-> call[c].dev, tls |-> "off",
                                 devTls |-> "off", session |-> 0, sessions |-> 0])
      /\ call' = [call EXCEPT ![c].pc = "object"]
  BY DEF Connect, Local, Pc
<1> DEFINE new == [stream |-> NoStream, dev |-> call[c].dev, tls |-> "off",
                   devTls |-> "off", session |-> 0, sessions |-> 0]
<1>2. new.stream = NoStream
  OBVIOUS
<1> HIDE DEF new
<1>3. conns \in Seq(ConnRec) /\ Len(conns) \in Nat /\ conns' = Append(conns, new)
  BY <1>1, Lengths DEF TypeInv, Types, new
<1>4. /\ \A i \in 1..Len(conns') : i \in 1..Len(conns) \/ i = Len(conns) + 1
      /\ \A i \in 1..Len(conns) : conns'[i] = conns[i]
      /\ conns'[Len(conns) + 1] = new
  BY <1>3
<1>5. ClientsKept /\ call[c] \in CallRec /\ CallOK(call[c])
  BY <1>1, Lengths DEF ClientsKept, TypeInv, Referring
<1>6. PICK k : k = [call[c] EXCEPT !.pc = "object"]
  OBVIOUS
<1>7. call' = [call EXCEPT ![c] = k] /\ k.phase # "length"
  BY <1>1, <1>5, <1>6, PcSets DEF CallOK, CallRec, LockPcs, MuxPcs
<1>8. ASSUME NEW i \in 1..Len(conns') PROVE Covered(conns'[i].stream, Waiting(i)')
  <2>1. Waiting(i)' \subseteq Waiting(i)
    <3>1. i \in Nat
      BY <1>3, <1>4
    <3>2. QED
      BY <1>5, <1>7, <3>1, WaitingStep
  <2>2. CASE i \in 1..Len(conns)
    <3>1. conns[i].stream \in Stream
      BY <2>2, Lengths DEF TypeInv, ConnRec
    <3>2. Covered(conns[i].stream, Waiting(i)) /\ conns'[i].stream = conns[i].stream
      BY <1>4, <2>2 DEF Awaiting
    <3>3. QED
      BY <2>1, <3>1, <3>2, CoveredKept DEF NoneTaken
  <2>3. CASE i = Len(conns) + 1
    <3>1. Waiting(i) = {}
      <4>1. \A b \in Callers : call[b].pc \in LockPcs /\ call[b].phase = "length"
                                 => objs[call[b].obj].client \in 1..Len(conns)
        BY ObjNow, PcSets DEF TypeInv, Referring, Objs
      <4>2. i \notin 1..Len(conns)
        BY <1>3, <2>3
      <4>3. QED
        BY <4>1, <4>2 DEF Waiting
    <3>2. conns'[i].stream = NoStream
      BY <1>2, <1>4, <2>3
    <3>3. Waiting(i)' = {}
      BY <2>1, <3>1
    <3>4. Covered(NoStream, {})
      <4>1. Taking(NoStream) = 0 /\ NoStream.answers = <<>>
        BY DEF Taking, NoStream
      <4>2. Len(NoStream.answers) = 0 /\ IsFiniteSet({}) /\ Cardinality({}) = 0
        BY <4>1, FS_EmptySet
      <4>3. QED
        BY <4>1, <4>2 DEF Covered
    <3>5. QED
      BY <3>2, <3>3, <3>4
  <2>4. QED
    BY <1>4, <2>2, <2>3
<1>9. Covered(mux', MuxWaiting')
  <2>1. mux \in Stream /\ mux' = mux /\ MuxWaiting' \subseteq MuxWaiting /\ Covered(mux, MuxWaiting)
    BY <1>1, <1>5, <1>7, WaitingStep DEF Awaiting, TypeInv, Types
  <2>2. QED
    BY <2>1, CoveredKept DEF NoneTaken
<1>10. QED
  BY <1>8, <1>9 DEF Awaiting, Covered, Taking

\* A step of c that changes its connection's stream only, in a way that covers who waits.
LEMMA OneConnAwaits ==
    ASSUME TypeInv, TypeInv', Awaiting, NEW c \in Callers, NEW k, call' = [call EXCEPT ![c] = k],
           ClientsKept, NEW n \in 1..Len(conns), NEW cn2, conns' = [conns EXCEPT ![n] = cn2],
           k.pc \notin MuxPcs \/ k.phase # "length", UNCHANGED mux,
           \A i \in Nat : i # n => Waiting(i)' \subseteq Waiting(i),
           Covered(cn2.stream, Waiting(n)')
    PROVE  Awaiting'
<1>1. Len(conns') = Len(conns) /\ \A i \in 1..Len(conns) : conns'[i] = IF i = n THEN cn2 ELSE conns[i]
  BY DEF TypeInv, Types
<1>2. ASSUME NEW i \in 1..Len(conns') PROVE Covered(conns'[i].stream, Waiting(i)')
  <2>1. CASE i = n
    BY <1>1, <2>1
  <2>2. CASE i # n
    <3>1. conns'[i] = conns[i] /\ conns[i].stream \in Stream /\ i \in Nat
      BY <1>1, <2>2, StreamsAt
    <3>2. Covered(conns[i].stream, Waiting(i)) /\ Waiting(i)' \subseteq Waiting(i)
      BY <1>1, <2>2, <3>1 DEF Awaiting
    <3>3. QED
      BY <3>1, <3>2, CoveredKept DEF NoneTaken
  <2>3. QED
    BY <2>1, <2>2
<1>3. Covered(mux', MuxWaiting')
  <2>1. mux \in Stream /\ mux' = mux /\ MuxWaiting' \subseteq MuxWaiting /\ Covered(mux, MuxWaiting)
    BY WaitingStep DEF Awaiting, TypeInv, Types
  <2>2. QED
    BY <2>1, CoveredKept DEF NoneTaken
<1>4. QED
  BY <1>2, <1>3 DEF Awaiting, Covered, Taking

LEMMA ReadLengthAwaits ==
    ASSUME TypeInv, TypeInv', Awaiting, NEW c \in Callers, ReadLength(c), ClientsKept
    PROVE  Awaiting'
<1>1. /\ call[c].pc \in LockPcs /\ call[c].pc \in Locked /\ call[c].phase = "length"
      /\ call' = [call EXCEPT ![c].phase = "body"] /\ UNCHANGED mux
  BY Kinds, PcSets DEF ReadLength, Pc
<1>2. PICK n \in 1..Len(conns), cn \in ConnRec, q \in Stream :
        n = ConnOf(c) /\ cn = conns[n] /\ q = cn.stream
  BY <1>1, ConnNow
<1>3. n = objs[call[c].obj].client /\ q.answers # <<>>
  BY <1>1, <1>2 DEF ConnOf, ReadLength, Unread
<1>4. c \in Waiting(n) /\ Covered(q, Waiting(n))
  BY <1>1, <1>2, <1>3 DEF Waiting, Awaiting
<1>5. PICK k : k = [call[c] EXCEPT !.phase = "body"]
  OBVIOUS
<1>6. call' = [call EXCEPT ![c] = k] /\ k.phase # "length"
  BY <1>1, <1>5, Lengths DEF TypeInv, CallRec
<1>7. \A i \in Nat : Waiting(i)' \subseteq Waiting(i) \ {c}
  BY <1>6, WaitingStep
<1>8. Covered(TakeLength(q, c), Waiting(n)')
  <2>1. n \in Nat
    BY Lengths DEF TypeInv
  <2>2. QED
    BY <1>3, <1>4, <1>7, <2>1, CoveredLength
<1>9. PICK cn2 : cn2 = [cn EXCEPT !.stream = TakeLength(q, c)]
  OBVIOUS
<1>10. cn2.stream = TakeLength(q, c) /\ conns' = [conns EXCEPT ![n] = cn2]
  BY <1>2, <1>9 DEF ReadLength, ConnRec
<1>11. QED
  BY <1>1, <1>6, <1>7, <1>8, <1>10, OneConnAwaits
LEMMA SendPacketAwaits ==
    ASSUME TypeInv, TypeInv', Awaiting, NEW c \in Callers, SendPacket(c), ClientsKept
    PROVE  Awaiting'
<1>1. /\ Pc(c) \in LockPcs /\ call[c].pc \in Locked /\ call[c].pc # "idle"
      /\ call[c].phase = "send" /\ UNCHANGED <<mux, objs>> /\ conns \in Seq(ConnRec)
  BY Kinds, PcSets DEF SendPacket, Pc, TypeInv, Types
<1>2. PICK n \in 1..Len(conns), cn \in ConnRec :
        n = ConnOf(c) /\ cn = conns[n] /\ ConnOK(cn) /\ n \in Nat
  BY <1>1, ConnNow, Lengths DEF TypeInv
<1>3. n = objs[ObjOf(c)].client /\ Covered(cn.stream, Waiting(n))
  BY <1>1, <1>2 DEF ConnOf, Awaiting
<1>4. PICK k : k = [call[c] EXCEPT !.phase = "length", !.obj = ObjOf(c)]
  OBVIOUS
<1>5. k.phase = "length" /\ k.obj = ObjOf(c) /\ k.pc = Pc(c) /\ k.pc \notin MuxPcs
  BY <1>1, <1>4, SentType DEF Pc, LockPcs, MuxPcs
<1>6. ASSUME call' = [call EXCEPT ![c] = k], NEW cn2 \in ConnRec,
             conns' = [conns EXCEPT ![n] = cn2],
             \/ cn2.stream.ended
             \/ \E a \in AnswerRec : /\ cn2.stream.answers = Append(cn.stream.answers, a)
                                     /\ cn2.stream.reader = cn.stream.reader
                                     /\ cn2.stream.mixed = cn.stream.mixed
                                     /\ cn2.stream.ended = cn.stream.ended
      PROVE  Awaiting'
  <2>1. objs'[k.obj].client = n
    BY <1>1, <1>3, <1>5
  <2>2. /\ \A i \in Nat : i # n => Waiting(i)' \subseteq Waiting(i)
        /\ Waiting(n)' \subseteq Waiting(n) \cup {c}
    BY <1>2, <1>6, <2>1, WaitingStep
  <2>3. cn.stream \in Stream /\ cn2.stream \in Stream
    BY <1>2, <1>6 DEF ConnRec
  <2>4. Covered(cn2.stream, Waiting(n)')
    <3>1. CASE cn2.stream.ended
      BY <3>1 DEF Covered
    <3>2. CASE ~cn2.stream.ended
      BY <1>3, <1>6, <2>2, <2>3, <3>2, CoveredSent
    <3>3. QED
      BY <3>1, <3>2
  <2>5. QED
    BY <1>1, <1>5, <1>6, <2>2, <2>4, OneConnAwaits
<1>7. CASE Fail(c) /\ UNCHANGED conns
  <2>1. PICK h : h.phase # "length" /\ call' = [call EXCEPT ![c] = h]
    BY <1>1, <1>7, RestFail DEF Rests
  <2>2. Len(conns') = Len(conns) /\ NoneTaken(mux, mux')
        /\ \A i \in 1..Len(conns) : NoneTaken(conns[i].stream, conns'[i].stream)
    BY <1>1, <1>7 DEF NoneTaken
  <2>3. QED
    BY <2>1, <2>2, RestAwaits
<1> DEFINE Sent == call' = [call EXCEPT ![c].phase = "length", ![c].obj = ObjOf(c)]
<1>8. Sent => call' = [call EXCEPT ![c] = k]
  BY <1>4
<1>9. \/ Fail(c) /\ UNCHANGED conns
      \/ conns' = [conns EXCEPT ![n] = Ended(cn)] /\ Sent
      \/ Sent /\ \E cn2 \in Served(cn, c) : conns' = [conns EXCEPT ![n] = cn2]
      \/ Sent /\ conns' = [conns EXCEPT ![n] = Refuse(cn, LockKind[Pc(c)])]
  BY <1>2 DEF SendPacket
<1> HIDE DEF Sent
<1>10. CASE conns' = [conns EXCEPT ![n] = Ended(cn)] /\ Sent
  <2>1. PICK cn2 : cn2 = Ended(cn)
    OBVIOUS
  <2>2. cn2 \in ConnRec /\ cn2.stream.ended
    BY <1>2, <2>1, EndedType
  <2>3. QED
    BY <1>6, <1>8, <1>10, <2>1, <2>2
<1>11. ASSUME Sent, NEW base \in ConnRec, NEW a \in AnswerRec, Reply(c, cn, base, a),
              conns' = [conns EXCEPT ![n] = Put(base, a)]
       PROVE  Awaiting'
  <2>1. PICK cn2 : cn2 = Put(base, a)
    OBVIOUS
  <2>2. /\ cn2 \in ConnRec /\ cn2.stream.answers = Append(cn.stream.answers, a)
        /\ cn2.stream.reader = cn.stream.reader /\ cn2.stream.mixed = cn.stream.mixed
        /\ cn2.stream.ended = cn.stream.ended
    <3>1. /\ base.stream = cn.stream /\ base.sessions >= cn.sessions
          /\ base.session <= base.sessions /\ a.num <= base.sessions
      BY <1>11 DEF Reply
    <3>2. QED
      BY <1>2, <2>1, <3>1, PutType
  <2>3. QED
    BY <1>6, <1>8, <1>11, <2>1, <2>2
<1>12. CASE Sent /\ \E cn2 \in Served(cn, c) : conns' = [conns EXCEPT ![n] = cn2]
  <2>1. PICK cn2 \in Served(cn, c) : conns' = [conns EXCEPT ![n] = cn2]
    BY <1>12
  <2>2. PICK base \in ConnRec, a \in AnswerRec : Reply(c, cn, base, a) /\ cn2 = Put(base, a)
    BY <1>1, <1>2, ServedReply
  <2>3. QED
    BY <1>11, <1>12, <2>1, <2>2
<1>13. CASE Sent /\ conns' = [conns EXCEPT ![n] = Refuse(cn, LockKind[Pc(c)])]
  <2>1. PICK a : a = [Answer(LockKind[Pc(c)]) EXCEPT !.err = "error"]
    OBVIOUS
  <2>2. Reply(c, cn, cn, a) /\ Refuse(cn, LockKind[Pc(c)]) = Put(cn, a)
    BY <1>1, <1>2, <2>1, RefuseReply
  <2>3. a \in AnswerRec
    BY <2>2 DEF Reply
  <2>4. QED
    BY <1>11, <1>13, <2>2, <2>3
<1>14. QED
  BY <1>7, <1>9, <1>10, <1>12, <1>13

LEMMA EnableSSLAwaits ==
    ASSUME TypeInv, TypeInv', Awaiting, NEW c \in Callers, EnableSSL(c), ClientsKept
    PROVE  Awaiting'
<1>1. /\ call[c].pc = "tls" /\ UNCHANGED mux /\ call[c].pc \in Locked /\ call[c].pc # "idle"
      /\ conns \in Seq(ConnRec)
  BY DEF EnableSSL, Pc, Locked, TypeInv, Types
<1>2. PICK n \in 1..Len(conns), cn \in ConnRec : n = ConnOf(c) /\ cn = conns[n] /\ ConnOK(cn)
  BY <1>1, ConnNow
<1>3. PICK k : k.phase # "length" /\ call' = [call EXCEPT ![c] = k]
  <2>1. Fail(c) \/ \E pc : Go(c, pc)
    BY DEF EnableSSL
  <2>2. QED
    BY <1>1, <2>1, RestFail, RestGo DEF Rests
<1>4. ASSUME NEW cn2, conns' = [conns EXCEPT ![n] = cn2], NoneTaken(cn.stream, cn2.stream)
      PROVE  Awaiting'
  <2>1. Len(conns') = Len(conns)
        /\ \A i \in 1..Len(conns) : NoneTaken(conns[i].stream, conns'[i].stream)
    BY <1>1, <1>2, <1>4 DEF NoneTaken
  <2>2. NoneTaken(mux, mux')
    BY <1>1 DEF NoneTaken
  <2>3. QED
    BY <1>3, <2>1, <2>2, RestAwaits
<1>5. CASE UNCHANGED conns
  <2>1. conns' = [conns EXCEPT ![n] = cn] /\ NoneTaken(cn.stream, cn.stream)
    BY <1>1, <1>2, <1>5 DEF NoneTaken
  <2>2. QED
    BY <1>4, <2>1
<1>6. CASE conns' = [conns EXCEPT ![n].tls = "on", ![n].devTls = "on"]
  <2>1. PICK cn2 : cn2 = [cn EXCEPT !.tls = "on", !.devTls = "on"]
    OBVIOUS
  <2>2. cn2.stream = cn.stream
    BY <2>1 DEF ConnRec
  <2>3. conns' = [conns EXCEPT ![n] = cn2]
    BY <1>1, <1>2, <1>6, <2>1
  <2>4. QED
    BY <1>4, <2>2, <2>3 DEF NoneTaken
<1>7. CASE conns' = [conns EXCEPT ![n] = [cn EXCEPT !.tls = "failed", !.stream.ended = TRUE]]
  <2>1. PICK e : e = Ended(cn)
    OBVIOUS
  <2>2. e \in ConnRec /\ e.stream.ended /\ e.stream.mixed = cn.stream.mixed
    BY <1>2, <2>1, EndedType
  <2>3. PICK cn2 : cn2 = [e EXCEPT !.tls = "failed"]
    OBVIOUS
  <2>4. cn2.stream = e.stream
    BY <2>2, <2>3 DEF ConnRec
  <2>5. conns' = [conns EXCEPT ![n] = cn2]
    BY <1>2, <1>7, <2>1, <2>3 DEF Ended, ConnRec
  <2>6. QED
    BY <1>4, <2>2, <2>4, <2>5 DEF NoneTaken
<1>8. QED
  BY <1>2, <1>5, <1>6, <1>7 DEF EnableSSL
\* usbmuxd's stream.
LEMMA MuxSendAwaits ==
    ASSUME TypeInv, TypeInv', Awaiting, NEW c \in Callers, MuxSend(c), ClientsKept
    PROVE  Awaiting'
<1>1. Pc(c) \in MuxPcs /\ UNCHANGED conns /\ mux \in Stream /\ mux' \in Stream
  BY DEF MuxSend, TypeInv, Types
<1>2. PICK k : k = [call[c] EXCEPT !.phase = "length"]
  OBVIOUS
<1>3. call' = [call EXCEPT ![c] = k] /\ k.pc \notin LockPcs
  <2>1. call[c].pc \notin LockPcs
    BY <1>1 DEF Pc, LockPcs, MuxPcs
  <2>2. call[c] \in CallRec
    BY Lengths DEF TypeInv
  <2>3. k.pc = call[c].pc
    BY <1>2, <2>2, WithPhase
  <2>4. QED
    BY <1>2, <2>1, <2>3 DEF MuxSend
<1>4. MuxWaiting' \subseteq MuxWaiting \cup {c} /\ Covered(mux, MuxWaiting)
  BY <1>3, WaitingStep DEF Awaiting
<1>5. ASSUME NEW a \in AnswerRec, mux' = [mux EXCEPT !.answers = Append(@, a)]
      PROVE  Covered(mux', MuxWaiting')
  <2>1. PICK q : q = [mux EXCEPT !.answers = Append(@, a)]
    OBVIOUS
  <2>2. /\ q \in Stream /\ q.answers = Append(mux.answers, a)
        /\ q.reader = mux.reader /\ q.mixed = mux.mixed /\ q.ended = mux.ended
    BY <2>1, MuxPutType
  <2>3. Covered(q, MuxWaiting')
    BY <1>1, <1>4, <2>2, CoveredSent
  <2>4. QED
    BY <1>5, <2>1, <2>3
<1>6. Covered(mux', MuxWaiting')
  <2>1. CASE mux' = [mux EXCEPT !.answers = Append(@, MuxAnswer(c))]
    <3>1. PICK a : a = MuxAnswer(c)
      OBVIOUS
    <3>2. a \in AnswerRec
      BY <1>1, <3>1, MuxAnswerType
    <3>3. QED
      BY <1>5, <2>1, <3>1, <3>2
  <2>2. CASE mux' = [mux EXCEPT !.answers = Append(@, [Answer(Pc(c)) EXCEPT !.err = "error"])]
    <3>1. PICK a0 : a0 = Answer(Pc(c))
      OBVIOUS
    <3>2. a0 \in AnswerRec
      BY <1>1, <3>1, AnswerType DEF Requests
    <3>3. PICK a : a = [a0 EXCEPT !.err = "error"]
      OBVIOUS
    <3>4. a \in AnswerRec
      BY <3>2, <3>3 DEF AnswerRec
    <3>5. mux' = [mux EXCEPT !.answers = Append(@, a)]
      BY <2>2, <3>1, <3>3
    <3>6. QED
      BY <1>5, <3>4, <3>5
  <2>3. QED
    BY <2>1, <2>2 DEF MuxSend
<1>7. QED
  BY <1>1, <1>3, <1>6, ConnsSameAwaits DEF Awaiting, Covered, Taking

LEMMA MuxReadLengthAwaits ==
    ASSUME TypeInv, TypeInv', Awaiting, NEW c \in Callers, MuxReadLength(c), ClientsKept
    PROVE  Awaiting'
<1>1. /\ c \in MuxWaiting /\ UNCHANGED conns /\ mux \in Stream /\ mux.answers # <<>>
      /\ mux' = TakeLength(mux, c) /\ call' = [call EXCEPT ![c].phase = "body"]
  BY DEF MuxReadLength, Unread, MuxWaiting, Pc, TypeInv, Types
<1>2. PICK k : k = [call[c] EXCEPT !.phase = "body"]
  OBVIOUS
<1>3. call' = [call EXCEPT ![c] = k] /\ k.phase # "length"
  BY <1>1, <1>2, Lengths DEF TypeInv, CallRec
<1>4. MuxWaiting' \subseteq MuxWaiting \ {c} /\ Covered(mux, MuxWaiting)
  BY <1>3, WaitingStep DEF Awaiting
<1>5. Covered(TakeLength(mux, c), MuxWaiting')
  BY <1>1, <1>4, CoveredLength
<1>6. Covered(mux', MuxWaiting')
  BY <1>1, <1>5
<1>7. QED
  BY <1>1, <1>3, <1>6, ConnsSameAwaits DEF Awaiting, Covered, Taking

LEMMA MuxDeadlineAwaits ==
    ASSUME TypeInv, TypeInv', Awaiting, NEW c \in Callers, MuxDeadline(c), ClientsKept
    PROVE  Awaiting'
<1>1. /\ call[c].pc # "idle" /\ UNCHANGED conns /\ Fail(c) /\ mux \in Stream
      /\ mux' = [mux EXCEPT !.mixed = @ \/ (mux.reader = c)]
  BY PcSets DEF MuxDeadline, Pc, TypeInv, Types
<1>2. PICK k : k.phase # "length" /\ call' = [call EXCEPT ![c] = k]
  BY <1>1, RestFail DEF Rests
<1>3. NoneTaken(mux, mux')
  BY <1>1 DEF NoneTaken, Stream
<1>4. Len(conns') = Len(conns) /\ \A i \in 1..Len(conns) : NoneTaken(conns[i].stream, conns'[i].stream)
  BY <1>1 DEF NoneTaken
<1>5. QED
  BY <1>2, <1>3, <1>4, RestAwaits
-----------------------------------------------------------------------------
LEMMA AwaitInit == Init => Awaiting
<1> SUFFICES ASSUME Init PROVE Awaiting
  OBVIOUS
<1>1. conns = <<>> /\ Len(conns) = 0 /\ mux = NoStream /\ MuxWaiting = {}
  BY PcSets DEF Init, MuxWaiting, Idle
<1>2. Taking(mux) = 0 /\ mux.answers = <<>> /\ Len(mux.answers) = 0
  BY <1>1 DEF Taking, NoStream
<1>3. IsFiniteSet({}) /\ Cardinality({}) = 0
  BY FS_EmptySet
<1>4. Covered(mux, MuxWaiting)
  BY <1>1, <1>2, <1>3 DEF Covered
<1>5. QED
  BY <1>1, <1>4 DEF Awaiting

LEMMA AwaitStep == TypeInv /\ TypeInv' /\ Awaiting /\ [Next]_vars => Awaiting'
<1> SUFFICES ASSUME TypeInv, TypeInv', Awaiting, [Next]_vars PROVE Awaiting'
  OBVIOUS
<1>1. CASE UNCHANGED vars
  BY <1>1 DEF vars, host, Awaiting, Covered, Taking, Waiting, MuxWaiting
<1>2. ASSUME NEW c \in Callers, Begin(c) \/ Step(c) PROVE Awaiting'
  <2>1. ClientsKept
    BY <1>2, ClientsStep
  <2>2. CASE Local(c)
    <3>1. UNCHANGED <<mux, conns>>
      BY <2>2, LocalSame
    <3>2. PICK k : k.phase # "length" /\ call' = [call EXCEPT ![c] = k]
      BY <2>2, LocalRests DEF Rests
    <3>3. Len(conns') = Len(conns) /\ NoneTaken(mux, mux')
          /\ \A i \in 1..Len(conns) : NoneTaken(conns[i].stream, conns'[i].stream)
      BY <3>1 DEF NoneTaken
    <3>4. QED
      BY <2>1, <3>2, <3>3, RestAwaits
  <2>3. CASE Taken(c)
    <3>1. Takes(c) /\ UNCHANGED mux
      BY <2>3, TakenTakes
    <3>2. PICK k : k.phase # "length" /\ call' = [call EXCEPT ![c] = k]
      BY <2>3, TakenRests DEF Rests
    <3>3. QED
      BY <2>1, <3>1, <3>2, TakesAwaits
  <2>4. CASE MuxTaken(c)
    <3>1. MuxTakes(c) /\ UNCHANGED conns
      BY <2>4, MuxTakenTakes
    <3>2. PICK k : k.phase # "length" /\ call' = [call EXCEPT ![c] = k]
      BY <2>4, MuxTakenRests DEF Rests
    <3>3. QED
      BY <2>1, <3>1, <3>2, MuxTakesAwaits
  <2>5. CASE ~Local(c) /\ ~Taken(c) /\ ~MuxTaken(c)
    <3>1. \/ Connect(c) \/ SendPacket(c) \/ ReadLength(c) \/ EnableSSL(c)
          \/ MuxSend(c) \/ MuxReadLength(c) \/ MuxDeadline(c)
      BY <1>2, <2>5 DEF Step, Local, Taken, MuxTaken
    <3>2. QED
      BY <2>1, <2>5, <3>1, ConnectAwaits, SendPacketAwaits, ReadLengthAwaits, EnableSSLAwaits,
         MuxSendAwaits, MuxReadLengthAwaits, MuxDeadlineAwaits
  <2>6. QED
    BY <2>2, <2>3, <2>4, <2>5
<1>3. QED
  BY <1>1, <1>2 DEF Next

\* A stream that somebody waits on has an answer.
LEMMA CoveredAnswers ==
    ASSUME NEW q \in Stream, NEW w, NEW c \in w, Covered(q, w)
    PROVE  q.answers # <<>> \/ q.ended \/ q.mixed
<1> SUFFICES ASSUME ~q.ended, ~q.mixed PROVE q.answers # <<>>
  OBVIOUS
<1>1. IsFiniteSet(w) /\ Cardinality(w) + Taking(q) <= Len(q.answers)
  BY DEF Covered
<1>2. Cardinality(w) \in Nat /\ Cardinality(w) # 0
  BY <1>1, FS_CardinalityType, FS_EmptySet
<1>3. Taking(q) \in {0, 1}
  BY DEF Taking
<1>4. Len(q.answers) # 0
  <2>1. Len(q.answers) \in Nat
    BY StreamParts
  <2>2. QED
    BY <1>1, <1>2, <1>3, <2>1
<1>5. QED
  BY <1>4

LEMMA AwaitImplied == TypeInv /\ Awaiting => AnswerAwaited
<1> SUFFICES ASSUME TypeInv, Awaiting, NEW c \in Callers, call[c].phase = "length"
             PROVE  LET q == IF Pc(c) \in MuxPcs THEN mux ELSE conns[ConnOf(c)].stream
                    IN  q.answers # <<>> \/ q.ended \/ q.mixed
  BY DEF AnswerAwaited
<1>1. CASE Pc(c) \in MuxPcs
  <2>1. c \in MuxWaiting /\ Covered(mux, MuxWaiting) /\ mux \in Stream
    BY <1>1 DEF MuxWaiting, Pc, Awaiting, TypeInv, Types
  <2>2. QED
    BY <1>1, <2>1, CoveredAnswers
<1>2. CASE Pc(c) \notin MuxPcs
  <2>1. call[c].pc \in LockPcs /\ call[c].pc \in Locked
    BY <1>2, PcSets DEF Pc, TypeInv, Referring, CallOK
  <2>2. PICK i \in 1..Len(conns) : i = ConnOf(c) /\ conns[i].stream \in Stream
    BY <2>1, ConnNow
  <2>3. c \in Waiting(i) /\ Covered(conns[i].stream, Waiting(i))
    BY <2>1, <2>2 DEF Waiting, ConnOf, Awaiting
  <2>4. QED
    BY <1>2, <2>2, <2>3, CoveredAnswers
<1>3. QED
  BY <1>1, <1>2

\* Nobody waits for ever on a lockdown connection, which has no deadline: whatever calls
\* overlap, and whatever fails between a request and its answer, there is an answer for
\* each that waits, or the connection has ended, or nobody can read it any more.
THEOREM AnswerAwaitedHolds == Spec => []AnswerAwaited
<1>1. Spec => [](TypeInv /\ Awaiting)
  BY TypeInit, TypeStep, AwaitInit, AwaitStep, PTL DEF Spec
<1>2. QED
  BY <1>1, AwaitImplied, PTL
-----------------------------------------------------------------------------
\* Without calls that overlap, one at most is under way, and nobody else's.
Alone == \A b, c \in Callers : b # c => call[b].pc = "idle" \/ call[c].pc = "idle"

\* A lockdown connection on which no answer is due has none.
Quiet(q) == q.answers = <<>> /\ q.reader = NoCaller /\ ~q.mixed
Asking(c) == call[c].pc \in LockPcs /\ call[c].phase # "send"
OnConn(c) == conns[objs[call[c].obj].client]
Silent == \A i \in 1..Len(conns) :
    (\A c \in Callers : Asking(c) => objs[call[c].obj].client # i) => Quiet(conns[i].stream)

\* The object's session is the device's, or no request can be read on the connection.
Agrees(s, cn) == s = cn.session \/ ~Writable(cn) \/ ~Readable(cn)
Opening(c) == Asking(c) \/ call[c].pc = "tls"
Agreeing == \A o \in 1..Len(objs) :
    (\A c \in Callers : Opening(c) => call[c].obj # o) => Agrees(objs[o].session, conns[objs[o].client])

\* An answer is to the request that it is read for, and says what the device has done.
Fine(a) == a.err = ""
Fits(k, a, s, cn) ==
    /\ a.to = LockKind[k.pc]
    /\ k.pc = "start" /\ Fine(a) => a.num = cn.session /\ (a.ssl => cn.devTls = "asked")
    /\ k.pc \in {"stop", "stopRunning"} /\ Fine(a) => cn.session = 0
    /\ k.pc \notin {"start", "stop", "stopRunning"} \/ ~Fine(a) => Agrees(s, cn)
    /\ k.pc = "service" /\ Fine(a) => a.key = k.want
    /\ k.pc \in {"version", "publicKey", "wifi"} /\ Fine(a) => a.key = k.pc
Exchange(c, k, s, cn) ==
    LET q == cn.stream
    IN  /\ ~q.mixed
        /\ \/ q.ended /\ q.answers = <<>> /\ q.reader = NoCaller /\ k.phase = "length"
           \/ /\ q.reader = IF k.phase = "length" THEN NoCaller ELSE c
              /\ \E a \in AnswerRec : q.answers = <<a>> /\ Fits(k, a, s, cn)
Exchanging == \A c \in Callers :
    Asking(c) => Exchange(c, call[c], objs[call[c].obj].session, OnConn(c))

\* An object has a connection of its own.
Apart == \A o, p \in 1..Len(objs) : objs[o].client = objs[p].client => o = p
Bare == \A i \in 1..Len(conns) :
    conns[i].tls # "asked" /\ (conns[i].tls = "failed" => conns[i].stream.ended)

\* A call's own object, its record and its session.
OwnObj(k) ==
    /\ k.inner => k.op = "misagent" /\ k.pc \notin {"dial", "secure", "use", "idle"}
    /\ k.pc = "object" => /\ \A o \in 1..Len(objs) : objs[o].client # device[k.dev].client
                          /\ conns[device[k.dev].client].session = 0
    /\ k.pc \in Locked /\ ~(k.pc = "version" /\ k.phase = "send") => k.obj = device[k.dev].lock
    /\ k.pc \in Locked \ {"version"} /\ k.op # "misagent" => objs[k.obj].version
    /\ k.pc \in {"saveRecord", "session"} => objs[k.obj].record # NoRecord
    /\ k.pc \in {"pairDevice", "stopRunning", "start"} => k.rec # NoRecord
    /\ k.pc = "start" => objs[k.obj].session = 0
    /\ k.pc = "tls" => /\ conns[objs[k.obj].client].devTls = "asked"
                       /\ conns[objs[k.obj].client].session = k.num
    /\ k.pc = "use" => device[k.dev].cache[Field(k.op)] # <<>>

\* A call's services are the ones its operation leads to, so far.
Leading(got, d, op) ==
    /\ Len(got) <= Len(Leads(op))
    /\ \A j \in 1..Len(got) : services[got[j]] = [dev |-> d, svc |-> Leads(op)[j]]
OwnGot(k) ==
    k.op \in ServiceOps /\ k.pc \notin {"idle", "use"} =>
        /\ Leading(k.got, k.dev, k.op)
        /\ k.pc # "secure" => /\ Len(k.got) < Len(Leads(k.op))
                              /\ k.want = Leads(k.op)[Len(k.got) + 1]
OwnCache == \A d \in Devs : \A op \in Kept \cup Reopened :
    LET got == device[d].cache[Field(op)]
    IN got # <<>> => Leading(got, d, op) /\ Len(got) = Len(Leads(op))
Going == panic = ""
Causes == ~Going => panic = "nil version" /\ \E c \in Callers : call[c].op = "misagent"

\* usbmuxd's record of a device, when it says that it has one, is one.
RealRecords == \A j \in 1..Len(mux.answers) :
    mux.answers[j].to = "ReadPairRecord" /\ Fine(mux.answers[j]) => mux.answers[j].rec # NoRecord

Lines == Alone /\ Silent /\ Agreeing /\ Exchanging /\ Apart /\ Bare
InOrder == /\ Lines /\ OwnCache /\ Causes
           /\ \A c \in Callers : OwnObj(call[c]) /\ OwnGot(call[c])
Calm == RealRecords /\ (overlapped \/ InOrder)
-----------------------------------------------------------------------------
\* What a step of the one call under way does to the streams and sessions.
Sole(c) == \A b \in Callers : b # c => call[b].pc = "idle"

LEMMA SoleNow ==
    ASSUME Alone, NEW c \in Callers, call[c].pc # "idle" PROVE Sole(c)
  BY DEF Alone, Sole

LEMMA SoleStep ==
    ASSUME Types, NEW c \in Callers, Sole(c), NEW k, call' = [call EXCEPT ![c] = k]
    PROVE  /\ call'[c] = k /\ Alone'
           /\ \A b \in Callers : b # c => ~Asking(b) /\ ~Opening(b) /\ ~Asking(b)' /\ ~Opening(b)'
<1>1. call'[c] = k /\ \A b \in Callers : b # c => call'[b] = call[b] /\ call[b].pc = "idle"
  BY DEF Types, Sole
<1>2. "idle" \notin LockPcs
  BY DEF LockPcs
<1>3. Alone'
  BY <1>1 DEF Alone
<1>4. \A b \in Callers : b # c => ~Asking(b) /\ ~Asking(b)'
  BY <1>1, <1>2 DEF Asking
<1>5. QED
  BY <1>1, <1>3, <1>4 DEF Opening

\* Agreement is about the sessions, TLS and the end of the connection.
LEMMA AgreesSame ==
    ASSUME NEW s, NEW cn, NEW cn2, cn2.session = cn.session, cn2.tls = cn.tls,
           cn2.devTls = cn.devTls, cn2.stream.ended = cn.stream.ended
    PROVE  Agrees(s, cn) <=> Agrees(s, cn2)
  BY DEF Agrees, Writable, Readable

SessionsSame == /\ Len(objs') = Len(objs)
                /\ \A o \in 1..Len(objs) : /\ objs'[o].client = objs[o].client
                                           /\ objs'[o].session = objs[o].session

LEMMA AskingObj ==
    ASSUME TypeInv, NEW c \in Callers, Opening(c)
    PROVE  /\ call[c].obj \in 1..Len(objs) /\ objs[call[c].obj].client \in 1..Len(conns)
           /\ call[c].pc \in Locked /\ OnConn(c) \in ConnRec
           /\ Asking(c) => ConnOf(c) = objs[call[c].obj].client
<1>1. call[c].pc \in Locked /\ ~(call[c].pc = "version" /\ call[c].phase = "send")
  BY DEF Opening, Asking, Locked
<1>2. PICK o \in 1..Len(objs) : o = call[c].obj
  BY <1>1, ObjNow
<1>3. objs[o].client \in 1..Len(conns)
  BY DEF TypeInv, Referring, Objs
<1>4. conns[objs[o].client] \in ConnRec
  BY <1>3, Lengths DEF TypeInv
<1>5. QED
  BY <1>1, <1>2, <1>3, <1>4 DEF OnConn, Asking, ConnOf

\* A step after which c has nothing to read, and which leaves connections and sessions.
LEMMA LinesRest ==
    ASSUME TypeInv, Lines, NEW c \in Callers, Sole(c), NEW k, call' = [call EXCEPT ![c] = k],
           k.pc \notin LockPcs \/ k.phase = "send", k.pc # "tls", UNCHANGED conns, SessionsSame,
           Opening(c) => /\ Quiet(OnConn(c).stream)
                         /\ Agrees(objs[call[c].obj].session, OnConn(c))
    PROVE  Lines'
<1>1. /\ call'[c] = k /\ Alone' /\ ~Opening(c)' /\ ~Asking(c)'
      /\ \A b \in Callers : b # c => ~Asking(b) /\ ~Opening(b) /\ ~Asking(b)' /\ ~Opening(b)'
  <2>1. /\ call'[c] = k /\ Alone'
        /\ \A b \in Callers : b # c => ~Asking(b) /\ ~Opening(b) /\ ~Asking(b)' /\ ~Opening(b)'
    BY SoleStep DEF TypeInv
  <2>2. ~Asking(c)'
    BY <2>1 DEF Asking
  <2>3. QED
    BY <2>1, <2>2 DEF Opening
<1>2. ASSUME NEW i \in 1..Len(conns) PROVE Quiet(conns[i].stream)
  <2>1. CASE Asking(c) /\ objs[call[c].obj].client = i
    BY <2>1 DEF Opening, OnConn
  <2>2. CASE ~(Asking(c) /\ objs[call[c].obj].client = i)
    BY <1>1, <2>2 DEF Lines, Silent
  <2>3. QED
    BY <2>1, <2>2
<1>3. ASSUME NEW o \in 1..Len(objs) PROVE Agrees(objs[o].session, conns[objs[o].client])
  <2>1. CASE Opening(c) /\ call[c].obj = o
    BY <2>1 DEF OnConn
  <2>2. CASE ~(Opening(c) /\ call[c].obj = o)
    BY <1>1, <2>2 DEF Lines, Agreeing
  <2>3. QED
    BY <2>1, <2>2
<1>4. Silent' /\ Bare'
  BY <1>2 DEF Silent, Lines, Bare
<1>5. Agreeing' /\ Apart'
  BY <1>3 DEF Agreeing, SessionsSame, Apart, Lines
<1>6. Exchanging'
  BY <1>1 DEF Exchanging
<1>7. QED
  BY <1>1, <1>4, <1>5, <1>6 DEF Lines

\* Nothing happens to them.
LEMMA LinesStill == Lines /\ UNCHANGED <<conns, objs, call>> => Lines'
<1> SUFFICES ASSUME Lines, UNCHANGED <<conns, objs, call>> PROVE Lines'
  OBVIOUS
<1>1. Alone' /\ Apart' /\ Bare'
  BY DEF Lines, Alone, Apart, Bare
<1>2. Silent'
  BY DEF Lines, Silent, Quiet, Asking
<1>3. Agreeing'
  BY DEF Lines, Agreeing, Agrees, Writable, Readable, Asking, Opening
<1>4. Exchanging'
  BY DEF Lines, Exchanging, Asking, OnConn
<1>5. QED
  BY <1>1, <1>2, <1>3, <1>4 DEF Lines

\* The answer c takes.
LEMMA TakesFits ==
    ASSUME TypeInv, Lines, NEW c \in Callers, Takes(c)
    PROVE  /\ ConnOf(c) = objs[call[c].obj].client /\ Ans(c) \in AnswerRec
           /\ Fits(call[c], Ans(c), objs[call[c].obj].session, conns[ConnOf(c)])
           /\ Quiet(TakeBody(conns[ConnOf(c)].stream))
           /\ TakeBody(conns[ConnOf(c)].stream).ended = conns[ConnOf(c)].stream.ended
           /\ ConnOf(c) \in 1..Len(conns) /\ call[c].obj \in 1..Len(objs)
           /\ conns[ConnOf(c)] \in ConnRec
<1>1. Asking(c) /\ call[c].phase = "body"
  BY DEF Takes, Asking
<1>2. PICK n \in 1..Len(conns), q \in Stream :
        /\ n = ConnOf(c) /\ n = objs[call[c].obj].client /\ call[c].obj \in 1..Len(objs)
        /\ conns[n] \in ConnRec /\ q = conns[n].stream
  BY <1>1, AskingObj DEF Opening, OnConn, ConnRec
<1>3. Exchange(c, call[c], objs[call[c].obj].session, conns[n])
  BY <1>1, <1>2 DEF Lines, Exchanging, OnConn
<1>4. PICK a \in AnswerRec : q.answers = <<a>> /\ Fits(call[c], a, objs[call[c].obj].session, conns[n])
  BY <1>1, <1>2, <1>3 DEF Exchange
<1>5. ~q.mixed /\ q.answers # <<>>
  <2>1. q.answers # <<>>
    BY <1>4
  <2>2. ~q.mixed
    BY <1>2, <1>3, Zenon DEF Exchange
  <2>3. QED
    BY <2>1, <2>2
<1>6. Ans(c) = a
  BY <1>2, <1>4 DEF Ans
<1>7. PICK q2 \in Stream : /\ q2 = TakeBody(q) /\ q2.answers = Tail(q.answers)
                           /\ q2.reader = NoCaller /\ q2.mixed = q.mixed /\ q2.ended = q.ended
  BY <1>5, TakeBodyType
<1>8. q2.answers = <<>>
  BY <1>4, <1>7
<1>9. QED
  BY <1>2, <1>4, <1>5, <1>6, <1>7, <1>8, Zenon DEF Quiet

\* One connection and the session of its object change, and the exchange is over: what is
\* then recorded, or is about to be, is what the device has.
LEMMA LinesSettled ==
    ASSUME TypeInv, Lines, NEW c \in Callers, Opening(c), NEW k, k.phase = "send",
           call' = [call EXCEPT ![c] = k], Len(objs') = Len(objs),
           \A o \in 1..Len(objs) : /\ objs'[o].client = objs[o].client
                                   /\ o # call[c].obj => objs'[o].session = objs[o].session,
           NEW n, n = objs[call[c].obj].client, NEW cn2, conns' = [conns EXCEPT ![n] = cn2],
           Quiet(cn2.stream), cn2.tls # "asked", cn2.tls = "failed" => cn2.stream.ended,
           (k.pc = "tls" /\ k.obj = call[c].obj) \/ Agrees(objs'[call[c].obj].session, cn2)
    PROVE  Lines'
<1>1. call[c].pc # "idle"
  BY AskingObj, PcSets
<1>2. /\ call'[c] = k /\ Alone' /\ ~Asking(c)'
      /\ \A b \in Callers : b # c => ~Asking(b) /\ ~Opening(b) /\ ~Asking(b)' /\ ~Opening(b)'
  <2>1. /\ call'[c] = k /\ Alone'
        /\ \A b \in Callers : b # c => ~Asking(b) /\ ~Opening(b) /\ ~Asking(b)' /\ ~Opening(b)'
    BY <1>1, SoleNow, SoleStep DEF TypeInv, Lines
  <2>2. QED
    BY <2>1 DEF Asking
<1>3. PICK o0 \in 1..Len(objs) : o0 = call[c].obj /\ n \in 1..Len(conns) /\ n = objs[o0].client
  BY AskingObj
<1>4. Len(conns') = Len(conns) /\ \A i \in 1..Len(conns) : conns'[i] = IF i = n THEN cn2 ELSE conns[i]
  BY DEF TypeInv, Types
<1>5. ASSUME NEW i \in 1..Len(conns) PROVE Quiet(conns'[i].stream)
  <2>1. CASE i = n
    BY <1>4, <2>1
  <2>2. CASE i # n
    <3>1. Quiet(conns[i].stream)
      BY <1>2, <1>3, <2>2 DEF Lines, Silent
    <3>2. QED
      BY <1>4, <2>2, <3>1
  <2>3. QED
    BY <2>1, <2>2
<1>6. ASSUME NEW o \in 1..Len(objs), ~(k.pc = "tls" /\ k.obj = o)
      PROVE  Agrees(objs'[o].session, conns'[objs'[o].client])
  <2>1. CASE o = o0
    <3>1. Agrees(objs'[o].session, cn2) /\ conns'[objs'[o].client] = cn2
      BY <1>3, <1>4, <1>6, <2>1
    <3>2. QED
      BY <3>1
  <2>2. CASE o # o0
    <3>1. Agrees(objs[o].session, conns[objs[o].client])
      BY <1>2, <1>3, <2>2 DEF Lines, Agreeing
    <3>2. objs[o].client # n /\ objs[o].client \in 1..Len(conns)
      BY <1>3, <2>2 DEF Lines, Apart, TypeInv, Referring, Objs
    <3>3. objs'[o].session = objs[o].session /\ conns'[objs'[o].client] = conns[objs[o].client]
      BY <1>3, <1>4, <2>2, <3>2
    <3>4. QED
      BY <3>1, <3>3
  <2>3. QED
    BY <2>1, <2>2
<1>7. Silent'
  BY <1>4, <1>5 DEF Silent
<1>8. Agreeing'
  BY <1>2, <1>6 DEF Agreeing, Opening
<1>9. Exchanging'
  BY <1>2 DEF Exchanging
<1>10. Apart'
  BY DEF Apart, Lines
<1>11. Bare'
  <2>1. ASSUME NEW i \in 1..Len(conns)
        PROVE  conns'[i].tls # "asked" /\ (conns'[i].tls = "failed" => conns'[i].stream.ended)
    <3>1. conns[i].tls # "asked" /\ (conns[i].tls = "failed" => conns[i].stream.ended)
      BY DEF Lines, Bare
    <3>2. QED
      BY <1>4, <3>1
  <2>2. QED
    BY <1>4, <2>1 DEF Bare
<1>12. QED
  BY <1>2, <1>7, <1>8, <1>9, <1>10, <1>11 DEF Lines

\* c takes its answer.
LEMMA LinesTaken ==
    ASSUME TypeInv, Lines, NEW c \in Callers, Takes(c), NEW k, k.phase = "send",
           call' = [call EXCEPT ![c] = k], Len(objs') = Len(objs),
           \A o \in 1..Len(objs) : /\ objs'[o].client = objs[o].client
                                   /\ o # call[c].obj => objs'[o].session = objs[o].session,
           \/ k.pc = "tls" /\ k.obj = call[c].obj
           \/ Agrees(objs'[call[c].obj].session, conns[ConnOf(c)])
    PROVE  Lines'
<1>1. Opening(c)
  BY DEF Takes, Asking, Opening
<1>2. PICK n \in 1..Len(conns), cn \in ConnRec, o0 \in 1..Len(objs) :
        /\ n = ConnOf(c) /\ cn = conns[n] /\ o0 = call[c].obj /\ n = objs[o0].client
        /\ Quiet(TakeBody(cn.stream)) /\ TakeBody(cn.stream).ended = cn.stream.ended
  BY TakesFits
<1>3. PICK cn2 : cn2 = [cn EXCEPT !.stream = TakeBody(cn.stream)]
  OBVIOUS
<1>4. /\ cn2.stream = TakeBody(cn.stream) /\ cn2.session = cn.session /\ cn2.tls = cn.tls
      /\ cn2.devTls = cn.devTls
  BY <1>3 DEF ConnRec
<1>5. conns' = [conns EXCEPT ![n] = cn2]
  BY <1>2, <1>3, Zenon DEF Takes, TypeInv, Types
<1>6. cn.tls # "asked" /\ (cn.tls = "failed" => cn.stream.ended)
  BY <1>2 DEF Lines, Bare
<1>7. Quiet(cn2.stream) /\ cn2.stream.ended = cn.stream.ended
  BY <1>2, <1>4
<1>8. Agrees(objs'[call[c].obj].session, cn) => Agrees(objs'[call[c].obj].session, cn2)
  BY <1>4, <1>7, AgreesSame
<1>9. QED
  BY <1>1, <1>2, <1>4, <1>5, <1>6, <1>7, <1>8, LinesSettled, Zenon

\* c asks, or has read the length of its answer.
LEMMA LinesExchange ==
    ASSUME TypeInv, Lines, NEW c \in Callers, call[c].pc # "idle", NEW k, k.phase # "send",
           k.pc \in LockPcs, call' = [call EXCEPT ![c] = k], UNCHANGED objs,
           k.obj \in 1..Len(objs), Opening(c) => call[c].obj = k.obj,
           NEW n, n = objs[k.obj].client, NEW cn2, conns' = [conns EXCEPT ![n] = cn2],
           Exchange(c, k, objs[k.obj].session, cn2),
           cn2.tls # "asked", cn2.tls = "failed" => cn2.stream.ended
    PROVE  Lines'
<1>1. /\ call'[c] = k /\ Alone' /\ Asking(c)'
      /\ \A b \in Callers : b # c => ~Asking(b) /\ ~Opening(b) /\ ~Asking(b)' /\ ~Opening(b)'
  <2>1. /\ call'[c] = k /\ Alone'
        /\ \A b \in Callers : b # c => ~Asking(b) /\ ~Opening(b) /\ ~Asking(b)' /\ ~Opening(b)'
    BY SoleNow, SoleStep DEF TypeInv, Lines
  <2>2. QED
    BY <2>1 DEF Asking
<1>2. n \in 1..Len(conns)
  BY DEF TypeInv, Referring, Objs
<1>3. Len(conns') = Len(conns) /\ \A i \in 1..Len(conns) : conns'[i] = IF i = n THEN cn2 ELSE conns[i]
  BY DEF TypeInv, Types
<1>4. ASSUME NEW i \in 1..Len(conns), i # n PROVE Quiet(conns'[i].stream)
  <2>1. Quiet(conns[i].stream)
    BY <1>1, <1>4 DEF Lines, Silent, Opening
  <2>2. QED
    BY <1>3, <1>4, <2>1
<1>5. ASSUME NEW o \in 1..Len(objs), o # k.obj
      PROVE  Agrees(objs'[o].session, conns'[objs'[o].client])
  <2>1. Agrees(objs[o].session, conns[objs[o].client])
    BY <1>1, <1>5 DEF Lines, Agreeing
  <2>2. objs[o].client # n /\ objs[o].client \in 1..Len(conns)
    BY <1>5 DEF Lines, Apart, TypeInv, Referring, Objs
  <2>3. QED
    BY <1>3, <2>1, <2>2
<1>6. Silent'
  BY <1>1, <1>3, <1>4 DEF Silent
<1>7. Agreeing'
  BY <1>1, <1>5 DEF Agreeing, Opening
<1>8. Exchanging'
  <2>1. OnConn(c)' = cn2 /\ objs'[call'[c].obj].session = objs[k.obj].session
    BY <1>1, <1>2, <1>3 DEF OnConn
  <2>2. Exchange(c, call'[c], objs'[call'[c].obj].session, OnConn(c)')
    BY <1>1, <2>1
  <2>3. ASSUME NEW b \in Callers, Asking(b)'
        PROVE  Exchange(b, call'[b], objs'[call'[b].obj].session, OnConn(b)')
    BY <1>1, <2>2, <2>3
  <2>4. QED
    BY <2>3 DEF Exchanging
<1>9. Apart' /\ Bare'
  <2>1. ASSUME NEW i \in 1..Len(conns)
        PROVE  conns'[i].tls # "asked" /\ (conns'[i].tls = "failed" => conns'[i].stream.ended)
    <3>1. conns[i].tls # "asked" /\ (conns[i].tls = "failed" => conns[i].stream.ended)
      BY DEF Lines, Bare
    <3>2. QED
      BY <1>3, <3>1
  <2>2. QED
    BY <1>3, <2>1 DEF Apart, Bare, Lines
<1>10. QED
  BY <1>1, <1>6, <1>7, <1>8, <1>9 DEF Lines

\* A new connection, and a new object on one that has none.
LEMMA LinesConnect ==
    ASSUME TypeInv, Lines, NEW c \in Callers, call[c].pc = "connect", NEW k, k.pc = "object",
           call' = [call EXCEPT ![c] = k], UNCHANGED objs, NEW cn, conns' = Append(conns, cn),
           cn.stream = NoStream, cn.tls = "off"
    PROVE  Lines'
<1>1. /\ call'[c] = k /\ Alone' /\ ~Asking(c) /\ ~Opening(c) /\ ~Asking(c)' /\ ~Opening(c)'
      /\ \A b \in Callers : b # c => ~Asking(b) /\ ~Opening(b) /\ ~Asking(b)' /\ ~Opening(b)'
  <2>1. /\ call'[c] = k /\ Alone'
        /\ \A b \in Callers : b # c => ~Asking(b) /\ ~Opening(b) /\ ~Asking(b)' /\ ~Opening(b)'
    BY SoleNow, SoleStep DEF TypeInv, Lines
  <2>2. QED
    BY <2>1, PcSets DEF Asking, Opening
<1>2. Len(conns) \in Nat /\ Len(conns') = Len(conns) + 1
      /\ \A i \in 1..Len(conns') : conns'[i] = IF i \in 1..Len(conns) THEN conns[i] ELSE cn
  BY DEF TypeInv, Types
<1>3. \A i \in 1..Len(conns) : Quiet(conns[i].stream)
  BY <1>1 DEF Lines, Silent
<1>4. ASSUME NEW o \in 1..Len(objs) PROVE Agrees(objs'[o].session, conns'[objs'[o].client])
  <2>1. objs[o].client \in 1..Len(conns) /\ Agrees(objs[o].session, conns[objs[o].client])
    BY <1>1 DEF Lines, Agreeing, TypeInv, Referring, Objs
  <2>2. objs[o].client \in 1..Len(conns')
    BY <1>2, <2>1
  <2>3. QED
    BY <1>2, <2>1, <2>2
<1>5. Silent' /\ Bare'
  <2>1. Quiet(NoStream)
    BY DEF Quiet, NoStream
  <2>2. Silent'
    BY <1>2, <1>3, <2>1 DEF Silent
  <2>3. Bare'
    BY <1>2 DEF Bare, Lines
  <2>4. QED
    BY <2>2, <2>3
<1>6. Agreeing' /\ Apart' /\ Exchanging'
  BY <1>1, <1>4 DEF Agreeing, Apart, Exchanging, Lines
<1>7. QED
  BY <1>1, <1>5, <1>6 DEF Lines

LEMMA LinesNew ==
    ASSUME TypeInv, Lines, NEW c \in Callers, call[c].pc = "object", NEW k, k.phase = "send",
           k.pc = "version", call' = [call EXCEPT ![c] = k], UNCHANGED conns,
           NEW new, objs' = Append(objs, new), new.session = 0,
           conns[new.client].session = 0, \A o \in 1..Len(objs) : objs[o].client # new.client
    PROVE  Lines'
<1>1. /\ call'[c] = k /\ Alone' /\ ~Asking(c) /\ ~Opening(c) /\ ~Asking(c)' /\ ~Opening(c)'
      /\ \A b \in Callers : b # c => ~Asking(b) /\ ~Opening(b) /\ ~Asking(b)' /\ ~Opening(b)'
  <2>1. /\ call'[c] = k /\ Alone'
        /\ \A b \in Callers : b # c => ~Asking(b) /\ ~Opening(b) /\ ~Asking(b)' /\ ~Opening(b)'
    BY SoleNow, SoleStep DEF TypeInv, Lines
  <2>2. QED
    BY <2>1, PcSets DEF Asking, Opening
<1>2. Len(objs) \in Nat /\ Len(objs') = Len(objs) + 1
      /\ \A o \in 1..Len(objs') : objs'[o] = IF o \in 1..Len(objs) THEN objs[o] ELSE new
  BY DEF TypeInv, Types
<1>3. ASSUME NEW o \in 1..Len(objs') PROVE Agrees(objs'[o].session, conns'[objs'[o].client])
  <2>1. CASE o \in 1..Len(objs)
    <3>1. Agrees(objs[o].session, conns[objs[o].client])
      BY <1>1, <2>1 DEF Lines, Agreeing
    <3>2. QED
      BY <1>2, <2>1, <3>1
  <2>2. CASE o \notin 1..Len(objs)
    <3>1. objs'[o] = new
      BY <1>2, <2>2
    <3>2. QED
      BY <3>1 DEF Agrees
  <2>3. QED
    BY <2>1, <2>2
<1>4. Silent' /\ Bare'
  BY <1>1 DEF Silent, Bare, Lines
<1>5. Agreeing' /\ Exchanging'
  BY <1>1, <1>3 DEF Agreeing, Exchanging
<1>6. Apart'
  BY <1>2 DEF Apart, Lines
<1>7. QED
  BY <1>1, <1>4, <1>5, <1>6 DEF Lines
-----------------------------------------------------------------------------
\* What a step of the one call under way does to the call and the kept services.
LEMMA OrderStep ==
    ASSUME TypeInv, InOrder, NEW c \in Callers, Sole(c), NEW k, call' = [call EXCEPT ![c] = k],
           Lines', OwnCache', Going', OwnObj(k)', OwnGot(k)'
    PROVE  InOrder'
<1>1. call'[c] = k /\ \A b \in Callers : b # c => call'[b] = call[b] /\ call[b].pc = "idle"
  BY DEF TypeInv, Types, Sole
<1>2. ASSUME NEW b \in Callers, b # c PROVE OwnObj(call[b])' /\ OwnGot(call[b])'
  <2>1. call[b].pc = "idle" /\ call'[b] = call[b] /\ OwnObj(call[b])
    BY <1>1, <1>2 DEF InOrder
  <2>2. ~call[b].inner
    BY <2>1 DEF OwnObj
  <2>3. PICK l : l = call[b]
    OBVIOUS
  <2>4. OwnObj(l)' /\ OwnGot(l)'
    BY <2>1, <2>2, <2>3, PcSets DEF OwnObj, OwnGot
  <2>5. QED
    BY <2>1, <2>3, <2>4 DEF OwnObj, OwnGot
<1>3. OwnObj(call[c])' /\ OwnGot(call[c])'
  BY <1>1 DEF OwnObj, OwnGot
<1>4. \A b \in Callers : OwnObj(call[b])' /\ OwnGot(call[b])'
  BY <1>2, <1>3
<1>5. QED
  BY <1>4 DEF InOrder, Causes, Going

LEMMA IdleOwn == OwnObj(Idle)' /\ OwnGot(Idle)'
<1>1. Idle.pc = "idle" /\ ~Idle.inner
  BY DEF Idle
<1>2. QED
  BY <1>1, PcSets DEF OwnObj, OwnGot

LEMMA GotKept ==
    ASSUME UNCHANGED services, NEW l, OwnGot(l), l.pc \notin {"idle", "use", "secure"},
           NEW k, k.op = l.op, k.dev = l.dev, k.got = l.got, k.want = l.want
    PROVE  OwnGot(k)'
  BY DEF OwnGot, Leading

LEMMA CacheKept == ASSUME OwnCache, UNCHANGED services,
                          \A d \in Devs : \A f \in Kept \cup Reopened :
                              device'[d].cache[f] \in {device[d].cache[f], <<>>}
                   PROVE  OwnCache'
<1>1. ASSUME NEW d \in Devs, NEW op \in Kept \cup Reopened, NEW got,
             got = device'[d].cache[Field(op)], got # <<>>
      PROVE  Leading(got, d, op)' /\ Len(got) = Len(Leads(op))
  <2>1. got = device[d].cache[Field(op)]
    BY <1>1, FieldType
  <2>2. Leading(got, d, op) /\ Len(got) = Len(Leads(op))
    BY <1>1, <2>1 DEF OwnCache
  <2>3. QED
    BY <2>2 DEF Leading
<1>2. QED
  BY <1>1 DEF OwnCache, Leading

LEMMA CacheSame == ASSUME OwnCache, UNCHANGED <<services, device>> PROVE OwnCache'
  BY CacheKept

\* A call that fails is over, or goes on to the body of MisagentService.
LEMMA FailOwn ==
    ASSUME TypeInv, InOrder, NEW c \in Callers, call[c].pc # "idle", Fail(c), UNCHANGED services
    PROVE  /\ OwnCache' /\ panic' = panic
           /\ \E k : /\ call' = [call EXCEPT ![c] = k] /\ k.phase = "send"
                     /\ k.pc \in {"idle", "queryType"} /\ OwnObj(k)' /\ OwnGot(k)'
                     /\ k.pc = "idle" \/ (k.op = "misagent" /\ k.dev = call[c].dev)
<1>1. OwnCache' /\ panic' = panic
  BY FailDevices, FailType, CacheKept DEF InOrder
<1>2. PICK k \in CallRec : Failed(c, k)
  BY FailType
<1>3. CASE ~call[c].inner
  <2>1. k = Idle /\ call' = [call EXCEPT ![c] = k]
    BY <1>2, <1>3 DEF Failed
  <2>2. k.phase = "send" /\ k.pc \in {"idle", "queryType"} /\ k.pc = "idle"
    BY <2>1, IdleType
  <2>3. OwnObj(k)' /\ OwnGot(k)'
    BY <2>1, IdleOwn
  <2>4. QED
    BY <1>1, <2>1, <2>2, <2>3
<1>4. CASE call[c].inner
  <2>1. /\ k.pc = "queryType" /\ k.obj = MyLock(c) /\ ~k.inner /\ k.op = call[c].op
        /\ k.dev = call[c].dev /\ k.want = call[c].want /\ k.got = call[c].got
    BY <1>2, <1>4 DEF Failed
  <2>2. call[c].op = "misagent" /\ call[c].pc \notin {"dial", "secure", "use", "idle"}
        /\ OwnGot(call[c])
    BY <1>4 DEF InOrder, OwnObj
  <2>3. call[c].dev \in Devs
    BY <2>2, ObjNow
  <2>4. device'[k.dev].lock = k.obj
    BY <2>1, <2>3, FailDevices DEF MyLock
  <2>5. OwnObj(k)'
    BY <2>1, <2>2, <2>4 DEF OwnObj, Locked, LockPcs
  <2>6. OwnGot(k)'
    BY <2>1, <2>2, GotKept
  <2>7. QED
    BY <1>1, <1>2, <2>1, <2>2, <2>5, <2>6 DEF Failed
<1>5. QED
  BY <1>3, <1>4

\* Steps that leave the connections: the call goes on at k, or fails.
LEMMA OrderRest ==
    ASSUME TypeInv, InOrder, NEW c \in Callers, call[c].pc # "idle", NEW k,
           call' = [call EXCEPT ![c] = k], k.pc \notin LockPcs \/ k.phase = "send", k.pc # "tls",
           UNCHANGED conns, SessionsSame,
           Opening(c) => /\ Quiet(OnConn(c).stream)
                         /\ Agrees(objs[call[c].obj].session, OnConn(c)),
           OwnCache', Going', OwnObj(k)', OwnGot(k)'
    PROVE  InOrder'
<1>1. Sole(c) /\ Lines
  BY SoleNow DEF InOrder, Lines
<1>2. Lines'
  BY <1>1, LinesRest
<1>3. QED
  BY <1>1, <1>2, OrderStep

LEMMA OrderFail ==
    ASSUME TypeInv, InOrder, NEW c \in Callers, call[c].pc # "idle", Fail(c), Going,
           UNCHANGED <<conns, services>>, SessionsSame,
           Opening(c) => /\ Quiet(OnConn(c).stream)
                         /\ Agrees(objs[call[c].obj].session, OnConn(c))
    PROVE  InOrder'
<1>1. OwnCache' /\ Going'
  BY FailOwn DEF Going
<1>2. PICK k : /\ call' = [call EXCEPT ![c] = k] /\ k.phase = "send"
               /\ k.pc \in {"idle", "queryType"} /\ OwnObj(k)' /\ OwnGot(k)'
  BY FailOwn
<1>3. QED
  BY <1>1, <1>2, OrderRest

\* Steps that take an answer.
LEMMA OrderTaken ==
    ASSUME TypeInv, InOrder, NEW c \in Callers, Takes(c), NEW k, k.phase = "send",
           call' = [call EXCEPT ![c] = k], Len(objs') = Len(objs),
           \A o \in 1..Len(objs) : /\ objs'[o].client = objs[o].client
                                   /\ o # call[c].obj => objs'[o].session = objs[o].session,
           \/ k.pc = "tls" /\ k.obj = call[c].obj
           \/ Agrees(objs'[call[c].obj].session, conns[ConnOf(c)]),
           OwnCache', Going', OwnObj(k)', OwnGot(k)'
    PROVE  InOrder'
<1>1. call[c].pc # "idle" /\ Lines
  BY PcSets DEF Takes, InOrder
<1>2. Lines'
  BY <1>1, LinesTaken
<1>3. Sole(c)
  BY <1>1, SoleNow DEF Lines
<1>4. QED
  BY <1>2, <1>3, OrderStep

LEMMA OrderTakenFail ==
    ASSUME TypeInv, InOrder, NEW c \in Callers, Takes(c), Fail(c), Going,
           UNCHANGED <<objs, services>>, Agrees(objs[call[c].obj].session, conns[ConnOf(c)])
    PROVE  InOrder'
<1>1. call[c].pc # "idle"
  BY PcSets DEF Takes
<1>2. OwnCache' /\ Going'
  BY <1>1, FailOwn DEF Going
<1>3. PICK k : /\ call' = [call EXCEPT ![c] = k] /\ k.phase = "send"
               /\ k.pc \in {"idle", "queryType"} /\ OwnObj(k)' /\ OwnGot(k)'
  BY <1>1, FailOwn
<1>4. QED
  BY <1>2, <1>3, OrderTaken

\* The object c has in hand is its device's.
LEMMA Here ==
    ASSUME TypeInv, InOrder, NEW c \in Callers, call[c].pc \in Locked
    PROVE  /\ ObjOf(c) = MyLock(c) /\ ConnOf(c) = objs[MyLock(c)].client
           /\ MyLock(c) = device[call[c].dev].lock /\ MyLock(c) \in 1..Len(objs)
           /\ ~(call[c].pc = "version" /\ call[c].phase = "send") => call[c].obj = MyLock(c)
           /\ call[c].inner => call[c].op = "misagent" /\ call[c].pc \notin {"dial", "secure"}
           /\ call[c].op # "misagent" /\ call[c].pc # "version" => objs[MyLock(c)].version
<1>1. OwnObj(call[c]) /\ MyLock(c) = device[call[c].dev].lock /\ MyLock(c) \in 1..Len(objs)
  BY ObjNow DEF InOrder, MyLock
<1>2. ~(call[c].pc = "version" /\ call[c].phase = "send") => call[c].obj = MyLock(c)
  BY <1>1 DEF OwnObj
<1>3. ObjOf(c) = MyLock(c)
  BY <1>2 DEF ObjOf, Pc
<1>4. ConnOf(c) = objs[MyLock(c)].client
  BY <1>2, <1>3 DEF ConnOf
<1>5. QED
  BY <1>1, <1>2, <1>3, <1>4 DEF OwnObj

\* The call goes on to pc with the object and services it has.
LEMMA GoOwn ==
    ASSUME TypeInv, InOrder, NEW c \in Callers, call[c].pc \in Locked \ {"version", "secure"},
           UNCHANGED <<device, services>>,
           objs'[MyLock(c)].version = objs[MyLock(c)].version,
           NEW k, k.pc \in Locked \ {"version", "tls"}, k.op = call[c].op, k.dev = call[c].dev,
           k.inner = call[c].inner, k.obj = MyLock(c), k.got = call[c].got,
           k.want = call[c].want, k.inner => k.pc \notin {"dial", "secure"},
           k.pc \in {"saveRecord", "session"} => objs'[MyLock(c)].record # NoRecord,
           k.pc \in {"pairDevice", "stopRunning", "start"} => k.rec # NoRecord,
           k.pc = "start" => objs'[MyLock(c)].session = 0
    PROVE  OwnObj(k)' /\ OwnGot(k)'
<1>1. OwnGot(call[c]) /\ call[c].pc \notin {"idle", "use", "secure"}
  BY DEF InOrder, Locked, LockPcs
<1>2. OwnGot(k)'
  BY <1>1, GotKept
<1>3. k.pc \notin {"idle", "object", "use", "version", "tls"}
  BY DEF Locked, LockPcs
<1>4. device'[k.dev].lock = k.obj
  BY Here
<1>5. k.op # "misagent" => objs'[k.obj].version
  BY Here
<1>6. k.inner => k.op = "misagent"
  BY Here
<1>7. OwnObj(k)'
  BY <1>3, <1>4, <1>5, <1>6 DEF OwnObj
<1>8. QED
  BY <1>2, <1>7

\* lockdownService has returned with an object that has its version, but for MisagentService.
LEMMA AfterOwn ==
    ASSUME TypeInv, InOrder, NEW c \in Callers, Pc(c) = "version", UNCHANGED <<device, services>>,
           objs'[MyLock(c)].record = objs[MyLock(c)].record, objs'[MyLock(c)].version,
           NEW k, k = AfterLockdown(c)
    PROVE  /\ OwnObj(k)' /\ OwnGot(k)' /\ k.phase = "send"
           /\ k.pc \in {"connect", "buid", "recovery", "session", "queryType"}
<1>1. /\ k.phase = "send" /\ k.obj = MyLock(c) /\ k.op = call[c].op /\ k.dev = call[c].dev
      /\ k.want = call[c].want /\ k.got = call[c].got
      /\ k.pc \in {"connect", "buid", "recovery", "session", "queryType"}
      /\ (k.inner <=> call[c].inner \/ k.pc = "connect")
      /\ k.pc = "connect" => k.op = "misagent"
      /\ k.pc = "session" => objs[k.obj].record # NoRecord
  BY AfterType
<1>2. call[c].pc = "version" /\ call[c].pc \in Locked
  BY DEF Pc, Locked, LockPcs
<1>3. OwnGot(call[c])
  BY DEF InOrder
<1>4. OwnGot(k)'
  BY <1>1, <1>2, <1>3, GotKept
<1>5. device'[k.dev].lock = k.obj /\ (call[c].inner => call[c].op = "misagent")
  BY <1>1, <1>2, Here
<1>6. OwnObj(k)'
  BY <1>1, <1>5 DEF OwnObj
<1>7. QED
  BY <1>1, <1>4, <1>6
LEMMA GoesOn == Going /\ UNCHANGED panic => Going'
  BY DEF Going
-----------------------------------------------------------------------------
\* The actions, one by one, while calls do not overlap.
LEMMA LeadsType ==
    ASSUME NEW op \in ServiceOps
    PROVE  /\ Len(Leads(op)) \in {1, 2} /\ (Len(Leads(op)) = 2 <=> op = "crashReportMover")
           /\ Leads(op)[1] = Field(op)
           /\ op = "crashReportMover" => Leads(op)[2] = "crashReportCopy"
           /\ \A p \in ServiceOps : Field(p) = Field(op) => Leads(p) = Leads(op)
<1>1. Field("crashReportMover") = "crashReportMover"
  BY DEF Field
<1>2. \A p : Field(p) = "crashReportMover" => p = "crashReportMover"
  BY DEF Field
<1>3. CASE op = "crashReportMover"
  BY <1>1, <1>2, <1>3 DEF Leads
<1>4. CASE op # "crashReportMover"
  BY <1>1, <1>2, <1>4 DEF Leads
<1>5. QED
  BY <1>3, <1>4

LEMMA Appended ==
    ASSUME NEW S, NEW s \in Seq(S), NEW e, NEW t, t = Append(s, e)
    PROVE  /\ Len(s) \in Nat /\ Len(t) = Len(s) + 1 /\ t[Len(t)] = e
           /\ \A i \in 1..Len(s) : t[i] = s[i]
           /\ \A i \in 1..Len(t) : i \in 1..Len(s) \/ i = Len(t)
           /\ \A i \in 1..Len(s) : i # Len(s) + 1
<1>1. Len(s) \in Nat
  OBVIOUS
<1>2. Len(t) = Len(s) + 1
  OBVIOUS
<1>3. Append(s, e)[Len(s) + 1] = e
  OBVIOUS
<1>4. \A i \in 1..Len(s) : Append(s, e)[i] = s[i]
  OBVIOUS
<1>5. \A i \in 1..Len(t) : i \in 1..Len(s) \/ i = Len(t)
  BY <1>1, <1>2
<1>6. \A i \in 1..Len(s) : i # Len(s) + 1
  BY <1>1
<1>7. QED
  BY <1>1, <1>2, <1>3, <1>4, <1>5, <1>6

LEMMA WithPc ==
    ASSUME NEW l \in CallRec, NEW pc \in Pcs, NEW k, k = [l EXCEPT !.pc = pc]
    PROVE  /\ k \in CallRec /\ k.pc = pc /\ k.op = l.op /\ k.dev = l.dev /\ k.phase = l.phase
           /\ k.num = l.num /\ k.rec = l.rec /\ k.obj = l.obj /\ k.inner = l.inner
           /\ k.want = l.want /\ k.got = l.got
  BY DEF CallRec

LEMMA BeginOrder ==
    ASSUME TypeInv, InOrder, NEW c \in Callers, Begin(c), Going, ~overlapped' PROVE InOrder'
<1>1. /\ \A b \in Callers : call[b].pc = "idle"
      /\ UNCHANGED <<mux, conns, objs, device, services, panic>>
  BY DEF Begin, Pc, world
<1>2. Sole(c) /\ ~Opening(c)
  BY <1>1, PcSets DEF Sole, Opening, Asking
<1>3. PICK op \in Ops, d \in Devs :
        call' = [call EXCEPT ![c] =
             [Idle EXCEPT !.op = op, !.dev = d, !.want = Field(op),
                          !.pc = IF op = "deletePairRecord" THEN "deleteRecord"
                                 ELSE IF op \in Kept /\ device[d].cache[op] # <<>> THEN "use"
                                 ELSE "connect"]]
  BY DEF Begin
<1>4. PICK pc \in {"deleteRecord", "use", "connect"} :
        pc = IF op = "deletePairRecord" THEN "deleteRecord"
             ELSE IF op \in Kept /\ device[d].cache[op] # <<>> THEN "use" ELSE "connect"
  OBVIOUS
<1>5. PICK k : k = [Idle EXCEPT !.op = op, !.dev = d, !.want = Field(op), !.pc = pc]
  OBVIOUS
<1>6. k.pc = pc /\ k.op = op /\ k.dev = d /\ k.got = <<>> /\ ~k.inner /\ k.phase = "send"
      /\ k.want = Field(op)
  BY <1>5 DEF Idle
<1>7. call' = [call EXCEPT ![c] = k]
  BY <1>3, <1>4, <1>5
<1>8. pc \notin Locked /\ pc # "object" /\ pc # "tls" /\ pc # "secure"
      /\ pc \notin {"saveRecord", "session", "pairDevice", "stopRunning", "start"}
  BY DEF Locked, LockPcs
<1>9. pc = "use" => device'[d].cache[Field(op)] # <<>>
  BY <1>1, <1>4, FieldType
<1>10. OwnObj(k)'
  BY <1>6, <1>8, <1>9 DEF OwnObj
<1>11. OwnGot(k)'
  <2>1. op \in ServiceOps => Len(Leads(op)) \in {1, 2} /\ Leads(op)[1] = Field(op)
    BY LeadsType
  <2>2. Len(k.got) = 0
    <3>1. Len(<<>>) = 0
      OBVIOUS
    <3>2. QED
      BY <1>6, <3>1
  <2>3. PICK n, s : n = Len(k.got) /\ s = Leads(op)
    OBVIOUS
  <2>4. n = 0 /\ n + 1 = 1 /\ 1..n = {}
    <3>1. n = 0
      BY <2>2, <2>3
    <3>2. QED
      BY <3>1
  <2>5. ASSUME op \in ServiceOps PROVE n <= Len(s) /\ n < Len(s)
    <3>1. PICK m \in {1, 2} : m = Len(s)
      BY <2>1, <2>3, <2>5
    <3>2. n <= m /\ n < m
      BY <2>4
    <3>3. QED
      BY <3>1, <3>2
  <2>6. op \in ServiceOps => Leading(k.got, d, op)'
    BY <2>3, <2>4, <2>5 DEF Leading
  <2>7. op \in ServiceOps => Len(k.got) < Len(Leads(op)) /\ k.want = Leads(op)[Len(k.got) + 1]
    BY <1>6, <2>1, <2>3, <2>4, <2>5
  <2>8. QED
    BY <1>6, <2>6, <2>7 DEF OwnGot
<1>12. Lines' /\ OwnCache'
  <2>1. Lines /\ OwnCache /\ SessionsSame
    BY <1>1 DEF InOrder, SessionsSame
  <2>2. Lines'
    BY <1>1, <1>2, <1>6, <1>7, <1>8, <2>1, LinesRest DEF Locked
  <2>3. QED
    BY <1>1, <2>1, <2>2, CacheSame
<1>13. QED
  BY <1>1, <1>2, <1>7, <1>10, <1>11, <1>12, OrderStep, GoesOn

LEMMA ConnectOrder ==
    ASSUME TypeInv, InOrder, NEW c \in Callers, Connect(c), Going PROVE InOrder'
<1>1. /\ call[c].pc = "connect" /\ UNCHANGED <<mux, objs, services>> /\ call[c].dev \in Devs
      /\ call[c].pc # "idle" /\ call[c] \in CallRec /\ Lines /\ OwnCache /\ OwnObj(call[c])
      /\ OwnGot(call[c])
  BY ObjNow, Lengths DEF Connect, Pc, world, InOrder, TypeInv
<1>2. ~Opening(c) /\ SessionsSame
  BY <1>1, PcSets DEF Opening, Asking, SessionsSame
<1>3. CASE Fail(c) /\ UNCHANGED conns
  BY <1>1, <1>2, <1>3, OrderFail
<1>4. CASE /\ conns' = Append(conns, [stream |-> NoStream, dev |-> call[c].dev, tls |-> "off",
                                     devTls |-> "off", session |-> 0, sessions |-> 0])
           /\ device' = [device EXCEPT ![call[c].dev].client = Len(conns')]
           /\ call' = [call EXCEPT ![c].pc = "object"]
           /\ UNCHANGED panic
  <2>1. PICK new : new = [stream |-> NoStream, dev |-> call[c].dev, tls |-> "off",
                          devTls |-> "off", session |-> 0, sessions |-> 0]
    OBVIOUS
  <2>2. new.stream = NoStream /\ new.tls = "off" /\ new.session = 0
    BY <2>1
  <2>3. conns' = Append(conns, new)
    BY <1>4, <2>1
  <2>4. Len(conns) \in Nat /\ Len(conns') = Len(conns) + 1 /\ conns'[Len(conns')] = new
        /\ \A i \in 1..Len(conns) : i # Len(conns) + 1
    <3>1. conns \in Seq(ConnRec)
      BY DEF TypeInv, Types
    <3>2. QED
      BY <2>3, <3>1, Appended
  <2>5. PICK k : k = [call[c] EXCEPT !.pc = "object"]
    OBVIOUS
  <2>6. /\ call' = [call EXCEPT ![c] = k] /\ k.pc = "object" /\ k.op = call[c].op
        /\ k.dev = call[c].dev /\ k.inner = call[c].inner /\ k.got = call[c].got
        /\ k.want = call[c].want
    <3>1. "object" \in Pcs
      BY DEF Pcs
    <3>2. call' = [call EXCEPT ![c] = k]
      BY <1>4, <2>5
    <3>3. k.pc = "object" /\ k.op = call[c].op /\ k.dev = call[c].dev /\ k.inner = call[c].inner
      BY <1>1, <2>5, <3>1, WithPc
    <3>4. k.got = call[c].got /\ k.want = call[c].want
      BY <1>1, <2>5, <3>1, WithPc
    <3>5. QED
      BY <3>2, <3>3, <3>4
  <2>7. \A d \in Devs : /\ d = call[c].dev => device'[d].client = Len(conns')
                        /\ \A f \in Kept \cup Reopened : device'[d].cache[f] = device[d].cache[f]
    <3>1. \A d \in Devs : device[d] \in DeviceRec /\ device \in [Devs -> DeviceRec]
      BY DEF TypeInv, Types
    <3>2. QED
      BY <1>1, <1>4, <3>1 DEF DeviceRec
  <2>8. OwnCache'
    BY <1>1, <2>7, CacheKept
  <2>9. Lines'
    BY <1>1, <2>2, <2>3, <2>6, LinesConnect
  <2>10. \A o \in 1..Len(objs') : objs'[o].client # device'[k.dev].client
    <3>1. \A o \in 1..Len(objs) : objs[o].client \in 1..Len(conns)
      BY DEF TypeInv, Referring, Objs
    <3>2. device'[k.dev].client = Len(conns) + 1
      BY <1>1, <2>4, <2>6, <2>7
    <3>3. QED
      BY <1>1, <2>4, <3>1, <3>2
  <2>11. OwnObj(k)'
    <3>1. conns'[device'[k.dev].client].session = 0
      BY <1>1, <2>2, <2>4, <2>6, <2>7
    <3>2. k.inner => k.op = "misagent"
      BY <1>1, <2>6 DEF OwnObj
    <3>3. "object" \notin Locked
      BY DEF Locked, LockPcs
    <3>4. QED
      BY <2>6, <2>10, <3>1, <3>2, <3>3 DEF OwnObj
  <2>12. OwnGot(k)'
    BY <1>1, <2>6, GotKept
  <2>13. Sole(c)
    BY <1>1, SoleNow DEF Lines
  <2>14. QED
    BY <1>4, <2>6, <2>8, <2>9, <2>11, <2>12, <2>13, OrderStep, GoesOn
<1>5. QED
  BY <1>3, <1>4 DEF Connect

LEMMA NewLockdownOrder ==
    ASSUME TypeInv, InOrder, NEW c \in Callers, NewLockdown(c), Going PROVE InOrder'
<1>1. /\ call[c].pc = "object" /\ UNCHANGED <<conns, services, panic>> /\ call[c].dev \in Devs
      /\ call[c].pc # "idle" /\ call[c] \in CallRec /\ Lines /\ OwnCache /\ OwnObj(call[c])
      /\ OwnGot(call[c]) /\ CallOK(call[c])
  BY ObjNow, Lengths DEF NewLockdown, Pc, world, InOrder, TypeInv, Referring
<1>2. PICK new : new = [client |-> device[call[c].dev].client, version |-> FALSE,
                        record |-> NoRecord, session |-> 0]
  OBVIOUS
<1>3. objs' = Append(objs, new) /\ new.session = 0 /\ new.client = device[call[c].dev].client
  BY <1>2 DEF NewLockdown
<1>4. PICK k : k = [call[c] EXCEPT !.pc = "version"]
  OBVIOUS
<1>5. "version" \in Pcs /\ "object" \notin LockPcs \cup MuxPcs /\ "version" \notin
         {"object", "saveRecord", "session", "pairDevice", "stopRunning", "start", "tls", "use",
          "dial", "secure", "idle"}
  BY DEF Pcs, Locked, LockPcs, MuxPcs
<1>6. /\ call' = [call EXCEPT ![c] = k] /\ k.pc = "version" /\ k.op = call[c].op
      /\ k.dev = call[c].dev /\ k.inner = call[c].inner /\ k.got = call[c].got
      /\ k.want = call[c].want /\ k.phase = call[c].phase
  <2>1. call' = [call EXCEPT ![c] = k]
    BY <1>4 DEF NewLockdown
  <2>2. k.pc = "version" /\ k.op = call[c].op /\ k.dev = call[c].dev /\ k.inner = call[c].inner
    BY <1>1, <1>4, <1>5, WithPc
  <2>3. k.got = call[c].got /\ k.want = call[c].want /\ k.phase = call[c].phase
    BY <1>1, <1>4, <1>5, WithPc
  <2>4. QED
    BY <2>1, <2>2, <2>3
<1>7. k.phase = "send"
  BY <1>1, <1>5, <1>6 DEF CallOK
<1>8. \A d \in Devs : \A f \in Kept \cup Reopened : device'[d].cache[f] = device[d].cache[f]
  <2>1. \A d \in Devs : device[d] \in DeviceRec /\ device \in [Devs -> DeviceRec]
    BY DEF TypeInv, Types
  <2>2. QED
    BY <1>1, <2>1 DEF DeviceRec, NewLockdown
<1>9. OwnCache'
  BY <1>1, <1>8, CacheKept
<1>10. Lines'
  BY <1>1, <1>3, <1>6, <1>7, LinesNew DEF OwnObj
<1>11. OwnObj(k)'
  <2>1. k.inner => k.op = "misagent"
    BY <1>1, <1>6 DEF OwnObj
  <2>2. QED
    BY <1>5, <1>6, <1>7, <2>1 DEF OwnObj
<1>12. OwnGot(k)'
  BY <1>1, <1>6, GotKept
<1>13. Sole(c)
  BY <1>1, SoleNow DEF Lines
<1>14. QED
  BY <1>1, <1>6, <1>9, <1>10, <1>11, <1>12, <1>13, OrderStep, GoesOn

LEMMA KnownVersionOrder ==
    ASSUME TypeInv, InOrder, NEW c \in Callers, KnownVersion(c), Going PROVE InOrder'
<1>1. /\ Pc(c) = "version" /\ call[c].phase = "send" /\ objs[MyLock(c)].version
      /\ call' = [call EXCEPT ![c] = AfterLockdown(c)]
      /\ UNCHANGED <<conns, objs, device, services, panic>> /\ SessionsSame
  BY DEF KnownVersion, world, SessionsSame
<1>2. call[c].pc # "idle" /\ ~Opening(c) /\ OwnCache
  BY <1>1 DEF Pc, Opening, Asking, InOrder
<1>3. PICK k : k = AfterLockdown(c)
  OBVIOUS
<1>4. OwnObj(k)' /\ OwnGot(k)' /\ k.phase = "send" /\ k.pc # "tls"
  BY <1>1, <1>3, AfterOwn
<1>5. OwnCache'
  BY <1>1, <1>2, CacheSame
<1>6. call' = [call EXCEPT ![c] = k]
  BY <1>1, <1>3
<1>7. QED
  BY <1>1, <1>2, <1>4, <1>5, <1>6, OrderRest, GoesOn
\* What the device answers fits the request.
LEMMA ReplyParts ==
    ASSUME NEW c, NEW cn, NEW base, NEW a, Reply(c, cn, base, a)
    PROVE  /\ base \in ConnRec /\ base.stream = cn.stream /\ base.dev = cn.dev
           /\ base.tls = cn.tls /\ a \in AnswerRec /\ a.to = LockKind[Pc(c)]
           /\ a.num <= base.sessions /\ base.session <= base.sessions
           /\ base.sessions >= cn.sessions
           /\ \/ ~Fine(a) /\ base = cn
              \/ /\ Fine(a) /\ a.to = "StartSession" /\ a.num = base.session
                 /\ base.devTls = IF a.ssl THEN "asked" ELSE cn.devTls
              \/ Fine(a) /\ a.to = "StopSession" /\ base.session = 0
              \/ Fine(a) /\ a.to = "StartService" /\ a.key = call[c].want /\ base = cn
              \/ /\ Fine(a) /\ a.to \in {"GetValue", "QueryType", "Pair", "EnterRecovery"}
                 /\ a.key = Pc(c) /\ base = cn
<1>1. a.err = "error" => ~Fine(a)
  BY DEF Fine
<1>2. QED
  BY <1>1 DEF Reply, Fine

LEMMA KindCases ==
    ASSUME NEW pc \in LockPcs
    PROVE  \/ pc = "start" /\ LockKind[pc] = "StartSession"
           \/ pc \in {"stop", "stopRunning"} /\ LockKind[pc] = "StopSession"
           \/ pc = "service" /\ LockKind[pc] = "StartService"
           \/ /\ pc \notin {"start", "stop", "stopRunning", "service"}
              /\ LockKind[pc] \in {"GetValue", "QueryType", "Pair", "EnterRecovery"}
  BY Kinds DEF LockPcs

LEMMA ReplyFits ==
    ASSUME NEW c, Pc(c) \in LockPcs, NEW cn, NEW base, NEW a, Reply(c, cn, base, a),
           NEW k, k.pc = Pc(c), k.want = call[c].want,
           NEW cn2, cn2.session = base.session, cn2.devTls = base.devTls
    PROVE  Fits(k, a, cn.session, cn2)
<1>1. a.to = LockKind[k.pc]
  BY ReplyParts
<1>2. k.pc = "start" /\ Fine(a) => a.num = cn2.session /\ (a.ssl => cn2.devTls = "asked")
  <2>1. SUFFICES ASSUME k.pc = "start", Fine(a)
                 PROVE  a.num = cn2.session /\ (a.ssl => cn2.devTls = "asked")
    OBVIOUS
  <2>2. a.to = "StartSession"
    BY <1>1, <2>1, Kinds
  <2>3. a.num = base.session /\ base.devTls = IF a.ssl THEN "asked" ELSE cn.devTls
    BY <2>1, <2>2, ReplyParts
  <2>4. QED
    BY <2>3
<1>3. k.pc \in {"stop", "stopRunning"} /\ Fine(a) => cn2.session = 0
  BY ReplyParts, KindCases
<1>4. k.pc \notin {"start", "stop", "stopRunning"} \/ ~Fine(a) => Agrees(cn.session, cn2)
  <2>1. k.pc \notin {"start", "stop", "stopRunning"} \/ ~Fine(a) => base = cn
    BY ReplyParts, KindCases
  <2>2. QED
    BY <2>1 DEF Agrees
<1>5. k.pc = "service" /\ Fine(a) => a.key = k.want
  <2>1. SUFFICES ASSUME k.pc = "service", Fine(a) PROVE a.key = k.want
    OBVIOUS
  <2>2. a.to = "StartService"
    BY <1>1, <2>1, Kinds
  <2>3. a.key = call[c].want
    BY <2>1, <2>2, ReplyParts
  <2>4. QED
    BY <2>3
<1>6. k.pc \in {"version", "publicKey", "wifi"} /\ Fine(a) => a.key = k.pc
  BY ReplyParts, KindCases
<1>7. QED
  BY <1>1, <1>2, <1>3, <1>4, <1>5, <1>6 DEF Fits

\* The call asks, with the object it has.
LEMMA AskOwn ==
    ASSUME TypeInv, InOrder, NEW c \in Callers, call[c].pc \in LockPcs,
           UNCHANGED <<device, services, objs>>, NEW k, k.pc = call[c].pc, k.op = call[c].op,
           k.dev = call[c].dev, k.rec = call[c].rec, k.inner = call[c].inner,
           k.want = call[c].want, k.got = call[c].got, k.obj = MyLock(c)
    PROVE  OwnObj(k)' /\ OwnGot(k)'
<1>1. call[c].pc \in Locked /\ OwnObj(call[c]) /\ OwnGot(call[c])
      /\ call[c].pc \notin {"idle", "use", "secure", "object", "tls"}
  BY PcSets DEF InOrder, LockPcs
<1>2. OwnGot(k)'
  BY <1>1, GotKept
<1>3. device'[k.dev].lock = k.obj
  BY <1>1, Here
<1>4. ~(call[c].pc = "version" /\ call[c].phase = "send") => call[c].obj = k.obj
  BY <1>1, Here
<1>5. k.inner => k.op = "misagent" /\ k.pc \notin {"dial", "secure", "use", "idle"}
  BY <1>1 DEF OwnObj
<1>6. CASE call[c].pc = "version"
  <2>1. k.pc = "version"
    BY <1>6
  <2>2. k.pc \notin {"object", "saveRecord", "session", "pairDevice", "stopRunning", "start",
                     "tls", "use"} /\ k.pc \notin Locked \ {"version"}
    BY <2>1
  <2>3. QED
    BY <1>2, <1>3, <1>5, <2>2 DEF OwnObj
<1>7. CASE call[c].pc # "version"
  <2>1. call[c].obj = k.obj
    BY <1>4, <1>7
  <2>2. /\ k.op # "misagent" => objs'[k.obj].version
        /\ k.pc \in {"pairDevice", "stopRunning", "start"} => k.rec # NoRecord
        /\ k.pc = "start" => objs'[k.obj].session = 0
    BY <1>1, <1>7, <2>1 DEF OwnObj
  <2>3. k.pc \notin {"saveRecord", "session", "object", "tls", "use"}
    <3>1. {"saveRecord", "session", "object", "tls", "use"} \cap LockPcs = {}
      BY DEF LockPcs
    <3>2. QED
      BY <3>1
  <2>4. QED
    BY <1>2, <1>3, <1>5, <2>2, <2>3 DEF OwnObj
<1>8. QED
  BY <1>2, <1>6, <1>7
LEMMA BeforeAsking ==
    ASSUME TypeInv, InOrder, NEW c \in Callers, call[c].pc \in LockPcs, call[c].phase = "send"
    PROVE  /\ ~Opening(c) /\ ConnOf(c) \in 1..Len(conns) /\ conns[ConnOf(c)] \in ConnRec
           /\ ConnOK(conns[ConnOf(c)]) /\ MyLock(c) \in 1..Len(objs) /\ ObjOf(c) = MyLock(c)
           /\ ConnOf(c) = objs[MyLock(c)].client /\ Quiet(conns[ConnOf(c)].stream)
           /\ Agrees(objs[MyLock(c)].session, conns[ConnOf(c)])
           /\ conns[ConnOf(c)].tls # "asked"
           /\ conns[ConnOf(c)].tls = "failed" => conns[ConnOf(c)].stream.ended
<1>1. call[c].pc \in Locked /\ call[c].pc # "idle" /\ call[c].pc # "tls"
  BY PcSets
<1>2. Lines /\ Sole(c)
  BY <1>1, SoleNow DEF InOrder, Lines
<1>3. \A b \in Callers : ~Opening(b) /\ ~Asking(b)
  BY <1>1, <1>2, PcSets DEF Sole, Opening, Asking
<1>4. PICK n \in 1..Len(conns) : n = ConnOf(c) /\ conns[n] \in ConnRec /\ ConnOK(conns[n])
  BY <1>1, ConnNow
<1>5. PICK o \in 1..Len(objs) : o = MyLock(c) /\ ObjOf(c) = o /\ n = objs[o].client
  BY <1>1, <1>4, Here
<1>6. Quiet(conns[n].stream)
  BY <1>2, <1>3 DEF Lines, Silent
<1>7. Agrees(objs[o].session, conns[n])
  BY <1>2, <1>3, <1>5 DEF Lines, Agreeing
<1>8. conns[n].tls # "asked" /\ (conns[n].tls = "failed" => conns[n].stream.ended)
  BY <1>2 DEF Lines, Bare
<1>9. QED
  BY <1>3, <1>4, <1>5, <1>6, <1>7, <1>8

LEMMA PutParts ==
    ASSUME NEW base \in ConnRec, NEW a, NEW cn2, cn2 = Put(base, a),
           NEW old, old = base.stream
    PROVE  /\ cn2.stream.answers = Append(old.answers, a) /\ cn2.tls = base.tls
           /\ cn2.session = base.session /\ cn2.devTls = base.devTls
           /\ cn2.stream.reader = old.reader /\ cn2.stream.mixed = old.mixed
           /\ cn2.stream.ended = old.ended
<1>1. PICK q \in Stream : q = base.stream
  BY DEF ConnRec
<1>2. PICK q2 : q2 = [q EXCEPT !.answers = Append(@, a)]
  OBVIOUS
<1>3. /\ q2.answers = Append(q.answers, a) /\ q2.reader = q.reader /\ q2.mixed = q.mixed
      /\ q2.ended = q.ended
  BY <1>2 DEF Stream
<1>4. cn2 = [base EXCEPT !.stream = q2]
  BY <1>1, <1>2 DEF Put
<1>5. /\ cn2.stream = q2 /\ cn2.tls = base.tls /\ cn2.session = base.session
      /\ cn2.devTls = base.devTls
  BY <1>4 DEF ConnRec
<1>6. QED
  BY <1>1, <1>3, <1>5

LEMMA SendPacketOrder ==
    ASSUME TypeInv, InOrder, NEW c \in Callers, SendPacket(c), Going PROVE InOrder'
<1>1. /\ Pc(c) \in LockPcs /\ call[c].pc \in LockPcs /\ call[c].pc # "idle"
      /\ call[c].phase = "send" /\ UNCHANGED <<objs, services>> /\ SessionsSame /\ Lines
      /\ OwnCache
  BY Kinds, PcSets DEF SendPacket, Pc, SessionsSame, InOrder
<1>2. PICK n \in 1..Len(conns), cn \in ConnRec, o \in 1..Len(objs) :
        /\ n = ConnOf(c) /\ cn = conns[n] /\ ConnOK(cn) /\ o = MyLock(c) /\ ObjOf(c) = o
        /\ n = objs[o].client /\ Quiet(cn.stream) /\ Agrees(objs[o].session, cn)
        /\ cn.tls # "asked" /\ (cn.tls = "failed" => cn.stream.ended) /\ ~Opening(c)
  BY <1>1, BeforeAsking
<1>3. PICK k : k = [call[c] EXCEPT !.phase = "length", !.obj = ObjOf(c)]
  OBVIOUS
<1>4. /\ k.phase = "length" /\ k.obj = o /\ k.pc = call[c].pc /\ k.op = call[c].op
      /\ k.dev = call[c].dev /\ k.rec = call[c].rec /\ k.inner = call[c].inner
      /\ k.want = call[c].want /\ k.got = call[c].got
  <2>1. Pc(c) \in LockPcs /\ ObjOf(c) = o
    BY <1>1, <1>2
  <2>2. k.phase = "length" /\ k.obj = ObjOf(c) /\ k.pc = call[c].pc /\ k.op = call[c].op
    BY <1>3, <2>1, SentType
  <2>3. /\ k.dev = call[c].dev /\ k.rec = call[c].rec /\ k.inner = call[c].inner
        /\ k.want = call[c].want /\ k.got = call[c].got
    BY <1>3, <2>1, SentType
  <2>4. QED
    BY <2>1, <2>2, <2>3
<1>5. ASSUME call' = [call EXCEPT ![c] = k], UNCHANGED <<device, panic>>, NEW cn2,
             conns' = [conns EXCEPT ![n] = cn2], Exchange(c, k, objs[o].session, cn2),
             cn2.tls = cn.tls, cn.stream.ended => cn2.stream.ended
      PROVE  InOrder'
  <2>1. OwnObj(k)' /\ OwnGot(k)'
    BY <1>1, <1>2, <1>4, <1>5, AskOwn
  <2>2. OwnCache' /\ Going'
    BY <1>1, <1>5, CacheSame, GoesOn
  <2>3. Lines'
    <3>1. Lines /\ call[c].pc # "idle" /\ UNCHANGED objs /\ ~Opening(c)
      BY <1>1, <1>2
    <3>2. k.phase # "send" /\ k.pc \in LockPcs /\ k.obj = o
      BY <1>1, <1>4
    <3>3. cn2.tls # "asked" /\ (cn2.tls = "failed" => cn2.stream.ended)
      BY <1>2, <1>5
    <3>4. /\ n = objs[k.obj].client /\ k.obj \in 1..Len(objs)
          /\ Exchange(c, k, objs[k.obj].session, cn2)
      BY <1>2, <1>5, <3>2
    <3>5. QED
      BY <1>5, <3>1, <3>2, <3>3, <3>4, LinesExchange
  <2>4. Sole(c)
    BY <1>1, SoleNow DEF Lines
  <2>5. QED
    BY <1>5, <2>1, <2>2, <2>3, <2>4, OrderStep
<1>6. cn.stream.answers = <<>> /\ cn.stream.reader = NoCaller /\ ~cn.stream.mixed
  BY <1>2 DEF Quiet
<1> DEFINE Sent == /\ call' = [call EXCEPT ![c].phase = "length", ![c].obj = ObjOf(c)]
                   /\ UNCHANGED <<device, panic>>
<1>7. Sent => call' = [call EXCEPT ![c] = k] /\ UNCHANGED <<device, panic>>
  BY <1>3
<1>8. \/ Fail(c) /\ UNCHANGED conns
      \/ conns' = [conns EXCEPT ![n] = Ended(cn)] /\ Sent
      \/ Writable(cn) /\ Readable(cn) /\ Sent
           /\ \E cn2 \in Served(cn, c) : conns' = [conns EXCEPT ![n] = cn2]
      \/ Writable(cn) /\ Readable(cn) /\ Sent
           /\ conns' = [conns EXCEPT ![n] = Refuse(cn, LockKind[Pc(c)])]
  <2>1. n = ConnOf(c) /\ cn = conns[n]
    BY <1>2
  <2>2. QED
    BY <2>1 DEF SendPacket
<1> HIDE DEF Sent
<1>9. CASE Fail(c) /\ UNCHANGED conns
  BY <1>1, <1>2, <1>9, OrderFail
<1>10. CASE conns' = [conns EXCEPT ![n] = Ended(cn)] /\ Sent
  <2>1. PICK cn2 : cn2 = Ended(cn)
    OBVIOUS
  <2>2. /\ cn2.stream.ended /\ cn2.tls = cn.tls /\ cn2.stream.answers = cn.stream.answers
        /\ cn2.stream.reader = cn.stream.reader /\ cn2.stream.mixed = cn.stream.mixed
    BY <1>2, <2>1, EndedType
  <2>3. Exchange(c, k, objs[o].session, cn2)
    BY <1>4, <1>6, <2>2 DEF Exchange
  <2>4. QED
    BY <1>5, <1>7, <1>10, <2>1, <2>2, <2>3
<1>11. ASSUME Writable(cn), Readable(cn), Sent, NEW base \in ConnRec, NEW a \in AnswerRec,
              Reply(c, cn, base, a), conns' = [conns EXCEPT ![n] = Put(base, a)]
       PROVE  InOrder'
  <2>1. PICK cn2 : cn2 = Put(base, a)
    OBVIOUS
  <2>2. /\ cn2.stream.answers = Append(cn.stream.answers, a) /\ cn2.tls = base.tls
        /\ cn2.session = base.session /\ cn2.devTls = base.devTls
        /\ cn2.stream.reader = cn.stream.reader /\ cn2.stream.mixed = cn.stream.mixed
        /\ cn2.stream.ended = cn.stream.ended
    <3>1. /\ base.stream = cn.stream /\ base.sessions >= cn.sessions
          /\ base.session <= base.sessions /\ a.num <= base.sessions
      BY <1>11, ReplyParts
    <3>2. PICK old : old = cn.stream /\ old = base.stream
      BY <3>1
    <3>3. /\ cn2.stream.answers = Append(old.answers, a) /\ cn2.tls = base.tls
          /\ cn2.session = base.session /\ cn2.devTls = base.devTls
          /\ cn2.stream.reader = old.reader /\ cn2.stream.mixed = old.mixed
          /\ cn2.stream.ended = old.ended
      BY <2>1, <3>2, PutParts
    <3>4. QED
      BY <3>2, <3>3
  <2>3. objs[o].session = cn.session
    BY <1>2, <1>11 DEF Agrees
  <2>4. k.pc = Pc(c)
    BY <1>4 DEF Pc
  <2>5. Fits(k, a, cn.session, cn2)
    BY <1>1, <1>4, <1>11, <2>2, <2>4, ReplyFits
  <2>6. cn2.stream.answers = <<a>>
    BY <1>6, <2>2
  <2>7. Exchange(c, k, objs[o].session, cn2)
    BY <1>4, <1>6, <2>2, <2>3, <2>5, <2>6 DEF Exchange
  <2>8. base.tls = cn.tls
    BY <1>11, ReplyParts
  <2>9. QED
    BY <1>5, <1>7, <1>11, <2>1, <2>2, <2>7, <2>8
<1>12. CASE Writable(cn) /\ Readable(cn) /\ Sent
              /\ \E cn2 \in Served(cn, c) : conns' = [conns EXCEPT ![n] = cn2]
  <2>1. PICK cn2 \in Served(cn, c) : conns' = [conns EXCEPT ![n] = cn2]
    BY <1>12
  <2>2. PICK base \in ConnRec, a \in AnswerRec : Reply(c, cn, base, a) /\ cn2 = Put(base, a)
    BY <1>1, <1>2, ServedReply
  <2>3. QED
    BY <1>11, <1>12, <2>1, <2>2
<1>13. CASE Writable(cn) /\ Readable(cn) /\ Sent
              /\ conns' = [conns EXCEPT ![n] = Refuse(cn, LockKind[Pc(c)])]
  <2>1. PICK a : a = [Answer(LockKind[Pc(c)]) EXCEPT !.err = "error"]
    OBVIOUS
  <2>2. Reply(c, cn, cn, a) /\ Refuse(cn, LockKind[Pc(c)]) = Put(cn, a)
    BY <1>1, <1>2, <2>1, RefuseReply
  <2>3. a \in AnswerRec
    BY <2>2, ReplyParts
  <2>4. QED
    BY <1>11, <1>13, <2>2, <2>3
<1>14. QED
  BY <1>8, <1>9, <1>10, <1>12, <1>13

LEMMA NilRecordOrder ==
    ASSUME TypeInv, InOrder, NEW c \in Callers, NilRecord(c), Going PROVE InOrder'
<1>1. call[c].pc = "start" /\ call[c].rec = NoRecord /\ OwnObj(call[c])
  BY DEF NilRecord, Pc, InOrder
<1>2. QED
  BY <1>1 DEF OwnObj

LEMMA ReadLengthOrder ==
    ASSUME TypeInv, InOrder, NEW c \in Callers, ReadLength(c), Going PROVE InOrder'
<1>1. /\ call[c].pc \in LockPcs /\ call[c].phase = "length" /\ call[c].pc # "idle"
      /\ UNCHANGED <<objs, services, device, panic>> /\ Lines /\ OwnCache
      /\ call[c] \in CallRec /\ Asking(c) /\ Opening(c)
  BY Kinds, PcSets, Lengths DEF ReadLength, Pc, world, InOrder, TypeInv, Asking, Opening
<1>2. PICK n \in 1..Len(conns), cn \in ConnRec, o \in 1..Len(objs) :
        /\ n = ConnOf(c) /\ cn = conns[n] /\ o = call[c].obj /\ n = objs[o].client
        /\ cn = OnConn(c) /\ o = MyLock(c) /\ cn.tls # "asked"
        /\ (cn.tls = "failed" => cn.stream.ended)
  <2>1. call[c].pc \in Locked /\ call[c].obj = MyLock(c)
    BY <1>1, PcSets, Here
  <2>2. PICK n \in 1..Len(conns) : n = objs[call[c].obj].client /\ n = ConnOf(c)
    BY <1>1, AskingObj
  <2>3. conns[n].tls # "asked" /\ (conns[n].tls = "failed" => conns[n].stream.ended)
    BY <1>1 DEF Lines, Bare
  <2>4. QED
    BY <1>1, <2>1, <2>2, <2>3, AskingObj DEF OnConn
<1>3. PICK k : k = [call[c] EXCEPT !.phase = "body"]
  OBVIOUS
<1>4. /\ k.phase = "body" /\ k.obj = o /\ k.pc = call[c].pc /\ k.op = call[c].op
      /\ k.dev = call[c].dev /\ k.rec = call[c].rec /\ k.inner = call[c].inner
      /\ k.want = call[c].want /\ k.got = call[c].got
  <2>1. /\ k.phase = "body" /\ k.obj = call[c].obj /\ k.pc = call[c].pc
        /\ k.op = call[c].op /\ k.dev = call[c].dev
    BY <1>1, <1>3, WithPhase
  <2>2. /\ k.rec = call[c].rec /\ k.inner = call[c].inner
        /\ k.want = call[c].want /\ k.got = call[c].got
    BY <1>1, <1>3, WithPhase
  <2>3. QED
    BY <1>2, <2>1, <2>2
<1>5. call' = [call EXCEPT ![c] = k]
  BY <1>3 DEF ReadLength
<1>6. Exchange(c, call[c], objs[o].session, cn) /\ cn.stream.answers # <<>>
  BY <1>1, <1>2 DEF Lines, Exchanging, ReadLength, Unread
<1>7. PICK a \in AnswerRec : /\ cn.stream.answers = <<a>> /\ Fits(call[c], a, objs[o].session, cn)
                             /\ ~cn.stream.mixed /\ cn.stream.reader = NoCaller
  BY <1>1, <1>6 DEF Exchange
<1>8. PICK q : q = TakeLength(cn.stream, c)
  OBVIOUS
<1>9. q.answers = <<a>> /\ q.ended = cn.stream.ended /\ q.reader = c /\ ~q.mixed
  <2>1. cn.stream \in Stream
    BY DEF ConnRec
  <2>2. QED
    BY <1>6, <1>7, <1>8, <2>1, TakeLengthType
<1>10. PICK cn2 : cn2 = [cn EXCEPT !.stream = q]
  OBVIOUS
<1>11. /\ cn2.stream = q /\ cn2.session = cn.session /\ cn2.tls = cn.tls
       /\ cn2.devTls = cn.devTls
  BY <1>10 DEF ConnRec
<1>12. conns' = [conns EXCEPT ![n] = cn2]
  BY <1>2, <1>8, <1>10 DEF ReadLength, TypeInv, Types
<1>13. Fits(k, a, objs[o].session, cn2)
  <2>1. Agrees(objs[o].session, cn) => Agrees(objs[o].session, cn2)
    BY <1>9, <1>11, AgreesSame
  <2>2. QED
    BY <1>4, <1>7, <1>11, <2>1 DEF Fits
<1>14. Exchange(c, k, objs[o].session, cn2)
  BY <1>4, <1>9, <1>11, <1>13 DEF Exchange
<1>15. Lines'
  <2>1. Lines /\ call[c].pc # "idle" /\ UNCHANGED objs
    BY <1>1
  <2>2. k.phase # "send" /\ k.pc \in LockPcs /\ k.obj = o /\ call[c].obj = k.obj
    BY <1>1, <1>2, <1>4
  <2>3. cn2.tls # "asked" /\ (cn2.tls = "failed" => cn2.stream.ended)
    BY <1>2, <1>9, <1>11
  <2>4. n = objs[k.obj].client /\ k.obj \in 1..Len(objs) /\ Exchange(c, k, objs[k.obj].session, cn2)
    BY <1>2, <1>14, <2>2
  <2>5. QED
    BY <1>5, <1>12, <2>1, <2>2, <2>3, <2>4, LinesExchange
<1>16. OwnObj(k)' /\ OwnGot(k)'
  BY <1>1, <1>2, <1>4, AskOwn
<1>17. OwnCache' /\ Going' /\ Sole(c)
  BY <1>1, CacheSame, GoesOn, SoleNow DEF Lines
<1>18. QED
  BY <1>5, <1>15, <1>16, <1>17, OrderStep

LEMMA ReadErrorOrder ==
    ASSUME TypeInv, InOrder, NEW c \in Callers, ReadError(c), Going PROVE InOrder'
<1>1. /\ call[c].pc \in LockPcs /\ call[c].phase # "send" /\ call[c].pc # "idle" /\ Fail(c)
      /\ UNCHANGED <<conns, objs, services>> /\ SessionsSame /\ Lines /\ Asking(c) /\ Opening(c)
  BY Kinds, PcSets DEF ReadError, Pc, world, InOrder, Asking, Opening, SessionsSame
<1>2. PICK cn \in ConnRec : cn = OnConn(c) /\ cn = conns[ConnOf(c)]
  BY <1>1, AskingObj DEF OnConn
<1>3. Exchange(c, call[c], objs[call[c].obj].session, cn)
  BY <1>1, <1>2 DEF Lines, Exchanging
<1>4. cn.stream.mixed \/ (cn.stream.ended /\ ~(cn.stream.answers # <<>> /\ ~cn.stream.mixed))
  BY <1>2 DEF ReadError, Unread
<1>5. ~cn.stream.mixed /\ cn.stream.ended /\ cn.stream.answers = <<>>
  BY <1>3, <1>4 DEF Exchange
<1>6. cn.stream.reader = NoCaller
  <2>1. \A a : cn.stream.answers # <<a>>
    BY <1>5
  <2>2. QED
    BY <1>3, <2>1 DEF Exchange
<1>7. Quiet(cn.stream) /\ Agrees(objs[call[c].obj].session, cn)
  BY <1>5, <1>6 DEF Quiet, Agrees, Writable
<1>8. QED
  BY <1>1, <1>2, <1>7, OrderFail
\* The answers.
LEMMA TakenFits ==
    ASSUME TypeInv, InOrder, NEW c \in Callers, Takes(c)
    PROVE  /\ Ans(c) \in AnswerRec /\ call[c].obj = MyLock(c) /\ MyLock(c) \in 1..Len(objs)
           /\ call[c].pc # "idle" /\ call[c].pc \in Locked /\ call[c].pc \in LockPcs
           /\ Lines /\ OwnCache /\ OwnObj(call[c]) /\ OwnGot(call[c]) /\ call[c] \in CallRec
           /\ ConnOf(c) = objs[MyLock(c)].client
           /\ Fits(call[c], Ans(c), objs[MyLock(c)].session, conns[ConnOf(c)])
           /\ call[c].pc \notin {"start", "stop", "stopRunning"} \/ ~Fine(Ans(c))
                 => Agrees(objs[MyLock(c)].session, conns[ConnOf(c)])
<1>1. call[c].pc \in LockPcs /\ call[c].phase = "body"
  BY DEF Takes
<1>2. call[c].pc # "idle" /\ call[c].pc \in Locked /\ call[c] \in CallRec
  BY <1>1, PcSets, Lengths DEF TypeInv
<1>3. Lines /\ OwnCache /\ OwnObj(call[c]) /\ OwnGot(call[c])
  BY DEF InOrder
<1>4. call[c].obj = MyLock(c) /\ MyLock(c) \in 1..Len(objs) /\ ConnOf(c) = objs[MyLock(c)].client
  BY <1>1, <1>2, Here
<1>5. Ans(c) \in AnswerRec /\ Fits(call[c], Ans(c), objs[MyLock(c)].session, conns[ConnOf(c)])
  BY <1>3, <1>4, TakesFits
<1>6. call[c].pc \notin {"start", "stop", "stopRunning"} \/ ~Fine(Ans(c))
                 => Agrees(objs[MyLock(c)].session, conns[ConnOf(c)])
  BY <1>5 DEF Fits
<1>7. QED
  BY <1>1, <1>2, <1>3, <1>4, <1>5, <1>6

\* The call goes on at k once it has its answer.
LEMMA TakenGoes ==
    ASSUME TypeInv, InOrder, NEW c \in Callers, Takes(c), Going, call[c].pc # "version",
           UNCHANGED <<device, services, panic>>, Len(objs') = Len(objs),
           \A o \in 1..Len(objs) : /\ objs'[o].client = objs[o].client
                                   /\ o # MyLock(c) => objs'[o].session = objs[o].session,
           objs'[MyLock(c)].version = objs[MyLock(c)].version,
           Agrees(objs'[MyLock(c)].session, conns[ConnOf(c)]),
           NEW k, call' = [call EXCEPT ![c] = k], k.phase = "send",
           k.pc \in Locked \ {"version", "tls"}, k.op = call[c].op, k.dev = call[c].dev,
           k.inner = call[c].inner, k.obj = call[c].obj, k.got = call[c].got,
           k.want = call[c].want, k.inner => k.pc \notin {"dial", "secure"},
           k.pc \in {"saveRecord", "session"} => objs'[MyLock(c)].record # NoRecord,
           k.pc \in {"pairDevice", "stopRunning", "start"} => k.rec # NoRecord,
           k.pc = "start" => objs'[MyLock(c)].session = 0
    PROVE  InOrder'
<1>1. /\ call[c].obj = MyLock(c) /\ call[c].pc \in Locked /\ call[c].pc \in LockPcs /\ OwnCache
  BY TakenFits
<1>2. "secure" \notin LockPcs
  BY DEF LockPcs
<1>3. call[c].pc \in Locked \ {"version", "secure"} /\ k.obj = MyLock(c)
  BY <1>1, <1>2
<1>4. OwnObj(k)' /\ OwnGot(k)'
  BY <1>3, GoOwn
<1>5. OwnCache' /\ Going'
  BY <1>1, CacheSame, GoesOn
<1>6. QED
  BY <1>1, <1>4, <1>5, OrderTaken

LEMMA TakenGo ==
    ASSUME TypeInv, InOrder, NEW c \in Callers, Takes(c), Going, UNCHANGED <<objs, services>>,
           call[c].pc \notin {"version", "start", "stop", "stopRunning"},
           NEW pc \in {"readRecord", "wifi", "end"}, Go(c, pc)
    PROVE  InOrder'
<1>1. /\ call[c] \in CallRec /\ pc \in Pcs /\ pc \in Locked \ {"version", "tls"}
      /\ pc \notin {"dial", "secure", "saveRecord", "session", "pairDevice", "stopRunning", "start"}
      /\ Agrees(objs[MyLock(c)].session, conns[ConnOf(c)])
  <2>1. {"readRecord", "wifi", "end"} \subseteq Locked \ {"version", "tls"}
    BY DEF Locked, LockPcs
  <2>2. Locked \subseteq Pcs
    BY PcSets
  <2>3. QED
    BY <2>1, <2>2, TakenFits
<1>2. PICK k : k = Goto(call[c], pc)
  OBVIOUS
<1>3. /\ k.phase = "send" /\ k.pc = pc /\ k.op = call[c].op /\ k.dev = call[c].dev
      /\ k.inner = call[c].inner /\ k.obj = call[c].obj /\ k.got = call[c].got
      /\ k.want = call[c].want
  BY <1>1, <1>2, GotoType
<1>4. call' = [call EXCEPT ![c] = k] /\ UNCHANGED <<device, panic>>
  BY <1>2 DEF Go
<1>5. QED
  BY <1>1, <1>3, <1>4, TakenGoes

LEMMA TakenDone ==
    ASSUME TypeInv, InOrder, NEW c \in Callers, Takes(c), Going, UNCHANGED <<objs, services>>,
           call[c].pc \notin {"start", "stop", "stopRunning"}, Done(c)
    PROVE  InOrder'
<1>1. call[c].obj = MyLock(c) /\ OwnCache /\ Agrees(objs[MyLock(c)].session, conns[ConnOf(c)])
  BY TakenFits
<1>2. call' = [call EXCEPT ![c] = Idle] /\ UNCHANGED <<device, panic>>
  BY DEF Done
<1>3. OwnCache' /\ Going' /\ OwnObj(Idle)' /\ OwnGot(Idle)' /\ Idle.phase = "send"
  BY <1>1, <1>2, CacheSame, GoesOn, IdleOwn, IdleType
<1>4. QED
  BY <1>1, <1>2, <1>3, OrderTaken

LEMMA TakenFails ==
    ASSUME TypeInv, InOrder, NEW c \in Callers, Takes(c), Fail(c), Going,
           UNCHANGED <<objs, services>>,
           call[c].pc \notin {"start", "stop", "stopRunning"} \/ ~Fine(Ans(c))
    PROVE  InOrder'
<1>1. call[c].obj = MyLock(c) /\ Agrees(objs[MyLock(c)].session, conns[ConnOf(c)])
  BY TakenFits
<1>2. QED
  BY <1>1, OrderTakenFail

\* GetValue's answer has the type that is asserted of it.
LEMMA TakenType ==
    ASSUME TypeInv, InOrder, NEW c \in Callers, Takes(c), Fine(Ans(c)),
           call[c].pc \in {"version", "publicKey", "wifi"}
    PROVE  HasType(c)
<1>1. Fits(call[c], Ans(c), objs[MyLock(c)].session, conns[ConnOf(c)])
  BY TakenFits
<1>2. Ans(c).key = call[c].pc /\ Ans(c).to = LockKind[call[c].pc]
  BY <1>1 DEF Fits
<1>3. Ans(c).to = "GetValue"
  BY <1>2, Kinds
<1>4. QED
  BY <1>2, <1>3 DEF HasType, Pc

LEMMA GotTypeOrder ==
    ASSUME TypeInv, InOrder, NEW c \in Callers, GotType(c), Going PROVE InOrder'
<1>1. /\ Takes(c) /\ call[c].pc = "queryType" /\ UNCHANGED <<objs, services>>
  <2>1. Takes(c) /\ call[c].pc = "queryType" /\ UNCHANGED world
    BY GotTakes DEF GotType, LockPcs
  <2>2. QED
    BY <2>1 DEF GotType, world
<1>2. Fail(c) \/ Done(c) \/ Go(c, "readRecord")
  BY DEF GotType
<1>3. QED
  BY <1>1, <1>2, TakenFails, TakenDone, TakenGo

LEMMA GotPublicKeyOrder ==
    ASSUME TypeInv, InOrder, NEW c \in Callers, GotPublicKey(c), Going PROVE InOrder'
<1>1. /\ Takes(c) /\ call[c].pc = "publicKey" /\ UNCHANGED <<objs, services>>
  <2>1. Takes(c) /\ call[c].pc = "publicKey" /\ UNCHANGED world
    BY GotTakes DEF GotPublicKey, LockPcs
  <2>2. QED
    BY <2>1 DEF GotPublicKey, world
<1>2. Fail(c) \/ (Fine(Ans(c)) /\ ~HasType(c)) \/ Go(c, "wifi")
  BY DEF GotPublicKey, Fine
<1>3. QED
  BY <1>1, <1>2, TakenFails, TakenType, TakenGo

LEMMA GotValueOrder ==
    ASSUME TypeInv, InOrder, NEW c \in Callers, GotValue(c), Going PROVE InOrder'
<1>1. /\ Takes(c) /\ call[c].pc = "value" /\ UNCHANGED <<objs, services>>
  <2>1. Takes(c) /\ call[c].pc = "value" /\ UNCHANGED world
    BY GotTakes DEF GotValue, LockPcs
  <2>2. QED
    BY <2>1 DEF GotValue, world
<1>2. Fail(c) \/ Go(c, "end")
  BY DEF GotValue
<1>3. QED
  BY <1>1, <1>2, TakenFails, TakenGo

LEMMA GotRecoveryOrder ==
    ASSUME TypeInv, InOrder, NEW c \in Callers, GotRecovery(c), Going PROVE InOrder'
<1>1. /\ Takes(c) /\ call[c].pc = "recovery" /\ UNCHANGED <<objs, services>>
  <2>1. Takes(c) /\ call[c].pc = "recovery" /\ UNCHANGED world
    BY GotTakes DEF GotRecovery, LockPcs
  <2>2. QED
    BY <2>1 DEF GotRecovery, world
<1>2. Fail(c) \/ Done(c)
  BY DEF GotRecovery
<1>3. QED
  BY <1>1, <1>2, TakenFails, TakenDone
LEMMA ObjAt ==
    ASSUME TypeInv, NEW o \in 1..Len(objs), NEW r, objs' = [objs EXCEPT ![o] = r],
           r.client = objs[o].client
    PROVE  /\ Len(objs') = Len(objs) /\ objs'[o] = r
           /\ \A p \in 1..Len(objs) : /\ objs'[p].client = objs[p].client
                                      /\ p # o => objs'[p].session = objs[p].session
<1>1. objs \in Seq(ObjRec)
  BY DEF TypeInv, Types
<1>2. Len(objs') = Len(objs)
      /\ \A p \in 1..Len(objs) : objs'[p] = IF p = o THEN r ELSE objs[p]
  BY <1>1
<1>3. QED
  BY <1>2

LEMMA GotVersionOrder ==
    ASSUME TypeInv, InOrder, NEW c \in Callers, GotVersion(c), Going PROVE InOrder'
<1>1. Takes(c) /\ call[c].pc = "version" /\ Pc(c) = "version" /\ UNCHANGED services
  <2>1. Takes(c) /\ call[c].pc = "version" /\ Pc(c) = "version" /\ UNCHANGED world
    BY GotTakes DEF GotVersion, LockPcs
  <2>2. QED
    BY <2>1 DEF world
<1>2. CASE Fail(c) /\ UNCHANGED objs
  BY <1>1, <1>2, TakenFails
<1>3. CASE Fine(Ans(c)) /\ ~HasType(c)
  BY <1>1, <1>3, TakenType
<1>4. CASE /\ objs' = [objs EXCEPT ![call[c].obj].version = TRUE]
           /\ call' = [call EXCEPT ![c] = AfterLockdown(c)] /\ UNCHANGED <<device, panic>>
  <2>1. PICK o \in 1..Len(objs), old \in ObjRec : o = call[c].obj /\ o = MyLock(c) /\ old = objs[o]
    BY <1>1, TakenFits, Lengths DEF TypeInv
  <2>2. PICK r : r = [old EXCEPT !.version = TRUE]
    OBVIOUS
  <2>3. r.client = old.client /\ r.session = old.session /\ r.record = old.record /\ r.version
    BY <2>2 DEF ObjRec
  <2>4. objs' = [objs EXCEPT ![o] = r]
    BY <1>4, <2>1, <2>2
  <2>5. /\ Len(objs') = Len(objs) /\ objs'[o] = r
        /\ \A p \in 1..Len(objs) : /\ objs'[p].client = objs[p].client
                                   /\ p # o => objs'[p].session = objs[p].session
    BY <2>1, <2>3, <2>4, ObjAt
  <2>6. PICK k : k = AfterLockdown(c)
    OBVIOUS
  <2>7. OwnObj(k)' /\ OwnGot(k)' /\ k.phase = "send"
    BY <1>1, <1>4, <2>1, <2>3, <2>5, <2>6, AfterOwn
  <2>8. OwnCache' /\ Going'
    BY <1>1, <1>4, TakenFits, CacheSame, GoesOn
  <2>9. Agrees(objs'[call[c].obj].session, conns[ConnOf(c)])
    BY <1>1, <2>1, <2>3, <2>5, TakenFits
  <2>10. call' = [call EXCEPT ![c] = k]
    BY <1>4, <2>6
  <2>11. QED
    BY <1>1, <2>1, <2>5, <2>7, <2>8, <2>9, <2>10, OrderTaken
<1>5. QED
  BY <1>2, <1>3, <1>4 DEF GotVersion, Fine

LEMMA GotWifiOrder ==
    ASSUME TypeInv, InOrder, NEW c \in Callers, GotWifi(c), Going PROVE InOrder'
<1>1. Takes(c) /\ call[c].pc = "wifi" /\ UNCHANGED <<objs, services>>
  <2>1. Takes(c)
    BY TakenTakes DEF Taken
  <2>2. QED
    BY <2>1 DEF GotWifi, Pc
<1>2. CASE Fail(c)
  BY <1>1, <1>2, TakenFails
<1>3. CASE Fine(Ans(c)) /\ ~HasType(c)
  BY <1>1, <1>3, TakenType
<1>4. CASE /\ call' = [call EXCEPT ![c] = [Goto(@, "pairDevice") EXCEPT
                          !.rec = [of |-> call[c].dev, n |-> paired'[call[c].dev]]]]
           /\ paired' = [paired EXCEPT ![call[c].dev] = @ + 1]
           /\ UNCHANGED <<device, panic>>
  <2>1. PICK d \in Devs : d = call[c].dev
    BY <1>1, ObjNow, TakenFits
  <2>2. paired'[d] \in Nat
    BY <1>4, <2>1 DEF TypeInv, Types
  <2>3. PICK rec : rec = [of |-> d, n |-> paired'[d]]
    OBVIOUS
  <2>4. rec \in Record /\ rec # NoRecord
    <3>1. rec.of = d /\ NoRecord.of = NoDev /\ d # NoDev
      BY <2>3, Bounds DEF NoRecord
    <3>2. QED
      BY <2>2, <2>3, <3>1 DEF Record
  <2>5. PICK g : g = Goto(call[c], "pairDevice")
    OBVIOUS
  <2>6. "pairDevice" \in Pcs /\ "pairDevice" \in Locked \ {"version", "tls"}
    BY DEF Pcs, Locked, LockPcs
  <2>7. g \in CallRec /\ g.pc = "pairDevice" /\ g.phase = "send" /\ g.op = call[c].op
        /\ g.dev = call[c].dev /\ g.inner = call[c].inner /\ g.obj = call[c].obj
        /\ g.got = call[c].got /\ g.want = call[c].want
    BY <1>1, <2>5, <2>6, TakenFits, GotoType
  <2>8. PICK k : k = [g EXCEPT !.rec = rec]
    OBVIOUS
  <2>9. k.rec = rec /\ k.pc = g.pc /\ k.phase = g.phase /\ k.op = g.op /\ k.dev = g.dev
        /\ k.inner = g.inner /\ k.obj = g.obj /\ k.got = g.got /\ k.want = g.want
    BY <2>4, <2>7, <2>8, WithRec
  <2>10. call' = [call EXCEPT ![c] = k]
    BY <1>4, <2>1, <2>3, <2>5, <2>8
  <2>11. Agrees(objs[MyLock(c)].session, conns[ConnOf(c)])
    BY <1>1, TakenFits
  <2>12. /\ k.pc = "pairDevice" /\ k.phase = "send" /\ k.op = call[c].op /\ k.dev = call[c].dev
         /\ k.inner = call[c].inner /\ k.obj = call[c].obj /\ k.got = call[c].got
         /\ k.want = call[c].want /\ k.rec # NoRecord
    BY <2>4, <2>7, <2>9
  <2>13. Len(objs') = Len(objs) /\ objs'[MyLock(c)].version = objs[MyLock(c)].version
         /\ (\A o \in 1..Len(objs) : /\ objs'[o].client = objs[o].client
                                    /\ o # MyLock(c) => objs'[o].session = objs[o].session)
         /\ Agrees(objs'[MyLock(c)].session, conns[ConnOf(c)])
         /\ UNCHANGED <<device, services, panic>>
    BY <1>1, <1>4, <2>11
  <2>14. /\ k.pc \in Locked \ {"version", "tls"}
         /\ k.pc \notin {"dial", "secure", "saveRecord", "session", "start"}
    BY <2>6, <2>12
  <2>15. QED
    BY <1>1, <2>10, <2>12, <2>13, <2>14, TakenGoes
<1>5. QED
  BY <1>2, <1>3, <1>4 DEF GotWifi, Fine

LEMMA GotPairOrder ==
    ASSUME TypeInv, InOrder, NEW c \in Callers, GotPair(c), Going PROVE InOrder'
<1>1. Takes(c) /\ call[c].pc = "pairDevice" /\ UNCHANGED services
  <2>1. Takes(c) /\ call[c].pc = "pairDevice" /\ UNCHANGED world
    BY GotTakes DEF GotPair, LockPcs
  <2>2. QED
    BY <2>1 DEF world
<1>2. CASE Fail(c) /\ UNCHANGED objs
  BY <1>1, <1>2, TakenFails
<1>3. CASE Done(c) /\ UNCHANGED objs
  BY <1>1, <1>3, TakenDone
<1>4. CASE objs' = [objs EXCEPT ![call[c].obj].record = call[c].rec] /\ Go(c, "saveRecord")
  <2>1. PICK o \in 1..Len(objs), old \in ObjRec : o = call[c].obj /\ o = MyLock(c) /\ old = objs[o]
    BY <1>1, TakenFits, Lengths DEF TypeInv
  <2>2. PICK r : r = [old EXCEPT !.record = call[c].rec]
    OBVIOUS
  <2>3. r.client = old.client /\ r.session = old.session /\ r.record = call[c].rec
        /\ r.version = old.version
    BY <2>2 DEF ObjRec
  <2>4. objs' = [objs EXCEPT ![o] = r]
    BY <1>4, <2>1, <2>2
  <2>5. /\ Len(objs') = Len(objs) /\ objs'[o] = r
        /\ \A p \in 1..Len(objs) : /\ objs'[p].client = objs[p].client
                                   /\ p # o => objs'[p].session = objs[p].session
    BY <2>1, <2>3, <2>4, ObjAt
  <2>6. call[c].rec # NoRecord
    BY <1>1, TakenFits DEF OwnObj
  <2>7. PICK k : k = Goto(call[c], "saveRecord")
    OBVIOUS
  <2>8. "saveRecord" \in Pcs /\ "saveRecord" \in Locked \ {"version", "tls"}
    BY DEF Pcs, Locked, LockPcs
  <2>9. k.pc = "saveRecord" /\ k.phase = "send" /\ k.op = call[c].op
        /\ k.dev = call[c].dev /\ k.inner = call[c].inner /\ k.obj = call[c].obj
        /\ k.got = call[c].got /\ k.want = call[c].want
    BY <1>1, <2>7, <2>8, TakenFits, GotoType
  <2>10. call' = [call EXCEPT ![c] = k] /\ UNCHANGED <<device, panic>>
    BY <1>4, <2>7 DEF Go
  <2>11. Agrees(objs'[MyLock(c)].session, conns[ConnOf(c)])
    BY <1>1, <2>1, <2>3, <2>5, TakenFits
  <2>12. objs'[MyLock(c)].version = objs[MyLock(c)].version /\ objs'[MyLock(c)].record # NoRecord
    BY <2>1, <2>3, <2>5, <2>6
  <2>13. QED
    BY <1>1, <2>1, <2>5, <2>8, <2>9, <2>10, <2>11, <2>12, TakenGoes
<1>5. QED
  BY <1>2, <1>3, <1>4 DEF GotPair

LEMMA GotServiceOrder ==
    ASSUME TypeInv, InOrder, NEW c \in Callers, GotService(c), Going PROVE InOrder'
<1>1. Takes(c) /\ call[c].pc = "service" /\ UNCHANGED <<objs, services>>
  <2>1. Takes(c) /\ call[c].pc = "service" /\ UNCHANGED world
    BY GotTakes DEF GotService, LockPcs
  <2>2. QED
    BY <2>1 DEF world, GotService
<1>2. CASE Fail(c)
  BY <1>1, <1>2, TakenFails
<1>3. PICK w : w = IF Ans(c).to = "StartService" THEN Ans(c).key ELSE ""
  OBVIOUS
<1>4. CASE /\ Fine(Ans(c)) /\ call' = [call EXCEPT ![c] = [Goto(@, "end") EXCEPT !.want = w]]
           /\ UNCHANGED <<device, panic>>
  <2>1. Ans(c).to = "StartService" /\ Ans(c).key = call[c].want
    <3>1. Fits(call[c], Ans(c), objs[MyLock(c)].session, conns[ConnOf(c)])
      BY <1>1, TakenFits
    <3>2. QED
      BY <1>1, <1>4, <3>1, Kinds DEF Fits
  <2>2. w = call[c].want
    BY <1>3, <2>1
  <2>3. w \in Names
    BY <1>1, <2>2, TakenFits DEF CallRec
  <2>4. PICK g : g = Goto(call[c], "end")
    OBVIOUS
  <2>5. "end" \in Pcs /\ "end" \in Locked \ {"version", "tls"}
    BY DEF Pcs, Locked, LockPcs
  <2>6. g \in CallRec /\ g.pc = "end" /\ g.phase = "send" /\ g.op = call[c].op
        /\ g.dev = call[c].dev /\ g.inner = call[c].inner /\ g.obj = call[c].obj
        /\ g.got = call[c].got /\ g.want = call[c].want
    BY <1>1, <2>4, <2>5, TakenFits, GotoType
  <2>7. PICK k : k = [g EXCEPT !.want = w]
    OBVIOUS
  <2>8. k.want = w /\ k.pc = g.pc /\ k.phase = g.phase /\ k.op = g.op /\ k.dev = g.dev
        /\ k.inner = g.inner /\ k.obj = g.obj /\ k.got = g.got
    BY <2>3, <2>6, <2>7, WithWant
  <2>9. call' = [call EXCEPT ![c] = k]
    BY <1>4, <2>4, <2>7
  <2>10. Agrees(objs[MyLock(c)].session, conns[ConnOf(c)])
    BY <1>1, TakenFits
  <2>11. /\ k.pc = "end" /\ k.phase = "send" /\ k.op = call[c].op /\ k.dev = call[c].dev
         /\ k.inner = call[c].inner /\ k.obj = call[c].obj /\ k.got = call[c].got
         /\ k.want = call[c].want
    BY <2>2, <2>6, <2>8
  <2>12. Len(objs') = Len(objs) /\ objs'[MyLock(c)].version = objs[MyLock(c)].version
         /\ (\A o \in 1..Len(objs) : /\ objs'[o].client = objs[o].client
                                    /\ o # MyLock(c) => objs'[o].session = objs[o].session)
         /\ Agrees(objs'[MyLock(c)].session, conns[ConnOf(c)])
         /\ UNCHANGED <<device, services, panic>>
    BY <1>1, <1>4, <2>10
  <2>13. /\ k.pc \in Locked \ {"version", "tls"}
         /\ k.pc \notin {"dial", "secure", "saveRecord", "session", "start", "pairDevice",
                        "stopRunning"}
    BY <2>5, <2>11
  <2>14. QED
    BY <1>1, <2>9, <2>11, <2>12, <2>13, TakenGoes
<1>5. QED
  BY <1>2, <1>3, <1>4 DEF GotService, Fine
\* The session.
LEMMA GoParts ==
    ASSUME TypeInv, NEW c \in Callers, NEW pc \in Locked \ {"version", "tls"}, NEW k,
           k = Goto(call[c], pc)
    PROVE  /\ k \in CallRec /\ k.pc = pc /\ k.phase = "send" /\ k.op = call[c].op
           /\ k.dev = call[c].dev /\ k.inner = call[c].inner /\ k.obj = call[c].obj
           /\ k.got = call[c].got /\ k.want = call[c].want /\ k.rec = call[c].rec
           /\ k.pc \in Locked \ {"version", "tls"}
<1>1. call[c] \in CallRec /\ pc \in Pcs
  BY Lengths, PcSets DEF TypeInv
<1>2. QED
  BY <1>1, GotoType

LEMMA GotSessionOrder ==
    ASSUME TypeInv, InOrder, NEW c \in Callers, GotSession(c), Going PROVE InOrder'
<1>1. Takes(c) /\ call[c].pc = "start" /\ UNCHANGED services
  <2>1. Takes(c) /\ call[c].pc = "start" /\ UNCHANGED world
    BY GotTakes DEF GotSession, LockPcs
  <2>2. QED
    BY <2>1 DEF world
<1>2. PICK o \in 1..Len(objs), n \in 1..Len(conns), cn \in ConnRec, old \in ObjRec, a \in AnswerRec :
        /\ o = call[c].obj /\ o = MyLock(c) /\ n = ConnOf(c) /\ n = objs[o].client
        /\ cn = conns[n] /\ old = objs[o] /\ a = Ans(c) /\ Fits(call[c], a, old.session, cn)
        /\ call[c] \in CallRec /\ OwnObj(call[c]) /\ OwnGot(call[c]) /\ OwnCache
        /\ MyLock(c) = device[call[c].dev].lock
  <2>1. /\ call[c].obj = MyLock(c) /\ MyLock(c) \in 1..Len(objs) /\ call[c].pc \in Locked
        /\ ConnOf(c) = objs[MyLock(c)].client /\ Ans(c) \in AnswerRec
        /\ Fits(call[c], Ans(c), objs[MyLock(c)].session, conns[ConnOf(c)])
        /\ call[c] \in CallRec /\ OwnObj(call[c]) /\ OwnGot(call[c]) /\ OwnCache
    BY <1>1, TakenFits
  <2>2. ConnOf(c) \in 1..Len(conns) /\ conns[ConnOf(c)] \in ConnRec
    BY <2>1, ConnNow
  <2>3. objs[MyLock(c)] \in ObjRec /\ MyLock(c) = device[call[c].dev].lock
    BY <2>1, Lengths, Here DEF TypeInv
  <2>4. QED
    BY <2>1, <2>2, <2>3, Zenon
<1>3. CASE ~Fine(a) /\ Fail(c) /\ UNCHANGED objs
  BY <1>1, <1>2, <1>3, TakenFails, Zenon
<1>4. CASE /\ Fine(a) /\ a.ssl
           /\ call' = [call EXCEPT ![c] = [Goto(@, "tls") EXCEPT !.num = a.num]]
           /\ UNCHANGED <<objs, device, panic>>
  <2>1. a.num = cn.session /\ cn.devTls = "asked" /\ a.num \in Nat
    BY <1>1, <1>2, <1>4, Zenon DEF Fits, AnswerRec
  <2>2. PICK g : g = Goto(call[c], "tls")
    OBVIOUS
  <2>3. g \in CallRec /\ g.pc = "tls" /\ g.phase = "send" /\ g.op = call[c].op
        /\ g.dev = call[c].dev /\ g.inner = call[c].inner /\ g.obj = call[c].obj
        /\ g.got = call[c].got /\ g.want = call[c].want
    <3>1. "tls" \in Pcs
      BY DEF Pcs, Locked
    <3>2. QED
      BY <1>2, <2>2, <3>1, GotoType, Zenon
  <2>4. PICK k : k = [g EXCEPT !.num = a.num]
    OBVIOUS
  <2>5. k.num = a.num /\ k.pc = "tls" /\ k.phase = "send" /\ k.op = call[c].op
        /\ k.dev = call[c].dev /\ k.inner = call[c].inner /\ k.obj = o
        /\ k.got = call[c].got /\ k.want = call[c].want
    <3>1. k.num = a.num /\ k.pc = g.pc /\ k.phase = g.phase /\ k.op = g.op /\ k.dev = g.dev
          /\ k.inner = g.inner /\ k.obj = g.obj /\ k.got = g.got /\ k.want = g.want
      BY <2>1, <2>3, <2>4, WithNum
    <3>2. QED
      BY <1>2, <2>3, <3>1, Zenon
  <2>6. call' = [call EXCEPT ![c] = k]
    BY <1>4, <2>2, <2>4
  <2>7. OwnGot(k)'
    BY <1>1, <1>2, <2>5, GotKept, Zenon
  <2>8. conns'[n].devTls = "asked" /\ conns'[n].session = a.num
    <3>1. PICK cn2 : cn2 = [cn EXCEPT !.stream = TakeBody(cn.stream)]
      OBVIOUS
    <3>2. cn2.devTls = cn.devTls /\ cn2.session = cn.session
      BY <3>1 DEF ConnRec
    <3>3. conns' = [conns EXCEPT ![n] = cn2]
      BY <1>1, <1>2, <3>1, Zenon DEF Takes
    <3>4. conns'[n] = cn2
      BY <3>3 DEF TypeInv, Types
    <3>5. QED
      BY <2>1, <3>2, <3>4
  <2>9. OwnObj(k)'
    <3>1. k.inner => k.op = "misagent"
      BY <1>2, <2>5, Zenon DEF OwnObj
    <3>2. device'[k.dev].lock = k.obj
      BY <1>2, <1>4, <2>5, Zenon
    <3>3. k.op # "misagent" => objs'[k.obj].version
      <4>1. "start" \in Locked \ {"version"}
        BY DEF Locked, LockPcs
      <4>2. QED
        BY <1>1, <1>2, <1>4, <2>5, <4>1, Zenon DEF OwnObj
    <3>4. conns'[objs'[k.obj].client].devTls = "asked" /\ conns'[objs'[k.obj].client].session = k.num
      BY <1>2, <1>4, <2>5, <2>8, Zenon
    <3>5. k.pc \notin {"object", "saveRecord", "session", "pairDevice", "stopRunning", "start",
                       "use", "dial", "secure", "idle"}
      BY <2>5
    <3>6. QED
      BY <3>1, <3>2, <3>3, <3>4, <3>5 DEF OwnObj
  <2>10. OwnCache' /\ Going'
    BY <1>2, <1>4, <1>1, CacheSame, GoesOn, Zenon
  <2>11. Len(objs') = Len(objs)
        /\ \A p \in 1..Len(objs) : /\ objs'[p].client = objs[p].client
                                   /\ p # call[c].obj => objs'[p].session = objs[p].session
    BY <1>4
  <2>12. QED
    BY <1>1, <1>2, <2>5, <2>6, <2>7, <2>9, <2>10, <2>11, OrderTaken, Zenon
<1>5. CASE /\ Fine(a) /\ objs' = [objs EXCEPT ![call[c].obj].session = a.num]
           /\ Go(c, InSession(c))
  <2>1. a.num = cn.session
    BY <1>1, <1>2, <1>5, Zenon DEF Fits
  <2>2. PICK r : r = [old EXCEPT !.session = a.num]
    OBVIOUS
  <2>3. r.client = old.client /\ r.session = cn.session /\ r.version = old.version
    BY <2>1, <2>2 DEF ObjRec
  <2>4. objs' = [objs EXCEPT ![o] = r]
    BY <1>2, <1>5, <2>2, Zenon
  <2>5. /\ Len(objs') = Len(objs) /\ objs'[o] = r
        /\ \A p \in 1..Len(objs) : /\ objs'[p].client = objs[p].client
                                   /\ p # o => objs'[p].session = objs[p].session
    BY <1>2, <2>3, <2>4, ObjAt, Zenon
  <2>6. PICK pc \in {"value", "service"} : pc = InSession(c)
    BY InSessionPc
  <2>7. PICK k : k = Goto(call[c], pc)
    OBVIOUS
  <2>8. pc \in Locked \ {"version", "tls"}
    BY <2>6, InSessionPc
  <2>9. k.pc = pc /\ k.phase = "send" /\ k.op = call[c].op /\ k.dev = call[c].dev
        /\ k.inner = call[c].inner /\ k.obj = call[c].obj /\ k.got = call[c].got
        /\ k.want = call[c].want
    BY <2>7, <2>8, GoParts
  <2>10. call' = [call EXCEPT ![c] = k] /\ UNCHANGED <<device, panic>>
    BY <1>5, <2>6, <2>7 DEF Go
  <2>11. Agrees(objs'[MyLock(c)].session, conns[ConnOf(c)])
    BY <1>2, <2>3, <2>5, Zenon DEF Agrees
  <2>12. objs'[MyLock(c)].version = objs[MyLock(c)].version
    BY <1>2, <2>3, <2>5, Zenon
  <2>13. k.pc \notin {"dial", "secure", "saveRecord", "session", "pairDevice", "stopRunning", "start"}
    BY <2>9
  <2>14. Len(objs') = Len(objs)
         /\ \A p \in 1..Len(objs) : /\ objs'[p].client = objs[p].client
                                    /\ p # MyLock(c) => objs'[p].session = objs[p].session
    BY <1>2, <2>5, Zenon
  <2>15. call[c].pc # "version" /\ k.pc \in Locked \ {"version", "tls"}
    BY <1>1, <2>8, <2>9
  <2>16. QED
    BY <1>1, <2>9, <2>10, <2>11, <2>12, <2>13, <2>14, <2>15, TakenGoes
<1>6. QED
  BY <1>2, <1>3, <1>4, <1>5, Zenon DEF GotSession, Fine

LEMMA AtTls ==
    ASSUME TypeInv, InOrder, NEW c \in Callers, call[c].pc = "tls"
    PROVE  /\ Opening(c) /\ Lines /\ OwnCache /\ OwnObj(call[c]) /\ OwnGot(call[c])
           /\ call[c] \in CallRec /\ call[c].obj = MyLock(c) /\ MyLock(c) \in 1..Len(objs)
           /\ ConnOf(c) = objs[MyLock(c)].client /\ ConnOf(c) \in 1..Len(conns)
           /\ OnConn(c) = conns[ConnOf(c)] /\ conns[ConnOf(c)] \in ConnRec
           /\ Quiet(conns[ConnOf(c)].stream) /\ conns[ConnOf(c)].devTls = "asked"
           /\ conns[ConnOf(c)].session = call[c].num /\ conns[ConnOf(c)].tls # "asked"
           /\ call[c].pc # "idle" /\ call[c].pc \in Locked \ {"version", "secure"}
<1>1. call[c].pc \in Locked \ {"version", "secure"} /\ call[c].pc # "idle" /\ call[c] \in CallRec
      /\ call[c].pc \notin LockPcs
  BY Lengths DEF TypeInv, Locked, LockPcs
<1>2. Lines /\ OwnCache /\ OwnObj(call[c]) /\ OwnGot(call[c])
  BY DEF InOrder
<1>3. Sole(c) /\ Opening(c)
  BY <1>1, <1>2, SoleNow DEF Lines, Opening
<1>4. \A b \in Callers : ~Asking(b)
  BY <1>1, <1>3, PcSets DEF Sole, Asking
<1>5. call[c].obj = MyLock(c) /\ MyLock(c) \in 1..Len(objs) /\ ConnOf(c) = objs[MyLock(c)].client
  BY <1>1, Here
<1>6. PICK n \in 1..Len(conns) : n = ConnOf(c) /\ conns[n] \in ConnRec
  BY <1>1, ConnNow
<1>7. Quiet(conns[n].stream) /\ conns[n].tls # "asked"
  BY <1>2, <1>4 DEF Lines, Silent, Bare
<1>8. conns[n].devTls = "asked" /\ conns[n].session = call[c].num
  BY <1>2, <1>5, <1>6 DEF OwnObj
<1>9. QED
  BY <1>1, <1>2, <1>3, <1>5, <1>6, <1>7, <1>8 DEF OnConn

LEMMA EnableSSLOrder ==
    ASSUME TypeInv, InOrder, NEW c \in Callers, EnableSSL(c), Going PROVE InOrder'
<1>1. call[c].pc = "tls" /\ UNCHANGED services
  BY DEF EnableSSL, Pc, world
<1>2. PICK o \in 1..Len(objs), n \in 1..Len(conns), cn \in ConnRec, old \in ObjRec :
        /\ o = call[c].obj /\ o = MyLock(c) /\ n = ConnOf(c) /\ n = objs[o].client
        /\ cn = conns[n] /\ old = objs[o] /\ cn = OnConn(c)
        /\ Quiet(cn.stream) /\ cn.devTls = "asked" /\ cn.session = call[c].num /\ cn.tls # "asked"
        /\ Opening(c) /\ Lines /\ OwnCache /\ call[c].pc # "idle"
        /\ call[c].pc \in Locked \ {"version", "secure"}
  <2>1. objs[MyLock(c)] \in ObjRec
    BY <1>1, AtTls, Lengths DEF TypeInv
  <2>2. QED
    BY <1>1, <2>1, AtTls
<1>3. Sole(c)
  BY <1>2, SoleNow DEF Lines
<1>4. CASE Fail(c) /\ UNCHANGED <<conns, objs>>
  <2>1. Agrees(objs[call[c].obj].session, cn)
    BY <1>2 DEF Agrees, Readable
  <2>2. QED
    BY <1>1, <1>2, <1>4, <2>1, OrderFail DEF SessionsSame
<1>5. CASE /\ conns' = [conns EXCEPT ![n].tls = "on", ![n].devTls = "on"]
           /\ objs' = [objs EXCEPT ![call[c].obj].session = call[c].num]
           /\ Go(c, InSession(c))
  <2>1. PICK cn2 : cn2 = [cn EXCEPT !.tls = "on", !.devTls = "on"]
    OBVIOUS
  <2>2. cn2.stream = cn.stream /\ cn2.session = cn.session /\ cn2.tls = "on"
    BY <2>1 DEF ConnRec
  <2>3. conns' = [conns EXCEPT ![n] = cn2]
    BY <1>2, <1>5, <2>1 DEF TypeInv, Types
  <2>4. PICK r : r = [old EXCEPT !.session = call[c].num]
    OBVIOUS
  <2>5. r.client = old.client /\ r.session = cn.session /\ r.version = old.version
    BY <1>2, <2>4 DEF ObjRec
  <2>6. objs' = [objs EXCEPT ![o] = r]
    BY <1>2, <1>5, <2>4
  <2>7. /\ Len(objs') = Len(objs) /\ objs'[o] = r
        /\ \A p \in 1..Len(objs) : /\ objs'[p].client = objs[p].client
                                   /\ p # o => objs'[p].session = objs[p].session
    BY <1>2, <2>5, <2>6, ObjAt
  <2>8. PICK pc \in {"value", "service"} : pc = InSession(c)
    BY InSessionPc
  <2>9. PICK k : k = Goto(call[c], pc)
    OBVIOUS
  <2>10. pc \in Locked \ {"version", "tls"}
    BY <2>8, InSessionPc
  <2>11. k.pc = pc /\ k.phase = "send" /\ k.op = call[c].op /\ k.dev = call[c].dev
        /\ k.inner = call[c].inner /\ k.obj = call[c].obj /\ k.got = call[c].got
        /\ k.want = call[c].want /\ k.pc \in Locked \ {"version", "tls"}
    BY <2>9, <2>10, GoParts
  <2>12. call' = [call EXCEPT ![c] = k] /\ UNCHANGED <<device, panic>>
    BY <1>5, <2>8, <2>9 DEF Go
  <2>13. k.pc \notin {"dial", "secure", "saveRecord", "session", "pairDevice", "stopRunning", "start"}
    BY <2>11
  <2>14. objs'[MyLock(c)].version = objs[MyLock(c)].version
    BY <1>2, <2>5, <2>7
  <2>15. OwnObj(k)' /\ OwnGot(k)'
    BY <1>1, <1>2, <2>11, <2>12, <2>13, <2>14, GoOwn
  <2>16. Agrees(objs'[call[c].obj].session, cn2)
    BY <1>2, <2>2, <2>5, <2>7 DEF Agrees
  <2>17. Lines'
    BY <1>2, <2>2, <2>3, <2>7, <2>11, <2>12, <2>16, LinesSettled
  <2>18. OwnCache' /\ Going'
    BY <1>1, <1>2, <2>12, CacheSame, GoesOn
  <2>19. QED
    BY <1>3, <2>12, <2>15, <2>17, <2>18, OrderStep
<1>6. CASE /\ conns' = [conns EXCEPT ![n] = [cn EXCEPT !.tls = "failed", !.stream.ended = TRUE]]
           /\ Fail(c) /\ UNCHANGED objs
  <2>1. PICK q : q = [cn.stream EXCEPT !.ended = TRUE]
    OBVIOUS
  <2>2. /\ q.answers = cn.stream.answers /\ q.reader = cn.stream.reader
        /\ q.mixed = cn.stream.mixed /\ q.ended
    <3>1. cn.stream \in Stream
      BY DEF ConnRec
    <3>2. QED
      BY <2>1, <3>1 DEF Stream
  <2>3. PICK cn2 : cn2 = [cn EXCEPT !.tls = "failed", !.stream = q]
    OBVIOUS
  <2>4. cn2.stream = q /\ cn2.tls = "failed"
    BY <2>3 DEF ConnRec
  <2>5. conns' = [conns EXCEPT ![n] = cn2]
    BY <1>6, <2>1, <2>3
  <2>6. Quiet(cn2.stream) /\ cn2.stream.ended /\ Agrees(objs'[call[c].obj].session, cn2)
    BY <1>2, <2>2, <2>4 DEF Quiet, Agrees, Writable
  <2>7. PICK k : /\ call' = [call EXCEPT ![c] = k] /\ k.phase = "send"
                 /\ k.pc \in {"idle", "queryType"} /\ OwnObj(k)' /\ OwnGot(k)'
    BY <1>1, <1>2, <1>6, FailOwn
  <2>8. OwnCache' /\ panic' = panic
    BY <1>1, <1>2, <1>6, FailOwn
  <2>9. Len(objs') = Len(objs)
        /\ \A p \in 1..Len(objs) : /\ objs'[p].client = objs[p].client
                                   /\ p # call[c].obj => objs'[p].session = objs[p].session
    BY <1>6
  <2>10. Lines'
    BY <1>2, <2>4, <2>5, <2>6, <2>7, <2>9, LinesSettled
  <2>11. QED
    BY <1>3, <2>7, <2>8, <2>10, GoesOn, OrderStep
<1>7. QED
  BY <1>2, <1>4, <1>5, <1>6 DEF EnableSSL
LEMMA NilVersionOrder ==
    ASSUME TypeInv, InOrder, NEW c \in Callers, NilVersion(c) PROVE InOrder'
<1>1. /\ call[c].pc \in {"tls", "secure"} /\ ~objs[call[c].obj].version
      /\ panic' = "nil version" /\ UNCHANGED <<conns, objs, call, device, services>>
  BY DEF NilVersion, Panic, Pc, world
<1>2. call[c].op = "misagent"
  <2>1. {"tls", "secure"} \subseteq Locked \ {"version"}
    BY DEF Locked, LockPcs
  <2>2. call[c].obj = MyLock(c)
    BY <1>1, <2>1, Here
  <2>3. QED
    BY <1>1, <2>1, <2>2, Here
<1>3. Lines' /\ OwnCache'
  BY <1>1, LinesStill, CacheSame DEF InOrder
<1>4. Causes'
  BY <1>1, <1>2 DEF Causes
<1>5. ASSUME NEW b \in Callers PROVE OwnObj(call[b])' /\ OwnGot(call[b])'
  <2>1. PICK k : k = call[b] /\ k = call'[b] /\ OwnObj(k) /\ OwnGot(k)
    BY <1>1 DEF InOrder
  <2>2. OwnObj(k)'
    BY <1>1, <2>1 DEF OwnObj
  <2>3. OwnGot(k)'
    BY <1>1, <2>1 DEF OwnGot, Leading
  <2>4. QED
    BY <2>1, <2>2, <2>3
<1>6. QED
  BY <1>3, <1>4, <1>5 DEF InOrder

\* What is done after a session, on the call's own object and services.
LEMMA AfterSessOwn ==
    ASSUME TypeInv, InOrder, NEW c \in Callers, call[c].pc \in {"stop", "end"},
           UNCHANGED <<device, services>>, objs'[MyLock(c)].version = objs[MyLock(c)].version,
           NEW l \in CallRec, l.op = call[c].op, l.dev = call[c].dev, l.got = call[c].got,
           l.inner = call[c].inner, l.obj = MyLock(c), l.want = call[c].want,
           NEW m, m = AfterSession(l)
    PROVE  /\ OwnObj(m)' /\ OwnGot(m)' /\ m.phase = "send"
           /\ m.pc \in {"idle", "queryType", "dial"}
<1>1. call[c].pc \in Locked \ {"version", "secure"}
  BY DEF Locked, LockPcs
<1>2. MyLock(c) \in 1..Len(objs) /\ (call[c].inner => call[c].op = "misagent")
  BY <1>1, Here
<1>3. /\ m \in CallRec /\ m.phase = "send"
      /\ m = Idle \/ /\ m.op = l.op /\ m.dev = l.dev /\ m.want = l.want /\ m.got = l.got
                     /\ m.rec = l.rec /\ ~m.inner
      /\ l.inner => m.pc = "queryType" /\ m.obj = MyLock(c) /\ m.op = l.op
      /\ ~l.inner /\ l.op = "getValue" => m = Idle
      /\ ~l.inner /\ l.op # "getValue" => m.pc = "dial" /\ m.obj = l.obj /\ m.op = l.op
  BY <1>1, <1>2, AfterSessionType
<1>4. CASE m = Idle
  BY <1>4, IdleOwn, IdleType
<1>5. CASE m # Idle
  <2>1. /\ m.pc \in {"queryType", "dial"} /\ m.op = call[c].op /\ m.dev = call[c].dev
        /\ m.want = call[c].want /\ m.got = call[c].got /\ ~m.inner /\ m.obj = MyLock(c)
    BY <1>3, <1>5
  <2>2. OwnGot(call[c]) /\ call[c].pc \notin {"idle", "use", "secure"}
    BY DEF InOrder
  <2>3. OwnGot(m)'
    BY <2>1, <2>2, GotKept
  <2>4. {"queryType", "dial"} \subseteq Locked \ {"version"}
    BY DEF Locked, LockPcs
  <2>5. m.pc \in Locked => m.obj = device'[m.dev].lock
    BY <1>1, <2>1, Here
  <2>6. m.op # "misagent" => objs'[m.obj].version
    BY <1>1, <2>1, Here
  <2>7. OwnObj(m)'
    BY <2>1, <2>5, <2>6 DEF OwnObj
  <2>8. QED
    BY <1>3, <2>1, <2>3, <2>7
<1>6. QED
  BY <1>4, <1>5
LEMMA BeginSessionOrder ==
    ASSUME TypeInv, InOrder, NEW c \in Callers, BeginSession(c), Going PROVE InOrder'
<1>1. call[c].pc = "session" /\ UNCHANGED <<conns, objs, device, panic, services>>
  BY DEF BeginSession, Pc, world
<1>2. /\ call[c].pc \in Locked \ {"version", "secure"} /\ call[c].pc # "idle"
      /\ ~Opening(c) /\ call[c] \in CallRec
  BY <1>1, Lengths DEF Locked, LockPcs, Opening, Asking, TypeInv
<1>3. PICK o \in 1..Len(objs) :
        /\ o = call[c].obj /\ o = MyLock(c) /\ objs[o] \in ObjRec
        /\ (call[c].inner => call[c].op = "misagent") /\ objs[o].record # NoRecord /\ OwnCache
  <2>1. MyLock(c) \in 1..Len(objs) /\ call[c].obj = MyLock(c)
    BY <1>1, <1>2, Here
  <2>2. objs[MyLock(c)] \in ObjRec
    BY <2>1, Lengths DEF TypeInv
  <2>3. OwnObj(call[c]) /\ OwnCache
    BY DEF InOrder
  <2>4. QED
    BY <1>1, <2>1, <2>2, <2>3 DEF OwnObj
<1>4. PICK first \in {"stopRunning", "start"} :
        first = IF objs[o].session # 0 THEN "stopRunning" ELSE "start"
  OBVIOUS
<1>5. first \in Locked \ {"version", "tls"}
  BY <1>4 DEF Locked, LockPcs
<1>6. PICK g : g = Goto(call[c], first)
  OBVIOUS
<1>7. g \in CallRec /\ g.pc = first /\ g.phase = "send" /\ g.op = call[c].op
      /\ g.dev = call[c].dev /\ g.inner = call[c].inner /\ g.got = call[c].got
      /\ g.want = call[c].want
  BY <1>5, <1>6, GoParts
<1>8. PICK h : h = [g EXCEPT !.obj = o]
  OBVIOUS
<1>9. h \in CallRec /\ h.obj = o /\ h.pc = first /\ h.phase = "send" /\ h.op = call[c].op
      /\ h.dev = call[c].dev /\ h.inner = call[c].inner /\ h.got = call[c].got
      /\ h.want = call[c].want
  <2>1. o \in Nat
    OBVIOUS
  <2>2. QED
    BY <1>7, <1>8, <2>1, WithObj
<1>10. PICK k : k = [h EXCEPT !.rec = objs[o].record]
  OBVIOUS
<1>11. k.rec = objs[o].record /\ k.obj = o /\ k.pc = first /\ k.phase = "send"
       /\ k.op = call[c].op /\ k.dev = call[c].dev /\ k.inner = call[c].inner
       /\ k.got = call[c].got /\ k.want = call[c].want
  <2>1. objs[o].record \in Record
    BY <1>3 DEF ObjRec
  <2>2. QED
    BY <1>9, <1>10, <2>1, WithRec
<1>12. call' = [call EXCEPT ![c] = k]
  <2>1. (IF InGetValue(c) THEN MyLock(c) ELSE call[c].obj) = o
    BY <1>3
  <2>2. k = [Goto(call[c], first) EXCEPT !.obj = o, !.rec = objs[o].record]
    BY <1>6, <1>7, <1>8, <1>10 DEF CallRec
  <2>3. QED
    BY <1>4, <2>1, <2>2 DEF BeginSession
<1>13. OwnObj(k)' /\ OwnGot(k)'
  <2>1. k.pc \in Locked \ {"version", "tls"} /\ k.pc \notin {"dial", "secure", "saveRecord", "session"}
    BY <1>5, <1>11
  <2>2. k.pc = "start" => objs'[MyLock(c)].session = 0
    BY <1>1, <1>3, <1>4, <1>11
  <2>3. k.rec # NoRecord /\ k.obj = MyLock(c) /\ objs'[MyLock(c)].version = objs[MyLock(c)].version
    BY <1>1, <1>3, <1>11
  <2>4. QED
    BY <1>1, <1>2, <1>11, <2>1, <2>2, <2>3, GoOwn
<1>14. OwnCache' /\ Going' /\ SessionsSame
  BY <1>1, <1>3, CacheSame, GoesOn DEF SessionsSame
<1>15. k.phase = "send" /\ k.pc # "tls"
  BY <1>11
<1>16. QED
  BY <1>1, <1>2, <1>12, <1>13, <1>14, <1>15, OrderRest

LEMMA EndSessionOrder ==
    ASSUME TypeInv, InOrder, NEW c \in Callers, EndSession(c), Going PROVE InOrder'
<1>1. call[c].pc = "end" /\ UNCHANGED <<conns, objs, device, panic, services>>
  BY DEF EndSession, Pc, world
<1>2. /\ call[c].pc \in Locked \ {"version", "secure"} /\ call[c].pc # "idle"
      /\ ~Opening(c) /\ call[c] \in CallRec
  BY <1>1, Lengths DEF Locked, LockPcs, Opening, Asking, TypeInv
<1>3. PICK o \in 1..Len(objs) : o = call[c].obj /\ o = MyLock(c) /\ OwnCache
  <2>1. MyLock(c) \in 1..Len(objs) /\ call[c].obj = MyLock(c)
    BY <1>1, <1>2, Here
  <2>2. QED
    BY <2>1 DEF InOrder
<1>4. PICK l : l = [call[c] EXCEPT !.obj = o]
  OBVIOUS
<1>5. /\ l \in CallRec /\ l.obj = o /\ l.op = call[c].op /\ l.dev = call[c].dev
      /\ l.inner = call[c].inner /\ l.got = call[c].got /\ l.want = call[c].want
  <2>1. o \in Nat
    OBVIOUS
  <2>2. QED
    BY <1>2, <1>4, <2>1, WithObj
<1>6. l = call[c]
  BY <1>2, <1>3, <1>4 DEF CallRec
<1>7. PICK k : /\ call' = [call EXCEPT ![c] = k]
               /\ k = IF objs[o].session # 0 THEN Goto(l, "stop") ELSE AfterSession(l)
  <2>1. (IF InGetValue(c) THEN MyLock(c) ELSE call[c].obj) = o
    BY <1>3
  <2>2. QED
    BY <1>4, <2>1 DEF EndSession
<1>8. OwnObj(k)' /\ OwnGot(k)' /\ k.phase = "send" /\ k.pc # "tls"
  <2>1. CASE objs[o].session # 0
    <3>1. k = Goto(call[c], "stop")
      BY <1>6, <1>7, <2>1
    <3>2. "stop" \in Locked \ {"version", "tls"}
      BY DEF Locked, LockPcs
    <3>3. k.pc = "stop" /\ k.phase = "send" /\ k.op = call[c].op /\ k.dev = call[c].dev
          /\ k.inner = call[c].inner /\ k.obj = call[c].obj /\ k.got = call[c].got
          /\ k.want = call[c].want
      BY <3>1, <3>2, GoParts
    <3>4. k.pc \in Locked \ {"version", "tls"}
          /\ k.pc \notin {"dial", "secure", "saveRecord", "session", "pairDevice",
                          "stopRunning", "start"}
      BY <3>2, <3>3
    <3>5. k.obj = MyLock(c) /\ objs'[MyLock(c)].version = objs[MyLock(c)].version
      BY <1>1, <1>3, <3>3
    <3>6. OwnObj(k)' /\ OwnGot(k)'
      BY <1>1, <1>2, <3>3, <3>4, <3>5, GoOwn
    <3>7. QED
      BY <3>3, <3>6
  <2>2. CASE objs[o].session = 0
    <3>1. k = AfterSession(l)
      BY <1>7, <2>2
    <3>2. call[c].pc \in {"stop", "end"} /\ l.obj = MyLock(c)
          /\ objs'[MyLock(c)].version = objs[MyLock(c)].version
      BY <1>1, <1>3, <1>5
    <3>3. QED
      BY <1>1, <1>5, <3>1, <3>2, AfterSessOwn
  <2>3. QED
    BY <2>1, <2>2
<1>9. OwnCache' /\ Going' /\ SessionsSame
  BY <1>1, <1>3, CacheSame, GoesOn DEF SessionsSame
<1>10. QED
  BY <1>1, <1>2, <1>7, <1>8, <1>9, OrderRest

LEMMA StoppedOrder ==
    ASSUME TypeInv, InOrder, NEW c \in Callers, Stopped(c), Going PROVE InOrder'
<1>1. Takes(c) /\ call[c].pc \in {"stop", "stopRunning"} /\ UNCHANGED services
  <2>1. call[c].pc \in {"stop", "stopRunning"} /\ Got(c, {call[c].pc})
    BY DEF Stopped, Got, Pc
  <2>2. call[c].pc \in LockPcs
    BY <2>1 DEF LockPcs
  <2>3. Takes(c) /\ UNCHANGED world
    BY <2>1, <2>2, GotTakes
  <2>4. QED
    BY <2>1, <2>3 DEF world
<1>2. CASE ~Fine(Ans(c)) /\ Fail(c) /\ UNCHANGED objs
  BY <1>1, <1>2, TakenFails
<1>3. CASE /\ Fine(Ans(c)) /\ objs' = [objs EXCEPT ![call[c].obj].session = 0]
           /\ call' = [call EXCEPT ![c] = IF Pc(c) = "stop" THEN AfterSession(call[c])
                                          ELSE Goto(call[c], "start")]
           /\ UNCHANGED <<device, panic>>
  <2>1. PICK o \in 1..Len(objs), old \in ObjRec :
          /\ o = call[c].obj /\ o = MyLock(c) /\ old = objs[o] /\ OwnObj(call[c]) /\ OwnCache
          /\ call[c] \in CallRec /\ conns[ConnOf(c)].session = 0
    <3>1. /\ call[c].obj = MyLock(c) /\ MyLock(c) \in 1..Len(objs) /\ OwnObj(call[c]) /\ OwnCache
          /\ call[c] \in CallRec
          /\ Fits(call[c], Ans(c), objs[MyLock(c)].session, conns[ConnOf(c)])
      BY <1>1, TakenFits
    <3>2. conns[ConnOf(c)].session = 0
      BY <1>1, <1>3, <3>1 DEF Fits
    <3>3. objs[MyLock(c)] \in ObjRec
      BY <3>1, Lengths DEF TypeInv
    <3>4. QED
      BY <3>1, <3>2, <3>3
  <2>2. PICK r : r = [old EXCEPT !.session = 0]
    OBVIOUS
  <2>3. r.client = old.client /\ r.session = 0 /\ r.version = old.version
    BY <2>2 DEF ObjRec
  <2>4. objs' = [objs EXCEPT ![o] = r]
    BY <1>3, <2>1, <2>2
  <2>5. /\ Len(objs') = Len(objs) /\ objs'[o] = r
        /\ \A p \in 1..Len(objs) : /\ objs'[p].client = objs[p].client
                                   /\ p # o => objs'[p].session = objs[p].session
    BY <2>1, <2>3, <2>4, ObjAt
  <2>6. Agrees(objs'[MyLock(c)].session, conns[ConnOf(c)])
    BY <2>1, <2>3, <2>5 DEF Agrees
  <2>7. /\ Len(objs') = Len(objs) /\ objs'[MyLock(c)].version = objs[MyLock(c)].version
        /\ \A p \in 1..Len(objs) : /\ objs'[p].client = objs[p].client
                                   /\ p # MyLock(c) => objs'[p].session = objs[p].session
    BY <2>1, <2>3, <2>5
  <2>8. CASE call[c].pc = "stop"
    <3>1. PICK k : k = AfterSession(call[c])
      OBVIOUS
    <3>2. call' = [call EXCEPT ![c] = k]
      BY <1>3, <2>8, <3>1 DEF Pc
    <3>3. OwnObj(k)' /\ OwnGot(k)' /\ k.phase = "send"
      <4>1. call[c].pc \in {"stop", "end"} /\ call[c].obj = MyLock(c)
        BY <2>1, <2>8
      <4>2. QED
        BY <1>1, <1>3, <2>1, <2>7, <3>1, <4>1, AfterSessOwn
    <3>4. OwnCache' /\ Going'
      BY <1>1, <1>3, <2>1, CacheSame, GoesOn
    <3>5. \A p \in 1..Len(objs) : /\ objs'[p].client = objs[p].client
                                   /\ p # call[c].obj => objs'[p].session = objs[p].session
      BY <2>1, <2>7
    <3>6. QED
      BY <1>1, <2>1, <2>6, <2>7, <3>2, <3>3, <3>4, <3>5, OrderTaken
  <2>9. CASE call[c].pc = "stopRunning"
    <3>1. PICK k : k = Goto(call[c], "start")
      OBVIOUS
    <3>2. call' = [call EXCEPT ![c] = k]
      BY <1>3, <2>9, <3>1 DEF Pc
    <3>3. "start" \in Locked \ {"version", "tls"}
      BY DEF Locked, LockPcs
    <3>4. k.pc = "start" /\ k.phase = "send" /\ k.op = call[c].op /\ k.dev = call[c].dev
          /\ k.inner = call[c].inner /\ k.obj = call[c].obj /\ k.got = call[c].got
          /\ k.want = call[c].want /\ k.rec = call[c].rec
      BY <3>1, <3>3, GoParts
    <3>5. call[c].rec # NoRecord
      BY <2>1, <2>9 DEF OwnObj
    <3>6. k.pc \in Locked \ {"version", "tls"} /\ k.rec # NoRecord
          /\ k.pc \notin {"dial", "secure", "saveRecord", "session"}
          /\ objs'[MyLock(c)].session = 0 /\ call[c].pc # "version"
      BY <2>1, <2>3, <2>5, <2>9, <3>3, <3>4, <3>5
    <3>7. QED
      BY <1>1, <1>3, <2>6, <2>7, <3>2, <3>4, <3>6, TakenGoes
  <2>10. QED
    BY <1>1, <2>8, <2>9
<1>4. QED
  BY <1>2, <1>3 DEF Stopped, Fine
\* A service that is dialled comes after the others.
LEMMA LeadingKept ==
    ASSUME Types, NEW new, services' = Append(services, new), NEW got, Held(got, Len(services)),
           NEW d, NEW op, Leading(got, d, op)
    PROVE  Leading(got, d, op)'
<1>1. \A i \in 1..Len(services) : services'[i] = services[i]
  <2>1. services \in Seq([dev: Devs, svc: Names])
    BY DEF Types
  <2>2. QED
    BY <2>1, Appended
<1>2. QED
  BY <1>1 DEF Leading, Held

LEMMA DialOrder ==
    ASSUME TypeInv, InOrder, NEW c \in Callers, Dial(c), Going PROVE InOrder'
<1>1. call[c].pc = "dial" /\ UNCHANGED <<conns, objs>>
  BY DEF Dial, Pc
<1>2. /\ call[c].pc \in Locked \ {"version", "tls"} /\ call[c].pc # "idle"
      /\ ~Opening(c) /\ SessionsSame
  BY <1>1 DEF Locked, LockPcs, Opening, Asking, SessionsSame
<1>3. CASE Fail(c) /\ UNCHANGED services
  BY <1>1, <1>2, <1>3, OrderFail
<1>4. CASE /\ services' = Append(services, [dev |-> call[c].dev, svc |-> call[c].want])
           /\ call' = [call EXCEPT ![c] = [Goto(@, "secure") EXCEPT !.got = Append(call[c].got, Len(services'))]]
           /\ UNCHANGED <<device, panic>>
  <2>1. PICK l \in CallRec : /\ l = call[c] /\ CallOK(l) /\ OwnObj(l) /\ OwnGot(l) /\ OwnCache
                             /\ ~l.inner /\ l.obj = MyLock(c)
    <3>1. call[c] \in CallRec /\ CallOK(call[c]) /\ OwnObj(call[c]) /\ OwnGot(call[c]) /\ OwnCache
      BY Lengths DEF TypeInv, Referring, InOrder
    <3>2. ~call[c].inner /\ call[c].obj = MyLock(c)
      BY <1>1, <1>2, Here
    <3>3. QED
      BY <3>1, <3>2
  <2>2. PICK new : new = [dev |-> l.dev, svc |-> l.want]
    OBVIOUS
  <2>3. services' = Append(services, new)
    BY <1>4, <2>1, <2>2
  <2>4. services \in Seq([dev: Devs, svc: Names])
    BY DEF TypeInv, Types
  <2>5. PICK n \in Nat : n = Len(services') /\ services'[n] = new
    <3>1. Len(services) \in Nat /\ Len(services') = Len(services) + 1 /\ services'[Len(services')] = new
      BY <2>3, <2>4, Appended
    <3>2. QED
      BY <3>1
  <2>6. PICK g : g = Goto(l, "secure")
    OBVIOUS
  <2>7. /\ g \in CallRec /\ g.pc = "secure" /\ g.phase = "send" /\ g.op = l.op /\ g.dev = l.dev
        /\ g.obj = l.obj /\ g.inner = l.inner /\ g.want = l.want
    <3>1. "secure" \in Pcs
      BY DEF Pcs, Locked
    <3>2. QED
      BY <2>6, <3>1, GotoType
  <2>8. PICK s0 \in Seq(Nat) : s0 = l.got
    BY DEF CallRec
  <2>9. PICK s : s = Append(s0, n)
    OBVIOUS
  <2>10. /\ s \in Seq(Nat) /\ Len(s) = Len(s0) + 1 /\ Len(s0) \in Nat
         /\ \A j \in 1..Len(s0) : s[j] = s0[j]
         /\ s[Len(s)] = n /\ \A j \in 1..Len(s) : j \in 1..Len(s0) \/ j = Len(s)
    <3>1. s \in Seq(Nat)
      BY <2>9
    <3>2. QED
      BY <2>9, <3>1, Appended
  <2>11. PICK k : k = [g EXCEPT !.got = s]
    OBVIOUS
  <2>12. /\ k.got = s /\ k.pc = "secure" /\ k.phase = "send" /\ k.op = l.op /\ k.dev = l.dev
         /\ k.obj = l.obj /\ k.inner = l.inner
    BY <2>7, <2>10, <2>11, WithGot
  <2>13. call' = [call EXCEPT ![c] = k]
    <3>1. k = [Goto(call[c], "secure") EXCEPT !.got = Append(call[c].got, Len(services'))]
      BY <2>1, <2>5, <2>6, <2>8, <2>9, <2>11
    <3>2. QED
      BY <1>4, <3>1
  <2>14. OwnObj(k)'
    <3>1. k.obj = device'[k.dev].lock
      BY <1>4, <2>1, <2>12 DEF MyLock
    <3>2. k.op # "misagent" => objs'[k.obj].version
      BY <1>1, <1>2, <2>1, <2>12, Here
    <3>3. QED
      BY <2>1, <2>12, <3>1, <3>2 DEF OwnObj
  <2>15. OwnGot(k)'
    <3>1. CASE k.op \in ServiceOps
      <4>1. /\ Leading(s0, l.dev, l.op) /\ Len(s0) < Len(Leads(l.op))
            /\ l.want = Leads(l.op)[Len(s0) + 1]
        BY <1>1, <2>1, <2>8, <2>12, <3>1 DEF OwnGot
      <4>2. Leading(s0, l.dev, l.op)'
        <5>1. Held(s0, Len(services))
          BY <2>1, <2>8 DEF CallOK
        <5>2. QED
          BY <2>3, <4>1, <5>1, LeadingKept DEF TypeInv
      <4>3. Len(s) <= Len(Leads(l.op))
        <5>1. Len(Leads(l.op)) \in Nat
          BY <2>12, <3>1, LeadsType
        <5>2. QED
          BY <2>10, <4>1, <5>1
      <4>4. services'[s[Len(s)]] = [dev |-> l.dev, svc |-> Leads(l.op)[Len(s)]]
        BY <2>2, <2>5, <2>10, <4>1
      <4>5. Leading(s, l.dev, l.op)'
        BY <2>10, <4>2, <4>3, <4>4 DEF Leading
      <4>6. QED
        BY <2>12, <4>5 DEF OwnGot
    <3>2. QED
      BY <3>1 DEF OwnGot
  <2>16. OwnCache'
    <3>1. ASSUME NEW d \in Devs, NEW op \in Kept \cup Reopened, NEW got,
                 got = device[d].cache[Field(op)], got # <<>>
          PROVE  Leading(got, d, op)' /\ Len(got) = Len(Leads(op))
      <4>1. Leading(got, d, op) /\ Len(got) = Len(Leads(op))
        BY <2>1, <3>1 DEF OwnCache
      <4>2. Held(got, Len(services))
        BY <3>1, FieldType DEF TypeInv, Referring, Devices
      <4>3. QED
        BY <2>3, <4>1, <4>2, LeadingKept DEF TypeInv
    <3>2. UNCHANGED device
      BY <1>4
    <3>3. QED
      BY <3>1, <3>2 DEF OwnCache, Leading
  <2>17. Going' /\ k.phase = "send" /\ k.pc # "tls"
    BY <1>4, <2>12, GoesOn
  <2>18. QED
    BY <1>1, <1>2, <2>13, <2>14, <2>15, <2>16, <2>17, OrderRest
<1>5. QED
  BY <1>3, <1>4 DEF Dial
LEMMA SecureOrder ==
    ASSUME TypeInv, InOrder, NEW c \in Callers, Secure(c), Going PROVE InOrder'
<1>1. call[c].pc = "secure" /\ UNCHANGED <<conns, objs, services>>
  BY DEF Secure, Pc, world
<1>2. /\ call[c].pc \in Locked \ {"version", "tls"} /\ call[c].pc # "idle"
      /\ ~Opening(c) /\ SessionsSame
  BY <1>1 DEF Locked, LockPcs, Opening, Asking, SessionsSame
<1>3. PICK l \in CallRec : /\ l = call[c] /\ OwnObj(l) /\ OwnGot(l) /\ OwnCache
                           /\ ~l.inner /\ l.obj = MyLock(c) /\ l.dev \in Devs
  <2>1. call[c] \in CallRec /\ OwnObj(call[c]) /\ OwnGot(call[c]) /\ OwnCache
    BY Lengths DEF TypeInv, InOrder
  <2>2. ~call[c].inner /\ call[c].obj = MyLock(c) /\ call[c].dev \in Devs
    BY <1>1, <1>2, Here, ObjNow
  <2>3. QED
    BY <2>1, <2>2
<1>4. CASE Fail(c)
  BY <1>1, <1>2, <1>4, OrderFail
<1>5. CASE Done(c)
  <2>1. call' = [call EXCEPT ![c] = Idle] /\ UNCHANGED <<device, panic>>
    BY <1>5 DEF Done
  <2>2. OwnCache' /\ Going' /\ OwnObj(Idle)' /\ OwnGot(Idle)'
        /\ Idle.phase = "send" /\ Idle.pc # "tls"
    BY <1>1, <1>3, <2>1, CacheSame, GoesOn, IdleOwn, IdleType
  <2>3. QED
    BY <1>1, <1>2, <2>1, <2>2, OrderRest
<1>6. CASE /\ call[c].op = "crashReportMover" /\ Len(call[c].got) = 1
           /\ call' = [call EXCEPT ![c] = [Goto(@, "queryType") EXCEPT !.want = "crashReportCopy"]]
           /\ UNCHANGED <<device, panic>>
  <2>1. PICK g : g = Goto(l, "queryType")
    OBVIOUS
  <2>2. g \in CallRec /\ g.pc = "queryType" /\ g.phase = "send" /\ g.op = l.op /\ g.dev = l.dev
        /\ g.inner = l.inner /\ g.obj = l.obj /\ g.got = l.got
    <3>1. "queryType" \in Pcs
      BY DEF Pcs, Locked, LockPcs
    <3>2. QED
      BY <2>1, <3>1, GotoType
  <2>3. PICK k : k = [g EXCEPT !.want = "crashReportCopy"]
    OBVIOUS
  <2>4. k.want = "crashReportCopy" /\ k.pc = "queryType" /\ k.phase = "send" /\ k.op = l.op
        /\ k.dev = l.dev /\ k.inner = l.inner /\ k.obj = l.obj /\ k.got = l.got
    <3>1. "crashReportCopy" \in Names
      BY DEF Names
    <3>2. k.want = "crashReportCopy" /\ k.pc = g.pc /\ k.phase = g.phase /\ k.op = g.op
          /\ k.dev = g.dev /\ k.inner = g.inner /\ k.obj = g.obj /\ k.got = g.got
      BY <2>2, <2>3, <3>1, WithWant
    <3>3. QED
      BY <2>2, <3>2
  <2>5. call' = [call EXCEPT ![c] = k]
    BY <1>3, <1>6, <2>1, <2>3
  <2>6. OwnObj(k)'
    <3>1. k.obj = device'[k.dev].lock
      BY <1>3, <1>6, <2>4 DEF MyLock
    <3>2. k.op # "misagent" => objs'[k.obj].version
      BY <1>1, <1>2, <1>3, <2>4, Here
    <3>3. QED
      BY <1>3, <2>4, <3>1, <3>2 DEF OwnObj
  <2>7. OwnGot(k)'
    <3>1. l.op = "crashReportMover" /\ l.op \in ServiceOps
      BY <1>3, <1>6 DEF ServiceOps, Kept
    <3>2. Leading(l.got, l.dev, l.op)
      BY <1>1, <1>3, <3>1 DEF OwnGot
    <3>3. Leading(k.got, k.dev, k.op)'
      BY <1>1, <2>4, <3>2 DEF Leading
    <3>4. Len(Leads(l.op)) = 2 /\ Leads(l.op)[2] = "crashReportCopy"
      BY <3>1, LeadsType
    <3>5. Len(k.got) = 1 /\ 1 < 2 /\ 1 + 1 = 2
      BY <1>3, <1>6, <2>4
    <3>6. Len(k.got) < Len(Leads(k.op)) /\ k.want = Leads(k.op)[Len(k.got) + 1]
      BY <2>4, <3>4, <3>5
    <3>7. QED
      BY <2>4, <3>3, <3>6 DEF OwnGot
  <2>8. OwnCache' /\ Going' /\ k.pc # "tls"
    BY <1>1, <1>3, <1>6, <2>4, CacheSame, GoesOn
  <2>9. QED
    BY <1>1, <1>2, <2>4, <2>5, <2>6, <2>7, <2>8, OrderRest
<1>7. CASE /\ call[c].op \in Kept \cup Reopened /\ Len(call[c].got) = Len(Leads(call[c].op))
           /\ device' = [device EXCEPT ![call[c].dev].cache[Field(call[c].op)] = call[c].got]
           /\ call' = [call EXCEPT ![c] = Goto(@, "use")]
           /\ UNCHANGED panic
  <2>1. PICK f \in Kept \cup Reopened : f = Field(l.op)
    BY <1>3, <1>7, FieldType
  <2>2. l.op \in ServiceOps /\ Leading(l.got, l.dev, l.op) /\ Len(l.got) = Len(Leads(l.op))
    <3>1. l.op \in ServiceOps
      BY <1>3, <1>7 DEF ServiceOps
    <3>2. QED
      BY <1>1, <1>3, <1>7, <3>1 DEF OwnGot
  <2>3. PICK old \in DeviceRec : old = device[l.dev]
    BY <1>3, Lengths DEF TypeInv
  <2>4. PICK ch : ch = [old.cache EXCEPT ![f] = l.got]
    OBVIOUS
  <2>5. ch[f] = l.got /\ \A g \in Kept \cup Reopened : g # f => ch[g] = old.cache[g]
    BY <2>4 DEF DeviceRec
  <2>6. PICK d2 : d2 = [old EXCEPT !.cache = ch]
    OBVIOUS
  <2>7. d2.cache = ch
    BY <2>6 DEF DeviceRec
  <2>8. device' = [device EXCEPT ![l.dev] = d2]
    BY <1>3, <1>7, <2>1, <2>3, <2>4, <2>6 DEF TypeInv, Types
  <2>9. \A d \in Devs : device'[d] = IF d = l.dev THEN d2 ELSE device[d]
    BY <2>8 DEF TypeInv, Types
  <2>10. device'[l.dev].cache[f] = l.got
         /\ \A d \in Devs : \A g \in Kept \cup Reopened :
               d # l.dev \/ g # f => device'[d].cache[g] = device[d].cache[g]
    BY <1>3, <2>3, <2>5, <2>7, <2>9
  <2>11. PICK k : k = Goto(l, "use")
    OBVIOUS
  <2>12. k.pc = "use" /\ k.phase = "send" /\ k.op = l.op /\ k.dev = l.dev /\ k.inner = l.inner
    <3>1. "use" \in Pcs
      BY DEF Pcs
    <3>2. QED
      BY <2>11, <3>1, GotoType
  <2>13. call' = [call EXCEPT ![c] = k]
    BY <1>3, <1>7, <2>11
  <2>14. l.got # <<>>
    <3>1. Len(l.got) \in {1, 2}
      BY <2>2, LeadsType
    <3>2. Len(<<>>) = 0
      OBVIOUS
    <3>3. l.got = <<>> => Len(l.got) = Len(<<>>)
      OBVIOUS
    <3>4. 1 # 0 /\ 2 # 0
      OBVIOUS
    <3>5. Len(l.got) # 0
      BY <3>1, <3>4
    <3>6. QED
      BY <3>2, <3>3, <3>5
  <2>15. OwnObj(k)' /\ OwnGot(k)'
    <3>1. device'[k.dev].cache[Field(k.op)] # <<>>
      BY <2>1, <2>10, <2>12, <2>14
    <3>2. "use" \notin Locked
      BY DEF Locked, LockPcs
    <3>3. OwnObj(k)'
      BY <1>3, <2>12, <3>1, <3>2 DEF OwnObj
    <3>4. OwnGot(k)'
      BY <2>12 DEF OwnGot
    <3>5. QED
      BY <3>3, <3>4
  <2>16. OwnCache'
    <3>1. ASSUME NEW d \in Devs, NEW op \in Kept \cup Reopened, NEW got,
                 got = device'[d].cache[Field(op)], got # <<>>
          PROVE  Leading(got, d, op)' /\ Len(got) = Len(Leads(op))
      <4>1. Field(op) \in Kept \cup Reopened /\ op \in ServiceOps
        BY FieldType DEF ServiceOps
      <4>2. CASE d = l.dev /\ Field(op) = f
        <5>1. got = l.got /\ Leads(op) = Leads(l.op)
          BY <2>1, <2>2, <2>10, <3>1, <4>1, <4>2, LeadsType
        <5>2. Leading(got, d, op) /\ Len(got) = Len(Leads(op))
          BY <2>2, <4>2, <5>1 DEF Leading
        <5>3. QED
          BY <1>1, <5>2 DEF Leading
      <4>3. CASE d # l.dev \/ Field(op) # f
        <5>1. got = device[d].cache[Field(op)]
          BY <2>10, <3>1, <4>1, <4>3
        <5>2. Leading(got, d, op) /\ Len(got) = Len(Leads(op))
          BY <1>3, <3>1, <5>1 DEF OwnCache
        <5>3. QED
          BY <1>1, <5>2 DEF Leading
      <4>4. QED
        BY <4>2, <4>3
    <3>2. QED
      BY <3>1 DEF OwnCache, Leading
  <2>17. Going' /\ k.pc # "tls"
    BY <1>7, <2>12, GoesOn
  <2>18. QED
    BY <1>1, <1>2, <2>12, <2>13, <2>15, <2>16, <2>17, OrderRest
<1>8. QED
  BY <1>4, <1>5, <1>6, <1>7 DEF Secure

LEMMA UseOrder ==
    ASSUME TypeInv, InOrder, NEW c \in Callers, Use(c), Going PROVE InOrder'
<1>1. call[c].pc = "use" /\ UNCHANGED <<conns, objs, services>>
  BY DEF Use, Pc, world
<1>2. call[c].pc # "idle" /\ ~Opening(c) /\ SessionsSame
  BY <1>1 DEF LockPcs, Opening, Asking, SessionsSame
<1>3. OwnCache /\ device[call[c].dev].cache[Field(call[c].op)] # <<>>
  BY <1>1 DEF InOrder, OwnObj
<1>4. call' = [call EXCEPT ![c] = Idle] /\ UNCHANGED <<device, panic>>
  BY <1>3 DEF Use, Done
<1>5. OwnCache' /\ Going' /\ OwnObj(Idle)' /\ OwnGot(Idle)'
      /\ Idle.phase = "send" /\ Idle.pc # "tls"
  BY <1>1, <1>3, <1>4, CacheSame, GoesOn, IdleOwn, IdleType
<1>6. QED
  BY <1>1, <1>2, <1>4, <1>5, OrderRest
-----------------------------------------------------------------------------
\* What a call does at usbmuxd leaves its lockdown connection.
LEMMA AtMux ==
    ASSUME TypeInv, InOrder, NEW c \in Callers, call[c].pc \in MuxPcs
    PROVE  /\ call[c].pc \notin {"idle", "use", "secure", "tls", "version"}
           /\ call[c].pc \notin LockPcs /\ ~Opening(c)
           /\ call[c] \in CallRec /\ OwnObj(call[c]) /\ OwnGot(call[c]) /\ OwnCache
<1>1. call[c].pc \notin {"idle", "use", "secure", "tls", "version"}
  BY DEF MuxPcs
<1>2. call[c].pc \notin LockPcs
  BY Kinds
<1>3. QED
  BY <1>1, <1>2, Lengths DEF Opening, Asking, InOrder, TypeInv

LEMMA MuxPhase ==
    ASSUME TypeInv, InOrder, NEW c \in Callers, call[c].pc \in MuxPcs, Going,
           NEW p \in {"length", "body"}, call' = [call EXCEPT ![c].phase = p],
           UNCHANGED <<conns, objs, device, panic, services>>
    PROVE  InOrder'
<1>1. PICK l \in CallRec : /\ l = call[c] /\ OwnObj(l) /\ OwnGot(l) /\ OwnCache /\ ~Opening(c)
                           /\ l.pc \notin {"idle", "use", "secure", "tls", "version"}
                           /\ l.pc \notin LockPcs
  BY AtMux
<1>2. PICK k : k = [l EXCEPT !.phase = p]
  OBVIOUS
<1>3. k.pc = l.pc /\ k.op = l.op /\ k.dev = l.dev /\ k.obj = l.obj /\ k.inner = l.inner
      /\ k.rec = l.rec /\ k.num = l.num /\ k.got = l.got /\ k.want = l.want
  BY <1>2, WithPhase
<1>4. call' = [call EXCEPT ![c] = k]
  BY <1>1, <1>2
<1>5. OwnObj(k)'
  BY <1>1, <1>3 DEF OwnObj
<1>6. OwnGot(k)'
  BY <1>1, <1>3, GotKept
<1>7. OwnCache' /\ Going' /\ SessionsSame
  BY <1>1, CacheSame, GoesOn DEF SessionsSame
<1>8. k.pc \notin LockPcs /\ k.pc # "tls" /\ call[c].pc # "idle"
  BY <1>1, <1>3
<1>9. QED
  BY <1>1, <1>4, <1>5, <1>6, <1>7, <1>8, OrderRest

LEMMA MuxGo ==
    ASSUME TypeInv, InOrder, NEW c \in Callers, call[c].pc \in {"readRecord", "buid", "saveRecord"},
           Going, NEW pc \in {"buid", "publicKey", "session"}, Go(c, pc),
           UNCHANGED <<conns, services>>, SessionsSame,
           objs'[MyLock(c)].version = objs[MyLock(c)].version,
           pc = "session" => objs'[MyLock(c)].record # NoRecord
    PROVE  InOrder'
<1>1. /\ call[c].pc \in MuxPcs /\ call[c].pc \in Locked \ {"version", "secure"}
      /\ pc \in Locked \ {"version", "tls"}
  BY DEF MuxPcs, Locked, LockPcs
<1>2. ~Opening(c) /\ OwnCache /\ call[c].pc # "idle"
  BY <1>1, AtMux
<1>3. PICK k : k = Goto(call[c], pc)
  OBVIOUS
<1>4. k.pc = pc /\ k.phase = "send" /\ k.op = call[c].op /\ k.dev = call[c].dev
      /\ k.inner = call[c].inner /\ k.obj = call[c].obj /\ k.got = call[c].got
      /\ k.want = call[c].want /\ k.pc \in Locked \ {"version", "tls"}
  BY <1>1, <1>3, GoParts
<1>5. call' = [call EXCEPT ![c] = k] /\ UNCHANGED <<device, panic>>
  BY <1>3 DEF Go
<1>6. k.obj = MyLock(c)
  BY <1>1, <1>4, Here
<1>7. k.pc \in {"saveRecord", "session"} => objs'[MyLock(c)].record # NoRecord
  BY <1>4
<1>8. k.pc \notin {"dial", "secure", "pairDevice", "stopRunning", "start"}
  BY <1>4
<1>9. OwnObj(k)' /\ OwnGot(k)'
  BY <1>1, <1>4, <1>5, <1>6, <1>7, <1>8, GoOwn
<1>10. OwnCache' /\ Going' /\ k.pc # "tls"
  BY <1>2, <1>5, <1>4, CacheSame, GoesOn
<1>11. QED
  BY <1>2, <1>4, <1>5, <1>9, <1>10, OrderRest

LEMMA MuxDone ==
    ASSUME TypeInv, InOrder, NEW c \in Callers, call[c].pc \in MuxPcs, Going, Done(c),
           UNCHANGED <<conns, objs, services>>
    PROVE  InOrder'
<1>1. ~Opening(c) /\ OwnCache /\ call[c].pc # "idle"
  BY AtMux
<1>2. call' = [call EXCEPT ![c] = Idle] /\ UNCHANGED <<device, panic>>
  BY DEF Done
<1>3. OwnCache' /\ Going' /\ OwnObj(Idle)' /\ OwnGot(Idle)' /\ SessionsSame
      /\ Idle.phase = "send" /\ Idle.pc # "tls"
  BY <1>1, <1>2, CacheSame, GoesOn, IdleOwn, IdleType DEF SessionsSame
<1>4. QED
  BY <1>1, <1>2, <1>3, OrderRest

LEMMA MuxFails ==
    ASSUME TypeInv, InOrder, NEW c \in Callers, call[c].pc \in MuxPcs, Going, Fail(c),
           UNCHANGED <<conns, services>>, SessionsSame
    PROVE  InOrder'
  BY AtMux, OrderFail

LEMMA MuxSendOrder ==
    ASSUME TypeInv, InOrder, NEW c \in Callers, MuxSend(c), Going PROVE InOrder'
  BY MuxPhase DEF MuxSend, Pc

LEMMA MuxReadLengthOrder ==
    ASSUME TypeInv, InOrder, NEW c \in Callers, MuxReadLength(c), Going PROVE InOrder'
  BY MuxPhase DEF MuxReadLength, Pc, world

LEMMA MuxDeadlineOrder ==
    ASSUME TypeInv, InOrder, NEW c \in Callers, MuxDeadline(c), Going PROVE InOrder'
<1>1. call[c].pc \in MuxPcs /\ Fail(c) /\ UNCHANGED <<conns, objs, services>>
  BY DEF MuxDeadline, Pc, world
<1>2. SessionsSame
  BY <1>1 DEF SessionsSame
<1>3. QED
  BY <1>1, <1>2, MuxFails

LEMMA RecordSet ==
    ASSUME TypeInv, InOrder, NEW c \in Callers, call[c].pc = "readRecord", NEW r, SetRecord(c, r)
    PROVE  /\ SessionsSame /\ objs'[MyLock(c)].version = objs[MyLock(c)].version
           /\ objs'[MyLock(c)].record = r
<1>1. call[c].pc \in Locked
  BY DEF Locked
<1>2. MyLock(c) \in 1..Len(objs) /\ call[c].obj = MyLock(c)
  BY <1>1, Here
<1>3. PICK o \in 1..Len(objs), old \in ObjRec : o = call[c].obj /\ o = MyLock(c) /\ old = objs[o]
  BY <1>2, Lengths DEF TypeInv
<1>4. PICK new : new = [old EXCEPT !.record = r]
  OBVIOUS
<1>5. new.client = old.client /\ new.session = old.session /\ new.version = old.version
      /\ new.record = r
  BY <1>4 DEF ObjRec
<1>6. objs' = [objs EXCEPT ![o] = new]
  BY <1>3, <1>4 DEF SetRecord
<1>7. /\ Len(objs') = Len(objs) /\ objs'[o] = new
      /\ \A p \in 1..Len(objs) : /\ objs'[p].client = objs[p].client
                                 /\ p # o => objs'[p].session = objs[p].session
  BY <1>3, <1>5, <1>6, ObjAt
<1>8. QED
  BY <1>3, <1>5, <1>7 DEF SessionsSame

LEMMA GotRecordOrder ==
    ASSUME TypeInv, InOrder, RealRecords, NEW c \in Callers, GotRecord(c), Going PROVE InOrder'
<1>1. /\ MuxTakes(c) /\ UNCHANGED <<conns, services>> /\ call[c].pc = "readRecord"
      /\ call[c].pc \in MuxPcs
  <2>1. {"readRecord"} \subseteq MuxPcs
    BY DEF MuxPcs
  <2>2. MuxGot(c, {"readRecord"})
    BY DEF GotRecord
  <2>3. MuxTakes(c) /\ UNCHANGED <<conns, world>> /\ call[c].pc \in {"readRecord"}
    BY <2>1, <2>2, MuxGotTakes
  <2>4. QED
    BY <2>1, <2>3 DEF world
<1>2. CASE Go(c, "buid") /\ SetRecord(c, NoRecord)
  <2>1. SessionsSame /\ objs'[MyLock(c)].version = objs[MyLock(c)].version
    BY <1>1, <1>2, RecordSet
  <2>2. QED
    BY <1>1, <1>2, <2>1, MuxGo
<1>3. CASE Fail(c) /\ SetRecord(c, NoRecord)
  <2>1. SessionsSame
    BY <1>1, <1>3, RecordSet
  <2>2. QED
    BY <1>1, <1>3, <2>1, MuxFails
<1>4. PICK r : r = IF MuxAns.to = "ReadPairRecord" THEN MuxAns.rec ELSE EmptyRecord
  OBVIOUS
<1>5. CASE Fine(MuxAns) /\ SetRecord(c, r) /\ Go(c, "session")
  <2>1. SessionsSame /\ objs'[MyLock(c)].version = objs[MyLock(c)].version
        /\ objs'[MyLock(c)].record = r
    BY <1>1, <1>5, RecordSet
  <2>2. r # NoRecord
    <3>1. CASE MuxAns.to # "ReadPairRecord"
      <4>1. 0 # 1
        OBVIOUS
      <4>2. EmptyRecord.n # NoRecord.n
        BY <4>1 DEF EmptyRecord, NoRecord
      <4>3. QED
        BY <1>4, <3>1, <4>2
    <3>2. CASE MuxAns.to = "ReadPairRecord"
      <4>1. mux.answers \in Seq(AnswerRec) /\ mux.answers # <<>>
        <5>1. mux \in Stream /\ ReaderOK(mux) /\ mux.reader = c
          BY <1>1 DEF TypeInv, Types, Referring, MuxTakes
        <5>2. QED
          BY <5>1, StreamParts, Bounds DEF ReaderOK
      <4>2. 1 \in 1..Len(mux.answers) /\ MuxAns = mux.answers[1]
        BY <4>1 DEF MuxAns
      <4>3. MuxAns.rec # NoRecord
        BY <1>5, <3>2, <4>2 DEF RealRecords
      <4>4. QED
        BY <1>4, <3>2, <4>3
    <3>3. QED
      BY <3>1, <3>2
  <2>3. QED
    BY <1>1, <1>5, <2>1, <2>2, MuxGo
<1>6. QED
  BY <1>2, <1>3, <1>4, <1>5 DEF GotRecord, Fine

LEMMA GotBUIDOrder ==
    ASSUME TypeInv, InOrder, NEW c \in Callers, GotBUID(c), Going PROVE InOrder'
<1>1. /\ UNCHANGED <<conns, objs, services>> /\ call[c].pc = "buid" /\ call[c].pc \in MuxPcs
  <2>1. {"buid"} \subseteq MuxPcs
    BY DEF MuxPcs
  <2>2. MuxGot(c, {"buid"}) /\ UNCHANGED objs
    BY DEF GotBUID
  <2>3. UNCHANGED <<conns, world>> /\ call[c].pc \in {"buid"}
    BY <2>1, <2>2, MuxGotTakes
  <2>4. QED
    BY <2>1, <2>2, <2>3 DEF world
<1>2. SessionsSame /\ objs'[MyLock(c)].version = objs[MyLock(c)].version
  BY <1>1 DEF SessionsSame
<1>3. Fail(c) \/ Go(c, "publicKey")
  BY DEF GotBUID
<1>4. QED
  BY <1>1, <1>2, <1>3, MuxFails, MuxGo

LEMMA GotSavedOrder ==
    ASSUME TypeInv, InOrder, NEW c \in Callers, GotSaved(c), Going PROVE InOrder'
<1>1. /\ UNCHANGED <<conns, objs, services>> /\ call[c].pc \in MuxPcs
  <2>1. {"saveRecord", "deleteRecord"} \subseteq MuxPcs
    BY DEF MuxPcs
  <2>2. MuxGot(c, {"saveRecord", "deleteRecord"}) /\ UNCHANGED objs
    BY DEF GotSaved
  <2>3. UNCHANGED <<conns, world>> /\ call[c].pc \in {"saveRecord", "deleteRecord"}
    BY <2>1, <2>2, MuxGotTakes
  <2>4. QED
    BY <2>1, <2>2, <2>3 DEF world
<1>2. SessionsSame /\ objs'[MyLock(c)].version = objs[MyLock(c)].version
  BY <1>1 DEF SessionsSame
<1>3. CASE Fail(c) \/ Done(c)
  BY <1>1, <1>2, <1>3, MuxFails, MuxDone
<1>4. CASE call[c].pc = "saveRecord" /\ Go(c, "session")
  <2>1. call[c].pc \in Locked
    BY <1>4 DEF Locked
  <2>2. call[c].obj = MyLock(c)
    BY <1>4, <2>1, Here
  <2>3. objs'[MyLock(c)].record # NoRecord
    BY <1>1, <1>4, <2>2 DEF InOrder, OwnObj
  <2>4. QED
    BY <1>1, <1>2, <1>4, <2>3, MuxGo
<1>5. QED
  BY <1>3, <1>4 DEF GotSaved, Pc
-----------------------------------------------------------------------------
\* Nothing but usbmuxd puts a pair record in the stream of its client, and it has it.
LEMMA RecordsKept ==
    ASSUME RealRecords, mux'.answers = mux.answers PROVE RealRecords'
<1>1. PICK s : s = mux.answers /\ s = mux'.answers
  OBVIOUS
<1>2. \A j \in 1..Len(s) : s[j].to = "ReadPairRecord" /\ Fine(s[j]) => s[j].rec # NoRecord
  BY <1>1 DEF RealRecords
<1>3. QED
  BY <1>1, <1>2 DEF RealRecords, Fine

LEMMA MuxSendRecords ==
    ASSUME TypeInv, RealRecords, NEW c \in Callers, MuxSend(c) PROVE RealRecords'
<1>1. Pc(c) \in MuxPcs /\ Pc(c) # "ReadPairRecord"
  BY DEF MuxSend, MuxPcs
<1>2. PICK a \in AnswerRec :
        /\ mux' = [mux EXCEPT !.answers = Append(@, a)]
        /\ a.to = "ReadPairRecord" /\ Fine(a) => a.rec # NoRecord
  <2>1. CASE mux' = [mux EXCEPT !.answers = Append(@, MuxAnswer(c))]
    <3>1. PICK a : a = MuxAnswer(c)
      OBVIOUS
    <3>2. a \in AnswerRec
      BY <1>1, <3>1, MuxAnswerType
    <3>3. a.to = "ReadPairRecord" /\ Fine(a) => a.rec # NoRecord
      <4>1. CASE Pc(c) = "readRecord"
        <5>1. IF saved[call[c].dev] = NoRecord THEN a.err = "bad device"
              ELSE a.rec = saved[call[c].dev]
          BY <1>1, <3>1, <4>1, MuxAnswerType
        <5>2. Fine(a) => a.err # "bad device"
          BY DEF Fine
        <5>3. QED
          BY <5>1, <5>2
      <4>2. CASE Pc(c) # "readRecord"
        <5>1. a.to \in {"DeletePairRecord", Pc(c)}
          BY <1>1, <3>1, <4>2, MuxAnswerType
        <5>2. QED
          BY <1>1, <5>1
      <4>3. QED
        BY <4>1, <4>2
    <3>4. QED
      BY <2>1, <3>1, <3>2, <3>3
  <2>2. CASE mux' = [mux EXCEPT !.answers = Append(@, [Answer(Pc(c)) EXCEPT !.err = "error"])]
    <3>1. PICK a0 : a0 = Answer(Pc(c))
      OBVIOUS
    <3>2. a0 \in AnswerRec /\ a0.to = Pc(c)
      BY <1>1, <3>1, AnswerType DEF Requests
    <3>3. PICK a : a = [a0 EXCEPT !.err = "error"]
      OBVIOUS
    <3>4. a \in AnswerRec /\ a.to = Pc(c)
      BY <3>2, <3>3 DEF AnswerRec
    <3>5. QED
      BY <1>1, <2>2, <3>1, <3>3, <3>4
  <2>3. QED
    BY <2>1, <2>2 DEF MuxSend
<1>3. mux'.answers = Append(mux.answers, a) /\ mux.answers \in Seq(AnswerRec)
  BY <1>2, MuxPutType, StreamParts DEF TypeInv, Types
<1>4. PICK s, t : s = mux.answers /\ t = mux'.answers /\ s \in Seq(AnswerRec) /\ t = Append(s, a)
  BY <1>3
<1>5. \A j \in 1..Len(s) : s[j].to = "ReadPairRecord" /\ Fine(s[j]) => s[j].rec # NoRecord
  BY <1>4 DEF RealRecords
<1>6. t[Len(t)] = a /\ (\A j \in 1..Len(s) : t[j] = s[j])
      /\ \A j \in 1..Len(t) : j \in 1..Len(s) \/ j = Len(t)
  BY <1>4, Appended
<1>7. \A j \in 1..Len(t) : t[j].to = "ReadPairRecord" /\ Fine(t[j]) => t[j].rec # NoRecord
  BY <1>2, <1>5, <1>6
<1>8. QED
  BY <1>4, <1>7 DEF RealRecords, Fine

LEMMA MuxTakesRecords ==
    ASSUME TypeInv, RealRecords, NEW c \in Callers, MuxTakes(c) PROVE RealRecords'
<1>1. mux \in Stream /\ mux.answers # <<>> /\ mux.answers \in Seq(AnswerRec)
  <2>1. mux \in Stream /\ ReaderOK(mux) /\ mux.reader = c
    BY DEF TypeInv, Types, Referring, MuxTakes
  <2>2. QED
    BY <2>1, StreamParts, Bounds DEF ReaderOK
<1>2. mux'.answers = Tail(mux.answers)
  BY <1>1, TakeBodyType DEF MuxTakes
<1>3. PICK s, t : /\ s \in Seq(AnswerRec) /\ s = mux.answers /\ t = mux'.answers
                /\ t = Tail(s) /\ s # <<>>
  BY <1>1, <1>2
<1>4. \A j \in 1..Len(s) : s[j].to = "ReadPairRecord" /\ Fine(s[j]) => s[j].rec # NoRecord
  BY <1>3 DEF RealRecords
<1>5. \A j \in 1..Len(t) : j + 1 \in 1..Len(s) /\ t[j] = s[j + 1]
  BY <1>3
<1>6. \A j \in 1..Len(t) : t[j].to = "ReadPairRecord" /\ Fine(t[j]) => t[j].rec # NoRecord
  BY <1>4, <1>5
<1>7. QED
  BY <1>3, <1>6 DEF RealRecords, Fine

LEMMA RecordsStep ==
    ASSUME TypeInv, RealRecords, NEW c \in Callers, Begin(c) \/ Step(c) PROVE RealRecords'
<1>0. mux \in Stream
  BY DEF TypeInv, Types
<1>1. CASE UNCHANGED mux
  BY <1>1, RecordsKept
<1>2. CASE MuxReadLength(c)
  <2>1. mux.answers # <<>> /\ mux' = TakeLength(mux, c)
    BY <1>2 DEF MuxReadLength, Unread
  <2>2. mux'.answers = mux.answers
    BY <1>0, <2>1, TakeLengthType
  <2>3. QED
    BY <2>2, RecordsKept
<1>3. CASE MuxDeadline(c)
  <2>1. mux' = [mux EXCEPT !.mixed = @ \/ (mux.reader = c)]
    BY <1>3 DEF MuxDeadline
  <2>2. mux'.answers = mux.answers
    BY <1>0, <2>1 DEF Stream
  <2>3. QED
    BY <2>2, RecordsKept
<1>4. CASE Local(c) \/ Taken(c)
  BY <1>1, <1>4, LocalSame, TakenTakes
<1>5. CASE MuxTaken(c)
  BY <1>5, MuxTakenTakes, MuxTakesRecords
<1>6. CASE Connect(c) \/ SendPacket(c) \/ ReadLength(c) \/ EnableSSL(c)
  BY <1>1, <1>6 DEF Connect, SendPacket, ReadLength, EnableSSL
<1>7. CASE MuxSend(c)
  BY <1>7, MuxSendRecords
<1>8. QED
  BY <1>2, <1>3, <1>4, <1>5, <1>6, <1>7 DEF Step, Local, Taken, MuxTaken

\* A call that overlaps with another is one that begins.
LEMMA OverlapStep == ASSUME NEW c \in Callers, Step(c) PROVE overlapped' = overlapped
<1>1. CASE Connect(c) \/ NewLockdown(c) \/ KnownVersion(c) \/ SendPacket(c) \/ NilRecord(c)
  BY <1>1 DEF Connect, NewLockdown, KnownVersion, SendPacket, NilRecord, hist
<1>2. CASE ReadLength(c) \/ ReadError(c) \/ GotVersion(c) \/ GotType(c) \/ GotPublicKey(c)
  BY <1>2 DEF ReadLength, ReadError, GotVersion, GotType, GotPublicKey, Got, hist
<1>3. CASE GotWifi(c) \/ GotPair(c) \/ BeginSession(c) \/ GotSession(c) \/ EnableSSL(c)
  BY <1>3 DEF GotWifi, GotPair, BeginSession, GotSession, EnableSSL, Got, hist
<1>4. CASE NilVersion(c) \/ GotService(c) \/ GotValue(c) \/ EndSession(c) \/ Stopped(c)
  BY <1>4 DEF NilVersion, GotService, GotValue, EndSession, Stopped, Got, hist
<1>5. CASE GotRecovery(c) \/ Dial(c) \/ Secure(c) \/ Use(c) \/ MuxSend(c)
  BY <1>5 DEF GotRecovery, Dial, Secure, Use, MuxSend, Got, hist
<1>6. CASE MuxReadLength(c) \/ MuxDeadline(c) \/ GotRecord(c) \/ GotBUID(c) \/ GotSaved(c)
  BY <1>6 DEF MuxReadLength, MuxDeadline, GotRecord, GotBUID, GotSaved, MuxGot, hist
<1>7. QED
  BY <1>1, <1>2, <1>3, <1>4, <1>5, <1>6 DEF Step

LEMMA CalmInit == Init => Calm
<1> SUFFICES ASSUME Init PROVE Calm
  OBVIOUS
<1>1. conns = <<>> /\ objs = <<>> /\ call = [c \in Callers |-> Idle] /\ mux = NoStream
  BY DEF Init
<1>2. Len(<<>>) = 0 /\ \A i \in 1..0 : FALSE
  OBVIOUS
<1>3. \A c \in Callers : call[c] = Idle
  BY <1>1
<1>4. Idle.pc = "idle" /\ ~Idle.inner
  BY DEF Idle
<1>5. RealRecords
  <2>1. mux.answers = <<>>
    BY <1>1 DEF NoStream
  <2>2. QED
    BY <1>2, <2>1 DEF RealRecords
<1>6. Alone
  BY <1>3, <1>4 DEF Alone
<1>7. Silent /\ Agreeing /\ Apart /\ Bare
  BY <1>1, <1>2 DEF Silent, Agreeing, Apart, Bare
<1>8. Exchanging
  BY <1>3, <1>4, PcSets DEF Exchanging, Asking
<1>9. OwnCache
  <2>1. ASSUME NEW d \in Devs, NEW op \in Kept \cup Reopened
        PROVE  device[d].cache[Field(op)] = <<>>
    BY FieldType DEF Init
  <2>2. QED
    BY <2>1 DEF OwnCache
<1>10. Causes
  BY DEF Init, Causes, Going
<1>11. \A c \in Callers : OwnObj(call[c]) /\ OwnGot(call[c])
  BY <1>3, <1>4, PcSets DEF OwnObj, OwnGot
<1>12. QED
  BY <1>5, <1>6, <1>7, <1>8, <1>9, <1>10, <1>11 DEF Calm, InOrder, Lines

LEMMA OrderActions ==
    ASSUME TypeInv, RealRecords, InOrder, NEW c \in Callers, Step(c) PROVE InOrder'
<1>1. Going
  BY DEF Step, Going
<1>2. CASE Connect(c) \/ NewLockdown(c) \/ KnownVersion(c) \/ SendPacket(c) \/ NilRecord(c)
  BY <1>1, <1>2, ConnectOrder, NewLockdownOrder, KnownVersionOrder, SendPacketOrder, NilRecordOrder
<1>3. CASE ReadLength(c) \/ ReadError(c) \/ GotVersion(c) \/ GotType(c) \/ GotPublicKey(c)
  BY <1>1, <1>3, ReadLengthOrder, ReadErrorOrder, GotVersionOrder, GotTypeOrder, GotPublicKeyOrder
<1>4. CASE GotWifi(c) \/ GotPair(c) \/ BeginSession(c) \/ GotSession(c) \/ EnableSSL(c)
  BY <1>1, <1>4, GotWifiOrder, GotPairOrder, BeginSessionOrder, GotSessionOrder, EnableSSLOrder
<1>5. CASE NilVersion(c) \/ GotService(c) \/ GotValue(c) \/ EndSession(c) \/ Stopped(c)
  BY <1>1, <1>5, NilVersionOrder, GotServiceOrder, GotValueOrder, EndSessionOrder, StoppedOrder
<1>6. CASE GotRecovery(c) \/ Dial(c) \/ Secure(c) \/ Use(c) \/ MuxSend(c)
  BY <1>1, <1>6, GotRecoveryOrder, DialOrder, SecureOrder, UseOrder, MuxSendOrder
<1>7. CASE MuxReadLength(c) \/ MuxDeadline(c) \/ GotRecord(c) \/ GotBUID(c) \/ GotSaved(c)
  BY <1>1, <1>7, MuxReadLengthOrder, MuxDeadlineOrder, GotRecordOrder, GotBUIDOrder, GotSavedOrder
<1>8. QED
  BY <1>2, <1>3, <1>4, <1>5, <1>6, <1>7 DEF Step

LEMMA CalmStill == Calm /\ UNCHANGED vars => Calm'
<1> SUFFICES ASSUME Calm, UNCHANGED vars PROVE Calm'
  OBVIOUS
<1>1. UNCHANGED <<mux, conns, objs, call, device, services, panic, overlapped>>
  BY DEF vars, host, world, hist
<1>2. RealRecords'
  BY <1>1, RecordsKept DEF Calm
<1>3. ASSUME InOrder PROVE InOrder'
  <2>1. Lines' /\ OwnCache' /\ Causes'
    BY <1>1, <1>3, LinesStill, CacheSame DEF InOrder, Causes, Going
  <2>2. ASSUME NEW b \in Callers PROVE OwnObj(call[b])' /\ OwnGot(call[b])'
    <3>1. PICK k : k = call[b] /\ k = call'[b] /\ OwnObj(k) /\ OwnGot(k)
      BY <1>1, <1>3 DEF InOrder
    <3>2. OwnObj(k)'
      BY <1>1, <3>1 DEF OwnObj
    <3>3. OwnGot(k)'
      BY <1>1, <3>1 DEF OwnGot, Leading
    <3>4. QED
      BY <3>1, <3>2, <3>3
  <2>3. QED
    BY <2>1, <2>2 DEF InOrder
<1>4. QED
  BY <1>1, <1>2, <1>3 DEF Calm

LEMMA CalmStep == TypeInv /\ Calm /\ [Next]_vars => Calm'
<1> SUFFICES ASSUME TypeInv, Calm, [Next]_vars PROVE Calm'
  OBVIOUS
<1>1. CASE UNCHANGED vars
  BY <1>1, CalmStill
<1>2. ASSUME NEW c \in Callers, Begin(c), Going PROVE Calm'
  <2>1. RealRecords'
    BY <1>2, RecordsStep DEF Calm
  <2>2. ASSUME ~overlapped' PROVE InOrder'
    <3>1. ~overlapped
      BY <1>2, <2>2 DEF Begin
    <3>2. QED
      BY <1>2, <2>2, <3>1, BeginOrder DEF Calm
  <2>3. QED
    BY <2>1, <2>2 DEF Calm
<1>3. ASSUME NEW c \in Callers, Step(c) PROVE Calm'
  <2>1. RealRecords'
    BY <1>3, RecordsStep DEF Calm
  <2>2. QED
    BY <1>3, <2>1, OverlapStep, OrderActions DEF Calm
<1>4. QED
  BY <1>1, <1>2, <1>3 DEF Next, Going

LEMMA CalmHolds == Spec => [](TypeInv /\ Calm)
  BY TypeInit, TypeStep, CalmInit, CalmStep, PTL DEF Spec
\* Without calls that overlap nothing panics but the version that MisagentService goes on
\* without: no answer has the wrong type, no record and no service is missing.
THEOREM PanicHasCauseHolds == Spec => []PanicHasCause
<1>1. Calm => PanicHasCause
  BY DEF Calm, InOrder, Causes, Going, PanicHasCause
<1>2. QED
  BY <1>1, CalmHolds, PTL

\* Whatever is refused, lost or ended, an object and its connection agree on the session
\* as soon as its call is done with it, if a request can be read there at all.
THEOREM SessionsAgreeHolds == Spec => []SessionsAgree
<1>1. TypeInv /\ Calm => SessionsAgree
  <2> SUFFICES ASSUME TypeInv, Calm, ~overlapped, NEW o \in DOMAIN objs
               PROVE  LET cn == conns[objs[o].client]
                      IN \/ \E c \in Callers : InExchange(c, o)
                         \/ objs[o].session = cn.session
                         \/ ~Writable(cn) \/ ~Readable(cn)
    BY DEF SessionsAgree
  <2>1. o \in 1..Len(objs) /\ Agreeing
    <3>1. DOMAIN objs = 1..Len(objs)
      BY DEF TypeInv, Types
    <3>2. QED
      BY <3>1 DEF Calm, InOrder, Lines
  <2>2. CASE \A c \in Callers : Opening(c) => call[c].obj # o
    BY <2>1, <2>2 DEF Agreeing, Agrees
  <2>3. ASSUME NEW c \in Callers, Opening(c), call[c].obj = o PROVE InExchange(c, o)
    BY <2>3 DEF Opening, Asking, InExchange, Pc
  <2>4. QED
    BY <2>2, <2>3
<1>2. QED
  BY <1>1, CalmHolds, PTL

\* The services a device keeps are its own, all of them and each under its own name.
THEOREM OwnServiceHolds == Spec => []OwnService
<1>1. TypeInv /\ Calm => OwnService
  <2> SUFFICES ASSUME TypeInv, Calm, ~overlapped, NEW d \in Devs, NEW op \in Kept \cup Reopened,
                      NEW got, got = device[d].cache[Field(op)], got # <<>>
               PROVE  [i \in DOMAIN got |-> services[got[i]]]
                         = [i \in DOMAIN Leads(op) |-> [dev |-> d, svc |-> Leads(op)[i]]]
    BY DEF OwnService
  <2>1. Leading(got, d, op) /\ Len(got) = Len(Leads(op))
    BY DEF Calm, InOrder, OwnCache
  <2>2. DOMAIN got = 1..Len(got)
    <3>1. Field(op) \in Kept \cup Reopened /\ device[d] \in DeviceRec
      BY FieldType, Lengths DEF TypeInv
    <3>2. got \in Seq(Nat)
      BY <3>1 DEF DeviceRec
    <3>3. QED
      BY <3>2
  <2>3. DOMAIN Leads(op) = 1..Len(Leads(op))
    <3>1. \A a, b : Leads(op) = <<a, b>> => DOMAIN Leads(op) = 1..Len(Leads(op))
      OBVIOUS
    <3>2. \A a : Leads(op) = <<a>> => DOMAIN Leads(op) = 1..Len(Leads(op))
      OBVIOUS
    <3>3. Leads(op) = <<op, "crashReportCopy">> \/ Leads(op) = <<Field(op)>>
      BY DEF Leads
    <3>4. QED
      BY <3>1, <3>2, <3>3
  <2>4. \A i \in DOMAIN got : services[got[i]] = [dev |-> d, svc |-> Leads(op)[i]]
    BY <2>1, <2>2 DEF Leading
  <2>5. DOMAIN got = DOMAIN Leads(op)
    BY <2>1, <2>2, <2>3
  <2>6. QED
    BY <2>4, <2>5
<1>2. QED
  BY <1>1, CalmHolds, PTL

\* Only StartSession begins a session.
LEMMA SessionsOnly ==
    ASSUME TypeInv, NEW c \in Callers, Begin(c) \/ Step(c), ~SendPacket(c), NEW i \in 1..Len(conns)
    PROVE  conns'[i].sessions = conns[i].sessions
<1>1. conns \in Seq(ConnRec) /\ conns[i] \in ConnRec
  BY Lengths DEF TypeInv, Types
<1>2. CASE UNCHANGED conns
  BY <1>2
<1>3. ASSUME NEW n, NEW q, conns' = [conns EXCEPT ![n].stream = q]
      PROVE  conns'[i].sessions = conns[i].sessions
  BY <1>1, <1>3 DEF ConnRec
<1>4. CASE Local(c) \/ MuxTaken(c)
  BY <1>2, <1>4, LocalSame, MuxTakenTakes
<1>5. CASE Taken(c)
  <2>1. conns' = [conns EXCEPT ![ConnOf(c)].stream = TakeBody(@)]
    BY <1>5, TakenTakes DEF Takes
  <2>2. QED
    BY <1>3, <2>1
<1>6. CASE ReadLength(c)
  BY <1>3, <1>6 DEF ReadLength
<1>7. CASE MuxSend(c) \/ MuxReadLength(c) \/ MuxDeadline(c)
  BY <1>2, <1>7 DEF MuxSend, MuxReadLength, MuxDeadline
<1>8. CASE Connect(c)
  <2>1. UNCHANGED conns \/ \E cn : conns' = Append(conns, cn)
    BY <1>8 DEF Connect
  <2>2. ASSUME NEW cn, conns' = Append(conns, cn) PROVE conns'[i] = conns[i]
    BY <1>1, <2>2, Appended
  <2>3. QED
    BY <2>1, <2>2
<1>9. CASE EnableSSL(c)
  <2>1. PICK n : n = ConnOf(c)
    OBVIOUS
  <2>2. \/ UNCHANGED conns
        \/ conns' = [conns EXCEPT ![n].tls = "on", ![n].devTls = "on"]
        \/ conns' = [conns EXCEPT ![n] = [conns[n] EXCEPT !.tls = "failed", !.stream.ended = TRUE]]
    BY <1>9, <2>1 DEF EnableSSL
  <2>3. ASSUME NEW cn2, conns' = [conns EXCEPT ![n] = cn2], n = i => cn2.sessions = conns[n].sessions
        PROVE  conns'[i].sessions = conns[i].sessions
    BY <1>1, <2>3
  <2>4. CASE conns' = [conns EXCEPT ![n].tls = "on", ![n].devTls = "on"]
    <3>1. PICK cn2 : cn2 = [conns[n] EXCEPT !.tls = "on", !.devTls = "on"]
      OBVIOUS
    <3>2. n = i => cn2.sessions = conns[n].sessions
      BY <1>1, <3>1 DEF ConnRec
    <3>3. conns' = [conns EXCEPT ![n] = cn2]
      BY <1>1, <2>4, <3>1
    <3>4. QED
      BY <2>3, <3>2, <3>3
  <2>5. CASE conns' = [conns EXCEPT ![n] = [conns[n] EXCEPT !.tls = "failed", !.stream.ended = TRUE]]
    <3>1. PICK cn2 : cn2 = [conns[n] EXCEPT !.tls = "failed", !.stream.ended = TRUE]
      OBVIOUS
    <3>2. n = i => cn2.sessions = conns[n].sessions
      BY <1>1, <3>1 DEF ConnRec
    <3>3. QED
      BY <2>3, <2>5, <3>1, <3>2
  <2>6. QED
    BY <1>2, <2>2, <2>4, <2>5
<1>10. QED
  BY <1>4, <1>5, <1>6, <1>7, <1>8, <1>9 DEF Step, Local, Taken, MuxTaken

LEMMA StartsAlone ==
    ASSUME TypeInv, InOrder, NEW c \in Callers, SendPacket(c), NEW i \in 1..Len(conns),
           conns'[i].sessions > conns[i].sessions
    PROVE  conns[i].session = 0
<1>1. Pc(c) \in LockPcs /\ call[c].pc \in LockPcs /\ call[c].phase = "send"
  BY Kinds DEF SendPacket, Pc
<1>2. PICK n \in 1..Len(conns), cn \in ConnRec, o \in 1..Len(objs) :
        /\ n = ConnOf(c) /\ cn = conns[n] /\ ConnOK(cn) /\ o = MyLock(c)
        /\ Agrees(objs[o].session, cn)
  BY <1>1, BeforeAsking
<1>3. conns \in Seq(ConnRec) /\ cn.sessions \in Nat
  BY DEF TypeInv, Types, ConnRec
<1>4. \/ UNCHANGED conns
      \/ conns' = [conns EXCEPT ![n] = Ended(cn)]
      \/ conns' = [conns EXCEPT ![n] = Refuse(cn, LockKind[Pc(c)])]
      \/ Writable(cn) /\ Readable(cn)
           /\ \E cn2 \in Served(cn, c) : conns' = [conns EXCEPT ![n] = cn2]
  BY <1>2 DEF SendPacket
<1>5. PICK cn2 : conns' = [conns EXCEPT ![n] = cn2] /\ (cn2 = cn \/ cn2 = Ended(cn)
                     \/ cn2 = Refuse(cn, LockKind[Pc(c)])
                     \/ (Writable(cn) /\ Readable(cn) /\ cn2 \in Served(cn, c)))
  <2>1. UNCHANGED conns => conns' = [conns EXCEPT ![n] = cn]
    BY <1>2, <1>3
  <2>2. QED
    BY <1>4, <2>1
<1>6. i = n /\ conns'[n] = cn2
  <2>1. \A j \in 1..Len(conns) : conns'[j] = IF j = n THEN cn2 ELSE conns[j]
    BY <1>3, <1>5
  <2>2. i # n => conns'[i].sessions = conns[i].sessions
    BY <2>1
  <2>3. conns[i].sessions \in Nat
    BY Lengths DEF TypeInv, ConnRec
  <2>4. QED
    BY <2>1, <2>2, <2>3
<1>7. cn2.sessions > cn.sessions
  BY <1>2, <1>6
<1>8. CASE cn2 = cn
  BY <1>3, <1>7, <1>8
<1>9. CASE cn2 = Ended(cn)
  <2>1. cn2.sessions = cn.sessions
    BY <1>2, <1>9, EndedType
  <2>2. QED
    BY <1>3, <1>7, <2>1
<1>10. ASSUME NEW base \in ConnRec, NEW a \in AnswerRec, Reply(c, cn, base, a), cn2 = Put(base, a)
       PROVE  a.to = "StartSession"
  <2>1. base.stream = cn.stream /\ base.sessions >= cn.sessions
        /\ base.session <= base.sessions /\ a.num <= base.sessions
    BY <1>10, ReplyParts
  <2>2. cn2.sessions = base.sessions
    BY <1>2, <1>10, <2>1, PutType
  <2>3. base.sessions = cn.sessions \/ a.to = "StartSession"
    BY <1>10 DEF Reply
  <2>4. base.sessions # cn.sessions
    BY <1>3, <1>7, <2>2
  <2>5. QED
    BY <2>3, <2>4
<1>11. CASE cn2 = Refuse(cn, LockKind[Pc(c)])
  <2>1. PICK a : a = [Answer(LockKind[Pc(c)]) EXCEPT !.err = "error"]
    OBVIOUS
  <2>2. Reply(c, cn, cn, a) /\ cn2 = Put(cn, a)
    BY <1>1, <1>2, <1>11, <2>1, RefuseReply
  <2>3. a \in AnswerRec
    BY <2>2, ReplyParts
  <2>4. cn.stream = cn.stream /\ cn.sessions >= cn.sessions
        /\ cn.session <= cn.sessions /\ a.num <= cn.sessions
    BY <1>3, <2>2, ReplyParts
  <2>5. cn2.sessions = cn.sessions
    BY <1>2, <2>2, <2>3, <2>4, PutType
  <2>6. QED
    BY <1>3, <1>7, <2>5
<1>12. CASE Writable(cn) /\ Readable(cn) /\ cn2 \in Served(cn, c)
  <2>1. PICK base \in ConnRec, a \in AnswerRec : Reply(c, cn, base, a) /\ cn2 = Put(base, a)
    BY <1>1, <1>2, <1>12, ServedReply
  <2>2. a.to = "StartSession" /\ a.to = LockKind[Pc(c)]
    BY <1>10, <2>1, ReplyParts
  <2>3. call[c].pc = "start"
    BY <1>1, <2>2, KindCases DEF Pc
  <2>4. call[c].obj = o
    BY <1>1, <1>2, <2>3, PcSets, Here
  <2>5. objs[o].session = 0
    BY <2>3, <2>4 DEF InOrder, OwnObj
  <2>6. QED
    BY <1>2, <1>6, <1>12, <2>5 DEF Agrees
<1>13. QED
  BY <1>5, <1>8, <1>9, <1>11, <1>12

\* No session is begun on a connection on which the device has one running.
THEOREM StopsRunningFirstHolds == Spec => StopsRunningFirst
<1> DEFINE A == overlapped \/ \A i \in DOMAIN conns :
                    conns'[i].sessions > conns[i].sessions => conns[i].session = 0
<1>1. TypeInv /\ Calm /\ [Next]_vars => [A]_vars
  <2> SUFFICES ASSUME TypeInv, Calm, Next, ~overlapped, NEW i \in 1..Len(conns),
                      conns'[i].sessions > conns[i].sessions
               PROVE  conns[i].session = 0
    <3>1. DOMAIN conns = 1..Len(conns)
      BY DEF TypeInv, Types
    <3>2. QED
      BY <3>1
  <2>1. PICK c \in Callers : Begin(c) \/ Step(c)
    BY DEF Next
  <2>2. CASE SendPacket(c)
    BY <2>2, StartsAlone DEF Calm
  <2>3. CASE ~SendPacket(c)
    <3>1. conns'[i].sessions = conns[i].sessions /\ conns[i].sessions \in Nat
      BY <2>1, <2>3, SessionsOnly, Lengths DEF TypeInv, ConnRec
    <3>2. QED
      BY <3>1
  <2>4. QED
    BY <2>2, <2>3
<1>2. QED
  BY <1>1, CalmHolds, PTL DEF Spec, StopsRunningFirst
-----------------------------------------------------------------------------
\* While no answer is late: usbmuxd's stream holds the answer to the request that is out,
\* and what it says of its record is so.
MuxAsking(c) == call[c].pc \in MuxPcs /\ call[c].phase # "send"
MuxFits(k, a) ==
    k.pc = "readRecord" =>
        /\ a.err = "bad device" => saved[k.dev] = NoRecord
        /\ Fine(a) => a.to = "ReadPairRecord" /\ a.rec = saved[k.dev]
MuxExchange(c, k) ==
    /\ ~mux.mixed /\ mux.reader = IF k.phase = "length" THEN NoCaller ELSE c
    /\ \E a \in AnswerRec : mux.answers = <<a>> /\ MuxFits(k, a)
MuxOrder == /\ (\A c \in Callers : ~MuxAsking(c)) => Quiet(mux)
            /\ \A c \in Callers : MuxAsking(c) => MuxExchange(c, call[c])

\* A device's connections lead to it, and records are of the device they are kept for.
Of(r, d) == r = NoRecord \/ r.of = d
Belong ==
    /\ \A d \in Devs : device[d].client # 0 => conns[device[d].client].dev = d
    /\ \A d \in Devs : device[d].lock # 0 => conns[objs[device[d].lock].client].dev = d
OwnRecords ==
    /\ \A d \in Devs : Of(saved[d], d)
    /\ \A o \in 1..Len(objs) : Of(objs[o].record, conns[objs[o].client].dev)

\* A call's record, and when it pairs.
Recorded == {"pairDevice", "saveRecord", "stopRunning", "start"}
Pairing == {"buid", "publicKey", "wifi", "pairDevice"}
OwnRec(k) ==
    /\ k.pc \in Recorded => k.rec.of = k.dev
    /\ k.pc \in Pairing /\ k.op # "pair" => saved[k.dev] = NoRecord
InTime == MuxOrder /\ OwnRecords /\ \A c \in Callers : OwnRec(call[c])
Timely == Belong /\ (late \/ overlapped \/ InTime)
-----------------------------------------------------------------------------
\* What the steps leave.
\* A step is of a call that is under way.
LEMMA StepBusy == ASSUME NEW c \in Callers, Step(c) PROVE call[c].pc # "idle"
<1>1. "idle" \notin LockPcs /\ "idle" \notin MuxPcs /\ DOMAIN LockKind = LockPcs
  BY Kinds, PcSets DEF MuxPcs
<1>2. CASE Taken(c) \/ MuxTaken(c)
  BY <1>1, <1>2, TakenTakes, MuxTakenTakes DEF Takes, MuxTakes
<1>3. CASE Connect(c) \/ NewLockdown(c) \/ KnownVersion(c) \/ NilRecord(c) \/ BeginSession(c)
  BY <1>3 DEF Connect, NewLockdown, KnownVersion, NilRecord, BeginSession, Pc
<1>4. CASE SendPacket(c) \/ ReadLength(c) \/ ReadError(c)
  BY <1>1, <1>4 DEF SendPacket, ReadLength, ReadError, Pc
<1>5. CASE MuxSend(c) \/ MuxReadLength(c) \/ MuxDeadline(c)
  BY <1>1, <1>5 DEF MuxSend, MuxReadLength, MuxDeadline, Pc
<1>6. CASE EnableSSL(c) \/ NilVersion(c) \/ EndSession(c) \/ Dial(c) \/ Secure(c) \/ Use(c)
  BY <1>6 DEF EnableSSL, NilVersion, EndSession, Dial, Secure, Use, Pc
<1>7. QED
  BY <1>2, <1>3, <1>4, <1>5, <1>6 DEF Step, Taken, MuxTaken

LEMMA LateStep ==
    ASSUME NEW c \in Callers, Begin(c) \/ Step(c) PROVE MuxDeadline(c) \/ late' = late
<1>1. CASE Connect(c) \/ NewLockdown(c) \/ KnownVersion(c) \/ SendPacket(c) \/ NilRecord(c)
  BY <1>1 DEF Connect, NewLockdown, KnownVersion, SendPacket, NilRecord, hist
<1>2. CASE ReadLength(c) \/ ReadError(c) \/ GotVersion(c) \/ GotType(c) \/ GotPublicKey(c)
  BY <1>2 DEF ReadLength, ReadError, GotVersion, GotType, GotPublicKey, Got, hist
<1>3. CASE GotWifi(c) \/ GotPair(c) \/ BeginSession(c) \/ GotSession(c) \/ EnableSSL(c)
  BY <1>3 DEF GotWifi, GotPair, BeginSession, GotSession, EnableSSL, Got, hist
<1>4. CASE NilVersion(c) \/ GotService(c) \/ GotValue(c) \/ EndSession(c) \/ Stopped(c)
  BY <1>4 DEF NilVersion, GotService, GotValue, EndSession, Stopped, Got, hist
<1>5. CASE GotRecovery(c) \/ Dial(c) \/ Secure(c) \/ Use(c) \/ MuxSend(c)
  BY <1>5 DEF GotRecovery, Dial, Secure, Use, MuxSend, Got, hist
<1>6. CASE MuxReadLength(c) \/ GotRecord(c) \/ GotBUID(c) \/ GotSaved(c) \/ Begin(c)
  BY <1>6 DEF MuxReadLength, GotRecord, GotBUID, GotSaved, MuxGot, hist, Begin
<1>7. QED
  BY <1>1, <1>2, <1>3, <1>4, <1>5, <1>6 DEF Step

LEMMA SavedStep ==
    ASSUME NEW c \in Callers, Begin(c) \/ Step(c) PROVE MuxSend(c) \/ saved' = saved
<1>1. CASE Connect(c) \/ NewLockdown(c) \/ KnownVersion(c) \/ SendPacket(c) \/ NilRecord(c)
  BY <1>1 DEF Connect, NewLockdown, KnownVersion, SendPacket, NilRecord, world
<1>2. CASE ReadLength(c) \/ ReadError(c) \/ GotVersion(c) \/ GotType(c) \/ GotPublicKey(c)
  BY <1>2 DEF ReadLength, ReadError, GotVersion, GotType, GotPublicKey, Got, world
<1>3. CASE GotWifi(c) \/ GotPair(c) \/ BeginSession(c) \/ GotSession(c) \/ EnableSSL(c)
  BY <1>3 DEF GotWifi, GotPair, BeginSession, GotSession, EnableSSL, Got, world
<1>4. CASE NilVersion(c) \/ GotService(c) \/ GotValue(c) \/ EndSession(c) \/ Stopped(c)
  BY <1>4 DEF NilVersion, GotService, GotValue, EndSession, Stopped, Got, world
<1>5. CASE GotRecovery(c) \/ Dial(c) \/ Secure(c) \/ Use(c) \/ MuxDeadline(c)
  BY <1>5 DEF GotRecovery, Dial, Secure, Use, MuxDeadline, Got, world
<1>6. CASE MuxReadLength(c) \/ GotRecord(c) \/ GotBUID(c) \/ GotSaved(c) \/ Begin(c)
  BY <1>6 DEF MuxReadLength, GotRecord, GotBUID, GotSaved, MuxGot, world, Begin
<1>7. QED
  BY <1>1, <1>2, <1>3, <1>4, <1>5, <1>6 DEF Step

\* The client and the lockdown object of a device.
LEMMA DeviceStep ==
    ASSUME TypeInv, NEW c \in Callers, Begin(c) \/ Step(c)
    PROVE  \/ Connect(c) /\ ~UNCHANGED conns
           \/ NewLockdown(c)
           \/ \A d \in Devs : device'[d].client = device[d].client /\ device'[d].lock = device[d].lock
<1> DEFINE Same == \A d \in Devs : device'[d].client = device[d].client /\ device'[d].lock = device[d].lock
<1>1. CASE UNCHANGED device
  BY <1>1
<1>2. ASSUME Fail(c), call[c].pc # "idle" PROVE Same
  BY <1>2, FailDevices
<1>3. ASSUME NEW d, NEW f, NEW v, device' = [device EXCEPT ![d].cache[f] = v] PROVE Same
  <2>1. \A e \in Devs : device[e] \in DeviceRec
    BY Lengths DEF TypeInv
  <2>2. device \in [Devs -> DeviceRec]
    BY DEF TypeInv, Types
  <2>3. QED
    BY <1>3, <2>1, <2>2 DEF DeviceRec
<1>4. UNCHANGED device \/ Fail(c) \/ (\E d, f, v : device' = [device EXCEPT ![d].cache[f] = v])
      \/ (Connect(c) /\ ~UNCHANGED conns) \/ NewLockdown(c)
  <2>1. CASE Begin(c) \/ KnownVersion(c) \/ SendPacket(c) \/ NilRecord(c)
    BY <2>1 DEF Begin, KnownVersion, SendPacket, NilRecord, Panic
  <2>2. CASE ReadLength(c) \/ ReadError(c) \/ GotVersion(c) \/ GotType(c)
    BY <2>2 DEF ReadLength, ReadError, GotVersion, GotType, Go, Done, Panic
  <2>3. CASE GotPublicKey(c) \/ GotWifi(c) \/ GotPair(c) \/ BeginSession(c) \/ GotSession(c)
    BY <2>3 DEF GotPublicKey, GotWifi, GotPair, BeginSession, GotSession, Go, Done, Panic
  <2>4. CASE EnableSSL(c) \/ NilVersion(c) \/ GotService(c) \/ GotValue(c) \/ EndSession(c)
    BY <2>4 DEF EnableSSL, NilVersion, GotService, GotValue, EndSession, Go, Panic
  <2>5. CASE Stopped(c) \/ GotRecovery(c) \/ Use(c)
    BY <2>5 DEF Stopped, GotRecovery, Use, Done, Panic
  <2>5a. CASE Dial(c)
    BY <2>5a DEF Dial
  <2>5b. CASE Secure(c)
    <3>1. PICK d, f, v : /\ d = call[c].dev /\ f = Field(call[c].op) /\ v = call[c].got
      OBVIOUS
    <3>2. UNCHANGED device \/ Fail(c) \/ device' = [device EXCEPT ![d].cache[f] = v]
      BY <2>5b, <3>1 DEF Secure, Done
    <3>3. QED
      BY <3>2
  <2>6. CASE MuxSend(c) \/ MuxReadLength(c) \/ MuxDeadline(c)
    BY <2>6 DEF MuxSend, MuxReadLength, MuxDeadline
  <2>7. CASE GotRecord(c) \/ GotBUID(c) \/ GotSaved(c)
    BY <2>7 DEF GotRecord, GotBUID, GotSaved, Go, Done
  <2>8. CASE Connect(c)
    <3>1. conns \in Seq(ConnRec)
      BY DEF TypeInv, Types
    <3>2. \A cn : Append(conns, cn) # conns
      BY <3>1
    <3>3. QED
      BY <2>8, <3>2 DEF Connect
  <2>9. QED
    BY <2>1, <2>2, <2>3, <2>4, <2>5, <2>5a, <2>5b, <2>6, <2>7, <2>8 DEF Step
<1>5. call[c].pc = "idle" => UNCHANGED device
  BY StepBusy DEF Begin
<1>6. QED
  BY <1>1, <1>2, <1>3, <1>4, <1>5

\* A connection leads to the device it was made for.
LEMMA ConnDev ==
    ASSUME TypeInv, NEW n, NEW cn2, conns' = [conns EXCEPT ![n] = cn2],
           n \in 1..Len(conns) => cn2.dev = conns[n].dev, NEW i \in 1..Len(conns)
    PROVE  i \in 1..Len(conns') /\ conns'[i].dev = conns[i].dev
<1>1. conns \in Seq(ConnRec)
  BY DEF TypeInv, Types
<1>2. Len(conns') = Len(conns) /\ conns'[i] = IF i = n THEN cn2 ELSE conns[i]
  BY <1>1
<1>3. QED
  BY <1>2

LEMMA ConnDevs ==
    ASSUME TypeInv, NEW c \in Callers, Begin(c) \/ Step(c), NEW i \in 1..Len(conns)
    PROVE  i \in 1..Len(conns') /\ conns'[i].dev = conns[i].dev
<1>1. conns \in Seq(ConnRec) /\ \A j \in 1..Len(conns) : conns[j] \in ConnRec
  BY Lengths DEF TypeInv, Types
<1>2. CASE UNCHANGED conns
  BY <1>2
<1>3. ASSUME NEW n, NEW q, conns' = [conns EXCEPT ![n].stream = q]
      PROVE  i \in 1..Len(conns') /\ conns'[i].dev = conns[i].dev
  <2>1. PICK cn2 : cn2 = [conns[n] EXCEPT !.stream = q]
    OBVIOUS
  <2>2. conns' = [conns EXCEPT ![n] = cn2]
    BY <1>3, <2>1
  <2>3. n \in 1..Len(conns) => cn2.dev = conns[n].dev
    BY <1>1, <2>1 DEF ConnRec
  <2>4. QED
    BY <2>2, <2>3, ConnDev
<1>4. CASE Local(c) \/ MuxTaken(c)
  BY <1>2, <1>4, LocalSame, MuxTakenTakes
<1>5. CASE Taken(c)
  <2>1. conns' = [conns EXCEPT ![ConnOf(c)].stream = TakeBody(@)]
    BY <1>5, TakenTakes DEF Takes
  <2>2. QED
    BY <1>3, <2>1
<1>6. CASE ReadLength(c)
  BY <1>3, <1>6 DEF ReadLength
<1>7. CASE MuxSend(c) \/ MuxReadLength(c) \/ MuxDeadline(c)
  BY <1>2, <1>7 DEF MuxSend, MuxReadLength, MuxDeadline
<1>8. CASE Connect(c)
  <2>1. UNCHANGED conns \/ \E cn : conns' = Append(conns, cn)
    BY <1>8 DEF Connect
  <2>2. ASSUME NEW cn, conns' = Append(conns, cn)
        PROVE  i \in 1..Len(conns') /\ conns'[i].dev = conns[i].dev
    <3>1. Len(conns) \in Nat /\ Len(conns') = Len(conns) + 1 /\ conns'[i] = conns[i]
      BY <1>1, <2>2, Appended
    <3>2. QED
      BY <3>1
  <2>3. QED
    BY <1>2, <2>1, <2>2
<1>9. CASE EnableSSL(c)
  <2>1. PICK n : n = ConnOf(c)
    OBVIOUS
  <2>2. \/ UNCHANGED conns
        \/ conns' = [conns EXCEPT ![n].tls = "on", ![n].devTls = "on"]
        \/ conns' = [conns EXCEPT ![n] = [conns[n] EXCEPT !.tls = "failed", !.stream.ended = TRUE]]
    BY <1>9, <2>1 DEF EnableSSL
  <2>3. CASE conns' = [conns EXCEPT ![n].tls = "on", ![n].devTls = "on"]
    <3>1. PICK cn2 : cn2 = [conns[n] EXCEPT !.tls = "on", !.devTls = "on"]
      OBVIOUS
    <3>2. n \in 1..Len(conns) => cn2.dev = conns[n].dev
      BY <1>1, <3>1 DEF ConnRec
    <3>3. conns' = [conns EXCEPT ![n] = cn2]
      BY <1>1, <2>3, <3>1
    <3>4. QED
      BY <3>2, <3>3, ConnDev
  <2>4. CASE conns' = [conns EXCEPT ![n] = [conns[n] EXCEPT !.tls = "failed", !.stream.ended = TRUE]]
    <3>1. PICK cn2 : cn2 = [conns[n] EXCEPT !.tls = "failed", !.stream.ended = TRUE]
      OBVIOUS
    <3>2. n \in 1..Len(conns) => cn2.dev = conns[n].dev
      BY <1>1, <3>1 DEF ConnRec
    <3>3. QED
      BY <2>4, <3>1, <3>2, ConnDev
  <2>5. QED
    BY <1>2, <2>2, <2>3, <2>4
<1>10. CASE SendPacket(c)
  <2>1. Pc(c) \in LockPcs /\ call[c].pc \in Locked
    BY <1>10, Kinds, PcSets DEF SendPacket, Pc
  <2>2. PICK n \in 1..Len(conns), cn \in ConnRec : n = ConnOf(c) /\ cn = conns[n] /\ ConnOK(cn)
    BY <2>1, ConnNow
  <2>3. \/ UNCHANGED conns
        \/ conns' = [conns EXCEPT ![n] = Ended(cn)]
        \/ conns' = [conns EXCEPT ![n] = Refuse(cn, LockKind[Pc(c)])]
        \/ \E cn2 \in Served(cn, c) : conns' = [conns EXCEPT ![n] = cn2]
    BY <1>10, <2>2 DEF SendPacket
  <2>4. CASE conns' = [conns EXCEPT ![n] = Ended(cn)]
    <3>1. PICK cn2 : cn2 = Ended(cn)
      OBVIOUS
    <3>2. cn2.dev = conns[n].dev
      BY <2>2, <3>1, EndedType
    <3>3. QED
      BY <2>4, <3>1, <3>2, ConnDev
  <2>5. ASSUME NEW base \in ConnRec, NEW a \in AnswerRec, Reply(c, cn, base, a),
               conns' = [conns EXCEPT ![n] = Put(base, a)]
        PROVE  i \in 1..Len(conns') /\ conns'[i].dev = conns[i].dev
    <3>1. PICK cn2 : cn2 = Put(base, a)
      OBVIOUS
    <3>2. cn2.dev = base.dev
      BY <3>1 DEF Put, ConnRec
    <3>3. cn2.dev = conns[n].dev
      BY <2>2, <2>5, <3>2, ReplyParts
    <3>4. QED
      BY <2>5, <3>1, <3>3, ConnDev
  <2>6. CASE conns' = [conns EXCEPT ![n] = Refuse(cn, LockKind[Pc(c)])]
    <3>1. PICK a : a = [Answer(LockKind[Pc(c)]) EXCEPT !.err = "error"]
      OBVIOUS
    <3>2. Reply(c, cn, cn, a) /\ Refuse(cn, LockKind[Pc(c)]) = Put(cn, a)
      BY <2>1, <2>2, <3>1, RefuseReply
    <3>3. a \in AnswerRec
      BY <3>2, ReplyParts
    <3>4. QED
      BY <2>5, <2>6, <3>2, <3>3
  <2>7. ASSUME NEW cn2 \in Served(cn, c), conns' = [conns EXCEPT ![n] = cn2]
        PROVE  i \in 1..Len(conns') /\ conns'[i].dev = conns[i].dev
    <3>1. PICK base \in ConnRec, a \in AnswerRec : Reply(c, cn, base, a) /\ cn2 = Put(base, a)
      BY <2>1, <2>2, ServedReply
    <3>2. QED
      BY <2>5, <2>7, <3>1
  <2>8. QED
    BY <1>2, <2>3, <2>4, <2>6, <2>7
<1>11. QED
  BY <1>4, <1>5, <1>6, <1>7, <1>8, <1>9, <1>10 DEF Step, Local, Taken, MuxTaken

\* The record of an object, and the device its connection leads to.
LEMMA RecordStep ==
    ASSUME TypeInv, NEW c \in Callers, Begin(c) \/ Step(c), ~NewLockdown(c), ~GotPair(c),
           ~GotRecord(c)
    PROVE  Len(objs') = Len(objs) /\ \A p \in 1..Len(objs) : objs'[p].record = objs[p].record
<1> DEFINE Same == Len(objs') = Len(objs) /\ \A p \in 1..Len(objs) : objs'[p].record = objs[p].record
<1>0. objs \in Seq(ObjRec)
  BY DEF TypeInv, Types
<1>1. CASE UNCHANGED objs
  BY <1>1
<1>2. ASSUME NEW o, NEW v, \/ objs' = [objs EXCEPT ![o].version = v]
                           \/ objs' = [objs EXCEPT ![o].session = v]
      PROVE  Same
  <2>1. \A p \in 1..Len(objs) : objs[p] \in ObjRec
    BY Lengths DEF TypeInv
  <2>2. CASE objs' = [objs EXCEPT ![o].version = v]
    BY <1>0, <2>1, <2>2 DEF ObjRec
  <2>3. CASE objs' = [objs EXCEPT ![o].session = v]
    BY <1>0, <2>1, <2>3 DEF ObjRec
  <2>4. QED
    BY <1>2, <2>2, <2>3
<1>3. \/ UNCHANGED objs
      \/ \E o, v : \/ objs' = [objs EXCEPT ![o].version = v]
                   \/ objs' = [objs EXCEPT ![o].session = v]
  <2>1. CASE Begin(c) \/ Connect(c) \/ KnownVersion(c) \/ SendPacket(c)
    BY <2>1 DEF Begin, Connect, KnownVersion, SendPacket
  <2>2. CASE NilRecord(c) \/ ReadLength(c) \/ ReadError(c) \/ GotVersion(c) \/ GotType(c)
    BY <2>2 DEF NilRecord, ReadLength, ReadError, GotVersion, GotType
  <2>3. CASE GotPublicKey(c) \/ GotWifi(c) \/ BeginSession(c) \/ GotSession(c)
    BY <2>3 DEF GotPublicKey, GotWifi, BeginSession, GotSession
  <2>4. CASE EnableSSL(c) \/ NilVersion(c) \/ GotService(c) \/ GotValue(c) \/ EndSession(c)
    BY <2>4 DEF EnableSSL, NilVersion, GotService, GotValue, EndSession
  <2>5. CASE Stopped(c) \/ GotRecovery(c) \/ Dial(c) \/ Secure(c) \/ Use(c)
    BY <2>5 DEF Stopped, GotRecovery, Dial, Secure, Use
  <2>6. CASE MuxSend(c) \/ MuxReadLength(c) \/ MuxDeadline(c)
    BY <2>6 DEF MuxSend, MuxReadLength, MuxDeadline
  <2>7. CASE GotBUID(c) \/ GotSaved(c)
    BY <2>7 DEF GotBUID, GotSaved
  <2>8. QED
    BY <2>1, <2>2, <2>3, <2>4, <2>5, <2>6, <2>7 DEF Step
<1>4. QED
  BY <1>1, <1>2, <1>3

LEMMA ClientDev ==
    ASSUME TypeInv, NEW c \in Callers, Begin(c) \/ Step(c), NEW o \in 1..Len(objs)
    PROVE  /\ objs[o].client \in 1..Len(conns) /\ objs'[o].client = objs[o].client
           /\ conns'[objs'[o].client].dev = conns[objs[o].client].dev
<1>1. PICK n \in 1..Len(conns) : n = objs[o].client
  BY DEF TypeInv, Referring, Objs
<1>2. objs'[o].client = n
  BY <1>1, ClientsStep DEF ClientsKept
<1>3. conns'[n].dev = conns[n].dev
  BY ConnDevs
<1>4. QED
  BY <1>1, <1>2, <1>3

LEMMA BelongStep ==
    ASSUME TypeInv, Belong, NEW c \in Callers, Begin(c) \/ Step(c) PROVE Belong'
<1>0. /\ device \in [Devs -> DeviceRec] /\ \A d \in Devs : device[d] \in DeviceRec
      /\ conns \in Seq(ConnRec) /\ objs \in Seq(ObjRec)
      /\ Len(conns) \in Nat /\ Len(objs) \in Nat
  BY Lengths DEF TypeInv, Types
<1>1. ASSUME NEW d \in Devs, device[d].client # 0
      PROVE  device[d].client \in 1..Len(conns) /\ conns'[device[d].client].dev = d
  <2>1. device[d].client \in Nat /\ device[d].client <= Len(conns)
    BY <1>0 DEF DeviceRec, TypeInv, Referring, Devices
  <2>2. PICK n \in 1..Len(conns) : n = device[d].client
    BY <1>0, <1>1, <2>1
  <2>3. conns'[n].dev = conns[n].dev
    BY ConnDevs
  <2>4. conns[n].dev = d
    BY <1>1, <2>2 DEF Belong
  <2>5. QED
    BY <2>2, <2>3, <2>4
<1>2. ASSUME NEW d \in Devs, device[d].lock # 0
      PROVE  device[d].lock \in 1..Len(objs) /\ conns'[objs'[device[d].lock].client].dev = d
  <2>1. device[d].lock \in Nat /\ device[d].lock <= Len(objs)
    BY <1>0 DEF DeviceRec, TypeInv, Referring, Devices
  <2>2. PICK o \in 1..Len(objs) : o = device[d].lock
    BY <1>0, <1>2, <2>1
  <2>3. conns'[objs'[o].client].dev = conns[objs[o].client].dev
    BY ClientDev
  <2>4. conns[objs[o].client].dev = d
    BY <1>2, <2>2 DEF Belong
  <2>5. QED
    BY <2>2, <2>3, <2>4
<1>3. CASE \A d \in Devs : device'[d].client = device[d].client /\ device'[d].lock = device[d].lock
  BY <1>1, <1>2, <1>3 DEF Belong
<1>4. CASE Connect(c) /\ ~UNCHANGED conns
  <2>1. PICK cn : /\ cn = [stream |-> NoStream, dev |-> call[c].dev, tls |-> "off",
                           devTls |-> "off", session |-> 0, sessions |-> 0]
    OBVIOUS
  <2>2. conns' = Append(conns, cn) /\ device' = [device EXCEPT ![call[c].dev].client = Len(conns')]
    BY <1>4, <2>1 DEF Connect
  <2>3. conns'[Len(conns')].dev = call[c].dev
    BY <1>0, <2>1, <2>2, Appended
  <2>4. \A d \in Devs : /\ device'[d].client = IF d = call[c].dev THEN Len(conns') ELSE device[d].client
                        /\ device'[d].lock = device[d].lock
    BY <1>0, <2>2 DEF DeviceRec
  <2>5. QED
    BY <1>1, <1>2, <2>3, <2>4 DEF Belong
<1>5. CASE NewLockdown(c)
  <2>1. PICK r : r = [client |-> device[call[c].dev].client, version |-> FALSE,
                      record |-> NoRecord, session |-> 0]
    OBVIOUS
  <2>2. /\ objs' = Append(objs, r) /\ device' = [device EXCEPT ![call[c].dev].lock = Len(objs')]
        /\ UNCHANGED conns
    BY <1>5, <2>1 DEF NewLockdown
  <2>3. objs'[Len(objs')].client = device[call[c].dev].client
    BY <1>0, <2>1, <2>2, Appended
  <2>4. \A d \in Devs : /\ device'[d].lock = IF d = call[c].dev THEN Len(objs') ELSE device[d].lock
                        /\ device'[d].client = device[d].client
    BY <1>0, <2>2 DEF DeviceRec
  <2>5. call[c].dev \in Devs /\ device[call[c].dev].client # 0
    BY <1>5 DEF NewLockdown, Pc, TypeInv, Referring, CallOK
  <2>6. conns'[device[call[c].dev].client].dev = call[c].dev
    BY <1>1, <2>5
  <2>7. QED
    BY <1>1, <1>2, <2>3, <2>4, <2>6 DEF Belong
<1>6. QED
  BY <1>3, <1>4, <1>5, DeviceStep
-----------------------------------------------------------------------------
\* The call goes on at k, which asks usbmuxd nothing yet, with a record of its own.
Carries(c) == \E k : /\ call' = [call EXCEPT ![c] = k] /\ OwnRec(k)'
                     /\ k.pc \notin MuxPcs \/ k.phase = "send"

LEMMA CarryOn ==
    ASSUME NEW c \in Callers, NEW k, call' = [call EXCEPT ![c] = k], k.phase = "send",
           k.pc \notin Recorded \cup Pairing
    PROVE  Carries(c)
  BY DEF Carries, OwnRec

LEMMA CarrySame ==
    ASSUME NEW c \in Callers, OwnRec(call[c]), UNCHANGED saved, call[c].pc \notin MuxPcs,
           NEW k, call' = [call EXCEPT ![c] = k], k.pc = call[c].pc, k.rec = call[c].rec,
           k.dev = call[c].dev, k.op = call[c].op
    PROVE  Carries(c)
  BY DEF Carries, OwnRec

LEMMA CarryFail == ASSUME TypeInv, NEW c \in Callers, Step(c), Fail(c) PROVE Carries(c)
<1>1. PICK k \in CallRec : Failed(c, k)
  BY FailType, StepBusy
<1>2. k.pc \in {"idle", "queryType"} /\ k.phase = "send" /\ call' = [call EXCEPT ![c] = k]
  BY <1>1, IdleType DEF Failed
<1>3. k.pc \notin Recorded \cup Pairing
  BY <1>2 DEF Recorded, Pairing
<1>4. QED
  BY <1>2, <1>3, CarryOn

LEMMA CarryDone == ASSUME NEW c \in Callers, Done(c) PROVE Carries(c)
<1>1. Idle.phase = "send" /\ Idle.pc \notin Recorded \cup Pairing
  BY IdleType DEF Recorded, Pairing
<1>2. QED
  BY <1>1, CarryOn DEF Done

LEMMA CarryGo ==
    ASSUME TypeInv, NEW c \in Callers, NEW pc \in Pcs, pc \notin Recorded \cup Pairing,
           call' = [call EXCEPT ![c] = Goto(call[c], pc)]
    PROVE  Carries(c)
<1>1. PICK k : k = Goto(call[c], pc)
  OBVIOUS
<1>2. k.pc = pc /\ k.phase = "send"
  BY <1>1, GotoType, Lengths DEF TypeInv
<1>3. QED
  BY <1>1, <1>2, CarryOn

LEMMA CarryPanic ==
    ASSUME TypeInv, NEW c \in Callers, OwnRec(call[c]), UNCHANGED saved, UNCHANGED call,
           call[c].pc \notin MuxPcs
    PROVE  Carries(c)
<1>1. call' = [call EXCEPT ![c] = call[c]]
  BY DEF TypeInv, Types
<1>2. QED
  BY <1>1, CarrySame

LEMMA CarryAfter ==
    ASSUME TypeInv, NEW c \in Callers, Pc(c) = "version",
           call' = [call EXCEPT ![c] = AfterLockdown(c)]
    PROVE  Carries(c)
<1>1. PICK k : k = AfterLockdown(c)
  OBVIOUS
<1>2. /\ k.phase = "send" /\ (k.pc = "buid" => k.op = "pair")
      /\ k.pc \in {"connect", "buid", "recovery", "session", "queryType"}
  BY <1>1, AfterType
<1>3. k.pc \notin Recorded /\ (k.pc \in Pairing => k.op = "pair")
  BY <1>2 DEF Recorded, Pairing
<1>4. OwnRec(k)'
  BY <1>3 DEF OwnRec
<1>5. QED
  BY <1>1, <1>2, <1>4 DEF Carries

LEMMA PairKept ==
    ASSUME NEW l, OwnRec(l), l.pc \in Pairing, UNCHANGED saved, NEW k, k.pc \in Pairing,
           k.pc # "pairDevice", k.op = l.op, k.dev = l.dev
    PROVE  OwnRec(k)'
<1>1. k.pc \notin Recorded
  BY DEF Pairing, Recorded
<1>2. QED
  BY <1>1 DEF OwnRec

LEMMA TakenCarries ==
    ASSUME TypeInv, NEW c \in Callers, Step(c), Taken(c), OwnRec(call[c]), UNCHANGED saved
    PROVE  Carries(c)
<1>1. call[c].pc # "idle" /\ call[c].pc \in Locked /\ call[c] \in CallRec
      /\ call[c].pc \notin MuxPcs
  BY TakenTakes, PcSets, Lengths, Kinds DEF Takes, TypeInv
<1>2. CASE Fail(c) \/ Done(c) \/ (\E what : Panic(what))
  BY <1>1, <1>2, CarryFail, CarryDone, CarryPanic DEF Panic
<1>3. /\ {"readRecord", "value", "service", "end", "tls", "queryType", "dial"} \subseteq Pcs
      /\ {"readRecord", "value", "service", "end", "tls", "queryType", "dial"}
            \cap (Recorded \cup Pairing) = {}
      /\ {"wifi", "pairDevice", "saveRecord", "start"} \subseteq Pcs
  BY DEF Pcs, Locked, LockPcs, Recorded, Pairing
<1>4. ASSUME NEW pc \in {"readRecord", "value", "service", "end"}, Go(c, pc) PROVE Carries(c)
  BY <1>3, <1>4, CarryGo DEF Go
<1>5. CASE GotVersion(c)
  <2>1. Pc(c) = "version"
    BY <1>5 DEF GotVersion, Got
  <2>2. QED
    BY <1>2, <1>5, <2>1, CarryAfter DEF GotVersion
<1>6. CASE GotType(c) \/ GotValue(c) \/ GotRecovery(c)
  BY <1>2, <1>4, <1>6 DEF GotType, GotValue, GotRecovery
<1>7. CASE GotPublicKey(c)
  <2>1. CASE Go(c, "wifi")
    <3>1. PICK k : k = Goto(call[c], "wifi")
      OBVIOUS
    <3>1a. "wifi" \in Pcs
      BY <1>3
    <3>2. k.pc = "wifi" /\ k.op = call[c].op /\ k.dev = call[c].dev /\ k.phase = "send"
      BY <1>1, <3>1, <3>1a, GotoType
    <3>3. call[c].pc = "publicKey"
      BY <1>7 DEF GotPublicKey, Got, Pc
    <3>4. call[c].pc \in Pairing /\ k.pc \in Pairing /\ k.pc # "pairDevice"
      BY <3>2, <3>3 DEF Pairing
    <3>5. OwnRec(k)'
      BY <3>2, <3>4, PairKept
    <3>6. QED
      BY <2>1, <3>1, <3>2, <3>5 DEF Go, Carries
  <2>2. QED
    BY <1>2, <1>7, <2>1 DEF GotPublicKey
<1>8. CASE GotWifi(c)
  <2>1. ASSUME NEW n, paired' = [paired EXCEPT ![call[c].dev] = @ + 1],
               n = paired'[call[c].dev],
               call' = [call EXCEPT ![c] = [Goto(@, "pairDevice") EXCEPT
                                              !.rec = [of |-> call[c].dev, n |-> n]]]
        PROVE  Carries(c)
    <3>1. PICK g : g = Goto(call[c], "pairDevice")
      OBVIOUS
    <3>1a. "pairDevice" \in Pcs
      BY <1>3
    <3>2. /\ g \in CallRec /\ g.pc = "pairDevice" /\ g.op = call[c].op /\ g.dev = call[c].dev
          /\ g.phase = "send"
      BY <1>1, <3>1, <3>1a, GotoType
    <3>3. PICK r : r = [of |-> call[c].dev, n |-> n]
      OBVIOUS
    <3>4. PICK k : k = [g EXCEPT !.rec = r]
      OBVIOUS
    <3>5. k.rec = r /\ k.pc = g.pc /\ k.op = g.op /\ k.dev = g.dev /\ k.phase = g.phase
      BY <3>2, <3>4 DEF CallRec
    <3>6. call' = [call EXCEPT ![c] = k]
      BY <2>1, <3>1, <3>3, <3>4
    <3>7. k.rec.of = k.dev /\ k.phase = "send"
      BY <3>2, <3>3, <3>5
    <3>8. call[c].pc = "wifi"
      BY <1>8 DEF GotWifi, Pc
    <3>9. k.op # "pair" => saved[k.dev] = NoRecord
      BY <3>2, <3>5, <3>8 DEF OwnRec, Pairing
    <3>10. OwnRec(k)'
      BY <3>7, <3>9 DEF OwnRec
    <3>11. QED
      BY <3>6, <3>7, <3>10 DEF Carries
  <2>2. QED
    BY <1>2, <1>8, <2>1 DEF GotWifi
<1>9. CASE GotPair(c)
  <2>1. CASE Go(c, "saveRecord")
    <3>1. PICK k : k = Goto(call[c], "saveRecord")
      OBVIOUS
    <3>1a. "saveRecord" \in Pcs
      BY <1>3
    <3>2. /\ k.pc = "saveRecord" /\ k.rec = call[c].rec /\ k.dev = call[c].dev
          /\ k.phase = "send"
      BY <1>1, <3>1, <3>1a, GotoType
    <3>3. call[c].pc = "pairDevice"
      BY <1>9 DEF GotPair, Got, Pc
    <3>4. call[c].rec.of = call[c].dev
      BY <3>3 DEF OwnRec, Recorded
    <3>5. k.pc \notin Pairing /\ k.rec.of = k.dev
      BY <3>2, <3>4 DEF Pairing
    <3>6. OwnRec(k)'
      BY <3>5 DEF OwnRec
    <3>7. QED
      BY <2>1, <3>1, <3>2, <3>6 DEF Go, Carries
  <2>2. QED
    BY <1>2, <1>9, <2>1 DEF GotPair
<1>10. CASE GotSession(c)
  <2>1. CASE Go(c, InSession(c))
    BY <1>4, <2>1, InSessionPc
  <2>2. ASSUME NEW n, call' = [call EXCEPT ![c] = [Goto(@, "tls") EXCEPT !.num = n]]
        PROVE  Carries(c)
    <3>1. PICK g : g = Goto(call[c], "tls")
      OBVIOUS
    <3>1a. "tls" \in Pcs
      BY <1>3
    <3>2. g \in CallRec /\ g.pc = "tls" /\ g.phase = "send"
      BY <1>1, <3>1, <3>1a, GotoType
    <3>3. PICK k : k = [g EXCEPT !.num = n]
      OBVIOUS
    <3>4. k.pc = "tls" /\ k.phase = "send"
      BY <3>2, <3>3 DEF CallRec
    <3>5. call' = [call EXCEPT ![c] = k]
      BY <2>2, <3>1, <3>3
    <3>6. k.pc \notin Recorded \cup Pairing
      BY <1>3, <3>4
    <3>7. QED
      BY <3>4, <3>5, <3>6, CarryOn
  <2>3. QED
    BY <1>2, <1>10, <2>1, <2>2 DEF GotSession
<1>11. CASE GotService(c)
  <2>1. ASSUME NEW w, call' = [call EXCEPT ![c] = [Goto(@, "end") EXCEPT !.want = w]]
        PROVE  Carries(c)
    <3>1. PICK g : g = Goto(call[c], "end")
      OBVIOUS
    <3>1a. "end" \in Pcs
      BY <1>3
    <3>2. g \in CallRec /\ g.pc = "end" /\ g.phase = "send"
      BY <1>1, <3>1, <3>1a, GotoType
    <3>3. PICK k : k = [g EXCEPT !.want = w]
      OBVIOUS
    <3>4. k.pc = "end" /\ k.phase = "send"
      BY <3>2, <3>3 DEF CallRec
    <3>5. call' = [call EXCEPT ![c] = k]
      BY <2>1, <3>1, <3>3
    <3>6. k.pc \notin Recorded \cup Pairing
      BY <1>3, <3>4
    <3>7. QED
      BY <3>4, <3>5, <3>6, CarryOn
  <2>2. QED
    BY <1>2, <1>11, <2>1 DEF GotService
<1>12. CASE Stopped(c)
  <2>1. Pc(c) \in {"stop", "stopRunning"}
    BY <1>12 DEF Stopped, Got
  <2>2. CASE Pc(c) = "stop" /\ call' = [call EXCEPT ![c] = AfterSession(call[c])]
    <3>1. call[c].obj \in 1..Len(objs)
      BY <1>1, <2>2, ObjNow DEF Pc
    <3>2. PICK m : m = AfterSession(call[c])
      OBVIOUS
    <3>3. m.phase = "send" /\ (m = Idle \/ m.pc \in {"queryType", "dial"})
      BY <1>1, <3>1, <3>2, AfterSessionType
    <3>4. m.pc \notin Recorded \cup Pairing
      BY <1>3, <3>3, IdleType DEF Recorded, Pairing
    <3>5. QED
      BY <2>2, <3>2, <3>3, <3>4, CarryOn
  <2>3. CASE Pc(c) # "stop" /\ call' = [call EXCEPT ![c] = Goto(call[c], "start")]
    <3>1. PICK k : k = Goto(call[c], "start")
      OBVIOUS
    <3>1a. "start" \in Pcs
      BY <1>3
    <3>2. /\ k.pc = "start" /\ k.rec = call[c].rec /\ k.dev = call[c].dev
          /\ k.phase = "send"
      BY <1>1, <3>1, <3>1a, GotoType
    <3>3. call[c].pc = "stopRunning"
      BY <2>1, <2>3 DEF Pc
    <3>4. call[c].rec.of = call[c].dev
      BY <3>3 DEF OwnRec, Recorded
    <3>5. k.pc \notin Pairing /\ k.rec.of = k.dev
      BY <3>2, <3>4 DEF Pairing
    <3>6. OwnRec(k)'
      BY <3>5 DEF OwnRec
    <3>7. QED
      BY <2>3, <3>1, <3>2, <3>6 DEF Carries
  <2>4. QED
    BY <1>2, <1>12, <2>2, <2>3 DEF Stopped
<1>13. QED
  BY <1>5, <1>6, <1>7, <1>8, <1>9, <1>10, <1>11, <1>12 DEF Taken

LEMMA LocalCarries ==
    ASSUME TypeInv, InOrder, Belong, OwnRecords, NEW c \in Callers, Begin(c) \/ Step(c), Local(c),
           OwnRec(call[c]), UNCHANGED saved
    PROVE  Carries(c)
<1>1. /\ call[c] \in CallRec /\ call[c].phase \in {"send", "length", "body"}
      /\ call[c].phase # "send" => call[c].pc \in LockPcs \cup MuxPcs
  BY Lengths DEF TypeInv, CallRec, Referring, CallOK
<1>2. ASSUME NEW k, k.phase = "send", k.pc \notin Recorded \cup Pairing,
             call' = [call EXCEPT ![c] = k]
      PROVE  Carries(c)
  BY <1>2, CarryOn
<1>3. /\ {"deleteRecord", "use", "connect", "version", "queryType", "dial", "stop", "secure"}
            \cap (Recorded \cup Pairing) = {}
      /\ {"stop", "secure", "use", "queryType"} \subseteq Pcs
  BY DEF Recorded, Pairing, Pcs, Locked, LockPcs
<1>4. CASE Begin(c)
  <2>1. PICK op \in Ops, d \in Devs :
        call' = [call EXCEPT ![c] =
             [Idle EXCEPT !.op = op, !.dev = d, !.want = Field(op),
                          !.pc = IF op = "deletePairRecord" THEN "deleteRecord"
                                 ELSE IF op \in Kept /\ device[d].cache[op] # <<>> THEN "use"
                                 ELSE "connect"]]
    BY <1>4 DEF Begin
  <2>2. PICK pc \in {"deleteRecord", "use", "connect"} :
          pc = IF op = "deletePairRecord" THEN "deleteRecord"
               ELSE IF op \in Kept /\ device[d].cache[op] # <<>> THEN "use" ELSE "connect"
    OBVIOUS
  <2>3. PICK k : k = [Idle EXCEPT !.op = op, !.dev = d, !.want = Field(op), !.pc = pc]
    OBVIOUS
  <2>4. k.phase = "send" /\ k.pc = pc
    BY <2>3 DEF Idle
  <2>5. call' = [call EXCEPT ![c] = k]
    BY <2>1, <2>2, <2>3
  <2>6. QED
    BY <1>2, <1>3, <2>4, <2>5
<1>5. CASE NewLockdown(c)
  <2>1. call[c].phase = "send" /\ call' = [call EXCEPT ![c].pc = "version"]
    BY <1>1, <1>5 DEF NewLockdown, Pc, LockPcs, MuxPcs
  <2>2. PICK k : k = [call[c] EXCEPT !.pc = "version"]
    OBVIOUS
  <2>3. k.phase = "send" /\ k.pc = "version"
    BY <1>1, <2>1, <2>2 DEF CallRec
  <2>4. call' = [call EXCEPT ![c] = k]
    BY <2>1, <2>2
  <2>5. QED
    BY <1>2, <1>3, <2>3, <2>4
<1>6. CASE KnownVersion(c)
  BY <1>6, CarryAfter DEF KnownVersion
<1>7. CASE NilRecord(c) \/ NilVersion(c)
  <2>1. call[c].pc \notin MuxPcs /\ UNCHANGED call
    BY <1>7 DEF NilRecord, NilVersion, Pc, MuxPcs, Panic
  <2>2. QED
    BY <2>1, CarryPanic
<1>8. CASE ReadError(c) \/ (Connect(c) /\ Fail(c))
  <2>1. Step(c)
    <3>1. call[c].pc # "idle"
      BY <1>8, Kinds, PcSets DEF ReadError, Connect, Pc
    <3>2. QED
      BY <3>1 DEF Begin, Pc
  <2>2. Fail(c)
    BY <1>8 DEF ReadError
  <2>3. QED
    BY <2>1, <2>2, CarryFail
<1>9. CASE BeginSession(c)
  <2>1. call[c].pc = "session" /\ call[c].pc \in Locked \ {"version"} /\ OwnObj(call[c])
    BY <1>9 DEF BeginSession, Pc, Locked, LockPcs, InOrder
  <2>2. MyLock(c) \in 1..Len(objs) /\ call[c].obj = MyLock(c) /\ call[c].dev \in Devs
        /\ MyLock(c) = device[call[c].dev].lock
    BY <2>1, Here, ObjNow
  <2>2a. PICK r : r = objs[MyLock(c)].record
    OBVIOUS
  <2>3. PICK o \in 1..Len(objs) : /\ o = call[c].obj /\ o = MyLock(c) /\ r = objs[o].record
    BY <2>2, <2>2a
  <2>4. r # NoRecord
    BY <2>1, <2>3 DEF OwnObj
  <2>5. r.of = call[c].dev
    <3>1. conns[objs[o].client].dev = call[c].dev
      BY <2>2, <2>3 DEF Belong
    <3>2. Of(r, conns[objs[o].client].dev)
      BY <2>3 DEF OwnRecords
    <3>3. QED
      BY <2>4, <3>1, <3>2 DEF Of
  <2>6. PICK first \in {"stopRunning", "start"} :
          first = IF objs[o].session # 0 THEN "stopRunning" ELSE "start"
    OBVIOUS
  <2>7. first \in Pcs /\ first \notin Pairing /\ r \in Record /\ o \in Nat
    <3>1. objs[o] \in ObjRec
      BY Lengths DEF TypeInv
    <3>2. QED
      BY <2>3, <3>1 DEF Pcs, Locked, LockPcs, Pairing, ObjRec
  <2>8. PICK g : g = Goto(call[c], first)
    OBVIOUS
  <2>9. g \in CallRec /\ g.pc = first /\ g.phase = "send" /\ g.dev = call[c].dev
    BY <1>1, <2>7, <2>8, GotoType
  <2>10. PICK k : k = [g EXCEPT !.obj = o, !.rec = r]
    OBVIOUS
  <2>11. k.pc = first /\ k.phase = "send" /\ k.dev = call[c].dev /\ k.rec = r
    BY <2>9, <2>10 DEF CallRec
  <2>12. call' = [call EXCEPT ![c] = k]
    <3>1. (IF InGetValue(c) THEN MyLock(c) ELSE call[c].obj) = o
      BY <2>3
    <3>2. QED
      BY <1>9, <2>3, <2>6, <2>8, <2>10, <3>1 DEF BeginSession
  <2>13. OwnRec(k)'
    BY <2>5, <2>7, <2>11 DEF OwnRec
  <2>14. QED
    BY <2>11, <2>12, <2>13 DEF Carries
<1>10. CASE EndSession(c)
  <2>1. call[c].pc \in Locked \ {"version"}
    BY <1>10 DEF EndSession, Pc, Locked
  <2>2. PICK o \in 1..Len(objs) : o = IF InGetValue(c) THEN MyLock(c) ELSE call[c].obj
    BY <2>1, ObjNow
  <2>3. PICK h : h = [call[c] EXCEPT !.obj = o]
    OBVIOUS
  <2>4. o \in Nat
    BY <2>2, Lengths DEF TypeInv
  <2>5. /\ h \in CallRec /\ h.obj = o /\ h.dev = call[c].dev /\ h.got = call[c].got
        /\ h.inner = call[c].inner
    BY <1>1, <2>3, <2>4, WithObj
  <2>6. Goto(h, "stop").phase = "send" /\ Goto(h, "stop").pc = "stop"
    BY <1>3, <2>5, GotoType
  <2>7. PICK m : m = AfterSession(h)
    OBVIOUS
  <2>8. m.phase = "send" /\ (m = Idle \/ m.pc \in {"queryType", "dial"})
    BY <2>1, <2>2, <2>5, <2>7, AfterSessionType
  <2>9. m.pc \notin Recorded \cup Pairing
    BY <1>3, <2>8, IdleType DEF Recorded, Pairing
  <2>10. call' = [call EXCEPT ![c] = IF objs[o].session # 0 THEN Goto(h, "stop") ELSE m]
    BY <1>10, <2>2, <2>3, <2>7 DEF EndSession
  <2>11. CASE objs[o].session # 0
    BY <1>2, <1>3, <2>6, <2>10, <2>11
  <2>12. CASE objs[o].session = 0
    BY <1>2, <2>8, <2>9, <2>10, <2>12
  <2>13. QED
    BY <2>11, <2>12
<1>11. CASE Dial(c)
  <2>1. Step(c)
    BY <1>11 DEF Begin, Dial, Pc
  <2>2. CASE Fail(c)
    BY <2>1, <2>2, CarryFail
  <2>3. ASSUME NEW v, call' = [call EXCEPT ![c] = [Goto(@, "secure") EXCEPT !.got = v]]
        PROVE  Carries(c)
    <3>1. PICK g : g = Goto(call[c], "secure")
      OBVIOUS
    <3>2. g \in CallRec /\ g.pc = "secure" /\ g.phase = "send"
      BY <1>1, <1>3, <3>1, GotoType
    <3>3. PICK k : k = [g EXCEPT !.got = v]
      OBVIOUS
    <3>4. k.phase = "send" /\ k.pc = "secure"
      BY <3>2, <3>3 DEF CallRec
    <3>5. call' = [call EXCEPT ![c] = k]
      BY <2>3, <3>1, <3>3
    <3>6. QED
      BY <1>2, <1>3, <3>4, <3>5
  <2>4. QED
    BY <1>11, <2>2, <2>3 DEF Dial
<1>12. CASE Secure(c)
  <2>1. Step(c)
    BY <1>12 DEF Begin, Secure, Pc
  <2>2. CASE Fail(c) \/ Done(c)
    BY <2>1, <2>2, CarryFail, CarryDone
  <2>3. CASE call' = [call EXCEPT ![c] = [Goto(@, "queryType") EXCEPT !.want = "crashReportCopy"]]
    <3>1. PICK g : g = Goto(call[c], "queryType")
      OBVIOUS
    <3>2. g \in CallRec /\ g.pc = "queryType" /\ g.phase = "send"
      BY <1>1, <1>3, <3>1, GotoType
    <3>3. PICK k : k = [g EXCEPT !.want = "crashReportCopy"]
      OBVIOUS
    <3>4. k.phase = "send" /\ k.pc = "queryType"
      BY <3>2, <3>3 DEF CallRec
    <3>5. call' = [call EXCEPT ![c] = k]
      BY <2>3, <3>1, <3>3
    <3>6. QED
      BY <1>2, <1>3, <3>4, <3>5
  <2>4. CASE call' = [call EXCEPT ![c] = Goto(@, "use")]
    <3>1. Goto(call[c], "use").phase = "send" /\ Goto(call[c], "use").pc = "use"
      BY <1>1, <1>3, GotoType
    <3>2. QED
      BY <1>2, <1>3, <2>4, <3>1
  <2>5. QED
    BY <1>12, <2>2, <2>3, <2>4 DEF Secure
<1>13. CASE Use(c)
  <2>1. call[c].pc \notin MuxPcs
    BY <1>13 DEF Use, Pc, MuxPcs
  <2>2. CASE Done(c)
    BY <2>2, CarryDone
  <2>3. CASE UNCHANGED call
    BY <2>1, <2>3, CarryPanic
  <2>4. QED
    BY <1>13, <2>2, <2>3 DEF Use, Panic
<1>14. QED
  BY <1>4, <1>5, <1>6, <1>7, <1>8, <1>9, <1>10, <1>11, <1>12, <1>13 DEF Local

\* The rest of the steps on a lockdown connection.
LEMMA ConnCarries ==
    ASSUME TypeInv, NEW c \in Callers, Step(c), OwnRec(call[c]), UNCHANGED saved,
           Connect(c) \/ SendPacket(c) \/ ReadLength(c) \/ EnableSSL(c)
    PROVE  Carries(c)
<1>1. call[c] \in CallRec /\ LockPcs \cap MuxPcs = {} /\ DOMAIN LockKind = LockPcs
      /\ "object" \in Pcs /\ {"object", "value", "service"} \cap (Recorded \cup Pairing) = {}
  BY Lengths, Kinds DEF TypeInv, Pcs, Recorded, Pairing
<1>2. ASSUME Fail(c) PROVE Carries(c)
  BY <1>2, CarryFail
<1>3. CASE Connect(c)
  <2>1. CASE call' = [call EXCEPT ![c].pc = "object"]
    <3>1. PICK k : k = [call[c] EXCEPT !.pc = "object"]
      OBVIOUS
    <3>2. k.pc = "object" /\ k.phase = call[c].phase
      BY <1>1, <3>1, WithPc
    <3>3. call[c].phase = "send"
      <4>1. call[c].pc = "connect" /\ "connect" \notin LockPcs \cup MuxPcs
        BY <1>3 DEF Connect, Pc, LockPcs, MuxPcs
      <4>2. QED
        BY <4>1 DEF TypeInv, Referring, CallOK
    <3>4. call' = [call EXCEPT ![c] = k]
      BY <2>1, <3>1
    <3>5. QED
      BY <1>1, <3>2, <3>3, <3>4, CarryOn
  <2>2. QED
    BY <1>2, <1>3, <2>1 DEF Connect
<1>4. CASE SendPacket(c)
  <2>1. Pc(c) \in LockPcs /\ call[c].pc \notin MuxPcs
    BY <1>1, <1>4 DEF SendPacket, Pc
  <2>2. PICK k : k = [call[c] EXCEPT !.phase = "length", !.obj = ObjOf(c)]
    OBVIOUS
  <2>3. k.pc = call[c].pc /\ k.rec = call[c].rec /\ k.dev = call[c].dev /\ k.op = call[c].op
    BY <2>1, <2>2, SentType
  <2>4. CASE call' = [call EXCEPT ![c].phase = "length", ![c].obj = ObjOf(c)]
    <3>1. call' = [call EXCEPT ![c] = k]
      BY <1>1, <2>2, <2>4 DEF TypeInv, Types
    <3>2. QED
      BY <2>1, <2>3, <3>1, CarrySame
  <2>5. QED
    BY <1>2, <1>4, <2>4 DEF SendPacket
<1>5. CASE ReadLength(c)
  <2>1. call[c].pc \notin MuxPcs /\ call' = [call EXCEPT ![c].phase = "body"]
    BY <1>1, <1>5 DEF ReadLength, Pc
  <2>2. PICK k : k = [call[c] EXCEPT !.phase = "body"]
    OBVIOUS
  <2>3. k.pc = call[c].pc /\ k.rec = call[c].rec /\ k.dev = call[c].dev /\ k.op = call[c].op
    BY <1>1, <2>2, WithPhase
  <2>4. call' = [call EXCEPT ![c] = k]
    BY <2>1, <2>2
  <2>5. QED
    BY <2>1, <2>3, <2>4, CarrySame
<1>6. CASE EnableSSL(c)
  <2>1. CASE Go(c, InSession(c))
    <3>1. InSession(c) \in Pcs /\ InSession(c) \notin Recorded \cup Pairing
      BY <1>1, InSessionPc, PcSets
    <3>2. QED
      BY <2>1, <3>1, CarryGo DEF Go
  <2>2. QED
    BY <1>2, <1>6, <2>1 DEF EnableSSL
<1>7. QED
  BY <1>3, <1>4, <1>5, <1>6
-----------------------------------------------------------------------------
\* The stream of usbmuxd and the records after a step of the one call under way.
LEMMA MuxAlone ==
    ASSUME TypeInv, NEW c \in Callers, Sole(c), NEW k, call' = [call EXCEPT ![c] = k]
    PROVE  /\ call'[c] = k
           /\ \A b \in Callers : b # c => /\ ~MuxAsking(b) /\ ~MuxAsking(b)'
                                          /\ call[b].pc = "idle" /\ call'[b] = call[b]
<1>1. call'[c] = k /\ \A b \in Callers : b # c => call'[b] = call[b] /\ call[b].pc = "idle"
  BY DEF TypeInv, Types, Sole
<1>2. "idle" \notin MuxPcs
  BY DEF MuxPcs
<1>3. QED
  BY <1>1, <1>2 DEF MuxAsking

LEMMA MuxQuiet ==
    ASSUME TypeInv, NEW c \in Callers, Sole(c), NEW k, call' = [call EXCEPT ![c] = k],
           k.pc \notin MuxPcs \/ k.phase = "send", Quiet(mux')
    PROVE  MuxOrder'
<1>1. call'[c] = k /\ \A b \in Callers : b # c => ~MuxAsking(b)'
  BY MuxAlone
<1>2. ~MuxAsking(c)'
  BY <1>1 DEF MuxAsking
<1>3. \A b \in Callers : ~MuxAsking(b)'
  BY <1>1, <1>2
<1>4. QED
  BY <1>3 DEF MuxOrder, Quiet

LEMMA MuxHolds ==
    ASSUME TypeInv, NEW c \in Callers, Sole(c), NEW k, call' = [call EXCEPT ![c] = k],
           k.pc \in MuxPcs, k.phase # "send", MuxExchange(c, k)'
    PROVE  MuxOrder'
<1>1. call'[c] = k /\ \A b \in Callers : b # c => ~MuxAsking(b)'
  BY MuxAlone
<1>2. MuxAsking(c)'
  BY <1>1 DEF MuxAsking
<1>3. MuxExchange(c, call[c])'
  BY <1>1 DEF MuxExchange, MuxFits
<1>4. QED
  BY <1>1, <1>2, <1>3 DEF MuxOrder

LEMMA RecAlone ==
    ASSUME TypeInv, NEW c \in Callers, Sole(c), NEW k, call' = [call EXCEPT ![c] = k], OwnRec(k)'
    PROVE  \A b \in Callers : OwnRec(call[b])'
<1>1. call'[c] = k /\ \A b \in Callers : b # c => call'[b].pc = "idle"
  BY MuxAlone
<1>2. "idle" \notin Recorded \cup Pairing
  BY DEF Recorded, Pairing
<1>3. ASSUME NEW b \in Callers PROVE OwnRec(call[b])'
  <2>1. CASE b = c
    BY <1>1, <2>1 DEF OwnRec
  <2>2. CASE b # c
    BY <1>1, <1>2, <2>2 DEF OwnRec
  <2>3. QED
    BY <2>1, <2>2
<1>4. QED
  BY <1>3

LEMMA RecordsOwn ==
    ASSUME TypeInv, OwnRecords, NEW c \in Callers, Begin(c) \/ Step(c),
           \A d \in Devs : Of(saved'[d], d),
           \A o \in 1..Len(objs') :
              \/ o \in 1..Len(objs) /\ objs'[o].record = objs[o].record
              \/ Of(objs'[o].record, conns'[objs'[o].client].dev)
    PROVE  OwnRecords'
<1>1. ASSUME NEW o \in 1..Len(objs') PROVE Of(objs'[o].record, conns'[objs'[o].client].dev)
  <2>1. CASE o \in 1..Len(objs) /\ objs'[o].record = objs[o].record
    <3>1. conns'[objs'[o].client].dev = conns[objs[o].client].dev
      BY <2>1, ClientDev
    <3>2. Of(objs[o].record, conns[objs[o].client].dev)
      BY <2>1 DEF OwnRecords
    <3>3. QED
      BY <2>1, <3>1, <3>2
  <2>2. QED
    BY <2>1
<1>2. QED
  BY <1>1 DEF OwnRecords, Of

\* A record is put into the call's own object: usbmuxd's, or the new one.
LEMMA RecordPut ==
    ASSUME TypeInv, InOrder, Belong, OwnRecords, NEW c \in Callers, Begin(c) \/ Step(c),
           UNCHANGED saved, call[c].pc \in Locked \ {"version"}, NEW r, Of(r, call[c].dev),
           objs' = [objs EXCEPT ![call[c].obj].record = r]
    PROVE  OwnRecords'
<1>1. MyLock(c) \in 1..Len(objs) /\ call[c].obj = MyLock(c) /\ call[c].dev \in Devs
      /\ MyLock(c) = device[call[c].dev].lock
  BY Here, ObjNow, PcSets
<1>2. PICK p \in 1..Len(objs), old \in ObjRec : p = call[c].obj /\ p = MyLock(c) /\ old = objs[p]
  BY <1>1, Lengths DEF TypeInv
<1>3. p # 0
  <2>1. \A n \in 1..Len(objs) : n # 0
    BY Lengths DEF TypeInv
  <2>2. QED
    BY <2>1
<1>4. conns[objs[p].client].dev = call[c].dev
  BY <1>1, <1>2, <1>3 DEF Belong
<1>5. conns'[objs'[p].client].dev = call[c].dev
  BY <1>4, ClientDev
<1>6. PICK new : new = [old EXCEPT !.record = r]
  OBVIOUS
<1>7. new.record = r
  BY <1>6 DEF ObjRec
<1>8. objs' = [objs EXCEPT ![p] = new] /\ objs \in Seq(ObjRec)
  BY <1>2, <1>6 DEF TypeInv, Types
<1>9. Len(objs') = Len(objs) /\ \A o \in 1..Len(objs) : objs'[o] = IF o = p THEN new ELSE objs[o]
  BY <1>8
<1>10. Of(objs'[p].record, conns'[objs'[p].client].dev)
  BY <1>5, <1>7, <1>9
<1>11. \A d \in Devs : Of(saved'[d], d)
  BY DEF OwnRecords
<1>12. \A o \in 1..Len(objs') :
              \/ o \in 1..Len(objs) /\ objs'[o].record = objs[o].record
              \/ Of(objs'[o].record, conns'[objs'[o].client].dev)
  <2>1. TAKE o \in 1..Len(objs')
  <2>2. CASE o = p
    BY <1>10, <2>2
  <2>3. CASE o # p
    BY <1>9, <2>3
  <2>4. QED
    BY <2>2, <2>3
<1>13. QED
  BY <1>11, <1>12, RecordsOwn

LEMMA RecordsSame ==
    ASSUME TypeInv, OwnRecords, NEW c \in Callers, Begin(c) \/ Step(c), ~NewLockdown(c),
           ~GotPair(c), ~GotRecord(c), \A d \in Devs : Of(saved'[d], d)
    PROVE  OwnRecords'
<1>1. Len(objs') = Len(objs) /\ \A p \in 1..Len(objs) : objs'[p].record = objs[p].record
  BY RecordStep
<1>2. QED
  BY <1>1, RecordsOwn

LEMMA NewLockdownRecords ==
    ASSUME TypeInv, OwnRecords, NEW c \in Callers, Step(c), NewLockdown(c), UNCHANGED saved
    PROVE  OwnRecords'
<1>1. PICK r : r = [client |-> device[call[c].dev].client, version |-> FALSE,
                    record |-> NoRecord, session |-> 0]
  OBVIOUS
<1>2. objs' = Append(objs, r) /\ r.record = NoRecord
  BY <1>1 DEF NewLockdown
<1>3. objs \in Seq(ObjRec)
  BY DEF TypeInv, Types
<1>4. /\ objs'[Len(objs')] = r /\ \A o \in 1..Len(objs) : objs'[o] = objs[o]
      /\ \A o \in 1..Len(objs') : o \in 1..Len(objs) \/ o = Len(objs')
  BY <1>2, <1>3, Appended
<1>5. \A d \in Devs : Of(saved'[d], d)
  BY DEF OwnRecords
<1>6. \A o \in 1..Len(objs') :
              \/ o \in 1..Len(objs) /\ objs'[o].record = objs[o].record
              \/ Of(objs'[o].record, conns'[objs'[o].client].dev)
  BY <1>2, <1>4 DEF Of
<1>7. QED
  BY <1>5, <1>6, RecordsOwn

LEMMA GotPairRecords ==
    ASSUME TypeInv, InOrder, Belong, OwnRecords, NEW c \in Callers, OwnRec(call[c]), Step(c),
           GotPair(c), UNCHANGED saved
    PROVE  OwnRecords'
<1>1. call[c].pc = "pairDevice" /\ call[c].pc \in Locked \ {"version"}
      /\ \A d \in Devs : Of(saved'[d], d)
  BY DEF GotPair, Got, Pc, Locked, LockPcs, OwnRecords
<1>2. CASE UNCHANGED objs
  BY <1>1, <1>2, RecordsOwn
<1>3. CASE objs' = [objs EXCEPT ![call[c].obj].record = call[c].rec]
  <2>1. call[c].rec.of = call[c].dev
    BY <1>1 DEF OwnRec, Recorded
  <2>2. Of(call[c].rec, call[c].dev)
    BY <2>1 DEF Of
  <2>3. QED
    BY <1>1, <1>3, <2>2, RecordPut
<1>4. QED
  BY <1>2, <1>3 DEF GotPair

\* Steps that do not touch usbmuxd's stream.
LEMMA NotMux ==
    ASSUME NEW c \in Callers, Local(c) \/ Taken(c) \/ Connect(c) \/ SendPacket(c)
                              \/ ReadLength(c) \/ EnableSSL(c)
    PROVE  UNCHANGED mux /\ call[c].pc \notin MuxPcs
<1>1. DOMAIN LockKind = LockPcs /\ LockPcs \cap MuxPcs = {}
  BY Kinds
<1>2. CASE Taken(c)
  BY <1>1, <1>2, TakenTakes DEF Takes
<1>3. CASE Begin(c) \/ NewLockdown(c) \/ KnownVersion(c) \/ NilRecord(c)
  BY <1>3 DEF Begin, NewLockdown, KnownVersion, NilRecord, Pc, MuxPcs
<1>4. CASE ReadError(c) \/ SendPacket(c) \/ ReadLength(c)
  BY <1>1, <1>4 DEF ReadError, SendPacket, ReadLength, Pc
<1>5. CASE BeginSession(c) \/ NilVersion(c) \/ EndSession(c) \/ Dial(c)
  BY <1>5 DEF BeginSession, NilVersion, EndSession, Dial, Pc, MuxPcs
<1>6. CASE Secure(c) \/ Use(c) \/ Connect(c) \/ EnableSSL(c)
  BY <1>6 DEF Secure, Use, Connect, EnableSSL, Pc, MuxPcs
<1>7. QED
  BY <1>2, <1>3, <1>4, <1>5, <1>6 DEF Local

LEMMA LineInTime ==
    ASSUME TypeInv, InOrder, Belong, InTime, NEW c \in Callers, Begin(c) \/ Step(c), Sole(c),
           UNCHANGED saved, Local(c) \/ Taken(c) \/ Connect(c) \/ SendPacket(c)
                            \/ ReadLength(c) \/ EnableSSL(c)
    PROVE  InTime'
<1>1. OwnRec(call[c]) /\ OwnRecords /\ MuxOrder
  BY DEF InTime
<1>2. UNCHANGED mux /\ call[c].pc \notin MuxPcs
  BY NotMux
<1>3. Carries(c)
  <2>1. CASE Local(c)
    BY <1>1, <2>1, LocalCarries
  <2>2. CASE ~Local(c)
    <3>1. Step(c)
      BY <2>2 DEF Local
    <3>2. QED
      BY <1>1, <2>2, <3>1, TakenCarries, ConnCarries
  <2>3. QED
    BY <2>1, <2>2
<1>4. PICK k : /\ call' = [call EXCEPT ![c] = k] /\ OwnRec(k)'
               /\ k.pc \notin MuxPcs \/ k.phase = "send"
  BY <1>3 DEF Carries
<1>5. Quiet(mux')
  <2>1. \A b \in Callers : ~MuxAsking(b)
    BY <1>2, <1>4, MuxAlone DEF MuxAsking
  <2>2. Quiet(mux)
    BY <1>1, <2>1 DEF MuxOrder
  <2>3. QED
    BY <1>2, <2>2
<1>6. MuxOrder'
  BY <1>4, <1>5, MuxQuiet
<1>7. \A b \in Callers : OwnRec(call[b])'
  BY <1>4, RecAlone
<1>8. OwnRecords'
  <2>1. \A d \in Devs : Of(saved'[d], d)
    BY <1>1 DEF OwnRecords
  <2>2. ~GotRecord(c)
    BY <1>2 DEF GotRecord, MuxGot, Pc, MuxPcs
  <2>3. CASE NewLockdown(c)
    <3>1. Step(c)
      BY <2>3 DEF Begin, NewLockdown, Pc
    <3>2. QED
      BY <1>1, <2>3, <3>1, NewLockdownRecords
  <2>4. CASE GotPair(c)
    <3>1. Step(c)
      BY <2>4 DEF Begin, GotPair, Got, Pc
    <3>2. QED
      BY <1>1, <2>4, <3>1, GotPairRecords
  <2>5. QED
    BY <1>1, <2>1, <2>2, <2>3, <2>4, RecordsSame
<1>9. QED
  BY <1>6, <1>7, <1>8 DEF InTime

\* The requests to usbmuxd.
LEMMA MuxSendInTime ==
    ASSUME TypeInv, InTime, NEW c \in Callers, Step(c), Sole(c), MuxSend(c) PROVE InTime'
<1>1. /\ Pc(c) \in MuxPcs /\ call[c].pc \in MuxPcs /\ call[c].phase = "send"
      /\ call' = [call EXCEPT ![c].phase = "length"] /\ UNCHANGED <<conns, objs>>
  BY DEF MuxSend, Pc
<1>2. PICK l \in CallRec : l = call[c] /\ l.dev \in Devs /\ OwnRec(l)
  BY <1>1, ObjNow, PcSets, Lengths DEF TypeInv, InTime
<1>3. PICK k : k = [l EXCEPT !.phase = "length"]
  OBVIOUS
<1>4. k.phase = "length" /\ k.pc = l.pc /\ k.rec = l.rec /\ k.dev = l.dev /\ k.op = l.op
  BY <1>3, WithPhase
<1>5. call' = [call EXCEPT ![c] = k]
  BY <1>1, <1>2, <1>3
<1>6. Quiet(mux)
  <2>1. \A b \in Callers : ~MuxAsking(b)
    <3>1. \A b \in Callers : b # c => ~MuxAsking(b)
      BY <1>5, MuxAlone
    <3>2. ~MuxAsking(c)
      BY <1>1 DEF MuxAsking
    <3>3. QED
      BY <3>1, <3>2
  <2>2. QED
    BY <2>1 DEF InTime, MuxOrder
<1>7. saved' = saved \/ (saved' = Saved(l) /\ l.pc \in {"saveRecord", "deleteRecord"})
  <2>1. saved' = saved \/ saved' = Saved(l)
    BY <1>2 DEF MuxSend
  <2>2. l.pc \notin {"saveRecord", "deleteRecord"} => Saved(l) = saved
    BY DEF Saved
  <2>3. QED
    BY <2>1, <2>2
<1>8. \A d \in Devs : Of(saved'[d], d)
  <2>0. saved \in [Devs -> Record] /\ \A d \in Devs : Of(saved[d], d)
    BY DEF TypeInv, Types, InTime, OwnRecords
  <2>1. CASE saved' = saved
    BY <2>0, <2>1
  <2>2. CASE saved' = Saved(l) /\ l.pc = "saveRecord"
    <3>1. saved' = [saved EXCEPT ![l.dev] = l.rec]
      BY <2>2 DEF Saved
    <3>2. l.rec.of = l.dev
      BY <1>2, <2>2 DEF OwnRec, Recorded
    <3>3. Of(l.rec, l.dev)
      BY <3>2 DEF Of
    <3>4. QED
      BY <2>0, <3>1, <3>3
  <2>3. CASE saved' = Saved(l) /\ l.pc = "deleteRecord"
    <3>1. saved' = [saved EXCEPT ![l.dev] = NoRecord]
      BY <2>3 DEF Saved
    <3>2. Of(NoRecord, l.dev)
      BY DEF Of
    <3>3. QED
      BY <2>0, <3>1, <3>2
  <2>4. QED
    BY <1>7, <2>1, <2>2, <2>3
<1>9. OwnRecords'
  <2>1. ~NewLockdown(c) /\ ~GotPair(c) /\ ~GotRecord(c)
    BY <1>1 DEF NewLockdown, GotPair, Got, GotRecord, MuxGot, Pc, MuxPcs
  <2>2. QED
    BY <1>8, <2>1, RecordsSame DEF InTime
<1>10. OwnRec(k)'
  <2>1. k.pc \in Recorded => k.rec.of = k.dev
    BY <1>2, <1>4 DEF OwnRec
  <2>2. ASSUME k.pc \in Pairing, k.op # "pair" PROVE saved'[k.dev] = NoRecord
    <3>1. saved[k.dev] = NoRecord
      BY <1>2, <1>4, <2>2 DEF OwnRec
    <3>2. saved' = saved
      BY <1>4, <1>7, <2>2 DEF Pairing
    <3>3. QED
      BY <3>1, <3>2
  <2>3. QED
    BY <2>1, <2>2 DEF OwnRec
<1>11. PICK a \in AnswerRec :
         /\ mux' = [mux EXCEPT !.answers = Append(@, a)]
         /\ k.pc = "readRecord" => \/ a.err = "error"
                                   \/ a.err = "bad device" /\ saved[k.dev] = NoRecord
                                   \/ Fine(a) /\ a.to = "ReadPairRecord" /\ a.rec = saved[k.dev]
  <2>1. CASE mux' = [mux EXCEPT !.answers = Append(@, MuxAnswer(c))]
    <3>1. PICK a : a = MuxAnswer(c)
      OBVIOUS
    <3>2. a \in AnswerRec
      BY <1>1, <3>1, MuxAnswerType
    <3>3. ASSUME k.pc = "readRecord"
          PROVE  \/ a.err = "bad device" /\ saved[k.dev] = NoRecord
                 \/ Fine(a) /\ a.to = "ReadPairRecord" /\ a.rec = saved[k.dev]
      <4>1. Pc(c) = "readRecord" /\ k.dev = call[c].dev
        BY <1>2, <1>4, <3>3 DEF Pc
      <4>2. /\ a.to = (CASE Pc(c) = "readRecord" -> "ReadPairRecord"
                        [] Pc(c) = "deleteRecord" /\ saved[call[c].dev] = NoRecord -> "DeletePairRecord"
                        [] OTHER -> Pc(c))
            /\ Pc(c) = "readRecord" =>
                 IF saved[call[c].dev] = NoRecord THEN a.err = "bad device"
                 ELSE a.err = "" /\ a.rec = saved[call[c].dev]
        BY <1>1, <3>1, MuxAnswerType
      <4>3. a.to = "ReadPairRecord"
        BY <4>1, <4>2
      <4>4. QED
        BY <4>1, <4>2, <4>3 DEF Fine
    <3>4. QED
      BY <2>1, <3>1, <3>2, <3>3
  <2>2. CASE mux' = [mux EXCEPT !.answers = Append(@, [Answer(Pc(c)) EXCEPT !.err = "error"])]
    <3>1. PICK a0 : a0 = Answer(Pc(c))
      OBVIOUS
    <3>2. a0 \in AnswerRec
      BY <1>1, <3>1, AnswerType DEF Requests
    <3>3. PICK a : a = [a0 EXCEPT !.err = "error"]
      OBVIOUS
    <3>4. a \in AnswerRec /\ a.err = "error"
      BY <3>2, <3>3 DEF AnswerRec
    <3>5. QED
      BY <2>2, <3>1, <3>3, <3>4
  <2>3. QED
    BY <2>1, <2>2 DEF MuxSend
<1>12. mux'.answers = <<a>> /\ mux'.reader = NoCaller /\ ~mux'.mixed
  <2>1. /\ mux'.answers = Append(mux.answers, a) /\ mux'.reader = mux.reader
        /\ mux'.mixed = mux.mixed
    BY <1>11, MuxPutType
  <2>2. mux.answers = <<>> /\ mux.reader = NoCaller /\ ~mux.mixed
    BY <1>6 DEF Quiet
  <2>3. Append(<<>>, a) = <<a>>
    OBVIOUS
  <2>4. QED
    BY <2>1, <2>2, <2>3
<1>13. MuxFits(k, a)'
  <2>1. ASSUME k.pc = "readRecord"
        PROVE  /\ a.err = "bad device" => saved'[k.dev] = NoRecord
               /\ Fine(a) => a.to = "ReadPairRecord" /\ a.rec = saved'[k.dev]
    <3>1. saved' = saved
      BY <1>4, <1>7, <2>1
    <3>2. a.err = "error" => ~Fine(a)
      BY DEF Fine
    <3>3. a.err = "bad device" => ~Fine(a)
      BY DEF Fine
    <3>4. QED
      BY <1>11, <2>1, <3>1, <3>2, <3>3
  <2>2. QED
    BY <2>1 DEF MuxFits, Fine
<1>14. MuxExchange(c, k)'
  BY <1>4, <1>12, <1>13 DEF MuxExchange
<1>15. MuxOrder'
  BY <1>1, <1>2, <1>4, <1>5, <1>14, MuxHolds
<1>16. QED
  BY <1>5, <1>9, <1>10, <1>15, RecAlone DEF InTime

LEMMA MuxReadLengthInTime ==
    ASSUME TypeInv, InTime, NEW c \in Callers, Step(c), Sole(c), MuxReadLength(c) PROVE InTime'
<1>1. /\ call[c].pc \in MuxPcs /\ call[c].phase = "length" /\ mux.answers # <<>>
      /\ mux' = TakeLength(mux, c) /\ call' = [call EXCEPT ![c].phase = "body"]
      /\ UNCHANGED <<saved, conns, objs>>
  BY DEF MuxReadLength, Pc, Unread, world
<1>2. PICK l \in CallRec : l = call[c] /\ OwnRec(l)
  BY Lengths DEF TypeInv, InTime
<1>3. PICK k : k = [l EXCEPT !.phase = "body"]
  OBVIOUS
<1>4. k.phase = "body" /\ k.pc = l.pc /\ k.rec = l.rec /\ k.dev = l.dev /\ k.op = l.op
  BY <1>3, WithPhase
<1>5. call' = [call EXCEPT ![c] = k]
  BY <1>1, <1>2, <1>3
<1>6. MuxExchange(c, l)
  BY <1>1, <1>2 DEF InTime, MuxOrder, MuxAsking
<1>7. mux.reader = NoCaller /\ ~mux.mixed
  BY <1>1, <1>2, <1>6 DEF MuxExchange
<1>8. /\ mux'.answers = mux.answers /\ mux'.reader = c /\ mux'.mixed = mux.mixed
  <2>1. mux \in Stream
    BY DEF TypeInv, Types
  <2>2. QED
    BY <1>1, <1>7, <2>1, TakeLengthType
<1>9. PICK a \in AnswerRec : mux.answers = <<a>> /\ MuxFits(l, a)
  BY <1>6 DEF MuxExchange
<1>10. MuxFits(k, a)'
  BY <1>1, <1>4, <1>9 DEF MuxFits, Fine
<1>11. MuxExchange(c, k)'
  BY <1>4, <1>7, <1>8, <1>9, <1>10 DEF MuxExchange
<1>12. OwnRec(k)'
  BY <1>1, <1>2, <1>4 DEF OwnRec
<1>13. OwnRecords'
  <2>1. \A d \in Devs : Of(saved'[d], d)
    BY <1>1 DEF InTime, OwnRecords
  <2>2. ~NewLockdown(c) /\ ~GotPair(c) /\ ~GotRecord(c)
    BY <1>1 DEF NewLockdown, GotPair, Got, GotRecord, MuxGot, Pc, MuxPcs
  <2>3. QED
    BY <2>1, <2>2, RecordsSame DEF InTime
<1>14. MuxOrder'
  BY <1>1, <1>2, <1>4, <1>5, <1>11, MuxHolds
<1>15. QED
  BY <1>5, <1>12, <1>13, <1>14, RecAlone DEF InTime

\* The answer that is read is the one to the call's request.
LEMMA MuxAnswered ==
    ASSUME TypeInv, InTime, NEW c \in Callers, MuxTakes(c)
    PROVE  /\ MuxFits(call[c], MuxAns) /\ MuxAns \in AnswerRec /\ Quiet(mux')
           /\ call[c].pc \in MuxPcs /\ call[c].pc # "idle"
<1>1. /\ call[c].pc \in MuxPcs /\ call[c].phase = "body" /\ mux.reader = c
      /\ mux' = TakeBody(mux)
  BY DEF MuxTakes
<1>2. MuxExchange(c, call[c])
  BY <1>1 DEF InTime, MuxOrder, MuxAsking
<1>3. PICK a \in AnswerRec : mux.answers = <<a>> /\ MuxFits(call[c], a) /\ ~mux.mixed
  BY <1>2 DEF MuxExchange
<1>4. Head(<<a>>) = a /\ Tail(<<a>>) = <<>> /\ <<a>> # <<>>
  OBVIOUS
<1>5. MuxAns = a
  BY <1>3, <1>4 DEF MuxAns
<1>6. mux \in Stream /\ mux.answers # <<>>
  BY <1>3, <1>4 DEF TypeInv, Types
<1>7. mux'.answers = Tail(mux.answers) /\ mux'.reader = NoCaller /\ mux'.mixed = mux.mixed
  BY <1>1, <1>6, TakeBodyType
<1>8. Quiet(mux')
  BY <1>3, <1>4, <1>7 DEF Quiet
<1>9. QED
  BY <1>1, <1>3, <1>5, <1>8, PcSets

LEMMA MuxTakenCarries ==
    ASSUME TypeInv, InTime, NEW c \in Callers, Step(c), MuxTaken(c), UNCHANGED saved
    PROVE  Carries(c)
<1>1. /\ MuxTakes(c) /\ OwnRec(call[c]) /\ call[c] \in CallRec
      /\ MuxFits(call[c], MuxAns)
  BY MuxTakenTakes, MuxAnswered, Lengths DEF InTime, TypeInv
<1>2. CASE Fail(c) \/ Done(c)
  BY <1>2, CarryFail, CarryDone
<1>3. CASE Go(c, "session")
  <2>1. "session" \in Pcs /\ "session" \notin Recorded \cup Pairing
    BY DEF Pcs, Locked, Recorded, Pairing
  <2>2. QED
    BY <1>3, <2>1, CarryGo DEF Go
<1>4. CASE GotRecord(c) /\ MuxAns.err = "bad device" /\ Go(c, "buid")
  <2>1. PICK k : k = Goto(call[c], "buid")
    OBVIOUS
  <2>2. "buid" \in Pcs
    BY DEF Pcs, Locked
  <2>3. k.pc = "buid" /\ k.phase = "send" /\ k.dev = call[c].dev
    BY <1>1, <2>1, <2>2, GotoType
  <2>4. call[c].pc = "readRecord"
    BY <1>4 DEF GotRecord, MuxGot, Pc
  <2>5. saved[call[c].dev] = NoRecord
    BY <1>1, <1>4, <2>4 DEF MuxFits
  <2>6. k.pc \notin Recorded
    BY <2>3 DEF Recorded
  <2>7. OwnRec(k)'
    BY <2>3, <2>5, <2>6 DEF OwnRec
  <2>8. QED
    BY <1>4, <2>1, <2>3, <2>7 DEF Go, Carries
<1>5. CASE GotBUID(c) /\ Go(c, "publicKey")
  <2>1. PICK k : k = Goto(call[c], "publicKey")
    OBVIOUS
  <2>2. "publicKey" \in Pcs
    BY DEF Pcs, Locked, LockPcs
  <2>3. k.pc = "publicKey" /\ k.phase = "send" /\ k.dev = call[c].dev /\ k.op = call[c].op
    BY <1>1, <2>1, <2>2, GotoType
  <2>4. call[c].pc = "buid"
    BY <1>5 DEF GotBUID, MuxGot, Pc
  <2>5. call[c].pc \in Pairing /\ k.pc \in Pairing /\ k.pc # "pairDevice"
    BY <2>3, <2>4 DEF Pairing
  <2>6. OwnRec(k)'
    BY <1>1, <2>3, <2>5, PairKept
  <2>7. QED
    BY <1>5, <2>1, <2>3, <2>6 DEF Go, Carries
<1>6. CASE GotRecord(c)
  BY <1>2, <1>3, <1>4, <1>6 DEF GotRecord
<1>7. CASE GotBUID(c)
  BY <1>2, <1>5, <1>7 DEF GotBUID
<1>8. CASE GotSaved(c)
  BY <1>2, <1>3, <1>8 DEF GotSaved
<1>9. QED
  BY <1>6, <1>7, <1>8 DEF MuxTaken

LEMMA GotRecordRecords ==
    ASSUME TypeInv, InOrder, Belong, InTime, NEW c \in Callers, Step(c), GotRecord(c),
           UNCHANGED saved
    PROVE  OwnRecords'
<1>1. /\ call[c].pc = "readRecord" /\ call[c].pc \in Locked \ {"version"}
      /\ call[c].dev \in Devs /\ OwnRecords
  BY ObjNow DEF GotRecord, MuxGot, Pc, Locked, InTime
<1>2. MuxFits(call[c], MuxAns)
  BY MuxTakenTakes, MuxAnswered DEF MuxTaken
<1>3. ASSUME NEW r, SetRecord(c, r), Of(r, call[c].dev) PROVE OwnRecords'
  BY <1>1, <1>3, RecordPut DEF SetRecord
<1>4. CASE SetRecord(c, NoRecord)
  BY <1>3, <1>4 DEF Of
<1>5. CASE Fine(MuxAns)
           /\ SetRecord(c, IF MuxAns.to = "ReadPairRecord" THEN MuxAns.rec ELSE EmptyRecord)
  <2>1. MuxAns.to = "ReadPairRecord" /\ MuxAns.rec = saved[call[c].dev]
    BY <1>1, <1>2, <1>5 DEF MuxFits
  <2>2. Of(MuxAns.rec, call[c].dev)
    BY <1>1, <2>1 DEF OwnRecords
  <2>3. QED
    BY <1>3, <1>5, <2>1, <2>2
<1>6. QED
  BY <1>4, <1>5 DEF GotRecord, Fine

LEMMA MuxTakenInTime ==
    ASSUME TypeInv, InOrder, Belong, InTime, NEW c \in Callers, Step(c), Sole(c), MuxTaken(c)
    PROVE  InTime'
<1>1. MuxTakes(c) /\ UNCHANGED saved
  BY MuxTakenTakes DEF world
<1>2. Quiet(mux') /\ call[c].pc \in MuxPcs
  BY <1>1, MuxAnswered
<1>3. PICK k : /\ call' = [call EXCEPT ![c] = k] /\ OwnRec(k)'
               /\ k.pc \notin MuxPcs \/ k.phase = "send"
  BY <1>1, MuxTakenCarries DEF Carries
<1>4. OwnRecords'
  <2>1. CASE GotRecord(c)
    BY <1>1, <2>1, GotRecordRecords
  <2>2. CASE ~GotRecord(c)
    <3>1. ~NewLockdown(c) /\ ~GotPair(c)
      BY <1>2 DEF NewLockdown, GotPair, Got, Pc, MuxPcs
    <3>2. OwnRecords /\ \A d \in Devs : Of(saved'[d], d)
      BY <1>1 DEF InTime, OwnRecords
    <3>3. QED
      BY <2>2, <3>1, <3>2, RecordsSame
  <2>3. QED
    BY <2>1, <2>2
<1>5. MuxOrder' /\ \A b \in Callers : OwnRec(call[b])'
  BY <1>2, <1>3, MuxQuiet, RecAlone
<1>6. QED
  BY <1>4, <1>5 DEF InTime
-----------------------------------------------------------------------------
LEMMA TimelyInit == Init => Timely
<1> SUFFICES ASSUME Init PROVE Timely
  OBVIOUS
<1>1. /\ objs = <<>> /\ mux = NoStream /\ \A c \in Callers : call[c] = Idle
      /\ \A d \in Devs : device[d].client = 0 /\ device[d].lock = 0
  BY DEF Init
<1>2. Len(<<>>) = 0 /\ \A i \in 1..0 : FALSE
  OBVIOUS
<1>3. Idle.pc = "idle" /\ "idle" \notin MuxPcs /\ "idle" \notin Recorded \cup Pairing
  BY DEF Idle, MuxPcs, Recorded, Pairing
<1>4. Belong
  BY <1>1 DEF Belong
<1>5. MuxOrder
  <2>1. Quiet(mux)
    BY <1>1 DEF Quiet, NoStream
  <2>2. QED
    BY <1>1, <1>3, <2>1 DEF MuxOrder, MuxAsking
<1>6. OwnRecords
  <2>1. ASSUME NEW d \in Devs PROVE Of(saved[d], d)
    <3>1. saved[d] = NoRecord \/ saved[d] = [of |-> d, n |-> 0]
      BY DEF Init
    <3>2. QED
      BY <3>1 DEF Of
  <2>2. QED
    BY <1>1, <1>2, <2>1 DEF OwnRecords
<1>7. \A c \in Callers : OwnRec(call[c])
  BY <1>1, <1>3 DEF OwnRec
<1>8. QED
  BY <1>4, <1>5, <1>6, <1>7 DEF Timely, InTime

LEMMA TimelyStill == Timely /\ UNCHANGED vars => Timely'
<1> SUFFICES ASSUME Timely, UNCHANGED vars PROVE Timely'
  OBVIOUS
<1>1. UNCHANGED <<mux, conns, objs, call, device, saved, late, overlapped>>
  BY DEF vars, host, world, hist
<1>2. Belong'
  BY <1>1 DEF Timely, Belong
<1>3. ASSUME InTime PROVE InTime'
  <2>1. OwnRecords'
    BY <1>1, <1>3 DEF InTime, OwnRecords
  <2>2. MuxOrder'
    BY <1>1, <1>3 DEF InTime, MuxOrder, MuxAsking, MuxExchange, MuxFits, Quiet, Fine
  <2>3. \A c \in Callers : OwnRec(call[c])'
    BY <1>1, <1>3 DEF InTime, OwnRec
  <2>4. QED
    BY <2>1, <2>2, <2>3 DEF InTime
<1>4. QED
  BY <1>1, <1>2, <1>3 DEF Timely

LEMMA InTimeStep ==
    ASSUME TypeInv, InOrder, Belong, InTime, NEW c \in Callers, Step(c), ~MuxDeadline(c)
    PROVE  InTime'
<1>1. Sole(c)
  BY StepBusy, SoleNow DEF InOrder, Lines
<1>2. CASE MuxSend(c) \/ MuxReadLength(c) \/ MuxTaken(c)
  BY <1>1, <1>2, MuxSendInTime, MuxReadLengthInTime, MuxTakenInTime
<1>3. CASE ~(MuxSend(c) \/ MuxReadLength(c) \/ MuxTaken(c))
  <2>1. UNCHANGED saved
    BY <1>3, SavedStep
  <2>2. Local(c) \/ Taken(c) \/ Connect(c) \/ SendPacket(c) \/ ReadLength(c) \/ EnableSSL(c)
    BY <1>3 DEF Step, Local, Taken, MuxTaken
  <2>3. QED
    BY <1>1, <2>1, <2>2, LineInTime
<1>4. QED
  BY <1>2, <1>3

LEMMA TimelyStep == TypeInv /\ Calm /\ Timely /\ [Next]_vars => Timely'
<1> SUFFICES ASSUME TypeInv, Calm, Timely, [Next]_vars PROVE Timely'
  OBVIOUS
<1>1. CASE UNCHANGED vars
  BY <1>1, TimelyStill
<1>2. ASSUME NEW c \in Callers, Begin(c) PROVE Timely'
  <2>1. Belong' /\ late' = late
    BY <1>2, BelongStep DEF Timely, Begin
  <2>2. ASSUME ~late', ~overlapped' PROVE InTime'
    <3>1. ~late /\ ~overlapped /\ \A b \in Callers : call[b].pc = "idle"
      <4>1. overlapped' = (overlapped \/ \E b \in Callers : Pc(b) # "idle")
        BY <1>2 DEF Begin
      <4>2. QED
        BY <2>1, <2>2, <4>1 DEF Pc
    <3>2. Sole(c) /\ UNCHANGED saved /\ Local(c)
      BY <1>2, <3>1 DEF Sole, Begin, world, Local
    <3>3. InOrder /\ InTime /\ Belong
      BY <3>1 DEF Calm, Timely
    <3>4. QED
      BY <1>2, <3>2, <3>3, LineInTime
  <2>3. QED
    BY <2>1, <2>2 DEF Timely
<1>3. ASSUME NEW c \in Callers, Step(c) PROVE Timely'
  <2>1. Belong'
    BY <1>3, BelongStep DEF Timely
  <2>2. CASE MuxDeadline(c)
    BY <2>1, <2>2 DEF Timely, MuxDeadline
  <2>3. CASE ~MuxDeadline(c)
    <3>1. late' = late /\ overlapped' = overlapped
      BY <1>3, <2>3, LateStep, OverlapStep
    <3>2. ASSUME ~late, ~overlapped PROVE InTime'
      <4>1. InOrder /\ InTime /\ Belong
        BY <3>2 DEF Calm, Timely
      <4>2. QED
        BY <1>3, <2>3, <4>1, InTimeStep
    <3>3. QED
      BY <2>1, <3>1, <3>2 DEF Timely
  <2>4. QED
    BY <2>2, <2>3
<1>4. QED
  BY <1>1, <1>2, <1>3 DEF Next

LEMMA TimelyHolds == Spec => [](TypeInv /\ Calm /\ Timely)
  BY TypeInit, TypeStep, CalmInit, CalmStep, TimelyInit, TimelyStep, PTL DEF Spec

\* As long as no answer has come after its deadline and no calls have overlapped, the
\* session of a device is begun with the pair record of that device.
THEOREM OwnRecordHolds == Spec => []OwnRecord
<1>1. Timely => OwnRecord
  BY DEF Timely, InTime, OwnRec, Recorded, OwnRecord, Pc
<1>2. QED
  BY <1>1, TimelyHolds, PTL

\* In the same circumstances a handshake pairs only with a device that usbmuxd has no
\* record of, whatever was refused or lost on the way.
THEOREM PairsOnlyIfMissingHolds == Spec => []PairsOnlyIfMissing
<1>1. Timely => PairsOnlyIfMissing
  BY DEF Timely, InTime, OwnRec, Pairing, PairsOnlyIfMissing, Pc
<1>2. QED
  BY <1>1, TimelyHolds, PTL
=============================================================================
