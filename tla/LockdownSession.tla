--------------------------- MODULE LockdownSession ---------------------------
(***************************************************************************)
(* How a device object (device.go) opens services: lockdownService, the    *)
(* handshake, pairing and session of lockdown.go, the caches of services,  *)
(* and the two kinds of connection requests travel on: the usbmux client   *)
(* that all devices of one listing share, with its 30 second read deadline *)
(* (pkg/libimobiledevice/usbmux.go), and a lockdown connection for each    *)
(* call, without one (client_servicepacket.go).                            *)
(*                                                                         *)
(* Callers are user goroutines. A call is a program: pc names the request  *)
(* or statement it is at; a request is sent, then the length of the next   *)
(* answer is read, then its body (phase). Nothing ties an answer to its    *)
(* request but its turn in the stream.                                     *)
(*                                                                         *)
(* External: usbmuxd and the device handle a request when it is sent, in   *)
(* order; what comes late is the answer. Abstracted: names, values, keys   *)
(* and certificates; a connection made by NewConnect is one step, for      *)
(* nobody shares it before it is made.                                     *)
(***************************************************************************)
EXTENDS Naturals, Sequences, SequencesExt

CONSTANTS Callers,   \* user goroutines
          Devs,      \* devices of one listing: they share d.umClient
          Ops,       \* calls the users make
          MaxCalls,  \* bound: calls
          MaxFaults, \* bound: refusals, ended connections and expired deadlines
          Sharing,   \* bound: the calls <<op, dev>> that may overlap with each other
          NoCaller, NoDev

\* Services a device keeps and asks for once; those it keeps but opens for each use;
\* those it hands out.
Kept == {"imageMounter", "screenshot", "simulateLocation", "installationProxy",
         "instruments", "amfi", "afc", "houseArrest", "misagent", "syslogRelay",
         "springBoard", "webInspector", "crashReportMover"}
Reopened == {"diagnosticsRelay", "pcapd", "icon"}
HandedOut == {"testmanagerd", "newInstruments"}
ServiceOps == Kept \cup Reopened \cup HandedOut
PlainOps == {"queryType", "getValue", "pair", "enterRecovery", "deletePairRecord"}

ASSUME LockdownAssumption ==
    /\ MaxCalls \in Nat /\ MaxFaults \in Nat
    /\ Ops \subseteq ServiceOps \cup PlainOps /\ Sharing \subseteq Ops \X Devs
    /\ NoCaller \notin Callers /\ NoDev \notin Devs

\* The field of the device that holds an operation's service.
Field(op) == IF op = "icon" THEN "springBoard" ELSE op
\* What the connections of a field lead to: the mover has one of its own and one for afc.
Leads(op) == IF op = "crashReportMover" THEN <<op, "crashReportCopy">> ELSE <<Field(op)>>

Record == [of: Devs \cup {NoDev}, n: Nat]
NoRecord == [of |-> NoDev, n |-> 0]
EmptyRecord == [of |-> NoDev, n |-> 1]

\* The pcs at which a request is sent, and the request.
LockKind == [version |-> "GetValue", publicKey |-> "GetValue", wifi |-> "GetValue",
             value |-> "GetValue", queryType |-> "QueryType", pairDevice |-> "Pair",
             stopRunning |-> "StopSession", start |-> "StartSession",
             service |-> "StartService", stop |-> "StopSession",
             recovery |-> "EnterRecovery"]
MuxPcs == {"readRecord", "buid", "saveRecord", "deleteRecord"}

\* An answer: the request it is to, an error, and what the reader may find in it.
Answer(to) == [to |-> to, err |-> "", rec |-> NoRecord, num |-> 0, key |-> "", ssl |-> FALSE]
NoStream == [answers |-> <<>>, reader |-> NoCaller, mixed |-> FALSE, ended |-> FALSE]

VARIABLES mux,      \* the stream of d.umClient
          saved,    \* usbmuxd: the pair record it has for each device
          trust,    \* device: the pair records it accepts
          paired,   \* pair records generated for each device
          conns,    \* lockdown connections, with the device's end of each
          objs,     \* lockdown objects
          device,   \* lockdownClient, lockdown and the services of each device object
          services, \* service connections
          call,     \* each caller's call
          calls, faults, panic, \* calls begun, faults, what the program panicked on
          late, overlapped  \* history: a deadline has expired, two calls have overlapped

host  == <<objs, device, call, panic>>
world == <<saved, trust, paired, services>>
hist  == <<calls, late, overlapped>>
vars  == <<mux, conns, faults, host, world, hist>>

Idle == [op |-> "", dev |-> NoDev, pc |-> "idle", phase |-> "send", obj |-> 0, num |-> 0,
         rec |-> NoRecord, inner |-> FALSE, want |-> "", got |-> <<>>]

Init ==
    /\ mux = NoStream
    /\ \E known \in SUBSET Devs :
         saved = [d \in Devs |-> IF d \in known THEN [of |-> d, n |-> 0] ELSE NoRecord]
    /\ trust = [d \in Devs |-> {[of |-> d, n |-> 0]}]
    /\ paired = [d \in Devs |-> 0]
    /\ conns = <<>> /\ objs = <<>> /\ services = <<>>
    /\ device = [d \in Devs |-> [client |-> 0, lock |-> 0, cache |-> [f \in Kept \cup Reopened |-> <<>>]]]
    /\ call = [c \in Callers |-> Idle]
    /\ calls = 0 /\ faults = 0 /\ panic = ""
    /\ late = FALSE /\ overlapped = FALSE

Pc(c) == call[c].pc
MyLock(c) == device[call[c].dev].lock
\* GetValue reads d.lockdown anew for each of its calls; a service's start has c.
InGetValue(c) == call[c].op = "getValue" \/ call[c].inner
Goto(k, pc) == [k EXCEPT !.pc = pc, !.phase = "send"]
Go(c, pc) == call' = [call EXCEPT ![c] = Goto(@, pc)] /\ UNCHANGED <<device, panic>>
Done(c) == call' = [call EXCEPT ![c] = Idle] /\ UNCHANGED <<device, panic>>
Panic(what) == panic' = what /\ UNCHANGED <<device, call>>
MayFault == faults < MaxFaults /\ faults' = faults + 1

\* An error is returned. MisagentService goes on without the version; a service's
\* field is assigned nil when lockdown (for instruments, also lockdownService) fails.
Assigns(c) == /\ call[c].op \in (Kept \cup Reopened) \ {"misagent"}
              /\ call[c].op = "instruments" \/ Pc(c) \notin {"connect", "object", "version"}
Fail(c) ==
    /\ IF call[c].inner
       THEN /\ call' = [call EXCEPT ![c] = [Goto(@, "queryType") EXCEPT !.inner = FALSE, !.obj = MyLock(c)]]
            /\ UNCHANGED device
       ELSE /\ call' = [call EXCEPT ![c] = Idle]
            /\ device' = IF Assigns(c)
                         THEN [device EXCEPT ![call[c].dev].cache[Field(call[c].op)] = <<>>]
                         ELSE device
    /\ UNCHANGED panic
-----------------------------------------------------------------------------
\* A call: a kept service that is there is used; else lockdownService is the first step.
Begin(c) ==
    /\ Pc(c) = "idle" /\ calls < MaxCalls
    /\ \E op \in Ops, d \in Devs :
         /\ \A b \in Callers : Pc(b) = "idle" \/ {<<op, d>>, <<call[b].op, call[b].dev>>} \subseteq Sharing
         /\ call' = [call EXCEPT ![c] =
             [Idle EXCEPT !.op = op, !.dev = d, !.want = Field(op),
                          !.pc = IF op = "deletePairRecord" THEN "deleteRecord"
                                 ELSE IF op \in Kept /\ device[d].cache[op] # <<>> THEN "use"
                                 ELSE "connect"]]
    /\ calls' = calls + 1
    /\ overlapped' = (overlapped \/ \E b \in Callers : Pc(b) # "idle")
    /\ UNCHANGED <<mux, conns, faults, objs, device, panic, world, late>>

\* Mutant: a connection that failed is recorded all the same.
ConnectAnyway(c) ==
    /\ Pc(c) = "connect"
    /\ \/ /\ conns' = Append(conns, [stream |-> NoStream, dev |-> call[c].dev, tls |-> "off",
                                     devTls |-> "off", session |-> 0, sessions |-> 0])
          /\ device' = [device EXCEPT ![call[c].dev].client = Len(conns')]
          /\ call' = [call EXCEPT ![c].pc = "object"]
          /\ UNCHANGED <<faults, panic>>
       \/ /\ MayFault /\ UNCHANGED <<conns, call, panic>>
          /\ device' = [device EXCEPT ![call[c].dev].client = Len(conns) + 1]
    /\ UNCHANGED <<mux, objs, world, hist>>

\* lockdownService: a new connection each time, whose client replaces the old one.
Connect(c) ==
    /\ Pc(c) = "connect"
    /\ \/ /\ conns' = Append(conns, [stream |-> NoStream, dev |-> call[c].dev, tls |-> "off",
                                     devTls |-> "off", session |-> 0, sessions |-> 0])
          /\ device' = [device EXCEPT ![call[c].dev].client = Len(conns')]
          /\ call' = [call EXCEPT ![c].pc = "object"]
          /\ UNCHANGED <<faults, panic>>
       \/ MayFault /\ Fail(c) /\ UNCHANGED conns
    /\ UNCHANGED <<mux, objs, world, hist>>

NewLockdown(c) ==
    /\ Pc(c) = "object"
    /\ objs' = Append(objs, [client |-> device[call[c].dev].client, version |-> FALSE,
                             record |-> NoRecord, session |-> 0])
    /\ device' = [device EXCEPT ![call[c].dev].lock = Len(objs')]
    /\ call' = [call EXCEPT ![c].pc = "version"]
    /\ UNCHANGED <<mux, conns, faults, panic, world, hist>>

\* Mutant: GetValue begins its session without a handshake.
AfterLockdownHasty(c) ==
    LET k == [call[c] EXCEPT !.obj = MyLock(c)]
    IN CASE k.op = "misagent" /\ ~k.inner -> [Goto(k, "connect") EXCEPT !.inner = TRUE]
         [] k.op = "pair" -> Goto(k, "buid")
         [] k.op = "enterRecovery" -> Goto(k, "recovery")
         [] InGetValue(c) -> Goto(k, "session")
         [] OTHER -> Goto(k, "queryType")

\* What is done once lockdownService has returned, on d.lockdown as it is then.
AfterLockdown(c) ==
    LET k == [call[c] EXCEPT !.obj = MyLock(c)]
    IN CASE k.op = "misagent" /\ ~k.inner -> [Goto(k, "connect") EXCEPT !.inner = TRUE]
         [] k.op = "pair" -> Goto(k, "buid")
         [] k.op = "enterRecovery" -> Goto(k, "recovery")
         [] InGetValue(c) /\ objs[k.obj].record # NoRecord -> Goto(k, "session")
         [] OTHER -> Goto(k, "queryType")

\* _getProductVersion of a lockdown object that has it.
KnownVersion(c) ==
    /\ Pc(c) = "version" /\ call[c].phase = "send" /\ objs[MyLock(c)].version
    /\ call' = [call EXCEPT ![c] = AfterLockdown(c)]
    /\ UNCHANGED <<mux, conns, faults, objs, device, panic, world, hist>>
-----------------------------------------------------------------------------
\* The lockdown connection of a call's object. GetValue finds its object at each call,
\* lockdownService before the version.
ObjOf(c) == IF Pc(c) \in {"version", "value"} THEN MyLock(c) ELSE call[c].obj
ConnOf(c) == objs[IF call[c].phase = "send" THEN ObjOf(c) ELSE call[c].obj].client
Put(cn, a) == [cn EXCEPT !.stream.answers = Append(@, a)]
Refuse(cn, kind) == Put(cn, [Answer(kind) EXCEPT !.err = "error"])

\* The device (external): a session for a record it trusts, one at a time being the
\* host's affair; services within a session; TLS that it may drop after the session.
Served(cn, c) ==
    LET kind == LockKind[Pc(c)]  rec == call[c].rec  num == objs[ObjOf(c)].session
    IN CASE kind = "StartSession" /\ rec \in trust[cn.dev] ->
              {Put([cn EXCEPT !.session = cn.sessions + 1, !.sessions = @ + 1,
                              !.devTls = IF ssl THEN "asked" ELSE @],
                   [Answer(kind) EXCEPT !.num = cn.sessions + 1, !.ssl = ssl]) : ssl \in BOOLEAN}
         [] kind = "StopSession" /\ num = cn.session ->
              {Put([cn EXCEPT !.session = 0, !.devTls = t], Answer(kind)) : t \in {cn.devTls, "off"}}
         [] kind = "StartService" /\ cn.session # 0 ->
              {Put(cn, [Answer(kind) EXCEPT !.key = call[c].want])}
         [] kind \in {"GetValue", "QueryType", "Pair", "EnterRecovery"} ->
              {Put(cn, [Answer(kind) EXCEPT !.key = Pc(c)])}
         [] OTHER -> {Refuse(cn, kind)}

\* safeConn.Write: a handshake that has failed leaves a TLS connection that refuses.
Writable(cn) == ~cn.stream.ended /\ cn.tls # "failed"
\* Both ends write in clear or both encrypted, else the device ends the connection.
Readable(cn) == cn.tls = cn.devTls
Ended(cn) == [cn EXCEPT !.stream.ended = TRUE]

SendPacket(c) ==
    /\ Pc(c) \in DOMAIN LockKind /\ call[c].phase = "send"
    /\ Pc(c) = "version" => ~objs[MyLock(c)].version
    /\ Pc(c) = "start" => call[c].rec # NoRecord
    /\ LET i == ConnOf(c)
           cn == conns[i]
           Sent == /\ call' = [call EXCEPT ![c].phase = "length", ![c].obj = ObjOf(c)]
                   /\ UNCHANGED <<device, panic>>
       IN \/ ~Writable(cn) /\ Fail(c) /\ UNCHANGED <<conns, trust, faults>>
          \/ /\ Writable(cn) /\ ~Readable(cn)
             /\ conns' = [conns EXCEPT ![i] = Ended(cn)] /\ Sent
             /\ UNCHANGED <<trust, faults>>
          \/ /\ Writable(cn) /\ Readable(cn)
             /\ conns' \in {[conns EXCEPT ![i] = cn2] : cn2 \in Served(cn, c)} /\ Sent
             /\ trust' = IF Pc(c) = "pairDevice"
                         THEN [trust EXCEPT ![cn.dev] = @ \cup {call[c].rec}] ELSE trust
             /\ UNCHANGED faults
          \/ /\ Writable(cn) /\ Readable(cn) /\ MayFault /\ Sent
             /\ conns' \in {[conns EXCEPT ![i] = cn2] : cn2 \in {Ended(cn), Refuse(cn, LockKind[Pc(c)])}}
             /\ UNCHANGED trust
    /\ UNCHANGED <<mux, objs, saved, paired, services, hist>>

\* startSession(nil): pairRecord.SystemBUID.
NilRecord(c) == /\ Pc(c) = "start" /\ call[c].phase = "send" /\ call[c].rec = NoRecord
                /\ Panic("nil record")
                /\ UNCHANGED <<mux, conns, faults, objs, world, hist>>

\* The length of the next packet. A second reader in between finds part of the body
\* there: from then on neither finds the place of a packet again.
TakeLength(q, c) == IF q.reader = NoCaller THEN [q EXCEPT !.reader = c] ELSE [q EXCEPT !.mixed = TRUE]
TakeBody(q) == [q EXCEPT !.reader = NoCaller, !.answers = Tail(@)]
Unread(q) == q.answers # <<>> /\ ~q.mixed

ReadLength(c) ==
    /\ Pc(c) \in DOMAIN LockKind /\ call[c].phase = "length"
    /\ Unread(conns[ConnOf(c)].stream)
    /\ conns' = [conns EXCEPT ![ConnOf(c)].stream = TakeLength(@, c)]
    /\ call' = [call EXCEPT ![c].phase = "body"]
    /\ UNCHANGED <<mux, faults, objs, device, panic, world, hist>>

\* A read of a connection that has ended, or of one whose packets are mixed up.
ReadError(c) ==
    /\ Pc(c) \in DOMAIN LockKind /\ call[c].phase # "send"
    /\ LET q == conns[ConnOf(c)].stream IN q.mixed \/ (q.ended /\ ~Unread(q))
    /\ Fail(c)
    /\ UNCHANGED <<mux, conns, faults, objs, world, hist>>

\* The caller has the packet of answer a.
Got(c, pcs) == /\ Pc(c) \in pcs /\ call[c].phase = "body"
               /\ LET q == conns[ConnOf(c)].stream IN ~q.mixed /\ q.reader = c
               /\ conns' = [conns EXCEPT ![ConnOf(c)].stream = TakeBody(@)]
               /\ UNCHANGED <<mux, faults, world, hist>>
Ans(c) == Head(conns[ConnOf(c)].stream.answers)
-----------------------------------------------------------------------------
\* lockdownValue.([]byte) and .(string): the answer to another request panics.
HasType(c) == Ans(c).to = "GetValue" /\ (Ans(c).key = "publicKey") = (Pc(c) = "publicKey")

GotVersion(c) ==
    /\ Got(c, {"version"})
    /\ \/ Ans(c).err # "" /\ Fail(c) /\ UNCHANGED objs
       \/ Ans(c).err = "" /\ ~HasType(c) /\ Panic("type") /\ UNCHANGED objs
       \/ /\ Ans(c).err = "" /\ HasType(c)
          /\ objs' = [objs EXCEPT ![call[c].obj].version = TRUE]
          /\ call' = [call EXCEPT ![c] = AfterLockdown(c)] /\ UNCHANGED <<device, panic>>

\* handshake: QueryType, then usbmuxd's pair record.
GotType(c) ==
    /\ Got(c, {"queryType"})
    /\ \/ Ans(c).to = "QueryType" /\ Ans(c).err = "" /\ call[c].op # "queryType" /\ Go(c, "readRecord")
       \/ Ans(c).to = "QueryType" /\ Ans(c).err = "" /\ call[c].op = "queryType" /\ Done(c)
       \/ ~(Ans(c).to = "QueryType" /\ Ans(c).err = "") /\ Fail(c)
    /\ UNCHANGED objs

\* Pair: the device's public key and address, then a record generated for it.
GotPublicKey(c) ==
    /\ Got(c, {"publicKey"})
    /\ \/ Ans(c).err # "" /\ Fail(c)
       \/ Ans(c).err = "" /\ ~HasType(c) /\ Panic("type")
       \/ Ans(c).err = "" /\ HasType(c) /\ Go(c, "wifi")
    /\ UNCHANGED objs

GotWifi(c) ==
    /\ Pc(c) = "wifi" /\ call[c].phase = "body"
    /\ LET q == conns[ConnOf(c)].stream  d == call[c].dev
       IN /\ ~q.mixed /\ q.reader = c
          /\ \/ Ans(c).err # "" /\ Fail(c) /\ UNCHANGED paired
             \/ Ans(c).err = "" /\ ~HasType(c) /\ Panic("type") /\ UNCHANGED paired
             \/ /\ Ans(c).err = "" /\ HasType(c)
                /\ paired' = [paired EXCEPT ![d] = @ + 1]
                /\ call' = [call EXCEPT ![c] = [Goto(@, "pairDevice") EXCEPT !.rec = [of |-> d, n |-> paired'[d]]]]
                /\ UNCHANGED <<device, panic>>
    /\ conns' = [conns EXCEPT ![ConnOf(c)].stream = TakeBody(@)]
    /\ UNCHANGED <<mux, faults, objs, saved, trust, services, hist>>

\* The handshake saves the record; d.Pair hands it out.
GotPair(c) ==
    /\ Got(c, {"pairDevice"})
    /\ \/ Ans(c).err # "" /\ Fail(c) /\ UNCHANGED objs
       \/ Ans(c).err = "" /\ call[c].op = "pair" /\ Done(c) /\ UNCHANGED objs
       \/ /\ Ans(c).err = "" /\ call[c].op # "pair"
          /\ objs' = [objs EXCEPT ![call[c].obj].record = call[c].rec]
          /\ Go(c, "saveRecord")
-----------------------------------------------------------------------------
\* Mutant: a running session is not stopped first.
BeginSessionAnew(c) ==
    /\ Pc(c) = "session"
    /\ LET o == IF InGetValue(c) THEN MyLock(c) ELSE call[c].obj
       IN call' = [call EXCEPT ![c] = [Goto(@, "start") EXCEPT !.obj = o, !.rec = objs[o].record]]
    /\ UNCHANGED <<mux, conns, faults, objs, device, panic, world, hist>>

\* startSession(pairRecord): a running session is stopped first.
BeginSession(c) ==
    /\ Pc(c) = "session"
    /\ LET o == IF InGetValue(c) THEN MyLock(c) ELSE call[c].obj
           first == IF objs[o].session # 0 THEN "stopRunning" ELSE "start"
       IN call' = [call EXCEPT ![c] = [Goto(@, first) EXCEPT !.obj = o, !.rec = objs[o].record]]
    /\ UNCHANGED <<mux, conns, faults, objs, device, panic, world, hist>>

\* In a session: the value asked for, or the service.
InSession(c) == IF InGetValue(c) THEN "value" ELSE "service"

GotSession(c) ==
    /\ Got(c, {"start"})
    /\ \/ Ans(c).err # "" /\ Fail(c) /\ UNCHANGED objs
       \/ /\ Ans(c).err = "" /\ Ans(c).ssl
          /\ call' = [call EXCEPT ![c] = [Goto(@, "tls") EXCEPT !.num = Ans(c).num]]
          /\ UNCHANGED <<objs, device, panic>>
       \/ /\ Ans(c).err = "" /\ ~Ans(c).ssl
          /\ objs' = [objs EXCEPT ![call[c].obj].session = Ans(c).num]
          /\ Go(c, InSession(c))

\* EnableSSL: the key pair of the record, the TLS handshake on the bare connection,
\* and only then the session is recorded. sslConn is set before the handshake runs.
EnableSSL(c) ==
    /\ Pc(c) = "tls" /\ objs[call[c].obj].version
    /\ LET i == ConnOf(c)
           cn == conns[i]
       IN \/ /\ call[c].rec = EmptyRecord /\ Fail(c) /\ UNCHANGED <<conns, objs, faults>>
          \/ /\ call[c].rec # EmptyRecord
             /\ \/ /\ cn.devTls = "asked" /\ cn.stream = NoStream
                   /\ conns' = [conns EXCEPT ![i].tls = "on", ![i].devTls = "on"]
                   /\ objs' = [objs EXCEPT ![call[c].obj].session = call[c].num]
                   /\ Go(c, InSession(c)) /\ UNCHANGED faults
                \/ /\ MayFault \/ ((cn.devTls # "asked" \/ cn.stream # NoStream) /\ UNCHANGED faults)
                   /\ conns' = [conns EXCEPT ![i] = [cn EXCEPT !.tls = "failed", !.stream.ended = TRUE]]
                   /\ Fail(c) /\ UNCHANGED objs
    /\ UNCHANGED <<mux, world, hist>>

\* EnableSSL(iOSVersion, ...) indexes the version, which MisagentService may lack.
NilVersion(c) == /\ Pc(c) \in {"tls", "secure"} /\ ~objs[call[c].obj].version
                 /\ Panic("nil version")
                 /\ UNCHANGED <<mux, conns, faults, objs, world, hist>>

GotService(c) ==
    /\ Got(c, {"service"})
    /\ \/ Ans(c).err # "" /\ Fail(c)
       \/ /\ Ans(c).err = ""
          /\ call' = [call EXCEPT ![c] = [Goto(@, "end") EXCEPT
                          !.want = IF Ans(c).to = "StartService" THEN Ans(c).key ELSE ""]]
          /\ UNCHANGED <<device, panic>>
    /\ UNCHANGED objs

GotValue(c) ==
    /\ Got(c, {"value"})
    /\ \/ Ans(c).err # "" /\ Fail(c)
       \/ Ans(c).err = "" /\ Go(c, "end")
    /\ UNCHANGED objs

\* After the session: GetValue returns, a service is dialled.
AfterSession(k) ==
    IF k.inner THEN [Goto(k, "queryType") EXCEPT !.inner = FALSE, !.obj = device[k.dev].lock]
    ELSE IF k.op = "getValue" THEN Idle ELSE Goto(k, "dial")

\* Mutant: the packet of StopSession is made and not sent.
EndSessionUnsent(c) ==
    /\ Pc(c) = "end"
    /\ LET o == IF InGetValue(c) THEN MyLock(c) ELSE call[c].obj
           k == [call[c] EXCEPT !.obj = o]
       IN call' = [call EXCEPT ![c] = IF objs[o].session # 0 THEN [Goto(k, "stop") EXCEPT !.phase = "length"]
                                      ELSE AfterSession(k)]
    /\ UNCHANGED <<mux, conns, faults, objs, device, panic, world, hist>>

\* stopSession returns at once when no session is recorded.
EndSession(c) ==
    /\ Pc(c) = "end"
    /\ LET o == IF InGetValue(c) THEN MyLock(c) ELSE call[c].obj
           k == [call[c] EXCEPT !.obj = o]
       IN call' = [call EXCEPT ![c] = IF objs[o].session # 0 THEN Goto(k, "stop") ELSE AfterSession(k)]
    /\ UNCHANGED <<mux, conns, faults, objs, device, panic, world, hist>>

\* Mutant: the session is forgotten though the device refused to stop it.
StoppedAnyway(c) ==
    /\ Got(c, {"stop", "stopRunning"})
    /\ objs' = [objs EXCEPT ![call[c].obj].session = 0]
    /\ IF Ans(c).err # "" THEN Fail(c)
       ELSE /\ call' = [call EXCEPT ![c] = IF Pc(c) = "stop" THEN AfterSession(call[c])
                                           ELSE Goto(call[c], "start")]
            /\ UNCHANGED <<device, panic>>

\* The session is forgotten only when the device has said that it is stopped.
Stopped(c) ==
    /\ Got(c, {"stop", "stopRunning"})
    /\ \/ Ans(c).err # "" /\ Fail(c) /\ UNCHANGED objs
       \/ /\ Ans(c).err = ""
          /\ objs' = [objs EXCEPT ![call[c].obj].session = 0]
          /\ call' = [call EXCEPT ![c] = IF Pc(c) = "stop" THEN AfterSession(call[c])
                                         ELSE Goto(call[c], "start")]
          /\ UNCHANGED <<device, panic>>

GotRecovery(c) ==
    /\ Got(c, {"recovery"})
    /\ IF Ans(c).err # "" THEN Fail(c) ELSE Done(c)
    /\ UNCHANGED objs
-----------------------------------------------------------------------------
\* NewConnect to the service's port, without a deadline.
Dial(c) ==
    /\ Pc(c) = "dial"
    /\ \/ /\ call[c].want # ""
          /\ services' = Append(services, [dev |-> call[c].dev, svc |-> call[c].want])
          /\ call' = [call EXCEPT ![c] = [Goto(@, "secure") EXCEPT !.got = Append(call[c].got, Len(services'))]]
          /\ UNCHANGED <<faults, device, panic>>
       \/ /\ MayFault \/ (call[c].want = "" /\ UNCHANGED faults)
          /\ Fail(c) /\ UNCHANGED services
    /\ UNCHANGED <<mux, conns, objs, saved, trust, paired, hist>>

\* Mutant: the mover is kept before its second service is there.
SecureEarly(c) ==
    /\ Pc(c) = "secure"
    /\ \/ /\ call[c].op \in HandedOut /\ Done(c) /\ UNCHANGED faults
       \/ /\ call[c].op \in Kept \cup Reopened
          /\ device' = [device EXCEPT ![call[c].dev].cache[Field(call[c].op)] = call[c].got]
          /\ call' = [call EXCEPT ![c] = Goto(@, "use")]
          /\ UNCHANGED <<faults, panic>>
       \/ MayFault /\ Fail(c)
    /\ UNCHANGED <<mux, conns, objs, world, hist>>

\* The service's own opening: TLS, the capabilities of a DTX service, the mover's ping.
\* The mover then starts its second service on the same lockdown object.
Secure(c) ==
    /\ Pc(c) = "secure"
    /\ \/ /\ call[c].op = "crashReportMover" /\ Len(call[c].got) = 1
          /\ call' = [call EXCEPT ![c] = [Goto(@, "queryType") EXCEPT !.want = "crashReportCopy"]]
          /\ UNCHANGED <<faults, device, panic>>
       \/ /\ call[c].op \in HandedOut /\ Done(c) /\ UNCHANGED faults
       \/ /\ call[c].op \in Kept \cup Reopened /\ Len(call[c].got) = Len(Leads(call[c].op))
          /\ device' = [device EXCEPT ![call[c].dev].cache[Field(call[c].op)] = call[c].got]
          /\ call' = [call EXCEPT ![c] = Goto(@, "use")]
          /\ UNCHANGED <<faults, panic>>
       \/ MayFault /\ Fail(c)
    /\ UNCHANGED <<mux, conns, objs, world, hist>>

\* The operation itself, on the field as it is now: nil if a call that failed in
\* between has assigned it.
Use(c) ==
    /\ Pc(c) = "use"
    /\ IF device[call[c].dev].cache[Field(call[c].op)] = <<>> THEN Panic("nil service") ELSE Done(c)
    /\ UNCHANGED <<mux, conns, faults, objs, world, hist>>
-----------------------------------------------------------------------------
\* usbmuxd (external) handles a request on d.umClient.
MuxAnswer(c) ==
    LET k == call[c]
    IN CASE k.pc = "readRecord" /\ saved[k.dev] = NoRecord ->
              [Answer("ReadPairRecord") EXCEPT !.err = "bad device"]
         [] k.pc = "readRecord" /\ saved[k.dev] # NoRecord ->
              [Answer("ReadPairRecord") EXCEPT !.rec = saved[k.dev]]
         [] k.pc = "deleteRecord" /\ saved[k.dev] = NoRecord ->
              [Answer("DeletePairRecord") EXCEPT !.err = "error"]
         [] OTHER -> Answer(k.pc)
Saved(k) == CASE k.pc = "saveRecord" -> [saved EXCEPT ![k.dev] = k.rec]
              [] k.pc = "deleteRecord" -> [saved EXCEPT ![k.dev] = NoRecord]
              [] OTHER -> saved

MuxSend(c) ==
    /\ Pc(c) \in MuxPcs /\ call[c].phase = "send"
    /\ \/ /\ mux' = [mux EXCEPT !.answers = Append(@, MuxAnswer(c))]
          /\ saved' = Saved(call[c]) /\ UNCHANGED faults
       \/ /\ MayFault
          /\ mux' = [mux EXCEPT !.answers = Append(@, [Answer(Pc(c)) EXCEPT !.err = "error"])]
          /\ UNCHANGED saved
    /\ call' = [call EXCEPT ![c].phase = "length"]
    /\ UNCHANGED <<conns, objs, device, panic, trust, paired, services, hist>>

MuxReadLength(c) ==
    /\ Pc(c) \in MuxPcs /\ call[c].phase = "length" /\ Unread(mux)
    /\ mux' = TakeLength(mux, c)
    /\ call' = [call EXCEPT ![c].phase = "body"]
    /\ UNCHANGED <<conns, faults, objs, device, panic, world, hist>>

\* The read deadline: an error, and the answer stays in the stream, or half of it.
MuxDeadline(c) ==
    /\ Pc(c) \in MuxPcs /\ call[c].phase # "send"
    /\ MayFault \/ (mux.mixed /\ UNCHANGED faults)
    /\ mux' = [mux EXCEPT !.mixed = @ \/ (mux.reader = c)]
    /\ late' = TRUE
    /\ Fail(c)
    /\ UNCHANGED <<conns, objs, world, calls, overlapped>>

MuxGot(c, pcs) == /\ Pc(c) \in pcs /\ call[c].phase = "body" /\ ~mux.mixed /\ mux.reader = c
                  /\ mux' = TakeBody(mux)
                  /\ UNCHANGED <<conns, faults, world, hist>>
MuxAns == Head(mux.answers)
SetRecord(c, r) == objs' = [objs EXCEPT ![call[c].obj].record = r]

\* Mutant: any error of ReadPairRecord leads to a new pairing.
GotRecordPairs(c) ==
    /\ MuxGot(c, {"readRecord"})
    /\ \/ MuxAns.err # "" /\ Go(c, "buid") /\ SetRecord(c, NoRecord)
       \/ /\ MuxAns.err = ""
          /\ SetRecord(c, IF MuxAns.to = "ReadPairRecord" THEN MuxAns.rec ELSE EmptyRecord)
          /\ Go(c, "session")

\* handshake: a record, or its absence, which leads to a pairing, or an error. The
\* answer to another request decodes to an empty record.
GotRecord(c) ==
    /\ MuxGot(c, {"readRecord"})
    /\ \/ MuxAns.err = "bad device" /\ Go(c, "buid") /\ SetRecord(c, NoRecord)
       \/ MuxAns.err = "error" /\ Fail(c) /\ SetRecord(c, NoRecord)
       \/ /\ MuxAns.err = ""
          /\ SetRecord(c, IF MuxAns.to = "ReadPairRecord" THEN MuxAns.rec ELSE EmptyRecord)
          /\ Go(c, "session")

GotBUID(c) ==
    /\ MuxGot(c, {"buid"})
    /\ IF MuxAns.err # "" THEN Fail(c) ELSE Go(c, "publicKey")
    /\ UNCHANGED objs

\* Mutant: the answer to SavePairRecord is not read.
GotSavedUnread(c) ==
    /\ Pc(c) \in {"saveRecord", "deleteRecord"} /\ call[c].phase = "length"
    /\ IF Pc(c) = "saveRecord" THEN Go(c, "session") ELSE Done(c)
    /\ UNCHANGED <<mux, conns, objs, faults, world, hist>>

GotSaved(c) ==
    /\ MuxGot(c, {"saveRecord", "deleteRecord"})
    /\ IF MuxAns.err # "" THEN Fail(c)
       ELSE IF Pc(c) = "saveRecord" THEN Go(c, "session") ELSE Done(c)
    /\ UNCHANGED objs

-----------------------------------------------------------------------------
Step(c) ==
    /\ panic = ""
    /\ \/ Connect(c) \/ NewLockdown(c) \/ KnownVersion(c)
       \/ SendPacket(c) \/ NilRecord(c) \/ ReadLength(c) \/ ReadError(c)
       \/ GotVersion(c) \/ GotType(c) \/ GotPublicKey(c) \/ GotWifi(c) \/ GotPair(c)
       \/ BeginSession(c) \/ GotSession(c) \/ EnableSSL(c) \/ NilVersion(c)
       \/ GotService(c) \/ GotValue(c) \/ EndSession(c) \/ Stopped(c) \/ GotRecovery(c)
       \/ Dial(c) \/ Secure(c) \/ Use(c)
       \/ MuxSend(c) \/ MuxReadLength(c) \/ MuxDeadline(c)
       \/ GotRecord(c) \/ GotBUID(c) \/ GotSaved(c)

Next == \E c \in Callers : (panic = "" /\ Begin(c)) \/ Step(c)

Spec == Init /\ [][Next]_vars
-----------------------------------------------------------------------------
\* What an answer can be to, and what it can name.
Requests == {LockKind[pc] : pc \in DOMAIN LockKind} \cup MuxPcs \cup {"ReadPairRecord", "DeletePairRecord"}
Names == ServiceOps \cup PlainOps \cup DOMAIN LockKind \cup {"crashReportCopy", ""}
Stream == [answers: Seq([to: Requests, err: {"", "error", "bad device"}, rec: Record, num: Nat,
                         key: Names, ssl: BOOLEAN]),
           reader: Callers \cup {NoCaller}, mixed: BOOLEAN, ended: BOOLEAN]
Tls == {"off", "asked", "on", "failed"}

\* Types; a recorded session, a client and a kept service are ones that have existed.
TypeOK ==
    /\ mux \in Stream
    /\ saved \in [Devs -> Record] /\ trust \in [Devs -> SUBSET Record]
    /\ \A cn \in ToSet(conns) : /\ cn.stream \in Stream /\ cn.tls \in Tls /\ cn.devTls \in Tls
                                /\ cn.session \in 0..cn.sessions
    /\ \A o \in ToSet(objs) : /\ o.client \in DOMAIN conns
                              /\ o.session \in 0..conns[o.client].sessions
    /\ \A d \in Devs : /\ device[d].client \in 0..Len(conns) /\ device[d].lock \in 0..Len(objs)
                       /\ \A f \in DOMAIN device[d].cache :
                            ToSet(device[d].cache[f]) \subseteq DOMAIN services
    /\ \A c \in Callers : call[c].obj \in 0..Len(objs) /\ call[c].rec \in Record

\* The service a device keeps under a name is that device's service of that name,
\* with all the connections it needs, unless calls have overlapped: two calls then
\* share one lockdown connection and read each other's ports.
OwnService ==
    overlapped \/ \A d \in Devs : \A op \in Kept \cup Reopened :
        LET got == device[d].cache[Field(op)]
        IN got # <<>> => [i \in DOMAIN got |-> services[got[i]]]
                          = [i \in DOMAIN Leads(op) |-> [dev |-> d, svc |-> Leads(op)[i]]]

\* A session is begun with the pair record of the device it is with, unless the answer
\* of an earlier request came after its deadline (it is then read in place of the next
\* one, which may be another device's) or calls have overlapped.
OwnRecord ==
    late \/ overlapped \/ \A c \in Callers : Pc(c) = "start" => call[c].rec.of = call[c].dev

\* The handshake pairs with a device only when usbmuxd has no record of it.
PairsOnlyIfMissing ==
    late \/ overlapped \/ \A c \in Callers :
        Pc(c) \in {"buid", "publicKey", "wifi", "pairDevice"} /\ call[c].op # "pair"
            => saved[call[c].dev] = NoRecord

\* "if we have a running session, stop current one first": a session is never begun on
\* a connection on which the device has one running, whatever failed before.
StopsRunningFirst ==
    [][overlapped \/ \A i \in DOMAIN conns :
          conns'[i].sessions > conns[i].sessions => conns[i].session = 0]_vars

\* Between requests the object's session is the device's, on every connection on
\* which another request could still be read.
InExchange(c, o) == call[c].obj = o /\ (call[c].phase # "send" \/ Pc(c) = "tls")
SessionsAgree ==
    overlapped \/ \A o \in DOMAIN objs :
        LET cn == conns[objs[o].client]
        IN \/ \E c \in Callers : InExchange(c, o)
           \/ objs[o].session = cn.session
           \/ ~Writable(cn) \/ ~Readable(cn)

\* What the program can panic on without calls that overlap: only the version that
\* MisagentService goes on without.
PanicHasCause ==
    panic # "" => overlapped \/ (panic = "nil version" /\ \E c \in Callers : call[c].op = "misagent")

\* A call that waits for an answer, for which a lockdown connection has no deadline,
\* waits for one that is still to be read, or that can no longer come: it reads as
\* many answers as it has asked for, on the connection it asked on.
AnswerAwaited ==
    \A c \in Callers :
        call[c].phase = "length" =>
            LET q == IF Pc(c) \in MuxPcs THEN mux ELSE conns[ConnOf(c)].stream
            IN q.answers # <<>> \/ q.ended \/ q.mixed
=============================================================================
