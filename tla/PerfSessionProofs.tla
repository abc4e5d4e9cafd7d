-------------------------- MODULE PerfSessionProofs --------------------------
(***************************************************************************)
(* Proofs about PerfSession, for any number of users, monitors and calls.  *)
(***************************************************************************)
EXTENDS PerfSession, SequenceTheorems, TLAPS

LEMMA Bounds == MaxMonitors \in Nat /\ MaxStops \in Nat
  BY SessionAssumption DEF SessionAssumption

LEMMA IdleType == Idle \in UserState
<1>1. <<>> \in Seq(Monitors)
  OBVIOUS
<1>2. QED
  BY <1>1 DEF Idle, UserState

LEMMA EnterType ==
    ASSUME TypeOK, NEW u \in Users, NEW n \in 0..3, NEW pc \in {"pid", "make", "stop"},
           NEW s \in Seq(Monitors), Enter(u, pc, n, s)
    PROVE  /\ user' \in [Users -> UserState] /\ overlapped' \in BOOLEAN
           /\ \A v \in Users \ {u} : user'[v] = user[v]
           /\ user'[u].mon = 0 /\ user'[u].pc = pc /\ user'[u].list = s
           /\ (overlapped => overlapped') /\ ~InCall(u)
<1> DEFINE r == [pc |-> pc, left |-> n, mon |-> 0, list |-> s]
<1>1. r \in UserState /\ r.mon = 0 /\ r.pc = pc /\ r.list = s
  BY DEF UserState
<1>2. user' = [user EXCEPT ![u] = r]
  BY DEF Enter
<1>3. overlapped' \in BOOLEAN /\ (overlapped => overlapped') /\ ~InCall(u)
  BY DEF Enter, TypeOK
<1>4. QED
  BY <1>1, <1>2, <1>3 DEF TypeOK

LEMMA LeaveType ==
    ASSUME TypeOK, NEW u \in Users, NEW c, Leave(u, c)
    PROVE  /\ user' \in [Users -> UserState]
           /\ \A v \in Users \ {u} : user'[v] = user[v]
           /\ user'[u] = Idle
  BY IdleType DEF Leave, TypeOK

\* PerfStart holds a monitor exactly between making and recording it.
InHand == \A u \in Users :
    IF user[u].pc \in {"load", "store"} THEN user[u].mon \in Monitors ELSE user[u].mon = 0

Typed == TypeOK /\ InHand

LEMMA TypedInit == Init => Typed
<1> SUFFICES ASSUME Init PROVE Typed
  OBVIOUS
<1>1. user \in [Users -> UserState] /\ \A u \in Users : user[u] = Idle
  BY IdleType DEF Init
<1>2. InHand
  BY <1>1 DEF InHand, Idle
<1>3. perfd \in Seq(Monitors) /\ made \in 0..MaxMonitors /\ stops \in 0..MaxStops
  <2>1. perfd = <<>> /\ made = 0 /\ stops = 0
    BY DEF Init
  <2>2. <<>> \in Seq(Monitors)
    OBVIOUS
  <2>3. QED
    BY <2>1, <2>2, Bounds
<1>4. QED
  BY <1>1, <1>2, <1>3 DEF Init, Typed, TypeOK

\* A call of PerfStart or PerfStop that begins or ends, or another step of it.
LEMMA TypedStep == Typed /\ [Next]_vars => Typed'
<1> SUFFICES ASSUME Typed, [Next]_vars PROVE Typed'
  OBVIOUS
<1>1. TypeOK /\ \A u \in Users : user[u] \in UserState
  BY DEF Typed, TypeOK
<1>2. ASSUME NEW u \in Users, PerfStart(u) PROVE Typed'
  <2>1. PICK n \in 0..3, pc \in {"pid", "make"} : Enter(u, pc, n, <<>>)
    BY <1>2 DEF PerfStart
  <2>2. <<>> \in Seq(Monitors)
    OBVIOUS
  <2>3. /\ user' \in [Users -> UserState] /\ overlapped' \in BOOLEAN
        /\ \A v \in Users \ {u} : user'[v] = user[v]
        /\ user'[u].mon = 0 /\ user'[u].pc = pc
    BY <1>1, <2>1, <2>2, EnterType
  <2>4. QED
    BY <1>2, <2>3 DEF PerfStart, Typed, TypeOK, InHand
<1>3. ASSUME NEW u \in Users, PerfStop(u) PROVE Typed'
  <2>1. perfd \in Seq(Monitors) /\ stops \in 0..MaxStops
    BY <1>1 DEF TypeOK
  <2>2. Enter(u, "stop", 0, perfd) /\ stops < MaxStops /\ stops' = stops + 1
    BY <1>3 DEF PerfStop
  <2>3. stops' \in 0..MaxStops
    BY <2>1, <2>2, Bounds
  <2>4. 0 \in 0..3 /\ "stop" \in {"pid", "make", "stop"}
    OBVIOUS
  <2>5. /\ user' \in [Users -> UserState] /\ overlapped' \in BOOLEAN
        /\ \A v \in Users \ {u} : user'[v] = user[v]
        /\ user'[u].mon = 0 /\ user'[u].pc = "stop"
    BY <1>1, <2>1, <2>2, <2>4, EnterType
  <2>6. QED
    BY <1>3, <2>3, <2>5 DEF PerfStop, Typed, TypeOK, InHand
<1>4. ASSUME NEW u \in Users, NEW c \in {"start", "stop"}, Leave(u, c),
             UNCHANGED <<perfd, closed, running, made, ended, stops, overlapped>>
      PROVE  Typed'
  <2>1. /\ user' \in [Users -> UserState]
        /\ \A v \in Users \ {u} : user'[v] = user[v]
        /\ user'[u].mon = 0 /\ user'[u].pc = "idle"
    BY <1>1, <1>4, LeaveType DEF Idle
  <2>2. QED
    BY <1>4, <2>1 DEF Leave, Typed, TypeOK, InHand
<1>5. ASSUME NEW u \in Users, Pid(u) PROVE Typed'
  <2>1. user[u].mon = 0 /\ [user[u] EXCEPT !.pc = "make"] \in UserState
    BY <1>1, <1>5 DEF Pid, Typed, InHand, UserState
  <2>2. user' = user \/ user' = [user EXCEPT ![u] = [user[u] EXCEPT !.pc = "make"]]
    BY <1>5 DEF Pid
  <2>3. [user[u] EXCEPT !.pc = "make"].mon = 0 /\ [user[u] EXCEPT !.pc = "make"].pc = "make"
    BY <1>1, <2>1 DEF UserState
  <2>4. user' \in [Users -> UserState] /\ InHand'
    BY <1>1, <2>1, <2>2, <2>3 DEF Typed, TypeOK, InHand
  <2>5. QED
    BY <1>5, <2>4 DEF Pid, Typed, TypeOK
<1>6. ASSUME NEW u \in Users, Make(u) PROVE Typed'
  <2>1. CASE Leave(u, "start") /\ UNCHANGED <<made, running>>
    BY <1>4, <1>6, <2>1 DEF Make
  <2>2. CASE /\ made < MaxMonitors /\ UNCHANGED last
             /\ made' = made + 1 /\ running' = running \cup {made + 1}
             /\ user' = [user EXCEPT ![u] = [user[u] EXCEPT !.pc = "load", !.mon = made + 1,
                                              !.left = user[u].left - 1]]
    <3> DEFINE r == [user[u] EXCEPT !.pc = "load", !.mon = made + 1, !.left = user[u].left - 1]
    <3>0. made \in 0..MaxMonitors
      BY <1>1 DEF TypeOK
    <3>1. made + 1 \in Monitors /\ made' \in 0..MaxMonitors
      BY <2>2, <3>0, Bounds DEF Monitors
    <3>2. user[u].left \in 0..3 /\ user[u].left > 0
      BY <1>1, <1>6 DEF Make, UserState
    <3>3. r \in UserState /\ r.pc = "load" /\ r.mon = made + 1
      <4>1. user[u].left - 1 \in 0..3
        BY <3>2
      <4>2. QED
        BY <1>1, <3>1, <4>1 DEF UserState
    <3>4. user' = [user EXCEPT ![u] = r]
      BY <2>2
    <3>5. user' \in [Users -> UserState] /\ InHand'
      BY <1>1, <3>1, <3>3, <3>4 DEF Typed, TypeOK, InHand
    <3>6. QED
      BY <1>6, <2>2, <3>1, <3>5 DEF Make, Typed, TypeOK
  <2>3. QED
    BY <1>6, <2>1, <2>2 DEF Make
<1>7. ASSUME NEW u \in Users, Load(u) PROVE Typed'
  <2> DEFINE r == [user[u] EXCEPT !.pc = "store", !.list = perfd]
  <2>1. r \in UserState /\ r.pc = "store" /\ r.mon = user[u].mon /\ r.mon \in Monitors
    BY <1>1, <1>7 DEF Load, Typed, TypeOK, InHand, UserState
  <2>2. user' = [user EXCEPT ![u] = r]
    BY <1>7 DEF Load
  <2>3. user' \in [Users -> UserState] /\ InHand'
    BY <1>1, <2>1, <2>2 DEF Typed, TypeOK, InHand
  <2>4. QED
    BY <1>7, <2>3 DEF Load, Typed, TypeOK
<1>8. ASSUME NEW u \in Users, Store(u) PROVE Typed'
  <2> DEFINE r == [user[u] EXCEPT !.pc = "make", !.mon = 0, !.list = <<>>]
  <2>1. <<>> \in Seq(Monitors)
    OBVIOUS
  <2>2. r \in UserState /\ r.pc = "make" /\ r.mon = 0
    BY <1>1, <2>1 DEF UserState
  <2>3. user' = [user EXCEPT ![u] = r]
    BY <1>8 DEF Store
  <2>4. user' \in [Users -> UserState] /\ InHand'
    BY <1>1, <2>2, <2>3 DEF Typed, TypeOK, InHand
  <2>5. perfd' \in Seq(Monitors)
    BY <1>1, <1>8, AppendProperties DEF Store, Typed, InHand, UserState
  <2>6. QED
    BY <1>8, <2>4, <2>5 DEF Store, Typed, TypeOK
<1>9. ASSUME NEW u \in Users, StopOne(u) PROVE Typed'
  <2>1. Head(user[u].list) \in Monitors /\ Tail(user[u].list) \in Seq(Monitors)
    BY <1>1, <1>9, HeadTailProperties DEF StopOne, UserState
  <2> DEFINE r == [user[u] EXCEPT !.list = Tail(user[u].list)]
  <2>2. r \in UserState /\ r.pc = "stop" /\ r.mon = 0
    BY <1>1, <1>9, <2>1 DEF UserState, StopOne, Typed, InHand
  <2>3. user' = user \/ user' = [user EXCEPT ![u] = r]
    BY <1>9 DEF StopOne
  <2>4. user' \in [Users -> UserState] /\ InHand'
    BY <1>1, <2>2, <2>3 DEF Typed, TypeOK, InHand
  <2>5. QED
    BY <1>9, <2>1, <2>4 DEF StopOne, Typed, TypeOK
<1>10. CASE UNCHANGED vars
  BY <1>10 DEF vars, Typed, TypeOK, InHand
<1>11. QED
  BY <1>2, <1>3, <1>4, <1>5, <1>6, <1>7, <1>8, <1>9, <1>10 DEF Next, PerfStarted, Stopped

\* Every reachable state is well formed.
THEOREM SessionTypeCorrect == Spec => []TypeOK
<1>1. Typed => TypeOK
  BY DEF Typed
<1>2. QED
  BY <1>1, TypedInit, TypedStep, PTL DEF Spec
-----------------------------------------------------------------------------
(***************************************************************************)
(* While no two calls overlap: PerfStart stores the list it loaded with    *)
(* one monitor more, and PerfStop has closed, or has yet to visit, every   *)
(* monitor of d.perfd.                                                     *)
(***************************************************************************)
Alone == \A u, v \in Users : InCall(u) /\ InCall(v) => u = v
Loaded == \A u \in Users : user[u].pc = "store" => user[u].list = perfd
Reachable == \A m \in running \ closed :
    m \in ToSet(perfd) \/ \E u \in Users : user[u].mon = m
Visited == \A u \in Users :
    user[u].pc = "stop" => ToSet(perfd) \subseteq closed \cup ToSet(user[u].list)
Finished == ended = "" /\ last = "stop" /\ (\A u \in Users : ~InCall(u)) =>
    running \subseteq closed

Inv == ~overlapped => Alone /\ Loaded /\ Reachable /\ Visited /\ Finished

LEMMA AppendSet ==
    ASSUME NEW S, NEW s \in Seq(S), NEW e
    PROVE  ToSet(Append(s, e)) = ToSet(s) \cup {e}
<1>1. /\ DOMAIN Append(s, e) = 1..(Len(s) + 1) /\ DOMAIN s = 1..Len(s)
      /\ Len(s) \in Nat
      /\ \A i \in 1..Len(s) : Append(s, e)[i] = s[i]
      /\ Append(s, e)[Len(s) + 1] = e
  OBVIOUS
<1>2. QED
  BY <1>1, SMT DEF ToSet

LEMMA TailSet ==
    ASSUME NEW S, NEW s \in Seq(S), s # <<>>
    PROVE  ToSet(s) \subseteq {Head(s)} \cup ToSet(Tail(s))
<1> SUFFICES ASSUME NEW i \in 1..Len(s) PROVE s[i] \in {Head(s)} \cup ToSet(Tail(s))
  BY DEF ToSet
<1>1. CASE i = 1
  BY <1>1
<1>2. CASE i # 1
  <2>1. i - 1 \in DOMAIN Tail(s) /\ Tail(s)[i - 1] = s[i]
    BY <1>2
  <2>2. QED
    BY <2>1 DEF ToSet
<1>3. QED
  BY <1>1, <1>2

LEMMA InvInit == Init => Inv
<1> SUFFICES ASSUME Init PROVE Inv
  OBVIOUS
<1>1. running = {} /\ last = "none" /\ \A u \in Users : user[u] = Idle
  BY DEF Init
<1>2. QED
  BY <1>1 DEF Inv, Alone, Loaded, Reachable, Visited, Finished, InCall, Idle
\* One step per action; of two users in calls, none overlapping, one is the other.
LEMMA InvStep == Typed /\ Inv /\ [Next]_vars => Inv'
<1> SUFFICES ASSUME Typed, Inv, [Next]_vars, ~overlapped' PROVE
        Alone' /\ Loaded' /\ Reachable' /\ Visited' /\ Finished'
  BY DEF Inv
<1>1. TypeOK /\ InHand /\ (\A u \in Users : user[u] \in UserState) /\ 0 \notin running
  <2>1. TypeOK /\ InHand
    BY DEF Typed
  <2>2. \A u \in Users : user[u] \in UserState
    BY <2>1 DEF TypeOK
  <2>3. 0 \notin Monitors
    BY Bounds DEF Monitors
  <2>4. running \subseteq Monitors
    BY <2>1 DEF TypeOK
  <2>5. QED
    BY <2>1, <2>2, <2>3, <2>4
<1>2. ASSUME ~overlapped PROVE Alone /\ Loaded /\ Reachable /\ Visited /\ Finished
  BY <1>2 DEF Inv
<1>3. ASSUME NEW u \in Users, NEW n \in 0..3, NEW pc \in {"pid", "make", "stop"},
             NEW s \in Seq(Monitors), Enter(u, pc, n, s),
             pc = "stop" => s = perfd,
             UNCHANGED <<perfd, closed, running, ended, last>>
      PROVE  Alone' /\ Loaded' /\ Reachable' /\ Visited' /\ Finished'
  <2>1. /\ \A v \in Users \ {u} : user'[v] = user[v]
        /\ user'[u].mon = 0 /\ user'[u].pc = pc /\ user'[u].list = s
        /\ ~overlapped /\ ~InCall(u)
    BY <1>1, <1>3, EnterType
  <2>2. \A v \in Users : ~InCall(v)
    BY <1>3, <2>1 DEF Enter
  <2>3. user[u].mon = 0
    BY <1>1, <2>1 DEF InHand, InCall
  <2>4. Alone' /\ Loaded' /\ Finished'
    BY <1>2, <1>3, <2>1, <2>2 DEF Alone, Loaded, Finished, InCall
  <2>5. Visited'
    BY <1>2, <1>3, <2>1, <2>2 DEF Visited, InCall
  <2>6. Reachable'
    BY <1>1, <1>2, <1>3, <2>1, <2>3 DEF Reachable
  <2>7. QED
    BY <2>4, <2>5, <2>6
<1>4. ASSUME NEW u \in Users, PerfStart(u)
      PROVE  Alone' /\ Loaded' /\ Reachable' /\ Visited' /\ Finished'
  <2>1. PICK n \in 0..3, pc \in {"pid", "make"} : Enter(u, pc, n, <<>>)
    BY <1>4 DEF PerfStart
  <2>2. <<>> \in Seq(Monitors)
    OBVIOUS
  <2>3. QED
    BY <1>3, <1>4, <2>1, <2>2 DEF PerfStart
<1>5. ASSUME NEW u \in Users, PerfStop(u)
      PROVE  Alone' /\ Loaded' /\ Reachable' /\ Visited' /\ Finished'
  <2>1. perfd \in Seq(Monitors)
    BY <1>1 DEF TypeOK
  <2>2. 0 \in 0..3
    OBVIOUS
  <2>3. QED
    BY <1>3, <1>5, <2>1, <2>2 DEF PerfStop
<1>6. ASSUME NEW u \in Users, InCall(u), user[u].mon = 0, Leave(u, "start"),
             UNCHANGED <<perfd, closed, running, ended, overlapped>>
      PROVE  Alone' /\ Loaded' /\ Reachable' /\ Visited' /\ Finished'
  <2>1. /\ \A v \in Users \ {u} : user'[v] = user[v]
        /\ user'[u].mon = 0 /\ user'[u].pc = "idle"
    BY <1>1, <1>6, LeaveType DEF Idle
  <2>2. Alone' /\ Loaded' /\ Visited' /\ Finished'
    BY <1>2, <1>6, <2>1 DEF Alone, Loaded, Visited, Finished, InCall, Leave
  <2>3. Reachable'
    BY <1>1, <1>2, <1>6, <2>1 DEF Reachable
  <2>4. QED
    BY <2>2, <2>3
<1>7. ASSUME NEW u \in Users, Stopped(u)
      PROVE  Alone' /\ Loaded' /\ Reachable' /\ Visited' /\ Finished'
  <2>1. /\ \A v \in Users \ {u} : user'[v] = user[v]
        /\ user'[u].mon = 0 /\ user'[u].pc = "idle"
        /\ user[u].pc = "stop" /\ user[u].list = <<>> /\ user[u].mon = 0
    BY <1>1, <1>7, LeaveType DEF Idle, Stopped, InHand
  <2>2. /\ UNCHANGED <<perfd, closed, running, ended, overlapped>>
    BY <1>7 DEF Stopped
  <2>3. \A v \in Users : user[v].mon = 0
    BY <1>1, <1>2, <2>1, <2>2 DEF Alone, InCall, InHand
  <2>4. ToSet(perfd) \subseteq closed
    BY <1>2, <2>1, <2>2 DEF Visited, ToSet
  <2>5. running \subseteq closed
    BY <1>1, <1>2, <2>2, <2>3, <2>4 DEF Reachable
  <2>6. Alone' /\ Loaded' /\ Visited' /\ Finished' /\ Reachable'
    BY <1>2, <2>1, <2>2, <2>5 DEF Alone, Loaded, Visited, Finished, Reachable, InCall
  <2>7. QED
    BY <2>6
<1>8. ASSUME NEW u \in Users, NEW r \in UserState, user[u].pc # "stop", InCall(u),
             user' = [user EXCEPT ![u] = r], r.pc \notin {"idle", "stop"},
             r.pc = "store" => r.list = perfd,
             \/ r.mon = user[u].mon /\ running' = running
             \/ user[u].mon = 0 /\ running' = running \cup {r.mon},
             UNCHANGED <<perfd, closed, ended, overlapped>>
      PROVE  Alone' /\ Loaded' /\ Reachable' /\ Visited' /\ Finished'
  <2>1. /\ \A v \in Users \ {u} : user'[v] = user[v]
        /\ user'[u] = r
    BY <1>1, <1>8 DEF TypeOK
  <2>2. Alone' /\ Loaded' /\ Visited'
    BY <1>2, <1>8, <2>1 DEF Alone, Loaded, Visited, InCall
  <2>3. Finished'
    BY <1>8, <2>1 DEF Finished, InCall
  <2>4. Reachable'
    BY <1>1, <1>2, <1>8, <2>1 DEF Reachable
  <2>5. QED
    BY <2>2, <2>3, <2>4
<1>9. ASSUME NEW u \in Users, Pid(u)
      PROVE  Alone' /\ Loaded' /\ Reachable' /\ Visited' /\ Finished'
  <2> DEFINE r == [user[u] EXCEPT !.pc = "make"]
  <2>1. r \in UserState /\ r.pc = "make" /\ r.mon = user[u].mon
    BY <1>1 DEF UserState
  <2>2. user[u].pc = "pid" /\ UNCHANGED <<perfd, closed, running, overlapped, last>>
    BY <1>9 DEF Pid
  <2>3. CASE user' = [user EXCEPT ![u] = r] /\ UNCHANGED ended
    BY <1>8, <2>1, <2>2, <2>3 DEF InCall
  <2>4. CASE ended' = "exit" /\ UNCHANGED user
    BY <1>2, <2>2, <2>4
       DEF Alone, Loaded, Reachable, Visited, Finished, InCall
  <2>5. QED
    BY <1>9, <2>3, <2>4 DEF Pid
<1>10. ASSUME NEW u \in Users, Make(u)
       PROVE  Alone' /\ Loaded' /\ Reachable' /\ Visited' /\ Finished'
  <2> DEFINE r == [user[u] EXCEPT !.pc = "load", !.mon = made + 1, !.left = user[u].left - 1]
  <2>1. /\ user[u].pc = "make" /\ user[u].mon = 0 /\ InCall(u)
        /\ UNCHANGED <<perfd, closed, ended, overlapped>>
    BY <1>1, <1>10 DEF Make, InHand, InCall
  <2>2. CASE Leave(u, "start") /\ UNCHANGED <<made, running>>
    BY <1>6, <2>1, <2>2
  <2>3. CASE made < MaxMonitors /\ running' = running \cup {made + 1}
             /\ user' = [user EXCEPT ![u] = r]
    <3>1. r \in UserState /\ r.pc = "load" /\ r.mon = made + 1
      <4>1. made \in 0..MaxMonitors /\ user[u].left \in 0..3 /\ user[u].left > 0
        BY <1>1, <1>10 DEF Make, TypeOK, UserState
      <4>2. made + 1 \in Monitors /\ user[u].left - 1 \in 0..3
        BY <2>3, <4>1, Bounds DEF Monitors
      <4>3. QED
        BY <1>1, <4>2 DEF UserState
    <3>2. QED
      BY <1>8, <2>1, <2>3, <3>1
  <2>4. QED
    BY <1>10, <2>2, <2>3 DEF Make
<1>11. ASSUME NEW u \in Users, Load(u)
       PROVE  Alone' /\ Loaded' /\ Reachable' /\ Visited' /\ Finished'
  <2> DEFINE r == [user[u] EXCEPT !.pc = "store", !.list = perfd]
  <2>1. r \in UserState /\ r.pc = "store" /\ r.mon = user[u].mon /\ r.list = perfd
    BY <1>1 DEF TypeOK, UserState
  <2>2. /\ user[u].pc = "load" /\ user' = [user EXCEPT ![u] = r]
        /\ UNCHANGED <<perfd, closed, running, ended, overlapped>>
    BY <1>11 DEF Load
  <2>3. QED
    BY <1>8, <2>1, <2>2 DEF InCall
<1>12. ASSUME NEW u \in Users, Store(u)
       PROVE  Alone' /\ Loaded' /\ Reachable' /\ Visited' /\ Finished'
  <2> DEFINE r == [user[u] EXCEPT !.pc = "make", !.mon = 0, !.list = <<>>]
  <2>1. r.pc = "make"
    BY <1>1 DEF UserState
  <2>2. /\ user[u].pc = "store" /\ user' = [user EXCEPT ![u] = r]
        /\ perfd' = Append(user[u].list, user[u].mon) /\ ~overlapped
        /\ UNCHANGED <<closed, running, ended>>
    BY <1>12 DEF Store
  <2>3. \A v \in Users : InCall(v) <=> v = u
    BY <1>2, <2>2 DEF Alone, InCall
  <2>4. (\A v \in Users \ {u} : user'[v] = user[v]) /\ user'[u] = r
    BY <1>1, <2>2 DEF TypeOK
  <2>5. Alone' /\ Loaded' /\ Visited' /\ Finished'
    BY <2>1, <2>3, <2>4 DEF Alone, Loaded, Visited, Finished, InCall
  <2>6. ToSet(perfd') = ToSet(perfd) \cup {user[u].mon}
    BY <1>1, <1>2, <2>2, AppendSet DEF TypeOK, Loaded
  <2>7. Reachable'
    <3> SUFFICES ASSUME NEW m \in running \ closed, m \notin ToSet(perfd')
                 PROVE  \E v \in Users : user'[v].mon = m
      BY <2>2 DEF Reachable
    <3>1. PICK v \in Users : user[v].mon = m
      BY <1>2, <2>2, <2>6 DEF Reachable
    <3>2. v # u
      BY <2>6, <3>1
    <3>3. QED
      BY <2>4, <3>1, <3>2
  <2>8. QED
    BY <2>5, <2>7
<1>13. ASSUME NEW u \in Users, StopOne(u)
       PROVE  Alone' /\ Loaded' /\ Reachable' /\ Visited' /\ Finished'
  <2> DEFINE m == Head(user[u].list)
             r == [user[u] EXCEPT !.list = Tail(user[u].list)]
  <2>1. /\ user[u].pc = "stop" /\ user[u].list # <<>> /\ ~overlapped
        /\ UNCHANGED <<perfd, running, last>>
    BY <1>13 DEF StopOne
  <2>2. r.pc = "stop" /\ r.mon = user[u].mon /\ r.list = Tail(user[u].list)
    BY <1>1, <2>1 DEF UserState
  <2>3. CASE ended' = "panic" /\ UNCHANGED <<closed, user>>
    BY <1>2, <2>1, <2>3 DEF Alone, Loaded, Reachable, Visited, Finished, InCall
  <2>4. CASE /\ closed' = closed \cup {m} /\ UNCHANGED ended
             /\ user' = [user EXCEPT ![u] = r]
    <3>1. (\A v \in Users \ {u} : user'[v] = user[v]) /\ user'[u] = r
      BY <1>1, <2>4 DEF TypeOK
    <3>2. Alone' /\ Loaded' /\ Finished'
      BY <1>2, <2>1, <2>2, <3>1 DEF Alone, Loaded, Finished, InCall
    <3>3. Reachable'
      BY <1>2, <2>1, <2>2, <2>4, <3>1 DEF Reachable
    <3>4. ToSet(user[u].list) \subseteq {m} \cup ToSet(r.list)
      BY <1>1, <2>1, <2>2, TailSet DEF UserState
    <3>5. \A v \in Users : InCall(v) => v = u
      BY <1>2, <2>1 DEF Alone, InCall
    <3>6. ToSet(perfd) \subseteq closed' \cup ToSet(r.list)
      BY <1>2, <2>1, <2>4, <3>4 DEF Visited
    <3>7. Visited'
      BY <2>1, <3>1, <3>5, <3>6 DEF Visited, InCall
    <3>8. QED
      BY <3>2, <3>3, <3>7
  <2>5. QED
    BY <1>13, <2>3, <2>4 DEF StopOne
<1>14. ASSUME NEW u \in Users, PerfStarted(u)
       PROVE  Alone' /\ Loaded' /\ Reachable' /\ Visited' /\ Finished'
  BY <1>1, <1>6, <1>14 DEF PerfStarted, InHand, InCall
<1>15. CASE UNCHANGED vars
  BY <1>2, <1>15 DEF vars, Alone, Loaded, Reachable, Visited, Finished, InCall
<1>16. QED
  BY <1>4, <1>5, <1>7, <1>9, <1>10, <1>11, <1>12, <1>13, <1>14, <1>15 DEF Next

LEMMA InvAlways == Spec => [](Typed /\ Inv)
  BY TypedInit, TypedStep, InvInit, InvStep, PTL DEF Spec

\* A running monitor that PerfStart has no longer in hand is in d.perfd, unless calls
\* of PerfStart have overlapped.
THEOREM StoppableHolds == Spec => []Stoppable
<1>1. Inv => Stoppable
  BY DEF Inv, Reachable, Stoppable
<1>2. QED
  BY <1>1, InvAlways, PTL

\* When PerfStop has returned nothing runs, until PerfStart is called again.
THEOREM AllStoppedHolds == Spec => []AllStopped
<1>1. Inv => AllStopped
  BY DEF Inv, Finished, AllStopped
<1>2. QED
  BY <1>1, InvAlways, PTL
-----------------------------------------------------------------------------
(***************************************************************************)
(* PerfStop visits what it loaded of d.perfd, which names no monitor       *)
(* twice: PerfStart appends a monitor that no list has named before, also  *)
(* to a list that another call has replaced in between. So the first       *)
(* PerfStop closes no channel twice, and a panic takes a second one.       *)
(***************************************************************************)
NoRepeat(s) == \A i, j \in 1..Len(s) : s[i] = s[j] => i = j
Recorded(m) == m <= made /\ \A u \in Users : user[u].mon # m
Distinct ==
    /\ NoRepeat(perfd) /\ \A u \in Users : NoRepeat(user[u].list)
    /\ \A m \in ToSet(perfd) : Recorded(m)
    /\ \A u \in Users : \A m \in ToSet(user[u].list) : Recorded(m)
    /\ \A u \in Users : user[u].mon <= made
    /\ \A u, v \in Users : user[u].mon = user[v].mon => u = v \/ user[u].mon = 0

\* What the first PerfStop has yet to visit is open.
Stopping(u) == user[u].pc = "stop"
Untouched ==
    /\ stops = 0 => closed = {} /\ \A u \in Users : ~Stopping(u)
    /\ stops <= 1 => \A u, v \in Users : Stopping(u) /\ Stopping(v) => u = v
    /\ stops <= 1 => \A u \in Users : Stopping(u) => ToSet(user[u].list) \cap closed = {}
OnceEach == Distinct /\ Untouched /\ PanicHasCause

LEMMA AppendNoRepeat ==
    ASSUME NEW S, NEW s \in Seq(S), NEW e, NoRepeat(s), e \notin ToSet(s)
    PROVE  NoRepeat(Append(s, e))
<1>1. /\ Len(Append(s, e)) = Len(s) + 1 /\ Len(s) \in Nat /\ DOMAIN s = 1..Len(s)
      /\ \A i \in 1..Len(s) : Append(s, e)[i] = s[i]
      /\ Append(s, e)[Len(s) + 1] = e
  OBVIOUS
<1>2. \A i \in 1..Len(s) : s[i] # e
  BY <1>1 DEF ToSet
<1> DEFINE t == Append(s, e)
           n == Len(s)
<1>3. \A i \in 1..(n + 1) : i \in 1..n \/ i = n + 1
  BY <1>1
<1>4. Len(t) = n + 1 /\ (\A i \in 1..n : t[i] = s[i] /\ s[i] # e) /\ t[n + 1] = e
  BY <1>1, <1>2
<1> HIDE DEF t, n
<1>5. NoRepeat(t)
  <2> SUFFICES ASSUME NEW i \in 1..(n + 1), NEW j \in 1..(n + 1), t[i] = t[j] PROVE i = j
    BY <1>4 DEF NoRepeat
  <2>1. CASE i \in 1..n /\ j \in 1..n
    BY <1>4, <2>1 DEF NoRepeat, n
  <2>2. CASE i \in 1..n /\ j = n + 1
    BY <1>4, <2>2
  <2>3. CASE i = n + 1 /\ j \in 1..n
    BY <1>4, <2>3
  <2>4. QED
    BY <1>3, <2>1, <2>2, <2>3
<1>6. QED
  BY <1>5 DEF t

\* Of a list without repetitions the head is not in the tail.
LEMMA TailNoRepeat ==
    ASSUME NEW S, NEW s \in Seq(S), s # <<>>, NoRepeat(s)
    PROVE  /\ NoRepeat(Tail(s)) /\ ToSet(Tail(s)) \subseteq ToSet(s)
           /\ Head(s) \in ToSet(s) /\ Head(s) \notin ToSet(Tail(s))
<1> DEFINE t == Tail(s)
           n == Len(s)
<1>1. /\ n \in Nat /\ n >= 1 /\ DOMAIN s = 1..n
      /\ Len(t) = n - 1 /\ DOMAIN t = 1..(n - 1) /\ Head(s) = s[1]
      /\ \A i \in 1..(n - 1) : t[i] = s[i + 1]
  OBVIOUS
<1>2. \A i, j \in 1..n : s[i] = s[j] => i = j
  BY DEF NoRepeat
<1> HIDE DEF t, n
<1>3. \A i \in 1..(n - 1) : i + 1 \in 1..n /\ i + 1 # 1
  BY <1>1
<1>4. 1 \in 1..n
  BY <1>1
<1>5. NoRepeat(t)
  <2> SUFFICES ASSUME NEW i \in 1..(n - 1), NEW j \in 1..(n - 1), t[i] = t[j] PROVE i = j
    BY <1>1 DEF NoRepeat
  <2>1. i + 1 = j + 1
    BY <1>1, <1>2, <1>3
  <2>2. QED
    BY <2>1
<1>6. \A i \in DOMAIN t : t[i] \in ToSet(s) /\ t[i] # Head(s)
  BY <1>1, <1>2, <1>3, <1>4 DEF ToSet
<1>7. Head(s) \in ToSet(s)
  BY <1>1, <1>4 DEF ToSet
<1>8. QED
  BY <1>5, <1>6, <1>7 DEF ToSet, t

LEMMA OnceEachInit == Init => OnceEach
<1> SUFFICES ASSUME Init PROVE OnceEach
  OBVIOUS
<1>1. /\ perfd = <<>> /\ made = 0 /\ stops = 0 /\ closed = {} /\ ended = ""
      /\ \A u \in Users : user[u].mon = 0 /\ user[u].list = <<>> /\ user[u].pc = "idle"
  BY DEF Init, Idle
<1>2. NoRepeat(<<>>) /\ ToSet(<<>>) = {}
  BY DEF NoRepeat, ToSet
<1>3. Distinct
  <2>1. NoRepeat(perfd) /\ ToSet(perfd) = {}
    BY <1>1, <1>2
  <2>2. \A u \in Users : NoRepeat(user[u].list) /\ ToSet(user[u].list) = {}
    BY <1>1, <1>2
  <2>3. \A u \in Users : user[u].mon <= made
    <3>1. 0 <= 0
      OBVIOUS
    <3>2. QED
      BY <1>1, <3>1
  <2>4. QED
    BY <1>1, <2>1, <2>2, <2>3 DEF Distinct
<1>4. Untouched /\ PanicHasCause
  BY <1>1 DEF Untouched, PanicHasCause, Stopping
<1>5. QED
  BY <1>3, <1>4 DEF OnceEach

\* What a step of u may do to the lists: record the monitor it had in hand, take over
\* what was recorded, take a new monitor in hand.
LEMMA ListsStep ==
    ASSUME Typed, Distinct, NEW u \in Users,
           user' \in [Users -> UserState], \A v \in Users \ {u} : user'[v] = user[v],
           \/ made' = made /\ user'[u].mon \in {0, user[u].mon}
           \/ made' = made + 1 /\ user'[u].mon = made + 1,
           NoRepeat(user'[u].list), NoRepeat(perfd'),
           ToSet(user'[u].list) \subseteq ToSet(perfd) \cup ToSet(user[u].list),
           \/ ToSet(perfd') \subseteq ToSet(perfd) \cup ToSet(user[u].list)
           \/ /\ ToSet(perfd') \subseteq ToSet(user[u].list) \cup {user[u].mon}
              /\ user[u].mon # 0 /\ made' = made /\ user'[u].mon = 0
    PROVE  Distinct'
<1>1. /\ made \in Nat /\ \A v \in Users : user[v].mon \in Nat /\ user[v].mon <= made
  <2>1. made \in 0..MaxMonitors /\ \A v \in Users : user[v].mon \in (1..MaxMonitors) \cup {0}
    BY DEF Typed, TypeOK, UserState, Monitors
  <2>2. QED
    BY <2>1, Bounds DEF Distinct
<1>2. /\ \A m \in ToSet(perfd) : m \in Nat /\ m # 0
      /\ \A v \in Users : \A m \in ToSet(user[v].list) : m \in Nat /\ m # 0
  <2>1. perfd \in Seq(Monitors) /\ \A v \in Users : user[v].list \in Seq(Monitors)
    BY DEF Typed, TypeOK, UserState
  <2>2. \A s \in Seq(Monitors) : \A m \in ToSet(s) : m \in Monitors
    BY DEF ToSet
  <2>3. \A m \in Monitors : m \in Nat /\ m # 0
    BY Bounds DEF Monitors
  <2>4. QED
    BY <2>1, <2>2, <2>3
<1>3. ASSUME NEW m, m \in Nat, m # 0, Recorded(m) PROVE Recorded(m)'
  BY <1>1, <1>3 DEF Recorded
<1>4. \A v \in Users : NoRepeat(user'[v].list)
  BY DEF Distinct
<1>5. ASSUME NEW v \in Users, NEW m \in ToSet(user'[v].list) PROVE Recorded(m)'
  <2>1. m \in Nat /\ m # 0 /\ Recorded(m)
    BY <1>2, <1>5 DEF Distinct
  <2>2. QED
    BY <1>3, <2>1
<1>6. ASSUME NEW m \in ToSet(perfd') PROVE Recorded(m)'
  <2>1. CASE m \in ToSet(perfd) \cup ToSet(user[u].list)
    <3>1. m \in Nat /\ m # 0 /\ Recorded(m)
      BY <1>2, <2>1 DEF Distinct
    <3>2. QED
      BY <1>3, <3>1
  <2>2. CASE m = user[u].mon /\ m # 0 /\ made' = made /\ user'[u].mon = 0
    <3>1. \A v \in Users \ {u} : user'[v].mon # m
      BY <2>2 DEF Distinct
    <3>2. m <= made'
      BY <1>1, <2>2
    <3>3. QED
      BY <2>2, <3>1, <3>2 DEF Recorded
  <2>3. QED
    BY <1>6, <2>1, <2>2
<1>7. \A v \in Users : user'[v].mon <= made'
  BY <1>1
<1>8. \A v, w \in Users : user'[v].mon = user'[w].mon => v = w \/ user'[v].mon = 0
  <2>1. \A v, w \in Users : user[v].mon = user[w].mon => v = w \/ user[v].mon = 0
    BY DEF Distinct
  <2>2. \A v \in Users : user[v].mon # made + 1
    BY <1>1
  <2>3. QED
    BY <2>1, <2>2
<1>9. QED
  BY <1>4, <1>5, <1>6, <1>7, <1>8 DEF Distinct
\* A step that has no part in PerfStop.
LEMMA OtherStep ==
    ASSUME Untouched, PanicHasCause, NEW u \in Users, \A v \in Users \ {u} : user'[v] = user[v],
           user[u].pc # "stop", user'[u].pc # "stop",
           UNCHANGED <<closed, stops>>, ended' = ended \/ ended' = "exit"
    PROVE  Untouched' /\ PanicHasCause'
<1>1. \A v \in Users : (Stopping(v)' <=> Stopping(v)) /\ (Stopping(v) => user'[v] = user[v])
  BY DEF Stopping
<1>2. PanicHasCause'
  BY DEF PanicHasCause
<1>3. QED
  BY <1>1, <1>2 DEF Untouched

\* One step per action.
LEMMA OnceEachStep == Typed /\ OnceEach /\ [Next]_vars => OnceEach'
<1> SUFFICES ASSUME Typed, OnceEach, [Next]_vars PROVE OnceEach'
  OBVIOUS
<1>1. /\ TypeOK /\ InHand /\ Distinct /\ Untouched /\ PanicHasCause
      /\ \A u \in Users : user[u] \in UserState
  BY DEF Typed, TypeOK, OnceEach
<1>2. /\ perfd \in Seq(Monitors) /\ NoRepeat(perfd)
      /\ \A u \in Users : user[u].list \in Seq(Monitors) /\ NoRepeat(user[u].list)
  BY <1>1 DEF TypeOK, UserState, Distinct
<1>3. <<>> \in Seq(Monitors) /\ NoRepeat(<<>>) /\ ToSet(<<>>) = {}
  BY DEF NoRepeat, ToSet
<1>4. Typed' /\ user' \in [Users -> UserState]
  BY TypedStep DEF Typed, TypeOK
<1>0. stops \in Nat
  <2>1. stops \in 0..MaxStops
    BY <1>1 DEF TypeOK
  <2>2. QED
    BY <2>1, Bounds
<1>5. ASSUME NEW u \in Users, NEW s \in Seq(Monitors), NoRepeat(s),
             ToSet(s) \subseteq ToSet(perfd) \cup ToSet(user[u].list),
             \A v \in Users \ {u} : user'[v] = user[v],
             user'[u].list = s, user'[u].mon \in {0, user[u].mon}, UNCHANGED <<perfd, made>>
      PROVE  Distinct'
  BY <1>1, <1>2, <1>4, <1>5, ListsStep
<1>6. ASSUME NEW u \in Users, PerfStart(u) PROVE OnceEach'
  <2>1. PICK n \in 0..3, pc \in {"pid", "make"} : Enter(u, pc, n, <<>>)
    BY <1>6 DEF PerfStart
  <2>2. /\ \A v \in Users \ {u} : user'[v] = user[v]
        /\ user'[u].mon = 0 /\ user'[u].pc = pc /\ user'[u].list = <<>> /\ ~InCall(u)
    BY <1>1, <1>3, <2>1, EnterType
  <2>3. Distinct'
    BY <1>3, <1>5, <1>6, <2>2 DEF PerfStart
  <2>4. Untouched' /\ PanicHasCause'
    BY <1>1, <1>6, <2>2, OtherStep DEF PerfStart, InCall
  <2>5. QED
    BY <2>3, <2>4 DEF OnceEach
<1>7. ASSUME NEW u \in Users, Pid(u) PROVE OnceEach'
  <2>1. \/ user' = user
        \/ user' = [user EXCEPT ![u] = [user[u] EXCEPT !.pc = "make"]]
    BY <1>7 DEF Pid
  <2>2. /\ \A v \in Users \ {u} : user'[v] = user[v]
        /\ user'[u].mon = user[u].mon /\ user'[u].list = user[u].list
        /\ user'[u].pc \in {"pid", "make"}
    <3>1. user[u].pc = "pid"
      BY <1>7 DEF Pid
    <3>2. CASE user' = user
      BY <3>1, <3>2
    <3>3. CASE user' = [user EXCEPT ![u] = [user[u] EXCEPT !.pc = "make"]]
      BY <1>1, <3>3 DEF TypeOK, UserState
    <3>4. QED
      BY <2>1, <3>2, <3>3
  <2>3. Distinct'
    BY <1>2, <1>5, <1>7, <2>2 DEF Pid
  <2>4. Untouched' /\ PanicHasCause'
    BY <1>1, <1>7, <2>2, OtherStep DEF Pid
  <2>5. QED
    BY <2>3, <2>4 DEF OnceEach
<1>8. ASSUME NEW u \in Users, user[u].pc # "stop", NEW c, Leave(u, c),
             UNCHANGED <<perfd, closed, made, ended, stops>>
      PROVE  OnceEach'
  <2>1. /\ \A v \in Users \ {u} : user'[v] = user[v]
        /\ user'[u].mon = 0 /\ user'[u].pc = "idle" /\ user'[u].list = <<>>
    BY <1>1, <1>8, LeaveType DEF Idle
  <2>2. Distinct'
    BY <1>3, <1>5, <1>8, <2>1
  <2>3. Untouched' /\ PanicHasCause'
    BY <1>1, <1>8, <2>1, OtherStep
  <2>4. QED
    BY <2>2, <2>3 DEF OnceEach
<1>9. ASSUME NEW u \in Users, Make(u) PROVE OnceEach'
  <2>1. CASE Leave(u, "start") /\ UNCHANGED <<made, running>>
    <3>1. user[u].pc # "stop" /\ UNCHANGED <<perfd, closed, ended, stops>>
      BY <1>9 DEF Make
    <3>2. QED
      BY <1>8, <2>1, <3>1
  <2>2. CASE /\ made' = made + 1
             /\ user' = [user EXCEPT ![u] = [user[u] EXCEPT !.pc = "load", !.mon = made + 1,
                                              !.left = user[u].left - 1]]
    <3>1. /\ \A v \in Users \ {u} : user'[v] = user[v]
          /\ user'[u].mon = made + 1 /\ user'[u].list = user[u].list
          /\ user'[u].pc = "load"
      BY <1>1, <2>2 DEF TypeOK, UserState
    <3>2. UNCHANGED perfd /\ user[u].pc = "make" /\ UNCHANGED <<closed, stops, ended>>
      BY <1>9 DEF Make
    <3>3. Distinct'
      BY <1>1, <1>2, <1>4, <2>2, <3>1, <3>2, ListsStep
    <3>4. Untouched' /\ PanicHasCause'
      BY <1>1, <3>1, <3>2, OtherStep
    <3>5. QED
      BY <3>3, <3>4 DEF OnceEach
  <2>3. QED
    BY <1>9, <2>1, <2>2 DEF Make
<1>10. ASSUME NEW u \in Users, Load(u) PROVE OnceEach'
  <2>1. user' = [user EXCEPT ![u] = [user[u] EXCEPT !.pc = "store", !.list = perfd]]
    BY <1>10 DEF Load
  <2>2. /\ \A v \in Users \ {u} : user'[v] = user[v]
        /\ user'[u].mon = user[u].mon /\ user'[u].list = perfd /\ user'[u].pc = "store"
    BY <1>1, <2>1 DEF TypeOK, UserState
  <2>3. Distinct'
    BY <1>2, <1>5, <1>10, <2>2 DEF Load
  <2>4. Untouched' /\ PanicHasCause'
    BY <1>1, <1>10, <2>2, OtherStep DEF Load
  <2>5. QED
    BY <2>3, <2>4 DEF OnceEach
<1>11. ASSUME NEW u \in Users, Store(u) PROVE OnceEach'
  <2>1. /\ user[u].pc = "store" /\ perfd' = Append(user[u].list, user[u].mon)
        /\ user' = [user EXCEPT ![u] = [user[u] EXCEPT !.pc = "make", !.mon = 0, !.list = <<>>]]
        /\ UNCHANGED <<closed, made, ended, stops>>
    BY <1>11 DEF Store
  <2>2. /\ \A v \in Users \ {u} : user'[v] = user[v]
        /\ user'[u].mon = 0 /\ user'[u].list = <<>> /\ user'[u].pc = "make"
    BY <1>1, <2>1 DEF TypeOK, UserState
  <2>3. user[u].mon # 0 /\ user[u].mon \notin ToSet(user[u].list)
    <3>1. user[u].mon \in Monitors
      BY <1>1, <2>1 DEF InHand
    <3>2. user[u].mon # 0
      BY <3>1, Bounds DEF Monitors
    <3>3. QED
      BY <1>1, <3>2 DEF Distinct, Recorded
  <2>4. NoRepeat(perfd') /\ ToSet(perfd') = ToSet(user[u].list) \cup {user[u].mon}
    BY <1>2, <2>1, <2>3, AppendNoRepeat, AppendSet
  <2>5. Distinct'
    BY <1>1, <1>3, <1>4, <2>1, <2>2, <2>3, <2>4, ListsStep
  <2>6. Untouched' /\ PanicHasCause'
    BY <1>1, <2>1, <2>2, OtherStep
  <2>7. QED
    BY <2>5, <2>6 DEF OnceEach
<1>12. ASSUME NEW u \in Users, PerfStarted(u) PROVE OnceEach'
  BY <1>8, <1>12 DEF PerfStarted
<1>13. ASSUME NEW u \in Users, PerfStop(u) PROVE OnceEach'
  <2>1. /\ Enter(u, "stop", 0, perfd) /\ stops' = stops + 1 /\ stops \in Nat
        /\ UNCHANGED <<perfd, closed, made, ended>>
    BY <1>0, <1>13 DEF PerfStop
  <2>2. 0 \in 0..3 /\ "stop" \in {"pid", "make", "stop"}
    OBVIOUS
  <2>3. /\ \A v \in Users \ {u} : user'[v] = user[v]
        /\ user'[u].mon = 0 /\ user'[u].pc = "stop" /\ user'[u].list = perfd
    BY <1>1, <1>2, <2>1, <2>2, EnterType
  <2>4. Distinct'
    BY <1>2, <1>5, <2>1, <2>3
  <2>5. (stops' # 0) /\ (stops' <= 1 => stops = 0) /\ (stops >= 2 => stops' >= 2)
    BY <2>1
  <2>6. Untouched'
    <3>1. stops' <= 1 => closed = {} /\ \A v \in Users : ~Stopping(v)
      BY <1>1, <2>5 DEF Untouched
    <3>2. stops' <= 1 => \A v \in Users : Stopping(v)' => v = u
      BY <2>3, <3>1 DEF Stopping
    <3>3. QED
      BY <2>1, <2>5, <3>1, <3>2 DEF Untouched
  <2>7. PanicHasCause'
    BY <1>1, <2>1, <2>5 DEF PanicHasCause
  <2>8. QED
    BY <2>4, <2>6, <2>7 DEF OnceEach
<1>14. ASSUME NEW u \in Users, StopOne(u) PROVE OnceEach'
  <2> DEFINE m == Head(user[u].list)
  <2>1. /\ Stopping(u) /\ user[u].list # <<>> /\ stops \in Nat
        /\ UNCHANGED <<perfd, made, stops>>
    BY <1>0, <1>14 DEF StopOne, Stopping
  <2>2. /\ NoRepeat(Tail(user[u].list)) /\ Tail(user[u].list) \in Seq(Monitors)
        /\ ToSet(Tail(user[u].list)) \subseteq ToSet(user[u].list)
        /\ m \in ToSet(user[u].list) /\ m \notin ToSet(Tail(user[u].list))
    BY <1>2, <2>1, TailNoRepeat
  <2>3. stops # 0
    BY <1>1, <2>1 DEF Untouched
  <2>4. CASE m \in closed /\ ended' = "panic" /\ UNCHANGED <<closed, user>>
    <3>1. ~(stops <= 1)
      BY <1>1, <2>1, <2>2, <2>4 DEF Untouched
    <3>2. PanicHasCause'
      BY <2>1, <3>1 DEF PanicHasCause
    <3>3. Distinct' /\ Untouched'
      BY <1>1, <2>1, <2>4 DEF Distinct, Recorded, Untouched, Stopping
    <3>4. QED
      BY <3>2, <3>3 DEF OnceEach
  <2>5. CASE /\ closed' = closed \cup {m} /\ UNCHANGED ended
             /\ user' = [user EXCEPT ![u] = [user[u] EXCEPT !.list = Tail(user[u].list)]]
    <3>1. /\ \A v \in Users \ {u} : user'[v] = user[v]
          /\ user'[u].mon = user[u].mon /\ user'[u].list = Tail(user[u].list)
          /\ user'[u].pc = user[u].pc
      BY <1>1, <2>5 DEF TypeOK, UserState
    <3>2. Distinct'
      BY <1>5, <2>1, <2>2, <3>1
    <3>3. \A v \in Users : Stopping(v)' <=> Stopping(v)
      BY <3>1 DEF Stopping
    <3>4. stops <= 1 => \A v \in Users : Stopping(v) => v = u
      BY <1>1, <2>1 DEF Untouched
    <3>5. stops <= 1 => ToSet(user'[u].list) \cap closed' = {}
      BY <1>1, <2>1, <2>2, <2>5, <3>1 DEF Untouched
    <3>6. Untouched'
      BY <2>1, <2>3, <3>3, <3>4, <3>5 DEF Untouched
    <3>7. PanicHasCause'
      BY <1>1, <2>1, <2>5 DEF PanicHasCause
    <3>8. QED
      BY <3>2, <3>6, <3>7 DEF OnceEach
  <2>6. QED
    BY <1>14, <2>4, <2>5 DEF StopOne
<1>15. ASSUME NEW u \in Users, Stopped(u) PROVE OnceEach'
  <2>1. /\ Leave(u, "stop") /\ Stopping(u)
        /\ UNCHANGED <<perfd, closed, made, ended, stops>>
    BY <1>15 DEF Stopped, Stopping
  <2>2. /\ \A v \in Users \ {u} : user'[v] = user[v]
        /\ user'[u].mon = 0 /\ user'[u].pc = "idle" /\ user'[u].list = <<>>
    BY <1>1, <2>1, LeaveType DEF Idle
  <2>3. Distinct'
    BY <1>3, <1>5, <2>1, <2>2
  <2>4. \A v \in Users : Stopping(v)' => Stopping(v) /\ user'[v] = user[v]
    BY <2>2 DEF Stopping
  <2>5. Untouched'
    BY <1>1, <2>1, <2>4 DEF Untouched
  <2>6. PanicHasCause'
    BY <1>1, <2>1 DEF PanicHasCause
  <2>7. QED
    BY <2>3, <2>5, <2>6 DEF OnceEach
<1>16. CASE UNCHANGED vars
  BY <1>1, <1>16 DEF vars, OnceEach, Distinct, Recorded, Untouched, Stopping, PanicHasCause
<1>17. QED
  BY <1>6, <1>7, <1>9, <1>10, <1>11, <1>12, <1>13, <1>14, <1>15, <1>16 DEF Next

\* The program panics in PerfStop only when PerfStop has been called before: a first
\* PerfStop closes each stop channel once, however many calls of PerfStart overlap it.
THEOREM PanicHasCauseHolds == Spec => []PanicHasCause
<1>1. OnceEach => PanicHasCause
  BY DEF OnceEach
<1>2. QED
  BY <1>1, TypedInit, TypedStep, OnceEachInit, OnceEachStep, PTL DEF Spec
=============================================================================
