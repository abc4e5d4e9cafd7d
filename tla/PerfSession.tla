----------------------------- MODULE PerfSession -----------------------------
(***************************************************************************)
(* PerfStart and PerfStop of a device (device.go): the list d.perfd of the *)
(* monitors that have been started, by user goroutines that may overlap.   *)
(*                                                                         *)
(* A monitor (module Perfd) is its number here; it runs from Start's       *)
(* success until its stop channel is closed. Abstracted: which errors make *)
(* a monitor fail. A monitor whose Start fails has no goroutine on the     *)
(* host and is not counted as running, though its device may sample.       *)
(***************************************************************************)
EXTENDS Integers, Sequences, SequencesExt

CONSTANTS Users,     \* goroutines that call PerfStart and PerfStop
          MaxMonitors, \* bound: monitors made
          MaxStops   \* bound: calls of PerfStop

ASSUME SessionAssumption == MaxMonitors \in Nat /\ MaxStops \in Nat

Monitors == 1..MaxMonitors

VARIABLES perfd,    \* d.perfd
          closed,   \* monitors whose stop channel is closed
          running,  \* monitors whose Start has succeeded
          user,     \* control and locals of each user
          made,     \* monitors made
          ended,    \* "" or how the program ended: "panic", "exit"
          stops,    \* history: calls of PerfStop that found a list
          overlapped, \* history: a call began during another
          last      \* history: the latest call that returned

vars == <<perfd, closed, running, user, made, ended, stops, overlapped, last>>

\* left: monitors PerfStart has yet to make; mon: the one in hand; list: d.perfd as
\* loaded, or what PerfStop has yet to visit.
UserState == [pc: {"idle", "pid", "make", "load", "store", "stop"}, left: 0..3,
              mon: Monitors \cup {0}, list: Seq(Monitors)]
Idle == [pc |-> "idle", left |-> 0, mon |-> 0, list |-> <<>>]
InCall(u) == user[u].pc # "idle"

Init == /\ perfd = <<>> /\ closed = {} /\ running = {}
        /\ user = [u \in Users |-> Idle] /\ made = 0
        /\ ended = "" /\ stops = 0 /\ overlapped = FALSE /\ last = "none"

Enter(u, pc, left, list) ==
    /\ ~InCall(u)
    /\ user' = [user EXCEPT ![u] = [pc |-> pc, left |-> left, mon |-> 0, list |-> list]]
    /\ overlapped' = (overlapped \/ \E v \in Users : InCall(v))

Leave(u, call) == user' = [user EXCEPT ![u] = Idle] /\ last' = call
-----------------------------------------------------------------------------
\* The options ask for up to three monitors, of the process of a bundle or not.
PerfStart(u) ==
    /\ \E n \in 0..3, pc \in {"pid", "make"} : Enter(u, pc, n, <<>>)
    /\ UNCHANGED <<perfd, closed, running, made, ended, stops, last>>

\* The process is found (or else looked for again, a stuttering step); a connection
\* that fails ends the program.
Pid(u) ==
    /\ user[u].pc = "pid"
    /\ \/ user' = [user EXCEPT ![u].pc = "make"] /\ UNCHANGED ended
       \/ ended' = "exit" /\ UNCHANGED user
    /\ UNCHANGED <<perfd, closed, running, made, stops, overlapped, last>>

\* Mutant: one monitor more than asked for.
MakeOneMore(u) ==
    /\ user[u].pc = "make" /\ user[u].left >= 0
    /\ \/ /\ made < MaxMonitors
          /\ made' = made + 1 /\ running' = running \cup {made + 1}
          /\ user' = [user EXCEPT ![u] = [user[u] EXCEPT !.pc = "load", !.mon = made + 1,
                                           !.left = user[u].left - 1]]
          /\ UNCHANGED last
       \/ Leave(u, "start") /\ UNCHANGED <<made, running>>
    /\ UNCHANGED <<perfd, closed, ended, stops, overlapped>>

\* The next monitor is made and started, or fails, and with it PerfStart; those
\* before it go on.
Make(u) ==
    /\ user[u].pc = "make" /\ user[u].left > 0
    /\ \/ /\ made < MaxMonitors
          /\ made' = made + 1 /\ running' = running \cup {made + 1}
          /\ user' = [user EXCEPT ![u] = [user[u] EXCEPT !.pc = "load", !.mon = made + 1,
                                           !.left = user[u].left - 1]]
          /\ UNCHANGED last
       \/ Leave(u, "start") /\ UNCHANGED <<made, running>>
    /\ UNCHANGED <<perfd, closed, ended, stops, overlapped>>

\* append(d.perfd, perfd): nothing guards the load and the store.
Load(u) ==
    /\ user[u].pc = "load"
    /\ user' = [user EXCEPT ![u] = [@ EXCEPT !.pc = "store", !.list = perfd]]
    /\ UNCHANGED <<perfd, closed, running, made, ended, stops, overlapped, last>>

\* Mutant: the list is that of this call only.
StoreNew(u) ==
    /\ user[u].pc = "store"
    /\ perfd' = <<user[u].mon>>
    /\ user' = [user EXCEPT ![u] = [@ EXCEPT !.pc = "make", !.mon = 0, !.list = <<>>]]
    /\ UNCHANGED <<closed, running, made, ended, stops, overlapped, last>>

\* Mutant: the monitor is appended twice.
StoreTwice(u) ==
    /\ user[u].pc = "store"
    /\ perfd' = user[u].list \o <<user[u].mon, user[u].mon>>
    /\ user' = [user EXCEPT ![u] = [@ EXCEPT !.pc = "make", !.mon = 0, !.list = <<>>]]
    /\ UNCHANGED <<closed, running, made, ended, stops, overlapped, last>>

Store(u) ==
    /\ user[u].pc = "store"
    /\ perfd' = Append(user[u].list, user[u].mon)
    /\ user' = [user EXCEPT ![u] = [@ EXCEPT !.pc = "make", !.mon = 0, !.list = <<>>]]
    /\ UNCHANGED <<closed, running, made, ended, stops, overlapped, last>>

PerfStarted(u) ==
    /\ user[u].pc = "make" /\ user[u].left = 0
    /\ Leave(u, "start")
    /\ UNCHANGED <<perfd, closed, running, made, ended, stops, overlapped>>

\* A call without a list returns at once (a stuttering step).
PerfStop(u) ==
    /\ perfd # <<>> /\ stops < MaxStops
    /\ Enter(u, "stop", 0, perfd)
    /\ stops' = stops + 1
    /\ UNCHANGED <<perfd, closed, running, made, ended, last>>

\* close(c.stop), which panics the second time.
StopOne(u) ==
    /\ user[u].pc = "stop" /\ user[u].list # <<>>
    /\ LET m == Head(user[u].list)
       IN  IF m \in closed THEN ended' = "panic" /\ UNCHANGED <<closed, user>>
           ELSE /\ closed' = closed \cup {m}
                /\ user' = [user EXCEPT ![u].list = Tail(@)]
                /\ UNCHANGED ended
    /\ UNCHANGED <<perfd, running, made, stops, overlapped, last>>

\* Mutant: the last monitor is not stopped.
StoppedEarly(u) ==
    /\ user[u].pc = "stop" /\ Len(user[u].list) <= 1
    /\ Leave(u, "stop")
    /\ UNCHANGED <<perfd, closed, running, made, ended, stops, overlapped>>

Stopped(u) ==
    /\ user[u].pc = "stop" /\ user[u].list = <<>>
    /\ Leave(u, "stop")
    /\ UNCHANGED <<perfd, closed, running, made, ended, stops, overlapped>>

Next ==
    /\ ended = ""
    /\ \E u \in Users : \/ PerfStart(u) \/ Pid(u) \/ Make(u) \/ Load(u) \/ Store(u)
                        \/ PerfStarted(u) \/ PerfStop(u) \/ StopOne(u) \/ Stopped(u)

Spec == Init /\ [][Next]_vars
-----------------------------------------------------------------------------
\* Properties

TypeOK ==
    /\ perfd \in Seq(Monitors) /\ closed \subseteq Monitors /\ running \subseteq Monitors
    /\ user \in [Users -> UserState]
    /\ made \in 0..MaxMonitors /\ stops \in 0..MaxStops
    /\ ended \in {"", "panic", "exit"} /\ overlapped \in BOOLEAN
    /\ last \in {"none", "start", "stop"}

\* A monitor that runs can be stopped: it is in the list, or PerfStart has it in hand,
\* also after a PerfStart that failed half way. (Two calls of PerfStart at a time can
\* lose one in the unguarded append.)
Stoppable ==
    ~overlapped =>
        \A m \in running \ closed :
            m \in ToSet(perfd) \/ \E u \in Users : user[u].mon = m

\* After PerfStop, and until the next PerfStart, no monitor runs.
AllStopped ==
    ~overlapped /\ ended = "" /\ last = "stop" /\ (\A u \in Users : ~InCall(u)) =>
        running \subseteq closed

\* PerfStop panics on a channel that is closed already only when PerfStop has been
\* called before; a first PerfStop stops each monitor once.
PanicHasCause == ended = "panic" => stops >= 2
=============================================================================
