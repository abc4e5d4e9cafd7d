----------------------------- MODULE CrashReports -----------------------------
(***************************************************************************)
(* Moving the crash reports of a device to the host (crashreportmover.go   *)
(* Move and walkDir) over the AFC client (afc.go, pkg afc.go): the walk of *)
(* the directories, and for each report the open, the host file, the copy, *)
(* the removal, the two deferred closes, and the extraction at the end.    *)
(* Move may be called again, with other options, over what an earlier call *)
(* left behind, also after the program was killed in the middle of one.    *)
(*                                                                         *)
(* AFC is one request and one answer at a time: the device takes a request *)
(* and does it or refuses it with a status; or the connection ends, and    *)
(* the device may or may not have done it. A service connection has no     *)
(* read deadline (lockdown.go _startService), so no answer is given up on. *)
(* The service is kept: when its connection has ended, every later call on *)
(* the device object fails, until the program starts again.                *)
(*                                                                         *)
(* External: the device, which writes reports and may purge them; the host *)
(* file system, whose calls may fail. A report is its name and the number  *)
(* of parts it is read in; wording and times are left out.                 *)
(***************************************************************************)
EXTENDS Naturals, Sequences

CONSTANTS Dirs, Reports, Root,
          In,       \* the directory an entry is in
          HostName, \* the host file of a report: its path without ".synced"
          Extracts, \* the ".crash" file of each report whose host file ends in ".plist"
          NoReport,
          Parts,    \* the parts a report is read in
          MaxMoves, MaxFaults \* bounds: calls of Move, steps that fail

ASSUME CrashReportsAssumption ==
    /\ Root \in Dirs /\ NoReport \notin Reports /\ Dirs \cap Reports = {}
    /\ DOMAIN In = Reports \cup (Dirs \ {Root}) /\ \A e \in DOMAIN In : In[e] \in Dirs
    /\ DOMAIN HostName = Reports /\ DOMAIN Extracts \subseteq Reports
    /\ Parts \in Nat \ {0} /\ MaxMoves \in Nat /\ MaxFaults \in Nat

VARIABLES there,   \* each report: "not yet", "on device", "moved" (removed by Move), "purged"
          open,    \* the reports the device holds open for this connection
          host,    \* each host file: the report it is of, how much of it, how it came
          move,    \* the call of Move: its step, options, walk, file, extraction list
          conn,    \* the AFC connection of the kept service
          unsaved, \* reports whose host file failed to close
          moves, faults

vars == <<there, open, host, move, conn, unsaved, moves, faults>>

Hosts == {HostName[f] : f \in Reports} \cup {Extracts[f] : f \in DOMAIN Extracts}
NoFile == [of |-> NoReport, parts |-> 0, extracted |-> FALSE]
Idle == [pc |-> "idle", keep |-> FALSE, extract |-> FALSE, walk |-> <<>>,
         file |-> NoReport, toExtract |-> {}]

Init == /\ there = [f \in Reports |-> "not yet"] /\ open = {}
        /\ host = [h \in Hosts |-> NoFile]
        /\ move = Idle /\ conn = "up" /\ unsaved = {}
        /\ moves = 0 /\ faults = 0

At(pc) == move.pc = pc
Go(pc) == move' = [move EXCEPT !.pc = pc]
MayFail == faults < MaxFaults /\ faults' = faults + 1
\* The connection ends: the device closes what was open on it.
Ends == conn' = "down" /\ open' = {}
\* The device's part of ReadDir, Stat (an empty answer is an entry that is not there),
\* a read of a file (an empty answer is its end), and Remove.
Names(d) == {e \in DOMAIN In : In[e] = d /\ (e \in Reports => there[e] = "on device")}
Found(e) == e \in Reports => there[e] = "on device"
AtEnd(h) == host[h].parts = Parts
Removed(f) == [there EXCEPT ![f] = IF @ = "on device" THEN "moved" ELSE @]

\* A request that is not done: no connection, a status, or the connection ends.
NotDone == \/ conn = "down" /\ UNCHANGED <<conn, open, faults>>
           \/ conn = "up" /\ MayFail /\ UNCHANGED <<conn, open>>
           \/ conn = "up" /\ MayFail /\ Ends
Done == conn = "up" /\ UNCHANGED <<conn, faults>>
-----------------------------------------------------------------------------
Start ==
    /\ At("idle") /\ moves < MaxMoves /\ moves' = moves + 1
    /\ \E keep, extract \in BOOLEAN :
           move' = [Idle EXCEPT !.pc = "readDir", !.keep = keep, !.extract = extract,
                                !.walk = <<[dir |-> Root, left |-> {}]>>]
    /\ UNCHANGED <<there, open, host, conn, unsaved, faults>>

\* The names in the directory, as they are now. An error ends Move.
ReadDir ==
    /\ At("readDir")
    /\ LET k == Len(move.walk)
       IN \/ Done /\ UNCHANGED open
             /\ move' = [move EXCEPT !.pc = "walk", !.walk[k].left = Names(move.walk[k].dir)]
          \/ NotDone /\ move' = Idle
    /\ UNCHANGED <<there, host, unsaved, moves>>

\* The next name. One that is gone, or cannot be looked at, ends the whole walk.
Stat ==
    /\ At("walk")
    /\ LET k == Len(move.walk)
       IN \E e \in move.walk[k].left :
           LET rest == [move EXCEPT !.walk[k].left = @ \ {e}]
           IN \/ e \in Dirs /\ Done /\ UNCHANGED open
                 /\ move' = [rest EXCEPT !.pc = "readDir",
                                         !.walk = Append(@, [dir |-> e, left |-> {}])]
              \/ e \in Reports /\ Found(e) /\ Done /\ UNCHANGED open
                 /\ move' = [rest EXCEPT !.pc = "open", !.file = e]
              \/ ~Found(e) /\ Done /\ UNCHANGED open
                 /\ move' = Idle
              \/ NotDone /\ move' = Idle
    /\ UNCHANGED <<there, host, unsaved, moves>>

\* The end of a directory; of the first one: the extraction, or the end of Move.
Up ==
    /\ At("walk") /\ move.walk[Len(move.walk)].left = {}
    /\ IF Len(move.walk) > 1
       THEN move' = [move EXCEPT !.walk = SubSeq(@, 1, Len(@) - 1)]
       ELSE IF move.extract THEN Go("extract") ELSE move' = Idle
    /\ UNCHANGED <<there, open, host, conn, unsaved, moves, faults>>

\* The report is noted for extraction whether or not it can be opened and copied.
Open ==
    /\ At("open")
    /\ LET f == move.file
           noted == [move EXCEPT !.toExtract = IF move.extract /\ f \in DOMAIN Extracts
                                               THEN @ \cup {f} ELSE @]
       IN \/ /\ Found(f) /\ Done /\ open' = open \cup {f}
             /\ move' = [noted EXCEPT !.pc = "create"]
          \/ /\ ~Found(f) /\ Done /\ UNCHANGED open
             /\ move' = [noted EXCEPT !.pc = "walk"]
          \/ NotDone /\ move' = [noted EXCEPT !.pc = "walk"]
    /\ UNCHANGED <<there, host, unsaved, moves>>

\* Mutant: a host file that cannot be made leaves the device's file open.
CreateLeaks ==
    /\ At("create")
    /\ \/ /\ host' = [host EXCEPT ![HostName[move.file]] = [NoFile EXCEPT !.of = move.file]]
          /\ Go("copy") /\ UNCHANGED faults
       \/ MayFail /\ Go("walk") /\ UNCHANGED host
    /\ UNCHANGED <<there, open, conn, unsaved, moves>>

\* The host's directory and file; a file of that name is emptied.
Create ==
    /\ At("create")
    /\ \/ /\ host' = [host EXCEPT ![HostName[move.file]] = [NoFile EXCEPT !.of = move.file]]
          /\ Go("copy") /\ UNCHANGED faults
       \/ MayFail /\ Go("close") /\ UNCHANGED host
    /\ UNCHANGED <<there, open, conn, unsaved, moves>>

\* Mutant: a copy that fails is followed by the removal.
CopyAnyway ==
    /\ At("copy")
    /\ LET h == HostName[move.file]
           next == IF move.keep THEN "closeHost" ELSE "remove"
       IN \/ /\ ~AtEnd(h) /\ Done /\ UNCHANGED <<open, move>>
             /\ host' = [host EXCEPT ![h].parts = @ + 1]
          \/ AtEnd(h) /\ Done /\ Go(next) /\ UNCHANGED <<open, host>>
          \/ NotDone /\ Go(next) /\ UNCHANGED host
          \/ MayFail /\ Go(next) /\ UNCHANGED <<conn, open, host>>
    /\ UNCHANGED <<there, unsaved, moves>>

\* io.Copy: one read after another until one returns no data. A read that fails, or a
\* write of the host, ends it with what has been copied.
Copy ==
    /\ At("copy")
    /\ LET h == HostName[move.file]
           next == IF move.keep THEN "closeHost" ELSE "remove"
       IN \/ /\ ~AtEnd(h) /\ Done /\ UNCHANGED <<open, move>>
             /\ host' = [host EXCEPT ![h].parts = @ + 1]
          \/ AtEnd(h) /\ Done /\ Go(next) /\ UNCHANGED <<open, host>>
          \/ NotDone /\ Go("closeHost") /\ UNCHANGED host
          \/ MayFail /\ Go("closeHost") /\ UNCHANGED <<conn, open, host>>
    /\ UNCHANGED <<there, unsaved, moves>>

\* A request on which the connection ends may have been done.
Remove ==
    /\ At("remove") /\ Go("closeHost")
    /\ \/ Done /\ there' = Removed(move.file) /\ UNCHANGED open
       \/ NotDone /\ UNCHANGED there
       \/ conn = "up" /\ MayFail /\ Ends /\ there' = Removed(move.file)
    /\ UNCHANGED <<host, unsaved, moves>>

\* Deferred last, so done first. When it fails, what was written last may be missing.
CloseHost ==
    /\ At("closeHost") /\ Go("close")
    /\ \/ UNCHANGED <<host, unsaved, faults>>
       \/ MayFail /\ unsaved' = unsaved \cup {move.file}
          /\ \E n \in 0..host[HostName[move.file]].parts :
                 host' = [host EXCEPT ![HostName[move.file]].parts = n]
    /\ UNCHANGED <<there, open, conn, moves>>

\* The status of the answer is not looked at.
Close ==
    /\ At("close")
    /\ move' = [move EXCEPT !.pc = "walk", !.file = NoReport]
    /\ \/ Done /\ open' = open \ {move.file}
       \/ conn = "down" /\ UNCHANGED <<conn, open, faults>>
       \/ conn = "up" /\ MayFail /\ Ends
    /\ UNCHANGED <<there, host, unsaved, moves>>

\* For each report noted, from its host file, if that is there and whole; else the next.
\* The write of the extracted file may fail before or after it is emptied.
Extract ==
    /\ At("extract")
    /\ \E f \in move.toExtract :
           /\ move' = [move EXCEPT !.toExtract = @ \ {f}]
           /\ \/ /\ AtEnd(HostName[f])
                 /\ host' = [host EXCEPT ![Extracts[f]] =
                                 [of |-> f, parts |-> Parts, extracted |-> TRUE]]
                 /\ UNCHANGED faults
              \/ ~AtEnd(HostName[f]) /\ UNCHANGED <<host, faults>>
              \/ /\ MayFail
                 /\ \/ UNCHANGED host
                    \/ host' = [host EXCEPT ![Extracts[f]] =
                                    [of |-> f, parts |-> 0, extracted |-> TRUE]]
    /\ UNCHANGED <<there, open, conn, unsaved, moves>>

\* Move returns nil, whatever failed for single reports.
Return ==
    /\ At("extract") /\ move.toExtract = {}
    /\ move' = Idle
    /\ UNCHANGED <<there, open, host, conn, unsaved, moves, faults>>
-----------------------------------------------------------------------------
\* The device writes a report, or purges one.
Report == \E f \in Reports :
    /\ there[f] = "not yet" /\ there' = [there EXCEPT ![f] = "on device"]
    /\ UNCHANGED <<open, host, move, conn, unsaved, moves, faults>>
Purge == \E f \in Reports :
    /\ there[f] = "on device" /\ MayFail /\ there' = [there EXCEPT ![f] = "purged"]
    /\ UNCHANGED <<open, host, move, conn, unsaved, moves>>
\* The program is killed; the next one has no state and opens a new connection.
Restart ==
    /\ \/ MayFail
       \/ conn = "down" /\ At("idle") /\ UNCHANGED faults
    /\ move' = Idle /\ conn' = "up" /\ open' = {}
    /\ UNCHANGED <<there, host, unsaved, moves>>

Next == \/ Start \/ ReadDir \/ Stat \/ Up \/ Open \/ Create \/ Copy \/ Remove
        \/ CloseHost \/ Close \/ Extract \/ Return
        \/ Report \/ Purge \/ Restart

Spec == Init /\ [][Next]_vars
-----------------------------------------------------------------------------
\* Two files of the device that end in one host file: "a" and "a.synced", or a report
\* and what is extracted from another.
Clash(f) == \/ \E g \in Reports \ {f} : HostName[g] = HostName[f]
            \/ \E g \in DOMAIN Extracts : Extracts[g] = HostName[f]

\* A report that Move removed from the device is whole on the host, now and after any
\* later call, failure or kill: but for two files of one host name, and a host file that
\* failed to close, which Move learns after the removal.
NoReportLost ==
    \A f \in Reports :
        there[f] = "moved" => \/ host[HostName[f]] = [of |-> f, parts |-> Parts, extracted |-> FALSE]
                              \/ Clash(f) \/ f \in unsaved

\* When Move has returned, by whichever of its ways, it has left no file of the device
\* open on the kept connection, and at most one is open while it runs.
HandlesClosed == /\ At("idle") => open = {}
                 /\ open \subseteq {move.file}
=============================================================================
