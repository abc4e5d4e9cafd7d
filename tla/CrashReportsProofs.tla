-------------------------- MODULE CrashReportsProofs --------------------------
(***************************************************************************)
(* Theorems about CrashReports, for any tree of reports, any host names    *)
(* and any number of calls of Move, failures and kills.                    *)
(***************************************************************************)
EXTENDS CrashReports, SequenceTheorems, TLAPS

File == [of: Reports \cup {NoReport}, parts: 0..Parts, extracted: BOOLEAN]
Frame == [dir: Dirs, left: SUBSET (Reports \cup Dirs)]
Step == {"idle", "readDir", "walk", "open", "create", "copy", "remove", "closeHost",
         "close", "extract"}
Move == [pc: Step, keep: BOOLEAN, extract: BOOLEAN, walk: Seq(Frame),
         file: Reports \cup {NoReport}, toExtract: SUBSET DOMAIN Extracts]

\* The steps at which the device's file may be open, and those with a file at all.
Opened == {"create", "copy", "remove", "closeHost", "close"}
WithFile == Opened \cup {"open"}

Types == /\ there \in [Reports -> {"not yet", "on device", "moved", "purged"}]
         /\ open \in SUBSET Reports
         /\ host \in [Hosts -> File]
         /\ move \in Move
         /\ unsaved \in SUBSET Reports

\* A file is open only between Open and Close and on a connection that is up, and it is
\* the one in hand.
InHand == /\ At("idle") \/ move.pc \notin Opened => open = {}
          /\ open \subseteq {move.file}
          /\ open # {} => conn = "up"
          /\ move.pc \in WithFile => move.file \in Reports

\* Up to the removal the report in hand has not been moved before; its host file is being
\* written while it is copied, and is whole when it is removed.
Written ==
    /\ move.pc \in {"create", "copy", "remove"} => there[move.file] # "moved"
    /\ move.pc = "copy" => /\ host[HostName[move.file]].of = move.file
                           /\ ~host[HostName[move.file]].extracted
    /\ move.pc = "remove" => host[HostName[move.file]] =
                                 [of |-> move.file, parts |-> Parts, extracted |-> FALSE]

Inv == Types /\ InHand /\ Written /\ NoReportLost

LEMMA Bounds == /\ Root \in Dirs /\ NoReport \notin Reports /\ Dirs \cap Reports = {}
                /\ Parts \in Nat /\ Parts > 0 /\ DOMAIN Extracts \subseteq Reports
                /\ \A f \in Reports : HostName[f] \in Hosts
                /\ \A f \in DOMAIN Extracts : Extracts[f] \in Hosts
  BY CrashReportsAssumption DEF CrashReportsAssumption, Hosts

LEMMA IdleType == Idle \in Move
<1>1. <<>> \in Seq(Frame)
  OBVIOUS
<1>2. QED
  BY <1>1 DEF Idle, Move, Step

LEMMA InvInit == Init => Inv
<1> SUFFICES ASSUME Init PROVE Inv
  OBVIOUS
<1>1. Types
  <2>1. NoFile \in File
    BY Bounds DEF NoFile, File
  <2>2. QED
    BY <2>1, IdleType DEF Init, Types
<1>2. InHand /\ Written /\ NoReportLost
  BY DEF Init, Idle, InHand, Written, NoReportLost, Opened, WithFile, At
<1>3. QED
  BY <1>1, <1>2 DEF Inv

\* What the device does with a request changes at most which files it holds open.
LEMMA RequestType ==
    ASSUME NotDone PROVE UNCHANGED <<open, conn>> \/ open' = {}
  BY DEF NotDone, Ends

\* The walk's own steps have no file of the device open.
LEMMA StartInv == ASSUME Inv, Start PROVE Inv'
<1>1. PICK keep \in BOOLEAN, extract \in BOOLEAN :
          move' = [Idle EXCEPT !.pc = "readDir", !.keep = keep, !.extract = extract,
                               !.walk = <<[dir |-> Root, left |-> {}]>>]
  BY DEF Start
<1>2. move' \in Move /\ move'.pc = "readDir"
  <2>1. <<[dir |-> Root, left |-> {}]>> \in Seq(Frame)
    BY Bounds DEF Frame
  <2>2. QED
    BY <1>1, <2>1, IdleType DEF Idle, Move, Step
<1>3. QED
  BY <1>2 DEF Inv, Start, Types, InHand, Written, NoReportLost, At, Opened, WithFile

\* A change of the names left in the last directory keeps the walk a walk.
LEMMA WalkType ==
    ASSUME NEW w \in Seq(Frame), NEW left \in SUBSET (Reports \cup Dirs)
    PROVE  [w EXCEPT ![Len(w)].left = left] \in Seq(Frame)
<1> DEFINE v == [w EXCEPT ![Len(w)].left = left]
<1>1. \A i \in 1..Len(w) : v[i] \in Frame
  <2> SUFFICES ASSUME NEW i \in 1..Len(w) PROVE v[i] \in Frame
    OBVIOUS
  <2>1. w[i] \in Frame
    OBVIOUS
  <2>2. [w[i] EXCEPT !.left = left] \in Frame
    BY <2>1 DEF Frame
  <2>3. QED
    BY <2>1, <2>2
<1>2. w \in [1..Len(w) -> Frame] /\ Len(w) \in Nat
  OBVIOUS
<1>3. v \in [1..Len(w) -> Frame]
  BY <1>1, <1>2
<1>4. QED
  BY <1>2, <1>3, SeqDef

\* A step that changes neither the device's reports nor the host's files keeps Inv when
\* it leads to a step of Move with no claim on them.
LEMMA Elsewhere ==
    ASSUME Inv, UNCHANGED <<there, host, unsaved>>, move' \in Move,
           open' \in SUBSET Reports, InHand',
           move'.pc \notin {"create", "copy", "remove"}
    PROVE  Inv'
  BY DEF Inv, Types, Written, NoReportLost

LEMMA ReadDirInv == ASSUME Inv, ReadDir PROVE Inv'
<1> USE DEF Inv
<1>1. open = {} /\ move \in Move
  BY DEF ReadDir, At, InHand, Opened, Types
<1>2. CASE move' = Idle /\ NotDone
  <2>1. open' = {}
    BY <1>1, <1>2, RequestType
  <2>2. InHand'
    BY <1>2, <2>1 DEF InHand, Idle, WithFile, Opened
  <2>3. QED
    BY <1>2, <2>1, <2>2, IdleType, Elsewhere DEF ReadDir, Idle
<1>3. CASE /\ UNCHANGED open
           /\ move' = [move EXCEPT !.pc = "walk",
                           !.walk[Len(move.walk)].left = Names(move.walk[Len(move.walk)].dir)]
  <2>1. Names(move.walk[Len(move.walk)].dir) \in SUBSET (Reports \cup Dirs)
    BY CrashReportsAssumption DEF Names, CrashReportsAssumption
  <2>2. [move.walk EXCEPT ![Len(move.walk)].left = Names(move.walk[Len(move.walk)].dir)]
            \in Seq(Frame)
    BY <1>1, <2>1, WalkType DEF Move
  <2>3. move' \in Move /\ move'.pc = "walk"
    BY <1>1, <1>3, <2>2 DEF Move, Step
  <2>4. InHand'
    BY <1>1, <1>3, <2>3 DEF InHand, At, WithFile, Opened
  <2>5. QED
    BY <1>1, <1>3, <2>3, <2>4, Elsewhere DEF ReadDir
<1>4. QED
  BY <1>2, <1>3 DEF ReadDir

LEMMA StatInv == ASSUME Inv, Stat PROVE Inv'
<1> USE DEF Inv
<1> DEFINE k == Len(move.walk)
           left == move.walk[k].left
<1>1. open = {} /\ move \in Move
  BY DEF Stat, At, InHand, Opened, Types
<1>2. PICK e \in left :
          LET rest == [move EXCEPT !.walk[k].left = @ \ {e}]
          IN \/ e \in Dirs /\ Done /\ UNCHANGED open
                /\ move' = [rest EXCEPT !.pc = "readDir",
                                        !.walk = Append(@, [dir |-> e, left |-> {}])]
             \/ e \in Reports /\ Found(e) /\ Done /\ UNCHANGED open
                /\ move' = [rest EXCEPT !.pc = "open", !.file = e]
             \/ ~Found(e) /\ Done /\ UNCHANGED open
                /\ move' = Idle
             \/ NotDone /\ move' = Idle
  BY DEF Stat
<1>3. open' = {}
  BY <1>1, <1>2, RequestType
<1>4. CASE move' = Idle
  <2>1. InHand'
    BY <1>3, <1>4 DEF InHand, Idle, WithFile, Opened
  <2>2. QED
    BY <1>3, <1>4, <2>1, IdleType, Elsewhere DEF Stat, Idle
<1> DEFINE walk == [move.walk EXCEPT ![k].left = left \ {e}]
<1>5. walk \in Seq(Frame)
  <2>1. CASE k > 0
    <3>1. move.walk[k] \in Frame
      BY <1>1, <2>1 DEF Move
    <3>2. left \ {e} \in SUBSET (Reports \cup Dirs)
      BY <3>1 DEF Frame
    <3>3. QED
      BY <1>1, <3>2, WalkType DEF Move
  <2>2. CASE k = 0
    <3>1. walk = move.walk
      BY <1>1, <2>2 DEF Move
    <3>2. QED
      BY <1>1, <3>1 DEF Move
  <2>3. QED
    BY <1>1, <2>1, <2>2 DEF Move
<1>6. [move EXCEPT !.walk[k].left = @ \ {e}] = [move EXCEPT !.walk = walk]
  BY <1>1 DEF Move
<1>7. CASE e \in Dirs /\ move' = [move EXCEPT !.pc = "readDir",
                                     !.walk = Append(walk, [dir |-> e, left |-> {}])]
  <2>1. Append(walk, [dir |-> e, left |-> {}]) \in Seq(Frame)
    BY <1>5, <1>7 DEF Frame
  <2>2. move' \in Move /\ move'.pc = "readDir"
    BY <1>1, <1>7, <2>1 DEF Move, Step
  <2>3. InHand'
    BY <1>3, <2>2 DEF InHand, At, WithFile, Opened
  <2>4. QED
    BY <1>3, <2>2, <2>3, Elsewhere DEF Stat
<1>8. CASE e \in Reports /\ move' = [move EXCEPT !.pc = "open", !.walk = walk, !.file = e]
  <2>1. move' \in Move /\ move'.pc = "open" /\ move'.file = e
    BY <1>1, <1>5, <1>8 DEF Move, Step
  <2>2. InHand'
    BY <1>3, <1>8, <2>1 DEF InHand, At, WithFile, Opened
  <2>3. QED
    BY <1>3, <2>1, <2>2, Elsewhere DEF Stat
<1> DEFINE rest == [move EXCEPT !.walk[k].left = @ \ {e}]
<1>9. \/ /\ e \in Dirs
         /\ move' = [rest EXCEPT !.pc = "readDir",
                                 !.walk = Append(@, [dir |-> e, left |-> {}])]
      \/ e \in Reports /\ move' = [rest EXCEPT !.pc = "open", !.file = e]
      \/ move' = Idle
  BY <1>2, Zenon
<1>10. rest = [move EXCEPT !.walk = walk]
  BY <1>6, Zenon
<1> HIDE DEF rest, walk
<1>11. /\ [rest EXCEPT !.pc = "readDir", !.walk = Append(@, [dir |-> e, left |-> {}])]
              = [move EXCEPT !.pc = "readDir", !.walk = Append(walk, [dir |-> e, left |-> {}])]
       /\ [rest EXCEPT !.pc = "open", !.file = e]
              = [move EXCEPT !.pc = "open", !.walk = walk, !.file = e]
  BY <1>1, <1>10 DEF Move
<1>12. QED
  BY <1>4, <1>7, <1>8, <1>9, <1>11

LEMMA UpInv == ASSUME Inv, Up PROVE Inv'
<1> USE DEF Inv
<1>1. open' = {} /\ move \in Move
  BY DEF Up, At, InHand, Opened, Types
<1>2. move' \in Move /\ move'.pc \in {"walk", "extract", "idle"}
  <2>1. CASE Len(move.walk) > 1 /\ move' = [move EXCEPT !.walk = SubSeq(@, 1, Len(@) - 1)]
    <3>1. SubSeq(move.walk, 1, Len(move.walk) - 1) \in Seq(Frame)
      BY <1>1, <2>1 DEF Move
    <3>2. QED
      BY <1>1, <2>1, <3>1 DEF Move, Up, At
  <2>2. CASE move' = Idle
    BY <2>2, IdleType DEF Idle
  <2>3. CASE Go("extract")
    BY <1>1, <2>3 DEF Move, Step, Go
  <2>4. QED
    BY <2>1, <2>2, <2>3 DEF Up
<1>3. InHand'
  BY <1>1, <1>2 DEF InHand, At, WithFile, Opened
<1>4. QED
  BY <1>1, <1>2, <1>3, Elsewhere DEF Up

LEMMA OpenInv == ASSUME Inv, Open PROVE Inv'
<1> USE DEF Inv
<1> DEFINE f == move.file
           noted == [move EXCEPT !.toExtract = IF move.extract /\ f \in DOMAIN Extracts
                                               THEN @ \cup {f} ELSE @]
<1>1. open = {} /\ move \in Move /\ f \in Reports
  BY DEF Open, At, InHand, Opened, WithFile, Types
<1>2. noted \in Move /\ noted.file = f
  BY <1>1 DEF Move
<1>3. CASE Found(f) /\ Done /\ open' = open \cup {f} /\ move' = [noted EXCEPT !.pc = "create"]
  <2>1. move' \in Move /\ move'.pc = "create" /\ move'.file = f
    BY <1>2, <1>3 DEF Move, Step
  <2>2. there[f] # "moved"
    BY <1>1, <1>3 DEF Found
  <2>3. Types' /\ InHand'
    BY <1>1, <1>3, <2>1 DEF Open, Done, Types, InHand, At, Opened, WithFile
  <2>4. Written'
    BY <2>1, <2>2 DEF Open, Written
  <2>5. QED
    BY <2>3, <2>4 DEF Open, NoReportLost
<1>4. CASE open' = {} /\ move' = [noted EXCEPT !.pc = "walk"]
  <2>1. move' \in Move /\ move'.pc = "walk"
    BY <1>2, <1>4 DEF Move, Step
  <2>2. InHand'
    BY <1>4, <2>1 DEF InHand, At, WithFile, Opened
  <2>3. QED
    BY <1>4, <2>1, <2>2, Elsewhere DEF Open
<1>5. QED
  <2>1. \/ Found(f) /\ Done /\ open' = open \cup {f} /\ move' = [noted EXCEPT !.pc = "create"]
        \/ UNCHANGED open /\ move' = [noted EXCEPT !.pc = "walk"]
        \/ NotDone /\ move' = [noted EXCEPT !.pc = "walk"]
    BY DEF Open
  <2>2. QED
    BY <1>1, <1>3, <1>4, <2>1, RequestType

\* What is moved and whole stays so when one other host file changes: the one that changes
\* is of a report not moved, or its report is in a clash.
LEMMA OtherHost ==
    ASSUME NoReportLost, UNCHANGED there, unsaved \subseteq unsaved', NEW h,
           \A g \in Hosts \ {h} : host'[g] = host[g],
           \A f \in Reports : HostName[f] = h /\ there[f] = "moved" =>
               Clash(f) \/ f \in unsaved'
    PROVE  NoReportLost'
<1> SUFFICES ASSUME NEW f \in Reports, there[f] = "moved"
             PROVE  \/ host'[HostName[f]] = [of |-> f, parts |-> Parts, extracted |-> FALSE]
                    \/ Clash(f) \/ f \in unsaved'
  BY DEF NoReportLost, Clash
<1>1. CASE HostName[f] = h
  BY <1>1
<1>2. CASE HostName[f] # h
  BY <1>2, Bounds DEF NoReportLost
<1>3. QED
  BY <1>1, <1>2

LEMMA CreateInv == ASSUME Inv, Create PROVE Inv'
<1> USE DEF Inv
<1> DEFINE f == move.file
           h == HostName[f]
<1>1. move \in Move /\ f \in Reports /\ h \in Hosts /\ there[f] # "moved" /\ open \subseteq {f}
  BY Bounds DEF Create, At, InHand, Opened, WithFile, Types, Written
<1>2. CASE Go("close") /\ UNCHANGED host
  <2>1. move' \in Move /\ move'.pc = "close" /\ move'.file = f
    BY <1>1, <1>2 DEF Move, Step, Go
  <2>2. InHand'
    BY <1>1, <2>1 DEF Create, InHand, At, WithFile, Opened
  <2>3. QED
    BY <1>2, <2>1, <2>2, Elsewhere DEF Create, Types
<1>3. CASE Go("copy") /\ host' = [host EXCEPT ![h] = [NoFile EXCEPT !.of = f]]
  <2>1. move' \in Move /\ move'.pc = "copy" /\ move'.file = f
    BY <1>1, <1>3 DEF Move, Step, Go
  <2> DEFINE emptied == [NoFile EXCEPT !.of = f]
  <2>2. NoFile \in File
    BY Bounds DEF File, NoFile
  <2>3. emptied \in File /\ emptied.of = f /\ ~emptied.extracted
    BY <1>1, <2>2 DEF File, NoFile
  <2> HIDE DEF emptied
  <2>4. host' \in [Hosts -> File]
    BY <1>3, <2>3 DEF Types, emptied
  <2>5. Types' /\ InHand'
    BY <1>1, <2>1, <2>4 DEF Create, Types, InHand, At, Opened, WithFile
  <2>6. host'[h] = emptied
    BY <1>1, <1>3 DEF Types, emptied
  <2>7. Written'
    BY <1>1, <2>1, <2>3, <2>6 DEF Create, Written
  <2>8. \A g \in Reports : HostName[g] = h /\ there[g] = "moved" => Clash(g)
    BY <1>1 DEF Clash
  <2>9. \A g \in Hosts \ {h} : host'[g] = host[g]
    BY <1>3 DEF Types
  <2>10. NoReportLost'
    BY <2>8, <2>9, OtherHost DEF Create
  <2>11. QED
    BY <2>5, <2>7, <2>10
<1>4. QED
  BY <1>2, <1>3 DEF Create

LEMMA CopyInv == ASSUME Inv, Copy PROVE Inv'
<1> USE DEF Inv
<1> DEFINE f == move.file
           h == HostName[f]
           next == IF move.keep THEN "closeHost" ELSE "remove"
<1>1. /\ move \in Move /\ f \in Reports /\ h \in Hosts /\ there[f] # "moved"
      /\ open \subseteq {f} /\ host[h].of = f /\ ~host[h].extracted /\ host[h] \in File
  BY Bounds DEF Copy, At, InHand, Opened, WithFile, Types, Written
<1>2. CASE ~AtEnd(h) /\ UNCHANGED <<open, move, conn>> /\ host' = [host EXCEPT ![h].parts = @ + 1]
  <2> DEFINE longer == [host[h] EXCEPT !.parts = host[h].parts + 1]
  <2>1. host[h].parts + 1 \in 0..Parts
    BY <1>1, <1>2, Bounds DEF File, AtEnd
  <2>2. longer \in File /\ longer.of = f /\ ~longer.extracted
    BY <1>1, <2>1 DEF File
  <2>3. host' = [host EXCEPT ![h] = longer]
    BY <1>1, <1>2 DEF Types
  <2> HIDE DEF longer
  <2>4. host' \in [Hosts -> File] /\ host'[h] = longer
    BY <1>1, <2>2, <2>3 DEF Types
  <2>5. Types' /\ InHand'
    BY <1>2, <2>4 DEF Copy, Types, InHand, At
  <2>6. Written'
    BY <1>1, <1>2, <2>2, <2>4 DEF Copy, At, Written
  <2>7. \A g \in Reports : HostName[g] = h /\ there[g] = "moved" => Clash(g)
    BY <1>1 DEF Clash
  <2>8. \A g \in Hosts \ {h} : host'[g] = host[g]
    BY <2>3 DEF Types
  <2>9. NoReportLost'
    BY <2>7, <2>8, OtherHost DEF Copy
  <2>10. QED
    BY <2>5, <2>6, <2>9
<1>3. CASE AtEnd(h) /\ Go(next) /\ UNCHANGED <<open, host, conn>>
  <2>1. move' \in Move /\ move'.pc = next /\ move'.file = f
    BY <1>1, <1>3 DEF Move, Step, Go
  <2>2. Types' /\ InHand'
    BY <1>1, <1>3, <2>1 DEF Copy, Types, InHand, At, Opened, WithFile
  <2>3. host[h] = [of |-> f, parts |-> Parts, extracted |-> FALSE]
    BY <1>1, <1>3 DEF File, AtEnd
  <2>4. Written'
    BY <1>1, <1>3, <2>1, <2>3 DEF Copy, Written
  <2>5. QED
    BY <1>3, <2>2, <2>4 DEF Copy, NoReportLost
<1>4. CASE Go("closeHost") /\ UNCHANGED host /\ (UNCHANGED <<open, conn>> \/ open' = {})
  <2>1. move' \in Move /\ move'.pc = "closeHost" /\ move'.file = f
    BY <1>1, <1>4 DEF Move, Step, Go
  <2>2. InHand'
    BY <1>1, <1>4, <2>1 DEF InHand, At, WithFile, Opened
  <2>3. QED
    BY <1>4, <2>1, <2>2, Elsewhere DEF Copy, Types
<1>5. QED
  <2>1. \/ ~AtEnd(h) /\ UNCHANGED <<open, move, conn>> /\ host' = [host EXCEPT ![h].parts = @ + 1]
        \/ AtEnd(h) /\ Go(next) /\ UNCHANGED <<open, host, conn>>
        \/ NotDone /\ Go("closeHost") /\ UNCHANGED host
        \/ Go("closeHost") /\ UNCHANGED <<open, host, conn>>
    BY DEF Copy, Done
  <2>2. QED
    BY <1>2, <1>3, <1>4, <2>1, RequestType

LEMMA RemoveInv == ASSUME Inv, Remove PROVE Inv'
<1> USE DEF Inv
<1> DEFINE f == move.file
<1>1. /\ move \in Move /\ f \in Reports /\ open \subseteq {f}
      /\ host[HostName[f]] = [of |-> f, parts |-> Parts, extracted |-> FALSE]
  BY DEF Remove, At, InHand, Opened, WithFile, Types, Written
<1>2. move' \in Move /\ move'.pc = "closeHost" /\ move'.file = f
  BY <1>1 DEF Remove, Move, Step, Go
<1>3. UNCHANGED <<open, conn>> \/ open' = {}
  BY RequestType DEF Remove, Ends, Done
<1>4. there' = there \/ there' = Removed(f)
  BY DEF Remove
<1>5. there' \in [Reports -> {"not yet", "on device", "moved", "purged"}]
  BY <1>4 DEF Types, Removed
<1>6. Types' /\ InHand' /\ Written'
  BY <1>1, <1>2, <1>3, <1>5 DEF Remove, Types, InHand, Written, At, Opened, WithFile
<1>7. \A g \in Reports \ {f} : there'[g] = there[g]
  BY <1>4 DEF Types, Removed
<1>8. NoReportLost'
  BY <1>1, <1>7 DEF Remove, NoReportLost, Clash
<1>9. QED
  BY <1>6, <1>8

LEMMA CloseHostInv == ASSUME Inv, CloseHost PROVE Inv'
<1> USE DEF Inv
<1> DEFINE f == move.file
           h == HostName[f]
<1>1. /\ move \in Move /\ f \in Reports /\ h \in Hosts /\ open \subseteq {f} /\ host[h] \in File
  BY Bounds DEF CloseHost, At, InHand, Opened, WithFile, Types
<1>2. move' \in Move /\ move'.pc = "close" /\ move'.file = f
  BY <1>1 DEF CloseHost, Move, Step, Go
<1>3. InHand' /\ Written'
  BY <1>1, <1>2 DEF CloseHost, InHand, Written, At, Opened, WithFile
<1>4. CASE UNCHANGED <<host, unsaved>>
  BY <1>2, <1>3, <1>4, Elsewhere DEF CloseHost, Types
<1>5. ASSUME unsaved' = unsaved \cup {f}, NEW n \in 0..host[h].parts,
             host' = [host EXCEPT ![h].parts = n]
      PROVE  Inv'
  <2> DEFINE cut == [host[h] EXCEPT !.parts = n]
  <2>1. n \in 0..Parts
    BY <1>1, Bounds DEF File
  <2>2. cut \in File
    BY <1>1, <2>1 DEF File
  <2>3. host' = [host EXCEPT ![h] = cut]
    BY <1>1, <1>5 DEF Types
  <2> HIDE DEF cut
  <2>4. host' \in [Hosts -> File]
    BY <1>1, <2>2, <2>3 DEF Types
  <2>5. Types'
    BY <1>1, <1>2, <1>5, <2>4 DEF CloseHost, Types
  <2>6. \A g \in Reports : HostName[g] = h /\ there[g] = "moved" => Clash(g) \/ g \in unsaved'
    BY <1>1, <1>5 DEF Clash
  <2>7. \A g \in Hosts \ {h} : host'[g] = host[g]
    BY <2>3 DEF Types
  <2>8. UNCHANGED there /\ unsaved \subseteq unsaved'
    BY <1>5 DEF CloseHost
  <2>9. NoReportLost'
    BY <2>6, <2>7, <2>8, OtherHost
  <2>10. QED
    BY <1>3, <2>5, <2>9
<1>6. QED
  BY <1>4, <1>5 DEF CloseHost

LEMMA CloseInv == ASSUME Inv, Close PROVE Inv'
<1> USE DEF Inv
<1>1. move \in Move /\ open \subseteq {move.file} /\ (open # {} => conn = "up")
  BY DEF Close, InHand, Types
<1>2. move' \in Move
  <2>1. move' = [move EXCEPT !.pc = "walk", !.file = NoReport]
    BY DEF Close
  <2>2. QED
    BY <1>1, <2>1 DEF Move, Step
<1>3. move'.pc = "walk"
  BY <1>1 DEF Close, Move
<1>4. open' = {}
  BY <1>1 DEF Close, Ends, Done
<1>5. InHand'
  BY <1>3, <1>4 DEF InHand, At, WithFile, Opened
<1>6. QED
  BY <1>2, <1>3, <1>4, <1>5, Elsewhere DEF Close

LEMMA ExtractInv == ASSUME Inv, Extract PROVE Inv'
<1> USE DEF Inv
<1>1. open' = {} /\ move \in Move
  BY DEF Extract, At, InHand, Opened, Types
<1>2. PICK f \in move.toExtract :
          /\ move' = [move EXCEPT !.toExtract = @ \ {f}]
          /\ \/ UNCHANGED host
             \/ host' = [host EXCEPT ![Extracts[f]] =
                             [of |-> f, parts |-> Parts, extracted |-> TRUE]]
             \/ host' = [host EXCEPT ![Extracts[f]] =
                             [of |-> f, parts |-> 0, extracted |-> TRUE]]
  BY DEF Extract
<1>3. move' \in Move /\ move'.pc = "extract"
  BY <1>1, <1>2 DEF Move, Extract, At
<1>4. InHand'
  BY <1>1, <1>3 DEF InHand, At, WithFile, Opened
<1>5. CASE UNCHANGED host
  BY <1>1, <1>3, <1>4, <1>5, Elsewhere DEF Extract
<1>6. ASSUME NEW n \in {0, Parts},
             host' = [host EXCEPT ![Extracts[f]] = [of |-> f, parts |-> n, extracted |-> TRUE]]
      PROVE  Inv'
  <2>1. f \in DOMAIN Extracts /\ f \in Reports
    BY <1>1, Bounds DEF Move
  <2>2. n \in 0..Parts
    BY Bounds
  <2>3. [of |-> f, parts |-> n, extracted |-> TRUE] \in File
    BY <2>1, <2>2 DEF File
  <2>4. host' \in [Hosts -> File]
    BY <1>6, <2>3 DEF Types
  <2>5. Types' /\ Written'
    BY <1>1, <1>3, <2>4 DEF Extract, Types, Written
  <2>6. \A g \in Reports : HostName[g] = Extracts[f] => Clash(g)
    BY <2>1 DEF Clash
  <2>7. \A g \in Hosts \ {Extracts[f]} : host'[g] = host[g]
    BY <1>6 DEF Types
  <2>8. NoReportLost'
    BY <2>6, <2>7, OtherHost DEF Extract
  <2>9. QED
    BY <1>4, <2>5, <2>8
<1>7. QED
  BY <1>2, <1>5, <1>6

LEMMA ReturnInv == ASSUME Inv, Return PROVE Inv'
<1> USE DEF Inv
<1>1. open' = {}
  BY DEF Return, At, InHand, Opened
<1>2. move' = Idle
  BY DEF Return
<1>3. InHand'
  BY <1>1, <1>2 DEF InHand, Idle, WithFile, Opened
<1>4. QED
  BY <1>1, <1>2, <1>3, IdleType, Elsewhere DEF Return, Idle

LEMMA RestartInv == ASSUME Inv, Restart PROVE Inv'
<1> USE DEF Inv
<1>1. open' = {} /\ move' = Idle
  BY DEF Restart
<1>2. InHand'
  BY <1>1 DEF InHand, Idle, WithFile, Opened
<1>3. QED
  BY <1>1, <1>2, IdleType, Elsewhere DEF Restart, Idle

\* The device adds and purges reports; it never makes one moved.
LEMMA DeviceInv == ASSUME Inv, Report \/ Purge PROVE Inv'
<1> USE DEF Inv
<1>1. PICK f \in Reports, to \in {"on device", "purged"} : there' = [there EXCEPT ![f] = to]
  BY DEF Report, Purge
<1>2. UNCHANGED <<open, host, move, conn, unsaved>>
  BY DEF Report, Purge
<1>3. \A g \in Reports : there'[g] = "moved" => there[g] = "moved"
  BY <1>1 DEF Types
<1>4. Types'
  BY <1>1, <1>2 DEF Types
<1>5. InHand'
  BY <1>2 DEF InHand, At
<1>6. Written'
  <2>1. move.pc \in {"create", "copy", "remove"} => move.file \in Reports
    BY DEF InHand, WithFile, Opened
  <2>2. QED
    BY <1>2, <1>3, <2>1 DEF Written
<1>7. NoReportLost'
  BY <1>2, <1>3 DEF NoReportLost, Clash
<1>8. QED
  BY <1>4, <1>5, <1>6, <1>7

LEMMA StutterInv == ASSUME Inv, UNCHANGED vars PROVE Inv'
  BY DEF vars, Inv, Types, InHand, At, Written, NoReportLost, Clash

\* The type invariant: whatever is called, fails or is killed, Move is at one of its steps
\* with a file, a walk and a list for extraction of the device's own names, and each host
\* file is of one report and holds at most its parts. With it, what Move knows of the file
\* in hand at each step, from which the two theorems below follow.
THEOREM InvHolds == Spec => []Inv
<1>1. Init => Inv
  BY InvInit
<1>2. Inv /\ [Next]_vars => Inv'
  BY StartInv, ReadDirInv, StatInv, UpInv, OpenInv, CreateInv, CopyInv, RemoveInv,
     CloseHostInv, CloseInv, ExtractInv, ReturnInv, DeviceInv, RestartInv, StutterInv
     DEF Next
<1>3. QED
  BY <1>1, <1>2, PTL DEF Spec

\* Whenever Move has returned nothing is left open on the kept connection, and while it
\* runs only the file in hand is: the deferred close is reached after every failure.
THEOREM HandlesClosedHolds == Spec => []HandlesClosed
<1>1. Inv => HandlesClosed
  BY DEF Inv, InHand, HandlesClosed
<1>2. QED
  BY <1>1, InvHolds, PTL

\* No report is lost: one that Move took off the device is whole on the host, for any tree,
\* any host names and any number of calls, failures and kills. The exceptions are two files
\* of one host name, and a host file whose close fails after the removal.
THEOREM NoReportLostHolds == Spec => []NoReportLost
<1>1. Inv => NoReportLost
  BY DEF Inv
<1>2. QED
  BY <1>1, InvHolds, PTL
=============================================================================
