---------------------------- MODULE MCCrashReports ----------------------------
(***************************************************************************)
(* Four reports, two of them in a directory: one that was already synced   *)
(* ("a.synced") beside one of the same name, a property list to extract    *)
(* from, and a report that has the name of what is extracted.              *)
(***************************************************************************)
EXTENDS CrashReports, TLC

MCIn == ("a" :> "." @@ "a.synced" :> "." @@ "Retired" :> "."
         @@ "b.plist" :> "Retired" @@ "b.crash" :> "Retired")
MCHostName == [f \in {"a", "b.plist", "b.crash"} |-> f] @@ ("a.synced" :> "a")
MCExtracts == ("b.plist" :> "b.crash")
=============================================================================
