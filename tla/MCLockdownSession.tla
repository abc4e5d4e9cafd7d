-------------------------- MODULE MCLockdownSession --------------------------
(***************************************************************************)
(* LockdownSession for TLC: two devices of one listing, and two goroutines *)
(* that may share one of them.                                             *)
(***************************************************************************)
EXTENDS LockdownSession, TLC

\* Two services of one device may be opened at a time.
OfOneDevice == {"afc", "testmanagerd"} \X {CHOOSE d \in Devs : TRUE}
Symmetric == Permutations(Callers)
=============================================================================
