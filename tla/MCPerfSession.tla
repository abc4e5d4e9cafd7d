---------------------------- MODULE MCPerfSession ----------------------------
(***************************************************************************)
(* PerfSession for two users whose calls may overlap.                      *)
(***************************************************************************)
EXTENDS PerfSession, TLC

Symmetric == Permutations(Users)
=============================================================================
