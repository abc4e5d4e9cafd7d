------------------------------- MODULE MCPerfd -------------------------------
(***************************************************************************)
(* Perfd on small instances: capacities of one where the code has 10 and   *)
(* 100.                                                                    *)
(***************************************************************************)
EXTENDS Perfd

SysOptions   == {"pid", "cpu"}
SysShapes    == {"list", "system", "processes", "other"}
GraphOptions == {"gpu", "fps"}
GraphShapes  == {"list"}
NetShapes    == {"list", "other"}
=============================================================================
