------------------------------- MODULE MCXCTest -------------------------------
(***************************************************************************)
(* XCTest with two runs of one device object, and with one.                *)
(***************************************************************************)
EXTENDS XCTest
=============================================================================
