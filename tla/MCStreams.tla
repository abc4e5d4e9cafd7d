------------------------------ MODULE MCStreams -------------------------------
(***************************************************************************)
(* Each of the three streams, with two goroutines that may stop it.        *)
(***************************************************************************)
EXTENDS Streams
=============================================================================
