----------------------------- MODULE MCRuntime ------------------------------
(* An instance of Runtime: goroutines that log and two brokers to move     *)
(* between.                                                                *)
EXTENDS Runtime
=============================================================================
