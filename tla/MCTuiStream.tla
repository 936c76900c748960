---------------------------- MODULE MCTuiStream -----------------------------
(* Instances of TuiStream: a viewer, its daemon, and records of a source   *)
(* or two.                                                                 *)
EXTENDS TuiStream
=============================================================================
