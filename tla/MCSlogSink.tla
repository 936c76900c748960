----------------------------- MODULE MCSlogSink -----------------------------
(* An instance of SlogSink: two goroutines and one broker.                 *)
EXTENDS SlogSink
=============================================================================
