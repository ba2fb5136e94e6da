----------------------------- MODULE MCServing -----------------------------
(* Serving for TLC, which has no sets to compute: its numbers are in the cfg. *)
EXTENDS Serving
=============================================================================
