----------------------------- MODULE MCStrategy -----------------------------
(* Instances of Strategy for TLC. *)
EXTENDS Strategy
=============================================================================
