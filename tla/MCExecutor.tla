----------------------------- MODULE MCExecutor -----------------------------
(* Executor for TLC: no definition of its own, constants in the cfg files. *)
EXTENDS Executor
=============================================================================
