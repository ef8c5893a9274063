-------------------------- MODULE MCCandleStore --------------------------
(* Instances of CandleStore for TLC. *)
EXTENDS CandleStore, TLC

Interchangeable == Permutations(Threads) \cup Permutations(Symbols)
===========================================================================
