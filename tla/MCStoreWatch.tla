---------------------------- MODULE MCStoreWatch ----------------------------
(* Instances of StoreWatch for TLC; the watched symbol is not symmetric. *)
EXTENDS StoreWatch, TLC

Interchangeable == Permutations(Threads)
=============================================================================
