---------------------------- MODULE MCShmSegment ----------------------------
(* Instances of ShmSegment for TLC.  Producers and capacities are treated  *)
(* alike by every action, and no property is temporal.                     *)
EXTENDS ShmSegment, TLC
ProducerSymmetry == Permutations(Producers)
=============================================================================
