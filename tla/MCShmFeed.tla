----------------------------- MODULE MCShmFeed -----------------------------
(* Instances of FeedHandler for TLC. *)
EXTENDS FeedHandler
=============================================================================
