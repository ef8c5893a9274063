---------------------------- MODULE MCMarketHub ----------------------------
(* Instances of MarketHub for TLC. *)
EXTENDS MarketHub
=============================================================================
