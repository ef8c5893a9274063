----------------------------- MODULE MCColdStore -----------------------------
(* An instance of ColdStore for TLC: symbols with directories of their own. *)
EXTENDS ColdStore
Apart == [s \in {"BTC/USDT", "ETH"} |-> IF s = "ETH" THEN "ETH" ELSE "BTC_USDT"]
=============================================================================
