--------------------------- MODULE MCStoreClients ---------------------------
(***************************************************************************)
(* The programs that embed the library, for TLC.  A behaviour is one of    *)
(* them: a Go program on the C ABI, a Binance feed, or a program sizing    *)
(* its store to the machine.  The first two fill the same ring buffer.     *)
(***************************************************************************)
EXTENDS CAbi, BinanceFeed, Hardware

VARIABLE client

clientVars == <<client, vars, abiVars, streamVars, hwVars>>

ClientsInit ==
  /\ AbiInit /\ StreamInit /\ HwInit
  /\ client \in {"go", "binance", "sizing"}

Go      == client = "go" /\ AbiNext /\ UNCHANGED <<client, streamVars, hwVars>>
Binance == client = "binance" /\ StreamNext /\ UNCHANGED <<client, abiVars, hwVars>>
Sizing  == client = "sizing" /\ HwNext /\ UNCHANGED <<client, vars, abiVars, streamVars>>

ClientsNext == Go \/ Binance \/ Sizing

(* A C call returns and the feed's task is polled. *)
ClientsFair ==
  /\ ClientsInit /\ [][ClientsNext]_clientVars
  /\ WF_clientVars(RangeCall /\ UNCHANGED <<client, streamVars, hwVars>>)
  /\ WF_clientVars(client = "binance" /\ Feed /\ UNCHANGED <<client, abiVars, hwVars>>)

(* RangeN returns whatever is appended meanwhile, and the feed streams     *)
(* again after every interruption.                                         *)
ClientsProgress == RangeReturns /\ FeedRecovers

MCSizeFiles == {[num |-> 512, unit |-> "K"], [num |-> 96, unit |-> "M"],
                [num |-> 1000, unit |-> "none"], [num |-> 0, unit |-> "bad"]}
MCAsked     == {-1, 1, 5}
MCWindows   == {[from |-> 1, to |-> 3], [from |-> 2, to |-> 2], [from |-> 3, to |-> 1]}
MCFractions == {NaN, <<0, 1>>, <<1, 2>>, <<3, 2>>}
=============================================================================
