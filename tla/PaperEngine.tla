----------------------------- MODULE PaperEngine -----------------------------
(***************************************************************************)
(* The paper trading engine of src/matching/paper.rs over its portfolio.   *)
(*                                                                         *)
(* on_candle matches every pending order of the candle's symbol in one     *)
(* step and then applies the fills one by one.  Only open, low and high of *)
(* a candle take part, and candles are well formed: low <= open <= high is *)
(* asked of the caller, neither is_valid nor on_candle checks it.          *)
(* Fills are always for the whole remainder, so a pending order keeps its  *)
(* quantity.                                                               *)
(***************************************************************************)
EXTENDS Portfolio, Sequences

CONSTANTS MaxSubmits,  \* bound: orders submitted
          MaxCandles  \* bound: candles processed

ASSUME EngineConstants == MaxSubmits \in Nat /\ MaxCandles \in Nat

VARIABLES
  pending,    \* the orders not done, oldest first
  nextId,     \* next_id
  toApply,    \* the fills of on_candle not yet applied to the portfolio
  candle,     \* history: the last candle processed, and its symbol
  seen,       \* history: the candles processed of each symbol
  report,     \* history: the events of every order by id
  refused     \* history: the ids burnt on invalid orders

engineVars == <<pending, nextId, toApply, candle, seen, report, refused>>
paperVars == <<engineVars, portfolioVars>>

Candles == {c \in [open : Prices, low : Prices, high : Prices] :
              0 < c.low /\ c.low <= c.open /\ c.open <= c.high}

-----------------------------------------------------------------------------
(* limit_fill_price: None, or <<price>>. *)
LimitFillPrice(o, c) ==
  CASE o.side = "Buy" /\ c.low <= o.price   -> <<IF c.open < o.price THEN c.open ELSE o.price>>
    [] o.side = "Sell" /\ c.high >= o.price -> <<IF c.open > o.price THEN c.open ELSE o.price>>
    [] OTHER -> None

(* The event a candle raises for a pending order of its symbol, if any. *)
EmitFill(o, p) == [id |-> o.id, what |-> "Fill", sym |-> o.sym, side |-> o.side,
                   qty |-> o.qty, price |-> p,
                   limit |-> IF o.kind = "Market" THEN p ELSE o.price]
Cancel(o, reason) == [id |-> o.id, what |-> reason, sym |-> o.sym, side |-> o.side,
                      qty |-> 0, price |-> 0, limit |-> o.price]
Event(o, c) ==
  LET p == IF o.kind = "Market" THEN <<c.open>> ELSE LimitFillPrice(o, c)
  IN  CASE p # None -> <<EmitFill(o, p[1])>>
        [] p = None /\ o.kind = "Fok" -> <<Cancel(o, "FokNoFill")>>
        [] p = None /\ o.kind = "Ioc" -> <<Cancel(o, "IocRemainder")>>
        [] OTHER -> <<>>

EngineInit ==
  /\ PortfolioInit
  /\ pending = <<>> /\ nextId = 1 /\ toApply = <<>>
  /\ candle = None /\ seen = [s \in Symbols |-> 0] /\ report = <<>>
  /\ refused = {}

-----------------------------------------------------------------------------
(* submit: try_submit and enqueue, or an id burnt on an invalid order. *)
EngineSubmit(sym, o) ==
  /\ toApply = <<>> /\ nextId <= MaxSubmits /\ Valid(o)
  /\ pending' = Append(pending,
       [id |-> nextId, sym |-> sym, side |-> o.side, kind |-> o.kind, price |-> o.price,
        qty |-> o.qty, born |-> seen[sym], lo |-> MaxPrice + 1, hi |-> 0])
  /\ nextId' = nextId + 1 /\ report' = Append(report, <<>>)
  /\ UNCHANGED <<portfolioVars, toApply, candle, seen, refused>>

EngineSubmitInvalid(o) ==
  /\ toApply = <<>> /\ nextId <= MaxSubmits /\ ~Valid(o)
  /\ nextId' = nextId + 1 /\ report' = Append(report, <<>>)
  /\ refused' = refused \cup {nextId}
  /\ UNCHANGED <<portfolioVars, pending, toApply, candle, seen>>

(* One turn of on_candle's loop and, for the same order, of its retain:    *)
(* an order with an event is done, the others stay (lo and hi are history). *)
Stays(o, sym, c) == o.sym # sym \/ Event(o, c) = <<>>
Marked(o, sym, c) ==
  IF o.sym # sym THEN o
  ELSE [o EXCEPT !.lo = IF c.low < @ THEN c.low ELSE @, !.hi = IF c.high > @ THEN c.high ELSE @]

VisitCancelsMute(acc, o, sym, c) ==      \* mutation: an order is cancelled without its event
  IF Stays(o, sym, c) THEN [acc EXCEPT !.kept = Append(@, Marked(o, sym, c))]
  ELSE LET e == Event(o, c)[1]
       IN  IF e.what # "Fill" THEN acc
           ELSE [acc EXCEPT !.fills = Append(@, e), !.report[o.id] = Append(@, e)]
Visit(acc, o, sym, c) ==
  IF Stays(o, sym, c) THEN [acc EXCEPT !.kept = Append(@, Marked(o, sym, c))]
  ELSE LET e == Event(o, c)[1]
       IN  [acc EXCEPT !.fills = IF e.what = "Fill" THEN Append(@, e) ELSE @,
                       !.report[o.id] = Append(@, e)]

(* The loop over the pending orders, oldest first. *)
MatchAll(sym, c) ==
  LET upto[n \in 0 .. Len(pending)] ==
        IF n = 0 THEN [kept |-> <<>>, fills |-> <<>>, report |-> report]
        ELSE Visit(upto[n - 1], pending[n], sym, c)
  IN  upto[Len(pending)]

(* on_candle, up to the portfolio. *)
OnCandle(sym, c) ==
  /\ toApply = <<>> /\ seen[sym] < MaxCandles
  /\ LET acc == MatchAll(sym, c)
     IN  pending' = acc.kept /\ toApply' = acc.fills /\ report' = acc.report
  /\ candle' = [sym |-> sym, bar |-> c] /\ seen' = [seen EXCEPT ![sym] = @ + 1]
  /\ UNCHANGED <<portfolioVars, nextId, refused>>

(* self.portfolio.apply, for the next of the fills. *)
ApplyFill ==
  /\ toApply # <<>>
  /\ LET f == Head(toApply) IN Apply(f.sym, f.side, f.qty, f.price)
  /\ toApply' = Tail(toApply)
  /\ UNCHANGED <<pending, nextId, candle, seen, report, refused>>

EngineNext ==
  \/ \E sym \in Symbols, o \in NewOrders : EngineSubmit(sym, o)
  \/ \E o \in NewOrders : EngineSubmitInvalid(o)
  \/ \E sym \in Symbols, c \in Candles : OnCandle(sym, c)
  \/ ApplyFill
  \/ toApply = <<>> /\ nextId > MaxSubmits /\ (\A s \in Symbols : seen[s] = MaxCandles)
     /\ UNCHANGED paperVars                              \* the supply is used up

EngineSpec == EngineInit /\ [][EngineNext]_paperVars

-----------------------------------------------------------------------------
(* The type of every variable; ids are handed out once and in order, and   *)
(* no invalid order is ever pending.                                       *)
EngineTypeOK ==
  /\ nextId \in 1 .. (MaxSubmits + 1) /\ Len(report) = nextId - 1
  /\ refused \subseteq 1 .. (nextId - 1)
  /\ \A i \in DOMAIN pending : pending[i].id < nextId /\ pending[i].sym \in Symbols
                                 /\ Valid(pending[i])
  /\ \A i, j \in DOMAIN pending : i < j => pending[i].id < pending[j].id
  /\ seen \in [Symbols -> 0 .. MaxCandles]
  /\ \A i \in DOMAIN toApply : toApply[i].what = "Fill" /\ toApply[i].sym \in Symbols

(* Every order gets at most one event, and the ones that have none are the *)
(* ones pending and the ones refused: nothing is filled twice, filled      *)
(* after a cancel or dropped without a word, and the id of a refused order *)
(* "will never fill".                                                      *)
ReportedOnce ==
  \A i \in DOMAIN report :
    LET waits == \E k \in DOMAIN pending : pending[k].id = i
    IN  Len(report[i]) <= 1 /\ (report[i] = <<>> <=> waits \/ i \in refused)

(* A fill is at a price the candle traded at, and never worse than the     *)
(* order's limit.                                                          *)
FillsAreTradable ==
  \A i \in DOMAIN toApply :
    /\ candle.bar.low <= toApply[i].price /\ toApply[i].price <= candle.bar.high
    /\ IF toApply[i].side = "Buy" THEN toApply[i].price <= toApply[i].limit
       ELSE toApply[i].price >= toApply[i].limit

(* A limit order still pending was never reachable: no candle since it was *)
(* submitted traded at its price or better.                                *)
NoMissedFill ==
  \A i \in DOMAIN pending : LET o == pending[i] IN
    o.kind = "Limit" => IF o.side = "Buy" THEN o.lo > o.price ELSE o.hi < o.price

(* Market, IOC and FOK orders do not outlive the first candle of their     *)
(* symbol.                                                                 *)
ImmediateMeansImmediate ==
  \A i \in DOMAIN pending : LET o == pending[i] IN
    o.kind # "Limit" => seen[o.sym] = o.born

(* Every order is pending, refused, or done with one event; done at once   *)
(* unless it is a limit order, which fills as soon as the market allows,   *)
(* and every fill is at a price the market and the order allow.            *)
EngineInv ==
  /\ EngineTypeOK /\ ReportedOnce /\ ImmediateMeansImmediate
  /\ FillsAreTradable /\ NoMissedFill
=============================================================================
