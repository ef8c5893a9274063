------------------------------ MODULE Portfolio ------------------------------
(***************************************************************************)
(* The average-cost portfolio of src/matching/portfolio.rs: what apply     *)
(* makes of a fill.                                                        *)
(*                                                                         *)
(* Buys and sells are mirror images over the signed position, written once *)
(* with the sign of the fill.  Averages are exact fractions in lowest      *)
(* terms; f64 rounding is left to the dust tolerance.                      *)
(***************************************************************************)
EXTENDS Orders, Sums, FiniteSets, FiniteSetsExt

CONSTANTS Symbols, InitialCash

ASSUME PortfolioConstants ==
  /\ InitialCash \in Int /\ IsFiniteSet(Symbols)
  /\ IsFiniteSet(Prices) /\ Prices # {}    \* an f64 has finitely many values

VARIABLES
  cash, pos, avgCost,  \* cash, positions and avg_cost
  realized,            \* realized_pnl
  net, volume          \* history: the signed and the plain sum of the quantities filled

portfolioVars == <<cash, pos, avgCost, realized, net, volume>>

-----------------------------------------------------------------------------
(* Fractions, as <<numerator, denominator>> in lowest terms. *)
Abs(n) == IF n < 0 THEN -n ELSE n
Ratio(n, d) == LET e == Min({k \in 1 .. d : (n * k) % d = 0}) IN <<(n * e) \div d, e>>
Whole(n)    == <<n, 1>>
Plus(x, y)  == Ratio(x[1] * y[2] + y[1] * x[2], x[2] * y[2])
Times(x, n) == Ratio(x[1] * n, x[2])
Minus(x, y) == Plus(x, Times(y, -1))
Over(x, n)  == Ratio(x[1], x[2] * n)     \* n > 0

-----------------------------------------------------------------------------
Sign(side) == IF side = "Buy" THEN 1 ELSE -1

(* Flat within a part in TolInv of the fill: snapped to exactly flat. *)
Snap(q, p, c) == IF Abs(p) * TolInv <= q THEN <<0, Whole(0)>> ELSE <<p, c>>

(* Position and cost after a fill that opens or adds: the cost is blended. *)
Added(held, cost, dir, q, p) ==
  <<held + dir * q,
    Over(Plus(Times(cost, Abs(held)), Whole(q * p)), Abs(held) + q)>>

(* After one that reduces or flips: what is left over beyond dust opens    *)
(* the other way at the fill's price.                                      *)
Reduced(held, cost, dir, q, p) ==
  LET part     == IF q < Abs(held) THEN q ELSE Abs(held)
      leftover == q - part
  IN  IF QtyIsZero(leftover, q) THEN <<held + dir * part, cost>>
      ELSE <<dir * leftover, Whole(p)>>

(* Profit booked by a fill: on the part it closes, against the entry. *)
BookedAlways(held, cost, dir, q, p) ==  \* mutation: the whole notional, also when opening
  Times(Minus(cost, Whole(p)), dir * q)
Booked(held, cost, dir, q, p) ==
  IF held * dir >= 0 THEN Whole(0)
  ELSE Times(Minus(cost, Whole(p)), dir * (IF q < Abs(held) THEN q ELSE Abs(held)))

Apply(sym, side, q, p) ==
  LET dir   == Sign(side)
      held  == pos[sym]
      moved == IF held * dir >= 0 THEN Added(held, avgCost[sym], dir, q, p)
               ELSE Reduced(held, avgCost[sym], dir, q, p)
      after == Snap(q, moved[1], moved[2])
  IN  /\ pos' = [pos EXCEPT ![sym] = after[1]]
      /\ avgCost' = [avgCost EXCEPT ![sym] = after[2]]
      /\ realized' = Plus(realized, Booked(held, avgCost[sym], dir, q, p))
      /\ cash' = cash - dir * q * p
      /\ net' = [net EXCEPT ![sym] = @ + dir * q]
      /\ volume' = [volume EXCEPT ![sym] = @ + q]

PortfolioInit ==
  /\ cash = InitialCash /\ realized = Whole(0)
  /\ pos = [s \in Symbols |-> 0] /\ avgCost = [s \in Symbols |-> Whole(0)]
  /\ net = [s \in Symbols |-> 0] /\ volume = [s \in Symbols |-> 0]

-----------------------------------------------------------------------------
(* The symbols in some order: that of iter() on a HashMap is not specified. *)
SymbolList == CHOOSE q \in [1 .. Cardinality(Symbols) -> Symbols] :
                \A s \in Symbols : \E i \in DOMAIN q : q[i] = s
Total(f)   == SumTo([i \in DOMAIN SymbolList |-> f[SymbolList[i]]], Cardinality(Symbols))

(* unrealized_pnl and total_pnl at the given marks. *)
UnrealizedPnl(sym, mark) == Times(Minus(Whole(mark), avgCost[sym]), pos[sym])
TotalPnl(marks) ==
  LET sum[i \in 0 .. Cardinality(Symbols)] ==
        IF i = 0 THEN Whole(0)
        ELSE Plus(sum[i - 1], UnrealizedPnl(SymbolList[i], marks[SymbolList[i]]))
  IN  Plus(realized, sum[Cardinality(Symbols)])

-----------------------------------------------------------------------------
(* The type of every variable; every fraction has a positive denominator.  *)
PortfolioTypeOK ==
  /\ cash \in Int /\ pos \in [Symbols -> Int]
  /\ \A x \in {avgCost[s] : s \in Symbols} \cup {realized} : x[1] \in Int /\ x[2] \in Nat \ {0}
  /\ net \in [Symbols -> Int] /\ volume \in [Symbols -> Nat]

(* The documented invariants: flat has no cost, and an open position has   *)
(* an average entry price between the lowest and the highest price traded. *)
CostFitsPosition ==
  \A s \in Symbols :
    IF pos[s] = 0 THEN avgCost[s] = Whole(0)
    ELSE /\ \E p \in Prices : p > 0 /\ p * avgCost[s][2] <= avgCost[s][1]
         /\ \E p \in Prices : avgCost[s][1] <= p * avgCost[s][2]

(* The position is the net of the fills, but for the dust that flips and   *)
(* snaps may drop: one part in TolInv of the volume.                       *)
PositionIsNet ==
  \A s \in Symbols : Abs(pos[s] - net[s]) * TolInv <= volume[s]

(* Whatever the marks, total_pnl is what liquidating at them would have    *)
(* earned, cash and position against the initial cash: no profit is made   *)
(* up or lost by opening, adding, reducing, closing or flipping, but for   *)
(* dust.                                                                   *)
PnlIsLiquidation ==
  \A marks \in [Symbols -> Prices] :
    LET worth == cash - InitialCash + Total([s \in Symbols |-> pos[s] * marks[s]])
        gap   == Minus(TotalPnl(marks), Whole(worth))
    IN  Abs(gap[1]) * TolInv <= Max(Prices) * Total(volume) * gap[2]

(* The portfolio agrees with its fills in position, cost and profit.       *)
BooksBalance == PortfolioTypeOK /\ CostFitsPosition /\ PositionIsNet /\ PnlIsLiquidation
=============================================================================
