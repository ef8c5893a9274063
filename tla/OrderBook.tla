------------------------------ MODULE OrderBook ------------------------------
(***************************************************************************)
(* The price-time priority book of src/matching/book.rs with the orders of *)
(* order.rs and the events of event.rs.                                    *)
(*                                                                         *)
(* A submission is unfolded into one step per fill, so that the book is    *)
(* also seen in the middle of a match.                                     *)
(***************************************************************************)
EXTENDS Orders, Sums, Sequences

CONSTANT MaxOrders   \* bound: orders submitted

ASSUME BookConstants == MaxOrders \in Nat

VARIABLES
  book,       \* bids and asks: the queue at every key of either side
  taker,      \* the order submit is matching, or None
  orders,     \* history: the orders submitted, as they came; the index is the id
  filled,     \* history: the quantity of the fills reported for each order
  cancelled,  \* history: the Cancel event of each order, or "none"
  fills       \* history: the pairs of fills

vars == <<book, taker, orders, filled, cancelled, fills>>

Other(side) == IF side = "Buy" THEN "Sell" ELSE "Buy"
IsFilled(o) == QtyIsZero(o.left, o.qty)

(* try_price_key rounds to the nearest key, a half up, and a price below   *)
(* half a tick to key 0; key_price goes back.  Prices are in quarters of a *)
(* tick.                                                                   *)
Key(p)      == (p + 2) \div 4
KeyPrice(k) == 4 * k
Keys        == 0 .. Key(MaxPrice)

(* Whether an order resting at key k is within the taker's limit. *)
Within(t, k) ==
  \/ t.kind = "Market"
  \/ t.side = "Buy" /\ k <= Key(t.price)
  \/ t.side = "Sell" /\ k >= Key(t.price)

(* The key matched first: the lowest ask, the highest bid. *)
Better(side, j, k) == IF side = "Buy" THEN j > k ELSE j < k
Levels(side)       == {k \in Keys : book[side][k] # <<>>}
AnyKey(side)       == Levels(side)          \* mutation: a level in no particular order
BestKey(side)      == {k \in Levels(side) : \A j \in Levels(side) : ~Better(side, j, k)}

(* can_fill: what rests within the limit, up to the tolerance. *)
Resting(side, k) ==
  LET q == book[side][k] IN SumTo([i \in 1 .. Len(q) |-> q[i].left], Len(q))
Available(t) ==
  LET top == Key(MaxPrice) + 1
  IN  SumTo([i \in 1 .. top |-> IF Within(t, i - 1) THEN Resting(Other(t.side), i - 1) ELSE 0], top)
CanFillLax(t) == Available(t) > 0           \* mutation: any liquidity will do
CanFill(t)    == Available(t) * TolInv >= t.qty * (TolInv - 1)

Init ==
  /\ book = [s \in Sides |-> [k \in Keys |-> <<>>]]
  /\ taker = None /\ orders = <<>> /\ fills = {}
  /\ filled = <<>> /\ cancelled = <<>>

-----------------------------------------------------------------------------
Enter(o, reason) ==
  /\ taker = None /\ Len(orders) < MaxOrders
  /\ orders' = Append(orders, o) /\ filled' = Append(filled, 0)
  /\ cancelled' = Append(cancelled, reason)
  /\ UNCHANGED <<book, fills>>

(* submit, its early returns: an invalid order, a FOK that cannot fill. *)
SubmitInvalid(o) == Enter(o, "InvalidOrder") /\ ~Valid(o) /\ UNCHANGED taker
SubmitFokNoFill(o) ==
  Enter(o, "FokNoFill") /\ Valid(o) /\ o.kind = "Fok" /\ ~CanFill(o) /\ UNCHANGED taker

Submit(o) ==
  /\ Enter(o, "none")
  /\ Valid(o) /\ (o.kind = "Fok" => CanFill(o))
  /\ taker' = [side |-> o.side, kind |-> o.kind, price |-> o.price, qty |-> o.qty,
               left |-> o.qty, id |-> Len(orders) + 1]

(* One round of fill_at: the taker against the front of the best level. *)
AfterFillKeeps(q, m) == <<m>> \o Tail(q)    \* mutation: a filled maker stays
AfterFill(q, m) == IF IsFilled(m) THEN Tail(q) ELSE <<m>> \o Tail(q)

FillAt(k) ==
  /\ taker # None /\ ~IsFilled(taker)
  /\ k \in BestKey(Other(taker.side)) /\ Within(taker, k)
  /\ LET side == Other(taker.side)
         m    == Head(book[side][k])
         qty  == IF taker.left < m.left THEN taker.left ELSE m.left
     IN  /\ taker' = [taker EXCEPT !.left = @ - qty]
         /\ book' = [book EXCEPT ![side][k] = AfterFill(@, [m EXCEPT !.left = @ - qty])]
         /\ filled' = [filled EXCEPT ![taker.id] = @ + qty, ![m.id] = @ + qty]
         /\ fills' = fills \cup {[taker |-> taker.id, maker |-> m.id, key |-> k, qty |-> qty]}
  /\ UNCHANGED <<orders, cancelled>>

(* The match is over: filled, out of liquidity or out of its limit. *)
Matched == IsFilled(taker) \/ \A k \in BestKey(Other(taker.side)) : ~Within(taker, k)

FinishFilled ==
  /\ taker # None /\ Matched /\ (IsFilled(taker) \/ taker.kind = "Fok")
  /\ taker' = None
  /\ UNCHANGED <<book, orders, filled, cancelled, fills>>

FinishRests ==
  /\ taker # None /\ Matched /\ ~IsFilled(taker) /\ taker.kind = "Limit"
  /\ book' = [book EXCEPT ![taker.side][Key(taker.price)] = Append(@, taker)]
  /\ taker' = None
  /\ UNCHANGED <<orders, filled, cancelled, fills>>

FinishCancels ==
  /\ taker # None /\ Matched /\ ~IsFilled(taker) /\ taker.kind \in {"Ioc", "Market"}
  /\ cancelled' = [cancelled EXCEPT ![taker.id] =
                     IF taker.kind = "Ioc" THEN "IocRemainder" ELSE "MarketNoLiquidity"]
  /\ taker' = None
  /\ UNCHANGED <<book, orders, filled, fills>>

Match == (\E k \in Keys : FillAt(k)) \/ FinishFilled \/ FinishRests \/ FinishCancels

Next ==
  \/ \E o \in NewOrders : SubmitInvalid(o) \/ SubmitFokNoFill(o) \/ Submit(o)
  \/ Match
  \/ taker = None /\ Len(orders) = MaxOrders /\ UNCHANGED vars   \* the supply is used up

Spec == Init /\ [][Next]_vars
FairSpec == Spec /\ WF_vars(Match)

-----------------------------------------------------------------------------
OnBook == {x \in Sides \X Keys \X (1 .. MaxOrders) : x[3] <= Len(book[x[1]][x[2]])}
At(x)  == book[x[1]][x[2]][x[3]]
Ids    == 1 .. Len(orders)

(* The type of every variable; nothing that is dust rests on the book, and *)
(* what rests is a limit order on its own side at the key of its price.    *)
TypeOK ==
  /\ Len(orders) <= MaxOrders /\ \A i \in Ids : orders[i] \in NewOrders
  /\ Len(filled) = Len(orders) /\ Len(cancelled) = Len(orders)
  /\ \A i \in Ids : filled[i] \in Nat
                    /\ cancelled[i] \in {"none", "InvalidOrder", "FokNoFill",
                                         "IocRemainder", "MarketNoLiquidity"}
  /\ taker # None => taker.id = Len(orders) /\ taker.left \in 0 .. taker.qty
  /\ \A x \in OnBook : LET o == At(x) IN
       /\ o.id \in Ids /\ o.left \in 0 .. o.qty /\ ~IsFilled(o)
       /\ o.kind = "Limit" /\ o.side = x[1] /\ Key(o.price) = x[2]

(* Between submissions the book is never crossed or locked: a limit order  *)
(* that rests has first consumed all that its price reaches.               *)
Uncrossed ==
  taker = None => \A b \in Levels("Buy"), a \in Levels("Sell") : b < a

(* Price-time priority over the whole history: no order still resting was  *)
(* passed over by an earlier trade on its side, one that came after it and *)
(* hit a worse price, or a later order at the same price.                  *)
NothingPassedOver ==
  \A f \in fills, x \in OnBook : LET o == At(x) IN
    o.side = orders[f.maker].side /\ o.id < f.taker =>
      /\ ~Better(o.side, x[2], f.key)
      /\ x[2] = f.key => f.maker <= o.id

(* Every order submitted is accounted for: in the match or resting with    *)
(* the remainder of what was not reported filled, cancelled, or filled up  *)
(* to dust; none of these twice.                                           *)
Accounted ==
  \A i \in Ids :
    LET held == {At(x) : x \in {y \in OnBook : At(y).id = i}}
                  \cup (IF taker # None /\ taker.id = i THEN {taker} ELSE {})
    IN  /\ \A x, y \in OnBook : At(x).id = i /\ At(y).id = i => x = y
        /\ \A o \in held : o.left = orders[i].qty - filled[i] /\ cancelled[i] = "none"
        /\ held = {} /\ cancelled[i] = "none"
             => QtyIsZero(orders[i].qty - filled[i], orders[i].qty)
        /\ filled[i] <= orders[i].qty \/ ~Valid(orders[i])

(* A FOK order is all or nothing: once decided it is filled up to dust, or *)
(* cancelled with no fill at all.                                          *)
FokAllOrNothing ==
  \A i \in Ids :
    orders[i].kind = "Fok" /\ (taker = None \/ taker.id # i) =>
      \/ filled[i] = 0 /\ cancelled[i] \in {"FokNoFill", "InvalidOrder"}
      \/ cancelled[i] = "none" /\ QtyIsZero(orders[i].qty - filled[i], orders[i].qty)

(* No fill is worse than the limit of either order by more than the half   *)
(* tick that rounding to the key may cost.                                 *)
WithinLimits ==
  \A f \in fills, i \in Ids :
    i \in {f.taker, f.maker} /\ orders[i].kind # "Market" =>
      IF orders[i].side = "Buy" THEN KeyPrice(f.key) <= orders[i].price + 2
      ELSE KeyPrice(f.key) >= orders[i].price - 2

(* The book and its fills respect prices, and every order is settled by    *)
(* the rules of its kind.                                                  *)
BookInv == TypeOK /\ Uncrossed /\ WithinLimits /\ Accounted /\ FokAllOrNothing

(* Every submission returns: the matching loops end.                       *)
SubmitReturns == taker # None ~> taker = None
=============================================================================
