--------------------------- MODULE MatchingProofs ---------------------------
(***************************************************************************)
(* The two matching engines.  For any prices, quantities, tolerance and    *)
(* number of orders the book keeps price-time priority, is never crossed,  *)
(* fills within the limits, accounts for every order, and fills a FOK      *)
(* order that can_fill let through.  For any symbols and candles too, the  *)
(* paper engine reports an order at most once, an immediate one at the     *)
(* next candle, fills at prices that traded and that the limit allows, and *)
(* misses no fill, and its portfolio makes up no profit but dust.          *)
(***************************************************************************)
EXTENDS OrderBook, PaperEngine, NatLemmas, SequenceTheorems, FiniteSetTheorems

-----------------------------------------------------------------------------
(* The book: its inductive invariant.                                     *)

Reasons   == {"none", "InvalidOrder", "FokNoFill", "IocRemainder", "MarketNoLiquidity"}
Submitted == [side : Sides, kind : Kinds, price : Int, qty : Int]
Order     == [side : Sides, kind : Kinds, price : Int, qty : Int, left : Int, id : Nat]
Fill      == [taker : Nat, maker : Nat, key : Keys, qty : Nat]

Types ==
  /\ orders \in Seq(NewOrders) /\ Len(orders) <= MaxOrders
  /\ filled \in Seq(Nat) /\ Len(filled) = Len(orders)
  /\ cancelled \in Seq(Reasons) /\ Len(cancelled) = Len(orders)
  /\ book \in [Sides -> [Keys -> Seq(Order)]]
  /\ taker # None => taker \in Order
  /\ fills \subseteq Fill

(* An order in the match or on the book: as submitted, with what the       *)
(* reported fills have left of it.                                         *)
Live(o) ==
  /\ o.id \in Ids /\ o.side = orders[o.id].side /\ o.kind = orders[o.id].kind
  /\ o.price = orders[o.id].price /\ o.qty = orders[o.id].qty
  /\ Valid(orders[o.id]) /\ cancelled[o.id] = "none"
  /\ o.left = o.qty - filled[o.id] /\ o.left >= 0

Rests(o, s, k) ==
  Live(o) /\ ~IsFilled(o) /\ o.kind = "Limit" /\ o.side = s /\ Key(o.price) = k

RestInv ==
  \A s \in Sides, k \in Keys : \A i \in 1 .. Len(book[s][k]) : Rests(book[s][k][i], s, k)

TakerInv ==
  taker # None =>
    /\ Live(taker) /\ taker.id = Len(orders)
    /\ \A s \in Sides, k \in Keys : \A i \in 1 .. Len(book[s][k]) : book[s][k][i].id # taker.id

(* A queue is in the order of arrival. *)
QueueInv ==
  \A s \in Sides, k \in Keys : \A i, j \in 1 .. Len(book[s][k]) :
    i < j => book[s][k][i].id < book[s][k][j].id

(* In the middle of a match, too. *)
CrossInv == \A b \in Levels("Buy"), a \in Levels("Sell") : b < a

FillInv ==
  \A f \in fills :
    /\ f.taker \in Ids /\ f.maker \in Ids
    /\ orders[f.maker].kind = "Limit" /\ Key(orders[f.maker].price) = f.key
    /\ Within(orders[f.taker], f.key)

PassInv ==
  \A f \in fills, s \in Sides, k \in Keys : \A i \in 1 .. Len(book[s][k]) :
    s = orders[f.maker].side /\ book[s][k][i].id < f.taker =>
      /\ ~Better(s, k, f.key)
      /\ k = f.key => f.maker <= book[s][k][i].id

OnQueue(n) == \E s \in Sides, k \in Keys : \E i \in 1 .. Len(book[s][k]) : book[s][k][i].id = n

DoneInv ==
  \A n \in Ids :
    /\ filled[n] <= orders[n].qty \/ ~Valid(orders[n])
    /\ \/ cancelled[n] # "none" \/ (taker # None /\ taker.id = n) \/ OnQueue(n)
       \/ QtyIsZero(orders[n].qty - filled[n], orders[n].qty)

(* While a FOK is matched, what it got and what still rests within its     *)
(* limit are enough.                                                       *)
FokInv ==
  taker # None /\ taker.kind = "Fok" /\ ~IsFilled(taker) =>
    (Available(taker) + filled[taker.id]) * TolInv >= taker.qty * (TolInv - 1)

BkInv == /\ Types /\ RestInv /\ TakerInv /\ QueueInv /\ CrossInv /\ FillInv /\ PassInv
         /\ DoneInv /\ FokInv /\ FokAllOrNothing

-----------------------------------------------------------------------------
(* Orders and keys. *)

LEMMA OrderFields == NewOrders \subseteq Submitted
<1>1. 0 \in Int /\ Prices \subseteq Int /\ Quantities \subseteq Int
  BY OrderConstants
<1> QED BY <1>1 DEF NewOrders, Submitted, Kinds

(* Submitted orders by their id. *)
LEMMA OrderOf ==
  ASSUME Types, NEW n \in Ids
  PROVE  /\ orders[n] \in Submitted /\ filled[n] \in Nat /\ cancelled[n] \in Reasons
         /\ orders[n] \in NewOrders
<1>1. orders[n] \in NewOrders /\ filled[n] \in Nat /\ cancelled[n] \in Reasons
  BY DEF Types, Ids
<1> QED BY <1>1, OrderFields

(* A price that is valid has a key of the book. *)
LEMMA KeyOf ==
  ASSUME NEW p \in Int
  PROVE  /\ Key(p) \in Int /\ 4 * Key(p) <= p + 2 /\ 4 * Key(p) >= p - 1
         /\ ValidPrice(p) => Key(p) \in Keys
BY OrderConstants DEF Key, ValidPrice, Keys

(* There are finitely many keys, from zero. *)
LEMMA TopKey == Key(MaxPrice) \in Nat /\ Keys = 0 .. Key(MaxPrice)
BY OrderConstants DEF Key, Keys

(* An order with nothing left is filled. *)
LEMMA NothingLeft ==
  ASSUME NEW q \in Nat
  PROVE  QtyIsZero(0, q)
<1>1. 0 * TolInv = 0
  BY OrderConstants
<1> QED BY <1>1 DEF QtyIsZero

(* Enough up to the tolerance is filled up to the tolerance. *)
LEMMA EnoughIsFilled ==
  ASSUME NEW q \in Int, NEW f \in Int, f * TolInv >= q * (TolInv - 1)
  PROVE  QtyIsZero(q - f, q)
<1>1. TolInv \in Int
  BY OrderConstants
<1>2. (q - f) * TolInv = q * TolInv - f * TolInv /\ q * (TolInv - 1) = q * TolInv - q
  BY <1>1
<1>3. q * TolInv \in Int /\ f * TolInv \in Int
  BY <1>1
<1>4. f * TolInv >= q * TolInv - q
  BY <1>2
<1>5. q * TolInv - f * TolInv <= q
  BY <1>3, <1>4
<1> QED BY <1>2, <1>5 DEF QtyIsZero

(* A record is not the empty tuple. *)
LEMMA OrderIsSome ==
  ASSUME NEW o \in Order
  PROVE  o # None
<1>1. DOMAIN o = {"side", "kind", "price", "qty", "left", "id"}
  BY DEF Order
<1>2. DOMAIN None = {}
  BY DEF None
<1> QED BY <1>1, <1>2

(* A side with orders has a best level, and no level is better. *)
LEMMA BestExists ==
  ASSUME NEW s \in Sides, NEW j \in Levels(s)
  PROVE  \E k \in BestKey(s) : TRUE
<1>1. Levels(s) \subseteq 0 .. Key(MaxPrice) /\ Levels(s) \subseteq Nat /\ Levels(s) # {}
  BY TopKey DEF Levels
<1>2. PICK lo \in Levels(s) : \A n \in Levels(s) : lo <= n
  BY <1>1, Least
<1>3. PICK hi \in Levels(s) : \A n \in Levels(s) : n <= hi
  BY <1>1, TopKey, Greatest
<1>4. CASE s = "Buy"
  <2>1. \A n \in Levels(s) : ~Better(s, n, hi)
    BY <1>1, <1>3, <1>4 DEF Better
  <2> QED BY <2>1 DEF BestKey
<1>5. CASE s # "Buy"
  <2>1. \A n \in Levels(s) : ~Better(s, n, lo)
    BY <1>1, <1>2, <1>5 DEF Better
  <2> QED BY <2>1 DEF BestKey
<1> QED BY <1>4, <1>5

-----------------------------------------------------------------------------
(* An order comes in. *)

(* The new order gets the next id; the others keep theirs. *)
LEMMA EnterShape ==
  ASSUME Types, NEW o \in NewOrders, NEW reason \in Reasons, Enter(o, reason)
  PROVE  /\ taker = None /\ book' = book /\ fills' = fills
         /\ orders' \in Seq(NewOrders) /\ Len(orders') = Len(orders) + 1
         /\ filled' \in Seq(Nat) /\ Len(filled') = Len(orders) + 1
         /\ cancelled' \in Seq(Reasons) /\ Len(cancelled') = Len(orders) + 1
         /\ Len(orders) \in Nat /\ Len(orders) + 1 <= MaxOrders
         /\ Ids = 1 .. Len(orders) /\ Ids' = 1 .. (Len(orders) + 1)
         /\ \A n \in Ids : /\ orders'[n] = orders[n] /\ filled'[n] = filled[n]
                           /\ cancelled'[n] = cancelled[n]
         /\ orders'[Len(orders) + 1] = o /\ filled'[Len(orders) + 1] = 0
         /\ cancelled'[Len(orders) + 1] = reason
<1>1. /\ orders' = Append(orders, o) /\ filled' = Append(filled, 0)
      /\ cancelled' = Append(cancelled, reason)
      /\ taker = None /\ book' = book /\ fills' = fills /\ Len(orders) < MaxOrders
  BY DEF Enter
<1>2. /\ orders \in Seq(NewOrders) /\ filled \in Seq(Nat) /\ cancelled \in Seq(Reasons)
      /\ Len(orders) \in Nat /\ Len(filled) = Len(orders) /\ Len(cancelled) = Len(orders)
      /\ MaxOrders \in Nat
  BY BookConstants DEF Types
<1>3. /\ orders' \in Seq(NewOrders) /\ Len(orders') = Len(orders) + 1
      /\ \A n \in 1 .. Len(orders) : orders'[n] = orders[n]
      /\ orders'[Len(orders) + 1] = o
  BY <1>1, <1>2, AppendProperties
<1>4. /\ filled' \in Seq(Nat) /\ Len(filled') = Len(orders) + 1
      /\ \A n \in 1 .. Len(orders) : filled'[n] = filled[n]
      /\ filled'[Len(orders) + 1] = 0
  BY <1>1, <1>2, AppendProperties
<1>5. /\ cancelled' \in Seq(Reasons) /\ Len(cancelled') = Len(orders) + 1
      /\ \A n \in 1 .. Len(orders) : cancelled'[n] = cancelled[n]
      /\ cancelled'[Len(orders) + 1] = reason
  BY <1>1, <1>2, AppendProperties
<1> QED BY <1>1, <1>2, <1>3, <1>4, <1>5 DEF Ids

(* What is on the book stays as it is. *)
LEMMA EnterKeepsBook ==
  ASSUME BkInv, NEW o \in NewOrders, NEW reason \in Reasons, Enter(o, reason)
  PROVE  RestInv' /\ QueueInv' /\ CrossInv' /\ FillInv' /\ PassInv'
<1>0. Types
  BY DEF BkInv
<1>1. /\ book' = book /\ fills' = fills /\ Ids = 1 .. Len(orders)
      /\ Ids' = 1 .. (Len(orders) + 1) /\ Len(orders) \in Nat
      /\ \A n \in Ids : /\ orders'[n] = orders[n] /\ filled'[n] = filled[n]
                        /\ cancelled'[n] = cancelled[n]
  BY <1>0, EnterShape
<1>2. \A n \in Ids : n \in Ids'
  BY <1>1
<1>3. RestInv'
  <2> SUFFICES ASSUME NEW s \in Sides, NEW k \in Keys, NEW i \in 1 .. Len(book[s][k])
               PROVE  Rests(book[s][k][i], s, k)'
    BY <1>1 DEF RestInv
  <2>1. Rests(book[s][k][i], s, k)
    BY DEF BkInv, RestInv
  <2>2. PICK r : r = book[s][k][i] /\ r = book'[s][k][i]
    BY <1>1
  <2>3. r.id \in Ids /\ r.id \in Ids' /\ orders'[r.id] = orders[r.id]
        /\ filled'[r.id] = filled[r.id] /\ cancelled'[r.id] = cancelled[r.id]
    BY <1>1, <1>2, <2>1, <2>2 DEF Rests, Live
  <2> QED BY <2>1, <2>2, <2>3 DEF Rests, Live, IsFilled
<1>4. QueueInv' /\ CrossInv'
  BY <1>1 DEF BkInv, QueueInv, CrossInv, Levels
<1>5. FillInv'
  <2> SUFFICES ASSUME NEW f \in fills
               PROVE  /\ f.taker \in Ids' /\ f.maker \in Ids'
                      /\ orders'[f.maker].kind = "Limit" /\ Key(orders'[f.maker].price) = f.key
                      /\ Within(orders'[f.taker], f.key)
    BY <1>1 DEF FillInv
  <2>1. /\ f.taker \in Ids /\ f.maker \in Ids
        /\ orders[f.maker].kind = "Limit" /\ Key(orders[f.maker].price) = f.key
        /\ Within(orders[f.taker], f.key)
    BY DEF BkInv, FillInv
  <2>2. orders'[f.maker] = orders[f.maker] /\ orders'[f.taker] = orders[f.taker]
    BY <1>1, <2>1
  <2> QED BY <1>2, <2>1, <2>2
<1>6. PassInv'
  <2> SUFFICES ASSUME NEW f \in fills, NEW s \in Sides, NEW k \in Keys,
                      NEW i \in 1 .. Len(book[s][k]),
                      s = orders'[f.maker].side, book[s][k][i].id < f.taker
               PROVE  /\ ~Better(s, k, f.key)
                      /\ k = f.key => f.maker <= book[s][k][i].id
    BY <1>1 DEF PassInv
  <2>1. orders'[f.maker] = orders[f.maker]
    BY <1>1 DEF BkInv, FillInv
  <2> QED BY <2>1 DEF BkInv, PassInv
<1> QED BY <1>3, <1>4, <1>5, <1>6

(* An order turned away is settled by its Cancel event. *)
LEMMA TurnedAwayKeeps ==
  ASSUME BkInv, NEW o \in NewOrders, SubmitInvalid(o) \/ SubmitFokNoFill(o)
  PROVE  BkInv'
<1>1. PICK reason \in Reasons :
        /\ Enter(o, reason) /\ reason \in {"FokNoFill", "InvalidOrder"} /\ taker' = taker
        /\ reason # "none"
  BY DEF SubmitInvalid, SubmitFokNoFill, Reasons
<1>0. Types
  BY DEF BkInv
<1>2. /\ taker = None /\ book' = book /\ fills' = fills
      /\ Ids = 1 .. Len(orders) /\ Ids' = 1 .. (Len(orders) + 1) /\ Len(orders) \in Nat
      /\ \A n \in Ids : /\ orders'[n] = orders[n] /\ filled'[n] = filled[n]
                        /\ cancelled'[n] = cancelled[n]
      /\ orders'[Len(orders) + 1] = o /\ filled'[Len(orders) + 1] = 0
      /\ cancelled'[Len(orders) + 1] = reason
  BY <1>0, <1>1, EnterShape
<1>3. \A n \in Ids' : n \in Ids \/ n = Len(orders) + 1
  BY <1>2
<1>4. Types'
  <2>1. /\ orders' \in Seq(NewOrders) /\ Len(orders') = Len(orders) + 1
        /\ filled' \in Seq(Nat) /\ Len(filled') = Len(orders) + 1
        /\ cancelled' \in Seq(Reasons) /\ Len(cancelled') = Len(orders) + 1
        /\ Len(orders) + 1 <= MaxOrders
    BY <1>0, <1>1, EnterShape
  <2> QED BY <1>0, <1>1, <1>2, <2>1 DEF Types
<1>5. RestInv' /\ QueueInv' /\ CrossInv' /\ FillInv' /\ PassInv'
  BY <1>1, EnterKeepsBook
<1>6. TakerInv' /\ FokInv'
  BY <1>1, <1>2 DEF TakerInv, FokInv
<1>7. DoneInv'
  <2> SUFFICES ASSUME NEW n \in Ids'
               PROVE  /\ filled'[n] <= orders'[n].qty \/ ~Valid(orders'[n])
                      /\ \/ cancelled'[n] # "none" \/ OnQueue(n)'
                         \/ QtyIsZero(orders'[n].qty - filled'[n], orders'[n].qty)
    BY DEF DoneInv
  <2>1. CASE n \in Ids
    <3>1. OnQueue(n) => OnQueue(n)'
      BY <1>2 DEF OnQueue
    <3> QED BY <1>2, <2>1, <3>1 DEF BkInv, DoneInv
  <2>2. CASE n = Len(orders) + 1
    <3>1. o \in Submitted
      BY OrderFields
    <3>2. 0 <= o.qty \/ ~Valid(o)
      BY <3>1 DEF Valid, Submitted
    <3> QED BY <1>1, <1>2, <2>2, <3>2
  <2> QED BY <1>3, <2>1, <2>2
<1>8. FokAllOrNothing'
  <2> SUFFICES ASSUME NEW n \in Ids', orders'[n].kind = "Fok"
               PROVE  \/ filled'[n] = 0 /\ cancelled'[n] \in {"FokNoFill", "InvalidOrder"}
                      \/ /\ cancelled'[n] = "none"
                         /\ QtyIsZero(orders'[n].qty - filled'[n], orders'[n].qty)
    BY DEF FokAllOrNothing
  <2>1. CASE n \in Ids
    BY <1>2, <2>1 DEF BkInv, FokAllOrNothing
  <2>2. CASE n = Len(orders) + 1
    BY <1>1, <1>2, <2>2
  <2> QED BY <1>3, <2>1, <2>2
<1> QED BY <1>4, <1>5, <1>6, <1>7, <1>8 DEF BkInv

-----------------------------------------------------------------------------
(* What can_fill adds up, as a function of the book. *)

Books       == [Sides -> [Keys -> Seq(Order)]]
Queued(q)   == SumTo([i \in 1 .. Len(q) |-> q[i].left], Len(q))
Avail(t, b) ==
  LET top == Key(MaxPrice) + 1
  IN  SumTo([i \in 1 .. top |-> IF Within(t, i - 1) THEN Queued(b[Other(t.side)][i - 1]) ELSE 0],
          top)

LEMMA AvailableIs ==
  ASSUME NEW t
  PROVE  Available(t) = Avail(t, book)
BY DEF Available, Avail, Resting, Queued

LEMMA LeftTerms ==
  ASSUME NEW q \in Seq(Order)
  PROVE  [i \in 1 .. Len(q) |-> q[i].left] \in [1 .. Len(q) -> Int] /\ Len(q) \in Nat
<1>1. \A i \in 1 .. Len(q) : q[i] \in Order
  OBVIOUS
<1> QED BY <1>1 DEF Order

LEMMA QueuedInt ==
  ASSUME NEW q \in Seq(Order)
  PROVE  Queued(q) \in Int
<1>1. PICK g \in [1 .. Len(q) -> Int] : g = [i \in 1 .. Len(q) |-> q[i].left]
  BY LeftTerms
<1>2. Len(q) \in Nat
  OBVIOUS
<1>3. PICK f : Partial(f, g, Len(q)) /\ SumTo(g, Len(q)) = f[Len(q)]
  BY <1>2, SumIs
<1> QED BY <1>1, <1>2, <1>3 DEF Queued, Partial

(* Taking the front order away takes away its remainder. *)
LEMMA QueuedTail ==
  ASSUME NEW q \in Seq(Order), q # <<>>
  PROVE  Queued(Tail(q)) = Queued(q) - q[1].left
<1>1. /\ Tail(q) \in Seq(Order) /\ Len(Tail(q)) = Len(q) - 1 /\ Len(q) \in Nat \ {0}
      /\ \A i \in 1 .. (Len(q) - 1) : Tail(q)[i] = q[i + 1]
  BY HeadTailProperties
<1>2. PICK g \in [1 .. Len(q) -> Int] : g = [i \in 1 .. Len(q) |-> q[i].left]
  BY LeftTerms
<1>3. PICK h \in [1 .. (Len(q) - 1) -> Int] : h = [i \in 1 .. (Len(q) - 1) |-> Tail(q)[i].left]
  BY <1>1, LeftTerms
<1>4. \A i \in 1 .. (Len(q) - 1) : h[i] = g[i + 1]
  <2>1. \A i \in 1 .. (Len(q) - 1) : i + 1 \in 1 .. Len(q)
    BY <1>1
  <2> QED BY <1>1, <1>2, <1>3, <2>1
<1>5. SumTo(h, Len(q) - 1) = SumTo(g, Len(q)) - g[1]
  BY <1>1, <1>4, SumTail
<1>6. g[1] = q[1].left
  BY <1>1, <1>2
<1> QED BY <1>1, <1>2, <1>3, <1>5, <1>6 DEF Queued

(* The terms of a sum over the keys. *)
LEMMA AvailTerms ==
  ASSUME NEW b \in Books, NEW t, t.side \in Sides
  PROVE  \E g \in [1 .. (Key(MaxPrice) + 1) -> Int] :
           /\ Avail(t, b) = SumTo(g, Key(MaxPrice) + 1)
           /\ \A k \in Keys : /\ k + 1 \in 1 .. (Key(MaxPrice) + 1)
                              /\ g[k + 1] = IF Within(t, k) THEN Queued(b[Other(t.side)][k]) ELSE 0
<1> DEFINE top == Key(MaxPrice) + 1
<1>1. Key(MaxPrice) \in Nat /\ Keys = 0 .. Key(MaxPrice) /\ Other(t.side) \in Sides
  BY TopKey DEF Other, Sides
<1>2. PICK g : g = [i \in 1 .. top |-> IF Within(t, i - 1) THEN Queued(b[Other(t.side)][i - 1])
                                       ELSE 0]
  OBVIOUS
<1>3. \A i \in 1 .. top : i - 1 \in Keys
  BY <1>1
<1>4. \A k \in Keys : Queued(b[Other(t.side)][k]) \in Int
  BY <1>1, QueuedInt DEF Books
<1>5. g \in [1 .. top -> Int]
  BY <1>2, <1>3, <1>4
<1>6. \A k \in Keys : k + 1 \in 1 .. top /\ (k + 1) - 1 = k
  BY <1>1
<1>7. \A k \in Keys : g[k + 1] = IF Within(t, k) THEN Queued(b[Other(t.side)][k]) ELSE 0
  BY <1>2, <1>6
<1>8. Avail(t, b) = SumTo(g, top)
  BY <1>2 DEF Avail
<1> QED BY <1>5, <1>6, <1>7, <1>8

LEMMA AvailInt ==
  ASSUME NEW b \in Books, NEW t, t.side \in Sides
  PROVE  Avail(t, b) \in Int
<1>1. PICK g \in [1 .. (Key(MaxPrice) + 1) -> Int] : Avail(t, b) = SumTo(g, Key(MaxPrice) + 1)
  BY AvailTerms
<1>2. PICK n \in Nat : n = Key(MaxPrice) + 1
  BY TopKey
<1>3. PICK f : Partial(f, g, n) /\ SumTo(g, n) = f[n]
  BY <1>2, SumIs
<1>4. f[n] \in Int
  BY <1>3 DEF Partial
<1> QED BY <1>1, <1>2, <1>3, <1>4

(* With nothing within the limit nothing is available. *)
LEMMA AvailZero ==
  ASSUME NEW b \in Books, NEW t, t.side \in Sides,
         \A k \in Keys : Within(t, k) => b[Other(t.side)][k] = <<>>
  PROVE  Avail(t, b) = 0
<1>1. PICK g \in [1 .. (Key(MaxPrice) + 1) -> Int] :
        /\ Avail(t, b) = SumTo(g, Key(MaxPrice) + 1)
        /\ \A k \in Keys : /\ k + 1 \in 1 .. (Key(MaxPrice) + 1)
                           /\ g[k + 1] = IF Within(t, k) THEN Queued(b[Other(t.side)][k]) ELSE 0
  BY AvailTerms
<1>2. PICK n \in Nat : n = Key(MaxPrice) + 1
  BY TopKey
<1>3. Queued(<<>>) = 0
  <2>1. PICK g0 \in [1 .. 0 -> Int] : g0 = [i \in 1 .. Len(<<>>) |-> <<>>[i].left]
    <3>1. <<>> \in Seq(Order) /\ Len(<<>>) = 0
      OBVIOUS
    <3> QED BY <3>1, LeftTerms
  <2>2. PICK z \in Nat : z = 0
    OBVIOUS
  <2>3. g0 \in [1 .. z -> Int] /\ \A i \in 1 .. z : g0[i] = 0
    BY <2>1, <2>2
  <2>4. SumTo(g0, z) = 0
    BY <2>3, SumZero
  <2> QED BY <2>1, <2>2, <2>4 DEF Queued
<1>4. \A k \in Keys : g[k + 1] = 0
  BY <1>1, <1>3
<1>5. \A i \in 1 .. n : i - 1 \in Keys /\ (i - 1) + 1 = i
  BY <1>2, TopKey
<1>6. ASSUME NEW i \in 1 .. n PROVE g[i] = 0
  <2>1. PICK k \in Keys : k = i - 1 /\ k + 1 = i
    BY <1>5
  <2> QED BY <1>4, <2>1
<1> QED BY <1>1, <1>2, <1>6, SumZero

(* A level within the limit that loses d takes d from what is available. *)
LEMMA AvailLess ==
  ASSUME NEW b \in Books, NEW c \in Books, NEW t, t.side \in Sides, NEW k \in Keys, NEW d \in Int,
         Within(t, k), Queued(c[Other(t.side)][k]) = Queued(b[Other(t.side)][k]) - d,
         \A j \in Keys : j # k => c[Other(t.side)][j] = b[Other(t.side)][j]
  PROVE  Avail(t, c) = Avail(t, b) - d
<1>1. PICK g \in [1 .. (Key(MaxPrice) + 1) -> Int] :
        /\ Avail(t, b) = SumTo(g, Key(MaxPrice) + 1)
        /\ \A j \in Keys : /\ j + 1 \in 1 .. (Key(MaxPrice) + 1)
                           /\ g[j + 1] = IF Within(t, j) THEN Queued(b[Other(t.side)][j]) ELSE 0
  BY AvailTerms
<1>2. PICK h \in [1 .. (Key(MaxPrice) + 1) -> Int] :
        /\ Avail(t, c) = SumTo(h, Key(MaxPrice) + 1)
        /\ \A j \in Keys : /\ j + 1 \in 1 .. (Key(MaxPrice) + 1)
                           /\ h[j + 1] = IF Within(t, j) THEN Queued(c[Other(t.side)][j]) ELSE 0
  BY AvailTerms
<1>3. PICK n \in Nat : n = Key(MaxPrice) + 1
  BY TopKey
<1>4. k + 1 \in 1 .. n /\ h[k + 1] = g[k + 1] - d
  BY <1>1, <1>2, <1>3
<1>5. \A j \in Keys : j # k => h[j + 1] = g[j + 1]
  BY <1>1, <1>2
<1>6. \A i \in 1 .. n : i - 1 \in Keys /\ (i - 1) + 1 = i /\ (i # k + 1 => i - 1 # k)
  BY <1>3, TopKey
<1>7. \A i \in 1 .. n : i # k + 1 => h[i] = g[i]
  BY <1>5, <1>6
<1>8. SumTo(h, n) = SumTo(g, n) - d
  BY <1>3, <1>4, <1>7, SumLess
<1> QED BY <1>1, <1>2, <1>3, <1>8

-----------------------------------------------------------------------------
(* An order goes into the match; a FOK with enough to fill it. *)
LEMMA SubmitKeeps ==
  ASSUME BkInv, NEW o \in NewOrders, Submit(o)
  PROVE  BkInv'
<1>0. Types /\ "none" \in Reasons
  BY DEF BkInv, Reasons
<1>1. /\ Enter(o, "none") /\ Valid(o) /\ (o.kind = "Fok" => CanFill(o))
      /\ taker' = [side |-> o.side, kind |-> o.kind, price |-> o.price, qty |-> o.qty,
                   left |-> o.qty, id |-> Len(orders) + 1]
  BY DEF Submit
<1>2. /\ taker = None /\ book' = book /\ fills' = fills
      /\ Ids = 1 .. Len(orders) /\ Ids' = 1 .. (Len(orders) + 1) /\ Len(orders) \in Nat
      /\ \A n \in Ids : /\ orders'[n] = orders[n] /\ filled'[n] = filled[n]
                        /\ cancelled'[n] = cancelled[n]
      /\ orders'[Len(orders) + 1] = o /\ filled'[Len(orders) + 1] = 0
      /\ cancelled'[Len(orders) + 1] = "none" /\ Len(orders') = Len(orders) + 1
  BY <1>0, <1>1, EnterShape
<1>3. \A n \in Ids' : n \in Ids \/ n = Len(orders) + 1
  BY <1>2
<1>4. /\ o.side \in Sides /\ o.kind \in Kinds /\ o.price \in Int /\ o.qty \in Int
      /\ o.qty > 0
  <2>1. o \in Submitted
    BY OrderFields
  <2> QED BY <1>1, <2>1 DEF Submitted, Valid
<1>5. /\ taker' \in Order /\ taker' # None
      /\ taker'.side = o.side /\ taker'.kind = o.kind /\ taker'.price = o.price
      /\ taker'.qty = o.qty /\ taker'.left = o.qty /\ taker'.id = Len(orders) + 1
  <2>1. taker' \in Order
    BY <1>1, <1>2, <1>4 DEF Order
  <2> QED BY <1>1, <2>1, OrderIsSome
<1>6. Types'
  <2>1. /\ orders' \in Seq(NewOrders) /\ Len(orders') = Len(orders) + 1
        /\ filled' \in Seq(Nat) /\ Len(filled') = Len(orders) + 1
        /\ cancelled' \in Seq(Reasons) /\ Len(cancelled') = Len(orders) + 1
        /\ Len(orders) + 1 <= MaxOrders
    BY <1>0, <1>1, EnterShape
  <2> QED BY <1>0, <1>2, <1>5, <2>1 DEF Types
<1>7. RestInv' /\ QueueInv' /\ CrossInv' /\ FillInv' /\ PassInv'
  BY <1>0, <1>1, EnterKeepsBook
<1>8. TakerInv'
  <2>1. Live(taker)'
    <3>1. Len(orders) + 1 \in Ids' /\ o.qty = o.qty - 0 /\ o.qty >= 0
      BY <1>2, <1>4
    <3> QED BY <1>1, <1>2, <1>5, <3>1 DEF Live
  <2>2. ASSUME NEW s \in Sides, NEW k \in Keys, NEW i \in 1 .. Len(book[s][k])
        PROVE  book[s][k][i].id # Len(orders) + 1
    <3>1. book[s][k][i].id \in 1 .. Len(orders)
      BY <1>2 DEF BkInv, RestInv, Rests, Live
    <3> QED BY <1>2, <3>1
  <2> QED BY <1>2, <1>5, <2>1, <2>2 DEF TakerInv
<1>9. DoneInv'
  <2> SUFFICES ASSUME NEW n \in Ids'
               PROVE  /\ filled'[n] <= orders'[n].qty \/ ~Valid(orders'[n])
                      /\ \/ cancelled'[n] # "none" \/ taker'.id = n \/ OnQueue(n)'
                         \/ QtyIsZero(orders'[n].qty - filled'[n], orders'[n].qty)
    BY <1>5 DEF DoneInv
  <2>1. CASE n \in Ids
    <3>1. OnQueue(n) => OnQueue(n)'
      BY <1>2 DEF OnQueue
    <3> QED BY <1>2, <2>1, <3>1 DEF BkInv, DoneInv
  <2>2. CASE n = Len(orders) + 1
    <3>1. 0 <= o.qty
      BY <1>4
    <3> QED BY <1>2, <1>5, <2>2, <3>1
  <2> QED BY <1>3, <2>1, <2>2
<1>10. FokInv'
  <2> SUFFICES ASSUME o.kind = "Fok"
               PROVE  (Available(taker)' + 0) * TolInv >= o.qty * (TolInv - 1)
    BY <1>2, <1>5 DEF FokInv
  <2>1. Available(o) * TolInv >= o.qty * (TolInv - 1)
    BY <1>1 DEF CanFill
  <2>2. Available(taker)' = Avail(taker', book')
    BY DEF Available, Avail, Resting, Queued
  <2>3. Avail(taker', book') = Avail(o, book)
    BY <1>2, <1>5 DEF Avail, Within
  <2>4. Avail(o, book) \in Int
    BY <1>0, <1>4, AvailInt DEF Types, Books
  <2>5. Available(o) = Avail(o, book)
    BY AvailableIs
  <2>6. Available(taker)' + 0 = Available(o)
    BY <2>2, <2>3, <2>4, <2>5
  <2> QED BY <2>1, <2>6
<1>11. FokAllOrNothing'
  <2> SUFFICES ASSUME NEW n \in Ids', orders'[n].kind = "Fok", taker'.id # n
               PROVE  \/ filled'[n] = 0 /\ cancelled'[n] \in {"FokNoFill", "InvalidOrder"}
                      \/ /\ cancelled'[n] = "none"
                         /\ QtyIsZero(orders'[n].qty - filled'[n], orders'[n].qty)
    BY <1>5 DEF FokAllOrNothing
  <2>1. n \in Ids
    BY <1>3, <1>5
  <2> QED BY <1>2, <2>1 DEF BkInv, FokAllOrNothing
<1> QED BY <1>6, <1>7, <1>8, <1>9, <1>10, <1>11 DEF BkInv

-----------------------------------------------------------------------------
(* The match is over. *)

(* The order in the match. *)
LEMMA TakerIs ==
  ASSUME BkInv, taker # None
  PROVE  /\ taker \in Order /\ Live(taker) /\ taker.id = Len(orders) /\ taker.id \in Ids
         /\ taker.qty \in Nat \ {0} /\ taker.left \in Nat /\ Other(taker.side) \in Sides
         /\ taker.side \in Sides
         /\ (taker.kind # "Market" => ValidPrice(taker.price) /\ Key(taker.price) \in Keys)
<1>1. taker \in Order /\ Live(taker) /\ taker.id = Len(orders) /\ taker.id \in Ids
  BY DEF BkInv, Types, TakerInv, Live
<1>2. taker.qty > 0 /\ (taker.kind # "Market" => ValidPrice(taker.price))
  BY <1>1 DEF Live, Valid
<1>3. /\ taker.qty \in Int /\ taker.left \in Int /\ taker.left >= 0 /\ taker.side \in Sides
      /\ taker.price \in Int
  BY <1>1 DEF Order, Live
<1>4. taker.kind # "Market" => Key(taker.price) \in Keys
  BY <1>2, <1>3, KeyOf
<1>5. Other(taker.side) \in Sides
  BY <1>3 DEF Other, Sides
<1> QED BY <1>1, <1>2, <1>3, <1>4, <1>5

(* A match that stops short of filling its order has used up every level   *)
(* within the limit.                                                       *)
LEMMA NoneWithin ==
  ASSUME BkInv, taker # None, Matched, ~IsFilled(taker),
         NEW j \in Levels(Other(taker.side))
  PROVE  ~Within(taker, j)
<1>1. /\ Other(taker.side) \in Sides /\ taker.side \in Sides /\ taker.price \in Int
  BY TakerIs DEF Order
<1>2. PICK k \in BestKey(Other(taker.side)) : TRUE
  BY <1>1, BestExists
<1>3. ~Within(taker, k) /\ ~Better(Other(taker.side), j, k)
  BY <1>2 DEF Matched, BestKey
<1>4. j \in Int /\ k \in Int /\ Key(taker.price) \in Int
  <2>1. Key(taker.price) \in Int
    BY <1>1, KeyOf
  <2>2. j \in Keys /\ k \in Keys
    BY <1>2 DEF BestKey, Levels
  <2> QED BY <2>1, <2>2, TopKey
<1>5. CASE taker.side = "Buy"
  BY <1>3, <1>4, <1>5 DEF Within, Better, Other
<1>6. CASE taker.side = "Sell"
  BY <1>3, <1>4, <1>6 DEF Within, Better, Other
<1> QED BY <1>1, <1>5, <1>6 DEF Sides

(* A FOK order that can_fill let through is filled when its match ends.    *)
LEMMA FokIsFilled ==
  ASSUME BkInv, taker # None, Matched, taker.kind = "Fok"
  PROVE  IsFilled(taker)
<1> SUFFICES ASSUME ~IsFilled(taker) PROVE FALSE
  OBVIOUS
<1>1. /\ taker.side \in Sides /\ taker.qty \in Int /\ taker.id \in Ids
      /\ taker.left = taker.qty - filled[taker.id]
  BY TakerIs DEF Live
<1>2. filled[taker.id] \in Int /\ book \in Books
  BY <1>1, OrderOf DEF BkInv, Types, Books
<1>3. \A k \in Keys : Within(taker, k) => book[Other(taker.side)][k] = <<>>
  BY NoneWithin DEF Levels
<1>4. Avail(taker, book) = 0
  BY <1>1, <1>2, <1>3, AvailZero
<1>5. (Avail(taker, book) + filled[taker.id]) * TolInv >= taker.qty * (TolInv - 1)
  BY AvailableIs DEF BkInv, FokInv
<1>6. filled[taker.id] * TolInv >= taker.qty * (TolInv - 1)
  <2>1. Avail(taker, book) + filled[taker.id] = filled[taker.id]
    BY <1>2, <1>4
  <2> QED BY <1>5, <2>1
<1>7. QtyIsZero(taker.left, taker.qty)
  BY <1>1, <1>2, <1>6, EnoughIsFilled
<1> QED BY <1>7 DEF IsFilled

(* The order is filled and leaves no trace but its fills. *)
LEMMA FinishFilledKeeps ==
  ASSUME BkInv, FinishFilled
  PROVE  BkInv'
<1>1. /\ taker # None /\ Matched /\ (IsFilled(taker) \/ taker.kind = "Fok") /\ taker' = None
      /\ book' = book /\ orders' = orders /\ filled' = filled /\ cancelled' = cancelled
      /\ fills' = fills
  BY DEF FinishFilled
<1>2. IsFilled(taker)
  BY <1>1, FokIsFilled
<1>3. /\ QtyIsZero(orders[taker.id].qty - filled[taker.id], orders[taker.id].qty)
      /\ cancelled[taker.id] = "none"
  BY <1>1, <1>2, TakerIs DEF Live, IsFilled
<1>4. Types' /\ RestInv' /\ QueueInv' /\ CrossInv' /\ FillInv' /\ PassInv' /\ TakerInv' /\ FokInv'
  <2>1. Types' /\ TakerInv' /\ FokInv'
    BY <1>1 DEF BkInv, Types, TakerInv, FokInv
  <2>2. RestInv'
    <3> SUFFICES ASSUME NEW s \in Sides, NEW k \in Keys, NEW i \in 1 .. Len(book[s][k])
                 PROVE  Rests(book[s][k][i], s, k)'
      BY <1>1 DEF RestInv
    <3>1. Rests(book[s][k][i], s, k)
      BY DEF BkInv, RestInv
    <3>2. Ids' = Ids
      BY <1>1 DEF Ids
    <3> QED BY <1>1, <3>1, <3>2 DEF Rests, Live, IsFilled
  <2>3. QueueInv' /\ CrossInv'
    BY <1>1 DEF BkInv, QueueInv, CrossInv, Levels
  <2>4. FillInv'
    BY <1>1 DEF BkInv, FillInv, Ids
  <2>5. PassInv'
    BY <1>1 DEF BkInv, PassInv, Ids
  <2> QED BY <2>1, <2>2, <2>3, <2>4, <2>5
<1>5. DoneInv'
  <2> SUFFICES ASSUME NEW n \in Ids
               PROVE  /\ filled[n] <= orders[n].qty \/ ~Valid(orders[n])
                      /\ \/ cancelled[n] # "none" \/ OnQueue(n)
                         \/ QtyIsZero(orders[n].qty - filled[n], orders[n].qty)
    BY <1>1 DEF DoneInv, OnQueue, Ids
  <2> QED BY <1>3 DEF BkInv, DoneInv
<1>6. FokAllOrNothing'
  <2> SUFFICES ASSUME NEW n \in Ids, orders[n].kind = "Fok"
               PROVE  \/ filled[n] = 0 /\ cancelled[n] \in {"FokNoFill", "InvalidOrder"}
                      \/ /\ cancelled[n] = "none"
                         /\ QtyIsZero(orders[n].qty - filled[n], orders[n].qty)
    BY <1>1 DEF FokAllOrNothing, Ids
  <2> QED BY <1>3 DEF BkInv, FokAllOrNothing
<1> QED BY <1>4, <1>5, <1>6 DEF BkInv

(* The remainder is cancelled; nobody else is. *)
LEMMA FinishCancelsKeeps ==
  ASSUME BkInv, FinishCancels
  PROVE  BkInv'
<1>1. PICK reason \in Reasons :
        /\ cancelled' = [cancelled EXCEPT ![taker.id] = reason] /\ reason # "none"
  BY DEF FinishCancels, Reasons
<1>2. /\ taker # None /\ taker.kind \in {"Ioc", "Market"} /\ taker' = None
      /\ book' = book /\ orders' = orders /\ filled' = filled /\ fills' = fills
  BY DEF FinishCancels
<1>3. /\ taker.id \in Ids /\ Ids = 1 .. Len(cancelled) /\ Ids' = Ids
      /\ cancelled \in Seq(Reasons) /\ orders[taker.id].kind = taker.kind
  BY <1>2, TakerIs DEF BkInv, Types, Ids, Live
<1>4. /\ cancelled' \in Seq(Reasons) /\ Len(cancelled') = Len(cancelled)
      /\ \A n \in Ids : cancelled'[n] = IF n = taker.id THEN reason ELSE cancelled[n]
  BY <1>1, <1>3, ExceptSeq
<1>5. Types' /\ QueueInv' /\ CrossInv' /\ FillInv' /\ PassInv' /\ TakerInv' /\ FokInv'
  BY <1>2, <1>4 DEF BkInv, Types, QueueInv, CrossInv, Levels, FillInv, PassInv, TakerInv, FokInv,
     Ids
<1>6. RestInv'
  <2> SUFFICES ASSUME NEW s \in Sides, NEW k \in Keys, NEW i \in 1 .. Len(book[s][k])
               PROVE  Rests(book[s][k][i], s, k)'
    BY <1>2 DEF RestInv
  <2>1. Rests(book[s][k][i], s, k) /\ book[s][k][i].id # taker.id
    BY <1>2 DEF BkInv, RestInv, TakerInv
  <2>2. PICK r : r = book[s][k][i] /\ r = book'[s][k][i]
    BY <1>2
  <2>3. r.id \in Ids /\ cancelled'[r.id] = cancelled[r.id]
    BY <1>4, <2>1, <2>2 DEF Rests, Live
  <2> QED BY <1>2, <1>3, <2>1, <2>2, <2>3 DEF Rests, Live, IsFilled
<1>7. DoneInv'
  <2> SUFFICES ASSUME NEW n \in Ids
               PROVE  /\ filled[n] <= orders[n].qty \/ ~Valid(orders[n])
                      /\ \/ cancelled'[n] # "none" \/ OnQueue(n)
                         \/ QtyIsZero(orders[n].qty - filled[n], orders[n].qty)
    BY <1>2, <1>3 DEF DoneInv, OnQueue
  <2> QED BY <1>1, <1>4 DEF BkInv, DoneInv
<1>8. FokAllOrNothing'
  <2> SUFFICES ASSUME NEW n \in Ids, orders[n].kind = "Fok"
               PROVE  \/ filled[n] = 0 /\ cancelled'[n] \in {"FokNoFill", "InvalidOrder"}
                      \/ /\ cancelled'[n] = "none"
                         /\ QtyIsZero(orders[n].qty - filled[n], orders[n].qty)
    BY <1>2, <1>3 DEF FokAllOrNothing
  <2>1. n # taker.id /\ cancelled'[n] = cancelled[n]
    BY <1>2, <1>3, <1>4
  <2> QED BY <2>1 DEF BkInv, FokAllOrNothing
<1> QED BY <1>5, <1>6, <1>7, <1>8 DEF BkInv

(* A limit order rests behind those that came before it, on a book that    *)
(* its price does not reach.                                               *)
LEMMA FinishRestsKeeps ==
  ASSUME BkInv, FinishRests
  PROVE  BkInv'
<1>1. PICK t \in Order, K \in Keys :
        /\ t = taker /\ K = Key(t.price) /\ t.kind = "Limit" /\ ~IsFilled(t) /\ Matched
        /\ taker # None /\ t.side \in Sides
  BY TakerIs DEF FinishRests
<1>2. /\ book' = [book EXCEPT ![t.side][K] = Append(@, t)] /\ taker' = None
      /\ orders' = orders /\ filled' = filled /\ cancelled' = cancelled /\ fills' = fills
      /\ Ids' = Ids
  BY <1>1 DEF FinishRests, Ids
<1>3. /\ book \in [Sides -> [Keys -> Seq(Order)]] /\ book[t.side][K] \in Seq(Order)
      /\ Live(t) /\ t.id = Len(orders)
      /\ \A s \in Sides, k \in Keys : \A i \in 1 .. Len(book[s][k]) : book[s][k][i].id # t.id
  BY <1>1 DEF BkInv, Types, TakerInv
<1>4. PICK q \in Seq(Order) : /\ q = book[t.side][K] /\ Len(q) \in Nat
  BY <1>3
<1>5. PICK p \in Seq(Order) :
        /\ p = Append(q, t) /\ Len(p) = Len(q) + 1 /\ p[Len(q) + 1] = t
        /\ \A i \in 1 .. Len(q) : p[i] = q[i]
  <2>1. /\ Append(q, t) \in Seq(Order) /\ Len(Append(q, t)) = Len(q) + 1
        /\ Append(q, t)[Len(q) + 1] = t
        /\ \A i \in 1 .. Len(q) : Append(q, t)[i] = q[i]
    BY AppendProperties
  <2> QED BY <2>1
<1>6. /\ book' \in [Sides -> [Keys -> Seq(Order)]] /\ book'[t.side][K] = p
      /\ \A s \in Sides, k \in Keys : s # t.side \/ k # K => book'[s][k] = book[s][k]
  BY <1>1, <1>2, <1>3, <1>4, <1>5
<1>7. ASSUME NEW s \in Sides, NEW k \in Keys, NEW i \in 1 .. Len(book'[s][k])
      PROVE  \/ i \in 1 .. Len(book[s][k]) /\ book'[s][k][i] = book[s][k][i]
             \/ s = t.side /\ k = K /\ i = Len(q) + 1 /\ book'[s][k][i] = t
  <2>1. CASE s = t.side /\ k = K
    <3>1. i \in 1 .. (Len(q) + 1)
      BY <1>5, <1>6, <2>1
    <3>2. i \in 1 .. Len(q) \/ i = Len(q) + 1
      BY <1>4, <3>1
    <3> QED BY <1>4, <1>5, <1>6, <2>1, <3>2
  <2>2. CASE s # t.side \/ k # K
    BY <1>6, <2>2
  <2> QED BY <2>1, <2>2
<1>8. Types' /\ TakerInv' /\ FillInv' /\ FokInv'
  BY <1>2, <1>6 DEF BkInv, Types, TakerInv, FillInv, FokInv
<1>9. RestInv'
  <2> SUFFICES ASSUME NEW s \in Sides, NEW k \in Keys, NEW i \in 1 .. Len(book'[s][k])
               PROVE  Rests(book[s][k][i], s, k)'
    BY DEF RestInv
  <2>1. PICK r : r = book'[s][k][i]
    OBVIOUS
  <2>2. Rests(r, s, k)
    <3>1. CASE i \in 1 .. Len(book[s][k]) /\ book'[s][k][i] = book[s][k][i]
      BY <2>1, <3>1 DEF BkInv, RestInv
    <3>2. CASE s = t.side /\ k = K /\ book'[s][k][i] = t
      BY <1>1, <1>3, <2>1, <3>2 DEF Rests
    <3> QED BY <1>7, <3>1, <3>2
  <2> QED BY <1>2, <2>1, <2>2 DEF Rests, Live, IsFilled
<1>10. QueueInv'
  <2> SUFFICES ASSUME NEW s \in Sides, NEW k \in Keys, NEW i \in 1 .. Len(book'[s][k]),
                      NEW j \in 1 .. Len(book'[s][k]), i < j
               PROVE  book'[s][k][i].id < book'[s][k][j].id
    BY DEF QueueInv
  <2>1. CASE s = t.side /\ k = K
    <3>0. i \in 1 .. (Len(q) + 1) /\ j \in 1 .. (Len(q) + 1)
      BY <1>5, <1>6, <2>1
    <3>1. i \in 1 .. Len(q) /\ (j \in 1 .. Len(q) \/ j = Len(q) + 1)
      <4>1. PICK N \in Nat : N = Len(q) /\ i \in 1 .. (N + 1) /\ j \in 1 .. (N + 1)
        BY <1>4, <3>0
      <4>2. i \in 1 .. N /\ (j \in 1 .. N \/ j = N + 1)
        BY <4>1
      <4> QED BY <4>1, <4>2
    <3>2. book'[s][k][i] = q[i] /\ q[i].id \in Ids /\ q[i].id # t.id
      <4>1. book'[s][k][i] = q[i] /\ q[i] = book[s][k][i] /\ i \in 1 .. Len(book[s][k])
        BY <1>4, <1>5, <1>6, <2>1, <3>1
      <4> QED BY <1>3, <4>1 DEF BkInv, RestInv, Rests, Live
    <3>3. CASE j \in 1 .. Len(q)
      <4>1. book'[s][k][j] = q[j] /\ q = book[s][k]
        BY <1>4, <1>5, <1>6, <2>1, <3>3
      <4>2. i \in 1 .. Len(book[s][k]) /\ j \in 1 .. Len(book[s][k])
        BY <3>1, <3>3, <4>1
      <4>3. q[i].id < q[j].id
        BY <4>1, <4>2 DEF BkInv, QueueInv
      <4> QED BY <3>2, <4>1, <4>3
    <3>4. CASE j = Len(q) + 1
      <4>1. q[i].id < t.id
        BY <1>3, <3>2 DEF Ids
      <4> QED BY <1>5, <1>6, <2>1, <3>2, <3>4, <4>1
    <3> QED BY <3>1, <3>3, <3>4
  <2>2. CASE s # t.side \/ k # K
    BY <1>6, <2>2 DEF BkInv, QueueInv
  <2> QED BY <2>1, <2>2
<1>11. CrossInv'
  <2>1. ASSUME NEW s \in Sides, NEW k \in Keys, book'[s][k] # <<>>
        PROVE  k \in Levels(s) \/ (s = t.side /\ k = K)
    BY <1>6, <2>1 DEF Levels
  <2>2. \A j \in Levels(Other(t.side)) : ~Within(t, j)
    BY <1>1, NoneWithin
  <2>3. \A s \in Sides : Levels(s) \subseteq Nat
    BY TopKey DEF Levels
  <2>4. K \in Int
    BY TopKey
  <2> SUFFICES ASSUME NEW b \in Keys, NEW a \in Keys,
                      book'["Buy"][b] # <<>>, book'["Sell"][a] # <<>>
               PROVE  b < a
    BY DEF CrossInv, Levels
  <2>5. /\ b \in Levels("Buy") \/ (t.side = "Buy" /\ b = K)
        /\ a \in Levels("Sell") \/ (t.side = "Sell" /\ a = K)
    BY <2>1 DEF Sides
  <2>6. CASE b \in Levels("Buy") /\ a \in Levels("Sell")
    BY <2>6 DEF BkInv, CrossInv
  <2>7. CASE t.side = "Buy" /\ b = K /\ a \in Levels("Sell")
    BY <1>1, <2>2, <2>3, <2>4, <2>7 DEF Within, Other, Sides
  <2>8. CASE t.side = "Sell" /\ a = K /\ b \in Levels("Buy")
    BY <1>1, <2>2, <2>3, <2>4, <2>8 DEF Within, Other, Sides
  <2> QED BY <2>5, <2>6, <2>7, <2>8
<1>12. PassInv'
  <2> SUFFICES ASSUME NEW f \in fills, NEW s \in Sides, NEW k \in Keys,
                      NEW i \in 1 .. Len(book'[s][k]),
                      s = orders[f.maker].side, book'[s][k][i].id < f.taker
               PROVE  /\ ~Better(s, k, f.key)
                      /\ k = f.key => f.maker <= book'[s][k][i].id
    BY <1>2 DEF PassInv
  <2>1. CASE i \in 1 .. Len(book[s][k]) /\ book'[s][k][i] = book[s][k][i]
    BY <2>1 DEF BkInv, PassInv
  <2>2. CASE book'[s][k][i] = t
    <3>1. f.taker \in 1 .. Len(orders) /\ Len(orders) \in Nat
      BY DEF BkInv, FillInv, Ids, Types
    <3> QED BY <1>3, <2>2, <3>1
  <2> QED BY <1>7, <2>1, <2>2
<1>13. DoneInv'
  <2> SUFFICES ASSUME NEW n \in Ids
               PROVE  /\ filled[n] <= orders[n].qty \/ ~Valid(orders[n])
                      /\ \/ cancelled[n] # "none" \/ OnQueue(n)'
                         \/ QtyIsZero(orders[n].qty - filled[n], orders[n].qty)
    BY <1>2 DEF DoneInv
  <2>1. ASSUME OnQueue(n) PROVE OnQueue(n)'
    <3>1. PICK s \in Sides, k \in Keys : \E i \in 1 .. Len(book[s][k]) : book[s][k][i].id = n
      BY <2>1 DEF OnQueue
    <3>2. PICK i \in 1 .. Len(book[s][k]) : book[s][k][i].id = n
      BY <3>1
    <3>3. CASE s = t.side /\ k = K
      <4>1. i \in 1 .. Len(p) /\ p[i].id = n
        BY <1>4, <1>5, <3>2, <3>3
      <4> QED BY <1>6, <3>3, <4>1 DEF OnQueue
    <3>4. CASE s # t.side \/ k # K
      BY <1>6, <3>2, <3>4 DEF OnQueue
    <3> QED BY <3>3, <3>4
  <2>2. ASSUME n = t.id PROVE OnQueue(n)'
    <3>1. Len(q) + 1 \in 1 .. Len(p) /\ p[Len(q) + 1].id = n
      BY <1>4, <1>5, <2>2
    <3> QED BY <1>1, <1>6, <3>1 DEF OnQueue
  <2> QED BY <1>1, <2>1, <2>2 DEF BkInv, DoneInv
<1>14. FokAllOrNothing'
  <2> SUFFICES ASSUME NEW n \in Ids, orders[n].kind = "Fok"
               PROVE  \/ filled[n] = 0 /\ cancelled[n] \in {"FokNoFill", "InvalidOrder"}
                      \/ /\ cancelled[n] = "none"
                         /\ QtyIsZero(orders[n].qty - filled[n], orders[n].qty)
    BY <1>2 DEF FokAllOrNothing
  <2>1. n # taker.id
    BY <1>1, <1>3 DEF Live
  <2> QED BY <2>1 DEF BkInv, FokAllOrNothing
<1> QED BY <1>8, <1>9, <1>10, <1>11, <1>12, <1>13, <1>14 DEF BkInv

-----------------------------------------------------------------------------
(* A fill. *)

(* The queue after a fill: d = 1 orders shorter when the front is filled.  *)
LEMMA AfterFillIs ==
  ASSUME NEW q \in Seq(Order), q # <<>>, NEW m1 \in Order
  PROVE  \E d \in {0, 1} :
           /\ (d = 1) <=> IsFilled(m1)
           /\ AfterFill(q, m1) \in Seq(Order) /\ Len(AfterFill(q, m1)) = Len(q) - d
           /\ \A i \in 1 .. (Len(q) - d) :
                AfterFill(q, m1)[i] = IF i + d = 1 THEN m1 ELSE q[i + d]
           /\ d = 1 => AfterFill(q, m1) = Tail(q)
<1>1. /\ Tail(q) \in Seq(Order) /\ Len(Tail(q)) = Len(q) - 1 /\ Len(q) \in Nat \ {0}
      /\ \A i \in 1 .. (Len(q) - 1) : Tail(q)[i] = q[i + 1]
  BY HeadTailProperties
<1>2. CASE IsFilled(m1)
  <2>1. AfterFill(q, m1) = Tail(q)
    BY <1>2 DEF AfterFill
  <2>2. \A i \in 1 .. (Len(q) - 1) : i + 1 # 1
    BY <1>1
  <2> QED BY <1>1, <1>2, <2>1, <2>2
<1>3. CASE ~IsFilled(m1)
  <2>1. AfterFill(q, m1) = <<m1>> \o Tail(q)
    BY <1>3 DEF AfterFill
  <2>2. <<m1>> \in Seq(Order) /\ Len(<<m1>>) = 1 /\ <<m1>>[1] = m1
    OBVIOUS
  <2>3. /\ <<m1>> \o Tail(q) \in Seq(Order)
        /\ Len(<<m1>> \o Tail(q)) = Len(<<m1>>) + Len(Tail(q))
        /\ \A i \in 1 .. (Len(<<m1>>) + Len(Tail(q))) :
             (<<m1>> \o Tail(q))[i] = IF i <= Len(<<m1>>) THEN <<m1>>[i]
                                      ELSE Tail(q)[i - Len(<<m1>>)]
    BY <1>1, <2>2, ConcatProperties
  <2>4. Len(<<m1>>) + Len(Tail(q)) = Len(q) - 0
    BY <1>1, <2>2
  <2>5. ASSUME NEW i \in 1 .. (Len(q) - 0)
        PROVE  (<<m1>> \o Tail(q))[i] = IF i + 0 = 1 THEN m1 ELSE q[i + 0]
    <3>1. CASE i = 1
      BY <1>1, <2>2, <2>3, <2>4, <3>1
    <3>2. CASE i # 1
      <4>1. i - 1 \in 1 .. (Len(q) - 1) /\ (i - 1) + 1 = i /\ ~(i <= 1) /\ i + 0 = i
        BY <1>1, <3>2
      <4>2. (<<m1>> \o Tail(q))[i] = Tail(q)[i - 1]
        BY <2>2, <2>3, <2>4, <4>1
      <4> QED BY <1>1, <3>2, <4>1, <4>2
    <3> QED BY <3>1, <3>2
  <2>6. PICK a : a = AfterFill(q, m1)
    OBVIOUS
  <2>7. /\ a \in Seq(Order) /\ Len(a) = Len(q) - 0
        /\ \A i \in 1 .. (Len(q) - 0) : a[i] = IF i + 0 = 1 THEN m1 ELSE q[i + 0]
    BY <2>1, <2>3, <2>4, <2>5, <2>6
  <2>8. (0 = 1 <=> IsFilled(m1)) /\ 0 \in {0, 1}
    BY <1>3
  <2> QED BY <2>6, <2>7, <2>8
<1> QED BY <1>2, <1>3

(* One order m of the best level within the limit, the front one, gives    *)
(* way to the taker and becomes m1.                                        *)
FillStep(k, side, m, m1, qty, d) ==
  /\ taker # None /\ side = Other(taker.side) /\ Within(taker, k) /\ ~IsFilled(taker)
  /\ k \in Levels(side) /\ \A j \in Levels(side) : ~Better(side, j, k)
  /\ Len(book[side][k]) \in Nat \ {0} /\ m = book[side][k][1]
  /\ qty <= taker.left /\ qty <= m.left /\ (qty = taker.left \/ qty = m.left)
  /\ m1 = [m EXCEPT !.left = m.left - qty]
  /\ (d = 1) <=> IsFilled(m1)
  /\ taker' = [taker EXCEPT !.left = taker.left - qty]
  /\ book' \in Books
  /\ \A s \in Sides, j \in Keys : s # side \/ j # k => book'[s][j] = book[s][j]
  /\ Len(book'[side][k]) = Len(book[side][k]) - d
  /\ \A i \in 1 .. (Len(book[side][k]) - d) :
       book'[side][k][i] = IF i + d = 1 THEN m1 ELSE book[side][k][i + d]
  /\ d = 1 => book'[side][k] = Tail(book[side][k])
  /\ filled' = [filled EXCEPT ![taker.id] = @ + qty, ![m.id] = @ + qty]
  /\ fills' = fills \cup {[taker |-> taker.id, maker |-> m.id, key |-> k, qty |-> qty]}
  /\ orders' = orders /\ cancelled' = cancelled

LEMMA FillShape ==
  ASSUME BkInv, NEW k \in Keys, FillAt(k)
  PROVE  \E side \in Sides, m \in Order, m1 \in Order, qty \in Nat, d \in {0, 1} :
           FillStep(k, side, m, m1, qty, d)
<1>1. /\ taker # None /\ ~IsFilled(taker) /\ Within(taker, k)
      /\ k \in BestKey(Other(taker.side)) /\ orders' = orders /\ cancelled' = cancelled
  BY DEF FillAt
<1>2. PICK side \in Sides : side = Other(taker.side)
  BY <1>1, TakerIs
<1>3. k \in Levels(side) /\ \A j \in Levels(side) : ~Better(side, j, k)
  BY <1>1, <1>2 DEF BestKey
<1>4. PICK q \in Seq(Order) : q = book[side][k] /\ q # <<>>
  BY <1>3 DEF BkInv, Types, Levels
<1>5. PICK m \in Order : m = Head(q) /\ m = q[1] /\ Len(q) \in Nat \ {0}
  BY <1>4, HeadTailProperties
<1>6. /\ taker.left \in Nat /\ m.left \in Nat
  <2>1. Live(m)
    <3>1. 1 \in 1 .. Len(book[side][k]) /\ m = book[side][k][1]
      BY <1>4, <1>5
    <3> QED BY <3>1 DEF BkInv, RestInv, Rests
  <2>2. m.left \in Int
    BY DEF Order
  <2> QED BY <1>1, <2>1, <2>2, TakerIs DEF Live
<1>7. PICK qty \in Nat : /\ qty = (IF taker.left < m.left THEN taker.left ELSE m.left)
                         /\ qty <= taker.left /\ qty <= m.left
                         /\ (qty = taker.left \/ qty = m.left)
  BY <1>6
<1>8. PICK m1 \in Order : m1 = [m EXCEPT !.left = m.left - qty]
  <2>1. m.left - qty \in Int
    BY <1>6
  <2>2. [m EXCEPT !.left = m.left - qty] \in Order
    BY <2>1 DEF Order
  <2> QED BY <2>2
<1>9. /\ taker' = [taker EXCEPT !.left = taker.left - qty]
      /\ book' = [book EXCEPT ![side][k] = AfterFill(book[side][k], m1)]
      /\ filled' = [filled EXCEPT ![taker.id] = @ + qty, ![m.id] = @ + qty]
      /\ fills' = fills \cup {[taker |-> taker.id, maker |-> m.id, key |-> k, qty |-> qty]}
  BY <1>2, <1>4, <1>5, <1>7, <1>8 DEF FillAt
<1>10. PICK d \in {0, 1} :
         /\ (d = 1) <=> IsFilled(m1)
         /\ AfterFill(q, m1) \in Seq(Order) /\ Len(AfterFill(q, m1)) = Len(q) - d
         /\ \A i \in 1 .. (Len(q) - d) :
              AfterFill(q, m1)[i] = IF i + d = 1 THEN m1 ELSE q[i + d]
         /\ d = 1 => AfterFill(q, m1) = Tail(q)
  BY <1>4, AfterFillIs
<1>11. /\ book \in [Sides -> [Keys -> Seq(Order)]]
  BY DEF BkInv, Types
<1>12. /\ book' \in Books /\ book'[side][k] = AfterFill(q, m1)
       /\ \A s \in Sides, j \in Keys : s # side \/ j # k => book'[s][j] = book[s][j]
  BY <1>4, <1>9, <1>10, <1>11 DEF Books
<1>13. /\ Len(book'[side][k]) = Len(book[side][k]) - d
       /\ \A i \in 1 .. (Len(book[side][k]) - d) :
            book'[side][k][i] = IF i + d = 1 THEN m1 ELSE book[side][k][i + d]
       /\ d = 1 => book'[side][k] = Tail(book[side][k])
  BY <1>4, <1>10, <1>12
<1>14. FillStep(k, side, m, m1, qty, d)
  BY <1>1, <1>2, <1>3, <1>4, <1>5, <1>7, <1>8, <1>9, <1>10, <1>12, <1>13 DEF FillStep
<1> QED BY <1>14

(* Both orders of a fill, before it. *)
LEMMA FillPair ==
  ASSUME BkInv, NEW k \in Keys, NEW side \in Sides, NEW m \in Order, NEW m1 \in Order,
         NEW qty \in Nat, NEW d \in {0, 1}, FillStep(k, side, m, m1, qty, d)
  PROVE  /\ Rests(m, side, k) /\ m.id \in Ids /\ taker.id \in Ids /\ m.id # taker.id
         /\ Ids' = Ids /\ filled' \in Seq(Nat) /\ Len(filled') = Len(filled)
         /\ \A n \in Ids : filled'[n] = IF n \in {taker.id, m.id} THEN filled[n] + qty
                                        ELSE filled[n]
         /\ taker' \in Order /\ taker' # None /\ taker'.left = taker.left - qty
         /\ taker'.id = taker.id /\ taker'.side = taker.side /\ taker'.kind = taker.kind
         /\ taker'.price = taker.price /\ taker'.qty = taker.qty
         /\ m1.left = m.left - qty /\ m1.id = m.id /\ m1.side = m.side /\ m1.kind = m.kind
         /\ m1.price = m.price /\ m1.qty = m.qty /\ m.left \in Nat
<1>1. 1 \in 1 .. Len(book[side][k]) /\ m = book[side][k][1] /\ taker # None
  BY DEF FillStep
<1>2. Rests(m, side, k) /\ m.id # taker.id /\ m.id \in Ids
  BY <1>1 DEF BkInv, RestInv, TakerInv, Rests, Live
<1>3. taker \in Order /\ taker.id \in Ids /\ taker.left \in Nat
  BY <1>1, TakerIs
<1>4. Ids' = Ids /\ Ids = 1 .. Len(filled) /\ filled \in Seq(Nat)
  BY DEF FillStep, Ids, BkInv, Types
<1>5. /\ taker' \in Order /\ taker'.left = taker.left - qty
      /\ taker'.id = taker.id /\ taker'.side = taker.side /\ taker'.kind = taker.kind
      /\ taker'.price = taker.price /\ taker'.qty = taker.qty
  <2>1. taker' = [taker EXCEPT !.left = taker.left - qty] /\ taker.left - qty \in Int
    BY <1>3 DEF FillStep
  <2> QED BY <1>3, <2>1 DEF Order
<1>6. taker' # None
  <2>1. PICK t \in Order : t = taker'
    BY <1>5
  <2> QED BY <2>1, OrderIsSome
<1>7. /\ m1.left = m.left - qty /\ m1.id = m.id /\ m1.side = m.side /\ m1.kind = m.kind
      /\ m1.price = m.price /\ m1.qty = m.qty
  BY DEF FillStep, Order
<1>8. m.left \in Nat
  BY <1>2 DEF Rests, Live, Order
<1>9. /\ filled' \in Seq(Nat) /\ Len(filled') = Len(filled)
      /\ \A n \in Ids : filled'[n] = IF n \in {taker.id, m.id} THEN filled[n] + qty
                                     ELSE filled[n]
  <2>0. filled[taker.id] \in Nat /\ filled[m.id] \in Nat
    BY <1>2, <1>3, <1>4
  <2>1. filled[taker.id] + qty \in Nat /\ filled[m.id] + qty \in Nat
    BY <2>0
  <2>2. PICK g \in Seq(Nat) :
          /\ g = [filled EXCEPT ![taker.id] = filled[taker.id] + qty] /\ Len(g) = Len(filled)
          /\ \A n \in Ids : g[n] = IF n = taker.id THEN filled[n] + qty ELSE filled[n]
    <3>1. /\ [filled EXCEPT ![taker.id] = filled[taker.id] + qty] \in Seq(Nat)
          /\ Len([filled EXCEPT ![taker.id] = filled[taker.id] + qty]) = Len(filled)
          /\ \A n \in Ids : [filled EXCEPT ![taker.id] = filled[taker.id] + qty][n]
                              = IF n = taker.id THEN filled[taker.id] + qty ELSE filled[n]
      <4>1. PICK i \in 1 .. Len(filled), e \in Nat : i = taker.id /\ e = filled[taker.id] + qty
        BY <1>3, <1>4, <2>1
      <4>2. /\ [filled EXCEPT ![i] = e] \in Seq(Nat) /\ Len([filled EXCEPT ![i] = e]) = Len(filled)
            /\ \A n \in 1 .. Len(filled) :
                 [filled EXCEPT ![i] = e][n] = IF n = i THEN e ELSE filled[n]
        BY <1>4, ExceptSeq
      <4> QED BY <1>4, <4>1, <4>2
    <3> QED BY <3>1
  <2>3. g[m.id] = filled[m.id] /\ m.id \in 1 .. Len(g) /\ g[m.id] + qty \in Nat
    BY <1>2, <1>4, <2>1, <2>2
  <2>4. PICK h : h = [g EXCEPT ![m.id] = g[m.id] + qty]
    OBVIOUS
  <2>5. /\ h \in Seq(Nat) /\ Len(h) = Len(g)
        /\ \A n \in Ids : h[n] = IF n = m.id THEN g[m.id] + qty ELSE g[n]
    <3>1. /\ [g EXCEPT ![m.id] = g[m.id] + qty] \in Seq(Nat)
          /\ Len([g EXCEPT ![m.id] = g[m.id] + qty]) = Len(g)
          /\ \A n \in 1 .. Len(g) : [g EXCEPT ![m.id] = g[m.id] + qty][n]
                                    = IF n = m.id THEN g[m.id] + qty ELSE g[n]
      BY <2>3, ExceptSeq
    <3> QED BY <1>4, <2>2, <2>4, <3>1
  <2>6. filled' = h
    <3>1. filled' = [filled EXCEPT ![taker.id] = @ + qty, ![m.id] = @ + qty]
      BY DEF FillStep
    <3>2. [filled EXCEPT ![taker.id] = @ + qty, ![m.id] = @ + qty]
            = [[filled EXCEPT ![taker.id] = filled[taker.id] + qty]
                  EXCEPT ![m.id] = filled[m.id] + qty]
      <4>1. PICK a, b \in 1 .. Len(filled) : a = taker.id /\ b = m.id /\ a # b
        BY <1>2, <1>3, <1>4
      <4>2. [filled EXCEPT ![a] = @ + qty, ![b] = @ + qty]
              = [[filled EXCEPT ![a] = filled[a] + qty] EXCEPT ![b] = filled[b] + qty]
        BY <1>4, <4>1
      <4> QED BY <4>1, <4>2
    <3> QED BY <2>2, <2>3, <2>4, <3>1, <3>2
  <2> QED BY <1>2, <2>2, <2>3, <2>5, <2>6
<1> QED BY <1>2, <1>3, <1>4, <1>5, <1>6, <1>7, <1>8, <1>9

(* Every order on the book after a fill was there before, at a position at *)
(* most one behind; all but the maker are the same.                        *)
LEMMA FillOrigin ==
  ASSUME BkInv, NEW k \in Keys, NEW side \in Sides, NEW m \in Order, NEW m1 \in Order,
         NEW qty \in Nat, NEW d \in {0, 1}, FillStep(k, side, m, m1, qty, d),
         NEW s \in Sides, NEW j \in Keys, NEW i \in 1 .. Len(book'[s][j])
  PROVE  \E i0 \in 1 .. Len(book[s][j]) :
           /\ i0 = (IF s = side /\ j = k THEN i + d ELSE i)
           /\ \/ book'[s][j][i] = book[s][j][i0] /\ book[s][j][i0].id # m.id
              \/ /\ book'[s][j][i] = m1 /\ book[s][j][i0] = m /\ s = side /\ j = k
                 /\ i0 = 1 /\ ~IsFilled(m1)
<1>0. m = book[side][k][1]
  BY DEF FillStep
<1>1. Rests(m, side, k) /\ m = book[side][k][1]
  BY <1>0, FillPair
<1>2. CASE s = side /\ j = k
  <2>1. PICK N \in Nat : N = Len(book[side][k]) /\ N # 0 /\ i \in 1 .. (N - d)
    BY <1>2 DEF FillStep
  <2>2. i + d \in 1 .. N /\ i \in Int
    BY <2>1
  <2>3. book'[s][j][i] = IF i + d = 1 THEN m1 ELSE book[s][j][i + d]
    BY <1>2, <2>1 DEF FillStep
  <2>4. CASE i + d = 1
    <3>1. d = 0
      BY <2>1, <2>4
    <3>2. ~IsFilled(m1)
      <4>1. (d = 1) <=> IsFilled(m1)
        BY Zenon DEF FillStep
      <4> QED BY <3>1, <4>1
    <3> QED BY <1>1, <1>2, <2>1, <2>2, <2>3, <2>4, <3>2
  <2>5. CASE i + d # 1
    <3>1. 1 < i + d /\ 1 \in 1 .. N
      BY <2>2, <2>5
    <3>2. book[s][j][1].id < book[s][j][i + d].id
      BY <1>2, <2>1, <2>2, <3>1 DEF BkInv, QueueInv
    <3>3. book[s][j][i + d].id \in Int /\ m.id \in Int
      <4>1. book[s][j] \in Seq(Order) /\ i + d \in 1 .. Len(book[s][j])
        BY <1>2, <2>1, <2>2 DEF BkInv, Types
      <4>2. book[s][j][i + d] \in Order
        BY <4>1
      <4> QED BY <4>2 DEF Order
    <3>4. book[s][j][i + d].id # m.id
      BY <1>1, <1>2, <3>2, <3>3
    <3> QED BY <1>2, <2>1, <2>2, <2>3, <2>5, <3>4
  <2> QED BY <2>4, <2>5
<1>3. CASE s # side \/ j # k
  <2>1. book'[s][j] = book[s][j]
    BY <1>3 DEF FillStep
  <2>2. Rests(book[s][j][i], s, j)
    BY <2>1 DEF BkInv, RestInv
  <2>3. book[s][j][i].id # m.id
    BY <1>1, <1>3, <2>2 DEF Rests, Live
  <2> QED BY <1>3, <2>1, <2>3
<1> QED BY <1>2, <1>3

(* What is left of an order never goes below zero. *)
LEMMA FillLeavesLive ==
  ASSUME BkInv, NEW k \in Keys, NEW side \in Sides, NEW m \in Order, NEW m1 \in Order,
         NEW qty \in Nat, NEW d \in {0, 1}, FillStep(k, side, m, m1, qty, d)
  PROVE  RestInv' /\ TakerInv'
<1>0. /\ Rests(m, side, k) /\ m.id \in Ids /\ taker.id \in Ids /\ m.id # taker.id
      /\ Ids' = Ids /\ orders' = orders /\ cancelled' = cancelled
      /\ \A n \in Ids : filled'[n] = IF n \in {taker.id, m.id} THEN filled[n] + qty
                                     ELSE filled[n]
      /\ \A n \in Ids : filled[n] \in Nat /\ orders[n] \in Submitted
      /\ taker # None /\ taker' # None
  <2>1. \A n \in Ids : filled[n] \in Nat /\ orders[n] \in Submitted
    BY OrderOf DEF BkInv
  <2>2. orders' = orders /\ cancelled' = cancelled /\ taker # None
    BY DEF FillStep
  <2> QED BY <2>1, <2>2, FillPair
<1>1. RestInv'
  <2> SUFFICES ASSUME NEW s \in Sides, NEW j \in Keys, NEW i \in 1 .. Len(book'[s][j])
               PROVE  Rests(book[s][j][i], s, j)'
    BY DEF RestInv
  <2>1. PICK i0 \in 1 .. Len(book[s][j]) :
          \/ book'[s][j][i] = book[s][j][i0] /\ book[s][j][i0].id # m.id
          \/ /\ book'[s][j][i] = m1 /\ book[s][j][i0] = m /\ s = side /\ j = k
             /\ i0 = 1 /\ ~IsFilled(m1)
    BY FillOrigin
  <2>2. PICK r : r = book[s][j][i0] /\ Rests(r, s, j) /\ r.id # taker.id
    BY <1>0 DEF BkInv, RestInv, TakerInv
  <2>3. CASE book'[s][j][i] = r /\ r.id # m.id
    <3>1. r.id \in Ids /\ filled'[r.id] = filled[r.id]
      BY <1>0, <2>2, <2>3 DEF Rests, Live
    <3> QED BY <1>0, <2>2, <2>3, <3>1 DEF Rests, Live, IsFilled
  <2>4. CASE book'[s][j][i] = m1 /\ r = m /\ s = side /\ j = k /\ ~IsFilled(m1)
    <3>1. /\ m1.left = m.left - qty /\ m1.id = m.id /\ m1.side = m.side /\ m1.kind = m.kind
          /\ m1.price = m.price /\ m1.qty = m.qty
      BY FillPair
    <3>2. qty <= m.left /\ m.left \in Int /\ m.qty \in Int /\ filled'[m.id] = filled[m.id] + qty
          /\ filled[m.id] \in Nat
      BY <1>0 DEF FillStep, Order
    <3>3. m1.left = m1.qty - filled'[m1.id] /\ m1.left >= 0
      BY <1>0, <3>1, <3>2 DEF Rests, Live
    <3> QED BY <1>0, <2>4, <3>1, <3>3 DEF Rests, Live, IsFilled
  <2> QED BY <2>1, <2>2, <2>3, <2>4
<1>2. TakerInv'
  <2>1. /\ taker'.left = taker.left - qty /\ taker'.id = taker.id /\ taker'.side = taker.side
        /\ taker'.kind = taker.kind /\ taker'.price = taker.price /\ taker'.qty = taker.qty
    BY FillPair
  <2>2. /\ Live(taker) /\ taker.id = Len(orders) /\ taker.left \in Nat /\ taker.qty \in Int
        /\ qty <= taker.left /\ filled'[taker.id] = filled[taker.id] + qty
        /\ filled[taker.id] \in Nat
    <3>1. qty <= taker.left
      BY DEF FillStep
    <3> QED BY <1>0, <3>1, TakerIs
  <2>3. taker'.left = taker'.qty - filled'[taker'.id] /\ taker'.left >= 0
    BY <2>1, <2>2 DEF Live
  <2>4. Live(taker)'
    BY <1>0, <2>1, <2>2, <2>3 DEF Live
  <2>5. ASSUME NEW s \in Sides, NEW j \in Keys, NEW i \in 1 .. Len(book'[s][j])
        PROVE  book'[s][j][i].id # taker.id
    <3>1. PICK i0 \in 1 .. Len(book[s][j]) :
            \/ book'[s][j][i] = book[s][j][i0]
            \/ book'[s][j][i] = m1
      BY FillOrigin
    <3>2. m1.id # taker.id
      BY FillPair
    <3> QED BY <1>0, <3>1, <3>2 DEF BkInv, TakerInv
  <2> QED BY <1>0, <2>1, <2>2, <2>4, <2>5 DEF TakerInv
<1> QED BY <1>1, <1>2

(* Queues stay in order and the book uncrossed; the fill is at a price     *)
(* both orders allow, and passes nobody over.                              *)
LEMMA FillInPriority ==
  ASSUME BkInv, NEW k \in Keys, NEW side \in Sides, NEW m \in Order, NEW m1 \in Order,
         NEW qty \in Nat, NEW d \in {0, 1}, FillStep(k, side, m, m1, qty, d)
  PROVE  QueueInv' /\ CrossInv' /\ FillInv' /\ PassInv'
<1>0. /\ Rests(m, side, k) /\ m.id \in Ids /\ taker.id \in Ids
      /\ Ids' = Ids /\ m1.id = m.id
  BY FillPair
<1>1. /\ orders' = orders /\ taker # None /\ Within(taker, k) /\ m = book[side][k][1]
      /\ \A j \in Levels(side) : ~Better(side, j, k)
      /\ fills' = fills \cup {[taker |-> taker.id, maker |-> m.id, key |-> k, qty |-> qty]}
  BY DEF FillStep
<1>2. ASSUME NEW s \in Sides, NEW j \in Keys, NEW i \in 1 .. Len(book'[s][j])
      PROVE  \E i0 \in 1 .. Len(book[s][j]) :
               /\ i0 = (IF s = side /\ j = k THEN i + d ELSE i)
               /\ book'[s][j][i].id = book[s][j][i0].id
  <2>1. PICK i0 \in 1 .. Len(book[s][j]) :
          /\ i0 = (IF s = side /\ j = k THEN i + d ELSE i)
          /\ \/ book'[s][j][i] = book[s][j][i0]
             \/ book'[s][j][i] = m1 /\ book[s][j][i0] = m
    BY FillOrigin
  <2> QED BY <1>0, <2>1
<1>3. QueueInv'
  <2> SUFFICES ASSUME NEW s \in Sides, NEW j \in Keys, NEW i \in 1 .. Len(book'[s][j]),
                      NEW h \in 1 .. Len(book'[s][j]), i < h
               PROVE  book'[s][j][i].id < book'[s][j][h].id
    BY DEF QueueInv
  <2>1. PICK i0 \in 1 .. Len(book[s][j]) :
          /\ i0 = (IF s = side /\ j = k THEN i + d ELSE i)
          /\ book'[s][j][i].id = book[s][j][i0].id
    BY <1>2
  <2>2. PICK h0 \in 1 .. Len(book[s][j]) :
          /\ h0 = (IF s = side /\ j = k THEN h + d ELSE h)
          /\ book'[s][j][h].id = book[s][j][h0].id
    BY <1>2
  <2>3. i0 < h0
    <3>1. i \in Int /\ h \in Int /\ d \in Int
      OBVIOUS
    <3> QED BY <2>1, <2>2, <3>1
  <2> QED BY <2>1, <2>2, <2>3 DEF BkInv, QueueInv
<1>4. ASSUME NEW s \in Sides PROVE Levels(s)' \subseteq Levels(s)
  <2> SUFFICES ASSUME NEW j \in Keys, book'[s][j] # <<>> PROVE book[s][j] # <<>>
    BY DEF Levels
  <2>1. book'[s][j] \in Seq(Order)
    BY DEF FillStep, Books
  <2>2. 1 \in 1 .. Len(book'[s][j])
    BY <2>1
  <2>3. PICK i0 \in 1 .. Len(book[s][j]) : TRUE
    BY <1>2, <2>2
  <2> QED BY <2>3
<1>5. CrossInv'
  <2>1. Levels("Buy")' \subseteq Levels("Buy") /\ Levels("Sell")' \subseteq Levels("Sell")
    BY <1>4 DEF Sides
  <2> QED BY <2>1 DEF BkInv, CrossInv
<1>6. /\ orders[m.id].side = side /\ orders[m.id].kind = "Limit" /\ Key(orders[m.id].price) = k
      /\ Within(orders[taker.id], k)
  <2>1. orders[m.id].side = side /\ orders[m.id].kind = "Limit" /\ Key(orders[m.id].price) = k
    BY <1>0 DEF Rests, Live
  <2>2. Live(taker)
    BY <1>1, TakerIs
  <2> QED BY <1>1, <2>1, <2>2 DEF Within, Live
<1>7. FillInv'
  <2> SUFFICES ASSUME NEW f \in fills'
               PROVE  /\ f.taker \in Ids /\ f.maker \in Ids
                      /\ orders[f.maker].kind = "Limit" /\ Key(orders[f.maker].price) = f.key
                      /\ Within(orders[f.taker], f.key)
    BY <1>0, <1>1 DEF FillInv
  <2>1. CASE f \in fills
    BY <2>1 DEF BkInv, FillInv
  <2>2. CASE f = [taker |-> taker.id, maker |-> m.id, key |-> k, qty |-> qty]
    BY <1>0, <1>6, <2>2
  <2> QED BY <1>1, <2>1, <2>2
<1>8. PassInv'
  <2> SUFFICES ASSUME NEW f \in fills', NEW s \in Sides, NEW j \in Keys,
                      NEW i \in 1 .. Len(book'[s][j]),
                      s = orders[f.maker].side, book'[s][j][i].id < f.taker
               PROVE  /\ ~Better(s, j, f.key)
                      /\ j = f.key => f.maker <= book'[s][j][i].id
    BY <1>1 DEF PassInv
  <2>1. PICK i0 \in 1 .. Len(book[s][j]) : book'[s][j][i].id = book[s][j][i0].id
    BY <1>2
  <2>2. CASE f \in fills
    BY <2>1, <2>2 DEF BkInv, PassInv
  <2>3. CASE f = [taker |-> taker.id, maker |-> m.id, key |-> k, qty |-> qty]
    <3>1. s = side /\ f.key = k /\ f.maker = m.id
      BY <1>6, <2>3
    <3>2. book[s][j] \in Seq(Order)
      BY DEF BkInv, Types
    <3>3. j \in Levels(side)
      BY <2>1, <3>1, <3>2 DEF Levels
    <3>4. ASSUME j = k PROVE m.id <= book[s][j][i0].id
      <4>1. m = book[s][j][1] /\ m.id \in Int /\ book[s][j][i0].id \in Int /\ i0 \in Int
        <5>1. book[s][j][i0] \in Order
          BY <3>2
        <5>2. m.id \in Int /\ book[s][j][i0].id \in Int
          <6>1. \A o \in Order : o.id \in Int
            BY OrderConstants DEF Order
          <6>2. m \in Order
            BY <1>1
          <6> QED BY <5>1, <6>1, <6>2
        <5>3. m = book[s][j][1]
          BY <1>1, <3>1, <3>4
        <5>4. i0 \in Int
          BY <3>2
        <5> QED BY <5>2, <5>3, <5>4
      <4>2. CASE i0 = 1
        <5>1. PICK x \in Int : x = m.id
          BY <4>1
        <5>2. book[s][j][i0].id = x
          BY <4>1, <4>2, <5>1, Zenon
        <5>3. x <= x
          BY <5>1
        <5> QED BY <5>1, <5>2, <5>3, Zenon
      <4>3. CASE i0 # 1
        <5>1. 1 < i0 /\ 1 \in 1 .. Len(book[s][j])
          BY <3>2, <4>3
        <5>2. book[s][j][1].id < book[s][j][i0].id
          BY <5>1 DEF BkInv, QueueInv
        <5>3. PICK x \in Int, y \in Int : x = m.id /\ y = book[s][j][i0].id
          BY <4>1
        <5>4. book[s][j][1].id = x
          BY <4>1, <5>3, Zenon
        <5>5. x <= y
          BY <5>2, <5>3, <5>4
        <5> QED BY <5>3, <5>5
      <4> QED BY <4>2, <4>3
    <3> QED BY <1>1, <2>1, <3>1, <3>3, <3>4
  <2> QED BY <1>1, <2>2, <2>3
<1> QED BY <1>3, <1>5, <1>7, <1>8

(* Nothing of the account is lost: what the fill reports is what both      *)
(* orders have less, and what can_fill counted on is still to come.        *)
LEMMA FillAccounts ==
  ASSUME BkInv, NEW k \in Keys, NEW side \in Sides, NEW m \in Order, NEW m1 \in Order,
         NEW qty \in Nat, NEW d \in {0, 1}, FillStep(k, side, m, m1, qty, d)
  PROVE  Types' /\ DoneInv' /\ FokInv' /\ FokAllOrNothing'
<1>0. /\ Rests(m, side, k) /\ m.id \in Ids /\ taker.id \in Ids /\ m.id # taker.id
      /\ Ids' = Ids /\ filled' \in Seq(Nat) /\ Len(filled') = Len(filled)
      /\ \A n \in Ids : filled'[n] = IF n \in {taker.id, m.id} THEN filled[n] + qty
                                     ELSE filled[n]
      /\ taker' \in Order /\ taker' # None /\ taker'.left = taker.left - qty
      /\ taker'.id = taker.id /\ taker'.side = taker.side /\ taker'.kind = taker.kind
      /\ taker'.price = taker.price /\ taker'.qty = taker.qty
      /\ m1.left = m.left - qty /\ m1.id = m.id /\ m1.qty = m.qty /\ m.left \in Nat
  BY FillPair
<1>1. /\ orders' = orders /\ cancelled' = cancelled /\ taker # None /\ Within(taker, k)
      /\ side = Other(taker.side) /\ m = book[side][k][1] /\ ~IsFilled(taker)
      /\ qty <= taker.left /\ qty <= m.left /\ (qty = taker.left \/ qty = m.left)
      /\ ((d = 1) <=> IsFilled(m1)) /\ book' \in Books
      /\ fills' = fills \cup {[taker |-> taker.id, maker |-> m.id, key |-> k, qty |-> qty]}
  BY DEF FillStep
<1>2. /\ Live(taker) /\ taker.left \in Nat /\ taker.qty \in Nat /\ taker.side \in Sides
      /\ Live(m) /\ m.kind = "Limit" /\ m.qty \in Int
      /\ \A n \in Ids : filled[n] \in Nat /\ orders[n] \in Submitted
  <2>1. \A n \in Ids : filled[n] \in Nat /\ orders[n] \in Submitted
    BY OrderOf DEF BkInv
  <2> QED BY <1>0, <1>1, <2>1, TakerIs DEF Rests, Order
<1>3. Types'
  <2>1. [taker |-> taker.id, maker |-> m.id, key |-> k, qty |-> qty] \in Fill
    BY <1>0 DEF Fill, Ids
  <2>2. fills' \subseteq Fill
    BY <1>1, <2>1 DEF BkInv, Types
  <2> QED BY <1>0, <1>1, <2>2 DEF BkInv, Types, Books
<1>4. DoneInv'
  <2> SUFFICES ASSUME NEW n \in Ids
               PROVE  /\ filled'[n] <= orders[n].qty \/ ~Valid(orders[n])
                      /\ \/ cancelled[n] # "none" \/ taker'.id = n \/ OnQueue(n)'
                         \/ QtyIsZero(orders[n].qty - filled'[n], orders[n].qty)
    BY <1>0, <1>1 DEF DoneInv
  <2>0. filled[n] \in Nat /\ orders[n].qty \in Int
    BY <1>2 DEF Submitted
  <2>1. CASE n = taker.id
    <3>1. filled'[n] = filled[n] + qty /\ taker.left = orders[n].qty - filled[n]
      BY <1>0, <1>2, <2>1 DEF Live
    <3> QED BY <1>0, <1>1, <2>0, <2>1, <3>1
  <2>2. CASE n = m.id
    <3>1. filled'[n] = filled[n] + qty /\ m.left = orders[n].qty - filled[n]
          /\ m.qty = orders[n].qty
      BY <1>0, <1>2, <2>2 DEF Live
    <3>2. filled'[n] <= orders[n].qty /\ m1.left = orders[n].qty - filled'[n]
      BY <1>0, <1>1, <2>0, <3>1
    <3>3. CASE IsFilled(m1)
      BY <1>0, <3>1, <3>2, <3>3 DEF IsFilled
    <3>4. CASE ~IsFilled(m1)
      <4>1. d = 0
        BY <1>1, <3>4
      <4>2. 1 \in 1 .. Len(book'[side][k]) /\ book'[side][k][1] = m1
        <5>1. PICK N \in Nat \ {0} : N = Len(book[side][k])
          BY Zenon DEF FillStep
        <5>2. /\ Len(book'[side][k]) = N - d
              /\ \A i \in 1 .. (N - d) :
                   book'[side][k][i] = IF i + d = 1 THEN m1 ELSE book[side][k][i + d]
          BY <5>1, Zenon DEF FillStep
        <5> QED BY <4>1, <5>1, <5>2
      <4> QED BY <1>0, <2>2, <3>2, <4>2 DEF OnQueue
    <3> QED BY <3>3, <3>4
  <2>3. CASE n # taker.id /\ n # m.id
    <3>1. filled'[n] = filled[n]
      BY <1>0, <2>3
    <3>2. ASSUME OnQueue(n) PROVE OnQueue(n)'
      <4>1. PICK s \in Sides, j \in Keys : \E i \in 1 .. Len(book[s][j]) : book[s][j][i].id = n
        BY <3>2 DEF OnQueue
      <4>2. PICK i \in 1 .. Len(book[s][j]) : book[s][j][i].id = n
        BY <4>1
      <4>3. CASE s = side /\ j = k
        <5>1. i # 1
          BY <1>1, <2>3, <4>2, <4>3
        <5>2. PICK N \in Nat : N = Len(book[side][k]) /\ i \in 1 .. N
          BY <4>2, <4>3 DEF FillStep
        <5>3. i - d \in 1 .. (N - d) /\ (i - d) + d = i
          BY <5>1, <5>2
        <5>4. i - d \in 1 .. Len(book'[side][k]) /\ book'[side][k][i - d] = book[side][k][i]
          BY <5>1, <5>2, <5>3 DEF FillStep
        <5> QED BY <4>2, <4>3, <5>4 DEF OnQueue
      <4>4. CASE s # side \/ j # k
        <5>1. book'[s][j] = book[s][j]
          BY <4>4 DEF FillStep
        <5> QED BY <4>2, <5>1 DEF OnQueue
      <4> QED BY <4>3, <4>4
    <3> QED BY <1>1, <2>3, <3>1, <3>2 DEF BkInv, DoneInv
  <2> QED BY <2>1, <2>2, <2>3
<1>5. FokInv'
  <2> SUFFICES ASSUME taker.kind = "Fok", ~IsFilled(taker')
               PROVE  (Available(taker)' + filled'[taker.id]) * TolInv >= taker.qty * (TolInv - 1)
    BY <1>0 DEF FokInv, IsFilled
  <2>1. taker'.left # 0
    BY <1>0, <1>2, NothingLeft DEF IsFilled
  <2>2. qty = m.left /\ m1.left = 0
    <3>1. /\ taker'.left = taker.left - qty /\ taker.left \in Nat /\ m.left \in Nat
          /\ m1.left = m.left - qty
      BY <1>0, <1>2, Zenon
    <3>2. qty = taker.left \/ qty = m.left
      BY <1>1, Zenon
    <3> QED BY <2>1, <3>1, <3>2
  <2>3. IsFilled(m1)
    <3>1. m1.qty \in Nat
      <4>1. m.qty > 0
        BY <1>2 DEF Live, Valid
      <4> QED BY <1>0, <1>2, <4>1
    <3> QED BY <2>2, <3>1, NothingLeft DEF IsFilled
  <2>4. book'[side][k] = Tail(book[side][k]) /\ book[side][k] # <<>>
        /\ \A j \in Keys : j # k => book'[side][j] = book[side][j]
    BY <1>1, <2>3 DEF FillStep, Levels
  <2>5. book \in Books /\ book[side][k] \in Seq(Order)
    BY DEF BkInv, Types, Books
  <2>6. Queued(book'[side][k]) = Queued(book[side][k]) - qty
    BY <1>1, <2>2, <2>4, <2>5, QueuedTail
  <2>7. PICK b, c, t : /\ b = book /\ c = book' /\ t = taker
                       /\ b \in Books /\ c \in Books
    <3>1. book \in Books /\ book' \in Books
      BY <1>1, <2>5
    <3> QED BY <3>1
  <2>8. Avail(t, c) = Avail(t, b) - qty
    <3>1. qty \in Int
      OBVIOUS
    <3> QED BY <1>1, <1>2, <2>4, <2>6, <2>7, <3>1, AvailLess
  <2>9. Available(taker)' = Avail(taker', book')
    BY DEF Available, Avail, Resting, Queued
  <2>10. Avail(taker', book') = Avail(t, c)
    BY <1>0, <2>7 DEF Avail, Within
  <2>11. Available(taker) = Avail(t, b) /\ Avail(t, b) \in Int
    BY <1>2, <2>7, AvailableIs, AvailInt
  <2>12. filled'[taker.id] = filled[taker.id] + qty /\ filled[taker.id] \in Nat
    BY <1>0, <1>2
  <2>13. Available(taker)' + filled'[taker.id] = Available(taker) + filled[taker.id]
    BY <2>8, <2>9, <2>10, <2>11, <2>12
  <2> QED BY <1>1, <2>13 DEF BkInv, FokInv
<1>6. FokAllOrNothing'
  <2> SUFFICES ASSUME NEW n \in Ids, orders[n].kind = "Fok", taker.id # n
               PROVE  \/ filled'[n] = 0 /\ cancelled[n] \in {"FokNoFill", "InvalidOrder"}
                      \/ /\ cancelled[n] = "none"
                         /\ QtyIsZero(orders[n].qty - filled'[n], orders[n].qty)
    BY <1>0, <1>1 DEF FokAllOrNothing
  <2>1. n # m.id
    BY <1>2 DEF Live
  <2>2. filled'[n] = filled[n]
    BY <1>0, <2>1
  <2> QED BY <2>2 DEF BkInv, FokAllOrNothing
<1> QED BY <1>3, <1>4, <1>5, <1>6

-----------------------------------------------------------------------------
(* The inductive invariant holds of every behaviour of the book. *)
THEOREM BookInvariant == Spec => []BkInv
<1>1. Init => BkInv
  <2> SUFFICES ASSUME Init PROVE BkInv
    OBVIOUS
  <2>1. /\ \A s \in Sides, k \in Keys : book[s][k] = <<>> /\ Len(book[s][k]) = 0
        /\ book \in [Sides -> [Keys -> Seq(Order)]]
        /\ Len(orders) = 0 /\ Len(filled) = 0 /\ Len(cancelled) = 0 /\ taker = None /\ fills = {}
        /\ orders \in Seq(NewOrders) /\ filled \in Seq(Nat) /\ cancelled \in Seq(Reasons)
    BY DEF Init
  <2>2. Ids = {}
    BY <2>1 DEF Ids
  <2>3. Types
    BY <2>1, BookConstants DEF Types
  <2>4. \A s \in Sides, k \in Keys : 1 .. Len(book[s][k]) = {}
    BY <2>1
  <2>5. RestInv /\ QueueInv /\ TakerInv /\ FokInv
    BY <2>1, <2>4 DEF RestInv, QueueInv, TakerInv, FokInv
  <2>6. CrossInv /\ FillInv /\ PassInv /\ DoneInv /\ FokAllOrNothing
    BY <2>1, <2>2 DEF CrossInv, Levels, Sides, FillInv, PassInv, DoneInv, FokAllOrNothing
  <2> QED BY <2>3, <2>5, <2>6 DEF BkInv
<1>2. BkInv /\ [Next]_vars => BkInv'
  <2> SUFFICES ASSUME BkInv, [Next]_vars PROVE BkInv'
    OBVIOUS
  <2>1. ASSUME NEW o \in NewOrders, SubmitInvalid(o) \/ SubmitFokNoFill(o) \/ Submit(o)
        PROVE  BkInv'
    BY <2>1, TurnedAwayKeeps, SubmitKeeps
  <2>2. ASSUME NEW k \in Keys, FillAt(k) PROVE BkInv'
    <3>1. PICK side \in Sides, m \in Order, m1 \in Order, qty \in Nat, d \in {0, 1} :
            FillStep(k, side, m, m1, qty, d)
      BY <2>2, FillShape
    <3>2. RestInv' /\ TakerInv'
      BY <3>1, FillLeavesLive
    <3>3. QueueInv' /\ CrossInv' /\ FillInv' /\ PassInv'
      BY <3>1, FillInPriority
    <3>4. Types' /\ DoneInv' /\ FokInv' /\ FokAllOrNothing'
      BY <3>1, FillAccounts
    <3> QED BY <3>2, <3>3, <3>4 DEF BkInv
  <2>3. CASE FinishFilled \/ FinishRests \/ FinishCancels
    BY <2>3, FinishFilledKeeps, FinishRestsKeeps, FinishCancelsKeeps
  <2>4. CASE UNCHANGED vars
    <3>0. Types' /\ QueueInv' /\ CrossInv'
      BY <2>4 DEF vars, BkInv, Types, QueueInv, CrossInv, Levels, Ids
    <3>1. RestInv' /\ TakerInv'
      BY <2>4 DEF vars, BkInv, RestInv, Rests, Live, IsFilled, TakerInv, Ids
    <3>2. FillInv' /\ PassInv' /\ DoneInv' /\ FokAllOrNothing'
      BY <2>4 DEF vars, BkInv, FillInv, PassInv, DoneInv, OnQueue, FokAllOrNothing, Ids
    <3>3. FokInv'
      BY <2>4 DEF vars, BkInv, FokInv, Available, Resting
    <3> QED BY <3>0, <3>1, <3>2, <3>3 DEF BkInv
  <2> QED BY <2>1, <2>2, <2>3, <2>4 DEF Next, Match
<1> QED BY <1>1, <1>2, PTL DEF Spec

(* An order on the book, by its position. *)
LEMMA OnBookIs ==
  ASSUME BkInv, NEW x \in OnBook
  PROVE  /\ x[1] \in Sides /\ x[2] \in Keys /\ x[3] \in 1 .. Len(book[x[1]][x[2]])
         /\ At(x) = book[x[1]][x[2]][x[3]] /\ Rests(At(x), x[1], x[2]) /\ At(x) \in Order
         /\ x = <<x[1], x[2], x[3]>>
<1>1. /\ x \in Sides \X Keys \X (1 .. MaxOrders) /\ x[3] <= Len(book[x[1]][x[2]])
  BY DEF OnBook
<1>2. /\ x[1] \in Sides /\ x[2] \in Keys /\ x[3] \in 1 .. MaxOrders
      /\ x = <<x[1], x[2], x[3]>>
  BY <1>1
<1>3. book[x[1]][x[2]] \in Seq(Order)
  BY <1>2 DEF BkInv, Types
<1>4. x[3] \in 1 .. Len(book[x[1]][x[2]])
  BY <1>1, <1>2, <1>3, BookConstants
<1>5. At(x) = book[x[1]][x[2]][x[3]]
  BY DEF At
<1> QED BY <1>2, <1>3, <1>4, <1>5 DEF BkInv, RestInv

(* Ids grow along a queue, so it holds no more orders than there are ids.  *)
LEMMA QueueShort ==
  ASSUME BkInv, NEW s \in Sides, NEW k \in Keys, NEW n \in 1 .. Len(book[s][k])
  PROVE  n \in 1 .. MaxOrders
<1>1. PICK q \in Seq(Order), N \in Nat : q = book[s][k] /\ N = Len(q) /\ n \in 1 .. N
  BY DEF BkInv, Types
<1>2. /\ Len(orders) \in Nat /\ Len(orders) <= MaxOrders /\ MaxOrders \in Nat
      /\ \A i \in 1 .. N : q[i].id \in 1 .. Len(orders)
      /\ \A i, j \in 1 .. N : i < j => q[i].id < q[j].id
  <2>1. \A i \in 1 .. N : q[i].id \in Ids
    BY <1>1 DEF BkInv, RestInv, Rests, Live
  <2>2. \A i, j \in 1 .. N : i < j => q[i].id < q[j].id
    BY <1>1 DEF BkInv, QueueInv
  <2> QED BY <2>1, <2>2, BookConstants DEF Ids, BkInv, Types
<1> DEFINE Good == {i \in 0 .. N : i = 0 \/ i <= q[i].id}
<1>3. 0 .. N \subseteq Good
  <2>1. 0 \in Good
    OBVIOUS
  <2>2. ASSUME NEW i \in 0 .. (N - 1), i \in Good PROVE i + 1 \in Good
    <3>1. i + 1 \in 1 .. N /\ i + 1 \in 0 .. N /\ q[i + 1].id \in 1 .. Len(orders)
      BY <1>2
    <3>2. CASE i = 0
      BY <1>2, <3>1, <3>2
    <3>3. CASE i # 0
      <4>1. i \in 1 .. N /\ i < i + 1
        BY <3>3
      <4>2. i <= q[i].id /\ q[i].id < q[i + 1].id /\ q[i].id \in Int /\ q[i + 1].id \in Int
        BY <1>2, <2>2, <3>1, <3>3, <4>1
      <4> QED BY <3>1, <4>2
    <3> QED BY <3>2, <3>3
  <2> HIDE DEF Good
  <2> QED BY <2>1, <2>2, UpTo
<1>4. n <= q[n].id /\ q[n].id \in 1 .. Len(orders)
  BY <1>1, <1>2, <1>3
<1> QED BY <1>1, <1>2, <1>4

(* Price-time priority: whatever rests was never passed over by a trade at *)
(* a worse price, or with a later order at its own.                        *)
THEOREM BookNothingPassedOver == Spec => []NothingPassedOver
<1>1. BkInv => NothingPassedOver
  <2> SUFFICES ASSUME BkInv, NEW f \in fills, NEW x \in OnBook,
                      At(x).side = orders[f.maker].side, At(x).id < f.taker
               PROVE  /\ ~Better(At(x).side, x[2], f.key)
                      /\ x[2] = f.key => f.maker <= At(x).id
    BY DEF NothingPassedOver
  <2>1. /\ x[1] \in Sides /\ x[2] \in Keys /\ x[3] \in 1 .. Len(book[x[1]][x[2]])
        /\ At(x) = book[x[1]][x[2]][x[3]] /\ At(x).side = x[1]
    BY OnBookIs DEF Rests
  <2> QED BY <2>1 DEF BkInv, PassInv
<1> QED BY <1>1, BookInvariant, PTL

(* The book is typed and uncrossed, fills are within the limits, every     *)
(* order is accounted for and a FOK is filled whole or not at all.         *)
THEOREM BookSafe == Spec => []BookInv
<1>1. BkInv => BookInv
  <2> SUFFICES ASSUME BkInv PROVE BookInv
    OBVIOUS
  <2>0. /\ \A n \in Ids : /\ orders[n] \in Submitted /\ filled[n] \in Nat
                         /\ cancelled[n] \in Reasons /\ orders[n] \in NewOrders
        /\ Types
    BY OrderOf DEF BkInv
  <2>1. TypeOK
    <3>1. ASSUME taker # None
          PROVE  taker.id = Len(orders) /\ taker.left \in 0 .. taker.qty
      <4>1. /\ taker.id = Len(orders) /\ taker.id \in Ids /\ taker.left \in Nat
            /\ taker.left = taker.qty - filled[taker.id] /\ taker.qty \in Nat
        BY <3>1, TakerIs DEF Live
      <4> QED BY <2>0, <4>1
    <3>2. ASSUME NEW x \in OnBook
          PROVE  /\ At(x).id \in Ids /\ At(x).left \in 0 .. At(x).qty /\ ~IsFilled(At(x))
                 /\ At(x).kind = "Limit" /\ At(x).side = x[1] /\ Key(At(x).price) = x[2]
      <4>1. Rests(At(x), x[1], x[2]) /\ At(x) \in Order
        BY OnBookIs
      <4>2. /\ At(x).id \in Ids /\ At(x).left \in Int /\ At(x).qty \in Int /\ At(x).left >= 0
            /\ At(x).left = At(x).qty - filled[At(x).id]
        BY <4>1 DEF Rests, Live, Order
      <4>3. At(x).left \in 0 .. At(x).qty
        BY <2>0, <4>2
      <4> QED BY <4>1, <4>2, <4>3 DEF Rests
    <3> QED BY <2>0, <3>1, <3>2 DEF TypeOK, Types, Reasons
  <2>2. Uncrossed
    BY DEF BkInv, CrossInv, Uncrossed
  <2>3. WithinLimits
    <3> SUFFICES ASSUME NEW f \in fills, NEW i \in Ids, i \in {f.taker, f.maker},
                        orders[i].kind # "Market"
                 PROVE  IF orders[i].side = "Buy" THEN KeyPrice(f.key) <= orders[i].price + 2
                        ELSE KeyPrice(f.key) >= orders[i].price - 2
      BY DEF WithinLimits
    <3>1. /\ orders[i].price \in Int /\ orders[i].side \in Sides
          /\ Key(orders[i].price) \in Int /\ 4 * Key(orders[i].price) <= orders[i].price + 2
          /\ 4 * Key(orders[i].price) >= orders[i].price - 1
      BY <2>0, KeyOf DEF Submitted
    <3>2. f.key \in Int
      BY TopKey DEF BkInv, Types, Fill
    <3>3. CASE i = f.maker
      <4>1. f.key = Key(orders[i].price)
        BY <3>3 DEF BkInv, FillInv
      <4> QED BY <3>1, <3>2, <4>1 DEF KeyPrice
    <3>4. CASE i = f.taker
      <4>1. Within(orders[i], f.key)
        BY <3>4 DEF BkInv, FillInv
      <4> QED BY <3>1, <3>2, <4>1 DEF KeyPrice, Within, Sides
    <3> QED BY <3>3, <3>4
  <2>4. Accounted
    <3> SUFFICES ASSUME NEW i \in Ids
                 PROVE  LET held == {At(x) : x \in {y \in OnBook : At(y).id = i}}
                                      \cup (IF taker # None /\ taker.id = i THEN {taker} ELSE {})
                        IN  /\ \A x, y \in OnBook : At(x).id = i /\ At(y).id = i => x = y
                            /\ \A o \in held : /\ o.left = orders[i].qty - filled[i]
                                              /\ cancelled[i] = "none"
                            /\ held = {} /\ cancelled[i] = "none"
                                 => QtyIsZero(orders[i].qty - filled[i], orders[i].qty)
                            /\ filled[i] <= orders[i].qty \/ ~Valid(orders[i])
      BY DEF Accounted
    <3> DEFINE held == {At(x) : x \in {y \in OnBook : At(y).id = i}}
                         \cup (IF taker # None /\ taker.id = i THEN {taker} ELSE {})
    <3>1. ASSUME NEW x \in OnBook, NEW y \in OnBook, At(x).id = i, At(y).id = i
          PROVE  x = y
      <4>1. /\ x[1] \in Sides /\ x[2] \in Keys /\ x[3] \in 1 .. Len(book[x[1]][x[2]])
            /\ At(x) = book[x[1]][x[2]][x[3]] /\ Rests(At(x), x[1], x[2])
            /\ x = <<x[1], x[2], x[3]>>
        BY OnBookIs
      <4>2. /\ y[1] \in Sides /\ y[2] \in Keys /\ y[3] \in 1 .. Len(book[y[1]][y[2]])
            /\ At(y) = book[y[1]][y[2]][y[3]] /\ Rests(At(y), y[1], y[2])
            /\ y = <<y[1], y[2], y[3]>>
        BY OnBookIs
      <4>3. x[1] = y[1] /\ x[2] = y[2]
        BY <3>1, <4>1, <4>2 DEF Rests, Live
      <4>4. PICK q \in Seq(Order) : q = book[x[1]][x[2]]
        BY <2>0, <4>1 DEF Types
      <4>5. /\ x[3] \in 1 .. Len(q) /\ y[3] \in 1 .. Len(q)
            /\ q[x[3]].id = i /\ q[y[3]].id = i /\ i \in Int
        BY <3>1, <4>1, <4>2, <4>3, <4>4 DEF Ids
      <4>6. \A a, b \in 1 .. Len(q) : a < b => q[a].id < q[b].id
        BY <4>1, <4>4 DEF BkInv, QueueInv
      <4>7. ~(x[3] < y[3]) /\ ~(y[3] < x[3])
        BY <4>5, <4>6
      <4>8. x[3] = y[3]
        BY <4>5, <4>7
      <4> QED BY <4>1, <4>2, <4>3, <4>8
    <3>2. ASSUME NEW o \in held
          PROVE  o.left = orders[i].qty - filled[i] /\ cancelled[i] = "none"
      <4>1. CASE taker # None /\ taker.id = i /\ o = taker
        BY <4>1, TakerIs DEF Live
      <4>2. CASE \E x \in OnBook : At(x).id = i /\ o = At(x)
        BY <4>2, OnBookIs DEF Rests, Live
      <4> QED BY <4>1, <4>2
    <3>3. ASSUME held = {}, cancelled[i] = "none"
          PROVE  QtyIsZero(orders[i].qty - filled[i], orders[i].qty)
      <4>1. ~(taker # None /\ taker.id = i)
        BY <3>3
      <4>2. ~OnQueue(i)
        <5> SUFFICES ASSUME NEW s \in Sides, NEW k \in Keys, NEW n \in 1 .. Len(book[s][k]),
                            book[s][k][n].id = i
                     PROVE  FALSE
          BY DEF OnQueue
        <5>1. n \in 1 .. MaxOrders
          BY QueueShort
        <5>2. PICK x : x = <<s, k, n>>
          OBVIOUS
        <5>3. x \in OnBook /\ At(x) = book[s][k][n]
          BY <5>1, <5>2 DEF OnBook, At
        <5> QED BY <3>3, <5>3
      <4> QED BY <3>3, <4>1, <4>2 DEF BkInv, DoneInv
    <3>4. filled[i] <= orders[i].qty \/ ~Valid(orders[i])
      BY DEF BkInv, DoneInv
    <3> HIDE DEF held
    <3> QED BY <3>1, <3>2, <3>3, <3>4 DEF held
  <2>5. FokAllOrNothing
    BY DEF BkInv
  <2> QED BY <2>1, <2>2, <2>3, <2>4, <2>5 DEF BookInv
<1> QED BY <1>1, BookInvariant, PTL

-----------------------------------------------------------------------------
(* The paper engine: its inductive invariant.                             *)

Pend  == [id : Nat, sym : Symbols, side : Sides, kind : Kinds,
          price : Prices \cup {0}, qty : Nat \ {0}, born : Nat, lo : Int, hi : Int]
Whats == {"Fill", "FokNoFill", "IocRemainder"}
Ev    == [id : Nat, what : Whats, sym : Symbols, side : Sides, qty : Int, price : Int,
          limit : Int]

(* An order that may wait: of an id handed out, valid, never yet reachable *)
(* when it is a limit order, and untouched by any candle when it is not.   *)
Waits(o, n, sn) ==
  /\ o \in Pend /\ o.id \in 1 .. n /\ Valid(o)
  /\ o.kind = "Limit" => IF o.side = "Buy" THEN o.lo > o.price ELSE o.hi < o.price
  /\ o.kind # "Limit" => sn[o.sym] = o.born

Tradable(e, c) ==
  /\ e.what = "Fill" /\ e.qty > 0 /\ e.price \in Prices /\ e.price > 0
  /\ c.low <= e.price /\ e.price <= c.high
  /\ IF e.side = "Buy" THEN e.price <= e.limit ELSE e.price >= e.limit

PendingInv(q, n, sn) ==
  /\ q \in Seq(Pend)
  /\ \A i \in 1 .. Len(q) : Waits(q[i], n, sn)
  /\ \A i, j \in 1 .. Len(q) : i < j => q[i].id < q[j].id

ToApplyInv(fs, c) == fs \in Seq(Ev) /\ \A i \in 1 .. Len(fs) : Tradable(fs[i], c)

ReportInv(r, n) ==
  r \in [1 .. n -> Seq(Ev)] /\ \A i \in 1 .. n : Len(r[i]) <= 1

UnreportedInv(q, r) == \A i \in 1 .. Len(q) : r[q[i].id] = <<>>

(* Of the ids handed out, the refused ones are not pending and have no     *)
(* event, and any other without one is pending.                            *)
Account(q, r, bad, n) ==
  /\ bad \subseteq 1 .. n
  /\ \A i \in bad : r[i] = <<>>
  /\ \A j \in 1 .. Len(q) : q[j].id \notin bad
  /\ \A i \in 1 .. n : r[i] = <<>> /\ i \notin bad => \E j \in 1 .. Len(q) : q[j].id = i

PInv ==
  /\ nextId \in 1 .. (MaxSubmits + 1)
  /\ seen \in [Symbols -> 0 .. MaxCandles]
  /\ PendingInv(pending, nextId - 1, seen)
  /\ ToApplyInv(toApply, candle.bar)
  /\ ReportInv(report, nextId - 1)
  /\ UnreportedInv(pending, report)
  /\ Account(pending, report, refused, nextId - 1)

-----------------------------------------------------------------------------
(* What a candle does to one order. *)

LEMMA PendPrice ==
  ASSUME NEW x \in Prices \cup {0}
  PROVE  x \in Int
<1>1. Prices \subseteq Int
  BY OrderConstants
<1> QED BY <1>1

LEMMA CandleType ==
  ASSUME NEW c \in Candles
  PROVE  /\ c.low \in Int /\ c.open \in Int /\ c.high \in Int /\ c.low <= c.open /\ c.open <= c.high
         /\ c.open \in Prices /\ 0 < c.low
BY OrderConstants DEF Candles

(* limit_fill_price: a price that traded and that the limit allows, or no *)
(* trade at the limit or better.                                           *)
LEMMA LimitPrice ==
  ASSUME NEW c \in Candles, NEW o \in Pend
  PROVE  \/ /\ LimitFillPrice(o, c) = <<>>
            /\ IF o.side = "Buy" THEN c.low > o.price ELSE c.high < o.price
         \/ \E p \in Prices : /\ LimitFillPrice(o, c) = <<p>>
                              /\ c.low <= p /\ p <= c.high
                              /\ IF o.side = "Buy" THEN p <= o.price ELSE p >= o.price
<1>0. c.low \in Int /\ c.open \in Int /\ c.high \in Int /\ c.low <= c.open /\ c.open <= c.high
      /\ c.open \in Prices /\ 0 < c.low
  BY CandleType
<1>00. /\ o.price \in Int /\ o.side \in {"Buy", "Sell"}
       /\ o.price \in Prices \/ o.price = 0
  <2>1. o.price \in Prices \cup {0} /\ o.side \in {"Buy", "Sell"}
    BY DEF Pend, Sides
  <2> QED BY <2>1, PendPrice
<1>1. CASE o.side = "Buy" /\ c.low <= o.price
  <2> DEFINE p == IF c.open < o.price THEN c.open ELSE o.price
  <2>1. LimitFillPrice(o, c) = <<p>>
    BY <1>1 DEF LimitFillPrice
  <2>2. p \in Prices /\ c.low <= p /\ p <= c.high /\ p <= o.price
    BY <1>0, <1>00, <1>1
  <2> HIDE DEF p
  <2> QED BY <1>1, <2>1, <2>2
<1>2. CASE o.side = "Sell" /\ c.high >= o.price
  <2> DEFINE p == IF c.open > o.price THEN c.open ELSE o.price
  <2>1. LimitFillPrice(o, c) = <<p>>
    BY <1>2 DEF LimitFillPrice
  <2>2. p \in Prices /\ c.low <= p /\ p <= c.high /\ p >= o.price
    BY <1>0, <1>00, <1>2
  <2> HIDE DEF p
  <2> QED BY <1>2, <2>1, <2>2
<1>3. CASE ~(o.side = "Buy" /\ c.low <= o.price) /\ ~(o.side = "Sell" /\ c.high >= o.price)
  <2>1. LimitFillPrice(o, c) = <<>>
    BY <1>3 DEF LimitFillPrice, None
  <2>2. IF o.side = "Buy" THEN c.low > o.price ELSE c.high < o.price
    BY <1>0, <1>00, <1>3
  <2> QED BY <2>1, <2>2
<1> QED BY <1>1, <1>2, <1>3

(* An order with an event has one, a fill only at a tradable price; one    *)
(* without is a limit order out of reach.                                  *)
Silent(o, c) ==
  /\ Event(o, c) = <<>> /\ o.kind = "Limit"
  /\ IF o.side = "Buy" THEN c.low > o.price ELSE c.high < o.price
Raises(o, c, e) ==
  /\ Event(o, c) = <<e>> /\ e \in Ev
  /\ e.what = "Fill" => Tradable(e, c)

LEMMA EventOf ==
  ASSUME NEW c \in Candles, NEW o \in Pend
  PROVE  Silent(o, c) \/ \E e : Raises(o, c, e)
<1>0. c.low \in Int /\ c.open \in Int /\ c.high \in Int /\ c.low <= c.open /\ c.open <= c.high
      /\ c.open \in Prices /\ 0 < c.low
  BY CandleType
<1>00. o.id \in Nat /\ o.sym \in Symbols /\ o.price \in Int /\ o.qty \in Int
       /\ o.side \in Sides /\ o.kind \in Kinds /\ o.qty > 0
  <2>1. /\ o.id \in Nat /\ o.sym \in Symbols /\ o.price \in Prices \cup {0}
        /\ o.qty \in Nat \ {0} /\ o.side \in Sides /\ o.kind \in Kinds
    BY DEF Pend
  <2> QED BY <2>1, PendPrice
<1>1. ASSUME NEW p \in Prices, c.low <= p, p <= c.high,
             (IF o.kind = "Market" THEN <<c.open>> ELSE LimitFillPrice(o, c)) = <<p>>,
             o.kind # "Market" => IF o.side = "Buy" THEN p <= o.price ELSE p >= o.price
      PROVE  Raises(o, c, EmitFill(o, p))
  <2>0. p \in Int
    BY OrderConstants
  <2>1. Event(o, c) = <<EmitFill(o, p)>>
    <3>1. <<p>> # <<>> /\ <<p>>[1] = p
      OBVIOUS
    <3> QED BY <1>1, <3>1 DEF Event, None
  <2>2. EmitFill(o, p) \in Ev
    BY <1>00, <2>0 DEF EmitFill, Ev, Whats
  <2>3. Tradable(EmitFill(o, p), c)
    BY <1>0, <1>00, <1>1, <2>0 DEF Tradable, EmitFill
  <2> QED BY <2>1, <2>2, <2>3 DEF Raises
<1>2. CASE o.kind = "Market"
  BY <1>0, <1>1, <1>2
<1>3. CASE o.kind # "Market"
  <2>1. CASE LimitFillPrice(o, c) = <<>> /\ (IF o.side = "Buy" THEN c.low > o.price ELSE c.high < o.price)
    <3>1. CASE o.kind = "Limit"
      <4>1. Event(o, c) = <<>>
        BY <2>1, <3>1 DEF Event, None
      <4> QED BY <2>1, <3>1, <4>1 DEF Silent
    <3>2. ASSUME NEW w \in Whats \ {"Fill"}, Event(o, c) = <<Cancel(o, w)>> PROVE Raises(o, c, Cancel(o, w))
      <4>1. Cancel(o, w) \in Ev /\ Cancel(o, w).what # "Fill"
        BY <1>00, <3>2 DEF Cancel, Ev
      <4> QED BY <3>2, <4>1 DEF Raises
    <3>3. CASE o.kind = "Fok"
      <4>1. Event(o, c) = <<Cancel(o, "FokNoFill")>>
        BY <2>1, <3>3 DEF Event, None
      <4> QED BY <3>2, <4>1 DEF Whats
    <3>4. CASE o.kind = "Ioc"
      <4>1. Event(o, c) = <<Cancel(o, "IocRemainder")>>
        BY <2>1, <3>4 DEF Event, None
      <4> QED BY <3>2, <4>1 DEF Whats
    <3> QED BY <1>00, <1>3, <3>1, <3>3, <3>4 DEF Kinds
  <2>2. CASE \E p \in Prices : /\ LimitFillPrice(o, c) = <<p>>
                               /\ c.low <= p /\ p <= c.high
                               /\ IF o.side = "Buy" THEN p <= o.price ELSE p >= o.price
    BY <1>1, <1>3, <2>2
  <2> QED BY <2>1, <2>2, LimitPrice
<1> QED BY <1>2, <1>3

SameElsewhere(sn, sn2, sym) == \A s \in Symbols : s # sym => sn2[s] = sn[s]

(* An order that stays after a candle of its symbol may still wait, with   *)
(* the candle seen.                                                        *)
LEMMA MarkedWaits ==
  ASSUME NEW n \in Nat, NEW sn, NEW sym \in Symbols, NEW c \in Candles, NEW o, Waits(o, n, sn),
         Stays(o, sym, c), NEW sn2, SameElsewhere(sn, sn2, sym)
  PROVE  Waits(Marked(o, sym, c), n, sn2) /\ Marked(o, sym, c).id = o.id
<1> DEFINE m == Marked(o, sym, c)
<1>0. c.low \in Int /\ c.high \in Int
  BY CandleType
<1>1. o \in Pend /\ o.sym \in Symbols /\ o.lo \in Int /\ o.hi \in Int /\ o.price \in Int
  <2>1. o \in Pend
    BY DEF Waits
  <2>2. o.price \in Prices \cup {0} /\ o.sym \in Symbols /\ o.lo \in Int /\ o.hi \in Int
    BY <2>1 DEF Pend
  <2> QED BY <2>1, <2>2, PendPrice
<1>2. CASE o.sym # sym
  <2>1. m = o
    BY <1>2 DEF Marked
  <2>2. sn2[o.sym] = sn[o.sym]
    BY <1>1, <1>2 DEF SameElsewhere
  <2> QED BY <2>1, <2>2 DEF Waits
<1>3. CASE o.sym = sym
  <2>1. Silent(o, c)
    <3>1. Event(o, c) = <<>>
      BY <1>3 DEF Stays
    <3>2. \A e : <<e>> # <<>>
      OBVIOUS
    <3> QED BY <1>1, <3>1, <3>2, EventOf DEF Raises
  <2>2. m = [o EXCEPT !.lo = IF c.low < @ THEN c.low ELSE @, !.hi = IF c.high > @ THEN c.high ELSE @]
    BY <1>3 DEF Marked
  <2>3. /\ m.id = o.id /\ m.sym = o.sym /\ m.side = o.side /\ m.kind = o.kind /\ m.price = o.price
        /\ m.qty = o.qty /\ m.born = o.born
        /\ m.lo = (IF c.low < o.lo THEN c.low ELSE o.lo)
        /\ m.hi = (IF c.high > o.hi THEN c.high ELSE o.hi)
    BY <1>1, <2>2 DEF Pend
  <2>4. m \in Pend
    BY <1>0, <1>1, <2>2 DEF Pend
  <2> HIDE DEF m
  <2>5. o.kind = "Limit" /\ (IF o.side = "Buy" THEN m.lo > m.price ELSE m.hi < m.price)
    BY <1>0, <1>1, <2>1, <2>3 DEF Waits, Silent
  <2>6. Valid(m)
    BY <2>3 DEF Valid, Waits
  <2>7. m.id \in 1 .. n /\ m.id = o.id
    BY <2>3 DEF Waits
  <2>8. Waits(m, n, sn2)
    BY <2>3, <2>4, <2>5, <2>6, <2>7 DEF Waits
  <2> QED BY <2>7, <2>8 DEF m
<1> QED BY <1>2, <1>3

-----------------------------------------------------------------------------
(* The loop. *)

Acc(n) == [kept : Seq(Pend), fills : Seq(Ev), report : [1 .. n -> Seq(Ev)]]

(* After k of the orders: the kept ones may wait and come before the rest, *)
(* neither has been reported, and the fills are tradable.                  *)
LoopInv(acc, q, k, n, sn, c) ==
  /\ acc \in Acc(n)
  /\ PendingInv(acc.kept, n, sn)
  /\ ToApplyInv(acc.fills, c)
  /\ ReportInv(acc.report, n)
  /\ UnreportedInv(acc.kept, acc.report)
  /\ \A j \in (k + 1) .. Len(q) : /\ acc.report[q[j].id] = <<>>
                                  /\ \A i \in 1 .. Len(acc.kept) : acc.kept[i].id < q[j].id

(* And of the ids handed out, those with no event yet were refused, kept,  *)
(* or are still to come.                                                   *)
LoopAccount(acc, q, k, bad, n) ==
  /\ \A i \in bad : acc.report[i] = <<>>
  /\ \A j \in 1 .. Len(acc.kept) : acc.kept[j].id \notin bad
  /\ \A i \in 1 .. n : acc.report[i] = <<>> /\ i \notin bad =>
       \/ \E j \in 1 .. Len(acc.kept) : acc.kept[j].id = i
       \/ \E j \in (k + 1) .. Len(q) : q[j].id = i

LEMMA AppendedQueue ==
  ASSUME NEW n \in Nat, NEW sn, NEW q, PendingInv(q, n, sn), NEW o, Waits(o, n, sn),
         \A i \in 1 .. Len(q) : q[i].id < o.id
  PROVE  PendingInv(Append(q, o), n, sn)
<1>1. q \in Seq(Pend) /\ o \in Pend
  BY DEF PendingInv, Waits
<1>2. PICK t : t = Append(q, o)
  OBVIOUS
<1>3. t \in Seq(Pend) /\ Len(t) = Len(q) + 1 /\ t[Len(q) + 1] = o /\ (\A i \in 1 .. Len(q) : t[i] = q[i])
      /\ Len(q) \in Nat
  BY <1>1, <1>2
<1>4. \A i \in 1 .. Len(t) : i \in 1 .. Len(q) \/ i = Len(q) + 1
  BY <1>3
<1>5. \A i \in 1 .. Len(t) : Waits(t[i], n, sn)
  BY <1>3, <1>4 DEF PendingInv
<1>6. ASSUME NEW i \in 1 .. Len(t), NEW j \in 1 .. Len(t), i < j PROVE t[i].id < t[j].id
  <2>1. i \in 1 .. Len(q)
    BY <1>3, <1>6
  <2>2. CASE j \in 1 .. Len(q)
    BY <1>3, <1>6, <2>1, <2>2 DEF PendingInv
  <2>3. CASE j = Len(q) + 1
    BY <1>3, <2>1, <2>3
  <2> QED BY <1>4, <2>2, <2>3
<1> QED BY <1>2, <1>3, <1>5, <1>6 DEF PendingInv

LEMMA AppendedFill ==
  ASSUME NEW c, NEW fs, ToApplyInv(fs, c), NEW e \in Ev, Tradable(e, c)
  PROVE  ToApplyInv(Append(fs, e), c)
<1>1. fs \in Seq(Ev)
  BY DEF ToApplyInv
<1>2. PICK t : t = Append(fs, e)
  OBVIOUS
<1>3. t \in Seq(Ev) /\ Len(t) = Len(fs) + 1 /\ t[Len(fs) + 1] = e /\ (\A i \in 1 .. Len(fs) : t[i] = fs[i])
      /\ Len(fs) \in Nat
  BY <1>1, <1>2
<1>4. \A i \in 1 .. Len(t) : i \in 1 .. Len(fs) \/ i = Len(fs) + 1
  BY <1>3
<1>5. \A i \in 1 .. Len(t) : Tradable(t[i], c)
  BY <1>3, <1>4 DEF ToApplyInv
<1> QED BY <1>2, <1>3, <1>5 DEF ToApplyInv

LEMMA VisitKeeps ==
  ASSUME NEW n \in Nat, NEW sn, NEW sym \in Symbols, NEW c \in Candles,
         NEW q, PendingInv(q, n, sn), NEW k \in 0 .. (Len(q) - 1),
         NEW sn2, SameElsewhere(sn, sn2, sym),
         NEW acc, LoopInv(acc, q, k, n, sn2, c)
  PROVE  LoopInv(Visit(acc, q[k + 1], sym, c), q, k + 1, n, sn2, c)
<1> DEFINE o == q[k + 1]
<1> DEFINE b == Visit(acc, o, sym, c)
<1>0. q \in Seq(Pend) /\ Len(q) \in Nat /\ k + 1 \in 1 .. Len(q) /\ k + 1 \in (k + 1) .. Len(q)
      /\ \A j \in ((k + 1) + 1) .. Len(q) : j \in 1 .. Len(q) /\ k + 1 < j /\ j \in (k + 1) .. Len(q)
  BY DEF PendingInv
<1>1. Waits(o, n, sn) /\ o \in Pend /\ o.id \in 1 .. n
  BY <1>0 DEF PendingInv, Waits
<1>2. acc.report[o.id] = <<>> /\ \A i \in 1 .. Len(acc.kept) : acc.kept[i].id < o.id
  BY <1>0 DEF LoopInv
<1>3. \A j \in ((k + 1) + 1) .. Len(q) : o.id < q[j].id
  BY <1>0 DEF PendingInv
<1>4. /\ acc.kept \in Seq(Pend) /\ acc.fills \in Seq(Ev) /\ acc.report \in [1 .. n -> Seq(Ev)]
      /\ acc = [kept |-> acc.kept, fills |-> acc.fills, report |-> acc.report]
  BY DEF LoopInv, Acc
<1> HIDE DEF o
<1>5. CASE Stays(o, sym, c)
  <2> DEFINE m == Marked(o, sym, c)
  <2>1. Waits(m, n, sn2) /\ m.id = o.id
    BY <1>1, <1>5, MarkedWaits
  <2> HIDE DEF m
  <2>2. b = [acc EXCEPT !.kept = Append(@, m)]
    BY <1>5 DEF Visit, m
  <2>3. b = [kept |-> Append(acc.kept, m), fills |-> acc.fills, report |-> acc.report]
    BY <1>4, <2>2
  <2>4. PICK t : t = Append(acc.kept, m)
    OBVIOUS
  <2>5. t \in Seq(Pend) /\ Len(t) = Len(acc.kept) + 1 /\ t[Len(acc.kept) + 1] = m
        /\ (\A i \in 1 .. Len(acc.kept) : t[i] = acc.kept[i]) /\ Len(acc.kept) \in Nat
    BY <1>4, <2>1, <2>4 DEF Waits
  <2>6. \A i \in 1 .. Len(t) : i \in 1 .. Len(acc.kept) \/ i = Len(acc.kept) + 1
    BY <2>5
  <2>7. b.kept = t /\ b.fills = acc.fills /\ b.report = acc.report /\ b \in Acc(n)
    BY <1>4, <2>3, <2>4, <2>5 DEF Acc
  <2> HIDE DEF b
  <2>8. PendingInv(t, n, sn2)
    BY <1>2, <2>1, <2>4, AppendedQueue DEF LoopInv
  <2>9. UnreportedInv(t, acc.report)
    BY <1>2, <2>1, <2>5, <2>6 DEF UnreportedInv, LoopInv
  <2>10. ASSUME NEW j \in ((k + 1) + 1) .. Len(q)
         PROVE  acc.report[q[j].id] = <<>> /\ \A i \in 1 .. Len(t) : t[i].id < q[j].id
    <3>1. j \in (k + 1) .. Len(q)
      BY <1>0
    <3>2. acc.report[q[j].id] = <<>> /\ \A i \in 1 .. Len(acc.kept) : acc.kept[i].id < q[j].id
      BY <3>1 DEF LoopInv
    <3>3. m.id < q[j].id
      BY <1>3, <2>1
    <3> QED BY <2>5, <2>6, <3>2, <3>3
  <2>11. ToApplyInv(acc.fills, c) /\ ReportInv(acc.report, n)
    BY DEF LoopInv
  <2>12. LoopInv(b, q, k + 1, n, sn2, c)
    BY <2>7, <2>8, <2>9, <2>10, <2>11 DEF LoopInv
  <2> QED BY <2>12 DEF b, o
<1>6. CASE ~Stays(o, sym, c)
  <2>1. PICK e : Raises(o, c, e)
    <3>1. ~Silent(o, c)
      BY <1>6 DEF Stays, Silent
    <3> QED BY <1>1, <3>1, EventOf
  <2>2. Event(o, c)[1] = e /\ e \in Ev
    BY <2>1 DEF Raises
  <2> DEFINE fs == IF e.what = "Fill" THEN Append(acc.fills, e) ELSE acc.fills
  <2> DEFINE r == [acc.report EXCEPT ![o.id] = Append(@, e)]
  <2>3. b = [acc EXCEPT !.fills = IF e.what = "Fill" THEN Append(@, e) ELSE @,
                        !.report[o.id] = Append(@, e)]
    BY <1>6, <2>2 DEF Visit
  <2>4. b = [kept |-> acc.kept, fills |-> fs, report |-> r]
    BY <1>4, <2>3
  <2>5. ToApplyInv(fs, c)
    <3>1. ToApplyInv(acc.fills, c)
      BY DEF LoopInv
    <3>2. CASE e.what = "Fill"
      BY <2>1, <2>2, <3>1, <3>2, AppendedFill DEF Raises
    <3> QED BY <3>1, <3>2
  <2>6. r \in [1 .. n -> Seq(Ev)] /\ r[o.id] = <<e>>
        /\ \A i \in 1 .. n : i # o.id => r[i] = acc.report[i]
    <3>1. Append(acc.report[o.id], e) = <<e>>
      BY <1>2
    <3>2. <<e>> \in Seq(Ev)
      BY <2>2
    <3> QED BY <1>1, <1>4, <3>1, <3>2
  <2>7. ReportInv(r, n)
    <3>1. Len(<<e>>) <= 1
      OBVIOUS
    <3>2. \A i \in 1 .. n : Len(acc.report[i]) <= 1
      BY DEF LoopInv, ReportInv
    <3> QED BY <2>6, <3>1, <3>2 DEF ReportInv
  <2>8. \A i \in 1 .. Len(acc.kept) : acc.kept[i].id \in 1 .. n /\ acc.kept[i].id # o.id
    <3>1. \A i \in 1 .. Len(acc.kept) : acc.kept[i].id \in 1 .. n
      BY DEF LoopInv, PendingInv, Waits
    <3> QED BY <1>1, <1>2, <3>1
  <2>9. UnreportedInv(acc.kept, r)
    BY <2>6, <2>8 DEF UnreportedInv, LoopInv
  <2>10. ASSUME NEW j \in ((k + 1) + 1) .. Len(q)
         PROVE  r[q[j].id] = <<>> /\ \A i \in 1 .. Len(acc.kept) : acc.kept[i].id < q[j].id
    <3>1. j \in (k + 1) .. Len(q) /\ j \in 1 .. Len(q)
      BY <1>0
    <3>2. acc.report[q[j].id] = <<>> /\ \A i \in 1 .. Len(acc.kept) : acc.kept[i].id < q[j].id
      BY <3>1 DEF LoopInv
    <3>3. o.id < q[j].id /\ q[j].id \in 1 .. n
      BY <1>3, <3>1 DEF PendingInv, Waits
    <3> QED BY <1>1, <2>6, <3>2, <3>3
  <2>11. fs \in Seq(Ev)
    BY <2>5 DEF ToApplyInv
  <2> HIDE DEF fs, r
  <2>12. b.kept = acc.kept /\ b.fills = fs /\ b.report = r /\ b \in Acc(n)
    BY <1>4, <2>4, <2>6, <2>11 DEF Acc
  <2> HIDE DEF b
  <2>13. PendingInv(acc.kept, n, sn2)
    BY DEF LoopInv
  <2>14. LoopInv(b, q, k + 1, n, sn2, c)
    BY <2>5, <2>7, <2>9, <2>10, <2>12, <2>13 DEF LoopInv
  <2> QED BY <2>14 DEF b, o
<1> QED BY <1>5, <1>6

LEMMA VisitAccounts ==
  ASSUME NEW n \in Nat, NEW sn, NEW sym \in Symbols, NEW c \in Candles,
         NEW q, PendingInv(q, n, sn), NEW k \in 0 .. (Len(q) - 1), NEW sn2,
         NEW r, NEW bad, Account(q, r, bad, n),
         NEW acc, LoopInv(acc, q, k, n, sn2, c), LoopAccount(acc, q, k, bad, n)
  PROVE  LoopAccount(Visit(acc, q[k + 1], sym, c), q, k + 1, bad, n)
<1> DEFINE o == q[k + 1]
<1> DEFINE b == Visit(acc, o, sym, c)
<1>0. q \in Seq(Pend) /\ Len(q) \in Nat /\ k + 1 \in 1 .. Len(q)
      /\ \A j \in (k + 1) .. Len(q) : j = k + 1 \/ j \in ((k + 1) + 1) .. Len(q)
  BY DEF PendingInv
<1>1. o \in Pend /\ o.id \in 1 .. n /\ o.id \notin bad
  BY <1>0 DEF PendingInv, Waits, Account
<1>2. bad \subseteq 1 .. n
  BY DEF Account
<1>3. /\ acc.kept \in Seq(Pend) /\ acc.fills \in Seq(Ev) /\ acc.report \in [1 .. n -> Seq(Ev)]
      /\ acc = [kept |-> acc.kept, fills |-> acc.fills, report |-> acc.report]
  BY DEF LoopInv, Acc
<1>4. ASSUME NEW i \in 1 .. n, acc.report[i] = <<>>, i \notin bad
      PROVE  \/ i = o.id
             \/ \E j \in 1 .. Len(acc.kept) : acc.kept[j].id = i
             \/ \E j \in ((k + 1) + 1) .. Len(q) : q[j].id = i
  <2>1. \/ \E j \in 1 .. Len(acc.kept) : acc.kept[j].id = i
        \/ \E j \in (k + 1) .. Len(q) : q[j].id = i
    BY <1>4 DEF LoopAccount
  <2> QED BY <1>0, <2>1
<1>5. /\ \A i \in bad : acc.report[i] = <<>>
      /\ \A j \in 1 .. Len(acc.kept) : acc.kept[j].id \notin bad
  BY DEF LoopAccount
<1> HIDE DEF o
<1>6. CASE Stays(o, sym, c)
  <2>1. PICK m : m = Marked(o, sym, c)
    OBVIOUS
  <2>2. m \in Pend /\ m.id = o.id
    <3>0. c.low \in Int /\ c.high \in Int
      BY CandleType
    <3> QED BY <1>1, <2>1, <3>0 DEF Marked, Pend
  <2>3. b = [acc EXCEPT !.kept = Append(@, m)]
    BY <1>6, <2>1 DEF Visit
  <2>4. PICK t : t = Append(acc.kept, m)
    OBVIOUS
  <2>5. b.kept = t /\ b.report = acc.report
    BY <1>3, <2>3, <2>4
  <2>6. Len(t) = Len(acc.kept) + 1 /\ t[Len(acc.kept) + 1] = m /\ Len(acc.kept) \in Nat
        /\ (\A i \in 1 .. Len(acc.kept) : t[i] = acc.kept[i])
    BY <1>3, <2>2, <2>4
  <2>7. /\ \A i \in 1 .. Len(t) : i \in 1 .. Len(acc.kept) \/ i = Len(acc.kept) + 1
        /\ 1 .. Len(acc.kept) \subseteq 1 .. Len(t) /\ Len(acc.kept) + 1 \in 1 .. Len(t)
    BY <2>6
  <2>8. \A j \in 1 .. Len(t) : t[j].id \notin bad
    BY <1>1, <1>5, <2>2, <2>6, <2>7
  <2>9. ASSUME NEW i \in 1 .. n, acc.report[i] = <<>>, i \notin bad
        PROVE  \/ \E j \in 1 .. Len(t) : t[j].id = i
               \/ \E j \in ((k + 1) + 1) .. Len(q) : q[j].id = i
    <3>1. CASE i = o.id
      BY <2>2, <2>6, <2>7, <3>1
    <3>2. CASE \E j \in 1 .. Len(acc.kept) : acc.kept[j].id = i
      BY <2>6, <2>7, <3>2
    <3> QED BY <1>4, <2>9, <3>1, <3>2
  <2> HIDE DEF b
  <2>10. LoopAccount(b, q, k + 1, bad, n)
    BY <1>5, <2>5, <2>8, <2>9 DEF LoopAccount
  <2> QED BY <2>10 DEF b, o
<1>7. CASE ~Stays(o, sym, c)
  <2>1. PICK e : Raises(o, c, e)
    <3>1. ~Silent(o, c)
      BY <1>7 DEF Stays, Silent
    <3> QED BY <1>1, <3>1, EventOf
  <2>2. Event(o, c)[1] = e /\ e \in Ev
    BY <2>1 DEF Raises
  <2> DEFINE rr == [acc.report EXCEPT ![o.id] = Append(@, e)]
  <2>3. b = [acc EXCEPT !.fills = IF e.what = "Fill" THEN Append(@, e) ELSE @,
                        !.report[o.id] = Append(@, e)]
    BY <1>7, <2>2 DEF Visit
  <2>4. b.kept = acc.kept /\ b.report = rr
    BY <1>3, <2>3
  <2>5. rr[o.id] # <<>> /\ \A i \in 1 .. n : i # o.id => rr[i] = acc.report[i]
    <3>1. PICK old \in Seq(Ev) : old = acc.report[o.id]
      BY <1>1, <1>3
    <3>2. Append(old, e) # <<>>
      BY <2>2, <3>1
    <3> QED BY <1>1, <1>3, <3>1, <3>2
  <2> HIDE DEF b, rr
  <2>6. \A i \in bad : rr[i] = <<>>
    BY <1>1, <1>2, <1>5, <2>5
  <2>7. ASSUME NEW i \in 1 .. n, rr[i] = <<>>, i \notin bad
        PROVE  \/ \E j \in 1 .. Len(acc.kept) : acc.kept[j].id = i
               \/ \E j \in ((k + 1) + 1) .. Len(q) : q[j].id = i
    BY <1>4, <2>5, <2>7
  <2>8. LoopAccount(b, q, k + 1, bad, n)
    BY <1>5, <2>4, <2>6, <2>7 DEF LoopAccount
  <2> QED BY <2>8 DEF b, o
<1> QED BY <1>6, <1>7

(* The states of the loop after each order. *)
Turns(sym, c) ==
  CHOOSE f : f = [i \in 0 .. Len(pending) |->
                    IF i = 0 THEN [kept |-> <<>>, fills |-> <<>>, report |-> report]
                    ELSE Visit(f[i - 1], pending[i], sym, c)]

LEMMA TurnsOf ==
  ASSUME pending \in Seq(Pend), NEW sym, NEW c
  PROVE  /\ Turns(sym, c)[0] = [kept |-> <<>>, fills |-> <<>>, report |-> report]
         /\ \A i \in 1 .. Len(pending) :
              Turns(sym, c)[i] = Visit(Turns(sym, c)[i - 1], pending[i], sym, c)
         /\ MatchAll(sym, c) = Turns(sym, c)[Len(pending)]
<1> DEFINE N == Len(pending)
<1> DEFINE Start == [kept |-> <<>>, fills |-> <<>>, report |-> report]
<1> DEFINE Step(g, i) == IF i = 0 THEN Start ELSE Visit(g[i - 1], pending[i], sym, c)
<1> DEFINE Good == {m \in 0 .. N : \E g : g = [i \in 0 .. m |-> Step(g, i)]}
<1>0. N \in Nat
  OBVIOUS
<1>1. 0 \in Good
  <2> HIDE DEF Start
  <2> DEFINE g == [i \in 0 .. 0 |-> Start]
  <2>1. g = [i \in 0 .. 0 |-> Step(g, i)]
    OBVIOUS
  <2>2. 0 \in 0 .. N
    BY <1>0
  <2> HIDE DEF g, Step
  <2> QED BY <2>1, <2>2
<1>2. ASSUME NEW m \in 0 .. (N - 1), m \in Good PROVE m + 1 \in Good
  <2> HIDE DEF Start
  <2>1. PICK g : g = [i \in 0 .. m |-> Step(g, i)]
    BY <1>2
  <2> DEFINE h == [i \in 0 .. (m + 1) |-> IF i <= m THEN g[i] ELSE Step(g, i)]
  <2>2. \A i \in 0 .. m : h[i] = g[i]
    OBVIOUS
  <2>3. \A i \in 0 .. (m + 1) : h[i] = Step(g, i)
    <3> SUFFICES ASSUME NEW i \in 0 .. (m + 1) PROVE h[i] = Step(g, i)
      OBVIOUS
    <3>1. i \in 0 .. m => g[i] = Step(g, i)
      <4> HIDE DEF Step
      <4> QED BY <2>1
    <3> HIDE DEF Step
    <3> QED BY <3>1
  <2>4. \A i \in 0 .. (m + 1) : Step(h, i) = Step(g, i)
    <3> SUFFICES ASSUME NEW i \in 0 .. (m + 1) PROVE Step(h, i) = Step(g, i)
      OBVIOUS
    <3>1. i # 0 => i - 1 \in 0 .. m
      OBVIOUS
    <3> HIDE DEF h
    <3> QED BY <2>2, <3>1
  <2>5. h = [i \in 0 .. (m + 1) |-> Step(h, i)]
    <3>1. h = [i \in 0 .. (m + 1) |-> h[i]]
      OBVIOUS
    <3> HIDE DEF h, Step
    <3> QED BY <2>3, <2>4, <3>1
  <2>6. m + 1 \in 0 .. N
    BY <1>0
  <2> HIDE DEF h, Step
  <2> QED BY <2>5, <2>6
<1>3. N \in Good
  <2> HIDE DEF Good, Step, N
  <2>1. \A m \in 0 .. (N - 1) : m \in Good => m + 1 \in Good
    BY <1>2
  <2>2. 0 .. N \subseteq Good
    BY <1>0, <1>1, <2>1, UpTo
  <2> QED BY <1>0, <2>2
<1>4. PICK g : g = [i \in 0 .. N |-> Step(g, i)]
  BY <1>3
<1>5. Turns(sym, c) = [i \in 0 .. N |-> Step(Turns(sym, c), i)]
  BY <1>4 DEF Turns
<1>6. \A i \in 0 .. N : Turns(sym, c)[i] = Step(Turns(sym, c), i)
  <2> HIDE DEF Step, N
  <2> QED BY <1>5
<1>7. \A i \in 1 .. N : i \in 0 .. N /\ i # 0
  OBVIOUS
<1>8. Turns(sym, c)[0] = Start
  BY <1>0, <1>6
<1>9. MatchAll(sym, c) = Turns(sym, c)[Len(pending)]
  BY DEF MatchAll, Turns
<1> QED BY <1>6, <1>7, <1>8, <1>9

LEMMA MatchAllKeeps ==
  ASSUME PInv, NEW sym \in Symbols, NEW c \in Candles,
         NEW sn2, SameElsewhere(seen, sn2, sym)
  PROVE  /\ LoopInv(MatchAll(sym, c), pending, Len(pending), nextId - 1, sn2, c)
         /\ LoopAccount(MatchAll(sym, c), pending, Len(pending), refused, nextId - 1)
<1>0. PICK q, n, r, bad : q = pending /\ n = nextId - 1 /\ r = report /\ bad = refused
  OBVIOUS
<1>1. n \in Nat /\ PendingInv(q, n, seen) /\ q \in Seq(Pend) /\ Len(q) \in Nat
      /\ Account(q, r, bad, n)
  BY <1>0 DEF PInv, PendingInv
<1>2. PICK f : /\ f[0] = [kept |-> <<>>, fills |-> <<>>, report |-> report]
               /\ \A i \in 1 .. Len(q) : f[i] = Visit(f[i - 1], q[i], sym, c)
               /\ MatchAll(sym, c) = f[Len(q)]
  <2>1. pending \in Seq(Pend)
    BY <1>0, <1>1
  <2> QED BY <1>0, <2>1, TurnsOf
<1>3. PICK N \in Nat : N = Len(q)
  BY <1>1
<1> DEFINE Good == {m \in 0 .. N : /\ LoopInv(f[m], q, m, n, sn2, c)
                                   /\ LoopAccount(f[m], q, m, bad, n)}
<1>4. 0 \in Good
  <2>1. f[0].kept = <<>> /\ f[0].fills = <<>> /\ f[0].report = report
    BY <1>2
  <2>2. report \in [1 .. n -> Seq(Ev)] /\ ReportInv(report, n)
    BY <1>0 DEF PInv, ReportInv
  <2>3. <<>> \in Seq(Pend) /\ <<>> \in Seq(Ev) /\ Len(<<>>) = 0
    OBVIOUS
  <2>4. f[0] \in Acc(n)
    BY <1>2, <2>2, <2>3 DEF Acc
  <2>5. PendingInv(<<>>, n, sn2) /\ ToApplyInv(<<>>, c) /\ UnreportedInv(<<>>, report)
    BY <2>3 DEF PendingInv, ToApplyInv, UnreportedInv
  <2>6. \A j \in (0 + 1) .. Len(q) : report[q[j].id] = <<>> /\ \A i \in 1 .. Len(<<>>) : <<>>[i].id < q[j].id
    BY <1>0, <1>1, <2>3 DEF PInv, UnreportedInv
  <2>7. LoopInv(f[0], q, 0, n, sn2, c)
    BY <2>1, <2>2, <2>4, <2>5, <2>6 DEF LoopInv
  <2>8. LoopAccount(f[0], q, 0, bad, n)
    BY <1>0, <1>1, <2>1, <2>3 DEF LoopAccount, Account
  <2> QED BY <1>3, <2>7, <2>8
<1>5. ASSUME NEW m \in 0 .. (N - 1), m \in Good PROVE m + 1 \in Good
  <2>1. m + 1 \in 1 .. N /\ (m + 1) - 1 = m /\ m + 1 \in 0 .. N /\ m \in 0 .. (Len(q) - 1)
    BY <1>3
  <2>2. f[m + 1] = Visit(f[m], q[m + 1], sym, c)
    BY <1>2, <1>3, <2>1
  <2>3. LoopInv(f[m], q, m, n, sn2, c) /\ LoopAccount(f[m], q, m, bad, n)
    BY <1>5
  <2>4. LoopInv(Visit(f[m], q[m + 1], sym, c), q, m + 1, n, sn2, c)
    BY <1>1, <2>1, <2>3, VisitKeeps
  <2>5. LoopAccount(Visit(f[m], q[m + 1], sym, c), q, m + 1, bad, n)
    BY <1>1, <2>1, <2>3, VisitAccounts
  <2> QED BY <2>1, <2>2, <2>4, <2>5
<1>6. N \in Good
  <2> HIDE DEF Good
  <2>1. \A m \in 0 .. (N - 1) : m \in Good => m + 1 \in Good
    BY <1>5
  <2>2. 0 .. N \subseteq Good
    BY <1>4, <2>1, UpTo
  <2> QED BY <1>3, <2>2
<1> QED BY <1>0, <1>2, <1>3, <1>6

-----------------------------------------------------------------------------
LEMMA EngineStarts ==
  EngineInit => PInv
<1> SUFFICES ASSUME EngineInit PROVE PInv
  OBVIOUS
<1>1. pending = <<>> /\ toApply = <<>> /\ report = <<>> /\ nextId = 1 /\ nextId - 1 = 0
      /\ refused = {}
  BY DEF EngineInit
<1>2. nextId \in 1 .. (MaxSubmits + 1) /\ seen \in [Symbols -> 0 .. MaxCandles]
  BY EngineConstants DEF EngineInit
<1>3. <<>> \in Seq(Pend) /\ <<>> \in Seq(Ev) /\ Len(<<>>) = 0
  OBVIOUS
<1>4. <<>> \in [1 .. 0 -> Seq(Ev)]
  OBVIOUS
<1> QED BY <1>1, <1>2, <1>3, <1>4 DEF PInv, PendingInv, ToApplyInv, ReportInv, UnreportedInv,
        Account

(* An id handed out and not reported on. *)
LEMMA ReportGrows ==
  ASSUME NEW n \in Nat, NEW r, ReportInv(r, n), NEW r2, r2 = Append(r, <<>>)
  PROVE  /\ ReportInv(r2, n + 1) /\ r2[n + 1] = <<>>
         /\ \A i \in 1 .. n : r2[i] = r[i]
<1>1. r \in Seq(Seq(Ev)) /\ Len(r) = n /\ \A i \in 1 .. n : Len(r[i]) <= 1
  BY DEF ReportInv
<1>2. <<>> \in Seq(Ev) /\ Len(<<>>) <= 1
  OBVIOUS
<1>3. r2 \in Seq(Seq(Ev)) /\ Len(r2) = n + 1 /\ r2[n + 1] = <<>> /\ \A i \in 1 .. n : r2[i] = r[i]
  BY <1>1, <1>2
<1>4. r2 \in [1 .. (n + 1) -> Seq(Ev)]
  <2>1. PICK S : S = Seq(Ev)
    OBVIOUS
  <2>2. r2 \in Seq(S)
    BY <1>3, <2>1
  <2>3. r2 \in [1 .. Len(r2) -> S]
    BY <2>2, LenProperties
  <2> QED BY <1>3, <2>1, <2>3
<1>5. \A i \in 1 .. (n + 1) : i \in 1 .. n \/ i = n + 1
  OBVIOUS
<1>6. \A i \in 1 .. (n + 1) : Len(r2[i]) <= 1
  BY <1>1, <1>2, <1>3, <1>5
<1> QED BY <1>3, <1>4, <1>6 DEF ReportInv

LEMMA WaitsLonger ==
  ASSUME NEW n \in Nat, NEW q, NEW sn, PendingInv(q, n, sn)
  PROVE  PendingInv(q, n + 1, sn) /\ \A i \in 1 .. Len(q) : q[i].id \in 1 .. n
<1>1. \A i \in 1 .. Len(q) : Waits(q[i], n + 1, sn) /\ q[i].id \in 1 .. n
  BY DEF PendingInv, Waits
<1> QED BY <1>1 DEF PendingInv

(* A valid order joins the queue under the next id ... *)
LEMMA AccountGrows ==
  ASSUME NEW n \in Nat, NEW q \in Seq(Pend), NEW r, NEW bad, Account(q, r, bad, n),
         NEW p \in Pend, p.id = n + 1, NEW t, t = Append(q, p),
         NEW r2, r2[n + 1] = <<>>, \A i \in 1 .. n : r2[i] = r[i]
  PROVE  Account(t, r2, bad, n + 1)
<1>1. Len(t) = Len(q) + 1 /\ t[Len(q) + 1] = p /\ (\A i \in 1 .. Len(q) : t[i] = q[i])
      /\ Len(q) \in Nat
  OBVIOUS
<1>2. /\ \A i \in 1 .. Len(t) : i \in 1 .. Len(q) \/ i = Len(q) + 1
      /\ 1 .. Len(q) \subseteq 1 .. Len(t) /\ Len(q) + 1 \in 1 .. Len(t)
  BY <1>1
<1>3. /\ bad \subseteq 1 .. n /\ \A i \in bad : r[i] = <<>>
      /\ \A j \in 1 .. Len(q) : q[j].id \notin bad
      /\ \A i \in 1 .. n : r[i] = <<>> /\ i \notin bad => \E j \in 1 .. Len(q) : q[j].id = i
  BY DEF Account
<1>4. n + 1 \notin bad /\ bad \subseteq 1 .. (n + 1) /\ \A i \in bad : r2[i] = <<>>
  <2>1. n + 1 \notin 1 .. n /\ 1 .. n \subseteq 1 .. (n + 1)
    OBVIOUS
  <2>2. \A i \in bad : i \in 1 .. n /\ r2[i] = r[i]
    BY <1>3
  <2> QED BY <1>3, <2>1, <2>2
<1>5. \A j \in 1 .. Len(t) : t[j].id \notin bad
  BY <1>1, <1>2, <1>3, <1>4
<1>6. ASSUME NEW i \in 1 .. (n + 1), r2[i] = <<>>, i \notin bad
      PROVE  \E j \in 1 .. Len(t) : t[j].id = i
  <2>1. CASE i = n + 1
    BY <1>1, <1>2, <2>1
  <2>2. CASE i \in 1 .. n
    <3>1. PICK j \in 1 .. Len(q) : q[j].id = i
      BY <1>3, <1>6, <2>2
    <3> QED BY <1>1, <1>2, <3>1
  <2> QED BY <2>1, <2>2
<1> QED BY <1>4, <1>5, <1>6 DEF Account

(* ... and an invalid one burns it. *)
LEMMA AccountRefuses ==
  ASSUME NEW n \in Nat, NEW sn, NEW q, PendingInv(q, n, sn), NEW r, NEW bad, Account(q, r, bad, n),
         NEW r2, r2[n + 1] = <<>>, \A i \in 1 .. n : r2[i] = r[i]
  PROVE  Account(q, r2, bad \cup {n + 1}, n + 1)
<1>1. \A j \in 1 .. Len(q) : q[j].id \in 1 .. n
  BY DEF PendingInv, Waits
<1>2. /\ bad \subseteq 1 .. n /\ \A i \in bad : r[i] = <<>>
      /\ \A j \in 1 .. Len(q) : q[j].id \notin bad
      /\ \A i \in 1 .. n : r[i] = <<>> /\ i \notin bad => \E j \in 1 .. Len(q) : q[j].id = i
  BY DEF Account
<1>3. bad \cup {n + 1} \subseteq 1 .. (n + 1) /\ \A i \in bad \cup {n + 1} : r2[i] = <<>>
  BY <1>2
<1>4. \A j \in 1 .. Len(q) : q[j].id \notin bad \cup {n + 1}
  BY <1>1, <1>2
<1>5. \A i \in 1 .. (n + 1) : r2[i] = <<>> /\ i \notin bad \cup {n + 1}
                                => \E j \in 1 .. Len(q) : q[j].id = i
  BY <1>2
<1> QED BY <1>3, <1>4, <1>5 DEF Account

LEMMA EngineStep ==
  PInv /\ [EngineNext]_paperVars => PInv'
<1> SUFFICES ASSUME PInv, [EngineNext]_paperVars PROVE PInv'
  OBVIOUS
<1>0. /\ nextId \in 1 .. (MaxSubmits + 1) /\ seen \in [Symbols -> 0 .. MaxCandles]
      /\ nextId - 1 \in Nat /\ MaxSubmits \in Nat /\ MaxCandles \in Nat
  BY EngineConstants DEF PInv
<1>1. PICK n, q, r, fs, sn, bar, bad :
        /\ n = nextId - 1 /\ q = pending /\ r = report /\ fs = toApply
        /\ sn = seen /\ bar = candle.bar /\ bad = refused
  OBVIOUS
<1>2. n \in Nat /\ PendingInv(q, n, sn) /\ ToApplyInv(fs, bar) /\ ReportInv(r, n) /\ UnreportedInv(q, r)
      /\ Account(q, r, bad, n)
  BY <1>0, <1>1 DEF PInv
<1>3. ASSUME nextId <= MaxSubmits, nextId' = nextId + 1, report' = Append(report, <<>>)
      PROVE  /\ nextId' \in 1 .. (MaxSubmits + 1) /\ nextId' - 1 = n + 1 /\ nextId = n + 1
             /\ ReportInv(report', n + 1) /\ report'[n + 1] = <<>>
             /\ PendingInv(q, n + 1, sn) /\ UnreportedInv(q, report')
             /\ \A i \in 1 .. Len(q) : q[i].id < n + 1
             /\ \A i \in 1 .. n : report'[i] = r[i]
  <2>1. nextId' \in 1 .. (MaxSubmits + 1) /\ nextId' - 1 = n + 1 /\ nextId = n + 1
    BY <1>0, <1>1, <1>3
  <2>2. PICK r2 : r2 = report'
    OBVIOUS
  <2>3. r2 = Append(r, <<>>)
    BY <1>1, <1>3, <2>2
  <2>4. ReportInv(r2, n + 1) /\ r2[n + 1] = <<>> /\ \A i \in 1 .. n : r2[i] = r[i]
    BY <1>2, <2>3, ReportGrows
  <2>5. PendingInv(q, n + 1, sn) /\ \A i \in 1 .. Len(q) : q[i].id \in 1 .. n
    BY <1>2, WaitsLonger
  <2>6. UnreportedInv(q, r2)
    BY <1>2, <2>4, <2>5 DEF UnreportedInv
  <2>7. \A i \in 1 .. Len(q) : q[i].id < n + 1
    BY <1>2, <2>5
  <2> QED BY <2>1, <2>2, <2>4, <2>5, <2>6, <2>7
<1>4. CASE \E sym \in Symbols, o \in NewOrders : EngineSubmit(sym, o)
  <2>1. PICK sym \in Symbols, o \in NewOrders : EngineSubmit(sym, o)
    BY <1>4
  <2> DEFINE p == [id |-> nextId, sym |-> sym, side |-> o.side, kind |-> o.kind,
                   price |-> o.price, qty |-> o.qty, born |-> seen[sym],
                   lo |-> MaxPrice + 1, hi |-> 0]
  <2>2. /\ pending' = Append(q, p) /\ toApply' = fs /\ candle' = candle /\ seen' = sn /\ Valid(o)
        /\ refused' = bad
        /\ nextId <= MaxSubmits /\ nextId' = nextId + 1 /\ report' = Append(report, <<>>)
    BY <1>1, <2>1 DEF EngineSubmit
  <2>3. /\ nextId' \in 1 .. (MaxSubmits + 1) /\ nextId' - 1 = n + 1 /\ nextId = n + 1
        /\ ReportInv(report', n + 1) /\ report'[n + 1] = <<>>
        /\ PendingInv(q, n + 1, sn) /\ UnreportedInv(q, report')
        /\ \A i \in 1 .. Len(q) : q[i].id < n + 1
        /\ \A i \in 1 .. n : report'[i] = r[i]
    BY <1>3, <2>2
  <2>4. /\ o.side \in Sides /\ o.kind \in Kinds /\ o.price \in Int /\ o.price \in Prices \cup {0}
        /\ o.qty \in Nat \ {0}
    <3>1. o.side \in Sides /\ o.kind \in Kinds /\ o.price \in Prices \cup {0} /\ o.qty \in Quantities
      BY DEF NewOrders, Kinds
    <3>2. o.price \in Int /\ o.qty \in Int
      <4>1. Quantities \subseteq Int
        BY OrderConstants
      <4> QED BY <3>1, <4>1, PendPrice
    <3>3. o.qty > 0
      BY <2>2 DEF Valid
    <3> QED BY <3>1, <3>2, <3>3
  <2>5. seen[sym] \in Nat
    BY <1>0
  <2>6. p \in Pend /\ p.id = n + 1
    BY <1>2, <2>3, <2>4, <2>5, OrderConstants DEF Pend
  <2>7. Valid(p)
    BY <2>2 DEF Valid
  <2>8. p.kind = "Limit" => IF p.side = "Buy" THEN p.lo > p.price ELSE p.hi < p.price
    BY <2>2, <2>4, OrderConstants DEF Valid, ValidPrice
  <2>9. sn[p.sym] = p.born
    BY <1>1
  <2> HIDE DEF p
  <2>10. Waits(p, n + 1, sn)
    BY <1>2, <2>6, <2>7, <2>8, <2>9 DEF Waits
  <2>11. PendingInv(Append(q, p), n + 1, sn)
    BY <1>2, <2>3, <2>6, <2>10, AppendedQueue
  <2>12. UnreportedInv(Append(q, p), report')
    <3>1. q \in Seq(Pend)
      BY <1>2 DEF PendingInv
    <3>2. PICK t : t = Append(q, p)
      OBVIOUS
    <3>3. Len(t) = Len(q) + 1 /\ t[Len(q) + 1] = p /\ (\A i \in 1 .. Len(q) : t[i] = q[i])
          /\ Len(q) \in Nat
      BY <2>6, <3>1, <3>2
    <3>4. \A i \in 1 .. Len(t) : i \in 1 .. Len(q) \/ i = Len(q) + 1
      BY <3>3
    <3>5. UnreportedInv(t, report')
      BY <2>3, <2>6, <3>3, <3>4 DEF UnreportedInv
    <3> QED BY <3>2, <3>5
  <2>13. Account(pending', report', refused', nextId' - 1)
    <3>1. PICK t, r2 : t = pending' /\ r2 = report'
      OBVIOUS
    <3>2. q \in Seq(Pend) /\ t = Append(q, p)
      BY <1>2, <2>2, <3>1 DEF PendingInv
    <3>3. r2[n + 1] = <<>> /\ \A i \in 1 .. n : r2[i] = r[i]
      BY <2>3, <3>1
    <3>4. Account(t, r2, bad, n + 1)
      BY <1>2, <2>6, <3>2, <3>3, AccountGrows
    <3> QED BY <2>2, <2>3, <3>1, <3>4
  <2>14. ToApplyInv(toApply', candle'.bar)
    BY <1>1, <1>2, <2>2
  <2>15. seen' \in [Symbols -> 0 .. MaxCandles]
    BY <1>0, <1>1, <2>2
  <2>16. PendingInv(pending', nextId' - 1, seen') /\ UnreportedInv(pending', report')
         /\ ReportInv(report', nextId' - 1)
    BY <2>2, <2>3, <2>11, <2>12
  <2> QED BY <2>3, <2>14, <2>15, <2>16, <2>13 DEF PInv
<1>5. CASE \E o \in NewOrders : EngineSubmitInvalid(o)
  <2>1. PICK o \in NewOrders : EngineSubmitInvalid(o)
    BY <1>5
  <2>2. /\ pending' = q /\ toApply' = fs /\ candle' = candle /\ seen' = sn
        /\ refused' = bad \cup {nextId}
        /\ nextId <= MaxSubmits /\ nextId' = nextId + 1 /\ report' = Append(report, <<>>)
    BY <1>1, <2>1 DEF EngineSubmitInvalid
  <2>3. /\ nextId' \in 1 .. (MaxSubmits + 1) /\ nextId' - 1 = n + 1
        /\ ReportInv(report', n + 1) /\ PendingInv(q, n + 1, sn) /\ UnreportedInv(q, report')
        /\ nextId = n + 1 /\ report'[n + 1] = <<>> /\ \A i \in 1 .. n : report'[i] = r[i]
    BY <1>3, <2>2
  <2>4. Account(pending', report', refused', nextId' - 1)
    <3>1. PICK r2 : r2 = report'
      OBVIOUS
    <3>2. r2[n + 1] = <<>> /\ \A i \in 1 .. n : r2[i] = r[i]
      BY <2>3, <3>1
    <3>3. Account(q, r2, bad \cup {n + 1}, n + 1)
      BY <1>2, <3>2, AccountRefuses
    <3> QED BY <2>2, <2>3, <3>1, <3>3
  <2>5. ToApplyInv(toApply', candle'.bar)
    BY <1>1, <1>2, <2>2
  <2>6. seen' \in [Symbols -> 0 .. MaxCandles]
    BY <1>0, <1>1, <2>2
  <2>7. PendingInv(pending', nextId' - 1, seen') /\ UnreportedInv(pending', report')
         /\ ReportInv(report', nextId' - 1)
    BY <2>2, <2>3
  <2> QED BY <2>3, <2>5, <2>6, <2>7, <2>4 DEF PInv
<1>6. CASE \E sym \in Symbols, c \in Candles : OnCandle(sym, c)
  <2>1. PICK sym \in Symbols, c \in Candles : OnCandle(sym, c)
    BY <1>6
  <2>2. PICK acc : acc = MatchAll(sym, c)
    OBVIOUS
  <2>3. /\ pending' = acc.kept /\ toApply' = acc.fills /\ report' = acc.report
        /\ candle'.bar = c /\ nextId' = nextId /\ refused' = bad /\ seen[sym] < MaxCandles
        /\ seen' = [seen EXCEPT ![sym] = @ + 1]
    BY <1>1, <2>1, <2>2 DEF OnCandle
  <2>4. PICK sn2 : sn2 = seen'
    OBVIOUS
  <2>5. SameElsewhere(seen, sn2, sym)
    BY <1>0, <2>3, <2>4 DEF SameElsewhere
  <2>6. /\ LoopInv(acc, pending, Len(pending), nextId - 1, sn2, c)
        /\ LoopAccount(acc, pending, Len(pending), refused, nextId - 1)
    BY <2>2, <2>5, MatchAllKeeps
  <2>7. Account(pending', report', refused', nextId' - 1)
    <3>1. Len(q) \in Nat /\ bad \subseteq 1 .. n
      BY <1>2 DEF PendingInv, Account
    <3>2. ~ \E j \in (Len(q) + 1) .. Len(q) : q[j].id = q[j].id
      BY <3>1
    <3>3. LoopAccount(acc, q, Len(q), bad, n)
      BY <1>1, <2>6
    <3>4. Account(acc.kept, acc.report, bad, n)
      BY <3>1, <3>2, <3>3 DEF LoopAccount, Account
    <3> QED BY <1>1, <2>3, <3>4
  <2>8. /\ PendingInv(acc.kept, nextId - 1, sn2) /\ ToApplyInv(acc.fills, c)
        /\ ReportInv(acc.report, nextId - 1) /\ UnreportedInv(acc.kept, acc.report)
    BY <2>6 DEF LoopInv
  <2>9. seen' \in [Symbols -> 0 .. MaxCandles]
    BY <1>0, <2>3
  <2>10. /\ PendingInv(pending', nextId' - 1, seen') /\ ToApplyInv(toApply', candle'.bar)
        /\ ReportInv(report', nextId' - 1) /\ UnreportedInv(pending', report')
    BY <2>3, <2>4, <2>8
  <2> QED BY <1>0, <2>3, <2>9, <2>10, <2>7 DEF PInv
<1>7. CASE ApplyFill
  <2>1. /\ pending' = q /\ nextId' = nextId /\ candle' = candle /\ seen' = sn /\ report' = r
        /\ refused' = bad
        /\ toApply' = Tail(fs) /\ fs # <<>>
    BY <1>1, <1>7 DEF ApplyFill
  <2>2. ToApplyInv(Tail(fs), bar)
    <3>1. fs \in Seq(Ev)
      BY <1>2 DEF ToApplyInv
    <3>2. PICK t : t = Tail(fs)
      OBVIOUS
    <3>3. t \in Seq(Ev) /\ Len(t) = Len(fs) - 1 /\ Len(fs) \in Nat
          /\ \A i \in 1 .. Len(t) : t[i] = fs[i + 1] /\ i + 1 \in 1 .. Len(fs)
      BY <2>1, <3>1, <3>2
    <3>4. ToApplyInv(t, bar)
      BY <1>2, <3>3 DEF ToApplyInv
    <3> QED BY <3>2, <3>4
  <2>3. /\ PendingInv(pending', nextId' - 1, seen') /\ ToApplyInv(toApply', candle'.bar)
        /\ ReportInv(report', nextId' - 1) /\ UnreportedInv(pending', report')
        /\ Account(pending', report', refused', nextId' - 1)
    BY <1>1, <1>2, <2>1, <2>2
  <2>4. nextId' \in 1 .. (MaxSubmits + 1) /\ seen' \in [Symbols -> 0 .. MaxCandles]
    BY <1>0, <1>1, <2>1
  <2> QED BY <2>3, <2>4 DEF PInv
<1>8. CASE UNCHANGED paperVars
  <2>1. /\ pending' = q /\ nextId' = nextId /\ candle' = candle /\ seen' = sn /\ report' = r
        /\ refused' = bad
        /\ toApply' = fs
    BY <1>1, <1>8 DEF paperVars, engineVars
  <2>2. /\ PendingInv(pending', nextId' - 1, seen') /\ ToApplyInv(toApply', candle'.bar)
        /\ ReportInv(report', nextId' - 1) /\ UnreportedInv(pending', report')
        /\ Account(pending', report', refused', nextId' - 1)
    BY <1>1, <1>2, <2>1
  <2>3. nextId' \in 1 .. (MaxSubmits + 1) /\ seen' \in [Symbols -> 0 .. MaxCandles]
    BY <1>0, <1>1, <2>1
  <2> QED BY <2>2, <2>3 DEF PInv
<1> QED BY <1>4, <1>5, <1>6, <1>7, <1>8 DEF EngineNext

(* The inductive invariant holds of the engine. *)
THEOREM EngineInvariant == EngineSpec => []PInv
<1>1. EngineInit => PInv
  BY EngineStarts
<1>2. PInv /\ [EngineNext]_paperVars => PInv'
  BY EngineStep
<1> QED BY <1>1, <1>2, PTL DEF EngineSpec

LEMMA EngineImplied ==
  PInv => EngineInv
<1> SUFFICES ASSUME PInv PROVE EngineInv
  OBVIOUS
<1>0. /\ nextId \in 1 .. (MaxSubmits + 1) /\ seen \in [Symbols -> 0 .. MaxCandles]
      /\ nextId - 1 \in Nat
  BY EngineConstants DEF PInv
<1>1. /\ pending \in Seq(Pend) /\ DOMAIN pending = 1 .. Len(pending)
      /\ \A i \in 1 .. Len(pending) : Waits(pending[i], nextId - 1, seen)
      /\ \A i, j \in 1 .. Len(pending) : i < j => pending[i].id < pending[j].id
  BY DEF PInv, PendingInv
<1>2. /\ toApply \in Seq(Ev) /\ DOMAIN toApply = 1 .. Len(toApply)
      /\ \A i \in 1 .. Len(toApply) : Tradable(toApply[i], candle.bar) /\ toApply[i] \in Ev
  BY DEF PInv, ToApplyInv
<1>3. /\ DOMAIN report = 1 .. (nextId - 1) /\ Len(report) = nextId - 1
      /\ \A i \in 1 .. (nextId - 1) : Len(report[i]) <= 1
  BY <1>0 DEF PInv, ReportInv
<1>4. /\ refused \subseteq 1 .. (nextId - 1) /\ \A i \in refused : report[i] = <<>>
      /\ \A i \in 1 .. (nextId - 1) : report[i] = <<>> /\ i \notin refused
                                        => \E j \in 1 .. Len(pending) : pending[j].id = i
  BY DEF PInv, Account
<1>5. EngineTypeOK
  <2>1. \A i \in DOMAIN pending : pending[i].id < nextId /\ pending[i].sym \in Symbols
                                    /\ Valid(pending[i])
    <3> SUFFICES ASSUME NEW i \in 1 .. Len(pending)
                 PROVE  pending[i].id < nextId /\ pending[i].sym \in Symbols /\ Valid(pending[i])
      BY <1>1
    <3>1. pending[i] \in Pend /\ pending[i].id \in 1 .. (nextId - 1) /\ Valid(pending[i])
      BY <1>1 DEF Waits
    <3>2. pending[i].sym \in Symbols
      BY <3>1 DEF Pend
    <3>3. pending[i].id < nextId
      BY <1>0, <3>1
    <3> QED BY <3>1, <3>2, <3>3
  <2>2. \A i \in DOMAIN toApply : toApply[i].what = "Fill" /\ toApply[i].sym \in Symbols
    BY <1>2 DEF Tradable, Ev
  <2> QED BY <1>0, <1>1, <1>3, <1>4, <2>1, <2>2 DEF EngineTypeOK
<1>6. ReportedOnce
  <2>1. \A k \in 1 .. Len(pending) : report[pending[k].id] = <<>>
    BY DEF PInv, UnreportedInv
  <2> QED BY <1>1, <1>3, <1>4, <2>1 DEF ReportedOnce
<1>7. ImmediateMeansImmediate
  BY <1>1 DEF ImmediateMeansImmediate, Waits
<1>8. FillsAreTradable
  BY <1>2 DEF FillsAreTradable, Tradable
<1>9. NoMissedFill
  BY <1>1 DEF NoMissedFill, Waits
<1> QED BY <1>5, <1>6, <1>7, <1>8, <1>9 DEF EngineInv

(* For any orders and candles: an order is pending, refused, or reported   *)
(* with one event, an immediate one at the next candle of its symbol,      *)
(* fills are at prices that traded and within the limit, and a limit order *)
(* that waits was never reachable (PaperEngine::submit and on_candle).     *)
THEOREM EngineSafe == EngineSpec => []EngineInv
<1>1. PInv => EngineInv
  BY EngineImplied
<1> QED BY <1>1, EngineInvariant, PTL

-----------------------------------------------------------------------------
(* The portfolio: fractions.                                               *)

(* A factor that is at least one keeps an order, and can be taken out. *)
LEMMA ScaleUp ==
  ASSUME NEW m \in Nat, NEW a \in Int, NEW b \in Int, a <= b
  PROVE  m * a <= m * b
<1>1. m * (b - a) \in Nat
  BY TimesNat
<1>2. m * (b - a) = m * b - m * a
  OBVIOUS
<1> QED BY <1>1, <1>2

LEMMA ScaleDown ==
  ASSUME NEW m \in Nat \ {0}, NEW a \in Int, NEW b \in Int
  PROVE  /\ m * a = m * b => a = b
         /\ m * a <= m * b => a <= b
<1>1. ASSUME NEW x \in Int, NEW y \in Int, x < y PROVE m * x < m * y
  <2>1. m * (x + 1) <= m * y
    BY <1>1, ScaleUp
  <2>2. m * (x + 1) = m * x + m
    OBVIOUS
  <2> QED BY <2>1, <2>2
<1> QED BY <1>1

(* x is v over K. *)
Worth(x, v, K) == x[1] \in Int /\ x[2] \in Nat \ {0} /\ x[1] * K = v * x[2]

LEMMA DivModInt ==
  ASSUME NEW x \in Int, NEW d \in Nat \ {0}
  PROVE  x \div d \in Int /\ x % d \in Int /\ x = d * (x \div d) + (x % d)
OBVIOUS

LEMMA RatioIs ==
  ASSUME NEW n \in Int, NEW d \in Nat \ {0}
  PROVE  /\ Ratio(n, d)[1] \in Int /\ Ratio(n, d)[2] \in Nat \ {0}
         /\ Ratio(n, d)[1] * d = n * Ratio(n, d)[2]
<1> DEFINE S == {k \in 1 .. d : (n * k) % d = 0}
<1>1. d \in S
  <2>1. (d * n + 0) % d = 0
    BY ModOf
  <2>2. d * n + 0 = n * d
    OBVIOUS
  <2> QED BY <2>1, <2>2
<1>2. PICK e : e = Min(S)
  OBVIOUS
<1>3. e \in S
  <2>0. S \subseteq Nat
    OBVIOUS
  <2>1. S # {}
    BY <1>1, Zenon
  <2>2. \E m \in S : \A k \in S : m <= k
    BY <2>0, <2>1, Least
  <2> HIDE DEF S
  <2> QED BY <1>2, <2>2 DEF Min
<1>4. e \in Nat \ {0} /\ (n * e) % d = 0
  BY <1>3
<1>5. PICK x \in Int : x = n * e
  BY <1>4
<1>6. x = d * (x \div d) + (x % d) /\ x \div d \in Int
  BY DivModInt
<1>7. Ratio(n, d) = <<x \div d, e>>
  BY <1>2, <1>5 DEF Ratio
<1>8. Ratio(n, d)[1] = x \div d /\ Ratio(n, d)[2] = e
  BY <1>7
<1>9. (x \div d) * d = x
  BY <1>4, <1>5, <1>6
<1> QED BY <1>4, <1>5, <1>6, <1>8, <1>9

LEMMA RatioWorth ==
  ASSUME NEW n \in Int, NEW d \in Nat \ {0}, NEW v \in Int, NEW K \in Nat \ {0}, n * K = v * d
  PROVE  Worth(Ratio(n, d), v, K)
<1>1. PICK a \in Int, b \in Nat \ {0} : a = Ratio(n, d)[1] /\ b = Ratio(n, d)[2] /\ a * d = n * b
  BY RatioIs
<1>2. d * (a * K) = d * (v * b)
  <2>1. d * (a * K) = (a * d) * K
    OBVIOUS
  <2>2. (n * b) * K = (n * K) * b
    OBVIOUS
  <2>3. (v * d) * b = d * (v * b)
    OBVIOUS
  <2> QED BY <1>1, <2>1, <2>2, <2>3
<1>3. a * K = v * b
  BY <1>2, ScaleDown
<1> QED BY <1>1, <1>3 DEF Worth

LEMMA WholeWorth ==
  ASSUME NEW n \in Int, NEW K \in Nat \ {0}
  PROVE  Worth(Whole(n), n * K, K)
BY DEF Worth, Whole

LEMMA TimesWorth ==
  ASSUME NEW x, NEW v \in Int, NEW K \in Nat \ {0}, Worth(x, v, K), NEW n \in Int
  PROVE  Worth(Times(x, n), v * n, K)
<1>1. PICK a \in Int, b \in Nat \ {0} : a = x[1] /\ b = x[2] /\ a * K = v * b
  BY DEF Worth
<1>2. (a * n) * K = (v * n) * b
  <2>1. (a * n) * K = (a * K) * n
    OBVIOUS
  <2>2. (v * b) * n = (v * n) * b
    OBVIOUS
  <2> QED BY <1>1, <2>1, <2>2
<1>3. Worth(Ratio(a * n, b), v * n, K)
  <2>1. a * n \in Int /\ v * n \in Int
    OBVIOUS
  <2> QED BY <1>2, <2>1, RatioWorth
<1> QED BY <1>1, <1>3 DEF Times

LEMMA PlusWorth ==
  ASSUME NEW x, NEW y, NEW v \in Int, NEW w \in Int, NEW K \in Nat \ {0},
         Worth(x, v, K), Worth(y, w, K)
  PROVE  Worth(Plus(x, y), v + w, K)
<1>1. PICK a \in Int, b \in Nat \ {0} : a = x[1] /\ b = x[2] /\ a * K = v * b
  BY DEF Worth
<1>2. PICK c \in Int, d \in Nat \ {0} : c = y[1] /\ d = y[2] /\ c * K = w * d
  BY DEF Worth
<1>3. (a * d + c * b) * K = (v + w) * (b * d)
  <2>1. (a * d + c * b) * K = (a * K) * d + (c * K) * b
    OBVIOUS
  <2>2. (v * b) * d + (w * d) * b = (v + w) * (b * d)
    OBVIOUS
  <2> QED BY <1>1, <1>2, <2>1, <2>2
<1>4. b * d \in Nat \ {0}
  <2>1. b * 1 <= b * d
    BY ScaleUp
  <2> QED BY <2>1
<1>5. Worth(Ratio(a * d + c * b, b * d), v + w, K)
  BY <1>3, <1>4, RatioWorth
<1> QED BY <1>1, <1>2, <1>5 DEF Plus

LEMMA MinusWorth ==
  ASSUME NEW x, NEW y, NEW v \in Int, NEW w \in Int, NEW K \in Nat \ {0},
         Worth(x, v, K), Worth(y, w, K)
  PROVE  Worth(Minus(x, y), v - w, K)
<1>1. Worth(Times(y, -1), w * (-1), K)
  BY TimesWorth
<1>2. w * (-1) \in Int /\ v + w * (-1) = v - w
  OBVIOUS
<1>3. Worth(Plus(x, Times(y, -1)), v + w * (-1), K)
  BY <1>1, <1>2, PlusWorth
<1> QED BY <1>2, <1>3 DEF Minus

LEMMA OverWorth ==
  ASSUME NEW x, NEW v \in Int, NEW K \in Nat \ {0}, Worth(x, v, K), NEW n \in Nat \ {0}
  PROVE  Worth(Over(x, n), v, K * n)
<1>1. PICK a \in Int, b \in Nat \ {0} : a = x[1] /\ b = x[2] /\ a * K = v * b
  BY DEF Worth
<1>2. a * (K * n) = v * (b * n)
  <2>1. a * (K * n) = (a * K) * n
    OBVIOUS
  <2>2. (v * b) * n = v * (b * n)
    OBVIOUS
  <2> QED BY <1>1, <2>1, <2>2
<1>3. b * n \in Nat \ {0} /\ K * n \in Nat \ {0}
  <2>1. b * 1 <= b * n /\ K * 1 <= K * n
    BY ScaleUp
  <2> QED BY <2>1
<1>4. Worth(Ratio(a, b * n), v, K * n)
  BY <1>2, <1>3, RatioWorth
<1> QED BY <1>1, <1>4 DEF Over

(* Over a finer denominator. *)
LEMMA FinerWorth ==
  ASSUME NEW x, NEW v \in Int, NEW K \in Nat \ {0}, Worth(x, v, K), NEW n \in Nat \ {0}
  PROVE  Worth(x, v * n, K * n)
<1>1. PICK a \in Int, b \in Nat \ {0} : a = x[1] /\ b = x[2] /\ a * K = v * b
  BY DEF Worth
<1>2. a * (K * n) = (v * n) * b
  <2>1. a * (K * n) = (a * K) * n
    OBVIOUS
  <2>2. (v * b) * n = (v * n) * b
    OBVIOUS
  <2> QED BY <1>1, <2>1, <2>2
<1> QED BY <1>1, <1>2 DEF Worth

(* Comparing with a price. *)
LEMMA WorthAtLeast ==
  ASSUME NEW x, NEW v \in Int, NEW K \in Nat \ {0}, Worth(x, v, K), NEW p \in Int
  PROVE  /\ p * K <= v <=> p * x[2] <= x[1]
         /\ v <= p * K <=> x[1] <= p * x[2]
<1>1. PICK a \in Int, b \in Nat \ {0} : a = x[1] /\ b = x[2] /\ a * K = v * b
  BY DEF Worth
<1>2. K * (p * b) = b * (p * K) /\ K * a = b * v
  <2>1. K * (p * b) = b * (p * K)
    OBVIOUS
  <2>2. K * a = a * K /\ b * v = v * b
    OBVIOUS
  <2> QED BY <1>1, <2>1, <2>2
<1>3. p * K \in Int /\ p * b \in Int
  OBVIOUS
<1>4. p * K <= v => p * b <= a
  <2>1. p * K <= v => b * (p * K) <= b * v
    BY <1>3, ScaleUp
  <2>2. K * (p * b) <= K * a => p * b <= a
    BY <1>3, ScaleDown
  <2> QED BY <1>2, <2>1, <2>2
<1>5. p * b <= a => p * K <= v
  <2>1. p * b <= a => K * (p * b) <= K * a
    BY <1>3, ScaleUp
  <2>2. b * (p * K) <= b * v => p * K <= v
    BY <1>3, ScaleDown
  <2> QED BY <1>2, <2>1, <2>2
<1>6. v <= p * K => a <= p * b
  <2>1. v <= p * K => b * v <= b * (p * K)
    BY <1>3, ScaleUp
  <2>2. K * a <= K * (p * b) => a <= p * b
    BY <1>3, ScaleDown
  <2> QED BY <1>2, <2>1, <2>2
<1>7. a <= p * b => v <= p * K
  <2>1. a <= p * b => K * a <= K * (p * b)
    BY <1>3, ScaleUp
  <2>2. b * v <= b * (p * K) => v <= p * K
    BY <1>3, ScaleDown
  <2> QED BY <1>2, <2>1, <2>2
<1> QED BY <1>1, <1>4, <1>5, <1>6, <1>7

-----------------------------------------------------------------------------
(* Sums over the symbols.                                                  *)

(* A sum is linear in its terms. *)
Combines(h, k, f, l, g, S) ==
  /\ f \in [S -> Int] /\ g \in [S -> Int] /\ h \in [S -> Int] /\ k \in Int /\ l \in Int
  /\ \A i \in S : h[i] = k * f[i] + l * g[i]

LEMMA SumLinear ==
  ASSUME NEW n \in Nat, NEW f, NEW g, NEW h, NEW k, NEW l, Combines(h, k, f, l, g, 1 .. n)
  PROVE  SumTo(h, n) = k * SumTo(f, n) + l * SumTo(g, n)
<1>0. /\ f \in [1 .. n -> Int] /\ g \in [1 .. n -> Int] /\ h \in [1 .. n -> Int]
      /\ k \in Int /\ l \in Int
  BY DEF Combines
<1>1. PICK a : Partial(a, f, n) /\ SumTo(f, n) = a[n]
  BY <1>0, SumIs
<1>2. PICK b : Partial(b, g, n) /\ SumTo(g, n) = b[n]
  BY <1>0, SumIs
<1>3. PICK c : Partial(c, h, n) /\ SumTo(h, n) = c[n]
  BY <1>0, SumIs
<1> DEFINE Good == {m \in 0 .. n : c[m] = k * a[m] + l * b[m]}
<1>4. 0 .. n \subseteq Good
  <2>1. 0 \in Good
    BY <1>0, <1>1, <1>2, <1>3 DEF Partial
  <2>2. ASSUME NEW m \in 0 .. (n - 1), m \in Good PROVE m + 1 \in Good
    <3>1. m + 1 \in 1 .. n /\ (m + 1) - 1 = m
      OBVIOUS
    <3>0. a[m] \in Int /\ b[m] \in Int /\ f[m + 1] \in Int /\ g[m + 1] \in Int
      BY <1>0, <1>1, <1>2, <3>1 DEF Partial
    <3>2. PICK x \in Int, y \in Int, s \in Int, t \in Int :
            x = a[m] /\ y = b[m] /\ s = f[m + 1] /\ t = g[m + 1]
      BY <3>0
    <3>3. a[m + 1] = x + s /\ b[m + 1] = y + t
      BY <1>1, <1>2, <3>1, <3>2 DEF Partial
    <3>4. c[m + 1] = (k * x + l * y) + (k * s + l * t)
      <4>1. c[m + 1] = c[m] + h[m + 1] /\ c[m] = k * x + l * y
        BY <1>3, <2>2, <3>1, <3>2 DEF Partial
      <4>2. h[m + 1] = k * s + l * t
        BY <3>1, <3>2 DEF Combines
      <4> QED BY <4>1, <4>2
    <3>5. (k * x + l * y) + (k * s + l * t) = k * (x + s) + l * (y + t)
      BY <1>0
    <3> QED BY <3>1, <3>3, <3>4, <3>5
  <2> HIDE DEF Good
  <2> QED BY <2>1, <2>2, UpTo
<1>5. n \in Good
  BY <1>4
<1> QED BY <1>1, <1>2, <1>3, <1>5

LEMMA SumNat ==
  ASSUME NEW n \in Nat, NEW f \in [1 .. n -> Int], \A i \in 1 .. n : f[i] >= 0
  PROVE  SumTo(f, n) \in Nat
<1>1. PICK a : Partial(a, f, n) /\ SumTo(f, n) = a[n]
  BY SumIs
<1> DEFINE Good == {m \in 0 .. n : a[m] \in Nat}
<1>2. 0 .. n \subseteq Good
  <2>1. 0 \in Good
    BY <1>1 DEF Partial
  <2>2. ASSUME NEW m \in 0 .. (n - 1), m \in Good PROVE m + 1 \in Good
    <3>1. m + 1 \in 1 .. n /\ (m + 1) - 1 = m
      OBVIOUS
    <3> QED BY <1>1, <2>2, <3>1 DEF Partial
  <2> HIDE DEF Good
  <2> QED BY <2>1, <2>2, UpTo
<1> QED BY <1>1, <1>2

(* Every symbol is listed, and once. *)
LEMMA Listed ==
  \E n \in Nat :
    /\ n = Cardinality(Symbols) /\ SymbolList \in [1 .. n -> Symbols]
    /\ \A s \in Symbols : \E i \in 1 .. n : SymbolList[i] = s
    /\ \A i, j \in 1 .. n : SymbolList[i] = SymbolList[j] => i = j
<1>0. IsFiniteSet(Symbols)
  BY PortfolioConstants
<1>1. PICK n \in Nat : n = Cardinality(Symbols) /\ ExistsBijection(1 .. n, Symbols)
  BY <1>0, FS_CardinalityType
<1>2. PICK b : b \in Bijection(1 .. n, Symbols)
  BY <1>1 DEF ExistsBijection
<1>3. b \in [1 .. n -> Symbols] /\ \A s \in Symbols : \E i \in DOMAIN b : b[i] = s
  BY <1>2 DEF Bijection, Surjection
<1>4. PICK q : q = SymbolList
  OBVIOUS
<1>5. q \in [1 .. n -> Symbols] /\ \A s \in Symbols : \E i \in DOMAIN q : q[i] = s
  BY <1>1, <1>3, <1>4 DEF SymbolList
<1>6. q \in Surjection(1 .. n, Symbols)
  BY <1>5 DEF Surjection
<1>7. IsFiniteSet(1 .. n) /\ Cardinality(1 .. n) = n
  BY FS_Interval
<1>8. q \in Injection(1 .. n, Symbols)
  BY <1>1, <1>6, <1>7, FS_SurjSameCardinalityImpliesInj
<1>9. \A i, j \in 1 .. n : q[i] = q[j] => i = j
  BY <1>8 DEF Injection, IsInjective
<1>10. \A s \in Symbols : \E i \in 1 .. n : q[i] = s
  BY <1>5
<1> QED BY <1>1, <1>4, <1>5, <1>9, <1>10

(* The terms of Total. *)
Terms(f) == [i \in DOMAIN SymbolList |-> f[SymbolList[i]]]

LEMMA TermsAre ==
  ASSUME NEW f \in [Symbols -> Int], NEW n \in Nat, n = Cardinality(Symbols)
  PROVE  /\ Terms(f) \in [1 .. n -> Int] /\ \A i \in 1 .. n : Terms(f)[i] = f[SymbolList[i]]
         /\ Total(f) = SumTo(Terms(f), n) /\ Total(f) \in Int
<1>1. SymbolList \in [1 .. n -> Symbols]
  BY Listed
<1>2. Terms(f) \in [1 .. n -> Int] /\ \A i \in 1 .. n : Terms(f)[i] = f[SymbolList[i]]
  BY <1>1 DEF Terms
<1>3. Total(f) = SumTo(Terms(f), n)
  BY DEF Total, Terms
<1>4. SumTo(Terms(f), n) \in Int
  BY <1>2, SumType
<1> QED BY <1>2, <1>3, <1>4

LEMMA TotalLinear ==
  ASSUME NEW f, NEW g, NEW h, NEW k, NEW l, Combines(h, k, f, l, g, Symbols)
  PROVE  Total(h) = k * Total(f) + l * Total(g)
<1>0. /\ f \in [Symbols -> Int] /\ g \in [Symbols -> Int] /\ h \in [Symbols -> Int]
      /\ k \in Int /\ l \in Int
  BY DEF Combines
<1>1. PICK n \in Nat : n = Cardinality(Symbols) /\ SymbolList \in [1 .. n -> Symbols]
  BY Listed
<1>2. PICK a, b, c : a = Terms(f) /\ b = Terms(g) /\ c = Terms(h)
  OBVIOUS
<1>3. a \in [1 .. n -> Int] /\ b \in [1 .. n -> Int] /\ c \in [1 .. n -> Int]
  BY <1>0, <1>1, <1>2, TermsAre
<1>4. \A i \in 1 .. n : a[i] = f[SymbolList[i]] /\ b[i] = g[SymbolList[i]] /\ c[i] = h[SymbolList[i]]
  BY <1>0, <1>1, <1>2, TermsAre
<1>5. Combines(c, k, a, l, b, 1 .. n)
  <2>1. \A i \in 1 .. n : c[i] = k * a[i] + l * b[i]
    <3> SUFFICES ASSUME NEW i \in 1 .. n PROVE c[i] = k * a[i] + l * b[i]
      OBVIOUS
    <3>1. PICK s \in Symbols : s = SymbolList[i]
      BY <1>1
    <3>2. h[s] = k * f[s] + l * g[s]
      BY Zenon DEF Combines
    <3>3. a[i] = f[s] /\ b[i] = g[s] /\ c[i] = h[s]
      BY <1>4, <3>1, Zenon
    <3> QED BY <3>2, <3>3, Zenon
  <2> QED BY <1>0, <1>3, <2>1, Zenon DEF Combines
<1>6. SumTo(c, n) = k * SumTo(a, n) + l * SumTo(b, n)
  BY <1>5, SumLinear
<1>7. Total(f) = SumTo(a, n) /\ Total(g) = SumTo(b, n) /\ Total(h) = SumTo(c, n)
  BY <1>0, <1>1, <1>2, TermsAre
<1> QED BY <1>6, <1>7

(* One term more by d is a total more by d. *)
LEMMA TotalMore ==
  ASSUME NEW f \in [Symbols -> Int], NEW h \in [Symbols -> Int], NEW s \in Symbols,
         NEW d \in Int, h[s] = f[s] + d, \A u \in Symbols : u # s => h[u] = f[u]
  PROVE  Total(h) = Total(f) + d
<1>1. PICK n \in Nat : /\ n = Cardinality(Symbols) /\ SymbolList \in [1 .. n -> Symbols]
                       /\ \A u \in Symbols : \E i \in 1 .. n : SymbolList[i] = u
                       /\ \A i, j \in 1 .. n : SymbolList[i] = SymbolList[j] => i = j
  BY Listed
<1>2. PICK a, c : a = Terms(f) /\ c = Terms(h)
  OBVIOUS
<1>3. a \in [1 .. n -> Int] /\ c \in [1 .. n -> Int]
  BY <1>1, <1>2, TermsAre
<1>4. \A i \in 1 .. n : a[i] = f[SymbolList[i]] /\ c[i] = h[SymbolList[i]]
  <2>1. \A i \in 1 .. n : a[i] = f[SymbolList[i]]
    BY <1>1, <1>2 DEF Terms
  <2>2. \A i \in 1 .. n : c[i] = h[SymbolList[i]]
    BY <1>1, <1>2 DEF Terms
  <2> QED BY <2>1, <2>2
<1>5. PICK j \in 1 .. n : SymbolList[j] = s
  BY <1>1
<1>6. PICK m \in Int : m = -d
  OBVIOUS
<1>7. c[j] = a[j] - m
  BY <1>3, <1>4, <1>5, <1>6
<1>8. \A i \in 1 .. n : i # j => c[i] = a[i]
  <2> SUFFICES ASSUME NEW i \in 1 .. n, i # j PROVE c[i] = a[i]
    OBVIOUS
  <2>1. PICK u \in Symbols : u = SymbolList[i]
    BY <1>1
  <2>2. u # s
    BY <1>1, <1>5, <2>1, Zenon
  <2>3. a[i] = f[u] /\ c[i] = h[u]
    BY <1>4, <2>1, Zenon
  <2> QED BY <2>2, <2>3, Zenon
<1>9. SumTo(c, n) = SumTo(a, n) - m
  BY <1>3, <1>7, <1>8, SumLess
<1>10. SumTo(a, n) \in Int
  BY <1>3, SumType
<1>11. Total(f) = SumTo(a, n) /\ Total(h) = SumTo(c, n)
  BY <1>1, <1>2, TermsAre
<1> QED BY <1>6, <1>9, <1>10, <1>11

LEMMA TotalNat ==
  ASSUME NEW f \in [Symbols -> Nat]
  PROVE  Total(f) \in Nat
<1>1. PICK n \in Nat : n = Cardinality(Symbols) /\ SymbolList \in [1 .. n -> Symbols]
  BY Listed
<1>2. PICK a : a = Terms(f)
  OBVIOUS
<1>3. f \in [Symbols -> Int]
  OBVIOUS
<1>4. a \in [1 .. n -> Int] /\ Total(f) = SumTo(a, n) /\ \A i \in 1 .. n : a[i] = f[SymbolList[i]]
  BY <1>1, <1>2, <1>3, TermsAre
<1>5. \A i \in 1 .. n : a[i] >= 0
  BY <1>1, <1>4
<1> QED BY <1>4, <1>5, SumNat

-----------------------------------------------------------------------------
(* total_pnl.                                                              *)

(* The partial sums of the unrealized profits. *)
PnlRun(marks) ==
  CHOOSE sum : sum = [i \in 0 .. Cardinality(Symbols) |->
    IF i = 0 THEN Whole(0)
    ELSE Plus(sum[i - 1], UnrealizedPnl(SymbolList[i], marks[SymbolList[i]]))]

LEMMA PnlRuns ==
  ASSUME NEW marks, NEW N \in Nat, N = Cardinality(Symbols)
  PROVE  /\ PnlRun(marks)[0] = Whole(0)
         /\ \A i \in 1 .. N : PnlRun(marks)[i] =
              Plus(PnlRun(marks)[i - 1], UnrealizedPnl(SymbolList[i], marks[SymbolList[i]]))
         /\ TotalPnl(marks) = Plus(realized, PnlRun(marks)[N])
<1> DEFINE Gain(i) == UnrealizedPnl(SymbolList[i], marks[SymbolList[i]])
<1> DEFINE Step(g, i) == IF i = 0 THEN Whole(0) ELSE Plus(g[i - 1], Gain(i))
<1> DEFINE Good == {m \in 0 .. N : \E g : g = [i \in 0 .. m |-> Step(g, i)]}
<1> HIDE DEF Gain
<1>1. 0 \in Good
  <2> DEFINE g == [i \in 0 .. 0 |-> Whole(0)]
  <2>1. g = [i \in 0 .. 0 |-> Step(g, i)]
    OBVIOUS
  <2>2. 0 \in 0 .. N
    OBVIOUS
  <2> HIDE DEF g, Step
  <2> QED BY <2>1, <2>2
<1>2. ASSUME NEW m \in 0 .. (N - 1), m \in Good PROVE m + 1 \in Good
  <2>1. PICK g : g = [i \in 0 .. m |-> Step(g, i)]
    BY <1>2
  <2> DEFINE h == [i \in 0 .. (m + 1) |-> IF i <= m THEN g[i] ELSE Step(g, i)]
  <2>2. \A i \in 0 .. m : h[i] = g[i]
    OBVIOUS
  <2>3. \A i \in 0 .. (m + 1) : h[i] = Step(g, i)
    <3> SUFFICES ASSUME NEW i \in 0 .. (m + 1) PROVE h[i] = Step(g, i)
      OBVIOUS
    <3>1. i \in 0 .. m => g[i] = Step(g, i)
      <4> HIDE DEF Step
      <4> QED BY <2>1
    <3> HIDE DEF Step
    <3> QED BY <3>1
  <2>4. \A i \in 0 .. (m + 1) : Step(h, i) = Step(g, i)
    <3> SUFFICES ASSUME NEW i \in 0 .. (m + 1) PROVE Step(h, i) = Step(g, i)
      OBVIOUS
    <3>1. i # 0 => i - 1 \in 0 .. m
      OBVIOUS
    <3> HIDE DEF h
    <3> QED BY <2>2, <3>1
  <2>5. h = [i \in 0 .. (m + 1) |-> Step(h, i)]
    <3>1. h = [i \in 0 .. (m + 1) |-> h[i]]
      OBVIOUS
    <3> HIDE DEF h, Step
    <3> QED BY <2>3, <2>4, <3>1
  <2>6. m + 1 \in 0 .. N
    OBVIOUS
  <2> HIDE DEF h, Step
  <2> QED BY <2>5, <2>6
<1>3. N \in Good
  <2> HIDE DEF Good, Step
  <2>1. \A m \in 0 .. (N - 1) : m \in Good => m + 1 \in Good
    BY <1>2
  <2>2. 0 .. N \subseteq Good
    BY <1>1, <2>1, UpTo
  <2> QED BY <2>2
<1>4. PICK g : g = [i \in 0 .. N |-> Step(g, i)]
  BY <1>3
<1>5. PnlRun(marks) = [i \in 0 .. N |-> Step(PnlRun(marks), i)]
  BY <1>4 DEF PnlRun, Gain
<1>6. \A i \in 0 .. N : PnlRun(marks)[i] = Step(PnlRun(marks), i)
  <2> HIDE DEF Step
  <2> QED BY <1>5
<1>7. \A i \in 1 .. N : i \in 0 .. N /\ i # 0
  OBVIOUS
<1>8. PnlRun(marks)[0] = Whole(0)
  BY <1>6
<1>9. TotalPnl(marks) = Plus(realized, PnlRun(marks)[N])
  BY DEF TotalPnl, PnlRun
<1> QED BY <1>6, <1>7, <1>8, <1>9 DEF Gain

(* Total profit over the common denominator of all averages. *)
GainOf(marks, alpha, K) == [s \in Symbols |-> (marks[s] * K - alpha[s]) * pos[s]]
CostsWorth(alpha, K) ==
  /\ K \in Nat \ {0} /\ alpha \in [Symbols -> Int] /\ pos \in [Symbols -> Int]
  /\ \A s \in Symbols : Worth(avgCost[s], alpha[s], K)

LEMMA PnlWorth ==
  ASSUME NEW K, NEW rho \in Int, NEW alpha, CostsWorth(alpha, K), Worth(realized, rho, K),
         NEW marks \in [Symbols -> Int]
  PROVE  /\ GainOf(marks, alpha, K) \in [Symbols -> Int]
         /\ Worth(TotalPnl(marks), rho + Total(GainOf(marks, alpha, K)), K)
<1>0. /\ K \in Nat \ {0} /\ alpha \in [Symbols -> Int] /\ pos \in [Symbols -> Int]
      /\ \A s \in Symbols : Worth(avgCost[s], alpha[s], K)
  BY DEF CostsWorth
<1>00. PICK h : h = GainOf(marks, alpha, K) /\ h = [s \in Symbols |-> (marks[s] * K - alpha[s]) * pos[s]]
  BY DEF GainOf
<1>1. PICK n \in Nat : n = Cardinality(Symbols) /\ SymbolList \in [1 .. n -> Symbols]
  BY Listed
<1>2. h \in [Symbols -> Int]
  <2> SUFFICES ASSUME NEW s \in Symbols PROVE (marks[s] * K - alpha[s]) * pos[s] \in Int
    BY <1>00
  <2>1. marks[s] \in Int /\ alpha[s] \in Int /\ pos[s] \in Int
    BY <1>0
  <2> QED BY <1>0, <2>1
<1>3. PICK g : g = Terms(h)
  OBVIOUS
<1>4. g \in [1 .. n -> Int] /\ Total(h) = SumTo(g, n) /\ \A i \in 1 .. n : g[i] = h[SymbolList[i]]
  BY <1>1, <1>2, <1>3, TermsAre
<1>5. PICK f : Partial(f, g, n) /\ SumTo(g, n) = f[n]
  BY <1>4, SumIs
<1>6. PICK r : r = PnlRun(marks)
  OBVIOUS
<1>7. /\ r[0] = Whole(0) /\ TotalPnl(marks) = Plus(realized, r[n])
      /\ \A i \in 1 .. n : r[i] = Plus(r[i - 1], UnrealizedPnl(SymbolList[i], marks[SymbolList[i]]))
  BY <1>1, <1>6, PnlRuns
<1>8. ASSUME NEW s \in Symbols PROVE Worth(UnrealizedPnl(s, marks[s]), h[s], K)
  <2>1. PICK m \in Int, a \in Int, x \in Int : m = marks[s] /\ a = alpha[s] /\ x = pos[s]
    BY <1>0
  <2>2. Worth(Whole(m), m * K, K)
    BY <1>0, WholeWorth
  <2>3. Worth(avgCost[s], a, K)
    BY <1>0, <2>1
  <2>4. m * K \in Int /\ m * K - a \in Int
    BY <1>0
  <2>5. Worth(Minus(Whole(m), avgCost[s]), m * K - a, K)
    BY <1>0, <2>2, <2>3, <2>4, MinusWorth
  <2>6. Worth(Times(Minus(Whole(m), avgCost[s]), x), (m * K - a) * x, K)
    BY <1>0, <2>4, <2>5, TimesWorth
  <2>7. h[s] = (m * K - a) * x
    BY <1>00, <2>1
  <2> QED BY <2>1, <2>6, <2>7 DEF UnrealizedPnl
<1> DEFINE Good == {m \in 0 .. n : Worth(r[m], f[m], K)}
<1>9. 0 .. n \subseteq Good
  <2>1. 0 \in Good
    <3>1. Worth(Whole(0), 0 * K, K) /\ 0 * K = 0
      BY <1>0, WholeWorth
    <3>2. f[0] = 0
      BY <1>5 DEF Partial
    <3>3. Worth(r[0], f[0], K)
      BY <1>7, <3>1, <3>2
    <3> QED BY <3>3
  <2>2. ASSUME NEW m \in 0 .. (n - 1), m \in Good PROVE m + 1 \in Good
    <3>1. m + 1 \in 1 .. n /\ (m + 1) - 1 = m /\ m + 1 \in 0 .. n
      OBVIOUS
    <3>2. PICK s \in Symbols : s = SymbolList[m + 1]
      BY <1>1, <3>1
    <3>3. PICK x \in Int, y \in Int : x = f[m] /\ y = h[s]
      BY <1>2, <1>5, <3>1 DEF Partial
    <3>4. f[m + 1] = x + y
      BY <1>4, <1>5, <3>1, <3>2, <3>3 DEF Partial
    <3>5. PICK z : z = UnrealizedPnl(s, marks[s])
      OBVIOUS
    <3>6. r[m + 1] = Plus(r[m], z)
      BY <1>7, <3>1, <3>2, <3>5
    <3>7. Worth(r[m], x, K)
      BY <2>2, <3>3
    <3>8. Worth(z, y, K)
      BY <1>8, <3>3, <3>5
    <3>9. Worth(Plus(r[m], z), x + y, K)
      BY <1>0, <3>7, <3>8, PlusWorth
    <3>10. Worth(r[m + 1], f[m + 1], K)
      BY <3>4, <3>6, <3>9
    <3> QED BY <3>1, <3>10
  <2> HIDE DEF Good
  <2> QED BY <2>1, <2>2, UpTo
<1>10. n \in Good /\ f[n] \in Int
  BY <1>5, <1>9 DEF Partial
<1>11. Worth(r[n], f[n], K)
  BY <1>10
<1>12. Worth(Plus(realized, r[n]), rho + f[n], K)
  BY <1>0, <1>10, <1>11, PlusWorth
<1> QED BY <1>00, <1>2, <1>4, <1>5, <1>7, <1>12

-----------------------------------------------------------------------------
(* One fill.                                                               *)

(* The highest price. *)
LEMMA MaxPriceIs ==
  Max(Prices) \in Prices /\ Max(Prices) \in Int /\ \A p \in Prices : p <= Max(Prices)
<1>0. Prices \subseteq Int /\ IsFiniteSet(Prices) /\ Prices # {}
  BY OrderConstants, PortfolioConstants
<1>1. PICK n \in Nat : n = Cardinality(Prices) /\ ExistsBijection(1 .. n, Prices)
  BY <1>0, FS_CardinalityType
<1>2. PICK b : b \in Bijection(1 .. n, Prices)
  BY <1>1 DEF ExistsBijection
<1>3. b \in [1 .. n -> Prices] /\ \A p \in Prices : \E i \in 1 .. n : b[i] = p
  BY <1>2 DEF Bijection, Surjection
<1>4. n # 0
  <2>1. PICK p \in Prices : TRUE
    BY <1>0
  <2>2. PICK i \in 1 .. n : b[i] = p
    BY <1>3
  <2> QED BY <2>2
<1> DEFINE Good == {m \in 0 .. n : m # 0 => \E p \in Prices : \A i \in 1 .. m : b[i] <= p}
<1>5. 0 .. n \subseteq Good
  <2>1. 0 \in Good
    OBVIOUS
  <2>2. ASSUME NEW m \in 0 .. (n - 1), m \in Good PROVE m + 1 \in Good
    <3>1. m + 1 \in 1 .. n /\ m + 1 \in 0 .. n
      OBVIOUS
    <3>2. PICK x \in Prices : x = b[m + 1]
      BY <1>3, <3>1
    <3>3. \A i \in 1 .. (m + 1) : i \in 1 .. m \/ i = m + 1
      OBVIOUS
    <3>4. CASE m = 0
      <4>1. \A i \in 1 .. (m + 1) : b[i] <= x
        BY <1>0, <3>2, <3>4
      <4> QED BY <3>1, <4>1
    <3>5. CASE m # 0
      <4>1. PICK y \in Prices : \A i \in 1 .. m : b[i] <= y
        BY <2>2, <3>5
      <4>2. \A i \in 1 .. m : b[i] \in Int
        <5>1. \A i \in 1 .. m : i \in 1 .. n
          OBVIOUS
        <5> QED BY <1>0, <1>3, <5>1
      <4>3. CASE x <= y
        <5>1. \A i \in 1 .. (m + 1) : b[i] <= y
          BY <3>2, <3>3, <4>1, <4>3
        <5> QED BY <3>1, <5>1
      <4>4. CASE ~(x <= y)
        <5>1. \A i \in 1 .. (m + 1) : b[i] <= x
          BY <1>0, <3>2, <3>3, <4>1, <4>2, <4>4
        <5> QED BY <3>1, <5>1
      <4> QED BY <4>3, <4>4
    <3> QED BY <3>4, <3>5
  <2> HIDE DEF Good
  <2> QED BY <2>1, <2>2, UpTo
<1>6. PICK m \in Prices : \A i \in 1 .. n : b[i] <= m
  <2>1. n \in Good
    BY <1>5
  <2> QED BY <1>4, <2>1
<1>7. \A p \in Prices : m >= p
  <2> SUFFICES ASSUME NEW p \in Prices PROVE m >= p
    OBVIOUS
  <2>1. PICK i \in 1 .. n : b[i] = p
    BY <1>3
  <2>2. m \in Int /\ p \in Int /\ p <= m
    BY <1>0, <1>6, <2>1
  <2> QED BY <2>2
<1>8. Max(Prices) \in Prices /\ \A p \in Prices : Max(Prices) >= p
  BY <1>7 DEF Max
<1> QED BY <1>0, <1>8

LEMMA AbsIs ==
  ASSUME NEW x \in Int
  PROVE  /\ Abs(x) \in Nat /\ Abs(-x) = Abs(x) /\ (Abs(x) = x \/ Abs(x) = -x)
         /\ x >= 0 => Abs(x) = x
BY DEF Abs

LEMMA AbsScale ==
  ASSUME NEW m \in Nat, NEW x \in Int
  PROVE  Abs(m * x) = m * Abs(x)
<1>0. m * x \in Int
  OBVIOUS
<1>1. CASE x >= 0
  <2>1. m * x \in Nat
    BY <1>1, TimesNat
  <2> QED BY <1>1, <2>1 DEF Abs
<1>2. CASE x < 0
  <2>1. PICK y \in Nat : y = -x
    BY <1>2
  <2>2. m * y \in Nat
    BY TimesNat
  <2>3. m * x = -(m * y)
    BY <2>1
  <2>4. Abs(m * x) = Abs(m * y)
    BY <2>2, <2>3 DEF Abs
  <2>5. Abs(m * y) = m * y /\ Abs(x) = y
    BY <1>2, <2>1, <2>2 DEF Abs
  <2> QED BY <2>4, <2>5
<1> QED BY <1>1, <1>2

LEMMA AbsSum ==
  ASSUME NEW x \in Int, NEW y \in Int
  PROVE  Abs(x + y) <= Abs(x) + Abs(y)
BY DEF Abs

(* A position and its cost a / K: flat without cost, or open at an average *)
(* of prices that traded.                                                  *)
Fits(h, c, a, K) ==
  IF h = 0 THEN c = Whole(0)
  ELSE /\ \E lo \in Prices : 0 < lo /\ lo * K <= a
       /\ \E hi \in Prices : a <= hi * K

(* A fill of q at p in the direction d takes position h at cost a / K to   *)
(* h2 at cost c2 = a2 / Kn and books bk = b / Kn: e / Kn is the profit     *)
(* made up, only dust of the fill's value, and of the position only dust   *)
(* is lost.                                                                *)
StepOK(h, a, d, q, p, K, h2, c2, bk, n, a2, b, e) ==
  /\ n \in Nat \ {0} /\ a2 \in Int /\ b \in Int /\ e \in Int /\ h2 \in Int
  /\ Worth(c2, a2, K * n) /\ Worth(bk, b, K * n) /\ Fits(h2, c2, a2, K * n)
  /\ b - (a2 * h2 - n * (a * h)) + (K * n) * (d * q * p) = e
  /\ Abs(e) * TolInv <= (K * n) * (Max(Prices) * q)
  /\ Abs(h2 - (h + d * q)) * TolInv <= q

LEMMA FlatWorth ==
  ASSUME NEW a \in Int, NEW K \in Nat \ {0}, Worth(Whole(0), a, K)
  PROVE  a = 0
BY DEF Worth, Whole

(* The cost of an open position is positive and at most the highest price. *)
LEMMA FitsBounds ==
  ASSUME NEW h \in Int, NEW c, NEW a \in Int, NEW K \in Nat \ {0}, Fits(h, c, a, K), h # 0
  PROVE  a >= 0 /\ a <= Max(Prices) * K
<1>1. PICK lo \in Prices : 0 < lo /\ lo * K <= a
  BY DEF Fits
<1>2. PICK hi \in Prices : a <= hi * K
  BY DEF Fits
<1>3. Prices \subseteq Int
  BY OrderConstants
<1>4. lo \in Nat /\ hi \in Int /\ lo * K \in Nat
  BY <1>1, <1>3, TimesNat
<1>5. PICK m \in Int : m = Max(Prices) /\ hi <= m
  BY MaxPriceIs
<1>6. K * hi <= K * m
  BY <1>4, <1>5, ScaleUp
<1>7. K * hi = hi * K /\ K * m = m * K
  BY <1>4
<1> QED BY <1>1, <1>2, <1>4, <1>5, <1>6, <1>7

(* Dust counted in the value of the fill. *)
LEMMA DustValue ==
  ASSUME NEW K \in Nat \ {0}, NEW q \in Nat \ {0}, NEW p \in Int, 0 <= p, p <= Max(Prices) * K,
         NEW y \in Nat, y * TolInv <= q
  PROVE  (p * y) * TolInv <= K * (Max(Prices) * q)
<1>1. PICK m \in Int : m = Max(Prices)
  BY MaxPriceIs
<1>2. PICK t \in Nat : t = TolInv
  BY OrderConstants
<1>3. p * (y * t) <= p * q
  BY <1>2, ScaleUp
<1>4. q * p <= q * (m * K)
  BY <1>1, ScaleUp
<1>5. q * (m * K) = K * (m * q) /\ q * p = p * q /\ p * (y * t) = (p * y) * t
  OBVIOUS
<1>6. p * (y * t) \in Int /\ p * q \in Int /\ K * (m * q) \in Int
  OBVIOUS
<1> QED BY <1>1, <1>2, <1>3, <1>4, <1>5, <1>6

(* What a fill makes of position and cost. *)
Moved(h, c, d, q, p) ==
  IF h * d >= 0 THEN Added(h, c, d, q, p) ELSE Reduced(h, c, d, q, p)
After(h, c, d, q, p) == Snap(q, Moved(h, c, d, q, p)[1], Moved(h, c, d, q, p)[2])

(* The hypotheses of a fill. *)
FillOn(h, c, a, K, d, q, p) ==
  /\ h \in Int /\ a \in Int /\ K \in Nat \ {0} /\ Worth(c, a, K) /\ Fits(h, c, a, K)
  /\ d \in {1, -1} /\ q \in Nat \ {0} /\ p \in Prices /\ p > 0

StepExists(h, c, a, K, d, q, p) ==
  \E n, a2, b, e :
    StepOK(h, a, d, q, p, K, After(h, c, d, q, p)[1], After(h, c, d, q, p)[2],
           Booked(h, c, d, q, p), n, a2, b, e)

(* A blend of a cost within the prices and a price is within the prices. *)
LEMMA BlendFits ==
  ASSUME NEW h, NEW c, NEW a, NEW K, NEW d, NEW q, NEW p, FillOn(h, c, a, K, d, q, p),
         NEW u \in Nat, u = Abs(h), NEW c2
  PROVE  Fits(d * (u + q), c2, a * u + (q * p) * K, K * (u + q))
<1>0. /\ h \in Int /\ a \in Int /\ K \in Nat \ {0} /\ d \in {1, -1} /\ q \in Nat \ {0}
      /\ p \in Int /\ p \in Prices /\ p > 0 /\ Fits(h, c, a, K) /\ Worth(c, a, K)
  BY OrderConstants DEF FillOn
<1>1. d * (u + q) # 0
  BY <1>0
<1>2. ASSUME NEW x \in Int, x <= p, u # 0 => x * K <= a
      PROVE  x * (K * (u + q)) <= a * u + (q * p) * K
  <2>1. x * K \in Int /\ p * K \in Int
    BY <1>0
  <2>2. K * x <= K * p
    BY <1>0, <1>2, ScaleUp
  <2>3. x * K <= p * K
    BY <1>0, <2>2
  <2>4. q * (x * K) <= q * (p * K)
    BY <1>0, <2>1, <2>3, ScaleUp
  <2>5. u * (x * K) <= u * a
    BY <1>0, <1>2, <2>1, ScaleUp
  <2>6. x * (K * (u + q)) = u * (x * K) + q * (x * K)
    BY <1>0
  <2>7. a * u + (q * p) * K = u * a + q * (p * K)
    BY <1>0
  <2>8. u * (x * K) \in Int /\ q * (x * K) \in Int /\ u * a \in Int /\ q * (p * K) \in Int
    BY <1>0
  <2> QED BY <2>4, <2>5, <2>6, <2>7, <2>8
<1>3. ASSUME NEW x \in Int, p <= x, u # 0 => a <= x * K
      PROVE  a * u + (q * p) * K <= x * (K * (u + q))
  <2>1. x * K \in Int /\ p * K \in Int
    BY <1>0
  <2>2. K * p <= K * x
    BY <1>0, <1>3, ScaleUp
  <2>3. p * K <= x * K
    BY <1>0, <2>2
  <2>4. q * (p * K) <= q * (x * K)
    BY <1>0, <2>1, <2>3, ScaleUp
  <2>5. u * a <= u * (x * K)
    BY <1>0, <1>3, <2>1, ScaleUp
  <2>6. x * (K * (u + q)) = u * (x * K) + q * (x * K)
    BY <1>0
  <2>7. a * u + (q * p) * K = u * a + q * (p * K)
    BY <1>0
  <2>8. u * (x * K) \in Int /\ q * (x * K) \in Int /\ u * a \in Int /\ q * (p * K) \in Int
    BY <1>0
  <2> QED BY <2>4, <2>5, <2>6, <2>7, <2>8
<1>4. \E lo \in Prices : 0 < lo /\ lo <= p /\ (u # 0 => lo * K <= a)
  <2>1. CASE u = 0
    BY <1>0, <2>1
  <2>2. CASE u # 0
    <3>1. h # 0
      BY <2>2 DEF Abs
    <3>2. PICK lo \in Prices : 0 < lo /\ lo * K <= a
      BY <1>0, <3>1 DEF Fits
    <3>3. lo \in Int
      BY OrderConstants
    <3>4. CASE lo <= p
      BY <3>2, <3>4
    <3>5. CASE p < lo
      <4>1. K * p <= K * lo
        BY <1>0, <3>3, <3>5, ScaleUp
      <4>2. p * K <= a
        BY <1>0, <3>2, <3>3, <4>1
      <4> QED BY <1>0, <4>2
    <3> QED BY <1>0, <3>3, <3>4, <3>5
  <2> QED BY <2>1, <2>2
<1>5. \E hi \in Prices : p <= hi /\ (u # 0 => a <= hi * K)
  <2>1. CASE u = 0
    BY <1>0, <2>1
  <2>2. CASE u # 0
    <3>1. h # 0
      BY <2>2 DEF Abs
    <3>2. PICK hi \in Prices : a <= hi * K
      BY <1>0, <3>1 DEF Fits
    <3>3. hi \in Int
      BY OrderConstants
    <3>4. CASE p <= hi
      BY <3>2, <3>4
    <3>5. CASE hi < p
      <4>1. K * hi <= K * p
        BY <1>0, <3>3, <3>5, ScaleUp
      <4>2. a <= p * K
        BY <1>0, <3>2, <3>3, <4>1
      <4> QED BY <1>0, <4>2
    <3> QED BY <1>0, <3>3, <3>4, <3>5
  <2> QED BY <2>1, <2>2
<1>6. Prices \subseteq Int
  BY OrderConstants
<1> QED BY <1>1, <1>2, <1>3, <1>4, <1>5, <1>6 DEF Fits

LEMMA AddedStep ==
  ASSUME NEW h, NEW c, NEW a, NEW K, NEW d, NEW q, NEW p, FillOn(h, c, a, K, d, q, p),
         h * d >= 0
  PROVE  StepExists(h, c, a, K, d, q, p)
<1>0. /\ h \in Int /\ a \in Int /\ K \in Nat \ {0} /\ d \in {1, -1} /\ q \in Nat \ {0}
      /\ p \in Int /\ p > 0 /\ Worth(c, a, K)
  BY OrderConstants DEF FillOn
<1>1. PICK u \in Nat : u = Abs(h) /\ h = d * u
  BY <1>0 DEF Abs
<1>2. PICK n \in Nat \ {0} : n = u + q
  BY <1>0
<1>3. PICK a2 \in Int : a2 = a * u + (q * p) * K
  BY <1>0
<1>4. PICK c2 : c2 = Over(Plus(Times(c, u), Whole(q * p)), n)
  OBVIOUS
<1>5. Worth(c2, a2, K * n)
  <2>1. Worth(Times(c, u), a * u, K)
    BY <1>0, TimesWorth
  <2>2. q * p \in Int /\ a * u \in Int /\ (q * p) * K \in Int
    BY <1>0
  <2>3. Worth(Whole(q * p), (q * p) * K, K)
    BY <1>0, <2>2, WholeWorth
  <2>4. Worth(Plus(Times(c, u), Whole(q * p)), a * u + (q * p) * K, K)
    BY <1>0, <2>1, <2>2, <2>3, PlusWorth
  <2> QED BY <1>0, <1>3, <1>4, <2>4, OverWorth
<1>6. Moved(h, c, d, q, p) = <<h + d * q, c2>>
  BY <1>1, <1>2, <1>4 DEF Moved, Added
<1>7. PICK h2 \in Int : h2 = h + d * q
  BY <1>0
<1>8. h2 = d * n /\ Abs(h2) = n
  BY <1>0, <1>1, <1>2, <1>7 DEF Abs
<1>9. ~(Abs(h2) * TolInv <= q)
  <2>1. PICK t \in Nat \ {0, 1} : t = TolInv
    BY OrderConstants
  <2>2. n * 2 <= n * t
    BY <2>1, ScaleUp
  <2> QED BY <1>0, <1>2, <1>8, <2>1, <2>2
<1>10. After(h, c, d, q, p) = <<h2, c2>>
  BY <1>6, <1>7, <1>9 DEF After, Snap
<1>11. After(h, c, d, q, p)[1] = h2 /\ After(h, c, d, q, p)[2] = c2
  BY <1>10
<1>12. Booked(h, c, d, q, p) = Whole(0)
  BY DEF Booked
<1>13. K * n \in Nat \ {0}
  <2>1. K * 1 <= K * n
    BY <1>0, ScaleUp
  <2> QED BY <1>0, <2>1
<1>14. Worth(Whole(0), 0, K * n)
  BY <1>13 DEF Worth, Whole
<1>15. Fits(h2, c2, a2, K * n)
  BY <1>1, <1>2, <1>3, <1>8, BlendFits
<1>16. 0 - (a2 * h2 - n * (a * h)) + (K * n) * (d * q * p) = 0
  <2>1. a2 * h2 = (a * u + (q * p) * K) * (d * n)
    BY <1>3, <1>8
  <2>2. n * (a * h) = n * (a * (d * u))
    BY <1>1
  <2>3. (a * u + (q * p) * K) * (d * n) - n * (a * (d * u)) = (K * n) * (d * q * p)
    BY <1>0
  <2>4. (K * n) * (d * q * p) \in Int /\ a2 * h2 \in Int /\ n * (a * h) \in Int
    BY <1>0
  <2> QED BY <2>1, <2>2, <2>3, <2>4
<1>17. Abs(0) * TolInv <= (K * n) * (Max(Prices) * q)
  <2>1. PICK m \in Nat : m = Max(Prices)
    <3>1. Max(Prices) \in Int /\ p <= Max(Prices)
      BY MaxPriceIs DEF FillOn
    <3> QED BY <1>0, <3>1
  <2>2. m * q \in Nat
    BY <1>0, TimesNat
  <2>3. (K * n) * (m * q) \in Nat
    BY <1>13, <2>2, TimesNat
  <2>4. Abs(0) * TolInv = 0
    BY OrderConstants DEF Abs
  <2> QED BY <2>1, <2>3, <2>4
<1>18. Abs(h2 - (h + d * q)) * TolInv <= q
  <2>1. h2 - (h + d * q) = 0
    BY <1>7
  <2> QED BY <1>0, <2>1, OrderConstants DEF Abs
<1>19. StepOK(h, a, d, q, p, K, h2, c2, Whole(0), n, a2, 0, 0)
  BY <1>5, <1>14, <1>15, <1>16, <1>17, <1>18 DEF StepOK
<1> QED BY <1>11, <1>12, <1>19 DEF StepExists

(* Profit booked on the part of u that a fill closes. *)
LEMMA BookedWorth ==
  ASSUME NEW h, NEW c, NEW a, NEW K, NEW d, NEW q, NEW p, FillOn(h, c, a, K, d, q, p),
         ~(h * d >= 0), NEW u \in Int, u = IF q < Abs(h) THEN q ELSE Abs(h)
  PROVE  Worth(Booked(h, c, d, q, p), (a - p * K) * (d * u), K)
<1>0. /\ h \in Int /\ a \in Int /\ K \in Nat \ {0} /\ d \in {1, -1} /\ q \in Nat \ {0}
      /\ p \in Int /\ Worth(c, a, K)
  BY OrderConstants DEF FillOn
<1>1. Worth(Whole(p), p * K, K)
  BY <1>0, WholeWorth
<1>2. p * K \in Int /\ a - p * K \in Int /\ d * u \in Int
  BY <1>0
<1>3. Worth(Minus(c, Whole(p)), a - p * K, K)
  BY <1>0, <1>1, <1>2, MinusWorth
<1>4. Worth(Times(Minus(c, Whole(p)), d * u), (a - p * K) * (d * u), K)
  BY <1>0, <1>2, <1>3, TimesWorth
<1> QED BY <1>4 DEF Booked

(* One that closes part of the position, or all of it. *)
LEMMA ReducedStep ==
  ASSUME NEW h, NEW c, NEW a, NEW K, NEW d, NEW q, NEW p, FillOn(h, c, a, K, d, q, p),
         ~(h * d >= 0), q <= Abs(h)
  PROVE  StepExists(h, c, a, K, d, q, p)
<1>0. /\ h \in Int /\ a \in Int /\ K \in Nat \ {0} /\ d \in {1, -1} /\ q \in Nat \ {0}
      /\ p \in Int /\ p > 0 /\ Worth(c, a, K) /\ Fits(h, c, a, K)
  BY OrderConstants DEF FillOn
<1>1. h # 0 /\ Abs(h) \in Nat
  BY <1>0 DEF Abs
<1>2. q \in Int /\ q = IF q < Abs(h) THEN q ELSE Abs(h)
  BY <1>0, <1>1
<1>3. PICK b \in Int : b = (a - p * K) * (d * q)
  BY <1>0
<1>4. Worth(Booked(h, c, d, q, p), b, K * 1)
  <2>1. Worth(Booked(h, c, d, q, p), (a - p * K) * (d * q), K)
    BY <1>2, BookedWorth
  <2> QED BY <1>0, <1>3, <2>1
<1>5. PICK h1 \in Int : h1 = h + d * q
  BY <1>0
<1>6. Moved(h, c, d, q, p) = <<h1, c>>
  <2>1. q - q = 0 /\ QtyIsZero(0, q)
    BY <1>0, OrderConstants DEF QtyIsZero
  <2>2. Reduced(h, c, d, q, p) = <<h1, c>>
    BY <1>2, <1>5, <2>1 DEF Reduced
  <2> QED BY <2>2 DEF Moved
<1>7. PICK m \in Nat : m = Max(Prices)
  <2>1. Max(Prices) \in Int /\ p <= Max(Prices)
    BY MaxPriceIs DEF FillOn
  <2> QED BY <1>0, <2>1
<1>8. PICK t \in Nat : t = TolInv
  BY OrderConstants
<1>9. K * 1 = K /\ Abs(0) = 0 /\ 0 * t = 0
  BY <1>0 DEF Abs
<1>10. CASE ~(Abs(h1) * TolInv <= q)
  <2>1. After(h, c, d, q, p) = <<h1, c>>
    BY <1>6, <1>10 DEF After, Snap
  <2>2. After(h, c, d, q, p)[1] = h1 /\ After(h, c, d, q, p)[2] = c
    BY <2>1
  <2>3. h1 # 0
    BY <1>0, <1>8, <1>9, <1>10
  <2>4. Fits(h1, c, a, K * 1)
    BY <1>0, <1>1, <1>9, <2>3 DEF Fits
  <2>5. b - (a * h1 - 1 * (a * h)) + (K * 1) * (d * q * p) = 0
    <3>1. (a - p * K) * (d * q) - (a * (h + d * q) - 1 * (a * h)) + (K * 1) * (d * q * p) = 0
      BY <1>0
    <3> QED BY <1>3, <1>5, <3>1
  <2>6. Abs(0) * TolInv <= (K * 1) * (Max(Prices) * q)
    <3>1. m * q \in Nat
      BY <1>0, TimesNat
    <3>2. K * (m * q) \in Nat
      BY <1>0, <3>1, TimesNat
    <3> QED BY <1>7, <1>8, <1>9, <3>2
  <2>7. Abs(h1 - (h + d * q)) * TolInv <= q
    <3>1. h1 - (h + d * q) = 0
      BY <1>5
    <3> QED BY <1>0, <1>8, <1>9, <3>1
  <2>8. Worth(c, a, K * 1)
    BY <1>0, <1>9
  <2>9. StepOK(h, a, d, q, p, K, h1, c, Booked(h, c, d, q, p), 1, a, b, 0)
    BY <1>0, <1>4, <2>4, <2>5, <2>6, <2>7, <2>8 DEF StepOK
  <2> QED BY <2>2, <2>9 DEF StepExists
<1>11. CASE Abs(h1) * TolInv <= q
  <2>1. After(h, c, d, q, p) = <<0, Whole(0)>>
    BY <1>6, <1>11 DEF After, Snap
  <2>2. After(h, c, d, q, p)[1] = 0 /\ After(h, c, d, q, p)[2] = Whole(0)
    BY <2>1
  <2>3. Fits(0, Whole(0), 0, K * 1)
    BY DEF Fits
  <2>4. PICK e \in Int : e = a * h1
    BY <1>0
  <2>5. b - (0 * 0 - 1 * (a * h)) + (K * 1) * (d * q * p) = e
    <3>1. (a - p * K) * (d * q) - (0 - 1 * (a * h)) + (K * 1) * (d * q * p) = a * (h + d * q)
      BY <1>0
    <3> QED BY <1>3, <1>5, <2>4, <3>1
  <2>6. Abs(e) * TolInv <= (K * 1) * (Max(Prices) * q)
    <3>1. a >= 0 /\ a <= Max(Prices) * K
      BY <1>0, <1>1, FitsBounds
    <3>2. Abs(h1) \in Nat
      BY AbsIs
    <3>3. Abs(e) = a * Abs(h1)
      BY <1>0, <2>4, <3>1, AbsScale
    <3>4. (a * Abs(h1)) * TolInv <= K * (Max(Prices) * q)
      BY <1>0, <1>11, <3>1, <3>2, DustValue
    <3> QED BY <1>9, <3>3, <3>4
  <2>7. Abs(0 - (h + d * q)) * TolInv <= q
    <3>1. 0 - (h + d * q) = -h1
      BY <1>5
    <3>2. Abs(-h1) = Abs(h1)
      BY AbsIs
    <3> QED BY <1>11, <3>1, <3>2
  <2>8. Worth(Whole(0), 0, K * 1)
    BY <1>0 DEF Worth, Whole
  <2>9. StepOK(h, a, d, q, p, K, 0, Whole(0), Booked(h, c, d, q, p), 1, 0, b, e)
    BY <1>4, <2>3, <2>5, <2>6, <2>7, <2>8 DEF StepOK
  <2> QED BY <2>2, <2>9 DEF StepExists
<1> QED BY <1>10, <1>11

(* One that flips the position, or would but for dust. *)
LEMMA FlippedStep ==
  ASSUME NEW h, NEW c, NEW a, NEW K, NEW d, NEW q, NEW p, FillOn(h, c, a, K, d, q, p),
         ~(h * d >= 0), ~(q <= Abs(h))
  PROVE  StepExists(h, c, a, K, d, q, p)
<1>0. /\ h \in Int /\ a \in Int /\ K \in Nat \ {0} /\ d \in {1, -1} /\ q \in Nat \ {0}
      /\ p \in Int /\ p > 0 /\ p \in Prices
  BY OrderConstants DEF FillOn
<1>1. PICK u \in Nat \ {0} : u = Abs(h) /\ h = -(d * u) /\ u < q
  BY <1>0 DEF Abs
<1>2. PICK l \in Nat \ {0} : l = q - u
  BY <1>0, <1>1
<1>3. PICK b \in Int : b = (a - p * K) * (d * u)
  BY <1>0
<1>4. Worth(Booked(h, c, d, q, p), b, K * 1)
  <2>1. u \in Int /\ u = IF q < Abs(h) THEN q ELSE Abs(h)
    BY <1>0, <1>1
  <2>2. Worth(Booked(h, c, d, q, p), (a - p * K) * (d * u), K)
    BY <2>1, BookedWorth
  <2> QED BY <1>0, <1>3, <2>2
<1>5. Moved(h, c, d, q, p) = IF QtyIsZero(l, q) THEN <<h + d * u, c>> ELSE <<d * l, Whole(p)>>
  <2>1. (IF q < Abs(h) THEN q ELSE Abs(h)) = u
    BY <1>0, <1>1
  <2>2. Reduced(h, c, d, q, p) = IF QtyIsZero(l, q) THEN <<h + d * u, c>> ELSE <<d * l, Whole(p)>>
    BY <1>2, <2>1 DEF Reduced
  <2> QED BY <2>2 DEF Moved
<1>6. PICK m \in Nat : m = Max(Prices) /\ p <= m
  <2>1. Max(Prices) \in Int /\ p <= Max(Prices)
    BY <1>0, MaxPriceIs
  <2> QED BY <1>0, <2>1
<1>7. PICK t \in Nat : t = TolInv
  BY OrderConstants
<1>8. K * 1 = K /\ Abs(0) = 0 /\ 0 * t = 0
  BY <1>0, <1>7 DEF Abs
<1>9. Abs(d * l) = l /\ Abs(-(d * l)) = l
  BY <1>0 DEF Abs
<1>10. h + d * q = d * l
  <2>1. -(d * u) + d * q = d * (q - u)
    BY <1>0
  <2> QED BY <1>1, <1>2, <2>1
<1>11. CASE QtyIsZero(l, q)
  <2>1. Moved(h, c, d, q, p) = <<0, c>>
    <3>1. h + d * u = 0
      BY <1>0, <1>1
    <3> QED BY <1>5, <1>11, <3>1
  <2>2. Abs(0) * TolInv <= q
    BY <1>0, <1>7, <1>8
  <2>3. After(h, c, d, q, p) = <<0, Whole(0)>>
    BY <2>1, <2>2 DEF After, Snap
  <2>4. After(h, c, d, q, p)[1] = 0 /\ After(h, c, d, q, p)[2] = Whole(0)
    BY <2>3
  <2>5. Fits(0, Whole(0), 0, K * 1)
    BY DEF Fits
  <2>6. PICK e \in Int : e = (p * K) * (d * l)
    BY <1>0
  <2>7. b - (0 * 0 - 1 * (a * h)) + (K * 1) * (d * q * p) = e
    <3>1. (a - p * K) * (d * u) - (0 - 1 * (a * (-(d * u)))) + (K * 1) * (d * q * p)
            = (p * K) * (d * (q - u))
      BY <1>0
    <3>2. 1 * (a * h) = 1 * (a * (-(d * u))) /\ 0 * 0 = 0
      BY <1>1
    <3>3. b - (0 - 1 * (a * h)) + (K * 1) * (d * q * p) = (p * K) * (d * l)
      BY <1>2, <1>3, <3>1, <3>2
    <3> QED BY <2>6, <3>2, <3>3
  <2>8. Abs(e) * TolInv <= (K * 1) * (Max(Prices) * q)
    <3>1. PICK v \in Nat : v = p * K
      <4>1. p \in Nat
        BY <1>0
      <4> QED BY <1>0, <4>1, TimesNat
    <3>2. v <= Max(Prices) * K
      <4>1. K * p <= K * m
        BY <1>0, <1>6, ScaleUp
      <4> QED BY <1>0, <1>6, <3>1, <4>1
    <3>3. d * l \in Int
      BY <1>0
    <3>4. Abs(e) = v * l
      BY <1>9, <2>6, <3>1, <3>3, AbsScale
    <3>5. (v * l) * TolInv <= K * (Max(Prices) * q)
      BY <1>0, <1>11, <3>1, <3>2, DustValue DEF QtyIsZero
    <3> QED BY <1>8, <3>4, <3>5
  <2>9. Abs(0 - (h + d * q)) * TolInv <= q
    <3>1. 0 - (h + d * q) = -(d * l)
      BY <1>0, <1>10
    <3> QED BY <1>9, <1>11, <3>1 DEF QtyIsZero
  <2>10. Worth(Whole(0), 0, K * 1)
    BY <1>0 DEF Worth, Whole
  <2>11. StepOK(h, a, d, q, p, K, 0, Whole(0), Booked(h, c, d, q, p), 1, 0, b, e)
    BY <1>4, <2>5, <2>7, <2>8, <2>9, <2>10 DEF StepOK
  <2> QED BY <2>4, <2>11 DEF StepExists
<1>12. CASE ~QtyIsZero(l, q)
  <2>1. Moved(h, c, d, q, p) = <<d * l, Whole(p)>>
    BY <1>5, <1>12
  <2>2. ~(Abs(d * l) * TolInv <= q)
    BY <1>9, <1>12 DEF QtyIsZero
  <2>3. After(h, c, d, q, p) = <<d * l, Whole(p)>>
    BY <2>1, <2>2 DEF After, Snap
  <2>4. After(h, c, d, q, p)[1] = d * l /\ After(h, c, d, q, p)[2] = Whole(p)
    BY <2>3
  <2>5. Fits(d * l, Whole(p), p * K, K * 1)
    <3>1. p * (K * 1) = p * K /\ p * K \in Int /\ d * l # 0
      BY <1>0
    <3> QED BY <1>0, <3>1 DEF Fits
  <2>6. b - ((p * K) * (d * l) - 1 * (a * h)) + (K * 1) * (d * q * p) = 0
    <3>1. (a - p * K) * (d * u) - ((p * K) * (d * (q - u)) - 1 * (a * (-(d * u))))
            + (K * 1) * (d * q * p) = 0
      BY <1>0
    <3> QED BY <1>1, <1>2, <1>3, <3>1
  <2>7. Abs(0) * TolInv <= (K * 1) * (Max(Prices) * q)
    <3>1. m * q \in Nat
      BY <1>0, TimesNat
    <3>2. K * (m * q) \in Nat
      BY <1>0, <3>1, TimesNat
    <3> QED BY <1>6, <1>7, <1>8, <3>2
  <2>8. Abs(d * l - (h + d * q)) * TolInv <= q
    <3>1. d * l - (h + d * q) = 0
      BY <1>0, <1>10
    <3> QED BY <1>0, <1>7, <1>8, <3>1
  <2>9. Worth(Whole(p), p * K, K * 1)
    BY <1>0 DEF Worth, Whole
  <2>10. p * K \in Int /\ d * l \in Int
    BY <1>0
  <2>11. StepOK(h, a, d, q, p, K, d * l, Whole(p), Booked(h, c, d, q, p), 1, p * K, b, 0)
    BY <1>4, <2>5, <2>6, <2>7, <2>8, <2>9, <2>10 DEF StepOK
  <2> QED BY <2>4, <2>11 DEF StepExists
<1> QED BY <1>11, <1>12

LEMMA ApplyStep ==
  ASSUME NEW h, NEW c, NEW a, NEW K, NEW d, NEW q, NEW p, FillOn(h, c, a, K, d, q, p)
  PROVE  StepExists(h, c, a, K, d, q, p)
BY AddedStep, ReducedStep, FlippedStep, Zenon

-----------------------------------------------------------------------------
(* The books.                                                              *)

(* The cost of every position, and the profit made up so far, over K. *)
CostOf(alpha, po) == [s \in Symbols |-> alpha[s] * po[s]]
MadeUp(K, rho, alpha, ca, po) == rho - Total(CostOf(alpha, po)) - K * (ca - InitialCash)

(* K is a common denominator of the realized profit and all averages, and  *)
(* the profit made up is at most dust of the volume.                       *)
Ledger(K, rho, alpha, ca, po, av, re, vo) ==
  /\ K \in Nat \ {0} /\ rho \in Int /\ alpha \in [Symbols -> Int] /\ Worth(re, rho, K)
  /\ \A s \in Symbols : Worth(av[s], alpha[s], K) /\ Fits(po[s], av[s], alpha[s], K)
  /\ Abs(MadeUp(K, rho, alpha, ca, po)) * TolInv <= K * (Max(Prices) * Total(vo))

BookTypes(ca, po, av, ne, vo) ==
  /\ ca \in Int /\ po \in [Symbols -> Int] /\ ne \in [Symbols -> Int] /\ vo \in [Symbols -> Nat]
  /\ \E S : av \in [Symbols -> S]
  /\ \A s \in Symbols : Abs(po[s] - ne[s]) * TolInv <= vo[s]

BooksOf(ca, po, av, re, ne, vo) ==
  /\ BookTypes(ca, po, av, ne, vo)
  /\ \E K, rho, alpha : Ledger(K, rho, alpha, ca, po, av, re, vo)

LEMMA CostType ==
  ASSUME NEW alpha \in [Symbols -> Int], NEW po \in [Symbols -> Int]
  PROVE  /\ CostOf(alpha, po) \in [Symbols -> Int] /\ Total(CostOf(alpha, po)) \in Int
         /\ \A s \in Symbols : CostOf(alpha, po)[s] = alpha[s] * po[s]
<1>1. ASSUME NEW s \in Symbols PROVE alpha[s] * po[s] \in Int
  <2>1. alpha[s] \in Int /\ po[s] \in Int
    OBVIOUS
  <2> QED BY <2>1
<1>2. CostOf(alpha, po) \in [Symbols -> Int]
  BY <1>1 DEF CostOf
<1>3. Total(CostOf(alpha, po)) \in Int
  <2>1. PICK f \in [Symbols -> Int] : f = CostOf(alpha, po)
    BY <1>2
  <2>2. PICK n \in Nat : n = Cardinality(Symbols)
    BY Listed
  <2>3. Total(f) \in Int
    BY <2>2, TermsAre
  <2> QED BY <2>1, <2>3
<1> QED BY <1>2, <1>3 DEF CostOf

(* A fill of sym: the cost of the positions. *)
Refilled(beta, po2, alpha, po, sym, n, a2, h2) ==
  /\ alpha \in [Symbols -> Int] /\ po \in [Symbols -> Int] /\ sym \in Symbols
  /\ beta \in [Symbols -> Int] /\ po2 \in [Symbols -> Int]
  /\ n \in Nat /\ a2 \in Int /\ h2 \in Int /\ beta[sym] = a2 /\ po2[sym] = h2
  /\ \A s \in Symbols : s # sym => beta[s] = n * alpha[s] /\ po2[s] = po[s]

LEMMA CostStep ==
  ASSUME NEW alpha, NEW po, NEW sym, NEW n, NEW a2, NEW h2, NEW beta, NEW po2,
         Refilled(beta, po2, alpha, po, sym, n, a2, h2)
  PROVE  Total(CostOf(beta, po2)) =
           n * Total(CostOf(alpha, po)) + (a2 * h2 - n * (alpha[sym] * po[sym]))
<1>0. /\ alpha \in [Symbols -> Int] /\ po \in [Symbols -> Int] /\ sym \in Symbols
      /\ n \in Nat /\ a2 \in Int /\ h2 \in Int
  BY DEF Refilled
<1>1. /\ beta \in [Symbols -> Int] /\ po2 \in [Symbols -> Int] /\ beta[sym] = a2 /\ po2[sym] = h2
      /\ \A s \in Symbols : s # sym => beta[s] = n * alpha[s] /\ po2[s] = po[s]
  BY DEF Refilled
<1>2. PICK f \in [Symbols -> Int] : f = CostOf(alpha, po)
  BY <1>0, CostType
<1>3. PICK g \in [Symbols -> Int] : g = CostOf(beta, po2)
  BY <1>1, CostType
<1>4. \A s \in Symbols : f[s] = alpha[s] * po[s] /\ g[s] = beta[s] * po2[s]
  BY <1>2, <1>3 DEF CostOf
<1>5. PICK h : h = [s \in Symbols |-> n * f[s] + 0 * f[s]]
  OBVIOUS
<1>6. ASSUME NEW s \in Symbols
      PROVE  n * f[s] + 0 * f[s] \in Int /\ n * f[s] + 0 * f[s] = n * f[s]
  <2>1. f[s] \in Int
    OBVIOUS
  <2> QED BY <1>0, <2>1
<1>7. h \in [Symbols -> Int] /\ \A s \in Symbols : h[s] = n * f[s]
  BY <1>5, <1>6
<1>8. Combines(h, n, f, 0, f, Symbols)
  <2>1. n \in Int /\ 0 \in Int
    BY <1>0
  <2>2. \A s \in Symbols : h[s] = n * f[s] + 0 * f[s]
    BY <1>5, Zenon
  <2> QED BY <1>7, <2>1, <2>2, Zenon DEF Combines
<1>9. Total(h) = n * Total(f) + 0 * Total(f)
  BY <1>8, TotalLinear
<1>10. Total(f) \in Int
  BY <1>0, <1>2, CostType
<1>11. PICK x \in Int, y \in Int : x = alpha[sym] /\ y = po[sym]
  BY <1>0
<1>12. PICK dd \in Int : dd = a2 * h2 - n * (x * y)
  BY <1>0
<1>13. g[sym] = h[sym] + dd
  <2>1. g[sym] = a2 * h2
    BY <1>0, <1>1, <1>4
  <2>2. h[sym] = n * (x * y)
    BY <1>0, <1>4, <1>7, <1>11
  <2> QED BY <1>0, <1>12, <2>1, <2>2
<1>14. ASSUME NEW s \in Symbols, s # sym PROVE g[s] = h[s]
  <2>1. PICK v \in Int, w \in Int : v = alpha[s] /\ w = po[s]
    BY <1>0
  <2>2. g[s] = (n * v) * w
    BY <1>1, <1>4, <1>14, <2>1
  <2>3. h[s] = n * (v * w)
    BY <1>4, <1>7, <2>1
  <2> QED BY <1>0, <2>2, <2>3
<1>15. Total(g) = Total(h) + dd
  BY <1>0, <1>7, <1>13, <1>14, TotalMore
<1>16. Total(g) = n * Total(f) + dd
  BY <1>0, <1>9, <1>10, <1>12, <1>15
<1> QED BY <1>2, <1>3, <1>11, <1>12, <1>16

(* The profit made up: what it was, and what this fill adds. *)
LEMMA MadeUpStep ==
  ASSUME NEW n \in Int, NEW K \in Int, NEW rho \in Int, NEW t \in Int, NEW c \in Int,
         NEW b \in Int, NEW x \in Int, NEW v \in Int, NEW e \in Int, b - x + (K * n) * v = e
  PROVE  (n * rho + b) - (n * t + x) - (K * n) * (c - v) = n * (rho - t - K * c) + e
<1>1. (n * rho + b) - (n * t + x) - (K * n) * (c - v)
        = n * (rho - t - K * c) + (b - x + (K * n) * v)
  OBVIOUS
<1> QED BY <1>1

(* Dust of the volume so far and dust of this fill are dust of the volume. *)
LEMMA DustSums ==
  ASSUME NEW n \in Nat \ {0}, NEW K \in Nat \ {0}, NEW g \in Int, NEW e \in Int, NEW v \in Nat,
         NEW q \in Nat, Abs(g) * TolInv <= K * (Max(Prices) * v),
         Abs(e) * TolInv <= (K * n) * (Max(Prices) * q)
  PROVE  Abs(n * g + e) * TolInv <= (K * n) * (Max(Prices) * (v + q))
<1>1. PICK m \in Int : m = Max(Prices)
  BY MaxPriceIs
<1>2. PICK t \in Nat : t = TolInv
  BY OrderConstants
<1>3. PICK x \in Nat, y \in Nat, z \in Nat : x = Abs(g) /\ y = Abs(e) /\ z = Abs(n * g + e)
  <2>1. n * g + e \in Int
    OBVIOUS
  <2> QED BY <2>1, AbsIs
<1>4. z <= n * x + y
  <2>1. n * g \in Int /\ Abs(n * g) = n * x
    BY <1>3, AbsScale
  <2> QED BY <1>3, <2>1, AbsSum
<1>5. t * z <= t * (n * x + y)
  BY <1>4, ScaleUp
<1>6. n * (x * t) <= n * (K * (m * v))
  BY <1>1, <1>2, <1>3, ScaleUp
<1>7. t * (n * x + y) = n * (x * t) + y * t
  OBVIOUS
<1>8. y * t <= (K * n) * (m * q)
  BY <1>1, <1>2, <1>3
<1>9. (K * n) * (m * (v + q)) = n * (K * (m * v)) + (K * n) * (m * q)
  OBVIOUS
<1>10. /\ n * (x * t) \in Int /\ y * t \in Int /\ t * z \in Int /\ t * z = z * t
       /\ n * (K * (m * v)) \in Int /\ (K * n) * (m * q) \in Int
  OBVIOUS
<1>11. z * t <= (K * n) * (m * (v + q))
  BY <1>5, <1>6, <1>7, <1>8, <1>9, <1>10
<1> QED BY <1>1, <1>2, <1>3, <1>11

(* portfolio.apply keeps the books. *)
LEMMA BooksStep ==
  ASSUME NEW ca, NEW po, NEW av, NEW re, NEW ne, NEW vo, BooksOf(ca, po, av, re, ne, vo),
         NEW sym \in Symbols, NEW d \in {1, -1}, NEW q \in Nat \ {0}, NEW p \in Prices, p > 0,
         NEW aft, aft = After(po[sym], av[sym], d, q, p),
         NEW bk, bk = Booked(po[sym], av[sym], d, q, p)
  PROVE  BooksOf(ca - d * q * p, [po EXCEPT ![sym] = aft[1]], [av EXCEPT ![sym] = aft[2]],
                 Plus(re, bk), [ne EXCEPT ![sym] = @ + d * q], [vo EXCEPT ![sym] = @ + q])
<1>0. /\ ca \in Int /\ po \in [Symbols -> Int] /\ ne \in [Symbols -> Int] /\ vo \in [Symbols -> Nat]
      /\ \A s \in Symbols : Abs(po[s] - ne[s]) * TolInv <= vo[s]
  BY DEF BooksOf, BookTypes
<1>00. PICK S : av \in [Symbols -> S]
  BY DEF BooksOf, BookTypes
<1>1. PICK K, rho, alpha : Ledger(K, rho, alpha, ca, po, av, re, vo)
  BY DEF BooksOf
<1>2. /\ K \in Nat \ {0} /\ rho \in Int /\ alpha \in [Symbols -> Int] /\ Worth(re, rho, K)
      /\ \A s \in Symbols : Worth(av[s], alpha[s], K) /\ Fits(po[s], av[s], alpha[s], K)
      /\ Abs(MadeUp(K, rho, alpha, ca, po)) * TolInv <= K * (Max(Prices) * Total(vo))
  BY <1>1 DEF Ledger
<1>3. p \in Int
  BY OrderConstants
<1>4. PICK h \in Int, a \in Int : h = po[sym] /\ a = alpha[sym]
  BY <1>0, <1>2
<1>5. PICK c : c = av[sym]
  OBVIOUS
<1>6. FillOn(h, c, a, K, d, q, p)
  BY <1>2, <1>4, <1>5 DEF FillOn
<1>7. PICK n, a2, b, e : StepOK(h, a, d, q, p, K, aft[1], aft[2], bk, n, a2, b, e)
  <2>1. StepExists(h, c, a, K, d, q, p)
    BY <1>6, ApplyStep
  <2> QED BY <1>4, <1>5, <2>1 DEF StepExists
<1>8. PICK h2, c2 : h2 = aft[1] /\ c2 = aft[2]
  OBVIOUS
<1>9. /\ n \in Nat \ {0} /\ a2 \in Int /\ b \in Int /\ e \in Int /\ h2 \in Int
      /\ Worth(c2, a2, K * n) /\ Worth(bk, b, K * n) /\ Fits(h2, c2, a2, K * n)
      /\ b - (a2 * h2 - n * (a * h)) + (K * n) * (d * q * p) = e
      /\ Abs(e) * TolInv <= (K * n) * (Max(Prices) * q)
      /\ Abs(h2 - (h + d * q)) * TolInv <= q
  BY <1>7, <1>8 DEF StepOK
<1>10. PICK po2, av2, ne2, vo2, beta :
         /\ po2 = [po EXCEPT ![sym] = h2] /\ av2 = [av EXCEPT ![sym] = c2]
         /\ ne2 = [ne EXCEPT ![sym] = @ + d * q] /\ vo2 = [vo EXCEPT ![sym] = @ + q]
         /\ beta = [s \in Symbols |-> IF s = sym THEN a2 ELSE n * alpha[s]]
  OBVIOUS
<1>11. PICK v \in Int : v = d * q * p
  BY <1>3
<1>12. PICK L \in Nat \ {0} : L = K * n
  <2>1. K * 1 <= K * n
    BY <1>2, <1>9, ScaleUp
  <2> QED BY <1>2, <1>9, <2>1
<1>13. PICK ca2 \in Int : ca2 = ca - d * q * p
  BY <1>0, <1>11
<1>14. BookTypes(ca2, po2, av2, ne2, vo2)
  <2>1. d * q \in Int
    OBVIOUS
  <2>2. /\ po2 \in [Symbols -> Int] /\ ne2 \in [Symbols -> Int] /\ vo2 \in [Symbols -> Nat]
    BY <1>0, <1>9, <1>10, <2>1
  <2>3. av2 \in [Symbols -> S \cup {c2}]
    BY <1>00, <1>10
  <2>4. ASSUME NEW s \in Symbols PROVE Abs(po2[s] - ne2[s]) * TolInv <= vo2[s]
    <3>1. CASE s # sym
      BY <1>0, <1>10, <3>1
    <3>2. CASE s = sym
      <4>1. PICK y \in Int, w \in Nat : y = ne[sym] /\ w = vo[sym]
        BY <1>0
      <4>2. po2[s] = h2 /\ ne2[s] = y + d * q /\ vo2[s] = w + q
        BY <1>0, <1>10, <3>2, <4>1
      <4>3. PICK t \in Nat : t = TolInv
        BY OrderConstants
      <4>4. Abs(h - y) * t <= w
        BY <1>0, <1>4, <4>1, <4>3
      <4>5. PICK x1 \in Int, x2 \in Int : x1 = h - y /\ x2 = h2 - (h + d * q)
        BY <1>9, <2>1
      <4>6. x1 + x2 = h2 - (y + d * q)
        BY <1>9, <2>1, <4>5
      <4>7. PICK z1 \in Nat, z2 \in Nat, z \in Nat : z1 = Abs(x1) /\ z2 = Abs(x2) /\ z = Abs(x1 + x2)
        BY AbsIs
      <4>8. z <= z1 + z2
        BY <4>7, AbsSum
      <4>9. t * z <= t * (z1 + z2)
        BY <4>8, ScaleUp
      <4>10. z1 * t <= w /\ z2 * t <= q
        BY <1>9, <4>3, <4>4, <4>5, <4>7
      <4>11. t * (z1 + z2) = z1 * t + z2 * t /\ t * z = z * t
        OBVIOUS
      <4>12. z * t <= w + q
        BY <4>9, <4>10, <4>11
      <4> QED BY <4>2, <4>3, <4>6, <4>7, <4>12
    <3> QED BY <3>1, <3>2
  <2> QED BY <2>2, <2>3, <2>4 DEF BookTypes
<1>15. Refilled(beta, po2, alpha, po, sym, n, a2, h2)
  <2>1. n \in Nat /\ a2 \in Int /\ h2 \in Int
    BY <1>9
  <2>2. ASSUME NEW s \in Symbols PROVE n * alpha[s] \in Int
    <3>1. alpha[s] \in Int
      BY <1>2
    <3> QED BY <2>1, <3>1
  <2>3. beta \in [Symbols -> Int] /\ po2 \in [Symbols -> Int]
    BY <1>0, <1>10, <2>1, <2>2
  <2>4. beta[sym] = a2 /\ po2[sym] = h2
    BY <1>0, <1>10
  <2>5. \A s \in Symbols : s # sym => beta[s] = n * alpha[s] /\ po2[s] = po[s]
    BY <1>0, <1>10
  <2> QED BY <1>0, <1>2, <2>1, <2>3, <2>4, <2>5 DEF Refilled
<1>16. PICK rho2 \in Int : rho2 = n * rho + b
  BY <1>2, <1>9
<1>17. Worth(Plus(re, bk), rho2, L)
  <2>1. Worth(re, rho * n, K * n)
    BY <1>2, <1>9, FinerWorth
  <2>2. rho * n \in Int /\ rho * n = n * rho
    BY <1>2, <1>9
  <2>3. Worth(Plus(re, bk), rho * n + b, L)
    BY <1>9, <1>12, <2>1, <2>2, PlusWorth
  <2> QED BY <1>16, <2>2, <2>3
<1>18. ASSUME NEW s \in Symbols
       PROVE  Worth(av2[s], beta[s], L) /\ Fits(po2[s], av2[s], beta[s], L)
  <2>1. CASE s = sym
    <3>1. av2[s] = c2 /\ beta[s] = a2 /\ po2[s] = h2
      BY <1>0, <1>00, <1>10, <2>1
    <3> QED BY <1>9, <1>12, <3>1
  <2>2. CASE s # sym
    <3>1. PICK x \in Int, y \in Int : x = alpha[s] /\ y = po[s]
      BY <1>0, <1>2
    <3>2. av2[s] = av[s] /\ beta[s] = n * x /\ po2[s] = y
      BY <1>0, <1>00, <1>10, <2>2, <3>1
    <3>3. x * n = n * x /\ x * n \in Int
      BY <1>9
    <3>4. Worth(av[s], x, K) /\ Fits(y, av[s], x, K)
      BY <1>2, <3>1
    <3>5. Worth(av[s], x * n, K * n)
      BY <1>2, <1>9, <3>4, FinerWorth
    <3>6. Fits(y, av[s], x * n, K * n)
      <4>1. CASE y = 0
        BY <3>4, <4>1 DEF Fits
      <4>2. CASE y # 0
        <5>1. PICK lo \in Prices : 0 < lo /\ lo * K <= x
          BY <3>4, <4>2 DEF Fits
        <5>2. PICK hi \in Prices : x <= hi * K
          BY <3>4, <4>2 DEF Fits
        <5>3. lo \in Int /\ hi \in Int
          BY OrderConstants
        <5>4. lo * K \in Int /\ hi * K \in Int
          BY <1>2, <5>3
        <5>5. n * (lo * K) <= n * x
          BY <1>9, <5>1, <5>4, ScaleUp
        <5>6. n * x <= n * (hi * K)
          BY <1>9, <5>2, <5>4, ScaleUp
        <5>7. n * (lo * K) = lo * (K * n) /\ n * (hi * K) = hi * (K * n)
          BY <1>2, <1>9, <5>3
        <5>8. lo * (K * n) <= x * n
          BY <3>3, <5>5, <5>7
        <5>9. x * n <= hi * (K * n)
          BY <3>3, <5>6, <5>7
        <5> QED BY <4>2, <5>1, <5>8, <5>9 DEF Fits
      <4> QED BY <4>1, <4>2
    <3> QED BY <1>12, <3>2, <3>3, <3>5, <3>6
  <2> QED BY <2>1, <2>2
<1>19. PICK T \in Int : T = Total(CostOf(alpha, po))
  BY <1>0, <1>2, CostType
<1>20. PICK x \in Int : x = a2 * h2 - n * (a * h)
  BY <1>9
<1>21. PICK u \in Int : u = ca - InitialCash
  BY <1>0, PortfolioConstants
<1>22. PICK g \in Int : g = MadeUp(K, rho, alpha, ca, po) /\ g = rho - T - K * u
  BY <1>2, <1>19, <1>21 DEF MadeUp
<1>23. MadeUp(L, rho2, beta, ca2, po2) = n * g + e
  <2>1. Total(CostOf(beta, po2)) = n * T + x
    BY <1>4, <1>15, <1>19, <1>20, CostStep
  <2>2. ca2 - InitialCash = u - v
    BY <1>0, <1>11, <1>13, <1>21, PortfolioConstants
  <2>3. MadeUp(L, rho2, beta, ca2, po2) = (n * rho + b) - (n * T + x) - (K * n) * (u - v)
    BY <1>12, <1>16, <2>1, <2>2 DEF MadeUp
  <2>4. b - x + (K * n) * v = e
    BY <1>9, <1>11, <1>20
  <2>5. (n * rho + b) - (n * T + x) - (K * n) * (u - v) = n * (rho - T - K * u) + e
    BY <1>2, <1>9, <2>4, MadeUpStep
  <2> QED BY <1>22, <2>3, <2>5
<1>24. PICK w \in Nat : w = Total(vo)
  BY <1>0, TotalNat
<1>25. Total(vo2) = w + q
  <2>1. vo \in [Symbols -> Int] /\ vo2 \in [Symbols -> Int] /\ vo2[sym] = vo[sym] + q
        /\ \A s \in Symbols : s # sym => vo2[s] = vo[s]
    BY <1>0, <1>10
  <2> QED BY <1>24, <2>1, TotalMore
<1>26. Abs(n * g + e) * TolInv <= (K * n) * (Max(Prices) * (w + q))
  BY <1>2, <1>9, <1>22, <1>24, DustSums
<1>27. Ledger(L, rho2, beta, ca2, po2, av2, Plus(re, bk), vo2)
  BY <1>12, <1>15, <1>17, <1>18, <1>23, <1>25, <1>26 DEF Ledger, Refilled
<1>28. BooksOf(ca2, po2, av2, Plus(re, bk), ne2, vo2)
  BY <1>14, <1>27 DEF BooksOf
<1> QED BY <1>8, <1>10, <1>13, <1>28

BooksInv == BooksOf(cash, pos, avgCost, realized, net, volume)

(* The portfolio starts with balanced books. *)
LEMMA BooksStart ==
  PortfolioInit => BooksInv
<1> SUFFICES ASSUME PortfolioInit PROVE BooksInv
  OBVIOUS
<1>0. /\ cash = InitialCash /\ realized = Whole(0) /\ InitialCash \in Int
      /\ pos = [s \in Symbols |-> 0] /\ avgCost = [s \in Symbols |-> Whole(0)]
      /\ net = [s \in Symbols |-> 0] /\ volume = [s \in Symbols |-> 0]
  BY PortfolioConstants DEF PortfolioInit
<1>1. PICK z \in [Symbols -> Int] : z = [s \in Symbols |-> 0]
  <2>1. [s \in Symbols |-> 0] \in [Symbols -> Int]
    OBVIOUS
  <2> QED BY <2>1, Zenon
<1>2. PICK t \in Nat : t = TolInv
  BY OrderConstants
<1>3. Total(CostOf(z, z)) = 0
  <2>1. PICK f \in [Symbols -> Int] : f = CostOf(z, z)
    BY CostType
  <2>2. \A s \in Symbols : f[s] = 0
    BY <1>1, <2>1, CostType
  <2>3. Combines(f, 0, f, 0, f, Symbols)
    <3>1. \A s \in Symbols : f[s] = 0 * f[s] + 0 * f[s]
      BY <2>2
    <3>2. 0 \in Int
      OBVIOUS
    <3> QED BY <2>1, <3>1, <3>2, Zenon DEF Combines
  <2>4. Total(f) = 0 * Total(f) + 0 * Total(f)
    BY <2>3, TotalLinear
  <2>5. Total(f) \in Int
    BY <2>1, CostType
  <2> QED BY <2>1, <2>4, <2>5
<1>4. BookTypes(cash, pos, avgCost, net, volume)
  <2>1. avgCost \in [Symbols -> {Whole(0)}]
    BY <1>0
  <2>2. Abs(0 - 0) * TolInv <= 0
    BY <1>2 DEF Abs
  <2>3. \A s \in Symbols : Abs(pos[s] - net[s]) * TolInv <= volume[s]
    BY <1>0, <2>2
  <2>4. cash \in Int /\ pos \in [Symbols -> Int] /\ net \in [Symbols -> Int] /\ volume \in [Symbols -> Nat]
    BY <1>0
  <2> QED BY <2>1, <2>3, <2>4 DEF BookTypes
<1>5. Ledger(1, 0, z, cash, pos, avgCost, realized, volume)
  <2>1. Worth(Whole(0), 0, 1)
    BY DEF Worth, Whole
  <2>2. \A s \in Symbols : Worth(avgCost[s], z[s], 1) /\ Fits(pos[s], avgCost[s], z[s], 1)
    BY <1>0, <1>1, <2>1 DEF Fits
  <2>3. MadeUp(1, 0, z, cash, pos) = 0
    <3>1. pos = z
      BY <1>0, <1>1
    <3> QED BY <1>0, <1>3, <3>1 DEF MadeUp
  <2>4. Abs(0) * TolInv <= 1 * (Max(Prices) * Total(volume))
    <3>1. Total(volume) = 0
      <4>1. CostOf(z, z) = volume
        <5>1. \A s \in Symbols : z[s] * z[s] = 0
          BY <1>1
        <5> QED BY <1>0, <5>1 DEF CostOf
      <4> QED BY <1>3, <4>1
    <3>2. PICK m \in Int : m = Max(Prices)
      BY MaxPriceIs
    <3>3. m * 0 = 0 /\ 0 * t = 0 /\ Abs(0) = 0
      BY DEF Abs
    <3> QED BY <1>2, <3>1, <3>2, <3>3
  <2> QED BY <1>0, <1>1, <2>1, <2>2, <2>3, <2>4 DEF Ledger
<1> QED BY <1>4, <1>5 DEF BooksInv, BooksOf

(* A gap of g / K is within dust exactly when g is. *)
LEMMA GapBound ==
  ASSUME NEW x, NEW g \in Int, NEW K \in Nat \ {0}, Worth(x, g, K), NEW w \in Int,
         Abs(g) * TolInv <= K * w
  PROVE  Abs(x[1]) * TolInv <= w * x[2]
<1>1. PICK a \in Int, b \in Nat \ {0} : a = x[1] /\ b = x[2] /\ a * K = g * b
  BY DEF Worth
<1>2. PICK t \in Nat : t = TolInv
  BY OrderConstants
<1>3. PICK y \in Nat, z \in Nat : y = Abs(a) /\ z = Abs(g)
  BY AbsIs
<1>4. K * y = b * z
  <2>1. Abs(K * a) = K * y /\ Abs(b * g) = b * z
    BY <1>3, AbsScale
  <2>2. K * a = b * g
    BY <1>1
  <2> QED BY <2>1, <2>2
<1>5. b * (z * t) <= b * (K * w)
  BY <1>2, <1>3, ScaleUp
<1>6. b * (z * t) = K * (y * t)
  <2>1. b * (z * t) = (b * z) * t /\ K * (y * t) = (K * y) * t
    OBVIOUS
  <2> QED BY <1>4, <2>1
<1>7. b * (K * w) = K * (w * b)
  OBVIOUS
<1>8. y * t \in Int /\ w * b \in Int
  OBVIOUS
<1>9. y * t <= w * b
  BY <1>5, <1>6, <1>7, <1>8, ScaleDown
<1> QED BY <1>1, <1>2, <1>3, <1>9

LEMMA BooksImplied ==
  BooksInv => BooksBalance
<1> SUFFICES ASSUME BooksInv PROVE BooksBalance
  OBVIOUS
<1>0. /\ cash \in Int /\ pos \in [Symbols -> Int] /\ net \in [Symbols -> Int]
      /\ volume \in [Symbols -> Nat]
      /\ \A s \in Symbols : Abs(pos[s] - net[s]) * TolInv <= volume[s]
  BY DEF BooksInv, BooksOf, BookTypes
<1>1. PICK K, rho, alpha : Ledger(K, rho, alpha, cash, pos, avgCost, realized, volume)
  BY DEF BooksInv, BooksOf
<1>2. /\ K \in Nat \ {0} /\ rho \in Int /\ alpha \in [Symbols -> Int] /\ Worth(realized, rho, K)
      /\ \A s \in Symbols : Worth(avgCost[s], alpha[s], K) /\ Fits(pos[s], avgCost[s], alpha[s], K)
      /\ Abs(MadeUp(K, rho, alpha, cash, pos)) * TolInv <= K * (Max(Prices) * Total(volume))
  BY <1>1 DEF Ledger
<1>3. PortfolioTypeOK
  <2>1. \A s \in Symbols : avgCost[s][1] \in Int /\ avgCost[s][2] \in Nat \ {0}
    BY <1>2 DEF Worth
  <2>2. realized[1] \in Int /\ realized[2] \in Nat \ {0}
    BY <1>2 DEF Worth
  <2> QED BY <1>0, <2>1, <2>2 DEF PortfolioTypeOK
<1>4. CostFitsPosition
  <2> SUFFICES ASSUME NEW s \in Symbols
               PROVE  IF pos[s] = 0 THEN avgCost[s] = Whole(0)
                      ELSE /\ \E p \in Prices : p > 0 /\ p * avgCost[s][2] <= avgCost[s][1]
                           /\ \E p \in Prices : avgCost[s][1] <= p * avgCost[s][2]
    BY DEF CostFitsPosition
  <2>0. PICK a \in Int : a = alpha[s]
    BY <1>2
  <2>1. PICK c : c = avgCost[s]
    OBVIOUS
  <2>2. Worth(c, a, K) /\ Fits(pos[s], c, a, K)
    BY <1>2, <2>0, <2>1
  <2>3. CASE pos[s] = 0
    BY <2>1, <2>2, <2>3 DEF Fits
  <2>4. CASE pos[s] # 0
    <3>1. PICK lo \in Prices : 0 < lo /\ lo * K <= a
      BY <2>2, <2>4 DEF Fits
    <3>2. PICK hi \in Prices : a <= hi * K
      BY <2>2, <2>4 DEF Fits
    <3>3. lo \in Int /\ hi \in Int
      BY OrderConstants
    <3>4. lo * c[2] <= c[1]
      BY <1>2, <2>2, <3>1, <3>3, WorthAtLeast
    <3>5. c[1] <= hi * c[2]
      BY <1>2, <2>2, <3>2, <3>3, WorthAtLeast
    <3>6. lo > 0
      BY <3>1, <3>3
    <3> QED BY <2>1, <2>4, <3>4, <3>5, <3>6
  <2> QED BY <2>3, <2>4
<1>5. PositionIsNet
  BY <1>0 DEF PositionIsNet
<1>6. PnlIsLiquidation
  <2> SUFFICES ASSUME NEW marks \in [Symbols -> Prices], NEW worth,
                      worth = cash - InitialCash + Total([s \in Symbols |-> pos[s] * marks[s]]),
                      NEW gap, gap = Minus(TotalPnl(marks), Whole(worth))
               PROVE  Abs(gap[1]) * TolInv <= Max(Prices) * Total(volume) * gap[2]
    BY DEF PnlIsLiquidation
  <2>1. marks \in [Symbols -> Int]
    BY OrderConstants
  <2>2. PICK P : P = [s \in Symbols |-> pos[s] * marks[s]]
    OBVIOUS
  <2>3. PICK C \in [Symbols -> Int] : C = CostOf(alpha, pos) /\ \A s \in Symbols : C[s] = alpha[s] * pos[s]
    BY <1>0, <1>2, CostType
  <2>4. PICK h : h = GainOf(marks, alpha, K) /\ h = [s \in Symbols |-> (marks[s] * K - alpha[s]) * pos[s]]
    BY DEF GainOf
  <2>5. P = CostOf(pos, marks)
    BY <2>2 DEF CostOf
  <2>6. P \in [Symbols -> Int] /\ Total(P) \in Int
    BY <1>0, <2>1, <2>5, CostType
  <2>7. h \in [Symbols -> Int] /\ Worth(TotalPnl(marks), rho + Total(h), K)
    <3>1. CostsWorth(alpha, K)
      BY <1>0, <1>2 DEF CostsWorth
    <3>2. rho \in Int /\ Worth(realized, rho, K)
      BY <1>2
    <3>3. /\ GainOf(marks, alpha, K) \in [Symbols -> Int]
          /\ Worth(TotalPnl(marks), rho + Total(GainOf(marks, alpha, K)), K)
      BY <2>1, <3>1, <3>2, PnlWorth, Zenon
    <3>4. h = GainOf(marks, alpha, K)
      BY <2>4, Zenon
    <3> QED BY <3>3, <3>4, Zenon
  <2>8. ASSUME NEW s \in Symbols PROVE h[s] = K * P[s] + (-1) * C[s]
    <3>1. PICK m \in Int, x \in Int, y \in Int : m = marks[s] /\ x = alpha[s] /\ y = pos[s]
      BY <1>0, <1>2, <2>1
    <3>2. h[s] = (m * K - x) * y /\ P[s] = y * m /\ C[s] = x * y
      BY <2>2, <2>3, <2>4, <3>1
    <3>3. (m * K - x) * y = K * (y * m) + (-1) * (x * y)
      BY <1>2
    <3> QED BY <3>2, <3>3
  <2>9. Combines(h, K, P, -1, C, Symbols)
    <3>1. K \in Int /\ -1 \in Int
      BY <1>2
    <3>2. \A s \in Symbols : h[s] = K * P[s] + (-1) * C[s]
      BY <2>8
    <3> QED BY <2>3, <2>6, <2>7, <3>1, <3>2, Zenon DEF Combines
  <2>10. Total(h) = K * Total(P) + (-1) * Total(C)
    BY <2>9, TotalLinear
  <2>11. PICK T \in Int : T = Total(C)
    BY <1>0, <1>2, <2>3, CostType
  <2>12. PICK M \in Int : M = Total(P)
    BY <2>6
  <2>13. PICK u \in Int : u = cash - InitialCash
    BY <1>0, PortfolioConstants
  <2>14. worth = u + M /\ worth \in Int
    BY <2>2, <2>12, <2>13
  <2>15. PICK v \in Int : v = rho + Total(h)
    BY <1>2, <2>10, <2>11, <2>12
  <2>16. Worth(Whole(worth), worth * K, K) /\ worth * K \in Int
    <3>1. Worth(Whole(worth), worth * K, K)
      BY <1>2, <2>14, WholeWorth
    <3> QED BY <1>2, <2>14, <3>1
  <2>17. PICK g \in Int : g = v - worth * K
    BY <2>15, <2>16
  <2>18. Worth(gap, g, K)
    <3>1. Worth(TotalPnl(marks), v, K)
      BY <2>7, <2>15
    <3>2. Worth(Minus(TotalPnl(marks), Whole(worth)), v - worth * K, K)
      BY <1>2, <2>16, <3>1, MinusWorth
    <3> QED BY <2>17, <3>2
  <2>19. g = MadeUp(K, rho, alpha, cash, pos)
    <3>1. (rho + (K * M + (-1) * T)) - (u + M) * K = rho - T - K * u
      BY <1>2
    <3>2. g = (rho + (K * M + (-1) * T)) - (u + M) * K
      BY <2>10, <2>11, <2>12, <2>14, <2>15, <2>17
    <3>3. MadeUp(K, rho, alpha, cash, pos) = rho - T - K * u
      BY <2>3, <2>11, <2>13 DEF MadeUp
    <3> QED BY <3>1, <3>2, <3>3
  <2>20. PICK w \in Int : w = Max(Prices) * Total(volume)
    <3>1. Total(volume) \in Nat
      BY <1>0, TotalNat
    <3>2. Max(Prices) \in Int
      BY MaxPriceIs
    <3> QED BY <3>1, <3>2
  <2>21. Abs(g) * TolInv <= K * w
    BY <1>2, <2>19, <2>20
  <2>22. Abs(gap[1]) * TolInv <= w * gap[2]
    BY <1>2, <2>18, <2>21, GapBound
  <2> QED BY <2>20, <2>22
<1> QED BY <1>3, <1>4, <1>5, <1>6 DEF BooksBalance

(* One fill of on_candle reaches the portfolio. *)
LEMMA BooksApply ==
  PInv /\ BooksInv /\ ApplyFill => BooksInv'
<1> SUFFICES ASSUME PInv, BooksInv, ApplyFill PROVE BooksInv'
  OBVIOUS
<1>1. PICK f : f = Head(toApply)
  OBVIOUS
<1>2. f \in Ev /\ Tradable(f, candle.bar)
  <2>1. /\ toApply \in Seq(Ev) /\ toApply # <<>>
        /\ \A i \in 1 .. Len(toApply) : Tradable(toApply[i], candle.bar)
    BY DEF PInv, ToApplyInv, ApplyFill
  <2>2. 1 \in 1 .. Len(toApply) /\ f = toApply[1] /\ f \in Ev
    BY <1>1, <2>1
  <2> QED BY <2>1, <2>2
<1>3. PICK sym, side, q, p : sym = f.sym /\ side = f.side /\ q = f.qty /\ p = f.price
  OBVIOUS
<1>4. /\ sym \in Symbols /\ side \in Sides /\ q \in Nat \ {0} /\ p \in Prices /\ p > 0
  BY <1>2, <1>3 DEF Ev, Tradable
<1>5. PICK d : d = Sign(side)
  OBVIOUS
<1>6. d \in {1, -1}
  BY <1>5 DEF Sign
<1>7. PICK aft : aft = After(pos[sym], avgCost[sym], d, q, p)
  OBVIOUS
<1>8. PICK bk : bk = Booked(pos[sym], avgCost[sym], d, q, p)
  OBVIOUS
<1>9. /\ pos' = [pos EXCEPT ![sym] = aft[1]] /\ avgCost' = [avgCost EXCEPT ![sym] = aft[2]]
      /\ realized' = Plus(realized, bk) /\ cash' = cash - d * q * p
      /\ net' = [net EXCEPT ![sym] = @ + d * q] /\ volume' = [volume EXCEPT ![sym] = @ + q]
  <2>1. Apply(sym, side, q, p)
    BY <1>1, <1>3 DEF ApplyFill
  <2> QED BY <1>5, <1>7, <1>8, <2>1 DEF Apply, After, Moved
<1>10. BooksOf(cash - d * q * p, [pos EXCEPT ![sym] = aft[1]], [avgCost EXCEPT ![sym] = aft[2]],
               Plus(realized, bk), [net EXCEPT ![sym] = @ + d * q], [volume EXCEPT ![sym] = @ + q])
  <2>1. BooksOf(cash, pos, avgCost, realized, net, volume)
    BY DEF BooksInv
  <2> QED BY <1>4, <1>6, <1>7, <1>8, <2>1, BooksStep
<1> QED BY <1>9, <1>10 DEF BooksInv

LEMMA BooksKept ==
  PInv /\ BooksInv /\ [EngineNext]_paperVars => BooksInv'
<1> SUFFICES ASSUME PInv, BooksInv, [EngineNext]_paperVars PROVE BooksInv'
  OBVIOUS
<1>1. ASSUME UNCHANGED portfolioVars PROVE BooksInv'
  <2>1. /\ cash' = cash /\ pos' = pos /\ avgCost' = avgCost /\ realized' = realized
        /\ net' = net /\ volume' = volume
    BY <1>1 DEF portfolioVars
  <2> QED BY <2>1 DEF BooksInv
<1>2. ASSUME NEW sym \in Symbols, NEW o \in NewOrders, EngineSubmit(sym, o) PROVE BooksInv'
  BY <1>1, <1>2 DEF EngineSubmit, portfolioVars
<1>3. ASSUME NEW o \in NewOrders, EngineSubmitInvalid(o) PROVE BooksInv'
  BY <1>1, <1>3 DEF EngineSubmitInvalid, portfolioVars
<1>4. ASSUME NEW sym \in Symbols, NEW c \in Candles, OnCandle(sym, c) PROVE BooksInv'
  BY <1>1, <1>4 DEF OnCandle, portfolioVars
<1>5. CASE ApplyFill
  BY <1>5, BooksApply
<1>6. CASE UNCHANGED paperVars
  BY <1>1, <1>6 DEF paperVars, portfolioVars
<1> QED BY <1>2, <1>3, <1>4, <1>5, <1>6 DEF EngineNext

(* Whatever was filled, for any prices, quantities, tolerance and number   *)
(* of orders and candles: an open position costs a price between those     *)
(* traded and a flat one nothing, the position is the net of the fills,    *)
(* and at any marks total_pnl is what liquidating would have earned, all   *)
(* but for dust of the volume (Portfolio::apply and total_pnl).            *)
THEOREM BooksSafe == EngineSpec => []BooksBalance
<1>1. EngineInit => BooksInv
  BY BooksStart DEF EngineInit
<1>2. PInv /\ BooksInv /\ [EngineNext]_paperVars => BooksInv'
  BY BooksKept
<1>3. BooksInv => BooksBalance
  BY BooksImplied
<1> QED BY <1>1, <1>2, <1>3, EngineInvariant, PTL DEF EngineSpec
=============================================================================
