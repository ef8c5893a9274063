------------------------------- MODULE Orders -------------------------------
(***************************************************************************)
(* The orders of src/matching/order.rs and validate_order of book.rs,      *)
(* shared by the order book, the portfolio and the paper engine.           *)
(*                                                                         *)
(* Prices are integers in quarter ticks of the fixed-point key of the      *)
(* book, so that the rounding of try_price_key shows; quantities are       *)
(* integers, and a remainder is dust when it is at most one part in TolInv *)
(* of the order (1e9 in the code).  NaN and the infinities fall under the  *)
(* prices and quantities that are not valid.                               *)
(***************************************************************************)
EXTENDS Integers

CONSTANTS Prices,     \* prices submitted, in quarter ticks
          MaxPrice,   \* MAX_PRICE, in quarter ticks
          Quantities, \* quantities submitted
          TolInv      \* 1 / QTY_REL_TOL

ASSUME OrderConstants ==
  /\ Prices \subseteq Int /\ Quantities \subseteq Int
  /\ MaxPrice \in Nat /\ TolInv \in Nat \ {0, 1}

Sides == {"Buy", "Sell"}
Kinds == {"Limit", "Market", "Ioc", "Fok"}
None  == <<>>

(* qty_is_zero. *)
QtyIsZero(left, qty) == left * TolInv <= qty

ValidPrice(p) == p > 0 /\ p <= MaxPrice
Valid(o)      == o.qty > 0 /\ (o.kind # "Market" => ValidPrice(o.price))

(* Order::limit, market, ioc and fok. *)
NewOrders ==
  {[side |-> s, kind |-> k, price |-> p, qty |-> q] :
     s \in Sides, k \in Kinds \ {"Market"}, p \in Prices, q \in Quantities}
  \cup {[side |-> s, kind |-> "Market", price |-> 0, qty |-> q] :
          s \in Sides, q \in Quantities}
=============================================================================
