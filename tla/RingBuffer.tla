----------------------------- MODULE RingBuffer -----------------------------
(***************************************************************************)
(* The candle ring of src/ring_buffer.rs as it lies in memory: a circular  *)
(* array with a write position, and queries that map logical positions     *)
(* (0 = oldest) to physical ones, bisect on timestamps and copy at most    *)
(* two chunks.  CandleStore models the same ring by its logical contents.  *)
(***************************************************************************)
EXTENDS Sequences, Bisection

CONSTANTS Times,     \* timestamps the caller pushes
          Capacity,  \* buf.len()
          NoTime,    \* last_ts = None
          MaxPushes  \* bound: pushes in a behaviour

ASSUME BufferConstants ==
  /\ Times \subseteq Nat
  /\ Capacity \in Nat \ {0}
  /\ NoTime \notin Times
  /\ MaxPushes \in Nat

Blank   == [ts |-> 0, id |-> 0]   \* the zeroed candle of RingBuffer::new
Candle  == [ts : Nat, id : Nat]   \* id tells candles of equal ts apart

VARIABLES buf, head, len, lastTs, \* the fields
          outOfOrder,             \* pushes that returned OutOfOrder
          hist                    \* history: everything pushed, in order

vars == <<buf, head, len, lastTs, outOfOrder, hist>>

Init ==
  /\ buf = [i \in 0 .. (Capacity - 1) |-> Blank]
  /\ head = 0 /\ len = 0 /\ lastTs = NoTime
  /\ outOfOrder = 0 /\ hist = <<>>

Grown(n)      == IF n < Capacity THEN n + 1 ELSE n
Backwards(t)  == lastTs # NoTime /\ t < lastTs

Push(t) ==
  LET c == [ts |-> t, id |-> Len(hist) + 1]
  IN  /\ Len(hist) < MaxPushes
      /\ outOfOrder' = IF Backwards(t) THEN outOfOrder + 1 ELSE outOfOrder
      /\ buf' = [buf EXCEPT ![head] = c]
      /\ head' = (head + 1) % Capacity
      /\ len' = Grown(len)
      /\ lastTs' = t
      /\ hist' = Append(hist, c)

Done == Len(hist) = MaxPushes /\ UNCHANGED vars
Next == (\E t \in Times : Push(t)) \/ Done
Spec == Init /\ [][Next]_vars

-----------------------------------------------------------------------------
(* Mutation: an unfilled ring is read from head, too. *)
PhysicalFromHead(i) == (head + i) % Capacity
Physical(i) ==
  LET raw == (IF len < Capacity THEN 0 ELSE head) + i
  IN  IF raw >= Capacity THEN raw - Capacity ELSE raw

TsAt(i) == buf[Physical(i)].ts

Below(threshold)   == {i \in 0 .. (len - 1) : TsAt(i) < threshold}
BelowEq(threshold) == {i \in 0 .. (len - 1) : TsAt(i) <= threshold}

LowerBound(threshold)  == Bisect(Below(threshold), len)
UpperStrict(threshold) == Bisect(Below(threshold), len)        \* mutation
UpperBound(threshold)  == Bisect(BelowEq(threshold), len)

(* buf[from .. to) as a sequence. *)
Chunk(from, to) == [i \in 1 .. (to - from) |-> buf[from + i - 1]]

(* One chunk, or two when the range wraps. *)
CopyRange(lo, hi) ==
  LET start == Physical(lo)
      count == hi - lo
  IN  IF lo = hi THEN <<>>
      ELSE IF start + count <= Capacity THEN Chunk(start, start + count)
      ELSE Chunk(start, Capacity) \o Chunk(0, count - (Capacity - start))

ToVec == CopyRange(0, len)

RangeQuery(from, to) ==
  IF len = 0 \/ from > to THEN <<>> ELSE CopyRange(LowerBound(from), UpperBound(to))

LastN(n) ==
  LET take == IF n < len THEN n ELSE len
  IN  IF take = 0 THEN <<>> ELSE CopyRange(len - take, len)

-----------------------------------------------------------------------------
(* The type of every field; the array keeps its size.                      *)
TypeOK ==
  /\ buf \in [0 .. (Capacity - 1) -> Candle]
  /\ head \in 0 .. (Capacity - 1)
  /\ len \in 0 .. Capacity
  /\ lastTs \in Nat \cup {NoTime}
  /\ outOfOrder \in Nat
  /\ hist \in Seq(Candle)

(* Logical position i is the i-th of the last len candles pushed, through  *)
(* fill, wrap and overwrite.                                               *)
HoldsNewest ==
  /\ len = IF Len(hist) < Capacity THEN Len(hist) ELSE Capacity
  /\ \A i \in 0 .. (len - 1) : buf[Physical(i)] = hist[Len(hist) - len + 1 + i]

(* Reference: the last n candles pushed. *)
Newest(n) == SubSeq(hist, Len(hist) - n + 1, Len(hist))

(* The two-chunk copies of to_vec and last_n return the newest candles.    *)
CopiesNewest ==
  /\ ToVec = Newest(len)
  /\ \A n \in 0 .. (Capacity + 1) : LastN(n) = Newest(IF n < len THEN n ELSE len)

(* On timestamps in order, range returns exactly the candles in the window *)
(* that the ring still holds, duplicates and boundaries included.          *)
InWindow(from, to) ==
  LET all == Newest(len)
      in  == {n \in 1 .. len : from <= all[n].ts /\ all[n].ts <= to}
      found[n \in 0 .. len] ==
        IF n = 0 THEN <<>>
        ELSE IF n \in in THEN Append(found[n - 1], all[n]) ELSE found[n - 1]
  IN  found[len]
Sorted == \A i \in 1 .. (Len(hist) - 1) : hist[i].ts <= hist[i + 1].ts
RangeExact ==
  Sorted => \A from, to \in Times : RangeQuery(from, to) = InWindow(from, to)

(* Out of order, range may miss candles or return ones outside its window, *)
(* but the two bisections never cross, so the copy's hi - lo is no         *)
(* underflow, and what is returned is a contiguous run of the ring.        *)
BoundsNeverCross ==
  len > 0 => \A from, to \in Times : from <= to =>
    /\ LowerBound(from) <= UpperBound(to)
    /\ UpperBound(to) <= len

(* What to_vec, last_n and range return is right in every buffer.          *)
QueriesExact == CopiesNewest /\ RangeExact /\ BoundsNeverCross

(* A ring whose pushes all returned Ok is sorted: a range query may be     *)
(* trusted exactly while out_of_order_total has not moved.                 *)
InOrderIsSorted == (outOfOrder = 0) <=> Sorted

=============================================================================
