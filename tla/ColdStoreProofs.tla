-------------------------- MODULE ColdStoreProofs --------------------------
(***************************************************************************)
(* For any symbols, timestamps, ring capacity and number of candles, with  *)
(* failed spills and crashes at any moment, over a directory that other    *)
(* versions and tools have written to, for any escape_symbol: a range      *)
(* query misses no timestamp that was kept outside a ring with late        *)
(* candles; with the ring in order it is sorted and prefers the hot        *)
(* candle; it serves nothing alien; and no file is ever truncated.         *)
(***************************************************************************)
EXTENDS ColdStore, NatLemmas, SequenceTheorems, FiniteSetTheorems, TLAPS

Row == [ts : Nat, id : Int]

-----------------------------------------------------------------------------
(* The hot side: what range returns of a ring.                             *)

LEMMA RingBisect ==
  ASSUME NEW r, NEW right, NEW top
  PROVE  Ring(r)!Bisect(right, top) = Bisect(right, top)
BY DEF Ring!Bisect, Bisect, Ring!Half, Half

(* Logical position i of the ring is its i-th candle. *)
LEMMA RingPhysical ==
  ASSUME NEW r \in Seq(Row), Len(r) <= RingCapacity, NEW i \in 0 .. (Len(r) - 1)
  PROVE  Ring(r)!Physical(i) = i /\ Ring(r)!TsAt(i) = r[i + 1].ts
<1>1. Len(r) \in Nat /\ RingCapacity \in Nat \ {0}
  BY ColdConstants
<1>2. Len(r) = RingCapacity => Len(r) % RingCapacity = 0
  BY <1>1
<1>3. Ring(r)!Physical(i) = i
  BY <1>1, <1>2 DEF Ring!Physical
<1> QED BY <1>1, <1>3 DEF Ring!TsAt

(* A copy of the ring is a run of its candles. *)
LEMMA RingCopy ==
  ASSUME NEW r \in Seq(Row), Len(r) <= RingCapacity,
         NEW lo \in 0 .. Len(r), NEW hi \in 0 .. Len(r), lo <= hi
  PROVE  /\ Ring(r)!CopyRange(lo, hi) \in Seq(Row)
         /\ Len(Ring(r)!CopyRange(lo, hi)) = hi - lo
         /\ \A i \in 1 .. (hi - lo) : Ring(r)!CopyRange(lo, hi)[i] = r[lo + i]
<1>1. Len(r) \in Nat /\ RingCapacity \in Nat \ {0}
  BY ColdConstants
<1>2. CASE lo = hi
  <2>1. Ring(r)!CopyRange(lo, hi) = <<>>
    BY <1>2 DEF Ring!CopyRange
  <2> QED BY <1>1, <1>2, <2>1
<1>3. CASE lo # hi
  <2>1. Ring(r)!Physical(lo) = lo
    BY <1>1, <1>3, RingPhysical
  <2>2. lo + (hi - lo) = hi /\ hi <= RingCapacity
    BY <1>1
  <2>3. Ring(r)!CopyRange(lo, hi) = Ring(r)!Chunk(lo, hi)
    BY <1>3, <2>1, <2>2 DEF Ring!CopyRange
  <2>4. PICK q : q = [i \in 1 .. (hi - lo) |-> r[lo + i]]
    OBVIOUS
  <2>5. Ring(r)!Chunk(lo, hi) = q
    <3>1. \A i \in 1 .. (hi - lo) :
             /\ lo + i - 1 \in 0 .. (RingCapacity - 1) /\ lo + i - 1 < Len(r)
             /\ (lo + i - 1) + 1 = lo + i
      BY <1>1
    <3> QED BY <2>4, <3>1 DEF Ring!Chunk
  <2>6. q \in Seq(Row) /\ Len(q) = hi - lo
    <3>1. \A i \in 1 .. (hi - lo) : r[lo + i] \in Row
      BY <1>1
    <3>2. hi - lo \in Nat
      BY <1>1
    <3> HIDE DEF Row
    <3> QED BY <2>4, <3>1, <3>2
  <2> QED BY <2>3, <2>4, <2>5, <2>6
<1> QED BY <1>2, <1>3

(* A sequence whose neighbours are in order is in order throughout. *)
LEMMA Rises ==
  ASSUME NEW q \in Seq(Row), InOrder(q),
         NEW i \in 1 .. Len(q), NEW j \in 1 .. Len(q), i < j
  PROVE  q[i].ts <= q[j].ts
<1>1. Len(q) \in Nat /\ \A k \in 1 .. Len(q) : q[k].ts \in Nat
  <2>1. \A k \in 1 .. Len(q) : q[k] \in Row
    OBVIOUS
  <2> QED BY <2>1 DEF Row
<1>2. PICK N \in Nat : N = Len(q) - i - 1
  <2>1. Len(q) \in Nat
    OBVIOUS
  <2>2. PICK L \in Nat : L = Len(q)
    BY <2>1
  <2>3. L - i - 1 \in Nat
    BY <2>2
  <2> QED BY <2>2, <2>3
<1> DEFINE Good == {d \in 0 .. N : q[i].ts <= q[i + 1 + d].ts}
<1>3. 0 \in Good
  <2>1. i \in 1 .. (Len(q) - 1) /\ i + 1 + 0 = i + 1 /\ 0 \in 0 .. N
    BY <1>1, <1>2
  <2> QED BY <2>1 DEF InOrder
<1>4. ASSUME NEW d \in 0 .. (N - 1), d \in Good PROVE d + 1 \in Good
  <2>1. /\ i + 1 + d \in 1 .. (Len(q) - 1) /\ i + 1 + d \in 1 .. Len(q)
        /\ i + 1 + d + 1 \in 1 .. Len(q) /\ i + 1 + (d + 1) = i + 1 + d + 1 /\ d + 1 \in 0 .. N
    BY <1>1, <1>2
  <2>2. q[i + 1 + d].ts <= q[i + 1 + d + 1].ts
    BY <2>1 DEF InOrder
  <2>3. q[i].ts <= q[i + 1 + d].ts
    BY <1>4
  <2>4. q[i].ts <= q[i + 1 + (d + 1)].ts
    <3>1. PICK x \in Nat, y \in Nat, z \in Nat :
             x = q[i].ts /\ y = q[i + 1 + d].ts /\ z = q[i + 1 + d + 1].ts
      BY <1>1, <2>1
    <3>2. x <= y
      BY <2>3, <3>1
    <3>3. y <= z
      BY <2>2, <3>1
    <3>4. x <= z
      BY <3>2, <3>3
    <3> QED BY <2>1, <3>1, <3>4
  <2> QED BY <2>1, <2>4
<1>5. 0 .. N \subseteq Good
  <2> HIDE DEF Good
  <2> QED BY <1>3, <1>4, UpTo
<1>6. j - i - 1 \in 0 .. N /\ i + 1 + (j - i - 1) = j
  BY <1>1, <1>2
<1>7. q[i].ts <= q[i + 1 + (j - i - 1)].ts
  BY <1>5, <1>6
<1> QED BY <1>6, <1>7

LEMMA StrictInOrder ==
  ASSUME NEW q \in Seq(Row), Ascending(q)
  PROVE  InOrder(q)
<1>1. \A k \in 1 .. Len(q) : q[k].ts \in Nat
  <2>1. \A k \in 1 .. Len(q) : q[k] \in Row
    OBVIOUS
  <2> QED BY <2>1 DEF Row
<1>2. ASSUME NEW k \in 1 .. (Len(q) - 1) PROVE q[k].ts <= q[k + 1].ts
  <2>1. k \in 1 .. Len(q) /\ k + 1 \in 1 .. Len(q)
    OBVIOUS
  <2>2. q[k].ts < q[k + 1].ts
    BY DEF Ascending
  <2> QED BY <1>1, <2>1, <2>2
<1> QED BY <1>2 DEF InOrder

(* The two bounds of a range query: a run of the ring, and on a ring in    *)
(* order the run of the candles in range.                                  *)
LEMMA RingBounds ==
  ASSUME NEW r \in Seq(Row), Len(r) <= RingCapacity, NEW from \in Nat, NEW to \in Nat, from <= to
  PROVE  \E lo \in 0 .. Len(r), hi \in 0 .. Len(r) :
           /\ lo <= hi /\ lo = Ring(r)!LowerBound(from) /\ hi = Ring(r)!UpperBound(to)
           /\ InOrder(r) => \A i \in 1 .. Len(r) :
                                InRange(r[i], from, to) <=> lo < i /\ i <= hi
<1>1. PICK N \in Nat : N = Len(r)
  OBVIOUS
<1>0. \A k \in 1 .. N : r[k].ts \in Nat
  <2>1. \A k \in 1 .. N : r[k] \in Row
    BY <1>1
  <2> QED BY <2>1 DEF Row
<1>2. PICK below, upto : /\ below = {i \in 0 .. (N - 1) : r[i + 1].ts < from}
                         /\ upto = {i \in 0 .. (N - 1) : r[i + 1].ts <= to}
  OBVIOUS
<1>3. Ring(r)!Below(from) = below /\ Ring(r)!BelowEq(to) = upto
  <2>1. \A i \in 0 .. (N - 1) : Ring(r)!TsAt(i) = r[i + 1].ts
    BY <1>1, RingPhysical
  <2> QED BY <1>1, <1>2, <2>1 DEF Ring!Below, Ring!BelowEq
<1>4. PICK lo \in 0 .. N, hi \in 0 .. N : lo = Bisect(below, N) /\ hi = Bisect(upto, N)
  BY BisectInside
<1>5. lo = Ring(r)!LowerBound(from) /\ hi = Ring(r)!UpperBound(to)
  BY <1>1, <1>3, <1>4, RingBisect DEF Ring!LowerBound, Ring!UpperBound
<1>6. lo <= hi
  <2>1. \A i \in 0 .. (N - 1) : i + 1 \in 1 .. N
    OBVIOUS
  <2>2. below \subseteq upto
    BY <1>0, <1>2, <2>1
  <2> QED BY <1>4, <2>2, EndsInOrder
<1>7. ASSUME InOrder(r), NEW i \in 1 .. N
      PROVE  InRange(r[i], from, to) <=> lo < i /\ i <= hi
  <2>1. \A j, k \in 0 .. (N - 1) : j <= k => r[j + 1].ts <= r[k + 1].ts
    <3> SUFFICES ASSUME NEW j \in 0 .. (N - 1), NEW k \in 0 .. (N - 1), j <= k
                 PROVE  r[j + 1].ts <= r[k + 1].ts
      OBVIOUS
    <3>1. j + 1 \in 1 .. N /\ k + 1 \in 1 .. N /\ (j # k => j + 1 < k + 1)
      OBVIOUS
    <3>2. CASE j = k
      BY <1>0, <3>1, <3>2
    <3>3. CASE j # k
      <4>1. r[j + 1].ts <= r[k + 1].ts
        BY <1>1, <1>7, <3>1, <3>3, Rises
      <4> QED BY <1>0, <3>1, <4>1
    <3> QED BY <3>2, <3>3
  <2>2. \A j \in 0 .. (N - 1) : r[j + 1].ts \in Nat
    BY <1>0
  <2>3. ASSUME NEW j \in 0 .. (N - 1), NEW k \in 0 .. (N - 1), j <= k, k \in below PROVE j \in below
    <3>1. r[k + 1].ts < from /\ r[j + 1].ts <= r[k + 1].ts
      BY <1>2, <2>1, <2>3
    <3>2. r[j + 1].ts < from
      BY <2>2, <3>1
    <3> QED BY <1>2, <3>2
  <2>4. ASSUME NEW j \in 0 .. (N - 1), NEW k \in 0 .. (N - 1), j <= k, k \in upto PROVE j \in upto
    <3>1. r[k + 1].ts <= to /\ r[j + 1].ts <= r[k + 1].ts
      BY <1>2, <2>1, <2>4
    <3>2. r[j + 1].ts <= to
      BY <2>2, <3>1
    <3> QED BY <1>2, <3>2
  <2>5. below \subseteq 0 .. (N - 1) /\ upto \subseteq 0 .. (N - 1)
    BY <1>2
  <2>6. \A j \in 0 .. (N - 1) : j \in below <=> j < lo
    BY <1>4, <2>3, <2>5, EndSplits
  <2>7. \A j \in 0 .. (N - 1) : j \in upto <=> j < hi
    BY <1>4, <2>4, <2>5, EndSplits
  <2>8. i - 1 \in 0 .. (N - 1) /\ (i - 1) + 1 = i /\ (i - 1 < lo <=> ~ (lo < i)) /\ (i - 1 < hi <=> i <= hi)
    OBVIOUS
  <2>9. (r[i].ts < from <=> ~ (lo < i)) /\ (r[i].ts <= to <=> i <= hi)
    BY <1>2, <2>6, <2>7, <2>8
  <2> QED BY <1>0, <2>9 DEF InRange
<1> QED BY <1>1, <1>4, <1>5, <1>6, <1>7

(* What range returns: candles of the ring, and of a ring in order exactly *)
(* those in range, in order.                                               *)
RunOf(q, r, from, to) ==
  /\ q \in Seq(Row)
  /\ \A i \in 1 .. Len(q) : \E k \in 1 .. Len(r) : q[i] = r[k]
  /\ InOrder(r) =>
       /\ InOrder(q)
       /\ \A i \in 1 .. Len(q) : InRange(q[i], from, to)
       /\ \A k \in 1 .. Len(r) : InRange(r[k], from, to) => \E i \in 1 .. Len(q) : q[i] = r[k]

LEMMA RingRange ==
  ASSUME NEW r \in Seq(Row), Len(r) <= RingCapacity, NEW from \in Nat, NEW to \in Nat
  PROVE  RunOf(Ring(r)!RangeQuery(from, to), r, from, to)
<1>1. PICK N \in Nat : N = Len(r)
  OBVIOUS
<1>2. PICK q : q = Ring(r)!RangeQuery(from, to)
  OBVIOUS
<1>3. CASE N = 0 \/ from > to
  <2>1. q = <<>>
    BY <1>1, <1>2, <1>3 DEF Ring!RangeQuery
  <2>2. q \in Seq(Row) /\ Len(q) = 0 /\ InOrder(q)
    BY <2>1 DEF InOrder
  <2>3. \A k \in 1 .. Len(r) : ~ InRange(r[k], from, to)
    <3>1. \A k \in 1 .. N : r[k] \in Row
      BY <1>1
    <3>2. \A k \in 1 .. N : r[k].ts \in Nat
      BY <3>1 DEF Row
    <3> QED BY <1>1, <1>3, <3>2 DEF InRange
  <2> QED BY <1>2, <2>2, <2>3 DEF RunOf
<1>4. CASE ~ (N = 0 \/ from > to)
  <2>1. from <= to
    BY <1>4
  <2>2. PICK lo \in 0 .. N, hi \in 0 .. N :
           /\ lo <= hi /\ lo = Ring(r)!LowerBound(from) /\ hi = Ring(r)!UpperBound(to)
           /\ InOrder(r) => \A i \in 1 .. N : InRange(r[i], from, to) <=> lo < i /\ i <= hi
    BY <1>1, <2>1, RingBounds
  <2>3. q = Ring(r)!CopyRange(lo, hi)
    BY <1>1, <1>2, <1>4, <2>2 DEF Ring!RangeQuery
  <2>4. q \in Seq(Row) /\ Len(q) = hi - lo /\ \A i \in 1 .. (hi - lo) : q[i] = r[lo + i]
    BY <1>1, <2>2, <2>3, RingCopy
  <2>5. \A i \in 1 .. (hi - lo) : lo + i \in 1 .. N /\ lo < lo + i /\ lo + i <= hi
    BY <2>2
  <2>6. \A i \in 1 .. Len(q) : \E k \in 1 .. Len(r) : q[i] = r[k]
    BY <1>1, <2>4, <2>5
  <2>7. ASSUME InOrder(r)
        PROVE  /\ InOrder(q)
               /\ \A i \in 1 .. Len(q) : InRange(q[i], from, to)
               /\ \A k \in 1 .. Len(r) : InRange(r[k], from, to) => \E i \in 1 .. Len(q) : q[i] = r[k]
    <3>1. InOrder(q)
      <4> SUFFICES ASSUME NEW i \in 1 .. (Len(q) - 1) PROVE q[i].ts <= q[i + 1].ts
        BY DEF InOrder
      <4>1. /\ i \in 1 .. (hi - lo) /\ i + 1 \in 1 .. (hi - lo) /\ lo + i \in 1 .. (N - 1)
            /\ lo + (i + 1) = lo + i + 1
        <5>1. lo \in 0 .. N /\ hi \in 0 .. N /\ lo <= hi
          BY <2>2
        <5>2. i \in 1 .. ((hi - lo) - 1)
          BY <2>4
        <5> QED BY <5>1, <5>2
      <4>2. q[i] = r[lo + i] /\ q[i + 1] = r[lo + i + 1]
        <5>1. \A k \in 1 .. (hi - lo) : q[k] = r[lo + k]
          BY <2>4
        <5>2. q[i] = r[lo + i] /\ q[i + 1] = r[lo + (i + 1)]
          BY <4>1, <5>1, Zenon
        <5> QED BY <4>1, <5>2, Zenon
      <4> QED BY <1>1, <2>7, <4>1, <4>2 DEF InOrder
    <3>2. \A i \in 1 .. Len(q) : InRange(q[i], from, to)
      BY <2>2, <2>4, <2>5, <2>7
    <3>3. ASSUME NEW k \in 1 .. Len(r), InRange(r[k], from, to)
          PROVE  \E i \in 1 .. Len(q) : q[i] = r[k]
      <4>1. lo < k /\ k <= hi
        BY <1>1, <2>2, <2>7, <3>3
      <4>2. k - lo \in 1 .. (hi - lo) /\ lo + (k - lo) = k
        BY <1>1, <4>1
      <4> QED BY <2>4, <4>2
    <3> QED BY <3>1, <3>2, <3>3
  <2> QED BY <1>2, <2>4, <2>6, <2>7 DEF RunOf
<1> QED BY <1>3, <1>4

-----------------------------------------------------------------------------
(* merge_by_ts.                                                            *)

MergeStart == [i |-> 1, j |-> 1, out |-> <<>>]

(* The turns of its loop. *)
MergeRun(a, b) ==
  CHOOSE f : f = [n \in 0 .. (Len(a) + Len(b)) |->
                    IF n = 0 THEN [i |-> 1, j |-> 1, out |-> <<>>] ELSE MergeTurn(a, b, f[n - 1])]

LEMMA MergeRuns ==
  ASSUME NEW a \in Seq(Row), NEW b \in Seq(Row), NEW N \in Nat, N = Len(a) + Len(b)
  PROVE  /\ MergeRun(a, b)[0] = MergeStart
         /\ \A n \in 1 .. N : MergeRun(a, b)[n] = MergeTurn(a, b, MergeRun(a, b)[n - 1])
         /\ MergeByTs(a, b) = LET end == MergeRun(a, b)[N]
                              IN  end.out \o SubSeq(a, end.i, Len(a)) \o SubSeq(b, end.j, Len(b))
<1> DEFINE Start == [i |-> 1, j |-> 1, out |-> <<>>]
<1> DEFINE Step(g, i) == IF i = 0 THEN Start ELSE MergeTurn(a, b, g[i - 1])
<1> DEFINE Good == {m \in 0 .. N : \E g : g = [i \in 0 .. m |-> Step(g, i)]}
<1>1. 0 \in Good
  <2> HIDE DEF Start
  <2> DEFINE g == [i \in 0 .. 0 |-> Start]
  <2>1. g = [i \in 0 .. 0 |-> Step(g, i)]
    OBVIOUS
  <2>2. 0 \in 0 .. N
    OBVIOUS
  <2> HIDE DEF g, Step
  <2> QED BY <2>1, <2>2
<1>2. ASSUME NEW m \in 0 .. (N - 1), m \in Good PROVE m + 1 \in Good
  <2> HIDE DEF Start
  <2>1. PICK g : g = [i \in 0 .. m |-> Step(g, i)]
    BY <1>2
  <2> DEFINE h == [i \in 0 .. (m + 1) |-> IF i <= m THEN g[i] ELSE Step(g, i)]
  <2>2. \A i \in 0 .. m : h[i] = g[i]
    OBVIOUS
  <2>3. \A i \in 0 .. (m + 1) : h[i] = Step(g, i)
    <3> SUFFICES ASSUME NEW i \in 0 .. (m + 1) PROVE h[i] = Step(g, i)
      OBVIOUS
    <3>1. i \in 0 .. m => g[i] = Step(g, i)
      <4> HIDE DEF Step
      <4> QED BY <2>1
    <3> HIDE DEF Step
    <3> QED BY <3>1
  <2>4. \A i \in 0 .. (m + 1) : Step(h, i) = Step(g, i)
    <3> SUFFICES ASSUME NEW i \in 0 .. (m + 1) PROVE Step(h, i) = Step(g, i)
      OBVIOUS
    <3>1. i # 0 => i - 1 \in 0 .. m
      OBVIOUS
    <3> HIDE DEF h
    <3> QED BY <2>2, <3>1
  <2>5. h = [i \in 0 .. (m + 1) |-> Step(h, i)]
    <3>1. h = [i \in 0 .. (m + 1) |-> h[i]]
      OBVIOUS
    <3> HIDE DEF h, Step
    <3> QED BY <2>3, <2>4, <3>1
  <2>6. m + 1 \in 0 .. N
    OBVIOUS
  <2> HIDE DEF h, Step
  <2> QED BY <2>5, <2>6
<1>3. N \in Good
  <2> HIDE DEF Good, Step
  <2>1. \A m \in 0 .. (N - 1) : m \in Good => m + 1 \in Good
    BY <1>2
  <2>2. 0 .. N \subseteq Good
    BY <1>1, <2>1, UpTo
  <2> QED BY <2>2
<1>4. PICK g : g = [i \in 0 .. N |-> Step(g, i)]
  BY <1>3
<1>5. MergeRun(a, b) = [i \in 0 .. N |-> Step(MergeRun(a, b), i)]
  BY <1>4 DEF MergeRun
<1>6. \A i \in 0 .. N : MergeRun(a, b)[i] = Step(MergeRun(a, b), i)
  <2> HIDE DEF Step
  <2> QED BY <1>5
<1>7. \A i \in 1 .. N : i \in 0 .. N /\ i # 0
  OBVIOUS
<1>8. MergeRun(a, b)[0] = MergeStart
  BY <1>6 DEF MergeStart
<1>9. MergeByTs(a, b) = LET end == MergeRun(a, b)[N]
                       IN  end.out \o SubSeq(a, end.i, Len(a)) \o SubSeq(b, end.j, Len(b))
  BY DEF MergeByTs, MergeRun
<1> QED BY <1>6, <1>7, <1>8, <1>9

(* All of q comes before the i-th of a, if there is one. *)
Before(q, a, i) == i <= Len(a) => \A k \in 1 .. Len(q) : q[k].ts < a[i].ts

(* And none of it after the j-th of b. *)
NotAfter(q, b, j) == j <= Len(b) => \A k \in 1 .. Len(q) : q[k].ts <= b[j].ts

(* In order, and of a timestamp that b has only candles of b; none but     *)
(* those comes twice.                                                      *)
Of(c, b) == \E x \in 1 .. Len(b) : c = b[x]
Sorted(q, b) ==
  \A k \in 1 .. (Len(q) - 1) :
    q[k].ts < q[k + 1].ts \/ (q[k].ts = q[k + 1].ts /\ Of(q[k + 1], b))
Fresh(q, b) ==
  \A k \in 1 .. Len(q), x \in 1 .. Len(b) : q[k].ts = b[x].ts => Of(q[k], b)

(* What the loop has put out of a and b when it stands at i and j. *)
Merged(q, a, b, i, j) ==
  /\ q \in Seq(Row)
  /\ \A k \in 1 .. Len(q) : \/ \E x \in 1 .. (i - 1) : q[k] = a[x]
                            \/ \E x \in 1 .. (j - 1) : q[k] = b[x]
  /\ \A x \in 1 .. (i - 1) : \E k \in 1 .. Len(q) : q[k].ts = a[x].ts
  /\ \A x \in 1 .. (j - 1) : \E k \in 1 .. Len(q) : q[k] = b[x]
  /\ Ascending(a) /\ InOrder(b) =>
       Sorted(q, b) /\ Fresh(q, b) /\ Before(q, a, i) /\ NotAfter(q, b, j)

(* The loop puts out the next of a or of b and steps over every candle of  *)
(* its timestamp.                                                          *)
LEMMA MergedPut ==
  ASSUME NEW a \in Seq(Row), NEW b \in Seq(Row), NEW i \in 1 .. Len(a), NEW j \in 1 .. Len(b),
         NEW q, Merged(q, a, b, i, j), NEW e \in Row,
         NEW i2 \in {i, i + 1}, NEW j2 \in {j, j + 1},
         (i2 = i + 1 /\ e = a[i]) \/ (j2 = j + 1 /\ e = b[j]),
         i2 = i + 1 => e.ts = a[i].ts, j2 = j + 1 => e = b[j],
         i2 = i => e.ts < a[i].ts, j2 = j => e.ts < b[j].ts
  PROVE  Merged(Append(q, e), a, b, i2, j2)
<1>1. PICK A \in Nat, B \in Nat, N \in Nat : A = Len(a) /\ B = Len(b) /\ N = Len(q)
  BY DEF Merged
<1>2. PICK p : p = Append(q, e)
  OBVIOUS
<1>3. /\ p \in Seq(Row) /\ Len(p) = N + 1 /\ p[N + 1] = e
      /\ \A k \in 1 .. N : p[k] = q[k]
  <2>1. q \in Seq(Row)
    BY DEF Merged
  <2> HIDE DEF Row
  <2> QED BY <1>1, <1>2, <2>1
<1>4. i \in 1 .. A /\ j \in 1 .. B /\ i \in Nat /\ j \in Nat /\ i2 \in Nat /\ j2 \in Nat
  BY <1>1
<1>5. /\ \A k \in 1 .. A : a[k].ts \in Nat
      /\ \A k \in 1 .. B : b[k].ts \in Nat
      /\ \A k \in 1 .. N : q[k].ts \in Nat
      /\ e.ts \in Nat
  <2>1. /\ \A k \in 1 .. A : a[k] \in Row
        /\ \A k \in 1 .. B : b[k] \in Row
        /\ \A k \in 1 .. N : q[k] \in Row
    BY <1>1 DEF Merged
  <2> QED BY <2>1 DEF Row
<1>6. ASSUME NEW k \in 1 .. (N + 1)
      PROVE  \/ \E x \in 1 .. (i2 - 1) : p[k] = a[x]
             \/ \E x \in 1 .. (j2 - 1) : p[k] = b[x]
  <2>1. CASE k = N + 1
    <3>1. p[k] = e
      BY <1>3, <2>1
    <3>2. CASE i2 = i + 1 /\ e = a[i]
      <4>1. i \in 1 .. (i2 - 1)
        BY <1>4, <3>2
      <4> QED BY <3>1, <3>2, <4>1
    <3>3. CASE j2 = j + 1 /\ e = b[j]
      <4>1. j \in 1 .. (j2 - 1)
        BY <1>4, <3>3
      <4> QED BY <3>1, <3>3, <4>1
    <3> QED BY <3>2, <3>3
  <2>2. CASE k \in 1 .. N
    <3>1. p[k] = q[k]
      BY <1>3, <2>2
    <3>2. \/ \E x \in 1 .. (i - 1) : q[k] = a[x]
          \/ \E x \in 1 .. (j - 1) : q[k] = b[x]
      <4>1. \A l \in 1 .. Len(q) : \/ \E x \in 1 .. (i - 1) : q[l] = a[x]
                                  \/ \E x \in 1 .. (j - 1) : q[l] = b[x]
        BY DEF Merged
      <4>2. k \in 1 .. Len(q)
        BY <1>1, <2>2
      <4> QED BY <4>1, <4>2, Zenon
    <3>3. 1 .. (i - 1) \subseteq 1 .. (i2 - 1) /\ 1 .. (j - 1) \subseteq 1 .. (j2 - 1)
      BY <1>4
    <3> QED BY <3>1, <3>2, <3>3, Zenon
  <2> QED BY <2>1, <2>2
<1>7. ASSUME NEW x \in 1 .. (i2 - 1) PROVE \E k \in 1 .. (N + 1) : p[k].ts = a[x].ts
  <2>1. CASE x \in 1 .. (i - 1)
    <3>1. PICK k \in 1 .. N : q[k].ts = a[x].ts
      BY <1>1, <2>1 DEF Merged
    <3>2. p[k] = q[k] /\ k \in 1 .. (N + 1)
      BY <1>3
    <3> QED BY <3>1, <3>2
  <2>2. CASE x \notin 1 .. (i - 1)
    <3>1. x = i /\ i2 = i + 1
      BY <1>4, <2>2
    <3>2. e.ts = a[x].ts /\ N + 1 \in 1 .. (N + 1)
      BY <3>1
    <3> QED BY <1>3, <3>2
  <2> QED BY <2>1, <2>2
<1>8. ASSUME NEW x \in 1 .. (j2 - 1) PROVE \E k \in 1 .. (N + 1) : p[k] = b[x]
  <2>1. CASE x \in 1 .. (j - 1)
    <3>1. PICK k \in 1 .. N : q[k] = b[x]
      BY <1>1, <2>1 DEF Merged
    <3>2. p[k] = q[k] /\ k \in 1 .. (N + 1)
      BY <1>3
    <3> QED BY <3>1, <3>2
  <2>2. CASE x \notin 1 .. (j - 1)
    <3>1. x = j /\ j2 = j + 1
      BY <1>4, <2>2
    <3>2. e = b[x] /\ N + 1 \in 1 .. (N + 1)
      BY <3>1
    <3> QED BY <1>3, <3>2
  <2> QED BY <2>1, <2>2
<1>9. ASSUME Ascending(a), InOrder(b)
      PROVE  Sorted(p, b) /\ Fresh(p, b) /\ Before(p, a, i2) /\ NotAfter(p, b, j2)
  <2>0. PICK u \in Nat, v \in Nat, w \in Nat : u = a[i].ts /\ v = b[j].ts /\ w = e.ts
    BY <1>4, <1>5
  <2>1. /\ Sorted(q, b) /\ Fresh(q, b)
        /\ \A k \in 1 .. N : q[k].ts < u /\ q[k].ts <= v
    <3>1. i <= Len(a) /\ j <= Len(b)
      BY <1>1, <1>4
    <3>2. Sorted(q, b) /\ Fresh(q, b) /\ Before(q, a, i) /\ NotAfter(q, b, j)
      BY <1>9 DEF Merged
    <3>3. \A k \in 1 .. Len(q) : q[k].ts < a[i].ts
      BY <3>1, <3>2 DEF Before
    <3>4. \A k \in 1 .. Len(q) : q[k].ts <= b[j].ts
      BY <3>1, <3>2 DEF NotAfter
    <3> QED BY <1>1, <2>0, <3>2, <3>3, <3>4
  <2>2. w <= u /\ w <= v /\ (w = u \/ w = v)
    BY <2>0
  <2>3. Of(e, b) \/ (w = u /\ w < v)
    <3>1. j \in 1 .. Len(b)
      BY <1>1, <1>4
    <3>2. CASE j2 = j + 1
      BY <3>1, <3>2 DEF Of
    <3>3. CASE j2 = j
      <4>1. w < v
        BY <2>0, <3>3
      <4> QED BY <2>2, <4>1
    <3> QED BY <3>2, <3>3
  <2>4. Sorted(p, b)
    <3>0. 1 .. (Len(p) - 1) = 1 .. N
      BY <1>3
    <3> SUFFICES ASSUME NEW k \in 1 .. N
                 PROVE  p[k].ts < p[k + 1].ts \/ (p[k].ts = p[k + 1].ts /\ Of(p[k + 1], b))
      BY <3>0 DEF Sorted
    <3>1. CASE k = N
      <4>1. p[k] = q[k] /\ p[k + 1] = e /\ q[k].ts \in Nat
        BY <1>3, <1>5, <3>1
      <4>2. q[k].ts < u /\ q[k].ts <= v
        BY <2>1
      <4>3. q[k].ts < w \/ (q[k].ts = w /\ Of(e, b))
        BY <2>2, <2>3, <4>1, <4>2
      <4> QED BY <2>0, <4>1, <4>3
    <3>2. CASE k # N
      <4>1. k \in 1 .. (N - 1) /\ k + 1 \in 1 .. N
        BY <3>2
      <4>2. q[k].ts < q[k + 1].ts \/ (q[k].ts = q[k + 1].ts /\ Of(q[k + 1], b))
        BY <1>1, <2>1, <4>1 DEF Sorted
      <4> QED BY <1>3, <4>1, <4>2
    <3> QED BY <3>1, <3>2
  <2>5. Fresh(p, b)
    <3> SUFFICES ASSUME NEW k \in 1 .. (N + 1), NEW x \in 1 .. B, p[k].ts = b[x].ts
                 PROVE  Of(p[k], b)
      BY <1>1, <1>3 DEF Fresh
    <3>1. CASE k \in 1 .. N
      <4>1. p[k] = q[k]
        BY <1>3, <3>1
      <4> QED BY <1>1, <2>1, <3>1, <4>1 DEF Fresh
    <3>2. CASE k = N + 1
      <4>1. p[k] = e /\ b[x].ts = w
        BY <1>3, <2>0, <3>2
      <4>2. ~ (w = u /\ w < v)
        <5>1. CASE x < j
          <6>1. x \in 1 .. (j - 1)
            BY <1>4, <5>1
          <6>2. PICK l \in 1 .. N : q[l] = b[x]
            BY <1>1, <6>1 DEF Merged
          <6>3. q[l].ts < u /\ q[l].ts = w
            BY <2>1, <4>1, <6>2
          <6> QED BY <2>0, <6>3
        <5>2. CASE x = j
          BY <2>0, <4>1, <5>2
        <5>3. CASE x > j
          <6>1. x \in 1 .. Len(b) /\ j \in 1 .. Len(b)
            BY <1>1, <1>4
          <6>2. b[j].ts <= b[x].ts
            BY <1>9, <5>3, <6>1, Rises
          <6> QED BY <2>0, <4>1, <6>2
        <5> QED BY <1>4, <5>1, <5>2, <5>3
      <4> QED BY <2>3, <4>1, <4>2
    <3> QED BY <3>1, <3>2
  <2>6. \A k \in 1 .. (N + 1) : p[k].ts \in Nat /\ p[k].ts <= w
    <3> SUFFICES ASSUME NEW k \in 1 .. (N + 1) PROVE p[k].ts \in Nat /\ p[k].ts <= w
      OBVIOUS
    <3>1. CASE k = N + 1
      BY <1>3, <2>0, <3>1
    <3>2. CASE k \in 1 .. N
      <4>1. p[k] = q[k] /\ q[k].ts \in Nat
        BY <1>3, <1>5, <3>2
      <4>2. q[k].ts < u /\ q[k].ts <= v
        BY <2>1, <3>2
      <4> QED BY <2>2, <4>1, <4>2
    <3> QED BY <3>1, <3>2
  <2>7. i2 <= A => w < a[i2].ts /\ a[i2].ts \in Nat
    <3>1. CASE i2 = i
      BY <1>4, <1>5, <2>0, <3>1
    <3>2. CASE i2 = i + 1 /\ i2 <= A
      <4>1. i \in 1 .. (A - 1) /\ i + 1 \in 1 .. A
        BY <1>4, <3>2
      <4>2. a[i].ts < a[i + 1].ts
        BY <1>1, <1>9, <4>1 DEF Ascending
      <4>3. w = a[i].ts
        BY <2>0, <3>2
      <4> QED BY <1>5, <3>2, <4>1, <4>2, <4>3
    <3> QED BY <3>1, <3>2
  <2>8. j2 <= B => w <= b[j2].ts /\ b[j2].ts \in Nat
    <3>1. CASE j2 = j
      BY <1>4, <1>5, <2>0, <3>1
    <3>2. CASE j2 = j + 1 /\ j2 <= B
      <4>1. j \in 1 .. (B - 1) /\ j + 1 \in 1 .. B
        BY <1>4, <3>2
      <4>2. b[j].ts <= b[j + 1].ts
        BY <1>1, <1>9, <4>1 DEF InOrder
      <4>3. w = b[j].ts
        BY <2>0, <3>2
      <4> QED BY <1>5, <3>2, <4>1, <4>2, <4>3
    <3> QED BY <3>1, <3>2
  <2>9. Before(p, a, i2)
    <3> SUFFICES ASSUME i2 <= A, NEW k \in 1 .. (N + 1) PROVE p[k].ts < a[i2].ts
      BY <1>1, <1>3 DEF Before
    <3> QED BY <2>6, <2>7
  <2>10. NotAfter(p, b, j2)
    <3> SUFFICES ASSUME j2 <= B, NEW k \in 1 .. (N + 1) PROVE p[k].ts <= b[j2].ts
      BY <1>1, <1>3 DEF NotAfter
    <3> QED BY <2>6, <2>8
  <2> QED BY <2>4, <2>5, <2>9, <2>10
<1>10. Merged(p, a, b, i2, j2)
  <2>1. Len(p) = N + 1 /\ p \in Seq(Row) /\ Len(a) = A /\ Len(b) = B
    BY <1>1, <1>3
  <2>2. /\ \A k \in 1 .. Len(p) : \/ \E x \in 1 .. (i2 - 1) : p[k] = a[x]
                                  \/ \E x \in 1 .. (j2 - 1) : p[k] = b[x]
        /\ \A x \in 1 .. (i2 - 1) : \E k \in 1 .. Len(p) : p[k].ts = a[x].ts
        /\ \A x \in 1 .. (j2 - 1) : \E k \in 1 .. Len(p) : p[k] = b[x]
    BY <1>6, <1>7, <1>8, <2>1, Zenon
  <2>3. Ascending(a) /\ InOrder(b) =>
          Sorted(p, b) /\ Fresh(p, b) /\ Before(p, a, i2) /\ NotAfter(p, b, j2)
    BY <1>9
  <2> QED BY <2>1, <2>2, <2>3, Zenon DEF Merged
<1> QED BY <1>2, <1>10

(* The loop after n turns, or at the end of a or of b. *)
TurnInv(m, a, b, n) ==
  /\ m.i \in 1 .. (Len(a) + 1) /\ m.j \in 1 .. (Len(b) + 1)
  /\ Merged(m.out, a, b, m.i, m.j)
  /\ m.i <= Len(a) /\ m.j <= Len(b) => n <= (m.i - 1) + (m.j - 1)

LEMMA TurnMerges ==
  ASSUME NEW a \in Seq(Row), NEW b \in Seq(Row), NEW n \in Nat, NEW m, TurnInv(m, a, b, n)
  PROVE  TurnInv(MergeTurn(a, b, m), a, b, n + 1)
<1>1. PICK A \in Nat, B \in Nat : A = Len(a) /\ B = Len(b)
  OBVIOUS
<1>2. PICK i \in 1 .. (A + 1), j \in 1 .. (B + 1) : i = m.i /\ j = m.j
  BY <1>1 DEF TurnInv
<1>3. PICK q : q = m.out /\ Merged(q, a, b, i, j)
  BY <1>2 DEF TurnInv
<1>4. PICK t : t = MergeTurn(a, b, m)
  OBVIOUS
<1>5. CASE i > A \/ j > B
  <2>1. t = m
    BY <1>1, <1>2, <1>4, <1>5 DEF MergeTurn
  <2>2. ~ (i <= A /\ j <= B)
    BY <1>5
  <2> QED BY <1>1, <1>2, <1>3, <1>4, <2>1, <2>2 DEF TurnInv
<1>6. CASE i \in 1 .. A /\ j \in 1 .. B
  <2>1. a[i] \in Row /\ b[j] \in Row
    BY <1>1, <1>6
  <2>2. PICK u \in Nat, v \in Nat : u = a[i].ts /\ v = b[j].ts
    BY <2>1 DEF Row
  <2>3. n <= (i - 1) + (j - 1)
    BY <1>1, <1>2, <1>6 DEF TurnInv
  <2>4. t = IF u < v THEN [i |-> i + 1, j |-> j, out |-> Append(q, a[i])]
            ELSE IF u > v THEN [i |-> i, j |-> j + 1, out |-> Append(q, b[j])]
            ELSE [i |-> i + 1, j |-> j + 1, out |-> Append(q, b[j])]
    BY <1>1, <1>2, <1>3, <1>4, <1>6, <2>2 DEF MergeTurn
  <2>5. i # i + 1 /\ j # j + 1
    OBVIOUS
  <2>6. PICK x, y, e : /\ t.i = x /\ t.j = y /\ t.out = Append(q, e)
                       /\ \/ u < v /\ x = i + 1 /\ y = j /\ e = a[i]
                          \/ u > v /\ x = i /\ y = j + 1 /\ e = b[j]
                          \/ u = v /\ x = i + 1 /\ y = j + 1 /\ e = b[j]
    <3>1. CASE u < v
      <4>1. t.i = i + 1 /\ t.j = j /\ t.out = Append(q, a[i])
        BY <2>4, <3>1
      <4> QED BY <3>1, <4>1
    <3>2. CASE u > v
      <4>1. t.i = i /\ t.j = j + 1 /\ t.out = Append(q, b[j])
        BY <2>4, <3>2
      <4> QED BY <3>2, <4>1
    <3>3. CASE u = v
      <4>1. t.i = i + 1 /\ t.j = j + 1 /\ t.out = Append(q, b[j])
        BY <2>4, <3>3
      <4> QED BY <3>3, <4>1
    <3>4. u < v \/ u > v \/ u = v
      OBVIOUS
    <3> QED BY <3>1, <3>2, <3>3, <3>4, Zenon
  <2>7. /\ e \in Row /\ x \in {i, i + 1} /\ y \in {j, j + 1}
        /\ (x = i + 1 /\ e = a[i]) \/ (y = j + 1 /\ e = b[j])
        /\ (x = i + 1 => e.ts = a[i].ts) /\ (y = j + 1 => e = b[j])
        /\ (x = i => e.ts < a[i].ts) /\ (y = j => e.ts < b[j].ts)
    BY <2>1, <2>2, <2>5, <2>6
  <2>8. Merged(Append(q, e), a, b, x, y)
    <3>1. i \in 1 .. Len(a) /\ j \in 1 .. Len(b)
      BY <1>1, <1>6
    <3> QED BY <1>3, <2>7, <3>1, MergedPut
  <2>9. x \in 1 .. (A + 1) /\ y \in 1 .. (B + 1) /\ n + 1 <= (x - 1) + (y - 1)
    BY <1>6, <2>3, <2>6
  <2> QED BY <1>1, <1>4, <2>6, <2>8, <2>9 DEF TurnInv
<1> QED BY <1>1, <1>2, <1>5, <1>6

(* p is q and the rest of a. *)
WithRest(p, q, a, i, N, A) ==
  /\ p \in Seq(Row) /\ Len(p) = N + (A + 1 - i)
  /\ \A k \in 1 .. N : p[k] = q[k]
  /\ \A x \in i .. A : p[N + (x + 1 - i)] = a[x]

LEMMA Extended ==
  ASSUME NEW q \in Seq(Row), NEW a \in Seq(Row), NEW i \in 1 .. (Len(a) + 1),
         NEW N \in Nat, N = Len(q), NEW A \in Nat, A = Len(a),
         NEW p, p = q \o SubSeq(a, i, Len(a))
  PROVE  WithRest(p, q, a, i, N, A)
<1>1. PICK t : t = SubSeq(a, i, Len(a))
  OBVIOUS
<1>2. t \in Seq(Row) /\ Len(t) = A + 1 - i /\ \A k \in 1 .. (A + 1 - i) : t[k] = a[i + k - 1]
  <2>1. \A k \in i .. A : a[k] \in Row
    OBVIOUS
  <2>2. /\ SubSeq(a, i, A) \in Seq(Row)
        /\ Len(SubSeq(a, i, A)) = IF i <= A THEN A - i + 1 ELSE 0
        /\ \A k \in 1 .. (A - i + 1) : SubSeq(a, i, A)[k] = a[i + k - 1]
    <3>1. i \in Int /\ A \in Int
      OBVIOUS
    <3> HIDE DEF Row
    <3> QED BY <2>1, <3>1, SubSeqProperties
  <2>3. A - i + 1 = A + 1 - i /\ (~ (i <= A) => A + 1 - i = 0)
    OBVIOUS
  <2> QED BY <1>1, <2>2, <2>3
<1>3. p = q \o t
  BY <1>1
<1>4. /\ p \in Seq(Row) /\ Len(p) = N + (A + 1 - i)
      /\ \A k \in 1 .. (N + (A + 1 - i)) : p[k] = IF k <= N THEN q[k] ELSE t[k - N]
  <2>1. /\ p \in Seq(Row) /\ Len(p) = Len(q) + Len(t)
        /\ \A k \in 1 .. (Len(q) + Len(t)) : p[k] = IF k <= Len(q) THEN q[k] ELSE t[k - Len(q)]
    <3>1. t \in Seq(Row)
      BY <1>2
    <3> QED BY <1>3, <3>1, ConcatProperties
  <2>2. Len(q) + Len(t) = N + (A + 1 - i)
    BY <1>2
  <2> QED BY <2>1, <2>2
<1>5. \A k \in 1 .. N : p[k] = q[k]
  BY <1>4
<1>6. ASSUME NEW x \in i .. A PROVE p[N + (x + 1 - i)] = a[x]
  <2>1. PICK d \in Nat : d = x + 1 - i /\ d \in 1 .. (A + 1 - i) /\ i + d - 1 = x
    OBVIOUS
  <2>2. N + d \in 1 .. (N + (A + 1 - i)) /\ ~ (N + d <= N) /\ (N + d) - N = d
    BY <2>1
  <2>3. p[N + d] = t[d]
    BY <1>4, <2>2
  <2>4. t[d] = a[x]
    BY <1>2, <2>1
  <2> QED BY <2>1, <2>3, <2>4
<1> QED BY <1>4, <1>5, <1>6 DEF WithRest

(* The loop is over for b: the rest of a. *)
LEMMA ExtendA ==
  ASSUME NEW a \in Seq(Row), NEW b \in Seq(Row), NEW i \in 1 .. (Len(a) + 1),
         NEW q, NEW B \in Nat, B = Len(b), Merged(q, a, b, i, B + 1)
  PROVE  Merged(q \o SubSeq(a, i, Len(a)), a, b, Len(a) + 1, B + 1)
<1>1. PICK A \in Nat, N \in Nat : A = Len(a) /\ N = Len(q)
  BY DEF Merged
<1>2. PICK p : p = q \o SubSeq(a, i, Len(a))
  OBVIOUS
<1>3. q \in Seq(Row)
  BY DEF Merged
<1>4. /\ p \in Seq(Row) /\ Len(p) = N + (A + 1 - i)
      /\ \A k \in 1 .. N : p[k] = q[k]
      /\ \A x \in i .. A : p[N + (x + 1 - i)] = a[x]
  <2>1. WithRest(p, q, a, i, N, A)
    BY <1>1, <1>2, <1>3, Extended
  <2> QED BY <2>1 DEF WithRest
<1>5. i \in 1 .. (A + 1)
  BY <1>1
<1>6. ASSUME NEW k \in 1 .. Len(p)
      PROVE  \/ k \in 1 .. N /\ p[k] = q[k]
             \/ \E x \in i .. A : k = N + (x + 1 - i) /\ p[k] = a[x]
  <2>1. CASE k \in 1 .. N
    BY <1>4, <2>1
  <2>2. CASE k \notin 1 .. N
    <3>1. k \in 1 .. (N + (A + 1 - i)) /\ k \in Nat
      BY <1>4, <1>5
    <3>2. PICK x \in i .. A : k = N + (x + 1 - i)
      <4>1. i + k - N - 1 \in i .. A /\ k = N + ((i + k - N - 1) + 1 - i)
        BY <1>5, <2>2, <3>1
      <4> QED BY <4>1
    <3>3. p[k] = a[x]
      BY <1>4, <3>2
    <3> QED BY <3>2, <3>3
  <2> QED BY <2>1, <2>2
<1>7. 1 .. N \subseteq 1 .. Len(p)
      /\ \A x \in i .. A : N + (x + 1 - i) \in 1 .. Len(p)
  BY <1>4, <1>5
<1>8. ASSUME Ascending(a), InOrder(b) PROVE Sorted(p, b)
  <2> SUFFICES ASSUME NEW k \in 1 .. (Len(p) - 1)
               PROVE  p[k].ts < p[k + 1].ts \/ (p[k].ts = p[k + 1].ts /\ Of(p[k + 1], b))
    BY DEF Sorted
  <2>1. Sorted(q, b) /\ Before(q, a, i)
    BY <1>8 DEF Merged
  <2>2. k \in 1 .. Len(p) /\ k + 1 \in 1 .. Len(p) /\ k \in Nat
    BY <1>4, <1>5
  <2>3. CASE k \in 1 .. (N - 1)
    <3>1. k \in 1 .. N /\ k + 1 \in 1 .. N
      BY <2>3
    <3>2. q[k].ts < q[k + 1].ts \/ (q[k].ts = q[k + 1].ts /\ Of(q[k + 1], b))
      BY <1>1, <2>1, <2>3 DEF Sorted
    <3> QED BY <1>4, <3>1, <3>2
  <2>4. CASE k = N
    <3>1. i \in i .. A /\ N + (i + 1 - i) = k + 1 /\ k \in 1 .. N
      BY <1>4, <1>5, <2>2, <2>4
    <3>2. p[k + 1] = a[i] /\ p[k] = q[k]
      BY <1>4, <3>1
    <3>3. i <= Len(a) /\ k \in 1 .. Len(q)
      BY <1>1, <1>5, <3>1
    <3>4. q[k].ts < a[i].ts
      BY <2>1, <3>3 DEF Before
    <3> QED BY <3>2, <3>4
  <2>5. CASE k \notin 1 .. N
    <3>1. PICK x \in i .. A : k = N + (x + 1 - i) /\ p[k] = a[x]
      BY <1>6, <2>2, <2>5
    <3>2. x + 1 \in i .. A /\ N + ((x + 1) + 1 - i) = k + 1 /\ x \in 1 .. (A - 1)
      BY <1>4, <1>5, <2>2, <3>1
    <3>3. p[k + 1] = a[x + 1]
      BY <1>4, <3>2
    <3>4. a[x].ts < a[x + 1].ts
      BY <1>1, <1>8, <3>2 DEF Ascending
    <3> QED BY <3>1, <3>3, <3>4
  <2> QED BY <2>2, <2>3, <2>4, <2>5
<1>9. ASSUME Ascending(a), InOrder(b) PROVE Fresh(p, b)
  <2> SUFFICES ASSUME NEW k \in 1 .. Len(p), NEW y \in 1 .. B, p[k].ts = b[y].ts
               PROVE  Of(p[k], b)
    BY DEF Fresh
  <2>1. Fresh(q, b) /\ Before(q, a, i)
    BY <1>8, <1>9 DEF Merged
  <2>2. CASE k \in 1 .. N /\ p[k] = q[k]
    BY <1>1, <2>1, <2>2 DEF Fresh
  <2>3. ASSUME NEW x \in i .. A, p[k] = a[x] PROVE FALSE
    <3>1. y \in 1 .. ((B + 1) - 1)
      OBVIOUS
    <3>2. PICK l \in 1 .. N : q[l] = b[y]
      BY <1>1, <3>1 DEF Merged
    <3>3. i \in 1 .. Len(a) /\ x \in 1 .. Len(a) /\ l \in 1 .. Len(q) /\ i <= Len(a)
      BY <1>1, <1>5, <2>3
    <3>4. q[l].ts < a[i].ts
      BY <2>1, <3>3 DEF Before
    <3>5. i # x => a[i].ts <= a[x].ts
      <4>1. InOrder(a)
        BY <1>9, StrictInOrder
      <4>2. i # x => i < x
        BY <1>5, <2>3
      <4> QED BY <3>3, <4>1, <4>2, Rises
    <3>6. a[i].ts \in Nat /\ a[x].ts \in Nat /\ q[l].ts \in Nat
      <4>1. a[i] \in Row /\ a[x] \in Row /\ q[l] \in Row
        BY <1>3, <3>3
      <4> QED BY <4>1 DEF Row
    <3>7. q[l].ts = a[x].ts
      BY <2>3, <3>2
    <3> QED BY <3>4, <3>5, <3>6, <3>7
  <2> QED BY <1>6, <2>2, <2>3
<1>10. ASSUME NEW k \in 1 .. Len(p)
      PROVE  (\E x \in 1 .. A : p[k] = a[x]) \/ (\E x \in 1 .. B : p[k] = b[x])
  <2>1. CASE k \in 1 .. N /\ p[k] = q[k]
    <3>1. \/ \E x \in 1 .. (i - 1) : q[k] = a[x]
          \/ \E x \in 1 .. ((B + 1) - 1) : q[k] = b[x]
      BY <1>1, <2>1 DEF Merged
    <3>2. 1 .. (i - 1) \subseteq 1 .. A /\ (B + 1) - 1 = B
      BY <1>5
    <3> QED BY <2>1, <3>1, <3>2
  <2>2. CASE \E x \in i .. A : p[k] = a[x]
    <3>1. i .. A \subseteq 1 .. A
      BY <1>5
    <3> QED BY <2>2, <3>1
  <2> QED BY <1>6, <2>1, <2>2
<1>11. ASSUME NEW x \in 1 .. A PROVE \E k \in 1 .. Len(p) : p[k].ts = a[x].ts
  <2>1. CASE x \in 1 .. (i - 1)
    <3>1. PICK k \in 1 .. N : q[k].ts = a[x].ts
      BY <1>1, <2>1 DEF Merged
    <3> QED BY <1>4, <1>7, <3>1
  <2>2. CASE x \in i .. A
    BY <1>4, <1>7, <2>2
  <2> QED BY <1>5, <2>1, <2>2
<1>12. ASSUME NEW x \in 1 .. B PROVE \E k \in 1 .. Len(p) : p[k] = b[x]
  <2>1. x \in 1 .. ((B + 1) - 1)
    OBVIOUS
  <2>2. PICK k \in 1 .. N : q[k] = b[x]
    BY <1>1, <2>1 DEF Merged
  <2> QED BY <1>4, <1>7, <2>2
<1>13. Before(p, a, A + 1) /\ NotAfter(p, b, B + 1)
  BY <1>1 DEF Before, NotAfter
<1>14. (A + 1) - 1 = A /\ (B + 1) - 1 = B
  OBVIOUS
<1>15. Merged(p, a, b, A + 1, B + 1)
  BY <1>4, <1>8, <1>10, <1>11, <1>12, <1>13, <1>14, <1>9 DEF Merged
<1> QED BY <1>1, <1>2, <1>15

(* The loop is over for a: the rest of b. *)
LEMMA ExtendB ==
  ASSUME NEW a \in Seq(Row), NEW b \in Seq(Row), NEW j \in 1 .. (Len(b) + 1),
         NEW q, NEW B \in Nat, B = Len(a), Merged(q, a, b, B + 1, j)
  PROVE  Merged(q \o SubSeq(b, j, Len(b)), a, b, B + 1, Len(b) + 1)
<1>1. PICK A \in Nat, N \in Nat : A = Len(b) /\ N = Len(q)
  BY DEF Merged
<1>2. PICK p : p = q \o SubSeq(b, j, Len(b))
  OBVIOUS
<1>3. q \in Seq(Row)
  BY DEF Merged
<1>4. /\ p \in Seq(Row) /\ Len(p) = N + (A + 1 - j)
      /\ \A k \in 1 .. N : p[k] = q[k]
      /\ \A x \in j .. A : p[N + (x + 1 - j)] = b[x]
  <2>1. WithRest(p, q, b, j, N, A)
    BY <1>1, <1>2, <1>3, Extended
  <2> QED BY <2>1 DEF WithRest
<1>5. j \in 1 .. (A + 1)
  BY <1>1
<1>6. ASSUME NEW k \in 1 .. Len(p)
      PROVE  \/ k \in 1 .. N /\ p[k] = q[k]
             \/ \E x \in j .. A : k = N + (x + 1 - j) /\ p[k] = b[x]
  <2>1. CASE k \in 1 .. N
    BY <1>4, <2>1
  <2>2. CASE k \notin 1 .. N
    <3>1. k \in 1 .. (N + (A + 1 - j)) /\ k \in Nat
      BY <1>4, <1>5
    <3>2. PICK x \in j .. A : k = N + (x + 1 - j)
      <4>1. j + k - N - 1 \in j .. A /\ k = N + ((j + k - N - 1) + 1 - j)
        BY <1>5, <2>2, <3>1
      <4> QED BY <4>1
    <3>3. p[k] = b[x]
      BY <1>4, <3>2
    <3> QED BY <3>2, <3>3
  <2> QED BY <2>1, <2>2
<1>7. 1 .. N \subseteq 1 .. Len(p)
      /\ \A x \in j .. A : N + (x + 1 - j) \in 1 .. Len(p)
  BY <1>4, <1>5
<1>8. ASSUME Ascending(a), InOrder(b) PROVE Sorted(p, b)
  <2> SUFFICES ASSUME NEW k \in 1 .. (Len(p) - 1)
               PROVE  p[k].ts < p[k + 1].ts \/ (p[k].ts = p[k + 1].ts /\ Of(p[k + 1], b))
    BY DEF Sorted
  <2>1. Sorted(q, b) /\ NotAfter(q, b, j)
    BY <1>8 DEF Merged
  <2>2. k \in 1 .. Len(p) /\ k + 1 \in 1 .. Len(p) /\ k \in Nat
    BY <1>4, <1>5
  <2>3. CASE k \in 1 .. (N - 1)
    <3>1. k \in 1 .. N /\ k + 1 \in 1 .. N
      BY <2>3
    <3>2. q[k].ts < q[k + 1].ts \/ (q[k].ts = q[k + 1].ts /\ Of(q[k + 1], b))
      BY <1>1, <2>1, <2>3 DEF Sorted
    <3> QED BY <1>4, <3>1, <3>2
  <2>4. CASE k = N
    <3>1. j \in j .. A /\ N + (j + 1 - j) = k + 1 /\ k \in 1 .. N
      BY <1>4, <1>5, <2>2, <2>4
    <3>2. p[k + 1] = b[j] /\ p[k] = q[k]
      BY <1>4, <3>1
    <3>3. j <= Len(b) /\ k \in 1 .. Len(q)
      BY <1>1, <1>5, <3>1
    <3>4. q[k].ts <= b[j].ts
      BY <2>1, <3>3 DEF NotAfter
    <3>5. q[k].ts \in Nat /\ b[j].ts \in Nat /\ Of(b[j], b)
      <4>1. j \in 1 .. Len(b)
        BY <1>1, <1>5, <3>3
      <4>2. q[k] \in Row /\ b[j] \in Row
        BY <1>3, <3>3, <4>1
      <4> QED BY <4>1, <4>2 DEF Row, Of
    <3> QED BY <3>2, <3>4, <3>5
  <2>5. CASE k \notin 1 .. N
    <3>1. PICK x \in j .. A : k = N + (x + 1 - j) /\ p[k] = b[x]
      BY <1>6, <2>2, <2>5
    <3>2. x + 1 \in j .. A /\ N + ((x + 1) + 1 - j) = k + 1 /\ x \in 1 .. (A - 1)
      BY <1>4, <1>5, <2>2, <3>1
    <3>3. p[k + 1] = b[x + 1]
      BY <1>4, <3>2
    <3>4. b[x].ts <= b[x + 1].ts
      BY <1>1, <1>8, <3>2 DEF InOrder
    <3>5. b[x].ts \in Nat /\ b[x + 1].ts \in Nat /\ Of(b[x + 1], b)
      <4>1. x \in 1 .. Len(b) /\ x + 1 \in 1 .. Len(b)
        BY <1>1, <3>2
      <4>2. b[x] \in Row /\ b[x + 1] \in Row
        BY <4>1
      <4> QED BY <4>1, <4>2 DEF Row, Of
    <3>6. b[x].ts < b[x + 1].ts \/ b[x].ts = b[x + 1].ts
      BY <3>4, <3>5
    <3>7. p[k] = b[x]
      BY <3>1
    <3>8. p[k].ts < p[k + 1].ts \/ p[k].ts = p[k + 1].ts
      BY <3>3, <3>6, <3>7, Zenon
    <3>9. Of(p[k + 1], b)
      BY <3>3, <3>5, Zenon
    <3> QED BY <3>8, <3>9, Zenon
  <2> QED BY <2>2, <2>3, <2>4, <2>5
<1>9. ASSUME Ascending(a), InOrder(b) PROVE Fresh(p, b)
  <2> SUFFICES ASSUME NEW k \in 1 .. Len(p), NEW y \in 1 .. Len(b), p[k].ts = b[y].ts
               PROVE  Of(p[k], b)
    BY DEF Fresh
  <2>1. Fresh(q, b)
    BY <1>9 DEF Merged
  <2>2. CASE k \in 1 .. N /\ p[k] = q[k]
    BY <1>1, <2>1, <2>2 DEF Fresh
  <2>3. CASE \E x \in j .. A : p[k] = b[x]
    <3>1. j .. A \subseteq 1 .. Len(b)
      BY <1>1, <1>5
    <3> QED BY <2>3, <3>1 DEF Of
  <2> QED BY <1>6, <2>2, <2>3
<1>10. ASSUME NEW k \in 1 .. Len(p)
      PROVE  (\E x \in 1 .. B : p[k] = a[x]) \/ (\E x \in 1 .. A : p[k] = b[x])
  <2>1. CASE k \in 1 .. N /\ p[k] = q[k]
    <3>1. \/ \E x \in 1 .. ((B + 1) - 1) : q[k] = a[x]
          \/ \E x \in 1 .. (j - 1) : q[k] = b[x]
      BY <1>1, <2>1 DEF Merged
    <3>2. 1 .. (j - 1) \subseteq 1 .. A /\ (B + 1) - 1 = B
      BY <1>5
    <3> QED BY <2>1, <3>1, <3>2
  <2>2. CASE \E x \in j .. A : p[k] = b[x]
    <3>1. j .. A \subseteq 1 .. A
      BY <1>5
    <3> QED BY <2>2, <3>1
  <2> QED BY <1>6, <2>1, <2>2
<1>11. ASSUME NEW x \in 1 .. A PROVE \E k \in 1 .. Len(p) : p[k] = b[x]
  <2>1. CASE x \in 1 .. (j - 1)
    <3>1. PICK k \in 1 .. N : q[k] = b[x]
      BY <1>1, <2>1 DEF Merged
    <3> QED BY <1>4, <1>7, <3>1
  <2>2. CASE x \in j .. A
    BY <1>4, <1>7, <2>2
  <2> QED BY <1>5, <2>1, <2>2
<1>12. ASSUME NEW x \in 1 .. B PROVE \E k \in 1 .. Len(p) : p[k].ts = a[x].ts
  <2>1. x \in 1 .. ((B + 1) - 1)
    OBVIOUS
  <2>2. PICK k \in 1 .. N : q[k].ts = a[x].ts
    BY <1>1, <2>1 DEF Merged
  <2> QED BY <1>4, <1>7, <2>2
<1>13. Before(p, a, B + 1) /\ NotAfter(p, b, A + 1)
  BY <1>1 DEF Before, NotAfter
<1>14. (A + 1) - 1 = A /\ (B + 1) - 1 = B
  OBVIOUS
<1>15. Merged(p, a, b, B + 1, A + 1)
  BY <1>4, <1>8, <1>10, <1>11, <1>12, <1>13, <1>14, <1>9 DEF Merged
<1> QED BY <1>1, <1>2, <1>15

(* merge_by_ts, whatever the order of its inputs: all of b, a candle of    *)
(* every timestamp of a and nothing else; in order if both inputs are, and *)
(* then of a timestamp of b only what b has.                               *)
LEMMA MergeIs ==
  ASSUME NEW a \in Seq(Row), NEW b \in Seq(Row)
  PROVE  Merged(MergeByTs(a, b), a, b, Len(a) + 1, Len(b) + 1)
<1>1. PICK A \in Nat, B \in Nat, N \in Nat : A = Len(a) /\ B = Len(b) /\ N = A + B
  OBVIOUS
<1>2. PICK f : /\ f[0] = MergeStart
               /\ \A n \in 1 .. N : f[n] = MergeTurn(a, b, f[n - 1])
               /\ MergeByTs(a, b) = f[N].out \o SubSeq(a, f[N].i, Len(a)) \o SubSeq(b, f[N].j, Len(b))
  <2>1. PICK f : f = MergeRun(a, b)
    OBVIOUS
  <2>2. f[0] = MergeStart
    BY <1>1, <2>1, MergeRuns
  <2>3. \A n \in 1 .. N : f[n] = MergeTurn(a, b, f[n - 1])
    BY <1>1, <2>1, MergeRuns
  <2>4. MergeByTs(a, b) = f[N].out \o SubSeq(a, f[N].i, Len(a)) \o SubSeq(b, f[N].j, Len(b))
    BY <1>1, <2>1, MergeRuns
  <2> QED BY <2>2, <2>3, <2>4, Zenon
<1> DEFINE Good == {n \in 0 .. N : TurnInv(f[n], a, b, n)}
<1>3. 0 \in Good
  <2>1. f[0].i = 1 /\ f[0].j = 1 /\ f[0].out = <<>>
    BY <1>2 DEF MergeStart
  <2>2. Merged(<<>>, a, b, 1, 1)
    <3>1. <<>> \in Seq(Row) /\ Len(<<>>) = 0
      OBVIOUS
    <3>2. 1 .. (1 - 1) = {} /\ 1 .. 0 = {}
      OBVIOUS
    <3>3. Sorted(<<>>, b) /\ Fresh(<<>>, b) /\ Before(<<>>, a, 1) /\ NotAfter(<<>>, b, 1)
      BY <3>1 DEF Sorted, Fresh, Before, NotAfter
    <3> QED BY <3>1, <3>2, <3>3 DEF Merged
  <2>3. TurnInv(f[0], a, b, 0)
    BY <1>1, <2>1, <2>2 DEF TurnInv
  <2> QED BY <2>3
<1>4. ASSUME NEW n \in 0 .. (N - 1), n \in Good PROVE n + 1 \in Good
  <2>1. n + 1 \in 1 .. N /\ (n + 1) - 1 = n /\ n \in Nat /\ n + 1 \in 0 .. N
    OBVIOUS
  <2>2. f[n + 1] = MergeTurn(a, b, f[n])
    BY <1>2, <2>1
  <2>3. TurnInv(f[n], a, b, n)
    BY <1>4
  <2>4. TurnInv(MergeTurn(a, b, f[n]), a, b, n + 1)
    BY <2>1, <2>3, TurnMerges
  <2> QED BY <2>1, <2>2, <2>4
<1>5. TurnInv(f[N], a, b, N)
  <2>1. 0 .. N \subseteq Good
    <3> HIDE DEF Good
    <3> QED BY <1>3, <1>4, UpTo
  <2> QED BY <2>1
<1>6. PICK i \in 1 .. (A + 1), j \in 1 .. (B + 1) : i = f[N].i /\ j = f[N].j
  BY <1>1, <1>5 DEF TurnInv
<1>7. PICK q : q = f[N].out /\ Merged(q, a, b, i, j)
  BY <1>5, <1>6 DEF TurnInv
<1>8. i = A + 1 \/ j = B + 1
  <2>1. i <= A /\ j <= B => N <= (i - 1) + (j - 1)
    BY <1>1, <1>5, <1>6 DEF TurnInv
  <2> QED BY <1>1, <2>1
<1>9. PICK p : p = q \o SubSeq(a, i, Len(a))
  OBVIOUS
<1>10. Merged(p, a, b, A + 1, j)
  <2>1. CASE j = B + 1
    <3>1. i \in 1 .. (Len(a) + 1) /\ Merged(q, a, b, i, B + 1)
      BY <1>1, <1>7, <2>1
    <3>2. Merged(p, a, b, Len(a) + 1, B + 1)
      BY <1>1, <1>9, <3>1, ExtendA
    <3> QED BY <1>1, <2>1, <3>2
  <2>2. CASE i = A + 1
    <3>1. SubSeq(a, i, Len(a)) = <<>>
      <4>1. i \in Int /\ A \in Int /\ A < i
        BY <2>2
      <4> QED BY <1>1, <4>1, SubSeqEmpty
    <3>2. q \in Seq(Row)
      BY <1>7 DEF Merged
    <3>3. p = q
      BY <1>9, <3>1, <3>2, ConcatEmptySeq
    <3> QED BY <1>7, <2>2, <3>3
  <2> QED BY <1>8, <2>1, <2>2
<1>11. Merged(p \o SubSeq(b, j, Len(b)), a, b, A + 1, Len(b) + 1)
  <2>1. j \in 1 .. (Len(b) + 1)
    BY <1>1
  <2> QED BY <1>1, <1>10, <2>1, ExtendB
<1>12. MergeByTs(a, b) = p \o SubSeq(b, j, Len(b))
  BY <1>2, <1>6, <1>7, <1>9
<1> QED BY <1>1, <1>11, <1>12

-----------------------------------------------------------------------------
(* Spilled files.                                                          *)

Name(f) == <<f.dir, f.lo, f.hi, f.n>>

(* A file of n appends: its rows lie in the range its name advertises, and *)
(* only a file that may be read has candles of this store.                 *)
FileOK(f, n) ==
  /\ f.lo \in Nat /\ f.hi \in Nat /\ f.n \in Nat /\ f.rows \subseteq Row
  /\ \A c \in f.rows : /\ f.lo <= c.ts /\ c.ts <= f.hi /\ c.id <= n
                       /\ Readable(f) => c.id >= 0
                       /\ c.id >= 1 => Compat(f)

FilesOK(F, n) ==
  /\ IsFiniteSet(F)
  /\ \A f \in F : FileOK(f, n)
  /\ \A f, g \in F : Name(f) = Name(g) => f = g

HotOK(h, n) ==
  /\ h \in [Symbols -> Seq(Row)]
  /\ \A s \in Symbols : /\ Len(h[s]) <= RingCapacity
                        /\ \A i \in 1 .. Len(h[s]) : h[s][i].id \in 1 .. n

(* A suffix is free: there are more of them than files. *)
LEMMA FreeIs ==
  ASSUME IsFiniteSet(files), NEW d, NEW lo, NEW hi
  PROVE  FreeSuffix(d, lo, hi) \in Nat /\ FreeSuffix(d, lo, hi) \notin Taken(d, lo, hi)
<1>1. PICK N \in Nat : N = Cardinality(files)
  BY FS_CardinalityType
<1>2. PICK same : same = {g \in files : g.dir = d /\ g.lo = lo /\ g.hi = hi}
  OBVIOUS
<1>3. PICK T : T = Taken(d, lo, hi) /\ T = {g.n : g \in same}
  BY <1>2 DEF Taken
<1>4. IsFiniteSet(same) /\ Cardinality(same) <= N /\ Cardinality(same) \in Nat
  <2>1. same \in SUBSET files
    BY <1>2
  <2>2. IsFiniteSet(same) /\ Cardinality(same) <= Cardinality(files)
    BY <2>1, FS_Subset
  <2> QED BY <1>1, <2>2, FS_CardinalityType
<1>5. IsFiniteSet(T) /\ Cardinality(T) <= N /\ Cardinality(T) \in Nat
  <2>1. PICK f : f = [g \in same |-> g.n]
    OBVIOUS
  <2>2. f \in Surjection(same, T)
    BY <1>3, <2>1 DEF Surjection
  <2>3. IsFiniteSet(T) /\ Cardinality(T) <= Cardinality(same)
    BY <1>4, <2>2, FS_Surjection
  <2>4. Cardinality(T) \in Nat
    BY <2>3, FS_CardinalityType
  <2> QED BY <1>4, <2>3, <2>4
<1>6. (0 .. N) \ T # {}
  <2> SUFFICES ASSUME 0 .. N \subseteq T PROVE FALSE
    OBVIOUS
  <2>1. Cardinality(0 .. N) <= Cardinality(T)
    BY <1>5, FS_Subset
  <2>2. Cardinality(0 .. N) = N + 1
    <3>1. 0 \in Int /\ N \in Int /\ ~ (0 > N) /\ N - 0 + 1 = N + 1
      OBVIOUS
    <3> QED BY <3>1, FS_Interval
  <2> QED BY <1>5, <2>1, <2>2
<1>7. PICK m \in (0 .. N) \ T : \A n \in (0 .. N) \ T : m <= n
  <2>1. (0 .. N) \ T \subseteq Nat
    OBVIOUS
  <2> QED BY <1>6, <2>1, Least
<1>8. Min((0 .. N) \ T) \in (0 .. N) \ T
  BY <1>7 DEF Min
<1>9. FreeSuffix(d, lo, hi) = Min((0 .. N) \ T)
  BY <1>1, <1>3 DEF FreeSuffix
<1> QED BY <1>3, <1>8, <1>9

(* The timestamps of a sequence are bounded. *)
LEMMA Bounded ==
  ASSUME NEW q \in Seq(Row)
  PROVE  \E M \in Nat : \A i \in 1 .. Len(q) : q[i].ts <= M
<1>1. PICK N \in Nat : N = Len(q)
  OBVIOUS
<1>2. \A i \in 1 .. N : q[i].ts \in Nat
  <2>1. \A i \in 1 .. N : q[i] \in Row
    BY <1>1
  <2> QED BY <2>1 DEF Row
<1> DEFINE Good == {n \in 0 .. N : \E M \in Nat : \A i \in 1 .. n : q[i].ts <= M}
<1>3. 0 \in Good
  OBVIOUS
<1>4. ASSUME NEW n \in 0 .. (N - 1), n \in Good PROVE n + 1 \in Good
  <2>1. PICK M \in Nat : \A i \in 1 .. n : q[i].ts <= M
    BY <1>4
  <2>2. n + 1 \in 1 .. N /\ n + 1 \in 0 .. N
    OBVIOUS
  <2>3. PICK x \in Nat : x = q[n + 1].ts
    BY <1>2, <2>2
  <2>4. PICK L \in Nat : M <= L /\ x <= L
    <3>1. M + x \in Nat /\ M <= M + x /\ x <= M + x
      OBVIOUS
    <3> QED BY <3>1
  <2>5. ASSUME NEW i \in 1 .. (n + 1) PROVE q[i].ts <= L
    <3>1. CASE i = n + 1
      BY <2>3, <2>4, <3>1
    <3>2. CASE i \in 1 .. n
      <4>1. q[i].ts <= M /\ q[i].ts \in Nat
        BY <1>2, <2>1, <3>2
      <4> QED BY <2>4, <4>1
    <3> QED BY <3>1, <3>2
  <2> QED BY <2>2, <2>5
<1>5. N \in Good
  <2>1. 0 .. N \subseteq Good
    <3> HIDE DEF Good
    <3> QED BY <1>3, <1>4, UpTo
  <2> HIDE DEF Good
  <2> QED BY <2>1
<1> QED BY <1>1, <1>5

(* The range of a spill's name covers its candles. *)
LEMMA RangeCovers ==
  ASSUME NEW n \in Nat, HotOK(hot, n), NEW s \in Symbols, hot[s] # <<>>
  PROVE  /\ SpillRange(s)[1] \in Nat /\ SpillRange(s)[2] \in Nat
         /\ \A i \in 1 .. Len(hot[s]) :
              SpillRange(s)[1] <= hot[s][i].ts /\ hot[s][i].ts <= SpillRange(s)[2]
<1>1. PICK q \in Seq(Row) : q = hot[s]
  BY DEF HotOK
<1>2. PICK N \in Nat : N = Len(q) /\ N >= 1
  <2>1. PICK L \in Nat : L = Len(q)
    OBVIOUS
  <2>2. L # 0
    BY <1>1, <2>1
  <2>3. L >= 1
    BY <2>2
  <2> QED BY <2>1, <2>3
<1>3. PICK S : S = Stamps(s) /\ S = {q[i].ts : i \in 1 .. N}
  <2>1. DOMAIN q = 1 .. N
    BY <1>2
  <2> QED BY <1>1, <2>1 DEF Stamps
<1>4. \A i \in 1 .. N : q[i].ts \in Nat
  <2>1. \A i \in 1 .. N : q[i] \in Row
    BY <1>2
  <2> QED BY <2>1 DEF Row
<1>5. PICK M \in Nat : \A i \in 1 .. N : q[i].ts <= M
  BY <1>2, Bounded
<1>6. S \subseteq 0 .. M /\ S # {} /\ S \subseteq Nat
  <2>1. 1 \in 1 .. N
    BY <1>2
  <2> QED BY <1>3, <1>4, <1>5, <2>1
<1>7. Min(S) \in S /\ \A x \in S : Min(S) <= x
  <2>1. \E m \in S : \A x \in S : m <= x
    BY <1>6, Least
  <2> QED BY <2>1 DEF Min
<1>8. Max(S) \in S /\ \A x \in S : x <= Max(S)
  <2>1. PICK m \in S : \A x \in S : x <= m
    BY <1>6, Greatest
  <2>2. \A x \in S : m >= x
    BY <1>6, <2>1
  <2>3. Max(S) \in S /\ \A x \in S : Max(S) >= x
    BY <2>2 DEF Max
  <2> QED BY <1>6, <2>3
<1>9. SpillRange(s)[1] = Min(S) /\ SpillRange(s)[2] = Max(S)
  BY <1>3 DEF SpillRange
<1>10. \A i \in 1 .. N : q[i].ts \in S
  BY <1>3
<1> QED BY <1>1, <1>2, <1>6, <1>7, <1>8, <1>9, <1>10

(* The file a spill writes: under a name of its own, so that none that is  *)
(* there is truncated.                                                     *)
LEMMA SpillFresh ==
  ASSUME NEW n \in Nat, HotOK(hot, n), FilesOK(files, n), NEW s \in Symbols, hot[s] # <<>>, NEW w,
         NEW f, f = SpillFile(s, w)
  PROVE  /\ Created(f) = files \cup {f}
         /\ FilesOK(files \cup {f}, n)
         /\ f.dir = Escape[s] /\ f.whole = w /\ Compat(f)
         /\ f.rows = {hot[s][i] : i \in 1 .. Len(hot[s])}
<1>1. PICK lo \in Nat, hi \in Nat : lo = SpillRange(s)[1] /\ hi = SpillRange(s)[2]
  BY RangeCovers
<1>2. PICK x \in Nat : x = FreeSuffix(Escape[s], lo, hi) /\ x \notin Taken(Escape[s], lo, hi)
  BY FreeIs DEF FilesOK
<1>3. /\ f.dir = Escape[s] /\ f.lo = lo /\ f.hi = hi /\ f.n = x /\ f.whole = w
      /\ f.brand = "candlestore" /\ f.version = 1 /\ f.rows = Range(hot[s])
  BY <1>1, <1>2 DEF SpillFile, SchemaVersion
<1>4. f.rows = {hot[s][i] : i \in 1 .. Len(hot[s])}
  <2>1. DOMAIN hot[s] = 1 .. Len(hot[s])
    BY DEF HotOK
  <2> QED BY <1>3, <2>1 DEF Range
<1>5. Compat(f)
  BY <1>3 DEF Compat, Unknown, SchemaVersion
<1>6. \A g \in files : Name(g) # Name(f)
  <2> SUFFICES ASSUME NEW g \in files, Name(g) = Name(f) PROVE FALSE
    OBVIOUS
  <2>1. g.dir = Escape[s] /\ g.lo = lo /\ g.hi = hi /\ g.n = x
    BY <1>3 DEF Name
  <2>2. x \in Taken(Escape[s], lo, hi)
    BY <2>1 DEF Taken
  <2> QED BY <1>2, <2>2
<1>7. Created(f) = files \cup {f}
  BY <1>6 DEF Created, Name
<1>8. FileOK(f, n)
  <2>1. \A i \in 1 .. Len(hot[s]) : /\ hot[s][i] \in Row /\ hot[s][i].id \in 1 .. n
                                   /\ lo <= hot[s][i].ts /\ hot[s][i].ts <= hi
    BY <1>1, RangeCovers DEF HotOK
  <2>2. \A c \in f.rows : c \in Row /\ c.id \in 1 .. n /\ lo <= c.ts /\ c.ts <= hi
    BY <1>4, <2>1
  <2>3. \A c \in f.rows : c.id <= n /\ c.id >= 0
    BY <2>2
  <2> QED BY <1>3, <1>5, <2>2, <2>3 DEF FileOK
<1>9. FilesOK(files \cup {f}, n)
  <2>1. IsFiniteSet(files \cup {f})
    BY FS_AddElement DEF FilesOK
  <2>2. \A g \in files \cup {f} : FileOK(g, n)
    BY <1>8 DEF FilesOK
  <2>3. \A g, h \in files \cup {f} : Name(g) = Name(h) => g = h
    BY <1>6 DEF FilesOK
  <2> QED BY <2>1, <2>2, <2>3 DEF FilesOK
<1> QED BY <1>3, <1>4, <1>5, <1>7, <1>9

-----------------------------------------------------------------------------
(* The inductive invariant.                                                *)

KeptOK(k, n) ==
  /\ k \in [Symbols -> SUBSET Row]
  /\ \A s \in Symbols : \A c \in k[s] : c.id \in 1 .. n

(* A kept candle is in no other symbol's ring or directory ... *)
Own(F, h, k) ==
  /\ \A s, u \in Symbols : \A i \in 1 .. Len(h[u]) : h[u][i] \in k[s] => u = s
  /\ \A s \in Symbols : \A f \in F : \A c \in f.rows : c \in k[s] => f.dir = Escape[s]

(* ... and is in its own ring, or in a file of its directory that can be   *)
(* read.                                                                   *)
InFile(F, s, c) == \E f \in F : f.dir = Escape[s] /\ Readable(f) /\ c \in f.rows
Found(F, h, k) ==
  \A s \in Symbols : \A c \in k[s] :
    (\E i \in 1 .. Len(h[s]) : h[s][i] = c) \/ InFile(F, s, c)

(* The answer is that of a query on the store as it is. *)
Answered(s, from, to, rows) ==
  /\ s \in Symbols /\ from \in Nat /\ to \in Nat
  /\ \E cold \in QueryCold(s, from, to) :
       rows = MergeByTs(cold, Ring(hot[s])!RangeQuery(from, to))

CInv ==
  /\ appended \in 0 .. MaxAppends /\ failures \in 0 .. MaxFailures
  /\ HotOK(hot, appended) /\ FilesOK(files, appended) /\ KeptOK(kept, appended)
  /\ Own(files, hot, kept) /\ Found(files, hot, kept)
  /\ answer # None => Answered(answer.sym, answer.from, answer.to, answer.rows)

LEMMA ColdInit == Init => CInv
<1> SUFFICES ASSUME Init PROVE CInv
  OBVIOUS
<1>1. /\ hot = [s \in Symbols |-> <<>>] /\ kept = [s \in Symbols |-> {}]
      /\ appended = 0 /\ failures = 0 /\ answer = None
  BY DEF Init
<1>2. appended \in 0 .. MaxAppends /\ failures \in 0 .. MaxFailures
  BY <1>1, ColdConstants
<1>3. HotOK(hot, appended) /\ KeptOK(kept, appended)
  <2>1. <<>> \in Seq(Row) /\ Len(<<>>) = 0
    OBVIOUS
  <2>2. 0 <= RingCapacity
    BY ColdConstants
  <2>3. HotOK(hot, appended)
    BY <1>1, <2>1, <2>2 DEF HotOK
  <2>4. KeptOK(kept, appended)
    BY <1>1 DEF KeptOK
  <2> QED BY <2>3, <2>4
<1>4. Own(files, hot, kept) /\ Found(files, hot, kept)
  BY <1>1 DEF Own, Found
<1>5. ASSUME NEW f \in OldFiles PROVE FileOK(f, 0)
  <2>1. PICK d \in OldDirs, t \in OldTimes,
             m \in {<<"absent", Unknown, 0>>, <<"candlestore", 1, 0>>, <<"candlestore", 2, -1>>,
                    <<"candlestore", Unknown, -1>>, <<"other", 1, -1>>} :
          f = [dir |-> d, lo |-> t, hi |-> t, n |-> 0, whole |-> TRUE,
               brand |-> m[1], version |-> m[2], rows |-> {[ts |-> t, id |-> m[3]]}]
    BY DEF OldFiles
  <2>2. t \in Nat
    BY ColdConstants
  <2>3. /\ f.lo = t /\ f.hi = t /\ f.n = 0 /\ f.brand = m[1] /\ f.version = m[2]
        /\ f.rows = {[ts |-> t, id |-> m[3]]}
    BY <2>1
  <2>4. m[3] \in {0, -1}
    OBVIOUS
  <2>5. Readable(f) => m[3] = 0
    <3> SUFFICES ASSUME m[3] # 0 PROVE ~ Compat(f)
      BY DEF Readable
    <3>1. \/ f.brand = "candlestore" /\ f.version = 2
          \/ f.brand = "candlestore" /\ f.version = Unknown
          \/ f.brand = "other"
      BY <2>3
    <3> QED BY <3>1 DEF Compat, Unknown, SchemaVersion
  <2> QED BY <2>2, <2>3, <2>4, <2>5 DEF FileOK, Row
<1>6. FilesOK(files, 0)
  <2>1. CASE files = {}
    <3>1. IsFiniteSet({})
      BY FS_EmptySet
    <3> QED BY <2>1, <3>1 DEF FilesOK
  <2>2. CASE \E f \in OldFiles : files = {f}
    <3>1. PICK f \in OldFiles : files = {f}
      BY <2>2
    <3>2. IsFiniteSet({f})
      BY FS_Singleton
    <3> QED BY <1>5, <3>1, <3>2 DEF FilesOK
  <2> QED BY <2>1, <2>2 DEF Init
<1> QED BY <1>1, <1>2, <1>3, <1>4, <1>6 DEF CInv

-----------------------------------------------------------------------------
(* What an append makes of a ring. *)
PushedTo(p, r, c) ==
  /\ p \in Seq(Row) /\ Len(p) <= RingCapacity
  /\ \A i \in 1 .. Len(p) : p[i] = c \/ \E k \in 1 .. Len(r) : p[i] = r[k]
  /\ \E i \in 1 .. Len(p) : p[i] = c
  /\ \A k \in 1 .. Len(r) : \/ \E i \in 1 .. Len(p) : p[i] = r[k]
                            \/ Len(r) = RingCapacity /\ r[k] = Head(r)

LEMMA RingPushes ==
  ASSUME NEW r \in Seq(Row), Len(r) <= RingCapacity, NEW c \in Row,
         NEW p, p = Append(IF Len(r) = RingCapacity THEN Tail(r) ELSE r, c)
  PROVE  PushedTo(p, r, c)
<1>1. PICK N \in Nat, C \in Nat \ {0} : N = Len(r) /\ C = RingCapacity
  BY ColdConstants
<1>2. CASE N = C
  <2>1. PICK t : t = Tail(r)
    OBVIOUS
  <2>2. t \in Seq(Row) /\ Len(t) = N - 1 /\ \A i \in 1 .. (N - 1) : t[i] = r[i + 1]
    <3>1. r # <<>>
      BY <1>1, <1>2
    <3> QED BY <1>1, <2>1, <3>1, HeadTailProperties
  <2>3. p = Append(t, c)
    BY <1>1, <1>2, <2>1
  <2>4. p \in Seq(Row) /\ Len(p) = N /\ p[N] = c /\ \A i \in 1 .. (N - 1) : p[i] = t[i]
    <3>1. /\ p \in Seq(Row) /\ Len(p) = Len(t) + 1 /\ p[Len(t) + 1] = c
          /\ \A i \in 1 .. Len(t) : p[i] = t[i]
      <4>1. t \in Seq(Row)
        BY <2>2
      <4>2. PICK a : a = Append(t, c)
        OBVIOUS
      <4>3. /\ a \in Seq(Row) /\ Len(a) = Len(t) + 1 /\ a[Len(t) + 1] = c
            /\ \A i \in 1 .. Len(t) : a[i] = t[i]
        BY <4>1, <4>2, AppendProperties
      <4> QED BY <2>3, <4>2, <4>3
    <3>2. Len(t) + 1 = N
      BY <1>1, <2>2
    <3> QED BY <2>2, <3>1, <3>2
  <2>5. Head(r) = r[1]
    OBVIOUS
  <2>6. ASSUME NEW i \in 1 .. N PROVE p[i] = c \/ \E k \in 1 .. N : p[i] = r[k]
    <3>1. CASE i = N
      BY <2>4, <3>1
    <3>2. CASE i # N
      <4>1. i \in 1 .. (N - 1) /\ i + 1 \in 1 .. N
        BY <3>2
      <4>2. p[i] = r[i + 1]
        BY <2>2, <2>4, <4>1
      <4> QED BY <4>1, <4>2
    <3> QED BY <3>1, <3>2
  <2>7. ASSUME NEW k \in 1 .. N PROVE (\E i \in 1 .. N : p[i] = r[k]) \/ r[k] = Head(r)
    <3>1. CASE k = 1
      BY <2>5, <3>1
    <3>2. CASE k # 1
      <4>1. k - 1 \in 1 .. (N - 1) /\ (k - 1) + 1 = k /\ k - 1 \in 1 .. N
        BY <3>2
      <4>2. p[k - 1] = r[k]
        BY <2>2, <2>4, <4>1
      <4> QED BY <4>1, <4>2
    <3> QED BY <3>1, <3>2
  <2>8. N \in 1 .. N
    BY <1>2
  <2> QED BY <1>1, <1>2, <2>4, <2>6, <2>7, <2>8 DEF PushedTo
<1>3. CASE N # C
  <2>1. p = Append(r, c)
    BY <1>1, <1>3
  <2>2. p \in Seq(Row) /\ Len(p) = N + 1 /\ p[N + 1] = c /\ \A i \in 1 .. N : p[i] = r[i]
    BY <1>1, <2>1, AppendProperties
  <2>3. N + 1 <= C /\ N + 1 \in 1 .. (N + 1) /\ 1 .. N \subseteq 1 .. (N + 1)
        /\ \A i \in 1 .. (N + 1) : i = N + 1 \/ i \in 1 .. N
    BY <1>1, <1>3
  <2>4. \A i \in 1 .. (N + 1) : p[i] = c \/ \E k \in 1 .. N : p[i] = r[k]
    BY <2>2, <2>3
  <2>5. \A k \in 1 .. N : \E i \in 1 .. (N + 1) : p[i] = r[k]
    BY <2>2, <2>3
  <2> QED BY <1>1, <2>2, <2>3, <2>4, <2>5 DEF PushedTo
<1> QED BY <1>2, <1>3

LEMMA AppendKeeps ==
  ASSUME CInv, NEW s \in Symbols, NEW t \in Times, Append1(s, t)
  PROVE  CInv'
<1>0. PICK n \in Nat : n = appended
  BY ColdConstants DEF CInv
<1>1. PICK c \in Row : n = appended /\ c = [ts |-> t, id |-> n + 1]
  <2>1. t \in Nat
    BY ColdConstants
  <2>2. [ts |-> t, id |-> n + 1] \in Row
    BY <2>1 DEF Row
  <2> QED BY <1>0, <2>2
<1>2. HotOK(hot, n) /\ FilesOK(files, n) /\ KeptOK(kept, n) /\ Own(files, hot, kept) /\ Found(files, hot, kept)
  BY <1>1 DEF CInv
<1>3. PICK r \in Seq(Row) : r = hot[s] /\ Len(r) <= RingCapacity
  BY <1>2 DEF HotOK
<1>4. PICK p, k : /\ p = Append(IF Len(r) = RingCapacity THEN Tail(r) ELSE r, c)
                  /\ k = (IF Len(r) = RingCapacity THEN kept[s] \ {Head(r)} ELSE kept[s]) \cup {c}
  OBVIOUS
<1>5. /\ hot' = [hot EXCEPT ![s] = p] /\ kept' = [kept EXCEPT ![s] = k]
      /\ appended' = n + 1 /\ answer' = None /\ files' = files /\ failures' = failures
      /\ n < MaxAppends
  BY <1>1, <1>3, <1>4 DEF Append1
<1>6. PushedTo(p, r, c)
  BY <1>3, <1>4, RingPushes
<1>7. c.id = n + 1 /\ k \subseteq kept[s] \cup {c} /\ n + 1 \in Nat
  BY <1>1, <1>4
<1>8. hot \in [Symbols -> Seq(Row)] /\ kept \in [Symbols -> SUBSET Row]
  BY <1>2 DEF HotOK, KeptOK
<1>9. /\ hot'[s] = p /\ \A u \in Symbols \ {s} : hot'[u] = hot[u]
      /\ kept'[s] = k /\ \A u \in Symbols \ {s} : kept'[u] = kept[u]
  BY <1>5, <1>8
<1>10. /\ \A u \in Symbols : \A i \in 1 .. Len(hot[u]) : hot[u][i].id \in 1 .. n /\ hot[u][i] # c
       /\ \A u \in Symbols : \A x \in kept[u] : x.id \in 1 .. n /\ x # c
       /\ \A f \in files : \A x \in f.rows : x.id <= n /\ x # c
  <2>1. n + 1 \notin 1 .. n /\ ~ (n + 1 <= n)
    OBVIOUS
  <2>2. \A u \in Symbols : \A i \in 1 .. Len(hot[u]) : hot[u][i].id \in 1 .. n
    BY <1>2 DEF HotOK
  <2>3. \A u \in Symbols : \A x \in kept[u] : x.id \in 1 .. n
    BY <1>2 DEF KeptOK
  <2>4. \A f \in files : \A x \in f.rows : x.id <= n
    BY <1>2 DEF FilesOK, FileOK
  <2> QED BY <1>7, <2>1, <2>2, <2>3, <2>4
<1>11. HotOK(hot', n + 1)
  <2>1. hot' \in [Symbols -> Seq(Row)]
    BY <1>5, <1>6, <1>8 DEF PushedTo
  <2>2. ASSUME NEW u \in Symbols
        PROVE  /\ Len(hot'[u]) <= RingCapacity
               /\ \A i \in 1 .. Len(hot'[u]) : hot'[u][i].id \in 1 .. (n + 1)
    <3>0. \A x \in 1 .. n : x \in 1 .. (n + 1)
      OBVIOUS
    <3>1. CASE u = s
      <4>1. \A i \in 1 .. Len(r) : r[i].id \in 1 .. (n + 1)
        BY <1>3, <1>10, <3>0
      <4>2. c.id \in 1 .. (n + 1)
        BY <1>7
      <4>3. \A i \in 1 .. Len(p) : p[i].id \in 1 .. (n + 1)
        BY <1>6, <4>1, <4>2 DEF PushedTo
      <4> QED BY <1>6, <1>9, <3>1, <4>3 DEF PushedTo
    <3>2. CASE u # s
      <4>1. hot'[u] = hot[u] /\ Len(hot[u]) <= RingCapacity
        BY <1>2, <1>9, <3>2 DEF HotOK
      <4> QED BY <1>10, <3>0, <4>1
    <3> QED BY <3>1, <3>2
  <2> QED BY <2>1, <2>2 DEF HotOK
<1>12. KeptOK(kept', n + 1)
  <2>1. k \in SUBSET Row
    BY <1>7, <1>8
  <2>2. kept' \in [Symbols -> SUBSET Row]
    BY <1>5, <1>8, <2>1
  <2>3. ASSUME NEW u \in Symbols, NEW x \in kept'[u] PROVE x.id \in 1 .. (n + 1)
    <3>1. x \in kept[u] \/ x = c
      BY <1>7, <1>9
    <3>2. x.id \in 1 .. n \/ x.id = n + 1
      BY <1>7, <1>10, <3>1
    <3> QED BY <3>2
  <2> QED BY <2>2, <2>3 DEF KeptOK
<1>13. FilesOK(files, n + 1)
  <2>1. ASSUME NEW f \in files PROVE FileOK(f, n + 1)
    <3>1. FileOK(f, n)
      BY <1>2 DEF FilesOK
    <3>2. \A x \in f.rows : x.id <= n + 1
      <4>1. \A x \in f.rows : x.id \in Int /\ x.id <= n
        BY <3>1 DEF FileOK, Row
      <4> QED BY <4>1
    <3> QED BY <3>1, <3>2 DEF FileOK
  <2> QED BY <1>2, <2>1 DEF FilesOK
<1>14. Own(files, hot', kept')
  <2>1. ASSUME NEW v \in Symbols, NEW u \in Symbols, NEW i \in 1 .. Len(hot'[u]), hot'[u][i] \in kept'[v]
        PROVE  u = v
    <3>1. PICK x : x = hot'[u][i]
      OBVIOUS
    <3>2. (x = c /\ u = s) \/ (x # c /\ \E j \in 1 .. Len(hot[u]) : x = hot[u][j])
      <4>1. CASE u = s
        BY <1>3, <1>6, <1>9, <1>10, <2>1, <3>1, <4>1 DEF PushedTo
      <4>2. CASE u # s
        BY <1>9, <1>10, <2>1, <3>1, <4>2
      <4> QED BY <4>1, <4>2
    <3>3. (x = c /\ v = s) \/ (x # c /\ x \in kept[v])
      BY <1>7, <1>9, <1>10, <2>1, <3>1
    <3> QED BY <1>2, <3>2, <3>3 DEF Own
  <2>2. ASSUME NEW v \in Symbols, NEW f \in files, NEW x \in f.rows, x \in kept'[v]
        PROVE  f.dir = Escape[v]
    <3>1. x \in kept[v]
      BY <1>7, <1>9, <1>10, <2>2
    <3> QED BY <1>2, <3>1 DEF Own
  <2> QED BY <2>1, <2>2 DEF Own
<1>15. Found(files, hot', kept')
  <2> SUFFICES ASSUME NEW u \in Symbols, NEW x \in kept'[u]
               PROVE  (\E i \in 1 .. Len(hot'[u]) : hot'[u][i] = x) \/ InFile(files, u, x)
    BY DEF Found
  <2>1. CASE u # s
    <3>1. hot'[u] = hot[u] /\ x \in kept[u]
      BY <1>9, <2>1
    <3> QED BY <1>2, <3>1 DEF Found
  <2>2. CASE u = s /\ x = c
    BY <1>6, <1>9, <2>2 DEF PushedTo
  <2>3. CASE u = s /\ x # c
    <3>1. x \in kept[s] /\ (Len(r) = RingCapacity => x # Head(r))
      BY <1>4, <1>9, <2>3
    <3>2. (\E i \in 1 .. Len(r) : r[i] = x) \/ InFile(files, s, x)
      BY <1>2, <1>3, <3>1 DEF Found
    <3>3. ASSUME NEW i \in 1 .. Len(r), r[i] = x PROVE \E j \in 1 .. Len(p) : p[j] = x
      BY <1>6, <3>1, <3>3 DEF PushedTo
    <3> QED BY <1>9, <2>3, <3>2, <3>3
  <2> QED BY <2>1, <2>2, <2>3
<1>16. appended' \in 0 .. MaxAppends /\ failures' \in 0 .. MaxFailures
  BY <1>1, <1>5, ColdConstants DEF CInv
<1> QED BY <1>5, <1>11, <1>12, <1>13, <1>14, <1>15, <1>16 DEF CInv

(* A spill adds a file, which has the candles of its ring and which can be *)
(* read if it was written to its end.                                      *)
LEMMA SpillAdds ==
  ASSUME CInv, NEW s \in Symbols, hot[s] # <<>>, NEW w \in BOOLEAN,
         NEW F, F = Created(SpillFile(s, w))
  PROVE  /\ files \subseteq F /\ FilesOK(F, appended) /\ Own(F, hot, kept)
         /\ w => \A i \in 1 .. Len(hot[s]) : InFile(F, s, hot[s][i])
<1>1. PICK n \in Nat : n = appended
  BY ColdConstants DEF CInv
<1>2. HotOK(hot, n) /\ FilesOK(files, n) /\ Own(files, hot, kept)
  BY <1>1 DEF CInv
<1>3. PICK f : f = SpillFile(s, w)
  OBVIOUS
<1>4. /\ F = files \cup {f} /\ FilesOK(F, n)
      /\ f.dir = Escape[s] /\ f.whole = w /\ Compat(f)
      /\ f.rows = {hot[s][i] : i \in 1 .. Len(hot[s])}
  <2>1. Created(f) = files \cup {f} /\ FilesOK(files \cup {f}, n)
    BY <1>2, <1>3, SpillFresh
  <2>2. Compat(f)
    BY <1>2, <1>3, SpillFresh
  <2>3. f.rows = {hot[s][i] : i \in 1 .. Len(hot[s])}
    <3>1. f.rows = Range(hot[s])
      BY <1>3 DEF SpillFile
    <3>2. hot[s] \in Seq(Row) /\ DOMAIN hot[s] = 1 .. Len(hot[s])
      BY <1>2 DEF HotOK
    <3> QED BY <3>1, <3>2 DEF Range
  <2>4. f.dir = Escape[s]
    BY <1>3 DEF SpillFile
  <2>5. f.whole = w
    BY <1>3 DEF SpillFile
  <2> QED BY <1>3, <2>1, <2>2, <2>3, <2>4, <2>5
<1>5. Own(F, hot, kept)
  <2>1. ASSUME NEW u \in Symbols, NEW g \in F, NEW c \in g.rows, c \in kept[u] PROVE g.dir = Escape[u]
    <3>1. CASE g \in files
      BY <1>2, <2>1, <3>1 DEF Own
    <3>2. CASE g = f
      <4>1. PICK i \in 1 .. Len(hot[s]) : c = hot[s][i]
        BY <1>4, <3>2
      <4>2. s = u
        BY <1>2, <2>1, <4>1 DEF Own
      <4> QED BY <1>4, <3>2, <4>2
    <3> QED BY <1>4, <3>1, <3>2
  <2> QED BY <1>2, <2>1 DEF Own
<1>6. ASSUME w, NEW i \in 1 .. Len(hot[s]) PROVE InFile(F, s, hot[s][i])
  <2>1. f \in F /\ Readable(f) /\ hot[s][i] \in f.rows /\ f.dir = Escape[s]
    BY <1>4, <1>6 DEF Readable
  <2> QED BY <2>1 DEF InFile
<1> QED BY <1>1, <1>4, <1>5, <1>6

LEMMA SpillKeeps ==
  ASSUME CInv, NEW s \in Symbols, Spill(s)
  PROVE  CInv'
<1>1. PICK F : F = Created(SpillFile(s, TRUE))
  OBVIOUS
<1>2. /\ hot[s] # <<>> /\ files' = F /\ hot' = [hot EXCEPT ![s] = <<>>] /\ answer' = None
      /\ appended' = appended /\ failures' = failures /\ kept' = kept
  BY <1>1 DEF Spill
<1>3. /\ files \subseteq F /\ FilesOK(F, appended) /\ Own(F, hot, kept)
      /\ \A i \in 1 .. Len(hot[s]) : InFile(F, s, hot[s][i])
  BY <1>1, <1>2, SpillAdds
<1>4. hot \in [Symbols -> Seq(Row)] /\ HotOK(hot, appended) /\ Found(files, hot, kept) /\ KeptOK(kept, appended)
  BY DEF CInv, HotOK
<1>5. <<>> \in Seq(Row) /\ Len(<<>>) = 0
  OBVIOUS
<1>6. /\ hot' \in [Symbols -> Seq(Row)] /\ hot'[s] = <<>>
      /\ \A u \in Symbols \ {s} : hot'[u] = hot[u]
  BY <1>2, <1>4, <1>5
<1>7. HotOK(hot', appended)
  <2>1. ASSUME NEW u \in Symbols
        PROVE  /\ Len(hot'[u]) <= RingCapacity
               /\ \A i \in 1 .. Len(hot'[u]) : hot'[u][i].id \in 1 .. appended
    <3>1. CASE u = s
      BY <1>5, <1>6, <3>1, ColdConstants
    <3>2. CASE u # s
      BY <1>4, <1>6, <3>2 DEF HotOK
    <3> QED BY <3>1, <3>2
  <2> QED BY <1>6, <2>1 DEF HotOK
<1>8. Own(F, hot', kept)
  <2>1. ASSUME NEW v \in Symbols, NEW u \in Symbols, NEW i \in 1 .. Len(hot'[u]), hot'[u][i] \in kept[v]
        PROVE  u = v
    <3>1. u # s
      BY <1>5, <1>6
    <3>2. hot'[u] = hot[u]
      BY <1>6, <3>1
    <3> QED BY <1>3, <2>1, <3>2 DEF Own
  <2> QED BY <1>3, <2>1 DEF Own
<1>9. Found(F, hot', kept)
  <2> SUFFICES ASSUME NEW u \in Symbols, NEW x \in kept[u]
               PROVE  (\E i \in 1 .. Len(hot'[u]) : hot'[u][i] = x) \/ InFile(F, u, x)
    BY DEF Found
  <2>1. (\E i \in 1 .. Len(hot[u]) : hot[u][i] = x) \/ InFile(files, u, x)
    BY <1>4 DEF Found
  <2>2. CASE InFile(files, u, x)
    BY <1>3, <2>2 DEF InFile
  <2>3. CASE u = s /\ \E i \in 1 .. Len(hot[u]) : hot[u][i] = x
    BY <1>3, <2>3
  <2>4. CASE u # s /\ \E i \in 1 .. Len(hot[u]) : hot[u][i] = x
    BY <1>6, <2>4
  <2> QED BY <2>1, <2>2, <2>3, <2>4
<1> QED BY <1>2, <1>3, <1>4, <1>7, <1>8, <1>9 DEF CInv

LEMMA SpillFailsKeeps ==
  ASSUME CInv, NEW s \in Symbols, SpillFails(s)
  PROVE  CInv'
<1>1. /\ hot[s] # <<>> /\ failures < MaxFailures /\ failures' = failures + 1 /\ answer' = None
      /\ hot' = hot /\ appended' = appended /\ kept' = kept
      /\ files' = files \/ files' = Created(SpillFile(s, FALSE))
  BY DEF SpillFails
<1>2. /\ HotOK(hot, appended) /\ FilesOK(files, appended) /\ KeptOK(kept, appended)
      /\ Own(files, hot, kept) /\ Found(files, hot, kept)
  BY DEF CInv
<1>3. files \subseteq files' /\ FilesOK(files', appended) /\ Own(files', hot, kept)
  <2>1. CASE files' = files
    BY <1>2, <2>1
  <2>2. CASE files' = Created(SpillFile(s, FALSE))
    <3>1. PICK F : F = Created(SpillFile(s, FALSE))
      OBVIOUS
    <3>2. files \subseteq F /\ FilesOK(F, appended) /\ Own(F, hot, kept)
      BY <1>1, <3>1, SpillAdds
    <3> QED BY <2>2, <3>1, <3>2
  <2> QED BY <1>1, <2>1, <2>2
<1>4. Found(files', hot, kept)
  <2>1. \A u \in Symbols : \A c \in kept[u] : InFile(files, u, c) => InFile(files', u, c)
    BY <1>3 DEF InFile
  <2> QED BY <1>2, <2>1 DEF Found
<1>5. appended' \in 0 .. MaxAppends /\ failures' \in 0 .. MaxFailures
  BY <1>1, ColdConstants DEF CInv
<1> QED BY <1>1, <1>2, <1>3, <1>4, <1>5 DEF CInv

(* A crash keeps the candles of the files written to their end. *)
LEMMA CrashKeeps ==
  ASSUME CInv, Crash
  PROVE  CInv'
<1>1. /\ failures < MaxFailures /\ failures' = failures + 1 /\ answer' = None
      /\ hot' = [s \in Symbols |-> <<>>] /\ appended' = appended
      /\ \/ files' = files
         \/ \E s \in Symbols, w \in BOOLEAN : hot[s] # <<>> /\ files' = Created(SpillFile(s, w))
  BY DEF Crash
<1>2. \A s \in Symbols :
         kept'[s] = kept[s] \cap UNION {f.rows : f \in {g \in files' : g.whole}}
  BY DEF Crash
<1>3. /\ HotOK(hot, appended) /\ FilesOK(files, appended) /\ KeptOK(kept, appended)
      /\ Own(files, hot, kept)
  BY DEF CInv
<1>4. FilesOK(files', appended) /\ Own(files', hot, kept)
  <2>1. CASE files' = files
    BY <1>3, <2>1
  <2>2. ASSUME NEW s \in Symbols, NEW w \in BOOLEAN, hot[s] # <<>>, files' = Created(SpillFile(s, w))
        PROVE  FilesOK(files', appended) /\ Own(files', hot, kept)
    <3>1. PICK F : F = Created(SpillFile(s, w))
      OBVIOUS
    <3>2. FilesOK(F, appended) /\ Own(F, hot, kept)
      BY <2>2, <3>1, SpillAdds
    <3> QED BY <2>2, <3>1, <3>2
  <2> QED BY <1>1, <2>1, <2>2
<1>5. KeptOK(kept', appended)
  <2>1. kept' \in [Symbols -> SUBSET Row]
    <3>1. kept' = [s \in Symbols |-> kept[s] \cap UNION {f.rows : f \in {g \in files' : g.whole}}]
      BY DEF Crash
    <3>2. \A s \in Symbols : kept[s] \subseteq Row
      BY <1>3 DEF KeptOK
    <3> QED BY <3>1, <3>2
  <2> QED BY <1>2, <1>3, <2>1 DEF KeptOK
<1>6. \A s \in Symbols : hot'[s] = <<>> /\ Len(hot'[s]) = 0
  BY <1>1
<1>7. HotOK(hot', appended)
  <2>1. <<>> \in Seq(Row)
    OBVIOUS
  <2>2. hot' \in [Symbols -> Seq(Row)]
    BY <1>1, <2>1
  <2>3. 0 <= RingCapacity
    BY ColdConstants
  <2> QED BY <1>6, <2>2, <2>3 DEF HotOK
<1>8. Own(files', hot', kept')
  <2>1. \A s \in Symbols : \A f \in files' : \A c \in f.rows : c \in kept'[s] => f.dir = Escape[s]
    BY <1>2, <1>4 DEF Own
  <2> QED BY <1>6, <2>1 DEF Own
<1>9. Found(files', hot', kept')
  <2> SUFFICES ASSUME NEW s \in Symbols, NEW c \in kept'[s] PROVE InFile(files', s, c)
    BY DEF Found
  <2>1. PICK f \in files' : f.whole /\ c \in f.rows /\ c \in kept[s]
    BY <1>2
  <2>2. f.dir = Escape[s]
    BY <1>4, <2>1 DEF Own
  <2>3. c.id \in 1 .. appended /\ FileOK(f, appended)
    BY <1>3, <1>4, <2>1 DEF KeptOK, FilesOK
  <2>4. Compat(f)
    BY <2>1, <2>3 DEF FileOK
  <2> QED BY <2>1, <2>2, <2>4 DEF InFile, Readable
<1>10. appended' \in 0 .. MaxAppends /\ failures' \in 0 .. MaxFailures
  BY <1>1, ColdConstants DEF CInv
<1> QED BY <1>1, <1>4, <1>5, <1>7, <1>8, <1>9, <1>10 DEF CInv

LEMMA QueryKeeps ==
  ASSUME CInv, NEW s \in Symbols, NEW from \in Times, NEW to \in Times, RangeQuery(s, from, to)
  PROVE  CInv'
<1>1. UNCHANGED <<hot, files, appended, failures, kept>>
  BY DEF RangeQuery
<1>2. PICK cold \in QueryCold(s, from, to) :
        answer' = [sym |-> s, from |-> from, to |-> to,
                   rows |-> MergeByTs(cold, Ring(hot[s])!RangeQuery(from, to))]
  BY DEF RangeQuery
<1>3. from \in Nat /\ to \in Nat
  BY ColdConstants
<1>4. PICK rows : rows = MergeByTs(cold, Ring(hot[s])!RangeQuery(from, to))
  OBVIOUS
<1>5. Answered(s, from, to, rows)
  BY <1>3, <1>4 DEF Answered
<1>6. answer'.sym = s /\ answer'.from = from /\ answer'.to = to /\ answer'.rows = rows
  BY <1>2, <1>4
<1>7. Answered(s, from, to, rows)'
  BY <1>1, <1>5 DEF Answered, QueryCold, ColdRows
<1>8. Answered(answer.sym, answer.from, answer.to, answer.rows)'
  BY <1>6, <1>7
<1> QED BY <1>1, <1>8 DEF CInv

LEMMA ColdStep == CInv /\ [Next]_vars => CInv'
<1> SUFFICES ASSUME CInv, [Next]_vars PROVE CInv'
  OBVIOUS
<1>1. CASE UNCHANGED vars
  <2>1. ASSUME answer # None PROVE Answered(answer.sym, answer.from, answer.to, answer.rows)'
    <3>1. PICK s, from, to, rows :
            s = answer.sym /\ from = answer.from /\ to = answer.to /\ rows = answer.rows
      OBVIOUS
    <3>2. Answered(s, from, to, rows)
      BY <2>1, <3>1 DEF CInv
    <3>3. Answered(s, from, to, rows)'
      BY <1>1, <3>2 DEF vars, Answered, QueryCold, ColdRows
    <3> QED BY <1>1, <3>1, <3>3 DEF vars
  <2> QED BY <1>1, <2>1 DEF CInv, vars
<1>2. CASE \E s \in Symbols, t \in Times : Append1(s, t)
  BY <1>2, AppendKeeps
<1>3. CASE \E s \in Symbols : Spill(s) \/ SpillFails(s)
  BY <1>3, SpillKeeps, SpillFailsKeeps
<1>4. CASE Crash
  BY <1>4, CrashKeeps
<1>5. CASE \E s \in Symbols, from \in Times, to \in Times : RangeQuery(s, from, to)
  BY <1>5, QueryKeeps
<1> QED BY <1>1, <1>2, <1>3, <1>4, <1>5 DEF Next

(* The invariant holds of every behaviour. *)
THEOREM ColdInvariant == Spec => []CInv
<1>1. Init => CInv
  BY ColdInit
<1>2. CInv /\ [Next]_vars => CInv'
  BY ColdStep
<1> QED BY <1>1, <1>2, PTL DEF Spec

(* No file is ever truncated, renamed or removed: spill finds a suffix     *)
(* that is free whatever the directory holds.                              *)
THEOREM ColdFilesStay == Spec => FilesStay
<1>1. ASSUME CInv, [Next]_vars PROVE [\A f \in files : f.whole => f \in files']_vars
  <2>1. files \subseteq files'
    <3>1. CASE UNCHANGED files
      BY <3>1
    <3>2. ASSUME NEW s \in Symbols, NEW w \in BOOLEAN, hot[s] # <<>>, files' = Created(SpillFile(s, w))
          PROVE  files \subseteq files'
      <4>1. PICK F : F = Created(SpillFile(s, w))
        OBVIOUS
      <4>2. files \subseteq F
        BY <1>1, <3>2, <4>1, SpillAdds
      <4> QED BY <3>2, <4>1, <4>2
    <3>3. \/ UNCHANGED files
          \/ \E s \in Symbols, w \in BOOLEAN : hot[s] # <<>> /\ files' = Created(SpillFile(s, w))
      BY <1>1 DEF Next, vars, Append1, Spill, SpillFails, Crash, RangeQuery
    <3> QED BY <3>1, <3>2, <3>3
  <2> QED BY <2>1
<1> QED BY <1>1, ColdInvariant, PTL DEF Spec, FilesStay

-----------------------------------------------------------------------------
(* The cold side, and the answer.                                          *)

(* The row comes from a file of s that can be read and is not pruned. *)
ColdRowOf(c, s, from, to) ==
  /\ InRange(c, from, to)
  /\ \E f \in files : /\ f.dir = Escape[s] /\ Readable(f) /\ ~Pruned(f, from, to)
                      /\ c \in f.rows

LEMMA ColdRowsAre ==
  ASSUME NEW s, NEW from, NEW to, NEW c
  PROVE  c \in ColdRows(s, from, to) <=> ColdRowOf(c, s, from, to)
BY DEF ColdRows, ColdRowOf

(* What query_cold returns: rows of such files in order, one of every      *)
(* timestamp they have in the range.                                       *)
ColdRun(q, s, from, to) ==
  /\ q \in Seq(Row) /\ Ascending(q)
  /\ \A i \in 1 .. Len(q) : ColdRowOf(q[i], s, from, to)
  /\ \A c \in ColdRows(s, from, to) : \E i \in 1 .. Len(q) : q[i].ts = c.ts

LEMMA ColdQuery ==
  ASSUME NEW n \in Nat, FilesOK(files, n), NEW s \in Symbols, NEW from \in Nat, NEW to \in Nat,
         NEW q \in QueryCold(s, from, to)
  PROVE  ColdRun(q, s, from, to)
<1>1. PICK rows : rows = ColdRows(s, from, to)
  OBVIOUS
<1>2. PICK times : times = {c.ts : c \in rows}
  OBVIOUS
<1>3. rows \subseteq Row
  BY <1>1 DEF ColdRows, FilesOK, FileOK
<1>4. IsFiniteSet(times)
  <2>1. times \subseteq from .. to
    <3> SUFFICES ASSUME NEW c \in rows PROVE c.ts \in from .. to
      BY <1>2
    <3>1. c.ts \in Nat
      BY <1>3 DEF Row
    <3>2. InRange(c, from, to)
      BY <1>1 DEF ColdRows
    <3> QED BY <3>1, <3>2 DEF InRange
  <2>2. IsFiniteSet(from .. to)
    BY FS_Interval
  <2> QED BY <2>1, <2>2, FS_Subset
<1>5. PICK N \in Nat : N = Cardinality(times)
  BY <1>4, FS_CardinalityType
<1>6. /\ q \in [1 .. N -> rows] /\ Ascending(q)
      /\ \A t \in times : \E i \in DOMAIN q : q[i].ts = t
  BY <1>1, <1>2, <1>5 DEF QueryCold
<1>7. q \in Seq(Row) /\ Len(q) = N
  BY <1>3, <1>5, <1>6
<1>8. ASSUME NEW i \in 1 .. Len(q) PROVE ColdRowOf(q[i], s, from, to)
  <2>1. q[i] \in ColdRows(s, from, to)
    BY <1>1, <1>6, <1>7
  <2> QED BY <2>1, ColdRowsAre
<1>9. ASSUME NEW c \in ColdRows(s, from, to) PROVE \E i \in 1 .. Len(q) : q[i].ts = c.ts
  BY <1>1, <1>2, <1>6, <1>7
<1> QED BY <1>6, <1>7, <1>8, <1>9 DEF ColdRun

(* A row of a file that can be read survives the pruning by name. *)
LEMMA NotPruned ==
  ASSUME NEW n \in Nat, FilesOK(files, n), NEW s \in Symbols, NEW from \in Nat, NEW to \in Nat,
         NEW c, InFile(files, s, c), InRange(c, from, to)
  PROVE  c \in ColdRows(s, from, to)
<1>1. PICK f \in files : f.dir = Escape[s] /\ Readable(f) /\ c \in f.rows
  BY DEF InFile
<1>2. FileOK(f, n)
  BY DEF FilesOK
<1>3. f.lo \in Nat /\ f.hi \in Nat /\ c \in Row /\ f.lo <= c.ts /\ c.ts <= f.hi
  BY <1>1, <1>2 DEF FileOK
<1>4. c.ts \in Nat /\ from <= c.ts /\ c.ts <= to
  BY <1>3 DEF InRange, Row
<1>5. ~Pruned(f, from, to)
  BY <1>3, <1>4 DEF Pruned
<1>6. ColdRowOf(c, s, from, to)
  BY <1>1, <1>5 DEF ColdRowOf
<1> QED BY <1>6, ColdRowsAre

(* An answer is the merge of a cold run and of a run of the ring.          *)
AnswerOf(rows, s, from, to) ==
  \E a, b : /\ ColdRun(a, s, from, to) /\ RunOf(b, hot[s], from, to)
            /\ Merged(rows, a, b, Len(a) + 1, Len(b) + 1)

LEMMA AnswerMerges ==
  ASSUME CInv, NEW s, NEW from, NEW to, NEW rows, Answered(s, from, to, rows)
  PROVE  AnswerOf(rows, s, from, to)
<1>1. s \in Symbols /\ from \in Nat /\ to \in Nat
  BY DEF Answered
<1>2. PICK n \in Nat : n = appended
  BY ColdConstants DEF CInv
<1>3. HotOK(hot, n) /\ FilesOK(files, n)
  BY <1>2 DEF CInv
<1>4. PICK a \in QueryCold(s, from, to) :
        rows = MergeByTs(a, Ring(hot[s])!RangeQuery(from, to))
  BY DEF Answered
<1>5. PICK b : b = Ring(hot[s])!RangeQuery(from, to)
  OBVIOUS
<1>6. ColdRun(a, s, from, to)
  BY <1>1, <1>3, ColdQuery
<1>7. RunOf(b, hot[s], from, to)
  <2>1. PICK r \in Seq(Row) : r = hot[s] /\ Len(r) <= RingCapacity
    BY <1>1, <1>3 DEF HotOK
  <2>2. RunOf(Ring(r)!RangeQuery(from, to), r, from, to)
    BY <1>1, <2>1, RingRange
  <2> QED BY <1>5, <2>1, <2>2
<1>8. Merged(rows, a, b, Len(a) + 1, Len(b) + 1)
  <2>1. a \in Seq(Row) /\ b \in Seq(Row)
    BY <1>6, <1>7 DEF ColdRun, RunOf
  <2>2. Merged(MergeByTs(a, b), a, b, Len(a) + 1, Len(b) + 1)
    BY <2>1, MergeIs
  <2> QED BY <1>4, <1>5, <2>2
<1> QED BY <1>6, <1>7, <1>8 DEF AnswerOf

(* Where the rows of an answer come from, and what they cover. *)
AnswerIs(rows, s, from, to) ==
  /\ rows \in Seq(Row)
  /\ \A k \in 1 .. Len(rows) : \/ ColdRowOf(rows[k], s, from, to)
                               \/ \E i \in 1 .. Len(hot[s]) : rows[k] = hot[s][i]
  /\ \A c \in ColdRows(s, from, to) : \E k \in 1 .. Len(rows) : rows[k].ts = c.ts
  /\ InOrder(hot[s]) =>
       /\ \A k \in 1 .. (Len(rows) - 1) :
            \/ rows[k].ts < rows[k + 1].ts
            \/ rows[k].ts = rows[k + 1].ts /\ Of(rows[k], hot[s]) /\ Of(rows[k + 1], hot[s])
       /\ \A k \in 1 .. Len(rows), i \in 1 .. Len(hot[s]) :
            rows[k].ts = hot[s][i].ts => Of(rows[k], hot[s])
       /\ \A k \in 1 .. Len(rows) : InRange(rows[k], from, to)
       /\ \A i \in 1 .. Len(hot[s]) :
            InRange(hot[s][i], from, to) => \E k \in 1 .. Len(rows) : rows[k] = hot[s][i]

LEMMA AnswerHolds ==
  ASSUME NEW s, NEW from, NEW to, NEW rows, AnswerOf(rows, s, from, to)
  PROVE  AnswerIs(rows, s, from, to)
<1>1. PICK a, b : /\ ColdRun(a, s, from, to) /\ RunOf(b, hot[s], from, to)
                  /\ Merged(rows, a, b, Len(a) + 1, Len(b) + 1)
  BY DEF AnswerOf
<1>2. a \in Seq(Row) /\ b \in Seq(Row)
  BY <1>1 DEF ColdRun, RunOf
<1>3. PICK A \in Nat, B \in Nat : A = Len(a) /\ B = Len(b) /\ Merged(rows, a, b, A + 1, B + 1)
  BY <1>1, <1>2
<1>4. (A + 1) - 1 = A /\ (B + 1) - 1 = B
  OBVIOUS
<1>5. /\ rows \in Seq(Row)
      /\ \A k \in 1 .. Len(rows) : \/ \E x \in 1 .. A : rows[k] = a[x]
                                   \/ \E x \in 1 .. B : rows[k] = b[x]
      /\ \A x \in 1 .. A : \E k \in 1 .. Len(rows) : rows[k].ts = a[x].ts
      /\ \A x \in 1 .. B : \E k \in 1 .. Len(rows) : rows[k] = b[x]
      /\ Ascending(a) /\ InOrder(b) => Sorted(rows, b) /\ Fresh(rows, b)
  BY <1>3, <1>4 DEF Merged
<1>6. /\ Ascending(a) /\ \A x \in 1 .. A : ColdRowOf(a[x], s, from, to)
      /\ \A c \in ColdRows(s, from, to) : \E x \in 1 .. A : a[x].ts = c.ts
  BY <1>1, <1>3 DEF ColdRun
<1>7. /\ \A x \in 1 .. B : \E i \in 1 .. Len(hot[s]) : b[x] = hot[s][i]
      /\ InOrder(hot[s]) =>
           /\ InOrder(b) /\ \A x \in 1 .. B : InRange(b[x], from, to)
           /\ \A i \in 1 .. Len(hot[s]) :
                InRange(hot[s][i], from, to) => \E x \in 1 .. B : b[x] = hot[s][i]
  BY <1>1, <1>3 DEF RunOf
<1>8. ASSUME NEW k \in 1 .. Len(rows)
      PROVE  \/ ColdRowOf(rows[k], s, from, to)
             \/ \E i \in 1 .. Len(hot[s]) : rows[k] = hot[s][i]
  <2>1. ASSUME NEW x \in 1 .. A, rows[k] = a[x] PROVE ColdRowOf(rows[k], s, from, to)
    BY <1>6, <2>1
  <2>2. ASSUME NEW x \in 1 .. B, rows[k] = b[x]
        PROVE  \E i \in 1 .. Len(hot[s]) : rows[k] = hot[s][i]
    BY <1>7, <2>2
  <2> QED BY <1>5, <2>1, <2>2
<1>9. ASSUME NEW c \in ColdRows(s, from, to) PROVE \E k \in 1 .. Len(rows) : rows[k].ts = c.ts
  <2>1. PICK x \in 1 .. A : a[x].ts = c.ts
    BY <1>6
  <2>2. PICK k \in 1 .. Len(rows) : rows[k].ts = a[x].ts
    BY <1>5
  <2> QED BY <2>1, <2>2
<1>10. ASSUME InOrder(hot[s]), NEW k \in 1 .. Len(rows) PROVE InRange(rows[k], from, to)
  <2>1. ASSUME NEW x \in 1 .. A, rows[k] = a[x] PROVE InRange(rows[k], from, to)
    BY <1>6, <2>1 DEF ColdRowOf
  <2>2. ASSUME NEW x \in 1 .. B, rows[k] = b[x] PROVE InRange(rows[k], from, to)
    BY <1>7, <1>10, <2>2
  <2> QED BY <1>5, <2>1, <2>2
<1>11. ASSUME InOrder(hot[s]), NEW i \in 1 .. Len(hot[s]), InRange(hot[s][i], from, to)
       PROVE  \E k \in 1 .. Len(rows) : rows[k] = hot[s][i]
  <2>1. PICK x \in 1 .. B : b[x] = hot[s][i]
    BY <1>7, <1>11
  <2>2. PICK k \in 1 .. Len(rows) : rows[k] = b[x]
    BY <1>5
  <2> QED BY <2>1, <2>2
<1>12. ASSUME NEW c, Of(c, b) PROVE Of(c, hot[s])
  <2>1. PICK x \in 1 .. B : c = b[x]
    BY <1>3, <1>12 DEF Of
  <2>2. PICK i \in 1 .. Len(hot[s]) : b[x] = hot[s][i]
    BY <1>7
  <2> QED BY <2>1, <2>2 DEF Of
<1>13. ASSUME InOrder(hot[s]) PROVE Sorted(rows, b) /\ Fresh(rows, b)
  <2>1. InOrder(b)
    BY <1>7, <1>13
  <2> QED BY <1>5, <1>6, <2>1
<1>14. ASSUME InOrder(hot[s]), NEW k \in 1 .. (Len(rows) - 1)
       PROVE  \/ rows[k].ts < rows[k + 1].ts
              \/ rows[k].ts = rows[k + 1].ts /\ Of(rows[k], hot[s]) /\ Of(rows[k + 1], hot[s])
  <2>1. CASE rows[k].ts < rows[k + 1].ts
    BY <2>1
  <2>2. CASE rows[k].ts = rows[k + 1].ts /\ Of(rows[k + 1], b)
    <3>1. k \in 1 .. Len(rows)
      BY <1>5
    <3>2. PICK x \in 1 .. Len(b) : rows[k + 1] = b[x]
      BY <2>2 DEF Of
    <3>3. rows[k].ts = b[x].ts
      BY <2>2, <3>2
    <3>4. Of(rows[k], b)
      BY <1>13, <1>14, <3>1, <3>3 DEF Fresh
    <3> QED BY <1>12, <2>2, <3>4
  <2> QED BY <1>13, <1>14, <2>1, <2>2 DEF Sorted
<1>15. ASSUME InOrder(hot[s]), NEW k \in 1 .. Len(rows), NEW i \in 1 .. Len(hot[s]),
              rows[k].ts = hot[s][i].ts
       PROVE  Of(rows[k], hot[s])
  <2>1. InRange(hot[s][i], from, to)
    <3>1. InRange(rows[k], from, to)
      BY <1>10, <1>15
    <3> QED BY <1>15, <3>1 DEF InRange
  <2>2. PICK x \in 1 .. B : b[x] = hot[s][i]
    BY <1>7, <1>15, <2>1
  <2>3. x \in 1 .. Len(b) /\ rows[k].ts = b[x].ts
    BY <1>3, <1>15, <2>2
  <2>4. Of(rows[k], b)
    BY <1>13, <1>15, <2>3 DEF Fresh
  <2> QED BY <1>12, <2>4
<1> QED BY <1>5, <1>8, <1>9, <1>10, <1>11, <1>14, <1>15 DEF AnswerIs

(* The rows of a sequence as a set. *)
LEMMA RowsOf ==
  ASSUME NEW rows \in Seq(Row)
  PROVE  /\ \A r \in Range(rows) : \E k \in 1 .. Len(rows) : r = rows[k]
         /\ \A k \in 1 .. Len(rows) : rows[k] \in Range(rows)
BY DEF Range

(* What AnswerRight says of the rows of a query. *)
Complete(rows, s, from, to) ==
  \A c \in kept[s] : InRange(c, from, to) =>
    (\E r \in Range(rows) : r.ts = c.ts) \/ (c \in Range(hot[s]) /\ ~InOrder(hot[s]))
Current(rows, s, from, to) ==
  InOrder(hot[s]) =>
    /\ \A k \in 1 .. (Len(rows) - 1) :
         \/ rows[k].ts < rows[k + 1].ts
         \/ rows[k].ts = rows[k + 1].ts /\ {rows[k], rows[k + 1]} \subseteq Range(hot[s])
    /\ \A r \in Range(rows) : InRange(r, from, to)
    /\ \A r \in Range(rows), h \in Range(hot[s]) : r.ts = h.ts => r \in Range(hot[s])
    /\ \A h \in Range(hot[s]) : InRange(h, from, to) => h \in Range(rows)

LEMMA AnswerFits ==
  ASSUME CInv, NEW s \in Symbols, NEW from \in Nat, NEW to \in Nat, NEW rows,
         AnswerIs(rows, s, from, to)
  PROVE  /\ Complete(rows, s, from, to) /\ Current(rows, s, from, to)
         /\ \A r \in Range(rows) : r.id >= 0
         /\ \A r \in Range(rows), u \in Symbols : r \in kept[u] => Escape[u] = Escape[s]
<1>1. PICK n \in Nat : n = appended
  BY ColdConstants DEF CInv
<1>2. HotOK(hot, n) /\ FilesOK(files, n) /\ Own(files, hot, kept) /\ Found(files, hot, kept)
  BY <1>1 DEF CInv
<1>3. rows \in Seq(Row) /\ hot[s] \in Seq(Row)
  BY <1>2 DEF AnswerIs, HotOK
<1>4. Complete(rows, s, from, to)
  <2> SUFFICES ASSUME NEW c \in kept[s], InRange(c, from, to)
               PROVE  \/ \E r \in Range(rows) : r.ts = c.ts
                      \/ c \in Range(hot[s]) /\ ~InOrder(hot[s])
    BY DEF Complete
  <2>1. ASSUME NEW k \in 1 .. Len(rows), rows[k].ts = c.ts PROVE \E r \in Range(rows) : r.ts = c.ts
    BY <1>3, <2>1, RowsOf
  <2>2. CASE InFile(files, s, c)
    <3>1. c \in ColdRows(s, from, to)
      BY <1>2, <2>2, NotPruned
    <3> QED BY <2>1, <3>1 DEF AnswerIs
  <2>3. ASSUME NEW i \in 1 .. Len(hot[s]), hot[s][i] = c
        PROVE  \/ \E r \in Range(rows) : r.ts = c.ts
               \/ c \in Range(hot[s]) /\ ~InOrder(hot[s])
    <3>1. c \in Range(hot[s])
      BY <1>3, <2>3, RowsOf
    <3>2. ASSUME InOrder(hot[s]) PROVE \E r \in Range(rows) : r.ts = c.ts
      <4>1. PICK k \in 1 .. Len(rows) : rows[k] = hot[s][i]
        BY <2>3, <3>2 DEF AnswerIs
      <4> QED BY <2>1, <2>3, <4>1
    <3> QED BY <3>1, <3>2
  <2> QED BY <1>2, <2>2, <2>3 DEF Found
<1>5. ASSUME NEW c, Of(c, hot[s]) PROVE c \in Range(hot[s])
  BY <1>3, <1>5, RowsOf DEF Of
<1>6. Current(rows, s, from, to)
  <2> SUFFICES ASSUME InOrder(hot[s]) PROVE
        /\ \A k \in 1 .. (Len(rows) - 1) :
             \/ rows[k].ts < rows[k + 1].ts
             \/ rows[k].ts = rows[k + 1].ts /\ {rows[k], rows[k + 1]} \subseteq Range(hot[s])
        /\ \A r \in Range(rows) : InRange(r, from, to)
        /\ \A r \in Range(rows), h \in Range(hot[s]) : r.ts = h.ts => r \in Range(hot[s])
        /\ \A h \in Range(hot[s]) : InRange(h, from, to) => h \in Range(rows)
    BY DEF Current
  <2>1. ASSUME NEW k \in 1 .. (Len(rows) - 1)
        PROVE  \/ rows[k].ts < rows[k + 1].ts
               \/ rows[k].ts = rows[k + 1].ts /\ {rows[k], rows[k + 1]} \subseteq Range(hot[s])
    <3>1. \/ rows[k].ts < rows[k + 1].ts
          \/ rows[k].ts = rows[k + 1].ts /\ Of(rows[k], hot[s]) /\ Of(rows[k + 1], hot[s])
      BY DEF AnswerIs
    <3> QED BY <1>5, <3>1
  <2>2. ASSUME NEW r \in Range(rows) PROVE InRange(r, from, to)
    BY <1>3, RowsOf DEF AnswerIs
  <2>3. ASSUME NEW r \in Range(rows), NEW h \in Range(hot[s]), r.ts = h.ts
        PROVE  r \in Range(hot[s])
    <3>1. PICK k \in 1 .. Len(rows) : r = rows[k]
      BY <1>3, RowsOf
    <3>2. PICK i \in 1 .. Len(hot[s]) : h = hot[s][i]
      BY <1>3, RowsOf
    <3>3. rows[k].ts = hot[s][i].ts
      BY <2>3, <3>1, <3>2
    <3>4. Of(rows[k], hot[s])
      BY <3>3 DEF AnswerIs
    <3> QED BY <1>5, <3>1, <3>4
  <2>4. ASSUME NEW h \in Range(hot[s]), InRange(h, from, to) PROVE h \in Range(rows)
    <3>1. PICK i \in 1 .. Len(hot[s]) : h = hot[s][i]
      BY <1>3, RowsOf
    <3>2. PICK k \in 1 .. Len(rows) : rows[k] = hot[s][i]
      BY <2>4, <3>1 DEF AnswerIs
    <3> QED BY <1>3, <3>1, <3>2, RowsOf
  <2> QED BY <2>1, <2>2, <2>3, <2>4
<1>7. ASSUME NEW k \in 1 .. Len(rows)
      PROVE  /\ rows[k].id >= 0
             /\ \A u \in Symbols : rows[k] \in kept[u] => Escape[u] = Escape[s]
  <2>1. CASE ColdRowOf(rows[k], s, from, to)
    <3>1. PICK f \in files : f.dir = Escape[s] /\ Readable(f) /\ rows[k] \in f.rows
      BY <2>1 DEF ColdRowOf
    <3>2. rows[k].id >= 0
      BY <1>2, <3>1 DEF FilesOK, FileOK
    <3>3. ASSUME NEW u \in Symbols, rows[k] \in kept[u] PROVE Escape[u] = Escape[s]
      <4>1. f.dir = Escape[u]
        BY <1>2, <3>1, <3>3 DEF Own
      <4> QED BY <3>1, <4>1
    <3> QED BY <3>2, <3>3
  <2>2. ASSUME NEW i \in 1 .. Len(hot[s]), rows[k] = hot[s][i]
        PROVE  /\ rows[k].id >= 0
               /\ \A u \in Symbols : rows[k] \in kept[u] => Escape[u] = Escape[s]
    <3>1. rows[k].id \in 1 .. n
      BY <1>2, <2>2 DEF HotOK
    <3>2. \A u \in Symbols : rows[k] \in kept[u] => u = s
      BY <1>2, <2>2 DEF Own
    <3>3. rows[k].id >= 0
      BY <3>1
    <3> QED BY <3>2, <3>3
  <2> QED BY <2>1, <2>2 DEF AnswerIs
<1>8. ASSUME NEW r \in Range(rows)
      PROVE  /\ r.id >= 0
             /\ \A u \in Symbols : r \in kept[u] => Escape[u] = Escape[s]
  <2>1. PICK k \in 1 .. Len(rows) : r = rows[k]
    BY <1>3, RowsOf
  <2> QED BY <1>7, <2>1
<1> QED BY <1>4, <1>6, <1>8

(* CInv is enough for the property of every answer. *)
LEMMA ColdAnswer ==
  ASSUME CInv
  PROVE  AnswerRight
<1>1. PICK n \in Nat : n = appended
  BY ColdConstants DEF CInv
<1>2. HotOK(hot, n) /\ FilesOK(files, n)
  BY <1>1 DEF CInv
<1>3. TypeOK
  <2>1. \A s \in Symbols : Len(hot[s]) <= RingCapacity
    BY <1>2 DEF HotOK
  <2>2. \A f, g \in files : <<f.dir, f.lo, f.hi, f.n>> = <<g.dir, g.lo, g.hi, g.n>> => f = g
    BY <1>2 DEF FilesOK, Name
  <2>3. \A f \in files : \A c \in f.rows : f.lo <= c.ts /\ c.ts <= f.hi
    BY <1>2 DEF FilesOK, FileOK
  <2> QED BY <2>1, <2>2, <2>3 DEF CInv, TypeOK
<1>4. ASSUME answer # None
      PROVE  AnswerComplete /\ AnswerFresh /\ NothingAlien /\ OwnCandles
  <2>1. PICK s, from, to, rows :
          s = answer.sym /\ from = answer.from /\ to = answer.to /\ rows = answer.rows
    OBVIOUS
  <2>2. Answered(s, from, to, rows)
    BY <1>4, <2>1 DEF CInv
  <2>3. s \in Symbols /\ from \in Nat /\ to \in Nat
    BY <2>2 DEF Answered
  <2>4. AnswerIs(rows, s, from, to)
    BY <2>2, AnswerMerges, AnswerHolds
  <2>5. /\ Complete(rows, s, from, to) /\ Current(rows, s, from, to)
        /\ \A r \in Range(rows) : r.id >= 0
        /\ \A r \in Range(rows), u \in Symbols : r \in kept[u] => Escape[u] = Escape[s]
    BY <2>3, <2>4, AnswerFits
  <2>6. AnswerComplete
    BY <2>1, <2>5 DEF AnswerComplete, Complete, HotInOrder, Rows
  <2>7. AnswerFresh
    BY <2>1, <2>5 DEF AnswerFresh, Current, HotInOrder, Rows
  <2>8. NothingAlien
    BY <2>1, <2>5 DEF NothingAlien, Rows
  <2>9. OwnCandles
    BY <2>1, <2>5 DEF OwnCandles, Rows
  <2> QED BY <2>6, <2>7, <2>8, <2>9
<1>5. CASE answer = None
  BY <1>3, <1>5 DEF AnswerComplete, AnswerFresh, NothingAlien, OwnCandles, AnswerRight
<1> QED BY <1>3, <1>4, <1>5 DEF AnswerRight

(* What a range query over hot and cold serves, whatever spills failed and *)
(* wherever the store crashed: a candle that was kept, its timestamp at    *)
(* the least, unless it is in a ring with late candles; with the ring in   *)
(* order, equal timestamps allowed, rows in order and the ring's candles   *)
(* before any stale spill; no row of a file check_schema_compat rejects,   *)
(* and another symbol's only out of a shared directory.                    *)
THEOREM ColdAnswerRight == Spec => []AnswerRight
<1>1. CInv => AnswerRight
  BY ColdAnswer
<1> QED BY <1>1, ColdInvariant, PTL
=============================================================================
