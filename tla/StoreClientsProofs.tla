------------------------- MODULE StoreClientsProofs -------------------------
(***************************************************************************)
(* The ring buffer and the programs that embed it.  For any capacity and   *)
(* any sequence of pushes the circular array holds the newest candles in   *)
(* order, to_vec and last_n copy exactly those and range the window asked  *)
(* for; RangeN of the Go client, whatever is appended between its calls,   *)
(* and candlestore_range return whole answers; the Binance feed stores     *)
(* every closed kline its connections carry once and in order; and the     *)
(* rings sized for a machine fit the cache they are sized for.             *)
(***************************************************************************)
EXTENDS CAbi, BinanceFeed, Hardware, NatLemmas, SequenceTheorems, TLAPS

(* The physical view: candle j lies in slot (j - 1) mod Capacity until     *)
(* Capacity newer ones have been pushed.                                   *)
SlotInv ==
  /\ head = Len(hist) % Capacity
  /\ len = IF Len(hist) < Capacity THEN Len(hist) ELSE Capacity
  /\ \A j \in 1 .. Len(hist) :
       j > Len(hist) - Capacity => buf[(j - 1) % Capacity] = hist[j]

(* last_ts is the newest candle's timestamp. *)
StampInv ==
  /\ (lastTs = NoTime) <=> (hist = <<>>)
  /\ hist # <<>> => lastTs = hist[Len(hist)].ts

BInv == TypeOK /\ SlotInv /\ StampInv /\ InOrderIsSorted

-----------------------------------------------------------------------------
(* A new ring is zeroed. *)
LEMMA InitBInv == Init => BInv
<1> SUFFICES ASSUME Init PROVE BInv
  OBVIOUS
<1>1. Capacity \in Nat \ {0} /\ 0 % Capacity = 0
  BY BufferConstants
<1>2. TypeOK
  BY <1>1 DEF Init, TypeOK, Candle, Blank
<1>3. SlotInv
  BY <1>1 DEF Init, SlotInv
<1>4. StampInv /\ InOrderIsSorted
  BY DEF Init, StampInv, InOrderIsSorted, Sorted
<1> QED BY <1>2, <1>3, <1>4 DEF BInv

(* A push replaces the one candle that is a full ring old. *)
LEMMA PushKeeps ==
  ASSUME BInv, NEW t \in Times, Push(t)
  PROVE  BInv'
<1> DEFINE L == Len(hist)
<1> DEFINE c == [ts |-> t, id |-> L + 1]
<1>1. /\ Capacity \in Nat \ {0} /\ t \in Nat /\ t # NoTime /\ L \in Nat /\ c \in Candle
      /\ hist \in Seq(Candle)
  BY BufferConstants DEF BInv, TypeOK, Candle
<1>2. /\ hist' = Append(hist, c) /\ hist' \in Seq(Candle) /\ Len(hist') = L + 1
      /\ hist'[L + 1] = c /\ \A j \in 1 .. L : hist'[j] = hist[j]
  BY <1>1 DEF Push
<1>3. head' = (L + 1) % Capacity /\ head' \in 0 .. (Capacity - 1)
  <2>1. L + 1 \in Nat
    BY <1>1
  <2>2. head' = (L + 1) % Capacity
    BY <1>1, NextRemainder DEF BInv, SlotInv, Push
  <2> QED BY <1>1, <2>1, <2>2, DivMod
<1>4. TypeOK'
  <2>1. head \in 0 .. (Capacity - 1) /\ buf' \in [0 .. (Capacity - 1) -> Candle]
    BY <1>1 DEF BInv, TypeOK, Push
  <2> QED BY <1>1, <1>2, <1>3, <2>1 DEF BInv, TypeOK, Push, Grown
<1>5. SlotInv'
  <2>1. len' = IF Len(hist') < Capacity THEN Len(hist') ELSE Capacity
    BY <1>1, <1>2 DEF BInv, SlotInv, Push, Grown
  <2>2. SUFFICES ASSUME NEW j \in 1 .. Len(hist'), j > Len(hist') - Capacity
                 PROVE  buf'[(j - 1) % Capacity] = hist'[j]
    BY <1>2, <1>3, <2>1 DEF SlotInv
  <2>3. /\ head = L % Capacity /\ buf' = [buf EXCEPT ![head] = c]
        /\ buf \in [0 .. (Capacity - 1) -> Candle] /\ head \in 0 .. (Capacity - 1)
    BY DEF BInv, SlotInv, TypeOK, Push
  <2>4. CASE j = L + 1
    <3>1. j - 1 = L
      BY <1>1, <2>4
    <3> QED BY <1>1, <1>2, <2>3, <2>4, <3>1
  <2>5. CASE j \in 1 .. L
    <3>1. j - 1 \in Nat /\ j - 1 < L /\ L - (j - 1) < Capacity /\ j > L - Capacity
      BY <1>1, <1>2, <2>2, <2>5
    <3>2. (j - 1) % Capacity # L % Capacity /\ (j - 1) % Capacity \in 0 .. (Capacity - 1)
      BY <1>1, <3>1, RemaindersApart, DivMod
    <3>3. buf[(j - 1) % Capacity] = hist[j]
      BY <2>5, <3>1 DEF BInv, SlotInv
    <3> QED BY <1>2, <2>3, <2>5, <3>2, <3>3
  <2>6. j = L + 1 \/ j \in 1 .. L
    BY <1>1, <1>2
  <2> QED BY <2>4, <2>5, <2>6
<1>6. StampInv'
  BY <1>1, <1>2 DEF StampInv, Push
<1>7. InOrderIsSorted'
  <2>1. Sorted' <=> Sorted /\ (L > 0 => hist[L].ts <= t)
    <3>1. Sorted' <=> \A i \in 1 .. L : hist'[i].ts <= hist'[i + 1].ts
      BY <1>1, <1>2 DEF Sorted
    <3>2. \A i \in 1 .. (L - 1) : i \in 1 .. L /\ i + 1 \in 1 .. L
      BY <1>1
    <3>3. hist'[L + 1].ts = t
      BY <1>2
    <3>4. Sorted <=> \A i \in 1 .. (L - 1) : hist'[i].ts <= hist'[i + 1].ts
      BY <1>2, <3>2 DEF Sorted
    <3>5. L > 0 => L \in 1 .. L /\ hist'[L] = hist[L]
      BY <1>1, <1>2
    <3>6. \A i \in 1 .. L : i \in 1 .. (L - 1) \/ (i = L /\ L > 0)
      BY <1>1
    <3> QED BY <1>1, <3>1, <3>2, <3>3, <3>4, <3>5, <3>6
  <2>2. Backwards(t) <=> (L > 0 /\ t < hist[L].ts)
    BY <1>1 DEF BInv, StampInv, Backwards
  <2>3. L > 0 => hist[L].ts \in Nat
    <3>1. L > 0 => hist[L] \in Candle
      BY <1>1
    <3> QED BY <3>1 DEF Candle
  <2>4. outOfOrder \in Nat /\ outOfOrder' = IF Backwards(t) THEN outOfOrder + 1 ELSE outOfOrder
    BY DEF BInv, TypeOK, Push
  <2>5. outOfOrder' = 0 <=> outOfOrder = 0 /\ ~ Backwards(t)
    BY <2>4
  <2>6. ~ Backwards(t) <=> (L > 0 => hist[L].ts <= t)
    BY <1>1, <2>2, <2>3
  <2> QED BY <2>1, <2>5, <2>6 DEF BInv, InOrderIsSorted
<1> QED BY <1>4, <1>5, <1>6, <1>7 DEF BInv

(* The inductive invariant holds of every behaviour of the ring. *)
THEOREM BufferInvariant == Spec => []BInv
<1>1. Init => BInv
  BY InitBInv
<1>2. BInv /\ [Next]_vars => BInv'
  <2> SUFFICES ASSUME BInv, [Next]_vars PROVE BInv'
    OBVIOUS
  <2>1. CASE UNCHANGED vars
    BY <2>1 DEF BInv, TypeOK, SlotInv, StampInv, InOrderIsSorted, Sorted, vars
  <2> QED BY <2>1, PushKeeps DEF Next, Done
<1> QED BY <1>1, <1>2, PTL DEF Spec

(* Fields keep their types: no write outside the array. *)
THEOREM BufferTypeCorrect == Spec => []TypeOK
<1>1. BInv => TypeOK
  BY DEF BInv
<1> QED BY <1>1, BufferInvariant, PTL

(* The arithmetic of physical_idx: one conditional subtraction is a modulo. *)
LEMMA LogicalSlot ==
  ASSUME NEW N \in Nat \ {0}, NEW L \in Nat, NEW i \in Nat, i < N, L >= N
  PROVE  (L - N + i) % N = IF (L % N) + i >= N THEN (L % N) + i - N ELSE (L % N) + i
<1> DEFINE q == L \div N
<1> DEFINE r == L % N
<1>1. L = N * q + r /\ q \in Nat /\ r \in 0 .. (N - 1)
  BY DivMod
<1> HIDE DEF q, r
<1>2. CASE r + i < N
  <2>1. L - N + i = N * (q - 1) + (r + i) /\ r + i \in 0 .. (N - 1) /\ q - 1 \in Int
    BY <1>1, <1>2
  <2>2. (N * (q - 1) + (r + i)) % N = r + i
    BY <2>1, ModOf
  <2> QED BY <1>1, <1>2, <2>1, <2>2 DEF r
<1>3. CASE r + i >= N
  <2>1. L - N + i = N * q + (r + i - N) /\ r + i - N \in 0 .. (N - 1) /\ q \in Int
    BY <1>1, <1>3
  <2>2. (N * q + (r + i - N)) % N = r + i - N
    BY <2>1, ModOf
  <2> QED BY <1>1, <1>3, <2>1, <2>2 DEF r
<1> QED BY <1>1, <1>2, <1>3

(* physical_idx is the slot of the candle at that logical position. *)
LEMMA PhysicalSlot ==
  ASSUME BInv, NEW i \in Nat, i < len
  PROVE  Physical(i) = (Len(hist) - len + i) % Capacity
<1>1. /\ Capacity \in Nat \ {0} /\ Len(hist) \in Nat /\ len \in Nat
      /\ len = (IF Len(hist) < Capacity THEN Len(hist) ELSE Capacity)
      /\ head = Len(hist) % Capacity
  BY BufferConstants DEF BInv, TypeOK, SlotInv
<1>2. CASE Len(hist) < Capacity
  <2>1. Len(hist) - len + i = i /\ i < Capacity /\ len < Capacity /\ i % Capacity = i
    BY <1>1, <1>2
  <2>2. Physical(i) = i
    BY <1>1, <2>1 DEF Physical
  <2> QED BY <2>1, <2>2
<1>3. CASE Len(hist) >= Capacity
  <2>1. len = Capacity /\ i < Capacity
    BY <1>1, <1>3
  <2>2. (Len(hist) - Capacity + i) % Capacity
          = IF head + i >= Capacity THEN head + i - Capacity ELSE head + i
    BY <1>1, <1>3, <2>1, LogicalSlot
  <2>3. Physical(i) = IF head + i >= Capacity THEN head + i - Capacity ELSE head + i
    BY <1>1, <2>1 DEF Physical
  <2> QED BY <2>1, <2>2, <2>3
<1>4. Len(hist) < Capacity \/ Len(hist) >= Capacity
  BY <1>1
<1> QED BY <1>2, <1>3, <1>4

(* Reading by logical position gives the newest candles, oldest first. *)
LEMMA HoldsNewestOf == BInv => HoldsNewest
<1> SUFFICES ASSUME BInv PROVE HoldsNewest
  OBVIOUS
<1>1. Capacity \in Nat \ {0} /\ Len(hist) \in Nat /\ len \in 0 .. Capacity
      /\ len = (IF Len(hist) < Capacity THEN Len(hist) ELSE Capacity)
  BY BufferConstants DEF BInv, TypeOK, SlotInv
<1>2. ASSUME NEW i \in 0 .. (len - 1)
      PROVE  buf[Physical(i)] = hist[Len(hist) - len + 1 + i]
  <2> DEFINE j == Len(hist) - len + 1 + i
  <2>1. /\ i \in Nat /\ len \in Nat /\ Len(hist) \in Nat /\ Capacity \in Nat
        /\ i < len /\ len <= Capacity /\ len <= Len(hist)
    BY <1>1
  <2>2. j \in 1 .. Len(hist) /\ j > Len(hist) - Capacity /\ j - 1 = Len(hist) - len + i
    BY <2>1
  <2>3. buf[(j - 1) % Capacity] = hist[j]
    BY <2>2 DEF BInv, SlotInv
  <2> QED BY <2>1, <2>2, <2>3, PhysicalSlot
<1> QED BY <1>1, <1>2 DEF HoldsNewest

THEOREM BufferHoldsNewest == Spec => []HoldsNewest
BY HoldsNewestOf, BufferInvariant, PTL

(* A chunk is a run of the array. *)
LEMMA ChunkIs ==
  ASSUME BInv, NEW a \in Nat, NEW b \in Nat, a <= b, b <= Capacity
  PROVE  /\ Chunk(a, b) \in Seq(Candle) /\ Len(Chunk(a, b)) = b - a
         /\ \A i \in 1 .. (b - a) : Chunk(a, b)[i] = buf[a + i - 1]
<1>1. Capacity \in Nat /\ b - a \in Nat /\ buf \in [0 .. (Capacity - 1) -> Candle]
  BY BufferConstants DEF BInv, TypeOK
<1>2. \A i \in 1 .. (b - a) : a + i - 1 \in 0 .. (Capacity - 1)
  BY <1>1
<1>3. \A i \in 1 .. (b - a) : buf[a + i - 1] \in Candle
  BY <1>1, <1>2
<1> QED BY <1>1, <1>3 DEF Chunk

(* The copy of a run of positions, in one chunk or in two, reads every     *)
(* position once and in order.                                             *)
LEMMA CopyRun ==
  ASSUME BInv, NEW lo \in Nat, NEW hi \in Nat, lo < hi, hi <= len
  PROVE  /\ CopyRange(lo, hi) \in Seq(Candle) /\ Len(CopyRange(lo, hi)) = hi - lo
         /\ \A i \in 1 .. (hi - lo) : CopyRange(lo, hi)[i] = hist[Len(hist) - len + lo + i]
<1> DEFINE copy == CopyRange(lo, hi)
<1>0. PICK n \in Nat : n = hi - lo /\ lo + n <= len /\ n >= 1
  <2>1. hi - lo \in Nat /\ lo + (hi - lo) <= len /\ hi - lo >= 1
    BY DEF BInv, TypeOK
  <2> QED BY <2>1
<1>1. /\ Capacity \in Nat \ {0} /\ head \in 0 .. (Capacity - 1) /\ len \in 0 .. Capacity
      /\ hist \in Seq(Candle) /\ Len(hist) \in Nat /\ len <= Len(hist)
  BY BufferConstants DEF BInv, TypeOK, SlotInv
<1>2. PICK base \in 0 .. (Capacity - 1) : base = IF len < Capacity THEN 0 ELSE head
  BY <1>0, <1>1
<1>3. \A i \in 0 .. (len - 1) :
        Physical(i) = IF base + i >= Capacity THEN base + i - Capacity ELSE base + i
  BY <1>0, <1>1, <1>2 DEF Physical
<1>4. PICK start \in 0 .. (Capacity - 1) :
        /\ start = Physical(lo)
        /\ start = IF base + lo >= Capacity THEN base + lo - Capacity
                   ELSE base + lo
  <2>1. lo \in 0 .. (len - 1) /\ lo \in Nat
    BY <1>0, <1>1
  <2>2. Physical(lo) = (IF base + lo >= Capacity THEN base + lo - Capacity
                             ELSE base + lo)
    BY <1>3, <2>1
  <2>3. Physical(lo) \in 0 .. (Capacity - 1)
    BY <1>0, <1>1, <1>2, <2>1, <2>2
  <2> QED BY <2>2, <2>3
<1>5. \A i \in 1 .. n : /\ lo + i - 1 \in 0 .. (len - 1)
                        /\ buf[Physical(lo + i - 1)] = hist[Len(hist) - len + lo + i]
  <2> SUFFICES ASSUME NEW i \in 1 .. n
               PROVE  /\ lo + i - 1 \in 0 .. (len - 1)
                      /\ buf[Physical(lo + i - 1)] = hist[Len(hist) - len + lo + i]
    OBVIOUS
  <2>1. /\ lo + i - 1 \in 0 .. (len - 1)
        /\ Len(hist) - len + 1 + (lo + i - 1) = Len(hist) - len + lo + i
    BY <1>0, <1>1
  <2> QED BY <2>1, HoldsNewestOf DEF HoldsNewest
<1>7. /\ copy \in Seq(Candle) /\ Len(copy) = n
      /\ \A i \in 1 .. n : copy[i] = buf[Physical(lo + i - 1)]
  <2>0. hi - lo = n /\ lo # hi
    BY <1>0
  <2>1. CASE start + n <= Capacity
    <3>1. copy = Chunk(start, start + n)
      BY <1>4, <2>0, <2>1 DEF CopyRange
    <3>2. start + n - start = n /\ start \in Nat /\ start + n \in Nat /\ start <= start + n
      BY <1>0, <1>1, <1>4
    <3>3. /\ Chunk(start, start + n) \in Seq(Candle)
          /\ Len(Chunk(start, start + n)) = (start + n) - start
          /\ \A i \in 1 .. ((start + n) - start) : Chunk(start, start + n)[i] = buf[start + i - 1]
      BY <2>1, <3>2, ChunkIs
    <3>4. \A i \in 1 .. n : start + i - 1 = Physical(lo + i - 1)
      BY <1>0, <1>1, <1>2, <1>3, <1>4, <1>5, <2>1
    <3>5. \A i \in 1 .. n : copy[i] = buf[start + i - 1]
      BY <3>1, <3>2, <3>3
    <3>6. copy \in Seq(Candle) /\ Len(copy) = n
      BY <3>1, <3>2, <3>3
    <3> HIDE DEF copy
    <3> QED BY <3>4, <3>5, <3>6
  <2>2. CASE ~(start + n <= Capacity)
    <3>1. PICK m \in Nat : m = Capacity - start
      <4>1. Capacity - start \in Nat
        BY <1>0, <1>1
      <4> QED BY <4>1
    <3>2. /\ n - m \in Nat /\ n - m <= Capacity /\ n - m - 0 = n - m
          /\ start \in Nat /\ start <= Capacity /\ 0 <= n - m /\ Capacity \in Nat
      BY <1>0, <1>1, <2>2, <3>1
    <3>3. PICK one \in Seq(Candle) :
            /\ one = Chunk(start, Capacity) /\ Len(one) = m
            /\ \A i \in 1 .. m : one[i] = buf[start + i - 1]
      <4>1. /\ Chunk(start, Capacity) \in Seq(Candle)
            /\ Len(Chunk(start, Capacity)) = Capacity - start
            /\ \A i \in 1 .. (Capacity - start) : Chunk(start, Capacity)[i] = buf[start + i - 1]
        <5>1. Capacity <= Capacity
          BY <3>2
        <5> QED BY <3>2, <5>1, ChunkIs
      <4> QED BY <3>1, <4>1
    <3>4. PICK two \in Seq(Candle) :
            /\ two = Chunk(0, n - m) /\ Len(two) = n - m
            /\ \A i \in 1 .. (n - m) : two[i] = buf[i - 1]
      <4>1. /\ Chunk(0, n - m) \in Seq(Candle) /\ Len(Chunk(0, n - m)) = n - m - 0
            /\ \A i \in 1 .. (n - m - 0) : Chunk(0, n - m)[i] = buf[0 + i - 1]
        <5>1. 0 \in Nat
          OBVIOUS
        <5> QED BY <3>2, <5>1, ChunkIs
      <4>2. \A i \in 1 .. (n - m) : 0 + i - 1 = i - 1
        BY <3>2
      <4> QED BY <3>2, <4>1, <4>2
    <3>0. copy = one \o two
      BY <1>4, <2>0, <2>2, <3>1, <3>3, <3>4 DEF CopyRange
    <3> HIDE DEF copy
    <3>5. /\ copy \in Seq(Candle) /\ Len(copy) = n
          /\ \A i \in 1 .. n : copy[i] = IF i <= m THEN one[i] ELSE two[i - m]
      <4>1. Len(one) + Len(two) = n
        BY <3>2, <3>3, <3>4
      <4> QED BY <3>0, <3>3, <3>4, <4>1, ConcatProperties
    <3>6. \A i \in 1 .. m : copy[i] = buf[start + i - 1]
      BY <3>2, <3>3, <3>5
    <3>7. \A i \in (m + 1) .. n : copy[i] = buf[i - m - 1]
      <4> SUFFICES ASSUME NEW i \in (m + 1) .. n PROVE copy[i] = buf[i - m - 1]
        OBVIOUS
      <4>1. i - m \in 1 .. (n - m) /\ i > Len(one) /\ i \in 1 .. (Len(one) + Len(two))
        BY <3>2, <3>3, <3>4
      <4>2. copy[i] = two[i - m]
        BY <3>2, <3>3, <3>5, <4>1
      <4> QED BY <3>4, <4>1, <4>2
    <3>8. start = base + lo /\ base + lo < Capacity
      BY <1>0, <1>1, <1>2, <1>4, <2>2
    <3>9. \A i \in 1 .. m : Physical(lo + i - 1) = start + i - 1
      BY <1>0, <1>1, <1>2, <1>3, <1>5, <2>2, <3>1, <3>2, <3>8
    <3>10. \A i \in (m + 1) .. n : Physical(lo + i - 1) = i - m - 1
      BY <1>0, <1>1, <1>2, <1>3, <1>5, <2>2, <3>1, <3>2, <3>8
    <3>11. \A i \in 1 .. n : i \in 1 .. m \/ i \in (m + 1) .. n
      BY <3>2
    <3> QED BY <3>5, <3>6, <3>7, <3>9, <3>10, <3>11
  <2> QED BY <2>1, <2>2
<1> HIDE DEF copy
<1>8. \A i \in 1 .. n : copy[i] = hist[Len(hist) - len + lo + i]
  BY <1>5, <1>7
<1> QED BY <1>0, <1>7, <1>8 DEF copy

(* The newest n candles, as a sequence. *)
LEMMA NewestIs ==
  ASSUME BInv, NEW n \in Nat, n <= len
  PROVE  /\ Newest(n) \in Seq(Candle) /\ Len(Newest(n)) = n
         /\ \A i \in 1 .. n : Newest(n)[i] = hist[Len(hist) - n + i]
<1>1. hist \in Seq(Candle) /\ Len(hist) \in Nat /\ n <= Len(hist)
  BY BufferConstants DEF BInv, TypeOK, SlotInv
<1>2. /\ Len(hist) - n + 1 \in 1 .. (Len(hist) + 1) /\ Len(hist) \in 0 .. Len(hist)
      /\ Len(hist) - (Len(hist) - n + 1) + 1 = n
  BY <1>1
<1>3. \A i \in 1 .. n : Len(hist) - n + 1 + i - 1 = Len(hist) - n + i
  BY <1>1
<1>4. \A i \in (Len(hist) - n + 1) .. Len(hist) : hist[i] \in Candle
  BY <1>1, <1>2
<1>5. Newest(n) \in Seq(Candle)
  BY <1>1, <1>2, <1>4 DEF Newest
<1> QED BY <1>1, <1>2, <1>3, <1>5 DEF Newest

(* The copy of the last n positions. *)
LEMMA CopySuffix ==
  ASSUME BInv, NEW n \in Nat, n >= 1, n <= len
  PROVE  CopyRange(len - n, len) = Newest(n)
<1>1. /\ len \in Nat /\ Len(hist) \in Nat /\ len - n \in Nat /\ len - n < len /\ len <= len
      /\ len - (len - n) = n
      /\ \A i \in 1 .. n : Len(hist) - len + (len - n) + i = Len(hist) - n + i
  BY BufferConstants DEF BInv, TypeOK
<1>2. PICK copy \in Seq(Candle) :
        /\ copy = CopyRange(len - n, len) /\ Len(copy) = n
        /\ \A i \in 1 .. n : copy[i] = hist[Len(hist) - n + i]
  BY <1>1, CopyRun
<1>3. \A i \in 1 .. n : copy[i] = Newest(n)[i]
  BY <1>2, NewestIs
<1> QED BY <1>2, <1>3, NewestIs, SeqEqual

-----------------------------------------------------------------------------
(* range bisects on the timestamps. *)

(* Logical position i holds hist[Len(hist) - len + 1 + i]. *)
LEMMA TsAtIs ==
  ASSUME BInv, NEW i \in 0 .. (len - 1)
  PROVE  /\ TsAt(i) = hist[Len(hist) - len + 1 + i].ts /\ TsAt(i) \in Nat
         /\ Len(hist) - len + 1 + i \in 1 .. Len(hist)
<1>1. /\ hist \in Seq(Candle) /\ Len(hist) \in Nat /\ len \in Nat /\ len <= Len(hist)
  BY BufferConstants DEF BInv, TypeOK, SlotInv
<1>2. Len(hist) - len + 1 + i \in 1 .. Len(hist)
  BY <1>1
<1>3. PICK c \in Candle : c = hist[Len(hist) - len + 1 + i]
  BY <1>1, <1>2
<1>4. buf[Physical(i)] = c
  BY <1>3, HoldsNewestOf DEF HoldsNewest
<1> QED BY <1>2, <1>3, <1>4 DEF TsAt, Candle

(* A history sorted pair by pair is sorted. *)
LEMMA SortedAll ==
  ASSUME BInv, Sorted, NEW i \in 1 .. Len(hist), NEW j \in 1 .. Len(hist), i <= j
  PROVE  hist[i].ts <= hist[j].ts
<1>1. hist \in Seq(Candle) /\ Len(hist) \in Nat
  BY DEF BInv, TypeOK
<1>2. \A k \in 1 .. Len(hist) : hist[k].ts \in Nat
  <2>1. \A k \in 1 .. Len(hist) : hist[k] \in Candle
    BY <1>1
  <2> QED BY <2>1 DEF Candle
<1> DEFINE Good == {d \in 0 .. (Len(hist) - i) : hist[i].ts <= hist[i + d].ts}
<1>3. 0 \in Good
  <2>1. i + 0 = i /\ 0 \in 0 .. (Len(hist) - i) /\ hist[i].ts <= hist[i].ts
    BY <1>1, <1>2
  <2> QED BY <2>1
<1>4. ASSUME NEW d \in 0 .. (Len(hist) - i - 1), d \in Good PROVE d + 1 \in Good
  <2>1. /\ i + d \in 1 .. (Len(hist) - 1) /\ i + d \in 1 .. Len(hist)
        /\ i + d + 1 \in 1 .. Len(hist) /\ i + (d + 1) = i + d + 1
        /\ d + 1 \in 0 .. (Len(hist) - i)
    BY <1>1
  <2>2. hist[i + d].ts <= hist[i + d + 1].ts
    BY <2>1 DEF Sorted
  <2>3. hist[i].ts <= hist[i + d].ts
    BY <1>4
  <2>4. hist[i].ts <= hist[i + (d + 1)].ts
    BY <1>2, <2>1, <2>2, <2>3
  <2> QED BY <2>1, <2>4
<1>5. Len(hist) - i \in Nat /\ j - i \in 0 .. (Len(hist) - i) /\ i + (j - i) = j
  BY <1>1
<1>6. j - i \in Good
  <2> HIDE DEF Good
  <2> QED BY <1>3, <1>4, <1>5, UpTo
<1> QED BY <1>5, <1>6

(* The two bisections never cross. *)
LEMMA BoundsInside ==
  ASSUME BInv, NEW from \in Times, NEW to \in Times, from <= to
  PROVE  /\ LowerBound(from) \in 0 .. len /\ UpperBound(to) \in 0 .. len
         /\ LowerBound(from) <= UpperBound(to)
<1>1. len \in Nat /\ from \in Nat /\ to \in Nat
  BY BufferConstants DEF BInv, TypeOK
<1>2. Below(from) \subseteq BelowEq(to)
  <2>1. \A i \in 0 .. (len - 1) : TsAt(i) < from => TsAt(i) <= to
    BY <1>1, TsAtIs
  <2> QED BY <2>1 DEF Below, BelowEq
<1>4. \A right : Bisect(right, len) \in 0 .. len
  BY <1>1, BisectInside
<1>5. Bisect(Below(from), len) <= Bisect(BelowEq(to), len)
  BY <1>1, <1>2, EndsInOrder
<1> QED BY <1>4, <1>5 DEF LowerBound, UpperBound

LEMMA BoundsOrdered == BInv => BoundsNeverCross
<1>1. BInv => len \in Nat
  BY BufferConstants DEF BInv, TypeOK
<1> QED BY <1>1, BoundsInside DEF BoundsNeverCross

(* On a sorted ring they are where the window begins and ends. *)
LEMMA BoundsSplit ==
  ASSUME BInv, Sorted, NEW from \in Times, NEW to \in Times
  PROVE  /\ LowerBound(from) \in 0 .. len /\ UpperBound(to) \in 0 .. len
         /\ \A i \in 0 .. (len - 1) : TsAt(i) < from <=> i < LowerBound(from)
         /\ \A i \in 0 .. (len - 1) : TsAt(i) <= to <=> i < UpperBound(to)
<1>1. /\ len \in Nat /\ from \in Nat /\ to \in Nat /\ Len(hist) \in Nat /\ len <= Len(hist)
  BY BufferConstants DEF BInv, TypeOK, SlotInv
<1>2. \A i, j \in 0 .. (len - 1) : i <= j => TsAt(i) <= TsAt(j)
  <2> SUFFICES ASSUME NEW i \in 0 .. (len - 1), NEW j \in 0 .. (len - 1), i <= j
               PROVE  TsAt(i) <= TsAt(j)
    OBVIOUS
  <2>1. Len(hist) - len + 1 + i <= Len(hist) - len + 1 + j
    BY <1>1
  <2> QED BY <2>1, TsAtIs, SortedAll
<1>3. \A i \in 0 .. (len - 1) : TsAt(i) \in Nat
  BY TsAtIs
<1>4. /\ Bisect(Below(from), len) \in 0 .. len
      /\ \A i \in 0 .. (len - 1) : i \in Below(from) <=> i < Bisect(Below(from), len)
  <2>1. /\ Below(from) \subseteq 0 .. (len - 1)
        /\ \A i, j \in 0 .. (len - 1) : i <= j /\ j \in Below(from) => i \in Below(from)
    BY <1>1, <1>2, <1>3 DEF Below
  <2> QED BY <1>1, <2>1, EndSplits
<1>5. /\ Bisect(BelowEq(to), len) \in 0 .. len
      /\ \A i \in 0 .. (len - 1) : i \in BelowEq(to) <=> i < Bisect(BelowEq(to), len)
  <2>1. /\ BelowEq(to) \subseteq 0 .. (len - 1)
        /\ \A i, j \in 0 .. (len - 1) : i <= j /\ j \in BelowEq(to) => i \in BelowEq(to)
    BY <1>1, <1>2, <1>3 DEF BelowEq
  <2> QED BY <1>1, <2>1, EndSplits
<1>6. \A i \in 0 .. (len - 1) : (i \in Below(from) <=> TsAt(i) < from)
                                 /\ (i \in BelowEq(to) <=> TsAt(i) <= to)
  BY DEF Below, BelowEq
<1> QED BY <1>4, <1>5, <1>6 DEF LowerBound, UpperBound

(* The reference selects candle by candle: what it has found of the        *)
(* positions K when it has looked at n.                                    *)
Found(K) ==
  CHOOSE f : f = [n \in 0 .. len |->
                    IF n = 0 THEN <<>>
                    ELSE IF n \in K THEN Append(f[n - 1], Newest(len)[n]) ELSE f[n - 1]]

LEMMA FoundOf ==
  ASSUME len \in Nat, NEW K
  PROVE  Found(K)[0] = <<>> /\ \A n \in 1 .. len :
           Found(K)[n] = IF n \in K THEN Append(Found(K)[n - 1], Newest(len)[n])
                         ELSE Found(K)[n - 1]
<1> DEFINE Step(g, n) == IF n = 0 THEN <<>>
                         ELSE IF n \in K THEN Append(g[n - 1], Newest(len)[n])
                         ELSE g[n - 1]
<1> DEFINE Good == {m \in 0 .. len : \E g : g = [n \in 0 .. m |-> Step(g, n)]}
<1>1. 0 \in Good
  <2> DEFINE g == [n \in 0 .. 0 |-> <<>>]
  <2>1. g = [n \in 0 .. 0 |-> Step(g, n)]
    OBVIOUS
  <2> HIDE DEF g, Step
  <2> QED BY <2>1
<1>2. ASSUME NEW m \in 0 .. (len - 1), m \in Good PROVE m + 1 \in Good
  <2>1. PICK g : g = [n \in 0 .. m |-> Step(g, n)]
    BY <1>2
  <2> DEFINE h == [n \in 0 .. (m + 1) |-> IF n <= m THEN g[n] ELSE Step(g, n)]
  <2>2. \A n \in 0 .. m : h[n] = g[n]
    OBVIOUS
  <2>3. \A n \in 0 .. (m + 1) : h[n] = Step(g, n)
    <3> SUFFICES ASSUME NEW n \in 0 .. (m + 1) PROVE h[n] = Step(g, n)
      OBVIOUS
    <3>1. n \in 0 .. m => g[n] = Step(g, n)
      <4> HIDE DEF Step
      <4> QED BY <2>1
    <3> HIDE DEF Step
    <3> QED BY <3>1
  <2>4. \A n \in 0 .. (m + 1) : Step(h, n) = Step(g, n)
    <3> SUFFICES ASSUME NEW n \in 0 .. (m + 1) PROVE Step(h, n) = Step(g, n)
      OBVIOUS
    <3>1. n # 0 => n - 1 \in 0 .. m
      OBVIOUS
    <3> HIDE DEF h
    <3> QED BY <2>2, <3>1
  <2>5. h = [n \in 0 .. (m + 1) |-> Step(h, n)]
    <3>1. h = [n \in 0 .. (m + 1) |-> h[n]]
      OBVIOUS
    <3> HIDE DEF h, Step
    <3> QED BY <2>3, <2>4, <3>1
  <2>6. m + 1 \in 0 .. len
    OBVIOUS
  <2> HIDE DEF h, Step
  <2> QED BY <2>5, <2>6
<1>3. len \in Good
  <2> HIDE DEF Good, Step
  <2>1. \A m \in 0 .. (len - 1) : m \in Good => m + 1 \in Good
    BY <1>2
  <2>2. 0 .. len \subseteq Good
    BY <1>1, <2>1, UpTo
  <2> QED BY <2>2
<1>4. PICK g : g = [n \in 0 .. len |-> Step(g, n)]
  BY <1>3
<1>5. Found(K) = [n \in 0 .. len |-> Step(Found(K), n)]
  BY <1>4 DEF Found
<1>6. \A n \in 0 .. len : Found(K)[n] = Step(Found(K), n)
  <2> HIDE DEF Step
  <2> QED BY <1>5
<1>7. \A n \in 1 .. len : n \in 0 .. len /\ n # 0
  OBVIOUS
<1>8. Found(K)[0] = <<>>
  BY <1>6
<1> QED BY <1>6, <1>7, <1>8

LEMMA OneMore ==
  ASSUME NEW q \in Seq(Candle), NEW c \in Candle, NEW p, p = Append(q, c)
  PROVE  /\ p \in Seq(Candle) /\ Len(p) = Len(q) + 1 /\ p[Len(q) + 1] = c
         /\ \A i \in 1 .. Len(q) : p[i] = q[i]
OBVIOUS

(* When the positions are a + 1 .. b, it has found the run of those passed. *)
LEMMA FoundIs ==
  ASSUME BInv, NEW a \in 0 .. len, NEW b \in 0 .. len, a <= b, NEW K,
         \A n \in 1 .. len : n \in K <=> (a < n /\ n <= b)
  PROVE  /\ Found(K)[len] \in Seq(Candle) /\ Len(Found(K)[len]) = b - a
         /\ \A i \in 1 .. (b - a) : Found(K)[len][i] = Newest(len)[a + i]
<1> DEFINE Passed(n) == IF n <= a THEN 0 ELSE IF n <= b THEN n - a ELSE b - a
<1> DEFINE Good == {m \in 0 .. len :
                      /\ Found(K)[m] \in Seq(Candle) /\ Len(Found(K)[m]) = Passed(m)
                      /\ \A i \in 1 .. Passed(m) : Found(K)[m][i] = Newest(len)[a + i]}
<1>0. len \in Nat /\ len <= len
  BY BufferConstants DEF BInv, TypeOK
<1>1. 0 \in Good
  <2>1. Passed(0) = 0
    BY <1>0
  <2>2. Found(K)[0] \in Seq(Candle) /\ Len(Found(K)[0]) = 0
    <3>1. Found(K)[0] = <<>>
      BY <1>0, FoundOf, Zenon
    <3>2. <<>> \in Seq(Candle) /\ Len(<<>>) = 0
      OBVIOUS
    <3> QED BY <3>1, <3>2, Zenon
  <2>3. 0 \in 0 .. len /\ \A i \in 1 .. 0 : FALSE
    BY <1>0
  <2> HIDE DEF Passed
  <2> QED BY <2>1, <2>2, <2>3
<1>2. ASSUME NEW m \in 0 .. (len - 1), m \in Good PROVE m + 1 \in Good
  <2>1. /\ m + 1 \in 0 .. len /\ m + 1 \in 1 .. len /\ (m + 1) - 1 = m
    BY <1>0
  <2>2. PICK q \in Seq(Candle) : q = Found(K)[m] /\ Len(q) = Passed(m)
                                 /\ \A i \in 1 .. Passed(m) : q[i] = Newest(len)[a + i]
    BY <1>2
  <2>3. PICK p : p = Found(K)[m + 1] /\ p = IF m + 1 \in K THEN Append(q, Newest(len)[m + 1]) ELSE q
    <3>1. Found(K)[m + 1] = IF m + 1 \in K THEN Append(Found(K)[(m + 1) - 1], Newest(len)[m + 1])
                            ELSE Found(K)[(m + 1) - 1]
      BY <1>0, <2>1, FoundOf, Zenon
    <3> QED BY <2>1, <2>2, <3>1, Zenon
  <2>4. CASE a < m + 1 /\ m + 1 <= b
    <3>1. p = Append(q, Newest(len)[m + 1])
      BY <2>1, <2>3, <2>4
    <3>2. Passed(m) = m - a /\ Passed(m + 1) = m - a + 1 /\ m - a \in Nat /\ a + (m - a + 1) = m + 1
      BY <1>0, <2>4
    <3>3. PICK c \in Candle : c = Newest(len)[m + 1]
      <4>1. Newest(len) \in Seq(Candle) /\ Len(Newest(len)) = len
        BY <1>0, NewestIs
      <4> QED BY <2>1, <4>1
    <3>4. /\ p \in Seq(Candle) /\ Len(p) = Len(q) + 1 /\ p[Len(q) + 1] = c
          /\ \A i \in 1 .. Len(q) : p[i] = q[i]
      BY <3>1, <3>3, OneMore
    <3>5. Len(p) = m - a + 1 /\ (\A i \in 1 .. (m - a) : p[i] = q[i])
          /\ p[m - a + 1] = Newest(len)[m + 1]
      BY <2>2, <3>2, <3>3, <3>4
    <3>6. \A i \in 1 .. (m - a + 1) : p[i] = Newest(len)[a + i]
      <4>1. \A i \in 1 .. (m - a + 1) : i \in 1 .. (m - a) \/ i = m - a + 1
        BY <3>2
      <4> QED BY <2>2, <3>2, <3>5, <4>1
    <3> HIDE DEF Passed
    <3> QED BY <2>1, <2>3, <3>2, <3>4, <3>5, <3>6
  <2>5. CASE ~ (a < m + 1 /\ m + 1 <= b)
    <3>1. p = q
      BY <2>1, <2>3, <2>5
    <3>2. Passed(m + 1) = Passed(m)
      BY <1>0, <2>5
    <3> HIDE DEF Passed
    <3> QED BY <2>1, <2>2, <2>3, <3>1, <3>2
  <2> QED BY <2>4, <2>5
<1>3. len \in Good
  <2> HIDE DEF Good, Passed
  <2>1. \A m \in 0 .. (len - 1) : m \in Good => m + 1 \in Good
    BY <1>2
  <2>2. 0 .. len \subseteq Good
    BY <1>0, <1>1, <2>1, UpTo
  <2> QED BY <1>0, <2>2
<1>4. Passed(len) = b - a
  BY <1>0
<1> HIDE DEF Passed
<1> QED BY <1>3, <1>4

(* So the reference is the run of candles after the a oldest, up to b. *)
LEMMA WindowIs ==
  ASSUME BInv, NEW from \in Times, NEW to \in Times, NEW a \in 0 .. len, NEW b \in 0 .. len,
         a <= b, \A i \in 0 .. (len - 1) : (from <= TsAt(i) /\ TsAt(i) <= to) <=> (a <= i /\ i < b)
  PROVE  /\ InWindow(from, to) \in Seq(Candle) /\ Len(InWindow(from, to)) = b - a
         /\ \A i \in 1 .. (b - a) : InWindow(from, to)[i] = hist[Len(hist) - len + a + i]
<1> DEFINE K == {n \in 1 .. len : from <= Newest(len)[n].ts /\ Newest(len)[n].ts <= to}
<1>1. len \in Nat /\ from \in Int /\ to \in Int /\ len <= len /\ Len(hist) \in Nat
  BY BufferConstants DEF BInv, TypeOK
<1>2. \A i \in 1 .. len : Newest(len)[i] = hist[Len(hist) - len + i]
  BY <1>1, NewestIs
<1>3. \A n \in 1 .. len : n \in K <=> (a < n /\ n <= b)
  <2> SUFFICES ASSUME NEW n \in 1 .. len
               PROVE  (from <= Newest(len)[n].ts /\ Newest(len)[n].ts <= to) <=> (a < n /\ n <= b)
    OBVIOUS
  <2>1. /\ n - 1 \in 0 .. (len - 1) /\ Len(hist) - len + 1 + (n - 1) = Len(hist) - len + n
        /\ (a <= n - 1 /\ n - 1 < b <=> a < n /\ n <= b)
    BY <1>1
  <2>2. TsAt(n - 1) = Newest(len)[n].ts
    BY <1>2, <2>1, TsAtIs
  <2> QED BY <2>1, <2>2
<1>4. InWindow(from, to) = Found(K)[len]
  BY DEF InWindow, Found
<1> HIDE DEF K
<1>5. /\ Found(K)[len] \in Seq(Candle) /\ Len(Found(K)[len]) = b - a
      /\ \A i \in 1 .. (b - a) : Found(K)[len][i] = Newest(len)[a + i]
  BY <1>3, FoundIs
<1>6. \A i \in 1 .. (b - a) : a + i \in 1 .. len /\ Len(hist) - len + (a + i) = Len(hist) - len + a + i
  BY <1>1
<1> QED BY <1>2, <1>4, <1>5, <1>6

(* On timestamps in order, range returns exactly the window. *)
LEMMA RangeIsExact == BInv => RangeExact
<1> SUFFICES ASSUME BInv, Sorted, NEW from \in Times, NEW to \in Times
             PROVE  RangeQuery(from, to) = InWindow(from, to)
  BY DEF RangeExact
<1>1. len \in Nat /\ from \in Nat /\ to \in Nat /\ \A i \in 0 .. (len - 1) : TsAt(i) \in Nat
  BY BufferConstants, TsAtIs DEF BInv, TypeOK
<1>2. CASE len = 0 \/ from > to
  <2>1. \A i \in 0 .. (len - 1) : (from <= TsAt(i) /\ TsAt(i) <= to) <=> (0 <= i /\ i < 0)
    BY <1>1, <1>2
  <2>2. 0 \in 0 .. len /\ 0 <= 0 /\ 0 - 0 = 0
    BY <1>1
  <2>3. InWindow(from, to) \in Seq(Candle) /\ Len(InWindow(from, to)) = 0
    BY <2>1, <2>2, WindowIs
  <2>4. InWindow(from, to) = <<>>
    BY <2>3
  <2> QED BY <1>2, <2>4 DEF RangeQuery
<1>3. CASE len # 0 /\ from <= to
  <2>1. PICK a \in 0 .. len, b \in 0 .. len :
          /\ a = LowerBound(from) /\ b = UpperBound(to)
          /\ \A i \in 0 .. (len - 1) : TsAt(i) < from <=> i < a
          /\ \A i \in 0 .. (len - 1) : TsAt(i) <= to <=> i < b
    BY BoundsSplit
  <2>2. a <= b
    <3>1. len > 0
      BY <1>1, <1>3
    <3> QED BY <1>3, <2>1, <3>1, BoundsOrdered DEF BoundsNeverCross
  <2>3. \A i \in 0 .. (len - 1) : (from <= TsAt(i) /\ TsAt(i) <= to) <=> (a <= i /\ i < b)
    BY <1>1, <2>1
  <2>4. PICK w \in Seq(Candle) : /\ w = InWindow(from, to) /\ Len(w) = b - a
                                 /\ \A i \in 1 .. (b - a) : w[i] = hist[Len(hist) - len + a + i]
    BY <2>2, <2>3, WindowIs
  <2>5. RangeQuery(from, to) = CopyRange(a, b)
    <3>1. ~ (from > to)
      BY <1>1, <1>3
    <3> QED BY <1>3, <2>1, <3>1 DEF RangeQuery
  <2>6. CASE a = b
    <3>1. w = <<>>
      BY <2>4, <2>6
    <3> QED BY <2>4, <2>5, <2>6, <3>1 DEF CopyRange
  <2>7. CASE a < b
    <3>1. PICK c \in Seq(Candle) : /\ c = CopyRange(a, b) /\ Len(c) = b - a
                                   /\ \A i \in 1 .. (b - a) : c[i] = hist[Len(hist) - len + a + i]
      <4>1. a \in Nat /\ b \in Nat /\ b <= len
        BY <1>1
      <4> QED BY <2>7, <4>1, CopyRun
    <3>2. b - a \in Nat /\ \A i \in 1 .. (b - a) : c[i] = w[i]
      BY <2>4, <2>7, <3>1
    <3>3. c = w
      BY <2>4, <3>1, <3>2, SeqEqual
    <3> QED BY <2>4, <2>5, <3>1, <3>3
  <2> QED BY <1>1, <2>2, <2>6, <2>7
<1> QED BY <1>1, <1>2, <1>3

-----------------------------------------------------------------------------
(* to_vec and last_n return exactly the newest candles, oldest first,      *)
(* whether the ring is filling, full, or wraps in the middle of the copy.  *)
THEOREM BufferCopiesNewest == Spec => []CopiesNewest
<1>1. BInv => CopiesNewest
  <2> SUFFICES ASSUME BInv PROVE CopiesNewest
    OBVIOUS
  <2>1. Capacity \in Nat /\ len \in Nat /\ hist \in Seq(Candle) /\ Len(hist) \in Nat
    BY BufferConstants DEF BInv, TypeOK
  <2>2. Newest(0) = <<>>
    BY <2>1 DEF Newest
  <2>3. ToVec = Newest(len)
    <3>1. CASE len = 0
      BY <2>2, <3>1 DEF ToVec, CopyRange
    <3>2. CASE len # 0
      <4>1. len >= 1 /\ len <= len /\ len - len = 0
        BY <2>1, <3>2
      <4>2. CopyRange(len - len, len) = Newest(len)
        BY <2>1, <4>1, CopySuffix
      <4> QED BY <4>1, <4>2 DEF ToVec
    <3> QED BY <3>1, <3>2
  <2>4. ASSUME NEW n \in 0 .. (Capacity + 1)
        PROVE  LastN(n) = Newest(IF n < len THEN n ELSE len)
    <3>1. PICK take \in Nat : take = IF n < len THEN n ELSE len
      BY <2>1
    <3>2. take <= len
      BY <2>1, <3>1
    <3>3. LastN(n) = IF take = 0 THEN <<>> ELSE CopyRange(len - take, len)
      BY <3>1 DEF LastN
    <3>4. take # 0 => CopyRange(len - take, len) = Newest(take)
      BY <3>2, CopySuffix
    <3> QED BY <2>2, <3>1, <3>3, <3>4
  <2> QED BY <2>3, <2>4 DEF CopiesNewest
<1> QED BY <1>1, BufferInvariant, PTL

(* What to_vec, last_n and range return is right in every ring: range is   *)
(* the exact window while timestamps came in order, and its bisections     *)
(* never cross even when they did not.                                     *)
THEOREM BufferQueriesExact == Spec => []QueriesExact
BY RangeIsExact, BoundsOrdered, BufferCopiesNewest, BufferInvariant, PTL DEF QueriesExact

(* out_of_order_total at zero is a sound licence for the binary search. *)
THEOREM BufferInOrder == Spec => []InOrderIsSorted
<1>1. BInv => InOrderIsSorted
  BY DEF BInv
<1> QED BY <1>1, BufferInvariant, PTL

-----------------------------------------------------------------------------
(* CAbi: the C ABI and the Go client over the ring.                        *)

LEMMA MinOf ==
  ASSUME NEW x \in Int, NEW y \in Int
  PROVE  Min({x, y}) = IF x <= y THEN x ELSE y
BY DEF Min

LEMMA MaxOf ==
  ASSUME NEW x \in Int, NEW y \in Int
  PROVE  Max({x, y}) = IF x >= y THEN x ELSE y
BY DEF Max

(* Whatever the order of the timestamps, range returns a sequence. *)
LEMMA RangeIsSeq ==
  ASSUME BInv, NEW from \in Times, NEW to \in Times
  PROVE  RangeQuery(from, to) \in Seq(Candle)
<1>1. len \in Nat /\ from \in Nat /\ to \in Nat
  BY BufferConstants DEF BInv, TypeOK
<1>2. CASE len = 0 \/ from > to
  BY <1>2 DEF RangeQuery
<1>3. CASE len # 0 /\ from <= to
  <2>1. PICK a \in Nat, b \in Nat :
          a = LowerBound(from) /\ b = UpperBound(to) /\ a <= b /\ b <= len
    BY <1>1, <1>3, BoundsInside
  <2>2. RangeQuery(from, to) = CopyRange(a, b)
    <3>1. ~ (from > to)
      BY <1>1, <1>3
    <3> QED BY <1>3, <2>1, <3>1 DEF RangeQuery
  <2>3. a < b => CopyRange(a, b) \in Seq(Candle)
    BY <2>1, CopyRun
  <2>4. a = b => CopyRange(a, b) \in Seq(Candle)
    BY DEF CopyRange
  <2> QED BY <2>1, <2>2, <2>3, <2>4
<1> QED BY <1>1, <1>2, <1>3

(* The first n candles of an answer. *)
Cut(found, n) == SubSeq(found, 1, n)

LEMMA PrefixIs ==
  ASSUME NEW found \in Seq(Candle), NEW n \in Int, n <= Len(found), NEW a, a = Cut(found, n)
  PROVE  /\ a \in Seq(Candle) /\ (n > 0 => Len(a) = n) /\ (n <= 0 => a = <<>>)
         /\ IsPrefix(a, found) /\ (n = Len(found) => a = found)
<1> USE DEF Cut
<1>1. CASE n <= 0
  <2>1. a = <<>>
    BY <1>1
  <2>2. SubSeq(a, 1, Len(a)) = <<>> /\ SubSeq(found, 1, Len(a)) = <<>>
    BY <2>1
  <2>3. n = Len(found) => found = <<>>
    BY <1>1
  <2> QED BY <1>1, <2>1, <2>2, <2>3 DEF IsPrefix
<1>2. CASE n > 0
  <2>1. a \in Seq(Candle) /\ Len(a) = n
    <3>1. 1 \in 1 .. Len(found) + 1 /\ n \in (1 - 1) .. Len(found) /\ n - 1 + 1 = n /\ 1 <= n
      BY <1>2
    <3>2. \A i \in 1 .. n : found[i] \in Candle
      BY <1>2
    <3> QED BY <3>1, <3>2
  <2>2. SubSeq(a, 1, Len(a)) = a
    BY <2>1, SubSeqFull
  <2>3. IsPrefix(a, found)
    BY <2>1, <2>2 DEF IsPrefix
  <2>4. n = Len(found) => a = found
    BY SubSeqFull
  <2> QED BY <1>2, <2>1, <2>3, <2>4
<1> QED BY <1>1, <1>2

(* The ring is sound, what is asked for is one of the callers' windows,    *)
(* and nothing is live before New.                                         *)
AbiInv == BInv /\ AbiExact /\ (rpc # "idle" => window \in Windows)

LEMMA AbiInit1 == AbiInit => AbiInv
<1> SUFFICES ASSUME AbiInit PROVE AbiInv
  OBVIOUS
<1>1. BInv
  BY InitBInv DEF AbiInit
<1>2. AbiExact /\ (rpc # "idle" => window \in Windows)
  BY DEF AbiInit, AbiExact, AbiTypeOK, RangeWhole, BufferKept, NoWindow
<1> QED BY <1>1, <1>2 DEF AbiInv

(* A ring that has not moved, or was pushed to, is still sound. *)
LEMMA SameRing == ASSUME BInv, UNCHANGED vars PROVE BInv'
BY DEF BInv, TypeOK, SlotInv, StampInv, InOrderIsSorted, Sorted, vars

(* candlestore_range found all the store has, and reports what fits. *)
LEMMA CountIs ==
  ASSUME AbiInv, NEW w \in Windows, NEW n \in Int
  PROVE  \E found \in Seq(Candle), count \in Int :
           /\ found = RangeQuery(w.from, w.to)
           /\ count = RangeCount(RangeQuery(w.from, w.to), n)
           /\ count = IF ptr # "live" \/ n < 0 THEN -1 ELSE IF Len(found) <= n THEN Len(found) ELSE n
           /\ count <= Len(found)
<1>1. w.from \in Times /\ w.to \in Times
  BY AbiConstants
<1>2. PICK found \in Seq(Candle) : found = RangeQuery(w.from, w.to)
  BY <1>1, RangeIsSeq DEF AbiInv
<1>3. Len(found) \in Nat
  OBVIOUS
<1>4. Min({Len(found), n}) = IF Len(found) <= n THEN Len(found) ELSE n
  BY <1>3, MinOf
<1>5. PICK count \in Int : 
           /\ count = RangeCount(found, n)
           /\ count = IF ptr # "live" \/ n < 0 THEN -1 ELSE IF Len(found) <= n THEN Len(found) ELSE n
  BY <1>3, <1>4 DEF RangeCount
<1>6. count <= Len(found)
  BY <1>3, <1>5
<1> QED BY <1>2, <1>5, <1>6

(* A C caller's candlestore_range. *)
LEMMA CRangeKeeps ==
  ASSUME AbiInv, NEW w \in Windows, NEW n \in Asked, CRange(w, n)
  PROVE  AbiExact' /\ window' \in Windows
<1>1. n \in Int
  BY AbiConstants
<1>2. PICK found \in Seq(Candle), count \in Int :
        /\ found = RangeQuery(w.from, w.to)
        /\ count = RangeCount(RangeQuery(w.from, w.to), n)
        /\ count = IF ptr # "live" \/ n < 0 THEN -1 ELSE IF Len(found) <= n THEN Len(found) ELSE n
        /\ count <= Len(found)
  BY <1>1, CountIs
<1>3. /\ ptr' = ptr /\ rpc' = "returned" /\ window' = w /\ max' = n
      /\ answer' = SubSeq(found, 1, count)
      /\ matching' = IF ptr = "live" THEN found ELSE <<>>
  BY <1>2 DEF CRange
<1>4. /\ answer' \in Seq(Candle) /\ Len(answer') = (IF count > 0 THEN count ELSE 0)
      /\ IsPrefix(answer', found) /\ (count = Len(found) => answer' = found)
  <2>1. PICK a : a = Cut(found, count)
    OBVIOUS
  <2>2. /\ a \in Seq(Candle) /\ (count > 0 => Len(a) = count) /\ (count <= 0 => a = <<>>)
        /\ IsPrefix(a, found) /\ (count = Len(found) => a = found)
    <3>1. count <= Len(found)
      BY <1>2
    <3> QED BY <2>1, <3>1, PrefixIs
  <2>3. answer' = a
    BY <1>3, <2>1 DEF Cut
  <2>4. Len(a) = (IF count > 0 THEN count ELSE 0)
    BY <2>2
  <2> QED BY <2>2, <2>3, <2>4
<1>5. Max({n, 0}) = IF n >= 0 THEN n ELSE 0
  BY <1>1, MaxOf
<1>6. AbiTypeOK'
  BY <1>3 DEF AbiInv, AbiExact, AbiTypeOK
<1>7. RangeWhole'
  BY <1>3 DEF RangeWhole
<1>8. BufferKept'
  <2>1. CASE ptr = "live"
    <3>1. matching' = found
      BY <1>3, <2>1
    <3>2. Len(answer') <= Max({max', 0})
      BY <1>1, <1>2, <1>3, <1>4, <1>5, <2>1
    <3>3. max' > Len(answer') => answer' = matching'
      BY <1>1, <1>2, <1>3, <1>4, <2>1, <3>1
    <3> QED BY <1>4, <3>1, <3>2, <3>3 DEF BufferKept
  <2>2. CASE ptr # "live"
    <3>1. matching' = <<>> /\ Len(answer') = 0 /\ answer' = <<>>
      BY <1>2, <1>3, <1>4, <2>2
    <3>2. IsPrefix(<<>>, <<>>)
      BY DEF IsPrefix
    <3>3. Len(answer') <= Max({max', 0})
      BY <1>1, <1>3, <1>5, <3>1
    <3> QED BY <3>1, <3>2, <3>3 DEF BufferKept
  <2> QED BY <2>1, <2>2
<1> QED BY <1>3, <1>6, <1>7, <1>8 DEF AbiExact

(* RangeN's last call, and its answer. *)
LEMMA AnswersKeeps ==
  ASSUME AbiInv, RangeAnswers
  PROVE  AbiExact' /\ window' \in Windows
<1>0. rpc = "call" /\ window \in Windows /\ max \in 1 .. MaxRangeCap /\ MaxRangeCap \in Nat
  BY AbiConstants DEF RangeAnswers, AbiInv, AbiExact, AbiTypeOK
<1>1. max \in Int
  BY <1>0
<1>2. PICK found \in Seq(Candle), count \in Int :
        /\ found = RangeQuery(window.from, window.to)
        /\ count = RangeCount(RangeQuery(window.from, window.to), max)
        /\ count = IF ptr # "live" \/ max < 0 THEN -1
                   ELSE IF Len(found) <= max THEN Len(found) ELSE max
        /\ count <= Len(found)
  BY <1>0, <1>1, CountIs
<1>3. /\ ptr' = ptr /\ rpc' = "answered" /\ window' = window /\ max' = max
      /\ answer' = IF count <= 0 THEN <<>> ELSE SubSeq(found, 1, count)
      /\ matching' = IF ptr = "live" THEN found ELSE <<>>
      /\ count <= 0 \/ ~ (count = max /\ max < MaxRangeCap)
  BY <1>2 DEF RangeAnswers, Grows
<1>4. AbiTypeOK' /\ BufferKept'
  BY <1>0, <1>3 DEF AbiInv, AbiExact, AbiTypeOK, BufferKept
<1>5. IsPrefix(<<>>, <<>>)
  BY DEF IsPrefix
<1>6. RangeWhole'
  <2>1. CASE count <= 0
    <3>1. ptr = "live" => Len(found) = 0
      BY <1>0, <1>2, <2>1
    <3>2. answer' = <<>> /\ matching' = <<>>
      <4>1. Len(found) = 0 => found = <<>>
        OBVIOUS
      <4> QED BY <1>3, <2>1, <3>1, <4>1
    <3> QED BY <1>5, <3>2 DEF RangeWhole
  <2>2. CASE count > 0
    <3>1. ptr = "live" /\ matching' = found /\ answer' = SubSeq(found, 1, count)
      BY <1>2, <1>3, <2>2
    <3>2. /\ Len(answer') = count /\ IsPrefix(answer', found)
          /\ (count = Len(found) => answer' = found)
      <4>1. PICK a : a = Cut(found, count)
        OBVIOUS
      <4>2. Len(a) = count /\ IsPrefix(a, found) /\ (count = Len(found) => a = found)
        BY <1>2, <2>2, <4>1, PrefixIs
      <4>3. answer' = a
        BY <3>1, <4>1 DEF Cut
      <4> QED BY <4>2, <4>3
    <3>3. count = Len(found) \/ count = MaxRangeCap
      BY <1>0, <1>2, <1>3, <2>2, <3>1
    <3> QED BY <3>1, <3>2, <3>3 DEF RangeWhole
  <2> QED BY <1>2, <2>1, <2>2
<1> QED BY <1>0, <1>3, <1>4, <1>6 DEF AbiExact

(* A buffer is never longer than the largest, nor empty. *)
LEMMA GrowsKeeps ==
  ASSUME AbiInv, RangeGrows
  PROVE  AbiExact' /\ window' \in Windows
<1>0. rpc = "call" /\ window \in Windows /\ max \in 1 .. MaxRangeCap /\ MaxRangeCap \in Nat
  BY AbiConstants DEF RangeGrows, AbiInv, AbiExact, AbiTypeOK
<1>1. 2 * max \in Int /\ MaxRangeCap \in Int
  BY <1>0
<1>2. Min({2 * max, MaxRangeCap}) \in 1 .. MaxRangeCap
  BY <1>0, <1>1, MinOf
<1> QED BY <1>0, <1>2 DEF RangeGrows, AbiInv, AbiExact, AbiTypeOK, RangeWhole, BufferKept

LEMMA RangeNKeeps ==
  ASSUME AbiInv, NEW w \in Windows, NEW n \in Asked, RangeN(w, n)
  PROVE  AbiExact' /\ window' \in Windows
<1>0. n \in Int /\ MaxRangeCap \in Int /\ DefaultRangeCap \in 1 .. MaxRangeCap
  BY AbiConstants
<1>1. Min({n, MaxRangeCap}) = IF n <= MaxRangeCap THEN n ELSE MaxRangeCap
  BY <1>0, MinOf
<1>2. Clamped(n) \in 1 .. MaxRangeCap
  BY <1>0, <1>1 DEF Clamped
<1> QED BY <1>2 DEF RangeN, AbiInv, AbiExact, AbiTypeOK, RangeWhole, BufferKept

(* The inductive invariant holds of every behaviour of the ABI. *)
THEOREM AbiInvariant == AbiSpec => []AbiInv
<1>1. AbiInv /\ [AbiNext]_<<vars, abiVars>> => AbiInv'
  <2> SUFFICES ASSUME AbiInv, [AbiNext]_<<vars, abiVars>> PROVE AbiInv'
    OBVIOUS
  <2> USE DEF AbiInv
  <2>1. CASE UNCHANGED <<vars, abiVars>>
    <3>1. UNCHANGED vars /\ UNCHANGED abiVars
      BY <2>1
    <3> QED BY <3>1, SameRing DEF abiVars, readVars, AbiExact, AbiTypeOK, RangeWhole, BufferKept
  <2>2. ASSUME NEW n \in {0, 1}, New(n) PROVE AbiInv'
    BY <2>2, SameRing DEF New, readVars, AbiExact, AbiTypeOK, RangeWhole, BufferKept
  <2>3. CASE Close
    BY <2>3, SameRing DEF Close, readVars, AbiExact, AbiTypeOK, RangeWhole, BufferKept
  <2>4. ASSUME NEW t \in Times, AppendCandle(t) PROVE AbiInv'
    <3>1. BInv'
      BY <2>4, PushKeeps DEF AppendCandle
    <3> QED BY <2>4, <3>1 DEF AppendCandle, abiVars, readVars, AbiExact, AbiTypeOK,
                              RangeWhole, BufferKept
  <2>5. CASE AppendRefused
    BY <2>5, SameRing DEF AppendRefused, abiVars, readVars, AbiExact, AbiTypeOK, RangeWhole,
                          BufferKept
  <2>6. ASSUME NEW w \in Windows, NEW n \in Asked, CRange(w, n) PROVE AbiInv'
    <3>1. UNCHANGED vars
      BY <2>6 DEF CRange
    <3> QED BY <2>6, <3>1, SameRing, CRangeKeeps
  <2>7. ASSUME NEW w \in Windows, NEW n \in Asked, RangeN(w, n) PROVE AbiInv'
    <3>1. UNCHANGED vars
      BY <2>7 DEF RangeN
    <3> QED BY <2>7, <3>1, SameRing, RangeNKeeps
  <2>8. CASE RangeGrows
    <3>1. UNCHANGED vars
      BY <2>8 DEF RangeGrows
    <3> QED BY <2>8, <3>1, SameRing, GrowsKeeps
  <2>9. CASE RangeAnswers
    <3>1. UNCHANGED vars
      BY <2>9 DEF RangeAnswers
    <3> QED BY <2>9, <3>1, SameRing, AnswersKeeps
  <2>10. CASE RangeTaken
    BY <2>10, SameRing DEF RangeTaken, AbiExact, AbiTypeOK, RangeWhole, BufferKept, NoWindow
  <2> QED BY <2>1, <2>2, <2>3, <2>4, <2>5, <2>6, <2>7, <2>8, <2>9, <2>10 DEF AbiNext, RangeCall
<1> QED BY <1>1, AbiInit1, PTL DEF AbiSpec

(* RangeN returns all the store holds for the window at its last call,     *)
(* unless that is more than maxRangeCap, and candlestore_range never       *)
(* writes past the caller's buffer, whatever is appended meanwhile.        *)
THEOREM AbiAnswersExact == AbiSpec => []AbiExact
<1>1. AbiInv => AbiExact
  BY DEF AbiInv
<1> QED BY <1>1, AbiInvariant, PTL

-----------------------------------------------------------------------------
(* BinanceFeed: the stream, its faults and its reconnects.                 *)

Frame == [body : Bodies \cup {"close"}, closed : BOOLEAN, ts : Nat, no : Nat]

(* The number of closed klines published. *)
Sent == Len(published)

(* A close is the last frame; nothing is sent to a connection that is not; *)
(* a closed kline on the way is the one published under its number.        *)
FrameInv ==
  /\ frames \in Seq(Frame) /\ published \in Seq(Times) /\ stored \in Seq(Nat)
  /\ frames # <<>> => conn = "streaming"
  /\ \A i \in 1 .. (Len(frames) - 1) : frames[i].body # "close"
  /\ \A i \in 1 .. Len(frames) : Closed(frames[i]) =>
       frames[i].no \in 1 .. Sent /\ frames[i].ts = published[frames[i].no]

(* What the ring was given is what was published under the stored numbers. *)
TimeInv ==
  /\ Len(hist) = Len(stored)
  /\ \A i \in 1 .. Len(stored) :
       stored[i] \in 1 .. Sent /\ hist[i].ts = published[stored[i]]

(* What is stored came before what is on the way, and that is in order.    *)
OrderInv ==
  /\ \A i, j \in 1 .. Len(frames) :
       i < j /\ Closed(frames[i]) /\ Closed(frames[j]) => frames[i].no < frames[j].no
  /\ \A i \in 1 .. Len(stored), j \in 1 .. Len(frames) :
       Closed(frames[j]) => stored[i] < frames[j].no
  /\ \A i, j \in 1 .. Len(stored) : i < j => stored[i] < stored[j]

(* Every closed kline published is in one of three places. *)
PlaceInv ==
  /\ Stored \cup missed \cup OnTheWay = 1 .. Sent
  /\ Stored \cap missed = {} /\ missed \cap OnTheWay = {}

KInv == BInv /\ FrameInv /\ TimeInv /\ OrderInv /\ PlaceInv

(* The closed klines of a sequence of frames. *)
KlinesOf(q) == {q[i].no : i \in {k \in 1 .. Len(q) : Closed(q[k])}}

LEMMA OnTheWayIs ==
  ASSUME NEW q \in Seq(Frame)
  PROVE  {f.no : f \in {g \in ToSet(q) : Closed(g)}} = KlinesOf(q)
<1>1. DOMAIN q = 1 .. Len(q)
  OBVIOUS
<1>2. \A f : f \in {g \in ToSet(q) : Closed(g)} <=> \E i \in 1 .. Len(q) : f = q[i] /\ Closed(q[i])
  BY <1>1 DEF ToSet
<1> QED BY <1>2 DEF KlinesOf

LEMMA KlinesAppend ==
  ASSUME NEW q \in Seq(Frame), NEW f \in Frame
  PROVE  KlinesOf(Append(q, f)) = KlinesOf(q) \cup (IF Closed(f) THEN {f.no} ELSE {})
<1>1. PICK p \in Seq(Frame) : p = Append(q, f) /\ Len(p) = Len(q) + 1 /\ p[Len(q) + 1] = f
                              /\ \A i \in 1 .. Len(q) : p[i] = q[i]
  <2>1. Append(q, f) \in Seq(Frame)
    OBVIOUS
  <2>2. /\ Len(Append(q, f)) = Len(q) + 1 /\ Append(q, f)[Len(q) + 1] = f
        /\ \A i \in 1 .. Len(q) : Append(q, f)[i] = q[i]
    OBVIOUS
  <2> QED BY <2>1, <2>2
<1>2. Len(q) \in Nat /\ Len(q) + 1 \in 1 .. Len(p)
      /\ \A i \in 1 .. Len(p) : i \in 1 .. Len(q) \/ i = Len(q) + 1
  BY <1>1
<1>3. \A i \in 1 .. Len(q) : i \in 1 .. Len(p)
  BY <1>1
<1>4. KlinesOf(p) = KlinesOf(q) \cup (IF Closed(f) THEN {f.no} ELSE {})
  BY <1>1, <1>2, <1>3 DEF KlinesOf
<1> QED BY <1>1, <1>4

LEMMA TailOf ==
  ASSUME NEW q \in Seq(Frame), q # <<>>
  PROVE  /\ Head(q) = q[1] /\ Tail(q) \in Seq(Frame) /\ Len(Tail(q)) = Len(q) - 1
         /\ Len(q) \in Nat \ {0} /\ \A i \in 1 .. (Len(q) - 1) : Tail(q)[i] = q[i + 1]
OBVIOUS

LEMMA KlinesTail ==
  ASSUME NEW q \in Seq(Frame), q # <<>>
  PROVE  KlinesOf(q) = KlinesOf(Tail(q)) \cup (IF Closed(Head(q)) THEN {Head(q).no} ELSE {})
<1>1. PICK p \in Seq(Frame) : p = Tail(q) /\ Len(p) = Len(q) - 1
                              /\ \A i \in 1 .. (Len(q) - 1) : p[i] = q[i + 1]
  BY TailOf
<1>2. Head(q) = q[1] /\ Len(q) \in Nat \ {0}
  BY TailOf
<1>3. 1 \in 1 .. Len(q) /\ \A i \in 1 .. Len(p) : i + 1 \in 1 .. Len(q) /\ p[i] = q[i + 1]
  BY <1>1, <1>2
<1>4. \A i \in 1 .. Len(q) : i = 1 \/ (i - 1 \in 1 .. Len(p) /\ p[i - 1] = q[i])
  <2> SUFFICES ASSUME NEW i \in 1 .. Len(q), i # 1
               PROVE  i - 1 \in 1 .. Len(p) /\ p[i - 1] = q[i]
    OBVIOUS
  <2>1. i - 1 \in 1 .. (Len(q) - 1) /\ (i - 1) + 1 = i
    BY <1>2
  <2> QED BY <1>1, <2>1
<1>5. KlinesOf(q) = KlinesOf(p) \cup (IF Closed(q[1]) THEN {q[1].no} ELSE {})
  BY <1>3, <1>4 DEF KlinesOf
<1> QED BY <1>1, <1>2, <1>5

LEMMA InitKInv == Init /\ StreamInit => KInv
<1> SUFFICES ASSUME Init, StreamInit PROVE KInv
  OBVIOUS
<1>1. frames = <<>> /\ hist = <<>> /\ published = <<>> /\ stored = <<>> /\ missed = {}
  BY DEF Init, StreamInit
<1>2. FrameInv /\ OrderInv /\ TimeInv
  BY <1>1 DEF FrameInv, OrderInv, TimeInv
<1>3. Stored = {} /\ 1 .. Sent = {}
  BY <1>1 DEF Stored, Sent
<1>4. OnTheWay = {}
  BY <1>1 DEF OnTheWay, ToSet
<1> QED BY <1>1, <1>2, <1>3, <1>4, InitBInv DEF KInv, PlaceInv

(* The parts that read frames, hist and the histories only. *)
LEMMA StillStream ==
  ASSUME KInv, UNCHANGED <<vars, frames, published, stored, missed>>,
         frames # <<>> => conn' = "streaming"
  PROVE  KInv'
<1>1. /\ UNCHANGED vars /\ hist' = hist /\ frames' = frames /\ stored' = stored
      /\ published' = published /\ missed' = missed
  BY DEF vars
<1>2. BInv'
  BY <1>1, SameRing DEF KInv
<1>3. FrameInv' /\ OrderInv' /\ TimeInv'
  BY <1>1 DEF KInv, FrameInv, OrderInv, TimeInv, Sent
<1>4. PlaceInv'
  BY <1>1 DEF KInv, PlaceInv, Stored, OnTheWay, Sent
<1> QED BY <1>2, <1>3, <1>4 DEF KInv

(* What is left on the way when a frame has been read. *)
LEMMA FrameRead ==
  ASSUME KInv, frames # <<>>, frames' = Tail(frames), published' = published, conn' = conn,
         stored' \in Seq(Nat)
  PROVE  /\ FrameInv' /\ Head(frames) \in Frame
         /\ \A i, j \in 1 .. Len(frames') :
              i < j /\ Closed(frames'[i]) /\ Closed(frames'[j]) => frames'[i].no < frames'[j].no
         /\ \A j \in 1 .. Len(frames') : Closed(frames'[j]) /\ Closed(Head(frames))
                                           => Head(frames).no < frames'[j].no
         /\ \A i \in 1 .. Len(stored), j \in 1 .. Len(frames') :
              Closed(frames'[j]) => stored[i] < frames'[j].no
         /\ OnTheWay' = KlinesOf(frames')
         /\ OnTheWay = OnTheWay' \cup (IF Closed(Head(frames)) THEN {Head(frames).no} ELSE {})
<1>1. /\ frames \in Seq(Frame) /\ Head(frames) = frames[1] /\ frames' \in Seq(Frame)
      /\ Len(frames') = Len(frames) - 1 /\ Len(frames) \in Nat \ {0}
      /\ \A i \in 1 .. (Len(frames) - 1) : frames'[i] = frames[i + 1]
  BY TailOf DEF KInv, FrameInv
<1>2. /\ 1 \in 1 .. Len(frames)
      /\ \A i \in 1 .. Len(frames') :
           i + 1 \in 1 .. Len(frames) /\ frames'[i] = frames[i + 1] /\ 1 < i + 1
      /\ \A i \in 1 .. (Len(frames') - 1) :
           i + 1 \in 1 .. (Len(frames) - 1) /\ frames'[i] = frames[i + 1]
  BY <1>1
<1>3. FrameInv'
  BY <1>1, <1>2 DEF KInv, FrameInv, Sent
<1>4. \A i, j \in 1 .. Len(frames') : i < j => i + 1 < j + 1
  BY <1>1
<1>5. OnTheWay' = KlinesOf(frames') /\ OnTheWay = KlinesOf(frames)
  BY <1>1, OnTheWayIs DEF OnTheWay
<1>6. KlinesOf(frames) = KlinesOf(Tail(frames))
                           \cup (IF Closed(Head(frames)) THEN {Head(frames).no} ELSE {})
  BY <1>1, KlinesTail
<1>7. Head(frames) \in Frame
  BY <1>1, <1>2
<1> QED BY <1>1, <1>2, <1>3, <1>4, <1>5, <1>6, <1>7 DEF KInv, OrderInv

LEMMA ReadCandleKeeps == ASSUME KInv, ReadCandle PROVE KInv'
<1> DEFINE t == Head(frames).ts
           n == Head(frames).no
<1>1. /\ frames # <<>> /\ frames' = Tail(frames) /\ conn' = conn /\ published' = published
      /\ missed' = missed /\ stored' = Append(stored, n) /\ Closed(Head(frames)) /\ Push(t)
  BY DEF ReadCandle, Appends, Closed
<1>2. frames \in Seq(Frame) /\ 1 \in 1 .. Len(frames) /\ Head(frames) = frames[1]
  BY <1>1, TailOf DEF KInv, FrameInv
<1>3. /\ n \in 1 .. Sent /\ n \in Nat /\ t = published[n] /\ t \in Times /\ t \in Nat
  <2>1. n \in 1 .. Sent /\ t = published[n] /\ published \in Seq(Times)
    BY <1>1, <1>2 DEF KInv, FrameInv
  <2>2. t \in Times
    BY <2>1 DEF Sent
  <2>3. Sent \in Nat
    BY <2>1 DEF Sent
  <2> HIDE DEF t, n
  <2>4. n \in Nat /\ t \in Nat
    BY <2>1, <2>2, <2>3, BufferConstants
  <2> QED BY <2>1, <2>2, <2>4
<1>4. BInv'
  BY <1>1, <1>3, PushKeeps DEF KInv
<1>5. /\ hist \in Seq(Candle) /\ hist' \in Seq(Candle) /\ Len(hist') = Len(hist) + 1
      /\ Len(hist) \in Nat /\ hist'[Len(hist) + 1].ts = t
      /\ \A i \in 1 .. Len(hist) : hist'[i] = hist[i]
  <2>1. PICK c \in Candle : hist' = Append(hist, c) /\ c.ts = t
    <3>1. hist' = Append(hist, [ts |-> t, id |-> Len(hist) + 1])
      BY <1>1 DEF Push
    <3>2. [ts |-> t, id |-> Len(hist) + 1] \in Candle
      BY <1>3 DEF KInv, BInv, TypeOK, Candle
    <3> HIDE DEF t
    <3> QED BY <3>1, <3>2
  <2>2. hist \in Seq(Candle)
    BY DEF KInv, BInv, TypeOK
  <2> HIDE DEF t
  <2> QED BY <2>1, <2>2
<1>6. /\ stored \in Seq(Nat) /\ stored' \in Seq(Nat) /\ Len(stored') = Len(stored) + 1
      /\ Len(stored) \in Nat /\ stored'[Len(stored) + 1] = n
      /\ \A i \in 1 .. Len(stored) : stored'[i] = stored[i]
  <2>1. stored \in Seq(Nat)
    BY DEF KInv, FrameInv
  <2> HIDE DEF n
  <2> QED BY <1>1, <1>3, <2>1
<1>7. \A i \in 1 .. Len(stored') : i \in 1 .. Len(stored) \/ i = Len(stored) + 1
  BY <1>6
<1>8. \A i \in 1 .. Len(stored) : stored[i] < n
  BY <1>1, <1>2 DEF KInv, OrderInv
<1>9. /\ FrameInv'
      /\ \A i, j \in 1 .. Len(frames') :
           i < j /\ Closed(frames'[i]) /\ Closed(frames'[j]) => frames'[i].no < frames'[j].no
      /\ \A j \in 1 .. Len(frames') : Closed(frames'[j]) => n < frames'[j].no
      /\ \A i \in 1 .. Len(stored), j \in 1 .. Len(frames') :
           Closed(frames'[j]) => stored[i] < frames'[j].no
      /\ OnTheWay = OnTheWay' \cup {n}
  BY <1>1, <1>6, FrameRead
<1> HIDE DEF t, n
<1>10. OrderInv'
  <2>1. \A i \in 1 .. Len(stored'), j \in 1 .. Len(frames') :
          Closed(frames'[j]) => stored'[i] < frames'[j].no
    BY <1>6, <1>7, <1>9
  <2>2. \A i, j \in 1 .. Len(stored') : i < j => stored'[i] < stored'[j]
    <3> SUFFICES ASSUME NEW i \in 1 .. Len(stored'), NEW j \in 1 .. Len(stored'), i < j
                 PROVE  stored'[i] < stored'[j]
      OBVIOUS
    <3>1. i \in 1 .. Len(stored)
      BY <1>6
    <3>2. CASE j = Len(stored) + 1
      BY <1>6, <1>8, <3>1, <3>2
    <3>3. CASE j \in 1 .. Len(stored)
      BY <1>6, <3>1, <3>3 DEF KInv, OrderInv
    <3> QED BY <1>7, <3>2, <3>3
  <2> QED BY <1>9, <2>1, <2>2 DEF OrderInv
<1>11. TimeInv'
  <2>1. /\ Len(hist) = Len(stored)
        /\ \A i \in 1 .. Len(stored) :
             stored[i] \in 1 .. Sent /\ hist[i].ts = published[stored[i]]
    BY DEF KInv, TimeInv
  <2>2. Sent' = Sent
    BY <1>1 DEF Sent
  <2>3. ASSUME NEW i \in 1 .. Len(stored')
        PROVE  stored'[i] \in 1 .. Sent /\ hist'[i].ts = published[stored'[i]]
    <3>1. CASE i \in 1 .. Len(stored)
      BY <1>5, <1>6, <2>1, <3>1
    <3>2. CASE i = Len(stored) + 1
      BY <1>3, <1>5, <1>6, <2>1, <3>2
    <3> QED BY <1>7, <3>1, <3>2
  <2> QED BY <1>1, <1>5, <1>6, <2>1, <2>2, <2>3 DEF TimeInv
<1>12. Stored' = Stored \cup {n}
  <2>1. Len(stored) + 1 \in 1 .. Len(stored') /\ \A i \in 1 .. Len(stored) : i \in 1 .. Len(stored')
    BY <1>6
  <2> QED BY <1>6, <1>7, <2>1 DEF Stored
<1>13. PlaceInv'
  <2>1. Stored' \cup missed' \cup OnTheWay' = 1 .. Sent'
    BY <1>1, <1>9, <1>12 DEF KInv, PlaceInv, Sent
  <2>2. Stored' \cap missed' = {} /\ missed' \cap OnTheWay' = {}
    BY <1>1, <1>9, <1>12 DEF KInv, PlaceInv
  <2> QED BY <2>1, <2>2 DEF PlaceInv
<1> QED BY <1>4, <1>9, <1>10, <1>11, <1>13 DEF KInv

LEMMA ReadSkipsKeeps == ASSUME KInv, ReadSkips PROVE KInv'
<1>1. /\ frames # <<>> /\ frames' = Tail(frames) /\ conn' = conn /\ stored' = stored
      /\ published' = published /\ missed' = missed /\ ~ Closed(Head(frames))
      /\ UNCHANGED vars /\ hist' = hist /\ stored \in Seq(Nat)
  BY DEF ReadSkips, Appends, Closed, vars, KInv, FrameInv
<1>2. BInv'
  BY <1>1, SameRing DEF KInv
<1>3. FrameInv' /\ OrderInv'
  BY <1>1, FrameRead DEF KInv, OrderInv
<1>4. Stored' = Stored /\ OnTheWay' = OnTheWay /\ Sent' = Sent
  BY <1>1, FrameRead DEF Stored, Sent
<1>5. TimeInv'
  BY <1>1, <1>4 DEF KInv, TimeInv
<1> QED BY <1>1, <1>2, <1>3, <1>4, <1>5 DEF KInv, PlaceInv

(* Nothing on the way is stored already. *)
LEMMA StoredBefore == ASSUME KInv PROVE Stored \cap OnTheWay = {}
<1>1. frames \in Seq(Frame) /\ stored \in Seq(Nat)
  BY DEF KInv, FrameInv
<1>2. OnTheWay = KlinesOf(frames)
  BY <1>1, OnTheWayIs DEF OnTheWay
<1> SUFFICES ASSUME NEW x, x \in Stored, x \in OnTheWay PROVE FALSE
  OBVIOUS
<1>3. PICK i \in 1 .. Len(stored) : x = stored[i]
  BY DEF Stored
<1>4. PICK j \in 1 .. Len(frames) : Closed(frames[j]) /\ x = frames[j].no
  BY <1>2 DEF KlinesOf
<1>5. x < x
  BY <1>3, <1>4 DEF KInv, OrderInv
<1>6. x \in Nat
  BY <1>1, <1>3
<1> QED BY <1>5, <1>6

(* Frames that are gone: their klines were missed, or there were none. *)
LEMMA FramesGone ==
  ASSUME KInv, UNCHANGED <<vars, published, stored>>, frames' = <<>>,
         missed' = missed \cup OnTheWay
  PROVE  KInv'
<1>1. /\ UNCHANGED vars /\ hist' = hist /\ stored' = stored /\ published' = published
      /\ Sent' = Sent
  BY DEF vars, Sent
<1>2. BInv'
  BY <1>1, SameRing DEF KInv
<1>3. FrameInv' /\ OrderInv' /\ TimeInv'
  BY <1>1 DEF KInv, FrameInv, OrderInv, TimeInv
<1>4. OnTheWay' = {} /\ Stored' = Stored
  <2>1. ToSet(<<>>) = {}
    BY DEF ToSet
  <2> QED BY <1>1, <2>1 DEF OnTheWay, Stored
<1>5. Stored \cap OnTheWay = {}
  BY StoredBefore
<1>6. Stored \cap (missed \cup OnTheWay) = {} /\ Stored \cup missed \cup OnTheWay = 1 .. Sent
  BY <1>5 DEF KInv, PlaceInv
<1>7. PlaceInv'
  BY <1>1, <1>4, <1>6 DEF PlaceInv
<1> QED BY <1>2, <1>3, <1>7 DEF KInv

LEMMA ReadCloseKeeps == ASSUME KInv, ReadClose PROVE KInv'
<1>1. /\ frames # <<>> /\ frames' = <<>> /\ Head(frames).body = "close" /\ missed' = missed
      /\ UNCHANGED <<vars, published, stored>>
  BY DEF ReadClose
<1>2. frames \in Seq(Frame) /\ Head(frames) = frames[1] /\ Len(frames) \in Nat \ {0}
  BY <1>1, TailOf DEF KInv, FrameInv
<1>3. Len(frames) = 1
  <2> SUFFICES ASSUME Len(frames) # 1 PROVE FALSE
    OBVIOUS
  <2>1. 1 \in 1 .. (Len(frames) - 1)
    <3>1. PICK n \in Nat : n = Len(frames) /\ n # 0 /\ n # 1
      BY <1>2
    <3>2. 1 \in 1 .. (n - 1)
      BY <3>1
    <3> QED BY <3>1, <3>2
  <2> QED BY <1>1, <1>2, <2>1 DEF KInv, FrameInv
<1>4. KlinesOf(frames) = {}
  <2>1. \A i \in 1 .. Len(frames) : ~ Closed(frames[i])
    BY <1>1, <1>2, <1>3 DEF Closed
  <2> QED BY <2>1 DEF KlinesOf
<1>5. OnTheWay = {}
  BY <1>2, <1>4, OnTheWayIs DEF OnTheWay
<1> QED BY <1>1, <1>5, FramesGone

LEMMA ResetKeeps == ASSUME KInv, Reset PROVE KInv'
<1>1. /\ frames' = <<>> /\ missed' = missed \cup OnTheWay
      /\ UNCHANGED <<vars, published, stored>>
  BY DEF Reset, OnTheWay
<1> QED BY <1>1, FramesGone

(* The exchange publishes a closed kline, or does not. *)
Numbered(f) ==
  /\ published' \in Seq(Times) /\ Sent \in Nat
  /\ \A n \in 1 .. Sent : n \in 1 .. Sent' /\ published'[n] = published[n]
  /\ Closed(f) => f.no = Sent + 1 /\ Sent' = Sent + 1 /\ f.ts = published'[f.no]
  /\ ~ Closed(f) => Sent' = Sent

(* What it publishes leaves the earlier klines as they were. *)
LEMMA EarlierStand ==
  ASSUME KInv, NEW f \in Frame, Numbered(f), UNCHANGED <<hist, stored>>
  PROVE  TimeInv'
<1>1. /\ Len(hist) = Len(stored)
      /\ \A i \in 1 .. Len(stored) :
           stored[i] \in 1 .. Sent /\ hist[i].ts = published[stored[i]]
  BY DEF KInv, TimeInv
<1>2. \A n \in 1 .. Sent : n \in 1 .. Sent' /\ published'[n] = published[n]
  BY DEF Numbered
<1> QED BY <1>1, <1>2 DEF TimeInv

(* A frame put on the way behind the others, to a connection that stands. *)
LEMMA FrameSent ==
  ASSUME KInv, NEW f \in Frame, conn = "streaming", ~ Closing, frames' = Append(frames, f),
         conn' = conn, stored' = stored, Numbered(f)
  PROVE  /\ FrameInv' /\ OrderInv'
         /\ OnTheWay' = OnTheWay \cup (IF Closed(f) THEN {Sent + 1} ELSE {})
<1>0. /\ published' \in Seq(Times) /\ Sent \in Nat
      /\ \A n \in 1 .. Sent : n \in 1 .. Sent' /\ published'[n] = published[n]
      /\ Closed(f) => f.no = Sent + 1 /\ Sent' = Sent + 1 /\ f.ts = published'[f.no]
  BY DEF Numbered
<1>1. frames \in Seq(Frame) /\ stored \in Seq(Nat)
  BY DEF KInv, FrameInv
<1>2. /\ frames' \in Seq(Frame) /\ Len(frames') = Len(frames) + 1
      /\ frames'[Len(frames) + 1] = f /\ Len(frames) \in Nat
      /\ \A i \in 1 .. Len(frames) : frames'[i] = frames[i]
  BY <1>1
<1>3. \A i \in 1 .. Len(frames') : i \in 1 .. Len(frames) \/ i = Len(frames) + 1
  BY <1>2
<1>4. \A i \in 1 .. Len(frames) : frames[i].body # "close"
  <2>1. Len(frames) > 0 => frames[Len(frames)].body # "close"
    BY <1>1 DEF Closing, Last
  <2>2. \A i \in 1 .. Len(frames) : i \in 1 .. (Len(frames) - 1) \/ (i = Len(frames) /\ Len(frames) > 0)
    BY <1>2
  <2> QED BY <2>1, <2>2 DEF KInv, FrameInv
<1>5. FrameInv'
  <2>1. \A i \in 1 .. (Len(frames') - 1) : i \in 1 .. Len(frames)
    BY <1>2
  <2>2. \A i \in 1 .. (Len(frames') - 1) : frames'[i].body # "close"
    BY <1>2, <1>4, <2>1
  <2>3. ASSUME NEW i \in 1 .. Len(frames'), Closed(frames'[i])
        PROVE  frames'[i].no \in 1 .. Sent' /\ frames'[i].ts = published'[frames'[i].no]
    <3>1. CASE i \in 1 .. Len(frames)
      BY <1>0, <1>2, <2>3, <3>1 DEF KInv, FrameInv
    <3>2. CASE i = Len(frames) + 1
      BY <1>0, <1>2, <2>3, <3>2
    <3> QED BY <1>3, <3>1, <3>2
  <2> QED BY <1>0, <1>1, <1>2, <2>2, <2>3 DEF FrameInv
<1>6. \A i \in 1 .. Len(frames) : Closed(frames[i]) => frames[i].no < Sent + 1
  BY <1>0 DEF KInv, FrameInv
<1>7. \A i \in 1 .. Len(stored) : stored[i] < Sent + 1
  BY <1>0 DEF KInv, TimeInv
<1>8. OrderInv'
  <2>2. \A i, j \in 1 .. Len(frames') :
          i < j /\ Closed(frames'[i]) /\ Closed(frames'[j]) => frames'[i].no < frames'[j].no
    <3> SUFFICES ASSUME NEW i \in 1 .. Len(frames'), NEW j \in 1 .. Len(frames'), i < j,
                        Closed(frames'[i]), Closed(frames'[j])
                 PROVE  frames'[i].no < frames'[j].no
      OBVIOUS
    <3>1. i \in 1 .. Len(frames)
      BY <1>2
    <3>2. CASE j = Len(frames) + 1
      BY <1>0, <1>2, <1>6, <3>1, <3>2
    <3>3. CASE j \in 1 .. Len(frames)
      BY <1>2, <3>1, <3>3 DEF KInv, OrderInv
    <3> QED BY <1>3, <3>2, <3>3
  <2>3. \A i \in 1 .. Len(stored), j \in 1 .. Len(frames') :
          Closed(frames'[j]) => stored[i] < frames'[j].no
    <3> SUFFICES ASSUME NEW i \in 1 .. Len(stored), NEW j \in 1 .. Len(frames'), Closed(frames'[j])
                 PROVE  stored[i] < frames'[j].no
      OBVIOUS
    <3>1. CASE j = Len(frames) + 1
      BY <1>0, <1>2, <1>7, <3>1
    <3>2. CASE j \in 1 .. Len(frames)
      BY <1>2, <3>2 DEF KInv, OrderInv
    <3> QED BY <1>3, <3>1, <3>2
  <2> QED BY <2>2, <2>3 DEF KInv, OrderInv
<1>9. OnTheWay' = OnTheWay \cup (IF Closed(f) THEN {Sent + 1} ELSE {})
  <2>1. OnTheWay = KlinesOf(frames) /\ OnTheWay' = KlinesOf(frames')
    BY <1>1, <1>2, OnTheWayIs DEF OnTheWay
  <2>2. KlinesOf(Append(frames, f)) = KlinesOf(frames) \cup (IF Closed(f) THEN {f.no} ELSE {})
    BY <1>1, KlinesAppend
  <2> QED BY <1>0, <2>1, <2>2
<1> QED BY <1>5, <1>8, <1>9

LEMMA PublishKeeps ==
  ASSUME KInv, NEW body \in Bodies, NEW closed \in BOOLEAN, NEW ts \in Nat,
         body = "candle" => ts \in Times, Publish(body, closed, ts)
  PROVE  KInv'
<1> DEFINE f == [body |-> body, closed |-> closed, ts |-> ts, no |-> Len(published) + 1]
<1>1. UNCHANGED vars /\ hist' = hist /\ conn' = conn /\ stored' = stored
  BY DEF Publish, vars
<1>2. /\ frames' = (IF conn = "streaming" /\ ~ Closing THEN Append(frames, f) ELSE frames)
      /\ missed' = (IF Closed(f) /\ ~ (conn = "streaming" /\ ~ Closing)
                      THEN missed \cup {f.no} ELSE missed)
      /\ published' = (IF Closed(f) THEN Append(published, ts) ELSE published)
  BY DEF Publish
<1>3. published \in Seq(Times) /\ Sent \in Nat /\ Sent = Len(published)
  BY DEF KInv, FrameInv, Sent
<1>4. f \in Frame /\ f.no = Sent + 1 /\ f.ts = ts /\ (Closed(f) => ts \in Times)
  <2>1. f \in Frame /\ f.no = Sent + 1 /\ f.ts = ts /\ f.body = body
    BY <1>3 DEF Frame
  <2> QED BY <2>1 DEF Closed
<1> HIDE DEF f
<1>5. Numbered(f)
  <2>1. CASE Closed(f)
    <3>1. published' = Append(published, ts) /\ ts \in Times
      BY <1>2, <1>4, <2>1
    <3>2. /\ published' \in Seq(Times) /\ Len(published') = Sent + 1
          /\ published'[Sent + 1] = ts /\ \A n \in 1 .. Sent : published'[n] = published[n]
      BY <1>3, <3>1
    <3>3. \A n \in 1 .. Sent : n \in 1 .. (Sent + 1)
      BY <1>3
    <3> QED BY <1>3, <1>4, <2>1, <3>2, <3>3 DEF Numbered, Sent
  <2>2. CASE ~ Closed(f)
    BY <1>2, <1>3, <2>2 DEF Numbered, Sent
  <2> QED BY <2>1, <2>2
<1>6. BInv'
  BY <1>1, SameRing DEF KInv
<1>7. Stored' = Stored /\ TimeInv'
  BY <1>1, <1>4, <1>5, EarlierStand DEF Stored
<1>8. /\ Sent + 1 \notin 1 .. Sent
      /\ 1 .. Sent' = (1 .. Sent) \cup (IF Closed(f) THEN {Sent + 1} ELSE {})
  BY <1>3, <1>5 DEF Numbered
<1>p. Stored \cup missed \cup OnTheWay = 1 .. Sent
      /\ Stored \cap missed = {} /\ missed \cap OnTheWay = {}
  BY DEF KInv, PlaceInv
<1>9. CASE conn = "streaming" /\ ~ Closing
  <2>1. frames' = Append(frames, f) /\ missed' = missed
    BY <1>2, <1>9
  <2>2. /\ FrameInv' /\ OrderInv'
        /\ OnTheWay' = OnTheWay \cup (IF Closed(f) THEN {Sent + 1} ELSE {})
    BY <1>1, <1>4, <1>5, <1>9, <2>1, FrameSent
  <2>3. PlaceInv'
    <3>1. missed \cap (OnTheWay \cup {Sent + 1}) = {}
      BY <1>8, <1>p
    <3> QED BY <1>7, <1>8, <1>p, <2>1, <2>2, <3>1 DEF PlaceInv
  <2> QED BY <1>6, <1>7, <2>2, <2>3 DEF KInv
<1>10. CASE ~ (conn = "streaming" /\ ~ Closing)
  <2>1. /\ frames' = frames
        /\ missed' = missed \cup (IF Closed(f) THEN {Sent + 1} ELSE {})
    BY <1>2, <1>4, <1>10
  <2>2. FrameInv'
    <3>1. /\ published' \in Seq(Times)
          /\ \A n \in 1 .. Sent : n \in 1 .. Sent' /\ published'[n] = published[n]
      BY <1>5 DEF Numbered
    <3>2. \A i \in 1 .. Len(frames) : Closed(frames[i]) =>
            frames[i].no \in 1 .. Sent' /\ frames[i].ts = published'[frames[i].no]
      BY <3>1 DEF KInv, FrameInv
    <3> QED BY <1>1, <2>1, <3>1, <3>2 DEF KInv, FrameInv
  <2>3. OrderInv'
    BY <1>1, <2>1 DEF KInv, OrderInv
  <2>4. OnTheWay' = OnTheWay
    BY <2>1 DEF OnTheWay
  <2>5. PlaceInv'
    <3>1. Sent + 1 \notin Stored /\ Sent + 1 \notin OnTheWay
      BY <1>8, <1>p
    <3> QED BY <1>7, <1>8, <1>p, <2>1, <2>4, <3>1 DEF PlaceInv
  <2> QED BY <1>6, <1>7, <2>2, <2>3, <2>5 DEF KInv
<1> QED BY <1>9, <1>10

LEMMA ServerClosesKeeps == ASSUME KInv, ServerCloses PROVE KInv'
<1> DEFINE f == [body |-> "close", closed |-> FALSE, ts |-> 0, no |-> 0]
<1>1. /\ UNCHANGED vars /\ hist' = hist /\ conn' = conn /\ conn = "streaming" /\ ~ Closing
      /\ frames' = Append(frames, f) /\ stored' = stored /\ published' = published
      /\ missed' = missed
  BY DEF ServerCloses, vars
<1>2. f \in Frame
  BY DEF Frame
<1>3. ~ Closed(f)
  BY DEF Closed
<1> HIDE DEF f
<1>4. Numbered(f)
  BY <1>1, <1>3 DEF KInv, FrameInv, Numbered, Sent
<1>5. FrameInv' /\ OrderInv' /\ OnTheWay' = OnTheWay
  BY <1>1, <1>2, <1>3, <1>4, FrameSent
<1>6. BInv' /\ Stored' = Stored /\ Sent' = Sent /\ TimeInv'
  BY <1>1, <1>2, <1>4, SameRing, EarlierStand DEF KInv, Stored, Sent
<1> QED BY <1>1, <1>5, <1>6 DEF KInv, PlaceInv

(* The inductive invariant holds of every behaviour of the feed. *)
THEOREM StreamInvariant == StreamSpec => []KInv
<1>1. KInv /\ [StreamNext]_<<vars, streamVars>> => KInv'
  <2> SUFFICES ASSUME KInv, [StreamNext]_<<vars, streamVars>> PROVE KInv'
    OBVIOUS
  <2>0. frames # <<>> => conn = "streaming"
    BY DEF KInv, FrameInv
  <2>1. CASE UNCHANGED <<vars, streamVars>>
    <3>1. UNCHANGED <<vars, frames, published, stored, missed>> /\ conn' = conn
      BY <2>1 DEF streamVars
    <3> QED BY <2>0, <3>1, StillStream
  <2>2. ASSUME NEW n \in {0, 1}, Run(n) PROVE KInv'
    BY <2>0, <2>2, StillStream DEF Run
  <2>3. CASE Connect
    BY <2>0, <2>3, StillStream DEF Connect
  <2>4. CASE ConnectFails
    BY <2>0, <2>4, StillStream DEF ConnectFails
  <2>5. CASE Reconnect
    BY <2>0, <2>5, StillStream DEF Reconnect
  <2>6. ASSUME NEW closed \in BOOLEAN, NEW ts \in Times, Publish("candle", closed, ts)
        PROVE  KInv'
    <3>1. ts \in Nat /\ "candle" \in Bodies
      BY BufferConstants DEF Bodies
    <3> QED BY <2>6, <3>1, PublishKeeps
  <2>7. ASSUME NEW body \in Bodies \ {"candle"}, Publish(body, FALSE, 0) PROVE KInv'
    <3>1. body \in Bodies /\ body # "candle" /\ FALSE \in BOOLEAN /\ 0 \in Nat
      OBVIOUS
    <3> QED BY <2>7, <3>1, PublishKeeps
  <2> QED BY <2>1, <2>2, <2>3, <2>4, <2>5, <2>6, <2>7, ReadCandleKeeps, ReadSkipsKeeps,
             ReadCloseKeeps, ResetKeeps, ServerClosesKeeps DEF StreamNext, Feed
<1> QED BY <1>1, InitKInv, PTL DEF StreamSpec

(* Through any sequence of faults, every closed kline the exchange has     *)
(* published, late and repeated ones too, is stored once and in the order  *)
(* sent, or was lost with a connection, or is on the way to the reader: a  *)
(* reconnect repeats and reorders none.                                    *)
THEOREM StreamKlinesStored == StreamSpec => []KlinesStored
<1>1. KInv => KlinesStored
  <2> SUFFICES ASSUME KInv PROVE KlinesStored
    OBVIOUS
  <2>1. Stored \cap OnTheWay = {}
    BY StoredBefore
  <2> QED BY <2>1 DEF KlinesStored, KInv, FrameInv, TimeInv, OrderInv, PlaceInv, Sent
<1> QED BY <1>1, StreamInvariant, PTL

-----------------------------------------------------------------------------
(* Hardware: what a program takes of the machine.                          *)

(* A share of the machine, after detect and clamp. *)
Share == {NaN} \cup {p \in Nat \X (Nat \ {0}) : p[1] <= p[2]}

HwInv ==
  /\ hpc \in {"detect", "profile", "sized"}
  /\ profile.l3 \in Nat /\ profile.cores \in Nat /\ profile.fraction \in Share
  /\ hpc = "sized" => symbols \in Nat /\ ring = RingCapacityFor(symbols)

(* A share of x, rounded down or up, is at most x. *)
LEMMA FloorIs ==
  ASSUME NEW x \in Nat, NEW f \in Share
  PROVE  Floor(x, f) \in Nat /\ Floor(x, f) <= x
<1>1. CASE f = NaN
  BY <1>1 DEF Floor
<1>2. CASE f # NaN
  <2>1. PICK a \in Nat, b \in Nat \ {0} : f = <<a, b>> /\ f[1] = a /\ f[2] = b /\ a <= b
    BY <1>2 DEF Share
  <2>2. x * a \in Nat /\ x * a <= x * b
    BY <2>1, TimesUp, TimesNat
  <2>3. Floor(x, f) = (x * a) \div b
    BY <1>2, <2>1 DEF Floor
  <2>4. PICK q \in Nat : q = (x * a) \div b /\ b * q <= x * a
    <3>1. /\ x * a = b * ((x * a) \div b) + ((x * a) % b)
          /\ (x * a) % b \in 0 .. (b - 1) /\ (x * a) \div b \in Nat
      BY <2>1, <2>2, DivMod
    <3>2. b * ((x * a) \div b) \in Nat
      BY <2>1, <3>1, TimesNat
    <3> QED BY <2>2, <3>1, <3>2
  <2>5. q <= x
    <3> SUFFICES ASSUME q > x PROVE FALSE
      OBVIOUS
    <3>1. x + 1 <= q /\ x + 1 \in Nat
      OBVIOUS
    <3>2. b * (x + 1) <= b * q
      BY <2>1, <3>1, TimesUp
    <3>3. b * (x + 1) = b * x + b /\ b * x = x * b
      BY <2>1
    <3>4. b * x \in Nat /\ b * q \in Nat /\ x * b \in Nat
      BY <2>1, TimesNat
    <3> QED BY <2>1, <2>2, <2>4, <3>2, <3>3, <3>4
  <2> QED BY <2>3, <2>4, <2>5
<1> QED BY <1>1, <1>2

LEMMA CeilIs ==
  ASSUME NEW x \in Nat, NEW f \in Share
  PROVE  Ceil(x, f) \in Nat /\ Ceil(x, f) <= x
<1>1. CASE f = NaN
  BY <1>1 DEF Ceil
<1>2. CASE f # NaN
  <2>1. PICK a \in Nat, b \in Nat \ {0} : f = <<a, b>> /\ f[1] = a /\ f[2] = b /\ a <= b
    BY <1>2 DEF Share
  <2>2. x * a \in Nat /\ x * a <= x * b /\ x * b \in Nat
    BY <2>1, TimesUp, TimesNat
  <2>3. PICK y \in Nat : y = x * a + b - 1 /\ y <= x * b + b - 1
    <3>1. x * a + b - 1 \in Nat /\ x * a + b - 1 <= x * b + b - 1
      BY <2>1, <2>2
    <3> QED BY <3>1
  <2>4. Ceil(x, f) = y \div b
    BY <1>2, <2>1, <2>3 DEF Ceil
  <2>5. PICK q \in Nat : q = y \div b /\ b * q <= y
    <3>1. y = b * (y \div b) + (y % b) /\ y % b \in 0 .. (b - 1) /\ y \div b \in Nat
      BY <2>1, <2>3, DivMod
    <3>2. b * (y \div b) \in Nat
      BY <2>1, <3>1, TimesNat
    <3> QED BY <3>1, <3>2
  <2>6. q <= x
    <3> SUFFICES ASSUME q > x PROVE FALSE
      OBVIOUS
    <3>1. x + 1 <= q /\ x + 1 \in Nat
      OBVIOUS
    <3>2. b * (x + 1) <= b * q
      BY <2>1, <3>1, TimesUp
    <3>3. b * (x + 1) = b * x + b /\ b * x = x * b
      BY <2>1
    <3>4. b * x \in Nat /\ b * q \in Nat
      BY <2>1, TimesNat
    <3> QED BY <2>1, <2>2, <2>3, <2>5, <3>2, <3>3, <3>4
  <2> QED BY <2>4, <2>5, <2>6
<1> QED BY <1>1, <1>2

LEMMA RingLimits == MaxRing \in Nat /\ 256 <= MaxRing
BY SMT DEF MaxRing

(* The capacity before it is clamped: c candles for each of k symbols. *)
LEMMA CapacityIs ==
  ASSUME NEW U \in Nat, NEW n \in Nat
  PROVE  \E k \in Nat \ {0}, c \in Nat :
           /\ k = (IF n >= 1 THEN n ELSE 1) /\ c = (U \div k) \div 48
           /\ Max({MinRing, Min({MaxRing, (U \div Max({n, 1})) \div CandleBytes})})
                = IF c <= 256 THEN 256 ELSE IF c <= MaxRing THEN c ELSE MaxRing
<1>1. PICK k \in Nat \ {0} : k = (IF n >= 1 THEN n ELSE 1)
  OBVIOUS
<1>2. PICK c \in Nat : c = (U \div k) \div 48
  <2>1. U \div k \in Nat
    BY <1>1, DivMod
  <2>2. (U \div k) \div 48 \in Nat
    BY <2>1, DivMod
  <2> QED BY <2>2
<1>3. Max({n, 1}) = k
  BY <1>1, MaxOf
<1>4. PICK d \in Int : d = Min({MaxRing, c}) /\ d = IF MaxRing <= c THEN MaxRing ELSE c
  BY RingLimits, MinOf
<1>5. Max({256, d}) = IF 256 >= d THEN 256 ELSE d
  BY MaxOf
<1>6. Max({MinRing, Min({MaxRing, (U \div Max({n, 1})) \div CandleBytes})}) = Max({256, d})
  BY <1>2, <1>3, <1>4 DEF MinRing, CandleBytes
<1>7. Max({256, d}) = IF c <= 256 THEN 256 ELSE IF c <= MaxRing THEN c ELSE MaxRing
  BY <1>4, <1>5, RingLimits
<1> QED BY <1>1, <1>2, <1>6, <1>7

(* More symbols never get larger rings. *)
LEMMA DivDown ==
  ASSUME NEW U \in Nat, NEW k \in Nat \ {0}, NEW m \in Nat \ {0}, k <= m
  PROVE  (U \div m) \div 48 <= (U \div k) \div 48
<1>1. PICK p \in Nat : p = U \div k /\ U < k * p + k
  BY DivMod
<1>2. PICK q \in Nat : q = U \div m /\ m * q <= U
  BY DivMod
<1>3. q <= p
  <2> SUFFICES ASSUME p + 1 <= q PROVE FALSE
    OBVIOUS
  <2>1. q * k <= q * m /\ k * (p + 1) <= k * q
    BY TimesUp
  <2>2. q * k = k * q /\ q * m = m * q /\ k * (p + 1) = k * p + k
    OBVIOUS
  <2>3. k * p \in Nat /\ k * q \in Nat /\ m * q \in Nat
    BY TimesNat
  <2> QED BY <1>1, <1>2, <2>1, <2>2, <2>3
<1>4. q \div 48 <= p \div 48
  BY <1>3
<1> QED BY <1>1, <1>2, <1>4

(* Together they fit. *)
LEMMA Fits ==
  ASSUME NEW U \in Nat, NEW k \in Nat \ {0}, NEW n \in Nat, n <= k,
         NEW r \in Nat, r <= (U \div k) \div 48
  PROVE  n * r * 48 <= U
<1>1. PICK d \in Nat : d = U \div k /\ k * d <= U
  BY DivMod
<1>2. 48 * r <= d
  BY <1>1
<1>3. k * (48 * r) <= k * d
  BY <1>2, TimesUp
<1>4. (48 * r) * n <= (48 * r) * k
  BY TimesUp
<1>5. (48 * r) * n = n * r * 48 /\ (48 * r) * k = k * (48 * r)
  OBVIOUS
<1>6. k * d \in Nat /\ (48 * r) * n \in Nat /\ (48 * r) * k \in Nat
  BY TimesNat
<1> QED BY <1>1, <1>3, <1>4, <1>5, <1>6

LEMMA HwSized == HwInv => SizedRight
<1> SUFFICES ASSUME HwInv PROVE SizedRight
  OBVIOUS
<1>1. PICK U \in Nat : U = UsableL3 /\ U <= profile.l3
  BY FloorIs DEF HwInv, UsableL3
<1>2. UsableCores \in 1 .. Max({profile.cores, 1})
  <2>1. PICK e \in Nat : e = Ceil(profile.cores, profile.fraction) /\ e <= profile.cores
    BY CeilIs DEF HwInv
  <2>2. PICK g \in Nat : g = profile.cores
    BY DEF HwInv
  <2>3. Max({e, 1}) = (IF e >= 1 THEN e ELSE 1) /\ Max({g, 1}) = (IF g >= 1 THEN g ELSE 1)
    BY MaxOf
  <2>4. Max({e, 1}) \in 1 .. Max({g, 1})
    BY <2>1, <2>2, <2>3
  <2> QED BY <2>1, <2>2, <2>4 DEF UsableCores
<1>3. ASSUME hpc = "sized"
      PROVE  /\ ring \in MinRing .. MaxRing
             /\ ring > MinRing => symbols * ring * CandleBytes <= UsableL3
             /\ \A n \in SymbolCounts : n > symbols => RingCapacityFor(n) <= ring
  <2>1. symbols \in Nat /\ ring = RingCapacityFor(symbols)
    BY <1>3 DEF HwInv
  <2>a. PICK y \in Nat : y = symbols
    BY <2>1
  <2>b. PICK k \in Nat \ {0}, c \in Nat :
           /\ k = (IF y >= 1 THEN y ELSE 1) /\ c = (U \div k) \div 48
           /\ RingCapacityFor(y) = IF c <= 256 THEN 256 ELSE IF c <= MaxRing THEN c ELSE MaxRing
    BY <1>1, CapacityIs DEF RingCapacityFor
  <2>2. /\ k = (IF symbols >= 1 THEN symbols ELSE 1) /\ c = (U \div k) \div 48
        /\ ring = IF c <= 256 THEN 256 ELSE IF c <= MaxRing THEN c ELSE MaxRing
    <3>1. ring = RingCapacityFor(y)
      BY <2>1, <2>a
    <3> QED BY <2>a, <2>b, <3>1
  <2>3. ring \in Nat /\ ring \in 256 .. MaxRing /\ (ring > 256 => ring <= c)
    BY <2>2, RingLimits
  <2>4. ring > 256 => symbols * ring * 48 <= U
    <3>1. symbols <= k
      BY <2>1, <2>2
    <3> QED BY <2>1, <2>2, <2>3, <3>1, Fits
  <2>5. ASSUME NEW n \in SymbolCounts, n > symbols PROVE RingCapacityFor(n) <= ring
    <3>1. n \in Nat
      BY HardwareConstants
    <3>2. PICK m \in Nat \ {0}, e \in Nat :
           /\ m = (IF n >= 1 THEN n ELSE 1) /\ e = (U \div m) \div 48
           /\ RingCapacityFor(n) = IF e <= 256 THEN 256 ELSE IF e <= MaxRing THEN e ELSE MaxRing
      BY <1>1, <3>1, CapacityIs DEF RingCapacityFor
    <3>3. k <= m
      BY <2>1, <2>2, <2>5, <3>1, <3>2
    <3>4. e <= c
      BY <2>2, <3>2, <3>3, DivDown
    <3> QED BY <2>2, <3>2, <3>4, RingLimits
  <2> QED BY <1>1, <2>3, <2>4, <2>5 DEF MinRing, CandleBytes
<1> QED BY <1>1, <1>2, <1>3 DEF SizedRight

(* detect_l3_cache finds a size whatever the files hold. *)
LEMMA DetectIs ==
  ASSUME NEW index \in [0 .. 1 -> Index]
  PROVE  DetectL3(index) \in Nat
<1> DEFINE good == {i \in DOMAIN index : index[i].level = 3 /\ index[i].size.unit # "bad"}
<1>1. CASE good = {}
  BY <1>1 DEF DetectL3, DefaultL3
<1>2. CASE good # {}
  <2>1. good \subseteq Nat
    OBVIOUS
  <2>2. PICK m \in good : m = Min(good)
    <3>1. \E m \in good : \A n \in good : m <= n
      <4> HIDE DEF good
      <4> QED BY <1>2, <2>1, Least
    <3> HIDE DEF good
    <3> QED BY <3>1 DEF Min
  <2>3. m \in 0 .. 1 /\ index[m] \in Index /\ index[m].size.unit # "bad"
    OBVIOUS
  <2>4. PICK s \in SizeFiles : index[m].size = s
    BY <2>3 DEF Index
  <2>5. s.num \in Nat /\ s.unit \in {"K", "M", "none"}
    BY <2>3, <2>4, HardwareConstants
  <2>6. ParseSize(s) \in Nat
    <3>1. CASE s.unit = "K"
      BY <2>5, <3>1 DEF ParseSize, Factor
    <3>2. CASE s.unit = "M"
      BY <2>5, <3>2 DEF ParseSize, Factor
    <3>3. CASE s.unit = "none"
      BY <2>5, <3>3 DEF ParseSize, Factor
    <3> QED BY <2>5, <3>1, <3>2, <3>3
  <2>7. DetectL3(index) = ParseSize(index[m].size)
    BY <1>2, <2>2 DEF DetectL3
  <2> QED BY <2>4, <2>6, <2>7
<1> QED BY <1>1, <1>2

LEMMA ClampIs ==
  ASSUME NEW f \in Fractions
  PROVE  ClampFraction(f) \in Share
<1>1. CASE f = NaN
  BY <1>1 DEF ClampFraction, Share
<1>2. CASE f # NaN
  <2>1. PICK a \in Int, b \in Nat \ {0} : f = <<a, b>> /\ f[1] = a /\ f[2] = b
    <3>1. f \in Int \X (Nat \ {0})
      BY <1>2, HardwareConstants
    <3> QED BY <3>1
  <2>2. <<1, 20>> \in Share /\ <<1, 1>> \in Share
    BY DEF Share
  <2>3. CASE a * 20 < b
    <3>1. ClampFraction(f) = <<1, 20>>
      BY <1>2, <2>1, <2>3 DEF ClampFraction, Less
    <3> QED BY <2>2, <3>1
  <2>4. CASE ~ (a * 20 < b) /\ b < a
    <3>1. ClampFraction(f) = <<1, 1>>
      BY <1>2, <2>1, <2>4 DEF ClampFraction, Less
    <3> QED BY <2>2, <3>1
  <2>5. CASE ~ (a * 20 < b) /\ ~ (b < a)
    <3>1. ClampFraction(f) = f
      BY <1>2, <2>1, <2>5 DEF ClampFraction, Less
    <3>2. a \in Nat /\ a <= b
      BY <2>5
    <3>3. f \in Nat \X (Nat \ {0}) /\ f[1] <= f[2]
      BY <2>1, <3>2
    <3> QED BY <3>1, <3>3 DEF Share
  <2> QED BY <2>3, <2>4, <2>5
<1> QED BY <1>1, <1>2

(* The inductive invariant of the profile. *)
THEOREM HwInvariant == HwSpec => []HwInv
<1>1. HwInit => HwInv
  <2>1. <<1, 3>> \in Share
    BY DEF Share
  <2> QED BY <2>1 DEF HwInit, HwInv, NoProfile
<1>2. HwInv /\ [HwNext]_hwVars => HwInv'
  <2> SUFFICES ASSUME HwInv, [HwNext]_hwVars PROVE HwInv'
    OBVIOUS
  <2>1. CASE UNCHANGED hwVars
    BY <2>1 DEF HwInv, hwVars, RingCapacityFor, UsableL3
  <2>2. ASSUME NEW index \in [0 .. 1 -> Index], NEW cores \in CoreCounts, NEW d \in BOOLEAN,
               Detect(index, cores, d)
        PROVE  HwInv'
    <3>1. <<1, 3>> \in Share /\ <<1, 1>> \in Share /\ cores \in Nat
      <4>1. <<1, 3>> \in Share /\ <<1, 1>> \in Share
        BY DEF Share
      <4>2. cores \in Nat
        BY HardwareConstants
      <4> QED BY <4>1, <4>2
    <3>2. PICK fr \in Share : fr = IF d THEN <<1, 1>> ELSE <<1, 3>>
      BY <3>1
    <3>3. profile' = [l3 |-> DetectL3(index), cores |-> cores, fraction |-> fr]
      BY <2>2, <3>2 DEF Detect
    <3>4. profile'.l3 \in Nat /\ profile'.cores \in Nat /\ profile'.fraction \in Share
      BY <3>1, <3>3, DetectIs
    <3> QED BY <2>2, <3>4 DEF Detect, HwInv
  <2>3. ASSUME NEW f \in Fractions, WithFraction(f) PROVE HwInv'
    <3>1. hpc = "profile" /\ hpc' = hpc /\ profile' = [profile EXCEPT !.fraction = ClampFraction(f)]
      BY <2>3 DEF WithFraction
    <3>2. profile'.l3 \in Nat /\ profile'.cores \in Nat /\ profile'.fraction \in Share
      BY <3>1, ClampIs DEF HwInv
    <3> QED BY <3>1, <3>2 DEF HwInv
  <2>4. ASSUME NEW n \in SymbolCounts, Size(n) PROVE HwInv'
    <3>1. n \in Nat
      BY HardwareConstants
    <3> QED BY <2>4, <3>1 DEF Size, HwInv, RingCapacityFor, UsableL3
  <2> QED BY <2>1, <2>2, <2>3, <2>4 DEF HwNext
<1> QED BY <1>1, <1>2, PTL DEF HwSpec

(* Whatever the machine and the share, all rings together fit the cache    *)
(* that may be used, unless each is at its minimum, more symbols never get *)
(* larger rings, and a program gets a core and never more than there are.  *)
THEOREM HardwareSizedRight == HwSpec => []SizedRight
BY HwSized, HwInvariant, PTL
=============================================================================
