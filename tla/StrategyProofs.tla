--------------------------- MODULE StrategyProofs ---------------------------
(***************************************************************************)
(* For any periods, prices, timestamps, ring capacity and number of        *)
(* candles, however wake-ups coalesce or run ahead of the version: the     *)
(* strategy folds no candle twice, its rolling sums never drift from the   *)
(* closes folded, and its signals are exactly the crossings of the two     *)
(* averages.                                                               *)
(***************************************************************************)
EXTENDS Strategy, NatLemmas, SequenceTheorems, TLAPS

Candle == [ts : Times, close : Closes]

SmaType(p) == [period : Nat, buf : [0 .. (p - 1) -> Int], next : Nat, filled : Nat, sum : Int]

(* The average over period p when the candles of s have been folded: its   *)
(* sum is that of the newest, and the ring holds them by their number.     *)
SmaInv(a, s, p) ==
  /\ a \in SmaType(p)
  /\ a.period = p
  /\ a.filled = IF Len(s) < p THEN Len(s) ELSE p
  /\ a.sum = LastOf(s, Len(s), a.filled)
  /\ p > 0 => /\ a.next = Len(s) % p
              /\ \A i \in 1 .. Len(s) : i > Len(s) - p => a.buf[(i - 1) % p] = s[i].close

-----------------------------------------------------------------------------
(* The sums that the averages should be. *)

LEMMA CloseInt ==
  ASSUME NEW s \in Seq(Candle), NEW i \in 1 .. Len(s)
  PROVE  s[i].close \in Int
<1>1. s[i] \in Candle
  OBVIOUS
<1> QED BY <1>1, StrategyConstants DEF Candle

LEMMA LastOfInt ==
  ASSUME NEW s \in Seq(Candle), NEW n \in Nat, NEW p \in Nat, p <= n, n <= Len(s)
  PROVE  LastOf(s, n, p) \in Int
<1>1. \A i \in 1 .. p : s[n - p + i].close \in Int
  <2>1. \A i \in 1 .. p : n - p + i \in 1 .. Len(s)
    OBVIOUS
  <2> QED BY <2>1, CloseInt
<1>2. [i \in 1 .. p |-> s[n - p + i].close] \in [1 .. p -> Int]
  BY <1>1
<1> QED BY <1>2, SumType DEF LastOf

(* They depend on the candles summed only. *)
LEMMA LastOfSame ==
  ASSUME NEW s \in Seq(Candle), NEW t \in Seq(Candle), NEW n \in Nat, NEW p \in Nat,
         p <= n, n <= Len(s), n <= Len(t), \A i \in 1 .. n : t[i] = s[i]
  PROVE  LastOf(t, n, p) = LastOf(s, n, p)
<1>1. \A i \in 1 .. p : n - p + i \in 1 .. n
  OBVIOUS
<1>2. [i \in 1 .. p |-> t[n - p + i].close] = [i \in 1 .. p |-> s[n - p + i].close]
  BY <1>1
<1> QED BY <1>2 DEF LastOf

LEMMA LastOfNone ==
  ASSUME NEW s \in Seq(Candle), NEW n \in Nat, n <= Len(s)
  PROVE  LastOf(s, n, 0) = 0
<1>1. PICK g : g = [i \in 1 .. 0 |-> s[n - 0 + i].close]
  OBVIOUS
<1>2. g \in [1 .. 0 -> Int] /\ \A i \in 1 .. 0 : g[i] = 0
  BY <1>1
<1>3. SumTo(g, 0) = 0
  BY <1>2, SumZero
<1> QED BY <1>1, <1>3 DEF LastOf

(* A candle more: the sum of one more, and the sum of as many. *)
LEMMA LastOfGrows ==
  ASSUME NEW s \in Seq(Candle), NEW c \in Candle, NEW t, t = Append(s, c),
         NEW p \in 0 .. Len(s)
  PROVE  LastOf(t, Len(s) + 1, p + 1) = LastOf(s, Len(s), p) + c.close
<1> DEFINE n == Len(s)
<1> DEFINE g == [i \in 1 .. p |-> s[n - p + i].close]
<1> DEFINE h == [i \in 1 .. (p + 1) |-> t[(n + 1) - (p + 1) + i].close]
<1>1. t \in Seq(Candle) /\ Len(t) = n + 1 /\ t[n + 1] = c /\ \A i \in 1 .. n : t[i] = s[i]
  OBVIOUS
<1>2. n \in Nat /\ p \in Nat /\ p <= n /\ n + 1 \in Nat /\ p + 1 \in Nat
  OBVIOUS
<1>3. g \in [1 .. p -> Int]
  <2>1. \A i \in 1 .. p : n - p + i \in 1 .. Len(s)
    BY <1>2
  <2> QED BY <2>1, CloseInt
<1>4. h \in [1 .. (p + 1) -> Int]
  <2>1. \A i \in 1 .. (p + 1) : (n + 1) - (p + 1) + i \in 1 .. Len(t)
    BY <1>1, <1>2
  <2> QED BY <1>1, <2>1, CloseInt
<1>5. ASSUME NEW i \in 1 .. p PROVE h[i] = g[i]
  <2>1. (n + 1) - (p + 1) + i = n - p + i /\ n - p + i \in 1 .. n /\ i \in 1 .. (p + 1)
    BY <1>2
  <2> QED BY <1>1, <2>1
<1>6. h[p + 1] = c.close
  <2>1. (n + 1) - (p + 1) + (p + 1) = n + 1 /\ p + 1 \in 1 .. (p + 1)
    BY <1>2
  <2> QED BY <1>1, <2>1
<1>7. SumTo(h, p + 1) = SumTo(g, p) + h[p + 1]
  <2> HIDE DEF g, h
  <2> QED BY <1>2, <1>3, <1>4, <1>5, SumLast
<1> QED BY <1>6, <1>7 DEF LastOf

LEMMA LastOfSlides ==
  ASSUME NEW s \in Seq(Candle), NEW c \in Candle, NEW t, t = Append(s, c),
         NEW p \in 1 .. Len(s)
  PROVE  LastOf(t, Len(s) + 1, p) = (LastOf(s, Len(s), p) - s[Len(s) - p + 1].close) + c.close
<1> DEFINE n == Len(s)
<1> DEFINE g == [i \in 1 .. (p + 1) |-> t[(n + 1) - (p + 1) + i].close]
<1> DEFINE h == [i \in 1 .. p |-> t[(n + 1) - p + i].close]
<1>1. t \in Seq(Candle) /\ Len(t) = n + 1 /\ t[n + 1] = c /\ \A i \in 1 .. n : t[i] = s[i]
  OBVIOUS
<1>2. n \in Nat /\ p \in Nat /\ p <= n /\ n + 1 \in Nat /\ p + 1 \in Nat \ {0} /\ (p + 1) - 1 = p
      /\ p \in 0 .. n /\ p <= n + 1 /\ p + 1 <= n + 1
  OBVIOUS
<1>3. g \in [1 .. (p + 1) -> Int] /\ h \in [1 .. p -> Int]
  <2>1. \A i \in 1 .. (p + 1) : (n + 1) - (p + 1) + i \in 1 .. Len(t)
    BY <1>1, <1>2
  <2>2. \A i \in 1 .. p : (n + 1) - p + i \in 1 .. Len(t)
    BY <1>1, <1>2
  <2> QED BY <1>1, <2>1, <2>2, CloseInt
<1>5. ASSUME NEW i \in 1 .. p PROVE h[i] = g[i + 1]
  <2>1. (n + 1) - (p + 1) + (i + 1) = (n + 1) - p + i /\ i + 1 \in 1 .. (p + 1)
    BY <1>2
  <2> QED BY <2>1
<1>6. g[1] = s[n - p + 1].close
  <2>1. (n + 1) - (p + 1) + 1 = n - p + 1 /\ n - p + 1 \in 1 .. n /\ 1 \in 1 .. (p + 1)
    BY <1>2
  <2> QED BY <1>1, <2>1
<1>7. SumTo(h, p) = SumTo(g, p + 1) - g[1]
  <2> HIDE DEF g, h
  <2>1. \A i \in 1 .. ((p + 1) - 1) : h[i] = g[i + 1]
    BY <1>2, <1>5
  <2>2. h \in [1 .. ((p + 1) - 1) -> Int]
    BY <1>2, <1>3
  <2>3. SumTo(h, (p + 1) - 1) = SumTo(g, p + 1) - g[1]
    BY <1>2, <1>3, <2>1, <2>2, SumTail
  <2> QED BY <1>2, <2>3
<1>8. LastOf(t, n + 1, p) = LastOf(t, n + 1, p + 1) - s[n - p + 1].close
  BY <1>6, <1>7 DEF LastOf
<1>9. LastOf(t, n + 1, p + 1) = LastOf(s, n, p) + c.close
  BY <1>2, LastOfGrows
<1>10. LastOf(s, n, p) \in Int /\ c.close \in Int /\ s[n - p + 1].close \in Int
  <2>1. s[n - p + 1] \in Candle
    BY <1>2
  <2>2. LastOf(s, n, p) \in Int
    BY <1>2, LastOfInt
  <2> QED BY <2>1, <2>2, StrategyConstants DEF Candle
<1> QED BY <1>8, <1>9, <1>10

-----------------------------------------------------------------------------
(* RollingSma::push keeps the average right. *)

LEMMA SameSlot ==
  ASSUME NEW n \in Nat, NEW p \in Nat \ {0}, p <= n
  PROVE  (n - p) % p = n % p
<1> DEFINE q == n \div p
<1>1. n = p * q + (n % p) /\ n % p \in 0 .. (p - 1) /\ q \in Nat
  BY DivMod
<1>2. n - p = p * (q - 1) + (n % p) /\ q - 1 \in Int
  BY <1>1
<1>3. (p * (q - 1) + (n % p)) % p = n % p
  <2> HIDE DEF q
  <2> QED BY <1>1, <1>2, ModOf
<1> QED BY <1>2, <1>3

(* The fields of an average after a push. *)
Pushed(b, a, p, close) ==
  /\ b \in SmaType(p)
  /\ b.period = p /\ b.next = (a.next + 1) % p
  /\ b.filled = IF a.filled = p THEN p ELSE a.filled + 1
  /\ b.sum = (IF a.filled = p THEN a.sum - a.buf[a.next] ELSE a.sum) + close
  /\ b.buf = [a.buf EXCEPT ![a.next] = close]

LEMMA PushedSma ==
  ASSUME NEW p \in Nat \ {0}, NEW close \in Int,
         NEW a \in SmaType(p), a.period = p, a.next \in 0 .. (p - 1), NEW b, b = PushSma(a, close)
  PROVE  Pushed(b, a, p, close)
<1> USE DEF SmaType
<1>1. a.buf[a.next] \in Int
  OBVIOUS
<1>2. /\ b.period = a.period /\ b.next = (a.next + 1) % a.period
      /\ b.filled = IF a.filled = a.period THEN a.filled ELSE a.filled + 1
      /\ b.sum = (IF a.filled = a.period THEN a.sum - a.buf[a.next] ELSE a.sum) + close
      /\ b.buf = [a.buf EXCEPT ![a.next] = close]
  BY DEF PushSma
<1>3. b = [period |-> b.period, buf |-> b.buf, next |-> b.next, filled |-> b.filled, sum |-> b.sum]
  BY DEF PushSma
<1>4. (a.next + 1) % p \in Nat
  OBVIOUS
<1>5. b.buf \in [0 .. (p - 1) -> Int] /\ b.period \in Nat /\ b.next \in Nat /\ b.filled \in Nat
      /\ b.sum \in Int
  <2>1. a.buf \in [0 .. (p - 1) -> Int] /\ a.filled \in Nat /\ a.sum \in Int
    OBVIOUS
  <2>2. b.buf \in [0 .. (p - 1) -> Int]
    BY <1>2, <2>1
  <2>3. b.filled \in Nat
    BY <1>2, <2>1
  <2>4. b.sum \in Int
    <3>1. a.sum - a.buf[a.next] \in Int
      BY <1>1, <2>1
    <3>2. PICK x \in Int, y \in Int : x = a.sum - a.buf[a.next] /\ y = a.sum
      BY <2>1, <3>1
    <3> HIDE DEF SmaType
    <3>3. b.sum = (IF a.filled = a.period THEN x ELSE y) + close
      BY <1>2, <3>2
    <3> QED BY <3>3
  <2> QED BY <1>2, <1>4, <2>2, <2>3, <2>4
<1> QED BY <1>2, <1>3, <1>5 DEF Pushed

LEMMA SmaKeeps ==
  ASSUME NEW s \in Seq(Candle), NEW c \in Candle, NEW t, t = Append(s, c),
         NEW p \in Nat, NEW a, SmaInv(a, s, p)
  PROVE  SmaInv(PushSma(a, c.close), t, p)
<1> DEFINE n == Len(s)
<1> DEFINE b == PushSma(a, c.close)
<1>1. t \in Seq(Candle) /\ Len(t) = n + 1 /\ t[n + 1] = c /\ \A i \in 1 .. n : t[i] = s[i]
  OBVIOUS
<1>2. n \in Nat /\ n = Len(s)
  OBVIOUS
<1> HIDE DEF n
<1>5. c.close \in Int
  BY StrategyConstants DEF Candle
<1>3. CASE p = 0
  <2>1. b = a /\ a.filled = 0 /\ a.sum = 0
    BY <1>2, <1>3, LastOfNone DEF SmaInv, PushSma
  <2>2. LastOf(t, n + 1, 0) = 0
    <3>1. n + 1 \in Nat /\ n + 1 <= Len(t)
      BY <1>1, <1>2
    <3> QED BY <1>1, <3>1, LastOfNone
  <2> QED BY <1>1, <1>2, <1>3, <2>1, <2>2 DEF SmaInv
<1>4. CASE p # 0
  <2>1. /\ a \in SmaType(p)
        /\ a.period = p /\ a.next = n % p /\ a.next \in 0 .. (p - 1)
        /\ a.filled = IF n < p THEN n ELSE p
        /\ a.sum = LastOf(s, n, a.filled)
        /\ \A i \in 1 .. n : i > n - p => a.buf[(i - 1) % p] = s[i].close
    <3>1. n % p \in 0 .. (p - 1) /\ p > 0
      BY <1>2, <1>4
    <3> QED BY <1>2, <3>1 DEF SmaInv
  <2>2. /\ b \in SmaType(p)
        /\ b.period = p /\ b.next = (a.next + 1) % p
        /\ b.filled = IF a.filled = p THEN p ELSE a.filled + 1
        /\ b.sum = (IF a.filled = p THEN a.sum - a.buf[a.next] ELSE a.sum) + c.close
        /\ b.buf = [a.buf EXCEPT ![a.next] = c.close]
    <3>1. p \in Nat \ {0}
      BY <1>4
    <3> HIDE DEF b
    <3>2. b = PushSma(a, c.close)
      BY DEF b
    <3>3. Pushed(b, a, p, c.close)
      BY <1>5, <2>1, <3>1, <3>2, PushedSma
    <3> QED BY <3>3 DEF Pushed
  <2> HIDE DEF b
  <2>3. b.next = (n + 1) % p
    BY <1>2, <1>4, <2>1, <2>2, NextRemainder
  <2>4. b.filled = IF n + 1 < p THEN n + 1 ELSE p
    <3>1. a.filled \in Nat
      BY <2>1 DEF SmaType
    <3>2. CASE n < p
      <4>1. a.filled = n /\ n # p
        BY <1>2, <2>1, <3>2
      <4>2. b.filled = n + 1
        BY <2>2, <4>1
      <4> QED BY <1>2, <3>2, <4>2
    <3>3. CASE ~ (n < p)
      <4>1. a.filled = p
        BY <2>1, <3>3
      <4>2. b.filled = p
        BY <2>2, <4>1
      <4> QED BY <1>2, <3>3, <4>2
    <3> QED BY <3>2, <3>3
  <2>5. b.sum = LastOf(t, n + 1, b.filled)
    <3>1. CASE n < p
      <4>1. a.filled = n /\ a.filled # p /\ b.filled = n + 1 /\ n \in 0 .. Len(s)
        BY <1>2, <2>1, <2>2, <3>1
      <4>2. b.sum = LastOf(s, n, n) + c.close
        BY <2>1, <2>2, <4>1
      <4> QED BY <1>2, <4>1, <4>2, LastOfGrows
    <3>2. CASE p <= n
      <4>1. a.filled = p /\ b.filled = p /\ p \in 1 .. Len(s)
        BY <1>2, <1>4, <2>1, <2>2, <3>2
      <4>2. n - p + 1 \in 1 .. n /\ n - p + 1 > n - p /\ (n - p + 1) - 1 = n - p
        BY <1>2, <1>4, <3>2
      <4>3. a.buf[a.next] = s[n - p + 1].close
        <5>1. (n - p) % p = n % p
          BY <1>2, <1>4, <3>2, SameSlot
        <5>2. a.buf[((n - p + 1) - 1) % p] = s[n - p + 1].close
          BY <2>1, <4>2
        <5> QED BY <2>1, <4>2, <5>1, <5>2
      <4>4. b.sum = (LastOf(s, n, p) - s[n - p + 1].close) + c.close
        BY <2>1, <2>2, <4>1, <4>3
      <4> QED BY <1>2, <4>1, <4>4, LastOfSlides
    <3> QED BY <1>2, <3>1, <3>2
  <2>6. ASSUME NEW i \in 1 .. (n + 1), i > (n + 1) - p PROVE b.buf[(i - 1) % p] = t[i].close
    <3>0. i - 1 \in Nat /\ n % p \in 0 .. (p - 1) /\ (i - 1) % p \in 0 .. (p - 1)
      BY <1>2, <1>4
    <3>1. CASE i = n + 1
      <4>1. (i - 1) % p = a.next /\ t[i] = c
        BY <1>1, <1>2, <2>1, <3>1
      <4> QED BY <2>1, <2>2, <4>1 DEF SmaType
    <3>2. CASE i # n + 1
      <4>1. i \in 1 .. n /\ i > n - p /\ i - 1 < n /\ n - (i - 1) < p
        BY <1>2, <1>4, <2>6, <3>2
      <4>2. (i - 1) % p # n % p
        BY <1>2, <1>4, <3>0, <4>1, RemaindersApart
      <4>3. b.buf[(i - 1) % p] = a.buf[(i - 1) % p]
        BY <2>1, <2>2, <3>0, <4>2 DEF SmaType
      <4> QED BY <1>1, <2>1, <4>1, <4>3
    <3> QED BY <3>1, <3>2
  <2>7. SmaInv(b, t, p)
    BY <1>1, <2>2, <2>3, <2>4, <2>5, <2>6 DEF SmaInv
  <2> QED BY <2>7 DEF b
<1> QED BY <1>3, <1>4

-----------------------------------------------------------------------------
(* The fold of a batch. *)

(* What the thread's state says of the candles folded. *)
FoldInv(st, s) ==
  /\ s \in Seq(Candle) /\ st.seen = Len(s)
  /\ SmaInv(st.short, s, ShortP) /\ SmaInv(st.long, s, LongP)
  /\ st.ts \in Times \cup {-1}
  /\ \A i \in 1 .. Len(s) : s[i].ts <= st.ts
  /\ \A i, j \in 1 .. Len(s) : i < j => s[i].ts < s[j].ts

Prolongs(t, s) == Len(s) <= Len(t) /\ \A i \in 1 .. Len(s) : t[i] = s[i]

LEMMA TimesInt ==
  ASSUME NEW ts \in Times
  PROVE  ts \in Nat /\ ts \in Int
<1>1. ts \in Nat
  BY StrategyConstants
<1> QED BY <1>1

LEMMA FoldKeeps ==
  ASSUME NEW p, FoldInv(p[1], p[2]), NEW c \in Candle, NEW q, q = Fold(p, c)
  PROVE  FoldInv(q[1], q[2]) /\ Prolongs(q[2], p[2]) /\ Len(q[2]) <= Len(p[2]) + 1
<1> DEFINE s == p[2]
<1>1. s \in Seq(Candle) /\ Len(s) \in Nat
  BY DEF FoldInv
<1>2. CASE Newer(p[1], c)
  <2> DEFINE t == Append(s, c)
  <2>1. q[1].short = PushSma(p[1].short, c.close) /\ q[1].long = PushSma(p[1].long, c.close)
        /\ q[1].seen = p[1].seen + 1 /\ q[1].ts = c.ts /\ q[2] = t
    BY <1>2 DEF Fold
  <2>2. t \in Seq(Candle) /\ Len(t) = Len(s) + 1 /\ t[Len(s) + 1] = c
        /\ \A i \in 1 .. Len(s) : t[i] = s[i]
    BY <1>1
  <2>3. SmaInv(q[1].short, t, ShortP) /\ SmaInv(q[1].long, t, LongP)
    <3>1. ShortP \in Nat /\ LongP \in Nat
      BY StrategyConstants
    <3>2. SmaInv(p[1].short, s, ShortP) /\ SmaInv(p[1].long, s, LongP)
      BY DEF FoldInv
    <3> HIDE DEF s
    <3> QED BY <1>1, <2>1, <3>1, <3>2, SmaKeeps
  <2>4. c.ts \in Nat /\ c.ts \in Times /\ p[1].ts < c.ts /\ p[1].ts \in Int
    <3>1. c.ts \in Times /\ Times \subseteq Nat
      BY StrategyConstants DEF Candle
    <3>2. p[1].ts \in Times \/ p[1].ts = -1
      BY DEF FoldInv
    <3>3. p[1].ts \in Int
      <4>1. -1 \in Int
        OBVIOUS
      <4> QED BY <3>2, <4>1, TimesInt
    <3>4. c.ts > p[1].ts
      BY <1>2 DEF Newer
    <3> QED BY <3>1, <3>3, <3>4
  <2>5. \A i \in 1 .. Len(s) : s[i].ts <= p[1].ts /\ s[i].ts \in Int
    <3>1. \A i \in 1 .. Len(s) : s[i] \in Candle
      BY <1>1
    <3>2. ASSUME NEW i \in 1 .. Len(s) PROVE s[i].ts \in Int
      <4>1. s[i].ts \in Times
        BY <3>1 DEF Candle
      <4> QED BY <4>1, TimesInt
    <3>3. \A i \in 1 .. Len(s) : s[i].ts <= p[1].ts
      BY DEF FoldInv
    <3> QED BY <3>2, <3>3
  <2> HIDE DEF t
  <2>6. ASSUME NEW i \in 1 .. Len(t) PROVE t[i].ts <= c.ts
    <3>1. CASE i = Len(s) + 1
      BY <2>2, <2>4, <3>1
    <3>2. CASE i # Len(s) + 1
      <4>1. i \in 1 .. Len(s)
        BY <1>1, <2>2, <3>2
      <4>2. t[i] = s[i] /\ s[i].ts <= p[1].ts /\ s[i].ts \in Int
        BY <2>2, <2>5, <4>1
      <4> QED BY <2>4, <4>2
    <3> QED BY <3>1, <3>2
  <2>7. ASSUME NEW i \in 1 .. Len(t), NEW j \in 1 .. Len(t), i < j PROVE t[i].ts < t[j].ts
    <3>0. i \in 1 .. Len(s)
      BY <1>1, <2>2, <2>7
    <3>1. CASE j = Len(s) + 1
      <4>1. t[i] = s[i] /\ t[j] = c /\ s[i].ts <= p[1].ts /\ s[i].ts \in Int
        BY <2>2, <2>5, <3>0, <3>1
      <4> QED BY <2>4, <4>1
    <3>2. CASE j # Len(s) + 1
      <4>1. j \in 1 .. Len(s)
        BY <1>1, <2>2, <3>2
      <4>2. s[i].ts < s[j].ts
        BY <2>7, <3>0, <4>1 DEF FoldInv
      <4> QED BY <2>2, <3>0, <4>1, <4>2
    <3> QED BY <3>1, <3>2
  <2>8. q[1].seen = Len(t)
    BY <2>1, <2>2 DEF FoldInv
  <2>9. FoldInv(q[1], t)
    BY <2>1, <2>2, <2>3, <2>4, <2>6, <2>7, <2>8 DEF FoldInv
  <2>10. Prolongs(t, s) /\ Len(t) <= Len(s) + 1
    BY <1>1, <2>2 DEF Prolongs
  <2> QED BY <2>1, <2>9, <2>10
<1>3. CASE ~Newer(p[1], c)
  <2>1. q = p
    BY <1>3 DEF Fold
  <2> QED BY <1>1, <2>1 DEF Prolongs
<1> QED BY <1>2, <1>3

(* The states after each candle of a batch. *)
Folds(p, batch) ==
  CHOOSE f : f = [i \in 0 .. Len(batch) |-> IF i = 0 THEN p ELSE Fold(f[i - 1], batch[i])]

LEMMA FoldsOf ==
  ASSUME NEW p, NEW batch \in Seq(Candle)
  PROVE  /\ Folds(p, batch)[0] = p
         /\ \A i \in 1 .. Len(batch) : Folds(p, batch)[i] = Fold(Folds(p, batch)[i - 1], batch[i])
         /\ FoldAll(p, batch) = Folds(p, batch)[Len(batch)]
<1> DEFINE N == Len(batch)
<1> DEFINE Step(g, i) == IF i = 0 THEN p ELSE Fold(g[i - 1], batch[i])
<1> DEFINE Good == {m \in 0 .. N : \E g : g = [i \in 0 .. m |-> Step(g, i)]}
<1>0. N \in Nat
  OBVIOUS
<1>1. 0 \in Good
  <2> DEFINE g == [i \in 0 .. 0 |-> p]
  <2>1. g = [i \in 0 .. 0 |-> Step(g, i)]
    OBVIOUS
  <2>2. 0 \in 0 .. N
    BY <1>0
  <2> HIDE DEF g, Step
  <2> QED BY <2>1, <2>2
<1>2. ASSUME NEW m \in 0 .. (N - 1), m \in Good PROVE m + 1 \in Good
  <2>1. PICK g : g = [i \in 0 .. m |-> Step(g, i)]
    BY <1>2
  <2> DEFINE h == [i \in 0 .. (m + 1) |-> IF i <= m THEN g[i] ELSE Step(g, i)]
  <2>2. \A i \in 0 .. m : h[i] = g[i]
    OBVIOUS
  <2>3. \A i \in 0 .. (m + 1) : h[i] = Step(g, i)
    <3> SUFFICES ASSUME NEW i \in 0 .. (m + 1) PROVE h[i] = Step(g, i)
      OBVIOUS
    <3>1. i \in 0 .. m => g[i] = Step(g, i)
      <4> HIDE DEF Step
      <4> QED BY <2>1
    <3> HIDE DEF Step
    <3> QED BY <3>1
  <2>4. \A i \in 0 .. (m + 1) : Step(h, i) = Step(g, i)
    <3> SUFFICES ASSUME NEW i \in 0 .. (m + 1) PROVE Step(h, i) = Step(g, i)
      OBVIOUS
    <3>1. i # 0 => i - 1 \in 0 .. m
      OBVIOUS
    <3> HIDE DEF h
    <3> QED BY <2>2, <3>1
  <2>5. h = [i \in 0 .. (m + 1) |-> Step(h, i)]
    <3>1. h = [i \in 0 .. (m + 1) |-> h[i]]
      OBVIOUS
    <3> HIDE DEF h, Step
    <3> QED BY <2>3, <2>4, <3>1
  <2>6. m + 1 \in 0 .. N
    BY <1>0
  <2> HIDE DEF h, Step
  <2> QED BY <2>5, <2>6
<1>3. N \in Good
  <2> HIDE DEF Good, Step, N
  <2>1. \A m \in 0 .. (N - 1) : m \in Good => m + 1 \in Good
    BY <1>2
  <2>2. 0 .. N \subseteq Good
    BY <1>0, <1>1, <2>1, UpTo
  <2> QED BY <1>0, <2>2
<1>4. PICK g : g = [i \in 0 .. N |-> Step(g, i)]
  BY <1>3
<1>5. Folds(p, batch) = [i \in 0 .. N |-> Step(Folds(p, batch), i)]
  BY <1>4 DEF Folds
<1>6. \A i \in 0 .. N : Folds(p, batch)[i] = Step(Folds(p, batch), i)
  <2> HIDE DEF Step, N
  <2> QED BY <1>5
<1>7. \A i \in 1 .. N : i \in 0 .. N /\ i # 0
  OBVIOUS
<1>8. Folds(p, batch)[0] = p
  BY <1>0, <1>6
<1>9. FoldAll(p, batch) = Folds(p, batch)[Len(batch)]
  BY DEF FoldAll, Folds
<1> QED BY <1>6, <1>7, <1>8, <1>9

LEMMA FoldAllKeeps ==
  ASSUME NEW p, FoldInv(p[1], p[2]), NEW batch \in Seq(Candle), NEW q, q = FoldAll(p, batch)
  PROVE  /\ FoldInv(q[1], q[2]) /\ Prolongs(q[2], p[2])
         /\ Len(q[2]) <= Len(p[2]) + Len(batch)
<1>1. PICK f : /\ f[0] = p /\ q = f[Len(batch)]
               /\ \A i \in 1 .. Len(batch) : f[i] = Fold(f[i - 1], batch[i])
  BY FoldsOf
<1>2. PICK N \in Nat : N = Len(batch)
  OBVIOUS
<1>3. p[2] \in Seq(Candle) /\ Len(p[2]) \in Nat
  BY DEF FoldInv
<1> DEFINE Good == {m \in 0 .. N : /\ FoldInv(f[m][1], f[m][2]) /\ Prolongs(f[m][2], p[2])
                                   /\ Len(f[m][2]) <= Len(p[2]) + m}
<1>4. 0 \in Good
  BY <1>1, <1>3 DEF Prolongs
<1>5. ASSUME NEW m \in 0 .. (N - 1), m \in Good PROVE m + 1 \in Good
  <2>1. m + 1 \in 1 .. N /\ (m + 1) - 1 = m /\ m + 1 \in 0 .. N
    OBVIOUS
  <2>2. f[m + 1] = Fold(f[m], batch[m + 1]) /\ batch[m + 1] \in Candle
    BY <1>1, <1>2, <2>1
  <2>3. FoldInv(f[m][1], f[m][2]) /\ Prolongs(f[m][2], p[2]) /\ Len(f[m][2]) <= Len(p[2]) + m
    BY <1>5
  <2>4. /\ FoldInv(f[m + 1][1], f[m + 1][2]) /\ Prolongs(f[m + 1][2], f[m][2])
        /\ Len(f[m + 1][2]) <= Len(f[m][2]) + 1
    BY <2>2, <2>3, FoldKeeps
  <2>5. Len(f[m][2]) \in Nat /\ Len(f[m + 1][2]) \in Nat
    BY <2>3, <2>4 DEF FoldInv
  <2>6. Prolongs(f[m + 1][2], p[2]) /\ Len(f[m + 1][2]) <= Len(p[2]) + (m + 1)
    <3>1. Len(p[2]) <= Len(f[m][2]) /\ Len(f[m][2]) <= Len(f[m + 1][2])
      BY <2>3, <2>4 DEF Prolongs
    <3>2. ASSUME NEW i \in 1 .. Len(p[2]) PROVE f[m + 1][2][i] = p[2][i]
      <4>1. i \in 1 .. Len(f[m][2])
        BY <1>3, <2>5, <3>1
      <4>2. f[m + 1][2][i] = f[m][2][i] /\ f[m][2][i] = p[2][i]
        BY <2>3, <2>4, <4>1 DEF Prolongs
      <4> QED BY <4>2
    <3>3. Len(p[2]) <= Len(f[m + 1][2]) /\ Len(f[m + 1][2]) <= Len(p[2]) + (m + 1)
      <4>1. PICK a \in Nat, b \in Nat, d \in Nat :
              a = Len(p[2]) /\ b = Len(f[m][2]) /\ d = Len(f[m + 1][2])
        BY <1>3, <2>5
      <4>2. a <= b /\ b <= d /\ b <= a + m /\ d <= b + 1
        BY <2>3, <2>4, <3>1, <4>1
      <4>3. a <= d /\ d <= a + (m + 1)
        BY <4>2
      <4> QED BY <4>1, <4>3
    <3> QED BY <3>2, <3>3 DEF Prolongs
  <2> QED BY <2>1, <2>4, <2>6
<1>6. N \in Good
  <2> HIDE DEF Good
  <2>1. 0 .. N \subseteq Good
    BY <1>4, <1>5, UpTo
  <2> QED BY <2>1
<1> QED BY <1>1, <1>2, <1>6

-----------------------------------------------------------------------------
(* The inductive invariant. *)

(* value() when the candles of s have been folded. *)
Average(s, p) == IF p > 0 /\ Len(s) >= p THEN <<LastOf(s, Len(s), p)>> ELSE None

Signal == [at : Nat, side : {"Buy", "Sell"}]

StoreTypes ==
  /\ hot \in Seq(Candle) /\ Len(hot) <= RingCapacity
  /\ version \in Nat /\ publishing \in BOOLEAN
  /\ appended \in 0 .. MaxCandles /\ other \in 0 .. MaxOther
  /\ spc \in {"wait", "read"} /\ lastSeen \in 0 .. version

(* Until it is warm the strategy has nothing to compare with; from then on *)
(* prev_short and prev_long are the averages of all that was folded.       *)
WarmInv ==
  /\ warmAt \in Nat /\ signals \in Seq(Signal)
  /\ warmAt = 0 => Len(fed) < MinCandles /\ prev = <<None, None>> /\ signals = <<>>
  /\ warmAt > 0 => /\ MinCandles <= warmAt /\ warmAt <= Len(fed)
                   /\ prev = <<Average(fed, ShortP), Average(fed, LongP)>>
  /\ \A k \in 1 .. Len(signals) : signals[k].at <= Len(fed)

StratInv == StoreTypes /\ FoldInv(state, fed) /\ WarmInv /\ SignalsAreCrossings

LEMMA ValueIs ==
  ASSUME NEW s \in Seq(Candle), NEW p \in Nat, NEW a, SmaInv(a, s, p)
  PROVE  Value(a) = Average(s, p)
<1>1. Len(s) \in Nat
  OBVIOUS
<1>2. CASE p > 0 /\ Len(s) >= p
  <2>1. a.period = p /\ a.filled = p /\ a.sum = LastOf(s, Len(s), p)
    BY <1>1, <1>2 DEF SmaInv
  <2> QED BY <1>2, <2>1 DEF Value, Average
<1>3. CASE ~ (p > 0 /\ Len(s) >= p)
  <2>1. a.period = p /\ (p > 0 => a.filled # p)
    BY <1>1, <1>3 DEF SmaInv
  <2> QED BY <1>3, <2>1 DEF Value, Average
<1> QED BY <1>2, <1>3

(* What a wake-up reads are candles of the ring, and once warm just one. *)
LEMMA BatchIs ==
  ASSUME StratInv
  PROVE  Batch \in Seq(Candle) /\ (state.seen >= MinCandles => Len(Batch) <= 1)
<1>1. hot \in Seq(Candle) /\ Len(hot) \in Nat /\ LongP \in Nat /\ MinCandles \in Nat \ {0}
  BY StrategyConstants DEF StratInv, StoreTypes, MinCandles
<1>2. ASSUME NEW n \in Nat \ {0} PROVE LastN(n) \in Seq(Candle) /\ Len(LastN(n)) <= n
  <2>1. CASE Len(hot) > n
    <3>1. LastN(n) = SubSeq(hot, Len(hot) - n + 1, Len(hot))
      BY <2>1 DEF LastN
    <3>2. Len(hot) - n + 1 \in 1 .. (Len(hot) + 1) /\ Len(hot) \in (Len(hot) - n) .. Len(hot)
      BY <1>1, <2>1
    <3>3. /\ SubSeq(hot, Len(hot) - n + 1, Len(hot)) \in Seq(Candle)
          /\ Len(SubSeq(hot, Len(hot) - n + 1, Len(hot))) = n
      BY <1>1, <3>2
    <3> QED BY <3>1, <3>3
  <2>2. CASE ~ (Len(hot) > n)
    <3>1. LastN(n) = SubSeq(hot, 1, Len(hot))
      BY <2>2 DEF LastN
    <3>2. /\ SubSeq(hot, 1, Len(hot)) \in Seq(Candle)
          /\ Len(SubSeq(hot, 1, Len(hot))) = Len(hot)
      BY <1>1
    <3> QED BY <1>1, <2>2, <3>1, <3>2
  <2> QED BY <2>1, <2>2
<1>3. CASE state.seen < MinCandles
  <2>1. Batch = LastN(MinCandles) /\ ~ (state.seen >= MinCandles)
    <3>1. state.seen \in Int
      BY DEF StratInv, FoldInv
    <3> QED BY <1>1, <1>3, <3>1 DEF Batch
  <2> QED BY <1>1, <1>2, <2>1
<1>4. CASE ~ (state.seen < MinCandles)
  <2>1. Batch = LastN(1)
    BY <1>4 DEF Batch
  <2> QED BY <1>2, <2>1
<1> QED BY <1>3, <1>4

(* The decision of one turn of the loop. *)
Side(curr) ==
  IF None \in {prev[1], prev[2], curr[1], curr[2]} THEN "none"
  ELSE Cross(Above(prev[1], prev[2]), Above(curr[1], curr[2]))
Decides(n, curr) ==
  LET warm == n >= MinCandles /\ n > Len(fed)
  IN  /\ prev' = IF warm THEN curr ELSE prev
      /\ warmAt' = IF warm /\ warmAt = 0 THEN n ELSE warmAt
      /\ signals' = IF warm /\ Side(curr) # "none"
                      THEN Append(signals, [at |-> n, side |-> Side(curr)]) ELSE signals

LEMMA ReactShape ==
  ASSUME StratInv, React
  PROVE  /\ FoldInv(state', fed') /\ Prolongs(fed', fed)
         /\ Len(fed) >= MinCandles => Len(fed') <= Len(fed) + 1
         /\ Decides(Len(fed'), <<Average(fed', ShortP), Average(fed', LongP)>>)
<1>1. PICK p : p = <<state, fed>>
  OBVIOUS
<1>2. p[1] = state /\ p[2] = fed
  BY <1>1
<1>3. PICK q : q = FoldAll(p, Batch)
  OBVIOUS
<1>4. PICK curr : curr = <<Value(q[1].short), Value(q[1].long)>>
  OBVIOUS
<1>5. /\ state' = q[1] /\ fed' = q[2]
      /\ LET warm == q[1].seen >= MinCandles /\ q[1].seen > state.seen
         IN  /\ prev' = IF warm THEN curr ELSE prev
             /\ warmAt' = IF warm /\ warmAt = 0 THEN q[1].seen ELSE warmAt
             /\ signals' = IF warm /\ Side(curr) # "none"
                            THEN Append(signals, [at |-> q[1].seen, side |-> Side(curr)]) ELSE signals
  BY <1>1, <1>3, <1>4 DEF React, PrevAfter, Side
<1>6. FoldInv(q[1], q[2]) /\ Prolongs(q[2], fed) /\ Len(q[2]) <= Len(fed) + Len(Batch)
  <2>1. FoldInv(p[1], p[2]) /\ Batch \in Seq(Candle)
    BY <1>2, BatchIs DEF StratInv
  <2>2. FoldInv(q[1], q[2]) /\ Prolongs(q[2], p[2]) /\ Len(q[2]) <= Len(p[2]) + Len(Batch)
    BY <1>3, <2>1, FoldAllKeeps
  <2> QED BY <1>2, <2>2
<1>7. q[1].seen = Len(q[2]) /\ state.seen = Len(fed) /\ q[2] \in Seq(Candle) /\ fed \in Seq(Candle)
  BY <1>6 DEF StratInv, FoldInv
<1>8. Len(fed) >= MinCandles => Len(q[2]) <= Len(fed) + 1
  <2>1. Len(fed) >= MinCandles => Len(Batch) <= 1
    BY <1>7, BatchIs
  <2>2. Len(Batch) \in Nat /\ Len(fed) \in Nat /\ Len(q[2]) \in Nat
    BY <1>7, BatchIs
  <2> QED BY <1>6, <2>1, <2>2
<1>9. curr = <<Average(q[2], ShortP), Average(q[2], LongP)>>
  <2>1. SmaInv(q[1].short, q[2], ShortP) /\ SmaInv(q[1].long, q[2], LongP)
    BY <1>6 DEF FoldInv
  <2>2. Value(q[1].short) = Average(q[2], ShortP) /\ Value(q[1].long) = Average(q[2], LongP)
    BY <1>7, <2>1, StrategyConstants, ValueIs
  <2> QED BY <1>4, <2>2
<1>10. Decides(Len(q[2]), curr)
  BY <1>5, <1>7 DEF Decides
<1> QED BY <1>5, <1>6, <1>8, <1>9, <1>10

-----------------------------------------------------------------------------
(* Signals and crossings. *)

NaiveOf(s, n) == Above(<<LastOf(s, n, ShortP)>>, <<LastOf(s, n, LongP)>>)
Sent(sg, n)   == {sg[i].side : i \in {k \in DOMAIN sg : sg[k].at = n}}
Crossing(was, is) ==
  (IF was <= 0 /\ is > 0 THEN {"Buy"} ELSE {}) \cup (IF was >= 0 /\ is < 0 THEN {"Sell"} ELSE {})

(* SignalsAreCrossings of candles s folded, warm from the w-th on. *)
Periods == ShortP > 0 /\ LongP > 0 /\ ShortP <= LongP
Right(s, w, sg) ==
  Periods /\ w > 0 =>
    \A n \in (w + 1) .. Len(s) : Sent(sg, n) = Crossing(NaiveOf(s, n - 1), NaiveOf(s, n))

LEMMA RightIs == SignalsAreCrossings <=> Right(fed, warmAt, signals)
BY DEF SignalsAreCrossings, Right, Periods, Sent, Crossing, NaiveOf, Naive

LEMMA NaiveInt ==
  ASSUME NEW s \in Seq(Candle), NEW n \in Nat, n <= Len(s), ShortP <= n, LongP <= n
  PROVE  NaiveOf(s, n) \in Int
<1>1. ShortP \in Nat /\ LongP \in Nat
  BY StrategyConstants
<1>2. PICK a \in Int, b \in Int : a = LastOf(s, n, ShortP) /\ b = LastOf(s, n, LongP)
  BY <1>1, LastOfInt
<1>3. NaiveOf(s, n) = a * LongP - b * ShortP
  BY <1>2 DEF NaiveOf, Above
<1> QED BY <1>1, <1>3

LEMMA NaiveSame ==
  ASSUME NEW s \in Seq(Candle), NEW t \in Seq(Candle), NEW n \in Nat, Prolongs(t, s),
         n <= Len(s), ShortP <= n, LongP <= n
  PROVE  NaiveOf(t, n) = NaiveOf(s, n)
<1>1. ShortP \in Nat /\ LongP \in Nat
  BY StrategyConstants
<1>2. n <= Len(t) /\ \A i \in 1 .. n : t[i] = s[i]
  <2>1. \A i \in 1 .. n : i \in 1 .. Len(s)
    OBVIOUS
  <2> QED BY <2>1 DEF Prolongs
<1>3. LastOf(t, n, ShortP) = LastOf(s, n, ShortP) /\ LastOf(t, n, LongP) = LastOf(s, n, LongP)
  BY <1>1, <1>2, LastOfSame
<1> QED BY <1>3 DEF NaiveOf

(* The side decided on is the crossing there is. *)
LEMMA CrossIs ==
  ASSUME NEW was \in Int, NEW is \in Int, NEW side, side = Cross(was, is)
  PROVE  /\ side \in {"Buy", "Sell", "none"}
         /\ Crossing(was, is) = IF side = "none" THEN {} ELSE {side}
<1>1. CASE was <= 0 /\ is > 0
  BY <1>1 DEF Cross, Crossing
<1>2. CASE was >= 0 /\ is < 0
  BY <1>2 DEF Cross, Crossing
<1>3. CASE ~ (was <= 0 /\ is > 0) /\ ~ (was >= 0 /\ is < 0)
  BY <1>3 DEF Cross, Crossing
<1> QED BY <1>1, <1>2, <1>3

LEMMA NotLast ==
  ASSUME NEW m \in Nat, NEW k \in 1 .. (m + 1), k # m + 1
  PROVE  k \in 1 .. m
OBVIOUS

(* One candle more: the signals sent before it stay right, and the one     *)
(* sent after it, or none, is too.                                         *)
LEMMA RightKeeps ==
  ASSUME NEW s \in Seq(Candle), NEW t \in Seq(Candle), Prolongs(t, s), Len(t) = Len(s) + 1,
         NEW w \in Nat, MinCandles <= w, w <= Len(s), NEW sg \in Seq(Signal), Right(s, w, sg),
         \A k \in 1 .. Len(sg) : sg[k].at <= Len(s),
         NEW side, Periods => side = Cross(NaiveOf(s, Len(s)), NaiveOf(t, Len(t))),
         NEW sh, sh = IF side # "none" THEN Append(sg, [at |-> Len(t), side |-> side]) ELSE sg
  PROVE  Right(t, w, sh)
<1>1. SUFFICES ASSUME Periods, w > 0, NEW n \in (w + 1) .. Len(t)
               PROVE  Sent(sh, n) = Crossing(NaiveOf(t, n - 1), NaiveOf(t, n))
  BY DEF Right
<1>2. PICK N \in Nat : N = Len(s) /\ Len(t) = N + 1
  OBVIOUS
<1>3. /\ ShortP \in Nat /\ LongP \in Nat /\ ShortP <= LongP /\ LongP < w
      /\ n \in Nat /\ n - 1 \in Nat /\ n - 1 <= N /\ LongP <= n - 1 /\ ShortP <= n - 1
      /\ LongP <= N /\ ShortP <= N
  BY <1>1, <1>2, StrategyConstants DEF Periods, MinCandles
<1>4. NaiveOf(t, n - 1) = NaiveOf(s, n - 1)
  BY <1>2, <1>3, NaiveSame
<1>5. DOMAIN sg = 1 .. Len(sg) /\ Len(sg) \in Nat
  OBVIOUS
<1>6. sh # sg => /\ DOMAIN sh = 1 .. (Len(sg) + 1) /\ sh[Len(sg) + 1] = [at |-> N + 1, side |-> side]
                 /\ \A k \in 1 .. Len(sg) : sh[k] = sg[k]
  <2>1. PICK e : e = [at |-> N + 1, side |-> side]
    OBVIOUS
  <2>2. sh # sg => sh = Append(sg, e)
    BY <1>2, <2>1
  <2> QED BY <2>1, <2>2
<1>7. CASE n <= N
  <2>1. n \in (w + 1) .. Len(s) /\ n # N + 1
    BY <1>2, <1>3, <1>7
  <2>2. Sent(sg, n) = Crossing(NaiveOf(s, n - 1), NaiveOf(s, n))
    BY <1>1, <2>1 DEF Right
  <2>3. NaiveOf(t, n) = NaiveOf(s, n)
    BY <1>2, <1>3, <1>7, NaiveSame
  <2>4. Sent(sh, n) = Sent(sg, n)
    <3>1. CASE sh = sg
      BY <3>1
    <3>2. CASE sh # sg
      <4>1. {k \in DOMAIN sh : sh[k].at = n} = {k \in DOMAIN sg : sg[k].at = n}
        <5>1. ASSUME NEW k \in 1 .. (Len(sg) + 1), k # Len(sg) + 1 PROVE k \in 1 .. Len(sg)
          BY <1>5, <5>1, NotLast
        <5>2. sh[Len(sg) + 1].at = N + 1
          BY <1>6, <3>2
        <5>3. DOMAIN sh = 1 .. (Len(sg) + 1) /\ \A k \in 1 .. Len(sg) : sh[k] = sg[k]
          BY <1>6, <3>2
        <5>4. ASSUME NEW k \in DOMAIN sh, sh[k].at = n PROVE k \in DOMAIN sg /\ sg[k].at = n
          <6>1. k # Len(sg) + 1
            BY <2>1, <5>2, <5>4
          <6>2. k \in 1 .. Len(sg)
            BY <5>1, <5>3, <6>1
          <6> QED BY <1>5, <5>3, <5>4, <6>2
        <5>5. ASSUME NEW k \in DOMAIN sg, sg[k].at = n PROVE k \in DOMAIN sh /\ sh[k].at = n
          <6>1. k \in 1 .. Len(sg) /\ k \in 1 .. (Len(sg) + 1)
            BY <1>5
          <6> QED BY <5>3, <5>5, <6>1
        <5> QED BY <5>4, <5>5
      <4>2. \A k \in {k \in DOMAIN sg : sg[k].at = n} : sh[k].side = sg[k].side
        BY <1>5, <1>6, <3>2
      <4> QED BY <4>1, <4>2 DEF Sent
    <3> QED BY <3>1, <3>2
  <2> QED BY <1>4, <2>2, <2>3, <2>4
<1>8. CASE n = N + 1
  <2>1. NaiveOf(s, N) \in Int /\ NaiveOf(t, N + 1) \in Int
    <3>1. N + 1 \in Nat /\ N <= Len(s) /\ N + 1 <= Len(t) /\ LongP <= N + 1 /\ ShortP <= N + 1
      BY <1>2, <1>3
    <3> QED BY <1>2, <1>3, <3>1, NaiveInt
  <2>2. side = Cross(NaiveOf(s, N), NaiveOf(t, N + 1))
    BY <1>1, <1>2
  <2>3. Crossing(NaiveOf(s, N), NaiveOf(t, N + 1)) = IF side = "none" THEN {} ELSE {side}
    BY <2>1, <2>2, CrossIs
  <2>4. n - 1 = N
    BY <1>8
  <2>5. ASSUME NEW k \in 1 .. Len(sg) PROVE sg[k].at # n
    <3>1. sg[k] \in Signal
      OBVIOUS
    <3>2. sg[k].at \in Nat /\ sg[k].at <= N
      BY <1>2, <3>1 DEF Signal
    <3> QED BY <1>8, <3>2
  <2>6. Sent(sh, n) = IF side = "none" THEN {} ELSE {side}
    <3>1. CASE side = "none"
      <4>1. sh = sg
        BY <3>1
      <4> QED BY <1>5, <2>5, <3>1, <4>1 DEF Sent
    <3>2. CASE side # "none"
      <4>1. sh # sg
        <5>1. Len(sh) = Len(sg) + 1
          BY <3>2
        <5> SUFFICES ASSUME sh = sg PROVE FALSE
          OBVIOUS
        <5>2. PICK m \in Nat : m = Len(sg)
          BY <1>5
        <5>3. m = m + 1
          BY <5>1, <5>2
        <5> QED BY <5>3
      <4>2. {k \in DOMAIN sh : sh[k].at = n} = {Len(sg) + 1}
        <5>1. ASSUME NEW k \in 1 .. (Len(sg) + 1), k # Len(sg) + 1 PROVE k \in 1 .. Len(sg)
          BY <1>5, <5>1, NotLast
        <5>2. sh[Len(sg) + 1].at = N + 1 /\ Len(sg) + 1 \in 1 .. (Len(sg) + 1)
          <6>1. sh[Len(sg) + 1] = [at |-> N + 1, side |-> side]
            BY <1>6, <4>1
          <6> QED BY <1>5, <6>1
        <5> QED BY <1>6, <1>8, <2>5, <4>1, <5>1, <5>2
      <4>3. sh[Len(sg) + 1].side = side
        BY <1>6, <4>1
      <4> QED BY <3>2, <4>2, <4>3 DEF Sent
    <3> QED BY <3>1, <3>2
  <2> QED BY <1>4, <1>8, <2>3, <2>4, <2>6
<1> QED BY <1>2, <1>3, <1>7, <1>8

-----------------------------------------------------------------------------
(* Every step keeps the invariant. *)

(* A side, or none. *)
LEMMA SideIs ==
  ASSUME NEW curr
  PROVE  Side(curr) \in {"Buy", "Sell", "none"}
BY DEF Side, Cross

(* With both averages there, before and after, it is the cross of the      *)
(* averages over all that was folded.                                      *)
LEMMA SideCrosses ==
  ASSUME NEW s \in Seq(Candle), NEW t \in Seq(Candle), Periods,
         LongP <= Len(s), LongP <= Len(t),
         prev = <<Average(s, ShortP), Average(s, LongP)>>,
         NEW curr, curr = <<Average(t, ShortP), Average(t, LongP)>>
  PROVE  Side(curr) = Cross(NaiveOf(s, Len(s)), NaiveOf(t, Len(t)))
<1>1. ASSUME NEW u \in Seq(Candle), LongP <= Len(u)
      PROVE  /\ Average(u, ShortP) = <<LastOf(u, Len(u), ShortP)>>
             /\ Average(u, LongP) = <<LastOf(u, Len(u), LongP)>>
  <2>1. PICK n \in Nat : n = Len(u)
    OBVIOUS
  <2>2. ShortP > 0 /\ LongP > 0 /\ n >= ShortP /\ n >= LongP
    BY <1>1, <2>1, StrategyConstants DEF Periods
  <2> QED BY <2>1, <2>2 DEF Average
<1>2. \A x : <<x>> # None
  BY DEF None
<1>3. PICK a, b, d, e : /\ prev = <<a, b>> /\ curr = <<d, e>>
                        /\ a = <<LastOf(s, Len(s), ShortP)>> /\ b = <<LastOf(s, Len(s), LongP)>>
                        /\ d = <<LastOf(t, Len(t), ShortP)>> /\ e = <<LastOf(t, Len(t), LongP)>>
  BY <1>1
<1>4. a # None /\ b # None /\ d # None /\ e # None
  BY <1>2, <1>3
<1>5. prev[1] = a /\ prev[2] = b /\ curr[1] = d /\ curr[2] = e
  BY <1>3
<1>6. Side(curr) = Cross(Above(a, b), Above(d, e))
  BY <1>4, <1>5 DEF Side
<1> QED BY <1>3, <1>6 DEF NaiveOf

LEMMA ReactWarms ==
  ASSUME StratInv, React
  PROVE  WarmInv' /\ SignalsAreCrossings'
<1> DEFINE curr == <<Average(fed', ShortP), Average(fed', LongP)>>
<1>1. /\ FoldInv(state', fed') /\ Prolongs(fed', fed)
      /\ Len(fed) >= MinCandles => Len(fed') <= Len(fed) + 1
      /\ Decides(Len(fed'), curr)
  BY ReactShape
<1>2. fed \in Seq(Candle) /\ fed' \in Seq(Candle)
  BY <1>1 DEF StratInv, FoldInv
<1>3. PICK n \in Nat, m \in Nat : n = Len(fed) /\ m = Len(fed') /\ n <= m
  BY <1>1, <1>2 DEF Prolongs
<1>4. WarmInv /\ Right(fed, warmAt, signals) /\ MinCandles \in Nat /\ MinCandles > LongP
  BY RightIs, StrategyConstants DEF StratInv, MinCandles
<1>5. SignalsAreCrossings' <=> Right(fed', warmAt', signals')
  BY DEF SignalsAreCrossings, Right, Periods, Sent, Crossing, NaiveOf, Naive
<1> HIDE DEF curr
<1>6. CASE m = n
  <2>1. fed' = fed
    <3>1. PICK t : t = fed'
      OBVIOUS
    <3>2. t \in Seq(Candle) /\ Len(t) = Len(fed) /\ \A i \in 1 .. Len(fed) : t[i] = fed[i]
      BY <1>1, <1>2, <1>3, <1>6, <3>1 DEF Prolongs
    <3>3. t = fed
      BY <1>2, <3>2, SeqEqual
    <3> QED BY <3>1, <3>3
  <2>2. prev' = prev /\ warmAt' = warmAt /\ signals' = signals
    BY <1>1, <1>3, <1>6 DEF Decides
  <2>3. WarmInv'
    BY <1>4, <2>1, <2>2 DEF WarmInv
  <2> QED BY <1>4, <1>5, <2>1, <2>2, <2>3
<1>7. CASE n < m /\ m < MinCandles
  <2>1. prev' = prev /\ warmAt' = warmAt /\ signals' = signals
    BY <1>1, <1>3, <1>4, <1>7 DEF Decides
  <2>2. warmAt = 0
    BY <1>3, <1>4, <1>7 DEF WarmInv
  <2>3. prev = <<None, None>> /\ signals = <<>>
    BY <1>4, <2>2 DEF WarmInv
  <2>4. WarmInv'
    BY <1>3, <1>7, <2>1, <2>2, <2>3 DEF WarmInv
  <2>5. Right(fed', warmAt', signals')
    BY <2>1, <2>2 DEF Right
  <2> QED BY <1>5, <2>4, <2>5
<1>8. CASE n < m /\ m >= MinCandles /\ warmAt = 0
  <2>1. prev = <<None, None>> /\ signals = <<>>
    BY <1>4, <1>8 DEF WarmInv
  <2>2. Side(curr) = "none"
    <3>1. prev[1] = None
      BY <2>1
    <3> QED BY <3>1 DEF Side
  <2>3. prev' = curr /\ warmAt' = m /\ signals' = <<>>
    BY <1>1, <1>3, <1>8, <2>1, <2>2 DEF Decides
  <2>4. m > 0 /\ m + 1 > m
    BY <1>3, <1>8
  <2>5. WarmInv'
    BY <1>3, <1>4, <1>8, <2>3, <2>4 DEF WarmInv, curr, MinCandles
  <2>6. Right(fed', warmAt', signals')
    <3>1. \A k \in (m + 1) .. m : FALSE
      BY <1>3
    <3> QED BY <1>3, <2>3, <3>1 DEF Right
  <2> QED BY <1>5, <2>5, <2>6
<1>9. CASE n < m /\ m >= MinCandles /\ warmAt # 0
  <2>1. /\ warmAt \in Nat /\ warmAt > 0 /\ MinCandles <= warmAt /\ warmAt <= n
        /\ prev = <<Average(fed, ShortP), Average(fed, LongP)>>
        /\ signals \in Seq(Signal) /\ \A k \in 1 .. Len(signals) : signals[k].at <= n
    BY <1>3, <1>4, <1>9 DEF WarmInv
  <2>2. m = n + 1
    BY <1>1, <1>3, <1>4, <1>9, <2>1
  <2>3. /\ prev' = curr /\ warmAt' = warmAt
        /\ signals' = IF Side(curr) # "none"
                        THEN Append(signals, [at |-> m, side |-> Side(curr)]) ELSE signals
    BY <1>1, <1>3, <1>9 DEF Decides
  <2>4. Periods => Side(curr) = Cross(NaiveOf(fed, n), NaiveOf(fed', m))
    <3>1. LongP <= n /\ LongP <= m
      BY <1>3, <1>4, <1>9, <2>1, StrategyConstants
    <3> QED BY <1>2, <1>3, <2>1, <3>1, SideCrosses DEF curr
  <2>5. Right(fed', warmAt, signals')
    <3>1. PICK t, sh, side : t = fed' /\ sh = signals' /\ side = Side(curr)
      OBVIOUS
    <3>2. t \in Seq(Candle) /\ Prolongs(t, fed) /\ Len(t) = Len(fed) + 1
      BY <1>1, <1>2, <1>3, <2>2, <3>1
    <3>3. Periods => side = Cross(NaiveOf(fed, Len(fed)), NaiveOf(t, Len(t)))
      BY <1>3, <2>4, <3>1
    <3>4. sh = IF side # "none" THEN Append(signals, [at |-> Len(t), side |-> side]) ELSE signals
      BY <1>3, <2>3, <3>1
    <3>5. MinCandles <= warmAt /\ warmAt <= Len(fed)
          /\ \A k \in 1 .. Len(signals) : signals[k].at <= Len(fed)
      BY <1>3, <2>1
    <3>6. Right(t, warmAt, sh)
      BY <1>2, <1>4, <2>1, <3>2, <3>3, <3>4, <3>5, RightKeeps
    <3> QED BY <3>1, <3>6
  <2>6. signals' \in Seq(Signal) /\ \A k \in 1 .. Len(signals') : signals'[k].at <= m
    <3>1. CASE Side(curr) = "none"
      <4>1. ASSUME NEW k \in 1 .. Len(signals) PROVE signals[k].at \in Nat
        <5>1. signals[k] \in Signal
          BY <2>1
        <5> QED BY <5>1 DEF Signal
      <4> QED BY <1>3, <2>1, <2>3, <3>1, <4>1
    <3>2. CASE Side(curr) # "none"
      <4>1. PICK e \in Signal : e = [at |-> m, side |-> Side(curr)]
        BY <3>2, SideIs DEF Signal
      <4>2. signals' = Append(signals, e) /\ e.at = m
        BY <2>3, <3>2, <4>1
      <4>3. /\ Append(signals, e) \in Seq(Signal) /\ Len(Append(signals, e)) = Len(signals) + 1
            /\ Append(signals, e)[Len(signals) + 1] = e
            /\ \A k \in 1 .. Len(signals) : Append(signals, e)[k] = signals[k]
        BY <2>1, <4>1
      <4>4. ASSUME NEW k \in 1 .. (Len(signals) + 1) PROVE Append(signals, e)[k].at <= m
        <5>1. CASE k = Len(signals) + 1
          BY <1>3, <4>2, <4>3, <5>1
        <5>2. CASE k # Len(signals) + 1
          <6>1. k \in 1 .. Len(signals)
            BY <2>1, <5>2
          <6>2. signals[k] \in Signal /\ signals[k].at <= n
            BY <2>1, <6>1
          <6>3. signals[k].at \in Nat
            BY <6>2 DEF Signal
          <6> QED BY <1>3, <4>3, <6>1, <6>2, <6>3
        <5> QED BY <5>1, <5>2
      <4> QED BY <4>2, <4>3, <4>4
    <3> QED BY <3>1, <3>2
  <2>7. WarmInv'
    BY <1>3, <2>1, <2>3, <2>6 DEF WarmInv, curr, MinCandles
  <2> QED BY <1>5, <2>3, <2>5, <2>7
<1> QED BY <1>3, <1>4, <1>6, <1>7, <1>8, <1>9

LEMMA InitInv ==
  ASSUME Init
  PROVE  StratInv
<1>1. ASSUME NEW p \in Nat PROVE SmaInv(NewSma(p), <<>>, p)
  <2>1. <<>> \in Seq(Candle) /\ Len(<<>>) = 0
    OBVIOUS
  <2>2. LastOf(<<>>, 0, 0) = 0
    <3>1. PICK s : s = <<>>
      OBVIOUS
    <3>2. LastOf(s, 0, 0) = 0
      <4>1. s \in Seq(Candle) /\ 0 <= Len(s)
        BY <2>1, <3>1
      <4> QED BY <4>1, LastOfNone
    <3> QED BY <3>1, <3>2
  <2>3. NewSma(p) \in SmaType(p)
    BY DEF NewSma, SmaType
  <2>4. /\ NewSma(p).period = p /\ NewSma(p).filled = 0 /\ NewSma(p).sum = 0
        /\ NewSma(p).next = 0
    BY DEF NewSma
  <2>5. p > 0 => 0 % p = 0
    OBVIOUS
  <2>6. 0 = IF 0 < p THEN 0 ELSE p
    OBVIOUS
  <2> QED BY <2>1, <2>2, <2>3, <2>4, <2>5, <2>6 DEF SmaInv
<1>2. /\ fed = <<>> /\ state.short = NewSma(ShortP) /\ state.long = NewSma(LongP)
      /\ state.seen = 0 /\ state.ts = -1
  BY DEF Init
<1>3. <<>> \in Seq(Candle) /\ Len(<<>>) = 0
  OBVIOUS
<1>4. FoldInv(state, fed)
  BY <1>1, <1>2, <1>3, StrategyConstants DEF FoldInv
<1>5. StoreTypes
  <2>1. hot \in Seq(Candle) /\ Len(hot) = 0
    BY <1>3 DEF Init
  <2>2. 0 <= RingCapacity /\ 0 \in 0 .. MaxCandles /\ 0 \in 0 .. MaxOther /\ 0 \in 0 .. 0
    BY StrategyConstants
  <2> QED BY <2>1, <2>2 DEF Init, StoreTypes
<1>6. WarmInv
  <2>1. signals = <<>> /\ signals \in Seq(Signal) /\ Len(signals) = 0 /\ warmAt = 0
        /\ prev = <<None, None>>
    BY DEF Init
  <2> QED BY <1>2, <1>3, <2>1, StrategyConstants DEF WarmInv, MinCandles
<1>7. SignalsAreCrossings
  BY DEF Init, SignalsAreCrossings
<1> QED BY <1>4, <1>5, <1>6, <1>7 DEF StratInv

(* The appender and the wait leave the thread's averages alone. *)
LEMMA OthersKeep ==
  ASSUME StratInv, UNCHANGED <<state, prev, fed, warmAt, signals>>
  PROVE  FoldInv(state, fed)' /\ WarmInv' /\ SignalsAreCrossings'
<1>1. FoldInv(state, fed)'
  BY DEF StratInv
<1>2. WarmInv'
  BY DEF StratInv, WarmInv
<1>3. SignalsAreCrossings'
  <2>1. Right(fed, warmAt, signals)
    BY RightIs DEF StratInv
  <2>2. SignalsAreCrossings' <=> Right(fed', warmAt', signals')
    BY DEF SignalsAreCrossings, Right, Periods, Sent, Crossing, NaiveOf, Naive
  <2> QED BY <2>1, <2>2
<1> QED BY <1>1, <1>2, <1>3

LEMMA PushKeeps ==
  ASSUME StratInv, NEW ts \in Times, NEW close \in Closes, PushCandle(ts, close)
  PROVE  StoreTypes'
<1>1. PICK c \in Candle : c = [ts |-> ts, close |-> close]
  BY DEF Candle
<1>2. hot \in Seq(Candle) /\ Len(hot) \in Nat /\ Len(hot) <= RingCapacity
  BY DEF StratInv, StoreTypes
<1>3. RingCapacity \in Nat \ {0} /\ MaxCandles \in Nat
  BY StrategyConstants
<1>4. PICK q : q = IF Len(hot) = RingCapacity THEN Tail(hot) ELSE hot
  OBVIOUS
<1>5. q \in Seq(Candle) /\ Len(q) + 1 <= RingCapacity
  <2>1. CASE Len(hot) = RingCapacity
    <3>1. hot # <<>>
      BY <1>2, <1>3, <2>1
    <3>2. Tail(hot) \in Seq(Candle) /\ Len(Tail(hot)) = Len(hot) - 1
      BY <1>2, <3>1
    <3> QED BY <1>2, <1>3, <1>4, <2>1, <3>2
  <2>2. CASE Len(hot) # RingCapacity
    BY <1>2, <1>3, <1>4, <2>2
  <2> QED BY <2>1, <2>2
<1>6. hot' = Append(q, c)
  BY <1>1, <1>4 DEF PushCandle
<1>7. Append(q, c) \in Seq(Candle) /\ Len(Append(q, c)) = Len(q) + 1
  BY <1>5
<1>8. hot' \in Seq(Candle) /\ Len(hot') <= RingCapacity
  BY <1>5, <1>6, <1>7
<1>9. appended' \in 0 .. MaxCandles
  BY <1>3 DEF PushCandle, StratInv, StoreTypes
<1> QED BY <1>8, <1>9 DEF PushCandle, StratInv, StoreTypes

LEMMA StepInv ==
  ASSUME StratInv, [Next]_vars
  PROVE  StratInv'
<1>1. ASSUME NEW ts \in Times, NEW close \in Closes, PushCandle(ts, close) PROVE StratInv'
  <2>1. StoreTypes'
    BY <1>1, PushKeeps
  <2>2. UNCHANGED <<state, prev, fed, warmAt, signals>>
    BY <1>1 DEF PushCandle
  <2> QED BY <2>1, <2>2, OthersKeep DEF StratInv
<1>2. CASE Publish \/ AppendOther \/ Wake
  <2>1. StoreTypes'
    <3>1. version \in Nat /\ lastSeen \in 0 .. version /\ other \in 0 .. MaxOther
          /\ MaxOther \in Nat
      BY StrategyConstants DEF StratInv, StoreTypes
    <3>2. version' \in Nat /\ lastSeen' \in 0 .. version' /\ other' \in 0 .. MaxOther
      BY <1>2, <3>1 DEF Publish, AppendOther, Wake, storeVars
    <3>3. publishing' \in BOOLEAN /\ spc' \in {"wait", "read"} /\ UNCHANGED <<hot, appended>>
      BY <1>2 DEF Publish, AppendOther, Wake, storeVars, StratInv, StoreTypes
    <3> QED BY <3>2, <3>3 DEF StratInv, StoreTypes
  <2>2. UNCHANGED <<state, prev, fed, warmAt, signals>>
    BY <1>2 DEF Publish, AppendOther, Wake
  <2> QED BY <2>1, <2>2, OthersKeep DEF StratInv
<1>3. CASE React
  <2>1. StoreTypes'
    BY <1>3 DEF React, storeVars, StratInv, StoreTypes
  <2>2. FoldInv(state', fed')
    BY <1>3, ReactShape
  <2>3. WarmInv' /\ SignalsAreCrossings'
    BY <1>3, ReactWarms
  <2> QED BY <2>1, <2>2, <2>3 DEF StratInv
<1>4. CASE UNCHANGED vars
  <2>1. StoreTypes'
    BY <1>4 DEF vars, storeVars, StratInv, StoreTypes
  <2>2. UNCHANGED <<state, prev, fed, warmAt, signals>>
    BY <1>4 DEF vars
  <2> QED BY <2>1, <2>2, OthersKeep DEF StratInv
<1> QED BY <1>1, <1>2, <1>3, <1>4 DEF Next

-----------------------------------------------------------------------------
(* The inductive invariant holds whatever the appender and the wake-ups of *)
(* strategy_thread do.                                                     *)
THEOREM StrategyInvariant == Spec => []StratInv
<1>1. Init => StratInv
  BY InitInv
<1>2. StratInv /\ [Next]_vars => StratInv'
  BY StepInv
<1> QED BY <1>1, <1>2, PTL DEF Spec

LEMMA InvFolds ==
  ASSUME StratInv
  PROVE  FoldsRight
<1>1. ShortP \in Nat /\ LongP \in Nat
  BY StrategyConstants
<1>2. FoldInv(state, fed) /\ fed \in Seq(Candle) /\ StoreTypes
  BY DEF StratInv, FoldInv
<1>3. ASSUME NEW a, NEW p \in Nat, SmaInv(a, fed, p)
      PROVE  /\ a.filled <= a.period /\ (a.period > 0 => a.next < a.period)
             /\ Value(a) = IF a.period > 0 /\ Len(fed) >= a.period
                              THEN <<LastOf(fed, Len(fed), a.period)>> ELSE None
  <2>1. PICK n \in Nat : n = Len(fed)
    BY <1>2
  <2>2. a.period = p /\ a.filled <= p
    BY <1>3, <2>1 DEF SmaInv
  <2>3. p > 0 => a.next < p
    <3>1. p > 0 => n % p < p
      BY <2>1
    <3> QED BY <1>3, <2>1, <3>1 DEF SmaInv
  <2>4. Value(a) = Average(fed, p)
    BY <1>2, <1>3, ValueIs
  <2> QED BY <2>2, <2>3, <2>4 DEF Average
<1>4. ASSUME NEW a \in {state.short, state.long}
      PROVE  /\ a.filled <= a.period /\ (a.period > 0 => a.next < a.period)
             /\ Value(a) = IF a.period > 0 /\ Len(fed) >= a.period
                              THEN <<LastOf(fed, Len(fed), a.period)>> ELSE None
  <2>1. SmaInv(state.short, fed, ShortP) /\ SmaInv(state.long, fed, LongP)
    BY <1>2 DEF FoldInv
  <2>2. \E p \in Nat : SmaInv(a, fed, p)
    BY <1>1, <1>4, <2>1
  <2> QED BY <1>3, <2>2
<1>5. TypeOK
  BY <1>2, <1>4 DEF TypeOK, StoreTypes, FoldInv, Candle
<1>6. FoldedOnce
  BY <1>2 DEF FoldInv, FoldedOnce
<1>7. SmaExact
  BY <1>4 DEF SmaExact
<1> QED BY <1>5, <1>6, <1>7 DEF FoldsRight

(* strategy_thread folds no candle twice, and RollingSma's sum is always   *)
(* that of the last closes folded, for any periods and any number of       *)
(* candles.                                                                *)
THEOREM StrategyFoldsRight == Spec => []FoldsRight
<1>1. StratInv => FoldsRight
  BY InvFolds
<1> QED BY <1>1, StrategyInvariant, PTL

(* Its signals are exactly the crossings of the two averages from the end  *)
(* of the warm-up on: prev_short and prev_long are never stale.            *)
THEOREM StrategySignalsAreCrossings == Spec => []SignalsAreCrossings
<1>1. StratInv => SignalsAreCrossings
  BY DEF StratInv
<1> QED BY <1>1, StrategyInvariant, PTL

=============================================================================
