----------------------------- MODULE NatLemmas -----------------------------
(***************************************************************************)
(* Facts about numbers: quotients and remainders, for the circular buffers *)
(* of src/shm.rs and src/ring_buffer.rs; the least number principle, by    *)
(* which the proofs argue where they need an induction; and sums, for the  *)
(* quantities of src/matching/book.rs and the averages of market_hub.      *)
(***************************************************************************)
EXTENDS Sums, Bisection, WellFoundedInduction, TLAPS

(* A set of naturals that is not empty has a least element. *)
LEMMA Least ==
  ASSUME NEW S, S \subseteq Nat, S # {}
  PROVE  \E m \in S : \A n \in S : m <= n
<1> DEFINE R == {ss \in Nat \X Nat : ss[1] < ss[2]}
<1>1. IsWellFoundedOn(R, Nat)
  BY NatLessThanWellFounded DEF OpToRel
<1> HIDE DEF R
<1>2. PICK m \in S : \A n \in S : ~ (<<n, m>> \in R)
  BY <1>1, WFMin
<1>3. \A n \in S : n < m => <<n, m>> \in R
  BY DEF R
<1>4. \A n \in S : ~ (n < m)
  BY <1>2, <1>3
<1> QED BY <1>4

(* One that is bounded has a greatest element. *)
LEMMA Greatest ==
  ASSUME NEW N \in Nat, NEW S, S \subseteq 0 .. N, S # {}
  PROVE  \E m \in S : \A n \in S : n <= m
<1> DEFINE T == {N - n : n \in S}
<1>1. T \subseteq Nat
  OBVIOUS
<1>0. T # {}
  <2>1. PICK n \in S : TRUE
    OBVIOUS
  <2>2. N - n \in T
    OBVIOUS
  <2> QED BY <2>2
<1>2. PICK t \in T : \A u \in T : t <= u
  BY <1>0, <1>1, Least
<1>3. PICK m \in S : t = N - m
  OBVIOUS
<1>4. \A n \in S : N - m <= N - n
  BY <1>2, <1>3
<1> QED BY <1>4

(* Induction up to a bound: a set that has 0, and n + 1 with every n below *)
(* the bound, has every number up to it.                                   *)
LEMMA UpTo ==
  ASSUME NEW N \in Nat, NEW S, 0 \in S, \A n \in 0 .. (N - 1) : n \in S => n + 1 \in S
  PROVE  0 .. N \subseteq S
<1> DEFINE C == {n \in 0 .. N : n \notin S}
<1> SUFFICES ASSUME C # {} PROVE FALSE
  OBVIOUS
<1>1. PICK m \in C : \A n \in C : m <= n
  <2>1. C \subseteq Nat
    OBVIOUS
  <2> QED BY <2>1, Least
<1>2. m \in 0 .. N /\ m \notin S /\ m # 0
  OBVIOUS
<1>3. m - 1 \in 0 .. (N - 1) /\ m - 1 \in 0 .. N /\ (m - 1) + 1 = m
  BY <1>2
<1>4. m - 1 \notin C
  <2>1. ~ (m <= m - 1)
    BY <1>2
  <2> QED BY <1>1, <2>1
<1> QED BY <1>2, <1>3, <1>4

(* Quotient and remainder. *)
LEMMA DivMod ==
  ASSUME NEW a \in Nat, NEW m \in Nat \ {0}
  PROVE  /\ a = m * (a \div m) + (a % m)
         /\ a % m \in 0 .. (m - 1) /\ a \div m \in Nat
OBVIOUS

(* What is left over after whole multiples. *)
LEMMA ModOf ==
  ASSUME NEW m \in Nat \ {0}, NEW q \in Int, NEW r \in 0 .. (m - 1)
  PROVE  (m * q + r) % m = r
OBVIOUS

(* Multiplication distributes over addition. *)
LEMMA Distributes ==
  ASSUME NEW a \in Nat, NEW b \in Nat, NEW c \in Nat
  PROVE  a * (b + c) = a * b + a * c
OBVIOUS

(* A product of naturals is one, and grows with its factors. *)
LEMMA TimesNat ==
  ASSUME NEW a \in Nat, NEW b \in Nat
  PROVE  a * b \in Nat
OBVIOUS

LEMMA TimesUp ==
  ASSUME NEW a \in Nat, NEW b \in Nat, NEW c \in Nat, b <= c
  PROVE  a * b <= a * c
<1>1. PICK d \in Nat : c = b + d
  <2>1. c - b \in Nat /\ c = b + (c - b)
    OBVIOUS
  <2> QED BY <2>1
<1>2. a * c = a * b + a * d
  BY <1>1, Distributes
<1>3. a * b \in Nat /\ a * d \in Nat
  BY TimesNat
<1> QED BY <1>2, <1>3

(* Adding one to a remainder, with the wrap. *)
LEMMA NextRemainder ==
  ASSUME NEW a \in Nat, NEW m \in Nat \ {0}
  PROVE  ((a % m) + 1) % m = (a + 1) % m
<1> DEFINE q == a \div m
<1> DEFINE r == a % m
<1>1. a = m * q + r /\ r \in 0 .. (m - 1) /\ q \in Nat
  BY DivMod
<1>2. CASE r + 1 < m
  <2>1. (r + 1) % m = r + 1 /\ a + 1 = m * q + (r + 1)
    BY <1>1, <1>2
  <2>2. (m * q + (r + 1)) % m = r + 1
    BY <1>1, <1>2, ModOf
  <2> QED BY <2>1, <2>2
<1>3. CASE r + 1 = m
  <2>1. (r + 1) % m = 0 /\ a + 1 = m * (q + 1) + 0
    BY <1>1, <1>3
  <2>2. (m * (q + 1) + 0) % m = 0
    BY <1>1, ModOf
  <2> QED BY <2>1, <2>2
<1> QED BY <1>1, <1>2, <1>3

(* Numbers less than n apart have different remainders. *)
LEMMA RemaindersApart ==
  ASSUME NEW a \in Nat, NEW b \in Nat, NEW n \in Nat \ {0}, b < a, a - b < n
  PROVE  a % n # b % n
<1>2. PICK qa \in Nat, ra \in 0 .. (n - 1) : a = n * qa + ra /\ ra = a % n
  BY DivMod
<1>3. PICK qb \in Nat, rb \in 0 .. (n - 1) : b = n * qb + rb /\ rb = b % n
  BY DivMod
<1> SUFFICES ASSUME ra = rb PROVE FALSE
  BY <1>2, <1>3
<1>4. a - b = n * (qa - qb)
  BY <1>2, <1>3
<1>5. CASE qa - qb >= 1
  <2>1. n * (qa - qb) >= n
    BY <1>5
  <2> QED BY <1>4, <2>1
<1>6. CASE qa - qb <= 0
  <2>1. n * (qa - qb) <= 0
    BY <1>6
  <2> QED BY <1>4, <2>1
<1> QED BY <1>5, <1>6

-----------------------------------------------------------------------------
(* Sums.  SumTo is the value of a recursive function; that there is such a *)
(* function, and what it comes to, follows by induction on the index.      *)

(* The partial sums of a sequence of terms. *)
Partial(f, g, n) ==
  f \in [0 .. n -> Int] /\ f[0] = 0 /\ \A i \in 1 .. n : f[i] = f[i - 1] + g[i]

LEMMA PartialExists ==
  ASSUME NEW n \in Nat, NEW g \in [1 .. n -> Int]
  PROVE  \E f : Partial(f, g, n)
<1> DEFINE Has == {m \in 0 .. n : \E f \in [0 .. m -> Int] :
                     f[0] = 0 /\ \A i \in 1 .. m : f[i] = f[i - 1] + g[i]}
<1>1. 0 \in Has
  <2>1. PICK f : f = [i \in 0 .. 0 |-> 0]
    OBVIOUS
  <2>2. f \in [0 .. 0 -> Int] /\ f[0] = 0 /\ \A i \in 1 .. 0 : f[i] = f[i - 1] + g[i]
    BY <2>1
  <2> QED BY <2>2
<1>2. ASSUME NEW m \in 0 .. (n - 1), m \in Has PROVE m + 1 \in Has
  <2>1. PICK f \in [0 .. m -> Int] : f[0] = 0 /\ \A i \in 1 .. m : f[i] = f[i - 1] + g[i]
    BY <1>2
  <2>2. PICK h : h = [i \in 0 .. (m + 1) |-> IF i = m + 1 THEN f[m] + g[m + 1] ELSE f[i]]
    OBVIOUS
  <2>3. f[m] \in Int /\ g[m + 1] \in Int /\ m + 1 \in 0 .. n
    OBVIOUS
  <2>4. h \in [0 .. (m + 1) -> Int]
    <3>1. \A i \in 0 .. (m + 1) : i # m + 1 => i \in 0 .. m
      OBVIOUS
    <3> QED BY <2>2, <2>3, <3>1
  <2>5. h[0] = 0
    BY <2>1, <2>2
  <2>6. ASSUME NEW i \in 1 .. (m + 1) PROVE h[i] = h[i - 1] + g[i]
    <3>1. CASE i = m + 1
      BY <2>2, <3>1
    <3>2. CASE i \in 1 .. m
      <4>1. h[i] = f[i] /\ h[i - 1] = f[i - 1]
        BY <2>2, <3>2
      <4> QED BY <2>1, <3>2, <4>1
    <3> QED BY <3>1, <3>2
  <2> QED BY <2>3, <2>4, <2>5, <2>6
<1> HIDE DEF Has
<1>3. n \in Has
  <2>1. 0 .. n \subseteq Has
    BY <1>1, <1>2, UpTo
  <2> QED BY <2>1
<1> QED BY <1>3 DEF Has, Partial

(* SumTo is the last of the partial sums. *)
LEMMA SumIs ==
  ASSUME NEW n \in Nat, NEW g \in [1 .. n -> Int]
  PROVE  \E f : Partial(f, g, n) /\ SumTo(g, n) = f[n]
<1>1. PICK e : Partial(e, g, n)
  BY PartialExists
<1>2. e = [i \in 0 .. n |-> IF i = 0 THEN 0 ELSE e[i - 1] + g[i]]
  <2>1. \A i \in 0 .. n : i # 0 => i \in 1 .. n
    OBVIOUS
  <2> QED BY <1>1, <2>1 DEF Partial
<1>3. PICK f : /\ f = [i \in 0 .. n |-> IF i = 0 THEN 0 ELSE f[i - 1] + g[i]]
               /\ SumTo(g, n) = f[n]
  BY <1>2 DEF SumTo
<1>4. f[0] = 0 /\ \A i \in 1 .. n : f[i] = f[i - 1] + g[i]
  BY <1>3
<1> DEFINE Good == {m \in 0 .. n : f[m] \in Int}
<1>5. 0 .. n \subseteq Good
  <2>1. 0 \in Good
    BY <1>4
  <2>2. ASSUME NEW m \in 0 .. (n - 1), m \in Good PROVE m + 1 \in Good
    <3>1. m + 1 \in 1 .. n /\ (m + 1) - 1 = m
      OBVIOUS
    <3> QED BY <1>4, <2>2, <3>1
  <2> HIDE DEF Good
  <2> QED BY <2>1, <2>2, UpTo
<1>6. f \in [0 .. n -> Int]
  BY <1>3, <1>5
<1> QED BY <1>3, <1>4, <1>6 DEF Partial

(* The sum of zeros. *)
LEMMA SumZero ==
  ASSUME NEW n \in Nat, NEW g \in [1 .. n -> Int], \A i \in 1 .. n : g[i] = 0
  PROVE  SumTo(g, n) = 0
<1>1. PICK f : Partial(f, g, n) /\ SumTo(g, n) = f[n]
  BY SumIs
<1> DEFINE Good == {m \in 0 .. n : f[m] = 0}
<1>2. 0 .. n \subseteq Good
  <2>1. 0 \in Good
    BY <1>1 DEF Partial
  <2>2. ASSUME NEW m \in 0 .. (n - 1), m \in Good PROVE m + 1 \in Good
    <3>1. m + 1 \in 1 .. n /\ (m + 1) - 1 = m
      OBVIOUS
    <3> QED BY <1>1, <2>2, <3>1 DEF Partial
  <2> HIDE DEF Good
  <2> QED BY <2>1, <2>2, UpTo
<1> QED BY <1>1, <1>2

(* One term less by d is a sum less by d. *)
LEMMA SumLess ==
  ASSUME NEW n \in Nat, NEW g \in [1 .. n -> Int], NEW h \in [1 .. n -> Int],
         NEW j \in 1 .. n, NEW d \in Int, h[j] = g[j] - d,
         \A i \in 1 .. n : i # j => h[i] = g[i]
  PROVE  SumTo(h, n) = SumTo(g, n) - d
<1>1. PICK f : Partial(f, g, n) /\ SumTo(g, n) = f[n]
  BY SumIs
<1>2. PICK e : Partial(e, h, n) /\ SumTo(h, n) = e[n]
  BY SumIs
<1> DEFINE Good == {m \in 0 .. n : e[m] = f[m] - (IF m < j THEN 0 ELSE d)}
<1>3. 0 .. n \subseteq Good
  <2>1. 0 \in Good
    BY <1>1, <1>2 DEF Partial
  <2>2. ASSUME NEW m \in 0 .. (n - 1), m \in Good PROVE m + 1 \in Good
    <3>1. m + 1 \in 1 .. n /\ (m + 1) - 1 = m /\ f[m] \in Int
      BY <1>1 DEF Partial
    <3>2. e[m + 1] = e[m] + h[m + 1] /\ f[m + 1] = f[m] + g[m + 1] /\ g[m + 1] \in Int
      BY <1>1, <1>2, <3>1 DEF Partial
    <3>3. e[m] = f[m] - (IF m < j THEN 0 ELSE d)
      BY <2>2
    <3>4. CASE m + 1 = j
      <4>0. m < j
        BY <3>4
      <4>1. e[m] = f[m] /\ h[m + 1] = g[m + 1] - d
        <5>1. e[m] = f[m] - 0
          BY <3>3, <4>0
        <5>2. h[m + 1] = g[m + 1] - d
          BY <3>4
        <5> QED BY <3>1, <5>1, <5>2
      <4>2. e[m + 1] = f[m + 1] - d
        BY <3>1, <3>2, <4>1
      <4> QED BY <3>1, <3>4, <4>2
    <3>5. CASE m + 1 # j
      <4>1. h[m + 1] = g[m + 1] /\ (m < j <=> m + 1 < j)
        BY <3>1, <3>5
      <4> QED BY <3>1, <3>2, <3>3, <4>1
    <3> QED BY <3>4, <3>5
  <2> HIDE DEF Good
  <2> QED BY <2>1, <2>2, UpTo
<1>4. e[n] = f[n] - d /\ f[n] \in Int
  BY <1>1, <1>3 DEF Partial
<1> QED BY <1>1, <1>2, <1>4

(* Without its first term a sum is less by that term. *)
LEMMA SumTail ==
  ASSUME NEW n \in Nat \ {0}, NEW g \in [1 .. n -> Int], NEW h \in [1 .. (n - 1) -> Int],
         \A i \in 1 .. (n - 1) : h[i] = g[i + 1]
  PROVE  SumTo(h, n - 1) = SumTo(g, n) - g[1]
<1>0. n - 1 \in Nat /\ 1 \in 1 .. n /\ g[1] \in Int
  OBVIOUS
<1>1. PICK f : Partial(f, g, n) /\ SumTo(g, n) = f[n]
  BY SumIs
<1>2. PICK e : Partial(e, h, n - 1) /\ SumTo(h, n - 1) = e[n - 1]
  BY <1>0, SumIs
<1> DEFINE Good == {m \in 0 .. (n - 1) : e[m] = f[m + 1] - g[1]}
<1>3. 0 .. (n - 1) \subseteq Good
  <2>1. 0 \in Good
    <3>1. f[1] = f[1 - 1] + g[1] /\ f[0] = 0 /\ e[0] = 0
      BY <1>0, <1>1, <1>2 DEF Partial
    <3> QED BY <1>0, <3>1
  <2>2. ASSUME NEW m \in 0 .. (n - 1 - 1), m \in Good PROVE m + 1 \in Good
    <3>1. /\ m + 1 \in 1 .. (n - 1) /\ (m + 1) - 1 = m
          /\ m + 1 + 1 \in 1 .. n /\ (m + 1 + 1) - 1 = m + 1 /\ m + 1 \in 0 .. n
      OBVIOUS
    <3>2. e[m + 1] = e[m] + h[m + 1] /\ h[m + 1] = g[m + 1 + 1]
      BY <1>2, <3>1 DEF Partial
    <3>3. f[m + 1 + 1] = f[m + 1] + g[m + 1 + 1] /\ f[m + 1] \in Int /\ g[m + 1 + 1] \in Int
      BY <1>1, <3>1 DEF Partial
    <3>4. e[m] = f[m + 1] - g[1]
      BY <2>2
    <3>5. e[m + 1] = f[m + 1 + 1] - g[1]
      BY <1>0, <3>2, <3>3, <3>4
    <3> QED BY <3>1, <3>5
  <2> HIDE DEF Good
  <2> QED BY <1>0, <2>1, <2>2, UpTo
<1>4. e[n - 1] = f[(n - 1) + 1] - g[1] /\ (n - 1) + 1 = n
  BY <1>0, <1>3
<1> QED BY <1>1, <1>2, <1>4

LEMMA SumType ==
  ASSUME NEW n \in Nat, NEW g \in [1 .. n -> Int]
  PROVE  SumTo(g, n) \in Int
<1>1. PICK f : Partial(f, g, n) /\ SumTo(g, n) = f[n]
  BY SumIs
<1> QED BY <1>1 DEF Partial

(* One term more is a sum more by that term. *)
LEMMA SumLast ==
  ASSUME NEW n \in Nat, NEW g \in [1 .. n -> Int], NEW h \in [1 .. (n + 1) -> Int],
         \A i \in 1 .. n : h[i] = g[i]
  PROVE  SumTo(h, n + 1) = SumTo(g, n) + h[n + 1]
<1>0. n + 1 \in Nat /\ n + 1 \in 1 .. (n + 1) /\ (n + 1) - 1 = n
  OBVIOUS
<1>1. PICK f : Partial(f, g, n) /\ SumTo(g, n) = f[n]
  BY SumIs
<1>2. PICK e : Partial(e, h, n + 1) /\ SumTo(h, n + 1) = e[n + 1]
  BY <1>0, SumIs
<1> DEFINE Good == {m \in 0 .. n : e[m] = f[m]}
<1>3. 0 .. n \subseteq Good
  <2>1. 0 \in Good
    BY <1>1, <1>2 DEF Partial
  <2>2. ASSUME NEW m \in 0 .. (n - 1), m \in Good PROVE m + 1 \in Good
    <3>1. m + 1 \in 1 .. n /\ m + 1 \in 1 .. (n + 1) /\ (m + 1) - 1 = m
      OBVIOUS
    <3> QED BY <1>1, <1>2, <2>2, <3>1 DEF Partial
  <2> HIDE DEF Good
  <2> QED BY <2>1, <2>2, UpTo
<1>4. e[n] = f[n] /\ e[n + 1] = e[n] + h[n + 1]
  BY <1>0, <1>2, <1>3 DEF Partial
<1> QED BY <1>1, <1>2, <1>4

-----------------------------------------------------------------------------
(* The bisection.                                                          *)

Pairs(N) == (0 .. N) \X (0 .. N)

(* Each step of the bisection is in a narrower interval. *)
LEMMA HalfIs ==
  ASSUME NEW N \in Nat, NEW right, NEW r \in (0 .. N) \X (0 .. N), r[1] < r[2]
  PROVE  \E mid \in r[1] .. (r[2] - 1) :
           /\ Half(right, r) = IF mid \in right THEN <<mid + 1, r[2]>> ELSE <<r[1], mid>>
           /\ Half(right, r) \in (0 .. N) \X (0 .. N)
           /\ Half(right, r)[1] <= Half(right, r)[2]
           /\ Half(right, r)[2] - Half(right, r)[1] < r[2] - r[1]
           /\ r[1] <= Half(right, r)[1] /\ Half(right, r)[2] <= r[2]
           /\ mid = r[1] + (r[2] - r[1]) \div 2
<1>1. PICK lo \in 0 .. N, hi \in 0 .. N : r = <<lo, hi>> /\ r[1] = lo /\ r[2] = hi
  OBVIOUS
<1>2. PICK mid \in lo .. (hi - 1) : mid = lo + (hi - lo) \div 2
  <2>1. hi - lo \in Nat /\ (hi - lo) \div 2 \in Nat /\ (hi - lo) \div 2 < hi - lo
    BY <1>1
  <2>2. lo + (hi - lo) \div 2 \in lo .. (hi - 1)
    BY <1>1, <2>1
  <2> QED BY <2>2
<1>3. Half(right, r) = IF mid \in right THEN <<mid + 1, hi>> ELSE <<lo, mid>>
  BY <1>1, <1>2 DEF Half
<1>4. CASE mid \in right
  <2>1. PICK h : h = <<mid + 1, hi>> /\ h = Half(right, r)
    BY <1>3, <1>4
  <2>2. h[1] = mid + 1 /\ h[2] = hi /\ h \in (0 .. N) \X (0 .. N)
    BY <1>1, <1>2, <2>1
  <2>3. h[1] <= h[2] /\ h[2] - h[1] < r[2] - r[1] /\ r[1] <= h[1] /\ h[2] <= r[2]
    BY <1>1, <1>2, <2>2
  <2> QED BY <1>1, <1>2, <1>4, <2>1, <2>2, <2>3
<1>5. CASE mid \notin right
  <2>1. PICK h : h = <<lo, mid>> /\ h = Half(right, r)
    BY <1>3, <1>5
  <2>2. h[1] = lo /\ h[2] = mid /\ h \in (0 .. N) \X (0 .. N)
    BY <1>1, <1>2, <2>1
  <2>3. h[1] <= h[2] /\ h[2] - h[1] < r[2] - r[1] /\ r[1] <= h[1] /\ h[2] <= r[2]
    BY <1>1, <1>2, <2>2
  <2> QED BY <1>1, <1>2, <1>5, <2>1, <2>2, <2>3
<1> QED BY <1>4, <1>5

(* It ends: there is a function that says where, from every interval. *)
LEMMA BisectEnds ==
  ASSUME NEW N \in Nat, NEW right
  PROVE  \E f : f = [r \in (0 .. N) \X (0 .. N) |->
                       IF r[1] >= r[2] THEN r[1] ELSE f[Half(right, r)]]
<1> DEFINE P == (0 .. N) \X (0 .. N)
<1> DEFINE Good == {d \in 0 .. N : \E g \in [P -> 0 .. N] : \A r \in P :
                      r[2] - r[1] <= d =>
                        g[r] = IF r[1] >= r[2] THEN r[1] ELSE g[Half(right, r)]}
<1>0. \A r \in P : r[1] \in 0 .. N /\ r[2] \in 0 .. N
  OBVIOUS
<1>1. 0 \in Good
  <2> DEFINE g == [r \in P |-> r[1]]
  <2>1. g \in [P -> 0 .. N]
    BY <1>0
  <2>2. \A r \in P : r[2] - r[1] <= 0 => g[r] = r[1] /\ r[1] >= r[2]
    BY <1>0
  <2> HIDE DEF g
  <2> QED BY <2>1, <2>2
<1>2. ASSUME NEW d \in 0 .. (N - 1), d \in Good PROVE d + 1 \in Good
  <2>1. PICK g \in [P -> 0 .. N] : \A r \in P : r[2] - r[1] <= d =>
          g[r] = IF r[1] >= r[2] THEN r[1] ELSE g[Half(right, r)]
    BY <1>2
  <2>2. \A r \in P : r[1] < r[2] =>
          /\ Half(right, r) \in P
          /\ Half(right, r)[2] - Half(right, r)[1] < r[2] - r[1]
    BY HalfIs
  <2> HIDE DEF P
  <2> DEFINE g1 == [r \in P |-> IF r[2] - r[1] <= d THEN g[r]
                                ELSE IF r[1] >= r[2] THEN r[1] ELSE g[Half(right, r)]]
  <2>3. g1 \in [P -> 0 .. N]
    BY <1>0, <2>1, <2>2
  <2>4. ASSUME NEW r \in P, r[2] - r[1] <= d + 1
        PROVE  g1[r] = IF r[1] >= r[2] THEN r[1] ELSE g1[Half(right, r)]
    <3>1. CASE r[1] >= r[2]
      <4>1. g1[r] = r[1]
        BY <1>0, <2>1, <3>1
      <4> QED BY <3>1, <4>1
    <3>2. CASE ~ (r[1] >= r[2])
      <4>1. PICK h \in P : h = Half(right, r) /\ h[2] - h[1] <= d
        <5>1. Half(right, r) \in P /\ Half(right, r)[2] - Half(right, r)[1] < r[2] - r[1]
          BY <1>0, <2>2, <3>2
        <5>2. \A h \in P : h[2] - h[1] < r[2] - r[1] => h[2] - h[1] <= d
          BY <1>0, <2>4
        <5> QED BY <5>1, <5>2
      <4>2. g1[h] = g[h]
        BY <4>1
      <4>3. g1[r] = g[h]
        BY <2>1, <3>2, <4>1
      <4> QED BY <3>2, <4>1, <4>2, <4>3
    <3> QED BY <3>1, <3>2
  <2> HIDE DEF g1
  <2>5. d + 1 \in 0 .. N
    OBVIOUS
  <2> QED BY <2>3, <2>4, <2>5
<1>3. N \in Good
  <2> HIDE DEF Good
  <2> QED BY <1>1, <1>2, UpTo
<1>4. PICK g \in [P -> 0 .. N] : \A r \in P : r[2] - r[1] <= N =>
        g[r] = IF r[1] >= r[2] THEN r[1] ELSE g[Half(right, r)]
  BY <1>3
<1>5. \A r \in P : r[2] - r[1] <= N
  BY <1>0
<1> HIDE DEF P
<1>6. g = [r \in P |-> IF r[1] >= r[2] THEN r[1] ELSE g[Half(right, r)]]
  BY <1>4, <1>5
<1> QED BY <1>6 DEF P

(* Where the bisection of right ends from any interval. *)
EndOf(right, N) ==
  CHOOSE f : f = [r \in (0 .. N) \X (0 .. N) |->
                    IF r[1] >= r[2] THEN r[1] ELSE f[Half(right, r)]]

LEMMA EndOfIs ==
  ASSUME NEW N \in Nat, NEW right
  PROVE  /\ \A r \in Pairs(N) :
              EndOf(right, N)[r] = IF r[1] >= r[2] THEN r[1] ELSE EndOf(right, N)[Half(right, r)]
         /\ Bisect(right, N) = EndOf(right, N)[<<0, N>>]
<1>1. EndOf(right, N) = [x \in Pairs(N) |-> IF x[1] >= x[2] THEN x[1]
                                           ELSE EndOf(right, N)[Half(right, x)]]
  BY BisectEnds DEF EndOf, Pairs
<1>2. Bisect(right, N) = EndOf(right, N)[<<0, N>>]
  BY DEF Bisect, EndOf
<1> HIDE DEF Pairs
<1> QED BY <1>1, <1>2

(* The bisection ends inside its interval, ... *)
LEMMA EndInside ==
  ASSUME NEW N \in Nat, NEW right, NEW r \in Pairs(N), r[1] <= r[2]
  PROVE  EndOf(right, N)[r] \in r[1] .. r[2]
<1> DEFINE Good == {d \in 0 .. N : \A x \in Pairs(N) :
                      x[1] <= x[2] /\ x[2] - x[1] <= d => EndOf(right, N)[x] \in x[1] .. x[2]}
<1>0. \A x \in Pairs(N) : x[1] \in 0 .. N /\ x[2] \in 0 .. N
  BY DEF Pairs
<1>e. \A x \in Pairs(N) :
        EndOf(right, N)[x] = IF x[1] >= x[2] THEN x[1] ELSE EndOf(right, N)[Half(right, x)]
  BY EndOfIs
<1>1. 0 \in Good
  <2> SUFFICES ASSUME NEW x \in Pairs(N), x[1] <= x[2], x[2] - x[1] <= 0
               PROVE  EndOf(right, N)[x] \in x[1] .. x[2]
    OBVIOUS
  <2>1. EndOf(right, N)[x] = x[1]
    BY <1>0, <1>e
  <2> QED BY <1>0, <2>1
<1>2. ASSUME NEW d \in 0 .. (N - 1), d \in Good PROVE d + 1 \in Good
  <2> SUFFICES ASSUME NEW x \in Pairs(N), x[1] <= x[2], x[2] - x[1] <= d + 1
               PROVE  EndOf(right, N)[x] \in x[1] .. x[2]
    OBVIOUS
  <2>1. CASE x[1] = x[2]
    <3>1. EndOf(right, N)[x] = x[1]
      BY <1>0, <1>e, <2>1
    <3> QED BY <1>0, <2>1, <3>1
  <2>2. CASE x[1] < x[2]
    <3>1. PICK h \in Pairs(N) : /\ h = Half(right, x) /\ h[1] <= h[2] /\ h[2] - h[1] < x[2] - x[1]
                             /\ x[1] <= h[1] /\ h[2] <= x[2]
      BY <2>2, HalfIs DEF Pairs
    <3>2. EndOf(right, N)[x] = EndOf(right, N)[h]
      BY <1>0, <1>e, <2>2, <3>1
    <3>3. h[2] - h[1] <= d
      BY <1>0, <3>1
    <3>4. EndOf(right, N)[h] \in h[1] .. h[2]
      BY <1>2, <3>1, <3>3
    <3> QED BY <1>0, <3>1, <3>2, <3>4
  <2> QED BY <1>0, <2>1, <2>2
<1>3. N \in Good
  <2> HIDE DEF Good
  <2> QED BY <1>1, <1>2, UpTo
<1>4. r[2] - r[1] <= N
  BY <1>0
<1> QED BY <1>3, <1>4

(* ... at or after where one that goes right less often ends, ... *)
LEMMA EndsInOrder ==
  ASSUME NEW N \in Nat, NEW one, NEW two, one \subseteq two
  PROVE  Bisect(one, N) <= Bisect(two, N)
<1> DEFINE Good == {d \in 0 .. N : \A x \in Pairs(N) :
                      x[1] <= x[2] /\ x[2] - x[1] <= d => EndOf(one, N)[x] <= EndOf(two, N)[x]}
<1>0. \A x \in Pairs(N) : x[1] \in 0 .. N /\ x[2] \in 0 .. N
  BY DEF Pairs
<1>e. \A x \in Pairs(N) :
        EndOf(one, N)[x] = IF x[1] >= x[2] THEN x[1] ELSE EndOf(one, N)[Half(one, x)]
  BY EndOfIs
<1>f. \A x \in Pairs(N) :
        EndOf(two, N)[x] = IF x[1] >= x[2] THEN x[1] ELSE EndOf(two, N)[Half(two, x)]
  BY EndOfIs
<1>1. 0 \in Good
  <2> SUFFICES ASSUME NEW x \in Pairs(N), x[1] <= x[2], x[2] - x[1] <= 0
               PROVE  EndOf(one, N)[x] <= EndOf(two, N)[x]
    OBVIOUS
  <2>1. EndOf(one, N)[x] = x[1] /\ EndOf(two, N)[x] = x[1]
    BY <1>0, <1>e, <1>f
  <2> QED BY <1>0, <2>1
<1>2. ASSUME NEW d \in 0 .. (N - 1), d \in Good PROVE d + 1 \in Good
  <2> SUFFICES ASSUME NEW x \in Pairs(N), x[1] <= x[2], x[2] - x[1] <= d + 1
               PROVE  EndOf(one, N)[x] <= EndOf(two, N)[x]
    OBVIOUS
  <2>1. CASE x[1] = x[2]
    <3>1. EndOf(one, N)[x] = x[1] /\ EndOf(two, N)[x] = x[1]
      BY <1>0, <1>e, <1>f, <2>1
    <3> QED BY <1>0, <3>1
  <2>2. CASE x[1] < x[2]
    <3>1. PICK mid \in x[1] .. (x[2] - 1) :
                 /\ mid = x[1] + (x[2] - x[1]) \div 2
                 /\ Half(one, x) = IF mid \in one THEN <<mid + 1, x[2]>> ELSE <<x[1], mid>>
                 /\ Half(one, x) \in Pairs(N)
                 /\ Half(one, x)[1] <= Half(one, x)[2]
                 /\ Half(one, x)[2] - Half(one, x)[1] < x[2] - x[1]
      BY <2>2, HalfIs DEF Pairs
    <3>2. /\ Half(two, x) = IF mid \in two THEN <<mid + 1, x[2]>> ELSE <<x[1], mid>>
          /\ Half(two, x) \in Pairs(N) /\ Half(two, x)[1] <= Half(two, x)[2]
      BY <2>2, <3>1, HalfIs DEF Pairs
    <3>3. /\ EndOf(one, N)[x] = EndOf(one, N)[Half(one, x)]
          /\ EndOf(two, N)[x] = EndOf(two, N)[Half(two, x)]
      BY <1>0, <1>e, <1>f, <2>2
    <3>4. CASE Half(one, x) = Half(two, x)
      <4>1. PICK h \in Pairs(N) : h = Half(one, x) /\ h[1] <= h[2] /\ h[2] - h[1] < x[2] - x[1]
        BY <3>1
      <4>2. h[2] - h[1] <= d
        BY <1>0, <4>1
      <4>3. EndOf(one, N)[h] <= EndOf(two, N)[h]
        BY <1>2, <4>1, <4>2
      <4> QED BY <3>3, <3>4, <4>1, <4>3
    <3>5. CASE mid \notin one /\ mid \in two
      <4>1. Half(one, x) = <<x[1], mid>> /\ Half(two, x) = <<mid + 1, x[2]>>
        BY <3>1, <3>2, <3>5
      <4>2. EndOf(one, N)[Half(one, x)] \in x[1] .. mid
        BY <3>1, <4>1, EndInside
      <4>3. EndOf(two, N)[Half(two, x)] \in (mid + 1) .. x[2]
        BY <3>2, <4>1, EndInside
      <4> QED BY <1>0, <3>1, <3>3, <4>2, <4>3
    <3> QED BY <3>1, <3>2, <3>4, <3>5
  <2> QED BY <1>0, <2>1, <2>2
<1>3. N \in Good
  <2> HIDE DEF Good
  <2> QED BY <1>1, <1>2, UpTo
<1>4. <<0, N>> \in Pairs(N) /\ <<0, N>>[1] = 0 /\ <<0, N>>[2] = N
  BY DEF Pairs
<1>5. EndOf(one, N)[<<0, N>>] <= EndOf(two, N)[<<0, N>>]
  BY <1>3, <1>4
<1> QED BY <1>4, <1>5, EndOfIs

(* ... and, when right is closed downwards, exactly where it ends. *)
LEMMA EndSplits ==
  ASSUME NEW N \in Nat, NEW right, right \subseteq 0 .. (N - 1),
         \A i, j \in 0 .. (N - 1) : i <= j /\ j \in right => i \in right
  PROVE  /\ Bisect(right, N) \in 0 .. N
         /\ \A i \in 0 .. (N - 1) : i \in right <=> i < Bisect(right, N)
<1> DEFINE Splits(x) == /\ \A i \in 0 .. (N - 1) : i < x[1] => i \in right
                        /\ \A i \in 0 .. (N - 1) : i >= x[2] => i \notin right
<1> DEFINE Good == {d \in 0 .. N : \A x \in Pairs(N) :
                      x[1] <= x[2] /\ x[2] - x[1] <= d /\ Splits(x) =>
                        \A i \in 0 .. (N - 1) : i \in right <=> i < EndOf(right, N)[x]}
<1>0. \A x \in Pairs(N) : x[1] \in 0 .. N /\ x[2] \in 0 .. N
  BY DEF Pairs
<1>e. \A x \in Pairs(N) :
        EndOf(right, N)[x] = IF x[1] >= x[2] THEN x[1] ELSE EndOf(right, N)[Half(right, x)]
  BY EndOfIs
<1>1. 0 \in Good
  <2> SUFFICES ASSUME NEW x \in Pairs(N), x[1] <= x[2], x[2] - x[1] <= 0, Splits(x),
                      NEW i \in 0 .. (N - 1)
               PROVE  i \in right <=> i < EndOf(right, N)[x]
    OBVIOUS
  <2>1. EndOf(right, N)[x] = x[1] /\ x[1] = x[2]
    BY <1>0, <1>e
  <2> QED BY <1>0, <2>1
<1>2. ASSUME NEW d \in 0 .. (N - 1), d \in Good PROVE d + 1 \in Good
  <2> SUFFICES ASSUME NEW x \in Pairs(N), x[1] <= x[2], x[2] - x[1] <= d + 1, Splits(x),
                      NEW i \in 0 .. (N - 1)
               PROVE  i \in right <=> i < EndOf(right, N)[x]
    OBVIOUS
  <2>1. CASE x[1] = x[2]
    <3>1. EndOf(right, N)[x] = x[1]
      BY <1>0, <1>e, <2>1
    <3> QED BY <1>0, <2>1, <3>1
  <2>2. CASE x[1] < x[2]
    <3>1. PICK mid \in x[1] .. (x[2] - 1) :
                 /\ Half(right, x) = IF mid \in right THEN <<mid + 1, x[2]>> ELSE <<x[1], mid>>
                 /\ Half(right, x) \in Pairs(N)
                 /\ Half(right, x)[1] <= Half(right, x)[2]
                 /\ Half(right, x)[2] - Half(right, x)[1] < x[2] - x[1]
      BY <2>2, HalfIs DEF Pairs
    <3>2. PICK h \in Pairs(N) : h = Half(right, x) /\ h[1] <= h[2] /\ h[2] - h[1] < x[2] - x[1]
      BY <3>1
    <3>3. EndOf(right, N)[x] = EndOf(right, N)[h]
      BY <1>0, <1>e, <2>2, <3>2
    <3>4. h[2] - h[1] <= d
      BY <1>0, <3>2
    <3>5. mid \in 0 .. (N - 1)
      BY <1>0, <3>1
    <3>6. Splits(h)
      <4>1. CASE mid \in right
        <5>1. h[1] = mid + 1 /\ h[2] = x[2]
          BY <3>1, <3>2, <4>1
        <5>2. \A j \in 0 .. (N - 1) : j < mid + 1 => j \in right
          <6>1. \A j \in 0 .. (N - 1) : j < mid + 1 => j <= mid
            BY <3>5
          <6> QED BY <3>5, <4>1, <6>1
        <5> QED BY <5>1, <5>2
      <4>2. CASE mid \notin right
        <5>1. h[1] = x[1] /\ h[2] = mid
          BY <3>1, <3>2, <4>2
        <5>2. \A j \in 0 .. (N - 1) : j >= mid => j \notin right
          BY <3>5, <4>2
        <5> QED BY <5>1, <5>2
      <4> QED BY <4>1, <4>2
    <3>7. i \in right <=> i < EndOf(right, N)[h]
      BY <1>2, <3>2, <3>4, <3>6
    <3> QED BY <3>3, <3>7
  <2> QED BY <1>0, <2>1, <2>2
<1>3. N \in Good
  <2> HIDE DEF Good
  <2> QED BY <1>1, <1>2, UpTo
<1>4. PICK x \in Pairs(N) : x = <<0, N>> /\ x[1] = 0 /\ x[2] = N
  <2>1. <<0, N>> \in Pairs(N) /\ <<0, N>>[1] = 0 /\ <<0, N>>[2] = N
    BY DEF Pairs
  <2> QED BY <2>1
<1>5. Splits(x) /\ x[1] <= x[2] /\ x[2] - x[1] <= N
  BY <1>4
<1>6. EndOf(right, N)[x] \in 0 .. N
  BY <1>4, <1>5, EndInside
<1>7. \A i \in 0 .. (N - 1) : i \in right <=> i < EndOf(right, N)[x]
  BY <1>3, <1>5
<1> QED BY <1>4, <1>6, <1>7, EndOfIs

(* Wherever it goes right, it ends inside. *)
LEMMA BisectInside ==
  ASSUME NEW N \in Nat, NEW right
  PROVE  Bisect(right, N) \in 0 .. N
<1>1. PICK x \in Pairs(N) : x = <<0, N>> /\ x[1] = 0 /\ x[2] = N
  <2>1. <<0, N>> \in Pairs(N) /\ <<0, N>>[1] = 0 /\ <<0, N>>[2] = N
    BY DEF Pairs
  <2> QED BY <2>1
<1>2. EndOf(right, N)[x] \in x[1] .. x[2]
  BY <1>1, EndInside
<1> QED BY <1>1, <1>2, EndOfIs

=============================================================================
