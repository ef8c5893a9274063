------------------------------ MODULE Strategy ------------------------------
(***************************************************************************)
(* The SMA-crossover strategy of src/bin/market_hub.rs: RollingSma and the *)
(* loop of strategy_thread, against a store whose ring and version an      *)
(* appender moves meanwhile.                                               *)
(*                                                                         *)
(* A candle is its timestamp and its close.  Closes are integers, and two  *)
(* averages are compared by cross-multiplying their sums with the periods. *)
(* A push into the ring and its version bump are two steps of the          *)
(* appender; a wake-up, and the read of last_n with the fold of what it    *)
(* returned (which touches only the thread's own state), are two of the    *)
(* strategy.  Its shutdown and the signal ring are in MarketHub.           *)
(***************************************************************************)
EXTENDS Sums, Sequences

CONSTANTS ShortP, LongP,   \* the two periods
          Closes,          \* closing prices
          Times,           \* timestamps
          RingCapacity,    \* ring_capacity of the store
          MaxCandles,      \* bound: candles appended for the symbol
          MaxOther         \* bound: appends to other symbols

ASSUME StrategyConstants ==
  /\ ShortP \in Nat /\ LongP \in Nat
  /\ Closes \subseteq Int /\ Times \subseteq Nat
  /\ RingCapacity \in Nat \ {0} /\ MaxCandles \in Nat /\ MaxOther \in Nat

VARIABLES
  hot,        \* the symbol's ring, oldest first
  version,    \* CandleStore::version
  publishing, \* a candle is pushed and its version bump still to come
  appended, other, \* appends so far, to this symbol and to others
  spc,        \* "wait" or "read"
  lastSeen,   \* last_seen
  state,      \* the two RollingSmas, candles_seen and last_candle_ts
  prev,       \* prev_short and prev_long
  fed,        \* history: the candles folded, in order
  warmAt,     \* history: how many were folded when it became warm, or 0
  signals     \* history: each signal, with the fold it came after

storeVars == <<hot, version, publishing, appended, other>>
vars == <<storeVars, spc, lastSeen, state, prev, fed, warmAt, signals>>

-----------------------------------------------------------------------------
(* RollingSma: a ring of closes and its rolling sum. *)
NewSma(period) == [period |-> period, buf |-> [i \in 0 .. (period - 1) |-> 0],
                   next |-> 0, filled |-> 0, sum |-> 0]

SumKept(sma, close) ==      \* mutation: the close that is replaced stays in the sum
  IF sma.period = 0 THEN sma
  ELSE [sma EXCEPT !.sum = @ + close, !.buf[sma.next] = close,
                   !.next = (@ + 1) % sma.period,
                   !.filled = IF @ = sma.period THEN @ ELSE @ + 1]

PushSma(sma, close) ==
  IF sma.period = 0 THEN sma
  ELSE LET full == sma.filled = sma.period
       IN [sma EXCEPT !.sum = (IF full THEN @ - sma.buf[sma.next] ELSE @) + close,
                      !.buf[sma.next] = close,
                      !.next = (@ + 1) % sma.period,
                      !.filled = IF full THEN @ ELSE @ + 1]

(* value(): None until warm, else the sum; the mean is sum / period. *)
None == <<>>
Value(sma) == IF sma.period > 0 /\ sma.filled = sma.period THEN <<sma.sum>> ELSE None

(* The sign of the short mean less the long one. *)
Above(s, l) == s[1] * LongP - l[1] * ShortP

Cross(before, after) ==
  CASE before <= 0 /\ after > 0 -> "Buy"
    [] before >= 0 /\ after < 0 -> "Sell"
    [] OTHER -> "none"

MinCandles == LongP + 1
LastN(n)   == SubSeq(hot, IF Len(hot) > n THEN Len(hot) - n + 1 ELSE 1, Len(hot))

(* One candle of the batch folded, unless its timestamp is not newer; the  *)
(* pair is the thread's state and the history of what it folded.           *)
Newer(s, c)    == c.ts > s.ts
Fold(p, c) ==
  LET s == p[1]
  IN  IF Newer(s, c)
      THEN <<[short |-> PushSma(s.short, c.close), long |-> PushSma(s.long, c.close),
              seen |-> s.seen + 1, ts |-> c.ts],
             Append(p[2], c)>>
      ELSE p
FoldAll(p, batch) ==
  LET upto[i \in 0 .. Len(batch)] == IF i = 0 THEN p ELSE Fold(upto[i - 1], batch[i])
  IN  upto[Len(batch)]

Init ==
  /\ hot = <<>> /\ version = 0 /\ publishing = FALSE /\ appended = 0 /\ other = 0
  /\ spc = "wait" /\ lastSeen = 0
  /\ state = [short |-> NewSma(ShortP), long |-> NewSma(LongP), seen |-> 0, ts |-> -1]
  /\ prev = <<None, None>>
  /\ fed = <<>> /\ warmAt = 0 /\ signals = <<>>

-----------------------------------------------------------------------------
(* CandleStore::append on the symbol, push then publish, and on another. *)
PushCandle(ts, close) ==
  /\ appended < MaxCandles /\ ~publishing
  /\ hot' = Append(IF Len(hot) = RingCapacity THEN Tail(hot) ELSE hot,
                   [ts |-> ts, close |-> close])
  /\ appended' = appended + 1 /\ publishing' = TRUE
  /\ UNCHANGED <<version, other, spc, lastSeen, state, prev, fed, warmAt, signals>>

Publish ==
  /\ publishing
  /\ publishing' = FALSE /\ version' = version + 1
  /\ UNCHANGED <<hot, appended, other, spc, lastSeen, state, prev, fed, warmAt, signals>>

AppendOther ==
  /\ other < MaxOther
  /\ other' = other + 1 /\ version' = version + 1
  /\ UNCHANGED <<hot, publishing, appended, spc, lastSeen, state, prev, fed, warmAt, signals>>

-----------------------------------------------------------------------------
WakeAhead ==       \* mutation: the next version is taken as seen
  /\ spc = "wait" /\ version # lastSeen
  /\ lastSeen' = version + 1 /\ spc' = "read"
  /\ UNCHANGED <<storeVars, state, prev, fed, warmAt, signals>>

(* wait_for_change. *)
Wake ==
  /\ spc = "wait" /\ version # lastSeen
  /\ lastSeen' = version /\ spc' = "read"
  /\ UNCHANGED <<storeVars, state, prev, fed, warmAt, signals>>

(* What one wake-up reads: the whole window while warming up, else the     *)
(* newest candle.                                                          *)
Batch == LastN(IF state.seen < MinCandles THEN MinCandles ELSE 1)

(* The rest of the loop body: fold, and once warm and fed test the cross.  *)
Swapped(curr)   == <<curr[2], curr[1]>>   \* mutation: stored the wrong way round
PrevAfter(curr) == curr

React ==
  /\ spc = "read" /\ spc' = "wait"
  /\ \E both \in {FoldAll(<<state, fed>>, Batch)} :
       LET after == both[1]
           curr  == <<Value(after.short), Value(after.long)>>
           side  == IF None \in {prev[1], prev[2], curr[1], curr[2]} THEN "none"
                    ELSE Cross(Above(prev[1], prev[2]), Above(curr[1], curr[2]))
           warm  == after.seen >= MinCandles /\ after.seen > state.seen
       IN  /\ state' = after /\ fed' = both[2]
           /\ prev' = IF warm THEN PrevAfter(curr) ELSE prev
           /\ warmAt' = IF warm /\ warmAt = 0 THEN after.seen ELSE warmAt
           /\ signals' = IF warm /\ side # "none"
                           THEN Append(signals, [at |-> after.seen, side |-> side])
                           ELSE signals
  /\ UNCHANGED <<storeVars, lastSeen>>

Next ==
  \/ \E ts \in Times, close \in Closes : PushCandle(ts, close)
  \/ Publish \/ AppendOther \/ Wake \/ React
  \/ appended = MaxCandles /\ other = MaxOther /\ ~publishing /\ spc = "wait"
     /\ version = lastSeen /\ UNCHANGED vars      \* the bounded supply is used up

Spec == Init /\ [][Next]_vars
FairSpec == Spec /\ WF_vars(Publish) /\ WF_vars(Wake \/ React)

-----------------------------------------------------------------------------
(* What the averages should be: the sum of the last p closes folded.       *)
LastOf(s, n, p) == SumTo([i \in 1 .. p |-> s[n - p + i].close], p)
Naive(n)        == Above(<<LastOf(fed, n, ShortP)>>, <<LastOf(fed, n, LongP)>>)

(* The type of every variable, the indices of both averages inside their   *)
(* rings and candles_seen counting the candles folded.                     *)
TypeOK ==
  /\ hot \in Seq([ts : Times, close : Closes]) /\ Len(hot) <= RingCapacity
  /\ version \in Nat /\ publishing \in BOOLEAN
  /\ appended \in 0 .. MaxCandles /\ other \in 0 .. MaxOther
  /\ spc \in {"wait", "read"} /\ lastSeen \in 0 .. version
  /\ \A sma \in {state.short, state.long} :
       sma.filled <= sma.period /\ (sma.period > 0 => sma.next < sma.period)
  /\ state.seen = Len(fed) /\ state.ts \in Times \cup {-1}

(* The rolling sum never drifts from a fresh sum over the last period      *)
(* closes folded, and value() is None exactly until there are that many.   *)
SmaExact ==
  \A sma \in {state.short, state.long} :
    Value(sma) = IF sma.period > 0 /\ Len(fed) >= sma.period
                   THEN <<LastOf(fed, Len(fed), sma.period)>> ELSE None

(* No candle is folded twice, by a spurious wake-up, by a window read      *)
(* again while warming up or by a read that ran ahead of the version.      *)
FoldedOnce == \A i, j \in 1 .. Len(fed) : i < j => fed[i].ts < fed[j].ts

(* The averages are those of the candles folded, each of them once.        *)
FoldsRight == TypeOK /\ FoldedOnce /\ SmaExact

(* There is a Buy exactly where the short mean rose above the long one     *)
(* between two folds and a Sell where it fell below, from the fold that    *)
(* ended the warm-up on: prev_short and prev_long are never stale.         *)
SignalsAreCrossings ==
  ShortP > 0 /\ LongP > 0 /\ ShortP <= LongP /\ warmAt > 0 =>
    \A n \in (warmAt + 1) .. Len(fed) :
      LET was  == Naive(n - 1)
          is   == Naive(n)
          sent == {signals[i].side : i \in {k \in DOMAIN signals : signals[k].at = n}}
      IN  sent = (IF was <= 0 /\ is > 0 THEN {"Buy"} ELSE {})
                   \cup (IF was >= 0 /\ is < 0 THEN {"Sell"} ELSE {})

(* Once the appends have stopped and its ring holds candles enough to warm *)
(* up from, the strategy ends up having folded the newest candle, or one   *)
(* with a later timestamp: a wake-up between a push and its version bump   *)
(* loses nothing.                                                          *)
CaughtUp  == hot # <<>> /\ hot[Len(hot)].ts <= state.ts
CatchesUp == (appended = MaxCandles) ~> CaughtUp

=============================================================================
