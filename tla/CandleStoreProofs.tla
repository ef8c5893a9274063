------------------------- MODULE CandleStoreProofs -------------------------
(***************************************************************************)
(* For any number of threads, readers, symbols and appends, any ring       *)
(* capacity and any max_symbols: no interleaving of appends, evictions and *)
(* failed spills loses an accepted candle, poisons a live entry or makes   *)
(* range miss what was accepted before it began; the symbol table keeps    *)
(* its bound, and version and the counters say what became of each append. *)
(***************************************************************************)
EXTENDS StoreWatch, FiniteSetTheorems, TLAPS

-----------------------------------------------------------------------------
(* The inductive invariant.                                                *)

(* A call that holds a tick whose candle is in no ring yet. *)
Unpushed(t) == pc[t] \notin {"idle", "publish"}

(* A running call owns a tick drawn before now, and no two share one. *)
OwnTick ==
  /\ \A t \in Threads : pc[t] # "idle" => tick[t] < clock /\ sym[t] \in Symbols
  /\ \A t, u \in Threads : pc[t] # "idle" /\ pc[u] # "idle" /\ tick[t] = tick[u] => t = u

(* A pending candle is in no ring; an accepted one belongs to the one      *)
(* symbol it was appended to, and so do entries, which are named by ticks. *)
TickInv ==
  /\ \A t \in Threads, s \in Symbols : Unpushed(t) => tick[t] \notin accepted[s]
  /\ \A s \in Symbols : \A c \in accepted[s] : c < clock
  /\ \A s1, s2 \in Symbols : \A c \in accepted[s1] : c \in accepted[s2] => s1 = s2

(* An entry holds candles of its own symbol only, and so do the cold files. *)
EntryInv ==
  /\ \A s \in Symbols : map[s] # NoEntry => map[s] \in accepted[s]
  /\ \A s \in Symbols : \A e \in accepted[s] : Range(ring[e]) \subseteq accepted[s]
  /\ \A e \in Candles : (\A s \in Symbols : e \notin accepted[s]) => ring[e] = <<>>
  /\ \A s \in Symbols : cold[s] \subseteq accepted[s]
  /\ dataDir \/ \A s \in Symbols : cold[s] = {}

(* The Arc an appender pushes through is the symbol's live entry or one    *)
(* already flagged: the argument of Entry::removed.                        *)
ArcInv ==
  \A t \in Threads : pc[t] \in {"touch", "push"} =>
    /\ arc[t] \in accepted[sym[t]]
    /\ map[sym[t]] = arc[t] \/ removed[arc[t]]

(* What the holder of the map's write lock knows.  From the flag to the    *)
(* removal the victim's ring does not change, so its copy stays complete.  *)
LockInv ==
  \A t \in Threads :
    /\ pc[t] \in {"scan", "spill", "place"} <=> wlock = t
    /\ pc[t] \in {"scan", "spill", "place"} =>
         /\ map[sym[t]] = NoEntry
         /\ left \subseteq Live
         /\ victim \in Live \cup {NoSymbol}
    /\ pc[t] = "scan" => left # {} \/ victim # NoSymbol
    /\ pc[t] = "spill" =>
         victim # NoSymbol /\ removed[map[victim]] /\ snap = ring[map[victim]]
    /\ pc[t] = "place" /\ victim # NoSymbol =>
         /\ removed[map[victim]]
         /\ Range(ring[map[victim]]) \subseteq cold[victim] \cup dropped

(* What a reader has still to find, at each point of range. *)
Lost == overwritten \cup dropped
ReadInv ==
  \A r \in Readers :
    /\ rpc[r] # "idle" => rsym[r] \in Symbols
    /\ rpc[r] = "lookup" => rdue[r] \subseteq accepted[rsym[r]]
    /\ rpc[r] = "hot" /\ rarc[r] = NoEntry => rdue[r] \subseteq cold[rsym[r]] \cup Lost
    /\ rpc[r] = "hot" /\ rarc[r] # NoEntry =>
         /\ rarc[r] \in accepted[rsym[r]]
         /\ rdue[r] \subseteq Range(ring[rarc[r]]) \cup cold[rsym[r]] \cup Lost
    /\ rpc[r] = "cold" =>
         /\ rhot[r] \subseteq accepted[rsym[r]]
         /\ rdue[r] \subseteq rhot[r] \cup cold[rsym[r]] \cup Lost

IInv == TypeOK /\ OwnTick /\ TickInv /\ EntryInv /\ ArcInv /\ LockInv /\ NoPoison
          /\ Conservation /\ ReadInv /\ RangeComplete

-----------------------------------------------------------------------------
(* A push keeps every candle of the ring except the one it reports as      *)
(* overwritten, adds its own and nothing else.                             *)
LEMMA RingPushKeeps ==
  ASSUME NEW r \in Seq(Candles), NEW c \in Candles
  PROVE  /\ RingPush(r, c) \in Seq(Candles)
         /\ Len(r) <= RingCapacity => Len(RingPush(r, c)) <= RingCapacity
         /\ Overwrites(r) \subseteq Candles
         /\ Overwrites(r) \subseteq Range(r)
         /\ c \in Range(RingPush(r, c))
         /\ Range(RingPush(r, c)) \subseteq Range(r) \cup {c}
         /\ Range(r) \subseteq Range(RingPush(r, c)) \cup Overwrites(r)
<1> DEFINE p == RingPush(r, c)
<1>1. CASE ~ Full(r)
  <2>1. p = Append(r, c) /\ Overwrites(r) = {}
    BY <1>1 DEF RingPush, Overwrites
  <2>2. /\ p \in Seq(Candles) /\ Len(p) = Len(r) + 1 /\ p[Len(p)] = c
        /\ \A i \in 1 .. Len(r) : p[i] = r[i]
    BY <2>1
  <2>3. c \in Range(p) /\ Range(p) \subseteq Range(r) \cup {c} /\ Range(r) \subseteq Range(p)
    BY <2>2 DEF Range
  <2>4. Len(r) <= RingCapacity => Len(p) <= RingCapacity
    BY <1>1, <2>2, StoreConstants DEF Full
  <2> QED BY <2>1, <2>2, <2>3, <2>4
<1>2. CASE Full(r)
  <2>1. Len(r) >= 1 /\ r # <<>>
    BY <1>2, StoreConstants DEF Full
  <2>2. p = Append(Tail(r), c) /\ Overwrites(r) = {r[1]}
    BY <1>2, <2>1 DEF RingPush, Overwrites
  <2>3. /\ Tail(r) \in Seq(Candles) /\ Len(Tail(r)) = Len(r) - 1
        /\ \A i \in 1 .. (Len(r) - 1) : Tail(r)[i] = r[i + 1]
    BY <2>1
  <2>4. /\ p \in Seq(Candles) /\ Len(p) = Len(r) /\ p[Len(p)] = c
        /\ \A i \in 1 .. (Len(r) - 1) : p[i] = r[i + 1]
    BY <2>2, <2>3
  <2>5. c \in Range(p) /\ Range(p) \subseteq Range(r) \cup {c}
    <3>1. PICK n \in Nat : n = Len(r) /\ n >= 1
      BY <2>1
    <3>2. DOMAIN p = 1 .. n /\ DOMAIN r = 1 .. n /\ n \in 1 .. n /\ p[n] = c
      BY <2>4, <3>1
    <3>3. ASSUME NEW i \in 1 .. n, i # n PROVE p[i] = r[i + 1] /\ i + 1 \in 1 .. n
      BY <2>4, <3>1, <3>3
    <3> QED BY <3>2, <3>3 DEF Range
  <2>6. Range(r) \subseteq Range(p) \cup {r[1]}
    <3> SUFFICES ASSUME NEW i \in 1 .. Len(r), i # 1 PROVE r[i] \in Range(p)
      BY DEF Range
    <3>1. i - 1 \in 1 .. (Len(r) - 1) /\ i - 1 \in DOMAIN p
      BY <2>4
    <3>2. p[i - 1] = r[i]
      BY <3>1, <2>4
    <3> QED BY <3>1, <3>2 DEF Range
  <2>7. r[1] \in Range(r) /\ r[1] \in Candles
    BY <2>1 DEF Range
  <2> QED BY <2>2, <2>4, <2>5, <2>6, <2>7
<1> QED BY <1>1, <1>2

(* The marker of a missing entry is no entry. *)
LEMMA NoEntryIsNoCandle == NoEntry \notin Candles
BY DEF NoEntry, Candles

(* A running call's tick names a candle, its symbol is one of the store's. *)
LEMMA OwnCandle ==
  ASSUME TypeOK, OwnTick, NEW t \in Threads, pc[t] # "idle"
  PROVE  tick[t] \in Candles /\ sym[t] \in Symbols
BY StoreConstants DEF TypeOK, OwnTick, Candles

(* Every bump of a lifetime counter keeps the counters counters. *)
LEMMA StatsBump ==
  ASSUME NEW st \in Stats, NEW n \in Nat
  PROVE  /\ [st EXCEPT !.evictions = @ + 1] \in Stats
         /\ [st EXCEPT !.spilled = @ + n] \in Stats
         /\ [st EXCEPT !.spillErrors = @ + 1] \in Stats
         /\ [st EXCEPT !.rejected = @ + 1] \in Stats
         /\ [st EXCEPT !.invalid = @ + 1] \in Stats
         /\ [st EXCEPT !.outOfOrder = @ + 1] \in Stats
BY DEF Stats

-----------------------------------------------------------------------------
(* Every action preserves the invariant. *)

(* An invalid candle changes a counter only. *)
LEMMA AppendInvalidKeeps ==
  ASSUME IInv, NEW t \in Threads, AppendInvalid(t)
  PROVE  IInv'
<1>1. TypeOK'
  BY StatsBump DEF IInv, TypeOK, AppendInvalid, appendVars, readVars,
      ghostVars
<1>2. /\ OwnTick' /\ TickInv' /\ EntryInv' /\ ArcInv' /\ LockInv'
      /\ NoPoison' /\ Conservation' /\ ReadInv' /\ RangeComplete'
  BY DEF IInv, OwnTick, TickInv, Unpushed, EntryInv, ArcInv, LockInv, Live,
      NoPoison, Conservation, Hot, ReadInv, Lost, RangeComplete,
      AppendInvalid, appendVars, readVars, ghostVars
<1> QED BY <1>1, <1>2 DEF IInv

(* A fresh tick is no accepted candle and no other call's tick. *)
LEMMA AppendBeginKeeps ==
  ASSUME IInv, NEW t \in Threads, NEW s \in Symbols, AppendBegin(t, s)
  PROVE  IInv'
<1>1. TypeOK'
  <2>1. clock \in Nat /\ clock + 1 \in 0 .. MaxAppends
    BY StoreConstants DEF IInv, TypeOK, AppendBegin
  <2> QED BY <2>1 DEF IInv, TypeOK, AppendBegin, readVars, ghostVars
<1>2. OwnTick'
  BY DEF IInv, TypeOK, OwnTick, AppendBegin, readVars, ghostVars
<1>3. TickInv'
  <2>1. clock \in Nat /\ \A x \in Symbols : accepted[x] \subseteq Nat /\ clock \notin accepted[x]
    BY DEF IInv, TypeOK, TickInv, Candles
  <2>2. \A x \in Symbols : \A c \in accepted[x] : c < clock + 1
    BY <2>1 DEF IInv, TickInv
  <2>3. \A u \in Threads, x \in Symbols : Unpushed(u)' => tick'[u] \notin accepted[x]
    BY <2>1 DEF IInv, TypeOK, TickInv, Unpushed, AppendBegin
  <2> QED BY <2>2, <2>3 DEF IInv, TickInv, AppendBegin, readVars, ghostVars
<1>4. ArcInv'
  BY DEF IInv, ArcInv, AppendBegin, readVars, ghostVars
<1>5. LockInv'
  BY DEF IInv, LockInv, Live, AppendBegin, readVars, ghostVars
<1>6. NoPoison'
  BY DEF IInv, NoPoison, Live, AppendBegin, readVars, ghostVars
<1>7. EntryInv' /\ Conservation' /\ ReadInv' /\ RangeComplete'
  BY DEF IInv, EntryInv, Conservation, Hot, ReadInv, Lost, RangeComplete,
      AppendBegin, readVars, ghostVars
<1> QED BY <1>1, <1>2, <1>3, <1>4, <1>5, <1>6, <1>7 DEF IInv

(* The Arc cloned under the read lock is the symbol's live entry. *)
LEMMA LookupKeeps ==
  ASSUME IInv, NEW t \in Threads, Lookup(t)
  PROVE  IInv'
<1>0. tick[t] \in Candles /\ sym[t] \in Symbols /\ pc[t] # "idle"
  BY OwnCandle DEF IInv, Lookup
<1>1. TypeOK'
  BY <1>0 DEF IInv, TypeOK, Lookup, storeVars, readVars, ghostVars
<1>2. OwnTick'
  BY DEF IInv, OwnTick, Lookup, storeVars, readVars, ghostVars
<1>3. TickInv'
  BY DEF IInv, TickInv, Unpushed, Lookup, storeVars, readVars, ghostVars
<1>4. ArcInv'
  BY <1>0 DEF IInv, TypeOK, ArcInv, EntryInv, Lookup, storeVars, readVars,
      ghostVars
<1>5. LockInv'
  BY DEF IInv, LockInv, Live, Lookup, storeVars, readVars, ghostVars
<1>6. NoPoison'
  BY DEF IInv, NoPoison, Live, Lookup, storeVars, readVars, ghostVars
<1>7. EntryInv' /\ Conservation' /\ ReadInv' /\ RangeComplete'
  BY DEF IInv, EntryInv, Conservation, Hot, ReadInv, Lost, RangeComplete,
      Lookup, storeVars, readVars, ghostVars
<1> QED BY <1>1, <1>2, <1>3, <1>4, <1>5, <1>6, <1>7 DEF IInv

(* last_access is no part of the safety argument. *)
LEMMA TouchKeeps ==
  ASSUME IInv, NEW t \in Threads, Touch(t)
  PROVE  IInv'
<1>0. tick[t] \in Candles /\ sym[t] \in Symbols /\ pc[t] # "idle"
  BY OwnCandle DEF IInv, Touch
<1>1. TypeOK'
  BY <1>0 DEF IInv, TypeOK, Touch, readVars, ghostVars
<1>2. OwnTick'
  BY DEF IInv, OwnTick, Touch, readVars, ghostVars
<1>3. TickInv'
  BY DEF IInv, TickInv, Unpushed, Touch, readVars, ghostVars
<1>4. ArcInv'
  BY DEF IInv, ArcInv, Touch, readVars, ghostVars
<1>5. LockInv'
  BY DEF IInv, LockInv, Live, Touch, readVars, ghostVars
<1>6. NoPoison'
  BY DEF IInv, NoPoison, Live, Touch, readVars, ghostVars
<1>7. EntryInv' /\ Conservation' /\ ReadInv' /\ RangeComplete'
  BY DEF IInv, EntryInv, Conservation, Hot, ReadInv, Lost, RangeComplete,
      Touch, readVars, ghostVars
<1> QED BY <1>1, <1>2, <1>3, <1>4, <1>5, <1>6, <1>7 DEF IInv

(* A push lands in the symbol's live entry, and in no flagged one. *)
LEMMA PushLiveKeeps ==
  ASSUME IInv, NEW t \in Threads, PushLive(t)
  PROVE  IInv'
<1>0. tick[t] \in Candles /\ sym[t] \in Symbols /\ pc[t] # "idle"
  BY OwnCandle DEF IInv, PushLive
<1> DEFINE e == arc[t]
<1> DEFINE c == tick[t]
<1>a. e \in Candles /\ e \in accepted[sym[t]] /\ map[sym[t]] = e /\ ~ removed[e]
  BY <1>0 DEF IInv, TypeOK, ArcInv, PushLive
<1>b. /\ ring' = [ring EXCEPT ![e] = RingPush(ring[e], c)]
      /\ overwritten' = overwritten \cup Overwrites(ring[e])
      /\ accepted' = [accepted EXCEPT ![sym[t]] = @ \cup {c}]
      /\ pc' = [pc EXCEPT ![t] = "publish"]
  BY DEF PushLive, PushInto
<1>c. /\ ring'[e] \in Seq(Candles) /\ Len(ring'[e]) <= RingCapacity
      /\ \A x \in Candles : x # e => ring'[x] = ring[x]
      /\ c \in Range(ring'[e]) /\ Range(ring'[e]) \subseteq Range(ring[e]) \cup {c}
      /\ \A x \in Candles : Range(ring[x]) \subseteq Range(ring'[x]) \cup overwritten'
      /\ overwritten \subseteq overwritten' /\ overwritten' \subseteq Candles
  <2>1. /\ ring \in [Candles -> Seq(Candles)] /\ Len(ring[e]) <= RingCapacity
        /\ overwritten \subseteq Candles
    BY <1>a DEF IInv, TypeOK
  <2>2. ring[e] \in Seq(Candles) /\ ring'[e] = RingPush(ring[e], c)
    BY <1>a, <1>b, <2>1
  <2>3. \A x \in Candles : x # e => ring'[x] = ring[x]
    BY <1>a, <1>b, <2>1
  <2>4. /\ RingPush(ring[e], c) \in Seq(Candles)
        /\ Len(RingPush(ring[e], c)) <= RingCapacity
        /\ Overwrites(ring[e]) \subseteq Candles
        /\ c \in Range(RingPush(ring[e], c))
        /\ Range(RingPush(ring[e], c)) \subseteq Range(ring[e]) \cup {c}
        /\ Range(ring[e]) \subseteq Range(RingPush(ring[e], c)) \cup Overwrites(ring[e])
    BY <1>0, <2>1, <2>2, RingPushKeeps
  <2>5. \A x \in Candles : Range(ring[x]) \subseteq Range(ring'[x]) \cup overwritten'
    BY <1>b, <2>2, <2>3, <2>4
  <2> QED BY <1>b, <2>1, <2>2, <2>3, <2>4, <2>5
<1>d. /\ accepted'[sym[t]] = accepted[sym[t]] \cup {c}
      /\ \A x \in Symbols : x # sym[t] => accepted'[x] = accepted[x]
      /\ \A x \in Symbols : accepted[x] \subseteq accepted'[x]
  BY <1>0, <1>b DEF IInv, TypeOK
<1>e. UNCHANGED <<map, wlock, lastAccess, removed, clock, version, cold, sym, tick,
                  arc, left, victim, low, snap, readVars, dataDir, dropped>>
  BY DEF PushLive, PushInto
<1>1. TypeOK'
  <2>1. /\ ring' \in [Candles -> Seq(Candles)] /\ overwritten' \in SUBSET Candles
        /\ \A x \in Candles : Len(ring'[x]) <= RingCapacity
    BY <1>a, <1>b, <1>c DEF IInv, TypeOK
  <2>2. stats' \in Stats
    BY StatsBump DEF IInv, TypeOK, PushLive, PushInto
  <2>3. accepted' \in [Symbols -> SUBSET Candles]
    BY <1>0, <1>b DEF IInv, TypeOK
  <2> QED BY <1>b, <1>e, <2>1, <2>2, <2>3 DEF IInv, TypeOK, readVars
<1>2. OwnTick'
  BY DEF IInv, OwnTick, ArcInv, PushLive, PushInto, readVars
<1>3. TickInv'
  <2>1. c < clock /\ \A x \in Symbols : c \notin accepted[x]
    BY <1>0 DEF IInv, OwnTick, TickInv, Unpushed, PushLive
  <2>2. \A u \in Threads : Unpushed(u)' => Unpushed(u) /\ tick[u] # c
    BY <1>0, <1>b DEF IInv, TypeOK, OwnTick, Unpushed
  <2> QED BY <1>0, <1>d, <1>e, <2>1, <2>2 DEF IInv, TickInv
<1>4. EntryInv'
  <2>1. ring[c] = <<>> /\ c # e
    BY <1>0, <1>a DEF IInv, TickInv, EntryInv, Unpushed, PushLive
  <2>2. \A x \in Symbols : \A y \in accepted'[x] : Range(ring'[y]) \subseteq accepted'[x]
    <3> SUFFICES ASSUME NEW x \in Symbols, NEW y \in accepted'[x]
                 PROVE  Range(ring'[y]) \subseteq accepted'[x]
      OBVIOUS
    <3>1. CASE y = e
      <4>1. x = sym[t]
        BY <1>0, <1>a, <1>d, <2>1, <3>1 DEF IInv, TickInv
      <4> QED BY <1>0, <1>a, <1>c, <1>d, <3>1, <4>1 DEF IInv, EntryInv
    <3>2. CASE y # e /\ y \in accepted[x]
      BY <1>c, <1>d, <3>2 DEF IInv, TypeOK, EntryInv
    <3>3. CASE y = c
      <4>1. ring'[y] = <<>>
        BY <1>0, <1>c, <2>1, <3>3
      <4> QED BY <4>1 DEF Range
    <3> QED BY <1>d, <3>1, <3>2, <3>3
  <2>3. \A y \in Candles : (\A x \in Symbols : y \notin accepted'[x]) => ring'[y] = <<>>
    BY <1>0, <1>a, <1>c, <1>d DEF IInv, EntryInv
  <2> QED BY <1>d, <1>e, <2>2, <2>3 DEF IInv, TypeOK, EntryInv
<1>5. ArcInv'
  BY DEF IInv, ArcInv, PushLive, PushInto, readVars
<1>6. LockInv'
  BY DEF IInv, LockInv, Live, ArcInv, PushLive, PushInto, readVars
<1>7. NoPoison'
  BY DEF IInv, NoPoison, Live, ArcInv, PushLive, PushInto, readVars
<1>8. Conservation'
  <2> SUFFICES ASSUME NEW x \in Symbols, NEW y \in accepted'[x]
               PROVE  y \in Hot(x)' \cup cold'[x] \cup overwritten' \cup dropped'
    BY DEF Conservation
  <2>1. map[x] # NoEntry => Range(ring[map[x]]) \subseteq Range(ring'[map[x]]) \cup overwritten'
    BY <1>c DEF IInv, TypeOK
  <2>2. CASE y \in accepted[x]
    BY <1>c, <1>e, <2>1, <2>2 DEF IInv, Conservation, Hot
  <2>3. CASE y \notin accepted[x]
    BY <1>0, <1>a, <1>c, <1>d, <1>e, <2>3, NoEntryIsNoCandle DEF Hot
  <2> QED BY <2>2, <2>3
<1>9. ReadInv'
  <2>1. \A r \in Readers : rarc[r] # NoEntry =>
          Range(ring[rarc[r]]) \subseteq Range(ring'[rarc[r]]) \cup overwritten'
    BY <1>c DEF IInv, TypeOK
  <2> QED BY <1>c, <1>d, <1>e, <2>1 DEF IInv, ReadInv, Lost, readVars
<1>10. RangeComplete'
  BY DEF IInv, RangeComplete, ArcInv, PushLive, PushInto, readVars
<1> QED BY <1>1, <1>2, <1>3, <1>4, <1>5, <1>6, <1>7, <1>8, <1>9, <1>10 DEF IInv

(* A flagged entry sends the appender to the slow path with nothing changed. *)
LEMMA PushEvictedKeeps ==
  ASSUME IInv, NEW t \in Threads, PushEvicted(t)
  PROVE  IInv'
<1>0. tick[t] \in Candles /\ sym[t] \in Symbols /\ pc[t] # "idle"
  BY OwnCandle DEF IInv, PushEvicted
<1>1. TypeOK'
  BY <1>0 DEF IInv, TypeOK, PushEvicted, storeVars, readVars, ghostVars
<1>2. OwnTick'
  BY DEF IInv, OwnTick, PushEvicted, storeVars, readVars, ghostVars
<1>3. TickInv'
  BY DEF IInv, TickInv, Unpushed, PushEvicted, storeVars, readVars, ghostVars
<1>4. ArcInv'
  BY DEF IInv, TypeOK, ArcInv, EntryInv, PushEvicted, storeVars, readVars,
      ghostVars
<1>5. LockInv'
  BY DEF IInv, LockInv, Live, PushEvicted, storeVars, readVars, ghostVars
<1>6. NoPoison'
  BY DEF IInv, NoPoison, Live, PushEvicted, storeVars, readVars, ghostVars
<1>7. EntryInv' /\ Conservation' /\ ReadInv' /\ RangeComplete'
  BY DEF IInv, EntryInv, Conservation, Hot, ReadInv, Lost, RangeComplete,
      PushEvicted, storeVars, readVars, ghostVars
<1> QED BY <1>1, <1>2, <1>3, <1>4, <1>5, <1>6, <1>7 DEF IInv

(* Publishing changes version and ends the call. *)
LEMMA PublishKeeps ==
  ASSUME IInv, NEW t \in Threads, Publish(t)
  PROVE  IInv'
<1>0. tick[t] \in Candles /\ sym[t] \in Symbols /\ pc[t] # "idle"
  BY OwnCandle DEF IInv, Publish
<1>1. TypeOK'
  <2>1. version' \in Nat
    BY DEF IInv, TypeOK, Publish
  <2> QED BY <2>1 DEF IInv, TypeOK, Publish, Return, readVars, ghostVars
<1>2. OwnTick'
  BY DEF IInv, TypeOK, OwnTick, Publish, Return, readVars, ghostVars
<1>3. TickInv'
  BY DEF IInv, TickInv, Unpushed, Publish, Return, readVars, ghostVars
<1>4. ArcInv'
  BY DEF IInv, ArcInv, Publish, Return, readVars, ghostVars
<1>5. LockInv'
  BY DEF IInv, LockInv, Live, Publish, Return, readVars, ghostVars
<1>6. NoPoison'
  BY DEF IInv, NoPoison, Live, Publish, Return, readVars, ghostVars
<1>7. EntryInv' /\ Conservation' /\ ReadInv' /\ RangeComplete'
  BY DEF IInv, EntryInv, Conservation, Hot, ReadInv, Lost, RangeComplete,
      Publish, Return, readVars, ghostVars
<1> QED BY <1>1, <1>2, <1>3, <1>4, <1>5, <1>6, <1>7 DEF IInv

(* The entry another thread inserted is the symbol's live one. *)
LEMMA InsertRaceLostKeeps ==
  ASSUME IInv, NEW t \in Threads, InsertRaceLost(t)
  PROVE  IInv'
<1>0. tick[t] \in Candles /\ sym[t] \in Symbols /\ pc[t] # "idle"
  BY OwnCandle DEF IInv, InsertRaceLost
<1>1. TypeOK'
  BY <1>0 DEF IInv, TypeOK, InsertRaceLost, storeVars, readVars, ghostVars
<1>2. OwnTick'
  BY DEF IInv, OwnTick, InsertRaceLost, storeVars, readVars, ghostVars
<1>3. TickInv'
  BY DEF IInv, TickInv, Unpushed, InsertRaceLost, storeVars, readVars,
      ghostVars
<1>4. ArcInv'
  BY <1>0 DEF IInv, TypeOK, ArcInv, EntryInv, InsertRaceLost, storeVars,
      readVars, ghostVars
<1>5. LockInv'
  BY DEF IInv, LockInv, Live, InsertRaceLost, storeVars, readVars, ghostVars
<1>6. NoPoison'
  BY DEF IInv, NoPoison, Live, InsertRaceLost, storeVars, readVars, ghostVars
<1>7. EntryInv' /\ Conservation' /\ ReadInv' /\ RangeComplete'
  BY DEF IInv, EntryInv, Conservation, Hot, ReadInv, Lost, RangeComplete,
      InsertRaceLost, storeVars, readVars, ghostVars
<1> QED BY <1>1, <1>2, <1>3, <1>4, <1>5, <1>6, <1>7 DEF IInv

(* The write lock is taken while the symbol is absent. *)
LEMMA InsertLockKeeps ==
  ASSUME IInv, NEW t \in Threads, InsertLock(t)
  PROVE  IInv'
<1>0. tick[t] \in Candles /\ sym[t] \in Symbols /\ pc[t] # "idle"
  BY OwnCandle DEF IInv, InsertLock
<1>1. TypeOK'
  <2>1. Live \subseteq Symbols
    BY DEF Live
  <2> QED BY <1>0, <2>1 DEF IInv, TypeOK, InsertLock, readVars, ghostVars
<1>2. OwnTick'
  BY DEF IInv, OwnTick, LockInv, Live, InsertLock, readVars, ghostVars
<1>3. TickInv'
  BY DEF IInv, TickInv, Unpushed, LockInv, Live, InsertLock, readVars,
      ghostVars
<1>4. ArcInv'
  BY DEF IInv, ArcInv, LockInv, Live, InsertLock, readVars, ghostVars
<1>5. LockInv'
  <2> SUFFICES ASSUME NEW u \in Threads PROVE LockInv!(u)'
    BY DEF LockInv
  <2> QED BY <1>0, StoreConstants DEF IInv, TypeOK, LockInv, Live, InsertLock, readVars, ghostVars
<1>6. NoPoison'
  BY <1>0, StoreConstants DEF IInv, TypeOK, NoPoison, Live, LockInv,
      InsertLock, readVars, ghostVars
<1>7. EntryInv' /\ Conservation' /\ ReadInv' /\ RangeComplete'
  BY DEF IInv, EntryInv, Conservation, Hot, ReadInv, Lost, RangeComplete,
      InsertLock, readVars, ghostVars
<1> QED BY <1>1, <1>2, <1>3, <1>4, <1>5, <1>6, <1>7 DEF IInv

(* The candidate victim is always a live entry. *)
LEMMA ScanEntryKeeps ==
  ASSUME IInv, NEW t \in Threads, NEW s \in Symbols, ScanEntry(t, s)
  PROVE  IInv'
<1>0. tick[t] \in Candles /\ sym[t] \in Symbols /\ pc[t] # "idle"
  BY OwnCandle DEF IInv, ScanEntry
<1>1. TypeOK'
  <2>1. map[s] \in Candles /\ lastAccess[map[s]] \in Nat
    BY NoEntryIsNoCandle DEF IInv, TypeOK, LockInv, Live, ScanEntry
  <2> QED BY <2>1 DEF IInv, TypeOK, ScanEntry, storeVars, readVars, ghostVars
<1>2. LockInv'
  BY <1>0, StoreConstants DEF IInv, TypeOK, LockInv, EntryInv, Live,
      ScanEntry, storeVars, readVars, ghostVars
<1>3. NoPoison'
  BY DEF IInv, NoPoison, Live, LockInv, ScanEntry, storeVars, readVars,
      ghostVars
<1>4. /\ OwnTick' /\ TickInv' /\ EntryInv' /\ ArcInv' /\ Conservation'
      /\ ReadInv' /\ RangeComplete'
  BY DEF IInv, OwnTick, TickInv, Unpushed, EntryInv, ArcInv, Conservation, Hot,
      ReadInv, Lost, RangeComplete, ScanEntry, storeVars, readVars, ghostVars
<1> QED BY <1>1, <1>2, <1>3, <1>4 DEF IInv

(* Flag and copy happen together, so the copy is the whole ring. *)
LEMMA FlagVictimKeeps ==
  ASSUME IInv, NEW t \in Threads, FlagVictim(t)
  PROVE  IInv'
<1>0. tick[t] \in Candles /\ sym[t] \in Symbols /\ pc[t] # "idle"
  BY OwnCandle DEF IInv, FlagVictim
<1>a. /\ wlock = t /\ victim \in Symbols /\ map[victim] \in Candles
      /\ map[victim] \in accepted[victim] /\ map[sym[t]] = NoEntry
      /\ \A u \in Threads : wlock = u => u = t
  BY NoEntryIsNoCandle, StoreConstants DEF IInv, TypeOK, EntryInv, LockInv, Live, FlagVictim
<1>1. TypeOK'
  BY <1>0, <1>a DEF IInv, TypeOK, FlagVictim, readVars, ghostVars
<1>2. OwnTick'
  BY DEF IInv, OwnTick, LockInv, Live, FlagVictim, readVars, ghostVars
<1>3. TickInv'
  BY DEF IInv, TickInv, Unpushed, LockInv, Live, FlagVictim, readVars,
      ghostVars
<1>4. ArcInv'
  BY DEF IInv, ArcInv, LockInv, Live, FlagVictim, readVars, ghostVars
<1>5. LockInv'
  BY DEF IInv, TypeOK, LockInv, EntryInv, Live, FlagVictim, readVars,
      ghostVars
<1>6. NoPoison'
  <2> SUFFICES ASSUME NEW x \in Symbols, map[x] # NoEntry, removed'[map[x]]
               PROVE  wlock' = t /\ pc'[t] \in {"spill", "place"} /\ victim' = x
    BY DEF NoPoison, Live, FlagVictim
  <2>1. map[x] \in Candles /\ map[x] \in accepted[x]
    BY DEF IInv, TypeOK, EntryInv
  <2>2. ~ removed[map[x]]
    BY <1>a DEF IInv, NoPoison, Live, FlagVictim
  <2>3. map[x] = map[victim]
    BY <2>1, <2>2 DEF IInv, TypeOK, FlagVictim
  <2> QED BY <1>a, <2>1, <2>3 DEF IInv, TypeOK, TickInv, FlagVictim
<1>7. EntryInv' /\ Conservation' /\ ReadInv' /\ RangeComplete'
  BY DEF IInv, EntryInv, Conservation, Hot, ReadInv, Lost, RangeComplete,
      FlagVictim, readVars, ghostVars
<1> QED BY <1>1, <1>2, <1>3, <1>4, <1>5, <1>6, <1>7 DEF IInv

(* The copy reaches the cold files before the entry leaves the map. *)
LEMMA SpillOkKeeps ==
  ASSUME IInv, NEW t \in Threads, SpillOk(t)
  PROVE  IInv'
<1>0. tick[t] \in Candles /\ sym[t] \in Symbols /\ pc[t] # "idle"
  BY OwnCandle DEF IInv, SpillOk
<1>a. /\ wlock = t /\ victim \in Symbols /\ map[victim] \in Candles
      /\ map[victim] \in accepted[victim] /\ map[sym[t]] = NoEntry
      /\ \A u \in Threads : wlock = u => u = t
  BY NoEntryIsNoCandle, StoreConstants DEF IInv, TypeOK, EntryInv, LockInv, Live, SpillOk
<1>1. TypeOK'
  <2>1. Range(snap) \subseteq Candles /\ Len(snap) \in Nat
    BY DEF IInv, TypeOK, Range
  <2>2. stats' \in Stats
    BY <2>1, StatsBump DEF IInv, TypeOK, SpillOk
  <2> QED BY <1>0, <1>a, <2>1, <2>2 DEF IInv, TypeOK, SpillOk, readVars, ghostVars
<1>2. OwnTick'
  BY DEF IInv, OwnTick, LockInv, Live, SpillOk, readVars, ghostVars
<1>3. TickInv'
  BY DEF IInv, TickInv, Unpushed, LockInv, Live, SpillOk, readVars, ghostVars
<1>4. EntryInv'
  BY DEF IInv, EntryInv, LockInv, Live, SpillOk, readVars, ghostVars
<1>5. ArcInv'
  BY DEF IInv, ArcInv, LockInv, Live, SpillOk, readVars, ghostVars
<1>6. LockInv'
  BY DEF IInv, TypeOK, LockInv, EntryInv, Live, SpillOk, readVars, ghostVars
<1>7. NoPoison'
  BY DEF IInv, NoPoison, Live, LockInv, SpillOk, readVars, ghostVars
<1>8. Conservation'
  BY DEF IInv, Conservation, Hot, LockInv, Live, SpillOk, readVars, ghostVars
<1>9. ReadInv'
  BY DEF IInv, ReadInv, Lost, LockInv, Live, SpillOk, readVars, ghostVars
<1>10. RangeComplete'
  BY DEF IInv, RangeComplete, SpillOk, readVars, ghostVars
<1> QED BY <1>1, <1>2, <1>3, <1>4, <1>5, <1>6, <1>7, <1>8, <1>9, <1>10 DEF IInv

(* A failed spill unflags an entry that is still its symbol's live one. *)
LEMMA SpillFailsKeeps ==
  ASSUME IInv, NEW t \in Threads, SpillFails(t)
  PROVE  IInv'
<1>0. tick[t] \in Candles /\ sym[t] \in Symbols /\ pc[t] # "idle"
  BY OwnCandle DEF IInv, SpillFails
<1>a. /\ wlock = t /\ victim \in Symbols /\ map[victim] \in Candles
      /\ map[victim] \in accepted[victim] /\ map[sym[t]] = NoEntry
      /\ \A u \in Threads : wlock = u => u = t
  BY NoEntryIsNoCandle, StoreConstants DEF IInv, TypeOK, EntryInv, LockInv, Live, SpillFails
<1>1. TypeOK'
  <2>1. stats' \in Stats
    BY StatsBump DEF IInv, TypeOK, SpillFails
  <2>2. <<>> \in Seq(Candles) /\ 0 \in Nat
    OBVIOUS
  <2> QED BY <1>0, <1>a, <2>1, <2>2 DEF IInv, TypeOK, SpillFails, Unlock, readVars, ghostVars
<1>2. OwnTick'
  BY DEF IInv, OwnTick, LockInv, Live, SpillFails, Unlock, readVars, ghostVars
<1>3. TickInv'
  BY DEF IInv, TickInv, Unpushed, LockInv, Live, SpillFails, Unlock, readVars,
      ghostVars
<1>4. ArcInv'
  <2> SUFFICES ASSUME NEW u \in Threads, pc'[u] \in {"touch", "push"}
               PROVE  /\ arc'[u] \in accepted'[sym'[u]]
                      /\ map'[sym'[u]] = arc'[u] \/ removed'[arc'[u]]
    BY DEF ArcInv
  <2>1. u # t /\ pc[u] = pc'[u]
    BY DEF IInv, TypeOK, SpillFails
  <2>2. sym[u] \in Symbols /\ arc[u] \in accepted[sym[u]]
    BY <2>1 DEF IInv, OwnTick, ArcInv
  <2>3. UNCHANGED <<arc, sym, map, accepted>> /\ removed' = [removed EXCEPT ![map[victim]] = FALSE]
    BY DEF SpillFails, ghostVars
  <2>4. CASE arc[u] = map[victim]
    BY <1>a, <2>2, <2>3, <2>4 DEF IInv, TickInv
  <2>5. CASE arc[u] # map[victim]
    BY <1>a, <2>1, <2>2, <2>3, <2>5 DEF IInv, TypeOK, ArcInv
  <2> QED BY <2>4, <2>5
<1>5. LockInv'
  BY <1>0, StoreConstants DEF IInv, TypeOK, LockInv, EntryInv, Live,
      SpillFails, Unlock, readVars, ghostVars
<1>6. NoPoison'
  BY DEF IInv, TypeOK, NoPoison, Live, LockInv, SpillFails, Unlock, readVars,
      ghostVars
<1>7. EntryInv' /\ Conservation' /\ ReadInv' /\ RangeComplete'
  BY DEF IInv, EntryInv, Conservation, Hot, ReadInv, Lost, RangeComplete,
      SpillFails, Unlock, readVars, ghostVars
<1> QED BY <1>1, <1>2, <1>3, <1>4, <1>5, <1>6, <1>7 DEF IInv

(* With no data_dir the copy is dropped by policy. *)
LEMMA DropOnEvictKeeps ==
  ASSUME IInv, NEW t \in Threads, DropOnEvict(t)
  PROVE  IInv'
<1>0. tick[t] \in Candles /\ sym[t] \in Symbols /\ pc[t] # "idle"
  BY OwnCandle DEF IInv, DropOnEvict
<1>a. /\ wlock = t /\ victim \in Symbols /\ map[victim] \in Candles
      /\ map[victim] \in accepted[victim] /\ map[sym[t]] = NoEntry
      /\ \A u \in Threads : wlock = u => u = t
  BY NoEntryIsNoCandle, StoreConstants DEF IInv, TypeOK, EntryInv, LockInv, Live, DropOnEvict
<1>1. TypeOK'
  <2>1. Range(snap) \subseteq Candles
    BY DEF IInv, TypeOK, Range
  <2> QED BY <1>0, <2>1 DEF IInv, TypeOK, DropOnEvict, storeVars, readVars
<1>2. OwnTick'
  BY DEF IInv, OwnTick, LockInv, Live, DropOnEvict, storeVars, readVars
<1>3. TickInv'
  BY DEF IInv, TickInv, Unpushed, LockInv, Live, DropOnEvict, storeVars,
      readVars
<1>4. ArcInv'
  BY DEF IInv, ArcInv, LockInv, Live, DropOnEvict, storeVars, readVars
<1>5. LockInv'
  BY DEF IInv, LockInv, Live, DropOnEvict, storeVars, readVars
<1>6. NoPoison'
  BY DEF IInv, NoPoison, Live, LockInv, DropOnEvict, storeVars, readVars
<1>7. Conservation'
  BY DEF IInv, Conservation, Hot, LockInv, Live, DropOnEvict, storeVars,
      readVars
<1>8. ReadInv'
  BY DEF IInv, ReadInv, Lost, LockInv, Live, DropOnEvict, storeVars, readVars
<1>9. RangeComplete'
  BY DEF IInv, RangeComplete, LockInv, Live, DropOnEvict, storeVars, readVars
<1>10. EntryInv'
  BY DEF IInv, EntryInv, DropOnEvict, storeVars, readVars
<1> QED BY <1>1, <1>2, <1>3, <1>4, <1>5, <1>6, <1>7, <1>8, <1>9, <1>10 DEF IInv

(* The victim leaves the map with its ring in the cold files; the new entry is fresh. *)
LEMMA PlaceKeeps ==
  ASSUME IInv, NEW t \in Threads, Place(t)
  PROVE  IInv'
<1>0. tick[t] \in Candles /\ sym[t] \in Symbols /\ pc[t] # "idle"
  BY OwnCandle DEF IInv, Place
<1> DEFINE e == tick[t]
<1>a. wlock = t /\ map[sym[t]] = NoEntry /\ e < clock /\ \A x \in Symbols : e \notin accepted[x]
  BY <1>0 DEF IInv, OwnTick, TickInv, LockInv, Unpushed, Place
<1>b. victim # NoSymbol =>
        /\ victim \in Symbols /\ victim # sym[t] /\ removed[map[victim]]
        /\ Range(ring[map[victim]]) \subseteq cold[victim] \cup dropped
  BY <1>a DEF IInv, LockInv, Live, Place
<1>c. /\ map' \in [Symbols -> Candles \cup {NoEntry}] /\ map'[sym[t]] = e
      /\ \A x \in Symbols : x # sym[t] /\ x # victim => map'[x] = map[x]
      /\ victim # NoSymbol => map'[victim] = NoEntry
  <2>1. map \in [Symbols -> Candles \cup {NoEntry}]
    BY DEF IInv, TypeOK
  <2>2. CASE victim = NoSymbol
    BY <1>0, <2>1, <2>2, StoreConstants DEF Place
  <2>3. CASE victim # NoSymbol
    BY <1>0, <1>b, <2>1, <2>3 DEF Place
  <2> QED BY <2>2, <2>3
<1>d. /\ ring' = [ring EXCEPT ![e] = <<e>>] /\ removed' = [removed EXCEPT ![e] = FALSE]
      /\ accepted' = [accepted EXCEPT ![sym[t]] = @ \cup {e}]
      /\ pc' = [pc EXCEPT ![t] = "publish"] /\ wlock' = NoThread
      /\ UNCHANGED <<clock, version, cold, sym, tick, arc, readVars, dataDir, overwritten,
                     dropped>>
  BY DEF Place, Unlock
<1>e. /\ ring'[e] = <<e>> /\ Range(ring'[e]) = {e} /\ ~ removed'[e]
      /\ \A x \in Candles : x # e => ring'[x] = ring[x] /\ removed'[x] = removed[x]
  <2>1. ring'[e] = <<e>> /\ ~ removed'[e]
    BY <1>0, <1>d DEF IInv, TypeOK
  <2>2. Range(<<e>>) = {e}
    BY DEF Range
  <2>3. \A x \in Candles : x # e => ring'[x] = ring[x] /\ removed'[x] = removed[x]
    BY <1>d DEF IInv, TypeOK
  <2> QED BY <2>1, <2>2, <2>3
<1>f. /\ accepted'[sym[t]] = accepted[sym[t]] \cup {e}
      /\ \A x \in Symbols : x # sym[t] => accepted'[x] = accepted[x]
      /\ \A x \in Symbols : accepted[x] \subseteq Candles /\ accepted[x] \subseteq accepted'[x]
  BY <1>0, <1>d DEF IInv, TypeOK
<1>1. TypeOK'
  <2>1. <<e>> \in Seq(Candles) /\ <<>> \in Seq(Candles) /\ e \in Nat /\ 0 \in Nat
    BY <1>0 DEF Candles
  <2>2. stats' \in Stats
    BY StatsBump DEF IInv, TypeOK, Place
  <2>3. ring' \in [Candles -> Seq(Candles)] /\ lastAccess' \in [Candles -> Nat]
    BY <1>d, <2>1 DEF IInv, TypeOK, Place
  <2>4. \A x \in Candles : Len(ring'[x]) <= RingCapacity
    <3>1. Len(<<e>>) = 1 /\ 1 <= RingCapacity
      BY StoreConstants
    <3>2. Len(ring'[e]) <= RingCapacity
      BY <1>e, <3>1
    <3> QED BY <1>e, <3>2 DEF IInv, TypeOK
  <2>5. accepted' \in [Symbols -> SUBSET Candles] /\ removed' \in [Candles -> BOOLEAN]
    BY <1>0, <1>d DEF IInv, TypeOK
  <2>6. left' = {} /\ victim' = NoSymbol /\ low' = 0 /\ snap' = <<>>
    BY DEF Place, Unlock
  <2>7. pc' \in [Threads -> {"idle", "lookup", "touch", "push", "publish",
                            "insert", "scan", "spill", "place", "reject"}]
    BY <1>d DEF IInv, TypeOK
  <2> QED BY <1>c, <1>d, <2>1, <2>2, <2>3, <2>4, <2>5, <2>6, <2>7 DEF IInv, TypeOK, readVars
<1>2. OwnTick'
  BY DEF IInv, OwnTick, LockInv, Live, Place, Unlock, readVars
<1>3. TickInv'
  <2>1. \A u \in Threads : Unpushed(u)' => Unpushed(u) /\ tick[u] # e
    BY <1>0, <1>d DEF IInv, TypeOK, OwnTick, Unpushed
  <2> QED BY <1>0, <1>a, <1>d, <1>f, <2>1 DEF IInv, TickInv
<1>4. EntryInv'
  <2>1. \A x \in Symbols : map'[x] # NoEntry => map'[x] \in accepted'[x]
    <3> SUFFICES ASSUME NEW x \in Symbols, map'[x] # NoEntry PROVE map'[x] \in accepted'[x]
      OBVIOUS
    <3>1. CASE x = sym[t]
      BY <1>0, <1>c, <1>f, <3>1
    <3>2. CASE x # sym[t]
      <4>1. x # victim /\ map'[x] = map[x]
        BY <1>c, <3>2, StoreConstants
      <4> QED BY <1>f, <3>2, <4>1 DEF IInv, EntryInv
    <3> QED BY <3>1, <3>2
  <2>2. \A x \in Symbols : \A y \in accepted'[x] : Range(ring'[y]) \subseteq accepted'[x]
    BY <1>0, <1>a, <1>e, <1>f DEF IInv, EntryInv
  <2>3. \A y \in Candles : (\A x \in Symbols : y \notin accepted'[x]) => ring'[y] = <<>>
    BY <1>0, <1>e, <1>f DEF IInv, EntryInv
  <2> QED BY <1>d, <1>f, <2>1, <2>2, <2>3 DEF IInv, EntryInv
<1>5. ArcInv'
  <2> SUFFICES ASSUME NEW u \in Threads, pc'[u] \in {"touch", "push"}
               PROVE  /\ arc'[u] \in accepted'[sym'[u]]
                      /\ map'[sym'[u]] = arc'[u] \/ removed'[arc'[u]]
    BY DEF ArcInv
  <2>1. u # t /\ pc[u] \in {"touch", "push"}
    BY <1>d DEF IInv, TypeOK
  <2>2. sym[u] \in Symbols /\ arc[u] \in accepted[sym[u]]
    BY <2>1 DEF IInv, OwnTick, ArcInv
  <2>3. arc[u] \in Candles /\ arc[u] # e
    BY <1>a, <1>f, <2>2
  <2>4. map[sym[u]] = arc[u] \/ removed[arc[u]]
    BY <2>1 DEF IInv, ArcInv
  <2>5. UNCHANGED <<arc, sym>> /\ removed'[arc[u]] = removed[arc[u]] /\ arc[u] \in accepted'[sym[u]]
    BY <1>d, <1>e, <1>f, <2>2, <2>3
  <2>6. CASE removed[arc[u]]
    BY <2>5, <2>6
  <2>7. CASE ~ removed[arc[u]]
    <3>1. map[sym[u]] = arc[u] /\ sym[u] # sym[t]
      BY <1>a, <2>3, <2>4, <2>7, NoEntryIsNoCandle
    <3>2. sym[u] # victim
      BY <1>b, <2>2, <2>7, <3>1, StoreConstants
    <3> QED BY <1>c, <2>2, <2>5, <3>1, <3>2
  <2> QED BY <2>6, <2>7
<1>6. LockInv'
  <2>1. NoThread \notin Threads
    BY StoreConstants
  <2>2. \A u \in Threads : pc'[u] \notin {"scan", "spill", "place"}
    BY <1>a, <1>d DEF IInv, TypeOK, LockInv
  <2> QED BY <1>d, <2>1, <2>2 DEF LockInv
<1>7. NoPoison'
  <2> SUFFICES ASSUME NEW s \in Symbols, map'[s] # NoEntry, removed'[map'[s]]
               PROVE  FALSE
    BY DEF NoPoison, Live
  <2>2. CASE s = sym[t]
    BY <1>c, <1>e, <2>2
  <2>3. CASE s # sym[t] /\ s = victim
    BY <1>c, <2>3, StoreConstants
  <2>4. CASE s # sym[t] /\ s # victim
    <3>1. map'[s] = map[s] /\ map[s] # NoEntry
      BY <1>c, <2>4
    <3>2. map[s] \in accepted[s] /\ map[s] \in Candles /\ map[s] # e
      BY <1>a, <1>f, <3>1 DEF IInv, EntryInv
    <3>3. s \in Live /\ removed[map[s]]
      BY <1>e, <3>1, <3>2 DEF Live
    <3> QED BY <2>4, <3>3 DEF IInv, NoPoison
  <2> QED BY <2>2, <2>3, <2>4
<1>8. Conservation'
  <2> SUFFICES ASSUME NEW x \in Symbols, NEW y \in accepted'[x]
               PROVE  y \in Hot(x)' \cup cold[x] \cup overwritten \cup dropped
    BY <1>d DEF Conservation
  <2>1. CASE y = e
    <3>1. x = sym[t]
      BY <1>a, <1>f, <2>1
    <3> QED BY <1>0, <1>c, <1>e, <2>1, <3>1, NoEntryIsNoCandle DEF Hot
  <2>2. CASE y # e
    <3>1. y \in Hot(x) \cup cold[x] \cup overwritten \cup dropped
      BY <1>0, <1>f, <2>2 DEF IInv, Conservation
    <3>2. CASE x = sym[t]
      BY <1>a, <3>1, <3>2 DEF Hot
    <3>3. CASE x = victim
      BY <1>b, <3>1, <3>3, StoreConstants DEF Hot
    <3>4. CASE x # sym[t] /\ x # victim
      <4>1. map[x] # NoEntry => map[x] \in Candles /\ map[x] # e
        BY <1>a DEF IInv, TypeOK, EntryInv
      <4> QED BY <1>c, <1>e, <3>1, <3>4, <4>1 DEF Hot
    <3> QED BY <3>2, <3>3, <3>4
  <2> QED BY <2>1, <2>2
<1>9. ReadInv'
  <2>1. \A r \in Readers : rpc[r] = "hot" /\ rarc[r] # NoEntry => ring'[rarc[r]] = ring[rarc[r]]
    BY <1>a, <1>e DEF IInv, TypeOK, ReadInv
  <2> QED BY <1>d, <1>f, <2>1 DEF IInv, ReadInv, Lost, readVars
<1>10. RangeComplete'
  BY DEF IInv, RangeComplete, LockInv, Live, Place, Unlock, readVars
<1> QED BY <1>1, <1>2, <1>3, <1>4, <1>5, <1>6, <1>7, <1>8, <1>9, <1>10 DEF IInv

(* Counting the rejection ends the call. *)
LEMMA RejectKeeps ==
  ASSUME IInv, NEW t \in Threads, Reject(t)
  PROVE  IInv'
<1>0. tick[t] \in Candles /\ sym[t] \in Symbols /\ pc[t] # "idle"
  BY OwnCandle DEF IInv, Reject
<1>1. TypeOK'
  BY <1>0, StatsBump DEF IInv, TypeOK, Reject, Return, readVars, ghostVars
<1>2. OwnTick'
  BY DEF IInv, TypeOK, OwnTick, Reject, Return, readVars, ghostVars
<1>3. TickInv'
  BY DEF IInv, TypeOK, TickInv, Unpushed, Reject, Return, readVars, ghostVars
<1>4. ArcInv'
  BY DEF IInv, ArcInv, Reject, Return, readVars, ghostVars
<1>5. LockInv'
  BY DEF IInv, LockInv, Live, Reject, Return, readVars, ghostVars
<1>6. NoPoison'
  BY DEF IInv, NoPoison, Live, Reject, Return, readVars, ghostVars
<1>7. EntryInv' /\ Conservation' /\ ReadInv' /\ RangeComplete'
  BY DEF IInv, EntryInv, Conservation, Hot, ReadInv, Lost, RangeComplete,
      Reject, Return, readVars, ghostVars
<1> QED BY <1>1, <1>2, <1>3, <1>4, <1>5, <1>6, <1>7 DEF IInv

(* The candles due are the ones accepted by now. *)
LEMMA RangeBeginKeeps ==
  ASSUME IInv, NEW r \in Readers, NEW s \in Symbols, RangeBegin(r, s)
  PROVE  IInv'
<1>1. TypeOK'
  BY DEF IInv, TypeOK, RangeBegin, storeVars, appendVars, ghostVars
<1>2. ReadInv'
  BY DEF IInv, TypeOK, ReadInv, EntryInv, Lost, RangeBegin, storeVars,
      appendVars, ghostVars
<1>3. RangeComplete'
  BY DEF IInv, RangeComplete, RangeBegin, storeVars, appendVars, ghostVars
<1>4. /\ OwnTick' /\ TickInv' /\ EntryInv' /\ ArcInv' /\ LockInv'
      /\ NoPoison' /\ Conservation'
  BY DEF IInv, OwnTick, TickInv, Unpushed, EntryInv, ArcInv, LockInv, Live,
      NoPoison, Conservation, Hot, RangeBegin, storeVars, appendVars,
      ghostVars
<1> QED BY <1>1, <1>2, <1>3, <1>4 DEF IInv

(* By conservation what is due is hot in the entry found, or cold, or lost by policy. *)
LEMMA RangeLookupKeeps ==
  ASSUME IInv, NEW r \in Readers, RangeLookup(r)
  PROVE  IInv'
<1>0. rsym[r] \in Symbols
  BY DEF IInv, ReadInv, RangeLookup
<1>1. TypeOK'
  BY <1>0 DEF IInv, TypeOK, RangeLookup, storeVars, appendVars, ghostVars
<1>2. ReadInv'
  BY DEF IInv, TypeOK, ReadInv, EntryInv, Lost, Conservation, Hot,
      RangeLookup, storeVars, appendVars, ghostVars
<1>3. RangeComplete'
  BY DEF IInv, RangeComplete, RangeLookup, storeVars, appendVars, ghostVars
<1>4. /\ OwnTick' /\ TickInv' /\ EntryInv' /\ ArcInv' /\ LockInv'
      /\ NoPoison' /\ Conservation'
  BY DEF IInv, OwnTick, TickInv, Unpushed, EntryInv, ArcInv, LockInv, Live,
      NoPoison, Conservation, Hot, RangeLookup, storeVars, appendVars,
      ghostVars
<1> QED BY <1>1, <1>2, <1>3, <1>4 DEF IInv

(* The ring of the Arc held still has what it had, even if it was evicted meanwhile. *)
LEMMA RangeHotKeeps ==
  ASSUME IInv, NEW r \in Readers, RangeHot(r)
  PROVE  IInv'
<1>0. rsym[r] \in Symbols
  BY DEF IInv, ReadInv, RangeHot
<1>1. TypeOK'
  <2>1. rarc[r] # NoEntry => Range(ring[rarc[r]]) \subseteq Candles
    BY DEF IInv, TypeOK, Range
  <2> QED BY <2>1 DEF IInv, TypeOK, RangeHot, storeVars, appendVars, ghostVars
<1>2. ReadInv'
  BY DEF IInv, TypeOK, ReadInv, EntryInv, Lost, RangeHot, storeVars,
      appendVars, ghostVars
<1>3. RangeComplete'
  BY DEF IInv, RangeComplete, RangeHot, storeVars, appendVars, ghostVars
<1>4. /\ OwnTick' /\ TickInv' /\ EntryInv' /\ ArcInv' /\ LockInv'
      /\ NoPoison' /\ Conservation'
  BY DEF IInv, OwnTick, TickInv, Unpushed, EntryInv, ArcInv, LockInv, Live,
      NoPoison, Conservation, Hot, RangeHot, storeVars, appendVars, ghostVars
<1> QED BY <1>1, <1>2, <1>3, <1>4 DEF IInv

(* The cold read comes after the hot one, so what left the ring meanwhile is in it. *)
LEMMA RangeColdKeeps ==
  ASSUME IInv, NEW r \in Readers, RangeCold(r)
  PROVE  IInv'
<1>0. rsym[r] \in Symbols
  BY DEF IInv, ReadInv, RangeCold
<1>1. TypeOK'
  BY <1>0 DEF IInv, TypeOK, RangeCold, storeVars, appendVars, ghostVars
<1>2. ReadInv'
  BY DEF IInv, ReadInv, Lost, RangeCold, storeVars, appendVars, ghostVars
<1>3. RangeComplete'
  BY DEF IInv, TypeOK, RangeComplete, ReadInv, Lost, EntryInv, RangeCold,
      storeVars, appendVars, ghostVars
<1>4. /\ OwnTick' /\ TickInv' /\ EntryInv' /\ ArcInv' /\ LockInv'
      /\ NoPoison' /\ Conservation'
  BY DEF IInv, OwnTick, TickInv, Unpushed, EntryInv, ArcInv, LockInv, Live,
      NoPoison, Conservation, Hot, RangeCold, storeVars, appendVars, ghostVars
<1> QED BY <1>1, <1>2, <1>3, <1>4 DEF IInv

(* An idle reader owes nothing. *)
LEMMA RangeReturnKeeps ==
  ASSUME IInv, NEW r \in Readers, RangeReturn(r)
  PROVE  IInv'
<1>0. rsym[r] \in Symbols
  BY DEF IInv, ReadInv, RangeReturn
<1>1. TypeOK'
  BY <1>0 DEF IInv, TypeOK, RangeReturn, storeVars, appendVars, ghostVars
<1>2. ReadInv'
  BY DEF IInv, TypeOK, ReadInv, EntryInv, Lost, RangeReturn, storeVars,
      appendVars, ghostVars
<1>3. RangeComplete'
  BY DEF IInv, TypeOK, RangeComplete, ReadInv, Lost, EntryInv, RangeReturn,
      storeVars, appendVars, ghostVars
<1>4. /\ OwnTick' /\ TickInv' /\ EntryInv' /\ ArcInv' /\ LockInv'
      /\ NoPoison' /\ Conservation'
  BY DEF IInv, OwnTick, TickInv, Unpushed, EntryInv, ArcInv, LockInv, Live,
      NoPoison, Conservation, Hot, RangeReturn, storeVars, appendVars,
      ghostVars
<1> QED BY <1>1, <1>2, <1>3, <1>4 DEF IInv

-----------------------------------------------------------------------------
(* An empty store satisfies the invariant. *)
LEMMA InitIInv == Init => IInv
<1> SUFFICES ASSUME Init PROVE IInv
  OBVIOUS
<1>1. TypeOK
  <2>1. <<>> \in Seq(Candles) /\ clock \in 0 .. MaxAppends /\ stats \in Stats
    BY StoreConstants DEF Init, Stats
  <2>2. \A e \in Candles : Len(ring[e]) <= RingCapacity
    BY StoreConstants DEF Init
  <2>3. dataDir \in BOOLEAN
    BY StoreConstants DEF Init
  <2> QED BY <2>1, <2>2, <2>3 DEF Init, TypeOK
<1>2. OwnTick /\ TickInv /\ EntryInv /\ ArcInv /\ LockInv
  BY StoreConstants DEF Init, OwnTick, TickInv, EntryInv, ArcInv, LockInv, Unpushed
<1>3. NoPoison /\ Conservation /\ ReadInv /\ RangeComplete
  BY DEF Init, NoPoison, Live, Conservation, ReadInv, RangeComplete
<1> QED BY <1>1, <1>2, <1>3 DEF IInv

(* A step of something else changes none of it. *)
LEMMA StutterKeeps == IInv /\ UNCHANGED vars => IInv'
<1> SUFFICES ASSUME IInv, UNCHANGED vars PROVE IInv'
  OBVIOUS
<1> USE DEF IInv, vars, storeVars, appendVars, readVars, ghostVars
<1>1. TypeOK' /\ OwnTick' /\ TickInv'
  BY DEF TypeOK, OwnTick, TickInv, Unpushed
<1>2. EntryInv' /\ ArcInv' /\ LockInv' /\ NoPoison'
  BY DEF EntryInv, ArcInv, LockInv, NoPoison, Live
<1>3. Conservation' /\ ReadInv' /\ RangeComplete'
  BY DEF Conservation, Hot, ReadInv, Lost, RangeComplete
<1> QED BY <1>1, <1>2, <1>3

(* Every step of every handler keeps the invariant. *)
LEMMA NextKeeps == IInv /\ [Next]_vars => IInv'
<1> SUFFICES ASSUME IInv, [Next]_vars PROVE IInv'
  OBVIOUS
<1>1. ASSUME NEW t \in Threads, Step(t) PROVE IInv'
  BY <1>1, AppendInvalidKeeps, AppendBeginKeeps, LookupKeeps, TouchKeeps, PushLiveKeeps,
     PushEvictedKeeps, PublishKeeps, InsertRaceLostKeeps, InsertLockKeeps, ScanEntryKeeps,
     FlagVictimKeeps, SpillOkKeeps, SpillFailsKeeps, DropOnEvictKeeps, PlaceKeeps,
     RejectKeeps DEF Step, LetGo
<1>2. ASSUME NEW r \in Readers, Read(r) PROVE IInv'
  BY <1>2, RangeBeginKeeps, RangeLookupKeeps, RangeHotKeeps, RangeColdKeeps,
     RangeReturnKeeps DEF Read
<1>3. CASE UNCHANGED vars
  BY <1>3, StutterKeeps
<1> QED BY <1>1, <1>2, <1>3 DEF Next, Quiescent

(* In every behaviour of the store, for any number of threads and symbols, *)
(* the whole inductive invariant holds.                                    *)
THEOREM StoreInvariant == Spec => []IInv
<1>1. Init => IInv
  BY InitIInv
<1>2. IInv /\ [Next]_vars => IInv'
  BY NextKeeps
<1> QED BY <1>1, <1>2, PTL DEF Spec

(* The handlers of store.rs keep every variable within its type. *)
THEOREM StoreTypeCorrect == Spec => []TypeOK
<1>1. IInv => TypeOK
  BY DEF IInv
<1> QED BY <1>1, StoreInvariant, PTL

(* No accepted candle is lost by an eviction race or a failed spill. *)
THEOREM StoreConserves == Spec => []Conservation
<1>1. IInv => Conservation
  BY DEF IInv
<1> QED BY <1>1, StoreInvariant, PTL

(* No live entry stays flagged once its eviction is over, so the retry of  *)
(* push_and_publish never meets an entry that refuses it for ever.         *)
THEOREM StoreNeverPoisons == Spec => []NoPoison
<1>1. IInv => NoPoison
  BY DEF IInv
<1> QED BY <1>1, StoreInvariant, PTL

(* range misses no candle accepted before it began, and invents none. *)
THEOREM StoreRangeComplete == Spec => []RangeComplete
<1>1. IInv => RangeComplete
  BY DEF IInv
<1> QED BY <1>1, StoreInvariant, PTL

(* Once evicted, an entry's ring never changes: an appender that still     *)
(* holds its Arc is turned away by `removed`.                              *)
THEOREM StoreEvictedFrozen == Spec => EvictedFrozen
<1>1. IInv /\ [Next]_vars => [FrozenStep]_vars
  <2> SUFFICES ASSUME IInv, Next PROVE FrozenStep
    OBVIOUS
  <2> SUFFICES ASSUME NEW e \in Candles, ring[e] # <<>>, \A s \in Symbols : map[s] # e
               PROVE  ring'[e] = ring[e]
    BY DEF FrozenStep
  <2>1. ASSUME NEW t \in Threads, PushLive(t) PROVE ring'[e] = ring[e]
    <3>1. sym[t] \in Symbols /\ arc[t] # e
      BY <2>1, OwnCandle DEF IInv, ArcInv, PushLive
    <3> QED BY <2>1, <3>1 DEF IInv, TypeOK, PushLive, PushInto
  <2>2. ASSUME NEW t \in Threads, Place(t) PROVE ring'[e] = ring[e]
    <3>1. tick[t] \in Candles /\ ring[tick[t]] = <<>>
      BY <2>2, OwnCandle DEF IInv, TickInv, Unpushed, EntryInv, Place
    <3> QED BY <2>2, <3>1 DEF IInv, TypeOK, Place
  <2>3. ASSUME NEW t \in Threads, Step(t), ~ PushLive(t), ~ Place(t) PROVE ring' = ring
    BY <2>3 DEF Step, AppendInvalid, AppendBegin, Lookup, Touch, PushEvicted, Publish,
       InsertRaceLost, InsertLock, ScanEntry, FlagVictim, LetGo, SpillOk, SpillFails,
       DropOnEvict, Reject, storeVars
  <2>4. ASSUME NEW r \in Readers, Read(r) PROVE ring' = ring
    BY <2>4 DEF Read, RangeBegin, RangeLookup, RangeHot, RangeCold, RangeReturn, storeVars
  <2>5. CASE Quiescent
    BY <2>5 DEF Quiescent, vars, storeVars
  <2> QED BY <2>1, <2>2, <2>3, <2>4, <2>5 DEF Next
<1> QED BY <1>1, StoreInvariant, PTL DEF Spec, EvictedFrozen

-----------------------------------------------------------------------------
(* What the store counts.                                                  *)

Taken      == UNION {accepted[s] : s \in Symbols}
Publishing == {t \in Threads : pc[t] = "publish"}
InFlight   == {t \in Threads : pc[t] \notin {"idle", "publish"}}

(* An insert that found room, or an empty map, still does when it places   *)
(* its entry.                                                              *)
TableInv ==
  /\ IsFiniteSet(Live) /\ MapBounded
  /\ \A t \in Threads : pc[t] = "place" /\ victim = NoSymbol => Live = {} \/ ~AtCapacity

(* Only finitely many calls have begun, and they account for every tick.   *)
CallsInv == IsFiniteSet(Publishing) /\ IsFiniteSet(InFlight) /\ AppendsAccounted

(* The five things a step can do to the counts. *)
CountsSame == /\ UNCHANGED <<InFlight, Publishing, Taken, clock, version>>
              /\ stats'.rejected = stats.rejected
Begins(t) == /\ t \notin InFlight /\ InFlight' = InFlight \cup {t} /\ clock' = clock + 1
             /\ UNCHANGED <<Publishing, Taken, version>>
             /\ stats'.rejected = stats.rejected
Accepts(t) == /\ t \in InFlight /\ InFlight' = InFlight \ {t}
              /\ t \notin Publishing /\ Publishing' = Publishing \cup {t}
              /\ tick[t] \notin Taken /\ Taken' = Taken \cup {tick[t]}
              /\ UNCHANGED <<clock, version>> /\ stats'.rejected = stats.rejected
Publishes(t) == /\ t \in Publishing /\ Publishing' = Publishing \ {t}
                /\ version' = version + 1
                /\ UNCHANGED <<InFlight, Taken, clock>> /\ stats'.rejected = stats.rejected
GivesUp(t) == /\ t \in InFlight /\ InFlight' = InFlight \ {t}
              /\ stats'.rejected = stats.rejected + 1
              /\ UNCHANGED <<Publishing, Taken, clock, version>>

(* Where one thread goes, the sets of running calls follow. *)
LEMMA OneThreadMoves ==
  ASSUME TypeOK, NEW t \in Threads, pc' = [pc EXCEPT ![t] = pc'[t]]
  PROVE  /\ pc'[t] = "publish" => Publishing' = Publishing \cup {t} /\ InFlight' = InFlight \ {t}
         /\ pc'[t] = "idle" => Publishing' = Publishing \ {t} /\ InFlight' = InFlight \ {t}
         /\ pc'[t] \notin {"idle", "publish"} =>
              Publishing' = Publishing \ {t} /\ InFlight' = InFlight \cup {t}
<1>1. \A u \in Threads : u # t => pc'[u] = pc[u]
  BY DEF TypeOK
<1> QED BY <1>1 DEF Publishing, InFlight

(* A push or an insert adds the thread's own candle to those accepted. *)
LEMMA TakesOwn ==
  ASSUME IInv, NEW t \in Threads, Unpushed(t),
         accepted' = [accepted EXCEPT ![sym[t]] = @ \cup {tick[t]}]
  PROVE  tick[t] \notin Taken /\ Taken' = Taken \cup {tick[t]}
<1>1. sym[t] \in Symbols /\ accepted \in [Symbols -> SUBSET Candles]
  BY OwnCandle DEF IInv, Unpushed, TypeOK
<1>2. tick[t] \notin Taken
  BY DEF IInv, TickInv, Taken
<1>3. \A s \in Symbols :
        accepted'[s] = IF s = sym[t] THEN accepted[s] \cup {tick[t]} ELSE accepted[s]
  BY <1>1
<1>4. Taken' = Taken \cup {tick[t]}
  BY <1>1, <1>3 DEF Taken
<1> QED BY <1>2, <1>4

(* Every step of an append does one of the five. *)
LEMMA StepCounts ==
  ASSUME IInv, NEW t \in Threads, Step(t)
  PROVE  CountsSame \/ Begins(t) \/ Accepts(t) \/ Publishes(t) \/ GivesUp(t)
<1>0. TypeOK /\ stats \in Stats
  BY DEF IInv, TypeOK
<1>1. CASE AppendInvalid(t)
  <2>1. UNCHANGED <<pc, accepted, clock, version>> /\ stats'.rejected = stats.rejected
    BY <1>0, <1>1 DEF AppendInvalid, appendVars, ghostVars, Stats
  <2> QED BY <2>1 DEF CountsSame, InFlight, Publishing, Taken
<1>2. ASSUME NEW s \in Symbols, AppendBegin(t, s) PROVE Begins(t)
  <2>1. /\ pc[t] = "idle" /\ pc' = [pc EXCEPT ![t] = "lookup"] /\ pc'[t] = "lookup"
        /\ clock' = clock + 1 /\ UNCHANGED <<accepted, version, stats>>
    BY <1>0, <1>2 DEF AppendBegin, ghostVars, TypeOK
  <2>2. Publishing' = Publishing \ {t} /\ InFlight' = InFlight \cup {t}
    BY <1>0, <2>1, OneThreadMoves
  <2>3. t \notin Publishing /\ t \notin InFlight
    BY <2>1 DEF Publishing, InFlight
  <2> QED BY <2>1, <2>2, <2>3 DEF Begins, Taken
<1>3. CASE PushLive(t) \/ Place(t)
  <2>1. /\ pc[t] \in {"push", "place"} /\ pc' = [pc EXCEPT ![t] = "publish"]
        /\ accepted' = [accepted EXCEPT ![sym[t]] = @ \cup {tick[t]}]
        /\ UNCHANGED <<clock, version>>
    BY <1>3 DEF PushLive, PushInto, Place
  <2>2. stats'.rejected = stats.rejected
    BY <1>0, <1>3 DEF PushLive, PushInto, Place, Stats
  <2>3. pc'[t] = "publish"
    BY <1>0, <2>1 DEF TypeOK
  <2>4. Publishing' = Publishing \cup {t} /\ InFlight' = InFlight \ {t}
    BY <1>0, <2>1, <2>3, OneThreadMoves
  <2>5. tick[t] \notin Taken /\ Taken' = Taken \cup {tick[t]}
    BY <2>1, TakesOwn DEF Unpushed
  <2>6. t \notin Publishing /\ t \in InFlight
    BY <2>1 DEF Publishing, InFlight
  <2> QED BY <2>1, <2>2, <2>4, <2>5, <2>6 DEF Accepts
<1>4. CASE Publish(t)
  <2>1. /\ pc[t] = "publish" /\ pc' = [pc EXCEPT ![t] = "idle"] /\ pc'[t] = "idle"
        /\ version' = version + 1 /\ UNCHANGED <<accepted, clock, stats>>
    BY <1>0, <1>4 DEF Publish, Return, ghostVars, TypeOK
  <2>2. Publishing' = Publishing \ {t} /\ InFlight' = InFlight \ {t}
    BY <1>0, <2>1, OneThreadMoves
  <2>3. t \in Publishing /\ t \notin InFlight
    BY <2>1 DEF Publishing, InFlight
  <2> QED BY <2>1, <2>2, <2>3 DEF Publishes, Taken
<1>5. CASE Reject(t)
  <2>1. /\ pc[t] = "reject" /\ pc' = [pc EXCEPT ![t] = "idle"] /\ pc'[t] = "idle"
        /\ UNCHANGED <<accepted, clock, version>>
    BY <1>0, <1>5 DEF Reject, Return, ghostVars, TypeOK
  <2>2. stats'.rejected = stats.rejected + 1
    BY <1>0, <1>5 DEF Reject, Stats
  <2>3. Publishing' = Publishing \ {t} /\ InFlight' = InFlight \ {t}
    BY <1>0, <2>1, OneThreadMoves
  <2>4. t \notin Publishing /\ t \in InFlight
    BY <2>1 DEF Publishing, InFlight
  <2> QED BY <2>1, <2>2, <2>3, <2>4 DEF GivesUp, Taken
<1>6. ASSUME \/ Lookup(t) \/ Touch(t) \/ PushEvicted(t) \/ InsertRaceLost(t) \/ InsertLock(t)
             \/ (\E s \in Symbols : ScanEntry(t, s)) \/ FlagVictim(t) \/ LetGo(t)
             \/ SpillFails(t)
      PROVE  CountsSame
  <2>1. /\ pc[t] \notin {"idle", "publish"}
        /\ pc' = [pc EXCEPT ![t] = pc'[t]] /\ pc'[t] \notin {"idle", "publish"}
    BY <1>0, <1>6 DEF Lookup, Touch, PushEvicted, InsertRaceLost, InsertLock, ScanEntry,
       FlagVictim, LetGo, SpillOk, DropOnEvict, SpillFails, TypeOK
  <2>2. UNCHANGED <<accepted, clock, version>>
    BY <1>6 DEF Lookup, Touch, PushEvicted, InsertRaceLost, InsertLock, ScanEntry,
       FlagVictim, LetGo, SpillOk, DropOnEvict, SpillFails, storeVars, ghostVars
  <2>3. stats'.rejected = stats.rejected
    BY <1>0, <1>6 DEF Lookup, Touch, PushEvicted, InsertRaceLost, InsertLock, ScanEntry,
       FlagVictim, LetGo, SpillOk, DropOnEvict, SpillFails, storeVars, Stats
  <2>4. Publishing' = Publishing \ {t} /\ InFlight' = InFlight \cup {t}
    BY <1>0, <2>1, OneThreadMoves
  <2>5. t \notin Publishing /\ t \in InFlight
    BY <2>1 DEF Publishing, InFlight
  <2> QED BY <2>2, <2>3, <2>4, <2>5 DEF CountsSame, Taken
<1> QED BY <1>1, <1>2, <1>3, <1>4, <1>5, <1>6 DEF Step

(* The candles accepted are finitely many: each has a tick of its own. *)
LEMMA TakenFinite ==
  ASSUME NEW A \in [Symbols -> SUBSET Candles]
  PROVE  /\ IsFiniteSet(UNION {A[s] : s \in Symbols})
         /\ Cardinality(UNION {A[s] : s \in Symbols}) \in Nat
<1>1. IsFiniteSet(Candles)
  BY StoreConstants, FS_Interval DEF Candles
<1>2. UNION {A[s] : s \in Symbols} \in SUBSET Candles
  OBVIOUS
<1>3. IsFiniteSet(UNION {A[s] : s \in Symbols})
  BY <1>1, <1>2, FS_Subset
<1> QED BY <1>3, FS_CardinalityType

(* The account of the appends balances after every step, and the version   *)
(* moves with the number of accepted appends that have been published.     *)
LEMMA StepBalances ==
  ASSUME IInv, CallsInv, NEW t \in Threads, Step(t)
  PROVE  /\ CallsInv'
         /\ version' + Cardinality(Publishing') + Cardinality(Taken)
              = version + Cardinality(Publishing) + Cardinality(Taken')
         /\ version <= version'
<1>1. /\ IsFiniteSet(Publishing) /\ Cardinality(Publishing) \in Nat
      /\ IsFiniteSet(InFlight) /\ Cardinality(InFlight) \in Nat
  BY FS_CardinalityType DEF CallsInv
<1>2. IsFiniteSet(Taken) /\ Cardinality(Taken) \in Nat
  BY TakenFinite DEF IInv, TypeOK, Taken
<1>3. clock \in Nat /\ version \in Nat /\ stats.rejected \in Nat
  BY StoreConstants DEF IInv, TypeOK, Stats
<1>4. clock = Cardinality(Taken) + stats.rejected + Cardinality(InFlight)
  BY DEF CallsInv, AppendsAccounted, Taken, InFlight
<1>5. SUFFICES /\ IsFiniteSet(Publishing') /\ IsFiniteSet(InFlight')
               /\ clock' = Cardinality(Taken') + stats'.rejected + Cardinality(InFlight')
               /\ version' + Cardinality(Publishing') + Cardinality(Taken)
                    = version + Cardinality(Publishing) + Cardinality(Taken')
               /\ version <= version'
  BY DEF CallsInv, AppendsAccounted, Taken, InFlight
<1>6. CASE CountsSame
  BY <1>1, <1>3, <1>4, <1>6 DEF CountsSame
<1>7. CASE Begins(t)
  <2>1. /\ IsFiniteSet(InFlight \cup {t})
        /\ Cardinality(InFlight \cup {t}) = Cardinality(InFlight) + 1
    BY <1>1, <1>7, FS_AddElement DEF Begins
  <2> QED BY <1>1, <1>2, <1>3, <1>4, <1>7, <2>1 DEF Begins
<1>8. CASE Accepts(t)
  <2>1. /\ IsFiniteSet(InFlight \ {t})
        /\ Cardinality(InFlight \ {t}) = Cardinality(InFlight) - 1
    BY <1>1, <1>8, FS_RemoveElement DEF Accepts
  <2>2. /\ IsFiniteSet(Publishing \cup {t})
        /\ Cardinality(Publishing \cup {t}) = Cardinality(Publishing) + 1
    BY <1>1, <1>8, FS_AddElement DEF Accepts
  <2>3. Cardinality(Taken \cup {tick[t]}) = Cardinality(Taken) + 1
    BY <1>2, <1>8, FS_AddElement DEF Accepts
  <2> QED BY <1>1, <1>2, <1>3, <1>4, <1>8, <2>1, <2>2, <2>3 DEF Accepts
<1>9. CASE Publishes(t)
  <2>1. /\ IsFiniteSet(Publishing \ {t})
        /\ Cardinality(Publishing \ {t}) = Cardinality(Publishing) - 1
    BY <1>1, <1>9, FS_RemoveElement DEF Publishes
  <2> QED BY <1>1, <1>2, <1>3, <1>4, <1>9, <2>1 DEF Publishes
<1>10. CASE GivesUp(t)
  <2>1. /\ IsFiniteSet(InFlight \ {t})
        /\ Cardinality(InFlight \ {t}) = Cardinality(InFlight) - 1
    BY <1>1, <1>10, FS_RemoveElement DEF GivesUp
  <2> QED BY <1>1, <1>2, <1>3, <1>4, <1>10, <2>1 DEF GivesUp
<1> QED BY <1>6, <1>7, <1>8, <1>9, <1>10, StepCounts

(* Placing an entry takes the victim out of the symbol table or uses the   *)
(* room that was found under the same write lock.                          *)
LEMMA PlaceKeepsTable ==
  ASSUME IInv, TableInv, NEW t \in Threads, Place(t)
  PROVE  TableInv'
<1>1. /\ sym[t] \in Symbols /\ tick[t] \in Candles /\ tick[t] # NoEntry
      /\ map[sym[t]] = NoEntry /\ victim \in Live \cup {NoSymbol}
  BY OwnCandle, NoEntryIsNoCandle DEF IInv, LockInv, Place
<1>2. /\ IsFiniteSet(Live) /\ Cardinality(Live) \in Nat /\ sym[t] \notin Live
      /\ MaxSymbols \in Nat
  BY <1>1, FS_CardinalityType, StoreConstants DEF TableInv, Live
<1>3. \A u \in Threads : pc'[u] # "place"
  BY DEF IInv, LockInv, TypeOK, Place
<1>4. CASE victim = NoSymbol
  <2>1. Live' = Live \cup {sym[t]}
    BY <1>1, <1>4 DEF IInv, TypeOK, Place, Live
  <2>2. IsFiniteSet(Live') /\ Cardinality(Live') = Cardinality(Live) + 1
    BY <1>2, <2>1, FS_AddElement
  <2>3. Live = {} \/ Cardinality(Live) < MaxSymbols
    BY <1>2, <1>4 DEF TableInv, AtCapacity, Place
  <2>4. Cardinality(Live') <= IF MaxSymbols = 0 THEN 1 ELSE MaxSymbols
    <3>1. CASE Live = {}
      BY <1>2, <2>2, <3>1, FS_EmptySet
    <3>2. CASE Cardinality(Live) < MaxSymbols
      BY <1>2, <2>2, <3>2
    <3> QED BY <2>3, <3>1, <3>2
  <2> QED BY <1>3, <2>2, <2>4 DEF TableInv, MapBounded
<1>5. CASE victim # NoSymbol
  <2>1. victim \in Live /\ victim # sym[t]
    BY <1>1, <1>2, <1>5
  <2>2. Live' = (Live \ {victim}) \cup {sym[t]}
    BY <1>1, <1>5, <2>1 DEF IInv, TypeOK, Place, Live
  <2>3. IsFiniteSet(Live \ {victim}) /\ Cardinality(Live \ {victim}) = Cardinality(Live) - 1
    BY <1>2, <2>1, FS_RemoveElement
  <2>4. /\ IsFiniteSet((Live \ {victim}) \cup {sym[t]})
        /\ Cardinality((Live \ {victim}) \cup {sym[t]}) = Cardinality(Live \ {victim}) + 1
    BY <1>2, <2>3, FS_AddElement
  <2>5. IsFiniteSet(Live') /\ Cardinality(Live') = Cardinality(Live)
    BY <1>2, <2>2, <2>3, <2>4
  <2> QED BY <1>3, <2>5 DEF TableInv, MapBounded
<1> QED BY <1>4, <1>5

(* No other step changes the symbol table, and none reaches "place"        *)
(* without a victim but the insert that saw room.                          *)
LEMMA StepKeepsTable ==
  ASSUME IInv, TableInv, NEW t \in Threads, Step(t)
  PROVE  TableInv'
<1>1. CASE Place(t)
  BY <1>1, PlaceKeepsTable
<1>2. CASE InsertLock(t)
  <2>1. Live' = Live /\ (AtCapacity' <=> AtCapacity)
    BY <1>2 DEF InsertLock, Live, AtCapacity
  <2>2. \A u \in Threads : pc'[u] = "place" => Live = {} \/ ~AtCapacity
    <3> SUFFICES ASSUME NEW u \in Threads, pc'[u] = "place" PROVE Live = {} \/ ~AtCapacity
      OBVIOUS
    <3>1. pc[u] # "place"
      BY <1>2, StoreConstants DEF IInv, LockInv, InsertLock
    <3>2. u = t
      BY <1>2, <3>1 DEF IInv, TypeOK, InsertLock
    <3> QED BY <1>2, <3>2 DEF IInv, TypeOK, InsertLock
  <2> QED BY <2>1, <2>2 DEF TableInv, MapBounded
<1>3. CASE ~Place(t) /\ ~InsertLock(t)
  <2>1. map' = map
    BY <1>3 DEF Step, AppendInvalid, AppendBegin, Lookup, Touch, PushLive, PushInto, PushEvicted,
       Publish, InsertRaceLost, ScanEntry, FlagVictim, LetGo, SpillOk, SpillFails, DropOnEvict,
       Reject, storeVars
  <2>2. Live' = Live /\ (AtCapacity' <=> AtCapacity)
    BY <2>1 DEF Live, AtCapacity
  <2>3. \A u \in Threads : pc'[u] = "place" /\ victim' = NoSymbol
                           => pc[u] = "place" /\ victim = NoSymbol
    <3> SUFFICES ASSUME NEW u \in Threads, pc'[u] = "place", victim' = NoSymbol
                 PROVE  pc[u] = "place" /\ victim = NoSymbol
      OBVIOUS
    <3>1. CASE LetGo(t)
      <4>1. pc[t] = "spill" /\ victim' = victim /\ victim # NoSymbol
        BY <3>1 DEF LetGo, SpillOk, DropOnEvict, IInv, LockInv
      <4> QED BY <4>1
    <3>2. CASE SpillFails(t) \/ \E s \in Symbols : ScanEntry(t, s)
      <4>1. wlock = t /\ pc[t] \in {"spill", "scan"} /\ pc'[t] # "place"
            /\ \A v \in Threads : v # t => pc'[v] = pc[v]
        BY <3>2 DEF SpillFails, ScanEntry, IInv, LockInv, TypeOK
      <4>2. u # t /\ pc[u] = "place"
        BY <4>1
      <4> QED BY <4>1, <4>2 DEF IInv, LockInv
    <3>3. CASE ~LetGo(t) /\ ~SpillFails(t) /\ ~\E s \in Symbols : ScanEntry(t, s)
      <4>1. victim' = victim /\ (pc'[u] = pc[u] \/ pc'[u] # "place")
        BY <1>3, <3>3 DEF Step, AppendInvalid, AppendBegin, Lookup, Touch, PushLive, PushInto,
           PushEvicted, Publish, Return, InsertRaceLost, FlagVictim, Reject, appendVars, IInv,
           TypeOK
      <4> QED BY <4>1
    <3> QED BY <3>1, <3>2, <3>3
  <2> QED BY <2>2, <2>3 DEF TableInv, MapBounded
<1> QED BY <1>1, <1>2, <1>3

(* Readers count nothing. *)
LEMMA ReadersCountNothing ==
  ASSUME TableInv, CallsInv, (\E r \in Readers : Read(r)) \/ Quiescent \/ UNCHANGED vars
  PROVE  TableInv' /\ CallsInv' /\ UNCHANGED <<version, Publishing, Taken>>
<1>1. UNCHANGED <<map, pc, victim, accepted, clock, version, stats>>
  BY DEF Read, RangeBegin, RangeLookup, RangeHot, RangeCold, RangeReturn, Quiescent, vars,
     storeVars, appendVars, ghostVars
<1>2. UNCHANGED <<Live, Publishing, InFlight, Taken>> /\ (AtCapacity' <=> AtCapacity)
  BY <1>1 DEF Live, AtCapacity, Publishing, InFlight, Taken
<1>3. TableInv'
  BY <1>1, <1>2 DEF TableInv, MapBounded
<1>4. CallsInv'
  BY <1>1, <1>2 DEF CallsInv, AppendsAccounted
<1> QED BY <1>1, <1>2, <1>3, <1>4

(* At the start nothing is counted. *)
LEMMA InitCounts ==
  ASSUME Init
  PROVE  TableInv /\ CallsInv /\ VersionCounts
<1>1. Live = {} /\ Publishing = {} /\ InFlight = {} /\ Taken = {}
  BY DEF Init, Live, Publishing, InFlight, Taken
<1>2. TableInv
  BY <1>1, FS_EmptySet, StoreConstants DEF TableInv, MapBounded
<1>3. CallsInv
  <2>1. clock = 0 /\ stats.rejected = 0
    BY DEF Init
  <2> QED BY <1>1, <2>1, FS_EmptySet DEF CallsInv, AppendsAccounted, InFlight, Taken
<1>4. VersionCounts
  <2>1. version = 0 /\ Cardinality(Publishing) = 0 /\ Cardinality(Taken) = 0
    BY <1>1, FS_EmptySet DEF Init
  <2> QED BY <2>1 DEF VersionCounts, Publishing, Taken
<1> QED BY <1>2, <1>3, <1>4

(* version counts what was published as long as only appends bump it. *)
LEMMA VersionKeeps ==
  ASSUME IInv, CallsInv, VersionCounts, NEW t \in Threads, Step(t)
  PROVE  VersionCounts'
<1>1. /\ IsFiniteSet(Publishing') /\ Cardinality(Publishing') \in Nat
      /\ Cardinality(Publishing) \in Nat
  BY StepBalances, FS_CardinalityType DEF CallsInv
<1>2. TypeOK'
  BY NextKeeps DEF Next, IInv
<1>3. Cardinality(Taken) \in Nat /\ Cardinality(Taken') \in Nat
  BY <1>2, TakenFinite DEF IInv, TypeOK, Taken
<1>4. version \in Nat /\ version' \in Nat
  BY <1>2 DEF IInv, TypeOK
<1>5. version + Cardinality(Publishing) = Cardinality(Taken)
  BY DEF VersionCounts, Publishing, Taken
<1>6. version' + Cardinality(Publishing') = Cardinality(Taken')
  BY <1>1, <1>3, <1>4, <1>5, StepBalances
<1> QED BY <1>6 DEF VersionCounts, Publishing, Taken

(* The symbol table never outgrows max_symbols, version counts accepted    *)
(* appends exactly, and every tick drawn ends as an accepted candle or as  *)
(* a counted rejection, whatever races, retries and failures there are.    *)
THEOREM StoreCounts == Spec => []CountsRight
<1> DEFINE CInv == IInv /\ TableInv /\ CallsInv /\ VersionCounts
<1>1. Init => CInv
  BY InitIInv, InitCounts
<1>2. CInv /\ [Next]_vars => CInv'
  <2> SUFFICES ASSUME CInv, [Next]_vars PROVE CInv'
    OBVIOUS
  <2>1. IInv'
    BY NextKeeps
  <2>2. ASSUME NEW t \in Threads, Step(t) PROVE CInv'
    BY <2>1, <2>2, StepKeepsTable, StepBalances, VersionKeeps
  <2>3. CASE (\E r \in Readers : Read(r)) \/ Quiescent \/ UNCHANGED vars
    <3>1. TableInv' /\ CallsInv' /\ UNCHANGED <<version, Publishing, Taken>>
      BY <2>3, ReadersCountNothing
    <3>2. VersionCounts'
      BY <3>1 DEF VersionCounts, Publishing, Taken
    <3> QED BY <2>1, <3>1, <3>2
  <2> QED BY <2>2, <2>3 DEF Next
<1>3. CInv => CountsRight
  BY DEF CountsRight, TableInv, CallsInv
<1> QED BY <1>1, <1>2, <1>3, PTL DEF Spec

-----------------------------------------------------------------------------
(***************************************************************************)
(* StoreWatch, the same store with its watchers. For any number of         *)
(* signallers too and any window: a consumer that loops on wait_for_change *)
(* and last_n misses no wake-up, and snapshot counts a signal as an append *)
(* only when its own load has missed that signal's count.                  *)
(***************************************************************************)

Bumping == {g \in Signallers : spc[g] = "bump"}

(* version counts published appends and the signals that have bumped it. *)
SignalInv ==
  /\ IsFiniteSet(Bumping)
  /\ version + Cardinality(Publishing) + Cardinality(Bumping) = Cardinality(Taken) + signals

(* An append is accepted before it is published. *)
PublishedInv == Published >= 0

(* While the version the consumer saw is the current one and no push waits *)
(* to be published, the map and the rings are as the consumer found them.  *)
Quiet == lastSeen = version /\ Publishing = {}
QuietInv ==
  Quiet => /\ kpc = "wait" => view = Newest
           /\ kpc = "read" => karc = map[Watched]

WInv == IInv /\ CallsInv /\ WatchTypeOK /\ SignalInv /\ PublishedInv /\ QuietInv

-----------------------------------------------------------------------------
(* last_n returns candles of the ring. *)
LEMMA LastNType ==
  ASSUME NEW r \in Seq(Candles)
  PROVE  LastN(r) \in Seq(Candles)
<1>1. Len(r) \in Nat /\ Window \in Nat \ {0}
  BY WatchConstants
<1>2. CASE Len(r) <= Window
  BY <1>2 DEF LastN
<1>3. CASE ~(Len(r) <= Window)
  <2>1. Len(r) - Window + 1 \in 1 .. Len(r)
    BY <1>1, <1>3
  <2>2. SubSeq(r, Len(r) - Window + 1, Len(r)) \in Seq(Candles)
    BY <1>1, <2>1
  <2> QED BY <1>3, <2>2 DEF LastN
<1> QED BY <1>2, <1>3

(* The sizes of the sets, as numbers. *)
LEMMA Sizes ==
  ASSUME WInv
  PROVE  /\ Cardinality(Taken) \in Nat /\ Cardinality(Publishing) \in Nat
         /\ Cardinality(Bumping) \in Nat /\ version \in Nat /\ signals \in Nat
         /\ Published = Cardinality(Taken) - Cardinality(Publishing)
<1>1. Cardinality(Taken) \in Nat
  BY TakenFinite DEF WInv, IInv, TypeOK, Taken
<1>2. Cardinality(Publishing) \in Nat /\ Cardinality(Bumping) \in Nat
  BY FS_CardinalityType DEF WInv, CallsInv, SignalInv
<1>3. version \in Nat /\ signals \in Nat
  BY WatchConstants DEF WInv, IInv, TypeOK, WatchTypeOK
<1>4. Published = Cardinality(Taken) - Cardinality(Publishing)
  BY DEF Published, Accepted, Pending, Taken, Publishing
<1> QED BY <1>1, <1>2, <1>3, <1>4

(* A step that leaves the store alone, or bumps its version only. *)
LEMMA StoreUntouched ==
  ASSUME WInv,
         UNCHANGED <<map, wlock, ring, lastAccess, removed, clock, stats, cold, appendVars,
                     readVars, dataDir, ghostVars>>,
         version' \in Nat
  PROVE  /\ IInv' /\ CallsInv'
         /\ UNCHANGED <<Publishing, Taken, Published, Newest>>
<1> USE DEF WInv, IInv, appendVars, readVars, ghostVars
<1>1. TypeOK' /\ OwnTick' /\ TickInv'
  BY DEF TypeOK, OwnTick, TickInv, Unpushed
<1>2. EntryInv' /\ ArcInv' /\ LockInv' /\ NoPoison'
  BY DEF EntryInv, ArcInv, LockInv, NoPoison, Live
<1>3. Conservation' /\ ReadInv' /\ RangeComplete'
  BY DEF Conservation, Hot, ReadInv, Lost, RangeComplete
<1>4. CallsInv'
  BY DEF CallsInv, AppendsAccounted, Publishing, InFlight
<1>5. UNCHANGED <<Publishing, Taken, Published, Newest>>
  BY DEF Publishing, Taken, Published, Accepted, Pending, Newest, LastN
<1> QED BY <1>1, <1>2, <1>3, <1>4, <1>5

-----------------------------------------------------------------------------
(* What an append does to what the consumer relies on: it changes nothing, *)
(* or leaves a push to be published, or has just published one.            *)
LEMMA AppendIsSeen ==
  ASSUME WInv, NEW t \in Threads, Step(t)
  PROVE  \/ UNCHANGED <<map, ring, version>> /\ (Publishing' = {} => Publishing = {})
         \/ Publishing' # {}
         \/ version' = version + 1
<1>0. pc \in [Threads -> {"idle", "lookup", "touch", "push", "publish",
                        "insert", "scan", "spill", "place", "reject"}]
  BY DEF WInv, IInv, TypeOK
<1>1. CASE PushLive(t) \/ Place(t)
  <2>1. pc' = [pc EXCEPT ![t] = "publish"]
    BY <1>1 DEF PushLive, PushInto, Place
  <2>2. t \in Publishing'
    BY <1>0, <2>1 DEF Publishing
  <2> QED BY <2>2
<1>2. CASE Publish(t)
  BY <1>2 DEF Publish
<1>3. CASE ~PushLive(t) /\ ~Place(t) /\ ~Publish(t)
  <2>1. UNCHANGED <<map, ring, version>>
    BY <1>3 DEF Step, AppendInvalid, AppendBegin, Lookup, Touch, PushEvicted,
       InsertRaceLost, InsertLock, ScanEntry, FlagVictim, LetGo, SpillOk, SpillFails,
       DropOnEvict, Reject, storeVars
  <2>2. pc' = pc \/ (pc[t] # "publish" /\ \A u \in Threads : u # t => pc'[u] = pc[u])
    BY <1>0, <1>3 DEF Step, AppendInvalid, AppendBegin, Lookup, Touch, PushEvicted, Return,
       InsertRaceLost, InsertLock, ScanEntry, FlagVictim, LetGo, SpillOk, SpillFails,
       DropOnEvict, Reject, appendVars
  <2>3. Publishing \subseteq Publishing'
    BY <2>2 DEF Publishing
  <2> QED BY <2>1, <2>3
<1> QED BY <1>1, <1>2, <1>3

LEMMA AppenderKeeps ==
  ASSUME WInv, NEW t \in Threads, Appender(t)
  PROVE  WInv'
<1>1. Step(t) /\ UNCHANGED watchVars
  BY DEF Appender
<1>2. IInv'
  BY <1>1, NextKeeps DEF WInv, Next
<1>3. /\ CallsInv'
      /\ version' + Cardinality(Publishing') + Cardinality(Taken)
           = version + Cardinality(Publishing) + Cardinality(Taken')
      /\ version <= version'
  BY <1>1, StepBalances DEF WInv
<1>4. /\ Cardinality(Publishing') \in Nat /\ Cardinality(Taken') \in Nat /\ version' \in Nat
  <2>1. Cardinality(Publishing') \in Nat
    BY <1>3, FS_CardinalityType DEF CallsInv
  <2>2. Cardinality(Taken') \in Nat
    BY <1>2, TakenFinite DEF IInv, TypeOK, Taken
  <2> QED BY <1>2, <2>1, <2>2 DEF IInv, TypeOK
<1>5. WatchTypeOK'
  <2>1. WatchTypeOK /\ UNCHANGED watchVars
    BY <1>1 DEF WInv
  <2>2. version \in Nat /\ version' \in Nat /\ version <= version'
    BY <1>3, <1>4, Sizes
  <2>3. lastSeen' \in 0 .. version'
    BY <2>1, <2>2 DEF WatchTypeOK, watchVars
  <2> QED BY <2>1, <2>3, Zenon DEF WatchTypeOK, watchVars
<1>6. SignalInv'
  <2>1. Bumping' = Bumping /\ signals' = signals
    BY <1>1 DEF Bumping, watchVars
  <2>2. version + Cardinality(Publishing) + Cardinality(Bumping) = Cardinality(Taken) + signals
    BY DEF WInv, SignalInv
  <2>3. version' + Cardinality(Publishing') + Cardinality(Bumping)
          = Cardinality(Taken') + signals
    <3>1. /\ Cardinality(Taken) \in Nat /\ Cardinality(Publishing) \in Nat
          /\ Cardinality(Bumping) \in Nat /\ version \in Nat /\ signals \in Nat
      BY Sizes
    <3> QED BY <1>3, <1>4, <2>2, <3>1
  <2> QED BY <2>1, <2>3 DEF WInv, SignalInv
<1>7. PublishedInv'
  <2>1. Published' = Cardinality(Taken') - Cardinality(Publishing')
    BY DEF Published, Accepted, Pending, Taken, Publishing
  <2>2. Published' >= Published /\ Published' \in Int /\ Published \in Int
    BY <1>3, <1>4, <2>1, Sizes
  <2> QED BY <2>2 DEF WInv, PublishedInv
<1>8. QuietInv'
  <2>1. UNCHANGED <<kpc, lastSeen, karc, view>> /\ lastSeen \in 0 .. version
    BY <1>1 DEF watchVars, WInv, WatchTypeOK
  <2>2. CASE UNCHANGED <<map, ring, version>> /\ (Publishing' = {} => Publishing = {})
    <3>1. Newest' = Newest
      BY <2>2 DEF Newest, LastN
    <3> QED BY <2>1, <2>2, <3>1 DEF WInv, QuietInv, Quiet
  <2>3. CASE Publishing' # {}
    BY <2>3 DEF QuietInv, Quiet
  <2>4. CASE version' = version + 1
    <3>1. lastSeen' # version'
      BY <2>1, <2>4, Sizes
    <3> QED BY <3>1 DEF QuietInv, Quiet
  <2> QED BY <1>1, <2>2, <2>3, <2>4, AppendIsSeen
<1> QED BY <1>2, <1>3, <1>5, <1>6, <1>7, <1>8 DEF WInv

(* signal_waiters: counted, then bumped. *)
LEMMA SignalKeeps ==
  ASSUME WInv, NEW g \in Signallers, Signal(g)
  PROVE  WInv'
<1>0. spc \in [Signallers -> {"idle", "bump"}] /\ IsFiniteSet(Bumping)
  BY DEF WInv, WatchTypeOK, SignalInv
<1>1. version + Cardinality(Publishing) + Cardinality(Bumping) = Cardinality(Taken) + signals
  BY DEF WInv, SignalInv
<1>2. Published \in Int /\ lastSeen \in 0 .. version
  BY Sizes DEF WInv, WatchTypeOK
<1>3. CASE SignalCount(g)
  <2>1. /\ UNCHANGED <<vars, consumer>> /\ signals < MaxSignals
        /\ signals' = signals + 1 /\ spc[g] = "idle" /\ spc' = [spc EXCEPT ![g] = "bump"]
    BY <1>3 DEF SignalCount
  <2>2. /\ IInv' /\ CallsInv' /\ UNCHANGED <<Publishing, Taken, Published, Newest>>
        /\ version' = version
    BY <2>1, Sizes, StoreUntouched DEF vars, storeVars
  <2>3. WatchTypeOK'
    BY <2>1, <2>2, Sizes, WatchConstants DEF WInv, WatchTypeOK, consumer
  <2>4. g \notin Bumping /\ Bumping' = Bumping \cup {g}
    BY <1>0, <2>1 DEF Bumping
  <2>5. IsFiniteSet(Bumping') /\ Cardinality(Bumping') = Cardinality(Bumping) + 1
    BY <1>0, <2>4, FS_AddElement
  <2>6. SignalInv'
    BY <1>1, <2>1, <2>2, <2>5, Sizes DEF SignalInv
  <2>7. PublishedInv'
    BY <1>2, <2>1, <2>2, Sizes DEF WInv, PublishedInv
  <2>8. QuietInv'
    BY <2>1, <2>2 DEF WInv, QuietInv, Quiet, consumer, vars, storeVars
  <2> QED BY <2>2, <2>3, <2>6, <2>7, <2>8 DEF WInv
<1>4. CASE SignalWake(g)
  <2>1. /\ UNCHANGED <<map, wlock, ring, lastAccess, removed, clock, stats, cold, appendVars,
                       readVars, dataDir, ghostVars, signals, consumer>>
        /\ version' = version + 1 /\ spc[g] = "bump" /\ spc' = [spc EXCEPT ![g] = "idle"]
    BY <1>4 DEF SignalWake
  <2>2. IInv' /\ CallsInv' /\ UNCHANGED <<Publishing, Taken, Published, Newest>>
    BY <2>1, Sizes, StoreUntouched
  <2>3. WatchTypeOK'
    BY <2>1, Sizes DEF WInv, WatchTypeOK, consumer
  <2>4. g \in Bumping /\ Bumping' = Bumping \ {g}
    BY <1>0, <2>1 DEF Bumping
  <2>5. IsFiniteSet(Bumping') /\ Cardinality(Bumping') = Cardinality(Bumping) - 1
    BY <1>0, <2>4, FS_RemoveElement
  <2>6. SignalInv'
    BY <1>1, <2>1, <2>2, <2>5, Sizes DEF SignalInv
  <2>7. PublishedInv'
    BY <2>1, <2>2 DEF WInv, PublishedInv
  <2>8. lastSeen' # version'
    BY <1>2, <2>1, Sizes DEF consumer
  <2>9. QuietInv'
    BY <2>8 DEF QuietInv, Quiet
  <2> QED BY <2>2, <2>3, <2>6, <2>7, <2>9 DEF WInv
<1> QED BY <1>3, <1>4 DEF Signal

(* The consumer: the version before the map, the map before the ring. *)
LEMMA ConsumeKeeps ==
  ASSUME WInv, Consume
  PROVE  WInv'
<1>1. UNCHANGED <<vars, signals, spc>>
  BY DEF Consume, Wake, WatchLookup, WatchRead
<1>2. /\ IInv' /\ CallsInv' /\ UNCHANGED <<Publishing, Taken, Published, Newest>>
      /\ version' = version /\ map' = map
  BY <1>1, Sizes, StoreUntouched DEF vars, storeVars
<1>3. SignalInv'
  BY <1>1, <1>2 DEF WInv, SignalInv, Bumping
<1>4. PublishedInv'
  BY <1>1, <1>2 DEF WInv, PublishedInv
<1>5. WatchTypeOK' /\ QuietInv'
  <2>0. Watched \in Symbols /\ map[Watched] \in Candles \cup {NoEntry}
    BY WatchConstants DEF WInv, IInv, TypeOK
  <2>1. CASE Wake
    <3>1. /\ kpc' = "lookup" /\ lastSeen' = version /\ UNCHANGED <<karc, view>>
      BY <2>1 DEF Wake
    <3>2. WatchTypeOK'
      BY <1>1, <1>2, <3>1, Sizes DEF WInv, WatchTypeOK
    <3> QED BY <3>1, <3>2 DEF QuietInv
  <2>2. CASE WatchLookup
    <3>1. /\ kpc' = "read" /\ karc' = map[Watched] /\ UNCHANGED <<lastSeen, view>>
      BY <2>2 DEF WatchLookup
    <3>2. WatchTypeOK'
      BY <1>1, <1>2, <2>0, <3>1 DEF WInv, WatchTypeOK
    <3> QED BY <1>2, <3>1, <3>2 DEF QuietInv
  <2>3. CASE WatchRead
    <3>1. /\ kpc = "read" /\ kpc' = "wait" /\ karc' = NoEntry /\ lastSeen' = lastSeen
          /\ view' = IF karc = NoEntry THEN <<>> ELSE LastN(ring[karc])
      BY <2>3 DEF WatchRead
    <3>2. view' \in Seq(Candles)
      <4>1. karc # NoEntry => ring[karc] \in Seq(Candles)
        BY DEF WInv, WatchTypeOK, IInv, TypeOK
      <4> QED BY <3>1, <4>1, LastNType
    <3>3. WatchTypeOK'
      BY <1>1, <1>2, <3>1, <3>2 DEF WInv, WatchTypeOK
    <3>4. Quiet' => view' = Newest
      BY <1>2, <3>1 DEF WInv, QuietInv, Quiet, Newest
    <3> QED BY <1>2, <3>1, <3>3, <3>4 DEF QuietInv
  <2> QED BY <2>1, <2>2, <2>3 DEF Consume
<1> QED BY <1>2, <1>3, <1>4, <1>5 DEF WInv

LEMMA WatchStutter ==
  ASSUME WInv, UNCHANGED allVars
  PROVE  WInv'
<1>1. UNCHANGED vars /\ UNCHANGED watchVars
  BY DEF allVars
<1>2. /\ IInv' /\ CallsInv' /\ UNCHANGED <<Publishing, Taken, Published, Newest>>
      /\ version' = version /\ map' = map
  BY <1>1, Sizes, StoreUntouched DEF vars, storeVars
<1> QED BY <1>1, <1>2 DEF WInv, WatchTypeOK, SignalInv, Bumping, PublishedInv, QuietInv, Quiet,
           watchVars

LEMMA WatchInitWInv == WatchInit => WInv
<1> SUFFICES ASSUME WatchInit PROVE WInv
  OBVIOUS
<1>1. IInv /\ CallsInv
  BY InitIInv, InitCounts DEF WatchInit
<1>2. version = 0 /\ map = [s \in Symbols |-> NoEntry]
  BY DEF WatchInit, Init
<1>3. Publishing = {} /\ Taken = {} /\ Bumping = {}
  BY DEF WatchInit, Init, Publishing, Taken, Bumping
<1>4. /\ IsFiniteSet(Bumping) /\ Cardinality(Bumping) = 0
      /\ Cardinality(Publishing) = 0 /\ Cardinality(Taken) = 0
  BY <1>3, FS_EmptySet
<1>5. SignalInv
  BY <1>2, <1>4 DEF WatchInit, SignalInv
<1>6. PublishedInv
  <2>1. Published = 0
    BY <1>4 DEF Published, Accepted, Pending, Taken, Publishing
  <2> QED BY <2>1 DEF WatchInit, PublishedInv
<1>7. QuietInv
  BY <1>2, WatchConstants DEF WatchInit, QuietInv, Newest
<1>8. WatchTypeOK
  BY <1>2, WatchConstants DEF WatchInit, WatchTypeOK
<1> QED BY <1>1, <1>5, <1>6, <1>7, <1>8 DEF WInv

-----------------------------------------------------------------------------
(* The inductive invariant holds of every behaviour of the store with its  *)
(* consumer and its signallers.                                            *)
THEOREM WatchInvariant == WatchSpec => []WInv
<1>1. WInv /\ [WatchNext]_allVars => WInv'
  BY AppenderKeeps, SignalKeeps, ConsumeKeeps, WatchStutter
     DEF WatchNext, WatchQuiescent, Quiescent, allVars
<1> QED BY <1>1, WatchInitWInv, PTL DEF WatchSpec

(* wait_for_change misses no wake-up, whatever is appended, evicted or     *)
(* signalled between its load of the version and the copy of last_n; and   *)
(* snapshot, whose two Relaxed loads come in any order and as old as they  *)
(* may be, counts a signal as an append only if it missed its count.       *)
THEOREM WatchSafe == WatchSpec => []WatchInv
<1>1. WInv => WatchInv
  <2> SUFFICES ASSUME WInv PROVE WatchInv
    OBVIOUS
  <2>1. Pending = 0 => Publishing = {}
    BY FS_EmptySet DEF WInv, CallsInv, Pending, Publishing
  <2>2. NoMissedWake
    BY <2>1 DEF WInv, QuietInv, Quiet, NoMissedWake
  <2>3. version <= Published + signals /\ Published \in Nat
    BY Sizes DEF WInv, SignalInv, PublishedInv
  <2>4. ASSUME NEW v \in 0 .. version, NEW g \in 0 .. signals
        PROVE  Saturate(v, g) <= Published + (signals - g)
    <3>1. v \in Nat /\ g \in Nat /\ v <= version /\ g <= signals
      BY Sizes
    <3>2. CASE v >= g
      BY <2>3, <3>1, <3>2, Sizes DEF Saturate
    <3>3. CASE ~(v >= g)
      BY <2>3, <3>1, <3>3, Sizes DEF Saturate
    <3> QED BY <3>2, <3>3
  <2>5. SnapshotBounded
    BY <2>4 DEF SnapshotBounded, Snapshots
  <2> QED BY <2>2, <2>5 DEF WInv, WatchInv
<1> QED BY <1>1, WatchInvariant, PTL

(* The store under the consumer and the signallers is still                *)
(* the store: what is proved of its candles holds with them around it.     *)
THEOREM WatchStoreConserves == WatchSpec => [](Conservation /\ NoPoison)
<1>1. WInv => Conservation /\ NoPoison
  BY DEF WInv, IInv
<1> QED BY <1>1, WatchInvariant, PTL
=============================================================================
