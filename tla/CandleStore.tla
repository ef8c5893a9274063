---------------------------- MODULE CandleStore ----------------------------
(***************************************************************************)
(* The hot/cold candle store of src/store.rs: appender threads running     *)
(* append -> try_append -> push_and_publish / try_insert_new step by step, *)
(* and reader threads running range, over the outer map lock, the          *)
(* per-entry buf lock, the `removed` flag and the racy `last_access`.      *)
(*                                                                         *)
(* Granularity.  A critical section that no other thread can observe half  *)
(* done is one step: a map read lock (lookup and Arc clone), a buf lock    *)
(* (check `removed` and push; flag and to_vec; range).  The outer write    *)
(* lock is held across several steps, because appenders that cloned the    *)
(* Arc earlier and readers of the cold directory run meanwhile.            *)
(*                                                                         *)
(* Data.  A candle is the tick its append drew from the store's clock; the *)
(* same number stands for its timestamp, so appends of one symbol that     *)
(* overtake each other push out of order.  An Entry is named by the tick   *)
(* of the append that inserted it.  A cold file is the set of its candles; *)
(* a file left half written by a failed spill is unreadable, query_cold    *)
(* skips it, and it is no part of the state.                               *)
(***************************************************************************)
EXTENDS Integers, Sequences, FiniteSets, Functions

CONSTANTS Symbols,      \* symbols the callers append to
          Threads,      \* threads that call append
          Readers,      \* threads that call range
          NoThread,     \* "the outer write lock is free"
          NoSymbol,     \* "no eviction victim"
          MaxSymbols,   \* max_symbols
          RingCapacity, \* ring_capacity
          DataDirs,     \* what data_dir.is_some() may be
          MaxAppends,   \* bound: valid appends in a behaviour
          MaxInvalid    \* bound: invalid candles in a behaviour

ASSUME StoreConstants ==
  /\ NoThread \notin Threads
  /\ NoSymbol \notin Symbols
  /\ MaxSymbols \in Nat
  /\ RingCapacity \in Nat \ {0}
  /\ DataDirs \subseteq BOOLEAN
  /\ MaxAppends \in Nat
  /\ MaxInvalid \in Nat

Candles == 0 .. (MaxAppends - 1)   \* also the names of entries
NoEntry == -1                      \* the key is not in the map

(* The lifetime counters of StoreSnapshot other than appends_total; bytes  *)
(* spilled are counted in candles.                                         *)
Stats == [evictions : Nat, spilled : Nat, spillErrors : Nat,
          rejected : Nat, invalid : Nat, outOfOrder : Nat]

VARIABLES
  dataDir,     \* data_dir.is_some(), fixed when the store is built
  map,         \* symbol -> entry: the HashMap<String, Arc<Entry>>
  wlock,       \* holder of the map's write lock
  ring,        \* entry -> candles of Entry::buf, oldest first
  lastAccess,  \* entry -> Entry::last_access
  removed,     \* entry -> Entry::removed
  clock,       \* CandleStore::tick
  version,     \* CandleStore::version
  stats,       \* the lifetime counters behind snapshot()
  cold,        \* symbol -> candles readable from its Parquet files
  pc, sym, tick, arc,        \* each appender's place and locals
  left, victim, low, snap,   \* locals of the holder of the write lock
  rpc, rsym, rarc, rhot,     \* each reader's place and locals
  accepted,    \* history: symbol -> candles pushed into a ring of the symbol
  overwritten, \* history: candles a full ring replaced by a newer one
  dropped,     \* history: candles evicted with no data_dir
  rdue,        \* history: candles accepted before the reader's call
  rres         \* what the reader's last call returned

storeVars  == <<dataDir, map, wlock, ring, lastAccess, removed, clock, version,
                stats, cold>>
appendVars == <<pc, sym, tick, arc, left, victim, low, snap>>
readVars   == <<rpc, rsym, rarc, rhot, rdue, rres>>
ghostVars  == <<accepted, overwritten, dropped>>
vars       == <<storeVars, appendVars, readVars, ghostVars>>

-----------------------------------------------------------------------------
(* RingBuffer::push on the logical contents: a full ring loses its oldest. *)
FullLate(r)       == Len(r) > RingCapacity    \* mutation: off by one
Full(r)           == Len(r) >= RingCapacity
RingPush(r, c)    == Append(IF Full(r) THEN Tail(r) ELSE r, c)
Overwrites(r)     == IF Full(r) THEN {Head(r)} ELSE {}
OutOfOrder(r, c)  == r # <<>> /\ c < r[Len(r)]

Live              == {s \in Symbols : map[s] # NoEntry}
Hot(s)            == IF map[s] = NoEntry THEN {} ELSE Range(ring[map[s]])
AtCapacity        == Cardinality(Live) >= MaxSymbols

Init ==
  /\ dataDir \in DataDirs
  /\ map = [s \in Symbols |-> NoEntry]
  /\ wlock = NoThread
  /\ ring = [e \in Candles |-> <<>>]
  /\ lastAccess = [e \in Candles |-> 0]
  /\ removed = [e \in Candles |-> FALSE]
  /\ clock = 0
  /\ version = 0
  /\ stats = [evictions |-> 0, spilled |-> 0, spillErrors |-> 0,
              rejected |-> 0, invalid |-> 0, outOfOrder |-> 0]
  /\ cold = [s \in Symbols |-> {}]
  /\ pc = [t \in Threads |-> "idle"]
  /\ sym = [t \in Threads |-> NoSymbol]
  /\ tick = [t \in Threads |-> 0]
  /\ arc = [t \in Threads |-> NoEntry]
  /\ left = {} /\ victim = NoSymbol /\ low = 0 /\ snap = <<>>
  /\ rpc = [r \in Readers |-> "idle"]
  /\ rsym = [r \in Readers |-> NoSymbol]
  /\ rarc = [r \in Readers |-> NoEntry]
  /\ rhot = [r \in Readers |-> {}]
  /\ rdue = [r \in Readers |-> {}]
  /\ rres = [r \in Readers |-> {}]
  /\ accepted = [s \in Symbols |-> {}]
  /\ overwritten = {} /\ dropped = {}

-----------------------------------------------------------------------------
(* A call returns: its locals go out of scope. *)
Return(t) ==
  /\ pc' = [pc EXCEPT ![t] = "idle"]
  /\ sym' = [sym EXCEPT ![t] = NoSymbol]
  /\ tick' = [tick EXCEPT ![t] = 0]
  /\ arc' = [arc EXCEPT ![t] = NoEntry]

(* The guard of the map's write lock is dropped, and the scan's locals. *)
Unlock ==
  /\ wlock' = NoThread
  /\ left' = {} /\ victim' = NoSymbol /\ low' = 0 /\ snap' = <<>>

(* try_append up to the map lookup: an invalid candle is counted and       *)
(* returned to the caller; a valid one draws its tick.                     *)
AppendInvalid(t) ==
  /\ pc[t] = "idle" /\ stats.invalid < MaxInvalid
  /\ stats' = [stats EXCEPT !.invalid = @ + 1]
  /\ UNCHANGED <<map, wlock, ring, lastAccess, removed, clock, version, cold,
                 appendVars, readVars, dataDir, ghostVars>>

AppendBegin(t, s) ==
  /\ pc[t] = "idle" /\ clock < MaxAppends
  /\ clock' = clock + 1
  /\ tick' = [tick EXCEPT ![t] = clock]
  /\ sym' = [sym EXCEPT ![t] = s]
  /\ pc' = [pc EXCEPT ![t] = "lookup"]
  /\ UNCHANGED <<map, wlock, ring, lastAccess, removed, version, stats, cold,
                 arc, left, victim, low, snap, readVars, dataDir, ghostVars>>

(* Clone the Arc under the map's read lock. *)
Lookup(t) ==
  /\ pc[t] = "lookup" /\ wlock = NoThread
  /\ arc' = [arc EXCEPT ![t] = map[sym[t]]]
  /\ pc' = [pc EXCEPT ![t] = IF map[sym[t]] = NoEntry THEN "insert" ELSE "touch"]
  /\ UNCHANGED <<storeVars, sym, tick, left, victim, low, snap, readVars, ghostVars>>

(* last_access.store(tick): no lock is held, so a slow thread may move the *)
(* entry's stamp backwards.                                                *)
Touch(t) ==
  /\ pc[t] = "touch"
  /\ lastAccess' = [lastAccess EXCEPT ![arc[t]] = tick[t]]
  /\ pc' = [pc EXCEPT ![t] = "push"]
  /\ UNCHANGED <<map, wlock, ring, removed, clock, version, stats, cold,
                 sym, tick, arc, left, victim, low, snap, readVars, dataDir, ghostVars>>

(* push_and_publish under the buf write lock, on an entry still live ...   *)
PushInto(t) ==
  LET e == arc[t]
      c == tick[t]
  IN  /\ ring' = [ring EXCEPT ![e] = RingPush(@, c)]
      /\ stats' = IF OutOfOrder(ring[e], c)
                    THEN [stats EXCEPT !.outOfOrder = @ + 1] ELSE stats
      /\ accepted' = [accepted EXCEPT ![sym[t]] = @ \cup {c}]
      /\ overwritten' = overwritten \cup Overwrites(ring[e])
      /\ pc' = [pc EXCEPT ![t] = "publish"]
      /\ UNCHANGED <<map, wlock, lastAccess, removed, clock, version, cold,
                     sym, tick, arc, left, victim, low, snap, readVars, dataDir, dropped>>

PushUnchecked(t) == pc[t] = "push" /\ PushInto(t)   \* mutation: no second look
PushLive(t) == pc[t] = "push" /\ ~removed[arc[t]] /\ PushInto(t)

(* Mutation: the caller of a refused push reports success. *)
PushEvictedOk(t) ==
  /\ pc[t] = "push" /\ removed[arc[t]]
  /\ pc' = [pc EXCEPT ![t] = "publish"]
  /\ UNCHANGED <<storeVars, sym, tick, arc, left, victim, low, snap, readVars, ghostVars>>

(* ... and on one evicted since the Arc was cloned: retry by the slow path. *)
PushEvicted(t) ==
  /\ pc[t] = "push" /\ removed[arc[t]]
  /\ arc' = [arc EXCEPT ![t] = NoEntry]
  /\ pc' = [pc EXCEPT ![t] = "insert"]
  /\ UNCHANGED <<storeVars, sym, tick, left, victim, low, snap, readVars, ghostVars>>

Publish(t) ==
  /\ pc[t] = "publish"
  /\ version' = version + 1
  /\ Return(t)
  /\ UNCHANGED <<map, wlock, ring, lastAccess, removed, clock, stats, cold,
                 left, victim, low, snap, readVars, dataDir, ghostVars>>

-----------------------------------------------------------------------------
(* try_insert_new once the map's write lock is granted.  Another thread    *)
(* inserted the symbol first: drop the lock and push into its entry.       *)
InsertRaceLost(t) ==
  /\ pc[t] = "insert" /\ wlock = NoThread /\ map[sym[t]] # NoEntry
  /\ arc' = [arc EXCEPT ![t] = map[sym[t]]]
  /\ pc' = [pc EXCEPT ![t] = "touch"]
  /\ UNCHANGED <<storeVars, sym, tick, left, victim, low, snap, readVars, ghostVars>>

(* Keep the lock; at max_symbols look for a victim (an empty map has none). *)
InsertLock(t) ==
  LET evict == AtCapacity /\ Live # {}
  IN  /\ pc[t] = "insert" /\ wlock = NoThread /\ map[sym[t]] = NoEntry
      /\ wlock' = t
      /\ left' = IF evict THEN Live ELSE {}
      /\ victim' = NoSymbol
      /\ pc' = [pc EXCEPT ![t] = IF evict THEN "scan" ELSE "place"]
      /\ UNCHANGED <<map, ring, lastAccess, removed, clock, version, stats, cold,
                     sym, tick, arc, low, snap, readVars, dataDir, ghostVars>>

(* min_by_key visits the map in the HashMap's order and loads each stamp   *)
(* as it goes, while other threads store theirs.                           *)
ScanEntry(t, s) ==
  LET key    == lastAccess[map[s]]
      better == victim = NoSymbol \/ key < low
  IN  /\ pc[t] = "scan" /\ s \in left
      /\ left' = left \ {s}
      /\ victim' = IF better THEN s ELSE victim
      /\ low' = IF better THEN key ELSE low
      /\ UNCHANGED <<storeVars, pc, sym, tick, arc, snap, readVars, ghostVars>>

(* Mutation: the copy is taken with the flag still down. *)
CopyUnflagged(t) ==
  /\ pc[t] = "scan" /\ left = {}
  /\ snap' = ring[map[victim]]
  /\ pc' = [pc EXCEPT ![t] = "spill"]
  /\ UNCHANGED <<storeVars, sym, tick, arc, left, victim, low, readVars, ghostVars>>

(* Flag the victim and copy its ring under one buf write lock. *)
FlagVictim(t) ==
  /\ pc[t] = "scan" /\ left = {}
  /\ removed' = [removed EXCEPT ![map[victim]] = TRUE]
  /\ snap' = ring[map[victim]]
  /\ pc' = [pc EXCEPT ![t] = "spill"]
  /\ UNCHANGED <<map, wlock, ring, lastAccess, clock, version, stats, cold,
                 sym, tick, arc, left, victim, low, readVars, dataDir, ghostVars>>

SpillOk(t) ==
  /\ pc[t] = "spill" /\ dataDir
  /\ cold' = [cold EXCEPT ![victim] = @ \cup Range(snap)]
  /\ stats' = [stats EXCEPT !.spilled = @ + Len(snap)]
  /\ pc' = [pc EXCEPT ![t] = "place"]
  /\ UNCHANGED <<map, wlock, ring, lastAccess, removed, clock, version,
                 sym, tick, arc, left, victim, low, snap, readVars, dataDir, ghostVars>>

(* Mutation: the entry kept after a failed spill stays flagged. *)
SpillFailsFlagged(t) ==
  /\ pc[t] = "spill" /\ dataDir /\ snap # <<>>
  /\ stats' = [stats EXCEPT !.spillErrors = @ + 1]
  /\ Unlock
  /\ pc' = [pc EXCEPT ![t] = "reject"]
  /\ UNCHANGED <<map, ring, lastAccess, removed, clock, version, cold, sym, tick, arc,
                 readVars, dataDir, ghostVars>>

(* The spill fails: unflag the entry, keep it, drop the lock, return Err. *)
SpillFails(t) ==
  /\ pc[t] = "spill" /\ dataDir /\ snap # <<>>
  /\ removed' = [removed EXCEPT ![map[victim]] = FALSE]
  /\ stats' = [stats EXCEPT !.spillErrors = @ + 1]
  /\ Unlock
  /\ pc' = [pc EXCEPT ![t] = "reject"]
  /\ UNCHANGED <<map, ring, lastAccess, clock, version, cold, sym, tick, arc,
                 readVars, dataDir, ghostVars>>

(* No data_dir: the victim's candles are dropped, by the user's policy. *)
DropOnEvict(t) ==
  /\ pc[t] = "spill" /\ ~dataDir
  /\ dropped' = dropped \cup Range(snap)
  /\ pc' = [pc EXCEPT ![t] = "place"]
  /\ UNCHANGED <<storeVars, sym, tick, arc, left, victim, low, snap, readVars,
                 accepted, overwritten>>

LetGo(t) == IF dataDir THEN SpillOk(t) ELSE DropOnEvict(t)

(* Remove the victim, insert the new entry, drop the lock. *)
Place(t) ==
  LET e == tick[t]
      without == IF victim = NoSymbol THEN map ELSE [map EXCEPT ![victim] = NoEntry]
  IN  /\ pc[t] = "place"
      /\ map' = [without EXCEPT ![sym[t]] = e]
      /\ ring' = [ring EXCEPT ![e] = <<e>>]
      /\ lastAccess' = [lastAccess EXCEPT ![e] = e]
      /\ removed' = [removed EXCEPT ![e] = FALSE]
      /\ stats' = IF victim = NoSymbol THEN stats
                    ELSE [stats EXCEPT !.evictions = @ + 1]
      /\ Unlock
      /\ accepted' = [accepted EXCEPT ![sym[t]] = @ \cup {e}]
      /\ pc' = [pc EXCEPT ![t] = "publish"]
      /\ UNCHANGED <<clock, version, cold, sym, tick, arc, readVars, dataDir,
                     overwritten, dropped>>

(* append() counts the EvictionSpillFailed it got from try_append. *)
Reject(t) ==
  /\ pc[t] = "reject"
  /\ stats' = [stats EXCEPT !.rejected = @ + 1]
  /\ Return(t)
  /\ UNCHANGED <<map, wlock, ring, lastAccess, removed, clock, version, cold,
                 left, victim, low, snap, readVars, dataDir, ghostVars>>

-----------------------------------------------------------------------------
(* range over the whole window: clone the Arc, copy the hot part, then read *)
(* the cold directory with no lock held, and merge.                        *)
RangeBegin(r, s) ==
  /\ rpc[r] = "idle"
  /\ rsym' = [rsym EXCEPT ![r] = s]
  /\ rdue' = [rdue EXCEPT ![r] = accepted[s]]
  /\ rpc' = [rpc EXCEPT ![r] = "lookup"]
  /\ UNCHANGED <<storeVars, appendVars, ghostVars, rarc, rhot, rres>>

RangeLookup(r) ==
  /\ rpc[r] = "lookup" /\ wlock = NoThread
  /\ rarc' = [rarc EXCEPT ![r] = map[rsym[r]]]
  /\ rpc' = [rpc EXCEPT ![r] = "hot"]
  /\ UNCHANGED <<storeVars, appendVars, ghostVars, rsym, rhot, rdue, rres>>

(* Mutation: a flagged entry is read as an empty one. *)
RangeHotUnflagged(r) ==
  /\ rpc[r] = "hot"
  /\ rhot' = [rhot EXCEPT ![r] = IF rarc[r] = NoEntry \/ removed[rarc[r]]
                                  THEN {} ELSE Range(ring[rarc[r]])]
  /\ rpc' = [rpc EXCEPT ![r] = "cold"]
  /\ UNCHANGED <<storeVars, appendVars, ghostVars, rsym, rarc, rdue, rres>>

RangeHot(r) ==
  /\ rpc[r] = "hot"
  /\ rhot' = [rhot EXCEPT ![r] =
                IF rarc[r] = NoEntry THEN {} ELSE Range(ring[rarc[r]])]
  /\ rpc' = [rpc EXCEPT ![r] = "cold"]
  /\ UNCHANGED <<storeVars, appendVars, ghostVars, rsym, rarc, rdue, rres>>

RangeCold(r) ==
  /\ rpc[r] = "cold"
  /\ rres' = [rres EXCEPT ![r] =
                IF dataDir THEN rhot[r] \cup cold[rsym[r]] ELSE rhot[r]]
  /\ rpc' = [rpc EXCEPT ![r] = "done"]
  /\ UNCHANGED <<storeVars, appendVars, ghostVars, rsym, rarc, rhot, rdue>>

RangeReturn(r) ==
  /\ rpc[r] = "done"
  /\ rpc' = [rpc EXCEPT ![r] = "idle"]
  /\ rsym' = [rsym EXCEPT ![r] = NoSymbol]
  /\ rarc' = [rarc EXCEPT ![r] = NoEntry]
  /\ rhot' = [rhot EXCEPT ![r] = {}]
  /\ rdue' = [rdue EXCEPT ![r] = {}]
  /\ rres' = [rres EXCEPT ![r] = {}]
  /\ UNCHANGED <<storeVars, appendVars, ghostVars>>

-----------------------------------------------------------------------------
Step(t) ==
  \/ AppendInvalid(t) \/ \E s \in Symbols : AppendBegin(t, s)
  \/ Lookup(t) \/ Touch(t) \/ PushLive(t) \/ PushEvicted(t) \/ Publish(t)
  \/ InsertRaceLost(t) \/ InsertLock(t) \/ \E s \in Symbols : ScanEntry(t, s)
  \/ FlagVictim(t) \/ LetGo(t) \/ SpillFails(t)
  \/ Place(t) \/ Reject(t)

Read(r) ==
  \/ \E s \in Symbols : RangeBegin(r, s)
  \/ RangeLookup(r) \/ RangeHot(r) \/ RangeCold(r) \/ RangeReturn(r)

(* Every call has returned and the bounded supply of candles is used up. *)
Quiescent ==
  /\ \A t \in Threads : pc[t] = "idle"
  /\ clock = MaxAppends /\ stats.invalid = MaxInvalid
  /\ UNCHANGED vars

Next == (\E t \in Threads : Step(t)) \/ (\E r \in Readers : Read(r)) \/ Quiescent

Spec == Init /\ [][Next]_vars

-----------------------------------------------------------------------------
(* The type of every variable; no ring outgrows ring_capacity.             *)
TypeOK ==
  /\ dataDir \in BOOLEAN
  /\ map \in [Symbols -> Candles \cup {NoEntry}]
  /\ wlock \in Threads \cup {NoThread}
  /\ ring \in [Candles -> Seq(Candles)]
  /\ \A e \in Candles : Len(ring[e]) <= RingCapacity
  /\ lastAccess \in [Candles -> Nat]
  /\ removed \in [Candles -> BOOLEAN]
  /\ clock \in 0 .. MaxAppends
  /\ version \in Nat
  /\ stats \in Stats
  /\ cold \in [Symbols -> SUBSET Candles]
  /\ pc \in [Threads -> {"idle", "lookup", "touch", "push", "publish",
                        "insert", "scan", "spill", "place", "reject"}]
  /\ sym \in [Threads -> Symbols \cup {NoSymbol}]
  /\ tick \in [Threads -> Nat]
  /\ arc \in [Threads -> Candles \cup {NoEntry}]
  /\ left \in SUBSET Symbols
  /\ victim \in Symbols \cup {NoSymbol}
  /\ low \in Nat
  /\ snap \in Seq(Candles)
  /\ rpc \in [Readers -> {"idle", "lookup", "hot", "cold", "done"}]
  /\ rsym \in [Readers -> Symbols \cup {NoSymbol}]
  /\ rarc \in [Readers -> Candles \cup {NoEntry}]
  /\ rhot \in [Readers -> SUBSET Candles]
  /\ rdue \in [Readers -> SUBSET Candles]
  /\ rres \in [Readers -> SUBSET Candles]
  /\ accepted \in [Symbols -> SUBSET Candles]
  /\ overwritten \in SUBSET Candles
  /\ dropped \in SUBSET Candles

(* Every candle a push_and_publish or an insert accepted is still in the   *)
(* symbol's live ring or in its Parquet files, unless its own full ring    *)
(* replaced it or it was evicted with no data_dir: no order of appends,    *)
(* evictions and failed spills loses one (the conservation that            *)
(* appends_landing_during_spill_window_are_spilled_or_kept samples).       *)
Conservation ==
  \A s \in Symbols : accepted[s] \subseteq Hot(s) \cup cold[s] \cup overwritten \cup dropped

(* A flagged entry is in the map only while the eviction that flagged it   *)
(* is under way: a failed spill leaves no live entry that sends every      *)
(* appender of the symbol round the retry for ever.                        *)
NoPoison ==
  \A s \in Live : removed[map[s]] =>
    \E t \in Threads : wlock = t /\ pc[t] \in {"spill", "place"} /\ victim = s

(* range returns every candle accepted before it was called and not lost   *)
(* by policy, whatever eviction ran between its hot and its cold read, and *)
(* never a candle of another symbol.                                       *)
RangeComplete ==
  \A r \in Readers : rpc[r] = "done" =>
    /\ rdue[r] \subseteq rres[r] \cup overwritten \cup dropped
    /\ rres[r] \subseteq accepted[rsym[r]]

(* The symbol table never outgrows max_symbols (a store built with         *)
(* max_symbols = 0 still holds one symbol: an empty map has no victim).    *)
MapBounded == Cardinality(Live) <= IF MaxSymbols = 0 THEN 1 ELSE MaxSymbols

(* version counts accepted appends: each one is published exactly once, by *)
(* the thread that pushed it, after the push; a retry publishes nothing.   *)
VersionCounts ==
  version + Cardinality({t \in Threads : pc[t] = "publish"})
    = Cardinality(UNION {accepted[s] : s \in Symbols})

(* No append vanishes: every tick drawn is an accepted candle, a rejection *)
(* counted in appends_rejected_total, or a call still running.             *)
AppendsAccounted ==
  clock = Cardinality(UNION {accepted[s] : s \in Symbols}) + stats.rejected
          + Cardinality({t \in Threads : pc[t] \notin {"idle", "publish"}})

(* The store's own counts stay true through races, retries and rejections: *)
(* the size of the symbol table, the version, and what became of every     *)
(* append.                                                                 *)
CountsRight == MapBounded /\ VersionCounts /\ AppendsAccounted

(* Once an eviction has taken an entry out of the map, its ring never      *)
(* changes again: an appender still holding the Arc writes nothing there.  *)
FrozenStep ==
  \A e \in Candles :
    ring[e] # <<>> /\ (\A s \in Symbols : map[s] # e) => ring'[e] = ring[e]
EvictedFrozen == [][FrozenStep]_vars

(* No append spins for nothing: it returns, or evictions are attempted,    *)
(* and complete or fail, for ever.  Each retry after an eviction race      *)
(* (try_insert_new calls itself) is paid for by an eviction, and an entry  *)
(* kept after a failed spill takes appends again.  The retries have no     *)
(* bound of their own: only the evictions of the other threads bound them. *)
Attempts == stats.evictions + stats.spillErrors
AppendReturns ==
  \A t \in Threads :
    []<>(pc[t] = "idle") \/ []<><<Attempts' # Attempts>>_vars
=============================================================================
