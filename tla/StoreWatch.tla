----------------------------- MODULE StoreWatch -----------------------------
(***************************************************************************)
(* The change counter of src/store.rs as its users see it: a consumer that *)
(* loops on wait_for_change and last_n (the strategy thread of             *)
(* market_hub.rs), callers of signal_waiters that bump the same counter    *)
(* without appending, and a poller whose snapshot subtracts the signals    *)
(* back out.  All of it runs against the appenders of CandleStore.         *)
(*                                                                         *)
(* Memory.  wait_for_change loads version with Acquire and every bump is a *)
(* Release, so what was pushed before a bump is seen after it.  snapshot   *)
(* changes nothing and loads version and signals with Relaxed: nothing     *)
(* orders the two loads and each may yield any value its counter has had,  *)
(* so its answers are given as a set, whatever the race with the bumps.    *)
(***************************************************************************)
EXTENDS CandleStore

CONSTANTS Watched,     \* the symbol the consumer follows
          Window,      \* the n of its last_n
          Signallers,  \* threads that call signal_waiters
          MaxSignals   \* bound: signal_waiters calls in a behaviour

ASSUME WatchConstants ==
  /\ Watched \in Symbols
  /\ Window \in Nat \ {0}
  /\ MaxSignals \in Nat

VARIABLES
  signals,          \* CandleStore::signals
  spc,              \* each signaller's place in signal_waiters
  kpc, lastSeen,    \* the consumer's place and its last_seen
  karc, view        \* the Arc its last_n cloned and the candles it returned

watchVars == <<signals, spc, kpc, lastSeen, karc, view>>
consumer  == <<kpc, lastSeen, karc, view>>
allVars   == <<vars, watchVars>>

LastN(r)  == IF Len(r) <= Window THEN r ELSE SubSeq(r, Len(r) - Window + 1, Len(r))
Newest    == IF map[Watched] = NoEntry THEN <<>> ELSE LastN(ring[map[Watched]])
Accepted  == Cardinality(UNION {accepted[s] : s \in Symbols})
Pending   == Cardinality({t \in Threads : pc[t] = "publish"})
Published == Accepted - Pending
Saturate(a, b) == IF a >= b THEN a - b ELSE 0

WatchInit ==
  /\ Init
  /\ signals = 0 /\ spc = [g \in Signallers |-> "idle"]
  /\ kpc = "wait" /\ lastSeen = 0 /\ karc = NoEntry /\ view = <<>>

-----------------------------------------------------------------------------
(* Mutation: the wake-up is not counted. *)
SignalUncounted(g) ==
  /\ spc[g] = "idle" /\ signals < MaxSignals
  /\ spc' = [spc EXCEPT ![g] = "bump"]
  /\ UNCHANGED <<vars, signals, consumer>>

(* signal_waiters counts itself first, then bumps version. *)
SignalCount(g) ==
  /\ spc[g] = "idle" /\ signals < MaxSignals
  /\ signals' = signals + 1
  /\ spc' = [spc EXCEPT ![g] = "bump"]
  /\ UNCHANGED <<vars, consumer>>

SignalWake(g) ==
  /\ spc[g] = "bump"
  /\ version' = version + 1
  /\ spc' = [spc EXCEPT ![g] = "idle"]
  /\ UNCHANGED <<map, wlock, ring, lastAccess, removed, clock, stats, cold, appendVars,
                 readVars, dataDir, ghostVars, signals, consumer>>

-----------------------------------------------------------------------------
NewerByTwo(v) == v > lastSeen + 1   \* mutation: off by one
Changed(v)    == v # lastSeen

(* wait_for_change returns the version it saw ... *)
Wake ==
  /\ kpc = "wait" /\ Changed(version)
  /\ lastSeen' = version
  /\ kpc' = "lookup"
  /\ UNCHANGED <<vars, signals, spc, karc, view>>

(* ... and last_n clones the Arc, then copies under the buf lock. *)
WatchLookup ==
  /\ kpc = "lookup" /\ wlock = NoThread
  /\ karc' = map[Watched]
  /\ kpc' = "read"
  /\ UNCHANGED <<vars, signals, spc, lastSeen, view>>

WatchRead ==
  /\ kpc = "read"
  /\ view' = IF karc = NoEntry THEN <<>> ELSE LastN(ring[karc])
  /\ karc' = NoEntry
  /\ kpc' = "wait"
  /\ UNCHANGED <<vars, signals, spc, lastSeen>>

-----------------------------------------------------------------------------
(* What snapshot may answer now: the saturated difference of its two loads, *)
(* with the signals it loaded.                                             *)
Snapshots ==
  {[total |-> Saturate(v, g), signals |-> g] : v \in 0 .. version, g \in 0 .. signals}

-----------------------------------------------------------------------------
Appender(t) == Step(t) /\ UNCHANGED watchVars
Consume     == Wake \/ WatchLookup \/ WatchRead
Signal(g)   == SignalCount(g) \/ SignalWake(g)

(* Nothing left to append or signal, and nothing new to see. *)
WatchQuiescent ==
  /\ Quiescent /\ signals = MaxSignals
  /\ \A g \in Signallers : spc[g] = "idle"
  /\ kpc = "wait" /\ ~Changed(version)
  /\ UNCHANGED watchVars

WatchNext ==
  \/ \E t \in Threads : Appender(t)
  \/ \E g \in Signallers : Signal(g)
  \/ Consume \/ WatchQuiescent

WatchSpec == WatchInit /\ [][WatchNext]_allVars

(* A call that has begun finishes, and the pinned consumer keeps spinning. *)
WatchFair ==
  /\ WatchSpec /\ WF_allVars(Consume)
  /\ \A t \in Threads : WF_allVars(Appender(t) /\ pc[t] # "idle")
  /\ \A g \in Signallers : WF_allVars(SignalWake(g))

-----------------------------------------------------------------------------
(* The type of every variable of the watch protocol.                       *)
WatchTypeOK ==
  /\ signals \in 0 .. MaxSignals
  /\ spc \in [Signallers -> {"idle", "bump"}]
  /\ kpc \in {"wait", "lookup", "read"}
  /\ lastSeen \in 0 .. version
  /\ karc \in Candles \cup {NoEntry}
  /\ view \in Seq(Candles)

(* No missed wake-up: a consumer parked in wait_for_change with nothing    *)
(* left to publish has read the newest candles there are, though it loads  *)
(* the version before it reads, through an Arc that may be evicted by then. *)
NoMissedWake ==
  kpc = "wait" /\ lastSeen = version /\ Pending = 0 => view = Newest

(* What appends_total is worth: snapshot counts an append that did not     *)
(* happen only for a signal whose own count its Relaxed load has missed,   *)
(* however its two loads race the two bumps of signal_waiters, which       *)
(* counts itself first.  A signal the load did see is never counted.       *)
SnapshotBounded == \A x \in Snapshots : x.total <= Published + (signals - x.signals)

(* The consumer and the snapshots at every moment.                         *)
WatchInv == WatchTypeOK /\ NoMissedWake /\ SnapshotBounded

(* Once the appends stop the consumer holds the newest window for good.    *)
Settles == <>[](kpc = "wait" /\ view = Newest)
=============================================================================
