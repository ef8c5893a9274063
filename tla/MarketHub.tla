----------------------------- MODULE MarketHub -----------------------------
(***************************************************************************)
(* The threads of the market_hub process (src/bin/market_hub.rs) and its   *)
(* shutdown: main, the ingester feeding the store, the strategy spinning   *)
(* in wait_for_change, the executor behind the signal ring, the metrics    *)
(* poller, and a SIGTERM at any moment.                                    *)
(*                                                                         *)
(* What the strategy computes (Strategy) and what the executor does with a *)
(* signal (Executor) are left out: a wake-up may or may not end in a       *)
(* signal, and a signal is a number.  The ring is the bounded queue that   *)
(* SpscRing is proved to implement.                                        *)
(***************************************************************************)
EXTENDS Integers, Sequences

CONSTANTS RingCap,     \* capacity of the signal ring
          MaxCandles,  \* bound: candles that reach the hub
          MayDie       \* the executor thread may panic

ASSUME HubConstants ==
  /\ RingCap \in Nat \ {0} /\ MaxCandles \in Nat
  /\ MayDie \in BOOLEAN

VARIABLES
  mpc,       \* main's place
  shutdown,  \* the flag the signal handler sets
  gaveUp,    \* history: a join ran into its timeout
  running,   \* ShmIngester::running
  ipc,       \* the ingester's place
  candles,   \* candles appended so far
  version,   \* CandleStore::version
  spc, seen, \* the strategy's place and its last_seen
  signals,   \* the strategy's signal_count
  produced,  \* signals_produced
  queue,     \* the signal ring
  epc,       \* the executor's place
  taken,     \* signals the executor popped
  executed,  \* signals it dealt with: booked or refused
  ppc,       \* the poller's place
  late,      \* history: candles appended after stop_signal
  lateSignals\* history: signals pushed after the shutdown flag rose

mainVars == <<mpc, shutdown, gaveUp>>
ingestVars == <<running, ipc, candles, late>>
stratVars == <<spc, seen, signals, produced, lateSignals>>
execVars == <<epc, taken, executed>>
vars == <<mainVars, ingestVars, version, stratVars, queue, execVars, ppc>>

Init ==
  /\ mpc = "open" /\ shutdown = FALSE /\ gaveUp = FALSE
  /\ running = FALSE /\ ipc = "off" /\ candles = 0 /\ late = 0
  /\ version = 0
  /\ spc = "off" /\ seen = 0 /\ signals = 0 /\ produced = 0 /\ lateSignals = 0
  /\ queue = <<>> /\ epc = "off" /\ taken = 0 /\ executed = 0 /\ ppc = "off"

Alive == mpc # "exit"   \* threads die with the process

Terminate ==
  /\ Alive /\ ~shutdown /\ shutdown' = TRUE
  /\ UNCHANGED <<mpc, gaveUp, ingestVars, version, stratVars, queue, execVars, ppc>>

-----------------------------------------------------------------------------
(* main: waiting for the SHM segment, it looks at the flag before each try. *)
GiveUp ==
  /\ mpc = "open" /\ shutdown
  /\ mpc' = "exit"
  /\ UNCHANGED <<shutdown, gaveUp, ingestVars, version, stratVars, queue, execVars, ppc>>

Spawn ==
  /\ mpc = "open"
  /\ mpc' = "park"
  /\ running' = TRUE /\ ipc' = "check" /\ spc' = "wait" /\ epc' = "pop" /\ ppc' = "park"
  /\ UNCHANGED <<shutdown, gaveUp, candles, late, version, seen, signals, produced, lateSignals,
                 queue, taken, executed>>

(* The shutdown sequence: stop_signal first, then signal_waiters, ... *)
StopSignal ==
  /\ mpc = "park" /\ shutdown
  /\ mpc' = "wake" /\ running' = FALSE
  /\ UNCHANGED <<shutdown, gaveUp, ipc, candles, late, version, stratVars, queue, execVars, ppc>>

SignalWaiters ==
  /\ mpc = "wake"
  /\ mpc' = "joinStrategy" /\ version' = version + 1
  /\ UNCHANGED <<shutdown, gaveUp, ingestVars, stratVars, queue, execVars, ppc>>

(* ... then the joins, in this order ... *)
Finished(thread) == thread \in {"done", "dead"}
Join(here, next, thread) ==
  /\ mpc = here /\ Finished(thread)
  /\ mpc' = next
  /\ UNCHANGED <<shutdown, gaveUp, ingestVars, version, stratVars, queue, execVars, ppc>>

JoinStrategy == Join("joinStrategy", "joinExecutor", spc)
JoinExecutor == Join("joinExecutor", "joinPoller", epc)
JoinPoller   == Join("joinPoller", "drop", ppc)

(* ... each given up after its timeout with the thread still running. *)
JoinTimesOut(here, next, thread) ==
  /\ mpc = here /\ ~Finished(thread)
  /\ mpc' = next /\ gaveUp' = TRUE
  /\ UNCHANGED <<shutdown, ingestVars, version, stratVars, queue, execVars, ppc>>

TimeOut == \/ JoinTimesOut("joinStrategy", "joinExecutor", spc)
           \/ JoinTimesOut("joinExecutor", "joinPoller", epc)
           \/ JoinTimesOut("joinPoller", "drop", ppc)

(* drop(ingester): the last Arc, unless the poller still holds one, runs   *)
(* ShmIngester::stop, which joins the ingester thread without a timeout.   *)
DropIngester ==
  /\ mpc = "drop" /\ (ppc = "done" => ipc = "done")
  /\ mpc' = "exit"
  /\ UNCHANGED <<shutdown, gaveUp, ingestVars, version, stratVars, queue, execVars, ppc>>

-----------------------------------------------------------------------------
(* The ingester loads running before each pop; one candle may be in hand. *)
IngestCheck ==
  /\ Alive /\ ipc = "check"
  /\ ipc' = IF running THEN "pop" ELSE "done"
  /\ UNCHANGED <<mainVars, running, candles, late, version, stratVars, queue, execVars, ppc>>

IngestEmpty ==
  /\ Alive /\ ipc = "pop"
  /\ ipc' = "check"
  /\ UNCHANGED <<mainVars, running, candles, late, version, stratVars, queue, execVars, ppc>>

IngestAppend ==
  /\ Alive /\ ipc = "pop" /\ candles < MaxCandles
  /\ candles' = candles + 1 /\ version' = version + 1
  /\ late' = IF running THEN late ELSE late + 1
  /\ ipc' = "check"
  /\ UNCHANGED <<mainVars, running, stratVars, queue, execVars, ppc>>

-----------------------------------------------------------------------------
(* The strategy: wake on a version other than last_seen, ... *)
Wake ==
  /\ Alive /\ spc = "wait" /\ version # seen
  /\ seen' = version /\ spc' = "check"
  /\ UNCHANGED <<mainVars, ingestVars, version, signals, produced, lateSignals,
                 queue, execVars, ppc>>

(* Mutation: the flag is not looked at between two wake-ups. *)
CheckSkipped ==
  /\ Alive /\ spc = "check"
  /\ spc' \in {"wait", "push"}
  /\ UNCHANGED <<mainVars, ingestVars, version, seen, signals, produced, lateSignals,
                 queue, execVars, ppc>>

(* ... look at the flag, fold the candle, and find a cross or not. *)
Check ==
  /\ Alive /\ spc = "check"
  /\ spc' \in IF shutdown THEN {"done"} ELSE {"wait", "push"}
  /\ UNCHANGED <<mainVars, ingestVars, version, seen, signals, produced, lateSignals,
                 queue, execVars, ppc>>

TryPush ==
  /\ Alive /\ spc = "push" /\ Len(queue) < RingCap
  /\ queue' = Append(queue, signals) /\ signals' = signals + 1
  /\ lateSignals' = IF shutdown THEN lateSignals + 1 ELSE lateSignals
  /\ spc' = "count"
  /\ UNCHANGED <<mainVars, ingestVars, version, seen, produced, execVars, ppc>>

(* Mutation: SpscWriter::push, which only waits for room. *)
PushBlocks ==
  /\ Alive /\ spc = "push" /\ Len(queue) = RingCap
  /\ UNCHANGED vars

(* A full ring: spin, unless shutdown, which drops the signal. *)
PushGivesUp ==
  /\ Alive /\ spc = "push" /\ Len(queue) = RingCap /\ shutdown
  /\ spc' = "done"
  /\ UNCHANGED <<mainVars, ingestVars, version, seen, signals, produced, lateSignals,
                 queue, execVars, ppc>>

Count ==
  /\ Alive /\ spc = "count"
  /\ produced' = signals /\ spc' = "wait"
  /\ UNCHANGED <<mainVars, ingestVars, version, seen, signals, lateSignals,
                 queue, execVars, ppc>>

-----------------------------------------------------------------------------
(* The executor: try_pop; a signal popped is in its hand while the gate    *)
(* checks it, the position is booked and the file written (Executor).      *)
Pop ==
  /\ Alive /\ epc = "pop" /\ queue # <<>>
  /\ queue' = Tail(queue) /\ taken' = taken + 1 /\ epc' = "handle"
  /\ UNCHANGED <<mainVars, ingestVars, version, stratVars, executed, ppc>>

Execute ==
  /\ Alive /\ epc = "handle"
  /\ executed' = executed + 1 /\ epc' = "pop"
  /\ UNCHANGED <<mainVars, ingestVars, version, stratVars, queue, taken, ppc>>

(* The flag is looked at only after an empty pop: what the strategy pushes *)
(* between that pop and the flag stays in the ring for good.               *)
PopNone ==
  /\ Alive /\ epc = "pop" /\ queue = <<>>
  /\ epc' = "flag"
  /\ UNCHANGED <<mainVars, ingestVars, version, stratVars, queue, taken, executed, ppc>>

(* Mutation: the executor leaves its loop on an empty ring. *)
FlagIgnored ==
  /\ Alive /\ epc = "flag"
  /\ epc' = "done"
  /\ UNCHANGED <<mainVars, ingestVars, version, stratVars, queue, taken, executed, ppc>>

CheckFlag ==
  /\ Alive /\ epc = "flag"
  /\ epc' = IF shutdown THEN "done" ELSE "pop"
  /\ UNCHANGED <<mainVars, ingestVars, version, stratVars, queue, taken, executed, ppc>>

(* A panic loses the signal in hand with the thread. *)
ExecutorPanics ==
  /\ Alive /\ MayDie /\ epc \in {"pop", "handle", "flag"}
  /\ epc' = "dead"
  /\ UNCHANGED <<mainVars, ingestVars, version, stratVars, queue, taken, executed, ppc>>

(* The poller only reads; park_timeout brings it back to the flag. *)
PollerExit ==
  /\ Alive /\ ppc = "park" /\ shutdown
  /\ ppc' = "done"
  /\ UNCHANGED <<mainVars, ingestVars, version, stratVars, queue, execVars>>

-----------------------------------------------------------------------------
Main == GiveUp \/ StopSignal \/ SignalWaiters \/ JoinStrategy \/ JoinExecutor
        \/ JoinPoller \/ DropIngester
Ingest == IngestCheck \/ IngestEmpty \/ IngestAppend
StrategyLoop == Wake \/ Check \/ TryPush \/ PushGivesUp \/ Count
ExecutorLoop == Pop \/ Execute \/ PopNone \/ CheckFlag

Exited == mpc = "exit" /\ UNCHANGED vars

Next == Terminate \/ Spawn \/ Main \/ TimeOut \/ Ingest \/ StrategyLoop \/ ExecutorLoop
        \/ ExecutorPanics \/ PollerExit \/ Exited

Spec == Init /\ [][Next]_vars

(* The OS runs every thread; nothing obliges a signal, a segment, a candle *)
(* or a panic to come, nor a ring that is not empty to stay so.            *)
FairSpec == /\ Spec
            /\ WF_vars(Main) /\ WF_vars(Ingest) /\ WF_vars(StrategyLoop)
            /\ WF_vars(ExecutorLoop) /\ WF_vars(PollerExit)

-----------------------------------------------------------------------------
(* The type of every variable; the ring never holds more than its          *)
(* capacity.                                                               *)
HubTypeOK ==
  /\ mpc \in {"open", "park", "wake", "joinStrategy", "joinExecutor", "joinPoller",
              "drop", "exit"}
  /\ shutdown \in BOOLEAN /\ gaveUp \in BOOLEAN /\ running \in BOOLEAN
  /\ ipc \in {"off", "check", "pop", "done"}
  /\ candles \in 0 .. MaxCandles /\ version \in Nat /\ late \in Nat
  /\ spc \in {"off", "wait", "check", "push", "count", "done"}
  /\ seen \in 0 .. version /\ signals \in Nat /\ produced \in 0 .. signals
  /\ lateSignals \in Nat
  /\ queue \in Seq(Nat) /\ Len(queue) <= RingCap
  /\ epc \in {"off", "pop", "handle", "flag", "done", "dead"}
  /\ taken \in Nat /\ executed \in Nat
  /\ ppc \in {"off", "park", "done"}

(* "halts the SHM pop loop FIRST": after stop_signal the store gets at     *)
(* most the one candle the ingester had decided to pop.                    *)
OneLateCandle == late <= 1

(* After the flag rises the strategy sends at most one more signal: the    *)
(* one it was about to push.                                               *)
OneLateSignal == lateSignals <= 1

(* The executor deals with the signals once each and in the order pushed:  *)
(* the ring holds the ones after those it took, it never has more than one *)
(* in hand, and it has lost that one only when it has died.  Neither a     *)
(* dead executor nor one that has left takes what is in the ring: up to    *)
(* RingCap signals are lost with it.                                       *)
SignalsInOrder ==
  /\ taken + Len(queue) = signals
  /\ \A i \in 1 .. Len(queue) : queue[i] = taken + i - 1
  /\ executed \in {taken, taken - 1}
  /\ epc = "handle" => executed = taken - 1
  /\ executed # taken => epc \in {"handle", "dead"}

(* While the hub runs, a signal in the ring is executed, unless the        *)
(* executor has died.                                                      *)
SignalsServed ==
  \A n \in 1 .. MaxCandles :
    signals = n ~> (executed >= n \/ shutdown \/ epc = "dead")

(* main always exits after a SIGTERM, and "reaching this branch means a    *)
(* bug": left alone every thread leaves its loop without its join running  *)
(* into the timeout, even when the executor has died and left the ring     *)
(* full.                                                                   *)
ThreadsExit ==
  shutdown ~> /\ mpc = "exit"
              /\ \/ gaveUp
                 \/ /\ spc \in {"off", "done"} /\ epc \in {"off", "done", "dead"}
                    /\ ppc \in {"off", "done"} /\ ipc \in {"off", "done"}

(* The shutdown order holds back what is in flight, and the ring hands the *)
(* signals over whole.                                                     *)
HubInv == HubTypeOK /\ OneLateCandle /\ OneLateSignal /\ SignalsInOrder
=============================================================================
