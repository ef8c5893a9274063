-------------------------- MODULE MarketHubProofs --------------------------
(***************************************************************************)
(* For any ring capacity and any number of candles, with a SIGTERM, a      *)
(* panic of the executor or a join running into its timeout at any moment: *)
(* the shutdown order of market_hub lets at most one candle and at most    *)
(* one signal through late, and the executor takes the signals in the      *)
(* order pushed, none twice, losing the one in hand only when it dies.     *)
(*                                                                         *)
(* And of its executor thread, for any quantities, limits, length of a     *)
(* second and number of signals, through any run of failed reads and       *)
(* writes, crashes and restarts: the position stays within                 *)
(* max_abs_position, the state file is never torn and, while no read or    *)
(* write of it fails, at most the signal in flight behind the position,    *)
(* and no second of one process's life sees more than twice                *)
(* max_signals_per_sec.                                                    *)
(***************************************************************************)
EXTENDS MarketHub, Executor, FiniteSetTheorems, TLAPS

(* A late candle is the one in hand when stop_signal came: having appended *)
(* it the ingester looks at `running` and leaves.                          *)
LateCandle ==
  /\ late \in Nat /\ late <= 1
  /\ mpc = "open" => ipc = "off" /\ late = 0
  /\ running \/ ipc = "pop" => late = 0

(* A late signal is the one decided on when the flag rose: the strategy    *)
(* looks at the flag before it decides on another.                         *)
LateSignal ==
  /\ lateSignals \in Nat /\ lateSignals <= 1
  /\ ~shutdown \/ spc = "push" => lateSignals = 0

(* There is no executor before main spawns it. *)
NotSpawned == mpc = "open" => epc = "off"

HInv == HubTypeOK /\ NotSpawned /\ SignalsInOrder /\ LateCandle /\ LateSignal

-----------------------------------------------------------------------------
(* Every step keeps the types. *)
LEMMA TypeKeeps ==
  ASSUME HInv, [Next]_vars
  PROVE  HubTypeOK'
<1> USE DEF HInv, HubTypeOK, mainVars, ingestVars, stratVars, execVars
<1>0. RingCap \in Nat \ {0} /\ Len(queue) \in Nat /\ signals \in Nat /\ version \in Nat
      /\ MaxCandles \in Nat
  BY HubConstants
<1>1. CASE Terminate \/ GiveUp \/ Spawn \/ StopSignal \/ SignalWaiters
  <2>1. CASE Terminate \/ GiveUp
    <3>1. CASE Terminate
      BY <3>1 DEF Terminate
    <3>2. CASE GiveUp
      BY <3>2 DEF GiveUp
    <3> QED BY <2>1, <3>1, <3>2
  <2>2. CASE Spawn
    BY <2>2 DEF Spawn
  <2>3. CASE StopSignal
    BY <2>3 DEF StopSignal
  <2>4. CASE SignalWaiters
    <3>1. version' \in Nat /\ seen' \in 0 .. version'
      BY <1>0, <2>4 DEF SignalWaiters
    <3> QED BY <2>4, <3>1 DEF SignalWaiters
  <2> QED BY <1>1, <2>1, <2>2, <2>3, <2>4
<1>2. CASE JoinStrategy \/ JoinExecutor \/ JoinPoller \/ TimeOut \/ DropIngester
  BY <1>2 DEF JoinStrategy, JoinExecutor, JoinPoller, Join, TimeOut, JoinTimesOut, DropIngester
<1>3. CASE Ingest
  <2>1. CASE IngestAppend
    BY <1>0, <2>1 DEF IngestAppend
  <2>2. CASE IngestCheck \/ IngestEmpty
    BY <2>2 DEF IngestCheck, IngestEmpty
  <2> QED BY <1>3, <2>1, <2>2 DEF Ingest
<1>4. CASE Wake \/ Check \/ PushGivesUp
  <2>1. CASE Wake
    <3>1. seen' \in 0 .. version'
      BY <1>0, <2>1 DEF Wake
    <3> QED BY <2>1, <3>1 DEF Wake
  <2>2. CASE Check
    BY <2>2 DEF Check
  <2>3. CASE PushGivesUp
    BY <2>3 DEF PushGivesUp
  <2> QED BY <1>4, <2>1, <2>2, <2>3
<1>5. CASE TryPush
  <2>1. queue' \in Seq(Nat) /\ Len(queue') = Len(queue) + 1 /\ signals' = signals + 1
    BY <1>0, <1>5 DEF TryPush
  <2>2. Len(queue') <= RingCap
    BY <1>0, <1>5, <2>1 DEF TryPush
  <2>3. produced' \in 0 .. signals'
    BY <1>0, <1>5, <2>1 DEF TryPush
  <2>4. lateSignals' \in Nat
    BY <1>5 DEF TryPush
  <2> QED BY <1>0, <1>5, <2>1, <2>2, <2>3, <2>4 DEF TryPush
<1>6. CASE Count
  BY <1>0, <1>6 DEF Count
<1>7. CASE Pop \/ Execute
  <2>1. CASE Pop
    <3>1. queue' \in Seq(Nat) /\ Len(queue') = Len(queue) - 1 /\ taken' \in Nat
      BY <1>0, <2>1 DEF Pop
    <3> QED BY <1>0, <2>1, <3>1 DEF Pop
  <2>2. CASE Execute
    BY <2>2 DEF Execute
  <2> QED BY <1>7, <2>1, <2>2
<1>8. CASE PopNone \/ CheckFlag \/ ExecutorPanics \/ PollerExit
  BY <1>8 DEF PopNone, CheckFlag, ExecutorPanics, PollerExit
<1>9. CASE Exited \/ UNCHANGED vars
  BY <1>9 DEF Exited, vars
<1> QED BY <1>1, <1>2, <1>3, <1>4, <1>5, <1>6, <1>7, <1>8, <1>9
        DEF Next, Main, StrategyLoop, ExecutorLoop

(* Only Spawn starts the executor, and main leaves "open" with it. *)
LEMMA SpawnKeeps ==
  ASSUME HInv, [Next]_vars
  PROVE  NotSpawned'
<1>1. CASE mpc' = "open"
  <2>1. mpc = "open" /\ epc' = epc
    BY <1>1 DEF HInv, NotSpawned, Next, Terminate, Main, GiveUp, Spawn, StopSignal, SignalWaiters,
       JoinStrategy, JoinExecutor, JoinPoller, Join, TimeOut, JoinTimesOut, DropIngester, Ingest,
       IngestCheck, IngestEmpty, IngestAppend, StrategyLoop, Wake, Check, TryPush, PushGivesUp,
       Count, ExecutorLoop, Pop, Execute, PopNone, CheckFlag, ExecutorPanics, PollerExit, Exited,
       vars, mainVars, execVars
  <2> QED BY <2>1 DEF HInv, NotSpawned
<1> QED BY <1>1 DEF NotSpawned

(* Every step keeps the account of the signals. *)
LEMMA FlowKeeps ==
  ASSUME HInv, [Next]_vars
  PROVE  SignalsInOrder'
<1>0. /\ queue \in Seq(Nat) /\ Len(queue) \in Nat /\ signals \in Nat
      /\ taken \in Nat /\ executed \in Nat
      /\ taken + Len(queue) = signals
      /\ \A i \in 1 .. Len(queue) : queue[i] = taken + i - 1
      /\ executed \in {taken, taken - 1}
      /\ epc = "handle" => executed = taken - 1
      /\ executed # taken => epc \in {"handle", "dead"}
  BY DEF HInv, HubTypeOK, SignalsInOrder
<1>1. CASE TryPush
  <2>1. /\ queue' = Append(queue, signals) /\ signals' = signals + 1
        /\ epc' = epc /\ taken' = taken /\ executed' = executed
    BY <1>1 DEF TryPush, execVars
  <2>2. Len(queue') = Len(queue) + 1
    BY <1>0, <2>1
  <2>3. ASSUME NEW i \in 1 .. Len(queue')
        PROVE  queue'[i] = taken' + i - 1
    <3>1. PICK k \in Nat : k = Len(queue)
      BY <1>0
    <3>2. i \in 1 .. (k + 1) /\ taken + k = signals /\ i \in Int
      BY <1>0, <2>2, <2>3, <3>1
    <3>3. CASE i <= k
      BY <1>0, <2>1, <3>1, <3>2, <3>3
    <3>4. CASE i = k + 1
      <4>1. queue'[i] = signals
        BY <1>0, <2>1, <3>1, <3>2, <3>4
      <4>2. signals = taken + i - 1
        BY <1>0, <3>2, <3>4
      <4> QED BY <2>1, <4>1, <4>2
    <3> QED BY <3>2, <3>3, <3>4
  <2> QED BY <1>0, <2>1, <2>2, <2>3 DEF SignalsInOrder
<1>2. CASE Pop
  <2>1. /\ queue # <<>> /\ queue' = Tail(queue) /\ signals' = signals
        /\ epc = "pop" /\ epc' = "handle" /\ taken' = taken + 1 /\ executed' = executed
    BY <1>2 DEF Pop, stratVars
  <2>2. Len(queue') = Len(queue) - 1
    BY <1>0, <2>1
  <2>3. ASSUME NEW i \in 1 .. Len(queue')
        PROVE  queue'[i] = taken' + i - 1
    <3>1. queue'[i] = queue[i + 1] /\ i + 1 \in 1 .. Len(queue)
      BY <1>0, <2>1, <2>2, <2>3
    <3> QED BY <1>0, <2>1, <3>1
  <2>4. executed' = taken' - 1
    BY <1>0, <2>1
  <2> QED BY <1>0, <2>1, <2>2, <2>3, <2>4 DEF SignalsInOrder
<1>3. CASE Execute
  <2>1. /\ epc = "handle" /\ executed' = executed + 1 /\ epc' = "pop"
        /\ queue' = queue /\ signals' = signals /\ taken' = taken
    BY <1>3 DEF Execute, stratVars
  <2>2. executed' = taken'
    BY <1>0, <2>1
  <2> QED BY <1>0, <2>1, <2>2 DEF SignalsInOrder
<1>4. CASE /\ UNCHANGED <<signals, queue, taken, executed>>
           /\ epc' = epc \/ (epc' # "handle" /\ epc # "handle") \/ epc' = "dead"
           /\ epc = "dead" => epc' = "dead"
  BY <1>0, <1>4 DEF SignalsInOrder
<1>5. CASE Spawn
  <2>1. UNCHANGED <<signals, queue, taken, executed>> /\ epc' = "pop" /\ epc = "off"
    BY <1>5 DEF Spawn, HInv, NotSpawned
  <2> QED BY <1>0, <2>1 DEF SignalsInOrder
<1>6. \/ TryPush \/ Pop \/ Execute \/ Spawn
      \/ /\ UNCHANGED <<signals, queue, taken, executed>>
         /\ epc' = epc \/ (epc' # "handle" /\ epc # "handle") \/ epc' = "dead"
         /\ epc = "dead" => epc' = "dead"
  BY DEF Next, Terminate, Main, GiveUp, StopSignal, SignalWaiters, JoinStrategy,
     JoinExecutor, JoinPoller, Join, TimeOut, JoinTimesOut, DropIngester, Ingest, IngestCheck,
     IngestEmpty, IngestAppend, StrategyLoop, Wake, Check, PushGivesUp, Count, ExecutorLoop,
     PopNone, CheckFlag, ExecutorPanics, PollerExit, Exited, vars, stratVars, execVars
<1> QED BY <1>1, <1>2, <1>3, <1>4, <1>5, <1>6

(* Every step keeps the late candle the only one. *)
LEMMA LateCandleKeeps ==
  ASSUME HInv, [Next]_vars
  PROVE  LateCandle'
<1>0. /\ late \in Nat /\ late <= 1 /\ running \in BOOLEAN
      /\ mpc = "open" => ipc = "off" /\ late = 0
      /\ running \/ ipc = "pop" => late = 0
  BY DEF HInv, HubTypeOK, LateCandle
<1>1. CASE Spawn
  BY <1>0, <1>1 DEF Spawn, LateCandle
<1>2. CASE StopSignal
  BY <1>0, <1>2 DEF StopSignal, LateCandle
<1>3. CASE IngestCheck
  BY <1>0, <1>3 DEF IngestCheck, LateCandle, mainVars
<1>4. CASE IngestEmpty
  BY <1>0, <1>4 DEF IngestEmpty, LateCandle, mainVars
<1>5. CASE IngestAppend
  <2>1. /\ ipc = "pop" /\ ipc' = "check" /\ mpc' = mpc /\ running' = running /\ late = 0
        /\ late' = IF running THEN late ELSE late + 1
    BY <1>0, <1>5 DEF IngestAppend, mainVars
  <2> QED BY <1>0, <2>1 DEF LateCandle
<1>6. CASE UNCHANGED ingestVars /\ (mpc' = "open" => mpc = "open")
  BY <1>0, <1>6 DEF LateCandle, ingestVars
<1>7. \/ Spawn \/ StopSignal \/ Ingest
      \/ UNCHANGED ingestVars /\ (mpc' = "open" => mpc = "open")
  BY DEF Next, Terminate, Main, GiveUp, SignalWaiters, JoinStrategy, JoinExecutor, JoinPoller,
     Join, TimeOut, JoinTimesOut, DropIngester, StrategyLoop, Wake, Check, TryPush, PushGivesUp,
     Count, ExecutorLoop, Pop, Execute, PopNone, CheckFlag, ExecutorPanics, PollerExit, Exited, vars,
     mainVars
<1> QED BY <1>1, <1>2, <1>3, <1>4, <1>5, <1>6, <1>7 DEF Ingest

(* Every step keeps the late signal the only one. *)
LEMMA LateSignalKeeps ==
  ASSUME HInv, [Next]_vars
  PROVE  LateSignal'
<1>0. /\ lateSignals \in Nat /\ lateSignals <= 1 /\ shutdown \in BOOLEAN
      /\ ~shutdown \/ spc = "push" => lateSignals = 0
  BY DEF HInv, HubTypeOK, LateSignal
<1>1. CASE Terminate
  BY <1>0, <1>1 DEF Terminate, LateSignal, stratVars
<1>2. CASE Check
  BY <1>0, <1>2 DEF Check, LateSignal, mainVars
<1>3. CASE TryPush
  <2>1. /\ spc = "push" /\ spc' = "count" /\ shutdown' = shutdown /\ lateSignals = 0
        /\ lateSignals' = IF shutdown THEN lateSignals + 1 ELSE lateSignals
    BY <1>0, <1>3 DEF TryPush, mainVars
  <2> QED BY <1>0, <2>1 DEF LateSignal
<1>4. CASE UNCHANGED <<lateSignals, shutdown>> /\ (spc' = spc \/ spc' # "push")
  BY <1>0, <1>4 DEF LateSignal
<1>5. \/ Terminate \/ Check \/ TryPush
      \/ UNCHANGED <<lateSignals, shutdown>> /\ (spc' = spc \/ spc' # "push")
  BY DEF Next, Main, GiveUp, Spawn, StopSignal, SignalWaiters, JoinStrategy,
     JoinExecutor, JoinPoller, Join, TimeOut, JoinTimesOut, DropIngester, Ingest, IngestCheck,
     IngestEmpty, IngestAppend, StrategyLoop, Wake, PushGivesUp, Count, ExecutorLoop, Pop, Execute,
     PopNone, CheckFlag, ExecutorPanics, PollerExit, Exited, vars, stratVars, mainVars
<1> QED BY <1>1, <1>2, <1>3, <1>4, <1>5

LEMMA InitHInv == Init => HInv
<1> SUFFICES ASSUME Init PROVE HInv
  OBVIOUS
<1>1. queue \in Seq(Nat) /\ Len(queue) = 0 /\ RingCap \in Nat /\ MaxCandles \in Nat
  BY HubConstants DEF Init
<1>2. HubTypeOK
  <2>1. 0 \in 0 .. MaxCandles /\ 0 \in 0 .. 0 /\ Len(queue) <= RingCap
    BY <1>1
  <2>2. shutdown \in BOOLEAN /\ gaveUp \in BOOLEAN /\ running \in BOOLEAN
    BY DEF Init
  <2> QED BY <1>1, <2>1, <2>2 DEF Init, HubTypeOK
<1>3. NotSpawned /\ SignalsInOrder /\ LateCandle /\ LateSignal
  BY <1>1 DEF Init, NotSpawned, SignalsInOrder, LateCandle, LateSignal
<1> QED BY <1>2, <1>3 DEF HInv

-----------------------------------------------------------------------------
(* The inductive invariant holds of every behaviour of the process. *)
THEOREM HubInvariant == Spec => []HInv
<1>1. HInv /\ [Next]_vars => HInv'
  BY TypeKeeps, SpawnKeeps, FlowKeeps, LateCandleKeeps, LateSignalKeeps DEF HInv
<1> QED BY <1>1, InitHInv, PTL DEF Spec

(* After stop_signal the store gets at most one candle more, after the     *)
(* shutdown flag the strategy pushes at most one signal more, and the      *)
(* executor takes the signals in the order pushed, dropping one it has     *)
(* taken only by dying with it in hand.                                    *)
THEOREM HubSafe == Spec => []HubInv
<1>1. HInv => HubInv
  BY DEF HInv, LateCandle, LateSignal, HubInv, OneLateCandle, OneLateSignal
<1> QED BY <1>1, HubInvariant, PTL

-----------------------------------------------------------------------------
(* The executor: src/bin/market_hub.rs, module Executor. *)

(* Where the thread is tells what the two files hold. *)
FileInv ==
  /\ xpc \in {"write", "rename"} => Persist
  /\ xpc = "rename" => tmp = position
  /\ Persist /\ saved /\ xpc \in {"write", "rename"} => Holds(file) = before

(* The signals counted in the current bucket are the last ones accepted;   *)
(* those before it are older than its start, and all but MaxRate of them   *)
(* by a second or more.                                                    *)
Bucket(r) ==
  /\ r.start <= now /\ r.count <= Len(accepts)
  /\ \A i \in 1 .. Len(accepts) :
       /\ accepts[i] < r.start + Second
       /\ i + r.count <= Len(accepts) => accepts[i] < r.start
       /\ i + r.count + MaxRate <= Len(accepts) => accepts[i] + Second <= r.start
BucketInv == Bucket(rate)

(* The signals accepted in a second are among 2 * MaxRate successive ones. *)
InSecond(i, t) == t <= accepts[i] /\ accepts[i] < t + Second
WindowInv ==
  \A t \in 0 .. MaxNow : \E k \in Int : \A i \in 1 .. Len(accepts) :
    InSecond(i, t) => k < i /\ i <= k + 2 * MaxRate

EInv ==
  /\ TypeOK /\ total + rejected <= popped
  /\ PositionBounded /\ CrashWindow /\ FileInv /\ BucketInv /\ WindowInv

-----------------------------------------------------------------------------
(* Whatever the state file holds loads as an integer. *)
LEMMA Loaded ==
  ASSUME TypeOK
  PROVE  Holds(file) \in Int
BY DEF TypeOK, Holds, LoadPosition, Files

(* Rolling the bucket over keeps what is known of it: all it counted, at   *)
(* most MaxRate signals, is now older than its start.                      *)
LEMMA RollKeeps ==
  ASSUME TypeOK, BucketInv, NEW r, r = Rolled(rate, now)
  PROVE  /\ r.start \in 0 .. MaxNow /\ r.count \in 0 .. MaxRate
         /\ r \in [start : 0 .. MaxNow, count : 0 .. MaxRate]
         /\ now < r.start + Second
         /\ Bucket(r)
<1>1. /\ rate.start \in 0 .. MaxNow /\ rate.count \in 0 .. MaxRate
      /\ MaxNow \in Nat /\ MaxRate \in Nat /\ Second \in Nat \ {0} /\ now \in 0 .. MaxNow
      /\ Len(accepts) \in Nat
      /\ \A i \in 1 .. Len(accepts) : accepts[i] \in 0 .. MaxNow
  BY ExecutorConstants DEF TypeOK
<1>2. CASE now - rate.start >= Second
  <2>1. r = [start |-> now, count |-> 0]
    BY <1>2 DEF Rolled
  <2>2. ASSUME NEW i \in 1 .. Len(accepts)
        PROVE  /\ accepts[i] < now
               /\ i + MaxRate <= Len(accepts) => accepts[i] + Second <= now
    <3>1. /\ accepts[i] < rate.start + Second
          /\ i + rate.count <= Len(accepts) => accepts[i] < rate.start
      BY <2>2 DEF BucketInv, Bucket
    <3>2. PICK a, st, ct, L \in Int :
            a = accepts[i] /\ st = rate.start /\ ct = rate.count /\ L = Len(accepts)
      BY <1>1, <2>2
    <3>3. ct <= MaxRate /\ st + Second <= now /\ now \in Int /\ Second \in Int
      BY <1>1, <1>2, <3>2
    <3>4. a < st + Second /\ (i + ct <= L => a < st)
      BY <3>1, <3>2
    <3>5. a < now /\ (i + MaxRate <= L => a + Second <= now)
      BY <1>1, <2>2, <3>2, <3>3, <3>4
    <3> QED BY <3>2, <3>5
  <2>3. r.start = now /\ r.count = 0
    BY <2>1
  <2>4. Bucket(r)
    BY <1>1, <2>2, <2>3 DEF Bucket
  <2> QED BY <1>1, <2>1, <2>3, <2>4
<1>3. CASE ~(now - rate.start >= Second)
  <2>1. r = rate
    BY <1>3 DEF Rolled
  <2> QED BY <1>1, <1>3, <2>1 DEF BucketInv, TypeOK
<1> QED BY <1>2, <1>3

LEMMA InitEInv ==
  ASSUME ExecutorInit
  PROVE  EInv
<1>1. Holds(file) = 0
  BY ExecutorConstants DEF ExecutorInit, Holds, LoadPosition
<1>2. TypeOK
  BY ExecutorConstants DEF ExecutorInit, TypeOK, Files
<1>3. PositionBounded /\ CrashWindow /\ FileInv
  BY <1>1, ExecutorConstants DEF ExecutorInit, PositionBounded, Bounded, CrashWindow, FileInv
<1>4. Len(accepts) = 0
  BY DEF ExecutorInit
<1>5. BucketInv
  BY <1>4 DEF ExecutorInit, BucketInv, Bucket
<1>6. WindowInv
  BY <1>4 DEF WindowInv
<1> QED BY <1>2, <1>3, <1>5, <1>6 DEF ExecutorInit, EInv

LEMMA StartKeeps ==
  ASSUME EInv, Start
  PROVE  EInv'
<1>1. Holds(file) \in Int /\ Holds(file)' = Holds(file)
  BY Loaded DEF EInv, Start, Holds, LoadPosition
<1>2. /\ position' \in {Holds(file), 0} /\ before' = position' /\ saved' \in BOOLEAN
      /\ Persist /\ saved' => position' = Holds(file)
  <2>1. PICK readable \in BOOLEAN :
          /\ position' = IF Persist THEN LoadPosition(file, readable) ELSE 0
          /\ saved' = readable
    BY DEF Start
  <2>2. before' = position'
    BY DEF Start
  <2>3. CASE readable
    BY <2>1, <2>2, <2>3, Zenon DEF Holds
  <2>4. CASE ~readable
    BY <2>1, <2>2, <2>4, Zenon DEF LoadPosition
  <2> QED BY <2>3, <2>4
<1>3. PositionBounded'
  BY <1>1, <1>2, ExecutorConstants DEF EInv, PositionBounded, Bounded
<1>4. TypeOK'
  BY <1>1, <1>2, ExecutorConstants DEF EInv, TypeOK, Start
<1>5. CrashWindow' /\ FileInv'
  BY <1>1, <1>2 DEF Start, CrashWindow, FileInv
<1>6. accepts' \in Seq(0 .. MaxNow) /\ Len(accepts') = 0
  BY DEF Start
<1>7. BucketInv'
  <2>1. rate'.start = now /\ rate'.count = 0 /\ now' = now /\ now \in Int
    BY DEF Start, EInv, TypeOK
  <2> QED BY <1>6, <2>1 DEF BucketInv, Bucket
<1>8. WindowInv'
  BY <1>6 DEF WindowInv
<1>9. (total + rejected <= popped)'
  BY DEF EInv, TypeOK, Start
<1> QED BY <1>3, <1>4, <1>5, <1>7, <1>8, <1>9 DEF EInv

LEMMA RefuseKeeps ==
  ASSUME EInv, NEW side, NEW qty, Refuse(side, qty)
  PROVE  EInv'
<1>1. rate' = rate \/ rate' = Rolled(rate, now)
  BY DEF Refuse
<1>2. /\ rate' \in [start : 0 .. MaxNow, count : 0 .. MaxRate]
      /\ Bucket(rate')
  BY <1>1, RollKeeps DEF EInv, TypeOK, BucketInv
<1>3. UNCHANGED <<xpc, position, total, file, tmp, now, before, saved, accepts>>
  BY DEF Refuse
<1>4. BucketInv'
  BY <1>2, <1>3 DEF BucketInv, Bucket
<1>5. PositionBounded' /\ CrashWindow' /\ FileInv' /\ WindowInv'
  BY <1>3 DEF EInv, PositionBounded, CrashWindow, FileInv, WindowInv, InSecond, Holds, LoadPosition
<1>6. /\ total' + rejected' <= popped' /\ popped' \in 0 .. MaxSignals
      /\ rejected' \in 0 .. MaxSignals
  BY ExecutorConstants DEF EInv, TypeOK, Refuse
<1>7. TypeOK'
  BY <1>2, <1>3, <1>6 DEF EInv, TypeOK
<1> QED BY <1>4, <1>5, <1>6, <1>7 DEF EInv

(* The accepted signal is counted in a bucket that has room for it, so all *)
(* but the last 2 * MaxRate are a second older than it.                    *)
LEMMA ExecuteWindow ==
  ASSUME EInv, NEW side, NEW qty \in Quantities, Book(side, qty)
  PROVE  /\ rate' \in [start : 0 .. MaxNow, count : 0 .. MaxRate]
         /\ accepts' \in Seq(0 .. MaxNow)
         /\ BucketInv' /\ WindowInv'
<1>a. PICK r : r = Rolled(rate, now)
  OBVIOUS
<1>b. PICK n \in Nat : n = Len(accepts)
  BY DEF EInv, TypeOK
<1>1. /\ r.start \in 0 .. MaxNow /\ r.count \in 0 .. MaxRate
      /\ r \in [start : 0 .. MaxNow, count : 0 .. MaxRate]
      /\ now < r.start + Second
      /\ Bucket(r)
  BY <1>a, RollKeeps DEF EInv
<1>2. r.count < MaxRate /\ rate' = [r EXCEPT !.count = @ + 1]
  BY <1>a DEF Book, Room
<1>3. rate'.start = r.start /\ rate'.count = r.count + 1
  BY <1>1, <1>2
<1>4. /\ MaxNow \in Nat /\ MaxRate \in Nat /\ Second \in Nat \ {0}
      /\ now \in 0 .. MaxNow /\ now' = now /\ accepts \in Seq(0 .. MaxNow)
      /\ accepts' = Append(accepts, now)
  BY ExecutorConstants DEF EInv, TypeOK, Book
<1>5. /\ accepts' \in Seq(0 .. MaxNow) /\ Len(accepts') = n + 1
      /\ accepts'[n + 1] = now
      /\ \A i \in 1 .. n : accepts'[i] = accepts[i] /\ accepts[i] \in 0 .. MaxNow
  BY <1>b, <1>4
<1>6. /\ r.start <= now /\ r.count <= n
      /\ \A i \in 1 .. n :
           /\ accepts[i] < r.start + Second
           /\ i + r.count <= n => accepts[i] < r.start
           /\ i + r.count + MaxRate <= n => accepts[i] + Second <= r.start
  BY <1>b, <1>1 DEF Bucket
<1>7. rate' \in [start : 0 .. MaxNow, count : 0 .. MaxRate]
  <2>1. r.count + 1 \in 0 .. MaxRate
    BY <1>b, <1>1, <1>2, <1>4
  <2> QED BY <1>1, <1>2, <2>1
<1>8. BucketInv'
  <2>1. ASSUME NEW i \in 1 .. n + 1
        PROVE  /\ accepts'[i] < r.start + Second
               /\ i + (r.count + 1) <= n + 1 => accepts'[i] < r.start
               /\ i + (r.count + 1) + MaxRate <= n + 1 => accepts'[i] + Second <= r.start
    <3>1. CASE i \in 1 .. n
      <4>1. PICK a, st, ct \in Int : a = accepts[i] /\ st = r.start /\ ct = r.count
        BY <1>1, <1>4, <1>5, <3>1
      <4>2. accepts'[i] = a
        BY <1>5, <3>1, <4>1
      <4>3. /\ a < st + Second
            /\ i + ct <= n => a < st
            /\ i + ct + MaxRate <= n => a + Second <= st
        BY <1>6, <3>1, <4>1
      <4>4. /\ i + (ct + 1) <= n + 1 => i + ct <= n
            /\ i + (ct + 1) + MaxRate <= n + 1 => i + ct + MaxRate <= n
        BY <1>b, <1>4, <4>1
      <4> QED BY <4>1, <4>2, <4>3, <4>4
    <3>2. CASE i = n + 1
      BY <1>b, <1>1, <1>4, <1>5, <3>2
    <3> QED BY <1>b, <1>4, <2>1, <3>1, <3>2
  <2> QED BY <1>b, <1>1, <1>3, <1>4, <1>5, <1>6, <2>1 DEF BucketInv, Bucket
<1>9. WindowInv'
  <2> SUFFICES ASSUME NEW t \in 0 .. MaxNow
               PROVE  \E k \in Int : \A i \in 1 .. n + 1 :
                        InSecond(i, t)' => k < i /\ i <= k + 2 * MaxRate
    BY <1>5 DEF WindowInv
  <2>1. CASE t <= now /\ now < t + Second
    <3> DEFINE k == n + 1 - 2 * MaxRate
    <3>1. k \in Int
      BY <1>4
    <3>2. ASSUME NEW i \in 1 .. n + 1, InSecond(i, t)'
          PROVE  k < i /\ i <= k + 2 * MaxRate
      <4>1. t <= accepts'[i] /\ accepts'[i] < t + Second
        BY <3>2 DEF InSecond
      <4>2. i <= k + 2 * MaxRate
        BY <1>4
      <4>3. CASE i = n + 1
        BY <1>1, <1>2, <1>4, <4>2, <4>3
      <4>4. CASE i \in 1 .. n
        <5>0. PICK a, st, ct \in Int : a = accepts[i] /\ st = r.start /\ ct = r.count
          BY <1>1, <1>4, <1>5, <4>4
        <5>1. i <= k => i + ct + MaxRate <= n
          <6>1. ct + 1 <= MaxRate /\ MaxRate \in Int /\ n \in Int
            BY <1>b, <1>1, <1>2, <1>4, <5>0
          <6> QED BY <4>4, <5>0, <6>1
        <5>2. i <= k => accepts[i] + Second <= now
          <6>1. st <= now /\ (i + ct + MaxRate <= n => a + Second <= st)
            BY <1>6, <4>4, <5>0
          <6>2. now \in Int /\ Second \in Int
            BY <1>4
          <6> QED BY <5>0, <5>1, <6>1, <6>2
        <5> QED BY <1>b, <1>4, <1>5, <2>1, <4>1, <4>2, <4>4, <5>2
      <4> QED BY <1>b, <1>4, <3>2, <4>3, <4>4
    <3> HIDE DEF k
    <3> QED BY <3>1, <3>2
  <2>2. CASE ~(t <= now /\ now < t + Second)
    <3>1. PICK k \in Int : \A i \in 1 .. n : InSecond(i, t) => k < i /\ i <= k + 2 * MaxRate
      BY <1>b DEF EInv, WindowInv
    <3>2. ASSUME NEW i \in 1 .. n + 1, InSecond(i, t)'
          PROVE  k < i /\ i <= k + 2 * MaxRate
      <4>1. i \in 1 .. n
        BY <1>4, <1>5, <2>2, <3>2 DEF InSecond
      <4>2. InSecond(i, t)
        BY <1>5, <3>2, <4>1 DEF InSecond
      <4> QED BY <3>1, <4>1, <4>2
    <3> QED BY <3>2
  <2> QED BY <2>1, <2>2
<1> QED BY <1>5, <1>7, <1>8, <1>9

LEMMA ExecuteKeeps ==
  ASSUME EInv, NEW side, NEW qty \in Quantities, Book(side, qty)
  PROVE  EInv'
<1>1. qty \in Int
  BY ExecutorConstants DEF Book, QtyOk
<1>2. Delta(side, qty) \in Int
  BY <1>1 DEF Delta
<1>3. /\ position' = position + Delta(side, qty) /\ before' = position
      /\ position' <= MaxAbs /\ 0 - MaxAbs <= position'
      /\ xpc = "pop" /\ xpc' = IF Persist THEN "write" ELSE "pop"
      /\ file' = file /\ tmp' = tmp /\ saved' = saved /\ now' = now /\ rejected' = rejected
  BY DEF Book, PositionOk
<1>4. Holds(file)' = Holds(file)
  BY <1>3 DEF Holds, LoadPosition
<1>5. PositionBounded'
  BY <1>3, <1>4 DEF EInv, PositionBounded, Bounded
<1>6. CrashWindow' /\ FileInv'
  BY <1>3, <1>4 DEF EInv, CrashWindow, FileInv
<1>7. /\ total' + rejected' <= popped' /\ popped' \in 0 .. MaxSignals
      /\ total' \in 0 .. MaxSignals
  <2>1. popped < MaxSignals /\ popped' = popped + 1 /\ total' = total + 1
    BY DEF Book
  <2>2. /\ total \in Nat /\ rejected \in Nat /\ popped \in Nat /\ MaxSignals \in Nat
        /\ total + rejected <= popped
    BY ExecutorConstants DEF EInv, TypeOK
  <2> QED BY <1>3, <2>1, <2>2
<1>8. TypeOK'
  BY <1>2, <1>3, <1>7, ExecuteWindow DEF EInv, TypeOK
<1> QED BY <1>5, <1>6, <1>7, <1>8, ExecuteWindow DEF EInv

(* The steps of persist_position, stops, crashes and the clock leave the   *)
(* accepted signals alone, and the bucket.                                 *)
LEMMA RateUntouched ==
  ASSUME EInv, UNCHANGED <<rate, accepts>>, now' \in Int, now <= now'
  PROVE  BucketInv' /\ WindowInv'
<1>1. WindowInv'
  BY DEF EInv, WindowInv, InSecond
<1>2. rate.start <= now'
  BY DEF EInv, BucketInv, Bucket, TypeOK
<1> QED BY <1>1, <1>2 DEF EInv, BucketInv, Bucket

LEMMA PersistKeeps ==
  ASSUME EInv, PersistWrite \/ PersistRename
  PROVE  EInv' /\ StaysValid
<1>1. /\ UNCHANGED <<position, rate, total, rejected, now, popped, before, accepts>>
      /\ position \in Int /\ now \in Int /\ Persist
  BY DEF PersistWrite, PersistRename, EInv, TypeOK, FileInv
<1>2. BucketInv' /\ WindowInv'
  BY <1>1, RateUntouched
<1>3. CASE PersistWrite
  <2>1. file' = file /\ Holds(file)' = Holds(file)
    BY <1>3 DEF PersistWrite, Holds, LoadPosition
  <2>2. \/ tmp' = position /\ xpc' = "rename" /\ saved' = saved
        \/ tmp' \in {tmp, Garbage} /\ xpc' = "pop" /\ saved' = FALSE
    BY <1>3 DEF PersistWrite
  <2>3. TypeOK'
    BY <1>1, <2>1, <2>2 DEF EInv, TypeOK, Files
  <2>4. PositionBounded'
    BY <1>1, <2>1 DEF EInv, PositionBounded
  <2>5. saved' => Holds(file)' = before'
    BY <1>1, <1>3, <2>1, <2>2 DEF PersistWrite, EInv, FileInv
  <2>6. CrashWindow' /\ FileInv'
    BY <1>1, <2>2, <2>5 DEF CrashWindow, FileInv
  <2> QED BY <1>1, <1>2, <2>1, <2>3, <2>4, <2>6 DEF EInv, StaysValid
<1>4. CASE PersistRename
  <2>1. /\ xpc' = "pop" /\ tmp = position
        /\ \/ file' = position /\ tmp' = NoFile /\ saved' = TRUE
           \/ saved' = FALSE /\ file' = file /\ tmp' = tmp
    BY <1>4 DEF PersistRename, EInv, FileInv
  <2>2. /\ \/ Holds(file)' = position'
           \/ saved' = FALSE /\ Holds(file)' = Holds(file)
        /\ StaysValid
    BY <1>1, <2>1 DEF Holds, LoadPosition, StaysValid
  <2>3. TypeOK'
    BY <1>1, <2>1 DEF EInv, TypeOK, Files
  <2>4. PositionBounded'
    BY <1>1, <2>2 DEF EInv, PositionBounded
  <2>5. CrashWindow' /\ FileInv'
    BY <2>1, <2>2 DEF CrashWindow, FileInv
  <2> QED BY <1>1, <1>2, <2>2, <2>3, <2>4, <2>5 DEF EInv
<1> QED BY <1>3, <1>4

LEMMA StopCrashTickKeep ==
  ASSUME EInv, Stop \/ Crash \/ Tick \/ UNCHANGED executorVars
  PROVE  EInv' /\ file' = file
<1>1. /\ UNCHANGED <<position, rate, total, rejected, file, popped, before, saved, accepts>>
      /\ xpc' \in {xpc, "down"} /\ tmp' \in {tmp, Garbage}
      /\ xpc' = "down" \/ (xpc' = xpc /\ tmp' = tmp)
      /\ now' = now \/ (now < MaxNow /\ now' = now + 1)
  BY DEF Stop, Crash, Tick, executorVars
<1>2. now' \in 0 .. MaxNow /\ now <= now'
  BY <1>1, ExecutorConstants DEF EInv, TypeOK
<1>3. BucketInv' /\ WindowInv'
  BY <1>1, <1>2, RateUntouched
<1>4. Holds(file)' = Holds(file)
  BY <1>1 DEF Holds, LoadPosition
<1>5. PositionBounded' /\ CrashWindow' /\ FileInv'
  BY <1>1, <1>4 DEF EInv, PositionBounded, CrashWindow, FileInv
<1>6. TypeOK'
  BY <1>1, <1>2 DEF EInv, TypeOK, Files
<1> QED BY <1>1, <1>3, <1>5, <1>6 DEF EInv

(* Every step of executor_thread, its file system and its clock keeps the  *)
(* inductive invariant and leaves a state file that holds a position valid. *)
LEMMA NextKeeps ==
  ASSUME EInv, [ExecutorNext]_executorVars
  PROVE  EInv' /\ StaysValid
<1>1. CASE Start
  BY <1>1, StartKeeps DEF Start, StaysValid
<1>2. CASE PersistWrite \/ PersistRename
  BY <1>2, PersistKeeps
<1>3. CASE Stop \/ Crash \/ Tick \/ UNCHANGED executorVars
  BY <1>3, StopCrashTickKeep DEF StaysValid
<1>4. ASSUME NEW side \in {"Buy", "Sell"}, NEW qty \in Quantities,
             Refuse(side, qty) \/ Book(side, qty)
      PROVE  EInv' /\ StaysValid
  <2>1. file' = file
    BY <1>4 DEF Refuse, Book
  <2> QED BY <1>4, <2>1, RefuseKeeps, ExecuteKeeps DEF StaysValid
<1> QED BY <1>1, <1>2, <1>3, <1>4 DEF ExecutorNext

-----------------------------------------------------------------------------
(* The inductive invariant holds of every behaviour of the executor. *)
THEOREM ExecutorInvariant == ExecutorSpec => []EInv
<1>1. EInv /\ [ExecutorNext]_executorVars => EInv'
  BY NextKeeps
<1> QED BY <1>1, InitEInv, PTL DEF ExecutorSpec

(* Through failed writes, crashes and restarts the position, and the one a *)
(* restart would load, stay within max_abs_position, and no second of a    *)
(* process's life sees more than twice max_signals_per_sec.                *)
THEOREM ExecutorSafe == ExecutorSpec => []ExecutorInv
<1>1. EInv => ExecutorInv
  <2> SUFFICES ASSUME EInv, NEW t \in 0 .. MaxNow
               PROVE  AcceptedIn(t) <= 2 * MaxRate
    BY DEF EInv, ExecutorInv, RateWithinTwice
  <2>1. PICK k \in Int : \A i \in 1 .. Len(accepts) :
                            InSecond(i, t) => k < i /\ i <= k + 2 * MaxRate
    BY DEF EInv, WindowInv
  <2> DEFINE S == {i \in 1 .. Len(accepts) : t <= accepts[i] /\ accepts[i] < t + Second}
  <2>2. MaxRate \in Nat /\ Len(accepts) \in Nat
    BY ExecutorConstants DEF EInv, TypeOK
  <2>3. S \subseteq (k + 1) .. (k + 2 * MaxRate)
    <3> SUFFICES ASSUME NEW i \in S PROVE i \in (k + 1) .. (k + 2 * MaxRate)
      OBVIOUS
    <3>1. InSecond(i, t) /\ i \in 1 .. Len(accepts)
      BY DEF InSecond
    <3> QED BY <2>1, <2>2, <3>1
  <2>4. /\ IsFiniteSet((k + 1) .. (k + 2 * MaxRate))
        /\ Cardinality((k + 1) .. (k + 2 * MaxRate)) <= 2 * MaxRate
    <3>1. k + 1 \in Int /\ k + 2 * MaxRate \in Int
      BY <2>2
    <3>2. Cardinality((k + 1) .. (k + 2 * MaxRate)) =
            IF k + 1 > k + 2 * MaxRate THEN 0 ELSE (k + 2 * MaxRate) - (k + 1) + 1
      BY <3>1, FS_Interval
    <3>3. IsFiniteSet((k + 1) .. (k + 2 * MaxRate))
      BY <3>1, FS_Interval
    <3>4. (IF k + 1 > k + 2 * MaxRate THEN 0 ELSE (k + 2 * MaxRate) - (k + 1) + 1) <= 2 * MaxRate
      BY <2>2
    <3> QED BY <3>2, <3>3, <3>4
  <2>5. Cardinality(S) <= Cardinality((k + 1) .. (k + 2 * MaxRate))
    BY <2>3, <2>4, FS_Subset
  <2>6. Cardinality(S) \in Nat /\ Cardinality((k + 1) .. (k + 2 * MaxRate)) \in Nat
    BY <2>3, <2>4, FS_Subset, FS_CardinalityType
  <2> QED BY <2>2, <2>4, <2>5, <2>6 DEF AcceptedIn
<1> QED BY <1>1, ExecutorInvariant, PTL

(* While no load_position or persist_position fails, the state file holds  *)
(* the position as booked, or as it was before the one signal in flight.   *)
THEOREM ExecutorCrashWindow == ExecutorSpec => []CrashWindow
<1>1. EInv => CrashWindow
  BY DEF EInv
<1> QED BY <1>1, ExecutorInvariant, PTL

(* No step tears a state file that holds a position. *)
THEOREM ExecutorFileStaysValid == ExecutorSpec => FileStaysValid
<1>1. EInv /\ [ExecutorNext]_executorVars => [StaysValid]_executorVars
  BY NextKeeps
<1> QED BY <1>1, ExecutorInvariant, PTL DEF ExecutorSpec, FileStaysValid
=============================================================================
