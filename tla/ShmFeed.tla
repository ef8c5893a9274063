------------------------------ MODULE ShmFeed ------------------------------
(***************************************************************************)
(* The ingestion path from process to process: the loop of feed_handler    *)
(* stamps candles and pushes them with ShmRingWriter::push_until, the      *)
(* ShmIngester thread of the hub pops them and appends them to the store.  *)
(* The ring between them is SpscRing, and every step here is one of its    *)
(* steps or leaves it be.  FeedHandler puts both processes around it.      *)
(*                                                                         *)
(* A candle is its timestamp; the store is the sequence appended to it.    *)
(***************************************************************************)
EXTENDS SpscRing

CONSTANT MaxNow   \* bound: the wall clock shows 0 .. MaxNow, in any order

ASSUME FeedConstants == /\ MaxNow \in Nat
                        /\ 0 .. (MaxNow + MaxItems) \subseteq Items

VARIABLES
  fpc,        \* "run" or "done": feed_handler's loop
  lastTs,     \* its last_ts
  stalled,    \* push_until is in its retry loop
  pushFull,   \* ShmRingWriter::push_full
  cancel,     \* the feed's shutdown flag
  ipc,        \* the ingester's place in its loop
  running,    \* ShmIngester::running
  poppedTotal,\* ShmIngester::popped
  stored      \* candles handed to store.append, in order

feedVars   == <<fpc, lastTs, stalled, pushFull, cancel>>
ingestVars == <<ipc, running, poppedTotal, stored>>
shmVars    == <<ringVars, feedVars, ingestVars>>

FeedInit ==
  /\ Init
  /\ fpc = "run" /\ lastTs = 0 /\ stalled = FALSE /\ pushFull = 0 /\ cancel = FALSE
  /\ ipc = "check" /\ running = TRUE /\ poppedTotal = 0 /\ stored = <<>>

-----------------------------------------------------------------------------
(* next_ts: the wall clock, or one past the last stamp if it went back. *)
RawClock(now, last) == now                                \* mutation: no carry
NextTs(now, last)   == IF now > last THEN now ELSE last + 1

(* The top of the loop: a new candle, pushed with push_until ... *)
FeedPush(now) ==
  /\ fpc = "run" /\ ~cancel
  /\ PushBegin(NextTs(now, lastTs))
  /\ lastTs' = NextTs(now, lastTs)
  /\ UNCHANGED <<fpc, stalled, pushFull, cancel, ingestVars>>

(* ... or the shutdown flag. *)
FeedStop ==
  /\ fpc = "run" /\ wpc = "idle" /\ cancel
  /\ fpc' = "done"
  /\ UNCHANGED <<ringVars, lastTs, stalled, pushFull, cancel, ingestVars>>

(* try_push's own steps. *)
FeedTry ==
  /\ PushLoad \/ PushWrite \/ PushWritten
  /\ UNCHANGED <<feedVars, ingestVars>>

FeedPublish ==
  /\ PushPublish
  /\ stalled' = FALSE
  /\ UNCHANGED <<fpc, lastTs, pushFull, cancel, ingestVars>>

(* The first refusal is counted, once per stall; then retry. *)
FeedStall ==
  /\ ~stalled /\ PushSpin
  /\ stalled' = TRUE /\ pushFull' = pushFull + 1
  /\ UNCHANGED <<fpc, lastTs, cancel, ingestVars>>

(* A refused retry looks at the cancel flag. *)
FeedRetry ==
  /\ stalled /\ ~cancel /\ PushSpin
  /\ UNCHANGED <<feedVars, ingestVars>>

FeedCancel ==
  /\ stalled /\ cancel /\ PushRefused
  /\ stalled' = FALSE /\ fpc' = "done"
  /\ UNCHANGED <<lastTs, pushFull, cancel, ingestVars>>

SetCancel ==
  /\ ~cancel /\ cancel' = TRUE
  /\ UNCHANGED <<ringVars, fpc, lastTs, stalled, pushFull, ingestVars>>

-----------------------------------------------------------------------------
(* The ingester: running is loaded before each try_pop and never between   *)
(* the pop and the append.                                                 *)
IngestCheck ==
  /\ ipc = "check"
  /\ ipc' = IF running THEN "pop" ELSE "exited"
  /\ UNCHANGED <<ringVars, feedVars, running, poppedTotal, stored>>

IngestTry ==
  /\ ipc = "pop"
  /\ PopLoad \/ PopRead \/ PopCopied
  /\ UNCHANGED <<feedVars, ingestVars>>

IngestNone ==
  /\ ipc = "pop" /\ PopEmpty
  /\ ipc' = "check"
  /\ UNCHANGED <<feedVars, running, poppedTotal, stored>>

(* Mutation: a stop seen after the pop leaves the loop at once. *)
IngestPopStops ==
  /\ ipc = "pop" /\ PopPublish
  /\ ipc' = IF running THEN "append" ELSE "exited"
  /\ UNCHANGED <<feedVars, running, poppedTotal, stored>>

IngestPop ==
  /\ ipc = "pop" /\ PopPublish
  /\ ipc' = "append"
  /\ UNCHANGED <<feedVars, running, poppedTotal, stored>>

IngestAppend ==
  /\ ipc = "append"
  /\ stored' = Append(stored, ritem)
  /\ ipc' = "count"
  /\ UNCHANGED <<ringVars, feedVars, running, poppedTotal>>

IngestCount ==
  /\ ipc = "count"
  /\ poppedTotal' = poppedTotal + 1
  /\ ipc' = "check"
  /\ UNCHANGED <<ringVars, feedVars, running, stored>>

(* stop_signal, or the first half of stop. *)
StopSignal ==
  /\ running /\ running' = FALSE
  /\ UNCHANGED <<ringVars, feedVars, ipc, poppedTotal, stored>>

-----------------------------------------------------------------------------
FeedLoop == FeedStop \/ FeedTry \/ FeedPublish \/ FeedStall \/ FeedRetry \/ FeedCancel
Ingest   == IngestCheck \/ IngestTry \/ IngestNone \/ IngestPop \/ IngestAppend \/ IngestCount

(* Both processes are gone. *)
Stopped == fpc = "done" /\ ipc = "exited" /\ cancel /\ ~running /\ UNCHANGED shmVars

FeedNext ==
  \/ \E now \in 0 .. MaxNow : FeedPush(now)
  \/ FeedLoop \/ SetCancel \/ Ingest \/ StopSignal \/ Stopped

FeedSpec == FeedInit /\ [][FeedNext]_shmVars

-----------------------------------------------------------------------------
(* The type of every variable of the ingestion path.                       *)
FeedTypeOK ==
  /\ fpc \in {"run", "done"} /\ lastTs \in Nat /\ stalled \in BOOLEAN
  /\ pushFull \in Nat /\ cancel \in BOOLEAN
  /\ ipc \in {"check", "pop", "append", "count", "exited"} /\ running \in BOOLEAN
  /\ poppedTotal \in Nat /\ stored \in Seq(Items)

(* Everything the ingester popped reaches the store before the thread      *)
(* leaves its loop, whenever stop_signal comes, and popped_total agrees.   *)
ExitClean ==
  /\ ipc = "exited" => stored = popped /\ poppedTotal = Len(stored)
  /\ Len(stored) <= Len(popped) /\ poppedTotal <= Len(stored)

(* The store of a hub fed by one feed_handler never meets a timestamp out  *)
(* of order, however the feed's wall clock jumps and the ring wraps.       *)
StoredInOrder ==
  \A i, j \in 1 .. Len(stored) : i < j => stored[i] < stored[j]

(* push_full counts stalls, not spins: at most one for every candle pushed, *)
(* being pushed or given up.                                               *)
StallsCounted ==
  pushFull <= Len(pushed) + IF wpc # "idle" \/ fpc = "done" THEN 1 ELSE 0

(* The state of both loops and what they count.                            *)
FeedInv == FeedTypeOK /\ StallsCounted

(* The steps of feed and ingester are steps of the SPSC ring.              *)
UsesRing == Spec

(* stop_signal reaches the ingester whether or not candles keep coming.    *)
StopExits == ~running ~> ipc = "exited"
=============================================================================
