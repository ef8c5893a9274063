---------------------------- MODULE FeedHandler ----------------------------
(***************************************************************************)
(* The two processes around the ring of ShmFeed.  feed_handler's main      *)
(* counts its pushes, flushes the count for a 1 Hz metrics poller that     *)
(* holds a second Arc of the writer, and on shutdown joins that poller     *)
(* before it drops its own Arc, so that the last drop unlinks the segment. *)
(* In the hub a poller samples ShmRingReader::depth, one cursor after the  *)
(* other, while both sides move them.                                      *)
(***************************************************************************)
EXTENDS ShmFeed

CONSTANT FlushEvery   \* 1024: pushes between two flushes of the count

ASSUME FlushConstant == FlushEvery \in Nat \ {0}

VARIABLES
  mpc,           \* main: "loop", "flush", "join", "drop" or "gone" (returned)
  count,         \* its count of successful pushes
  candlesPushed, \* the atomic it shares with the poller
  ppc,           \* the poller: "check", "parked" or "exited"
  exported,      \* the count it last handed to the exporter
  holders,       \* who holds an Arc of the writer
  unlinked,      \* ShmRingWriter::drop ran: munmap and shm_unlink
  dpc,           \* the hub's poller: "idle", or in depth() with its head "loaded"
  dhead,         \* that head
  dpushed        \* history: the length of pushed at that load

mainVars    == <<mpc, count, candlesPushed>>
arcVars     == <<holders, unlinked>>
depthVars   == <<dpc, dhead, dpushed>>
handlerVars == <<shmVars, mainVars, ppc, exported, arcVars, depthVars>>

HandlerInit ==
  /\ FeedInit
  /\ mpc = "loop" /\ count = 0 /\ candlesPushed = 0
  /\ ppc = "check" /\ exported = 0
  /\ holders = {"main", "poller"} /\ unlinked = FALSE
  /\ dpc = "idle" /\ dhead = 0 /\ dpushed = 0

-----------------------------------------------------------------------------
(* The hot loop is at its top: the last push has been counted.             *)
AtTop == mpc = "loop" /\ count = Len(pushed)

LoopPush(now) ==
  /\ AtTop /\ FeedPush(now)
  /\ UNCHANGED <<mainVars, ppc, exported, arcVars, depthVars>>

LoopTry ==
  /\ FeedTry \/ FeedPublish \/ FeedStall \/ FeedRetry
  /\ UNCHANGED <<mainVars, ppc, exported, arcVars, depthVars>>

(* count += 1 after push_until, flushed every FlushEvery pushes.           *)
LoopCount ==
  /\ mpc = "loop" /\ count < Len(pushed)
  /\ count' = count + 1
  /\ candlesPushed' = IF (count + 1) % FlushEvery = 0 THEN count + 1 ELSE candlesPushed
  /\ UNCHANGED <<shmVars, mpc, ppc, exported, arcVars, depthVars>>

(* Mutation: push_until never looks at the flag. *)
LoopEndsAtTop ==
  /\ AtTop /\ FeedStop
  /\ mpc' = "flush"
  /\ UNCHANGED <<count, candlesPushed, ppc, exported, arcVars, depthVars>>

(* The loop ends: at its condition, or by the break after push_until gave up. *)
LoopEnds ==
  /\ AtTop /\ (FeedStop \/ FeedCancel)
  /\ mpc' = "flush"
  /\ UNCHANGED <<count, candlesPushed, ppc, exported, arcVars, depthVars>>

FinalFlush ==
  /\ mpc = "flush"
  /\ candlesPushed' = count
  /\ mpc' = "join"
  /\ UNCHANGED <<shmVars, count, ppc, exported, arcVars, depthVars>>

(* Mutation: the writer is dropped without waiting for the poller. *)
JoinSkipped ==
  /\ mpc = "join"
  /\ mpc' = "drop"
  /\ UNCHANGED <<shmVars, count, candlesPushed, ppc, exported, arcVars, depthVars>>

(* poller_join.join(), without a timeout. *)
JoinPoller ==
  /\ mpc = "join" /\ ppc = "exited"
  /\ mpc' = "drop"
  /\ UNCHANGED <<shmVars, count, candlesPushed, ppc, exported, arcVars, depthVars>>

(* An Arc goes away; the last one runs ShmRingWriter::drop. *)
DropArc(who) ==
  /\ holders' = holders \ {who}
  /\ unlinked' = (holders' = {})

(* drop(writer), and main returns: the process and every thread left of it end. *)
DropWriter ==
  /\ mpc = "drop"
  /\ DropArc("main")
  /\ mpc' = "gone"
  /\ UNCHANGED <<shmVars, count, candlesPushed, ppc, exported, depthVars>>

-----------------------------------------------------------------------------
(* spawn_metrics_poller's loop. *)
PollCheck ==
  /\ mpc # "gone" /\ ppc = "check" /\ ~cancel
  /\ ppc' = "parked"
  /\ UNCHANGED <<shmVars, mainVars, exported, arcVars, depthVars>>

PollExit ==
  /\ mpc # "gone" /\ ppc = "check" /\ cancel
  /\ ppc' = "exited"
  /\ DropArc("poller")
  /\ UNCHANGED <<shmVars, mainVars, exported, depthVars>>

(* park_timeout ends, by its second or by main's unpark: candlesPushed and *)
(* writer.stats() are read and handed to the exporter.                     *)
PollExport ==
  /\ mpc # "gone" /\ ppc = "parked"
  /\ exported' = candlesPushed
  /\ ppc' = "check"
  /\ UNCHANGED <<shmVars, mainVars, arcVars, depthVars>>

-----------------------------------------------------------------------------
(* depth(): head is loaded ... *)
DepthHead ==
  /\ dpc = "idle"
  /\ dhead' = head /\ dpushed' = Len(pushed)
  /\ dpc' = "loaded"
  /\ UNCHANGED <<shmVars, mainVars, ppc, exported, arcVars>>

(* ... then tail, and the wrapping difference is what depth() returns if   *)
(* that load is now.                                                       *)
DepthSaturated == Saturating(dhead, tail)                \* mutation
DepthNow       == Distance(dhead, tail)

(* stats() returns it; the gauge is set and the hub's poller sleeps. *)
DepthTail ==
  /\ dpc = "loaded"
  /\ dpc' = "idle" /\ dhead' = 0 /\ dpushed' = 0
  /\ UNCHANGED <<shmVars, mainVars, ppc, exported, arcVars>>

-----------------------------------------------------------------------------
(* The hub's side, and the signals either process gets. *)
HubSide ==
  /\ Ingest \/ StopSignal \/ SetCancel
  /\ UNCHANGED <<mainVars, ppc, exported, arcVars, depthVars>>

Main  == LoopTry \/ LoopCount \/ LoopEnds \/ FinalFlush \/ JoinPoller \/ DropWriter
Poll  == PollCheck \/ PollExit \/ PollExport
Depth == DepthHead \/ DepthTail

AllGone == mpc = "gone" /\ Stopped /\ UNCHANGED <<mainVars, ppc, exported, arcVars, depthVars>>

HandlerNext ==
  \/ \E now \in 0 .. MaxNow : LoopPush(now)
  \/ Main \/ Poll \/ Depth \/ HubSide \/ AllGone

HandlerSpec == HandlerInit /\ [][HandlerNext]_handlerVars

(* The threads of both processes are scheduled; no signal need ever come,  *)
(* and the feed need not produce a next candle.                            *)
HandlerFair ==
  /\ HandlerSpec
  /\ WF_handlerVars(Main) /\ WF_handlerVars(Poll)
  /\ WF_handlerVars(Ingest /\ UNCHANGED <<mainVars, ppc, exported, arcVars, depthVars>>)

-----------------------------------------------------------------------------
(* The type of every variable around the feed's loop.                      *)
HandlerTypeOK ==
  /\ mpc \in {"loop", "flush", "join", "drop", "gone"}
  /\ count \in Nat /\ candlesPushed \in Nat
  /\ ppc \in {"check", "parked", "exited"} /\ exported \in Nat
  /\ holders \subseteq {"main", "poller"} /\ unlinked \in BOOLEAN
  /\ dpc \in {"idle", "loaded"}
  /\ dhead \in 0 .. (CursorMod - 1) /\ dpushed \in Nat

(* The segment is unlinked while main still runs and by its last Arc: main *)
(* never returns with the name left behind, the poller never meets an      *)
(* unmapped ring, and no push comes after the unlink.                      *)
UnlinkedOnExit ==
  /\ mpc = "gone" => unlinked
  /\ unlinked => holders = {} /\ ppc = "exited" /\ fpc = "done"

(* The shared count lags the pushes by at most one flush, never leads      *)
(* them, and is complete from the final flush on.  What the poller has     *)
(* exported never leads it; it need not be complete in the end: a poller   *)
(* that finds the flag first leaves without reading the final flush.       *)
CountFlushed ==
  /\ exported <= candlesPushed /\ candlesPushed <= Len(pushed)
  /\ Len(pushed) - candlesPushed <= FlushEvery
  /\ mpc \in {"join", "drop", "gone"} => candlesPushed = Len(pushed)

(* The two processes are those of ShmFeed and drive the ring as it does.   *)
UsesFeed == FeedSpec

(* What main, its poller and push_until keep between them.                 *)
HandlerInv == FeedInv /\ HandlerTypeOK /\ UnlinkedOnExit /\ CountFlushed

(* What depth() returns is the head's count less the tail's, never more    *)
(* than the ring's depth at either load, so within the capacity, across    *)
(* the cursors' wrap: unless the reader has popped past the head loaded.   *)
DepthHonest ==
  dpc = "loaded" /\ Len(popped) <= dpushed =>
    /\ DepthNow = dpushed - Len(popped)
    /\ DepthNow <= Capacity

(* A signal ends feed_handler, segment unlinked, even on a full ring with  *)
(* nobody reading; stop_signal ends the ingester.                          *)
FeedExits == cancel ~> (mpc = "gone" /\ unlinked)
LoopsEnd  == FeedExits /\ StopExits
=============================================================================
