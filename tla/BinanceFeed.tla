---------------------------- MODULE BinanceFeed ----------------------------
(***************************************************************************)
(* BinanceFeed of src/feed.rs: one task that connects, appends the closed  *)
(* klines of the stream to the store, and after an error or a clean close  *)
(* sleeps and connects again.  The exchange is outside: it sends klines,   *)
(* open and closed, to the connection there is at that moment, of any      *)
(* interval: late ones and ones sent before too (PushOutcome's comment in  *)
(* ring_buffer.rs knows of Binance's late klines).                         *)
(*                                                                         *)
(* The ring is that of the subscribed symbol.  A closed kline is told from *)
(* one of the same interval by its number among all closed klines sent.    *)
(***************************************************************************)
EXTENDS RingBuffer, SequencesExt

CONSTANTS MaxFaults,   \* bound: closes, resets and refused connections
          MaxInFlight, \* bound: frames sent and not yet read
          MaxKlines    \* bound: closed klines the exchange publishes

ASSUME FeedBounds == MaxFaults \in Nat /\ MaxInFlight \in Nat /\ MaxKlines \in Nat

(* What a frame can be: a kline whose numbers parse, or parse to something *)
(* the store refuses, or do not parse; text that is no kline; a ping.      *)
Bodies == {"candle", "nan", "garbled", "other", "ping"}

VARIABLES
  conn,      \* run: "new", "connecting", "streaming", "sleeping" or "returned"
  frames,    \* frames on the way to the reader; "close" is the server's close
  faults,    \* faults so far
  published, \* history: the timestamps of the closed klines, as published
  stored,    \* history: the numbers of those appended, in that order
  missed     \* history: the numbers of those no connection carried to the reader

streamVars == <<conn, frames, faults, published, stored, missed>>

StreamInit ==
  /\ conn = "new" /\ frames = <<>> /\ faults = 0
  /\ published = <<>> /\ stored = <<>> /\ missed = {}

-----------------------------------------------------------------------------
(* run: no subscriptions is the only early return. *)
Run(subscriptions) ==
  /\ conn = "new"
  /\ conn' = IF subscriptions = 0 THEN "returned" ELSE "connecting"
  /\ UNCHANGED <<vars, frames, faults, published, stored, missed>>

Connect ==
  /\ conn = "connecting"
  /\ conn' = "streaming"
  /\ UNCHANGED <<vars, frames, faults, published, stored, missed>>

ConnectFails ==
  /\ conn = "connecting" /\ faults < MaxFaults
  /\ conn' = "sleeping" /\ faults' = faults + 1
  /\ UNCHANGED <<vars, frames, published, stored, missed>>

(* RECONNECT_DELAY is over. *)
Reconnect ==
  /\ conn = "sleeping"
  /\ conn' = "connecting"
  /\ UNCHANGED <<vars, frames, faults, published, stored, missed>>

-----------------------------------------------------------------------------
(* Mutations: an open kline is taken for closed; a clean close ends run.   *)
AnyKline(f)       == f.body = "candle"
Appends(f)        == f.body = "candle" /\ f.closed
AfterCloseReturns == "returned"
AfterClose        == "sleeping"

(* A closed kline that parses is appended under its store key; one that    *)
(* parses to a candle is_valid refuses is counted by the store and gone.   *)
ReadCandle ==
  /\ conn = "streaming" /\ frames # <<>> /\ Head(frames).body # "close"
  /\ Appends(Head(frames)) /\ Push(Head(frames).ts)
  /\ stored' = Append(stored, Head(frames).no)
  /\ frames' = Tail(frames)
  /\ UNCHANGED <<conn, faults, published, missed>>

(* Everything else is skipped, errors of parsing included. *)
ReadSkips ==
  /\ conn = "streaming" /\ frames # <<>> /\ Head(frames).body # "close"
  /\ ~Appends(Head(frames))
  /\ frames' = Tail(frames)
  /\ UNCHANGED <<vars, conn, faults, published, stored, missed>>

(* The server closed: reader.next() is None once all before it is read.    *)
ReadClose ==
  /\ conn = "streaming" /\ frames # <<>> /\ Head(frames).body = "close"
  /\ conn' = AfterClose
  /\ frames' = <<>>
  /\ UNCHANGED <<vars, faults, published, stored, missed>>

Closed(f) == f.body = "candle" /\ f.closed

(* The connection breaks: what was on the way is gone, stream_once is Err. *)
Reset ==
  /\ conn = "streaming" /\ faults < MaxFaults
  /\ conn' = "sleeping" /\ faults' = faults + 1
  /\ missed' = missed \cup {f.no : f \in {g \in ToSet(frames) : Closed(g)}}
  /\ frames' = <<>>
  /\ UNCHANGED <<vars, published, stored>>

-----------------------------------------------------------------------------
(* The exchange. *)
Closing == frames # <<>> /\ Last(frames).body = "close"

Publish(body, closed, ts) ==
  LET f    == [body |-> body, closed |-> closed, ts |-> ts, no |-> Len(published) + 1]
      sent == conn = "streaming" /\ ~Closing
  IN  /\ Len(published) < MaxKlines /\ Len(frames) < MaxInFlight
      /\ frames' = IF sent THEN Append(frames, f) ELSE frames
      /\ missed' = IF Closed(f) /\ ~sent THEN missed \cup {f.no} ELSE missed
      /\ published' = IF Closed(f) THEN Append(published, ts) ELSE published
      /\ UNCHANGED <<vars, conn, faults, stored>>

(* A stream is closed by the server after a day. *)
ServerCloses ==
  /\ conn = "streaming" /\ ~Closing /\ faults < MaxFaults
  /\ frames' = Append(frames, [body |-> "close", closed |-> FALSE, ts |-> 0, no |-> 0])
  /\ faults' = faults + 1
  /\ UNCHANGED <<vars, conn, published, stored, missed>>

-----------------------------------------------------------------------------
Feed == Connect \/ Reconnect \/ ReadCandle \/ ReadSkips \/ ReadClose

StreamNext ==
  \/ \E n \in {0, 1} : Run(n)
  \/ Feed \/ ConnectFails \/ Reset \/ ServerCloses
  \/ \E closed \in BOOLEAN, ts \in Times : Publish("candle", closed, ts)
  \/ \E body \in Bodies \ {"candle"} : Publish(body, FALSE, 0)

StreamSpec == Init /\ StreamInit /\ [][StreamNext]_<<vars, streamVars>>

-----------------------------------------------------------------------------
(* Every closed kline the exchange has published is stored once, or was    *)
(* lost with a connection, or is on the way, and the store holds them in   *)
(* the order they were sent, each with its own timestamp: a reconnect      *)
(* repeats nothing, reorders nothing and skips nothing.  A late kline, or  *)
(* one the exchange sends again, is stored as it comes.                    *)
Stored   == {stored[i] : i \in 1 .. Len(stored)}
OnTheWay == {f.no : f \in {g \in ToSet(frames) : Closed(g)}}

KlinesStored ==
  conn # "new" =>
    /\ frames # <<>> => conn = "streaming"
    /\ \A i, j \in 1 .. Len(stored) : i < j => stored[i] < stored[j]
    /\ Len(hist) = Len(stored)
    /\ Stored \cup missed \cup OnTheWay = 1 .. Len(published)
    /\ \A i \in 1 .. Len(stored) : hist[i].ts = published[stored[i]]
    /\ Stored \cap missed = {}
    /\ Stored \cap OnTheWay = {} /\ missed \cap OnTheWay = {}

(* A feed with subscriptions streams again after every error and every     *)
(* clean close, once faults stop.                                          *)
Interrupted  == conn \in {"connecting", "sleeping"} \/ Closing
FeedRecovers == Interrupted ~> (conn = "streaming" /\ ~Closing)
=============================================================================
