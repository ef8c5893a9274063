------------------------------ MODULE Executor ------------------------------
(***************************************************************************)
(* The paper executor of src/bin/market_hub.rs: executor_thread with its   *)
(* risk gate, its one-second rate limiter and the position file, through   *)
(* crashes and restarts of the process.                                    *)
(*                                                                         *)
(* Quantities are integers, NaN stands for every value that is not finite; *)
(* time is counted in ticks, Second of them to a second.  A file is the    *)
(* number it parses to, Garbage for text that is not a finite number, or   *)
(* NoFile.  The gate looks only at the thread's own state and the clock,   *)
(* so a signal is checked and booked in one step; what a crash can split   *)
(* is the booking, the write of the temporary file and its rename.         *)
(***************************************************************************)
EXTENDS Integers, Sequences, FiniteSets

CONSTANTS Quantities,   \* quantities a signal may carry
          NaN, NoFile, Garbage,
          Persist,      \* POSITION_STATE_FILE is set
          MaxAbs,       \* max_abs_position
          MaxQty,       \* max_qty_per_signal
          MaxRate,      \* max_signals_per_sec
          Second,       \* ticks in a second
          MaxNow,       \* bound: the clock shows 0 .. MaxNow
          MaxSignals    \* bound: signals popped in a behaviour

ASSUME ExecutorConstants ==
  /\ Quantities \subseteq Int \cup {NaN}
  /\ NaN \notin Int /\ NoFile \notin Int /\ Garbage \notin Int
  /\ Persist \in BOOLEAN
  /\ MaxAbs \in Nat /\ MaxQty \in Int /\ MaxRate \in Nat
  /\ Second \in Nat \ {0} /\ MaxNow \in Nat /\ MaxSignals \in Nat

VARIABLES
  xpc,       \* "down", "pop", or the half of persist_position to come
  position,  \* the thread's position
  rate,      \* RateLimiter: bucket_start and count
  total,     \* total_signals
  rejected,  \* signals_rejected
  file, tmp, \* POSITION_STATE_FILE and its temporary
  now,       \* the monotonic clock
  popped,    \* signals popped so far (for the bound)
  before,    \* history: the position before the last booking
  saved,     \* history: the last load_position or persist_position succeeded
  accepts    \* history: when this process accepted its signals

executorVars == <<xpc, position, rate, total, rejected, file, tmp, now, popped,
          before, saved, accepts>>

Files == Int \cup {NoFile, Garbage}

-----------------------------------------------------------------------------
(* load_position: no file, one that does not parse to a finite number, and *)
(* one that is there and cannot be read, whatever it holds, are a flat     *)
(* position.                                                               *)
LoadPosition(f, readable) == IF readable /\ f \in Int THEN f ELSE 0
Holds(f)                  == LoadPosition(f, TRUE)

Delta(side, qty) == IF side = "Buy" THEN qty ELSE 0 - qty

(* The limiter after its roll-over at time t, and whether it has room. *)
Rolled(r, t) == IF t - r.start >= Second THEN [start |-> t, count |-> 0] ELSE r

QtyOk(qty) == qty # NaN /\ qty > 0 /\ qty <= MaxQty
GateUnsigned(p, d) == p + d <= MaxAbs          \* mutation: abs forgotten
PositionOk(p, d) == p + d <= MaxAbs /\ 0 - MaxAbs <= p + d

Room(r) == r.count < MaxRate

ExecutorInit ==
  /\ xpc = "down" /\ position = 0 /\ rate = [start |-> 0, count |-> 0]
  /\ total = 0 /\ rejected = 0
  /\ file \in {NoFile, Garbage} /\ tmp = NoFile
  /\ now = 0 /\ popped = 0 /\ before = 0 /\ saved = TRUE /\ accepts = <<>>

(* The thread starts with the position that is loaded; the read of a file  *)
(* that is there may fail.                                                 *)
Start ==
  /\ xpc = "down"
  /\ xpc' = "pop"
  /\ \E readable \in BOOLEAN :
       /\ readable \/ (Persist /\ file # NoFile)
       /\ position' = IF Persist THEN LoadPosition(file, readable) ELSE 0
       /\ saved' = readable
  /\ before' = position'
  /\ rate' = [start |-> now, count |-> 0]
  /\ total' = 0 /\ rejected' = 0 /\ accepts' = <<>>
  /\ UNCHANGED <<file, tmp, now, popped>>

(* A signal the gate refuses; only the last test touches the limiter.      *)
Refuse(side, qty) ==
  LET rolled == Rolled(rate, now)
  IN  /\ xpc = "pop" /\ popped < MaxSignals
      /\ \/ ~QtyOk(qty) /\ UNCHANGED rate
         \/ QtyOk(qty) /\ ~PositionOk(position, Delta(side, qty)) /\ UNCHANGED rate
         \/ /\ QtyOk(qty) /\ PositionOk(position, Delta(side, qty)) /\ ~Room(rolled)
            /\ rate' = rolled
      /\ popped' = popped + 1 /\ rejected' = rejected + 1
      /\ UNCHANGED <<xpc, position, total, file, tmp, now, before, saved, accepts>>

(* One it lets through: booked in memory first. *)
Book(side, qty) ==
  LET rolled == Rolled(rate, now)
  IN  /\ xpc = "pop" /\ popped < MaxSignals
      /\ QtyOk(qty) /\ PositionOk(position, Delta(side, qty)) /\ Room(rolled)
      /\ rate' = [rolled EXCEPT !.count = @ + 1]
      /\ popped' = popped + 1 /\ total' = total + 1
      /\ position' = position + Delta(side, qty) /\ before' = position
      /\ accepts' = Append(accepts, now)
      /\ xpc' = IF Persist THEN "write" ELSE "pop"
      /\ UNCHANGED <<rejected, file, tmp, now, saved>>

(* Mutation: the state file itself is overwritten, with no rename. *)
WriteInPlace ==
  /\ xpc = "write"
  /\ \/ file' = position /\ saved' = TRUE
     \/ file' = Garbage /\ saved' = FALSE
  /\ xpc' = "pop"
  /\ UNCHANGED <<position, rate, total, rejected, tmp, now, popped, before, accepts>>

(* persist_position: write the temporary file; a failure may leave part of *)
(* it behind, is counted and otherwise ignored ...                         *)
PersistWrite ==
  /\ xpc = "write"
  /\ \/ tmp' = position /\ xpc' = "rename" /\ UNCHANGED saved
     \/ tmp' \in {tmp, Garbage} /\ xpc' = "pop" /\ saved' = FALSE
  /\ UNCHANGED <<position, rate, total, rejected, file, now, popped, before, accepts>>

(* Mutation: a failed rename is taken for a success. *)
RenameUnchecked ==
  /\ xpc = "rename" /\ xpc' = "pop" /\ saved' = TRUE
  /\ \/ file' = tmp /\ tmp' = NoFile
     \/ UNCHANGED <<file, tmp>>
  /\ UNCHANGED <<position, rate, total, rejected, now, popped, before, accepts>>

(* ... then rename it over the state file. *)
PersistRename ==
  /\ xpc = "rename" /\ xpc' = "pop"
  /\ \/ file' = tmp /\ tmp' = NoFile /\ saved' = TRUE
     \/ saved' = FALSE /\ UNCHANGED <<file, tmp>>
  /\ UNCHANGED <<position, rate, total, rejected, now, popped, before, accepts>>

(* The shutdown flag seen on an empty pop. *)
Stop ==
  /\ xpc = "pop" /\ xpc' = "down"
  /\ UNCHANGED <<position, rate, total, rejected, file, tmp, now, popped,
                 before, saved, accepts>>

(* The process is killed: a write under way leaves what it had written. *)
Crash ==
  /\ xpc # "down" /\ xpc' = "down"
  /\ tmp' \in IF xpc = "write" THEN {tmp, Garbage} ELSE {tmp}
  /\ UNCHANGED <<position, rate, total, rejected, file, now, popped,
                 before, saved, accepts>>

Tick ==
  /\ now < MaxNow /\ now' = now + 1
  /\ UNCHANGED <<xpc, position, rate, total, rejected, file, tmp, popped,
                 before, saved, accepts>>

ExecutorNext ==
  \/ Start \/ PersistWrite \/ PersistRename \/ Stop \/ Crash \/ Tick
  \/ \E side \in {"Buy", "Sell"}, qty \in Quantities :
       Refuse(side, qty) \/ Book(side, qty)

ExecutorSpec == ExecutorInit /\ [][ExecutorNext]_executorVars

-----------------------------------------------------------------------------
(* The type of every variable; the bucket never counts past its maximum.   *)
TypeOK ==
  /\ xpc \in {"down", "pop", "write", "rename"}
  /\ position \in Int /\ before \in Int
  /\ rate \in [start : 0 .. MaxNow, count : 0 .. MaxRate]
  /\ total \in 0 .. MaxSignals /\ rejected \in 0 .. MaxSignals
  /\ file \in Files /\ tmp \in Files
  /\ now \in 0 .. MaxNow /\ popped \in 0 .. MaxSignals
  /\ saved \in BOOLEAN /\ accepts \in Seq(0 .. MaxNow)

(* No run of signals, failed writes, crashes and restarts takes the        *)
(* position, or the one a restart would load, past max_abs_position.       *)
Bounded(p) == 0 - MaxAbs <= p /\ p <= MaxAbs
PositionBounded == Bounded(position) /\ Bounded(Holds(file))

(* "Crash window: at most one in-flight signal between the position        *)
(* mutation and the file write": while no read or write of the state file  *)
(* fails, the file holds the position as booked, or as it was one signal   *)
(* earlier when the process died before the rename, and restarts do not    *)
(* add up.  A failed persist_position leaves the file behind the position, *)
(* and a failed load_position starts flat beside a file that says          *)
(* otherwise; either mends at the next load or persist that succeeds.      *)
CrashWindow ==
  Persist /\ saved =>
    Holds(file) \in {position, before}
    /\ (xpc = "pop" => Holds(file) = position)

(* Once the state file holds a position it always does: neither a failed   *)
(* write nor a crash leaves a torn file for load_position to read as 0.0.  *)
StaysValid == file \in Int => file' \in Int
FileStaysValid == [][StaysValid]_executorVars

AcceptedIn(t) ==
  Cardinality({i \in 1 .. Len(accepts) : t <= accepts[i] /\ accepts[i] < t + Second})

(* What a bucket that restarts at its first late signal does guarantee: at *)
(* most twice max_signals_per_sec in any second of one process's life.     *)
RateWithinTwice == \A t \in 0 .. MaxNow : AcceptedIn(t) <= 2 * MaxRate

(* The limits that every accepted signal must respect.                     *)
ExecutorInv == TypeOK /\ PositionBounded /\ RateWithinTwice
=============================================================================
