------------------------------ MODULE ColdStore ------------------------------
(***************************************************************************)
(* Cold storage: spill, read_file and query_cold of src/parquet.rs, with   *)
(* the merge of hot and cold that CandleStore::range makes of it.          *)
(*                                                                         *)
(* The file system is a set of files, each with the parts of its name (the *)
(* timestamp range and the collision suffix, which parse_ts_range takes    *)
(* apart again), its metadata and its rows.  A candle is its timestamp and *)
(* the number of its append, so that a corrected candle differs from the   *)
(* one it corrects.  Calls do not overlap here: CandleStore interleaves    *)
(* appends, evictions and range queries.                                   *)
(***************************************************************************)
EXTENDS Integers, Sequences, FiniteSets, FiniteSetsExt, Functions

CONSTANTS Symbols, Escape,  \* escape_symbol: the directory of each symbol
          Times,
          OldTimes, OldDirs, \* timestamps and directories of files from before
          RingCapacity,
          MaxAppends,       \* bound: candles appended
          MaxFailures       \* bound: failed spills and crashes

ASSUME ColdConstants ==
  /\ Escape \in [Symbols -> STRING]
  /\ Times \subseteq Nat /\ OldTimes \subseteq Times /\ RingCapacity \in Nat \ {0}
  /\ MaxAppends \in Nat /\ MaxFailures \in Nat

VARIABLES
  hot,       \* every symbol's ring, oldest first
  files,     \* what data_dir holds
  appended,  \* candles appended so far
  failures,  \* failed spills and crashes so far
  answer,    \* the last range query and its result, or None
  kept       \* history: per symbol, the candles appended and not lost

vars == <<hot, files, appended, failures, answer, kept>>
None == <<>>

Unknown == 9     \* a version no field holds: the key is absent
SchemaVersion == 1

(* check_schema_compat. *)
Compat(f) ==
  \/ f.brand = "absent" /\ f.version = Unknown
  \/ f.brand = "candlestore" /\ f.version # Unknown /\ f.version <= SchemaVersion

(* read_file: a file cut short has no footer and cannot be opened. *)
Readable(f) == f.whole /\ Compat(f)

-----------------------------------------------------------------------------
(* A file that is there from before: written by another version, another   *)
(* tool or by this store.  Rows that must never be served have id -1.      *)
OldFiles ==
  {[dir |-> d, lo |-> t, hi |-> t, n |-> 0, whole |-> TRUE,
    brand |-> m[1], version |-> m[2], rows |-> {[ts |-> t, id |-> m[3]]}] :
     d \in OldDirs, t \in OldTimes,
     m \in {<<"absent", Unknown, 0>>, <<"candlestore", 1, 0>>, <<"candlestore", 2, -1>>,
            <<"candlestore", Unknown, -1>>, <<"other", 1, -1>>}}

Init ==
  /\ hot = [s \in Symbols |-> <<>>] /\ kept = [s \in Symbols |-> {}]
  /\ files \in {{}} \cup {{f} : f \in OldFiles}
  /\ appended = 0 /\ failures = 0 /\ answer = None

(* The store's append to a ring, which may overwrite the oldest candle. *)
Append1(s, t) ==
  LET c    == [ts |-> t, id |-> appended + 1]
      full == Len(hot[s]) = RingCapacity
  IN  /\ appended < MaxAppends
      /\ hot' = [hot EXCEPT ![s] = Append(IF full THEN Tail(@) ELSE @, c)]
      /\ kept' = [kept EXCEPT ![s] = (IF full THEN @ \ {Head(hot[s])} ELSE @) \cup {c}]
      /\ appended' = appended + 1 /\ answer' = None
      /\ UNCHANGED <<files, failures>>

-----------------------------------------------------------------------------
(* spill: the range of the candles, whatever their order, and the first    *)
(* suffix that is free.                                                    *)
Stamps(s)        == {hot[s][i].ts : i \in DOMAIN hot[s]}
SpillRange(s)    == <<Min(Stamps(s)), Max(Stamps(s))>>
Taken(d, lo, hi) == {f.n : f \in {g \in files : g.dir = d /\ g.lo = lo /\ g.hi = hi}}
NoSuffix(d, lo, hi)   == 0                                   \* mutation: the plain name always
FreeSuffix(d, lo, hi) == Min((0 .. Cardinality(files)) \ Taken(d, lo, hi))

SpillFile(s, whole) ==
  LET lo == SpillRange(s)[1]
      hi == SpillRange(s)[2]
  IN  [dir |-> Escape[s], lo |-> lo, hi |-> hi, n |-> FreeSuffix(Escape[s], lo, hi),
       whole |-> whole, brand |-> "candlestore", version |-> SchemaVersion,
       rows |-> Range(hot[s])]

(* File::create truncates a file of the same name. *)
Created(f) == {g \in files : <<g.dir, g.lo, g.hi, g.n>> # <<f.dir, f.lo, f.hi, f.n>>} \cup {f}

(* An eviction: spilled whole, and the entry removed. *)
Spill(s) ==
  /\ hot[s] # <<>>
  /\ files' = Created(SpillFile(s, TRUE))
  /\ hot' = [hot EXCEPT ![s] = <<>>] /\ answer' = None
  /\ UNCHANGED <<appended, failures, kept>>

(* A failure before the file is created, or while it is written: the entry *)
(* stays, and so does the part of the file that was written.               *)
SpillFails(s) ==
  /\ hot[s] # <<>> /\ failures < MaxFailures
  /\ \/ UNCHANGED files
     \/ files' = Created(SpillFile(s, FALSE))
  /\ failures' = failures + 1 /\ answer' = None
  /\ UNCHANGED <<hot, appended, kept>>

(* A crash loses the rings; one in a spill leaves its file cut short, or   *)
(* whole with the entry not yet removed.                                   *)
Crash ==
  /\ failures < MaxFailures
  /\ \/ UNCHANGED files
     \/ \E s \in Symbols, whole \in BOOLEAN :
          hot[s] # <<>> /\ files' = Created(SpillFile(s, whole))
  /\ LET safe == UNION {f.rows : f \in {g \in files' : g.whole}}
     IN  kept' = [s \in Symbols |-> kept[s] \cap safe]
  /\ hot' = [s \in Symbols |-> <<>>]
  /\ failures' = failures + 1 /\ answer' = None
  /\ UNCHANGED appended

-----------------------------------------------------------------------------
(* RingBuffer::range on a ring with these contents. *)
Ring(s) == INSTANCE RingBuffer WITH
  buf <- [i \in 0 .. (RingCapacity - 1) |->
            IF i < Len(s) THEN s[i + 1] ELSE [ts |-> 0, id |-> 0]],
  head <- Len(s) % RingCapacity, len <- Len(s), lastTs <- 0, outOfOrder <- 0, hist <- <<>>,
  Capacity <- RingCapacity, NoTime <- -1, MaxPushes <- 0

(* query_cold: the rows of the files not pruned by name, in range, sorted, *)
(* one of each timestamp.  Which one survives is not specified.            *)
PrunedAtEdge(f, from, to) == f.hi <= from \/ f.lo >= to   \* mutation: <= for <
Pruned(f, from, to) == f.hi < from \/ f.lo > to
InRange(c, from, to) == from <= c.ts /\ c.ts <= to
ColdRows(s, from, to) ==
  {c \in UNION {f.rows : f \in {g \in files : g.dir = Escape[s] /\ Readable(g)
                                             /\ ~Pruned(g, from, to)}} :
     InRange(c, from, to)}
Ascending(q) == \A i \in 1 .. (Len(q) - 1) : q[i].ts < q[i + 1].ts
QueryCold(s, from, to) ==
  LET rows  == ColdRows(s, from, to)
      times == {c.ts : c \in rows}
  IN  {q \in [1 .. Cardinality(times) -> rows] :
         Ascending(q) /\ \A t \in times : \E i \in DOMAIN q : q[i].ts = t}

(* merge_by_ts: one turn of its loop, from where it stands in a and in b   *)
(* and what it has put out; on a tie b, the hot one, wins.                 *)
MergeTurn(a, b, m) ==
  IF m.i > Len(a) \/ m.j > Len(b) THEN m
  ELSE CASE a[m.i].ts < b[m.j].ts ->
              [i |-> m.i + 1, j |-> m.j, out |-> Append(m.out, a[m.i])]
         [] a[m.i].ts > b[m.j].ts ->
              [i |-> m.i, j |-> m.j + 1, out |-> Append(m.out, b[m.j])]
         [] OTHER ->
              [i |-> m.i + 1, j |-> m.j + 1, out |-> Append(m.out, b[m.j])]
MergeByTs(a, b) ==
  LET turn[n \in 0 .. (Len(a) + Len(b))] ==
        IF n = 0 THEN [i |-> 1, j |-> 1, out |-> <<>>] ELSE MergeTurn(a, b, turn[n - 1])
      end == turn[Len(a) + Len(b)]
  IN  end.out \o SubSeq(a, end.i, Len(a)) \o SubSeq(b, end.j, Len(b))

(* CandleStore::range. *)
RangeQuery(s, from, to) ==
  /\ answer = None
  /\ \E cold \in QueryCold(s, from, to) :
       answer' = [sym |-> s, from |-> from, to |-> to,
                  rows |-> MergeByTs(cold, Ring(hot[s])!RangeQuery(from, to))]
  /\ UNCHANGED <<hot, files, appended, failures, kept>>

Next ==
  \/ \E s \in Symbols, t \in Times : Append1(s, t)
  \/ \E s \in Symbols : Spill(s) \/ SpillFails(s)
  \/ Crash
  \/ \E s \in Symbols, from \in Times, to \in Times : RangeQuery(s, from, to)
  \/ answer # None /\ appended = MaxAppends /\ UNCHANGED vars  \* the appends are used up

Spec == Init /\ [][Next]_vars

-----------------------------------------------------------------------------
Rows == Range(answer.rows)

(* The ring as RingBuffer::push counts it in order: equal timestamps are.  *)
InOrder(q) == \A i \in 1 .. (Len(q) - 1) : q[i].ts <= q[i + 1].ts
HotInOrder(s) == InOrder(hot[s])

(* The type of every variable; no two files have the same name, and every  *)
(* row of a file lies in the range its name advertises.                    *)
TypeOK ==
  /\ appended \in 0 .. MaxAppends /\ failures \in 0 .. MaxFailures
  /\ \A s \in Symbols : Len(hot[s]) <= RingCapacity
  /\ \A f, g \in files : <<f.dir, f.lo, f.hi, f.n>> = <<g.dir, g.lo, g.hi, g.n>> => f = g
  /\ \A f \in files : \A c \in f.rows : f.lo <= c.ts /\ c.ts <= f.hi

(* A range query misses no timestamp: a candle that was appended in the    *)
(* range and neither overwritten in its ring nor lost in a crash is in the *)
(* answer, or another candle of its timestamp in its directory is; pruning *)
(* by file name, skipped files and the merge lose nothing.  Only a candle  *)
(* still in a ring with late candles may be missed: there the bisections   *)
(* of RingBuffer::range promise less (RingBuffer).                         *)
AnswerComplete ==
  answer # None =>
    \A c \in kept[answer.sym] :
      InRange(c, answer.from, answer.to) =>
        \/ \E r \in Rows : r.ts = c.ts
        \/ c \in Range(hot[answer.sym]) /\ ~HotInOrder(answer.sym)

(* With the ring in order, an answer is sorted, inside the range, has all  *)
(* that the ring holds there, and of a timestamp the ring holds nothing    *)
(* but the ring's candles: no stale spill shows beside a corrected one.    *)
(* "dedup by ts" is between the sides: two candles of one timestamp in the *)
(* ring are both served, and no other timestamp comes twice.               *)
AnswerFresh ==
  answer # None /\ HotInOrder(answer.sym) =>
    LET rows == answer.rows
        ring == Range(hot[answer.sym])
    IN  /\ \A i \in 1 .. (Len(rows) - 1) :
             \/ rows[i].ts < rows[i + 1].ts
             \/ rows[i].ts = rows[i + 1].ts /\ {rows[i], rows[i + 1]} \subseteq ring
        /\ \A r \in Rows : InRange(r, answer.from, answer.to)
        /\ \A r \in Rows, h \in ring : r.ts = h.ts => r \in ring
        /\ \A h \in ring : InRange(h, answer.from, answer.to) => h \in Rows

(* An answer never serves rows of a file check_schema_compat rejects.      *)
NothingAlien == answer # None => \A r \in Rows : r.id >= 0

(* "Read candles from all cold files for a symbol": an answer holds        *)
(* candles of its symbol and files from before, and of another symbol only *)
(* when escape_symbol gives the two one directory, as it does BTC/USDT and *)
(* BTC:USDT.                                                               *)
OwnCandles ==
  answer # None =>
    \A r \in Rows, s \in Symbols :
      r \in kept[s] => s = answer.sym \/ Escape[s] = Escape[answer.sym]

(* A range query over hot and cold is complete and fresh, and holds        *)
(* nothing from elsewhere.                                                 *)
AnswerRight == TypeOK /\ AnswerComplete /\ AnswerFresh /\ NothingAlien /\ OwnCandles

(* No file that can be read is ever truncated, renamed or removed: a spill *)
(* finds a name of its own.                                                *)
FilesStay == [][\A f \in files : f.whole => f \in files']_vars

=============================================================================
