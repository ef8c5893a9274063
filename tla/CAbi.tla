-------------------------------- MODULE CAbi --------------------------------
(***************************************************************************)
(* The C ABI of src/ffi.rs over one symbol's ring, and the Go client that  *)
(* wraps it.  One goroutine appends while another asks RangeN, which calls *)
(* candlestore_range with a buffer and doubles it as long as the answer    *)
(* fills it: the appends go on between its calls.                          *)
(***************************************************************************)
EXTENDS RingBuffer, SequencesExt, FiniteSetsExt

CONSTANTS DefaultRangeCap,  \* 4096
          MaxRangeCap,      \* 10 000 000
          Asked,            \* capacities callers pass to RangeN and candlestore_range
          Windows           \* the [from, to] they ask for

ASSUME AbiConstants ==
  /\ DefaultRangeCap \in 1 .. MaxRangeCap /\ MaxRangeCap \in Nat
  /\ Asked \subseteq Int /\ Windows \subseteq [from : Times, to : Times]

VARIABLES
  ptr,      \* Store.ptr: "none" before New, then "live" or "null"
  rpc,      \* the reader: "idle", in RangeN at the "call", "answered" by it, or
            \* "returned" from a candlestore_range of its own
  window,   \* the window asked for
  max,      \* the capacity of the buffer passed
  answer,   \* the candles handed to the caller; empty for nil
  matching  \* history: what the store held for the window at the last call

readVars == <<rpc, window, max, answer, matching>>
abiVars  == <<ptr, readVars>>

NoWindow == [from |-> 0, to |-> 0]

AbiInit ==
  /\ Init /\ ptr = "none"
  /\ rpc = "idle" /\ window = NoWindow /\ max = 0 /\ answer = <<>> /\ matching = <<>>

-----------------------------------------------------------------------------
(* candlestore_new and candlestore_new_hardware: null for max_symbols <= 0. *)
New(maxSymbols) ==
  /\ ptr = "none"
  /\ ptr' = IF maxSymbols <= 0 THEN "null" ELSE "live"
  /\ UNCHANGED <<vars, readVars>>

(* candlestore_free by Close, whose contract bars a call under way. *)
Close ==
  /\ ptr = "live" /\ rpc # "call"
  /\ ptr' = "null"
  /\ UNCHANGED <<vars, readVars>>

(* candlestore_append of a candle that is_valid accepts ... *)
AppendCandle(t) ==
  /\ ptr = "live" /\ Push(t)
  /\ UNCHANGED abiVars

(* ... and one that changes nothing: a null pointer or a symbol that is    *)
(* not UTF-8 (-1), or a candle the store refuses (0 all the same).         *)
AppendRefused == ptr # "none" /\ UNCHANGED <<vars, abiVars>>

-----------------------------------------------------------------------------
(* The value of candlestore_range, for what the store found. *)
RangeCount(found, maxLen) ==
  IF ptr # "live" \/ maxLen < 0 THEN -1 ELSE Min({Len(found), maxLen})

(* A C caller's candlestore_range with a buffer of maxLen candles. *)
CRange(w, maxLen) ==
  LET found == RangeQuery(w.from, w.to)
      count == RangeCount(found, maxLen)
  IN  /\ ptr # "none" /\ rpc = "idle"
      /\ window' = w /\ max' = maxLen
      /\ answer' = SubSeq(found, 1, count)
      /\ matching' = IF ptr = "live" THEN found ELSE <<>>
      /\ rpc' = "returned"
      /\ UNCHANGED <<vars, ptr>>

(* RangeN: the capacity asked for is clamped. *)
Clamped(asked) == IF asked <= 0 THEN DefaultRangeCap ELSE Min({asked, MaxRangeCap})

RangeN(w, asked) ==
  /\ ptr # "none" /\ rpc = "idle"
  /\ window' = w /\ max' = Clamped(asked)
  /\ rpc' = "call"
  /\ UNCHANGED <<vars, ptr, answer, matching>>

(* Mutation: a full buffer is taken for the whole answer. *)
NeverGrows(count) == FALSE
Grows(count)      == count = max /\ max < MaxRangeCap

(* A full buffer may be truncated: retry with twice the room. *)
RangeGrows ==
  LET found == RangeQuery(window.from, window.to)
      count == RangeCount(found, max)
  IN  /\ rpc = "call" /\ count > 0 /\ Grows(count)
      /\ max' = Min({2 * max, MaxRangeCap})
      /\ UNCHANGED <<vars, ptr, rpc, window, answer, matching>>

(* Nothing found, an error, or an answer that is taken for whole. *)
RangeAnswers ==
  LET found == RangeQuery(window.from, window.to)
      count == RangeCount(found, max)
  IN  /\ rpc = "call" /\ (count <= 0 \/ ~Grows(count))
      /\ answer' = IF count <= 0 THEN <<>> ELSE SubSeq(found, 1, count)
      /\ matching' = IF ptr = "live" THEN found ELSE <<>>
      /\ rpc' = "answered"
      /\ UNCHANGED <<vars, ptr, window, max>>

(* The caller is done with the candles. *)
RangeTaken ==
  /\ rpc \in {"answered", "returned"}
  /\ rpc' = "idle" /\ window' = NoWindow /\ max' = 0 /\ answer' = <<>> /\ matching' = <<>>
  /\ UNCHANGED <<vars, ptr>>

-----------------------------------------------------------------------------
RangeCall == RangeGrows \/ RangeAnswers

AbiNext ==
  \/ \E n \in {0, 1} : New(n)
  \/ Close
  \/ \E t \in Times : AppendCandle(t)
  \/ AppendRefused
  \/ \E w \in Windows, n \in Asked : CRange(w, n) \/ RangeN(w, n)
  \/ RangeCall \/ RangeTaken

AbiSpec == AbiInit /\ [][AbiNext]_<<vars, abiVars>>

-----------------------------------------------------------------------------
(* The type of every variable of the client and the ABI.                   *)
AbiTypeOK ==
  /\ ptr \in {"none", "live", "null"} /\ rpc \in {"idle", "call", "answered", "returned"}
  /\ window \in Windows \cup {NoWindow}
  /\ rpc = "call" => max \in 1 .. MaxRangeCap

(* What RangeN returns is what the store holds for the window at its last  *)
(* call, in order and whole, while appends and overwrites went on between  *)
(* its calls; only an answer of maxRangeCap candles may be cut short.      *)
RangeWhole ==
  rpc = "answered" =>
    /\ IsPrefix(answer, matching)
    /\ answer = matching \/ Len(answer) = MaxRangeCap

(* candlestore_range fills the caller's buffer with the oldest matches and *)
(* never writes past it; of a negative length it writes nothing.           *)
BufferKept ==
  rpc = "returned" =>
    /\ IsPrefix(answer, matching)
    /\ Len(answer) <= Max({max, 0})
    /\ max > Len(answer) => answer = matching

AbiExact == AbiTypeOK /\ RangeWhole /\ BufferKept

(* RangeN returns, however fast the other goroutine appends.               *)
RangeReturns == rpc = "call" ~> rpc = "answered"
=============================================================================
