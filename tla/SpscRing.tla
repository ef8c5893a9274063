------------------------------ MODULE SpscRing ------------------------------
(***************************************************************************)
(* The single-producer single-consumer ring of src/shm.rs: SpscWriter and  *)
(* SpscReader on a heap ring, and with the same steps ShmRingWriter and    *)
(* ShmRingReader on a shared segment.                                      *)
(*                                                                         *)
(* One writer and one reader run at once and share only the slots and two  *)
(* cursors.  A slot access is not atomic: it takes a begin and an end step *)
(* and a slot being written holds Torn, so an access the cursors fail to   *)
(* order is a state, not an assumption.  A cursor load happens before the  *)
(* step that uses it and may be stale by then.  Cursors are u64 and wrap:  *)
(* CursorMod stands for 2^64.                                              *)
(***************************************************************************)
EXTENDS Integers, Sequences

CONSTANTS Items,      \* payloads
          Torn,       \* a slot in the middle of a write
          Default,    \* T::default(), what a fresh slot holds
          Capacity,   \* slots, a power of two
          CursorMod,  \* 2^64: cursors wrap at it
          MaxItems    \* bound: pushes started in a behaviour

ASSUME RingConstants ==
  /\ Torn \notin Items /\ Default \notin Items
  /\ Capacity \in Nat \ {0}
  /\ CursorMod \in Nat /\ CursorMod > Capacity /\ CursorMod % Capacity = 0
  /\ MaxItems \in Nat

VARIABLES
  head, tail,     \* the cursors: next slot to write, next slot to read
  slots,
  wpc, witem,     \* the writer's place in try_push and the item it pushes
  wtail,          \* the tail it loaded
  rpc, ritem,     \* the reader's place in try_pop and the item it copied
  rhead,          \* the head it loaded
  pushed, popped, \* history: items published by the writer, taken by the reader
  wseen, rseen    \* history: lengths of popped and pushed at those loads

cursorVars == <<head, tail, slots>>
writerVars == <<wpc, witem, wtail, wseen, pushed>>
readerVars == <<rpc, ritem, rhead, rseen, popped>>
ringVars   == <<cursorVars, writerVars, readerVars>>

-----------------------------------------------------------------------------
Wrapped(c)        == (c + 1) % CursorMod               \* wrapping_add(1)
Saturating(h, t)  == IF h >= t THEN h - t ELSE 0       \* mutation: saturating_sub
Distance(h, t)    == (h - t) % CursorMod               \* wrapping_sub
FullLate(h, t)    == Distance(h, t) > Capacity         \* mutation: > for >=
Full(h, t)        == Distance(h, t) >= Capacity
Empty(h, t)       == h = t
Slot(c)           == c % Capacity                      \* c & (capacity - 1)

Init ==
  /\ head = 0 /\ tail = 0
  /\ slots = [i \in 0 .. (Capacity - 1) |-> Default]
  /\ wpc = "idle" /\ witem = Default /\ wtail = 0 /\ wseen = 0
  /\ rpc = "idle" /\ ritem = Default /\ rhead = 0 /\ rseen = 0
  /\ pushed = <<>> /\ popped = <<>>

-----------------------------------------------------------------------------
(* try_push: load both cursors, give up on a full ring, write the slot,    *)
(* publish the head.                                                       *)
PushBegin(x) ==
  /\ wpc = "idle" /\ Len(pushed) < MaxItems
  /\ witem' = x
  /\ wpc' = "load"
  /\ UNCHANGED <<cursorVars, wtail, wseen, pushed, readerVars>>

PushLoad ==
  /\ wpc = "load"
  /\ wtail' = tail /\ wseen' = Len(popped)
  /\ wpc' = "loaded"
  /\ UNCHANGED <<cursorVars, witem, pushed, readerVars>>

PushWrite ==
  /\ wpc = "loaded" /\ ~Full(head, wtail)
  /\ slots' = [slots EXCEPT ![Slot(head)] = Torn]
  /\ wpc' = "writing"
  /\ UNCHANGED <<head, tail, witem, wtail, wseen, pushed, readerVars>>

PushWritten ==
  /\ wpc = "writing"
  /\ slots' = [slots EXCEPT ![Slot(head)] = witem]
  /\ wpc' = "publish"
  /\ UNCHANGED <<head, tail, witem, wtail, wseen, pushed, readerVars>>

PushPublish ==
  /\ wpc = "publish"
  /\ head' = Wrapped(head)
  /\ pushed' = Append(pushed, witem)
  /\ wpc' = "idle"
  /\ UNCHANGED <<tail, slots, witem, wtail, wseen, readerVars>>

(* A full ring: try_push returns false ... *)
PushRefused ==
  /\ wpc = "loaded" /\ Full(head, wtail)
  /\ wpc' = "idle"
  /\ UNCHANGED <<cursorVars, witem, wtail, wseen, pushed, readerVars>>

(* ... and push spins on it. *)
PushSpin ==
  /\ wpc = "loaded" /\ Full(head, wtail)
  /\ wpc' = "load"
  /\ UNCHANGED <<cursorVars, witem, wtail, wseen, pushed, readerVars>>

-----------------------------------------------------------------------------
(* try_pop: load both cursors, give up on an empty ring, copy the slot out, *)
(* publish the tail.                                                       *)
PopLoad ==
  /\ rpc = "idle"
  /\ rhead' = head /\ rseen' = Len(pushed)
  /\ rpc' = "loaded"
  /\ UNCHANGED <<cursorVars, ritem, popped, writerVars>>

PopEmpty ==
  /\ rpc = "loaded" /\ Empty(rhead, tail)
  /\ rpc' = "idle"
  /\ UNCHANGED <<cursorVars, ritem, rhead, rseen, popped, writerVars>>

PopRead ==
  /\ rpc = "loaded" /\ ~Empty(rhead, tail)
  /\ rpc' = "reading"
  /\ UNCHANGED <<cursorVars, ritem, rhead, rseen, popped, writerVars>>

PopCopied ==
  /\ rpc = "reading"
  /\ ritem' = slots[Slot(tail)]
  /\ rpc' = "publish"
  /\ UNCHANGED <<cursorVars, rhead, rseen, popped, writerVars>>

PopPublish ==
  /\ rpc = "publish"
  /\ tail' = Wrapped(tail)
  /\ popped' = Append(popped, ritem)
  /\ rpc' = "idle"
  /\ UNCHANGED <<head, slots, ritem, rhead, rseen, writerVars>>

-----------------------------------------------------------------------------
TryPush == PushLoad \/ PushWrite \/ PushWritten \/ PushPublish
TryPop  == PopLoad \/ PopEmpty \/ PopRead \/ PopCopied \/ PopPublish

Next == (\E x \in Items : PushBegin(x)) \/ TryPush \/ PushRefused \/ PushSpin \/ TryPop

Spec == Init /\ [][Next]_ringVars

-----------------------------------------------------------------------------
(* The type of every variable; the cursors stay u64.                       *)
TypeOK ==
  /\ head \in 0 .. (CursorMod - 1) /\ tail \in 0 .. (CursorMod - 1)
  /\ slots \in [0 .. (Capacity - 1) -> Items \cup {Torn, Default}]
  /\ wpc \in {"idle", "load", "loaded", "writing", "publish"}
  /\ rpc \in {"idle", "loaded", "reading", "publish"}
  /\ witem \in Items \cup {Default}
  /\ ritem \in Items \cup {Torn, Default}
  /\ wtail \in 0 .. (CursorMod - 1) /\ rhead \in 0 .. (CursorMod - 1)
  /\ pushed \in Seq(Items)
  /\ popped \in Seq(Items \cup {Torn, Default})
  /\ wseen \in Nat /\ rseen \in Nat

(* The SAFETY comments of try_push and try_pop: the writer and the reader  *)
(* are never inside the same slot, however stale the cursor each loaded.   *)
NoSlotRace == ~(wpc = "writing" /\ rpc = "reading" /\ Slot(head) = Slot(tail))

(* The reader takes exactly what the writer published, in order: nothing   *)
(* lost, duplicated, torn or overtaken, across any number of wraps.        *)
InOrder ==
  /\ Len(popped) <= Len(pushed)
  /\ \A i \in 1 .. Len(popped) : popped[i] = pushed[i]

(* The ring implements the bounded queue: publishing the head is the put,  *)
(* publishing the tail is the get.                                         *)
Queue == INSTANCE Fifo WITH
  Bound <- Capacity, taken <- popped,
  queue <- SubSeq(pushed, Len(popped) + 1, Len(pushed))
ImplementsFifo == Queue!Spec
=============================================================================
