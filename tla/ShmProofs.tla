----------------------------- MODULE ShmProofs -----------------------------
(***************************************************************************)
(* For any capacity, cursor width, clock, flush interval and number of     *)
(* candles.  Of SpscRing: writer and reader are never in one slot, the     *)
(* reader takes what the writer published in order, and the ring           *)
(* implements a bounded queue.  Of ShmFeed: feed and ingester use the ring *)
(* as its one writer and its one reader, so what is proved of the ring     *)
(* holds of the segment between them; the ingester leaves nothing it       *)
(* popped behind; the store is fed in timestamp order; push_full counts    *)
(* stalls.  Of FeedHandler: the two processes do to the ring only what     *)
(* ShmFeed does; main never leaves the segment's name behind and exports   *)
(* an honest count; a depth() sample is right unless the reader overtook   *)
(* it.                                                                     *)
(* Of ShmSegment, for any number of producers, readers, segments and       *)
(* capacities, with crashes, failed system calls and removals at every     *)
(* step: two producers that called create never lay out one segment, and   *)
(* until create_force is used the name stays with the live producer and a  *)
(* reader that attached maps a segment laid out once and for it.           *)
(***************************************************************************)
EXTENDS FeedHandler, ShmSegment, NatLemmas, SequenceTheorems, TLAPS

(* The cursors are the lengths of the histories, modulo the cursor width.  *)
CursorInv ==
  /\ head = Len(pushed) % CursorMod /\ tail = Len(popped) % CursorMod
  /\ Len(popped) <= Len(pushed) /\ Len(pushed) <= Len(popped) + Capacity

(* A loaded cursor is an older one: enough room seen is room still there.  *)
WriterInv ==
  /\ wpc # "idle" => witem \in Items
  /\ wpc = "loaded" => /\ wseen <= Len(popped) /\ Len(pushed) <= wseen + Capacity
                       /\ wtail = wseen % CursorMod
  /\ wpc \in {"writing", "publish"} => Len(pushed) < Len(popped) + Capacity
  /\ wpc = "publish" => slots[Slot(head)] = witem

ReaderInv ==
  /\ rpc = "loaded" => /\ Len(popped) <= rseen /\ rseen <= Len(pushed)
                       /\ rhead = rseen % CursorMod
  /\ rpc \in {"reading", "publish"} => Len(popped) < Len(pushed)
  /\ rpc = "publish" => ritem = pushed[Len(popped) + 1]

(* Every item published and not yet taken is whole, in its own slot. *)
SlotInv ==
  \A i \in (Len(popped) + 1) .. Len(pushed) : slots[(i - 1) % Capacity] = pushed[i]

RInv == TypeOK /\ CursorInv /\ WriterInv /\ ReaderInv /\ SlotInv /\ InOrder

-----------------------------------------------------------------------------
(* Arithmetic of wrapped cursors. *)

(* The constants as the proofs use them. *)
LEMMA Widths == /\ Capacity \in Nat \ {0} /\ CursorMod \in Nat \ {0}
                /\ CursorMod > Capacity
BY RingConstants

(* A wrapped count is a cursor. *)
LEMMA RemainderOf ==
  ASSUME NEW a \in Nat
  PROVE  a % CursorMod \in 0 .. (CursorMod - 1)
BY DivMod, Widths

(* wrapping_add(1) is the successor of a wrapped count. *)
LEMMA WrappedNext ==
  ASSUME NEW a \in Nat
  PROVE  Wrapped(a % CursorMod) = (a + 1) % CursorMod
BY Widths, NextRemainder DEF Wrapped

(* wrapping_sub of two wrapped counts is their difference. *)
LEMMA DistanceOf ==
  ASSUME NEW a \in Nat, NEW b \in Nat, b <= a, a - b < CursorMod
  PROVE  Distance(a % CursorMod, b % CursorMod) = a - b
<1> DEFINE m == CursorMod
<1>1. m \in Nat \ {0} /\ a - b \in 0 .. (m - 1)
  BY Widths
<1>2. /\ a = m * (a \div m) + (a % m) /\ a \div m \in Nat /\ a % m \in Nat
      /\ b = m * (b \div m) + (b % m) /\ b \div m \in Nat /\ b % m \in Nat
  BY <1>1, DivMod
<1> DEFINE qa == a \div m
<1> DEFINE qb == b \div m
<1> DEFINE ra == a % m
<1> DEFINE rb == b % m
<1>3. /\ a = m * qa + ra /\ qa \in Nat /\ ra \in Nat
      /\ b = m * qb + rb /\ qb \in Nat /\ rb \in Nat
  BY <1>2
<1> HIDE DEF qa, qb, ra, rb
<1>4. ra - rb = m * (qb - qa) + (a - b)
  BY <1>1, <1>3
<1>5. (m * (qb - qa) + (a - b)) % m = a - b
  <2>1. qb - qa \in Int
    BY <1>3
  <2> HIDE DEF m
  <2> QED BY <1>1, <2>1, ModOf
<1>6. (ra - rb) % m = a - b
  BY <1>4, <1>5
<1> QED BY <1>6 DEF Distance, ra, rb

(* The mask of a wrapped count is the count modulo the capacity. *)
LEMMA SlotOf ==
  ASSUME NEW a \in Nat
  PROVE  Slot(a % CursorMod) = a % Capacity /\ a % Capacity \in 0 .. (Capacity - 1)
<1> DEFINE m == CursorMod
<1> DEFINE n == Capacity
<1>1. m \in Nat \ {0} /\ n \in Nat \ {0}
  BY Widths
<1>2. PICK k \in Nat : m = n * k
  <2>1. m = n * (m \div n) + (m % n) /\ m \div n \in Nat
    BY <1>1, DivMod
  <2>2. m % n = 0
    BY RingConstants
  <2> QED BY <1>1, <2>1, <2>2
<1>3. PICK q \in Nat, r \in 0 .. (m - 1) : a = m * q + r /\ r = a % m
  BY <1>1, DivMod
<1>4. PICK p \in Nat, s \in 0 .. (n - 1) : r = n * p + s /\ s = r % n
  <2>1. r \in Nat
    BY <1>1
  <2> QED BY <1>1, <2>1, DivMod
<1>5. a = n * (k * q + p) + s
  <2>1. m * q = n * (k * q) /\ k * q \in Nat
    BY <1>1, <1>2
  <2>2. n * (k * q + p) = n * (k * q) + n * p
    BY <1>1, <2>1, Distributes
  <2> DEFINE x == n * (k * q)
  <2> DEFINE y == n * p
  <2> DEFINE z == n * (k * q + p)
  <2>3. a = x + (y + s) /\ z = x + y
    BY <1>3, <1>4, <2>1, <2>2, Zenon
  <2>4. x \in Nat /\ y \in Nat /\ s \in Nat
    BY <1>1, <2>1
  <2> HIDE DEF x, y, z
  <2>5. a = z + s
    BY <2>3, <2>4
  <2> QED BY <2>5 DEF z
<1>6. k * q + p \in Int
  OBVIOUS
<1>7. a % n = s
  BY <1>1, <1>5, <1>6, ModOf
<1> QED BY <1>1, <1>3, <1>4, <1>7 DEF Slot

(* Counts less than a ring apart are in different slots. *)
LEMMA SlotsApart ==
  ASSUME NEW a \in Nat, NEW b \in Nat, b < a, a - b < Capacity
  PROVE  a % Capacity # b % Capacity
BY Widths, RemaindersApart

-----------------------------------------------------------------------------
(* Every step preserves the invariant. *)

(* The lengths of the histories are naturals. *)
LEMMA Counts ==
  ASSUME TypeOK
  PROVE  /\ Len(pushed) \in Nat /\ Len(popped) \in Nat
         /\ Capacity \in Nat \ {0} /\ CursorMod \in Nat \ {0} /\ CursorMod > Capacity
BY Widths DEF TypeOK

(* Steps that move neither cursor nor slot: a cursor loaded now is exact,  *)
(* and no cursor moves backwards.                                          *)
LEMMA LoadKeeps ==
  ASSUME RInv,
         \/ \E x \in Items : PushBegin(x)
         \/ PushLoad \/ PushRefused \/ PushSpin \/ PopLoad \/ PopEmpty
  PROVE  RInv'
<1>1. TypeOK'
  BY Counts DEF RInv, TypeOK, PushBegin, PushLoad, PushRefused, PushSpin, PopLoad,
     PopEmpty, cursorVars, readerVars, writerVars
<1>2. CursorInv' /\ SlotInv' /\ InOrder'
  BY DEF RInv, CursorInv, SlotInv, InOrder, PushBegin, PushLoad, PushRefused, PushSpin,
     PopLoad, PopEmpty, cursorVars, readerVars, writerVars
<1>3. WriterInv'
  BY Counts DEF RInv, CursorInv, WriterInv, Slot, PushBegin, PushLoad, PushRefused,
     PushSpin, PopLoad, PopEmpty, cursorVars, readerVars, writerVars
<1>4. ReaderInv'
  BY Counts DEF RInv, CursorInv, ReaderInv, PushBegin, PushLoad, PushRefused,
     PushSpin, PopLoad, PopEmpty, cursorVars, readerVars, writerVars
<1> QED BY <1>1, <1>2, <1>3, <1>4 DEF RInv

(* The slot at head is not one the reader may be in or has yet to read. *)
LEMMA HeadSlotFree ==
  ASSUME RInv, Len(pushed) < Len(popped) + Capacity
  PROVE  /\ Slot(head) = Len(pushed) % Capacity /\ Slot(head) \in 0 .. (Capacity - 1)
         /\ \A i \in (Len(popped) + 1) .. Len(pushed) : (i - 1) % Capacity # Slot(head)
         /\ \A i \in (Len(popped) + 1) .. Len(pushed) :
              (i - 1) % Capacity \in 0 .. (Capacity - 1)
<1> DEFINE P == Len(pushed)
<1> DEFINE C == Len(popped)
<1>1. P \in Nat /\ C \in Nat /\ C <= P /\ P < C + Capacity /\ head = P % CursorMod
      /\ Capacity \in Nat \ {0}
  BY Counts DEF RInv, CursorInv
<1>2. Slot(head) = P % Capacity /\ Slot(head) \in 0 .. (Capacity - 1)
  BY <1>1, SlotOf
<1>3. ASSUME NEW i \in (C + 1) .. P
      PROVE  (i - 1) % Capacity # P % Capacity /\ (i - 1) % Capacity \in 0 .. (Capacity - 1)
  <2>1. i - 1 \in Nat /\ i - 1 < P /\ P - (i - 1) < Capacity
    BY <1>1
  <2> QED BY <1>1, <2>1, SlotsApart, SlotOf
<1> QED BY <1>2, <1>3

(* A slot write lands in the free slot. *)
LEMMA WriteKeeps ==
  ASSUME RInv, PushWrite \/ PushWritten
  PROVE  RInv'
<1>1. Len(pushed) < Len(popped) + Capacity
  <2>1. CASE PushWritten
    BY <2>1 DEF RInv, WriterInv, PushWritten
  <2>2. CASE PushWrite
    <3>1. /\ wseen \in Nat /\ wseen <= Len(popped) /\ Len(popped) <= Len(pushed)
          /\ Len(pushed) <= wseen + Capacity
          /\ head = Len(pushed) % CursorMod /\ wtail = wseen % CursorMod
      BY <2>2 DEF RInv, TypeOK, CursorInv, WriterInv, PushWrite
    <3>2. Distance(head, wtail) = Len(pushed) - wseen
      BY <3>1, Counts, DistanceOf DEF RInv
    <3> QED BY <2>2, <3>1, <3>2, Counts DEF RInv, PushWrite, Full
  <2> QED BY <2>1, <2>2
<1>2. \A i \in (Len(popped) + 1) .. Len(pushed) :
        (i - 1) % Capacity # Slot(head) /\ (i - 1) % Capacity \in 0 .. (Capacity - 1)
  BY <1>1, HeadSlotFree
<1>3. Slot(head) \in 0 .. (Capacity - 1)
  BY <1>1, HeadSlotFree
<1>4. TypeOK'
  BY <1>3 DEF RInv, TypeOK, WriterInv, PushWrite, PushWritten, readerVars
<1>5. CursorInv' /\ InOrder'
  BY DEF RInv, CursorInv, InOrder, PushWrite, PushWritten, readerVars
<1>6. SlotInv'
  BY <1>2 DEF RInv, TypeOK, SlotInv, PushWrite, PushWritten, readerVars
<1>7. WriterInv'
  BY <1>1, <1>3 DEF RInv, TypeOK, WriterInv, PushWrite, PushWritten, readerVars, Slot
<1>8. ReaderInv'
  BY DEF RInv, ReaderInv, PushWrite, PushWritten, readerVars
<1> QED BY <1>4, <1>5, <1>6, <1>7, <1>8 DEF RInv

(* Publishing the head hands over one whole item. *)
LEMMA PushPublishKeeps ==
  ASSUME RInv, PushPublish
  PROVE  RInv'
<1> DEFINE P == Len(pushed)
<1> DEFINE C == Len(popped)
<1>1. /\ P \in Nat /\ C \in Nat /\ C <= P /\ P < C + Capacity /\ witem \in Items
      /\ head = P % CursorMod /\ slots[Slot(head)] = witem /\ pushed \in Seq(Items)
  BY Counts DEF RInv, TypeOK, CursorInv, WriterInv, PushPublish
<1>2. /\ pushed' \in Seq(Items) /\ Len(pushed') = P + 1 /\ pushed'[P + 1] = witem
      /\ \A i \in 1 .. P : pushed'[i] = pushed[i]
  BY <1>1 DEF PushPublish
<1>3. head' = (P + 1) % CursorMod /\ head' \in 0 .. (CursorMod - 1)
  <2>1. P + 1 \in Nat
    BY <1>1
  <2>2. (P + 1) % CursorMod \in 0 .. (CursorMod - 1)
    BY <2>1, RemainderOf
  <2> QED BY <1>1, <2>2, WrappedNext DEF PushPublish
<1>4. TypeOK'
  BY <1>2, <1>3 DEF RInv, TypeOK, PushPublish, readerVars
<1>5. CursorInv'
  BY <1>1, <1>2, <1>3, Counts DEF RInv, CursorInv, PushPublish, readerVars
<1>6. SlotInv'
  <2>1. slots[P % Capacity] = witem
    BY <1>1, SlotOf
  <2> SUFFICES ASSUME NEW i \in (C + 1) .. (P + 1)
               PROVE  slots[(i - 1) % Capacity] = pushed'[i]
    BY <1>1, <1>2 DEF SlotInv, PushPublish, readerVars
  <2>2. CASE i = P + 1
    BY <1>1, <1>2, <2>1, <2>2
  <2>3. CASE i \in (C + 1) .. P
    BY <1>1, <1>2, <2>3 DEF RInv, SlotInv
  <2> QED BY <1>1, <2>2, <2>3
<1>7. InOrder'
  BY <1>1, <1>2 DEF RInv, InOrder, PushPublish, readerVars
<1>8. WriterInv'
  BY DEF WriterInv, PushPublish
<1>9. ReaderInv'
  BY <1>1, <1>2 DEF RInv, TypeOK, ReaderInv, PushPublish, readerVars
<1> QED BY <1>4, <1>5, <1>6, <1>7, <1>8, <1>9 DEF RInv

(* A head that differs from the tail means a published item; its slot      *)
(* holds it whole.                                                         *)
LEMMA ReadKeeps ==
  ASSUME RInv, PopRead \/ PopCopied
  PROVE  RInv'
<1> DEFINE P == Len(pushed)
<1> DEFINE C == Len(popped)
<1>1. P \in Nat /\ C \in Nat /\ C <= P /\ tail = C % CursorMod /\ C < P
  <2>1. P \in Nat /\ C \in Nat /\ C <= P /\ tail = C % CursorMod
    BY Counts DEF RInv, CursorInv
  <2>2. CASE PopCopied
    BY <2>1, <2>2 DEF RInv, ReaderInv, PopCopied
  <2>3. CASE PopRead
    <3>1. rseen \in Nat /\ C <= rseen /\ rseen <= P /\ rhead = rseen % CursorMod /\ rhead # tail
      BY <2>3 DEF RInv, TypeOK, ReaderInv, PopRead, Empty
    <3>2. rseen # C
      BY <2>1, <3>1
    <3> QED BY <2>1, <3>1, <3>2
  <2> QED BY <2>1, <2>2, <2>3
<1>2. slots[Slot(tail)] = pushed[C + 1] /\ pushed[C + 1] \in Items
  <2>1. Slot(tail) = C % Capacity
    BY <1>1, SlotOf
  <2>2. C + 1 \in (C + 1) .. P /\ (C + 1) - 1 = C
    BY <1>1
  <2>3. slots[C % Capacity] = pushed[C + 1]
    BY <2>2 DEF RInv, SlotInv
  <2> QED BY <1>1, <2>1, <2>3 DEF RInv, TypeOK
<1>3. TypeOK'
  BY <1>2 DEF RInv, TypeOK, PopRead, PopCopied, cursorVars, writerVars
<1>4. CursorInv' /\ SlotInv' /\ InOrder' /\ WriterInv'
  BY DEF RInv, CursorInv, SlotInv, InOrder, WriterInv, Slot, PopRead, PopCopied, cursorVars,
     writerVars
<1>5. ReaderInv'
  BY <1>1, <1>2 DEF RInv, ReaderInv, PopRead, PopCopied, cursorVars, writerVars
<1> QED BY <1>3, <1>4, <1>5 DEF RInv

(* Publishing the tail gives the slot back. *)
LEMMA PopPublishKeeps ==
  ASSUME RInv, PopPublish
  PROVE  RInv'
<1> DEFINE P == Len(pushed)
<1> DEFINE C == Len(popped)
<1>1. /\ P \in Nat /\ C \in Nat /\ C < P /\ P <= C + Capacity /\ ritem = pushed[C + 1]
      /\ tail = C % CursorMod /\ popped \in Seq(Items \cup {Torn, Default})
      /\ ritem \in Items \cup {Torn, Default}
  BY Counts DEF RInv, TypeOK, CursorInv, ReaderInv, PopPublish
<1>2. /\ popped' \in Seq(Items \cup {Torn, Default}) /\ Len(popped') = C + 1
      /\ popped'[C + 1] = ritem /\ \A i \in 1 .. C : popped'[i] = popped[i]
  BY <1>1 DEF PopPublish
<1>3. tail' = (C + 1) % CursorMod /\ tail' \in 0 .. (CursorMod - 1)
  <2>1. C + 1 \in Nat
    BY <1>1
  <2>2. (C + 1) % CursorMod \in 0 .. (CursorMod - 1)
    BY <2>1, RemainderOf
  <2> QED BY <1>1, <2>2, WrappedNext DEF PopPublish
<1>4. TypeOK'
  BY <1>2, <1>3 DEF RInv, TypeOK, PopPublish, writerVars
<1>5. CursorInv'
  BY <1>1, <1>2, <1>3, Counts DEF RInv, CursorInv, PopPublish, writerVars
<1>6. SlotInv'
  BY <1>1, <1>2 DEF RInv, SlotInv, PopPublish, writerVars
<1>7. InOrder'
  BY <1>1, <1>2 DEF RInv, InOrder, PopPublish, writerVars
<1>8. WriterInv'
  BY <1>1, <1>2, Counts DEF RInv, TypeOK, WriterInv, PopPublish, writerVars
<1>9. ReaderInv'
  BY DEF ReaderInv, PopPublish
<1> QED BY <1>4, <1>5, <1>6, <1>7, <1>8, <1>9 DEF RInv

-----------------------------------------------------------------------------
(* A fresh ring, all zeroes, satisfies the invariant. *)
LEMMA InitRInv == Init => RInv
<1> SUFFICES ASSUME Init PROVE RInv
  OBVIOUS
<1>1. 0 % CursorMod = 0 /\ 0 \in 0 .. (CursorMod - 1)
  BY Widths
<1>2. TypeOK
  BY <1>1 DEF Init, TypeOK
<1>3. CursorInv /\ WriterInv /\ ReaderInv /\ SlotInv /\ InOrder
  BY <1>1, Widths DEF Init, CursorInv, WriterInv, ReaderInv, SlotInv, InOrder
<1> QED BY <1>2, <1>3 DEF RInv

(* Every step of the writer or the reader keeps it. *)
LEMMA NextRInv == RInv /\ [Next]_ringVars => RInv'
<1> SUFFICES ASSUME RInv, [Next]_ringVars PROVE RInv'
  OBVIOUS
<1>1. CASE UNCHANGED ringVars
  <2>1. TypeOK' /\ CursorInv' /\ WriterInv'
    BY <1>1 DEF RInv, TypeOK, CursorInv, WriterInv, Slot, ringVars, cursorVars, writerVars, readerVars
  <2>2. ReaderInv' /\ SlotInv' /\ InOrder'
    BY <1>1 DEF RInv, ReaderInv, SlotInv, InOrder, ringVars, cursorVars, writerVars, readerVars
  <2> QED BY <2>1, <2>2 DEF RInv
<1> QED BY <1>1, LoadKeeps, WriteKeeps, PushPublishKeeps, ReadKeeps, PopPublishKeeps
        DEF Next, TryPush, TryPop

(* The inductive invariant holds of every behaviour of the ring. *)
THEOREM RingInvariant == Spec => []RInv
<1>1. Init => RInv
  BY InitRInv
<1>2. RInv /\ [Next]_ringVars => RInv'
  BY NextRInv
<1> QED BY <1>1, <1>2, PTL DEF Spec

(* Cursors, slots and locals keep their types, wraps included. *)
THEOREM RingTypeCorrect == Spec => []TypeOK
<1>1. RInv => TypeOK
  BY DEF RInv
<1> QED BY <1>1, RingInvariant, PTL

(* The claim of the SAFETY comments: no slot is written while it is read.  *)
THEOREM RingNoSlotRace == Spec => []NoSlotRace
<1>1. RInv => NoSlotRace
  <2> SUFFICES ASSUME RInv, wpc = "writing", rpc = "reading" PROVE Slot(head) # Slot(tail)
    BY DEF NoSlotRace
  <2> DEFINE P == Len(pushed)
  <2> DEFINE C == Len(popped)
  <2>1. P \in Nat /\ C \in Nat /\ C < P /\ P < C + Capacity /\ head = P % CursorMod
        /\ tail = C % CursorMod /\ Capacity \in Nat
    BY Counts DEF RInv, CursorInv, WriterInv, ReaderInv
  <2>2. Slot(head) = P % Capacity /\ Slot(tail) = C % Capacity
    BY <2>1, SlotOf
  <2>3. P - C < Capacity
    BY <2>1
  <2> QED BY <2>1, <2>2, <2>3, SlotsApart
<1> QED BY <1>1, RingInvariant, PTL

(* The reader takes exactly the writer's items, in order. *)
THEOREM RingInOrder == Spec => []InOrder
<1>1. RInv => InOrder
  BY DEF RInv
<1> QED BY <1>1, RingInvariant, PTL

-----------------------------------------------------------------------------
(* Putting an item at the end of pushed puts it at the end of the queue.   *)
LEMMA QueueGrows ==
  ASSUME NEW s \in Seq(Items), NEW x \in Items, NEW n \in Nat, n <= Len(s)
  PROVE  SubSeq(Append(s, x), n + 1, Len(s) + 1) = Append(SubSeq(s, n + 1, Len(s)), x)
<1> DEFINE a == SubSeq(Append(s, x), n + 1, Len(s) + 1)
<1> DEFINE b == Append(SubSeq(s, n + 1, Len(s)), x)
<1>1. /\ Append(s, x) \in Seq(Items) /\ Len(Append(s, x)) = Len(s) + 1
      /\ \A i \in 1 .. Len(s) : Append(s, x)[i] = s[i]
      /\ Append(s, x)[Len(s) + 1] = x
  OBVIOUS
<1>2. /\ a \in Seq(Items) /\ Len(a) = Len(s) + 1 - n
      /\ \A i \in 1 .. (Len(s) + 1 - n) : a[i] = Append(s, x)[n + i]
  <2>1. PICK t, m : t = Append(s, x) /\ m = Len(s) + 1
    OBVIOUS
  <2>2. t \in Seq(Items) /\ m \in Nat /\ n + 1 \in 1 .. (m + 1) /\ m = Len(t)
    BY <1>1, <2>1
  <2>3. SubSeq(t, n + 1, m) \in Seq(Items) /\ Len(SubSeq(t, n + 1, m)) = m - n
        /\ \A i \in 1 .. (m - n) : SubSeq(t, n + 1, m)[i] = t[n + i]
    <3>1. \A i \in (n + 1) .. m : t[i] \in Items
      BY <2>2
    <3>2. /\ SubSeq(t, n + 1, m) \in Seq(Items)
          /\ Len(SubSeq(t, n + 1, m)) = IF n + 1 <= m THEN m - (n + 1) + 1 ELSE 0
          /\ \A i \in 1 .. (m - (n + 1) + 1) : SubSeq(t, n + 1, m)[i] = t[(n + 1) + i - 1]
      BY <2>2, <3>1, SubSeqProperties
    <3>3. m - (n + 1) + 1 = m - n /\ (~(n + 1 <= m) => m - n = 0)
          /\ \A i \in 1 .. (m - n) : (n + 1) + i - 1 = n + i
      BY <2>2
    <3> QED BY <3>2, <3>3
  <2>4. a = SubSeq(t, n + 1, m) /\ m - n = Len(s) + 1 - n
    BY <2>1
  <2> HIDE DEF a
  <2> QED BY <2>1, <2>3, <2>4
<1>3. /\ b \in Seq(Items) /\ Len(b) = Len(s) + 1 - n
      /\ \A i \in 1 .. (Len(s) - n) : b[i] = s[n + i]
      /\ b[Len(s) + 1 - n] = x
  OBVIOUS
<1> HIDE DEF a, b
<1>4. ASSUME NEW i \in 1 .. Len(a) PROVE a[i] = b[i]
  <2>1. PICK l, m \in Nat : l = Len(s) /\ m = l - n /\ l = m + n
    OBVIOUS
  <2>2. i \in 1 .. (m + 1) /\ l + 1 - n = m + 1
    BY <1>2, <2>1
  <2>3. a[i] = Append(s, x)[n + i]
    BY <1>2, <2>1, <2>2
  <2>4. CASE i \in 1 .. m
    <3>1. n + i \in 1 .. l
      BY <2>1, <2>4
    <3>2. Append(s, x)[n + i] = s[n + i]
      BY <1>1, <2>1, <3>1
    <3>3. b[i] = s[n + i]
      BY <1>3, <2>1, <2>4
    <3> QED BY <2>3, <3>2, <3>3
  <2>5. CASE i = m + 1
    <3>1. n + i = l + 1
      BY <2>1, <2>5
    <3>2. a[i] = x
      BY <1>1, <2>1, <2>3, <3>1
    <3>3. b[i] = x
      BY <1>3, <2>1, <2>2, <2>5
    <3> QED BY <3>2, <3>3
  <2> QED BY <2>1, <2>2, <2>4, <2>5
<1>5. a = b
  BY <1>2, <1>3, <1>4, SeqEqual
<1> QED BY <1>5 DEF a, b

(* Taking one more item drops the head of the queue. *)
LEMMA QueueShrinks ==
  ASSUME NEW s \in Seq(Items), NEW n \in Nat, n < Len(s)
  PROVE  LET q == SubSeq(s, n + 1, Len(s))
         IN  q # <<>> /\ Head(q) = s[n + 1] /\ Tail(q) = SubSeq(s, n + 2, Len(s))
<1> DEFINE q == SubSeq(s, n + 1, Len(s))
<1> DEFINE b == SubSeq(s, n + 2, Len(s))
<1>1. /\ q \in Seq(Items) /\ Len(q) = Len(s) - n
      /\ \A i \in 1 .. (Len(s) - n) : q[i] = s[n + i]
  OBVIOUS
<1>2. /\ b \in Seq(Items) /\ Len(b) = Len(s) - n - 1
      /\ \A i \in 1 .. (Len(s) - n - 1) : b[i] = s[n + 1 + i]
  OBVIOUS
<1>3. /\ q # <<>> /\ Head(q) = q[1] /\ Tail(q) \in Seq(Items) /\ Len(Tail(q)) = Len(q) - 1
      /\ \A i \in 1 .. (Len(q) - 1) : Tail(q)[i] = q[i + 1]
  <2>1. Len(q) \in Nat /\ Len(q) >= 1
    BY <1>1
  <2> HIDE DEF q
  <2>2. q # <<>>
    BY <1>1, <2>1
  <2> QED BY <1>1, <2>1, <2>2, HeadTailProperties
<1>4. \A i \in 1 .. Len(b) : Tail(q)[i] = b[i]
  BY <1>1, <1>2, <1>3
<1>5. Tail(q) = b
  BY <1>1, <1>2, <1>3, <1>4, SeqEqual
<1> QED BY <1>1, <1>3, <1>5

(* The ring is a bounded FIFO queue to its two users, for any capacity. *)
THEOREM RingImplementsFifo == Spec => ImplementsFifo
<1> DEFINE q == SubSeq(pushed, Len(popped) + 1, Len(pushed))
<1>1. Init => Queue!Init
  BY DEF Init, Queue!Init
<1>2. RInv /\ [Next]_ringVars => [Queue!Next]_<<q, popped>>
  <2> SUFFICES ASSUME RInv, [Next]_ringVars PROVE [Queue!Next]_<<q, popped>>
    OBVIOUS
  <2>0. /\ Len(pushed) \in Nat /\ Len(popped) \in Nat /\ Len(popped) <= Len(pushed)
        /\ pushed \in Seq(Items) /\ Len(q) = Len(pushed) - Len(popped)
    BY Counts DEF RInv, TypeOK, CursorInv
  <2>1. CASE PushPublish
    <3>1. witem \in Items /\ Len(pushed) < Len(popped) + Capacity
      BY <2>1 DEF RInv, WriterInv, PushPublish
    <3>2. pushed' = Append(pushed, witem) /\ popped' = popped /\ Len(pushed') = Len(pushed) + 1
      BY <2>0, <2>1, <3>1 DEF PushPublish, readerVars
    <3>3. q' = Append(q, witem)
      BY <2>0, <3>1, <3>2, QueueGrows
    <3>4. Len(q) < Capacity
      BY <2>0, <3>1, Widths
    <3>5. Queue!Put(witem)
      BY <3>2, <3>3, <3>4 DEF Queue!Put
    <3> QED BY <3>1, <3>5 DEF Queue!Next
  <2>2. CASE PopPublish
    <3>1. Len(popped) < Len(pushed) /\ ritem = pushed[Len(popped) + 1]
      BY <2>2 DEF RInv, ReaderInv, PopPublish
    <3>2. popped' = Append(popped, ritem) /\ pushed' = pushed /\ Len(popped') = Len(popped) + 1
      BY <2>2 DEF RInv, TypeOK, PopPublish, writerVars
    <3>3. q # <<>> /\ Head(q) = ritem /\ Tail(q) = SubSeq(pushed, Len(popped) + 2, Len(pushed))
      BY <2>0, <3>1, QueueShrinks
    <3>4. q' = SubSeq(pushed, Len(popped) + 2, Len(pushed))
      <4>1. (Len(popped) + 1) + 1 = Len(popped) + 2
        BY <2>0
      <4> QED BY <3>2, <4>1
    <3>5. Queue!Get
      BY <3>2, <3>3, <3>4 DEF Queue!Get
    <3> QED BY <3>5 DEF Queue!Next
  <2>3. ASSUME [Next]_ringVars, ~ PushPublish, ~ PopPublish PROVE UNCHANGED <<pushed, popped>>
    BY <2>3 DEF Next, TryPush, TryPop, PushBegin, PushLoad, PushWrite, PushWritten,
       PushRefused, PushSpin, PopLoad, PopEmpty, PopRead, PopCopied,
       ringVars, cursorVars, writerVars, readerVars
  <2> QED BY <2>1, <2>2, <2>3
<1> QED BY <1>1, <1>2, RingInvariant, PTL DEF Spec, ImplementsFifo, Queue!Spec

-----------------------------------------------------------------------------
(* The feed and the ingester on the ring. *)

(* next_ts outgrows the clock by one per candle at most. *)
ClockInv ==
  /\ lastTs \in Nat
  /\ lastTs <= MaxNow + Len(pushed) + IF wpc = "idle" /\ fpc = "run" THEN 0 ELSE 1

(* Stamps in the order pushed, the one under way newer than all of them.   *)
StampInv ==
  /\ \A i \in 1 .. Len(pushed) : pushed[i] \in Nat /\ pushed[i] <= lastTs
  /\ \A i, j \in 1 .. Len(pushed) : i < j => pushed[i] < pushed[j]
  /\ wpc # "idle" => /\ witem = lastTs
                     /\ \A i \in 1 .. Len(pushed) : pushed[i] < lastTs

(* Between the pop and the append the ingester holds one candle. *)
IngestInv ==
  /\ ipc \in {"check", "pop", "append", "count", "exited"}
  /\ rpc # "idle" => ipc = "pop"
  /\ stored \in Seq(Items \cup {Torn, Default})
  /\ poppedTotal \in Nat
  /\ IF ipc = "append" THEN popped = Append(stored, ritem) ELSE stored = popped
  /\ Len(stored) = poppedTotal + IF ipc = "count" THEN 1 ELSE 0

(* A stall is being counted only inside push_until, which ends before the  *)
(* feed's loop does.                                                       *)
StallInv ==
  /\ fpc \in {"run", "done"} /\ stalled \in BOOLEAN /\ pushFull \in Nat
  /\ cancel \in BOOLEAN /\ running \in BOOLEAN
  /\ stalled => wpc # "idle"
  /\ wpc # "idle" => fpc = "run"
  /\ pushFull <= Len(pushed) + IF stalled \/ fpc = "done" THEN 1 ELSE 0

FInv == RInv /\ ClockInv /\ StampInv /\ IngestInv /\ StallInv

-----------------------------------------------------------------------------
(* A new stamp is a candle of the ring, and newer than the last. *)
LEMMA NextTsNewer ==
  ASSUME FInv, NEW now \in 0 .. MaxNow, FeedPush(now)
  PROVE  /\ NextTs(now, lastTs) \in Items /\ NextTs(now, lastTs) \in Nat
         /\ NextTs(now, lastTs) > lastTs
         /\ NextTs(now, lastTs) <= MaxNow + Len(pushed) + 1
<1>1. /\ MaxNow \in Nat /\ MaxItems \in Nat /\ now \in Nat /\ now <= MaxNow
      /\ Len(pushed) \in Nat
  BY FeedConstants, RingConstants, Counts DEF FInv, RInv
<1>2. lastTs \in Nat /\ lastTs <= MaxNow + Len(pushed) /\ Len(pushed) < MaxItems
  BY <1>1 DEF FInv, ClockInv, FeedPush, PushBegin
<1>3. /\ NextTs(now, lastTs) \in Nat /\ NextTs(now, lastTs) > lastTs
      /\ NextTs(now, lastTs) <= MaxNow + Len(pushed) + 1
  BY <1>1, <1>2 DEF NextTs
<1>4. NextTs(now, lastTs) \in 0 .. (MaxNow + MaxItems)
  BY <1>1, <1>2, <1>3
<1> QED BY <1>3, <1>4, FeedConstants

(* Every step is a step of the ring or leaves it alone. *)
LEMMA StepOfRing ==
  ASSUME FInv, [FeedNext]_shmVars
  PROVE  [Next]_ringVars
<1>1. ASSUME NEW now \in 0 .. MaxNow, FeedPush(now) PROVE Next
  <2>1. NextTs(now, lastTs) \in Items
    BY <1>1, NextTsNewer
  <2> QED BY <1>1, <2>1 DEF FeedPush, Next
<1>2. CASE FeedLoop
  BY <1>2 DEF FeedLoop, FeedStop, FeedTry, FeedPublish, FeedStall, FeedRetry, FeedCancel,
     Next, TryPush
<1>3. CASE Ingest
  BY <1>3 DEF Ingest, IngestCheck, IngestTry, IngestNone, IngestPop, IngestAppend, IngestCount,
     Next, TryPop
<1>4. CASE SetCancel \/ StopSignal \/ Stopped \/ UNCHANGED shmVars
  BY <1>4 DEF SetCancel, StopSignal, Stopped, shmVars
<1> QED BY <1>1, <1>2, <1>3, <1>4 DEF FeedNext

(* The writer's variables, where only the reader moves. *)
LEMMA FeedFrame ==
  ASSUME FInv, UNCHANGED <<lastTs, pushed, wpc, witem, fpc>>
  PROVE  ClockInv' /\ StampInv'
<1>1. ClockInv'
  BY DEF FInv, ClockInv
<1>2. StampInv'
  BY DEF FInv, StampInv
<1> QED BY <1>1, <1>2

(* The ingester's variables, where only the writer moves. *)
LEMMA IngestFrame ==
  ASSUME FInv, UNCHANGED <<ipc, rpc, stored, poppedTotal, popped, ritem>>
  PROVE  IngestInv'
BY DEF FInv, IngestInv

(* A new candle gets a stamp past every earlier one. *)
LEMMA FeedPushKeeps ==
  ASSUME FInv, NEW now \in 0 .. MaxNow, FeedPush(now)
  PROVE  ClockInv' /\ StampInv'
<1> DEFINE n == NextTs(now, lastTs)
<1>1. n \in Nat /\ n > lastTs /\ n <= MaxNow + Len(pushed) + 1
  BY NextTsNewer
<1>2. lastTs' = n /\ witem' = n /\ wpc' = "load" /\ pushed' = pushed /\ lastTs \in Nat
  BY DEF FInv, ClockInv, FeedPush, PushBegin
<1> HIDE DEF n
<1>3. \A i \in 1 .. Len(pushed) : pushed[i] \in Nat /\ pushed[i] < n
  BY <1>1, <1>2 DEF FInv, StampInv
<1>4. ClockInv'
  BY <1>1, <1>2 DEF ClockInv
<1>5. StampInv'
  <2>1. \A i \in 1 .. Len(pushed) : pushed[i] \in Nat /\ pushed[i] <= n
    BY <1>1, <1>3
  <2> QED BY <1>2, <1>3, <2>1 DEF FInv, StampInv
<1> QED BY <1>4, <1>5

(* The stamped candle is published after all earlier ones. *)
LEMMA FeedPublishKeeps ==
  ASSUME FInv, FeedPublish
  PROVE  ClockInv' /\ StampInv'
<1> DEFINE P == Len(pushed)
<1>1. /\ pushed \in Seq(Items) /\ P \in Nat /\ witem \in Items /\ witem = lastTs
      /\ lastTs \in Nat /\ MaxNow \in Nat
      /\ \A i \in 1 .. P : pushed[i] \in Nat /\ pushed[i] < lastTs
      /\ lastTs <= MaxNow + P + 1
  BY Counts, FeedConstants DEF FInv, RInv, TypeOK, WriterInv, StampInv, ClockInv, FeedPublish,
     PushPublish
<1>2. /\ Len(pushed') = P + 1 /\ pushed'[P + 1] = lastTs
      /\ \A i \in 1 .. P : pushed'[i] = pushed[i]
      /\ lastTs' = lastTs /\ wpc' = "idle"
  BY <1>1 DEF FeedPublish, PushPublish
<1>3. ClockInv'
  BY <1>1, <1>2 DEF ClockInv
<1>4. \A i \in 1 .. (P + 1) : i = P + 1 \/ i \in 1 .. P
  BY <1>1
<1>5. \A i \in 1 .. (P + 1) : pushed'[i] \in Nat /\ pushed'[i] <= lastTs
  BY <1>1, <1>2, <1>4
<1>6. \A i, j \in 1 .. (P + 1) : i < j => pushed'[i] < pushed'[j]
  <2> SUFFICES ASSUME NEW i \in 1 .. (P + 1), NEW j \in 1 .. (P + 1), i < j
               PROVE  pushed'[i] < pushed'[j]
    OBVIOUS
  <2>1. i \in 1 .. P
    BY <1>1
  <2>2. CASE j = P + 1
    BY <1>1, <1>2, <2>1, <2>2
  <2>3. CASE j \in 1 .. P
    BY <1>2, <2>1, <2>3 DEF FInv, StampInv
  <2> QED BY <1>4, <2>2, <2>3
<1> QED BY <1>2, <1>3, <1>5, <1>6 DEF StampInv

(* The feed's other steps move no stamp; giving up ends its loop. *)
LEMMA FeedLoopKeeps ==
  ASSUME FInv, FeedLoop
  PROVE  ClockInv' /\ StampInv' /\ IngestInv'
<1>1. CASE FeedPublish
  <2>1. UNCHANGED <<ipc, rpc, stored, poppedTotal, popped, ritem>>
    BY <1>1 DEF FeedPublish, PushPublish, ingestVars, readerVars
  <2> QED BY <1>1, <2>1, FeedPublishKeeps, IngestFrame
<1>2. CASE FeedStop \/ FeedTry \/ FeedStall \/ FeedRetry \/ FeedCancel
  <2>1. /\ UNCHANGED <<lastTs, pushed, witem>>
        /\ \/ UNCHANGED <<wpc, fpc>>
           \/ wpc = "idle" /\ wpc' = "idle" /\ fpc' = "done"
           \/ wpc # "idle" /\ (wpc' # "idle" \/ fpc' = "done") /\ (fpc' = fpc \/ fpc' = "done")
    BY <1>2 DEF FeedStop, FeedTry, FeedStall, FeedRetry, FeedCancel, PushLoad, PushWrite,
       PushWritten, PushSpin, PushRefused, ringVars, writerVars, cursorVars, feedVars
  <2>2. UNCHANGED <<ipc, rpc, stored, poppedTotal, popped, ritem>>
    BY <1>2 DEF FeedStop, FeedTry, FeedStall, FeedRetry, FeedCancel, PushLoad, PushWrite,
       PushWritten, PushSpin, PushRefused, ringVars, readerVars, ingestVars
  <2>3. MaxNow \in Nat /\ Len(pushed) \in Nat /\ lastTs \in Nat
    BY FeedConstants, Counts DEF FInv, RInv, ClockInv
  <2>4. ClockInv'
    BY <2>1, <2>3 DEF FInv, ClockInv
  <2>5. StampInv'
    BY <2>1 DEF FInv, StampInv
  <2> QED BY <2>2, <2>4, <2>5, IngestFrame
<1> QED BY <1>1, <1>2 DEF FeedLoop

(* The ingester hands each candle it pops to the store before the next. *)
LEMMA IngestKeeps ==
  ASSUME FInv, Ingest
  PROVE  ClockInv' /\ StampInv' /\ IngestInv'
<1>1. UNCHANGED <<lastTs, pushed, wpc, witem, fpc>>
  BY DEF Ingest, IngestCheck, IngestTry, IngestNone, IngestPop, IngestAppend, IngestCount,
     PopLoad, PopRead, PopCopied, PopEmpty, PopPublish, ringVars, writerVars, feedVars
<1>2. IngestInv'
  <2>0. /\ stored \in Seq(Items \cup {Torn, Default}) /\ poppedTotal \in Nat
        /\ ritem \in Items \cup {Torn, Default} /\ Len(stored) \in Nat
    BY DEF FInv, RInv, TypeOK, IngestInv
  <2>1. CASE IngestCheck
    BY <2>1 DEF FInv, IngestInv, IngestCheck, ringVars, readerVars
  <2>2. CASE IngestTry \/ IngestNone
    BY <2>2 DEF FInv, IngestInv, IngestTry, IngestNone, PopLoad, PopRead, PopCopied, PopEmpty,
       ingestVars
  <2>3. CASE IngestPop
    BY <2>3 DEF FInv, IngestInv, IngestPop, PopPublish
  <2>4. CASE IngestAppend
    <3>1. stored' \in Seq(Items \cup {Torn, Default}) /\ Len(stored') = Len(stored) + 1
      BY <2>0, <2>4 DEF IngestAppend
    <3> QED BY <2>0, <2>4, <3>1 DEF FInv, IngestInv, IngestAppend, ringVars, readerVars
  <2>5. CASE IngestCount
    BY <2>0, <2>5 DEF FInv, IngestInv, IngestCount, ringVars, readerVars
  <2> QED BY <2>1, <2>2, <2>3, <2>4, <2>5 DEF Ingest
<1> QED BY <1>1, <1>2, FeedFrame

(* push_until counts a refusal when its stall begins, and the stall ends   *)
(* with the push, published or given up.                                   *)
LEMMA StallKeeps ==
  ASSUME FInv, [FeedNext]_shmVars
  PROVE  StallInv'
<1>0. /\ Len(pushed) \in Nat /\ pushed \in Seq(Items) /\ witem \in Items \cup {Default}
      /\ wpc # "idle" => witem \in Items
  BY Counts DEF FInv, RInv, TypeOK, WriterInv
<1>1. ASSUME NEW now \in 0 .. MaxNow, FeedPush(now) PROVE StallInv'
  BY <1>1 DEF FInv, StallInv, FeedPush, PushBegin, ingestVars
<1>2. CASE FeedStop
  <2>1. /\ fpc = "run" /\ wpc = "idle" /\ fpc' = "done" /\ wpc' = wpc /\ pushed' = pushed
        /\ UNCHANGED <<stalled, pushFull, cancel, running>>
    BY <1>2 DEF FeedStop, ringVars, writerVars, ingestVars
  <2> QED BY <1>0, <2>1 DEF FInv, StallInv
<1>3. CASE FeedTry
  <2>1. /\ wpc # "idle" /\ wpc' # "idle" /\ pushed' = pushed
        /\ UNCHANGED <<fpc, stalled, pushFull, cancel, running>>
    BY <1>3 DEF FeedTry, PushLoad, PushWrite, PushWritten, feedVars, ingestVars
  <2> QED BY <2>1 DEF FInv, StallInv
<1>4. CASE FeedPublish
  <2>1. /\ wpc # "idle" /\ wpc' = "idle" /\ pushed' = Append(pushed, witem) /\ stalled' = FALSE
        /\ UNCHANGED <<fpc, pushFull, cancel, running>>
    BY <1>4 DEF FeedPublish, PushPublish, ingestVars
  <2>2. Len(pushed') = Len(pushed) + 1
    BY <1>0, <2>1
  <2>3. /\ fpc = "run" /\ fpc' = "run" /\ pushFull \in Nat /\ pushFull <= Len(pushed) + 1
    BY <1>0, <2>1 DEF FInv, StallInv
  <2>4. pushFull' <= Len(pushed') + IF stalled' \/ fpc' = "done" THEN 1 ELSE 0
    BY <1>0, <2>1, <2>2, <2>3
  <2>5. /\ stalled' \in BOOLEAN /\ cancel' \in BOOLEAN /\ running' \in BOOLEAN
        /\ pushFull' \in Nat
    BY <2>1 DEF FInv, StallInv
  <2> QED BY <2>1, <2>3, <2>4, <2>5 DEF StallInv
<1>5. CASE FeedStall
  <2>1. /\ wpc # "idle" /\ wpc' # "idle" /\ pushed' = pushed /\ ~stalled /\ stalled' = TRUE
        /\ pushFull' = pushFull + 1
        /\ UNCHANGED <<fpc, cancel, running>>
    BY <1>5 DEF FeedStall, PushSpin, ingestVars
  <2> QED BY <1>0, <2>1 DEF FInv, StallInv
<1>6. CASE FeedRetry
  <2>1. /\ wpc # "idle" /\ wpc' # "idle" /\ pushed' = pushed
        /\ UNCHANGED <<fpc, stalled, pushFull, cancel, running>>
    BY <1>6 DEF FeedRetry, PushSpin, feedVars, ingestVars
  <2> QED BY <2>1 DEF FInv, StallInv
<1>7. CASE FeedCancel
  <2>1. /\ stalled /\ stalled' = FALSE /\ wpc' = "idle" /\ fpc' = "done" /\ pushed' = pushed
        /\ UNCHANGED <<pushFull, cancel, running>>
    BY <1>7 DEF FeedCancel, PushRefused, ingestVars
  <2> QED BY <1>0, <2>1 DEF FInv, StallInv
<1>8. CASE SetCancel \/ Ingest \/ StopSignal \/ Stopped \/ UNCHANGED shmVars
  <2>1. /\ UNCHANGED <<fpc, stalled, pushFull, wpc, pushed>>
        /\ cancel' \in {cancel, TRUE} /\ running' \in {running, FALSE}
    BY <1>8 DEF SetCancel, Ingest, IngestCheck, IngestTry, IngestNone, IngestPop, IngestAppend,
       IngestCount, StopSignal, Stopped, PopLoad, PopRead, PopCopied, PopEmpty, PopPublish,
       shmVars, ringVars, writerVars, feedVars, ingestVars
  <2> QED BY <2>1 DEF FInv, StallInv
<1> QED BY <1>1, <1>2, <1>3, <1>4, <1>5, <1>6, <1>7, <1>8 DEF FeedNext, FeedLoop

(* Every step keeps the invariant. *)
LEMMA FeedNextKeeps == FInv /\ [FeedNext]_shmVars => FInv'
<1> SUFFICES ASSUME FInv, [FeedNext]_shmVars PROVE FInv'
  OBVIOUS
<1>1. RInv'
  BY StepOfRing, NextRInv DEF FInv
<1>2. ASSUME NEW now \in 0 .. MaxNow, FeedPush(now) PROVE ClockInv' /\ StampInv' /\ IngestInv'
  <2>1. UNCHANGED <<ipc, rpc, stored, poppedTotal, popped, ritem>>
    BY <1>2 DEF FeedPush, PushBegin, ingestVars, readerVars
  <2> QED BY <1>2, <2>1, FeedPushKeeps, IngestFrame
<1>3. CASE SetCancel \/ StopSignal \/ Stopped \/ UNCHANGED shmVars
  <2>1. UNCHANGED <<lastTs, pushed, wpc, witem, fpc>>
    BY <1>3 DEF SetCancel, StopSignal, Stopped, shmVars,
       ringVars, writerVars, feedVars
  <2>2. UNCHANGED <<ipc, rpc, stored, poppedTotal, popped, ritem>>
    <3>1. UNCHANGED readerVars
      BY <1>3 DEF SetCancel, StopSignal, Stopped, shmVars,
         ringVars
    <3>2. UNCHANGED <<ipc, stored, poppedTotal>>
      BY <1>3 DEF SetCancel, StopSignal, Stopped, shmVars,
         ingestVars
    <3> QED BY <3>1, <3>2 DEF readerVars
  <2> QED BY <1>1, <2>1, <2>2, FeedFrame, IngestFrame, StallKeeps DEF FInv
<1> QED BY <1>1, <1>2, <1>3, FeedLoopKeeps, IngestKeeps, StallKeeps DEF FInv, FeedNext

(* It holds when both processes start. *)
LEMMA FeedInitFInv == FeedInit => FInv
<1> SUFFICES ASSUME FeedInit PROVE FInv
  OBVIOUS
<1>1. RInv
  BY InitRInv DEF FeedInit
<1>2. ClockInv /\ StampInv
  BY FeedConstants DEF FeedInit, Init, ClockInv, StampInv
<1>3. IngestInv
  BY DEF FeedInit, Init, IngestInv
<1>4. StallInv
  <2>1. Len(pushed) = 0
    BY DEF FeedInit, Init
  <2>2. /\ fpc = "run" /\ wpc = "idle" /\ pushFull = 0
        /\ stalled = FALSE /\ cancel = FALSE /\ running = TRUE
    BY DEF FeedInit, Init
  <2>3. pushFull <= Len(pushed) + IF stalled \/ fpc = "done" THEN 1 ELSE 0
    BY <2>1, <2>2
  <2> QED BY <2>2, <2>3 DEF StallInv
<1> QED BY <1>1, <1>2, <1>3, <1>4 DEF FInv

(* The inductive invariant holds of every behaviour of feed and ingester. *)
THEOREM FeedInvariant == FeedSpec => []FInv
BY FeedInitFInv, FeedNextKeeps, PTL DEF FeedSpec

(* The feed is the ring's one writer and the ingester its one reader, so   *)
(* NoSlotRace, InOrder and the FIFO refinement hold across the segment.    *)
THEOREM FeedUsesRing == FeedSpec => UsesRing
<1>1. FeedInit => Init
  BY DEF FeedInit
<1>2. FInv /\ [FeedNext]_shmVars => [Next]_ringVars
  BY StepOfRing
<1> QED BY <1>1, <1>2, FeedInvariant, PTL DEF FeedSpec, UsesRing, Spec

(* Whenever it is stopped, the ingester has stored all it popped. *)
THEOREM FeedExitClean == FeedSpec => []ExitClean
<1>1. FInv => ExitClean
  <2> SUFFICES ASSUME FInv PROVE ExitClean
    OBVIOUS
  <2>1. stored \in Seq(Items \cup {Torn, Default}) /\ Len(stored) \in Nat /\ poppedTotal \in Nat
    BY DEF FInv, IngestInv
  <2>2. Len(popped) = Len(stored) \/ Len(popped) = Len(stored) + 1
    BY <2>1 DEF FInv, IngestInv
  <2>3. Len(stored) <= Len(popped) /\ poppedTotal <= Len(stored)
    BY <2>1, <2>2 DEF FInv, IngestInv
  <2>4. ipc = "exited" => stored = popped /\ poppedTotal = Len(stored)
    BY <2>1 DEF FInv, IngestInv
  <2> QED BY <2>3, <2>4 DEF ExitClean
<1> QED BY <1>1, FeedInvariant, PTL

(* The store never meets a timestamp out of order from one feed. *)
THEOREM FeedStoredInOrder == FeedSpec => []StoredInOrder
<1>1. FInv => StoredInOrder
  <2> SUFFICES ASSUME FInv, NEW i \in 1 .. Len(stored), NEW j \in 1 .. Len(stored), i < j
               PROVE  stored[i] < stored[j]
    BY DEF StoredInOrder
  <2>1. stored \in Seq(Items \cup {Torn, Default}) /\ Len(stored) \in Nat
    BY DEF FInv, IngestInv
  <2>2. /\ Len(stored) <= Len(popped) /\ Len(popped) \in Nat
        /\ popped[i] = stored[i] /\ popped[j] = stored[j]
    BY <2>1 DEF FInv, IngestInv
  <2>3. Len(popped) <= Len(pushed) /\ Len(pushed) \in Nat
    BY Counts DEF FInv, RInv, InOrder
  <2>4. i \in 1 .. Len(popped) /\ j \in 1 .. Len(popped)
        /\ i \in 1 .. Len(pushed) /\ j \in 1 .. Len(pushed)
    BY <2>1, <2>2, <2>3
  <2>5. popped[i] = pushed[i] /\ popped[j] = pushed[j]
    BY <2>4 DEF FInv, RInv, InOrder
  <2> QED BY <2>2, <2>4, <2>5 DEF FInv, StampInv
<1> QED BY <1>1, FeedInvariant, PTL

(* What the invariant says of the two loops' own state. *)
LEMMA FInvGivesFeedInv == FInv => FeedInv
<1> SUFFICES ASSUME FInv PROVE FeedInv
  OBVIOUS
<1>1. StallsCounted
  BY Counts DEF FInv, RInv, StallInv, StallsCounted
<1>2. /\ stored \in Seq(Items \cup {Torn, Default}) /\ Len(stored) \in Nat
      /\ \A i \in 1 .. Len(stored) : i \in 1 .. Len(popped) /\ stored[i] = popped[i]
  <2>1. /\ stored \in Seq(Items \cup {Torn, Default}) /\ Len(stored) \in Nat
        /\ stored = popped \/ popped = Append(stored, ritem)
    BY DEF FInv, IngestInv
  <2>2. CASE stored = popped
    BY <2>1, <2>2
  <2>3. CASE popped = Append(stored, ritem)
    BY <2>1, <2>3
  <2> QED BY <2>1, <2>2, <2>3
<1>3. \A i \in 1 .. Len(popped) : popped[i] \in Items
  <2> SUFFICES ASSUME NEW i \in 1 .. Len(popped) PROVE popped[i] \in Items
    OBVIOUS
  <2>1. popped[i] = pushed[i] /\ Len(popped) <= Len(pushed) /\ pushed \in Seq(Items)
    BY DEF FInv, RInv, TypeOK, InOrder
  <2>2. i \in 1 .. Len(pushed)
    BY <2>1, Counts DEF FInv, RInv
  <2> QED BY <2>1, <2>2
<1>4. stored \in Seq(Items)
  <2>1. \A i \in 1 .. Len(stored) : stored[i] \in Items
    BY <1>2, <1>3
  <2> QED BY <1>2, <2>1
<1> QED BY <1>1, <1>4 DEF FInv, ClockInv, IngestInv, StallInv, FeedInv, FeedTypeOK

(* push_full counts stalls, at most one for every candle; both loops' state *)
(* is typed, and the store holds whole candles only.                       *)
THEOREM FeedStallsCounted == FeedSpec => []FeedInv
BY FInvGivesFeedInv, FeedInvariant, PTL

-----------------------------------------------------------------------------
(* Who still holds the writer, and what main has waited for. *)
ArcInv ==
  /\ holders \subseteq {"main", "poller"}
  /\ "main" \in holders <=> mpc # "gone"
  /\ "poller" \in holders <=> ppc # "exited"
  /\ unlinked <=> holders = {}
  /\ mpc \in {"drop", "gone"} => ppc = "exited"
  /\ mpc # "loop" => fpc = "done"

(* The head that depth() loaded is an older one. *)
DepthInv ==
  dpc = "loaded" => /\ dpushed \in Nat /\ dpushed <= Len(pushed)
                    /\ dhead = dpushed % CursorMod

(* A push is counted before the next one begins and before the loop ends;  *)
(* the shared count is the last multiple of FlushEvery until the final     *)
(* flush, which makes it exact.                                            *)
CountInv ==
  /\ count \in Nat /\ candlesPushed \in Nat
  /\ count <= Len(pushed) /\ Len(pushed) <= count + 1
  /\ wpc # "idle" \/ mpc # "loop" => count = Len(pushed)
  /\ candlesPushed <= count /\ count < candlesPushed + FlushEvery
  /\ mpc \in {"loop", "flush"} => candlesPushed % FlushEvery = 0
  /\ mpc \in {"join", "drop", "gone"} => candlesPushed = count

(* The poller exports the shared count, which only grows. *)
ExportInv == exported \in Nat /\ exported <= candlesPushed

HInv == FInv /\ HandlerTypeOK /\ ArcInv /\ DepthInv /\ CountInv /\ ExportInv

-----------------------------------------------------------------------------
(* Every step is a step of feed and ingester or leaves them alone. *)
LEMMA StepOfFeed ==
  ASSUME [HandlerNext]_handlerVars
  PROVE  [FeedNext]_shmVars
<1>1. ASSUME NEW now \in 0 .. MaxNow, LoopPush(now) PROVE FeedNext
  BY <1>1 DEF LoopPush, FeedNext
<1>2. CASE Main
  <2>1. CASE LoopTry
    BY <2>1 DEF LoopTry, FeedNext, FeedLoop
  <2>2. CASE LoopEnds
    BY <2>2 DEF LoopEnds, FeedNext, FeedLoop
  <2> QED BY <1>2, <2>1, <2>2 DEF Main, LoopCount, FinalFlush, JoinPoller, DropWriter
<1>3. CASE Poll \/ Depth \/ UNCHANGED handlerVars
  BY <1>3 DEF Poll, PollCheck, PollExit, PollExport, Depth, DepthHead, DepthTail, handlerVars
<1>4. CASE HubSide \/ AllGone
  BY <1>4 DEF HubSide, AllGone, FeedNext
<1> QED BY <1>1, <1>2, <1>3, <1>4 DEF HandlerNext

(* No step of feed and ingester takes the feed's loop up again, and none   *)
(* takes a push back.                                                      *)
LEMMA FeedOnward ==
  ASSUME FInv, [FeedNext]_shmVars
  PROVE  /\ fpc = "done" => fpc' = "done"
         /\ Len(pushed) \in Nat /\ Len(pushed') \in Nat /\ Len(pushed) <= Len(pushed')
<1>1. fpc = "done" => fpc' = "done"
  BY DEF FeedNext, FeedPush, FeedLoop, FeedStop, FeedTry, FeedPublish, FeedStall, FeedRetry,
     FeedCancel, SetCancel, Ingest, IngestCheck, IngestTry, IngestNone, IngestPop, IngestAppend,
     IngestCount, StopSignal, Stopped, shmVars, feedVars
<1>2. Len(pushed) \in Nat /\ Len(pushed') \in Nat
  <2>1. RInv /\ RInv'
    BY FeedNextKeeps DEF FInv
  <2> QED BY <2>1, Counts DEF RInv, TypeOK
<1>3. pushed' = pushed \/ pushed' = Append(pushed, witem)
  <2>1. [Next]_ringVars
    BY StepOfRing
  <2> QED BY <2>1 DEF Next, PushBegin, TryPush, PushLoad, PushWrite, PushWritten, PushPublish,
         PushRefused, PushSpin, TryPop, PopLoad, PopEmpty, PopRead, PopCopied, PopPublish,
         ringVars, writerVars
<1>4. Len(pushed) <= Len(pushed')
  <2>1. pushed \in Seq(Items \cup {Torn, Default})
    BY DEF FInv, RInv, TypeOK
  <2>2. CASE pushed' = pushed
    BY <1>2, <2>2
  <2>3. CASE pushed' = Append(pushed, witem)
    BY <1>2, <2>1, <2>3
  <2> QED BY <1>3, <2>2, <2>3
<1> QED BY <1>1, <1>2, <1>4

(* Every step keeps count of the writer's holders. *)
LEMMA ArcKeeps ==
  ASSUME HInv, [HandlerNext]_handlerVars
  PROVE  ArcInv'
<1>1. fpc = "done" => fpc' = "done"
  BY StepOfFeed, FeedOnward DEF HInv
<1>2. CASE LoopEnds
  <2>1. fpc' = "done"
    BY <1>2 DEF LoopEnds, FeedStop, FeedCancel
  <2>2. mpc = "loop" /\ mpc' = "flush" /\ ppc' = ppc /\ holders' = holders /\ unlinked' = unlinked
    BY <1>2 DEF LoopEnds, AtTop, arcVars
  <2> QED BY <2>1, <2>2 DEF HInv, ArcInv
<1>3. CASE FinalFlush \/ JoinPoller
  <2>1. /\ ppc' = ppc /\ holders' = holders /\ unlinked' = unlinked
        /\ mpc \in {"flush", "join"} /\ mpc' \in {"join", "drop"}
        /\ mpc' = "drop" => ppc = "exited"
    BY <1>3 DEF FinalFlush, JoinPoller, arcVars
  <2>2. "main" \in holders /\ mpc' # "gone" /\ fpc' = "done"
    BY <1>1, <2>1 DEF HInv, ArcInv
  <2>3. unlinked' <=> holders' = {}
    BY <2>1 DEF HInv, ArcInv
  <2>4. mpc' \in {"drop", "gone"} => ppc' = "exited"
    BY <2>1, <2>2
  <2>5. holders' \subseteq {"main", "poller"} /\ ("poller" \in holders' <=> ppc' # "exited")
    BY <2>1 DEF HInv, ArcInv
  <2>6. "main" \in holders' <=> mpc' # "gone"
    BY <2>1, <2>2
  <2> QED BY <2>2, <2>3, <2>4, <2>5, <2>6 DEF ArcInv
<1>4. CASE DropWriter
  BY <1>1, <1>4 DEF DropWriter, DropArc, HInv, ArcInv
<1>5. CASE PollExit
  BY <1>1, <1>5 DEF PollExit, DropArc, HInv, ArcInv, mainVars
<1>6. CASE PollCheck \/ PollExport
  <2>1. /\ mpc' = mpc /\ holders' = holders /\ unlinked' = unlinked
        /\ ppc # "exited" /\ ppc' # "exited"
    BY <1>6 DEF PollCheck, PollExport, mainVars, arcVars
  <2>2. unlinked' <=> holders' = {}
    BY <2>1 DEF HInv, ArcInv
  <2> QED BY <1>1, <2>1, <2>2 DEF HInv, ArcInv
<1>7. CASE UNCHANGED <<mpc, ppc, arcVars>>
  BY <1>1, <1>7 DEF HInv, ArcInv, arcVars
<1>8. UNCHANGED <<mpc, ppc, arcVars>> \/ LoopEnds \/ FinalFlush \/ JoinPoller \/ DropWriter \/ Poll
  BY DEF HandlerNext, Main, LoopPush, LoopTry, LoopCount, Depth, DepthHead, DepthTail, HubSide,
     AllGone, mainVars, handlerVars
<1> QED BY <1>2, <1>3, <1>4, <1>5, <1>6, <1>7, <1>8 DEF Poll

(* Every step keeps the loaded head an older one. *)
LEMMA DepthKeeps ==
  ASSUME HInv, [HandlerNext]_handlerVars
  PROVE  DepthInv'
<1>1. Len(pushed) \in Nat /\ Len(pushed') \in Nat /\ Len(pushed) <= Len(pushed')
  BY StepOfFeed, FeedOnward DEF HInv
<1>2. CASE DepthHead
  <2>1. pushed' = pushed /\ head = Len(pushed) % CursorMod
    BY <1>2 DEF DepthHead, shmVars, ringVars, writerVars, HInv, FInv, RInv, CursorInv
  <2> QED BY <1>1, <1>2, <2>1 DEF DepthHead, DepthInv
<1>3. CASE DepthTail
  BY <1>3 DEF DepthTail, DepthInv
<1>4. CASE UNCHANGED depthVars
  BY <1>1, <1>4 DEF HInv, DepthInv, depthVars
<1>5. UNCHANGED depthVars \/ DepthHead \/ DepthTail
  BY DEF HandlerNext, Main, LoopPush, LoopTry, LoopCount, LoopEnds, FinalFlush, JoinPoller,
     DropWriter, Poll, PollCheck, PollExit, PollExport, Depth, HubSide, AllGone, handlerVars
<1> QED BY <1>2, <1>3, <1>4, <1>5

(* Every step keeps the type of the variables around the feed's loop. *)
LEMMA HandlerTypeKeeps ==
  ASSUME HInv, [HandlerNext]_handlerVars
  PROVE  HandlerTypeOK'
<1>1. /\ Len(pushed) \in Nat /\ head \in 0 .. (CursorMod - 1) /\ 0 \in 0 .. (CursorMod - 1)
      /\ CursorMod \in Nat \ {0}
  BY Counts DEF HInv, FInv, RInv, TypeOK
<1>2. CASE Depth
  <2>1. /\ UNCHANGED <<mpc, count, candlesPushed, ppc, exported, holders, unlinked>>
        /\ dpc' \in {"idle", "loaded"}
        /\ dhead' \in {head, 0} /\ dpushed' \in {Len(pushed), 0}
    BY <1>2 DEF Depth, DepthHead, DepthTail, mainVars, arcVars
  <2>2. dhead' \in 0 .. (CursorMod - 1) /\ dpushed' \in Nat
    BY <1>1, <2>1
  <2> QED BY <2>1, <2>2 DEF HInv, HandlerTypeOK
<1>3. CASE LoopCount \/ FinalFlush
  <2>1. /\ UNCHANGED <<ppc, exported, holders, unlinked, dpc, dhead, dpushed>>
        /\ mpc' \in {mpc, "join"} /\ count' \in {count, count + 1}
        /\ candlesPushed' \in {candlesPushed, count, count + 1}
    BY <1>3 DEF LoopCount, FinalFlush, arcVars, depthVars
  <2>2. count' \in Nat /\ candlesPushed' \in Nat
    BY <2>1 DEF HInv, HandlerTypeOK
  <2> QED BY <2>1, <2>2 DEF HInv, HandlerTypeOK
<1>4. CASE LoopEnds \/ JoinPoller
  BY <1>4 DEF HInv, HandlerTypeOK, LoopEnds, JoinPoller, arcVars, depthVars
<1>5. CASE DropWriter \/ PollExit
  <2>1. holders' \subseteq holders /\ unlinked' \in BOOLEAN
    BY <1>5 DEF DropWriter, PollExit, DropArc
  <2>2. /\ mpc' \in {mpc, "gone"} /\ ppc' \in {ppc, "exited"}
        /\ UNCHANGED <<count, candlesPushed, exported, dpc, dhead, dpushed>>
    BY <1>5 DEF DropWriter, PollExit, mainVars, depthVars
  <2> QED BY <2>1, <2>2 DEF HInv, HandlerTypeOK
<1>6. CASE PollCheck \/ PollExport
  BY <1>6 DEF HInv, HandlerTypeOK, PollCheck, PollExport, mainVars, arcVars, depthVars
<1>7. CASE UNCHANGED <<mainVars, ppc, exported, arcVars, depthVars>>
  BY <1>7 DEF HInv, HandlerTypeOK, mainVars, arcVars, depthVars
<1>8. \/ UNCHANGED <<mainVars, ppc, exported, arcVars, depthVars>> \/ LoopCount \/ FinalFlush
      \/ LoopEnds \/ JoinPoller \/ DropWriter \/ Poll \/ Depth
  BY DEF HandlerNext, Main, LoopPush, LoopTry, HubSide, AllGone, handlerVars
<1> QED BY <1>2, <1>3, <1>4, <1>5, <1>6, <1>7, <1>8 DEF Poll

(* The multiples of the flush interval are where the flush happens. *)
LEMMA NoFlushMissed ==
  ASSUME NEW a \in Nat, NEW c \in Nat, c % FlushEvery = 0, c <= a, a < c + FlushEvery,
         (a + 1) % FlushEvery # 0
  PROVE  a + 1 < c + FlushEvery
<1>1. FlushEvery \in Nat \ {0}
  BY FlushConstant
<1>2. c = FlushEvery * (c \div FlushEvery) /\ c \div FlushEvery \in Nat
  BY <1>1, DivMod
<1>3. PICK q \in Nat : c = FlushEvery * q
  BY <1>2
<1>4. a + 1 = c + FlushEvery => a + 1 = FlushEvery * (q + 1) + 0
  BY <1>1, <1>3, Distributes
<1>5. (FlushEvery * (q + 1) + 0) % FlushEvery = 0
  <2>1. q + 1 \in Int /\ 0 \in 0 .. (FlushEvery - 1)
    BY <1>1, <1>3
  <2> QED BY <1>1, <2>1, ModOf
<1> QED BY <1>1, <1>4, <1>5

(* Every step keeps main's count of the pushes. *)
LEMMA CountKeeps ==
  ASSUME HInv, [HandlerNext]_handlerVars
  PROVE  CountInv'
<1>0. /\ Len(pushed) \in Nat /\ pushed \in Seq(Items) /\ FlushEvery \in Nat \ {0}
      /\ count \in Nat /\ candlesPushed \in Nat
      /\ wpc # "idle" => witem \in Items /\ mpc = "loop" /\ count = Len(pushed)
      /\ mpc # "loop" => wpc = "idle" /\ fpc = "done"
  BY Counts, FlushConstant DEF HInv, FInv, RInv, TypeOK, WriterInv, StallInv, ArcInv, CountInv
<1>1. ASSUME NEW now \in 0 .. MaxNow, LoopPush(now) PROVE CountInv'
  <2>1. count = Len(pushed) /\ UNCHANGED <<mpc, count, candlesPushed, pushed>>
    BY <1>1 DEF LoopPush, AtTop, FeedPush, PushBegin, mainVars
  <2> QED BY <2>1 DEF HInv, CountInv
<1>2. CASE LoopTry
  <2>1. UNCHANGED <<mpc, count, candlesPushed>> /\ wpc # "idle"
    BY <1>2 DEF LoopTry, FeedTry, FeedPublish, FeedStall, FeedRetry, PushLoad, PushWrite,
       PushWritten, PushPublish, PushSpin, mainVars
  <2>2. \/ pushed' = pushed
        \/ pushed' = Append(pushed, witem) /\ wpc' = "idle"
    BY <1>2 DEF LoopTry, FeedTry, FeedPublish, FeedStall, FeedRetry, PushLoad, PushWrite,
       PushWritten, PushPublish, PushSpin
  <2>3. CASE pushed' = pushed
    BY <1>0, <2>1, <2>3 DEF HInv, CountInv
  <2>4. CASE pushed' = Append(pushed, witem) /\ wpc' = "idle"
    <3>1. Len(pushed') = Len(pushed) + 1
      BY <1>0, <2>4
    <3> QED BY <1>0, <2>1, <2>4, <3>1 DEF HInv, CountInv
  <2> QED BY <2>2, <2>3, <2>4
<1>3. CASE LoopCount
  <2>1. /\ mpc = "loop" /\ mpc' = "loop" /\ count < Len(pushed) /\ count' = count + 1
        /\ UNCHANGED <<wpc, pushed>>
    BY <1>3 DEF LoopCount, shmVars, ringVars, writerVars
  <2>2. Len(pushed) = count + 1
    BY <1>0, <2>1 DEF HInv, CountInv
  <2>3. CASE (count + 1) % FlushEvery = 0
    <3>1. candlesPushed' = count + 1
      BY <1>3, <2>3 DEF LoopCount
    <3> QED BY <1>0, <2>1, <2>2, <2>3, <3>1 DEF CountInv
  <2>4. CASE (count + 1) % FlushEvery # 0
    <3>1. candlesPushed' = candlesPushed
      BY <1>3, <2>4 DEF LoopCount
    <3>2. /\ candlesPushed % FlushEvery = 0 /\ candlesPushed <= count
          /\ count < candlesPushed + FlushEvery
      BY <2>1 DEF HInv, CountInv
    <3>3. count + 1 < candlesPushed + FlushEvery
      BY <1>0, <2>4, <3>2, NoFlushMissed
    <3> QED BY <1>0, <2>1, <2>2, <3>1, <3>2, <3>3 DEF CountInv
  <2> QED BY <2>3, <2>4
<1>4. CASE LoopEnds
  <2>1. /\ mpc = "loop" /\ mpc' = "flush" /\ count = Len(pushed)
        /\ UNCHANGED <<count, candlesPushed, pushed>>
    BY <1>4 DEF LoopEnds, AtTop, FeedStop, FeedCancel, PushRefused, ringVars, writerVars
  <2> QED BY <1>0, <2>1 DEF HInv, CountInv
<1>5. CASE FinalFlush
  <2>1. /\ mpc = "flush" /\ mpc' = "join" /\ candlesPushed' = count
        /\ UNCHANGED <<count, pushed, wpc>>
    BY <1>5 DEF FinalFlush, shmVars, ringVars, writerVars
  <2> QED BY <1>0, <2>1 DEF HInv, CountInv
<1>6. CASE JoinPoller \/ DropWriter
  <2>1. /\ mpc \in {"join", "drop"} /\ mpc' \in {"drop", "gone"}
        /\ UNCHANGED <<count, candlesPushed, pushed, wpc>>
    BY <1>6 DEF JoinPoller, DropWriter, shmVars, ringVars, writerVars
  <2> QED BY <1>0, <2>1 DEF HInv, CountInv
<1>7. CASE Poll \/ Depth \/ HubSide \/ AllGone \/ UNCHANGED handlerVars
  <2>1. UNCHANGED <<mpc, count, candlesPushed>>
    BY <1>7 DEF Poll, PollCheck, PollExit, PollExport, Depth, DepthHead, DepthTail, HubSide,
       AllGone, mainVars, handlerVars
  <2>2. UNCHANGED writerVars
    <3>1. CASE HubSide
      BY <3>1 DEF HubSide, Ingest, IngestCheck, IngestTry, IngestNone, IngestPop, IngestAppend,
         IngestCount, PopLoad, PopRead, PopCopied, PopEmpty, PopPublish, StopSignal, SetCancel,
         ringVars
    <3>2. CASE Poll \/ Depth \/ AllGone \/ UNCHANGED handlerVars
      BY <3>2 DEF Poll, PollCheck, PollExit, PollExport, Depth, DepthHead, DepthTail, AllGone,
         Stopped, handlerVars, shmVars, ringVars
    <3> QED BY <1>7, <3>1, <3>2
  <2> QED BY <2>1, <2>2 DEF HInv, CountInv, writerVars
<1> QED BY <1>1, <1>2, <1>3, <1>4, <1>5, <1>6, <1>7 DEF HandlerNext, Main

(* Every step keeps the exported count behind the shared one. *)
LEMMA ExportKeeps ==
  ASSUME HInv, [HandlerNext]_handlerVars
  PROVE  ExportInv'
<1>0. /\ exported \in Nat /\ candlesPushed \in Nat /\ exported <= candlesPushed
      /\ count \in Nat /\ candlesPushed <= count
  BY DEF HInv, ExportInv, CountInv
<1>1. CASE PollExport
  <2>1. exported' = candlesPushed /\ candlesPushed' = candlesPushed
    BY <1>1 DEF PollExport, mainVars
  <2> QED BY <1>0, <2>1 DEF ExportInv
<1>2. CASE exported' = exported /\ candlesPushed' \in {candlesPushed, count, count + 1}
  BY <1>0, <1>2 DEF ExportInv
<1>3. PollExport \/ (exported' = exported /\ candlesPushed' \in {candlesPushed, count, count + 1})
  BY DEF HandlerNext, Main, LoopPush, LoopTry, LoopCount, LoopEnds, FinalFlush, JoinPoller,
     DropWriter, Poll, PollCheck, PollExit, Depth, DepthHead, DepthTail, HubSide, AllGone,
     mainVars, handlerVars
<1> QED BY <1>1, <1>2, <1>3

(* The inductive invariant holds of every behaviour of both processes. *)
THEOREM HandlerInvariant == HandlerSpec => []HInv
<1>1. HandlerInit => HInv
  <2> SUFFICES ASSUME HandlerInit PROVE HInv
    OBVIOUS
  <2>1. FInv
    BY FeedInitFInv DEF HandlerInit
  <2>2. ArcInv /\ DepthInv
    BY DEF HandlerInit, FeedInit, ArcInv, DepthInv
  <2>3. HandlerTypeOK
    <3>1. 0 \in 0 .. (CursorMod - 1) /\ 0 \in Nat
      BY Widths
    <3>2. unlinked \in BOOLEAN /\ holders \subseteq {"main", "poller"}
      BY DEF HandlerInit
    <3> QED BY <3>1, <3>2 DEF HandlerInit, HandlerTypeOK
  <2>4. CountInv
    <3>1. Len(pushed) = 0 /\ 0 % FlushEvery = 0 /\ FlushEvery \in Nat \ {0}
      BY FlushConstant DEF HandlerInit, FeedInit, Init
    <3> QED BY <3>1 DEF HandlerInit, CountInv
  <2>5. ExportInv
    BY DEF HandlerInit, ExportInv
  <2> QED BY <2>1, <2>2, <2>3, <2>4, <2>5 DEF HInv
<1>2. HInv /\ [HandlerNext]_handlerVars => HInv'
  <2> SUFFICES ASSUME HInv, [HandlerNext]_handlerVars PROVE HInv'
    OBVIOUS
  <2>1. FInv'
    BY StepOfFeed, FeedNextKeeps DEF HInv
  <2> QED BY <2>1, HandlerTypeKeeps, ArcKeeps, DepthKeeps, CountKeeps, ExportKeeps
         DEF HInv
<1> QED BY <1>1, <1>2, PTL DEF HandlerSpec

-----------------------------------------------------------------------------
(* The processes of feed_handler and market_hub implement ShmFeed: pollers, *)
(* counters and Arcs leave the ring, push_until and the ingester alone.    *)
THEOREM HandlerUsesFeed == HandlerSpec => UsesFeed
<1>1. HandlerInit => FeedInit
  BY DEF HandlerInit
<1>2. [HandlerNext]_handlerVars => [FeedNext]_shmVars
  BY StepOfFeed
<1> QED BY <1>1, <1>2, PTL DEF HandlerSpec, UsesFeed, FeedSpec

(* The feed's loop and its two pollers: stalls counted once; the count     *)
(* main shares at most one flush behind the pushes and exact from the      *)
(* final flush on, what the poller exported never ahead of it; the segment *)
(* unlinked by its last holder and before main returns.                    *)
THEOREM HandlerSafe == HandlerSpec => []HandlerInv
<1>1. FInv => FeedInv
  BY FInvGivesFeedInv
<1>2. HInv => UnlinkedOnExit
  BY DEF HInv, ArcInv, UnlinkedOnExit
<1>3. HInv => CountFlushed
  <2> SUFFICES ASSUME HInv PROVE CountFlushed
    OBVIOUS
  <2>1. /\ Len(pushed) \in Nat /\ FlushEvery \in Nat \ {0}
        /\ mpc \in {"join", "drop", "gone"} => mpc # "loop"
    BY Counts, FlushConstant DEF HInv, FInv, RInv
  <2> QED BY <2>1 DEF HInv, CountInv, ExportInv, CountFlushed
<1>4. HInv => HandlerInv
  BY <1>1, <1>2, <1>3 DEF HInv, HandlerInv
<1> QED BY <1>4, HandlerInvariant, PTL

(* main returns only when the segment is unlinked, and the segment is      *)
(* unlinked only when the poller and the hot loop are done with it.        *)
THEOREM HandlerUnlinks == HandlerSpec => []UnlinkedOnExit
<1>1. HInv => UnlinkedOnExit
  BY DEF HInv, ArcInv, UnlinkedOnExit
<1> QED BY <1>1, HandlerInvariant, PTL

(* depth() returns a depth the ring had, unless the reader overtook it,    *)
(* across any number of cursor wraps.                                      *)
THEOREM HandlerDepthHonest == HandlerSpec => []DepthHonest
<1>1. HInv => DepthHonest
  <2> SUFFICES ASSUME HInv, dpc = "loaded", Len(popped) <= dpushed
               PROVE  DepthNow = dpushed - Len(popped) /\ DepthNow <= Capacity
    BY DEF DepthHonest
  <2>1. /\ Len(popped) \in Nat /\ Len(pushed) \in Nat
        /\ Len(pushed) <= Len(popped) + Capacity /\ tail = Len(popped) % CursorMod
    BY Counts DEF HInv, FInv, RInv, CursorInv
  <2>2. dpushed \in Nat /\ dpushed <= Len(pushed) /\ dhead = dpushed % CursorMod
    BY DEF HInv, DepthInv
  <2>3. dpushed - Len(popped) <= Capacity /\ dpushed - Len(popped) < CursorMod
    BY <2>1, <2>2, Widths
  <2>4. Distance(dpushed % CursorMod, Len(popped) % CursorMod) = dpushed - Len(popped)
    BY <2>1, <2>2, <2>3, DistanceOf
  <2> QED BY <2>1, <2>2, <2>3, <2>4 DEF DepthNow
<1> QED BY <1>1, HandlerInvariant, PTL

-----------------------------------------------------------------------------
(* ShmSegment: the life of the segment. *)


(* Only create_force gets past its unlink, and forced remembers any call.  *)
ForceInv ==
  /\ \A p \in Producers : pc[p] = "open" => force[p]
  /\ \A p \in Producers : force[p] => forced

(* From its shm_open to the end of its Drop a producer owns the name.      *)
Active(p) == Holding(p) \/ pc[p] = "unmapped"
OwnerInv ==
  ~forced =>
    /\ \A p \in Producers : Active(p) => name # 0
    /\ \A p, q \in Producers : Active(p) /\ Active(q) => p = q

(* What a producer has made of its segment so far. *)
Content(seg, c, place) ==
  /\ seg.size = (IF place = "truncate" THEN 0 ELSE c)
  /\ seg.capacity = (IF place \in {"truncate", "init"} THEN 0 ELSE c)
  /\ seg.ready <=> place = "live"
  /\ seg.starts = (IF place \in {"truncate", "init"} THEN 0 ELSE 1)
LayoutInv ==
  ~forced =>
    /\ \A p \in Producers : Holding(p) => Content(segs[fd[p]], cap[p], pc[p])
    /\ \A i \in 1 .. Len(segs) :
         segs[i].ready => segs[i].size = segs[i].capacity /\ segs[i].starts = 1

(* What a reader has seen of its segment stays so. *)
AttachInv ==
  ~forced =>
    \A r \in Readers :
      /\ opc[r] \in {"check", "attached"} => segs[rfd[r]].ready
      /\ opc[r] = "attached" => segs[rfd[r]].capacity = rcap[r]

SInv == SegmentTypeOK /\ ForceInv /\ CreateExclusive /\ OwnerInv /\ NameIsOurs /\ LayoutInv /\ AttachInv

-----------------------------------------------------------------------------
(* A producer's step that takes no segment, lays none out, and leaves the  *)
(* name alone: it enters create, finds the name in use, fails, or dies.    *)
LEMMA LeavesKeeps ==
  ASSUME SInv, NEW p \in Producers,
         Create(p) \/ ShmExists(p) \/ CreateFails(p) \/ WriterUnmap(p) \/ ProducerCrash(p)
  PROVE  SInv'
<1> USE DEF openerVars
<1>1. ASSUME Create(p) PROVE SegmentTypeOK' /\ ForceInv'
  <2>1. PICK c \in Capacities, f \in BOOLEAN :
          /\ cap' = [cap EXCEPT ![p] = c] /\ force' = [force EXCEPT ![p] = f]
          /\ forced' = (forced \/ f)
    BY <1>1, SegmentConstants DEF Create
  <2>2. pc' = [pc EXCEPT ![p] = "enter"] /\ UNCHANGED <<name, segs, fd, opc, rfd, rcap>> /\ c # 0
    BY <1>1, SegmentConstants DEF Create
  <2>3. SegmentTypeOK'
    BY <2>1, <2>2 DEF SInv, SegmentTypeOK, Holding
  <2>4. ForceInv'
    BY <2>1, <2>2 DEF SInv, SegmentTypeOK, ForceInv
  <2> QED BY <2>3, <2>4
<1>2. ASSUME ShmExists(p) \/ CreateFails(p) \/ WriterUnmap(p) \/ ProducerCrash(p)
      PROVE  SegmentTypeOK' /\ ForceInv'
  <2>1. /\ pc' = [pc EXCEPT ![p] = pc'[p]] /\ pc'[p] \in {"idle", "unmapped"}
        /\ pc'[p] = "unmapped" => pc[p] = "live"
        /\ fd' = fd \/ fd' = [fd EXCEPT ![p] = 0]
        /\ UNCHANGED <<name, segs, cap, force, opc, rfd, rcap, forced>>
    BY <1>2 DEF ShmExists, CreateFails, WriterUnmap, ProducerCrash, SInv, SegmentTypeOK
  <2>2. SegmentTypeOK'
    <3>1. fd' \in [Producers -> 0 .. Len(segs)] /\ \A q \in Producers : q # p => fd'[q] = fd[q]
      BY <2>1 DEF SInv, SegmentTypeOK
    <3>2. \A q \in Producers : q # p => pc'[q] = pc[q]
      BY <2>1 DEF SInv, SegmentTypeOK
    <3>3. \A q \in Producers : (Holding(q)' => fd'[q] # 0) /\ (pc'[q] # "idle" => cap'[q] # 0)
      BY <2>1, <3>1, <3>2 DEF SInv, SegmentTypeOK, Holding
    <3>4. pc' \in [Producers -> {"idle", "enter", "open", "truncate", "init", "ready", "live",
                                 "unmapped"}]
      BY <2>1 DEF SInv, SegmentTypeOK
    <3> QED BY <2>1, <3>1, <3>3, <3>4 DEF SInv, SegmentTypeOK
  <2>3. ForceInv'
    BY <2>1 DEF SInv, SegmentTypeOK, ForceInv
  <2> QED BY <2>2, <2>3
<1>3. /\ UNCHANGED <<name, segs, opc, rfd, rcap>> /\ (forced => forced')
      /\ ~ Holding(p)'
      /\ Active(p)' => Active(p)
      /\ \A q \in Producers \ {p} : /\ pc'[q] = pc[q] /\ fd'[q] = fd[q]
                                    /\ cap'[q] = cap[q] /\ force'[q] = force[q]
  BY DEF Create, ShmExists, Opens, CreateFails, WriterUnmap, ProducerCrash, SInv, SegmentTypeOK,
     Holding, Active
<1>4. CreateExclusive'
  BY <1>3 DEF SInv, CreateExclusive, Share, Holding
<1>5. OwnerInv' /\ NameIsOurs'
  BY <1>3 DEF SInv, OwnerInv, NameIsOurs, Active, Holding
<1>6. LayoutInv' /\ AttachInv'
  BY <1>3 DEF SInv, LayoutInv, AttachInv, Holding
<1> QED BY <1>1, <1>2, <1>4, <1>5, <1>6 DEF SInv

(* create_force's unlink takes the name from whoever has it. *)
LEMMA UnlinkKeeps ==
  ASSUME SInv, NEW p \in Producers, Unlink(p)
  PROVE  SInv'
<1> USE DEF openerVars
<1>1. SegmentTypeOK'
  BY DEF Unlink, SInv, SegmentTypeOK, Holding
<1>2. ForceInv' /\ forced'
  BY DEF Unlink, SInv, SegmentTypeOK, ForceInv
<1>3. CreateExclusive'
  BY DEF Unlink, SInv, SegmentTypeOK, CreateExclusive, Share, Holding
<1> QED BY <1>1, <1>2, <1>3 DEF SInv, OwnerInv, NameIsOurs, LayoutInv, AttachInv

(* O_EXCL found the name free: nobody is active, the segment is new. *)
LEMMA ShmCreatesKeeps ==
  ASSUME SInv, NEW p \in Producers, ShmCreates(p)
  PROVE  SInv'
<1> USE DEF openerVars
<1> DEFINE n == Len(segs) + 1
<1>1. /\ segs \in Seq(Segment) /\ Blank \in Segment /\ Len(segs) \in Nat
      /\ segs' \in Seq(Segment) /\ Len(segs') = n /\ segs'[n] = Blank
      /\ \A i \in 1 .. Len(segs) : segs'[i] = segs[i]
  BY DEF ShmCreates, SInv, SegmentTypeOK, Segment, Blank
<1>2. /\ name = 0 /\ name' = n /\ fd' = [fd EXCEPT ![p] = n]
      /\ pc' = [pc EXCEPT ![p] = "truncate"] /\ UNCHANGED <<cap, force, opc, rfd, rcap, forced>>
      /\ Len(segs) < MaxSegments /\ pc[p] \in {"enter", "open"}
  BY DEF ShmCreates, Opens
<1>3. SegmentTypeOK'
  BY <1>1, <1>2, SegmentConstants DEF SInv, SegmentTypeOK, Holding
<1>4. ForceInv'
  BY <1>2 DEF SInv, SegmentTypeOK, ForceInv
<1>5. \A q \in Producers : q # p => pc'[q] = pc[q] /\ fd'[q] = fd[q] /\ fd[q] < n
  BY <1>1, <1>2 DEF SInv, SegmentTypeOK
<1>6. fd'[p] = n /\ pc'[p] = "truncate"
  BY <1>2 DEF SInv, SegmentTypeOK
<1>7. CreateExclusive'
  BY <1>1, <1>2, <1>5, <1>6 DEF SInv, SegmentTypeOK, CreateExclusive, Share, Holding
<1>8. ~ forced => \A q \in Producers : ~ Active(q)
  BY <1>2 DEF SInv, OwnerInv
<1>9. OwnerInv' /\ NameIsOurs'
  BY <1>1, <1>2, <1>5, <1>6, <1>8 DEF OwnerInv, NameIsOurs, Active, Holding
<1>10. LayoutInv'
  <2>1. ~ forced => \A q \in Producers : Holding(q)' => q = p
    BY <1>5, <1>8 DEF Active, Holding
  <2>2. Content(segs'[fd'[p]], cap'[p], pc'[p])
    BY <1>1, <1>6 DEF Content, Blank
  <2>3. \A i \in 1 .. n : i = n \/ i \in 1 .. Len(segs)
    BY <1>1
  <2>4. ~ Blank.ready
    BY DEF Blank
  <2> QED BY <1>1, <1>2, <2>1, <2>2, <2>3, <2>4 DEF SInv, LayoutInv
<1>11. AttachInv'
  <2>1. \A r \in Readers : opc[r] # "idle" => rfd[r] \in 1 .. Len(segs)
    BY <1>1 DEF SInv, SegmentTypeOK
  <2> QED BY <1>1, <1>2, <2>1 DEF SInv, AttachInv
<1> QED BY <1>3, <1>4, <1>7, <1>9, <1>10, <1>11 DEF SInv

(* Without O_EXCL, another's segment may be taken over: create_force only. *)
LEMMA ShmOpensExistingKeeps ==
  ASSUME SInv, NEW p \in Producers, ShmOpensExisting(p)
  PROVE  SInv'
<1> USE DEF openerVars
<1>1. force[p] /\ name # 0 /\ UNCHANGED <<name, segs, cap, force, opc, rfd, rcap, forced>>
  BY DEF ShmOpensExisting, MayTakeOver
<1>2. SegmentTypeOK'
  BY DEF ShmOpensExisting, Opens, SInv, SegmentTypeOK, Holding
<1>3. ForceInv' /\ forced'
  BY <1>1 DEF ShmOpensExisting, SInv, SegmentTypeOK, ForceInv
<1>4. CreateExclusive'
  BY <1>1 DEF ShmOpensExisting, SInv, SegmentTypeOK, CreateExclusive, Share, Holding
<1> QED BY <1>2, <1>3, <1>4 DEF SInv, OwnerInv, NameIsOurs, LayoutInv, AttachInv

-----------------------------------------------------------------------------
(* A header store or ftruncate of a producer on its own segment: the       *)
(* segment gets the new content seg.                                       *)
LEMMA LayoutKeeps ==
  ASSUME SInv, NEW p \in Producers, NEW seg \in Segment,
         pc[p] \in {"truncate", "init", "ready"}, pc'[p] \in {"init", "ready", "live"},
         segs' = [segs EXCEPT ![fd[p]] = seg], pc' = [pc EXCEPT ![p] = pc'[p]],
         UNCHANGED <<name, fd, cap, force, opc, rfd, rcap, forced>>,
         ~ forced => Content(seg, cap[p], pc'[p])
  PROVE  SInv'
<1>1. /\ fd[p] \in 1 .. Len(segs) /\ Len(segs) \in Nat
      /\ segs' \in Seq(Segment) /\ Len(segs') = Len(segs)
      /\ segs'[fd[p]] = seg
      /\ \A i \in 1 .. Len(segs) : i # fd[p] => segs'[i] = segs[i]
  BY DEF SInv, SegmentTypeOK, Holding
<1>2. \A q \in Producers : /\ q # p => pc'[q] = pc[q]
                           /\ Holding(q)' <=> Holding(q)
                           /\ Active(q)' <=> Active(q)
  BY DEF SInv, SegmentTypeOK, Holding, Active
<1>3. SegmentTypeOK'
  BY <1>1, <1>2 DEF SInv, SegmentTypeOK
<1>4. ForceInv'
  BY <1>2 DEF SInv, SegmentTypeOK, ForceInv
<1>5. CreateExclusive'
  BY <1>2 DEF SInv, CreateExclusive, Share
<1>6. OwnerInv' /\ NameIsOurs'
  BY <1>2 DEF SInv, OwnerInv, NameIsOurs
<1>7. LayoutInv'
  <2> SUFFICES ASSUME ~ forced PROVE LayoutInv'
    BY DEF LayoutInv
  <2>1. ASSUME NEW q \in Producers, Holding(q)'
        PROVE  Content(segs'[fd'[q]], cap'[q], pc'[q])
    <3>1. CASE q = p
      BY <1>1, <3>1 DEF SInv, SegmentTypeOK
    <3>2. CASE q # p
      <4>1. Active(q) /\ Active(p) /\ Holding(q)
        BY <1>2, <2>1 DEF Active, Holding
      <4> QED BY <3>2, <4>1 DEF SInv, OwnerInv
    <3> QED BY <3>1, <3>2
  <2>2. seg.ready => seg.size = seg.capacity /\ seg.starts = 1
    BY DEF Content
  <2> QED BY <1>1, <2>1, <2>2 DEF SInv, LayoutInv
<1>8. AttachInv'
  <2> SUFFICES ASSUME ~ forced PROVE AttachInv'
    BY DEF AttachInv
  <2>1. ~ segs[fd[p]].ready
    <3>1. Content(segs[fd[p]], cap[p], pc[p])
      BY DEF SInv, LayoutInv, Holding
    <3> QED BY <3>1 DEF Content
  <2>2. \A r \in Readers : opc[r] \in {"check", "attached"} =>
          rfd[r] \in 1 .. Len(segs) /\ rfd[r] # fd[p]
    BY <1>1, <2>1 DEF SInv, SegmentTypeOK, AttachInv
  <2> QED BY <1>1, <2>2 DEF SInv, AttachInv
<1> QED BY <1>3, <1>4, <1>5, <1>6, <1>7, <1>8 DEF SInv

(* ftruncate, the header and the ready flag lay the segment out in order.  *)
LEMMA LaysOutKeeps ==
  ASSUME SInv, NEW p \in Producers, Truncate(p) \/ InitHeader(p) \/ SetReady(p)
  PROVE  SInv'
<1> DEFINE old == segs[fd[p]]
<1>0. /\ old \in Segment /\ fd[p] \in 1 .. Len(segs) /\ cap[p] \in Capacities /\ cap[p] # 0
      /\ ~ forced => Content(old, cap[p], pc[p])
  BY DEF Truncate, InitHeader, SetReady, SInv, SegmentTypeOK, LayoutInv, Holding
<1>1. CASE Truncate(p)
  <2> DEFINE seg == [old EXCEPT !.size = cap[p]]
  <2>1. segs' = [segs EXCEPT ![fd[p]] = seg]
    BY <1>0, <1>1 DEF Truncate, SInv, SegmentTypeOK
  <2>2. /\ seg \in Segment /\ seg.size = cap[p] /\ seg.capacity = old.capacity
        /\ seg.ready = old.ready /\ seg.starts = old.starts
    BY <1>0 DEF Segment
  <2>3. ~ forced => Content(seg, cap[p], pc'[p])
    BY <1>0, <1>1, <2>2 DEF Truncate, Content, SInv, SegmentTypeOK
  <2>4. /\ pc[p] \in {"truncate", "init", "ready"} /\ pc'[p] \in {"init", "ready", "live"}
        /\ pc' = [pc EXCEPT ![p] = pc'[p]]
        /\ UNCHANGED <<name, fd, cap, force, opc, rfd, rcap, forced>>
    BY <1>1 DEF Truncate, openerVars, SInv, SegmentTypeOK
  <2>5. seg \in Segment
    BY <2>2
  <2> HIDE DEF seg
  <2> QED BY <2>1, <2>3, <2>4, <2>5, LayoutKeeps
<1>2. CASE InitHeader(p)
  <2> DEFINE seg == [old EXCEPT !.capacity = cap[p], !.starts = @ + 1]
  <2>1. segs' = [segs EXCEPT ![fd[p]] = seg]
    BY <1>0, <1>2 DEF InitHeader, SInv, SegmentTypeOK
  <2>2. /\ seg \in Segment /\ seg.size = old.size /\ seg.capacity = cap[p]
        /\ seg.ready = old.ready /\ seg.starts = old.starts + 1
    <3> DEFINE mid == [old EXCEPT !.capacity = cap[p]]
    <3>1. /\ mid \in Segment /\ mid.size = old.size /\ mid.capacity = cap[p]
          /\ mid.ready = old.ready /\ mid.starts = old.starts
      BY <1>0 DEF Segment
    <3>2. seg = [mid EXCEPT !.starts = mid.starts + 1]
      OBVIOUS
    <3>3. mid.starts + 1 \in Nat
      BY <3>1 DEF Segment
    <3> HIDE DEF mid, seg
    <3>4. /\ seg \in Segment /\ seg.size = mid.size /\ seg.capacity = mid.capacity
          /\ seg.ready = mid.ready /\ seg.starts = mid.starts + 1
      BY <3>1, <3>2, <3>3 DEF Segment
    <3> QED BY <3>1, <3>4
  <2>3. ~ forced => Content(seg, cap[p], pc'[p])
    BY <1>0, <1>2, <2>2 DEF InitHeader, Content, SInv, SegmentTypeOK
  <2>4. /\ pc[p] \in {"truncate", "init", "ready"} /\ pc'[p] \in {"init", "ready", "live"}
        /\ pc' = [pc EXCEPT ![p] = pc'[p]]
        /\ UNCHANGED <<name, fd, cap, force, opc, rfd, rcap, forced>>
    BY <1>2 DEF InitHeader, openerVars, SInv, SegmentTypeOK
  <2>5. seg \in Segment
    BY <2>2
  <2> HIDE DEF seg
  <2> QED BY <2>1, <2>3, <2>4, <2>5, LayoutKeeps
<1>3. CASE SetReady(p)
  <2> DEFINE seg == [old EXCEPT !.ready = TRUE]
  <2>1. segs' = [segs EXCEPT ![fd[p]] = seg]
    BY <1>0, <1>3 DEF SetReady, SInv, SegmentTypeOK
  <2>2. /\ seg \in Segment /\ seg.size = old.size /\ seg.capacity = old.capacity
        /\ seg.ready = TRUE /\ seg.starts = old.starts
    BY <1>0 DEF Segment
  <2>3. ~ forced => Content(seg, cap[p], pc'[p])
    BY <1>0, <1>3, <2>2 DEF SetReady, Content, SInv, SegmentTypeOK
  <2>4. /\ pc[p] \in {"truncate", "init", "ready"} /\ pc'[p] \in {"init", "ready", "live"}
        /\ pc' = [pc EXCEPT ![p] = pc'[p]]
        /\ UNCHANGED <<name, fd, cap, force, opc, rfd, rcap, forced>>
    BY <1>3 DEF SetReady, openerVars, SInv, SegmentTypeOK
  <2>5. seg \in Segment
    BY <2>2
  <2> HIDE DEF seg
  <2> QED BY <2>1, <2>3, <2>4, <2>5, LayoutKeeps
<1> QED BY <1>1, <1>2, <1>3

-----------------------------------------------------------------------------
(* The end of Drop, or an operator's rm with no producer running: the name *)
(* goes, and with it the only producer that could have owned it.           *)
LEMMA NameGoesKeeps ==
  ASSUME SInv, RemoveStale \/ \E p \in Producers : WriterUnlink(p)
  PROVE  SInv'
<1> USE DEF openerVars, producerVars
<1>1. /\ name' = 0 /\ UNCHANGED <<segs, fd, cap, force, opc, rfd, rcap, forced>>
      /\ \A q \in Producers : Holding(q)' => Holding(q) /\ pc'[q] = pc[q]
      /\ ~ forced => \A q \in Producers : ~ Active(q)'
  <2>1. CASE RemoveStale
    BY <2>1 DEF RemoveStale, Active, Holding
  <2>2. ASSUME NEW p \in Producers, WriterUnlink(p)
        PROVE  /\ name' = 0 /\ UNCHANGED <<segs, fd, cap, force, opc, rfd, rcap, forced>>
               /\ \A q \in Producers : Holding(q)' => Holding(q) /\ pc'[q] = pc[q]
               /\ ~ forced => \A q \in Producers : ~ Active(q)'
    BY <2>2 DEF WriterUnlink, SInv, SegmentTypeOK, OwnerInv, Active, Holding
  <2> QED BY <2>1, <2>2
<1>2. SegmentTypeOK' /\ ForceInv'
  <2>1. CASE RemoveStale
    BY <2>1 DEF RemoveStale, SInv, SegmentTypeOK, ForceInv, Holding
  <2>2. ASSUME NEW p \in Producers, WriterUnlink(p) PROVE SegmentTypeOK' /\ ForceInv'
    BY <2>2 DEF WriterUnlink, SInv, SegmentTypeOK, ForceInv, Holding
  <2> QED BY <2>1, <2>2
<1>3. CreateExclusive'
  BY <1>1 DEF SInv, CreateExclusive, Share
<1>4. OwnerInv' /\ NameIsOurs'
  BY <1>1 DEF OwnerInv, NameIsOurs, Active
<1>5. LayoutInv' /\ AttachInv'
  BY <1>1 DEF SInv, LayoutInv, AttachInv
<1> QED BY <1>2, <1>3, <1>4, <1>5 DEF SInv

(* A reader only looks. *)
LEMMA ReaderKeeps ==
  ASSUME SInv, NEW r \in Readers, ReaderOpen(r) \/ OpenStep(r) \/ ReaderEnds(r)
  PROVE  SInv'
<1>1. UNCHANGED <<name, segs, pc, fd, cap, force, forced>>
  BY DEF ReaderOpen, OpenStep, ReaderFault, ReaderReady, ReaderTimeout, ReaderAttach,
     ReaderMismatch, ReaderEnds, producerVars
<1>2. ForceInv' /\ CreateExclusive' /\ OwnerInv' /\ NameIsOurs' /\ LayoutInv'
  BY <1>1 DEF SInv, ForceInv, CreateExclusive, Share, OwnerInv, NameIsOurs, LayoutInv, Active,
     Holding
<1>3. SegmentTypeOK' /\ AttachInv'
  <2>1. CASE ReaderOpen(r)
    BY <1>1, <2>1 DEF ReaderOpen, SInv, SegmentTypeOK, AttachInv, Holding
  <2>2. CASE ReaderFault(r) \/ ReaderTimeout(r) \/ ReaderMismatch(r) \/ ReaderEnds(r)
    <3>1. /\ opc' = [opc EXCEPT ![r] = opc'[r]] /\ opc'[r] \in {"idle", "killed"} /\ rcap' = rcap
          /\ opc'[r] = "killed" => rfd' = rfd /\ opc[r] = "spin"
          /\ rfd' = rfd \/ rfd' = [rfd EXCEPT ![r] = 0]
      BY <2>2 DEF ReaderFault, ReaderTimeout, ReaderMismatch, ReaderEnds, SInv, SegmentTypeOK
    <3>2. /\ opc' \in [Readers -> {"idle", "spin", "check", "attached", "killed"}]
          /\ rfd' \in [Readers -> 0 .. Len(segs)]
          /\ \A q \in Readers : q # r => opc'[q] = opc[q] /\ rfd'[q] = rfd[q]
      <4>1. 0 \in 0 .. Len(segs)
        BY DEF SInv, SegmentTypeOK
      <4>2. CASE rfd' = rfd
        BY <3>1, <4>2 DEF SInv, SegmentTypeOK
      <4>3. CASE rfd' = [rfd EXCEPT ![r] = 0]
        BY <3>1, <4>1, <4>3 DEF SInv, SegmentTypeOK
      <4> QED BY <3>1, <4>2, <4>3
    <3>3. \A q \in Readers : opc'[q] # "idle" => rfd'[q] # 0
      BY <3>1, <3>2 DEF SInv, SegmentTypeOK
    <3>4. SegmentTypeOK'
      BY <1>1, <3>1, <3>2, <3>3 DEF SInv, SegmentTypeOK, Holding
    <3>5. AttachInv'
      BY <1>1, <3>1, <3>2 DEF SInv, AttachInv
    <3> QED BY <3>4, <3>5
  <2>3. CASE ReaderReady(r)
    BY <1>1, <2>3 DEF ReaderReady, SInv, SegmentTypeOK, AttachInv, Holding
  <2>4. CASE ReaderAttach(r)
    BY <1>1, <2>4 DEF ReaderAttach, Fits, SInv, SegmentTypeOK, AttachInv, Holding
  <2> QED BY <2>1, <2>2, <2>3, <2>4 DEF OpenStep
<1> QED BY <1>2, <1>3 DEF SInv

-----------------------------------------------------------------------------
(* No segment, no producer, no reader: the invariant holds at the start.   *)
LEMMA InitSInv == SegmentInit => SInv
<1> SUFFICES ASSUME SegmentInit PROVE SInv
  OBVIOUS
<1>1. SegmentTypeOK
  <2>1. segs \in Seq(Segment) /\ Len(segs) = 0 /\ 0 \in 0 .. 0 /\ 0 <= MaxSegments
    BY SegmentConstants DEF SegmentInit
  <2> QED BY <2>1 DEF SegmentInit, SegmentTypeOK, Holding
<1>2. ForceInv /\ CreateExclusive /\ OwnerInv /\ NameIsOurs
  BY DEF SegmentInit, ForceInv, CreateExclusive, Share, OwnerInv, NameIsOurs, Active, Holding
<1>3. LayoutInv /\ AttachInv
  BY DEF SegmentInit, LayoutInv, AttachInv, Holding
<1> QED BY <1>1, <1>2, <1>3 DEF SInv

(* Every system call, header store, crash and removal keeps the invariant. *)
LEMMA NextSInv == SInv /\ [SegmentNext]_segmentVars => SInv'
<1> SUFFICES ASSUME SInv, [SegmentNext]_segmentVars PROVE SInv'
  OBVIOUS
<1>1. ASSUME NEW p \in Producers,
             Create(p) \/ CreateStep(p) \/ CreateFails(p)
               \/ WriterUnmap(p) \/ WriterUnlink(p) \/ ProducerCrash(p)
      PROVE  SInv'
  BY <1>1, LeavesKeeps, UnlinkKeeps, ShmCreatesKeeps, ShmOpensExistingKeeps, LaysOutKeeps,
     NameGoesKeeps DEF CreateStep
<1>2. CASE RemoveStale
  BY <1>2, NameGoesKeeps
<1>3. ASSUME NEW r \in Readers, ReaderOpen(r) \/ OpenStep(r) \/ ReaderEnds(r) PROVE SInv'
  BY <1>3, ReaderKeeps
<1>4. CASE UNCHANGED segmentVars
  <2> USE <1>4 DEF segmentVars, producerVars, openerVars, SInv
  <2>1. SegmentTypeOK' /\ ForceInv'
    BY DEF SegmentTypeOK, ForceInv, Holding
  <2>2. CreateExclusive' /\ OwnerInv' /\ NameIsOurs'
    BY DEF CreateExclusive, Share, OwnerInv, NameIsOurs, Active, Holding
  <2>3. LayoutInv' /\ AttachInv'
    BY DEF LayoutInv, AttachInv, Holding
  <2> QED BY <2>1, <2>2, <2>3
<1> QED BY <1>1, <1>2, <1>3, <1>4 DEF SegmentNext

(* The inductive invariant holds of every life of the segment. *)
THEOREM SegmentInvariant == SegmentSpec => []SInv
<1>1. SegmentInit => SInv
  BY InitSInv
<1>2. SInv /\ [SegmentNext]_segmentVars => SInv'
  BY NextSInv
<1> QED BY <1>1, <1>2, PTL DEF SegmentSpec

(* Two plain creators never hold one segment, and a reader that open let   *)
(* through maps one laid out once, for its capacity, unless create_force   *)
(* was used.                                                               *)
THEOREM SegmentSafe == SegmentSpec => []SegmentInv
<1>1. SInv => SegmentInv
  <2> SUFFICES ASSUME SInv PROVE AttachedFits
    BY DEF SInv, SegmentInv
  <2> SUFFICES ASSUME ~ forced, NEW r \in Readers, opc[r] = "attached"
               PROVE  /\ segs[rfd[r]].size = rcap[r] /\ segs[rfd[r]].capacity = rcap[r]
                      /\ segs[rfd[r]].ready /\ segs[rfd[r]].starts = 1
    BY DEF AttachedFits
  <2>1. rfd[r] \in 1 .. Len(segs)
    BY DEF SInv, SegmentTypeOK
  <2>2. segs[rfd[r]].ready /\ segs[rfd[r]].capacity = rcap[r]
    BY DEF SInv, AttachInv
  <2> QED BY <2>1, <2>2 DEF SInv, LayoutInv
<1> QED BY <1>1, SegmentInvariant, PTL

(* Nothing but create_force takes the name from a live producer: no crash, *)
(* Drop, failed create or removal elsewhere.                               *)
THEOREM SegmentNameIsOurs == SegmentSpec => []NameIsOurs
<1>1. SInv => NameIsOurs
  BY DEF SInv
<1> QED BY <1>1, SegmentInvariant, PTL
=============================================================================
