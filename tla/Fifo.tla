-------------------------------- MODULE Fifo --------------------------------
(***************************************************************************)
(* What the SPSC rings of src/shm.rs promise their two users: a bounded    *)
(* first-in first-out queue in which a put and a get are single steps.     *)
(***************************************************************************)
EXTENDS Naturals, Sequences

CONSTANTS Items, Bound
VARIABLES queue, taken   \* items put and not yet taken; items taken, in order

Init == queue = <<>> /\ taken = <<>>

Put(x) ==
  /\ Len(queue) < Bound
  /\ queue' = Append(queue, x)
  /\ UNCHANGED taken

Get ==
  /\ queue # <<>>
  /\ taken' = Append(taken, Head(queue))
  /\ queue' = Tail(queue)

Next == Get \/ \E x \in Items : Put(x)
Spec == Init /\ [][Next]_<<queue, taken>>
=============================================================================
