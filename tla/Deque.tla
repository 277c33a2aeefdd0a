------------------------------- MODULE Deque -------------------------------
(***************************************************************************)
(* What a list promises: a sequence that grows and shrinks at both ends.   *)
(* Module ListValue implements it.                                         *)
(***************************************************************************)
EXTENDS Integers, Sequences

CONSTANTS Elements, None

VARIABLES q,       \* the sequence
          popped,  \* the answer of the last pop, or None
          call     \* the last operation called

Init == q = <<>> /\ popped = None /\ call = <<>>

PushFront(e) == call' = <<"PushFront", e>> /\ q' = <<e>> \o q /\ UNCHANGED popped
PushBack(e)  == call' = <<"PushBack", e>> /\ q' = Append(q, e) /\ UNCHANGED popped

PopFront ==
  /\ call' = <<"PopFront">>
  /\ IF q = <<>> THEN popped' = None /\ UNCHANGED q
     ELSE popped' = q[1] /\ q' = Tail(q)

PopBack ==
  /\ call' = <<"PopBack">>
  /\ IF q = <<>> THEN popped' = None /\ UNCHANGED q
     ELSE popped' = q[Len(q)] /\ q' = SubSeq(q, 1, Len(q) - 1)

Next == (\E e \in Elements : PushFront(e) \/ PushBack(e)) \/ PopFront \/ PopBack

Spec == Init /\ [][Next]_<<q, popped, call>>
=============================================================================
