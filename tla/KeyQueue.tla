------------------------------ MODULE KeyQueue ------------------------------
(***************************************************************************)
(* What the keyboard driver promises a reader: the characters typed, first *)
(* in first out, each of them once.  A character that comes when Capacity  *)
(* of them wait is lost.  A reader looks at the first one and then removes *)
(* it, and the two are the same character.                                 *)
(***************************************************************************)
EXTENDS Integers, Sequences

CONSTANTS Characters, Capacity, Nothing

VARIABLES queue,
          hand        \* what the reader has looked at and not yet removed

Init == queue = <<>> /\ hand = Nothing

Put(c) == Len(queue) < Capacity /\ queue' = Append(queue, c) /\ hand' = hand

Look == hand = Nothing /\ queue # <<>> /\ hand' = Head(queue) /\ queue' = queue

Remove ==
  /\ hand # Nothing /\ queue # <<>> /\ hand = Head(queue)
  /\ queue' = Tail(queue) /\ hand' = Nothing

Next == Look \/ Remove \/ \E c \in Characters : Put(c)

Spec == Init /\ [][Next]_<<queue, hand>>
=============================================================================
