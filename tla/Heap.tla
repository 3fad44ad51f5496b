-------------------------------- MODULE Heap --------------------------------
(***************************************************************************)
(* What malloc, calloc, realloc and free promise a program: the blocks it  *)
(* holds are disjoint and each is as long as it asked for.                 *)
(***************************************************************************)
EXTENDS Integers

CONSTANT Addresses
VARIABLE live        \* live[p]: the size asked for, of the blocks the program holds

Apart(blocks) ==
  \A p, q \in DOMAIN blocks : p = q \/ p + blocks[p] <= q \/ q + blocks[q] <= p

Init == live = [p \in {} |-> 0]

Gone == DOMAIN live \ DOMAIN live'
Come == DOMAIN live' \ DOMAIN live
Kept == DOMAIN live \cap DOMAIN live'

\* A block comes, a block goes, a block is moved, or one is given another size
\* where it is; all the others stay as they are.
Next ==
  /\ Apart(live') /\ DOMAIN live' \subseteq Addresses
  /\ \A p, q \in Gone : p = q
  /\ \A p, q \in Come : p = q
  /\ LET resized == {p \in Kept : live'[p] # live[p]}
     IN  \/ resized = {}
         \/ Gone \cup Come = {} /\ \A p, q \in resized : p = q

Spec == Init /\ [][Next]_live
=============================================================================
