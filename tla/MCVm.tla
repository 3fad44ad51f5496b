-------------------------------- MODULE MCVm --------------------------------
(***************************************************************************)
(* Instances of Vm for TLC: tables of three entries, pages of two bytes,   *)
(* a program of one page, and sbrk by a page and a half, down and up, and  *)
(* by more than the address space has left.                                *)
(***************************************************************************)
EXTENDS Vm

MCImages == {[v \in {4} |-> 1]}
MCIncrements == {-3, 3, 17}
=============================================================================
