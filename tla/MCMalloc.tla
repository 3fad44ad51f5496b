------------------------------ MODULE MCMalloc ------------------------------
(***************************************************************************)
(* Instances of Malloc for TLC: one array that fits and one whose size     *)
(* wraps around.                                                           *)
(***************************************************************************)
EXTENDS Malloc

MCArrays == {<<2, 3>>, <<16, 9>>}
=============================================================================
