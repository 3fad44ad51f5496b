------------------------------- MODULE MCProc -------------------------------
(***************************************************************************)
(* Instances of Proc for TLC.  A file is two bytes long.                   *)
(***************************************************************************)
EXTENDS Proc

CONSTANT f1
MCLength == [n \in Nodes |-> 2]
=============================================================================
