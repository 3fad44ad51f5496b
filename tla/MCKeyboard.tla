----------------------------- MODULE MCKeyboard -----------------------------
(***************************************************************************)
(* An instance of Keyboard for TLC: a letter, a Shift, both Ctrl keys,     *)
(* Caps Lock, and an arrow, which only sends an extended code.             *)
(***************************************************************************)
EXTENDS Keyboard

MCKeys == {<<FALSE, "d">>, <<FALSE, "shift_l">>, <<FALSE, "ctrl">>, <<TRUE, "ctrl">>,
           <<FALSE, "caps">>, <<TRUE, "arrow">>}
=============================================================================
