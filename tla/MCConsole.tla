----------------------------- MODULE MCConsole -----------------------------
(***************************************************************************)
(* Instances of Console for TLC.                                           *)
(***************************************************************************)
EXTENDS Console

MCBanner == <<NL, "=", NL>>
MCPrompt == <<">">>
MCOutputs == {<<TAB, "o", NL>>}
MCTexts == {<<"k">>, <<NL>>, <<BS>>}
=============================================================================
