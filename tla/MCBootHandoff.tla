--------------------------- MODULE MCBootHandoff ---------------------------
(***************************************************************************)
(* Instances of BootHandoff for TLC.                                       *)
(***************************************************************************)
EXTENDS BootHandoff

Undisturbed == {}
Faulty == {"io", "esc", "kill", "timeout"}
=============================================================================
