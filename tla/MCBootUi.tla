------------------------------ MODULE MCBootUi ------------------------------
(***************************************************************************)
(* Instances of BootUi for TLC.                                            *)
(***************************************************************************)
EXTENDS BootUi

EveryEnv == AllEnv
Undisturbed == {}
NoSignals == AllEnv \ {"kill", "term", "switch"}
=============================================================================
