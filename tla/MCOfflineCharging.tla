------------------------- MODULE MCOfflineCharging -------------------------
(***************************************************************************)
(* Instances of OfflineCharging for TLC.                                   *)
(***************************************************************************)
EXTENDS OfflineCharging
=============================================================================
