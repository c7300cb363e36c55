-------------------------- MODULE ScreenContract --------------------------
(***************************************************************************)
(* What the lock, control and veto files of BootUi promise to somebody who *)
(* looks at the boot screen: one owner at a time, only an owner paints,    *)
(* and once diagnostics have been granted nobody ever paints again.        *)
(***************************************************************************)
CONSTANTS Owners, NoOwner

VARIABLES owner, painting, sealed

screenVars == <<owner, painting, sealed>>

ScreenInit == owner = NoOwner /\ painting = FALSE /\ sealed = FALSE

Take(p) ==
  /\ owner = NoOwner
  /\ owner' = p
  /\ UNCHANGED <<painting, sealed>>

Show ==
  /\ owner # NoOwner /\ ~sealed
  /\ painting' = TRUE
  /\ UNCHANGED <<owner, sealed>>

Hide ==
  /\ painting' = FALSE
  /\ UNCHANGED <<owner, sealed>>

\* An owner that is painting may die in the middle of it.
Release ==
  /\ owner # NoOwner
  /\ owner' = NoOwner
  /\ painting' = FALSE
  /\ sealed' \in {sealed, ~painting}

ScreenNext == (\E p \in Owners : Take(p)) \/ Show \/ Hide \/ Release

ScreenSpec == ScreenInit /\ [][ScreenNext]_screenVars
=============================================================================
