------------------------------ MODULE StageOne ------------------------------
(***************************************************************************)
(* selected_generation of the SwitchRoot patch, from the guard to the      *)
(* menu: a boot that goes on normally, without a pending generation, shows *)
(* the menu on the panel the guard has left.                               *)
(***************************************************************************)
EXTENDS EarlyChargeGuard, GenerationMenu

svars == <<gvars, mvars>>

GuardStep == GuardNext /\ UNCHANGED mvars

\* The guard's locals are gone once it returns, and the menu looks at nothing
\* else of the guard's but the panel.
EnterMenu ==
  /\ gpc = "done" /\ request # "pending"
  /\ gpc' = "left"
  /\ slept' = 0 /\ ignored' = 0 /\ elapsed' = 0 /\ offline_checks' = 0 /\ tries' = 0
  /\ battery' = NoLevel /\ power' = FALSE
  /\ request' = "none" /\ saved_backlights' = Nowhere
  /\ UNCHANGED <<boot, backlight, blank, mvars>>

\* choose unblanks the framebuffer, and touches no backlight.
Open == gpc = "left" /\ OpenMenu /\ blank' = FALSE
        /\ UNCHANGED <<gpc, boot, request, tries, offline_checks, elapsed, backlight,
                       saved_backlights, hardware, slept, ignored>>

MenuStep == gpc = "left" /\ Choose /\ UNCHANGED gvars
ClockStep == gpc = "left" /\ Tick /\ UNCHANGED gvars
UserStep == gpc = "left" /\ User /\ UNCHANGED gvars

StageInit == GuardInit /\ MenuInit
StageNext == GuardStep \/ EnterMenu \/ Open \/ MenuStep \/ ClockStep \/ UserStep

\* Stage 1 is one program, which never waits for a key, and its clock goes
\* on; nobody owes it anything else.
Program == (Guard /\ UNCHANGED mvars) \/ EnterMenu \/ Open \/ MenuStep
StageSpec == StageInit /\ [][StageNext]_svars /\ WF_svars(Program) /\ WF_svars(ClockStep)

-----------------------------------------------------------------------------

\* The menu is never shown on a panel that the guard has left dark.
MenuLit == InMenu => backlight = Bright /\ ~blank

\* A tablet nobody touches gets on: whatever the battery, the charger and
\* the devices do, the boot is decided in the end.
Decided ==
  \/ mpc = "chosen"
  \/ gpc \in {"handedOff"} \cup Stopped
  \/ gpc = "done" /\ request = "pending"
StageEnds == <>(Decided \/ touched)
=============================================================================
