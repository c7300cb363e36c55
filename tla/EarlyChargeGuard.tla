-------------------------- MODULE EarlyChargeGuard --------------------------
(***************************************************************************)
(* ShengEarlyChargeGuard.wait_if_critical: stage 1 keeps a tablet with a   *)
(* nearly empty battery in the dark until it has charged a little, but     *)
(* never for long: the battery may not be readable, the charger may be     *)
(* missing, too weak, or pulled while it waits.                            *)
(*                                                                         *)
(* Time is counted in the seconds that the code sleeps.                    *)
(***************************************************************************)
EXTENDS Integers, BootReason

CONSTANTS CriticalCapacity, BootCapacity,
          MaxWait,     \* max_wait_seconds(), 0 at least
          Attempts,    \* of wait_for_battery and wait_for_external_power
          PollSeconds, \* between two looks at the battery
          OffSeconds,  \* that a power-off is given
          Levels,      \* capacities the battery may report
          Boots        \* the boot parameters there are

NoLevel == -1  \* no readable battery

ASSUME GuardAssumption ==
  /\ CriticalCapacity \in Nat /\ BootCapacity \in Nat
  /\ MaxWait \in Nat /\ Attempts \in Nat \ {0} /\ PollSeconds \in Nat \ {0}
  /\ OffSeconds \in Nat /\ Levels \subseteq Nat

VARIABLES gpc,     \* where the guard is
          boot,    \* the boot parameters
          request, \* for a normal boot: "none", the "marker", or a "pending"
                   \* generation, which latches the mode before the guard runs
          tries,   \* left to the waits
          offline_checks, elapsed,
          backlight, blank, saved_backlights, \* the panel
          battery, power, \* the hardware
          slept,   \* history: seconds since the guard was called
          ignored  \* history: power-offs that came back

panel == <<backlight, blank, saved_backlights>>
hardware == <<battery, power>>
gvars == <<gpc, boot, request, tries, offline_checks, elapsed, panel, hardware, slept,
           ignored>>

Bright == 200  \* whatever the panel was at
Dark == 0
Nowhere == -1  \* no saved brightness

Silent == [force |-> Absent, mode |-> Absent, reason |-> NoReason]
NoParameters == [cmdline |-> Silent, bootconfig |-> Silent]

\* The machine is off, or stage 1 has failed.
Stopped == {"off", "failed"}

-----------------------------------------------------------------------------

\* charger_mode?: without a request for a normal boot the firmware's
\* parameters decide.  The answer stands; it is latched after the guard.
AskMode ==
  /\ gpc = "called"
  /\ gpc' = IF request = "none" /\ FirmwareCharger(boot) THEN "charger" ELSE "battery"
  /\ tries' = Attempts
  /\ boot' = NoParameters
  /\ UNCHANGED <<request, offline_checks, elapsed, panel, hardware, slept, ignored>>

\* wait_for_battery: one attempt.
LookForBattery ==
  /\ gpc = "battery" /\ tries > 0
  /\ IF battery = NoLevel
     THEN tries' = tries - 1 /\ slept' = slept + 1 /\ UNCHANGED gpc
     ELSE /\ gpc' = IF battery > CriticalCapacity THEN "done" ELSE "power"
          /\ tries' = IF battery > CriticalCapacity THEN 0 ELSE Attempts
          /\ UNCHANGED slept
  /\ UNCHANGED <<boot, request, offline_checks, elapsed, panel, hardware, ignored>>

\* wait_for_external_power: one attempt.
LookForPower ==
  /\ gpc = "power" /\ tries > 0
  /\ IF power THEN gpc' = "blank" /\ tries' = 0 /\ UNCHANGED slept
     ELSE tries' = tries - 1 /\ slept' = slept + 1 /\ UNCHANGED gpc
  /\ UNCHANGED <<boot, request, offline_checks, elapsed, panel, hardware, ignored>>

\* Neither may hold the boot.
GiveUp ==
  /\ gpc \in {"battery", "power"} /\ tries = 0
  /\ gpc' = "done"
  /\ UNCHANGED <<boot, request, tries, offline_checks, elapsed, panel, hardware, slept, ignored>>

\* blank_display: the brightness that was there first is remembered.
BlankDisplay ==
  /\ gpc = "blank"
  /\ saved_backlights' = IF saved_backlights = Nowhere THEN backlight ELSE saved_backlights
  /\ backlight' = Dark /\ blank' = TRUE
  /\ gpc' = "charge"
  /\ UNCHANGED <<boot, request, tries, offline_checks, elapsed, hardware, slept, ignored>>

\* The head of the loop: enough charge, or enough time.
LookAtCapacity ==
  /\ gpc = "charge"
  /\ gpc' = IF battery >= BootCapacity \/ elapsed >= MaxWait THEN "restore" ELSE "poll"
  /\ UNCHANGED <<boot, request, tries, offline_checks, elapsed, panel, hardware, slept, ignored>>

\* Mutant: the clock stands still while the charger is away.
PollNoClock ==
  /\ gpc = "poll"
  /\ IF power THEN /\ offline_checks' = 0 /\ elapsed' = elapsed + PollSeconds
     ELSE offline_checks' = 0 /\ UNCHANGED elapsed
  /\ slept' = slept + PollSeconds
  /\ gpc' = "charge"
  /\ UNCHANGED <<boot, request, tries, panel, hardware, ignored>>

\* The charger is looked at, and then five seconds pass.
PollPower ==
  /\ gpc = "poll"
  /\ IF power \/ offline_checks + 1 < 3
     THEN /\ offline_checks' = IF power THEN 0 ELSE offline_checks + 1
          /\ elapsed' = elapsed + PollSeconds /\ slept' = slept + PollSeconds
          /\ gpc' = "charge"
     ELSE /\ offline_checks' = offline_checks + 1
          /\ gpc' = "poweroff"
          /\ UNCHANGED <<elapsed, slept>>
  /\ UNCHANGED <<boot, request, tries, panel, hardware, ignored>>

\* poweroff -f turns the machine off; or it fails, System.run raises and
\* nothing up to the task runner rescues that; or it comes back although the
\* machine stays on, and the loop goes on after a minute.
PowerOff ==
  /\ gpc = "poweroff"
  /\ \/ gpc' \in Stopped /\ UNCHANGED <<elapsed, slept, ignored>>
     \/ /\ gpc' = "charge"
        /\ elapsed' = elapsed + PollSeconds
        /\ slept' = slept + OffSeconds + PollSeconds
        /\ ignored' = ignored + 1
  /\ UNCHANGED <<boot, request, tries, offline_checks, panel, hardware>>

\* Mutant: only the framebuffer is unblanked.
RestoreBlankOnly ==
  /\ gpc = "restore"
  /\ blank' = FALSE
  /\ gpc' = "done"
  /\ UNCHANGED <<boot, request, tries, offline_checks, elapsed, backlight, saved_backlights,
                 hardware, slept, ignored>>

\* restore_display.
RestoreDisplay ==
  /\ gpc = "restore"
  /\ backlight' = IF saved_backlights = Nowhere THEN backlight ELSE saved_backlights
  /\ blank' = FALSE
  /\ gpc' = "done"
  /\ UNCHANGED <<boot, request, tries, offline_checks, elapsed, saved_backlights, hardware, slept, ignored>>

\* prepare_offline_charging_handoff.
Handoff ==
  /\ gpc = "charger"
  /\ blank' = TRUE
  /\ gpc' = "handedOff"
  /\ UNCHANGED <<boot, request, tries, offline_checks, elapsed, backlight, saved_backlights,
                 hardware, slept, ignored>>

Guard == AskMode \/ LookForBattery \/ LookForPower \/ GiveUp \/ BlankDisplay
         \/ LookAtCapacity \/ PollPower \/ PowerOff \/ RestoreDisplay \/ Handoff

Waits == {"battery", "power", "charge", "poll"}

\* The battery charges, or the gauge goes; a charger comes and goes.
Hardware ==
  /\ gpc \in Waits
  /\ \/ battery' \in Levels \cup {NoLevel} /\ UNCHANGED power
     \/ power' = ~power /\ UNCHANGED battery
  /\ UNCHANGED <<gpc, boot, request, tries, offline_checks, elapsed, panel, slept, ignored>>

GuardInit ==
  /\ gpc = "called" /\ boot \in Boots /\ request \in {"none", "marker", "pending"}
  /\ tries = 0 /\ offline_checks = 0 /\ elapsed = 0
  /\ slept = 0 /\ ignored = 0
  /\ backlight = Bright /\ blank = FALSE /\ saved_backlights = Nowhere
  /\ battery = NoLevel /\ power = FALSE

GuardNext == Guard \/ Hardware

-----------------------------------------------------------------------------
(* Properties.                                                             *)

GuardTypeOK ==
  /\ gpc \in Waits \cup Stopped \cup {"called", "blank", "poweroff", "restore",
                                      "done", "left", "charger", "handedOff"}
  /\ tries \in 0 .. Attempts
  /\ offline_checks \in Nat /\ elapsed \in Nat /\ slept \in Nat /\ ignored \in Nat
  /\ backlight \in {Dark, Bright} /\ blank \in BOOLEAN
  /\ saved_backlights \in {Nowhere, Bright}
  /\ battery \in Levels \cup {NoLevel} /\ power \in BOOLEAN

\* The three detectors give one answer, whichever source says what.
DetectorsAgree ==
  /\ ~Hidden(boot) => (DetectExit(boot) = 0 <=> FirmwareCharger(boot))
  /\ SplashSkipped(boot) <=> FirmwareCharger(boot)

\* Whatever the battery and the charger do, the wait ends: the two waits
\* for hardware and the charging itself together take no longer than this,
\* but for the minutes that power-offs without effect are given.
LongestWait == 2 * Attempts + MaxWait + PollSeconds
WaitBounded == slept <= LongestWait + OffSeconds * ignored
=============================================================================
