----------------------------- MODULE BootReason -----------------------------
(***************************************************************************)
(* Why the tablet was turned on, as the firmware says it on the kernel     *)
(* command line and in the bootconfig.  Stage 1 asks in Ruby, the stage-2  *)
(* generator of a boot without a latched mode asks in Python, and the      *)
(* early splash asks in its own words: all have to give the same answer.   *)
(*                                                                         *)
(* A parameter is absent, empty or has a value.  A power-on reason is a    *)
(* number or something that is none.                                       *)
(***************************************************************************)
EXTENDS Integers

Absent == "absent"
Empty == "empty"
Lower(v) == IF v = "CHARGER" THEN "charger" ELSE v

NoReason == -1
EmptyReason == -2
NotANumber == -3

\* What boots with: for each of the two sources
\*   force  androidboot.force_normal_boot
\*   mode   androidboot.mode
\*   reason bootinfo.pureason
\* The bootconfig pattern needs a character: it has no empty values.
Parameters(forces, modes, reasons) ==
  [cmdline : [force : forces, mode : modes, reason : reasons],
   bootconfig : [force : forces \ {Empty}, mode : modes \ {Empty},
                 reason : reasons \ {EmptyReason}]]

Bit(n, k) == (n \div 2^k) % 2 = 1
UsbChg(n) == n >= 0 /\ Bit(n % 256, 4)
Kpdpwr(n) == n >= 0 /\ Bit(n % 256, 7)

-----------------------------------------------------------------------------
(* ShengEarlyChargeGuard.  boot_value: whatever the command line says, be  *)
(* it nothing, hides the bootconfig.                                       *)

BootText(b, key) == IF b.cmdline[key] # Absent THEN b.cmdline[key] ELSE b.bootconfig[key]
BootNumber(b) == IF b.cmdline.reason # NoReason THEN b.cmdline.reason ELSE b.bootconfig.reason

ChargerPowerOnReason(n) == UsbChg(n) /\ ~Kpdpwr(n)
PowerKeyPowerOnReason(n) == Kpdpwr(n)

\* charger_mode? without a latched mode and without the marker.
FirmwareCharger(b) ==
  /\ BootText(b, "force") # "1"
  /\ ~PowerKeyPowerOnReason(BootNumber(b))
  /\ Lower(BootText(b, "mode")) = "charger" \/ ChargerPowerOnReason(BootNumber(b))

\* start("prepare") of the boot animation.
SplashSkipped(b) ==
  LET charger == Lower(BootText(b, "mode")) = "charger"
                 \/ ChargerPowerOnReason(BootNumber(b))
  IN  charger /\ BootText(b, "force") # "1" /\ ~PowerKeyPowerOnReason(BootNumber(b))

-----------------------------------------------------------------------------
(* sheng-offline-charging.py.  An empty value is none.                     *)

CmdlineValue(b, key) == IF b.cmdline[key] = Absent THEN Empty ELSE b.cmdline[key]
BootconfigValue(b, key) ==
  IF b.bootconfig[key] = Absent THEN Empty ELSE b.bootconfig[key]
Value(b, key) == IF CmdlineValue(b, key) # Empty THEN CmdlineValue(b, key)
                 ELSE BootconfigValue(b, key)
Pureason(b) == IF b.cmdline.reason \notin {NoReason, EmptyReason}
               THEN b.cmdline.reason ELSE b.bootconfig.reason

\* int(value, 0), or None.
ParsePowerOnReason(n) == IF n >= 0 THEN n ELSE NotANumber

ChargerReasonOf(n) ==
  LET reason == ParsePowerOnReason(n)
  IN  reason # NotANumber /\ Bit(reason % 256, 4) /\ ~Bit(reason % 256, 7)
PowerKeyReasonOf(n) ==
  LET reason == ParsePowerOnReason(n)
  IN  reason # NotANumber /\ Bit(reason % 256, 7)

\* Mutant: androidboot.mode wins over the power key.
DetectModeFirst(b) ==
  /\ Value(b, "force") # "1"
  /\ \/ Lower(Value(b, "mode")) = "charger"
     \/ ~PowerKeyReasonOf(Pureason(b)) /\ ChargerReasonOf(Pureason(b))

\* detect_charger_boot.
DetectChargerBoot(b) ==
  /\ Value(b, "force") # "1"
  /\ ~PowerKeyReasonOf(Pureason(b))
  /\ Lower(Value(b, "mode")) = "charger" \/ ChargerReasonOf(Pureason(b))

\* The "detect" command: 0 if there is a reason.
DetectExit(b) == IF DetectChargerBoot(b) THEN 0 ELSE 1

-----------------------------------------------------------------------------
\* An empty value on the command line in front of one in the bootconfig: the
\* two languages read it differently.
Hidden(b) ==
  \/ \E key \in {"force", "mode"} :
       b.cmdline[key] = Empty /\ b.bootconfig[key] # Absent
  \/ b.cmdline.reason = EmptyReason /\ b.bootconfig.reason # NoReason
=============================================================================
