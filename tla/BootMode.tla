------------------------------ MODULE BootMode ------------------------------
(***************************************************************************)
(* How one power-on becomes a "normal" or a "charger" boot, and how that   *)
(* decision and a manual generation choice survive reboots.                *)
(*                                                                         *)
(* Stage 1 (ShengEarlyChargeGuard, ShengHeadlessGenerationMenu, the        *)
(* SwitchRoot patch) reads two files of the root file system:              *)
(*   force-normal-once    "do not take the retained USB power-on reason    *)
(*                         for a charger insertion"            root.marker *)
(*   pending-generation   "boot exactly this generation"      root.pending *)
(* and latches its decision in /run/sheng-boot-ui.mode (mode), which the   *)
(* stage-2 generator and the charging monitor obey.  Stage 2 consumes the  *)
(* marker at basic.target and writes it again before an orderly reboot or  *)
(* when the charging screen restarts the tablet.                           *)
(*                                                                         *)
(* The root file system is journalled: root is what processes see, disk is *)
(* what a power cut leaves; Flush is a journal commit, which makes all the *)
(* updates so far durable together.  /run (mode, normalFile, doneFile) is  *)
(* lost at every restart.                                                  *)
(***************************************************************************)
EXTENDS Integers

CONSTANTS Gens,        \* the stage-2 generations
          DefaultGen,  \* the path default_selection_path() names
          NoGen,       \* no generation
          PonReasons,  \* the sets of boot flags the firmware may hand over
          Faults       \* what an environment may do, a subset of AllFaults

BootFlags == {"usb", "key", "chargerMode", "forceNormal"}

AllFaults == {"crash", "readOnly", "rebootFails", "critical", "legacy",
              "generatorSkipped"}

ASSUME GensAssumption == DefaultGen \in Gens /\ NoGen \notin Gens
ASSUME FlagsAssumption == PonReasons \subseteq SUBSET BootFlags
ASSUME FaultsAssumption == Faults \subseteq AllFaults

VARIABLES
  faults,         \* what this environment may do: never changes
  phase,          \* where the boot is
  flags,          \* the firmware's flags of this boot
  rw,             \* the root file system is mounted writable
  root, disk,     \* [marker, pending, gens]: as seen, and as durable
  mode,           \* /run/sheng-boot-ui.mode
  normalFile,     \* /run/sheng-boot-ui.normal exists
  doneFile,       \* /run/sheng-boot-ui.done exists
  target,         \* systemd's default.target link
  goal,           \* the target the stage-2 manager started with
  pendingGen,     \* pending_generation in selected_generation
  picked,         \* @selected_generation
  menuShown,      \* history: the menu was shown in this boot
  countdown,      \* countdown_active, of a menu that is shown
  promisedGen,    \* history: generation a completed menu handoff promised
  promisedNormal, \* history: a normal boot was asked for and not yet served
  served          \* history: boots that entered the last stored selection

runFiles == <<mode, normalFile, doneFile>>
targets == <<target, goal>>
choice == <<pendingGen, picked, menuShown, countdown>>
boot == <<faults, flags, rw>>
promises == <<promisedGen, promisedNormal, served>>
vars == <<phase, boot, root, disk, runFiles, targets, choice, promises>>

Images == [marker : BOOLEAN, pending : Gens \cup {NoGen}, gens : SUBSET Gens]

Stage1 == {"early", "mounted", "consumed", "decided", "menu", "handoff"}
Storing == {"storePending", "storeMarker", "sync", "reboot"}
Stage2 == {"units", "basic", "desktop", "charging", "requested", "shutdown"}
Phases == {"off", "restart", "failed"} \cup Stage1 \cup Storing \cup Stage2
Running == {"desktop", "charging"}

TypeOK ==
  /\ faults \subseteq Faults
  /\ phase \in Phases
  /\ flags \in PonReasons \cup {{}}
  /\ rw \in BOOLEAN
  /\ root \in Images /\ disk \in Images
  /\ mode \in {"none", "normal", "charger"}
  /\ normalFile \in BOOLEAN /\ doneFile \in BOOLEAN
  /\ target \in {"graphical", "charging"} /\ goal \in {"graphical", "charging"}
  /\ pendingGen \in Gens \cup {NoGen} /\ picked \in Gens \cup {NoGen}
  /\ menuShown \in BOOLEAN /\ countdown \in BOOLEAN
  /\ promisedGen \in Gens \cup {NoGen} /\ promisedNormal \in BOOLEAN
  /\ served \in 0 .. 2

Init ==
  /\ faults \in SUBSET Faults
  /\ phase = "off"
  /\ flags = {} /\ rw = TRUE
  /\ root = [marker |-> FALSE, pending |-> NoGen, gens |-> Gens]
  /\ disk = root
  /\ mode = "none" /\ normalFile = FALSE /\ doneFile = FALSE
  /\ target = "graphical" /\ goal = "graphical"
  /\ pendingGen = NoGen /\ picked = NoGen
  /\ menuShown = FALSE /\ countdown = FALSE
  /\ promisedGen = NoGen /\ promisedNormal = FALSE /\ served = 0

-----------------------------------------------------------------------------
(* The detectors.  They agree on the order: an explicit normal request and *)
(* the power key win over the charger reasons.                             *)

PowerKeyReason(f) == "key" \in f

ChargerReason(f) == "usb" \in f /\ "key" \notin f

DetectCharger(f) ==
  /\ "forceNormal" \notin f
  /\ ~PowerKeyReason(f)
  /\ "chargerMode" \in f \/ ChargerReason(f)

\* Mutant: the marker is not consulted.
ChargerModeNoMarker ==
  IF mode # "none" THEN mode = "charger" ELSE DetectCharger(flags)

\* charger_mode?: the latched decision first, then the marker, then the
\* firmware.
ChargerMode ==
  IF mode # "none" THEN mode = "charger"
  ELSE ~root.marker /\ DetectCharger(flags)

\* Mutant: androidboot.mode is not consulted.
EarlySplashNoMode(f) == ~(ChargerReason(f) /\ "forceNormal" \notin f)

\* start("prepare") decides with the firmware flags alone.
EarlySplashShown(f) ==
  ~ /\ "chargerMode" \in f \/ ChargerReason(f)
    /\ "forceNormal" \notin f
    /\ ~PowerKeyReason(f)

-----------------------------------------------------------------------------
(* Power, the file system and restarts.                                    *)

\* Everything in memory and in /run is gone; the file system is what was
\* durable.
Restarted(image, next) ==
  /\ phase' = next
  /\ root' = image /\ disk' = image
  /\ flags' = {} /\ rw' = TRUE
  /\ mode' = "none" /\ normalFile' = FALSE /\ doneFile' = FALSE
  /\ target' = "graphical" /\ goal' = "graphical"
  /\ pendingGen' = NoGen /\ picked' = NoGen
  /\ menuShown' = FALSE /\ countdown' = FALSE
  /\ UNCHANGED faults

\* A promised generation is void once a boot has consumed it and stops
\* before entering it.
DropConsumedPromise ==
  promisedGen' = IF phase \in {"consumed", "decided", "menu", "handoff"}
                 THEN NoGen ELSE promisedGen

Flush ==
  /\ disk # root
  /\ disk' = root
  /\ UNCHANGED <<phase, boot, root, runFiles, targets, choice, promises>>

\* Power cut, panic, watchdog or a forced power-off by the user.
Crash ==
  /\ "crash" \in faults
  /\ phase # "off"
  /\ Restarted(disk, "off")
  /\ DropConsumedPromise
  /\ UNCHANGED <<promisedNormal, served>>

\* The firmware starts boot_b.
PowerOn ==
  /\ phase \in {"off", "restart"}
  /\ phase' = "early"
  /\ flags' \in PonReasons
  /\ rw' \in (IF "readOnly" \in faults THEN BOOLEAN ELSE {TRUE})
  /\ UNCHANGED <<faults, root, disk, runFiles, targets, choice, promises>>

-----------------------------------------------------------------------------
(* Stage 1.                                                                *)

\* Splash.run, before the root file system is mounted.
EarlySplash ==
  /\ phase = "early"
  /\ phase' = "mounted"
  /\ normalFile' = EarlySplashShown(flags)
  /\ UNCHANGED <<boot, root, disk, mode, doneFile, targets, choice, promises>>

\* Mutant: the selection is not deleted.
ConsumePendingKeeps ==
  /\ phase = "mounted"
  /\ phase' = "consumed"
  /\ pendingGen' = IF rw /\ root.pending \in root.gens THEN root.pending ELSE NoGen
  /\ mode' = IF pendingGen' # NoGen THEN "normal" ELSE mode
  /\ UNCHANGED <<boot, root, disk, normalFile, doneFile, targets, picked, menuShown,
                 countdown, promises>>

\* Mutant: no stored path is ever recognised.
ConsumePendingNoMatch ==
  /\ phase = "mounted"
  /\ phase' = "consumed"
  /\ root' = IF rw THEN [root EXCEPT !.pending = NoGen] ELSE root
  /\ UNCHANGED <<boot, disk, runFiles, targets, choice, promises>>

\* consume_pending_selection: read, delete, then look the path up among the
\* generations that exist.  On a read-only root the delete raises, which
\* discards the selection for this boot and leaves the file.  A valid choice
\* commits the normal mode at once.
ConsumePending ==
  /\ phase = "mounted"
  /\ phase' = "consumed"
  /\ pendingGen' = IF rw /\ root.pending \in root.gens THEN root.pending ELSE NoGen
  /\ root' = IF rw THEN [root EXCEPT !.pending = NoGen] ELSE root
  /\ mode' = IF pendingGen' # NoGen THEN "normal" ELSE mode
  /\ UNCHANGED <<boot, disk, normalFile, doneFile, targets, picked, menuShown,
                 countdown, promises>>

\* wait_if_critical gives up on the charger and powers off: never in a
\* charger boot, which is handed to stage 2 at once.
CriticalPowerOff ==
  /\ "critical" \in faults
  /\ phase = "consumed"
  /\ ~ChargerMode
  /\ Restarted(disk, "off")
  /\ DropConsumedPromise
  /\ UNCHANGED <<promisedNormal, served>>

\* wait_if_critical returns and commit_boot_mode latches the decision.
CommitMode ==
  /\ phase = "consumed"
  /\ phase' = "decided"
  /\ mode' = IF ChargerMode THEN "charger" ELSE "normal"
  /\ UNCHANGED <<boot, root, disk, normalFile, doneFile, targets, choice, promises>>

\* The pending choice wins; start("start") republishes .normal.
EnterPending ==
  /\ phase = "decided"
  /\ pendingGen # NoGen
  /\ phase' = "handoff"
  /\ picked' = pendingGen
  /\ normalFile' = TRUE
  /\ served' = IF served < 2 THEN served + 1 ELSE 2
  /\ UNCHANGED <<boot, root, disk, mode, doneFile, targets, pendingGen, menuShown,
                 countdown, promisedGen, promisedNormal>>

ShowMenu ==
  /\ phase = "decided"
  /\ pendingGen = NoGen
  /\ mode # "charger"
  /\ phase' = "menu"
  /\ menuShown' = TRUE /\ countdown' = TRUE
  /\ UNCHANGED <<boot, root, disk, runFiles, targets, pendingGen, picked, promises>>

EnterCharger ==
  /\ phase = "decided"
  /\ pendingGen = NoGen
  /\ mode = "charger"
  /\ phase' = "handoff"
  /\ picked' = DefaultGen
  /\ UNCHANGED <<boot, root, disk, runFiles, targets, pendingGen, menuShown,
                 countdown, promises>>

\* A navigation key moves the selection and pauses the countdown for good.
MoveSelection ==
  /\ phase = "menu"
  /\ countdown' = FALSE
  /\ UNCHANGED <<phase, boot, root, disk, runFiles, targets, pendingGen, picked,
                 menuShown, promises>>

\* The untouched countdown boots the default at once.
MenuTimeout ==
  /\ phase = "menu" /\ countdown
  /\ phase' = "handoff"
  /\ picked' = DefaultGen
  /\ normalFile' = TRUE
  /\ countdown' = FALSE
  /\ UNCHANGED <<boot, root, disk, mode, doneFile, targets, pendingGen, menuShown,
                 promises>>

\* A confirmed selection goes through a reboot.
MenuConfirm(g) ==
  /\ phase = "menu"
  /\ g \in root.gens
  /\ phase' = "storePending"
  /\ picked' = g
  /\ normalFile' = TRUE
  /\ countdown' = FALSE
  /\ UNCHANGED <<boot, root, disk, mode, doneFile, targets, pendingGen, menuShown,
                 promises>>

\* reboot_with_pending_selection: the selection, the marker, sync, reboot -f.
\* Any failure raises out of selected_generation into the failure shell.
StorePending ==
  /\ phase = "storePending"
  /\ IF rw
     THEN /\ phase' = "storeMarker"
          /\ root' = [root EXCEPT !.pending = picked]
          /\ served' = 0
     ELSE /\ phase' = "failed"
          /\ UNCHANGED <<root, served>>
  /\ UNCHANGED <<boot, disk, runFiles, targets, choice, promisedGen,
                 promisedNormal>>

StoreMarker ==
  /\ phase = "storeMarker"
  /\ phase' = "sync"
  /\ root' = [root EXCEPT !.marker = TRUE]
  /\ UNCHANGED <<boot, disk, runFiles, targets, choice, promises>>

\* Mutant: reboot without sync.
SyncSkipped ==
  /\ phase = "sync"
  /\ phase' = "reboot"
  /\ promisedGen' = picked
  /\ promisedNormal' = TRUE
  /\ UNCHANGED <<boot, root, disk, runFiles, targets, choice, served>>

Sync ==
  /\ phase = "sync"
  /\ phase' = "reboot"
  /\ disk' = root
  /\ promisedGen' = picked
  /\ promisedNormal' = TRUE
  /\ UNCHANGED <<boot, root, runFiles, targets, choice, served>>

\* reboot -f: the kernel restarts without another flush.
ForcedReboot ==
  /\ phase = "reboot"
  /\ Restarted(disk, "restart")
  /\ UNCHANGED promises

ForcedRebootFails ==
  /\ "rebootFails" \in faults
  /\ phase = "reboot"
  /\ phase' = "failed"
  /\ UNCHANGED <<boot, root, disk, runFiles, targets, choice, promises>>

\* A boot image from before the decision file: it leaves no mode, does not
\* know the pending selection, and may or may not have published .normal.
LegacyStage1 ==
  /\ "legacy" \in faults
  /\ phase = "early"
  /\ phase' = "handoff"
  /\ picked' = DefaultGen
  /\ normalFile' \in BOOLEAN
  /\ UNCHANGED <<boot, root, disk, mode, doneFile, targets, pendingGen, menuShown,
                 countdown, promises>>

-----------------------------------------------------------------------------
(* Stage 2.                                                                *)

\* Mutant: the generator does not read the latched mode.
GeneratorRedetects ==
  IF ~root.marker /\ DetectCharger(flags) THEN "charger" ELSE "normal"

\* The generator's decision: the latched mode, else (and then latched) the
\* marker, this boot's UI history, and the firmware.
GeneratorMode ==
  IF mode \in {"normal", "charger"} THEN mode
  ELSE IF ~root.marker /\ ~normalFile /\ ~doneFile /\ DetectCharger(flags)
       THEN "charger" ELSE "normal"

\* systemd discards earlier generator output, so the static default returns
\* unless the generator links the charging target again.
RunGenerator ==
  /\ mode' = GeneratorMode
  /\ target' = IF GeneratorMode = "charger" THEN "charging" ELSE "graphical"
  /\ UNCHANGED <<normalFile, doneFile>>

\* switch_root; the stage-2 manager starts, on some boot paths without
\* running this generator.
SwitchRoot ==
  /\ phase = "handoff"
  /\ phase' = "units"
  /\ \/ RunGenerator
     \/ /\ "generatorSkipped" \in faults
        /\ UNCHANGED <<runFiles, target>>
  /\ goal' = target'
  /\ promisedGen' = IF pendingGen = promisedGen \/ ~rw THEN NoGen ELSE promisedGen
  /\ UNCHANGED <<boot, root, disk, choice, promisedNormal, served>>

\* Mutant: the service does not delete.
ConsumeMarkerKeeps ==
  /\ phase = "units"
  /\ phase' = "basic"
  /\ promisedNormal' = FALSE
  /\ UNCHANGED <<boot, root, disk, runFiles, targets, choice, promisedGen, served>>

\* sheng-consume-normal-reboot-marker.service, part of basic.target.
ConsumeMarker ==
  /\ phase = "units"
  /\ phase' = "basic"
  /\ root' = IF rw THEN [root EXCEPT !.marker = FALSE] ELSE root
  /\ promisedNormal' = FALSE
  /\ UNCHANGED <<boot, disk, runFiles, targets, choice, promisedGen, served>>

\* The display manager's preStart leaves .done behind.
StartDesktop ==
  /\ phase = "basic"
  /\ goal = "graphical"
  /\ phase' = "desktop"
  /\ doneFile' = TRUE
  /\ UNCHANGED <<boot, root, disk, mode, normalFile, targets, choice, promises>>

\* The charging target; its service has ExecCondition is-charger.
StartCharging ==
  /\ phase = "basic"
  /\ goal = "charging"
  /\ mode = "charger"
  /\ phase' = "charging"
  /\ UNCHANGED <<boot, root, disk, runFiles, targets, choice, promises>>

\* systemctl daemon-reload runs the generator again, at any time.
DaemonReload ==
  /\ phase \in {"basic"} \cup Running
  /\ RunGenerator
  /\ UNCHANGED <<phase, boot, root, disk, goal, choice, promises>>

\* Rebuilds and garbage collection change which generations exist; the
\* default and the running one stay.
ChangeGenerations ==
  /\ phase = "desktop" /\ rw
  /\ \E gens \in SUBSET Gens :
       /\ {DefaultGen, picked} \subseteq gens
       /\ root' = [root EXCEPT !.gens = gens]
       /\ promisedGen' = IF promisedGen \in gens THEN promisedGen ELSE NoGen
  /\ UNCHANGED <<phase, boot, disk, runFiles, targets, choice, promisedNormal,
                 served>>

\* Mutant: the service does not flush the marker it wrote.
OrderlyRebootUnflushed ==
  /\ phase \in Running
  /\ phase' = "shutdown"
  /\ root' = IF rw THEN [root EXCEPT !.marker = TRUE] ELSE root
  /\ promisedNormal' = (rw \/ promisedNormal)
  /\ UNCHANGED <<boot, disk, runFiles, targets, choice, promisedGen, served>>

\* systemctl reboot: reboot.target runs sheng-normal-reboot-marker, which
\* flushes the marker it wrote.
OrderlyReboot ==
  /\ phase \in Running
  /\ phase' = "shutdown"
  /\ IF rw
     THEN /\ root' = [root EXCEPT !.marker = TRUE]
          /\ disk' = root'
          /\ promisedNormal' = TRUE
     ELSE UNCHANGED <<root, disk, promisedNormal>>
  /\ UNCHANGED <<boot, runFiles, targets, choice, promisedGen, served>>

\* start_normal_boot, first half: request_normal_reboot writes, renames and
\* fsyncs the marker.
RequestNormalReboot ==
  /\ phase = "charging" /\ rw
  /\ phase' = "requested"
  /\ root' = [root EXCEPT !.marker = TRUE]
  /\ disk' = root'
  /\ UNCHANGED <<boot, runFiles, targets, choice, promises>>

\* systemctl accepted the forced reboot.
RebootAccepted ==
  /\ phase = "requested"
  /\ phase' = "shutdown"
  /\ promisedNormal' = TRUE
  /\ UNCHANGED <<boot, root, disk, runFiles, targets, choice, promisedGen, served>>

\* systemctl failed: the screen is blanked and the monitor goes on; the
\* marker stays.
RebootRefused ==
  /\ "rebootFails" \in faults
  /\ phase = "requested"
  /\ phase' = "charging"
  /\ UNCHANGED <<boot, root, disk, runFiles, targets, choice, promises>>

\* Unmounting makes everything durable.
FinishShutdown ==
  /\ phase = "shutdown"
  /\ Restarted(root, "restart")
  /\ UNCHANGED promises

\* poweroff from the desktop, or by the monitor without a charger.
PowerOff ==
  /\ phase \in Running
  /\ Restarted(root, "off")
  /\ UNCHANGED promises

-----------------------------------------------------------------------------
Stage1Step ==
  \/ EarlySplash \/ ConsumePending \/ CommitMode
  \/ EnterPending \/ ShowMenu \/ EnterCharger
  \/ StorePending \/ StoreMarker \/ Sync \/ ForcedReboot

MenuStep == MoveSelection \/ MenuTimeout \/ \E g \in Gens : MenuConfirm(g)

Stage2Step == SwitchRoot \/ ConsumeMarker \/ StartDesktop \/ StartCharging

UserStep ==
  \/ DaemonReload \/ ChangeGenerations \/ OrderlyReboot
  \/ RequestNormalReboot \/ PowerOff

FaultStep ==
  \/ Crash \/ CriticalPowerOff \/ LegacyStage1
  \/ ForcedRebootFails \/ RebootRefused

Next ==
  \/ PowerOn \/ Flush
  \/ Stage1Step \/ MenuStep \/ Stage2Step
  \/ RebootAccepted \/ FinishShutdown
  \/ UserStep \/ FaultStep

Spec == Init /\ [][Next]_vars

\* A started boot or shutdown goes on by itself, and a menu nobody touches is
\* left by its countdown.  Nothing obliges the user, in a menu or elsewhere, the
\* firmware's power source or a fault, except that a requested restart restarts.
Fairness ==
  /\ WF_vars(Stage1Step) /\ WF_vars(MenuTimeout) /\ WF_vars(Stage2Step)
  /\ WF_vars(RebootAccepted) /\ WF_vars(FinishShutdown)
  /\ WF_vars(phase = "restart" /\ PowerOn)

FairSpec == Spec /\ Fairness

-----------------------------------------------------------------------------
(* Properties.                                                             *)

\* Whatever generator reruns and marker clean-up do, a boot that has decided
\* keeps its decision until it ends (docs/offline-charging.md:57-60).
ModeLatched ==
  [][mode # "none" /\ phase' \notin {"off", "restart"} => mode' = mode]_vars

\* A boot whose menu was shown never becomes a charger boot, neither by its
\* decision nor by the target systemd is given (docs/boot-animation.md:62-65).
MenuNeverCharges ==
  menuShown => mode # "charger" /\ goal = "graphical" /\ target = "graphical"

\* A retained USB power-on reason never turns a desktop that is already
\* running into a charger boot, also when no decision was latched before it.
DesktopNeverReclassified ==
  [][phase = "desktop" /\ phase' = "desktop" /\ mode # "charger"
       => mode' # "charger" /\ target' = "graphical"]_vars

\* The early splash's own reading of the firmware flags agrees with the final
\* decision: .normal, which lets the stage-2 splash start, is never left in a
\* charger boot.
SplashNeverInCharger == mode = "charger" => ~normalFile

\* Once a restart into the normal system was accepted, by the desktop, by the
\* menu or from the charging screen, every boot until one is served decides
\* "normal", across power cuts and whatever the firmware reports.
NormalBootKept ==
  promisedNormal /\ phase \in Stage1 \cup Storing \cup {"units"} => mode # "charger"

\* A completed menu handoff is honoured: the boot that finds it enters exactly
\* that generation, without the menu, as a normal boot.
SelectionKept ==
  promisedGen # NoGen /\ rw /\ mode # "none"
      /\ phase \in {"decided", "menu", "handoff"} =>
    /\ pendingGen = promisedGen
    /\ mode = "normal"
    /\ phase = "handoff" => picked = promisedGen
    /\ ~menuShown

\* "deletes the marker before use" (docs/boot-generation-menu.md:83): a boot
\* that acts on a stored selection no longer has it on its file system, and
\* the generation it acts on exists.
PendingDeletedBeforeUse ==
  pendingGen # NoGen => root.pending = NoGen /\ (phase = "handoff" => picked \in root.gens)

\* "The marker is one-shot" (docs/boot-generation-menu.md:87): one manual
\* selection is entered by at most one boot.  (A power cut after the boot has
\* entered it may bring the deleted file back.)
OneBootPerSelection == "crash" \notin faults => served <= 1

\* "Stage 2 writes this one-shot marker before rebooting"
\* (stage-1-early-charge-guard.rb:15): a boot the firmware reports as a charger
\* insertion goes to the desktop only because a restart into it was asked for.
\* (A power cut, a read-only root or a refused reboot may leave a marker behind
\* that nobody asked for.)
ChargerBootHonoured ==
  /\ faults \cap {"crash", "readOnly", "rebootFails"} = {}
  /\ DetectCharger(flags) /\ pendingGen = NoGen /\ phase \in {"decided", "menu"}
  => mode = "charger" \/ promisedNormal

\* A key was pressed in the menu: it waits for the user.
Paused == phase = "menu" /\ ~countdown

Settled == phase \in Running \cup {"off"}

\* No reboot loop: where no reboot can be refused and the root can be written,
\* every started boot, through at most the one restart of a manual selection,
\* reaches the desktop or the charging screen, powers off, or waits for the
\* user in a menu that was touched; and a confirmed selection does not even
\* come back to the menu to wait there.
EveryBootSettles ==
  /\ phase = "early" /\ faults \cap {"readOnly", "rebootFails"} = {}
       ~> Settled \/ Paused
  /\ phase = "storePending" /\ faults \cap {"readOnly", "rebootFails"} = {}
       ~> Settled

running ==
  CASE phase = "desktop" -> "desktop"
    [] phase \in {"charging", "requested"} -> "charging"
    [] OTHER -> "nothing"

Contract == INSTANCE BootContract WITH decision <- mode, wish <- promisedNormal

\* The files, detectors and generator implement the contract.
ImplementsContract == Contract!ContractSpec

-----------------------------------------------------------------------------
(* The inductive invariant behind the safety properties.                   *)

\* Which phases come before, and which after, the decision; the system only
\* reaches the charging target through a charger decision.
DecisionInv ==
  /\ phase \in {"off", "restart", "early", "mounted"} =>
       mode = "none" /\ pendingGen = NoGen /\ ~menuShown
  /\ phase \in {"decided", "menu"} \cup Storing => mode # "none"
  /\ phase \in {"menu"} \cup Storing => menuShown
  /\ menuShown \/ pendingGen # NoGen => mode = "normal"
  /\ menuShown => pendingGen = NoGen
  /\ target = "charging" \/ goal = "charging" => mode = "charger"
  /\ phase = "desktop" => doneFile

\* The early reading of the firmware flags and the decision agree.
FlagsInv ==
  /\ phase \in {"mounted", "consumed"} => normalFile = EarlySplashShown(flags)
  /\ mode = "charger" => ~normalFile

\* An unserved wish for a normal boot is on the disk, where it outlives a
\* power cut.
MarkerInv ==
  /\ promisedNormal => root.marker /\ disk.marker
  /\ phase = "requested" => root.marker /\ disk.marker
  /\ phase = "sync" => root.marker
  /\ NormalBootKept

\* Where a promised generation is: on the disk until a boot consumes it, then
\* in that boot's pending_generation.
Unconsumed ==
  root.pending = promisedGen /\ disk.pending = promisedGen /\ pendingGen = NoGen

SelectionInv ==
  /\ pendingGen # NoGen => root.pending = NoGen
  /\ pendingGen # NoGen /\ phase \in Stage1 => pendingGen \in root.gens
  /\ phase = "handoff" /\ pendingGen # NoGen => picked = pendingGen
  /\ phase \in Storing => pendingGen = NoGen /\ picked \in root.gens
  /\ phase \in {"storeMarker", "sync", "reboot"} =>
       rw /\ picked # NoGen /\ root.pending = picked
  /\ phase \in {"storeMarker", "sync"} => promisedGen = NoGen
  /\ phase = "reboot" => promisedGen = picked
  /\ promisedGen # NoGen =>
       /\ promisedGen \in root.gens /\ promisedGen \in disk.gens
       /\ \/ Unconsumed
          \/ phase \in {"consumed", "decided", "handoff"} /\ rw
             /\ pendingGen = promisedGen
       /\ rw /\ phase \in {"consumed", "decided", "menu", "storePending"}
            => pendingGen = promisedGen
       /\ rw /\ phase = "handoff" /\ mode # "none" => pendingGen = promisedGen

\* The files, the memory of a boot and what has been promised fit together in
\* every state, across power cuts: the decision is in its phases, the splash
\* agrees with it, an unserved wish is on the disk, and a selection is deleted
\* before it is used and present until then.
IInv == TypeOK /\ DecisionInv /\ FlagsInv /\ MarkerInv /\ SelectionInv
=============================================================================
