# Verification of the sheng boot system

This directory keeps TLA+ models of the boot and charging system of
nixos-sheng (NixOS on the Xiaomi Pad 6S Pro, "sheng"), model-checked with TLC
and, in part, proved with TLAPS. Every definition is translated from the code
under `src/`; `PROJECT.json` maps each one to its lines.

## 1. The system

A charger insertion powers the tablet on, so each power-on must be classified:
start the desktop, or only show a battery screen. The decision is taken in the
initrd from the firmware's flags and from files that earlier boots left behind,
and it is obeyed by programs of both stages that share files in `/run`, a lock,
three virtual terminals and one framebuffer. Nothing but these files
synchronises them: the processes are shell scripts, Ruby tasks of stage 1,
systemd units, a C painter and a Python monitor, each of which may be killed, be
slow or fail.

| Part | State | Operations | Interacts with |
| --- | --- | --- | --- |
| Early charge guard (`patches/stage-1-early-charge-guard.rb`) | firmware flags, `force-normal-once` | classify the boot, wait for charge, commit `/run/sheng-boot-ui.mode` | menu, generator, monitor |
| Generation menu (`patches/stage-1-headless-generation-menu.rb`) | `pending-generation`, selection, page, countdown | consume a stored choice, show the menu, store a choice and reboot | guard, painter |
| Stage-2 generator and markers (`scripts/sheng-offline-charging-generator.sh`, `modules/sheng-offline-charging.nix`) | default target, marker | redirect the boot to the charging target, consume and rewrite the marker | guard, monitor |
| Painter (`packages/sheng-boot-animation.h`, `sheng-fb-painter.c`) | `.lock`, control, `.ready`, `.disabled`, VT 1-3 | animate, hand over, `--stop`, `--details` | monitor, stage 1, systemd |
| Stage 1 and systemd around the painter (`patches/stage-1-boot-animation.rb`, `modules/sheng-boot-animation.nix`) | pid of the painter, unit state | start, wait for a frame, stop, kill, blame | painter, display manager |
| Charging monitor (`scripts/sheng-offline-charging.py`) | power key, ages of several moments, panel | paint, sleep, wake, power off, restart into the normal system | marker, lock, guard |
| Encoder and painter of pictures (`sheng-offline-charging.py`, `build-boot-animation.py`, `sheng-fb-painter.c`) | active and finished rectangles, private surface, scanout | encode scanlines, compose, commit row by row, animate a part | monitor, boot animation |
| MiPPS authentication (`modules/xiaomi-mipps-auth.nix`) | token of the attach, counts, two files in `/run` | probe, handshake, record an attach as complete or failed | udev, USB role switch, charger firmware |
| Root file system health, display power, boot slot, sensors | see `PROJECT.json` | one-shot scripts and units | systemd, D-Bus |

What makes it hard:

- *Crashes and durability.* The decision files live on a journalled file system
  whose writes are synced in one direction only, while the tablet can lose power
  at any moment (BootMode).
- *Interleaving.* Up to four kinds of processes touch the lock, control, ready
  and veto files; each looks at one and acts on another (BootUi, BootHandoff).
- *Timeouts.* A request gives up after three seconds, a start of the animation
  after one, a unit after five, and the late answer still comes (BootHandoff).
- *Stale time.* The monitor is one thread that paints by running a program:
  presses and charger changes wait until it looks (OfflineCharging).
- *Partial redraws.* The menu draws the rows that changed and the charging
  screen the part that moves; what is on the screen depends on all that was
  drawn before, and a painter may stop in the middle (GenerationMenu,
  ChargeScreen).
- *Things that come and go.* A charger while stage 1 waits for it, a keyboard
  with a key held down, a USB partner while its predecessor is authenticated
  (EarlyChargeGuard, GenerationMenu, MippsAuth).

What makes each part correct:

- mode decision: one decision per boot, taken before the root is switched and
  never changed; a menu is never followed by the charging screen; a promised
  normal boot or a selected generation survives whatever comes before it, and a
  selection is used once;
- painters: one writer, a ready marker that is never a lie, a diagnostics veto
  that binds, no console flash in a handoff;
- stage 1 and systemd: the menu and the compositor have the screen to
  themselves, and every boot gets to the desktop;
- monitor: no lit panel without a frame, only a real hold restarts, every press
  is answered, a missing charger ends in a power-off, the panel goes dark;
- charge guard: three detectors with one answer, a bounded wait, a lit panel on
  every way into the menu;
- menu: the selection on the page that is shown, a screen that partial redraws
  keep right, no key that repeats after it is gone, a countdown that loses
  against a key, and an untouched menu that boots the default;
- pictures: lists that draw the picture exactly, in any order, and are as short
  as they can be; a screen that shows the last reading, and nothing unpainted;
- authentication: settled attaches are left alone, a data link that a role swap
  tears down has come up since the run looked, only what was shown is recorded,
  every run ends.

`PROJECT.json` lists, under "hazards", the lines at which each of these can go
wrong, with the properties that would notice.

## 2. Modules

| Module | Contents |
| --- | --- |
| `BootMode` | the decision, its files and their durability, from power-on to desktop or charging and back |
| `BootContract` | what that machinery promises, without files; refined by `BootMode` |
| `BootModeProofs` | its proofs |
| `BootUi` | painters, handoffs, monitors and requests on the lock, control, ready and veto files |
| `ScreenContract` | one owner, only an owner paints, a granted veto seals; refined by `BootUi` |
| `BootUiProofs` | its proofs |
| `BootHandoff` | extends `BootUi`: stage 1 and systemd start and stop its processes for one normal boot |
| `BootHandoffProofs` | extends `BootUiProofs`: its proofs |
| `OfflineCharging` | the loop of the charging monitor, with time |
| `OfflineChargingProofs` | its proofs |
| `BootReason` | the firmware's boot parameters as three programs read them |
| `EarlyChargeGuard` | extends `BootReason`: the wait at a critical battery, with the hardware and the panel |
| `GenerationMenu` | paging, partial redraws, keys and countdown of the menu |
| `StageOne` | extends both: from the guard to the menu of one boot |
| `StageOneProofs` | its proofs |
| `FrameEncoder` | scanlines to rectangles, shared by charging screen and boot artwork |
| `ChargeScreen` | extends `FrameEncoder`: full and partial repaints by a painter that may fail |
| `FrameEncoderProofs`, `ChargeScreenProofs` | their proofs |
| `MippsAuth` | the charger authentication, its unit, and the USB port |
| `MippsAuthProofs` | its proofs |
| `MC*` | values of the constants for TLC |

`BootMode` says in which boots a monitor runs; `BootUi` lets its processes start
at any time, which includes every boot. `OfflineCharging` takes over where
`BootUi`'s monitor is in its painting loop, and ends where `BootMode`'s
`RequestNormalReboot` begins. `ChargeScreen` is what happens in one of `OfflineCharging`'s paints. `StageOne` stands between
`BootMode`'s decision and its `ShowMenu`: there the guard and the menu are one
action each. `MippsAuth` shares nothing with the others.

### BootMode

State. `root` and `disk` are two images of the three things on the root file
system (marker, pending generation, existing generations): what processes see
and what a power cut leaves. `Flush` is a journal commit of everything so far,
and `Sync` and the `fsync`s of the monitor are commits that the code waits for.
`/run` is lost at every restart. `phase` is the place in the boot.

Actions. `EarlySplash`, `ConsumePending`, `CommitMode`, `EnterPending`,
`ShowMenu`, `EnterCharger`, `MoveSelection`, `MenuTimeout`, `MenuConfirm`,
`StorePending`, `StoreMarker`, `Sync`, `ForcedReboot` are the steps of stage 1
in the order of its tasks; of the menu only its ends and `countdown` are here,
which a navigation key clears for good
(`stage-1-headless-generation-menu.rb:1203`), so that `MenuTimeout` leaves an
untouched menu only. `RunGenerator`, `ConsumeMarker`, `StartDesktop`, `StartCharging`,
`DaemonReload`, `OrderlyReboot`, `RequestNormalReboot` and the others are stage
2. `faults`, any subset of `Faults` that an environment is given in `Init` and
keeps, says what it may do: a crash anywhere, a root that can
only be mounted read-only, a refused reboot, a power-off at a critical battery,
an initrd without the guard (`legacy`), a generator that is skipped.

Abstractions. The two programs that test the firmware's flags are written as
the two different conditions of the code, so that their agreement is a theorem
and not an assumption. A file is absent or whole (both writers rename a
temporary file). The journal is one snapshot: its updates become durable
together and in order. A failing `sync -f` and a full file system are left out.
Forced reboots and power-offs flush nothing, which is the worst case. The
capacity needed for a normal boot is a choice of the user's action.
`promisedGen`, `promisedNormal` and `served` are history variables: what has
been promised by a completed handoff and how often it was honoured.

Fairness (only in `FairSpec`): stage 1, the countdown of a menu nobody has
touched, stage 2 and an accepted reboot go on. A touched menu waits for its
user, who owes nothing: `EveryBootSettles` lets a boot end there (`Paused`), but
not after a confirmed selection, whose restart must not come back to the menu.
The power button is under fairness only while a restart is going on; the user,
the journal and the faults never are.

### BootUi

One action is one system call that another process can notice, or several
between which nobody can tell the difference. `want`, `own` and `term` are a
process's own memory: what it asks for, what it must give back on exit (nothing,
a directory, the terminal) and `boot_stop`. Requests go through `OpenLock`,
`WriteVeto`, `WriteRequest`, `TryLock`, `Reassert`, `GiveUp`, `CloseLock`;
writers and monitors through `CheckVeto`, `TakeLock`, `Announce`, `LoadAssets`,
`TakeVt`, `Check`, `Paint`, `Exit`. A handoff is both: it first stops the
painter it takes over from. `Env` holds the timeouts, I/O failures, Esc,
signals, and terminal switches of a run.

Abstractions. A frame is "being composed" or not. Three seconds may pass in a
request only where the process it waits for can take that long (opening assets,
composing, discovering devices, waiting for its terminal). Switching to a
graphics terminal takes effect at once, which is how the code relies on it. The
truncation of the control file before it is written, and the two writes of
`Announce`, are one step. The diagnostic exit is three: `Restore` (text mode),
`Disable` (`.disabled`) and `Exit` (the console, and what the kernel closes). The monitor never reads the control file, so it is
left by the veto, a signal or the terminal only. The unit's `--stop` before the
monitor and after the splash meets no writer and is left out.

Fairness: each process that runs goes on (`WF` per process). None for starting
one, for signals, failures or timeouts.

### BootHandoff

`stage` is where stage 1, then systemd, is, `unit` the state of
`sheng-boot-splash.service`. The module starts, awaits, stops and kills
processes of `BootUi`, whose steps it uses unchanged: `RunSplash`,
`RetireSplash`, `Rescue` (the fallback to signals), `PickGeneration`, `Begin`,
`SeeReady`, `AwaitTimesOut`, `Blame`, `StartUnit`, `UnitReady`, `UnitFails`,
`UnitKilled`, `OnFailure`, `PreStart`, `StartCompositor`. A restart that the
user selects in the menu is BootMode's; no monitor runs in a normal boot.
`PromptStart` is the assumption under which the menu is safe: the first painter
has taken the lock before the remaining stage-1 tasks are through. The code
does not check it (see the findings).

Fairness: the sequence goes on, systemd kills a unit that does not stop, each
process goes on.

### OfflineCharging

Time is counted in ticks. A moment the code stores (`pressed_at`,
`offline_since`, `started_at`, `visible_until`) is its age up to the limit it is
compared with, so that the state space is finite although time is not; this is
exact, as the code only ever compares. A tick passes in `Wait` (the tenth of a
second in `select`), while the painter or the discovery runs (`Busy`, at most
`Slow` ticks: the painter is killed after five seconds), during the minute
after a power-off was asked for (`Asleep`) and when a vanished device is read.
The kernel's `queue` holds key events, each release with the real length of its
press, which the code never sees; `downFor` is the length of the present press.
`loop`, `show`, `animate`, `dark`, `read`, `event`, `hold` follow one iteration.

Abstractions. Whether the battery level changed, whether it suffices for a
normal boot, whether the marker can be stored and whether a frame of the
animation is due are left open; all of them are outside choices at the places
where the code tests them. A frame is painted or not. The key moves at most
once a tick and only while fewer than `MaxQueue` events wait; a `read` takes
all of them (the code takes 16). Key repeats, which the code skips, do not
occur. A restart lights the panel before `systemctl` answers; if it is refused,
the panel is dark again in the same step.

Fairness: the loop goes on (`WF_vars(Step)`); nothing makes the painter fail or
succeed, the charger appear or the key move.

### BootReason, EarlyChargeGuard, GenerationMenu, StageOne

`BootReason` has the three readings side by side: Ruby's `boot_value` and
`charger_mode?`, the splash's own condition, and Python's `detect_charger_boot`.
A parameter is absent, empty, or a value; a power-on reason is a number whose
bits are tested, or none.

`EarlyChargeGuard` counts time in the seconds that the code sleeps (`slept`).
`LookForBattery`, `LookForPower`, `BlankDisplay`, `LookAtCapacity`,
`PollPower`, `PowerOff`, `RestoreDisplay` and `Handoff` are the statements of
`wait_if_critical`; `Hardware` lets the battery and the charger change between
any two of them. A `poweroff -f` may work, raise, or come back.

`GenerationMenu`: `Settle` and `LetGo` are the two `wait_for_release`s, `Render`
and `Poll` one turn of the loop, `Move` is `move_selection`. `screen` holds the
entries that are drawn, those drawn as marked, the number and the countdown;
`Render` redraws what the code redraws, and falls back to text when the
framebuffer fails. Each device has a kernel queue; a descriptor stays open
(`stale`) after its device has gone. `Receive` reads device after device until
one gives an action. Devices are scanned for at most every quarter of a second,
so a poll uses the table as it is or as a scan leaves it.

Abstractions. A key is the action it stands for. A poll and the decision that
follows are one step: a key in between belongs to the next poll. A confirm in
the same batch after a navigation press, or in the turn in which a held key's
repeat falls due, is lost, in the model as in the code; a navigation key held
for longer than `wait_for_release` waits navigates when the menu opens. The
first of these is why `KeyBeatsCountdown` speaks of the choice of the countdown
only. A number with a leading zero is octal for one language and an error for
the other, and is left out; an empty value on the command line before one in
the bootconfig is read differently by Ruby and Python (`Hidden`), and
`DetectorsAgree` excludes exactly that. The `enabled?` switches are on, and the
backlights are one.

Fairness: stage 1's program and its clock go on; nothing makes the battery
charge or the user press.

### FrameEncoder, ChargeScreen

`FrameEncoder` walks over a picture; `Scan` is one scanline, `Finish` the end,
with the painter's limit. `active` and `operations` are the code's, kept as
sets: `Disjoint` is what makes their order irrelevant. The charging screen walks
over all of its picture, the artwork over the bounding box of what is not
background; both are the same operators, since the two programs do the same.

`ChargeScreen` adds `Render`, `Animate`, `Paint`, `Blank` of the monitor's
`Display` and `Compose`, `CommitLine`, `Painted`, `Failed` of the painter. The
surface is private until its rows are copied one by one, and `Failed` may happen
before any row. The unread surface is `Junk`, so a wrong shortcut past reading
the scanout becomes visible. `NewCanvas` and `DrawArtwork` are the loop of
`build-boot-animation.py`.

Abstractions. The battery picture is sampled at chosen points of its design
(`AtX`, `AtY`), in order and so close (`SampleAssumption`) that some row lies
between the bolt and the figure, as at every size of six rows or more; round
corners are square, figures are filled boxes, a colour is its name. `shown` is a history variable: the reading and the frame the screen
ought to show, or that it is not known because a painter stopped. When drawing
a new capacity fails, the code remembers it all the same
(`sheng-offline-charging.py:579`) and animates it over the old picture;
`ScreenTrue` claims nothing of the picture then. No fairness: what is checked
is safety, and `OfflineCharging` has the loop.

### MippsAuth

A run of `xiaomi-mipps-auth-retry` is `Begin` (token, file of completed
attaches), `CheckFailed` (flags, file of failed ones) and `WaitForDataLink`; then
turn after turn of `Attempt` (flags), `ReadNode` three times, `CheckPartner` and
`Decide`; the helper as probe or handshake, which has been started when `Decide`
is over and swaps the data role some time later (`SwapRole`); `Probed` or
`AwaitCompletion`; and `MarkAttachComplete` or `SyncCurrent`. Everything a turn
reads of sysfs is read in a step of its own and kept in `seen`, so the partner,
the link and what the firmware says may change between any two reads, between
the look at the link and the helper's start, and between that and the swap.
`Restart` is `Restart=on-failure`, `Wanted` the device's `SYSTEMD_WANTS`, which
does nothing to an active unit. `Attach`, `Detach`, `Publish` and `DataLink` are
the port and the firmware: readiness, identity, PDO and flags come in any order
or never, of any partner, and identity and flags may be left over from the last
one. The history variable `linkedAt` says where the run was when the link came
up: before this turn, in it, or with the helper started.

Abstractions. The token is the number of the attach. What decides nothing more
is not read (the PDO of an adapter that is not Xiaomi's). An attach during the
end of an active run is missed (`xiaomi-mipps-auth.nix:435`), and left-over
flags let the next attach be recorded without a handshake (`:245`); both happen
in the model, and no property denies them: `CompletedWasShown` is what remains
true. A failed run starts again with no helper counted.
`sync_standard_pd_current` is one step; that its write may fail, which under
`errexit` ends the run with an error and starts another, is modelled, the limit
it writes is not. docs/mipps-120w.md:25 and :98 have the service retried on
power-supply changes; the udev rule fires for an added partner only. The
device-role service and the helper's protocol are not modelled.

What is true of a data link is less than the comment at `:258` wants. A link
that comes up after the look at it is torn down by a swap that was already on its
way; no program can prevent that, and `LinkSpared` says that before a probe
nothing else happens, and that before any swap the link was not there when the
run had its waits. The handshake does not look at the link at all
(`NoHelperOnDataLink`, below).

Fairness: the shell goes on.

## 3. Runs

| Run | States | Shows |
| --- | --- | --- |
| `boot_mode` | 442,724 | in environments with every set of faults and six firmware reports: the inductive invariant (among its parts: shown menus never lead to charging, the splash agrees with the decision, a selection is deleted before it is used), the latched decision, kept promises of normal boots and generations, and `BootContract` implemented; where no power is cut each selection is booted once; where also the root can be written and no reboot is refused a charger insertion is honoured; and every boot settles (desktop, charging, or off) or waits in a menu that was touched |
| `boot_ui_safety` | 1,411,690 | a painter, a handoff, a monitor and a request with every fault and signal: the inductive invariant (one lock holder, honest ready marker), binding veto, no console flash, `ScreenContract` implemented |
| `boot_ui_live` | 20,124 | without signals, diagnostics always end on the console and no request waits for ever |
| `boot_ui_veto` | violation | `AcceptedDetailsStay` |
| `boot_handoff` | 43,201 | with failing, killed and slow painters: menu and acknowledged compositor undisturbed, unit started by its own frame, assets open before `switch_root`, the desktop is reached |
| `boot_handoff_menu` | violation | `MenuUndisturbed` without `PromptStart` |
| `charging_loop` | 301,042 | panel lit by a frame only, no short press taken for a hold, every press answered, power-off asked for, display sleeps |
| `charging_press` | violation | `OnlyHoldsBoot` with a slow painter |
| `charge_screen` | 50,198 | every list draws its picture exactly, without overlap and merged; repaints by a failing painter leave the last reading, and nothing unpainted, on the screen |
| `stage_one` | 404,700 | the detectors agree on every mixture of parameters, the wait at a critical battery ends, the menu is lit, pages, redraws, repeats and counts down correctly while keys and devices come and go |
| `mipps` | 520,056 | settled attaches are left alone, a data link that a swap tears down has come up since the run's waits (before a probe: since its look at the link), only shown attaches are recorded, every run ends |
| `mipps_link` | violation | `NoHelperOnDataLink` |

Bounds. In `boot_mode` an environment may have any of the 64 sets of faults, so
that one run answers for those that break a property and those that do not. Two
generations suffice for "another one than selected" and "deleted
meanwhile". In `boot_ui_safety` there is one process of each kind, and
`Restart` lets each run again without end; the proofs cover any number of them.
`boot_ui_live` has no monitor, because the liveness of diagnostics between
painters is the question. In `charging_loop`, `Show > Hold > 2 * Slow`, as in
the device as long as frames are quick: with a smaller `Show` the display would be dark
before a hold, and two slow frames in one iteration could never delay a
release. The allowance `Blind == 2 * Slow` is exact: with one tick less TLC
finds a counterexample. `Grace`, `Disconnect` and `Sleep` are only compared
with; MaxQueue = 2 lets a press and its release wait together.

In `stage_one` there are three levels (critical, between, enough), a limit of
six polls, enough for three without a charger to come after charging or be
interrupted, three generations on pages of two (a full page, a short one,
wrap-around in both directions), a keyboard that may be unplugged once and the
power key, and at most two unread events. The boot parameters are every mixture
of four forces, four modes and six reasons from the two sources. In
`charge_screen` the samples hit every layer of the battery, the bolt and the
figures from inside and outside; the readings are none, empty, critical, full
and between; the artwork is every picture of two by three pixels in three
colours and one chequered picture that exceeds the painter's limit. In `mipps` the limits
differ, so that each one ends some run, and two attaches are enough for
what a run does to another attach than the one it has its token from; the proofs
cover any number. Deadlock is checked in the runs that extend `BootUi` and
`OfflineCharging`. The others really stop: a boot in the failure shell, a stage 1
that has ended, a finished bake, a service at rest.

No run checks a type invariant by itself. Types are part of `IInv` of
`BootMode` and `BootUi`, which their runs check, and are proved for these two,
`OfflineCharging`, `EarlyChargeGuard`, `GenerationMenu`, `FrameEncoder` and
`MippsAuth`.

Each property of a passing run has a mutant of the code (a dropped guard, a
missing reset, a swapped order) under which TLC finds it violated.

### What TLC found

- `boot_ui_veto`: `--details` opens the lock before it writes the veto
  (`sheng-boot-animation.h:60`). If there was no lock file, a monitor can pass
  its recheck in between and take the terminal after `--details` has reported
  success.
- `boot_handoff_menu`: a `--stop` that runs before the painter has the lock is
  acknowledged at once (`sheng-boot-animation.h:67`), and the painter paints
  over the menu.
- `charging_press`: a hold is measured between the moments at which two events
  are read (`sheng-offline-charging.py:611`). A short press whose release waits
  behind a frame of two seconds or more restarts the tablet.
- `mipps_link`: the script looks at the data link before its loop, before a probe
  and when a Xiaomi identity has no PDO, but starts the handshake of a Xiaomi
  identity with a PDO without looking (`xiaomi-mipps-auth.nix:370`). Identities
  survive some detach events (`:357`); a computer that supplies power and
  publishes its own PDO behind a charger's identity has its configured link
  torn down, although the link was up for the whole turn. That a computer
  publishes a PDO is an assumption about the firmware.

Limits that the models have and no run reports as a violation:

- The pending selection is deleted without a sync
  (`stage-1-headless-generation-menu.rb:132`), unlike its writing: after a power
  cut the next boot may enter the same generation again without a menu.
  `OneBootPerSelection` is about environments without crashes.
- If `systemctl reboot` is refused, the monitor leaves the marker behind
  (`sheng-offline-charging.py:525`), and after a power-off the next charger
  insertion boots the desktop. `ChargerBootHonoured` is about environments without it.
- A stop that times out is ignored (`modules/sheng-boot-animation.nix:72`,
  `|| true`), so painter and compositor may draw together; it is a choice of the
  code in favour of starting at all. `DesktopUndisturbed` is about a compositor
  whose stop was answered.
- `HoldStartsBoot` excludes, by the history variable `lost`, the key whose
  device disappears or whose release falls into the sleep after a refused
  power-off: the end of the press is unknown and counts as a hold
  (`sheng-offline-charging.py:626`).
- The monitor holds the lock for up to ten seconds of discovery and polls no
  request (`sheng-offline-charging.py:547`): `--details` gives up after three. A
  painter terminated after such a `--details` leaves without showing VT3
  (`sheng-boot-animation.h:268` tests the signal before the veto).
- A `poweroff -f` that raises leaves stage 1 failed with a dark panel, and each
  one that comes back adds a minute to the wait (`WaitBounded` counts them).

## 4. Proofs

All proofs hold for every value of the constants under the assumptions named in
the modules.

`BootModeProofs` (`GensAssumption`, `FlagsAssumption`, `FaultsAssumption`).
`IInv` is `TypeOK` with four parts. `DecisionInv`: which phases are before and
after the decision, and that the charging target implies a charger decision.
`FlagsInv`: the early reading of the flags and the decision agree. `MarkerInv`:
an unserved wish for a normal boot is in *both* images, which is why a power cut
cannot lose it. `SelectionInv`: where a promised generation is, on the disk
until consumed and then in this boot's memory. The properties alone are not
inductive: each speaks of what a boot has ended in, and the parts say what
carries the information there. `Inductive` and from it eight theorems:
`TypeCorrect`, `MenuSafe`, `SplashSafe`, `NormalBootSafe`, `SelectionSafe`,
`PendingSafe`, the action properties `LatchSafe` and `DesktopSafe`, and
`Refinement`: `BootMode` implements `BootContract`.

Two more theorems are about properties that name the faults which break them,
and hold for every set of faults. `OnceSafe` (`OneBootPerSelection`: without
power cuts a stored selection is booted at most once): `OnceInv` says that in
such an environment an entered selection is gone from the root, and from the
disk too once its boot has ended, which a power cut before the deletion is
committed breaks. `ChargerSafe` (`ChargerBootHonoured`: without power cuts, a
read-only root and refused reboots a device that was powered on by its charger
charges): `AskedInv` says that there a marker in front of a boot stands for a
wish that is not yet served, and it is gone before the boot is running. The
menu, the guard's power-off, a skipped generator and `legacy` initrds may happen
in both. `FaultsFixed` keeps an environment's faults what they are.

`BootUiProofs` (`KindsAssumption`, `EnvAssumption`; any sets of processes).
`LockInv`: a process in its locked part, or with something to give back, has the
lock. `OwnInv`: what has to be given back in which place. `ReadyInv`: the ready
marker names a killed writer or the one with lock and terminal. `VetoInv`: after
a granted `--details` nobody is between the recheck and the frame. `ShownInv`:
the exits to the console follow the veto. `OneWriter` alone is not inductive,
because a process leaves its locked part through `Exit`, whose effect depends on
`own`. `Inductive`, and from it `TypeCorrect`, `Exclusive`, `ReadyCorrect`,
`VetoSafe`, `FlashSafe` and `Refinement`: `BootUi` implements `ScreenContract`.

`BootHandoffProofs` (`KindsAssumption`, `RolesAssumption`). The systemd side
adds guards and stop signals to `BootUi`'s steps, but stage 1 runs its request
program again where `BootUi` has each process once, so the invariant of
`BootUiProofs` is not simply inherited: what a granted veto seals (`VetoInv`) is
lost, and what the other parts said about the requests is proved again. `Base`
is the rest of that invariant with `Extra`: the lock file exists once it has
been locked, the painters of stage 1 retire nobody, and who has yet to take the
terminal neither owns it nor is named by `.ready`. Theorems without further
assumptions: `BootKeepsLock` (one writer, and `.ready` names it) and
`UnitStartHolds` (`UnitStartedByOwnFrame`: systemd never takes an older
painter's marker for the new one's). `StageInv` adds where the three painters
are at each stage of the boot; `Moves` says, without the lock protocol, what one
step of a process may do to the others. From it `MenuHolds`, `DesktopHolds` and
`SwitchHolds` (`MenuUndisturbed`, `DesktopUndisturbed`,
`SwitchedWithOpenAssets`), under `PromptStart`: the painter started first in
stage 1 takes the lock before the other tasks of stage 1 end. Without that
hypothesis TLC finds the three violated, which section 3 describes for the menu.

`OfflineChargingProofs` (`TimesAssumption`). `TypeCorrect`, in four parts
(places, ages, queues, flags), says that ages stay within the limits they are
compared with; `LitSafe` that only a painted frame or the restart lights the
panel. `HoldSafe` (`HoldStartsBoot`) needs three more parts, because the program
compares its own clock and what it has read with what the key really did:
`PlaceInv` relates the program's place to the batch it is reading and to the
press it times; `EventsInv` says that presses and releases alternate through the
batch, then the queue, up to the key's present position; `LengthInv` that the
age of the timed press exceeds its real length by at most the time for which a
release has been waiting unread. `HeldIsExact` is the sharper consequence for
the ordinary way into the boot: the key really was held for the full time, or
its end was lost or slept through.

`FrameEncoderProofs`, `ChargeScreenProofs` (`SizeAssumption`, `ColorAssumption`,
`ScreenAssumption`; any size, palette and picture). `EInv`: `Scanning` says
where the walk is, `Waiting` that every active rectangle ends at the next
scanline and is a span of the last one, `Done` that a finished one ends above
it, `Emptied` that nothing is left over at the end, together with `Disjoint`,
`EncodedExactly` and `Merged`. None of the three is inductive: a span that goes
on is covered once only because exactly one active rectangle has its key, and a
new rectangle does not extend a finished one only because the finished one lost
its span a row earlier. Theorems: `ExactCoverHolds` (`EncodedExactly` with
`Disjoint`) and `MergedHolds`.

`ScreenTrueHolds` (`ScreenTrue`, with `SampleAssumption`; any size, sampling,
margin, number of frames, width of a band and set of readings) goes on from
there. Lemmas say what the two lists fill: `BandsAre` (the bands tile a
rectangle, whatever the step), `AllOrNothing` (a rectangle in the colour of the
charge or the bolt is in the battery altogether or not at all, which is why the
code may test corners), `FrameList` (an animation's frame covers exactly what
moves) and `FrameComposed` (an opaque first fill leaves no point uncovered, so
junk is never committed). `PaintInv`: `LastList`, the list handed to the painter
is that of the last reading; `NoJunk`; `SurfaceIs`, what the private surface
holds during the commit; `ScreenIs`, what the screen shows above and below the
line. `ScreenTrue` speaks of the moments between two painters and is true there
only because of the last two.

`StageOneProofs` (`GuardAssumption`, `ListAssumption`, `TimeAssumption`,
`DeviceAssumption`). `Budget` keeps, for each place of the guard, what has been
slept against the attempts used and the loop's own clock; `Panel` knows on which
ways the backlight is saved; `OnPage` is the arithmetic of pages (the page
starts at a multiple of its size, the selection less than a page after it);
`ScreenIsLast` says that the screen is a complete drawing of what the last
render remembers, also after the framebuffer failed; `Polling` that a wait for a
release ends with its polls. Theorems: `WaitBoundedHolds`, `MenuLitHolds`,
`VisibleSelectedHolds`, `ScreenMatchesHolds`, `GuardTypeOKHolds`,
`MenuTypeOKHolds`. `DetectorsAgreeHolds` is the table of the firmware's flags as
three programs test them, for every value of the parameters. `NoGhostKeyHolds`
and `KeyBeatsCountdownHolds` need `KeysTrue`: every live descriptor is of a
device that exists, and what the menu will take for held once it has read the
waiting events is down. `UntouchedIsDefaultHolds` needs `Untouched`: until
somebody touches a key no navigation key is down and no press waits in a queue,
so the selection is still the default.

`MippsAuthProofs` (`LoopAssumption`). `Counted` and `Numbered` bound the loops
and the tokens; `Unsettled`: a run past its checks has nothing settled before
it, since the files do not change until it ends and a new partner has a number
no file can hold; `FlagsShown` and `MarkIsShown` carry what the run has seen to
the moment it writes. Theorems: `SettledLeftAloneHolds`,
`CompletedWasShownHolds`, `TypeOKHolds` and `LinkSparedHolds`. The last needs
`LinkIsLate`, which carries what a run knew of the link from its waits through
all its turns, and from its look to the swap; `HalfSettled` is what
holds between a run's two looks at the files: what is attached is what it will
look up in the second, or newer than both.

Only model-checked: all liveness properties (`EveryBootSettles`,
`DiagnosticsShown`, `RequestsAnswered`, `DesktopReached`, `PressAnswered`,
`PowerOffRequested`, `DisplaySleeps`, `StageEnds`, `RunEnds`), since the prover
has neither fairness nor ENABLED. Every invariant and every action property that
a run checks is proved.

## 5. Not modelled

- The painter's one-shot drawing commands, glyph blending and pixel formats,
  fonts, antialiasing and the light of the boot animation: pure data without
  state.
- Stage-1 wrappers (e2fsck and its retry, udev failures): sequential, their only
  state is the exit status they pass on.
- Root file system health: a oneshot over the journal's text, which the models
  do not have; the two files it writes decide nothing but a message and a check.
- Sensors and display power: scripts that act through GNOME and
  iio-sensor-proxy, whose reactions are not in this repository.
- Performance, pen and device authentication services: thin adapters to sysfs
  and D-Bus without shared state.
- Boot slot, firmware flashing and rebuild scripts: one-shot calls of external
  programs whose state is on partitions.
- The Nix expressions for hardware, kernel, firmware, packaging and the vendored
  sensor library: declarative or third-party.
- Build, test and inspection scripts: tools, read as a reference for what the
  code is expected to do.

## 6. What could follow

All modules that were planned exist, and every safety property that a run
checks is proved. What is left to prove is under weaker hypotheses: how much of
`BootHandoff`'s three properties remains without `PromptStart`, and what a power
cut may still do to `OneBootPerSelection`.
