---------------------------- MODULE BootHandoff ----------------------------
(***************************************************************************)
(* The painters of one normal boot: which of them runs when, from the      *)
(* first splash of stage 1 over the generation menu to the display         *)
(* manager.  The steps of the painters and of the --stop and --details     *)
(* programs are those of BootUi; here stage 1 and systemd start them, wait *)
(* for them and kill them.                                                 *)
(*                                                                         *)
(*   splash, tasks   Tasks::Splash starts Prepare, other tasks run         *)
(*   retire, menu    selected_generation stops it and shows the menu       *)
(*   begin, await    start("start") runs Again and waits for a frame       *)
(*   giveUp, blame   ... or, after a second, stops it and shows details    *)
(*   switched        switch_root; Again is still painting                  *)
(*   startPost       sheng-boot-splash runs Splash and waits for its pid   *)
(*   stopping        ... or, after five seconds, terminates it             *)
(*   dm, preStart    display-manager's preStart stops whoever paints       *)
(*   desktop         the compositor has VT1                                *)
(***************************************************************************)
EXTENDS BootUi

CONSTANTS Prepare,     \* the painter of start("prepare")
          Again,       \* the painter of start("start")
          Splash,      \* the main process of sheng-boot-splash
          Caller,      \* the --stop and --details runs of stage 1 and preStart
          Details,     \* sheng-boot-details.service
          PromptStart  \* Prepare takes the lock before the other tasks end

ASSUME RolesAssumption ==
  /\ Animators = {Prepare, Again} /\ Prepare # Again
  /\ Handoffs = {Splash} /\ Monitors = {}
  /\ Requesters = {Caller, Details} /\ Caller # Details
ASSUME PromptAssumption == PromptStart \in BOOLEAN

VARIABLES stage,  \* what stage 1, then systemd, is doing
          unit    \* the state of sheng-boot-splash.service

hvars == <<vars, stage, unit>>

HInit == Init /\ stage = "splash" /\ unit = "inactive"

At(from, to) == stage = from /\ stage' = to

\* The program run has returned; the next run is a new process.
Returned == pc[Caller] \in {"stopped", "unopposed", "refused", "dead"}
Acknowledging == pc[Caller] \in {"stopped", "unopposed"}
Run(w) ==
  /\ pc' = [pc EXCEPT ![Caller] = "open"]
  /\ want' = [want EXCEPT ![Caller] = w]
  /\ UNCHANGED <<own, term, files, screen>>

-----------------------------------------------------------------------------
(* Stage 1.                                                                *)

\* start("prepare"), which returns at once for a charger's firmware flags.
RunSplash ==
  /\ At("splash", "tasks")
  /\ (~disabled /\ Start(Prepare)) \/ UNCHANGED vars
  /\ UNCHANGED unit

Unlocked == {"exec", "lock"}

\* ShengBootAnimation.stop in selected_generation.
RetireSplash ==
  /\ At("tasks", "retire")
  /\ PromptStart => pc[Prepare] \notin Unlocked
  /\ Run("stop")
  /\ UNCHANGED unit

\* Mutant: a stop that failed leaves the painter alone.
RescueNot(p) == UNCHANGED vars

\* stop: a failed request is followed by SIGKILL.
Rescue(p) ==
  IF Acknowledging \/ ~Live(p) THEN UNCHANGED vars ELSE Die(p)

\* A pending generation skips the menu.
LeaveRetire ==
  /\ At("retire", "menu") \/ At("retire", "begin")
  /\ Returned
  /\ Rescue(Prepare)
  /\ UNCHANGED unit

PickGeneration == At("menu", "begin") /\ UNCHANGED <<vars, unit>>

\* start("start").
Begin ==
  /\ IF disabled
     THEN At("begin", "switched") /\ UNCHANGED vars
     ELSE /\ At("begin", "await")
          /\ Goto(Again, "idle", "exec")
          /\ ready' = NoProc
          /\ UNCHANGED <<want, own, term, lockFile, holder, control, disabled,
                         screen>>
  /\ UNCHANGED unit

\* Mutant: switch_root does not wait for the first frame.
SeeReadyAtOnce ==
  /\ At("await", "switched")
  /\ UNCHANGED <<vars, unit>>

SeeReady ==
  /\ At("await", "switched")
  /\ ready # NoProc
  /\ UNCHANGED <<vars, unit>>

\* Mutant: the wait is only given up while the painter lives.
AwaitWhileAlive ==
  /\ At("await", "giveUp")
  /\ Live(Again)
  /\ Run("stop")
  /\ UNCHANGED unit

\* 100 polls of 10 ms have passed.
AwaitTimesOut ==
  /\ At("await", "giveUp")
  /\ Run("stop")
  /\ UNCHANGED unit

\* Again is killed when the stop fails; System.run of --details follows in
\* any case.
Blame ==
  /\ At("giveUp", "blame")
  /\ Returned
  /\ LET killed == ~Acknowledging /\ Live(Again)
     IN /\ pc' = [pc EXCEPT ![Caller] = "open",
                            ![Again] = IF killed THEN "dead" ELSE @]
        /\ holder' = IF killed THEN Free(Again) ELSE holder
  /\ want' = [want EXCEPT ![Caller] = "details"]
  /\ UNCHANGED <<own, term, lockFile, control, ready, disabled, screen, unit>>

LeaveBlame ==
  /\ At("blame", "switched")
  /\ Returned
  /\ UNCHANGED <<vars, unit>>

-----------------------------------------------------------------------------
(* Stage 2.                                                                *)

\* Mutant: Type=simple alone: the unit is up as soon as the process runs.
StartUnitAtOnce ==
  /\ IF disabled
     THEN At("switched", "dm") /\ UNCHANGED <<vars, unit>>
     ELSE At("switched", "dm") /\ Start(Splash) /\ unit' = "active"

\* ConditionPathExists=!/run/sheng-boot-ui.disabled.
StartUnit ==
  IF disabled
  THEN At("switched", "dm") /\ UNCHANGED <<vars, unit>>
  ELSE At("switched", "startPost") /\ Start(Splash) /\ unit' = "starting"

\* Mutant: any ready marker is good enough.
AnyPainterReady ==
  /\ At("startPost", "dm")
  /\ ready # NoProc
  /\ unit' = "active"
  /\ UNCHANGED vars

\* ExecStartPost compares .ready with MAINPID.
UnitReady ==
  /\ At("startPost", "dm")
  /\ ready = Splash
  /\ unit' = "active"
  /\ UNCHANGED vars

\* The script sees the veto, runs out of its 50 polls, or the main process
\* has ended: systemd terminates what is left of the unit.
UnitFails ==
  /\ At("startPost", "stopping")
  /\ ready # Splash
  /\ IF ~Live(Splash) THEN UNCHANGED vars
     ELSE IF own[Splash] # "none"
     THEN term' = [term EXCEPT ![Splash] = TRUE]
          /\ UNCHANGED <<pc, want, own, files, screen>>
     ELSE Die(Splash)
  /\ UNCHANGED unit

\* TimeoutStopSec: SIGKILL.
UnitKilled ==
  /\ stage = "stopping"
  /\ Live(Splash)
  /\ Die(Splash)
  /\ UNCHANGED <<stage, unit>>

\* The start job, and with it display-manager's wait, ends with the unit.
UnitStopped ==
  /\ At("stopping", "dm")
  /\ ~Live(Splash)
  /\ unit' = "failed"
  /\ UNCHANGED vars

\* The main process of the running unit ends with an error.
UnitCrashes ==
  /\ unit = "active"
  /\ pc[Splash] \in {"failed", "dead"}
  /\ unit' = "failed"
  /\ UNCHANGED <<vars, stage>>

\* OnFailure=sheng-boot-details.service.
OnFailure ==
  /\ unit = "failed"
  /\ Call(Details, "details")
  /\ UNCHANGED <<stage, unit>>

PreStart ==
  /\ At("dm", "preStart")
  /\ Run("stop")
  /\ UNCHANGED unit

\* "--stop || true", then the compositor activates VT1.
StartCompositor ==
  /\ At("preStart", "desktop")
  /\ Returned
  /\ vt' = 1
  /\ UNCHANGED <<local, files, mode2, unit>>

-----------------------------------------------------------------------------

BootStep ==
  \/ RunSplash \/ RetireSplash \/ LeaveRetire \/ PickGeneration \/ Begin
  \/ SeeReady \/ AwaitTimesOut \/ Blame \/ LeaveBlame
  \/ StartUnit \/ UnitReady \/ UnitFails \/ UnitStopped
  \/ PreStart \/ StartCompositor

ProcessStep ==
  /\ \/ \E p \in Askers : AskStep(p)
     \/ \E p \in Writers : WriterStep(p)
     \/ \E p \in Writers : Kill(p)
  /\ UNCHANGED <<stage, unit>>

HNext ==
  \/ BootStep \/ UnitKilled \/ UnitCrashes \/ OnFailure
  \/ ProcessStep
  \/ stage = "desktop" /\ Quiet /\ UNCHANGED <<stage, unit>>

\* The tasks of stage 1 and systemd's jobs proceed, and systemd escalates
\* a stop; painters and requests are scheduled as in BootUi.
HFairness ==
  /\ WF_hvars(BootStep)
  /\ WF_hvars(UnitKilled)
  /\ \A p \in Askers : WF_hvars(AskStep(p) /\ UNCHANGED <<stage, unit>>)
  /\ \A p \in Writers : WF_hvars(WriterStep(p) /\ UNCHANGED <<stage, unit>>)

HSpec == HInit /\ [][HNext]_hvars /\ HFairness

-----------------------------------------------------------------------------

\* A compositor started after an acknowledged stop never shares the screen
\* with the boot UI: no painter composes a frame any more, neither one that
\* stage 1 left behind nor one that systemd has just started.
DesktopUndisturbed ==
  stage = "desktop" /\ Acknowledging =>
    \A p \in Writers : pc[p] \notin Painting

\* Nor is the menu disturbed: while it is shown, no painter that was stopped
\* for it composes a frame.
MenuUndisturbed ==
  stage = "menu" => \A p \in Writers : pc[p] \notin Painting

\* The splash unit counts as started only when its own process has painted
\* a frame, whatever the outgoing painter has left in .ready.
UnitStartedByOwnFrame ==
  [][unit = "starting" /\ unit' = "active" => own[Splash] = "vt"]_hvars

\* switch_root happens while a painter that has drawn is in charge, or
\* after the UI has been disabled: the initrd is never left with a painter
\* that has yet to open its assets.
SwitchedWithOpenAssets ==
  [][stage' = "switched" /\ stage # "switched"
       => \A p \in Animators : disabled \/ pc[p] \notin {"lock", "locked", "announce", "fb", "assets"}]_hvars

\* Every boot reaches the desktop: stopping, starting and blaming painters
\* never wait for one another for ever.
DesktopReached == <>(stage = "desktop")
=============================================================================
