------------------------------- MODULE BootUi -------------------------------
(***************************************************************************)
(* Who paints the boot screen: the control protocol of sheng-fb-painter    *)
(* and of the charging monitor.                                            *)
(*                                                                         *)
(* The processes share files next to /run/sheng-boot-ui                    *)
(*   .lock      a POSIX lock: its holder may paint        lockFile, holder *)
(*   (itself)   the request the writer polls              control          *)
(*   .ready     the pid of a writer that painted a frame  ready            *)
(*   .disabled  diagnostics were asked for: no more UI    disabled         *)
(* and the virtual terminals: VT1 is the desktop's, VT2 the boot UI's and  *)
(* VT3 the text console.  Animators are "--animate" painters of stage 1,   *)
(* Handoffs "--animate-handoff" ones of stage 2, Monitors run              *)
(* sheng-offline-charging, and Requesters are "--stop" and "--details".    *)
(*                                                                         *)
(* One action is one system call another process can notice, or several    *)
(* between which nobody can tell the difference.  Here processes start at  *)
(* any time; BootHandoff starts them as the boot does.                     *)
(***************************************************************************)
EXTENDS Integers

CONSTANTS Animators, Handoffs, Monitors, Requesters,
          NoProc,  \* no process
          Env      \* what the environment may do, a subset of AllEnv

\* timeout: three seconds pass in a request; io: an open, mapping or read
\* fails; esc: the Esc key or the 120-second limit; term, kill: signals;
\* switch: somebody activates VT1.
AllEnv == {"timeout", "io", "esc", "term", "kill", "switch"}

Writers == Animators \cup Handoffs
Askers == Requesters \cup Handoffs
Procs == Writers \cup Monitors \cup Requesters

ASSUME KindsAssumption ==
  /\ Animators \cap Handoffs = {}
  /\ Monitors \cap Writers = {}
  /\ Requesters \cap (Writers \cup Monitors) = {}
  /\ NoProc \notin Procs
ASSUME EnvAssumption == Env \subseteq AllEnv

VARIABLES
  pc,        \* where each process is
  want,      \* what each process asks the writer for
  own,       \* what a writer must give back: nothing, "dir" or "vt"
  term,      \* boot_stop: a writer has received SIGTERM
  lockFile,  \* .lock exists
  holder,    \* the process that holds the lock
  control,   \* the contents of the control file
  ready,     \* the process .ready names
  disabled,  \* .disabled exists
  vt,        \* the active virtual terminal
  mode2      \* the KD mode of VT2

local == <<pc, want, own, term>>
files == <<lockFile, holder, control, ready, disabled>>
screen == <<vt, mode2>>
vars == <<local, files, screen>>

Asking == {"open", "veto", "vetoAbsent", "absent", "request", "try",
           "reassert", "got", "shown"}
Locking == {"exec", "load", "asked", "lock", "locked"}
Starting == {"announce", "fb", "assets", "recheck", "vt", "vtWait", "discover"}
Painting == {"check", "paint"}
Marking == {"revealMark", "failMark"}
Leaving == {"quit", "busy", "reveal", "fail", "revealVt", "failVt"} \cup Marking
Final == {"done", "failed", "dead", "stopped", "unopposed", "refused"}
Pcs == {"idle"} \cup Asking \cup Locking \cup Starting \cup Painting
       \cup Leaving \cup Final

Live(p) == pc[p] \notin {"idle"} \cup Final

TypeOK ==
  /\ pc \in [Procs -> Pcs]
  /\ want \in [Procs -> {"stop", "details"}]
  /\ own \in [Procs -> {"none", "dir", "vt"}]
  /\ term \in [Procs -> BOOLEAN]
  /\ lockFile \in BOOLEAN
  /\ holder \in Procs \cup {NoProc}
  /\ control \in {"none", "run", "stop", "details"}
  /\ ready \in Procs \cup {NoProc}
  /\ disabled \in BOOLEAN
  /\ vt \in {1, 2, 3}
  /\ mode2 \in {"text", "graphics"}

Init ==
  /\ pc = [p \in Procs |-> "idle"]
  /\ want = [p \in Procs |-> "stop"]
  /\ own = [p \in Procs |-> "none"]
  /\ term = [p \in Procs |-> FALSE]
  /\ lockFile = FALSE /\ holder = NoProc
  /\ control = "none" /\ ready = NoProc /\ disabled = FALSE
  /\ vt = 1 /\ mode2 = "text"

Goto(p, from, to) == pc[p] = from /\ pc' = [pc EXCEPT ![p] = to]

Free(p) == IF holder = p THEN NoProc ELSE holder

-----------------------------------------------------------------------------
(* boot_request_stop, run by --stop, --details and an incoming handoff.    *)

\* Where the call returns to when there was no lock file.
Unopposed(p) == IF p \in Handoffs THEN "asked" ELSE "unopposed"
Stopped(p) == IF p \in Handoffs THEN "asked" ELSE "stopped"
Refused(p) == IF p \in Handoffs THEN "fail" ELSE "refused"

\* The lock file is opened before the veto is written.
OpenLock(p) ==
  /\ Goto(p, "open",
          IF want[p] = "details"
          THEN IF lockFile THEN "veto" ELSE "vetoAbsent"
          ELSE IF lockFile THEN "request" ELSE "absent")
  /\ UNCHANGED <<want, own, term, files, screen>>

WriteVeto(p) ==
  /\ Goto(p, "veto", "request") \/ Goto(p, "vetoAbsent", "absent")
  /\ disabled' = TRUE
  /\ UNCHANGED <<want, own, term, lockFile, holder, control, ready, screen>>

\* No lock file: no writer has run yet.
NoLockFile(p) ==
  /\ Goto(p, "absent", Unopposed(p))
  /\ vt' = IF want[p] = "details" THEN 3 ELSE vt
  /\ UNCHANGED <<want, own, term, files, mode2>>

WriteRequest(p) ==
  /\ Goto(p, "request", "try")
  /\ control' = want[p]
  /\ UNCHANGED <<want, own, term, lockFile, holder, ready, disabled, screen>>

TryLock(p) ==
  /\ Goto(p, "try", IF holder = NoProc THEN "got" ELSE "reassert")
  /\ holder' = IF holder = NoProc THEN p ELSE holder
  /\ UNCHANGED <<want, own, term, lockFile, control, ready, disabled, screen>>

\* Mutant: the loop only waits for the lock.
ReassertNot(p) ==
  /\ Goto(p, "reassert", "try")
  /\ UNCHANGED <<want, own, term, files, screen>>

\* A writer that is starting may have overwritten the request.
Reassert(p) ==
  /\ Goto(p, "reassert", "try")
  /\ control' = want[p]
  /\ UNCHANGED <<want, own, term, lockFile, holder, ready, disabled, screen>>

\* Where a holder may stay for three seconds although it is asked to leave:
\* everywhere else it polls the request or is a few system calls from the
\* end.
CanStall(p) ==
  \/ pc[p] \in {"assets", "discover", "paint"}
  \/ p \in Monitors /\ pc[p] = "vtWait"

GiveUp(p) ==
  /\ "timeout" \in Env
  /\ \E q \in Procs : holder = q /\ CanStall(q)
  /\ Goto(p, "try", Refused(p))
  /\ UNCHANGED <<want, own, term, files, screen>>

\* The old writer has gone.  Closing the descriptor frees the lock again;
\* boot_details runs before that.
Acknowledged(p) ==
  /\ \/ /\ want[p] = "details"
        /\ Goto(p, "got", "shown")
        /\ disabled' = TRUE /\ vt' = 3
        /\ holder' = holder
     \/ /\ want[p] = "stop"
        /\ Goto(p, "got", Stopped(p))
        /\ holder' = NoProc
        /\ disabled' = disabled /\ vt' = vt
  /\ UNCHANGED <<want, own, term, lockFile, control, ready, mode2>>

CloseLock(p) ==
  /\ Goto(p, "shown", "stopped")
  /\ holder' = NoProc
  /\ UNCHANGED <<want, own, term, lockFile, control, ready, disabled, screen>>

AskStep(p) ==
  \/ OpenLock(p) \/ WriteVeto(p) \/ NoLockFile(p) \/ WriteRequest(p)
  \/ TryLock(p) \/ Reassert(p) \/ GiveUp(p) \/ Acknowledged(p)
  \/ CloseLock(p)

-----------------------------------------------------------------------------
(* boot_animate, and the start of the monitor.                             *)

CheckVeto(p) ==
  /\ Goto(p, "exec",
          IF disabled THEN "done" ELSE IF p \in Handoffs THEN "load" ELSE "lock")
  /\ UNCHANGED <<want, own, term, files, screen>>

\* A handoff validates its assets before it retires the old writer.
Preload(p) ==
  /\ \/ Goto(p, "load", "open")
     \/ "io" \in Env /\ Goto(p, "load", "fail")
  /\ UNCHANGED <<want, own, term, files, screen>>

CheckVetoAsked(p) ==
  /\ Goto(p, "asked", IF disabled THEN "quit" ELSE "lock")
  /\ UNCHANGED <<want, own, term, files, screen>>

\* Mutant: a busy lock does not stop the writer.
TakeLockAnyway(p) ==
  /\ lockFile' = TRUE
  /\ Goto(p, "lock", "locked")
  /\ holder' = IF holder = NoProc THEN p ELSE holder
  /\ UNCHANGED <<want, own, term, control, ready, disabled, screen>>

\* The monitor's lockf raises where a painter returns 75.
TakeLock(p) ==
  /\ lockFile' = TRUE
  /\ Goto(p, "lock", IF holder = NoProc THEN "locked" ELSE "busy")
  /\ holder' = IF holder = NoProc THEN p ELSE holder
  /\ UNCHANGED <<want, own, term, control, ready, disabled, screen>>

\* Mutant: only the check before the lock is made.
CheckVetoLockedSkipped(p) ==
  /\ Goto(p, "locked", IF p \in Monitors THEN "vt" ELSE "announce")
  /\ UNCHANGED <<want, own, term, files, screen>>

CheckVetoLocked(p) ==
  /\ Goto(p, "locked",
          IF disabled THEN "quit" ELSE IF p \in Monitors THEN "vt" ELSE "announce")
  /\ UNCHANGED <<want, own, term, files, screen>>

\* The stale ready marker goes, the control file says "run", and from here
\* on SIGTERM only sets boot_stop.
Announce(p) ==
  /\ Goto(p, "announce", IF p \in Handoffs THEN "recheck" ELSE "fb")
  /\ own' = [own EXCEPT ![p] = "dir"]
  /\ ready' = NoProc
  /\ control' = "run"
  /\ UNCHANGED <<want, term, lockFile, holder, disabled, screen>>

\* The framebuffer may take ten seconds to appear.
AwaitFramebuffer(p) ==
  /\ \/ Goto(p, "fb", CASE control = "stop" -> "quit"
                        [] control = "details" -> "reveal"
                        [] term[p] -> "quit"
                        [] OTHER -> "assets")
     \/ "io" \in Env /\ Goto(p, "fb", "fail")
  /\ UNCHANGED <<want, own, term, files, screen>>

LoadAssets(p) ==
  /\ \/ Goto(p, "assets", "recheck")
     \/ "io" \in Env /\ Goto(p, "assets", "fail")
  /\ UNCHANGED <<want, own, term, files, screen>>

\* Diagnostics asked for while the assets were loading.
CheckVetoLoaded(p) ==
  /\ Goto(p, "recheck", IF disabled THEN "reveal" ELSE "vt")
  /\ UNCHANGED <<want, own, term, files, screen>>

\* KD_GRAPHICS and VT_ACTIVATE on VT2, by a painter or the monitor; when
\* the second fails, nobody undoes the first.
TakeVt(p) ==
  /\ \/ /\ Goto(p, "vt", "vtWait")
        /\ mode2' = "graphics" /\ vt' = 2
        /\ own' = IF p \in Writers THEN [own EXCEPT ![p] = "vt"] ELSE own
     \/ /\ "io" \in Env
        /\ Goto(p, "vt", IF p \in Writers THEN "fail" ELSE "busy")
        /\ mode2' \in {mode2, "graphics"}
        /\ UNCHANGED <<vt, own>>
  /\ UNCHANGED <<want, term, files>>

\* A painter polls VT_GETSTATE for a second; VT_WAITACTIVE has no limit.
AwaitVt(p) ==
  /\ IF p \in Monitors
     THEN vt = 2 /\ Goto(p, "vtWait", "discover")
     ELSE Goto(p, "vtWait",
               IF term[p] THEN "quit" ELSE IF vt = 2 THEN "check" ELSE "fail")
  /\ UNCHANGED <<want, own, term, files, screen>>

\* The monitor looks for a framebuffer and a battery for up to ten seconds.
Discover(p) ==
  /\ Goto(p, "discover", "check")
  /\ UNCHANGED <<want, own, term, files, screen>>

StopSeen(p) == term[p] \/ control = "stop" \/ vt # 2
DetailsSeen == disabled \/ control = "details"

\* Mutant: the loop only polls the control file.
AfterCheckNoVeto(p) ==
  CASE p \in Monitors -> IF vt # 2 \/ disabled THEN "quit" ELSE "paint"
    [] term[p] -> "quit"
    [] control = "details" -> "reveal"
    [] StopSeen(p) -> "quit"
    [] OTHER -> "paint"

\* One tick of the loops: boot_stop is tested first, then the veto.
AfterCheck(p) ==
  CASE p \in Monitors -> IF vt # 2 \/ disabled THEN "quit" ELSE "paint"
    [] term[p] -> "quit"
    [] DetailsSeen -> "reveal"
    [] StopSeen(p) -> "quit"
    [] OTHER -> "paint"

Check(p) ==
  /\ Goto(p, "check", AfterCheck(p))
  /\ UNCHANGED <<want, own, term, files, screen>>

Escape(p) ==
  /\ "esc" \in Env /\ p \in Writers
  /\ AfterCheck(p) = "paint"
  /\ Goto(p, "check", "reveal")
  /\ UNCHANGED <<want, own, term, files, screen>>

\* The first frame is followed by the ready marker.
Paint(p) ==
  /\ \/ /\ Goto(p, "paint", "check")
        /\ ready' = IF p \in Writers THEN p ELSE ready
     \/ /\ "io" \in Env
        /\ Goto(p, "paint", IF p \in Writers THEN "fail" ELSE "busy")
        /\ UNCHANGED ready
  /\ UNCHANGED <<want, own, term, lockFile, holder, control, disabled, screen>>

\* Only the diagnostic exits return to text.
Restore(p) ==
  /\ Goto(p, "reveal", "revealMark") \/ Goto(p, "fail", "failMark")
  /\ mode2' = IF own[p] = "vt" THEN "text" ELSE mode2
  /\ UNCHANGED <<want, own, term, files, vt>>

\* And they disable the UI.
Disable(p) ==
  /\ Goto(p, "revealMark", "revealVt") \/ Goto(p, "failMark", "failVt")
  /\ disabled' = TRUE
  /\ UNCHANGED <<want, own, term, lockFile, holder, control, ready, screen>>

\* A process's memory ends with it.
Forget(p) ==
  /\ own' = [own EXCEPT ![p] = "none"]
  /\ term' = [term EXCEPT ![p] = FALSE]

\* Mutant: a normal exit gives the terminal back to the console too.
ExitToText(p) ==
  /\ \/ Goto(p, "quit", "done") \/ Goto(p, "revealVt", "done")
     \/ Goto(p, "busy", "failed") \/ Goto(p, "failVt", "failed")
  /\ vt' = IF pc[p] \in {"revealVt", "failVt"} THEN 3 ELSE vt
  /\ mode2' = IF own[p] = "vt" THEN "text" ELSE mode2
  /\ ready' = IF own[p] # "none" THEN NoProc ELSE ready
  /\ holder' = Free(p)
  /\ Forget(p)
  /\ UNCHANGED <<want, lockFile, control, disabled>>

\* Mutant: the ready marker outlives its writer.
ExitKeepsReady(p) ==
  /\ \/ Goto(p, "quit", "done") \/ Goto(p, "revealVt", "done")
     \/ Goto(p, "busy", "failed") \/ Goto(p, "failVt", "failed")
  /\ vt' = IF pc[p] \in {"revealVt", "failVt"} THEN 3 ELSE vt
  /\ holder' = Free(p)
  /\ Forget(p)
  /\ UNCHANGED <<want, lockFile, control, ready, disabled, mode2>>

Exit(p) ==
  /\ \/ Goto(p, "quit", "done") \/ Goto(p, "revealVt", "done")
     \/ Goto(p, "busy", "failed") \/ Goto(p, "failVt", "failed")
  /\ vt' = IF pc[p] \in {"revealVt", "failVt"} THEN 3 ELSE vt
  /\ ready' = IF own[p] # "none" THEN NoProc ELSE ready
  /\ holder' = Free(p)
  /\ Forget(p)
  /\ UNCHANGED <<want, lockFile, control, disabled, mode2>>

WriterStep(p) ==
  \/ CheckVeto(p) \/ Preload(p) \/ CheckVetoAsked(p) \/ TakeLock(p)
  \/ CheckVetoLocked(p) \/ Announce(p) \/ AwaitFramebuffer(p)
  \/ LoadAssets(p) \/ CheckVetoLoaded(p) \/ TakeVt(p) \/ AwaitVt(p)
  \/ Discover(p) \/ Check(p) \/ Escape(p) \/ Paint(p) \/ Restore(p)
  \/ Disable(p) \/ Exit(p)

-----------------------------------------------------------------------------
(* Starts, signals and the rest of the machine.                            *)

Start(p) ==
  /\ p \in Writers \cup Monitors
  /\ Goto(p, "idle", "exec")
  /\ UNCHANGED <<want, own, term, files, screen>>

\* Restart=on-failure of the monitor's unit.
Restart(p) ==
  /\ p \in Monitors
  /\ pc[p] \in {"failed", "dead"}
  /\ pc' = [pc EXCEPT ![p] = "exec"]
  /\ UNCHANGED <<want, own, term, files, screen>>

Call(p, w) ==
  /\ p \in Requesters
  /\ Goto(p, "idle", "open")
  /\ want' = [want EXCEPT ![p] = w]
  /\ UNCHANGED <<own, term, files, screen>>

\* The kernel closes what a killed process had open.
Die(p) ==
  /\ pc' = [pc EXCEPT ![p] = "dead"]
  /\ holder' = Free(p)
  /\ term' = [term EXCEPT ![p] = FALSE]
  /\ UNCHANGED <<want, own, lockFile, control, ready, disabled, screen>>

Kill(p) == "kill" \in Env /\ Live(p) /\ Die(p)

\* A painter handles SIGTERM once its control file is open, the monitor
\* once it has found itself in charger mode: there it is a SystemExit.
Terminate(p) ==
  /\ "term" \in Env /\ Live(p)
  /\ \/ /\ p \in Writers /\ own[p] # "none"
        /\ term' = [term EXCEPT ![p] = TRUE]
        /\ UNCHANGED <<pc, want, own, files, screen>>
     \/ /\ p \in Monitors /\ pc[p] # "exec"
        /\ pc' = [pc EXCEPT ![p] = IF @ = "busy" THEN "busy" ELSE "quit"]
        /\ UNCHANGED <<want, own, term, files, screen>>
     \/ /\ ~(p \in Writers /\ own[p] # "none")
        /\ ~(p \in Monitors /\ pc[p] # "exec")
        /\ Die(p)

\* The desktop or a keyboard shortcut activates VT1.
SwitchAway ==
  /\ "switch" \in Env
  /\ vt' = 1
  /\ UNCHANGED <<local, files, mode2>>

\* Nothing runs, except a monitor whose VT_WAITACTIVE another terminal
\* has overtaken: the system may stay as it is.
Quiet ==
  /\ \A p \in Procs : Live(p) => p \in Monitors /\ pc[p] = "vtWait" /\ vt # 2
  /\ UNCHANGED vars

Next ==
  \/ \E p \in Askers : AskStep(p)
  \/ \E p \in Writers \cup Monitors : WriterStep(p) \/ Start(p) \/ Restart(p)
  \/ \E p \in Requesters, w \in {"stop", "details"} : Call(p, w)
  \/ \E p \in Procs : Kill(p) \/ Terminate(p)
  \/ SwitchAway
  \/ Quiet

\* The kernel schedules every process; nothing makes one start, and no
\* signal, failure or timeout need ever happen.
Fairness ==
  /\ \A p \in Askers : WF_vars(AskStep(p))
  /\ \A p \in Writers \cup Monitors : WF_vars(WriterStep(p))

Spec == Init /\ [][Next]_vars /\ Fairness

-----------------------------------------------------------------------------
(* Safety.                                                                 *)

\* Whoever composes a frame, painter or charging monitor, holds the lock
\* of .lock: the exclusion of boot_try_lock and of the monitor's lockf.
OneWriter == \A p \in Procs : pc[p] \in Painting => holder = p

\* .ready never lies: the process it names has painted and is still the
\* writer, or was killed before it could remove the file.  The splash
\* unit's start-up check and stage 1 rely on it.
ReadyNamesWriter ==
  \A p \in Procs : ready = p => pc[p] = "dead" \/ (holder = p /\ own[p] = "vt")

DetailsDone == \E r \in Requesters :
  want[r] = "details" /\ pc[r] \in {"shown", "stopped"}

\* Once --details has waited for the writer and succeeded, no painter and
\* no monitor takes the screen away from the text console again, however
\* early it had been started and whatever it had checked before.
VetoBinds == [][DetailsDone /\ vt # 2 => vt' # 2]_vars

\* A step that leaves the UI enabled brings no console up, and no text mode
\* but by a process that is about to disable it.
ConsoleHidden ==
  ~disabled' =>
    /\ vt = 2 => vt' # 3
    /\ mode2 = "graphics" =>
         mode2' = "graphics" \/ \E p \in Procs : pc'[p] \in Marking

\* While nobody asks for diagnostics and nothing fails, the console never
\* shows through: VT2 stays in graphics mode across every handoff.
NoConsoleFlash == [][ConsoleHidden]_vars

\* The files, the lock and the terminals together keep the contract of
\* ScreenContract: one owner, frames only from the owner, and none at all
\* after a granted --details.
somebodyPaints == \E p \in Procs : pc[p] \in Painting
granted == \E r \in Requesters : want[r] = "details" /\ pc[r] = "stopped"
Contract == INSTANCE ScreenContract
  WITH Owners <- Procs, NoOwner <- NoProc, owner <- holder,
       painting <- somebodyPaints, sealed <- granted
KeepsContract == Contract!ScreenSpec

-----------------------------------------------------------------------------
(* The inductive invariant behind the safety properties.                   *)

\* Where a process has the lock.
Holding == {"locked", "got", "shown"} \cup Starting \cup Painting

LockInv == \A p \in Procs :
  /\ pc[p] \in Holding => holder = p
  /\ own[p] # "none" /\ Live(p) => holder = p

OwnInv == \A p \in Procs :
  /\ pc[p] = "announce" => p \in Writers
  /\ pc[p] \in Asking \cup Locking => own[p] = "none"
  /\ own[p] # "none" => p \in Writers /\ pc[p] # "idle"
  /\ p \in Writers /\ pc[p] \in {"vtWait", "discover"} \cup Painting
       => own[p] = "vt"

ReadyInv == ready # NoProc =>
  /\ ready \in Writers
  /\ pc[ready] = "dead" \/ (holder = ready /\ own[ready] = "vt")

VetoInv == DetailsDone =>
  disabled /\ \A p \in Writers \cup Monitors : pc[p] \notin Starting \cup Painting

ShownInv == \A p \in Procs :
  /\ pc[p] \in {"revealVt", "failVt"} => disabled
  /\ pc[p] = "absent" /\ want[p] = "details" => disabled

\* The lock, the ready marker, the veto and what each process has to give back
\* fit together, whoever is killed, terminated or fails and whenever.
IInv == TypeOK /\ LockInv /\ OwnInv /\ ReadyInv /\ VetoInv /\ ShownInv

-----------------------------------------------------------------------------
(* Liveness.                                                               *)

\* No stop or details request waits for ever: it is answered, or given up
\* because the writer stalls.  In particular a starting painter that writes
\* "run" over it does not swallow it.
RequestsAnswered ==
  \A r \in Requesters : pc[r] = "try" ~> pc[r] \in {"stopped", "refused"}

\* Once diagnostics have been asked for, by Esc, a failure or --details,
\* and even when --details gave up waiting, the text console comes up and
\* stays.
DiagnosticsShown == <>disabled => <>[](vt = 3)

\* A --details that has reported success keeps the text console.
AcceptedDetailsStay == \A r \in Requesters :
  want[r] = "details" /\ pc[r] \in {"stopped", "unopposed"} ~> [](vt = 3)
=============================================================================
