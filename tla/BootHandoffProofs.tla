------------------------- MODULE BootHandoffProofs -------------------------
(***************************************************************************)
(* The painters of one boot, for every environment: who has the lock and   *)
(* what .ready says (Base: BootUi's invariant without its part on granted  *)
(* requests, since stage 1 runs the requesting program again, and with     *)
(* three parts more), and where the three painters are at each stage       *)
(* (StageInv).  The proofs about the stages use no more of a process's     *)
(* step than Moves says.                                                   *)
(***************************************************************************)
EXTENDS BootHandoff, BootUiProofs

USE KindsAssumption, RolesAssumption

-----------------------------------------------------------------------------
(* The protocol, at any stage.                                             *)

\* Where a writer has the lock.
Owning == {"locked"} \cup Starting \cup Painting

\* The lock file exists once somebody has locked it.
FileInv == \A p \in Writers : pc[p] \in Owning => lockFile

\* A painter of stage 1 retires nobody.
RoleInv == \A p \in Animators : pc[p] \notin Asking \cup {"load", "asked"}

\* A painter that has yet to take VT2 does not own it, and .ready names a
\* painter that has taken it, dead or alive.
FrameInv ==
  /\ \A p \in Writers :
       pc[p] \in {"announce", "fb", "assets", "recheck", "vt"} => own[p] # "vt"
  /\ ready # NoProc => own[ready] = "vt"

Extra == FileInv /\ RoleInv /\ FrameInv
Base == TypeOK /\ OwnInv /\ LockInv /\ ReadyInv /\ Extra

\* p composes no frame any more, or has not been started.
Gone(p) == pc[p] \in {"idle"} \cup Leaving \cup Final

\* p has not taken the lock, or only just, and will find the veto.
Barred(p) == disabled /\ pc[p] \in {"exec", "lock", "locked"}

\* Where a request knows that nobody is in its way, and where a --details
\* has not yet written its veto.
Told == {"vetoAbsent", "absent", "got", "shown", "stopped", "unopposed"}
Asked == {"open", "veto", "vetoAbsent"}

\* What a step of a process, or its death, may do to the painters, the
\* marker, the veto and the request.
Moves ==
  /\ \A p \in Writers :
       /\ pc[p] = "idle" => pc'[p] = "idle"
       /\ Gone(p) => Gone(p)'
       /\ pc[p] \notin Asking \cup Locking => pc'[p] \notin Asking \cup Locking
  /\ \A p \in Animators :
       /\ pc[p] \notin Unlocked => pc'[p] \notin Unlocked
       /\ Barred(p) => Gone(p)' \/ Barred(p)'
  /\ disabled => disabled'
  /\ want' = want
  /\ \/ ready' \in {NoProc, ready}
     \/ ready' \in Writers /\ pc[ready'] = "paint"
  /\ pc[Caller] \notin Told /\ pc'[Caller] \in Told
       => holder = NoProc \/ ~lockFile
  /\ want[Caller] = "details" /\ (pc[Caller] \in Asked \/ disabled)
       => pc'[Caller] \in Asked \/ disabled'

-----------------------------------------------------------------------------

\* A process's step keeps the three parts.
LEMMA ExtraStep == TypeOK /\ OwnInv /\ LockInv /\ Extra /\ ProcessStep => Extra'
<1> SUFFICES ASSUME TypeOK, OwnInv, LockInv, Extra, ProcessStep PROVE Extra'
  OBVIOUS
<1> USE DEF TypeOK, OwnInv, LockInv, Holding, Extra, FileInv, RoleInv,
  FrameInv, Owning, Goto, Live, local, files, screen, Pcs, Asking, Locking,
  Starting, Painting, Leaving, Marking, Final, Procs, Askers, Writers
<1>1. ASSUME NEW q \in Askers, OpenLock(q) PROVE Extra'
  BY <1>1 DEF OpenLock
<1>2. ASSUME NEW q \in Askers, WriteVeto(q) PROVE Extra'
  BY <1>2 DEF WriteVeto
<1>3. ASSUME NEW q \in Askers, NoLockFile(q) PROVE Extra'
  BY <1>3 DEF NoLockFile, Unopposed
<1>4. ASSUME NEW q \in Askers, WriteRequest(q) PROVE Extra'
  BY <1>4 DEF WriteRequest
<1>5. ASSUME NEW q \in Askers, TryLock(q) PROVE Extra'
  BY <1>5 DEF TryLock
<1>6. ASSUME NEW q \in Askers, Reassert(q) PROVE Extra'
  BY <1>6 DEF Reassert
<1>7. ASSUME NEW q \in Askers, GiveUp(q) PROVE Extra'
  BY <1>7 DEF GiveUp, Refused
<1>8. ASSUME NEW q \in Askers, Acknowledged(q) PROVE Extra'
  BY <1>8 DEF Acknowledged, Stopped
<1>9. ASSUME NEW q \in Askers, CloseLock(q) PROVE Extra'
  BY <1>9 DEF CloseLock
<1>10. ASSUME NEW q \in Writers, CheckVeto(q) PROVE Extra'
  <2>1. RoleInv'
    <3>1. q \in Animators => pc'[q] \in {"done", "lock"}
      BY <1>10 DEF CheckVeto
    <3>2. QED
      BY <1>10, <3>1 DEF CheckVeto
  <2>2. FileInv' /\ FrameInv'
    BY <1>10 DEF CheckVeto
  <2>3. QED
    BY <2>1, <2>2
<1>11. ASSUME NEW q \in Writers, Preload(q) PROVE Extra'
  BY <1>11 DEF Preload
<1>12. ASSUME NEW q \in Writers, CheckVetoAsked(q) PROVE Extra'
  BY <1>12 DEF CheckVetoAsked
<1>13. ASSUME NEW q \in Writers, TakeLock(q) PROVE Extra'
  BY <1>13 DEF TakeLock
<1>14. ASSUME NEW q \in Writers, CheckVetoLocked(q) PROVE Extra'
  BY <1>14 DEF CheckVetoLocked
<1>15. ASSUME NEW q \in Writers, Announce(q) PROVE Extra'
  BY <1>15 DEF Announce
<1>16. ASSUME NEW q \in Writers, AwaitFramebuffer(q) PROVE Extra'
  BY <1>16 DEF AwaitFramebuffer
<1>17. ASSUME NEW q \in Writers, LoadAssets(q) PROVE Extra'
  BY <1>17 DEF LoadAssets
<1>18. ASSUME NEW q \in Writers, CheckVetoLoaded(q) PROVE Extra'
  BY <1>18 DEF CheckVetoLoaded
<1>19. ASSUME NEW q \in Writers, TakeVt(q) PROVE Extra'
  BY <1>19 DEF TakeVt
<1>20. ASSUME NEW q \in Writers, AwaitVt(q) PROVE Extra'
  BY <1>20 DEF AwaitVt
<1>21. ASSUME NEW q \in Writers, Discover(q) PROVE Extra'
  BY <1>21 DEF Discover
<1>22. ASSUME NEW q \in Writers, Check(q) PROVE Extra'
  BY <1>22 DEF Check, AfterCheck
<1>23. ASSUME NEW q \in Writers, Escape(q) PROVE Extra'
  BY <1>23 DEF Escape
<1>24. ASSUME NEW q \in Writers, Paint(q) PROVE Extra'
  BY <1>24 DEF Paint
<1>25. ASSUME NEW q \in Writers, Restore(q) PROVE Extra'
  BY <1>25 DEF Restore
<1>25a. ASSUME NEW q \in Writers, Disable(q) PROVE Extra'
  BY <1>25a DEF Disable
<1>26. ASSUME NEW q \in Writers, Exit(q) PROVE Extra'
  BY <1>26 DEF Exit, Free, Forget
<1>27. ASSUME NEW q \in Writers, Kill(q) PROVE Extra'
  BY <1>27 DEF Kill, Die, Free
<1>28. QED
  BY <1>1, <1>2, <1>3, <1>4, <1>5, <1>6, <1>7, <1>8, <1>9, <1>10, <1>11,
       <1>12, <1>13, <1>14, <1>15, <1>16, <1>17, <1>18, <1>19, <1>20, <1>21,
       <1>22, <1>23, <1>24, <1>25, <1>25a, <1>26, <1>27
  DEF ProcessStep, AskStep, WriterStep

\* A process that dies makes no other kind of step.
LEMMA DeathMoves ==
  ASSUME TypeOK, NEW q \in Writers, Live(q), Die(q)
  PROVE  Moves
<1> USE DEF TypeOK, Die, Live, Asking, Locking, Starting, Painting, Leaving, Marking,
  Final, Pcs, Procs, Writers
<1>1. \A p \in Procs : pc'[p] = pc[p] \/ (p = q /\ pc'[p] = "dead")
  OBVIOUS
<1>2. disabled' = disabled /\ want' = want /\ ready' = ready
  OBVIOUS
<1>3. pc'[Caller] = pc[Caller]
  BY <1>1
<1>4. QED
  BY <1>1, <1>2, <1>3 DEF Moves, Gone, Barred, Told, Asked, Unlocked

\* No process does more than Moves says.
LEMMA ProcessMoves == TypeOK /\ Extra /\ ProcessStep => Moves
<1> SUFFICES ASSUME TypeOK, Extra, ProcessStep PROVE Moves
  OBVIOUS
<1> USE DEF TypeOK, Extra, RoleInv, Moves, Gone, Barred, Told, Asked,
  Unlocked, Goto, Live, local, files, screen, Pcs, Asking, Locking, Starting,
  Painting, Leaving, Marking, Final, Procs, Askers, Writers
<1>1. ASSUME NEW q \in Askers, OpenLock(q) PROVE Moves
  BY <1>1 DEF OpenLock
<1>2. ASSUME NEW q \in Askers, WriteVeto(q) PROVE Moves
  BY <1>2 DEF WriteVeto
<1>3. ASSUME NEW q \in Askers, NoLockFile(q) PROVE Moves
  BY <1>3 DEF NoLockFile, Unopposed
<1>4. ASSUME NEW q \in Askers, WriteRequest(q) PROVE Moves
  BY <1>4 DEF WriteRequest
<1>5. ASSUME NEW q \in Askers, TryLock(q) PROVE Moves
  BY <1>5 DEF TryLock
<1>6. ASSUME NEW q \in Askers, Reassert(q) PROVE Moves
  BY <1>6 DEF Reassert
<1>7. ASSUME NEW q \in Askers, GiveUp(q) PROVE Moves
  BY <1>7 DEF GiveUp, Refused
<1>8. ASSUME NEW q \in Askers, Acknowledged(q) PROVE Moves
  BY <1>8 DEF Acknowledged, Stopped
<1>9. ASSUME NEW q \in Askers, CloseLock(q) PROVE Moves
  BY <1>9 DEF CloseLock
<1>10. ASSUME NEW q \in Writers, CheckVeto(q) PROVE Moves
  BY <1>10 DEF CheckVeto
<1>11. ASSUME NEW q \in Writers, Preload(q) PROVE Moves
  BY <1>11 DEF Preload
<1>12. ASSUME NEW q \in Writers, CheckVetoAsked(q) PROVE Moves
  BY <1>12 DEF CheckVetoAsked
<1>13. ASSUME NEW q \in Writers, TakeLock(q) PROVE Moves
  BY <1>13 DEF TakeLock
<1>14. ASSUME NEW q \in Writers, CheckVetoLocked(q) PROVE Moves
  BY <1>14 DEF CheckVetoLocked
<1>15. ASSUME NEW q \in Writers, Announce(q) PROVE Moves
  BY <1>15 DEF Announce
<1>16. ASSUME NEW q \in Writers, AwaitFramebuffer(q) PROVE Moves
  BY <1>16 DEF AwaitFramebuffer
<1>17. ASSUME NEW q \in Writers, LoadAssets(q) PROVE Moves
  BY <1>17 DEF LoadAssets
<1>18. ASSUME NEW q \in Writers, CheckVetoLoaded(q) PROVE Moves
  BY <1>18 DEF CheckVetoLoaded
<1>19. ASSUME NEW q \in Writers, TakeVt(q) PROVE Moves
  BY <1>19 DEF TakeVt
<1>20. ASSUME NEW q \in Writers, AwaitVt(q) PROVE Moves
  BY <1>20 DEF AwaitVt
<1>21. ASSUME NEW q \in Writers, Discover(q) PROVE Moves
  BY <1>21 DEF Discover
<1>22. ASSUME NEW q \in Writers, Check(q) PROVE Moves
  BY <1>22 DEF Check, AfterCheck
<1>23. ASSUME NEW q \in Writers, Escape(q) PROVE Moves
  BY <1>23 DEF Escape
<1>24. ASSUME NEW q \in Writers, Paint(q) PROVE Moves
  BY <1>24 DEF Paint
<1>25. ASSUME NEW q \in Writers, Restore(q) PROVE Moves
  BY <1>25 DEF Restore
<1>25a. ASSUME NEW q \in Writers, Disable(q) PROVE Moves
  BY <1>25a DEF Disable
<1>26. ASSUME NEW q \in Writers, Exit(q) PROVE Moves
  BY <1>26 DEF Exit, Free, Forget
<1>27. ASSUME NEW q \in Writers, Kill(q) PROVE Moves
  <2>1. q \in Procs /\ Live(q) /\ Die(q)
    BY <1>27 DEF Kill
  <2>2. QED
    BY <2>1, DeathMoves
<1>28. QED
  BY <1>1, <1>2, <1>3, <1>4, <1>5, <1>6, <1>7, <1>8, <1>9, <1>10, <1>11,
       <1>12, <1>13, <1>14, <1>15, <1>16, <1>17, <1>18, <1>19, <1>20, <1>21,
       <1>22, <1>23, <1>24, <1>25, <1>25a, <1>26, <1>27
  DEF ProcessStep, AskStep, WriterStep

\* A step of a process is a step of BootUi.
LEMMA ProcessBase == Base /\ ProcessStep => Base'
<1> SUFFICES ASSUME Base, ProcessStep PROVE Base'
  OBVIOUS
<1>1. [Next]_vars
  BY DEF ProcessStep, Next, Procs
<1>2. TypeOK' /\ OwnInv' /\ LockInv' /\ ReadyInv'
  BY <1>1, TypeStep, OwnStep, LockStep, ReadyStep DEF Base
<1>3. QED
  BY <1>2, ExtraStep DEF Base

\* What stays as it is keeps the base.
LEMMA SameBase == Base /\ UNCHANGED vars => Base'
<1> USE DEF Base, Extra, vars, local, files, screen
<1>1. ASSUME Base, UNCHANGED vars
      PROVE  TypeOK' /\ OwnInv' /\ LockInv' /\ ReadyInv'
  BY <1>1, TypeStep, OwnStep, LockStep, ReadyStep
<1>2. ASSUME Base, UNCHANGED vars PROVE Extra'
  BY <1>2 DEF FileInv, RoleInv, FrameInv
<1>3. QED
  BY <1>1, <1>2

\* So does starting a painter.
LEMMA StartBase == ASSUME Base, NEW p \in Writers, Start(p) PROVE Base'
<1>1. [Next]_vars
  BY DEF Next
<1>2. TypeOK' /\ OwnInv' /\ LockInv' /\ ReadyInv'
  BY <1>1, TypeStep, OwnStep, LockStep, ReadyStep DEF Base
<1>3. Extra'
  BY DEF Base, Extra, FileInv, RoleInv, FrameInv, Owning, TypeOK, Start, Goto,
     files, Starting, Painting, Asking, Procs, Writers
<1>4. QED
  BY <1>2, <1>3 DEF Base

\* So does asking for the details.
LEMMA CallBase == ASSUME Base, Call(Details, "details") PROVE Base'
<1>1. [Next]_vars
  BY DEF Next
<1>2. TypeOK' /\ OwnInv' /\ LockInv' /\ ReadyInv'
  BY <1>1, TypeStep, OwnStep, LockStep, ReadyStep DEF Base
<1>3. Extra'
  BY DEF Base, Extra, FileInv, RoleInv, FrameInv, Owning, TypeOK, Call, Goto,
     files, Starting, Painting, Asking, Procs, Writers
<1>4. QED
  BY <1>2, <1>3 DEF Base

\* So does the next run of the requesting program.
LEMMA RunBase ==
  ASSUME Base, NEW w \in {"stop", "details"}, Run(w)
  PROVE  Base'
<1> USE DEF Base, Extra
<1>1. TypeOK'
  BY DEF TypeOK, Run, files, screen, Procs, Pcs, Asking
<1>2. /\ \A p \in Procs : pc'[p] = IF p = Caller THEN "open" ELSE pc[p]
      /\ UNCHANGED <<own, term, lockFile, holder, control, ready, disabled>>
      /\ Caller \in Procs \ Writers /\ Writers \subseteq Procs
  BY DEF TypeOK, Run, files, Procs, Writers
<1>3. own[Caller] = "none"
  BY <1>2 DEF OwnInv
<1>4. OwnInv'
  BY <1>2, <1>3 DEF OwnInv, Asking, Locking, Painting
<1>5. LockInv'
  BY <1>2, <1>3 DEF LockInv, Holding, Live, Starting, Painting
<1>6. ReadyInv'
  BY <1>2 DEF ReadyInv
<1>7. Extra'
  BY <1>2 DEF FileInv, RoleInv, FrameInv, Owning, Writers
<1>8. QED
  BY <1>1, <1>4, <1>5, <1>6, <1>7

\* So does the death of a painter, whoever kills it.
LEMMA DeathBase ==
  ASSUME Base, NEW p \in Writers, Live(p), Die(p)
  PROVE  Base'
<1> USE DEF Base, Extra, TypeOK, Die, Free, screen, Procs, Writers, Pcs, Final
<1>1. TypeOK'
  OBVIOUS
<1>2. OwnInv' /\ LockInv' /\ ReadyInv'
  BY DEF OwnInv, LockInv, ReadyInv, Holding, Live, Asking, Starting, Painting,
     Locking
<1>3. Extra'
  BY DEF FileInv, RoleInv, FrameInv, Owning, Asking, Starting, Painting
<1>4. QED
  BY <1>1, <1>2, <1>3

\* So does the start of Again, which finds no ready marker.
LEMMA BeginBase == ASSUME Base, Begin PROVE Base'
<1>1. CASE disabled
  BY <1>1, SameBase DEF Begin, vars
<1>2. CASE ~disabled
  <2> USE <1>2 DEF Begin, Goto, Base, Extra, TypeOK, screen, Procs, Writers,
    Pcs, Locking
  <2>1. TypeOK'
    OBVIOUS
  <2>2. OwnInv' /\ LockInv' /\ ReadyInv'
    BY DEF OwnInv, LockInv, ReadyInv, Holding, Live, Asking, Starting,
       Painting, Final
  <2>3. Extra'
    BY DEF FileInv, RoleInv, FrameInv, Owning, Asking, Starting, Painting
  <2>4. QED
    BY <2>1, <2>2, <2>3
<1>3. QED
  BY <1>1, <1>2

\* So does the start of --details with the death of Again.
LEMMA BlameBase == ASSUME Base, Blame PROVE Base'
<1> USE DEF Base, Extra
<1>1. TypeOK'
  BY DEF Blame, TypeOK, Free, screen, Procs, Writers, Pcs, Asking, Final
<1>2. /\ Caller \in Procs \ Writers
      /\ Again \in Writers /\ Writers \subseteq Procs
      /\ own[Caller] = "none"
  BY DEF Procs, Writers, OwnInv
<1>3. /\ \A p \in Procs :
           \/ pc'[p] = pc[p]
           \/ p = Caller /\ pc'[p] = "open"
           \/ p = Again /\ pc'[p] = "dead" /\ holder' = Free(Again)
      /\ holder' = holder \/ (pc'[Again] = "dead" /\ holder = Again)
      /\ UNCHANGED <<own, lockFile, ready>>
  BY <1>2 DEF TypeOK, Blame, Free
<1>4. OwnInv'
  BY <1>2, <1>3 DEF OwnInv, Asking, Locking, Painting
<1>5. LockInv'
  BY <1>2, <1>3 DEF LockInv, Holding, Live, Starting, Painting, Final
<1>6. ReadyInv'
  BY <1>2, <1>3 DEF ReadyInv
<1>7. Extra'
  BY <1>2, <1>3 DEF FileInv, RoleInv, FrameInv, Owning, Starting, Painting,
     Writers, Asking
<1>8. QED
  BY <1>1, <1>4, <1>5, <1>6, <1>7

\* So does terminating the splash unit.
LEMMA UnitFailsBase == ASSUME Base, UnitFails PROVE Base'
<1>1. CASE ~Live(Splash)
  BY <1>1, SameBase DEF UnitFails
<1>2. CASE Live(Splash) /\ own[Splash] = "none"
  BY <1>2, DeathBase DEF UnitFails, Writers
<1>3. CASE Live(Splash) /\ own[Splash] # "none"
  <2>0. /\ term' = [term EXCEPT ![Splash] = TRUE]
        /\ UNCHANGED <<pc, want, own, files, screen>>
    BY <1>3 DEF UnitFails
  <2>1. term' \in [Procs -> BOOLEAN]
    <3>1. term \in [Procs -> BOOLEAN]
      BY DEF Base, TypeOK
    <3>2. [term EXCEPT ![Splash] = TRUE] \in [Procs -> BOOLEAN]
      BY <3>1
    <3>3. QED
      BY <2>0, <3>2, Zenon
  <2>2. TypeOK'
    BY <2>0, <2>1 DEF Base, TypeOK, files, screen
  <2>3. OwnInv' /\ LockInv' /\ ReadyInv' /\ Extra'
    BY <2>0 DEF Base, OwnInv, LockInv, ReadyInv, Live, Extra, FileInv, RoleInv,
       FrameInv, files
  <2>4. QED
    BY <2>2, <2>3 DEF Base
<1>4. QED
  BY <1>1, <1>2, <1>3

\* So does the compositor.
LEMMA CompositorBase == ASSUME Base, StartCompositor PROVE Base'
  BY DEF Base, StartCompositor, TypeOK, OwnInv, LockInv, ReadyInv, Live, Extra,
     FileInv, RoleInv, FrameInv, local, files

\* Every step of the boot keeps the base.
LEMMA BaseStep == Base /\ [HNext]_hvars => Base'
<1> SUFFICES ASSUME Base, [HNext]_hvars PROVE Base'
  OBVIOUS
<1> USE DEF vars
<1>1. CASE RunSplash
  BY <1>1, StartBase, SameBase DEF RunSplash, Writers
<1>2. CASE RetireSplash
  BY <1>2, RunBase DEF RetireSplash
<1>3. CASE LeaveRetire
  BY <1>3, DeathBase, SameBase DEF LeaveRetire, Rescue, Writers
<1>4. CASE PickGeneration
  BY <1>4, SameBase DEF PickGeneration
<1>5. CASE SeeReady
  BY <1>5, SameBase DEF SeeReady
<1>6. CASE AwaitTimesOut
  BY <1>6, RunBase DEF AwaitTimesOut
<1>7. CASE LeaveBlame
  BY <1>7, SameBase DEF LeaveBlame
<1>8. CASE StartUnit
  BY <1>8, StartBase, SameBase DEF StartUnit, Writers
<1>9. CASE UnitReady
  BY <1>9, SameBase DEF UnitReady
<1>10. CASE UnitStopped
  BY <1>10, SameBase DEF UnitStopped
<1>11. CASE PreStart
  BY <1>11, RunBase DEF PreStart
<1>12. CASE UnitKilled
  BY <1>12, DeathBase DEF UnitKilled, Writers
<1>13. CASE UnitCrashes
  BY <1>13, SameBase DEF UnitCrashes
<1>14. CASE OnFailure
  BY <1>14, CallBase DEF OnFailure
<1>15. CASE ProcessStep
  BY <1>15, ProcessBase
<1>16. CASE UNCHANGED vars
  BY <1>16, SameBase
<1>17. QED
  BY <1>1, <1>2, <1>3, <1>4, <1>5, <1>6, <1>7, <1>8, <1>9, <1>10, <1>11,
     <1>12, <1>13, <1>14, <1>15, <1>16, BeginBase, BlameBase, UnitFailsBase,
     CompositorBase
  DEF HNext, BootStep, Quiet, hvars

\* It holds before the boot.
LEMMA BaseInit == HInit => Base
<1> SUFFICES ASSUME HInit PROVE Base
  OBVIOUS
<1>1. IInv
  BY InitIInv DEF HInit
<1>2. Extra
  BY DEF HInit, Init, Extra, FileInv, RoleInv, FrameInv, Owning, Starting,
     Painting, Asking, Procs, Writers
<1>3. QED
  BY <1>1, <1>2 DEF IInv, Base

\* Hence it always holds.
LEMMA BaseAlways == HSpec => []Base
  BY BaseInit, BaseStep, PTL DEF HSpec

-----------------------------------------------------------------------------
(* Where the painters are at each stage of the boot, when the painter of   *)
(* the first splash has taken the lock before the other tasks end.         *)

Early == {"splash", "tasks", "retire", "menu", "begin"}
Late == {"dm", "preStart", "desktop"}

\* Nobody has been started before his time.
NotYet ==
  /\ stage \in Early => pc[Again] = "idle"
  /\ stage \in Early \cup {"await", "giveUp", "blame", "switched"}
       => pc[Splash] = "idle"

\* The first painter is past taking the lock when it is stopped, and gone
\* once its stop has been answered.
Retired ==
  /\ stage \notin {"splash", "tasks"} => pc[Prepare] \notin Unlocked
  /\ stage = "retire" /\ pc[Caller] \in Told => Gone(Prepare)
  /\ stage \notin {"splash", "tasks", "retire"} => Gone(Prepare)

\* The second has taken the lock at switch_root, or will find the veto.
Relieved ==
  /\ stage = "await" => ready \in {NoProc, Again}
  /\ stage = "blame" => /\ want[Caller] = "details"
                        /\ pc[Caller] \in Asked \/ disabled
  /\ stage \in {"switched", "startPost", "stopping"} \cup Late
       => disabled \/ pc[Again] \notin Unlocked

\* The third is past taking it when the display manager starts, and then
\* an answered stop leaves nobody who could paint.
Cleared ==
  /\ stage \in Late => pc[Splash] \notin Asking \cup Locking
  /\ stage \in {"preStart", "desktop"} /\ pc[Caller] \in Told
       => \A p \in Writers : Gone(p) \/ Barred(p)

StageInv == NotYet /\ Retired /\ Relieved /\ Cleared

\* While the lock is free or has never been created nobody is beyond it.
LEMMA Vacant ==
  ASSUME Base, holder = NoProc \/ ~lockFile, NEW p \in Writers
  PROVE  pc[p] \notin Owning
  BY DEF Base, LockInv, Extra, FileInv, Holding, Owning, Procs, Writers

\* A painter of stage 1 that is not beyond the lock has not taken it yet or
\* is through with it.
LEMMA AnimatorPlaces ==
  ASSUME Base, NEW p \in Animators, pc[p] \notin Owning
  PROVE  Gone(p) \/ pc[p] \in {"exec", "lock"}
  BY DEF Base, TypeOK, Extra, RoleInv, Owning, Gone, Pcs, Asking, Locking,
     Starting, Painting, Leaving, Marking, Final, Procs, Writers

\* So is the handoff painter.
LEMMA HandoffPlaces ==
  ASSUME Base, pc[Splash] \notin Owning, pc[Splash] \notin Asking \cup Locking
  PROVE  Gone(Splash)
  BY DEF Base, TypeOK, Owning, Gone, Pcs, Starting, Painting, Locking, Procs,
     Writers

\* Processes keep the stage's invariant, whoever runs.
LEMMA ProcessStage == Base /\ StageInv /\ ProcessStep => StageInv'
<1> SUFFICES ASSUME Base, StageInv, ProcessStep PROVE StageInv'
  OBVIOUS
<1>0. Moves /\ stage' = stage
  BY ProcessMoves DEF Base, ProcessStep
<1>w. Prepare \in Writers /\ Again \in Writers /\ Splash \in Writers
      /\ Prepare \in Animators /\ Again \in Animators
  BY DEF Writers
<1>1. NotYet'
  BY <1>0, <1>w DEF StageInv, NotYet, Moves, Early
<1>2. Retired'
  <2>1. pc[Prepare] \notin Unlocked => pc'[Prepare] \notin Unlocked
    BY <1>0, <1>w DEF Moves
  <2>2. Gone(Prepare) => Gone(Prepare)'
    BY <1>0, <1>w DEF Moves
  <2>3. ASSUME stage = "retire", pc'[Caller] \in Told PROVE Gone(Prepare)'
    <3>1. CASE pc[Caller] \in Told
      BY <3>1, <2>2, <2>3 DEF StageInv, Retired
    <3>2. CASE pc[Caller] \notin Told
      <4>1. pc[Prepare] \notin Owning
        BY <1>0, <1>w, <2>3, <3>2, Vacant DEF Moves
      <4>2. QED
        BY <1>w, <2>2, <2>3, <4>1, AnimatorPlaces
        DEF StageInv, Retired, Unlocked
    <3>3. QED
      BY <3>1, <3>2
  <2>4. QED
    BY <1>0, <2>1, <2>2, <2>3 DEF StageInv, Retired, Told
<1>3. Relieved'
  <2>1. ASSUME stage = "await" PROVE ready' \in {NoProc, Again}
    <3>1. pc[Splash] = "idle" /\ Gone(Prepare)
      BY <2>1 DEF StageInv, NotYet, Retired
    <3>2. QED
      BY <1>0, <2>1, <3>1
      DEF StageInv, Relieved, Moves, Gone, Leaving, Marking, Final, Writers
  <2>2. ASSUME stage = "blame"
        PROVE  want'[Caller] = "details" /\ (pc'[Caller] \in Asked \/ disabled')
    BY <1>0, <2>2 DEF StageInv, Relieved, Moves
  <2>3. disabled \/ pc[Again] \notin Unlocked
           => disabled' \/ pc'[Again] \notin Unlocked
    BY <1>0, <1>w DEF Moves
  <2>4. QED
    BY <1>0, <2>1, <2>2, <2>3 DEF StageInv, Relieved, Asked
<1>4. Cleared'
  <2>1. pc[Splash] \notin Asking \cup Locking
           => pc'[Splash] \notin Asking \cup Locking
    BY <1>0, <1>w DEF Moves
  <2>2. ASSUME stage \in {"preStart", "desktop"}, pc'[Caller] \in Told,
               NEW p \in Writers
        PROVE  (Gone(p) \/ Barred(p))'
    <3>1. pc[Splash] \notin Asking \cup Locking
      BY <2>2 DEF StageInv, Cleared, Late
    <3>2. Gone(p) \/ Barred(p)
      <4>1. CASE pc[Caller] \in Told
        BY <2>2, <4>1 DEF StageInv, Cleared
      <4>2. CASE pc[Caller] \notin Told
        <5>1. pc[p] \notin Owning
          BY <1>0, <2>2, <4>2, Vacant DEF Moves
        <5>2. CASE p = Splash
          BY <3>1, <5>1, <5>2, HandoffPlaces
        <5>3. CASE p = Prepare
          BY <2>2, <5>3 DEF StageInv, Retired
        <5>4. CASE p = Again
          BY <1>w, <2>2, <5>1, <5>4, AnimatorPlaces
          DEF StageInv, Relieved, Barred, Late, Unlocked
        <5>5. QED
          BY <5>2, <5>3, <5>4 DEF Writers
      <4>3. QED
        BY <4>1, <4>2
    <3>3. CASE p = Splash
      <4>1. Gone(p)
        BY <3>1, <3>2, <3>3 DEF Barred, Locking
      <4>2. QED
        BY <1>0, <4>1 DEF Moves
    <3>4. CASE p \in Animators
      BY <1>0, <3>2, <3>4, <2>2 DEF Moves
    <3>5. QED
      BY <3>3, <3>4 DEF Writers
  <2>3. QED
    BY <1>0, <2>1, <2>2 DEF StageInv, Cleared, Late, Told
<1>5. QED
  BY <1>1, <1>2, <1>3, <1>4 DEF StageInv

\* Nor does anything else change it that leaves the processes, the marker
\* and the veto alone.
LEMMA SameStage ==
  ASSUME StageInv, UNCHANGED <<pc, want, ready, disabled, stage>>
  PROVE  StageInv'
  BY DEF StageInv, NotYet, Retired, Relieved, Cleared, Gone, Barred

\* The marker that ends the wait for the second painter is its own.
LEMMA SeenReady ==
  ASSUME Base, StageInv, stage = "await", ready # NoProc
  PROVE  ready = Again /\ pc[Again] \notin Locking \cup Asking
<1>1. ready = Again
  BY DEF StageInv, Relieved
<1>2. own[Again] = "vt" /\ Again \in Procs
  BY <1>1 DEF Base, Extra, FrameInv, Procs, Writers
<1>3. QED
  BY <1>1, <1>2 DEF Base, OwnInv

\* The boot's own steps, one by one: each reaches a stage whose invariant
\* the stage before has prepared.
LEMMA BootStage ==
  ASSUME Base, StageInv, PromptStart, BootStep
  PROVE  StageInv'
<1> USE DEF At, StageInv, NotYet, Retired, Relieved, Cleared, Early, Late
<1>0. /\ {Prepare, Again, Splash, Caller} \subseteq Procs
      /\ Prepare # Again /\ Prepare # Splash /\ Again # Splash
      /\ Caller \notin {Prepare, Again, Splash}
      /\ \A p \in Writers : p \in {Prepare, Again, Splash}
      /\ pc \in [Procs -> Pcs] /\ want \in [Procs -> {"stop", "details"}]
  BY DEF Procs, Writers, Base, TypeOK
<1>1. CASE RunSplash
  BY <1>0, <1>1 DEF RunSplash, Start, Goto, vars, local, files
<1>2. CASE RetireSplash
  BY <1>0, <1>2 DEF RetireSplash, Run, files, Told
<1>3. CASE LeaveRetire
  <2>1. Gone(Prepare)'
    <3>1. CASE Acknowledging
      BY <1>3, <3>1
      DEF LeaveRetire, Acknowledging, Told, Rescue, vars, local, Gone
    <3>2. CASE ~Acknowledging /\ ~Live(Prepare)
      BY <1>0, <1>3, <3>2
      DEF LeaveRetire, Rescue, Live, vars, local, Gone
    <3>3. CASE ~Acknowledging /\ Live(Prepare)
      BY <1>0, <1>3, <3>3 DEF LeaveRetire, Rescue, Die, Gone, Final
    <3>4. QED
      BY <3>1, <3>2, <3>3
  <2>2. pc'[Again] = pc[Again] /\ pc'[Splash] = pc[Splash]
    BY <1>0, <1>3 DEF LeaveRetire, Rescue, Die, vars, local
  <2>3. QED
    BY <1>3, <2>1, <2>2 DEF LeaveRetire, Gone, Unlocked, Leaving, Marking, Final
<1>4. CASE PickGeneration
  BY <1>4 DEF PickGeneration, vars, local, files, Gone, Barred
<1>5. CASE Begin
  BY <1>0, <1>5 DEF Begin, Goto, vars, local, files, Gone
<1>6. CASE SeeReady
  BY <1>6, SeenReady DEF SeeReady, vars, local, files, Gone, Locking, Unlocked
<1>7. CASE AwaitTimesOut
  BY <1>0, <1>7 DEF AwaitTimesOut, Run, files, Gone
<1>8. CASE Blame
  BY <1>0, <1>8 DEF Blame, Gone, Asked
<1>9. CASE LeaveBlame
  BY <1>9 DEF LeaveBlame, Returned, Asked, vars, local, files, Gone
<1>10. CASE StartUnit
  BY <1>0, <1>10
  DEF StartUnit, Start, Goto, vars, local, files, Gone, Asking, Locking
<1>11. CASE UnitReady
  <2>1. own[Splash] = "vt"
    BY <1>0, <1>11 DEF UnitReady, Base, Extra, FrameInv
  <2>2. pc[Splash] \notin Asking \cup Locking
    BY <1>0, <2>1 DEF Base, OwnInv
  <2>3. QED
    BY <1>11, <2>2 DEF UnitReady, vars, local, files, Gone
<1>12. CASE UnitFails
  BY <1>0, <1>12 DEF UnitFails, Die, vars, local, files, Gone
<1>13. CASE UnitStopped
  BY <1>13
  DEF UnitStopped, Live, vars, local, files, Gone, Asking, Locking, Final
<1>14. CASE PreStart
  BY <1>0, <1>14 DEF PreStart, Run, files, Gone, Told
<1>15. CASE StartCompositor
  BY <1>15 DEF StartCompositor, local, files, Gone, Barred
<1>16. QED
  BY <1>1, <1>2, <1>3, <1>4, <1>5, <1>6, <1>7, <1>8, <1>9, <1>10, <1>11,
     <1>12, <1>13, <1>14, <1>15
  DEF BootStep

\* So does every step of the boot.
LEMMA StageStep ==
  PromptStart /\ Base /\ StageInv /\ [HNext]_hvars => StageInv'
<1> SUFFICES ASSUME PromptStart, Base, StageInv, [HNext]_hvars PROVE StageInv'
  OBVIOUS
<1>1. CASE BootStep
  BY <1>1, BootStage
<1>2. CASE ProcessStep
  BY <1>2, ProcessStage
<1>3. CASE UnitKilled
  <2>1. Moves /\ stage' = stage /\ stage = "stopping"
    BY <1>3, DeathMoves DEF UnitKilled, Base, Writers
  <2>2. /\ \A p \in {Prepare, Again, Caller} : pc'[p] = pc[p]
        /\ UNCHANGED <<want, disabled>>
    BY <1>3 DEF UnitKilled, Die, Base, TypeOK, Procs, Writers
  <2>3. QED
    BY <2>1, <2>2
    DEF StageInv, NotYet, Retired, Relieved, Cleared, Early, Late, Gone
<1>4. CASE OnFailure
  <2>1. /\ \A p \in {Prepare, Again, Splash, Caller} :
             pc'[p] = pc[p] /\ want'[p] = want[p]
        /\ UNCHANGED <<ready, disabled, stage>>
    BY <1>4
    DEF OnFailure, Call, Goto, files, Base, TypeOK, Procs, Writers
  <2>2. QED
    BY <2>1
    DEF StageInv, NotYet, Retired, Relieved, Cleared, Gone, Barred, Writers
<1>5. CASE \/ UnitCrashes
           \/ stage = "desktop" /\ Quiet /\ UNCHANGED <<stage, unit>>
           \/ UNCHANGED hvars
  BY <1>5, SameStage DEF UnitCrashes, Quiet, hvars, vars, local, files
<1>6. QED
  BY <1>1, <1>2, <1>3, <1>4, <1>5 DEF HNext

\* At the first splash nobody runs.
LEMMA StageInit == HInit => StageInv
  BY DEF HInit, Init, StageInv, NotYet, Retired, Relieved, Cleared, Early, Late,
     Procs, Writers

\* Hence the painters are always where their stage wants them.
LEMMA StageAlways == ASSUME PromptStart PROVE HSpec => []StageInv
<1>1. Base /\ StageInv /\ [HNext]_hvars => StageInv'
  BY StageStep
<1>2. QED
  BY <1>1, StageInit, BaseAlways, PTL DEF HSpec

-----------------------------------------------------------------------------

\* The control protocol keeps its lock through the whole boot too, although
\* stage 1 reuses its requests and systemd kills and restarts what it likes:
\* whoever composes a frame holds the lock (OneWriter), and .ready names a
\* painter that has drawn (ReadyNamesWriter).
THEOREM BootKeepsLock == HSpec => [](OneWriter /\ ReadyNamesWriter)
<1>1. Base => OneWriter /\ ReadyNamesWriter
  BY DEF Base, LockInv, Holding, OneWriter, ReadyInv, ReadyNamesWriter
<1>2. QED
  BY <1>1, BaseAlways, PTL

\* While the generation menu is shown, the painter that was stopped for it
\* composes no frame, and no other has been started.
THEOREM MenuHolds == ASSUME PromptStart PROVE HSpec => []MenuUndisturbed
<1>1. Base /\ StageInv => MenuUndisturbed
  <2> SUFFICES ASSUME Base, StageInv, stage = "menu", NEW p \in Writers
               PROVE  pc[p] \notin Painting
    BY DEF MenuUndisturbed
  <2>1. Gone(Prepare) /\ pc[Again] = "idle" /\ pc[Splash] = "idle"
    BY DEF StageInv, NotYet, Retired, Early
  <2>2. QED
    BY <2>1 DEF Gone, Leaving, Marking, Final, Painting, Writers
<1>2. QED
  BY <1>1, BaseAlways, StageAlways, PTL

\* Once a stop has been acknowledged and the compositor has VT1, no painter
\* composes a frame: the first two are through or will find the veto, and
\* the handoff painter never got by the lock.
THEOREM DesktopHolds == ASSUME PromptStart PROVE HSpec => []DesktopUndisturbed
<1>1. StageInv => DesktopUndisturbed
  BY DEF StageInv, Cleared, DesktopUndisturbed, Acknowledging, Told, Gone,
     Barred, Leaving, Marking, Final, Painting
<1>2. QED
  BY <1>1, StageAlways, PTL

\* systemd takes the splash unit for started only after its own process has
\* painted a frame, whatever other painters have left in .ready.
THEOREM UnitStartHolds == HSpec => UnitStartedByOwnFrame
<1>1. Base /\ [HNext]_hvars
        => [unit = "starting" /\ unit' = "active" => own[Splash] = "vt"]_hvars
  <2> SUFFICES ASSUME Base, HNext, unit = "starting", unit' = "active"
               PROVE  own[Splash] = "vt"
    OBVIOUS
  <2>1. UnitReady
    BY DEF HNext, BootStep, RunSplash, RetireSplash, LeaveRetire,
       PickGeneration, Begin, SeeReady, AwaitTimesOut, Blame, LeaveBlame,
       StartUnit, UnitFails, UnitStopped, PreStart, StartCompositor,
       UnitKilled, UnitCrashes, OnFailure, ProcessStep
  <2>2. ready = Splash /\ Splash \in Procs
    BY <2>1 DEF UnitReady, Procs, Writers
  <2>3. QED
    BY <2>2 DEF Base, Extra, FrameInv
<1>2. QED
  BY <1>1, BaseAlways, PTL DEF HSpec, UnitStartedByOwnFrame

\* switch_root finds no painter of stage 1 between the lock and its assets,
\* unless the boot UI has been disabled.
THEOREM SwitchHolds == ASSUME PromptStart PROVE HSpec => SwitchedWithOpenAssets
<1> DEFINE Opened == \A p \in Animators :
    disabled \/ pc[p] \notin {"lock", "locked", "announce", "fb", "assets"}
<1>1. Base /\ StageInv /\ [HNext]_hvars
        => [stage' = "switched" /\ stage # "switched" => Opened]_hvars
  <2> SUFFICES ASSUME Base, StageInv, HNext, stage' = "switched",
                      stage # "switched"
               PROVE  Opened
    OBVIOUS
  <2>1. SeeReady \/ LeaveBlame \/ (Begin /\ disabled)
    BY DEF At, HNext, BootStep, RunSplash, RetireSplash, LeaveRetire,
       PickGeneration, Begin, AwaitTimesOut, Blame, StartUnit, UnitReady,
       UnitFails, UnitStopped, PreStart, StartCompositor, UnitKilled,
       UnitCrashes, OnFailure, ProcessStep
  <2>2. CASE SeeReady
    <3>1. Gone(Prepare)
      BY <2>2 DEF SeeReady, At, StageInv, Retired
    <3>2. ready = Again /\ Again \in Writers /\ own[Again] = "vt"
      BY <2>2, SeenReady
      DEF SeeReady, At, Base, Extra, FrameInv, Procs, Writers
    <3>3. pc[Again] \notin {"lock", "locked", "announce", "fb", "assets"}
      BY <3>2 DEF Base, Extra, FrameInv, OwnInv, Locking, Procs
    <3>4. QED
      BY <3>1, <3>3 DEF Gone, Leaving, Marking, Final
  <2>3. CASE LeaveBlame
    BY <2>3 DEF LeaveBlame, At, Returned, StageInv, Relieved, Asked
  <2>4. QED
    BY <2>1, <2>2, <2>3
<1>2. QED
  BY <1>1, BaseAlways, StageAlways, PTL DEF HSpec, SwitchedWithOpenAssets
=============================================================================
