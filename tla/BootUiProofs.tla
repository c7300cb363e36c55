---------------------------- MODULE BootUiProofs ----------------------------
(***************************************************************************)
(* BootUi's safety properties for every set of painters, monitors and      *)
(* requests and every environment.  IInv is inductive part by part: types, *)
(* then who has the lock, then what a writer owns, and with these the      *)
(* ready marker, the veto and the diagnostic exits.                        *)
(***************************************************************************)
EXTENDS BootUi, TLAPS

USE KindsAssumption, EnvAssumption

-----------------------------------------------------------------------------
\* Every action keeps the variables within their types.
LEMMA TypeStep == TypeOK /\ [Next]_vars => TypeOK'
<1> SUFFICES ASSUME TypeOK, [Next]_vars PROVE TypeOK'
  OBVIOUS
<1> USE DEF TypeOK, Goto, local, files, screen, Pcs, Asking, Locking,
  Starting, Painting, Leaving, Marking, Final, Procs, Askers, Writers
<1>1. ASSUME NEW p \in Askers, OpenLock(p) PROVE TypeOK'
  BY <1>1 DEF OpenLock
<1>2. ASSUME NEW p \in Askers, WriteVeto(p) PROVE TypeOK'
  BY <1>2 DEF WriteVeto
<1>3. ASSUME NEW p \in Askers, NoLockFile(p) PROVE TypeOK'
  BY <1>3 DEF NoLockFile, Unopposed
<1>4. ASSUME NEW p \in Askers, WriteRequest(p) PROVE TypeOK'
  BY <1>4 DEF WriteRequest
<1>5. ASSUME NEW p \in Askers, TryLock(p) PROVE TypeOK'
  BY <1>5 DEF TryLock
<1>6. ASSUME NEW p \in Askers, Reassert(p) PROVE TypeOK'
  BY <1>6 DEF Reassert
<1>7. ASSUME NEW p \in Askers, GiveUp(p) PROVE TypeOK'
  BY <1>7 DEF GiveUp, Refused
<1>8. ASSUME NEW p \in Askers, Acknowledged(p) PROVE TypeOK'
  <2>1. disabled' \in BOOLEAN
    BY <1>8 DEF Acknowledged
  <2>2. QED
    BY <1>8, <2>1 DEF Acknowledged, Stopped
<1>9. ASSUME NEW p \in Askers, CloseLock(p) PROVE TypeOK'
  BY <1>9 DEF CloseLock
<1>10. ASSUME NEW p \in Writers \cup Monitors, CheckVeto(p) PROVE TypeOK'
  BY <1>10 DEF CheckVeto
<1>11. ASSUME NEW p \in Writers \cup Monitors, Preload(p) PROVE TypeOK'
  BY <1>11 DEF Preload
<1>12. ASSUME NEW p \in Writers \cup Monitors, CheckVetoAsked(p) PROVE TypeOK'
  BY <1>12 DEF CheckVetoAsked
<1>13. ASSUME NEW p \in Writers \cup Monitors, TakeLock(p) PROVE TypeOK'
  BY <1>13 DEF TakeLock
<1>14. ASSUME NEW p \in Writers \cup Monitors, CheckVetoLocked(p) PROVE TypeOK'
  BY <1>14 DEF CheckVetoLocked
<1>15. ASSUME NEW p \in Writers \cup Monitors, Announce(p) PROVE TypeOK'
  BY <1>15 DEF Announce
<1>16. ASSUME NEW p \in Writers \cup Monitors, AwaitFramebuffer(p) PROVE TypeOK'
  BY <1>16 DEF AwaitFramebuffer
<1>17. ASSUME NEW p \in Writers \cup Monitors, LoadAssets(p) PROVE TypeOK'
  BY <1>17 DEF LoadAssets
<1>18. ASSUME NEW p \in Writers \cup Monitors, CheckVetoLoaded(p) PROVE TypeOK'
  BY <1>18 DEF CheckVetoLoaded
<1>19. ASSUME NEW p \in Writers \cup Monitors, TakeVt(p) PROVE TypeOK'
  BY <1>19 DEF TakeVt
<1>20. ASSUME NEW p \in Writers \cup Monitors, AwaitVt(p) PROVE TypeOK'
  BY <1>20 DEF AwaitVt
<1>21. ASSUME NEW p \in Writers \cup Monitors, Discover(p) PROVE TypeOK'
  BY <1>21 DEF Discover
<1>22. ASSUME NEW p \in Writers \cup Monitors, Check(p) PROVE TypeOK'
  BY <1>22 DEF Check, AfterCheck
<1>23. ASSUME NEW p \in Writers \cup Monitors, Escape(p) PROVE TypeOK'
  BY <1>23 DEF Escape
<1>24. ASSUME NEW p \in Writers \cup Monitors, Paint(p) PROVE TypeOK'
  BY <1>24 DEF Paint
<1>25. ASSUME NEW p \in Writers \cup Monitors, Restore(p) PROVE TypeOK'
  BY <1>25 DEF Restore
<1>25a. ASSUME NEW p \in Writers \cup Monitors, Disable(p) PROVE TypeOK'
  BY <1>25a DEF Disable
<1>26. ASSUME NEW p \in Writers \cup Monitors, Exit(p) PROVE TypeOK'
  BY <1>26 DEF Exit, Free, Forget
<1>27. ASSUME NEW p \in Writers \cup Monitors, Start(p) PROVE TypeOK'
  BY <1>27 DEF Start
<1>28. ASSUME NEW p \in Writers \cup Monitors, Restart(p) PROVE TypeOK'
  BY <1>28 DEF Restart
<1>29. ASSUME NEW p \in Requesters, NEW w \in {"stop", "details"}, Call(p, w) PROVE TypeOK'
  BY <1>29 DEF Call
<1>30. ASSUME NEW p \in Procs, Kill(p) PROVE TypeOK'
  BY <1>30 DEF Kill, Die, Free
<1>31. ASSUME NEW p \in Procs, Terminate(p) PROVE TypeOK'
  <2>1. term' \in [Procs -> BOOLEAN]
    <3>1. [term EXCEPT ![p] = TRUE] \in [Procs -> BOOLEAN]
      OBVIOUS
    <3>2. QED
      BY <1>31, <3>1, Zenon DEF Terminate, Die
  <2>2. pc' \in [Procs -> Pcs]
    BY <1>31 DEF Terminate, Die
  <2>3. QED
    BY <1>31, <2>1, <2>2 DEF Terminate, Die, Free
<1>32. CASE SwitchAway
  BY <1>32 DEF SwitchAway
<1>33. CASE UNCHANGED vars
  BY <1>33 DEF vars
<1>34. QED
  BY <1>1, <1>2, <1>3, <1>4, <1>5, <1>6, <1>7, <1>8, <1>9, <1>10, <1>11,
       <1>12, <1>13, <1>14, <1>15, <1>16, <1>17, <1>18, <1>19, <1>20,
       <1>21, <1>22, <1>23, <1>24, <1>25, <1>25a, <1>26, <1>27, <1>28, <1>29,
       <1>30, <1>31, <1>32, <1>33
  DEF Next, AskStep, WriterStep, Quiet

\* Only painters own terminals, and those that paint do.
LEMMA OwnStep == TypeOK /\ OwnInv /\ [Next]_vars => OwnInv'
<1> SUFFICES ASSUME TypeOK /\ OwnInv, [Next]_vars PROVE OwnInv'
  OBVIOUS
<1> USE DEF TypeOK, OwnInv, Goto, Live, local, files, screen, Pcs, Asking,
  Locking, Starting, Painting, Leaving, Marking, Final, Procs, Askers, Writers
<1>1. ASSUME NEW p \in Askers, OpenLock(p) PROVE OwnInv'
  BY <1>1 DEF OpenLock
<1>2. ASSUME NEW p \in Askers, WriteVeto(p) PROVE OwnInv'
  BY <1>2 DEF WriteVeto
<1>3. ASSUME NEW p \in Askers, NoLockFile(p) PROVE OwnInv'
  BY <1>3 DEF NoLockFile, Unopposed
<1>4. ASSUME NEW p \in Askers, WriteRequest(p) PROVE OwnInv'
  BY <1>4 DEF WriteRequest
<1>5. ASSUME NEW p \in Askers, TryLock(p) PROVE OwnInv'
  BY <1>5 DEF TryLock
<1>6. ASSUME NEW p \in Askers, Reassert(p) PROVE OwnInv'
  BY <1>6 DEF Reassert
<1>7. ASSUME NEW p \in Askers, GiveUp(p) PROVE OwnInv'
  BY <1>7 DEF GiveUp, Refused
<1>8. ASSUME NEW p \in Askers, Acknowledged(p) PROVE OwnInv'
  BY <1>8 DEF Acknowledged, Stopped
<1>9. ASSUME NEW p \in Askers, CloseLock(p) PROVE OwnInv'
  BY <1>9 DEF CloseLock
<1>10. ASSUME NEW p \in Writers \cup Monitors, CheckVeto(p) PROVE OwnInv'
  BY <1>10 DEF CheckVeto
<1>11. ASSUME NEW p \in Writers \cup Monitors, Preload(p) PROVE OwnInv'
  BY <1>11 DEF Preload
<1>12. ASSUME NEW p \in Writers \cup Monitors, CheckVetoAsked(p) PROVE OwnInv'
  BY <1>12 DEF CheckVetoAsked
<1>13. ASSUME NEW p \in Writers \cup Monitors, TakeLock(p) PROVE OwnInv'
  BY <1>13 DEF TakeLock
<1>14. ASSUME NEW p \in Writers \cup Monitors, CheckVetoLocked(p) PROVE OwnInv'
  BY <1>14 DEF CheckVetoLocked
<1>15. ASSUME NEW p \in Writers \cup Monitors, Announce(p) PROVE OwnInv'
  BY <1>15 DEF Announce
<1>16. ASSUME NEW p \in Writers \cup Monitors, AwaitFramebuffer(p) PROVE OwnInv'
  BY <1>16 DEF AwaitFramebuffer
<1>17. ASSUME NEW p \in Writers \cup Monitors, LoadAssets(p) PROVE OwnInv'
  BY <1>17 DEF LoadAssets
<1>18. ASSUME NEW p \in Writers \cup Monitors, CheckVetoLoaded(p) PROVE OwnInv'
  BY <1>18 DEF CheckVetoLoaded
<1>19. ASSUME NEW p \in Writers \cup Monitors, TakeVt(p) PROVE OwnInv'
  BY <1>19 DEF TakeVt
<1>20. ASSUME NEW p \in Writers \cup Monitors, AwaitVt(p) PROVE OwnInv'
  BY <1>20 DEF AwaitVt
<1>21. ASSUME NEW p \in Writers \cup Monitors, Discover(p) PROVE OwnInv'
  BY <1>21 DEF Discover
<1>22. ASSUME NEW p \in Writers \cup Monitors, Check(p) PROVE OwnInv'
  BY <1>22 DEF Check, AfterCheck
<1>23. ASSUME NEW p \in Writers \cup Monitors, Escape(p) PROVE OwnInv'
  BY <1>23 DEF Escape
<1>24. ASSUME NEW p \in Writers \cup Monitors, Paint(p) PROVE OwnInv'
  BY <1>24 DEF Paint
<1>25. ASSUME NEW p \in Writers \cup Monitors, Restore(p) PROVE OwnInv'
  BY <1>25 DEF Restore
<1>25a. ASSUME NEW p \in Writers \cup Monitors, Disable(p) PROVE OwnInv'
  BY <1>25a DEF Disable
<1>26. ASSUME NEW p \in Writers \cup Monitors, Exit(p) PROVE OwnInv'
  BY <1>26 DEF Exit, Free, Forget
<1>27. ASSUME NEW p \in Writers \cup Monitors, Start(p) PROVE OwnInv'
  BY <1>27 DEF Start
<1>28. ASSUME NEW p \in Writers \cup Monitors, Restart(p) PROVE OwnInv'
  BY <1>28 DEF Restart
<1>29. ASSUME NEW p \in Requesters, NEW w \in {"stop", "details"}, Call(p, w) PROVE OwnInv'
  BY <1>29 DEF Call
<1>30. ASSUME NEW p \in Procs, Kill(p) PROVE OwnInv'
  BY <1>30 DEF Kill, Die, Free
<1>31. ASSUME NEW p \in Procs, Terminate(p) PROVE OwnInv'
  BY <1>31 DEF Terminate, Die, Free
<1>32. CASE SwitchAway
  BY <1>32 DEF SwitchAway
<1>33. CASE UNCHANGED vars
  BY <1>33 DEF vars
<1>34. QED
  BY <1>1, <1>2, <1>3, <1>4, <1>5, <1>6, <1>7, <1>8, <1>9, <1>10, <1>11,
       <1>12, <1>13, <1>14, <1>15, <1>16, <1>17, <1>18, <1>19, <1>20,
       <1>21, <1>22, <1>23, <1>24, <1>25, <1>25a, <1>26, <1>27, <1>28, <1>29,
       <1>30, <1>31, <1>32, <1>33
  DEF Next, AskStep, WriterStep, Quiet

\* Whoever has passed the lock still holds it.
LEMMA LockStep == TypeOK /\ OwnInv /\ LockInv /\ [Next]_vars => LockInv'
<1> SUFFICES ASSUME TypeOK /\ OwnInv /\ LockInv, [Next]_vars PROVE LockInv'
  OBVIOUS
<1> USE DEF TypeOK, OwnInv, LockInv, Holding, Goto, Live, local, files,
  screen, Pcs, Asking, Locking, Starting, Painting, Leaving, Marking, Final, Procs,
  Askers, Writers
<1>1. ASSUME NEW p \in Askers, OpenLock(p) PROVE LockInv'
  BY <1>1 DEF OpenLock
<1>2. ASSUME NEW p \in Askers, WriteVeto(p) PROVE LockInv'
  BY <1>2 DEF WriteVeto
<1>3. ASSUME NEW p \in Askers, NoLockFile(p) PROVE LockInv'
  BY <1>3 DEF NoLockFile, Unopposed
<1>4. ASSUME NEW p \in Askers, WriteRequest(p) PROVE LockInv'
  BY <1>4 DEF WriteRequest
<1>5. ASSUME NEW p \in Askers, TryLock(p) PROVE LockInv'
  BY <1>5 DEF TryLock
<1>6. ASSUME NEW p \in Askers, Reassert(p) PROVE LockInv'
  BY <1>6 DEF Reassert
<1>7. ASSUME NEW p \in Askers, GiveUp(p) PROVE LockInv'
  BY <1>7 DEF GiveUp, Refused
<1>8. ASSUME NEW p \in Askers, Acknowledged(p) PROVE LockInv'
  BY <1>8 DEF Acknowledged, Stopped
<1>9. ASSUME NEW p \in Askers, CloseLock(p) PROVE LockInv'
  BY <1>9 DEF CloseLock
<1>10. ASSUME NEW p \in Writers \cup Monitors, CheckVeto(p) PROVE LockInv'
  BY <1>10 DEF CheckVeto
<1>11. ASSUME NEW p \in Writers \cup Monitors, Preload(p) PROVE LockInv'
  BY <1>11 DEF Preload
<1>12. ASSUME NEW p \in Writers \cup Monitors, CheckVetoAsked(p) PROVE LockInv'
  BY <1>12 DEF CheckVetoAsked
<1>13. ASSUME NEW p \in Writers \cup Monitors, TakeLock(p) PROVE LockInv'
  BY <1>13 DEF TakeLock
<1>14. ASSUME NEW p \in Writers \cup Monitors, CheckVetoLocked(p) PROVE LockInv'
  BY <1>14 DEF CheckVetoLocked
<1>15. ASSUME NEW p \in Writers \cup Monitors, Announce(p) PROVE LockInv'
  BY <1>15 DEF Announce
<1>16. ASSUME NEW p \in Writers \cup Monitors, AwaitFramebuffer(p) PROVE LockInv'
  BY <1>16 DEF AwaitFramebuffer
<1>17. ASSUME NEW p \in Writers \cup Monitors, LoadAssets(p) PROVE LockInv'
  BY <1>17 DEF LoadAssets
<1>18. ASSUME NEW p \in Writers \cup Monitors, CheckVetoLoaded(p) PROVE LockInv'
  BY <1>18 DEF CheckVetoLoaded
<1>19. ASSUME NEW p \in Writers \cup Monitors, TakeVt(p) PROVE LockInv'
  BY <1>19 DEF TakeVt
<1>20. ASSUME NEW p \in Writers \cup Monitors, AwaitVt(p) PROVE LockInv'
  BY <1>20 DEF AwaitVt
<1>21. ASSUME NEW p \in Writers \cup Monitors, Discover(p) PROVE LockInv'
  BY <1>21 DEF Discover
<1>22. ASSUME NEW p \in Writers \cup Monitors, Check(p) PROVE LockInv'
  BY <1>22 DEF Check, AfterCheck
<1>23. ASSUME NEW p \in Writers \cup Monitors, Escape(p) PROVE LockInv'
  BY <1>23 DEF Escape
<1>24. ASSUME NEW p \in Writers \cup Monitors, Paint(p) PROVE LockInv'
  BY <1>24 DEF Paint
<1>25. ASSUME NEW p \in Writers \cup Monitors, Restore(p) PROVE LockInv'
  BY <1>25 DEF Restore
<1>25a. ASSUME NEW p \in Writers \cup Monitors, Disable(p) PROVE LockInv'
  BY <1>25a DEF Disable
<1>26. ASSUME NEW p \in Writers \cup Monitors, Exit(p) PROVE LockInv'
  BY <1>26 DEF Exit, Free, Forget
<1>27. ASSUME NEW p \in Writers \cup Monitors, Start(p) PROVE LockInv'
  BY <1>27 DEF Start
<1>28. ASSUME NEW p \in Writers \cup Monitors, Restart(p) PROVE LockInv'
  BY <1>28 DEF Restart
<1>29. ASSUME NEW p \in Requesters, NEW w \in {"stop", "details"}, Call(p, w) PROVE LockInv'
  BY <1>29 DEF Call
<1>30. ASSUME NEW p \in Procs, Kill(p) PROVE LockInv'
  BY <1>30 DEF Kill, Die, Free
<1>31. ASSUME NEW p \in Procs, Terminate(p) PROVE LockInv'
  BY <1>31 DEF Terminate, Die, Free
<1>32. CASE SwitchAway
  BY <1>32 DEF SwitchAway
<1>33. CASE UNCHANGED vars
  BY <1>33 DEF vars
<1>34. QED
  BY <1>1, <1>2, <1>3, <1>4, <1>5, <1>6, <1>7, <1>8, <1>9, <1>10, <1>11,
       <1>12, <1>13, <1>14, <1>15, <1>16, <1>17, <1>18, <1>19, <1>20,
       <1>21, <1>22, <1>23, <1>24, <1>25, <1>25a, <1>26, <1>27, <1>28, <1>29,
       <1>30, <1>31, <1>32, <1>33
  DEF Next, AskStep, WriterStep, Quiet

\* The ready marker names the writer, or one that was killed.
LEMMA ReadyStep == TypeOK /\ OwnInv /\ LockInv /\ ReadyInv /\ [Next]_vars => ReadyInv'
<1> SUFFICES ASSUME TypeOK /\ OwnInv /\ LockInv /\ ReadyInv, [Next]_vars PROVE ReadyInv'
  OBVIOUS
<1> USE DEF TypeOK, OwnInv, LockInv, ReadyInv, Holding, Goto, Live, local,
  files, screen, Pcs, Asking, Locking, Starting, Painting, Leaving, Marking, Final,
  Procs, Askers, Writers
<1>1. ASSUME NEW p \in Askers, OpenLock(p) PROVE ReadyInv'
  BY <1>1 DEF OpenLock
<1>2. ASSUME NEW p \in Askers, WriteVeto(p) PROVE ReadyInv'
  BY <1>2 DEF WriteVeto
<1>3. ASSUME NEW p \in Askers, NoLockFile(p) PROVE ReadyInv'
  BY <1>3 DEF NoLockFile, Unopposed
<1>4. ASSUME NEW p \in Askers, WriteRequest(p) PROVE ReadyInv'
  BY <1>4 DEF WriteRequest
<1>5. ASSUME NEW p \in Askers, TryLock(p) PROVE ReadyInv'
  BY <1>5 DEF TryLock
<1>6. ASSUME NEW p \in Askers, Reassert(p) PROVE ReadyInv'
  BY <1>6 DEF Reassert
<1>7. ASSUME NEW p \in Askers, GiveUp(p) PROVE ReadyInv'
  BY <1>7 DEF GiveUp, Refused
<1>8. ASSUME NEW p \in Askers, Acknowledged(p) PROVE ReadyInv'
  BY <1>8 DEF Acknowledged, Stopped
<1>9. ASSUME NEW p \in Askers, CloseLock(p) PROVE ReadyInv'
  BY <1>9 DEF CloseLock
<1>10. ASSUME NEW p \in Writers \cup Monitors, CheckVeto(p) PROVE ReadyInv'
  BY <1>10 DEF CheckVeto
<1>11. ASSUME NEW p \in Writers \cup Monitors, Preload(p) PROVE ReadyInv'
  BY <1>11 DEF Preload
<1>12. ASSUME NEW p \in Writers \cup Monitors, CheckVetoAsked(p) PROVE ReadyInv'
  BY <1>12 DEF CheckVetoAsked
<1>13. ASSUME NEW p \in Writers \cup Monitors, TakeLock(p) PROVE ReadyInv'
  BY <1>13 DEF TakeLock
<1>14. ASSUME NEW p \in Writers \cup Monitors, CheckVetoLocked(p) PROVE ReadyInv'
  BY <1>14 DEF CheckVetoLocked
<1>15. ASSUME NEW p \in Writers \cup Monitors, Announce(p) PROVE ReadyInv'
  BY <1>15 DEF Announce
<1>16. ASSUME NEW p \in Writers \cup Monitors, AwaitFramebuffer(p) PROVE ReadyInv'
  BY <1>16 DEF AwaitFramebuffer
<1>17. ASSUME NEW p \in Writers \cup Monitors, LoadAssets(p) PROVE ReadyInv'
  BY <1>17 DEF LoadAssets
<1>18. ASSUME NEW p \in Writers \cup Monitors, CheckVetoLoaded(p) PROVE ReadyInv'
  BY <1>18 DEF CheckVetoLoaded
<1>19. ASSUME NEW p \in Writers \cup Monitors, TakeVt(p) PROVE ReadyInv'
  BY <1>19 DEF TakeVt
<1>20. ASSUME NEW p \in Writers \cup Monitors, AwaitVt(p) PROVE ReadyInv'
  BY <1>20 DEF AwaitVt
<1>21. ASSUME NEW p \in Writers \cup Monitors, Discover(p) PROVE ReadyInv'
  BY <1>21 DEF Discover
<1>22. ASSUME NEW p \in Writers \cup Monitors, Check(p) PROVE ReadyInv'
  BY <1>22 DEF Check, AfterCheck
<1>23. ASSUME NEW p \in Writers \cup Monitors, Escape(p) PROVE ReadyInv'
  BY <1>23 DEF Escape
<1>24. ASSUME NEW p \in Writers \cup Monitors, Paint(p) PROVE ReadyInv'
  BY <1>24 DEF Paint
<1>25. ASSUME NEW p \in Writers \cup Monitors, Restore(p) PROVE ReadyInv'
  BY <1>25 DEF Restore
<1>25a. ASSUME NEW p \in Writers \cup Monitors, Disable(p) PROVE ReadyInv'
  BY <1>25a DEF Disable
<1>26. ASSUME NEW p \in Writers \cup Monitors, Exit(p) PROVE ReadyInv'
  BY <1>26 DEF Exit, Free, Forget
<1>27. ASSUME NEW p \in Writers \cup Monitors, Start(p) PROVE ReadyInv'
  BY <1>27 DEF Start
<1>28. ASSUME NEW p \in Writers \cup Monitors, Restart(p) PROVE ReadyInv'
  BY <1>28 DEF Restart
<1>29. ASSUME NEW p \in Requesters, NEW w \in {"stop", "details"}, Call(p, w) PROVE ReadyInv'
  BY <1>29 DEF Call
<1>30. ASSUME NEW p \in Procs, Kill(p) PROVE ReadyInv'
  BY <1>30 DEF Kill, Die, Free
<1>31. ASSUME NEW p \in Procs, Terminate(p) PROVE ReadyInv'
  BY <1>31 DEF Terminate, Die, Free
<1>32. CASE SwitchAway
  BY <1>32 DEF SwitchAway
<1>33. CASE UNCHANGED vars
  BY <1>33 DEF vars
<1>34. QED
  BY <1>1, <1>2, <1>3, <1>4, <1>5, <1>6, <1>7, <1>8, <1>9, <1>10, <1>11,
       <1>12, <1>13, <1>14, <1>15, <1>16, <1>17, <1>18, <1>19, <1>20,
       <1>21, <1>22, <1>23, <1>24, <1>25, <1>25a, <1>26, <1>27, <1>28, <1>29,
       <1>30, <1>31, <1>32, <1>33
  DEF Next, AskStep, WriterStep, Quiet

\* After an acknowledged --details nobody is past the check under the lock.
LEMMA VetoStep == TypeOK /\ LockInv /\ VetoInv /\ [Next]_vars => VetoInv'
<1> SUFFICES ASSUME TypeOK /\ LockInv /\ VetoInv, [Next]_vars PROVE VetoInv'
  OBVIOUS
<1> USE DEF TypeOK, LockInv, VetoInv, DetailsDone, Holding, Goto, local,
  files, screen, Pcs, Asking, Locking, Starting, Painting, Leaving, Marking, Final,
  Procs, Askers, Writers
<1>1. ASSUME NEW p \in Askers, OpenLock(p) PROVE VetoInv'
  BY <1>1 DEF OpenLock
<1>2. ASSUME NEW p \in Askers, WriteVeto(p) PROVE VetoInv'
  BY <1>2 DEF WriteVeto
<1>3. ASSUME NEW p \in Askers, NoLockFile(p) PROVE VetoInv'
  BY <1>3 DEF NoLockFile, Unopposed
<1>4. ASSUME NEW p \in Askers, WriteRequest(p) PROVE VetoInv'
  BY <1>4 DEF WriteRequest
<1>5. ASSUME NEW p \in Askers, TryLock(p) PROVE VetoInv'
  BY <1>5 DEF TryLock
<1>6. ASSUME NEW p \in Askers, Reassert(p) PROVE VetoInv'
  BY <1>6 DEF Reassert
<1>7. ASSUME NEW p \in Askers, GiveUp(p) PROVE VetoInv'
  BY <1>7 DEF GiveUp, Refused
<1>8. ASSUME NEW p \in Askers, Acknowledged(p) PROVE VetoInv'
  BY <1>8 DEF Acknowledged, Stopped
<1>9. ASSUME NEW p \in Askers, CloseLock(p) PROVE VetoInv'
  BY <1>9 DEF CloseLock
<1>10. ASSUME NEW p \in Writers \cup Monitors, CheckVeto(p) PROVE VetoInv'
  BY <1>10 DEF CheckVeto
<1>11. ASSUME NEW p \in Writers \cup Monitors, Preload(p) PROVE VetoInv'
  BY <1>11 DEF Preload
<1>12. ASSUME NEW p \in Writers \cup Monitors, CheckVetoAsked(p) PROVE VetoInv'
  BY <1>12 DEF CheckVetoAsked
<1>13. ASSUME NEW p \in Writers \cup Monitors, TakeLock(p) PROVE VetoInv'
  BY <1>13 DEF TakeLock
<1>14. ASSUME NEW p \in Writers \cup Monitors, CheckVetoLocked(p) PROVE VetoInv'
  BY <1>14 DEF CheckVetoLocked
<1>15. ASSUME NEW p \in Writers \cup Monitors, Announce(p) PROVE VetoInv'
  BY <1>15 DEF Announce
<1>16. ASSUME NEW p \in Writers \cup Monitors, AwaitFramebuffer(p) PROVE VetoInv'
  BY <1>16 DEF AwaitFramebuffer
<1>17. ASSUME NEW p \in Writers \cup Monitors, LoadAssets(p) PROVE VetoInv'
  BY <1>17 DEF LoadAssets
<1>18. ASSUME NEW p \in Writers \cup Monitors, CheckVetoLoaded(p) PROVE VetoInv'
  BY <1>18 DEF CheckVetoLoaded
<1>19. ASSUME NEW p \in Writers \cup Monitors, TakeVt(p) PROVE VetoInv'
  BY <1>19 DEF TakeVt
<1>20. ASSUME NEW p \in Writers \cup Monitors, AwaitVt(p) PROVE VetoInv'
  BY <1>20 DEF AwaitVt
<1>21. ASSUME NEW p \in Writers \cup Monitors, Discover(p) PROVE VetoInv'
  BY <1>21 DEF Discover
<1>22. ASSUME NEW p \in Writers \cup Monitors, Check(p) PROVE VetoInv'
  BY <1>22 DEF Check, AfterCheck
<1>23. ASSUME NEW p \in Writers \cup Monitors, Escape(p) PROVE VetoInv'
  BY <1>23 DEF Escape
<1>24. ASSUME NEW p \in Writers \cup Monitors, Paint(p) PROVE VetoInv'
  BY <1>24 DEF Paint
<1>25. ASSUME NEW p \in Writers \cup Monitors, Restore(p) PROVE VetoInv'
  BY <1>25 DEF Restore
<1>25a. ASSUME NEW p \in Writers \cup Monitors, Disable(p) PROVE VetoInv'
  BY <1>25a DEF Disable
<1>26. ASSUME NEW p \in Writers \cup Monitors, Exit(p) PROVE VetoInv'
  BY <1>26 DEF Exit, Free, Forget
<1>27. ASSUME NEW p \in Writers \cup Monitors, Start(p) PROVE VetoInv'
  BY <1>27 DEF Start
<1>28. ASSUME NEW p \in Writers \cup Monitors, Restart(p) PROVE VetoInv'
  BY <1>28 DEF Restart
<1>29. ASSUME NEW p \in Requesters, NEW w \in {"stop", "details"}, Call(p, w) PROVE VetoInv'
  BY <1>29 DEF Call
<1>30. ASSUME NEW p \in Procs, Kill(p) PROVE VetoInv'
  BY <1>30 DEF Kill, Die, Free
<1>31. ASSUME NEW p \in Procs, Terminate(p) PROVE VetoInv'
  BY <1>31 DEF Terminate, Die, Free
<1>32. CASE SwitchAway
  BY <1>32 DEF SwitchAway
<1>33. CASE UNCHANGED vars
  BY <1>33 DEF vars
<1>34. QED
  BY <1>1, <1>2, <1>3, <1>4, <1>5, <1>6, <1>7, <1>8, <1>9, <1>10, <1>11,
       <1>12, <1>13, <1>14, <1>15, <1>16, <1>17, <1>18, <1>19, <1>20,
       <1>21, <1>22, <1>23, <1>24, <1>25, <1>25a, <1>26, <1>27, <1>28, <1>29,
       <1>30, <1>31, <1>32, <1>33
  DEF Next, AskStep, WriterStep, Quiet

\* Whoever is about to show the text console has disabled the UI.
LEMMA ShownStep == TypeOK /\ ShownInv /\ [Next]_vars => ShownInv'
<1> SUFFICES ASSUME TypeOK /\ ShownInv, [Next]_vars PROVE ShownInv'
  OBVIOUS
<1> USE DEF TypeOK, ShownInv, Goto, local, files, screen, Pcs, Asking,
  Locking, Starting, Painting, Leaving, Marking, Final, Procs, Askers, Writers
<1>1. ASSUME NEW p \in Askers, OpenLock(p) PROVE ShownInv'
  BY <1>1 DEF OpenLock
<1>2. ASSUME NEW p \in Askers, WriteVeto(p) PROVE ShownInv'
  BY <1>2 DEF WriteVeto
<1>3. ASSUME NEW p \in Askers, NoLockFile(p) PROVE ShownInv'
  BY <1>3 DEF NoLockFile, Unopposed
<1>4. ASSUME NEW p \in Askers, WriteRequest(p) PROVE ShownInv'
  BY <1>4 DEF WriteRequest
<1>5. ASSUME NEW p \in Askers, TryLock(p) PROVE ShownInv'
  BY <1>5 DEF TryLock
<1>6. ASSUME NEW p \in Askers, Reassert(p) PROVE ShownInv'
  BY <1>6 DEF Reassert
<1>7. ASSUME NEW p \in Askers, GiveUp(p) PROVE ShownInv'
  BY <1>7 DEF GiveUp, Refused
<1>8. ASSUME NEW p \in Askers, Acknowledged(p) PROVE ShownInv'
  BY <1>8 DEF Acknowledged, Stopped
<1>9. ASSUME NEW p \in Askers, CloseLock(p) PROVE ShownInv'
  BY <1>9 DEF CloseLock
<1>10. ASSUME NEW p \in Writers \cup Monitors, CheckVeto(p) PROVE ShownInv'
  BY <1>10 DEF CheckVeto
<1>11. ASSUME NEW p \in Writers \cup Monitors, Preload(p) PROVE ShownInv'
  BY <1>11 DEF Preload
<1>12. ASSUME NEW p \in Writers \cup Monitors, CheckVetoAsked(p) PROVE ShownInv'
  BY <1>12 DEF CheckVetoAsked
<1>13. ASSUME NEW p \in Writers \cup Monitors, TakeLock(p) PROVE ShownInv'
  BY <1>13 DEF TakeLock
<1>14. ASSUME NEW p \in Writers \cup Monitors, CheckVetoLocked(p) PROVE ShownInv'
  BY <1>14 DEF CheckVetoLocked
<1>15. ASSUME NEW p \in Writers \cup Monitors, Announce(p) PROVE ShownInv'
  BY <1>15 DEF Announce
<1>16. ASSUME NEW p \in Writers \cup Monitors, AwaitFramebuffer(p) PROVE ShownInv'
  BY <1>16 DEF AwaitFramebuffer
<1>17. ASSUME NEW p \in Writers \cup Monitors, LoadAssets(p) PROVE ShownInv'
  BY <1>17 DEF LoadAssets
<1>18. ASSUME NEW p \in Writers \cup Monitors, CheckVetoLoaded(p) PROVE ShownInv'
  BY <1>18 DEF CheckVetoLoaded
<1>19. ASSUME NEW p \in Writers \cup Monitors, TakeVt(p) PROVE ShownInv'
  BY <1>19 DEF TakeVt
<1>20. ASSUME NEW p \in Writers \cup Monitors, AwaitVt(p) PROVE ShownInv'
  BY <1>20 DEF AwaitVt
<1>21. ASSUME NEW p \in Writers \cup Monitors, Discover(p) PROVE ShownInv'
  BY <1>21 DEF Discover
<1>22. ASSUME NEW p \in Writers \cup Monitors, Check(p) PROVE ShownInv'
  BY <1>22 DEF Check, AfterCheck
<1>23. ASSUME NEW p \in Writers \cup Monitors, Escape(p) PROVE ShownInv'
  BY <1>23 DEF Escape
<1>24. ASSUME NEW p \in Writers \cup Monitors, Paint(p) PROVE ShownInv'
  BY <1>24 DEF Paint
<1>25. ASSUME NEW p \in Writers \cup Monitors, Restore(p) PROVE ShownInv'
  BY <1>25 DEF Restore
<1>25a. ASSUME NEW p \in Writers \cup Monitors, Disable(p) PROVE ShownInv'
  BY <1>25a DEF Disable
<1>26. ASSUME NEW p \in Writers \cup Monitors, Exit(p) PROVE ShownInv'
  BY <1>26 DEF Exit, Free, Forget
<1>27. ASSUME NEW p \in Writers \cup Monitors, Start(p) PROVE ShownInv'
  BY <1>27 DEF Start
<1>28. ASSUME NEW p \in Writers \cup Monitors, Restart(p) PROVE ShownInv'
  BY <1>28 DEF Restart
<1>29. ASSUME NEW p \in Requesters, NEW w \in {"stop", "details"}, Call(p, w) PROVE ShownInv'
  BY <1>29 DEF Call
<1>30. ASSUME NEW p \in Procs, Kill(p) PROVE ShownInv'
  BY <1>30 DEF Kill, Die, Free
<1>31. ASSUME NEW p \in Procs, Terminate(p) PROVE ShownInv'
  BY <1>31 DEF Terminate, Die, Free
<1>32. CASE SwitchAway
  BY <1>32 DEF SwitchAway
<1>33. CASE UNCHANGED vars
  BY <1>33 DEF vars
<1>34. QED
  BY <1>1, <1>2, <1>3, <1>4, <1>5, <1>6, <1>7, <1>8, <1>9, <1>10, <1>11,
       <1>12, <1>13, <1>14, <1>15, <1>16, <1>17, <1>18, <1>19, <1>20,
       <1>21, <1>22, <1>23, <1>24, <1>25, <1>25a, <1>26, <1>27, <1>28, <1>29,
       <1>30, <1>31, <1>32, <1>33
  DEF Next, AskStep, WriterStep, Quiet

-----------------------------------------------------------------------------
\* The inductive invariant holds initially.
LEMMA InitIInv == Init => IInv
<1> SUFFICES ASSUME Init PROVE IInv
  OBVIOUS
<1> USE DEF Init, Pcs, Asking, Locking, Starting, Painting, Leaving, Marking, Final
<1>1. TypeOK
  BY DEF TypeOK
<1>2. LockInv
  BY DEF LockInv, Holding
<1>3. OwnInv
  BY DEF OwnInv
<1>4. ReadyInv
  BY DEF ReadyInv
<1>5. VetoInv
  BY DEF VetoInv, DetailsDone, Procs
<1>6. ShownInv
  BY DEF ShownInv
<1>7. QED
  BY <1>1, <1>2, <1>3, <1>4, <1>5, <1>6 DEF IInv

\* The inductive invariant holds in every reachable state.
THEOREM Inductive == Spec => []IInv
<1>1. IInv /\ [Next]_vars => IInv'
  BY TypeStep, LockStep, OwnStep, ReadyStep, VetoStep, ShownStep DEF IInv
<1>2. QED
  BY InitIInv, <1>1, PTL DEF Spec

\* Type correctness.
THEOREM TypeCorrect == Spec => []TypeOK
<1>1. IInv => TypeOK
  BY DEF IInv
<1>2. QED
  BY Inductive, <1>1, PTL

\* Only the holder of the lock composes frames.
THEOREM Exclusive == Spec => []OneWriter
<1>1. IInv => OneWriter
  BY DEF IInv, LockInv, Holding, OneWriter
<1>2. QED
  BY Inductive, <1>1, PTL

\* The ready marker names the writer.
THEOREM ReadyCorrect == Spec => []ReadyNamesWriter
<1>1. IInv => ReadyNamesWriter
  BY DEF IInv, ReadyInv, ReadyNamesWriter
<1>2. QED
  BY Inductive, <1>1, PTL

\* VT2 is only activated by a process that passed the check under the lock.
LEMMA VetoAction ==
  ASSUME TypeOK, VetoInv, [Next]_vars
  PROVE  DetailsDone /\ vt # 2 => vt' # 2
<1> USE DEF Goto, local, files, screen, TypeOK, VetoInv, Starting,
  Painting
<1>1. ASSUME NEW p \in Askers, OpenLock(p) PROVE DetailsDone /\ vt # 2 => vt' # 2
  BY <1>1 DEF OpenLock
<1>2. ASSUME NEW p \in Askers, WriteVeto(p) PROVE DetailsDone /\ vt # 2 => vt' # 2
  BY <1>2 DEF WriteVeto
<1>3. ASSUME NEW p \in Askers, NoLockFile(p) PROVE DetailsDone /\ vt # 2 => vt' # 2
  BY <1>3 DEF NoLockFile
<1>4. ASSUME NEW p \in Askers, WriteRequest(p) PROVE DetailsDone /\ vt # 2 => vt' # 2
  BY <1>4 DEF WriteRequest
<1>5. ASSUME NEW p \in Askers, TryLock(p) PROVE DetailsDone /\ vt # 2 => vt' # 2
  BY <1>5 DEF TryLock
<1>6. ASSUME NEW p \in Askers, Reassert(p) PROVE DetailsDone /\ vt # 2 => vt' # 2
  BY <1>6 DEF Reassert
<1>7. ASSUME NEW p \in Askers, GiveUp(p) PROVE DetailsDone /\ vt # 2 => vt' # 2
  BY <1>7 DEF GiveUp
<1>8. ASSUME NEW p \in Askers, Acknowledged(p) PROVE DetailsDone /\ vt # 2 => vt' # 2
  <2>1. vt' = vt \/ vt' = 3
    BY <1>8, Zenon DEF Acknowledged
  <2>2. mode2' = mode2
    BY <1>8, Zenon DEF Acknowledged
  <2>3. disabled' \/ vt' = vt
    BY <1>8, Zenon DEF Acknowledged
  <2>4. QED
    BY <2>1, <2>2, <2>3
<1>9. ASSUME NEW p \in Askers, CloseLock(p) PROVE DetailsDone /\ vt # 2 => vt' # 2
  BY <1>9 DEF CloseLock
<1>10. ASSUME NEW p \in Writers \cup Monitors, CheckVeto(p) PROVE DetailsDone /\ vt # 2 => vt' # 2
  BY <1>10 DEF CheckVeto
<1>11. ASSUME NEW p \in Writers \cup Monitors, Preload(p) PROVE DetailsDone /\ vt # 2 => vt' # 2
  BY <1>11 DEF Preload
<1>12. ASSUME NEW p \in Writers \cup Monitors, CheckVetoAsked(p) PROVE DetailsDone /\ vt # 2 => vt' # 2
  BY <1>12 DEF CheckVetoAsked
<1>13. ASSUME NEW p \in Writers \cup Monitors, TakeLock(p) PROVE DetailsDone /\ vt # 2 => vt' # 2
  BY <1>13 DEF TakeLock
<1>14. ASSUME NEW p \in Writers \cup Monitors, CheckVetoLocked(p) PROVE DetailsDone /\ vt # 2 => vt' # 2
  BY <1>14 DEF CheckVetoLocked
<1>15. ASSUME NEW p \in Writers \cup Monitors, Announce(p) PROVE DetailsDone /\ vt # 2 => vt' # 2
  BY <1>15 DEF Announce
<1>16. ASSUME NEW p \in Writers \cup Monitors, AwaitFramebuffer(p) PROVE DetailsDone /\ vt # 2 => vt' # 2
  BY <1>16 DEF AwaitFramebuffer
<1>17. ASSUME NEW p \in Writers \cup Monitors, LoadAssets(p) PROVE DetailsDone /\ vt # 2 => vt' # 2
  BY <1>17 DEF LoadAssets
<1>18. ASSUME NEW p \in Writers \cup Monitors, CheckVetoLoaded(p) PROVE DetailsDone /\ vt # 2 => vt' # 2
  BY <1>18 DEF CheckVetoLoaded
<1>19. ASSUME NEW p \in Writers \cup Monitors, TakeVt(p) PROVE DetailsDone /\ vt # 2 => vt' # 2
  BY <1>19 DEF TakeVt
<1>20. ASSUME NEW p \in Writers \cup Monitors, AwaitVt(p) PROVE DetailsDone /\ vt # 2 => vt' # 2
  BY <1>20 DEF AwaitVt
<1>21. ASSUME NEW p \in Writers \cup Monitors, Discover(p) PROVE DetailsDone /\ vt # 2 => vt' # 2
  BY <1>21 DEF Discover
<1>22. ASSUME NEW p \in Writers \cup Monitors, Check(p) PROVE DetailsDone /\ vt # 2 => vt' # 2
  BY <1>22 DEF Check
<1>23. ASSUME NEW p \in Writers \cup Monitors, Escape(p) PROVE DetailsDone /\ vt # 2 => vt' # 2
  BY <1>23 DEF Escape
<1>24. ASSUME NEW p \in Writers \cup Monitors, Paint(p) PROVE DetailsDone /\ vt # 2 => vt' # 2
  BY <1>24 DEF Paint
<1>25. ASSUME NEW p \in Writers \cup Monitors, Restore(p) PROVE DetailsDone /\ vt # 2 => vt' # 2
  BY <1>25 DEF Restore
<1>25a. ASSUME NEW p \in Writers \cup Monitors, Disable(p) PROVE DetailsDone /\ vt # 2 => vt' # 2
  BY <1>25a DEF Disable
<1>26. ASSUME NEW p \in Writers \cup Monitors, Exit(p) PROVE DetailsDone /\ vt # 2 => vt' # 2
  BY <1>26 DEF Exit
<1>27. ASSUME NEW p \in Writers \cup Monitors, Start(p) PROVE DetailsDone /\ vt # 2 => vt' # 2
  BY <1>27 DEF Start
<1>28. ASSUME NEW p \in Writers \cup Monitors, Restart(p) PROVE DetailsDone /\ vt # 2 => vt' # 2
  BY <1>28 DEF Restart
<1>29. ASSUME NEW p \in Requesters, NEW w \in {"stop", "details"}, Call(p, w) PROVE DetailsDone /\ vt # 2 => vt' # 2
  BY <1>29 DEF Call
<1>30. ASSUME NEW p \in Procs, Kill(p) PROVE DetailsDone /\ vt # 2 => vt' # 2
  BY <1>30 DEF Kill, Die
<1>31. ASSUME NEW p \in Procs, Terminate(p) PROVE DetailsDone /\ vt # 2 => vt' # 2
  BY <1>31 DEF Terminate, Die
<1>32. CASE SwitchAway
  BY <1>32 DEF SwitchAway
<1>33. CASE UNCHANGED vars
  BY <1>33 DEF vars
<1>34. QED
  BY <1>1, <1>2, <1>3, <1>4, <1>5, <1>6, <1>7, <1>8, <1>9, <1>10, <1>11,
       <1>12, <1>13, <1>14, <1>15, <1>16, <1>17, <1>18, <1>19, <1>20,
       <1>21, <1>22, <1>23, <1>24, <1>25, <1>25a, <1>26, <1>27, <1>28, <1>29,
       <1>30, <1>31, <1>32, <1>33
  DEF Next, AskStep, WriterStep, Quiet

\* VT3 comes with the veto, and text mode with a process about to write it.
LEMMA FlashAction ==
  ASSUME TypeOK, ShownInv, [Next]_vars
  PROVE  ConsoleHidden
<1> USE DEF ConsoleHidden, Marking, Goto, local, files, screen, TypeOK, ShownInv,
  Procs, Askers, Writers
<1>1. ASSUME NEW p \in Askers, OpenLock(p) PROVE ConsoleHidden
  BY <1>1 DEF OpenLock
<1>2. ASSUME NEW p \in Askers, WriteVeto(p) PROVE ConsoleHidden
  BY <1>2 DEF WriteVeto
<1>3. ASSUME NEW p \in Askers, NoLockFile(p) PROVE ConsoleHidden
  BY <1>3 DEF NoLockFile
<1>4. ASSUME NEW p \in Askers, WriteRequest(p) PROVE ConsoleHidden
  BY <1>4 DEF WriteRequest
<1>5. ASSUME NEW p \in Askers, TryLock(p) PROVE ConsoleHidden
  BY <1>5 DEF TryLock
<1>6. ASSUME NEW p \in Askers, Reassert(p) PROVE ConsoleHidden
  BY <1>6 DEF Reassert
<1>7. ASSUME NEW p \in Askers, GiveUp(p) PROVE ConsoleHidden
  BY <1>7 DEF GiveUp
<1>8. ASSUME NEW p \in Askers, Acknowledged(p) PROVE ConsoleHidden
  <2>1. vt' = vt \/ vt' = 3
    BY <1>8, Zenon DEF Acknowledged
  <2>2. mode2' = mode2
    BY <1>8, Zenon DEF Acknowledged
  <2>3. disabled' \/ vt' = vt
    BY <1>8, Zenon DEF Acknowledged
  <2>4. QED
    BY <2>1, <2>2, <2>3
<1>9. ASSUME NEW p \in Askers, CloseLock(p) PROVE ConsoleHidden
  BY <1>9 DEF CloseLock
<1>10. ASSUME NEW p \in Writers \cup Monitors, CheckVeto(p) PROVE ConsoleHidden
  BY <1>10 DEF CheckVeto
<1>11. ASSUME NEW p \in Writers \cup Monitors, Preload(p) PROVE ConsoleHidden
  BY <1>11 DEF Preload
<1>12. ASSUME NEW p \in Writers \cup Monitors, CheckVetoAsked(p) PROVE ConsoleHidden
  BY <1>12 DEF CheckVetoAsked
<1>13. ASSUME NEW p \in Writers \cup Monitors, TakeLock(p) PROVE ConsoleHidden
  BY <1>13 DEF TakeLock
<1>14. ASSUME NEW p \in Writers \cup Monitors, CheckVetoLocked(p) PROVE ConsoleHidden
  BY <1>14 DEF CheckVetoLocked
<1>15. ASSUME NEW p \in Writers \cup Monitors, Announce(p) PROVE ConsoleHidden
  BY <1>15 DEF Announce
<1>16. ASSUME NEW p \in Writers \cup Monitors, AwaitFramebuffer(p) PROVE ConsoleHidden
  BY <1>16 DEF AwaitFramebuffer
<1>17. ASSUME NEW p \in Writers \cup Monitors, LoadAssets(p) PROVE ConsoleHidden
  BY <1>17 DEF LoadAssets
<1>18. ASSUME NEW p \in Writers \cup Monitors, CheckVetoLoaded(p) PROVE ConsoleHidden
  BY <1>18 DEF CheckVetoLoaded
<1>19. ASSUME NEW p \in Writers \cup Monitors, TakeVt(p) PROVE ConsoleHidden
  BY <1>19 DEF TakeVt
<1>20. ASSUME NEW p \in Writers \cup Monitors, AwaitVt(p) PROVE ConsoleHidden
  BY <1>20 DEF AwaitVt
<1>21. ASSUME NEW p \in Writers \cup Monitors, Discover(p) PROVE ConsoleHidden
  BY <1>21 DEF Discover
<1>22. ASSUME NEW p \in Writers \cup Monitors, Check(p) PROVE ConsoleHidden
  BY <1>22 DEF Check
<1>23. ASSUME NEW p \in Writers \cup Monitors, Escape(p) PROVE ConsoleHidden
  BY <1>23 DEF Escape
<1>24. ASSUME NEW p \in Writers \cup Monitors, Paint(p) PROVE ConsoleHidden
  BY <1>24 DEF Paint
<1>25. ASSUME NEW p \in Writers \cup Monitors, Restore(p) PROVE ConsoleHidden
  BY <1>25 DEF Restore
<1>25a. ASSUME NEW p \in Writers \cup Monitors, Disable(p) PROVE ConsoleHidden
  BY <1>25a DEF Disable
<1>26. ASSUME NEW p \in Writers \cup Monitors, Exit(p) PROVE ConsoleHidden
  BY <1>26 DEF Exit
<1>27. ASSUME NEW p \in Writers \cup Monitors, Start(p) PROVE ConsoleHidden
  BY <1>27 DEF Start
<1>28. ASSUME NEW p \in Writers \cup Monitors, Restart(p) PROVE ConsoleHidden
  BY <1>28 DEF Restart
<1>29. ASSUME NEW p \in Requesters, NEW w \in {"stop", "details"}, Call(p, w) PROVE ConsoleHidden
  BY <1>29 DEF Call
<1>30. ASSUME NEW p \in Procs, Kill(p) PROVE ConsoleHidden
  BY <1>30 DEF Kill, Die
<1>31. ASSUME NEW p \in Procs, Terminate(p) PROVE ConsoleHidden
  BY <1>31 DEF Terminate, Die
<1>32. CASE SwitchAway
  BY <1>32 DEF SwitchAway
<1>33. CASE UNCHANGED vars
  BY <1>33 DEF vars
<1>34. QED
  BY <1>1, <1>2, <1>3, <1>4, <1>5, <1>6, <1>7, <1>8, <1>9, <1>10, <1>11,
       <1>12, <1>13, <1>14, <1>15, <1>16, <1>17, <1>18, <1>19, <1>20,
       <1>21, <1>22, <1>23, <1>24, <1>25, <1>25a, <1>26, <1>27, <1>28, <1>29,
       <1>30, <1>31, <1>32, <1>33
  DEF Next, AskStep, WriterStep, Quiet

\* An acknowledged --details is final.
THEOREM VetoSafe == Spec => VetoBinds
<1>1. IInv /\ [Next]_vars => [DetailsDone /\ vt # 2 => vt' # 2]_vars
  BY VetoAction DEF IInv
<1>2. QED
  BY Inductive, <1>1, PTL DEF Spec, VetoBinds

\* The console does not show through a boot that asks for no diagnostics.
THEOREM FlashSafe == Spec => NoConsoleFlash
<1>1. IInv /\ [Next]_vars
        => [ConsoleHidden]_vars
  BY FlashAction DEF IInv
<1>2. QED
  BY Inductive, <1>1, PTL DEF Spec, NoConsoleFlash
-----------------------------------------------------------------------------
(* The refinement of ScreenContract.                                       *)

\* Moving p between two places outside Painting shows and hides nothing.
LEMMA PaintsFrame ==
  ASSUME TypeOK, NEW p \in Procs, NEW t \in Pcs, pc' = [pc EXCEPT ![p] = t],
         pc[p] \notin Painting, t \notin Painting
  PROVE  somebodyPaints' = somebodyPaints
  BY DEF TypeOK, somebodyPaints

\* Nor does it grant or revoke anything away from "stopped".
LEMMA GrantFrame ==
  ASSUME TypeOK, NEW p \in Procs, NEW t \in Pcs, pc' = [pc EXCEPT ![p] = t],
         want' = want, pc[p] # "stopped",
         t # "stopped" \/ want[p] = "stop"
  PROVE  granted' = granted
  BY DEF TypeOK, granted, Procs

\* While p holds the lock, nobody else paints.
LEMMA SolePainter ==
  ASSUME TypeOK, LockInv, NEW p \in Procs, holder = p, pc[p] \notin Painting
  PROVE  ~somebodyPaints
  BY DEF LockInv, Holding, somebodyPaints

\* When the painter leaves Painting, nobody paints.
LEMMA LastPainter ==
  ASSUME TypeOK, LockInv, NEW p \in Procs, NEW t \in Pcs,
         pc' = [pc EXCEPT ![p] = t], holder = p, t \notin Painting
  PROVE  ~somebodyPaints'
  BY DEF TypeOK, LockInv, Holding, somebodyPaints

\* A process that dies releases the screen if it had it.
LEMMA DeathStep ==
  ASSUME TypeOK, LockInv, NEW p \in Procs, Live(p), NEW t \in Final, t # "stopped",
         pc' = [pc EXCEPT ![p] = t], want' = want, holder' = Free(p)
  PROVE  [Contract!ScreenNext]_(Contract!screenVars)
<1> USE DEF Pcs, Asking, Locking, Starting, Painting, Leaving, Marking, Final
<1>1. t \in Pcs /\ t \notin Painting /\ pc[p] # "stopped"
  BY DEF Live
<1>2. granted' = granted
  BY <1>1, GrantFrame
<1>3. CASE holder = p
  <2>1. ~somebodyPaints'
    BY <1>1, <1>3, LastPainter
  <2>2. holder' = NoProc /\ holder # NoProc
    BY <1>3 DEF Free
  <2>3. somebodyPaints' = FALSE
    BY <2>1 DEF somebodyPaints
  <2>4. Contract!Release
    BY <1>2, <2>2, <2>3 DEF Contract!Release
  <2>5. QED
    BY <2>4 DEF Contract!ScreenNext
<1>4. CASE holder # p
  <2>1. pc[p] \notin Painting
    BY <1>4 DEF LockInv, Holding
  <2>2. somebodyPaints' = somebodyPaints
    BY <1>1, <2>1, PaintsFrame
  <2>3. holder' = holder
    BY <1>4 DEF Free
  <2>4. QED
    BY <1>2, <2>2, <2>3 DEF Contract!screenVars
<1>5. QED
  BY <1>3, <1>4

\* p moves between places where it neither paints nor has been granted
\* anything, and the lock stays where it is.
Elsewhere == Pcs \ (Painting \cup {"stopped"})
Still(p) ==
  /\ pc[p] \in Elsewhere
  /\ \E t \in Elsewhere : pc' = [pc EXCEPT ![p] = t]
  /\ want' = want /\ holder' = holder

\* Such a move leaves the screen as it was.
LEMMA StillStep ==
  ASSUME TypeOK, NEW p \in Procs, Still(p)
  PROVE  [Contract!ScreenNext]_(Contract!screenVars)
  BY PaintsFrame, GrantFrame DEF Still, Elsewhere, Contract!screenVars

\* A painter that leaves its loop hides the boot UI.
LEMMA HideStep ==
  ASSUME TypeOK, LockInv, NEW p \in Procs, NEW t \in Pcs, t # "stopped",
         pc' = [pc EXCEPT ![p] = t], want' = want, holder' = holder,
         pc[p] \in Painting, t \notin Painting
  PROVE  [Contract!ScreenNext]_(Contract!screenVars)
<1>1. holder = p /\ pc[p] # "stopped"
  BY DEF LockInv, Holding, Painting
<1>2. somebodyPaints' = FALSE
  BY <1>1, LastPainter DEF somebodyPaints
<1>3. granted' = granted
  BY <1>1, GrantFrame
<1>4. QED
  BY <1>2, <1>3 DEF Contract!ScreenNext, Contract!Hide

\* A process that enters its loop shows it: no --details has been granted.
LEMMA ShowStep ==
  ASSUME TypeOK, LockInv, VetoInv, NEW p \in Writers \cup Monitors, want' = want,
         holder' = holder, pc' = [pc EXCEPT ![p] = "check"], pc[p] \in Starting
  PROVE  [Contract!ScreenNext]_(Contract!screenVars)
<1> USE DEF Pcs, Asking, Locking, Starting, Painting, Leaving, Marking, Final, Procs
<1>1. ~granted
  BY DEF VetoInv, granted, DetailsDone
<1>2. granted' = granted
  BY GrantFrame
<1>3. holder # NoProc
  BY KindsAssumption DEF LockInv, Holding
<1>4. somebodyPaints' = TRUE
  <2>1. pc'[p] = "check"
    BY DEF TypeOK
  <2>2. QED
    BY <2>1 DEF somebodyPaints
<1>5. QED
  BY <1>1, <1>2, <1>3, <1>4 DEF Contract!ScreenNext, Contract!Show

\* A process that gets the lock takes the screen.
LEMMA TakeStep ==
  ASSUME TypeOK, NEW p \in Procs, pc[p] \in Elsewhere,
         \E t \in Elsewhere : pc' = [pc EXCEPT ![p] = t],
         want' = want, holder = NoProc, holder' = p
  PROVE  [Contract!ScreenNext]_(Contract!screenVars)
<1>1. somebodyPaints' = somebodyPaints /\ granted' = granted
  BY PaintsFrame, GrantFrame DEF Elsewhere
<1>2. Contract!Take(p)
  BY <1>1 DEF Contract!Take
<1>3. QED
  BY <1>2 DEF Contract!ScreenNext

\* A request that has been granted gives the screen back.
LEMMA GrantStep ==
  ASSUME TypeOK, LockInv, NEW p \in Procs, holder = p, holder' = NoProc,
         NEW t \in Pcs, t \notin Painting, pc[p] \notin Painting,
         pc' = [pc EXCEPT ![p] = t], want' = want, pc[p] # "stopped"
  PROVE  [Contract!ScreenNext]_(Contract!screenVars)
<1>1. ~somebodyPaints /\ ~somebodyPaints'
  BY SolePainter, LastPainter
<1>2. somebodyPaints' = FALSE /\ (~somebodyPaints) = TRUE
  BY <1>1 DEF somebodyPaints
<1>3. granted' \in {granted, TRUE}
  <2>1. granted => granted'
    BY DEF TypeOK, granted, Procs
  <2>2. QED
    BY <2>1 DEF granted
<1>4. holder # NoProc
  BY KindsAssumption
<1>5. QED
  BY <1>2, <1>3, <1>4 DEF Contract!ScreenNext, Contract!Release

\* Every step of BootUi is a step of ScreenContract or leaves it alone.
LEMMA ContractStep == IInv /\ [Next]_vars => [Contract!ScreenNext]_(Contract!screenVars)
<1> SUFFICES ASSUME IInv, [Next]_vars
             PROVE  [Contract!ScreenNext]_(Contract!screenVars)
  OBVIOUS
<1> DEFINE Goal == [Contract!ScreenNext]_(Contract!screenVars)
<1>t. TypeOK /\ LockInv /\ VetoInv /\ OwnInv
  BY DEF IInv
<1> USE <1>t DEF Goto, Procs, Askers, Writers, local, files, screen, Pcs, Asking, Locking, Starting,
  Painting, Leaving, Marking, Final
<1> HIDE DEF Goal
<1>1. ASSUME NEW p \in Askers, OpenLock(p) PROVE Goal
  <2>1. Still(p)
    BY <1>1 DEF Still, Elsewhere, OpenLock
  <2>2. QED
    BY <2>1, StillStep DEF Goal
<1>2. ASSUME NEW p \in Askers, WriteVeto(p) PROVE Goal
  <2>1. Still(p)
    BY <1>2 DEF Still, Elsewhere, WriteVeto
  <2>2. QED
    BY <2>1, StillStep DEF Goal
<1>3. ASSUME NEW p \in Askers, NoLockFile(p) PROVE Goal
  <2>1. Still(p)
    BY <1>3 DEF Still, Elsewhere, NoLockFile, Unopposed
  <2>2. QED
    BY <2>1, StillStep DEF Goal
<1>4. ASSUME NEW p \in Askers, WriteRequest(p) PROVE Goal
  <2>1. Still(p)
    BY <1>4 DEF Still, Elsewhere, WriteRequest
  <2>2. QED
    BY <2>1, StillStep DEF Goal
<1>5. ASSUME NEW p \in Askers, TryLock(p) PROVE Goal
  <2>1. CASE holder = NoProc
    <3>1. /\ pc[p] \in Elsewhere /\ holder' = p /\ want' = want
          /\ \E t \in Elsewhere : pc' = [pc EXCEPT ![p] = t]
      BY <1>5, <2>1 DEF Elsewhere, TryLock
    <3>2. QED
      BY <2>1, <3>1, TakeStep DEF Goal
  <2>2. CASE holder # NoProc
    <3>1. Still(p)
      BY <1>5, <2>2 DEF Still, Elsewhere, TryLock
    <3>2. QED
      BY <3>1, StillStep DEF Goal
  <2>3. QED
    BY <2>1, <2>2
<1>6. ASSUME NEW p \in Askers, Reassert(p) PROVE Goal
  <2>1. Still(p)
    BY <1>6 DEF Still, Elsewhere, Reassert
  <2>2. QED
    BY <2>1, StillStep DEF Goal
<1>7. ASSUME NEW p \in Askers, GiveUp(p) PROVE Goal
  <2>1. Still(p)
    BY <1>7 DEF Still, Elsewhere, GiveUp, Refused
  <2>2. QED
    BY <2>1, StillStep DEF Goal
<1>8. ASSUME NEW p \in Askers, Acknowledged(p) PROVE Goal
  <2>1. CASE want[p] = "details"
    <3>1. Still(p)
      BY <1>8, <2>1 DEF Still, Elsewhere, Acknowledged
    <3>2. QED
      BY <3>1, StillStep DEF Goal
  <2>2. CASE want[p] = "stop"
    <3>1. holder = p
      BY <1>8 DEF Acknowledged, LockInv, Holding
    <3>2. QED
      BY <1>8, <2>2, <3>1, GrantStep DEF Goal, Acknowledged, Stopped
  <2>3. QED
    BY <1>8, <2>1, <2>2 DEF Acknowledged
<1>9. ASSUME NEW p \in Askers, CloseLock(p) PROVE Goal
  <2>1. holder = p
    BY <1>9 DEF CloseLock, LockInv, Holding
  <2>2. QED
    BY <1>9, <2>1, GrantStep DEF Goal, CloseLock
<1>10. ASSUME NEW p \in Writers \cup Monitors, CheckVeto(p) PROVE Goal
  <2>1. Still(p)
    BY <1>10 DEF Still, Elsewhere, CheckVeto
  <2>2. QED
    BY <2>1, StillStep DEF Goal
<1>11. ASSUME NEW p \in Writers \cup Monitors, Preload(p) PROVE Goal
  <2>1. Still(p)
    BY <1>11 DEF Still, Elsewhere, Preload
  <2>2. QED
    BY <2>1, StillStep DEF Goal
<1>12. ASSUME NEW p \in Writers \cup Monitors, CheckVetoAsked(p) PROVE Goal
  <2>1. Still(p)
    BY <1>12 DEF Still, Elsewhere, CheckVetoAsked
  <2>2. QED
    BY <2>1, StillStep DEF Goal
<1>13. ASSUME NEW p \in Writers \cup Monitors, TakeLock(p) PROVE Goal
  <2>1. CASE holder = NoProc
    <3>1. /\ pc[p] \in Elsewhere /\ holder' = p /\ want' = want
          /\ \E t \in Elsewhere : pc' = [pc EXCEPT ![p] = t]
      BY <1>13, <2>1 DEF Elsewhere, TakeLock
    <3>2. QED
      BY <2>1, <3>1, TakeStep DEF Goal
  <2>2. CASE holder # NoProc
    <3>1. Still(p)
      BY <1>13, <2>2 DEF Still, Elsewhere, TakeLock
    <3>2. QED
      BY <3>1, StillStep DEF Goal
  <2>3. QED
    BY <2>1, <2>2
<1>14. ASSUME NEW p \in Writers \cup Monitors, CheckVetoLocked(p) PROVE Goal
  <2>1. Still(p)
    BY <1>14 DEF Still, Elsewhere, CheckVetoLocked
  <2>2. QED
    BY <2>1, StillStep DEF Goal
<1>15. ASSUME NEW p \in Writers \cup Monitors, Announce(p) PROVE Goal
  <2>1. Still(p)
    BY <1>15 DEF Still, Elsewhere, Announce
  <2>2. QED
    BY <2>1, StillStep DEF Goal
<1>16. ASSUME NEW p \in Writers \cup Monitors, AwaitFramebuffer(p) PROVE Goal
  <2>1. Still(p)
    BY <1>16 DEF Still, Elsewhere, AwaitFramebuffer
  <2>2. QED
    BY <2>1, StillStep DEF Goal
<1>17. ASSUME NEW p \in Writers \cup Monitors, LoadAssets(p) PROVE Goal
  <2>1. Still(p)
    BY <1>17 DEF Still, Elsewhere, LoadAssets
  <2>2. QED
    BY <2>1, StillStep DEF Goal
<1>18. ASSUME NEW p \in Writers \cup Monitors, CheckVetoLoaded(p) PROVE Goal
  <2>1. Still(p)
    BY <1>18 DEF Still, Elsewhere, CheckVetoLoaded
  <2>2. QED
    BY <2>1, StillStep DEF Goal
<1>19. ASSUME NEW p \in Writers \cup Monitors, TakeVt(p) PROVE Goal
  <2>1. Still(p)
    BY <1>19 DEF Still, Elsewhere, TakeVt
  <2>2. QED
    BY <2>1, StillStep DEF Goal
<1>20. ASSUME NEW p \in Writers \cup Monitors, AwaitVt(p) PROVE Goal
  <2>1. CASE pc' = [pc EXCEPT ![p] = "check"]
    BY <1>20, <2>1, ShowStep DEF Goal, AwaitVt
  <2>2. CASE pc' # [pc EXCEPT ![p] = "check"]
    <3>1. Still(p)
      BY <1>20, <2>2 DEF Still, Elsewhere, AwaitVt
    <3>2. QED
      BY <3>1, StillStep DEF Goal
  <2>3. QED
    BY <2>1, <2>2
<1>21. ASSUME NEW p \in Writers \cup Monitors, Discover(p) PROVE Goal
  <2>1. CASE pc' = [pc EXCEPT ![p] = "check"]
    BY <1>21, <2>1, ShowStep DEF Goal, Discover
  <2>2. CASE pc' # [pc EXCEPT ![p] = "check"]
    <3>1. Still(p)
      BY <1>21, <2>2 DEF Still, Elsewhere, Discover
    <3>2. QED
      BY <3>1, StillStep DEF Goal
  <2>3. QED
    BY <2>1, <2>2
<1>22. ASSUME NEW p \in Writers \cup Monitors, Check(p) PROVE Goal
  <2>1. PICK t \in Pcs : pc' = [pc EXCEPT ![p] = t] /\ t # "stopped"
    BY <1>22 DEF Check, AfterCheck
  <2>2. CASE t \in Painting
    <3>1. somebodyPaints' = somebodyPaints
      BY <1>22, <2>1, <2>2 DEF Check, somebodyPaints, TypeOK
    <3>2. granted' = granted
      BY <1>22, <2>1, GrantFrame DEF Check
    <3>3. QED
      BY <1>22, <3>1, <3>2 DEF Goal, Check, Contract!screenVars
  <2>3. CASE t \notin Painting
    BY <1>22, <2>1, <2>3, HideStep DEF Goal, Check
  <2>4. QED
    BY <2>2, <2>3
<1>23. ASSUME NEW p \in Writers \cup Monitors, Escape(p) PROVE Goal
  <2>1. PICK t \in Pcs : pc' = [pc EXCEPT ![p] = t] /\ t # "stopped"
    BY <1>23 DEF Escape
  <2>2. CASE t \in Painting
    <3>1. somebodyPaints' = somebodyPaints
      BY <1>23, <2>1, <2>2 DEF Escape, somebodyPaints, TypeOK
    <3>2. granted' = granted
      BY <1>23, <2>1, GrantFrame DEF Escape
    <3>3. QED
      BY <1>23, <3>1, <3>2 DEF Goal, Escape, Contract!screenVars
  <2>3. CASE t \notin Painting
    BY <1>23, <2>1, <2>3, HideStep DEF Goal, Escape
  <2>4. QED
    BY <2>2, <2>3
<1>24. ASSUME NEW p \in Writers \cup Monitors, Paint(p) PROVE Goal
  <2>1. PICK t \in Pcs : pc' = [pc EXCEPT ![p] = t] /\ t # "stopped"
    BY <1>24 DEF Paint
  <2>2. CASE t \in Painting
    <3>1. somebodyPaints' = somebodyPaints
      BY <1>24, <2>1, <2>2 DEF Paint, somebodyPaints, TypeOK
    <3>2. granted' = granted
      BY <1>24, <2>1, GrantFrame DEF Paint
    <3>3. QED
      BY <1>24, <3>1, <3>2 DEF Goal, Paint, Contract!screenVars
  <2>3. CASE t \notin Painting
    BY <1>24, <2>1, <2>3, HideStep DEF Goal, Paint
  <2>4. QED
    BY <2>2, <2>3
<1>25. ASSUME NEW p \in Writers \cup Monitors, Restore(p) PROVE Goal
  <2>1. Still(p)
    BY <1>25 DEF Still, Elsewhere, Restore
  <2>2. QED
    BY <2>1, StillStep DEF Goal
<1>25a. ASSUME NEW p \in Writers \cup Monitors, Disable(p) PROVE Goal
  <2>1. Still(p)
    BY <1>25a DEF Still, Elsewhere, Disable
  <2>2. QED
    BY <2>1, StillStep DEF Goal
<1>26. ASSUME NEW p \in Writers \cup Monitors, Exit(p) PROVE Goal
  BY <1>26, DeathStep DEF Goal, Exit, Live
<1>27. ASSUME NEW p \in Writers \cup Monitors, Start(p) PROVE Goal
  <2>1. Still(p)
    BY <1>27 DEF Still, Elsewhere, Start
  <2>2. QED
    BY <2>1, StillStep DEF Goal
<1>28. ASSUME NEW p \in Writers \cup Monitors, Restart(p) PROVE Goal
  <2>1. Still(p)
    BY <1>28 DEF Still, Elsewhere, Restart
  <2>2. QED
    BY <2>1, StillStep DEF Goal
<1>29. ASSUME NEW p \in Procs, Terminate(p) PROVE Goal
  <2>1. CASE pc' = pc
    <3>1. somebodyPaints' = somebodyPaints /\ granted' = granted /\ holder' = holder
      BY <1>29, <2>1 DEF Terminate, Die, Live, somebodyPaints, granted, TypeOK
    <3>2. QED
      BY <3>1 DEF Goal, Contract!screenVars
  <2>2. CASE Die(p)
    BY <1>29, <2>2, DeathStep DEF Goal, Terminate, Die
  <2>3. CASE /\ pc[p] \notin Painting /\ holder' = holder /\ want' = want
             /\ \E t \in {"busy", "quit"} : pc' = [pc EXCEPT ![p] = t]
    <3>1. pc[p] \in Elsewhere
      BY <1>29, <2>3 DEF Elsewhere, Terminate, Live, TypeOK
    <3>2. "busy" \in Elsewhere /\ "quit" \in Elsewhere
      BY DEF Elsewhere
    <3>3. QED
      BY <2>3, <3>1, <3>2, StillStep DEF Goal, Still
  <2>4. CASE /\ pc[p] \in Painting /\ holder' = holder /\ want' = want
             /\ \E t \in {"busy", "quit"} : pc' = [pc EXCEPT ![p] = t]
    BY <1>29, <2>4, HideStep DEF Goal
  <2>5. QED
    BY <1>29, <2>1, <2>2, <2>3, <2>4 DEF Terminate
<1>30. ASSUME NEW p \in Requesters, NEW w \in {"stop", "details"}, Call(p, w) PROVE Goal
  <2>1. somebodyPaints' = somebodyPaints
    BY <1>30, PaintsFrame DEF Call
  <2>2. granted' = granted
    BY <1>30 DEF Call, granted, TypeOK
  <2>3. QED
    BY <1>30, <2>1, <2>2 DEF Goal, Call, Contract!screenVars
<1>31. ASSUME NEW p \in Procs, Kill(p) PROVE Goal
  BY <1>31, DeathStep DEF Goal, Kill, Die
<1>32. ASSUME SwitchAway PROVE Goal
  <2>1. pc' = pc /\ want' = want /\ holder' = holder
    BY <1>32 DEF SwitchAway
  <2>2. somebodyPaints' = somebodyPaints /\ granted' = granted
    BY <2>1 DEF somebodyPaints, granted
  <2>3. QED
    BY <2>1, <2>2 DEF Goal, Contract!screenVars
<1>33. ASSUME UNCHANGED vars PROVE Goal
  <2>1. pc' = pc /\ want' = want /\ holder' = holder
    BY <1>33 DEF vars
  <2>2. somebodyPaints' = somebodyPaints /\ granted' = granted
    BY <2>1 DEF somebodyPaints, granted
  <2>3. QED
    BY <2>1, <2>2 DEF Goal, Contract!screenVars
<1> HIDE DEF TypeOK, Goto, local, files, screen, Pcs, Asking, Locking, Starting,
  Painting, Leaving, Marking, Final, Procs, Askers, Writers
<1>34. ASSUME NEW p \in Askers, AskStep(p) PROVE Goal
  BY <1>34, <1>1, <1>2, <1>3, <1>4, <1>5, <1>6, <1>7, <1>8, <1>9
  DEF AskStep
<1>35. ASSUME NEW p \in Writers \cup Monitors, WriterStep(p) PROVE Goal
  BY <1>35, <1>10, <1>11, <1>12, <1>13, <1>14, <1>15, <1>16, <1>17, <1>18,
    <1>19, <1>20, <1>21, <1>22, <1>23, <1>24, <1>25, <1>25a, <1>26
  DEF WriterStep
<1>36. ASSUME Next PROVE Goal
  <2>1. ASSUME NEW p \in Writers \cup Monitors, WriterStep(p) \/ Start(p) \/ Restart(p) PROVE Goal
    BY <2>1, <1>35, <1>27, <1>28
  <2>2. ASSUME NEW p \in Procs, Kill(p) \/ Terminate(p) PROVE Goal
    BY <2>2, <1>29, <1>31
  <2>3. CASE Quiet
    BY <2>3, <1>33 DEF Quiet
  <2>4. CASE \E p \in Askers : AskStep(p)
    BY <2>4, <1>34
  <2>5. CASE \E p \in Writers \cup Monitors : WriterStep(p) \/ Start(p) \/ Restart(p)
    BY <2>5, <2>1
  <2>6. CASE \E p \in Requesters, w \in {"stop", "details"} : Call(p, w)
    BY <2>6, <1>30
  <2>7. CASE \E p \in Procs : Kill(p) \/ Terminate(p)
    BY <2>7, <2>2
  <2>8. QED
    BY <1>36, <2>3, <2>4, <2>5, <2>6, <2>7, <1>32 DEF Next
<1>37. QED
  BY <1>36, <1>33 DEF Goal

\* The implementation keeps the contract of ScreenContract.
THEOREM Refinement == Spec => KeepsContract
<1>1. Init => Contract!ScreenInit
  BY DEF Init, Contract!ScreenInit, somebodyPaints, granted, Painting, Procs
<1>2. QED
  BY <1>1, Inductive, ContractStep, PTL DEF Spec, KeepsContract, Contract!ScreenSpec
=============================================================================
