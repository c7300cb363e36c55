--------------------------- MODULE BootModeProofs ---------------------------
(***************************************************************************)
(* BootMode's safety properties and its refinement of BootContract, for    *)
(* every set of generations, firmware reports and faults.  IInv is         *)
(* inductive part by part: types, decision, flags, marker and selection,   *)
(* each part using the ones before it.  The two properties that a fault    *)
(* can break are proved for environments without that fault, from parts    *)
(* of their own.                                                           *)
(***************************************************************************)
EXTENDS BootMode, TLAPS

USE GensAssumption, FlagsAssumption, FaultsAssumption

-----------------------------------------------------------------------------
\* Writing or deleting the marker yields a file-system image.
LEMMA MarkerUpdate == \A r \in Images, b \in BOOLEAN : [r EXCEPT !.marker = b] \in Images
  BY DEF Images

\* start("prepare") shows the splash exactly when the firmware flags do not
\* ask for a charger boot.
LEMMA DetectorsAgree == \A f : EarlySplashShown(f) = ~DetectCharger(f)
  BY DEF EarlySplashShown, DetectCharger

\* EarlySplashShown is a truth value.
LEMMA EarlySplashType == \A f : EarlySplashShown(f) \in BOOLEAN
  BY DEF EarlySplashShown

-----------------------------------------------------------------------------
\* Every action keeps the variables within their types.
LEMMA TypeStep == TypeOK /\ [Next]_vars => TypeOK'
<1> SUFFICES ASSUME TypeOK, [Next]_vars PROVE TypeOK'
  OBVIOUS
<1> USE DEF TypeOK, Images, Phases, Stage1, Storing, Stage2, Running, boot, runFiles, targets, choice, promises
<1>1. CASE PowerOn
  <2>1. rw' \in BOOLEAN
    BY <1>1 DEF PowerOn
  <2>2. QED
    BY <1>1, <2>1 DEF PowerOn
<1>2. CASE Flush
  BY <1>2 DEF Flush
<1>3. CASE EarlySplash
  BY <1>3, EarlySplashType DEF EarlySplash
<1>4. CASE ConsumePending
  BY <1>4 DEF ConsumePending
<1>5. CASE CommitMode
  BY <1>5 DEF CommitMode, ChargerMode
<1>6. CASE EnterPending
  BY <1>6 DEF EnterPending
<1>7. CASE ShowMenu
  BY <1>7 DEF ShowMenu
<1>8. CASE EnterCharger
  BY <1>8 DEF EnterCharger
<1>9. CASE StorePending
  BY <1>9 DEF StorePending
<1>10. CASE StoreMarker
  <2>1. root' \in Images
    BY <1>10, MarkerUpdate DEF StoreMarker, Images
  <2>2. disk' \in Images
    BY <1>10, <2>1 DEF StoreMarker
  <2>3. promisedNormal' \in BOOLEAN
    BY <1>10 DEF StoreMarker
  <2>4. QED
    BY <1>10, <2>1, <2>2, <2>3 DEF StoreMarker
<1>11. CASE Sync
  BY <1>11 DEF Sync
<1>12. CASE ForcedReboot
  BY <1>12 DEF ForcedReboot, Restarted
<1>13. CASE MenuTimeout
  <2>1. normalFile' \in BOOLEAN /\ countdown' \in BOOLEAN
    BY <1>13 DEF MenuTimeout
  <2>2. QED
    BY <1>13, <2>1 DEF MenuTimeout
<1>14. CASE SwitchRoot
  BY <1>14 DEF SwitchRoot, RunGenerator, GeneratorMode
<1>15. CASE ConsumeMarker
  <2>1. root' \in Images
    BY <1>15, MarkerUpdate DEF ConsumeMarker, Images
  <2>2. disk' \in Images
    BY <1>15, <2>1 DEF ConsumeMarker
  <2>3. promisedNormal' \in BOOLEAN
    BY <1>15 DEF ConsumeMarker
  <2>4. QED
    BY <1>15, <2>1, <2>2, <2>3 DEF ConsumeMarker
<1>16. CASE StartDesktop
  BY <1>16 DEF StartDesktop
<1>17. CASE StartCharging
  BY <1>17 DEF StartCharging
<1>18. CASE RebootAccepted
  BY <1>18 DEF RebootAccepted
<1>19. CASE FinishShutdown
  BY <1>19 DEF FinishShutdown, Restarted
<1>20. CASE DaemonReload
  BY <1>20 DEF DaemonReload, RunGenerator, GeneratorMode
<1>21. CASE ChangeGenerations
  BY <1>21 DEF ChangeGenerations
<1>22. CASE OrderlyReboot
  <2>1. root' \in Images
    BY <1>22, MarkerUpdate DEF OrderlyReboot, Images
  <2>2. disk' \in Images
    BY <1>22, <2>1 DEF OrderlyReboot
  <2>3. promisedNormal' \in BOOLEAN
    BY <1>22 DEF OrderlyReboot
  <2>4. QED
    BY <1>22, <2>1, <2>2, <2>3 DEF OrderlyReboot
<1>23. CASE RequestNormalReboot
  <2>1. root' \in Images
    BY <1>23, MarkerUpdate DEF RequestNormalReboot, Images
  <2>2. disk' \in Images
    BY <1>23, <2>1 DEF RequestNormalReboot
  <2>3. promisedNormal' \in BOOLEAN
    BY <1>23 DEF RequestNormalReboot
  <2>4. QED
    BY <1>23, <2>1, <2>2, <2>3 DEF RequestNormalReboot
<1>24. CASE PowerOff
  BY <1>24 DEF PowerOff, Restarted
<1>25. CASE Crash
  BY <1>25 DEF Crash, Restarted, DropConsumedPromise
<1>26. CASE CriticalPowerOff
  BY <1>26 DEF CriticalPowerOff, Restarted, DropConsumedPromise
<1>27. CASE LegacyStage1
  BY <1>27 DEF LegacyStage1
<1>28. CASE ForcedRebootFails
  BY <1>28 DEF ForcedRebootFails
<1>29. CASE RebootRefused
  BY <1>29 DEF RebootRefused
<1>30. ASSUME NEW g \in Gens, MenuConfirm(g) PROVE TypeOK'
  <2>1. normalFile' \in BOOLEAN /\ countdown' \in BOOLEAN
    BY <1>30 DEF MenuConfirm
  <2>2. QED
    BY <1>30, <2>1 DEF MenuConfirm
<1>31. CASE UNCHANGED vars
  BY <1>31 DEF vars
<1>32. CASE MoveSelection
  <2>1. countdown' \in BOOLEAN
    BY <1>32 DEF MoveSelection
  <2>2. QED
    BY <1>32, <2>1 DEF MoveSelection
<1>33. QED
  BY <1>1, <1>2, <1>3, <1>4, <1>5, <1>6, <1>7, <1>8, <1>9, <1>10, <1>11,
       <1>12, <1>13, <1>14, <1>15, <1>16, <1>17, <1>18, <1>19, <1>20,
       <1>21, <1>22, <1>23, <1>24, <1>25, <1>26, <1>27, <1>28, <1>29,
       <1>30, <1>31, <1>32
  DEF Next, Stage1Step, MenuStep, Stage2Step, UserStep, FaultStep

\* Before the decision there is none; after it, it stays; only it leads to the
\* charging target.
LEMMA DecisionStep == TypeOK /\ DecisionInv /\ [Next]_vars => DecisionInv'
<1> SUFFICES ASSUME TypeOK /\ DecisionInv, [Next]_vars PROVE DecisionInv'
  OBVIOUS
<1> USE DEF TypeOK, DecisionInv, Phases, Stage1, Storing, Stage2, Running, boot, runFiles, targets, choice, promises
<1>1. CASE PowerOn
  BY <1>1 DEF PowerOn
<1>2. CASE Flush
  BY <1>2 DEF Flush
<1>3. CASE EarlySplash
  BY <1>3 DEF EarlySplash
<1>4. CASE ConsumePending
  BY <1>4 DEF ConsumePending
<1>5. CASE CommitMode
  BY <1>5 DEF CommitMode, ChargerMode
<1>6. CASE EnterPending
  BY <1>6 DEF EnterPending
<1>7. CASE ShowMenu
  BY <1>7 DEF ShowMenu
<1>8. CASE EnterCharger
  BY <1>8 DEF EnterCharger
<1>9. CASE StorePending
  BY <1>9 DEF StorePending
<1>10. CASE StoreMarker
  BY <1>10 DEF StoreMarker
<1>11. CASE Sync
  BY <1>11 DEF Sync
<1>12. CASE ForcedReboot
  BY <1>12 DEF ForcedReboot, Restarted
<1>13. CASE MenuTimeout
  BY <1>13 DEF MenuTimeout
<1>14. CASE SwitchRoot
  BY <1>14 DEF SwitchRoot, RunGenerator, GeneratorMode
<1>15. CASE ConsumeMarker
  BY <1>15 DEF ConsumeMarker
<1>16. CASE StartDesktop
  BY <1>16 DEF StartDesktop
<1>17. CASE StartCharging
  BY <1>17 DEF StartCharging
<1>18. CASE RebootAccepted
  BY <1>18 DEF RebootAccepted
<1>19. CASE FinishShutdown
  BY <1>19 DEF FinishShutdown, Restarted
<1>20. CASE DaemonReload
  BY <1>20 DEF DaemonReload, RunGenerator, GeneratorMode
<1>21. CASE ChangeGenerations
  BY <1>21 DEF ChangeGenerations
<1>22. CASE OrderlyReboot
  BY <1>22 DEF OrderlyReboot
<1>23. CASE RequestNormalReboot
  BY <1>23 DEF RequestNormalReboot
<1>24. CASE PowerOff
  BY <1>24 DEF PowerOff, Restarted
<1>25. CASE Crash
  BY <1>25 DEF Crash, Restarted, DropConsumedPromise
<1>26. CASE CriticalPowerOff
  BY <1>26 DEF CriticalPowerOff, Restarted, DropConsumedPromise
<1>27. CASE LegacyStage1
  BY <1>27 DEF LegacyStage1
<1>28. CASE ForcedRebootFails
  BY <1>28 DEF ForcedRebootFails
<1>29. CASE RebootRefused
  BY <1>29 DEF RebootRefused
<1>30. ASSUME NEW g \in Gens, MenuConfirm(g) PROVE DecisionInv'
  BY <1>30 DEF MenuConfirm
<1>31. CASE UNCHANGED vars
  BY <1>31 DEF vars
<1>32. CASE MoveSelection
  BY <1>32 DEF MoveSelection
<1>33. QED
  BY <1>1, <1>2, <1>3, <1>4, <1>5, <1>6, <1>7, <1>8, <1>9, <1>10, <1>11,
       <1>12, <1>13, <1>14, <1>15, <1>16, <1>17, <1>18, <1>19, <1>20,
       <1>21, <1>22, <1>23, <1>24, <1>25, <1>26, <1>27, <1>28, <1>29,
       <1>30, <1>31, <1>32
  DEF Next, Stage1Step, MenuStep, Stage2Step, UserStep, FaultStep

\* The two readings of the firmware flags stay in agreement.
LEMMA FlagsStep == TypeOK /\ DecisionInv /\ FlagsInv /\ [Next]_vars => FlagsInv'
<1> SUFFICES ASSUME TypeOK /\ DecisionInv /\ FlagsInv, [Next]_vars PROVE FlagsInv'
  OBVIOUS
<1> USE DEF TypeOK, DecisionInv, FlagsInv, Phases, Stage1, Storing, Stage2, Running, boot, runFiles, targets, choice, promises
<1>1. CASE PowerOn
  BY <1>1 DEF PowerOn
<1>2. CASE Flush
  BY <1>2 DEF Flush
<1>3. CASE EarlySplash
  BY <1>3 DEF EarlySplash
<1>4. CASE ConsumePending
  BY <1>4 DEF ConsumePending
<1>5. CASE CommitMode
  BY <1>5, DetectorsAgree DEF CommitMode, ChargerMode
<1>6. CASE EnterPending
  BY <1>6 DEF EnterPending
<1>7. CASE ShowMenu
  BY <1>7 DEF ShowMenu
<1>8. CASE EnterCharger
  BY <1>8 DEF EnterCharger
<1>9. CASE StorePending
  BY <1>9 DEF StorePending
<1>10. CASE StoreMarker
  BY <1>10 DEF StoreMarker
<1>11. CASE Sync
  BY <1>11 DEF Sync
<1>12. CASE ForcedReboot
  BY <1>12 DEF ForcedReboot, Restarted
<1>13. CASE MenuTimeout
  BY <1>13 DEF MenuTimeout
<1>14. CASE SwitchRoot
  BY <1>14 DEF SwitchRoot, RunGenerator, GeneratorMode
<1>15. CASE ConsumeMarker
  BY <1>15 DEF ConsumeMarker
<1>16. CASE StartDesktop
  BY <1>16 DEF StartDesktop
<1>17. CASE StartCharging
  BY <1>17 DEF StartCharging
<1>18. CASE RebootAccepted
  BY <1>18 DEF RebootAccepted
<1>19. CASE FinishShutdown
  BY <1>19 DEF FinishShutdown, Restarted
<1>20. CASE DaemonReload
  BY <1>20 DEF DaemonReload, RunGenerator, GeneratorMode
<1>21. CASE ChangeGenerations
  BY <1>21 DEF ChangeGenerations
<1>22. CASE OrderlyReboot
  BY <1>22 DEF OrderlyReboot
<1>23. CASE RequestNormalReboot
  BY <1>23 DEF RequestNormalReboot
<1>24. CASE PowerOff
  BY <1>24 DEF PowerOff, Restarted
<1>25. CASE Crash
  BY <1>25 DEF Crash, Restarted, DropConsumedPromise
<1>26. CASE CriticalPowerOff
  BY <1>26 DEF CriticalPowerOff, Restarted, DropConsumedPromise
<1>27. CASE LegacyStage1
  BY <1>27 DEF LegacyStage1
<1>28. CASE ForcedRebootFails
  BY <1>28 DEF ForcedRebootFails
<1>29. CASE RebootRefused
  BY <1>29 DEF RebootRefused
<1>30. ASSUME NEW g \in Gens, MenuConfirm(g) PROVE FlagsInv'
  BY <1>30 DEF MenuConfirm
<1>31. CASE UNCHANGED vars
  BY <1>31 DEF vars
<1>32. CASE MoveSelection
  BY <1>32 DEF MoveSelection
<1>33. QED
  BY <1>1, <1>2, <1>3, <1>4, <1>5, <1>6, <1>7, <1>8, <1>9, <1>10, <1>11,
       <1>12, <1>13, <1>14, <1>15, <1>16, <1>17, <1>18, <1>19, <1>20,
       <1>21, <1>22, <1>23, <1>24, <1>25, <1>26, <1>27, <1>28, <1>29,
       <1>30, <1>31, <1>32
  DEF Next, Stage1Step, MenuStep, Stage2Step, UserStep, FaultStep

\* An unserved wish for a normal boot stays on the disk and decides.
LEMMA MarkerStep == TypeOK /\ DecisionInv /\ MarkerInv /\ [Next]_vars => MarkerInv'
<1> SUFFICES ASSUME TypeOK /\ DecisionInv /\ MarkerInv, [Next]_vars PROVE MarkerInv'
  OBVIOUS
<1> USE DEF TypeOK, Images, DecisionInv, MarkerInv, NormalBootKept, Phases, Stage1, Storing, Stage2, Running, boot, runFiles, targets, choice, promises
<1>1. CASE PowerOn
  BY <1>1 DEF PowerOn
<1>2. CASE Flush
  BY <1>2 DEF Flush
<1>3. CASE EarlySplash
  BY <1>3 DEF EarlySplash
<1>4. CASE ConsumePending
  BY <1>4 DEF ConsumePending
<1>5. CASE CommitMode
  BY <1>5 DEF CommitMode, ChargerMode
<1>6. CASE EnterPending
  BY <1>6 DEF EnterPending
<1>7. CASE ShowMenu
  BY <1>7 DEF ShowMenu
<1>8. CASE EnterCharger
  BY <1>8 DEF EnterCharger
<1>9. CASE StorePending
  BY <1>9 DEF StorePending
<1>10. CASE StoreMarker
  BY <1>10 DEF StoreMarker
<1>11. CASE Sync
  BY <1>11 DEF Sync
<1>12. CASE ForcedReboot
  BY <1>12 DEF ForcedReboot, Restarted
<1>13. CASE MenuTimeout
  BY <1>13 DEF MenuTimeout
<1>14. CASE SwitchRoot
  BY <1>14 DEF SwitchRoot, RunGenerator, GeneratorMode
<1>15. CASE ConsumeMarker
  BY <1>15 DEF ConsumeMarker
<1>16. CASE StartDesktop
  BY <1>16 DEF StartDesktop
<1>17. CASE StartCharging
  BY <1>17 DEF StartCharging
<1>18. CASE RebootAccepted
  BY <1>18 DEF RebootAccepted
<1>19. CASE FinishShutdown
  BY <1>19 DEF FinishShutdown, Restarted
<1>20. CASE DaemonReload
  BY <1>20 DEF DaemonReload, RunGenerator, GeneratorMode
<1>21. CASE ChangeGenerations
  BY <1>21 DEF ChangeGenerations
<1>22. CASE OrderlyReboot
  BY <1>22 DEF OrderlyReboot
<1>23. CASE RequestNormalReboot
  BY <1>23 DEF RequestNormalReboot
<1>24. CASE PowerOff
  BY <1>24 DEF PowerOff, Restarted
<1>25. CASE Crash
  BY <1>25 DEF Crash, Restarted, DropConsumedPromise
<1>26. CASE CriticalPowerOff
  BY <1>26 DEF CriticalPowerOff, Restarted, DropConsumedPromise
<1>27. CASE LegacyStage1
  BY <1>27 DEF LegacyStage1
<1>28. CASE ForcedRebootFails
  BY <1>28 DEF ForcedRebootFails
<1>29. CASE RebootRefused
  BY <1>29 DEF RebootRefused
<1>30. ASSUME NEW g \in Gens, MenuConfirm(g) PROVE MarkerInv'
  BY <1>30 DEF MenuConfirm
<1>31. CASE UNCHANGED vars
  BY <1>31 DEF vars
<1>32. CASE MoveSelection
  BY <1>32 DEF MoveSelection
<1>33. QED
  BY <1>1, <1>2, <1>3, <1>4, <1>5, <1>6, <1>7, <1>8, <1>9, <1>10, <1>11,
       <1>12, <1>13, <1>14, <1>15, <1>16, <1>17, <1>18, <1>19, <1>20,
       <1>21, <1>22, <1>23, <1>24, <1>25, <1>26, <1>27, <1>28, <1>29,
       <1>30, <1>31, <1>32
  DEF Next, Stage1Step, MenuStep, Stage2Step, UserStep, FaultStep

\* A promised generation stays where a boot will find it.
LEMMA SelectionStep == TypeOK /\ DecisionInv /\ SelectionInv /\ [Next]_vars => SelectionInv'
<1> SUFFICES ASSUME TypeOK /\ DecisionInv /\ SelectionInv, [Next]_vars PROVE SelectionInv'
  OBVIOUS
<1> USE DEF TypeOK, Images, DecisionInv, SelectionInv, Unconsumed, Phases, Stage1, Storing, Stage2, Running, boot, runFiles, targets, choice, promises
<1>1. CASE PowerOn
  BY <1>1 DEF PowerOn
<1>2. CASE Flush
  BY <1>2 DEF Flush
<1>3. CASE EarlySplash
  BY <1>3 DEF EarlySplash
<1>4. CASE ConsumePending
  BY <1>4 DEF ConsumePending
<1>5. CASE CommitMode
  BY <1>5 DEF CommitMode, ChargerMode
<1>6. CASE EnterPending
  BY <1>6 DEF EnterPending
<1>7. CASE ShowMenu
  BY <1>7 DEF ShowMenu
<1>8. CASE EnterCharger
  BY <1>8 DEF EnterCharger
<1>9. CASE StorePending
  BY <1>9 DEF StorePending
<1>10. CASE StoreMarker
  BY <1>10 DEF StoreMarker
<1>11. CASE Sync
  BY <1>11 DEF Sync
<1>12. CASE ForcedReboot
  BY <1>12 DEF ForcedReboot, Restarted
<1>13. CASE MenuTimeout
  BY <1>13 DEF MenuTimeout
<1>14. CASE SwitchRoot
  BY <1>14 DEF SwitchRoot, RunGenerator, GeneratorMode
<1>15. CASE ConsumeMarker
  BY <1>15 DEF ConsumeMarker
<1>16. CASE StartDesktop
  BY <1>16 DEF StartDesktop
<1>17. CASE StartCharging
  BY <1>17 DEF StartCharging
<1>18. CASE RebootAccepted
  BY <1>18 DEF RebootAccepted
<1>19. CASE FinishShutdown
  BY <1>19 DEF FinishShutdown, Restarted
<1>20. CASE DaemonReload
  BY <1>20 DEF DaemonReload, RunGenerator, GeneratorMode
<1>21. CASE ChangeGenerations
  BY <1>21 DEF ChangeGenerations
<1>22. CASE OrderlyReboot
  BY <1>22 DEF OrderlyReboot
<1>23. CASE RequestNormalReboot
  BY <1>23 DEF RequestNormalReboot
<1>24. CASE PowerOff
  BY <1>24 DEF PowerOff, Restarted
<1>25. CASE Crash
  BY <1>25 DEF Crash, Restarted, DropConsumedPromise
<1>26. CASE CriticalPowerOff
  BY <1>26 DEF CriticalPowerOff, Restarted, DropConsumedPromise
<1>27. CASE LegacyStage1
  BY <1>27 DEF LegacyStage1
<1>28. CASE ForcedRebootFails
  BY <1>28 DEF ForcedRebootFails
<1>29. CASE RebootRefused
  BY <1>29 DEF RebootRefused
<1>30. ASSUME NEW g \in Gens, MenuConfirm(g) PROVE SelectionInv'
  BY <1>30 DEF MenuConfirm
<1>31. CASE UNCHANGED vars
  BY <1>31 DEF vars
<1>32. CASE MoveSelection
  BY <1>32 DEF MoveSelection
<1>33. QED
  BY <1>1, <1>2, <1>3, <1>4, <1>5, <1>6, <1>7, <1>8, <1>9, <1>10, <1>11,
       <1>12, <1>13, <1>14, <1>15, <1>16, <1>17, <1>18, <1>19, <1>20,
       <1>21, <1>22, <1>23, <1>24, <1>25, <1>26, <1>27, <1>28, <1>29,
       <1>30, <1>31, <1>32
  DEF Next, Stage1Step, MenuStep, Stage2Step, UserStep, FaultStep

-----------------------------------------------------------------------------
\* The inductive invariant holds initially.
LEMMA InitIInv == Init => IInv
<1> SUFFICES ASSUME Init PROVE IInv
  OBVIOUS
<1> USE DEF Init, Phases, Stage1, Storing, Stage2, Running
<1>1. TypeOK
  <2>1. [marker |-> FALSE, pending |-> NoGen, gens |-> Gens] \in Images
    BY DEF Images
  <2>2. root \in Images /\ disk \in Images
    BY <2>1
  <2>3. /\ rw \in BOOLEAN /\ normalFile \in BOOLEAN /\ doneFile \in BOOLEAN
        /\ menuShown \in BOOLEAN /\ promisedNormal \in BOOLEAN
    OBVIOUS
  <2>4. served \in 0 .. 2
    OBVIOUS
  <2>5. QED
    BY <2>2, <2>3, <2>4 DEF TypeOK
<1>2. DecisionInv
  BY DEF DecisionInv
<1>3. FlagsInv
  BY DEF FlagsInv
<1>4. MarkerInv
  BY DEF MarkerInv, NormalBootKept
<1>5. SelectionInv
  BY DEF SelectionInv
<1>6. QED
  BY <1>1, <1>2, <1>3, <1>4, <1>5 DEF IInv

\* The inductive invariant holds in every reachable state.
THEOREM Inductive == Spec => []IInv
<1>1. IInv /\ [Next]_vars => IInv'
  BY TypeStep, DecisionStep, FlagsStep, MarkerStep, SelectionStep DEF IInv
<1>2. QED
  BY InitIInv, <1>1, PTL DEF Spec

\* Type correctness.
THEOREM TypeCorrect == Spec => []TypeOK
<1>1. IInv => TypeOK
  BY DEF IInv
<1>2. QED
  BY Inductive, <1>1, PTL

\* A boot that has shown the menu is never routed into offline charging.
THEOREM MenuSafe == Spec => []MenuNeverCharges
<1>1. IInv => MenuNeverCharges
  BY DEF IInv, TypeOK, DecisionInv, MenuNeverCharges
<1>2. QED
  BY Inductive, <1>1, PTL

\* The splash unit's condition file is absent from every charger boot.
THEOREM SplashSafe == Spec => []SplashNeverInCharger
<1>1. IInv => SplashNeverInCharger
  BY DEF IInv, FlagsInv, SplashNeverInCharger
<1>2. QED
  BY Inductive, <1>1, PTL

\* An accepted restart into the normal system decides the following boots
\* until it is served.
THEOREM NormalBootSafe == Spec => []NormalBootKept
<1>1. IInv => NormalBootKept
  BY DEF IInv, MarkerInv
<1>2. QED
  BY Inductive, <1>1, PTL

\* A completed menu handoff is honoured exactly.
THEOREM SelectionSafe == Spec => []SelectionKept
<1>1. IInv => SelectionKept
  BY DEF IInv, TypeOK, DecisionInv, SelectionInv, SelectionKept, Storing
<1>2. QED
  BY Inductive, <1>1, PTL

\* A boot acts on a stored selection only after deleting it.
THEOREM PendingSafe == Spec => []PendingDeletedBeforeUse
<1>1. IInv => PendingDeletedBeforeUse
  BY DEF IInv, SelectionInv, PendingDeletedBeforeUse, Stage1
<1>2. QED
  BY Inductive, <1>1, PTL

-----------------------------------------------------------------------------
\* A decided boot keeps its decision until it ends.
THEOREM LatchSafe == Spec => ModeLatched
<1>1. ASSUME IInv, [Next]_vars
      PROVE  (mode # "none" /\ phase' \notin {"off", "restart"} => mode' = mode)
  <2> USE <1>1 DEF IInv, TypeOK, DecisionInv, boot, runFiles, targets, choice, promises
  <2>1. CASE PowerOn
    BY <2>1 DEF PowerOn
  <2>2. CASE Flush
    BY <2>2 DEF Flush
  <2>3. CASE EarlySplash
    BY <2>3 DEF EarlySplash
  <2>4. CASE ConsumePending
    BY <2>4 DEF ConsumePending
  <2>5. CASE CommitMode
    BY <2>5 DEF CommitMode, ChargerMode
  <2>6. CASE EnterPending
    BY <2>6 DEF EnterPending
  <2>7. CASE ShowMenu
    BY <2>7 DEF ShowMenu
  <2>8. CASE EnterCharger
    BY <2>8 DEF EnterCharger
  <2>9. CASE StorePending
    BY <2>9 DEF StorePending
  <2>10. CASE StoreMarker
    BY <2>10 DEF StoreMarker
  <2>11. CASE Sync
    BY <2>11 DEF Sync
  <2>12. CASE ForcedReboot
    BY <2>12 DEF ForcedReboot, Restarted
  <2>13. CASE MenuTimeout
    BY <2>13 DEF MenuTimeout
  <2>14. CASE SwitchRoot
    BY <2>14 DEF SwitchRoot, RunGenerator, GeneratorMode
  <2>15. CASE ConsumeMarker
    BY <2>15 DEF ConsumeMarker
  <2>16. CASE StartDesktop
    BY <2>16 DEF StartDesktop
  <2>17. CASE StartCharging
    BY <2>17 DEF StartCharging
  <2>18. CASE RebootAccepted
    BY <2>18 DEF RebootAccepted
  <2>19. CASE FinishShutdown
    BY <2>19 DEF FinishShutdown, Restarted
  <2>20. CASE DaemonReload
    BY <2>20 DEF DaemonReload, RunGenerator, GeneratorMode
  <2>21. CASE ChangeGenerations
    BY <2>21 DEF ChangeGenerations
  <2>22. CASE OrderlyReboot
    BY <2>22 DEF OrderlyReboot
  <2>23. CASE RequestNormalReboot
    BY <2>23 DEF RequestNormalReboot
  <2>24. CASE PowerOff
    BY <2>24 DEF PowerOff, Restarted
  <2>25. CASE Crash
    BY <2>25 DEF Crash, Restarted
  <2>26. CASE CriticalPowerOff
    BY <2>26 DEF CriticalPowerOff, Restarted
  <2>27. CASE LegacyStage1
    BY <2>27 DEF LegacyStage1
  <2>28. CASE ForcedRebootFails
    BY <2>28 DEF ForcedRebootFails
  <2>29. CASE RebootRefused
    BY <2>29 DEF RebootRefused
  <2>30. ASSUME NEW g \in Gens, MenuConfirm(g) PROVE (mode # "none" /\ phase' \notin {"off", "restart"} => mode' = mode)
    BY <2>30 DEF MenuConfirm
  <2>31. CASE UNCHANGED vars
    BY <2>31 DEF vars
  <2>32. CASE MoveSelection
    BY <2>32 DEF MoveSelection
  <2>33. QED
    BY <2>1, <2>2, <2>3, <2>4, <2>5, <2>6, <2>7, <2>8, <2>9, <2>10,
         <2>11, <2>12, <2>13, <2>14, <2>15, <2>16, <2>17, <2>18, <2>19,
         <2>20, <2>21, <2>22, <2>23, <2>24, <2>25, <2>26, <2>27, <2>28,
         <2>29, <2>30, <2>31, <2>32
    DEF Next, Stage1Step, MenuStep, Stage2Step, UserStep, FaultStep
<1>2. QED
  BY Inductive, <1>1, PTL DEF Spec, ModeLatched

\* A running desktop is never reclassified as a charger boot.
THEOREM DesktopSafe == Spec => DesktopNeverReclassified
<1>1. ASSUME IInv, [Next]_vars
      PROVE  (phase = "desktop" /\ phase' = "desktop" /\ mode # "charger"
         => mode' # "charger" /\ target' = "graphical")
  <2> USE <1>1 DEF IInv, TypeOK, DecisionInv, boot, runFiles, targets, choice, promises
  <2>1. CASE PowerOn
    BY <2>1 DEF PowerOn
  <2>2. CASE Flush
    BY <2>2 DEF Flush
  <2>3. CASE EarlySplash
    BY <2>3 DEF EarlySplash
  <2>4. CASE ConsumePending
    BY <2>4 DEF ConsumePending
  <2>5. CASE CommitMode
    BY <2>5 DEF CommitMode, ChargerMode
  <2>6. CASE EnterPending
    BY <2>6 DEF EnterPending
  <2>7. CASE ShowMenu
    BY <2>7 DEF ShowMenu
  <2>8. CASE EnterCharger
    BY <2>8 DEF EnterCharger
  <2>9. CASE StorePending
    BY <2>9 DEF StorePending
  <2>10. CASE StoreMarker
    BY <2>10 DEF StoreMarker
  <2>11. CASE Sync
    BY <2>11 DEF Sync
  <2>12. CASE ForcedReboot
    BY <2>12 DEF ForcedReboot, Restarted
  <2>13. CASE MenuTimeout
    BY <2>13 DEF MenuTimeout
  <2>14. CASE SwitchRoot
    BY <2>14 DEF SwitchRoot, RunGenerator, GeneratorMode
  <2>15. CASE ConsumeMarker
    BY <2>15 DEF ConsumeMarker
  <2>16. CASE StartDesktop
    BY <2>16 DEF StartDesktop
  <2>17. CASE StartCharging
    BY <2>17 DEF StartCharging
  <2>18. CASE RebootAccepted
    BY <2>18 DEF RebootAccepted
  <2>19. CASE FinishShutdown
    BY <2>19 DEF FinishShutdown, Restarted
  <2>20. CASE DaemonReload
    BY <2>20 DEF DaemonReload, RunGenerator, GeneratorMode
  <2>21. CASE ChangeGenerations
    BY <2>21 DEF ChangeGenerations
  <2>22. CASE OrderlyReboot
    BY <2>22 DEF OrderlyReboot
  <2>23. CASE RequestNormalReboot
    BY <2>23 DEF RequestNormalReboot
  <2>24. CASE PowerOff
    BY <2>24 DEF PowerOff, Restarted
  <2>25. CASE Crash
    BY <2>25 DEF Crash, Restarted
  <2>26. CASE CriticalPowerOff
    BY <2>26 DEF CriticalPowerOff, Restarted
  <2>27. CASE LegacyStage1
    BY <2>27 DEF LegacyStage1
  <2>28. CASE ForcedRebootFails
    BY <2>28 DEF ForcedRebootFails
  <2>29. CASE RebootRefused
    BY <2>29 DEF RebootRefused
  <2>30. ASSUME NEW g \in Gens, MenuConfirm(g) PROVE (phase = "desktop" /\ phase' = "desktop" /\ mode # "charger"
         => mode' # "charger" /\ target' = "graphical")
    BY <2>30 DEF MenuConfirm
  <2>31. CASE UNCHANGED vars
    BY <2>31 DEF vars
  <2>32. CASE MoveSelection
    BY <2>32 DEF MoveSelection
  <2>33. QED
    BY <2>1, <2>2, <2>3, <2>4, <2>5, <2>6, <2>7, <2>8, <2>9, <2>10,
         <2>11, <2>12, <2>13, <2>14, <2>15, <2>16, <2>17, <2>18, <2>19,
         <2>20, <2>21, <2>22, <2>23, <2>24, <2>25, <2>26, <2>27, <2>28,
         <2>29, <2>30, <2>31, <2>32
    DEF Next, Stage1Step, MenuStep, Stage2Step, UserStep, FaultStep
<1>2. QED
  BY Inductive, <1>1, PTL DEF Spec, DesktopNeverReclassified

\* The files, detectors and generator implement the abstract contract: every
\* step is a contract step or leaves the contract's state alone.
THEOREM Refinement == Spec => ImplementsContract
<1>1. Init => Contract!ContractInit
  BY DEF Init, Contract!ContractInit, running
<1>2. ASSUME IInv, [Next]_vars
      PROVE  [Contract!ContractNext]_(Contract!contractVars)
  <2> USE <1>2 DEF IInv, TypeOK, DecisionInv, MarkerInv, NormalBootKept, running,
         Contract!ContractNext, Contract!contractVars, Contract!Decide,
         Contract!Serve, Contract!Start, Contract!Ask, Contract!Stop,
         Contract!Restart, Stage1, Storing, Running, boot, runFiles, targets, choice, promises
  <2>1. CASE PowerOn
    BY <2>1 DEF PowerOn
  <2>2. CASE Flush
    BY <2>2 DEF Flush
  <2>3. CASE EarlySplash
    BY <2>3 DEF EarlySplash
  <2>4. CASE ConsumePending
    BY <2>4 DEF ConsumePending
  <2>5. CASE CommitMode
    BY <2>5 DEF CommitMode, ChargerMode
  <2>6. CASE EnterPending
    BY <2>6 DEF EnterPending
  <2>7. CASE ShowMenu
    BY <2>7 DEF ShowMenu
  <2>8. CASE EnterCharger
    BY <2>8 DEF EnterCharger
  <2>9. CASE StorePending
    BY <2>9 DEF StorePending
  <2>10. CASE StoreMarker
    BY <2>10 DEF StoreMarker
  <2>11. CASE Sync
    BY <2>11 DEF Sync
  <2>12. CASE ForcedReboot
    BY <2>12 DEF ForcedReboot, Restarted
  <2>13. CASE MenuTimeout
    BY <2>13 DEF MenuTimeout
  <2>14. CASE SwitchRoot
    BY <2>14 DEF SwitchRoot, RunGenerator, GeneratorMode
  <2>15. CASE ConsumeMarker
    BY <2>15 DEF ConsumeMarker
  <2>16. CASE StartDesktop
    BY <2>16 DEF StartDesktop
  <2>17. CASE StartCharging
    BY <2>17 DEF StartCharging
  <2>18. CASE RebootAccepted
    BY <2>18 DEF RebootAccepted
  <2>19. CASE FinishShutdown
    BY <2>19 DEF FinishShutdown, Restarted
  <2>20. CASE DaemonReload
    BY <2>20 DEF DaemonReload, RunGenerator, GeneratorMode
  <2>21. CASE ChangeGenerations
    BY <2>21 DEF ChangeGenerations
  <2>22. CASE OrderlyReboot
    BY <2>22 DEF OrderlyReboot
  <2>23. CASE RequestNormalReboot
    BY <2>23 DEF RequestNormalReboot
  <2>24. CASE PowerOff
    BY <2>24 DEF PowerOff, Restarted
  <2>25. CASE Crash
    BY <2>25 DEF Crash, Restarted
  <2>26. CASE CriticalPowerOff
    BY <2>26 DEF CriticalPowerOff, Restarted
  <2>27. CASE LegacyStage1
    BY <2>27 DEF LegacyStage1
  <2>28. CASE ForcedRebootFails
    BY <2>28 DEF ForcedRebootFails
  <2>29. CASE RebootRefused
    BY <2>29 DEF RebootRefused
  <2>30. ASSUME NEW g \in Gens, MenuConfirm(g) PROVE [Contract!ContractNext]_(Contract!contractVars)
    BY <2>30 DEF MenuConfirm
  <2>31. CASE UNCHANGED vars
    BY <2>31 DEF vars
  <2>32. CASE MoveSelection
    BY <2>32 DEF MoveSelection
  <2>33. QED
    BY <2>1, <2>2, <2>3, <2>4, <2>5, <2>6, <2>7, <2>8, <2>9, <2>10,
         <2>11, <2>12, <2>13, <2>14, <2>15, <2>16, <2>17, <2>18, <2>19,
         <2>20, <2>21, <2>22, <2>23, <2>24, <2>25, <2>26, <2>27, <2>28,
         <2>29, <2>30, <2>31, <2>32
    DEF Next, Stage1Step, MenuStep, Stage2Step, UserStep, FaultStep
<1>3. QED
  BY Inductive, <1>1, <1>2, PTL DEF Spec, ImplementsContract, Contract!ContractSpec

-----------------------------------------------------------------------------
(* What holds without some of the faults.                                  *)

\* What an environment may do never changes.
LEMMA FaultsFixed == [Next]_vars => faults' = faults
  BY DEF vars, boot, Next, Stage1Step, MenuStep, Stage2Step, UserStep,
         FaultStep, Restarted, MoveSelection, MenuConfirm, PowerOn, Flush,
         EarlySplash, ConsumePending, CommitMode, EnterPending, ShowMenu,
         EnterCharger, StorePending, StoreMarker, Sync, ForcedReboot,
         MenuTimeout, SwitchRoot, ConsumeMarker, StartDesktop, StartCharging,
         RebootAccepted, FinishShutdown, DaemonReload, ChangeGenerations,
         OrderlyReboot, RequestNormalReboot, PowerOff, Crash, CriticalPowerOff,
         LegacyStage1, ForcedRebootFails, RebootRefused

\* The phases of a boot that has entered a selection.
Entered == {"handoff", "units", "basic", "desktop", "charging", "requested", "shutdown"}

\* A selection that was entered is gone from the file system, and once the
\* boot that entered it has ended, from the disk too: what ended it was a
\* shutdown, which flushes.  A boot that is about to enter one was not
\* preceded by another that did.
OnceParts ==
  /\ served <= 1
  /\ served >= 1 => root.pending = NoGen
  /\ served >= 1 /\ phase \notin Entered => disk.pending = NoGen
  /\ pendingGen # NoGen /\ phase \in {"consumed", "decided"} => served = 0

OnceInv == "crash" \notin faults => OnceParts

\* A deleted selection does not come back without a power cut.
LEMMA OnceStep == IInv /\ OnceInv /\ [Next]_vars => OnceInv'
<1> SUFFICES ASSUME IInv, OnceInv, [Next]_vars, "crash" \notin faults
             PROVE  OnceParts'
  BY FaultsFixed DEF OnceInv
<1> USE GensAssumption
    DEF IInv, TypeOK, Images, SelectionInv, OnceInv, OnceParts, Entered,
        Storing, Stage1, Running, boot, runFiles, targets, choice, promises
<1>1. CASE PowerOn
  BY <1>1 DEF PowerOn
<1>2. CASE Flush
  BY <1>2 DEF Flush
<1>3. CASE EarlySplash
  BY <1>3 DEF EarlySplash
<1>4. CASE ConsumePending
  BY <1>4 DEF ConsumePending
<1>5. CASE CommitMode
  BY <1>5 DEF CommitMode, ChargerMode
<1>6. CASE EnterPending
  BY <1>6 DEF EnterPending
<1>7. CASE ShowMenu
  BY <1>7 DEF ShowMenu
<1>8. CASE EnterCharger
  BY <1>8 DEF EnterCharger
<1>9. CASE StorePending
  BY <1>9 DEF StorePending
<1>10. CASE StoreMarker
  BY <1>10 DEF StoreMarker
<1>11. CASE Sync
  BY <1>11 DEF Sync
<1>12. CASE ForcedReboot
  BY <1>12 DEF ForcedReboot, Restarted
<1>13. CASE MenuTimeout
  BY <1>13 DEF MenuTimeout
<1>14. CASE SwitchRoot
  BY <1>14 DEF SwitchRoot, RunGenerator, GeneratorMode
<1>15. CASE ConsumeMarker
  BY <1>15 DEF ConsumeMarker
<1>16. CASE StartDesktop
  BY <1>16 DEF StartDesktop
<1>17. CASE StartCharging
  BY <1>17 DEF StartCharging
<1>18. CASE RebootAccepted
  BY <1>18 DEF RebootAccepted
<1>19. CASE FinishShutdown
  BY <1>19 DEF FinishShutdown, Restarted
<1>20. CASE DaemonReload
  BY <1>20 DEF DaemonReload, RunGenerator, GeneratorMode
<1>21. CASE ChangeGenerations
  BY <1>21 DEF ChangeGenerations
<1>22. CASE OrderlyReboot
  BY <1>22 DEF OrderlyReboot
<1>23. CASE RequestNormalReboot
  BY <1>23 DEF RequestNormalReboot
<1>24. CASE PowerOff
  BY <1>24 DEF PowerOff, Restarted
<1>25. CASE Crash
  BY <1>25 DEF Crash
<1>26. CASE CriticalPowerOff
  BY <1>26 DEF CriticalPowerOff, Restarted, DropConsumedPromise
<1>27. CASE LegacyStage1
  BY <1>27 DEF LegacyStage1
<1>28. CASE ForcedRebootFails
  BY <1>28 DEF ForcedRebootFails
<1>29. CASE RebootRefused
  BY <1>29 DEF RebootRefused
<1>30. ASSUME NEW g \in Gens, MenuConfirm(g) PROVE OnceParts'
  BY <1>30 DEF MenuConfirm
<1>31. CASE UNCHANGED vars
  BY <1>31 DEF vars
<1>32. CASE MoveSelection
  BY <1>32 DEF MoveSelection
<1>33. QED
  BY <1>1, <1>2, <1>3, <1>4, <1>5, <1>6, <1>7, <1>8, <1>9, <1>10, <1>11,
       <1>12, <1>13, <1>14, <1>15, <1>16, <1>17, <1>18, <1>19, <1>20,
       <1>21, <1>22, <1>23, <1>24, <1>25, <1>26, <1>27, <1>28, <1>29,
       <1>30, <1>31, <1>32
  DEF Next, Stage1Step, MenuStep, Stage2Step, UserStep, FaultStep

\* One manual selection is entered by at most one boot, whatever goes wrong
\* short of a power cut.  (A power cut after the boot has entered it may bring
\* the deleted file back.)
THEOREM OnceSafe == Spec => []OneBootPerSelection
<1>1. Init => OnceInv
  BY DEF Init, OnceInv, OnceParts, Entered
<1>2. OnceInv => OneBootPerSelection
  BY DEF OnceInv, OnceParts, OneBootPerSelection
<1>3. QED
  BY <1>1, <1>2, OnceStep, Inductive, PTL DEF Spec

BeforeBasic == {"off", "restart"} \cup Stage1 \cup {"storePending", "reboot", "units"}

\* A marker that a boot may find stands for a wish that is not yet served: it
\* is consumed, and written only on the way into a restart.
AskedParts ==
  /\ rw
  /\ phase # "failed"
  /\ phase \in BeforeBasic /\ (root.marker \/ disk.marker) => promisedNormal
  /\ phase \in {"basic"} \cup Running => ~root.marker
  /\ phase \in {"reboot", "shutdown"} => promisedNormal
  /\ phase = "consumed" /\ pendingGen = NoGen => mode = "none"
  /\ ChargerBootHonoured

AskedInv == faults \cap {"crash", "readOnly", "rebootFails"} = {} => AskedParts

\* Every marker in front of a boot was asked for.
LEMMA AskedStep == IInv /\ AskedInv /\ [Next]_vars => AskedInv'
<1> SUFFICES ASSUME IInv, AskedInv, [Next]_vars,
                    faults \cap {"crash", "readOnly", "rebootFails"} = {}
             PROVE  AskedParts'
  BY FaultsFixed DEF AskedInv
<1> USE GensAssumption
    DEF IInv, TypeOK, Images, DecisionInv, AskedInv, AskedParts, ChargerBootHonoured, BeforeBasic,
        Storing, Stage1, Running, boot, runFiles, targets, choice, promises
<1>1. CASE PowerOn
  BY <1>1 DEF PowerOn
<1>2. CASE Flush
  BY <1>2 DEF Flush
<1>3. CASE EarlySplash
  BY <1>3 DEF EarlySplash
<1>4. CASE ConsumePending
  BY <1>4 DEF ConsumePending
<1>5. CASE CommitMode
  BY <1>5 DEF CommitMode, ChargerMode
<1>6. CASE EnterPending
  BY <1>6 DEF EnterPending
<1>7. CASE ShowMenu
  BY <1>7 DEF ShowMenu
<1>8. CASE EnterCharger
  BY <1>8 DEF EnterCharger
<1>9. CASE StorePending
  BY <1>9 DEF StorePending
<1>10. CASE StoreMarker
  BY <1>10 DEF StoreMarker
<1>11. CASE Sync
  BY <1>11 DEF Sync
<1>12. CASE ForcedReboot
  BY <1>12 DEF ForcedReboot, Restarted
<1>13. CASE MenuTimeout
  BY <1>13 DEF MenuTimeout
<1>14. CASE SwitchRoot
  BY <1>14 DEF SwitchRoot, RunGenerator, GeneratorMode
<1>15. CASE ConsumeMarker
  BY <1>15 DEF ConsumeMarker
<1>16. CASE StartDesktop
  BY <1>16 DEF StartDesktop
<1>17. CASE StartCharging
  BY <1>17 DEF StartCharging
<1>18. CASE RebootAccepted
  BY <1>18 DEF RebootAccepted
<1>19. CASE FinishShutdown
  BY <1>19 DEF FinishShutdown, Restarted
<1>20. CASE DaemonReload
  BY <1>20 DEF DaemonReload, RunGenerator, GeneratorMode
<1>21. CASE ChangeGenerations
  BY <1>21 DEF ChangeGenerations
<1>22. CASE OrderlyReboot
  BY <1>22 DEF OrderlyReboot
<1>23. CASE RequestNormalReboot
  BY <1>23 DEF RequestNormalReboot
<1>24. CASE PowerOff
  BY <1>24 DEF PowerOff, Restarted
<1>25. CASE Crash
  BY <1>25 DEF Crash
<1>26. CASE CriticalPowerOff
  BY <1>26 DEF CriticalPowerOff, Restarted, DropConsumedPromise
<1>27. CASE LegacyStage1
  BY <1>27 DEF LegacyStage1
<1>28. CASE ForcedRebootFails
  BY <1>28 DEF ForcedRebootFails
<1>29. CASE RebootRefused
  BY <1>29 DEF RebootRefused
<1>30. ASSUME NEW g \in Gens, MenuConfirm(g) PROVE AskedParts'
  BY <1>30 DEF MenuConfirm
<1>31. CASE UNCHANGED vars
  BY <1>31 DEF vars
<1>32. CASE MoveSelection
  BY <1>32 DEF MoveSelection
<1>33. QED
  BY <1>1, <1>2, <1>3, <1>4, <1>5, <1>6, <1>7, <1>8, <1>9, <1>10, <1>11,
       <1>12, <1>13, <1>14, <1>15, <1>16, <1>17, <1>18, <1>19, <1>20,
       <1>21, <1>22, <1>23, <1>24, <1>25, <1>26, <1>27, <1>28, <1>29,
       <1>30, <1>31, <1>32
  DEF Next, Stage1Step, MenuStep, Stage2Step, UserStep, FaultStep

\* A boot that the firmware reports as a charger insertion becomes a normal
\* one only because a restart into the normal system was asked for, if no
\* power is cut, the root is writable and no reboot is refused.  (With any one
\* of the three a marker can be left behind that nobody asked for.)
THEOREM ChargerSafe == Spec => []ChargerBootHonoured
<1>1. Init => AskedInv
  BY DEF Init, AskedInv, AskedParts, ChargerBootHonoured, BeforeBasic, Running, Stage1
<1>2. AskedInv => ChargerBootHonoured
  BY DEF AskedInv, AskedParts, ChargerBootHonoured
<1>3. QED
  BY <1>1, <1>2, AskedStep, Inductive, PTL DEF Spec

=============================================================================
