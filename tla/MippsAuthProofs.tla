--------------------------- MODULE MippsAuthProofs ---------------------------
(***************************************************************************)
(* For every number of attempts, waits and attaches: the types, that the   *)
(* helper is never run on an attach that is settled, that an attach is     *)
(* recorded as complete only if it showed the flags, and that a data link  *)
(* the helper is about to tear down came up after the run had looked.      *)
(*                                                                         *)
(* None of the invariants is inductive.  The first rests on where the run  *)
(* is: between its start and its end the files do not change, and a        *)
(* partner that comes meanwhile has a number no file can hold yet.  The    *)
(* second has to be known before the file is written, when the run has     *)
(* seen the flags and its token may belong to a partner that is gone.  The *)
(* third has to be carried from the waits for the link through every turn  *)
(* of the loop to the helper.                                              *)
(***************************************************************************)
EXTENDS MippsAuth, TLAPS

InTurn == {"real_type", "adapter_svid", "pdo2", "partner", "decide"}
AfterWait ==
  {"attempt", "probe", "probed", "reread", "handshake", "settle"} \cup InTurn
AfterStart == {"wait"} \cup AfterWait

\* Numbers only grow, and what is attached came last.
Numbered ==
  /\ partner \in {NoAttach, attaches}
  /\ completed <= attaches /\ failed <= attaches /\ attach_token <= attaches

\* A run that is past its checks has nothing settled in front of it.
Unsettled ==
  pc \in AfterStart /\ partner # NoAttach => partner \notin {completed, failed}

\* A run that has checked the completed file only: what is attached is what it
\* will look up next, or newer than both files.
HalfSettled ==
  pc = "begun" /\ partner # NoAttach =>
    partner # completed /\ (partner = attach_token \/ partner # failed)

\* A link that is up after the waits came up after them, and if a probe has
\* been started, after its look at the link.
LinkIsLate ==
  /\ pc \in AfterWait /\ link => linkedAt # "before"
  /\ pc = "probe" /\ link => linkedAt = "window"

\* Flags that are set have been seen by whoever is attached.
FlagsShown == flags /\ partner # NoAttach => partner \in shown

\* A run about to write its token has seen the flags.
MarkIsShown ==
  pc = "mark" /\ partner # NoAttach /\ attach_token = partner => partner \in shown

\* The loops stop at their ends.
Counted ==
  /\ pc = "begun" => waits = 0
  /\ pc = "wait" => waits < DataWaits
  /\ pc = "settle" => waits < CompletionWaits
  /\ pc \in {"attempt", "probe", "probed", "reread"} \cup InTurn =>
       helper_attempts < MaxHelpers

IInv == TypeOK /\ Counted /\ Numbered /\ Unsettled /\ HalfSettled /\ FlagsShown
        /\ MarkIsShown /\ CompletedWasShown /\ LinkIsLate

LEMMA InitHolds == Init => IInv
<1> SUFFICES ASSUME Init PROVE IInv
  OBVIOUS
<1>1. attaches = 0 /\ shown = {} /\ attempt = 1 /\ helper_attempts = 0 /\ waits = 0
  BY DEF Init
<1>2. attempt \in 1 .. MaxAttempts /\ helper_attempts \in 0 .. MaxHelpers
      /\ waits <= DataWaits /\ attaches \in 0 .. MaxAttaches
  BY <1>1, LoopAssumption DEF LoopAssumption
<1>3. TypeOK
  <2>1. shown \in SUBSET (1 .. attaches)
    BY <1>1
  <2>2. attach_token \in 0 .. attaches /\ partner \in 0 .. attaches
        /\ completed \in 0 .. attaches /\ failed \in 0 .. attaches
    BY <1>1 DEF Init, NoAttach
  <2>3. real_type \in BOOLEAN /\ pdo2 \in BOOLEAN /\ flags \in BOOLEAN
        /\ link \in BOOLEAN /\ event \in BOOLEAN
    BY Zenon DEF Init
  <2> QED
    BY <1>1, <1>2, <2>1, <2>2, <2>3 DEF Init, TypeOK, Kinds
<1> QED
  BY <1>3
  DEF Init, IInv, Counted, Numbered, Unsettled, HalfSettled, LinkIsLate, FlagsShown,
      MarkIsShown, CompletedWasShown, NoAttach, AfterStart, AfterWait, InTurn

USE LoopAssumption DEF NoAttach

\* A turn that only counts.
LEMMA NextAttemptCounts ==
  ASSUME TypeOK, pc \in AfterStart, NextAttempt
  PROVE  attempt' \in 1 .. MaxAttempts /\ pc' \in {"attempt", "restart"}
  BY DEF LoopAssumption, TypeOK, NextAttempt

LEMMA GiveUpAtCounts ==
  ASSUME TypeOK, pc \in AfterStart, NEW grace \in Nat, GiveUpAt(grace)
  PROVE  /\ attempt' \in 1 .. MaxAttempts
         /\ pc' \in {"attempt", "restart", "sync"}
  BY NextAttemptCounts DEF TypeOK, GiveUpAt

LEMMA StepHolds == IInv /\ [Next]_vars => IInv'
<1> SUFFICES ASSUME IInv, [Next]_vars PROVE IInv'
  OBVIOUS
<1> USE DEF IInv, files, port, locals, udc, firmware, AfterStart, AfterWait, InTurn
<1>1. CASE Begin
  <2>1. TypeOK' /\ Counted'
    BY <1>1 DEF Begin, TypeOK, Counted, LoopAssumption
  <2> QED
    BY <1>1, <2>1
    DEF Begin, TypeOK, Numbered, Unsettled, HalfSettled, LinkIsLate, FlagsShown,
        MarkIsShown, CompletedWasShown
<1>2. CASE CheckFailed
  <2>1. TypeOK' /\ Counted'
    BY <1>2 DEF CheckFailed, TypeOK, Counted, InTurn, LoopAssumption
  <2> QED
    BY <1>2, <2>1
    DEF CheckFailed, TypeOK, Numbered, Unsettled, HalfSettled, LinkIsLate,
        FlagsShown, MarkIsShown, CompletedWasShown
<1>3. CASE MarkAttachComplete
  <2>1. TypeOK' /\ Counted'
    BY <1>3 DEF MarkAttachComplete, TypeOK, Counted
  <2> QED
    BY <1>3, <2>1
    DEF MarkAttachComplete, TypeOK, Numbered, Unsettled, HalfSettled,
        LinkIsLate, FlagsShown, MarkIsShown, CompletedWasShown
<1>4. CASE WaitForDataLink
  <2>1. TypeOK' /\ Counted'
    BY <1>4 DEF WaitForDataLink, TypeOK, Counted, LoopAssumption
  <2> QED
    BY <1>4, <2>1
    DEF WaitForDataLink, TypeOK, Numbered, Unsettled, HalfSettled, LinkIsLate,
        FlagsShown, MarkIsShown, CompletedWasShown
<1>5. CASE Attempt
  <2>1. TypeOK' /\ Counted'
    BY <1>5 DEF Attempt, TypeOK, Counted
  <2> QED
    BY <1>5, <2>1
    DEF Attempt, TypeOK, Numbered, Unsettled, HalfSettled, LinkIsLate,
        FlagsShown, MarkIsShown, CompletedWasShown
<1>6. CASE ReadNode
  <2>1. /\ pc \in InTurn /\ pc' \in InTurn
        /\ seen' \in {"notReady", "ready", "empty", "emptyPdo", "other", "xiaomi",
                     "xiaomiPdo", seen}
        /\ UNCHANGED <<attach_token, attempt, helper_attempts, waits, files, port,
                       event, firmware>>
    BY <1>6 DEF ReadNode, InTurn, TypeOK
  <2>2. TypeOK' /\ Counted'
    BY <2>1 DEF TypeOK, Counted
  <2> QED
    BY <2>1, <2>2
    DEF TypeOK, Numbered, Unsettled, HalfSettled, LinkIsLate, FlagsShown,
        MarkIsShown, CompletedWasShown
<1>7. CASE CheckPartner
  <2>1. /\ pc = "partner" /\ pc' \in {"decide", "inactive"}
        /\ seen' \in {"nothing", seen}
        /\ UNCHANGED <<attach_token, attempt, helper_attempts, waits, files, port,
                       event, firmware>>
    BY <1>7 DEF CheckPartner
  <2>2. TypeOK' /\ Counted'
    BY <2>1 DEF TypeOK, Counted
  <2> QED
    BY <2>1, <2>2
    DEF TypeOK, Numbered, Unsettled, HalfSettled, LinkIsLate, FlagsShown,
        MarkIsShown, CompletedWasShown
<1>8. CASE Decide
  <2>1. /\ pc = "decide" /\ seen' = "nothing"
        /\ UNCHANGED <<attach_token, waits, files, port, event, firmware>>
    BY <1>8 DEF Decide
  <2>2. /\ pc' \in {"inactive", "sync", "probe", "attempt", "restart", "handshake"}
        /\ attempt' \in 1 .. MaxAttempts
        /\ pc' = "probe" => ~link
    BY <1>8, <2>1, GiveUpAtCounts, NextAttemptCounts
    DEF Decide, SafeToProbe, TypeOK, LoopAssumption
  <2>3. helper_attempts' \in 0 .. MaxHelpers
    BY <1>8 DEF Decide, TypeOK, Counted
  <2>4. pc' \in {"attempt", "probe"} => helper_attempts' < MaxHelpers
    BY <1>8 DEF Decide, TypeOK, Counted
  <2>5. TypeOK' /\ Counted'
    BY <2>1, <2>2, <2>3, <2>4 DEF TypeOK, Counted
  <2> QED
    BY <2>1, <2>2, <2>5
    DEF TypeOK, Numbered, Unsettled, HalfSettled, LinkIsLate, FlagsShown,
        MarkIsShown, CompletedWasShown
<1>9. CASE SwapRole
  <2>1. TypeOK' /\ Counted'
    <3>1. /\ pc' \in {"probed", "settle"} /\ waits' = 0
          /\ pc' = "probed" => pc = "probe"
          /\ link' \in BOOLEAN /\ linkedAt' = "before"
          /\ UNCHANGED <<attach_token, attempt, helper_attempts, seen, files, port,
                         event, real_type, pdo2, flags>>
      BY <1>9 DEF SwapRole, Helping
    <3>2. adapter_svid' \in {"empty", "other", "xiaomi"}
      BY <1>9 DEF SwapRole, TypeOK
    <3> QED BY <3>1, <3>2 DEF TypeOK, Counted, LoopAssumption
  <2> QED
    BY <1>9, <2>1
    DEF SwapRole, Helping, TypeOK, Numbered, Unsettled, HalfSettled, LinkIsLate,
        FlagsShown, MarkIsShown, CompletedWasShown
<1>10. CASE Probed
  <2>1. /\ pc \in {"probed", "reread"}
        /\ UNCHANGED <<attach_token, helper_attempts, waits, seen, files, port,
                       event, firmware>>
    BY <1>10 DEF Probed
  <2>2. /\ pc' \in {"mark", "reread", "sync", "attempt", "restart"}
        /\ attempt' \in 1 .. MaxAttempts
        /\ pc' = "mark" => flags
    BY <1>10, NextAttemptCounts DEF Probed, TypeOK
  <2>3. TypeOK' /\ Counted'
    BY <2>1, <2>2 DEF TypeOK, Counted
  <2> QED
    BY <2>1, <2>2, <2>3
    DEF TypeOK, Numbered, Unsettled, HalfSettled, LinkIsLate, FlagsShown,
        MarkIsShown, CompletedWasShown
<1>11. CASE AwaitCompletion
  <2>1. /\ pc = "settle"
        /\ UNCHANGED <<attach_token, helper_attempts, seen, completed, port, event,
                       firmware>>
    BY <1>11 DEF AwaitCompletion
  <2>2. /\ pc' \in {"mark", "settle", "sync", "attempt", "restart"}
        /\ attempt' \in 1 .. MaxAttempts
        /\ pc' = "mark" => flags
        /\ pc' \in AfterStart => failed' = failed
        /\ failed' \in {failed, attach_token}
    BY <1>11, NextAttemptCounts DEF AwaitCompletion, TypeOK
  <2>3. TypeOK' /\ Counted'
    <3>1. waits' \in Nat /\ waits' <= CompletionWaits
      BY <1>11 DEF AwaitCompletion, TypeOK, Counted, LoopAssumption
    <3>2. pc' = "settle" => waits' < CompletionWaits
      BY <1>11 DEF AwaitCompletion, NextAttempt, TypeOK, LoopAssumption
    <3>3. pc' = "attempt" => helper_attempts < MaxHelpers
      BY <1>11 DEF AwaitCompletion, NextAttempt, TypeOK, LoopAssumption
    <3> QED BY <2>1, <2>2, <3>1, <3>2, <3>3 DEF TypeOK, Counted
  <2> QED
    BY <2>1, <2>2, <2>3
    DEF TypeOK, Numbered, Unsettled, HalfSettled, LinkIsLate, FlagsShown,
        MarkIsShown, CompletedWasShown
<1>12. CASE SyncCurrent
  <2>1. TypeOK' /\ Counted'
    BY <1>12 DEF SyncCurrent, TypeOK, Counted
  <2> QED
    BY <1>12, <2>1
    DEF SyncCurrent, TypeOK, Numbered, Unsettled, HalfSettled, LinkIsLate,
        FlagsShown, MarkIsShown, CompletedWasShown
<1>13. CASE Restart
  <2>1. TypeOK' /\ Counted'
    BY <1>13 DEF Restart, TypeOK, Counted
  <2> QED
    BY <1>13, <2>1
    DEF Restart, TypeOK, Numbered, Unsettled, HalfSettled, LinkIsLate,
        FlagsShown, MarkIsShown, CompletedWasShown
<1>14. CASE Wanted
  <2>1. TypeOK' /\ Counted'
    <3>1. /\ pc' \in {pc, "start"} /\ event' \in BOOLEAN
          /\ UNCHANGED <<attach_token, locals, files, port, firmware>>
      BY <1>14 DEF Wanted
    <3> QED BY <3>1 DEF TypeOK, Counted
  <2> QED
    BY <1>14, <2>1
    DEF Wanted, TypeOK, Numbered, Unsettled, HalfSettled, LinkIsLate,
        FlagsShown, MarkIsShown, CompletedWasShown
<1>15. CASE \E k \in Kinds : Attach(k)
  <2>1. PICK k \in Kinds : Attach(k)
    BY <1>15
  <2>2. TypeOK' /\ Counted'
    BY <2>1 DEF Attach, TypeOK, Counted, LoopAssumption
  <2> QED
    BY <2>1, <2>2
    DEF Attach, TypeOK, Numbered, Unsettled, HalfSettled, LinkIsLate,
        FlagsShown, MarkIsShown, CompletedWasShown
<1>16. CASE Detach
  <2>1. TypeOK' /\ Counted'
    <3>1. /\ flags' \in BOOLEAN /\ real_type' \in BOOLEAN /\ pdo2' \in BOOLEAN
          /\ link' \in BOOLEAN
      BY <1>16, Zenon DEF Detach, TypeOK
    <3>2. adapter_svid' \in {"empty", "other", "xiaomi"} /\ partner' \in 0 .. attaches
      BY <1>16 DEF Detach, TypeOK
    <3>3. /\ UNCHANGED <<pc, attach_token, locals, files, kind, attaches, shown, event>>
          /\ linkedAt' = "before"
      BY <1>16 DEF Detach
    <3> QED
      BY <3>1, <3>2, <3>3 DEF TypeOK, Counted
  <2> QED
    BY <1>16, <2>1
    DEF Detach, TypeOK, Numbered, Unsettled, HalfSettled, LinkIsLate,
        FlagsShown, MarkIsShown, CompletedWasShown
<1>17. CASE Publish
  <2>1. TypeOK' /\ Counted'
    <3>1. shown' \in {shown, shown \cup {partner}} /\ partner # NoAttach
      BY <1>17 DEF Publish
    <3>2. partner \in 1 .. attaches
      BY <3>1 DEF TypeOK
    <3>3. shown' \in SUBSET (1 .. attaches)
      BY <3>1, <3>2 DEF TypeOK
    <3>4. adapter_svid' \in {"empty", "other", "xiaomi"}
      BY <1>17 DEF Publish, TypeOK
    <3>5. real_type' \in BOOLEAN /\ pdo2' \in BOOLEAN /\ flags' \in BOOLEAN
      BY <1>17 DEF Publish, TypeOK
    <3>6. UNCHANGED <<pc, attach_token, locals, files, partner, kind, attaches,
                      event, udc>>
      BY <1>17 DEF Publish
    <3> QED
      BY <3>3, <3>4, <3>5, <3>6 DEF TypeOK, Counted
  <2> QED
    BY <1>17, <2>1
    DEF Publish, TypeOK, Numbered, Unsettled, HalfSettled, LinkIsLate,
        FlagsShown, MarkIsShown, CompletedWasShown
<1>18. CASE DataLink
  <2>1. TypeOK' /\ Counted'
    BY <1>18 DEF DataLink, Helping, Turning, TypeOK, Counted
  <2> QED
    BY <1>18, <2>1
    DEF DataLink, Helping, Turning, TypeOK, Numbered, Unsettled, HalfSettled,
        LinkIsLate, FlagsShown, MarkIsShown, CompletedWasShown
<1>19. CASE UNCHANGED vars
  BY <1>19
  DEF vars, TypeOK, Counted, Numbered, Unsettled, HalfSettled, LinkIsLate,
      FlagsShown, MarkIsShown, CompletedWasShown
<1> QED
  BY <1>1, <1>2, <1>3, <1>4, <1>5, <1>6, <1>7, <1>8, <1>9, <1>10, <1>11, <1>12,
     <1>13, <1>14, <1>15, <1>16, <1>17, <1>18, <1>19
  DEF Next, Run, Port

LEMMA Invariant == Spec => []IInv
  BY InitHolds, StepHolds, PTL DEF Spec

\* The helper is never run on an attach that is recorded as complete or as
\* failed, for every count of attempts, waits and attaches.
THEOREM SettledLeftAloneHolds == Spec => []SettledLeftAlone
<1>1. IInv => SettledLeftAlone
  BY DEF IInv, Unsettled, AfterStart, AfterWait, SettledLeftAlone, Helping
<1> QED BY <1>1, Invariant, PTL

\* No attach is recorded as complete while it is there unless it had the
\* completion flags set, for every count of attempts, waits and attaches.
THEOREM CompletedWasShownHolds == Spec => []CompletedWasShown
<1>1. IInv => CompletedWasShown
  BY DEF IInv
<1> QED BY <1>1, Invariant, PTL

\* The types, of which the counters that stay within their loops are the point.
THEOREM TypeOKHolds == Spec => []TypeOK
<1>1. IInv => TypeOK
  BY DEF IInv
<1> QED BY <1>1, Invariant, PTL

\* A data link that a role swap is about to tear down came up after the run
\* had looked for it: after the waits, and for a probe after its own look.
THEOREM LinkSparedHolds == Spec => []LinkSpared
<1>1. IInv => LinkSpared
  BY DEF IInv, LinkIsLate, AfterWait, LinkSpared, Helping
<1> QED BY <1>1, Invariant, PTL
=============================================================================
