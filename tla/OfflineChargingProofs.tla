----------------------- MODULE OfflineChargingProofs -----------------------
(***************************************************************************)
(* Proofs about OfflineCharging, for all times and queue lengths: its      *)
(* types, the lit panel, and the length of a press that starts the normal  *)
(* system.  The last needs three invariants: where the events of a batch   *)
(* are (PlaceInv), that presses and releases take turns through both       *)
(* queues up to the key (EventsInv), and by how much the age of the press  *)
(* being timed may exceed its real length (LengthInv).                     *)
(***************************************************************************)
EXTENDS OfflineCharging, TLAPS

\* A moment ages up to the limit it is compared with.
LEMMA AgedType ==
  \A limit \in Nat : \A age \in -1 .. limit : Aged(age, limit) \in -1 .. limit
  BY DEF Aged

\* The length of a press never counts down below zero.
LEMMA AgedLength ==
  \A limit \in Nat : \A age \in 0 .. limit : Aged(age, limit) \in 0 .. limit
  BY DEF Aged

\* A tick keeps the stored moments within their limits.
LEMMA ElapseType ==
  ASSUME TimesOK, Elapse
  PROVE  /\ pressed' \in -1 .. Hold /\ downFor' \in 0 .. Hold
         /\ offline' \in -1 .. Disconnect /\ up' \in 0 .. Grace
         /\ left' \in -1 .. Show
<1>1. Hold \in Nat /\ Show \in Nat /\ Grace \in Nat /\ Disconnect \in Nat
  BY TimesAssumption
<1>2. /\ pressed' \in -1 .. Hold /\ offline' \in -1 .. Disconnect
      /\ up' \in 0 .. Grace
  BY <1>1, AgedType, AgedLength DEF TimesOK, Elapse
<1>3. downFor' \in 0 .. Hold
  BY <1>1, AgedLength DEF TimesOK, Elapse
<1>4. left' \in -1 .. Show
  BY <1>1 DEF TimesOK, Elapse
<1>5. QED BY <1>2, <1>3, <1>4

\* Every action keeps the program counters within their values.
LEMMA PlacesStep == TypeOK /\ [Next]_vars => PlacesOK'
<1> SUFFICES ASSUME PlacesOK, [Next]_vars PROVE PlacesOK'
  BY DEF TypeOK
<1> USE DEF PlacesOK, Pcs, Final, clocks, input, world, panel
<1>1. CASE Begin BY <1>1 DEF Begin, Paint
<1>2. CASE Painted BY <1>2 DEF Painted
<1>3. CASE Sample BY <1>3 DEF Sample, Display
<1>4. CASE PowerOff BY <1>4 DEF PowerOff
<1>5. CASE Asleep BY <1>5 DEF Asleep
<1>6. CASE ShowScreen BY <1>6 DEF ShowScreen, Paint
<1>7. CASE Animate BY <1>7 DEF Animate, Paint
<1>8. CASE Darken BY <1>8 DEF Darken
<1>9. CASE Wait BY <1>9 DEF Wait
<1>10. CASE Read BY <1>10 DEF Read
<1>11. CASE ReadFails BY <1>11 DEF ReadFails
<1>12. CASE NoEvent BY <1>12 DEF NoEvent
<1>13. CASE Press BY <1>13 DEF Press
<1>14. CASE Release BY <1>14 DEF Release, Paint
<1>15. CASE HeldLong BY <1>15 DEF HeldLong
<1>16. CASE BootDenied BY <1>16 DEF BootDenied, Paint
<1>17. CASE BootAccepted BY <1>17 DEF BootAccepted
<1>18. CASE BootRefused BY <1>18 DEF BootRefused, Paint
<1>19. CASE Leave BY <1>19 DEF Leave
<1>20. CASE Busy BY <1>20 DEF Busy
<1>21. CASE MoveKey BY <1>21 DEF MoveKey
<1>22. CASE MovePower BY <1>22 DEF MovePower
<1>23. CASE Ended BY <1>23 DEF Ended, vars
<1>24. CASE UNCHANGED vars BY <1>24 DEF vars
<1>25. QED
  BY <1>1, <1>2, <1>3, <1>4, <1>5, <1>6, <1>7, <1>8, <1>9, <1>10, <1>11,
     <1>12, <1>13, <1>14, <1>15, <1>16, <1>17, <1>18, <1>19, <1>20, <1>21,
     <1>22, <1>23, <1>24
  DEF Next, Step

\* Every action keeps the ages within their limits.
LEMMA TimesStep == TypeOK /\ [Next]_vars => TimesOK'
<1> SUFFICES ASSUME TimesOK, [Next]_vars PROVE TimesOK'
  BY DEF TypeOK
<1> USE TimesAssumption
<1> USE DEF TimesOK, clocks, input, world, panel
<1>1. CASE Begin BY <1>1 DEF Begin, Paint
<1>2. CASE Painted BY <1>2 DEF Painted
<1>3. CASE Sample BY <1>3 DEF Sample
<1>4. CASE PowerOff BY <1>4 DEF PowerOff
<1>5. CASE Asleep
  <2>1. CASE Elapse BY <1>5, <2>1, ElapseType DEF Asleep
  <2>2. CASE UNCHANGED clocks BY <1>5, <2>2 DEF Asleep
  <2>3. QED BY <1>5, <2>1, <2>2 DEF Asleep
<1>6. CASE ShowScreen BY <1>6 DEF ShowScreen, Paint
<1>7. CASE Animate BY <1>7 DEF Animate, Paint
<1>8. CASE Darken BY <1>8 DEF Darken
<1>9. CASE Wait BY <1>9, ElapseType DEF Wait
<1>10. CASE Read BY <1>10 DEF Read
<1>11. CASE ReadFails
  <2>1. CASE Elapse BY <1>11, <2>1, ElapseType DEF ReadFails
  <2>2. CASE UNCHANGED clocks BY <1>11, <2>2 DEF ReadFails
  <2>3. QED BY <1>11, <2>1, <2>2 DEF ReadFails
<1>12. CASE NoEvent BY <1>12 DEF NoEvent
<1>13. CASE Press BY <1>13 DEF Press
<1>14. CASE Release BY <1>14 DEF Release, Paint
<1>15. CASE HeldLong BY <1>15 DEF HeldLong
<1>16. CASE BootDenied BY <1>16 DEF BootDenied, Paint
<1>17. CASE BootAccepted BY <1>17 DEF BootAccepted
<1>18. CASE BootRefused BY <1>18 DEF BootRefused, Paint
<1>19. CASE Leave BY <1>19 DEF Leave
<1>20. CASE Busy
  <2>1. CASE Elapse BY <1>20, <2>1, ElapseType DEF Busy
  <2>2. CASE UNCHANGED clocks BY <1>20, <2>2 DEF Busy
  <2>3. QED BY <1>20, <2>1, <2>2 DEF Busy
<1>21. CASE MoveKey BY <1>21 DEF MoveKey
<1>22. CASE MovePower BY <1>22 DEF MovePower
<1>23. CASE Ended BY <1>23 DEF Ended, vars
<1>24. CASE UNCHANGED vars BY <1>24 DEF vars
<1>25. QED
  BY <1>1, <1>2, <1>3, <1>4, <1>5, <1>6, <1>7, <1>8, <1>9, <1>10, <1>11,
     <1>12, <1>13, <1>14, <1>15, <1>16, <1>17, <1>18, <1>19, <1>20, <1>21,
     <1>22, <1>23, <1>24
  DEF Next, Step

\* Every action keeps the queues within their bound.
LEMMA QueuesStep == TypeOK /\ [Next]_vars => QueuesOK'
<1> SUFFICES ASSUME QueuesOK, FlagsOK, TimesOK, [Next]_vars PROVE QueuesOK'
  BY DEF TypeOK
<1> USE TimesAssumption
<1> USE DEF QueuesOK, clocks, input, world, panel
<1>1. CASE Begin BY <1>1 DEF Begin, Paint
<1>2. CASE Painted BY <1>2 DEF Painted
<1>3. CASE Sample BY <1>3 DEF Sample
<1>4. CASE PowerOff BY <1>4 DEF PowerOff
<1>5. CASE Asleep BY <1>5 DEF Asleep
<1>6. CASE ShowScreen BY <1>6 DEF ShowScreen, Paint
<1>7. CASE Animate BY <1>7 DEF Animate, Paint
<1>8. CASE Darken BY <1>8 DEF Darken
<1>9. CASE Wait BY <1>9 DEF Wait
<1>10. CASE Read BY <1>10 DEF Read
<1>11. CASE ReadFails BY <1>11 DEF ReadFails
<1>12. CASE NoEvent BY <1>12 DEF NoEvent
<1>13. CASE Press BY <1>13 DEF Press, Down
<1>14. CASE Release BY <1>14 DEF Release, Paint, Down
<1>15. CASE HeldLong BY <1>15 DEF HeldLong
<1>16. CASE BootDenied BY <1>16 DEF BootDenied, Paint
<1>17. CASE BootAccepted BY <1>17 DEF BootAccepted
<1>18. CASE BootRefused BY <1>18 DEF BootRefused, Paint
<1>19. CASE Leave BY <1>19 DEF Leave
<1>20. CASE Busy BY <1>20 DEF Busy
<1>21. CASE MoveKey
  <2>1. -1 \in Events /\ downFor \in Events
    BY DEF TimesOK, Events
  <2>2. PICK e \in Events : queue' = IF keyOpen THEN Append(queue, e) ELSE queue
    BY <1>21, <2>1 DEF MoveKey, Down
  <2>3. CASE keyOpen
    <3>1. queue' = Append(queue, e)
      BY <2>2, <2>3
    <3>2. queue' \in Seq(Events) /\ Len(queue') = Len(queue) + 1
      BY <3>1
    <3>3. Len(queue) \in Nat /\ Len(queue) < MaxQueue /\ batch' = batch
      BY <1>21 DEF MoveKey
    <3>4. QED BY <3>2, <3>3
  <2>4. CASE ~keyOpen BY <1>21, <2>2, <2>4 DEF MoveKey
  <2>5. QED BY <2>3, <2>4
<1>22. CASE MovePower BY <1>22 DEF MovePower
<1>23. CASE Ended BY <1>23 DEF Ended, vars
<1>24. CASE UNCHANGED vars BY <1>24 DEF vars
<1>25. QED
  BY <1>1, <1>2, <1>3, <1>4, <1>5, <1>6, <1>7, <1>8, <1>9, <1>10, <1>11,
     <1>12, <1>13, <1>14, <1>15, <1>16, <1>17, <1>18, <1>19, <1>20, <1>21,
     <1>22, <1>23, <1>24
  DEF Next, Step

\* Every action keeps the flags Boolean.
LEMMA FlagsStep == TypeOK /\ [Next]_vars => FlagsOK'
<1> SUFFICES ASSUME FlagsOK, [Next]_vars PROVE FlagsOK'
  BY DEF TypeOK
<1> USE DEF FlagsOK, clocks, input, world, panel
<1>1. CASE Begin BY <1>1 DEF Begin, Paint
<1>2. CASE Painted BY <1>2 DEF Painted
<1>3. CASE Sample BY <1>3 DEF Sample, OpenKey
<1>4. CASE PowerOff BY <1>4 DEF PowerOff
<1>5. CASE Asleep BY <1>5 DEF Asleep, Elapse
<1>6. CASE ShowScreen BY <1>6 DEF ShowScreen, Paint
<1>7. CASE Animate BY <1>7 DEF Animate, Paint
<1>8. CASE Darken BY <1>8 DEF Darken
<1>9. CASE Wait BY <1>9 DEF Wait, Elapse
<1>10. CASE Read BY <1>10 DEF Read
<1>11. CASE ReadFails BY <1>11 DEF ReadFails, Elapse
<1>12. CASE NoEvent BY <1>12 DEF NoEvent
<1>13. CASE Press BY <1>13 DEF Press
<1>14. CASE Release BY <1>14 DEF Release, Paint
<1>15. CASE HeldLong BY <1>15 DEF HeldLong
<1>16. CASE BootDenied BY <1>16 DEF BootDenied, Paint
<1>17. CASE BootAccepted BY <1>17 DEF BootAccepted
<1>18. CASE BootRefused BY <1>18 DEF BootRefused, Paint
<1>19. CASE Leave BY <1>19 DEF Leave
<1>20. CASE Busy BY <1>20 DEF Busy, Elapse
<1>21. CASE MoveKey BY <1>21 DEF MoveKey
<1>22. CASE MovePower BY <1>22 DEF MovePower
<1>23. CASE Ended BY <1>23 DEF Ended, vars
<1>24. CASE UNCHANGED vars BY <1>24 DEF vars
<1>25. QED
  BY <1>1, <1>2, <1>3, <1>4, <1>5, <1>6, <1>7, <1>8, <1>9, <1>10, <1>11,
     <1>12, <1>13, <1>14, <1>15, <1>16, <1>17, <1>18, <1>19, <1>20, <1>21,
     <1>22, <1>23, <1>24
  DEF Next, Step

\* Every action keeps the types.
LEMMA TypeStep == TypeOK /\ [Next]_vars => TypeOK'
  BY PlacesStep, TimesStep, QueuesStep, FlagsStep DEF TypeOK

\* The initial states are well typed.
LEMMA InitType == Init => TypeOK
<1> SUFFICES ASSUME Init PROVE TypeOK
  OBVIOUS
<1>1. PlacesOK
  BY DEF Init, PlacesOK, Pcs, Final
<1>2. TimesOK
  BY TimesAssumption DEF Init, TimesOK
<1>3. QueuesOK
  BY TimesAssumption DEF Init, QueuesOK
<1>4. FlagsOK
  BY DEF Init, FlagsOK
<1>5. QED
  BY <1>1, <1>2, <1>3, <1>4 DEF TypeOK

\* Every reachable state of the monitor loop is well typed: the ages stay
\* within their limits and the queues within their bound.
THEOREM TypeCorrect == Spec => []TypeOK
  BY InitType, TypeStep, PTL DEF Spec

\* The panel is lit by a painted frame only, or by the restart.
LEMMA LitStep == TypeOK /\ LitMeansPainted /\ [Next]_vars => LitMeansPainted'
<1> SUFFICES ASSUME TypeOK, LitMeansPainted, [Next]_vars PROVE LitMeansPainted'
  OBVIOUS
<1> USE DEF LitMeansPainted, Final, clocks, input, world, panel
<1>1. CASE Begin BY <1>1 DEF Begin, Paint
<1>2. CASE Painted BY <1>2 DEF Painted
<1>3. CASE Sample BY <1>3 DEF Sample, OpenKey, Display
<1>4. CASE PowerOff BY <1>4 DEF PowerOff
<1>5. CASE Asleep BY <1>5 DEF Asleep
<1>6. CASE ShowScreen BY <1>6 DEF ShowScreen, Paint
<1>7. CASE Animate BY <1>7 DEF Animate, Paint
<1>8. CASE Darken BY <1>8 DEF Darken
<1>9. CASE Wait BY <1>9 DEF Wait
<1>10. CASE Read BY <1>10 DEF Read
<1>11. CASE ReadFails BY <1>11 DEF ReadFails
<1>12. CASE NoEvent BY <1>12 DEF NoEvent
<1>13. CASE Press BY <1>13 DEF Press
<1>14. CASE Release BY <1>14 DEF Release, Paint
<1>15. CASE HeldLong BY <1>15 DEF HeldLong
<1>16. CASE BootDenied BY <1>16 DEF BootDenied, Paint
<1>17. CASE BootAccepted BY <1>17 DEF BootAccepted
<1>18. CASE BootRefused BY <1>18 DEF BootRefused, Paint
<1>19. CASE Leave BY <1>19 DEF Leave
<1>20. CASE Busy BY <1>20 DEF Busy
<1>21. CASE MoveKey BY <1>21 DEF MoveKey
<1>22. CASE MovePower BY <1>22 DEF MovePower
<1>23. CASE Ended BY <1>23 DEF Ended, vars
<1>24. CASE UNCHANGED vars BY <1>24 DEF vars
<1>25. QED
  BY <1>1, <1>2, <1>3, <1>4, <1>5, <1>6, <1>7, <1>8, <1>9, <1>10, <1>11,
     <1>12, <1>13, <1>14, <1>15, <1>16, <1>17, <1>18, <1>19, <1>20, <1>21,
     <1>22, <1>23, <1>24
  DEF Next, Step

\* render unblanks the panel only after the painter has succeeded, so that the
\* boot console is never seen, however slow or broken the painter is.
THEOREM LitSafe == Spec => []LitMeansPainted
<1>1. Init => LitMeansPainted
  BY DEF Init, LitMeansPainted
<1>2. QED BY <1>1, InitType, TypeStep, LitStep, PTL DEF Spec

-----------------------------------------------------------------------------
(* What a press that starts the normal system has really lasted.           *)

\* The events of a batch are being handled, or the answer to one.
Handling == pc = "event" \/ (pc \in {"paint", "boot"} /\ back = "event")

\* What is read, timed and open where: a batch only while it is handled,
\* and behind its last event a press has just begun or there is none.
PlaceInv ==
  /\ batch # <<>> => Handling \/ pc \in Final
  /\ Handling /\ pc \notin Final => keyOpen
  /\ ~keyOpen => queue = <<>> /\ (pressed = -1 \/ lost)
  /\ pc = "paint" => /\ busy <= Slow
                     /\ back \in {"loop", "event", "animate", "read"}
  /\ pc = "begin" \/ (pc = "paint" /\ back \in {"loop", "event"})
       => pressed = -1
  /\ pc = "boot" => back = "loop" \/ (back = "event" /\ pressed = -1)
  /\ pc = "event" /\ batch = <<>> => pressed <= 0
  /\ pc = "sleep" => back \in {"show", "dark", "read"} /\ (pressed = -1 \/ lost)

\* Presses and releases take turns, through both queues and up to the key.
Alternating(q) == \A i \in 1 .. Len(q) - 1 : q[i] = Down <=> q[i + 1] # Down
EventsInv ==
  /\ Alternating(batch) /\ Alternating(queue)
  /\ batch # <<>> /\ queue # <<>>
       => (batch[Len(batch)] = Down <=> queue[1] # Down)
  /\ queue # <<>> => (queue[Len(queue)] = Down <=> keyDown)
  /\ batch # <<>> /\ queue = <<>> => (batch[Len(batch)] = Down <=> keyDown)

\* The press that is being timed has not been released, or its release is
\* the next event.
Timing == pressed # -1 /\ ~lost /\ pc \notin Final \cup {"boot"}
Pending ==
  IF batch # <<>> THEN batch[1] # Down
  ELSE IF queue # <<>> THEN queue[1] # Down ELSE keyDown

\* For how long the loop may not have looked at the key.
Unseen ==
  CASE pc = "paint" -> IF back = "animate" THEN busy ELSE Slow + busy
    [] pc = "animate" -> Slow
    [] pc \in {"read", "event"} -> Blind
    [] OTHER -> 0

\* The age of a press exceeds its length by no more than that.
LengthInv == Timing =>
  /\ Pending
  /\ pressed <= RealLength + IF batch = <<>> /\ queue = <<>> THEN 0 ELSE Unseen

\* The tail of a queue, element by element.
LEMMA TailFacts ==
  ASSUME NEW q \in Seq(Events), q # <<>>
  PROVE  /\ Tail(q) \in Seq(Events) /\ Len(Tail(q)) = Len(q) - 1
         /\ \A i \in 1 .. Len(q) - 1 : Tail(q)[i] = q[i + 1]
         /\ Head(q) = q[1] /\ Len(q) \in Nat \ {0} /\ q[1] \in Events
  OBVIOUS

\* Events keep taking turns when the first has been handled ...
LEMMA AlternatingTail ==
  ASSUME NEW q \in Seq(Events), q # <<>>, Alternating(q)
  PROVE  Alternating(Tail(q))
  BY TailFacts DEF Alternating

\* ... and when the next arrives.
LEMMA AlternatingAppend ==
  ASSUME NEW q \in Seq(Events), NEW e \in Events, Alternating(q),
         q # <<>> => (q[Len(q)] = Down <=> e # Down)
  PROVE  Alternating(Append(q, e))
  BY DEF Alternating

\* Every action keeps the events where they belong.
LEMMA PlaceStep == TypeOK /\ PlaceInv /\ [Next]_vars => PlaceInv'
<1> SUFFICES ASSUME TypeOK, PlaceInv, [Next]_vars PROVE PlaceInv'
  OBVIOUS
<1> USE TimesAssumption
<1> USE DEF TypeOK, PlacesOK, TimesOK, FlagsOK, Pcs, PlaceInv, Handling, Final,
  clocks, input, world, panel
<1>1. CASE Begin
  BY <1>1 DEF Begin, Paint
<1>2. CASE Painted
  BY <1>2 DEF Painted
<1>3. CASE Sample
  <2>1. pc' \in {"poweroff", "show", "animate", "dark", "read"}
    BY <1>3 DEF Sample, Display
  <2>2. keyOpen => keyOpen'
    BY <1>3, Zenon DEF Sample, OpenKey
  <2>3. QED
    BY <1>3, <2>1, <2>2 DEF Sample
<1>4. CASE PowerOff
  BY <1>4 DEF PowerOff
<1>5. CASE Asleep
  <2>1. pressed' = -1 \/ lost'
    BY <1>5 DEF Asleep, Elapse, Aged
  <2>2. pc' \in {"sleep", "show", "dark", "read"} /\ back' = back
    BY <1>5 DEF Asleep
  <2>3. UNCHANGED <<batch, queue, keyOpen>> /\ (pressed = -1 => pressed' = -1)
    BY <1>5 DEF Asleep, Elapse, Aged
  <2>4. pc' = "sleep" => pc = "sleep"
    BY <1>5 DEF Asleep
  <2>5. QED
    BY <1>5, <2>1, <2>2, <2>3, <2>4 DEF Asleep
<1>6. CASE ShowScreen
  BY <1>6 DEF ShowScreen, Paint
<1>7. CASE Animate
  BY <1>7 DEF Animate, Paint
<1>8. CASE Darken
  BY <1>8 DEF Darken
<1>9. CASE Wait
  BY <1>9 DEF Wait, Elapse, Aged
<1>10. CASE Read
  BY <1>10 DEF Read
<1>11. CASE ReadFails
  BY <1>11 DEF ReadFails, Elapse, Aged
<1>12. CASE NoEvent
  BY <1>12 DEF NoEvent
<1>13. CASE Press
  BY <1>13 DEF Press
<1>14. CASE Release
  BY <1>14 DEF Release, Paint
<1>15. CASE HeldLong
  BY <1>15 DEF HeldLong
<1>16. CASE BootDenied
  BY <1>16 DEF BootDenied, Paint
<1>17. CASE BootAccepted
  BY <1>17 DEF BootAccepted
<1>18. CASE BootRefused
  BY <1>18 DEF BootRefused
<1>19. CASE Leave
  BY <1>19 DEF Leave
<1>20. CASE Busy
  BY <1>20 DEF Busy, Elapse, Aged
<1>21. CASE MoveKey
  BY <1>21 DEF MoveKey
<1>22. CASE MovePower
  BY <1>22 DEF MovePower
<1>23. CASE Ended
  BY <1>23 DEF Ended, vars
<1>24. CASE UNCHANGED vars
  BY <1>24 DEF vars
<1>25. QED
  BY <1>1, <1>2, <1>3, <1>4, <1>5, <1>6, <1>7, <1>8, <1>9, <1>10, <1>11,
     <1>12, <1>13, <1>14, <1>15, <1>16, <1>17, <1>18, <1>19, <1>20, <1>21,
     <1>22, <1>23, <1>24
  DEF Next, Step


\* Handling the first event keeps the turns of both queues.
LEMMA TailTurns ==
  ASSUME TypeOK, EventsInv, batch # <<>>, batch' = Tail(batch),
         UNCHANGED <<queue, keyDown>>
  PROVE  EventsInv'
<1>1. batch \in Seq(Events)
  BY DEF TypeOK, QueuesOK
<1>2. Alternating(batch') /\ Alternating(queue')
  BY <1>1, AlternatingTail DEF EventsInv
<1>3. batch' # <<>> => batch'[Len(batch')] = batch[Len(batch)]
  BY <1>1, TailFacts
<1>4. QED
  BY <1>2, <1>3 DEF EventsInv

\* So does the next event.
LEMMA AppendTurns ==
  ASSUME TypeOK, EventsInv, NEW e \in Events, e = Down <=> ~keyDown,
         queue' = Append(queue, e), batch' = batch, keyDown' <=> ~keyDown
  PROVE  EventsInv'
<1>1. queue \in Seq(Events) /\ batch \in Seq(Events)
  BY DEF TypeOK, QueuesOK
<1>2. Alternating(batch') /\ Alternating(queue')
  BY <1>1, AlternatingAppend DEF EventsInv
<1>3. /\ queue' # <<>> /\ queue'[Len(queue')] = e
      /\ queue'[1] = IF queue = <<>> THEN e ELSE queue[1]
  BY <1>1
<1>4. QED
  BY <1>2, <1>3 DEF EventsInv

\* A key that is down is released after a press of some length.
LEMMA DownEvent ==
  ASSUME TimesOK
  PROVE  /\ Down \in Events /\ downFor \in Events /\ downFor # Down
  BY TimesAssumption DEF TimesOK, Events, Down

\* Every action keeps the turns.
LEMMA EventsStep == TypeOK /\ PlaceInv /\ EventsInv /\ [Next]_vars => EventsInv'
<1> SUFFICES ASSUME TypeOK, PlaceInv, EventsInv, [Next]_vars PROVE EventsInv'
  OBVIOUS
<1> USE DEF EventsInv, clocks, input, world, panel
<1>1. CASE Begin
  BY <1>1 DEF Begin, Paint
<1>2. CASE Painted
  BY <1>2 DEF Painted
<1>3. CASE Sample
  BY <1>3 DEF Sample, OpenKey, Display
<1>4. CASE PowerOff
  BY <1>4 DEF PowerOff
<1>5. CASE Asleep
  BY <1>5 DEF Asleep, Elapse, Aged
<1>6. CASE ShowScreen
  BY <1>6 DEF ShowScreen, Paint
<1>7. CASE Animate
  BY <1>7 DEF Animate, Paint
<1>8. CASE Darken
  BY <1>8 DEF Darken
<1>9. CASE Wait
  BY <1>9 DEF Wait, Elapse, Aged
<1>10. CASE Read
  <2>1. batch = <<>> /\ batch' = queue /\ queue' = <<>> /\ keyDown' = keyDown
    BY <1>10 DEF Read, PlaceInv, Handling, Final
  <2>2. QED
    BY <2>1 DEF Alternating
<1>11. CASE ReadFails
  <2>1. batch = <<>> /\ batch' = batch /\ queue' = <<>>
    BY <1>11 DEF ReadFails, PlaceInv, Handling, Final
  <2>2. QED
    BY <2>1 DEF Alternating
<1>12. CASE NoEvent
  BY <1>12 DEF NoEvent
<1>13. CASE Press
  <2>1. batch # <<>> /\ batch' = Tail(batch) /\ UNCHANGED <<queue, keyDown>>
    BY <1>13 DEF Press
  <2>2. QED
    BY <2>1, TailTurns
<1>14. CASE Release
  <2>1. batch # <<>> /\ batch' = Tail(batch) /\ UNCHANGED <<queue, keyDown>>
    BY <1>14 DEF Release
  <2>2. QED
    BY <2>1, TailTurns
<1>15. CASE HeldLong
  BY <1>15 DEF HeldLong
<1>16. CASE BootDenied
  BY <1>16 DEF BootDenied, Paint
<1>17. CASE BootAccepted
  BY <1>17 DEF BootAccepted
<1>18. CASE BootRefused
  BY <1>18 DEF BootRefused
<1>19. CASE Leave
  BY <1>19 DEF Leave
<1>20. CASE Busy
  BY <1>20 DEF Busy, Elapse, Aged
<1>21. CASE MoveKey
  <2>1. CASE ~keyOpen
    <3>1. (queue = <<>> /\ batch = <<>>) \/ pc \in Final
      BY <2>1 DEF PlaceInv
    <3>2. QED
      BY <1>21, <2>1, <3>1 DEF MoveKey, PlaceInv, Handling
  <2>2. CASE keyOpen
    <3>1. PICK e \in Events : /\ queue' = Append(queue, e)
                              /\ e = Down <=> ~keyDown
      BY <1>21, <2>2, DownEvent DEF MoveKey, TypeOK, TimesOK
    <3>2. batch' = batch /\ (keyDown' <=> ~keyDown)
      BY <1>21, Zenon DEF MoveKey
    <3>3. QED
      BY <3>1, <3>2, AppendTurns
  <2>3. QED
    BY <2>1, <2>2
<1>22. CASE MovePower
  BY <1>22 DEF MovePower
<1>23. CASE Ended
  BY <1>23 DEF Ended, vars
<1>24. CASE UNCHANGED vars
  BY <1>24 DEF vars
<1>25. QED
  BY <1>1, <1>2, <1>3, <1>4, <1>5, <1>6, <1>7, <1>8, <1>9, <1>10, <1>11,
     <1>12, <1>13, <1>14, <1>15, <1>16, <1>17, <1>18, <1>19, <1>20, <1>21,
     <1>22, <1>23, <1>24
  DEF Next, Step


\* The time unseen is a number of ticks.
LEMMA UnseenType == TypeOK => Unseen \in Nat
  BY TimesAssumption DEF TypeOK, TimesOK, Unseen, Blind

\* The length of a press is one, unless a press is next.
LEMMA LengthType ==
  TypeOK => /\ RealLength \in -1 .. Hold /\ pressed \in -1 .. Hold
            /\ Pending => RealLength \in 0 .. Hold
<1> SUFFICES ASSUME TypeOK
             PROVE  /\ RealLength \in -1 .. Hold /\ pressed \in -1 .. Hold
                    /\ Pending => RealLength \in 0 .. Hold
  OBVIOUS
<1>1. /\ batch # <<>> => Head(batch) \in -1 .. Hold /\ Head(batch) = batch[1]
      /\ queue # <<>> => Head(queue) \in -1 .. Hold /\ Head(queue) = queue[1]
  BY TailFacts DEF TypeOK, QueuesOK, Events
<1>2. downFor \in 0 .. Hold /\ pressed \in -1 .. Hold /\ Hold \in Nat
  BY TimesAssumption DEF TypeOK, TimesOK
<1>3. QED
  BY <1>1, <1>2 DEF RealLength, Pending, Down

\* A step outside time keeps the lengths if the loop does not claim to have
\* looked at the key.
LEMMA LengthFrame ==
  ASSUME TypeOK, TypeOK', LengthInv,
         UNCHANGED <<batch, queue, downFor, keyDown, pressed>>,
         Timing' => Timing /\ Unseen <= Unseen'
  PROVE  LengthInv'
<1>1. RealLength' = RealLength /\ Pending' = Pending
  BY DEF RealLength, Pending
<1>2. RealLength \in Int /\ pressed \in Int /\ Unseen \in Int
  BY LengthType, UnseenType, TimesAssumption
<1>u. Unseen' \in Int
  <2>1. (TypeOK => Unseen \in Nat)'
    BY UnseenType, PTL
  <2>2. QED
    BY <2>1
<1>3. SUFFICES ASSUME Timing' PROVE LengthInv'
  BY DEF LengthInv
<1>4. /\ Pending
      /\ pressed <= RealLength + IF batch = <<>> /\ queue = <<>>
                                THEN 0 ELSE Unseen
  BY <1>3 DEF LengthInv
<1>5. CASE batch = <<>> /\ queue = <<>>
  BY <1>1, <1>2, <1>4, <1>5 DEF LengthInv
<1>6. CASE ~(batch = <<>> /\ queue = <<>>)
  <2>1. Unseen <= Unseen' /\ pressed <= RealLength + Unseen
    BY <1>3, <1>4, <1>6
  <2>2. pressed <= RealLength + Unseen'
    <3>1. \A a, b, c, d \in Int : a <= b + c /\ c <= d => a <= b + d
      OBVIOUS
    <3>2. QED
      BY <1>2, <1>u, <2>1, <3>1, Zenon
  <2>3. pressed' <= RealLength' + Unseen' /\ Pending'
    BY <1>1, <1>4, <2>2
  <2>4. QED
    BY <1>6, <2>3 DEF LengthInv
<1>7. QED
  BY <1>5, <1>6

\* So does a tick, if there is nothing to look at or it is counted.
LEMMA LengthTick ==
  ASSUME TypeOK, TypeOK', LengthInv, Elapse,
         UNCHANGED <<batch, queue, keyDown>>,
         Timing' => /\ Timing
                    /\ (batch = <<>> /\ queue = <<>>) \/ Unseen + 1 <= Unseen'
  PROVE  LengthInv'
<1> SUFFICES ASSUME Timing', Timing PROVE LengthInv'
  BY DEF LengthInv
<1>1. /\ Hold \in Nat /\ pressed \in -1 .. Hold /\ downFor \in 0 .. Hold
      /\ pressed' = Aged(pressed, Hold)
      /\ downFor' = IF keyDown THEN Aged(downFor, Hold) ELSE downFor
  BY TimesAssumption DEF TypeOK, TimesOK, Elapse
<1>2. pressed' <= pressed + 1 /\ pressed' \in Int
  BY <1>1 DEF Aged
<1>3. Pending' = Pending
  BY DEF Pending
<1>4. CASE batch = <<>> /\ queue = <<>>
  <2>1. keyDown /\ pressed <= downFor
    BY <1>1, <1>4 DEF LengthInv, Pending, RealLength
  <2>2. pressed' <= downFor'
    BY <1>1, <2>1 DEF Aged
  <2>3. QED
    BY <1>1, <1>2, <1>3, <1>4, <2>1, <2>2 DEF LengthInv, RealLength, Aged
<1>5. CASE ~(batch = <<>> /\ queue = <<>>)
  <2>1. RealLength' = RealLength
    BY <1>5 DEF RealLength
  <2>2. RealLength \in Int /\ Unseen \in Int
    BY <1>1, LengthType, UnseenType
  <2>4. Unseen' \in Int
    <3>1. (TypeOK => Unseen \in Nat)'
      BY UnseenType, PTL
    <3>2. QED
      BY <3>1
  <2>3. QED
    BY <1>1, <1>2, <1>3, <1>5, <2>1, <2>2, <2>4 DEF LengthInv
<1>6. QED
  BY <1>4, <1>5

\* A press that has just begun, or the answer to one, needs no allowance.
LEMMA LengthFresh ==
  ASSUME TypeOK', Timing' => pressed' = 0 /\ Pending'
  PROVE  LengthInv'
<1>1. (TypeOK => Unseen \in Nat)'
  BY UnseenType, PTL
<1>2. (TypeOK => /\ RealLength \in -1 .. Hold /\ pressed \in -1 .. Hold
                 /\ Pending => RealLength \in 0 .. Hold)'
  BY LengthType, PTL
<1>3. QED
  BY <1>1, <1>2 DEF LengthInv

\* Every action keeps the lengths.
LEMMA LengthStep ==
  TypeOK /\ PlaceInv /\ EventsInv /\ LengthInv /\ [Next]_vars => LengthInv'
<1> SUFFICES ASSUME TypeOK, PlaceInv, EventsInv, LengthInv, [Next]_vars
             PROVE  LengthInv'
  OBVIOUS
<1> USE DEF Timing, Final, clocks, input, world, panel
<1>t. TypeOK'
  BY TypeStep
<1>b. /\ Slow \in Nat /\ busy \in Nat /\ Hold \in Nat /\ pressed \in -1 .. Hold
      /\ downFor \in 0 .. Hold /\ (pc = "paint" => busy <= Slow)
  BY TimesAssumption DEF TypeOK, TimesOK, PlaceInv
<1>1. CASE Begin
  <2>1. ~Timing'
    BY <1>1 DEF Begin, Paint, PlaceInv
  <2>2. QED
    BY <2>1 DEF LengthInv
<1>2. CASE Painted
  <2>1. UNCHANGED <<batch, queue, downFor, keyDown, pressed, lost>>
    BY <1>2 DEF Painted
  <2>2. /\ pc = "paint" /\ pc' = back /\ back' = back
        /\ back \in {"loop", "event", "animate", "read"}
        /\ back \in {"loop", "event"} => pressed = -1
    BY <1>2 DEF Painted, PlaceInv
  <2>3. Timing' => Timing /\ Unseen <= Unseen'
    BY <1>b, <2>1, <2>2 DEF Unseen, Blind
  <2>4. QED
    BY <2>1, <2>3, <1>t, LengthFrame
<1>3. CASE Sample
  <2>1. UNCHANGED <<batch, queue, downFor, keyDown, pressed>>
    BY <1>3 DEF Sample
  <2>2. /\ pc' \in {"poweroff", "show", "animate", "dark", "read"}
        /\ pc = "loop" /\ lost' = lost
    BY <1>3 DEF Sample, Display
  <2>3. Timing' => Timing
    BY <2>1, <2>2
  <2>4. Unseen <= Unseen'
    BY <1>b, <2>2 DEF Unseen, Blind
  <2>5. QED
    BY <2>1, <2>3, <2>4, <1>t, LengthFrame
<1>4. CASE PowerOff
  <2>1. ~Timing'
    BY <1>4 DEF PowerOff, PlaceInv
  <2>2. QED
    BY <2>1 DEF LengthInv
<1>5. CASE Asleep
  <2>1. ~Timing'
    BY <1>5 DEF Asleep, Elapse, Aged, PlaceInv
  <2>2. QED
    BY <2>1 DEF LengthInv
<1>6. CASE ShowScreen
  <2>1. UNCHANGED <<batch, queue, downFor, keyDown, pressed>>
    BY <1>6 DEF ShowScreen, Paint
  <2>2. Timing' => Timing /\ Unseen <= Unseen'
    BY <1>6 DEF ShowScreen, Paint, Unseen, PlaceInv
  <2>3. QED
    BY <2>1, <2>2, <1>t, LengthFrame
<1>7. CASE Animate
  <2>1. UNCHANGED <<batch, queue, downFor, keyDown, pressed, lost>>
    BY <1>7 DEF Animate
  <2>2. /\ pc = "animate"
        /\ pc' = "read" \/ (pc' = "paint" /\ back' = "read" /\ busy' = 0)
    BY <1>7 DEF Animate, Paint
  <2>3. Timing' => Timing
    BY <2>1, <2>2
  <2>4. Unseen <= Unseen'
    BY <1>b, <2>2 DEF Unseen, Blind
  <2>5. QED
    BY <2>1, <2>3, <2>4, <1>t, LengthFrame
<1>8. CASE Darken
  <2>1. UNCHANGED <<batch, queue, downFor, keyDown, pressed>>
    BY <1>8 DEF Darken
  <2>2. Timing' => Timing /\ Unseen <= Unseen'
    BY <1>8, <1>b DEF Darken, Unseen, PlaceInv, Blind
  <2>3. QED
    BY <2>1, <2>2, <1>t, LengthFrame
<1>9. CASE Wait
  <2>1. UNCHANGED <<batch, queue, keyDown>>
    BY <1>9 DEF Wait
  <2>2. Timing' => /\ Timing
                   /\ (batch = <<>> /\ queue = <<>>) \/ Unseen + 1 <= Unseen'
    <3>1. /\ batch = <<>> /\ pc = "read" /\ lost' = lost
          /\ queue = <<>> \/ ~keyOpen
      BY <1>9 DEF Wait, PlaceInv, Handling
    <3>2. pressed' = -1 <=> pressed = -1
      BY <1>9, <1>b DEF Wait, Elapse, Aged
    <3>3. QED
      BY <3>1, <3>2 DEF PlaceInv
  <2>3. QED
    BY <1>9, <2>1, <2>2, <1>t, LengthTick DEF Wait
<1>10. CASE Read
  <2>1. /\ batch = <<>> /\ queue # <<>> /\ batch' = queue /\ queue' = <<>>
        /\ UNCHANGED <<pressed, downFor, keyDown, lost>>
        /\ pc = "read" /\ pc' = "event"
    BY <1>10 DEF Read, PlaceInv, Handling
  <2>2. Timing' => Timing /\ Unseen' = Unseen /\ Pending' = Pending
    BY <2>1 DEF Unseen, Pending
  <2>3. RealLength' = RealLength
    BY <2>1 DEF RealLength
  <2>4. QED
    BY <2>1, <2>2, <2>3 DEF LengthInv
<1>11. CASE ReadFails
  <2>1. ~Timing'
    BY <1>11 DEF ReadFails, Elapse, Aged, PlaceInv
  <2>2. QED
    BY <2>1 DEF LengthInv
<1>12. CASE NoEvent
  <2>1. pressed' <= 0 /\ Timing' => pressed' = 0 /\ Pending'
    BY <1>12, <1>b DEF NoEvent, LengthInv, Pending
  <2>2. pressed' <= 0
    BY <1>12 DEF NoEvent, PlaceInv
  <2>3. QED
    BY <2>1, <2>2, <1>t, LengthFresh
<1>13. CASE Press
  <2>1. pressed' = 0
    BY <1>13 DEF Press
  <2>2. Pending'
    <3>1. /\ batch \in Seq(Events) /\ batch # <<>> /\ batch[1] = Down
          /\ batch' = Tail(batch) /\ UNCHANGED <<queue, keyDown>>
      BY <1>13, TailFacts DEF Press, TypeOK, QueuesOK
    <3>2. /\ Len(batch) \in Nat \ {0} /\ Len(batch') = Len(batch) - 1
          /\ batch' \in Seq(Events)
      BY <3>1, TailFacts
    <3>3. CASE Len(batch) = 1
      <4>1. batch' = <<>>
        BY <3>2, <3>3
      <4>2. QED
        BY <3>1, <3>3, <4>1 DEF EventsInv, Pending
    <3>4. CASE Len(batch) # 1
      <4>1. batch' # <<>> /\ 1 \in 1 .. Len(batch) - 1
        BY <3>2, <3>4
      <4>2. batch'[1] = batch[2]
        BY <3>1, <4>1, TailFacts
      <4>3. batch[2] # Down
        BY <3>1, <4>1 DEF EventsInv, Alternating
      <4>4. QED
        BY <4>1, <4>2, <4>3 DEF Pending
    <3>5. QED
      BY <3>3, <3>4
  <2>3. QED
    BY <2>1, <2>2, <1>t, LengthFresh
<1>14. CASE Release
  <2>1. ~Timing'
    BY <1>14 DEF Release, Paint, PlaceInv
  <2>2. QED
    BY <2>1 DEF LengthInv
<1>15. CASE HeldLong
  <2>1. UNCHANGED <<batch, queue, downFor, keyDown, pressed>>
    BY <1>15 DEF HeldLong
  <2>2. Timing' => Timing /\ Unseen <= Unseen'
    BY <1>15 DEF HeldLong, Unseen, PlaceInv
  <2>3. QED
    BY <2>1, <2>2, <1>t, LengthFrame
<1>16. CASE BootDenied
  <2>1. ~Timing'
    BY <1>16 DEF BootDenied, Paint, PlaceInv
  <2>2. QED
    BY <2>1 DEF LengthInv
<1>17. CASE BootAccepted
  <2>1. ~Timing'
    BY <1>17 DEF BootAccepted, PlaceInv
  <2>2. QED
    BY <2>1 DEF LengthInv
<1>18. CASE BootRefused
  <2>1. ~Timing'
    BY <1>18 DEF BootRefused, PlaceInv
  <2>2. QED
    BY <2>1 DEF LengthInv
<1>19. CASE Leave
  <2>1. ~Timing'
    BY <1>19 DEF Leave, PlaceInv
  <2>2. QED
    BY <2>1 DEF LengthInv
<1>20. CASE Busy
  <2>1. UNCHANGED <<batch, queue, keyDown>>
    BY <1>20 DEF Busy
  <2>2. Timing' => /\ Timing
                   /\ (batch = <<>> /\ queue = <<>>) \/ Unseen + 1 <= Unseen'
    <3>1. /\ pc \in {"begin", "paint"} /\ pc' = pc /\ back' = back
          /\ busy' = busy + 1 /\ lost' = lost
      BY <1>20 DEF Busy
    <3>2. pressed' = -1 <=> pressed = -1
      BY <1>20, <1>b DEF Busy, Elapse, Aged
    <3>3. pc = "begin" => pressed = -1
      BY DEF PlaceInv
    <3>4. pc = "paint" => Unseen + 1 <= Unseen'
      BY <1>b, <3>1 DEF Unseen
    <3>5. QED
      BY <3>1, <3>2, <3>3, <3>4
  <2>3. QED
    BY <1>20, <2>1, <2>2, <1>t, LengthTick DEF Busy
<1>21. CASE MoveKey
  <2> SUFFICES ASSUME Timing' PROVE LengthInv'
    BY DEF LengthInv
  <2>1. Timing /\ keyOpen /\ UNCHANGED <<pc, back, busy, batch, pressed>>
    BY <1>21 DEF MoveKey, PlaceInv
  <2>2. Unseen' = Unseen
    BY <2>1 DEF Unseen
  <2>3. queue \in Seq(Events) /\ downFor \in Events /\ downFor # Down
    BY DownEvent DEF TypeOK, QueuesOK
  <2>4. CASE batch = <<>> /\ queue = <<>>
    <3>1. keyDown /\ pressed <= downFor
      BY <1>b, <2>1, <2>4 DEF LengthInv, Pending, RealLength
    <3>2. queue' = <<downFor>>
      BY <1>21, <2>1, <2>3, <2>4, <3>1 DEF MoveKey
    <3>3. Pending' /\ RealLength' = downFor
      BY <2>1, <2>3, <2>4, <3>2 DEF Pending, RealLength
    <3>4. QED
      BY <1>b, <2>1, <2>2, <3>1, <3>3, UnseenType DEF LengthInv
  <2>5. CASE batch # <<>>
    BY <2>1, <2>2, <2>5 DEF LengthInv, Pending, RealLength
  <2>6. CASE batch = <<>> /\ queue # <<>>
    <3>1. PICK e : queue' = Append(queue, e) /\ e \in Events
      BY <1>21, <2>1, <2>3, DownEvent DEF MoveKey, TypeOK
    <3>2. queue' # <<>> /\ queue'[1] = queue[1] /\ Head(queue') = Head(queue)
      BY <2>3, <2>6, <3>1
    <3>3. QED
      BY <2>1, <2>2, <2>6, <3>2 DEF LengthInv, Pending, RealLength
  <2>7. QED
    BY <2>4, <2>5, <2>6
<1>22. CASE MovePower
  <2>1. /\ UNCHANGED <<batch, queue, downFor, keyDown, pressed>>
        /\ UNCHANGED <<pc, back, busy, lost>>
    BY <1>22 DEF MovePower
  <2>2. Unseen' = Unseen
    BY <2>1 DEF Unseen
  <2>3. QED
    BY <1>t, <2>1, <2>2, LengthFrame, UnseenType
<1>23. CASE Ended
  <2>1. ~Timing'
    BY <1>23 DEF Ended, vars, PlaceInv
  <2>2. QED
    BY <2>1 DEF LengthInv
<1>24. CASE UNCHANGED vars
  <2>1. /\ UNCHANGED <<batch, queue, downFor, keyDown, pressed>>
        /\ UNCHANGED <<pc, back, busy, lost>>
    BY <1>24 DEF vars
  <2>2. Unseen' = Unseen
    BY <2>1 DEF Unseen
  <2>3. QED
    BY <1>t, <2>1, <2>2, LengthFrame, UnseenType
<1>25. QED
  BY <1>1, <1>2, <1>3, <1>4, <1>5, <1>6, <1>7, <1>8, <1>9, <1>10, <1>11,
     <1>12, <1>13, <1>14, <1>15, <1>16, <1>17, <1>18, <1>19, <1>20, <1>21,
     <1>22, <1>23, <1>24
  DEF Next, Step


\* All four hold before the first screen.
LEMMA HoldInit == Init => TypeOK /\ PlaceInv /\ EventsInv /\ LengthInv
<1> SUFFICES ASSUME Init PROVE TypeOK /\ PlaceInv /\ EventsInv /\ LengthInv
  OBVIOUS
<1>1. PlaceInv /\ EventsInv
  BY DEF Init, PlaceInv, Handling, Final, EventsInv, Alternating
<1>2. LengthInv
  BY DEF Init, LengthInv, Timing
<1>3. QED
  BY <1>1, <1>2, InitType

\* Hence they always hold.
LEMMA HoldAlways == Spec => [](TypeOK /\ PlaceInv /\ EventsInv /\ LengthInv)
  BY HoldInit, TypeStep, PlaceStep, EventsStep, LengthStep, PTL DEF Spec

\* An attempt to boot is an answer to a release or to a key held down.
LEMMA AttemptWhen ==
  ASSUME TypeOK, Next, pc # "boot", pc' = "boot"
  PROVE  (Release /\ pressed = Hold) \/ (HeldLong /\ pressed = Hold)
<1> USE DEF TypeOK, PlacesOK, Final, clocks, input, world, panel
<1>1. Release \/ HeldLong
  BY DEF Next, Step, vars, Begin, Paint, Painted, Sample, OpenKey, Display,
     PowerOff, Asleep, ShowScreen, Animate, Darken, Wait, Read, ReadFails,
     NoEvent, Press, BootDenied, BootAccepted, BootRefused, Leave, Busy,
     MoveKey, MovePower, Ended
<1>2. QED
  BY <1>1 DEF Release, HeldLong, Paint

\* A key still down is answered by a boot only after a press that really
\* lasted as long as the code asks for, unless its end was lost or slept
\* through: the loop has looked at the key just before.
THEOREM HeldIsExact ==
  Spec => [][pc = "hold" /\ pc' = "boot" => RealLength >= Hold \/ lost]_vars
<1>1. TypeOK /\ LengthInv /\ [Next]_vars
        => [pc = "hold" /\ pc' = "boot" => RealLength >= Hold \/ lost]_vars
  <2> SUFFICES ASSUME TypeOK, LengthInv, Next, pc = "hold", pc' = "boot", ~lost
               PROVE  RealLength >= Hold
    OBVIOUS
  <2>1. pressed = Hold
    BY AttemptWhen
  <2>2. Hold \in Nat /\ Hold # 0 /\ RealLength \in Int
    BY TimesAssumption, LengthType
  <2>3. Timing /\ Unseen = 0
    BY <2>1, <2>2 DEF Timing, Final, Unseen
  <2>4. QED
    BY <2>1, <2>2, <2>3 DEF LengthInv
<1>2. QED
  BY <1>1, HoldAlways, PTL DEF Spec

\* No press boots the normal system unless it really lasted the hold time,
\* but for the time in which the loop may not look at the key, or its end
\* was lost or slept through: a press that has been answered, or that waits
\* in the kernel's queue behind others, is never taken for a hold.
THEOREM HoldSafe == Spec => HoldStartsBoot
<1>1. TypeOK /\ PlaceInv /\ LengthInv /\ [Next]_vars
        => [Attempt => RealLength + Blind >= Hold \/ lost]_vars
  <2> SUFFICES ASSUME TypeOK, PlaceInv, LengthInv, Next, Attempt, ~lost
               PROVE  RealLength + Blind >= Hold
    OBVIOUS
  <2>1. pressed = Hold /\ pc \in {"hold", "event"}
    BY AttemptWhen DEF Attempt, Release, HeldLong
  <2>2. /\ Hold \in Nat /\ Hold # 0 /\ RealLength \in Int
        /\ Blind \in Nat
    BY TimesAssumption, LengthType DEF Blind
  <2>3. Timing /\ Unseen \in {0, Blind}
    BY <2>1, <2>2 DEF Timing, Final, Unseen
  <2>4. QED
    BY <2>1, <2>2, <2>3 DEF LengthInv
<1>2. QED
  BY <1>1, HoldAlways, PTL DEF Spec, HoldStartsBoot

=============================================================================
