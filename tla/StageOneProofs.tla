--------------------------- MODULE StageOneProofs ---------------------------
(***************************************************************************)
(* For every length of the list, size of its pages, number of attempts and *)
(* limit of the wait: the guard's wait is bounded, the menu is never shown *)
(* on a dark panel, the selected entry is always on its page, the screen   *)
(* is what a complete redraw would show, an untouched menu boots the       *)
(* default, no key repeats once it is gone, a press beats the countdown,   *)
(* and all values keep their types.  The detectors of a charger boot agree *)
(* on all parameters.                                                      *)
(***************************************************************************)
EXTENDS StageOne, TLAPS, WellFoundedInduction

-----------------------------------------------------------------------------
(* The bound of the wait.  A second slept in the two waits is an attempt   *)
(* used up; one slept while charging is on the loop's own clock, which is  *)
(* looked at before each poll, or was given to a power-off.                *)

Charging == {"charge", "poll", "poweroff", "restore"}

Budget ==
  /\ gpc = "called" => slept = 0 /\ elapsed = 0 /\ ignored = 0
  /\ gpc = "battery" => slept + tries <= Attempts /\ elapsed = 0 /\ ignored = 0
  /\ gpc = "power" => slept + tries <= 2 * Attempts /\ elapsed = 0 /\ ignored = 0
  /\ gpc = "blank" => slept <= 2 * Attempts /\ elapsed = 0 /\ ignored = 0
  /\ gpc \in Charging => slept <= 2 * Attempts + elapsed + OffSeconds * ignored
  /\ gpc \in Charging => elapsed <= MaxWait + PollSeconds
  /\ gpc \in {"poll", "poweroff"} => elapsed < MaxWait

Counters ==
  /\ tries \in Nat /\ slept \in Nat /\ elapsed \in Nat /\ ignored \in Nat

GInv == Counters /\ Budget /\ WaitBounded

LEMMA OneMore ==
  ASSUME NEW a \in Nat, NEW n \in Nat
  PROVE  a * (n + 1) = a * n + a /\ a * n \in Nat
  BY SMT

LEMMA GuardInitHolds == StageInit => GInv
<1> SUFFICES ASSUME StageInit PROVE GInv
  OBVIOUS
<1>1. gpc = "called" /\ tries = 0 /\ slept = 0 /\ elapsed = 0 /\ ignored = 0
  BY DEF StageInit, GuardInit
<1>2. OffSeconds * 0 = 0
  BY GuardAssumption DEF GuardAssumption
<1> QED
  BY <1>1, <1>2, GuardAssumption
  DEF GInv, Counters, Budget, WaitBounded, LongestWait, Charging, GuardAssumption

LEMMA GuardStepHolds == GInv /\ [StageNext]_svars => GInv'
<1> SUFFICES ASSUME GInv, [StageNext]_svars PROVE GInv'
  OBVIOUS
<1> USE GuardAssumption
    DEF GInv, Counters, Budget, WaitBounded, LongestWait, Charging, GuardAssumption
<1>1. OffSeconds * ignored \in Nat
  BY OneMore
<1>2. CASE AskMode
  BY <1>1, <1>2 DEF AskMode
<1>3. CASE LookForBattery
  BY <1>1, <1>3 DEF LookForBattery
<1>4. CASE LookForPower
  BY <1>1, <1>4 DEF LookForPower
<1>5. CASE GiveUp
  BY <1>1, <1>5 DEF GiveUp
<1>6. CASE BlankDisplay
  BY <1>1, <1>6 DEF BlankDisplay
<1>7. CASE LookAtCapacity
  BY <1>1, <1>7 DEF LookAtCapacity
<1>8. CASE PollPower
  BY <1>1, <1>8 DEF PollPower
<1>9. CASE PowerOff
  <2>1. CASE gpc' \in Stopped /\ UNCHANGED <<elapsed, slept, ignored>>
    BY <1>1, <1>9, <2>1 DEF PowerOff, Stopped
  <2>2. CASE gpc' = "charge" /\ ignored' = ignored + 1
    <3>1. OffSeconds * ignored' = OffSeconds * ignored + OffSeconds
      BY <2>2, OneMore
    <3>2. elapsed' = elapsed + PollSeconds /\ slept' = slept + OffSeconds + PollSeconds
      BY <1>9, <2>2 DEF PowerOff, Stopped
    <3> QED
      BY <1>1, <1>9, <2>2, <3>1, <3>2 DEF PowerOff
  <2> QED
    BY <1>9, <2>1, <2>2 DEF PowerOff
<1>10. CASE RestoreDisplay
  BY <1>1, <1>10 DEF RestoreDisplay
<1>11. CASE Handoff
  BY <1>1, <1>11 DEF Handoff
<1>12. CASE Hardware
  BY <1>1, <1>12 DEF Hardware
<1>13. CASE EnterMenu
  <2>1. OffSeconds * 0 = 0
    OBVIOUS
  <2> QED
    BY <1>13, <2>1 DEF EnterMenu
<1>14. CASE UNCHANGED <<gpc, tries, slept, elapsed, ignored>>
  BY <1>14
<1>15. ASSUME Open \/ MenuStep \/ ClockStep \/ UserStep \/ UNCHANGED svars
       PROVE  UNCHANGED <<gpc, tries, slept, elapsed, ignored>>
  BY <1>15 DEF Open, MenuStep, ClockStep, UserStep, svars, gvars
<1> QED
  BY <1>2, <1>3, <1>4, <1>5, <1>6, <1>7, <1>8, <1>9, <1>10, <1>11, <1>12, <1>13,
     <1>14, <1>15
  DEF StageNext, GuardStep, GuardNext, Guard

\* Whatever the battery and the charger do, the guard's wait is no longer
\* than its two waits for hardware, the charging and the ignored power-offs,
\* for every choice of these numbers.
THEOREM WaitBoundedHolds == StageSpec => []WaitBounded
<1>1. GInv => WaitBounded
  BY DEF GInv
<1> QED BY <1>1, GuardInitHolds, GuardStepHolds, PTL DEF StageSpec

-----------------------------------------------------------------------------
(* The panel.  It is dark only while the guard charges, which remembers    *)
(* what it was, and the menu opens only after the guard.                   *)

Lit == backlight = Bright /\ ~blank

Panel ==
  /\ gpc \in {"called", "battery", "power", "blank", "done", "left"} => Lit
  /\ gpc \in Charging => saved_backlights = Bright
  /\ saved_backlights \in {Nowhere, Bright}
  /\ gpc # "left" => mpc = "closed"

LEMMA PanelInit == StageInit => Panel
  BY DEF StageInit, GuardInit, MenuInit, Panel, Lit, Charging, Bright, Nowhere

LEMMA PanelStep == Panel /\ [StageNext]_svars => Panel'
<1> SUFFICES ASSUME Panel, [StageNext]_svars PROVE Panel'
  OBVIOUS
<1> USE DEF Panel, Lit, Charging, panel, hardware, Bright, Nowhere, Dark
<1>1. CASE GuardStep
  <2>1. CASE AskMode
    BY <1>1, <2>1 DEF GuardStep, mvars, AskMode
  <2>2. CASE LookForBattery
    BY <1>1, <2>2 DEF GuardStep, mvars, LookForBattery
  <2>3. CASE LookForPower
    BY <1>1, <2>3 DEF GuardStep, mvars, LookForPower
  <2>4. CASE GiveUp
    BY <1>1, <2>4 DEF GuardStep, mvars, GiveUp
  <2>5. CASE BlankDisplay
    BY <1>1, <2>5 DEF GuardStep, mvars, BlankDisplay
  <2>6. CASE LookAtCapacity
    BY <1>1, <2>6 DEF GuardStep, mvars, LookAtCapacity
  <2>7. CASE PollPower
    BY <1>1, <2>7 DEF GuardStep, mvars, PollPower
  <2>8. CASE PowerOff
    BY <1>1, <2>8 DEF GuardStep, mvars, PowerOff, Stopped
  <2>9. CASE RestoreDisplay
    BY <1>1, <2>9 DEF GuardStep, mvars, RestoreDisplay
  <2>10. CASE Handoff
    BY <1>1, <2>10 DEF GuardStep, mvars, Handoff
  <2>11. CASE Hardware
    BY <1>1, <2>11 DEF GuardStep, mvars, Hardware
  <2> QED
    BY <1>1, <2>1, <2>2, <2>3, <2>4, <2>5, <2>6, <2>7, <2>8, <2>9, <2>10, <2>11
    DEF GuardStep, GuardNext, Guard
<1>2. CASE EnterMenu
  BY <1>2 DEF EnterMenu, mvars
<1>3. CASE Open
  BY <1>3 DEF Open
<1>4. CASE MenuStep \/ ClockStep \/ UserStep
  BY <1>4 DEF MenuStep, ClockStep, UserStep, gvars
<1>5. CASE UNCHANGED svars
  BY <1>5 DEF svars, gvars, mvars
<1> QED
  BY <1>1, <1>2, <1>3, <1>4, <1>5 DEF StageNext

\* The menu is never shown on a dark panel.
THEOREM MenuLitHolds == StageSpec => []MenuLit
<1>1. Panel => MenuLit
  BY DEF Panel, MenuLit, InMenu, Lit
<1> QED BY <1>1, PanelInit, PanelStep, PTL DEF StageSpec

-----------------------------------------------------------------------------
(* Paging.                                                                 *)

\* The page is the one of the list's pages that the selected entry is on.
OnPage ==
  /\ selected \in 0 .. MenuLength - 1
  /\ page_start \in Nat
  /\ \E k \in Nat : page_start = k * PageSize
  /\ page_start <= selected /\ selected < page_start + PageSize

LEMMA Sizes ==
  /\ MenuLength \in Nat \ {0} /\ PageSize \in Nat \ {0}
  /\ PageSize <= MenuLength
  BY ListAssumption DEF ListAssumption, MenuLength, PageSize

\* The page an entry is on is found by a division.
LEMMA PageOf ==
  ASSUME NEW n \in Nat, NEW p \in Nat \ {0}
  PROVE  /\ n \div p \in Nat
         /\ (n \div p) * p <= n /\ n < (n \div p) * p + p
  BY SMT

LEMMA Multiples ==
  ASSUME NEW k \in Nat, NEW p \in Nat \ {0}
  PROVE  /\ k * p \in Nat
         /\ (k * p) % p = 0
         /\ (k + 1) * p = k * p + p
         /\ k # 0 => (k - 1) * p = k * p - p /\ p <= k * p
         /\ k * p < p => k = 0
  BY SMT

LEMMA OnPageIsVisible == OnPage => VisibleSelected
<1> SUFFICES ASSUME OnPage PROVE VisibleSelected
  OBVIOUS
<1>1. PICK k \in Nat : page_start = k * PageSize
  BY DEF OnPage
<1>2. page_start % PageSize = 0
  BY <1>1, Sizes, Multiples
<1>3. selected \in Visible(page_start)
  <2>1. CASE MenuLength <= PageSize
    BY <2>1, Sizes DEF OnPage, Visible, First, End
  <2>2. CASE ~(MenuLength <= PageSize)
    BY <2>2, Sizes DEF OnPage, Visible, First, End, Atleast0
  <2> QED BY <2>1, <2>2
<1> QED BY <1>2, <1>3 DEF VisibleSelected

LEMMA MoveKeepsPage ==
  ASSUME OnPage, NEW direction \in Nav, Move(direction)
  PROVE  OnPage'
<1>1. PICK k \in Nat : page_start = k * PageSize
  BY DEF OnPage
<1>2. CASE MenuLength <= 1
  <2>1. selected' = 0 /\ page_start' = 0 /\ 0 = 0 * PageSize
    BY <1>2, Sizes DEF Move
  <2> QED BY <2>1, Sizes DEF OnPage
<1>3. CASE MenuLength > 1 /\ direction = "down"
  <2>1. /\ selected' = (selected + 1) % MenuLength
        /\ page_start' = IF selected' = 0 THEN 0
                         ELSE IF selected' >= page_start + PageSize
                         THEN page_start + PageSize ELSE page_start
    BY <1>3, Sizes DEF Move, Nav
  <2>2. selected' = IF selected + 1 = MenuLength THEN 0 ELSE selected + 1
    BY <1>3, <2>1, Sizes DEF OnPage
  <2>3. CASE selected' = 0
    <3>1. page_start' = 0 /\ 0 = 0 * PageSize
      BY <2>1, <2>3, Sizes
    <3> QED BY <2>3, <3>1, Sizes DEF OnPage
  <2>4. CASE selected' = selected + 1 /\ selected' >= page_start + PageSize
    <3>1. page_start' = (k + 1) * PageSize /\ page_start' = page_start + PageSize
      BY <1>1, <2>1, <2>4, Sizes, Multiples DEF OnPage
    <3>2. selected' = page_start'
      BY <2>4, <3>1, Sizes DEF OnPage
    <3>3. selected' \in 0 .. MenuLength - 1
      BY <2>2, <2>4, Sizes DEF OnPage
    <3> QED BY <3>1, <3>2, <3>3, Sizes DEF OnPage
  <2>5. CASE selected' = selected + 1 /\ ~(selected' >= page_start + PageSize)
    <3>1. page_start' = page_start
      BY <2>1, <2>5 DEF OnPage
    <3> QED BY <2>2, <2>5, <3>1, Sizes DEF OnPage
  <2> QED BY <2>2, <2>3, <2>4, <2>5
<1>4. CASE MenuLength > 1 /\ direction = "up"
  <2>1. /\ selected' = (selected - 1) % MenuLength
        /\ page_start' = IF selected = 0 THEN LastPageStart
                         ELSE IF selected' < page_start
                         THEN Atleast0(page_start - PageSize) ELSE page_start
    BY <1>4, Sizes DEF Move, Nav
  <2>2. selected' = IF selected = 0 THEN MenuLength - 1 ELSE selected - 1
    BY <1>4, <2>1, Sizes DEF OnPage
  <2>3. CASE selected = 0
    <3> DEFINE q == (MenuLength - 1) \div PageSize
    <3>1. q \in Nat /\ q * PageSize <= MenuLength - 1
          /\ MenuLength - 1 < q * PageSize + PageSize
      BY Sizes, PageOf
    <3>2. page_start' = q * PageSize /\ selected' = MenuLength - 1
      BY <2>1, <2>2, <2>3 DEF LastPageStart
    <3>3. q * PageSize \in Nat
      BY <3>1, Sizes, Multiples
    <3> HIDE DEF q
    <3> QED BY <3>1, <3>2, <3>3, Sizes DEF OnPage
  <2>4. CASE selected # 0 /\ selected' < page_start
    <3>1. k # 0
      BY <1>1, <2>2, <2>4, Sizes DEF OnPage
    <3>2. page_start - PageSize = (k - 1) * PageSize /\ PageSize <= page_start
      BY <1>1, <3>1, Sizes, Multiples
    <3>3. page_start' = page_start - PageSize
      BY <2>1, <2>4, <3>2, Sizes DEF Atleast0, OnPage
    <3>4. selected' = page_start - 1
      BY <2>2, <2>4, Sizes DEF OnPage
    <3>5. \E j \in Nat : page_start' = j * PageSize
      BY <3>1, <3>2, <3>3
    <3> QED BY <2>4, <3>2, <3>3, <3>4, <3>5, Sizes DEF OnPage
  <2>5. CASE selected # 0 /\ ~(selected' < page_start)
    <3>1. page_start' = page_start /\ selected' = selected - 1
      BY <2>1, <2>2, <2>5
    <3> QED BY <2>5, <3>1, Sizes DEF OnPage
  <2> QED BY <2>3, <2>4, <2>5
<1> QED BY <1>2, <1>3, <1>4, Sizes DEF Nav

LEMMA OnPageInit == StageInit => OnPage
<1>1. 0 = 0 * PageSize
  BY Sizes
<1> QED BY <1>1, Sizes DEF StageInit, MenuInit, OnPage

LEMMA OnPageStep == OnPage /\ [StageNext]_svars => OnPage'
<1> SUFFICES ASSUME OnPage, [StageNext]_svars PROVE OnPage'
  OBVIOUS
<1>1. CASE UNCHANGED <<selected, page_start>>
  BY <1>1 DEF OnPage
<1>2. ASSUME NEW f, Turn(f) PROVE OnPage'
  <2>1. CASE \E direction \in Nav : Move(direction)
    BY <2>1, MoveKeepsPage
  <2>2. \/ \E direction \in Nav : Move(direction)
        \/ UNCHANGED <<selected, page_start>>
    BY <1>2 DEF Turn, selection, Nav
  <2> QED BY <1>1, <2>1, <2>2
<1>3. CASE GuardStep \/ EnterMenu \/ UNCHANGED svars
  <2>1. UNCHANGED mvars
    BY <1>3 DEF GuardStep, EnterMenu, svars
  <2> QED BY <1>1, <2>1 DEF mvars, selection
<1>4. CASE Open
  BY <1>1, <1>4 DEF Open, OpenMenu, selection
<1>5. CASE MenuStep
  <2>1. CASE Render
    BY <1>1, <2>1 DEF Render, selection
  <2>2. ASSUME NEW f \in Scans, Settle(f) PROVE OnPage'
    BY <1>1, <2>2 DEF Settle, selection
  <2>3. ASSUME NEW f \in Scans, LetGo(f) PROVE OnPage'
    BY <1>1, <2>3 DEF LetGo, selection
  <2> QED BY <1>2, <1>5, <2>1, <2>2, <2>3 DEF MenuStep, Choose, Poll
<1>6. CASE ClockStep
  BY <1>1, <1>6 DEF ClockStep, Tick, selection
<1>7. CASE UserStep
  BY <1>1, <1>7
  DEF UserStep, User, KeyDown, KeyUp, KeyRepeat, Unplug, Plug, selection
<1> QED BY <1>3, <1>4, <1>5, <1>6, <1>7 DEF StageNext

\* However long the list and however large its pages, the selected entry is
\* on the page that is shown, and that page is one of the list's.
THEOREM VisibleSelectedHolds == StageSpec => []VisibleSelected
  BY OnPageIsVisible, OnPageInit, OnPageStep, PTL DEF StageSpec

-----------------------------------------------------------------------------
(* The screen.  It is that of a complete redraw of what was rendered last, *)
(* at every moment and not only when the menu polls: what is drawn next    *)
(* starts from it.                                                         *)

Shown(on) == FullPage(on, last.selected, last.page, last.remaining)

ScreenIsLast ==
  /\ last.selected # None => last.selected \in Visible(last.page)
  /\ ~framebuffer_failed /\ last.selected # None => screen = Shown("framebuffer")
  /\ framebuffer_failed => screen = FullText(last.selected, last.remaining)
  /\ mpc = "poll" => last.selected = selected /\ last.page = page_start

\* Drawing what changed on top of the last screen draws the whole of it.
LEMMA PaintedIsWhole ==
  ASSUME OnPage, ScreenIsLast, ~framebuffer_failed
  PROVE  Painted = FullPage("framebuffer", selected, page_start, Remaining)
<1>1. CASE last.selected = None \/ Visible(last.page) # Visible(page_start)
  BY <1>1 DEF Painted
<1>2. CASE ~(last.selected = None \/ Visible(last.page) # Visible(page_start))
  <2> DEFINE rows == Visible(page_start)
             marked == IF last.selected = selected THEN screen.marked
                       ELSE (screen.marked \ {last.selected}) \cup {selected}
             number == IF last.selected = selected THEN screen.number ELSE selected
             countdown == IF last.remaining = Remaining THEN screen.countdown
                          ELSE Remaining
  <2>1. screen = [on |-> "framebuffer", rows |-> rows,
                  marked |-> {last.selected} \cap rows,
                  number |-> last.selected, countdown |-> last.remaining]
    BY <1>2 DEF ScreenIsLast, Shown, FullPage
  <2>2. Painted = [screen EXCEPT !.marked = marked, !.number = number,
                                 !.countdown = countdown]
    BY <1>2 DEF Painted
  <2>3. Painted = [on |-> "framebuffer", rows |-> rows, marked |-> marked,
                   number |-> number, countdown |-> countdown]
    <3> HIDE DEF marked, number, countdown, rows
    <3> QED BY <2>1, <2>2
  <2>4. number = selected /\ countdown = Remaining
    BY <2>1
  <2>5. marked = {selected} \cap rows
    <3>1. last.selected \in rows /\ selected \in rows
      BY <1>2, OnPageIsVisible DEF ScreenIsLast, VisibleSelected
    <3>2. screen.marked = {last.selected}
      BY <2>1, <3>1
    <3> QED BY <3>1, <3>2
  <2> HIDE DEF marked, number, countdown
  <2> QED BY <2>3, <2>4, <2>5 DEF FullPage
<1> QED BY <1>1, <1>2

LEMMA RenderKeepsScreen ==
  ASSUME OnPage, ScreenIsLast, Render
  PROVE  ScreenIsLast'
<1>1. mpc' = "poll" /\ selected' = selected /\ page_start' = page_start
  BY DEF Render, selection
<1>2. CASE Current = last /\ UNCHANGED display
  <2>1. last.selected = selected /\ last.page = page_start
    BY <1>2 DEF Current
  <2> QED BY <1>1, <1>2, <2>1 DEF ScreenIsLast, Shown, display
<1>3. CASE last' = Current
  <2>1. last'.selected = selected /\ last'.page = page_start
        /\ last'.remaining = Remaining
    BY <1>3 DEF Current
  <2>2. last'.selected \in Visible(last'.page)
    BY <2>1, OnPageIsVisible DEF VisibleSelected
  <2>3. CASE ~framebuffer_failed /\ screen' = Painted /\ UNCHANGED framebuffer_failed
    BY <1>1, <2>1, <2>2, <2>3, PaintedIsWhole DEF ScreenIsLast, Shown
  <2>4. CASE screen' = FullText(selected, Remaining) /\ framebuffer_failed' = TRUE
    BY <1>1, <2>1, <2>2, <2>4 DEF ScreenIsLast
  <2> QED BY <1>2, <1>3, <2>3, <2>4 DEF Render
<1> QED BY <1>2, <1>3 DEF Render

LEMMA ScreenInit == StageInit => ScreenIsLast
  BY DEF StageInit, MenuInit, ScreenIsLast, None

LEMMA ScreenStep == OnPage /\ ScreenIsLast /\ [StageNext]_svars => ScreenIsLast'
<1> SUFFICES ASSUME OnPage, ScreenIsLast, [StageNext]_svars PROVE ScreenIsLast'
  OBVIOUS
<1>1. CASE UNCHANGED display /\ (mpc' = "poll" => mpc = "poll" /\ UNCHANGED selection)
  BY <1>1 DEF ScreenIsLast, Shown, display, selection
<1>2. CASE GuardStep \/ EnterMenu \/ UNCHANGED svars
  <2>1. UNCHANGED mvars
    BY <1>2 DEF GuardStep, EnterMenu, svars
  <2> QED BY <1>1, <2>1 DEF mvars
<1>3. CASE Open
  BY <1>1, <1>3 DEF Open, OpenMenu
<1>4. CASE MenuStep
  <2>1. CASE Render
    BY <2>1, RenderKeepsScreen
  <2>2. ASSUME NEW f \in Scans, Settle(f) PROVE ScreenIsLast'
    BY <1>1, <2>2 DEF Settle
  <2>3. ASSUME NEW f \in Scans, LetGo(f) PROVE ScreenIsLast'
    BY <1>1, <2>3 DEF LetGo
  <2>4. ASSUME NEW f \in Scans, Turn(f) PROVE ScreenIsLast'
    <3>1. UNCHANGED display /\ mpc' # "poll"
      BY <2>4 DEF Turn
    <3> QED BY <1>1, <3>1
  <2> QED BY <1>4, <2>1, <2>2, <2>3, <2>4 DEF MenuStep, Choose, Poll
<1>5. CASE ClockStep
  BY <1>1, <1>5 DEF ClockStep, Tick
<1>6. CASE UserStep
  BY <1>1, <1>6 DEF UserStep, User, KeyDown, KeyUp, KeyRepeat, Unplug, Plug
<1> QED BY <1>2, <1>3, <1>4, <1>5, <1>6 DEF StageNext

\* Although only what changed is drawn, the screen is that of a complete
\* redraw, for every list, page size, timeout and set of devices.
THEOREM ScreenMatchesHolds == StageSpec => []ScreenMatches
<1>1. ScreenIsLast /\ OnPage => ScreenMatches
  <2>1. OnPage => selected # None
    BY Sizes DEF OnPage, None
  <2> QED BY <2>1 DEF ScreenIsLast, ScreenMatches, Shown
<1> QED
  BY <1>1, OnPageInit, OnPageStep, ScreenInit, ScreenStep, PTL DEF StageSpec

-----------------------------------------------------------------------------
(* The types.  The menu's need its paging: an entry stays in the list.     *)

LEMMA GuardTypeInit == StageInit => GuardTypeOK
<1> SUFFICES ASSUME StageInit PROVE GuardTypeOK
  OBVIOUS
<1>1. blank \in BOOLEAN /\ power \in BOOLEAN
  BY Zenon DEF StageInit, GuardInit
<1> QED
  BY <1>1, GuardAssumption
  DEF StageInit, GuardInit, GuardTypeOK, GuardAssumption, Bright, Nowhere

LEMMA GuardTypeStep == GuardTypeOK /\ Panel /\ [StageNext]_svars => GuardTypeOK'
<1> SUFFICES ASSUME GuardTypeOK, Panel, [StageNext]_svars PROVE GuardTypeOK'
  OBVIOUS
<1> USE GuardAssumption
    DEF GuardTypeOK, GuardAssumption, Waits, Stopped, Bright, Dark, Nowhere, NoLevel,
        panel, hardware
<1>1. CASE AskMode
  BY <1>1 DEF AskMode
<1>2. CASE LookForBattery
  BY <1>2 DEF LookForBattery
<1>3. CASE LookForPower
  BY <1>3 DEF LookForPower
<1>4. CASE GiveUp
  BY <1>4 DEF GiveUp
<1>5. CASE BlankDisplay
  BY <1>5 DEF BlankDisplay, Panel, Lit
<1>6. CASE LookAtCapacity
  BY <1>6 DEF LookAtCapacity
<1>7. CASE PollPower
  BY <1>7 DEF PollPower
<1>8. CASE PowerOff
  BY <1>8 DEF PowerOff
<1>9. CASE RestoreDisplay
  BY <1>9 DEF RestoreDisplay
<1>10. CASE Handoff
  BY <1>10 DEF Handoff
<1>11. CASE Hardware
  BY <1>11 DEF Hardware
<1>12. CASE EnterMenu
  <2>1. power' \in BOOLEAN
    BY <1>12, Zenon DEF EnterMenu
  <2>2. 0 \in 0 .. Attempts /\ 0 \in Nat
    OBVIOUS
  <2> QED
    BY <1>12, <2>1, <2>2 DEF EnterMenu
<1>13. CASE Open
  BY <1>13 DEF Open
<1>14. CASE MenuStep \/ ClockStep \/ UserStep \/ UNCHANGED svars
  BY <1>14 DEF MenuStep, ClockStep, UserStep, svars, gvars
<1> QED
  BY <1>1, <1>2, <1>3, <1>4, <1>5, <1>6, <1>7, <1>8, <1>9, <1>10, <1>11, <1>12,
     <1>13, <1>14
  DEF StageNext, GuardStep, GuardNext, Guard

\* In every state of the guard its counters and the panel have their types.
THEOREM GuardTypeOKHolds == StageSpec => []GuardTypeOK
  BY GuardTypeInit, GuardTypeStep, PanelInit, PanelStep, PTL DEF StageSpec

LEMMA MenuTypeInit == StageInit => MenuTypeOK
<1> SUFFICES ASSUME StageInit PROVE MenuTypeOK
  OBVIOUS
<1> USE DEF StageInit, MenuInit
<1>1. /\ mpc = "closed" /\ polls \in 0 .. ReleasePolls /\ left \in 0 .. Timeout
      /\ selected \in 0 .. MenuLength - 1 /\ page_start \in 0 .. MenuLength - 1
  BY TimeAssumption, Sizes DEF TimeAssumption
<1>2. /\ age \in [Nav -> 0 .. RepeatDelay] /\ since \in [Nav -> 0 .. RepeatInterval]
  BY TimeAssumption DEF TimeAssumption
<1>3. /\ held \in [Devices -> SUBSET Keys] /\ pressed \in [Devices -> SUBSET Keys]
      /\ fd \in [Devices -> {"none", "live", "stale"}] /\ plugged \subseteq Devices
  OBVIOUS
<1>4. /\ manual_selection \in BOOLEAN /\ countdown_active \in BOOLEAN
      /\ was \in [Nav -> BOOLEAN]
      /\ touched \in BOOLEAN /\ framebuffer_failed \in BOOLEAN
  BY Zenon
<1> QED
  BY <1>1, <1>2, <1>3, <1>4 DEF MenuTypeOK

\* What a poll reads leaves the tables as they should be.
LEMMA ReceiveTypes ==
  ASSUME MenuTypeOK, NEW f \in [Devices -> {"none", "live", "stale"}], Receive(f)
  PROVE  /\ held' \in [Devices -> SUBSET Keys]
         /\ fd' \in [Devices -> {"none", "live", "stale"}]
<1>1. \A d \in Devices : HeldAfter(held[d], queue[d]) \in SUBSET Keys
  BY DEF HeldAfter
<1> QED
  BY <1>1 DEF Receive, MenuTypeOK

LEMMA ScansTypes ==
  ASSUME MenuTypeOK
  PROVE  Scans \subseteq [Devices -> {"none", "live", "stale"}]
  BY DEF Scans, Scanned, MenuTypeOK

\* A wait for a release is left when its polls are used up.
Polling == mpc \in {"settle", "letgo"} => polls > 0

LEMMA PollingInit == StageInit => Polling
  BY DEF StageInit, MenuInit, Polling

LEMMA PollingStep == MenuTypeOK /\ Polling /\ [StageNext]_svars => Polling'
<1> SUFFICES ASSUME MenuTypeOK, Polling, [StageNext]_svars PROVE Polling'
  OBVIOUS
<1> USE DEF Polling
<1>1. CASE UNCHANGED <<mpc, polls>>
  BY <1>1
<1>2. CASE GuardStep \/ EnterMenu \/ ClockStep \/ UserStep \/ UNCHANGED svars
  <2>1. UNCHANGED <<mpc, polls>>
    BY <1>2
    DEF GuardStep, EnterMenu, ClockStep, Tick, UserStep, User, KeyDown, KeyUp,
        KeyRepeat, Unplug, Plug, mvars, svars
  <2> QED BY <1>1, <2>1
<1>3. CASE Open
  BY <1>3, TimeAssumption DEF Open, OpenMenu, TimeAssumption
<1>4. CASE Render
  BY <1>4 DEF Render
<1>5. ASSUME NEW f \in Scans, Settle(f) PROVE Polling'
  BY <1>5 DEF Settle
<1>6. ASSUME NEW f \in Scans, Poll(f) PROVE Polling'
  BY <1>6, TimeAssumption DEF Poll, Turn, TimeAssumption
<1>7. ASSUME NEW f \in Scans, LetGo(f) PROVE Polling'
  BY <1>7 DEF LetGo
<1> QED
  BY <1>2, <1>3, <1>4, <1>5, <1>6, <1>7 DEF StageNext, MenuStep, Choose

LEMMA MenuTypeStep ==
  MenuTypeOK /\ Polling /\ OnPage /\ [StageNext]_svars => MenuTypeOK'
<1> SUFFICES ASSUME MenuTypeOK, Polling, OnPage, [StageNext]_svars PROVE MenuTypeOK'
  OBVIOUS
<1> DEFINE Paged == selected \in 0 .. MenuLength - 1 /\ page_start \in 0 .. MenuLength - 1
<1>1. Paged'
  <2>1. OnPage'
    BY OnPageStep
  <2> QED BY <2>1, Sizes DEF OnPage
<1> HIDE DEF Paged
<1>2. ASSUME Paged', /\ mpc' \in {"closed", "settle", "show", "poll", "letgo", "chosen"}
                     /\ polls' \in 0 .. ReleasePolls /\ left' \in 0 .. Timeout
                     /\ manual_selection' \in BOOLEAN /\ countdown_active' \in BOOLEAN
                     /\ touched' \in BOOLEAN /\ framebuffer_failed' \in BOOLEAN
                     /\ was' \in [Nav -> BOOLEAN] /\ age' \in [Nav -> 0 .. RepeatDelay]
                     /\ since' \in [Nav -> 0 .. RepeatInterval]
                     /\ held' \in [Devices -> SUBSET Keys]
                     /\ fd' \in [Devices -> {"none", "live", "stale"}]
                     /\ plugged' \subseteq Devices
                     /\ pressed' \in [Devices -> SUBSET Keys]
       PROVE  MenuTypeOK'
  BY <1>2 DEF MenuTypeOK, Paged
<1> USE TimeAssumption DEF TimeAssumption, selection, clock, repeats, input, world, display
<1>3. CASE GuardStep \/ EnterMenu \/ UNCHANGED svars
  <2>1. UNCHANGED mvars
    BY <1>3 DEF GuardStep, EnterMenu, svars
  <2> QED BY <2>1 DEF mvars, MenuTypeOK
<1>4. CASE Open
  <2>1. fd' \in [Devices -> {"none", "live", "stale"}]
        /\ held' \in [Devices -> SUBSET Keys]
    BY <1>4 DEF Open, OpenMenu, Scanned, MenuTypeOK
  <2>2. touched' \in BOOLEAN
    BY <1>4, Zenon DEF Open, OpenMenu
  <2>3. /\ mpc' = "settle" /\ polls' = ReleasePolls
        /\ UNCHANGED <<selection, clock, repeats, plugged, pressed, queue, unplugs, display>>
    BY <1>4 DEF Open, OpenMenu
  <2> QED BY <1>1, <1>2, <2>1, <2>2, <2>3 DEF MenuTypeOK
<1>5. CASE Render
  BY <1>1, <1>2, <1>5 DEF Render, MenuTypeOK
<1>6. ASSUME NEW f \in Scans, Settle(f) PROVE MenuTypeOK'
  <2>1. held' \in [Devices -> SUBSET Keys] /\ fd' \in [Devices -> {"none", "live", "stale"}]
    BY <1>6, ScansTypes, ReceiveTypes DEF Settle
  <2>2. polls' \in 0 .. ReleasePolls
    BY <1>6 DEF Settle, MenuTypeOK, Polling
  <2>3. mpc' \in {"settle", "show"} /\ left' \in 0 .. Timeout
    BY <1>6 DEF Settle, MenuTypeOK
  <2>5. countdown_active' \in BOOLEAN
    BY <1>6, Zenon DEF Settle, MenuTypeOK, clock
  <2>4. UNCHANGED <<selection, repeats, plugged, pressed, unplugs, touched, display>>
    BY <1>6 DEF Settle
  <2> QED BY <1>1, <1>2, <2>1, <2>2, <2>3, <2>4, <2>5 DEF MenuTypeOK
<1>7. ASSUME NEW f \in Scans, Poll(f) PROVE MenuTypeOK'
  <2>1. held' \in [Devices -> SUBSET Keys] /\ fd' \in [Devices -> {"none", "live", "stale"}]
    BY <1>7, ScansTypes, ReceiveTypes DEF Poll, Turn
  <2>2. was' \in [Nav -> BOOLEAN] /\ age' \in [Nav -> 0 .. RepeatDelay]
        /\ since' \in [Nav -> 0 .. RepeatInterval]
    <3>1. was' = [k \in Nav |-> Held(k)']
      BY <1>7 DEF Poll, Turn
    <3>2. was' \in [Nav -> BOOLEAN]
      BY <3>1 DEF Held
    <3>3. age' = [k \in Nav |-> IF Held(k)' /\ was[k] THEN age[k] ELSE 0]
      BY <1>7 DEF Poll, Turn
    <3>4. since' = [k \in Nav |-> IF Held(k)' /\ ~Fires(k) THEN since[k] ELSE 0]
      BY <1>7 DEF Poll, Turn
    <3>5. age' \in [Nav -> 0 .. RepeatDelay]
      BY <3>3 DEF MenuTypeOK
    <3>6. since' \in [Nav -> 0 .. RepeatInterval]
      BY <3>4 DEF MenuTypeOK
    <3> QED BY <3>2, <3>5, <3>6
  <2>3. UNCHANGED <<plugged, pressed, unplugs, touched, display>>
    BY <1>7 DEF Poll, Turn
  <2>4. /\ mpc' \in {"show", "letgo", "chosen"} /\ polls' \in 0 .. ReleasePolls
        /\ left' \in 0 .. Timeout
    BY <1>7 DEF Poll, Turn, MenuTypeOK
  <2>5. manual_selection' \in BOOLEAN /\ countdown_active' \in BOOLEAN
    BY <1>7, Zenon DEF Poll, Turn, MenuTypeOK, selection, clock
  <2> QED BY <1>1, <1>2, <2>1, <2>2, <2>3, <2>4, <2>5 DEF MenuTypeOK
<1>8. ASSUME NEW f \in Scans, LetGo(f) PROVE MenuTypeOK'
  <2>1. held' \in [Devices -> SUBSET Keys] /\ fd' \in [Devices -> {"none", "live", "stale"}]
    BY <1>8, ScansTypes, ReceiveTypes DEF LetGo
  <2>2. polls' \in 0 .. ReleasePolls /\ mpc' \in {"letgo", "chosen"}
    BY <1>8 DEF LetGo, MenuTypeOK, Polling
  <2>3. UNCHANGED <<selection, clock, repeats, plugged, pressed, unplugs, touched, display>>
    BY <1>8 DEF LetGo
  <2> QED BY <1>1, <1>2, <2>1, <2>2, <2>3 DEF MenuTypeOK
<1>9. CASE ClockStep
  <2>1. Tick
    BY <1>9 DEF ClockStep
  <2>2. left' \in 0 .. Timeout
    BY <2>1 DEF Tick, Atleast0, MenuTypeOK
  <2>3. age' \in [Nav -> 0 .. RepeatDelay] /\ since' \in [Nav -> 0 .. RepeatInterval]
    BY <2>1 DEF Tick, MenuTypeOK
  <2>4. UNCHANGED <<mpc, polls, selection, countdown_active, was, input, world, display>>
    BY <2>1 DEF Tick
  <2> QED BY <1>1, <1>2, <2>2, <2>3, <2>4 DEF MenuTypeOK
<1>10. CASE UserStep
  <2>1. /\ UNCHANGED <<mpc, polls, selection, clock, repeats, held, display>>
        /\ fd' \in [Devices -> {"none", "live", "stale"}]
        /\ plugged' \subseteq Devices
    BY <1>10
    DEF UserStep, User, KeyDown, KeyUp, KeyRepeat, Unplug, Plug, MenuTypeOK
  <2>2. PICK d \in Devices :
          \/ \E k \in KeysOf[d] : KeyDown(d, k) \/ KeyUp(d, k) \/ KeyRepeat(d, k)
          \/ Unplug(d) \/ Plug(d)
    BY <1>10 DEF UserStep, User
  <2>3. KeysOf[d] \subseteq Keys
    BY DeviceAssumption DEF DeviceAssumption
  <2>4. pressed' \in [Devices -> SUBSET Keys] /\ touched' \in BOOLEAN
    <3>1. ASSUME NEW k \in KeysOf[d], KeyDown(d, k)
          PROVE  pressed' \in [Devices -> SUBSET Keys] /\ touched' \in BOOLEAN
      <4>1. pressed' \in [Devices -> SUBSET Keys]
        BY <2>3, <3>1 DEF KeyDown, MenuTypeOK
      <4>2. touched' \in BOOLEAN
        <5>1. touched' = (mpc \in {"settle", "show", "poll", "letgo"})
          BY <3>1 DEF KeyDown, InMenu
        <5> QED BY <5>1
      <4> QED BY <4>1, <4>2
    <3>2. ASSUME NEW k \in KeysOf[d], KeyUp(d, k)
          PROVE  pressed' \in [Devices -> SUBSET Keys] /\ touched' \in BOOLEAN
      BY <3>2 DEF KeyUp, MenuTypeOK
    <3>3. ASSUME NEW k \in KeysOf[d], KeyRepeat(d, k)
          PROVE  pressed' \in [Devices -> SUBSET Keys] /\ touched' \in BOOLEAN
      BY <3>3 DEF KeyRepeat, MenuTypeOK
    <3>4. CASE Unplug(d)
      BY <3>4 DEF Unplug, MenuTypeOK
    <3>5. CASE Plug(d)
      BY <3>5 DEF Plug, MenuTypeOK
    <3> QED BY <2>2, <3>1, <3>2, <3>3, <3>4, <3>5
  <2> QED BY <1>1, <1>2, <2>1, <2>4 DEF MenuTypeOK
<1> QED
  BY <1>3, <1>4, <1>5, <1>6, <1>7, <1>8, <1>9, <1>10 DEF StageNext, MenuStep, Choose

\* In every state of the menu the clocks stay within the times they are
\* compared with and the selection within the list.
THEOREM MenuTypeOKHolds == StageSpec => []MenuTypeOK
  BY MenuTypeInit, MenuTypeStep, PollingInit, PollingStep, OnPageInit, OnPageStep,
     PTL DEF StageSpec

-----------------------------------------------------------------------------
(* The detectors.                                                          *)

\* A text parameter reads the same in both languages but for what is hidden.
LEMMA SameText ==
  ASSUME NEW b, NEW key \in {"force", "mode"}, ~Hidden(b)
  PROVE  /\ Value(b, key) = "1" <=> BootText(b, key) = "1"
         /\ Lower(Value(b, key)) = "charger" <=> Lower(BootText(b, key)) = "charger"
<1>1. CASE b.cmdline[key] = Absent
  BY <1>1 DEF Value, CmdlineValue, BootconfigValue, BootText, Absent, Empty, Lower
<1>2. CASE b.cmdline[key] = Empty
  <2>1. b.bootconfig[key] = Absent
    BY <1>2 DEF Hidden
  <2> QED BY <1>2, <2>1
    DEF Value, CmdlineValue, BootconfigValue, BootText, Absent, Empty, Lower
<1>3. CASE b.cmdline[key] \notin {Absent, Empty}
  BY <1>3 DEF Value, CmdlineValue, BootText
<1> QED BY <1>1, <1>2, <1>3

\* So does a power-on reason, which is a number or is none.
LEMMA SameReading ==
  ASSUME NEW n
  PROVE  /\ PowerKeyReasonOf(n) <=> PowerKeyPowerOnReason(n)
         /\ ChargerReasonOf(n) <=> ChargerPowerOnReason(n)
<1>1. CASE n >= 0
  <2>1. n # NotANumber
    BY <1>1 DEF NotANumber
  <2>2. ParsePowerOnReason(n) = n
    BY <1>1 DEF ParsePowerOnReason
  <2> QED
    BY <1>1, <2>1, <2>2, Zenon
    DEF PowerKeyReasonOf, ChargerReasonOf, PowerKeyPowerOnReason, ChargerPowerOnReason,
        UsbChg, Kpdpwr
<1>2. CASE ~(n >= 0)
  <2>1. ParsePowerOnReason(n) = NotANumber
    BY <1>2 DEF ParsePowerOnReason
  <2> QED
    BY <1>2, <2>1, Zenon
    DEF PowerKeyReasonOf, ChargerReasonOf, PowerKeyPowerOnReason, ChargerPowerOnReason,
        UsbChg, Kpdpwr
<1> QED BY <1>1, <1>2

\* And both look for the reason in the same place.
LEMMA SameNumber ==
  ASSUME NEW b, ~Hidden(b)
  PROVE  /\ PowerKeyReasonOf(Pureason(b)) <=> PowerKeyPowerOnReason(BootNumber(b))
         /\ ChargerReasonOf(Pureason(b)) <=> ChargerPowerOnReason(BootNumber(b))
<1>1. CASE b.cmdline.reason = EmptyReason
  <2>1. BootNumber(b) = EmptyReason /\ Pureason(b) = NoReason
    BY <1>1 DEF Hidden, BootNumber, Pureason, NoReason, EmptyReason
  <2>2. ~(EmptyReason >= 0) /\ ~(NoReason >= 0)
    BY DEF EmptyReason, NoReason
  <2>3. /\ ~PowerKeyPowerOnReason(EmptyReason) /\ ~ChargerPowerOnReason(EmptyReason)
        /\ ~PowerKeyPowerOnReason(NoReason) /\ ~ChargerPowerOnReason(NoReason)
    BY <2>2, Zenon DEF PowerKeyPowerOnReason, ChargerPowerOnReason, UsbChg, Kpdpwr
  <2> QED BY <2>1, <2>3, SameReading
<1>2. CASE b.cmdline.reason # EmptyReason
  <2>1. BootNumber(b) = Pureason(b)
    BY <1>2 DEF BootNumber, Pureason
  <2> QED BY <2>1, SameReading
<1> QED BY <1>1, <1>2

LEMMA DetectorsAgreeAlways == DetectorsAgree
<1>1. SplashSkipped(boot) <=> FirmwareCharger(boot)
  BY DEF SplashSkipped, FirmwareCharger
<1>2. ASSUME ~Hidden(boot)
      PROVE  DetectExit(boot) = 0 <=> FirmwareCharger(boot)
  <2>1. DetectChargerBoot(boot) <=> FirmwareCharger(boot)
    BY <1>2, SameText, SameNumber, Zenon DEF DetectChargerBoot, FirmwareCharger
  <2> QED BY <2>1 DEF DetectExit
<1> QED BY <1>1, <1>2 DEF DetectorsAgree

\* The three detectors give one answer on every mixture of parameters that
\* the firmware may pass, any number as the power-on reason included.
THEOREM DetectorsAgreeHolds == StageSpec => []DetectorsAgree
  BY DetectorsAgreeAlways, PTL

-----------------------------------------------------------------------------
(* The devices: what the menu takes for held is down.                      *)

Event == [key : Keys, value : 0 .. 2]

\* The table of descriptors and the devices: only a device that is there is
\* read, only an open descriptor has events, a device that is forgotten holds
\* nothing, and so does one that is gone.
Descriptors ==
  /\ mpc = "closed" => \A d \in Devices : fd[d] = "none"
  /\ \A d \in Devices : fd[d] = "live" => d \in plugged
  /\ \A d \in Devices : fd[d] # "live" => queue[d] = <<>>
  /\ \A d \in Devices : fd[d] = "none" => held[d] = {}
  /\ \A d \in Devices : d \notin plugged => pressed[d] = {}

\* What the menu will take for held once it has read the events that wait is
\* down: the queue holds all that the menu has missed.
HeldIsPressed ==
  \A d \in Devices : fd[d] = "live" => HeldAfter(held[d], queue[d]) \subseteq pressed[d]

KeysTrue ==
  /\ queue \in [Devices -> Seq(Event)]
  /\ Descriptors
  /\ HeldIsPressed

\* Before somebody touches the menu the selection is the default; no
\* navigation key is down, and no event that waits is a press, only the last
\* of a key that was down when the menu opened.
Untouched ==
  /\ mpc = "closed" => ~touched
  /\ ~touched => selected = 0 /\ ~manual_selection
  /\ InMenu /\ ~touched =>
       \A d \in Devices :
         /\ pressed[d] \cap Nav = {} /\ held[d] \cap Nav = {}
         /\ \A i \in DOMAIN queue[d] : queue[d][i].key = "confirm" /\ queue[d][i].value # Press

Tables == [Devices -> {"none", "live", "stale"}]

\* What is held after a batch, for no events and for one event more.
LEMMA HeldAfterNothing ==
  ASSUME NEW h \in SUBSET Keys
  PROVE  HeldAfter(h, <<>>) = h
<1>1. \A k : Mentions(<<>>, k) = {}
  BY DEF Mentions
<1> QED BY <1>1 DEF HeldAfter

LEMMA HeldAfterOneMore ==
  ASSUME NEW h \in SUBSET Keys, NEW q \in Seq(Event), NEW e \in Event
  PROVE  \A k : k \in HeldAfter(h, Append(q, e))
                  <=> IF k = e.key THEN e.value # Release ELSE k \in HeldAfter(h, q)
<1> DEFINE p == Append(q, e)
           n == Len(q) + 1
<1>1. /\ DOMAIN q = 1 .. Len(q) /\ DOMAIN p = 1 .. n /\ n \in Nat /\ Len(q) \in Nat
      /\ p[n] = e /\ \A i \in 1 .. Len(q) : p[i] = q[i]
  OBVIOUS
<1> HIDE DEF p
<1>2. Mentions(p, e.key) = Mentions(q, e.key) \cup {n}
  BY <1>1 DEF Mentions, n
<1>3. \A k \in Keys : k # e.key => Mentions(p, k) = Mentions(q, k)
  BY <1>1 DEF Mentions, n
<1>4. \A k : Mentions(q, k) \subseteq 1 .. Len(q)
  BY <1>1 DEF Mentions
<1> HIDE DEF n
<1>5. e.key \in HeldAfter(h, p) <=> e.value # Release
  <2>1. \A i \in Mentions(p, e.key) : i <= n /\ (i # n => ~(n <= i))
    BY <1>1, <1>2, <1>4 DEF n
  <2>2. n \in Mentions(p, e.key) /\ e.key \in Keys
    BY <1>2 DEF Event
  <2> QED BY <1>1, <2>1, <2>2 DEF HeldAfter
<1>6. ASSUME NEW k \in Keys, k # e.key
      PROVE  k \in HeldAfter(h, p) <=> k \in HeldAfter(h, q)
  <2>1. Mentions(p, k) = Mentions(q, k)
    BY <1>3, <1>6
  <2>2. \A i \in Mentions(q, k) : p[i] = q[i]
    BY <1>1, <1>4
  <2> QED BY <2>1, <2>2 DEF HeldAfter
<1>7. HeldAfter(h, p) \subseteq Keys /\ HeldAfter(h, q) \subseteq Keys /\ e.key \in Keys
  BY DEF HeldAfter, Event
<1> QED BY <1>5, <1>6, <1>7 DEF p

LEMMA KeysTrueInit == StageInit => KeysTrue
<1> SUFFICES ASSUME StageInit PROVE KeysTrue
  OBVIOUS
<1> USE DEF StageInit, MenuInit
<1>1. queue \in [Devices -> Seq(Event)]
  OBVIOUS
<1> QED BY <1>1 DEF KeysTrue, Descriptors, HeldIsPressed

\* What a scan makes of the descriptors.
LEMMA ScanTable ==
  ASSUME MenuTypeOK, KeysTrue, NEW f \in Scans
  PROVE  /\ f \in Tables
         /\ \A d \in Devices : f[d] = "live" => d \in plugged /\ fd[d] \in {"none", "live"}
         /\ \A d \in Devices : f[d] # "live" => queue[d] = <<>>
         /\ \A d \in Devices : f[d] = "stale" => fd[d] = "stale"
         /\ \A d \in Devices : fd[d] = "live" => f[d] = "live"
  BY DEF Scans, Scanned, MenuTypeOK, KeysTrue, Descriptors, Tables

\* A poll leaves held what the events it read say.
LEMMA ReceiveKeepsKeys ==
  ASSUME MenuTypeOK, KeysTrue, NEW f \in Scans, Receive(f), UNCHANGED <<plugged, pressed>>,
         mpc' # "closed"
  PROVE  KeysTrue'
<1> DEFINE read == {d \in Ready(f) : \A a \in Acting(f) : Rank[d] <= Rank[a]}
<1>1. /\ held' = [d \in Devices |->
                    IF f[d] = "none" \/ (d \in read /\ f[d] = "stale") THEN {}
                    ELSE IF d \in read THEN HeldAfter(held[d], queue[d])
                    ELSE held[d]]
      /\ fd' = [d \in Devices |-> IF d \in read /\ f[d] = "stale" THEN "none" ELSE f[d]]
      /\ queue' = [d \in Devices |-> IF d \in read THEN <<>> ELSE queue[d]]
  BY DEF Receive
<1> HIDE DEF read
<1>2. queue' \in [Devices -> Seq(Event)]
  BY <1>1 DEF KeysTrue
<1>3. Descriptors'
  <2>1. \A d \in Devices : fd'[d] = "live" => d \in plugged'
    BY <1>1, ScanTable
  <2>2. \A d \in Devices : fd'[d] # "live" => queue'[d] = <<>>
    BY <1>1, ScanTable
  <2>3. \A d \in Devices : fd'[d] = "none" => held'[d] = {}
    BY <1>1
  <2>4. \A d \in Devices : d \notin plugged' => pressed'[d] = {}
    BY DEF KeysTrue, Descriptors
  <2> QED BY <2>1, <2>2, <2>3, <2>4 DEF Descriptors
<1>4. ASSUME NEW d \in Devices, fd'[d] = "live"
      PROVE  HeldAfter(held'[d], queue'[d]) \subseteq pressed'[d]
  <2>1. f[d] = "live" /\ pressed'[d] = pressed[d] /\ held[d] \in SUBSET Keys
    BY <1>1, <1>4 DEF MenuTypeOK
  <2>2. HeldAfter(held[d], queue[d]) \subseteq pressed[d]
    <3>1. CASE fd[d] = "live"
      BY <3>1 DEF KeysTrue, HeldIsPressed
    <3>2. CASE fd[d] = "none"
      <4>1. held[d] = {} /\ queue[d] = <<>>
        BY <3>2 DEF KeysTrue, Descriptors
      <4> QED BY <4>1, HeldAfterNothing
    <3> QED BY <2>1, <3>1, <3>2, ScanTable
  <2>3. CASE d \in read
    <3>1. held'[d] = HeldAfter(held[d], queue[d]) /\ queue'[d] = <<>>
      BY <1>1, <2>1, <2>3
    <3>2. held'[d] \in SUBSET Keys
      BY <3>1 DEF HeldAfter
    <3> QED BY <2>1, <2>2, <3>1, <3>2, HeldAfterNothing
  <2>4. CASE d \notin read
    BY <1>1, <2>1, <2>2, <2>4
  <2> QED BY <2>3, <2>4
<1> QED BY <1>2, <1>3, <1>4 DEF KeysTrue, HeldIsPressed

\* The menu opens with nothing held and nothing to read.
LEMMA OpenKeepsKeys ==
  ASSUME MenuTypeOK, KeysTrue, OpenMenu
  PROVE  KeysTrue'
<1>1. /\ fd' = Scanned /\ held' = [d \in Devices |-> {}] /\ mpc' = "settle"
      /\ UNCHANGED <<plugged, pressed, queue>>
      /\ \A d \in Devices : fd[d] = "none" /\ queue[d] = <<>>
  BY DEF OpenMenu, KeysTrue, Descriptors
<1>2. Descriptors'
  BY <1>1 DEF Descriptors, KeysTrue, Scanned
<1>3. HeldIsPressed'
  BY <1>1, HeldAfterNothing DEF HeldIsPressed
<1> QED BY <1>1, <1>2, <1>3 DEF KeysTrue

\* A key that is pressed, let go or repeats: its event is queued when the
\* descriptor is live.
LEMMA KeyKeepsKeys ==
  ASSUME MenuTypeOK, KeysTrue, NEW d \in Devices, NEW k \in Keys, NEW v \in 0 .. 2,
         Queued(d, k, v), UNCHANGED <<mpc, held, fd, plugged>>, d \in plugged,
         \A c \in Devices : \A x :
           x \in pressed'[c] <=> IF c = d /\ x = k THEN v # Release ELSE x \in pressed[c]
  PROVE  KeysTrue'
<1>1. PICK e \in Event : e = [key |-> k, value |-> v]
  BY DEF Event
<1>2. queue' = IF fd[d] = "live" THEN [queue EXCEPT ![d] = Append(@, e)] ELSE queue
  BY <1>1 DEF Queued
<1>3. queue' \in [Devices -> Seq(Event)]
  BY <1>1, <1>2 DEF KeysTrue
<1>4. Descriptors'
  <2>1. \A c \in Devices : fd[c] # "live" => queue'[c] = queue[c]
    BY <1>2 DEF KeysTrue
  <2>2. \A c \in Devices : c \notin plugged => pressed'[c] = {}
    BY DEF KeysTrue, Descriptors
  <2> QED BY <2>1, <2>2 DEF KeysTrue, Descriptors
<1>5. ASSUME NEW c \in Devices, fd[c] = "live"
      PROVE  HeldAfter(held[c], queue'[c]) \subseteq pressed'[c]
  <2>1. HeldAfter(held[c], queue[c]) \subseteq pressed[c] /\ held[c] \in SUBSET Keys
        /\ queue[c] \in Seq(Event)
    BY <1>5 DEF KeysTrue, HeldIsPressed, MenuTypeOK
  <2>2. CASE c = d
    <3>1. queue'[c] = Append(queue[c], e) /\ e.value = v /\ e.key = k
      BY <1>1, <1>2, <1>5, <2>2 DEF KeysTrue
    <3>2. \A x : x \in HeldAfter(held[c], queue'[c])
                   <=> IF x = k THEN v # Release ELSE x \in HeldAfter(held[c], queue[c])
      BY <1>1, <2>1, <3>1, HeldAfterOneMore
    <3> QED BY <2>1, <2>2, <3>2
  <2>3. CASE c # d
    <3>1. queue'[c] = queue[c]
      BY <1>2, <2>3 DEF KeysTrue
    <3> QED BY <2>1, <2>3, <3>1
  <2> QED BY <2>2, <2>3
<1> QED BY <1>3, <1>4, <1>5 DEF KeysTrue, HeldIsPressed

LEMMA UserKeepsKeys ==
  ASSUME MenuTypeOK, KeysTrue, User
  PROVE  KeysTrue'
<1>1. PICK d \in Devices :
        \/ \E k \in KeysOf[d] : KeyDown(d, k) \/ KeyUp(d, k) \/ KeyRepeat(d, k)
        \/ Unplug(d) \/ Plug(d)
  BY DEF User
<1>2. KeysOf[d] \subseteq Keys
  BY DeviceAssumption DEF DeviceAssumption
<1>3. ASSUME NEW k \in KeysOf[d], KeyDown(d, k) PROVE KeysTrue'
  <2>1. /\ Queued(d, k, Press) /\ UNCHANGED <<mpc, held, fd, plugged>> /\ d \in plugged
        /\ \A c \in Devices : \A x :
             x \in pressed'[c] <=> IF c = d /\ x = k THEN Press # Release ELSE x \in pressed[c]
    BY <1>3 DEF KeyDown, input, MenuTypeOK, Press, Release
  <2> QED BY <1>2, <2>1, 1 \in 0 .. 2, KeyKeepsKeys DEF Press
<1>4. ASSUME NEW k \in KeysOf[d], KeyUp(d, k) PROVE KeysTrue'
  <2>1. /\ Queued(d, k, Release) /\ UNCHANGED <<mpc, held, fd, plugged>>
        /\ \A c \in Devices : \A x :
             x \in pressed'[c] <=> IF c = d /\ x = k THEN Release # Release ELSE x \in pressed[c]
    BY <1>4 DEF KeyUp, input, MenuTypeOK, Release
  <2>2. d \in plugged
    BY <1>4 DEF KeyUp, KeysTrue, Descriptors
  <2> QED BY <1>2, <2>1, <2>2, 0 \in 0 .. 2, KeyKeepsKeys DEF Release
<1>5. ASSUME NEW k \in KeysOf[d], KeyRepeat(d, k) PROVE KeysTrue'
  <2>1. /\ Queued(d, k, 2) /\ UNCHANGED <<mpc, held, fd, plugged, pressed>>
        /\ k \in pressed[d] /\ fd[d] = "live"
    BY <1>5 DEF KeyRepeat, input
  <2>2. d \in plugged
    BY <2>1 DEF KeysTrue, Descriptors
  <2>3. \A c \in Devices : \A x :
          x \in pressed'[c] <=> IF c = d /\ x = k THEN 2 # Release ELSE x \in pressed[c]
    BY <2>1 DEF Release
  <2> QED BY <1>2, <2>1, <2>2, <2>3, 2 \in 0 .. 2, KeyKeepsKeys
<1>6. CASE Unplug(d)
  <2>1. /\ plugged' = plugged \ {d} /\ pressed' = [pressed EXCEPT ![d] = {}]
        /\ queue' = [queue EXCEPT ![d] = <<>>]
        /\ fd' = [fd EXCEPT ![d] = IF @ = "live" THEN "stale" ELSE @]
        /\ UNCHANGED <<mpc, held>>
    BY <1>6 DEF Unplug
  <2>2. queue' \in [Devices -> Seq(Event)]
    BY <2>1 DEF KeysTrue
  <2>3. Descriptors'
    BY <2>1 DEF KeysTrue, Descriptors, MenuTypeOK
  <2>4. \A c \in Devices :
          fd'[c] = "live" => fd[c] = "live" /\ queue'[c] = queue[c] /\ pressed'[c] = pressed[c]
    BY <2>1 DEF KeysTrue, MenuTypeOK
  <2> QED BY <2>1, <2>2, <2>3, <2>4 DEF KeysTrue, HeldIsPressed
<1>7. CASE Plug(d)
  BY <1>7 DEF Plug, input, KeysTrue, Descriptors, HeldIsPressed
<1> QED BY <1>1, <1>3, <1>4, <1>5, <1>6, <1>7

LEMMA KeysTrueStep == MenuTypeOK /\ KeysTrue /\ [StageNext]_svars => KeysTrue'
<1> SUFFICES ASSUME MenuTypeOK, KeysTrue, [StageNext]_svars PROVE KeysTrue'
  OBVIOUS
<1>1. CASE UNCHANGED <<held, fd, plugged, pressed, queue>> /\ (mpc' = "closed" => mpc = "closed")
  BY <1>1 DEF KeysTrue, Descriptors, HeldIsPressed
<1>2. CASE GuardStep \/ EnterMenu \/ UNCHANGED svars
  <2>1. UNCHANGED mvars
    BY <1>2 DEF GuardStep, EnterMenu, svars
  <2> QED BY <1>1, <2>1 DEF mvars, input, world
<1>3. CASE Open
  BY <1>3, OpenKeepsKeys DEF Open
<1>4. CASE MenuStep
  <2>1. CASE Render
    BY <1>1, <2>1 DEF Render, input, world
  <2>2. ASSUME NEW f \in Scans, Settle(f) \/ Turn(f) \/ LetGo(f) PROVE KeysTrue'
    <3>1. Receive(f) /\ UNCHANGED <<plugged, pressed>>
      BY <2>2 DEF Settle, Turn, LetGo
    <3>2. mpc' # "closed"
      BY <2>2 DEF Settle, Turn, LetGo
    <3> QED BY <3>1, <3>2, ReceiveKeepsKeys
  <2> QED BY <1>4, <2>1, <2>2 DEF MenuStep, Choose, Poll
<1>5. CASE ClockStep
  BY <1>1, <1>5 DEF ClockStep, Tick, input, world
<1>6. CASE UserStep
  BY <1>6, UserKeepsKeys DEF UserStep
<1> QED BY <1>2, <1>3, <1>4, <1>5, <1>6 DEF StageNext

-----------------------------------------------------------------------------
(* The action a poll gives.                                               *)

\* The least-number principle for sets, from the well-foundedness of <.
LEMMA NatLeast ==
  ASSUME NEW S \in SUBSET Nat, S # {}
  PROVE  \E n \in S : \A m \in S : n <= m
<1> DEFINE R == {ss \in Nat \X Nat : ss[1] < ss[2]}
<1>0. IsWellFoundedOn(R, Nat)
  BY NatLessThanWellFounded DEF OpToRel
<1> HIDE DEF R
<1>1. PICK n \in S : \A m \in S : ~ (<<m, n>> \in R)
  BY <1>0, WFMin
<1>2. \A m \in S : <<m, n>> \in R <=> m < n
  BY DEF R
<1>3. \A m \in S : ~ (m < n)
  BY <1>1, <1>2
<1>4. \A m \in S : n <= m
  BY <1>3
<1> QED BY <1>4

\* The first press in a queue is that of a key.
LEMMA EdgeIsPressed ==
  ASSUME NEW q \in Seq(Event), Edges(q) # {}
  PROVE  \E i \in DOMAIN q : q[i].value = Press /\ Edge(q) = q[i].key /\ Edge(q) \in Keys
<1>1. Edges(q) \in SUBSET Nat
  BY DEF Edges
<1>2. \E i \in Edges(q) : \A j \in Edges(q) : i <= j
  BY <1>1, NatLeast
<1> DEFINE i == CHOOSE i \in Edges(q) : \A j \in Edges(q) : i <= j
<1>3. i \in Edges(q) /\ Edge(q) = q[i].key
  BY <1>2 DEF Edge
<1> HIDE DEF i
<1>4. i \in DOMAIN q /\ q[i].value = Press /\ q[i] \in Event
  BY <1>3 DEF Edges
<1> QED BY <1>3, <1>4 DEF Event

\* A poll gives the key of a device that has a press to read, or nothing if
\* there is none.
LEMMA ActionIsPressed ==
  ASSUME MenuTypeOK, KeysTrue, NEW f \in Scans
  PROVE  /\ Acting(f) = {} => Action(f) = "none"
         /\ Acting(f) # {} => Action(f) \in Keys
<1>1. CASE Acting(f) = {}
  BY <1>1 DEF Action
<1>2. CASE Acting(f) # {}
  <2> DEFINE Before(d) == \A a \in Acting(f) : Rank[d] <= Rank[a]
  <2>1. \E d \in Acting(f) : Before(d)
    <3> DEFINE R == {Rank[a] : a \in Acting(f)}
    <3>1. Acting(f) \subseteq Devices
      BY DEF Acting, Ready
    <3>2. R \in SUBSET Nat /\ R # {}
      BY <1>2, <3>1, DeviceAssumption DEF DeviceAssumption
    <3>3. PICK n \in R : \A m \in R : n <= m
      BY <3>2, NatLeast
    <3> QED BY <3>3
  <2> DEFINE d == CHOOSE d \in Acting(f) : Before(d)
  <2>2. d \in Acting(f)
    BY <2>1
  <2>3. Action(f) = Edge(queue[d])
    BY <1>2 DEF Action
  <2> HIDE DEF d
  <2>4. queue[d] \in Seq(Event) /\ Edges(queue[d]) # {}
    BY <2>2 DEF Acting, Ready, KeysTrue
  <2> QED BY <1>2, <2>3, <2>4, EdgeIsPressed
<1> QED BY <1>1, <1>2

LEMMA KeysAreNot == "none" \notin Keys
  BY DEF Keys, Nav

\* The turn that ends at the deadline has read no action.
LEMMA KeyBeatsCountdownStep ==
  ASSUME MenuTypeOK, KeysTrue, StageNext, mpc = "poll", mpc' = "chosen",
         NEW d \in Devices, fd[d] = "live"
  PROVE  Edges(queue[d]) = {}
<1>1. ~(GuardStep \/ EnterMenu \/ Open \/ ClockStep \/ UserStep)
  BY DEF GuardStep, EnterMenu, mvars, Open, OpenMenu, ClockStep, Tick, UserStep, User,
         KeyDown, KeyUp, KeyRepeat, Unplug, Plug
<1>2. PICK f \in Scans : Turn(f)
  BY <1>1 DEF StageNext, MenuStep, Choose, Render, Settle, LetGo, Poll
<1>3. Action(f) = "none"
  BY <1>2 DEF Turn
<1>4. Acting(f) = {}
  BY <1>3, ActionIsPressed, KeysAreNot
<1>5. f[d] = "live" /\ queue[d] \in Seq(Event)
  BY ScanTable DEF KeysTrue
<1> QED BY <1>4, <1>5 DEF Acting, Ready, Edges

\* A press that was there to read when the time was up wins, on whichever
\* device and however many there are.
THEOREM KeyBeatsCountdownHolds == StageSpec => KeyBeatsCountdown
<1>1. MenuTypeOK /\ KeysTrue /\ [StageNext]_svars
        => [mpc = "poll" /\ mpc' = "chosen" =>
              \A d \in Devices : fd[d] = "live" => Edges(queue[d]) = {}]_mvars
  BY KeyBeatsCountdownStep DEF svars
<1> QED
  BY <1>1, KeysTrueInit, KeysTrueStep, MenuTypeOKHolds, PTL DEF StageSpec, KeyBeatsCountdown

-----------------------------------------------------------------------------
(* What does not move the selection.                                       *)

\* What a turn does when no navigation key is held and none is read: the
\* selection stays, whatever is chosen.
LEMMA IdleTurn ==
  ASSUME NEW f, Turn(f), Acting(f) = {}, \A k \in Nav : ~Held(k)'
  PROVE  UNCHANGED selection /\ mpc' \in {"show", "chosen"}
<1>1. Action(f) = "none"
  BY DEF Action
<1>2. ~Fires("up") /\ ~Fires("down")
  BY DEF Fires, Nav
<1> QED BY <1>1, <1>2 DEF Turn

\* A poll of quiet devices reads nothing, and finds nothing held.
LEMMA QuietPoll ==
  ASSUME MenuTypeOK, KeysTrue, Quiet, NEW f \in Scans, Receive(f)
  PROVE  Acting(f) = {} /\ \A k \in Nav : ~Held(k)'
<1>1. \A d \in Devices : f[d] \in {"none", "live"} /\ queue[d] = <<>>
  BY ScanTable DEF Quiet, Tables
<1>2. Ready(f) = {} /\ Acting(f) = {}
  BY <1>1 DEF Ready, Acting
<1>3. ASSUME NEW d \in Devices PROVE held'[d] = {}
  <2>1. held'[d] = IF f[d] = "none" THEN {} ELSE held[d]
    BY <1>1, <1>2 DEF Receive
  <2>2. CASE fd[d] = "live"
    <3>1. HeldAfter(held[d], queue[d]) \subseteq pressed[d] /\ held[d] \in SUBSET Keys
      BY <2>2 DEF KeysTrue, HeldIsPressed, MenuTypeOK
    <3> QED BY <1>1, <2>1, <3>1, HeldAfterNothing DEF Quiet
  <2>3. CASE fd[d] = "none"
    BY <2>1, <2>3 DEF KeysTrue, Descriptors
  <2> QED BY <2>2, <2>3 DEF Quiet, MenuTypeOK
<1> QED BY <1>2, <1>3 DEF Held

LEMMA NoGhostKeyStep ==
  ASSUME MenuTypeOK, KeysTrue, StageNext, Quiet
  PROVE  UNCHANGED selection
<1>1. CASE GuardStep \/ EnterMenu \/ Open \/ ClockStep \/ UserStep
  BY <1>1 DEF GuardStep, EnterMenu, mvars, Open, OpenMenu, ClockStep, Tick, UserStep, User,
         KeyDown, KeyUp, KeyRepeat, Unplug, Plug
<1>2. CASE MenuStep
  <2>1. ASSUME NEW f \in Scans, Turn(f) PROVE UNCHANGED selection
    BY <2>1, QuietPoll, IdleTurn DEF Turn
  <2> QED BY <1>2, <2>1 DEF MenuStep, Choose, Render, Settle, LetGo, Poll
<1> QED BY <1>1, <1>2 DEF StageNext

\* With no key down, nothing unread and no lost device unnoticed, no step
\* moves the selection: what a device held goes with it.
THEOREM NoGhostKeyHolds == StageSpec => NoGhostKey
<1>1. MenuTypeOK /\ KeysTrue /\ [StageNext]_svars
        => [Quiet => UNCHANGED selection]_mvars
  BY NoGhostKeyStep DEF svars
<1> QED
  BY <1>1, KeysTrueInit, KeysTrueStep, MenuTypeOKHolds, PTL DEF StageSpec, NoGhostKey

-----------------------------------------------------------------------------
(* The untouched menu.                                                     *)

LEMMA UntouchedInit == StageInit => Untouched
  BY DEF StageInit, MenuInit, Untouched, InMenu

\* What an untouched menu reads is no press of a key and leaves no navigation
\* key held.
LEMMA UntouchedPoll ==
  ASSUME MenuTypeOK, KeysTrue, Untouched, InMenu, ~touched, NEW f \in Scans, Receive(f)
  PROVE  /\ Acting(f) = {} /\ \A k \in Nav : ~Held(k)'
         /\ \A d \in Devices : held'[d] \cap Nav = {} /\ queue'[d] \in {<<>>, queue[d]}
<1>1. Acting(f) = {}
  BY DEF Acting, Edges, Untouched, Ready
<1>2. ASSUME NEW d \in Devices PROVE HeldAfter(held[d], queue[d]) \cap Nav = {}
  <2>1. ASSUME NEW k \in Nav PROVE Mentions(queue[d], k) = {} /\ k \notin held[d]
    BY DEF Mentions, Untouched, Nav
  <2> QED BY <2>1 DEF HeldAfter
<1>3. \A d \in Devices : held'[d] \in {{}, held[d], HeldAfter(held[d], queue[d])}
                          /\ queue'[d] \in {<<>>, queue[d]}
  BY DEF Receive
<1>4. \A d \in Devices : held'[d] \cap Nav = {}
  BY <1>2, <1>3 DEF Untouched
<1> QED BY <1>1, <1>3, <1>4 DEF Held

LEMMA UntouchedStep ==
  MenuTypeOK /\ KeysTrue /\ Untouched /\ [StageNext]_svars => Untouched'
<1> SUFFICES ASSUME MenuTypeOK, KeysTrue, Untouched, [StageNext]_svars PROVE Untouched'
  OBVIOUS
<1> DEFINE Calm == \A d \in Devices :
                     /\ pressed[d] \cap Nav = {} /\ held[d] \cap Nav = {}
                     /\ \A i \in DOMAIN queue[d] :
                          queue[d][i].key = "confirm" /\ queue[d][i].value # Press
<1>0. Untouched <=> /\ mpc = "closed" => ~touched
                    /\ ~touched => selected = 0 /\ ~manual_selection
                    /\ InMenu /\ ~touched => Calm
  BY DEF Untouched
<1>1. Untouched' <=> /\ mpc' = "closed" => ~touched'
                     /\ ~touched' => selected' = 0 /\ ~manual_selection'
                     /\ InMenu' /\ ~touched' => Calm'
  BY DEF Untouched
<1>2. CASE UNCHANGED <<mpc, touched, selection, pressed, held, queue>>
  BY <1>2 DEF Untouched, selection, InMenu
<1>3. CASE GuardStep \/ EnterMenu \/ UNCHANGED svars
  <2>1. UNCHANGED mvars
    BY <1>3 DEF GuardStep, EnterMenu, svars
  <2> QED BY <1>2, <2>1 DEF mvars, input, world
<1>4. CASE Open
  <2>1. /\ mpc = "closed" /\ mpc' = "settle" /\ held' = [d \in Devices |-> {}]
        /\ touched' = (\E d \in plugged : pressed[d] \cap Nav # {})
        /\ UNCHANGED <<selection, plugged, pressed, queue>>
    BY <1>4 DEF Open, OpenMenu
  <2>2. ~touched' => Calm'
    <3>1. \A d \in Devices : queue[d] = <<>>
      BY <2>1 DEF KeysTrue, Descriptors
    <3>2. ~touched' => \A d \in Devices : pressed[d] \cap Nav = {}
      BY <2>1 DEF KeysTrue, Descriptors
    <3> QED BY <2>1, <3>1, <3>2
  <2> HIDE DEF Calm
  <2> QED BY <1>0, <1>1, <2>1, <2>2 DEF selection
<1>5. CASE MenuStep
  <2>1. CASE Render
    <3>1. UNCHANGED <<touched, selection, pressed, held, queue>> /\ InMenu /\ mpc' = "poll"
      BY <2>1 DEF Render, input, world, InMenu
    <3> QED BY <3>1 DEF Untouched, selection
  <2>2. ASSUME NEW f \in Scans, Settle(f) \/ LetGo(f) \/ Turn(f) PROVE Untouched'
    <3>1. Receive(f) /\ InMenu /\ UNCHANGED <<touched, pressed>> /\ mpc' # "closed"
      BY <2>2 DEF Settle, LetGo, Turn, InMenu
    <3>2. ~touched => Calm'
      <4> SUFFICES ASSUME ~touched PROVE Calm'
        OBVIOUS
      <4>1. \A d \in Devices : held'[d] \cap Nav = {} /\ queue'[d] \in {<<>>, queue[d]}
        BY <3>1, UntouchedPoll
      <4>2. Calm
        BY <1>0, <3>1
      <4> QED BY <3>1, <4>1, <4>2
    <3>3. ~touched => UNCHANGED selection
      <4>1. CASE Settle(f) \/ LetGo(f)
        BY <4>1 DEF Settle, LetGo
      <4>2. CASE Turn(f)
        BY <3>1, <4>2, UntouchedPoll, IdleTurn
      <4> QED BY <2>2, <4>1, <4>2
    <3> HIDE DEF Calm
    <3> QED BY <1>0, <1>1, <3>1, <3>2, <3>3 DEF selection
  <2> QED BY <1>5, <2>1, <2>2 DEF MenuStep, Choose, Poll
<1>6. CASE ClockStep
  BY <1>2, <1>6 DEF ClockStep, Tick, input, world
<1>7. CASE UserStep
  <2>1. UNCHANGED <<mpc, held, selection>>
    BY <1>7 DEF UserStep, User, KeyDown, KeyUp, KeyRepeat, Unplug, Plug, input
  <2>2. PICK d \in Devices :
          \/ \E k \in KeysOf[d] : KeyDown(d, k) \/ KeyUp(d, k) \/ KeyRepeat(d, k)
          \/ Unplug(d) \/ Plug(d)
    BY <1>7 DEF UserStep, User
  <2>3. CASE \E k \in KeysOf[d] : KeyDown(d, k)
    <3>1. touched' = InMenu
      BY <2>3 DEF KeyDown
    <3>2. mpc # "chosen" /\ mpc \in {"closed", "settle", "show", "poll", "letgo", "chosen"}
      BY <2>3 DEF KeyDown, MenuTypeOK
    <3>3. ~touched' => mpc = "closed" /\ ~InMenu'
      BY <2>1, <3>1, <3>2 DEF InMenu
    <3>4. mpc = "closed" => ~InMenu
      BY DEF InMenu
    <3> HIDE DEF Calm
    <3> QED BY <1>0, <1>1, <2>1, <3>1, <3>3, <3>4 DEF selection
  <2>4. ASSUME UNCHANGED touched, Calm => Calm' PROVE Untouched'
    <3> HIDE DEF Calm
    <3> QED BY <1>0, <1>1, <2>1, <2>4 DEF selection, InMenu
  <2>5. ASSUME NEW k \in KeysOf[d], KeyUp(d, k) \/ KeyRepeat(d, k) PROVE Untouched'
    <3>1. PICK v \in {0, 2} : Queued(d, k, v)
      BY <2>5 DEF KeyUp, KeyRepeat, Release
    <3>2. /\ k \in pressed[d] /\ UNCHANGED <<touched, held>>
          /\ \A c \in Devices : pressed'[c] \subseteq pressed[c]
      BY <2>5 DEF KeyUp, KeyRepeat, input, MenuTypeOK
    <3>3. ASSUME Calm PROVE Calm'
      <4>1. k = "confirm"
        BY <3>2, <3>3 DEF MenuTypeOK, Keys
      <4>2. ASSUME NEW c \in Devices, NEW i \in DOMAIN queue'[c]
            PROVE  queue'[c][i].key = "confirm" /\ queue'[c][i].value # Press
        <5>1. CASE queue'[c] = queue[c]
          BY <3>3, <4>2, <5>1
        <5>2. CASE queue'[c] # queue[c]
          <6>1. PICK e : e = [key |-> k, value |-> v]
            OBVIOUS
          <6>2. queue'[c] = Append(queue[c], e) /\ queue[c] \in Seq(Event)
            BY <3>1, <5>2, <6>1 DEF Queued, KeysTrue
          <6>3. i \in 1 .. Len(queue[c]) + 1
            BY <4>2, <6>2
          <6>4. CASE i \in 1 .. Len(queue[c])
            <7>1. queue'[c][i] = queue[c][i] /\ i \in DOMAIN queue[c]
              BY <6>2, <6>4
            <7> QED BY <3>3, <7>1
          <6>5. CASE i = Len(queue[c]) + 1
            <7>1. queue'[c][i] = e
              BY <6>2, <6>5
            <7> QED BY <4>1, <6>1, <7>1 DEF Press
          <6> QED BY <6>2, <6>3, <6>4, <6>5
        <5> QED BY <5>1, <5>2
      <4> QED BY <3>2, <3>3, <4>2
    <3> QED BY <2>4, <3>2, <3>3
  <2>6. CASE Unplug(d) \/ Plug(d)
    <3>1. /\ UNCHANGED <<touched, held>>
          /\ \A c \in Devices : pressed'[c] \subseteq pressed[c] /\ queue'[c] \in {<<>>, queue[c]}
      BY <2>6 DEF Unplug, Plug, input, MenuTypeOK, KeysTrue
    <3> QED BY <2>4, <3>1
  <2> QED BY <2>2, <2>3, <2>5, <2>6
<1> QED BY <1>3, <1>4, <1>5, <1>6, <1>7 DEF StageNext

\* An untouched menu boots the default entry, and not as somebody's choice,
\* whatever was held while it opened.
THEOREM UntouchedIsDefaultHolds == StageSpec => []UntouchedIsDefault
<1>1. Untouched => UntouchedIsDefault
  BY DEF Untouched, UntouchedIsDefault
<1> QED
  BY <1>1, UntouchedInit, UntouchedStep, KeysTrueInit, KeysTrueStep, MenuTypeOKHolds,
     PTL DEF StageSpec
=============================================================================
