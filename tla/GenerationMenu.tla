--------------------------- MODULE GenerationMenu ---------------------------
(***************************************************************************)
(* ShengHeadlessGenerationMenu.choose: the list of generations on the      *)
(* framebuffer, the volume and power keys that move in it, and the         *)
(* countdown that boots the first entry when nobody touches a key.         *)
(*                                                                         *)
(* The kernel queues key events per open device; the menu polls all of     *)
(* them, keeps which keys are held (input_held) and repeats a held         *)
(* navigation key by its own clock.  Devices come and go: a descriptor     *)
(* whose device has gone stays in the table until a read fails or a scan   *)
(* misses its path.                                                        *)
(*                                                                         *)
(* One poll with the decision that follows is a step: what arrives after   *)
(* the poll is read by the next one.  Time is counted in ticks.  A key is  *)
(* the action it stands for: up, down or confirm.                          *)
(***************************************************************************)
EXTENDS Integers, Sequences, FiniteSets, Functions

CONSTANTS Count,         \* generations in the list, one entry if there is none
          MaxVisible,    \* max_visible_generations()
          Timeout, TicksPerSecond,
          RepeatDelay, RepeatInterval, \* of held keys, in ticks
          ReleasePolls,  \* of wait_for_release
          Devices, KeysOf, Removable,
          Rank,          \* the order in which poll_input_action reads them
          MaxQueue,      \* bound: events that wait to be read
          MaxUnplugs     \* bound

Nav == {"up", "down"}
Keys == Nav \cup {"confirm"}

ASSUME ListAssumption == Count \in Nat /\ MaxVisible \in Nat \ {0}
ASSUME TimeAssumption ==
  /\ Timeout \in Nat \ {0} /\ TicksPerSecond \in Nat \ {0}
  /\ RepeatDelay \in Nat /\ RepeatInterval \in Nat /\ ReleasePolls \in Nat \ {0}
ASSUME DeviceAssumption ==
  /\ KeysOf \in [Devices -> SUBSET Keys] /\ Rank \in [Devices -> Nat]
  /\ Removable \subseteq Devices /\ MaxQueue \in Nat /\ MaxUnplugs \in Nat

VARIABLES mpc,                  \* where choose is
          polls,                \* left to wait_for_release
          selected, page_start, manual_selection,
          countdown_active, left,  \* ticks to the deadline
          last,                 \* selected, page and remaining of the last render
          was, age, since,      \* was_pressed, now - pressed_time, now - last_repeat
          held,                 \* input_held
          fd,                   \* of a device: "none", "live" or "stale"
          plugged, pressed, queue, unplugs, \* the devices
          touched,              \* history: a key was pressed, or a navigation key held
          screen, framebuffer_failed

selection == <<selected, page_start, manual_selection>>
clock == <<countdown_active, left>>
repeats == <<was, age, since>>
input == <<held, fd>>
world == <<plugged, pressed, queue, unplugs, touched>>
display == <<last, screen, framebuffer_failed>>
mvars == <<mpc, polls, selection, clock, repeats, input, world, display>>

MenuLength == IF Count = 0 THEN 1 ELSE Count
PageSize == IF MenuLength < MaxVisible THEN MenuLength ELSE MaxVisible

None == -1  \* nil
Atleast0(n) == IF n < 0 THEN 0 ELSE n

-----------------------------------------------------------------------------
(* Paging.                                                                 *)

\* The loop adds page_size while a whole page fits before the end.
LastPageStart == ((MenuLength - 1) \div PageSize) * PageSize

\* Mutant: the page follows only when the selection is past its last row.
MoveLate(direction) ==
  LET next == IF direction = "down" THEN (selected + 1) % MenuLength
              ELSE (selected - 1) % MenuLength
  IN  /\ selected' = next
      /\ page_start' = IF next = 0 THEN 0
                       ELSE IF next > page_start + PageSize
                       THEN page_start + PageSize ELSE page_start

\* move_selection.
Move(direction) ==
  IF MenuLength <= 1 THEN selected' = 0 /\ page_start' = 0
  ELSE \/ /\ direction = "down"
          /\ selected' = (selected + 1) % MenuLength
          /\ page_start' = IF selected' = 0 THEN 0
                           ELSE IF selected' >= page_start + PageSize
                           THEN page_start + PageSize ELSE page_start
       \/ /\ direction = "up"
          /\ selected' = (selected - 1) % MenuLength
          /\ page_start' = IF selected = 0 THEN LastPageStart
                           ELSE IF selected' < page_start
                           THEN Atleast0(page_start - PageSize) ELSE page_start

\* visible_range: the first entry on the page and the one after its last.
First(page) == IF MenuLength <= PageSize THEN 0
               ELSE IF page > MenuLength - 1 THEN MenuLength - 1 ELSE Atleast0(page)
End(page) == IF First(page) + PageSize > MenuLength THEN MenuLength
             ELSE First(page) + PageSize
Visible(page) == First(page) .. End(page) - 1

-----------------------------------------------------------------------------
(* The screen: the entries on the page, those drawn as selected, the       *)
(* number in the header and the countdown.                                 *)

Seconds(ticks) == (ticks + TicksPerSecond - 1) \div TicksPerSecond
Remaining == IF countdown_active THEN Seconds(left) ELSE None

Nothing == [on |-> "none", rows |-> {}, marked |-> {}, number |-> None,
            countdown |-> None]

FullPage(on, s, page, remaining) ==
  [on |-> on, rows |-> Visible(page), marked |-> {s} \cap Visible(page),
   number |-> s, countdown |-> remaining]

\* Mutant: only the row that is selected now is drawn again.
PaintNewRowOnly ==
  IF last.selected = None \/ Visible(last.page) # Visible(page_start)
  THEN FullPage("framebuffer", selected, page_start, Remaining)
  ELSE [screen EXCEPT !.marked = @ \cup {selected}, !.number = selected,
                      !.countdown = Remaining]

\* render_framebuffer: all of the page if another page was shown, and else
\* the row that was selected, the row that is, and the number.  The
\* countdown is drawn when it changed.
Painted ==
  IF last.selected = None \/ Visible(last.page) # Visible(page_start)
  THEN FullPage("framebuffer", selected, page_start, Remaining)
  ELSE [screen EXCEPT
          !.marked = IF last.selected = selected THEN @
                     ELSE (@ \ {last.selected}) \cup {selected},
          !.number = IF last.selected = selected THEN @ ELSE selected,
          !.countdown = IF last.remaining = Remaining THEN @ ELSE Remaining]

\* The text fallback writes the whole list each time.
FullText(s, remaining) ==
  [on |-> "console", rows |-> 0 .. MenuLength - 1, marked |-> {s}, number |-> s,
   countdown |-> remaining]

Current == [selected |-> selected, page |-> page_start, remaining |-> Remaining]

Render ==
  /\ mpc = "show"
  /\ mpc' = "poll"
  /\ IF Current = last THEN UNCHANGED display
     ELSE /\ last' = Current
          /\ \/ /\ ~framebuffer_failed
                /\ screen' = Painted
                /\ UNCHANGED framebuffer_failed
             \/ /\ screen' = FullText(selected, Remaining)
                /\ framebuffer_failed' = TRUE
  /\ UNCHANGED <<polls, selection, clock, repeats, input, world>>

-----------------------------------------------------------------------------
(* Input.                                                                  *)

Press == 1
Release == 0

\* refresh_input_devices: paths that are gone are forgotten, new ones opened.
Scanned ==
  [d \in Devices |-> IF fd[d] = "none" /\ d \in plugged THEN "live"
                     ELSE IF d \notin plugged THEN "none" ELSE fd[d]]

\* Mutant: any event of a key is an action.
EdgesOfEvents(q) == DOMAIN q

\* The first press in what a device has to read.
Edges(q) == {i \in DOMAIN q : q[i].value = Press}
Edge(q) == q[CHOOSE i \in Edges(q) : \A j \in Edges(q) : i <= j].key

\* Which keys are held after a batch: the last event of a key counts.
Mentions(q, k) == {i \in DOMAIN q : q[i].key = k}
HeldAfter(h, q) ==
  {k \in Keys : IF Mentions(q, k) = {} THEN k \in h
                ELSE \E i \in Mentions(q, k) :
                       /\ \A j \in Mentions(q, k) : j <= i
                       /\ q[i].value # Release}

Ready(f) == {d \in Devices : f[d] = "stale" \/ (f[d] = "live" /\ queue[d] # <<>>)}
Acting(f) == {d \in Ready(f) : f[d] = "live" /\ Edges(queue[d]) # {}}

\* Mutant: what a device held when it went is remembered.
ReceiveKeepsHeld(f) ==
  LET read == {d \in Ready(f) : \A a \in Acting(f) : Rank[d] <= Rank[a]}
  IN  /\ held' = [d \in Devices |-> IF d \in read THEN HeldAfter(held[d], queue[d])
                                    ELSE held[d]]
      /\ fd' = [d \in Devices |-> IF d \in read /\ f[d] = "stale" THEN "none" ELSE f[d]]
      /\ queue' = [d \in Devices |-> IF d \in read THEN <<>> ELSE queue[d]]

\* read_input_events of the devices in turn, until one gives an action.  A
\* read of a device that has gone fails, and takes what it held with it.
Receive(f) ==
  LET read == {d \in Ready(f) : \A a \in Acting(f) : Rank[d] <= Rank[a]}
  IN  /\ held' = [d \in Devices |->
                    IF f[d] = "none" \/ (d \in read /\ f[d] = "stale") THEN {}
                    ELSE IF d \in read THEN HeldAfter(held[d], queue[d])
                    ELSE held[d]]
      /\ fd' = [d \in Devices |-> IF d \in read /\ f[d] = "stale" THEN "none" ELSE f[d]]
      /\ queue' = [d \in Devices |-> IF d \in read THEN <<>> ELSE queue[d]]

Action(f) ==
  IF Acting(f) = {} THEN "none"
  ELSE Edge(queue[CHOOSE d \in Acting(f) : \A a \in Acting(f) : Rank[d] <= Rank[a]])

Held(k) == \E d \in Devices : k \in held[d]

\* A scan is made when the last one is a quarter of a second old.
Scans == {fd, Scanned}

-----------------------------------------------------------------------------
(* choose.                                                                 *)

OpenMenu ==
  /\ mpc = "closed"
  /\ mpc' = "settle" /\ polls' = ReleasePolls
  /\ fd' = Scanned /\ held' = [d \in Devices |-> {}]
  /\ touched' = (\E d \in plugged : pressed[d] \cap Nav # {})
  /\ UNCHANGED <<selection, clock, repeats, plugged, pressed, queue, unplugs, display>>

\* Mutant: waits as long as a key is held.
SettleUntilReleased(f) ==
  /\ mpc = "settle"
  /\ Receive(f)
  /\ IF \E k \in Keys : Held(k)'
     THEN UNCHANGED <<mpc, clock>>
     ELSE mpc' = "show" /\ countdown_active' = TRUE /\ left' = Timeout
  /\ UNCHANGED <<polls, selection, repeats, plugged, pressed, unplugs, touched, display>>

\* wait_for_release before the countdown starts.
Settle(f) ==
  /\ mpc = "settle"
  /\ Receive(f)
  /\ polls' = polls - 1
  /\ IF polls' > 0 /\ \E k \in Keys : Held(k)'
     THEN UNCHANGED <<mpc, clock>>
     ELSE mpc' = "show" /\ countdown_active' = TRUE /\ left' = Timeout
  /\ UNCHANGED <<selection, repeats, plugged, pressed, unplugs, touched, display>>

\* navigation_repeat_due? of a key that was already held.
Due(k) == was[k] /\ age[k] >= RepeatDelay /\ since[k] >= RepeatInterval
Fires(k) == Held(k)' /\ (~was[k] \/ Due(k))

\* One turn of the loop, from the poll to its end.
Turn(f) ==
  LET action == Action(f)
      up == action = "up" \/ Fires("up")
      down == action = "down" \/ Fires("down")
  IN  /\ mpc = "poll"
      /\ Receive(f)
      /\ was' = [k \in Nav |-> Held(k)']
      /\ age' = [k \in Nav |-> IF Held(k)' /\ was[k] THEN age[k] ELSE 0]
      /\ since' = [k \in Nav |-> IF Held(k)' /\ ~Fires(k) THEN since[k] ELSE 0]
      /\ \/ /\ up \/ down
            /\ Move(IF up THEN "up" ELSE "down")
            /\ mpc' = "show" /\ manual_selection' = TRUE
            /\ countdown_active' = FALSE /\ left' = 0 /\ UNCHANGED polls
         \/ /\ ~up /\ ~down /\ action = "confirm"
            /\ mpc' = "letgo" /\ manual_selection' = TRUE
            /\ polls' = ReleasePolls
            /\ UNCHANGED <<selected, page_start, clock>>
         \/ /\ ~up /\ ~down /\ action = "none"
            /\ mpc' = IF countdown_active /\ left = 0 THEN "chosen" ELSE "show"
            /\ UNCHANGED <<selection, clock, polls>>
      /\ UNCHANGED <<plugged, pressed, unplugs, touched, display>>

\* Mutant: the deadline is looked at before the action.
PollDeadlineFirst(f) ==
  IF countdown_active /\ left = 0
  THEN /\ mpc = "poll" /\ mpc' = "chosen"
       /\ Receive(f)
       /\ UNCHANGED <<selection, clock, polls, repeats, plugged, pressed, unplugs,
                      touched, display>>
  ELSE Turn(f)

Poll(f) == Turn(f)

\* wait_for_release after the choice.
LetGo(f) ==
  /\ mpc = "letgo"
  /\ Receive(f)
  /\ polls' = polls - 1
  /\ mpc' = IF polls' > 0 /\ Held("confirm")' THEN "letgo" ELSE "chosen"
  /\ UNCHANGED <<selection, clock, repeats, plugged, pressed, unplugs, touched, display>>

Choose == Render \/ \E f \in Scans : Settle(f) \/ Poll(f) \/ LetGo(f)

Tick ==
  /\ mpc \in {"show", "poll"}
  /\ left' = Atleast0(left - 1)
  /\ age' = [k \in Nav |-> IF was[k] /\ age[k] < RepeatDelay THEN age[k] + 1 ELSE age[k]]
  /\ since' = [k \in Nav |-> IF was[k] /\ since[k] < RepeatInterval
                             THEN since[k] + 1 ELSE since[k]]
  /\ UNCHANGED <<mpc, polls, selection, countdown_active, was, input, world, display>>

-----------------------------------------------------------------------------
(* The keys.                                                               *)

\* Bound: the events that wait.
Waiting == FoldFunction(LAMBDA q, n : Len(q) + n, 0, queue)

InMenu == mpc \in {"settle", "show", "poll", "letgo"}

Queued(d, k, v) ==
  IF fd[d] = "live" THEN queue' = [queue EXCEPT ![d] = Append(@, [key |-> k, value |-> v])]
  ELSE UNCHANGED queue

KeyDown(d, k) ==
  /\ mpc # "chosen" /\ d \in plugged /\ k \notin pressed[d] /\ Waiting < MaxQueue
  /\ pressed' = [pressed EXCEPT ![d] = @ \cup {k}]
  /\ Queued(d, k, Press)
  /\ touched' = InMenu
  /\ UNCHANGED <<mpc, polls, selection, clock, repeats, input, plugged, unplugs, display>>

KeyUp(d, k) ==
  /\ mpc # "chosen" /\ k \in pressed[d] /\ Waiting < MaxQueue
  /\ pressed' = [pressed EXCEPT ![d] = @ \ {k}]
  /\ Queued(d, k, Release)
  /\ UNCHANGED <<mpc, polls, selection, clock, repeats, input, plugged, unplugs,
                 touched, display>>

\* The kernel's own repeat of a key that is down.  It is slower than the polls.
KeyRepeat(d, k) ==
  /\ InMenu /\ k \in pressed[d] /\ fd[d] = "live" /\ Waiting = 0
  /\ Queued(d, k, 2)
  /\ UNCHANGED <<mpc, polls, selection, clock, repeats, input, plugged, pressed,
                 unplugs, touched, display>>

Unplug(d) ==
  /\ mpc # "chosen" /\ d \in plugged /\ unplugs < MaxUnplugs
  /\ plugged' = plugged \ {d} /\ unplugs' = unplugs + 1
  /\ pressed' = [pressed EXCEPT ![d] = {}]
  /\ queue' = [queue EXCEPT ![d] = <<>>]
  /\ fd' = [fd EXCEPT ![d] = IF @ = "live" THEN "stale" ELSE @]
  /\ UNCHANGED <<mpc, polls, selection, clock, repeats, held, touched, display>>

Plug(d) ==
  /\ mpc # "chosen" /\ d \notin plugged
  /\ plugged' = plugged \cup {d}
  /\ UNCHANGED <<mpc, polls, selection, clock, repeats, input, pressed, queue,
                 unplugs, touched, display>>

User == \E d \in Devices :
          \/ \E k \in KeysOf[d] : KeyDown(d, k) \/ KeyUp(d, k) \/ KeyRepeat(d, k)
          \/ d \in Removable /\ (Unplug(d) \/ Plug(d))

MenuInit ==
  /\ mpc = "closed" /\ polls = 0
  /\ selected = 0 /\ page_start = 0 /\ manual_selection = FALSE
  /\ countdown_active = FALSE /\ left = 0
  /\ last = [selected |-> None, page |-> None, remaining |-> None]
  /\ was = [k \in Nav |-> FALSE]
  /\ age = [k \in Nav |-> 0] /\ since = [k \in Nav |-> 0]
  /\ held = [d \in Devices |-> {}] /\ fd = [d \in Devices |-> "none"]
  /\ plugged = Devices /\ pressed = [d \in Devices |-> {}]
  /\ queue = [d \in Devices |-> <<>>] /\ unplugs = 0 /\ touched = FALSE
  /\ screen = Nothing /\ framebuffer_failed = FALSE

MenuNext == OpenMenu \/ Choose \/ Tick \/ User

-----------------------------------------------------------------------------
(* Properties.                                                             *)

MenuTypeOK ==
  /\ mpc \in {"closed", "settle", "show", "poll", "letgo", "chosen"}
  /\ polls \in 0 .. ReleasePolls
  /\ selected \in 0 .. MenuLength - 1 /\ page_start \in 0 .. MenuLength - 1
  /\ manual_selection \in BOOLEAN /\ countdown_active \in BOOLEAN
  /\ left \in 0 .. Timeout
  /\ was \in [Nav -> BOOLEAN]
  /\ age \in [Nav -> 0 .. RepeatDelay] /\ since \in [Nav -> 0 .. RepeatInterval]
  /\ held \in [Devices -> SUBSET Keys]
  /\ fd \in [Devices -> {"none", "live", "stale"}]
  /\ plugged \subseteq Devices /\ pressed \in [Devices -> SUBSET Keys]
  /\ touched \in BOOLEAN /\ framebuffer_failed \in BOOLEAN

\* Whatever keys are pressed, the selected entry is on the page that is
\* shown, and the page is one of those that divide the list.
VisibleSelected ==
  selected \in Visible(page_start) /\ page_start % PageSize = 0

\* Although only what changed is drawn, the screen is always that of a
\* complete redraw: one marked row, the right number, the right countdown.
ScreenMatches ==
  mpc = "poll" =>
    screen = IF framebuffer_failed THEN FullText(selected, last.remaining)
             ELSE FullPage("framebuffer", selected, page_start, last.remaining)

\* A key that was held before the menu opened, the power key that turned
\* the tablet on, boots nothing when it is let go: an untouched menu boots
\* the default entry, and not as somebody's choice.
UntouchedIsDefault ==
  mpc = "chosen" /\ ~touched => selected = 0 /\ ~manual_selection

\* With no key down, nothing unread and no lost device unnoticed, the
\* selection rests: no key keeps repeating after it is gone.
Quiet == \A d \in Devices : pressed[d] = {} /\ queue[d] = <<>> /\ fd[d] # "stale"
NoGhostKey == [][Quiet => UNCHANGED selection]_mvars

\* A press that was there to read when the time was up wins: the countdown
\* boots nothing under the finger that wanted to stop it.
KeyBeatsCountdown ==
  [][mpc = "poll" /\ mpc' = "chosen" =>
       \A d \in Devices : fd[d] = "live" => Edges(queue[d]) = {}]_mvars
=============================================================================
