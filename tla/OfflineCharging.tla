-------------------------- MODULE OfflineCharging --------------------------
(***************************************************************************)
(* The loop of the charging monitor: battery screen, power key, charger.   *)
(*                                                                         *)
(* BootUi says when the monitor may start and when it must leave the       *)
(* screen; this module begins after that, with monitor_loop.  The loop is  *)
(* one thread that paints by running a program, so that between two looks  *)
(* at the world time passes: presses wait in the kernel's queue, and the   *)
(* charger comes and goes unseen.  Time is counted in ticks, and every     *)
(* moment the code stores is kept as its age, up to the limit it is        *)
(* compared with; -1 stands for None.  A tick passes while the loop waits  *)
(* for a key or runs the painter, and in it the key moves at most once.    *)
(***************************************************************************)
EXTENDS Integers, Sequences

CONSTANTS
  Hold,        \* HOLD_SECONDS
  Show,        \* DISPLAY_SECONDS
  Grace,       \* POWER_DISCOVERY_GRACE_SECONDS
  Disconnect,  \* DISCONNECT_SECONDS
  Slow,        \* the longest the painter, or the discovery, may take
  Sleep,       \* the minute after a power-off was asked for
  KeyFails,    \* reading the key device may fail
  MaxQueue     \* bound: key events the kernel keeps

ASSUME TimesAssumption ==
  /\ Hold \in Nat \ {0} /\ Show \in Nat \ {0} /\ Grace \in Nat \ {0}
  /\ Disconnect \in Nat \ {0} /\ Sleep \in Nat \ {0} /\ Slow \in Nat
  /\ MaxQueue \in Nat \ {0}
ASSUME KeyAssumption == KeyFails \in BOOLEAN

VARIABLES
  pc,          \* what the loop does next
  back,        \* where it goes on after painting or sleeping
  busy,        \* for how long it has been painting or sleeping
  keyOpen,     \* power_key is not None
  batch,       \* the key events read but not yet handled
  pressed,     \* age of pressed_at
  offline,     \* age of offline_since
  up,          \* age of started_at
  everOnline,
  left,        \* what is left until visible_until
  visible,     \* display.visible: the panel is lit
  painted,     \* the framebuffer holds a battery screen
  plugged, keyDown, queue,    \* the charger and the key
  moved,       \* the key has moved in this tick
  downFor,     \* how long the current press has lasted
  lost         \* history: the end of this press was lost or slept through

clocks == <<pressed, offline, up, left, downFor, moved>>
input == <<keyOpen, batch, queue>>
world == <<plugged, keyDown>>
panel == <<visible, painted>>
vars == <<pc, back, busy, everOnline, lost, clocks, input, world, panel>>

Final == {"off", "reboot", "left"}
Pcs == Final \cup {"begin", "loop", "poweroff", "sleep", "show", "animate",
                   "dark", "read", "event", "hold", "boot", "paint"}

\* Key events: a press, or a release after a press of so many ticks.
Down == -1
Events == -1 .. Hold

PlacesOK ==
  /\ pc \in Pcs
  /\ back \in {"loop", "show", "animate", "dark", "read", "event"}

TimesOK ==
  /\ busy \in 0 .. Slow + Sleep
  /\ pressed \in -1 .. Hold /\ downFor \in 0 .. Hold
  /\ offline \in -1 .. Disconnect /\ up \in 0 .. Grace
  /\ left \in -1 .. Show

QueuesOK ==
  /\ batch \in Seq(Events) /\ queue \in Seq(Events)
  /\ Len(batch) <= MaxQueue /\ Len(queue) <= MaxQueue

FlagsOK ==
  /\ keyOpen \in BOOLEAN /\ everOnline \in BOOLEAN /\ lost \in BOOLEAN
  /\ visible \in BOOLEAN /\ painted \in BOOLEAN
  /\ plugged \in BOOLEAN /\ keyDown \in BOOLEAN /\ moved \in BOOLEAN

TypeOK == PlacesOK /\ TimesOK /\ QueuesOK /\ FlagsOK

Init ==
  /\ pc = "begin" /\ back = "loop" /\ busy = 0
  /\ keyOpen \in BOOLEAN /\ batch = <<>> /\ queue = <<>>
  /\ pressed = -1 /\ offline = -1 /\ up = 0 /\ everOnline = FALSE
  /\ left = Show /\ visible = FALSE /\ painted = FALSE
  /\ plugged \in BOOLEAN
  /\ keyDown \in BOOLEAN /\ downFor = 0 /\ moved = FALSE
  /\ lost = FALSE

-----------------------------------------------------------------------------
(* Time and the world.                                                     *)

Aged(age, limit) == IF age \in {-1, limit} THEN age ELSE age + 1

\* One tick passes for every stored moment.
Elapse ==
  /\ pressed' = Aged(pressed, Hold)
  /\ offline' = Aged(offline, Disconnect)
  /\ up' = Aged(up, Grace)
  /\ left' = IF left > 0 THEN left - 1 ELSE left
  /\ downFor' = IF keyDown THEN Aged(downFor, Hold) ELSE downFor
  /\ moved' = FALSE

\* The kernel queues what happens while the device is open.
MoveKey ==
  /\ ~moved /\ Len(queue) < MaxQueue
  /\ pc \notin Final
  /\ keyDown' = ~keyDown
  /\ downFor' = IF keyDown THEN downFor ELSE 0
  /\ queue' = IF keyOpen
              THEN Append(queue, IF keyDown THEN downFor ELSE Down) ELSE queue
  /\ moved' = TRUE
  /\ UNCHANGED <<pc, back, busy, everOnline, lost, pressed, offline, up, left,
                 keyOpen, batch, plugged, panel>>

MovePower ==
  /\ pc \notin Final
  /\ plugged' = ~plugged
  /\ UNCHANGED <<pc, back, busy, everOnline, lost, clocks, input, keyDown,
                 panel>>

\* The painter and the discovery take their time.
Busy ==
  /\ pc \in {"begin", "paint"} /\ busy < Slow
  /\ busy' = busy + 1
  /\ Elapse
  /\ UNCHANGED <<pc, back, everOnline, lost, input, world, panel>>

-----------------------------------------------------------------------------
(* The screen.                                                             *)

\* Mutant: the panel is lit before the frame is there.
PaintLit(then) ==
  /\ pc' = "paint" /\ back' = then /\ busy' = 0
  /\ visible' = TRUE

\* render and animate run the painter; a dark panel stays dark meanwhile.
Paint(then) ==
  /\ pc' = "paint" /\ back' = then /\ busy' = 0
  /\ visible' = visible

\* Mutant: every frame keeps the screen on.
PaintedKeepsLit ==
  /\ pc = "paint" /\ pc' = back
  /\ \/ visible' = TRUE /\ painted' = TRUE
     \/ UNCHANGED <<visible, painted>>
  /\ left' = Show
  /\ busy' = 0
  /\ UNCHANGED <<back, everOnline, lost, pressed, offline, up, downFor, moved, input, world>>

\* Only a frame that was painted lights the panel; the time to show it runs
\* from here, unless the loop has only refreshed it.
Painted ==
  /\ pc = "paint" /\ pc' = back
  /\ \/ visible' = TRUE /\ painted' = TRUE
     \/ UNCHANGED <<visible, painted>>
  /\ left' = IF back \in {"loop", "event"} THEN Show ELSE left
  /\ busy' = 0
  /\ UNCHANGED <<back, everOnline, lost, pressed, offline, up, downFor, moved, input, world>>

\* After the discovery, and its look at the terminal.
Begin ==
  /\ pc = "begin"
  /\ Paint("loop")
  /\ UNCHANGED <<everOnline, lost, clocks, input, world, painted>>

\* charging_display_active is false, as BootUi shows, or a signal ends the
\* process wherever it is.
Leave ==
  /\ pc \notin Final
  /\ pc' = "left"
  /\ UNCHANGED <<back, busy, everOnline, lost, clocks, input, world, panel>>

ShowScreen ==
  /\ pc = "show"
  /\ Paint("animate")
  /\ UNCHANGED <<everOnline, lost, clocks, input, world, painted>>

\* Whether a frame is due depends on the battery, the charger and the rate.
Animate ==
  /\ pc = "animate"
  /\ \/ visible /\ Paint("read")
     \/ pc' = "read" /\ UNCHANGED <<back, busy, visible>>
  /\ UNCHANGED <<everOnline, lost, clocks, input, world, painted>>

Darken ==
  /\ pc = "dark" /\ pc' = "read"
  /\ visible' = FALSE
  /\ left' = -1
  /\ UNCHANGED <<back, busy, everOnline, lost, pressed, offline, up, downFor, moved, input, world, painted>>
-----------------------------------------------------------------------------
(* The charger.                                                            *)

\* Where an iteration goes on after it has looked at the charger.  Whether
\* the battery has changed since the last frame is left open.
Display == CASE left > 0 -> IF visible THEN {"show", "animate"} ELSE {"show"}
             [] left = 0 -> {"dark"}
             [] OTHER -> {"read"}

OpenKey == keyOpen' \in {TRUE, keyOpen}

\* Mutant: only a charger that was seen once can be missed.
SampleNoGrace ==
  /\ pc = "loop"
  /\ OpenKey
  /\ everOnline' = (everOnline \/ plugged)
  /\ IF plugged \/ ~everOnline
     THEN offline' = (IF plugged THEN -1 ELSE offline) /\ pc' \in Display
     ELSE /\ offline' = IF offline = -1 THEN 0 ELSE offline
          /\ pc' \in IF offline = Disconnect THEN {"poweroff"} ELSE Display
  /\ back' = back
  /\ UNCHANGED <<busy, lost, pressed, up, left, downFor, moved, batch,
                 queue, world, visible, painted>>

\* A charger that is absent for too long, after it was there or after the
\* grace period.
Sample ==
  /\ pc = "loop"
  /\ OpenKey
  /\ everOnline' = (everOnline \/ plugged)
  /\ IF plugged \/ ~(everOnline \/ up = Grace)
     THEN offline' = (IF plugged THEN -1 ELSE offline) /\ pc' \in Display
     ELSE /\ offline' = IF offline = -1 THEN 0 ELSE offline
          /\ pc' \in IF offline = Disconnect THEN {"poweroff"} ELSE Display
  /\ back' = back
  /\ UNCHANGED <<busy, lost, pressed, up, left, downFor, moved, batch,
                 queue, world, visible, painted>>

\* The panel goes dark first.  systemctl may refuse, and then the loop goes
\* on a minute later with the time it had read before.
PowerOff ==
  /\ pc = "poweroff"
  /\ visible' = FALSE
  /\ \/ pc' = "off" /\ back' = back
        /\ lost' = lost
     \/ /\ pc' = "sleep"
        /\ lost' = (pressed # -1)
        /\ back' = CASE left > 0 -> "show" [] left = 0 -> "dark" [] OTHER -> "read"
  /\ busy' = 0
  /\ UNCHANGED <<everOnline, clocks, input, world, painted>>

Asleep ==
  /\ pc = "sleep"
  /\ IF busy < Sleep
     THEN busy' = busy + 1 /\ Elapse /\ pc' = pc
     ELSE busy' = 0 /\ UNCHANGED clocks /\ pc' = back
  /\ UNCHANGED <<back, everOnline, lost, input, world, panel>>

-----------------------------------------------------------------------------
(* The power key.                                                          *)

\* select returns at once with what is queued, or after a tenth of a second.
Wait ==
  /\ pc = "read"
  /\ queue = <<>> \/ ~keyOpen
  /\ pc' = "hold"
  /\ Elapse
  /\ UNCHANGED <<back, busy, everOnline, lost, input, world, panel>>

Read ==
  /\ pc = "read" /\ keyOpen /\ queue # <<>>
  /\ pc' = "event"
  /\ batch' = queue /\ queue' = <<>>
  /\ UNCHANGED <<back, busy, everOnline, lost, clocks, keyOpen, world, panel>>

\* The device has gone, also while nothing was queued; pressed_at stays.
ReadFails ==
  /\ KeyFails
  /\ pc = "read" /\ keyOpen
  /\ pc' = "hold"
  /\ keyOpen' = FALSE /\ queue' = <<>>
  /\ lost' = (pressed # -1)
  /\ IF queue = <<>> THEN Elapse ELSE UNCHANGED clocks
  /\ UNCHANGED <<back, busy, everOnline, batch, world, panel>>

NoEvent ==
  /\ pc = "event" /\ batch = <<>>
  /\ pc' = "hold"
  /\ UNCHANGED <<back, busy, everOnline, lost, clocks, input, world, panel>>

Press ==
  /\ pc = "event" /\ batch # <<>> /\ Head(batch) = Down
  /\ batch' = Tail(batch)
  /\ pressed' = 0 /\ lost' = FALSE
  /\ UNCHANGED <<pc, back, busy, everOnline, offline, up, left, downFor, moved, keyOpen, queue, world, panel>>

\* Mutant: a short press is not forgotten.
ReleaseKept ==
  /\ pc = "event" /\ batch # <<>> /\ Head(batch) # Down
  /\ batch' = Tail(batch)
  /\ CASE pressed = -1 ->
            UNCHANGED <<pc, back, busy, visible, pressed>>
       [] pressed = Hold ->
            /\ pc' = "boot" /\ back' = "event"
            /\ pressed' = -1
            /\ UNCHANGED <<busy, visible>>
       [] OTHER ->
            /\ Paint("event")
            /\ UNCHANGED pressed
  /\ lost' = FALSE
  /\ UNCHANGED <<everOnline, offline, up, left, downFor, moved, keyOpen, queue,
                 world, painted>>

\* A release answers the press that is being timed: a long one boots, a
\* short one shows the battery.
Release ==
  /\ pc = "event" /\ batch # <<>> /\ Head(batch) # Down
  /\ batch' = Tail(batch)
  /\ CASE pressed = -1 ->
            UNCHANGED <<pc, back, busy, visible, pressed>>
       [] pressed = Hold ->
            /\ pc' = "boot" /\ back' = "event"
            /\ pressed' = -1
            /\ UNCHANGED <<busy, visible>>
       [] OTHER ->
            /\ Paint("event")
            /\ pressed' = -1
  /\ lost' = FALSE
  /\ UNCHANGED <<everOnline, offline, up, left, downFor, moved, keyOpen, queue,
                 world, painted>>

\* Mutant: only a release ends a press.
HeldLongUnseen ==
  /\ pc = "hold" /\ pc' = "loop"
  /\ UNCHANGED <<back, busy, everOnline, lost, clocks, input, world, panel>>

\* A key that is still down is not waited for.
HeldLong ==
  /\ pc = "hold"
  /\ IF pressed = Hold
     THEN pc' = "boot" /\ back' = "loop"
     ELSE pc' = "loop" /\ UNCHANGED back
  /\ UNCHANGED <<busy, everOnline, lost, pressed, offline, up, left, downFor,
                 moved, input, world, panel>>

\* start_normal_boot: the charge is unknown or too low, or the marker could
\* not be stored ...
BootDenied ==
  /\ pc = "boot"
  /\ Paint(back)
  /\ pressed' = -1 /\ lost' = FALSE
  /\ UNCHANGED <<everOnline, offline, up, left, downFor, moved, input,
                 world, painted>>

\* ... or systemctl has taken the restart ...
BootAccepted ==
  /\ pc = "boot"
  /\ pc' = "reboot"
  /\ visible' = TRUE
  /\ UNCHANGED <<back, busy, everOnline, lost, clocks, input, world, painted>>

\* ... or refused it, and the panel goes dark until the frame is redrawn.
BootRefused ==
  /\ pc = "boot"
  /\ pc' = "paint" /\ back' = back /\ busy' = 0
  /\ visible' = FALSE
  /\ pressed' = -1 /\ lost' = FALSE
  /\ UNCHANGED <<everOnline, offline, up, left, downFor, moved, input,
                 world, painted>>

-----------------------------------------------------------------------------

Step ==
  \/ Begin \/ Painted \/ Sample \/ PowerOff \/ Asleep \/ ShowScreen \/ Animate
  \/ Darken \/ Wait \/ Read \/ ReadFails \/ NoEvent \/ Press \/ Release
  \/ HeldLong \/ BootDenied \/ BootAccepted \/ BootRefused

\* The monitor has ended, or been told to leave.
Ended == pc \in Final /\ UNCHANGED vars

Next == Step \/ Leave \/ Busy \/ MoveKey \/ MovePower \/ Ended

\* The monitor is scheduled; the painter ends or is killed after a while.
Spec == Init /\ [][Next]_vars /\ WF_vars(Step)

-----------------------------------------------------------------------------

\* The panel never shows what was on the framebuffer before the battery
\* screen, the boot console: it is lit by a frame, or by the restart.
LitMeansPainted == visible => painted \/ pc = "reboot"

Attempt == pc # "boot" /\ pc' = "boot"

\* The longest the loop does not look at the key: it refreshes the screen and
\* draws a frame of the animation.
Blind == 2 * Slow

\* How long the press being timed has really lasted: its release is the
\* next event, or has not happened.
RealLength == IF batch # <<>> THEN Head(batch)
              ELSE IF queue # <<>> THEN Head(queue) ELSE downFor

\* Only a press that lasted, but for the time the loop may not look, starts
\* the normal system, unless its end was lost or slept through.  The loop
\* measures from event to event as it gets to them; a press that it has
\* answered must not be taken for a hold later.
HoldStartsBoot == [][Attempt => RealLength + Blind >= Hold \/ lost]_vars

\* The same to within a tick: what the documentation says.
OnlyHoldsBoot == [][Attempt => RealLength + 1 >= Hold]_vars

\* No press is left unanswered: it is followed by the battery screen, by an
\* attempt to boot or by the end of the monitor, also if the key is never
\* released or its device disappears, but for one that comes and goes for ever.
PressAnswered ==
  <>[]keyOpen \/ <>[]~keyOpen => (pressed >= 0 ~> pressed = -1 \/ pc \in Final)

\* A tablet that is left without a charger is switched off, even if there
\* was none to begin with and as often as systemctl refuses.
PowerOffRequested ==
  <>[](~plugged) => []<>(pc = "poweroff" \/ pc \in Final)

\* A key that nobody touches any more leaves the panel dark, as long as
\* the power-off is not refused.
DisplaySleeps ==
  <>[](~keyDown /\ keyOpen /\ queue = <<>> /\ pc # "sleep") =>
    <>[](~visible \/ pc \in Final)
=============================================================================
