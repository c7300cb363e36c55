---------------------------- MODULE ChargeScreen ----------------------------
(***************************************************************************)
(* What the charging monitor has on the screen: Display.render encodes the *)
(* battery picture and runs the painter, Display.animate runs it again for *)
(* the charged part and the bolt alone.  The painter composes a list in a  *)
(* private surface and then copies the surface to the scanout row by row,  *)
(* and gives up, wherever it is, when that takes too long.                 *)
(*                                                                         *)
(* The same encoder bakes the artwork of the boot loop: a picture of the   *)
(* constant Artwork is encoded and the next one follows.                   *)
(*                                                                         *)
(* The picture is sampled: column i and row j stand for the points at      *)
(* AtX[i] and AtY[j] of its 360 by 360 design.  Round corners are square   *)
(* and the figures are filled boxes.                                       *)
(***************************************************************************)
EXTENDS FrameEncoder

CONSTANTS AtX, AtY,     \* the sampled columns and rows
          Margin,       \* around the picture, on every side
          Capacities,   \* what the battery may report
          NoCapacity,
          Frames,       \* of the animation
          BandStep,     \* columns of one band of the animation
          Artwork,      \* pictures of the boot loop
          PainterFails  \* the painter may fail or be too slow

ASSUME ScreenAssumption ==
  /\ AtX \in [Cols -> Int] /\ AtY \in [Rows -> Int]
  /\ Margin \in Nat /\ Frames \in Nat \ {0} /\ BandStep \in Nat \ {0}
  /\ Capacities \subseteq Int \cup {NoCapacity}
  /\ Artwork \subseteq Pictures
  /\ {"case", "track", "outline", "percent", "accent", "low", "critical"}
       \subseteq Colors \ {Background}
  /\ "junk" \notin Colors
  /\ PainterFails \in BOOLEAN

\* The rows lie close enough that the bolt and the figure below it are not
\* neighbours, as every row does in the code.
ASSUME SampleAssumption ==
  /\ \A i, j \in Cols : i <= j => AtX[i] <= AtX[j]
  /\ \A i, j \in Rows : i <= j => AtY[i] <= AtY[j]
  /\ \A j \in Rows : j + 1 \in Rows /\ AtY[j] <= 120 => AtY[j + 1] < 190

VARIABLES pc,       \* of the monitor and the painter it runs
          capacity, \* what the picture shows
          frame,    \* of the animation, or Still for the whole picture
          surface,  \* composed by the painter
          line,     \* the next row to commit
          screen,   \* the scanout
          visible,  \* self.visible, the panel is lit
          shown     \* history: what the screen should show, if that is known

picture == <<capacity, frame>>
painter == <<surface, line, screen, shown>>
svars == <<evars, pc, picture, visible, painter>>

Still == -1
Torn == -2  \* some rows of the animation show one frame and some another
Unknown == [capacity |-> NoCapacity, frame |-> Still, whole |-> FALSE]

FbCols == 0 .. Width + 2 * Margin - 1
FbRows == 0 .. Height + 2 * Margin - 1
Junk == [color |-> "junk", frame |-> Still]  \* memory nobody has written
Console == [color |-> "text", frame |-> Still]

-----------------------------------------------------------------------------
(* The picture.                                                            *)

BoxAt(x, y, b) == AtX[x] \in b[1] .. b[3] - 1 /\ AtY[y] \in b[2] .. b[4] - 1

ChargeColor(c) == CASE c = NoCapacity -> "outline"
                    [] c # NoCapacity /\ c <= 10 -> "critical"
                    [] c # NoCapacity /\ c > 10 /\ c <= 25 -> "low"
                    [] OTHER -> "accent"

Clamped(c) == IF c = NoCapacity THEN c
              ELSE IF c < 0 THEN 0 ELSE IF c > 100 THEN 100 ELSE c

Charged(x, c) == c # NoCapacity /\ c # 0 /\ (c = 100 \/ 100 * (AtX[x] - 103) < 148 * c)

\* The layers from top to bottom; the first that has the point wins.
Picture(c) ==
  [x \in Cols |-> [y \in Rows |->
     LET Within(b) == BoxAt(x, y, b)
     IN  CASE Within(<<120, 190, 200, 249>>) -> "outline"
           [] Within(<<206, 220, 240, 249>>) -> "percent"
           [] Within(<<170, 91, 188, 121>>) -> "outline"
           [] Within(<<163, 84, 195, 128>>) -> "track"
           [] Within(<<103, 76, 251, 136>>) ->
                IF Charged(x, Clamped(c)) THEN ChargeColor(Clamped(c)) ELSE "track"
           [] Within(<<264, 93, 270, 119>>) -> "case"
           [] Within(<<97, 70, 257, 142>>) -> Background
           [] Within(<<94, 67, 260, 145>>) -> "case"
           [] OTHER -> Background]]

-----------------------------------------------------------------------------
(* Lists of fills, in the coordinates of the framebuffer.                  *)

Fill(x, y, w, h, c, f) ==
  [x |-> x, y |-> y, w |-> w, h |-> h, show |-> [color |-> c, frame |-> f]]
Moved(r) == Fill(r.x + Margin, r.y + Margin, r.w, r.h, r.color, Still)

Clear == Fill(0, 0, Width + 2 * Margin, Height + 2 * Margin, Background, Still)

\* range(x, x + w, step), each band at most as wide as what is left.
Bands(r) ==
  {Fill(r.x + k * BandStep, r.y,
        IF (k + 1) * BandStep <= r.w THEN BandStep ELSE r.w - k * BandStep,
        r.h, r.show.color, frame) :
     k \in {n \in 0 .. r.w - 1 : n * BandStep < r.w}}

\* Whether all of a rectangle is in the battery, by the design's coordinates.
InBattery(r) ==
  /\ AtX[r.x] >= 102 /\ AtX[r.x + r.w - 1] < 253
  /\ AtY[r.y] >= 75 /\ AtY[r.y + r.h - 1] < 138

\* Mutant: the bolt's colour is repainted wherever it is.
FrameOfEverything ==
  (UNION {Bands(Moved(r)) : r \in {s \in operations :
                                     s.color = ChargeColor(capacity)}})
  \cup {[Moved(r) EXCEPT !.show.frame = frame] :
          r \in {s \in operations : s.color = "outline"}}

\* build_animation_commands: the fill in bands, the bolt as it is.
AnimationFrame ==
  (UNION {Bands(Moved(r)) : r \in {s \in operations :
            InBattery(s) /\ s.color = ChargeColor(capacity)}})
  \cup {[Moved(r) EXCEPT !.show.frame = frame] :
          r \in {s \in operations : InBattery(s) /\ s.color = "outline"}}

Commands == IF frame = Still THEN {Clear} \cup {Moved(r) : r \in operations}
            ELSE AnimationFrame

-----------------------------------------------------------------------------
(* The painter.                                                            *)

In(f, x, y) == x \in f.x .. f.x + f.w - 1 /\ y \in f.y .. f.y + f.h - 1

\* The smallest box around a list.
Left(fills) == Least({f.x : f \in fills})
Top(fills) == Least({f.y : f \in fills})
Right(fills) == Greatest({f.x + f.w : f \in fills})
Bottom(fills) == Greatest({f.y + f.h : f \in fills})

\* The first fill covers all of the box: what is there need not be read.
Opaque(first, fills) ==
  /\ first.x = Left(fills) /\ first.y = Top(fills)
  /\ first.w >= Right(fills) - first.x /\ first.h >= Bottom(fills) - first.y

\* The first command is the clearing fill, or whichever of the animation's
\* fills comes first; those do not overlap.
First(fills) == IF frame = Still THEN Clear ELSE CHOOSE f \in fills : TRUE

\* prepare_surface and the fills.
Composed(fills) ==
  [p \in (Left(fills) .. Right(fills) - 1) \X (Top(fills) .. Bottom(fills) - 1) |->
     IF \E f \in fills \ {Clear} : In(f, p[1], p[2])
     THEN (CHOOSE f \in fills \ {Clear} : In(f, p[1], p[2])).show
     ELSE IF Clear \in fills THEN Clear.show
     ELSE IF Opaque(First(fills), fills) THEN Junk ELSE screen[p]]

Lines == {p[2] : p \in DOMAIN surface}

Compose ==
  /\ pc = "compose" /\ Commands # {}
  /\ surface' = Composed(Commands)
  /\ line' = Top(Commands)
  /\ pc' = "commit"
  /\ UNCHANGED <<evars, picture, visible, screen, shown>>

\* commit_surface: one row.
CommitLine ==
  /\ pc = "commit" /\ line \in Lines
  /\ screen' = [p \in DOMAIN screen |->
       IF p \in DOMAIN surface /\ p[2] = line THEN surface[p] ELSE screen[p]]
  /\ line' = line + 1
  /\ UNCHANGED <<evars, pc, picture, visible, surface, shown>>

\* What render and animate do with the painter's success.
Painted ==
  /\ pc = "commit" /\ line \notin Lines
  /\ pc' = "idle"
  /\ visible' = TRUE
  /\ shown' = IF frame = Still
              THEN [capacity |-> capacity, frame |-> Still, whole |-> TRUE]
              ELSE IF shown.whole /\ shown.capacity = capacity
              THEN [shown EXCEPT !.frame = frame] ELSE Unknown
  /\ surface' = <<>> /\ line' = 0
  /\ UNCHANGED <<evars, picture, screen>>

\* The painter refuses a list without fills; it gives up when RENDER_TIMEOUT_MS
\* have passed, which it checks while it composes and while it commits.
Failed ==
  /\ \/ pc = "compose" /\ (PainterFails \/ Commands = {})
     \/ pc = "commit" /\ PainterFails
  /\ pc' = "idle"
  /\ shown' = IF pc = "compose" \/ line = Least(Lines) THEN shown
              ELSE IF frame = Still \/ shown.capacity # capacity THEN Unknown
              ELSE [shown EXCEPT !.frame = Torn]
  /\ surface' = <<>> /\ line' = 0
  /\ UNCHANGED <<evars, picture, visible, screen>>

-----------------------------------------------------------------------------
(* The monitor, and the program that bakes the artwork.                    *)

Render(c) ==
  /\ pc = "idle"
  /\ capacity' = c /\ frame' = Still
  /\ Begin("screen", Picture(c))
  /\ pc' = "encode"
  /\ UNCHANGED <<visible, painter>>

Encoding ==
  /\ pc \in {"encode", "bake"}
  /\ Encode
  /\ UNCHANGED <<pc, picture, visible, painter>>

\* render hands the list to the painter.
Paint ==
  /\ pc = "encode" /\ status = "encoded"
  /\ pc' = "compose"
  /\ UNCHANGED <<evars, picture, visible, painter>>

Animate(f) ==
  /\ pc = "idle" /\ visible
  /\ capacity # NoCapacity /\ capacity > 0 /\ capacity < 100
  /\ frame' = f
  /\ pc' = "compose"
  /\ UNCHANGED <<evars, capacity, visible, painter>>

Blank ==
  /\ pc = "idle" /\ visible
  /\ visible' = FALSE
  /\ UNCHANGED <<evars, pc, picture, painter>>

Canvas == [x \in Cols |-> [y \in Rows |-> Background]]

\* The list is written to its file and the loop starts with a new canvas.  A
\* list that is too long ends the build.
NewCanvas ==
  /\ pc = "bake" /\ status = "encoded"
  /\ pixels' = Canvas /\ job' = "frame" /\ row' = 0
  /\ operations' = {} /\ status' = "written"
  /\ UNCHANGED <<active, pc, picture, visible, painter>>

\* The loop over the frames, and the credits after it.
DrawArtwork(j, p) ==
  /\ pc = "bake" /\ status = "written"
  /\ Begin(j, p)
  /\ UNCHANGED <<pc, picture, visible, painter>>

SInit ==
  /\ capacity = NoCapacity /\ frame = Still
  /\ surface = <<>> /\ line = 0 /\ visible = FALSE /\ shown = Unknown
  /\ screen = [p \in FbCols \X FbRows |-> Console]
  /\ row = 0 /\ active = {} /\ operations = {} /\ status = "written"
  /\ pixels = Canvas
  /\ \/ pc = "idle" /\ job = "screen"
     \/ pc = "bake" /\ job = "frame"

SNext ==
  \/ \E c \in Capacities : Render(c)
  \/ \E f \in 0 .. Frames - 1 : Animate(f)
  \/ \E j \in {"frame", "credit"}, p \in Artwork : DrawArtwork(j, p)
  \/ NewCanvas \/ Encoding \/ Paint \/ Compose \/ CommitLine \/ Painted \/ Failed \/ Blank

SSpec == SInit /\ [][SNext]_svars

-----------------------------------------------------------------------------
(* Properties.                                                             *)

\* The pixel of the picture that is shown at a place of the framebuffer.
ShownColor(c, x, y) ==
  IF x - Margin \in Cols /\ y - Margin \in Rows
  THEN Picture(c)[x - Margin][y - Margin] ELSE Background

\* The charged part of the battery, and the bolt, in a picture that moves.
Moving(c, x, y) ==
  /\ x - Margin \in Cols /\ y - Margin \in Rows
  /\ AtX[x - Margin] \in 102 .. 252 /\ AtY[y - Margin] \in 75 .. 137
  /\ ShownColor(c, x, y) \in {ChargeColor(c), "outline"}

\* Between two painters, and until one fails in the middle of its rows, the
\* screen shows the picture of the last reading to the pixel; all that moves
\* is at one and the same frame and nothing else has ever been repainted.
\* Whatever fails, nothing that no painter drew is ever in the scanout.
ScreenTrue ==
  /\ Junk \notin {screen[p] : p \in DOMAIN screen}
  /\ pc = "idle" /\ shown.whole =>
       \A x \in FbCols, y \in FbRows :
         /\ screen[<<x, y>>].color = ShownColor(shown.capacity, x, y)
         /\ IF shown.frame # Still /\ Moving(shown.capacity, x, y)
            THEN shown.frame = Torn \/ screen[<<x, y>>].frame = shown.frame
            ELSE screen[<<x, y>>].frame = Still
=============================================================================
