---------------------------- MODULE FrameEncoder ----------------------------
(***************************************************************************)
(* A picture becomes a list of filled rectangles, the only drawing command *)
(* of the framebuffer painter.  build_framebuffer_commands encodes the     *)
(* charging screen this way while it runs, build-boot-animation.py the     *)
(* frames of the boot loop while the system is built.  Both walk over the  *)
(* scanlines, cut each into spans of one colour, and let a rectangle grow  *)
(* downwards as long as the next scanline has the same span.               *)
(*                                                                         *)
(* The rectangles are kept as a set: they do not overlap, as Disjoint      *)
(* says, so the order in which the painter fills them does not matter.     *)
(* Only the fill that clears the background comes first, if there is one.  *)
(***************************************************************************)
EXTENDS Integers, FiniteSets

CONSTANTS Width, Height,  \* of the picture
          Colors,
          Background,     \* the colour that is never encoded
          MaxRectangles   \* the painter's limit

ASSUME SizeAssumption ==
  Width \in Nat \ {0} /\ Height \in Nat \ {0} /\ MaxRectangles \in Nat \ {0}
ASSUME ColorAssumption == Background \in Colors

VARIABLES job,         \* whose picture it is
          pixels,      \* the picture
          row,         \* the next scanline
          active,      \* rectangles that reach down to it
          operations,  \* rectangles that are finished
          status       \* of the encoder

evars == <<job, pixels, row, active, operations, status>>

\* The charging screen, a frame of the boot loop, and the credit, a layer
\* that is drawn over a frame and clears nothing.
Jobs == {"screen", "frame", "credit"}

Cols == 0 .. Width - 1
Rows == 0 .. Height - 1
Pictures == [Cols -> [Rows -> Colors]]

Rectangle(x, y, w, h, c) == [x |-> x, y |-> y, w |-> w, h |-> h, color |-> c]
Rectangles == [x : Cols, y : Rows, w : 1 .. Width, h : 1 .. Height,
               color : Colors \ {Background}]
Covers(r, x, y) == x \in r.x .. r.x + r.w - 1 /\ y \in r.y .. r.y + r.h - 1

-----------------------------------------------------------------------------
(* The part of the picture that is walked over.                            *)

Whole == [left |-> 0, top |-> 0, right |-> Width, bottom |-> Height]

\* getbbox: the smallest box around everything that is not black.
InkedCols(p) == {x \in Cols : \E y \in Rows : p[x][y] # Background}
InkedRows(p) == {y \in Rows : \E x \in Cols : p[x][y] # Background}
Least(S) == CHOOSE n \in S : \A m \in S : n <= m
Greatest(S) == CHOOSE n \in S : \A m \in S : m <= n
Inside(p) == [left |-> Least(InkedCols(p)), top |-> Least(InkedRows(p)),
              right |-> Greatest(InkedCols(p)) + 1,
              bottom |-> Greatest(InkedRows(p)) + 1]

BoxOf(j, p) == IF j = "screen" THEN Whole ELSE Inside(p)
Box == BoxOf(job, pixels)

-----------------------------------------------------------------------------
(* One scanline.                                                           *)

\* The longest runs of one colour in a row, without those of the background.
SpansOf(p, y, box) ==
  {s \in [x : box.left .. box.right - 1, w : 1 .. box.right - box.left,
          color : Colors \ {Background}] :
     /\ s.x + s.w <= box.right
     /\ \A x \in s.x .. s.x + s.w - 1 : p[x][y] = s.color
     /\ s.x > box.left => p[s.x - 1][y] # s.color
     /\ s.x + s.w < box.right => p[s.x + s.w][y] # s.color}

Spans(y, box) == SpansOf(pixels, y, box)

\* The key under which a rectangle waits for the next scanline.
Key(r) == [x |-> r.x, w |-> r.w, color |-> r.color]

Grown(r) == [r EXCEPT !.h = @ + 1]
Started(s, y) == Rectangle(s.x, y, s.w, 1, s.color)

\* Mutant: a rectangle that has ended is dropped.
ScanDropsEnded(y, box) ==
  LET spans == Spans(y, box)
  IN  /\ active' = {Grown(r) : r \in {a \in active : Key(a) \in spans}}
                   \cup {Started(s, y) : s \in spans \ {Key(a) : a \in active}}
      /\ operations' = operations

\* Mutant: every scanline starts rectangles of its own.
ScanNeverGrows(y, box) ==
  /\ active' = {Started(s, y) : s \in Spans(y, box)}
  /\ operations' = operations \cup active

\* A rectangle whose span comes again grows, one whose span does not is
\* finished, and the other spans start new ones.
Scan(y, box) ==
  LET spans == Spans(y, box)
  IN  /\ active' = {Grown(r) : r \in {a \in active : Key(a) \in spans}}
                   \cup {Started(s, y) : s \in spans \ {Key(a) : a \in active}}
      /\ operations' = operations \cup {r \in active : Key(r) \notin spans}

Limit == MaxRectangles - (IF job = "credit" THEN 0 ELSE 1)

\* What is still active after the last scanline is finished as well, and a
\* list that the painter would refuse is not written.
Finish ==
  /\ active' = {}
  /\ operations' = operations \cup active
  /\ status' = IF Cardinality(operations \cup active) > Limit
               THEN "refused" ELSE "encoded"

ScreenRow ==
  /\ status = "scan" /\ job = "screen" /\ row < Box.bottom
  /\ Scan(row, Box)
  /\ row' = row + 1
  /\ UNCHANGED <<job, pixels, status>>

ScreenEnd ==
  /\ status = "scan" /\ job = "screen" /\ row = Box.bottom
  /\ Finish
  /\ UNCHANGED <<job, pixels, row>>

FrameRow ==
  /\ status = "scan" /\ job # "screen" /\ row < Box.bottom
  /\ Scan(row, Box)
  /\ row' = row + 1
  /\ UNCHANGED <<job, pixels, status>>

FrameEnd ==
  /\ status = "scan" /\ job # "screen" /\ row = Box.bottom
  /\ Finish
  /\ UNCHANGED <<job, pixels, row>>

Encode == ScreenRow \/ ScreenEnd \/ FrameRow \/ FrameEnd

\* getbbox finds nothing in an empty picture, and nobody encodes one.
Drawn(p) == \E x \in Cols, y \in Rows : p[x][y] # Background

Begin(j, p) ==
  /\ j # "screen" => Drawn(p)
  /\ job' = j /\ pixels' = p
  /\ row' = BoxOf(j, p).top
  /\ active' = {} /\ operations' = {} /\ status' = "scan"

-----------------------------------------------------------------------------
(* What the lists promise.                                                 *)

EncoderTypeOK ==
  /\ job \in Jobs
  /\ pixels \in Pictures
  /\ row \in 0 .. Height
  /\ active \in SUBSET Rectangles /\ operations \in SUBSET Rectangles
  /\ status \in {"scan", "encoded", "refused", "written"}

Filled == operations \cup active

\* No pixel is filled twice, whatever the picture: the painter may fill the
\* rectangles in the order in which they were finished.
Disjoint ==
  \A r, s \in Filled : \A x \in Cols, y \in Rows :
    Covers(r, x, y) /\ Covers(s, x, y) => r = s

\* Every scanline that was walked over is drawn in its own colours and none
\* of the others is touched: a finished list shows exactly the picture.
EncodedExactly ==
  \A x \in Cols, y \in Rows :
    /\ \A r \in Filled : Covers(r, x, y) => pixels[x][y] = r.color
    /\ pixels[x][y] # Background /\ (status = "scan" => y < row) =>
         \E r \in Filled : Covers(r, x, y)

\* Whatever the picture, a list covers it exactly, every pixel once: a span
\* that is lost, doubled or left over at the last scanline would show.
ExactCover == EncodedExactly /\ Disjoint

\* No two rectangles could have been one: the lists stay as short as the
\* painter's limit needs them to be.
Merged ==
  \A r, s \in Filled : Key(r) = Key(s) => r.y + r.h # s.y
=============================================================================
