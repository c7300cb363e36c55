------------------------- MODULE ChargeScreenProofs -------------------------
(***************************************************************************)
(* Whatever the monitor asks for and the boot loop draws, a finished list  *)
(* shows exactly its picture.                                              *)
(***************************************************************************)
EXTENDS ChargeScreen, FrameEncoderProofs

\* The battery picture is a picture, whatever the reading.
LEMMA PictureIs ==
  ASSUME NEW c
  PROVE  Picture(c) \in Pictures
<1>1. /\ {"case", "track", "outline", "percent", "accent", "low", "critical"}
           \subseteq Colors
      /\ Background \in Colors
  BY ScreenAssumption, ColorAssumption
<1>2. \A d : ChargeColor(d) \in Colors
  BY <1>1 DEF ChargeColor
<1>3. \A x \in Cols, y \in Rows : Picture(c)[x][y] \in Colors
  <2> SUFFICES ASSUME NEW x \in Cols, NEW y \in Rows
               PROVE  Picture(c)[x][y] \in Colors
    OBVIOUS
  <2> HIDE DEF BoxAt
  <2> QED BY <1>1, <1>2 DEF Picture
<1> QED BY <1>3 DEF Pictures, Picture

\* The encoder begins with nothing.
LEMMA InitInv == SInit => EInv
<1> SUFFICES ASSUME SInit PROVE EInv
  OBVIOUS
<1>1. /\ pixels = Canvas /\ row = 0 /\ active = {} /\ operations = {}
      /\ status = "written" /\ job \in Jobs
  BY DEF SInit, Jobs
<1>2. pixels \in Pictures /\ \A x \in Cols, y \in Rows : pixels[x][y] = Background
  BY <1>1, ColorAssumption DEF Canvas, Pictures
<1> QED BY <1>1, <1>2, SizeAssumption
        DEF EInv, EncoderTypeOK, Scanning, Waiting, Done, Emptied, Disjoint,
            EncodedExactly, Merged, Filled

\* Every step keeps the encoder's invariant.
LEMMA NextInv == EInv /\ [SNext]_svars => EInv'
<1> SUFFICES ASSUME EInv, [SNext]_svars PROVE EInv'
  OBVIOUS
<1>1. ASSUME UNCHANGED evars PROVE EInv'
  <2>1. Box' = Box
    BY <1>1 DEF evars, Box
  <2>2. BoxHolds(Box, pixels)' <=> BoxHolds(Box, pixels)
    BY <1>1, <2>1 DEF evars, BoxHolds
  <2>3. Filled' = Filled
    BY <1>1 DEF evars, Filled
  <2>4. Waiting'
    BY <1>1, <2>1 DEF evars, EInv, Waiting, Spans
  <2> QED BY <1>1, <2>1, <2>2, <2>3, <2>4
          DEF evars, EInv, EncoderTypeOK, Scanning, Done, Emptied, Disjoint,
              EncodedExactly, Merged
<1>2. CASE UNCHANGED svars
  BY <1>1, <1>2 DEF svars
<1>3. ASSUME NEW c \in Capacities, Render(c) PROVE EInv'
  BY <1>3, PictureIs, BeginInv DEF Render, Jobs
<1>4. ASSUME NEW j \in {"frame", "credit"}, NEW p \in Artwork, DrawArtwork(j, p)
      PROVE  EInv'
  BY <1>4, ScreenAssumption, BeginInv DEF DrawArtwork, Jobs
<1>5. CASE NewCanvas
  <2>1. /\ pixels' = Canvas /\ row' = 0 /\ active' = {} /\ operations' = {}
        /\ status' = "written" /\ job' \in Jobs
    BY <1>5 DEF NewCanvas, Jobs, EInv, Emptied
  <2>2. pixels' \in Pictures /\ \A x \in Cols, y \in Rows : pixels'[x][y] = Background
    BY <2>1, ColorAssumption DEF Canvas, Pictures
  <2> QED BY <2>1, <2>2, SizeAssumption
          DEF EInv, EncoderTypeOK, Scanning, Waiting, Done, Emptied, Disjoint,
              EncodedExactly, Merged, Filled
<1>6. CASE Encoding
  BY <1>6, EncodeInv DEF Encoding
<1>7. CASE Paint \/ Compose \/ CommitLine \/ Painted \/ Failed \/ Blank
  BY <1>7, <1>1 DEF Paint, Compose, CommitLine, Painted, Failed, Blank
<1>8. ASSUME NEW f \in 0 .. Frames - 1, Animate(f) PROVE EInv'
  BY <1>8, <1>1 DEF Animate
<1> QED BY <1>2, <1>3, <1>4, <1>5, <1>6, <1>7, <1>8 DEF SNext

\* A list covers exactly the picture it was made from, every pixel once: the
\* charging screen's build_framebuffer_commands and the boot loop's
\* encode_frame.
THEOREM ExactCoverHolds == SSpec => []ExactCover
<1>1. EInv => ExactCover
  BY DEF EInv, ExactCover
<1> QED BY InitInv, NextInv, <1>1, PTL DEF SSpec

\* No two rectangles of a list could have been one.
THEOREM MergedHolds == SSpec => []Merged
<1>1. EInv => Merged
  BY DEF EInv
<1> QED BY InitInv, NextInv, <1>1, PTL DEF SSpec

-----------------------------------------------------------------------------
(* The picture: what moves lies in the battery, and no rectangle crosses   *)
(* its border.                                                             *)

Ink == {"accent", "low", "critical"}
InBolt(x, y) == AtX[x] >= 170 /\ AtX[x] < 188 /\ AtY[y] >= 91 /\ AtY[y] < 121
InFigure(x, y) == AtX[x] >= 120 /\ AtX[x] < 200 /\ AtY[y] >= 190 /\ AtY[y] < 249
AtBattery(x, y) == AtX[x] \in 102 .. 252 /\ AtY[y] \in 75 .. 137

\* A charged part has the colour of a charge.
LEMMA ChargedColor ==
  ASSUME NEW c, c # NoCapacity
  PROVE  ChargeColor(c) \in Ink
BY DEF ChargeColor, Ink

\* The colour of the charge is that of the charged part only, and the
\* outline's that of the bolt and the figure only.
LEMMA PictureColors ==
  ASSUME NEW c, NEW x \in Cols, NEW y \in Rows
  PROVE  /\ Picture(c)[x][y] \in Ink => AtBattery(x, y)
         /\ Picture(c)[x][y] = "outline" => InBolt(x, y) \/ InFigure(x, y)
<1> DEFINE v == Picture(c)[x][y]
           Fig == BoxAt(x, y, <<120, 190, 200, 249>>)
           Per == BoxAt(x, y, <<206, 220, 240, 249>>)
           Blt == BoxAt(x, y, <<170, 91, 188, 121>>)
           Bck == BoxAt(x, y, <<163, 84, 195, 128>>)
           Bat == BoxAt(x, y, <<103, 76, 251, 136>>)
           Part == IF Charged(x, Clamped(c)) THEN ChargeColor(Clamped(c)) ELSE "track"
           Tip == BoxAt(x, y, <<264, 93, 270, 119>>)
           Hol == BoxAt(x, y, <<97, 70, 257, 142>>)
           Cas == BoxAt(x, y, <<94, 67, 260, 145>>)
<1>1. v = CASE Fig -> "outline" [] Per -> "percent" [] Blt -> "outline"
            [] Bck -> "track" [] Bat -> Part [] Tip -> "case"
            [] Hol -> Background [] Cas -> "case" [] OTHER -> Background
  BY DEF Picture
<1>2. AtX[x] \in Int /\ AtY[y] \in Int
  BY ScreenAssumption
<1>3. /\ Fig => InFigure(x, y)
      /\ Blt => InBolt(x, y)
      /\ Bat => AtBattery(x, y)
  BY <1>2 DEF BoxAt, InFigure, InBolt, AtBattery
<1>4. Part \in Ink \cup {"track"}
  BY ChargedColor DEF Charged, Ink
<1>5. Background \notin Ink \cup {"outline"}
  BY ScreenAssumption DEF Ink
<1> HIDE DEF v, Fig, Per, Blt, Bck, Bat, Part, Tip, Hol, Cas
<1>6. v \in Ink => Bat
  BY <1>1, <1>4, <1>5 DEF Ink
<1>7. v = "outline" => Fig \/ Blt
  BY <1>1, <1>4, <1>5 DEF Ink
<1> QED BY <1>3, <1>6, <1>7 DEF v

\* What the monitor hands to the painter was made from the last reading.
Listed ==
  job = "screen" /\ pixels = Picture(capacity) /\ status = "encoded"

\* Rectangles do not leave the picture.
Fits == \A r \in Filled : r.x + r.w <= Width /\ r.y + r.h <= Height

\* The finished list shows the picture, in the picture.
LEMMA ListShows ==
  ASSUME EInv, Fits, Listed
  PROVE  /\ operations \in SUBSET Rectangles
         /\ \A r \in operations : r.x + r.w <= Width /\ r.y + r.h <= Height
         /\ \A r \in operations, x \in Cols, y \in Rows :
              Covers(r, x, y) => Picture(capacity)[x][y] = r.color
         /\ \A x \in Cols, y \in Rows : Picture(capacity)[x][y] # Background
              => \E r \in operations : Covers(r, x, y)
<1>1. Filled = operations
  BY DEF EInv, Emptied, Listed, Filled
<1> QED BY <1>1 DEF EInv, EncoderTypeOK, EncodedExactly, Listed, Fits

\* The corners of a rectangle are points of the picture it covers.
LEMMA Corners ==
  ASSUME NEW r \in Rectangles, r.x + r.w <= Width, r.y + r.h <= Height
  PROVE  /\ \A x \in r.x .. r.x + r.w - 1 : x \in Cols
         /\ \A y \in r.y .. r.y + r.h - 1 : y \in Rows
         /\ r.x \in r.x .. r.x + r.w - 1 /\ r.x + r.w - 1 \in r.x .. r.x + r.w - 1
         /\ r.y \in r.y .. r.y + r.h - 1 /\ r.y + r.h - 1 \in r.y .. r.y + r.h - 1
         /\ \A x \in r.x .. r.x + r.w - 1, y \in r.y .. r.y + r.h - 1 : Covers(r, x, y)
BY RectangleIs, SizeAssumption DEF Covers, Cols, Rows

\* A rectangle in the colour of the charge or of the bolt with one point in
\* the battery is in the battery.
LEMMA AllOrNothing ==
  ASSUME EInv, Fits, Listed, capacity # NoCapacity, NEW r \in operations,
         r.color \in {ChargeColor(capacity), "outline"},
         NEW x \in r.x .. r.x + r.w - 1, NEW y \in r.y .. r.y + r.h - 1
  PROVE  AtBattery(x, y) <=> InBattery(r)
<1> DEFINE e == r.x + r.w - 1
           b == r.y + r.h - 1
<1>1. /\ r \in Rectangles /\ r.x + r.w <= Width /\ r.y + r.h <= Height
      /\ \A i \in Cols, j \in Rows :
           Covers(r, i, j) => Picture(capacity)[i][j] = r.color
  BY ListShows
<1>2. /\ \A i \in r.x .. e : i \in Cols
      /\ \A j \in r.y .. b : j \in Rows
      /\ r.x \in r.x .. e /\ e \in r.x .. e /\ r.y \in r.y .. b /\ b \in r.y .. b
      /\ \A i \in r.x .. e, j \in r.y .. b : Covers(r, i, j)
  BY <1>1, Corners
<1>3. /\ r.x \in Cols /\ e \in Cols /\ x \in Cols /\ r.x <= x /\ x <= e
      /\ r.y \in Rows /\ b \in Rows /\ y \in Rows /\ r.y <= y /\ y <= b
  BY <1>1, <1>2, RectangleIs
<1>4. \A i \in r.x .. e, j \in r.y .. b : Picture(capacity)[i][j] = r.color
  BY <1>1, <1>2
<1> HIDE DEF e, b
<1>5. /\ AtX[r.x] <= AtX[x] /\ AtX[x] <= AtX[e]
      /\ AtY[r.y] <= AtY[y] /\ AtY[y] <= AtY[b]
  BY <1>3, SampleAssumption
<1>6. /\ AtX[r.x] \in Int /\ AtX[x] \in Int /\ AtX[e] \in Int
      /\ AtY[r.y] \in Int /\ AtY[y] \in Int /\ AtY[b] \in Int
  BY <1>3, ScreenAssumption
<1>7. InBattery(r) <=> /\ AtX[r.x] >= 102 /\ AtX[e] < 253
                       /\ AtY[r.y] >= 75 /\ AtY[b] < 138
  BY DEF InBattery, e, b
<1>8. InBattery(r) => AtBattery(x, y)
  BY <1>5, <1>6, <1>7 DEF AtBattery
<1>9. ASSUME AtBattery(r.x, r.y), AtBattery(e, b) PROVE InBattery(r)
  BY <1>6, <1>7, <1>9 DEF AtBattery
<1>10. CASE r.color = ChargeColor(capacity)
  BY <1>2, <1>3, <1>4, <1>8, <1>9, <1>10, PictureColors, ChargedColor
<1>11. CASE r.color = "outline"
  <2> SUFFICES ASSUME AtBattery(x, y) PROVE InBattery(r)
    BY <1>8
  <2>1. \A i \in r.x .. e, j \in r.y .. b : InBolt(i, j) \/ InFigure(i, j)
    BY <1>2, <1>4, <1>11, PictureColors
  <2>2. InBolt(r.x, r.y) /\ InBolt(e, r.y)
    <3>1. AtY[r.y] < 190
      BY <1>5, <1>6 DEF AtBattery
    <3> QED BY <1>2, <1>6, <2>1, <3>1 DEF InFigure
  <2>3. InBolt(e, b)
    <3> SUFFICES ASSUME ~InBolt(e, b) PROVE FALSE
      OBVIOUS
    <3> DEFINE S == {j \in r.y .. b : AtY[j] <= 120}
    <3>1. r.y \in S
      BY <1>2, <1>6, <2>2 DEF InBolt
    <3>2. S \in SUBSET Nat /\ b \in Nat /\ \A j \in S : j <= b
      BY <1>3 DEF Rows
    <3>3. PICK j \in S : \A k \in S : k <= j
      <4> HIDE DEF S
      <4> QED BY <3>1, <3>2, NatGreatest
    <3>4. j # b
      <4>1. InFigure(e, b)
        BY <1>2, <2>1
      <4> QED BY <1>6, <4>1 DEF InFigure
    <3>5. j + 1 \in r.y .. b
      BY <1>3, <3>3, <3>4 DEF Rows
    <3>6. j + 1 \in Rows /\ j \in Rows
      BY <1>2, <3>3, <3>5
    <3>7. AtY[j + 1] < 190 /\ AtY[j + 1] \in Int
      BY <3>3, <3>6, SampleAssumption, ScreenAssumption
    <3>8. InBolt(e, j + 1)
      BY <1>2, <2>1, <3>5, <3>7 DEF InFigure
    <3>9. AtY[j + 1] <= 120
      BY <3>7, <3>8 DEF InBolt
    <3>10. j + 1 \in S /\ j \in Nat
      BY <3>2, <3>3, <3>5, <3>9
    <3> HIDE DEF S
    <3>11. j + 1 <= j
      BY <3>3, <3>10
    <3> QED BY <3>10, <3>11
  <2> QED BY <1>6, <1>7, <2>2, <2>3 DEF InBolt
<1> QED BY <1>10, <1>11

\* One scanline keeps the rectangles in the picture.
LEMMA FitsScan ==
  ASSUME EInv, Fits, status = "scan", row < Box.bottom, Scan(row, Box),
         UNCHANGED <<job, pixels, status>>
  PROVE  Fits'
<1> DEFINE spans == SpansOf(pixels, row, Box)
<1>1. /\ pixels \in Pictures /\ BoxHolds(Box, pixels) /\ Box.top <= row
      /\ row \in Rows /\ row \in Nat /\ row + 1 <= Height
      /\ active \in SUBSET Rectangles /\ operations \in SUBSET Rectangles
  BY SizeAssumption DEF EInv, EncoderTypeOK, Scanning, BoxHolds, Rows
<1>2. \A r \in Filled' :
        \/ r \in Filled
        \/ \E q \in active : r = Grown(q)
        \/ \E s \in spans : r = Started(s, row)
  BY DEF Scan, Filled, Spans
<1>3. ASSUME NEW q \in active
      PROVE  Grown(q).x + Grown(q).w <= Width /\ Grown(q).y + Grown(q).h <= Height
  <2>1. q \in Rectangles /\ q.y + q.h = row /\ q.x + q.w <= Width
    BY <1>1 DEF EInv, Waiting, Fits, Filled
  <2> QED BY <1>1, <2>1, GrownIs, RectangleIs
<1>4. ASSUME NEW s \in spans
      PROVE  /\ Started(s, row).x + Started(s, row).w <= Width
             /\ Started(s, row).y + Started(s, row).h <= Height
  <2>1. s.x + s.w <= Box.right /\ Box.right <= Width
    BY <1>1 DEF SpansOf, BoxHolds
  <2>2. Started(s, row).x = s.x /\ Started(s, row).w = s.w
    BY DEF Started, Rectangle
  <2>3. Started(s, row).y = row /\ Started(s, row).h = 1
    BY DEF Started, Rectangle
  <2>4. s.x \in Nat /\ s.w \in Nat
    BY <1>1, SpanIs, SizeAssumption DEF Cols
  <2>5. Box.right \in Nat /\ Width \in Nat
    BY <1>1, SizeAssumption DEF BoxHolds
  <2> QED BY <1>1, <2>1, <2>2, <2>3, <2>4, <2>5
<1> QED BY <1>2, <1>3, <1>4 DEF Fits

\* So does every step.
LEMMA FitsStep == EInv /\ Fits /\ [SNext]_svars => Fits'
<1> SUFFICES ASSUME EInv, Fits, [SNext]_svars PROVE Fits'
  OBVIOUS
<1>1. ASSUME Filled' = Filled PROVE Fits'
  BY <1>1 DEF Fits
<1>2. ASSUME UNCHANGED evars PROVE Fits'
  BY <1>1, <1>2 DEF evars, Filled
<1>3. ASSUME NEW j, NEW p, Begin(j, p) PROVE Fits'
  BY <1>3 DEF Begin, Fits, Filled
<1>4. CASE Encode
  <2>1. CASE ScreenRow \/ FrameRow
    BY <2>1, FitsScan DEF ScreenRow, FrameRow
  <2>2. CASE ScreenEnd \/ FrameEnd
    BY <2>2, <1>1 DEF ScreenEnd, FrameEnd, Finish, Filled
  <2> QED BY <1>4, <2>1, <2>2 DEF Encode
<1>5. CASE NewCanvas
  <2>1. Filled' = {}
    BY <1>5 DEF NewCanvas, Filled, EInv, Emptied
  <2> QED BY <2>1 DEF Fits
<1>6. CASE Paint \/ Compose \/ CommitLine \/ Painted \/ Failed \/ Blank
  BY <1>6, <1>2 DEF Paint, Compose, CommitLine, Painted, Failed, Blank
<1> QED BY <1>2, <1>3, <1>4, <1>5, <1>6
    DEF SNext, svars, Render, Animate, DrawArtwork, Encoding

-----------------------------------------------------------------------------
(* The lists of fills.                                                     *)

\* A list of fills that lie in the framebuffer.
Framed(S) == \A f \in S :
  /\ f.x \in Nat /\ f.y \in Nat /\ f.w \in Nat \ {0} /\ f.h \in Nat \ {0}
  /\ f.x + f.w <= Width + 2 * Margin /\ f.y + f.h <= Height + 2 * Margin

\* The smallest box around a list.
LEMMA BoxAround ==
  ASSUME NEW S, S # {}, Framed(S)
  PROVE  /\ Left(S) \in Nat /\ Right(S) \in Nat /\ Left(S) < Right(S)
         /\ Top(S) \in Nat /\ Bottom(S) \in Nat /\ Top(S) < Bottom(S)
         /\ Right(S) <= Width + 2 * Margin /\ Bottom(S) <= Height + 2 * Margin
         /\ \A f \in S : /\ Left(S) <= f.x /\ f.x + f.w <= Right(S)
                         /\ Top(S) <= f.y /\ f.y + f.h <= Bottom(S)
<1> DEFINE bx == Width + 2 * Margin
           by == Height + 2 * Margin
           X == {f.x : f \in S}      Y == {f.y : f \in S}
           U == {f.x + f.w : f \in S}  V == {f.y + f.h : f \in S}
<1>1. bx \in Nat /\ by \in Nat
  BY SizeAssumption, ScreenAssumption
<1>2. \A f \in S : /\ f.x \in Nat /\ f.y \in Nat /\ f.w \in Nat /\ f.h \in Nat
                   /\ f.w > 0 /\ f.h > 0 /\ f.x + f.w <= bx /\ f.y + f.h <= by
  BY DEF Framed
<1> HIDE DEF bx, by
<1>3. /\ X \in SUBSET Nat /\ X # {} /\ Y \in SUBSET Nat /\ Y # {}
      /\ U \in SUBSET Nat /\ U # {} /\ V \in SUBSET Nat /\ V # {}
      /\ \A u \in U : u <= bx /\ \A v \in V : v <= by
  BY <1>2
<1>4. \A f \in S : f.x \in X /\ f.y \in Y /\ f.x + f.w \in U /\ f.y + f.h \in V
  OBVIOUS
<1>5. /\ Left(S) = Least(X) /\ Top(S) = Least(Y)
      /\ Right(S) = Greatest(U) /\ Bottom(S) = Greatest(V)
  BY DEF Left, Top, Right, Bottom
<1> HIDE DEF X, Y, U, V
<1>6. /\ Left(S) \in X /\ \A m \in X : Left(S) <= m
      /\ Top(S) \in Y /\ \A m \in Y : Top(S) <= m
  BY <1>3, <1>5, LeastIs
<1>7. Right(S) \in U /\ \A m \in U : m <= Right(S)
  BY <1>1, <1>3, <1>5, GreatestIs
<1>8. Bottom(S) \in V /\ \A m \in V : m <= Bottom(S)
  BY <1>1, <1>3, <1>5, GreatestIs
<1>9. \A f \in S : /\ Left(S) <= f.x /\ f.x + f.w <= Right(S)
                   /\ Top(S) <= f.y /\ f.y + f.h <= Bottom(S)
  BY <1>4, <1>6, <1>7, <1>8
<1>10. /\ Left(S) \in Nat /\ Top(S) \in Nat /\ Right(S) \in Nat /\ Bottom(S) \in Nat
       /\ Right(S) <= bx /\ Bottom(S) <= by
  BY <1>3, <1>6, <1>7, <1>8
<1>11. PICK f \in S : TRUE
  OBVIOUS
<1>12. Left(S) < Right(S) /\ Top(S) < Bottom(S)
  BY <1>2, <1>9, <1>10, <1>11
<1> QED BY <1>9, <1>10, <1>12 DEF bx, by

\* Whether a fill of the list has a point.
LEMMA InIs ==
  ASSUME NEW S, Framed(S), NEW f \in S, NEW x \in Int, NEW y \in Int
  PROVE  In(f, x, y) <=> /\ f.x <= x /\ x < f.x + f.w
                         /\ f.y <= y /\ y < f.y + f.h
BY DEF In, Framed

\* A rectangle of the picture as a fill.
LEMMA MovedIs ==
  ASSUME NEW r \in Rectangles, r.x + r.w <= Width, r.y + r.h <= Height
  PROVE  /\ Framed({Moved(r)})
         /\ Moved(r).show = [color |-> r.color, frame |-> Still]
         /\ \A x \in Int, y \in Int :
              In(Moved(r), x, y) <=> /\ x - Margin \in r.x .. r.x + r.w - 1
                                     /\ y - Margin \in r.y .. r.y + r.h - 1
<1>1. /\ r.x \in Nat /\ r.y \in Nat /\ r.w \in Nat \ {0} /\ r.h \in Nat \ {0}
      /\ Margin \in Nat /\ Width \in Nat /\ Height \in Nat
  BY RectangleIs, SizeAssumption, ScreenAssumption
<1>2. /\ Moved(r).x = r.x + Margin /\ Moved(r).y = r.y + Margin
      /\ Moved(r).w = r.w /\ Moved(r).h = r.h
      /\ Moved(r).show = [color |-> r.color, frame |-> Still]
  BY DEF Moved, Fill
<1> QED BY <1>1, <1>2 DEF Framed, In

\* The bands of a fill cover what it covers, at the animation's frame.
LEMMA BandsAre ==
  ASSUME NEW r, Framed({r}), frame \in Int
  PROVE  /\ Framed(Bands(r))
         /\ \A f \in Bands(r) : f.show = [color |-> r.show.color, frame |-> frame]
         /\ \A x \in Int, y \in Int :
              (\E f \in Bands(r) : In(f, x, y)) <=> In(r, x, y)
<1> DEFINE K == {n \in 0 .. r.w - 1 : n * BandStep < r.w}
           Wide(k) == IF (k + 1) * BandStep <= r.w THEN BandStep ELSE r.w - k * BandStep
           Band(k) == Fill(r.x + k * BandStep, r.y, Wide(k), r.h, r.show.color, frame)
<1>1. Bands(r) = {Band(k) : k \in K}
  BY DEF Bands
<1>2. /\ r.x \in Nat /\ r.y \in Nat /\ r.w \in Nat \ {0} /\ r.h \in Nat \ {0}
      /\ r.x + r.w <= Width + 2 * Margin /\ r.y + r.h <= Height + 2 * Margin
      /\ BandStep \in Nat \ {0}
      /\ Width + 2 * Margin \in Nat /\ Height + 2 * Margin \in Nat
  BY SizeAssumption, ScreenAssumption DEF Framed
<1>3. \A k \in K : /\ Band(k).x = r.x + k * BandStep /\ Band(k).y = r.y
                   /\ Band(k).w = Wide(k) /\ Band(k).h = r.h
                   /\ Band(k).show = [color |-> r.show.color, frame |-> frame]
  BY DEF Fill
<1>4. ASSUME NEW k \in K
      PROVE  /\ k \in Nat /\ k * BandStep \in Nat /\ (k + 1) * BandStep \in Nat
             /\ (k + 1) * BandStep = k * BandStep + BandStep
             /\ k * BandStep < r.w
  BY <1>2
<1>5. ASSUME NEW k \in K
      PROVE  Wide(k) \in Nat \ {0} /\ k * BandStep + Wide(k) <= r.w
  <2> DEFINE d == k * BandStep
  <2>1. d \in Nat /\ d < r.w /\ (k + 1) * BandStep = d + BandStep
    BY <1>4
  <2> HIDE DEF d
  <2>2. IF d + BandStep <= r.w THEN Wide(k) = BandStep ELSE Wide(k) = r.w - d
    BY <2>1 DEF d
  <2> HIDE DEF Wide
  <2>3. Wide(k) \in Nat \ {0} /\ d + Wide(k) <= r.w
    BY <1>2, <2>1, <2>2
  <2> QED BY <2>3 DEF d, Wide
<1>6. ASSUME NEW x \in Int, r.x <= x, x < r.x + r.w
      PROVE  \E k \in K : r.x + k * BandStep <= x /\ x < r.x + k * BandStep + Wide(k)
  <2> DEFINE d == x - r.x
             N == {n \in Nat : d < (n + 1) * BandStep}
  <2>1. d \in Nat /\ d < r.w /\ x = r.x + d
    BY <1>2, <1>6
  <2> HIDE DEF d
  <2>2. \A n \in Nat : n * BandStep >= n /\ (n + 1) * BandStep = n * BandStep + BandStep
                       /\ n * BandStep \in Nat
    <3> SUFFICES ASSUME NEW n \in Nat
                 PROVE  n * BandStep >= n /\ (n + 1) * BandStep = n * BandStep + BandStep
                        /\ n * BandStep \in Nat
      OBVIOUS
    <3> QED BY <1>2
  <2>3. d \in N
    BY <1>2, <2>1, <2>2
  <2>4. PICK n \in N : \A m \in N : n <= m
    <3>1. N \in SUBSET Nat /\ N # {}
      BY <2>3
    <3> HIDE DEF N
    <3> QED BY <3>1, NatLeast
  <2>5. n \in Nat /\ d < n * BandStep + BandStep /\ n * BandStep \in Nat
    BY <2>2, <2>4
  <2>6. n * BandStep <= d
    <3>1. CASE n = 0
      <4>1. n * BandStep = 0
        BY <3>1, <1>2
      <4> QED BY <4>1, <2>1
    <3>2. CASE n # 0
      <4>1. n - 1 \in Nat /\ n - 1 \notin N
        BY <3>2, <2>4, <2>5
      <4>2. ~ (d < ((n - 1) + 1) * BandStep)
        BY <4>1
      <4>3. (n - 1) + 1 = n
        BY <2>5
      <4> QED BY <4>2, <4>3, <2>1, <2>5
    <3> QED BY <3>1, <3>2
  <2>7. n <= d /\ n * BandStep < r.w
    BY <1>2, <2>1, <2>2, <2>5, <2>6
  <2>8. n \in K
    BY <1>2, <2>1, <2>5, <2>7
  <2>9. d < n * BandStep + Wide(n)
    <3>1. CASE (n + 1) * BandStep <= r.w
      BY <3>1, <2>5
    <3>2. CASE ~ ((n + 1) * BandStep <= r.w)
      <4>1. Wide(n) = r.w - n * BandStep
        BY <3>2
      <4> QED BY <4>1, <1>2, <2>1, <2>5
    <3> QED BY <3>1, <3>2
  <2>10. Wide(n) \in Nat
    BY <1>5, <2>8
  <2> HIDE DEF Wide, K, N
  <2>11. r.x + n * BandStep <= x /\ x < r.x + n * BandStep + Wide(n)
    BY <1>2, <2>1, <2>5, <2>6, <2>9, <2>10
  <2> QED BY <2>8, <2>11
<1> HIDE DEF Wide, Band, K
<1>7. \A k \in K : /\ Band(k).x \in Nat /\ Band(k).x >= r.x
                   /\ Band(k).w \in Nat \ {0} /\ Band(k).x + Band(k).w <= r.x + r.w
  BY <1>2, <1>3, <1>4, <1>5
<1>8. Framed(Bands(r))
  <2>1. \A k \in K : /\ Band(k).y = r.y /\ Band(k).h = r.h
    BY <1>3
  <2> QED BY <1>1, <1>2, <1>7, <2>1 DEF Framed
<1>9. \A f \in Bands(r) : f.show = [color |-> r.show.color, frame |-> frame]
  BY <1>1, <1>3
<1>10. ASSUME NEW x \in Int, NEW y \in Int
       PROVE  (\E f \in Bands(r) : In(f, x, y)) <=> In(r, x, y)
  <2>1. In(r, x, y) <=> /\ r.x <= x /\ x < r.x + r.w
                        /\ r.y <= y /\ y < r.y + r.h
    BY <1>2 DEF In
  <2>2. \A k \in K : In(Band(k), x, y) <=>
          /\ Band(k).x <= x /\ x < Band(k).x + Band(k).w
          /\ r.y <= y /\ y < r.y + r.h
    BY <1>1, <1>3, <1>8, InIs
  <2>3. ASSUME NEW k \in K, In(Band(k), x, y) PROVE In(r, x, y)
    BY <2>1, <2>2, <2>3, <1>2, <1>7
  <2>4. ASSUME In(r, x, y) PROVE \E k \in K : In(Band(k), x, y)
    <3>1. PICK k \in K : r.x + k * BandStep <= x /\ x < r.x + k * BandStep + Wide(k)
      BY <2>1, <2>4, <1>6
    <3>2. Band(k).x <= x /\ x < Band(k).x + Band(k).w
      BY <3>1, <1>3
    <3> QED BY <3>2, <2>1, <2>2, <2>4
  <2> QED BY <1>1, <2>3, <2>4
<1> QED BY <1>8, <1>9, <1>10

-----------------------------------------------------------------------------
(* What the painter composes.                                              *)

Place == FbCols \X FbRows
Exactly(c, x, y, f) == [color |-> ShownColor(c, x, y), frame |-> f]

\* The framebuffer's places are numbers.
LEMMA FbIs ==
  /\ Margin \in Nat
  /\ Width + 2 * Margin \in Nat \ {0} /\ Height + 2 * Margin \in Nat \ {0}
  /\ \A x \in FbCols : x \in Nat /\ x < Width + 2 * Margin /\ x - Margin \in Int
  /\ \A y \in FbRows : y \in Nat /\ y < Height + 2 * Margin /\ y - Margin \in Int
  /\ \A x \in Nat : x < Width + 2 * Margin => x \in FbCols
  /\ \A y \in Nat : y < Height + 2 * Margin => y \in FbRows
BY SizeAssumption, ScreenAssumption DEF FbCols, FbRows

\* Where a rectangle of the finished list is moved to, it has the colour
\* that the picture shows there.
LEMMA MovedShows ==
  ASSUME EInv, Fits, Listed, NEW r \in operations,
         NEW x \in FbCols, NEW y \in FbRows, In(Moved(r), x, y)
  PROVE  /\ x - Margin \in Cols /\ y - Margin \in Rows
         /\ x - Margin \in r.x .. r.x + r.w - 1
         /\ y - Margin \in r.y .. r.y + r.h - 1
         /\ ShownColor(capacity, x, y) = r.color
<1>1. /\ r \in Rectangles /\ r.x + r.w <= Width /\ r.y + r.h <= Height
      /\ \A i \in Cols, j \in Rows :
           Covers(r, i, j) => Picture(capacity)[i][j] = r.color
  BY ListShows
<1>2. x \in Int /\ y \in Int
  BY FbIs
<1>3. /\ x - Margin \in r.x .. r.x + r.w - 1
      /\ y - Margin \in r.y .. r.y + r.h - 1
  BY <1>1, <1>2, MovedIs
<1>4. /\ x - Margin \in Cols /\ y - Margin \in Rows
      /\ Covers(r, x - Margin, y - Margin)
  BY <1>1, <1>3, Corners
<1> QED BY <1>1, <1>3, <1>4 DEF ShownColor

\* Where the picture is not empty, a rectangle is moved to.
LEMMA ShownMoved ==
  ASSUME EInv, Fits, Listed, NEW x \in FbCols, NEW y \in FbRows,
         x - Margin \in Cols, y - Margin \in Rows,
         ShownColor(capacity, x, y) # Background
  PROVE  \E r \in operations : In(Moved(r), x, y)
<1>1. Picture(capacity)[x - Margin][y - Margin] # Background
  BY DEF ShownColor
<1>2. PICK r \in operations : Covers(r, x - Margin, y - Margin)
  BY <1>1, ListShows
<1>3. r \in Rectangles /\ r.x + r.w <= Width /\ r.y + r.h <= Height
  BY ListShows
<1>4. x \in Int /\ y \in Int
  BY FbIs
<1> QED BY <1>2, <1>3, <1>4, MovedIs DEF Covers

\* The list of the whole picture.
LEMMA WholeList ==
  ASSUME EInv, Fits, Listed, frame = Still
  PROVE  /\ Commands # {} /\ Framed(Commands)
         /\ Left(Commands) = 0 /\ Right(Commands) = Width + 2 * Margin
         /\ Top(Commands) = 0 /\ Bottom(Commands) = Height + 2 * Margin
<1>1. Commands = {Clear} \cup {Moved(r) : r \in operations}
  BY DEF Commands
<1>2. /\ Clear.x = 0 /\ Clear.y = 0
      /\ Clear.w = Width + 2 * Margin /\ Clear.h = Height + 2 * Margin
  BY DEF Clear, Fill
<1>3. Framed({Clear})
  BY <1>2, FbIs DEF Framed
<1>4. \A r \in operations : Framed({Moved(r)})
  BY ListShows, MovedIs
<1>5. Framed(Commands) /\ Commands # {}
  BY <1>1, <1>3, <1>4 DEF Framed
<1>6. Clear \in Commands
  BY <1>1
<1>7. /\ Left(Commands) \in Nat /\ Right(Commands) \in Nat
      /\ Top(Commands) \in Nat /\ Bottom(Commands) \in Nat
      /\ Right(Commands) <= Width + 2 * Margin
      /\ Bottom(Commands) <= Height + 2 * Margin
      /\ Left(Commands) <= 0 /\ 0 + (Width + 2 * Margin) <= Right(Commands)
      /\ Top(Commands) <= 0 /\ 0 + (Height + 2 * Margin) <= Bottom(Commands)
  BY <1>2, <1>5, <1>6, BoxAround
<1> QED BY <1>5, <1>7, FbIs

\* All of it is composed, whatever was on the screen.
LEMMA WholeComposed ==
  ASSUME EInv, Fits, Listed, frame = Still, NEW x \in FbCols, NEW y \in FbRows
  PROVE  /\ <<x, y>> \in DOMAIN Composed(Commands)
         /\ Composed(Commands)[<<x, y>>] = Exactly(capacity, x, y, Still)
<1> DEFINE F == Commands \ {Clear}
<1>1. <<x, y>> \in (Left(Commands) .. Right(Commands) - 1)
                     \X (Top(Commands) .. Bottom(Commands) - 1)
  BY WholeList, FbIs
<1>2. Commands = {Clear} \cup {Moved(r) : r \in operations}
  BY DEF Commands
<1>3. Composed(Commands)[<<x, y>>] =
        IF \E f \in F : In(f, x, y) THEN (CHOOSE f \in F : In(f, x, y)).show
        ELSE Clear.show
  BY <1>1, <1>2 DEF Composed
<1>4. <<x, y>> \in DOMAIN Composed(Commands)
  BY <1>1 DEF Composed
<1>5. \A f \in F : \E r \in operations : f = Moved(r)
  BY <1>2
<1>6. \A r \in operations : Moved(r) \in F
  <2> SUFFICES ASSUME NEW r \in operations PROVE Moved(r) # Clear
    BY <1>2
  <2>1. r.color # Background /\ r \in Rectangles
    BY ListShows, RectangleIs
  <2>2. Moved(r).show.color = r.color /\ Clear.show.color = Background
    BY DEF Moved, Clear, Fill
  <2> QED BY <2>1, <2>2
<1> HIDE DEF F
<1>7. CASE \E f \in F : In(f, x, y)
  <2> DEFINE f == CHOOSE f \in F : In(f, x, y)
  <2>1. f \in F /\ In(f, x, y)
    BY <1>7
  <2>2. Composed(Commands)[<<x, y>>] = f.show
    BY <1>3, <1>7
  <2> HIDE DEF f
  <2>3. PICK r \in operations : f = Moved(r)
    BY <1>5, <2>1
  <2>4. f.show = [color |-> r.color, frame |-> Still]
    BY <2>3 DEF Moved, Fill
  <2>5. ShownColor(capacity, x, y) = r.color
    BY <2>1, <2>3, MovedShows
  <2> QED BY <1>4, <2>2, <2>4, <2>5 DEF Exactly
<1>8. CASE ~ \E f \in F : In(f, x, y)
  <2>1. ~ \E r \in operations : In(Moved(r), x, y)
    BY <1>6, <1>8
  <2>2. ShownColor(capacity, x, y) = Background
    BY <2>1, ShownMoved DEF ShownColor
  <2>3. Clear.show = [color |-> Background, frame |-> Still]
    BY DEF Clear, Fill
  <2> QED BY <1>3, <1>4, <1>8, <2>2, <2>3 DEF Exactly
<1> QED BY <1>7, <1>8

\* The animation runs between empty and full only.
Charging == capacity # NoCapacity /\ capacity > 0 /\ capacity < 100

\* The list of an animation's frame: it covers what moves and nothing else.
LEMMA FrameList ==
  ASSUME EInv, Fits, Listed, Charging, frame \in Nat
  PROVE  /\ Framed(Commands) /\ Clear \notin Commands
         /\ \A x \in FbCols, y \in FbRows :
              /\ (\E f \in Commands : In(f, x, y)) <=> Moving(capacity, x, y)
              /\ \A f \in Commands : In(f, x, y) =>
                   f.show = Exactly(capacity, x, y, frame)
<1> DEFINE A == {r \in operations : InBattery(r) /\ r.color = ChargeColor(capacity)}
           B == {r \in operations : InBattery(r) /\ r.color = "outline"}
           Kept(r) == [Moved(r) EXCEPT !.show.frame = frame]
<1>1. Commands = (UNION {Bands(Moved(r)) : r \in A}) \cup {Kept(r) : r \in B}
  BY DEF Commands, AnimationFrame, Still
<1>2. ASSUME NEW r \in operations
      PROVE  /\ Framed({Moved(r)}) /\ Framed(Bands(Moved(r))) /\ Framed({Kept(r)})
             /\ \A f \in Bands(Moved(r)) : f.show = [color |-> r.color, frame |-> frame]
             /\ Kept(r).show = [color |-> r.color, frame |-> frame]
             /\ \A x \in Int, y \in Int :
                  /\ (\E f \in Bands(Moved(r)) : In(f, x, y)) <=> In(Moved(r), x, y)
                  /\ In(Kept(r), x, y) <=> In(Moved(r), x, y)
  <2>1. Framed({Moved(r)})
    BY ListShows, MovedIs
  <2>2. /\ Framed(Bands(Moved(r)))
        /\ \A f \in Bands(Moved(r)) :
             f.show = [color |-> Moved(r).show.color, frame |-> frame]
        /\ \A x \in Int, y \in Int :
             (\E f \in Bands(Moved(r)) : In(f, x, y)) <=> In(Moved(r), x, y)
    BY <2>1, BandsAre
  <2>3. Moved(r).show.color = r.color
    BY DEF Moved, Fill
  <2>4. /\ Kept(r).x = Moved(r).x /\ Kept(r).y = Moved(r).y
        /\ Kept(r).w = Moved(r).w /\ Kept(r).h = Moved(r).h
        /\ Kept(r).show = [color |-> r.color, frame |-> frame]
    BY DEF Moved, Fill
  <2> HIDE DEF Kept
  <2>5. Framed({Kept(r)})
    BY <2>1, <2>4 DEF Framed
  <2> QED BY <2>1, <2>2, <2>3, <2>4, <2>5 DEF In
<1> HIDE DEF Kept
<1>3. \A f : f \in Commands <=> \/ \E r \in A : f \in Bands(Moved(r))
                               \/ \E r \in B : f = Kept(r)
  <2> HIDE DEF A, B
  <2> DEFINE U == UNION {Bands(Moved(r)) : r \in A}
             V == {Kept(r) : r \in B}
  <2>1. \A f : f \in U <=> \E r \in A : f \in Bands(Moved(r))
    BY Zenon
  <2>2. \A f : f \in V <=> \E r \in B : f = Kept(r)
    BY Zenon
  <2>3. Commands = U \cup V
    BY <1>1
  <2> HIDE DEF U, V
  <2>4. \A f : f \in Commands <=> f \in U \/ f \in V
    BY <2>3
  <2> QED BY <2>1, <2>2, <2>4, Zenon
<1>4. ASSUME NEW f \in Commands
      PROVE  /\ Framed({f})
             /\ \E r \in A \cup B :
                  /\ f.show = [color |-> r.color, frame |-> frame]
                  /\ \A x \in Int, y \in Int : In(f, x, y) => In(Moved(r), x, y)
  <2>1. ASSUME NEW r \in A, f \in Bands(Moved(r))
        PROVE  /\ Framed({f})
               /\ f.show = [color |-> r.color, frame |-> frame]
               /\ \A x \in Int, y \in Int : In(f, x, y) => In(Moved(r), x, y)
    <3>1. Framed(Bands(Moved(r)))
      BY <1>2
    <3>2. Framed({f})
      BY <2>1, <3>1 DEF Framed
    <3> QED BY <1>2, <2>1, <3>2
  <2>2. ASSUME NEW r \in B, f = Kept(r)
        PROVE  /\ Framed({f})
               /\ f.show = [color |-> r.color, frame |-> frame]
               /\ \A x \in Int, y \in Int : In(f, x, y) => In(Moved(r), x, y)
    BY <1>2, <2>2
  <2> QED BY <1>3, <2>1, <2>2
<1>11. Framed(Commands)
  BY <1>4 DEF Framed
<1>5. Clear \notin Commands
  <2>1. Clear.show.frame = Still
    BY DEF Clear, Fill
  <2>2. ASSUME Clear \in Commands PROVE Clear.show.frame = frame
    <3>1. \E r \in A \cup B : Clear.show = [color |-> r.color, frame |-> frame]
      BY <1>4, <2>2
    <3> QED BY <3>1
  <2> QED BY <2>1, <2>2 DEF Still
<1>6. ASSUME NEW r \in A \cup B, NEW x \in FbCols, NEW y \in FbRows
      PROVE  In(Moved(r), x, y) => \E f \in Commands : In(f, x, y)
  <2> SUFFICES ASSUME In(Moved(r), x, y) PROVE \E f \in Commands : In(f, x, y)
    OBVIOUS
  <2>1. x \in Int /\ y \in Int
    BY FbIs
  <2>2. CASE r \in A
    <3>1. PICK f \in Bands(Moved(r)) : In(f, x, y)
      BY <1>2, <2>1
    <3> QED BY <1>3, <2>2, <3>1
  <2>3. CASE r \in B
    <3>1. In(Kept(r), x, y)
      BY <1>2, <2>1
    <3> QED BY <1>3, <2>3, <3>1
  <2> QED BY <2>2, <2>3
<1>7. ASSUME NEW r \in A \cup B, NEW x \in FbCols, NEW y \in FbRows,
             In(Moved(r), x, y)
      PROVE  Moving(capacity, x, y) /\ ShownColor(capacity, x, y) = r.color
  <2>1. /\ x - Margin \in Cols /\ y - Margin \in Rows
        /\ x - Margin \in r.x .. r.x + r.w - 1
        /\ y - Margin \in r.y .. r.y + r.h - 1
        /\ ShownColor(capacity, x, y) = r.color
    BY <1>7, MovedShows
  <2>2. AtBattery(x - Margin, y - Margin)
    BY <2>1, AllOrNothing DEF Charging
  <2> QED BY <2>1, <2>2 DEF Moving, AtBattery
<1>8. ASSUME NEW x \in FbCols, NEW y \in FbRows, Moving(capacity, x, y)
      PROVE  \E r \in A \cup B : In(Moved(r), x, y)
  <2>1. /\ x - Margin \in Cols /\ y - Margin \in Rows
        /\ AtBattery(x - Margin, y - Margin)
        /\ ShownColor(capacity, x, y) \in {ChargeColor(capacity), "outline"}
    BY <1>8 DEF Moving, AtBattery
  <2>2. ShownColor(capacity, x, y) # Background
    BY <2>1, ChargedColor, ScreenAssumption DEF Charging, Ink
  <2>3. PICK r \in operations : In(Moved(r), x, y)
    BY <2>1, <2>2, ShownMoved
  <2>4. /\ x - Margin \in r.x .. r.x + r.w - 1
        /\ y - Margin \in r.y .. r.y + r.h - 1
        /\ ShownColor(capacity, x, y) = r.color
    BY <2>3, MovedShows
  <2>5. InBattery(r)
    BY <2>1, <2>4, AllOrNothing DEF Charging
  <2> QED BY <2>1, <2>3, <2>4, <2>5
<1> HIDE DEF A, B
<1>9. ASSUME NEW x \in FbCols, NEW y \in FbRows, NEW f \in Commands, In(f, x, y)
      PROVE  Moving(capacity, x, y) /\ f.show = Exactly(capacity, x, y, frame)
  <2>1. PICK r \in A \cup B :
          /\ f.show = [color |-> r.color, frame |-> frame]
          /\ In(Moved(r), x, y)
    <3>1. x \in Int /\ y \in Int
      BY FbIs
    <3> QED BY <1>4, <1>9, <3>1, Zenon
  <2> QED BY <2>1, <1>7 DEF Exactly
<1> QED BY <1>5, <1>6, <1>8, <1>9, <1>11

\* Where nothing moves, what is on the screen is composed again: no list
\* begins with a fill that covers all the others but leaves a point out.
LEMMA FrameComposed ==
  ASSUME EInv, Fits, Listed, Charging, frame \in Nat, Commands # {},
         NEW x \in FbCols, NEW y \in FbRows
  PROVE  /\ Moving(capacity, x, y) =>
              /\ <<x, y>> \in DOMAIN Composed(Commands)
              /\ Composed(Commands)[<<x, y>>] = Exactly(capacity, x, y, frame)
         /\ ~Moving(capacity, x, y) /\ <<x, y>> \in DOMAIN Composed(Commands) =>
              Composed(Commands)[<<x, y>>] = screen[<<x, y>>]
<1> DEFINE S == Commands
           Area == (Left(S) .. Right(S) - 1) \X (Top(S) .. Bottom(S) - 1)
<1>1. Framed(S) /\ S # {} /\ S \ {Clear} = S /\ Clear \notin S
  BY FrameList
<1>2. DOMAIN Composed(S) = Area
  BY DEF Composed
<1>3. /\ (\E f \in S : In(f, x, y)) <=> Moving(capacity, x, y)
      /\ \A f \in S : In(f, x, y) => f.show = Exactly(capacity, x, y, frame)
  BY FrameList
<1>4. x \in Int /\ y \in Int
  BY FbIs
<1>5. First(S) \in S
  BY <1>1 DEF First, Still
<1> HIDE DEF S
<1>6. <<x, y>> \in Area => Composed(S)[<<x, y>>] =
        IF \E f \in S : In(f, x, y) THEN (CHOOSE f \in S : In(f, x, y)).show
        ELSE IF Opaque(First(S), S) THEN Junk ELSE screen[<<x, y>>]
  BY <1>1 DEF Composed
<1>7. ASSUME NEW f \in S, In(f, x, y) PROVE <<x, y>> \in Area
  <2>1. /\ f.x <= x /\ x < f.x + f.w /\ f.y <= y /\ y < f.y + f.h
        /\ f.x \in Nat /\ f.y \in Nat /\ f.w \in Nat /\ f.h \in Nat
    BY <1>1, <1>4, <1>7, InIs DEF Framed
  <2>2. /\ Left(S) <= f.x /\ f.x + f.w <= Right(S)
        /\ Top(S) <= f.y /\ f.y + f.h <= Bottom(S)
        /\ Left(S) \in Nat /\ Right(S) \in Nat /\ Top(S) \in Nat /\ Bottom(S) \in Nat
    BY <1>1, BoxAround
  <2> QED BY <1>4, <2>1, <2>2
<1>8. ASSUME Opaque(First(S), S), <<x, y>> \in Area PROVE In(First(S), x, y)
  <2> DEFINE g == First(S)
  <2>1. /\ g.x = Left(S) /\ g.y = Top(S)
        /\ g.w >= Right(S) - g.x /\ g.h >= Bottom(S) - g.y
    BY <1>8 DEF Opaque
  <2>2. Left(S) \in Nat /\ Right(S) \in Nat /\ Top(S) \in Nat /\ Bottom(S) \in Nat
    BY <1>1, BoxAround
  <2>3. Left(S) <= x /\ x < Right(S) /\ Top(S) <= y /\ y < Bottom(S)
    BY <1>4, <1>8, <2>2
  <2>4. g.w \in Nat /\ g.h \in Nat
    BY <1>1, <1>5 DEF Framed
  <2> HIDE DEF g
  <2>5. g.x <= x /\ x < g.x + g.w /\ g.y <= y /\ y < g.y + g.h
    BY <1>4, <2>1, <2>2, <2>3, <2>4
  <2> QED BY <1>1, <1>4, <1>5, <2>5, InIs DEF g
<1> HIDE DEF Area
<1>9. CASE Moving(capacity, x, y)
  <2> DEFINE f == CHOOSE f \in S : In(f, x, y)
  <2>1. \E h \in S : In(h, x, y)
    BY <1>3, <1>9
  <2>2. f \in S /\ In(f, x, y)
    BY <2>1
  <2>3. <<x, y>> \in Area
    BY <1>7, <2>2
  <2>4. Composed(S)[<<x, y>>] = f.show
    BY <1>6, <2>1, <2>3
  <2> HIDE DEF f
  <2> QED BY <1>2, <1>3, <1>9, <2>2, <2>3, <2>4 DEF S
<1>10. CASE ~Moving(capacity, x, y)
  <2>1. ~ \E f \in S : In(f, x, y)
    BY <1>3, <1>10
  <2>2. <<x, y>> \in Area => ~Opaque(First(S), S)
    BY <1>5, <1>8, <2>1
  <2> QED BY <1>2, <1>6, <1>10, <2>1, <2>2 DEF S
<1> QED BY <1>9, <1>10

-----------------------------------------------------------------------------
(* The screen.                                                             *)

\* Where the monitor and the painter can be.
Where ==
  /\ pc \in {"idle", "encode", "compose", "commit", "bake"}
  /\ capacity \in Capacities \cup {NoCapacity}
  /\ frame = Still \/ (frame \in Nat /\ Charging)
  /\ pc = "encode" => frame = Still
  /\ pc = "bake" => capacity = NoCapacity

\* The list that is being made, or was handed to the painter last, is that of
\* the last reading.
LastList ==
  /\ pc \in {"encode", "compose", "commit"} \/ capacity # NoCapacity
       => job = "screen" /\ pixels = Picture(capacity)
  /\ pc \in {"compose", "commit"} \/ (pc = "idle" /\ capacity # NoCapacity)
       => status = "encoded"

\* What the screen shows at a place.
Shows(c, f, x, y) ==
  /\ screen[<<x, y>>].color = ShownColor(c, x, y)
  /\ IF f # Still /\ Moving(c, x, y)
     THEN f = Torn \/ screen[<<x, y>>].frame = f
     ELSE screen[<<x, y>>].frame = Still

\* Somebody has drawn what is on the screen.
NoJunk ==
  /\ screen = [p \in Place |-> screen[p]]
  /\ \A p \in Place : screen[p] # Junk

\* The surface that is being committed: all of the picture, or what moves and
\* what was there before.  Above the line the screen is the surface.
SurfaceIs == pc = "commit" =>
  /\ Commands # {}
  /\ DOMAIN surface = (Left(Commands) .. Right(Commands) - 1)
                        \X (Top(Commands) .. Bottom(Commands) - 1)
  /\ line \in Top(Commands) .. Bottom(Commands)
  /\ \A x \in FbCols, y \in FbRows :
       /\ frame = Still =>
            /\ <<x, y>> \in DOMAIN surface
            /\ surface[<<x, y>>] = Exactly(capacity, x, y, Still)
            /\ y < line => screen[<<x, y>>] = surface[<<x, y>>]
       /\ frame # Still /\ Moving(capacity, x, y) =>
            /\ <<x, y>> \in DOMAIN surface
            /\ surface[<<x, y>>] = Exactly(capacity, x, y, frame)
       /\ frame # Still /\ ~Moving(capacity, x, y) /\ <<x, y>> \in DOMAIN surface =>
            surface[<<x, y>>] = screen[<<x, y>>]

Showing == [capacity : Capacities \cup {NoCapacity}, frame : Int, whole : BOOLEAN]

\* What is known about the screen while no row has been committed, and while
\* the rows of a frame are.
ScreenIs ==
  /\ shown \in Showing
  /\ shown.whole /\ (pc = "commit" => line = Top(Commands)) =>
       \A x \in FbCols, y \in FbRows : Shows(shown.capacity, shown.frame, x, y)
  /\ shown.whole /\ pc = "commit" /\ frame # Still /\ shown.capacity = capacity =>
       \A x \in FbCols, y \in FbRows :
         IF Moving(capacity, x, y) /\ y < line
         THEN screen[<<x, y>>] = Exactly(capacity, x, y, frame)
         ELSE Shows(capacity, shown.frame, x, y)

PaintInv == Where /\ LastList /\ NoJunk /\ SurfaceIs /\ ScreenIs

\* The list stays while neither the picture nor the rectangles change.
LEMMA CommandsKept == UNCHANGED <<evars, picture>> => Commands' = Commands
BY DEF evars, picture, Commands, Clear, Moved, Fill, AnimationFrame, Bands,
       InBattery, ChargeColor

\* Encoding goes on with the picture it was begun with.
LEMMA EncodeKeeps ==
  ASSUME Encode
  PROVE  job' = job /\ pixels' = pixels /\ status = "scan"
BY DEF Encode, ScreenRow, ScreenEnd, FrameRow, FrameEnd

\* The places of the monitor, and whose list it is.
LEMMA PlacesStep ==
  ASSUME Where, LastList, [SNext]_svars
  PROVE  Where' /\ LastList'
<1> USE DEF Where, LastList, Charging
<1>1. CASE UNCHANGED svars
  BY <1>1 DEF svars, evars, picture
<1>2. ASSUME NEW c \in Capacities, Render(c) PROVE Where' /\ LastList'
  <2>1. /\ pc' = "encode" /\ capacity' = c /\ frame' = Still
        /\ job' = "screen" /\ pixels' = Picture(c)
    BY <1>2 DEF Render, Begin
  <2> QED BY <2>1
<1>3. ASSUME NEW f \in 0 .. Frames - 1, Animate(f) PROVE Where' /\ LastList'
  <2>1. f \in Nat
    BY ScreenAssumption
  <2> QED BY <1>3, <2>1 DEF Animate, evars
<1>4. ASSUME NEW j, NEW p, DrawArtwork(j, p) PROVE Where' /\ LastList'
  BY <1>4 DEF DrawArtwork, picture
<1>5. CASE NewCanvas
  BY <1>5 DEF NewCanvas, picture
<1>6. CASE Encoding
  BY <1>6, EncodeKeeps DEF Encoding, picture
<1>7. CASE Paint
  BY <1>7 DEF Paint, evars, picture
<1>8. CASE Compose \/ CommitLine \/ Blank
  BY <1>8 DEF Compose, CommitLine, Blank, evars, picture
<1>9. CASE Painted \/ Failed
  BY <1>9 DEF Painted, Failed, evars, picture
<1> QED BY <1>1, <1>2, <1>3, <1>4, <1>5, <1>6, <1>7, <1>8, <1>9 DEF SNext

\* The list of a painter at work: that of the whole picture or of a frame.
LEMMA AtWork ==
  ASSUME EInv, Fits, Where, LastList, pc \in {"compose", "commit"}
  PROVE  /\ Listed
         /\ frame = Still \/ (frame \in Nat /\ Charging)
         /\ Framed(Commands)
<1>1. Listed /\ (frame = Still \/ (frame \in Nat /\ Charging))
  BY DEF Listed, Where, LastList
<1> QED BY <1>1, WholeList, FrameList

\* A point of the framebuffer.
LEMMA PlaceIs ==
  /\ \A x \in FbCols, y \in FbRows :
       <<x, y>> \in Place /\ <<x, y>>[1] = x /\ <<x, y>>[2] = y
  /\ \A p \in Place : p[1] \in FbCols /\ p[2] \in FbRows /\ p = <<p[1], p[2]>>
BY DEF Place

\* No colour of the picture is junk's.
LEMMA NotJunk ==
  ASSUME NEW c, NEW x \in FbCols, NEW y \in FbRows, NEW f
  PROVE  Exactly(c, x, y, f) # Junk
<1>1. ShownColor(c, x, y) \in Colors
  BY PictureIs, ColorAssumption DEF ShownColor, Pictures
<1> QED BY <1>1, ScreenAssumption DEF Exactly, Junk

\* The painter begins.
LEMMA ComposeStep ==
  ASSUME EInv, Fits, PaintInv, Compose
  PROVE  NoJunk' /\ SurfaceIs' /\ ScreenIs'
<1>1. /\ Listed /\ (frame = Still \/ (frame \in Nat /\ Charging))
      /\ Framed(Commands) /\ Commands # {}
  BY AtWork DEF PaintInv, Compose
<1>2. Commands' = Commands
  BY CommandsKept DEF Compose
<1>3. /\ pc = "compose" /\ pc' = "commit" /\ surface' = Composed(Commands)
      /\ line' = Top(Commands) /\ frame' = frame /\ capacity' = capacity
      /\ screen' = screen /\ shown' = shown
  BY DEF Compose, picture
<1>4. NoJunk'
  BY <1>3 DEF PaintInv, NoJunk
<1>5. /\ Top(Commands) \in Nat /\ Bottom(Commands) \in Nat
      /\ Top(Commands) < Bottom(Commands)
  BY <1>1, BoxAround
<1>6. /\ DOMAIN surface' = (Left(Commands) .. Right(Commands) - 1)
                              \X (Top(Commands) .. Bottom(Commands) - 1)
      /\ line' \in Top(Commands) .. Bottom(Commands)
  BY <1>3, <1>5 DEF Composed
<1>7. ASSUME NEW x \in FbCols, NEW y \in FbRows
      PROVE  /\ frame = Still =>
                  /\ <<x, y>> \in DOMAIN surface'
                  /\ surface'[<<x, y>>] = Exactly(capacity, x, y, Still)
                  /\ ~ (y < line')
             /\ frame # Still /\ Moving(capacity, x, y) =>
                  /\ <<x, y>> \in DOMAIN surface'
                  /\ surface'[<<x, y>>] = Exactly(capacity, x, y, frame)
             /\ frame # Still /\ ~Moving(capacity, x, y)
                  /\ <<x, y>> \in DOMAIN surface' =>
                  surface'[<<x, y>>] = screen[<<x, y>>]
  <2>1. CASE frame = Still
    <3>1. Top(Commands) = 0 /\ y \in Nat
      BY <1>1, <2>1, WholeList, FbIs
    <3> QED BY <1>1, <1>3, <2>1, <3>1, WholeComposed
  <2>2. CASE frame # Still
    BY <1>1, <1>3, <2>2, FrameComposed
  <2> QED BY <2>1, <2>2
<1>8. SurfaceIs'
  BY <1>1, <1>2, <1>3, <1>6, <1>7 DEF SurfaceIs
<1>9. ASSUME shown.whole, NEW x \in FbCols, NEW y \in FbRows
      PROVE  Shows(shown.capacity, shown.frame, x, y)
  BY <1>3, <1>9 DEF PaintInv, ScreenIs
<1>10. /\ shown' \in Showing
       /\ capacity' = capacity
  BY <1>3 DEF PaintInv, ScreenIs
<1>11. ASSUME frame # Still, NEW x \in FbCols, NEW y \in FbRows, Moving(capacity, x, y)
       PROVE  ~ (y < line')
  <2>1. <<x, y>> \in DOMAIN surface'
    BY <1>7, <1>11
  <2>2. y \in Top(Commands) .. Bottom(Commands) - 1
    BY <1>6, <2>1
  <2> QED BY <1>3, <1>5, <2>2
<1>12. ASSUME shown'.whole, NEW x \in FbCols, NEW y \in FbRows
       PROVE  Shows(shown.capacity, shown.frame, x, y)'
  BY <1>3, <1>9, <1>12 DEF Shows
<1>13. ScreenIs'
  BY <1>3, <1>10, <1>11, <1>12 DEF ScreenIs
<1> QED BY <1>4, <1>8, <1>13

\* A row is committed.
LEMMA CommitStep ==
  ASSUME EInv, Fits, PaintInv, CommitLine
  PROVE  NoJunk' /\ SurfaceIs' /\ ScreenIs'
<1>1. /\ Listed /\ (frame = Still \/ (frame \in Nat /\ Charging))
      /\ Framed(Commands)
  BY AtWork DEF PaintInv, CommitLine
<1>2. Commands' = Commands
  BY CommandsKept DEF CommitLine
<1>3. /\ pc = "commit" /\ pc' = "commit" /\ surface' = surface
      /\ line' = line + 1 /\ frame' = frame /\ capacity' = capacity
      /\ shown' = shown /\ line \in Lines
      /\ screen' = [p \in DOMAIN screen |->
           IF p \in DOMAIN surface /\ p[2] = line THEN surface[p] ELSE screen[p]]
  BY DEF CommitLine, picture
<1>4. /\ Commands # {}
      /\ DOMAIN surface = (Left(Commands) .. Right(Commands) - 1)
                            \X (Top(Commands) .. Bottom(Commands) - 1)
      /\ line \in Top(Commands) .. Bottom(Commands)
  BY <1>3 DEF PaintInv, SurfaceIs
<1>5. /\ Top(Commands) \in Nat /\ Bottom(Commands) \in Nat
      /\ Top(Commands) < Bottom(Commands)
  BY <1>1, <1>4, BoxAround
<1>6. line \in Top(Commands) .. Bottom(Commands) - 1
  BY <1>3, <1>4 DEF Lines
<1>7. DOMAIN screen = Place
  BY DEF PaintInv, NoJunk
<1>8. /\ screen' = [p \in Place |-> screen'[p]]
      /\ \A p \in Place : screen'[p] =
           IF p \in DOMAIN surface /\ p[2] = line THEN surface[p] ELSE screen[p]
  BY <1>3, <1>7
<1>9. ASSUME NEW x \in FbCols, NEW y \in FbRows
      PROVE  /\ screen'[<<x, y>>] = IF <<x, y>> \in DOMAIN surface /\ y = line
                                     THEN surface[<<x, y>>] ELSE screen[<<x, y>>]
             /\ y \in Nat
  BY <1>8, PlaceIs, FbIs
<1>10. ASSUME NEW x \in FbCols, NEW y \in FbRows
       PROVE  /\ frame = Still =>
                   /\ <<x, y>> \in DOMAIN surface
                   /\ surface[<<x, y>>] = Exactly(capacity, x, y, Still)
                   /\ y < line => screen[<<x, y>>] = surface[<<x, y>>]
              /\ frame # Still /\ Moving(capacity, x, y) =>
                   /\ <<x, y>> \in DOMAIN surface
                   /\ surface[<<x, y>>] = Exactly(capacity, x, y, frame)
              /\ frame # Still /\ ~Moving(capacity, x, y)
                   /\ <<x, y>> \in DOMAIN surface =>
                   surface[<<x, y>>] = screen[<<x, y>>]
  BY <1>3 DEF PaintInv, SurfaceIs
<1>11. ASSUME NEW x \in FbCols, NEW y \in FbRows
       PROVE  /\ frame = Still /\ y < line' => screen'[<<x, y>>] = surface[<<x, y>>]
              /\ frame # Still /\ ~Moving(capacity, x, y) =>
                   screen'[<<x, y>>] = screen[<<x, y>>]
              /\ frame # Still /\ Moving(capacity, x, y) /\ y = line =>
                   screen'[<<x, y>>] = Exactly(capacity, x, y, frame)
              /\ y # line => screen'[<<x, y>>] = screen[<<x, y>>]
  BY <1>3, <1>5, <1>6, <1>9, <1>10
<1>12. NoJunk'
  <2> SUFFICES ASSUME NEW p \in Place PROVE screen'[p] # Junk
    BY <1>8 DEF NoJunk
  <2>1. PICK x \in FbCols, y \in FbRows : p = <<x, y>>
    BY DEF Place
  <2>2. screen[p] # Junk
    BY DEF PaintInv, NoJunk
  <2>3. \/ surface[p] = Exactly(capacity, x, y, Still)
        \/ surface[p] = Exactly(capacity, x, y, frame)
        \/ surface[p] = screen[p] \/ p \notin DOMAIN surface
    BY <1>10, <2>1
  <2> QED BY <1>9, <2>1, <2>2, <2>3, NotJunk
<1>13. SurfaceIs'
  <2>1. line' \in Top(Commands) .. Bottom(Commands)
    BY <1>3, <1>5, <1>6
  <2> QED BY <1>2, <1>3, <1>4, <1>10, <1>11, <2>1 DEF SurfaceIs
<1>14. ScreenIs'
  <2>1. shown' \in Showing
    BY <1>3 DEF PaintInv, ScreenIs
  <2>2. line' # Top(Commands)
    BY <1>3, <1>5, <1>6
  <2>3. ASSUME shown.whole, frame # Still, shown.capacity = capacity,
               NEW x \in FbCols, NEW y \in FbRows
        PROVE  IF Moving(capacity, x, y) /\ y < line'
               THEN screen'[<<x, y>>] = Exactly(capacity, x, y, frame)
               ELSE Shows(capacity, shown.frame, x, y)'
    <3>1. IF Moving(capacity, x, y) /\ y < line
          THEN screen[<<x, y>>] = Exactly(capacity, x, y, frame)
          ELSE Shows(capacity, shown.frame, x, y)
      BY <1>3, <2>3 DEF PaintInv, ScreenIs
    <3>2. CASE Moving(capacity, x, y) /\ y = line
      BY <1>3, <1>6, <1>11, <2>3, <3>2
    <3>3. CASE Moving(capacity, x, y) /\ y # line
      <4>1. screen'[<<x, y>>] = screen[<<x, y>>] /\ (y < line' <=> y < line)
        BY <1>3, <1>5, <1>6, <1>9, <1>11, <3>3
      <4> QED BY <1>3, <3>1, <3>3, <4>1 DEF Shows
    <3>4. CASE ~Moving(capacity, x, y)
      <4>1. screen'[<<x, y>>] = screen[<<x, y>>]
        BY <1>11, <2>3, <3>4
      <4> QED BY <1>3, <3>1, <3>4, <4>1 DEF Shows
    <3> QED BY <3>2, <3>3, <3>4
  <2> QED BY <1>2, <1>3, <2>1, <2>2, <2>3 DEF ScreenIs
<1> QED BY <1>12, <1>13, <1>14

\* The lines of a surface.
LEMMA LinesAre ==
  ASSUME EInv, Fits, PaintInv, pc = "commit"
  PROVE  /\ Lines = Top(Commands) .. Bottom(Commands) - 1
         /\ Least(Lines) = Top(Commands)
         /\ Top(Commands) \in Nat /\ Bottom(Commands) \in Nat
         /\ Top(Commands) < Bottom(Commands)
         /\ line \in Top(Commands) .. Bottom(Commands)
<1> DEFINE L == Left(Commands)  R == Right(Commands)
           T == Top(Commands)   B == Bottom(Commands)
<1>1. Commands # {} /\ Framed(Commands)
  BY AtWork DEF PaintInv, SurfaceIs
<1>2. L \in Nat /\ R \in Nat /\ L < R /\ T \in Nat /\ B \in Nat /\ T < B
  BY <1>1, BoxAround
<1>3. DOMAIN surface = (L .. R - 1) \X (T .. B - 1) /\ line \in T .. B
  BY DEF PaintInv, SurfaceIs
<1> HIDE DEF L, R, T, B
<1>4. \A y \in T .. B - 1 : <<L, y>> \in DOMAIN surface /\ <<L, y>>[2] = y
  BY <1>2, <1>3
<1>5. Lines = T .. B - 1
  BY <1>3, <1>4 DEF Lines
<1>6. T .. B - 1 \in SUBSET Nat /\ T \in T .. B - 1
  BY <1>2
<1>7. Least(T .. B - 1) \in T .. B - 1 /\ \A m \in T .. B - 1 : Least(T .. B - 1) <= m
  <2> DEFINE S == T .. B - 1
  <2>1. S \in SUBSET Nat /\ S # {}
    BY <1>6
  <2> HIDE DEF S
  <2>2. Least(S) \in S /\ \A m \in S : Least(S) <= m
    BY <2>1, LeastIs
  <2> QED BY <2>2 DEF S
<1>8. Least(T .. B - 1) = T
  BY <1>2, <1>6, <1>7
<1> QED BY <1>2, <1>3, <1>5, <1>8 DEF T, B

\* All rows have been committed.
LEMMA PaintedStep ==
  ASSUME EInv, Fits, PaintInv, Painted
  PROVE  NoJunk' /\ SurfaceIs' /\ ScreenIs'
<1>1. /\ Listed /\ (frame = Still \/ (frame \in Nat /\ Charging))
  BY AtWork DEF PaintInv, Painted
<1>2. /\ pc = "commit" /\ pc' = "idle" /\ screen' = screen /\ line \notin Lines
      /\ shown' = IF frame = Still
                  THEN [capacity |-> capacity, frame |-> Still, whole |-> TRUE]
                  ELSE IF shown.whole /\ shown.capacity = capacity
                  THEN [shown EXCEPT !.frame = frame] ELSE Unknown
  BY DEF Painted
<1>3. /\ shown \in Showing
      /\ capacity \in Capacities \cup {NoCapacity}
  BY DEF PaintInv, ScreenIs, Where
<1>4. line = Bottom(Commands) /\ Bottom(Commands) \in Nat
  BY <1>2, LinesAre
<1>5. NoJunk' /\ SurfaceIs'
  BY <1>2 DEF PaintInv, NoJunk, SurfaceIs
<1>6. shown' \in Showing
  <2>1. Unknown \in Showing
    BY DEF Unknown, Still, Showing
  <2>2. CASE frame = Still
    BY <1>2, <1>3, <2>2 DEF Still, Showing
  <2>3. CASE frame # Still
    BY <1>1, <1>2, <1>3, <2>1, <2>3 DEF Showing
  <2> QED BY <2>2, <2>3
<1>7. ASSUME shown'.whole, NEW x \in FbCols, NEW y \in FbRows
      PROVE  Shows(shown.capacity, shown.frame, x, y)'
  <2>1. CASE frame = Still
    <3>1. /\ screen[<<x, y>>] = Exactly(capacity, x, y, Still)
      <4>1. y < line
        BY <1>1, <1>4, <2>1, WholeList, FbIs
      <4> QED BY <1>2, <2>1, <4>1 DEF PaintInv, SurfaceIs
    <3>2. shown'.capacity = capacity /\ shown'.frame = Still
      BY <1>2, <2>1
    <3> QED BY <1>2, <3>1, <3>2 DEF Shows, Exactly
  <2>2. CASE frame # Still
    <3>1. shown.whole /\ shown.capacity = capacity
      BY <1>2, <1>7, <2>2 DEF Unknown
    <3>2. shown'.capacity = capacity /\ shown'.frame = frame
      BY <1>2, <1>3, <2>2, <3>1
    <3>3. IF Moving(capacity, x, y) /\ y < line
          THEN screen[<<x, y>>] = Exactly(capacity, x, y, frame)
          ELSE Shows(capacity, shown.frame, x, y)
      BY <1>2, <2>2, <3>1 DEF PaintInv, ScreenIs
    <3>4. Moving(capacity, x, y) => y < line
      <4> SUFFICES ASSUME Moving(capacity, x, y) PROVE y < line
        OBVIOUS
      <4>1. /\ <<x, y>> \in DOMAIN surface
            /\ DOMAIN surface = (Left(Commands) .. Right(Commands) - 1)
                                  \X (Top(Commands) .. Bottom(Commands) - 1)
        BY <1>2, <2>2 DEF PaintInv, SurfaceIs
      <4>2. y \in Top(Commands) .. Bottom(Commands) - 1
        BY <4>1
      <4>3. Top(Commands) \in Nat
        BY <1>2, LinesAre
      <4> QED BY <1>4, <4>2, <4>3
    <3>5. CASE Moving(capacity, x, y)
      BY <1>2, <2>2, <3>2, <3>3, <3>4, <3>5 DEF Shows, Exactly
    <3>6. CASE ~Moving(capacity, x, y)
      BY <1>2, <2>2, <3>2, <3>3, <3>6 DEF Shows
    <3> QED BY <3>5, <3>6
  <2> QED BY <2>1, <2>2
<1>8. ScreenIs'
  BY <1>2, <1>6, <1>7 DEF ScreenIs
<1> QED BY <1>5, <1>8

\* The painter gives up, before or between two rows.
LEMMA FailedStep ==
  ASSUME EInv, Fits, PaintInv, Failed
  PROVE  NoJunk' /\ SurfaceIs' /\ ScreenIs'
<1>1. /\ pc \in {"compose", "commit"} /\ pc' = "idle" /\ screen' = screen
      /\ shown' = IF pc = "compose" \/ line = Least(Lines) THEN shown
                  ELSE IF frame = Still \/ shown.capacity # capacity THEN Unknown
                  ELSE [shown EXCEPT !.frame = Torn]
  BY DEF Failed
<1>2. shown \in Showing
  BY DEF PaintInv, ScreenIs
<1>3. NoJunk' /\ SurfaceIs'
  BY <1>1 DEF PaintInv, NoJunk, SurfaceIs
<1>4. CASE shown' = shown /\ (pc = "commit" => line = Top(Commands))
  <2>1. ASSUME shown'.whole, NEW x \in FbCols, NEW y \in FbRows
        PROVE  Shows(shown.capacity, shown.frame, x, y)'
    <3>1. Shows(shown.capacity, shown.frame, x, y)
      BY <1>4, <2>1 DEF PaintInv, ScreenIs
    <3> QED BY <1>1, <1>4, <3>1 DEF Shows
  <2> QED BY <1>1, <1>2, <1>3, <1>4, <2>1 DEF ScreenIs
<1>5. CASE shown' = Unknown
  <2>1. Unknown \in Showing
    BY DEF Unknown, Still, Showing
  <2>2. ~shown'.whole
    BY <1>5 DEF Unknown
  <2> QED BY <1>3, <1>5, <2>1, <2>2 DEF ScreenIs
<1>6. CASE /\ pc = "commit" /\ frame # Still /\ shown.capacity = capacity
           /\ shown' = [shown EXCEPT !.frame = Torn]
  <2>1. /\ shown' \in Showing
        /\ shown'.capacity = capacity /\ shown'.frame = Torn
        /\ shown'.whole = shown.whole
    BY <1>2, <1>6 DEF Torn, Showing
  <2>2. ASSUME shown'.whole, NEW x \in FbCols, NEW y \in FbRows
        PROVE  Shows(shown.capacity, shown.frame, x, y)'
    <3>1. IF Moving(capacity, x, y) /\ y < line
          THEN screen[<<x, y>>] = Exactly(capacity, x, y, frame)
          ELSE Shows(capacity, shown.frame, x, y)
      BY <1>6, <2>1, <2>2 DEF PaintInv, ScreenIs
    <3>2. Torn # Still
      BY DEF Torn, Still
    <3> QED BY <1>1, <2>1, <3>1, <3>2 DEF Shows, Exactly
  <2> QED BY <1>1, <1>3, <2>1, <2>2 DEF ScreenIs
<1>7. pc = "commit" => Least(Lines) = Top(Commands)
  BY LinesAre
<1> QED BY <1>1, <1>4, <1>5, <1>6, <1>7

\* The monitor, and the program that bakes, do not touch the screen.
LEMMA OtherStep ==
  ASSUME PaintInv, pc # "commit", pc' # "commit", screen' = screen, shown' = shown
  PROVE  NoJunk' /\ SurfaceIs' /\ ScreenIs'
<1>1. ASSUME shown.whole, NEW x \in FbCols, NEW y \in FbRows
      PROVE  Shows(shown.capacity, shown.frame, x, y)'
  <2>1. Shows(shown.capacity, shown.frame, x, y)
    BY <1>1 DEF PaintInv, ScreenIs
  <2> QED BY <2>1 DEF Shows
<1> QED BY <1>1 DEF PaintInv, NoJunk, SurfaceIs, ScreenIs

\* Every step keeps what is known about the screen.
LEMMA PaintStep ==
  ASSUME EInv, Fits, PaintInv, [SNext]_svars
  PROVE  PaintInv'
<1>1. Where' /\ LastList'
  BY PlacesStep DEF PaintInv
<1> SUFFICES NoJunk' /\ SurfaceIs' /\ ScreenIs'
  BY <1>1 DEF PaintInv
<1>2. ASSUME UNCHANGED <<evars, picture, pc, painter>>
      PROVE  NoJunk' /\ SurfaceIs' /\ ScreenIs'
  <2>1. /\ Commands' = Commands /\ pc' = pc /\ surface' = surface /\ line' = line
        /\ screen' = screen /\ shown' = shown /\ capacity' = capacity /\ frame' = frame
    BY <1>2, CommandsKept DEF painter, picture
  <2> QED BY <2>1 DEF PaintInv, NoJunk, SurfaceIs, ScreenIs, Shows
<1>3. CASE UNCHANGED svars
  BY <1>2, <1>3 DEF svars
<1>4. CASE Blank
  BY <1>2, <1>4 DEF Blank
<1>5. ASSUME NEW c \in Capacities, Render(c) PROVE NoJunk' /\ SurfaceIs' /\ ScreenIs'
  BY <1>5, OtherStep DEF Render, painter
<1>6. ASSUME NEW f \in 0 .. Frames - 1, Animate(f)
      PROVE  NoJunk' /\ SurfaceIs' /\ ScreenIs'
  BY <1>6, OtherStep DEF Animate, painter
<1>7. ASSUME NEW j, NEW p, DrawArtwork(j, p) PROVE NoJunk' /\ SurfaceIs' /\ ScreenIs'
  BY <1>7, OtherStep DEF DrawArtwork, painter
<1>8. CASE NewCanvas \/ Encoding \/ Paint
  BY <1>8, OtherStep DEF NewCanvas, Encoding, Paint, painter
<1> QED BY <1>3, <1>4, <1>5, <1>6, <1>7, <1>8, ComposeStep, CommitStep,
           PaintedStep, FailedStep DEF SNext

\* Nothing is known about the screen at first, and nothing claimed.
LEMMA PaintInit == SInit => Fits /\ PaintInv
<1> SUFFICES ASSUME SInit PROVE Fits /\ PaintInv
  OBVIOUS
<1>1. /\ capacity = NoCapacity /\ frame = Still /\ shown = Unknown
      /\ pc \in {"idle", "bake"} /\ Filled = {}
      /\ screen = [p \in Place |-> Console]
  BY DEF SInit, Filled, Place
<1>2. Console # Junk
  BY DEF Console, Junk
<1>3. NoJunk
  BY <1>1, <1>2 DEF NoJunk
<1>4. Fits /\ Where /\ LastList /\ SurfaceIs
  BY <1>1 DEF Fits, Where, LastList, SurfaceIs
<1>5. ScreenIs
  BY <1>1 DEF ScreenIs, Unknown, Still, Showing
<1> QED BY <1>3, <1>4, <1>5 DEF PaintInv

\* Between two painters the screen shows the picture of the last reading to
\* the pixel, all that moves is at one and the same frame, and nothing that
\* no painter drew ever reaches the scanout, whichever painter fails where:
\* Display.render, Display.animate and the painter's commit_surface.
THEOREM ScreenTrueHolds == SSpec => []ScreenTrue
<1>1. PaintInv => ScreenTrue
  <2> SUFFICES ASSUME PaintInv PROVE ScreenTrue
    OBVIOUS
  <2>1. Junk \notin {screen[p] : p \in DOMAIN screen}
    BY DEF PaintInv, NoJunk
  <2>2. ASSUME pc = "idle", shown.whole, NEW x \in FbCols, NEW y \in FbRows
        PROVE  Shows(shown.capacity, shown.frame, x, y)
    BY <2>2 DEF PaintInv, ScreenIs
  <2> QED BY <2>1, <2>2 DEF ScreenTrue, Shows
<1>2. EInv /\ Fits /\ PaintInv /\ [SNext]_svars => (EInv /\ Fits /\ PaintInv)'
  BY NextInv, FitsStep, PaintStep
<1>3. SInit => EInv /\ Fits /\ PaintInv
  BY InitInv, PaintInit
<1> QED BY <1>1, <1>2, <1>3, PTL DEF SSpec
=============================================================================
