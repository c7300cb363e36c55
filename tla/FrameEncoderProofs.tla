------------------------- MODULE FrameEncoderProofs -------------------------
(***************************************************************************)
(* The encoder draws exactly the picture and draws no pixel twice, for     *)
(* every size, set of colours and picture.                                 *)
(***************************************************************************)
EXTENDS FrameEncoder, TLAPS, WellFoundedInduction

-----------------------------------------------------------------------------
(* Least and greatest elements, and the box they make.                     *)

\* The least-number principle for sets, from the well-foundedness of <.
LEMMA NatLeast ==
  ASSUME NEW S \in SUBSET Nat, S # {}
  PROVE  \E n \in S : \A m \in S : n <= m
<1> DEFINE R == {ss \in Nat \X Nat : ss[1] < ss[2]}
<1>0. IsWellFoundedOn(R, Nat)
  BY NatLessThanWellFounded DEF OpToRel
<1> HIDE DEF R
<1>1. PICK n \in S : \A m \in S : ~ (<<m, n>> \in R)
  BY <1>0, WFMin
<1>2. \A m \in S : <<m, n>> \in R <=> m < n
  BY DEF R
<1>3. \A m \in S : ~ (m < n)
  BY <1>1, <1>2
<1>4. \A m \in S : n <= m
  BY <1>3
<1> QED BY <1>4

\* A bounded set of numbers has a greatest one: the least distance from the
\* bound.
LEMMA NatGreatest ==
  ASSUME NEW S \in SUBSET Nat, S # {}, NEW b \in Nat, \A m \in S : m <= b
  PROVE  \E n \in S : \A m \in S : m <= n
<1> DEFINE T == {b - m : m \in S}
<1>0. \A m \in S : b - m \in Nat
  OBVIOUS
<1>1. T \in SUBSET Nat /\ T # {}
  BY <1>0
<1>2. PICK k \in T : \A m \in T : k <= m
  BY <1>1, NatLeast
<1>3. PICK n \in S : k = b - n
  BY <1>2
<1>4. \A m \in S : k <= b - m
  BY <1>2
<1>5. \A m \in S : m <= n
  BY <1>3, <1>4
<1> QED BY <1>5

\* Least and Greatest choose such elements.
LEMMA LeastIs ==
  ASSUME NEW S \in SUBSET Nat, S # {}
  PROVE  Least(S) \in S /\ \A m \in S : Least(S) <= m
BY NatLeast DEF Least

LEMMA GreatestIs ==
  ASSUME NEW S \in SUBSET Nat, S # {}, NEW b \in Nat, \A m \in S : m <= b
  PROVE  Greatest(S) \in S /\ \A m \in S : m <= Greatest(S)
BY NatGreatest DEF Greatest

\* The box lies in the picture and holds everything that is drawn.
BoxHolds(b, p) ==
  /\ b.left \in Nat /\ b.right \in Nat /\ b.top \in Nat /\ b.bottom \in Nat
  /\ b.left < b.right /\ b.right <= Width
  /\ b.top < b.bottom /\ b.bottom <= Height
  /\ \A x \in Cols, y \in Rows : p[x][y] # Background =>
       b.left <= x /\ x < b.right /\ b.top <= y /\ y < b.bottom

LEMMA BoxOfHolds ==
  ASSUME NEW j \in Jobs, NEW p \in Pictures, j # "screen" => Drawn(p)
  PROVE  BoxHolds(BoxOf(j, p), p)
<1>1. CASE j = "screen"
  BY <1>1, SizeAssumption DEF BoxHolds, BoxOf, Whole, Cols, Rows
<1>2. CASE j # "screen"
  <2> DEFINE X == InkedCols(p)  Y == InkedRows(p)
  <2>1. X \in SUBSET Nat /\ X # {} /\ \A x \in X : x <= Width - 1
    BY <1>2, SizeAssumption DEF Drawn, InkedCols, Cols, Rows
  <2>2. Y \in SUBSET Nat /\ Y # {} /\ \A y \in Y : y <= Height - 1
    <3>1. Y \in SUBSET Nat /\ \A y \in Y : y <= Height - 1
      BY SizeAssumption DEF InkedRows, Rows
    <3>2. PICK x \in Cols, y \in Rows : p[x][y] # Background
      BY <1>2 DEF Drawn
    <3>3. y \in Y
      BY <3>2 DEF InkedRows
    <3> QED BY <3>1, <3>3
  <2>3. Width - 1 \in Nat /\ Height - 1 \in Nat
    BY SizeAssumption
  <2>4. \A x \in Cols, y \in Rows : p[x][y] # Background => x \in X /\ y \in Y
    BY DEF InkedCols, InkedRows
  <2> HIDE DEF X, Y
  <2>5. Least(X) \in X /\ \A m \in X : Least(X) <= m
    BY <2>1, LeastIs
  <2>6. Greatest(X) \in X /\ \A m \in X : m <= Greatest(X)
    BY <2>1, <2>3, GreatestIs
  <2>7. Least(Y) \in Y /\ \A m \in Y : Least(Y) <= m
    BY <2>2, LeastIs
  <2>8. Greatest(Y) \in Y /\ \A m \in Y : m <= Greatest(Y)
    BY <2>2, <2>3, GreatestIs
  <2>9. BoxOf(j, p) = [left |-> Least(X), top |-> Least(Y),
                       right |-> Greatest(X) + 1, bottom |-> Greatest(Y) + 1]
    BY <1>2 DEF BoxOf, Inside, X, Y
  <2>10. /\ Least(X) \in Nat /\ Greatest(X) + 1 \in Nat
         /\ Least(X) < Greatest(X) + 1 /\ Greatest(X) + 1 <= Width
    <3>1. /\ Least(X) \in Nat /\ Greatest(X) \in Nat
          /\ Least(X) <= Greatest(X) /\ Greatest(X) <= Width - 1
      BY <2>1, <2>5, <2>6
    <3> QED BY <3>1, SizeAssumption
  <2>11. /\ Least(Y) \in Nat /\ Greatest(Y) + 1 \in Nat
         /\ Least(Y) < Greatest(Y) + 1 /\ Greatest(Y) + 1 <= Height
    <3>1. /\ Least(Y) \in Nat /\ Greatest(Y) \in Nat
          /\ Least(Y) <= Greatest(Y) /\ Greatest(Y) <= Height - 1
      BY <2>2, <2>7, <2>8
    <3> QED BY <3>1, SizeAssumption
  <2>12. \A x \in Cols, y \in Rows : p[x][y] # Background =>
           /\ Least(X) <= x /\ x < Greatest(X) + 1
           /\ Least(Y) <= y /\ y < Greatest(Y) + 1
    <3> SUFFICES ASSUME NEW x \in Cols, NEW y \in Rows, p[x][y] # Background
                 PROVE  /\ Least(X) <= x /\ x < Greatest(X) + 1
                        /\ Least(Y) <= y /\ y < Greatest(Y) + 1
      OBVIOUS
    <3>1. x \in X /\ y \in Y
      BY <2>4
    <3>2. Least(X) <= x /\ x <= Greatest(X) /\ Least(Y) <= y /\ y <= Greatest(Y)
      BY <3>1, <2>5, <2>6, <2>7, <2>8
    <3>3. x \in Nat /\ y \in Nat /\ Greatest(X) \in Nat /\ Greatest(Y) \in Nat
      BY <3>1, <2>1, <2>2, <2>6, <2>8
    <3> QED BY <3>2, <3>3
  <2> QED BY <2>9, <2>10, <2>11, <2>12 DEF BoxHolds
<1> QED BY <1>1, <1>2

-----------------------------------------------------------------------------
(* Spans.                                                                  *)

\* Two spans of a row that have a column in common are the same.
LEMMA SpanUnique ==
  ASSUME NEW p \in Pictures, NEW y \in Rows, NEW b, BoxHolds(b, p),
         NEW s \in SpansOf(p, y, b), NEW t \in SpansOf(p, y, b),
         NEW x \in Cols, s.x <= x, x < s.x + s.w, t.x <= x, x < t.x + t.w
  PROVE  s = t
<1>1. /\ s.x \in Nat /\ s.w \in Nat /\ t.x \in Nat /\ t.w \in Nat
      /\ s.x >= b.left /\ t.x >= b.left
      /\ s.x + s.w <= b.right /\ t.x + t.w <= b.right
  BY DEF SpansOf, BoxHolds
<1>2. /\ \A z \in s.x .. s.x + s.w - 1 : p[z][y] = s.color
      /\ \A z \in t.x .. t.x + t.w - 1 : p[z][y] = t.color
      /\ s.x > b.left => p[s.x - 1][y] # s.color
      /\ t.x > b.left => p[t.x - 1][y] # t.color
      /\ s.x + s.w < b.right => p[s.x + s.w][y] # s.color
      /\ t.x + t.w < b.right => p[t.x + t.w][y] # t.color
  BY DEF SpansOf
<1>3. s.color = t.color
  BY <1>1, <1>2 DEF Cols
<1>4. s.x = t.x
  <2>1. ~ (s.x < t.x)
    <3> SUFFICES ASSUME s.x < t.x PROVE FALSE
      OBVIOUS
    <3>1. t.x - 1 \in s.x .. s.x + s.w - 1 /\ t.x > b.left
      BY <1>1 DEF Cols, BoxHolds
    <3> QED BY <3>1, <1>2, <1>3
  <2>2. ~ (t.x < s.x)
    <3> SUFFICES ASSUME t.x < s.x PROVE FALSE
      OBVIOUS
    <3>1. s.x - 1 \in t.x .. t.x + t.w - 1 /\ s.x > b.left
      BY <1>1 DEF Cols, BoxHolds
    <3> QED BY <3>1, <1>2, <1>3
  <2> QED BY <2>1, <2>2, <1>1
<1>5. s.w = t.w
  <2>1. ~ (s.w < t.w)
    <3> SUFFICES ASSUME s.w < t.w PROVE FALSE
      OBVIOUS
    <3>1. s.x + s.w \in t.x .. t.x + t.w - 1 /\ s.x + s.w < b.right
      BY <1>1, <1>4 DEF Cols, BoxHolds
    <3> QED BY <3>1, <1>2, <1>3
  <2>2. ~ (t.w < s.w)
    <3> SUFFICES ASSUME t.w < s.w PROVE FALSE
      OBVIOUS
    <3>1. t.x + t.w \in s.x .. s.x + s.w - 1 /\ t.x + t.w < b.right
      BY <1>1, <1>4 DEF Cols, BoxHolds
    <3> QED BY <3>1, <1>2, <1>3
  <2> QED BY <2>1, <2>2, <1>1
<1>6. /\ s = [x |-> s.x, w |-> s.w, color |-> s.color]
      /\ t = [x |-> t.x, w |-> t.w, color |-> t.color]
  BY DEF SpansOf
<1> QED BY <1>3, <1>4, <1>5, <1>6

\* Every pixel of a row that is drawn is in a span: the longest run of its
\* colour, from the leftmost column it reaches to the rightmost.
LEMMA SpanCovers ==
  ASSUME NEW p \in Pictures, NEW y \in Rows, NEW b, BoxHolds(b, p),
         NEW x \in Cols, p[x][y] # Background
  PROVE  \E s \in SpansOf(p, y, b) : s.x <= x /\ x < s.x + s.w
<1> DEFINE c == p[x][y]
           A == {a \in b.left .. x : \A z \in a .. x : p[z][y] = c}
           B == {e \in x + 1 .. b.right : \A z \in x .. e - 1 : p[z][y] = c}
<1>1. /\ b.left \in Nat /\ b.right \in Nat /\ b.right <= Width
      /\ b.left <= x /\ x < b.right /\ x \in Nat /\ Width \in Nat
  BY SizeAssumption DEF BoxHolds, Cols
<1>2. x \in A /\ x + 1 \in B
  BY <1>1
<1>3. A \in SUBSET Nat /\ B \in SUBSET Nat /\ \A e \in B : e <= b.right
  BY <1>1
<1>4. c \in Colors \ {Background}
  BY DEF Pictures
<1>5. /\ \A a \in A : b.left <= a /\ a <= x /\ \A z \in a .. x : p[z][y] = c
      /\ \A e \in B : x < e /\ e <= b.right /\ \A z \in x .. e - 1 : p[z][y] = c
  BY <1>1
<1>6. \A a \in Nat : b.left <= a /\ a <= x /\ (\A z \in a .. x : p[z][y] = c)
        => a \in A
  BY <1>1
<1>7. \A e \in Nat : x < e /\ e <= b.right /\ (\A z \in x .. e - 1 : p[z][y] = c)
        => e \in B
  BY <1>1
<1> HIDE DEF c, A, B
<1>8. PICK a \in A : \A m \in A : a <= m
  BY <1>2, <1>3, NatLeast
<1>9. PICK e \in B : \A m \in B : m <= e
  BY <1>1, <1>2, <1>3, NatGreatest
<1>10. a \in Nat /\ e \in Nat
  BY <1>3, <1>8, <1>9
<1> DEFINE s == [x |-> a, w |-> e - a, color |-> c]
<1>11. s \in [x : b.left .. b.right - 1, w : 1 .. b.right - b.left,
              color : Colors \ {Background}]
  BY <1>1, <1>4, <1>5, <1>10
<1>12. \A z \in a .. e - 1 : p[z][y] = c
  <2> SUFFICES ASSUME NEW z \in a .. e - 1 PROVE p[z][y] = c
    OBVIOUS
  <2>1. CASE z <= x
    BY <2>1, <1>1, <1>5, <1>10
  <2>2. CASE z > x
    BY <2>2, <1>1, <1>5, <1>10
  <2> QED BY <2>1, <2>2, <1>1, <1>10
<1>13. a > b.left => p[a - 1][y] # c
  <2> SUFFICES ASSUME a > b.left, p[a - 1][y] = c PROVE FALSE
    OBVIOUS
  <2>1. a - 1 \in Nat /\ b.left <= a - 1 /\ a - 1 <= x
    BY <1>1, <1>5, <1>10
  <2>2. \A z \in a - 1 .. x : z = a - 1 \/ z \in a .. x
    BY <1>1, <1>10
  <2>3. \A z \in a - 1 .. x : p[z][y] = c
    BY <2>2, <1>5
  <2>4. a - 1 \in A
    BY <2>1, <2>3, <1>6
  <2> QED BY <2>4, <1>8, <1>10
<1>14. e < b.right => p[e][y] # c
  <2> SUFFICES ASSUME e < b.right, p[e][y] = c PROVE FALSE
    OBVIOUS
  <2>1. e + 1 \in Nat /\ x < e + 1 /\ e + 1 <= b.right
    BY <1>1, <1>5, <1>10
  <2>2. \A z \in x .. (e + 1) - 1 : z = e \/ z \in x .. e - 1
    BY <1>1, <1>10
  <2>3. \A z \in x .. (e + 1) - 1 : p[z][y] = c
    BY <2>2, <1>5
  <2>4. e + 1 \in B
    BY <2>1, <2>3, <1>7
  <2> QED BY <2>4, <1>9, <1>10
<1>15. s.x = a /\ s.w = e - a /\ s.color = c /\ s.x + s.w = e
  BY <1>10
<1>16. s \in SpansOf(p, y, b)
  <2>1. s.x + s.w <= b.right
    BY <1>15, <1>5
  <2>2. \A z \in s.x .. s.x + s.w - 1 : p[z][y] = s.color
    <3>1. s.x .. s.x + s.w - 1 = a .. e - 1
      BY <1>10, <1>15
    <3> HIDE DEF s
    <3> QED BY <3>1, <1>12, <1>15
  <2>3. s.x > b.left => p[s.x - 1][y] # s.color
    BY <1>13, <1>15
  <2>4. s.x + s.w < b.right => p[s.x + s.w][y] # s.color
    BY <1>14, <1>15
  <2> HIDE DEF s
  <2> QED BY <1>11, <2>1, <2>2, <2>3, <2>4 DEF SpansOf
<1>17. s.x <= x /\ x < s.x + s.w
  BY <1>5, <1>15
<1> QED BY <1>16, <1>17

\* What a span is made of.
LEMMA SpanIs ==
  ASSUME NEW p \in Pictures, NEW y \in Rows, NEW b, BoxHolds(b, p),
         NEW s \in SpansOf(p, y, b)
  PROVE  /\ s = [x |-> s.x, w |-> s.w, color |-> s.color]
         /\ s.x \in Cols /\ s.w \in 1 .. Width /\ s.color \in Colors \ {Background}
         /\ \A x \in Cols : s.x <= x /\ x < s.x + s.w => p[x][y] = s.color
<1>1. /\ s.x \in b.left .. b.right - 1 /\ s.w \in 1 .. b.right - b.left
      /\ s.color \in Colors \ {Background}
      /\ s = [x |-> s.x, w |-> s.w, color |-> s.color]
      /\ \A x \in s.x .. s.x + s.w - 1 : p[x][y] = s.color
  BY DEF SpansOf
<1>2. s.x \in Cols /\ s.w \in 1 .. Width
  BY <1>1, SizeAssumption DEF BoxHolds, Cols
<1>3. \A x \in Cols : s.x <= x /\ x < s.x + s.w => x \in s.x .. s.x + s.w - 1
  BY <1>2 DEF Cols
<1> QED BY <1>1, <1>2, <1>3

-----------------------------------------------------------------------------
(* Rectangles.                                                             *)

LEMMA RectangleIs ==
  ASSUME NEW r \in Rectangles
  PROVE  /\ r.x \in Nat /\ r.y \in Nat /\ r.w \in Nat /\ r.h \in Nat
         /\ r.w >= 1 /\ r.h >= 1 /\ r.x \in Cols /\ r.y \in Rows
         /\ r.w <= Width /\ r.h <= Height /\ r.color \in Colors \ {Background}
BY SizeAssumption DEF Rectangles, Cols, Rows

LEMMA CoversIs ==
  ASSUME NEW r \in Rectangles, NEW x \in Cols, NEW y \in Rows
  PROVE  Covers(r, x, y) <=> /\ r.x <= x /\ x < r.x + r.w
                             /\ r.y <= y /\ y < r.y + r.h
BY RectangleIs DEF Covers, Cols, Rows

LEMMA GrownIs ==
  ASSUME NEW r \in Rectangles
  PROVE  /\ Grown(r).x = r.x /\ Grown(r).y = r.y /\ Grown(r).w = r.w
         /\ Grown(r).h = r.h + 1 /\ Grown(r).color = r.color
         /\ Key(Grown(r)) = Key(r)
         /\ r.h + 1 <= Height => Grown(r) \in Rectangles
BY RectangleIs DEF Grown, Key, Rectangles, Cols, Rows

LEMMA StartedIs ==
  ASSUME NEW p \in Pictures, NEW y \in Rows, NEW b, BoxHolds(b, p),
         NEW s \in SpansOf(p, y, b)
  PROVE  /\ Started(s, y) \in Rectangles
         /\ Key(Started(s, y)) = s
         /\ Started(s, y).y = y /\ Started(s, y).h = 1
BY SpanIs, SizeAssumption DEF Started, Rectangle, Rectangles, Key

-----------------------------------------------------------------------------
(* The inductive invariant of the encoder: the rectangles that are active  *)
(* end with the scanline above and are spans of it, the finished ones end  *)
(* further up.                                                             *)

Scanning ==
  status = "scan" =>
    /\ BoxHolds(Box, pixels)
    /\ Box.top <= row /\ row <= Box.bottom

Waiting ==
  \A r \in active :
    /\ r.y + r.h = row
    /\ Key(r) \in Spans(row - 1, Box)

Done == status = "scan" => \A r \in operations : r.y + r.h < row

Emptied == status # "scan" => active = {}

EInv ==
  /\ EncoderTypeOK /\ Scanning /\ Waiting /\ Done /\ Emptied
  /\ Disjoint /\ EncodedExactly /\ Merged

\* One scanline.
LEMMA ScanInv ==
  ASSUME EInv, status = "scan", row < Box.bottom, Scan(row, Box),
         row' = row + 1, job' = job, pixels' = pixels, status' = status
  PROVE  EInv'
<1> DEFINE b == Box
           spans == SpansOf(pixels, row, b)
<1>1. /\ pixels \in Pictures /\ BoxHolds(b, pixels) /\ b.top <= row
      /\ row \in Rows /\ row \in Nat /\ row + 1 <= b.bottom /\ row + 1 <= Height
      /\ active \in SUBSET Rectangles /\ operations \in SUBSET Rectangles
      /\ job \in Jobs
  BY SizeAssumption DEF EInv, EncoderTypeOK, Scanning, Rows, BoxHolds
<1>2. b' = b
  BY DEF Box
<1>3. Spans(row - 1, Box)' = spans
  BY <1>1, <1>2 DEF Spans
<1>4. /\ active' = {Grown(r) : r \in {a \in active : Key(a) \in spans}}
                   \cup {Started(s, row) : s \in spans \ {Key(a) : a \in active}}
      /\ operations' = operations \cup {r \in active : Key(r) \notin spans}
  BY DEF Scan, Spans
<1>5. \A a \in active : a.y + a.h = row /\ Key(a) \in SpansOf(pixels, row - 1, b)
  BY DEF EInv, Waiting, Spans
<1>6. \A o \in operations : o.y + o.h < row
  BY DEF EInv, Done
<1> HIDE DEF b, spans
<1>7. \A s \in spans :
        /\ Started(s, row) \in Rectangles /\ Key(Started(s, row)) = s
        /\ Started(s, row).y = row /\ Started(s, row).h = 1
        /\ s.color \in Colors \ {Background}
        /\ \A x \in Cols : s.x <= x /\ x < s.x + s.w => pixels[x][row] = s.color
  BY <1>1, StartedIs, SpanIs DEF spans
\* A rectangle that goes on.
<1>8. \A a \in active :
        /\ Grown(a) \in Rectangles /\ Key(Grown(a)) = Key(a)
        /\ Grown(a).y = a.y /\ Grown(a).h = a.h + 1
  <2> SUFFICES ASSUME NEW a \in active
               PROVE  /\ Grown(a) \in Rectangles /\ Key(Grown(a)) = Key(a)
                      /\ Grown(a).y = a.y /\ Grown(a).h = a.h + 1
    OBVIOUS
  <2>1. a \in Rectangles /\ a.y + a.h = row
    BY <1>1, <1>5
  <2>2. a.h + 1 <= Height
    BY <2>1, <1>1, RectangleIs, SizeAssumption
  <2> QED BY <2>1, <2>2, GrownIs
\* Where a rectangle of the next state comes from.
<1> DEFINE Kept(r) == r \in operations \/ (r \in active /\ Key(r) \notin spans)
           Goes(r) == \E a \in active : Key(a) \in spans /\ r = Grown(a)
           Starts(r) == \E s \in spans :
                          s \notin {Key(a) : a \in active} /\ r = Started(s, row)
<1>9. /\ \A r \in operations' : Kept(r)
      /\ \A r \in active' : Goes(r) \/ Starts(r)
      /\ \A r \in Filled' : Kept(r) \/ Goes(r) \/ Starts(r)
  BY <1>4 DEF Filled
<1>10. \A r : Kept(r) => /\ r \in Rectangles /\ r \in Filled /\ r \in Filled'
                         /\ r.y + r.h <= row
  BY <1>1, <1>4, <1>5, <1>6, RectangleIs DEF Filled, Rows
<1>11. \A r : Goes(r) \/ Starts(r) =>
         /\ r \in Rectangles /\ r \in active' /\ r.y + r.h = row + 1
         /\ Key(r) \in spans /\ r.y <= row
  <2> SUFFICES ASSUME NEW r, Goes(r) \/ Starts(r)
               PROVE  /\ r \in Rectangles /\ r \in active' /\ r.y + r.h = row + 1
                      /\ Key(r) \in spans /\ r.y <= row
    OBVIOUS
  <2>1. CASE Goes(r)
    <3>1. PICK a \in active : Key(a) \in spans /\ r = Grown(a)
      BY <2>1
    <3>2. a \in Rectangles /\ a.y + a.h = row
      BY <1>1, <1>5
    <3>3. a.y \in Nat /\ a.h \in Nat /\ a.h >= 1
      BY <3>2, RectangleIs
    <3>4. r.y = a.y /\ r.h = a.h + 1 /\ r \in Rectangles /\ Key(r) \in spans
      BY <3>1, <1>8
    <3>5. r \in active'
      BY <3>1, <1>4
    <3> QED BY <3>2, <3>3, <3>4, <3>5, <1>1
  <2>2. CASE Starts(r)
    <3>1. PICK s \in spans : s \notin {Key(a) : a \in active} /\ r = Started(s, row)
      BY <2>2
    <3>2. r \in Rectangles /\ Key(r) = s /\ r.y = row /\ r.h = 1
      BY <3>1, <1>7
    <3>3. r \in active'
      BY <3>1, <1>4
    <3> QED BY <3>1, <3>2, <3>3, <1>1
  <2> QED BY <2>1, <2>2
<1>12. Filled' \in SUBSET Rectangles
  BY <1>9, <1>10, <1>11
\* Above the scanline that is walked over a rectangle covers what the one it
\* comes from did.
<1>13. \A r \in Filled' : \A x \in Cols, y \in Rows :
         Covers(r, x, y) /\ y < row =>
           \E o \in Filled :
             /\ Covers(o, x, y) /\ o.color = r.color
             /\ r = IF o \in active /\ Key(o) \in spans THEN Grown(o) ELSE o
  <2> SUFFICES ASSUME NEW r \in Filled', NEW x \in Cols, NEW y \in Rows,
                      Covers(r, x, y), y < row
               PROVE  \E o \in Filled :
                        /\ Covers(o, x, y) /\ o.color = r.color
                        /\ r = IF o \in active /\ Key(o) \in spans THEN Grown(o) ELSE o
    OBVIOUS
  <2>1. CASE Kept(r)
    <3>1. ~ (r \in active /\ Key(r) \in spans)
      <4>1. CASE r \in operations
        <5>1. r \notin active
          BY <4>1, <1>5, <1>6, <1>1, RectangleIs
        <5> QED BY <5>1
      <4> QED BY <4>1, <2>1
    <3> QED BY <3>1, <2>1, <1>10
  <2>2. CASE Goes(r)
    <3>1. PICK a \in active : Key(a) \in spans /\ r = Grown(a)
      BY <2>2
    <3>2. a \in Rectangles /\ a \in Filled /\ a.y + a.h = row /\ r \in Rectangles
      BY <1>1, <1>5, <1>12 DEF Filled
    <3>3. r.x = a.x /\ r.w = a.w /\ r.y = a.y /\ r.color = a.color
      BY <3>1, <3>2, GrownIs
    <3>4. y < a.y + a.h
      BY <3>2
    <3>5. Covers(a, x, y)
      BY <3>2, <3>3, <3>4, CoversIs
    <3> QED BY <3>1, <3>2, <3>3, <3>5
  <2>3. CASE Starts(r)
    <3>1. r \in Rectangles /\ r.y = row
      BY <2>3, <1>7
    <3> QED BY <3>1, CoversIs, <1>1 DEF Rows
  <2> QED BY <2>1, <2>2, <2>3, <1>9
\* On the scanline itself a rectangle covers a span.
<1>14. \A r \in Filled' : \A x \in Cols, y \in Rows :
         Covers(r, x, y) /\ ~ (y < row) =>
           /\ y = row /\ (Goes(r) \/ Starts(r)) /\ Key(r) \in spans
           /\ r.x <= x /\ x < r.x + r.w
           /\ pixels[x][row] = r.color
  <2> SUFFICES ASSUME NEW r \in Filled', NEW x \in Cols, NEW y \in Rows,
                      Covers(r, x, y), ~ (y < row)
               PROVE  /\ y = row /\ (Goes(r) \/ Starts(r)) /\ Key(r) \in spans
                      /\ r.x <= x /\ x < r.x + r.w
                      /\ pixels[x][row] = r.color
    OBVIOUS
  <2>1. /\ r \in Rectangles /\ y \in Nat
        /\ r.x <= x /\ x < r.x + r.w /\ r.y <= y /\ y < r.y + r.h
    BY <1>12, CoversIs DEF Rows
  <2>2. r.y \in Nat /\ r.h \in Nat
    BY <2>1, RectangleIs
  <2>3. ~ Kept(r)
    BY <2>1, <2>2, <1>10, <1>1
  <2>4. (Goes(r) \/ Starts(r)) /\ Key(r) \in spans /\ r.y + r.h = row + 1
    BY <2>3, <1>9, <1>11
  <2>5. y = row
    BY <2>1, <2>2, <2>4, <1>1
  <2>6. Key(r).x = r.x /\ Key(r).w = r.w /\ Key(r).color = r.color
    BY DEF Key
  <2>7. pixels[x][row] = r.color
    BY <2>1, <2>4, <2>6, <1>7
  <2> QED BY <2>1, <2>4, <2>5, <2>7
\* Two rectangles never wait under the same key.
<1>15. \A r, s \in active' : Key(r) = Key(s) => r = s
  <2> SUFFICES ASSUME NEW r \in active', NEW s \in active', Key(r) = Key(s)
               PROVE  r = s
    OBVIOUS
  <2>1. ASSUME Goes(r), Goes(s) PROVE r = s
    <3>1. PICK a \in active : Key(a) \in spans /\ r = Grown(a)
      BY <2>1
    <3>2. PICK e \in active : Key(e) \in spans /\ s = Grown(e)
      BY <2>1
    <3>3. Key(a) = Key(e)
      BY <3>1, <3>2, <1>8
    <3>4. /\ a \in Rectangles /\ e \in Rectangles
          /\ a.y + a.h = row /\ e.y + e.h = row
          /\ a \in Filled /\ e \in Filled
      BY <1>1, <1>5 DEF Filled
    <3>5. a.x = e.x /\ a.w = e.w
      BY <3>3 DEF Key
    <3>6. row - 1 \in Rows
      <4>1. a.y \in Nat /\ a.h \in Nat /\ a.h >= 1
        BY <3>4, RectangleIs
      <4>2. row \in 0 .. Height - 1
        BY <1>1 DEF Rows
      <4>3. row >= 1
        BY <4>1, <3>4
      <4> QED BY <4>2, <4>3, SizeAssumption DEF Rows
    <3>7. a.x \in Cols /\ a.x < a.x + a.w /\ a.y <= row - 1 /\ row - 1 < a.y + a.h
      BY <3>4, <1>1, RectangleIs DEF Cols
    <3>8. e.y <= row - 1 /\ row - 1 < e.y + e.h
      BY <3>4, <1>1, RectangleIs
    <3>9. Covers(a, a.x, row - 1) /\ Covers(e, a.x, row - 1)
      <4>1. a.x <= a.x
        BY <3>7 DEF Cols
      <4> QED BY <4>1, <3>4, <3>5, <3>6, <3>7, <3>8, CoversIs
    <3>10. a = e
      BY <3>4, <3>6, <3>7, <3>9 DEF EInv, Disjoint
    <3> QED BY <3>1, <3>2, <3>10
  <2>2. ASSUME NEW g, NEW t, Goes(g), Starts(t), Key(g) = Key(t) PROVE FALSE
    <3>1. PICK a \in active : g = Grown(a) /\ Key(g) = Key(a)
      BY <2>2, <1>8
    <3>2. Key(t) \notin {Key(c) : c \in active}
      BY <2>2, <1>7
    <3> QED BY <3>1, <3>2, <2>2
  <2>3. ASSUME Starts(r), Starts(s) PROVE r = s
    BY <2>3, <1>7
  <2> QED BY <2>1, <2>2, <2>3, <1>9
<1>16. EncoderTypeOK'
  <2>1. active' \in SUBSET Rectangles /\ operations' \in SUBSET Rectangles
    BY <1>12 DEF Filled
  <2>2. row + 1 \in 0 .. Height
    BY <1>1, SizeAssumption
  <2>3. status \in {"scan", "encoded", "refused", "written"}
    BY DEF EInv, EncoderTypeOK
  <2> QED BY <2>1, <2>2, <2>3, <1>1 DEF EncoderTypeOK
<1>17. Scanning'
  <2>1. Box' = Box /\ BoxHolds(Box, pixels)
    BY <1>1, <1>2 DEF b
  <2>2. BoxHolds(Box, pixels)'
    BY <2>1 DEF BoxHolds
  <2>3. Box.top <= row + 1 /\ row + 1 <= Box.bottom
    BY <1>1 DEF b, BoxHolds
  <2> QED BY <2>1, <2>2, <2>3 DEF Scanning
<1>18. Waiting'
  BY <1>3, <1>9, <1>11, <1>1 DEF Waiting
<1>19. Done'
  BY <1>9, <1>10, <1>1, RectangleIs DEF Done
<1>20. Emptied'
  BY DEF Emptied
<1>21. Disjoint'
  <2> SUFFICES ASSUME NEW r \in Filled', NEW s \in Filled',
                      NEW x \in Cols, NEW y \in Rows,
                      Covers(r, x, y), Covers(s, x, y)
               PROVE  r = s
    BY DEF Disjoint
  <2>1. CASE y < row
    <3>1. PICK o \in Filled :
            /\ Covers(o, x, y)
            /\ r = IF o \in active /\ Key(o) \in spans THEN Grown(o) ELSE o
      BY <2>1, <1>13
    <3>2. PICK q \in Filled :
            /\ Covers(q, x, y)
            /\ s = IF q \in active /\ Key(q) \in spans THEN Grown(q) ELSE q
      BY <2>1, <1>13
    <3>3. o = q
      BY <3>1, <3>2 DEF EInv, Disjoint
    <3> QED BY <3>1, <3>2, <3>3
  <2>2. CASE ~ (y < row)
    <3>1. /\ Goes(r) \/ Starts(r)
          /\ Goes(s) \/ Starts(s)
          /\ Key(r) \in spans /\ r.x <= x /\ x < r.x + r.w
          /\ Key(s) \in spans /\ s.x <= x /\ x < s.x + s.w
      BY <2>2, <1>14
    <3>2. /\ Key(r).x = r.x /\ Key(r).w = r.w
          /\ Key(s).x = s.x /\ Key(s).w = s.w
      BY DEF Key
    <3>3. Key(r) = Key(s)
      BY <3>1, <3>2, <1>1, SpanUnique DEF spans
    <3> QED BY <3>1, <3>3, <1>11, <1>15
  <2> QED BY <2>1, <2>2
<1>22. EncodedExactly'
  <2> SUFFICES ASSUME NEW x \in Cols, NEW y \in Rows
               PROVE  /\ \A r \in Filled' : Covers(r, x, y) => pixels[x][y] = r.color
                      /\ pixels[x][y] # Background /\ y < row + 1 =>
                           \E r \in Filled' : Covers(r, x, y)
    BY DEF EncodedExactly
  <2>1. ASSUME NEW r \in Filled', Covers(r, x, y) PROVE pixels[x][y] = r.color
    <3>1. CASE y < row
      <4>1. PICK o \in Filled : Covers(o, x, y) /\ o.color = r.color
        BY <2>1, <3>1, <1>13
      <4> QED BY <4>1 DEF EInv, EncodedExactly
    <3>2. CASE ~ (y < row)
      BY <2>1, <3>2, <1>14
    <3> QED BY <3>1, <3>2
  <2>2. ASSUME pixels[x][y] # Background, y < row + 1
        PROVE  \E r \in Filled' : Covers(r, x, y)
    <3>1. CASE y < row
      <4>1. PICK o \in Filled : Covers(o, x, y)
        BY <2>2, <3>1 DEF EInv, EncodedExactly
      <4>2. CASE Kept(o)
        BY <4>1, <4>2, <1>10
      <4>3. CASE o \in active /\ Key(o) \in spans
        <5>1. Grown(o) \in active' /\ Grown(o) \in Rectangles /\ o \in Rectangles
          BY <4>3, <1>4, <1>8, <1>1
        <5>2. /\ Grown(o).x = o.x /\ Grown(o).w = o.w
              /\ Grown(o).y = o.y /\ Grown(o).h = o.h + 1
          BY <5>1, GrownIs
        <5>3. o.y \in Nat /\ o.h \in Nat /\ y \in Nat
          BY <5>1, RectangleIs DEF Rows
        <5>4. /\ o.x <= x /\ x < o.x + o.w /\ o.y <= y /\ y < o.y + o.h
          BY <4>1, <5>1, CoversIs
        <5>5. y < o.y + (o.h + 1)
          BY <5>3, <5>4
        <5>6. Covers(Grown(o), x, y)
          BY <5>1, <5>2, <5>4, <5>5, CoversIs
        <5> QED BY <5>1, <5>6 DEF Filled
      <4> QED BY <4>2, <4>3 DEF Filled
    <3>2. CASE ~ (y < row)
      <4>1. y = row
        BY <2>2, <3>2, <1>1 DEF Rows
      <4>2. PICK s \in spans : s.x <= x /\ x < s.x + s.w
        BY <4>1, <2>2, <1>1, SpanCovers DEF spans
      <4>3. PICK r : (Goes(r) \/ Starts(r)) /\ Key(r) = s
        <5>1. CASE \E a \in active : Key(a) = s
          BY <5>1, <1>8
        <5>2. CASE ~ \E a \in active : Key(a) = s
          <6>1. Starts(Started(s, row)) /\ Key(Started(s, row)) = s
            BY <5>2, <1>7
          <6> QED BY <6>1
        <5> QED BY <5>1, <5>2
      <4>4. r \in Rectangles /\ r \in active' /\ r.y + r.h = row + 1 /\ r.y <= row
        BY <4>3, <1>11
      <4>5. r.x <= x /\ x < r.x + r.w
        BY <4>2, <4>3 DEF Key
      <4>6. y < r.y + r.h
        BY <4>1, <4>4, <1>1
      <4>7. Covers(r, x, y)
        BY <4>1, <4>4, <4>5, <4>6, CoversIs
      <4> QED BY <4>4, <4>7 DEF Filled
    <3> QED BY <3>1, <3>2
  <2> QED BY <2>1, <2>2
<1>23. Merged'
  <2> SUFFICES ASSUME NEW r \in Filled', NEW s \in Filled',
                      Key(r) = Key(s), r.y + r.h = s.y
               PROVE  FALSE
    BY DEF Merged
  <2>1. r \in Rectangles /\ s \in Rectangles
    BY <1>12
  <2>2. Kept(r)
    <3>1. s.y <= row
      <4>1. Kept(s) => s.y + s.h <= row
        BY <1>10
      <4> QED BY <4>1, <1>9, <1>11, <2>1, <1>1, RectangleIs
    <3>2. ~ (r.y + r.h = row + 1)
      BY <3>1, <2>1, <1>1, RectangleIs
    <3> QED BY <3>2, <1>9, <1>11
  <2>3. r \in Filled /\ r.y + r.h <= row
    BY <2>2, <1>10
  <2>4. CASE Kept(s)
    <3>1. s \in Filled
      BY <2>4, <1>10
    <3> QED BY <3>1, <2>3 DEF EInv, Merged
  <2>5. CASE Goes(s)
    <3>1. PICK a \in active : s = Grown(a)
      BY <2>5
    <3>2. Key(a) = Key(r) /\ a.y = r.y + r.h /\ a \in Filled
      BY <3>1, <1>8 DEF Filled
    <3> QED BY <3>2, <2>3 DEF EInv, Merged
  <2>6. CASE Starts(s)
    <3>1. s.y = row /\ Key(s) \in spans /\ Key(s) \notin {Key(a) : a \in active}
      BY <2>6, <1>7
    <3>2. ~ (r \in operations)
      BY <3>1, <1>6, <2>1, <1>1, RectangleIs
    <3>3. r \in active
      BY <3>2, <2>2
    <3> QED BY <3>1, <3>3
  <2> QED BY <2>4, <2>5, <2>6, <1>9
<1> HIDE DEF Kept, Goes, Starts
<1> QED BY <1>16, <1>17, <1>18, <1>19, <1>20, <1>21, <1>22, <1>23 DEF EInv

\* After the last scanline everything is finished.
LEMMA FinishInv ==
  ASSUME EInv, status = "scan", row = Box.bottom, Finish,
         row' = row, job' = job, pixels' = pixels
  PROVE  EInv'
<1>1. Filled' = Filled /\ active' = {} /\ status' # "scan"
  BY DEF Finish, Filled
<1>2. EncoderTypeOK'
  BY DEF EInv, EncoderTypeOK, Finish
<1>3. Disjoint' /\ Merged'
  BY <1>1 DEF EInv, Disjoint, Merged
<1>4. EncodedExactly'
  <2> SUFFICES ASSUME NEW x \in Cols, NEW y \in Rows
               PROVE  /\ \A r \in Filled : Covers(r, x, y) => pixels[x][y] = r.color
                      /\ pixels[x][y] # Background => \E r \in Filled : Covers(r, x, y)
    BY <1>1 DEF EncodedExactly
  <2>1. pixels[x][y] # Background => y < row
    BY DEF EInv, Scanning, BoxHolds
  <2> QED BY <2>1 DEF EInv, EncodedExactly
<1> QED BY <1>1, <1>2, <1>3, <1>4 DEF EInv, Scanning, Waiting, Done, Emptied

\* A new picture.
LEMMA BeginInv ==
  ASSUME NEW j \in Jobs, NEW p \in Pictures, Begin(j, p)
  PROVE  EInv'
<1>1. /\ job' = j /\ pixels' = p /\ row' = BoxOf(j, p).top /\ status' = "scan"
      /\ active' = {} /\ operations' = {} /\ BoxHolds(BoxOf(j, p), p)
  BY BoxOfHolds DEF Begin
<1>2. Box' = BoxOf(j, p)
  BY <1>1 DEF Box
<1>3. Filled' = {}
  BY <1>1 DEF Filled
<1>4. EncoderTypeOK'
  BY <1>1, SizeAssumption DEF EncoderTypeOK, BoxHolds
<1>5. Scanning'
  BY <1>1, <1>2 DEF Scanning, BoxHolds
<1>6. EncodedExactly'
  <2> SUFFICES ASSUME NEW x \in Cols, NEW y \in Rows, p[x][y] # Background,
                      y < BoxOf(j, p).top
               PROVE  FALSE
    BY <1>1, <1>3 DEF EncodedExactly
  <2> QED BY <1>1 DEF BoxHolds, Rows
<1>7. Disjoint' /\ Merged'
  BY <1>3 DEF Disjoint, Merged
<1> QED BY <1>1, <1>4, <1>5, <1>6, <1>7 DEF EInv, Waiting, Done, Emptied

\* What the encoder does keeps its invariant.
LEMMA EncodeInv ==
  ASSUME EInv, Encode
  PROVE  EInv'
<1>1. CASE ScreenRow \/ FrameRow
  BY <1>1, ScanInv DEF ScreenRow, FrameRow
<1>2. CASE ScreenEnd \/ FrameEnd
  BY <1>2, FinishInv DEF ScreenEnd, FrameEnd
<1> QED BY <1>1, <1>2 DEF Encode
=============================================================================
