--------------------------- MODULE MCChargeScreen ---------------------------
(***************************************************************************)
(* An instance of ChargeScreen for TLC: eight columns and five rows of the *)
(* battery picture, artwork of two by three pixels in any two colours, and *)
(* a chequered picture with the most rectangles there can be.              *)
(***************************************************************************)
EXTENDS ChargeScreen, TLC

SampleX == 0 :> 96 @@ 1 :> 99 @@ 2 :> 110 @@ 3 :> 166 @@ 4 :> 180
           @@ 5 :> 192 @@ 6 :> 240 @@ 7 :> 267
SampleY == 0 :> 69 @@ 1 :> 80 @@ 2 :> 106 @@ 3 :> 150 @@ 4 :> 230

Palette == {"bg", "case", "track", "outline", "percent", "accent", "low",
            "critical"}
Readings == {NoCapacity, 0, 7, 60, 101}

Small == {[x \in Cols |-> [y \in Rows |->
             IF x \in 2 .. 3 /\ y <= 2 THEN q[x, y] ELSE "bg"]] :
            q \in [(2 .. 3) \X (0 .. 2) -> {"bg", "accent", "low"}]}
Chequered == [x \in Cols |-> [y \in Rows |->
               IF (x + y) % 2 = 0 THEN "accent" ELSE "bg"]]
Pictures2 == {q \in Small : Drawn(q)} \cup {Chequered}
=============================================================================
