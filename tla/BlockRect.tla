----------------------------- MODULE BlockRect ------------------------------
(***************************************************************************)
(* -X x1,y1,x2,y2 keeps the random touches out of a rectangle of the       *)
(* screen.  The screen is cut around the rectangle, one of the pieces is   *)
(* drawn by area, and a point of it at random.                             *)
(*                                                                         *)
(* Rectangles are half open: x1 <= x < x2 and y1 <= y < y2.                *)
(***************************************************************************)
EXTENDS Integers

Rect == [x1 : Int, y1 : Int, x2 : Int, y2 : Int]

Inside(x, y, r) ==
  /\ r.x1 <= x /\ x < r.x2
  /\ r.y1 <= y /\ y < r.y2

-----------------------------------------------------------------------------

ClampTo(size, v) == IF v < 0 THEN 0 ELSE IF v > size THEN size ELSE v

(* The two corners may be given in any order.                              *)
Ordered(r) ==
  [x1 |-> IF r.x1 > r.x2 THEN r.x2 ELSE r.x1,
   y1 |-> IF r.y1 > r.y2 THEN r.y2 ELSE r.y1,
   x2 |-> IF r.x1 > r.x2 THEN r.x1 ELSE r.x2,
   y2 |-> IF r.y1 > r.y2 THEN r.y1 ELSE r.y2]

(* Faulty: the corners are taken as they were given.                       *)
ClampedUnordered(width, height, block) ==
  [x1 |-> ClampTo(width, block.x1), y1 |-> ClampTo(height, block.y1),
   x2 |-> ClampTo(width, block.x2), y2 |-> ClampTo(height, block.y2)]

Clamped(width, height, block) ==
  Ordered([x1 |-> ClampTo(width, block.x1), y1 |-> ClampTo(height, block.y1),
           x2 |-> ClampTo(width, block.x2), y2 |-> ClampTo(height, block.y2)])

(* The whole width above and below the block, and what is left of it and   *)
(* right of it between.                                                    *)
DecomposeAvailableArea(width, height, b) ==
  LET above == [x1 |-> 0, y1 |-> 0, x2 |-> width, y2 |-> b.y1]
      below == [x1 |-> 0, y1 |-> b.y2, x2 |-> width, y2 |-> height]
      left  == [x1 |-> 0, y1 |-> b.y1, x2 |-> b.x1, y2 |-> b.y2]
      right == [x1 |-> b.x2, y1 |-> b.y1, x2 |-> width, y2 |-> b.y2]
  IN  {s \in {above, below, left, right} :
         \/ s = above /\ b.y1 > 0
         \/ s = below /\ b.y2 < height
         \/ s = left /\ b.x1 > 0 /\ b.y2 > b.y1
         \/ s = right /\ b.x2 < width /\ b.y2 > b.y1}

(* Faulty: a strip of one pixel is taken for an empty one.                 *)
PickWide(subs) == {s \in subs : s.x2 > s.x1 + 1 /\ s.y2 > s.y1}

(* The pieces that a draw weighted by area can give: none has area 0.      *)
WeightedPickSubRect(subs) == {s \in subs : s.x2 > s.x1 /\ s.y2 > s.y1}

(* The points CalcBlockAvoidPoint may answer; none: ERR_INVALID_VALUE.     *)
CalcBlockAvoidPoint(width, height, block) ==
  LET subs == DecomposeAvailableArea(width, height,
                                     Clamped(width, height, block))
  IN  {p \in (0 .. width - 1) \X (0 .. height - 1) :
         \E s \in WeightedPickSubRect(subs) : Inside(p[1], p[2], s)}

-----------------------------------------------------------------------------
(* The reference: the points of the screen outside the block.              *)

FreePoints(width, height, block) ==
  {p \in (0 .. width - 1) \X (0 .. height - 1) :
     ~Inside(p[1], p[2], Ordered(block))}

=============================================================================
