------------------------------- MODULE Device -------------------------------
(***************************************************************************)
(* What the programs find on the device: a screen of some size, the        *)
(* rectangles of it that they are given, and a user who touches it.        *)
(***************************************************************************)
EXTENDS BlockRect

CONSTANTS
  Displays,   \* the sizes, [w, h], the display may have at the start
  Blocks,     \* the arguments of -X
  Positions,  \* where the user touches: <<x, y>> as the events give it
  MaxPause    \* bound: the longest time between two touches looked at

Size == [w : Nat \ {0}, h : Nat \ {0}]

ASSUME DisplaysAssumption == Displays \subseteq Size
ASSUME BlocksAssumption == Blocks \subseteq Rect
ASSUME PositionsAssumption == Positions \subseteq Nat \X Nat
ASSUME MaxPauseAssumption == MaxPause \in Nat

=============================================================================
