----------------------------- MODULE MCPrograms -----------------------------
(* An oblong display, with a block inside it, across an edge, with its     *)
(* corners swapped, beyond it, empty, leaving one column, and covering it  *)
(* until it is turned; two points to record, an interval of two units, and *)
(* pauses on both sides of it.                                             *)
EXTENDS Programs

CONSTANTS p1, p2

MCProcess == {p1, p2}
MCDisplays == {[w |-> 3, h |-> 2]}
MCBlocks ==
  {[x1 |-> 1, y1 |-> 0, x2 |-> 2, y2 |-> 1],
   [x1 |-> 1, y1 |-> 1, x2 |-> 4, y2 |-> 3],
   [x1 |-> 2, y1 |-> 2, x2 |-> 0, y2 |-> 1],
   [x1 |-> 3, y1 |-> 0, x2 |-> 4, y2 |-> 2],
   [x1 |-> 1, y1 |-> 1, x2 |-> 1, y2 |-> 2],
   [x1 |-> 0, y1 |-> 0, x2 |-> 2, y2 |-> 2],
   [x1 |-> 3, y1 |-> 2, x2 |-> 0, y2 |-> 0]}
MCPositions == {<<0, 0>>, <<1, 0>>}

=============================================================================
