---------------------------- MODULE MCTestFlows ----------------------------
(* Counts on both sides of zero, for the boundary of the count; swipes of  *)
(* a first, a middle and a last segment.                                   *)
EXTENDS TestFlows

MCLimits == -1 .. 3
MCAllModes == {"count", "time", "default"}

=============================================================================
