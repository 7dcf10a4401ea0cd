----------------------------- MODULE TouchInput -----------------------------
(***************************************************************************)
(* TouchInput::RandomInput, round after round, with the screen size that   *)
(* WuKongUtil reads once and keeps, and a display that may be rotated      *)
(* between the rounds (RotateInput is one of the events of the same run).  *)
(***************************************************************************)
EXTENDS Device

VARIABLES
  pc,         \* the place in RandomInput
  display,    \* the size of the display now
  screen,     \* screenWidth_ and screenHeight_; the display's first size
  screenRead, \* they are not -1
  blockRect,  \* blockRectList_: no rectangle or one
  touch,      \* touchX and touchY
  finger      \* history: where the finger is down, <<>> when it is up

vars == <<pc, display, screen, screenRead, blockRect, touch, finger>>

HasBlockRect == blockRect # <<>>

Init ==
  /\ pc = "idle"
  /\ display \in Displays
  /\ screen = display
  /\ screenRead = FALSE
  /\ \/ blockRect = <<>>
     \/ \E b \in Blocks : blockRect = <<b>>
  /\ touch = <<0, 0>>
  /\ finger = <<>>

(* The program has ended, or was killed, and another one starts, with -X   *)
(* or without.                                                             *)
Restart ==
  /\ pc' = "idle"
  /\ screen' = display /\ screenRead' = FALSE
  /\ \/ blockRect' = <<>>
     \/ \E b \in Blocks : blockRect' = <<b>>
  /\ touch' = <<0, 0>>
  /\ finger' = <<>>
  /\ UNCHANGED display

-----------------------------------------------------------------------------

(* Reads the display only once; there may be none then.                    *)
GetScreenSize ==
  /\ pc = "idle"
  /\ \/ /\ pc' = "choose"
        /\ screen' = IF screenRead THEN screen ELSE display
        /\ screenRead' = TRUE
     \/ /\ ~screenRead
        /\ UNCHANGED <<pc, screen, screenRead>>
  /\ UNCHANGED <<display, blockRect, touch, finger>>

(* Faulty: the last point drawn may be one too far.                        *)
ChoosePointInclusive ==
  /\ pc = "choose"
  /\ LET points == IF HasBlockRect
                   THEN CalcBlockAvoidPoint(screen.w, screen.h, blockRect[1])
                   ELSE (0 .. screen.w) \X (0 .. screen.h)
     IN  \/ points = {} /\ pc' = "idle" /\ UNCHANGED touch
         \/ touch' \in points /\ pc' = "down"
  /\ UNCHANGED <<display, screen, screenRead, blockRect, finger>>

(* The round is skipped (and answers ERR_OK) when the block leaves nothing.*)
ChoosePoint ==
  /\ pc = "choose"
  /\ LET points == IF HasBlockRect
                   THEN CalcBlockAvoidPoint(screen.w, screen.h, blockRect[1])
                   ELSE (0 .. screen.w - 1) \X (0 .. screen.h - 1)
     IN  \/ points = {} /\ pc' = "idle" /\ UNCHANGED touch
         \/ touch' \in points /\ pc' = "down"
  /\ UNCHANGED <<display, screen, screenRead, blockRect, finger>>

(* PointerInput fails when no pointer event can be created.                *)
PointerDown ==
  /\ pc = "down"
  /\ \/ finger' = touch /\ pc' = "up"
     \/ UNCHANGED finger /\ pc' = "idle"
  /\ UNCHANGED <<display, screen, screenRead, blockRect, touch>>

PointerUp ==
  /\ pc = "up"
  /\ finger' \in {<<>>, finger}
  /\ pc' = "idle"
  /\ UNCHANGED <<display, screen, screenRead, blockRect, touch>>

(* SetOrientation, by a RotateInput drawn between two touches.             *)
Rotate ==
  /\ pc = "idle"
  /\ display' = [w |-> display.h, h |-> display.w]
  /\ UNCHANGED <<pc, screen, screenRead, blockRect, touch, finger>>

Next ==
  \/ GetScreenSize
  \/ ChoosePoint
  \/ PointerDown
  \/ PointerUp
  \/ Rotate

Spec == Init /\ [][Next \/ Restart]_vars

-----------------------------------------------------------------------------

TypeOK ==
  /\ pc \in {"idle", "choose", "down", "up"}
  /\ display \in Size
  /\ screen \in Size
  /\ screenRead \in BOOLEAN
  /\ blockRect \in {<<>>} \cup {<<b>> : b \in Blocks}
  /\ touch \in Nat \X Nat
  /\ finger \in {<<>>} \cup (Nat \X Nat)

(* With -X no touch ever lands in the block, whatever its corners, however *)
(* the display was turned (the block is in absolute pixels): TouchInput    *)
(* and CalcBlockAvoidPoint ("AC-1.4 random touch point strictly avoids the *)
(* block rect", "AC-1.5 block beyond screen is clamped").                  *)
TouchAvoidsBlock ==
  finger # <<>> /\ HasBlockRect =>
    ~Inside(finger[1], finger[2], Ordered(blockRect[1]))

(* A round is skipped only when the block covers the whole screen whose    *)
(* size was read, and is never skipped for want of luck (AC-1.6); a        *)
(* program that has just ended has not read it any more.                   *)
SkipsOnlyWhenCovered ==
  [][pc = "choose" /\ pc' = "idle" /\ screenRead' =>
       /\ HasBlockRect
       /\ FreePoints(screen.w, screen.h, blockRect[1]) = {}]_vars

(* Every free point can be touched: no part of the screen is left out.     *)
EveryFreePointChosen ==
  pc = "choose" /\ HasBlockRect =>
    FreePoints(screen.w, screen.h, blockRect[1]) \subseteq
      CalcBlockAvoidPoint(screen.w, screen.h, blockRect[1])

=============================================================================
