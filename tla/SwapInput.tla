----------------------------- MODULE SwapInput ------------------------------
(***************************************************************************)
(* The swipes of "wukong special -S -s x,y -e x,y [-b]": SwapInput's       *)
(* OrderInput and the pointer events of MultimodeManager::IntervalSwap.    *)
(***************************************************************************)
EXTENDS Integers

CONSTANT Segment  \* the segments of a swipe (50 in the code)

VARIABLES
  isGoBack,  \* isGoBack_: -b was given
  isBack,    \* OrderInput's static isBack; initially true
  pc,        \* "idle", "down", "move", "up"
  i,         \* the segments already made
  from,      \* where the swipe starts: "start" (-s) or "end" (-e)
  finger,    \* history: how far from there the finger is, if it is down
  previous,  \* history: where the swipe before started, "none" at first
  failed     \* history: some pointer event could not be made

vars == <<isGoBack, isBack, pc, i, from, finger, previous, failed>>

Lifted == -1

Init ==
  /\ isGoBack \in BOOLEAN
  /\ isBack = TRUE
  /\ pc = "idle"
  /\ i = 0
  /\ from = "none"
  /\ finger = Lifted
  /\ previous = "none"
  /\ failed = FALSE

-----------------------------------------------------------------------------

(* Faulty: the direction is turned only once.                              *)
OrderInputTurnsOnce ==
  /\ pc = "idle"
  /\ isBack' = IF isGoBack THEN FALSE ELSE isBack
  /\ from' = IF isBack' THEN "end" ELSE "start"
  /\ previous' = from
  /\ pc' = "down"
  /\ i' = 0
  /\ UNCHANGED <<isGoBack, finger, failed>>

(* With -b every swipe turns isBack over; without it, it stays true.       *)
OrderInput ==
  /\ pc = "idle"
  /\ isBack' = IF isGoBack THEN ~isBack ELSE isBack
  /\ from' = IF isBack' THEN "end" ELSE "start"
  /\ previous' = from
  /\ pc' = "down"
  /\ i' = 0
  /\ UNCHANGED <<isGoBack, finger, failed>>

(* Each pointer event may fail, and the swipe ends there.                  *)
PointerInput(position, next) ==
  /\ \/ finger' = position /\ pc' = next /\ UNCHANGED failed
     \/ UNCHANGED finger /\ pc' = "idle" /\ failed' = TRUE
  /\ UNCHANGED <<isGoBack, isBack, from, previous>>

Down ==
  /\ pc = "down"
  /\ PointerInput(0, IF Segment > 1 THEN "move" ELSE "up")
  /\ i' = 1

Move ==
  /\ pc = "move"
  /\ PointerInput(i, IF i + 1 < Segment THEN "move" ELSE "up")
  /\ i' = i + 1

(* The finger is lifted at the other end.                                  *)
Up ==
  /\ pc = "up"
  /\ PointerInput(Lifted, "idle")
  /\ UNCHANGED i

-----------------------------------------------------------------------------

TypeOK ==
  /\ isGoBack \in BOOLEAN
  /\ isBack \in BOOLEAN
  /\ pc \in {"idle", "down", "move", "up"}
  /\ i \in 0 .. Segment
  /\ from \in {"none", "start", "end"}
  /\ finger \in Lifted .. Segment - 1
  /\ previous \in {"none", "start", "end"}
  /\ failed \in BOOLEAN

(* With -b the swipes go and come back in turn, the first one from -s to   *)
(* -e, even after a swipe that failed half way: the static isBack.         *)
GoesAndComesBack ==
  isGoBack /\ pc # "idle" =>
    from = IF previous = "start" THEN "end" ELSE "start"

=============================================================================
