--------------------------- MODULE GestureInputs ----------------------------
(***************************************************************************)
(* The knuckles and the random swipes of "wukong exec": the number of      *)
(* fingers and the direction that each draws, and the fingers that it      *)
(* really puts on the screen, 0 when it does nothing.                      *)
(***************************************************************************)
EXTENDS RandomTestOptions

CONSTANTS
  Phone,   \* is the device a phone ?
  Behind   \* bound of the model: what may be read behind a vector

VARIABLE drawn  \* the last of them: [input, finger, touching]

gestureVars == <<drawn>>

GestureInit == drawn = [input |-> "none", finger |-> Blank, touching |-> 0]

-----------------------------------------------------------------------------

(* An element of a vector; at 100 there is none.                           *)
Element(vector, index) == IF index < 100 THEN {vector[index]} ELSE Behind

(* Knuckles of other numbers of fingers are ignored, with ERR_OK.          *)
KnuckleAction(finger) ==
  drawn' = [input |-> "knuckle", finger |-> finger,
            touching |-> IF finger \in 1 .. 2 THEN finger ELSE 0]

(* Faulty: the vector is indexed from 1.                                   *)
KnuckleRandomInputFromOne ==
  /\ eventCount["knuckle"] > 0
  /\ IF fingers = NoShares
     THEN \E finger \in 1 .. 2 : KnuckleAction(finger)
     ELSE \E index \in 1 .. 100 :
          \E finger \in Element(ParseMapToVector(fingers), index) :
            KnuckleAction(finger)

KnuckleRandomInput ==
  /\ eventCount["knuckle"] > 0
  /\ IF fingers = NoShares
     THEN \E finger \in 1 .. 2 : KnuckleAction(finger)
     ELSE \E index \in 0 .. 99 :
            KnuckleAction(ParseMapToVector(fingers)[index])

(* A swipe of two fingers is made with one, and so without a direction;    *)
(* on a phone, one of three or four is not made.                           *)
SwipeAction(finger) ==
  CASE finger \in 1 .. 2 -> 1
    [] finger \in 3 .. 4 -> IF Phone THEN 0 ELSE finger
    [] OTHER             -> 0

(* The index is drawn from 1 to 100.  -D only counts with -f; where its    *)
(* shares leave a blank, or something else is read, the direction is       *)
(* invalid, and the swipe not made.                                        *)
SwapRandomInput ==
  /\ eventCount["swap"] > 0
  /\ IF fingers = NoShares
     THEN drawn' = [input |-> "swap", finger |-> 1, touching |-> 1]
     ELSE \E index \in 1 .. 100 :
          \E finger \in Element(ParseMapToVector(fingers), index),
             direction \in IF directions = NoShares THEN Directions
                           ELSE Element(ParseMapToVector(directions), index) :
            drawn' = [input |-> "swap", finger |-> finger,
                      touching |-> IF direction \in Directions
                                   THEN SwipeAction(finger) ELSE 0]

GestureInput ==
  /\ pc = "ready" /\ command = "exec"
  /\ KnuckleRandomInput \/ SwapRandomInput
  /\ UNCHANGED <<lineVars, percentVars>>

-----------------------------------------------------------------------------

(* With -f, a knuckle is made with a number of fingers that has a share,   *)
(* and is left out only when one but 1 and 2 has, or the shares do not fill*)
(* the vector: KnuckleInput::RandomInput.                                  *)
KnucklesAsGiven ==
  drawn.input = "knuckle" /\ fingers # NoShares =>
    LET shared == {k \in DOMAIN fingers : fingers[k] > 0}
    IN  IF drawn.touching > 0
        THEN drawn.touching \in shared
        ELSE ~(shared \subseteq 1 .. 2) \/ Total(Portions(fingers)) < 100

(* With -f, a swipe draws one of the numbers of fingers that were given,   *)
(* at the share given: the comment in SwapInput::RandomInput.              *)
SwipeFingersGiven ==
  drawn.input = "swap" /\ fingers # NoShares => drawn.finger \in DOMAIN fingers

=============================================================================
