-------------------------- MODULE SpecialTestFlow ---------------------------
(***************************************************************************)
(* "wukong special": one kind of input, injected in order.  A component    *)
(* test (-C) also ends when every bundle is finished, a recording (-r)     *)
(* after its first step; both are looked at only when ProtectRightAbility  *)
(* did not end the step before.  The pointer events of a swipe (-S) are    *)
(* steps of their own here, as SwapInput has them; the other inputs are    *)
(* one step each.                                                          *)
(***************************************************************************)
EXTENDS TestFlow

CONSTANT Segment  \* the segments of a swipe

Kinds == {"touch", "swap", "power", "component", "record", "replay"}

VARIABLES
  given,          \* g_commandTOUCHENABLE (-t), SWAP (-S), POWER (-k),
                  \* COMPONENT (-C), RECORDABLE (-r) and REPLAYABLE (-R)
  isAllFinished,  \* specialTestObject_->isAllFinished_
  bundleKnown,    \* the static lastBundleName has been initialised
  isGoBack, isBack, swapPc, i, from, finger, previous, failed  \* of SwapInput

swapVars == <<isGoBack, isBack, swapPc, i, from, finger, previous, failed>>
testVars == <<given, isAllFinished, bundleKnown>>
stepVars == <<testVars, swapVars>>
vars == <<flowVars, stepVars>>

Swap == INSTANCE SwapInput WITH pc <- swapPc

StepLabels == {"order", "getc", "swipe", "protect", "endTest"}

Init ==
  /\ FlowInit
  /\ given \in SUBSET Kinds
  /\ ownEnd = (given \cap {"component", "record"} # {})
  /\ isAllFinished = FALSE /\ bundleKnown = FALSE
  /\ Swap!Init
  /\ isGoBack => "swap" \in given

(* The first kind given, in the order of the code; "none" if there is none *)
(* (EnvInit accepts that command line).                                    *)
DistrbuteInputType ==
  LET order == <<"touch", "swap", "power", "component", "record", "replay">>
      found == {k \in DOMAIN order : order[k] \in given}
  IN  IF found = {} THEN "none"
      ELSE order[CHOOSE k \in found : \A l \in found : k <= l]

-----------------------------------------------------------------------------
(* RunStep.                                                                *)

(* Where the step goes on after its input, be it injected or not.          *)
AfterInput == IF "power" \in given THEN "endTest" ELSE "protect"

(* OrderInput; a component test may report that all bundles are finished.  *)
(* A recording that cannot be started (its file, its monitor) is over at   *)
(* once, any other waits for the user.                                     *)
OrderInput ==
  /\ pc = "order"
  /\ DistrbuteInputType # "swap"
  /\ IF DistrbuteInputType = "none"
     THEN /\ Goto("loop")            \* no input action: the step fails
          /\ UNCHANGED isAllFinished
     ELSE \/ /\ isAllFinished' \in
                  CASE DistrbuteInputType = "component" -> {isAllFinished, TRUE}
                    [] DistrbuteInputType = "record"    -> {TRUE}
                    [] OTHER                            -> {isAllFinished}
             /\ Goto(AfterInput)
          \/ /\ DistrbuteInputType = "record"
             /\ Goto("getc")
             /\ UNCHANGED isAllFinished
  /\ UNCHANGED <<given, bundleKnown, swapVars>>

(* The user presses Enter: the recording is over.  Neither the timer nor   *)
(* the count is looked at before.                                          *)
Getc ==
  /\ pc = "getc"
  /\ isAllFinished' = TRUE
  /\ Goto(AfterInput)
  /\ UNCHANGED <<given, bundleKnown, swapVars>>

(* SwapInput's OrderInput.                                                 *)
SwapOrderInput ==
  /\ pc = "order"
  /\ DistrbuteInputType = "swap"
  /\ Swap!OrderInput
  /\ Goto("swipe")
  /\ UNCHANGED testVars

(* Faulty: the swipe is left where it is when the run is finished.         *)
SwipeBrokenOff ==
  /\ pc = "swipe"
  /\ \/ Swap!Down \/ Swap!Move \/ Swap!Up
  /\ Goto(IF swapPc' = "idle" \/ isFinished THEN AfterInput ELSE "swipe")
  /\ UNCHANGED testVars

(* The pointer events of the swipe; the step goes on when it is over.      *)
Swipe ==
  /\ pc = "swipe"
  /\ \/ Swap!Down \/ Swap!Move \/ Swap!Up
  /\ Goto(IF swapPc' = "idle" THEN AfterInput ELSE "swipe")
  /\ UNCHANGED testVars

(* ERR_INVALID_VALUE (the application that was left is not an installed    *)
(* one) ends the step here, but never in the first call: the application   *)
(* on top is then the one that was there.                                  *)
ProtectRightAbility ==
  /\ pc = "protect"
  /\ Goto("endTest") \/ (bundleKnown /\ Goto("loop"))
  /\ bundleKnown' = TRUE
  /\ UNCHANGED <<given, isAllFinished, swapVars>>

(* Faulty: the end of a component test is not noticed.                     *)
EndTestRecordOnly ==
  /\ pc = "endTest"
  /\ isFinished' = (isFinished \/ "record" \in given)
  /\ pc' = "loop"
  /\ UNCHANGED <<connected, countEnable, timeEnable, totalCount,
                 isPermissionBundle, saves, history, stepVars>>

EndTest ==
  /\ pc = "endTest"
  /\ isFinished' = (isFinished \/ ("component" \in given /\ isAllFinished)
                               \/ "record" \in given)
  /\ pc' = "loop"
  /\ UNCHANGED <<connected, countEnable, timeEnable, totalCount,
                 isPermissionBundle, saves, history, stepVars>>

RunStep ==
  \/ CountStep("order") /\ UNCHANGED stepVars
  \/ OrderInput
  \/ Getc
  \/ SwapOrderInput
  \/ Swipe
  \/ ProtectRightAbility
  \/ EndTest

-----------------------------------------------------------------------------

Main == (RunNext /\ UNCHANGED stepVars) \/ RunStep

Timer == TestTimeout /\ UNCHANGED stepVars

Next ==
  \/ Main
  \/ Timer
  \/ OnPermissionScreenShown /\ UNCHANGED stepVars

Spec == Init /\ [][Next]_vars

-----------------------------------------------------------------------------

TypeOK ==
  /\ FlowTypeOK
  /\ pc \in RunLabels \cup StepLabels
  /\ given \subseteq Kinds
  /\ isAllFinished \in BOOLEAN
  /\ bundleKnown \in BOOLEAN
  /\ Swap!TypeOK

(* When every bundle of a component test is finished, or a recording is    *)
(* over, the run ends, unless permission dialogs keep being reported.  A   *)
(* component test also goes on while ProtectRightAbility keeps failing,    *)
(* which skips the end of the step; a recording is over before it can.     *)
FinishedTestEnds ==
  /\ <>[](~isPermissionBundle)
  /\ \/ "record" \in given
     \/ <>[][~(pc = "protect" /\ pc' = "loop")]_vars
  => (isAllFinished ~> (pc = "done"))

(* A finger never stays on the screen after the run, even when the timer   *)
(* fires in the middle of a swipe, unless a pointer event could not be     *)
(* made: nothing in IntervalSwap lifts the finger then.                    *)
FingerLiftedAtEnd == pc = "done" /\ ~failed => finger = Swap!Lifted

(* With -b the swipes of a run go and come back in turn: the static isBack *)
(* of SwapInput.                                                           *)
GoesAndComesBack == Swap!GoesAndComesBack

=============================================================================
