--------------------------- MODULE FocusTestFlow ----------------------------
(***************************************************************************)
(* "wukong focus": the flow that stays on one component for several        *)
(* inputs.  Its RunStep is that of "wukong exec" without the look at the   *)
(* ability on top: -E is accepted and stored, and never asked again.       *)
(***************************************************************************)
EXTENDS TestFlow

VARIABLES
  isAppStarted,    \* g_isAppStarted; true from the start with -r 1
  inputFlag,       \* RunStep's local
  pageAllowed,     \* history: what this step's SetBlockPage answered
  lastInput        \* history: what InputScene did last

stepVars == <<isAppStarted, inputFlag, pageAllowed, lastInput>>
vars == <<flowVars, stepVars>>

StepLabels == {"checkPage", "launch", "input"}

Init ==
  /\ FlowInit
  /\ ownEnd = FALSE
  /\ isAppStarted \in BOOLEAN
  /\ inputFlag = TRUE
  /\ pageAllowed = TRUE
  /\ lastInput = "none"

-----------------------------------------------------------------------------

(* Faulty: the flag is not looked at.                                      *)
InputSceneAlways(flag) == "event"

InputScene(flag) == IF flag THEN "event" ELSE "back"

(* The page shown is in the built-in list or not; -d is not looked at.     *)
SetBlockPage ==
  /\ pc = "checkPage"
  /\ \E allowed \in BOOLEAN : /\ inputFlag' = allowed
                              /\ pageAllowed' = allowed
  /\ Goto(IF isAppStarted THEN "input" ELSE "launch")
  /\ UNCHANGED <<isAppStarted, lastInput>>

LaunchApp ==
  /\ pc = "launch"
  /\ lastInput' = InputScene(inputFlag)
  /\ \/ /\ inputFlag
        /\ Goto("loop")
        /\ UNCHANGED isAppStarted
     \/ /\ isAppStarted' = TRUE
              /\ Goto("input")
  /\ UNCHANGED <<inputFlag, pageAllowed>>

(* ProtectRightAbility only replaces the event by an application switch.   *)
Input ==
  /\ pc = "input"
  /\ lastInput' = InputScene(inputFlag)
  /\ Goto("loop")
  /\ UNCHANGED <<isAppStarted, inputFlag, pageAllowed>>

RunStep ==
  \/ CountStep("checkPage") /\ UNCHANGED stepVars
  \/ SetBlockPage
  \/ LaunchApp
  \/ Input

-----------------------------------------------------------------------------

Main == (RunNext /\ UNCHANGED stepVars) \/ RunStep

Timer == TestTimeout /\ UNCHANGED stepVars

Next ==
  \/ Main
  \/ Timer
  \/ OnPermissionScreenShown /\ UNCHANGED stepVars

Spec == Init /\ [][Next]_vars

-----------------------------------------------------------------------------

TypeOK ==
  /\ FlowTypeOK
  /\ pc \in RunLabels \cup StepLabels
  /\ isAppStarted \in BOOLEAN
  /\ inputFlag \in BOOLEAN
  /\ pageAllowed \in BOOLEAN
  /\ lastInput \in {"none", "event", "back"}

(* No event is injected in a step that found a page of the built-in list   *)
(* on top: SetBlockPage and InputScene.                                    *)
NoEventOnBlockedPage ==
  [][(pc = "launch" \/ pc = "input") /\ pc' # pc /\ ~pageAllowed =>
       lastInput' = "back"]_vars

=============================================================================
