--------------------------- MODULE RandomTestFlow ---------------------------
(***************************************************************************)
(* "wukong exec": the random test flow.  Each RunStep looks at the page    *)
(* shown, launches an application if none was started yet, looks at the    *)
(* ability on top when -E was given, draws an event, and either injects it *)
(* or presses the back key.                                                *)
(***************************************************************************)
EXTENDS TestFlow

VARIABLES
  blockAbility,  \* g_commandBLOCKABILITYENABLE
  allowList,     \* -b was given, without -e
  isAppStarted,  \* g_isAppStarted; true from the start with -r 1
  inputFlag,     \* RunStep's local: may the event be injected?
  pageAllowed,   \* history: what this step's SetBlockPage answered
  abilityAllowed,\* history: what this step's CheckBlockAbility answered
  lastInput      \* history: what InputScene did last

stepVars == <<blockAbility, allowList, isAppStarted, inputFlag, pageAllowed,
              abilityAllowed, lastInput>>
vars == <<flowVars, stepVars>>

StepLabels == {"checkPage", "launch", "draw", "input"}

Init ==
  /\ FlowInit
  /\ ownEnd = FALSE
  /\ blockAbility \in BOOLEAN
  /\ allowList \in BOOLEAN
  /\ isAppStarted \in BOOLEAN
  /\ inputFlag = TRUE
  /\ pageAllowed = TRUE
  /\ abilityAllowed = TRUE
  /\ lastInput = "none"

-----------------------------------------------------------------------------
(* RunStep, in the order of its calls.                                     *)

(* Faulty: the flag is not looked at.                                      *)
InputSceneAlways(flag) == "event"

(* InputScene: the event when the flag allows it, else the back key.       *)
InputScene(flag) == IF flag THEN "event" ELSE "back"

SetBlockPage ==
  /\ pc = "checkPage"
  /\ \E allowed \in BOOLEAN : /\ inputFlag' = allowed
                              /\ pageAllowed' = allowed
  /\ abilityAllowed' = TRUE
  /\ Goto(IF isAppStarted THEN "draw" ELSE "launch")
  /\ UNCHANGED <<blockAbility, allowList, isAppStarted, lastInput>>

(* The first event is an application switch.  Only an injected one can     *)
(* fail; pressing back counts as a start.                                  *)
LaunchApp ==
  /\ pc = "launch"
  /\ lastInput' = InputScene(inputFlag)
  /\ \/ /\ inputFlag
        /\ Goto("loop")
        /\ UNCHANGED isAppStarted
     \/ /\ isAppStarted' = TRUE
        /\ Goto("draw")
  /\ UNCHANGED <<blockAbility, allowList, inputFlag, pageAllowed,
                 abilityAllowed>>

(* CheckBlockAbility replaces the answer of SetBlockPage.  With an allow   *)
(* list, ProtectRightAbility ends the step when the launcher is on top and *)
(* a touch or an element was drawn.                                        *)
DrawEvent ==
  /\ pc = "draw"
  /\ \E allowed \in (IF blockAbility THEN BOOLEAN ELSE {TRUE}) :
       /\ abilityAllowed' = allowed
       /\ inputFlag' = IF blockAbility THEN allowed ELSE inputFlag
  /\ \/ Goto("input")
     \/ allowList /\ Goto("loop")
  /\ UNCHANGED <<blockAbility, allowList, isAppStarted, pageAllowed,
                 lastInput>>

Input ==
  /\ pc = "input"
  /\ lastInput' = InputScene(inputFlag)
  /\ Goto("loop")
  /\ UNCHANGED <<blockAbility, allowList, isAppStarted, inputFlag,
                 pageAllowed, abilityAllowed>>

RunStep ==
  \/ CountStep("checkPage") /\ UNCHANGED stepVars
  \/ SetBlockPage
  \/ LaunchApp
  \/ DrawEvent
  \/ Input

-----------------------------------------------------------------------------

Main == (RunNext /\ UNCHANGED stepVars) \/ RunStep

Timer == TestTimeout /\ UNCHANGED stepVars

Next ==
  \/ Main
  \/ Timer
  \/ OnPermissionScreenShown /\ UNCHANGED stepVars

Spec == Init /\ [][Next]_vars

-----------------------------------------------------------------------------

TypeOK ==
  /\ FlowTypeOK
  /\ pc \in RunLabels \cup StepLabels
  /\ blockAbility \in BOOLEAN
  /\ allowList \in BOOLEAN
  /\ isAppStarted \in BOOLEAN
  /\ inputFlag \in BOOLEAN
  /\ pageAllowed \in BOOLEAN
  /\ abilityAllowed \in BOOLEAN
  /\ lastInput \in {"none", "event", "back"}

(* No event is injected in a step that found a prohibited page (-d, or one *)
(* of the built-in system pages) on top: SetBlockPage and InputScene.      *)
NoEventOnBlockedPage ==
  [][(pc = "launch" \/ pc = "input") /\ pc' # pc /\ ~pageAllowed =>
       lastInput' = "back"]_vars

(* What is left of that promise: it is kept by the application switch a    *)
(* step may begin with, and without -E by its event as well.               *)
BlockedPageRespected ==
  [][/\ pc = "launch" \/ (pc = "input" /\ ~blockAbility)
     /\ pc' # pc
     /\ ~pageAllowed
     => lastInput' = "back"]_vars

(* No event is injected in a step that found an ability of the -E list on  *)
(* top: CheckBlockAbility and InputScene.                                  *)
NoEventOnBlockedAbility ==
  [][pc = "input" /\ pc' # pc /\ ~abilityAllowed =>
       lastInput' = "back"]_vars

=============================================================================
