----------------------------- MODULE TestFlows -----------------------------
(***************************************************************************)
(* The three tests, as WuKongShellCommand starts them                      *)
(* (TestFlowFactory::GetTestFlow): "exec", "focus" or "special".  All work *)
(* on the variables of TestFlow; exec and focus share flags of the same    *)
(* names.                                                                  *)
(***************************************************************************)
EXTENDS TestFlow

CONSTANT Segment  \* the segments of a swipe

ASSUME SegmentAssumption == Segment \in Nat \ {0}

VARIABLES
  command,  \* the command word
  blockAbility, allowList, isAppStarted, inputFlag, pageAllowed,
  abilityAllowed, lastInput,      \* of RandomTestFlow and FocusTestFlow
  given, isAllFinished, bundleKnown, isGoBack, isBack, swapPc, i, from,
  finger, previous, failed        \* of SpecialTestFlow

randomVars == <<blockAbility, allowList, isAppStarted, inputFlag, pageAllowed,
                abilityAllowed, lastInput>>
specialVars == <<given, isAllFinished, bundleKnown, isGoBack, isBack, swapPc,
                 i, from, finger, previous, failed>>
vars == <<command, flowVars, randomVars, specialVars>>

Exec == INSTANCE RandomTestFlow
Focus == INSTANCE FocusTestFlow
Special == INSTANCE SpecialTestFlow

-----------------------------------------------------------------------------

(* What only exec has: "wukong focus" takes -E and never asks for it, and  *)
(* its look at the allow list only changes which input is injected.        *)
execVars == <<blockAbility, allowList, abilityAllowed>>

ExecVarsUnused ==
  blockAbility = FALSE /\ allowList = FALSE /\ abilityAllowed = TRUE

RandomVarsUnused ==
  /\ ExecVarsUnused
  /\ isAppStarted = FALSE /\ inputFlag = TRUE /\ pageAllowed = TRUE
  /\ lastInput = "none"

SpecialVarsUnused ==
  /\ given = {} /\ isAllFinished = FALSE /\ bundleKnown = FALSE
  /\ isGoBack = FALSE /\ Special!Swap!Init

(* GetTestFlow: the flow of the command word.                              *)
Init ==
  \/ command = "exec" /\ Exec!Init /\ SpecialVarsUnused
  \/ command = "focus" /\ Focus!Init /\ ExecVarsUnused /\ SpecialVarsUnused
  \/ command = "special" /\ Special!Init /\ RandomVarsUnused

Main ==
  /\ \/ command = "exec" /\ Exec!Main /\ UNCHANGED specialVars
     \/ command = "focus" /\ Focus!Main /\ UNCHANGED <<execVars, specialVars>>
     \/ command = "special" /\ Special!Main /\ UNCHANGED randomVars
  /\ UNCHANGED command

Timer == TestTimeout /\ UNCHANGED <<command, randomVars, specialVars>>

Permission ==
  OnPermissionScreenShown /\ UNCHANGED <<command, randomVars, specialVars>>

Next == Main \/ Timer \/ Permission

(* The main thread waits for the user: a recording goes on until Enter.    *)
UserAwaited == pc = "getc"

(* The main thread and the timer thread are scheduled; nothing obliges the *)
(* system to show permission dialogs, or the user to press Enter.          *)
Spec ==
  /\ Init /\ [][Next]_vars
  /\ WF_vars(Main /\ ~UserAwaited)
  /\ WF_vars(Timer)

-----------------------------------------------------------------------------

TypeOK ==
  \/ command = "exec" /\ Exec!TypeOK /\ SpecialVarsUnused
  \/ /\ command = "focus"
     /\ Focus!TypeOK /\ ExecVarsUnused /\ SpecialVarsUnused
  \/ command = "special" /\ Special!TypeOK /\ RandomVarsUnused

(* A run with -T ends, and one with -c unless permission dialogs keep being*)
(* reported: each one takes a turn of the loop in which no step is made,   *)
(* but the timer does not wait for the loop.  Neither option ends a        *)
(* recording whose user never presses Enter: RecordInput's OrderInput      *)
(* reads stdin, and the timer only sets a flag.                            *)
RunEnds ==
  /\ []<>(~UserAwaited)
  /\ timed \/ (countEnable /\ <>[](~isPermissionBundle))
  => <>(pc = "done")

(* No event is injected in a step that found a prohibited page on top, but *)
(* for the events of "exec -E", whose answer about the ability replaces    *)
(* the one about the page: SetBlockPage, CheckBlockAbility, InputScene.    *)
BlockedPageRespected ==
  [][/\ pc = "launch" \/ pc = "input"
     /\ ~(pc = "input" /\ command = "exec" /\ blockAbility)
     /\ pc' # pc
     /\ ~pageAllowed
     => lastInput' = "back"]_vars

(* "exec -E" injects no event in a step that found a prohibited ability on *)
(* top.  (focus accepts -E and never looks at the list.)                   *)
NoEventOnBlockedAbility ==
  [][command = "exec" /\ pc = "input" /\ pc' # pc /\ ~abilityAllowed =>
       lastInput' = "back"]_vars

(* When every bundle of a component test is finished, or a recording is    *)
(* over, the run ends (EndTest), but for the exceptions of the special     *)
(* flow.                                                                   *)
FinishedTestEnds == Special!FinishedTestEnds

(* No swipe of a special test leaves a finger on the screen.               *)
FingerLiftedAtEnd == Special!FingerLiftedAtEnd

(* With -b the swipes of a run go and come back in turn: the static isBack *)
(* of SwapInput.                                                           *)
GoesAndComesBack == Special!GoesAndComesBack

=============================================================================
