-------------------------- MODULE TestFlowsProofs --------------------------
(***************************************************************************)
(* Theorems about the three tests, for every set of counts and any number  *)
(* of segments.  First what every flow has in common: an inductive         *)
(* invariant behind CountExact and LateStepsBounded, and the step of the   *)
(* refinement of BoundedRun.  Then that exec, focus and special are such   *)
(* flows, and what each has of its own: prohibited pages and abilities,    *)
(* the finger and the direction of the swipes.                             *)
(***************************************************************************)
EXTENDS TestFlows, TLAPS

(* Where the main thread is when a run that no timer ends is finished.     *)
Closing == {"loop", "report", "disconnect", "done"}

(* The remaining count mirrors the steps made, until the run is finished;  *)
(* only the count finishes a run with -c, but of a test that may end of    *)
(* itself, so the steps are exact then.                                    *)
CountInv ==
  countEnable =>
    /\ ~timed
    /\ ~isFinished => /\ totalCount = limit - steps
                      /\ steps > 0 => steps <= limit
    /\ isFinished /\ ~ownEnd => steps = IF limit > 0 THEN limit ELSE 0

(* Without -T only the main thread finishes a run, and goes to the test of *)
(* the loop.                                                               *)
TimeInv ==
  /\ timeEnable => timed
  /\ isFinished /\ ~timed => pc \in Closing

(* After the step that was let through before the timer fired, the main    *)
(* thread meets the loop's test before it can count another one.           *)
LateInv ==
  /\ late \in {0, 1}
  /\ late = 1 => isFinished /\ pc \notin {"dispatch", "permission", "runStep"}

(* The report is saved once, at the end.                                   *)
SavesInv ==
  /\ saves = IF pc \in {"disconnect", "done"} THEN 1 ELSE 0
  /\ pc \in {"report", "disconnect"} => isFinished

StartInv == pc = "connect" => steps = 0 /\ late = 0

(* FlowTypeOK in two halves, for the two provers.                          *)
FlagsOK ==
  /\ connected \in BOOLEAN
  /\ countEnable \in BOOLEAN
  /\ timeEnable \in BOOLEAN
  /\ isFinished \in BOOLEAN
  /\ isPermissionBundle \in BOOLEAN
  /\ timed \in BOOLEAN
  /\ ownEnd \in BOOLEAN

NumbersOK ==
  /\ totalCount \in Int
  /\ saves \in Nat
  /\ limit \in Int
  /\ steps \in Nat
  /\ late \in Nat

FlowInv ==
  /\ NumbersOK
  /\ CountInv
  /\ TimeInv
  /\ LateInv
  /\ SavesInv
  /\ StartInv

(* The end of a step of a test that ends of itself.                        *)
OwnEnd ==
  /\ pc \notin RunLabels
  /\ ownEnd
  /\ isFinished' = TRUE
  /\ pc' = "loop"
  /\ UNCHANGED <<connected, countEnable, timeEnable, totalCount,
                 isPermissionBundle, saves, history>>

(* A label of the body of a RunStep: it moves on, or ends the step.        *)
BodyStep ==
  /\ pc \notin RunLabels
  /\ \E label : (label = "loop" \/ label \notin RunLabels) /\ Goto(label)

(* A step of a flow: of the shared actions, or of the body of a RunStep,   *)
(* which has labels of its own.                                            *)
FlowAction ==
  \/ RunNext
  \/ \E body : body \notin RunLabels /\ CountStep(body)
  \/ BodyStep
  \/ OwnEnd
  \/ TestTimeout
  \/ OnPermissionScreenShown

-----------------------------------------------------------------------------

(* The types of a flow.                                                    *)
LEMMA FlowTypeSplit == FlowTypeOK <=> FlagsOK /\ NumbersOK
  BY DEF FlowTypeOK, FlagsOK, NumbersOK

(* The initial flags are Booleans.                                         *)
LEMMA FlagsInit == FlowInit => FlagsOK
  BY Zenon DEF FlowInit, FlagsOK

(* No step makes anything else of them.                                    *)
LEMMA FlagsStep == FlagsOK /\ [FlowAction]_flowVars => FlagsOK'
<1> SUFFICES ASSUME FlagsOK, [FlowAction]_flowVars
             PROVE  FlagsOK'
  OBVIOUS
<1> USE DEF FlagsOK
<1>1. CASE Connect
  BY <1>1, Zenon DEF Connect, history
<1>2. CASE LoopTest
  BY <1>2, Zenon DEF LoopTest, history
<1>3. CASE Dispatch
  BY <1>3, Zenon DEF Dispatch, history
<1>4. CASE ClearPermission
  BY <1>4, Zenon DEF ClearPermission, history
<1>5. CASE Finish
  BY <1>5, Zenon DEF Finish, history
<1>6. CASE Disconnect
  BY <1>6, Zenon DEF Disconnect, history
<1>7. CASE \E body : body \notin RunLabels /\ CountStep(body)
  BY <1>7, Zenon DEF CountStep
<1>8. CASE BodyStep
  BY <1>8, Zenon DEF BodyStep, Goto, history
<1>9. CASE OwnEnd
  BY <1>9, Zenon DEF OwnEnd, history
<1>10. CASE TestTimeout
  BY <1>10, Zenon DEF TestTimeout, history
<1>11. CASE OnPermissionScreenShown
  BY <1>11, Zenon DEF OnPermissionScreenShown, history
<1>12. CASE UNCHANGED flowVars
  BY <1>12, Zenon DEF flowVars, history
<1> QED
  BY <1>1, <1>2, <1>3, <1>4, <1>5, <1>6, <1>7, <1>8, <1>9, <1>10, <1>11,
     <1>12
  DEF FlowAction, RunNext

-----------------------------------------------------------------------------

(* The initial states of a flow satisfy the invariant.                     *)
LEMMA FlowInitInv == FlowInit => FlowInv
<1> SUFFICES ASSUME FlowInit
             PROVE  FlowInv
  OBVIOUS
<1>1. ~(countEnable /\ timeEnable)
  BY Zenon DEF FlowInit
<1> QED
  BY <1>1, LimitsAssumption, SMT
  DEF FlowInit, FlowInv, NumbersOK, CountInv, TimeInv, LateInv, SavesInv,
      StartInv, Closing

(* The head of RunStep keeps it: the one step that changes the count.      *)
LEMMA CountStepInv ==
  ASSUME NEW body, body \notin RunLabels, FlowInv, CountStep(body)
  PROVE  FlowInv'
<1> USE DEF FlowInv, NumbersOK, CountStep, RunLabels, Closing
<1>1. NumbersOK'
  BY SMT DEF CountInv
<1>2. CountInv'
  BY SMT DEF CountInv, TimeInv
<1>3. TimeInv'
  BY SMT DEF TimeInv
<1>4. LateInv'
  BY SMT DEF LateInv
<1>5. SavesInv'
  BY SMT DEF SavesInv
<1>6. StartInv'
  BY SMT DEF StartInv
<1> QED
  BY <1>1, <1>2, <1>3, <1>4, <1>5, <1>6

(* Every step of a flow keeps the invariant.                               *)
LEMMA FlowStepInv == FlowInv /\ [FlowAction]_flowVars => FlowInv'
<1> SUFFICES ASSUME FlowInv, [FlowAction]_flowVars
             PROVE  FlowInv'
  OBVIOUS
<1> USE DEF FlowInv, NumbersOK, CountInv, TimeInv, LateInv, SavesInv,
            StartInv, Closing
<1>1. CASE Connect
  BY <1>1, SMT DEF Connect, history
<1>2. CASE LoopTest
  BY <1>2, SMT DEF LoopTest, history
<1>3. CASE Dispatch
  BY <1>3, SMT DEF Dispatch, history
<1>4. CASE ClearPermission
  BY <1>4, SMT DEF ClearPermission, history
<1>5. CASE Finish
  BY <1>5, SMT DEF Finish, history
<1>6. CASE Disconnect
  BY <1>6, SMT DEF Disconnect, history
<1>7. CASE \E body : body \notin RunLabels /\ CountStep(body)
  BY <1>7, CountStepInv
<1>8. CASE BodyStep
  <2> PICK label : /\ label = "loop" \/ label \notin RunLabels
                   /\ Goto(label)
    BY <1>8 DEF BodyStep
  <2> QED
    BY <1>8, SMT DEF BodyStep, Goto, history, RunLabels
<1>9. CASE OwnEnd
  BY <1>9, SMT DEF OwnEnd, history, RunLabels
<1>10. CASE TestTimeout
  BY <1>10, SMT DEF TestTimeout, history
<1>11. CASE OnPermissionScreenShown
  BY <1>11, SMT DEF OnPermissionScreenShown, history
<1>12. CASE UNCHANGED flowVars
  BY <1>12, SMT DEF flowVars, history
<1> QED
  BY <1>1, <1>2, <1>3, <1>4, <1>5, <1>6, <1>7, <1>8, <1>9, <1>10, <1>11,
     <1>12
  DEF FlowAction, RunNext

(* What the invariant is for.                                              *)
LEMMA FlowInvImplies == FlowInv => CountExact /\ LateStepsBounded
  BY SMT DEF FlowInv, NumbersOK, CountInv, LateInv, SavesInv, CountExact,
             LateStepsBounded

-----------------------------------------------------------------------------

(* A flow starts as a bounded run does.                                    *)
LEMMA FlowInitRefines == FlowInit => BR!Init
<1> SUFFICES ASSUME FlowInit
             PROVE  BR!Init
  OBVIOUS
<1>1. /\ countEnable \in BOOLEAN
      /\ timed \in BOOLEAN
      /\ ownEnd \in BOOLEAN
      /\ ~(countEnable /\ timed)
  BY Zenon DEF FlowInit
<1>2. /\ limit \in Int /\ steps = 0 /\ late = 0
      /\ saves = 0 /\ phase = "running"
  BY LimitsAssumption, SMT DEF FlowInit, phase
<1> QED
  BY <1>1, <1>2 DEF BR!Init

(* The head of RunStep is a step, the end of the count, the late step, or  *)
(* nothing, of the bounded run.                                            *)
LEMMA CountStepRefines ==
  ASSUME NEW body, body \notin RunLabels, FlowInv, CountStep(body)
  PROVE  [BR!Next]_(BR!vars)
<1> USE DEF FlowInv, NumbersOK, CountStep, CountInv, TimeInv, LateInv,
            SavesInv, Closing
<1>1. saves = 0 /\ saves' = 0 /\ (isFinished => timed)
  BY SMT
<1>2. CASE countEnable /\ totalCount - 1 < 0
  <2>1. phase = "running" /\ phase' = "closing"
    BY <1>1, <1>2, SMT DEF phase
  <2>2. BR!Complete
    BY <1>1, <1>2, <2>1, SMT DEF BR!Complete, BR!options
  <2> QED
    BY <2>2 DEF BR!Next
<1>3. CASE countEnable /\ ~(totalCount - 1 < 0)
  <2>1. phase = "running" /\ phase' = "running"
    BY <1>1, <1>3, SMT DEF phase
  <2>2. BR!Step
    BY <1>1, <1>3, <2>1, SMT DEF BR!Step, BR!options
  <2> QED
    BY <2>2 DEF BR!Next
<1>4. CASE ~countEnable /\ isFinished
  <2>1. phase = "expired" /\ phase' = "closing"
    BY <1>1, <1>4, SMT DEF phase
  <2>2. BR!LateStep
    BY <1>1, <1>4, <2>1, SMT DEF BR!LateStep, BR!options
  <2> QED
    BY <2>2 DEF BR!Next
<1>5. CASE ~countEnable /\ ~isFinished
  <2>1. phase = "running" /\ phase' = "running"
    BY <1>1, <1>5, SMT DEF phase
  <2> QED
    BY <1>1, <1>5, <2>1, SMT DEF BR!vars
<1> QED
  BY <1>2, <1>3, <1>4, <1>5

(* A test that ends of itself expires or completes, as -T was given or not;*)
(* one that is finished already stays so.                                  *)
LEMMA OwnEndRefines ==
  ASSUME FlowInv, OwnEnd
  PROVE  [BR!Next]_(BR!vars)
<1> USE DEF FlowInv, NumbersOK, CountInv, TimeInv, LateInv, SavesInv, OwnEnd,
            RunLabels, Closing, history
<1>1. saves = 0 /\ saves' = 0
  BY SMT
<1>2. CASE isFinished
  BY <1>1, <1>2, SMT DEF BR!vars, phase
<1>3. CASE ~isFinished /\ timed
  <2>1. phase = "running" /\ phase' = "expired"
    BY <1>1, <1>3, SMT DEF phase
  <2>2. BR!Expire
    BY <1>1, <1>3, <2>1, SMT DEF BR!Expire, BR!options
  <2> QED
    BY <2>2 DEF BR!Next
<1>4. CASE ~isFinished /\ ~timed
  <2>1. phase = "running" /\ phase' = "closing"
    BY <1>1, <1>4, SMT DEF phase
  <2>2. BR!Complete
    BY <1>1, <1>4, <2>1, SMT DEF BR!Complete, BR!options
  <2> QED
    BY <2>2 DEF BR!Next
<1> QED
  BY <1>2, <1>3, <1>4

(* Every step of a flow is a step of the bounded run, or leaves it alone.  *)
LEMMA FlowStepRefines ==
  FlowInv /\ [FlowAction]_flowVars => [BR!Next]_(BR!vars)
<1> SUFFICES ASSUME FlowInv, [FlowAction]_flowVars
             PROVE  [BR!Next]_(BR!vars)
  OBVIOUS
<1> USE DEF FlowInv, NumbersOK, CountInv, TimeInv, LateInv, SavesInv,
            StartInv, Closing
<1>1. CASE Connect
  <2>1. CASE saves' = saves
    BY <1>1, <2>1, SMT DEF Connect, BR!vars, phase, history
  <2>2. CASE saves' # saves
    <3>1. phase \in {"running", "expired"} /\ phase' = "over" /\ steps = 0
      BY <1>1, <2>2, SMT DEF Connect, phase, history
    <3>2. BR!Abort
      BY <1>1, <2>2, <3>1, SMT DEF Connect, BR!Abort, BR!options, history
    <3> QED
      BY <3>2 DEF BR!Next
  <2> QED
    BY <2>1, <2>2
<1>2. CASE LoopTest
  BY <1>2, SMT DEF LoopTest, BR!vars, phase, history
<1>3. CASE Dispatch
  BY <1>3, SMT DEF Dispatch, BR!vars, phase, history
<1>4. CASE ClearPermission
  BY <1>4, SMT DEF ClearPermission, BR!vars, phase, history
<1>5. CASE Finish
  <2>1. phase \in {"expired", "closing"} /\ phase' = "over"
    BY <1>5, SMT DEF Finish, phase, history
  <2>2. BR!Save
    BY <1>5, <2>1, SMT DEF Finish, BR!Save, BR!options, history
  <2> QED
    BY <2>2 DEF BR!Next
<1>6. CASE Disconnect
  BY <1>6, SMT DEF Disconnect, BR!vars, phase, history
<1>7. CASE \E body : body \notin RunLabels /\ CountStep(body)
  BY <1>7, CountStepRefines
<1>8. CASE BodyStep
  BY <1>8, SMT DEF BodyStep, Goto, BR!vars, phase, history
<1>9. CASE OwnEnd
  BY <1>9, OwnEndRefines
<1>10. CASE TestTimeout
  <2>1. CASE phase = "running"
    <3>1. phase' = "expired"
      BY <1>10, <2>1, SMT DEF TestTimeout, phase, history
    <3>2. BR!Expire
      BY <1>10, <2>1, <3>1, SMT DEF TestTimeout, BR!Expire, BR!options,
                                   history
    <3> QED
      BY <3>2 DEF BR!Next
  <2>2. CASE phase # "running"
    BY <1>10, <2>2, SMT DEF TestTimeout, BR!vars, phase, history
  <2> QED
    BY <2>1, <2>2
<1>11. CASE OnPermissionScreenShown
  BY <1>11, SMT DEF OnPermissionScreenShown, BR!vars, phase, history
<1>12. CASE UNCHANGED flowVars
  BY <1>12, SMT DEF flowVars, history, BR!vars, phase
<1> QED
  BY <1>1, <1>2, <1>3, <1>4, <1>5, <1>6, <1>7, <1>8, <1>9, <1>10, <1>11,
     <1>12
  DEF FlowAction, RunNext

-----------------------------------------------------------------------------
(* What the three tests have of the flow is the flow's.                    *)

(* The actions around RunStep are the same in exec,                        *)
LEMMA ExecFlow ==
  /\ Exec!RunNext => RunNext
  /\ \A body : Exec!CountStep(body) => CountStep(body)
  /\ \A label : Exec!Goto(label) => Goto(label)
<1>1. Exec!RunNext => RunNext
  BY DEF RunNext, Connect, LoopTest, Dispatch, ClearPermission, Finish,
         Disconnect, history, Exec!RunNext, Exec!Connect, Exec!LoopTest,
         Exec!Dispatch, Exec!ClearPermission, Exec!Finish, Exec!Disconnect,
         Exec!history
<1>2. ASSUME NEW body, Exec!CountStep(body)
      PROVE  CountStep(body)
  BY <1>2 DEF CountStep, Exec!CountStep
<1>3. ASSUME NEW label, Exec!Goto(label)
      PROVE  Goto(label)
  BY <1>3 DEF Goto, Exec!Goto, history, Exec!history
<1> QED
  BY <1>1, <1>2, <1>3

(* in focus                                                                *)
LEMMA FocusFlow ==
  /\ Focus!RunNext => RunNext
  /\ \A body : Focus!CountStep(body) => CountStep(body)
  /\ \A label : Focus!Goto(label) => Goto(label)
<1>1. Focus!RunNext => RunNext
  BY DEF RunNext, Connect, LoopTest, Dispatch, ClearPermission, Finish,
         Disconnect, history, Focus!RunNext, Focus!Connect, Focus!LoopTest,
         Focus!Dispatch, Focus!ClearPermission, Focus!Finish,
         Focus!Disconnect, Focus!history
<1>2. ASSUME NEW body, Focus!CountStep(body)
      PROVE  CountStep(body)
  BY <1>2 DEF CountStep, Focus!CountStep
<1>3. ASSUME NEW label, Focus!Goto(label)
      PROVE  Goto(label)
  BY <1>3 DEF Goto, Focus!Goto, history, Focus!history
<1> QED
  BY <1>1, <1>2, <1>3

(* and in special.                                                         *)
LEMMA SpecialFlow ==
  /\ Special!RunNext => RunNext
  /\ \A body : Special!CountStep(body) => CountStep(body)
  /\ \A label : Special!Goto(label) => Goto(label)
<1>1. Special!RunNext => RunNext
  BY DEF RunNext, Connect, LoopTest, Dispatch, ClearPermission, Finish,
         Disconnect, history, Special!RunNext, Special!Connect,
         Special!LoopTest, Special!Dispatch, Special!ClearPermission,
         Special!Finish, Special!Disconnect, Special!history
<1>2. ASSUME NEW body, Special!CountStep(body)
      PROVE  CountStep(body)
  BY <1>2 DEF CountStep, Special!CountStep
<1>3. ASSUME NEW label, Special!Goto(label)
      PROVE  Goto(label)
  BY <1>3 DEF Goto, Special!Goto, history, Special!history
<1> QED
  BY <1>1, <1>2, <1>3

(* So are the first states.                                                *)
LEMMA InitIsFlowInit == Init => FlowInit
<1>1. Exec!FlowInit => FlowInit
  BY DEF FlowInit, Exec!FlowInit
<1>2. Focus!FlowInit => FlowInit
  BY DEF FlowInit, Focus!FlowInit
<1>3. Special!FlowInit => FlowInit
  BY DEF FlowInit, Special!FlowInit
<1> QED
  BY <1>1, <1>2, <1>3 DEF Init, Exec!Init, Focus!Init, Special!Init

-----------------------------------------------------------------------------

(* A test may end of itself when it is a component test or a recording,    *)
(* and those are special tests.                                            *)
OwnEndInv ==
  command = "special" => ownEnd = (given \cap {"component", "record"} # {})

(* A step of exec.                                                         *)
LEMMA ExecIsFlowAction == Exec!Main => FlowAction
<1> SUFFICES ASSUME Exec!Main
             PROVE  FlowAction
  OBVIOUS
<1> USE ExecFlow DEF FlowAction, BodyStep, RunLabels
<1>1. CASE Exec!RunNext
  BY <1>1
<1>2. CASE Exec!CountStep("checkPage")
  BY <1>2
<1>3. CASE Exec!SetBlockPage
  BY <1>3, SMT DEF Exec!SetBlockPage
<1>4. CASE Exec!LaunchApp
  BY <1>4, SMT DEF Exec!LaunchApp
<1>5. CASE Exec!DrawEvent
  BY <1>5, SMT DEF Exec!DrawEvent
<1>6. CASE Exec!Input
  BY <1>6, SMT DEF Exec!Input
<1> QED
  BY <1>1, <1>2, <1>3, <1>4, <1>5, <1>6 DEF Exec!Main, Exec!RunStep

(* A step of focus.                                                        *)
LEMMA FocusIsFlowAction == Focus!Main => FlowAction
<1> SUFFICES ASSUME Focus!Main
             PROVE  FlowAction
  OBVIOUS
<1> USE FocusFlow DEF FlowAction, BodyStep, RunLabels
<1>1. CASE Focus!RunNext
  BY <1>1
<1>2. CASE Focus!CountStep("checkPage")
  BY <1>2
<1>3. CASE Focus!SetBlockPage
  BY <1>3, SMT DEF Focus!SetBlockPage
<1>4. CASE Focus!LaunchApp
  BY <1>4, SMT DEF Focus!LaunchApp
<1>5. CASE Focus!Input
  BY <1>5, SMT DEF Focus!Input
<1> QED
  BY <1>1, <1>2, <1>3, <1>4, <1>5 DEF Focus!Main, Focus!RunStep

(* A step of special: its end is that of a test that may end of itself, or *)
(* just the end of a step.                                                 *)
LEMMA SpecialIsFlowAction ==
  ASSUME FlagsOK, OwnEndInv, command = "special", Special!Main
  PROVE  FlowAction
<1> USE SpecialFlow DEF FlowAction, BodyStep, RunLabels
<1>1. CASE Special!RunNext
  BY <1>1
<1>2. CASE Special!CountStep("order")
  BY <1>2
<1>3. CASE Special!OrderInput \/ Special!Getc
  <2>1. pc \in {"order", "getc"} /\ (\/ Special!Goto("loop")
                                   \/ Special!Goto("getc")
                                   \/ Special!Goto(Special!AfterInput))
    BY <1>3, Zenon DEF Special!OrderInput, Special!Getc
  <2> QED
    BY <2>1, SMT DEF Special!AfterInput
<1>4. CASE Special!SwapOrderInput
  BY <1>4, SMT DEF Special!SwapOrderInput
<1>5. CASE Special!Swipe
  <2>1. pc = "swipe" /\ (\/ Special!Goto("swipe")
                         \/ Special!Goto(Special!AfterInput))
    BY <1>5, Zenon DEF Special!Swipe
  <2> QED
    BY <2>1, SMT DEF Special!AfterInput
<1>6. CASE Special!ProtectRightAbility
  <2>1. pc = "protect" /\ (Special!Goto("endTest") \/ Special!Goto("loop"))
    BY <1>6, Zenon DEF Special!ProtectRightAbility
  <2> QED
    BY <2>1, SMT
<1>7. CASE Special!EndTest
  <2> DEFINE ends == \/ "component" \in given /\ isAllFinished
                     \/ "record" \in given
  <2> USE <1>7 DEF Special!EndTest, Special!history, history
  <2>1. /\ pc = "endTest" /\ pc' = "loop"
        /\ UNCHANGED <<connected, countEnable, timeEnable, totalCount,
                       isPermissionBundle, saves, history>>
    OBVIOUS
  <2>2. CASE ends
    <3>1. ownEnd
      BY <2>2 DEF OwnEndInv
    <3>2. isFinished' = TRUE
      BY <2>2, Zenon
    <3> QED
      BY <2>1, <3>1, <3>2 DEF OwnEnd
  <2>3. CASE ~ends
    <3>1. isFinished' = isFinished
      BY <2>3, Zenon DEF FlagsOK
    <3>2. Goto("loop")
      BY <2>1, <3>1 DEF Goto
    <3> QED
      BY <2>1, <3>2
  <2> QED
    BY <2>2, <2>3
<1> QED
  BY <1>1, <1>2, <1>3, <1>4, <1>5, <1>6, <1>7
  DEF Special!Main, Special!RunStep

(* A step of any of the three tests is a step of a flow.                   *)
LEMMA NextIsFlowAction ==
  FlagsOK /\ OwnEndInv /\ [Next]_vars => [FlowAction]_flowVars
<1> SUFFICES ASSUME FlagsOK, OwnEndInv, [Next]_vars
             PROVE  [FlowAction]_flowVars
  OBVIOUS
<1>1. CASE Main
  BY <1>1, ExecIsFlowAction, FocusIsFlowAction, SpecialIsFlowAction DEF Main
<1>2. CASE TestTimeout \/ OnPermissionScreenShown
  BY <1>2 DEF FlowAction
<1>3. CASE UNCHANGED vars
  BY <1>3 DEF vars
<1> QED
  BY <1>1, <1>2, <1>3 DEF Next, Timer, Permission

(* What kind of test it is stays so.                                       *)
LEMMA OwnEndStep ==
  FlagsOK /\ OwnEndInv /\ [Next]_vars => OwnEndInv'
<1> SUFFICES ASSUME FlagsOK, OwnEndInv, [Next]_vars, command' = "special"
             PROVE  OwnEndInv'
  BY DEF OwnEndInv
<1>1. command = "special"
  BY DEF Next, Main, Timer, Permission, vars
<1>2. ownEnd' = ownEnd
  <2>1. [FlowAction]_flowVars
    BY NextIsFlowAction
  <2> QED
    BY <2>1 DEF FlowAction, RunNext, Connect, LoopTest, Dispatch,
       ClearPermission, Finish, Disconnect, CountStep, BodyStep, Goto, OwnEnd,
       TestTimeout, OnPermissionScreenShown, flowVars, history
<1>3. given' = given
  BY <1>1 DEF Next, Main, Timer, Permission, vars, specialVars,
     Special!Main, Special!RunStep, Special!stepVars, Special!testVars,
     Special!OrderInput, Special!Getc, Special!SwapOrderInput,
     Special!Swipe, Special!ProtectRightAbility, Special!EndTest
<1> QED
  BY <1>1, <1>2, <1>3 DEF OwnEndInv

(* Every state of a test satisfies the invariant of the flows.             *)
LEMMA FlowInvHolds == Spec => [](FlowInv /\ FlagsOK /\ OwnEndInv)
<1>1. Init => FlowInv /\ FlagsOK /\ OwnEndInv
  <2>1. Init => OwnEndInv
    BY DEF Init, Exec!Init, Focus!Init, Special!Init, OwnEndInv
  <2> QED
    BY <2>1, InitIsFlowInit, FlowInitInv, FlagsInit
<1>2. FlowInv /\ FlagsOK /\ OwnEndInv /\ [Next]_vars =>
        (FlowInv /\ FlagsOK /\ OwnEndInv)'
  BY NextIsFlowAction, FlowStepInv, FlagsStep, OwnEndStep
<1> QED
  BY <1>1, <1>2, PTL DEF Spec

(* A run of any test with -c n that reaches its report has made exactly n  *)
(* steps, for every n, unless the test may end of itself.                  *)
THEOREM CountCorrect == Spec => []CountExact
<1>1. FlowInv => CountExact
  BY FlowInvImplies
<1> QED
  BY <1>1, FlowInvHolds, PTL

(* At most one step of any test with -T begins after the timer has fired,  *)
(* wherever in the loop it fires.                                          *)
THEOREM LateCorrect == Spec => []LateStepsBounded
<1>1. FlowInv => LateStepsBounded
  BY FlowInvImplies
<1> QED
  BY <1>1, FlowInvHolds, PTL

(* Each of the three tests implements the bounded run, for every count.    *)
THEOREM Refinement == Spec => ImplementsBoundedRun
<1>1. Init => BR!Init
  BY InitIsFlowInit, FlowInitRefines
<1>2. FlowInv /\ FlagsOK /\ OwnEndInv /\ [Next]_vars =>
        [BR!Next]_(BR!vars)
  BY NextIsFlowAction, FlowStepRefines
<1> QED
  BY <1>1, <1>2, FlowInvHolds, PTL DEF Spec, ImplementsBoundedRun, BR!Spec

-----------------------------------------------------------------------------
(* What each test has of its own.                                          *)

(* exec: an event that a look at the page or at the ability has forbidden  *)
(* stays forbidden up to the input, but for the answer about the page with *)
(* -E.                                                                     *)
ExecInv ==
  /\ pc \in RunLabels \cup Exec!StepLabels
  /\ blockAbility \in BOOLEAN
  /\ allowList \in BOOLEAN
  /\ isAppStarted \in BOOLEAN
  /\ inputFlag \in BOOLEAN
  /\ pageAllowed \in BOOLEAN
  /\ abilityAllowed \in BOOLEAN
  /\ lastInput \in {"none", "event", "back"}
  /\ pc \in {"launch", "draw"} => pageAllowed \/ ~inputFlag
  /\ pc = "input" => /\ abilityAllowed \/ ~inputFlag
                     /\ blockAbility \/ pageAllowed \/ ~inputFlag

(* focus: the same of the page, always.                                    *)
FocusInv ==
  /\ pc \in RunLabels \cup Focus!StepLabels
  /\ isAppStarted \in BOOLEAN
  /\ inputFlag \in BOOLEAN
  /\ pageAllowed \in BOOLEAN
  /\ lastInput \in {"none", "event", "back"}
  /\ pc \in {"launch", "input"} => pageAllowed \/ ~inputFlag

(* special: a swipe is under way only in the step that makes it; unless a  *)
(* pointer event failed, the finger is up before and after it; and where   *)
(* the last swipe started is told by isBack, so that the next, which turns *)
(* it over, starts at the other end.                                       *)
SwipeTypes ==
  /\ isGoBack \in BOOLEAN
  /\ isBack \in BOOLEAN
  /\ failed \in BOOLEAN
  /\ from \in {"none", "start", "end"}
  /\ previous \in {"none", "start", "end"}

FingerInv ==
  /\ swapPc \in {"idle", "down", "move", "up"}
  /\ i \in 0 .. Segment
  /\ swapPc = "move" => i < Segment
  /\ finger \in Special!Swap!Lifted .. Segment - 1
  /\ swapPc \in {"idle", "down"} /\ ~failed => finger = Special!Swap!Lifted

TurnInv ==
  isGoBack =>
    /\ from = "none" => isBack /\ swapPc = "idle"
    /\ from # "none" => from = IF isBack THEN "end" ELSE "start"
    /\ swapPc # "idle" =>
         from = IF previous = "start" THEN "end" ELSE "start"

SpecialInv ==
  /\ pc \in RunLabels \cup Special!StepLabels
  /\ swapPc # "idle" => pc = "swipe"
  /\ given \subseteq Special!Kinds
  /\ isAllFinished \in BOOLEAN
  /\ bundleKnown \in BOOLEAN
  /\ SwipeTypes
  /\ FingerInv
  /\ TurnInv

StepInv ==
  \/ command = "exec" /\ ExecInv /\ SpecialVarsUnused
  \/ command = "focus" /\ FocusInv /\ ExecVarsUnused /\ SpecialVarsUnused
  \/ command = "special" /\ SpecialInv /\ RandomVarsUnused

-----------------------------------------------------------------------------

(* Outside RunStep nothing of this changes.                                *)
LEMMA RunNextLabel == RunNext => pc' \in RunLabels
  BY SMT DEF RunNext, Connect, LoopTest, Dispatch, ClearPermission, Finish,
             Disconnect, RunLabels

(* A step of exec keeps what belongs to it.                                *)
LEMMA ExecStep ==
  ASSUME ExecInv, Exec!Main
  PROVE  ExecInv'
<1> USE ExecFlow DEF ExecInv, Exec!StepLabels
<1>1. CASE Exec!RunNext /\ UNCHANGED Exec!stepVars
  <2>1. pc' \in RunLabels
    BY <1>1, RunNextLabel
  <2>2. pc' \notin {"launch", "draw", "input"}
    BY <2>1, SMT DEF RunLabels
  <2> QED
    BY <1>1, <2>1, <2>2, Zenon DEF Exec!stepVars
<1>2. CASE Exec!CountStep("checkPage") /\ UNCHANGED Exec!stepVars
  <2>1. pc' \in {"loop", "checkPage"}
    BY <1>2, SMT DEF CountStep
  <2>2. pc' \notin {"launch", "draw", "input"}
    BY <2>1, SMT
  <2>3. pc' \in RunLabels \cup Exec!StepLabels
    BY <2>1, SMT DEF RunLabels
  <2> QED
    BY <1>2, <2>2, <2>3, Zenon DEF Exec!stepVars
<1>3. CASE Exec!SetBlockPage
  <2>1. pc' \in {"launch", "draw"}
    BY <1>3, SMT DEF Exec!SetBlockPage, Goto
  <2>2. pc' # "input" /\ pc' \in RunLabels \cup Exec!StepLabels
    BY <2>1, SMT DEF RunLabels
  <2>3. PICK allowed \in BOOLEAN : /\ inputFlag' = allowed
                                   /\ pageAllowed' = allowed
    BY <1>3, Zenon DEF Exec!SetBlockPage
  <2>4. /\ inputFlag' \in BOOLEAN /\ pageAllowed' \in BOOLEAN
        /\ pageAllowed' \/ ~inputFlag'
    BY <2>3, Zenon
  <2> QED
    BY <1>3, <2>2, <2>4, Zenon DEF Exec!SetBlockPage
<1>4. CASE Exec!LaunchApp
  <2>1. pc = "launch" /\ pc' \in {"loop", "draw"}
    BY <1>4, SMT DEF Exec!LaunchApp, Goto
  <2>2. pc \in {"launch", "draw"}
    BY <2>1, SMT
  <2>3. pc' # "input" /\ pc' \in RunLabels \cup Exec!StepLabels
    BY <2>1, SMT DEF RunLabels
  <2>4. lastInput' \in {"none", "event", "back"}
    BY <1>4 DEF Exec!LaunchApp, Exec!InputScene
  <2>5. isAppStarted' \in BOOLEAN
    BY <1>4, Zenon DEF Exec!LaunchApp
  <2> QED
    BY <1>4, <2>2, <2>3, <2>4, <2>5, Zenon DEF Exec!LaunchApp
<1>5. CASE Exec!DrawEvent
  <2>1. pc = "draw" /\ pc' \in {"loop", "input"}
    BY <1>5, SMT DEF Exec!DrawEvent, Goto
  <2>2. pc \in {"launch", "draw"} /\ pc' \notin {"launch", "draw"}
        /\ pc' \in RunLabels \cup Exec!StepLabels
    BY <2>1, SMT DEF RunLabels
  <2>3. PICK allowed \in (IF blockAbility THEN BOOLEAN ELSE {TRUE}) :
          /\ abilityAllowed' = allowed
          /\ inputFlag' = IF blockAbility THEN allowed ELSE inputFlag
    BY <1>5 DEF Exec!DrawEvent
  <2>4. CASE blockAbility
    <3>1. allowed \in BOOLEAN
      BY <2>4, Zenon
    <3>2. inputFlag' = allowed /\ abilityAllowed' = allowed
      BY <2>3, <2>4, Zenon
    <3>3. /\ inputFlag' \in BOOLEAN /\ abilityAllowed' \in BOOLEAN
          /\ abilityAllowed' \/ ~inputFlag'
      BY <3>1, <3>2, Zenon
    <3>4. blockAbility'
      BY <1>5, <2>4, Zenon DEF Exec!DrawEvent
    <3> QED
      BY <1>5, <2>2, <3>3, <3>4, Zenon DEF Exec!DrawEvent
  <2>5. CASE ~blockAbility
    <3>1. abilityAllowed' = TRUE /\ inputFlag' = inputFlag
      BY <2>3, <2>5, Zenon
    <3> QED
      BY <1>5, <2>2, <2>5, <3>1, Zenon DEF Exec!DrawEvent
  <2> QED
    BY <2>4, <2>5
<1>6. CASE Exec!Input
  <2>1. pc' = "loop"
    BY <1>6, SMT DEF Exec!Input, Goto
  <2>2. pc' \notin {"launch", "draw", "input"}
        /\ pc' \in RunLabels \cup Exec!StepLabels
    BY <2>1, SMT DEF RunLabels
  <2>3. lastInput' \in {"none", "event", "back"}
    BY <1>6 DEF Exec!Input, Exec!InputScene
  <2> QED
    BY <1>6, <2>2, <2>3, Zenon DEF Exec!Input
<1> QED
  BY <1>1, <1>2, <1>3, <1>4, <1>5, <1>6 DEF Exec!Main, Exec!RunStep

(* A step of focus keeps what belongs to it.                               *)
LEMMA FocusStep ==
  ASSUME FocusInv, Focus!Main
  PROVE  FocusInv'
<1> USE FocusFlow DEF FocusInv, Focus!StepLabels
<1>1. CASE Focus!RunNext /\ UNCHANGED Focus!stepVars
  <2>1. pc' \in RunLabels
    BY <1>1, RunNextLabel
  <2>2. pc' \notin {"launch", "input"}
    BY <2>1, SMT DEF RunLabels
  <2> QED
    BY <1>1, <2>1, <2>2, Zenon DEF Focus!stepVars
<1>2. CASE Focus!CountStep("checkPage") /\ UNCHANGED Focus!stepVars
  <2>1. pc' \in {"loop", "checkPage"}
    BY <1>2, SMT DEF CountStep
  <2>2. pc' \notin {"launch", "input"}
        /\ pc' \in RunLabels \cup Focus!StepLabels
    BY <2>1, SMT DEF RunLabels
  <2> QED
    BY <1>2, <2>2, Zenon DEF Focus!stepVars
<1>3. CASE Focus!SetBlockPage
  <2>1. pc' \in {"launch", "input"}
    BY <1>3, SMT DEF Focus!SetBlockPage, Goto
  <2>2. pc' \in RunLabels \cup Focus!StepLabels
    BY <2>1, SMT DEF RunLabels
  <2>3. PICK allowed \in BOOLEAN : /\ inputFlag' = allowed
                                   /\ pageAllowed' = allowed
    BY <1>3, Zenon DEF Focus!SetBlockPage
  <2>4. /\ inputFlag' \in BOOLEAN /\ pageAllowed' \in BOOLEAN
        /\ pageAllowed' \/ ~inputFlag'
    BY <2>3, Zenon
  <2> QED
    BY <1>3, <2>2, <2>4, Zenon DEF Focus!SetBlockPage
<1>4. CASE Focus!LaunchApp
  <2>1. pc = "launch" /\ pc' \in {"loop", "input"}
    BY <1>4, SMT DEF Focus!LaunchApp, Goto
  <2>2. pc \in {"launch", "input"}
        /\ pc' \in RunLabels \cup Focus!StepLabels
    BY <2>1, SMT DEF RunLabels
  <2>3. lastInput' \in {"none", "event", "back"}
    BY <1>4 DEF Focus!LaunchApp, Focus!InputScene
  <2>4. isAppStarted' \in BOOLEAN
    BY <1>4, Zenon DEF Focus!LaunchApp
  <2> QED
    BY <1>4, <2>2, <2>3, <2>4, Zenon DEF Focus!LaunchApp
<1>5. CASE Focus!Input
  <2>1. pc' = "loop"
    BY <1>5, SMT DEF Focus!Input, Goto
  <2>2. pc' \notin {"launch", "input"}
        /\ pc' \in RunLabels \cup Focus!StepLabels
    BY <2>1, SMT DEF RunLabels
  <2>3. lastInput' \in {"none", "event", "back"}
    BY <1>5 DEF Focus!Input, Focus!InputScene
  <2> QED
    BY <1>5, <2>2, <2>3, Zenon DEF Focus!Input
<1> QED
  BY <1>1, <1>2, <1>3, <1>4, <1>5 DEF Focus!Main, Focus!RunStep

(* A step of special outside its swipe keeps what belongs to it.           *)
LEMMA BodyStepSpecial ==
  ASSUME SpecialInv, pc' \in RunLabels \cup Special!StepLabels,
         swapPc = "idle" \/ pc' = pc, UNCHANGED <<given, Special!swapVars>>,
         isAllFinished' \in BOOLEAN, bundleKnown' \in BOOLEAN
  PROVE  SpecialInv'
<1> USE DEF SpecialInv, Special!swapVars
<1>1. SwipeTypes'
  BY Zenon DEF SwipeTypes
<1>2. FingerInv'
  BY DEF FingerInv
<1>3. TurnInv'
  BY Zenon DEF TurnInv
<1>4. swapPc' # "idle" => pc' = "swipe"
  BY Zenon
<1>5. given' \subseteq Special!Kinds
  BY Zenon
<1> QED
  BY <1>1, <1>2, <1>3, <1>4, <1>5, Zenon

(* A swipe begins.                                                         *)
LEMMA SwapOrderInputStep ==
  ASSUME SpecialInv, Special!SwapOrderInput
  PROVE  SpecialInv'
<1> USE SpecialFlow DEF SpecialInv, Special!SwapOrderInput, Special!testVars,
        Special!Swap!OrderInput
<1>1. pc' = "swipe"
  BY DEF Goto
<1>2. swapPc = "idle" /\ swapPc' = "down" /\ i' = 0
  BY Zenon
<1>3. isBack' \in BOOLEAN
  BY Zenon DEF SwipeTypes
<1>4. from' = IF isBack' THEN "end" ELSE "start"
  BY Zenon
<1>5. SwipeTypes'
  <2>1. from' \in {"none", "start", "end"}
    BY <1>4, SMT
  <2> QED
    BY <1>3, <2>1, Zenon DEF SwipeTypes
<1>6. FingerInv'
  BY <1>2, SegmentAssumption DEF FingerInv
<1>7. TurnInv'
  <2> SUFFICES ASSUME isGoBack
               PROVE  /\ from' # "none"
                      /\ from' = IF previous' = "start" THEN "end" ELSE "start"
    BY <1>4, Zenon DEF TurnInv
  <2>1. isBack' = ~isBack /\ previous' = from
    BY Zenon
  <2>2. CASE isBack
    <3>1. from' = "start" /\ previous' # "start"
      <4>1. from' = "start"
        BY <1>4, <2>1, <2>2, Zenon
      <4>2. from \in {"none", "end"}
        BY <2>2 DEF TurnInv
      <4> QED
        BY <2>1, <4>1, <4>2
    <3> QED
      BY <3>1
  <2>3. CASE ~isBack
    <3>1. from' = "end"
      BY <1>4, <2>1, <2>3, Zenon
    <3>2. from = "start"
      BY <2>3, Zenon DEF TurnInv
    <3> QED
      BY <2>1, <3>1, <3>2
  <2> QED
    BY <2>2, <2>3
<1>8. /\ pc' \in RunLabels \cup Special!StepLabels
      /\ swapPc' # "idle" => pc' = "swipe"
  BY <1>1 DEF Special!StepLabels
<1> QED
  BY <1>5, <1>6, <1>7, <1>8, Zenon

(* A pointer event of a swipe.                                             *)
LEMMA SwipeStep ==
  ASSUME SpecialInv, Special!Swipe
  PROVE  SpecialInv'
<1> USE SpecialFlow DEF SpecialInv, Special!Swipe, Special!testVars
<1> DEFINE pointed == \/ Special!Swap!Down
                      \/ Special!Swap!Move
                      \/ Special!Swap!Up
<1>1. pointed
  OBVIOUS
<1>2. UNCHANGED <<isGoBack, isBack, from, previous>>
  BY <1>1 DEF Special!Swap!Down, Special!Swap!Move, Special!Swap!Up,
              Special!Swap!PointerInput
<1>3. swapPc # "idle"
  BY <1>1 DEF Special!Swap!Down, Special!Swap!Move, Special!Swap!Up
<1>4. SwipeTypes'
  <2>1. failed' = failed \/ failed' = TRUE
    BY <1>1, Zenon DEF Special!Swap!Down, Special!Swap!Move,
                       Special!Swap!Up, Special!Swap!PointerInput
  <2>2. failed' \in BOOLEAN
    BY <2>1, Zenon DEF SwipeTypes
  <2> QED
    BY <1>2, <2>2, Zenon DEF SwipeTypes
<1>5. FingerInv'
  <2> USE SegmentAssumption DEF FingerInv, Special!Swap!PointerInput,
          Special!Swap!Lifted
  <2>1. CASE Special!Swap!Down
    BY <2>1, SMT DEF Special!Swap!Down
  <2>2. CASE Special!Swap!Move
    BY <2>2, SMT DEF Special!Swap!Move
  <2>3. CASE Special!Swap!Up
    BY <2>3, SMT DEF Special!Swap!Up
  <2> QED
    BY <1>1, <2>1, <2>2, <2>3
<1>6. TurnInv'
  BY <1>2, <1>3, Zenon DEF TurnInv
<1>7. pc' \in RunLabels \cup Special!StepLabels
  <2>1. \/ Special!Goto("swipe") \/ Special!Goto(Special!AfterInput)
    BY Zenon
  <2> QED
    BY <2>1 DEF Goto, Special!AfterInput, Special!StepLabels
<1>8. swapPc' # "idle" => pc' = "swipe"
  BY DEF Goto
<1> QED
  BY <1>4, <1>5, <1>6, <1>7, <1>8, Zenon

(* A step of special keeps what belongs to it.                             *)
LEMMA SpecialStep ==
  ASSUME SpecialInv, Special!Main
  PROVE  SpecialInv'
<1> USE SpecialFlow
<1>0. isAllFinished \in BOOLEAN /\ bundleKnown \in BOOLEAN
  BY Zenon DEF SpecialInv
<1>1. CASE Special!RunNext /\ UNCHANGED Special!stepVars
  <2>1. pc' \in RunLabels
    BY <1>1, RunNextLabel
  <2>2. pc \in RunLabels
    BY <1>1 DEF RunNext, Connect, LoopTest, Dispatch, ClearPermission,
                Finish, Disconnect, RunLabels
  <2>3. swapPc = "idle"
    BY <2>2, SMT DEF SpecialInv, RunLabels
  <2> QED
    BY <1>0, <1>1, <2>1, <2>3, BodyStepSpecial, Zenon
    DEF Special!stepVars, Special!testVars
<1>2. CASE Special!CountStep("order") /\ UNCHANGED Special!stepVars
  <2>1. pc = "runStep" /\ pc' \in {"loop", "order"}
    BY <1>2, SMT DEF CountStep
  <2>2. swapPc = "idle"
    BY <2>1, SMT DEF SpecialInv
  <2>3. pc' \in RunLabels \cup Special!StepLabels
    BY <2>1, SMT DEF RunLabels, Special!StepLabels
  <2> QED
    BY <1>0, <1>2, <2>2, <2>3, BodyStepSpecial, Zenon
    DEF Special!stepVars, Special!testVars
<1>3. CASE Special!OrderInput \/ Special!Getc
  <2>1. pc \in {"order", "getc"} /\ (\/ Special!Goto("loop")
                                   \/ Special!Goto("getc")
                                   \/ Special!Goto(Special!AfterInput))
    BY <1>3, Zenon DEF Special!OrderInput, Special!Getc
  <2>2. swapPc = "idle"
    BY <2>1, SMT DEF SpecialInv
  <2>3. pc' \in RunLabels \cup Special!StepLabels
    BY <2>1 DEF Goto, RunLabels, Special!AfterInput, Special!StepLabels
  <2>4. isAllFinished' \in {isAllFinished, TRUE}
    BY <1>3 DEF Special!OrderInput, Special!Getc
  <2>5. isAllFinished' \in BOOLEAN
    BY <1>0, <2>4, Zenon
  <2> QED
    BY <1>0, <1>3, <2>2, <2>3, <2>5, BodyStepSpecial, Zenon
    DEF Special!OrderInput, Special!Getc
<1>4. CASE Special!SwapOrderInput
  BY <1>4, SwapOrderInputStep
<1>5. CASE Special!Swipe
  BY <1>5, SwipeStep
<1>6. CASE Special!ProtectRightAbility
  <2>1. pc = "protect" /\ (Special!Goto("endTest") \/ Special!Goto("loop"))
    BY <1>6, Zenon DEF Special!ProtectRightAbility
  <2>2. swapPc = "idle"
    BY <2>1, SMT DEF SpecialInv
  <2>3. pc' \in RunLabels \cup Special!StepLabels
    BY <2>1 DEF Goto, RunLabels, Special!StepLabels
  <2>4. bundleKnown' \in BOOLEAN
    BY <1>6, Zenon DEF Special!ProtectRightAbility
  <2> QED
    BY <1>0, <1>6, <2>2, <2>3, <2>4, BodyStepSpecial, Zenon
    DEF Special!ProtectRightAbility
<1>7. CASE Special!EndTest
  <2>1. pc = "endTest" /\ pc' = "loop"
    BY <1>7 DEF Special!EndTest
  <2>2. swapPc = "idle"
    BY <2>1, SMT DEF SpecialInv
  <2>3. pc' \in RunLabels \cup Special!StepLabels
    BY <2>1 DEF RunLabels
  <2> QED
    BY <1>0, <1>7, <2>2, <2>3, BodyStepSpecial, Zenon
    DEF Special!EndTest, Special!stepVars, Special!testVars
<1> QED
  BY <1>1, <1>2, <1>3, <1>4, <1>5, <1>6, <1>7
  DEF Special!Main, Special!RunStep

(* The first states.                                                       *)
LEMMA InitStepInv == Init => StepInv
<1>1. FlowInit => pc \in RunLabels
  BY DEF FlowInit, RunLabels
<1>2. pc \in RunLabels => pc \notin {"launch", "draw", "input"}
  BY DEF RunLabels
<1>3. CASE command = "exec" /\ Exec!Init /\ SpecialVarsUnused
  BY <1>1, <1>2, <1>3, InitIsFlowInit, Zenon
  DEF Init, StepInv, ExecInv, Exec!Init
<1>4. CASE /\ command = "focus" /\ Focus!Init
           /\ ExecVarsUnused /\ SpecialVarsUnused
  BY <1>1, <1>2, <1>4, InitIsFlowInit, Zenon
  DEF Init, StepInv, FocusInv, Focus!Init
<1>5. CASE command = "special" /\ Special!Init /\ RandomVarsUnused
  <2>1. pc \in RunLabels
    BY <1>1, <1>5, InitIsFlowInit DEF Init
  <2>2. given \subseteq Special!Kinds
    BY <1>5 DEF Special!Init
  <2> USE DEF Special!Init, Special!Swap!Init
  <2>3. SwipeTypes
    BY <1>5, Zenon DEF SwipeTypes
  <2>4. FingerInv
    BY <1>5, SegmentAssumption, SMT DEF FingerInv, Special!Swap!Lifted
  <2>5. TurnInv
    BY <1>5, Zenon DEF TurnInv
  <2>6. SpecialInv
    BY <1>5, <2>1, <2>2, <2>3, <2>4, <2>5, Zenon DEF SpecialInv
  <2> QED
    BY <1>5, <2>6, Zenon DEF StepInv
<1> QED
  BY <1>3, <1>4, <1>5 DEF Init

(* The other threads change nothing of this.                               *)
LEMMA OthersStepInv ==
  ASSUME StepInv, UNCHANGED <<pc, command, randomVars, specialVars>>
  PROVE  StepInv'
<1> USE DEF StepInv, randomVars, specialVars
<1>1. CASE command = "exec" /\ ExecInv /\ SpecialVarsUnused
  BY <1>1, Zenon DEF ExecInv, SpecialVarsUnused, Special!Swap!Init
<1>2. CASE /\ command = "focus" /\ FocusInv
           /\ ExecVarsUnused /\ SpecialVarsUnused
  BY <1>2, Zenon DEF FocusInv, ExecVarsUnused, SpecialVarsUnused,
                     Special!Swap!Init
<1>3. CASE command = "special" /\ SpecialInv /\ RandomVarsUnused
  BY <1>3, Zenon DEF SpecialInv, SwipeTypes, FingerInv, TurnInv,
                     RandomVarsUnused, ExecVarsUnused
<1> QED
  BY <1>1, <1>2, <1>3

(* Every step keeps what belongs to its test.                              *)
LEMMA NextStepInv == StepInv /\ [Next]_vars => StepInv'
<1> SUFFICES ASSUME StepInv, [Next]_vars
             PROVE  StepInv'
  OBVIOUS
<1>1. CASE command = "exec" /\ Main
  <2>1. ExecInv /\ Exec!Main /\ SpecialVarsUnused
        /\ UNCHANGED <<command, specialVars>>
    BY <1>1 DEF StepInv, Main
  <2>2. ExecInv'
    BY <2>1, ExecStep
  <2>3. SpecialVarsUnused'
    BY <2>1, Zenon DEF SpecialVarsUnused, Special!Swap!Init, specialVars
  <2> QED
    BY <1>1, <2>1, <2>2, <2>3 DEF StepInv
<1>2. CASE command = "focus" /\ Main
  <2>1. FocusInv /\ Focus!Main /\ ExecVarsUnused /\ SpecialVarsUnused
        /\ UNCHANGED <<command, execVars, specialVars>>
    BY <1>2 DEF StepInv, Main
  <2>2. FocusInv'
    BY <2>1, FocusStep
  <2>3. ExecVarsUnused' /\ SpecialVarsUnused'
    BY <2>1, Zenon DEF ExecVarsUnused, execVars, SpecialVarsUnused,
                       Special!Swap!Init, specialVars
  <2> QED
    BY <1>2, <2>1, <2>2, <2>3 DEF StepInv
<1>3. CASE command = "special" /\ Main
  <2>1. SpecialInv /\ Special!Main /\ RandomVarsUnused
        /\ UNCHANGED <<command, randomVars>>
    BY <1>3 DEF StepInv, Main
  <2>2. SpecialInv'
    BY <2>1, SpecialStep
  <2>3. RandomVarsUnused'
    BY <2>1, Zenon DEF RandomVarsUnused, ExecVarsUnused, randomVars
  <2> QED
    BY <1>3, <2>1, <2>2, <2>3 DEF StepInv
<1>4. CASE Timer \/ Permission
  BY <1>4, OthersStepInv
  DEF Timer, Permission, TestTimeout, OnPermissionScreenShown
<1>5. CASE UNCHANGED vars
  BY <1>5, OthersStepInv DEF vars, flowVars
<1> QED
  BY <1>1, <1>2, <1>3, <1>4, <1>5 DEF Next, StepInv

(* Every state of a test satisfies the whole invariant.                    *)
IInv == FlowInv /\ FlagsOK /\ StepInv

LEMMA IInvHolds == Spec => []IInv
<1>1. Spec => []StepInv
  BY InitStepInv, NextStepInv, PTL DEF Spec
<1> QED
  BY <1>1, FlowInvHolds, PTL DEF IInv

-----------------------------------------------------------------------------

(* Every variable of each test keeps its type, whatever the counts.        *)
THEOREM TypeCorrect == Spec => []TypeOK
<1>1. IInv => TypeOK
  <2> SUFFICES ASSUME IInv
               PROVE  TypeOK
    OBVIOUS
  <2> USE DEF IInv, StepInv, RunLabels
  <2>1. Exec!FlowTypeOK /\ Focus!FlowTypeOK /\ Special!FlowTypeOK
    BY Zenon DEF FlagsOK, FlowInv, NumbersOK, Exec!FlowTypeOK,
       Focus!FlowTypeOK, Special!FlowTypeOK
  <2>2. CASE command = "exec"
    <3>1. Exec!TypeOK
      BY <2>1, <2>2, Zenon DEF ExecInv, Exec!TypeOK, Exec!RunLabels
    <3> QED
      BY <2>2, <3>1 DEF TypeOK
  <2>3. CASE command = "focus"
    <3>1. Focus!TypeOK
      BY <2>1, <2>3, Zenon DEF FocusInv, Focus!TypeOK, Focus!RunLabels
    <3> QED
      BY <2>3, <3>1 DEF TypeOK
  <2>4. CASE command = "special"
    <3>1. Special!Swap!TypeOK
      BY <2>4, Zenon
      DEF SpecialInv, SwipeTypes, FingerInv, Special!Swap!TypeOK
    <3>2. Special!TypeOK
      BY <2>1, <2>4, <3>1, Zenon
      DEF SpecialInv, Special!TypeOK, Special!RunLabels
    <3> QED
      BY <2>4, <3>2 DEF TypeOK
  <2> QED
    BY <2>2, <2>3, <2>4
<1> QED
  BY <1>1, IInvHolds, PTL

(* Only InputScene is called where an event may be injected.               *)
LEMMA InjectingStep ==
  ASSUME IInv, Next, pc = "launch" \/ pc = "input", pc' # pc
  PROVE  /\ command = "exec" \/ command = "focus"
         /\ lastInput' = IF inputFlag THEN "event" ELSE "back"
<1>1. Main
  BY DEF Next, Timer, Permission, TestTimeout, OnPermissionScreenShown
<1>2. ~RunNext /\ pc # "runStep"
  BY DEF RunNext, Connect, LoopTest, Dispatch, ClearPermission, Finish,
         Disconnect
<1>3. CASE command = "exec"
  <2>1. Exec!Main
    BY <1>1, <1>3 DEF Main
  <2>2. Exec!LaunchApp \/ Exec!Input
    BY <1>2, <2>1, ExecFlow DEF Exec!Main, Exec!RunStep, Exec!CountStep,
       Exec!SetBlockPage, Exec!DrawEvent
  <2> QED
    BY <1>3, <2>2, Zenon DEF Exec!LaunchApp, Exec!Input, Exec!InputScene
<1>4. CASE command = "focus"
  <2>1. Focus!Main
    BY <1>1, <1>4 DEF Main
  <2>2. Focus!LaunchApp \/ Focus!Input
    BY <1>2, <2>1, FocusFlow DEF Focus!Main, Focus!RunStep, Focus!CountStep,
       Focus!SetBlockPage
  <2> QED
    BY <1>4, <2>2, Zenon DEF Focus!LaunchApp, Focus!Input, Focus!InputScene
<1> QED
  BY <1>3, <1>4 DEF IInv, StepInv, SpecialInv, RunLabels, Special!StepLabels

(* No event is injected in a step that found a prohibited page on top, but *)
(* for the events of "exec -E", wherever the timer and the permission      *)
(* dialogs fall in the step.                                               *)
THEOREM BlockedPageCorrect == Spec => BlockedPageRespected
<1> DEFINE A == /\ pc = "launch" \/ pc = "input"
                /\ ~(pc = "input" /\ command = "exec" /\ blockAbility)
                /\ pc' # pc
                /\ ~pageAllowed
                => lastInput' = "back"
<1>1. IInv /\ [Next]_vars => [A]_vars
  <2> SUFFICES ASSUME IInv, Next, pc = "launch" \/ pc = "input",
                      ~(pc = "input" /\ command = "exec" /\ blockAbility),
                      pc' # pc, ~pageAllowed
               PROVE  lastInput' = "back"
    OBVIOUS
  <2>1. ~inputFlag
    BY InjectingStep DEF IInv, StepInv, ExecInv, FocusInv
  <2> QED
    BY <2>1, InjectingStep, Zenon
<1> QED
  BY <1>1, IInvHolds, PTL DEF Spec, BlockedPageRespected

(* With -E, exec injects no event while an ability of the list is on top.  *)
THEOREM BlockedAbilityCorrect == Spec => NoEventOnBlockedAbility
<1> DEFINE A == command = "exec" /\ pc = "input" /\ pc' # pc
                  /\ ~abilityAllowed => lastInput' = "back"
<1>1. IInv /\ [Next]_vars => [A]_vars
  <2> SUFFICES ASSUME IInv, Next, command = "exec", pc = "input", pc' # pc,
                      ~abilityAllowed
               PROVE  lastInput' = "back"
    OBVIOUS
  <2>1. ~inputFlag
    BY DEF IInv, StepInv, ExecInv
  <2> QED
    BY <2>1, InjectingStep, Zenon
<1> QED
  BY <1>1, IInvHolds, PTL DEF Spec, NoEventOnBlockedAbility

(* No swipe of a special test, of any number of segments, leaves a finger  *)
(* on the screen when the run is over, unless a pointer event failed.      *)
THEOREM FingerCorrect == Spec => []FingerLiftedAtEnd
<1>1. IInv => FingerLiftedAtEnd
  <2> SUFFICES ASSUME IInv, pc = "done", ~failed
               PROVE  finger = Special!Swap!Lifted
    BY DEF FingerLiftedAtEnd, Special!FingerLiftedAtEnd
  <2>1. CASE command = "special"
    BY <2>1, SMT DEF IInv, StepInv, SpecialInv, FingerInv
  <2>2. CASE command # "special"
    BY <2>2, Zenon DEF IInv, StepInv, SpecialVarsUnused, Special!Swap!Init
  <2> QED
    BY <2>1, <2>2
<1> QED
  BY <1>1, IInvHolds, PTL

(* With -b the swipes of a run go and come back in turn, also after one    *)
(* that failed half way.                                                   *)
THEOREM SwipesAlternate == Spec => []GoesAndComesBack
<1>1. IInv => GoesAndComesBack
  <2> SUFFICES ASSUME IInv, isGoBack, swapPc # "idle"
               PROVE  from = IF previous = "start" THEN "end" ELSE "start"
    BY DEF GoesAndComesBack, Special!GoesAndComesBack,
           Special!Swap!GoesAndComesBack
  <2>1. TurnInv
    BY Zenon DEF IInv, StepInv, SpecialInv, SpecialVarsUnused,
                 Special!Swap!Init
  <2> QED
    BY <2>1, Zenon DEF TurnInv
<1> QED
  BY <1>1, IInvHolds, PTL

=============================================================================
