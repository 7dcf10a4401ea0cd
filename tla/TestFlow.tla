------------------------------ MODULE TestFlow ------------------------------
(***************************************************************************)
(* The part every test flow shares: WuKongShellCommand::RunTestCommand     *)
(* around TestFlow::Run, the count of -c, the timer thread of -T and the   *)
(* accessibility thread that reports permission dialogs.  The command's    *)
(* own RunStep is added by the modules that extend this one.               *)
(*                                                                         *)
(* Three threads touch the flow: the main thread (its place is pc), the    *)
(* Utils::Timer thread (TestTimeout) and the accessibility thread          *)
(* (OnPermissionScreenShown).  The flags they share are plain bools.       *)
(***************************************************************************)
EXTENDS Integers

CONSTANTS
  Limits,   \* the arguments of -c
  Modes     \* how the end of the run is given: "count" (-c), "time" (-T) or
            \* "default" (neither option)

ASSUME LimitsAssumption == Limits \subseteq Int
ASSUME ModesAssumption == Modes \subseteq {"count", "time", "default"}

VARIABLES
  pc,                  \* where the main thread is
  connected,           \* ComponentManager::connected_
  countEnable,         \* g_commandCOUNTENABLE
  timeEnable,          \* g_commandTIMEENABLE: also, the timer is armed
  totalCount,          \* totalCount_
  isFinished,          \* isFinished_
  isPermissionBundle,  \* g_isPermissionBundle
  saves,               \* calls of Report::Finish
  timed, limit,        \* history: -T was given; the argument of -c
  ownEnd,              \* history: may the test end of itself ?
  steps,               \* history: steps of a run with -c
  late                 \* history: steps begun after the timer fired

history == <<timed, limit, ownEnd, steps, late>>
flowVars == <<pc, connected, countEnable, timeEnable, totalCount, isFinished,
              isPermissionBundle, saves, history>>

(* The values of pc outside RunStep.                                       *)
RunLabels == {"connect", "loop", "dispatch", "permission", "runStep",
              "report", "disconnect", "done"}

FlowInit ==
  /\ pc = "connect"
  /\ connected = FALSE
  /\ \E mode \in Modes :
       /\ countEnable = (mode = "count")
       /\ timeEnable = (mode = "time")
  /\ limit \in Limits
  /\ totalCount = IF countEnable THEN limit ELSE 10
  /\ isFinished = FALSE
  /\ isPermissionBundle = FALSE
  /\ saves = 0
  /\ timed = timeEnable
  /\ ownEnd \in BOOLEAN
  /\ steps = 0
  /\ late = 0

-----------------------------------------------------------------------------
(* The main thread.                                                        *)

Connect ==
  /\ pc = "connect"
  /\ \/ /\ connected' = TRUE
        /\ pc' = "loop"
        /\ UNCHANGED saves
     \/ /\ saves' = saves + 1      \* Connect failed: Finish, then return
        /\ pc' = "done"
        /\ UNCHANGED connected
  /\ UNCHANGED <<countEnable, timeEnable, totalCount, isFinished,
                 isPermissionBundle, history>>

(* Faulty: only the count of -c ends the loop.                             *)
LoopTestCountOnly ==
  /\ pc = "loop"
  /\ pc' = IF isFinished /\ countEnable THEN "report" ELSE "dispatch"
  /\ UNCHANGED <<connected, countEnable, timeEnable, totalCount, isFinished,
                 isPermissionBundle, saves, history>>

LoopTest ==
  /\ pc = "loop"
  /\ pc' = IF isFinished THEN "report" ELSE "dispatch"
  /\ UNCHANGED <<connected, countEnable, timeEnable, totalCount, isFinished,
                 isPermissionBundle, saves, history>>

Dispatch ==
  /\ pc = "dispatch"
  /\ pc' = IF isPermissionBundle THEN "permission" ELSE "runStep"
  /\ UNCHANGED <<connected, countEnable, timeEnable, totalCount, isFinished,
                 isPermissionBundle, saves, history>>

(* PermoissionInput has returned ERR_OK: what was reported meanwhile is    *)
(* forgotten with what was handled.                                        *)
ClearPermission ==
  /\ pc = "permission"
  /\ isPermissionBundle' = FALSE
  /\ pc' = "loop"
  /\ UNCHANGED <<connected, countEnable, timeEnable, totalCount, isFinished,
                 saves, history>>

(* Faulty: the count is tested before it is decremented.                   *)
CountStepPostDecrement(body) ==
  /\ pc = "runStep"
  /\ totalCount' = IF countEnable THEN totalCount - 1 ELSE totalCount
  /\ IF countEnable /\ totalCount < 0
     THEN /\ isFinished' = TRUE
          /\ pc' = "loop"
          /\ UNCHANGED <<steps, late>>
     ELSE /\ pc' = body
          /\ steps' = IF countEnable THEN steps + 1 ELSE steps
          /\ late' = IF isFinished THEN late + 1 ELSE late
          /\ UNCHANGED isFinished
  /\ UNCHANGED <<connected, countEnable, timeEnable, isPermissionBundle,
                 saves, timed, limit, ownEnd>>

(* The head of every RunStep.  body is the label the step goes on at.      *)
CountStep(body) ==
  /\ pc = "runStep"
  /\ totalCount' = IF countEnable THEN totalCount - 1 ELSE totalCount
  /\ IF countEnable /\ totalCount' < 0
     THEN /\ isFinished' = TRUE
          /\ pc' = "loop"
          /\ UNCHANGED <<steps, late>>
     ELSE /\ pc' = body
          /\ steps' = IF countEnable THEN steps + 1 ELSE steps
          /\ late' = IF isFinished THEN late + 1 ELSE late
          /\ UNCHANGED isFinished
  /\ UNCHANGED <<connected, countEnable, timeEnable, isPermissionBundle,
                 saves, timed, limit, ownEnd>>

(* A label of RunStep that leaves what the threads share alone.            *)
Goto(label) ==
  /\ pc' = label
  /\ UNCHANGED <<connected, countEnable, timeEnable, totalCount, isFinished,
                 isPermissionBundle, saves, history>>

Finish ==
  /\ pc = "report"
  /\ saves' = saves + 1
  /\ pc' = "disconnect"
  /\ UNCHANGED <<connected, countEnable, timeEnable, totalCount, isFinished,
                 isPermissionBundle, history>>

Disconnect ==
  /\ pc = "disconnect"
  /\ connected' = FALSE
  /\ pc' = "done"
  /\ UNCHANGED <<countEnable, timeEnable, totalCount, isFinished,
                 isPermissionBundle, saves, history>>

-----------------------------------------------------------------------------
(* The other threads.                                                      *)

(* Faulty: the timer fires without finishing the run.                      *)
TestTimeoutForgets ==
  /\ timeEnable
  /\ timeEnable' = FALSE
  /\ UNCHANGED <<pc, connected, countEnable, totalCount, isFinished,
                 isPermissionBundle, saves, history>>

TestTimeout ==
  /\ timeEnable
  /\ timeEnable' = FALSE
  /\ isFinished' = TRUE
  /\ UNCHANGED <<pc, connected, countEnable, totalCount, isPermissionBundle,
                 saves, history>>

OnPermissionScreenShown ==
  /\ connected
  /\ isPermissionBundle' = TRUE
  /\ UNCHANGED <<pc, connected, countEnable, timeEnable, totalCount,
                 isFinished, saves, history>>

-----------------------------------------------------------------------------

(* What the main thread does outside RunStep's body.                       *)
RunNext ==
  \/ Connect
  \/ LoopTest
  \/ Dispatch
  \/ ClearPermission
  \/ Finish
  \/ Disconnect

FlowTypeOK ==
  /\ connected \in BOOLEAN
  /\ countEnable \in BOOLEAN
  /\ timeEnable \in BOOLEAN
  /\ totalCount \in Int
  /\ isFinished \in BOOLEAN
  /\ isPermissionBundle \in BOOLEAN
  /\ saves \in Nat
  /\ timed \in BOOLEAN
  /\ ownEnd \in BOOLEAN
  /\ limit \in Int
  /\ steps \in Nat
  /\ late \in Nat

(* A run with -c n that gets as far as its report has made exactly n steps *)
(* (none when n is negative), however many of them failed and however many *)
(* permission dialogs were handled in between, unless it is of a test that *)
(* may end of itself: TestFlow::Run's loop and the count kept by RunStep.  *)
CountExact ==
  countEnable /\ ~ownEnd /\ pc \in {"report", "disconnect"} =>
    steps = IF limit > 0 THEN limit ELSE 0

(* Once the timer of -T has set isFinished_, at most one more step begins: *)
(* the one whose loop test came before.                                    *)
LateStepsBounded == late <= 1

(* The promise of BoundedRun, read off the variables of the flow.          *)
phase ==
  CASE saves > 0                              -> "over"
    [] saves = 0 /\ ~isFinished               -> "running"
    [] saves = 0 /\ isFinished /\ timed /\ late = 0 -> "expired"
    [] OTHER                                  -> "closing"

BR == INSTANCE BoundedRun WITH counted <- countEnable

(* A flow keeps the promise of a bounded run: never more steps than -c     *)
(* allows, at most one after the timer has fired (BoundedRun's late is that*)
(* of the flow, and has one action that counts), and one report: the loop  *)
(* of TestFlow::Run with each of the three RunSteps.                       *)
ImplementsBoundedRun == BR!Spec

=============================================================================
