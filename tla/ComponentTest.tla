--------------------------- MODULE ComponentTest ----------------------------
(***************************************************************************)
(* "wukong special -C": the components of some applications, one after the *)
(* other (ComponentInput::OrderInput in the loop of SpecialTestFlow), with *)
(* the connection to the accessibility service.                            *)
(*                                                                         *)
(* What the device shows is not state here: whatever ability or page is    *)
(* asked for may be the answer, as the applications, the user and the      *)
(* inputs change it at any time, also between the two questions of one     *)
(* step.                                                                   *)
(***************************************************************************)
EXTENDS SceneDelegate

CONSTANTS
  Bundles,     \* how many applications -C names; they are 1 .. Bundles
  PagesOf,     \* PagesOf[a]: the pages that may be read while a is on top
  Excluded,    \* Excluded[p]: those that get no input, excluded by -y and -Y
               \* or behind the dialog of the page
  PageBackMax, \* PAGE_BACK_COUNT_MAX
  LaunchMax    \* LANUCH_APP_COUNT_MAX

ASSUME BundlesAssumption == Bundles \in Nat \ {0}
ASSUME LimitsAssumption == PageBackMax \in Nat /\ LaunchMax \in Nat

Bundle == 1 .. Bundles

VARIABLES
  active,      \* inputComponent_ and inputElementInfo_
  isBack,      \* isBack_ of SceneDelegate
  running,     \* bundleRunning_
  finished,    \* bundleFinish_
  pageBack,    \* pageBack_
  launchCount, \* lanuchCount_
  allFinished, \* isAllFinished_
  launchIndex, \* the application of this step
  connected,   \* connected_ of ComponentManager
  link,        \* whether the service serves the program
  pc

testVars == <<running, finished, pageBack, launchCount, allFinished,
              launchIndex>>
sceneVars == <<active, isBack>>
linkVars == <<connected, link>>
vars == <<treeVars, sceneVars, testVars, linkVars, pc>>

Init ==
  /\ TreeInit
  /\ active = NoComponent /\ isBack = FALSE
  /\ running = [i \in Bundle |-> FALSE]
  /\ finished = [i \in Bundle |-> FALSE]
  /\ pageBack = [i \in Bundle |-> 0]
  /\ launchCount = [i \in Bundle |-> 0]
  /\ allFinished = FALSE
  /\ launchIndex = 1
  /\ connected = TRUE /\ link = TRUE
  /\ pc = "launch"

-----------------------------------------------------------------------------
(* CheckLauncherApp: the first application that is not finished, launched  *)
(* unless it was before.                                                   *)

IsNext(i) == ~finished[i] /\ \A j \in 1 .. i - 1 : finished[j]

CheckLauncherApp(i) ==
  /\ pc = "launch"
  /\ IsNext(i)
  /\ launchIndex' = i
  /\ running' = [running EXCEPT ![i] = TRUE]
  /\ pc' = "ability"
  /\ UNCHANGED <<treeVars, sceneVars, linkVars, finished, pageBack,
                 launchCount, allFinished>>

LaunchFails(i) ==
  /\ pc = "launch"
  /\ IsNext(i) /\ ~running[i]
  /\ allFinished' = TRUE
  /\ pc' = "protect"
  /\ UNCHANGED <<treeVars, sceneVars, linkVars, running, finished, pageBack,
                 launchCount, launchIndex>>

NothingToLaunch ==
  /\ pc = "launch"
  /\ \A i \in Bundle : finished[i]
  /\ allFinished' = TRUE
  /\ pc' = "protect"
  /\ UNCHANGED <<treeVars, sceneVars, linkVars, running, finished, pageBack,
                 launchCount, launchIndex>>

-----------------------------------------------------------------------------
(* UpdateComponentInfo, and the scene chosen for the page that was read.   *)

GetTopAbility(a) ==
  /\ pc = "ability"
  /\ MakeAndCheckNewAbility(a)
  /\ active' = IF IsNewBundle(a) THEN NoComponent ELSE active
  /\ pc' = "root"
  /\ UNCHANGED <<isBack, testVars, linkVars>>

(* Less than MINCOVERAGE of the page that was left had an input.           *)
Uncovered(node) == 10 * node.inputs < 9 * node.valid \/ node.valid = 0

(* Back on a page above: the component that led away is taken again while  *)
(* the page below is not covered.  Whether to go back stays as it was.     *)
ContinueSamePage(n) ==
  /\ active' = IF pages[n].last = NoComponent THEN active ELSE pages[n].last
  /\ UNCHANGED isBack

(* NormalScene::SetInputComponent: the first component without an input.   *)
SetAvailable(n, node) ==
  LET open == {c \in Components[node.id] : node.counts[c] = 0}
                \ Excluded[node.id]
  IN  /\ isBack' = (open = {})
      /\ \/ open = {} /\ UNCHANGED active
         \/ \E c \in open : /\ IsFirst(c, open)
                            /\ active' = [page |-> n, component |-> c]

ChooseScene(p) ==
  /\ FindPage(p)
  /\ IF GoesUp(p) /\ Uncovered(pages[page]) THEN ContinueSamePage(page')
     ELSE SetAvailable(page', pages'[page'])

GetRoot(p) ==
  /\ pc = "root"
  /\ link
  /\ p \in PagesOf[ability]
  /\ ChooseScene(p)
  /\ pc' = "act"
  /\ UNCHANGED <<testVars, linkVars>>

(* The application does not answer, or answers too much.                   *)
GetRootFails ==
  /\ pc = "root"
  /\ link
  /\ PageNotRead
  /\ pc' = "check"
  /\ UNCHANGED <<sceneVars, testVars, linkVars>>

(* Faulty: the connection is not closed first, and Connect returns at once *)
(* when it finds connected_ set.                                           *)
ReconnectAtOnce(answer) ==
  IF connected THEN UNCHANGED linkVars
  ELSE link' = answer /\ connected' = answer

(* Disconnect and Connect: registered, connected and called back within    *)
(* two seconds, or not.                                                    *)
ReconnectAccessibility(answer) == link' = answer /\ connected' = answer

NoConnection(answer) ==
  /\ pc = "root"
  /\ ~link
  /\ PageNotRead
  /\ ReconnectAccessibility(answer)
  /\ pc' = "check"
  /\ UNCHANGED <<sceneVars, testVars>>

(* The service goes away; nobody sets connected_.  That it is gone shows   *)
(* only when the root is asked for, so it need not go at another moment.   *)
OnAbilityDisconnected ==
  /\ link /\ pc = "root"
  /\ link' = FALSE
  /\ UNCHANGED <<treeVars, sceneVars, testVars, connected, pc>>

-----------------------------------------------------------------------------
(* A component gets its input, or BACK is pressed.                         *)

Input ==
  /\ pc = "act" /\ ~isBack
  /\ SetInputcomponentIndex(active)
  /\ pageBack' = [pageBack EXCEPT ![launchIndex] = 0]
  /\ launchCount' = [launchCount EXCEPT ![launchIndex] = 0]
  /\ pc' = "check"
  /\ UNCHANGED <<sceneVars, linkVars, running, finished, allFinished,
                 launchIndex>>

InputFails ==
  /\ pc = "act" /\ ~isBack
  /\ pc' = "check"
  /\ UNCHANGED <<treeVars, sceneVars, testVars, linkVars>>

(* JudgeBackResult.  The count is kept up to one above its limit: a         *)
(* relaunch that fails leaves it there.                                    *)
PageBackCount ==
  IF pageBack[launchIndex] > PageBackMax THEN pageBack[launchIndex]
  ELSE pageBack[launchIndex] + 1

GoBack(result) ==
  /\ pc = "act" /\ isBack
  /\ PageBackCount <= PageBackMax
  /\ pageBack' = [pageBack EXCEPT ![launchIndex] = PageBackCount]
  /\ pc' = IF result THEN "check" ELSE "protect"
  /\ UNCHANGED <<treeVars, sceneVars, linkVars, running, finished,
                 launchCount, allFinished, launchIndex>>

RelaunchFails ==
  /\ pc = "act" /\ isBack
  /\ PageBackCount > PageBackMax
  /\ pageBack' = [pageBack EXCEPT ![launchIndex] = PageBackCount]
  /\ pc' = "protect"
  /\ UNCHANGED <<treeVars, sceneVars, linkVars, running, finished,
                 launchCount, allFinished, launchIndex>>

(* Faulty: the launches are not counted.                                   *)
NotCounted(count) == 0

AfterLaunch(count) == IF count + 1 > LaunchMax THEN 0 ELSE count + 1

(* Faulty: the application is given up one launch early.                   *)
RelaunchGivesUpEarly ==
  /\ pc = "act" /\ isBack
  /\ PageBackCount > PageBackMax
  /\ pageBack' = [pageBack EXCEPT ![launchIndex] = 0]
  /\ launchCount' = [launchCount EXCEPT ![launchIndex] = AfterLaunch(@)]
  /\ IF launchCount[launchIndex] + 1 >= LaunchMax
     THEN /\ finished' = [finished EXCEPT ![launchIndex] = TRUE]
          /\ pc' = "protect"
     ELSE UNCHANGED finished /\ pc' = "check"
  /\ UNCHANGED <<treeVars, sceneVars, linkVars, running, allFinished,
                 launchIndex>>

(* After too many launches the application is given up, and the rest of    *)
(* the step with it: whether all are finished is not looked at.            *)
Relaunch ==
  /\ pc = "act" /\ isBack
  /\ PageBackCount > PageBackMax
  /\ pageBack' = [pageBack EXCEPT ![launchIndex] = 0]
  /\ launchCount' = [launchCount EXCEPT ![launchIndex] = AfterLaunch(@)]
  /\ IF launchCount[launchIndex] + 1 > LaunchMax
     THEN /\ finished' = [finished EXCEPT ![launchIndex] = TRUE]
          /\ pc' = "protect"
     ELSE UNCHANGED finished /\ pc' = "check"
  /\ UNCHANGED <<treeVars, sceneVars, linkVars, running, allFinished,
                 launchIndex>>

-----------------------------------------------------------------------------
(* CheckInputFinished and HandleAllBundleStatus.                           *)

InFront == IF ability = NoAbility THEN 0 ELSE BundleOf[ability]

(* Faulty: an application is finished that was never launched.             *)
FinishesAny(i) == CheckBundleFinished /\ i = InFront

Finishes(i) == CheckBundleFinished /\ running[i] /\ i = InFront

Check ==
  /\ pc = "check"
  /\ finished' = [i \in Bundle |-> finished[i] \/ Finishes(i)]
  /\ allFinished' = IF \E i \in Bundle : Finishes(i)
                    THEN \A i \in Bundle : finished'[i] ELSE allFinished
  /\ pc' = "protect"
  /\ UNCHANGED <<treeVars, sceneVars, linkVars, running, pageBack,
                 launchCount, launchIndex>>

-----------------------------------------------------------------------------
(* The rest of SpecialTestFlow::RunStep.                                   *)

Protect ==
  /\ pc = "protect"
  /\ pc' = IF allFinished THEN "done" ELSE "launch"
  /\ UNCHANGED <<treeVars, sceneVars, testVars, linkVars>>

(* ProtectRightAbility fails: the end of the test is not looked at.        *)
ProtectFails ==
  /\ pc = "protect"
  /\ pc' = "launch"
  /\ UNCHANGED <<treeVars, sceneVars, testVars, linkVars>>

Done == pc = "done" /\ UNCHANGED vars

Main ==
  \/ \E i \in Bundle : CheckLauncherApp(i) \/ LaunchFails(i)
  \/ NothingToLaunch
  \/ \E a \in Ability : GetTopAbility(a)
  \/ \E p \in Page : GetRoot(p)
  \/ GetRootFails
  \/ \E answer \in BOOLEAN : NoConnection(answer)
  \/ Input \/ InputFails
  \/ \E result \in BOOLEAN : GoBack(result)
  \/ Relaunch \/ RelaunchFails
  \/ Check
  \/ Protect \/ ProtectFails

Next == Main \/ OnAbilityDisconnected \/ Done

(* The main thread is scheduled; nothing obliges the service to fail.      *)
Spec == Init /\ [][Next]_vars /\ WF_vars(Main)

-----------------------------------------------------------------------------

TypeOK ==
  /\ TreeTypeOK
  /\ active \in [page : Nat, component : Nat] /\ isBack \in BOOLEAN
  /\ running \in [Bundle -> BOOLEAN]
  /\ finished \in [Bundle -> BOOLEAN]
  /\ pageBack \in [Bundle -> 0 .. PageBackMax + 1]
  /\ launchCount \in [Bundle -> 0 .. LaunchMax]
  /\ allFinished \in BOOLEAN
  /\ launchIndex \in Bundle
  /\ connected \in BOOLEAN /\ link \in BOOLEAN
  /\ pc \in {"launch", "ability", "root", "act", "check", "protect", "done"}

(* The applications are tested one after the other, whichever of them is   *)
(* in front: none is launched before those named earlier are finished, and *)
(* none is finished before it was launched (CheckLauncherApp,              *)
(* CheckInputFinished, JudgeBackResult).                                   *)
InOrder ==
  /\ \A i \in Bundle : finished[i] => running[i]
  /\ \A i \in Bundle : running[i] => \A j \in 1 .. i - 1 : finished[j]

(* An application is finished only when it was given up after LaunchMax    *)
(* launches in a row without an input between them, or when every one of   *)
(* its abilities was seen and had as many inputs as its pages have         *)
(* components, or when an ability of it could not be read, which counts    *)
(* for nothing: JudgeBackResult, CheckAbliltyFinished.                     *)
FinishedExplained ==
  [][\A i \in Bundle :
       ~finished[i] /\ finished'[i] /\ missed = 0 =>
         \/ pc = "act" /\ launchCount[i] = LaunchMax
         \/ \A a \in DOMAIN abilities :
              /\ \E n \in DOMAIN pages : pages[n].owner = a
              /\ abilities[a].inputs >= Cardinality(ComponentsOf(a))]_vars

(* What keeps a test busy: a call that fails, a connection lost or refused,*)
(* another application in front, a page that changes in place.             *)
Restless ==
  \/ OnAbilityDisconnected
  \/ pc = "root" /\ ~link /\ ~link' /\ ~connected'
  \/ GetRootFails \/ GoBack(FALSE) \/ RelaunchFails
  \/ InputFails /\ ~Input
  \/ ProtectFails /\ ~Protect
  \/ \E a \in Ability : GetTopAbility(a) /\ IsNewBundle(a)
  \/ \E p \in Page : GetRoot(p) /\ ChangedPage(p)

(* Once nothing of this happens any more, and no new ability was missed,   *)
(* the test ends: every page has an end, and a page that has nothing left  *)
(* is left by BACK or, after some of them, by launching the application    *)
(* again, which is not done for ever.                                      *)
EndsOnceQuiet ==
  <>[][~Restless]_vars /\ [](missed = 0) => <>(pc = "done")

(* README.md: "The control sequentially traverses the test": when the      *)
(* counts say that an application is finished, every component of its      *)
(* pages had an input, as far as its abilities could be read               *)
(* (CheckInputFinished).                                                   *)
TraversesAll ==
  \A i \in Bundle :
    pc = "check" /\ missed = 0 /\ Finishes(i) /\ ~finished[i] =>
      \A n \in DOMAIN pages :
        \A c \in Components[pages[n].id] \ Excluded[pages[n].id] :
          pages[n].counts[c] > 0

=============================================================================
