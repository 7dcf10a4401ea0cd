------------------------ MODULE ComponentTestProofs -------------------------
(***************************************************************************)
(* The applications of a component test are tested in order, for every     *)
(* number of applications and whatever the tree of pages makes of what the *)
(* device shows: the tree decides only which ability is in front and when  *)
(* its counts are full, and the proof uses nothing of either.              *)
(*                                                                         *)
(* Of the tree, for any abilities and pages and whatever the device answers*)
(* when (SceneDelegateProofs): its types, and, while every new ability     *)
(* could be read, that the current page is one of the current ability and  *)
(* that an ability is to get as many inputs as its pages have components.  *)
(***************************************************************************)
EXTENDS ComponentTest, SceneDelegateProofs

(* The part of the types that the order depends on.                        *)
FlagsType ==
  /\ running \in [Bundle -> BOOLEAN]
  /\ finished \in [Bundle -> BOOLEAN]
  /\ launchIndex \in Bundle

(* While a step is under way its application is launched.                  *)
StepOnLaunched ==
  pc \in {"ability", "root", "act", "check"} => running[launchIndex]

(* The inductive invariant.                                                *)
OrderInv == FlagsType /\ StepOnLaunched /\ InOrder

-----------------------------------------------------------------------------

(* Nothing is launched and nothing finished at the start.                  *)
LEMMA OrderInit == Init => OrderInv
  BY BundlesAssumption
  DEF Init, OrderInv, FlagsType, StepOnLaunched, InOrder, Bundle

(* The applications named before one of -C are applications of -C too.     *)
LEMMA EarlierIsBundle ==
  ASSUME NEW i \in Bundle, NEW j \in 1 .. i - 1
  PROVE  j \in Bundle
  BY BundlesAssumption DEF Bundle

(* Only the flags, the index and the place of the step matter.             *)
LEMMA OrderKept ==
  ASSUME OrderInv, UNCHANGED <<running, finished, launchIndex>>,
         pc' \in {"ability", "root", "act", "check"} =>
           pc \in {"ability", "root", "act", "check"}
  PROVE  OrderInv'
  BY DEF OrderInv, FlagsType, StepOnLaunched, InOrder

(* Launching the first application that is not finished.                   *)
LEMMA LaunchKeepsOrder ==
  ASSUME OrderInv, NEW i \in Bundle, CheckLauncherApp(i)
  PROVE  OrderInv'
<1>1. FlagsType'
  BY DEF OrderInv, FlagsType, CheckLauncherApp
<1>2. running'[i]
  BY DEF OrderInv, FlagsType, CheckLauncherApp
<1>3. StepOnLaunched'
  BY <1>2 DEF StepOnLaunched, CheckLauncherApp
<1>4. InOrder'
  <2>1. ASSUME NEW k \in Bundle, finished'[k] PROVE running'[k]
    BY <2>1 DEF OrderInv, FlagsType, InOrder, CheckLauncherApp
  <2>2. ASSUME NEW k \in Bundle, running'[k], NEW j \in 1 .. k - 1
        PROVE  finished'[j]
    BY <2>2 DEF OrderInv, FlagsType, InOrder, CheckLauncherApp, IsNext
  <2> QED
    BY <2>1, <2>2 DEF InOrder
<1> QED
  BY <1>1, <1>3, <1>4 DEF OrderInv

(* Giving an application up, or only counting its launch.                  *)
LEMMA RelaunchKeepsOrder ==
  ASSUME OrderInv, Relaunch
  PROVE  OrderInv'
<1>1. /\ finished' \in [Bundle -> BOOLEAN]
      /\ running' = running /\ launchIndex' = launchIndex
      /\ running[launchIndex]
      /\ \A k \in Bundle : finished[k] => finished'[k]
      /\ \A k \in Bundle : finished'[k] => finished[k] \/ k = launchIndex
  BY DEF OrderInv, FlagsType, StepOnLaunched, Relaunch
<1>2. FlagsType'
  BY <1>1 DEF OrderInv, FlagsType
<1>3. StepOnLaunched'
  BY <1>1 DEF StepOnLaunched
<1>4. InOrder'
  <2>1. ASSUME NEW k \in Bundle, finished'[k] PROVE running'[k]
    BY <1>1, <2>1 DEF OrderInv, FlagsType, InOrder
  <2>2. ASSUME NEW k \in Bundle, running'[k], NEW j \in 1 .. k - 1
        PROVE  finished'[j]
    BY <1>1, <2>2, EarlierIsBundle DEF OrderInv, FlagsType, InOrder
  <2> QED
    BY <2>1, <2>2 DEF InOrder
<1> QED
  BY <1>2, <1>3, <1>4 DEF OrderInv

(* Finishing the application in front, if it is a launched one.            *)
LEMMA CheckKeepsOrder ==
  ASSUME OrderInv, Check
  PROVE  OrderInv'
<1>1. /\ finished' \in [Bundle -> BOOLEAN]
      /\ running' = running /\ launchIndex' = launchIndex
      /\ \A k \in Bundle : finished[k] => finished'[k]
      /\ \A k \in Bundle : finished'[k] => finished[k] \/ running[k]
  BY DEF OrderInv, FlagsType, Check, Finishes
<1>2. FlagsType'
  BY <1>1 DEF OrderInv, FlagsType
<1>3. StepOnLaunched'
  BY DEF StepOnLaunched, Check
<1>4. InOrder'
  <2>1. ASSUME NEW k \in Bundle, finished'[k] PROVE running'[k]
    BY <1>1, <2>1 DEF OrderInv, FlagsType, InOrder
  <2>2. ASSUME NEW k \in Bundle, running'[k], NEW j \in 1 .. k - 1
        PROVE  finished'[j]
    BY <1>1, <2>2, EarlierIsBundle DEF OrderInv, FlagsType, InOrder
  <2> QED
    BY <2>1, <2>2 DEF InOrder
<1> QED
  BY <1>2, <1>3, <1>4 DEF OrderInv

(* Every step keeps the order.                                             *)
LEMMA OrderStep == OrderInv /\ [Next]_vars => OrderInv'
<1> SUFFICES ASSUME OrderInv, [Next]_vars PROVE OrderInv'
  OBVIOUS
<1>1. ASSUME NEW i \in Bundle, CheckLauncherApp(i) PROVE OrderInv'
  BY <1>1, LaunchKeepsOrder
<1>2. ASSUME NEW i \in Bundle, LaunchFails(i) PROVE OrderInv'
  BY <1>2, OrderKept DEF LaunchFails
<1>3. CASE NothingToLaunch
  BY <1>3, OrderKept DEF NothingToLaunch
<1>4. ASSUME NEW a \in Ability, GetTopAbility(a) PROVE OrderInv'
  BY <1>4, OrderKept DEF GetTopAbility, testVars
<1>5. ASSUME NEW p \in Page, GetRoot(p) PROVE OrderInv'
  BY <1>5, OrderKept DEF GetRoot, testVars
<1>6. CASE GetRootFails
  BY <1>6, OrderKept DEF GetRootFails, testVars
<1>7. ASSUME NEW answer \in BOOLEAN, NoConnection(answer) PROVE OrderInv'
  BY <1>7, OrderKept DEF NoConnection, testVars
<1>8. CASE Input
  BY <1>8, OrderKept DEF Input
<1>9. CASE InputFails
  BY <1>9, OrderKept DEF InputFails, testVars
<1>10. ASSUME NEW result \in BOOLEAN, GoBack(result) PROVE OrderInv'
  BY <1>10, OrderKept DEF GoBack
<1>11. CASE Relaunch
  BY <1>11, RelaunchKeepsOrder
<1>12. CASE RelaunchFails
  BY <1>12, OrderKept DEF RelaunchFails
<1>13. CASE Check
  BY <1>13, CheckKeepsOrder
<1>14. CASE Protect
  BY <1>14, OrderKept DEF Protect, testVars
<1>15. CASE ProtectFails
  BY <1>15, OrderKept DEF ProtectFails, testVars
<1>16. CASE OnAbilityDisconnected
  BY <1>16, OrderKept DEF OnAbilityDisconnected, testVars
<1>17. CASE Done \/ UNCHANGED vars
  BY <1>17, OrderKept DEF Done, vars, testVars
<1> QED
  BY <1>1, <1>2, <1>3, <1>4, <1>5, <1>6, <1>7, <1>8, <1>9, <1>10, <1>11,
     <1>12, <1>13, <1>14, <1>15, <1>16, <1>17 DEF Next, Main

(* No application is launched before those named earlier are finished, and *)
(* none is finished before it was launched (CheckLauncherApp,              *)
(* CheckInputFinished, JudgeBackResult).                                   *)
THEOREM TestedInOrder == Spec => []InOrder
<1>1. Spec => []OrderInv
  BY OrderInit, OrderStep, PTL DEF Spec
<1>2. OrderInv => InOrder
  BY DEF OrderInv
<1> QED
  BY <1>1, <1>2, PTL

-----------------------------------------------------------------------------
(* The steps of the test.                                                  *)

(* There is an ability when the root is asked for; a new one has no page   *)
(* before, and has one, or was missed, afterwards.                         *)
PlaceInv ==
  /\ pc = "root" => ability # NoAbility /\ (isNewAbility => page = 0)
  /\ pc # "root" /\ missed = 0 /\ page = 0 => ability = NoAbility

Component == [page : Nat, component : Nat]

Place == {"launch", "ability", "root", "act", "check", "protect", "done"}

StateType ==
  /\ active \in Component /\ isBack \in BOOLEAN
  /\ pageBack \in [Bundle -> 0 .. PageBackMax + 1]
  /\ launchCount \in [Bundle -> 0 .. LaunchMax]
  /\ allFinished \in BOOLEAN
  /\ connected \in BOOLEAN /\ link \in BOOLEAN
  /\ pc \in Place

(* The inductive invariant.                                                *)
PagesInv == TreeInv /\ PlaceInv /\ FlagsType /\ StateType

(* At the start.                                                           *)
LEMMA PagesInit == Init => PagesInv
<1> SUFFICES ASSUME Init PROVE PagesInv
  OBVIOUS
<1>1. TreeInv
  BY TreeInitInv DEF Init
<1>2. PlaceInv
  BY DEF Init, TreeInit, PlaceInv
<1>3. FlagsType
  BY OrderInit DEF OrderInv
<1>4. StateType
  <2>1. active \in Component /\ pc \in Place
    BY DEF Init, Component, Place, NoComponent
  <2>2. /\ isBack \in BOOLEAN /\ allFinished \in BOOLEAN
        /\ connected \in BOOLEAN /\ link \in BOOLEAN
    BY DEF Init
  <2>3. 0 \in 0 .. PageBackMax + 1 /\ 0 \in 0 .. LaunchMax
    BY LimitsAssumption
  <2>4. /\ pageBack \in [Bundle -> 0 .. PageBackMax + 1]
        /\ launchCount \in [Bundle -> 0 .. LaunchMax]
    BY <2>3 DEF Init
  <2> QED
    BY <2>1, <2>2, <2>4 DEF StateType
<1> QED
  BY <1>1, <1>2, <1>3, <1>4 DEF PagesInv

(* The tree stays as it is, while the step is not one that asks for it.    *)
LEMMA TreeKept ==
  ASSUME TreeInv, PlaceInv, UNCHANGED treeVars,
         pc' = pc \/ (pc # "root" /\ pc' # "root")
  PROVE  TreeInv' /\ PlaceInv'
<1>1. PlaceInv'
  BY DEF PlaceInv, treeVars
<1> QED
  BY <1>1, SameTreeVars

(* The component taken again is the one that led away from the page.       *)
LEMMA ContinueType ==
  ASSUME TreeInv, active \in Component, NEW p \in Page, FindPage(p),
         GoesUp(p), ContinueSamePage(page')
  PROVE  active' \in Component
<1>1. page # 0 /\ page \in DOMAIN pages
  BY CurrentPage DEF GoesUp
<1>2. FindSamePageInParent(p)
  BY DEF FindPage, GoesUp, GoesDown, IsUnknown, FindSamePageInChildren,
         CompareComponentInfos
<1>3. page' \in pages[page].above
  BY <1>2 DEF FindSamePageInParent, Above, UpdatePage
<1>4. page' \in DOMAIN pages
  BY <1>1, <1>3 DEF TreeInv, TreeType, HeldInv
<1>5. pages[page'] \in Node
  BY <1>4 DEF TreeInv, TreeType
<1>6. pages[page'].last \in Component
  BY <1>5, NodeFields DEF Component
<1> QED
  BY <1>6 DEF ContinueSamePage

(* The component that is to have its input is one of the page.             *)
LEMMA AvailableType ==
  ASSUME TreeInv', active \in Component, page' # 0,
         SetAvailable(page', pages'[page'])
  PROVE  active' \in Component /\ isBack' \in BOOLEAN
<1>1. page' \in DOMAIN pages' /\ page' \in Nat /\ pages'[page'] \in Node
  BY DEF TreeInv, TreeType
<1>2. pages'[page'].id \in Page
  BY <1>1, NodeFields
<1>3. Components[pages'[page'].id] \subseteq Nat
  BY <1>2, ComponentsAssumption
<1>4. isBack' \in BOOLEAN
  BY DEF SetAvailable
<1>5. active' = active
      \/ \E c \in Components[pages'[page'].id] :
           active' = [page |-> page', component |-> c]
  BY DEF SetAvailable
<1>6. active' \in Component
  BY <1>1, <1>3, <1>5 DEF Component
<1> QED
  BY <1>4, <1>6

(* The page that was read, and what is to be done on it.                   *)
LEMMA GetRootInv ==
  ASSUME PagesInv, NEW p \in Page, GetRoot(p)
  PROVE  TreeInv' /\ PlaceInv' /\ active' \in Component /\ isBack' \in BOOLEAN
<1>1. FindPage(p) /\ ability # NoAbility /\ (isNewAbility => page = 0)
  BY DEF PagesInv, PlaceInv, GetRoot, ChooseScene
<1>2. TreeInv' /\ page' # 0
  BY <1>1, FindPageInv DEF PagesInv
<1>3. PlaceInv'
  BY <1>2 DEF PlaceInv, GetRoot
<1>4. active' \in Component /\ isBack' \in BOOLEAN
  <2>1. CASE GoesUp(p) /\ ContinueSamePage(page')
    BY <1>1, <2>1, ContinueType DEF PagesInv, StateType, ContinueSamePage
  <2>2. CASE SetAvailable(page', pages'[page'])
    BY <1>2, <2>2, AvailableType DEF PagesInv, StateType
  <2> QED
    BY <2>1, <2>2 DEF GetRoot, ChooseScene
<1> QED
  BY <1>2, <1>3, <1>4

(* The elements could not be read, for whatever reason.                    *)
LEMMA NotReadInv ==
  ASSUME PagesInv, PageNotRead, pc' = "check"
  PROVE  TreeInv' /\ PlaceInv'
  BY PageNotReadInv DEF PagesInv, PlaceInv

(* The counters of the way back and of the launches.                       *)
LEMMA CountersType ==
  ASSUME PagesInv
  PROVE  /\ PageBackCount \in 0 .. PageBackMax + 1
         /\ \A n \in 0 .. LaunchMax : AfterLaunch(n) \in 0 .. LaunchMax
<1>1. pageBack[launchIndex] \in 0 .. PageBackMax + 1
  BY DEF PagesInv, FlagsType, StateType
<1> QED
  BY <1>1, LimitsAssumption DEF PageBackCount, AfterLaunch

(* Going back and launching again.                                         *)
LEMMA JudgeBackType ==
  ASSUME PagesInv,
         \/ \E result \in BOOLEAN : GoBack(result)
         \/ Relaunch \/ RelaunchFails
  PROVE  /\ pageBack' \in [Bundle -> 0 .. PageBackMax + 1]
         /\ launchCount' \in [Bundle -> 0 .. LaunchMax]
<1>1. CASE \E result \in BOOLEAN : GoBack(result)
  BY <1>1, CountersType DEF PagesInv, StateType, GoBack
<1>2. CASE RelaunchFails
  BY <1>2, CountersType DEF PagesInv, StateType, RelaunchFails
<1>3. CASE Relaunch
  <2>1. pageBack' \in [Bundle -> 0 .. PageBackMax + 1]
    <3>1. 0 \in 0 .. PageBackMax + 1
      BY LimitsAssumption
    <3> QED
      BY <1>3, <3>1 DEF PagesInv, StateType, Relaunch
  <2>2. launchCount' \in [Bundle -> 0 .. LaunchMax]
    <3>1. launchCount[launchIndex] \in 0 .. LaunchMax
      BY DEF PagesInv, FlagsType, StateType
    <3>2. AfterLaunch(launchCount[launchIndex]) \in 0 .. LaunchMax
      BY <3>1, CountersType
    <3> HIDE DEF AfterLaunch
    <3> QED
      BY <1>3, <3>2 DEF PagesInv, StateType, Relaunch
  <2> QED
    BY <2>1, <2>2
<1> QED
  BY <1>1, <1>2, <1>3

(* Whether all are finished.                                               *)
LEMMA AllFinishedType ==
  ASSUME allFinished \in BOOLEAN, Check
  PROVE  allFinished' \in BOOLEAN
<1>1. CASE \E i \in Bundle : Finishes(i)
  BY <1>1 DEF Check
<1>2. CASE ~\E i \in Bundle : Finishes(i)
  BY <1>2 DEF Check
<1> QED
  BY <1>1, <1>2

-----------------------------------------------------------------------------

(* Every step keeps the tree.                                              *)
LEMMA TreeStep ==
  ASSUME PagesInv, [Next]_vars
  PROVE  TreeInv' /\ PlaceInv'
<1> USE DEF PagesInv
<1>1. ASSUME NEW i \in Bundle, CheckLauncherApp(i) \/ LaunchFails(i)
      PROVE  TreeInv' /\ PlaceInv'
  BY <1>1, TreeKept DEF CheckLauncherApp, LaunchFails
<1>2. CASE NothingToLaunch
  BY <1>2, TreeKept DEF NothingToLaunch
<1>3. ASSUME NEW a \in Ability, GetTopAbility(a)
      PROVE  TreeInv' /\ PlaceInv'
  BY <1>3, GetTopAbilityInv DEF GetTopAbility, PlaceInv
<1>4. ASSUME NEW p \in Page, GetRoot(p) PROVE TreeInv' /\ PlaceInv'
  BY <1>4, GetRootInv
<1>5. CASE GetRootFails
  BY <1>5, NotReadInv DEF GetRootFails
<1>6. ASSUME NEW answer \in BOOLEAN, NoConnection(answer)
      PROVE  TreeInv' /\ PlaceInv'
  BY <1>6, NotReadInv DEF NoConnection
<1>7. CASE Input
  <2>1. SetInputcomponentIndex(active) /\ active \in Component
        /\ pc = "act" /\ pc' = "check"
    BY <1>7 DEF Input, StateType
  <2>2. TreeInv' /\ UNCHANGED <<ability, page, isNewAbility, missed>>
    BY <2>1, InputCountedInv DEF Component
  <2> QED
    BY <2>1, <2>2 DEF PlaceInv
<1>8. CASE InputFails
  BY <1>8, TreeKept DEF InputFails
<1>9. ASSUME NEW result \in BOOLEAN, GoBack(result)
      PROVE  TreeInv' /\ PlaceInv'
  BY <1>9, TreeKept DEF GoBack
<1>10. CASE Relaunch \/ RelaunchFails
  BY <1>10, TreeKept DEF Relaunch, RelaunchFails
<1>11. CASE Check
  BY <1>11, TreeKept DEF Check
<1>12. CASE Protect \/ ProtectFails
  BY <1>12, TreeKept DEF Protect, ProtectFails
<1>13. CASE OnAbilityDisconnected
  BY <1>13, TreeKept DEF OnAbilityDisconnected
<1>14. CASE Done \/ UNCHANGED vars
  BY <1>14, TreeKept DEF Done, vars
<1> QED
  BY <1>1, <1>2, <1>3, <1>4, <1>5, <1>6, <1>7, <1>8, <1>9, <1>10, <1>11,
     <1>12, <1>13, <1>14 DEF Next, Main

(* Every step keeps the types of the rest.                                 *)
LEMMA TypeStep ==
  ASSUME PagesInv, [Next]_vars
  PROVE  StateType'
<1> USE DEF PagesInv, StateType
<1>1. ASSUME NEW i \in Bundle, CheckLauncherApp(i) \/ LaunchFails(i)
      PROVE  StateType'
  BY <1>1 DEF CheckLauncherApp, LaunchFails, sceneVars, linkVars, Place
<1>2. CASE NothingToLaunch
  BY <1>2 DEF NothingToLaunch, sceneVars, linkVars, Place
<1>3. ASSUME NEW a \in Ability, GetTopAbility(a) PROVE StateType'
  <2>1. active' \in Component
    BY <1>3 DEF GetTopAbility, Component, NoComponent
  <2> QED
    BY <1>3, <2>1 DEF GetTopAbility, testVars, linkVars, Place
<1>4. ASSUME NEW p \in Page, GetRoot(p) PROVE StateType'
  <2>1. active' \in Component /\ isBack' \in BOOLEAN
    BY <1>4, GetRootInv
  <2> QED
    BY <1>4, <2>1 DEF GetRoot, testVars, linkVars, Place
<1>5. CASE GetRootFails
  BY <1>5 DEF GetRootFails, sceneVars, testVars, linkVars, Place
<1>6. ASSUME NEW answer \in BOOLEAN, NoConnection(answer) PROVE StateType'
  BY <1>6 DEF NoConnection, ReconnectAccessibility, sceneVars, testVars, Place
<1>7. CASE Input
  <2>1. 0 \in 0 .. PageBackMax + 1 /\ 0 \in 0 .. LaunchMax
    BY LimitsAssumption
  <2> QED
    BY <1>7, <2>1 DEF Input, sceneVars, linkVars, Place
<1>8. CASE InputFails
  BY <1>8 DEF InputFails, sceneVars, testVars, linkVars, Place
<1>9. ASSUME NEW result \in BOOLEAN, GoBack(result) PROVE StateType'
  BY <1>9, JudgeBackType DEF GoBack, sceneVars, linkVars, Place
<1>10. CASE Relaunch \/ RelaunchFails
  BY <1>10, JudgeBackType
  DEF Relaunch, RelaunchFails, sceneVars, linkVars, Place
<1>11. CASE Check
  BY <1>11, AllFinishedType DEF Check, sceneVars, linkVars, Place
<1>12. CASE Protect \/ ProtectFails
  BY <1>12 DEF Protect, ProtectFails, sceneVars, testVars, linkVars, Place
<1>13. CASE OnAbilityDisconnected
  BY <1>13 DEF OnAbilityDisconnected, sceneVars, testVars, Place
<1>14. CASE Done \/ UNCHANGED vars
  BY <1>14 DEF Done, vars, sceneVars, testVars, linkVars, Place
<1> QED
  BY <1>1, <1>2, <1>3, <1>4, <1>5, <1>6, <1>7, <1>8, <1>9, <1>10, <1>11,
     <1>12, <1>13, <1>14 DEF Next, Main

(* The invariant of the tree and the one of the order hold together: the   *)
(* latter gives the types of the flags.                                    *)
LEMMA PagesHold == Spec => [](PagesInv /\ OrderInv)
<1>1. Init => PagesInv /\ OrderInv
  BY PagesInit, OrderInit
<1>2. PagesInv /\ OrderInv /\ [Next]_vars => (PagesInv /\ OrderInv)'
  BY TreeStep, TypeStep, OrderStep DEF PagesInv, OrderInv
<1> QED
  BY <1>1, <1>2, PTL DEF Spec

(* The variables of a component test keep their types: no page, tree or    *)
(* component is ever referred to that is not there, and no count leaves    *)
(* its bounds (TreeManager, ComponentInput).                               *)
THEOREM TypeCorrect == Spec => []TypeOK
<1>1. PagesInv => TypeOK
  <2> SUFFICES ASSUME PagesInv PROVE TypeOK
    OBVIOUS
  <2>1. TreeTypeOK
    BY TreeTyped DEF PagesInv
  <2> QED
    BY <2>1
    DEF PagesInv, FlagsType, StateType, Component, Place, TypeOK
<1> QED
  BY <1>1, PagesHold, PTL

(* While every new ability of an application could be read, the page that  *)
(* is taken for the one on the screen is one of the ability in front,      *)
(* whatever pages were read and left before (MakeAndCheckNewAbility).      *)
THEOREM ScreenIsCurrent == Spec => []OldScreenIsCurrent
<1>1. PagesInv => OldScreenIsCurrent
  BY DEF PagesInv, TreeInv, OwnerInv, OldScreenIsCurrent
<1> QED
  BY <1>1, PagesHold, PTL

-----------------------------------------------------------------------------

(* Every step keeps the counts right, when they fit.                       *)
LEMMA CountStep ==
  ASSUME PagesInv, CountInv, [Next]_vars, CountsFit'
  PROVE  CountInv'
<1> USE DEF PagesInv
<1>1. ASSUME NEW i \in Bundle, CheckLauncherApp(i) \/ LaunchFails(i)
      PROVE  CountInv'
  BY <1>1, CountsUntouched DEF CheckLauncherApp, LaunchFails
<1>2. CASE NothingToLaunch
  BY <1>2, CountsUntouched DEF NothingToLaunch
<1>3. ASSUME NEW a \in Ability, GetTopAbility(a) PROVE CountInv'
  BY <1>3, GetTopAbilityCounts DEF GetTopAbility
<1>4. ASSUME NEW p \in Page, GetRoot(p) PROVE CountInv'
  BY <1>4, FindPageCounts DEF GetRoot, ChooseScene, PlaceInv
<1>5. CASE GetRootFails
  BY <1>5, CountsUntouched DEF GetRootFails
<1>6. ASSUME NEW answer \in BOOLEAN, NoConnection(answer) PROVE CountInv'
  BY <1>6, CountsUntouched DEF NoConnection
<1>7. CASE Input
  BY <1>7, InputCounts DEF Input, StateType, Component
<1>8. CASE InputFails
  BY <1>8, CountsUntouched DEF InputFails
<1>9. ASSUME NEW result \in BOOLEAN, GoBack(result) PROVE CountInv'
  BY <1>9, CountsUntouched DEF GoBack
<1>10. CASE Relaunch \/ RelaunchFails
  BY <1>10, CountsUntouched DEF Relaunch, RelaunchFails
<1>11. CASE Check
  BY <1>11, CountsUntouched DEF Check
<1>12. CASE Protect \/ ProtectFails
  BY <1>12, CountsUntouched DEF Protect, ProtectFails
<1>13. CASE OnAbilityDisconnected
  BY <1>13, CountsUntouched DEF OnAbilityDisconnected
<1>14. CASE Done \/ UNCHANGED vars
  BY <1>14, CountsUntouched DEF Done, vars
<1> QED
  BY <1>1, <1>2, <1>3, <1>4, <1>5, <1>6, <1>7, <1>8, <1>9, <1>10, <1>11,
     <1>12, <1>13, <1>14 DEF Next, Main

(* The counts hold as long as they fit.                                    *)
LEMMA CountsHold == Spec /\ []CountsFit => [](PagesInv /\ CountInv)
<1>1. Init => CountInv
  BY DEF Init, TreeInit, CountInv
<1>2. PagesInv /\ CountInv /\ [Next]_vars /\ CountsFit' => CountInv'
  BY CountStep
<1> QED
  BY <1>1, <1>2, PagesHold, PTL DEF Spec

(* As long as no ability has more components than a uint32_t can count,    *)
(* and every new ability of an application could be read, an ability is to *)
(* get as many inputs as its pages have components: whatever pages change, *)
(* are left and come back, nothing is counted twice, forgotten or taken    *)
(* off below zero (allComponentCount_, UpdateCurrentPage, AddPage).        *)
THEOREM CountsCorrect == Spec /\ []CountsFit => []CountsAgree
<1>1. PagesInv /\ CountInv => CountsAgree
  BY DEF CountInv, Counted, CountsAgree
<1> QED
  BY <1>1, CountsHold, PTL

Explained(i) ==
  \/ pc = "act" /\ launchCount[i] = LaunchMax
  \/ \A a \in DOMAIN abilities :
       /\ \E n \in DOMAIN pages : pages[n].owner = a
       /\ abilities[a].inputs >= Cardinality(ComponentsOf(a))

(* Given up after too many launches.                                       *)
LEMMA GivenUpExplained ==
  ASSUME PagesInv, Relaunch, NEW i \in Bundle, ~finished[i], finished'[i]
  PROVE  Explained(i)
<1>1. /\ launchIndex \in Bundle /\ finished \in [Bundle -> BOOLEAN]
      /\ launchCount[launchIndex] \in 0 .. LaunchMax
  BY DEF PagesInv, FlagsType, StateType
<1>2. i = launchIndex /\ launchCount[launchIndex] + 1 > LaunchMax
  BY <1>1 DEF Relaunch
<1>3. launchCount[i] = LaunchMax
  BY <1>1, <1>2, LimitsAssumption
<1> QED
  BY <1>3 DEF Relaunch, Explained

(* Finished by the counts.                                                 *)
LEMMA CheckedExplained ==
  ASSUME PagesInv, CountInv, Check, missed = 0,
         NEW i \in Bundle, ~finished[i], finished'[i]
  PROVE  Explained(i)
<1>1. pc = "check" /\ CheckBundleFinished
  BY DEF Check, Finishes
<1>2. ASSUME NEW a \in DOMAIN abilities
      PROVE  /\ \E n \in DOMAIN pages : pages[n].owner = a
             /\ abilities[a].inputs >= Cardinality(ComponentsOf(a))
  <2>1. HasTree(a)
    BY <1>1, AbilityAssumption
    DEF PagesInv, PlaceInv, TreeInv, TreeType, OwnerInv
  <2>2. \E n \in DOMAIN pages : pages[n].owner = a
    BY <2>1 DEF HasTree, PagesInv, TreeInv, TreeType
  <2>3. abilities[a].all = Cardinality(ComponentsOf(a))
    BY DEF CountInv, Counted
  <2> QED
    BY <1>1, <2>2, <2>3 DEF CheckBundleFinished
<1> QED
  BY <1>2 DEF Explained

(* No application is finished without a reason: it was given up after      *)
(* LaunchMax launches in a row, or all its abilities had as many inputs as *)
(* their pages have components, as far as they could be read and counted   *)
(* (JudgeBackResult, CheckAbliltyFinished).                                *)
THEOREM FinishedForAReason == Spec /\ []CountsFit => FinishedExplained
<1>1. ASSUME PagesInv, CountInv, [Next]_vars, NEW i \in Bundle,
             ~finished[i], finished'[i], missed = 0
      PROVE  Explained(i)
  <2>1. CASE Relaunch
    BY <1>1, <2>1, GivenUpExplained
  <2>2. CASE Check
    BY <1>1, <2>2, CheckedExplained
  <2>3. CASE UNCHANGED finished
    BY <1>1, <2>3
  <2>4. Relaunch \/ Check \/ UNCHANGED finished
    BY <1>1
    DEF Next, Main, CheckLauncherApp, LaunchFails, NothingToLaunch,
        GetTopAbility, GetRoot, GetRootFails, NoConnection, Input, InputFails,
        GoBack, RelaunchFails, Protect, ProtectFails, OnAbilityDisconnected,
        Done, vars, testVars
  <2> QED
    BY <2>1, <2>2, <2>3, <2>4
<1>2. PagesInv /\ CountInv /\ [Next]_vars =>
        [\A i \in Bundle :
           ~finished[i] /\ finished'[i] /\ missed = 0 => Explained(i)]_vars
  BY <1>1
<1>3. Spec => [][Next]_vars
  BY PTL DEF Spec
<1> QED
  BY <1>2, <1>3, CountsHold, PTL DEF FinishedExplained, Explained

=============================================================================
