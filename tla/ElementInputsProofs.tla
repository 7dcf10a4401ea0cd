------------------------ MODULE ElementInputsProofs -------------------------
(***************************************************************************)
(* Of the inputs to components that exec and focus mix with their other    *)
(* events, for any applications and whatever the device shows when: a page *)
(* never keeps a higher count of a component than the inputs it had, and   *)
(* so BACK for a page that is done is never pressed too early.             *)
(***************************************************************************)
EXTENDS ElementInputs, SceneDelegateProofs

(* There is an ability when the root is asked for; a new one has no page   *)
(* before, and has one, or was missed, afterwards.  What to do is chosen   *)
(* for a page.                                                             *)
PlaceInv ==
  /\ pc = "root" => ability # NoAbility /\ (isNewAbility => page = 0)
  /\ pc # "root" /\ missed = 0 /\ page = 0 => ability = NoAbility
  /\ pc = "act" => page # 0

SceneType ==
  /\ command \in {"exec", "focus"}
  /\ pc \in {"ability", "root", "act"}
  /\ isBack \in BOOLEAN
  /\ inputList \subseteq Component
  /\ draw \in {"none", "new", "old", "back"}

(* The index that is kept for a page path, and for how many inputs.        *)
IndexType ==
  /\ DOMAIN indices = DOMAIN inputCounts /\ DOMAIN indices \subseteq Path
  /\ \A path \in DOMAIN indices :
       indices[path] \in Draws /\ inputCounts[path] \in 1 .. FocusNum + 1

FocusType == IndexType /\ lastType \in {""} \cup {TypeOf[c] : c \in Component}

(* What a page keeps of its components, they had.                          *)
CountedInv ==
  /\ got \in [Component -> 0 .. InputCap]
  /\ \A n \in DOMAIN pages : \A c \in DOMAIN pages[n].counts :
       pages[n].counts[c] <= got[c]

(* The inductive invariant.                                                *)
IInv ==
  TreeInv /\ PlaceInv /\ SceneType /\ FocusType /\ CountedInv /\ BackMeansDone

-----------------------------------------------------------------------------

(* The components of a page have counts, and had inputs, in bounds.        *)
LEMMA PageCounts ==
  ASSUME TreeInv, NEW n \in DOMAIN pages
  PROVE  /\ pages[n].id \in Page
         /\ pages[n].counts \in [Components[pages[n].id] -> 0 .. InputCap]
<1>1. pages[n] \in Node
  BY DEF TreeInv, TreeType
<1> QED
  BY <1>1, NodeFields

(* A component of a page is a component, and a number.                     *)
LEMMA OfPage ==
  ASSUME NEW p \in Page, NEW c \in Components[p]
  PROVE  c \in Component /\ c \in Nat
  BY ComponentsAssumption DEF Component

(* A page that goes on to count keeps the order of the two counts.         *)
LEMMA CountMonotone ==
  ASSUME NEW cap \in Nat, NEW m \in 0 .. cap, NEW n \in 0 .. cap, m <= n
  PROVE  /\ Count(m, cap) <= Count(n, cap) /\ m <= Count(n, cap)
         /\ Count(n, cap) \in 0 .. cap
  BY DEF Count

(* The scene of focus finds the page as the one of exec does.              *)
LEMMA FocusFindsPage ==
  ASSUME NEW p \in Page, FocusChooseScene(p)
  PROVE  FindPage(p)
<1>1. FocusCompareComponentInfos(p) => CompareComponentInfos(p)
  BY DEF FocusCompareComponentInfos, CompareComponentInfos
<1> QED
  BY <1>1 DEF FocusChooseScene, FindPage, FocusSamePageInParent,
              FindSamePageInParent, FocusSamePageInChildren,
              FindSamePageInChildren

-----------------------------------------------------------------------------
(* The counts of the pages.                                                *)

(* Another ability on top: pages are kept as they are, or all dropped.     *)
LEMMA TopAbilityCounted ==
  ASSUME TreeInv, CountedInv, NEW a \in Ability, MakeAndCheckNewAbility(a),
         got' = IF IsNewBundle(a) THEN [c \in Component |-> 0] ELSE got
  PROVE  CountedInv'
<1>1. CASE IsNewBundle(a) /\ NewBundle(a)
  <2>1. pages' = <<>> /\ got' = [c \in Component |-> 0]
    BY <1>1 DEF NewBundle
  <2> QED
    BY <2>1, CountsAssumption DEF CountedInv
<1>2. CASE ~IsNewBundle(a)
  <2>1. got' = got
    BY <1>2
  <2>2. pages' = pages \/ pages' = HeldPages
    BY <1>2 DEF MakeAndCheckNewAbility, SameAbility, NewAbility, OldAbility
  <2> QED
    BY <2>1, <2>2, HeldPagesRemain DEF CountedInv
<1>3. IsNewBundle(a) => NewBundle(a)
  <2>1. a = ability \/ a \in DOMAIN abilities => ~IsNewBundle(a)
    BY AbilityAssumption DEF IsNewBundle, TreeInv, TreeType
  <2> QED
    BY <2>1 DEF MakeAndCheckNewAbility
<1> QED
  BY <1>1, <1>2, <1>3

(* A page that is new has no counts yet.                                   *)
LEMMA AddPageCounted ==
  ASSUME TreeInv, CountedInv, NEW p \in Page, AddPage(p), got' = got
  PROVE  CountedInv'
<1> DEFINE n == Len(HeldPages) + 1
<1>1. /\ DOMAIN pages' = 1 .. n /\ n \in Nat
      /\ DOMAIN HeldPages = 1 .. n - 1
      /\ \A k \in DOMAIN HeldPages : /\ pages'[k] = HeldPages[k]
                                     /\ k \in DOMAIN pages
                                     /\ HeldPages[k] = pages[k]
      /\ pages'[n].counts = [c \in Components[p] |-> 0]
  BY HeldPagesRemain DEF AddPage
<1>2. ASSUME NEW k \in DOMAIN pages', NEW c \in DOMAIN pages'[k].counts
      PROVE  pages'[k].counts[c] <= got[c]
  <2>1. CASE k = n
    BY <1>1, <1>2, <2>1, OfPage DEF CountedInv
  <2>2. CASE k # n
    <3>1. pages'[k] = pages[k] /\ k \in DOMAIN pages
      BY <1>1, <2>2
    <3> QED
      BY <1>2, <3>1 DEF CountedInv
  <2> QED
    BY <2>1, <2>2
<1> QED
  BY <1>2 DEF CountedInv

(* A page that has changed keeps counts, and adds none.                    *)
LEMMA UpdatePageCounted ==
  ASSUME TreeInv, CountedInv, NEW p \in Page, NEW n \in DOMAIN pages,
         UpdatePage(n, p), got' = got
  PROVE  CountedInv'
<1> DEFINE node == [pages[n] EXCEPT !.id = p, !.counts = CountsKept(@, p)]
<1>1. pages[n] \in Node
  BY DEF TreeInv, TreeType
<1>2. /\ DOMAIN pages' = DOMAIN pages
      /\ pages'[n].counts = CountsKept(pages[n].counts, p)
      /\ \A k \in DOMAIN pages : k # n => pages'[k] = pages[k]
  <2>1. pages' = [pages EXCEPT ![n] = node]
    BY <1>1 DEF UpdatePage, Node, NodeType, TreeInv, TreeType
  <2>2. node.counts = CountsKept(pages[n].counts, p)
    BY <1>1 DEF Node, NodeType
  <2> HIDE DEF node
  <2> QED
    BY <2>1, <2>2
<1>3. ASSUME NEW c \in Components[p]
      PROVE  CountsKept(pages[n].counts, p)[c] <= got[c]
  <2>1. got[c] \in Nat
    BY OfPage DEF CountedInv
  <2>2. CASE c \in DOMAIN pages[n].counts
    BY <2>2 DEF CountsKept, CountedInv
  <2>3. CASE c \notin DOMAIN pages[n].counts
    BY <2>1, <2>3 DEF CountsKept
  <2> QED
    BY <2>2, <2>3
<1>4. DOMAIN CountsKept(pages[n].counts, p) = Components[p]
  BY DEF CountsKept
<1>5. ASSUME NEW k \in DOMAIN pages', NEW c \in DOMAIN pages'[k].counts
      PROVE  pages'[k].counts[c] <= got[c]
  <2>1. CASE k = n
    BY <1>2, <1>3, <1>4, <1>5, <2>1
  <2>2. CASE k # n
    BY <1>2, <1>5, <2>2 DEF CountedInv
  <2> QED
    BY <2>1, <2>2
<1> QED
  BY <1>5 DEF CountedInv

(* The page that was read becomes the current one.                         *)
LEMMA FindPageCounted ==
  ASSUME TreeInv, CountedInv, NEW p \in Page, FindPage(p), got' = got
  PROVE  CountedInv'
<1>1. CASE UNCHANGED <<pages, page, roots, abilities>>
  BY <1>1 DEF CountedInv
<1>2. CASE FindSamePageInParent(p)
  <2>1. PICK n \in pages[page].above : UpdatePage(n, p)
    BY <1>2 DEF FindSamePageInParent, Above
  <2>2. page # 0 /\ page \in DOMAIN pages
    BY <1>2, CurrentPage DEF FindSamePageInParent, GoesUp
  <2>3. n \in DOMAIN pages
    BY <2>1, <2>2 DEF TreeInv, TreeType, HeldInv
  <2> QED
    BY <2>1, <2>3, UpdatePageCounted
<1>3. CASE FindSamePageInChildren(p)
  <2>1. PICK n \in DOMAIN pages : UpdatePage(n, p)
    BY <1>3 DEF FindSamePageInChildren, Below, Children
  <2> QED
    BY <2>1, UpdatePageCounted
<1>4. CASE ChangedPage(p) /\ UpdatePage(page, p)
  <2>1. page \in DOMAIN pages
    BY <1>4, CurrentPage DEF ChangedPage
  <2> QED
    BY <1>4, <2>1, UpdatePageCounted
<1>5. CASE AddPage(p)
  BY <1>5, AddPageCounted
<1> QED
  BY <1>1, <1>2, <1>3, <1>4, <1>5 DEF FindPage, CompareComponentInfos

(* An input is counted for the component, and on the page that has it.     *)
LEMMA PressedCounted ==
  ASSUME TreeInv, CountedInv, NEW c \in Component, Pressed(c)
  PROVE  CountedInv'
<1> DEFINE
      input == [page |-> page, component |-> c]
      counted(n) ==
        IF n = input.page /\ input.component \in DOMAIN pages[n].counts
        THEN [pages[n] EXCEPT !.counts[input.component] = Count(@, InputCap)]
        ELSE pages[n]
<1>1. /\ DOMAIN got' = Component
      /\ \A d \in Component :
           got'[d] = IF d = c THEN Count(got[c], InputCap) ELSE got[d]
  BY DEF Pressed, CountedInv
<1>2. \A d \in Component :
        /\ got[d] \in 0 .. InputCap /\ got'[d] \in 0 .. InputCap
        /\ got[d] <= got'[d]
  <2>1. \A d \in Component : got[d] \in 0 .. InputCap
    BY DEF CountedInv
  <2>2. /\ Count(got[c], InputCap) \in 0 .. InputCap
        /\ got[c] <= Count(got[c], InputCap)
    BY <2>1, CountMonotone, CountsAssumption
  <2> QED
    BY <1>1, <2>1, <2>2
<1>3. got' \in [Component -> 0 .. InputCap]
  BY <1>1, <1>2 DEF Pressed, CountedInv
<1>4. /\ DOMAIN pages' = DOMAIN pages
      /\ \A n \in DOMAIN pages :
           pages'[n] = IF n = page
                       THEN [counted(n) EXCEPT
                               !.inputs = Count(@, counted(n).valid),
                               !.last = input]
                       ELSE counted(n)
  BY DEF Pressed, SetInputcomponentIndex
<1>5. ASSUME NEW n \in DOMAIN pages
      PROVE  /\ pages'[n].counts = counted(n).counts
             /\ DOMAIN counted(n).counts = DOMAIN pages[n].counts
             /\ \A d \in DOMAIN pages[n].counts :
                  \/ counted(n).counts[d] = pages[n].counts[d]
                  \/ d = c /\ counted(n).counts[d]
                                = Count(pages[n].counts[d], InputCap)
  <2>1. pages[n] \in Node
    BY DEF TreeInv, TreeType
  <2>2. /\ counted(n) \in [DOMAIN pages[n] ->
                             {counted(n)[f] : f \in DOMAIN pages[n]}]
        /\ DOMAIN pages[n] = {"id", "above", "held", "counts", "inputs",
                              "valid", "last", "owner"}
    BY <2>1 DEF Node, NodeType
  <2> QED
    BY <1>4, <2>1, <2>2 DEF Node, NodeType
<1> HIDE DEF counted
<1>6. ASSUME NEW n \in DOMAIN pages, NEW d \in DOMAIN pages[n].counts
      PROVE  pages'[n].counts[d] <= got'[d]
  <2>1. /\ d \in Component /\ pages[n].counts[d] \in 0 .. InputCap
        /\ pages[n].counts[d] <= got[d]
    BY PageCounts, OfPage DEF CountedInv
  <2>2. CASE pages'[n].counts[d] = pages[n].counts[d]
    BY <1>2, <2>1, <2>2
  <2>3. CASE d = c /\ pages'[n].counts[d]
                        = Count(pages[n].counts[d], InputCap)
    BY <1>1, <1>2, <2>1, <2>3, CountMonotone, CountsAssumption
  <2> QED
    BY <1>5, <2>2, <2>3
<1> QED
  BY <1>3, <1>4, <1>5, <1>6 DEF CountedInv

-----------------------------------------------------------------------------
(* What is chosen on the page that was read.                               *)

(* To go back, other than by chance, means that the counts of the page are *)
(* full for every component that is not blocked.                           *)
LEMMA BackIsChosen ==
  ASSUME TreeInv', CountedInv', page' # 0,
         \/ /\ command = "exec"
            /\ \E class \in {"new", "old", "back"} :
                 SetInputComponentList(class)
         \/ command = "focus" /\ SetInputComponentListForFocusInput,
         command' = command
  PROVE  BackMeansDone'
<1> DEFINE id == pages'[page'].id
<1>1. /\ page' \in DOMAIN pages' /\ id \in Page
      /\ DOMAIN Here.counts = Components[id]
      /\ \A c \in Components[id] :
           /\ Here.counts[c] \in 0 .. InputCap /\ c \in Component
           /\ Here.counts[c] <= got'[c] /\ got'[c] \in 0 .. InputCap
  <2>1. page' \in DOMAIN pages' /\ pages'[page'] \in Node
    BY DEF TreeInv, TreeType
  <2>2. /\ id \in Page
        /\ Here.counts \in [Components[id] -> 0 .. InputCap]
    BY <2>1, NodeFields DEF Here
  <2>3. \A c \in Components[id] : c \in Component
    BY <2>2, OfPage
  <2> QED
    BY <2>1, <2>2, <2>3 DEF CountedInv, Here
<1> HIDE DEF id
<1> SUFFICES ASSUME isBack', draw' # "back",
                    NEW c \in Components[id] \ Blocked
             PROVE  got'[c] >= IF command = "exec" THEN MaxInputNum + 1
                               ELSE Limit(c)
  BY DEF BackMeansDone, Limit, NeedFocus, id
<1>2. CASE /\ command = "exec"
           /\ \E class \in {"new", "old", "back"} :
                SetInputComponentList(class)
  <2>1. PICK class \in {"new", "old", "back"} : SetInputComponentList(class)
    BY <1>2
  <2>2. class = "new" /\ Kept("new") = {}
    BY <1>1, <2>1 DEF SetInputComponentList
  <2>3. ~(Here.counts[c] <= MaxInputNum)
    BY <1>1, <2>2 DEF Kept
  <2>4. Here.counts[c] >= MaxInputNum + 1
    BY <1>1, <2>3, MaxInputNumAssumption
  <2> QED
    BY <1>1, <1>2, <2>4, MaxInputNumAssumption
<1>3. CASE command = "focus" /\ SetInputComponentListForFocusInput
  <2>1. Here.counts[c] >= Limit(c)
    BY <1>1, <1>3 DEF SetInputComponentListForFocusInput, AllDone
  <2>2. Limit(c) \in Nat
    BY FocusNumAssumption, MaxInputNumAssumption DEF Limit
  <2> QED
    BY <1>1, <1>3, <2>1, <2>2
<1> QED
  BY <1>2, <1>3

-----------------------------------------------------------------------------
(* The steps.                                                              *)

(* At the start.                                                           *)
LEMMA InitInv == Init => IInv
<1> SUFFICES ASSUME Init PROVE IInv
  OBVIOUS
<1>1. TreeInv
  BY TreeInitInv DEF Init
<1>2. PlaceInv /\ SceneType /\ BackMeansDone
  BY DEF Init, TreeInit, PlaceInv, SceneType, BackMeansDone
<1>3. FocusType
  BY DEF Init, FocusType, IndexType
<1>4. CountedInv
  <2>1. pages = <<>> /\ got = [c \in Component |-> 0]
    BY DEF Init, TreeInit
  <2> QED
    BY <2>1, CountsAssumption DEF CountedInv
<1> QED
  BY <1>1, <1>2, <1>3, <1>4 DEF IInv

(* UpdateComponentInfo: the ability.                                       *)
LEMMA GetTopAbilityStep ==
  ASSUME IInv, NEW a \in Ability, GetTopAbility(a)
  PROVE  IInv'
<1>1. /\ pc = "ability" /\ pc' = "root" /\ MakeAndCheckNewAbility(a)
      /\ UNCHANGED <<command, isBack, inputList, draw, focusVars>>
      /\ got' = IF IsNewBundle(a) THEN [c \in Component |-> 0] ELSE got
  BY DEF GetTopAbility
<1>2. /\ TreeInv' /\ ability' # NoAbility
      /\ isNewAbility' => page' = 0
  BY <1>1, GetTopAbilityInv DEF IInv, PlaceInv
<1>3. CountedInv'
  BY <1>1, TopAbilityCounted DEF IInv
<1>4. PlaceInv' /\ BackMeansDone'
  BY <1>1, <1>2 DEF PlaceInv, BackMeansDone
<1>5. SceneType' /\ FocusType'
  BY <1>1 DEF IInv, SceneType, FocusType, IndexType, focusVars
<1> QED
  BY <1>2, <1>3, <1>4, <1>5 DEF IInv

(* The root is not read.                                                   *)
LEMMA GetRootFailsStep ==
  ASSUME IInv, GetRootFails
  PROVE  IInv'
<1>1. /\ PageNotRead /\ pc' = "ability"
      /\ UNCHANGED <<command, isBack, inputList, focusVars, draw, got>>
  BY DEF GetRootFails
<1>2. TreeInv' /\ PlaceInv' /\ BackMeansDone'
  BY <1>1, PageNotReadInv DEF IInv, PlaceInv, BackMeansDone
<1>3. CountedInv'
  BY <1>1 DEF IInv, CountedInv, PageNotRead
<1>4. SceneType' /\ FocusType'
  BY <1>1 DEF IInv, SceneType, FocusType, IndexType, focusVars
<1> QED
  BY <1>2, <1>3, <1>4 DEF IInv

(* The page, and what is to be done on it.                                 *)
LEMMA GetRootStep ==
  ASSUME IInv, NEW p \in Page, GetRoot(p)
  PROVE  IInv'
<1>1. /\ pc = "root" /\ pc' = "act" /\ FindPage(p)
      /\ UNCHANGED <<command, focusVars, got>>
  BY FocusFindsPage DEF GetRoot, RandomChooseScene
<1>2. \/ /\ command = "exec"
         /\ \E class \in {"new", "old", "back"} :
              SetInputComponentList(class)
      \/ command = "focus" /\ SetInputComponentListForFocusInput
  BY DEF GetRoot, RandomChooseScene, FocusChooseScene
<1>3. TreeInv' /\ page' # 0
  BY <1>1, FindPageInv DEF IInv, PlaceInv
<1>4. CountedInv'
  BY <1>1, FindPageCounted DEF IInv
<1>5. PlaceInv'
  BY <1>1, <1>3 DEF PlaceInv
<1>6. BackMeansDone'
  BY <1>1, <1>2, <1>3, <1>4, BackIsChosen
<1>7. SceneType'
  <2>1. DOMAIN Here.counts \subseteq Component
    <3>1. pages'[page'] \in Node
      BY <1>3 DEF TreeInv, TreeType
    <3> QED
      BY <3>1, NodeFields, OfPage DEF Here
  <2>2. inputList' \subseteq DOMAIN Here.counts
    <3>1. \A class : Kept(class) \subseteq DOMAIN Here.counts
      BY DEF Kept
    <3> QED
      BY <1>2, <3>1
      DEF SetInputComponentList, SetInputComponentListForFocusInput
  <2>3. isBack' \in BOOLEAN
    <3>1. AllDone \in BOOLEAN
      BY DEF AllDone
    <3> QED
      BY <1>2, <3>1
      DEF SetInputComponentList, SetInputComponentListForFocusInput
  <2>4. draw' \in {"none", "new", "old", "back"}
    BY <1>2 DEF SetInputComponentList, SetInputComponentListForFocusInput
  <2> QED
    BY <1>1, <2>1, <2>2, <2>3, <2>4 DEF IInv, SceneType
<1>8. FocusType'
  BY <1>1 DEF IInv, FocusType, IndexType, focusVars
<1> QED
  BY <1>3, <1>4, <1>5, <1>6, <1>7, <1>8 DEF IInv

(* A component has its input.                                              *)
LEMMA PressedInv ==
  ASSUME IInv, pc = "act", NEW c \in Component, Pressed(c), EndOfStep
  PROVE  TreeInv' /\ CountedInv' /\ PlaceInv' /\ SceneType' /\ BackMeansDone'
<1>1. [page |-> page, component |-> c] \in [page : Nat, component : Nat]
  <2>1. page \in Nat
    BY DEF IInv, TreeInv, TreeType
  <2>2. c \in Nat
    BY OfPage DEF Component
  <2> QED
    BY <2>1, <2>2
<1>2. TreeInv' /\ UNCHANGED <<ability, page, isNewAbility, missed>>
  BY <1>1, InputCountedInv DEF Pressed, IInv
<1>3. CountedInv'
  BY PressedCounted DEF IInv
<1>4. PlaceInv' /\ SceneType' /\ BackMeansDone'
  BY <1>2 DEF IInv, PlaceInv, SceneType, BackMeansDone, EndOfStep
<1> QED
  BY <1>2, <1>3, <1>4

(* Or nothing has: BACK, or an input that fails.                           *)
LEMMA NothingPressedInv ==
  ASSUME IInv, pc = "act", UNCHANGED <<treeVars, got>>, EndOfStep
  PROVE  TreeInv' /\ CountedInv' /\ PlaceInv' /\ SceneType' /\ BackMeansDone'
<1>1. TreeInv'
  BY SameTreeVars DEF IInv
<1>2. CountedInv'
  BY DEF IInv, CountedInv, treeVars
<1>3. PlaceInv' /\ SceneType' /\ BackMeansDone'
  BY DEF IInv, PlaceInv, SceneType, BackMeansDone, EndOfStep, treeVars
<1> QED
  BY <1>1, <1>2, <1>3

(* An index is kept for one input more than FocusNum at most.              *)
LEMMA FocusCounted ==
  ASSUME NEW f \in Nat \ {0}, NEW n \in 1 .. f + 1, n % (f + 1) # 0
  PROVE  n + 1 \in 1 .. f + 1
<1>1. (f + 1) % (f + 1) = 0
  OBVIOUS
<1>2. n # f + 1
  BY <1>1
<1> QED
  BY <1>2

(* The page path has the index that was drawn, or keeps the one it has.    *)
LEMMA IndexKept ==
  ASSUME IInv, pc = "act", NEW number \in Draws,
         \/ FindInputComponentIndex(number)
         \/ UNCHANGED <<inputCounts, indices>>
  PROVE  IndexType'
<1>1. /\ DOMAIN indices = DOMAIN inputCounts /\ DOMAIN indices \subseteq Path
      /\ \A path \in DOMAIN indices :
           indices[path] \in Draws /\ inputCounts[path] \in 1 .. FocusNum + 1
  BY DEF IInv, FocusType, IndexType
<1>2. PagePath \in Path
  <2>1. page \in DOMAIN pages
    BY CurrentPage DEF IInv, PlaceInv
  <2> QED
    BY <2>1, PageCounts DEF IInv, PagePath, Path
<1>3. CASE FindInputComponentIndex(number) /\ DrawsAgain
  <2>1. /\ indices' = With(indices, PagePath, number)
        /\ inputCounts' = With(inputCounts, PagePath, 1)
    BY <1>3 DEF FindInputComponentIndex
  <2>2. 1 \in 1 .. FocusNum + 1
    BY FocusNumAssumption
  <2> HIDE DEF PagePath
  <2> QED
    BY <1>1, <1>2, <2>1, <2>2 DEF IndexType, With
<1>4. CASE FindInputComponentIndex(number) /\ ~DrawsAgain
  <2>1. /\ indices' = indices
        /\ inputCounts' = [inputCounts EXCEPT ![PagePath] = @ + 1]
    BY <1>4 DEF FindInputComponentIndex
  <2>2. /\ PagePath \in DOMAIN indices
        /\ inputCounts[PagePath] % (FocusNum + 1) # 0
    BY <1>4 DEF DrawsAgain
  <2>3. inputCounts[PagePath] + 1 \in 1 .. FocusNum + 1
    BY <1>1, <2>2, FocusCounted, FocusNumAssumption
  <2> HIDE DEF PagePath
  <2> QED
    BY <1>1, <2>1, <2>2, <2>3 DEF IndexType
<1>5. CASE UNCHANGED <<inputCounts, indices>>
  BY <1>1, <1>5 DEF IndexType
<1> QED
  BY <1>3, <1>4, <1>5

(* FocusInput.                                                             *)
LEMMA FocusInputStep ==
  ASSUME IInv, NEW number \in Draws, NEW succeeds \in BOOLEAN,
         FocusInput(number, succeeds)
  PROVE  IInv'
<1>1. pc = "act" /\ EndOfStep
  BY DEF FocusInput
<1>2. PICK c \in inputList :
        /\ ChooseRightComponent(number, c)
        /\ IF succeeds THEN Pressed(c) /\ lastType' = TypeOf[c]
           ELSE UNCHANGED <<treeVars, got, lastType>>
  BY DEF FocusInput
<1>3. c \in Component
  BY DEF IInv, SceneType
<1>4. /\ TreeInv' /\ CountedInv' /\ PlaceInv' /\ SceneType'
      /\ BackMeansDone'
  <2>1. CASE succeeds
    BY <1>1, <1>2, <1>3, <2>1, PressedInv
  <2>2. CASE ~succeeds
    BY <1>1, <1>2, <2>2, NothingPressedInv
  <2> QED
    BY <2>1, <2>2
<1>5. lastType' \in {""} \cup {TypeOf[d] : d \in Component}
  BY <1>2, <1>3 DEF IInv, FocusType
<1>6. \/ FindInputComponentIndex(number)
      \/ UNCHANGED <<inputCounts, indices>>
  BY <1>2 DEF ChooseRightComponent
<1>7. FocusType'
  BY <1>1, <1>5, <1>6, IndexKept DEF FocusType
<1> QED
  BY <1>4, <1>7 DEF IInv

(* The other inputs leave what focus keeps.                                *)
LEMMA OtherInputStep ==
  ASSUME IInv,
         \/ BackToPrePage \/ RandomInputFails
         \/ \E c \in Component : RandomInput(c)
  PROVE  IInv'
<1>1. /\ pc = "act" /\ EndOfStep /\ UNCHANGED focusVars
      /\ \/ UNCHANGED <<treeVars, got>>
         \/ \E c \in Component : Pressed(c)
  BY DEF BackToPrePage, RandomInputFails, RandomInput
<1>2. FocusType'
  BY <1>1 DEF IInv, FocusType, IndexType, focusVars
<1> QED
  BY <1>1, <1>2, PressedInv, NothingPressedInv DEF IInv

(* Every step keeps the invariant.                                         *)
LEMMA StepInv == IInv /\ [Next]_vars => IInv'
<1> SUFFICES ASSUME IInv, [Next]_vars PROVE IInv'
  OBVIOUS
<1>1. CASE UNCHANGED vars
  <2>1. TreeInv'
    BY <1>1, SameTreeVars DEF IInv, vars
  <2>2. CountedInv' /\ FocusType'
    BY <1>1 DEF IInv, CountedInv, FocusType, IndexType, vars, treeVars,
                focusVars
  <2>3. PlaceInv' /\ SceneType' /\ BackMeansDone'
    BY <1>1 DEF IInv, PlaceInv, SceneType, BackMeansDone, Limit, NeedFocus,
                vars, treeVars
  <2> QED
    BY <2>1, <2>2, <2>3 DEF IInv
<1> QED
  BY <1>1, GetTopAbilityStep, GetRootFailsStep, GetRootStep, FocusInputStep,
     OtherInputStep DEF Next, Main

(* Every state of the inputs satisfies it.                                 *)
LEMMA IInvHolds == Spec => []IInv
  BY InitInv, StepInv, PTL DEF Spec

-----------------------------------------------------------------------------

(* The tree, what is chosen and the indices that focus keeps have their    *)
(* types: an index is kept for one input more than FocusNum at most        *)
(* (FindInputComponentIndex).                                              *)
THEOREM TypeCorrect == Spec => []TypeOK
<1>1. IInv => TypeOK
  BY TreeTyped
  DEF IInv, SceneType, FocusType, IndexType, CountedInv, TypeOK
<1> QED
  BY <1>1, IInvHolds, PTL

(* BACK for a page that is done is pressed only when every component of it *)
(* that is not blocked had its inputs, for any applications, pages and     *)
(* limits, whatever pages changed, were left and came back in between, and *)
(* whatever inputs and reads failed (isBack_, RecursUpdateInfo).           *)
THEOREM BackOnlyWhenDone == Spec => []BackMeansDone
<1>1. IInv => BackMeansDone
  BY DEF IInv
<1> QED
  BY <1>1, IInvHolds, PTL

=============================================================================
