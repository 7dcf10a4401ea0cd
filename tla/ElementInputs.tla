--------------------------- MODULE ElementInputs ----------------------------
(***************************************************************************)
(* The inputs to components that exec and focus mix with their other       *)
(* events: ComponentInput::RandomInput, which draws among the components   *)
(* of a list, and ComponentInput::FocusInput, which stays on a component   *)
(* for some inputs before it draws again.                                  *)
(*                                                                         *)
(* As in ComponentTest, what the device shows is not state here.  The      *)
(* other events of the two tests change what it shows and nothing else.    *)
(***************************************************************************)
EXTENDS SceneDelegate

CONSTANTS
  PagesOf,      \* PagesOf[a]: the pages that may be read while a is on top
  PathOf,       \* PathOf[p]: the page path of a page; pages may share one
  Blocked,      \* the components of -Y and the types of -y
  Dialog,       \* Dialog[p]: the components in the dialog of a page
  TypeOf,       \* TypeOf[c]: the type of a component
  FocusTypes,   \* focusTypeList_: the types of -f
  FocusNum,     \* focusNum_: the number of -n
  MaxInputNum,  \* MAXINPUTNUM
  Draws         \* bound: rand() up to the sizes of the pages

ASSUME FocusNumAssumption == FocusNum \in Nat \ {0}
ASSUME MaxInputNumAssumption == MaxInputNum \in Nat

VARIABLES
  command,      \* the command word
  pc,
  isBack,       \* isBack_ of the delegate of the command
  inputList,    \* inputComponentList_
  inputCounts,  \* page2inputCount_
  indices,      \* page2componentIndex_
  lastType,     \* componmentType_
  draw,         \* history: what NormalScene drew
  got           \* history: inputs of every component of the bundle

focusVars == <<inputCounts, indices, lastType>>
vars == <<treeVars, command, pc, isBack, inputList, focusVars, draw, got>>

Component == UNION {Components[p] : p \in Page}
Path == {PathOf[p] : p \in Page}

Init ==
  /\ TreeInit
  /\ command \in {"exec", "focus"}
  /\ pc = "ability"
  /\ isBack = FALSE /\ inputList = {}
  /\ inputCounts = [path \in {} |-> 0] /\ indices = [path \in {} |-> 0]
  /\ lastType = "" /\ draw = "none"
  /\ got = [c \in Component |-> 0]

-----------------------------------------------------------------------------
(* UpdateComponentInfo.                                                    *)

GetTopAbility(a) ==
  /\ pc = "ability"
  /\ MakeAndCheckNewAbility(a)
  /\ got' = IF IsNewBundle(a) THEN [c \in Component |-> 0] ELSE got
  /\ pc' = "root"
  /\ UNCHANGED <<command, isBack, inputList, focusVars, draw>>

(* No connection, no answer or too much of it: the step ends.              *)
GetRootFails ==
  /\ pc = "root"
  /\ PageNotRead
  /\ pc' = "ability"
  /\ UNCHANGED <<command, isBack, inputList, focusVars, draw, got>>

-----------------------------------------------------------------------------
(* NormalScene: the components that may have the input.                    *)

Here == pages'[page']

(* SetInputComponentList, by what it draws: components that are new (had   *)
(* up to MAXINPUTNUM inputs), old ones, or to go back.                     *)
Kept(class) ==
  {c \in DOMAIN Here.counts :
     \/ class = "back"
     \/ /\ c \notin Blocked
        /\ (Here.counts[c] <= MaxInputNum) = (class = "new")}

SetInputComponentList(class) ==
  /\ draw' = class
  /\ inputList' = Kept(class)
  /\ isBack' = \/ DOMAIN Here.counts = {}
               \/ class = "back"
               \/ class = "new" /\ Kept(class) = {}

NeedFocus(type) == FocusTypes = {} \/ type \in FocusTypes

Limit(c) == IF NeedFocus(TypeOf[c]) THEN FocusNum ELSE MaxInputNum

(* Faulty: one component that is done is enough to go back.                *)
AnyDone == \E c \in DOMAIN Here.counts : Here.counts[c] >= Limit(c)

AllDone ==
  \A c \in DOMAIN Here.counts : Here.counts[c] >= Limit(c) \/ c \in Blocked

(* SetInputComponentListForFocusInput removes nothing from the list: the   *)
(* index that is kept is one of the whole list.                            *)
SetInputComponentListForFocusInput ==
  /\ inputList' = DOMAIN Here.counts
  /\ isBack' = AllDone
  /\ draw' = "none"

-----------------------------------------------------------------------------
(* SceneDelegate::ChooseScene(true) of exec, and FocusSceneDelegate.       *)

RandomChooseScene(p, class) ==
  FindPage(p) /\ SetInputComponentList(class)

FocusSamePageInParent(p) ==
  GoesUp(p) /\ \E n \in Above(p) : IsNearest(n, Above(p)) /\ UpdatePage(n, p)
FocusSamePageInChildren(p) ==
  GoesDown(p) /\ \E n \in Below(p) : IsFirst(n, Below(p)) /\ UpdatePage(n, p)

FocusCompareComponentInfos(p) ==
  IsUnknown(p) /\ IF ChangedPage(p) THEN UpdatePage(page, p) ELSE AddPage(p)

FocusChooseScene(p) ==
  /\ Read
  /\ \/ SamePage(p) /\ UNCHANGED <<pages, page, roots, abilities>>
     \/ FocusSamePageInParent(p)
     \/ FocusSamePageInChildren(p)
     \/ FocusCompareComponentInfos(p)
  /\ UNCHANGED <<ability, isNewAbility>>
  /\ SetInputComponentListForFocusInput

GetRoot(p) ==
  /\ pc = "root"
  /\ p \in PagesOf[ability]
  /\ \/ /\ command = "exec"
        /\ \E class \in {"new", "old", "back"} : RandomChooseScene(p, class)
     \/ command = "focus" /\ FocusChooseScene(p)
  /\ pc' = "act"
  /\ UNCHANGED <<command, focusVars, got>>

-----------------------------------------------------------------------------
(* BACK is pressed, or a component of the list has its input.              *)

(* The next step chooses anew before it looks at what was chosen, so that  *)
(* the model forgets it.                                                   *)
EndOfStep ==
  /\ pc' = "ability"
  /\ isBack' = FALSE /\ inputList' = {} /\ draw' = "none"
  /\ UNCHANGED command

BackToPrePage ==
  /\ pc = "act" /\ isBack
  /\ EndOfStep
  /\ UNCHANGED <<treeVars, focusVars, got>>

Pressed(c) ==
  /\ SetInputcomponentIndex([page |-> page, component |-> c])
  /\ got' = [got EXCEPT ![c] = Count(@, InputCap)]

RandomInput(c) ==
  /\ pc = "act" /\ command = "exec" /\ ~isBack
  /\ c \in inputList
  /\ Pressed(c)
  /\ EndOfStep
  /\ UNCHANGED focusVars

(* The list is empty (ERR_NO_INIT), or the input fails.                    *)
RandomInputFails ==
  /\ pc = "act" /\ command = "exec" /\ ~isBack
  /\ EndOfStep
  /\ UNCHANGED <<treeVars, focusVars, got>>

(* FindInputComponentIndex draws again on a path it does not know, after   *)
(* an input to a type without focus, and after FocusNum + 1 inputs.        *)
PagePath == PathOf[pages[page].id]

DrawsAgain ==
  \/ PagePath \notin DOMAIN indices
  \/ ~NeedFocus(lastType)
  \/ inputCounts[PagePath] % (FocusNum + 1) = 0

With(f, path, value) ==
  [q \in DOMAIN f \cup {path} |-> IF q = path THEN value ELSE f[q]]

(* Faulty: the number drawn is kept for good.                              *)
FindFirstIndex(number) ==
  IF PagePath \notin DOMAIN indices
  THEN /\ indices' = With(indices, PagePath, number)
       /\ inputCounts' = With(inputCounts, PagePath, 1)
  ELSE UNCHANGED <<indices, inputCounts>>

FindInputComponentIndex(number) ==
  IF DrawsAgain
  THEN /\ indices' = With(indices, PagePath, number)
       /\ inputCounts' = With(inputCounts, PagePath, 1)
  ELSE /\ UNCHANGED indices
       /\ inputCounts' = [inputCounts EXCEPT ![PagePath] = @ + 1]

(* The component at an index of a list, which is in order.                 *)
At(list, index) ==
  CHOOSE c \in list : Cardinality({d \in list : d < c}) = index

(* ChooseRightComponentIndex: any component of the dialog, or the one of   *)
(* the index of the page.                                                  *)
ChooseRightComponent(number, c) ==
  IF Dialog[pages[page].id] # {}
  THEN c \in Dialog[pages[page].id] /\ UNCHANGED <<inputCounts, indices>>
  ELSE /\ FindInputComponentIndex(number)
       /\ c = At(inputList, indices'[PagePath] % Cardinality(inputList))

FocusInput(number, succeeds) ==
  /\ pc = "act" /\ command = "focus" /\ ~isBack
  /\ \E c \in inputList :
       /\ ChooseRightComponent(number, c)
       /\ IF succeeds THEN Pressed(c) /\ lastType' = TypeOf[c]
          ELSE UNCHANGED <<treeVars, got, lastType>>
  /\ EndOfStep

Main ==
  \/ \E a \in Ability : GetTopAbility(a)
  \/ GetRootFails
  \/ \E p \in Page : GetRoot(p)
  \/ BackToPrePage
  \/ \E c \in Component : RandomInput(c)
  \/ RandomInputFails
  \/ \E number \in Draws, succeeds \in BOOLEAN : FocusInput(number, succeeds)

Next == Main

(* The main thread is scheduled, and rand() gives every number again and   *)
(* again.                                                                  *)
DrawnInput(number) == FocusInput(number, TRUE) /\ DrawsAgain

Spec ==
  /\ Init /\ [][Next]_vars /\ WF_vars(Main)
  /\ \A number \in Draws : SF_vars(DrawnInput(number))

-----------------------------------------------------------------------------

TypeOK ==
  /\ TreeTypeOK
  /\ command \in {"exec", "focus"}
  /\ pc \in {"ability", "root", "act"}
  /\ isBack \in BOOLEAN
  /\ inputList \subseteq Component
  /\ DOMAIN indices = DOMAIN inputCounts /\ DOMAIN indices \subseteq Path
  /\ \A path \in DOMAIN indices :
       indices[path] \in Draws /\ inputCounts[path] \in 1 .. FocusNum + 1
  /\ lastType \in {""} \cup {TypeOf[c] : c \in Component}
  /\ draw \in {"none", "new", "old", "back"}
  /\ got \in [Component -> 0 .. InputCap]

(* exec goes back without having drawn so only when every component of the *)
(* page that is not blocked had more than MAXINPUTNUM inputs, and focus    *)
(* when each had its number of them: what a page keeps of the counts, as   *)
(* it changes, is left and found again, is never more than the components  *)
(* had (isBack_, RecursUpdateInfo).                                        *)
BackMeansDone ==
  pc = "act" /\ isBack /\ draw # "back" =>
    \A c \in Components[pages[page].id] \ Blocked :
      got[c] >= IF command = "exec" THEN MaxInputNum + 1 ELSE Limit(c)

(* What keeps focus from finishing a page: another ability or page comes   *)
(* in front, the page has a dialog, or an input or a read fails.           *)
Restless ==
  \/ \E a \in Ability : a # ability /\ GetTopAbility(a)
  \/ GetRootFails
  \/ \E p \in Page : GetRoot(p) /\ (~SamePage(p) \/ Dialog[p] # {})
  \/ \E number \in Draws :
       FocusInput(number, FALSE) /\ ~FocusInput(number, TRUE)

(* A page that stays in front is left by BACK once every component had its *)
(* inputs: the index that is kept for some inputs, that of the page path,  *)
(* is drawn again often enough (FindInputComponentIndex).                  *)
FocusPageIsLeft ==
  command = "focus" /\ <>[][~Restless]_vars => []<>(pc = "act" /\ isBack)

=============================================================================
