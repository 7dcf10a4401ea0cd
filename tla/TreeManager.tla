---------------------------- MODULE TreeManager -----------------------------
(***************************************************************************)
(* What a test knows of the application in front: the abilities, the pages *)
(* of each, and how many inputs every component had (TreeManager).         *)
(*                                                                         *)
(* A page is known by its node id, which stands for one list of            *)
(* components; a component keeps its identity on every page that shows it. *)
(* A page object that nothing holds any more is dropped from the sequence: *)
(* it can only be the last.  When the operations are called is left to the *)
(* inputs (ComponentTest, ElementInputs).                                  *)
(***************************************************************************)
EXTENDS Integers, Sequences, FiniteSets

CONSTANTS
  Ability,       \* the abilities that can be on top
  Page,          \* the node ids of the pages
  BundleOf,      \* BundleOf[a]: the bundle of an ability
  Components,    \* Components[p]: the components of a page, in their order
  NoAbility,     \* the ability before the first one was looked up
  Modulus,       \* 2^32 in the code: the counts are uint32_t
  CountCap,      \* bound: the inputs of an ability are counted up to here
  InputCap,      \* bound: the inputs of a component are counted up to here
  MissedReads    \* bound: pages read of a bundle after an ability was missed

ASSUME AbilityAssumption == NoAbility \notin Ability
ASSUME ComponentsAssumption ==
  /\ Components \in [Page -> SUBSET Nat]
  /\ \A p \in Page : IsFiniteSet(Components[p])
ASSUME CountsAssumption ==
  /\ Modulus \in Nat \ {0}
  /\ CountCap \in Nat /\ InputCap \in Nat /\ MissedReads \in Nat

VARIABLES
  ability,       \* currentAbilityNode_
  abilities,     \* the ability tree of the current bundle, without its shape
  pages,         \* componentTreeList_ and the page nodes it belongs to
  page,          \* currentPageNode_, 0 for null
  roots,         \* pageTreeList_
  isNewAbility,  \* isNewAbility_
  missed         \* history: 0 until a new ability of this bundle could not
                 \* be read, then one more than the pages read since

treeVars == <<ability, abilities, pages, page, roots, isNewAbility, missed>>

NoComponent == [page |-> 0, component |-> 0]

Size(p) == Cardinality(Components[p])

TreeInit ==
  /\ ability = NoAbility /\ abilities = [a \in {} |-> 0]
  /\ pages = <<>> /\ page = 0 /\ roots = <<>>
  /\ isNewAbility = FALSE
  /\ missed = 0

-----------------------------------------------------------------------------
(* MakeAndCheckNewAbility.                                                 *)

(* An ability node that was just made.  Its index is that of the first     *)
(* page tree until it gets one of its own.                                 *)
NewAbilityNode == [all |-> 0, inputs |-> 0, index |-> 1]

WithAbility(a) ==
  [b \in DOMAIN abilities \cup {a} |->
     IF b = a THEN NewAbilityNode ELSE abilities[b]]

(* The pages that are still held once the current one is left.             *)
HeldPages ==
  IF page # 0 /\ ~pages[page].held THEN SubSeq(pages, 1, page - 1) ELSE pages

SameAbility ==
  /\ isNewAbility' = FALSE
  /\ UNCHANGED <<ability, abilities, pages, page, roots, missed>>

(* InitContainer: what was known of the bundle before is forgotten.        *)
NewBundle(a) ==
  /\ abilities' = [b \in {a} |-> NewAbilityNode]
  /\ ability' = a
  /\ pages' = <<>> /\ page' = 0 /\ roots' = <<>>
  /\ isNewAbility' = TRUE
  /\ missed' = 0

(* Faulty: the page of the old ability stays the current one.              *)
NewAbilityKeepsPage(a) ==
  /\ abilities' = WithAbility(a)
  /\ ability' = a
  /\ isNewAbility' = TRUE
  /\ UNCHANGED <<pages, page, roots, missed>>

NewAbility(a) ==
  /\ abilities' = WithAbility(a)
  /\ ability' = a
  /\ pages' = HeldPages /\ page' = 0
  /\ isNewAbility' = TRUE
  /\ UNCHANGED <<roots, missed>>

(* An ability without a page tree keeps the page on which it was left: the *)
(* error is not looked at.                                                 *)
OldAbility(a) ==
  /\ ability' = a
  /\ IF abilities[a].index \in DOMAIN roots
     THEN page' = roots[abilities[a].index] /\ pages' = HeldPages
     ELSE UNCHANGED <<page, pages>>
  /\ isNewAbility' = FALSE
  /\ UNCHANGED <<abilities, roots, missed>>

IsNewBundle(a) == \A b \in DOMAIN abilities : BundleOf[b] # BundleOf[a]

MakeAndCheckNewAbility(a) ==
  \/ a = ability /\ SameAbility
  \/ IsNewBundle(a) /\ NewBundle(a)
  \/ a \notin DOMAIN abilities /\ ~IsNewBundle(a) /\ NewAbility(a)
  \/ a \in DOMAIN abilities \ {ability} /\ OldAbility(a)

(* The rest of UpdateComponentInfo, when the elements cannot be read.      *)
PageNotRead ==
  /\ missed' = IF isNewAbility /\ missed = 0 THEN 1 ELSE missed
  /\ UNCHANGED <<ability, abilities, pages, page, roots, isNewAbility>>

-----------------------------------------------------------------------------
(* The page that was read becomes the current one.                         *)

Count(n, cap) == IF n < cap THEN n + 1 ELSE n

AddPage(p) ==
  LET held == isNewAbility \/ (page # 0 /\ pages[page].held)
      n    == Len(HeldPages) + 1
      node == [id |-> p, held |-> held,
               above |-> IF held /\ page # 0
                         THEN {page} \cup pages[page].above ELSE {},
               counts |-> [c \in Components[p] |-> 0],
               inputs |-> 0, valid |-> Size(p), last |-> NoComponent,
               owner |-> ability]
  IN  /\ pages' = Append(HeldPages, node)
      /\ page' = n
      /\ roots' = IF isNewAbility THEN Append(roots, n) ELSE roots
      /\ abilities' = [abilities EXCEPT
           ![ability].all = (@ + Size(p)) % Modulus,
           ![ability].index = IF isNewAbility THEN Len(roots) + 1 ELSE @]

(* Faulty: what the page had before is not taken off.                      *)
AddCounts(old, new) == (abilities[ability].all + Size(new)) % Modulus

(* What the page had before is taken off the count of the ability, what it *)
(* has now is added.                                                       *)
MoveCounts(old, new) ==
  (abilities[ability].all - Size(old) + Size(new)) % Modulus

(* RecursUpdateInfo: the components that are still there keep their counts.*)
CountsKept(counts, p) ==
  [c \in Components[p] |-> IF c \in DOMAIN counts THEN counts[c] ELSE 0]

(* UpdatePage and UpdateCurrentPage: n becomes the current page and shows  *)
(* p.                                                                      *)
UpdatePage(n, p) ==
  /\ pages' = [pages EXCEPT ![n].id = p, ![n].counts = CountsKept(@, p)]
  /\ page' = n
  /\ abilities' =
       [abilities EXCEPT ![ability].all = MoveCounts(pages[n].id, p)]
  /\ UNCHANGED roots

(* SetInputcomponentIndex: the component that had the input, the page and  *)
(* the ability count it.  A page need not count further than its coverage  *)
(* is asked; a component may have gone from its page.                      *)
SetInputcomponentIndex(input) ==
  LET counted(n) ==
        IF n = input.page /\ input.component \in DOMAIN pages[n].counts
        THEN [pages[n] EXCEPT !.counts[input.component] = Count(@, InputCap)]
        ELSE pages[n]
  IN  /\ pages' = [n \in DOMAIN pages |->
           IF n = page
           THEN [counted(n) EXCEPT !.inputs = Count(@, counted(n).valid),
                                   !.last = input]
           ELSE counted(n)]
      /\ abilities' = [abilities EXCEPT ![ability].inputs = Count(@, CountCap)]
      /\ UNCHANGED <<ability, page, roots, isNewAbility, missed>>

(* CheckBundleFinished: every ability had as many inputs as its pages have *)
(* components.                                                             *)
CheckBundleFinished ==
  \A a \in DOMAIN abilities : abilities[a].inputs >= abilities[a].all

-----------------------------------------------------------------------------

NodeType(p) ==
  [id : {p}, above : SUBSET Nat, held : BOOLEAN,
   counts : [Components[p] -> 0 .. InputCap], inputs : Nat, valid : Nat,
   last : [page : Nat, component : Nat], owner : Ability]

TreeTypeOK ==
  /\ ability \in Ability \cup {NoAbility}
  /\ DOMAIN abilities \subseteq Ability
  /\ \A a \in DOMAIN abilities :
       abilities[a] \in
         [all : 0 .. Modulus - 1, inputs : 0 .. CountCap, index : Nat]
  /\ ability \in DOMAIN abilities \cup {NoAbility}
  /\ \A n \in 1 .. Len(pages) : \E p \in Page : pages[n] \in NodeType(p)
  /\ page \in 0 .. Len(pages)
  /\ roots \in Seq(DOMAIN pages)
  /\ isNewAbility \in BOOLEAN
  /\ missed \in 0 .. MissedReads + 1

(* The components of the pages of an ability, on every page that shows them. *)
ComponentsOf(a) ==
  UNION {{n} \X Components[pages[n].id] :
           n \in {m \in DOMAIN pages : pages[m].owner = a}}

(* While every new ability of a bundle could be read, what an ability is   *)
(* to get is the number of components of its own pages: pages that change, *)
(* are left and come back never make the count wrong, nor below zero       *)
(* (allComponentCount_, UpdateCurrentPage).                                *)
CountsAgree ==
  missed = 0 =>
    \A a \in DOMAIN abilities :
      abilities[a].all = Cardinality(ComponentsOf(a))

(* "set old screen to current screen data when it is old ability": while   *)
(* every new ability could be read, the current page is one of the current *)
(* ability (MakeAndCheckNewAbility).                                       *)
OldScreenIsCurrent == missed = 0 /\ page # 0 => pages[page].owner = ability

=============================================================================
