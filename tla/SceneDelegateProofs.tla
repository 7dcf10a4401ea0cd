------------------------ MODULE SceneDelegateProofs -------------------------
(***************************************************************************)
(* The tree of pages, whichever test builds it: what every operation of    *)
(* TreeManager and of SceneDelegate keeps, for any abilities and pages and *)
(* whatever the device shows.  The theorems about the tests that call the  *)
(* operations rest on it (ComponentTestProofs, ElementInputsProofs).       *)
(***************************************************************************)
EXTENDS SceneDelegate, FiniteSetTheorems, TLAPS

Node == UNION {NodeType(p) : p \in Page}

AbilityNode == [all : 0 .. Modulus - 1, inputs : 0 .. CountCap, index : Nat]

TreeType ==
  /\ ability \in Ability \cup {NoAbility}
  /\ DOMAIN abilities \subseteq Ability
  /\ abilities \in [DOMAIN abilities -> AbilityNode]
  /\ ability \in DOMAIN abilities \cup {NoAbility}
  /\ pages \in Seq(Node)
  /\ page \in 0 .. Len(pages)
  /\ roots \in Seq(DOMAIN pages)
  /\ isNewAbility \in BOOLEAN
  /\ missed \in 0 .. MissedReads + 1

(* Only the current page may be one that nothing else refers to.           *)
HeldInv ==
  /\ \A n \in DOMAIN pages :
       ~pages[n].held => n = page /\ n = Len(pages) /\ pages[n].above = {}
  /\ \A n \in DOMAIN pages : \A m \in pages[n].above :
       m \in 1 .. n - 1 /\ pages[m].held
  /\ \A k \in DOMAIN roots : pages[roots[k]].held

HasTree(a) ==
  /\ abilities[a].index \in DOMAIN roots
  /\ pages[roots[abilities[a].index]].owner = a

(* While nothing was missed, every page is held, those above it are pages  *)
(* of the same ability, and every known ability has a page tree of its own *)
(* but the one whose first page is to be read next.                        *)
OwnerInv ==
  missed = 0 =>
    /\ \A n \in DOMAIN pages : pages[n].held
    /\ \A n \in DOMAIN pages : \A m \in pages[n].above :
         pages[m].owner = pages[n].owner
    /\ \A a \in DOMAIN abilities : HasTree(a) \/ (a = ability /\ page = 0)
    /\ page # 0 => pages[page].owner = ability
    /\ page = 0 => isNewAbility \/ ability = NoAbility

TreeInv == TreeType /\ HeldInv /\ OwnerInv

-----------------------------------------------------------------------------

(* The fields of a page.                                                   *)
LEMMA NodeFields ==
  ASSUME NEW node \in Node
  PROVE  /\ node.id \in Page /\ node.above \in SUBSET Nat
         /\ node.held \in BOOLEAN /\ node.owner \in Ability
         /\ node.counts \in [Components[node.id] -> 0 .. InputCap]
         /\ node.inputs \in Nat /\ node.valid \in Nat
         /\ node.last \in [page : Nat, component : Nat]
  BY DEF Node, NodeType

(* A page has a number of components.                                      *)
LEMMA SizeType == ASSUME NEW p \in Page PROVE Size(p) \in Nat
  BY ComponentsAssumption, FS_CardinalityType DEF Size

(* A bounded count stays within its bound.                                 *)
LEMMA CountType ==
  ASSUME NEW cap \in Nat, NEW n \in 0 .. cap
  PROVE  Count(n, cap) \in 0 .. cap
  BY DEF Count

(* The pages that remain are the first ones, and those that are held.      *)
LEMMA HeldPagesRemain ==
  ASSUME TreeInv
  PROVE  /\ HeldPages \in Seq(Node)
         /\ DOMAIN HeldPages = 1 .. Len(HeldPages)
         /\ Len(HeldPages) \in Nat
         /\ DOMAIN HeldPages \subseteq DOMAIN pages
         /\ \A n \in DOMAIN HeldPages :
              HeldPages[n] = pages[n] /\ pages[n].held
         /\ \A n \in DOMAIN pages : pages[n].held => n \in DOMAIN HeldPages
<1> USE DEF TreeInv, TreeType, HeldInv
<1>1. CASE page # 0 /\ ~pages[page].held
  <2>1. page = Len(pages) /\ page \in DOMAIN pages
    BY <1>1
  <2>2. HeldPages = SubSeq(pages, 1, page - 1)
    BY <1>1 DEF HeldPages
  <2>3. /\ HeldPages \in Seq(Node) /\ Len(HeldPages) = page - 1
        /\ \A n \in 1 .. page - 1 : HeldPages[n] = pages[n]
    BY <2>1, <2>2
  <2>4. /\ DOMAIN HeldPages = 1 .. page - 1 /\ Len(HeldPages) \in Nat
        /\ DOMAIN pages = 1 .. page
    BY <2>1, <2>3
  <2>5. \A n \in 1 .. page - 1 : pages[n].held
    BY <2>1, <2>4
  <2> QED
    BY <1>1, <2>1, <2>3, <2>4, <2>5
<1>2. CASE page = 0 \/ pages[page].held
  <2>1. HeldPages = pages
    BY <1>2 DEF HeldPages
  <2> QED
    BY <1>2, <2>1
<1> QED
  BY <1>1, <1>2

-----------------------------------------------------------------------------

(* At the start nothing is known.                                          *)
LEMMA TreeInitInv == TreeInit => TreeInv
<1> SUFFICES ASSUME TreeInit PROVE TreeInv
  OBVIOUS
<1>1. pages \in Seq(Node) /\ roots \in Seq(DOMAIN pages)
  BY DEF TreeInit
<1>2. TreeType
  <2>1. DOMAIN abilities = {} /\ abilities \in [{} -> AbilityNode]
    BY DEF TreeInit
  <2>2. page \in 0 .. Len(pages)
    BY DEF TreeInit
  <2>3. ability = NoAbility /\ isNewAbility \in BOOLEAN /\ missed = 0
    BY DEF TreeInit
  <2> QED
    BY <1>1, <2>1, <2>2, <2>3, CountsAssumption DEF TreeType
<1>3. HeldInv /\ OwnerInv
  BY DEF TreeInit, HeldInv, OwnerInv
<1> QED
  BY <1>2, <1>3 DEF TreeInv

(* A new node of an ability.                                               *)
LEMMA NewAbilityNodeType == NewAbilityNode \in AbilityNode
  BY CountsAssumption DEF NewAbilityNode, AbilityNode

(* The same ability as before.                                             *)
LEMMA SameAbilityInv ==
  ASSUME TreeInv, SameAbility, ability # NoAbility,
         missed = 0 /\ page = 0 => ability = NoAbility
  PROVE  TreeInv' /\ ~isNewAbility'
<1>1. TreeType'
  BY DEF TreeInv, TreeType, SameAbility
<1>2. HeldInv'
  BY DEF TreeInv, HeldInv, SameAbility
<1>3. OwnerInv'
  BY DEF TreeInv, OwnerInv, HasTree, SameAbility
<1> QED
  BY <1>1, <1>2, <1>3 DEF TreeInv, SameAbility

(* An ability of another bundle: all that was known is forgotten.          *)
LEMMA NewBundleInv ==
  ASSUME TreeInv, NEW a \in Ability, NewBundle(a)
  PROVE  TreeInv' /\ ability' = a /\ page' = 0
<1> USE DEF NewBundle
<1>1. abilities' \in [{a} -> AbilityNode] /\ DOMAIN abilities' = {a}
  BY NewAbilityNodeType
<1>2. pages' \in Seq(Node) /\ Len(pages') = 0 /\ DOMAIN pages' = {}
  OBVIOUS
<1>3. roots' \in Seq(DOMAIN pages') /\ DOMAIN roots' = {}
  OBVIOUS
<1>4. TreeType'
  BY <1>1, <1>2, <1>3, CountsAssumption DEF TreeType
<1>5. HeldInv'
  BY <1>2, <1>3 DEF HeldInv
<1>6. OwnerInv'
  BY <1>1, <1>2 DEF OwnerInv
<1> QED
  BY <1>4, <1>5, <1>6 DEF TreeInv

(* The page trees are kept by what remains of the pages.                   *)
LEMMA RootsRemain ==
  ASSUME TreeInv
  PROVE  /\ roots \in Seq(DOMAIN HeldPages)
         /\ \A k \in DOMAIN roots :
              roots[k] \in DOMAIN HeldPages /\ roots[k] \in DOMAIN pages
<1>1. \A k \in DOMAIN roots :
        roots[k] \in DOMAIN pages /\ pages[roots[k]].held
  BY DEF TreeInv, TreeType, HeldInv
<1>2. \A k \in DOMAIN roots : roots[k] \in DOMAIN HeldPages
  BY <1>1, HeldPagesRemain
<1>3. roots \in [1 .. Len(roots) -> DOMAIN HeldPages] /\ Len(roots) \in Nat
  BY <1>2 DEF TreeInv, TreeType
<1> QED
  BY <1>1, <1>2, <1>3

(* Leaving the current page keeps what is known of the others.             *)
LEMMA LeavingKeeps ==
  ASSUME TreeInv, pages' = HeldPages, UNCHANGED roots
  PROVE  /\ pages' \in Seq(Node) /\ roots' \in Seq(DOMAIN pages')
         /\ \A n \in DOMAIN pages' :
              /\ n \in DOMAIN pages /\ pages'[n] = pages[n] /\ pages'[n].held
              /\ \A m \in pages'[n].above :
                   m \in 1 .. n - 1 /\ m \in DOMAIN pages' /\ pages'[m].held
         /\ \A k \in DOMAIN roots' :
              roots'[k] \in DOMAIN pages' /\ pages'[roots'[k]].held
<1>1. \A n \in DOMAIN pages' :
        n \in DOMAIN pages /\ pages'[n] = pages[n] /\ pages'[n].held
  BY HeldPagesRemain
<1>2. ASSUME NEW n \in DOMAIN pages', NEW m \in pages'[n].above
      PROVE  m \in 1 .. n - 1 /\ m \in DOMAIN pages' /\ pages'[m].held
  <2>1. n \in DOMAIN pages /\ m \in pages[n].above
    BY <1>1, <1>2
  <2>2. m \in 1 .. n - 1 /\ pages[m].held
    BY <2>1 DEF TreeInv, HeldInv
  <2>3. m \in DOMAIN pages
    BY <2>1, <2>2 DEF TreeInv, TreeType
  <2> QED
    BY <1>1, <2>2, <2>3, HeldPagesRemain
<1> QED
  BY <1>1, <1>2, HeldPagesRemain, RootsRemain

(* An ability that was not known yet.                                      *)
LEMMA NewAbilityInv ==
  ASSUME TreeInv, NEW a \in Ability, a \notin DOMAIN abilities, NewAbility(a),
         missed = 0 /\ page = 0 => ability = NoAbility
  PROVE  TreeInv' /\ ability' = a /\ page' = 0
<1> USE DEF NewAbility
<1>1. /\ DOMAIN abilities' = DOMAIN abilities \cup {a}
      /\ abilities' \in [DOMAIN abilities' -> AbilityNode]
      /\ \A b \in DOMAIN abilities : abilities'[b] = abilities[b]
  BY NewAbilityNodeType DEF WithAbility, TreeInv, TreeType
<1>2. TreeType'
  <2>1. Len(pages') \in Nat
    BY LeavingKeeps
  <2> QED
    BY <1>1, <2>1, LeavingKeeps DEF TreeInv, TreeType
<1>3. HeldInv'
  BY LeavingKeeps DEF HeldInv
<1>4. OwnerInv'
  <2> SUFFICES ASSUME missed = 0
               PROVE  /\ \A n \in DOMAIN pages' : \A m \in pages'[n].above :
                           pages'[m].owner = pages'[n].owner
                      /\ \A b \in DOMAIN abilities : HasTree(b)'
    BY <1>1, LeavingKeeps DEF OwnerInv
  <2>1. \A n \in DOMAIN pages' : \A m \in pages'[n].above :
          pages'[m].owner = pages'[n].owner
    BY LeavingKeeps DEF TreeInv, OwnerInv
  <2>2. ASSUME NEW b \in DOMAIN abilities PROVE HasTree(b)'
    <3>1. HasTree(b)
      BY AbilityAssumption DEF TreeInv, TreeType, OwnerInv
    <3> QED
      BY <1>1, <3>1, LeavingKeeps DEF HasTree
  <2> QED
    BY <2>1, <2>2
<1> QED
  BY <1>2, <1>3, <1>4 DEF TreeInv

(* Back to an ability that was left.                                       *)
LEMMA OldAbilityInv ==
  ASSUME TreeInv, NEW a \in DOMAIN abilities \ {ability}, OldAbility(a),
         missed = 0 /\ page = 0 => ability = NoAbility
  PROVE  TreeInv' /\ ability' = a /\ ~isNewAbility'
<1> USE DEF OldAbility
<1>1. CASE abilities[a].index \in DOMAIN roots
  <2>1. page' = roots[abilities[a].index] /\ pages' = HeldPages
    BY <1>1
  <2>2. page' \in DOMAIN pages' /\ page' \in DOMAIN pages
    BY <1>1, <2>1, LeavingKeeps
  <2>3. page' \in 1 .. Len(pages') /\ Len(pages') \in Nat
    BY <2>1, <2>2, LeavingKeeps, HeldPagesRemain
  <2>4. TreeType'
    <3>1. pages' \in Seq(Node) /\ roots' \in Seq(DOMAIN pages')
      BY <2>1, LeavingKeeps
    <3>2. page' \in 0 .. Len(pages')
      BY <2>3
    <3>3. a \in Ability /\ UNCHANGED <<abilities, missed>>
      BY DEF TreeInv, TreeType
    <3> QED
      BY <3>1, <3>2, <3>3 DEF TreeInv, TreeType
  <2>5. HeldInv'
    BY <2>1, LeavingKeeps DEF HeldInv
  <2>6. OwnerInv'
    <3> SUFFICES ASSUME missed = 0
                 PROVE  /\ \A n \in DOMAIN pages' : \A m \in pages'[n].above :
                             pages'[m].owner = pages'[n].owner
                        /\ \A b \in DOMAIN abilities : HasTree(b)'
                        /\ pages'[page'].owner = a
      BY <2>1, <2>3, LeavingKeeps DEF OwnerInv
    <3>1. \A n \in DOMAIN pages' : \A m \in pages'[n].above :
            pages'[m].owner = pages'[n].owner
      BY <2>1, LeavingKeeps DEF TreeInv, OwnerInv
    <3>2. ASSUME NEW b \in DOMAIN abilities PROVE HasTree(b) /\ HasTree(b)'
      <4>1. HasTree(b)
        BY AbilityAssumption DEF TreeInv, TreeType, OwnerInv
      <4> QED
        BY <2>1, <4>1, LeavingKeeps DEF HasTree
    <3>3. pages'[page'].owner = a
      BY <2>1, <2>2, <3>2, LeavingKeeps DEF HasTree
    <3> QED
      BY <3>1, <3>2, <3>3
  <2> QED
    BY <2>4, <2>5, <2>6 DEF TreeInv
<1>2. CASE abilities[a].index \notin DOMAIN roots
  <2>1. UNCHANGED <<page, pages>>
    BY <1>2
  <2>2. missed # 0
    BY <1>2, AbilityAssumption DEF TreeInv, TreeType, OwnerInv, HasTree
  <2>3. TreeType'
    BY <2>1 DEF TreeInv, TreeType
  <2>4. HeldInv'
    BY <2>1 DEF TreeInv, HeldInv
  <2>5. OwnerInv'
    BY <2>2 DEF OwnerInv
  <2> QED
    BY <2>3, <2>4, <2>5 DEF TreeInv
<1> QED
  BY <1>1, <1>2

(* Whatever ability is on top.                                             *)
LEMMA GetTopAbilityInv ==
  ASSUME TreeInv, NEW a \in Ability, MakeAndCheckNewAbility(a),
         missed = 0 /\ page = 0 => ability = NoAbility
  PROVE  /\ TreeInv' /\ ability' # NoAbility
         /\ isNewAbility' => page' = 0
<1>1. CASE a = ability /\ SameAbility
  BY <1>1, SameAbilityInv, AbilityAssumption DEF SameAbility
<1>2. CASE NewBundle(a)
  BY <1>2, NewBundleInv, AbilityAssumption
<1>3. CASE a \notin DOMAIN abilities /\ NewAbility(a)
  BY <1>3, NewAbilityInv, AbilityAssumption
<1>4. CASE a \in DOMAIN abilities \ {ability} /\ OldAbility(a)
  BY <1>4, OldAbilityInv, AbilityAssumption
<1> QED
  BY <1>1, <1>2, <1>3, <1>4 DEF MakeAndCheckNewAbility

-----------------------------------------------------------------------------

(* What reading a page does to missed.                                     *)
LEMMA ReadType ==
  ASSUME TreeInv, Read
  PROVE  missed' \in 0 .. MissedReads + 1 /\ (missed' = 0 <=> missed = 0)
  BY CountsAssumption DEF TreeInv, TreeType, Read

(* The current page, if there is one.                                      *)
LEMMA CurrentPage ==
  ASSUME TreeInv, page # 0
  PROVE  page \in DOMAIN pages /\ pages[page] \in Node
  BY DEF TreeInv, TreeType

(* Another count of the current ability: the rest of it stays.             *)
LEMMA CountedAbility ==
  ASSUME TreeInv, NEW all \in 0 .. Modulus - 1, NEW index \in Nat,
         abilities' = [abilities EXCEPT ![ability].all = all,
                                        ![ability].index = index]
  PROVE  /\ DOMAIN abilities' = DOMAIN abilities
         /\ abilities' \in [DOMAIN abilities -> AbilityNode]
         /\ \A b \in DOMAIN abilities :
              /\ b # ability => abilities'[b] = abilities[b]
              /\ b = ability => /\ abilities'[b].index = index
                                /\ abilities'[b].all = all
<1>1. \A b \in DOMAIN abilities : abilities[b] \in AbilityNode
  BY DEF TreeInv, TreeType
<1>2. CASE ability \in DOMAIN abilities
  <2>1. [abilities[ability] EXCEPT !.all = all, !.index = index]
          \in AbilityNode
    BY <1>1, <1>2 DEF AbilityNode
  <2>2. LET node == [abilities[ability] EXCEPT !.all = all, !.index = index]
        IN  node.index = index /\ node.all = all
    BY <1>1, <1>2 DEF AbilityNode
  <2> QED
    BY <1>1, <1>2, <2>1, <2>2 DEF TreeInv, TreeType
<1>3. CASE ability \notin DOMAIN abilities
  BY <1>1, <1>3 DEF TreeInv, TreeType
<1> QED
  BY <1>2, <1>3

(* A page that is new.                                                     *)
LEMMA AddPageInv ==
  ASSUME TreeInv, NEW p \in Page, AddPage(p), Read,
         UNCHANGED <<ability, isNewAbility>>,
         ability # NoAbility, isNewAbility => page = 0
  PROVE  TreeInv' /\ page' # 0
<1> DEFINE
      held == isNewAbility \/ (page # 0 /\ pages[page].held)
      n    == Len(HeldPages) + 1
      above == IF held /\ page # 0
               THEN {page} \cup pages[page].above ELSE {}
      node == [id |-> p, held |-> held, above |-> above,
               counts |-> [c \in Components[p] |-> 0],
               inputs |-> 0, valid |-> Size(p), last |-> NoComponent,
               owner |-> ability]
<1>1. /\ pages' = Append(HeldPages, node) /\ page' = n
      /\ roots' = IF isNewAbility THEN Append(roots, n) ELSE roots
      /\ abilities' = [abilities EXCEPT
           ![ability].all = (@ + Size(p)) % Modulus,
           ![ability].index = IF isNewAbility THEN Len(roots) + 1 ELSE @]
  BY DEF AddPage
<1>2. held \in BOOLEAN /\ above \in SUBSET Nat
  <2>1. CASE page = 0
    BY <2>1 DEF TreeInv, TreeType
  <2>2. CASE page # 0
    <3>1. pages[page].held \in BOOLEAN /\ pages[page].above \in SUBSET Nat
      BY <2>2, CurrentPage, NodeFields
    <3>2. page \in Nat /\ isNewAbility \in BOOLEAN
      BY DEF TreeInv, TreeType
    <3> QED
      BY <2>2, <3>1, <3>2
  <2> QED
    BY <2>1, <2>2
<1>3. node \in Node
  <2>1. ability \in Ability
    BY DEF TreeInv, TreeType
  <2>2. [c \in Components[p] |-> 0] \in [Components[p] -> 0 .. InputCap]
    BY CountsAssumption
  <2>3. NoComponent \in [page : Nat, component : Nat]
    BY DEF NoComponent
  <2>4. node \in NodeType(p)
    BY <1>2, <2>1, <2>2, <2>3, SizeType DEF NodeType
  <2> QED
    BY <2>4 DEF Node
<1> HIDE DEF node
<1>4. /\ pages' \in Seq(Node) /\ Len(pages') = n /\ n \in Nat \ {0}
      /\ DOMAIN pages' = 1 .. n /\ pages'[n] = node
      /\ DOMAIN HeldPages = 1 .. n - 1
      /\ \A k \in DOMAIN HeldPages : pages'[k] = pages[k]
  BY <1>1, <1>3, HeldPagesRemain
<1>5. /\ node.held = held /\ node.owner = ability /\ node.above = above
  BY DEF node
<1>6. \A m \in above :
        /\ page # 0 /\ m \in DOMAIN HeldPages /\ pages[m].held
        /\ m = page \/ m \in pages[page].above
  <2> SUFFICES ASSUME NEW m \in above
               PROVE  /\ page # 0 /\ m \in DOMAIN HeldPages /\ pages[m].held
                      /\ m = page \/ m \in pages[page].above
    OBVIOUS
  <2>1. page # 0 /\ pages[page].held /\ (m = page \/ m \in pages[page].above)
    OBVIOUS
  <2>2. page \in DOMAIN pages
    BY <2>1, CurrentPage
  <2>3. m \in DOMAIN pages /\ pages[m].held
    BY <2>1, <2>2 DEF TreeInv, TreeType, HeldInv
  <2> QED
    BY <2>1, <2>3, HeldPagesRemain
<1>7. /\ roots' \in Seq(DOMAIN pages')
      /\ \A k \in DOMAIN roots :
           /\ k \in DOMAIN roots' /\ roots'[k] = roots[k]
           /\ roots[k] \in DOMAIN HeldPages
      /\ \A k \in DOMAIN roots' : roots'[k] = n \/ k \in DOMAIN roots
      /\ isNewAbility => /\ Len(roots) + 1 \in DOMAIN roots'
                         /\ roots'[Len(roots) + 1] = n
      /\ Len(roots) \in Nat
      /\ \A k \in DOMAIN roots' : roots'[k] = n => isNewAbility
  <2>1. /\ roots \in Seq(1 .. n)
        /\ \A k \in DOMAIN roots : roots[k] \in 1 .. n - 1
    <3>1. \A k \in DOMAIN roots : roots[k] \in 1 .. n - 1
      BY <1>4, RootsRemain
    <3>2. roots \in [1 .. Len(roots) -> 1 .. n] /\ Len(roots) \in Nat
      BY <1>4, <3>1 DEF TreeInv, TreeType
    <3> QED
      BY <3>1, <3>2
  <2>2. CASE isNewAbility
    BY <1>1, <1>4, <2>1, <2>2
  <2>3. CASE ~isNewAbility
    BY <1>1, <1>4, <2>1, <2>3
  <2> QED
    BY <2>2, <2>3 DEF TreeInv, TreeType
<1>8. PICK all \in 0 .. Modulus - 1, index \in Nat :
        /\ abilities' = [abilities EXCEPT ![ability].all = all,
                                          ![ability].index = index]
        /\ isNewAbility => index = Len(roots) + 1
        /\ ~isNewAbility => index = abilities[ability].index
  <2>1. ability \in DOMAIN abilities
    BY DEF TreeInv, TreeType
  <2>2. abilities[ability].all \in Nat /\ abilities[ability].index \in Nat
    BY <2>1 DEF TreeInv, TreeType, AbilityNode
  <2> DEFINE all == (abilities[ability].all + Size(p)) % Modulus
             index == IF isNewAbility THEN Len(roots) + 1
                      ELSE abilities[ability].index
  <2>3. all \in 0 .. Modulus - 1 /\ index \in Nat
    BY <1>7, <2>2, SizeType, CountsAssumption
  <2>4. abilities' = [abilities EXCEPT ![ability].all = all,
                                       ![ability].index = index]
    BY <1>1, <2>1 DEF TreeInv, TreeType, AbilityNode
  <2> HIDE DEF all
  <2> QED
    BY <2>3, <2>4
<1>9. TreeType'
  <2>1. /\ abilities' \in [DOMAIN abilities' -> AbilityNode]
        /\ DOMAIN abilities' = DOMAIN abilities
    BY <1>8, CountedAbility
  <2>2. page' \in 0 .. Len(pages')
    BY <1>1, <1>4
  <2> QED
    BY <1>4, <1>7, <2>1, <2>2, ReadType DEF TreeInv, TreeType
<1>10. HeldInv'
  <2>1. ASSUME NEW k \in DOMAIN pages', ~pages'[k].held
        PROVE  k = page' /\ k = Len(pages') /\ pages'[k].above = {}
    <3>1. k = n
      BY <1>4, <2>1, HeldPagesRemain
    <3> QED
      BY <1>1, <1>4, <1>5, <2>1, <3>1
  <2>2. ASSUME NEW k \in DOMAIN pages', NEW m \in pages'[k].above
        PROVE  m \in 1 .. k - 1 /\ pages'[m].held
    <3>1. CASE k = n
      BY <1>4, <1>5, <1>6, <2>2, <3>1
    <3>2. CASE k # n
      <4>1. k \in DOMAIN HeldPages /\ k \in DOMAIN pages
        BY <1>4, <3>2, HeldPagesRemain
      <4>2. m \in 1 .. k - 1 /\ pages[m].held
        BY <1>4, <2>2, <4>1 DEF TreeInv, HeldInv
      <4> QED
        BY <1>4, <4>1, <4>2
    <3> QED
      BY <3>1, <3>2
  <2>3. ASSUME NEW k \in DOMAIN roots' PROVE pages'[roots'[k]].held
    <3>1. CASE k \in DOMAIN roots
      BY <1>4, <1>7, <3>1, HeldPagesRemain
    <3>2. CASE k \notin DOMAIN roots
      BY <1>4, <1>5, <1>7, <3>2
    <3> QED
      BY <3>1, <3>2
  <2> QED
    BY <2>1, <2>2, <2>3 DEF HeldInv
<1>11. OwnerInv'
  <2> SUFFICES ASSUME missed = 0
               PROVE  /\ held
                      /\ \A k \in DOMAIN pages' : \A m \in pages'[k].above :
                           pages'[m].owner = pages'[k].owner
                      /\ \A b \in DOMAIN abilities : HasTree(b)'
    <3>1. ASSUME NEW k \in DOMAIN pages', held PROVE pages'[k].held
      <4>1. k = n \/ k \in DOMAIN HeldPages
        BY <1>4
      <4>2. k \in DOMAIN HeldPages => pages[k].held
        BY HeldPagesRemain
      <4> QED
        BY <1>4, <1>5, <3>1, <4>1, <4>2
    <3>2. DOMAIN abilities' = DOMAIN abilities
      BY <1>8, CountedAbility
    <3> QED
      BY <1>1, <1>4, <1>5, <3>1, <3>2, ReadType DEF OwnerInv
  <2>1. held
    BY CurrentPage DEF TreeInv, OwnerInv
  <2>2. ASSUME NEW k \in DOMAIN pages', NEW m \in pages'[k].above
        PROVE  pages'[m].owner = pages'[k].owner
    <3>1. CASE k = n
      <4>1. page # 0 /\ m \in DOMAIN HeldPages
        BY <1>4, <1>5, <1>6, <2>2, <3>1
      <4>2. m = page \/ m \in pages[page].above
        BY <1>4, <1>5, <1>6, <2>2, <3>1
      <4>3. pages[m].owner = ability
        BY <4>1, <4>2, CurrentPage DEF TreeInv, OwnerInv
      <4> QED
        BY <1>4, <1>5, <3>1, <4>1, <4>3
    <3>2. CASE k # n
      <4>1. k \in DOMAIN HeldPages /\ k \in DOMAIN pages
        BY <1>4, <3>2, HeldPagesRemain
      <4>2. m \in 1 .. k - 1 /\ pages[m].owner = pages[k].owner
        BY <1>4, <2>2, <4>1 DEF TreeInv, HeldInv, OwnerInv
      <4> QED
        BY <1>4, <4>1, <4>2
    <3> QED
      BY <3>1, <3>2
  <2>3. ASSUME NEW b \in DOMAIN abilities PROVE HasTree(b)'
    <3>1. CASE b = ability /\ isNewAbility
      <4>1. abilities'[b].index = Len(roots) + 1
        BY <1>8, <3>1, CountedAbility
      <4> QED
        BY <1>4, <1>5, <1>7, <3>1, <4>1 DEF HasTree
    <3>2. CASE ~(b = ability /\ isNewAbility)
      <4>1. HasTree(b)
        BY <3>2 DEF TreeInv, OwnerInv
      <4>2. abilities'[b].index = abilities[b].index
        BY <1>8, <3>2, CountedAbility
      <4> QED
        BY <1>4, <1>7, <4>1, <4>2 DEF HasTree
    <3> QED
      BY <3>1, <3>2
  <2> QED
    BY <2>1, <2>2, <2>3
<1> QED
  BY <1>1, <1>4, <1>9, <1>10, <1>11 DEF TreeInv

(* A page keeps its place in the tree, and the tree what is known of it.   *)
LEMMA SameTree ==
  ASSUME TreeInv, pages' \in Seq(Node), Len(pages') = Len(pages),
         \A n \in DOMAIN pages :
           /\ pages'[n].held = pages[n].held
           /\ pages'[n].above = pages[n].above
           /\ pages'[n].owner = pages[n].owner,
         page' \in DOMAIN pages \/ page' = page,
         page' = page \/ (page # 0 /\ pages[page].held),
         missed = 0 /\ page' # 0 => pages[page'].owner = ability,
         page' = 0 => page = 0,
         abilities' \in [DOMAIN abilities -> AbilityNode],
         \A b \in DOMAIN abilities :
           abilities'[b].index = abilities[b].index,
         UNCHANGED <<ability, roots, isNewAbility>>,
         missed' \in 0 .. MissedReads + 1, missed' = 0 <=> missed = 0
  PROVE  TreeInv'
<1>1. DOMAIN pages' = DOMAIN pages /\ DOMAIN abilities' = DOMAIN abilities
  BY DEF TreeInv, TreeType
<1>2. TreeType'
  <2>1. page' \in 0 .. Len(pages')
    BY DEF TreeInv, TreeType
  <2> QED
    BY <1>1, <2>1 DEF TreeInv, TreeType
<1>3. HeldInv'
  <2>1. ASSUME NEW n \in DOMAIN pages, ~pages'[n].held
        PROVE  n = page' /\ n = Len(pages') /\ pages'[n].above = {}
    BY <2>1 DEF TreeInv, HeldInv
  <2>2. ASSUME NEW n \in DOMAIN pages, NEW m \in pages'[n].above
        PROVE  m \in 1 .. n - 1 /\ pages'[m].held
    <3>1. m \in 1 .. n - 1 /\ pages[m].held
      BY <2>2 DEF TreeInv, HeldInv
    <3>2. m \in DOMAIN pages
      BY <3>1 DEF TreeInv, TreeType
    <3> QED
      BY <3>1, <3>2
  <2>3. ASSUME NEW k \in DOMAIN roots PROVE pages'[roots[k]].held
    BY DEF TreeInv, TreeType, HeldInv
  <2> QED
    BY <1>1, <2>1, <2>2, <2>3 DEF HeldInv
<1>4. OwnerInv'
  <2> SUFFICES ASSUME missed = 0
               PROVE  /\ \A n \in DOMAIN pages : pages'[n].held
                      /\ \A n \in DOMAIN pages : \A m \in pages'[n].above :
                           pages'[m].owner = pages'[n].owner
                      /\ \A b \in DOMAIN abilities :
                           HasTree(b)' \/ (b = ability /\ page' = 0)
                      /\ page' # 0 => pages'[page'].owner = ability
                      /\ page' = 0 => isNewAbility \/ ability = NoAbility
    BY <1>1 DEF OwnerInv
  <2>1. \A n \in DOMAIN pages : pages'[n].held
    BY DEF TreeInv, OwnerInv
  <2>2. ASSUME NEW n \in DOMAIN pages, NEW m \in pages'[n].above
        PROVE  pages'[m].owner = pages'[n].owner
    BY <2>2 DEF TreeInv, TreeType, HeldInv, OwnerInv
  <2>3. ASSUME NEW b \in DOMAIN abilities
        PROVE  HasTree(b)' \/ (b = ability /\ page' = 0)
    <3>1. CASE HasTree(b)
      BY <3>1 DEF TreeInv, TreeType, HasTree
    <3>2. CASE b = ability /\ page = 0
      BY <3>2
    <3> QED
      BY <3>1, <3>2 DEF TreeInv, OwnerInv
  <2>4. page' # 0 => pages'[page'].owner = ability
    BY DEF TreeInv, TreeType
  <2>5. page' = 0 => isNewAbility \/ ability = NoAbility
    BY DEF TreeInv, OwnerInv
  <2> QED
    BY <2>1, <2>2, <2>3, <2>4, <2>5
<1> QED
  BY <1>2, <1>3, <1>4 DEF TreeInv

(* A page that is known, or has changed in place.                          *)
LEMMA UpdatePageInv ==
  ASSUME TreeInv, NEW p \in Page, NEW n \in DOMAIN pages, UpdatePage(n, p),
         Read, UNCHANGED <<ability, isNewAbility>>, ability # NoAbility,
         n = page \/ (page # 0 /\ pages[page].held),
         missed = 0 => pages[n].owner = ability
  PROVE  TreeInv' /\ page' # 0
<1> DEFINE node == [pages[n] EXCEPT !.id = p, !.counts = CountsKept(@, p)]
<1>1. PICK q \in Page : pages[n] \in NodeType(q)
  BY DEF TreeInv, TreeType, Node
<1>2. node \in NodeType(p)
  <2>1. pages[n].counts \in [Components[q] -> 0 .. InputCap]
    BY <1>1 DEF NodeType
  <2>2. CountsKept(pages[n].counts, p) \in [Components[p] -> 0 .. InputCap]
    BY <2>1, CountsAssumption DEF CountsKept
  <2> QED
    BY <1>1, <2>2 DEF NodeType
<1>3. /\ node.held = pages[n].held /\ node.above = pages[n].above
      /\ node.owner = pages[n].owner
  BY <1>1 DEF NodeType
<1>4. pages' = [pages EXCEPT ![n] = node]
  BY <1>1 DEF UpdatePage, NodeType, TreeInv, TreeType
<1>5. node \in Node
  BY <1>2 DEF Node
<1> HIDE DEF node
<1>6. /\ pages' \in Seq(Node) /\ Len(pages') = Len(pages)
      /\ \A k \in DOMAIN pages :
           pages'[k] = IF k = n THEN node ELSE pages[k]
  BY <1>4, <1>5 DEF TreeInv, TreeType
<1>7. /\ abilities' \in [DOMAIN abilities -> AbilityNode]
      /\ \A b \in DOMAIN abilities :
           abilities'[b].index = abilities[b].index
  <2>1. ability \in DOMAIN abilities /\ abilities[ability] \in AbilityNode
    BY DEF TreeInv, TreeType
  <2>2. pages[n].id \in Page
    BY <1>1 DEF NodeType
  <2>3. MoveCounts(pages[n].id, p) \in 0 .. Modulus - 1
    BY <2>1, <2>2, SizeType, CountsAssumption DEF MoveCounts, AbilityNode
  <2>4. abilities' =
          [abilities EXCEPT ![ability].all = MoveCounts(pages[n].id, p)]
    BY DEF UpdatePage
  <2> DEFINE all == MoveCounts(pages[n].id, p)
             index == abilities[ability].index
  <2>5. abilities' = [abilities EXCEPT ![ability].all = all,
                                       ![ability].index = index]
    BY <2>1, <2>4 DEF TreeInv, TreeType, AbilityNode
  <2>6. all \in 0 .. Modulus - 1 /\ index \in Nat
    BY <2>1, <2>3 DEF AbilityNode
  <2>7. index = abilities[ability].index
    OBVIOUS
  <2> HIDE DEF all, index
  <2>8. /\ abilities' \in [DOMAIN abilities -> AbilityNode]
        /\ \A b \in DOMAIN abilities :
             /\ b # ability => abilities'[b] = abilities[b]
             /\ b = ability => abilities'[b].index = index
    BY <2>5, <2>6, CountedAbility
  <2>9. ASSUME NEW b \in DOMAIN abilities
        PROVE  abilities'[b].index = abilities[b].index
    <3>1. CASE b = ability
      BY <2>7, <2>8, <3>1
    <3>2. CASE b # ability
      BY <2>8, <3>2
    <3> QED
      BY <3>1, <3>2
  <2> QED
    BY <2>8, <2>9
<1>8. page' = n /\ roots' = roots
  BY DEF UpdatePage
<1>9. n # 0
  BY DEF TreeInv, TreeType
<1> QED
  BY <1>3, <1>6, <1>7, <1>8, <1>9, SameTree, ReadType

(* The page that was read becomes the current one.                         *)
LEMMA FindPageInv ==
  ASSUME TreeInv, NEW p \in Page, FindPage(p), ability # NoAbility,
         isNewAbility => page = 0
  PROVE  TreeInv' /\ page' # 0
<1>1. Read /\ UNCHANGED <<ability, isNewAbility>>
  BY DEF FindPage
<1>2. CASE SamePage(p) /\ UNCHANGED <<pages, page, roots, abilities>>
  <2>1. page # 0 /\ page \in DOMAIN pages
    BY <1>2, CurrentPage DEF SamePage
  <2>2. missed = 0 => pages[page].owner = ability
    BY <2>1 DEF TreeInv, OwnerInv
  <2> QED
    BY <1>1, <1>2, <2>1, <2>2, SameTree, ReadType DEF TreeInv, TreeType
<1>3. CASE FindSamePageInParent(p)
  <2>1. PICK n \in pages[page].above : UpdatePage(n, p)
    BY <1>3 DEF FindSamePageInParent, Above
  <2>2. page # 0 /\ page \in DOMAIN pages
    BY <1>3, CurrentPage DEF FindSamePageInParent, GoesUp
  <2>3. pages[page].held
    BY <2>1, <2>2 DEF TreeInv, HeldInv
  <2>4. n \in DOMAIN pages
    BY <2>1, <2>2 DEF TreeInv, TreeType, HeldInv
  <2>5. missed = 0 => pages[n].owner = ability
    BY <2>1, <2>2 DEF TreeInv, OwnerInv
  <2> QED
    BY <1>1, <2>1, <2>2, <2>3, <2>4, <2>5, UpdatePageInv
<1>4. CASE FindSamePageInChildren(p)
  <2>1. PICK n \in DOMAIN pages : page \in pages[n].above /\ UpdatePage(n, p)
    BY <1>4 DEF FindSamePageInChildren, Below, Children, IsNearest
  <2>2. page # 0
    BY <1>4 DEF FindSamePageInChildren, GoesDown
  <2>3. pages[page].held
    BY <2>1 DEF TreeInv, HeldInv
  <2>4. missed = 0 => pages[n].owner = ability
    BY <2>1, <2>2 DEF TreeInv, OwnerInv
  <2> QED
    BY <1>1, <2>1, <2>2, <2>3, <2>4, UpdatePageInv
<1>5. CASE ChangedPage(p) /\ UpdatePage(page, p)
  <2>1. page # 0 /\ page \in DOMAIN pages
    BY <1>5, CurrentPage DEF ChangedPage
  <2>2. missed = 0 => pages[page].owner = ability
    BY <2>1 DEF TreeInv, OwnerInv
  <2> QED
    BY <1>1, <1>5, <2>1, <2>2, UpdatePageInv
<1>6. CASE AddPage(p)
  BY <1>1, <1>6, AddPageInv
<1> QED
  BY <1>2, <1>3, <1>4, <1>5, <1>6 DEF FindPage, CompareComponentInfos

(* An input is counted.                                                    *)
LEMMA InputCountedInv ==
  ASSUME TreeInv, NEW input \in [page : Nat, component : Nat],
         SetInputcomponentIndex(input)
  PROVE  /\ TreeInv' /\ UNCHANGED <<ability, page, isNewAbility, missed>>
         /\ DOMAIN pages' = DOMAIN pages
         /\ \A n \in DOMAIN pages : /\ pages'[n].owner = pages[n].owner
                                    /\ pages'[n].id = pages[n].id
<1> DEFINE
      counted(n) ==
        IF n = input.page /\ input.component \in DOMAIN pages[n].counts
        THEN [pages[n] EXCEPT !.counts[input.component] = Count(@, InputCap)]
        ELSE pages[n]
      node(n) ==
        IF n = page
        THEN [counted(n) EXCEPT !.inputs = Count(@, counted(n).valid),
                                !.last = input]
        ELSE counted(n)
<1>1. ASSUME NEW n \in DOMAIN pages
      PROVE  /\ node(n) \in Node
             /\ node(n).held = pages[n].held
             /\ node(n).above = pages[n].above
             /\ node(n).owner = pages[n].owner
             /\ node(n).id = pages[n].id
  <2>1. PICK q \in Page : pages[n] \in NodeType(q)
    BY DEF TreeInv, TreeType, Node
  <2>2. /\ counted(n) \in NodeType(q)
        /\ counted(n).held = pages[n].held
        /\ counted(n).above = pages[n].above
        /\ counted(n).owner = pages[n].owner
        /\ counted(n).id = pages[n].id
    <3>1. CASE n = input.page /\ input.component \in DOMAIN pages[n].counts
      <4> DEFINE c == input.component
                 counts == [pages[n].counts EXCEPT ![c] = Count(@, InputCap)]
      <4>1. pages[n].counts \in [Components[q] -> 0 .. InputCap]
        BY <2>1 DEF NodeType
      <4>2. Count(pages[n].counts[c], InputCap) \in 0 .. InputCap
        BY <3>1, <4>1, CountType, CountsAssumption
      <4>3. counts \in [Components[q] -> 0 .. InputCap]
        BY <4>1, <4>2
      <4>4. counted(n) = [pages[n] EXCEPT !.counts = counts]
        BY <2>1, <3>1 DEF NodeType
      <4> HIDE DEF counts, counted
      <4> QED
        BY <2>1, <4>3, <4>4 DEF NodeType
    <3>2. CASE ~(n = input.page
                 /\ input.component \in DOMAIN pages[n].counts)
      BY <2>1, <3>2
    <3> QED
      BY <3>1, <3>2
  <2> HIDE DEF counted
  <2>3. counted(n).inputs \in Nat /\ counted(n).valid \in Nat
    BY <2>2 DEF NodeType
  <2>4. Count(counted(n).inputs, counted(n).valid) \in Nat
    BY <2>3 DEF Count
  <2>5. /\ node(n) \in NodeType(q)
        /\ node(n).held = pages[n].held
        /\ node(n).above = pages[n].above
        /\ node(n).owner = pages[n].owner
        /\ node(n).id = pages[n].id
    BY <2>2, <2>4 DEF NodeType
  <2> QED
    BY <2>5 DEF Node
<1>2. /\ pages' = [n \in DOMAIN pages |-> node(n)]
      /\ UNCHANGED <<ability, page, roots, isNewAbility, missed>>
      /\ abilities' = [abilities EXCEPT ![ability].inputs = Count(@, CountCap)]
  BY DEF SetInputcomponentIndex
<1> HIDE DEF node
<1>3. /\ pages' \in Seq(Node) /\ Len(pages') = Len(pages)
      /\ \A n \in DOMAIN pages : pages'[n] = node(n)
  <2>1. DOMAIN pages = 1 .. Len(pages) /\ Len(pages) \in Nat
    BY DEF TreeInv, TreeType
  <2> QED
    BY <1>1, <1>2, <2>1
<1>4. /\ abilities' \in [DOMAIN abilities -> AbilityNode]
      /\ \A b \in DOMAIN abilities :
           abilities'[b].index = abilities[b].index
  <2>1. \A b \in DOMAIN abilities : abilities[b] \in AbilityNode
    BY DEF TreeInv, TreeType
  <2>2. CASE ability \in DOMAIN abilities
    <3> DEFINE inputs == Count(abilities[ability].inputs, CountCap)
               a == [abilities[ability] EXCEPT !.inputs = inputs]
    <3>1. abilities[ability].inputs \in 0 .. CountCap
      BY <2>1, <2>2 DEF AbilityNode
    <3>2. inputs \in 0 .. CountCap
      BY <3>1, CountType, CountsAssumption
    <3> HIDE DEF inputs
    <3>3. a \in AbilityNode /\ a.index = abilities[ability].index
      BY <2>1, <2>2, <3>2 DEF AbilityNode
    <3>4. abilities' = [abilities EXCEPT ![ability] = a]
      BY <1>2, <2>1, <2>2 DEF AbilityNode, inputs
    <3> HIDE DEF a
    <3> QED
      BY <2>1, <2>2, <3>3, <3>4 DEF TreeInv, TreeType
  <2>3. CASE ability \notin DOMAIN abilities
    BY <1>2, <2>1, <2>3 DEF TreeInv, TreeType
  <2> QED
    BY <2>2, <2>3
<1>5. missed = 0 /\ page # 0 => pages[page].owner = ability
  BY DEF TreeInv, OwnerInv
<1>6. missed' \in 0 .. MissedReads + 1
  BY <1>2 DEF TreeInv, TreeType
<1>7. TreeInv'
  BY <1>1, <1>2, <1>3, <1>4, <1>5, <1>6, SameTree
<1>8. DOMAIN pages' = DOMAIN pages
  BY <1>2
<1> QED
  BY <1>1, <1>2, <1>3, <1>7, <1>8

(* The elements could not be read.                                         *)
LEMMA PageNotReadInv ==
  ASSUME TreeInv, PageNotRead
  PROVE  /\ TreeInv'
         /\ missed' = 0 /\ page' = 0 => ability' = NoAbility
<1>1. /\ missed' \in 0 .. MissedReads + 1
      /\ missed' = 0 => missed = 0 /\ ~isNewAbility
      /\ UNCHANGED <<ability, abilities, pages, page, roots, isNewAbility>>
  BY CountsAssumption DEF PageNotRead, TreeInv, TreeType
<1>2. TreeType' /\ HeldInv'
  BY <1>1 DEF TreeInv, TreeType, HeldInv
<1>3. OwnerInv'
  BY <1>1 DEF TreeInv, OwnerInv, HasTree
<1> QED
  BY <1>1, <1>2, <1>3 DEF TreeInv, OwnerInv

-----------------------------------------------------------------------------

(* What is known of the tree gives it its types.                           *)
LEMMA TreeTyped == TreeInv => TreeTypeOK
  BY DEF TreeInv, TreeType, TreeTypeOK, AbilityNode, Node

(* The tree is left alone.                                                 *)
LEMMA SameTreeVars ==
  ASSUME TreeInv, UNCHANGED treeVars
  PROVE  TreeInv'
<1>1. TreeType' /\ HeldInv'
  BY DEF TreeInv, TreeType, HeldInv, treeVars
<1>2. OwnerInv'
  BY DEF TreeInv, OwnerInv, HasTree, treeVars
<1> QED
  BY <1>1, <1>2 DEF TreeInv

-----------------------------------------------------------------------------
(* What an ability is to get.                                              *)

(* Fewer components than a uint32_t can count are on the pages of one      *)
(* ability.                                                                *)
CountsFit ==
  \A a \in DOMAIN abilities : Cardinality(ComponentsOf(a)) < Modulus

Counted(a) ==
  /\ IsFiniteSet(ComponentsOf(a))
  /\ abilities[a].all = Cardinality(ComponentsOf(a))

(* Every page belongs to an ability that is known, and while nothing was   *)
(* missed what that ability is to get are the components of its pages.     *)
CountInv ==
  /\ \A n \in DOMAIN pages : pages[n].owner \in DOMAIN abilities
  /\ missed = 0 => \A a \in DOMAIN abilities : Counted(a)

(* A count that fits is not cut.                                           *)
LEMMA NotCut ==
  ASSUME NEW m \in Nat, NEW n \in Nat, n < m
  PROVE  n % m = n
  OBVIOUS

(* Two sets that share nothing.                                            *)
LEMMA Joined ==
  ASSUME NEW S, NEW T, IsFiniteSet(S), IsFiniteSet(T), S \cap T = {}
  PROVE  /\ IsFiniteSet(S \cup T)
         /\ Cardinality(S \cup T) = Cardinality(S) + Cardinality(T)
<1>1. /\ IsFiniteSet(S \cup T)
      /\ Cardinality(S \cup T)
           = Cardinality(S) + Cardinality(T) - Cardinality(S \cap T)
  BY FS_Union
<1>2. Cardinality(S \cap T) = 0
  BY FS_EmptySet
<1>3. Cardinality(S) \in Nat /\ Cardinality(T) \in Nat
  BY FS_CardinalityType
<1> QED
  BY <1>1, <1>2, <1>3

(* A set without a part of it.                                             *)
LEMMA Remaining ==
  ASSUME NEW S, NEW T, IsFiniteSet(S), S \cap T = T
  PROVE  /\ IsFiniteSet(S \ T)
         /\ Cardinality(S \ T) = Cardinality(S) - Cardinality(T)
<1>1. /\ IsFiniteSet(S \ T)
      /\ Cardinality(S \ T) = Cardinality(S) - Cardinality(S \cap T)
  BY FS_Difference
<1> QED
  BY <1>1

(* The components of one page, each with the number of the page.           *)
LEMMA PartSize ==
  ASSUME NEW n \in Nat, NEW p \in Page
  PROVE  /\ IsFiniteSet({n} \X Components[p])
         /\ Cardinality({n} \X Components[p]) = Size(p)
<1>1. IsFiniteSet({n}) /\ Cardinality({n}) = 1
  BY FS_Singleton
<1>2. IsFiniteSet(Components[p]) /\ Size(p) \in Nat
  BY ComponentsAssumption, SizeType
<1>3. /\ IsFiniteSet({n} \X Components[p])
      /\ Cardinality({n} \X Components[p]) = 1 * Size(p)
  BY <1>1, <1>2, FS_Product DEF Size
<1> QED
  BY <1>2, <1>3

(* The components of an ability, one by one.                               *)
LEMMA OfAbility ==
  ASSUME NEW a, NEW x
  PROVE  x \in ComponentsOf(a) <=>
           \E n \in DOMAIN pages :
             pages[n].owner = a /\ x \in {n} \X Components[pages[n].id]
  BY DEF ComponentsOf

(* And in the next state.                                                  *)
LEMMA OfAbilityThen ==
  ASSUME NEW a, NEW x
  PROVE  x \in ComponentsOf(a)' <=>
           \E n \in DOMAIN pages' :
             pages'[n].owner = a /\ x \in {n} \X Components[pages'[n].id]
  BY DEF ComponentsOf

(* A step that keeps the pages as far as they are counted.                 *)
LEMMA SameCounts ==
  ASSUME CountInv, DOMAIN pages' = DOMAIN pages,
         \A n \in DOMAIN pages : /\ pages'[n].owner = pages[n].owner
                                 /\ pages'[n].id = pages[n].id,
         DOMAIN abilities' = DOMAIN abilities,
         \A a \in DOMAIN abilities : abilities'[a].all = abilities[a].all,
         missed' = 0 => missed = 0
  PROVE  CountInv'
<1>1. ASSUME NEW a PROVE ComponentsOf(a)' = ComponentsOf(a)
  <2>1. {n \in DOMAIN pages' : pages'[n].owner = a}
          = {n \in DOMAIN pages : pages[n].owner = a}
    OBVIOUS
  <2>2. ASSUME NEW x
        PROVE  x \in ComponentsOf(a)' <=> x \in ComponentsOf(a)
    BY <2>1, OfAbility, OfAbilityThen
  <2> HIDE DEF ComponentsOf
  <2> QED
    BY <2>2
<1>2. \A a \in DOMAIN abilities : Counted(a) => Counted(a)'
  BY <1>1 DEF Counted
<1> QED
  BY <1>2 DEF CountInv

(* Nothing is dropped while nothing was missed.                            *)
LEMMA NothingDropped ==
  ASSUME TreeInv, missed = 0
  PROVE  HeldPages = pages
  BY CurrentPage DEF TreeInv, OwnerInv, HeldPages

(* Whatever ability is on top.                                             *)
LEMMA GetTopAbilityCounts ==
  ASSUME TreeInv, CountInv, NEW a \in Ability, MakeAndCheckNewAbility(a)
  PROVE  CountInv'
<1>1. CASE SameAbility
  BY <1>1, SameCounts DEF SameAbility
<1>2. CASE NewBundle(a)
  <2>1. DOMAIN pages' = {} /\ DOMAIN abilities' = {a}
        /\ abilities'[a].all = 0
    BY <1>2 DEF NewBundle, NewAbilityNode
  <2>2. ComponentsOf(a)' = {}
    BY <2>1, OfAbilityThen
  <2> QED
    BY <2>1, <2>2, FS_EmptySet DEF CountInv, Counted
<1>3. CASE a \notin DOMAIN abilities /\ NewAbility(a)
  <2>1. /\ DOMAIN abilities' = DOMAIN abilities \cup {a}
        /\ abilities'[a].all = 0
        /\ \A b \in DOMAIN abilities : abilities'[b] = abilities[b]
        /\ pages' = HeldPages /\ missed' = missed
    BY <1>3 DEF NewAbility, WithAbility, NewAbilityNode
  <2>2. \A n \in DOMAIN pages' : pages'[n].owner \in DOMAIN abilities
    BY <2>1, HeldPagesRemain DEF CountInv
  <2>3. ASSUME missed = 0 PROVE \A b \in DOMAIN abilities' : Counted(b)'
    <3>1. pages' = pages
      BY <2>1, <2>3, NothingDropped
    <3>2. ASSUME NEW b PROVE ComponentsOf(b)' = ComponentsOf(b)
      BY <3>1 DEF ComponentsOf
    <3>3. ComponentsOf(a) = {}
      BY <1>3, OfAbility DEF CountInv
    <3>4. Counted(a)'
      BY <2>1, <3>2, <3>3, FS_EmptySet DEF Counted
    <3>5. \A b \in DOMAIN abilities : Counted(b)'
      BY <2>1, <2>3, <3>2 DEF CountInv, Counted
    <3> QED
      BY <2>1, <3>4, <3>5
  <2> QED
    BY <2>1, <2>2, <2>3 DEF CountInv
<1>4. CASE a \in DOMAIN abilities /\ OldAbility(a)
  <2>1. /\ UNCHANGED <<abilities, missed>>
        /\ pages' = pages \/ pages' = HeldPages
    BY <1>4 DEF OldAbility
  <2>2. CASE pages' = pages
    BY <2>1, <2>2, SameCounts
  <2>3. CASE pages' = HeldPages
    <3>1. \A n \in DOMAIN pages' : pages'[n].owner \in DOMAIN abilities
      BY <2>3, HeldPagesRemain DEF CountInv
    <3>2. CASE missed = 0
      BY <2>1, <2>3, <3>2, NothingDropped, SameCounts
    <3> QED
      BY <2>1, <3>1, <3>2 DEF CountInv
  <2> QED
    BY <2>1, <2>2, <2>3
<1> QED
  BY <1>1, <1>2, <1>3, <1>4 DEF MakeAndCheckNewAbility

(* One more page of the current ability, when it fits.                     *)
LEMMA AddPageCounts ==
  ASSUME TreeInv, CountInv, NEW p \in Page, AddPage(p), Read,
         UNCHANGED <<ability, isNewAbility>>, ability # NoAbility,
         CountsFit'
  PROVE  CountInv'
<1> DEFINE n == Len(HeldPages) + 1
           all == (abilities[ability].all + Size(p)) % Modulus
<1>1. /\ n \in Nat /\ DOMAIN pages' = 1 .. n /\ DOMAIN HeldPages = 1 .. n - 1
      /\ \A k \in DOMAIN HeldPages : /\ pages'[k] = HeldPages[k]
                                     /\ k \in DOMAIN pages
                                     /\ HeldPages[k] = pages[k]
      /\ pages'[n].owner = ability /\ pages'[n].id = p
  BY HeldPagesRemain DEF AddPage
<1>2. /\ ability \in DOMAIN abilities /\ DOMAIN abilities' = DOMAIN abilities
      /\ \A b \in DOMAIN abilities :
           /\ b # ability => abilities'[b] = abilities[b]
           /\ b = ability => abilities'[b].all = all
  <2>1. ability \in DOMAIN abilities /\ abilities[ability] \in AbilityNode
    BY DEF TreeInv, TreeType
  <2> QED
    BY <2>1 DEF AddPage, TreeInv, TreeType, AbilityNode
<1>3. \A k \in DOMAIN pages' : pages'[k].owner \in DOMAIN abilities'
  BY <1>1, <1>2 DEF CountInv
<1>4. ASSUME missed = 0 PROVE \A b \in DOMAIN abilities : Counted(b)'
  <2>1. DOMAIN pages = 1 .. n - 1
    BY <1>1, <1>4, NothingDropped
  <2>2. ASSUME NEW b \in DOMAIN abilities, b # ability PROVE Counted(b)'
    <3>1. ASSUME NEW x PROVE x \in ComponentsOf(b)' <=> x \in ComponentsOf(b)
      BY <1>1, <2>1, <2>2, OfAbility, OfAbilityThen
    <3>2. ComponentsOf(b)' = ComponentsOf(b)
      BY <3>1
    <3> QED
      BY <1>2, <1>4, <2>2, <3>2 DEF CountInv, Counted
  <2>3. Counted(ability)'
    <3> DEFINE old == ComponentsOf(ability)
               part == {n} \X Components[p]
    <3>1. ASSUME NEW x
          PROVE  x \in ComponentsOf(ability)' <=> x \in old \cup part
      BY <1>1, <2>1, OfAbility, OfAbilityThen
    <3>2. ComponentsOf(ability)' = old \cup part
      BY <3>1
    <3>3. old \cap part = {}
      BY <2>1, OfAbility
    <3>4. /\ IsFiniteSet(old) /\ Cardinality(old) = abilities[ability].all
          /\ IsFiniteSet(part) /\ Cardinality(part) = Size(p)
      BY <1>1, <1>2, <1>4, PartSize DEF CountInv, Counted
    <3>5. Cardinality(old) \in Nat /\ Size(p) \in Nat
      BY <3>4, FS_CardinalityType, SizeType
    <3> HIDE DEF old, part
    <3>6. /\ IsFiniteSet(old \cup part)
          /\ Cardinality(old \cup part) = abilities[ability].all + Size(p)
      BY <3>3, <3>4, Joined
    <3>7. abilities[ability].all + Size(p) < Modulus
      BY <1>2, <3>2, <3>6 DEF CountsFit
    <3>8. all = abilities[ability].all + Size(p)
      <4>1. abilities[ability].all + Size(p) \in Nat
        BY <3>4, <3>5
      <4> QED
        BY <3>7, <4>1, NotCut, CountsAssumption
    <3> QED
      BY <1>2, <3>2, <3>6, <3>8 DEF Counted
  <2> QED
    BY <2>2, <2>3
<1> QED
  BY <1>2, <1>3, <1>4, ReadType DEF CountInv

(* A page that shows other components than before, when they fit.          *)
LEMMA UpdatePageCounts ==
  ASSUME TreeInv, CountInv, NEW p \in Page, NEW n \in DOMAIN pages,
         UpdatePage(n, p), Read, UNCHANGED <<ability, isNewAbility>>,
         ability # NoAbility, missed = 0 => pages[n].owner = ability,
         CountsFit'
  PROVE  CountInv'
<1> DEFINE q == pages[n].id
           all == MoveCounts(q, p)
<1>1. /\ n \in Nat /\ pages[n] \in Node /\ q \in Page
      /\ \A k \in DOMAIN pages : pages[k] \in Node
  BY NodeFields DEF TreeInv, TreeType
<1>2. /\ DOMAIN pages' = DOMAIN pages
      /\ \A k \in DOMAIN pages :
           /\ pages'[k].owner = pages[k].owner
           /\ pages'[k].id = IF k = n THEN p ELSE pages[k].id
  BY <1>1 DEF UpdatePage, Node, NodeType
<1>3. /\ ability \in DOMAIN abilities /\ DOMAIN abilities' = DOMAIN abilities
      /\ \A b \in DOMAIN abilities :
           /\ b # ability => abilities'[b] = abilities[b]
           /\ b = ability => abilities'[b].all = all
  <2>1. ability \in DOMAIN abilities /\ abilities[ability] \in AbilityNode
    BY DEF TreeInv, TreeType
  <2> QED
    BY <2>1 DEF UpdatePage, TreeInv, TreeType, AbilityNode
<1>4. \A k \in DOMAIN pages' : pages'[k].owner \in DOMAIN abilities'
  BY <1>2, <1>3 DEF CountInv
<1>5. ASSUME missed = 0 PROVE \A b \in DOMAIN abilities : Counted(b)'
  <2>1. pages[n].owner = ability
    BY <1>5
  <2>2. ASSUME NEW b \in DOMAIN abilities, b # ability PROVE Counted(b)'
    <3>1. ASSUME NEW x PROVE x \in ComponentsOf(b)' <=> x \in ComponentsOf(b)
      BY <1>2, <2>1, <2>2, OfAbility, OfAbilityThen
    <3>2. ComponentsOf(b)' = ComponentsOf(b)
      BY <3>1
    <3> QED
      BY <1>3, <1>5, <2>2, <3>2 DEF CountInv, Counted
  <2>3. Counted(ability)'
    <3> DEFINE old == ComponentsOf(ability)
               gone == {n} \X Components[q]
               part == {n} \X Components[p]
    <3>1. ASSUME NEW x
          PROVE  x \in ComponentsOf(ability)' <=> x \in (old \ gone) \cup part
      BY <1>2, <2>1, OfAbility, OfAbilityThen
    <3>2. ComponentsOf(ability)' = (old \ gone) \cup part
      BY <3>1
    <3>3. old \cap gone = gone
      BY <2>1, OfAbility
    <3>4. (old \ gone) \cap part = {}
      BY <2>1, OfAbility
    <3>5. /\ IsFiniteSet(old) /\ Cardinality(old) = abilities[ability].all
          /\ IsFiniteSet(gone) /\ Cardinality(gone) = Size(q)
          /\ IsFiniteSet(part) /\ Cardinality(part) = Size(p)
      BY <1>1, <1>3, <1>5, PartSize DEF CountInv, Counted
    <3>6. Cardinality(old) \in Nat /\ Size(p) \in Nat /\ Size(q) \in Nat
      BY <1>1, <3>5, FS_CardinalityType, SizeType
    <3> HIDE DEF old, gone, part
    <3>7. /\ IsFiniteSet(old \ gone)
          /\ Cardinality(old \ gone) = Cardinality(old) - Size(q)
      BY <3>3, <3>5, Remaining
    <3>8. Cardinality(old) - Size(q) \in Nat
      BY <3>7, FS_CardinalityType
    <3>9. /\ IsFiniteSet((old \ gone) \cup part)
          /\ Cardinality((old \ gone) \cup part)
               = Cardinality(old) - Size(q) + Size(p)
      BY <3>4, <3>5, <3>7, Joined
    <3>10. Cardinality(old) - Size(q) + Size(p) < Modulus
      BY <1>3, <3>2, <3>9 DEF CountsFit
    <3>11. all = Cardinality(old) - Size(q) + Size(p)
      BY <3>5, <3>6, <3>8, <3>10, NotCut, CountsAssumption DEF MoveCounts
    <3> QED
      BY <1>3, <3>2, <3>9, <3>11 DEF Counted
  <2> QED
    BY <2>2, <2>3
<1> QED
  BY <1>3, <1>4, <1>5, ReadType DEF CountInv

(* The page that was read becomes the current one.                         *)
LEMMA FindPageCounts ==
  ASSUME TreeInv, CountInv, NEW p \in Page, FindPage(p), ability # NoAbility,
         CountsFit'
  PROVE  CountInv'
<1>1. Read /\ UNCHANGED <<ability, isNewAbility>>
  BY DEF FindPage
<1>2. CASE UNCHANGED <<pages, page, roots, abilities>>
  BY <1>1, <1>2, SameCounts, ReadType
<1>3. CASE FindSamePageInParent(p)
  <2>1. PICK n \in pages[page].above : UpdatePage(n, p)
    BY <1>3 DEF FindSamePageInParent, Above
  <2>2. page # 0 /\ page \in DOMAIN pages
    BY <1>3, CurrentPage DEF FindSamePageInParent, GoesUp
  <2>3. n \in DOMAIN pages
    BY <2>1, <2>2 DEF TreeInv, TreeType, HeldInv
  <2>4. missed = 0 => pages[n].owner = ability
    BY <2>1, <2>2 DEF TreeInv, OwnerInv
  <2> QED
    BY <1>1, <2>1, <2>3, <2>4, UpdatePageCounts
<1>4. CASE FindSamePageInChildren(p)
  <2>1. PICK n \in DOMAIN pages : page \in pages[n].above /\ UpdatePage(n, p)
    BY <1>4 DEF FindSamePageInChildren, Below, Children, IsNearest
  <2>2. page # 0
    BY <1>4 DEF FindSamePageInChildren, GoesDown
  <2>3. missed = 0 => pages[n].owner = ability
    BY <2>1, <2>2 DEF TreeInv, OwnerInv
  <2> QED
    BY <1>1, <2>1, <2>3, UpdatePageCounts
<1>5. CASE ChangedPage(p) /\ UpdatePage(page, p)
  <2>1. page # 0 /\ page \in DOMAIN pages
    BY <1>5, CurrentPage DEF ChangedPage
  <2>2. missed = 0 => pages[page].owner = ability
    BY <2>1 DEF TreeInv, OwnerInv
  <2> QED
    BY <1>1, <1>5, <2>1, <2>2, UpdatePageCounts
<1>6. CASE AddPage(p)
  BY <1>1, <1>6, AddPageCounts
<1> QED
  BY <1>2, <1>3, <1>4, <1>5, <1>6 DEF FindPage, CompareComponentInfos

(* An input changes no page, and not what the ability is to get.           *)
LEMMA InputCounts ==
  ASSUME TreeInv, CountInv, NEW input \in [page : Nat, component : Nat],
         SetInputcomponentIndex(input)
  PROVE  CountInv'
<1>1. /\ DOMAIN pages' = DOMAIN pages
      /\ \A n \in DOMAIN pages : /\ pages'[n].owner = pages[n].owner
                                 /\ pages'[n].id = pages[n].id
  BY InputCountedInv
<1>2. /\ DOMAIN abilities' = DOMAIN abilities
      /\ \A a \in DOMAIN abilities : abilities'[a].all = abilities[a].all
  <2>1. \A a \in DOMAIN abilities : abilities[a] \in AbilityNode
    BY DEF TreeInv, TreeType
  <2> QED
    BY <2>1 DEF SetInputcomponentIndex, TreeInv, TreeType, AbilityNode
<1>3. missed' = missed
  BY DEF SetInputcomponentIndex
<1> QED
  BY <1>1, <1>2, <1>3, SameCounts

(* A step that leaves the tree alone, or only fails to read a page.        *)
LEMMA CountsUntouched ==
  ASSUME CountInv, UNCHANGED treeVars \/ PageNotRead
  PROVE  CountInv'
<1>1. UNCHANGED <<pages, abilities>> /\ (missed' = 0 => missed = 0)
  BY DEF treeVars, PageNotRead
<1> QED
  BY <1>1, SameCounts

=============================================================================
