--------------------------- MODULE SceneDelegate ----------------------------
(***************************************************************************)
(* Which page of the tree the page on the screen is (SceneDelegate,        *)
(* ChooseScene).  What to do on it is chosen by the input.                 *)
(***************************************************************************)
EXTENDS TreeManager

(* The pages of a branch are numbered downwards.                           *)
IsNearest(n, S) == n \in S /\ \A m \in S : m <= n
IsFirst(n, S) == n \in S /\ \A m \in S : n <= m

Children(n) == {m \in DOMAIN pages : IsNearest(n, pages[m].above)}

SamePage(p) == page # 0 /\ pages[page].id = p
Above(p) == {n \in pages[page].above : pages[n].id = p}
Below(p) == {n \in Children(page) : pages[n].id = p}

GoesUp(p) == page # 0 /\ ~SamePage(p) /\ Above(p) # {}
GoesDown(p) == page # 0 /\ ~SamePage(p) /\ Above(p) = {} /\ Below(p) # {}
IsUnknown(p) == ~SamePage(p) /\ ~GoesUp(p) /\ ~GoesDown(p)

FindSamePageInParent(p) ==
  GoesUp(p) /\ \E n \in Above(p) : IsNearest(n, Above(p)) /\ UpdatePage(n, p)
FindSamePageInChildren(p) ==
  GoesDown(p) /\ \E n \in Below(p) : IsFirst(n, Below(p)) /\ UpdatePage(n, p)

(* More than SAMEPERCENT of the shorter list is on the other one too.      *)
Similar(p, q) ==
  LET shorter == IF Size(p) < Size(q) THEN Size(p) ELSE Size(q)
  IN  10 * Cardinality(Components[p] \cap Components[q]) > 8 * shorter

ChangedPage(p) == page # 0 /\ IsUnknown(p) /\ Similar(p, pages[page].id)

CompareComponentInfos(p) ==
  /\ IsUnknown(p)
  /\ \/ ChangedPage(p) /\ UpdatePage(page, p)
     \/ ~ChangedPage(p) /\ AddPage(p)

(* The bound of the model: no more pages are read of a bundle of which an  *)
(* ability was missed.                                                     *)
Read ==
  /\ missed <= MissedReads
  /\ missed' = IF missed = 0 THEN 0 ELSE missed + 1

FindPage(p) ==
  /\ Read
  /\ \/ SamePage(p) /\ UNCHANGED <<pages, page, roots, abilities>>
     \/ FindSamePageInParent(p)
     \/ FindSamePageInChildren(p)
     \/ CompareComponentInfos(p)
  /\ UNCHANGED <<ability, isNewAbility>>

=============================================================================
