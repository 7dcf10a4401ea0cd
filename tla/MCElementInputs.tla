-------------------------- MODULE MCElementInputs ---------------------------
(***************************************************************************)
(* Two applications.  The first has one page, which grows and shrinks in   *)
(* place and changes its path with it; the second a page with a component  *)
(* that is blocked and one with a dialog, left and found again.            *)
(***************************************************************************)
EXTENDS ElementInputs, TLC

CONSTANTS a1, b1, list, grown, dialog, form

MCBundleOf == a1 :> 1 @@ b1 :> 2
MCComponents ==
  list :> {1} @@ grown :> {1, 2} @@ dialog :> {3, 5} @@ form :> {1, 4}
MCPagesOf == a1 :> {list, grown} @@ b1 :> {form, dialog}
MCPathOf == [p \in Page |-> IF p = grown THEN "grown" ELSE "main"]
MCBlocked == {4}
MCDialog == [p \in Page |-> IF p = dialog THEN {3} ELSE {}]
MCTypeOf == [c \in Component |-> IF c = 2 THEN "Text" ELSE "Button"]
MCFocusTypes == {"Button"}

=============================================================================
