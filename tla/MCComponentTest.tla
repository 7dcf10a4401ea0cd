--------------------------- MODULE MCComponentTest --------------------------
(* Two applications.  The first has two abilities, and a page below its    *)
(* list that may be read while either of them is said to be on top; the    *)
(* second one has a page that grows and shrinks in place.                  *)
EXTENDS ComponentTest, TLC

CONSTANTS a1, a2, b1, list, grown, detail

MCBundleOf == a1 :> 1 @@ a2 :> 1 @@ b1 :> 2
MCComponents == list :> {1} @@ grown :> {1, 2} @@ detail :> {3}
MCExcluded == [p \in Page |-> IF p = detail THEN {3} ELSE {}]
MCPagesOf == a1 :> {list, detail} @@ a2 :> {detail} @@ b1 :> {list, grown}

(* One application with one ability, a list of two components and a page   *)
(* of two others.                                                          *)
TwoPages == list :> {1, 2} @@ grown :> {1, 2} @@ detail :> {3, 4}
NoneExcluded == [p \in Page |-> {}]

=============================================================================
