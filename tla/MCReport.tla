------------------------------ MODULE MCReport ------------------------------
EXTENDS Report, TLC

CONSTANTS X, Y  \* two types of components

MCEvents == {"appswitch", "touch"}
MCTypes == {X, Y}

(* A page whose second component may come and go, and another page.       *)
MCContents ==
  1 :> {X :> 1 @@ Y :> 0, X :> 1 @@ Y :> 1} @@ 2 :> {X :> 1 @@ Y :> 0}

MCSymmetry == Permutations(Bundle)

=============================================================================
