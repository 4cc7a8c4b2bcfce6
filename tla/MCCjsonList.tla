------------------------------ MODULE MCCjsonList ------------------------------
(***************************************************************************)
(* Five cells: two for objects or arrays, or one for each, and three       *)
(* leaves, enough for lists of a first, a middle and a last item, for      *)
(* lists in one another and for a copy beside a list. Two names differ     *)
(* only in case.                                                           *)
(***************************************************************************)
EXTENDS CjsonList

CONSTANTS c1, c2, n1, n2, n3

MCKinds ==
    {[i \in Items |-> CASE i = c1 -> k [] i = c2 -> l [] OTHER -> "leaf"] :
        k \in {"object", "array"}, l \in {"object", "array"}}

MCFolded == [n \in Names |-> "id"]

\* The cells are alike.
Cells == Permutations(Items)
=============================================================================
