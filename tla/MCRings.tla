------------------------------- MODULE MCRings ------------------------------
(***************************************************************************)
(* Two variables, and three capsules: for expressions put aside, for the   *)
(* current one, and for the copy that an assignment makes.  The members of *)
(* all rings are five nodes at most.                                       *)
(***************************************************************************)
EXTENDS Rings, TLC
CONSTANTS x, y, c1, c2, c3, v1, v2
Sym == Permutations(Variables) \cup Permutations(Capsules) \cup Permutations(Values)
=============================================================================
