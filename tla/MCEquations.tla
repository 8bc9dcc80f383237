----------------------------- MODULE MCEquations ----------------------------
(***************************************************************************)
(* Three variables, an operand put aside, the current expression, and the  *)
(* copies that an operator or an assignment makes.                         *)
(***************************************************************************)
EXTENDS Equations, TLC
CONSTANTS a1, a2, a3, c1, c2, c3, c4
Sym == Permutations(Variables) \cup Permutations(Capsules)
=============================================================================
