------------------------------ MODULE MCMemory ------------------------------
(***************************************************************************)
(* A mem of a dozen words: one static word below, three above.  GrowBy = 4 *)
(* makes the first grow a whole step and later ones a halving of the gap.  *)
(***************************************************************************)
EXTENDS Memory
=============================================================================
