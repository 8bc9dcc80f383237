----------------------------- MODULE MCBaseFile -----------------------------
(***************************************************************************)
(* INIMF has mem_max = mem_top.  A lower part of ten words is the least in *)
(* which a merged ring of two-word nodes has three nodes, hence every ring *)
(* order, the one in which the insertion walks past a node included; one   *)
(* word is left to the one-word region.  MaxRing = 2 leaves merges by      *)
(* get_node before the dump, but not every history of them.                *)
(***************************************************************************)
EXTENDS BaseFile
=============================================================================
