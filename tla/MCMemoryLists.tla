--------------------------- MODULE MCMemoryLists ----------------------------
(***************************************************************************)
(* Two-word nodes only (flush_node_list frees no others) and a handful of  *)
(* one-word locations, enough for lists of three with a mixture of kinds.  *)
(***************************************************************************)
EXTENDS MemoryLists
=============================================================================
