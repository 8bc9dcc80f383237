------------------------------ MODULE MCScanner ------------------------------
(* Instance of Scanner for TLC.  Nodes and texts are interchangeable.       *)
EXTENDS Scanner

MCSymmetry == Permutations(Texts) \cup Permutations(Nodes)
=============================================================================
