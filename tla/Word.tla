-------------------------------- MODULE Word --------------------------------
(***************************************************************************)
(* The width of an integer (mf.web 2101, 2205).                            *)
(***************************************************************************)
CONSTANT el_gordo       \* the largest value that METAFONT likes: 2^31 - 1
=============================================================================
