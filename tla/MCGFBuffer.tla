----------------------------- MODULE MCGFBuffer -----------------------------
(***************************************************************************)
(* Jobs of three kinds.  One puts bytes through the smallest buffer that   *)
(* the assumption allows, filled and emptied half by half several times,   *)
(* and ends well.  One has few bytes and every error.  One has the widths  *)
(* or heights of five characters, from which three values must be made.    *)
(*                                                                         *)
(* The arithmetic, with words of thirteen bits, keeps nothing from one call   *)
(* to the next but what its caller uses, so it is called in one state of   *)
(* one job only, with the ends of the range and what lies about the units. *)
(***************************************************************************)
EXTENDS Job, Arithmetic

None == {<<>>}
Five == {<<9>> \o w : w \in [1..4 -> {-3, 0, 1, 5, 9}]}
Tall == {<<9>> \o h : h \in [1..4 -> {-3, 1, 5}]}
Two == {<<9, 0, 1, 5>>}

Calculating == [bytes |-> 10, calm |-> TRUE, widths |-> None, heights |-> None]
MCLimits ==
    { Calculating,
      [bytes |-> 1, calm |-> FALSE, widths |-> Two, heights |-> None],
      [bytes |-> 0, calm |-> TRUE, widths |-> Five, heights |-> None],
      [bytes |-> 0, calm |-> TRUE, widths |-> None, heights |-> Tall] }

\* Among them are products and quotients just below a half that become a double above
\* it, also at the largest number: 645 * 3251 = 4095.498 * 512.
Sizes ==
    {0, 1, 2, 10, 127, 128, 269, 445, 511, 512, 513, 645, 2047, 2049, 3251, 3435, 4095}
MCArgs == Sizes \cup {-s : s \in Sizes}
MCFew == {-4095, -2049, 0, 445}
MCFour_to == [i \in 0..9 |-> 4 ^ i]
MCPowers == {2 ^ i : i \in 0..10}

\* The proofs are for any contents of a fresh buffer.
MCInit == JobInit /\ gf_buf = [j \in gf_index |-> 0] /\ ArithInit
MCNext ==
    \/ pc = "idle" /\ JobNext /\ UNCHANGED arithVars
    \/ limits = Calculating /\ job.phase = "start" /\ ArithNext /\ UNCHANGED jobVars
MCSpec ==
    MCInit /\ [][MCNext]_<<jobVars, arithVars>> /\ WF_jobVars(close_files_and_terminate)
=============================================================================
