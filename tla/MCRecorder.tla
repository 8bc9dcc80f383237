---------------------------- MODULE MCRecorder ------------------------------
(***************************************************************************)
(* Jobs of two kinds.  In one, curves: three fills of up to two octants,   *)
(* so that a double path and another curve fit in a job, two characters    *)
(* told apart by their extension only, a complete directory and one        *)
(* without offset_prep.lua.  In the other, pages: two fills and two        *)
(* shippings among four characters told apart by code and by extension,    *)
(* with and without print_edges.lua.                                       *)
(***************************************************************************)
EXTENDS Recorder

VARIABLE plan       \* the kind of the job: bounds, chosen once

AllScripts == {"do_add_to", "offset_prep", "fill_spec", "skew_line_edges",
               "print_edges"}

Curving ==
    [codes |-> {0}, fills |-> 3, octants |-> 2, ships |-> 0, retro |-> 1,
     scripts |-> {AllScripts, AllScripts \ {"offset_prep"}}]
Paging ==
    [codes |-> {0, 1}, fills |-> 2, octants |-> 1, ships |-> 2, retro |-> 0,
     scripts |-> {AllScripts \ {"skew_line_edges", "offset_prep"}, {"do_add_to", "fill_spec"}}]

MCScripts == Curving.scripts \cup Paging.scripts

Within ==
    /\ char_code \in plan.codes
    /\ Len(fills) <= plan.fills
    /\ \A f \in DOMAIN fills : Len(fills[f].octs) <= plan.octants
    /\ Len(ships) <= plan.ships /\ Len(retro) <= plan.retro

MCInit == Init /\ plan \in {Curving, Paging} /\ has \in plan.scripts
MCNext == Next /\ UNCHANGED plan /\ Within'
MCSpec == MCInit /\ [][MCNext]_<<vars, plan>>
=============================================================================
