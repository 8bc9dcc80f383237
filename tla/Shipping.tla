------------------------------ MODULE Shipping ------------------------------
(***************************************************************************)
(* From contours to bytes: a picture that is drawn, culled, merged and     *)
(* transformed (Edges) is shipped (GFFile).  ship_out sorts the rows that  *)
(* have unsorted edges and reads them from the top (mf.web 22346-22370).   *)
(*                                                                         *)
(* To bound the run, a file has either characters of given pictures, in    *)
(* any order with specials between them, or one that was drawn.            *)
(***************************************************************************)
EXTENDS GFFile

CONSTANTS limit, max_weight, Contours, Weights, Culls, Transforms, MaxOps

VARIABLES cur_edges, weights, ops

E == INSTANCE Edges WITH Shapes <- Contours

allVars == <<vars, cur_edges, weights, ops>>

Unused == file = <<>> /\ char_exists = {} /\ status = "unopened"

Draw == Unused /\ E!Next /\ UNCHANGED vars

Rows(h) == [i \in DOMAIN h.rows |-> E!sort_edges(h.rows[Len(h.rows) + 1 - i]).sorted]
Drawn(h) == [m_min |-> h.m_min, m_max |-> h.m_max, n_min |-> h.n_min, n_max |-> h.n_max,
             m_offset |-> h.m_offset, rows |-> Rows(h)]

\* The picture of a variable is shipped as it is, not a copy.
ship_drawn ==
    /\ Unused /\ ops > 0
    /\ \E c \in Residues, x, y \in Offsets :
          /\ c = CHOOSE r \in Residues : TRUE
          /\ ship_out(Drawn(cur_edges), c, 0, x, y, 0)
          /\ char_exists' = {c}
    /\ cur_edges' = [cur_edges EXCEPT !.rows = [i \in DOMAIN @ |-> E!sort_edges(@[i])]]
    /\ UNCHANGED <<specials, weights, ops>>

ShippingInit == Init /\ E!Init
ShippingNext ==
    \/ ops = 0 /\ Next /\ UNCHANGED <<cur_edges, weights, ops>>
    \/ Draw
    \/ ship_drawn
ShippingSpec == ShippingInit /\ [][ShippingNext]_allVars

-----------------------------------------------------------------------------
WeightsKept == E!WeightsKept
RoverRight == E!RoverRight

\* What a program that reads the file sees is what was drawn: ship_out keeps
\* the pixels of every shape, those of every character stay what they were
\* when it was shipped, and the character of a picture made by any contours,
\* cullings and transformations has the pixels whose weight came out positive.
PixelsKept ==
    /\ Unused /\ ops = 0 => ShapesShown
    /\ CharactersShown
    /\ ops > 0 /\ shipped # <<>> =>
          Last(Reading(Commands(Boc(1)))).pixels =
              {<<q[1] + shipped[1].x_off, q[2] + shipped[1].y_off>> :
                  q \in {q \in E!Pixels : weights[q] > 0}}
=============================================================================
