------------------------------ MODULE Strokes -------------------------------
(***************************************************************************)
(* The strokes that draw contours (mf.web 7940-8240).  A stroke is a piece *)
(* of a contour: a column for each row, from the first row up or down, and *)
(* the box that edge_prep is told of.                                      *)
(***************************************************************************)
EXTENDS Integers, Sequences, SequencesExt

Abs(x) == IF x < 0 THEN -x ELSE x
Least(a, b) == IF a < b THEN a ELSE b
Greatest(a, b) == IF a > b THEN a ELSE b

\* line_edges, for a line whose column in row n is cols[n].
Line(cols, m0, n0, m1, n1) ==
    LET up == n0 < n1
        first == IF up THEN n0 ELSE n0 - 1
    IN  [cols |-> [k \in 1..Abs(n1 - n0) |-> cols[IF up THEN first + k - 1
                                                        ELSE first - k + 1]],
         first |-> first, up |-> up, ml |-> Least(m0, m1), mr |-> Greatest(m0, m1),
         nl |-> Least(n0, n1), nr |-> Greatest(n0, n1), on_row |-> TRUE]

Octants == [first |-> [swap |-> FALSE, dx |-> 1, up |-> TRUE],
            second |-> [swap |-> TRUE, dx |-> 1, up |-> TRUE],
            third |-> [swap |-> TRUE, dx |-> -1, up |-> TRUE],
            fourth |-> [swap |-> FALSE, dx |-> -1, up |-> TRUE],
            fifth |-> [swap |-> FALSE, dx |-> -1, up |-> FALSE],
            sixth |-> [swap |-> TRUE, dx |-> -1, up |-> FALSE],
            seventh |-> [swap |-> TRUE, dx |-> 1, up |-> FALSE],
            eighth |-> [swap |-> FALSE, dx |-> 1, up |-> FALSE]]

\* move_to_edges: from (m0,n0) to (m1,n1) in the octant's coordinates; move[k]
\* says how far to go before the next step in the other direction.
Moves(octant, m0, n0, m1, n1, move) ==
    LET o == Octants[octant]
        delta == n1 - n0
        sum[k \in 0..delta] == IF k = 0 THEN move[1] ELSE sum[k - 1] + move[k + 1]
        cols == IF o.swap
                THEN FlattenSeq([k \in 1..delta + 1 |->
                                   [j \in 1..move[k] |-> o.dx * (n0 + k - 1)]])
                ELSE [k \in 1..delta |-> o.dx * (m0 + sum[k - 1])]
        x0 == IF o.swap THEN n0 ELSE m0
        x1 == IF o.swap THEN n1 ELSE m1
        y0 == IF o.swap THEN m0 ELSE n0
        y1 == IF o.swap THEN m1 ELSE n1
    IN  [cols |-> cols, first |-> IF o.up THEN y0 ELSE -y0 - 1, up |-> o.up,
         ml |-> IF o.dx > 0 THEN x0 ELSE -x1, mr |-> IF o.dx > 0 THEN x1 ELSE -x0,
         nl |-> IF o.up THEN y0 ELSE -y1, nr |-> IF o.up THEN y1 ELSE -y0,
         on_row |-> FALSE]
=============================================================================
