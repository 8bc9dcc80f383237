-------------------------------- MODULE Edges -------------------------------
(***************************************************************************)
(* Edge structures (mf.web 7077-8240, 18940-18990): a picture is a list of *)
(* rows, each with the places where the weight changes: a sorted list and  *)
(* an unsorted one.  Contours are drawn piece by piece; pictures are       *)
(* culled, merged, negated, reflected, scaled, transposed and shifted.     *)
(*                                                                         *)
(* An edge is <<m, w>>, with m_offset added to m; zero_field is 0 and      *)
(* limit stands for 4096.                                                  *)
(***************************************************************************)
EXTENDS Strokes, FiniteSets

CONSTANTS
    limit,          \* 4096
    max_weight,     \* 3: the heaviest edge
    Shapes,         \* contours: [pieces, pixels], the pixels they enclose
    Weights,        \* withweight
    Culls,          \* [lo, hi, out, in]
    Transforms,     \* [swap, xx, yy, tx, ty]
    MaxOps          \* bound: operations on a picture

VARIABLES
    cur_edges,      \* the edge structure of a picture variable
    weights,        \* what its pixels should weigh
    ops             \* operations so far, for the bound

vars == <<cur_edges, weights, ops>>

Info(e) == 8 * e[1] + e[2]          \* how edges are compared

-----------------------------------------------------------------------------
\* rows[i] is row n_min+i-1; n_rover is the index of a row, or 0: the header.
EmptyRow == [sorted |-> <<>>, unsorted |-> <<>>]
init_edges ==
    [rows |-> <<>>, n_min |-> limit - 1, n_max |-> 1 - limit,
     m_min |-> limit - 1, m_max |-> 1 - limit, m_offset |-> 0,
     n_pos |-> -limit, n_rover |-> 0]

empty_edges(h) == h.rows = <<>>

\* Every edge <<m, w>> becomes <<a * m + b, s * w>>.
EachEdge(h, a, b, s) ==
    LET Each(l) == [j \in DOMAIN l |-> <<a * l[j][1] + b, s * l[j][2]>>]
    IN  [h EXCEPT !.rows = [i \in DOMAIN @ |-> [sorted |-> Each(@[i].sorted),
                                               unsorted |-> Each(@[i].unsorted)]]]

Moved(h, delta) == EachEdge(h, 1, delta, 1)

fix_offset(h) == [Moved(h, -h.m_offset) EXCEPT !.m_offset = 0]

Blank(k) == [i \in 1..k |-> EmptyRow]

Widened(h, ml, mr) == [h EXCEPT !.m_min = Least(@, ml), !.m_max = Greatest(@, mr)]
Rebased(h) == IF Abs(h.m_min + h.m_offset) < limit /\ Abs(h.m_max + h.m_offset) < limit
              THEN h ELSE fix_offset(h)
Begun(h, nr) == IF empty_edges(h) THEN [h EXCEPT !.n_min = nr, !.n_max = nr - 1] ELSE h
RowsBelow(h, nl) ==
    IF nl >= h.n_min THEN h
    ELSE [h EXCEPT !.n_min = nl, !.rows = Blank(h.n_min - nl) \o @,
                   !.n_pos = IF h.n_rover = 0 THEN nl - 1 ELSE @,
                   !.n_rover = IF @ = 0 THEN 0 ELSE @ + h.n_min - nl]
RowsAbove(h, nr) ==
    IF nr - 1 <= h.n_max THEN h
    ELSE [h EXCEPT !.n_max = nr - 1, !.rows = @ \o Blank(nr - 1 - h.n_max),
                   !.n_pos = IF h.n_rover = 0 THEN nr ELSE @]

\* Room for edges in columns ml to mr, rows nl to nr - 1.
edge_prep(h, ml, mr, nl, nr) ==
    RowsAbove(RowsBelow(Begun(Rebased(Widened(h, ml, mr)), nr), nl), nr)

copy_edges(h) == [h EXCEPT !.n_pos = h.n_max + 1, !.n_rover = 0]

-----------------------------------------------------------------------------
(* Sorting.                                                                *)

\* Each edge goes in front of the first that is not less.
Inserted(l, e) == LET less == {i \in DOMAIN l : \A j \in 1..i : Info(l[j]) < Info(e)}
                  IN  InsertAt(l, Cardinality(less) + 1, e)

\* q gets the edges of p, in one pass over both.
MergedLists(q, p) ==
    LET rest[i \in 1..(Len(q) + 1), j \in 1..(Len(p) + 1)] ==
            IF j > Len(p) THEN SubSeq(q, i, Len(q))
            ELSE IF i <= Len(q) /\ Info(p[j]) > Info(q[i])
            THEN <<q[i]>> \o rest[i + 1, j]
            ELSE <<p[j]>> \o rest[i, j + 1]
    IN  rest[1, 1]

sort_edges_Appended(r) ==           \* the two lists not merged
    LET first[i \in 0..Len(r.unsorted)] ==
            IF i = 0 THEN <<>> ELSE Inserted(first[i - 1], r.unsorted[i])
    IN  [sorted |-> r.sorted \o first[Len(r.unsorted)], unsorted |-> <<>>]

sort_edges(r) ==
    LET first[i \in 0..Len(r.unsorted)] ==
            IF i = 0 THEN <<>> ELSE Inserted(first[i - 1], r.unsorted[i])
    IN  [sorted |-> MergedLists(r.sorted, first[Len(r.unsorted)]), unsorted |-> <<>>]
-----------------------------------------------------------------------------
(* Drawing.                                                                *)

\* The n_rover row is found first, then each step goes to a neighbour; a line
\* stops on its last row, a move one row further.
Drawn(g, offset, s, wt) ==
    LET step == IF s.up THEN 1 ELSE -1
        Row(n) == (g.n_rover + n - g.n_pos) % (Len(g.rows) + 1)
        n == s.first + step * (Len(s.cols) - IF s.on_row THEN 1 ELSE 0)
        at == [k \in DOMAIN s.cols |-> Row(s.first + step * (k - 1))]
        Edge(i) == LET k == CHOOSE k \in DOMAIN at : at[k] = i
                   IN  <<s.cols[k] + offset, -step * wt>>
    IN  [g EXCEPT !.rows = [i \in DOMAIN @ |->
                      IF i \in Range(at) THEN [@[i] EXCEPT !.unsorted = <<Edge(i)>> \o @]
                      ELSE @[i]],
                  !.n_pos = n, !.n_rover = Row(n)]

Prepared(h, s) == edge_prep(h, s.ml, s.mr, s.nl, s.nr)

\* A line takes the m_offset from before edge_prep.
Draw(h, s, wt) == Drawn(Prepared(h, s), IF s.on_row THEN h.m_offset
                                        ELSE Prepared(h, s).m_offset, s, wt)

\* n_rover points to the row n_pos, or to the header next to it.
RoverRow(h) ==
    empty_edges(h) \/
    IF h.n_rover = 0 THEN h.n_pos \in {h.n_min - 1, h.n_max + 1}
                     ELSE h.n_rover = h.n_pos - h.n_min + 1

\* What Draw takes from the header is what edge_prep leaves there.
Found(h, s) == /\ RoverRow(Prepared(h, s))
               /\ s.on_row => Prepared(h, s).m_offset = h.m_offset

\* What the edges of a row up to column m weigh.
WeightAt(l, m) ==
    LET w[i \in 0..Len(l)] == IF i = 0 THEN 0
                              ELSE w[i - 1] + IF l[i][1] <= m THEN l[i][2] ELSE 0
    IN  w[Len(l)]

-----------------------------------------------------------------------------
(* Culling: the weight becomes in where it is between lo and hi, else out. *)

New(c, w) == IF w >= c.lo /\ w <= c.hi THEN c.in ELSE c.out

\* One pass over a sorted row: an edge at the last edge of a column, if the
\* new weight is not the one before.
Culled(c, l) ==
    LET ends == SetToSortSeq({i \in DOMAIN l : i = Len(l) \/ l[i + 1][1] > l[i][1]}, <)
        w == [j \in 0..Len(ends) |->
                IF j = 0 THEN 0 ELSE New(c, WeightAt(l, l[ends[j]][1]))]
        turns == SetToSortSeq({j \in DOMAIN ends : w[j] # w[j - 1]}, <)
    IN  [k \in DOMAIN turns |->
            LET j == turns[k] IN <<l[ends[j]][1], w[j] - w[j - 1]>>]

\* Rows without edges go away at both ends, and the bounds become exact.
cull_edges(h, c) ==
    LET rows == [i \in DOMAIN h.rows |->
                   [sorted |-> Culled(c, sort_edges(h.rows[i]).sorted),
                    unsorted |-> <<>>]]
        full == {i \in DOMAIN rows : rows[i].sorted # <<>>}
        lo == CHOOSE i \in full : \A j \in full : i <= j
        hi == CHOOSE i \in full : \A j \in full : i >= j
        ms == UNION {{rows[i].sorted[j][1] : j \in DOMAIN rows[i].sorted} : i \in full}
    IN  IF full = {} THEN init_edges
        ELSE [h EXCEPT !.rows = SubSeq(rows, lo, hi),
                       !.n_min = h.n_min + lo - 1, !.n_max = h.n_min + hi - 1,
                       !.n_pos = h.n_min + hi, !.n_rover = 0,
                       !.m_min = (CHOOSE m \in ms : \A k \in ms : m <= k) - h.m_offset,
                       !.m_max = (CHOOSE m \in ms : \A k \in ms : m >= k) - h.m_offset]

-----------------------------------------------------------------------------
(* Merging and negating.                                                   *)

merge_edges(h, g) ==                \* g, a picture of its own, joins h
    LET k == IF g.m_min < h.m_min \/ g.m_max > h.m_max
                \/ g.n_min < h.n_min \/ g.n_max > h.n_max
             THEN edge_prep(h, g.m_min, g.m_max, g.n_min, g.n_max + 1) ELSE h
        p == Moved(g, k.m_offset - g.m_offset).rows
        d == g.n_min - k.n_min
        Both(r, q) == [sorted |-> MergedLists(r.sorted, q.sorted),
                       unsorted |-> q.unsorted \o r.unsorted]
    IN  IF empty_edges(g) THEN h
        ELSE [k EXCEPT !.rows = [i \in DOMAIN @ |->
                 IF i - d \in DOMAIN p THEN Both(@[i], p[i - d]) ELSE @[i]]]

\* With the signs the order of the edges in a column turns round.
Reordered(l) ==
    FoldLeft(LAMBDA a, s :
                IF a = <<>> \/ Info(s) > Info(a[Len(a)][Len(a[Len(a)])])
                THEN Append(a, <<s>>)
                ELSE [a EXCEPT ![Len(a)] = <<s>> \o @],
             <<>>, l)

negate_edges(h) ==
    LET g == EachEdge(h, 1, 0, -1)
    IN  [g EXCEPT !.rows = [i \in DOMAIN @ |->
            [@[i] EXCEPT !.sorted = FlattenSeq(Reordered(@))]]]

-----------------------------------------------------------------------------
(* Transformations.                                                        *)

x_reflect_edges(h) ==
    LET g == EachEdge(h, -1, h.m_offset, -1)
    IN  [g EXCEPT !.m_min = -h.m_max, !.m_max = -h.m_min, !.m_offset = 0,
                  !.rows = [i \in DOMAIN @ |-> [@[i] EXCEPT !.sorted = Reverse(@)]]]

y_reflect_edges(h) ==
    [h EXCEPT !.n_min = -1 - h.n_max, !.n_max = -1 - h.n_min, !.n_pos = -1 - @,
              !.n_rover = IF @ = 0 THEN 0 ELSE Len(h.rows) + 1 - @,
              !.rows = Reverse(@)]

x_fits(h, s) == s * h.m_max < limit /\ s * h.m_min > -limit
x_scale_edges(h, s) ==
    LET g == EachEdge(h, s, -h.m_offset * s, 1)
    IN  IF ~x_fits(h, s) \/ (h.m_max = 0 /\ h.m_min = 0) THEN h
        ELSE [g EXCEPT !.m_min = @ * s, !.m_max = @ * s, !.m_offset = 0]

\* Every row is there s times; n_pos and n_rover stay as they are.
y_fits(h, s) == s * (h.n_max + 1) < limit /\ s * h.n_min > -limit
y_scale_edges(h, s) ==
    IF ~y_fits(h, s) THEN h
    ELSE [h EXCEPT !.n_min = @ * s, !.n_max = s * (@ + 1) - 1,
                   !.n_rover = @ * s,
                   !.rows = [i \in 1..(Len(@) * s) |-> @[(i - 1) \div s + 1]]]

Pieces_Late(m, w) ==                \* one more than max_weight in one edge
    LET extras == (Abs(w) - 2) \div max_weight
        xw == IF w > 0 THEN max_weight ELSE -max_weight
    IN  IF w = 0 THEN <<>>
        ELSE <<<<m, w - extras * xw>>>> \o [k \in 1..extras |-> <<m, xw>>]

\* A difference w of two rows takes several edges, none above max_weight.
Pieces(m, w) ==
    LET extras == (Abs(w) - 1) \div max_weight
        xw == IF w > 0 THEN max_weight ELSE -max_weight
    IN  IF w = 0 THEN <<>>
        ELSE <<<<m, w - extras * xw>>>> \o [k \in 1..extras |-> <<m, xw>>]

xy_swap_edges(h) ==
    LET spread == h.m_max - h.m_min
        W(i, m) == IF i \in DOMAIN h.rows
                   THEN WeightAt(h.rows[i].sorted \o h.rows[i].unsorted, m + h.m_offset)
                   ELSE 0
        Column(m) == FlattenSeq([i \in 1..Len(h.rows) + 1 |->
                        Pieces(h.n_min + i - 1, W(i, m) - W(i - 1, m))])
        rows == [j \in 1..spread |-> [sorted |-> Column(h.m_min + j - 1), unsorted |-> <<>>]]
        full == {j \in DOMAIN rows : rows[j].sorted # <<>>}
        lo == CHOOSE i \in full : \A j \in full : i <= j
        hi == CHOOSE i \in full : \A j \in full : i >= j
    IN  IF full = {} THEN init_edges
        ELSE [rows |-> SubSeq(rows, lo, hi), m_offset |-> 0,
              m_min |-> h.n_min, m_max |-> h.n_max + 1,
              n_min |-> h.m_min + lo - 1, n_max |-> h.m_min + hi - 1,
              n_pos |-> h.m_min + hi, n_rover |-> 0]

shift_fits(h, tx, ty) ==
    /\ h.m_min + tx > -limit /\ h.m_max + tx < limit
    /\ h.n_min + ty > -limit /\ h.n_max + ty < limit - 1
    /\ Abs(tx) < limit /\ Abs(ty) < limit

x_shift(h, tx) ==
    LET g == IF Abs(h.m_offset - tx) < limit THEN h ELSE fix_offset(h)
    IN  IF tx = 0 THEN h
        ELSE [g EXCEPT !.m_min = @ + tx, !.m_max = @ + tx, !.m_offset = @ - tx]

y_shift(h, ty) == [h EXCEPT !.n_min = @ + ty, !.n_max = @ + ty, !.n_pos = @ + ty]

-----------------------------------------------------------------------------
(* What the pixels should weigh: a function of column and row.             *)

Pixels == ((-limit)..(limit - 1)) \X ((-limit)..(limit - 1))
Blank_weights == [q \in Pixels |-> 0]

\* The column or row that column or row x of a transformed picture comes from.
From(x, scale) == IF scale > 0 THEN x \div scale ELSE -1 - x \div (-scale)
Sign(x) == IF x > 0 THEN 1 ELSE -1

\* The parts of a transformation t of a picture h.
Swapped(h, t)  == IF t.swap THEN xy_swap_edges(h) ELSE h
Turned_x(h, t) == IF t.xx < 0 THEN x_reflect_edges(h) ELSE h
Turned_y(h, t) == IF t.yy < 0 THEN y_reflect_edges(h) ELSE h
Scaled_x(h, t) == IF Abs(t.xx) = 1 THEN h ELSE x_scale_edges(h, Abs(t.xx))
Scaled_y(h, t) == IF Abs(t.yy) = 1 THEN h ELSE y_scale_edges(h, Abs(t.yy))
Shifted(h, t)  == IF shift_fits(h, t.tx, t.ty) THEN y_shift(x_shift(h, t.tx), t.ty) ELSE h

\* h is reflected, then scaled and shifted: [e, W], with W what it should show.
\* A scaling or a shift that would make it too big is reported and left out.
Placed(f, W, t, xx, yy) ==
    LET tx == IF shift_fits(f, t.tx, t.ty) THEN t.tx ELSE 0
        ty == IF shift_fits(f, t.tx, t.ty) THEN t.ty ELSE 0
        Of(q) == LET x == From(q[1] - tx, xx) y == From(q[2] - ty, yy)
                 IN  IF t.swap THEN <<y, x>> ELSE <<x, y>>
    IN  [e |-> Shifted(f, t),
         W |-> [q \in Pixels |-> IF Of(q) \in Pixels THEN W[Of(q)] ELSE 0]]
Tall(d, W, t, xx) ==
    Placed(Scaled_y(d, t), W, t, xx, IF y_fits(d, Abs(t.yy)) THEN t.yy ELSE Sign(t.yy))
Wide(c, W, t) ==
    Tall(Scaled_x(c, t), W, t, IF x_fits(c, Abs(t.xx)) THEN t.xx ELSE Sign(t.xx))

Transformed(a, W, t) ==
    IF empty_edges(a) THEN [e |-> a, W |-> W]
    ELSE IF t.xx = 0 \/ t.yy = 0 THEN [e |-> init_edges, W |-> Blank_weights]
    ELSE Wide(Turned_y(Turned_x(a, t), t), W, t)
edges_trans(h, W, t) == Transformed(Swapped(h, t), W, t)

-----------------------------------------------------------------------------
Init == cur_edges = init_edges /\ weights = Blank_weights /\ ops = 0

Counted == ops < MaxOps /\ ops' = ops + 1

\* A filled contour.  After y_scale_edges n_pos is wrong and drawing would go
\* to other rows, and a line would go to other columns where edge_prep gives
\* up m_offset: the model does not follow it there.
Fill(s, wt) ==
    /\ Counted
    /\ \E d \in {FoldLeft(LAMBDA a, p : IF a.found /\ Found(a.h, p)
                                       THEN [a EXCEPT !.h = Draw(@, p, wt)]
                                       ELSE [a EXCEPT !.found = FALSE],
                         [h |-> cur_edges, found |-> TRUE], s.pieces)} :
          d.found /\ cur_edges' = d.h
    /\ weights' = [q \in Pixels |->
                     weights[q] + IF q \in s.pixels THEN wt ELSE 0]

do_cull(c) ==
    /\ Counted
    /\ cur_edges' = cull_edges(cur_edges, c)
    /\ weights' = [q \in Pixels |->
                     IF weights[q] >= c.lo /\ weights[q] <= c.hi THEN c.in ELSE c.out]

\* The picture in an expression is a copy.
Assign(t) ==
    /\ Counted
    /\ \E p \in {edges_trans(copy_edges(cur_edges), weights, t)} :
          cur_edges' = p.e /\ weights' = p.W

\* addto also; a picture is subtracted by adding its negative.
Also(t, minus) ==
    /\ Counted
    /\ \E p \in {edges_trans(copy_edges(cur_edges), weights, t)} :
          /\ cur_edges' = merge_edges(cur_edges, IF minus THEN negate_edges(p.e) ELSE p.e)
          /\ weights' = [q \in Pixels |->
                            IF minus THEN weights[q] - p.W[q] ELSE weights[q] + p.W[q]]

Next ==
    \/ \E s \in Shapes, wt \in Weights : Fill(s, wt)
    \/ \E c \in Culls : do_cull(c)
    \/ \E t \in Transforms : Assign(t) \/ Also(t, TRUE) \/ Also(t, FALSE)

Spec == Init /\ [][Next]_vars

-----------------------------------------------------------------------------
\* The weight that the edges of a row give to a column.
Weight(h, m, n) ==
    IF n < h.n_min \/ n > h.n_max THEN 0
    ELSE LET r == h.rows[n - h.n_min + 1]
         IN  WeightAt(r.sorted \o r.unsorted, m + h.m_offset)

EdgesTypeOK ==
    LET h == cur_edges IN
    /\ Len(h.rows) = IF empty_edges(h) THEN 0 ELSE h.n_max - h.n_min + 1
    /\ \A i \in DOMAIN h.rows :
          LET r == h.rows[i] IN
          /\ \A j \in 1..Len(r.sorted) - 1 : r.sorted[j][1] <= r.sorted[j + 1][1]
          /\ \A e \in ToSet(r.sorted \o r.unsorted) :
                /\ e[1] - h.m_offset \in h.m_min..h.m_max
                /\ Abs(e[1]) < limit /\ Abs(e[2]) <= max_weight /\ e[2] # 0

\* Whatever is drawn, culled, merged and transformed, in whatever order, the
\* edges give every pixel the weight it should have; the sorted lists are
\* sorted, no edge is outside the bounds that the routines go by, and m_offset
\* never pushes one out of its halfword.
WeightsKept ==
    /\ EdgesTypeOK
    /\ \A q \in Pixels : Weight(cur_edges, q[1], q[2]) = weights[q]

\* "A pointer to the row header of row n_pos(h)-4096 is provided in
\* n_rover(h)" (mf.web 7196-7197).
RoverRight == RoverRow(cur_edges)
=============================================================================
