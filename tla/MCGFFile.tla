------------------------------ MODULE MCGFFile ------------------------------
(***************************************************************************)
(* Shapes: characters of two rows with up to four edges in four columns,  *)
(* whatever their weights, also next to blank rows.  FewPictures, blank    *)
(* ones among them, are shipped in any order and more than once.  The      *)
(* limits of the short commands are scaled down to be crossed by these.    *)
(***************************************************************************)
EXTENDS Shipping, Strokes

Columns == 0..3
Sorted(r) == \A i \in 1..Len(r) - 1 : r[i][1] <= r[i + 1][1]
Total(r) == FoldLeft(LAMBDA w, e : w + e[2], 0, r)
Columned(W) == Columns \X W
\* Rows of edges: sorted, and the weights add up to nothing.
RowsOf(n, W) == {r \in [1..n -> Columned(W)] : Sorted(r) /\ Total(r) = 0}
Wide == {<<>>} \cup RowsOf(2, {-1, 1}) \cup RowsOf(3, {-2, -1, 1, 2})
              \cup RowsOf(4, {-1, 1})
Plain == {<<>>, <<<<0, 1>>, <<2, -1>>>>, <<<<1, -1>>, <<2, 2>>, <<3, -1>>>>,
          <<<<2, 1>>, <<3, -1>>>>}

Picture(rs, lo, off) == [m_min |-> 0 - off, m_max |-> 3 - off, n_min |-> lo,
                         n_max |-> lo + Len(rs) - 1, m_offset |-> off, rows |-> rs]
MCShapes == {Picture(<<a, b>>, lo, 1) : a \in Wide, b \in Plain, lo \in {-1, 0}}
            \cup {Picture(<<a, <<>>, b>>, 0, 0) : a \in Plain, b \in Wide}
            \cup {Picture(<<a, <<>>, <<>>, <<>>, b>>, -2, 0) : a, b \in Plain}
FewPictures == {Picture(<<>>, 1, 0), Picture(<<<<>>>>, 0, 0),
                Picture(<<<<<<0, 1>>, <<2, -1>>>>, <<<<1, 1>>, <<3, -1>>>>>>, 2, 0),
                Picture(<<<<<<1, 1>>, <<2, -1>>>>>>, -2, 1)}
Down == {-3, 0}
Codes == {-1, 0}

-----------------------------------------------------------------------------
(* Contours of up to four columns and five rows around the origin: a box    *)
(* and a leaning figure of lines, and a round one with moves in all eight  *)
(* octants.  limit = 5 is reached by scaling and by shifting.              *)

\* From (m0,n0) to (m1,n1) counterclockwise: down on the left, up on the right.
Box(m0, n0, m1, n1) ==
    [pieces |-> <<Line([n \in n0..n1 |-> m0], m0, n1, m0, n0),
                  Line([n \in n0..n1 |-> m1], m1, n0, m1, n1)>>,
     pixels |-> (m0..m1 - 1) \X (n0..n1 - 1)]

\* A right side that leans over by one column a row.
Leaning(m, n) ==
    [pieces |-> <<Line([i \in n..n + 2 |-> m], m, n + 2, m, n),
                  Line([i \in n..n + 2 |-> m + 1 + i - n], m + 1, n, m + 3, n + 2)>>,
     pixels |-> {<<m, n>>, <<m, n + 1>>, <<m + 1, n + 1>>}]

\* Once round through the eight octants, from the lowest point on.
Round ==
    [pieces |-> <<Moves("first", 0, -2, 2, -1, <<1, 1>>),
                  Moves("second", -1, 2, 0, 2, <<1>>),
                  Moves("third", 0, -2, 2, -1, <<1, 1>>),
                  Moves("fourth", -1, 2, 0, 3, <<0, 1>>),
                  Moves("fifth", 0, -3, 1, -2, <<1, 0>>),
                  Moves("sixth", -2, 1, 0, 2, <<1, 1>>),
                  Moves("seventh", 0, -2, 1, -2, <<1>>),
                  Moves("eighth", -2, 1, 0, 2, <<1, 1>>)>>,
     pixels |-> ((-1..0) \X (-2..2)) \cup ({-2, 1} \X (-1..0))]

MCWeights == {3, -1}
MCContours == {Box(0, 0, 2, 1), Leaning(-1, -1), Round}
MCTransforms ==
    {[swap |-> s, xx |-> x, yy |-> y, tx |-> d, ty |-> e] :
        s \in BOOLEAN, x \in {-1, 1}, y \in {-1, 1}, d \in {0}, e \in {0}}
    \cup {[swap |-> FALSE, xx |-> 2, yy |-> 1, tx |-> 0, ty |-> 0],
          [swap |-> FALSE, xx |-> 1, yy |-> 2, tx |-> 0, ty |-> 0],
          [swap |-> FALSE, xx |-> 1, yy |-> 1, tx |-> 1, ty |-> 0],
          [swap |-> FALSE, xx |-> -1, yy |-> 1, tx |-> 4, ty |-> 1]}
MCCulls == {[lo |-> 1, hi |-> 9, in |-> 1, out |-> 0],
            [lo |-> -1, hi |-> 1, in |-> 0, out |-> 1]}
=============================================================================
