----------------------------- MODULE Dimensions -----------------------------
(***************************************************************************)
(* The widths, heights, depths and italic corrections of the font metric   *)
(* file (mf.web 21344-21458): at most m different values fit, so the       *)
(* values are sorted and, if there are more, intervals of them are         *)
(* replaced by their midpoints.  threshold looks for the least width of    *)
(* intervals that will do.                                                 *)
(***************************************************************************)
EXTENDS Integers, Sequences, FiniteSets, SequencesExt

CONSTANTS
    m,              \* 255, 15 or 63
    inf,            \* fraction_four: the value of inf_val
    el_gordo        \* the largest number

VARIABLES
    dimen,          \* the values of the characters, in the order of their codes
    zero_apart,     \* zeros stay out of the list; not so for the widths
    where,          \* the node of each character so far: its value at that time
    list,           \* the sorted list of nodes
    value, info,    \* of each node
    excess, perturbation, d,
    at              \* "sort", "double", "creep", "skimp" or "done"

dimVars == <<dimen, zero_apart, where, list, value, info, excess, perturbation, d, at>>

zero_val == "zero_val"              \* in no list; its index is 0

Empty == <<>>

Init ==
    /\ dimen = Empty /\ where = Empty /\ list = Empty /\ value = Empty /\ info = Empty
    /\ zero_apart = FALSE /\ excess = 0 /\ perturbation = 0 /\ d = 0 /\ at = "done"

\* Clear the list of nodes, before the values of the next table come.
clear_the_list(values, apart) ==
    /\ dimen' = values /\ zero_apart' = apart
    /\ where' = Empty /\ list' = Empty /\ value' = Empty /\ info' = Empty
    /\ at' = "sort"
    /\ UNCHANGED <<excess, perturbation, d>>

-----------------------------------------------------------------------------
Value(i) == IF i > Len(list) THEN inf ELSE value[list[i]]
Below(v) == Cardinality({i \in DOMAIN list : Value(i) < v})

\* The next character.
sort_in ==
    /\ at = "sort" /\ Len(where) < Len(dimen)
    /\ LET v == dimen[Len(where) + 1] IN
       IF v = 0 /\ zero_apart
       THEN where' = Append(where, zero_val) /\ UNCHANGED <<list, value, info>>
       ELSE /\ where' = Append(where, v)
            /\ IF v \in Range(list) THEN UNCHANGED <<list, value, info>>
               ELSE /\ list' = InsertAt(list, Below(v) + 1, v)
                    /\ value' = [x \in Range(list) \cup {v} |-> IF x = v THEN v ELSE value[x]]
                    /\ info' = [x \in Range(list) \cup {v} |-> 0]
    /\ UNCHANGED <<dimen, zero_apart, excess, perturbation, d, at>>

\* The last position of the interval of width w that starts at position i.
LastIn(i, w) == CHOOSE j \in i..Len(list) :
                    Value(j) <= Value(i) + w /\ Value(j + 1) > Value(i) + w

\* How many intervals of width w the list takes, and the least width that
\* would change the covering.
min_cover(w) ==
    LET from[i \in 1..Len(list) + 1] ==
            IF i > Len(list) THEN {} ELSE {i} \cup from[LastIn(i, w) + 1]
        starts == from[1]
    IN  [count |-> Cardinality(starts),
         least |-> Min({el_gordo} \cup {Value(LastIn(i, w) + 1) - Value(i) : i \in starts})]

\* threshold starts.
Start ==
    /\ at = "sort" /\ Len(where) = Len(dimen)
    /\ LET c == min_cover(0) IN
       /\ excess' = c.count - m
       /\ perturbation' = c.least
       /\ d' = 0
       /\ at' = IF excess' <= 0 THEN "skimp" ELSE "double"
    /\ UNCHANGED <<dimen, zero_apart, where, list, value, info>>

\* repeat d:=perturbation; until min_cover(d+d)<=m
Double ==
    /\ at = "double"
    /\ d' = perturbation
    /\ LET c == min_cover(2 * d') IN
       /\ perturbation' = c.least
       /\ at' = IF c.count <= m THEN "creep" ELSE "double"
    /\ UNCHANGED <<dimen, zero_apart, where, list, value, info, excess>>

\* while min_cover(d)>m do d:=perturbation
Creep ==
    /\ at = "creep"
    /\ LET c == min_cover(d) IN
       /\ d' = IF c.count > m THEN c.least ELSE d
       /\ at' = IF c.count > m THEN "creep" ELSE "skimp"
       /\ perturbation' = c.least
    /\ UNCHANGED <<dimen, zero_apart, where, list, value, info, excess>>

\* The intervals [first, last] that skimp replaces, from position i on; it
\* stops replacing when e values are gone.
Intervals_All(e) ==                 \* excess not counted down
    LET from[i \in 1..Len(list) + 1] ==
            IF i > Len(list) THEN <<>>
            ELSE LET j == LastIn(i, d)
                 IN  <<[first |-> i, last |-> j]>> \o from[j + 1]
    IN  from[1]
Intervals(e) ==
    LET from[z \in (1..Len(list) + 1) \X (0..Len(list))] ==
            LET i == z[1]
                x == z[2]
                reach == IF x = 0 THEN i ELSE LastIn(i, d)
                j == IF reach - i > x THEN i + x ELSE reach
            IN  IF i > Len(list) THEN <<>>
                ELSE <<[first |-> i, last |-> j]>> \o from[<<j + 1, x - (j - i)>>]
    IN  from[<<1, IF e > 0 THEN e ELSE 0>>]

Mid(v) == Value(v.first) + (Value(v.last) - Value(v.first)) \div 2

skimp ==
    /\ at = "skimp" /\ at' = "done"
    /\ LET intervals == Intervals(excess)
           In(x) == CHOOSE n \in DOMAIN intervals :
                        \E i \in intervals[n].first..intervals[n].last : list[i] = x
           moved == {Value(v.last) - Mid(v) : v \in Range(intervals)}
       IN  /\ info' = [x \in DOMAIN info |-> In(x)]
           /\ value' = [x \in DOMAIN value |-> Mid(intervals[In(x)])]
           /\ list' = [n \in DOMAIN intervals |-> list[intervals[n].last]]
           /\ perturbation' = IF moved = {} THEN 0
                              ELSE Max(moved)
    /\ UNCHANGED <<dimen, zero_apart, where, excess, d>>

Step == sort_in \/ Start \/ Double \/ Creep \/ skimp

-----------------------------------------------------------------------------
Apart == IF zero_apart THEN {0} ELSE {}
Values == Range(dimen) \ Apart

\* The values can be moved by at most p each to n values or fewer: they are in
\* n intervals of length 2p.
Within(n, p) ==
    \E s \in [1..n -> Values] : \A v \in Values : \E i \in 1..n : v - s[i] \in 0..2 * p

\* The table has m entries, or one for each value if that is less, in
\* increasing order; every character has the index of an entry that is
\* perturbation away from its own value or less, and no table of m entries
\* comes closer to all of them.
LeastPerturbation ==
    at = "done" =>
        /\ Len(list) = IF Cardinality(Values) > m THEN m ELSE Cardinality(Values)
        /\ \A i \in 1..Len(list) : Value(i) < Value(i + 1)
        /\ \A c \in DOMAIN dimen :
              IF dimen[c] \in Apart THEN where[c] = zero_val
              ELSE /\ dimen[c] - value[where[c]] \in -perturbation..perturbation
                   /\ Value(info[where[c]]) = value[where[c]]
        /\ ~ Within(m, perturbation - 1)
=============================================================================
