------------------------------ MODULE Unknowns ------------------------------
(***************************************************************************)
(* What the rings of undefined variables promise (mf.web 13111-13135):     *)
(* the quantities that have no value yet are divided into classes, an      *)
(* equation unites two classes or gives every member of one the same       *)
(* value, and nothing else changes a quantity that is not itself set.      *)
(***************************************************************************)
CONSTANTS Node, Values

VARIABLE know
\* [class |-> a partition of the quantities without a value,
\*  val   |-> a function that gives the others theirs]

Unknown(k) == UNION k.class
ClassOf(k, n) == CHOOSE A \in k.class : n \in A

\* k without n, as it is when n is recycled.
Without(k, n) ==
    [class |-> {A \ {n} : A \in k.class} \ {{}},
     val   |-> [m \in DOMAIN k.val \ {n} |-> k.val[m]]]

\* n gets a new life: alone, without a value.
Renew(k, n) == [Without(k, n) EXCEPT !.class = @ \cup {{n}}]

\* n alone gets a value.
Set(k, n, v) ==
    LET r == Without(k, n) IN
    [r EXCEPT !.val = [m \in DOMAIN @ \cup {n} |-> IF m = n THEN v ELSE @[m]]]

\* n, wherever it was, becomes one of the class of m.
Join(k, n, m) ==
    LET r == Without(k, n)
        A == ClassOf(r, m)
    IN  [r EXCEPT !.class = (@ \ {A}) \cup {A \cup {n}}]

\* The classes of n and m are equated through n, a capsule, which disappears.
Unite(k, n, m) ==
    LET A == ClassOf(k, n)  B == ClassOf(k, m) IN
    Without([k EXCEPT !.class = (@ \ {A, B}) \cup {A \cup B}], n)

\* The class of n gets a value, and n disappears.
Settle(k, n, v) ==
    LET A == ClassOf(k, n) IN
    Without([class |-> k.class \ {A},
             val   |-> [m \in DOMAIN k.val \cup A |-> IF m \in A THEN v ELSE k.val[m]]],
            n)

Init == know = [class |-> {}, val |-> [n \in {} |-> 0]]

\* What one operation makes of k.
Becomes(k, l) ==
    \/ l = k
    \/ \E n \in Node : l = Without(k, n) \/ l = Renew(k, n)
    \/ \E n \in Node, v \in Values : l = Set(k, n, v)
    \/ \E n \in Unknown(k), m \in Unknown(k) : l = Unite(k, n, m)
    \/ \E n \in Node, m \in Unknown(k) : n # m /\ l = Join(k, n, m)
    \/ \E n \in Unknown(k), v \in Values : l = Settle(k, n, v)
    \/ \E n \in Unknown(k), c \in DOMAIN k.val : l = Without(Settle(k, n, k.val[c]), c)

Next == \E k \in {know}, l \in {know'} : Becomes(k, l)

Spec == Init /\ [][Next]_know
=============================================================================
