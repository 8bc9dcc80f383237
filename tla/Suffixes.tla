------------------------------ MODULE Suffixes ------------------------------
(***************************************************************************)
(* Suffixes of a variable, and what variable structures promise: a suffix  *)
(* has a type, a value and a place of its own once it has been mentioned.  *)
(* The type is the one last declared for the suffix with [] in place of    *)
(* its subscripts; a declaration takes the values of all suffixes of that  *)
(* form away, and a vardef those of all that go on from there as well.     *)
(***************************************************************************)
EXTENDS Integers, Sequences

CONSTANTS
    Used,           \* the suffixes that are mentioned
    Declarable      \* those that are declared, with [] for every subscript

Sub(n) == <<"subscript", n>>
Attr(n) == <<"attribute", n>>
collective == Attr(0)                               \* []

Generic(s) == [i \in DOMAIN s |-> IF s[i][1] = "subscript" THEN collective ELSE s[i]]
Begins(t, s) == Len(t) <= Len(s) /\ t = SubSeq(s, 1, Len(t))

With_value == [numeric |-> "known", boolean |-> "true"]
Types == DOMAIN With_value
Without(type) == IF type \in Types THEN type ELSE CHOOSE t \in Types : With_value[t] = type

VARIABLE variable       \* [type, place] of every suffix that has a type

Mentioned == DOMAIN variable
Macro(s) == s \in Mentioned /\ variable[s].type = "macro"
Type(s) == IF s \in Mentioned THEN variable[s].type
           ELSE IF Generic(s) \in Mentioned THEN variable[Generic(s)].type ELSE "numeric"

Init == variable = [s \in {} |-> 0]

Own_place(s) == \A u \in DOMAIN variable' \ {s} : variable'[u].place # variable'[s].place

\* Suffix s has type t from now on, unless it is part of a macro's.
Has(s, t) ==
    LET g == Generic(s) IN
    /\ \A u \in Mentioned : Macro(u) => ~Begins(u, g)
    /\ DOMAIN variable' = Mentioned \cup {s, g}
    /\ \A u \in Mentioned \ {s} : variable'[u] = variable[u]
    /\ s # g /\ g \notin Mentioned => variable'[g].type = "numeric"
    /\ variable'[s].type = t
    /\ s \in Mentioned => variable'[s].place = variable[s].place
    /\ Own_place(s) /\ Own_place(g)

Mention(s) == Has(s, Type(s))
Assign(s) == Has(s, With_value[Without(Type(s))])

\* Suffix g has type t, and the suffixes of lost are as if never mentioned.
Becomes(g, t, lost) ==
    /\ \A u \in Mentioned : Macro(u) /\ Begins(u, g) => u = g
    /\ DOMAIN variable' = (Mentioned \ lost) \cup {g}
    /\ \A u \in Mentioned \ (lost \cup {g}) : variable'[u] = variable[u]
    /\ variable'[g].type = t /\ Own_place(g)

Declare(g, t) == Becomes(g, t, {s \in Mentioned : Generic(s) = g})
Define(g) == Becomes(g, "macro", {s \in Mentioned : Begins(g, Generic(s))})
Forget == variable' = [s \in {} |-> 0]

Next ==
    \/ Forget
    \/ \E s \in Used : Mention(s) \/ Assign(s)
    \/ \E g \in Declarable : Define(g) \/ \E t \in Types : Declare(g, t)

Spec == Init /\ [][Next]_variable
=============================================================================
