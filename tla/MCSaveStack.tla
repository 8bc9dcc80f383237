----------------------------- MODULE MCSaveStack ----------------------------
(***************************************************************************)
(* Symbol alpha is saved and declared, beta defined, let or made outer;    *)
(* a binary operator and a plain macro; two groups inside each other.      *)
(*                                                                         *)
(* In SaveStack the structure of a variable is one node.  What is below    *)
(* the root depends on that variable only, so VariableTrees runs beside    *)
(* SaveStack's first state and SaveStack beside an empty structure.        *)
(***************************************************************************)
EXTENDS SaveStack
CONSTANTS alpha, beta, r1, r2, m1, m2, plain_def, op_def, i1
Sym == Permutations(Roots) \cup Permutations(Macros)

VARIABLES mem, equiv, names
treeVars == <<mem, equiv, names>>

Sub(n) == <<"subscript", n>>
Attr(n) == <<"attribute", n>>
\* x, x1, x2, x1a, x.a are used; x, x[] and x[]a are declared.
V == INSTANCE VariableTrees WITH
        Used <- {<<>>, <<Sub(1)>>, <<Sub(2)>>, <<Sub(1), Attr(1)>>, <<Attr(1)>>},
        Declarable <- {<<>>, <<Attr(0)>>, <<Attr(0), Attr(1)>>},
        el_gordo <- 99

\* The nodes of a variable form one tree that scan_primary and find_variable
\* read alike (mf.web 5119-5122), whatever is declared, defined and discarded.
TreesSound == V!TreesSound
\* To the program a variable structure is a set of suffixes, each with a type,
\* a value and a place of its own (Suffixes), which flush_variable takes away
\* as mf.web 5443-5448 says.
NamesKept == V!NamesKept

MCInit == Init /\ V!Init
MCNext ==
    \/ V!Init /\ Next /\ UNCHANGED treeVars
    \/ Init /\ V!Next /\ UNCHANGED vars
MCSpec == MCInit /\ [][MCNext]_<<vars, treeVars>>
=============================================================================
