---------------------------- MODULE VariableTrees ---------------------------
(***************************************************************************)
(* The structure of one variable (mf.web 4997-5550, 16970-16989): a node   *)
(* for every suffix mentioned, in lists sorted by attribute and subscript. *)
(* Beside the subscripts each list of attributes has a node for [], where  *)
(* the types that declarations give to all subscripts are kept, so that    *)
(* find_variable goes down two lines at once.                              *)
(*                                                                         *)
(* A node is named <<place, k>>, the k-th for the suffix it was made for:  *)
(* its address does not matter otherwise.  The list of subscripts ends at  *)
(* the node for [], whose subscript is infinite then.                      *)
(***************************************************************************)
EXTENDS Integers, Sequences, FiniteSets, SequencesExt, TLC

CONSTANTS
    Used, Declarable,   \* see Suffixes
    el_gordo            \* the subscript at the end of a list; none that is used

null == <<>>
Sub(n) == <<"subscript", n>>
Attr(n) == <<"attribute", n>>
collective_subscript == Attr(0)

VARIABLES
    mem,        \* the nodes
    equiv,      \* the root, or null
    names       \* ghost: the suffixes that have a type

treeVars == <<mem, equiv, names>>
heap == [mem |-> mem, equiv |-> equiv]

value_node_size == 2
attr_node_size == 3
subscr_node_size == 3

Undefined(name_type, loc, size) ==
    [type |-> "undefined", name_type |-> name_type, loc |-> loc, size |-> size,
     attrs |-> <<>>, subscrs |-> <<>>]

\* What get_node returns for the suffix s, and for a second node there.
Free == [type |-> "free"]
Nodes(h) == {x \in DOMAIN h.mem : h.mem[x] # Free}
Fresh(h, s) == <<s, CHOOSE k \in 1..3 : /\ <<s, k>> \notin Nodes(h)
                                         /\ \A j \in 1..k - 1 : <<s, j>> \in Nodes(h)>>
Added(h, x, node) == [h EXCEPT !.mem = (x :> node) @@ @]

\* A node given back with another size than it was asked for is not free.
free_node(h, x, size) == IF h.mem[x].size # size THEN h ELSE [h EXCEPT !.mem[x] = Free]

new_root(h) ==
    LET p == Fresh(h, <<>>)
    IN  [Added(h, p, Undefined("root", 0, value_node_size)) EXCEPT !.equiv = p]

\* A structured node r takes the place of p, which becomes its first attribute.
new_structure(h, p) ==
    LET r == Fresh(h, p[1])
        q == Fresh(h, Append(p[1], collective_subscript))
        old == h.mem[p]
        node == [old EXCEPT !.type = "structured", !.attrs = <<p, q>>,
                            !.size = IF old.name_type = "root" THEN value_node_size
                                     ELSE attr_node_size]
        parent == CHOOSE x \in Nodes(h) : p \in ToSet(h.mem[x].attrs \o h.mem[x].subscrs)
        linked == CASE old.name_type = "root" -> [h EXCEPT !.equiv = r]
                    [] old.name_type = "subscr" -> [h EXCEPT !.mem[parent].subscrs = ReplaceAll(@, p, r)]
                    [] old.name_type = "attr" -> [h EXCEPT !.mem[parent].attrs = ReplaceAll(@, p, r)]
    IN  [heap |-> Added(Added([linked EXCEPT !.mem[p].name_type = "structured_root"], r, node),
                        q, Undefined("attr", 0, attr_node_size)),
         node |-> r]

-----------------------------------------------------------------------------
(* find_variable: p goes down the line of the suffix itself, pp down that  *)
(* of the collective suffix.                                               *)

Type(h, x) == h.mem[x].type
head(h, x) == h.mem[x].attrs[1]
collective(h, x) == h.mem[x].attrs[2]

\* Mutant: a list is searched to its end.
Inserted_Last(h, l, x, front) == Append(l, x)

\* The list l with x at its place, behind the first nodes that stay in front.
Inserted(h, l, x, front) ==
    LET n == h.mem[x].loc
        rest == SubSeq(l, front + 1, Len(l))
        below == SelectSeq(rest, LAMBDA y : h.mem[y].loc < n)
    IN  SubSeq(l, 1, front) \o below \o <<x>> \o SubSeq(rest, Len(below) + 1, Len(rest))

Attribute(h, x, n) == {y \in ToSet(Tail(h.mem[x].attrs)) : h.mem[y].loc = n}

With_attribute(h, x, n) ==
    LET y == Fresh(h, Append(x[1], Attr(n)))
        g == Added(h, y, Undefined("attr", n, attr_node_size))
    IN  IF Attribute(h, x, n) # {} THEN [heap |-> h, node |-> CHOOSE z \in Attribute(h, x, n) : TRUE]
        ELSE [heap |-> [g EXCEPT !.mem[x].attrs = Inserted(g, @, y, 1)], node |-> y]

With_subscript(h, x, n) ==
    LET y == Fresh(h, Append(x[1], Sub(n)))
        g == Added(h, y, Undefined("subscr", n, subscr_node_size))
        same == {z \in ToSet(h.mem[x].subscrs) : h.mem[z].loc = n}
    IN  IF n = el_gordo THEN [heap |-> h, node |-> collective(h, x)]
        ELSE IF same # {} THEN [heap |-> h, node |-> CHOOSE z \in same : TRUE]
        ELSE [heap |-> [g EXCEPT !.mem[x].subscrs = Inserted(g, @, y, 0)], node |-> y]

\* Make sure that both nodes are of structured type, pp first.
With_pp(z, ss) == [heap |-> ss.heap, p |-> IF z.p = z.pp THEN ss.node ELSE z.p, pp |-> ss.node]
With_p(z, s) == [z EXCEPT !.heap = s.heap, !.p = s.node]
Structured_pp(z) ==
    IF Type(z.heap, z.pp) = "structured" THEN z ELSE With_pp(z, new_structure(z.heap, z.pp))
Structured_p(z) ==
    IF Type(z.heap, z.p) = "structured" THEN z ELSE With_p(z, new_structure(z.heap, z.p))
Both_structured(z) == Structured_p(Structured_pp(z))

To_subscript(z, n) ==
    LET s == With_subscript(z.heap, z.p, n)
    IN  [heap |-> s.heap, p |-> s.node, pp |-> collective(z.heap, z.pp)]

To_attribute(z, n) ==
    LET ss == With_attribute(z.heap, z.pp, n)
        s == With_attribute(ss.heap, z.p, n)
    IN  IF z.p = z.pp THEN [heap |-> ss.heap, p |-> ss.node, pp |-> ss.node]
        ELSE [heap |-> s.heap, p |-> s.node, pp |-> ss.node]

Descend(z, token) ==
    IF z.p = null \/ Type(z.heap, z.pp) = "macro" THEN [z EXCEPT !.p = null]
    ELSE IF token[1] = "subscript" THEN To_subscript(Both_structured(z), token[2])
    ELSE To_attribute(Both_structured(z), token[2])

\* Mutant: the type of the collective line is not passed on.
Settled_Numeric(z) ==
    LET h == z.heap
        p == IF Type(h, z.p) = "structured" THEN head(h, z.p) ELSE z.p
    IN  IF z.p = null \/ Type(h, z.pp) = "macro" THEN [heap |-> h, node |-> null]
        ELSE IF Type(h, p) # "undefined" THEN [heap |-> h, node |-> p]
        ELSE [heap |-> [h EXCEPT !.mem[p].type = "numeric"], node |-> p]

\* The value node, a type being given to both lines if there was none; or null.
Settled(z) ==
    LET h == z.heap
        pp == IF Type(h, z.pp) = "structured" THEN head(h, z.pp) ELSE z.pp
        p == IF Type(h, z.p) = "structured" THEN head(h, z.p) ELSE z.p
        g == IF Type(h, pp) = "undefined" THEN [h EXCEPT !.mem[pp].type = "numeric"] ELSE h
    IN  IF z.p = null \/ Type(h, z.pp) = "macro" THEN [heap |-> h, node |-> null]
        ELSE IF Type(h, p) # "undefined" THEN [heap |-> h, node |-> p]
        ELSE [heap |-> [g EXCEPT !.mem[p].type = Type(g, pp)], node |-> p]

With_root(h) == IF h.equiv = null THEN new_root(h) ELSE h

At_root(h) == [heap |-> h, p |-> h.equiv, pp |-> h.equiv]
find_variable(h, t) == Settled(FoldLeft(Descend, At_root(With_root(h)), t))

\* The type that scan_primary sees in the collective line, before the suffix
\* is complete.
Approximate(h, t) ==
    LET Down(x, token) ==
            IF x = null THEN null
            ELSE IF Type(h, x) # "structured" THEN null
            ELSE IF token[1] = "subscript" THEN collective(h, x)
            ELSE CHOOSE y \in Attribute(h, x, token[2]) \cup {null} :
                     Attribute(h, x, token[2]) # {} => y # null
        x == FoldLeft(Down, h.equiv, t)
    IN  IF x = null THEN "undefined" ELSE Type(h, x)

\* scan_primary calls a macro at the first suffix of t that is one, but looks
\* no further than the first that is undefined.
Calls_macro(h, t) ==
    LET tt(k) == Approximate(h, SubSeq(t, 1, k)) IN
    \E k \in 0..Len(t) : tt(k) = "macro" /\ \A j \in 0..k - 1 : tt(j) # "undefined"

-----------------------------------------------------------------------------
(* Flushing.                                                               *)

RECURSIVE flush_below_variable(_, _), flush_variable(_, _, _, _)

recycle_value(h, p) == [h EXCEPT !.mem[p].type = "undefined"]

\* Everything but p itself.
flush_below_variable(h, p) ==
    LET Give_back(g, q) == free_node(flush_below_variable(g, q), q, subscr_node_size)
        r == head(h, p)
        size == IF h.mem[p].name_type = "root" THEN value_node_size ELSE subscr_node_size
        g == FoldLeft(Give_back, h, h.mem[p].subscrs)
        f == FoldLeft(Give_back, free_node(recycle_value(g, r), r, size), Tail(h.mem[p].attrs))
    IN  IF Type(h, p) # "structured" THEN recycle_value(h, p)
        ELSE [f EXCEPT !.mem[p].type = "undefined", !.mem[p].attrs = <<>>, !.mem[p].subscrs = <<>>]

\* Mutant: what follows the last subscript of the suffix is not considered.
Flush_all_Structured(h, p, t, discard) ==
    LET Each(g, q) ==
            LET f == flush_variable(g, q, t, discard)
            IN  IF t # <<>> THEN f
                ELSE free_node([f EXCEPT !.mem[p].subscrs = SelectSeq(@, LAMBDA x : x # q)],
                               q, subscr_node_size)
    IN  FoldLeft(Each, h, h.mem[p].subscrs)

\* A subscript that ends the suffix goes away, unless something follows it.
Flush_all(h, p, t, discard) ==
    LET Each(g, q) ==
            LET f == flush_variable(g, q, t, discard)
            IN  IF t # <<>> \/ Type(f, q) = "structured" THEN f
                ELSE free_node([f EXCEPT !.mem[p].subscrs = SelectSeq(@, LAMBDA x : x # q)],
                               q, subscr_node_size)
    IN  FoldLeft(Each, h, h.mem[p].subscrs)

flush_variable(h, p, t, discard) ==
    LET n == Head(t)[2]
        g == IF n = 0 THEN Flush_all(h, p, Tail(t), discard) ELSE h
    IN  IF t = <<>>
        THEN IF discard THEN flush_below_variable(h, p)
             ELSE recycle_value(h, IF Type(h, p) = "structured" THEN head(h, p) ELSE p)
        ELSE IF Type(h, p) # "structured" \/ Attribute(g, p, n) = {} THEN g
        ELSE flush_variable(g, CHOOSE q \in Attribute(g, p, n) : TRUE, Tail(t), discard)

-----------------------------------------------------------------------------
\* The node where the value of suffix s is, if it has been made; or null.
Child(h, x, token) ==
    LET l == IF token[1] = "subscript" THEN h.mem[x].subscrs ELSE Tail(h.mem[x].attrs)
        found == {y \in ToSet(l) : h.mem[y].loc = token[2]}
    IN  IF found = {} THEN null ELSE CHOOSE y \in found : TRUE

Place(h, s) ==
    LET Down(x, token) ==
            IF x = null THEN null ELSE IF Type(h, x) # "structured" THEN null
            ELSE Child(h, x, token)
        x == IF h.equiv = null THEN null ELSE FoldLeft(Down, h.equiv, s)
    IN  IF x = null THEN null ELSE IF Type(h, x) = "structured" THEN head(h, x) ELSE x

Collective(s) == [i \in DOMAIN s |-> IF s[i][1] = "subscript" THEN collective_subscript ELSE s[i]]
Suffix == Used \cup Declarable \cup {Collective(s) : s \in Used}
Names(h) ==
    LET at == [s \in Suffix |-> Place(h, s)]
    IN  [s \in {s \in Suffix : at[s] # null /\ Type(h, at[s]) # "undefined"} |->
            [type |-> Type(h, at[s]), place |-> at[s]]]

Init == mem = [x \in {} |-> 0] /\ equiv = null /\ names = [s \in {} |-> 0]
SetHeap(h) == mem' = [x \in Nodes(h) |-> h.mem[x]] /\ equiv' = h.equiv /\ names' = Names(h)

\* find_variable, then the node that it found gets type t.
Set_type(z, t) ==
    IF z.node = null THEN z.heap ELSE [z.heap EXCEPT !.mem[z.node].type = t]

\* A variable in an expression has been scanned, token by token, and was no
\* macro's then; the expansion of the next token and subscripts can do any
\* operation in between, so that it may be obliterated.
scan_primary(s) == SetHeap(find_variable(heap, s).heap)

With_value == [numeric |-> "known", boolean |-> "true"]
und_type(type) ==
    IF type \in {"known", "numeric"} THEN "numeric"
    ELSE IF type \in {"true", "boolean"} THEN "boolean" ELSE "undefined"

\* The right side has been scanned, and has a value of the right type.
Assigned(z) ==
    IF z.node = null THEN z.heap
    ELSE Set_type(z, With_value[und_type(Type(z.heap, z.node))])
do_assignment(s) == SetHeap(Assigned(find_variable(heap, s)))

\* scan_declared_variable, flush_variable and find_variable.
Redeclared(s, t, discard) ==
    LET h == With_root(heap)
        g == flush_variable(h, h.equiv, s, discard)
    IN  SetHeap(Set_type(find_variable(g, s), t))

do_type_declaration(s, t) == Redeclared(s, t, FALSE)
scan_def(s) == Redeclared(s, "macro", TRUE)

clear_symbol ==
    /\ equiv # null
    /\ LET h == flush_below_variable(heap, equiv)
       IN  SetHeap([free_node(h, equiv, value_node_size) EXCEPT !.equiv = null])

Next ==
    \/ \E s \in Used : scan_primary(s) \/ do_assignment(s)
    \/ \E s \in Declarable, t \in DOMAIN With_value : do_type_declaration(s, t)
    \/ \E s \in Declarable : scan_def(s)
    \/ clear_symbol

Spec == Init /\ [][Next]_treeVars

-----------------------------------------------------------------------------
Children(x) == mem[x].attrs \o mem[x].subscrs
Ordered(l) == \A i \in 1..Len(l) - 1 : mem[l[i]].loc < mem[l[i + 1]].loc

OneTree ==
    /\ UNION {ToSet(Children(x)) : x \in DOMAIN mem} = DOMAIN mem \ {equiv}
    /\ \A x \in DOMAIN mem :
          /\ IsInjective(Children(x))
          /\ \A y \in DOMAIN mem \ {x} : ToSet(Children(x)) \cap ToSet(Children(y)) = {}

Structure(x) ==
    LET l == mem[x].attrs
        kind(y) == mem[y].name_type
    IN  /\ x = equiv <=> mem[x].name_type = "root"
        /\ mem[x].type = "structured" <=> l # <<>>
        /\ l # <<>> =>
              /\ kind(l[1]) = "structured_root" /\ mem[l[1]].type # "structured"
              /\ mem[l[2]].loc = 0 /\ Ordered(Tail(l)) /\ Ordered(mem[x].subscrs)
              /\ \A y \in ToSet(Tail(l)) : kind(y) = "attr"
              /\ \A y \in ToSet(mem[x].subscrs) : kind(y) = "subscr"

\* Whatever is declared, defined, assigned and discarded in any order, a
\* variable's nodes form one tree: each is in one list and is given back with
\* the size it was asked for, lists are sorted, and the first two attributes are
\* the null attribute and [].  Below [] there are types and macros only
\* (mf.web 5119-5122).  scan_primary calls a macro exactly where find_variable
\* would find no variable, though one goes by types and the other by nodes.
TreesSound ==
    /\ OneTree
    /\ \A x \in DOMAIN mem :
          /\ Structure(x)
          /\ (\E i \in DOMAIN x[1] : x[1][i] = collective_subscript)
                => mem[x].type \notin {"known", "true"}
    /\ \A s \in Used : Calls_macro(heap, s) <=> find_variable(heap, s).node = null

\* To the program a variable is what Suffixes says: the trees implement it.
\* Every suffix keeps its own node, type and value until it is declared or
\* discarded, a new one takes the type declared for its form, and numeric x[]
\* or vardef x[] take away those they should and no others (mf.web 5443-5448).
Kept == INSTANCE Suffixes WITH variable <- names
NamesKept == Kept!Spec
=============================================================================
