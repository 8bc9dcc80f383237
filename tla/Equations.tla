------------------------------ MODULE Equations -----------------------------
(***************************************************************************)
(* Linear equations (mf.web 12452-13115, 19455-19535, 20079-20240): every  *)
(* numeric quantity is known, independent, or dependent: given by a list   *)
(* of independent quantities with coefficients.  The lists are sorted by   *)
(* serial number, and the dependent quantities are chained together.       *)
(*                                                                         *)
(* Numbers are those of a finite field, where arithmetic is exact:         *)
(* thresholds, rounding, the scaling of independent quantities and the     *)
(* two ranges of coefficients (dependent, proto_dependent) are left out,   *)
(* and the term with the largest coefficient may be any term.              *)
(***************************************************************************)
EXTENDS Integers, FiniteSets, Sequences, SequencesExt

CONSTANTS
    Variables, Capsules,    \* value nodes of variables; those get_node returns
    P,                      \* numbers are integers modulo P, a prime
    Numbers,                \* bound: the constants that expressions mention
    null,
    MaxSaved                \* bound: left sides and left operands put aside

ASSUME EquationsAssumption ==
    /\ Variables \cap Capsules = {} /\ null \notin Variables \cup Capsules
    /\ P \in Nat \ {0, 1} /\ \A d \in 2..(P - 1) : P % d # 0
    /\ Numbers \subseteq 0..(P - 1)
    /\ MaxSaved \in Nat

Node == Variables \cup Capsules
F == 0..(P - 1)
Plus(a, b) == (a + b) % P
Product(a, b) == (a * b) % P
Minus(a, b) == (a - b) % P
Quotient(a, b) == CHOOSE c \in F : Product(b, c) = a

VARIABLES
    type, value,            \* of the value nodes; type "free": not allocated
    dep_list,               \* of the dependent nodes: terms, then the constant
    dep_head,               \* the dependent nodes, the latest first
    serials,                \* the independent nodes by serial number
    cur_type, cur_exp,
    saved                   \* capsules of stash_cur_exp

vars == <<type, value, dep_list, dep_head, serials, cur_type, cur_exp, saved>>

heap == [type |-> type, value |-> value, list |-> dep_list, head |-> dep_head,
         serials |-> serials, cur_type |-> cur_type, cur_exp |-> cur_exp]

SetHeap(h) ==
    /\ type' = h.type /\ value' = h.value /\ dep_list' = h.list
    /\ dep_head' = h.head /\ serials' = h.serials
    /\ cur_type' = h.cur_type /\ cur_exp' = h.cur_exp

-----------------------------------------------------------------------------
(* Dependency lists.  A term is an independent node and its coefficient.   *)

Term(x, c) == [info |-> x, coef |-> c]
const_dependency(c) == [terms |-> <<>>, const |-> c]
is_const(p) == p.terms = <<>>
no_list == const_dependency(0)

Serial(h, x) == LET at == {i \in DOMAIN h.serials : h.serials[i] = x}
                IN  IF at = {} THEN 0 ELSE CHOOSE i \in at : TRUE

Scaled(p, c) ==
    [terms |-> [i \in DOMAIN p.terms |->
                   [p.terms[i] EXCEPT !.coef = Product(@, c)]],
     const |-> Product(p.const, c)]

p_times_v(p, v) == IF v = 0 THEN no_list ELSE Scaled(p, v)
negate_dep_list_ButLast(p) ==               \* stops before the constant
    [Scaled(p, P - 1) EXCEPT !.const = p.const]
negate_dep_list(p) == Scaled(p, P - 1)
single_dependency(x) == [terms |-> <<Term(x, 1)>>, const |-> 0]

\* p + f * q: one pass over both lists, the larger serial number first.
p_plus_fq(h, p, f, q) ==
    LET At(l, i) == IF i <= Len(l) THEN l[i] ELSE Term(null, 0)
        merge[i \in 1..(Len(p.terms) + 1), j \in 1..(Len(q.terms) + 1)] ==
            LET a == At(p.terms, i)
                b == At(q.terms, j)
                c == Plus(a.coef, Product(f, b.coef))
            IN  IF a.info = b.info
                THEN IF a.info = null THEN <<>>
                     ELSE (IF c = 0 THEN <<>> ELSE <<Term(a.info, c)>>)
                          \o merge[i + 1, j + 1]
                ELSE IF Serial(h, a.info) < Serial(h, b.info)
                THEN <<Term(b.info, Product(f, b.coef))>> \o merge[i, j + 1]
                ELSE <<a>> \o merge[i + 1, j]
    IN  [terms |-> merge[1, 1], const |-> Plus(p.const, Product(f, q.const))]

p_plus_q(h, p, q) == p_plus_fq(h, p, 1, q)

Has(p, x) == \E i \in DOMAIN p.terms : p.terms[i].info = x
Place(p, x) == CHOOSE i \in DOMAIN p.terms : p.terms[i].info = x
Coef(p, x) == p.terms[Place(p, x)].coef
Without(p, x) == [p EXCEPT !.terms = RemoveAt(@, Place(p, x))]

\* The search for x stops at the first term whose serial is not larger.
p_with_x_becoming_q(h, p, x, q) ==
    LET later == {i \in DOMAIN p.terms :
                     \A j \in 1..i : Serial(h, p.terms[j].info) > Serial(h, x)}
        s == Cardinality(later) + 1
    IN  IF s > Len(p.terms) THEN p
        ELSE IF p.terms[s].info # x THEN p
        ELSE p_plus_fq(h, [p EXCEPT !.terms = RemoveAt(@, s)], p.terms[s].coef, q)

-----------------------------------------------------------------------------
(* Changes of type.                                                        *)

Unlinked(h, p) == [h EXCEPT !.head = SelectSeq(@, LAMBDA q : q # p),
                            !.list[p] = no_list]

new_dep(h, q, p) == [h EXCEPT !.list[q] = p, !.head = <<q>> \o @]

new_indep_Old(h, p) ==                      \* an old serial number used again
    [h EXCEPT !.type[p] = "independent", !.serials = <<p>> \o @]
new_indep(h, p) ==
    [h EXCEPT !.type[p] = "independent", !.serials = Append(@, p)]

Freed(h, p) == [h EXCEPT !.type[p] = "free", !.value[p] = 0]

\* A capsule that is the current expression is given up for its value.
CurKnown(h, p) ==
    Freed([h EXCEPT !.cur_type = "known", !.cur_exp = h.value[p]], p)

make_known(h, p) ==
    LET g == [Unlinked(h, p) EXCEPT !.type[p] = "known",
                                    !.value[p] = h.list[p].const]
    IN  IF h.cur_exp = p /\ h.cur_type = h.type[p] THEN CurKnown(g, p) ELSE g

\* The lists do not share anything: they can be treated in any order.
AllKnown(h, S) == IF S = {} THEN h
                  ELSE FoldSet(LAMBDA p, g : make_known(g, p), h, S)

Constant(h) == {r \in ToSet(h.head) : is_const(h.list[r])}

\* The equation p = 0, for a list with at least one term: for each choice of
\* the term to solve for, the state it leads to.
linear_eq(h, p) ==
    {LET x == p.terms[i].info
         solved == Scaled(Without(p, x), Quotient(P - 1, p.terms[i].coef))
         g == [h EXCEPT !.list = [r \in Node |->
                  IF r \in ToSet(h.head)
                  THEN p_with_x_becoming_q(h, @[r], x, solved) ELSE @[r]]]
         k == [AllKnown(g, Constant(g)) EXCEPT
                  !.serials = SelectSeq(@, LAMBDA y : y # x)]
     IN  IF is_const(solved)
         THEN LET u == [k EXCEPT !.type[x] = "known", !.value[x] = solved.const]
              IN  IF k.cur_exp = x /\ k.cur_type = "independent"
                  THEN CurKnown(u, x) ELSE u
         ELSE [new_dep(k, x, solved) EXCEPT
                  !.type[x] = "dependent",
                  !.cur_type = IF k.cur_exp = x /\ @ = "independent"
                               THEN "dependent" ELSE @] :
     i \in DOMAIN p.terms}

\* An independent quantity that goes away while others depend on it: one of
\* them, pp, becomes independent, and takes its place in the lists of the rest.
Reverted(h, p, pp) ==
    LET S == {r \in ToSet(h.head) : Has(h.list[r], p)} \ {pp}
        v == Coef(h.list[pp], p)
        rest == Without(h.list[pp], p)
        s == [rest EXCEPT !.terms = <<Term(pp, P - 1)>> \o @]
        g == [new_indep(Unlinked(h, pp), pp) EXCEPT
                 !.cur_type = IF h.cur_exp = pp /\ @ = "dependent"
                              THEN "independent" ELSE @]
        k == [g EXCEPT !.list = [r \in Node |->
                 IF r \in S
                 THEN p_plus_fq(g, Without(@[r], p),
                                Quotient(Coef(@[r], p), Minus(0, v)), s)
                 ELSE @[r]]]
    IN  AllKnown(k, Constant(k))

recycle_value(h, p) ==
    LET S == {r \in ToSet(h.head) : Has(h.list[r], p)}
        G == IF h.type[p] = "dependent" THEN {Unlinked(h, p)}
             ELSE IF h.type[p] = "independent" /\ S # {}
             THEN {Reverted(h, p, pp) : pp \in S}
             ELSE {h}
    IN  {[g EXCEPT !.type[p] = "undefined", !.value[p] = 0,
                   !.serials = SelectSeq(@, LAMBDA y : y # p)] : g \in G}

Recycled(h, p) == {Freed(g, p) : g \in recycle_value(h, p)}

-----------------------------------------------------------------------------
(* The current expression.                                                 *)

NewCapsule(h) == CHOOSE c \in Capsules : h.type[c] = "free"

encapsulate(h, p) ==
    LET c == NewCapsule(h)
    IN  new_dep([h EXCEPT !.type[c] = "dependent", !.cur_type = "dependent",
                          !.cur_exp = c], c, p)

\* A quantity of no type yet ("undefined", or numeric_type) is introduced.
make_exp_copy(h, p) ==
    LET g == IF h.type[p] = "undefined" THEN new_indep(h, p) ELSE h
    IN  CASE g.type[p] = "known" -> [g EXCEPT !.cur_type = "known",
                                              !.cur_exp = g.value[p]]
          [] g.type[p] = "independent" -> encapsulate(g, single_dependency(p))
          [] g.type[p] = "dependent" -> encapsulate(g, g.list[p])

stash_cur_exp(h) ==
    LET c == IF h.cur_type = "known" THEN NewCapsule(h) ELSE h.cur_exp
        g == IF h.cur_type = "known"
             THEN [h EXCEPT !.type[c] = "known", !.value[c] = h.cur_exp] ELSE h
    IN  [heap |-> [g EXCEPT !.cur_type = "vacuous"], capsule |-> c]

unstash_cur_exp(h, p) ==
    IF h.type[p] = "known"
    THEN Freed([h EXCEPT !.cur_type = "known", !.cur_exp = h.value[p]], p)
    ELSE [h EXCEPT !.cur_type = h.type[p], !.cur_exp = p]

\* A capsule that lost its definition is copied before it is operated on.
Sidestepped(h, p) ==
    LET q == stash_cur_exp(h)
        r == stash_cur_exp(make_exp_copy(q.heap, p))
    IN  [heap |-> unstash_cur_exp(r.heap, q.capsule), capsule |-> r.capsule]

flush_cur_exp(h, v) ==
    {[g EXCEPT !.cur_type = "known", !.cur_exp = v] :
     g \in IF h.cur_type = "known" THEN {h} ELSE Recycled(h, h.cur_exp)}

dep_finish(h, v) ==
    LET g == [h EXCEPT !.list[h.cur_exp] = v]
    IN  IF is_const(v) THEN flush_cur_exp(g, v.const) ELSE {g}

AddConstant(h, p, c) == [h EXCEPT !.list[p].const = Plus(@, c)]

\* p, a known operand or a list, combined with the current expression.
add_or_subtract(h, p, minus) ==
    LET v == IF minus THEN Minus(0, h.cur_exp) ELSE h.cur_exp
        e == h.cur_exp
        g == IF minus THEN [h EXCEPT !.list[e] = negate_dep_list(@)] ELSE h
        q == NewCapsule(h)
        moved == [AddConstant(h, p, v) EXCEPT
                     !.type[q] = "dependent", !.type[p] = "known",
                     !.cur_type = "dependent", !.cur_exp = q,
                     !.head = [i \in DOMAIN @ |-> IF @[i] = p THEN q ELSE @[i]]]
    IN  IF h.cur_type = "known" /\ h.type[p] = "known"
        THEN {[h EXCEPT !.cur_exp = Plus(h.value[p], v)]}
        ELSE IF h.cur_type = "known"
        THEN {[moved EXCEPT !.list[q] = moved.list[p], !.list[p] = no_list]}
        ELSE IF h.type[p] = "known" THEN {AddConstant(g, e, h.value[p])}
        ELSE dep_finish(g, p_plus_q(g, g.list[e], g.list[p]))

times(h, p) ==
    LET v == IF h.type[p] = "known" THEN h.value[p] ELSE h.cur_exp
        g == IF h.type[p] = "known" THEN Freed(h, p) ELSE unstash_cur_exp(h, p)
    IN  IF h.type[p] # "known" /\ h.cur_type # "known"
        THEN Recycled(h, p)                     \* bad_binary
        ELSE IF g.cur_type = "known"
        THEN {[g EXCEPT !.cur_exp = Product(@, v)]}
        ELSE dep_finish(g, p_times_v(g.list[g.cur_exp], v))

AllRecycled(H, p) == IF p = null THEN H ELSE UNION {Recycled(h, p) : h \in H}

do_binary(h, p, c) ==
    LET old_p == IF h.type[p] = "independent" THEN p ELSE null
        first == IF old_p = null THEN [heap |-> h, capsule |-> p]
                 ELSE Sidestepped(h, p)
        g == first.heap
        old_exp == IF g.cur_type = "independent" THEN g.cur_exp ELSE null
        k == IF old_exp = null THEN g ELSE make_exp_copy(g, old_exp)
        done == IF c = "times" THEN times(k, first.capsule)
                ELSE AllRecycled(add_or_subtract(k, first.capsule, c = "minus"),
                                 first.capsule)
    IN  AllRecycled(AllRecycled(done, old_p), old_exp)

-----------------------------------------------------------------------------
(* Equations and assignments.                                              *)

\* The list of a quantity that an equation needs; l itself is given up.
ListOf(h, l) ==
    CASE h.type[l] = "known" -> const_dependency(h.value[l])
      [] h.type[l] = "independent" -> single_dependency(l)
      [] h.type[l] = "dependent" -> h.list[l]

try_eq(h, l) ==
    LET p == negate_dep_list(ListOf(h, l))
        g == IF h.type[l] = "dependent"
             THEN [Unlinked(h, l) EXCEPT !.type[l] = "known"] ELSE h
        sum == IF h.cur_type = "known" THEN [p EXCEPT !.const = Plus(@, h.cur_exp)]
               ELSE p_plus_q(g, p, ListOf(g, h.cur_exp))
    IN  IF is_const(sum) THEN {g}               \* redundant, or inconsistent
        ELSE {IF k.cur_type # "known" /\ k.type[k.cur_exp] = "known"
              THEN CurKnown(k, k.cur_exp) ELSE k : k \in linear_eq(g, sum)}

make_eq(h, lhs) == AllRecycled(try_eq(h, lhs), lhs)

\* The old value goes away first; what depends on it is solved for again.
do_assignment(h, x) ==
    LET q == stash_cur_exp(h)
        Equated(g) == LET p == stash_cur_exp(make_exp_copy(g, x))
                      IN  make_eq(unstash_cur_exp(p.heap, q.capsule), p.capsule)
    IN  UNION {Equated(g) : g \in recycle_value(q.heap, x)}

-----------------------------------------------------------------------------
Init ==
    /\ type = [n \in Node |-> IF n \in Variables THEN "undefined" ELSE "free"]
    /\ value = [n \in Node |-> 0]
    /\ dep_list = [n \in Node |-> no_list]
    /\ dep_head = <<>> /\ serials = <<>>
    /\ cur_type = "vacuous" /\ cur_exp = null
    /\ saved = <<>>

alive == cur_type # "vacuous"

Mention(x) ==
    /\ ~alive
    /\ SetHeap(make_exp_copy(heap, x))
    /\ UNCHANGED saved

Number(c) ==
    /\ ~alive
    /\ SetHeap([heap EXCEPT !.cur_type = "known", !.cur_exp = c])
    /\ UNCHANGED saved

\* The left side of an equation or of an operator waits for the right one;
\* cur_exp means nothing then (null in the model).
Stash ==
    /\ alive /\ Len(saved) < MaxSaved
    /\ LET q == stash_cur_exp(heap)
       IN  /\ SetHeap([q.heap EXCEPT !.cur_exp = null])
           /\ saved' = Append(saved, q.capsule)

Binary(c) ==
    /\ alive /\ saved # <<>>
    /\ \E g \in do_binary(heap, Last(saved), c) : SetHeap(g)
    /\ saved' = Front(saved)

Equation ==
    /\ alive /\ saved # <<>>
    /\ \E g \in make_eq(heap, Last(saved)) : SetHeap(g)
    /\ saved' = Front(saved)

Assignment(x) ==
    /\ alive
    /\ \E g \in do_assignment(heap, x) : SetHeap(g)
    /\ UNCHANGED saved

\* A declaration, or the end of a group that saved x.
Redeclare(x) ==
    /\ ~alive
    /\ \E g \in recycle_value(heap, x) : SetHeap(g)
    /\ UNCHANGED saved

\* The end of a statement.
Flush ==
    /\ alive
    /\ \E g \in flush_cur_exp(heap, 0) :
          SetHeap([g EXCEPT !.cur_type = "vacuous", !.cur_exp = null])
    /\ UNCHANGED saved

Next ==
    \/ \E x \in Variables : Mention(x) \/ Assignment(x) \/ Redeclare(x)
    \/ \E c \in Numbers : Number(c)
    \/ \E c \in {"plus", "minus", "times"} : Binary(c)
    \/ Stash \/ Equation \/ Flush

Spec == Init /\ [][Next]_vars

-----------------------------------------------------------------------------
TypeOK ==
    /\ type \in [Node -> {"free", "undefined", "known", "independent", "dependent"}]
    /\ value \in [Node -> F]
    /\ cur_type \in {"vacuous", "known", "independent", "dependent"}
    /\ ToSet(saved) \subseteq Capsules

\* The terms of every list are independent quantities by decreasing serial
\* number with coefficients other than zero (what p_plus_fq and
\* p_with_x_becoming_q rely on), and a list without terms never stays.
Sorted(p) ==
    /\ ~is_const(p)
    /\ \A i \in DOMAIN p.terms :
          /\ type[p.terms[i].info] = "independent" /\ p.terms[i].coef # 0
          /\ i > 1 => Serial(heap, p.terms[i].info) < Serial(heap, p.terms[i - 1].info)

\* Every dependent quantity is in the chain of dep_head once, with a sorted
\* list; the current expression knows its own type, and no capsule is lost.
DepListsSound ==
    /\ TypeOK
    /\ IsInjective(dep_head) /\ IsInjective(serials)
    /\ ToSet(dep_head) = {n \in Node : type[n] = "dependent"}
    /\ ToSet(serials) = {n \in Node : type[n] = "independent"}
    /\ \A n \in ToSet(dep_head) : Sorted(dep_list[n])
    /\ cur_type \in {"independent", "dependent"} => type[cur_exp] = cur_type
    /\ {c \in Capsules : type[c] # "free"} =
          ToSet(saved) \cup (IF cur_exp \in Capsules THEN {cur_exp} ELSE {})

-----------------------------------------------------------------------------
Value(p, f) ==
    LET sum[i \in 0..Len(p.terms)] ==
            IF i = 0 THEN p.const
            ELSE Plus(sum[i - 1], Product(p.terms[i].coef, f[p.terms[i].info]))
    IN  sum[Len(p.terms)]

NodeValue(n, f) ==
    CASE type[n] = "known" -> value[n]
      [] type[n] = "dependent" -> Value(dep_list[n], f)
      [] OTHER -> f[n]

Slot == Variables \cup 0..MaxSaved
SlotValue(i, f) ==
    IF i \in Variables THEN NodeValue(i, f)
    ELSE IF i = 0
    THEN IF ~alive THEN 0
         ELSE IF cur_type = "known" THEN cur_exp ELSE NodeValue(cur_exp, f)
    ELSE IF i <= Len(saved) THEN NodeValue(saved[i], f) ELSE 0

Unknown == {n \in Node : type[n] = "independent"}
           \cup {x \in Variables : type[x] = "undefined"}

L == INSTANCE LinearSystem WITH
        solutions <- {[i \in Slot |-> SlotValue(i, f)] : f \in [Unknown -> F]},
        depth <- Len(saved), full <- alive

\* Whatever is equated, assigned, redeclared, combined and given up, in
\* whatever order, the lists describe exactly the solutions of the system:
\* no equation is lost or made up, and an old value outlives its variable.
SolutionsKept == L!Spec
=============================================================================
