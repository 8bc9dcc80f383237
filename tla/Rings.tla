-------------------------------- MODULE Rings -------------------------------
(***************************************************************************)
(* Dynamic nonlinear equations (mf.web 13111-13217): variables and         *)
(* capsules of an unknown type that are known to be equal form a ring      *)
(* through their value fields.  The routines that mention, stash, equate,  *)
(* assign and recycle such quantities are the actions; between the two     *)
(* sides of an equation a group or a macro may run any of them.            *)
(*                                                                         *)
(* The strings among the values lie in the string pool (1120-1168): each   *)
(* operation makes its result at the top, and the space of strings without *)
(* references is used again when nothing above them is referred to.        *)
(***************************************************************************)
EXTENDS Integers, FiniteSets, Sequences, FiniteSetsExt

CONSTANTS
    Variables, Capsules,    \* value nodes of variables; those get_node returns
    Values,                 \* true and false; what strings say
    null,
    max_str_ref,            \* 127: from here on references are not counted
    MaxStrings,             \* bound: strings in the pool
    MaxSaved                \* bound: expressions and left sides put aside

ASSUME RingsAssumption ==
    /\ IsFiniteSet(Variables) /\ IsFiniteSet(Capsules)
    /\ Variables \cap Capsules = {} /\ null \notin Variables \cup Capsules
    /\ Values \cap (Variables \cup Capsules \cup {null}) = {}
    /\ MaxSaved \in Nat /\ MaxStrings \in Nat /\ max_str_ref \in Nat \ {0, 1}

VARIABLES
    type, value,            \* of the value nodes; type "free": not allocated
    pool,                   \* the strings: [chars, ref]; str_ptr is behind the last
    cur_type, cur_exp,
    saved                   \* capsules of stash_cur_exp, and who will take them

vars == <<type, value, pool, cur_type, cur_exp, saved>>

Node == Variables \cup Capsules
known_type == [unknown_boolean |-> "boolean", unknown_string |-> "string"]
unknown_types == DOMAIN known_type
und_type(t) == IF t \in {"boolean", "unknown_boolean"}
               THEN "unknown_boolean" ELSE "unknown_string"

heap == [type |-> type, value |-> value, pool |-> pool]
SetHeap(h) == type' = h.type /\ value' = h.value /\ pool' = h.pool
SetCur(t, v) == cur_type' = t /\ cur_exp' = v

Least(a, b) == IF a < b THEN a ELSE b

\* The string v gets k references more; t is what v is.
add_str_ref(h, t, v, k) ==
    IF t = "string" THEN [h EXCEPT !.pool[v].ref = Least(@ + k, max_str_ref)] ELSE h

flush_string_Once(pl, s) ==                 \* the strings below not looked at
    IF s < Len(pl) THEN [pl EXCEPT ![s].ref = 0] ELSE SubSeq(pl, 1, Len(pl) - 1)

\* The last string goes, and those below without references.
flush_string(pl, s) ==
    IF s < Len(pl) THEN [pl EXCEPT ![s].ref = 0]
    ELSE LET kept == {n \in 1..Len(pl) - 1 : pl[n].ref # 0}
         IN  SubSeq(pl, 1, IF kept = {} THEN 0 ELSE Max(kept))

delete_str_ref(h, t, v) ==
    IF t # "string" \/ h.pool[v].ref = max_str_ref THEN h
    ELSE IF h.pool[v].ref > 1 THEN [h EXCEPT !.pool[v].ref = @ - 1]
    ELSE [h EXCEPT !.pool = flush_string(@, v)]

\* The new string is number Len(pool)+1.
make_string(h, chars) == [h EXCEPT !.pool = Append(@, [chars |-> chars, ref |-> 1])]
Room == Len(pool) < MaxStrings

Neighbour(h, p) == IF h.value[p] = null THEN p ELSE h.value[p]

\* The members of the ring of p, from p on.
Ring(h, p) ==
    LET at[i \in 0..Cardinality(Node)] ==
            IF i = 0 THEN p ELSE Neighbour(h, at[i - 1])
    IN  {at[i] : i \in 0..Cardinality(Node)}

-----------------------------------------------------------------------------
\* value(q) = null means that q is in no ring yet.
new_ring_entry(h, p, q) ==
    [h EXCEPT !.type[q] = h.type[p],
              !.value[q] = IF h.value[p] = null THEN p ELSE h.value[p],
              !.value[p] = q]

ring_delete(h, p) ==
    IF h.value[p] \in {null, p} THEN h
    ELSE LET q == CHOOSE q \in Ring(h, p) : h.value[q] = p
         IN  [h EXCEPT !.value[q] = h.value[p]]

nonlinear_eq_NoRef(h, v, p, flush_p) ==     \* add_str_ref left out
    LET t == known_type[h.type[p]]
        S == IF flush_p /\ h.value[p] # p THEN Ring(h, p) \ {p} ELSE Ring(h, p)
    IN  [h EXCEPT !.type = [n \in Node |-> IF n \in S THEN t
                                           ELSE IF n = p THEN "vacuous" ELSE @[n]],
                  !.value = [n \in Node |-> IF n \in S THEN v ELSE @[n]]]

\* The walk starts behind p and ends at p; p, too, gets the value unless
\* flush_p, or if it is alone in its ring.
nonlinear_eq(h, v, p, flush_p) ==
    LET t == known_type[h.type[p]]
        S == IF flush_p /\ h.value[p] # p THEN Ring(h, p) \ {p} ELSE Ring(h, p)
        g == [h EXCEPT !.type = [n \in Node |-> IF n \in S THEN t
                                                ELSE IF n = p THEN "vacuous" ELSE @[n]],
                       !.value = [n \in Node |-> IF n \in S THEN v ELSE @[n]]]
    IN  add_str_ref(g, t, v, Cardinality(S))

ring_merge_Always(h, p, q) ==               \* the redundant equation not noticed
    [h EXCEPT !.value[p] = h.value[q], !.value[q] = h.value[p]]

ring_merge(h, p, q) ==
    IF q \in Ring(h, p) THEN h
    ELSE [h EXCEPT !.value[p] = h.value[q], !.value[q] = h.value[p]]

recycle_value(h, p) ==
    LET t == h.type[p]
        g == IF t \in unknown_types THEN ring_delete(h, p)
             ELSE delete_str_ref(h, t, h.value[p])
    IN  [g EXCEPT !.type[p] = "undefined", !.value[p] = null]

Freed(h, p) == [h EXCEPT !.type[p] = "free", !.value[p] = null]
Recycled(h, p) == Freed(recycle_value(h, p), p)

\* make_eq(lhs), with its loop to done, where lhs is recycled.
make_eq(h, lhs, t, e) ==
    LET tl == h.type[lhs] IN
    IF t \in unknown_types /\ tl = known_type[t]
    THEN LET g == nonlinear_eq(h, h.value[lhs], e, FALSE)
         IN  [heap |-> Recycled(Freed(g, e), lhs), type |-> tl, exp |-> h.value[lhs]]
    ELSE [heap |-> Recycled(IF tl \in unknown_types /\ t = known_type[tl]
                                THEN nonlinear_eq(h, e, lhs, TRUE)
                            ELSE IF tl \in unknown_types /\ t = tl
                                THEN ring_merge(h, lhs, e)
                            ELSE h, lhs),
          type |-> t, exp |-> e]

SetTo(r) == SetHeap(r.heap) /\ SetCur(r.type, r.exp)

-----------------------------------------------------------------------------
Init ==
    /\ type = [n \in Node |-> IF n \in Variables THEN "undefined" ELSE "free"]
    /\ value = [n \in Node |-> null]
    /\ pool = <<>>
    /\ cur_type = "vacuous" /\ cur_exp = null
    /\ saved = <<>>

FreeCapsules == {c \in Capsules : type[c] = "free"}
alive == cur_type # "vacuous"

\* string x; boolean x;  also what save, endgroup and redefinitions do to x.
do_type_declaration(x, t) ==
    /\ ~alive
    /\ SetHeap([recycle_value(heap, x) EXCEPT !.type[x] = t])
    /\ UNCHANGED <<cur_type, cur_exp, saved>>

\* flush_below_variable, by clear_symbol: in unsave an expression is alive.
flush_variable(x) ==
    /\ type[x] # "undefined"
    /\ SetHeap(recycle_value(heap, x))
    /\ UNCHANGED <<cur_type, cur_exp, saved>>

\* A string constant, true or false in an expression.
Constant(t, v) ==
    /\ ~alive
    /\ IF t = "string" THEN Room /\ SetHeap(make_string(heap, v)) /\ SetCur(t, Len(pool'))
       ELSE SetHeap(heap) /\ SetCur(t, v)
    /\ UNCHANGED saved

\* substring: what it says is not that of the current string.
chop_string(v) ==
    /\ cur_type = "string" /\ Room
    /\ SetHeap(delete_str_ref(make_string(heap, v), "string", cur_exp))
    /\ cur_exp' = Len(pool) + 1
    /\ UNCHANGED <<cur_type, saved>>

make_exp_copy(x) ==
    /\ ~alive
    /\ \/ type[x] \in unknown_types
          /\ \E c \in FreeCapsules :
                SetHeap(new_ring_entry(heap, x, c)) /\ SetCur(type[x], c)
       \/ type[x] \in {"boolean", "string"}
          /\ SetHeap(add_str_ref(heap, type[x], value[x], 1))
          /\ SetCur(type[x], value[x])
    /\ UNCHANGED saved

\* For "=" (who is "lhs"), or while get_x_next expands a macro ("expr").
stash_cur_exp(who) ==
    /\ alive /\ Len(saved) < MaxSaved
    /\ SetCur("vacuous", null)
    /\ IF cur_type \in unknown_types
       THEN saved' = Append(saved, <<who, cur_exp>>) /\ SetHeap(heap)
       ELSE \E c \in FreeCapsules :
               /\ saved' = Append(saved, <<who, c>>)
               /\ SetHeap([heap EXCEPT !.type[c] = cur_type, !.value[c] = cur_exp])

Top == saved[Len(saved)]
Popped == SubSeq(saved, 1, Len(saved) - 1)

\* The macro's expansion is over; what was unknown may be known by now.
unstash_cur_exp ==
    /\ ~alive /\ saved # <<>> /\ Top[1] = "expr"
    /\ LET p == Top[2] IN
       IF type[p] \in unknown_types
       THEN SetCur(type[p], p) /\ SetHeap(heap)
       ELSE SetCur(type[p], value[p]) /\ SetHeap(Freed(heap, p))
    /\ saved' = Popped

\* do_binary with the stashed operand, a string: the result is made at the top,
\* above both operands; then the operands go.
cat(v) ==
    /\ cur_type = "string" /\ saved # <<>> /\ Top[1] = "expr" /\ type[Top[2]] = "string" /\ Room
    /\ SetHeap(Recycled(delete_str_ref(make_string(heap, v), "string", cur_exp), Top[2]))
    /\ cur_exp' = Len(pool) + 1
    /\ saved' = Popped /\ UNCHANGED cur_type

\* The right side is there: do_equation calls make_eq.
do_equation ==
    /\ alive /\ saved # <<>> /\ Top[1] = "lhs"
    /\ SetTo(make_eq(heap, Top[2], cur_type, cur_exp))
    /\ saved' = Popped

\* x := current expression.
do_assignment(x) ==
    /\ alive /\ type[x] # "undefined"
    /\ \E c \in FreeCapsules :
          LET g == [recycle_value(heap, x) EXCEPT !.type[x] = und_type(type[x])]
          IN  SetTo(make_eq(new_ring_entry(g, x, c), c, cur_type, cur_exp))
    /\ UNCHANGED saved

\* The end of a statement.
flush_cur_exp ==
    /\ alive
    /\ SetHeap(IF cur_type \in unknown_types THEN Recycled(heap, cur_exp)
               ELSE delete_str_ref(heap, cur_type, cur_exp))
    /\ SetCur("vacuous", null)
    /\ UNCHANGED saved

Next ==
    \/ \E x \in Variables :
          \/ \E t \in unknown_types : do_type_declaration(x, t)
          \/ flush_variable(x) \/ make_exp_copy(x) \/ do_assignment(x)
    \/ \E t \in {"boolean", "string"}, v \in Values : Constant(t, v)
    \/ \E v \in Values : chop_string(v) \/ cat(v)
    \/ \E who \in {"lhs", "expr"} : stash_cur_exp(who)
    \/ unstash_cur_exp \/ do_equation \/ flush_cur_exp

Spec == Init /\ [][Next]_vars

-----------------------------------------------------------------------------
UnknownNodes == {n \in Node : type[n] \in unknown_types}
KnownNodes   == {n \in Node : type[n] \in {"boolean", "string"}}

\* An unknown quantity points to nothing or to one of its type, a known one
\* has a value, and the capsules in use are the ones somebody holds.
RingTypeOK ==
    /\ \A n \in UnknownNodes :
          value[n] = null \/ (value[n] \in Node /\ type[value[n]] = type[n])
    /\ \A n \in KnownNodes : value[n] \in (IF type[n] = "string" THEN DOMAIN pool ELSE Values)
    /\ cur_type = "string" => cur_exp \in DOMAIN pool
    /\ cur_type \in {"vacuous", "boolean", "string"} \cup unknown_types
    /\ {c \in Capsules : type[c] # "free"}
           = {saved[i][2] : i \in DOMAIN saved}
                 \cup (IF cur_type \in unknown_types THEN {cur_exp} ELSE {})
    /\ \A i, j \in DOMAIN saved : saved[i][2] = saved[j][2] => i = j

\* The reference count of a string is the number of its holders, whichever
\* ring they got it from, or infinite: none is lost too early.  And the space of
\* strings that nobody refers to is reclaimed when there are "no references to
\* any strings created subsequent" (mf.web 1122-1126).
RefsExact ==
    /\ RingTypeOK
    /\ \A s \in DOMAIN pool :
          pool[s].ref = max_str_ref \/ pool[s].ref =
              Cardinality({n \in Node : type[n] = "string" /\ value[n] = s})
                  + (IF cur_type = "string" /\ cur_exp = s THEN 1 ELSE 0)
    /\ pool # <<>> => pool[Len(pool)].ref # 0

\* The rings implement the classes of quantities known to be equal: an
\* equation joins two rings or gives a whole ring one value, a redundant one
\* splits nothing, and recycling one member leaves the others together.  What
\* a string says does not change while space around it is used again.
Says(n) == IF type[n] = "boolean" THEN value[n]
           ELSE IF value[n] \in DOMAIN pool THEN pool[value[n]].chars ELSE null

Classes == INSTANCE Unknowns WITH
               know <- [class |-> {Ring(heap, n) : n \in UnknownNodes},
                        val   |-> [n \in KnownNodes |-> Says(n)]]
EqualStayEqual == Classes!Spec
=============================================================================
