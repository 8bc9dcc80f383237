------------------------------ MODULE SaveStack -----------------------------
(***************************************************************************)
(* Meanings of symbols (mf.web 5201-5211, 5532-5550), the save stack       *)
(* (5552-5654), and the statements, definitions and macro calls that use   *)
(* them.  A variable structure is one root node whose value is plain or a  *)
(* vardef; a macro is a reference count and a replacement text.  Where the *)
(* code reads more tokens between two steps, any other operation may come  *)
(* in between, since every get_x_next can expand a macro and evaluate a    *)
(* group.                                                                  *)
(***************************************************************************)
EXTENDS Integers, Sequences, SequencesExt, FiniteSets
CONSTANTS
    Symbols,      \* the hash addresses that the program redefines
    Variables,    \* those of them that it saves and declares as variables
    Protectable,  \* those of them that it declares outer
    Roots,        \* nodes for the roots of variables
    Macros,       \* nodes for the reference counts of macros
    Bodies,       \* replacement texts
    HeldBodies,   \* those of binary operators and of suffixed vardefs
    Internals, IntValues,
    MaxUsed,      \* bound on roots, macros and internal quantities in use
    MaxSaved,     \* bound on the items of the save stack
    MaxDepth,     \* bound on routines inside each other
    MaxInput      \* bound on the macros being read

ASSUME SaveStackAssumption ==
    /\ (Variables \cup Protectable) \subseteq Symbols /\ HeldBodies \subseteq Bodies
    /\ 0 \in IntValues /\ {MaxUsed, MaxSaved, MaxDepth, MaxInput} \subseteq Nat
    /\ IsFiniteSet(Symbols) /\ IsFiniteSet(Roots)
    /\ {"null", "plain"} \cap (Roots \cup Macros) = {}

VARIABLES
    tab,       \* [eqtb, root, mac]: symbols, roots of variables, macros
    internal,  \* internal[i] for the quantities allotted so far
    save_ptr,  \* the save stack, top last
    calls,     \* scan_primary in a group or with a suffixed macro in hand,
               \* scan_expression with an operator in hand, macro_call
    input      \* the start fields of the macro levels of the input stack
vars == <<tab, internal, save_ptr, calls, input>>

null == "null"
Entry(t, e) == [eq_type |-> t, outer |-> FALSE, equiv |-> e]
frozen_undefined == Entry("tag", null)
FreeRoot == [name_type |-> "free", value |-> null]
FreeMac  == [ref_count |-> -1, body |-> "none"]
Live(t)  == {m \in Macros : t.mac[m] # FreeMac}

\* A null ref_count, here 0, is one reference.
add_mac_ref(t, m) == [t EXCEPT !.mac[m].ref_count = @ + 1]
delete_mac_ref(t, m) ==
    IF t.mac[m].ref_count = 0 THEN [t EXCEPT !.mac[m] = FreeMac]
    ELSE [t EXCEPT !.mac[m].ref_count = @ - 1]

\* The value of root r is recycled: a vardef gives up its macro.
recycle_value(t, r) ==
    LET m == t.root[r].value
        u == [t EXCEPT !.root[r].value = "plain"]
    IN  IF m \in Macros THEN delete_mac_ref(u, m) ELSE u

flush_root(t, r) == [recycle_value(t, r) EXCEPT !.root[r] = FreeRoot]

\* Mutant: the command code is not taken modulo outer_tag.
clear_symbol_Outer(t, p, saving) ==
    LET q == t.eqtb[p].equiv
        type == t.eqtb[p].eq_type
        u == IF t.eqtb[p].outer THEN t
             ELSE IF type = "macro" /\ ~saving THEN delete_mac_ref(t, q)
             ELSE IF type = "tag" /\ q # null
             THEN IF saving THEN [t EXCEPT !.root[q].name_type = "saved_root"]
                  ELSE flush_root(t, q)
             ELSE t
    IN  [u EXCEPT !.eqtb[p] = frozen_undefined]

clear_symbol(t, p, saving) ==
    LET q == t.eqtb[p].equiv
        type == t.eqtb[p].eq_type
        u == IF type = "macro" /\ ~saving THEN delete_mac_ref(t, q)
             ELSE IF type = "tag" /\ q # null
             THEN IF saving THEN [t EXCEPT !.root[q].name_type = "saved_root"]
                  ELSE flush_root(t, q)
             ELSE t
    IN  [u EXCEPT !.eqtb[p] = frozen_undefined]

\* Mutant: the restored root goes on being called a saved one.
restore_Saved(s, item) ==
    IF item.info = "internal" THEN [s EXCEPT !.internal[item.q] = item.value]
    ELSE [s EXCEPT !.tab = [clear_symbol(@, item.q, FALSE) EXCEPT !.eqtb[item.q] = item.value]]

\* One item comes off the save stack.

restore(s, item) ==
    IF item.info = "internal" THEN [s EXCEPT !.internal[item.q] = item.value]
    ELSE LET t == clear_symbol(s.tab, item.q, FALSE)
             u == [t EXCEPT !.eqtb[item.q] = item.value]
             e == item.value
         IN  [s EXCEPT !.tab = IF e.eq_type = "tag" /\ e.equiv # null
                               THEN [u EXCEPT !.root[e.equiv].name_type = "root"] ELSE u]

\* The position of the item that bounds the innermost group.
Boundary(stack) ==
    CHOOSE i \in DOMAIN stack : /\ stack[i].info = "boundary"
                                /\ \A j \in (i + 1)..Len(stack) : stack[j].info # "boundary"

\* Mutant: the items are restored from the bottom up.
unsave_Forward(s) ==
    LET B == Boundary(s.stack)
        undone[k \in 0..(Len(s.stack) - B)] ==
            IF k = 0 THEN [tab |-> s.tab, internal |-> s.internal]
            ELSE restore(undone[k - 1], s.stack[B + k])
    IN  undone[Len(s.stack) - B]

\* undone[k]: the k items at the top are restored.
unsave(s) ==
    LET N == Len(s.stack)
        undone[k \in 0..(N - Boundary(s.stack))] ==
            IF k = 0 THEN [tab |-> s.tab, internal |-> s.internal]
            ELSE restore(undone[k - 1], s.stack[N - k + 1])
    IN  undone[N - Boundary(s.stack)]

Top == IF calls = <<>> THEN "none" ELSE Last(calls).kind
Obeying == Top \in {"none", "group"}
LiveRoots == {r \in Roots : tab.root[r] # FreeRoot}
Room == Cardinality(LiveRoots) + Cardinality(Live(tab)) + Cardinality(DOMAIN internal) < MaxUsed
FreshRoots     == IF Room THEN Roots \ LiveRoots ELSE {}
FreshMacros    == IF Room THEN Macros \ Live(tab) ELSE {}
FreshInternals == IF Room THEN Internals \ DOMAIN internal ELSE {}

-----------------------------------------------------------------------------
(* Statements                                                              *)

\* def, and primarydef and its relatives, for symbol q.
DefineMacro(q, b) ==
    /\ Obeying
    /\ \E m \in FreshMacros :
          LET t == clear_symbol([tab EXCEPT !.mac[m] = [ref_count |-> 0, body |-> b]], q, FALSE)
          IN  tab' = [t EXCEPT !.eqtb[q] = Entry("macro", m)]
    /\ UNCHANGED <<internal, save_ptr, calls, input>>

\* Symbol q is cleared ahead of the tokens that tell what it will be.
get_clear_symbol(q) ==
    /\ Obeying
    /\ tab' = clear_symbol(tab, q, FALSE)
    /\ UNCHANGED <<internal, save_ptr, calls, input>>

\* The variable q, which becomes one if it was not.
declared_variables(q) ==
    LET t == IF tab.eqtb[q].eq_type # "tag" THEN clear_symbol(tab, q, FALSE) ELSE tab IN
    IF t.eqtb[q].equiv # null THEN {t}
    ELSE {[t EXCEPT !.root[r] = [name_type |-> "root", value |-> "plain"],
                    !.eqtb[q].equiv = r] : r \in FreshRoots}

do_type_declaration(q) ==
    /\ Obeying
    /\ \E t \in declared_variables(q) : tab' = recycle_value(t, t.eqtb[q].equiv)
    /\ UNCHANGED <<internal, save_ptr, calls, input>>

VarDef(q, b) ==
    /\ Obeying
    /\ \E t \in declared_variables(q), m \in FreshMacros :
          LET r == t.eqtb[q].equiv IN
          tab' = [recycle_value(t, r) EXCEPT !.mac[m] = [ref_count |-> 0, body |-> b],
                                             !.root[r].value = m]
    /\ UNCHANGED <<internal, save_ptr, calls, input>>

do_let(l, r) ==
    /\ Obeying
    /\ LET e == tab.eqtb[r]
           t == IF e.eq_type = "macro" THEN add_mac_ref(tab, e.equiv) ELSE tab
       IN  tab' = [clear_symbol(t, l, FALSE) EXCEPT !.eqtb[l] =
                      IF e.eq_type = "tag" THEN Entry("tag", null)
                      ELSE Entry(e.eq_type, e.equiv)]
    /\ UNCHANGED <<internal, save_ptr, calls, input>>

do_protection(q, m) ==
    /\ Obeying
    /\ tab' = [tab EXCEPT !.eqtb[q].outer = m]
    /\ UNCHANGED <<internal, save_ptr, calls, input>>

\* newinternal: at max_internal the run ends with an overflow.
do_new_internal(q) ==
    /\ Obeying
    /\ \E i \in FreshInternals :
          /\ tab' = [clear_symbol(tab, q, FALSE) EXCEPT !.eqtb[q] = Entry("internal", i)]
          /\ internal' = [j \in DOMAIN internal \cup {i} |-> IF j = i THEN 0 ELSE internal[j]]
    /\ UNCHANGED <<save_ptr, calls, input>>

\* The right side of an assignment to quantity i has been scanned, and may have
\* given another meaning to the symbol on the left.
SetInternal(i, v) ==
    /\ Obeying
    /\ internal' = [internal EXCEPT ![i] = v]
    /\ UNCHANGED <<tab, save_ptr, calls, input>>

save_variable(q) ==
    /\ Obeying
    /\ save_ptr # <<>> => Len(save_ptr) < MaxSaved
    /\ save_ptr' = IF save_ptr = <<>> THEN <<>>
                   ELSE Append(save_ptr, [info |-> "symbol", q |-> q, value |-> tab.eqtb[q]])
    /\ tab' = clear_symbol(tab, q, save_ptr # <<>>)
    /\ UNCHANGED <<internal, calls, input>>

\* interim: the value is saved, and the statement that follows is obeyed.
save_internal(q) ==
    /\ Obeying /\ tab.eqtb[q].eq_type = "internal"
    /\ save_ptr # <<>> /\ Len(save_ptr) < MaxSaved
    /\ LET i == tab.eqtb[q].equiv IN
       save_ptr' = Append(save_ptr, [info |-> "internal", q |-> i, value |-> internal[i]])
    /\ UNCHANGED <<tab, internal, calls, input>>

-----------------------------------------------------------------------------
(* Expressions: groups and macro calls                                     *)

BeginGroup ==
    /\ Len(calls) < MaxDepth /\ Len(save_ptr) < MaxSaved
    /\ save_ptr' = Append(save_ptr, [info |-> "boundary"])
    /\ calls' = Append(calls, [kind |-> "group"])
    /\ UNCHANGED <<tab, internal, input>>

EndGroup ==
    /\ Top = "group"
    /\ LET s == unsave([tab |-> tab, internal |-> internal, stack |-> save_ptr]) IN
       /\ tab' = s.tab /\ internal' = s.internal
       /\ save_ptr' = SubSeq(save_ptr, 1, Boundary(save_ptr) - 1)
    /\ calls' = Front(calls)
    /\ UNCHANGED input

\* The macro that symbol q means, or that its variable is; Bodies tells which
\* of them wait for an operand or a suffix.
MeansMacro(q, m) == \/ tab.eqtb[q].eq_type = "macro" /\ tab.eqtb[q].equiv = m
                    \/ /\ tab.eqtb[q].eq_type = "tag" /\ tab.eqtb[q].equiv # null
                       /\ tab.root[tab.eqtb[q].equiv].value = m

\* macro_call as far as the scanning of its arguments.

StartCall(m) ==
    /\ Len(calls) < MaxDepth
    /\ tab.mac[m].body \notin HeldBodies
    /\ \E q \in Symbols : MeansMacro(q, m)
    /\ tab' = add_mac_ref(tab, m)
    /\ calls' = Append(calls, [kind |-> "args", m |-> m, held |-> FALSE])
    /\ UNCHANGED <<internal, save_ptr, input>>

\* A reference is kept while the second operand, or the suffix, is scanned.
Hold(m) ==
    /\ Len(calls) < MaxDepth
    /\ tab.mac[m].body \in HeldBodies
    /\ \E q \in Symbols : MeansMacro(q, m)
    /\ tab' = add_mac_ref(tab, m)
    /\ calls' = Append(calls, [kind |-> "held", m |-> m])
    /\ UNCHANGED <<internal, save_ptr, input>>

\* binary_mac, or macro_call(macro_ref): macro_call adds a reference of its own.
CallHeld ==
    /\ Top = "held"
    /\ LET m == Last(calls).m IN
       /\ tab' = add_mac_ref(tab, m)
       /\ calls' = [calls EXCEPT ![Len(calls)] = [kind |-> "args", m |-> m, held |-> TRUE]]
    /\ UNCHANGED <<internal, save_ptr, input>>

\* The depleted levels above the first k end, each with its reference.
Depleted(t, k) ==
    LET gone[j \in 0..(Len(input) - k)] ==
            IF j = 0 THEN t ELSE delete_mac_ref(gone[j - 1], input[Len(input) - j + 1])
    IN  gone[Len(input) - k]

\* macro_call feeds the replacement text; a caller that held it lets it go.
Feed ==
    /\ Top = "args"
    /\ \E k \in 0..Len(input) :
          LET f == Last(calls)
              t == Depleted(tab, k)
          IN  /\ k < MaxInput
              /\ input' = Append(SubSeq(input, 1, k), f.m)
              /\ tab' = IF f.held THEN [t EXCEPT !.mac[f.m].ref_count = @ - 1] ELSE t
    /\ calls' = Front(calls)
    /\ UNCHANGED <<internal, save_ptr>>

end_token_list ==
    /\ input # <<>>
    /\ tab' = delete_mac_ref(tab, Last(input))
    /\ input' = Front(input)
    /\ UNCHANGED <<internal, save_ptr, calls>>

-----------------------------------------------------------------------------
Init ==
    /\ tab = [eqtb |-> [q \in Symbols |-> frozen_undefined],
              root |-> [r \in Roots |-> FreeRoot],
              mac  |-> [m \in Macros |-> FreeMac]]
    /\ internal = [i \in {} |-> 0]
    /\ save_ptr = <<>> /\ calls = <<>> /\ input = <<>>

Next ==
    \/ \E q \in Symbols :
          \/ get_clear_symbol(q) \/ do_new_internal(q) \/ save_internal(q)
          \/ \E b \in Bodies : DefineMacro(q, b)
          \/ \E p \in Symbols : do_let(q, p)
    \/ \E q \in Variables :
          \/ do_type_declaration(q) \/ save_variable(q)
          \/ \E b \in Bodies : VarDef(q, b)
    \/ \E q \in Protectable, m \in BOOLEAN : do_protection(q, m)
    \/ \E i \in DOMAIN internal, v \in IntValues : SetInternal(i, v)
    \/ BeginGroup \/ EndGroup
    \/ \E m \in Live(tab) : StartCall(m) \/ Hold(m)
    \/ CallHeld \/ Feed \/ end_token_list

Spec == Init /\ [][Next]_vars

-----------------------------------------------------------------------------
Saved       == {i \in DOMAIN save_ptr : save_ptr[i].info = "symbol"}
Holds(e, m) == e.eq_type = "macro" /\ e.equiv = m
Owns(e, r)  == e.eq_type = "tag" /\ e.equiv = r

Holders(m) ==
    Cardinality({q \in Symbols : Holds(tab.eqtb[q], m)})
    + Cardinality({i \in Saved : Holds(save_ptr[i].value, m)})
    + Cardinality({r \in Roots : tab.root[r].value = m})
    + Cardinality({i \in DOMAIN calls : calls[i].kind # "group" /\ calls[i].m = m})
    + Cardinality({i \in DOMAIN calls : calls[i].kind = "args" /\ calls[i].m = m /\ calls[i].held})
    + Cardinality({i \in DOMAIN input : input[i] = m})

\* A macro's reference count is the number of its holders: symbols, saved
\* equivalents, vardefs, calls under way and input levels.  So no text is freed
\* while it can still be read, and none stays when nobody can reach it.
MacroRefsExact == \A m \in Macros : tab.mac[m].ref_count + 1 = Holders(m)

\* Every root of a variable belongs to one symbol, which has it now or had it
\* when it was saved, and says which; freed roots belong to none.  The stack
\* has one boundary for every group under way and nothing below the first.
NodesOwned ==
    /\ \A r \in Roots :
          LET now   == Cardinality({q \in Symbols : Owns(tab.eqtb[q], r)})
              saved == Cardinality({i \in Saved : Owns(save_ptr[i].value, r)})
          IN  CASE tab.root[r].name_type = "free"       -> now = 0 /\ saved = 0
                []  tab.root[r].name_type = "root"       -> now = 1 /\ saved = 0
                []  tab.root[r].name_type = "saved_root" -> now = 0 /\ saved = 1
    /\ save_ptr # <<>> => Head(save_ptr).info = "boundary"
    /\ Cardinality({i \in DOMAIN save_ptr : save_ptr[i].info = "boundary"})
       = Cardinality({i \in DOMAIN calls : calls[i].kind = "group"})

-----------------------------------------------------------------------------
(* The abstract state: contents instead of pointers, and what each group   *)
(* has saved first instead of a list of everything that was saved.         *)

Body(t, m) == t.mac[m].body
Of(t, e) ==
    IF e.eq_type = "macro" THEN Body(t, e.equiv)
    ELSE IF e.eq_type = "internal" THEN e.equiv
    ELSE IF e.equiv = null THEN "none"
    ELSE IF t.root[e.equiv].value \in Macros THEN Body(t, t.root[e.equiv].value)
    ELSE t.root[e.equiv].value
Meaning(t, e) == [kind |-> e.eq_type, outer |-> e.outer, of |-> Of(t, e)]

\* The items that the n-th group under way saved of x lie above n boundaries;
\* it will put back what the lowest of them says.
Bounds(st, i) == {j \in 1..i : st[j].info = "boundary"}
SavedBy(st, n, kind, x) ==
    {i \in DOMAIN st : st[i].info = kind /\ st[i].q = x /\ Cardinality(Bounds(st, i)) = n}
FirstSaved(st, n, kind, x) == st[Min(SavedBy(st, n, kind, x))].value
GroupFrame(t, st, n) ==
    [kind      |-> "group",
     symbols   |-> [q \in {q \in Symbols : SavedBy(st, n, "symbol", q) # {}} |->
                       Meaning(t, FirstSaved(st, n, "symbol", q))],
     internals |-> [i \in {i \in Internals : SavedBy(st, n, "internal", i) # {}} |->
                       FirstSaved(st, n, "internal", i)]]

GroupsIn(c, n) == {i \in 1..n : c[i].kind = "group"}
CallFrame(t, st, c, n) ==
    IF c[n].kind = "group" THEN GroupFrame(t, st, Cardinality(GroupsIn(c, n)))
    ELSE [kind |-> c[n].kind, body |-> Body(t, c[n].m)]

Abstract ==
    [env      |-> [q \in Symbols |-> Meaning(tab, tab.eqtb[q])],
     internal |-> internal,
     calls    |-> [n \in DOMAIN calls |-> CallFrame(tab, save_ptr, calls, n)],
     input    |-> [n \in DOMAIN input |-> Body(tab, input[n])]]

G == INSTANCE Groups WITH state <- Abstract

\* A group gives every saved symbol and quantity the meaning it had when the
\* group first saved it, variables with their values and vardefs included,
\* however often it was saved, redefined, declared or let meanwhile; nothing
\* else changes a meaning, and a macro under way keeps its text.
GroupsSpec == G!Spec
=============================================================================
