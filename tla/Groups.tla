-------------------------------- MODULE Groups ------------------------------
(***************************************************************************)
(* What groups promise (mf.web 5552-5594): begingroup ... endgroup puts    *)
(* back the meanings and the internal quantities that were saved since the *)
(* group began, whatever was done to them in between; a macro that is      *)
(* being called or read keeps its text, whatever becomes of its name.      *)
(***************************************************************************)
EXTENDS Sequences, SequencesExt
CONSTANTS Symbols, Internals, IntValues, Bodies, HeldBodies

VARIABLE state
\* [env      |-> the meaning of every symbol,
\*  internal |-> the values of the internal quantities allotted so far,
\*  calls    |-> the routines under way: groups with what they saved, macros
\*               held for a later call, macros whose arguments are scanned,
\*  input    |-> the replacement texts being read]

Undefined == [kind |-> "tag", outer |-> FALSE, of |-> "none"]
Macro(b)  == [kind |-> "macro", outer |-> FALSE, of |-> b]
NewGroup  == [kind |-> "group", symbols |-> [q \in {} |-> Undefined], internals |-> [i \in {} |-> 0]]

\* f, and the value v of x where f has none; f with the values that g gives instead.
Remember(f, x, v) ==
    IF x \in DOMAIN f THEN f
    ELSE [y \in DOMAIN f \cup {x} |-> IF y = x THEN v ELSE f[y]]
Over(g, f) == [x \in DOMAIN f |-> IF x \in DOMAIN g THEN g[x] ELSE f[x]]

\* Statements are obeyed by a group or, when nothing is under way, at top level.
Obeying(c) == c = <<>> \/ Last(c).kind = "group"

\* What one statement can make of the meaning of q: a definition, a variable
\* (with a value or a vardef), the meaning of another symbol, a protection.
NewMeanings(env, q) ==
    {Undefined} \cup {Macro(b) : b \in Bodies}
    \cup {[kind |-> "tag", outer |-> env[q].kind = "tag" /\ env[q].outer, of |-> v]
             : v \in {"plain"} \cup Bodies}
    \cup {IF env[p].kind = "tag" THEN Undefined ELSE [env[p] EXCEPT !.outer = FALSE]
             : p \in Symbols}
    \cup {[env[q] EXCEPT !.outer = o] : o \in BOOLEAN}

\* A statement gives a meaning, allots an internal quantity or assigns to one.
Binds(s, t) ==
    \/ /\ t.internal = s.internal
       /\ \E q \in Symbols : /\ t.env[q] \in NewMeanings(s.env, q)
                             /\ t.env = [s.env EXCEPT ![q] = t.env[q]]
    \/ \E q \in Symbols, i \in Internals \ DOMAIN s.internal :
          /\ t.env = [s.env EXCEPT ![q] = [kind |-> "internal", outer |-> FALSE, of |-> i]]
          /\ t.internal = Remember(s.internal, i, 0)
    \/ /\ t.env = s.env
       /\ \E i \in DOMAIN s.internal : t.internal = [s.internal EXCEPT ![i] = t.internal[i]]

\* The innermost group remembers what it has not yet remembered; outside all
\* groups a symbol just loses its meaning.
Saves(s, t) ==
    LET n == Len(s.calls) IN
    /\ n > 0 /\ t.internal = s.internal
    /\ \/ \E q \in Symbols :
             /\ t.env = [s.env EXCEPT ![q] = Undefined]
             /\ t.calls = [s.calls EXCEPT ![n].symbols = Remember(@, q, s.env[q])]
       \/ \E i \in DOMAIN s.internal :
             /\ t.env = s.env
             /\ t.calls = [s.calls EXCEPT ![n].internals = Remember(@, i, s.internal[i])]

EndsGroup(s, t) ==
    LET g == Last(s.calls) IN
    /\ t.env = Over(g.symbols, s.env) /\ t.internal = Over(g.internals, s.internal)
    /\ t.calls = Front(s.calls)

\* A macro that some symbol means is called, or held for a call.
Calls(s, t) ==
    \E q \in Symbols : LET b == s.env[q].of IN
       b \in Bodies /\ t.calls = Append(s.calls, [kind |-> IF b \in HeldBodies THEN "held" ELSE "args",
                                                  body |-> b])

\* Its text goes to the input, where depleted texts may make room for it.
Feeds(s, t) ==
    /\ t.calls = Front(s.calls)
    /\ \E k \in 0..Len(s.input) :
          t.input = Append(SubSeq(s.input, 1, k), Last(s.calls).body)

Init == state = [env      |-> [q \in Symbols |-> Undefined],
                 internal |-> [i \in {} |-> 0], calls |-> <<>>, input |-> <<>>]

Step(s, t) ==
    LET top == IF s.calls = <<>> THEN "none" ELSE Last(s.calls).kind IN
    \/ /\ t.input = s.input /\ Obeying(s.calls)
       /\ \/ t.calls = s.calls /\ Binds(s, t)
          \/ Saves(s, t)
    \/ t.input = s.input /\ top = "group" /\ EndsGroup(s, t)
    \/ /\ t.env = s.env /\ t.internal = s.internal
       /\ \/ t.input = s.input /\ t.calls = Append(s.calls, NewGroup)
          \/ t.input = s.input /\ Calls(s, t)
          \/ /\ t.input = s.input /\ top = "held"
             /\ t.calls = [s.calls EXCEPT ![Len(s.calls)].kind = "args"]
          \/ top = "args" /\ Feeds(s, t)
          \/ t.calls = s.calls /\ s.input # <<>> /\ t.input = Front(s.input)

Next == \E s \in {state}, t \in {state'} : Step(s, t)
Spec == Init /\ [][Next]_state
=============================================================================
