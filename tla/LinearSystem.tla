----------------------------- MODULE LinearSystem ----------------------------
(***************************************************************************)
(* What the dependency lists promise: the numeric variables, the current   *)
(* expression and the operands put aside are unknowns of a linear system,  *)
(* and the program keeps its set of solutions.  An equation leaves out the *)
(* solutions in which its sides differ (unless none is left: then it is    *)
(* reported and ignored); everything else acts on each solution by itself. *)
(***************************************************************************)
EXTENDS Integers, FiniteSets

CONSTANTS Variables, MaxSaved, F, Plus(_, _), Minus(_, _), Product(_, _)

VARIABLES
    solutions,      \* values of the variables, of cur (0) and of operands 1..depth
    depth,          \* how many operands wait
    full            \* is there a current expression?

vars == <<solutions, depth, full>>
Slot == Variables \cup 0..MaxSaved

\* Empty slots are held at 0.
Set(S, i, v(_)) == {[f EXCEPT ![i] = v(f)] : f \in S}
Zero(f) == 0
Any(S, i) == UNION {{[f EXCEPT ![i] = v] : v \in F} : f \in S}
Determined(S, i) == Cardinality({f[i] : f \in S}) = 1

Init ==
    /\ solutions = {f \in [Slot -> F] : \A i \in 0..MaxSaved : f[i] = 0}
    /\ depth = 0 /\ full = FALSE

\* The right operand is cur, the left one the operand put aside last.
Combined(v(_)) == Set(Set(solutions, 0, v), depth, Zero)

Pushed(s, t) ==
    /\ ~t.full /\ t.depth = s.depth + 1
    /\ LET top(f) == f[0]
       IN  t.solutions = Set(Set(s.solutions, t.depth, top), 0, Zero)

Loaded(s, t) ==
    /\ t.full /\ t.depth = s.depth
    /\ \/ \E x \in Variables :
             LET of(f) == f[x] IN t.solutions = Set(s.solutions, 0, of)
       \/ \E c \in F : LET of(f) == c IN t.solutions = Set(s.solutions, 0, of)

Renewed(s, t) ==
    /\ ~t.full /\ t.depth = s.depth
    /\ \E x \in Variables : t.solutions = Any(s.solutions, x)

Operated(s, t) ==
    /\ t.full /\ t.depth = s.depth - 1
    /\ LET n == s.depth
           sum(f) == Plus(f[n], f[0])
           difference(f) == Minus(f[n], f[0])
           product(f) == Product(f[n], f[0])
           same(f) == f[0]
           linear == Determined(s.solutions, 0) \/ Determined(s.solutions, n)
           equal == {f \in s.solutions : f[n] = f[0]}
           To(S, v(_)) == t.solutions = Set(Set(S, 0, v), n, Zero)
       IN  \/ To(s.solutions, sum)
           \/ To(s.solutions, difference)
           \/ linear /\ To(s.solutions, product)
           \/ ~linear /\ To(s.solutions, same)             \* "Not implemented"
           \/ IF equal = {} THEN To(s.solutions, same) ELSE To(equal, same)

Assigned(s, t) ==
    /\ t.full /\ t.depth = s.depth
    /\ \E x \in Variables :
          LET of(f) == f[0] IN t.solutions = Set(s.solutions, x, of)

Dropped(s, t) ==
    ~t.full /\ t.depth = s.depth /\ t.solutions = Set(s.solutions, 0, Zero)

Step(s, t) ==
    IF s.full THEN Pushed(s, t) \/ Operated(s, t) \/ Assigned(s, t) \/ Dropped(s, t)
    ELSE Loaded(s, t) \/ Renewed(s, t)

state == [solutions |-> solutions, depth |-> depth, full |-> full]

Next == \E s \in {state}, t \in {state'} : Step(s, t)

Spec == Init /\ [][Next]_vars
=============================================================================
