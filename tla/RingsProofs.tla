----------------------------- MODULE RingsProofs -----------------------------
(***************************************************************************)
(* Proofs about rings of unknown quantities and the references to strings, *)
(* for all sets of variables, capsules and values and every bound.         *)
(***************************************************************************)
EXTENDS Rings, FiniteSetTheorems, WellFoundedInduction, TLAPS

-----------------------------------------------------------------------------
(* The invariant.                                                          *)

known_types == {"boolean", "string"}
Tags == {"undefined", "free", "vacuous"} \cup known_types \cup unknown_types

Typed(t, v) ==
    /\ t \in [Node -> Tags]
    /\ v = [n \in Node |-> v[n]]
    /\ \A n \in Node : t[n] = "boolean" => v[n] \in Values
    /\ \A n \in Node : t[n] = "string" => v[n] \in Nat

\* A heap is a record of three functions.
IsHeap(h) == h = [type |-> h.type, value |-> h.value, pool |-> h.pool]

\* The next one in the ring of n, if n is of an unknown type.
Behind(v, n) == IF v[n] = null THEN n ELSE v[n]

\* The value fields permute the unknown quantities of a type, and a capsule is
\* always in a ring.
Linked(t, v) ==
    \A n \in Node : t[n] \in unknown_types =>
        /\ Behind(v, n) \in Node /\ t[Behind(v, n)] = t[n]
        /\ n \in Capsules => v[n] # null
        /\ \A m \in Node : t[m] \in unknown_types /\ Behind(v, m) = Behind(v, n) => m = n

\* The references to strings: those of nodes, and x[s] others to s.
Users(t, v, s) == {n \in Node : t[n] = "string" /\ v[n] = s}
Total(t, v, x) == [s \in Nat |-> Cardinality(Users(t, v, s)) + x[s]]

Tallies == [Nat -> Nat]
Nobody == [s \in Nat |-> 0]
Plus(x, t, s) == IF t = "string" THEN [x EXCEPT ![s] = @ + 1] ELSE x

\* The pool pl counts the references N.
Counts(pl, N) ==
    /\ pl \in Seq([chars : Values, ref : Nat])
    /\ \A s \in DOMAIN pl : pl[s].ref = max_str_ref \/ pl[s].ref = N[s]
    /\ \A s \in Nat : N[s] # 0 => s \in DOMAIN pl
    /\ pl # <<>> => pl[Len(pl)].ref # 0

HeapOK(h, x) ==
    /\ IsHeap(h) /\ x \in Tallies
    /\ Typed(h.type, h.value) /\ Linked(h.type, h.value)
    /\ Counts(h.pool, Total(h.type, h.value, x))

\* The current expression, and what is put aside.
CurRight(t, ct, ce) ==
    /\ ct \in {"vacuous"} \cup known_types \cup unknown_types
    /\ ct = "boolean" => ce \in Values
    /\ ct = "string" => ce \in Nat
    /\ ct \in unknown_types => ce \in Capsules /\ t[ce] = ct

Aside(sv) == {sv[i][2] : i \in DOMAIN sv}
SavedRight(sv, ct, ce) ==
    /\ sv \in Seq({"lhs", "expr"} \X Capsules)
    /\ \A i, j \in DOMAIN sv : sv[i][2] = sv[j][2] => i = j
    /\ ct \in unknown_types => ce \notin Aside(sv)

Owned(sv, ct, ce) == Aside(sv) \cup (IF ct \in unknown_types THEN {ce} ELSE {})
Allotted(t, O) ==
    /\ \A n \in Variables : t[n] \notin {"free", "vacuous"}
    /\ \A c \in Capsules : IF c \in O THEN t[c] \in known_types \cup unknown_types
                           ELSE t[c] = "free"

RInv ==
    /\ HeapOK(heap, Plus(Nobody, cur_type, cur_exp))
    /\ CurRight(type, cur_type, cur_exp)
    /\ SavedRight(saved, cur_type, cur_exp)
    /\ Allotted(type, Owned(saved, cur_type, cur_exp))

-----------------------------------------------------------------------------
(* Induction on natural numbers, for a set.                                *)

Less == {x \in Nat \X Nat : x[1] < x[2]}

\* There is no infinite descent in the natural numbers.
LEMMA LessWellFounded == IsWellFoundedOn(Less, Nat)
<1>1. OpToRel(<, Nat) = Less
  BY DEF OpToRel, Less
<1> QED BY <1>1, NatLessThanWellFounded

\* A set with 0 and the successors of its members has every natural number.
LEMMA NatSetInduction ==
  ASSUME NEW S, 0 \in S, \A j \in Nat : j \in S => j + 1 \in S
  PROVE  Nat \subseteq S
<1> SUFFICES ASSUME Nat \ S # {} PROVE FALSE
  OBVIOUS
<1>1. PICK x \in Nat \ S : \A y \in Nat \ S : <<y, x>> \notin Less
  <2>1. Nat \ S \subseteq Nat
    OBVIOUS
  <2> QED BY <2>1, LessWellFounded, WFMin
<1>2. x - 1 \in Nat /\ x - 1 < x
  BY <1>1
<1>3. x - 1 \in S
  <2>1. <<x - 1, x>> \in Less
    BY <1>1, <1>2 DEF Less
  <2> QED BY <1>1, <1>2, <2>1
<1>4. (x - 1) + 1 \in S
  BY <1>2, <1>3
<1> QED BY <1>1, <1>4

-----------------------------------------------------------------------------
(* The walk around a ring.                                                 *)

Stop(c, v, p, i)    == IF i = 0 THEN p ELSE Behind(v, c[i - 1])
IsWalk(c, v, p, M)  == c = [i \in 0..M |-> Stop(c, v, p, i)]

\* What the stops are.
LEMMA WalkAt ==
  ASSUME NEW v, NEW p, NEW M, NEW c, IsWalk(c, v, p, M), NEW i \in 0..M
  PROVE  c[i] = Stop(c, v, p, i)
BY Zenon DEF IsWalk

\* The walk is defined.
LEMMA WalkDefined ==
  ASSUME NEW v, NEW p, NEW M \in Nat
  PROVE  \E c : IsWalk(c, v, p, M)
<1> DEFINE S == {m \in Nat : \E c : IsWalk(c, v, p, m)}
<1>1. 0 \in S
  <2> DEFINE f == [i \in 0..0 |-> p]
  <2>1. f = [i \in 0..0 |-> Stop(f, v, p, i)]
    BY DEF Stop
  <2> QED BY <2>1 DEF IsWalk
<1>2. \A m \in Nat : m \in S => m + 1 \in S
  <2> TAKE m \in Nat
  <2> HAVE m \in S
  <2>1. PICK c : IsWalk(c, v, p, m)
    OBVIOUS
  <2> DEFINE f == [i \in 0..(m + 1) |-> IF i <= m THEN c[i] ELSE Stop(c, v, p, i)]
  <2>2. ASSUME NEW i \in 0..(m + 1) PROVE f[i] = Stop(f, v, p, i)
    <3>1. \A k \in 0..m : f[k] = c[k]
      OBVIOUS
    <3>2. i # 0 => i - 1 \in 0..m
      OBVIOUS
    <3>3. f[i] = Stop(c, v, p, i)
      <4>1. CASE i <= m
        <5>1. i \in 0..m /\ f[i] = c[i]
          BY <4>1
        <5> QED BY <2>1, <5>1, WalkAt
      <4>2. CASE ~(i <= m)
        BY <4>2
      <4> QED BY <4>1, <4>2
    <3> HIDE DEF f
    <3>4. Stop(f, v, p, i) = Stop(c, v, p, i)
      BY <3>1, <3>2 DEF Stop
    <3> QED BY <3>3, <3>4
  <2>3. f = [i \in 0..(m + 1) |-> f[i]]
    OBVIOUS
  <2> HIDE DEF f
  <2>4. f = [i \in 0..(m + 1) |-> Stop(f, v, p, i)]
    BY <2>2, <2>3
  <2> QED BY <2>4 DEF IsWalk
<1> HIDE DEF S
<1>3. M \in S
  BY <1>1, <1>2, NatSetInduction
<1> QED BY <1>3 DEF S

\* v permutes U.
Permutes(v, U) ==
    /\ \A n \in U : Behind(v, n) \in U
    /\ \A m, n \in U : Behind(v, m) = Behind(v, n) => m = n

Closed(v, W) == \A n \in W : Behind(v, n) \in W

\* R is the cycle of p.
Cycle(v, R, p) ==
    /\ p \in R /\ Closed(v, R)
    /\ \A n \in R : \E m \in R : Behind(v, m) = n
    /\ \A W : p \in W /\ Closed(v, W) => R \subseteq W

\* A walk stays in every closed set that has its first stop.
LEMMA WalkIn ==
  ASSUME NEW v, NEW p, NEW M \in Nat, NEW c, IsWalk(c, v, p, M), NEW W, p \in W, Closed(v, W)
  PROVE  \A i \in 0..M : c[i] \in W
<1> DEFINE S == {i \in Nat : i <= M => c[i] \in W}
<1>1. 0 \in S
  <2>1. c[0] = Stop(c, v, p, 0)
    BY WalkAt
  <2> QED BY <2>1 DEF Stop
<1>2. \A i \in Nat : i \in S => i + 1 \in S
  <2> SUFFICES ASSUME NEW i \in Nat, i \in S, i + 1 <= M PROVE c[i + 1] \in W
    OBVIOUS
  <2>1. i + 1 \in 0..M /\ i + 1 # 0 /\ (i + 1) - 1 = i /\ i <= M
    OBVIOUS
  <2>2. c[i + 1] = Behind(v, c[i])
    <3>1. c[i + 1] = Stop(c, v, p, i + 1)
      BY <2>1, WalkAt
    <3> QED BY <2>1, <3>1 DEF Stop
  <2> QED BY <2>1, <2>2 DEF Closed
<1> HIDE DEF S
<1>3. Nat \subseteq S
  BY <1>1, <1>2, NatSetInduction
<1> QED BY <1>3 DEF S

\* Two equal stops: the same number of steps before them the stops were equal.
LEMMA WalkBack ==
  ASSUME NEW v, NEW p, NEW M \in Nat, NEW c, IsWalk(c, v, p, M), NEW U, p \in U, Permutes(v, U),
         NEW i \in 0..M, NEW j \in 0..M, i < j, c[i] = c[j]
  PROVE  c[0] = c[j - i]
<1> DEFINE S == {d \in Nat : d <= i => c[i - d] = c[j - d]}
<1>0. \A k \in 0..M : c[k] \in U
  BY WalkIn DEF Permutes, Closed
<1>1. 0 \in S
  OBVIOUS
<1>2. \A d \in Nat : d \in S => d + 1 \in S
  <2> SUFFICES ASSUME NEW d \in Nat, d \in S, d + 1 <= i PROVE c[i - (d + 1)] = c[j - (d + 1)]
    OBVIOUS
  <2> DEFINE a == i - (d + 1)  b == j - (d + 1)
  <2>1. a \in 0..M /\ b \in 0..M /\ a + 1 = i - d /\ b + 1 = j - d /\ a + 1 \in 0..M /\ b + 1 \in 0..M
        /\ a + 1 # 0 /\ b + 1 # 0 /\ (a + 1) - 1 = a /\ (b + 1) - 1 = b /\ d <= i
    OBVIOUS
  <2>2. c[i - d] = c[j - d]
    BY <2>1
  <2> HIDE DEF a, b
  <2>3. c[a + 1] = Behind(v, c[a])
    <3>1. c[a + 1] = Stop(c, v, p, a + 1)
      BY <2>1, WalkAt
    <3> QED BY <2>1, <3>1 DEF Stop
  <2>4. c[b + 1] = Behind(v, c[b])
    <3>1. c[b + 1] = Stop(c, v, p, b + 1)
      BY <2>1, WalkAt
    <3> QED BY <2>1, <3>1 DEF Stop
  <2>5. Behind(v, c[a]) = Behind(v, c[b])
    BY <2>1, <2>2, <2>3, <2>4
  <2>6. c[a] \in U /\ c[b] \in U
    BY <1>0, <2>1
  <2>7. c[a] = c[b]
    BY <2>5, <2>6 DEF Permutes
  <2> QED BY <2>7 DEF a, b
<1> HIDE DEF S
<1>3. i \in S
  BY <1>1, <1>2, NatSetInduction
<1> QED BY <1>3 DEF S

\* After as many steps as there are nodes the walk has been all around.
LEMMA WalkCycle ==
  ASSUME NEW v, NEW p, NEW M \in Nat, NEW c, IsWalk(c, v, p, M), NEW U, p \in U, Permutes(v, U),
         IsFiniteSet(U), Cardinality(U) <= M
  PROVE  Cycle(v, {c[i] : i \in 0..M}, p)
<1> DEFINE R == {c[i] : i \in 0..M}
<1>0. \A k \in 0..M : c[k] \in U
  BY WalkIn DEF Permutes, Closed
<1>1. c[0] = p
  <2>1. c[0] = Stop(c, v, p, 0)
    BY WalkAt
  <2> QED BY <2>1 DEF Stop
<1>2. \A k \in 0..M : k < M => c[k + 1] = Behind(v, c[k])
  <2> SUFFICES ASSUME NEW k \in 0..M, k < M PROVE c[k + 1] = Behind(v, c[k])
    OBVIOUS
  <2>1. k + 1 \in 0..M /\ k + 1 # 0 /\ (k + 1) - 1 = k
    OBVIOUS
  <2>2. c[k + 1] = Stop(c, v, p, k + 1)
    BY <2>1, WalkAt
  <2> QED BY <2>1, <2>2 DEF Stop
<1>3. \E i, j \in 0..M : i < j /\ c[i] = c[j]
  <2>1. IsFiniteSet(0..M) /\ Cardinality(0..M) = M + 1
    BY FS_Interval
  <2>2. Cardinality(U) \in Nat
    BY FS_CardinalityType
  <2> DEFINE T == 0..M  f == [k \in T |-> c[k]]
  <2>3. f \in [T -> U]
    BY <1>0
  <2>4. IsFiniteSet(T) /\ Cardinality(U) < Cardinality(T)
    BY <2>1, <2>2
  <2>4a. \A k \in T : f[k] = c[k]
    OBVIOUS
  <2> HIDE DEF f, T
  <2>5. \E a, b \in T : a # b /\ f[a] = f[b]
    BY ONLY <2>3, <2>4, IsFiniteSet(U), FS_PigeonHole
  <2>6. PICK a, b \in T : a # b /\ f[a] = f[b]
    BY <2>5
  <2>7. c[a] = c[b] /\ a \in 0..M /\ b \in 0..M /\ (a < b \/ b < a)
    BY <2>4a, <2>6 DEF T
  <2> QED BY <2>7
<1>4. PICK k \in 1..M : c[0] = c[k]
  <2>1. PICK i, j \in 0..M : i < j /\ c[i] = c[j]
    BY <1>3
  <2>2. c[0] = c[j - i]
    BY ONLY <2>1, i \in 0..M, j \in 0..M, M \in Nat, IsWalk(c, v, p, M), p \in U, Permutes(v, U), WalkBack
  <2> QED BY <2>1, <2>2
<1>5. c[M] = c[M - k]
  <2> DEFINE S == {d \in Nat : d + k <= M => c[d] = c[d + k]}
  <2>1. 0 \in S
    BY <1>4
  <2>2. \A d \in Nat : d \in S => d + 1 \in S
    <3> SUFFICES ASSUME NEW d \in Nat, d \in S, (d + 1) + k <= M PROVE c[d + 1] = c[(d + 1) + k]
      OBVIOUS
    <3>1. d \in 0..M /\ d < M /\ d + k \in 0..M /\ d + k < M /\ (d + 1) + k = (d + k) + 1
      OBVIOUS
    <3>2. c[d] = c[d + k]
      BY <3>1
    <3> QED BY <1>2, <3>1, <3>2
  <2> HIDE DEF S
  <2>3. M - k \in S
    BY <2>1, <2>2, NatSetInduction
  <2>4. (M - k) + k = M
    OBVIOUS
  <2> QED BY <2>3, <2>4 DEF S
<1>6. p \in R
  BY <1>1
<1>7. Closed(v, R)
  <2> SUFFICES ASSUME NEW i \in 0..M PROVE \E e \in 0..M : Behind(v, c[i]) = c[e]
    BY DEF Closed
  <2>1. CASE i < M
    BY <1>2, <2>1
  <2>2. CASE i = M
    <3>1. M - k \in 0..M /\ M - k < M /\ (M - k) + 1 \in 0..M
      OBVIOUS
    <3> QED BY <1>2, <1>5, <2>2, <3>1
  <2> QED BY <2>1, <2>2
<1>8. \A n \in R : \E m \in R : Behind(v, m) = n
  <2> SUFFICES ASSUME NEW i \in 0..M PROVE \E e \in 0..M : Behind(v, c[e]) = c[i]
    OBVIOUS
  <2> DEFINE e == IF i = 0 THEN k - 1 ELSE i - 1
  <2>1. e \in 0..M /\ e < M /\ c[e + 1] = c[i]
    BY <1>4
  <2> QED BY <1>2, <2>1
<1>9. \A W : p \in W /\ Closed(v, W) => R \subseteq W
  BY WalkIn
<1> HIDE DEF R
<1>10. Cycle(v, R, p)
  BY <1>6, <1>7, <1>8, <1>9 DEF Cycle
<1> QED BY <1>10 DEF R

-----------------------------------------------------------------------------
(* Rings are cycles of the value fields.                                   *)

\* The cycle of a member is the cycle.
LEMMA CycleSame ==
  ASSUME NEW v, NEW R, NEW p, Cycle(v, R, p), NEW Q, NEW q, Cycle(v, Q, q), q \in R,
         \A m, n \in R : Behind(v, m) = Behind(v, n) => m = n
  PROVE  Q = R
<1>1. Q \subseteq R
  BY DEF Cycle
<1>2. p \in Q
  <2> SUFFICES ASSUME p \notin Q PROVE FALSE
    OBVIOUS
  <2> DEFINE W == R \ Q
  <2>1. p \in W
    BY DEF Cycle
  <2>2. Closed(v, W)
    <3> SUFFICES ASSUME NEW n \in W PROVE Behind(v, n) \in W
      BY DEF Closed
    <3>1. Behind(v, n) \in R
      BY DEF Cycle, Closed
    <3>2. Behind(v, n) \notin Q
      <4> SUFFICES ASSUME Behind(v, n) \in Q PROVE FALSE
        OBVIOUS
      <4>1. PICK m \in Q : Behind(v, m) = Behind(v, n)
        BY DEF Cycle
      <4> QED BY <1>1, <4>1
    <3> QED BY <3>1, <3>2
  <2> HIDE DEF W
  <2>3. R \subseteq W
    BY <2>1, <2>2 DEF Cycle
  <2> QED BY <2>3 DEF W, Cycle
<1>3. R \subseteq Q
  BY <1>2 DEF Cycle
<1> QED BY <1>1, <1>3

\* The quantities of the type of p.
Kin(t, p) == {n \in Node : t[n] = t[p]}

\* The value fields permute the quantities of an unknown type.
LEMMA KinPermuted ==
  ASSUME NEW t, NEW v, Linked(t, v), NEW p \in Node, t[p] \in unknown_types
  PROVE  Permutes(v, Kin(t, p)) /\ p \in Kin(t, p)
<1>1. \A n \in Kin(t, p) : n \in Node /\ t[n] \in unknown_types
  BY DEF Kin
<1>2. \A n \in Kin(t, p) : Behind(v, n) \in Kin(t, p)
  BY <1>1 DEF Kin, Linked
<1>3. \A m, n \in Kin(t, p) : Behind(v, m) = Behind(v, n) => m = n
  BY <1>1 DEF Linked
<1> QED BY <1>2, <1>3 DEF Permutes, Kin

\* There are finitely many nodes.
LEMMA NodesFinite == IsFiniteSet(Node) /\ Cardinality(Node) \in Nat
<1>1. IsFiniteSet(Node)
  BY RingsAssumption, FS_Union DEF Node
<1> QED BY <1>1, FS_CardinalityType

\* The ring of an unknown quantity is its cycle, all of its type.
LEMMA RingIs ==
  ASSUME NEW h, Linked(h.type, h.value), NEW p \in Node, h.type[p] \in unknown_types
  PROVE  /\ Cycle(h.value, Ring(h, p), p)
         /\ Ring(h, p) \subseteq Kin(h.type, p)
<1> DEFINE v == h.value  M == Cardinality(Node)  U == Kin(h.type, p)
           c == CHOOSE f : f = [i \in 0..M |-> IF i = 0 THEN p ELSE Neighbour(h, f[i - 1])]
<1>1. M \in Nat
  BY NodesFinite
<1>2. Ring(h, p) = {c[i] : i \in 0..M}
  BY DEF Ring
<1>3. c = [i \in 0..M |-> IF i = 0 THEN p ELSE Neighbour(h, c[i - 1])]
  <2>1. \A f : IsWalk(f, v, p, M) <=>
                  f = [i \in 0..M |-> IF i = 0 THEN p ELSE Neighbour(h, f[i - 1])]
    BY DEF IsWalk, Stop, Behind, Neighbour
  <2>2. PICK f : IsWalk(f, v, p, M)
    BY <1>1, WalkDefined
  <2> HIDE DEF M, v
  <2>3. f = [i \in 0..M |-> IF i = 0 THEN p ELSE Neighbour(h, f[i - 1])]
    BY <2>1, <2>2
  <2> QED BY <2>3
<1> HIDE DEF c
<1>4. IsWalk(c, v, p, M)
  BY <1>3 DEF IsWalk, Stop, Behind, Neighbour
<1>5. Permutes(v, U) /\ p \in U
  BY KinPermuted
<1>6. IsFiniteSet(U) /\ Cardinality(U) <= M
  <2>1. U \in SUBSET Node
    BY DEF Kin
  <2> HIDE DEF U
  <2> QED BY <2>1, NodesFinite, FS_Subset
<1> HIDE DEF M, v, U
<1>7. Cycle(v, {c[i] : i \in 0..M}, p)
  BY ONLY <1>1, <1>4, <1>5, <1>6, WalkCycle
<1>8. Closed(v, U)
  BY <1>5 DEF Permutes, Closed
<1>9. \A i \in 0..M : c[i] \in U
  BY ONLY <1>1, <1>4, <1>5, <1>8, WalkIn
<1> QED BY <1>2, <1>7, <1>9 DEF v, U

\* A member has the same ring.
LEMMA RingSame ==
  ASSUME NEW h, Linked(h.type, h.value), NEW p \in Node, h.type[p] \in unknown_types,
         NEW q \in Ring(h, p)
  PROVE  /\ q \in Node /\ h.type[q] = h.type[p]
         /\ Ring(h, q) = Ring(h, p)
<1>1. Cycle(h.value, Ring(h, p), p) /\ Ring(h, p) \subseteq Kin(h.type, p)
  BY RingIs
<1>2. q \in Node /\ h.type[q] = h.type[p]
  BY <1>1 DEF Kin
<1>3. Cycle(h.value, Ring(h, q), q)
  BY <1>2, RingIs
<1>4. \A m, n \in Ring(h, p) : Behind(h.value, m) = Behind(h.value, n) => m = n
  BY <1>1, KinPermuted DEF Permutes
<1> DEFINE R == Ring(h, p)  Q == Ring(h, q)  v == h.value
<1> HIDE DEF R, Q, v
<1>5. Cycle(v, R, p) /\ Cycle(v, Q, q) /\ q \in R
      /\ \A m, n \in R : Behind(v, m) = Behind(v, n) => m = n
  BY <1>1, <1>3, <1>4 DEF R, Q, v
<1>6. Q = R
  BY ONLY <1>5, CycleSame
<1> QED BY <1>2, <1>6 DEF R, Q

\* Who stands next to a member on either side is a member.
LEMMA RingMembers ==
  ASSUME NEW h, Linked(h.type, h.value), NEW p \in Node, h.type[p] \in unknown_types
  PROVE  /\ p \in Ring(h, p) /\ IsFiniteSet(Ring(h, p))
         /\ \A n \in Ring(h, p) :
               n \in Node /\ h.type[n] = h.type[p] /\ Behind(h.value, n) \in Ring(h, p)
         /\ \A n \in Node : h.type[n] \in unknown_types /\ Behind(h.value, n) \in Ring(h, p)
                               => n \in Ring(h, p)
         /\ \E n \in Ring(h, p) : Behind(h.value, n) = p
<1>1. Cycle(h.value, Ring(h, p), p) /\ Ring(h, p) \subseteq Kin(h.type, p)
  BY RingIs
<1>2. p \in Ring(h, p) /\ \E n \in Ring(h, p) : Behind(h.value, n) = p
  BY <1>1 DEF Cycle
<1>3. IsFiniteSet(Ring(h, p))
  <2>1. Ring(h, p) \in SUBSET Node
    BY <1>1 DEF Kin
  <2> QED BY <2>1, NodesFinite, FS_Subset
<1>4. \A n \in Ring(h, p) :
         n \in Node /\ h.type[n] = h.type[p] /\ Behind(h.value, n) \in Ring(h, p)
  BY <1>1 DEF Cycle, Closed, Kin
<1>5. ASSUME NEW n \in Node, h.type[n] \in unknown_types, Behind(h.value, n) \in Ring(h, p)
      PROVE n \in Ring(h, p)
  <2>1. PICK m \in Ring(h, p) : Behind(h.value, m) = Behind(h.value, n)
    BY <1>1, <1>5 DEF Cycle
  <2>2. m \in Node /\ h.type[m] \in unknown_types
    BY <1>4
  <2>3. m = n
    BY <1>5, <2>1, <2>2 DEF Linked
  <2> QED BY <2>3
<1> QED BY <1>2, <1>3, <1>4, <1>5

-----------------------------------------------------------------------------
(* The string pool.                                                        *)

\* What strings say is the same in both pools.
SameSaid(pl, ql) == \A r \in DOMAIN pl \cap DOMAIN ql : ql[r].chars = pl[r].chars

\* A bounded set of numbers has a largest one.
LEMMA LargestIs ==
  ASSUME NEW n \in Nat, NEW S \in SUBSET (1..n), S # {}
  PROVE  Max(S) \in S /\ \A y \in S : y <= Max(S)
<1> DEFINE B == {b \in Nat : \A y \in S : y <= b}
<1>1. PICK b \in B : \A a \in B : <<a, b>> \notin Less
  <2>1. B \subseteq Nat /\ n \in B
    OBVIOUS
  <2> HIDE DEF B
  <2> QED BY <2>1, LessWellFounded, WFMin
<1>2. b \in S
  <2> SUFFICES ASSUME b \notin S PROVE FALSE
    OBVIOUS
  <2>0. b \in Nat /\ \A y \in S : y \in Nat /\ y >= 1 /\ y <= b /\ y # b
    BY <1>1
  <2>0a. PICK z \in S : TRUE
    OBVIOUS
  <2>0b. b - 1 \in Nat
    BY ONLY <2>0, <2>0a
  <2>1. b - 1 \in Nat /\ \A y \in S : y <= b - 1
    BY ONLY <2>0, <2>0b
  <2>2. <<b - 1, b>> \in Less
    BY <1>1, <2>1 DEF Less
  <2> QED BY <1>1, <2>1, <2>2
<1>3. \A y \in S : b >= y
  BY <1>1
<1>4. \E m \in S : \A y \in S : m >= y
  BY <1>2, <1>3
<1>5. Max(S) \in S /\ \A y \in S : Max(S) >= y
  BY <1>4 DEF Max
<1> QED BY <1>5

\* Its strings are numbered from 1 on.
LEMMA PoolIs ==
  ASSUME NEW pl \in Seq([chars : Values, ref : Nat])
  PROVE  /\ DOMAIN pl = 1..Len(pl) /\ Len(pl) \in Nat
         /\ \A u \in DOMAIN pl : u \in Nat /\ pl[u] \in [chars : Values, ref : Nat]
                                /\ pl[u].ref \in Nat /\ pl[u].chars \in Values
<1>1. DOMAIN pl = 1..Len(pl) /\ Len(pl) \in Nat
  OBVIOUS
<1>2. \A u \in 1..Len(pl) : u \in Nat /\ pl[u] \in [chars : Values, ref : Nat]
  <2> DEFINE E == [chars : Values, ref : Nat]
  <2>1. pl \in Seq(E)
    OBVIOUS
  <2> HIDE DEF E
  <2>2. \A u \in 1..Len(pl) : pl[u] \in E
    BY ONLY <2>1
  <2> QED BY <1>1, <2>2 DEF E
<1>3. \A r \in [chars : Values, ref : Nat] : r.ref \in Nat /\ r.chars \in Values
  OBVIOUS
<1> QED BY ONLY <1>1, <1>2, <1>3

IsPool(pl) == pl \in Seq([chars : Values, ref : Nat])
WithRef(pl, s, r) == [pl EXCEPT ![s].ref = r]
RefIs(q, pl, s, r) ==
    /\ q \in Seq([chars : Values, ref : Nat]) /\ Len(q) = Len(pl) /\ DOMAIN q = DOMAIN pl
    /\ \A u \in DOMAIN pl : q[u].ref = IF u = s THEN r ELSE pl[u].ref
    /\ SameSaid(pl, q)

\* The pool with one field changed.
LEMMA RefChanged ==
  ASSUME NEW pl, IsPool(pl), NEW s \in DOMAIN pl, NEW r \in Nat
  PROVE  RefIs(WithRef(pl, s, r), pl, s, r)
<1>0. pl \in Seq([chars : Values, ref : Nat])
  BY DEF IsPool
<1> DEFINE e == [pl[s] EXCEPT !.ref = r]
<1>1. pl[s] \in [chars : Values, ref : Nat] /\ DOMAIN pl = 1..Len(pl) /\ Len(pl) \in Nat
  BY <1>0, PoolIs
<1>2. e \in [chars : Values, ref : Nat] /\ e.ref = r /\ e.chars = pl[s].chars
  BY <1>1
<1>3. WithRef(pl, s, r) = [pl EXCEPT ![s] = e]
  BY DEF WithRef
<1> HIDE DEF e
<1> DEFINE q == [pl EXCEPT ![s] = e]
<1>4. q \in Seq([chars : Values, ref : Nat]) /\ Len(q) = Len(pl) /\ DOMAIN q = DOMAIN pl
  BY <1>0, <1>1, <1>2
<1>5. \A u \in DOMAIN pl : q[u] = IF u = s THEN e ELSE pl[u]
  BY <1>0
<1> HIDE DEF q
<1>6. \A u \in DOMAIN pl : q[u].ref = IF u = s THEN r ELSE pl[u].ref
  BY <1>2, <1>5
<1>7. SameSaid(pl, q)
  BY <1>2, <1>4, <1>5 DEF SameSaid
<1> QED BY <1>3, <1>4, <1>6, <1>7 DEF q, RefIs

\* More references to a string.
LEMMA CountsMore ==
  ASSUME NEW pl, NEW N \in Tallies, Counts(pl, N), NEW s \in DOMAIN pl, NEW k \in Nat
  PROVE  /\ Counts(WithRef(pl, s, Least(pl[s].ref + k, max_str_ref)), [N EXCEPT ![s] = @ + k])
         /\ SameSaid(pl, WithRef(pl, s, Least(pl[s].ref + k, max_str_ref)))
         /\ DOMAIN WithRef(pl, s, Least(pl[s].ref + k, max_str_ref)) = DOMAIN pl
<1> DEFINE r == Least(pl[s].ref + k, max_str_ref)
           q == WithRef(pl, s, r)  L == [N EXCEPT ![s] = @ + k]
<1>1. pl \in Seq([chars : Values, ref : Nat]) /\ DOMAIN pl = 1..Len(pl) /\ Len(pl) \in Nat
  BY DEF Counts
<1>2. \A u \in DOMAIN pl : pl[u].ref \in Nat
  <2>1. pl \in Seq([chars : Values, ref : Nat])
    BY <1>1
  <2> QED BY <2>1, PoolIs
<1>3. max_str_ref \in Nat /\ max_str_ref > 1 /\ s \in Nat
  BY <1>1, RingsAssumption
<1>4. r \in Nat /\ (r = max_str_ref \/ r = pl[s].ref + k) /\ (pl[s].ref # 0 => r # 0)
      /\ (pl[s].ref = max_str_ref => r = max_str_ref)
  BY <1>2, <1>3 DEF Least
<1>5. L \in Tallies /\ \A u \in Nat : L[u] = IF u = s THEN N[u] + k ELSE N[u]
  BY <1>3 DEF Tallies
<1> HIDE DEF L, r
<1>6. /\ q \in Seq([chars : Values, ref : Nat]) /\ Len(q) = Len(pl) /\ DOMAIN q = DOMAIN pl
      /\ \A u \in DOMAIN pl : q[u].ref = IF u = s THEN r ELSE pl[u].ref
      /\ SameSaid(pl, q)
  <2>1. IsPool(pl) /\ s \in DOMAIN pl /\ r \in Nat
    BY <1>1, <1>4 DEF IsPool
  <2>2. RefIs(WithRef(pl, s, r), pl, s, r)
    BY ONLY <2>1, RefChanged
  <2> QED BY <2>2 DEF RefIs
<1> HIDE DEF q
<1>7. \A u \in DOMAIN q : q[u].ref = max_str_ref \/ q[u].ref = L[u]
  <2> SUFFICES ASSUME NEW u \in DOMAIN pl PROVE q[u].ref = max_str_ref \/ q[u].ref = L[u]
    BY <1>6
  <2>1. u \in Nat /\ (pl[u].ref = max_str_ref \/ pl[u].ref = N[u])
    BY <1>1 DEF Counts
  <2>2. CASE u = s
    BY <2>1, <2>2, <1>4, <1>5, <1>6
  <2>3. CASE u # s
    BY <2>1, <2>3, <1>5, <1>6
  <2> QED BY <2>2, <2>3
<1>8. \A u \in Nat : L[u] # 0 => u \in DOMAIN q
  <2> SUFFICES ASSUME NEW u \in Nat, L[u] # 0, u # s PROVE u \in DOMAIN pl
    BY <1>6
  <2> QED BY <1>5 DEF Counts
<1>9. q # <<>> => q[Len(q)].ref # 0
  <2> SUFFICES ASSUME q # <<>> PROVE q[Len(q)].ref # 0
    OBVIOUS
  <2>1. pl # <<>> /\ Len(pl) \in DOMAIN pl
    BY <1>1, <1>6
  <2>2. pl[Len(pl)].ref # 0
    BY <2>1 DEF Counts
  <2> QED BY <1>4, <1>6, <2>1, <2>2
<1>10. Counts(q, L)
  BY <1>6, <1>7, <1>8, <1>9 DEF Counts
<1> QED BY <1>6, <1>10 DEF q, L, r

\* A new string.
LEMMA CountsNew ==
  ASSUME NEW pl, NEW N \in Tallies, Counts(pl, N), NEW w \in Values
  PROVE  LET ql == Append(pl, [chars |-> w, ref |-> 1]) IN
         /\ Counts(ql, [N EXCEPT ![Len(pl) + 1] = @ + 1])
         /\ SameSaid(pl, ql) /\ DOMAIN ql = DOMAIN pl \cup {Len(pl) + 1}
         /\ ql[Len(pl) + 1].chars = w /\ N[Len(pl) + 1] = 0 /\ Len(pl) + 1 \in Nat
         /\ \A s \in Nat : N[s] # 0 => s \in DOMAIN pl
<1> DEFINE e == [chars |-> w, ref |-> 1]  n == Len(pl) + 1
           q == Append(pl, e)  L == [N EXCEPT ![n] = @ + 1]
<1>1. pl \in Seq([chars : Values, ref : Nat]) /\ DOMAIN pl = 1..Len(pl) /\ Len(pl) \in Nat
  BY DEF Counts
<1>2. n \in Nat /\ n \notin DOMAIN pl /\ N[n] = 0
  <2>1. n \in Nat /\ n \notin DOMAIN pl
    BY <1>1
  <2> HIDE DEF n
  <2> QED BY <2>1 DEF Counts
<1>3. \A u \in Nat : L[u] = IF u = n THEN 1 ELSE N[u]
  BY <1>2 DEF Tallies
<1>4. e \in [chars : Values, ref : Nat] /\ e.chars = w /\ e.ref = 1
  OBVIOUS
<1> HIDE DEF e
<1>5. /\ q \in Seq([chars : Values, ref : Nat]) /\ Len(q) = n /\ DOMAIN q = 1..n /\ q[n] = e
      /\ \A u \in DOMAIN pl : q[u] = pl[u]
  BY <1>1, <1>4
<1>6. DOMAIN q = DOMAIN pl \cup {n} /\ n \in DOMAIN q
  BY <1>1, <1>5
<1> HIDE DEF q, L, n
<1>7. \A u \in DOMAIN q : q[u].ref = max_str_ref \/ q[u].ref = L[u]
  <2> SUFFICES ASSUME NEW u \in DOMAIN q PROVE q[u].ref = max_str_ref \/ q[u].ref = L[u]
    OBVIOUS
  <2>1. CASE u = n
    BY <2>1, <1>2, <1>3, <1>4, <1>5
  <2>2. CASE u # n
    <3>1. u \in DOMAIN pl /\ u \in Nat
      BY <1>1, <1>6, <2>2
    <3> QED BY <2>2, <3>1, <1>3, <1>5 DEF Counts
  <2> QED BY <2>1, <2>2
<1>8. \A u \in Nat : L[u] # 0 => u \in DOMAIN q
  BY <1>3, <1>6 DEF Counts
<1>9. q[Len(q)].ref # 0
  BY <1>4, <1>5
<1>10. Counts(q, L)
  BY <1>5, <1>7, <1>8, <1>9 DEF Counts
<1>11. SameSaid(pl, q)
  BY <1>5 DEF SameSaid
<1>12. q[n].chars = w
  BY <1>4, <1>5
<1>13. \A s \in Nat : N[s] # 0 => s \in DOMAIN pl
  BY DEF Counts
<1> QED BY <1>2, <1>6, <1>10, <1>11, <1>12, <1>13 DEF q, L, n, e

Released(pl, s) ==
    IF pl[s].ref = max_str_ref THEN pl
    ELSE IF pl[s].ref > 1 THEN WithRef(pl, s, pl[s].ref - 1) ELSE flush_string(pl, s)

\* The pool cut back to its first n strings.
LEMMA CountsCut ==
  ASSUME NEW pl, NEW N, Counts(pl, N), NEW n \in Nat, n <= Len(pl),
         n # 0 => pl[n].ref # 0, NEW L, \A u \in Nat : L[u] # 0 => u <= n /\ u \in DOMAIN pl,
         \A u \in 1..n : L[u] = N[u]
  PROVE  Counts(SubSeq(pl, 1, n), L) /\ SameSaid(pl, SubSeq(pl, 1, n))
         /\ DOMAIN SubSeq(pl, 1, n) = 1..n
<1> DEFINE q == SubSeq(pl, 1, n)
<1>1. pl \in Seq([chars : Values, ref : Nat]) /\ DOMAIN pl = 1..Len(pl) /\ Len(pl) \in Nat
  BY DEF Counts
<1>2. /\ q \in Seq([chars : Values, ref : Nat]) /\ Len(q) = n /\ DOMAIN q = 1..n
      /\ \A u \in 1..n : q[u] = pl[u] /\ u \in DOMAIN pl
  <2> DEFINE E == [chars : Values, ref : Nat]
  <2>1. pl \in Seq(E) /\ Len(pl) \in Nat /\ n \in Nat /\ n <= Len(pl) /\ DOMAIN pl = 1..Len(pl)
    BY <1>1
  <2> HIDE DEF E
  <2>2. q \in Seq(E) /\ Len(q) = n /\ DOMAIN q = 1..n
    BY ONLY <2>1
  <2>3. \A u \in 1..n : q[u] = pl[u] /\ u \in 1..Len(pl)
    BY ONLY <2>1
  <2> QED BY ONLY <2>1, <2>2, <2>3 DEF E
<1> HIDE DEF q
<1>3. \A u \in DOMAIN q : q[u].ref = max_str_ref \/ q[u].ref = L[u]
  BY <1>2 DEF Counts
<1>4. \A u \in Nat : L[u] # 0 => u \in DOMAIN q
  BY <1>1, <1>2
<1>5. q # <<>> => q[Len(q)].ref # 0
  <2> SUFFICES ASSUME q # <<>> PROVE q[n].ref # 0
    BY <1>2
  <2>1. n # 0 /\ n \in 1..n
    BY <1>2
  <2> QED BY <1>2, <2>1
<1>6. Counts(q, L)
  BY <1>2, <1>3, <1>4, <1>5 DEF Counts
<1>7. SameSaid(pl, q)
  BY <1>2 DEF SameSaid
<1> QED BY <1>2, <1>6, <1>7 DEF q

\* A reference less to a string: no string that others refer to goes.
LEMMA CountsLess ==
  ASSUME NEW pl, NEW N \in Tallies, Counts(pl, N), NEW s \in Nat, N[s] # 0
  PROVE  /\ Counts(Released(pl, s), [N EXCEPT ![s] = @ - 1])
         /\ SameSaid(pl, Released(pl, s))
         /\ DOMAIN Released(pl, s) \subseteq DOMAIN pl
<1> DEFINE L == [N EXCEPT ![s] = @ - 1]
<1>1. pl \in Seq([chars : Values, ref : Nat]) /\ DOMAIN pl = 1..Len(pl) /\ Len(pl) \in Nat
      /\ s \in DOMAIN pl
  BY DEF Counts
<1>2. \A u \in DOMAIN pl : pl[u].ref \in Nat
  <2>1. pl \in Seq([chars : Values, ref : Nat])
    BY <1>1
  <2> QED BY <2>1, PoolIs
<1>1a. \A u \in DOMAIN pl : u \in Nat
  BY ONLY <1>1, PoolIs
<1>3. max_str_ref \in Nat /\ max_str_ref > 1
  BY RingsAssumption
<1>4. \A u \in Nat : N[u] \in Nat /\ L[u] = IF u = s THEN N[u] - 1 ELSE N[u]
  BY DEF Tallies
<1>4a. \A u \in DOMAIN pl : pl[u].ref = max_str_ref \/ pl[u].ref = N[u]
  BY DEF Counts
<1>4b. \A u \in Nat : L[u] # 0 => N[u] # 0 /\ u \in DOMAIN pl
  BY <1>4 DEF Counts
<1>4c. pl # <<>> /\ Len(pl) \in DOMAIN pl /\ pl[Len(pl)].ref # 0
  <2>1. pl # <<>> /\ Len(pl) \in DOMAIN pl
    BY <1>1
  <2> QED BY <2>1 DEF Counts
<1> HIDE DEF L
<1>5. CASE pl[s].ref = max_str_ref
  <2>1. Counts(pl, L)
    <3>1. \A u \in DOMAIN pl : pl[u].ref = max_str_ref \/ pl[u].ref = L[u]
      BY <1>1, <1>4, <1>4a, <1>5
    <3> QED BY <1>1, <1>4b, <1>4c, <3>1 DEF Counts
  <2>2. SameSaid(pl, pl)
    BY DEF SameSaid
  <2> QED BY <1>5, <2>1, <2>2 DEF Released, L
<1>6. CASE pl[s].ref # max_str_ref /\ pl[s].ref > 1
  <2> DEFINE r == pl[s].ref - 1  q == WithRef(pl, s, r)
  <2>1. r \in Nat /\ r # 0 /\ r = L[s]
    BY <1>1, <1>2, <1>4, <1>4a, <1>6
  <2> HIDE DEF r
  <2>2. /\ q \in Seq([chars : Values, ref : Nat]) /\ Len(q) = Len(pl) /\ DOMAIN q = DOMAIN pl
        /\ \A u \in DOMAIN pl : q[u].ref = IF u = s THEN r ELSE pl[u].ref
        /\ SameSaid(pl, q)
    <3>1. IsPool(pl) /\ s \in DOMAIN pl /\ r \in Nat
      BY <1>1, <2>1 DEF IsPool
    <3>2. RefIs(WithRef(pl, s, r), pl, s, r)
      BY ONLY <3>1, RefChanged
    <3> QED BY <3>2 DEF RefIs
  <2> HIDE DEF q
  <2>3. \A u \in DOMAIN q : q[u].ref = max_str_ref \/ q[u].ref = L[u]
    BY ONLY <1>1a, <1>4, <1>4a, <2>1, <2>2
  <2>4. q[Len(q)].ref # 0
    BY <1>4c, <2>1, <2>2
  <2>5. Counts(q, L)
    BY <1>4b, <2>2, <2>3, <2>4 DEF Counts
  <2> QED BY <1>6, <2>2, <2>5 DEF Released, L, q, r
<1>7. CASE pl[s].ref # max_str_ref /\ ~(pl[s].ref > 1)
  <2>1. N[s] = 1 /\ L[s] = 0
    <3>1. pl[s].ref = N[s] /\ N[s] \in Nat /\ pl[s].ref <= 1
      BY <1>1, <1>2, <1>4, <1>4a, <1>7
    <3> QED BY <1>4, <3>1
  <2>2. Released(pl, s) = flush_string(pl, s)
    BY <1>7 DEF Released
  <2>3. CASE s < Len(pl)
    <3> DEFINE q == WithRef(pl, s, 0)
    <3>1. /\ q \in Seq([chars : Values, ref : Nat]) /\ Len(q) = Len(pl) /\ DOMAIN q = DOMAIN pl
          /\ \A u \in DOMAIN pl : q[u].ref = IF u = s THEN 0 ELSE pl[u].ref
          /\ SameSaid(pl, q)
      <4>1. IsPool(pl) /\ s \in DOMAIN pl /\ 0 \in Nat
        BY <1>1 DEF IsPool
      <4>2. RefIs(WithRef(pl, s, 0), pl, s, 0)
        BY ONLY <4>1, RefChanged
      <4> QED BY <4>2 DEF RefIs
    <3>2. flush_string(pl, s) = q
      BY <2>3 DEF flush_string, WithRef
    <3> HIDE DEF q
    <3>3. \A u \in DOMAIN q : q[u].ref = max_str_ref \/ q[u].ref = L[u]
      BY ONLY <1>1a, <1>4, <1>4a, <2>1, <3>1
    <3>4. q[Len(q)].ref # 0
      BY <1>1, <1>4c, <2>3, <3>1
    <3>5. Counts(q, L)
      BY <1>4b, <3>1, <3>3, <3>4 DEF Counts
    <3> QED BY <2>2, <3>1, <3>2, <3>5 DEF L
  <2>4. CASE ~(s < Len(pl))
    <3> DEFINE kept == {n \in 1..Len(pl) - 1 : pl[n].ref # 0}
               n == IF kept = {} THEN 0 ELSE Max(kept)
    <3>0. s \in 1..Len(pl) /\ Len(pl) \in Nat
      BY ONLY <1>1
    <3>1. s = Len(pl)
      BY ONLY <2>4, <3>0
    <3>2. flush_string(pl, s) = SubSeq(pl, 1, n)
      BY <2>4 DEF flush_string
    <3>3. n \in Nat /\ n < Len(pl) /\ (n # 0 => pl[n].ref # 0) /\ \A u \in kept : u <= n
      <4>1. CASE kept = {}
        BY <1>1, <4>1
      <4>2. CASE kept # {}
        <5>1. kept \in SUBSET (1..(Len(pl) - 1)) /\ Len(pl) - 1 \in Nat
          BY <1>1
        <5> DEFINE S == kept
        <5> HIDE DEF kept
        <5>2. Max(kept) \in kept /\ \A y \in kept : y <= Max(kept)
          BY <4>2, <5>1, LargestIs
        <5>3. n = Max(kept)
          BY <4>2
        <5> HIDE DEF n
        <5> QED BY <1>1, <5>1, <5>2, <5>3 DEF kept
      <4> QED BY <4>1, <4>2
    <3>4. \A u \in Nat : L[u] # 0 => u <= n /\ u \in DOMAIN pl
      <4> SUFFICES ASSUME NEW u \in Nat, L[u] # 0 PROVE u <= n /\ u \in DOMAIN pl
        OBVIOUS
      <4>1. u # s /\ u \in DOMAIN pl /\ N[u] # 0
        BY <1>4b, <2>1
      <4>1a. u \in 1..Len(pl)
        BY ONLY <1>1, <4>1
      <4>2. u \in 1..(Len(pl) - 1)
        BY ONLY <3>0, <3>1, <4>1, <4>1a
      <4>3. pl[u].ref # 0
        BY <1>3, <1>4a, <4>1
      <4>4. u \in kept
        BY <4>2, <4>3
      <4> QED BY <3>3, <4>1, <4>4
    <3>5. \A u \in 1..n : L[u] = N[u]
      BY ONLY <3>0, <1>4, <3>1, <3>3
    <3>6. n <= Len(pl) /\ 1..n \subseteq DOMAIN pl
      <4> HIDE DEF n
      <4>1. n \in Nat /\ n < Len(pl)
        BY <3>3
      <4>2. n <= Len(pl) /\ \A u \in 1..n : u \in 1..Len(pl)
        BY ONLY <3>0, <4>1
      <4> QED BY ONLY <1>1, <4>2
    <3> HIDE DEF n, kept
    <3>7. Counts(SubSeq(pl, 1, n), L) /\ SameSaid(pl, SubSeq(pl, 1, n))
          /\ DOMAIN SubSeq(pl, 1, n) = 1..n
      BY <3>3, <3>4, <3>5, <3>6, CountsCut
    <3> QED BY <2>2, <3>2, <3>6, <3>7 DEF L
  <2> QED BY <2>3, <2>4
<1> QED BY <1>5, <1>6, <1>7

-----------------------------------------------------------------------------
(* How many refer to a string.                                             *)

\* The counts are numbers.
LEMMA TotalIs ==
  ASSUME NEW t, NEW v, NEW x \in Tallies
  PROVE  /\ \A s : IsFiniteSet(Users(t, v, s)) /\ Cardinality(Users(t, v, s)) \in Nat
         /\ Total(t, v, x) \in Tallies
         /\ \A s \in Nat : Total(t, v, x)[s] = Cardinality(Users(t, v, s)) + x[s]
<1>1. \A s : IsFiniteSet(Users(t, v, s)) /\ Cardinality(Users(t, v, s)) \in Nat
  <2> TAKE s
  <2> DEFINE A == Users(t, v, s)
  <2>1. A \in SUBSET Node
    BY DEF Users
  <2> HIDE DEF A
  <2>2. IsFiniteSet(A)
    BY <2>1, NodesFinite, FS_Subset
  <2>3. Cardinality(A) \in Nat
    BY <2>2, FS_CardinalityType
  <2> QED BY <2>2, <2>3 DEF A
<1>2. \A s \in Nat : x[s] \in Nat
  BY DEF Tallies
<1>3. \A s \in Nat : Total(t, v, x)[s] = Cardinality(Users(t, v, s)) + x[s]
  BY DEF Total
<1>4. \A s \in Nat : Cardinality(Users(t, v, s)) + x[s] \in Nat
  BY <1>1, <1>2
<1>5. Total(t, v, x) \in Tallies
  BY <1>4 DEF Total, Tallies
<1> QED BY <1>1, <1>3, <1>5

\* Two tallies with the same numbers are one.
LEMMA TallyEqual ==
  ASSUME NEW N \in Tallies, NEW L \in Tallies, \A u \in Nat : N[u] = L[u]
  PROVE  N = L
BY DEF Tallies

\* An outside reference more.
LEMMA PlusIs ==
  ASSUME NEW x \in Tallies, NEW t, NEW s, t = "string" => s \in Nat
  PROVE  /\ Plus(x, t, s) \in Tallies
         /\ t = "string" => \A u \in Nat : Plus(x, t, s)[u] = IF u = s THEN x[u] + 1 ELSE x[u]
BY DEF Plus, Tallies

\* It counts as one.
LEMMA TotalPlus ==
  ASSUME NEW t, NEW v, NEW x \in Tallies, NEW s \in Nat
  PROVE  /\ Total(t, v, Plus(x, "string", s)) = [Total(t, v, x) EXCEPT ![s] = @ + 1]
         /\ Total(t, v, x) = [Total(t, v, Plus(x, "string", s)) EXCEPT ![s] = @ - 1]
         /\ Total(t, v, Plus(x, "string", s))[s] # 0
<1> DEFINE y == Plus(x, "string", s)  N == Total(t, v, x)  L == Total(t, v, y)
<1>1. y \in Tallies /\ \A u \in Nat : y[u] = IF u = s THEN x[u] + 1 ELSE x[u]
  BY PlusIs
<1> HIDE DEF y
<1>2. N \in Tallies /\ \A u \in Nat : N[u] = Cardinality(Users(t, v, u)) + x[u]
  BY TotalIs
<1>3. L \in Tallies /\ \A u \in Nat : L[u] = Cardinality(Users(t, v, u)) + y[u]
  BY <1>1, TotalIs
<1>4. \A u \in Nat : Cardinality(Users(t, v, u)) \in Nat /\ x[u] \in Nat
  BY TotalIs DEF Tallies
<1> HIDE DEF N, L
<1>5. \A u \in Nat : L[u] = IF u = s THEN N[u] + 1 ELSE N[u]
  BY <1>1, <1>2, <1>3, <1>4
<1>5a. \A u \in Nat : N[u] \in Nat
  BY <1>2 DEF Tallies
<1>6. L = [N EXCEPT ![s] = @ + 1]
  <2>1. [N EXCEPT ![s] = @ + 1] \in Tallies
    BY <1>2 DEF Tallies
  <2>2. \A u \in Nat : L[u] = [N EXCEPT ![s] = @ + 1][u]
    BY <1>2, <1>5 DEF Tallies
  <2> QED BY <1>3, <2>1, <2>2, TallyEqual
<1>7. L[s] # 0 /\ L[s] - 1 = N[s]
  BY <1>5, <1>5a
<1>8. N = [L EXCEPT ![s] = @ - 1]
  <2>1. \A u \in Nat : [L EXCEPT ![s] = @ - 1][u] = IF u = s THEN L[u] - 1 ELSE L[u]
    BY <1>3 DEF Tallies
  <2>2. \A u \in Nat : N[u] = [L EXCEPT ![s] = @ - 1][u]
    BY <1>5, <1>7, <2>1
  <2>3. [L EXCEPT ![s] = @ - 1] \in Tallies
    <3>1. \A u \in Nat : (IF u = s THEN L[u] - 1 ELSE L[u]) \in Nat
      BY <1>5, <1>5a
    <3>2. [L EXCEPT ![s] = @ - 1] = [u \in Nat |-> IF u = s THEN L[u] - 1 ELSE L[u]]
      BY <1>3 DEF Tallies
    <3> QED BY <3>1, <3>2 DEF Tallies
  <2> QED BY <1>2, <2>2, <2>3, TallyEqual
<1> QED BY <1>6, <1>7, <1>8 DEF N, L, y

\* Outside of P the same nodes refer to the same strings.
SameUsers(t, v, t2, v2, P) ==
    \A n \in Node \ P : /\ t2[n] = "string" <=> t[n] = "string"
                        /\ t[n] = "string" => v2[n] = v[n]

\* The counts of the same users.
LEMMA TotalSame ==
  ASSUME NEW t, NEW v, NEW t2, NEW v2, SameUsers(t, v, t2, v2, {}), NEW x
  PROVE  Total(t2, v2, x) = Total(t, v, x)
<1>1. \A u \in Nat : Users(t2, v2, u) = Users(t, v, u)
  BY DEF SameUsers, Users
<1> QED BY <1>1 DEF Total

\* Two sets without a common member.
LEMMA CardinalityApart ==
  ASSUME NEW A, NEW B, IsFiniteSet(A), IsFiniteSet(B), A \cap B = {}
  PROVE  Cardinality(A \cup B) = Cardinality(A) + Cardinality(B)
<1>1. IsFiniteSet(A \cap B) /\ Cardinality(A \cap B) = 0
  BY FS_EmptySet
<1>2. Cardinality(A \cup B) = Cardinality(A) + Cardinality(B) - Cardinality(A \cap B)
  BY FS_Union
<1>3. Cardinality(A) \in Nat /\ Cardinality(B) \in Nat
  BY FS_CardinalityType
<1> QED BY <1>1, <1>2, <1>3

\* The nodes of S begin to refer to s.
LEMMA TotalJoined ==
  ASSUME NEW t, NEW v, NEW t2, NEW v2, NEW S \in SUBSET Node, SameUsers(t, v, t2, v2, S),
         NEW s \in Nat, \A n \in S : t[n] # "string" /\ t2[n] = "string" /\ v2[n] = s,
         NEW x \in Tallies
  PROVE  /\ Total(t2, v2, x) = [Total(t, v, x) EXCEPT ![s] = @ + Cardinality(S)]
         /\ Cardinality(S) \in Nat
<1> DEFINE N == Total(t, v, x)  L == Total(t2, v2, x)  k == Cardinality(S)
<1>1. N \in Tallies /\ \A u \in Nat : N[u] = Cardinality(Users(t, v, u)) + x[u]
  BY TotalIs
<1>2. L \in Tallies /\ \A u \in Nat : L[u] = Cardinality(Users(t2, v2, u)) + x[u]
  BY TotalIs
<1>3. IsFiniteSet(S) /\ k \in Nat
  BY NodesFinite, FS_Subset, FS_CardinalityType
<1>4. \A u \in Nat : Cardinality(Users(t2, v2, u))
                       = IF u = s THEN Cardinality(Users(t, v, u)) + k ELSE Cardinality(Users(t, v, u))
  <2> TAKE u \in Nat
  <2>1. CASE u = s
    <3> DEFINE A == Users(t, v, u)  B == Users(t2, v2, u)
    <3>1. B = A \cup S
      BY <2>1 DEF Users, SameUsers
    <3>2. A \cap S = {}
      BY DEF Users
    <3>3. IsFiniteSet(A)
      BY TotalIs
    <3> HIDE DEF A, B
    <3>4. Cardinality(B) = Cardinality(A) + k
      BY <1>3, <3>1, <3>2, <3>3, CardinalityApart
    <3> QED BY <2>1, <3>4 DEF A, B
  <2>2. CASE u # s
    <3>1. Users(t2, v2, u) = Users(t, v, u)
      BY <2>2 DEF Users, SameUsers
    <3> QED BY <2>2, <3>1
  <2> QED BY <2>1, <2>2
<1>5. \A u \in Nat : Cardinality(Users(t, v, u)) \in Nat /\ x[u] \in Nat
  BY TotalIs DEF Tallies
<1> HIDE DEF N, L, k
<1>6. \A u \in Nat : L[u] = IF u = s THEN N[u] + k ELSE N[u]
  BY <1>1, <1>2, <1>3, <1>4, <1>5
<1>7. L = [N EXCEPT ![s] = @ + k]
  <2>1. [N EXCEPT ![s] = @ + k] \in Tallies
    BY <1>1, <1>3 DEF Tallies
  <2>2. \A u \in Nat : L[u] = [N EXCEPT ![s] = @ + k][u]
    BY <1>1, <1>6 DEF Tallies
  <2> QED BY <1>2, <2>1, <2>2, TallyEqual
<1> QED BY <1>3, <1>7 DEF N, L, k

\* The reference of p to s in (t, v) is gone in (t2, v2).
Moved(t, v, t2, v2, p, s) ==
    /\ p \in Node /\ SameUsers(t, v, t2, v2, {p})
    /\ s \in Nat /\ t[p] = "string" /\ v[p] = s /\ t2[p] # "string"

\* The reference of a node becomes one from outside.
LEMMA TotalMoved ==
  ASSUME NEW t, NEW v, NEW t2, NEW v2, NEW p, NEW s, Moved(t, v, t2, v2, p, s), NEW x \in Tallies
  PROVE  Total(t2, v2, Plus(x, "string", s)) = Total(t, v, x)
<1>0. /\ p \in Node /\ SameUsers(t, v, t2, v2, {p})
      /\ s \in Nat /\ t[p] = "string" /\ v[p] = s /\ t2[p] # "string"
  BY DEF Moved
<1> DEFINE S == {p}
<1>1. S \in SUBSET Node /\ SameUsers(t2, v2, t, v, S)
      /\ \A n \in S : t2[n] # "string" /\ t[n] = "string" /\ v[n] = s
  BY <1>0 DEF SameUsers
<1>2. Cardinality(S) = 1
  BY FS_Singleton
<1> HIDE DEF S
<1>3. Total(t, v, x) = [Total(t2, v2, x) EXCEPT ![s] = @ + Cardinality(S)]
  BY <1>0, <1>1, TotalJoined
<1>4. Total(t2, v2, Plus(x, "string", s)) = [Total(t2, v2, x) EXCEPT ![s] = @ + 1]
  BY <1>0, TotalPlus
<1> QED BY <1>2, <1>3, <1>4

-----------------------------------------------------------------------------
(* Operations on the heap.                                                 *)

\* The types.
LEMMA TypeNames ==
  /\ unknown_types = {"unknown_boolean", "unknown_string"}
  /\ known_type["unknown_boolean"] = "boolean" /\ known_type["unknown_string"] = "string"
  /\ Tags = {"undefined", "free", "vacuous", "boolean", "string", "unknown_boolean", "unknown_string"}
<1>1. unknown_types = {"unknown_boolean", "unknown_string"}
  BY DEF unknown_types, known_type
<1>2. known_type["unknown_boolean"] = "boolean" /\ known_type["unknown_string"] = "string"
  BY DEF known_type
<1>3. Tags = {"undefined", "free", "vacuous", "boolean", "string", "unknown_boolean", "unknown_string"}
  BY <1>1 DEF Tags, known_types
<1> QED BY <1>1, <1>2, <1>3

\* What known quantities outside of P are and say stays the same.
Steady(h, g, P) ==
    /\ \A n \in Node \ P : h.type[n] \in known_types =>
          g.type[n] = h.type[n] /\ g.value[n] = h.value[n]
    /\ SameSaid(h.pool, g.pool) /\ DOMAIN g.pool \subseteq DOMAIN h.pool

\* What a sound heap is, in parts.
LEMMA HeapParts ==
  ASSUME NEW h, NEW x, HeapOK(h, x)
  PROVE  /\ IsHeap(h) /\ x \in Tallies
         /\ Typed(h.type, h.value) /\ Linked(h.type, h.value)
         /\ Counts(h.pool, Total(h.type, h.value, x))
         /\ Total(h.type, h.value, x) \in Tallies
BY TotalIs DEF HeapOK

\* References that are counted are to strings in the pool.
LEMMA InPool ==
  ASSUME NEW h, NEW x, HeapOK(h, x)
  PROVE  /\ \A n \in Node : h.type[n] = "string" => h.value[n] \in Nat /\ h.value[n] \in DOMAIN h.pool
         /\ \A s \in Nat : x[s] # 0 => s \in DOMAIN h.pool
<1> DEFINE t == h.type  v == h.value  pl == h.pool  N == Total(t, v, x)
<1>1. x \in Tallies /\ Counts(pl, N) /\ Typed(t, v)
  BY HeapParts
<1>2. \A s \in Nat : N[s] # 0 => s \in DOMAIN pl
  BY <1>1 DEF Counts
<1>3. \A s \in Nat : N[s] = Cardinality(Users(t, v, s)) + x[s] /\ x[s] \in Nat
                     /\ IsFiniteSet(Users(t, v, s)) /\ Cardinality(Users(t, v, s)) \in Nat
  BY <1>1, TotalIs DEF Tallies
<1> HIDE DEF N
<1>4. ASSUME NEW n \in Node, t[n] = "string"
      PROVE  v[n] \in Nat /\ v[n] \in DOMAIN pl
  <2>1. v[n] \in Nat
    BY <1>1, <1>4 DEF Typed
  <2> DEFINE A == Users(t, v, v[n])
  <2>2. n \in A
    BY <1>4 DEF Users
  <2>3. IsFiniteSet(A) /\ Cardinality(A) \in Nat
    BY <1>3, <2>1
  <2> HIDE DEF A
  <2>4. Cardinality(A) # 0
    BY <2>2, <2>3, FS_EmptySet
  <2>5. N[v[n]] # 0
    BY <1>3, <2>1, <2>3, <2>4 DEF A
  <2> QED BY <1>2, <2>1, <2>5
<1>5. \A s \in Nat : x[s] # 0 => s \in DOMAIN pl
  BY <1>2, <1>3
<1> QED BY <1>4, <1>5

\* A node with another type and value.
With(h, p, a, b) == [h EXCEPT !.type[p] = a, !.value[p] = b]
IsWith(g, h, p, a, b) ==
    /\ IsHeap(g)
    /\ g.type = [h.type EXCEPT ![p] = a]
    /\ g.value = [h.value EXCEPT ![p] = b]
    /\ g.pool = h.pool

\* What the heap is with one node changed.
LEMMA WithIs ==
  ASSUME NEW h, IsHeap(h), NEW p, NEW a, NEW b
  PROVE  IsWith(With(h, p, a, b), h, p, a, b)
<1> DEFINE t == h.type  v == h.value  pl == h.pool
<1>1. h = [type |-> t, value |-> v, pool |-> pl]
  BY DEF IsHeap
<1> HIDE DEF t, v, pl
<1>2. With(h, p, a, b)
        = [type |-> [t EXCEPT ![p] = a], value |-> [v EXCEPT ![p] = b], pool |-> pl]
  <2> DEFINE g == [h EXCEPT !.type[p] = a]
  <2>1. g = [type |-> [t EXCEPT ![p] = a], value |-> v, pool |-> pl]
    BY <1>1
  <2>2. With(h, p, a, b) = [g EXCEPT !.value[p] = b]
    BY DEF With
  <2> HIDE DEF g
  <2>3. [g EXCEPT !.value[p] = b]
          = [type |-> [t EXCEPT ![p] = a], value |-> [v EXCEPT ![p] = b], pool |-> pl]
    BY ONLY <2>1
  <2> QED BY ONLY <2>2, <2>3
<1>3. h.type = t /\ h.value = v /\ h.pool = pl
  BY <1>1
<1> QED BY <1>2, <1>3 DEF IsHeap, IsWith

\* Quantities that are not unknown may change: the rings are the same.
LEMMA Retyped ==
  ASSUME NEW t, NEW v, Typed(t, v), Linked(t, v), NEW p \in Node, t[p] \notin unknown_types,
         NEW a \in Tags \ unknown_types, NEW b, a = "boolean" => b \in Values, a = "string" => b \in Nat
  PROVE  /\ Typed([t EXCEPT ![p] = a], [v EXCEPT ![p] = b])
         /\ Linked([t EXCEPT ![p] = a], [v EXCEPT ![p] = b])
         /\ SameUsers(t, v, [t EXCEPT ![p] = a], [v EXCEPT ![p] = b], {p})
<1> DEFINE r == [t EXCEPT ![p] = a]  w == [v EXCEPT ![p] = b]
<1>1. /\ t \in [Node -> Tags] /\ v = [n \in Node |-> v[n]]
      /\ \A n \in Node : t[n] = "boolean" => v[n] \in Values
      /\ \A n \in Node : t[n] = "string" => v[n] \in Nat
  BY DEF Typed
<1>2. r \in [Node -> Tags] /\ w = [n \in Node |-> w[n]]
  BY <1>1
<1>3. \A n \in Node : r[n] = (IF n = p THEN a ELSE t[n]) /\ w[n] = (IF n = p THEN b ELSE v[n])
  BY <1>1
<1> HIDE DEF r, w
<1>4. Typed(r, w)
  BY <1>1, <1>2, <1>3 DEF Typed
<1>5. Linked(r, w)
  <2> SUFFICES ASSUME NEW n \in Node, r[n] \in unknown_types
               PROVE  /\ Behind(w, n) \in Node /\ r[Behind(w, n)] = r[n]
                      /\ n \in Capsules => w[n] # null
                      /\ \A m \in Node : r[m] \in unknown_types /\ Behind(w, m) = Behind(w, n) => m = n
    BY DEF Linked
  <2>1. \A m \in Node : r[m] \in unknown_types => t[m] = r[m] /\ w[m] = v[m] /\ Behind(w, m) = Behind(v, m)
    BY <1>3 DEF Behind
  <2>2. /\ Behind(v, n) \in Node /\ t[Behind(v, n)] = t[n] /\ (n \in Capsules => v[n] # null)
        /\ \A m \in Node : t[m] \in unknown_types /\ Behind(v, m) = Behind(v, n) => m = n
    BY <2>1 DEF Linked
  <2>3. r[Behind(v, n)] = t[Behind(v, n)]
    BY <1>3, <2>1, <2>2
  <2> QED BY <2>1, <2>2, <2>3
<1>6. SameUsers(t, v, r, w, {p})
  BY <1>3 DEF SameUsers
<1> QED BY <1>4, <1>5, <1>6 DEF r, w

\* A quantity that is not unknown disappears, or gives its string away.
LEMMA GivenAway ==
  ASSUME NEW h, NEW x, HeapOK(h, x), NEW p \in Node, h.type[p] \notin unknown_types,
         NEW a \in Tags \ (known_types \cup unknown_types), NEW b
  PROVE  /\ HeapOK(With(h, p, a, b), Plus(x, h.type[p], h.value[p]))
         /\ Steady(h, With(h, p, a, b), {p})
<1> DEFINE t == h.type  v == h.value  s == v[p]
           r == [t EXCEPT ![p] = a]  w == [v EXCEPT ![p] = b]  g == With(h, p, a, b)
           y == Plus(x, t[p], s)
<1>1. /\ IsHeap(h) /\ x \in Tallies /\ Typed(t, v) /\ Linked(t, v)
      /\ Counts(h.pool, Total(t, v, x))
  BY HeapParts
<1>2. IsHeap(g) /\ g.type = r /\ g.value = w /\ g.pool = h.pool
  <2>1. IsHeap(h)
    BY <1>1
  <2>2. IsWith(With(h, p, a, b), h, p, a, b)
    BY ONLY <2>1, WithIs
  <2> QED BY ONLY <2>2 DEF IsWith
<1>3. a # "boolean" /\ a # "string" /\ a \notin unknown_types /\ a \in Tags
  BY DEF known_types
<1>4. Typed(r, w) /\ Linked(r, w) /\ SameUsers(t, v, r, w, {p})
  BY <1>1, <1>3, Retyped
<1>5. \A n \in Node : r[n] = (IF n = p THEN a ELSE t[n]) /\ w[n] = (IF n = p THEN b ELSE v[n])
  BY <1>1 DEF Typed
<1>6. (t[p] = "string" => s \in Nat) /\ y \in Tallies
  <2>1. t[p] = "string" => s \in Nat
    BY <1>1 DEF Typed
  <2> QED BY <1>1, <2>1, PlusIs
<1> HIDE DEF t, v, r, w, g
<1>7. Total(r, w, y) = Total(t, v, x)
  <2>1. CASE t[p] = "string"
    <3>1. r[p] # "string" /\ s \in Nat /\ y = Plus(x, "string", s) /\ v[p] = s
      BY <1>3, <1>5, <1>6, <2>1
    <3> HIDE DEF s, y
    <3>2. Moved(t, v, r, w, p, s) /\ x \in Tallies
      BY <1>1, <1>4, <2>1, <3>1 DEF Moved
    <3>3. Total(r, w, Plus(x, "string", s)) = Total(t, v, x)
      BY ONLY <3>2, TotalMoved
    <3> QED BY ONLY <3>1, <3>3
  <2>2. CASE t[p] # "string"
    <3>1. y = x
      BY <2>2 DEF Plus
    <3>2. SameUsers(t, v, r, w, {})
      BY <1>3, <1>4, <1>5, <2>2 DEF SameUsers
    <3> QED BY <3>1, <3>2, TotalSame
  <2> QED BY <2>1, <2>2
<1>8. HeapOK(g, y)
  BY <1>1, <1>2, <1>4, <1>6, <1>7 DEF HeapOK
<1>9. Steady(h, g, {p})
  <2>1. SameSaid(h.pool, g.pool) /\ DOMAIN g.pool \subseteq DOMAIN h.pool
    BY <1>2 DEF SameSaid
  <2> QED BY <1>2, <1>5, <2>1 DEF Steady, t, v
<1> QED BY <1>8, <1>9 DEF g, y, t, v

\* A node takes over the value that somebody outside had.
LEMMA TakenOver ==
  ASSUME NEW h, NEW x \in Tallies, NEW a \in known_types, NEW b, HeapOK(h, Plus(x, a, b)),
         a = "boolean" => b \in Values, a = "string" => b \in Nat,
         NEW p \in Node, h.type[p] \notin known_types \cup unknown_types
  PROVE  /\ HeapOK(With(h, p, a, b), x)
         /\ Steady(h, With(h, p, a, b), {p})
<1> DEFINE t == h.type  v == h.value
           r == [t EXCEPT ![p] = a]  w == [v EXCEPT ![p] = b]  g == With(h, p, a, b)
           y == Plus(x, a, b)
<1>1. /\ IsHeap(h) /\ y \in Tallies /\ Typed(t, v) /\ Linked(t, v)
      /\ Counts(h.pool, Total(t, v, y))
  BY HeapParts
<1>2. IsHeap(g) /\ g.type = r /\ g.value = w /\ g.pool = h.pool
  <2>1. IsHeap(h)
    BY <1>1
  <2>2. IsWith(With(h, p, a, b), h, p, a, b)
    BY ONLY <2>1, WithIs
  <2> QED BY ONLY <2>2 DEF IsWith
<1>3. a \notin unknown_types /\ a \in Tags /\ t[p] # "string" /\ t[p] \notin unknown_types
  BY TypeNames DEF known_types
<1>4. Typed(r, w) /\ Linked(r, w) /\ SameUsers(t, v, r, w, {p})
  BY <1>1, <1>3, Retyped
<1>5. \A n \in Node : r[n] = (IF n = p THEN a ELSE t[n]) /\ w[n] = (IF n = p THEN b ELSE v[n])
  BY <1>1 DEF Typed
<1> HIDE DEF t, v, r, w, g
<1>7. Total(r, w, x) = Total(t, v, y)
  <2>1. CASE a = "string"
    <3>1. r[p] = "string" /\ b \in Nat /\ y = Plus(x, "string", b) /\ w[p] = b /\ SameUsers(r, w, t, v, {p})
      BY <1>4, <1>5, <2>1 DEF SameUsers
    <3> HIDE DEF y
    <3>2. Moved(r, w, t, v, p, b) /\ x \in Tallies
      BY <1>3, <3>1 DEF Moved
    <3>3. Total(t, v, Plus(x, "string", b)) = Total(r, w, x)
      BY ONLY <3>2, TotalMoved
    <3> QED BY ONLY <3>1, <3>3
  <2>2. CASE a # "string"
    <3>1. y = x
      BY <2>2 DEF Plus
    <3>2. SameUsers(t, v, r, w, {})
      BY <1>3, <1>4, <1>5, <2>2 DEF SameUsers
    <3> QED BY <3>1, <3>2, TotalSame
  <2> QED BY <2>1, <2>2
<1>8. HeapOK(g, x)
  BY <1>1, <1>2, <1>4, <1>7 DEF HeapOK
<1>9. Steady(h, g, {p})
  <2>1. SameSaid(h.pool, g.pool) /\ DOMAIN g.pool \subseteq DOMAIN h.pool
    BY <1>2 DEF SameSaid
  <2> QED BY <1>2, <1>5, <2>1 DEF Steady, t, v
<1> QED BY <1>8, <1>9 DEF g

\* The pool alone changes.
LEMMA PoolChanged ==
  ASSUME NEW h, NEW x, HeapOK(h, x), NEW y \in Tallies, NEW ql,
         Counts(ql, Total(h.type, h.value, y)), NEW g, g = [h EXCEPT !.pool = ql]
  PROVE  HeapOK(g, y) /\ g.type = h.type /\ g.value = h.value /\ g.pool = ql
<1> DEFINE t == h.type  v == h.value  pl == h.pool
<1>1. h = [type |-> t, value |-> v, pool |-> pl]
  BY HeapParts DEF IsHeap
<1>2. Typed(t, v) /\ Linked(t, v) /\ Counts(ql, Total(t, v, y))
  BY HeapParts
<1> HIDE DEF t, v, pl
<1>3. g = [type |-> t, value |-> v, pool |-> ql]
  BY <1>1
<1>4. g.type = t /\ g.value = v /\ g.pool = ql
  BY ONLY <1>3
<1>4a. IsHeap(g)
  BY ONLY <1>3, <1>4 DEF IsHeap
<1>5. HeapOK(g, y)
  BY <1>2, <1>4, <1>4a DEF HeapOK
<1> QED BY <1>4, <1>5 DEF t, v

\* To give a reference up changes the pool alone.
Lost(pl, a, b) == IF a = "string" THEN Released(pl, b) ELSE pl
IsRecord(h, t, v, pl) == h = [type |-> t, value |-> v, pool |-> pl]

\* The three fields of a heap.
LEMMA HeapIs ==
  ASSUME NEW h, IsHeap(h)
  PROVE  /\ IsRecord(h, h.type, h.value, h.pool)
         /\ \A ql : IsRecord([h EXCEPT !.pool = ql], h.type, h.value, ql)
         /\ \A p, a, b : IsRecord(With(h, p, a, b), [h.type EXCEPT ![p] = a],
                                  [h.value EXCEPT ![p] = b], h.pool)
<1>1. IsRecord(h, h.type, h.value, h.pool)
  BY DEF IsHeap, IsRecord
<1>2. \A ql : IsRecord([h EXCEPT !.pool = ql], h.type, h.value, ql)
  <2> TAKE ql
  <2> DEFINE t == h.type  v == h.value  pl == h.pool
  <2>1. h = [type |-> t, value |-> v, pool |-> pl]
    BY DEF IsHeap
  <2> HIDE DEF t, v, pl
  <2>2. [h EXCEPT !.pool = ql] = [type |-> t, value |-> v, pool |-> ql]
    BY <2>1
  <2> QED BY <2>2 DEF IsRecord, t, v
<1>3. ASSUME NEW p, NEW a, NEW b
      PROVE  IsRecord(With(h, p, a, b), [h.type EXCEPT ![p] = a], [h.value EXCEPT ![p] = b], h.pool)
  <2> DEFINE g == With(h, p, a, b)
  <2>1. IsWith(g, h, p, a, b)
    BY WithIs
  <2> HIDE DEF g
  <2> QED BY <2>1 DEF IsWith, IsHeap, IsRecord, g
<1> QED BY <1>1, <1>2, <1>3

\* What giving up makes of a heap.
LEMMA LossIs ==
  ASSUME NEW h, IsHeap(h), NEW a, NEW b
  PROVE  delete_str_ref(h, a, b) = [h EXCEPT !.pool = Lost(h.pool, a, b)]
<1> DEFINE t == h.type  v == h.value  pl == h.pool  ql == Lost(pl, a, b)
           g == delete_str_ref(h, a, b)
<1>1. h = [type |-> t, value |-> v, pool |-> pl]
  BY DEF IsHeap
<1>2. g = IF a # "string" \/ pl[b].ref = max_str_ref THEN h
          ELSE IF pl[b].ref > 1 THEN [h EXCEPT !.pool[b].ref = @ - 1]
          ELSE [h EXCEPT !.pool = flush_string(@, b)]
  BY DEF delete_str_ref
<1>3. ql = IF a # "string" \/ pl[b].ref = max_str_ref THEN pl
           ELSE IF pl[b].ref > 1 THEN [pl EXCEPT ![b].ref = pl[b].ref - 1] ELSE flush_string(pl, b)
  BY DEF Released, WithRef, Lost
<1> HIDE DEF t, v, pl, ql, g
<1>4. [h EXCEPT !.pool = ql] = [type |-> t, value |-> v, pool |-> ql]
  BY <1>1
<1>8. g = [h EXCEPT !.pool = ql]
  <2>5. CASE a # "string" \/ pl[b].ref = max_str_ref
    BY <1>1, <1>2, <1>3, <1>4, <2>5
  <2>6. CASE ~(a # "string" \/ pl[b].ref = max_str_ref) /\ pl[b].ref > 1
    <3>1. g = [type |-> t, value |-> v, pool |-> [pl EXCEPT ![b].ref = @ - 1]]
      BY <1>1, <1>2, <2>6
    <3> QED BY <1>3, <1>4, <2>6, <3>1
  <2>7. CASE ~(a # "string" \/ pl[b].ref = max_str_ref) /\ ~(pl[b].ref > 1)
    <3>1. g = [type |-> t, value |-> v, pool |-> flush_string(pl, b)]
      BY <1>1, <1>2, <2>7
    <3> QED BY <1>3, <1>4, <2>7, <3>1
  <2> QED BY <2>5, <2>6, <2>7
<1> QED BY <1>8 DEF g, ql, pl

\* A node and a reference can change in either order.
LEMMA LossWith ==
  ASSUME NEW h, IsHeap(h), NEW a, NEW b, NEW p, NEW c, NEW d
  PROVE  With(delete_str_ref(h, a, b), p, c, d) = delete_str_ref(With(h, p, c, d), a, b)
<1> DEFINE t == [h.type EXCEPT ![p] = c]  v == [h.value EXCEPT ![p] = d]  l == Lost(h.pool, a, b)
           g == delete_str_ref(h, a, b)  f == With(h, p, c, d)
<1>1. g = [h EXCEPT !.pool = l]
  BY LossIs
<1>2. IsRecord(g, h.type, h.value, l)
  BY <1>1, HeapIs
<1> HIDE DEF g, l
<1>3. IsHeap(g) /\ g.type = h.type /\ g.value = h.value /\ g.pool = l
  BY ONLY <1>2 DEF IsRecord, IsHeap
<1>4. IsRecord(With(g, p, c, d), [g.type EXCEPT ![p] = c], [g.value EXCEPT ![p] = d], g.pool)
  BY ONLY <1>3, HeapIs
<1>5. IsRecord(With(g, p, c, d), t, v, l)
  BY <1>3, <1>4
<1>6. IsRecord(f, t, v, h.pool)
  BY HeapIs
<1> HIDE DEF f, t, v
<1>7. IsHeap(f) /\ f.type = t /\ f.value = v /\ f.pool = h.pool
  BY ONLY <1>6 DEF IsRecord, IsHeap
<1>8. delete_str_ref(f, a, b) = [f EXCEPT !.pool = l]
  BY <1>7, LossIs DEF l
<1>9. IsRecord(delete_str_ref(f, a, b), t, v, l)
  BY <1>7, <1>8, HeapIs
<1> QED BY <1>5, <1>9 DEF IsRecord, g, f

\* An outside reference is given up.
LEMMA GivenUp ==
  ASSUME NEW h, NEW x \in Tallies, NEW a, NEW b, HeapOK(h, Plus(x, a, b)), a = "string" => b \in Nat,
         NEW g, g = delete_str_ref(h, a, b)
  PROVE  /\ HeapOK(g, x) /\ g.type = h.type /\ g.value = h.value
         /\ SameSaid(h.pool, g.pool) /\ DOMAIN g.pool \subseteq DOMAIN h.pool
<1>1. CASE a # "string"
  <2>1. g = h /\ Plus(x, a, b) = x
    BY <1>1 DEF delete_str_ref, Plus
  <2> QED BY <2>1 DEF SameSaid
<1>2. CASE a = "string"
  <2> DEFINE y == Plus(x, "string", b)  N == Total(h.type, h.value, y)  ql == Released(h.pool, b)
  <2>1. b \in Nat /\ HeapOK(h, y)
    BY <1>2
  <2>2. Counts(h.pool, N) /\ N \in Tallies
    BY <2>1, HeapParts
  <2>3. N[b] # 0 /\ Total(h.type, h.value, x) = [N EXCEPT ![b] = @ - 1]
    BY <2>1, TotalPlus
  <2> HIDE DEF N
  <2>4. Counts(ql, [N EXCEPT ![b] = @ - 1]) /\ SameSaid(h.pool, ql) /\ DOMAIN ql \subseteq DOMAIN h.pool
    BY <2>1, <2>2, <2>3, CountsLess
  <2>5. g = [h EXCEPT !.pool = ql]
    <3>1. IsHeap(h)
      BY <2>1, HeapParts
    <3>2. g = [h EXCEPT !.pool = Lost(h.pool, a, b)]
      BY <3>1, LossIs
    <3> QED BY <1>2, <3>2 DEF Lost
  <2> HIDE DEF ql
  <2>6. HeapOK(g, x) /\ g.type = h.type /\ g.value = h.value /\ g.pool = ql
    <3> HIDE DEF y
    <3>1. Counts(ql, Total(h.type, h.value, x))
      BY <2>3, <2>4
    <3> QED BY <2>1, <2>5, <3>1, PoolChanged
  <2> QED BY <2>4, <2>6
<1> QED BY <1>1, <1>2

\* Somebody outside refers to a string that others refer to.
LEMMA Referred ==
  ASSUME NEW h, NEW x, HeapOK(h, x), NEW a, NEW b, a = "string" => b \in DOMAIN h.pool,
         NEW g, g = add_str_ref(h, a, b, 1)
  PROVE  /\ HeapOK(g, Plus(x, a, b)) /\ g.type = h.type /\ g.value = h.value
         /\ SameSaid(h.pool, g.pool) /\ DOMAIN g.pool = DOMAIN h.pool
<1>1. CASE a # "string"
  <2>1. g = h /\ Plus(x, a, b) = x
    BY <1>1 DEF add_str_ref, Plus
  <2> QED BY <2>1 DEF SameSaid
<1>2. CASE a = "string"
  <2> DEFINE y == Plus(x, "string", b)  N == Total(h.type, h.value, x)
             pl == h.pool  ql == WithRef(pl, b, Least(pl[b].ref + 1, max_str_ref))
  <2>1. Counts(pl, N) /\ N \in Tallies /\ x \in Tallies
    BY HeapParts
  <2>2. b \in Nat /\ b \in DOMAIN pl
    BY <1>2, <2>1, PoolIs DEF Counts
  <2>3. Total(h.type, h.value, y) = [N EXCEPT ![b] = @ + 1] /\ y \in Tallies
    BY <2>1, <2>2, TotalPlus, PlusIs
  <2> HIDE DEF N, pl
  <2>4. Counts(ql, [N EXCEPT ![b] = @ + 1]) /\ SameSaid(pl, ql) /\ DOMAIN ql = DOMAIN pl
    BY <2>1, <2>2, CountsMore
  <2>5. g = [h EXCEPT !.pool = ql]
    <3> DEFINE t == h.type  v == h.value
    <3>1. h = [type |-> t, value |-> v, pool |-> pl]
      BY HeapParts DEF IsHeap, pl
    <3> HIDE DEF t, v
    <3>2. g = [type |-> t, value |-> v, pool |-> [pl EXCEPT ![b].ref = Least(@ + 1, max_str_ref)]]
      BY <1>2, <3>1 DEF add_str_ref
    <3>3. [h EXCEPT !.pool = ql] = [type |-> t, value |-> v, pool |-> ql]
      BY <3>1
    <3> QED BY <3>2, <3>3 DEF WithRef
  <2> HIDE DEF ql, y
  <2>6. HeapOK(g, y) /\ g.type = h.type /\ g.value = h.value /\ g.pool = ql
    <3>1. Counts(ql, Total(h.type, h.value, y))
      BY <2>3, <2>4
    <3> QED BY <2>3, <2>5, <3>1, PoolChanged
  <2> QED BY <1>2, <2>4, <2>6 DEF y, pl
<1> QED BY <1>1, <1>2

\* A new string that somebody outside refers to.
LEMMA StringMade ==
  ASSUME NEW h, NEW x, HeapOK(h, x), NEW w \in Values, NEW g, g = make_string(h, w)
  PROVE  /\ HeapOK(g, Plus(x, "string", Len(h.pool) + 1)) /\ g.type = h.type /\ g.value = h.value
         /\ SameSaid(h.pool, g.pool) /\ DOMAIN g.pool = DOMAIN h.pool \cup {Len(h.pool) + 1}
         /\ g.pool[Len(h.pool) + 1].chars = w /\ Len(h.pool) + 1 \in Nat
         /\ Len(g.pool) = Len(h.pool) + 1
<1> DEFINE pl == h.pool  n == Len(pl) + 1
           N == Total(h.type, h.value, x)  y == Plus(x, "string", n)
           ql == Append(pl, [chars |-> w, ref |-> 1])
<1>1. Counts(pl, N) /\ N \in Tallies /\ x \in Tallies
  BY HeapParts
<1> HIDE DEF N, pl
<1>2. /\ Counts(ql, [N EXCEPT ![n] = @ + 1])
      /\ SameSaid(pl, ql) /\ DOMAIN ql = DOMAIN pl \cup {n}
      /\ ql[n].chars = w /\ n \in Nat
  BY <1>1, CountsNew
<1>2a. Len(ql) = n
  <2>1. pl \in Seq([chars : Values, ref : Nat])
    BY <1>1 DEF Counts
  <2> QED BY <2>1
<1> HIDE DEF n
<1>3. Total(h.type, h.value, y) = [N EXCEPT ![n] = @ + 1] /\ y \in Tallies
  BY <1>1, <1>2, TotalPlus, PlusIs DEF N
<1>4. g = [h EXCEPT !.pool = ql]
  <2> DEFINE t == h.type  v == h.value
  <2>1. h = [type |-> t, value |-> v, pool |-> pl]
    BY HeapParts DEF IsHeap, pl
  <2> HIDE DEF t, v
  <2> QED BY <2>1 DEF make_string
<1> HIDE DEF ql, y
<1>5. HeapOK(g, y) /\ g.type = h.type /\ g.value = h.value /\ g.pool = ql
  <2>1. Counts(ql, Total(h.type, h.value, y))
    BY <1>2, <1>3
  <2> QED BY <1>3, <1>4, <2>1, PoolChanged
<1> QED BY <1>2, <1>2a, <1>5 DEF y, n, pl

-----------------------------------------------------------------------------
(* Operations on rings.                                                    *)

Shape(h) == IsHeap(h) /\ h.type \in [Node -> Tags] /\ h.value = [n \in Node |-> h.value[n]]

Pointed(h, p, b) == [h EXCEPT !.value[p] = b]
IsPointed(g, h, p, b) ==
    IsHeap(g) /\ g.type = h.type /\ g.value = [h.value EXCEPT ![p] = b] /\ g.pool = h.pool

\* One value field changes.
LEMMA PointedIs ==
  ASSUME NEW h, IsHeap(h), NEW p, NEW b
  PROVE  IsPointed(Pointed(h, p, b), h, p, b)
<1> DEFINE t == h.type  v == h.value  pl == h.pool
<1>1. h = [type |-> t, value |-> v, pool |-> pl]
  BY DEF IsHeap
<1> HIDE DEF t, v, pl
<1>2. Pointed(h, p, b) = [type |-> t, value |-> [v EXCEPT ![p] = b], pool |-> pl]
  BY <1>1 DEF Pointed
<1>3. h.type = t /\ h.value = v /\ h.pool = pl
  BY <1>1
<1> QED BY <1>2, <1>3 DEF IsHeap, IsPointed

\* The shapes of what these make.
LEMMA WithShape ==
  ASSUME NEW h, Shape(h), NEW p \in Node, NEW a \in Tags, NEW b, NEW g, g = With(h, p, a, b)
  PROVE  /\ Shape(g) /\ g.pool = h.pool
         /\ \A n \in Node : g.type[n] = IF n = p THEN a ELSE h.type[n]
         /\ \A n \in Node : g.value[n] = IF n = p THEN b ELSE h.value[n]
<1>1. IsWith(g, h, p, a, b)
  BY WithIs DEF Shape
<1> DEFINE t == h.type  v == h.value  r == g.type  w == g.value
<1>2. t \in [Node -> Tags] /\ v = [n \in Node |-> v[n]]
  BY DEF Shape
<1>3. r = [t EXCEPT ![p] = a] /\ w = [v EXCEPT ![p] = b] /\ IsHeap(g) /\ g.pool = h.pool
  BY <1>1 DEF IsWith
<1> HIDE DEF t, v, r, w
<1>4. r \in [Node -> Tags] /\ \A n \in Node : r[n] = IF n = p THEN a ELSE t[n]
  BY ONLY <1>2, <1>3, p \in Node, a \in Tags
<1>5. w = [n \in Node |-> w[n]] /\ \A n \in Node : w[n] = IF n = p THEN b ELSE v[n]
  BY ONLY <1>2, <1>3, p \in Node
<1> QED BY <1>3, <1>4, <1>5 DEF Shape, t, v, r, w

\* The same for value fields alone.
LEMMA PointedShape ==
  ASSUME NEW h, Shape(h), NEW p \in Node, NEW b, NEW g, g = Pointed(h, p, b)
  PROVE  /\ Shape(g) /\ g.pool = h.pool /\ g.type = h.type
         /\ \A n \in Node : g.value[n] = IF n = p THEN b ELSE h.value[n]
<1>1. IsPointed(g, h, p, b)
  BY PointedIs DEF Shape
<1> DEFINE v == h.value  w == g.value
<1>2. h.type \in [Node -> Tags] /\ v = [n \in Node |-> v[n]]
  BY DEF Shape
<1>3. g.type = h.type /\ w = [v EXCEPT ![p] = b] /\ IsHeap(g) /\ g.pool = h.pool
  BY <1>1 DEF IsPointed
<1> HIDE DEF v, w
<1>5. w = [n \in Node |-> w[n]] /\ \A n \in Node : w[n] = IF n = p THEN b ELSE v[n]
  BY ONLY <1>2, <1>3, p \in Node
<1> QED BY <1>2, <1>3, <1>5 DEF Shape, v, w

\* A sound heap has that shape; and what makes a heap of that shape sound.
LEMMA SoundShape ==
  ASSUME NEW h, NEW x, HeapOK(h, x)
  PROVE  Shape(h)
<1>1. IsHeap(h) /\ Typed(h.type, h.value)
  BY HeapParts
<1>2. h.type \in [Node -> Tags] /\ h.value = [n \in Node |-> h.value[n]]
  BY <1>1 DEF Typed
<1> QED BY <1>1, <1>2 DEF Shape

\* The strings and the pool are not touched.
LEMMA RingsChanged ==
  ASSUME NEW h, NEW x, HeapOK(h, x), NEW g, Shape(g), g.pool = h.pool, NEW P,
         Linked(g.type, g.value),
         \A n \in Node : /\ g.type[n] \in known_types =>
                               h.type[n] = g.type[n] /\ h.value[n] = g.value[n]
                         /\ h.type[n] \in known_types /\ n \notin P =>
                               h.type[n] = g.type[n] /\ h.value[n] = g.value[n],
         \A n \in P : h.type[n] # "string"
  PROVE  HeapOK(g, x) /\ Steady(h, g, P)
<1> DEFINE t == h.type  v == h.value  r == g.type  w == g.value
<1>1. /\ Typed(t, v) /\ x \in Tallies /\ Counts(h.pool, Total(t, v, x))
      /\ IsHeap(g) /\ r \in [Node -> Tags] /\ w = [n \in Node |-> w[n]]
  BY HeapParts DEF Shape
<1>2. /\ \A n \in Node : r[n] \in known_types => t[n] = r[n] /\ v[n] = w[n]
      /\ \A n \in Node : t[n] \in known_types /\ n \notin P => t[n] = r[n] /\ v[n] = w[n]
      /\ \A n \in P : t[n] # "string"
  OBVIOUS
<1>3. Linked(r, w) /\ g.pool = h.pool
  OBVIOUS
<1> HIDE DEF t, v, r, w
<1>4. SameUsers(t, v, r, w, {})
  BY <1>2 DEF SameUsers, known_types
<1>5. Total(r, w, x) = Total(t, v, x)
  BY <1>4, TotalSame
<1>6. Typed(r, w)
  BY <1>1, <1>2 DEF Typed, known_types
<1>7. HeapOK(g, x)
  BY <1>1, <1>3, <1>5, <1>6 DEF HeapOK, r, w
<1>8. SameSaid(h.pool, g.pool) /\ DOMAIN g.pool \subseteq DOMAIN h.pool
  BY <1>3 DEF SameSaid
<1>9. Steady(h, g, P)
  BY <1>2, <1>8 DEF Steady, t, v, r, w
<1> QED BY <1>7, <1>9

\* What the entry of q to the ring of p makes of the heap.
LEMMA EntryIs ==
  ASSUME NEW h, Shape(h), NEW p \in Node, NEW q \in Node, p # q, NEW g, g = new_ring_entry(h, p, q)
  PROVE  /\ Shape(g) /\ g.pool = h.pool
         /\ \A n \in Node : g.type[n] = IF n = q THEN h.type[p] ELSE h.type[n]
         /\ \A n \in Node : g.value[n] = IF n = p THEN q ELSE IF n = q THEN Behind(h.value, p)
                                         ELSE h.value[n]
<1> DEFINE a == h.type[p]  b == Behind(h.value, p)  f == With(h, q, a, b)
<1>1. a \in Tags
  BY DEF Shape
<1>2. g = Pointed(f, p, q)
  BY DEF new_ring_entry, Behind, With, Pointed
<1> HIDE DEF a, b, f
<1>3. /\ Shape(f) /\ f.pool = h.pool
      /\ \A n \in Node : f.type[n] = IF n = q THEN a ELSE h.type[n]
      /\ \A n \in Node : f.value[n] = IF n = q THEN b ELSE h.value[n]
  BY <1>1, WithShape DEF f
<1>4. /\ Shape(g) /\ g.pool = f.pool /\ g.type = f.type
      /\ \A n \in Node : g.value[n] = IF n = p THEN q ELSE f.value[n]
  BY <1>2, <1>3, PointedShape
<1> QED BY <1>3, <1>4 DEF a, b

\* A node enters the ring of p.
LEMMA Entered ==
  ASSUME NEW h, NEW x, HeapOK(h, x), NEW p \in Node, h.type[p] \in unknown_types,
         NEW q \in Node, h.type[q] \notin known_types \cup unknown_types,
         NEW g, g = new_ring_entry(h, p, q)
  PROVE  /\ HeapOK(g, x) /\ Steady(h, g, {}) /\ g.pool = h.pool
         /\ \A n \in Node : g.type[n] = IF n = q THEN h.type[p] ELSE h.type[n]
<1> DEFINE t == h.type  v == h.value  r == g.type  w == g.value  b == Behind(v, p)
<1>0. p # q
  OBVIOUS
<1>1. /\ Shape(g) /\ g.pool = h.pool
      /\ \A n \in Node : r[n] = IF n = q THEN t[p] ELSE t[n]
      /\ \A n \in Node : w[n] = IF n = p THEN q ELSE IF n = q THEN b ELSE v[n]
  BY <1>0, SoundShape, EntryIs
<1>2. Linked(t, v)
  BY HeapParts
<1>3. /\ t[p] \in unknown_types /\ t[q] \notin known_types /\ t[q] \notin unknown_types
      /\ known_types \cap unknown_types = {}
  BY TypeNames DEF known_types
<1> HIDE DEF t, v, r, w
<1>4. b \in Node /\ t[b] = t[p] /\ b # q /\ null \notin Node
  BY <1>2, <1>3, RingsAssumption DEF Linked, Node
<1>5. Linked(r, w)
  <2>0. \A n \in Node : Behind(w, n) = IF n = p THEN q ELSE IF n = q THEN b ELSE Behind(v, n)
    BY <1>0, <1>1, <1>4 DEF Behind
  <2>1. \A n \in Node : n # q /\ r[n] \in unknown_types => t[n] = r[n]
    BY <1>1
  <2>2. \A n \in Node : t[n] \in unknown_types =>
           /\ Behind(v, n) \in Node /\ t[Behind(v, n)] = t[n] /\ Behind(v, n) # q
           /\ n \in Capsules => v[n] # null
           /\ n # p => Behind(v, n) # b
           /\ \A m \in Node : t[m] \in unknown_types /\ Behind(v, m) = Behind(v, n) => m = n
    BY <1>2, <1>3 DEF Linked
  <2> SUFFICES ASSUME NEW n \in Node, r[n] \in unknown_types
               PROVE  /\ Behind(w, n) \in Node /\ r[Behind(w, n)] = r[n]
                      /\ n \in Capsules => w[n] # null
                      /\ \A m \in Node : r[m] \in unknown_types /\ Behind(w, m) = Behind(w, n) => m = n
    BY DEF Linked
  <2>3. CASE n = p
    <3>1. Behind(w, n) = q /\ w[n] = q
      BY <1>1, <2>0, <2>3
    <3>2. \A m \in Node : r[m] \in unknown_types /\ Behind(w, m) = q => m = p
      BY <1>4, <2>0, <2>1, <2>2
    <3> QED BY <1>0, <1>1, <1>4, <2>3, <3>1, <3>2
  <2>4. CASE n = q
    <3>1. Behind(w, n) = b /\ w[n] = b
      BY <1>0, <1>1, <2>0, <2>4
    <3>2. \A m \in Node : r[m] \in unknown_types /\ Behind(w, m) = b => m = q
      BY <1>4, <2>0, <2>1, <2>2
    <3> QED BY <1>1, <1>4, <2>4, <3>1, <3>2
  <2>5. CASE n # p /\ n # q
    <3>1. Behind(w, n) = Behind(v, n) /\ w[n] = v[n] /\ t[n] = r[n] /\ t[n] \in unknown_types
      BY <1>1, <2>0, <2>1, <2>5
    <3>2. r[Behind(v, n)] = t[n] /\ Behind(v, n) \in Node /\ (n \in Capsules => v[n] # null)
      BY <1>1, <2>2, <3>1
    <3>3. ASSUME NEW m \in Node, r[m] \in unknown_types, Behind(w, m) = Behind(v, n) PROVE m = n
      <4>1. m # p /\ m # q
        BY <2>0, <2>2, <2>5, <3>1, <3>3
      <4> QED BY <2>0, <2>1, <2>2, <3>1, <3>3, <4>1
    <3> QED BY <3>1, <3>2, <3>3
  <2> QED BY <2>3, <2>4, <2>5
<1>6. \A n \in Node : /\ r[n] \in known_types => t[n] = r[n] /\ v[n] = w[n]
                      /\ t[n] \in known_types => t[n] = r[n] /\ v[n] = w[n]
  BY <1>1, <1>3
<1>7. HeapOK(g, x) /\ Steady(h, g, {})
  <2> DEFINE P == {}
  <2>1. \A n \in Node : /\ g.type[n] \in known_types =>
                               h.type[n] = g.type[n] /\ h.value[n] = g.value[n]
                        /\ h.type[n] \in known_types /\ n \notin P =>
                               h.type[n] = g.type[n] /\ h.value[n] = g.value[n]
    BY <1>6 DEF t, v, r, w
  <2>2. \A n \in P : h.type[n] # "string"
    OBVIOUS
  <2>3. Linked(g.type, g.value) /\ Shape(g) /\ g.pool = h.pool /\ HeapOK(h, x)
    BY <1>1, <1>5 DEF r, w
  <2> HIDE DEF P
  <2>4. HeapOK(g, x) /\ Steady(h, g, P)
    BY ONLY <2>1, <2>2, <2>3, RingsChanged
  <2> QED BY <2>4 DEF P
<1> QED BY <1>1, <1>7 DEF t, r

\* What deleting p from its ring makes of the heap: the one before p now points
\* behind p, if that is another.
LEMMA LeftRing ==
  ASSUME NEW h, Shape(h), Linked(h.type, h.value), NEW p \in Node, h.type[p] \in unknown_types,
         NEW g, g = ring_delete(h, p)
  PROVE  /\ Shape(g) /\ g.pool = h.pool /\ g.type = h.type
         /\ \A n \in Node : h.type[n] \notin unknown_types => g.value[n] = h.value[n]
         /\ \A n \in Node : n # p /\ h.type[n] \in unknown_types =>
               IF Behind(h.value, n) = p THEN g.value[n] = Behind(h.value, p) /\ g.value[n] # null
               ELSE g.value[n] = h.value[n]
<1> DEFINE v == h.value  t == h.type
<1>1. Behind(v, p) \in Node /\ t[Behind(v, p)] = t[p]
      /\ \A m \in Node : t[m] \in unknown_types /\ Behind(v, m) = Behind(v, p) => m = p
  BY DEF Linked
<1>2. CASE v[p] \in {null, p}
  <2>1. g = h
    BY <1>2 DEF ring_delete
  <2>2. Behind(v, p) = p
    BY <1>2 DEF Behind
  <2>3. \A n \in Node : n # p /\ t[n] \in unknown_types => Behind(v, n) # p
    BY <1>1, <2>2
  <2> QED BY <2>1, <2>3
<1>3. CASE v[p] \notin {null, p}
  <2> DEFINE q == CHOOSE q \in Ring(h, p) : h.value[q] = p
  <2>1. g = Pointed(h, q, v[p])
    BY <1>3 DEF ring_delete, Pointed
  <2>2. Behind(v, p) = v[p] /\ v[p] # p /\ v[p] # null
    BY <1>3 DEF Behind
  <2>3. \E n \in Ring(h, p) : h.value[n] = p
    <3>1. PICK n \in Ring(h, p) : Behind(v, n) = p
      BY RingMembers
    <3> QED BY <2>2, <3>1 DEF Behind
  <2>4. q \in Ring(h, p) /\ v[q] = p
    BY <2>3
  <2> HIDE DEF q
  <2>5. q \in Node /\ t[q] = t[p] /\ q # p
    BY <2>2, <2>4, RingMembers
  <2>6. Behind(v, q) = p
    BY <2>4, RingsAssumption DEF Behind, Node
  <2>7. \A n \in Node : t[n] \in unknown_types /\ Behind(v, n) = p => n = q
    BY <2>5, <2>6 DEF Linked
  <2>8. /\ Shape(g) /\ g.pool = h.pool /\ g.type = h.type
        /\ \A n \in Node : g.value[n] = IF n = q THEN v[p] ELSE v[n]
    BY <2>1, <2>5, PointedShape
  <2> QED BY <2>2, <2>5, <2>6, <2>7, <2>8
<1> QED BY <1>2, <1>3

\* An unknown quantity is recycled: its ring closes behind it.
LEMMA UnknownRecycled ==
  ASSUME NEW h, NEW x, HeapOK(h, x), NEW p \in Node, h.type[p] \in unknown_types,
         NEW g, g = recycle_value(h, p)
  PROVE  /\ HeapOK(g, x) /\ Steady(h, g, {}) /\ g.pool = h.pool
         /\ \A n \in Node : g.type[n] = IF n = p THEN "undefined" ELSE h.type[n]
         /\ g.value[p] = null
         /\ \A n \in Node : n # p /\ h.type[n] \in unknown_types =>
               Behind(g.value, n) = IF Behind(h.value, n) = p THEN Behind(h.value, p)
                                    ELSE Behind(h.value, n)
<1> DEFINE t == h.type  v == h.value  r == g.type  w == g.value  b == Behind(v, p)
           f == ring_delete(h, p)
<1>1. Shape(h) /\ Linked(t, v)
  BY SoundShape, HeapParts
<1>2. g = With(f, p, "undefined", null)
  BY DEF recycle_value, With
<1>3. /\ Shape(f) /\ f.pool = h.pool /\ f.type = t
      /\ \A n \in Node : t[n] \notin unknown_types => f.value[n] = v[n]
      /\ \A n \in Node : n # p /\ t[n] \in unknown_types =>
            IF Behind(v, n) = p THEN f.value[n] = b /\ f.value[n] # null ELSE f.value[n] = v[n]
  BY <1>1, LeftRing
<1> HIDE DEF f
<1>4. "undefined" \in Tags /\ "undefined" \notin unknown_types /\ "undefined" \notin known_types
      /\ known_types \cap unknown_types = {}
  BY TypeNames DEF known_types
<1>5. /\ Shape(g) /\ g.pool = h.pool
      /\ \A n \in Node : r[n] = IF n = p THEN "undefined" ELSE t[n]
      /\ \A n \in Node : w[n] = IF n = p THEN null ELSE f.value[n]
  BY <1>2, <1>3, <1>4, WithShape
<1> HIDE DEF r, w, t, v
<1>5a. t[p] \in unknown_types
  BY DEF t
<1>6. \A n \in Node : n # p /\ t[n] \in unknown_types =>
         /\ Behind(w, n) = IF Behind(v, n) = p THEN b ELSE Behind(v, n)
         /\ v[n] # null => w[n] # null
  BY <1>3, <1>5 DEF Behind
<1>7. Linked(r, w)
  <2> SUFFICES ASSUME NEW n \in Node, r[n] \in unknown_types
               PROVE  /\ Behind(w, n) \in Node /\ r[Behind(w, n)] = r[n]
                      /\ n \in Capsules => w[n] # null
                      /\ \A m \in Node : r[m] \in unknown_types /\ Behind(w, m) = Behind(w, n) => m = n
    BY DEF Linked
  <2>1. \A m \in Node : r[m] \in unknown_types => t[m] = r[m] /\ m # p
    BY <1>4, <1>5
  <2>2. \A m \in Node : t[m] \in unknown_types =>
           /\ Behind(v, m) \in Node /\ t[Behind(v, m)] = t[m] /\ (m \in Capsules => v[m] # null)
           /\ \A k \in Node : t[k] \in unknown_types /\ Behind(v, k) = Behind(v, m) => k = m
    BY <1>1 DEF Linked
  <2>3. b \in Node /\ t[b] = t[p] /\ \A m \in Node : m # p /\ t[m] \in unknown_types => Behind(v, m) # b
    BY <1>5a, <2>2
  <2>4. CASE Behind(v, n) = p
    <3>1. b # p
      <4>1. n # p /\ t[n] \in unknown_types
        BY <2>1
      <4> QED BY <2>3, <2>4, <4>1
    <3>2. t[p] = t[n]
      BY <2>1, <2>2, <2>4
    <3> QED BY <1>5, <1>6, <2>1, <2>2, <2>3, <2>4, <3>1, <3>2
  <2>5. CASE Behind(v, n) # p
    <3>1. Behind(w, n) = Behind(v, n) /\ t[n] = r[n] /\ n # p
      BY <1>6, <2>1, <2>5
    <3>2. r[Behind(v, n)] = t[n] /\ Behind(v, n) \in Node /\ (n \in Capsules => w[n] # null)
      BY <1>5, <1>6, <2>1, <2>2, <2>5, <3>1
    <3>3. ASSUME NEW m \in Node, r[m] \in unknown_types, Behind(w, m) = Behind(v, n) PROVE m = n
      <4>1. t[m] \in unknown_types /\ m # p /\ t[n] \in unknown_types
        BY <2>1, <3>3
      <4>2. Behind(v, m) # p
        BY <1>6, <2>3, <3>1, <3>3, <4>1
      <4> QED BY <1>6, <2>2, <3>3, <4>1, <4>2
    <3> QED BY <3>1, <3>2, <3>3
  <2> QED BY <2>4, <2>5
<1>8. \A n \in Node : /\ r[n] \in known_types => t[n] = r[n] /\ v[n] = w[n]
                      /\ t[n] \in known_types => t[n] = r[n] /\ v[n] = w[n]
  BY <1>3, <1>4, <1>5, <1>5a
<1>9. HeapOK(g, x) /\ Steady(h, g, {})
  <2> DEFINE P == {}
  <2>1. \A n \in Node : /\ g.type[n] \in known_types =>
                               h.type[n] = g.type[n] /\ h.value[n] = g.value[n]
                        /\ h.type[n] \in known_types /\ n \notin P =>
                               h.type[n] = g.type[n] /\ h.value[n] = g.value[n]
    BY <1>8 DEF t, v, r, w
  <2>2. \A n \in P : h.type[n] # "string"
    OBVIOUS
  <2>3. Linked(g.type, g.value) /\ Shape(g) /\ g.pool = h.pool /\ HeapOK(h, x)
    BY <1>5, <1>7 DEF r, w
  <2> HIDE DEF P
  <2>4. HeapOK(g, x) /\ Steady(h, g, P)
    BY ONLY <2>1, <2>2, <2>3, RingsChanged
  <2> QED BY <2>4 DEF P
<1> QED BY <1>5, <1>6, <1>9 DEF t, v, r, w, b

\* Another one is recycled: a string loses a reference.
LEMMA KnownRecycled ==
  ASSUME NEW h, NEW x, HeapOK(h, x), NEW p \in Node, h.type[p] \notin unknown_types,
         NEW g, g = recycle_value(h, p)
  PROVE  /\ HeapOK(g, x) /\ Steady(h, g, {p})
         /\ \A n \in Node : g.type[n] = IF n = p THEN "undefined" ELSE h.type[n]
         /\ \A n \in Node : g.value[n] = IF n = p THEN null ELSE h.value[n]
<1> DEFINE a == h.type[p]  b == h.value[p]  f == With(h, p, "undefined", null)
<1>1. IsHeap(h) /\ Shape(h) /\ x \in Tallies /\ Typed(h.type, h.value)
  BY HeapParts, SoundShape
<1>2. g = With(delete_str_ref(h, a, b), p, "undefined", null)
  BY DEF recycle_value, With
<1>3. g = delete_str_ref(f, a, b)
  BY <1>1, <1>2, LossWith
<1>4. "undefined" \in Tags /\ "undefined" \notin unknown_types /\ "undefined" \notin known_types
      /\ "undefined" \in Tags \ (known_types \cup unknown_types)
  BY TypeNames DEF known_types
<1>5. HeapOK(f, Plus(x, a, b)) /\ Steady(h, f, {p})
  BY <1>4, GivenAway
<1>6. /\ \A n \in Node : f.type[n] = IF n = p THEN "undefined" ELSE h.type[n]
      /\ \A n \in Node : f.value[n] = IF n = p THEN null ELSE h.value[n]
  BY <1>1, <1>4, WithShape
<1>7. a = "string" => b \in Nat
  BY <1>1 DEF Typed
<1> HIDE DEF f, a, b
<1>8. /\ HeapOK(g, x) /\ g.type = f.type /\ g.value = f.value
      /\ SameSaid(f.pool, g.pool) /\ DOMAIN g.pool \subseteq DOMAIN f.pool
  BY <1>1, <1>3, <1>5, <1>7, GivenUp
<1>9. Steady(h, g, {p})
  <2>1. SameSaid(h.pool, g.pool) /\ DOMAIN g.pool \subseteq DOMAIN h.pool
    BY <1>5, <1>8 DEF Steady, SameSaid
  <2> QED BY <1>5, <1>8, <2>1 DEF Steady
<1> QED BY <1>6, <1>8, <1>9

\* Whatever it is, it is recycled.
LEMMA ValueRecycled ==
  ASSUME NEW h, NEW x, HeapOK(h, x), NEW p \in Node, NEW g, g = recycle_value(h, p)
  PROVE  /\ HeapOK(g, x) /\ Steady(h, g, {p})
         /\ \A n \in Node : g.type[n] = IF n = p THEN "undefined" ELSE h.type[n]
         /\ g.value[p] = null
<1>1. CASE h.type[p] \in unknown_types
  <2>1. HeapOK(g, x) /\ Steady(h, g, {}) /\ g.value[p] = null
        /\ \A n \in Node : g.type[n] = IF n = p THEN "undefined" ELSE h.type[n]
    BY <1>1, UnknownRecycled
  <2>2. Steady(h, g, {p})
    BY <2>1 DEF Steady
  <2> QED BY <2>1, <2>2
<1>2. CASE h.type[p] \notin unknown_types
  BY <1>2, KnownRecycled
<1> QED BY <1>1, <1>2

\* A node is freed that has no value, or whose value somebody has.
LEMMA NodeFreed ==
  ASSUME NEW h, NEW x, HeapOK(h, x), NEW p \in Node, h.type[p] \notin unknown_types,
         NEW g, g = Freed(h, p)
  PROVE  /\ HeapOK(g, Plus(x, h.type[p], h.value[p])) /\ Steady(h, g, {p}) /\ g.pool = h.pool
         /\ \A n \in Node : g.type[n] = IF n = p THEN "free" ELSE h.type[n]
         /\ \A n \in Node : g.value[n] = IF n = p THEN null ELSE h.value[n]
<1>1. g = With(h, p, "free", null)
  BY DEF Freed, With
<1>2. "free" \in Tags /\ "free" \in Tags \ (known_types \cup unknown_types)
  BY TypeNames DEF known_types
<1>3. Shape(h)
  BY SoundShape
<1> QED BY <1>1, <1>2, <1>3, GivenAway, WithShape

\* A capsule is recycled and freed.
LEMMA CapsuleRecycled ==
  ASSUME NEW h, NEW x, HeapOK(h, x), NEW p \in Node, NEW g, g = Recycled(h, p)
  PROVE  /\ HeapOK(g, x) /\ Steady(h, g, {p})
         /\ \A n \in Node : g.type[n] = IF n = p THEN "free" ELSE h.type[n]
<1> DEFINE f == recycle_value(h, p)
<1>1. /\ HeapOK(f, x) /\ Steady(h, f, {p})
      /\ \A n \in Node : f.type[n] = IF n = p THEN "undefined" ELSE h.type[n]
  BY ValueRecycled
<1>2. g = Freed(f, p)
  BY DEF Recycled
<1> HIDE DEF f
<1>3. f.type[p] = "undefined" /\ f.type[p] \notin unknown_types
  BY <1>1, TypeNames
<1>4. /\ HeapOK(g, Plus(x, f.type[p], f.value[p])) /\ Steady(f, g, {p})
      /\ \A n \in Node : g.type[n] = IF n = p THEN "free" ELSE f.type[n]
  BY <1>1, <1>2, <1>3, NodeFreed
<1>5. Plus(x, f.type[p], f.value[p]) = x
  BY <1>3 DEF Plus
<1>6. Steady(h, g, {p})
  BY <1>1, <1>4 DEF Steady, SameSaid
<1> QED BY <1>1, <1>4, <1>5, <1>6

-----------------------------------------------------------------------------
(* Equations.                                                              *)

\* A value that a quantity of type a can have.
Fits(h, a, b) == (a = "boolean" => b \in Values) /\ (a = "string" => b \in DOMAIN h.pool)

\* The members of the ring of p that get the value.
Settled(h, p, fl) == IF fl /\ h.value[p] # p THEN Ring(h, p) \ {p} ELSE Ring(h, p)

IsSettled(g, h, p, b, t, S) ==
    /\ IsHeap(g)
    /\ g.type = [n \in Node |-> IF n \in S THEN t ELSE IF n = p THEN "vacuous" ELSE h.type[n]]
    /\ g.value = [n \in Node |-> IF n \in S THEN b ELSE h.value[n]]
    /\ g.pool = IF t = "string"
                THEN WithRef(h.pool, b, Least(h.pool[b].ref + Cardinality(S), max_str_ref))
                ELSE h.pool

\* The fields of what nonlinear_eq makes of the heap.
LEMMA SettledIs ==
  ASSUME NEW h, Shape(h), NEW b, NEW p \in Node, NEW fl, NEW t, t = known_type[h.type[p]],
         NEW S, S = Settled(h, p, fl), NEW g, g = nonlinear_eq(h, b, p, fl)
  PROVE  IsSettled(g, h, p, b, t, S)
<1> DEFINE ty == h.type  va == h.value  pl == h.pool
           r == [n \in Node |-> IF n \in S THEN t ELSE IF n = p THEN "vacuous" ELSE ty[n]]
           w == [n \in Node |-> IF n \in S THEN b ELSE va[n]]
           f == [h EXCEPT !.type = [n \in Node |-> IF n \in S THEN t
                                                   ELSE IF n = p THEN "vacuous" ELSE @[n]],
                          !.value = [n \in Node |-> IF n \in S THEN b ELSE @[n]]]
           k == Cardinality(S)
<1>1. h = [type |-> ty, value |-> va, pool |-> pl]
  BY DEF Shape, IsHeap
<1>2. g = add_str_ref(f, t, b, k)
  BY DEF nonlinear_eq, Settled
<1>3. f = [h EXCEPT !.type = r, !.value = w]
  OBVIOUS
<1> HIDE DEF f, r, w, ty, va, pl, k
<1>4. f = [type |-> r, value |-> w, pool |-> pl]
  BY ONLY <1>1, <1>3
<1>5. g = [type |-> r, value |-> w,
           pool |-> IF t = "string" THEN WithRef(pl, b, Least(pl[b].ref + k, max_str_ref)) ELSE pl]
  <2>1. CASE t = "string"
    <3>1. g = [type |-> r, value |-> w, pool |-> [pl EXCEPT ![b].ref = Least(@ + k, max_str_ref)]]
      BY ONLY <1>2, <1>4, <2>1 DEF add_str_ref
    <3> QED BY ONLY <2>1, <3>1 DEF WithRef
  <2>2. CASE t # "string"
    BY ONLY <1>2, <1>4, <2>2 DEF add_str_ref
  <2> QED BY <2>1, <2>2
<1>6. g.type = r /\ g.value = w
      /\ g.pool = IF t = "string" THEN WithRef(pl, b, Least(pl[b].ref + k, max_str_ref)) ELSE pl
  BY ONLY <1>5
<1>7. IsHeap(g)
  BY ONLY <1>5, <1>6 DEF IsHeap
<1> QED BY <1>6, <1>7 DEF IsSettled, r, w, ty, va, pl, k

\* A whole ring gets a value.
LEMMA RingSettled ==
  ASSUME NEW h, NEW x, HeapOK(h, x), NEW p \in Node, h.type[p] \in unknown_types, NEW fl,
         NEW b, NEW t, t = known_type[h.type[p]], Fits(h, t, b),
         NEW g, g = nonlinear_eq(h, b, p, fl)
  PROVE  /\ HeapOK(g, x) /\ Steady(h, g, {}) /\ DOMAIN g.pool = DOMAIN h.pool
         /\ t \in known_types
         /\ \A n \in Node : n \notin Ring(h, p) => g.type[n] = h.type[n] /\ g.value[n] = h.value[n]
         /\ \A n \in Node : n \in Ring(h, p) /\ n # p => g.type[n] = t /\ g.value[n] = b
         /\ IF fl /\ h.value[p] # p THEN g.type[p] = "vacuous"
            ELSE g.type[p] = t /\ g.value[p] = b
<1> DEFINE ty == h.type  va == h.value  r == g.type  w == g.value
           S == Settled(h, p, fl)  R == Ring(h, p)  N == Total(ty, va, x)
<1>1. /\ Shape(h) /\ x \in Tallies /\ Typed(ty, va) /\ Linked(ty, va) /\ Counts(h.pool, N)
      /\ N \in Tallies
  BY HeapParts, SoundShape
<1>2. /\ t \in known_types /\ t \notin unknown_types /\ t \in Tags /\ "vacuous" \in Tags
      /\ "vacuous" \notin unknown_types /\ "vacuous" \notin known_types
      /\ known_types \cap unknown_types = {}
  BY TypeNames DEF known_types
<1>3. /\ IsHeap(g)
      /\ r = [n \in Node |-> IF n \in S THEN t ELSE IF n = p THEN "vacuous" ELSE ty[n]]
      /\ w = [n \in Node |-> IF n \in S THEN b ELSE va[n]]
      /\ g.pool = IF t = "string"
                  THEN WithRef(h.pool, b, Least(h.pool[b].ref + Cardinality(S), max_str_ref))
                  ELSE h.pool
  <2>1. S = Settled(h, p, fl)
    OBVIOUS
  <2> HIDE DEF S, r, w, ty, va
  <2>2. IsSettled(g, h, p, b, t, S)
    BY <1>1, <2>1, SettledIs
  <2> QED BY <2>2 DEF IsSettled, r, w, ty, va
<1>4. /\ p \in R /\ IsFiniteSet(R)
      /\ \A n \in R : n \in Node /\ ty[n] = ty[p] /\ Behind(va, n) \in R
      /\ \A n \in Node : ty[n] \in unknown_types /\ Behind(va, n) \in R => n \in R
  BY <1>1, RingMembers
<1>5. ty[p] \in unknown_types
  OBVIOUS
<1>6. /\ S \subseteq R /\ \A n \in R : n # p => n \in S
      /\ p \in S <=> ~(fl /\ va[p] # p)
  <2> HIDE DEF R
  <2> QED BY <1>4 DEF Settled, R
<1> HIDE DEF ty, va, r, w, S, R, N
<1>7. /\ r \in [Node -> Tags] /\ w = [n \in Node |-> w[n]]
      /\ \A n \in Node : r[n] = IF n \in S THEN t ELSE IF n = p THEN "vacuous" ELSE ty[n]
      /\ \A n \in Node : w[n] = IF n \in S THEN b ELSE va[n]
  <2>1. ty \in [Node -> Tags]
    BY <1>1 DEF Typed
  <2> QED BY <1>2, <1>3, <2>1
<1>8. (t = "boolean" => b \in Values) /\ (t = "string" => b \in DOMAIN h.pool /\ b \in Nat)
  <2>1. h.pool \in Seq([chars : Values, ref : Nat])
    BY <1>1 DEF Counts
  <2> QED BY <2>1, PoolIs DEF Fits
<1>9. Typed(r, w)
  <2>1. /\ \A n \in Node : ty[n] = "boolean" => va[n] \in Values
        /\ \A n \in Node : ty[n] = "string" => va[n] \in Nat
    BY <1>1 DEF Typed
  <2>2. \A n \in Node : r[n] = "boolean" => w[n] \in Values
    BY <1>7, <1>8, <2>1
  <2>3. \A n \in Node : r[n] = "string" => w[n] \in Nat
    BY <1>7, <1>8, <2>1
  <2> QED BY <1>7, <2>2, <2>3 DEF Typed
<1>10. \A n \in Node : n \notin R => r[n] = ty[n] /\ w[n] = va[n] /\ Behind(w, n) = Behind(va, n)
  BY <1>4, <1>6, <1>7 DEF Behind
<1>11. \A n \in Node : n \in R => r[n] \in {t, "vacuous"}
  BY <1>6, <1>7
<1>12. Linked(r, w)
  <2> SUFFICES ASSUME NEW n \in Node, r[n] \in unknown_types
               PROVE  /\ Behind(w, n) \in Node /\ r[Behind(w, n)] = r[n]
                      /\ n \in Capsules => w[n] # null
                      /\ \A m \in Node : r[m] \in unknown_types /\ Behind(w, m) = Behind(w, n) => m = n
    BY DEF Linked
  <2>1. \A m \in Node : r[m] \in unknown_types => m \notin R
    BY <1>2, <1>11
  <2>2. /\ Behind(va, n) \in Node /\ ty[Behind(va, n)] = ty[n] /\ (n \in Capsules => va[n] # null)
        /\ \A m \in Node : ty[m] \in unknown_types /\ Behind(va, m) = Behind(va, n) => m = n
        /\ ty[n] \in unknown_types
    BY <1>1, <1>10, <2>1 DEF Linked
  <2>3. Behind(va, n) \notin R
    BY <1>4, <2>1, <2>2
  <2> QED BY <1>10, <2>1, <2>2, <2>3
<1>13. Counts(g.pool, Total(r, w, x)) /\ SameSaid(h.pool, g.pool) /\ DOMAIN g.pool = DOMAIN h.pool
  <2>0. SameUsers(ty, va, r, w, S)
    <3>1. ty[p] # "string"
      BY <1>5, TypeNames
    <3> QED BY <1>7, <3>1 DEF SameUsers
  <2>1. CASE t = "string"
    <3>1. S \in SUBSET Node /\ b \in Nat
      BY <1>4, <1>6, <1>8, <2>1
    <3>2. \A n \in S : ty[n] # "string" /\ r[n] = "string" /\ w[n] = b
      BY <1>4, <1>5, <1>6, <1>7, <2>1, <3>1, TypeNames
    <3> DEFINE k == Cardinality(S)  L == Total(r, w, x)
    <3>3. L = [N EXCEPT ![b] = @ + k] /\ k \in Nat
      <4>1. Total(r, w, x) = [Total(ty, va, x) EXCEPT ![b] = @ + Cardinality(S)] /\ Cardinality(S) \in Nat
        BY ONLY <1>1, <2>0, <3>1, <3>2, TotalJoined
      <4> QED BY <4>1 DEF N
    <3>4. g.pool = WithRef(h.pool, b, Least(h.pool[b].ref + k, max_str_ref)) /\ b \in DOMAIN h.pool
      BY <1>3, <1>8, <2>1
    <3> DEFINE pl == h.pool
    <3> HIDE DEF k, L, pl
    <3>5. /\ Counts(WithRef(pl, b, Least(pl[b].ref + k, max_str_ref)), [N EXCEPT ![b] = @ + k])
          /\ SameSaid(pl, WithRef(pl, b, Least(pl[b].ref + k, max_str_ref)))
          /\ DOMAIN WithRef(pl, b, Least(pl[b].ref + k, max_str_ref)) = DOMAIN pl
      <4>1. Counts(pl, N) /\ N \in Tallies /\ b \in DOMAIN pl /\ k \in Nat
        BY <1>1, <3>3, <3>4 DEF pl
      <4> QED BY ONLY <4>1, CountsMore
    <3> QED BY <3>3, <3>4, <3>5 DEF L, pl
  <2>2. CASE t # "string"
    <3>1. SameUsers(ty, va, r, w, {})
      <4>1. \A n \in S : ty[n] # "string" /\ r[n] # "string"
        BY <1>4, <1>5, <1>6, <1>7, <2>2, TypeNames
      <4> QED BY <2>0, <4>1 DEF SameUsers
    <3>2. Total(r, w, x) = N
      BY <3>1, TotalSame DEF N
    <3>3. g.pool = h.pool
      BY <1>3, <2>2
    <3> QED BY <1>1, <3>2, <3>3 DEF SameSaid
  <2> QED BY <2>1, <2>2
<1>14. HeapOK(g, x)
  BY <1>1, <1>3, <1>9, <1>12, <1>13 DEF HeapOK, r, w
<1>15. Steady(h, g, {})
  <2>1. \A n \in Node : ty[n] \in known_types => r[n] = ty[n] /\ w[n] = va[n]
    BY <1>2, <1>4, <1>5, <1>10
  <2> QED BY <1>13, <2>1 DEF Steady, ty, va, r, w
<1>16. \A n \in Node : n \in R /\ n # p => r[n] = t /\ w[n] = b
  BY <1>6, <1>7
<1>17. IF fl /\ va[p] # p THEN r[p] = "vacuous" ELSE r[p] = t /\ w[p] = b
  BY <1>6, <1>7
<1> QED BY <1>2, <1>10, <1>13, <1>14, <1>15, <1>16, <1>17 DEF ty, va, r, w, R

\* Two rings become one.
LEMMA RingsMerged ==
  ASSUME NEW h, NEW x, HeapOK(h, x), NEW p \in Capsules, NEW q \in Capsules,
         h.type[p] \in unknown_types, h.type[q] = h.type[p], q \notin Ring(h, p),
         NEW g, g = ring_merge(h, p, q)
  PROVE  /\ HeapOK(g, x) /\ Steady(h, g, {}) /\ g.type = h.type /\ g.pool = h.pool
         /\ \A n \in Node : Behind(g.value, n) = IF n = p THEN Behind(h.value, q)
                               ELSE IF n = q THEN Behind(h.value, p) ELSE Behind(h.value, n)
<1> DEFINE t == h.type  v == h.value  w == g.value  f == Pointed(h, p, v[q])
<1>1. Shape(h) /\ Linked(t, v) /\ p \in Node /\ q \in Node
  BY SoundShape, HeapParts DEF Node
<1>2. p # q
  BY <1>1, RingMembers
<1>3. g = Pointed(f, q, v[p])
  BY DEF ring_merge, Pointed
<1> HIDE DEF f
<1>4. /\ Shape(f) /\ f.pool = h.pool /\ f.type = t
      /\ \A n \in Node : f.value[n] = IF n = p THEN v[q] ELSE v[n]
  BY <1>1, PointedShape DEF f
<1>5. /\ Shape(g) /\ g.pool = f.pool /\ g.type = f.type
      /\ \A n \in Node : w[n] = IF n = q THEN v[p] ELSE f.value[n]
  BY <1>1, <1>3, <1>4, PointedShape
<1>6. v[p] # null /\ v[q] # null /\ t[p] \in unknown_types /\ t[q] = t[p]
  BY <1>1 DEF Linked
<1> HIDE DEF t, v, w
<1>7. \A n \in Node : /\ w[n] = IF n = p THEN v[q] ELSE IF n = q THEN v[p] ELSE v[n]
                      /\ Behind(w, n) = IF n = p THEN Behind(v, q)
                                        ELSE IF n = q THEN Behind(v, p) ELSE Behind(v, n)
  BY <1>2, <1>4, <1>5, <1>6 DEF Behind
<1>8. Linked(t, w)
  <2>1. \A n \in Node : t[n] \in unknown_types =>
           /\ Behind(v, n) \in Node /\ t[Behind(v, n)] = t[n] /\ (n \in Capsules => v[n] # null)
           /\ \A k \in Node : t[k] \in unknown_types /\ Behind(v, k) = Behind(v, n) => k = n
    BY <1>1 DEF Linked
  <2> SUFFICES ASSUME NEW n \in Node, t[n] \in unknown_types
               PROVE  /\ Behind(w, n) \in Node /\ t[Behind(w, n)] = t[n]
                      /\ n \in Capsules => w[n] # null
                      /\ \A m \in Node : t[m] \in unknown_types /\ Behind(w, m) = Behind(w, n) => m = n
    BY DEF Linked
  <2>2. Behind(w, n) \in Node /\ t[Behind(w, n)] = t[n] /\ (n \in Capsules => w[n] # null)
    BY <1>1, <1>6, <1>7, <2>1
  <2>3. ASSUME NEW m \in Node, t[m] \in unknown_types, Behind(w, m) = Behind(w, n) PROVE m = n
    BY <1>1, <1>2, <1>6, <1>7, <2>1, <2>3
  <2> QED BY <2>2, <2>3
<1>9. \A n \in Node : t[n] \in known_types => w[n] = v[n]
  BY <1>6, <1>7, TypeNames DEF known_types
<1>10. HeapOK(g, x) /\ Steady(h, g, {})
  <2> DEFINE P == {}
  <2>1. \A n \in Node : /\ g.type[n] \in known_types =>
                               h.type[n] = g.type[n] /\ h.value[n] = g.value[n]
                        /\ h.type[n] \in known_types /\ n \notin P =>
                               h.type[n] = g.type[n] /\ h.value[n] = g.value[n]
    BY <1>4, <1>5, <1>9 DEF t, v, w
  <2>2. \A n \in P : h.type[n] # "string"
    OBVIOUS
  <2>3. Linked(g.type, g.value) /\ Shape(g) /\ g.pool = h.pool /\ HeapOK(h, x)
    BY <1>4, <1>5, <1>8 DEF w
  <2> HIDE DEF P
  <2>4. HeapOK(g, x) /\ Steady(h, g, P)
    BY ONLY <2>1, <2>2, <2>3, RingsChanged
  <2> QED BY <2>4 DEF P
<1> QED BY <1>4, <1>5, <1>7, <1>10 DEF t, v, w

KU == known_types \cup unknown_types

\* Outside of P the same nodes hold quantities.
Alike(t, r, P) == \A n \in Node \ P : IF t[n] \in KU THEN r[n] \in KU ELSE r[n] = t[n]

\* make_eq: whichever side is known, the heap stays sound with what the current
\* expression becomes, and the left side's capsule is free.
LEMMA EquationMade ==
  ASSUME NEW h, NEW x \in Tallies, NEW a \in KU, NEW e, HeapOK(h, Plus(x, a, e)),
         CurRight(h.type, a, e), NEW p \in Capsules, h.type[p] \in KU,
         a \in unknown_types => e # p, NEW r, r = make_eq(h, p, a, e)
  PROVE  /\ HeapOK(r.heap, Plus(x, r.type, r.exp)) /\ CurRight(r.heap.type, r.type, r.exp)
         /\ r.type \in KU /\ r.heap.type[p] = "free"
         /\ \/ r.type = a /\ r.exp = e /\ Alike(h.type, r.heap.type, {p})
               /\ (a \in unknown_types => r.heap.type[e] \in KU)
            \/ /\ a \in unknown_types /\ r.type \in known_types /\ r.heap.type[e] = "free"
               /\ Alike(h.type, r.heap.type, {p, e})
<1> DEFINE t == h.type  tl == t[p]
<1>1. p \in Node /\ tl \in KU /\ Typed(h.type, h.value)
  BY HeapParts DEF Node
<1>2. /\ a \in unknown_types <=> a \notin known_types
      /\ \A b \in unknown_types : known_type[b] \in known_types
      /\ "vacuous" \notin KU /\ "free" \notin KU
      /\ \A b \in known_types : b \notin unknown_types
  BY TypeNames DEF KU, known_types
<1>3. CASE a \in unknown_types /\ tl = known_type[a]
  <2> DEFINE s == h.value[p]
             g == nonlinear_eq(h, s, e, FALSE)  f == Freed(g, e)  d == Recycled(f, p)
  <2>1. r.heap = d /\ r.type = tl /\ r.exp = s
    BY <1>3 DEF make_eq
  <2>2. e \in Capsules /\ e \in Node /\ t[e] = a /\ e # p /\ tl \in known_types
    BY <1>2, <1>3 DEF CurRight, Node
  <2>3. HeapOK(h, x)
    <3>1. a # "string"
      BY <1>3, TypeNames
    <3> QED BY <3>1 DEF Plus
  <2>4. Fits(h, tl, s)
    BY <1>1, <2>3, InPool DEF Fits, Typed
  <2>5. p \notin Ring(h, e)
    <3> SUFFICES ASSUME p \in Ring(h, e) PROVE FALSE
      OBVIOUS
    <3>1. t[p] = t[e]
      BY <1>3, <2>2, <2>3, HeapParts, RingMembers
    <3> QED BY <1>2, <2>2, <3>1, <1>3
  <2>6. /\ HeapOK(g, x)
        /\ \A n \in Node : n \notin Ring(h, e) => g.type[n] = t[n] /\ g.value[n] = h.value[n]
        /\ \A n \in Node : n \in Ring(h, e) /\ n # e => g.type[n] = tl /\ g.value[n] = s
        /\ g.type[e] = tl /\ g.value[e] = s
    <3> DEFINE fl == FALSE
    <3>1. h.type[e] \in unknown_types /\ tl = known_type[h.type[e]] /\ e \in Node
      BY <1>3, <2>2
    <3>2. g = nonlinear_eq(h, s, e, fl) /\ ~fl
      OBVIOUS
    <3> HIDE DEF g, s, tl, fl
    <3> QED BY <2>3, <2>4, <3>1, <3>2, RingSettled DEF t
  <2> HIDE DEF g
  <2>7. g.type[e] \notin unknown_types
    BY <1>2, <2>2, <2>6
  <2>8. /\ HeapOK(f, Plus(x, tl, s))
        /\ \A n \in Node : f.type[n] = IF n = e THEN "free" ELSE g.type[n]
    <3>0. f = Freed(g, e) /\ HeapOK(g, x) /\ e \in Node /\ g.type[e] \notin unknown_types
      BY <2>2, <2>6, <2>7
    <3> HIDE DEF s, tl, f
    <3>1. /\ HeapOK(f, Plus(x, g.type[e], g.value[e])) /\ Steady(g, f, {e}) /\ f.pool = g.pool
          /\ \A n \in Node : f.type[n] = IF n = e THEN "free" ELSE g.type[n]
          /\ \A n \in Node : f.value[n] = IF n = e THEN null ELSE g.value[n]
      BY ONLY <3>0, NodeFreed
    <3> QED BY <2>6, <3>1
  <2> HIDE DEF f
  <2>9. /\ HeapOK(d, Plus(x, tl, s))
        /\ \A n \in Node : d.type[n] = IF n = p THEN "free" ELSE f.type[n]
    <3> DEFINE y == Plus(x, tl, s)
    <3>1. HeapOK(f, y) /\ d = Recycled(f, p) /\ p \in Node
      BY <1>1, <2>8
    <3> HIDE DEF y, d
    <3>2. /\ HeapOK(d, y) /\ Steady(f, d, {p})
          /\ \A n \in Node : d.type[n] = IF n = p THEN "free" ELSE f.type[n]
      BY ONLY <3>1, CapsuleRecycled
    <3> QED BY <3>2 DEF y
  <2>10. CurRight(d.type, tl, s)
    <3>1. (tl = "boolean" => s \in Values) /\ (tl = "string" => s \in Nat) /\ tl \notin unknown_types
      BY <1>1, <1>2, <2>2 DEF Typed
    <3> QED BY <2>2, <3>1 DEF CurRight
  <2>11. d.type[p] = "free" /\ d.type[e] = "free"
    BY <1>1, <2>2, <2>8, <2>9
  <2>12. Alike(t, d.type, {p, e})
    <3> SUFFICES ASSUME NEW n \in Node \ {p, e}
                 PROVE  IF t[n] \in KU THEN d.type[n] \in KU ELSE d.type[n] = t[n]
      BY DEF Alike
    <3>1. d.type[n] = g.type[n]
      BY <2>8, <2>9
    <3>2. n \in Ring(h, e) => t[n] \in KU
      <4>1. n \in Ring(h, e) => t[n] = t[e]
        BY <1>3, <2>2, <2>3, HeapParts, RingMembers
      <4> QED BY <1>3, <2>2, <4>1 DEF KU
    <3> QED BY <2>2, <2>6, <3>1, <3>2 DEF KU
  <2> HIDE DEF d
  <2> QED BY <1>3, <2>1, <2>2, <2>9, <2>10, <2>11, <2>12 DEF KU
<1>4. CASE ~(a \in unknown_types /\ tl = known_type[a])
  <2> DEFINE y == Plus(x, a, e)
             g == IF tl \in unknown_types /\ a = known_type[tl] THEN nonlinear_eq(h, e, p, TRUE)
                  ELSE IF tl \in unknown_types /\ a = tl THEN ring_merge(h, p, e)
                  ELSE h
             d == Recycled(g, p)
  <2>1. r.heap = d /\ r.type = a /\ r.exp = e
    BY <1>4 DEF make_eq
  <2>2. /\ HeapOK(g, y) /\ Alike(t, g.type, {p}) /\ CurRight(g.type, a, e)
        /\ a \in unknown_types => g.type[e] \in KU
    <3>0. HeapOK(h, y) /\ (a \in unknown_types => e \in Capsules /\ t[e] = a)
      BY DEF CurRight
    <3>1. CASE tl \in unknown_types /\ a = known_type[tl]
      <4>1. a \in known_types /\ a \notin unknown_types
        BY <1>2, <3>1
      <4>2. Fits(h, a, e)
        <5>1. a = "boolean" => e \in Values
          BY DEF CurRight
        <5>2. a = "string" => e \in DOMAIN h.pool
          <6> SUFFICES ASSUME a = "string" PROVE e \in DOMAIN h.pool
            OBVIOUS
          <6>1. e \in Nat
            BY DEF CurRight
          <6>2. y[e] = x[e] + 1 /\ x[e] \in Nat
            BY <6>1, PlusIs DEF Tallies
          <6>3. y[e] # 0
            BY <6>2
          <6> QED BY <3>0, <6>1, <6>3, InPool
        <5> QED BY <5>1, <5>2 DEF Fits
      <4> DEFINE fl == TRUE
      <4>3. g = nonlinear_eq(h, e, p, fl)
        BY <3>1
      <4> HIDE DEF g, y, fl
      <4>4. /\ HeapOK(g, y)
            /\ \A n \in Node : n \notin Ring(h, p) => g.type[n] = h.type[n] /\ g.value[n] = h.value[n]
            /\ \A n \in Node : n \in Ring(h, p) /\ n # p => g.type[n] = a /\ g.value[n] = e
        <5>1. h.type[p] \in unknown_types /\ a = known_type[h.type[p]]
          BY <3>1
        <5> QED BY <1>1, <3>0, <4>2, <4>3, <5>1, RingSettled
      <4>5. \A n \in Node : n \in Ring(h, p) => t[n] = tl
        BY <1>1, <3>0, <3>1, HeapParts, RingMembers
      <4>6. Alike(t, g.type, {p})
        <5> SUFFICES ASSUME NEW n \in Node \ {p}
                     PROVE  IF t[n] \in KU THEN g.type[n] \in KU ELSE g.type[n] = t[n]
          BY DEF Alike
        <5>1. CASE n \in Ring(h, p)
          BY <1>1, <4>4, <4>5, <5>1
        <5>2. CASE n \notin Ring(h, p)
          BY <4>4, <5>2
        <5> QED BY <5>1, <5>2
      <4>7. CurRight(g.type, a, e)
        BY <4>1 DEF CurRight
      <4> QED BY <4>1, <4>4, <4>6, <4>7
    <3>2. CASE ~(tl \in unknown_types /\ a = known_type[tl]) /\ tl \in unknown_types /\ a = tl
      <4>1. g = ring_merge(h, p, e) /\ e \in Capsules /\ t[e] = t[p] /\ e \in Node
        BY <3>0, <3>2 DEF Node
      <4>2. CASE e \in Ring(h, p)
        <5>1. g = h
          BY <4>1, <4>2 DEF ring_merge
        <5> QED BY <3>0, <5>1 DEF Alike
      <4>3. CASE e \notin Ring(h, p)
        <5> HIDE DEF g, y
        <5>1. HeapOK(g, y) /\ g.type = h.type
          BY <3>0, <3>2, <4>1, <4>3, RingsMerged
        <5> QED BY <3>0, <5>1 DEF Alike
      <4> QED BY <4>2, <4>3
    <3>3. CASE ~(tl \in unknown_types /\ a = known_type[tl]) /\ ~(tl \in unknown_types /\ a = tl)
      <4>1. g = h
        BY <3>3
      <4> QED BY <3>0, <4>1 DEF Alike
    <3> QED BY <3>1, <3>2, <3>3
  <2>2a. d = Recycled(g, p)
    OBVIOUS
  <2> HIDE DEF g, y, d
  <2>3. HeapOK(d, y) /\ \A n \in Node : d.type[n] = IF n = p THEN "free" ELSE g.type[n]
    BY <1>1, <2>2, <2>2a, CapsuleRecycled
  <2>4. d.type[p] = "free" /\ Alike(t, d.type, {p})
    BY <1>1, <2>2, <2>3 DEF Alike
  <2>5. a \in unknown_types => e \in Node /\ d.type[e] = g.type[e]
    BY <2>2, <2>3 DEF CurRight, Node
  <2>6. CurRight(d.type, a, e)
    BY <2>2, <2>5 DEF CurRight
  <2> QED BY <2>1, <2>2, <2>3, <2>4, <2>5, <2>6 DEF y
<1> QED BY <1>3, <1>4

IsDeclared(g, h, p, a) == g = [h EXCEPT !.type[p] = a]

\* An undefined variable becomes unknown.
LEMMA Declared ==
  ASSUME NEW h, NEW x, HeapOK(h, x), NEW p \in Variables, h.type[p] = "undefined", h.value[p] = null,
         NEW a \in unknown_types, NEW g, IsDeclared(g, h, p, a)
  PROVE  /\ HeapOK(g, x) /\ Steady(h, g, {}) /\ g.pool = h.pool /\ g.value = h.value
         /\ \A n \in Node : g.type[n] = IF n = p THEN a ELSE h.type[n]
<1> DEFINE t == h.type  v == h.value  r == g.type  pl == h.pool
<1>1. p \in Node /\ p \notin Capsules /\ null \notin Node
  BY RingsAssumption DEF Node
<1>2. Shape(h) /\ Linked(t, v)
  BY SoundShape, HeapParts
<1>3. a \in Tags /\ a \notin known_types /\ "undefined" \notin KU
  BY TypeNames DEF known_types, KU
<1>4. h = [type |-> t, value |-> v, pool |-> pl] /\ t \in [Node -> Tags] /\ v = [n \in Node |-> v[n]]
  BY <1>2 DEF Shape, IsHeap
<1>5. t[p] = "undefined" /\ v[p] = null
  OBVIOUS
<1> HIDE DEF t, v, pl
<1>6. g = [type |-> [t EXCEPT ![p] = a], value |-> v, pool |-> pl]
  BY <1>4 DEF IsDeclared
<1>7. g.value = v /\ g.pool = pl /\ r = [t EXCEPT ![p] = a]
  BY ONLY <1>6
<1>8. IsHeap(g)
  BY ONLY <1>6, <1>7 DEF IsHeap
<1> HIDE DEF r
<1>9. r \in [Node -> Tags] /\ \A n \in Node : r[n] = IF n = p THEN a ELSE t[n]
  BY <1>1, <1>3, <1>4, <1>7
<1>10. Shape(g)
  BY <1>4, <1>7, <1>8, <1>9 DEF Shape, r
<1>11. Linked(r, v)
  <2>1. \A n \in Node : n # p /\ r[n] \in unknown_types =>
           /\ t[n] = r[n] /\ Behind(v, n) \in Node /\ t[Behind(v, n)] = t[n]
           /\ (n \in Capsules => v[n] # null) /\ Behind(v, n) # p
           /\ \A k \in Node : t[k] \in unknown_types /\ Behind(v, k) = Behind(v, n) => k = n
    BY <1>2, <1>3, <1>5, <1>9 DEF Linked, KU
  <2>2. Behind(v, p) = p
    BY <1>5 DEF Behind
  <2> SUFFICES ASSUME NEW n \in Node, r[n] \in unknown_types
               PROVE  /\ Behind(v, n) \in Node /\ r[Behind(v, n)] = r[n]
                      /\ n \in Capsules => v[n] # null
                      /\ \A m \in Node : r[m] \in unknown_types /\ Behind(v, m) = Behind(v, n) => m = n
    BY DEF Linked
  <2>3. CASE n = p
    BY <1>1, <2>1, <2>2, <2>3
  <2>4. CASE n # p
    BY <1>9, <2>1, <2>2, <2>4
  <2> QED BY <2>3, <2>4
<1>12. \A n \in Node : /\ r[n] \in known_types => t[n] = r[n]
                       /\ t[n] \in known_types => t[n] = r[n]
  BY <1>3, <1>5, <1>9 DEF KU
<1>13. HeapOK(g, x) /\ Steady(h, g, {})
  <2> DEFINE P == {}
  <2>1. \A n \in Node : /\ g.type[n] \in known_types =>
                               h.type[n] = g.type[n] /\ h.value[n] = g.value[n]
                        /\ h.type[n] \in known_types /\ n \notin P =>
                               h.type[n] = g.type[n] /\ h.value[n] = g.value[n]
    BY <1>7, <1>12 DEF t, v, r
  <2>2. \A n \in P : h.type[n] # "string"
    OBVIOUS
  <2>3. Linked(g.type, g.value) /\ Shape(g) /\ g.pool = h.pool /\ HeapOK(h, x)
    BY <1>7, <1>10, <1>11 DEF r, pl
  <2> HIDE DEF P
  <2>4. HeapOK(g, x) /\ Steady(h, g, P)
    BY ONLY <2>1, <2>2, <2>3, RingsChanged
  <2> QED BY <2>4 DEF P
<1> QED BY <1>7, <1>9, <1>13 DEF r, t, v, pl

-----------------------------------------------------------------------------
(* Expressions put aside.                                                  *)

IsPut(nv, sv, who, c) == nv = Append(sv, <<who, c>>)

\* An expression is put aside.
LEMMA PutAside ==
  ASSUME NEW sv, NEW ct, NEW ce, SavedRight(sv, ct, ce), NEW who \in {"lhs", "expr"},
         NEW c \in Capsules, c \notin Aside(sv), NEW nv, IsPut(nv, sv, who, c),
         NEW t, NEW e, t \notin unknown_types
  PROVE  SavedRight(nv, t, e) /\ Owned(nv, t, e) = Aside(sv) \cup {c}
<1> DEFINE E == {"lhs", "expr"} \X Capsules  z == <<who, c>>
<1>1. sv \in Seq(E) /\ \A i, j \in DOMAIN sv : sv[i][2] = sv[j][2] => i = j
  BY DEF SavedRight
<1>2. z \in E /\ z[2] = c
  OBVIOUS
<1> HIDE DEF E, z
<1>3. /\ nv \in Seq(E) /\ DOMAIN nv = 1..(Len(sv) + 1) /\ Len(sv) \in Nat /\ DOMAIN sv = 1..Len(sv)
      /\ nv[Len(sv) + 1] = z /\ \A i \in 1..Len(sv) : nv[i] = sv[i]
  <2>1. nv = Append(sv, z)
    BY DEF z, IsPut
  <2> QED BY ONLY <1>1, <1>2, <2>1
<1>4. Aside(nv) = Aside(sv) \cup {c}
  <2>1. \A i \in DOMAIN sv : nv[i][2] = sv[i][2] /\ i \in DOMAIN nv
    BY <1>3
  <2>2. \A i \in DOMAIN nv : i \in DOMAIN sv \/ (i = Len(sv) + 1 /\ nv[i][2] = c)
    BY <1>2, <1>3
  <2>3. Len(sv) + 1 \in DOMAIN nv /\ nv[Len(sv) + 1][2] = c
    BY <1>2, <1>3
  <2> QED BY ONLY <2>1, <2>2, <2>3 DEF Aside
<1>5. ASSUME NEW i \in DOMAIN nv, NEW j \in DOMAIN nv, nv[i][2] = nv[j][2]
      PROVE  i = j
  <2>1. \A k \in DOMAIN sv : nv[k][2] = sv[k][2] /\ sv[k][2] # c
    BY <1>3 DEF Aside
  <2>2. \A k \in DOMAIN nv : k \in DOMAIN sv \/ (k = Len(sv) + 1 /\ nv[k][2] = c)
    BY <1>2, <1>3
  <2> QED BY ONLY <1>1, <1>5, <2>1, <2>2
<1> QED BY <1>3, <1>4, <1>5 DEF SavedRight, Owned, E

\* The last expression put aside is taken back.
LEMMA TakenBack ==
  ASSUME NEW sv, NEW ct, NEW ce, SavedRight(sv, ct, ce), sv # <<>>,
         NEW nv, nv = SubSeq(sv, 1, Len(sv) - 1), NEW p, p = sv[Len(sv)][2]
  PROVE  /\ p \in Capsules /\ p \in Aside(sv) /\ Aside(nv) = Aside(sv) \ {p}
         /\ \A t, e : (t \in unknown_types => e \notin Aside(nv)) => SavedRight(nv, t, e)
<1> DEFINE E == {"lhs", "expr"} \X Capsules  L == Len(sv)
<1>1. sv \in Seq(E) /\ \A i, j \in DOMAIN sv : sv[i][2] = sv[j][2] => i = j
  BY DEF SavedRight
<1>2. \A z \in E : z[2] \in Capsules
  OBVIOUS
<1> HIDE DEF E
<1>3. L \in Nat /\ L > 0 /\ DOMAIN sv = 1..L /\ sv[L] \in E
  BY ONLY <1>1, sv # <<>>
<1>4. nv \in Seq(E) /\ DOMAIN nv = 1..(L - 1) /\ \A i \in 1..(L - 1) : nv[i] = sv[i]
  <2>1. nv = SubSeq(sv, 1, L - 1)
    OBVIOUS
  <2> QED BY ONLY <1>1, <1>3, <2>1
<1>5. p \in Capsules /\ p \in Aside(sv)
  BY <1>2, <1>3 DEF Aside
<1>6. Aside(nv) = Aside(sv) \ {p}
  <2>1. \A i \in DOMAIN nv : nv[i][2] = sv[i][2] /\ i \in DOMAIN sv /\ i # L
    BY <1>3, <1>4
  <2>2. \A i \in DOMAIN sv : i = L \/ (i \in DOMAIN nv /\ nv[i][2] = sv[i][2])
    BY <1>3, <1>4
  <2>3. L \in DOMAIN sv /\ sv[L][2] = p
    BY <1>3
  <2> HIDE DEF L
  <2> QED BY ONLY <1>1, <2>1, <2>2, <2>3 DEF Aside
<1>7. \A i, j \in DOMAIN nv : nv[i][2] = nv[j][2] => i = j
  BY <1>1, <1>3, <1>4
<1> QED BY <1>4, <1>5, <1>6, <1>7 DEF SavedRight, E

-----------------------------------------------------------------------------
(* The steps.                                                              *)

\* The parts of the invariant.
LEMMA RParts ==
  ASSUME RInv
  PROVE  /\ heap.type = type /\ heap.value = value /\ heap.pool = pool
         /\ HeapOK(heap, Plus(Nobody, cur_type, cur_exp)) /\ Nobody \in Tallies
         /\ CurRight(type, cur_type, cur_exp) /\ SavedRight(saved, cur_type, cur_exp)
         /\ Allotted(type, Owned(saved, cur_type, cur_exp))
         /\ \A n \in Node : type[n] \in Tags
         /\ Variables \cap Capsules = {} /\ \A n \in Node : n \in Capsules <=> n \notin Variables
<1>1. heap.type = type /\ heap.value = value /\ heap.pool = pool
  BY DEF heap
<1>2. Nobody \in Tallies
  BY DEF Nobody, Tallies
<1>3. HeapOK(heap, Plus(Nobody, cur_type, cur_exp))
  BY DEF RInv
<1>4. Typed(type, value)
  BY <1>1, <1>3, HeapParts
<1> QED BY <1>1, <1>2, <1>3, <1>4, RingsAssumption DEF RInv, Typed, Node

\* What makes up the invariant of the next state.
LEMMA RNextIs ==
  ASSUME NEW g, SetHeap(g), HeapOK(g, Plus(Nobody, cur_type', cur_exp')),
         CurRight(g.type, cur_type', cur_exp'), SavedRight(saved', cur_type', cur_exp'),
         Allotted(g.type, Owned(saved', cur_type', cur_exp'))
  PROVE  RInv'
<1>1. IsHeap(g) /\ type' = g.type /\ value' = g.value /\ pool' = g.pool
  BY HeapParts DEF SetHeap
<1>2. heap' = g
  BY <1>1 DEF heap, IsHeap
<1> QED BY <1>1, <1>2 DEF RInv

\* Only a variable changes.
LEMMA VariableChanged ==
  ASSUME NEW t, NEW r, NEW ct, NEW ce, NEW O, CurRight(t, ct, ce), Allotted(t, O),
         \A n \in Capsules : r[n] = t[n],
         \A n \in Variables : r[n] = t[n] \/ r[n] \notin {"free", "vacuous"}
  PROVE  CurRight(r, ct, ce) /\ Allotted(r, O)
BY DEF CurRight, Allotted

\* One type at most.
LEMMA KindsApart ==
  /\ "vacuous" \notin KU /\ "free" \notin KU /\ "undefined" \notin KU
  /\ "string" \notin unknown_types /\ "boolean" \notin unknown_types /\ "vacuous" \notin unknown_types
  /\ \A a \in unknown_types : a \in KU /\ a \notin known_types /\ a \in Tags
  /\ \A a \in known_types : a \in KU /\ a \notin unknown_types /\ a \in Tags
  /\ known_types = {"boolean", "string"}
BY TypeNames DEF KU, known_types

\* Who is not a string refers to none.
LEMMA NoPlus ==
  ASSUME NEW x, NEW a, NEW b, a # "string"
  PROVE  Plus(x, a, b) = x
BY DEF Plus

\* In which order references are added makes no difference.
LEMMA PlusCommutes ==
  ASSUME NEW x \in Tallies, NEW a \in Nat, NEW b \in Nat
  PROVE  Plus(Plus(x, "string", a), "string", b) = Plus(Plus(x, "string", b), "string", a)
BY DEF Plus, Tallies

\* Initially nothing is referred to.
LEMMA RInit == Init => RInv
<1> SUFFICES ASSUME Init PROVE RInv
  OBVIOUS
<1>1. type = [n \in Node |-> IF n \in Variables THEN "undefined" ELSE "free"]
      /\ value = [n \in Node |-> null] /\ pool = <<>> /\ cur_type = "vacuous" /\ cur_exp = null /\ saved = <<>>
  BY DEF Init
<1>2. \A n \in Node : type[n] \in {"undefined", "free"} /\ type[n] \notin KU
  BY <1>1, KindsApart
<1>3. Plus(Nobody, cur_type, cur_exp) = Nobody
  BY <1>1 DEF Plus
<1>4. \A s \in Nat : Users(type, value, s) = {} /\ Cardinality(Users(type, value, s)) = 0
  <2>1. \A s \in Nat : Users(type, value, s) = {}
    BY <1>2 DEF Users
  <2> QED BY <2>1, FS_EmptySet
<1>5. Total(type, value, Nobody) = Nobody
  BY <1>4 DEF Total, Nobody
<1>6. Counts(pool, Nobody)
  BY <1>1 DEF Counts, Nobody
<1>7. Typed(type, value)
  <2>1. {"undefined", "free"} \subseteq Tags
    BY TypeNames
  <2> QED BY <1>1, <1>2, <2>1 DEF Typed
<1>8. Linked(type, value)
  BY <1>2 DEF Linked, KU
<1>9. heap.type = type /\ heap.value = value /\ heap.pool = pool /\ IsHeap(heap) /\ Nobody \in Tallies
  BY DEF heap, IsHeap, Nobody, Tallies
<1>10. HeapOK(heap, Plus(Nobody, cur_type, cur_exp))
  BY <1>3, <1>5, <1>6, <1>7, <1>8, <1>9 DEF HeapOK
<1>11. Aside(saved) = {} /\ SavedRight(saved, cur_type, cur_exp) /\ Owned(saved, cur_type, cur_exp) = {}
  BY <1>1, KindsApart DEF Aside, SavedRight, Owned
<1>12. CurRight(type, cur_type, cur_exp) /\ Allotted(type, {})
  <2>1. \A n \in Variables : type[n] = "undefined"
    BY <1>1 DEF Node
  <2>2. \A n \in Capsules : type[n] = "free"
    BY <1>1, RingsAssumption DEF Node
  <2> QED BY <1>1, <2>1, <2>2, KindsApart DEF CurRight, Allotted
<1> QED BY <1>10, <1>11, <1>12 DEF RInv

\* The declaration recycles what the variable was.
LEMMA DeclarationStep ==
  ASSUME RInv, NEW x \in Variables, NEW t \in unknown_types, do_type_declaration(x, t)
  PROVE  RInv'
<1> DEFINE X == Plus(Nobody, cur_type, cur_exp)
           f == recycle_value(heap, x)  g == [f EXCEPT !.type[x] = t]  O == Owned(saved, cur_type, cur_exp)
<1>1. /\ heap.type = type /\ HeapOK(heap, X) /\ x \in Node /\ \A n \in Capsules : n # x /\ n \in Node
      /\ CurRight(type, cur_type, cur_exp) /\ SavedRight(saved, cur_type, cur_exp) /\ Allotted(type, O)
  BY RParts DEF Node
<1>2. SetHeap(g) /\ UNCHANGED <<cur_type, cur_exp, saved>>
  BY DEF do_type_declaration
<1>3. /\ HeapOK(f, X) /\ Steady(heap, f, {x})
      /\ \A n \in Node : f.type[n] = IF n = x THEN "undefined" ELSE heap.type[n]
      /\ f.value[x] = null
  BY <1>1, ValueRecycled
<1>4. f.type[x] = "undefined"
  BY <1>1, <1>3
<1> HIDE DEF f, X
<1>5. IsDeclared(g, f, x, t)
  BY DEF IsDeclared
<1> HIDE DEF g
<1>6. /\ HeapOK(g, X) /\ Steady(f, g, {}) /\ g.pool = f.pool /\ g.value = f.value
      /\ \A n \in Node : g.type[n] = IF n = x THEN t ELSE f.type[n]
  <2>1. HeapOK(f, X) /\ f.value[x] = null
    BY <1>3
  <2> QED BY ONLY x \in Variables, t \in unknown_types, <2>1, <1>4, <1>5, Declared
<1>7. CurRight(g.type, cur_type, cur_exp) /\ Allotted(g.type, O)
  <2>1. \A n \in Capsules : g.type[n] = type[n]
    BY <1>1, <1>3, <1>6
  <2>2. t \notin {"free", "vacuous"}
    BY KindsApart
  <2>3. \A n \in Variables : g.type[n] = type[n] \/ g.type[n] \notin {"free", "vacuous"}
    BY <1>1, <1>3, <1>6, <2>2 DEF Node
  <2> QED BY <1>1, <2>1, <2>3, VariableChanged
<1> QED BY <1>1, <1>2, <1>6, <1>7, RNextIs DEF X, O

\* A variable is flushed.
LEMMA FlushStep ==
  ASSUME RInv, NEW x \in Variables, flush_variable(x)
  PROVE  RInv'
<1> DEFINE X == Plus(Nobody, cur_type, cur_exp)
           f == recycle_value(heap, x)  O == Owned(saved, cur_type, cur_exp)
<1>1. /\ heap.type = type /\ HeapOK(heap, X) /\ x \in Node /\ \A n \in Capsules : n # x /\ n \in Node
      /\ CurRight(type, cur_type, cur_exp) /\ SavedRight(saved, cur_type, cur_exp) /\ Allotted(type, O)
  BY RParts DEF Node
<1>2. SetHeap(f) /\ UNCHANGED <<cur_type, cur_exp, saved>>
  BY DEF flush_variable
<1>3. /\ HeapOK(f, X) /\ Steady(heap, f, {x})
      /\ \A n \in Node : f.type[n] = IF n = x THEN "undefined" ELSE heap.type[n]
      /\ f.value[x] = null
  BY <1>1, ValueRecycled
<1> HIDE DEF f
<1>4. CurRight(f.type, cur_type, cur_exp) /\ Allotted(f.type, O)
  <2>1. \A n \in Capsules : f.type[n] = type[n]
    BY <1>1, <1>3
  <2>2. \A n \in Variables : f.type[n] = type[n] \/ f.type[n] \notin {"free", "vacuous"}
    BY <1>1, <1>3 DEF Node
  <2> QED BY <1>1, <2>1, <2>2, VariableChanged
<1> QED BY <1>1, <1>2, <1>3, <1>4, RNextIs DEF X, O

\* A constant is the current expression.
LEMMA ConstantStep ==
  ASSUME RInv, NEW t \in {"boolean", "string"}, NEW w \in Values, Constant(t, w)
  PROVE  RInv'
<1>1. /\ heap.type = type /\ heap.pool = pool /\ HeapOK(heap, Plus(Nobody, cur_type, cur_exp))
      /\ CurRight(type, cur_type, cur_exp) /\ SavedRight(saved, cur_type, cur_exp)
      /\ Allotted(type, Owned(saved, cur_type, cur_exp))
  BY RParts
<1>2. cur_type = "vacuous" /\ saved' = saved
  BY DEF Constant, alive
<1>3. HeapOK(heap, Nobody)
  BY <1>1, <1>2, NoPlus
<1>4. t \notin unknown_types
  BY KindsApart
<1>5. cur_type' = t => SavedRight(saved', cur_type', cur_exp')
                       /\ Owned(saved', cur_type', cur_exp') = Owned(saved, cur_type, cur_exp)
  BY <1>1, <1>2, <1>4, KindsApart DEF SavedRight, Owned
<1>6. CASE t = "string"
  <2> DEFINE g == make_string(heap, w)
  <2>1. SetHeap(g) /\ cur_type' = "string" /\ cur_exp' = Len(pool')
    BY <1>6 DEF Constant, SetCur
  <2>2. /\ HeapOK(g, Plus(Nobody, "string", Len(heap.pool) + 1)) /\ g.type = heap.type /\ g.value = heap.value
        /\ SameSaid(heap.pool, g.pool) /\ DOMAIN g.pool = DOMAIN heap.pool \cup {Len(heap.pool) + 1}
        /\ g.pool[Len(heap.pool) + 1].chars = w /\ Len(heap.pool) + 1 \in Nat
        /\ Len(g.pool) = Len(heap.pool) + 1
    BY <1>3, StringMade
  <2> HIDE DEF g
  <2>3. cur_exp' = Len(heap.pool) + 1
    BY <2>1, <2>2 DEF SetHeap
  <2>4. CurRight(g.type, cur_type', cur_exp')
    BY <2>1, <2>2, <2>3, KindsApart DEF CurRight
  <2> QED BY <1>1, <1>5, <1>6, <2>1, <2>2, <2>3, <2>4, RNextIs
<1>7. CASE t # "string"
  <2>1. SetHeap(heap) /\ cur_type' = t /\ cur_exp' = w /\ t = "boolean"
    BY <1>7 DEF Constant, SetCur
  <2>2. HeapOK(heap, Plus(Nobody, cur_type', cur_exp'))
    BY <1>3, <2>1, NoPlus
  <2>3. CurRight(type, cur_type', cur_exp')
    BY <2>1, KindsApart DEF CurRight
  <2> QED BY <1>1, <1>5, <2>1, <2>2, <2>3, RNextIs
<1> QED BY <1>6, <1>7

\* The current string is replaced by one that is made first.
LEMMA StringReplaced ==
  ASSUME NEW h, NEW s, NEW x \in Tallies, HeapOK(h, Plus(x, "string", s)), s \in Nat, NEW w \in Values,
         NEW g, g = delete_str_ref(make_string(h, w), "string", s), NEW n, n = Len(h.pool) + 1
  PROVE  HeapOK(g, Plus(x, "string", n)) /\ g.type = h.type /\ g.value = h.value /\ n \in Nat
         /\ SameSaid(h.pool, g.pool)
<1> DEFINE f == make_string(h, w)  y == Plus(x, "string", n)
<1>1. /\ HeapOK(f, Plus(Plus(x, "string", s), "string", n)) /\ f.type = h.type /\ f.value = h.value
      /\ SameSaid(h.pool, f.pool) /\ DOMAIN f.pool = DOMAIN h.pool \cup {n}
      /\ f.pool[n].chars = w /\ n \in Nat /\ Len(f.pool) = n
  BY StringMade
<1>2. y \in Tallies /\ Plus(Plus(x, "string", s), "string", n) = Plus(y, "string", s)
  BY <1>1, PlusIs, PlusCommutes
<1> HIDE DEF f, y
<1>3. HeapOK(f, Plus(y, "string", s)) /\ g = delete_str_ref(f, "string", s)
  BY <1>1, <1>2 DEF f
<1>4. /\ HeapOK(g, y) /\ g.type = f.type /\ g.value = f.value
      /\ SameSaid(f.pool, g.pool) /\ DOMAIN g.pool \subseteq DOMAIN f.pool
  BY <1>2, <1>3, GivenUp
<1>5. SameSaid(h.pool, g.pool)
  BY <1>1, <1>4 DEF SameSaid
<1> QED BY <1>1, <1>4, <1>5 DEF y

\* A part of the current string takes its place.
LEMMA ChopStep ==
  ASSUME RInv, NEW w \in Values, chop_string(w)
  PROVE  RInv'
<1>1. /\ heap.type = type /\ heap.pool = pool /\ HeapOK(heap, Plus(Nobody, cur_type, cur_exp))
      /\ CurRight(type, cur_type, cur_exp) /\ SavedRight(saved, cur_type, cur_exp)
      /\ Allotted(type, Owned(saved, cur_type, cur_exp)) /\ Nobody \in Tallies
  BY RParts
<1> DEFINE g == delete_str_ref(make_string(heap, w), "string", cur_exp)  n == Len(heap.pool) + 1
<1>2. cur_type = "string" /\ SetHeap(g) /\ cur_exp' = n /\ cur_type' = cur_type /\ saved' = saved
  BY <1>1 DEF chop_string
<1>3. HeapOK(heap, Plus(Nobody, "string", cur_exp)) /\ cur_exp \in Nat
  BY <1>1, <1>2 DEF CurRight
<1> HIDE DEF n
<1>4. HeapOK(g, Plus(Nobody, "string", n)) /\ g.type = heap.type /\ g.value = heap.value /\ n \in Nat
         /\ SameSaid(heap.pool, g.pool)
  BY <1>1, <1>3, StringReplaced DEF n
<1> HIDE DEF g
<1>5. CurRight(g.type, cur_type', cur_exp')
  BY <1>1, <1>2, <1>4, KindsApart DEF CurRight
<1>6. SavedRight(saved', cur_type', cur_exp')
      /\ Owned(saved', cur_type', cur_exp') = Owned(saved, cur_type, cur_exp)
  BY <1>1, <1>2, KindsApart DEF SavedRight, Owned
<1> QED BY <1>1, <1>2, <1>4, <1>5, <1>6, RNextIs

\* The capsules that somebody holds have a type, the others are free.
LEMMA HeldOnes ==
  ASSUME RInv
  PROVE  /\ \A c \in Aside(saved) : c \in Capsules /\ type[c] \in KU
         /\ \A c \in FreeCapsules : c \in Capsules /\ c \notin Aside(saved) /\ type[c] = "free"
                                    /\ ~ (cur_type \in unknown_types /\ c = cur_exp)
         /\ cur_type \in unknown_types => cur_exp \notin Aside(saved) /\ cur_exp \in Capsules
<1>1. /\ CurRight(type, cur_type, cur_exp) /\ SavedRight(saved, cur_type, cur_exp)
      /\ Allotted(type, Owned(saved, cur_type, cur_exp))
  BY RParts
<1>2. \A c \in Aside(saved) : c \in Capsules
  <2> DEFINE E == {"lhs", "expr"} \X Capsules
  <2>1. saved \in Seq(E) /\ \A z \in E : z[2] \in Capsules
    BY <1>1 DEF SavedRight
  <2> HIDE DEF E
  <2>2. \A i \in DOMAIN saved : saved[i] \in E
    BY ONLY <2>1
  <2> QED BY <2>1, <2>2 DEF Aside
<1>3. \A c \in Capsules : c \in Owned(saved, cur_type, cur_exp) => type[c] \in KU
  BY <1>1 DEF Allotted, KU
<1>4. \A c \in FreeCapsules : c \in Capsules /\ type[c] = "free" /\ c \notin Owned(saved, cur_type, cur_exp)
  BY <1>3, KindsApart DEF FreeCapsules
<1> QED BY <1>1, <1>2, <1>3, <1>4 DEF Owned, SavedRight, CurRight

\* A copy of an unknown variable is a new member of its ring, one of a known
\* variable refers to its string.
LEMMA CopyStep ==
  ASSUME RInv, NEW x \in Variables, make_exp_copy(x)
  PROVE  RInv'
<1>1. /\ heap.type = type /\ heap.value = value /\ heap.pool = pool
      /\ HeapOK(heap, Plus(Nobody, cur_type, cur_exp))
      /\ CurRight(type, cur_type, cur_exp) /\ SavedRight(saved, cur_type, cur_exp)
      /\ Allotted(type, Owned(saved, cur_type, cur_exp)) /\ x \in Node
      /\ Capsules \subseteq Node /\ Variables \cap Capsules = {}
  BY RParts DEF Node
<1>2. cur_type = "vacuous" /\ saved' = saved
  BY DEF make_exp_copy, alive
<1>3. HeapOK(heap, Nobody)
  BY <1>1, <1>2, NoPlus
<1>4. Owned(saved, cur_type, cur_exp) = Aside(saved)
  BY <1>2, KindsApart DEF Owned
<1>5. ASSUME type[x] \in unknown_types, NEW c \in FreeCapsules,
             SetHeap(new_ring_entry(heap, x, c)), SetCur(type[x], c)
      PROVE  RInv'
  <2> DEFINE g == new_ring_entry(heap, x, c)
  <2>1. c \in Capsules /\ c \in Node /\ c \notin Aside(saved) /\ type[c] = "free"
    BY <1>1, <1>5, HeldOnes
  <2>2. cur_type' = type[x] /\ cur_exp' = c
    BY <1>5 DEF SetCur
  <2>3. heap.type[c] \notin known_types \cup unknown_types
    BY <1>1, <2>1, KindsApart DEF KU
  <2>4. /\ HeapOK(g, Nobody) /\ Steady(heap, g, {}) /\ g.pool = heap.pool
        /\ \A n \in Node : g.type[n] = IF n = c THEN heap.type[x] ELSE heap.type[n]
    BY <1>1, <1>3, <1>5, <2>1, <2>3, Entered
  <2> HIDE DEF g
  <2>5. HeapOK(g, Plus(Nobody, cur_type', cur_exp'))
    BY <1>5, <2>2, <2>4, NoPlus, KindsApart
  <2>6. CurRight(g.type, cur_type', cur_exp')
    BY <1>1, <1>5, <2>1, <2>2, <2>4, KindsApart DEF CurRight
  <2>7. SavedRight(saved', cur_type', cur_exp')
    BY <1>1, <1>2, <2>1, <2>2 DEF SavedRight
  <2>8. Owned(saved', cur_type', cur_exp') = Aside(saved) \cup {c}
    BY <1>2, <1>5, <2>2 DEF Owned
  <2>9. Allotted(g.type, Aside(saved) \cup {c})
    <3>1. \A n \in Variables : g.type[n] = type[n]
      BY <1>1, <2>1, <2>4 DEF Node
    <3>2. \A n \in Capsules : IF n = c THEN g.type[n] \in KU ELSE g.type[n] = type[n]
      BY <1>1, <1>5, <2>1, <2>4, KindsApart
    <3> QED BY <1>1, <1>4, <3>1, <3>2 DEF Allotted, KU
  <2> QED BY <1>5, <2>5, <2>6, <2>7, <2>8, <2>9, RNextIs DEF g
<1>6. ASSUME type[x] \in {"boolean", "string"},
             SetHeap(add_str_ref(heap, type[x], value[x], 1)), SetCur(type[x], value[x])
      PROVE  RInv'
  <2> DEFINE a == type[x]  b == value[x]  g == add_str_ref(heap, a, b, 1)
  <2>1. cur_type' = a /\ cur_exp' = b /\ a \in known_types
    BY <1>6 DEF SetCur, known_types
  <2>2. a = "string" => b \in DOMAIN heap.pool /\ b \in Nat
    BY <1>1, <1>3, InPool
  <2>3. a = "boolean" => b \in Values
    BY <1>1, <1>3, HeapParts DEF Typed
  <2> HIDE DEF a, b
  <2>4. /\ HeapOK(g, Plus(Nobody, a, b)) /\ g.type = heap.type /\ g.value = heap.value
        /\ SameSaid(heap.pool, g.pool) /\ DOMAIN g.pool = DOMAIN heap.pool
    BY <1>3, <2>2, Referred
  <2>5. SetHeap(g)
    BY <1>6 DEF g, a, b
  <2> HIDE DEF g
  <2>6. CurRight(g.type, cur_type', cur_exp')
    BY <2>1, <2>2, <2>3, KindsApart DEF CurRight
  <2>7. SavedRight(saved', cur_type', cur_exp') /\ Owned(saved', cur_type', cur_exp') = Aside(saved)
    BY <1>1, <1>2, <2>1, KindsApart DEF SavedRight, Owned
  <2> QED BY <1>1, <1>4, <2>1, <2>4, <2>5, <2>6, <2>7, RNextIs
<1> QED BY <1>5, <1>6 DEF make_exp_copy

\* Who becomes aside holds its value.
LEMMA StashStep ==
  ASSUME RInv, NEW who \in {"lhs", "expr"}, stash_cur_exp(who)
  PROVE  RInv'
<1>1. /\ heap.type = type /\ HeapOK(heap, Plus(Nobody, cur_type, cur_exp)) /\ Nobody \in Tallies
      /\ CurRight(type, cur_type, cur_exp) /\ SavedRight(saved, cur_type, cur_exp)
      /\ Allotted(type, Owned(saved, cur_type, cur_exp))
      /\ Capsules \subseteq Node /\ Variables \cap Capsules = {}
  BY RParts DEF Node
<1>2. cur_type # "vacuous" /\ cur_type' = "vacuous" /\ cur_exp' = null
  BY DEF stash_cur_exp, alive, SetCur
<1>3. Plus(Nobody, cur_type', cur_exp') = Nobody /\ cur_type' \notin unknown_types
      /\ \A t : CurRight(t, cur_type', cur_exp')
  BY <1>2, NoPlus, KindsApart DEF CurRight
<1>4. CASE cur_type \in unknown_types
  <2>1. saved' = Append(saved, <<who, cur_exp>>) /\ SetHeap(heap)
    BY <1>4 DEF stash_cur_exp
  <2>2. cur_exp \in Capsules /\ cur_exp \notin Aside(saved)
    BY <1>4, HeldOnes
  <2>3. SavedRight(saved', cur_type', cur_exp') /\ Owned(saved', cur_type', cur_exp') = Aside(saved) \cup {cur_exp}
    <3>1. IsPut(saved', saved, who, cur_exp)
      BY <2>1 DEF IsPut
    <3> QED BY <1>1, <1>3, <2>2, <3>1, PutAside
  <2>4. Owned(saved', cur_type', cur_exp') = Owned(saved, cur_type, cur_exp)
    BY <1>4, <2>3 DEF Owned
  <2>5. HeapOK(heap, Plus(Nobody, cur_type', cur_exp'))
    BY <1>1, <1>3, <1>4, NoPlus, KindsApart
  <2> QED BY <1>1, <1>3, <2>1, <2>3, <2>4, <2>5, RNextIs
<1>5. CASE cur_type \notin unknown_types
  <2>1. PICK c \in FreeCapsules : /\ saved' = Append(saved, <<who, c>>)
                                  /\ SetHeap([heap EXCEPT !.type[c] = cur_type, !.value[c] = cur_exp])
    BY <1>5 DEF stash_cur_exp
  <2> DEFINE g == With(heap, c, cur_type, cur_exp)
  <2>2. SetHeap(g)
    BY <2>1 DEF With
  <2>3. c \in Capsules /\ c \in Node /\ c \notin Aside(saved) /\ type[c] = "free"
    BY <1>1, HeldOnes
  <2>4. cur_type \in known_types /\ (cur_type = "boolean" => cur_exp \in Values)
        /\ (cur_type = "string" => cur_exp \in Nat)
    BY <1>1, <1>2, <1>5 DEF CurRight
  <2>5. heap.type[c] \notin known_types \cup unknown_types
    BY <1>1, <2>3, KindsApart DEF KU
  <2>6. /\ HeapOK(g, Nobody) /\ Steady(heap, g, {c})
    BY <1>1, <2>3, <2>4, <2>5, TakenOver
  <2>7. \A n \in Node : g.type[n] = IF n = c THEN cur_type ELSE type[n]
    <3>1. Shape(heap) /\ cur_type \in Tags
      BY <1>1, <2>4, SoundShape, KindsApart
    <3>2. /\ Shape(g) /\ g.pool = heap.pool
          /\ \A n \in Node : g.type[n] = IF n = c THEN cur_type ELSE heap.type[n]
          /\ \A n \in Node : g.value[n] = IF n = c THEN cur_exp ELSE heap.value[n]
      BY <2>3, <3>1, WithShape
    <3> QED BY <1>1, <3>2
  <2> HIDE DEF g
  <2>8. SavedRight(saved', cur_type', cur_exp') /\ Owned(saved', cur_type', cur_exp') = Aside(saved) \cup {c}
    <3>1. IsPut(saved', saved, who, c)
      BY <2>1 DEF IsPut
    <3> QED BY <1>1, <1>3, <2>3, <3>1, PutAside
  <2>9. Allotted(g.type, Aside(saved) \cup {c})
    <3>1. \A n \in Variables : g.type[n] = type[n]
      BY <1>1, <2>3, <2>7 DEF Node
    <3>2. \A n \in Capsules : IF n = c THEN g.type[n] \in known_types ELSE g.type[n] = type[n]
      BY <1>1, <2>3, <2>4, <2>7
    <3>3. Owned(saved, cur_type, cur_exp) = Aside(saved)
      BY <1>5 DEF Owned
    <3> QED BY <1>1, <3>1, <3>2, <3>3 DEF Allotted
  <2> QED BY <1>3, <2>2, <2>6, <2>8, <2>9, RNextIs
<1> QED BY <1>4, <1>5

\* Who is taken back is what is known of it by then.
LEMMA UnstashStep ==
  ASSUME RInv, unstash_cur_exp
  PROVE  RInv'
<1> DEFINE p == Top[2]
<1>1. /\ heap.type = type /\ heap.value = value /\ HeapOK(heap, Plus(Nobody, cur_type, cur_exp))
      /\ CurRight(type, cur_type, cur_exp) /\ SavedRight(saved, cur_type, cur_exp)
      /\ Allotted(type, Owned(saved, cur_type, cur_exp)) /\ Nobody \in Tallies
      /\ Capsules \subseteq Node /\ Variables \cap Capsules = {}
  BY RParts DEF Node
<1>2. cur_type = "vacuous" /\ saved # <<>> /\ saved' = SubSeq(saved, 1, Len(saved) - 1)
      /\ p = saved[Len(saved)][2]
  BY DEF unstash_cur_exp, alive, Popped, Top
<1>3. HeapOK(heap, Nobody) /\ Owned(saved, cur_type, cur_exp) = Aside(saved)
  BY <1>1, <1>2, NoPlus, KindsApart DEF Owned
<1>4. CASE type[p] \in unknown_types
  <2>1. cur_type' = type[p] /\ cur_exp' = p /\ SetHeap(heap)
    BY <1>4 DEF unstash_cur_exp, SetCur
  <2> HIDE DEF p
  <2>2. /\ p \in Capsules /\ p \in Aside(saved) /\ Aside(saved') = Aside(saved) \ {p}
        /\ \A t, e : (t \in unknown_types => e \notin Aside(saved')) => SavedRight(saved', t, e)
    BY <1>1, <1>2, TakenBack
  <2>3. SavedRight(saved', cur_type', cur_exp') /\ Owned(saved', cur_type', cur_exp') = Aside(saved)
    BY <1>4, <2>1, <2>2 DEF Owned
  <2>4. CurRight(type, cur_type', cur_exp') /\ HeapOK(heap, Plus(Nobody, cur_type', cur_exp'))
    BY <1>3, <1>4, <2>1, <2>2, KindsApart, NoPlus DEF CurRight
  <2> QED BY <1>1, <1>3, <2>1, <2>3, <2>4, RNextIs
<1>5. CASE type[p] \notin unknown_types
  <2> DEFINE a == type[p]  b == value[p]  g == Freed(heap, p)
  <2>1. cur_type' = a /\ cur_exp' = b /\ SetHeap(g)
    BY <1>5 DEF unstash_cur_exp, SetCur
  <2> HIDE DEF p
  <2>2. /\ p \in Capsules /\ p \in Aside(saved) /\ Aside(saved') = Aside(saved) \ {p}
        /\ \A t, e : (t \in unknown_types => e \notin Aside(saved')) => SavedRight(saved', t, e)
    BY <1>1, <1>2, TakenBack
  <2>3. p \in Node /\ a = heap.type[p] /\ b = heap.value[p] /\ heap.type[p] \notin unknown_types
    BY <1>1, <1>5, <2>2
  <2>4. a \in known_types
    BY <1>5, <2>2, HeldOnes DEF KU
  <2>5. (a = "boolean" => b \in Values) /\ (a = "string" => b \in Nat)
    BY <1>1, <1>3, <2>3, HeapParts DEF Typed
  <2>5a. g = Freed(heap, p)
    OBVIOUS
  <2> HIDE DEF a, b, g
  <2>6. /\ HeapOK(g, Plus(Nobody, heap.type[p], heap.value[p])) /\ Steady(heap, g, {p}) /\ g.pool = heap.pool
        /\ \A n \in Node : g.type[n] = IF n = p THEN "free" ELSE heap.type[n]
        /\ \A n \in Node : g.value[n] = IF n = p THEN null ELSE heap.value[n]
    BY <1>3, <2>3, <2>5a, NodeFreed
  <2>7. HeapOK(g, Plus(Nobody, cur_type', cur_exp')) /\ CurRight(g.type, cur_type', cur_exp')
    BY <2>1, <2>3, <2>4, <2>5, <2>6, KindsApart DEF CurRight
  <2>8. SavedRight(saved', cur_type', cur_exp') /\ Owned(saved', cur_type', cur_exp') = Aside(saved) \ {p}
    BY <2>1, <2>2, <2>4, KindsApart DEF Owned
  <2>9. Allotted(g.type, Aside(saved) \ {p})
    <3>1. \A n \in Variables : g.type[n] = type[n]
      BY <1>1, <2>2, <2>6 DEF Node
    <3>2. \A n \in Capsules : g.type[n] = IF n = p THEN "free" ELSE type[n]
      BY <1>1, <2>6
    <3> QED BY <1>1, <1>3, <3>1, <3>2 DEF Allotted
  <2> QED BY <2>1, <2>7, <2>8, <2>9, RNextIs
<1> QED BY <1>4, <1>5

\* The operands of a concatenation go when the result is there.
LEMMA CatStep ==
  ASSUME RInv, NEW w \in Values, cat(w)
  PROVE  RInv'
<1> DEFINE p == Top[2]  n == Len(heap.pool) + 1
           f == delete_str_ref(make_string(heap, w), "string", cur_exp)  g == Recycled(f, p)
<1>1. /\ heap.type = type /\ heap.pool = pool /\ HeapOK(heap, Plus(Nobody, cur_type, cur_exp))
      /\ CurRight(type, cur_type, cur_exp) /\ SavedRight(saved, cur_type, cur_exp)
      /\ Allotted(type, Owned(saved, cur_type, cur_exp)) /\ Nobody \in Tallies
      /\ Capsules \subseteq Node /\ Variables \cap Capsules = {}
  BY RParts DEF Node
<1>2. /\ cur_type = "string" /\ saved # <<>> /\ saved' = SubSeq(saved, 1, Len(saved) - 1)
      /\ p = saved[Len(saved)][2] /\ SetHeap(g) /\ cur_exp' = n /\ cur_type' = cur_type
  BY <1>1 DEF cat, Popped, Top
<1> HIDE DEF p
<1>3. HeapOK(heap, Plus(Nobody, "string", cur_exp)) /\ cur_exp \in Nat
  BY <1>1, <1>2 DEF CurRight
<1>4. /\ p \in Capsules /\ p \in Aside(saved) /\ Aside(saved') = Aside(saved) \ {p}
      /\ \A t, e : (t \in unknown_types => e \notin Aside(saved')) => SavedRight(saved', t, e)
  BY <1>1, <1>2, TakenBack
<1>5. HeapOK(f, Plus(Nobody, "string", n)) /\ f.type = heap.type /\ f.value = heap.value /\ n \in Nat
         /\ SameSaid(heap.pool, f.pool)
  <2> HIDE DEF n
  <2>1. n = Len(heap.pool) + 1
    BY DEF n
  <2> QED BY <1>1, <1>3, <2>1, StringReplaced
<1>5a. g = Recycled(f, p) /\ p \in Node
  BY <1>1, <1>4
<1> HIDE DEF f, n, g
<1>6. /\ HeapOK(g, Plus(Nobody, "string", n)) /\ Steady(f, g, {p})
      /\ \A k \in Node : g.type[k] = IF k = p THEN "free" ELSE f.type[k]
  BY <1>5, <1>5a, CapsuleRecycled
<1>7. CurRight(g.type, cur_type', cur_exp')
  BY <1>2, <1>5, KindsApart DEF CurRight
<1>8. /\ SavedRight(saved', cur_type', cur_exp') /\ Owned(saved', cur_type', cur_exp') = Aside(saved) \ {p}
      /\ Owned(saved, cur_type, cur_exp) = Aside(saved)
  BY <1>2, <1>4, KindsApart DEF Owned
<1>9. Allotted(g.type, Aside(saved) \ {p})
  <2>1. \A k \in Variables : g.type[k] = type[k]
    BY <1>1, <1>4, <1>5, <1>6 DEF Node
  <2>2. \A k \in Capsules : g.type[k] = IF k = p THEN "free" ELSE type[k]
    BY <1>1, <1>5, <1>6
  <2> QED BY <1>1, <1>8, <2>1, <2>2 DEF Allotted
<1> QED BY <1>2, <1>6, <1>7, <1>8, <1>9, RNextIs

\* After an equation with the left side p, a capsule in use, who held what.
LEMMA EquationLeaves ==
  ASSUME NEW t, NEW r, NEW p \in Capsules, NEW a, NEW e, NEW a2, NEW e2, NEW O,
         \A n \in Variables : t[n] \notin {"free", "vacuous"},
         \A n \in Capsules : IF n \in O \cup {p} \cup (IF a \in unknown_types THEN {e} ELSE {})
                             THEN t[n] \in KU ELSE t[n] = "free",
         p \notin O, Variables \cap Capsules = {},
         a \in unknown_types => e \in Capsules /\ e \notin O /\ e # p,
         a \in KU, r[p] = "free",
         \/ a2 = a /\ e2 = e /\ Alike(t, r, {p}) /\ (a \in unknown_types => r[e] \in KU)
         \/ a \in unknown_types /\ a2 \in known_types /\ r[e] = "free" /\ Alike(t, r, {p, e})
  PROVE  Allotted(r, O \cup (IF a2 \in unknown_types THEN {e2} ELSE {}))
<1>1. a2 \in unknown_types => a2 = a /\ e2 = e
  BY KindsApart
<1>2. ASSUME NEW n \in Variables PROVE r[n] \notin {"free", "vacuous"}
  <2>1. n \in Node /\ n # p /\ (a \in unknown_types => n # e)
    BY DEF Node
  <2>2. t[n] \notin {"free", "vacuous"}
    OBVIOUS
  <2>3. IF t[n] \in KU THEN r[n] \in KU ELSE r[n] = t[n]
    BY <2>1 DEF Alike
  <2> QED BY <2>2, <2>3, KindsApart
<1>3. ASSUME NEW c \in Capsules
      PROVE  IF c \in O \cup (IF a2 \in unknown_types THEN {e2} ELSE {})
             THEN r[c] \in KU ELSE r[c] = "free"
  <2>1. c \in Node
    BY DEF Node
  <2>2. CASE c = p
    BY <1>1, <2>2
  <2>3. CASE c # p /\ a \in unknown_types /\ c = e
    BY <1>1, <2>3, KindsApart
  <2>4. CASE c # p /\ ~ (a \in unknown_types /\ c = e)
    <3>1. IF t[c] \in KU THEN r[c] \in KU ELSE r[c] = t[c]
      BY <2>1, <2>4 DEF Alike
    <3>2. IF c \in O THEN t[c] \in KU ELSE t[c] = "free"
      BY <2>4
    <3>3. c \in O \cup (IF a2 \in unknown_types THEN {e2} ELSE {}) <=> c \in O
      BY <1>1, <2>4
    <3> QED BY <3>1, <3>2, <3>3, KindsApart
  <2> QED BY <2>2, <2>3, <2>4
<1> QED BY <1>2, <1>3 DEF Allotted, KU

\* The left side of an equation goes, or what is current by then.
LEMMA EquationStep ==
  ASSUME RInv, do_equation
  PROVE  RInv'
<1> DEFINE p == Top[2]  r == make_eq(heap, p, cur_type, cur_exp)
<1>1. /\ heap.type = type /\ HeapOK(heap, Plus(Nobody, cur_type, cur_exp))
      /\ CurRight(type, cur_type, cur_exp) /\ SavedRight(saved, cur_type, cur_exp)
      /\ Allotted(type, Owned(saved, cur_type, cur_exp)) /\ Nobody \in Tallies
      /\ Capsules \subseteq Node /\ Variables \cap Capsules = {}
  BY RParts DEF Node
<1>2. /\ cur_type # "vacuous" /\ saved # <<>> /\ saved' = SubSeq(saved, 1, Len(saved) - 1)
      /\ p = saved[Len(saved)][2] /\ SetHeap(r.heap) /\ cur_type' = r.type /\ cur_exp' = r.exp
  BY DEF do_equation, alive, Popped, Top, SetTo, SetCur
<1>3. r = make_eq(heap, p, cur_type, cur_exp)
  OBVIOUS
<1> HIDE DEF p, r
<1>4. /\ p \in Capsules /\ p \in Aside(saved) /\ Aside(saved') = Aside(saved) \ {p}
      /\ \A t, e : (t \in unknown_types => e \notin Aside(saved')) => SavedRight(saved', t, e)
  BY <1>1, <1>2, TakenBack
<1>5. /\ cur_type \in KU /\ heap.type[p] \in KU /\ CurRight(heap.type, cur_type, cur_exp)
      /\ (cur_type \in unknown_types => cur_exp # p /\ cur_exp \in Capsules /\ cur_exp \notin Aside(saved))
  <2>1. cur_type \in KU
    BY <1>1, <1>2 DEF CurRight, KU
  <2> QED BY <1>1, <1>4, <2>1, HeldOnes
<1>6. /\ HeapOK(r.heap, Plus(Nobody, r.type, r.exp)) /\ CurRight(r.heap.type, r.type, r.exp)
      /\ r.type \in KU /\ r.heap.type[p] = "free"
      /\ \/ r.type = cur_type /\ r.exp = cur_exp /\ Alike(heap.type, r.heap.type, {p})
            /\ (cur_type \in unknown_types => r.heap.type[cur_exp] \in KU)
         \/ /\ cur_type \in unknown_types /\ r.type \in known_types /\ r.heap.type[cur_exp] = "free"
            /\ Alike(heap.type, r.heap.type, {p, cur_exp})
  BY <1>1, <1>3, <1>4, <1>5, EquationMade
<1> DEFINE t == heap.type  u == r.heap.type  O == Aside(saved) \ {p}  a2 == r.type  e2 == r.exp
<1>7. Allotted(u, O \cup (IF a2 \in unknown_types THEN {e2} ELSE {}))
  <2>1. \A n \in Variables : t[n] \notin {"free", "vacuous"}
    BY <1>1 DEF Allotted
  <2>2. \A n \in Capsules : IF n \in O \cup {p} \cup (IF cur_type \in unknown_types THEN {cur_exp} ELSE {})
                            THEN t[n] \in KU ELSE t[n] = "free"
    <3>1. O \cup {p} \cup (IF cur_type \in unknown_types THEN {cur_exp} ELSE {})
             = Owned(saved, cur_type, cur_exp)
      BY <1>4 DEF Owned
    <3> QED BY <1>1, <3>1 DEF Allotted, KU
  <2>3. p \notin O /\ Variables \cap Capsules = {} /\ p \in Capsules
    BY <1>1, <1>4
  <2>4. cur_type \in unknown_types => cur_exp \in Capsules /\ cur_exp \notin O /\ cur_exp # p
    BY <1>5
  <2>5. /\ cur_type \in KU /\ u[p] = "free"
        /\ \/ a2 = cur_type /\ e2 = cur_exp /\ Alike(t, u, {p})
              /\ (cur_type \in unknown_types => u[cur_exp] \in KU)
           \/ /\ cur_type \in unknown_types /\ a2 \in known_types /\ u[cur_exp] = "free"
              /\ Alike(t, u, {p, cur_exp})
    BY <1>5, <1>6
  <2> HIDE DEF t, u, O, a2, e2
  <2> QED BY ONLY <2>1, <2>2, <2>3, <2>4, <2>5, EquationLeaves
<1>8. a2 \in unknown_types => e2 \notin O
  BY <1>5, <1>6, KindsApart
<1>9. SavedRight(saved', cur_type', cur_exp')
      /\ Owned(saved', cur_type', cur_exp') = O \cup (IF a2 \in unknown_types THEN {e2} ELSE {})
  BY <1>2, <1>4, <1>8 DEF Owned
<1> QED BY <1>2, <1>6, <1>7, <1>9, RNextIs

\* The variable enters the ring of a new capsule, the left side.
LEMMA AssignmentStep ==
  ASSUME RInv, NEW x \in Variables, do_assignment(x)
  PROVE  RInv'
<1> DEFINE X == Plus(Nobody, cur_type, cur_exp)  a == und_type(type[x])
           f == recycle_value(heap, x)  d == [f EXCEPT !.type[x] = a]
<1>1. /\ heap.type = type /\ HeapOK(heap, X) /\ x \in Node /\ \A n \in Capsules : n # x /\ n \in Node
      /\ CurRight(type, cur_type, cur_exp) /\ SavedRight(saved, cur_type, cur_exp)
      /\ Allotted(type, Owned(saved, cur_type, cur_exp)) /\ Nobody \in Tallies
      /\ Variables \cap Capsules = {}
  BY RParts DEF Node
<1>2. PICK c \in FreeCapsules : SetTo(make_eq(new_ring_entry(d, x, c), c, cur_type, cur_exp))
  BY <1>1 DEF do_assignment
<1>3. cur_type # "vacuous" /\ saved' = saved
  BY DEF do_assignment, alive
<1> DEFINE g == new_ring_entry(d, x, c)  r == make_eq(g, c, cur_type, cur_exp)
<1>4. SetHeap(r.heap) /\ cur_type' = r.type /\ cur_exp' = r.exp
  BY <1>2 DEF SetTo, SetCur
<1>5. /\ c \in Capsules /\ c \notin Aside(saved) /\ type[c] = "free" /\ c \in Node /\ c # x
      /\ ~ (cur_type \in unknown_types /\ c = cur_exp)
      /\ (cur_type \in unknown_types => cur_exp \in Capsules /\ cur_exp \notin Aside(saved))
  BY <1>1, HeldOnes
<1>6. a \in unknown_types
  BY TypeNames DEF und_type
<1>7. r = make_eq(g, c, cur_type, cur_exp) /\ g = new_ring_entry(d, x, c)
      /\ IsDeclared(d, f, x, a) /\ f = recycle_value(heap, x)
  BY DEF IsDeclared
<1> HIDE DEF X, a, f, d, g, r
<1>8. /\ HeapOK(f, X) /\ Steady(heap, f, {x})
      /\ \A n \in Node : f.type[n] = IF n = x THEN "undefined" ELSE heap.type[n]
      /\ f.value[x] = null
  BY <1>1, <1>7, ValueRecycled
<1>9. /\ HeapOK(d, X) /\ Steady(f, d, {}) /\ d.pool = f.pool /\ d.value = f.value
      /\ \A n \in Node : d.type[n] = IF n = x THEN a ELSE f.type[n]
  <2>1. HeapOK(f, X) /\ f.value[x] = null /\ f.type[x] = "undefined" /\ IsDeclared(d, f, x, a)
        /\ x \in Variables
    BY <1>1, <1>7, <1>8
  <2> QED BY ONLY <1>6, <2>1, Declared
<1>10. d.type[c] = "free" /\ d.type[c] \notin known_types \cup unknown_types /\ d.type[x] = a
  BY <1>1, <1>5, <1>8, <1>9, KindsApart DEF KU
<1>11. /\ HeapOK(g, X) /\ Steady(d, g, {}) /\ g.pool = d.pool
       /\ \A n \in Node : g.type[n] = IF n = c THEN d.type[x] ELSE d.type[n]
  BY <1>1, <1>5, <1>6, <1>7, <1>9, <1>10, Entered
<1>12. \A n \in Node : g.type[n] = IF n = c \/ n = x THEN a ELSE type[n]
  BY <1>1, <1>5, <1>8, <1>9, <1>10, <1>11
<1>13. /\ cur_type \in KU /\ g.type[c] \in KU /\ CurRight(g.type, cur_type, cur_exp)
       /\ (cur_type \in unknown_types => cur_exp # c)
  <2>1. cur_type \in KU
    BY <1>1, <1>3 DEF CurRight, KU
  <2>2. g.type[c] \in KU
    BY <1>5, <1>6, <1>12, KindsApart
  <2>3. CurRight(g.type, cur_type, cur_exp)
    BY <1>1, <1>5, <1>12 DEF CurRight
  <2> QED BY <1>5, <2>1, <2>2, <2>3
<1>14. /\ HeapOK(r.heap, Plus(Nobody, r.type, r.exp)) /\ CurRight(r.heap.type, r.type, r.exp)
       /\ r.type \in KU /\ r.heap.type[c] = "free"
       /\ \/ r.type = cur_type /\ r.exp = cur_exp /\ Alike(g.type, r.heap.type, {c})
             /\ (cur_type \in unknown_types => r.heap.type[cur_exp] \in KU)
          \/ /\ cur_type \in unknown_types /\ r.type \in known_types /\ r.heap.type[cur_exp] = "free"
             /\ Alike(g.type, r.heap.type, {c, cur_exp})
  <2>1. HeapOK(g, Plus(Nobody, cur_type, cur_exp))
    BY <1>11 DEF X
  <2> QED BY <1>1, <1>5, <1>7, <1>13, <2>1, EquationMade
<1> DEFINE t == g.type  u == r.heap.type  O == Aside(saved)  a2 == r.type  e2 == r.exp
<1>15. Allotted(u, O \cup (IF a2 \in unknown_types THEN {e2} ELSE {}))
  <2>1. \A n \in Variables : t[n] \notin {"free", "vacuous"}
    <3>1. \A n \in Variables : n \in Node /\ n # c
      BY <1>1, <1>5 DEF Node
    <3> QED BY <1>1, <1>6, <1>12, <3>1, KindsApart DEF Allotted
  <2>2. \A n \in Capsules : IF n \in O \cup {c} \cup (IF cur_type \in unknown_types THEN {cur_exp} ELSE {})
                            THEN t[n] \in KU ELSE t[n] = "free"
    <3>1. ASSUME NEW n \in Capsules, n # c
          PROVE  t[n] = type[n] /\ (n \in O \cup {c} \cup (IF cur_type \in unknown_types THEN {cur_exp} ELSE {})
                                       <=> n \in Owned(saved, cur_type, cur_exp))
      BY <1>1, <1>12, <3>1 DEF Owned
    <3>2. \A n \in Capsules : IF n \in Owned(saved, cur_type, cur_exp) THEN type[n] \in KU ELSE type[n] = "free"
      BY <1>1 DEF Allotted, KU
    <3> QED BY <1>13, <3>1, <3>2
  <2>3. c \notin O /\ Variables \cap Capsules = {} /\ c \in Capsules
    BY <1>1, <1>5
  <2>4. cur_type \in unknown_types => cur_exp \in Capsules /\ cur_exp \notin O /\ cur_exp # c
    BY <1>5
  <2>5. /\ cur_type \in KU /\ u[c] = "free"
        /\ \/ a2 = cur_type /\ e2 = cur_exp /\ Alike(t, u, {c})
              /\ (cur_type \in unknown_types => u[cur_exp] \in KU)
           \/ /\ cur_type \in unknown_types /\ a2 \in known_types /\ u[cur_exp] = "free"
              /\ Alike(t, u, {c, cur_exp})
    BY <1>13, <1>14
  <2> HIDE DEF t, u, O, a2, e2
  <2> QED BY ONLY <2>1, <2>2, <2>3, <2>4, <2>5, EquationLeaves
<1>16. a2 \in unknown_types => e2 \notin O
  BY <1>5, <1>14, KindsApart
<1>17. SavedRight(saved', cur_type', cur_exp')
      /\ Owned(saved', cur_type', cur_exp') = O \cup (IF a2 \in unknown_types THEN {e2} ELSE {})
  BY <1>1, <1>3, <1>4, <1>16 DEF Owned, SavedRight
<1> QED BY <1>4, <1>14, <1>15, <1>17, RNextIs

\* The current expression goes.
LEMMA FlushedStep ==
  ASSUME RInv, flush_cur_exp
  PROVE  RInv'
<1>1. /\ heap.type = type /\ HeapOK(heap, Plus(Nobody, cur_type, cur_exp)) /\ Nobody \in Tallies
      /\ CurRight(type, cur_type, cur_exp) /\ SavedRight(saved, cur_type, cur_exp)
      /\ Allotted(type, Owned(saved, cur_type, cur_exp))
      /\ Capsules \subseteq Node /\ Variables \cap Capsules = {}
  BY RParts DEF Node
<1>2. cur_type' = "vacuous" /\ cur_exp' = null /\ saved' = saved
  BY DEF flush_cur_exp, SetCur
<1>3. Plus(Nobody, cur_type', cur_exp') = Nobody
      /\ \A t : CurRight(t, cur_type', cur_exp')
  BY <1>2, NoPlus, KindsApart DEF CurRight
<1>4. SavedRight(saved', cur_type', cur_exp') /\ Owned(saved', cur_type', cur_exp') = Aside(saved)
  BY <1>1, <1>2, KindsApart DEF SavedRight, Owned
<1>5. CASE cur_type \in unknown_types
  <2> DEFINE g == Recycled(heap, cur_exp)
  <2>1. SetHeap(g)
    BY <1>5 DEF flush_cur_exp
  <2>2. HeapOK(heap, Nobody) /\ cur_exp \in Capsules /\ cur_exp \in Node /\ cur_exp \notin Aside(saved)
    BY <1>1, <1>5, NoPlus, KindsApart, HeldOnes
  <2>3. g = Recycled(heap, cur_exp)
    OBVIOUS
  <2> HIDE DEF g
  <2>4. /\ HeapOK(g, Nobody) /\ Steady(heap, g, {cur_exp})
        /\ \A n \in Node : g.type[n] = IF n = cur_exp THEN "free" ELSE heap.type[n]
    BY <2>2, <2>3, CapsuleRecycled
  <2>5. Allotted(g.type, Aside(saved))
    <3>1. \A n \in Variables : g.type[n] = type[n]
      BY <1>1, <2>2, <2>4 DEF Node
    <3>2. \A n \in Capsules : g.type[n] = IF n = cur_exp THEN "free" ELSE type[n]
      BY <1>1, <2>4
    <3>3. Owned(saved, cur_type, cur_exp) = Aside(saved) \cup {cur_exp}
      BY <1>5 DEF Owned
    <3> QED BY <1>1, <2>2, <3>1, <3>2, <3>3 DEF Allotted
  <2> QED BY <1>3, <1>4, <2>1, <2>4, <2>5, RNextIs
<1>6. CASE cur_type \notin unknown_types
  <2> DEFINE g == delete_str_ref(heap, cur_type, cur_exp)
  <2>1. SetHeap(g)
    BY <1>6 DEF flush_cur_exp
  <2>2. cur_type = "string" => cur_exp \in Nat
    BY <1>1 DEF CurRight
  <2>3. g = delete_str_ref(heap, cur_type, cur_exp)
    OBVIOUS
  <2> HIDE DEF g
  <2>4. /\ HeapOK(g, Nobody) /\ g.type = heap.type /\ g.value = heap.value
        /\ SameSaid(heap.pool, g.pool) /\ DOMAIN g.pool \subseteq DOMAIN heap.pool
    BY <1>1, <2>2, <2>3, GivenUp
  <2>5. Allotted(g.type, Aside(saved))
    BY <1>1, <1>6, <2>4 DEF Owned
  <2> QED BY <1>3, <1>4, <2>1, <2>4, <2>5, RNextIs
<1> QED BY <1>5, <1>6

\* No step breaks the invariant.
LEMMA RNext == RInv /\ [Next]_vars => RInv'
<1> SUFFICES ASSUME RInv, [Next]_vars PROVE RInv'
  OBVIOUS
<1>1. ASSUME NEW x \in Variables, NEW t \in unknown_types, do_type_declaration(x, t) PROVE RInv'
  BY <1>1, DeclarationStep
<1>2. ASSUME NEW x \in Variables, flush_variable(x) PROVE RInv'
  BY <1>2, FlushStep
<1>3. ASSUME NEW x \in Variables, make_exp_copy(x) PROVE RInv'
  BY <1>3, CopyStep
<1>4. ASSUME NEW x \in Variables, do_assignment(x) PROVE RInv'
  BY <1>4, AssignmentStep
<1>5. ASSUME NEW t \in {"boolean", "string"}, NEW v \in Values, Constant(t, v) PROVE RInv'
  BY <1>5, ConstantStep
<1>6. ASSUME NEW v \in Values, chop_string(v) PROVE RInv'
  BY <1>6, ChopStep
<1>7. ASSUME NEW v \in Values, cat(v) PROVE RInv'
  BY <1>7, CatStep
<1>8. ASSUME NEW who \in {"lhs", "expr"}, stash_cur_exp(who) PROVE RInv'
  BY <1>8, StashStep
<1>9. CASE unstash_cur_exp
  BY <1>9, UnstashStep
<1>10. CASE do_equation
  BY <1>10, EquationStep
<1>11. CASE flush_cur_exp
  BY <1>11, FlushedStep
<1>12. CASE UNCHANGED vars
  BY <1>12 DEF vars, RInv, heap
<1> QED BY <1>1, <1>2, <1>3, <1>4, <1>5, <1>6, <1>7, <1>8, <1>9, <1>10, <1>11, <1>12 DEF Next

-----------------------------------------------------------------------------
(* What the invariant says of the model's properties.                      *)

\* The invariant has the types in it.
LEMMA RTypes == RInv => RingTypeOK
<1> SUFFICES ASSUME RInv PROVE RingTypeOK
  OBVIOUS
<1> DEFINE X == Plus(Nobody, cur_type, cur_exp)
<1>1. /\ heap.type = type /\ heap.value = value /\ heap.pool = pool /\ HeapOK(heap, X)
      /\ CurRight(type, cur_type, cur_exp) /\ SavedRight(saved, cur_type, cur_exp)
      /\ Allotted(type, Owned(saved, cur_type, cur_exp))
  BY RParts
<1>2. Typed(type, value) /\ Linked(type, value)
  BY <1>1, HeapParts
<1>3. /\ \A n \in Node : type[n] = "string" => value[n] \in DOMAIN pool
      /\ \A s \in Nat : X[s] # 0 => s \in DOMAIN pool
  BY <1>1, InPool
<1>4. \A n \in UnknownNodes : value[n] = null \/ (value[n] \in Node /\ type[value[n]] = type[n])
  BY <1>2 DEF UnknownNodes, Linked, Behind
<1>5. \A n \in KnownNodes : value[n] \in (IF type[n] = "string" THEN DOMAIN pool ELSE Values)
  BY <1>2, <1>3 DEF KnownNodes, Typed
<1>6. cur_type = "string" => cur_exp \in DOMAIN pool
  <2> SUFFICES ASSUME cur_type = "string" PROVE cur_exp \in DOMAIN pool
    OBVIOUS
  <2>1. cur_exp \in Nat
    BY <1>1 DEF CurRight
  <2>2. X[cur_exp] = 1
    BY <2>1 DEF Plus, Nobody
  <2> QED BY <1>3, <2>1, <2>2
<1>7. cur_type \in {"vacuous", "boolean", "string"} \cup unknown_types
  BY <1>1 DEF CurRight, known_types
<1>8. {c \in Capsules : type[c] # "free"}
         = {saved[i][2] : i \in DOMAIN saved} \cup (IF cur_type \in unknown_types THEN {cur_exp} ELSE {})
  <2>1. \A c \in Owned(saved, cur_type, cur_exp) : c \in Capsules
    BY HeldOnes DEF Owned
  <2>2. \A c \in Capsules : c \in Owned(saved, cur_type, cur_exp) <=> type[c] # "free"
    BY <1>1, KindsApart DEF Allotted, KU
  <2> QED BY <2>1, <2>2 DEF Owned, Aside
<1>9. \A i, j \in DOMAIN saved : saved[i][2] = saved[j][2] => i = j
  BY <1>1 DEF SavedRight
<1> QED BY <1>4, <1>5, <1>6, <1>7, <1>8, <1>9 DEF RingTypeOK

\* The tally is the number of holders.
LEMMA RCounts == RInv => RefsExact
<1> SUFFICES ASSUME RInv PROVE RefsExact
  OBVIOUS
<1> DEFINE X == Plus(Nobody, cur_type, cur_exp)
<1>1. /\ heap.type = type /\ heap.value = value /\ heap.pool = pool /\ HeapOK(heap, X)
      /\ CurRight(type, cur_type, cur_exp)
  BY RParts
<1>2. Counts(pool, Total(type, value, X))
  BY <1>1, HeapParts
<1>3. \A s \in DOMAIN pool : s \in Nat
  <2> DEFINE E == [chars : Values, ref : Nat]
  <2>1. pool \in Seq(E)
    BY <1>2 DEF Counts
  <2> HIDE DEF E
  <2> QED BY ONLY <2>1
<1>4. ASSUME NEW s \in DOMAIN pool
      PROVE  pool[s].ref = max_str_ref \/ pool[s].ref =
                Cardinality({n \in Node : type[n] = "string" /\ value[n] = s})
                    + (IF cur_type = "string" /\ cur_exp = s THEN 1 ELSE 0)
  <2>1. s \in Nat
    BY <1>3
  <2>2. Total(type, value, X)[s] = Cardinality(Users(type, value, s)) + X[s]
    BY <2>1 DEF Total
  <2>3. X[s] = IF cur_type = "string" /\ cur_exp = s THEN 1 ELSE 0
    BY <1>1, <2>1 DEF Plus, Nobody, CurRight
  <2>4. Users(type, value, s) = {n \in Node : type[n] = "string" /\ value[n] = s}
    BY DEF Users
  <2>5. pool[s].ref = max_str_ref \/ pool[s].ref = Total(type, value, X)[s]
    BY <1>2 DEF Counts
  <2> HIDE DEF X
  <2> QED BY <2>2, <2>3, <2>4, <2>5
<1>5. pool # <<>> => pool[Len(pool)].ref # 0
  BY <1>2 DEF Counts
<1> QED BY <1>4, <1>5, RTypes DEF RefsExact

\* The value fields permute the unknown quantities of each type, and every
\* count is right, in every state the actions of the rings reach.
THEOREM RingsInvariance == Spec => []RInv
<1>1. Init => RInv
  BY RInit
<1>2. RInv /\ [Next]_vars => RInv'
  BY RNext
<1> QED BY <1>1, <1>2, PTL DEF Spec

\* The reference count of a string is the number of the nodes and of the
\* current expression that have it, or infinite, whichever ring they got it
\* from, and the string on top of the pool has references (mf.web 1120-1168,
\* 13111-13217).
THEOREM ReferencesExact == Spec => []RefsExact
<1>1. RInv => RefsExact
  BY RCounts
<1> QED BY <1>1, RingsInvariance, PTL

-----------------------------------------------------------------------------
(* Cycles of changed value fields.                                         *)

\* There is one cycle of p.
LEMMA CycleUnique ==
  ASSUME NEW v, NEW p, NEW R, Cycle(v, R, p), NEW Q, Cycle(v, Q, p)
  PROVE  R = Q
BY DEF Cycle

\* The cycle depends on its members' fields only.
LEMMA CycleAgree ==
  ASSUME NEW v, NEW p, NEW R, Cycle(v, R, p), NEW w, \A n \in R : Behind(w, n) = Behind(v, n)
  PROVE  Cycle(w, R, p)
<1>1. p \in R /\ Closed(v, R) /\ \A n \in R : \E m \in R : Behind(v, m) = n
  BY DEF Cycle
<1>2. Closed(w, R) /\ \A n \in R : \E m \in R : Behind(w, m) = n
  BY <1>1 DEF Closed
<1>3. ASSUME NEW W, p \in W, Closed(w, W) PROVE R \subseteq W
  <2> DEFINE V == W \cap R
  <2>1. p \in V /\ Closed(v, V)
    BY <1>1, <1>3 DEF Closed
  <2> HIDE DEF V
  <2>2. R \subseteq V
    BY <2>1 DEF Cycle
  <2> QED BY <2>2 DEF V
<1> QED BY <1>1, <1>2, <1>3 DEF Cycle

\* q comes in behind p.
LEMMA CycleEntered ==
  ASSUME NEW v, NEW p, NEW R, Cycle(v, R, p), NEW w, NEW q, q \notin R,
         Behind(w, p) = q, Behind(w, q) = Behind(v, p),
         \A n \in R : n # p => Behind(w, n) = Behind(v, n)
  PROVE  Cycle(w, R \cup {q}, p)
<1> DEFINE S == R \cup {q}
<1>1. p \in R /\ Closed(v, R) /\ \A n \in R : \E m \in R : Behind(v, m) = n
  BY DEF Cycle
<1>2. p \in S /\ Closed(w, S)
  BY <1>1 DEF Closed
<1>3. \A n \in S : \E m \in S : Behind(w, m) = n
  <2> SUFFICES ASSUME NEW n \in S PROVE \E m \in S : Behind(w, m) = n
    OBVIOUS
  <2>1. CASE n = q
    BY <1>2, <2>1
  <2>2. CASE n \in R
    <3>1. PICK m \in R : Behind(v, m) = n
      BY <1>1, <2>2
    <3>2. CASE m = p
      BY <3>1, <3>2
    <3>3. CASE m # p
      BY <3>1, <3>3
    <3> QED BY <3>2, <3>3
  <2> QED BY <2>1, <2>2
<1>4. ASSUME NEW W, p \in W, Closed(w, W) PROVE S \subseteq W
  <2> DEFINE V == W \cap R
  <2>1. q \in W
    BY <1>4 DEF Closed
  <2>2. Behind(v, p) \in W
    BY <1>4, <2>1 DEF Closed
  <2>3. p \in V /\ Closed(v, V)
    <3>1. ASSUME NEW n \in V PROVE Behind(v, n) \in V
      BY <1>1, <1>4, <2>2, <3>1 DEF Closed
    <3> QED BY <1>1, <1>4, <3>1 DEF Closed
  <2> HIDE DEF V
  <2>4. R \subseteq V
    BY <2>3 DEF Cycle
  <2> QED BY <2>1, <2>4 DEF V
<1> HIDE DEF S
<1>5. Cycle(w, S, p)
  BY <1>2, <1>3, <1>4 DEF Cycle
<1> QED BY <1>5 DEF S

\* p goes; n is another member.
LEMMA CycleLeft ==
  ASSUME NEW v, NEW n, NEW R, Cycle(v, R, n), NEW w, NEW p \in R, n # p,
         \A i, j \in R : Behind(v, i) = Behind(v, j) => i = j,
         \A i \in R : i # p => Behind(w, i) = IF Behind(v, i) = p THEN Behind(v, p) ELSE Behind(v, i)
  PROVE  Cycle(w, R \ {p}, n)
<1> DEFINE S == R \ {p}
<1>1. n \in R /\ Closed(v, R) /\ \A i \in R : \E m \in R : Behind(v, m) = i
  BY DEF Cycle
<1>2. PICK o \in R : Behind(v, o) = p
  BY <1>1
<1>3. o # p
  <2> SUFFICES ASSUME o = p PROVE FALSE
    OBVIOUS
  <2> DEFINE V == R \ {p}
  <2>1. n \in V /\ Closed(v, V)
    BY <1>1, <1>2 DEF Closed
  <2> HIDE DEF V
  <2>2. R \subseteq V
    BY <2>1 DEF Cycle
  <2> QED BY <2>2 DEF V
<1>4. Behind(v, p) \in S /\ Behind(w, o) = Behind(v, p)
  BY <1>1, <1>2, <1>3 DEF Closed
<1>5. n \in S /\ Closed(w, S)
  <2>1. ASSUME NEW i \in S PROVE Behind(w, i) \in S
    BY <1>1, <1>4 DEF Closed
  <2> QED BY <1>1, <2>1 DEF Closed
<1>6. \A i \in S : \E m \in S : Behind(w, m) = i
  <2> SUFFICES ASSUME NEW i \in S PROVE \E m \in S : Behind(w, m) = i
    OBVIOUS
  <2>1. PICK m \in R : Behind(v, m) = i
    BY <1>1
  <2>2. CASE m = p
    BY <1>3, <1>4, <2>1, <2>2
  <2>3. CASE m # p
    BY <2>1, <2>3
  <2> QED BY <2>2, <2>3
<1>7. ASSUME NEW W, n \in W, Closed(w, W) PROVE S \subseteq W
  <2> DEFINE V == {i \in R : IF i = p THEN o \in W ELSE i \in W}
  <2>1. n \in V
    BY <1>1, <1>7
  <2>2. ASSUME NEW i \in V PROVE Behind(v, i) \in V
    <3>1. i \in R /\ Behind(v, i) \in R
      BY <1>1 DEF Closed
    <3>2. CASE i = p
      <4>1. o \in W
        BY <3>2
      <4>2. Behind(v, p) \in W
        BY <1>4, <1>7, <4>1 DEF Closed
      <4> QED BY <1>4, <3>1, <3>2, <4>2
    <3>3. CASE i # p /\ Behind(v, i) = p
      <4>1. i = o
        BY <1>2, <3>1, <3>3
      <4> QED BY <3>1, <3>3, <4>1
    <3>4. CASE i # p /\ Behind(v, i) # p
      <4>1. Behind(w, i) = Behind(v, i) /\ i \in W
        BY <3>1, <3>4
      <4> QED BY <1>7, <3>1, <3>4, <4>1 DEF Closed
    <3> QED BY <3>2, <3>3, <3>4
  <2>3. Closed(v, V)
    BY <2>2 DEF Closed
  <2> HIDE DEF V
  <2>4. R \subseteq V
    BY <2>1, <2>3 DEF Cycle
  <2> QED BY <2>4 DEF V
<1> HIDE DEF S
<1>8. Cycle(w, S, n)
  BY <1>5, <1>6, <1>7 DEF Cycle
<1> QED BY <1>8 DEF S

\* Two cycles become one.
LEMMA CyclesMerged ==
  ASSUME NEW v, NEW p, NEW R, Cycle(v, R, p), NEW q, NEW Q, Cycle(v, Q, q), p \notin Q, q \notin R,
         NEW w, Behind(w, p) = Behind(v, q), Behind(w, q) = Behind(v, p),
         \A n \in R \cup Q : n # p /\ n # q => Behind(w, n) = Behind(v, n)
  PROVE  Cycle(w, R \cup Q, p)
<1> DEFINE S == R \cup Q
<1>1. /\ p \in R /\ Closed(v, R) /\ \A n \in R : \E m \in R : Behind(v, m) = n
      /\ q \in Q /\ Closed(v, Q) /\ \A n \in Q : \E m \in Q : Behind(v, m) = n
  BY DEF Cycle
<1>2. p \in S /\ Closed(w, S)
  <2>1. ASSUME NEW n \in S PROVE Behind(w, n) \in S
    BY <1>1 DEF Closed
  <2> QED BY <1>1, <2>1 DEF Closed
<1>3. \A n \in S : \E m \in S : Behind(w, m) = n
  <2> SUFFICES ASSUME NEW n \in S PROVE \E m \in S : Behind(w, m) = n
    OBVIOUS
  <2>1. PICK m \in S : Behind(v, m) = n
    BY <1>1
  <2>2. CASE m = p
    BY <1>1, <2>1, <2>2
  <2>3. CASE m = q
    BY <1>1, <2>1, <2>3
  <2>4. CASE m # p /\ m # q
    BY <2>1, <2>4
  <2> QED BY <2>2, <2>3, <2>4
<1>4. ASSUME NEW W, p \in W, Closed(w, W) PROVE S \subseteq W
  <2>1. Behind(v, q) \in W /\ Behind(v, q) \in Q
    BY <1>1, <1>4 DEF Closed
  <2>2. q \in W
    <3> SUFFICES ASSUME q \notin W PROVE FALSE
      OBVIOUS
    <3> DEFINE U == W \cap Q
    <3>1. Closed(v, U)
      <4>1. ASSUME NEW n \in U PROVE Behind(v, n) \in U
        <5>1. n # p /\ n # q /\ n \in Q
          OBVIOUS
        <5>2. Behind(w, n) = Behind(v, n)
          BY <5>1
        <5> QED BY <1>1, <1>4, <5>1, <5>2 DEF Closed
      <4> QED BY <4>1 DEF Closed
    <3>2. Cycle(v, Q, Behind(v, q))
      <4>1. Behind(v, q) \in Q
        BY <2>1
      <4>2. ASSUME NEW X, Behind(v, q) \in X, Closed(v, X) PROVE Q \subseteq X
        <5> DEFINE Y == X \cup {q}
        <5>1. q \in Y /\ Closed(v, Y)
          BY <4>2 DEF Closed
        <5> HIDE DEF Y
        <5>2. Q \subseteq Y
          BY <5>1 DEF Cycle
        <5>3. q \in X
          <6>1. PICK m \in Q : Behind(v, m) = q
            BY <1>1
          <6>2. m = q \/ m \in X
            BY <5>2 DEF Y
          <6> QED BY <4>2, <6>1, <6>2 DEF Closed
        <5> QED BY <5>2, <5>3 DEF Y
      <4> QED BY <1>1, <4>1, <4>2 DEF Cycle
    <3> HIDE DEF U
    <3>3. Behind(v, q) \in U
      BY <2>1 DEF U
    <3>4. Q \subseteq U
      BY <3>1, <3>2, <3>3 DEF Cycle
    <3> QED BY <1>1, <3>4 DEF U
  <2>3. Behind(v, p) \in W
    BY <1>4, <2>2 DEF Closed
  <2>4. R \subseteq W
    <3> DEFINE U == W \cap R
    <3>1. p \in U /\ Closed(v, U)
      <4>1. ASSUME NEW n \in U PROVE Behind(v, n) \in U
        <5>1. CASE n = p
          BY <1>1, <2>3, <5>1 DEF Closed
        <5>2. CASE n # p
          BY <1>1, <1>4, <5>2 DEF Closed
        <5> QED BY <5>1, <5>2
      <4> QED BY <1>1, <1>4, <4>1 DEF Closed
    <3> HIDE DEF U
    <3>2. R \subseteq U
      BY <3>1 DEF Cycle
    <3> QED BY <3>2 DEF U
  <2>5. Q \subseteq W
    <3> DEFINE U == W \cap Q
    <3>1. q \in U /\ Closed(v, U)
      <4>1. ASSUME NEW n \in U PROVE Behind(v, n) \in U
        <5>1. CASE n = q
          BY <2>1, <5>1
        <5>2. CASE n # q
          BY <1>1, <1>4, <5>2 DEF Closed
        <5> QED BY <5>1, <5>2
      <4> QED BY <1>1, <2>2, <4>1 DEF Closed
    <3> HIDE DEF U
    <3>2. Q \subseteq U
      BY <3>1 DEF Cycle
    <3> QED BY <3>2 DEF U
  <2> QED BY <2>4, <2>5
<1> HIDE DEF S
<1>5. Cycle(w, S, p)
  BY <1>2, <1>3, <1>4 DEF Cycle
<1> QED BY <1>5 DEF S

-----------------------------------------------------------------------------
(* The classes of equal quantities.                                        *)

Unk(h)   == {n \in Node : h.type[n] \in unknown_types}
Parts(h) == {Ring(h, n) : n \in Unk(h)}

\* The rings part the unknown quantities.
LEMMA PartsAre ==
  ASSUME NEW h, Linked(h.type, h.value)
  PROVE  /\ \A n \in Unk(h) : n \in Ring(h, n) /\ Ring(h, n) \in Parts(h) /\ Ring(h, n) \subseteq Unk(h)
         /\ \A A \in Parts(h) : A # {} /\ A \subseteq Unk(h) /\ \A n \in A : A = Ring(h, n)
<1>1. ASSUME NEW n \in Unk(h)
      PROVE  n \in Ring(h, n) /\ Ring(h, n) \in Parts(h) /\ Ring(h, n) \subseteq Unk(h)
  <2>1. n \in Node /\ h.type[n] \in unknown_types
    BY DEF Unk
  <2>2. n \in Ring(h, n) /\ \A k \in Ring(h, n) : k \in Node /\ h.type[k] = h.type[n]
    BY <2>1, RingMembers
  <2> QED BY <2>1, <2>2 DEF Parts, Unk
<1>2. ASSUME NEW A \in Parts(h)
      PROVE  A # {} /\ A \subseteq Unk(h) /\ \A n \in A : A = Ring(h, n)
  <2>1. PICK m \in Unk(h) : A = Ring(h, m)
    BY DEF Parts
  <2>2. m \in Node /\ h.type[m] \in unknown_types
    BY DEF Unk
  <2>3. \A n \in A : Ring(h, n) = Ring(h, m)
    BY <2>1, <2>2, RingSame
  <2> QED BY <1>1, <2>1, <2>3
<1> QED BY <1>1, <1>2

\* The ring of a member is its cycle, and any cycle of it is its ring.
LEMMA PartCycle ==
  ASSUME NEW h, Linked(h.type, h.value), NEW n \in Unk(h)
  PROVE  /\ Cycle(h.value, Ring(h, n), n)
         /\ \A R : Cycle(h.value, R, n) => R = Ring(h, n)
<1>1. n \in Node /\ h.type[n] \in unknown_types
  BY DEF Unk
<1>2. Cycle(h.value, Ring(h, n), n)
  BY <1>1, RingIs
<1> QED BY <1>2, CycleUnique

\* Cycles that cover the unknown quantities are the parts.
LEMMA PartsGiven ==
  ASSUME NEW h, Linked(h.type, h.value), NEW D, \A n \in Unk(h) : \E A \in D : n \in A,
         \A A \in D : \E n \in Unk(h) : Cycle(h.value, A, n)
  PROVE  Parts(h) = D
<1>1. \A A \in D : \E n \in Unk(h) : A = Ring(h, n)
  BY PartCycle
<1>2. \A A \in D : A \in Parts(h)
  BY <1>1 DEF Parts
<1>3. ASSUME NEW B \in Parts(h) PROVE B \in D
  <2>1. PICK n \in Unk(h) : B = Ring(h, n)
    BY DEF Parts
  <2>2. PICK A \in D : n \in A
    OBVIOUS
  <2>3. A = Ring(h, n)
    BY <1>2, <2>2, PartsAre
  <2> QED BY <2>1, <2>3
<1> QED BY <1>2, <1>3

\* Nothing changes for the unknown quantities.
LEMMA PartsKept ==
  ASSUME NEW h, Linked(h.type, h.value), NEW g, Linked(g.type, g.value), Unk(g) = Unk(h),
         \A n \in Unk(h) : Behind(g.value, n) = Behind(h.value, n)
  PROVE  Parts(g) = Parts(h)
<1>1. \A n \in Unk(g) : \E A \in Parts(h) : n \in A
  BY PartsAre
<1>2. ASSUME NEW A \in Parts(h) PROVE \E n \in Unk(g) : Cycle(g.value, A, n)
  <2>1. PICK n \in Unk(h) : A = Ring(h, n)
    BY DEF Parts
  <2>2. Cycle(h.value, A, n)
    BY <2>1, PartCycle
  <2>3. \A k \in A : Behind(g.value, k) = Behind(h.value, k)
    BY PartsAre
  <2> QED BY <2>2, <2>3, CycleAgree
<1> QED BY <1>1, <1>2, PartsGiven

\* q is in the ring of p now.
LEMMA EntryParts ==
  ASSUME NEW h, NEW x, HeapOK(h, x), NEW p \in Unk(h),
         NEW q \in Node, h.type[q] \notin KU, NEW g, g = new_ring_entry(h, p, q)
  PROVE  Parts(g) = (Parts(h) \ {Ring(h, p)}) \cup {Ring(h, p) \cup {q}}
<1> DEFINE v == h.value  w == g.value  R == Ring(h, p)  D == (Parts(h) \ {R}) \cup {R \cup {q}}
<1>1. p \in Node /\ h.type[p] \in unknown_types /\ q \notin Unk(h) /\ p # q
      /\ h.type[q] \notin known_types \cup unknown_types
  BY DEF Unk, KU
<1>2. /\ HeapOK(g, x) /\ Steady(h, g, {}) /\ g.pool = h.pool
      /\ \A n \in Node : g.type[n] = IF n = q THEN h.type[p] ELSE h.type[n]
  BY <1>1, Entered
<1>3. Shape(h) /\ Linked(h.type, h.value) /\ Linked(g.type, g.value)
  BY <1>2, SoundShape, HeapParts
<1>4. /\ Shape(g) /\ g.pool = h.pool
      /\ \A n \in Node : g.type[n] = IF n = q THEN h.type[p] ELSE h.type[n]
      /\ \A n \in Node : g.value[n] = IF n = p THEN q ELSE IF n = q THEN Behind(h.value, p)
                                      ELSE h.value[n]
  <2>1. Shape(h) /\ p \in Node /\ q \in Node /\ p # q /\ g = new_ring_entry(h, p, q)
    BY <1>1, <1>3
  <2> QED BY ONLY <2>1, EntryIs
<1>5. null \notin Node /\ Behind(v, p) \in Node
  BY <1>1, <1>3, RingsAssumption DEF Node, Linked
<1>6. Behind(w, p) = q /\ Behind(w, q) = Behind(v, p)
      /\ \A n \in Node : n # p /\ n # q => Behind(w, n) = Behind(v, n)
  BY <1>1, <1>4, <1>5 DEF Behind
<1>7. Unk(g) = Unk(h) \cup {q}
  BY <1>1, <1>2 DEF Unk
<1> HIDE DEF v, w
<1>8. R \in Parts(h) /\ p \in R /\ \A A \in Parts(h) : A \subseteq Unk(h) /\ A \subseteq Node
  BY <1>3, PartsAre DEF Unk
<1>9. \A A \in Parts(h) : p \in A => A = R
  BY <1>3, PartsAre
<1>10. \A n \in Unk(g) : \E A \in D : n \in A
  <2>1. \A n \in Unk(h) : \E A \in Parts(h) : n \in A
    BY <1>3, PartsAre
  <2> QED BY <1>7, <2>1
<1>11. ASSUME NEW A \in D PROVE \E n \in Unk(g) : Cycle(w, A, n)
  <2>1. CASE A = R \cup {q}
    <3>1. Cycle(v, R, p) /\ q \notin R
      BY <1>1, <1>3, <1>8, PartCycle DEF v
    <3>2. \A n \in R : n # p => Behind(w, n) = Behind(v, n)
      BY <1>6, <1>8, <3>1
    <3> HIDE DEF R
    <3>3. Cycle(w, R \cup {q}, p)
      BY ONLY <1>6, <3>1, <3>2, CycleEntered
    <3> QED BY <1>7, <2>1, <3>3
  <2>2. CASE A \in Parts(h) \ {R}
    <3>1. PICK n \in Unk(h) : A = Ring(h, n)
      BY <2>2 DEF Parts
    <3>2. Cycle(v, A, n)
      BY <1>3, <3>1, PartCycle DEF v
    <3>3. p \notin A /\ q \notin A
      BY <1>1, <1>8, <1>9, <2>2
    <3>4. \A k \in A : Behind(w, k) = Behind(v, k)
      BY <1>6, <1>8, <2>2, <3>3
    <3> QED BY <1>7, <3>2, <3>4, CycleAgree
  <2> QED BY <2>1, <2>2
<1> HIDE DEF D
<1>12. Parts(g) = D
  BY <1>3, <1>10, <1>11, PartsGiven DEF w
<1> QED BY <1>12 DEF D

\* p has left its ring.
LEMMA RecycledParts ==
  ASSUME NEW h, NEW x, HeapOK(h, x), NEW p \in Unk(h), NEW g, g = recycle_value(h, p)
  PROVE  Parts(g) = {A \ {p} : A \in Parts(h)} \ {{}} /\ Unk(g) = Unk(h) \ {p}
<1> DEFINE v == h.value  w == g.value  D == {A \ {p} : A \in Parts(h)} \ {{}}
<1>1. p \in Node /\ h.type[p] \in unknown_types
  BY DEF Unk
<1>2. /\ HeapOK(g, x) /\ Steady(h, g, {}) /\ g.pool = h.pool
      /\ \A n \in Node : g.type[n] = IF n = p THEN "undefined" ELSE h.type[n]
      /\ g.value[p] = null
      /\ \A n \in Node : n # p /\ h.type[n] \in unknown_types =>
            Behind(g.value, n) = IF Behind(h.value, n) = p THEN Behind(h.value, p)
                                 ELSE Behind(h.value, n)
  BY <1>1, UnknownRecycled
<1>3. Linked(h.type, h.value) /\ Linked(g.type, g.value)
  BY <1>2, HeapParts
<1>4. Unk(g) = Unk(h) \ {p}
  BY <1>2, KindsApart DEF Unk, KU
<1>5. \A n \in Unk(h) : n # p => Behind(w, n) = IF Behind(v, n) = p THEN Behind(v, p) ELSE Behind(v, n)
  BY <1>2 DEF Unk
<1>6. \A A \in Parts(h) : A \subseteq Unk(h)
  BY <1>3, PartsAre
<1>7. \A n \in Unk(g) : \E A \in D : n \in A
  <2> SUFFICES ASSUME NEW n \in Unk(g) PROVE \E A \in D : n \in A
    OBVIOUS
  <2>1. PICK A \in Parts(h) : n \in A
    BY <1>3, <1>4, PartsAre
  <2>2. n \in A \ {p}
    BY <1>4, <2>1
  <2> QED BY <2>1, <2>2
<1>8. ASSUME NEW X \in D PROVE \E n \in Unk(g) : Cycle(w, X, n)
  <2>1. PICK A \in Parts(h) : X = A \ {p}
    OBVIOUS
  <2>2. PICK n : n \in X
    OBVIOUS
  <2>3. n \in A /\ n # p /\ n \in Unk(h) /\ n \in Unk(g)
    BY <1>4, <1>6, <2>1, <2>2
  <2>4. A = Ring(h, n)
    BY <1>3, <2>3, PartsAre
  <2>5. Cycle(v, A, n)
    BY <1>3, <2>3, <2>4, PartCycle
  <2> HIDE DEF v, w, D
  <2>6. CASE p \in A
    <3>1. \A i, j \in A : Behind(v, i) = Behind(v, j) => i = j
      BY <1>3, <1>6 DEF Linked, Unk, v
    <3>2. \A i \in A : i # p => Behind(w, i) = IF Behind(v, i) = p THEN Behind(v, p) ELSE Behind(v, i)
      BY <1>5, <1>6
    <3>3. Cycle(w, A \ {p}, n)
      BY ONLY <2>3, <2>5, <2>6, <3>1, <3>2, CycleLeft
    <3> QED BY <2>1, <2>3, <3>3
  <2>7. CASE p \notin A
    <3>1. \A i \in A : Behind(v, i) \in A
      BY <2>5 DEF Cycle, Closed
    <3>2. \A i \in A : Behind(w, i) = Behind(v, i)
      BY <1>5, <1>6, <2>7, <3>1
    <3>3. X = A
      BY <2>1, <2>7
    <3> QED BY <2>3, <2>5, <3>2, <3>3, CycleAgree
  <2> QED BY <2>6, <2>7
<1> HIDE DEF D
<1>9. Parts(g) = D
  BY <1>3, <1>7, <1>8, PartsGiven
<1> QED BY <1>4, <1>9 DEF D

\* Two rings become one.
LEMMA MergedParts ==
  ASSUME NEW h, NEW x, HeapOK(h, x), NEW p \in Capsules, NEW q \in Capsules, p \in Unk(h),
         h.type[q] = h.type[p], q \notin Ring(h, p), NEW g, g = ring_merge(h, p, q)
  PROVE  /\ Parts(g) = (Parts(h) \ {Ring(h, p), Ring(h, q)}) \cup {Ring(h, p) \cup Ring(h, q)}
         /\ Unk(g) = Unk(h) /\ q \in Unk(h)
<1> DEFINE v == h.value  w == g.value  R == Ring(h, p)  Q == Ring(h, q)
           D == (Parts(h) \ {R, Q}) \cup {R \cup Q}
<1>1. h.type[p] \in unknown_types /\ q \in Node /\ p \in Node /\ q \in Unk(h)
  BY DEF Unk, Node
<1>2. /\ HeapOK(g, x) /\ Steady(h, g, {}) /\ g.type = h.type /\ g.pool = h.pool
      /\ \A n \in Node : Behind(g.value, n) = IF n = p THEN Behind(h.value, q)
                               ELSE IF n = q THEN Behind(h.value, p) ELSE Behind(h.value, n)
  BY <1>1, RingsMerged
<1>3. Linked(h.type, h.value) /\ Linked(g.type, g.value)
  BY <1>2, HeapParts
<1>4. Unk(g) = Unk(h)
  BY <1>2 DEF Unk
<1>5. /\ R \in Parts(h) /\ p \in R /\ Q \in Parts(h) /\ q \in Q
      /\ \A A \in Parts(h) : A \subseteq Unk(h) /\ A \subseteq Node
      /\ \A A \in Parts(h) : (p \in A => A = R) /\ (q \in A => A = Q)
  BY <1>1, <1>3, PartsAre DEF Unk
<1>6. p \notin Q /\ q \notin R /\ p # q
  BY <1>5
<1>7. Behind(w, p) = Behind(v, q) /\ Behind(w, q) = Behind(v, p)
      /\ \A n \in Node : n # p /\ n # q => Behind(w, n) = Behind(v, n)
  BY <1>1, <1>2, <1>6
<1>8. Cycle(v, R, p) /\ Cycle(v, Q, q)
  BY <1>1, <1>3, PartCycle
<1>9. \A n \in Unk(g) : \E A \in D : n \in A
  <2> SUFFICES ASSUME NEW n \in Unk(h) PROVE \E A \in D : n \in A
    BY <1>4
  <2>1. PICK A \in Parts(h) : n \in A
    BY <1>3, PartsAre
  <2>2. CASE A \in {R, Q}
    <3>1. n \in R \cup Q /\ R \cup Q \in D
      BY <2>1, <2>2
    <3> QED BY <3>1
  <2>3. CASE A \notin {R, Q}
    <3>1. A \in D
      BY <2>3
    <3> QED BY <2>1, <3>1
  <2> QED BY <2>2, <2>3
<1> HIDE DEF v, w
<1>10. ASSUME NEW A \in D PROVE \E n \in Unk(g) : Cycle(w, A, n)
  <2>1. CASE A = R \cup Q
    <3>1. \A n \in R \cup Q : n # p /\ n # q => Behind(w, n) = Behind(v, n)
      BY <1>5, <1>7
    <3> HIDE DEF R, Q
    <3>2. Cycle(w, R \cup Q, p)
      BY ONLY <1>6, <1>7, <1>8, <3>1, CyclesMerged
    <3> QED BY <1>4, <2>1, <3>2
  <2>2. CASE A \in Parts(h) \ {R, Q}
    <3>1. PICK n \in Unk(h) : A = Ring(h, n)
      BY <2>2 DEF Parts
    <3>2. Cycle(v, A, n)
      BY <1>3, <3>1, PartCycle DEF v
    <3>3. p \notin A /\ q \notin A
      BY <1>5, <2>2
    <3>4. \A k \in A : Behind(w, k) = Behind(v, k)
      BY <1>5, <1>7, <2>2, <3>3
    <3> QED BY <1>4, <3>2, <3>4, CycleAgree
  <2> QED BY <2>1, <2>2
<1> HIDE DEF D
<1>11. Parts(g) = D
  BY <1>3, <1>9, <1>10, PartsGiven DEF w
<1> QED BY <1>1, <1>4, <1>11 DEF D

\* A ring gets a value.
LEMMA SettledParts ==
  ASSUME NEW h, NEW x, HeapOK(h, x), NEW p \in Unk(h), NEW g, NEW y, HeapOK(g, y),
         \A n \in Node : n \notin Ring(h, p) => g.type[n] = h.type[n] /\ g.value[n] = h.value[n],
         \A n \in Ring(h, p) : g.type[n] \notin unknown_types
  PROVE  Parts(g) = Parts(h) \ {Ring(h, p)} /\ Unk(g) = Unk(h) \ Ring(h, p)
<1> DEFINE v == h.value  w == g.value  R == Ring(h, p)  D == Parts(h) \ {R}
<1>1. Linked(h.type, h.value) /\ Linked(g.type, g.value)
  BY HeapParts
<1>2. /\ R \in Parts(h) /\ p \in R
      /\ \A A \in Parts(h) : A \subseteq Unk(h) /\ A \subseteq Node
      /\ \A A \in Parts(h) : \A n \in A : n \in R => A = R
  <2>1. R \in Parts(h) /\ p \in R /\ \A A \in Parts(h) : A \subseteq Unk(h) /\ A \subseteq Node
    BY <1>1, PartsAre DEF Unk
  <2>2. \A A \in Parts(h) : \A n \in A : A = Ring(h, n)
    BY <1>1, PartsAre
  <2>3. \A n \in R : R = Ring(h, n)
    BY <2>1, <2>2
  <2> QED BY <2>1, <2>2, <2>3
<1>3. Unk(g) = Unk(h) \ R
  BY <1>2 DEF Unk
<1>4. \A n \in Unk(g) : \E A \in D : n \in A
  <2>1. \A n \in Unk(h) : \E A \in Parts(h) : n \in A
    BY <1>1, PartsAre
  <2> QED BY <1>3, <2>1
<1>5. ASSUME NEW A \in D PROVE \E n \in Unk(g) : Cycle(w, A, n)
  <2>1. PICK n \in Unk(h) : A = Ring(h, n)
    BY DEF Parts
  <2>2. Cycle(v, A, n) /\ n \in A
    BY <1>1, <2>1, PartCycle, PartsAre
  <2>3. \A k \in A : k \notin R /\ k \in Node
    BY <1>2
  <2>4. \A k \in A : Behind(w, k) = Behind(v, k)
    BY <2>3 DEF Behind
  <2> QED BY <1>3, <2>2, <2>3, <2>4, CycleAgree
<1> HIDE DEF D
<1>6. Parts(g) = D
  BY <1>1, <1>4, <1>5, PartsGiven
<1> QED BY <1>3, <1>6 DEF D

\* A variable that was undefined is alone.
LEMMA DeclaredParts ==
  ASSUME NEW h, NEW x, HeapOK(h, x), NEW p \in Variables, h.type[p] = "undefined", h.value[p] = null,
         NEW a \in unknown_types, NEW g, IsDeclared(g, h, p, a)
  PROVE  Parts(g) = Parts(h) \cup {{p}} /\ Unk(g) = Unk(h) \cup {p}
<1> DEFINE v == h.value  w == g.value  D == Parts(h) \cup {{p}}
<1>1. /\ HeapOK(g, x) /\ Steady(h, g, {}) /\ g.pool = h.pool /\ g.value = h.value
      /\ \A n \in Node : g.type[n] = IF n = p THEN a ELSE h.type[n]
  BY Declared
<1>2. Linked(h.type, h.value) /\ Linked(g.type, g.value)
  BY <1>1, HeapParts
<1>3. p \in Node /\ p \notin Unk(h)
  BY KindsApart DEF Node, Unk, KU
<1>4. Unk(g) = Unk(h) \cup {p}
  BY <1>1, <1>3 DEF Unk
<1>5. \A n \in Unk(g) : \E A \in D : n \in A
  <2>1. \A n \in Unk(h) : \E A \in Parts(h) : n \in A
    BY <1>2, PartsAre
  <2> QED BY <1>4, <2>1
<1>6. ASSUME NEW A \in D PROVE \E n \in Unk(g) : Cycle(w, A, n)
  <2>1. CASE A \in Parts(h)
    <3>1. PICK n \in Unk(h) : A = Ring(h, n)
      BY <2>1 DEF Parts
    <3> QED BY <1>1, <1>2, <1>4, <3>1, PartCycle
  <2>2. CASE A = {p}
    <3>1. Behind(w, p) = p
      BY <1>1 DEF Behind
    <3>2. Cycle(w, {p}, p)
      BY <3>1 DEF Cycle, Closed
    <3> QED BY <1>4, <2>2, <3>2
  <2> QED BY <2>1, <2>2
<1> HIDE DEF D
<1>7. Parts(g) = D
  BY <1>2, <1>5, <1>6, PartsGiven
<1> QED BY <1>4, <1>7 DEF D

-----------------------------------------------------------------------------
(* What is known.                                                          *)

Kno(h) == {n \in Node : h.type[n] \in known_types}
Reads(h, a, b) == IF a = "boolean" THEN b ELSE IF b \in DOMAIN h.pool THEN h.pool[b].chars ELSE null
SaysIn(h, n)   == Reads(h, h.type[n], h.value[n])
Knows(h) == [class |-> Parts(h), val |-> [n \in Kno(h) |-> SaysIn(h, n)]]
Know  == [class |-> {Ring(heap, n) : n \in UnknownNodes}, val |-> [n \in KnownNodes |-> Says(n)]]

\* It is what the heap says.
LEMMA KnowIs == Know = Knows(heap)
<1>1. heap.type = type /\ heap.value = value /\ heap.pool = pool
  BY DEF heap
<1>2. UnknownNodes = Unk(heap) /\ KnownNodes = Kno(heap)
  BY <1>1 DEF UnknownNodes, Unk, KnownNodes, Kno, known_types
<1>3. {Ring(heap, n) : n \in UnknownNodes} = Parts(heap)
  BY <1>2 DEF Parts
<1>4. \A n : SaysIn(heap, n) = Says(n)
  BY <1>1 DEF SaysIn, Says, Reads
<1>5. [n \in KnownNodes |-> Says(n)] = [n \in Kno(heap) |-> SaysIn(heap, n)]
  BY <1>2, <1>4
<1> QED BY <1>3, <1>5 DEF Know, Knows

\* What a value reads.
LEMMA ReadsValue ==
  ASSUME NEW h, NEW x, HeapOK(h, x), NEW a \in known_types, NEW b, Fits(h, a, b)
  PROVE  Reads(h, a, b) \in Values
<1>1. h.pool \in Seq([chars : Values, ref : Nat])
  BY HeapParts DEF Counts
<1>2. \A u \in DOMAIN h.pool : h.pool[u].chars \in Values
  BY <1>1, PoolIs
<1> QED BY <1>2, KindsApart DEF Fits, Reads

\* A known quantity has a value.
LEMMA SaysValue ==
  ASSUME NEW h, NEW x, HeapOK(h, x), NEW n \in Kno(h)
  PROVE  SaysIn(h, n) \in Values /\ Fits(h, h.type[n], h.value[n])
<1>1. n \in Node /\ h.type[n] \in known_types
  BY DEF Kno
<1>2. Typed(h.type, h.value)
  BY HeapParts
<1>3. Fits(h, h.type[n], h.value[n])
  BY <1>1, <1>2, InPool DEF Typed, Fits
<1> QED BY <1>1, <1>3, ReadsValue DEF SaysIn

\* What stays in the pool reads the same.
LEMMA ReadsSame ==
  ASSUME NEW h, NEW g, SameSaid(h.pool, g.pool), NEW a \in known_types, NEW b,
         Fits(h, a, b), Fits(g, a, b)
  PROVE  Reads(g, a, b) = Reads(h, a, b)
<1>1. CASE a = "boolean"
  BY <1>1 DEF Reads
<1>2. CASE a = "string"
  <2>1. b \in DOMAIN h.pool /\ b \in DOMAIN g.pool
    BY <1>2 DEF Fits
  <2>2. g.pool[b].chars = h.pool[b].chars
    BY <2>1 DEF SameSaid
  <2> QED BY <1>2, <2>1, <2>2 DEF Reads
<1> QED BY <1>1, <1>2, KindsApart

\* Who has the same type and value says the same.
LEMMA SaysSame ==
  ASSUME NEW h, NEW x, HeapOK(h, x), NEW g, NEW y, HeapOK(g, y), SameSaid(h.pool, g.pool),
         NEW n \in Node, n \in Kno(h), g.type[n] = h.type[n], g.value[n] = h.value[n]
  PROVE  n \in Kno(g) /\ SaysIn(g, n) = SaysIn(h, n)
<1>1. h.type[n] \in known_types /\ n \in Kno(g)
  BY DEF Kno
<1>2. Fits(h, h.type[n], h.value[n]) /\ Fits(g, h.type[n], h.value[n])
  BY <1>1, SaysValue
<1>3. Reads(g, h.type[n], h.value[n]) = Reads(h, h.type[n], h.value[n])
  BY <1>1, <1>2, ReadsSame
<1> QED BY <1>1, <1>3 DEF SaysIn

\* The same quantities say the same.
LEMMA KnowsSame ==
  ASSUME NEW h, NEW x, HeapOK(h, x), NEW g, NEW y, HeapOK(g, y), SameSaid(h.pool, g.pool),
         Kno(g) = Kno(h), Parts(g) = Parts(h),
         \A n \in Kno(h) : g.type[n] = h.type[n] /\ g.value[n] = h.value[n]
  PROVE  Knows(g) = Knows(h)
<1>1. \A n \in Kno(h) : SaysIn(g, n) = SaysIn(h, n)
  <2>1. \A n \in Kno(h) : n \in Node
    BY DEF Kno
  <2> QED BY <2>1, SaysSame
<1>2. [n \in Kno(g) |-> SaysIn(g, n)] = [n \in Kno(h) |-> SaysIn(h, n)]
  BY <1>1
<1> QED BY <1>2 DEF Knows

\* The pool alone has changed.
LEMMA KnowsPool ==
  ASSUME NEW h, NEW x, HeapOK(h, x), NEW g, NEW y, HeapOK(g, y), SameSaid(h.pool, g.pool),
         g.type = h.type, g.value = h.value
  PROVE  Knows(g) = Knows(h)
<1>1. Kno(g) = Kno(h) /\ Unk(g) = Unk(h)
  BY DEF Kno, Unk
<1>2. Linked(h.type, h.value) /\ Linked(g.type, g.value)
  BY HeapParts
<1>3. Parts(g) = Parts(h)
  BY <1>1, <1>2, PartsKept
<1> QED BY <1>1, <1>3, KnowsSame

\* What Without, ClassOf and the others make of what is known.
IsK(k, C, f)   == k = [class |-> C, val |-> f]
Reduced(C, p)  == {A \ {p} : A \in C} \ {{}}
Fewer(f, p)    == [m \in DOMAIN f \ {p} |-> f[m]]
Given(f, A, v) == [m \in DOMAIN f \cup A |-> IF m \in A THEN v ELSE f[m]]
Vals(h)        == [n \in Kno(h) |-> SaysIn(h, n)]
Whole(C, A, n) == A \in C /\ n \in A /\ \A B \in C : n \in B => B = A

\* The parts and the values are what is known.
LEMMA KnowsK == ASSUME NEW h PROVE IsK(Knows(h), Parts(h), Vals(h))
BY DEF IsK, Knows, Vals

\* What has the same parts and values is the same.
LEMMA SameK ==
  ASSUME NEW k, NEW l, NEW C, NEW f, IsK(k, C, f), IsK(l, C, f)
  PROVE  k = l
BY DEF IsK

\* What is the same has the same parts and values.
LEMMA KPartsSame ==
  ASSUME NEW k, NEW C, NEW f, IsK(k, C, f), NEW D, NEW e, IsK(k, D, e)
  PROVE  C = D /\ f = e
<1>1. k.class = C /\ k.class = D /\ k.val = f /\ k.val = e
  BY DEF IsK
<1> QED BY <1>1

\* One quantity less.
LEMMA WithoutIs ==
  ASSUME NEW k, NEW C, NEW f, IsK(k, C, f), NEW p
  PROVE  IsK(Classes!Without(k, p), Reduced(C, p), Fewer(f, p))
BY DEF Classes!Without, IsK, Reduced, Fewer

\* One quantity that has no value, alone.
LEMMA RenewIs ==
  ASSUME NEW k, NEW C, NEW f, IsK(k, C, f), NEW p
  PROVE  IsK(Classes!Renew(k, p), Reduced(C, p) \cup {{p}}, Fewer(f, p))
<1> DEFINE r == Classes!Without(k, p)  e == Fewer(f, p)  D == Reduced(C, p)
<1>1. IsK(r, D, e)
  BY WithoutIs
<1>2. Classes!Renew(k, p) = [r EXCEPT !.class = @ \cup {{p}}]
  BY DEF Classes!Renew
<1> HIDE DEF r, e, D
<1>3. IsK(Classes!Renew(k, p), D \cup {{p}}, e)
  BY <1>1, <1>2 DEF IsK
<1> QED BY <1>3 DEF e, D

\* One quantity gets a value.
LEMMA SetIs ==
  ASSUME NEW k, NEW C, NEW f, IsK(k, C, f), NEW p, NEW v
  PROVE  IsK(Classes!Set(k, p, v), Reduced(C, p), Given(Fewer(f, p), {p}, v))
<1> DEFINE r == Classes!Without(k, p)  e == Fewer(f, p)  D == Reduced(C, p)
<1>1. IsK(r, D, e)
  BY WithoutIs
<1>2. Classes!Set(k, p, v) = [r EXCEPT !.val = [m \in DOMAIN @ \cup {p} |-> IF m = p THEN v ELSE @[m]]]
  BY DEF Classes!Set
<1> HIDE DEF r, e, D
<1>3. Classes!Set(k, p, v) = [class |-> D, val |-> [m \in DOMAIN e \cup {p} |-> IF m = p THEN v ELSE e[m]]]
  BY <1>1, <1>2 DEF IsK
<1>4. [m \in DOMAIN e \cup {p} |-> IF m = p THEN v ELSE e[m]] = Given(e, {p}, v)
  BY DEF Given
<1>5. IsK(Classes!Set(k, p, v), D, Given(e, {p}, v))
  BY <1>3, <1>4 DEF IsK
<1> QED BY <1>5 DEF D, e

\* The class of n is the one that it is in.
LEMMA ClassIs ==
  ASSUME NEW k, NEW C, NEW f, IsK(k, C, f), NEW A, NEW n, Whole(C, A, n)
  PROVE  Classes!ClassOf(k, n) = A
<1>1. k.class = C
  BY DEF IsK
<1> QED BY <1>1 DEF Whole, Classes!ClassOf

\* n comes to m.
LEMMA JoinIs ==
  ASSUME NEW k, NEW C, NEW f, IsK(k, C, f), NEW n, NEW m, NEW A, Whole(Reduced(C, n), A, m)
  PROVE  IsK(Classes!Join(k, n, m), (Reduced(C, n) \ {A}) \cup {A \cup {n}}, Fewer(f, n))
<1> DEFINE r == Classes!Without(k, n)  e == Fewer(f, n)  D == Reduced(C, n)
<1>1. IsK(r, D, e)
  BY WithoutIs
<1>2. Classes!ClassOf(r, m) = A
  <2> HIDE DEF r, e
  <2> QED BY <1>1, ClassIs DEF D
<1>3. Classes!Join(k, n, m) = [r EXCEPT !.class = (@ \ {A}) \cup {A \cup {n}}]
  BY <1>2 DEF Classes!Join
<1> HIDE DEF r, e, D
<1>4. IsK(Classes!Join(k, n, m), (D \ {A}) \cup {A \cup {n}}, e)
  BY <1>1, <1>3 DEF IsK
<1> QED BY <1>4 DEF D, e

\* Two classes become one.
LEMMA UniteIs ==
  ASSUME NEW k, NEW C, NEW f, IsK(k, C, f), NEW n, NEW m, NEW A, Whole(C, A, n), NEW B, Whole(C, B, m)
  PROVE  IsK(Classes!Unite(k, n, m), Reduced((C \ {A, B}) \cup {A \cup B}, n), Fewer(f, n))
<1> DEFINE l == [k EXCEPT !.class = (@ \ {A, B}) \cup {A \cup B}]  D == (C \ {A, B}) \cup {A \cup B}
<1>1. Classes!ClassOf(k, n) = A /\ Classes!ClassOf(k, m) = B
  BY ClassIs
<1>2. Classes!Unite(k, n, m) = Classes!Without(l, n)
  BY <1>1 DEF Classes!Unite
<1>3. IsK(l, D, f)
  BY DEF IsK
<1> HIDE DEF l, D
<1>4. IsK(Classes!Without(l, n), Reduced(D, n), Fewer(f, n))
  BY <1>3, WithoutIs
<1> QED BY <1>2, <1>4 DEF D

\* A class gets a value.
LEMMA SettleIs ==
  ASSUME NEW k, NEW C, NEW f, IsK(k, C, f), NEW n, NEW v, NEW A, Whole(C, A, n)
  PROVE  IsK(Classes!Settle(k, n, v), Reduced(C \ {A}, n), Fewer(Given(f, A, v), n))
<1> DEFINE l == [class |-> C \ {A}, val |-> Given(f, A, v)]  e == Given(f, A, v)  D == C \ {A}
<1>1. Classes!ClassOf(k, n) = A /\ k.class = C /\ k.val = f
  BY ClassIs DEF IsK
<1>2. Classes!Settle(k, n, v) = Classes!Without(l, n)
  BY <1>1 DEF Classes!Settle, Given
<1>3. IsK(l, D, e)
  BY DEF IsK
<1> HIDE DEF l, D, e
<1>4. IsK(Classes!Without(l, n), Reduced(D, n), Fewer(e, n))
  BY <1>3, WithoutIs
<1> QED BY <1>2, <1>4 DEF D, e

\* Nobody goes twice.
LEMMA LessTwice ==
  ASSUME NEW C, NEW p
  PROVE  Reduced(Reduced(C, p), p) = Reduced(C, p)
<1> DEFINE E == Reduced(C, p)
<1>1. \A A \in E : p \notin A /\ A \ {p} = A /\ A # {}
  BY DEF Reduced
<1> HIDE DEF E
<1>2. ASSUME NEW X \in Reduced(E, p) PROVE X \in E
  <2>1. PICK A \in E : X = A \ {p}
    BY DEF Reduced
  <2> QED BY <1>1, <2>1
<1>3. E \subseteq Reduced(E, p)
  BY <1>1 DEF Reduced
<1> QED BY <1>2, <1>3 DEF E

\* The same, for a quantity that is in no class.
LEMMA LessNone ==
  ASSUME NEW C, NEW p, \A A \in C : p \notin A /\ A # {}
  PROVE  Reduced(C, p) = C
<1>1. \A A \in C : A \ {p} = A
  OBVIOUS
<1>2. Reduced(C, p) \subseteq C
  BY <1>1 DEF Reduced
<1>3. C \subseteq Reduced(C, p)
  BY <1>1 DEF Reduced
<1> QED BY <1>2, <1>3

\* What is in no ring is not missed.
LEMMA PartsLess ==
  ASSUME NEW h, Linked(h.type, h.value), NEW p, p \notin Unk(h)
  PROVE  Reduced(Parts(h), p) = Parts(h)
<1>1. \A A \in Parts(h) : p \notin A /\ A # {}
  BY PartsAre
<1> QED BY <1>1, LessNone

\* Who had no value is not missed among the values.
LEMMA FewerNone ==
  ASSUME NEW h, NEW p, p \notin Kno(h)
  PROVE  Fewer(Vals(h), p) = Vals(h)
<1>1. DOMAIN Vals(h) = Kno(h) /\ Kno(h) \ {p} = Kno(h)
  BY DEF Vals
<1>2. Fewer(Vals(h), p) = [m \in Kno(h) |-> Vals(h)[m]]
  BY <1>1 DEF Fewer
<1>3. \A m \in Kno(h) : Vals(h)[m] = SaysIn(h, m)
  BY DEF Vals
<1> QED BY <1>2, <1>3 DEF Vals

\* The values of the others.
LEMMA FewerVals ==
  ASSUME NEW h, NEW p, NEW g, Kno(g) = Kno(h) \ {p}, \A n \in Kno(g) : SaysIn(g, n) = SaysIn(h, n)
  PROVE  Vals(g) = Fewer(Vals(h), p)
<1>1. DOMAIN Vals(h) = Kno(h)
  BY DEF Vals
<1>2. Fewer(Vals(h), p) = [m \in Kno(g) |-> Vals(h)[m]]
  BY <1>1 DEF Fewer
<1>3. \A m \in Kno(g) : Vals(h)[m] = SaysIn(g, m)
  BY DEF Vals
<1> QED BY <1>2, <1>3 DEF Vals

\* Nobody goes twice.
LEMMA WithoutTwice ==
  ASSUME NEW h, NEW p
  PROVE  Classes!Without(Classes!Without(Knows(h), p), p) = Classes!Without(Knows(h), p)
<1> DEFINE C == Parts(h)  f == Vals(h)  k == Knows(h)  l == Classes!Without(k, p)
           e == Fewer(f, p)  D == Reduced(C, p)
<1>1. IsK(k, C, f)
  BY KnowsK
<1>2. IsK(l, D, e)
  <2> HIDE DEF k, C, f
  <2> QED BY <1>1, WithoutIs
<1>3. Fewer(e, p) = e
  BY DEF Fewer
<1>4. Reduced(D, p) = D
  BY LessTwice
<1> HIDE DEF k, l, C, D, f, e
<1>5. IsK(Classes!Without(l, p), Reduced(D, p), Fewer(e, p))
  BY <1>2, WithoutIs
<1>6. Classes!Without(l, p) = l
  BY <1>2, <1>3, <1>4, <1>5, SameK
<1> QED BY <1>6 DEF l, k

\* Somebody is not known any more.
LEMMA KnowsLost ==
  ASSUME NEW h, NEW x, HeapOK(h, x), NEW g, NEW y, HeapOK(g, y), NEW p, Steady(h, g, {p}),
         Kno(g) = Kno(h) \ {p}, Parts(g) = Reduced(Parts(h), p)
  PROVE  Knows(g) = Classes!Without(Knows(h), p)
<1>1. \A n \in Kno(g) : SaysIn(g, n) = SaysIn(h, n)
  <2> SUFFICES ASSUME NEW n \in Kno(g) PROVE SaysIn(g, n) = SaysIn(h, n)
    OBVIOUS
  <2>1. n \in Node /\ n \in Kno(h) /\ n # p /\ h.type[n] \in known_types
    BY DEF Kno
  <2>2. g.type[n] = h.type[n] /\ g.value[n] = h.value[n] /\ SameSaid(h.pool, g.pool)
    BY <2>1 DEF Steady
  <2> QED BY <2>1, <2>2, SaysSame
<1>2. Vals(g) = Fewer(Vals(h), p)
  BY <1>1, FewerVals
<1>3. IsK(Knows(g), Parts(g), Vals(g)) /\ IsK(Knows(h), Parts(h), Vals(h))
  BY KnowsK
<1>4. IsK(Classes!Without(Knows(h), p), Reduced(Parts(h), p), Fewer(Vals(h), p))
  BY <1>3, WithoutIs
<1> QED BY <1>2, <1>3, <1>4, SameK

\* What recycle_value does.
LEMMA KnowsRecycled ==
  ASSUME NEW h, NEW x, HeapOK(h, x), NEW p \in Node, NEW g, g = recycle_value(h, p)
  PROVE  Knows(g) = Classes!Without(Knows(h), p) /\ Unk(g) = Unk(h) \ {p} /\ Kno(g) = Kno(h) \ {p}
<1>1. /\ HeapOK(g, x) /\ Steady(h, g, {p})
      /\ \A n \in Node : g.type[n] = IF n = p THEN "undefined" ELSE h.type[n]
      /\ g.value[p] = null
  BY ValueRecycled
<1>2. Kno(g) = Kno(h) \ {p} /\ Unk(g) = Unk(h) \ {p}
  BY <1>1, KindsApart DEF Kno, Unk, KU
<1>3. Parts(g) = Reduced(Parts(h), p)
  <2>1. CASE p \in Unk(h)
    BY <2>1, RecycledParts DEF Reduced
  <2>2. CASE p \notin Unk(h)
    <3>1. h.type[p] \notin unknown_types
      BY <2>2 DEF Unk
    <3>2. \A n \in Node : g.value[n] = IF n = p THEN null ELSE h.value[n]
      <4>1. HeapOK(h, x) /\ p \in Node /\ h.type[p] \notin unknown_types /\ g = recycle_value(h, p)
        BY <3>1
      <4>2. /\ HeapOK(g, x) /\ Steady(h, g, {p})
            /\ \A n \in Node : g.type[n] = IF n = p THEN "undefined" ELSE h.type[n]
            /\ \A n \in Node : g.value[n] = IF n = p THEN null ELSE h.value[n]
        BY ONLY <4>1, KnownRecycled
      <4> QED BY <4>2
    <3>3. Unk(g) = Unk(h) /\ \A n \in Unk(h) : n \in Node /\ n # p
      BY <1>2, <2>2 DEF Unk
    <3>4. Linked(h.type, h.value) /\ Linked(g.type, g.value)
      BY <1>1, HeapParts
    <3>5. \A n \in Unk(h) : Behind(g.value, n) = Behind(h.value, n)
      BY <3>2, <3>3 DEF Behind
    <3>6. Parts(g) = Parts(h)
      BY <3>3, <3>4, <3>5, PartsKept
    <3> QED BY <2>2, <3>4, <3>6, PartsLess
  <2> QED BY <2>1, <2>2
<1> QED BY <1>1, <1>2, <1>3, KnowsLost

\* What it is to free a node that is not unknown.
LEMMA KnowsFreed ==
  ASSUME NEW h, NEW x, HeapOK(h, x), NEW p \in Node, h.type[p] \notin unknown_types,
         NEW g, g = Freed(h, p)
  PROVE  Knows(g) = Classes!Without(Knows(h), p) /\ Unk(g) = Unk(h) /\ Kno(g) = Kno(h) \ {p}
<1>1. /\ HeapOK(g, Plus(x, h.type[p], h.value[p])) /\ Steady(h, g, {p}) /\ g.pool = h.pool
      /\ \A n \in Node : g.type[n] = IF n = p THEN "free" ELSE h.type[n]
      /\ \A n \in Node : g.value[n] = IF n = p THEN null ELSE h.value[n]
  BY NodeFreed
<1>2. Kno(g) = Kno(h) \ {p} /\ Unk(g) = Unk(h) /\ p \notin Unk(h)
      /\ \A n \in Unk(h) : n \in Node /\ n # p
  BY <1>1, KindsApart DEF Kno, Unk, KU
<1>3. Linked(h.type, h.value) /\ Linked(g.type, g.value)
  BY <1>1, HeapParts
<1>4. \A n \in Unk(h) : Behind(g.value, n) = Behind(h.value, n)
  BY <1>1, <1>2 DEF Behind
<1>5. Parts(g) = Parts(h)
  BY <1>2, <1>3, <1>4, PartsKept
<1>6. Parts(g) = Reduced(Parts(h), p)
  BY <1>2, <1>3, <1>5, PartsLess
<1> QED BY <1>1, <1>2, <1>6, KnowsLost

\* A capsule goes.
LEMMA KnowsGone ==
  ASSUME NEW h, NEW x, HeapOK(h, x), NEW p \in Node, NEW g, g = Recycled(h, p)
  PROVE  Knows(g) = Classes!Without(Knows(h), p)
<1> DEFINE f == recycle_value(h, p)
<1>1. g = Freed(f, p) /\ f = recycle_value(h, p)
  BY DEF Recycled
<1> HIDE DEF f
<1>2. /\ HeapOK(f, x) /\ Steady(h, f, {p})
      /\ \A n \in Node : f.type[n] = IF n = p THEN "undefined" ELSE h.type[n]
      /\ f.value[p] = null
  BY <1>1, ValueRecycled
<1>3. Knows(f) = Classes!Without(Knows(h), p) /\ Unk(f) = Unk(h) \ {p} /\ Kno(f) = Kno(h) \ {p}
  BY <1>1, KnowsRecycled
<1>4. f.type[p] \notin unknown_types
  BY <1>2, KindsApart DEF KU
<1>5. Knows(g) = Classes!Without(Knows(f), p) /\ Unk(g) = Unk(f) /\ Kno(g) = Kno(f) \ {p}
  BY <1>1, <1>2, <1>4, KnowsFreed
<1> QED BY <1>3, <1>5, WithoutTwice

\* The unknown quantities are those in the parts.
LEMMA UnknownIs ==
  ASSUME NEW h, Linked(h.type, h.value)
  PROVE  Classes!Unknown(Knows(h)) = Unk(h)
<1>1. Classes!Unknown(Knows(h)) = UNION Parts(h)
  BY DEF Classes!Unknown, Knows
<1>2. \A n \in Unk(h) : \E A \in Parts(h) : n \in A
  BY PartsAre
<1>3. \A A \in Parts(h) : A \subseteq Unk(h)
  BY PartsAre
<1> QED BY <1>1, <1>2, <1>3

\* The ring of an unknown quantity is its class.
LEMMA WholeRing ==
  ASSUME NEW h, Linked(h.type, h.value), NEW n \in Unk(h)
  PROVE  Whole(Parts(h), Ring(h, n), n)
<1>1. Ring(h, n) \in Parts(h) /\ n \in Ring(h, n)
  BY PartsAre
<1>2. \A B \in Parts(h) : n \in B => B = Ring(h, n)
  BY PartsAre
<1> QED BY <1>1, <1>2 DEF Whole

\* The new entry joins the class of p.
LEMMA KnowsEntered ==
  ASSUME NEW h, NEW x, HeapOK(h, x), NEW p \in Unk(h),
         NEW q \in Node, h.type[q] \notin KU, NEW g, g = new_ring_entry(h, p, q)
  PROVE  /\ IsK(Knows(g), (Parts(h) \ {Ring(h, p)}) \cup {Ring(h, p) \cup {q}}, Vals(h))
         /\ Knows(g) = Classes!Join(Knows(h), q, p)
<1>1. p \in Node /\ h.type[p] \in unknown_types /\ h.type[q] \notin known_types \cup unknown_types
      /\ q \notin Unk(h) /\ q \notin Kno(h)
  BY DEF Unk, KU, Kno
<1>2. /\ HeapOK(g, x) /\ Steady(h, g, {}) /\ g.pool = h.pool
      /\ \A n \in Node : g.type[n] = IF n = q THEN h.type[p] ELSE h.type[n]
  BY <1>1, Entered
<1>3. Parts(g) = (Parts(h) \ {Ring(h, p)}) \cup {Ring(h, p) \cup {q}}
  BY EntryParts
<1>4. Kno(g) = Kno(h)
  BY <1>1, <1>2, KindsApart DEF Kno
<1>5. \A n \in Kno(g) : SaysIn(g, n) = SaysIn(h, n)
  <2> SUFFICES ASSUME NEW n \in Kno(g) PROVE SaysIn(g, n) = SaysIn(h, n)
    OBVIOUS
  <2>1. n \in Node /\ n \in Kno(h) /\ h.type[n] \in known_types
    BY <1>4 DEF Kno
  <2>2. g.type[n] = h.type[n] /\ g.value[n] = h.value[n] /\ SameSaid(h.pool, g.pool)
    BY <1>2, <2>1 DEF Steady
  <2> QED BY <1>2, <2>1, <2>2, SaysSame
<1>6. Vals(g) = Vals(h)
  BY <1>4, <1>5 DEF Vals
<1>7. IsK(Knows(g), (Parts(h) \ {Ring(h, p)}) \cup {Ring(h, p) \cup {q}}, Vals(h))
  <2>1. IsK(Knows(g), Parts(g), Vals(g))
    BY KnowsK
  <2> QED BY <1>3, <1>6, <2>1
<1>8. Linked(h.type, h.value)
  BY HeapParts
<1> DEFINE C == Parts(h)  f == Vals(h)  A == Ring(h, p)  k == Knows(h)
<1>9. Reduced(C, q) = C /\ Fewer(f, q) = f /\ Whole(C, A, p) /\ IsK(k, C, f)
  BY <1>1, <1>8, PartsLess, FewerNone, WholeRing, KnowsK
<1> HIDE DEF C, f, A, k
<1>10. IsK(Classes!Join(k, q, p), (Reduced(C, q) \ {A}) \cup {A \cup {q}}, Fewer(f, q))
  BY <1>9, JoinIs
<1>11. IsK(Classes!Join(k, q, p), (C \ {A}) \cup {A \cup {q}}, f)
  BY <1>9, <1>10
<1>12. Knows(g) = Classes!Join(k, q, p)
  BY <1>7, <1>11, SameK DEF C, f, A
<1> QED BY <1>7, <1>12 DEF k

\* The class of p gets a value, and p goes.
LEMMA KnowsSettled ==
  ASSUME NEW h, NEW x, HeapOK(h, x), NEW p \in Unk(h), NEW fl,
         NEW b, NEW t, t = known_type[h.type[p]], Fits(h, t, b),
         NEW g, g = nonlinear_eq(h, b, p, fl)
  PROVE  Classes!Without(Knows(g), p) = Classes!Settle(Knows(h), p, Reads(h, t, b))
<1> DEFINE A == Ring(h, p)  C == Parts(h)  f == Vals(h)  u == Reads(h, t, b)
           k == Knows(h)  l == Knows(g)
<1>1. p \in Node /\ h.type[p] \in unknown_types
  BY DEF Unk
<1>2. /\ HeapOK(g, x) /\ Steady(h, g, {}) /\ DOMAIN g.pool = DOMAIN h.pool
      /\ t \in known_types
      /\ \A n \in Node : n \notin Ring(h, p) => g.type[n] = h.type[n] /\ g.value[n] = h.value[n]
      /\ \A n \in Node : n \in Ring(h, p) /\ n # p => g.type[n] = t /\ g.value[n] = b
      /\ IF fl /\ h.value[p] # p THEN g.type[p] = "vacuous"
         ELSE g.type[p] = t /\ g.value[p] = b
  BY <1>1, RingSettled
<1>3. Linked(h.type, h.value) /\ Linked(g.type, g.value) /\ SameSaid(h.pool, g.pool)
  BY <1>2, HeapParts DEF Steady
<1>4. \A n \in Ring(h, p) : g.type[n] \notin unknown_types
  <2>1. "vacuous" \notin unknown_types /\ t \notin unknown_types
    BY <1>2, KindsApart DEF KU
  <2>2. \A n \in Ring(h, p) : n \in Node
    BY <1>3, PartsAre DEF Unk
  <2> QED BY <1>2, <2>1, <2>2
<1>5. Parts(g) = C \ {A} /\ Unk(g) = Unk(h) \ A
  BY <1>2, <1>4, SettledParts
<1>6. Whole(C, A, p) /\ p \in A /\ A \subseteq Unk(h) /\ A \subseteq Node
  BY <1>3, WholeRing, PartsAre DEF Unk
<1>7. \A n \in A : n \notin Kno(h)
  BY <1>6, KindsApart DEF Kno, Unk, KU
<1>8. Kno(g) \ {p} = (Kno(h) \cup A) \ {p}
  BY <1>2, <1>6, <1>7 DEF Kno
<1>9. Reads(g, t, b) = u
  <2>1. Fits(g, t, b)
    BY <1>2 DEF Fits
  <2> QED BY <1>2, <1>3, <2>1, ReadsSame
<1>10. \A n \in Kno(g) \ {p} : SaysIn(g, n) = Given(f, A, u)[n]
  <2> SUFFICES ASSUME NEW n \in Kno(g), n # p PROVE SaysIn(g, n) = Given(f, A, u)[n]
    OBVIOUS
  <2>1. n \in Node /\ n \in Kno(h) \cup A
    BY <1>8 DEF Kno
  <2>2. DOMAIN f = Kno(h) /\ \A m \in Kno(h) : f[m] = SaysIn(h, m)
    BY DEF Vals
  <2>3. Given(f, A, u)[n] = IF n \in A THEN u ELSE SaysIn(h, n)
    BY <2>1, <2>2 DEF Given
  <2>4. CASE n \in A
    <3>1. g.type[n] = t /\ g.value[n] = b
      BY <1>2, <2>1, <2>4
    <3> QED BY <1>9, <2>3, <2>4, <3>1 DEF SaysIn
  <2>5. CASE n \notin A
    <3>1. n \in Kno(h) /\ g.type[n] = h.type[n] /\ g.value[n] = h.value[n]
      BY <1>2, <2>1, <2>5
    <3> QED BY <1>2, <1>3, <2>1, <2>3, <2>5, <3>1, SaysSame
  <2> QED BY <2>4, <2>5
<1>11. Fewer(Vals(g), p) = Fewer(Given(f, A, u), p)
  <2>1. DOMAIN Vals(g) = Kno(g) /\ \A m \in Kno(g) : Vals(g)[m] = SaysIn(g, m)
    BY DEF Vals
  <2>2. DOMAIN Given(f, A, u) = Kno(h) \cup A
    BY DEF Given, Vals
  <2>3. DOMAIN Vals(g) \ {p} = DOMAIN Given(f, A, u) \ {p}
    BY <1>8, <2>1, <2>2
  <2>4. \A m \in DOMAIN Vals(g) \ {p} : Vals(g)[m] = Given(f, A, u)[m]
    BY <1>10, <2>1
  <2> HIDE DEF A, f, u
  <2> QED BY <2>3, <2>4 DEF Fewer
<1>12. IsK(k, C, f) /\ IsK(l, C \ {A}, Vals(g))
  BY <1>5, KnowsK
<1> HIDE DEF A, C, f, u, k, l
<1>13. IsK(Classes!Without(l, p), Reduced(C \ {A}, p), Fewer(Vals(g), p))
  BY <1>12, WithoutIs
<1>14. IsK(Classes!Settle(k, p, u), Reduced(C \ {A}, p), Fewer(Given(f, A, u), p))
  BY <1>6, <1>12, SettleIs
<1>15. Classes!Without(l, p) = Classes!Settle(k, p, u)
  BY <1>11, <1>13, <1>14, SameK
<1> QED BY <1>15 DEF u, k, l

\* Two classes are united, or were one already, and p goes.
LEMMA KnowsMerged ==
  ASSUME NEW h, NEW x, HeapOK(h, x), NEW p \in Capsules, NEW q \in Capsules, p \in Unk(h),
         h.type[q] = h.type[p], NEW g, g = ring_merge(h, p, q)
  PROVE  Classes!Without(Knows(g), p) = Classes!Unite(Knows(h), p, q)
<1> DEFINE A == Ring(h, p)  B == Ring(h, q)  C == Parts(h)  f == Vals(h)  k == Knows(h)  l == Knows(g)
           D == (C \ {A, B}) \cup {A \cup B}
<1>1. p \in Node /\ q \in Node /\ h.type[p] \in unknown_types /\ q \in Unk(h)
  BY DEF Unk, Node
<1>2. Linked(h.type, h.value)
  BY HeapParts
<1>3. Whole(C, A, p) /\ Whole(C, B, q) /\ IsK(k, C, f)
  BY <1>1, <1>2, WholeRing, KnowsK
<1>4. Parts(g) = D /\ Vals(g) = f
  <2>1. CASE q \in A
    <3>1. g = h
      BY <2>1 DEF ring_merge
    <3>2. A = B /\ A \in C
      BY <1>3, <2>1 DEF Whole
    <3>3. D = C
      BY <3>2
    <3> QED BY <3>1, <3>3
  <2>2. CASE q \notin A
    <3>1. Parts(g) = D
      BY <2>2, MergedParts
    <3>2. /\ HeapOK(g, x) /\ Steady(h, g, {}) /\ g.type = h.type /\ g.pool = h.pool
          /\ \A n \in Node : Behind(g.value, n) = IF n = p THEN Behind(h.value, q)
                                   ELSE IF n = q THEN Behind(h.value, p) ELSE Behind(h.value, n)
      BY <1>1, <2>2, RingsMerged
    <3>3. Kno(g) = Kno(h)
      BY <3>2 DEF Kno
    <3>4. \A n \in Kno(g) : SaysIn(g, n) = SaysIn(h, n)
      <4> SUFFICES ASSUME NEW n \in Kno(g) PROVE SaysIn(g, n) = SaysIn(h, n)
        OBVIOUS
      <4>1. n \in Node /\ h.type[n] \in known_types
        BY <3>3 DEF Kno
      <4>2. g.value[n] = h.value[n]
        BY <3>2, <4>1 DEF Steady
      <4> QED BY <3>2, <4>2 DEF SaysIn, Reads
    <3>5. Vals(g) = f
      BY <3>3, <3>4 DEF Vals
    <3> QED BY <3>1, <3>5
  <2> QED BY <2>1, <2>2
<1>5. IsK(l, D, f)
  BY <1>4, KnowsK
<1> HIDE DEF A, B, C, f, k, l
<1>6. IsK(Classes!Unite(k, p, q), Reduced(D, p), Fewer(f, p))
  BY <1>3, UniteIs
<1> HIDE DEF D
<1>7. IsK(Classes!Without(l, p), Reduced(D, p), Fewer(f, p))
  BY <1>5, WithoutIs
<1>8. Classes!Without(l, p) = Classes!Unite(k, p, q)
  BY <1>6, <1>7, SameK
<1> QED BY <1>8 DEF k, l

\* The current expression has a value, if it is known.
LEMMA CurFits ==
  ASSUME NEW h, NEW x \in Tallies, NEW a \in known_types, NEW e, HeapOK(h, Plus(x, a, e)),
         CurRight(h.type, a, e)
  PROVE  Fits(h, a, e)
<1> DEFINE y == Plus(x, a, e)
<1>1. a = "boolean" => e \in Values
  BY DEF CurRight
<1>2. a = "string" => e \in DOMAIN h.pool
  <2> SUFFICES ASSUME a = "string" PROVE e \in DOMAIN h.pool
    OBVIOUS
  <2>1. e \in Nat
    BY DEF CurRight
  <2>2. y[e] = x[e] + 1 /\ x[e] \in Nat
    BY <2>1, PlusIs DEF Tallies
  <2>3. y[e] # 0
    BY <2>2
  <2> HIDE DEF y
  <2>4. HeapOK(h, y)
    BY DEF y
  <2> QED BY <2>1, <2>3, <2>4, InPool
<1> QED BY <1>1, <1>2 DEF Fits

\* What is known after an equation, by the types of the two sides.
LEMMA KnowsMade ==
  ASSUME NEW h, NEW x \in Tallies, NEW a \in KU, NEW e, HeapOK(h, Plus(x, a, e)),
         CurRight(h.type, a, e), NEW p \in Capsules, h.type[p] \in KU,
         a \in unknown_types => e # p, NEW r, r = make_eq(h, p, a, e)
  PROVE  /\ a \in unknown_types /\ h.type[p] = known_type[a] =>
               Knows(r.heap) = Classes!Without(Classes!Settle(Knows(h), e, SaysIn(h, p)), p)
         /\ h.type[p] \in unknown_types /\ a = known_type[h.type[p]] =>
               Knows(r.heap) = Classes!Settle(Knows(h), p, Reads(h, a, e))
         /\ a \in unknown_types /\ h.type[p] = a =>
               Knows(r.heap) = Classes!Unite(Knows(h), p, e)
         /\ ~(a \in unknown_types /\ h.type[p] = known_type[a])
            /\ ~(h.type[p] \in unknown_types /\ a = known_type[h.type[p]])
            /\ ~(a \in unknown_types /\ h.type[p] = a) =>
               Knows(r.heap) = Classes!Without(Knows(h), p)
<1> DEFINE tl == h.type[p]  y == Plus(x, a, e)
<1>1. p \in Node /\ tl \in KU
  BY DEF Node
<1>2. /\ a \in unknown_types <=> a \notin known_types
      /\ \A b \in unknown_types : known_type[b] \in known_types
      /\ "vacuous" \notin KU /\ "free" \notin KU
      /\ \A b \in known_types : b \notin unknown_types
  BY TypeNames DEF KU, known_types
<1>3. ASSUME a \in unknown_types, tl = known_type[a]
      PROVE  Knows(r.heap) = Classes!Without(Classes!Settle(Knows(h), e, SaysIn(h, p)), p)
  <2> DEFINE s == h.value[p]  fl == FALSE
             g == nonlinear_eq(h, s, e, fl)  f == Freed(g, e)  d == Recycled(f, p)
  <2>1. r.heap = d
    BY <1>3 DEF make_eq
  <2>2. e \in Node /\ h.type[e] = a /\ e # p /\ tl \in known_types /\ e \in Unk(h) /\ p \in Kno(h)
    BY <1>1, <1>2, <1>3 DEF CurRight, Node, Unk, Kno
  <2>3. HeapOK(h, x)
    <3>1. a # "string"
      BY <1>3, TypeNames
    <3> QED BY <3>1 DEF Plus
  <2>4. Fits(h, tl, s)
    BY <2>2, <2>3, SaysValue
  <2>5. tl = known_type[h.type[e]] /\ h.type[e] \in unknown_types
        /\ g = nonlinear_eq(h, s, e, fl) /\ f = Freed(g, e) /\ d = Recycled(f, p) /\ ~fl
    BY <1>3, <2>2
  <2>6. SaysIn(h, p) = Reads(h, tl, s)
    BY DEF SaysIn
  <2> HIDE DEF s, g, f, d, tl, fl
  <2>7. /\ HeapOK(g, x) /\ Steady(h, g, {}) /\ DOMAIN g.pool = DOMAIN h.pool
        /\ tl \in known_types
        /\ \A n \in Node : n \notin Ring(h, e) => g.type[n] = h.type[n] /\ g.value[n] = h.value[n]
        /\ \A n \in Node : n \in Ring(h, e) /\ n # e => g.type[n] = tl /\ g.value[n] = s
        /\ IF fl /\ h.value[e] # e THEN g.type[e] = "vacuous" ELSE g.type[e] = tl /\ g.value[e] = s
    BY <2>2, <2>3, <2>4, <2>5, RingSettled
  <2>8. Classes!Without(Knows(g), e) = Classes!Settle(Knows(h), e, Reads(h, tl, s))
    BY <2>2, <2>3, <2>4, <2>5, KnowsSettled
  <2>9. g.type[e] \notin unknown_types
    BY <1>2, <2>2, <2>5, <2>7
  <2>10. Knows(f) = Classes!Without(Knows(g), e) /\ Unk(f) = Unk(g) /\ Kno(f) = Kno(g) \ {e}
    BY <2>2, <2>5, <2>7, <2>9, KnowsFreed
  <2>11. HeapOK(f, Plus(x, g.type[e], g.value[e])) /\ Steady(g, f, {e}) /\ f.pool = g.pool
         /\ (\A n \in Node : f.type[n] = IF n = e THEN "free" ELSE g.type[n])
         /\ (\A n \in Node : f.value[n] = IF n = e THEN null ELSE g.value[n])
    <3>1. HeapOK(g, x) /\ e \in Node /\ g.type[e] \notin unknown_types /\ f = Freed(g, e)
      BY <2>2, <2>5, <2>7, <2>9
    <3> QED BY ONLY <3>1, NodeFreed
  <2>12. Knows(d) = Classes!Without(Knows(f), p)
    BY <1>1, <2>5, <2>11, KnowsGone
  <2> QED BY <2>1, <2>6, <2>8, <2>10, <2>12
<1>4. ASSUME ~(a \in unknown_types /\ tl = known_type[a]), NEW g, HeapOK(g, y),
             g = IF tl \in unknown_types /\ a = known_type[tl] THEN nonlinear_eq(h, e, p, TRUE)
                 ELSE IF tl \in unknown_types /\ a = tl THEN ring_merge(h, p, e)
                 ELSE h
      PROVE  Knows(r.heap) = Classes!Without(Knows(g), p)
  <2> DEFINE d == Recycled(g, p)
  <2>1. r.heap = d
    BY <1>4 DEF make_eq
  <2>2. d = Recycled(g, p)
    OBVIOUS
  <2> HIDE DEF d, y
  <2>3. Knows(d) = Classes!Without(Knows(g), p)
    BY <1>1, <1>4, <2>2, KnowsGone
  <2> QED BY <2>1, <2>3
<1>5. ASSUME tl \in unknown_types, a = known_type[tl]
      PROVE  Knows(r.heap) = Classes!Settle(Knows(h), p, Reads(h, a, e))
  <2> DEFINE fl == TRUE  g == nonlinear_eq(h, e, p, fl)
  <2>1. a \in known_types /\ a \notin unknown_types /\ p \in Unk(h)
    BY <1>1, <1>2, <1>5 DEF Unk
  <2>2. Fits(h, a, e)
    BY <2>1, CurFits
  <2>3. g = nonlinear_eq(h, e, p, fl) /\ a = known_type[h.type[p]] /\ h.type[p] \in unknown_types
        /\ HeapOK(h, y)
    BY <1>5
  <2>4. g = nonlinear_eq(h, e, p, TRUE)
    OBVIOUS
  <2> HIDE DEF g, fl, y
  <2>5. HeapOK(g, y)
    BY <1>1, <2>2, <2>3, RingSettled
  <2>6. Classes!Without(Knows(g), p) = Classes!Settle(Knows(h), p, Reads(h, a, e))
    BY <2>1, <2>2, <2>3, KnowsSettled
  <2>7. Knows(r.heap) = Classes!Without(Knows(g), p)
    BY <1>4, <1>5, <2>1, <2>4, <2>5
  <2> QED BY <2>6, <2>7
<1>6. ASSUME a \in unknown_types, tl = a
      PROVE  Knows(r.heap) = Classes!Unite(Knows(h), p, e)
  <2> DEFINE g == ring_merge(h, p, e)
  <2>1. a \notin known_types /\ a # known_type[tl] /\ tl # known_type[a] /\ p \in Unk(h)
    BY <1>1, <1>2, <1>6 DEF Unk
  <2>2. e \in Capsules /\ h.type[e] = h.type[p]
    BY <1>6 DEF CurRight
  <2>3. g = ring_merge(h, p, e) /\ HeapOK(h, y)
    OBVIOUS
  <2>4. HeapOK(g, y)
    <3>1. CASE e \in Ring(h, p)
      BY <3>1 DEF ring_merge
    <3>2. CASE e \notin Ring(h, p)
      <4>1. h.type[p] \in unknown_types
        BY <1>6
      <4> HIDE DEF g, y
      <4> QED BY <2>2, <2>3, <3>2, <4>1, RingsMerged
    <3> QED BY <3>1, <3>2
  <2> HIDE DEF g, y
  <2>5. Classes!Without(Knows(g), p) = Classes!Unite(Knows(h), p, e)
    BY <2>1, <2>2, <2>3, KnowsMerged
  <2>6. Knows(r.heap) = Classes!Without(Knows(g), p)
    BY <1>4, <1>6, <2>1, <2>3, <2>4
  <2> QED BY <2>5, <2>6
<1>7. ASSUME ~(a \in unknown_types /\ tl = known_type[a]),
             ~(tl \in unknown_types /\ a = known_type[tl]),
             ~(a \in unknown_types /\ tl = a)
      PROVE  Knows(r.heap) = Classes!Without(Knows(h), p)
  <2>1. ~(tl \in unknown_types /\ a = tl)
    BY <1>7
  <2> QED BY <1>4, <1>7, <2>1
<1> QED BY <1>3, <1>5, <1>6, <1>7

\* A capsule that was free gets a value of type a.
LEMMA KnowsTaken ==
  ASSUME NEW h, NEW x, HeapOK(h, x), NEW c \in Node, h.type[c] \notin KU,
         NEW a \in known_types, NEW b, Fits(h, a, b),
         NEW g, NEW y, HeapOK(g, y), Steady(h, g, {c}), g.pool = h.pool,
         \A n \in Node : g.type[n] = IF n = c THEN a ELSE h.type[n],
         \A n \in Node : g.value[n] = IF n = c THEN b ELSE h.value[n]
  PROVE  Knows(g) = Classes!Set(Knows(h), c, Reads(h, a, b))
<1> DEFINE C == Parts(h)  f == Vals(h)  u == Reads(h, a, b)  k == Knows(h)
<1>1. Kno(g) = Kno(h) \cup {c} /\ Unk(g) = Unk(h) /\ c \notin Unk(h) /\ c \notin Kno(h)
      /\ \A n \in Unk(h) : n \in Node /\ n # c
  BY KindsApart DEF Kno, Unk, KU
<1>2. Linked(h.type, h.value) /\ Linked(g.type, g.value)
  BY HeapParts
<1>3. \A n \in Unk(h) : Behind(g.value, n) = Behind(h.value, n)
  BY <1>1 DEF Behind
<1>4. Parts(g) = C /\ Reduced(C, c) = C
  BY <1>1, <1>2, <1>3, PartsKept, PartsLess
<1>5. \A n \in Kno(g) : SaysIn(g, n) = IF n = c THEN u ELSE SaysIn(h, n)
  BY DEF SaysIn, Reads, Kno
<1>6. Vals(g) = Given(Fewer(f, c), {c}, u)
  <2>1. Fewer(f, c) = f
    BY <1>1, FewerNone
  <2>2. DOMAIN f = Kno(h) /\ \A n \in Kno(h) : f[n] = SaysIn(h, n)
    BY DEF Vals
  <2>3. Kno(g) = DOMAIN f \cup {c}
    BY <1>1, <2>2
  <2>4. \A n \in Kno(g) : SaysIn(g, n) = IF n \in {c} THEN u ELSE f[n]
    BY <1>1, <1>5, <2>2
  <2> HIDE DEF f, u
  <2> QED BY <2>1, <2>3, <2>4 DEF Vals, Given
<1>7. IsK(k, C, f) /\ IsK(Knows(g), Parts(g), Vals(g))
  BY KnowsK
<1> HIDE DEF C, f, u, k
<1>8. IsK(Classes!Set(k, c, u), Reduced(C, c), Given(Fewer(f, c), {c}, u))
  BY <1>7, SetIs
<1>9. Knows(g) = Classes!Set(k, c, u)
  BY <1>4, <1>6, <1>7, <1>8, SameK
<1> QED BY <1>9 DEF k, u

\* A variable is declared: alone, without a value.
LEMMA KnowsDeclared ==
  ASSUME NEW h, NEW x, HeapOK(h, x), NEW p \in Variables, NEW f, f = recycle_value(h, p),
         NEW a \in unknown_types, NEW g, IsDeclared(g, f, p, a)
  PROVE  /\ HeapOK(g, x)
         /\ Parts(g) = Reduced(Parts(h), p) \cup {{p}} /\ Unk(g) = Unk(h) \cup {p}
         /\ Kno(g) = Kno(h) \ {p} /\ Vals(g) = Fewer(Vals(h), p)
         /\ Knows(g) = Classes!Renew(Knows(h), p)
<1>1. p \in Node
  BY DEF Node
<1>2. /\ HeapOK(f, x) /\ Steady(h, f, {p})
      /\ \A n \in Node : f.type[n] = IF n = p THEN "undefined" ELSE h.type[n]
      /\ f.value[p] = null
  BY <1>1, ValueRecycled
<1>3. f.type[p] = "undefined"
  BY <1>1, <1>2
<1>4. Knows(f) = Classes!Without(Knows(h), p) /\ Unk(f) = Unk(h) \ {p} /\ Kno(f) = Kno(h) \ {p}
  BY <1>1, KnowsRecycled
<1>5. Parts(f) = Reduced(Parts(h), p) /\ Vals(f) = Fewer(Vals(h), p)
  <2>1. IsK(Knows(f), Parts(f), Vals(f)) /\ IsK(Knows(h), Parts(h), Vals(h))
    BY KnowsK
  <2>2. IsK(Classes!Without(Knows(h), p), Reduced(Parts(h), p), Fewer(Vals(h), p))
    BY <2>1, WithoutIs
  <2>3. IsK(Knows(f), Reduced(Parts(h), p), Fewer(Vals(h), p))
    BY <1>4, <2>2
  <2> QED BY <2>1, <2>3, KPartsSame
<1>6. /\ HeapOK(g, x) /\ Steady(f, g, {}) /\ g.pool = f.pool /\ g.value = f.value
      /\ \A n \in Node : g.type[n] = IF n = p THEN a ELSE f.type[n]
  <2>1. HeapOK(f, x) /\ f.value[p] = null
    BY <1>2
  <2> QED BY ONLY p \in Variables, a \in unknown_types, <2>1, <1>3, IsDeclared(g, f, p, a), Declared
<1>7. Parts(g) = Parts(f) \cup {{p}} /\ Unk(g) = Unk(f) \cup {p}
  <2>1. HeapOK(f, x) /\ f.value[p] = null
    BY <1>2
  <2> QED BY ONLY p \in Variables, a \in unknown_types, <2>1, <1>3, IsDeclared(g, f, p, a), DeclaredParts
<1>8. Kno(g) = Kno(f)
  BY <1>1, <1>3, <1>6, KindsApart DEF Kno
<1>9. Vals(g) = Vals(f)
  <2>1. \A n \in Kno(g) : n # p /\ n \in Node
    BY <1>4, <1>8 DEF Kno
  <2>2. \A n \in Kno(g) : SaysIn(g, n) = SaysIn(f, n)
    BY <1>6, <2>1 DEF SaysIn, Reads
  <2> QED BY <1>8, <2>2 DEF Vals
<1>10. Knows(g) = Classes!Renew(Knows(h), p)
  <2>1. IsK(Knows(g), Parts(g), Vals(g)) /\ IsK(Knows(h), Parts(h), Vals(h))
    BY KnowsK
  <2>2. IsK(Classes!Renew(Knows(h), p), Reduced(Parts(h), p) \cup {{p}}, Fewer(Vals(h), p))
    BY <2>1, RenewIs
  <2>3. Parts(g) = Reduced(Parts(h), p) \cup {{p}} /\ Vals(g) = Fewer(Vals(h), p)
    BY <1>5, <1>7, <1>9
  <2> QED BY <2>1, <2>2, <2>3, SameK
<1> QED BY <1>4, <1>5, <1>6, <1>7, <1>8, <1>9, <1>10

-----------------------------------------------------------------------------
(* What each operation makes of the classes and the values.                *)

Became(h, g) == Classes!Becomes(Knows(h), Knows(g))

\* What is known when the heap is g.
LEMMA KnowNext ==
  ASSUME NEW g, NEW x, HeapOK(g, x), SetHeap(g)
  PROVE  Know' = Knows(g)
<1>1. type' = g.type /\ value' = g.value /\ pool' = g.pool /\ IsHeap(g)
  BY HeapParts DEF SetHeap
<1>2. heap' = g
  BY <1>1 DEF heap, IsHeap
<1>3. UnknownNodes' = Unk(g) /\ KnownNodes' = Kno(g)
  BY <1>1 DEF UnknownNodes, Unk, KnownNodes, Kno, known_types
<1>4. {Ring(heap, n) : n \in UnknownNodes}' = Parts(g)
  BY <1>2, <1>3 DEF Parts
<1>5. \A n : SaysIn(g, n) = Says(n)'
  BY <1>1 DEF SaysIn, Says, Reads
<1>6. [n \in KnownNodes |-> Says(n)]' = [n \in Kno(g) |-> SaysIn(g, n)]
  BY <1>3, <1>5
<1> QED BY <1>4, <1>6 DEF Know, Knows

\* It is enough to look at the two heaps.
LEMMA BecameNext ==
  ASSUME NEW g, NEW x, HeapOK(g, x), SetHeap(g), Became(heap, g)
  PROVE  Classes!Becomes(Know, Know')
<1>1. Know' = Knows(g)
  BY KnowNext
<1> QED BY <1>1, KnowIs DEF Became

\* The pool alone has changed, or nothing.
LEMMA PoolBecame ==
  ASSUME NEW h, NEW x, HeapOK(h, x), NEW g, NEW y, HeapOK(g, y), SameSaid(h.pool, g.pool),
         g.type = h.type, g.value = h.value
  PROVE  Became(h, g)
<1>1. Knows(g) = Knows(h)
  BY KnowsPool
<1> QED BY <1>1 DEF Became, Classes!Becomes

\* Somebody has gone.
LEMMA GoneBecame ==
  ASSUME NEW h, NEW g, NEW n \in Node, Knows(g) = Classes!Without(Knows(h), n)
  PROVE  Became(h, g)
BY DEF Became, Classes!Becomes

\* Somebody has become a member of the class of m.
LEMMA JoinBecame ==
  ASSUME NEW h, NEW x, HeapOK(h, x), NEW g, NEW n \in Node, NEW m \in Unk(h), n # m,
         Knows(g) = Classes!Join(Knows(h), n, m)
  PROVE  Became(h, g)
<1>1. m \in Classes!Unknown(Knows(h))
  BY UnknownIs, HeapParts
<1> QED BY <1>1 DEF Became, Classes!Becomes

\* Somebody alone has a value.
LEMMA SetBecame ==
  ASSUME NEW h, NEW g, NEW n \in Node, NEW v \in Values, Knows(g) = Classes!Set(Knows(h), n, v)
  PROVE  Became(h, g)
BY DEF Became, Classes!Becomes

\* Somebody begins a new life.
LEMMA RenewBecame ==
  ASSUME NEW h, NEW g, NEW n \in Node, Knows(g) = Classes!Renew(Knows(h), n)
  PROVE  Became(h, g)
BY DEF Became, Classes!Becomes

\* string x, boolean x.
LEMMA DeclarationKnows ==
  ASSUME RInv, NEW x \in Variables, NEW t \in unknown_types, do_type_declaration(x, t)
  PROVE  Classes!Becomes(Know, Know')
<1> DEFINE X == Plus(Nobody, cur_type, cur_exp)  f == recycle_value(heap, x)  g == [f EXCEPT !.type[x] = t]
<1>1. HeapOK(heap, X) /\ x \in Node
  BY RParts DEF Node
<1>2. SetHeap(g)
  BY DEF do_type_declaration
<1>3. f = recycle_value(heap, x) /\ IsDeclared(g, f, x, t)
  BY DEF IsDeclared
<1> HIDE DEF X, f, g
<1>4. HeapOK(g, X) /\ Knows(g) = Classes!Renew(Knows(heap), x)
  BY <1>1, <1>3, KnowsDeclared
<1> QED BY <1>1, <1>2, <1>4, RenewBecame, BecameNext

\* A variable is flushed.
LEMMA FlushKnows ==
  ASSUME RInv, NEW x \in Variables, flush_variable(x)
  PROVE  Classes!Becomes(Know, Know')
<1> DEFINE X == Plus(Nobody, cur_type, cur_exp)  f == recycle_value(heap, x)
<1>1. HeapOK(heap, X) /\ x \in Node
  BY RParts DEF Node
<1>2. SetHeap(f) /\ f = recycle_value(heap, x)
  BY DEF flush_variable
<1> HIDE DEF X, f
<1>3. /\ HeapOK(f, X) /\ Steady(heap, f, {x})
      /\ \A n \in Node : f.type[n] = IF n = x THEN "undefined" ELSE heap.type[n]
      /\ f.value[x] = null
  BY <1>1, <1>2, ValueRecycled
<1>4. Knows(f) = Classes!Without(Knows(heap), x)
  BY <1>1, <1>2, KnowsRecycled
<1> QED BY <1>1, <1>2, <1>3, <1>4, GoneBecame, BecameNext

\* A constant changes no quantity.
LEMMA ConstantKnows ==
  ASSUME RInv, NEW t \in {"boolean", "string"}, NEW w \in Values, Constant(t, w)
  PROVE  Classes!Becomes(Know, Know')
<1>1. HeapOK(heap, Plus(Nobody, cur_type, cur_exp)) /\ cur_type = "vacuous"
  BY RParts DEF Constant, alive
<1>2. HeapOK(heap, Nobody)
  BY <1>1, NoPlus
<1>3. CASE t = "string"
  <2> DEFINE g == make_string(heap, w)
  <2>1. SetHeap(g)
    BY <1>3 DEF Constant
  <2>2. /\ HeapOK(g, Plus(Nobody, "string", Len(heap.pool) + 1)) /\ g.type = heap.type /\ g.value = heap.value
        /\ SameSaid(heap.pool, g.pool) /\ DOMAIN g.pool = DOMAIN heap.pool \cup {Len(heap.pool) + 1}
        /\ g.pool[Len(heap.pool) + 1].chars = w /\ Len(heap.pool) + 1 \in Nat
        /\ Len(g.pool) = Len(heap.pool) + 1
    BY <1>2, StringMade
  <2> HIDE DEF g
  <2>3. Became(heap, g)
    BY <1>2, <2>2, PoolBecame
  <2> QED BY <2>1, <2>2, <2>3, BecameNext
<1>4. CASE t # "string"
  <2>1. SetHeap(heap)
    BY <1>4 DEF Constant
  <2>2. Became(heap, heap)
    BY DEF Became, Classes!Becomes
  <2> QED BY <1>2, <2>1, <2>2, BecameNext
<1> QED BY <1>3, <1>4

\* A substring changes no quantity.
LEMMA ChopKnows ==
  ASSUME RInv, NEW w \in Values, chop_string(w)
  PROVE  Classes!Becomes(Know, Know')
<1> DEFINE g == delete_str_ref(make_string(heap, w), "string", cur_exp)  n == Len(heap.pool) + 1
<1>1. /\ HeapOK(heap, Plus(Nobody, cur_type, cur_exp)) /\ Nobody \in Tallies
      /\ CurRight(type, cur_type, cur_exp)
  BY RParts
<1>2. cur_type = "string" /\ SetHeap(g)
  BY DEF chop_string
<1>3. HeapOK(heap, Plus(Nobody, "string", cur_exp)) /\ cur_exp \in Nat
  BY <1>1, <1>2 DEF CurRight
<1> HIDE DEF n
<1>4. HeapOK(g, Plus(Nobody, "string", n)) /\ g.type = heap.type /\ g.value = heap.value /\ n \in Nat
         /\ SameSaid(heap.pool, g.pool)
  BY <1>1, <1>3, StringReplaced DEF n
<1> HIDE DEF g
<1>5. Became(heap, g)
  BY <1>1, <1>4, PoolBecame
<1> QED BY <1>2, <1>4, <1>5, BecameNext

\* A capsule joins the ring of the variable that is copied.
LEMMA CopyKnows ==
  ASSUME RInv, NEW x \in Variables, make_exp_copy(x)
  PROVE  Classes!Becomes(Know, Know')
<1>1. /\ heap.type = type /\ heap.value = value /\ HeapOK(heap, Plus(Nobody, cur_type, cur_exp))
      /\ x \in Node /\ Capsules \subseteq Node /\ Variables \cap Capsules = {}
  BY RParts DEF Node
<1>2. cur_type = "vacuous"
  BY DEF make_exp_copy, alive
<1>3. HeapOK(heap, Nobody)
  BY <1>1, <1>2, NoPlus
<1>4. ASSUME type[x] \in unknown_types, NEW c \in FreeCapsules, SetHeap(new_ring_entry(heap, x, c))
      PROVE  Classes!Becomes(Know, Know')
  <2> DEFINE g == new_ring_entry(heap, x, c)
  <2>1. c \in Capsules /\ c \in Node /\ type[c] = "free" /\ c # x
    BY <1>1, <1>4, HeldOnes
  <2>2. heap.type[c] \notin KU /\ heap.type[c] \notin known_types \cup unknown_types /\ x \in Unk(heap)
    BY <1>1, <1>4, <2>1, KindsApart DEF KU, Unk
  <2>3. SetHeap(g) /\ g = new_ring_entry(heap, x, c)
    BY <1>4
  <2> HIDE DEF g
  <2>4. /\ HeapOK(g, Nobody) /\ Steady(heap, g, {}) /\ g.pool = heap.pool
        /\ \A n \in Node : g.type[n] = IF n = c THEN heap.type[x] ELSE heap.type[n]
    BY <1>1, <1>3, <1>4, <2>1, <2>2, <2>3, Entered
  <2>5. Knows(g) = Classes!Join(Knows(heap), c, x)
    BY <1>3, <2>1, <2>2, <2>3, KnowsEntered
  <2>6. Became(heap, g)
    BY <1>3, <2>1, <2>2, <2>5, JoinBecame
  <2> QED BY <2>3, <2>4, <2>6, BecameNext
<1>5. ASSUME type[x] \in {"boolean", "string"}, SetHeap(add_str_ref(heap, type[x], value[x], 1))
      PROVE  Classes!Becomes(Know, Know')
  <2> DEFINE a == type[x]  b == value[x]  g == add_str_ref(heap, a, b, 1)
  <2>1. a = "string" => b \in DOMAIN heap.pool
    BY <1>1, <1>3, InPool
  <2>2. SetHeap(g)
    BY <1>5
  <2> HIDE DEF a, b
  <2>3. /\ HeapOK(g, Plus(Nobody, a, b)) /\ g.type = heap.type /\ g.value = heap.value
        /\ SameSaid(heap.pool, g.pool) /\ DOMAIN g.pool = DOMAIN heap.pool
    BY <1>3, <2>1, Referred
  <2> HIDE DEF g
  <2>4. Became(heap, g)
    BY <1>3, <2>3, PoolBecame
  <2> QED BY <2>2, <2>3, <2>4, BecameNext
<1> QED BY <1>4, <1>5 DEF make_exp_copy

\* A known current expression gives its value to a capsule.
LEMMA StashKnows ==
  ASSUME RInv, NEW who \in {"lhs", "expr"}, stash_cur_exp(who)
  PROVE  Classes!Becomes(Know, Know')
<1>1. /\ heap.type = type /\ HeapOK(heap, Plus(Nobody, cur_type, cur_exp)) /\ Nobody \in Tallies
      /\ CurRight(heap.type, cur_type, cur_exp) /\ Capsules \subseteq Node
  BY RParts DEF Node
<1>2. cur_type # "vacuous"
  BY DEF stash_cur_exp, alive
<1>3. CASE cur_type \in unknown_types
  <2>1. SetHeap(heap)
    BY <1>3 DEF stash_cur_exp
  <2>2. Became(heap, heap)
    BY DEF Became, Classes!Becomes
  <2> QED BY <1>1, <2>1, <2>2, BecameNext
<1>4. CASE cur_type \notin unknown_types
  <2>1. PICK c \in FreeCapsules : SetHeap([heap EXCEPT !.type[c] = cur_type, !.value[c] = cur_exp])
    BY <1>4 DEF stash_cur_exp
  <2> DEFINE g == With(heap, c, cur_type, cur_exp)
  <2>2. SetHeap(g)
    BY <2>1 DEF With
  <2>3. c \in Capsules /\ c \in Node /\ type[c] = "free"
    BY <1>1, HeldOnes
  <2>4. cur_type \in known_types /\ (cur_type = "boolean" => cur_exp \in Values)
        /\ (cur_type = "string" => cur_exp \in Nat)
    BY <1>1, <1>2, <1>4 DEF CurRight
  <2>5. heap.type[c] \notin known_types \cup unknown_types /\ heap.type[c] \notin KU
    BY <1>1, <2>3, KindsApart DEF KU
  <2>6. HeapOK(g, Nobody) /\ Steady(heap, g, {c})
    BY <1>1, <2>3, <2>4, <2>5, TakenOver
  <2>7. Shape(heap) /\ cur_type \in Tags
    BY <1>1, <2>4, SoundShape, KindsApart
  <2>8. /\ Shape(g) /\ g.pool = heap.pool
        /\ \A n \in Node : g.type[n] = IF n = c THEN cur_type ELSE heap.type[n]
        /\ \A n \in Node : g.value[n] = IF n = c THEN cur_exp ELSE heap.value[n]
    BY <2>3, <2>7, WithShape
  <2>9. Fits(heap, cur_type, cur_exp)
    BY <1>1, <2>4, CurFits
  <2> DEFINE X == Plus(Nobody, cur_type, cur_exp)
  <2>10. HeapOK(heap, X)
    BY <1>1
  <2> HIDE DEF g, X
  <2>11. Knows(g) = Classes!Set(Knows(heap), c, Reads(heap, cur_type, cur_exp))
    BY <2>3, <2>4, <2>5, <2>6, <2>8, <2>9, <2>10, KnowsTaken
  <2>12. Reads(heap, cur_type, cur_exp) \in Values
    BY <2>4, <2>9, <2>10, ReadsValue
  <2>13. Became(heap, g)
    BY <2>3, <2>11, <2>12, SetBecame
  <2> QED BY <2>2, <2>6, <2>13, BecameNext
<1> QED BY <1>3, <1>4

\* A capsule whose value is taken back goes.
LEMMA UnstashKnows ==
  ASSUME RInv, unstash_cur_exp
  PROVE  Classes!Becomes(Know, Know')
<1> DEFINE p == Top[2]
<1>1. /\ heap.type = type /\ HeapOK(heap, Plus(Nobody, cur_type, cur_exp))
      /\ SavedRight(saved, cur_type, cur_exp) /\ Capsules \subseteq Node
  BY RParts DEF Node
<1>2. cur_type = "vacuous" /\ saved # <<>> /\ saved' = SubSeq(saved, 1, Len(saved) - 1)
      /\ p = saved[Len(saved)][2]
  BY DEF unstash_cur_exp, alive, Popped, Top
<1>3. HeapOK(heap, Nobody)
  BY <1>1, <1>2, NoPlus
<1>4. CASE type[p] \in unknown_types
  <2>1. SetHeap(heap)
    BY <1>4 DEF unstash_cur_exp
  <2>2. Became(heap, heap)
    BY DEF Became, Classes!Becomes
  <2> QED BY <1>3, <2>1, <2>2, BecameNext
<1>5. CASE type[p] \notin unknown_types
  <2> DEFINE g == Freed(heap, p)
  <2>1. SetHeap(g)
    BY <1>5 DEF unstash_cur_exp
  <2> HIDE DEF p
  <2>2. /\ p \in Capsules /\ p \in Aside(saved) /\ Aside(saved') = Aside(saved) \ {p}
        /\ \A t, e : (t \in unknown_types => e \notin Aside(saved')) => SavedRight(saved', t, e)
    BY <1>1, <1>2, TakenBack
  <2>3. p \in Node /\ heap.type[p] \notin unknown_types /\ g = Freed(heap, p)
    BY <1>1, <1>5, <2>2
  <2> HIDE DEF g
  <2>4. /\ HeapOK(g, Plus(Nobody, heap.type[p], heap.value[p])) /\ Steady(heap, g, {p}) /\ g.pool = heap.pool
        /\ \A n \in Node : g.type[n] = IF n = p THEN "free" ELSE heap.type[n]
        /\ \A n \in Node : g.value[n] = IF n = p THEN null ELSE heap.value[n]
    BY <1>3, <2>3, NodeFreed
  <2>5. Knows(g) = Classes!Without(Knows(heap), p)
    BY <1>3, <2>3, KnowsFreed
  <2> QED BY <2>1, <2>3, <2>4, <2>5, GoneBecame, BecameNext
<1> QED BY <1>4, <1>5

\* The stashed operand of a concatenation goes.
LEMMA CatKnows ==
  ASSUME RInv, NEW w \in Values, cat(w)
  PROVE  Classes!Becomes(Know, Know')
<1> DEFINE p == Top[2]  n == Len(heap.pool) + 1
           f == delete_str_ref(make_string(heap, w), "string", cur_exp)  g == Recycled(f, p)
<1>1. /\ HeapOK(heap, Plus(Nobody, cur_type, cur_exp)) /\ Nobody \in Tallies
      /\ CurRight(type, cur_type, cur_exp) /\ SavedRight(saved, cur_type, cur_exp)
      /\ Capsules \subseteq Node
  BY RParts DEF Node
<1>2. /\ cur_type = "string" /\ saved # <<>> /\ saved' = SubSeq(saved, 1, Len(saved) - 1)
      /\ p = saved[Len(saved)][2] /\ SetHeap(g)
  BY DEF cat, Popped, Top
<1> HIDE DEF p
<1>3. HeapOK(heap, Plus(Nobody, "string", cur_exp)) /\ cur_exp \in Nat
  BY <1>1, <1>2 DEF CurRight
<1>4. /\ p \in Capsules /\ p \in Aside(saved) /\ Aside(saved') = Aside(saved) \ {p}
      /\ \A t, e : (t \in unknown_types => e \notin Aside(saved')) => SavedRight(saved', t, e)
  BY <1>1, <1>2, TakenBack
<1>5. HeapOK(f, Plus(Nobody, "string", n)) /\ f.type = heap.type /\ f.value = heap.value /\ n \in Nat
         /\ SameSaid(heap.pool, f.pool)
  <2> HIDE DEF n
  <2>1. n = Len(heap.pool) + 1
    BY DEF n
  <2> QED BY <1>1, <1>3, <2>1, StringReplaced
<1>6. g = Recycled(f, p) /\ p \in Node
  BY <1>1, <1>4
<1> HIDE DEF f, n, g
<1>7. /\ HeapOK(g, Plus(Nobody, "string", n)) /\ Steady(f, g, {p})
      /\ \A k \in Node : g.type[k] = IF k = p THEN "free" ELSE f.type[k]
  BY <1>5, <1>6, CapsuleRecycled
<1>8. Knows(f) = Knows(heap)
  BY <1>1, <1>5, KnowsPool
<1>9. Knows(g) = Classes!Without(Knows(f), p)
  BY <1>5, <1>6, KnowsGone
<1>10. Became(heap, g)
  BY <1>6, <1>8, <1>9, GoneBecame
<1> QED BY <1>2, <1>7, <1>10, BecameNext

\* The current expression goes.
LEMMA FlushedKnows ==
  ASSUME RInv, flush_cur_exp
  PROVE  Classes!Becomes(Know, Know')
<1>1. /\ heap.type = type /\ HeapOK(heap, Plus(Nobody, cur_type, cur_exp)) /\ Nobody \in Tallies
      /\ CurRight(type, cur_type, cur_exp) /\ Capsules \subseteq Node
  BY RParts DEF Node
<1>2. CASE cur_type \in unknown_types
  <2> DEFINE g == Recycled(heap, cur_exp)
  <2>1. SetHeap(g) /\ g = Recycled(heap, cur_exp)
    BY <1>2 DEF flush_cur_exp
  <2>2. HeapOK(heap, Nobody) /\ cur_exp \in Node
    BY <1>1, <1>2, NoPlus, KindsApart, HeldOnes
  <2> HIDE DEF g
  <2>3. /\ HeapOK(g, Nobody) /\ Steady(heap, g, {cur_exp})
        /\ \A n \in Node : g.type[n] = IF n = cur_exp THEN "free" ELSE heap.type[n]
    BY <2>1, <2>2, CapsuleRecycled
  <2>4. Knows(g) = Classes!Without(Knows(heap), cur_exp)
    BY <2>1, <2>2, KnowsGone
  <2> QED BY <2>1, <2>2, <2>3, <2>4, GoneBecame, BecameNext
<1>3. CASE cur_type \notin unknown_types
  <2> DEFINE g == delete_str_ref(heap, cur_type, cur_exp)
  <2>1. SetHeap(g) /\ g = delete_str_ref(heap, cur_type, cur_exp)
    BY <1>3 DEF flush_cur_exp
  <2>2. cur_type = "string" => cur_exp \in Nat
    BY <1>1 DEF CurRight
  <2> HIDE DEF g
  <2>3. /\ HeapOK(g, Nobody) /\ g.type = heap.type /\ g.value = heap.value
        /\ SameSaid(heap.pool, g.pool) /\ DOMAIN g.pool \subseteq DOMAIN heap.pool
    BY <1>1, <2>1, <2>2, GivenUp
  <2>4. Became(heap, g)
    BY <1>1, <2>3, PoolBecame
  <2> QED BY <2>1, <2>3, <2>4, BecameNext
<1> QED BY <1>2, <1>3

\* Two classes are united.
LEMMA UniteBecame ==
  ASSUME NEW h, NEW x, HeapOK(h, x), NEW g, NEW n \in Unk(h), NEW m \in Unk(h),
         Knows(g) = Classes!Unite(Knows(h), n, m)
  PROVE  Became(h, g)
<1>1. n \in Classes!Unknown(Knows(h)) /\ m \in Classes!Unknown(Knows(h))
  BY UnknownIs, HeapParts
<1> QED BY <1>1 DEF Became, Classes!Becomes

\* A class gets a value.
LEMMA SettleBecame ==
  ASSUME NEW h, NEW x, HeapOK(h, x), NEW g, NEW n \in Unk(h), NEW v \in Values,
         Knows(g) = Classes!Settle(Knows(h), n, v)
  PROVE  Became(h, g)
<1>1. n \in Classes!Unknown(Knows(h))
  BY UnknownIs, HeapParts
<1> QED BY <1>1 DEF Became, Classes!Becomes

\* A class gets the value of a capsule, which goes.
LEMMA SettleGoneBecame ==
  ASSUME NEW h, NEW x, HeapOK(h, x), NEW g, NEW n \in Unk(h), NEW c \in Kno(h),
         Knows(g) = Classes!Without(Classes!Settle(Knows(h), n, SaysIn(h, c)), c)
  PROVE  Became(h, g)
<1>1. n \in Classes!Unknown(Knows(h))
  BY UnknownIs, HeapParts
<1>2. c \in DOMAIN Knows(h).val /\ Knows(h).val[c] = SaysIn(h, c)
  BY DEF Knows
<1> QED BY <1>1, <1>2 DEF Became, Classes!Becomes

\* An equation.
LEMMA EquationKnows ==
  ASSUME RInv, do_equation
  PROVE  Classes!Becomes(Know, Know')
<1> DEFINE p == Top[2]  r == make_eq(heap, p, cur_type, cur_exp)  a == cur_type  e == cur_exp
           X == Plus(Nobody, a, e)
<1>1. /\ heap.type = type /\ HeapOK(heap, X) /\ Nobody \in Tallies
      /\ CurRight(heap.type, a, e) /\ SavedRight(saved, cur_type, cur_exp)
      /\ Capsules \subseteq Node
  BY RParts DEF Node
<1>2. /\ cur_type # "vacuous" /\ saved # <<>> /\ saved' = SubSeq(saved, 1, Len(saved) - 1)
      /\ p = saved[Len(saved)][2] /\ SetHeap(r.heap)
  BY DEF do_equation, alive, Popped, Top, SetTo
<1>3. r = make_eq(heap, p, a, e)
  OBVIOUS
<1> HIDE DEF p, r
<1>4. /\ p \in Capsules /\ p \in Aside(saved) /\ Aside(saved') = Aside(saved) \ {p}
      /\ \A t, z : (t \in unknown_types => z \notin Aside(saved')) => SavedRight(saved', t, z)
  BY <1>1, <1>2, TakenBack
<1>5. /\ a \in KU /\ heap.type[p] \in KU
      /\ (a \in unknown_types => e # p /\ e \in Capsules)
  <2>1. a \in KU
    BY <1>1, <1>2 DEF CurRight, KU
  <2> QED BY <1>1, <1>4, <2>1, HeldOnes
<1>6. /\ HeapOK(r.heap, Plus(Nobody, r.type, r.exp)) /\ CurRight(r.heap.type, r.type, r.exp)
      /\ r.type \in KU /\ r.heap.type[p] = "free"
      /\ \/ r.type = a /\ r.exp = e /\ Alike(heap.type, r.heap.type, {p})
            /\ (a \in unknown_types => r.heap.type[e] \in KU)
         \/ /\ a \in unknown_types /\ r.type \in known_types /\ r.heap.type[e] = "free"
            /\ Alike(heap.type, r.heap.type, {p, e})
  BY <1>1, <1>3, <1>4, <1>5, EquationMade
<1>7. /\ a \in unknown_types /\ heap.type[p] = known_type[a] =>
            Knows(r.heap) = Classes!Without(Classes!Settle(Knows(heap), e, SaysIn(heap, p)), p)
      /\ heap.type[p] \in unknown_types /\ a = known_type[heap.type[p]] =>
            Knows(r.heap) = Classes!Settle(Knows(heap), p, Reads(heap, a, e))
      /\ a \in unknown_types /\ heap.type[p] = a =>
            Knows(r.heap) = Classes!Unite(Knows(heap), p, e)
      /\ ~(a \in unknown_types /\ heap.type[p] = known_type[a])
         /\ ~(heap.type[p] \in unknown_types /\ a = known_type[heap.type[p]])
         /\ ~(a \in unknown_types /\ heap.type[p] = a) =>
            Knows(r.heap) = Classes!Without(Knows(heap), p)
  BY <1>1, <1>3, <1>4, <1>5, KnowsMade
<1>8. p \in Node /\ (a \in unknown_types => e \in Unk(heap))
  BY <1>1, <1>4, <1>5 DEF CurRight, Unk
<1> HIDE DEF a, e, X
<1>9. CASE a \in unknown_types /\ heap.type[p] = known_type[a]
  <2>1. p \in Kno(heap)
    BY <1>8, <1>9, KindsApart, TypeNames DEF Kno, known_types
  <2>2. Became(heap, r.heap)
    BY <1>1, <1>7, <1>8, <1>9, <2>1, SettleGoneBecame
  <2> QED BY <1>2, <1>6, <2>2, BecameNext
<1>10. CASE heap.type[p] \in unknown_types /\ a = known_type[heap.type[p]]
  <2>1. p \in Unk(heap) /\ a \in known_types
    BY <1>8, <1>10, TypeNames DEF Unk, known_types
  <2>2. Fits(heap, a, e)
    BY <1>1, <2>1, CurFits DEF X
  <2>3. Reads(heap, a, e) \in Values
    BY <1>1, <2>1, <2>2, ReadsValue
  <2>4. Became(heap, r.heap)
    BY <1>1, <1>7, <1>10, <2>1, <2>3, SettleBecame
  <2> QED BY <1>2, <1>6, <2>4, BecameNext
<1>11. CASE a \in unknown_types /\ heap.type[p] = a
  <2>1. p \in Unk(heap)
    BY <1>8, <1>11 DEF Unk
  <2>2. Became(heap, r.heap)
    BY <1>1, <1>7, <1>8, <1>11, <2>1, UniteBecame
  <2> QED BY <1>2, <1>6, <2>2, BecameNext
<1>12. CASE ~(a \in unknown_types /\ heap.type[p] = known_type[a])
            /\ ~(heap.type[p] \in unknown_types /\ a = known_type[heap.type[p]])
            /\ ~(a \in unknown_types /\ heap.type[p] = a)
  <2>1. Became(heap, r.heap)
    BY <1>7, <1>8, <1>12, GoneBecame
  <2> QED BY <1>2, <1>6, <2>1, BecameNext
<1> QED BY <1>9, <1>10, <1>11, <1>12

\* c leaves one of the classes.
LEMMA ReducedOne ==
  ASSUME NEW F, NEW c, \A A \in F : c \notin A /\ A # {}, NEW W, NEW Y, Y = W \ {c}, Y # {}
  PROVE  Reduced(F \cup {W}, c) = F \cup {Y}
<1> DEFINE G == F \cup {W}
<1>1. \A A \in F : A \ {c} = A
  OBVIOUS
<1>2. ASSUME NEW B \in Reduced(G, c) PROVE B \in F \cup {Y}
  <2>1. PICK A \in G : B = A \ {c}
    BY DEF Reduced
  <2> QED BY <1>1, <2>1
<1>3. \A A \in F : A \in Reduced(G, c)
  BY <1>1 DEF Reduced
<1>4. Y \in Reduced(G, c)
  BY DEF Reduced
<1> QED BY <1>2, <1>3, <1>4

\* A variable alone with the capsule of an assignment: E and f are without it.
Paired(k, E, f, x, c) ==
    /\ IsK(k, E \cup {{x, c}}, f)
    /\ x # c /\ \A A \in E : x \notin A /\ c \notin A /\ A # {}
    /\ c \notin DOMAIN f /\ Fewer(f, c) = f

\* The class of the two gets a value, and the capsule goes.
LEMMA PairSettled ==
  ASSUME NEW k, NEW E, NEW f, NEW x, NEW c, Paired(k, E, f, x, c), NEW v
  PROVE  IsK(Classes!Settle(k, c, v), E, Given(f, {x}, v))
<1> DEFINE P == {x, c}  D == E \cup {P}
<1>1. IsK(k, D, f) /\ x # c /\ (\A A \in E : x \notin A /\ c \notin A /\ A # {}) /\ c \notin DOMAIN f
  BY DEF Paired
<1>2. Whole(D, P, c)
  BY <1>1 DEF Whole
<1>3. D \ {P} = E
  BY <1>1
<1>4. Reduced(E, c) = E
  BY <1>1, LessNone
<1>5. Fewer(Given(f, P, v), c) = Given(f, {x}, v)
  <2>1. DOMAIN Given(f, P, v) = DOMAIN f \cup P /\ \A m \in DOMAIN f \cup P :
           Given(f, P, v)[m] = IF m \in P THEN v ELSE f[m]
    BY DEF Given
  <2>2. (DOMAIN f \cup P) \ {c} = DOMAIN f \cup {x}
    BY <1>1
  <2>3. \A m \in DOMAIN f \cup {x} : Given(f, P, v)[m] = IF m \in {x} THEN v ELSE f[m]
    BY <1>1, <2>1
  <2> HIDE DEF P
  <2> QED BY <2>1, <2>2, <2>3 DEF Fewer, Given
<1> HIDE DEF P, D
<1>6. IsK(Classes!Settle(k, c, v), Reduced(D \ {P}, c), Fewer(Given(f, P, v), c))
  BY <1>1, <1>2, SettleIs
<1> QED BY <1>3, <1>4, <1>5, <1>6

\* The class of the two is united with that of m, and the capsule goes.
LEMMA PairUnited ==
  ASSUME NEW k, NEW E, NEW f, NEW x, NEW c, Paired(k, E, f, x, c),
         NEW B, NEW m, Whole(E, B, m)
  PROVE  IsK(Classes!Unite(k, c, m), (E \ {B}) \cup {B \cup {x}}, f)
<1> DEFINE P == {x, c}  D == E \cup {P}  F == E \ {B}  W == P \cup B  Y == B \cup {x}
<1>1. IsK(k, D, f) /\ x # c /\ (\A A \in E : x \notin A /\ c \notin A /\ A # {}) /\ c \notin DOMAIN f
  BY DEF Paired
<1>2. B \in E /\ m \in B /\ \A A \in E : m \in A => A = B
  BY DEF Whole
<1>3. Whole(D, P, c)
  BY <1>1 DEF Whole
<1>4. Whole(D, B, m)
  <2>1. m \notin P
    BY <1>1, <1>2
  <2> QED BY <1>2, <2>1 DEF Whole
<1>5. (D \ {P, B}) \cup {P \cup B} = F \cup {W}
  <2>1. \A A \in E : A # P
    BY <1>1
  <2>2. D \ {P, B} = F
    BY <2>1
  <2> QED BY <2>2
<1>6. (\A A \in F : c \notin A /\ A # {}) /\ Y = W \ {c} /\ Y # {}
  BY <1>1, <1>2
<1>7. Fewer(f, c) = f
  BY DEF Paired
<1> HIDE DEF P, D, F, W, Y
<1>8. Reduced(F \cup {W}, c) = F \cup {Y}
  BY <1>6, ReducedOne
<1>9. IsK(Classes!Unite(k, c, m), Reduced((D \ {P, B}) \cup {P \cup B}, c), Fewer(f, c))
  BY <1>1, <1>3, <1>4, UniteIs
<1>10. IsK(Classes!Unite(k, c, m), F \cup {Y}, f)
  BY <1>5, <1>7, <1>8, <1>9
<1> QED BY <1>10 DEF F, Y

\* The capsule goes, and nothing is equated.
LEMMA PairParted ==
  ASSUME NEW k, NEW E, NEW f, NEW x, NEW c, Paired(k, E, f, x, c)
  PROVE  IsK(Classes!Without(k, c), E \cup {{x}}, f)
<1> DEFINE P == {x, c}  D == E \cup {P}  Y == {x}
<1>1. IsK(k, D, f) /\ x # c /\ (\A A \in E : x \notin A /\ c \notin A /\ A # {}) /\ c \notin DOMAIN f
  BY DEF Paired
<1>2. Y = P \ {c} /\ Y # {}
  BY <1>1
<1>3. Fewer(f, c) = f
  BY DEF Paired
<1> HIDE DEF P, Y
<1>4. Reduced(D, c) = E \cup {Y}
  BY <1>1, <1>2, ReducedOne
<1> HIDE DEF D
<1>5. IsK(Classes!Without(k, c), Reduced(D, c), Fewer(f, c))
  BY <1>1, WithoutIs
<1> QED BY <1>3, <1>4, <1>5 DEF Y

\* The variable of an assignment: a new life, with the value or in the class of
\* the right side.
LEMMA AssignmentKnows ==
  ASSUME RInv, NEW x \in Variables, do_assignment(x)
  PROVE  Classes!Becomes(Know, Know')
<1> DEFINE X == Plus(Nobody, cur_type, cur_exp)  b == und_type(type[x])
           f == recycle_value(heap, x)  d == [f EXCEPT !.type[x] = b]
           a == cur_type  e == cur_exp
<1>1. /\ heap.type = type /\ HeapOK(heap, X) /\ x \in Node /\ Capsules \subseteq Node
      /\ CurRight(heap.type, a, e) /\ Nobody \in Tallies /\ Variables \cap Capsules = {}
  BY RParts DEF Node
<1>2. PICK c \in FreeCapsules : SetTo(make_eq(new_ring_entry(d, x, c), c, cur_type, cur_exp))
  BY <1>1 DEF do_assignment
<1> DEFINE g == new_ring_entry(d, x, c)  r == make_eq(g, c, a, e)
<1>3. SetHeap(r.heap) /\ a # "vacuous"
  BY <1>2 DEF SetTo, do_assignment, alive
<1>4. /\ c \in Capsules /\ type[c] = "free" /\ c \in Node /\ c # x
      /\ ~ (a \in unknown_types /\ c = e) /\ (a \in unknown_types => e \in Capsules)
  BY <1>1, HeldOnes
<1>5. b \in unknown_types
  BY TypeNames DEF und_type
<1>6. r = make_eq(g, c, a, e) /\ g = new_ring_entry(d, x, c)
      /\ IsDeclared(d, f, x, b) /\ f = recycle_value(heap, x)
  BY DEF IsDeclared
<1> HIDE DEF f, d, g, r, b
<1> DEFINE k == Knows(heap)  C == Parts(heap)  v == Vals(heap)  E == Reduced(C, x)  w == Fewer(v, x)
<1>7. /\ HeapOK(f, X) /\ Steady(heap, f, {x})
      /\ \A n \in Node : f.type[n] = IF n = x THEN "undefined" ELSE heap.type[n]
      /\ f.value[x] = null
  <2> HIDE DEF X
  <2> QED BY <1>1, <1>6, ValueRecycled
<1>8. /\ HeapOK(d, X) /\ Parts(d) = E \cup {{x}} /\ Unk(d) = Unk(heap) \cup {x}
      /\ Kno(d) = Kno(heap) \ {x} /\ Vals(d) = w /\ Knows(d) = Classes!Renew(k, x)
  <2> HIDE DEF X
  <2> QED BY <1>1, <1>5, <1>6, KnowsDeclared
<1>9. /\ HeapOK(d, X) /\ Steady(f, d, {}) /\ d.pool = f.pool /\ d.value = f.value
      /\ \A n \in Node : d.type[n] = IF n = x THEN b ELSE f.type[n]
  <2> HIDE DEF X
  <2>1. HeapOK(f, X) /\ f.value[x] = null /\ f.type[x] = "undefined" /\ IsDeclared(d, f, x, b)
        /\ x \in Variables
    BY <1>1, <1>6, <1>7
  <2> QED BY ONLY <1>5, <2>1, Declared
<1>10. d.type[c] = "free" /\ d.type[c] \notin KU /\ d.type[x] = b /\ x \in Unk(d) /\ c \notin Unk(d)
       /\ d.type[c] \notin known_types \cup unknown_types /\ c \notin Kno(heap) /\ c \notin Unk(heap)
       /\ c \notin Kno(d)
  BY <1>1, <1>4, <1>5, <1>7, <1>8, <1>9, KindsApart DEF KU, Unk, Kno
<1>11. /\ HeapOK(g, X) /\ Steady(d, g, {}) /\ g.pool = d.pool
       /\ \A n \in Node : g.type[n] = IF n = c THEN d.type[x] ELSE d.type[n]
  <2> HIDE DEF X
  <2> QED BY <1>1, <1>4, <1>5, <1>6, <1>9, <1>10, Entered
<1>12. IsK(Knows(g), (Parts(d) \ {Ring(d, x)}) \cup {Ring(d, x) \cup {c}}, Vals(d))
  <2> HIDE DEF X
  <2>1. IsK(Knows(g), (Parts(d) \ {Ring(d, x)}) \cup {Ring(d, x) \cup {c}}, Vals(d))
        /\ Knows(g) = Classes!Join(Knows(d), c, x)
    BY <1>4, <1>6, <1>9, <1>10, KnowsEntered
  <2> QED BY <2>1
<1>13. Linked(d.type, d.value) /\ Linked(heap.type, heap.value)
  BY <1>1, <1>9, HeapParts
<1>14. \A A \in E : x \notin A /\ c \notin A /\ A # {}
  <2>1. \A A \in C : c \notin A
    BY <1>10, <1>13, PartsAre
  <2> QED BY <2>1 DEF Reduced
<1>15. Ring(d, x) = {x}
  BY <1>8, <1>10, <1>13, WholeRing DEF Whole
<1>16. Paired(Knows(g), E, w, x, c)
  <2>1. (Parts(d) \ {Ring(d, x)}) \cup {Ring(d, x) \cup {c}} = E \cup {{x, c}}
    BY <1>8, <1>14, <1>15
  <2>2. c \notin DOMAIN w /\ Fewer(w, c) = w
    <3>1. DOMAIN Vals(d) = Kno(d)
      BY DEF Vals
    <3> QED BY <1>8, <1>10, <3>1, FewerNone
  <2> HIDE DEF E, w
  <2> QED BY <1>4, <1>8, <1>12, <1>14, <2>1, <2>2 DEF Paired
<1>17. IsK(k, C, v)
  BY KnowsK
<1>18. /\ a \in KU /\ g.type[c] = b /\ g.type[c] \in KU /\ CurRight(g.type, a, e)
       /\ (a \in unknown_types => e # c /\ e \in Unk(d) /\ e \in Unk(heap) /\ e # x)
  <2>1. a \in KU
    BY <1>1, <1>3 DEF CurRight, KU
  <2>2. g.type[c] = b /\ b \in KU
    BY <1>4, <1>5, <1>10, <1>11 DEF KU
  <2>3. \A n \in Capsules : n # c => g.type[n] = heap.type[n]
    BY <1>1, <1>7, <1>9, <1>11
  <2>4. CurRight(g.type, a, e)
    BY <1>1, <1>4, <2>3 DEF CurRight
  <2>5. a \in unknown_types => e \in Unk(heap)
    BY <1>1, <1>4 DEF CurRight, Unk
  <2> QED BY <1>1, <1>4, <1>8, <2>1, <2>2, <2>4, <2>5
<1>19. HeapOK(g, Plus(Nobody, a, e))
  BY <1>11
<1>20. /\ HeapOK(r.heap, Plus(Nobody, r.type, r.exp)) /\ CurRight(r.heap.type, r.type, r.exp)
       /\ r.type \in KU /\ r.heap.type[c] = "free"
       /\ \/ r.type = a /\ r.exp = e /\ Alike(g.type, r.heap.type, {c})
             /\ (a \in unknown_types => r.heap.type[e] \in KU)
          \/ /\ a \in unknown_types /\ r.type \in known_types /\ r.heap.type[e] = "free"
             /\ Alike(g.type, r.heap.type, {c, e})
  <2>1. /\ Nobody \in Tallies /\ a \in KU /\ HeapOK(g, Plus(Nobody, a, e)) /\ CurRight(g.type, a, e)
        /\ c \in Capsules /\ g.type[c] \in KU /\ (a \in unknown_types => e # c)
        /\ r = make_eq(g, c, a, e)
    BY <1>1, <1>4, <1>6, <1>18, <1>19
  <2> HIDE DEF a, e
  <2> QED BY ONLY <2>1, EquationMade
<1>21. /\ a \in unknown_types /\ g.type[c] = known_type[a] =>
             Knows(r.heap) = Classes!Without(Classes!Settle(Knows(g), e, SaysIn(g, c)), c)
       /\ g.type[c] \in unknown_types /\ a = known_type[g.type[c]] =>
             Knows(r.heap) = Classes!Settle(Knows(g), c, Reads(g, a, e))
       /\ a \in unknown_types /\ g.type[c] = a =>
             Knows(r.heap) = Classes!Unite(Knows(g), c, e)
       /\ ~(a \in unknown_types /\ g.type[c] = known_type[a])
          /\ ~(g.type[c] \in unknown_types /\ a = known_type[g.type[c]])
          /\ ~(a \in unknown_types /\ g.type[c] = a) =>
             Knows(r.heap) = Classes!Without(Knows(g), c)
  BY <1>1, <1>4, <1>6, <1>18, <1>19, KnowsMade
<1> DEFINE Y == Plus(Nobody, r.type, r.exp)  l == Knows(r.heap)
<1> HIDE DEF a, e
<1>22. CASE a = known_type[b]
  <2> DEFINE u == Reads(g, a, e)
  <2>1. a \in known_types
    BY <1>5, <1>22, TypeNames DEF known_types
  <2>2. u \in Values
    <3>1. Fits(g, a, e)
      BY <1>1, <1>18, <1>19, <2>1, CurFits
    <3> QED BY <1>11, <2>1, <3>1, ReadsValue
  <2> HIDE DEF u
  <2>3. l = Classes!Settle(Knows(g), c, u)
    BY <1>5, <1>18, <1>21, <1>22 DEF u
  <2> HIDE DEF l
  <2>4. IsK(l, E, Given(w, {x}, u))
    <3> HIDE DEF E, w
    <3> QED BY <1>16, <2>3, PairSettled
  <2>5. IsK(Classes!Set(k, x, u), E, Given(w, {x}, u))
    <3> HIDE DEF k, C, v
    <3> QED BY <1>17, SetIs
  <2>6. l = Classes!Set(k, x, u)
    <3> HIDE DEF E, w, k
    <3> QED BY <2>4, <2>5, SameK
  <2>7. Became(heap, r.heap)
    BY <1>1, <2>2, <2>6, SetBecame DEF l
  <2> QED BY <1>3, <1>20, <2>7, BecameNext
<1>23. CASE a = b
  <2>0. a \in unknown_types
    BY <1>5, <1>23
  <2> DEFINE B == Ring(d, e)
  <2>1. Whole(E, B, e)
    <3>1. Whole(Parts(d), B, e)
      BY <1>13, <1>18, <2>0, WholeRing
    <3>2. B # {x}
      BY <1>18, <2>0, <3>1 DEF Whole
    <3> HIDE DEF B, E
    <3> QED BY <1>8, <3>1, <3>2 DEF Whole
  <2>2. l = Classes!Unite(Knows(g), c, e)
    BY <1>18, <1>21, <1>23, <2>0
  <2> HIDE DEF l, B
  <2>3. IsK(l, (E \ {B}) \cup {B \cup {x}}, w)
    <3> HIDE DEF E, w
    <3> QED BY <1>16, <2>1, <2>2, PairUnited
  <2>4. IsK(Classes!Join(k, x, e), (E \ {B}) \cup {B \cup {x}}, w)
    <3> HIDE DEF k, C, v
    <3> QED BY <1>17, <2>1, JoinIs
  <2>5. l = Classes!Join(k, x, e)
    <3> HIDE DEF E, w, k
    <3> QED BY <2>3, <2>4, SameK
  <2>6. Became(heap, r.heap)
    <3> HIDE DEF X
    <3> QED BY <1>1, <1>18, <2>0, <2>5, JoinBecame DEF l
  <2> QED BY <1>3, <1>20, <2>6, BecameNext
<1>24. CASE a # known_type[b] /\ a # b
  <2>1. ~(a \in unknown_types /\ b = known_type[a])
    BY <1>5, TypeNames DEF known_types
  <2>2. l = Classes!Without(Knows(g), c)
    BY <1>18, <1>21, <1>24, <2>1
  <2> HIDE DEF l
  <2>3. IsK(l, E \cup {{x}}, w)
    <3> HIDE DEF E, w
    <3> QED BY <1>16, <2>2, PairParted
  <2>4. IsK(Classes!Renew(k, x), E \cup {{x}}, w)
    <3> HIDE DEF k, C, v
    <3> QED BY <1>17, RenewIs
  <2>5. l = Classes!Renew(k, x)
    <3> HIDE DEF E, w, k
    <3> QED BY <2>3, <2>4, SameK
  <2>6. Became(heap, r.heap)
    BY <1>1, <2>5, RenewBecame DEF l
  <2> QED BY <1>3, <1>20, <2>6, BecameNext
<1> QED BY <1>22, <1>23, <1>24

\* Nothing is known in the beginning.
LEMMA KnowInit == Init => Know = [class |-> {}, val |-> [n \in {} |-> 0]]
<1> SUFFICES ASSUME Init PROVE Know = [class |-> {}, val |-> [n \in {} |-> 0]]
  OBVIOUS
<1>1. \A n \in Node : type[n] \in {"undefined", "free"}
  BY DEF Init
<1>2. UnknownNodes = {} /\ KnownNodes = {}
  BY <1>1, KindsApart DEF UnknownNodes, KnownNodes, KU, known_types
<1>3. [n \in KnownNodes |-> Says(n)] = [n \in {} |-> 0]
  BY <1>2
<1>4. {Ring(heap, n) : n \in UnknownNodes} = {}
  BY <1>2
<1> QED BY <1>3, <1>4 DEF Know

\* Every step is one of the classes, or leaves them as they are.
LEMMA KnowSteps == RInv /\ [Next]_vars => Classes!Becomes(Know, Know')
<1> SUFFICES ASSUME RInv, [Next]_vars PROVE Classes!Becomes(Know, Know')
  OBVIOUS
<1> DEFINE Good == Classes!Becomes(Know, Know')
<1> HIDE DEF Good
<1>1. ASSUME NEW x \in Variables, NEW t \in unknown_types, do_type_declaration(x, t) PROVE Good
  BY <1>1, DeclarationKnows DEF Good
<1>2. ASSUME NEW x \in Variables, flush_variable(x) PROVE Good
  BY <1>2, FlushKnows DEF Good
<1>3. ASSUME NEW x \in Variables, make_exp_copy(x) PROVE Good
  BY <1>3, CopyKnows DEF Good
<1>4. ASSUME NEW x \in Variables, do_assignment(x) PROVE Good
  BY <1>4, AssignmentKnows DEF Good
<1>5. ASSUME NEW t \in {"boolean", "string"}, NEW v \in Values, Constant(t, v) PROVE Good
  BY <1>5, ConstantKnows DEF Good
<1>6. ASSUME NEW v \in Values, chop_string(v) PROVE Good
  BY <1>6, ChopKnows DEF Good
<1>7. ASSUME NEW v \in Values, cat(v) PROVE Good
  BY <1>7, CatKnows DEF Good
<1>8. ASSUME NEW who \in {"lhs", "expr"}, stash_cur_exp(who) PROVE Good
  BY <1>8, StashKnows DEF Good
<1>9. ASSUME unstash_cur_exp PROVE Good
  BY <1>9, UnstashKnows DEF Good
<1>10. ASSUME do_equation PROVE Good
  BY <1>10, EquationKnows DEF Good
<1>11. ASSUME flush_cur_exp PROVE Good
  BY <1>11, FlushedKnows DEF Good
<1>12. ASSUME UNCHANGED vars PROVE Good
  <2>1. Know' = Know
    BY <1>12 DEF vars, Know, UnknownNodes, KnownNodes, Says, heap
  <2> QED BY <2>1 DEF Good, Classes!Becomes
<1>13. ASSUME Next PROVE Good
  BY <1>1, <1>2, <1>3, <1>4, <1>5, <1>6, <1>7, <1>8, <1>9, <1>10, <1>11, <1>13 DEF Next
<1>14. Good
  BY <1>12, <1>13
<1> QED BY <1>14 DEF Good

\* Every run of the rings is one of classes of equal quantities: an equation
\* unites two classes or gives a whole one its value, a redundant one splits
\* nothing, an assigned, declared or recycled quantity leaves the others of its
\* class together, and nothing else that has a value gets another, whatever
\* becomes of the string pool (mf.web 13111-13217).
THEOREM ClassesImplemented == Spec => EqualStayEqual
<1>1. Init => RInv /\ Classes!Init
  BY RInit, KnowInit DEF Classes!Init, Know
<1>2. RInv /\ [Next]_vars => RInv' /\ [Classes!Next]_Know
  BY RNext, KnowSteps DEF Classes!Next, Know
<1> QED BY <1>1, <1>2, PTL DEF Spec, EqualStayEqual, Classes!Spec, Know

=============================================================================
