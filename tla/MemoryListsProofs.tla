-------------------------- MODULE MemoryListsProofs -------------------------
(***************************************************************************)
(* Proofs about the users of the dynamic memory, for every size of mem and *)
(* all histories of requests: its statistics, lists that are given back as *)
(* a whole (MemoryLists), and, in the second half, the dump of the memory  *)
(* and its loading (BaseFile).                                             *)
(***************************************************************************)
EXTENDS MemoryProofs, MemoryLists, BaseFile, FiniteSetTheorems, WellFoundedInduction

-----------------------------------------------------------------------------
(* Induction on natural numbers, for a set.                                *)

Less == {x \in Nat \X Nat : x[1] < x[2]}

\* There is no infinite descent in the natural numbers.
LEMMA LessWellFounded == IsWellFoundedOn(Less, Nat)
<1>1. OpToRel(<, Nat) = Less
  BY DEF OpToRel, Less
<1> QED BY <1>1, NatLessThanWellFounded

\* A set with 0 and the successors of its members has every natural number.
LEMMA NatSetInduction ==
  ASSUME NEW S, 0 \in S, \A j \in Nat : j \in S => j + 1 \in S
  PROVE  Nat \subseteq S
<1> SUFFICES ASSUME Nat \ S # {} PROVE FALSE
  OBVIOUS
<1>1. PICK x \in Nat \ S : \A y \in Nat \ S : <<y, x>> \notin Less
  <2>1. Nat \ S \subseteq Nat
    OBVIOUS
  <2> QED BY <2>1, LessWellFounded, WFMin
<1>2. x - 1 \in Nat /\ x - 1 < x
  BY <1>1
<1>3. x - 1 \in S
  <2>1. <<x - 1, x>> \in Less
    BY <1>1, <1>2 DEF Less
  <2> QED BY <1>1, <1>2, <2>1
<1>4. (x - 1) + 1 \in S
  BY <1>2, <1>3
<1> QED BY <1>1, <1>4

-----------------------------------------------------------------------------
(* The nodes of a list.  c[n][x] collects the nodes of D met in n steps    *)
(* from x along g.                                                         *)

Met(c, g, D, n, x)    == IF x \notin D \/ n = 0 THEN {} ELSE {x} \cup c[n - 1][g[x]]
IsNest(c, g, D, X, M) == c = [n \in 0..M |-> [x \in X |-> Met(c, g, D, n, x)]]

ClosedIn(S, g, D) == \A y \in S : g[y] \in D => g[y] \in S

\* What n + 1 steps meet, beside what n steps meet.
Grown(c, g, D, X, n) ==
    \A x \in X : /\ c[n + 1][x] \subseteq D /\ (x \in D => x \in c[n + 1][x])
                 /\ (x \notin D => c[n + 1][x] = {})
                 /\ c[n][x] \subseteq c[n + 1][x]
                 /\ \A y \in c[n][x] : g[y] \in D => g[y] \in c[n + 1][x]
Within(c, D, X, T, n) == \A x \in X : (x \in D => x \in T) => c[n][x] \subseteq T

\* What the collections are.
LEMMA NestIs ==
  ASSUME NEW g, NEW D, NEW X, NEW M, NEW c, IsNest(c, g, D, X, M), NEW n \in 0..M
  PROVE  c[n] = [x \in X |-> Met(c, g, D, n, x)]
BY Zenon DEF IsNest

\* One of them, node by node.
LEMMA NestAt ==
  ASSUME NEW g, NEW D, NEW X, NEW M, NEW c, IsNest(c, g, D, X, M), NEW n \in 0..M, NEW x \in X
  PROVE  c[n][x] = Met(c, g, D, n, x)
<1>1. c[n] = [z \in X |-> Met(c, g, D, n, z)]
  BY NestIs
<1> QED BY <1>1, Zenon

\* The collections exist.
LEMMA NestDefined ==
  ASSUME NEW g, NEW D, NEW X, NEW M \in Nat
  PROVE  \E c : IsNest(c, g, D, X, M)
<1> DEFINE S == {m \in Nat : \E c : IsNest(c, g, D, X, m)}
<1>1. 0 \in S
  <2> DEFINE f == [n \in 0..0 |-> [x \in X |-> {}]]
  <2>1. f = [n \in 0..0 |-> [x \in X |-> Met(f, g, D, n, x)]]
    BY DEF Met
  <2> QED BY <2>1 DEF IsNest
<1>2. \A m \in Nat : m \in S => m + 1 \in S
  <2> TAKE m \in Nat
  <2> HAVE m \in S
  <2>1. PICK c : IsNest(c, g, D, X, m)
    OBVIOUS
  <2> DEFINE Row(c1, n) == [x \in X |-> Met(c1, g, D, n, x)]
             f == [n \in 0..(m + 1) |-> IF n <= m THEN c[n] ELSE Row(c, n)]
  <2>2. ASSUME NEW n \in 0..(m + 1) PROVE f[n] = Row(f, n)
    <3>1. \A k \in 0..m : f[k] = c[k]
      OBVIOUS
    <3>2. n # 0 => n - 1 \in 0..m
      OBVIOUS
    <3>3. f[n] = Row(c, n)
      <4>1. CASE n <= m
        <5>1. n \in 0..m /\ f[n] = c[n]
          BY <4>1
        <5> QED BY <2>1, <5>1, NestIs
      <4>2. CASE ~(n <= m)
        BY <4>2
      <4> QED BY <4>1, <4>2
    <3> HIDE DEF f
    <3>4. Row(f, n) = Row(c, n)
      BY <3>1, <3>2 DEF Met
    <3> QED BY <3>3, <3>4
  <2>3. f = [n \in 0..(m + 1) |-> f[n]]
    OBVIOUS
  <2> HIDE DEF f
  <2>4. f = [n \in 0..(m + 1) |-> Row(f, n)]
    BY <2>2, <2>3
  <2> QED BY <2>4 DEF IsNest
<1> HIDE DEF S
<1>3. M \in S
  BY <1>1, <1>2, NatSetInduction
<1> QED BY <1>3 DEF S

\* One step more: the collection grows by what its nodes lead to.
LEMMA NestGrows ==
  ASSUME NEW g, NEW X, NEW D \in SUBSET X, NEW M \in Nat, NEW c, IsNest(c, g, D, X, M),
         \A x \in D : g[x] \in X
  PROVE  \A n \in Nat : n + 1 <= M => Grown(c, g, D, X, n)
<1>1. \A n \in 0..M : \A x \in X : c[n][x] = Met(c, g, D, n, x)
  BY NestAt
<1> DEFINE S == {n \in Nat : n + 1 <= M => Grown(c, g, D, X, n)}
<1>2. 0 \in S
  <2> SUFFICES ASSUME 1 <= M PROVE Grown(c, g, D, X, 0)
    OBVIOUS
  <2>1. \A x \in X : c[0][x] = {}
    <3>1. 0 \in 0..M
      OBVIOUS
    <3> QED BY <1>1, <3>1 DEF Met
  <2>2. \A x \in X : c[1][x] = IF x \notin D THEN {} ELSE {x} \cup c[0][g[x]]
    <3>1. 1 \in 0..M /\ 1 - 1 = 0
      OBVIOUS
    <3> QED BY <1>1, <3>1 DEF Met
  <2>3. \A x \in D : c[1][x] = {x}
    BY <2>1, <2>2
  <2>4. \A x \in X : x \notin D => c[1][x] = {}
    BY <2>2
  <2> QED BY <2>1, <2>3, <2>4 DEF Grown
<1>3. ASSUME NEW n \in Nat, n \in S PROVE n + 1 \in S
  <2> SUFFICES ASSUME (n + 1) + 1 <= M PROVE Grown(c, g, D, X, n + 1)
    OBVIOUS
  <2> DEFINE m == n + 1
  <2>1. m \in 0..M /\ m # 0 /\ m - 1 = n /\ m + 1 \in 0..M /\ m + 1 # 0 /\ (m + 1) - 1 = m /\ n + 1 <= M
    OBVIOUS
  <2>2. \A x \in X : /\ c[m][x] = IF x \notin D THEN {} ELSE {x} \cup c[n][g[x]]
                     /\ c[m + 1][x] = IF x \notin D THEN {} ELSE {x} \cup c[m][g[x]]
    BY <1>1, <2>1 DEF Met
  <2>3. Grown(c, g, D, X, n)
    BY <1>3, <2>1
  <2> HIDE DEF m
  <2>4. \A x \in X : /\ c[m][x] \subseteq D /\ (x \in D => x \in c[m][x])
                     /\ c[n][x] \subseteq c[m][x]
                     /\ \A y \in c[n][x] : g[y] \in D => g[y] \in c[m][x]
    BY <2>3 DEF m, Grown
  <2>5. ASSUME NEW x \in X
        PROVE  /\ c[m + 1][x] \subseteq D /\ (x \in D => x \in c[m + 1][x])
               /\ (x \notin D => c[m + 1][x] = {})
               /\ c[m][x] \subseteq c[m + 1][x]
               /\ \A y \in c[m][x] : g[y] \in D => g[y] \in c[m + 1][x]
    <3>1. CASE x \notin D
      BY <2>2, <3>1
    <3>2. CASE x \in D
      <4>1. g[x] \in X
        BY <3>2
      <4>2. c[m][x] = {x} \cup c[n][g[x]] /\ c[m + 1][x] = {x} \cup c[m][g[x]]
        BY <2>2, <3>2
      <4> QED BY <2>4, <3>2, <4>1, <4>2
    <3> QED BY <3>1, <3>2
  <2> QED BY <2>5 DEF m, Grown
<1> HIDE DEF S
<1>4. Nat \subseteq S
  BY <1>2, <1>3, NatSetInduction
<1> QED BY <1>4 DEF S

\* A closed set that has the first node has all that is collected.
LEMMA NestLeast ==
  ASSUME NEW g, NEW X, NEW D \in SUBSET X, NEW M \in Nat, NEW c, IsNest(c, g, D, X, M),
         \A x \in D : g[x] \in X, NEW T, ClosedIn(T, g, D)
  PROVE  \A n \in Nat : n <= M => Within(c, D, X, T, n)
<1>1. \A n \in 0..M : \A x \in X : c[n][x] = Met(c, g, D, n, x)
  BY NestAt
<1> DEFINE S == {n \in Nat : n <= M => Within(c, D, X, T, n)}
<1>2. 0 \in S
  <2>1. 0 \in 0..M
    OBVIOUS
  <2>2. \A x \in X : c[0][x] = {}
    BY <1>1, <2>1 DEF Met
  <2> QED BY <2>2 DEF Within
<1>3. ASSUME NEW n \in Nat, n \in S PROVE n + 1 \in S
  <2> SUFFICES ASSUME n + 1 <= M, NEW x \in X, x \in D => x \in T PROVE c[n + 1][x] \subseteq T
    BY DEF Within
  <2>1. n + 1 \in 0..M /\ n + 1 # 0 /\ (n + 1) - 1 = n /\ n <= M
    OBVIOUS
  <2>2. c[n + 1][x] = IF x \notin D THEN {} ELSE {x} \cup c[n][g[x]]
    BY <1>1, <2>1 DEF Met
  <2>3. CASE x \in D
    <3>1. g[x] \in X /\ (g[x] \in D => g[x] \in T)
      BY <2>3 DEF ClosedIn
    <3>2. c[n][g[x]] \subseteq T
      BY <1>3, <2>1, <3>1 DEF Within
    <3> QED BY <2>2, <2>3, <3>2
  <2> QED BY <2>2, <2>3
<1> HIDE DEF S
<1>4. Nat \subseteq S
  BY <1>2, <1>3, NatSetInduction
<1> QED BY <1>4 DEF S

\* After more steps than there are nodes nothing is left to collect.
LEMMA NestClosed ==
  ASSUME NEW g, NEW X, NEW D \in SUBSET X, IsFiniteSet(D), NEW M \in Nat, NEW c,
         IsNest(c, g, D, X, M), \A x \in D : g[x] \in X, Cardinality(D) < M, NEW x \in X
  PROVE  /\ c[M][x] \subseteq D /\ (x \in D => x \in c[M][x])
         /\ ClosedIn(c[M][x], g, D)
<1> DEFINE R(n) == c[n + 1][x]
           S == {n \in Nat : n + 1 <= M => ClosedIn(R(n), g, D) \/ n + 1 <= Cardinality(R(n))}
<1>0. Cardinality(D) \in Nat
  BY FS_CardinalityType
<1>1. \A n \in Nat : n + 1 <= M =>
        /\ R(n) \in SUBSET D /\ (x \in D => x \in R(n)) /\ (x \notin D => R(n) = {})
        /\ IsFiniteSet(R(n)) /\ Cardinality(R(n)) \in Nat /\ Cardinality(R(n)) <= Cardinality(D)
  <2> TAKE n \in Nat
  <2> HAVE n + 1 <= M
  <2>1. R(n) \in SUBSET D /\ (x \in D => x \in R(n)) /\ (x \notin D => R(n) = {})
    <3>1. Grown(c, g, D, X, n)
      BY NestGrows
    <3> QED BY <3>1 DEF Grown
  <2> HIDE DEF R
  <2>2. IsFiniteSet(R(n)) /\ Cardinality(R(n)) <= Cardinality(D)
    BY <2>1, FS_Subset
  <2> QED BY <2>1, <2>2, FS_CardinalityType
<1>2. \A n \in Nat : (n + 1) + 1 <= M =>
        R(n) \subseteq R(n + 1) /\ \A y \in R(n) : g[y] \in D => g[y] \in R(n + 1)
  <2> TAKE n \in Nat
  <2> HAVE (n + 1) + 1 <= M
  <2> DEFINE m == n + 1
  <2>1. m \in Nat /\ m + 1 <= M
    OBVIOUS
  <2> HIDE DEF m
  <2>2. c[m][x] \subseteq c[m + 1][x] /\ \A y \in c[m][x] : g[y] \in D => g[y] \in c[m + 1][x]
    BY <2>1, NestGrows DEF Grown
  <2> QED BY <2>2 DEF m
<1>3. \A n \in Nat : (n + 1) + 1 <= M /\ ClosedIn(R(n), g, D) => R(n + 1) \subseteq R(n)
  <2> TAKE n \in Nat
  <2> HAVE (n + 1) + 1 <= M /\ ClosedIn(R(n), g, D)
  <2>1. x \in D => x \in R(n)
    BY <1>1
  <2> DEFINE m == (n + 1) + 1
  <2>2. m \in Nat /\ m <= M
    OBVIOUS
  <2> HIDE DEF m
  <2>3. PICK T : T = R(n)
    OBVIOUS
  <2>4. ClosedIn(T, g, D) /\ (x \in D => x \in T)
    BY <2>1, <2>3
  <2>5. c[m][x] \subseteq T
    <3>1. Within(c, D, X, T, m)
      BY <2>2, <2>4, NestLeast
    <3> QED BY <2>4, <3>1 DEF Within
  <2> QED BY <2>3, <2>5 DEF m
<1> HIDE DEF R
<1>4. 0 \in S
  <2> SUFFICES ASSUME 0 + 1 <= M PROVE ClosedIn(R(0), g, D) \/ 0 + 1 <= Cardinality(R(0))
    OBVIOUS
  <2>1. CASE x \notin D
    BY <1>1, <2>1 DEF ClosedIn
  <2>2. CASE x \in D
    <3>1. IsFiniteSet(R(0)) /\ R(0) # {} /\ Cardinality(R(0)) \in Nat
      BY <1>1, <2>2
    <3>2. Cardinality(R(0)) # 0
      BY <3>1, FS_EmptySet
    <3> QED BY <3>1, <3>2
  <2> QED BY <2>1, <2>2
<1>5. ASSUME NEW n \in Nat, n \in S PROVE n + 1 \in S
  <2> SUFFICES ASSUME (n + 1) + 1 <= M
               PROVE  ClosedIn(R(n + 1), g, D) \/ (n + 1) + 1 <= Cardinality(R(n + 1))
    OBVIOUS
  <2>1. n + 1 <= M /\ n + 1 \in Nat
    OBVIOUS
  <2>2. R(n) \subseteq R(n + 1)
    BY <1>2
  <2>3. CASE ClosedIn(R(n), g, D)
    <3>1. R(n + 1) = R(n)
      BY <1>3, <2>2, <2>3
    <3> QED BY <2>3, <3>1
  <2>4. CASE ~ClosedIn(R(n), g, D)
    <3>1. PICK y \in R(n) : g[y] \in D /\ g[y] \notin R(n)
      BY <2>4 DEF ClosedIn
    <3>2. g[y] \in R(n + 1)
      BY <1>2, <3>1
    <3>3. n + 1 <= Cardinality(R(n))
      BY <1>5, <2>1, <2>4
    <3>4. /\ IsFiniteSet(R(n)) /\ IsFiniteSet(R(n + 1))
          /\ Cardinality(R(n)) \in Nat /\ Cardinality(R(n + 1)) \in Nat
      BY <1>1, <2>1
    <3>5. Cardinality(R(n)) <= Cardinality(R(n + 1)) /\ Cardinality(R(n)) # Cardinality(R(n + 1))
      BY <2>2, <3>1, <3>2, <3>4, FS_Subset
    <3> QED BY <3>3, <3>4, <3>5
  <2> QED BY <2>3, <2>4
<1> HIDE DEF S
<1>6. Nat \subseteq S
  BY <1>4, <1>5, NatSetInduction
<1>7. M - 1 \in Nat /\ (M - 1) + 1 = M
  BY <1>0
<1>8. ClosedIn(R(M - 1), g, D) \/ M <= Cardinality(R(M - 1))
  <2>1. M - 1 \in S
    BY <1>6, <1>7
  <2> QED BY <1>7, <2>1 DEF S
<1>9. ClosedIn(R(M - 1), g, D)
  BY <1>0, <1>1, <1>7, <1>8
<1>10. R(M - 1) \in SUBSET D /\ (x \in D => x \in R(M - 1))
  BY <1>1, <1>7
<1> QED BY <1>7, <1>9, <1>10 DEF R

USE DEF mem_min, null, sentinel, hi_mem_stat_min

-----------------------------------------------------------------------------
(* The statistics.                                                         *)

Weight(g, x)    == IF x \in DOMAIN g THEN g[x] ELSE 0
IsSum(c, g, M)  == c = [y \in 0..M |-> IF y = 0 THEN 0 ELSE c[y - 1] + Weight(g, y - 1)]

\* The sums exist.
LEMMA SumDefined ==
  ASSUME NEW g, NEW M \in Nat
  PROVE  \E c : IsSum(c, g, M)
<1> DEFINE S == {m \in Nat : \E c : IsSum(c, g, m)}
<1>1. 0 \in S
  <2> DEFINE f == [y \in 0..0 |-> 0]
  <2>1. f = [y \in 0..0 |-> IF y = 0 THEN 0 ELSE f[y - 1] + Weight(g, y - 1)]
    OBVIOUS
  <2> QED BY <2>1 DEF IsSum
<1>2. \A m \in Nat : m \in S => m + 1 \in S
  <2> TAKE m \in Nat
  <2> HAVE m \in S
  <2>1. PICK c : IsSum(c, g, m)
    OBVIOUS
  <2> DEFINE f == [y \in 0..(m + 1) |-> IF y <= m THEN c[y] ELSE c[m] + Weight(g, m)]
  <2>2. \A y \in 0..(m + 1) : f[y] = IF y = 0 THEN 0 ELSE f[y - 1] + Weight(g, y - 1)
    <3> TAKE y \in 0..(m + 1)
    <3>1. CASE y = 0
      BY <2>1, <3>1 DEF IsSum
    <3>2. CASE y > 0 /\ y <= m
      <4>1. y \in 0..m /\ y - 1 \in 0..m /\ y # 0 /\ y - 1 \in 0..(m + 1) /\ y - 1 <= m
        BY <3>2
      <4>2. c[y] = c[y - 1] + Weight(g, y - 1)
        BY <2>1, <4>1 DEF IsSum
      <4> QED BY <3>2, <4>1, <4>2
    <3>3. CASE y = m + 1
      BY <3>3
    <3> QED BY <3>1, <3>2, <3>3
  <2>3. f = [y \in 0..(m + 1) |-> IF y = 0 THEN 0 ELSE f[y - 1] + Weight(g, y - 1)]
    <3>1. f = [y \in 0..(m + 1) |-> f[y]]
      OBVIOUS
    <3> HIDE DEF f
    <3> QED BY <2>2, <3>1
  <2> HIDE DEF f
  <2> QED BY <2>3 DEF IsSum
<1>3. Nat \subseteq S
  <2> HIDE DEF S
  <2> QED BY <1>1, <1>2, NatSetInduction
<1> QED BY <1>3

\* What one node more or less does to a sum.
LEMMA SumChange ==
  ASSUME NEW M \in Nat, NEW g, NEW f, NEW c, NEW d, IsSum(c, g, M), IsSum(d, f, M),
         NEW r \in Nat, r < M,
         \A x \in Nat : Weight(g, x) \in Int /\ Weight(f, x) \in Int
                        /\ (x # r => Weight(f, x) = Weight(g, x))
  PROVE  c[M] \in Int /\ d[M] = c[M] + Weight(f, r) - Weight(g, r)
<1> DEFINE S == {y \in Nat : y <= M => /\ c[y] \in Int
                                       /\ d[y] = IF y <= r THEN c[y]
                                                 ELSE c[y] + Weight(f, r) - Weight(g, r)}
<1>1. 0 \in S
  BY DEF IsSum
<1>2. \A y \in Nat : y \in S => y + 1 \in S
  <2> SUFFICES ASSUME NEW y \in Nat, y \in S, y + 1 <= M PROVE y + 1 \in S
    OBVIOUS
  <2>1. y + 1 \in 0..M /\ y + 1 # 0 /\ (y + 1) - 1 = y /\ y <= M
    OBVIOUS
  <2>2. c[y + 1] = c[y] + Weight(g, y) /\ d[y + 1] = d[y] + Weight(f, y)
    BY <2>1 DEF IsSum
  <2>3. Weight(g, y) \in Int /\ Weight(f, y) \in Int /\ Weight(f, r) \in Int /\ Weight(g, r) \in Int
    OBVIOUS
  <2>4. y # r => Weight(f, y) = Weight(g, y)
    OBVIOUS
  <2> QED BY <2>1, <2>2, <2>3, <2>4
<1>3. M \in S
  <2> HIDE DEF S
  <2> QED BY <1>1, <1>2, NatSetInduction
<1> QED BY <1>3

\* Nothing is held: the sum is 0.
LEMMA SumNothing ==
  ASSUME NEW M \in Nat, NEW g, NEW c, IsSum(c, g, M), DOMAIN g = {}
  PROVE  c[M] = 0
<1> DEFINE S == {y \in Nat : y <= M => c[y] = 0}
<1>1. 0 \in S
  BY DEF IsSum
<1>2. \A y \in Nat : y \in S => y + 1 \in S
  <2> SUFFICES ASSUME NEW y \in Nat, y \in S, y + 1 <= M PROVE c[y + 1] = 0
    OBVIOUS
  <2>1. y + 1 \in 0..M /\ y + 1 # 0 /\ (y + 1) - 1 = y /\ y <= M
    OBVIOUS
  <2>2. c[y + 1] = c[y] + Weight(g, y)
    BY <2>1 DEF IsSum
  <2> QED BY <2>1, <2>2 DEF Weight
<1>3. M \in S
  <2> HIDE DEF S
  <2> QED BY <1>1, <1>2, NatSetInduction
<1> QED BY <1>3

\* SizesBelow is such a sum, before a step and after it.
LEMMA SizesAre ==
  /\ IsSum(SizesBelow, nodes, mem_max + 1)
  /\ IsSum(SizesBelow', nodes', mem_max + 1)
<1>1. mem_max + 1 \in Nat
  BY MemoryAssumption
<1>2. IsSum(SizesBelow, nodes, mem_max + 1)
  <2>1. \E c : IsSum(c, nodes, mem_max + 1)
    BY <1>1, SumDefined
  <2> QED BY <2>1, Zenon DEF IsSum, SizesBelow, Weight
<1>3. IsSum(SizesBelow', nodes', mem_max + 1)
  <2>1. \E c : IsSum(c, nodes', mem_max + 1)
    BY <1>1, SumDefined
  <2> QED BY <2>1, Zenon DEF IsSum, SizesBelow, Weight
<1> QED BY <1>2, <1>3

\* A node more is counted, wherever it lies; a node less is counted off.
LEMMA NodeCounted ==
  ASSUME IInv, NEW r \in Word, NEW n \in Nat
  PROVE  /\ r \notin DOMAIN nodes
            /\ nodes' = [x \in DOMAIN nodes \cup {r} |-> IF x = r THEN n ELSE nodes[x]]
            => SizesBelow'[mem_max + 1] = SizesBelow[mem_max + 1] + n
         /\ r \in DOMAIN nodes /\ nodes' = [x \in DOMAIN nodes \ {r} |-> nodes[x]]
            => SizesBelow'[mem_max + 1] = SizesBelow[mem_max + 1] - nodes[r]
         /\ SizesBelow[mem_max + 1] \in Int
<1> DEFINE M == mem_max + 1
<1>1. M \in Nat /\ r \in Nat /\ r < M
  BY MemoryAssumption DEF Word
<1>2. \A x \in Nat : Weight(nodes, x) \in Int
  <2>1. \A x \in DOMAIN nodes : nodes[x] \in Sizes
    BY DEF IInv, TypeOK
  <2>0. \A z \in Sizes : z \in Int
    BY MemoryAssumption
  <2> QED BY <2>0, <2>1 DEF Weight
<1>3. IsSum(SizesBelow, nodes, M) /\ IsSum(SizesBelow', nodes', M)
  BY SizesAre
<1> HIDE DEF M
<1>4. ASSUME r \notin DOMAIN nodes,
             nodes' = [x \in DOMAIN nodes \cup {r} |-> IF x = r THEN n ELSE nodes[x]]
      PROVE  SizesBelow'[M] = SizesBelow[M] + n
  <2>1. /\ Weight(nodes, r) = 0 /\ Weight(nodes', r) = n
        /\ \A x \in Nat : x # r => Weight(nodes', x) = Weight(nodes, x)
    BY <1>4 DEF Weight
  <2>2. \A x \in Nat : Weight(nodes', x) \in Int
    BY <1>2, <2>1
  <2>3. SizesBelow[M] \in Int /\ SizesBelow'[M] = SizesBelow[M] + Weight(nodes', r) - Weight(nodes, r)
    BY <1>1, <1>2, <1>3, <2>1, <2>2, SumChange
  <2> QED BY <2>1, <2>3
<1>5. ASSUME r \in DOMAIN nodes, nodes' = [x \in DOMAIN nodes \ {r} |-> nodes[x]]
      PROVE  SizesBelow'[M] = SizesBelow[M] - nodes[r]
  <2>1. /\ Weight(nodes, r) = nodes[r] /\ Weight(nodes', r) = 0
        /\ \A x \in Nat : x # r => Weight(nodes', x) = Weight(nodes, x)
    BY <1>5 DEF Weight
  <2>2. \A x \in Nat : Weight(nodes', x) \in Int
    BY <1>2, <2>1
  <2>3. SizesBelow[M] \in Int /\ SizesBelow'[M] = SizesBelow[M] + Weight(nodes', r) - Weight(nodes, r)
    BY <1>1, <1>2, <1>3, <2>1, <2>2, SumChange
  <2>4. nodes[r] \in Int
    BY <1>1, <1>2, <2>1
  <2> QED BY <2>1, <2>3, <2>4
<1>6. SizesBelow[M] \in Int
  BY <1>1, <1>2, <1>3, SumChange
<1> QED BY <1>4, <1>5, <1>6 DEF M

\* With the same nodes, the same sum.
LEMMA SizesFrame == ASSUME nodes' = nodes PROVE SizesBelow' = SizesBelow
BY DEF SizesBelow

\* Sets of words are finite.
LEMMA WordCount ==
  ASSUME NEW W, W \subseteq Word
  PROVE  /\ IsFiniteSet(W) /\ Cardinality(W) \in Nat
         /\ \A x : x \notin W => Cardinality(W \cup {x}) = Cardinality(W) + 1
         /\ \A x \in W : Cardinality(W \ {x}) = Cardinality(W) - 1
<1>1. IsFiniteSet(Word)
  BY MemoryAssumption, FS_Interval DEF Word
<1>2. IsFiniteSet(W)
  <2>1. W \in SUBSET Word
    OBVIOUS
  <2> QED BY <1>1, <2>1, FS_Subset
<1> QED BY <1>2, FS_CardinalityType, FS_AddElement, FS_RemoveElement

\* A word more or less is counted.
LEMMA WordsCounted ==
  ASSUME IInv, Accounting
  PROVE  /\ \A x : x \notin words /\ words' = words \cup {x} /\ dyn_used' = dyn_used + 1
                   => dyn_used' = Cardinality(words')
         /\ \A x \in words : words' = words \ {x} /\ dyn_used' = dyn_used - 1
                             => dyn_used' = Cardinality(words')
<1>1. words \subseteq Word /\ dyn_used = Cardinality(words)
  BY DEF IInv, TypeOK, Accounting
<1>2. /\ \A x : x \notin words => Cardinality(words \cup {x}) = Cardinality(words) + 1
      /\ \A x \in words : Cardinality(words \ {x}) = Cardinality(words) - 1
  BY <1>1, WordCount
<1> QED BY <1>1, <1>2

\* No step of the allocator or its users loses a location in the statistics.
LEMMA StatsHold ==
  ASSUME IInv, Accounting, [Next]_vars
  PROVE  Accounting'
<1> USE MemoryAssumption
<1> DEFINE M == mem_max + 1
<1>0. /\ dyn_used = Cardinality(words)
      /\ var_used = lo_mem_stat_max + 1 + SizesBelow[M] /\ SizesBelow[M] \in Int
      /\ lo_mem_stat_max \in Nat
  <2>1. 0 \in Word
    BY DEF Word
  <2> QED BY <2>1, NodeCounted DEF Accounting
<1> HIDE DEF M
<1>1. ASSUME UNCHANGED <<dyn_used, var_used, words, nodes>> PROVE Accounting'
  BY <1>0, <1>1, SizesFrame DEF Accounting, M
<1>2. ASSUME NEW r \in Word, r \notin DOMAIN nodes, NEW n \in Nat,
             nodes' = [x \in DOMAIN nodes \cup {r} |-> IF x = r THEN n ELSE nodes[x]],
             var_used' = var_used + n, UNCHANGED <<dyn_used, words>>
      PROVE  Accounting'
  <2>1. SizesBelow'[M] = SizesBelow[M] + n
    BY <1>2, NodeCounted DEF M
  <2>2. M' = M
    BY DEF M
  <2>3. var_used' = lo_mem_stat_max + 1 + SizesBelow'[M]
    BY <1>0, <1>2, <2>1
  <2> QED BY <1>0, <1>2, <2>3 DEF Accounting, M
<1>3. ASSUME NEW x, x \notin words, words' = words \cup {x}, dyn_used' = dyn_used + 1,
             UNCHANGED <<var_used, nodes>>
      PROVE  Accounting'
  BY <1>0, <1>3, WordsCounted, SizesFrame DEF Accounting, M
<1>4. CASE AllocateFromTop
  <2>1. q - s \in Word /\ q - s \notin DOMAIN nodes /\ s \in Nat
    BY <1>4, TopFacts DEF Node
  <2> QED BY <1>2, <1>4, <2>1 DEF AllocateFromTop, Found
<1>5. CASE AllocateEntire
  <2>1. p \in Word /\ p \notin DOMAIN nodes
    BY <1>5 DEF IInv, RingOK, Tiled, TypeOK, AllocateEntire
  <2>2. s \in Nat
    BY DEF IInv, TypeOK
  <2> QED BY <1>2, <1>5, <2>1, <2>2 DEF AllocateEntire, Found
<1>6. CASE PopAvail
  <2>1. avail \notin words
    BY <1>6, AvailFacts DEF PopAvail, FreeWords
  <2> QED BY <1>3, <1>6, <2>1 DEF PopAvail, Take
<1>7. CASE VirginTop
  <2>1. words \subseteq hi_mem_min..mem_end /\ mem_end \in Nat /\ hi_mem_min \in Nat
    BY DEF IInv, AvailOK, TypeOK, Word
  <2>2. mem_end + 1 \notin words
    BY <2>1
  <2> QED BY <1>3, <1>7, <2>2 DEF VirginTop, Take
<1>8. CASE VirginBottom
  <2>1. words \subseteq hi_mem_min..mem_end /\ mem_end \in Nat /\ hi_mem_min \in Nat
    BY DEF IInv, AvailOK, TypeOK, Word
  <2>2. hi_mem_min - 1 \notin words
    BY <2>1
  <2>3. CASE hi_mem_min' <= lo_mem_max
    BY <1>1, <1>8, <2>3 DEF VirginBottom
  <2>4. CASE ~(hi_mem_min' <= lo_mem_max)
    BY <1>3, <1>8, <2>2, <2>4 DEF VirginBottom, Take
  <2> QED BY <2>3, <2>4
<1>9. ASSUME NEW x \in words, free_avail(x) PROVE Accounting'
  <2>1. dyn_used' = Cardinality(words')
    BY <1>9, WordsCounted DEF free_avail
  <2> QED BY <1>0, <1>9, <2>1, SizesFrame DEF Accounting, M, free_avail
<1>10. ASSUME NEW x \in DOMAIN nodes, free_node(x) PROVE Accounting'
  <2>1. x \in Word /\ nodes[x] \in Int
    <3>1. x \in Word /\ nodes[x] \in Sizes
      BY DEF IInv, TypeOK
    <3>2. \A z \in Sizes : z \in Int
      OBVIOUS
    <3> QED BY ONLY <3>1, <3>2
  <2>2. /\ nodes' = [y \in DOMAIN nodes \ {x} |-> nodes[y]] /\ var_used' = var_used - nodes[x]
        /\ UNCHANGED <<dyn_used, words>>
    BY <1>10 DEF free_node
  <2>3. SizesBelow'[M] = SizesBelow[M] - nodes[x]
    <3>1. 0 \in Nat
      OBVIOUS
    <3> QED BY <2>1, <2>2, <3>1, NodeCounted DEF M
  <2>4. var_used' = lo_mem_stat_max + 1 + SizesBelow'[M]
    BY <1>0, <2>1, <2>2, <2>3
  <2> QED BY <1>0, <2>2, <2>4 DEF Accounting, M
<1>11. CASE MergeSuccessor \/ NextInRing \/ MergedAll \/ Grow \/ NodeOverflow
  BY <1>1, <1>11 DEF MergeSuccessor, NextInRing, MergedAll, Grow, NodeOverflow
<1>12. ASSUME NEW n \in Sizes \cup {MergeOnly}, get_node(n) PROVE Accounting'
  BY <1>1, <1>12 DEF get_node
<1>13. CASE Use
  BY <1>1, <1>13 DEF Use, UseNode
<1>14. CASE UNCHANGED vars
  BY <1>1, <1>14 DEF vars
<1> QED BY <1>4, <1>5, <1>6, <1>7, <1>8, <1>9, <1>10, <1>11, <1>12, <1>13, <1>14
        DEF Next, NodeSteps, Requests, get_avail

\* The memory starts with the static words counted.
LEMMA StatsStart == Init => Accounting
<1> SUFFICES ASSUME Init PROVE Accounting
  OBVIOUS
<1>1. dyn_used = Cardinality(words)
  <2>1. words = (mem_top - 2)..mem_top /\ mem_top \in Nat /\ dyn_used = mem_top + 1 - (mem_top - 2)
    BY MemoryAssumption DEF Init, StaticHigh
  <2>2. Cardinality((mem_top - 2)..mem_top) = mem_top - (mem_top - 2) + 1
    <3>1. mem_top - 2 \in Int /\ mem_top \in Int /\ mem_top - 2 <= mem_top
      BY <2>1
    <3> QED BY <3>1, FS_Interval
  <2> QED BY <2>1, <2>2
<1>2. SizesBelow[mem_max + 1] = 0
  <2>1. mem_max + 1 \in Nat /\ DOMAIN nodes = {}
    BY MemoryAssumption DEF Init
  <2> QED BY <2>1, SizesAre, SumNothing
<1>3. var_used = lo_mem_stat_max + 1 /\ lo_mem_stat_max \in Nat
  BY MemoryAssumption DEF Init
<1> QED BY <1>1, <1>2, <1>3 DEF Accounting

\* Whatever is requested and freed, dyn_used and var_used count exactly the
\* one-word and the variable-size locations that somebody holds.
THEOREM StatisticsExact == Spec => []Accounting
<1>1. IInv /\ Accounting /\ [Next]_vars => Accounting'
  BY StatsHold
<1> QED BY <1>1, StatsStart, Invariance, PTL DEF Spec

-----------------------------------------------------------------------------
(* The links of the nodes that lists are made of.                          *)

\* No step but those that take or free it writes in a one-word node.
LEMMA WordSpared ==
  ASSUME IInv, [Next]_vars, NEW w \in words, w \in words'
  PROVE  link'[w] = link[w]
<1> USE MemoryAssumption
<1>0. /\ link \in [Word -> HalfWord] /\ w \in Word /\ w \in Nat
      /\ hi_mem_min <= w /\ w <= mem_end /\ mem_end \in Nat /\ hi_mem_min \in Nat
      /\ pc # "overflow" => lo_mem_max < hi_mem_min
      /\ lo_mem_max \in Nat
  <2>1. /\ link \in [Word -> HalfWord] /\ w \in Word /\ hi_mem_min \in Word /\ mem_end \in Word
        /\ lo_mem_max \in Word
    BY DEF IInv, TypeOK
  <2>2. w \in hi_mem_min..mem_end
    BY DEF IInv, AvailOK
  <2> QED BY <2>1, <2>2 DEF Word, IInv, Ordered
<1>r. pc # "overflow" => \A x \in Node : x + 1 < w /\ x # w /\ x \in Nat
  <2>1. \A x \in Node : x \in Nat /\ x + 1 < lo_mem_max
    BY NodePlace
  <2> QED BY <1>0, <2>1
<1>1. CASE MergeSuccessor
  <2>1. link' = [link EXCEPT ![llink(q) + 1] = rlink(q)] /\ llink(q) \in Node /\ pc = "try"
    BY <1>1, MergeFacts DEF Node
  <2>2. llink(q) + 1 # w
    BY <1>0, <1>r, <2>1
  <2> QED BY <1>0, <2>1, <2>2
<1>2. CASE AllocateFromTop
  <2>1. link' = [link EXCEPT ![q - s] = 0] /\ pc = "try"
    BY <1>2 DEF AllocateFromTop, Found
  <2>2. q - s # w
    <3>1. q \in Nat /\ s \in Nat /\ q <= lo_mem_max
      BY <1>2, TopFacts
    <3> QED BY <1>0, <2>1, <3>1
  <2> QED BY <1>0, <2>1, <2>2
<1>3. CASE AllocateEntire
  <2>1. p \in ring /\ pc = "try"
    BY <1>3 DEF AllocateEntire, IInv, RingOK
  <2>2. llink(p) \in Node /\ p \in Node
    BY <2>1, RingNeighbours DEF Node
  <2>3. llink(p) + 1 # w /\ p # w
    BY <1>0, <1>r, <2>1, <2>2
  <2> QED BY <1>0, <1>3, <2>3 DEF AllocateEntire, Found
<1>4. CASE NextInRing \/ MergedAll \/ NodeOverflow
  BY <1>4 DEF NextInRing, MergedAll, NodeOverflow, heap
<1>5. CASE Grow
  <2>1. rover \in ring /\ llink(rover) \in Node /\ pc = "full"
    BY <1>5, RingNeighbours DEF IInv, RingOK, Node, Grow
  <2>2. /\ lo_mem_max' \in Nat /\ lo_mem_max' < hi_mem_min /\ lo_mem_max + 2 <= lo_mem_max'
        /\ link' = [link EXCEPT ![llink(rover) + 1] = lo_mem_max,
                       ![lo_mem_max + 1] = rover, ![lo_mem_max] = empty_flag,
                       ![lo_mem_max'] = 0]
    BY <1>5, GrowWrites
  <2>3. w # llink(rover) + 1
    BY <1>r, <2>1
  <2>4. w # lo_mem_max + 1 /\ w # lo_mem_max /\ w # lo_mem_max'
    BY <1>0, <2>2
  <2> QED BY <1>0, <2>2, <2>3, <2>4
<1>6. CASE PopAvail
  <2>1. avail # w
    BY <1>6, AvailFacts DEF PopAvail, FreeWords
  <2> QED BY <1>0, <1>6, <2>1 DEF PopAvail, Take
<1>7. CASE VirginTop
  <2>1. mem_end + 1 # w
    BY <1>0
  <2> QED BY <1>0, <1>7, <2>1 DEF VirginTop, Take
<1>8. CASE VirginBottom
  <2>1. hi_mem_min - 1 # w
    BY <1>0
  <2> QED BY <1>0, <1>8, <2>1 DEF VirginBottom, Take
<1>9. ASSUME NEW x \in words, free_avail(x) PROVE link'[w] = link[w]
  <2>1. x # w
    BY <1>9 DEF free_avail
  <2> QED BY <1>0, <1>9, <2>1 DEF free_avail
<1>10. ASSUME NEW n \in Sizes \cup {MergeOnly}, get_node(n) PROVE link'[w] = link[w]
  BY <1>10 DEF get_node, heap
<1>11. ASSUME NEW x \in DOMAIN nodes, free_node(x) PROVE link'[w] = link[w]
  <2>1. rover \in ring /\ llink(rover) \in Node /\ x \in Node /\ pc = "idle"
    BY <1>11, RingNeighbours DEF IInv, RingOK, Node, free_node
  <2>2. w # x /\ w # x + 1 /\ w # llink(rover) + 1
    BY <1>0, <1>r, <2>1
  <2> QED BY <1>0, <1>11, <2>2 DEF free_node
<1>12. ASSUME NEW d \in DOMAIN nodes, UseNode(d) PROVE link'[w] = link[w]
  <2>1. pc = "idle" /\ d \in Node /\ d \notin ring
    BY <1>12 DEF UseNode, Node, IInv, Tiled
  <2>2. End(d) = d + nodes[d] /\ d \in Nat /\ nodes[d] \in Int /\ End(d) <= lo_mem_max
    BY <2>1, NodePlace, NodeOrder DEF End, SizeOf
  <2>3. w \notin Span(d + 1, nodes[d] - 1)
    BY <1>0, <2>1, <2>2 DEF Span
  <2> QED BY <1>0, <1>12, <2>3 DEF UseNode
<1>13. CASE UNCHANGED vars
  BY <1>13 DEF vars
<1> QED
  BY <1>1, <1>2, <1>3, <1>4, <1>5, <1>6, <1>7, <1>8, <1>9, <1>10, <1>11, <1>12, <1>13
  DEF Next, NodeSteps, Requests, Use, get_avail

\* What is new to the program has a null link; what it keeps, it keeps as it is.
LEMMA HeldChanges ==
  ASSUME IInv, [Next]_vars
  PROVE  /\ words' = words \/ nodes' = nodes
         /\ \A x \in words' \ words : link'[x] = 0
         /\ \A x \in DOMAIN nodes' \ DOMAIN nodes : link'[x] = 0
         /\ \A x \in DOMAIN nodes \cap DOMAIN nodes' : nodes'[x] = nodes[x]
         /\ pc = "overflow" => pc' = "overflow"
<1> USE MemoryAssumption
<1>0. link \in [Word -> HalfWord]
  BY DEF IInv, TypeOK
<1>1. ASSUME UNCHANGED <<words, nodes>>, pc # "overflow" \/ pc' = pc
      PROVE  /\ words' = words \/ nodes' = nodes
             /\ \A x \in words' \ words : link'[x] = 0
             /\ \A x \in DOMAIN nodes' \ DOMAIN nodes : link'[x] = 0
             /\ \A x \in DOMAIN nodes \cap DOMAIN nodes' : nodes'[x] = nodes[x]
             /\ pc = "overflow" => pc' = "overflow"
  BY <1>1
<1>2. CASE AllocateFromTop
  <2>1. q - s \in Word
    BY <1>2, TopFacts
  <2>2. /\ link' = [link EXCEPT ![q - s] = 0] /\ words' = words /\ pc = "try"
        /\ nodes' = [x \in DOMAIN nodes \cup {q - s} |-> IF x = q - s THEN s ELSE nodes[x]]
    BY <1>2 DEF AllocateFromTop, Found
  <2>3. q - s \notin DOMAIN nodes
    BY <1>2, TopFacts DEF Node
  <2> HIDE DEF IInv
  <2> QED BY <1>0, <2>1, <2>2, <2>3
<1>3. CASE AllocateEntire
  <2>1. p \in Word /\ p \notin DOMAIN nodes
    BY <1>3 DEF IInv, RingOK, Tiled, TypeOK, AllocateEntire
  <2>2. /\ link' = [link EXCEPT ![llink(p) + 1] = rlink(p), ![p] = 0] /\ words' = words /\ pc = "try"
        /\ nodes' = [x \in DOMAIN nodes \cup {p} |-> IF x = p THEN s ELSE nodes[x]]
    BY <1>3 DEF AllocateEntire, Found
  <2> QED BY <1>0, <2>1, <2>2
<1>4. ASSUME NEW w \in Word, link' = [link EXCEPT ![w] = 0], words' = words \cup {w}, nodes' = nodes,
             pc = "idle"
      PROVE  /\ words' = words \/ nodes' = nodes
             /\ \A x \in words' \ words : link'[x] = 0
             /\ \A x \in DOMAIN nodes' \ DOMAIN nodes : link'[x] = 0
             /\ \A x \in DOMAIN nodes \cap DOMAIN nodes' : nodes'[x] = nodes[x]
             /\ pc = "overflow" => pc' = "overflow"
  BY <1>0, <1>4
<1>5. CASE PopAvail
  <2>1. avail \in Word
    BY DEF IInv, TypeOK
  <2> QED BY <1>4, <1>5, <2>1 DEF PopAvail, Take
<1>6. CASE VirginTop
  <2>1. mem_end + 1 \in Word
    BY <1>6 DEF IInv, TypeOK, Word, VirginTop
  <2> QED BY <1>4, <1>6, <2>1 DEF VirginTop, Take
<1>7. CASE VirginBottom
  <2>1. CASE hi_mem_min' <= lo_mem_max
    BY <1>1, <1>7, <2>1 DEF VirginBottom
  <2>2. CASE ~(hi_mem_min' <= lo_mem_max)
    <3>1. hi_mem_min' \in Word
      <4>1. hi_mem_min \in Word /\ lo_mem_max \in Word /\ hi_mem_min' = hi_mem_min - 1
        BY <1>7 DEF VirginBottom, IInv, TypeOK
      <4> QED BY <2>2, <4>1 DEF Word
    <3> QED BY <1>4, <1>7, <2>2, <3>1 DEF VirginBottom, Take
  <2> QED BY <2>1, <2>2
<1>8. ASSUME NEW x \in words, free_avail(x)
      PROVE  words' \subseteq words /\ nodes' = nodes /\ pc = "idle"
  BY <1>8 DEF free_avail
<1>9. ASSUME NEW x \in DOMAIN nodes, free_node(x)
      PROVE  words' = words /\ nodes' = [y \in DOMAIN nodes \ {x} |-> nodes[y]] /\ pc = "idle"
  BY <1>9 DEF free_node
<1>10. CASE MergeSuccessor \/ NextInRing \/ MergedAll \/ Grow \/ NodeOverflow
  BY <1>1, <1>10 DEF MergeSuccessor, NextInRing, MergedAll, Grow, NodeOverflow
<1>11. CASE \E n \in Sizes \cup {MergeOnly} : get_node(n)
  BY <1>1, <1>11 DEF get_node
<1>12. CASE Use
  BY <1>1, <1>12 DEF Use, UseNode
<1>13. CASE UNCHANGED vars
  BY <1>1, <1>13 DEF vars
<1>14. CASE \E x \in words : free_avail(x)
  BY <1>8, <1>14
<1>15. CASE \E x \in DOMAIN nodes : free_node(x)
  BY <1>9, <1>15
<1> QED BY <1>2, <1>3, <1>5, <1>6, <1>7, <1>10, <1>11, <1>12, <1>13, <1>14, <1>15
        DEF Next, NodeSteps, Requests, get_avail

\* The two kinds of nodes in lists lie apart, and apart from the ends of lists.
Places ==
    /\ \A x \in Node : x \in Nat /\ x \in Word /\ x + 1 < lo_mem_max
    /\ \A x, y \in Node : x # y + 1
    /\ \A x \in words : x \notin DOMAIN nodes /\ hi_mem_min <= x
    /\ \A x \in DOMAIN nodes : x < hi_mem_min
    /\ \A x \in Member : /\ x \in Word /\ x \in Nat /\ x # 0 /\ x # sentinel /\ x \notin FreeWords
                         /\ (x \in Free <=> hi_mem_min <= x)
                         /\ (x \in DOMAIN nodes <=> x < hi_mem_min)
    /\ 0 \notin FreeWords /\ sentinel \notin FreeWords
    /\ lo_mem_max \in Nat /\ hi_mem_min \in Nat /\ mem_end \in Nat /\ lo_mem_max < hi_mem_min
    /\ 0 \in Word /\ sentinel \in Word

\* They do in every state of the allocator.
LEMMA MemberPlace == ASSUME IInv, pc # "overflow" PROVE Places
<1> USE MemoryAssumption
<1>1. /\ lo_mem_max \in Nat /\ hi_mem_min \in Nat /\ lo_mem_max < hi_mem_min
      /\ hi_mem_min <= mem_top - 2 /\ mem_end \in Nat
  BY DEF IInv, TypeOK, Word, Ordered
<1>2. \A x \in DOMAIN nodes : x \in Nat /\ x \in Word /\ lo_mem_stat_max < x /\ x < lo_mem_max
  <2>1. \A x \in Node : x \in Nat /\ x \in Word /\ lo_mem_stat_max < x /\ x + 1 < lo_mem_max
    BY NodePlace
  <2> QED BY <1>1, <2>1 DEF Node
<1>3. \A x \in words : x \in Nat /\ x \in Word /\ hi_mem_min <= x
  BY DEF IInv, AvailOK, TypeOK, Word
<1>4. sentinel \in StaticHigh /\ StaticHigh \subseteq words
  BY DEF StaticHigh, IInv, AvailOK
<1>5. \A x \in DOMAIN nodes : x < hi_mem_min /\ x # 0 /\ x # sentinel
  BY <1>1, <1>2
<1>6. 0 \in Word /\ sentinel \in Word
  BY DEF Word
<1>7. \A x \in DOMAIN nodes : x \notin FreeWords
  <2>1. \A x \in FreeWords : x \in hi_mem_min..mem_end
    BY DEF FreeWords
  <2>2. \A x \in FreeWords : hi_mem_min <= x
    BY <1>1, <2>1
  <2>3. \A x \in DOMAIN nodes : ~(hi_mem_min <= x)
    BY <1>1, <1>2, <1>5
  <2> QED BY <2>2, <2>3
<1>8. 0 \notin FreeWords /\ sentinel \notin FreeWords
  BY <1>1, <1>4 DEF FreeWords
<1>9. \A x \in words : x \notin DOMAIN nodes /\ x # 0
  BY <1>1, <1>2, <1>3, <1>5
<1>10. \A x \in Free : x # sentinel /\ x \in words /\ x \notin FreeWords
  BY <1>4 DEF Free, FreeWords
<1>11. ASSUME NEW x \in Member
       PROVE  /\ x \in Word /\ x \in Nat /\ x # 0 /\ x # sentinel /\ x \notin FreeWords
              /\ (x \in Free <=> hi_mem_min <= x)
              /\ (x \in DOMAIN nodes <=> x < hi_mem_min)
  <2>1. x \in Free \/ x \in DOMAIN nodes
    BY DEF Member
  <2>2. CASE x \in Free
    BY <1>1, <1>3, <1>9, <1>10, <2>2
  <2>3. CASE x \in DOMAIN nodes
    BY <1>1, <1>2, <1>5, <1>7, <1>9, <1>10, <2>3
  <2> QED BY <2>1, <2>2, <2>3
<1>12. \A x, y \in Node : x # y + 1
  BY NodePlace
<1>13. \A x \in Node : x \in Nat /\ x \in Word /\ x + 1 < lo_mem_max
  BY NodePlace
<1> QED BY <1>1, <1>3, <1>5, <1>6, <1>8, <1>9, <1>11, <1>12, <1>13 DEF Places

\* Lists end at null or at sentinel and share no node.
Ends == {null, sentinel}
Linked == /\ \A x \in Member : link[x] \in Member \cup Ends
          /\ \A x, y \in Member : link[x] = link[y] /\ x # y => link[x] \in Ends

\* The nodes in a list keep their links through every step of the allocator,
\* and those it is given are in no list.
LEMMA MembersAfter ==
  ASSUME IInv, [Next]_vars, pc' # "overflow"
  PROVE  /\ \A x \in Member' : link'[x] = 0 \/ (x \in Member /\ link'[x] = link[x])
         /\ \A x \in Member : x \in DOMAIN nodes' \cup words' => x \in Member'
         /\ \A x \in Member : (x \in words /\ x \in words') \/ (x \in DOMAIN nodes /\ x \in DOMAIN nodes')
                              => link'[x] = link[x]
         /\ pc # "overflow"
<1> USE MemoryAssumption
<1>1. pc # "overflow"
  BY HeldChanges
<1>2. ASSUME NEW x \in DOMAIN nodes, x \in DOMAIN nodes' PROVE link'[x] = link[x]
  <2>1. CASE UseNode(x)
    <3>1. x \in Word /\ x \in Nat /\ nodes[x] \in Nat
      <4>1. x \in Word /\ nodes[x] \in Sizes
        BY DEF IInv, TypeOK
      <4>2. \A z \in Sizes : z \in Nat
        OBVIOUS
      <4>3. \A z \in Word : z \in Nat
        BY DEF Word
      <4> QED BY ONLY <4>1, <4>2, <4>3
    <3>2. x \notin Span(x + 1, nodes[x] - 1)
      BY <3>1 DEF Span
    <3> QED BY <2>1, <3>1, <3>2 DEF UseNode
  <2>2. CASE ~UseNode(x)
    <3>1. x \in Span(x, nodes[x])
      <4>1. x \in Word /\ nodes[x] \in Sizes
        BY DEF IInv, TypeOK
      <4>2. \A z \in Sizes : z \in Nat /\ 2 <= z
        OBVIOUS
      <4>3. \A z \in Word : z \in Nat
        BY DEF Word
      <4>4. x \in Nat /\ nodes[x] \in Nat /\ 2 <= nodes[x]
        BY ONLY <4>1, <4>2, <4>3
      <4> QED BY ONLY <4>4 DEF Span
    <3> QED BY <1>2, <2>2, <3>1, StepSpares
  <2> QED BY <2>1, <2>2
<1>3. \A x \in Member : (x \in words /\ x \in words') \/ (x \in DOMAIN nodes /\ x \in DOMAIN nodes')
                        => link'[x] = link[x]
  BY <1>2, WordSpared
<1>4. ASSUME NEW x \in Member' PROVE link'[x] = 0 \/ (x \in Member /\ link'[x] = link[x])
  <2>1. CASE x \in words' /\ x \notin StaticHigh
    <3>1. CASE x \in words
      BY <2>1, <3>1, WordSpared DEF Member, Free
    <3>2. CASE x \notin words
      BY <2>1, <3>2, HeldChanges
    <3> QED BY <3>1, <3>2
  <2>2. CASE x \in DOMAIN nodes' /\ nodes'[x] = 2
    <3>1. CASE x \in DOMAIN nodes
      <4>1. nodes[x] = 2
        BY <2>2, <3>1, HeldChanges
      <4> QED BY <1>2, <2>2, <3>1, <4>1 DEF Member
    <3>2. CASE x \notin DOMAIN nodes
      BY <2>2, <3>2, HeldChanges
    <3> QED BY <3>1, <3>2
  <2> QED BY <1>4, <2>1, <2>2 DEF Member, Free, StaticHigh
<1>5. ASSUME NEW x \in Member, x \in DOMAIN nodes' \cup words' PROVE x \in Member'
  <2>1. CASE x \in words /\ x \notin StaticHigh
    <3>1. x \notin DOMAIN nodes
      BY <1>1, <2>1, MemberPlace DEF Places
    <3>2. x \in words'
      BY <1>5, <2>1, <3>1, HeldChanges
    <3> QED BY <2>1, <3>2 DEF Member, Free, StaticHigh
  <2>2. CASE x \in DOMAIN nodes /\ nodes[x] = 2
    <3>1. x \notin words
      BY <1>1, <2>2, MemberPlace DEF Places
    <3>2. x \in DOMAIN nodes'
      BY <1>5, <2>2, <3>1, HeldChanges
    <3>3. nodes'[x] = 2
      BY <2>2, <3>2, HeldChanges
    <3> QED BY <3>2, <3>3 DEF Member
  <2> QED BY <2>1, <2>2 DEF Member, Free
<1> QED BY <1>1, <1>3, <1>4, <1>5

\* A routine that lets go of loose nodes only leaves the lists as they should be.
LEMMA LooseKeepsLists ==
  ASSUME IInv, [Next]_vars, pc' # "overflow", Loose, Linked
  PROVE  Linked'
<1>1. \A x \in Member' : link'[x] = 0 \/ (x \in Member /\ link'[x] = link[x])
  BY MembersAfter
<1>2. \A x, y \in Member : link[x] = y => y \in Member'
  BY MembersAfter DEF Loose, Pointed
<1>3. \A x \in Member' : link'[x] \in Member' \cup Ends
  <2> TAKE x \in Member'
  <2>1. CASE link'[x] = 0
    BY <2>1 DEF Ends
  <2>2. CASE x \in Member /\ link'[x] = link[x]
    <3>1. link[x] \in Member \cup Ends
      BY <2>2 DEF Linked
    <3> QED BY <1>2, <2>2, <3>1
  <2> QED BY <1>1, <2>1, <2>2
<1>4. \A x, y \in Member' : link'[x] = link'[y] /\ x # y => link'[x] \in Ends
  <2> SUFFICES ASSUME NEW x \in Member', NEW y \in Member', link'[x] = link'[y], x # y
               PROVE  link'[x] \in Ends
    OBVIOUS
  <2>1. CASE link'[x] = 0
    BY <2>1 DEF Ends
  <2>2. CASE link'[x] # 0
    <3>1. x \in Member /\ y \in Member /\ link'[x] = link[x] /\ link'[y] = link[y]
      BY <1>1, <2>2
    <3> QED BY <3>1 DEF Linked
  <2> QED BY <2>1, <2>2
<1> HIDE DEF Ends
<1>5. Ends' = Ends
  BY DEF Ends
<1> QED BY <1>3, <1>4, <1>5 DEF Linked

-----------------------------------------------------------------------------
(* flush_list.                                                             *)

\* The invariant without the avail list, and with it.
Rest == /\ TypeOK /\ Ordered /\ Tiled /\ RingOK /\ FlagsOK
        /\ words \subseteq hi_mem_min..mem_end /\ StaticHigh \subseteq words

AvailList(A) ==
    /\ avail \in A \cup {0}
    /\ \A x \in A : link[x] \in A \cup {0} /\ link[x] # avail
    /\ \A x, y \in A : link[x] = link[y] /\ x # y => link[x] = 0
    /\ \A S \in SUBSET A : avail \in S \cup {0} /\ (\A x \in S : link[x] \in S \cup {0}) => S = A

\* The words of W are linked in a row that begins at c and leads to e.
Chain(W, c, e) ==
    /\ c \in W \cup {e} /\ e \notin W
    /\ \A x \in W : link[x] \in W \cup {e} /\ link[x] # c
    /\ \A x, y \in W : link[x] = link[y] => x = y
    /\ \A S \in SUBSET W : c \in S \cup {e} /\ (\A x \in S : link[x] \in S \cup {e}) => S = W

\* The words flush_list has passed are free, though not on the avail list yet.
Flushed(W) ==
    /\ W \subseteq FreeWords /\ Chain(W, h, b) /\ AvailList(FreeWords \ W)
    /\ W # {} => a \in W /\ link[a] = b

\* The rest and the avail list are the invariant.
LEMMA RestIs ==
  ASSUME pc # "overflow"
  PROVE  IInv <=> Rest /\ AvailList(FreeWords)
<1>1. IInv => Rest /\ AvailList(FreeWords)
  BY DEF IInv, Rest, AvailOK, AvailList
<1>2. Rest /\ AvailList(FreeWords) => IInv
  BY DEF IInv, Rest, AvailOK, AvailList
<1> QED BY <1>1, <1>2

\* One word more at the end of a chain.
LEMMA ChainGrows ==
  ASSUME NEW W, Chain(W, h, b), W # {} => a \in W /\ link[a] = b,
         link[b] \notin W \cup {b}
  PROVE  Chain(W \cup {b}, h, link[b])
<1> DEFINE e == link[b]  U == W \cup {b}
<1>1. h \in U /\ e \notin U
  BY DEF Chain
<1>2. \A x \in U : link[x] \in U \cup {e} /\ link[x] # h
  <2>1. \A x \in W : link[x] \in U /\ link[x] # h
    BY DEF Chain
  <2> QED BY <1>1, <2>1
<1>3. \A x, y \in U : link[x] = link[y] => x = y
  <2>1. \A x \in W : link[x] \in U
    BY DEF Chain
  <2>2. \A x, y \in W : link[x] = link[y] => x = y
    BY DEF Chain
  <2> QED BY <1>1, <2>1, <2>2
<1>4. ASSUME NEW S \in SUBSET U, h \in S \cup {e}, \A x \in S : link[x] \in S \cup {e}
      PROVE  S = U
  <2>1. h \in S
    BY <1>1, <1>4
  <2> DEFINE T == S \ {b}
  <2>2. T \in SUBSET W /\ h \in T \cup {b}
    BY <1>4, <2>1
  <2>3. \A x \in T : link[x] \in T \cup {b}
    <3> TAKE x \in T
    <3>1. link[x] \in S \cup {e} /\ x \in W
      BY <1>4
    <3>2. link[x] \in W \cup {b}
      BY <3>1 DEF Chain
    <3> QED BY <1>1, <3>1, <3>2
  <2>4. T = W
    <3> HIDE DEF T
    <3> QED BY <2>2, <2>3 DEF Chain
  <2>5. b \in S
    <3>1. CASE W = {}
      BY <2>1, <3>1 DEF Chain
    <3>2. CASE W # {}
      <4>1. a \in T /\ link[a] = b
        BY <2>4, <3>2
      <4>2. link[a] \in S \cup {e}
        BY <1>4, <4>1
      <4> QED BY <1>1, <4>1, <4>2
    <3> QED BY <3>1, <3>2
  <2> QED BY <2>4, <2>5
<1> QED BY <1>1, <1>2, <1>3, <1>4 DEF Chain

\* The chain put in front of the avail list makes it whole again.
LEMMA SpliceWhole ==
  ASSUME NEW W, Flushed(W), W # {}, 0 \notin FreeWords, FreeWords' = FreeWords,
         FreeWords \subseteq Word, link \in [Word -> HalfWord],
         link' = [link EXCEPT ![a] = avail], avail' = h
  PROVE  AvailList(FreeWords)'
<1> DEFINE A == FreeWords \ W
<1>1. /\ a \in W /\ link[a] = b /\ W \subseteq FreeWords /\ h \in W /\ h # 0
      /\ A \cap W = {} /\ FreeWords = W \cup A /\ 0 \notin W /\ 0 \notin A
  <2>1. a \in W /\ link[a] = b /\ W \subseteq FreeWords
    BY DEF Flushed
  <2>2. h \in W
    <3>1. h \in W \cup {b} /\ link[a] # h
      BY <2>1 DEF Flushed, Chain
    <3> QED BY <2>1, <3>1
  <2> QED BY <2>1, <2>2
<1>2. /\ link'[a] = avail
      /\ \A x \in W : x # a => link'[x] = link[x] /\ link[x] \in W /\ link[x] # h
      /\ \A x \in A : link'[x] = link[x]
      /\ \A x, y \in W : link[x] = link[y] => x = y
  <2>1. a \in Word /\ \A x \in FreeWords : x # a => link'[x] = link[x]
    BY <1>1
  <2>2. \A x, y \in W : link[x] = link[y] => x = y
    BY DEF Flushed, Chain
  <2>3. \A x \in W : link[x] \in W \cup {b} /\ link[x] # h
    BY DEF Flushed, Chain
  <2>4. link'[a] = avail
    BY <2>1
  <2> QED BY <1>1, <2>1, <2>2, <2>3, <2>4
<1>3. /\ avail \in A \cup {0}
      /\ \A x \in A : link[x] \in A \cup {0} /\ link[x] # avail
      /\ \A x, y \in A : link[x] = link[y] /\ x # y => link[x] = 0
  BY DEF Flushed, AvailList
<1>4. \A S \in SUBSET A : avail \in S \cup {0} /\ (\A x \in S : link[x] \in S \cup {0}) => S = A
  BY DEF Flushed, AvailList
<1>5. \A S \in SUBSET W : h \in S \cup {b} /\ (\A x \in S : link[x] \in S \cup {b}) => S = W
  BY DEF Flushed, Chain
<1> HIDE DEF A
<1>6. \A x \in FreeWords : link'[x] \in FreeWords \cup {0} /\ link'[x] # h
  <2> TAKE x \in FreeWords
  <2>1. CASE x = a
    BY <1>1, <1>2, <1>3, <2>1
  <2>2. CASE x \in W /\ x # a
    BY <1>1, <1>2, <2>2
  <2>3. CASE x \in A
    BY <1>1, <1>2, <1>3, <2>3
  <2> QED BY <1>1, <2>1, <2>2, <2>3
<1>7. \A x, y \in FreeWords : link'[x] = link'[y] /\ x # y => link'[x] = 0
  <2> SUFFICES ASSUME NEW x \in FreeWords, NEW y \in FreeWords, link'[x] = link'[y], x # y
               PROVE  link'[x] = 0
    OBVIOUS
  <2>1. CASE x \in A /\ y \in A
    BY <1>2, <1>3, <2>1
  <2>2. CASE x \in W /\ y \in W
    BY <1>1, <1>2, <1>3, <2>2
  <2>3. CASE x \in A /\ y \in W
    BY <1>1, <1>2, <1>3, <2>3
  <2>4. CASE x \in W /\ y \in A
    BY <1>1, <1>2, <1>3, <2>4
  <2> QED BY <1>1, <2>1, <2>2, <2>3, <2>4
<1>8. ASSUME NEW S \in SUBSET FreeWords, h \in S \cup {0}, \A x \in S : link'[x] \in S \cup {0}
      PROVE  S = FreeWords
  <2>1. S \cap W \in SUBSET W /\ h \in (S \cap W) \cup {b}
    BY <1>1, <1>8
  <2>2. \A x \in S \cap W : link[x] \in (S \cap W) \cup {b}
    <3> TAKE x \in S \cap W
    <3>1. CASE x = a
      BY <1>1, <3>1
    <3>2. CASE x # a
      BY <1>1, <1>2, <1>8, <3>2
    <3> QED BY <3>1, <3>2
  <2>3. S \cap W = W
    BY <1>5, <2>1, <2>2
  <2>4. avail \in (S \cap A) \cup {0}
    BY <1>1, <1>2, <1>3, <1>8, <2>3
  <2>5. \A x \in S \cap A : link[x] \in (S \cap A) \cup {0}
    BY <1>1, <1>2, <1>3, <1>8
  <2>6. S \cap A = A
    <3>1. S \cap A \in SUBSET A
      OBVIOUS
    <3> QED BY <1>4, <2>4, <2>5, <3>1
  <2> QED BY <1>1, <2>3, <2>6
<1>9. h \in FreeWords
  BY <1>1
<1> QED BY <1>6, <1>7, <1>8, <1>9 DEF AvailList

\* What Rest says depends on the empty nodes, the first words of the held ones
\* and the word at lo_mem_max.
LEMMA RestFrame ==
  ASSUME Rest, Places,
         UNCHANGED <<info, lo_mem_max, hi_mem_min, mem_end, rover, pc, p, q, s, nodes, ring>>,
         link' \in [Word -> HalfWord], avail' \in Word, dyn_used' \in Int, var_used' \in Int,
         words' \subseteq words, StaticHigh \subseteq words',
         \A x \in ring : link'[x] = link[x] /\ link'[x + 1] = link[x + 1],
         \A x \in DOMAIN nodes : link'[x] = link[x] \/ link'[x] # empty_flag,
         link'[lo_mem_max] = link[lo_mem_max]
  PROVE  Rest'
<1>1. TypeOK'
  BY DEF Rest, TypeOK
<1>2. Ordered'
  BY DEF Rest, Ordered
<1>3. Tiled'
  <2>1. Node' = Node
    BY DEF Node
  <2>2. \A x \in Node : SizeOf(x)' = SizeOf(x)
    BY DEF SizeOf, node_size
  <2>3. \A x \in Node : End(x)' = End(x)
    BY <2>2 DEF End
  <2> QED BY <2>1, <2>2, <2>3 DEF Rest, Tiled
<1>4. RingOK'
  <2>1. \A x \in ring : /\ info[x + 1] \in ring /\ link[info[x + 1] + 1] = x
                        /\ link[x + 1] \in ring /\ info[link[x + 1] + 1] = x
    BY DEF Rest, RingOK, llink, rlink
  <2>2. \A x \in ring : /\ info'[x + 1] \in ring /\ link'[info'[x + 1] + 1] = x
                        /\ link'[x + 1] \in ring /\ info'[link'[x + 1] + 1] = x
    BY <2>1
  <2>3. ASSUME NEW S \in SUBSET ring, S # {}, \A x \in S : link'[x + 1] \in S
        PROVE  S = ring
    <3>1. \A x \in S : rlink(x) \in S
      BY <2>3 DEF rlink
    <3> QED BY <2>3, <3>1 DEF Rest, RingOK
  <2> QED BY <2>2, <2>3 DEF Rest, RingOK, llink, rlink
<1>5. FlagsOK'
  BY DEF Rest, FlagsOK, is_empty
<1>6. words' \subseteq hi_mem_min'..mem_end' /\ StaticHigh \subseteq words'
  BY DEF Rest
<1> QED BY <1>1, <1>2, <1>3, <1>4, <1>5, <1>6 DEF Rest, StaticHigh

\* The avail list depends on the links of its words.
LEMMA AvailListSame ==
  ASSUME NEW A, NEW B, A = B, AvailList(A), avail' = avail, \A x \in A : link'[x] = link[x]
  PROVE  AvailList(B)'
BY DEF AvailList

-----------------------------------------------------------------------------
(* The invariant of lists and flushes.                                     *)

Flushing1 ==
    /\ Rest /\ Places /\ h # 0
    /\ \A x \in Member : link[x] = b => b \in Ends
    /\ \E W : Flushed(W) /\ (call = "splice" => W # {})
    /\ call = "flush_list" => b \in Free
    /\ call = "splice" => b = sentinel \/ b < hi_mem_min

FlushingNodes ==
    /\ IInv /\ (h # 0 => ~Pointed(h))
    /\ \E L \in SUBSET Member : h \in L \cup {0} /\ \A y \in L : link[y] \in L \cup {0}

ListTypes ==
    /\ h \in Word /\ a \in Word /\ b \in Word
    /\ call \in {"none", "flush_list", "splice", "flush_node_list"}
    /\ call # "none" => pc = "idle"

LInv ==
    /\ ListTypes /\ Accounting
    /\ pc # "overflow" => Linked
    /\ call = "none" => IInv
    /\ call \in {"flush_list", "splice"} => Flushing1
    /\ call = "flush_node_list" => FlushingNodes

\* The program's own steps between flushes.
LEMMA RunHolds == ASSUME LInv, Run, Loose PROVE LInv'
<1>1. call = "none" /\ Next /\ UNCHANGED <<call, h, a, b>>
  BY DEF Run, listVars
<1>2. IInv /\ Accounting /\ IInv' /\ Accounting'
  BY <1>1, StepHolds, StatsHold DEF LInv
<1>3. pc' # "overflow" => Linked'
  <2> SUFFICES ASSUME pc' # "overflow" PROVE Linked'
    OBVIOUS
  <2>1. pc # "overflow"
    BY <1>1, <1>2, HeldChanges
  <2>2. Linked
    BY <2>1 DEF LInv
  <2> QED BY <1>1, <1>2, <2>2, LooseKeepsLists
<1>4. ListTypes'
  <2>1. Word' = Word
    BY DEF Word
  <2> QED BY <1>1, <2>1 DEF LInv, ListTypes
<1> QED BY <1>1, <1>2, <1>3, <1>4 DEF LInv

\* A node is appended to a list.
LEMMA AppendHolds == ASSUME LInv, NEW x \in Word, NEW y \in Word, Append(x, y) PROVE LInv'
<1> USE MemoryAssumption
<1>1. /\ call = "none" /\ pc = "idle" /\ x \in Member /\ link[x] = 0
      /\ y = sentinel \/ (y \in Member /\ ~Pointed(y))
      /\ link' = [link EXCEPT ![x] = y]
      /\ UNCHANGED <<info, lo_mem_max, hi_mem_min, mem_end, avail, rover, dyn_used, var_used, pc,
                     p, q, s, nodes, words, ring, call, h, a, b>>
  BY DEF Append, bounds, locals, listVars
<1>2. IInv /\ Rest /\ AvailList(FreeWords) /\ Places /\ Linked /\ Accounting /\ ListTypes
  BY <1>1, RestIs, MemberPlace DEF LInv
<1>3. y \in Word /\ y # empty_flag /\ y \in HalfWord /\ link \in [Word -> HalfWord]
  <2>1. y # empty_flag /\ y \in HalfWord
    BY DEF Word, HalfWord
  <2> QED BY <1>2, <2>1 DEF Rest, TypeOK
<1>4. link' \in [Word -> HalfWord] /\ link'[x] = y /\ \A z \in Word : z # x => link'[z] = link[z]
  BY <1>1, <1>3
<1>5. Member' = Member /\ FreeWords' = FreeWords /\ Ends' = Ends
  BY <1>1 DEF Member, Free, FreeWords, Ends
<1>6. x \notin ring /\ x # lo_mem_max /\ x \notin FreeWords /\ \A z \in ring : x # z + 1
  <2>1. CASE x \in DOMAIN nodes
    <3>1. x \in Node /\ x \notin ring
      BY <1>2, <2>1 DEF Node, Rest, Tiled
    <3> QED BY <1>1, <1>2, <3>1 DEF Places, Node
  <2>2. CASE x \notin DOMAIN nodes
    <3>1. hi_mem_min <= x /\ x \in Nat
      BY <1>1, <1>2, <2>2 DEF Places, Member
    <3>2. \A z \in Node : z # x /\ z + 1 # x
      BY <1>2, <3>1 DEF Places
    <3> QED BY <1>1, <1>2, <3>1, <3>2 DEF Places, Node
  <2> QED BY <2>1, <2>2
<1>7. Rest'
  <2>1. \A z \in ring : z \in Word /\ z + 1 \in Word
    <3>1. \A z \in Node : z \in Word /\ z + 1 \in Word
      BY <1>2, NodePlace
    <3> QED BY <3>1 DEF Node
  <2>2. \A z \in ring : link'[z] = link[z] /\ link'[z + 1] = link[z + 1]
    BY <1>4, <1>6, <2>1
  <2>3. \A z \in DOMAIN nodes : link'[z] = link[z] \/ link'[z] # empty_flag
    <3>1. \A z \in DOMAIN nodes : z \in Word
      BY <1>2 DEF Rest, TypeOK
    <3> QED BY <1>3, <1>4, <3>1
  <2>4. link'[lo_mem_max] = link[lo_mem_max]
    BY <1>2, <1>4, <1>6 DEF Rest, TypeOK
  <2>5. avail' \in Word /\ dyn_used' \in Int /\ var_used' \in Int
    BY <1>1, <1>2 DEF Rest, TypeOK
  <2>6. words' \subseteq words /\ StaticHigh \subseteq words'
    BY <1>1, <1>2 DEF Rest
  <2> QED BY <1>1, <1>2, <1>4, <2>2, <2>3, <2>4, <2>5, <2>6, RestFrame
<1>8. IInv'
  <2>1. \A z \in FreeWords : z \in Word
    BY <1>2 DEF FreeWords, Rest, TypeOK, Word
  <2>2. \A z \in FreeWords : link'[z] = link[z]
    BY <1>4, <1>6, <2>1
  <2>3. AvailList(FreeWords)'
    BY <1>1, <1>2, <1>5, <2>2, AvailListSame
  <2> QED BY <1>1, <1>7, <2>3, RestIs DEF IInv, Rest, AvailOK, AvailList
<1>9. Linked'
  <2>0. \A z \in Member : z \in Word
    BY <1>2 DEF Places
  <2>1. \A z \in Member : link'[z] \in Member \cup Ends
    BY <1>1, <1>2, <1>4, <2>0 DEF Linked, Ends
  <2>2. \A z \in Member : link[z] = y => y \in Ends
    BY <1>1 DEF Pointed, Ends
  <2>3. \A z, d \in Member : link'[z] = link'[d] /\ z # d => link'[z] \in Ends
    BY <1>2, <1>4, <2>0, <2>2 DEF Linked
  <2> QED BY <1>5, <2>1, <2>3 DEF Linked
<1>10. Accounting'
  BY <1>1, <1>2, SizesFrame DEF Accounting
<1>11. ListTypes'
  BY <1>1, <1>2 DEF ListTypes, Word
<1> QED BY <1>1, <1>8, <1>9, <1>10, <1>11 DEF LInv

\* A flush of a list that begins with a one-word node begins.
LEMMA FlushListHolds == ASSUME LInv, NEW x \in Word, FlushList(x) PROVE LInv'
<1> USE MemoryAssumption
<1>1. /\ call = "none" /\ pc = "idle" /\ ~Pointed(x) /\ x \in Member \cup {0, sentinel}
      /\ UNCHANGED vars
  BY DEF FlushList
<1>2. IInv /\ Rest /\ AvailList(FreeWords) /\ Places /\ Linked /\ Accounting /\ ListTypes
  BY <1>1, RestIs, MemberPlace DEF LInv
<1>3. /\ UNCHANGED <<link, info, lo_mem_max, hi_mem_min, mem_end, avail, rover, dyn_used, var_used,
                     pc, p, q, s, nodes, words, ring>>
      /\ IInv' /\ Rest' /\ Places' /\ Linked' /\ Accounting' /\ AvailList(FreeWords)'
      /\ Member' = Member /\ FreeWords' = FreeWords /\ Free' = Free
  <2>1. UNCHANGED <<link, info, lo_mem_max, hi_mem_min, mem_end, avail, rover, dyn_used, var_used,
                     pc, p, q, s, nodes, words, ring>>
    BY <1>1 DEF vars
  <2>2. IInv'
    BY <1>1, <1>2, StepHolds
  <2>3. Accounting'
    BY <1>1, <1>2, StatsHold
  <2>4. Rest' /\ Places'
    BY <1>2, <2>1 DEF Rest, Places, TypeOK, Ordered, Tiled, RingOK, FlagsOK, Node, End, SizeOf,
                      node_size, llink, rlink, is_empty, FreeWords, Member, Free
  <2>5. Linked' /\ AvailList(FreeWords)'
    BY <1>2, <2>1 DEF Linked, Member, Free, AvailList, FreeWords, Ends
  <2> QED BY <2>1, <2>2, <2>3, <2>4, <2>5 DEF Member, FreeWords, Free
<1>4. CASE x >= hi_mem_min /\ x # sentinel
  <2>1. call' = "flush_list" /\ h' = x /\ b' = x /\ a' = a
    BY <1>4 DEF FlushList
  <2>2. x \in Free /\ x # 0
    BY <1>1, <1>2, <1>4 DEF Places
  <2>3. \A z \in Member' : link'[z] = b' => b' \in Ends'
    BY <1>1, <1>3, <2>1 DEF Pointed
  <2>4. Flushed({})'
    <3>1. FreeWords \ {} = FreeWords
      OBVIOUS
    <3>2. AvailList(FreeWords \ {})'
      BY <1>3, <3>1
    <3> QED BY <2>1, <3>2 DEF Flushed, Chain
  <2>5. Flushing1'
    BY <1>3, <2>1, <2>2, <2>3, <2>4 DEF Flushing1
  <2> QED BY <1>1, <1>2, <1>3, <2>1, <2>5 DEF LInv, ListTypes, Word
<1>5. CASE ~(x >= hi_mem_min /\ x # sentinel)
  <2>1. UNCHANGED <<call, h, a, b>>
    BY <1>5 DEF FlushList, listVars
  <2> QED BY <1>1, <1>2, <1>3, <2>1 DEF LInv, ListTypes, Word
<1> QED BY <1>4, <1>5

\* flush_list passes one word.
LEMMA FlushOneHolds == ASSUME LInv, FlushOne PROVE LInv'
<1> USE MemoryAssumption
<1>1. /\ call = "flush_list" /\ a' = b /\ b' = link[b] /\ dyn_used' = dyn_used - 1
      /\ words' = words \ {b} /\ h' = h
      /\ call' = IF b' < hi_mem_min \/ b' = sentinel THEN "splice" ELSE call
      /\ UNCHANGED <<link, info, lo_mem_max, hi_mem_min, mem_end, avail, rover, var_used, pc,
                     p, q, s, nodes, ring>>
  BY DEF FlushOne, heap, bounds, locals
<1>2. Flushing1 /\ Accounting /\ ListTypes /\ pc = "idle" /\ Linked
  BY <1>1 DEF LInv, ListTypes
<1>3. Rest /\ Places /\ h # 0 /\ b \in Free /\ \A x \in Member : link[x] = b => b \in Ends
  BY <1>1, <1>2 DEF Flushing1
<1>4. PICK W : Flushed(W)
  BY <1>2 DEF Flushing1
<1>5. /\ b \in Member /\ b \in Word /\ b \in Nat /\ b # 0 /\ b # sentinel /\ b \notin FreeWords
      /\ hi_mem_min <= b /\ b \notin DOMAIN nodes /\ b \in words /\ b \notin StaticHigh
      /\ b \in hi_mem_min..mem_end /\ b \notin Ends
  <2>1. b \in Member /\ b \in words /\ b \notin StaticHigh
    BY <1>3 DEF Member, Free
  <2> QED BY <1>3, <2>1 DEF Places, Rest, Ends
<1>6. /\ Free' = Free \ {b} /\ Member' = Member \ {b} /\ FreeWords' = FreeWords \cup {b}
      /\ Ends' = Ends
  BY <1>1, <1>5 DEF Free, Member, FreeWords, Ends
<1>7. link[b] \in (Member \ {b}) \cup Ends
  <2>1. link[b] \in Member \cup Ends
    BY <1>2, <1>5 DEF Linked
  <2> QED BY <1>3, <1>5, <2>1
<1>8. Rest'
  <2>1. link \in [Word -> HalfWord] /\ avail \in Word /\ dyn_used - 1 \in Int /\ var_used \in Int
    BY <1>3 DEF Rest, TypeOK
  <2>2. words' \subseteq words /\ StaticHigh \subseteq words'
    BY <1>1, <1>3, <1>5 DEF Rest
  <2> QED BY <1>1, <1>3, <2>1, <2>2, RestFrame
<1>9. Places'
  <2>1. Node' = Node /\ Word' = Word
    BY <1>1 DEF Node, Word
  <2>2. \A x \in Member \ {b} : x \notin FreeWords \cup {b} /\ (x \in Free \ {b} <=> x \in Free)
    BY <1>3 DEF Places
  <2> QED BY <1>1, <1>3, <1>5, <1>6, <2>1, <2>2 DEF Places
<1>10. Linked'
  BY <1>1, <1>2, <1>3, <1>5, <1>6 DEF Linked
<1>11. Accounting'
  <2>1. words \subseteq Word /\ dyn_used = Cardinality(words)
    BY <1>2, <1>3 DEF Rest, TypeOK, Accounting
  <2>2. Cardinality(words \ {b}) = Cardinality(words) - 1
    BY <1>5, <2>1, WordCount
  <2> QED BY <1>1, <1>2, <2>1, <2>2, SizesFrame DEF Accounting
<1>12. \A x \in Member' : link'[x] = b' => b' \in Ends'
  BY <1>1, <1>2, <1>5, <1>6 DEF Linked
<1>13. PICK U : U = W \cup {b} /\ Flushed(U)'
  <2>0. PICK U : U = W \cup {b}
    OBVIOUS
  <2>1. U \subseteq FreeWords'
    BY <1>4, <1>6, <2>0 DEF Flushed
  <2>2. link[b] \notin W \cup {b}
    <3>1. W \subseteq FreeWords
      BY <1>4 DEF Flushed
    <3>2. \A x \in Member \cup Ends : x \notin FreeWords
      BY <1>3 DEF Places, Ends
    <3> QED BY <1>5, <1>7, <3>1, <3>2
  <2>3. Chain(U, h, link[b])
    BY <1>4, <2>0, <2>2, ChainGrows DEF Flushed
  <2>4. Chain(U, h, b)'
    BY <1>1, <2>3 DEF Chain
  <2>5. PICK A : A = FreeWords \ W
    OBVIOUS
  <2>6. AvailList(A)
    BY <1>4, <2>5 DEF Flushed
  <2>7. (FreeWords \ U)' = A
    BY <1>5, <1>6, <2>0, <2>5
  <2>8. AvailList(FreeWords \ U)'
    <3>1. AvailList(A)'
      BY <1>1, <2>6, AvailListSame
    <3> QED BY <2>7, <3>1 DEF AvailList
  <2>9. a' \in U /\ link'[a'] = b'
    BY <1>1, <2>0
  <2> QED BY <2>0, <2>1, <2>4, <2>8, <2>9 DEF Flushed
<1>14. call' = "flush_list" => b' \in Free'
  <2> SUFFICES ASSUME call' = "flush_list" PROVE b' \in Free'
    OBVIOUS
  <2>1. ~(b' < hi_mem_min) /\ b' # sentinel
    BY <1>1
  <2>2. b' \in Member \ {b}
    <3>1. 0 < hi_mem_min
      BY <1>3 DEF Places, Rest, Ordered, TypeOK, Word
    <3> QED BY <1>1, <1>7, <2>1, <3>1 DEF Ends
  <2>3. b' \in Nat /\ hi_mem_min \in Nat
    BY <1>3, <2>2 DEF Places
  <2>4. hi_mem_min <= b'
    BY <2>1, <2>3
  <2>5. b' \in Free
    BY <1>3, <2>2, <2>4 DEF Places
  <2> QED BY <1>6, <2>2, <2>5
<1>15. call' = "splice" => b' = sentinel \/ b' < hi_mem_min'
  BY <1>1
<1>16. Flushing1'
  <2>1. U # {}
    BY <1>13
  <2>2. \E V : Flushed(V)' /\ (call' = "splice" => V # {})
    BY <1>13, <2>1
  <2> QED BY <1>1, <1>3, <1>8, <1>9, <1>12, <1>14, <1>15, <2>2 DEF Flushing1
<1>17. ListTypes' /\ call' \in {"flush_list", "splice"}
  <2>1. link[b] \in Word
    BY <1>3, <1>7 DEF Places, Ends
  <2>2. Word' = Word
    BY DEF Word
  <2> QED BY <1>1, <1>2, <1>5, <2>1, <2>2 DEF ListTypes
<1> QED BY <1>1, <1>10, <1>11, <1>16, <1>17 DEF LInv

\* flush_list puts the list in front of the avail list.
LEMMA SpliceHolds == ASSUME LInv, Splice PROVE LInv'
<1> USE MemoryAssumption
<1>1. /\ call = "splice" /\ link' = [link EXCEPT ![a] = avail] /\ avail' = h
      /\ call' = "none" /\ h' = 0 /\ a' = 0 /\ b' = 0
      /\ UNCHANGED <<info, lo_mem_max, hi_mem_min, mem_end, rover, dyn_used, var_used, pc,
                     p, q, s, nodes, words, ring>>
  BY DEF Splice, bounds, locals
<1>2. Flushing1 /\ Accounting /\ ListTypes /\ pc = "idle" /\ Linked
  BY <1>1 DEF LInv, ListTypes
<1>3. Rest /\ Places /\ h # 0
  BY <1>2 DEF Flushing1
<1>4. PICK W : Flushed(W) /\ W # {}
  BY <1>1, <1>2 DEF Flushing1
<1>5. /\ FreeWords' = FreeWords /\ Member' = Member /\ Ends' = Ends
      /\ FreeWords \subseteq Word /\ 0 \notin FreeWords /\ link \in [Word -> HalfWord]
      /\ \A x \in FreeWords : hi_mem_min <= x /\ x \in Nat
  <2>1. FreeWords' = FreeWords /\ Member' = Member /\ Ends' = Ends
    BY <1>1 DEF FreeWords, Member, Free, Ends
  <2>2. \A x \in FreeWords : hi_mem_min <= x /\ x \in Nat /\ x \in Word
    BY <1>3 DEF FreeWords, Places, Rest, TypeOK, Word
  <2> QED BY <1>3, <2>1, <2>2 DEF Places, Rest, TypeOK
<1>6. a \in FreeWords /\ a \in Word /\ avail \in HalfWord
  <2>1. a \in FreeWords
    BY <1>4 DEF Flushed
  <2>2. avail \in Word
    BY <1>3 DEF Rest, TypeOK
  <2>3. \A x \in Word : x \in HalfWord
    BY DEF Word, HalfWord
  <2> QED BY <1>5, <2>1, <2>2, <2>3
<1>7. link' \in [Word -> HalfWord] /\ \A x \in Word : x # a => link'[x] = link[x]
  BY <1>1, <1>5, <1>6
<1>8. \A x \in Node : x # a /\ x + 1 # a /\ x \in Word /\ x + 1 \in Word
  <2>1. \A x \in Node : x \in Nat /\ x \in Word /\ x + 1 < lo_mem_max
    BY <1>3 DEF Places
  <2>2. lo_mem_max \in Nat /\ lo_mem_max < hi_mem_min /\ hi_mem_min \in Nat /\ lo_mem_max \in Word
    BY <1>3 DEF Places, Rest, TypeOK
  <2>3. hi_mem_min <= a /\ a \in Nat
    BY <1>5, <1>6
  <2> QED BY <2>1, <2>2, <2>3 DEF Word
<1>9. Rest'
  <2>1. \A x \in ring : link'[x] = link[x] /\ link'[x + 1] = link[x + 1]
    BY <1>7, <1>8 DEF Node
  <2>2. \A x \in DOMAIN nodes : link'[x] = link[x] \/ link'[x] # empty_flag
    BY <1>7, <1>8 DEF Node
  <2>3. link'[lo_mem_max] = link[lo_mem_max]
    <3>1. lo_mem_max \in Word /\ lo_mem_max # a
      BY <1>3, <1>5, <1>6 DEF Places, Rest, TypeOK
    <3> QED BY <1>7, <3>1
  <2>4. avail' \in Word /\ dyn_used' \in Int /\ var_used' \in Int
    BY <1>1, <1>2, <1>3 DEF Rest, TypeOK, ListTypes
  <2>5. words' \subseteq words /\ StaticHigh \subseteq words'
    BY <1>1, <1>3 DEF Rest
  <2> QED BY <1>1, <1>3, <1>7, <2>1, <2>2, <2>3, <2>4, <2>5, RestFrame
<1>10. AvailList(FreeWords)'
  BY <1>1, <1>4, <1>5, SpliceWhole
<1>11. IInv'
  BY <1>9, <1>10 DEF IInv, Rest, AvailOK, AvailList
<1>12. Linked'
  <2>1. \A x \in Member : x \in Word /\ x # a
    BY <1>3, <1>6 DEF Places
  <2> QED BY <1>2, <1>5, <1>7, <2>1 DEF Linked
<1>13. Accounting'
  BY <1>1, <1>2, SizesFrame DEF Accounting
<1>14. ListTypes'
  BY <1>1, <1>2 DEF ListTypes, Word
<1> QED BY <1>1, <1>11, <1>12, <1>13, <1>14 DEF LInv

-----------------------------------------------------------------------------
(* flush_node_list.                                                        *)

\* ListFrom is such a collection.
LEMMA ListsAre == IsNest(ListFrom, link, Member, Word, mem_max)
<1>1. \E c : IsNest(c, link, Member, Word, mem_max)
  BY NestDefined, MemoryAssumption
<1> DEFINE LF == CHOOSE c : IsNest(c, link, Member, Word, mem_max)
<1>2. IsNest(LF, link, Member, Word, mem_max)
  BY <1>1
<1>3. ListFrom = LF
  BY DEF ListFrom, IsNest, Met
<1> QED BY <1>2, <1>3

\* What List collects is made of members and closed under link.
LEMMA ListClosed ==
  ASSUME Places, Linked, NEW x \in Word
  PROVE  /\ List(x) \subseteq Member /\ (x \in Member => x \in List(x))
         /\ ClosedIn(List(x), link, Member)
<1> USE MemoryAssumption
<1>1. Member \in SUBSET Word /\ \A y \in Member : link[y] \in Word
  BY DEF Places, Linked, Ends
<1>2. IsNest(ListFrom, link, Member, Word, mem_max)
  BY ListsAre
<1>3. IsFiniteSet(Member) /\ Cardinality(Member) < mem_max
  <2> DEFINE W == (1..mem_max) \ {mem_top}
  <2>1. Member \subseteq W
    <3>1. \A y \in Member : y \in Nat /\ y \in Word /\ y # 0 /\ y # mem_top
      BY DEF Places
    <3> QED BY <3>1 DEF Word
  <2>2. 1..mem_max \subseteq Word /\ mem_top \in 1..mem_max
    BY DEF Word
  <2>3. Cardinality(1..mem_max) = mem_max
    BY FS_Interval
  <2>4. Cardinality(W) = mem_max - 1 /\ IsFiniteSet(W)
    <3>1. W \subseteq Word
      BY <2>2
    <3>2. IsFiniteSet(W)
      BY <3>1, WordCount
    <3>3. Cardinality((1..mem_max) \ {mem_top}) = Cardinality(1..mem_max) - 1
      BY <2>2, WordCount
    <3> QED BY <2>3, <3>2, <3>3
  <2>5. Member \in SUBSET W
    BY <2>1
  <2> HIDE DEF W
  <2>6. Cardinality(Member) <= Cardinality(W) /\ IsFiniteSet(Member)
    BY <2>4, <2>5, FS_Subset
  <2>7. Cardinality(Member) \in Nat
    BY <2>6, FS_CardinalityType
  <2> QED BY <2>4, <2>6, <2>7
<1>4. ASSUME NEW c, NEW D, NEW g, c = ListFrom, D = Member, g = link
      PROVE  /\ c[mem_max][x] \subseteq D /\ (x \in D => x \in c[mem_max][x])
             /\ ClosedIn(c[mem_max][x], g, D)
  <2>1. D \in SUBSET Word /\ \A y \in D : g[y] \in Word
    BY <1>1, <1>4
  <2>2. IsNest(c, g, D, Word, mem_max) /\ IsFiniteSet(D) /\ Cardinality(D) < mem_max
    BY <1>2, <1>3, <1>4
  <2> QED BY ONLY <2>1, <2>2, x \in Word, mem_max \in Nat, NestClosed
<1> QED BY <1>4 DEF List

\* flush_node_list begins.
LEMMA FlushNodeListHolds == ASSUME LInv, NEW x \in Word, FlushNodeList(x) PROVE LInv'
<1> USE MemoryAssumption
<1>1. /\ call = "none" /\ pc = "idle" /\ ~Pointed(x) /\ x \in Member
      /\ \A y \in List(x) : link[y] # mem_top
      /\ call' = "flush_node_list" /\ h' = x /\ a' = a /\ b' = b
      /\ UNCHANGED vars
  BY DEF FlushNodeList
<1>2. IInv /\ Places /\ Linked /\ Accounting /\ ListTypes
  BY <1>1, MemberPlace DEF LInv
<1>3. /\ UNCHANGED <<link, info, lo_mem_max, hi_mem_min, mem_end, avail, rover, dyn_used, var_used,
                     pc, p, q, s, nodes, words, ring>>
      /\ Member' = Member /\ Ends' = Ends /\ IInv' /\ Accounting'
  <2>1. UNCHANGED <<link, info, lo_mem_max, hi_mem_min, mem_end, avail, rover, dyn_used, var_used,
                     pc, p, q, s, nodes, words, ring>>
    BY <1>1 DEF vars
  <2>2. IInv' /\ Accounting'
    BY <1>1, <1>2, StepHolds, StatsHold
  <2> QED BY <2>1, <2>2 DEF Member, Free, Ends
<1>4. PICK L : L = List(x)
  OBVIOUS
<1>5. L \subseteq Member /\ x \in L /\ \A y \in L : link[y] \in L \cup {0}
  <2>1. L \subseteq Member /\ x \in L /\ ClosedIn(L, link, Member)
    BY <1>1, <1>2, <1>4, ListClosed
  <2>2. \A y \in L : link[y] \in Member \cup {0}
    BY <1>1, <1>2, <1>4, <2>1 DEF Linked, Ends
  <2> QED BY <2>1, <2>2 DEF ClosedIn
<1>6. FlushingNodes'
  <2>1. h' # 0 => ~Pointed(h)'
    BY <1>1, <1>3 DEF Pointed
  <2>2. L \in SUBSET Member' /\ h' \in L \cup {0} /\ \A y \in L : link'[y] \in L \cup {0}
    BY <1>1, <1>3, <1>5
  <2> QED BY <1>3, <2>1, <2>2 DEF FlushingNodes
<1>7. Linked'
  BY <1>2, <1>3 DEF Linked
<1> QED BY <1>1, <1>2, <1>3, <1>6, <1>7 DEF LInv, ListTypes, Word

\* flush_node_list frees one node.
LEMMA FlushNodeHolds == ASSUME LInv, FlushNode PROVE LInv'
<1> USE MemoryAssumption
<1>1. /\ call = "flush_node_list" /\ h # 0 /\ h' = link[h]
      /\ IF h < hi_mem_min THEN free_node(h) ELSE free_avail(h)
      /\ UNCHANGED <<call, a, b>>
  BY DEF FlushNode, More
<1>2. FlushingNodes /\ IInv /\ Accounting /\ ListTypes /\ pc = "idle" /\ Linked /\ Places
  BY <1>1, MemberPlace DEF LInv, ListTypes, FlushingNodes
<1>3. PICK L \in SUBSET Member : h \in L \cup {0} /\ \A y \in L : link[y] \in L \cup {0}
  BY <1>2 DEF FlushingNodes
<1>4. h \in L /\ h \in Member /\ ~Pointed(h) /\ link[h] \in (L \ {h}) \cup {0}
  <2>1. h \in L /\ h \in Member /\ ~Pointed(h)
    BY <1>1, <1>2, <1>3 DEF FlushingNodes
  <2>2. link[h] # h
    BY <2>1 DEF Pointed
  <2> QED BY <1>3, <2>1, <2>2
<1>5. /\ Next /\ pc' = "idle"
      /\ (words' = words \ {h} /\ nodes' = nodes /\ h \in Free)
         \/ (words' = words /\ nodes' = [y \in DOMAIN nodes \ {h} |-> nodes[y]] /\ h \in DOMAIN nodes)
  <2>1. CASE h < hi_mem_min
    <3>1. free_node(h) /\ h \in DOMAIN nodes
      BY <1>1, <1>2, <1>4, <2>1 DEF Places
    <3> QED BY <3>1 DEF Next, Requests, free_node
  <2>2. CASE ~(h < hi_mem_min)
    <3>1. free_avail(h) /\ h \in Free
      <4>1. hi_mem_min <= h
        BY <1>2, <1>4, <2>2 DEF Places
      <4> QED BY <1>1, <1>2, <1>4, <2>2, <4>1 DEF Places
    <3> QED BY <3>1 DEF Next, Requests, free_avail, Free
  <2> QED BY <2>1, <2>2
<1>6. IInv' /\ Accounting'
  BY <1>2, <1>5, StepHolds, StatsHold
<1>7. Member' = Member \ {h} /\ Ends' = Ends
  <2>1. CASE words' = words \ {h} /\ nodes' = nodes /\ h \in Free
    <3>1. h \notin DOMAIN nodes
      BY <1>2, <2>1 DEF Places, Free
    <3> QED BY <2>1, <3>1 DEF Member, Free, Ends, StaticHigh
  <2>2. CASE words' = words /\ nodes' = [y \in DOMAIN nodes \ {h} |-> nodes[y]] /\ h \in DOMAIN nodes
    <3>1. h \notin words
      BY <1>2, <2>2 DEF Places
    <3>2. DOMAIN nodes' = DOMAIN nodes \ {h} /\ \A y \in DOMAIN nodes' : nodes'[y] = nodes[y]
      BY <2>2
    <3> QED BY <2>2, <3>1, <3>2 DEF Member, Free, Ends, StaticHigh
  <2> QED BY <1>5, <2>1, <2>2
<1>8. \A x \in Member' : x \in Member /\ x # h /\ link'[x] = link[x]
  <2> TAKE x \in Member'
  <2>1. x \in Member /\ x # h
    BY <1>7
  <2>2. (x \in words /\ x \in words') \/ (x \in DOMAIN nodes /\ x \in DOMAIN nodes')
    <3>1. x \in words \/ x \in DOMAIN nodes
      BY <2>1 DEF Member, Free
    <3>2. words \ {h} \subseteq words' /\ (DOMAIN nodes) \ {h} \subseteq DOMAIN nodes'
      <4>1. CASE words' = words \ {h} /\ nodes' = nodes
        BY <4>1
      <4>2. CASE words' = words /\ nodes' = [y \in DOMAIN nodes \ {h} |-> nodes[y]]
        BY <4>2
      <4>3. \/ words' = words \ {h} /\ nodes' = nodes
            \/ words' = words /\ nodes' = [y \in DOMAIN nodes \ {h} |-> nodes[y]]
        BY <1>5, Zenon
      <4> QED BY <4>1, <4>2, <4>3, Zenon
    <3> QED BY ONLY <2>1, <3>1, <3>2, Zenon
  <2>3. link'[x] = link[x]
    BY <1>2, <1>5, <2>1, <2>2, MembersAfter
  <2> QED BY <2>1, <2>3
<1>9. Linked'
  <2>1. \A x \in Member' : link'[x] \in Member' \cup Ends
    <3> TAKE x \in Member'
    <3>1. link[x] \in Member \cup Ends
      BY <1>2, <1>8 DEF Linked
    <3>2. link[x] # h
      BY <1>4, <1>8 DEF Pointed
    <3> QED BY <1>7, <1>8, <3>1, <3>2
  <2>2. \A x, y \in Member' : link'[x] = link'[y] /\ x # y => link'[x] \in Ends
    BY <1>2, <1>8 DEF Linked
  <2> QED BY <1>7, <2>1, <2>2 DEF Linked
<1>10. FlushingNodes'
  <2>1. h' # 0 => ~Pointed(h)'
    <3> SUFFICES ASSUME h' # 0, NEW x \in Member', link'[x] = h' PROVE FALSE
      BY DEF Pointed
    <3>1. x \in Member /\ x # h /\ link[x] = link[h] /\ link[h] \in Member
      BY <1>1, <1>3, <1>4, <1>8
    <3>2. link[h] \in Ends
      BY <1>2, <1>4, <3>1 DEF Linked
    <3> QED BY <1>1, <1>2, <3>1, <3>2 DEF Places, Ends
  <2> DEFINE K == L \ {h}
  <2>2. K \in SUBSET Member' /\ h' \in K \cup {0}
    BY <1>1, <1>4, <1>7
  <2>3. \A y \in K : link'[y] \in K \cup {0}
    <3> TAKE y \in K
    <3>1. y \in Member' /\ y \in L
      BY <2>2
    <3>2. link'[y] = link[y] /\ link[y] \in L \cup {0} /\ link[y] # h
      BY <1>3, <1>4, <1>8, <3>1 DEF Pointed
    <3> QED BY <3>2
  <2> HIDE DEF K
  <2> QED BY <1>6, <2>1, <2>2, <2>3 DEF FlushingNodes
<1>11. ListTypes'
  <2>1. h' \in Word
    BY <1>1, <1>2, <1>3, <1>4 DEF Places, Word
  <2>2. Word' = Word
    BY DEF Word
  <2> QED BY <1>1, <1>2, <1>5, <2>1, <2>2 DEF ListTypes
<1> QED BY <1>1, <1>6, <1>9, <1>10, <1>11 DEF LInv

\* flush_node_list ends.
LEMMA FlushNodesDoneHolds == ASSUME LInv, FlushNodesDone PROVE LInv'
<1>1. /\ call = "flush_node_list" /\ call' = "none" /\ UNCHANGED vars /\ UNCHANGED <<h, a, b>>
  BY DEF FlushNodesDone
<1>2. FlushingNodes /\ IInv /\ Accounting /\ ListTypes /\ Linked
  BY <1>1 DEF LInv, ListTypes, FlushingNodes
<1>3. UNCHANGED <<link, mem_end, pc, nodes, words>>
  BY <1>1 DEF vars
<1>4. IInv' /\ Accounting'
  BY <1>1, <1>2, StepHolds, StatsHold
<1>5. Linked'
  BY <1>2, <1>3 DEF Linked, Member, Free, StaticHigh, Ends
<1>6. ListTypes'
  BY <1>1, <1>2, <1>3 DEF ListTypes, Word
<1> QED BY <1>1, <1>4, <1>5, <1>6 DEF LInv

\* Nothing changes.
LEMMA ListsStill == ASSUME LInv, UNCHANGED allVars PROVE LInv'
<1>1. UNCHANGED <<link, info, lo_mem_max, hi_mem_min, mem_end, avail, rover, dyn_used, var_used,
                  pc, p, q, s, nodes, words, ring, call, h, a, b>>
  BY DEF allVars, vars, listVars
<1>2. ListTypes' /\ Accounting'
  <2>1. SizesBelow' = SizesBelow
    BY <1>1, SizesFrame
  <2> QED BY <1>1, <2>1 DEF LInv, ListTypes, Accounting, Word
<1>3. /\ Member' = Member /\ Free' = Free /\ FreeWords' = FreeWords /\ Ends' = Ends
      /\ Linked' = Linked /\ Pointed(h)' = Pointed(h)
  BY <1>1 DEF Member, Free, FreeWords, Ends, Linked, Pointed
<1>4. IInv => IInv'
  <2>1. UNCHANGED vars
    BY DEF allVars
  <2> QED BY <2>1, StepHolds
<1>5. FlushingNodes => FlushingNodes'
  BY <1>1, <1>3, <1>4 DEF FlushingNodes
<1>6. Flushing1 => Flushing1'
  <2> SUFFICES ASSUME Flushing1 PROVE Flushing1'
    OBVIOUS
  <2>1. PICK W : Flushed(W) /\ (call = "splice" => W # {})
    BY DEF Flushing1
  <2>2. Flushed(W)'
    BY <1>1, <1>3, <2>1 DEF Flushed, Chain, AvailList
  <2>3. Rest'
    BY <1>1 DEF Flushing1, Rest, TypeOK, Ordered, Tiled, RingOK, FlagsOK, Node, End, SizeOf,
                node_size, llink, rlink, is_empty, StaticHigh
  <2>4. Places'
    BY <1>1, <1>3 DEF Flushing1, Places, Node
  <2>5. \E V : Flushed(V)' /\ (call' = "splice" => V # {})
    BY <1>1, <2>1, <2>2
  <2> QED BY <1>1, <1>3, <2>3, <2>4, <2>5 DEF Flushing1
<1> QED BY <1>1, <1>2, <1>3, <1>4, <1>5, <1>6 DEF LInv

-----------------------------------------------------------------------------
(* The theorems.                                                           *)

\* INIMF starts with no list and no flush.
LEMMA ListsStart == ListInit => LInv
<1> SUFFICES ASSUME ListInit PROVE LInv
  OBVIOUS
<1>1. IInv /\ Accounting /\ call = "none" /\ h = 0 /\ a = 0 /\ b = 0 /\ 0 \in Word
  <2>1. 0 \in Word
    BY MemoryAssumption DEF Word
  <2> QED BY <2>1, InitHolds, StatsStart DEF ListInit
<1>2. Member = {}
  BY DEF ListInit, Init, Member, Free, StaticHigh
<1> QED BY <1>1, <1>2 DEF LInv, ListTypes, Linked

\* The invariant of the allocator, its statistics, the lists and the flushes.
THEOREM ListsInvariance == ListSpec => []LInv
<1>1. LInv /\ [ListNext]_allVars => LInv'
  <2> SUFFICES ASSUME LInv, [ListNext]_allVars PROVE LInv'
    OBVIOUS
  <2>1. CASE Run /\ Loose
    BY <2>1, RunHolds
  <2>2. CASE \E x, y \in Word : Append(x, y)
    BY <2>2, AppendHolds
  <2>3. CASE \E x \in Word : FlushList(x) \/ FlushNodeList(x)
    BY <2>3, FlushListHolds, FlushNodeListHolds
  <2>4. CASE Flushing
    BY <2>4, FlushOneHolds, SpliceHolds, FlushNodeHolds, FlushNodesDoneHolds DEF Flushing
  <2>5. CASE UNCHANGED allVars
    BY <2>5, ListsStill
  <2> QED BY <2>1, <2>2, <2>3, <2>4, <2>5 DEF ListNext
<1> QED BY <1>1, ListsStart, PTL DEF ListSpec

\* A closed set that has the head of a list has all of it.
LEMMA ListWithin ==
  ASSUME Places, Linked, NEW L \in SUBSET Member, NEW x \in Word, x \in L \cup {0},
         \A y \in L : link[y] \in L \cup {0}
  PROVE  List(x) \subseteq L
<1> USE MemoryAssumption
<1>1. IsNest(ListFrom, link, Member, Word, mem_max)
  BY ListsAre
<1>2. Member \in SUBSET Word /\ \A y \in Member : link[y] \in Word
  BY DEF Places, Linked, Ends
<1>3. 0 \notin Member
  BY DEF Places
<1>4. ASSUME NEW c, NEW D, NEW g, c = ListFrom, D = Member, g = link
      PROVE  c[mem_max][x] \subseteq L
  <2>1. D \in SUBSET Word /\ \A y \in D : g[y] \in Word
    BY <1>2, <1>4
  <2>2. IsNest(c, g, D, Word, mem_max)
    BY <1>1, <1>4
  <2>3. ClosedIn(L, g, D) /\ (x \in D => x \in L)
    BY <1>3, <1>4 DEF ClosedIn
  <2>4. Within(c, D, Word, L, mem_max)
    BY ONLY <2>1, <2>2, <2>3, mem_max \in Nat, NestLeast
  <2> QED BY <2>3, <2>4 DEF Within
<1> QED BY <1>4 DEF List

\* flush_list and flush_node_list give every node of the list back once, lose
\* none, and leave a heap that is intact, whatever lists the program has made.
THEOREM ListsKeepHeap == ListSpec => []ListsSound
<1>1. LInv => ListsSound
  <2> SUFFICES ASSUME LInv PROVE ListsSound
    OBVIOUS
  <2>1. ListTypeOK
    <3>1. TypeOK
      BY DEF LInv, ListTypes, IInv, Flushing1, FlushingNodes, Rest
    <3> QED BY <3>1 DEF LInv, ListTypes, ListTypeOK
  <2>2. call = "none" => HeapIntact /\ Accounting
    BY DEF LInv, IInv, HeapIntact
  <2>3. ASSUME call = "flush_node_list"
        PROVE  h \in Member \cup {0} /\ \A y \in List(h) : link[y] \in Member \cup {0}
    <3>1. FlushingNodes /\ IInv /\ Linked /\ h \in Word /\ Places
      BY <2>3, MemberPlace DEF LInv, ListTypes, FlushingNodes
    <3>2. PICK L \in SUBSET Member : h \in L \cup {0} /\ \A y \in L : link[y] \in L \cup {0}
      BY <3>1 DEF FlushingNodes
    <3>3. List(h) \subseteq L
      BY <3>1, <3>2, ListWithin
    <3> QED BY <3>2, <3>3
  <2>4. ASSUME call = "splice" PROVE link[a] \notin Free
    <3>1. Flushing1 /\ Rest /\ Places /\ (b = mem_top \/ b < hi_mem_min)
      BY <2>4 DEF LInv, Flushing1
    <3>2. link[a] = b
      BY <2>4, <3>1 DEF Flushing1, Flushed
    <3>3. b \notin Free
      <4>1. ASSUME b \in Free PROVE FALSE
        <5>1. b \in Member /\ b # mem_top /\ hi_mem_min <= b
          BY <3>1, <4>1 DEF Places, Member
        <5>2. b \in Nat /\ hi_mem_min \in Nat
          BY <3>1, <5>1 DEF Places
        <5> QED BY <3>1, <5>1, <5>2
      <4> QED BY <4>1
    <3> QED BY <3>2, <3>3
  <2> QED BY <2>1, <2>2, <2>3, <2>4 DEF ListsSound
<1> QED BY <1>1, ListsInvariance, PTL

-----------------------------------------------------------------------------
(* The base file: the invariant, from the start of INIMF to the job that   *)
(* loads.                                                                  *)

\* The heap that the links l and infos i make of the nodes, as the memory and
\* the words of a file hold them.
Extent(i, x) == IF x \in ring THEN i[x] ELSE nodes[x]

Tiles(i) ==
    /\ ring \cap DOMAIN nodes = {}
    /\ lo_mem_stat_max + 1 \in Node
    /\ \A x \in Node : /\ lo_mem_stat_max < x /\ Extent(i, x) >= 2
                       /\ x + Extent(i, x) <= lo_mem_max
                       /\ x + Extent(i, x) \in Node \cup {lo_mem_max}
    /\ \A x, y \in Node : x < y => x + Extent(i, x) <= y

Flagged(l) ==
    /\ \A x \in ring : l[x] = empty_flag
    /\ \A x \in DOMAIN nodes : l[x] # empty_flag
    /\ l[lo_mem_max] # empty_flag

Listed(l) ==
    /\ avail \in FreeWords \cup {0}
    /\ \A x \in FreeWords : l[x] \in FreeWords \cup {0} /\ l[x] # avail
    /\ \A x, y \in FreeWords : l[x] = l[y] /\ x # y => l[x] = 0
    /\ \A S \in SUBSET FreeWords :
          avail \in S \cup {0} /\ (\A x \in S : l[x] \in S \cup {0}) => S = FreeWords

Circle(l, i) ==
    /\ rover \in ring
    /\ \A x \in ring : /\ i[x + 1] \in ring /\ l[i[x + 1] + 1] = x
                       /\ l[x + 1] \in ring /\ i[l[x + 1] + 1] = x
    /\ \A S \in SUBSET ring : S # {} /\ (\A x \in S : l[x + 1] \in S) => S = ring

\* The ring goes up from rover.
Rising(l) ==
    /\ \A x \in ring : rover <= x /\ l[x + 1] \in ring /\ (l[x + 1] = rover \/ x < l[x + 1])
    /\ \A x, y \in ring : x < y => x < l[x + 1] /\ l[x + 1] <= y

Parted(i) == \A x \in ring : x + i[x] \notin ring
Layout(l, i) == Tiles(i) /\ Flagged(l) /\ Listed(l)

-----------------------------------------------------------------------------
\* sort_avail: the nodes of B wait to be inserted in the list of the others.
Row(B, c, e) ==
    /\ c \in B \cup {e} /\ e \notin B
    /\ \A x \in B : rlink(x) \in B \cup {e} /\ rlink(x) # c
    /\ \A x, y \in B : rlink(x) = rlink(y) => x = y
    /\ \A S \in SUBSET B : c \in S \cup {e} /\ (\A x \in S : rlink(x) \in S \cup {e}) => S = B

Upward(A) ==
    /\ rover \in A
    /\ \A x \in A : rover <= x /\ x < rlink(x) /\ rlink(x) \in A \cup {empty_flag}
    /\ \A x, y \in A : x < y => rlink(x) <= y

Inserting(B) ==
    /\ old_rover \in ring \ B /\ Row(B, u, old_rover) /\ Upward(ring \ B)
    /\ stage = "walk" => u \in B /\ v \in ring \ B /\ v < u

Relinking ==
    /\ Upward(ring) /\ u \in ring
    /\ \A y \in ring : y < u => llink(rlink(y)) = y

-----------------------------------------------------------------------------
\* The dump and its reading are past the words below u: all words up to the
\* last empty node below top.
Walked(i, top) ==
    /\ u \in 0..top
    /\ \A x \in ring : x < top => x + i[x] <= u
    /\ u = 0 \/ \E x \in ring : u = x + i[x]
Reached(i) ==
    /\ stage \in {"dump", "undump"} => v \in ring /\ Walked(i, v)
    /\ stage \in {"rest", "unrest"} => u # 0 /\ Walked(i, lo_mem_max)

Within2(i) == UNION {Span(x + 2, i[x] - 2) : x \in ring}
Kept(i) == ((0..lo_mem_max) \ Within2(i)) \cup hi_mem_min..mem_end

Headings == {"lo", "rover", "hi", "avail", "used", "dyn", "cells", "count"}

Dumped ==
    /\ Reached(info) /\ DOMAIN file = Headings
    /\ DOMAIN file.cells = (0..u - 1) \ Within2(info)
    /\ \A x \in DOMAIN file.cells : file.cells[x] = <<link[x], info[x]>>
    /\ file.count = Cardinality(DOMAIN file.cells)
    /\ file.lo = lo_mem_max /\ file.rover = rover
    /\ var_used = IF u = 0 THEN 0 ELSE lo_mem_stat_max + 1 + SizesBelow[u]

cell_link == [x \in DOMAIN file.cells |-> file.cells[x][1]]
cell_info == [x \in DOMAIN file.cells |-> file.cells[x][2]]

Stored ==
    /\ file.lo = lo_mem_max /\ file.rover = rover /\ file.hi = hi_mem_min /\ file.avail = avail
    /\ file.used = lo_mem_stat_max + 1 + SizesBelow[mem_max + 1]
    /\ file.dyn = Cardinality(words)
    /\ file.count = Cardinality(DOMAIN file.cells)
    /\ DOMAIN file.cells = Kept(cell_info)
    /\ cell_link \in [DOMAIN file.cells -> HalfWord] /\ cell_info \in [DOMAIN file.cells -> HalfWord]
    /\ \A x \in ring : cell_info[x] \in Nat
    /\ Layout(cell_link, cell_info) /\ Circle(cell_link, cell_info)
    /\ Rising(cell_link) /\ Parted(cell_info)

Undumped ==
    /\ Reached(cell_info)
    /\ \A x \in DOMAIN file.cells : x < u => link[x] = cell_link[x] /\ info[x] = cell_info[x]

-----------------------------------------------------------------------------
Bounds ==
    /\ FileTypeOK /\ Ordered /\ words \subseteq hi_mem_min..mem_end /\ StaticHigh \subseteq words
    /\ lo_mem_stat_max + GrowBy <= lo_mem_max

Running ==
    /\ TourInv /\ Accounting
    /\ stage = "merge" =>
          IF pc = "idle" THEN Parted(info) ELSE pc \in {"try", "full"} /\ s = MergeOnly

Storing ==
    /\ stage \notin {"undump", "unrest"} => Layout(link, info)
    /\ stage \in {"sort", "walk", "relink", "dump", "rest", "stored"} => Parted(info)
    /\ stage \in {"sort", "walk"} => \E B \in SUBSET ring : Inserting(B)
    /\ stage = "relink" => Relinking
    /\ stage \in {"dump", "rest", "stored"} => Circle(link, info) /\ Rising(link)
    /\ stage \in {"dump", "rest"} => Dumped
    /\ stage \in {"stored", "undump", "unrest"} => Stored
    /\ stage \in {"stored", "loaded"} => Accounting
    /\ stage = "stored" => \A x \in ring : info[x] = cell_info[x]
    /\ stage \in {"undump", "unrest"} => Undumped
    /\ stage = "loaded" => Circle(link, info)

FileInv ==
    /\ Bounds /\ stage # "off_base"
    /\ IF stage \in {"run", "merge"} THEN Running ELSE pc = "idle" /\ Storing

-----------------------------------------------------------------------------
(* The layout of the heap.                                                 *)

\* While no node is inspected the layout is what the allocator keeps.
LEMMA LayoutIs ==
  ASSUME pc = "idle"
  PROVE  /\ Tiled <=> Tiles(info)
         /\ FlagsOK <=> Flagged(link)
         /\ RingOK <=> Circle(link, info)
         /\ AvailOK <=> words \subseteq hi_mem_min..mem_end /\ StaticHigh \subseteq words
                        /\ Listed(link)
<1>1. \A x : SizeOf(x) = Extent(info, x)
  BY DEF SizeOf, Extent, node_size
<1>2. Tiled <=> Tiles(info)
  BY <1>1, Zenon DEF Tiled, Tiles, End
<1>3. FlagsOK <=> Flagged(link)
  BY DEF FlagsOK, Flagged, is_empty
<1>4. RingOK <=> Circle(link, info)
  BY Zenon DEF RingOK, Circle, llink, rlink
<1>5. AvailOK <=> words \subseteq hi_mem_min..mem_end /\ StaticHigh \subseteq words
                  /\ Listed(link)
  BY DEF AvailOK, Listed
<1> QED BY <1>2, <1>3, <1>4, <1>5

\* A heap laid out in this way is intact.
LEMMA LayoutIntact ==
  ASSUME Bounds, pc = "idle", Layout(link, info), Circle(link, info)
  PROVE  IInv /\ HeapIntact
<1>1. Tiled /\ FlagsOK /\ RingOK /\ AvailOK /\ TypeOK /\ Ordered
  BY LayoutIs, Zenon DEF Bounds, Layout, FileTypeOK
<1> QED BY <1>1 DEF IInv, HeapIntact

LEMMA IntactLayout ==
  ASSUME IInv, pc = "idle"
  PROVE  Layout(link, info) /\ Circle(link, info)
BY LayoutIs, Zenon DEF IInv, Layout

Sized(i) == \A x \in ring : i[x] \in Nat

\* Where things lie: the two words of an empty node that are in use, the first
\* words of the held ones and the free words are apart.
LEMMA PlacesAre ==
  ASSUME Bounds, pc = "idle", NEW i, Tiles(i), Sized(i)
  PROVE  /\ \A x \in Node : /\ x \in Nat /\ x \in Word /\ x + 1 \in Word /\ Extent(i, x) \in Nat
                            /\ lo_mem_stat_max < x /\ x + 1 < lo_mem_max
                            /\ x + 2 <= x + Extent(i, x) /\ x + Extent(i, x) <= lo_mem_max
         /\ \A x, y \in Node : x # y + 1
         /\ lo_mem_max \in Nat /\ lo_mem_max \in Word /\ hi_mem_min \in Nat /\ mem_end \in Nat
         /\ lo_mem_max < hi_mem_min /\ mem_end <= mem_max /\ lo_mem_stat_max \in Nat
         /\ \A x \in FreeWords : x \in Nat /\ x \in Word /\ lo_mem_max < x
         /\ rover \in Word /\ \A x \in ring : x \in Node /\ Extent(i, x) = i[x]
         /\ \A x \in DOMAIN nodes : x \in Node
<1> USE MemoryAssumption
<1>1. /\ lo_mem_max \in Nat /\ lo_mem_max \in Word /\ hi_mem_min \in Nat /\ mem_end \in Nat
      /\ lo_mem_max < hi_mem_min /\ mem_end <= mem_max /\ rover \in Word
  BY DEF Bounds, FileTypeOK, TypeOK, Ordered, Word
<1>2. ring \subseteq Word /\ DOMAIN nodes \subseteq Word /\ \A x \in DOMAIN nodes : nodes[x] \in Nat
  BY DEF Bounds, FileTypeOK, TypeOK
<1>3. \A x \in Node : x \in Nat /\ x \in Word /\ Extent(i, x) \in Nat
  BY <1>2 DEF Node, Extent, Sized, Word
<1>4. \A x \in Node : /\ lo_mem_stat_max < x /\ x + 2 <= x + Extent(i, x)
                      /\ x + Extent(i, x) <= lo_mem_max
  BY <1>3 DEF Tiles
<1>5. \A x \in Node : x + 1 < lo_mem_max /\ x + 1 \in Word
  BY <1>1, <1>3, <1>4 DEF Word
<1>6. ASSUME NEW x \in Node, NEW y \in Node PROVE x # y + 1
  <2>1. y < x => y + Extent(i, y) <= x
    BY DEF Tiles
  <2>2. x \in Nat /\ y \in Nat /\ Extent(i, y) \in Nat /\ y + 2 <= y + Extent(i, y)
    BY <1>3, <1>4
  <2> QED BY <2>1, <2>2
<1>7. \A x \in FreeWords : x \in Nat /\ x \in Word /\ lo_mem_max < x
  BY <1>1 DEF FreeWords, Word
<1>8. /\ \A x \in ring : x \in Node /\ Extent(i, x) = i[x]
      /\ \A x \in DOMAIN nodes : x \in Node
  BY DEF Node, Extent
<1> QED BY <1>1, <1>3, <1>4, <1>5, <1>6, <1>7, <1>8

\* Two heaps that agree in the words that matter have the same layout.
LEMMA LayoutSame ==
  ASSUME NEW l, NEW i, NEW l2, NEW i2, Layout(l, i),
         \A x \in ring : i2[x] = i[x] /\ l2[x] = l[x],
         \A x \in DOMAIN nodes \cup FreeWords \cup {lo_mem_max} : l2[x] = l[x]
  PROVE  Layout(l2, i2)
<1>1. Tiles(i2)
  <2>1. \A x : Extent(i2, x) = Extent(i, x)
    BY DEF Extent
  <2>2. Tiles(i)
    BY DEF Layout
  <2> QED BY <2>1, <2>2, Zenon DEF Tiles
<1>2. Flagged(l2)
  BY DEF Layout, Flagged
<1>3. Listed(l2)
  <2>1. Listed(l) /\ \A x \in FreeWords : l2[x] = l[x]
    BY DEF Layout
  <2> QED BY <2>1 DEF Listed
<1> QED BY <1>1, <1>2, <1>3 DEF Layout

LEMMA CircleSame ==
  ASSUME NEW l, NEW i, NEW l2, NEW i2, Circle(l, i),
         \A x \in ring : i2[x + 1] = i[x + 1] /\ l2[x + 1] = l[x + 1]
  PROVE  Circle(l2, i2) /\ (Rising(l) => Rising(l2))
<1>1. rover \in ring /\ \A x \in ring : /\ i2[x + 1] \in ring /\ l2[i2[x + 1] + 1] = x
                      /\ l2[x + 1] \in ring /\ i2[l2[x + 1] + 1] = x
  BY DEF Circle
<1>2. \A S \in SUBSET ring : S # {} /\ (\A x \in S : l2[x + 1] \in S) => S = ring
  <2> TAKE S \in SUBSET ring
  <2> HAVE S # {} /\ (\A x \in S : l2[x + 1] \in S)
  <2>1. \A x \in S : l[x + 1] \in S
    OBVIOUS
  <2> QED BY <2>1 DEF Circle
<1>3. Rising(l) => Rising(l2)
  BY DEF Rising
<1> QED BY <1>1, <1>2, <1>3 DEF Circle

Frame == UNCHANGED <<ring, nodes, words, lo_mem_max, hi_mem_min, mem_end, avail>>

\* What the layout says of a heap does not change while nobody is served.
LEMMA LayoutFrame ==
  ASSUME Frame
  PROVE  /\ Layout(link, info)' <=> Layout(link', info')
         /\ Parted(info)' <=> Parted(info')
         /\ rover' = rover => /\ Circle(link, info)' <=> Circle(link', info')
                              /\ Rising(link)' <=> Rising(link')
         /\ Within2(info)' = Within2(info')
<1>1. /\ ring' = ring /\ nodes' = nodes /\ FreeWords' = FreeWords /\ Node' = Node
      /\ lo_mem_max' = lo_mem_max /\ avail' = avail
  BY DEF Frame, FreeWords, Node
<1>2. Tiles(info)' <=> Tiles(info')
  BY <1>1 DEF Tiles, Extent
<1>3. Flagged(link)' <=> Flagged(link')
  BY <1>1 DEF Flagged
<1>4. Listed(link)' <=> Listed(link')
  BY <1>1 DEF Listed
<1>5. Parted(info)' <=> Parted(info')
  BY <1>1 DEF Parted
<1>6. rover' = rover => /\ Circle(link, info)' <=> Circle(link', info')
                        /\ Rising(link)' <=> Rising(link')
  BY <1>1 DEF Circle, Rising
<1>7. Within2(info)' = Within2(info')
  BY <1>1 DEF Within2
<1> QED BY <1>2, <1>3, <1>4, <1>5, <1>6, <1>7 DEF Layout

\* Most steps of the dump leave the shape of the memory alone.
LEMMA BoundsFrame ==
  ASSUME Bounds, Frame, UNCHANGED <<pc, locals>>, stage # "off_base", pc = "idle",
         link' \in [Word -> HalfWord], info' \in [Word -> HalfWord],
         rover' \in Word, u' \in Word, v' \in Word, old_rover' \in Word,
         var_used' \in Int, dyn_used' \in Int, DOMAIN file'.cells \subseteq Word,
         stage' \in {"sort", "walk", "relink", "dump", "rest", "stored", "undump", "unrest",
                     "loaded"}
  PROVE  Bounds'
<1> USE DEF Frame, Bounds
<1>1. TypeOK'
  BY DEF FileTypeOK, TypeOK, locals
<1>2. Ordered'
  BY DEF Ordered
<1>3. FileTypeOK'
  BY <1>1 DEF FileTypeOK
<1> QED BY <1>2, <1>3

\* Writing in the second words of empty nodes leaves the layout alone.
LEMMA SecondWords ==
  ASSUME Bounds, pc = "idle", Layout(link, info), Frame,
         \A x \in Word : (\A y \in ring : x # y + 1) => link'[x] = link[x] /\ info'[x] = info[x]
  PROVE  /\ Layout(link, info)'
         /\ Parted(info) => Parted(info)'
         /\ \A x \in ring : info'[x] = info[x]
<1>1. Sized(info) /\ Tiles(info)
  BY DEF Sized, Layout, Bounds, FileTypeOK, TypeOK, HalfWord
<1>2. \A x \in Node : x \in Word /\ \A y \in Node : x # y + 1
  BY <1>1, PlacesAre
<1>3. /\ lo_mem_max \in Word /\ \A y \in Node : y + 1 < lo_mem_max
      /\ \A x \in FreeWords : x \in Word /\ x \in Nat /\ lo_mem_max < x
      /\ \A y \in Node : y + 1 \in Nat
      /\ lo_mem_max \in Nat
  BY <1>1, PlacesAre
<1>4. ring \subseteq Node /\ DOMAIN nodes \subseteq Node
  BY DEF Node
<1>5. \A x \in ring : info'[x] = info[x] /\ link'[x] = link[x]
  BY <1>2, <1>4
<1>6. \A x \in DOMAIN nodes \cup FreeWords \cup {lo_mem_max} : link'[x] = link[x]
  <2>1. \A x \in DOMAIN nodes : link'[x] = link[x]
    BY <1>2, <1>4
  <2>2. \A x \in FreeWords \cup {lo_mem_max} : x \in Word /\ \A y \in ring : x # y + 1
    BY <1>3, <1>4
  <2> QED BY <2>1, <2>2
<1>7. Layout(link', info')
  BY <1>5, <1>6, LayoutSame
<1>8. Parted(info) => Parted(info')
  BY <1>5 DEF Parted
<1> QED BY <1>5, <1>7, <1>8, LayoutFrame

\* INIMF runs.
LEMMA RunInimfHolds == ASSUME FileInv, RunInimf PROVE FileInv'
<1> USE MemoryAssumption
<1>1. /\ stage \in {"run", "merge"} /\ Bounds /\ Running /\ Next
      /\ stage' = stage /\ u' = u /\ v' = v /\ old_rover' = old_rover /\ file' = file
  BY DEF FileInv, RunInimf, fileVars, Next
<1>2. TourInv /\ IInv /\ Accounting
  BY <1>1 DEF Running, TourInv
<1>3. TourInv' /\ IInv' /\ Accounting'
  BY <1>1, <1>2, TourHolds, StatsHold DEF TourInv
<1>4. lo_mem_max <= lo_mem_max' /\ lo_mem_max' \in Nat /\ lo_mem_max \in Nat
  <2>1. lo_mem_max' \in Nat /\ lo_mem_max \in Nat
    BY <1>2, <1>3 DEF IInv, TypeOK, Word
  <2>2. CASE Grow
    BY <1>2, <2>2, GrowWrites
  <2>3. CASE ~Grow
    <3>1. lo_mem_max' = lo_mem_max
      BY <1>1, <2>3 DEF Next, NodeSteps, Requests, Use, UseNode, get_avail, PopAvail, VirginTop,
         VirginBottom, free_avail, get_node, free_node, MergeSuccessor, AllocateFromTop,
         AllocateEntire, NextInRing, MergedAll, NodeOverflow, bounds
    <3> QED BY <2>1, <3>1
  <2> QED BY <2>2, <2>3
<1>5. Bounds'
  <2>1. FileTypeOK' /\ Ordered'
    BY <1>1, <1>3 DEF Bounds, FileTypeOK, IInv
  <2>2. words' \subseteq hi_mem_min'..mem_end' /\ StaticHigh \subseteq words'
    BY <1>3 DEF IInv, AvailOK
  <2>3. lo_mem_stat_max + GrowBy <= lo_mem_max'
    BY <1>1, <1>4 DEF Bounds
  <2> QED BY <2>1, <2>2, <2>3 DEF Bounds, StaticHigh
<1>6. ASSUME stage = "merge"
      PROVE  IF pc' = "idle" THEN Parted(info)' ELSE pc' \in {"try", "full"} /\ s' = MergeOnly
  <2>1. NodeSteps
    BY <1>6 DEF RunInimf
  <2>2. pc \in {"try", "full"} /\ s = MergeOnly
    <3>1. pc # "idle"
      BY <2>1 DEF NodeSteps, MergeSuccessor, AllocateFromTop, AllocateEntire, NextInRing,
         MergedAll, Grow, NodeOverflow
    <3> QED BY <1>1, <1>6, <3>1 DEF Running
  <2>3. p \in Nat /\ q \in Nat /\ q <= mem_max /\ s > 2 * mem_max /\ mem_max \in Nat
    BY <1>2, <2>2 DEF IInv, TypeOK, Word
  <2>4. ~AllocateFromTop /\ ~AllocateEntire
    <3>1. ~CanSplit /\ q - s # p
      <4>1. s \in Nat
        BY <2>2
      <4> QED BY <2>3, <4>1 DEF CanSplit
    <3> QED BY <3>1 DEF AllocateFromTop, AllocateEntire
  <2>5. CASE MergeSuccessor
    BY <2>2, <2>5 DEF MergeSuccessor
  <2>6. CASE NextInRing
    BY <2>2, <2>6 DEF NextInRing
  <2>7. CASE MergedAll
    <3>1. pc = "full" /\ info' = info /\ ring' = ring /\ pc' = "idle"
      BY <2>7 DEF MergedAll, heap, Return
    <3>2. \A x \in ring : x + node_size(x) \notin ring
      BY <1>2, <3>1 DEF TourInv, Tour, Toured
    <3> QED BY <3>1, <3>2 DEF Parted, node_size
  <2> QED BY <2>1, <2>2, <2>4, <2>5, <2>6, <2>7 DEF NodeSteps, Grow, NodeOverflow
<1>7. Running'
  BY <1>1, <1>3, <1>6 DEF Running
<1> QED BY <1>1, <1>5, <1>7 DEF FileInv

\* The dump begins with a request that merges all adjacent empty nodes.
LEMMA StoreBaseFileHolds == ASSUME FileInv, StoreBaseFile PROVE FileInv'
<1>1. /\ stage = "run" /\ stage' = "merge" /\ Bounds /\ Running /\ get_node(MergeOnly)
      /\ u' = u /\ v' = v /\ old_rover' = old_rover /\ file' = file
  BY DEF FileInv, StoreBaseFile
<1>2. TourInv /\ IInv /\ Accounting /\ Next
  BY <1>1 DEF Running, TourInv, Next, Requests
<1>3. TourInv' /\ IInv' /\ Accounting'
  BY <1>2, TourHolds, StatsHold DEF TourInv
<1>4. pc' = "try" /\ s' = MergeOnly /\ UNCHANGED <<lo_mem_max, hi_mem_min, mem_end, words>>
  BY <1>1 DEF get_node, bounds
<1>5. Bounds'
  BY <1>1, <1>3, <1>4 DEF Bounds, FileTypeOK, IInv
<1>6. Running'
  BY <1>1, <1>3, <1>4 DEF Running
<1> QED BY <1>1, <1>5, <1>6 DEF FileInv

-----------------------------------------------------------------------------
(* sort_avail.                                                             *)

\* A row without its first node begins at the second.
LEMMA RowLess ==
  ASSUME NEW B, NEW c, NEW e, Row(B, c, e), c # e
  PROVE  c \in B /\ Row(B \ {c}, rlink(c), e)
<1> DEFINE C == B \ {c}  d == rlink(c)
<1>1. c \in B /\ e \notin B /\ d \in C \cup {e}
  BY DEF Row
<1>2. \A x \in C : rlink(x) \in C \cup {e} /\ rlink(x) # d
  <2>1. \A x \in B : rlink(x) \in B \cup {e} /\ rlink(x) # c
    BY DEF Row
  <2>2. \A x, y \in B : rlink(x) = rlink(y) => x = y
    BY DEF Row
  <2> QED BY <1>1, <2>1, <2>2
<1>3. \A x, y \in C : rlink(x) = rlink(y) => x = y
  BY DEF Row
<1>4. ASSUME NEW S \in SUBSET C, d \in S \cup {e}, \A x \in S : rlink(x) \in S \cup {e}
      PROVE  S = C
  <2> DEFINE T == S \cup {c}
  <2>1. T \in SUBSET B /\ c \in T \cup {e} /\ \A x \in T : rlink(x) \in T \cup {e}
    BY <1>1, <1>4
  <2>2. T = B
    <3> HIDE DEF T
    <3> QED BY <2>1 DEF Row
  <2> QED BY <1>4, <2>2
<1> HIDE DEF d
<1>5. Row(C, d, e)
  BY <1>1, <1>2, <1>3, <1>4 DEF Row
<1> QED BY <1>1, <1>5 DEF d

\* A row whose links stay is a row after the step.
LEMMA RowSame ==
  ASSUME NEW B, NEW c, NEW e, Row(B, c, e), \A x \in B : link'[x + 1] = link[x + 1]
  PROVE  Row(B, c, e)'
<1>1. \A x \in B : rlink(x)' = rlink(x)
  BY DEF rlink
<1>2. /\ c \in B \cup {e} /\ e \notin B
      /\ \A x \in B : rlink(x)' \in B \cup {e} /\ rlink(x)' # c
      /\ \A x, y \in B : rlink(x)' = rlink(y)' => x = y
  BY <1>1 DEF Row
<1>3. \A S \in SUBSET B : c \in S \cup {e} /\ (\A x \in S : rlink(x)' \in S \cup {e}) => S = B
  <2> TAKE S \in SUBSET B
  <2> HAVE c \in S \cup {e} /\ (\A x \in S : rlink(x)' \in S \cup {e})
  <2>1. \A x \in S : rlink(x) \in S \cup {e}
    BY <1>1
  <2> QED BY <2>1 DEF Row
<1> QED BY <1>2, <1>3 DEF Row

\* The ring without rover is a row from its right neighbour back to it.
LEMMA RowOfRing ==
  ASSUME Circle(link, info)
  PROVE  Row(ring \ {rover}, rlink(rover), rover)
<1> DEFINE B == ring \ {rover}  c == rlink(rover)
<1>1. rover \in ring /\ \A x \in ring : rlink(x) \in ring /\ info[rlink(x) + 1] = x
  BY DEF Circle, rlink
<1>2. \A x, y \in ring : rlink(x) = rlink(y) => x = y
  BY <1>1
<1>3. /\ c \in B \cup {rover} /\ rover \notin B
      /\ \A x \in B : rlink(x) \in B \cup {rover} /\ rlink(x) # c
  BY <1>1, <1>2
<1>4. ASSUME NEW S \in SUBSET B, c \in S \cup {rover}, \A x \in S : rlink(x) \in S \cup {rover}
      PROVE  S = B
  <2> DEFINE T == S \cup {rover}
  <2>1. T \in SUBSET ring /\ T # {} /\ \A x \in T : link[x + 1] \in T
    BY <1>1, <1>4 DEF rlink
  <2>2. T = ring
    <3> HIDE DEF T
    <3> QED BY <2>1 DEF Circle
  <2> QED BY <1>4, <2>2
<1>5. \A x, y \in B : rlink(x) = rlink(y) => x = y
  BY <1>2
<1> HIDE DEF c
<1>6. Row(B, c, rover)
  BY <1>3, <1>4, <1>5 DEF Row
<1> QED BY <1>6 DEF c

\* What sorting needs to know of the words it writes in.
LEMMA SortPlaces ==
  ASSUME Bounds, pc = "idle", Layout(link, info)
  PROVE  /\ \A x \in ring : x \in Nat /\ x \in Word /\ x + 1 \in Word /\ x \in HalfWord
                            /\ x < empty_flag
         /\ link \in [Word -> HalfWord] /\ info \in [Word -> HalfWord]
         /\ rover \in Word /\ empty_flag \in HalfWord /\ empty_flag \notin ring
         /\ dyn_used \in Int /\ var_used \in Int
         /\ u \in Word /\ v \in Word /\ old_rover \in Word
         /\ DOMAIN file.cells \subseteq Word
<1> USE MemoryAssumption
<1>1. Sized(info) /\ Tiles(info)
  BY DEF Sized, Layout, Bounds, FileTypeOK, TypeOK, HalfWord
<1>2. \A x \in ring : x \in Nat /\ x \in Word /\ x + 1 \in Word
  BY <1>1, PlacesAre
<1>3. \A x \in ring : x \in HalfWord /\ x < empty_flag
  BY <1>2 DEF Word, HalfWord
<1> QED BY <1>2, <1>3 DEF Bounds, FileTypeOK, TypeOK, HalfWord

\* The list begins: rover alone.
LEMMA CutRingHolds == ASSUME FileInv, CutRing PROVE FileInv'
<1>1. /\ stage = "merge" /\ pc = "idle" /\ Bounds /\ Running
      /\ u' = rlink(rover) /\ old_rover' = rover /\ stage' = "sort"
      /\ link' = [link EXCEPT ![rover + 1] = empty_flag] /\ info' = info
      /\ UNCHANGED <<lo_mem_max, hi_mem_min, mem_end, avail, rover, dyn_used, var_used, pc,
                     locals, nodes, words, ring, v, file>>
  BY DEF FileInv, CutRing, bounds
<1>2. Layout(link, info) /\ Circle(link, info) /\ Parted(info)
  BY <1>1, IntactLayout DEF Running, TourInv
<1>3. Frame
  BY <1>1 DEF Frame
<1>4. rover \in ring /\ rlink(rover) \in ring
  BY <1>2 DEF Circle, rlink
<1>5. /\ \A x \in ring : x \in Nat /\ x \in Word /\ x + 1 \in Word /\ x < empty_flag
      /\ link \in [Word -> HalfWord] /\ empty_flag \in HalfWord
  BY <1>1, <1>2, SortPlaces
<1>6. /\ link' \in [Word -> HalfWord] /\ link'[rover + 1] = empty_flag
      /\ \A x \in Word : x # rover + 1 => link'[x] = link[x]
  BY <1>1, <1>4, <1>5
<1>7. Layout(link, info)' /\ Parted(info)'
  BY <1>1, <1>2, <1>3, <1>4, <1>6, SecondWords
<1>8. Bounds'
  BY <1>1, <1>2, <1>3, <1>4, <1>5, <1>6, SortPlaces, BoundsFrame
<1>9. PICK B, c, r : B = ring \ {rover} /\ c = rlink(rover) /\ r = rover
  OBVIOUS
<1>10. Row(B, c, r)'
  <2>1. Row(B, c, r)
    BY <1>2, <1>9, RowOfRing
  <2>2. \A x \in B : link'[x + 1] = link[x + 1]
    BY <1>4, <1>5, <1>6, <1>9
  <2> QED BY <2>1, <2>2, RowSame
<1>11. Row(B, u, old_rover)'
  BY <1>1, <1>9, <1>10 DEF Row
<1>12. Upward(ring \ B)'
  <2>1. ring' \ B = {r} /\ rover' = r /\ r < empty_flag /\ r \in Nat
    BY <1>1, <1>4, <1>5, <1>9
  <2>2. rlink(r)' = empty_flag
    BY <1>6, <1>9 DEF rlink
  <2> QED BY <2>1, <2>2 DEF Upward
<1>13. Inserting(B)' /\ B \in SUBSET ring'
  BY <1>1, <1>4, <1>9, <1>11, <1>12 DEF Inserting
<1>14. Storing'
  BY <1>1, <1>7, <1>13 DEF Storing
<1> QED BY <1>1, <1>8, <1>14 DEF FileInv

\* The facts the sorting steps begin with.
LEMMA SortFacts ==
  ASSUME FileInv, stage \in {"sort", "walk"}
  PROVE  /\ Bounds /\ pc = "idle" /\ Layout(link, info) /\ Parted(info)
         /\ \E B \in SUBSET ring : Inserting(B)
BY DEF FileInv, Storing

\* A step of the sorting that leaves the rest of the memory alone keeps the rest
\* of the invariant.
LEMMA SortRest ==
  ASSUME FileInv, stage \in {"sort", "walk", "relink"},
         stage' \in {"sort", "walk", "relink"}, info' \in [Word -> HalfWord],
         UNCHANGED <<bounds, avail, dyn_used, var_used, pc, locals, nodes, words, ring,
                     old_rover, file>>,
         rover' \in ring, u' \in Word, v' \in Word, link' \in [Word -> HalfWord],
         \A x \in Word : (\A y \in ring : x # y + 1) => link'[x] = link[x] /\ info'[x] = info[x],
         stage' \in {"sort", "walk"} => (\E B \in SUBSET ring : Inserting(B))',
         stage' = "relink" => Relinking'
  PROVE  FileInv'
<1>1. Bounds /\ pc = "idle" /\ Layout(link, info) /\ Parted(info)
  BY DEF FileInv, Storing
<1>2. Frame /\ pc' = "idle"
  BY <1>1 DEF Frame, bounds
<1>3. Layout(link, info)' /\ Parted(info)'
  BY <1>1, <1>2, SecondWords
<1>4. Bounds'
  BY <1>1, <1>2, SortPlaces, BoundsFrame
<1>5. Storing'
  BY <1>3 DEF Storing
<1> QED BY <1>2, <1>4, <1>5 DEF FileInv

\* A list that goes up, with one more node: in front, or after node w.
LEMMA UpwardFront ==
  ASSUME NEW A \in SUBSET Nat, Upward(A), NEW d \in Nat, d < rover, rover \in Nat,
         rover' = d, rlink(d)' = rover, \A x \in A : rlink(x)' = rlink(x)
  PROVE  Upward(A \cup {d})'
<1> DEFINE A2 == A \cup {d}
<1>1. rover \in A /\ \A x \in A : rover <= x /\ x < rlink(x) /\ rlink(x) \in A \cup {empty_flag}
  BY DEF Upward
<1>2. \A x, y \in A : x < y => rlink(x) <= y
  BY DEF Upward
<1>3. \A x \in A2 : d <= x /\ x < rlink(x)' /\ rlink(x)' \in A2 \cup {empty_flag}
  BY <1>1
<1>4. \A x, y \in A2 : x < y => rlink(x)' <= y
  BY <1>1, <1>2
<1> HIDE DEF A2
<1>5. Upward(A2)'
  BY <1>1, <1>3, <1>4 DEF Upward, A2
<1> QED BY <1>5 DEF A2

LEMMA UpwardAfter ==
  ASSUME NEW A \in SUBSET Nat, Upward(A), NEW d \in Nat, NEW w \in A, w < d, d < rlink(w),
         empty_flag \in Nat,
         rover' = rover, rlink(d)' = rlink(w), rlink(w)' = d,
         \A x \in A : x # w => rlink(x)' = rlink(x)
  PROVE  Upward(A \cup {d})'
<1> DEFINE A2 == A \cup {d}
<1>1. rover \in A /\ \A x \in A : rover <= x /\ x < rlink(x) /\ rlink(x) \in A \cup {empty_flag}
  BY DEF Upward
<1>2. \A x, y \in A : x < y => rlink(x) <= y
  BY DEF Upward
<1>3. \A x \in A2 : rover <= x /\ x < rlink(x)' /\ rlink(x)' \in A2 \cup {empty_flag}
  BY <1>1
<1>4. ASSUME NEW x \in A2, NEW y \in A2, x < y PROVE rlink(x)' <= y
  <2>1. \A z \in A : z \in Nat /\ rlink(z) \in Nat
    BY <1>1
  <2>2. CASE x = d
    <3>1. y \in A /\ w < y
      BY <1>4, <2>1, <2>2
    <3> QED BY <1>2, <2>2, <3>1
  <2>3. CASE x = w
    <3>1. y = d \/ y \in A
      OBVIOUS
    <3>2. y \in A => rlink(w) <= y
      BY <1>2, <1>4, <2>3
    <3> QED BY <2>1, <2>3, <3>1, <3>2
  <2>4. CASE x \in A /\ x # w /\ x # d
    <3>1. rlink(x)' = rlink(x)
      BY <2>4
    <3>2. y \in A => rlink(x) <= y
      BY <1>2, <1>4, <2>4
    <3>3. y = d => rlink(x) <= d
      <4>1. x < w => rlink(x) <= w
        BY <1>2, <2>4
      <4>2. w < x => rlink(w) <= x
        BY <1>2, <2>4
      <4> QED BY <1>4, <2>1, <2>4, <4>1, <4>2
    <3> QED BY <3>1, <3>2, <3>3
  <2> QED BY <2>2, <2>3, <2>4
<1> HIDE DEF A2
<1>5. Upward(A2)'
  BY <1>1, <1>3, <1>4 DEF Upward, A2
<1> QED BY <1>5 DEF A2

\* The smallest of all goes in front.
LEMMA InsertInFrontHolds == ASSUME FileInv, InsertInFront PROVE FileInv'
<1>1. /\ stage = "sort" /\ u # old_rover /\ u < rover /\ v' = u /\ u' = rlink(u) /\ rover' = u
      /\ link' = [link EXCEPT ![u + 1] = rover] /\ info' = info /\ stage' = "sort"
      /\ UNCHANGED <<bounds, avail, dyn_used, var_used, pc, locals, nodes, words, ring,
                     old_rover, file>>
  BY DEF InsertInFront
<1>2. Bounds /\ pc = "idle" /\ Layout(link, info)
  BY <1>1, SortFacts
<1>3. PICK B \in SUBSET ring : Inserting(B)
  BY <1>1, SortFacts
<1>4. /\ old_rover \in ring \ B /\ Row(B, u, old_rover) /\ Upward(ring \ B)
      /\ rover \in ring
  BY <1>3 DEF Inserting, Upward
<1>5. u \in B /\ Row(B \ {u}, rlink(u), old_rover)
  BY <1>1, <1>4, RowLess
<1>6. /\ \A x \in ring : x \in Nat /\ x \in Word /\ x + 1 \in Word /\ x \in HalfWord
      /\ link \in [Word -> HalfWord] /\ info \in [Word -> HalfWord]
  BY <1>2, SortPlaces
<1>7. /\ link' \in [Word -> HalfWord] /\ link'[u + 1] = rover
      /\ \A x \in Word : x # u + 1 => link'[x] = link[x]
  BY <1>1, <1>4, <1>5, <1>6
<1>8. PICK C, c, e, d, A : /\ C = B \ {u} /\ c = rlink(u) /\ e = old_rover /\ d = u
                           /\ A = ring \ B
  OBVIOUS
<1>9. Row(C, c, e)'
  <2>1. \A x \in C : link'[x + 1] = link[x + 1]
    BY <1>5, <1>6, <1>7, <1>8
  <2> QED BY <1>5, <1>8, <2>1, RowSame
<1>10. Upward(A \cup {d})'
  <2>1. \A x \in A : rlink(x)' = rlink(x)
    BY <1>5, <1>6, <1>7, <1>8 DEF rlink
  <2>2. rlink(d)' = rover /\ rover' = d
    BY <1>1, <1>7, <1>8 DEF rlink
  <2>3. A \in SUBSET Nat /\ d \in Nat /\ d < rover /\ rover \in Nat /\ Upward(A)
    BY <1>1, <1>4, <1>5, <1>6, <1>8
  <2> QED BY <2>1, <2>2, <2>3, UpwardFront
<1>11. Row(C, u, old_rover)'
  BY <1>1, <1>8, <1>9 DEF Row
<1>12. ring' \ C = A \cup {d}
  BY <1>1, <1>5, <1>8
<1>13. Upward(ring \ C)'
  BY <1>10, <1>12 DEF Upward
<1>14. Inserting(C)' /\ C \in SUBSET ring'
  BY <1>1, <1>4, <1>5, <1>8, <1>11, <1>13 DEF Inserting
<1>15. u' \in Word /\ v' \in Word
  <2>1. rlink(u) \in B \cup {old_rover}
    BY <1>4, <1>5 DEF Row
  <2> QED BY <1>1, <1>4, <1>5, <1>6, <2>1
<1> QED BY <1>1, <1>5, <1>6, <1>7, <1>14, <1>15, SortRest

\* Or the list is searched,
LEMMA FindPlaceHolds == ASSUME FileInv, FindPlace PROVE FileInv'
<1>1. /\ stage = "sort" /\ u # old_rover /\ u >= rover /\ v' = rover /\ stage' = "walk"
      /\ UNCHANGED <<vars, u, old_rover, file>>
  BY DEF FindPlace
<1>2. Bounds /\ pc = "idle" /\ Layout(link, info)
  BY <1>1, SortFacts
<1>3. PICK B \in SUBSET ring : Inserting(B)
  BY <1>1, SortFacts
<1>4. u \in B /\ rover \in ring \ B /\ rover # u
  <2>1. Row(B, u, old_rover) /\ rover \in ring \ B
    BY <1>3 DEF Inserting, Upward
  <2> QED BY <1>1, <2>1, RowLess
<1>5. \A x \in ring : x \in Nat /\ x \in Word
  BY <1>2, SortPlaces
<1>6. Inserting(B)'
  BY <1>1, <1>3, <1>4, <1>5 DEF Inserting, vars, Row, Upward, rlink
<1>7. link \in [Word -> HalfWord] /\ info \in [Word -> HalfWord] /\ u \in Word
  BY <1>2, SortPlaces
<1> QED BY <1>1, <1>4, <1>5, <1>6, <1>7, SortRest DEF vars, bounds, locals

LEMMA WalkHolds == ASSUME FileInv, Walk PROVE FileInv'
<1>1. /\ stage = "walk" /\ rlink(v) < u /\ v' = rlink(v) /\ stage' = "walk"
      /\ UNCHANGED <<vars, u, old_rover, file>>
  BY DEF Walk
<1>2. Bounds /\ pc = "idle" /\ Layout(link, info)
  BY <1>1, SortFacts
<1>3. PICK B \in SUBSET ring : Inserting(B)
  BY <1>1, SortFacts
<1>4. u \in B /\ rlink(v) \in ring \ B /\ rover \in ring
  <2>1. u \in B /\ v \in ring \ B /\ Upward(ring \ B)
    BY <1>1, <1>3 DEF Inserting
  <2>2. rlink(v) \in (ring \ B) \cup {empty_flag} /\ rover \in ring
    BY <2>1 DEF Upward
  <2>3. u < empty_flag /\ empty_flag \in Nat /\ u \in Nat
    BY <1>2, <2>1, SortPlaces, MemoryAssumption
  <2> QED BY <1>1, <2>1, <2>2, <2>3
<1>5. \A x \in ring : x \in Nat /\ x \in Word
  BY <1>2, SortPlaces
<1>6. Inserting(B)'
  BY <1>1, <1>3, <1>4, <1>5 DEF Inserting, vars, Row, Upward, rlink
<1>7. link \in [Word -> HalfWord] /\ info \in [Word -> HalfWord] /\ u \in Word
  BY <1>2, SortPlaces
<1> QED BY <1>1, <1>4, <1>5, <1>6, <1>7, SortRest DEF vars, bounds, locals

\* and the node goes where it belongs.
LEMMA InsertAfterHolds == ASSUME FileInv, InsertAfter PROVE FileInv'
<1>1. /\ stage = "walk" /\ rlink(v) >= u /\ u' = rlink(u) /\ stage' = "sort"
      /\ link' = [link EXCEPT ![u + 1] = rlink(v), ![v + 1] = u] /\ info' = info
      /\ UNCHANGED <<bounds, avail, rover, dyn_used, var_used, pc, locals, nodes, words, ring,
                     v, old_rover, file>>
  BY DEF InsertAfter
<1>2. Bounds /\ pc = "idle" /\ Layout(link, info)
  BY <1>1, SortFacts
<1>3. PICK B \in SUBSET ring : Inserting(B)
  BY <1>1, SortFacts
<1>4. /\ old_rover \in ring \ B /\ Row(B, u, old_rover) /\ Upward(ring \ B)
      /\ rover \in ring /\ u \in B /\ v \in ring \ B /\ v < u
  BY <1>1, <1>3 DEF Inserting, Upward
<1>5. Row(B \ {u}, rlink(u), old_rover)
  BY <1>4, RowLess
<1>6. /\ \A x \in ring : x \in Nat /\ x \in Word /\ x + 1 \in Word /\ x \in HalfWord
      /\ link \in [Word -> HalfWord] /\ info \in [Word -> HalfWord] /\ empty_flag \in Nat
      /\ \A x \in ring : x < empty_flag
      /\ empty_flag \in HalfWord /\ empty_flag \notin ring
  BY <1>2, SortPlaces, MemoryAssumption
<1>7. rlink(v) \in HalfWord /\ u < rlink(v)
  <2>1. rlink(v) \in (ring \ B) \cup {empty_flag}
    BY <1>4 DEF Upward
  <2>2. rlink(v) # u /\ rlink(v) \in Nat /\ u \in Nat
    BY <1>4, <1>6, <2>1
  <2> QED BY <1>1, <1>6, <2>1, <2>2
<1>8. /\ link' \in [Word -> HalfWord] /\ link'[u + 1] = rlink(v) /\ link'[v + 1] = u
      /\ \A x \in Word : x # u + 1 /\ x # v + 1 => link'[x] = link[x]
  <2>1. u \in Nat /\ v \in Nat /\ u + 1 \in Word /\ v + 1 \in Word /\ u + 1 # v + 1
        /\ u \in HalfWord
    BY <1>4, <1>6
  <2> QED BY <1>1, <1>6, <1>7, <2>1
<1>9. PICK C, c, e, d, A, w : /\ C = B \ {u} /\ c = rlink(u) /\ e = old_rover /\ d = u
                              /\ A = ring \ B /\ w = v
  OBVIOUS
<1>10. Row(C, c, e)'
  <2>1. \A x \in C : link'[x + 1] = link[x + 1]
    BY <1>4, <1>6, <1>8, <1>9
  <2> QED BY <1>5, <1>9, <2>1, RowSame
<1>11. Upward(A \cup {d})'
  <2>1. \A x \in A : x # w => rlink(x)' = rlink(x)
    BY <1>4, <1>6, <1>8, <1>9 DEF rlink
  <2>2. rlink(d)' = rlink(w) /\ rlink(w)' = d /\ rover' = rover
    BY <1>1, <1>8, <1>9 DEF rlink
  <2>3. A \in SUBSET Nat /\ d \in Nat /\ w < d /\ d < rlink(w) /\ Upward(A) /\ w \in A
    BY <1>4, <1>6, <1>7, <1>9
  <2> QED BY <1>6, <2>1, <2>2, <2>3, UpwardAfter
<1>12. Row(C, u, old_rover)'
  BY <1>1, <1>9, <1>10 DEF Row
<1>13. ring' \ C = A \cup {d}
  BY <1>1, <1>4, <1>9
<1>14. Upward(ring \ C)'
  BY <1>11, <1>13 DEF Upward
<1>15. Inserting(C)' /\ C \in SUBSET ring'
  BY <1>1, <1>4, <1>9, <1>12, <1>14 DEF Inserting
<1>16. u' \in Word /\ v' \in Word
  <2>1. rlink(u) \in B \cup {old_rover}
    BY <1>4 DEF Row
  <2> QED BY <1>1, <1>4, <1>6, <2>1
<1> QED BY <1>1, <1>4, <1>6, <1>8, <1>15, <1>16, SortRest

\* The left pointers are put in, from rover on.
LEMMA StartRelinkHolds == ASSUME FileInv, StartRelink PROVE FileInv'
<1>1. /\ stage = "sort" /\ u = old_rover /\ u' = rover /\ stage' = "relink"
      /\ UNCHANGED <<vars, v, old_rover, file>>
  BY DEF StartRelink
<1>2. Bounds /\ pc = "idle" /\ Layout(link, info)
  BY <1>1, SortFacts
<1>3. PICK B \in SUBSET ring : Inserting(B)
  BY <1>1, SortFacts
<1>4. Upward(ring) /\ rover \in ring
  <2>1. Row(B, u, u) /\ Upward(ring \ B)
    BY <1>1, <1>3 DEF Inserting
  <2>2. B = {}
    BY <2>1 DEF Row
  <2>3. ring \ B = ring
    BY <2>2
  <2> QED BY <2>1, <2>3 DEF Upward
<1>5. /\ \A x \in ring : x \in Nat /\ x \in Word
      /\ link \in [Word -> HalfWord] /\ info \in [Word -> HalfWord] /\ v \in Word
  BY <1>2, SortPlaces
<1>6. \A y \in ring : ~(y < rover)
  BY <1>4, <1>5 DEF Upward
<1>7. Relinking'
  BY <1>1, <1>4, <1>6 DEF Relinking, vars, Upward, rlink, llink
<1> QED BY <1>1, <1>4, <1>5, <1>7, SortRest DEF vars, bounds, locals

LEMMA RelinkHolds == ASSUME FileInv, Relink PROVE FileInv'
<1>1. /\ stage = "relink" /\ rlink(u) # empty_flag /\ u' = rlink(u) /\ stage' = "relink"
      /\ info' = [info EXCEPT ![rlink(u) + 1] = u] /\ link' = link
      /\ UNCHANGED <<bounds, avail, rover, dyn_used, var_used, pc, locals, nodes, words, ring,
                     v, old_rover, file>>
  BY DEF Relink
<1>2. Bounds /\ pc = "idle" /\ Layout(link, info) /\ Relinking
  BY <1>1 DEF FileInv, Storing
<1>3. PICK w : w = rlink(u)
  OBVIOUS
<1>4. /\ \A x \in ring : x \in Nat /\ x \in Word /\ x + 1 \in Word /\ x \in HalfWord
      /\ link \in [Word -> HalfWord] /\ info \in [Word -> HalfWord] /\ v \in Word
  BY <1>2, SortPlaces
<1>5. /\ u \in ring /\ w \in ring /\ u < w /\ rover \in ring
      /\ \A x \in ring : rlink(x) \in ring \cup {empty_flag}
      /\ \A x, y \in ring : x < y => rlink(x) <= y
      /\ \A y \in ring : y < u => llink(rlink(y)) = y
  BY <1>1, <1>2, <1>3 DEF Relinking, Upward
<1>6. /\ info' \in [Word -> HalfWord] /\ info'[w + 1] = u
      /\ \A x \in Word : x # w + 1 => info'[x] = info[x]
  BY <1>1, <1>3, <1>4, <1>5
<1>7. ASSUME NEW y \in ring, y < w PROVE info'[rlink(y) + 1] = y
  <2>1. y <= u
    BY <1>3, <1>4, <1>5, <1>7
  <2>2. CASE y = u
    BY <1>3, <1>6, <2>2
  <2>3. CASE y < u
    <3>1. rlink(y) <= u /\ llink(rlink(y)) = y /\ rlink(y) \in ring \cup {empty_flag}
      BY <1>5, <2>3
    <3>2. u < empty_flag /\ empty_flag \in Nat
      BY <1>2, <1>5, SortPlaces, MemoryAssumption
    <3>3. rlink(y) \in ring
      BY <1>4, <1>5, <3>1, <3>2
    <3>4. rlink(y) # w
      BY <1>4, <1>5, <3>1, <3>3
    <3>5. rlink(y) + 1 \in Word /\ rlink(y) + 1 # w + 1
      BY <1>4, <1>5, <3>3, <3>4
    <3> QED BY <1>6, <3>1, <3>5 DEF llink
  <2> QED BY <1>4, <1>5, <2>1, <2>2, <2>3
<1>8. Relinking'
  <2>1. Upward(ring)'
    <3>1. Upward(ring)
      BY <1>2 DEF Relinking
    <3> QED BY <1>1, <3>1 DEF Upward, rlink
  <2> QED BY <1>1, <1>3, <1>5, <1>7, <2>1 DEF Relinking, rlink, llink
<1> QED BY <1>1, <1>3, <1>4, <1>5, <1>6, <1>8, SortRest

-----------------------------------------------------------------------------
(* The ring, sorted.                                                       *)

\* Sets of numbers have least and greatest members.
LEMMA LeastOf ==
  ASSUME NEW S \in SUBSET Nat, S # {}
  PROVE  \E x \in S : \A y \in S : x <= y
<1>1. S \subseteq Nat
  OBVIOUS
<1>2. PICK x \in S : \A y \in S : <<y, x>> \notin Less
  BY <1>1, LessWellFounded, WFMin
<1>3. ASSUME NEW y \in S PROVE x <= y
  <2>1. <<y, x>> \in Nat \X Nat
    OBVIOUS
  <2> QED BY <1>2, <2>1 DEF Less
<1> QED BY <1>3

LEMMA GreatestOf ==
  ASSUME NEW S \in SUBSET Nat, S # {}, NEW M \in Nat, \A x \in S : x <= M
  PROVE  \E x \in S : \A y \in S : y <= x
<1> DEFINE T == {M - x : x \in S}
<1>1. T \in SUBSET Nat /\ T # {}
  <2>1. \A x \in S : x \in Nat /\ M - x \in Nat
    OBVIOUS
  <2> QED BY <2>1
<1> HIDE DEF T
<1>2. PICK z \in T : \A y \in T : z <= y
  BY <1>1, LeastOf
<1> USE DEF T
<1>3. PICK x \in S : z = M - x
  OBVIOUS
<1>4. ASSUME NEW y \in S PROVE y <= x
  <2>1. M - y \in T
    OBVIOUS
  <2>2. z <= M - y
    BY <1>2, <2>1
  <2> QED BY <1>3, <2>2
<1> QED BY <1>4

\* A list that goes up misses no node: each but the first has one before it.
LEMMA Predecessor ==
  ASSUME NEW A, A \subseteq Nat, empty_flag \in Nat, \A y \in A : y < empty_flag,
         Upward(A), NEW x \in A, x # rover
  PROVE  \E y \in A : y < x /\ rlink(y) = x
<1> DEFINE S == {y \in A : y < x}
<1>1. /\ rover \in A /\ rover < x
      /\ \A y \in A : y < rlink(y) /\ rlink(y) \in A \cup {empty_flag}
      /\ \A y, z \in A : y < z => rlink(y) <= z
  BY DEF Upward
<1>2. S \in SUBSET Nat /\ S # {} /\ x \in Nat /\ \A y \in S : y <= x
  <2>1. \A y \in A : y \in Nat
    OBVIOUS
  <2>2. rover \in S
    BY <1>1
  <2>3. \A y \in S : y \in Nat /\ x \in Nat /\ y <= x
    BY <2>1
  <2> HIDE DEF S
  <2> QED BY <2>1, <2>2, <2>3
<1> HIDE DEF S
<1>3. PICK y \in S : \A z \in S : z <= y
  BY <1>2, GreatestOf
<1> USE DEF S
<1>4. y \in A /\ y < x /\ y < rlink(y) /\ rlink(y) <= x /\ rlink(y) \in A \cup {empty_flag}
  BY <1>1, <1>3
<1>5. rlink(y) \in A
  BY <1>4
<1>6. ~(rlink(y) < x)
  <2>1. rlink(y) < x => rlink(y) \in S
    BY <1>5
  <2>2. rlink(y) \in Nat /\ y \in Nat
    BY <1>4, <1>5
  <2> QED BY <1>3, <1>4, <2>1, <2>2
<1>7. rlink(y) = x
  <2>1. rlink(y) \in Nat
    BY <1>5
  <2> QED BY ONLY <1>2, <1>4, <1>6, <2>1
<1> QED BY <1>4, <1>7

\* Links both ways around, rising from rover, are one circle.
LEMMA RisingWhole ==
  ASSUME ring \subseteq Word, mem_max \in Nat, NEW l, NEW i, Rising(l), rover \in ring,
         \A x \in ring : /\ i[x + 1] \in ring /\ l[i[x + 1] + 1] = x
                         /\ l[x + 1] \in ring /\ i[l[x + 1] + 1] = x
  PROVE  Circle(l, i)
<1>1. \A x \in ring : x \in Nat /\ x <= mem_max
  BY DEF Word
<1>2. \A x \in ring : rover <= x /\ l[x + 1] \in ring /\ (l[x + 1] = rover \/ x < l[x + 1])
  BY DEF Rising
<1>3. ASSUME NEW S \in SUBSET ring, S # {}, \A x \in S : l[x + 1] \in S
      PROVE  S = ring
  <2>1. PICK g \in S : \A y \in S : y <= g
    <3>1. S \in SUBSET Nat /\ \A x \in S : x <= mem_max
      BY <1>1
    <3> QED BY <1>3, <3>1, GreatestOf
  <2>2. rover \in S
    <3>1. l[g + 1] \in S /\ l[g + 1] <= g /\ g \in Nat /\ l[g + 1] \in Nat
      BY <1>1, <1>3, <2>1
    <3> QED BY <1>2, <3>1
  <2>3. ASSUME ring \ S # {} PROVE FALSE
    <3>1. PICK x \in ring \ S : \A y \in ring \ S : x <= y
      <4>1. ring \ S \in SUBSET Nat
        BY <1>1
      <4> QED BY <2>3, <4>1, LeastOf
    <3> DEFINE y == i[x + 1]
    <3>2. y \in ring /\ l[y + 1] = x /\ x # rover
      BY <2>2, <3>1
    <3> HIDE DEF y
    <3>3. y < x
      BY <1>2, <3>2
    <3>4. y \in S
      BY <1>1, <3>1, <3>2, <3>3
    <3> QED BY <1>3, <3>1, <3>2, <3>4
  <2> QED BY <2>3
<1> QED BY <1>3 DEF Circle

\* The ring closes, and the dump begins.
LEMMA CloseRingHolds == ASSUME FileInv, CloseRing PROVE FileInv'
<1> USE MemoryAssumption
<1>1. /\ stage = "relink" /\ rlink(u) = empty_flag
      /\ link' = [link EXCEPT ![u + 1] = rover] /\ info' = [info EXCEPT ![rover + 1] = u]
      /\ var_used' = 0 /\ file' = [NoFile EXCEPT !.lo = lo_mem_max, !.rover = rover]
      /\ u' = 0 /\ v' = rover /\ stage' = "dump"
      /\ UNCHANGED <<lo_mem_max, hi_mem_min, mem_end, avail, rover, dyn_used, pc, locals,
                     nodes, words, ring, old_rover>>
  BY DEF CloseRing, bounds
<1>2. Bounds /\ pc = "idle" /\ Layout(link, info) /\ Relinking /\ Parted(info)
  BY <1>1 DEF FileInv, Storing
<1>3. Frame /\ pc' = "idle"
  BY <1>1, <1>2 DEF Frame
<1>4. /\ \A x \in ring : x \in Nat /\ x \in Word /\ x + 1 \in Word /\ x \in HalfWord
      /\ link \in [Word -> HalfWord] /\ info \in [Word -> HalfWord]
      /\ \A x \in ring : x < empty_flag
      /\ dyn_used \in Int /\ old_rover \in Word /\ rover \in Word
  BY <1>2, SortPlaces
<1>5. /\ u \in ring /\ rover \in ring /\ Upward(ring)
      /\ \A x \in ring : rover <= x /\ x < rlink(x) /\ rlink(x) \in ring \cup {empty_flag}
      /\ \A x, y \in ring : x < y => rlink(x) <= y
      /\ \A y \in ring : y < u => llink(rlink(y)) = y
  BY <1>2 DEF Relinking, Upward
<1>6. /\ link' \in [Word -> HalfWord] /\ link'[u + 1] = rover
      /\ \A x \in Word : x # u + 1 => link'[x] = link[x]
  BY <1>1, <1>4, <1>5
<1>7. /\ info' \in [Word -> HalfWord] /\ info'[rover + 1] = u
      /\ \A x \in Word : x # rover + 1 => info'[x] = info[x]
  BY <1>1, <1>4, <1>5
<1>8. \A x \in Word : (\A y \in ring : x # y + 1) => link'[x] = link[x] /\ info'[x] = info[x]
  BY <1>5, <1>6, <1>7
<1>9. Layout(link, info)' /\ Parted(info)'
  BY <1>2, <1>3, <1>8, SecondWords
<1>10. \A x \in ring : x <= u
  BY <1>1, <1>4, <1>5
<1>11. ASSUME NEW x \in ring, x # u
       PROVE  x < u /\ rlink(x) \in ring /\ link'[x + 1] = rlink(x) /\ llink(rlink(x)) = x
              /\ rlink(x) # rover
  <2>1. x < u
    BY <1>4, <1>5, <1>10, <1>11
  <2>2. rlink(x) <= u /\ rlink(x) \in ring \cup {empty_flag} /\ x < rlink(x) /\ rover <= x
        /\ llink(rlink(x)) = x
    BY <1>5, <2>1
  <2>3. u < empty_flag /\ u \in Nat /\ x \in Nat /\ rover \in Nat
    BY <1>4, <1>5
  <2>4. rlink(x) \in ring
    BY <2>2, <2>3
  <2>5. link'[x + 1] = rlink(x)
    <3>1. x + 1 \in Word /\ x + 1 # u + 1
      BY <1>4, <1>5, <1>11, <2>3
    <3> QED BY <1>6, <3>1 DEF rlink
  <2> QED BY <2>1, <2>2, <2>3, <2>4, <2>5
<1>12. Rising(link')
  <2>1. \A x \in ring : rover <= x /\ link'[x + 1] \in ring
                        /\ (link'[x + 1] = rover \/ x < link'[x + 1])
    BY <1>5, <1>6, <1>11
  <2>2. ASSUME NEW x \in ring, NEW y \in ring, x < y PROVE x < link'[x + 1] /\ link'[x + 1] <= y
    <3>1. x # u
      BY <1>4, <1>10, <2>2
    <3> QED BY <1>5, <1>11, <2>2, <3>1
  <2> QED BY <2>1, <2>2 DEF Rising
<1>13. ASSUME NEW x \in ring
       PROVE  /\ info'[x + 1] \in ring /\ link'[info'[x + 1] + 1] = x
              /\ link'[x + 1] \in ring /\ info'[link'[x + 1] + 1] = x
  <2>1. info'[x + 1] \in ring /\ link'[info'[x + 1] + 1] = x
    <3>1. CASE x = rover
      BY <1>5, <1>6, <1>7, <3>1
    <3>2. CASE x # rover
      <4>1. PICK y \in ring : y < x /\ rlink(y) = x
        BY <1>4, <1>5, <3>2, Predecessor
      <4>2. y # u
        BY <1>4, <1>5, <1>10, <4>1
      <4>3. llink(x) = y /\ link'[y + 1] = x
        BY <1>11, <4>1, <4>2
      <4>4. info'[x + 1] = y
        <5>1. x + 1 \in Word /\ x + 1 # rover + 1
          BY <1>4, <1>5, <3>2
        <5> QED BY <1>7, <4>3, <5>1 DEF llink
      <4> QED BY <4>3, <4>4
    <3> QED BY <3>1, <3>2
  <2>2. link'[x + 1] \in ring /\ info'[link'[x + 1] + 1] = x
    <3>1. CASE x = u
      BY <1>5, <1>6, <1>7, <3>1
    <3>2. CASE x # u
      <4>1. /\ rlink(x) \in ring /\ link'[x + 1] = rlink(x) /\ llink(rlink(x)) = x
            /\ rlink(x) # rover
        BY <1>11, <3>2
      <4>2. rlink(x) + 1 \in Word /\ rlink(x) + 1 # rover + 1
        BY <1>4, <1>5, <4>1
      <4> QED BY <1>7, <4>1, <4>2 DEF llink
    <3> QED BY <3>1, <3>2
  <2> QED BY <2>1, <2>2
<1>14. Circle(link', info')
  <2>1. ring \subseteq Word /\ mem_max \in Nat
    BY <1>4
  <2> QED BY <1>5, <1>12, <1>13, <2>1, RisingWhole
<1>15. Circle(link, info)' /\ Rising(link)'
  BY <1>1, <1>3, <1>12, <1>14, LayoutFrame
<1>16. /\ file'.cells = [x \in {} |-> 0] /\ file'.count = 0
       /\ file'.lo = lo_mem_max /\ file'.rover = rover
       /\ DOMAIN file' = Headings
  BY <1>1 DEF NoFile, Headings
<1>17. DOMAIN file'.cells = {}
  BY <1>16
<1>18. Dumped'
  <2>1. Reached(info)'
    BY <1>1, <1>4, <1>5 DEF Reached, Walked
  <2>2. (0..u' - 1) \ Within2(info)' = {}
    BY <1>1
  <2>3. Cardinality({}) = 0
    BY FS_EmptySet
  <2> QED BY <1>1, <1>16, <1>17, <2>1, <2>2, <2>3 DEF Dumped
<1>19. Bounds'
  <2>1. 0 \in Word /\ 0 \in Int
    BY DEF Word
  <2> QED BY <1>1, <1>2, <1>3, <1>4, <1>6, <1>7, <1>17, <2>1, BoundsFrame
<1>20. Storing'
  BY <1>1, <1>9, <1>15, <1>18 DEF Storing
<1> QED BY <1>1, <1>3, <1>19, <1>20 DEF FileInv

-----------------------------------------------------------------------------
(* What the dump counts.                                                   *)

\* The sums of the sizes of held nodes are numbers, grow by the nodes they
\* pass, and stay when they pass none.
LEMMA SizesStep ==
  ASSUME Bounds, NEW y \in 0..mem_max
  PROVE  /\ SizesBelow[y] \in Int /\ SizesBelow[mem_max + 1] \in Int
         /\ SizesBelow[y + 1] = SizesBelow[y] + (IF y \in DOMAIN nodes THEN nodes[y] ELSE 0)
<1>1. mem_max + 1 \in Nat /\ mem_max \in Nat
  BY MemoryAssumption
<1>2. \A z \in 0..mem_max + 1 :
         SizesBelow[z] = IF z = 0 THEN 0 ELSE SizesBelow[z - 1] + Weight(nodes, z - 1)
  BY SizesAre, Zenon DEF IsSum
<1>3. \A x : Weight(nodes, x) \in Int
  <2>1. \A x \in DOMAIN nodes : nodes[x] \in Sizes
    BY DEF Bounds, FileTypeOK, TypeOK
  <2>2. \A z \in Sizes : z \in Int
    BY MemoryAssumption
  <2> QED BY <2>1, <2>2 DEF Weight
<1> DEFINE S == {z \in Nat : z <= mem_max + 1 => SizesBelow[z] \in Int}
<1>4. 0 \in S
  BY <1>1, <1>2
<1>5. \A z \in Nat : z \in S => z + 1 \in S
  <2> SUFFICES ASSUME NEW z \in Nat, z \in S, z + 1 <= mem_max + 1 PROVE SizesBelow[z + 1] \in Int
    OBVIOUS
  <2>1. z + 1 \in 0..mem_max + 1 /\ z + 1 # 0 /\ (z + 1) - 1 = z /\ z <= mem_max + 1
    BY <1>1
  <2>2. SizesBelow[z + 1] = SizesBelow[z] + Weight(nodes, z)
    BY <1>2, <2>1
  <2> QED BY <1>3, <2>1, <2>2
<1>6. Nat \subseteq S
  <2> HIDE DEF S
  <2> QED BY <1>4, <1>5, NatSetInduction
<1>7. y \in Nat /\ y + 1 \in 0..mem_max + 1 /\ y + 1 # 0 /\ (y + 1) - 1 = y
  BY <1>1
<1>8. SizesBelow[y + 1] = SizesBelow[y] + Weight(nodes, y)
  BY <1>2, <1>7
<1> QED BY <1>1, <1>6, <1>7, <1>8 DEF Weight

\* Where no held node begins the sum stays the same.
LEMMA SizesStay ==
  ASSUME Bounds, NEW y \in 0..mem_max + 1, NEW d \in 0..mem_max + 1, y <= d,
         \A x \in y..d - 1 : x \notin DOMAIN nodes
  PROVE  SizesBelow[d] = SizesBelow[y]
<1>0. mem_max \in Nat
  BY MemoryAssumption
<1> DEFINE S == {z \in Nat : y <= z /\ z <= d => SizesBelow[z] = SizesBelow[y]}
<1>1. 0 \in S
  OBVIOUS
<1>2. \A z \in Nat : z \in S => z + 1 \in S
  <2> SUFFICES ASSUME NEW z \in Nat, z \in S, y <= z + 1, z + 1 <= d
               PROVE  SizesBelow[z + 1] = SizesBelow[y]
    OBVIOUS
  <2>1. CASE y = z + 1
    BY <2>1
  <2>2. CASE y # z + 1
    <3>1. y <= z /\ z <= d /\ z \in 0..mem_max /\ z \in y..d - 1
      BY <1>0, <2>2
    <3>2. SizesBelow[z] = SizesBelow[y] /\ SizesBelow[z] \in Int
      BY <3>1, SizesStep
    <3>3. SizesBelow[z + 1] = SizesBelow[z] + 0
      BY <3>1, SizesStep
    <3> QED BY <3>2, <3>3
  <2> QED BY <2>1, <2>2
<1>3. d \in S
  <2>1. d \in Nat
    BY <1>0
  <2> HIDE DEF S
  <2> QED BY <1>1, <1>2, <2>1, NatSetInduction
<1> QED BY <1>3

\* The words from the first node, or from the end of an empty one, to the next
\* empty node are all held.
LEMMA HeldBetween ==
  ASSUME Bounds, pc = "idle", Tiles(info), NEW y \in Node, NEW d \in Node \cup {lo_mem_max},
         y <= d, \A x \in ring : ~(y <= x /\ x < d)
  PROVE  SizesBelow[d] = SizesBelow[y] + (d - y)
<1>0. mem_max \in Nat
  BY MemoryAssumption
<1>1. Sized(info)
  BY DEF Sized, Bounds, FileTypeOK, TypeOK, HalfWord
<1>2. /\ \A x \in Node : /\ x \in Nat /\ x \in Word /\ Extent(info, x) \in Nat
                         /\ x + 2 <= x + Extent(info, x) /\ x + Extent(info, x) <= lo_mem_max
      /\ lo_mem_max \in Nat /\ lo_mem_max \in Word
  BY <1>1, PlacesAre
<1>3. /\ \A x \in Node : x + Extent(info, x) \in Node \cup {lo_mem_max}
      /\ \A x, z \in Node : x < z => x + Extent(info, x) <= z
  BY DEF Tiles
<1> DEFINE S == {z \in Nat : z <= mem_max => \A x \in Node \cup {lo_mem_max} :
                   y <= x /\ x <= d /\ x <= z => SizesBelow[x] = SizesBelow[y] + (x - y)}
<1>4. SizesBelow[y] \in Int /\ y \in Nat /\ y <= mem_max /\ d \in Nat /\ d <= mem_max
  <2>1. y \in 0..mem_max /\ d \in 0..mem_max
    BY <1>2 DEF Word
  <2> QED BY <2>1, SizesStep
<1>5. 0 \in S
  <2> SUFFICES ASSUME NEW x \in Node \cup {lo_mem_max}, y <= x, x <= 0
               PROVE  SizesBelow[x] = SizesBelow[y] + (x - y)
    OBVIOUS
  <2>1. x = y
    BY <1>2, <1>4
  <2> QED BY <1>4, <2>1
<1>6. \A z \in Nat : z \in S => z + 1 \in S
  <2> SUFFICES ASSUME NEW z \in Nat, z \in S, z + 1 <= mem_max, NEW x \in Node \cup {lo_mem_max},
                      y <= x, x <= d, x <= z + 1
               PROVE  SizesBelow[x] = SizesBelow[y] + (x - y)
    OBVIOUS
  <2>1. x \in Nat
    BY <1>2
  <2>2. CASE x = y
    BY <1>4, <2>2
  <2>3. CASE x <= z
    BY <1>0, <2>3
  <2>4. CASE x = z + 1 /\ y < x
    <3> DEFINE T == {c \in Node : c < x}
    <3>1. PICK c \in T : \A e \in T : e <= c
      <4>1. T \in SUBSET Nat /\ y \in T /\ \A e \in T : e <= x
        <5>1. \A e \in T : e \in Nat /\ e <= x
          BY <1>2, <2>1
        <5>2. y \in T
          BY <2>4
        <5> HIDE DEF T
        <5> QED BY <5>1, <5>2
      <4> HIDE DEF T
      <4> QED BY <2>1, <4>1, GreatestOf
    <3>2. c \in Node /\ c < x /\ y <= c /\ c \in Nat
      BY <1>2, <2>4, <3>1
    <3>3. c + Extent(info, c) = x
      <4> DEFINE e == c + Extent(info, c)
      <4>1. e \in Nat /\ c < e /\ e \in Node \cup {lo_mem_max} /\ e <= lo_mem_max
        BY <1>2, <1>3, <3>2
      <4>2. e <= x
        BY <1>2, <1>3, <2>1, <3>2
      <4>3. ~(e < x)
        <5>1. e < x => e \in Node
          <6>1. x <= lo_mem_max
            BY <1>2, <2>1
          <6> QED BY <1>2, <2>1, <4>1, <6>1
        <5> QED BY <3>1, <3>2, <4>1, <5>1
      <4> HIDE DEF e
      <4>4. e = x
        BY <2>1, <4>1, <4>2, <4>3
      <4> QED BY <4>4 DEF e
    <3>4. c \in DOMAIN nodes /\ Extent(info, c) = nodes[c] /\ nodes[c] \in Nat
      <4>1. c \notin ring
        BY <1>4, <2>1, <3>2
      <4> QED BY <1>2, <3>2, <4>1 DEF Extent, Node
    <3>5. SizesBelow[c] = SizesBelow[y] + (c - y)
      <4>1. c <= d /\ c <= z /\ z <= mem_max
        BY <1>0, <1>4, <2>1, <2>4, <3>2
      <4> QED BY <3>2, <4>1
    <3>6. SizesBelow[c + 1] = SizesBelow[c] + nodes[c]
      <4>1. c \in 0..mem_max
        BY <1>2, <3>2 DEF Word
      <4> QED BY <3>4, <4>1, SizesStep
    <3>7. SizesBelow[x] = SizesBelow[c + 1]
      <4>1. \A e \in c + 1..x - 1 : e \notin DOMAIN nodes
        <5> SUFFICES ASSUME NEW e \in c + 1..x - 1, e \in DOMAIN nodes PROVE FALSE
          OBVIOUS
        <5>1. e \in T
          BY <2>1, <3>2 DEF Node
        <5> QED BY <3>1, <3>2, <5>1
      <4>2. c + 1 \in 0..mem_max + 1 /\ x \in 0..mem_max + 1 /\ c + 1 <= x
        BY <1>0, <1>4, <2>1, <3>2
      <4> HIDE DEF T, S
      <4> QED BY <4>1, <4>2, SizesStay
    <3> HIDE DEF S, T
    <3> QED BY <1>4, <2>1, <3>2, <3>3, <3>4, <3>5, <3>6, <3>7
  <2> QED BY <1>4, <2>1, <2>2, <2>3, <2>4
<1>7. mem_max \in S
  <2> HIDE DEF S
  <2> QED BY <1>0, <1>5, <1>6, NatSetInduction
<1> QED BY <1>0, <1>4, <1>7

\* What has been counted when all is dumped up to u, and the held words from
\* there to d, are what is held below d.
LEMMA HeldUpTo ==
  ASSUME Bounds, pc = "idle", Tiles(info), NEW d \in Node \cup {lo_mem_max}, Walked(info, d)
  PROVE  /\ (IF u = 0 THEN 0 ELSE lo_mem_stat_max + 1 + SizesBelow[u]) + d - u
               = lo_mem_stat_max + 1 + SizesBelow[d]
         /\ u \in Nat /\ d \in Nat /\ u <= d
<1> DEFINE first == lo_mem_stat_max + 1
<1>0. mem_max \in Nat /\ first \in Nat
  BY MemoryAssumption
<1>1. Sized(info)
  BY DEF Sized, Bounds, FileTypeOK, TypeOK, HalfWord
<1>2. /\ \A x \in Node : /\ x \in Nat /\ x \in Word /\ Extent(info, x) \in Nat
                         /\ x + 2 <= x + Extent(info, x) /\ x + Extent(info, x) <= lo_mem_max
                         /\ lo_mem_stat_max < x
      /\ lo_mem_max \in Nat /\ lo_mem_max \in Word
      /\ \A x \in ring : x \in Node /\ Extent(info, x) = info[x]
      /\ \A x \in DOMAIN nodes : x \in Node
      /\ lo_mem_stat_max \in Nat
  BY <1>1, PlacesAre
<1>3. d \in Nat /\ u \in Nat /\ u <= d /\ d <= lo_mem_max /\ d <= mem_max
  <2>1. d \in Nat /\ d <= lo_mem_max /\ d \in Word
    BY <1>2
  <2> QED BY <2>1 DEF Walked, Word
<1>4. \A x \in ring : x < d => x + info[x] <= u
  BY DEF Walked
<1>5. CASE u = 0
  <2>1. first \in Node
    BY DEF Tiles
  <2>2. \A x \in ring : ~(x < d)
    BY <1>2, <1>4, <1>5
  <2>3. first <= d
    <3>1. first \in Nat /\ lo_mem_max >= first
      BY <1>2, <2>1
    <3> QED BY <1>2, <3>1
  <2> HIDE DEF first
  <2>4. SizesBelow[d] = SizesBelow[first] + (d - first)
    BY <2>1, <2>2, <2>3, HeldBetween
  <2>5. SizesBelow[first] = SizesBelow[0]
    <3>1. first \in 0..mem_max + 1 /\ 0 \in 0..mem_max + 1 /\ 0 <= first
      BY <1>0, <1>3, <2>3
    <3>2. \A x \in 0..first - 1 : x \notin DOMAIN nodes
      <4>1. \A x \in DOMAIN nodes : ~(x <= first - 1)
        BY <1>2 DEF first
      <4> QED BY <4>1
    <3> QED BY <3>1, <3>2, SizesStay
  <2>6. SizesBelow[0] = 0
    <3>1. 0 \in 0..mem_max + 1
      BY <1>0
    <3> QED BY <3>1, SizesAre, Zenon DEF IsSum
  <2>7. d = first + SizesBelow[d]
    BY <1>0, <1>3, <2>4, <2>5, <2>6
  <2> QED BY <1>3, <1>5, <2>7 DEF first
<1>6. CASE u # 0
  <2>1. PICK x \in ring : u = x + info[x]
    BY <1>6 DEF Walked
  <2>2. u \in Node \cup {lo_mem_max}
    BY <1>2, <2>1 DEF Tiles
  <2>3. SizesBelow[d] = SizesBelow[u] + (d - u) /\ SizesBelow[u] \in Int
    <3>1. SizesBelow[u] \in Int
      BY <1>0, <1>3, SizesStep
    <3>2. CASE u \in Node
      <4>1. \A z \in ring : ~(u <= z /\ z < d)
        <5> SUFFICES ASSUME NEW z \in ring, u <= z, z < d PROVE FALSE
          OBVIOUS
        <5>1. z + info[z] <= u /\ z \in Nat /\ info[z] \in Nat /\ z + 2 <= z + info[z]
          BY <1>2, <1>4
        <5> QED BY <1>3, <5>1
      <4> QED BY <1>3, <3>1, <3>2, <4>1, HeldBetween
    <3>3. CASE u = lo_mem_max
      <4>1. d = u
        BY <1>2, <1>3, <3>3
      <4> QED BY <1>3, <3>1, <4>1
    <3> QED BY <2>2, <3>2, <3>3
  <2> QED BY <1>0, <1>3, <1>6, <2>3
<1> QED BY <1>3, <1>5, <1>6

\* No held node begins in an empty one, or past lo_mem_max.
LEMMA SizesPass ==
  ASSUME Bounds, pc = "idle", Tiles(info)
  PROVE  /\ \A x \in ring : SizesBelow[x + info[x]] = SizesBelow[x]
         /\ SizesBelow[mem_max + 1] = SizesBelow[lo_mem_max]
<1>0. mem_max \in Nat
  BY MemoryAssumption
<1>1. Sized(info)
  BY DEF Sized, Bounds, FileTypeOK, TypeOK, HalfWord
<1>2. /\ \A x \in Node : /\ x \in Nat /\ x \in Word /\ Extent(info, x) \in Nat
                         /\ x + 2 <= x + Extent(info, x) /\ x + Extent(info, x) <= lo_mem_max
      /\ lo_mem_max \in Nat /\ lo_mem_max \in Word
      /\ \A x \in ring : x \in Node /\ Extent(info, x) = info[x]
      /\ \A x \in DOMAIN nodes : x \in Node
  BY <1>1, PlacesAre
<1>3. ASSUME NEW x \in ring PROVE SizesBelow[x + info[x]] = SizesBelow[x]
  <2>1. PICK z : z = x + info[x]
    OBVIOUS
  <2>2. x \in Nat /\ z \in Nat /\ x <= z /\ z <= mem_max
    BY <1>0, <1>2, <2>1 DEF Word
  <2>3. ASSUME NEW y \in DOMAIN nodes, x <= y, y < z PROVE FALSE
    <3>1. x # y
      BY DEF Tiles
    <3>2. x < y
      BY <1>2, <2>2, <2>3, <3>1
    <3>3. z <= y
      BY <1>2, <2>1, <3>2 DEF Tiles
    <3> QED BY <1>2, <2>2, <2>3, <3>3
  <2>4. \A y \in x..z - 1 : y \notin DOMAIN nodes
    <3> TAKE y \in x..z - 1
    <3>1. x <= y /\ y < z
      BY <2>2
    <3> QED BY <2>3, <3>1
  <2>5. x \in 0..mem_max + 1 /\ z \in 0..mem_max + 1
    BY <1>0, <2>2
  <2>6. SizesBelow[z] = SizesBelow[x]
    BY ONLY <2>2, <2>4, <2>5, Bounds, SizesStay
  <2> QED BY <2>1, <2>6
<1>4. SizesBelow[mem_max + 1] = SizesBelow[lo_mem_max]
  <2>1. lo_mem_max \in 0..mem_max + 1 /\ mem_max + 1 \in 0..mem_max + 1 /\ lo_mem_max <= mem_max + 1
    BY <1>0, <1>2 DEF Word
  <2>2. \A y \in lo_mem_max..(mem_max + 1) - 1 : y \notin DOMAIN nodes
    BY <1>2
  <2> QED BY <2>1, <2>2, SizesStay
<1> QED BY <1>3, <1>4

\* The words of the upper part that are linked in a row that ends at null.
Strand(W, c) ==
    /\ c \in W \cup {0} /\ 0 \notin W
    /\ \A x \in W : link[x] \in W \cup {0} /\ link[x] # c
    /\ \A x, y \in W : link[x] = link[y] /\ x # y => link[x] = 0
    /\ \A S \in SUBSET W : c \in S \cup {0} /\ (\A x \in S : link[x] \in S \cup {0}) => S = W

LEMMA StrandLess ==
  ASSUME NEW W, NEW c, Strand(W, c), c # 0
  PROVE  c \in W /\ Strand(W \ {c}, link[c])
<1> DEFINE V == W \ {c}  d == link[c]
<1>1. c \in W /\ 0 \notin W /\ d \in V \cup {0}
  BY DEF Strand
<1>2. ASSUME NEW S \in SUBSET V, d \in S \cup {0}, \A x \in S : link[x] \in S \cup {0}
      PROVE  S = V
  <2> DEFINE T == S \cup {c}
  <2>1. T \in SUBSET W /\ c \in T \cup {0} /\ \A x \in T : link[x] \in T \cup {0}
    BY <1>1, <1>2
  <2>2. T = W
    <3> HIDE DEF T
    <3> QED BY <2>1 DEF Strand
  <2> QED BY <1>2, <2>2
<1>3. d = 0 => V = {}
  <2>1. {} \in SUBSET V /\ \A x \in {} : link[x] \in {} \cup {0}
    OBVIOUS
  <2> QED BY <1>2, <2>1
<1>4. \A x \in V : link[x] \in V \cup {0} /\ link[x] # d
  <2>1. \A x \in W : link[x] \in W \cup {0} /\ link[x] # c
    BY DEF Strand
  <2>2. \A x, y \in W : link[x] = link[y] /\ x # y => link[x] = 0
    BY DEF Strand
  <2> QED BY <1>1, <1>3, <2>1, <2>2
<1>5. \A x, y \in V : link[x] = link[y] /\ x # y => link[x] = 0
  BY DEF Strand
<1> HIDE DEF d
<1>6. Strand(V, d)
  BY <1>1, <1>2, <1>4, <1>5 DEF Strand
<1> QED BY <1>1, <1>6 DEF d

\* Counts along links.
IsCount(c, g, X, M) ==
    c = [n \in 0..M |-> [x \in X |-> IF x = 0 \/ n = 0 THEN 0 ELSE 1 + c[n - 1][g[x]]]]

LEMMA CountDefined ==
  ASSUME NEW g, NEW X, NEW M \in Nat
  PROVE  \E c : IsCount(c, g, X, M)
<1> DEFINE S == {m \in Nat : \E c : IsCount(c, g, X, m)}
           Line(c, n) == [x \in X |-> IF x = 0 \/ n = 0 THEN 0 ELSE 1 + c[n - 1][g[x]]]
<1>1. 0 \in S
  <2> DEFINE f == [n \in 0..0 |-> [x \in X |-> 0]]
  <2>1. f = [n \in 0..0 |-> [x \in X |-> IF x = 0 \/ n = 0 THEN 0 ELSE 1 + f[n - 1][g[x]]]]
    OBVIOUS
  <2> QED BY <2>1 DEF IsCount
<1>2. \A m \in Nat : m \in S => m + 1 \in S
  <2> TAKE m \in Nat
  <2> HAVE m \in S
  <2>1. PICK c : IsCount(c, g, X, m)
    OBVIOUS
  <2> DEFINE f == [n \in 0..(m + 1) |-> IF n <= m THEN c[n] ELSE Line(c, n)]
  <2>2. \A n \in 0..m : c[n] = Line(c, n)
    <3>1. c = [n \in 0..m |-> Line(c, n)]
      BY <2>1, Zenon DEF IsCount
    <3> HIDE DEF Line
    <3> QED BY <3>1, Zenon
  <2>3. ASSUME NEW n \in 0..(m + 1) PROVE f[n] = Line(f, n)
    <3>1. \A k \in 0..m : f[k] = c[k]
      OBVIOUS
    <3>2. n # 0 => n - 1 \in 0..m
      OBVIOUS
    <3>3. f[n] = Line(c, n)
      <4>1. CASE n <= m
        <5>1. n \in 0..m /\ f[n] = c[n]
          BY <4>1
        <5> QED BY <2>2, <5>1
      <4>2. CASE ~(n <= m)
        BY <4>2
      <4> QED BY <4>1, <4>2
    <3> HIDE DEF f
    <3>4. Line(f, n) = Line(c, n)
      BY <3>1, <3>2
    <3> QED BY <3>3, <3>4
  <2>4. f = [n \in 0..(m + 1) |-> f[n]]
    OBVIOUS
  <2> HIDE DEF f
  <2>5. f = [n \in 0..(m + 1) |-> Line(f, n)]
    BY <2>3, <2>4
  <2> QED BY <2>5 DEF IsCount
<1> HIDE DEF S
<1>3. M \in S
  BY <1>1, <1>2, NatSetInduction
<1> QED BY <1>3 DEF S

\* The count along the avail list is the number of free words.
LEMMA AvailCounted ==
  ASSUME Bounds, pc = "idle", Layout(link, info)
  PROVE  LiveAbove = Cardinality(words)
<1> USE MemoryAssumption
<1>1. IsCount(AvailFrom, link, Word, mem_max)
  <2>1. \E c : IsCount(c, link, Word, mem_max)
    BY CountDefined
  <2> QED BY <2>1, Zenon DEF IsCount, AvailFrom
<1>2. ASSUME NEW n \in 0..mem_max, NEW x \in Word
      PROVE  AvailFrom[n][x] = IF x = 0 \/ n = 0 THEN 0 ELSE 1 + AvailFrom[n - 1][link[x]]
  <2>1. AvailFrom[n] = [z \in Word |-> IF z = 0 \/ n = 0 THEN 0 ELSE 1 + AvailFrom[n - 1][link[z]]]
    BY <1>1, Zenon DEF IsCount
  <2> QED BY <2>1, Zenon
<1> DEFINE S == {n \in Nat : n <= mem_max =>
                   \A W \in SUBSET Word : \A c \in Word :
                      Strand(W, c) /\ Cardinality(W) <= n => AvailFrom[n][c] = Cardinality(W)}
<1>3. 0 \in S
  <2> SUFFICES ASSUME NEW W \in SUBSET Word, NEW c \in Word, Strand(W, c), Cardinality(W) <= 0
               PROVE  AvailFrom[0][c] = Cardinality(W)
    OBVIOUS
  <2>1. Cardinality(W) \in Nat
    BY WordCount
  <2>2. AvailFrom[0][c] = 0
    <3>1. 0 \in 0..mem_max
      OBVIOUS
    <3> QED BY <1>2, <3>1
  <2> QED BY <2>1, <2>2
<1>4. \A n \in Nat : n \in S => n + 1 \in S
  <2> SUFFICES ASSUME NEW n \in Nat, n \in S, n + 1 <= mem_max, NEW W \in SUBSET Word,
                      NEW c \in Word, Strand(W, c), Cardinality(W) <= n + 1
               PROVE  AvailFrom[n + 1][c] = Cardinality(W)
    OBVIOUS
  <2>1. n + 1 \in 0..mem_max /\ n + 1 # 0 /\ (n + 1) - 1 = n /\ n <= mem_max
    OBVIOUS
  <2>2. AvailFrom[n + 1][c] = IF c = 0 THEN 0 ELSE 1 + AvailFrom[n][link[c]]
    BY <1>2, <2>1
  <2>3. CASE c = 0
    <3>1. {} \in SUBSET W /\ c \in {} \cup {0} /\ \A x \in {} : link[x] \in {} \cup {0}
      BY <2>3
    <3>2. W = {}
      BY <3>1, Zenon DEF Strand
    <3> QED BY <2>2, <2>3, <3>2, FS_EmptySet
  <2>4. CASE c # 0
    <3>1. c \in W /\ Strand(W \ {c}, link[c])
      BY <2>4, StrandLess
    <3>2. Cardinality(W \ {c}) = Cardinality(W) - 1 /\ Cardinality(W) \in Nat
      BY <3>1, WordCount
    <3>3. link[c] \in Word
      <4>1. link[c] \in W \cup {0} /\ 0 \in Word
        BY <3>1 DEF Strand, Word
      <4> QED BY <4>1
    <3>4. W \ {c} \in SUBSET Word /\ Cardinality(W \ {c}) <= n
      BY <3>2
    <3>5. AvailFrom[n][link[c]] = Cardinality(W \ {c})
      BY <2>1, <3>1, <3>3, <3>4
    <3> QED BY <2>2, <2>4, <3>2, <3>5
  <2> QED BY <2>3, <2>4
<1>5. mem_max \in S
  <2> HIDE DEF S
  <2> QED BY <1>3, <1>4, NatSetInduction
<1>6. Strand(FreeWords, avail)
  <2>1. 0 \notin FreeWords
    <3>1. hi_mem_min > 0 /\ hi_mem_min \in Nat
      BY DEF Bounds, Ordered, FileTypeOK, TypeOK, Word
    <3> QED BY <3>1 DEF FreeWords
  <2> QED BY <2>1, Zenon DEF Layout, Listed, Strand
<1>7. /\ FreeWords \in SUBSET Word /\ avail \in Word /\ words \subseteq hi_mem_min..mem_end
      /\ hi_mem_min \in Nat /\ mem_end \in Nat /\ hi_mem_min <= mem_end /\ 0 < hi_mem_min
      /\ mem_end <= mem_max /\ words \subseteq Word
  BY DEF Bounds, Ordered, FileTypeOK, TypeOK, Word, FreeWords
<1> DEFINE H == hi_mem_min..mem_end
<1>8. IsFiniteSet(H) /\ Cardinality(H) = mem_end + 1 - hi_mem_min
  BY <1>7, FS_Interval
<1>9. Cardinality(FreeWords) = Cardinality(H) - Cardinality(words)
  <2>1. H \ words = FreeWords /\ H \cap words = words
    BY <1>7 DEF FreeWords
  <2>2. Cardinality(H \ words) = Cardinality(H) - Cardinality(H \cap words)
    BY <1>8, FS_Difference
  <2> QED BY <2>1, <2>2
<1>10. Cardinality(words) \in Nat /\ Cardinality(FreeWords) \in Nat
  BY <1>7, WordCount
<1>11. AvailFrom[mem_max][avail] = Cardinality(FreeWords)
  <2>1. Cardinality(FreeWords) <= mem_max
    BY <1>7, <1>8, <1>9, <1>10
  <2> QED BY <1>5, <1>6, <1>7, <2>1
<1> QED BY <1>7, <1>8, <1>9, <1>10, <1>11 DEF LiveAbove

-----------------------------------------------------------------------------
(* Going around the sorted ring, while words are written or read.          *)

\* One node further: the words up to the end of this node, and what is left
\* out of them.
LEMMA WalkStep ==
  ASSUME Bounds, pc = "idle", NEW l, NEW i, Tiles(i), Sized(i), Circle(l, i), Rising(l),
         v \in ring, Walked(i, v), NEW w, w = l[v + 1], NEW e, e = v + i[v]
  PROVE  /\ w \in ring /\ u \in Nat /\ v \in Nat /\ e \in Nat /\ u <= v /\ v + 2 <= e
         /\ e <= lo_mem_max /\ lo_mem_max \in Nat /\ e \in Word /\ w \in Word /\ v + 1 \in Word
         /\ w # rover => v < w /\ e <= w /\ \A x \in ring : x < w => x + i[x] <= e
         /\ w = rover => \A x \in ring : x + i[x] <= e
         /\ (0..e - 1) \ Within2(i) = ((0..u - 1) \ Within2(i)) \cup u..v + 1
<1>1. /\ \A x \in ring : /\ x \in Nat /\ x \in Word /\ x + 1 \in Word /\ i[x] \in Nat
                         /\ x + 2 <= x + i[x] /\ x + i[x] <= lo_mem_max
      /\ lo_mem_max \in Nat /\ lo_mem_max \in Word
  BY PlacesAre
<1>2. \A x, y \in ring : x < y => x + i[x] <= y
  <2> TAKE x, y \in ring
  <2>1. x \in Node /\ y \in Node /\ Extent(i, x) = i[x]
    BY DEF Node, Extent
  <2> QED BY <2>1 DEF Tiles
<1>3. /\ rover \in ring /\ w \in ring
      /\ \A x \in ring : rover <= x
      /\ w = rover \/ v < w
      /\ \A y \in ring : v < y => v < w /\ w <= y
      /\ \A x \in ring : x < v => x + i[x] <= u
      /\ u \in 0..v
  BY DEF Circle, Rising, Walked
<1>4. u \in Nat /\ v \in Nat /\ e \in Nat /\ u <= v /\ v + 2 <= e /\ e <= lo_mem_max
  BY <1>1, <1>3
<1>5. ASSUME NEW x \in ring, x <= v PROVE x + i[x] <= e
  <2>1. CASE x = v
    BY <1>4, <2>1
  <2>2. CASE x < v
    BY <1>1, <1>2, <1>4, <2>2
  <2> QED BY <1>1, <1>4, <1>5, <2>1, <2>2
<1>6. w # rover => v < w /\ e <= w /\ \A x \in ring : x < w => x + i[x] <= e
  <2> SUFFICES ASSUME w # rover PROVE v < w /\ e <= w /\ \A x \in ring : x < w => x + i[x] <= e
    OBVIOUS
  <2>1. v < w /\ e <= w
    BY <1>2, <1>3
  <2>2. \A x \in ring : x < w => x <= v
    BY <1>1, <1>3
  <2> QED BY <1>5, <2>1, <2>2
<1>7. w = rover => \A x \in ring : x + i[x] <= e
  <2> SUFFICES ASSUME w = rover PROVE \A x \in ring : x <= v
    BY <1>5
  <2> QED BY <1>1, <1>3
<1>8. \A x : x \in Within2(i) <=> \E y \in ring : x \in y + 2..y + i[y] - 1
  <2>1. \A y \in ring : Span(y + 2, i[y] - 2) = y + 2..y + i[y] - 1
    <3> TAKE y \in ring
    <3>1. y \in Nat /\ i[y] \in Nat
      BY <1>1
    <3>2. (y + 2) + (i[y] - 2) - 1 = y + i[y] - 1
      BY <3>1
    <3> QED BY <3>2 DEF Span
  <2> QED BY <2>1 DEF Within2
<1>9. ASSUME NEW x \in u..v + 1 PROVE x \notin Within2(i) /\ x \in 0..e - 1
  <2>1. ASSUME NEW y \in ring, x \in y + 2..y + i[y] - 1 PROVE FALSE
    <3>1. y \in Nat /\ i[y] \in Nat
      BY <1>1
    <3>2. y < v => y + i[y] <= u
      BY <1>3
    <3> QED BY <1>4, <2>1, <3>1, <3>2
  <2> QED BY <1>4, <1>8, <2>1
<1>10. ASSUME NEW x \in 0..e - 1, x \notin Within2(i), x >= u PROVE x \in u..v + 1
  <2>1. x \notin v + 2..e - 1
    <3>1. x \notin v + 2..v + i[v] - 1
      BY <1>8, <1>10
    <3>2. v + i[v] - 1 = e - 1
      BY <1>1
    <3> QED BY <3>1, <3>2
  <2>2. x \in Nat /\ x <= e - 1 /\ u <= x
    BY <1>4, <1>10
  <2> QED BY ONLY <1>4, <2>1, <2>2
<1>11. (0..e - 1) \ Within2(i) = ((0..u - 1) \ Within2(i)) \cup u..v + 1
  <2>1. \A x \in 0..u - 1 : x \in 0..e - 1
    BY <1>4
  <2>2. \A x \in 0..e - 1 : x < u => x \in 0..u - 1
    BY <1>4
  <2>3. \A x \in 0..e - 1 : x < u \/ x >= u
    BY <1>4
  <2> QED BY <1>9, <1>10, <2>1, <2>2, <2>3, Zenon
<1>12. e \in Word /\ w \in Word /\ v + 1 \in Word
  <2>1. lo_mem_max <= mem_max
    BY <1>1 DEF Word
  <2>2. e \in Word
    BY <1>1, <1>4, <2>1, MemoryAssumption DEF Word
  <2> QED BY <1>1, <1>3, <2>2
<1> QED BY <1>1, <1>3, <1>4, <1>6, <1>7, <1>11, <1>12

\* Past the last empty node everything is kept.
LEMMA WalkEnd ==
  ASSUME Bounds, pc = "idle", NEW i, Tiles(i), Sized(i), Walked(i, lo_mem_max)
  PROVE  /\ Kept(i) = ((0..u - 1) \ Within2(i)) \cup u..lo_mem_max \cup hi_mem_min..mem_end
         /\ u \in Nat /\ u <= lo_mem_max
<1>1. /\ \A x \in ring : x \in Nat /\ i[x] \in Nat /\ x + 1 < lo_mem_max
      /\ lo_mem_max \in Nat
  BY PlacesAre
<1>2. u \in Nat /\ u <= lo_mem_max /\ \A x \in ring : x + i[x] <= u
  BY <1>1 DEF Walked
<1>3. ASSUME NEW x \in u..lo_mem_max PROVE x \notin Within2(i) /\ x \in 0..lo_mem_max
  <2>1. ASSUME NEW y \in ring, x \in Span(y + 2, i[y] - 2) PROVE FALSE
    BY <1>1, <1>2, <2>1 DEF Span
  <2> QED BY <1>2, <2>1 DEF Within2
<1>4. /\ \A x \in 0..u - 1 : x \in 0..lo_mem_max
      /\ \A x \in 0..lo_mem_max : x \in 0..u - 1 \/ x \in u..lo_mem_max
  BY <1>1, <1>2
<1>5. (0..lo_mem_max) \ Within2(i) = ((0..u - 1) \ Within2(i)) \cup u..lo_mem_max
  BY <1>3, <1>4, Zenon
<1> QED BY <1>2, <1>5 DEF Kept

\* The words that matter are kept.
LEMMA KeptWords ==
  ASSUME Bounds, pc = "idle", NEW i, Tiles(i), Sized(i)
  PROVE  /\ \A x \in ring : x \in Kept(i) /\ x + 1 \in Kept(i)
         /\ \A x \in DOMAIN nodes \cup FreeWords \cup {lo_mem_max} : x \in Kept(i)
         /\ Kept(i) \subseteq Word
<1>1. /\ \A x \in Node : /\ x \in Nat /\ Extent(i, x) \in Nat /\ x + 1 < lo_mem_max
                         /\ x + 2 <= x + Extent(i, x) /\ x + Extent(i, x) <= lo_mem_max
      /\ lo_mem_max \in Nat /\ hi_mem_min \in Nat /\ mem_end \in Nat /\ mem_end <= mem_max
      /\ lo_mem_max < hi_mem_min /\ lo_mem_max \in Word
      /\ \A x \in ring : x \in Node /\ Extent(i, x) = i[x]
      /\ \A x \in DOMAIN nodes : x \in Node
  BY PlacesAre
<1>2. \A x, y \in Node : x < y => x + Extent(i, x) <= y
  BY DEF Tiles
<1>3. ASSUME NEW x \in Node, NEW y \in ring, x \in Span(y + 2, i[y] - 2) PROVE FALSE
  <2>1. y \in Node /\ Extent(i, y) = i[y] /\ y \in Nat /\ i[y] \in Nat /\ x \in Nat
    BY <1>1
  <2>2. y < x /\ x < y + i[y]
    BY <1>3, <2>1 DEF Span
  <2> QED BY <1>2, <2>1, <2>2
<1>4. ASSUME NEW x \in ring, NEW y \in ring, x + 1 \in Span(y + 2, i[y] - 2) PROVE FALSE
  <2>1. y \in Node /\ x \in Node /\ y < x /\ x + 1 < y + i[y] /\ Extent(i, y) = i[y]
    BY <1>1, <1>4 DEF Span
  <2> QED BY <1>1, <1>2, <2>1
<1>5. ASSUME NEW y \in ring, lo_mem_max \in Span(y + 2, i[y] - 2) PROVE FALSE
  BY <1>1, <1>5 DEF Span
<1>6. \A x \in Node : x \in Kept(i)
  <2> TAKE x \in Node
  <2>1. x \in 0..lo_mem_max
    BY <1>1
  <2> QED BY <1>3, <2>1 DEF Kept, Within2
<1>7. \A x \in ring : x + 1 \in Kept(i)
  <2> TAKE x \in ring
  <2>1. x + 1 \in 0..lo_mem_max
    BY <1>1
  <2> QED BY <1>4, <2>1 DEF Kept, Within2
<1>8. lo_mem_max \in Kept(i)
  <2>1. lo_mem_max \in 0..lo_mem_max
    BY <1>1
  <2> QED BY <1>5, <2>1 DEF Kept, Within2
<1>9. \A x \in FreeWords : x \in Kept(i)
  BY DEF Kept, FreeWords
<1>10. Kept(i) \subseteq Word
  <2>1. 0..lo_mem_max \subseteq Word /\ hi_mem_min..mem_end \subseteq Word
    BY <1>1, MemoryAssumption DEF Word
  <2> QED BY <2>1 DEF Kept
<1> QED BY <1>1, <1>6, <1>7, <1>8, <1>9, <1>10

-----------------------------------------------------------------------------
(* The dump.                                                               *)

\* What Put appends to the file.
LEMMA PutIs ==
  ASSUME NEW g, NEW c, NEW d, NEW f, f = Put(g, c, d), DOMAIN g = Headings
  PROVE  /\ DOMAIN f = Headings
         /\ DOMAIN f.cells = DOMAIN g.cells \cup c..d
         /\ \A x \in c..d : f.cells[x] = <<link[x], info[x]>>
         /\ \A x \in DOMAIN g.cells \ c..d : f.cells[x] = g.cells[x]
         /\ f.count = g.count + (d + 1 - c)
         /\ f.lo = g.lo /\ f.rover = g.rover /\ f.hi = g.hi /\ f.avail = g.avail
         /\ f.used = g.used /\ f.dyn = g.dyn
BY DEF Put, Headings

\* Counting the words appended.
LEMMA MoreWords ==
  ASSUME NEW D, IsFiniteSet(D), NEW c \in Nat, NEW d \in Nat, c <= d + 1, D \cap c..d = {}
  PROVE  /\ IsFiniteSet(D \cup c..d)
         /\ Cardinality(D \cup c..d) = Cardinality(D) + (d + 1 - c)
<1>1. IsFiniteSet(c..d) /\ Cardinality(c..d) = d + 1 - c
  <2>1. IsFiniteSet(c..d) /\ Cardinality(c..d) = IF c > d THEN 0 ELSE d - c + 1
    BY FS_Interval
  <2> QED BY <2>1
<1>2. /\ IsFiniteSet(D \cup c..d)
      /\ Cardinality(D \cup c..d) = Cardinality(D) + Cardinality(c..d) - Cardinality(D \cap c..d)
  BY <1>1, FS_Union
<1>3. Cardinality(D \cap c..d) = 0
  BY FS_EmptySet
<1>4. Cardinality(D) \in Nat
  BY FS_CardinalityType
<1> QED BY <1>1, <1>2, <1>3, <1>4

LEMMA DumpNodeHolds == ASSUME FileInv, DumpNode PROVE FileInv'
<1> USE MemoryAssumption
<1>1. /\ stage = "dump" /\ file' = Put(file, u, v + 1) /\ var_used' = var_used + v - u
      /\ u' = v + info[v] /\ v' = rlink(v)
      /\ stage' = IF v' = rover THEN "rest" ELSE "dump"
      /\ UNCHANGED <<link, info, lo_mem_max, hi_mem_min, mem_end, avail, rover, dyn_used, pc,
                     locals, nodes, words, ring, old_rover>>
  BY DEF DumpNode, heap, bounds, node_size
<1>2. /\ Bounds /\ pc = "idle" /\ Layout(link, info) /\ Parted(info)
      /\ Circle(link, info) /\ Rising(link) /\ Dumped
  BY <1>1 DEF FileInv, Storing
<1>3. Frame /\ pc' = "idle" /\ link' = link /\ info' = info
  BY <1>1, <1>2 DEF Frame
<1>4. Tiles(info) /\ Sized(info) /\ link \in [Word -> HalfWord] /\ info \in [Word -> HalfWord]
      /\ dyn_used \in Int /\ old_rover \in Word /\ rover \in Word
  BY <1>2 DEF Sized, Layout, Bounds, FileTypeOK, TypeOK, HalfWord
<1>5. v \in ring /\ Walked(info, v)
  BY <1>1, <1>2 DEF Dumped, Reached
<1> DEFINE w == v'
           e == u'
<1>6. /\ w \in ring /\ u \in Nat /\ v \in Nat /\ e \in Nat /\ u <= v /\ v + 2 <= e
      /\ e <= lo_mem_max /\ lo_mem_max \in Nat /\ e \in Word /\ w \in Word /\ v + 1 \in Word
      /\ w # rover => v < w /\ e <= w /\ \A x \in ring : x < w => x + info[x] <= e
      /\ w = rover => \A x \in ring : x + info[x] <= e
      /\ (0..e - 1) \ Within2(info) = ((0..u - 1) \ Within2(info)) \cup u..v + 1
  <2>1. \E c, d : c = w /\ d = e
    OBVIOUS
  <2>2. PICK c, d : c = w /\ d = e
    BY <2>1
  <2>3. c = link[v + 1] /\ d = v + info[v]
    BY <1>1, <2>2 DEF rlink
  <2> HIDE DEF w, e
  <2> QED BY <1>2, <1>4, <1>5, <2>2, <2>3, WalkStep
<1>7. /\ DOMAIN file = Headings /\ DOMAIN file.cells = (0..u - 1) \ Within2(info)
      /\ \A x \in DOMAIN file.cells : file.cells[x] = <<link[x], info[x]>>
      /\ file.count = Cardinality(DOMAIN file.cells)
      /\ file.lo = lo_mem_max /\ file.rover = rover
      /\ var_used = IF u = 0 THEN 0 ELSE lo_mem_stat_max + 1 + SizesBelow[u]
  BY <1>2 DEF Dumped
<1>8. /\ DOMAIN file' = Headings
      /\ DOMAIN file'.cells = DOMAIN file.cells \cup u..v + 1
      /\ \A x \in u..v + 1 : file'.cells[x] = <<link[x], info[x]>>
      /\ \A x \in DOMAIN file.cells \ u..v + 1 : file'.cells[x] = file.cells[x]
      /\ file'.count = file.count + ((v + 1) + 1 - u)
      /\ file'.lo = file.lo /\ file'.rover = file.rover
  <2>1. PICK f : f = file'
    OBVIOUS
  <2>2. f = Put(file, u, v + 1)
    BY <1>1, <2>1
  <2> QED BY <1>7, <2>1, <2>2, PutIs
<1>9. DOMAIN file'.cells = (0..e - 1) \ Within2(info)
  BY <1>6, <1>7, <1>8
<1>10. \A x \in DOMAIN file'.cells : file'.cells[x] = <<link[x], info[x]>>
  BY <1>7, <1>8
<1>11. file'.count = Cardinality(DOMAIN file'.cells)
  <2> DEFINE D == DOMAIN file.cells
  <2>1. D \cap u..v + 1 = {}
    BY <1>6, <1>7
  <2>2. IsFiniteSet(D)
    <3>1. IsFiniteSet(0..u - 1) /\ D \subseteq 0..u - 1
      <4>1. IsFiniteSet(0..u - 1)
        BY <1>6, FS_Interval
      <4> QED BY <1>7, <4>1
    <3> QED BY <3>1, FS_Subset
  <2>3. u \in Nat /\ v + 1 \in Nat /\ u <= (v + 1) + 1
    BY <1>6
  <2> HIDE DEF D
  <2>4. Cardinality(D \cup u..v + 1) = Cardinality(D) + ((v + 1) + 1 - u)
    BY <2>1, <2>2, <2>3, MoreWords
  <2> QED BY <1>7, <1>8, <2>4 DEF D
<1>12. var_used' = lo_mem_stat_max + 1 + SizesBelow[e]
  <2>1. v \in Node \cup {lo_mem_max}
    BY <1>5 DEF Node
  <2>2. (IF u = 0 THEN 0 ELSE lo_mem_stat_max + 1 + SizesBelow[u]) + v - u
          = lo_mem_stat_max + 1 + SizesBelow[v]
    BY <1>2, <1>4, <1>5, <2>1, HeldUpTo
  <2>3. SizesBelow[v + info[v]] = SizesBelow[v]
    BY <1>2, <1>4, <1>5, SizesPass
  <2> QED BY <1>1, <1>7, <2>2, <2>3
<1>13. Reached(info)'
  <2>1. w # rover => e \in 0..w /\ \A x \in ring : x < w => x + info[x] <= e
    BY <1>6
  <2>2. w = rover => e # 0 /\ e \in 0..lo_mem_max /\ \A x \in ring : x + info[x] <= e
    BY <1>6
  <2>3. \E x \in ring : e = x + info[x]
    BY <1>1, <1>5
  <2>4. w \in ring
    BY <1>6
  <2>5. ring' = ring /\ info' = info /\ lo_mem_max' = lo_mem_max
    BY <1>1
  <2>6. w # rover => Walked(info, v)'
    BY <2>1, <2>3, <2>5 DEF Walked
  <2>7. w = rover => Walked(info, lo_mem_max)'
    BY <2>2, <2>3, <2>5 DEF Walked
  <2> QED BY <1>1, <2>2, <2>4, <2>5, <2>6, <2>7 DEF Reached
<1>14. SizesBelow' = SizesBelow
  BY <1>1, SizesFrame
<1>15. Dumped'
  <2>1. e # 0
    BY <1>6
  <2>2. Within2(info)' = Within2(info)
    BY <1>1 DEF Within2
  <2>3. lo_mem_stat_max' = lo_mem_stat_max
    OBVIOUS
  <2> QED BY <1>1, <1>7, <1>8, <1>9, <1>10, <1>11, <1>12, <1>13, <1>14, <2>1, <2>2 DEF Dumped
<1>16. SizesBelow[e] \in Int
  <2>1. e \in 0..mem_max
    BY <1>6 DEF Word
  <2> QED BY <1>2, <2>1, SizesStep
<1>17. Bounds'
  <2>1. var_used' \in Int /\ DOMAIN file'.cells \subseteq Word
    <3>1. 0..e - 1 \subseteq Word
      <4>1. e \in Nat /\ e <= mem_max
        BY <1>6 DEF Word
      <4> HIDE DEF e
      <4> QED BY <4>1 DEF Word
    <3>2. DOMAIN file'.cells \subseteq 0..e - 1
      BY <1>9
    <3>3. lo_mem_stat_max + 1 + SizesBelow[e] \in Int
      BY <1>16
    <3> QED BY <1>12, <3>1, <3>2, <3>3
  <2> QED BY <1>1, <1>2, <1>3, <1>4, <1>6, <2>1, BoundsFrame
<1>18. Layout(link, info)' /\ Parted(info)' /\ Circle(link, info)' /\ Rising(link)'
  <2>1. Layout(link', info') /\ Parted(info') /\ Circle(link', info') /\ Rising(link')
    BY <1>2, <1>3
  <2> QED BY <1>1, <1>3, <2>1, LayoutFrame
<1>19. Storing'
  BY <1>1, <1>15, <1>18 DEF Storing
<1> QED BY <1>1, <1>3, <1>17, <1>19 DEF FileInv

\* What the file says of the layout does not change either.
LEMMA CellsFrame ==
  ASSUME Frame, rover' = rover
  PROVE  /\ Layout(cell_link, cell_info)' <=> Layout(cell_link', cell_info')
         /\ Parted(cell_info)' <=> Parted(cell_info')
         /\ Circle(cell_link, cell_info)' <=> Circle(cell_link', cell_info')
         /\ Rising(cell_link)' <=> Rising(cell_link')
         /\ Kept(cell_info)' = Kept(cell_info')
<1>1. /\ ring' = ring /\ nodes' = nodes /\ FreeWords' = FreeWords /\ Node' = Node
      /\ lo_mem_max' = lo_mem_max /\ avail' = avail /\ hi_mem_min' = hi_mem_min /\ mem_end' = mem_end
  BY DEF Frame, FreeWords, Node
<1>2. Tiles(cell_info)' <=> Tiles(cell_info')
  BY <1>1 DEF Tiles, Extent
<1>3. Flagged(cell_link)' <=> Flagged(cell_link')
  BY <1>1 DEF Flagged
<1>4. Listed(cell_link)' <=> Listed(cell_link')
  BY <1>1 DEF Listed
<1>5. Parted(cell_info)' <=> Parted(cell_info')
  BY <1>1 DEF Parted
<1>6. Circle(cell_link, cell_info)' <=> Circle(cell_link', cell_info')
  BY <1>1 DEF Circle
<1>7. Rising(cell_link)' <=> Rising(cell_link')
  BY <1>1 DEF Rising
<1>8. Kept(cell_info)' = Kept(cell_info')
  BY <1>1 DEF Kept, Within2
<1> QED BY <1>2, <1>3, <1>4, <1>5, <1>6, <1>7, <1>8 DEF Layout

\* Two heaps whose empty nodes have the same sizes keep the same words.
LEMMA KeptSame ==
  ASSUME NEW i, NEW i2, \A x \in ring : i2[x] = i[x]
  PROVE  Kept(i2) = Kept(i) /\ (Parted(i) => Parted(i2))
<1>1. Within2(i2) = Within2(i)
  BY DEF Within2
<1> QED BY <1>1 DEF Kept, Parted

\* A heap and another that agrees with it in the words that are kept.
LEMMA KeptAgree ==
  ASSUME Bounds, pc = "idle", NEW l, NEW i, NEW l2, NEW i2, Sized(i),
         Layout(l, i), Circle(l, i), Rising(l), Parted(i),
         \A x \in Kept(i) : l2[x] = l[x] /\ i2[x] = i[x]
  PROVE  /\ Layout(l2, i2) /\ Circle(l2, i2) /\ Rising(l2) /\ Parted(i2)
         /\ Kept(i2) = Kept(i)
         /\ \A x \in ring : i2[x] = i[x]
<1>1. Tiles(i)
  BY DEF Layout
<1>2. /\ \A x \in ring : x \in Kept(i) /\ x + 1 \in Kept(i)
      /\ \A x \in DOMAIN nodes \cup FreeWords \cup {lo_mem_max} : x \in Kept(i)
  BY <1>1, KeptWords
<1>3. /\ \A x \in ring : i2[x] = i[x] /\ l2[x] = l[x]
      /\ \A x \in ring : i2[x + 1] = i[x + 1] /\ l2[x + 1] = l[x + 1]
      /\ \A x \in DOMAIN nodes \cup FreeWords \cup {lo_mem_max} : l2[x] = l[x]
  BY <1>2
<1>4. Layout(l2, i2)
  BY <1>3, LayoutSame
<1>5. Circle(l2, i2) /\ Rising(l2)
  BY <1>3, CircleSame
<1>6. Kept(i2) = Kept(i) /\ Parted(i2)
  BY <1>3, KeptSame
<1> QED BY <1>3, <1>4, <1>5, <1>6

LEMMA DumpRestHolds == ASSUME FileInv, DumpRest PROVE FileInv'
<1> USE MemoryAssumption
<1>1. /\ stage = "rest" /\ stage' = "stored" /\ var_used' = var_used + lo_mem_max - u
      /\ dyn_used' = LiveAbove
      /\ file' = [Put(Put(file, u, lo_mem_max), hi_mem_min, mem_end)
                    EXCEPT !.hi = hi_mem_min, !.avail = avail,
                           !.used = var_used + lo_mem_max - u, !.dyn = LiveAbove]
      /\ UNCHANGED <<link, info, lo_mem_max, hi_mem_min, mem_end, avail, rover, pc,
                     locals, nodes, words, ring, u, v, old_rover>>
  BY DEF DumpRest, heap, bounds
<1>2. /\ Bounds /\ pc = "idle" /\ Layout(link, info) /\ Parted(info)
      /\ Circle(link, info) /\ Rising(link) /\ Dumped
  BY <1>1 DEF FileInv, Storing
<1>3. Frame /\ pc' = "idle" /\ link' = link /\ info' = info
  BY <1>1, <1>2 DEF Frame
<1>4. Tiles(info) /\ Sized(info) /\ link \in [Word -> HalfWord] /\ info \in [Word -> HalfWord]
      /\ old_rover \in Word /\ rover \in Word /\ u \in Word /\ v \in Word /\ words \subseteq Word
  BY <1>2 DEF Sized, Layout, Bounds, FileTypeOK, TypeOK, HalfWord
<1>5. u # 0 /\ Walked(info, lo_mem_max)
  BY <1>1, <1>2 DEF Dumped, Reached
<1>6. /\ Kept(info) = ((0..u - 1) \ Within2(info)) \cup u..lo_mem_max \cup hi_mem_min..mem_end
      /\ u \in Nat /\ u <= lo_mem_max
  BY <1>2, <1>4, <1>5, WalkEnd
<1>7. /\ DOMAIN file = Headings /\ DOMAIN file.cells = (0..u - 1) \ Within2(info)
      /\ \A x \in DOMAIN file.cells : file.cells[x] = <<link[x], info[x]>>
      /\ file.count = Cardinality(DOMAIN file.cells)
      /\ file.lo = lo_mem_max /\ file.rover = rover
      /\ var_used = IF u = 0 THEN 0 ELSE lo_mem_stat_max + 1 + SizesBelow[u]
  BY <1>2 DEF Dumped
<1>8. /\ lo_mem_max \in Nat /\ lo_mem_max \in Word /\ hi_mem_min \in Nat /\ mem_end \in Nat
      /\ lo_mem_max < hi_mem_min /\ hi_mem_min <= mem_end
      /\ Kept(info) \subseteq Word
      /\ \A x \in ring : x \in Kept(info)
  <2>1. /\ lo_mem_max \in Nat /\ lo_mem_max \in Word /\ hi_mem_min \in Nat /\ mem_end \in Nat
        /\ lo_mem_max < hi_mem_min
    BY <1>2, <1>4, PlacesAre
  <2>2. hi_mem_min <= mem_end
    BY <1>2, <2>1 DEF Bounds, Ordered
  <2>3. Kept(info) \subseteq Word /\ \A x \in ring : x \in Kept(info)
    BY <1>2, <1>4, KeptWords
  <2> QED BY <2>1, <2>2, <2>3
<1>9. PICK f, g : f = Put(file, u, lo_mem_max) /\ g = Put(f, hi_mem_min, mem_end)
  OBVIOUS
<1>10. /\ DOMAIN f = Headings
       /\ DOMAIN f.cells = DOMAIN file.cells \cup u..lo_mem_max
       /\ \A x \in u..lo_mem_max : f.cells[x] = <<link[x], info[x]>>
       /\ \A x \in DOMAIN file.cells \ u..lo_mem_max : f.cells[x] = file.cells[x]
       /\ f.count = file.count + (lo_mem_max + 1 - u)
       /\ f.lo = file.lo /\ f.rover = file.rover
  BY <1>7, <1>9, PutIs
<1>11. /\ DOMAIN g = Headings
       /\ DOMAIN g.cells = DOMAIN f.cells \cup hi_mem_min..mem_end
       /\ \A x \in hi_mem_min..mem_end : g.cells[x] = <<link[x], info[x]>>
       /\ \A x \in DOMAIN f.cells \ hi_mem_min..mem_end : g.cells[x] = f.cells[x]
       /\ g.count = f.count + (mem_end + 1 - hi_mem_min)
       /\ g.lo = f.lo /\ g.rover = f.rover
  BY <1>9, <1>10, PutIs
<1>12. /\ file'.cells = g.cells /\ file'.count = g.count /\ file'.lo = lo_mem_max
       /\ file'.rover = rover /\ file'.hi = hi_mem_min /\ file'.avail = avail
       /\ file'.used = var_used + lo_mem_max - u /\ file'.dyn = LiveAbove
  <2>1. file' = [g EXCEPT !.hi = hi_mem_min, !.avail = avail,
                          !.used = var_used + lo_mem_max - u, !.dyn = LiveAbove]
    BY <1>1, <1>9
  <2> QED BY <1>7, <1>10, <1>11, <2>1 DEF Headings
<1>13. DOMAIN g.cells = Kept(info) /\ \A x \in Kept(info) : g.cells[x] = <<link[x], info[x]>>
  <2>1. \A x \in DOMAIN f.cells : f.cells[x] = <<link[x], info[x]>>
    BY <1>7, <1>10
  <2>2. \A x \in DOMAIN g.cells : g.cells[x] = <<link[x], info[x]>>
    BY <1>11, <2>1
  <2>3. DOMAIN g.cells = Kept(info)
    BY <1>6, <1>7, <1>10, <1>11
  <2> QED BY <2>2, <2>3
<1>14. g.count = Cardinality(Kept(info))
  <2> DEFINE D == DOMAIN file.cells
             E == DOMAIN f.cells
  <2>1. D \cap u..lo_mem_max = {}
    BY <1>6, <1>7
  <2>2. IsFiniteSet(D)
    <3>1. IsFiniteSet(0..u - 1) /\ D \subseteq 0..u - 1
      <4>1. IsFiniteSet(0..u - 1)
        BY <1>6, FS_Interval
      <4> QED BY <1>7, <4>1
    <3> QED BY <3>1, FS_Subset
  <2>3. /\ IsFiniteSet(D \cup u..lo_mem_max)
        /\ Cardinality(D \cup u..lo_mem_max) = Cardinality(D) + (lo_mem_max + 1 - u)
    <3>1. u \in Nat /\ lo_mem_max \in Nat /\ u <= lo_mem_max + 1
      BY <1>6, <1>8
    <3> HIDE DEF D
    <3> QED BY <2>1, <2>2, <3>1, MoreWords
  <2>4. IsFiniteSet(E) /\ Cardinality(E) = f.count
    BY <1>7, <1>10, <2>3
  <2>5. E \cap hi_mem_min..mem_end = {}
    <3>1. \A x \in E : x < hi_mem_min
      BY <1>6, <1>7, <1>8, <1>10
    <3> HIDE DEF E
    <3> QED BY <1>8, <3>1
  <2>6. Cardinality(E \cup hi_mem_min..mem_end) = Cardinality(E) + (mem_end + 1 - hi_mem_min)
    <3>1. hi_mem_min \in Nat /\ mem_end \in Nat /\ hi_mem_min <= mem_end + 1
      BY <1>8
    <3> HIDE DEF E
    <3> QED BY <2>4, <2>5, <3>1, MoreWords
  <2> QED BY <1>11, <1>13, <2>4, <2>6
<1>15. var_used' = lo_mem_stat_max + 1 + SizesBelow[mem_max + 1]
  <2>1. (IF u = 0 THEN 0 ELSE lo_mem_stat_max + 1 + SizesBelow[u]) + lo_mem_max - u
          = lo_mem_stat_max + 1 + SizesBelow[lo_mem_max]
    BY <1>2, <1>4, <1>5, HeldUpTo
  <2>2. SizesBelow[mem_max + 1] = SizesBelow[lo_mem_max]
    BY <1>2, <1>4, SizesPass
  <2> QED BY <1>1, <1>7, <2>1, <2>2
<1>16. LiveAbove = Cardinality(words)
  BY <1>2, AvailCounted
<1>17. SizesBelow' = SizesBelow
  BY <1>1, SizesFrame
<1>18. PICK l, i : l = cell_link' /\ i = cell_info'
  OBVIOUS
<1>19. /\ DOMAIN file'.cells = Kept(info)
       /\ l = [x \in Kept(info) |-> link[x]] /\ i = [x \in Kept(info) |-> info[x]]
  <2>1. DOMAIN file'.cells = Kept(info) /\ \A x \in Kept(info) : file'.cells[x] = <<link[x], info[x]>>
    BY <1>12, <1>13
  <2>2. l = [x \in Kept(info) |-> file'.cells[x][1]] /\ i = [x \in Kept(info) |-> file'.cells[x][2]]
    BY <1>18, <2>1 DEF cell_link, cell_info
  <2> QED BY <2>1, <2>2
<1>20. /\ Layout(l, i) /\ Circle(l, i) /\ Rising(l) /\ Parted(i) /\ Kept(i) = Kept(info)
       /\ \A x \in ring : i[x] = info[x]
  BY <1>2, <1>4, <1>19, KeptAgree
<1>21. l \in [Kept(info) -> HalfWord] /\ i \in [Kept(info) -> HalfWord]
  BY <1>4, <1>8, <1>19
<1>22. Stored'
  <2>1. /\ Layout(cell_link, cell_info)' /\ Circle(cell_link, cell_info)' /\ Rising(cell_link)'
        /\ Parted(cell_info)' /\ Kept(cell_info)' = Kept(i)
    BY <1>1, <1>3, <1>18, <1>20, CellsFrame
  <2>2. DOMAIN file'.cells = Kept(cell_info)'
    BY <1>19, <1>20, <2>1
  <2>3. /\ cell_link' \in [DOMAIN file'.cells -> HalfWord]
        /\ cell_info' \in [DOMAIN file'.cells -> HalfWord]
    BY <1>18, <1>19, <1>21 DEF HalfWord
  <2>4. file'.count = Cardinality(DOMAIN file'.cells)
    BY <1>12, <1>14, <1>19
  <2>5. file'.used = lo_mem_stat_max + 1 + SizesBelow'[mem_max + 1] /\ file'.dyn = Cardinality(words')
    BY <1>1, <1>12, <1>15, <1>16, <1>17
  <2>6. file'.lo = lo_mem_max' /\ file'.rover = rover' /\ file'.hi = hi_mem_min' /\ file'.avail = avail'
    BY <1>1, <1>12
  <2>7. \A x \in ring' : cell_info'[x] \in Nat
    BY <1>1, <1>4, <1>18, <1>20 DEF Sized
  <2> QED BY <2>1, <2>2, <2>3, <2>4, <2>5, <2>6, <2>7, Zenon DEF Stored, HalfWord
<1>23. Accounting'
  BY <1>1, <1>15, <1>16, <1>17 DEF Accounting
<1>24. Bounds'
  <2>1. DOMAIN file'.cells \subseteq Word
    BY <1>8, <1>19
  <2>2. var_used' \in Int /\ dyn_used' \in Int
    <3>1. SizesBelow[mem_max + 1] \in Int
      <4>1. 0 \in 0..mem_max
        OBVIOUS
      <4> QED BY <1>2, <4>1, SizesStep
    <3>2. Cardinality(words) \in Nat
      BY <1>4, WordCount
    <3> QED BY <1>1, <1>15, <1>16, <3>1, <3>2
  <2> QED BY <1>1, <1>2, <1>3, <1>4, <2>1, <2>2, BoundsFrame
<1>25. Layout(link, info)' /\ Parted(info)' /\ Circle(link, info)' /\ Rising(link)'
  <2>1. Layout(link', info') /\ Parted(info') /\ Circle(link', info') /\ Rising(link')
    BY <1>2, <1>3
  <2> QED BY <1>1, <1>3, <2>1, LayoutFrame
<1>26. (\A x \in ring : info[x] = cell_info[x])'
  BY <1>1, <1>18, <1>20
<1>27. Storing'
  BY <1>1, <1>22, <1>23, <1>25, <1>26 DEF Storing
<1> QED BY <1>1, <1>3, <1>24, <1>27 DEF FileInv

-----------------------------------------------------------------------------
(* The next job.                                                           *)

\* The file still fits while it is read.
LEMMA StoredFrame ==
  ASSUME Stored, Frame, rover' = rover, file' = file
  PROVE  Stored' /\ cell_link' = cell_link /\ cell_info' = cell_info
<1>1. cell_link' = cell_link /\ cell_info' = cell_info
  BY DEF cell_link, cell_info
<1>2. SizesBelow' = SizesBelow
  BY SizesFrame DEF Frame
<1>3. /\ Layout(cell_link, cell_info) /\ Circle(cell_link, cell_info)
      /\ Rising(cell_link) /\ Parted(cell_info) /\ DOMAIN file.cells = Kept(cell_info)
      /\ cell_link \in [DOMAIN file.cells -> HalfWord]
      /\ cell_info \in [DOMAIN file.cells -> HalfWord]
      /\ file.lo = lo_mem_max /\ file.rover = rover /\ file.hi = hi_mem_min /\ file.avail = avail
      /\ file.used = lo_mem_stat_max + 1 + SizesBelow[mem_max + 1]
      /\ file.dyn = Cardinality(words)
      /\ file.count = Cardinality(DOMAIN file.cells)
      /\ \A x \in ring : cell_info[x] \in Nat
  BY Zenon DEF Stored
<1>4. \E l, i : l = cell_link /\ i = cell_info
  OBVIOUS
<1>5. PICK l, i : l = cell_link /\ i = cell_info
  BY <1>4
<1>6. /\ Layout(cell_link, cell_info)' <=> Layout(l, i)
      /\ Parted(cell_info)' <=> Parted(i)
      /\ Circle(cell_link, cell_info)' <=> Circle(l, i)
      /\ Rising(cell_link)' <=> Rising(l)
      /\ Kept(cell_info)' = Kept(i)
  <2>1. cell_link' = l /\ cell_info' = i
    BY <1>1, <1>5
  <2> QED BY <2>1, CellsFrame
<1>7. /\ Layout(cell_link, cell_info)' /\ Circle(cell_link, cell_info)'
      /\ Rising(cell_link)' /\ Parted(cell_info)' /\ DOMAIN file'.cells = Kept(cell_info)'
  BY <1>3, <1>5, <1>6
<1>8. /\ cell_link' \in [DOMAIN file'.cells -> HalfWord]
      /\ cell_info' \in [DOMAIN file'.cells -> HalfWord]
  BY <1>1, <1>3
<1>9. /\ file'.lo = lo_mem_max' /\ file'.rover = rover' /\ file'.hi = hi_mem_min'
      /\ file'.avail = avail'
      /\ file'.used = lo_mem_stat_max + 1 + SizesBelow'[mem_max + 1]
      /\ file'.dyn = Cardinality(words')
      /\ file'.count = Cardinality(DOMAIN file'.cells)
  BY <1>2, <1>3 DEF Frame
<1>10. Stored'
  <2>1. \A x \in ring' : cell_info'[x] \in Nat
    BY <1>1, <1>3 DEF Frame
  <2> QED BY <1>7, <1>8, <1>9, <2>1, Zenon DEF Stored, HalfWord
<1> QED BY <1>1, <1>10

LEMMA UndumpBoundsHolds == ASSUME FileInv, UndumpBounds PROVE FileInv'
<1> USE MemoryAssumption
<1>1. stage = "stored"
  BY DEF UndumpBounds
<1>2. Bounds /\ pc = "idle" /\ Layout(link, info) /\ Circle(link, info) /\ Rising(link) /\ Stored
  BY <1>1 DEF FileInv, Storing
<1>3. /\ lo_mem_stat_max + GrowBy <= lo_mem_max /\ lo_mem_max < hi_mem_min
      /\ hi_mem_min <= mem_top - 2 /\ lo_mem_max \in Nat /\ hi_mem_min \in Nat
      /\ dyn_used \in Int /\ var_used \in Int /\ old_rover \in Word /\ rover \in Word
      /\ lo_mem_max \in Word /\ DOMAIN file.cells \subseteq Word
  BY <1>2 DEF Bounds, Ordered, FileTypeOK, TypeOK, Word
<1>4. file.lo = lo_mem_max /\ file.rover = rover
  BY <1>2, Zenon DEF Stored
<1>5. rover \in ring /\ rover \in Nat /\ lo_mem_stat_max < rover /\ rover <= lo_mem_max
  <2>1. Tiles(info) /\ Sized(info) /\ rover \in ring
    BY <1>2 DEF Sized, Layout, Circle, Bounds, FileTypeOK, TypeOK, HalfWord
  <2>2. rover \in Nat /\ lo_mem_stat_max < rover /\ rover + 1 < lo_mem_max
    BY <1>2, <2>1, PlacesAre
  <2> QED BY <1>3, <2>1, <2>2
<1>6. ~ \/ file.lo \notin (lo_mem_stat_max + GrowBy)..(hi_mem_stat_min - 1)
        \/ file.rover \notin (lo_mem_stat_max + 1)..file.lo
  BY <1>3, <1>4, <1>5
<1>7. /\ \E a1, b1 \in Garbage : link' = [x \in Word |-> a1] /\ info' = [x \in Word |-> b1]
      /\ lo_mem_max' = file.lo /\ rover' = file.rover /\ u' = 0 /\ v' = file.rover
      /\ stage' = "undump"
      /\ UNCHANGED <<hi_mem_min, mem_end, avail, dyn_used, var_used, pc,
                     locals, nodes, words, ring, old_rover, file>>
  BY <1>6 DEF UndumpBounds
<1>8. link' \in [Word -> HalfWord] /\ info' \in [Word -> HalfWord]
  <2>1. Garbage \subseteq HalfWord
    BY BaseFileAssumption
  <2> QED BY <1>7, <2>1
<1>9. Frame /\ rover' = rover /\ file' = file /\ pc' = "idle"
  BY <1>2, <1>4, <1>7 DEF Frame
<1>10. Bounds'
  <2>1. 0 \in Word
    BY DEF Word
  <2> QED BY <1>1, <1>2, <1>3, <1>4, <1>7, <1>8, <1>9, <2>1, BoundsFrame
<1>11. Stored' /\ cell_link' = cell_link /\ cell_info' = cell_info
  BY <1>2, <1>9, StoredFrame
<1>12. Undumped'
  <2>1. \A x \in ring : rover <= x
    BY <1>2, Zenon DEF Stored, Rising
  <2>2. \A x \in ring : x \in Nat
    BY <1>2 DEF Bounds, FileTypeOK, TypeOK, Word
  <2>3. \A x \in DOMAIN file.cells : ~(x < 0)
    BY <1>3 DEF Word
  <2>4. Walked(cell_info, v)'
    BY <1>4, <1>5, <1>7, <2>1, <2>2 DEF Walked
  <2>5. Reached(cell_info)'
    BY <1>4, <1>5, <1>7, <2>4 DEF Reached
  <2> QED BY <1>7, <2>3, <2>5 DEF Undumped
<1>13. Storing'
  BY <1>7, <1>11, <1>12 DEF Storing
<1> QED BY <1>7, <1>9, <1>10, <1>13 DEF FileInv

\* What is known while the file is read.
LEMMA ReadingFacts ==
  ASSUME Bounds, pc = "idle", Stored
  PROVE  /\ Tiles(cell_info) /\ Sized(cell_info)
         /\ DOMAIN file.cells = Kept(cell_info) /\ Kept(cell_info) \subseteq Word
         /\ \A x \in ring : x \in Kept(cell_info) /\ x + 1 \in Kept(cell_info)
         /\ \A x \in Kept(cell_info) : /\ cell_link[x] = file.cells[x][1]
                                       /\ cell_info[x] = file.cells[x][2]
                                       /\ cell_link[x] \in HalfWord /\ cell_info[x] \in HalfWord
         /\ Layout(cell_link, cell_info) /\ Circle(cell_link, cell_info)
         /\ Rising(cell_link) /\ Parted(cell_info)
<1>1. /\ Layout(cell_link, cell_info) /\ Circle(cell_link, cell_info)
      /\ Rising(cell_link) /\ Parted(cell_info) /\ DOMAIN file.cells = Kept(cell_info)
      /\ cell_link \in [DOMAIN file.cells -> HalfWord]
      /\ cell_info \in [DOMAIN file.cells -> HalfWord]
  BY Zenon DEF Stored
<1>2. Tiles(cell_info)
  BY <1>1, Zenon DEF Layout
<1>5. Sized(cell_info)
  BY Zenon DEF Sized, Stored
<1>6. /\ \A x \in ring : x \in Kept(cell_info) /\ x + 1 \in Kept(cell_info)
      /\ Kept(cell_info) \subseteq Word
  BY <1>2, <1>5, KeptWords
<1>7. \A x \in Kept(cell_info) : /\ cell_link[x] = file.cells[x][1]
                                 /\ cell_info[x] = file.cells[x][2]
  BY <1>1 DEF cell_link, cell_info
<1>8. \A x \in Kept(cell_info) : cell_link[x] \in HalfWord /\ cell_info[x] \in HalfWord
  BY <1>1
<1> QED BY <1>1, <1>2, <1>5, <1>6, <1>7, <1>8

LEMMA UndumpNodeHolds == ASSUME FileInv, UndumpNode PROVE FileInv'
<1> USE MemoryAssumption
<1>1. /\ stage = "undump"
      /\ link' = [x \in Word |-> IF x \in u..v + 1 THEN file.cells[x][1] ELSE link[x]]
      /\ info' = [x \in Word |-> IF x \in u..v + 1 THEN file.cells[x][2] ELSE info[x]]
      /\ UNCHANGED <<lo_mem_max, hi_mem_min, mem_end, avail, rover, dyn_used, var_used, pc,
                     locals, nodes, words, ring, old_rover, file>>
  BY DEF UndumpNode, Get, bounds
<1>2. Bounds /\ pc = "idle" /\ Stored /\ Undumped
  BY <1>1 DEF FileInv, Storing
<1>3. Frame /\ pc' = "idle" /\ rover' = rover /\ file' = file
  BY <1>1, <1>2 DEF Frame
<1>4. /\ Tiles(cell_info) /\ Sized(cell_info)
      /\ DOMAIN file.cells = Kept(cell_info) /\ Kept(cell_info) \subseteq Word
      /\ \A x \in Kept(cell_info) : /\ cell_link[x] = file.cells[x][1]
                                    /\ cell_info[x] = file.cells[x][2]
                                    /\ cell_link[x] \in HalfWord /\ cell_info[x] \in HalfWord
      /\ Circle(cell_link, cell_info) /\ Rising(cell_link)
  BY <1>2, ReadingFacts
<1>5. /\ v \in ring /\ Walked(cell_info, v)
      /\ \A x \in Kept(cell_info) : x < u => link[x] = cell_link[x] /\ info[x] = cell_info[x]
  BY <1>1, <1>2, <1>4 DEF Undumped, Reached
<1>6. PICK w, e : w = cell_link[v + 1] /\ e = v + cell_info[v]
  OBVIOUS
<1>7. /\ w \in ring /\ u \in Nat /\ v \in Nat /\ e \in Nat /\ u <= v /\ v + 2 <= e
      /\ e <= lo_mem_max /\ lo_mem_max \in Nat /\ e \in Word /\ w \in Word /\ v + 1 \in Word
      /\ w # rover => v < w /\ e <= w /\ \A x \in ring : x < w => x + cell_info[x] <= e
      /\ w = rover => \A x \in ring : x + cell_info[x] <= e
      /\ (0..e - 1) \ Within2(cell_info) = ((0..u - 1) \ Within2(cell_info)) \cup u..v + 1
  BY <1>2, <1>4, <1>5, <1>6, WalkStep
<1>8. ASSUME NEW x \in u..v + 1
      PROVE  x \in Kept(cell_info) /\ x \in Word /\ link'[x] = cell_link[x] /\ info'[x] = cell_info[x]
  <2>1. x \in (0..e - 1) \ Within2(cell_info)
    BY <1>7
  <2>2. x \in 0..lo_mem_max
    BY <1>7, <2>1
  <2>3. x \in Kept(cell_info)
    BY <2>1, <2>2 DEF Kept
  <2> QED BY <1>1, <1>4, <2>3
<1>9. v + 1 \in u..v + 1 /\ v \in u..v + 1
  BY <1>7
<1>10. link'[v + 1] = w /\ v + info'[v] = e
  BY <1>6, <1>8, <1>9
<1>11. ~(e > lo_mem_max \/ (v >= w /\ w # rover))
  BY <1>7
<1>12. u' = e /\ v' = w /\ stage' = IF w = rover THEN "unrest" ELSE "undump"
  BY <1>1, <1>10, <1>11 DEF UndumpNode
<1>13. link' \in [Word -> HalfWord] /\ info' \in [Word -> HalfWord]
       /\ \A x \in Word \ u..v + 1 : link'[x] = link[x] /\ info'[x] = info[x]
  <2>1. link \in [Word -> HalfWord] /\ info \in [Word -> HalfWord]
    BY <1>2 DEF Bounds, FileTypeOK, TypeOK, HalfWord
  <2>2. \A x \in u..v + 1 : link'[x] \in HalfWord /\ info'[x] \in HalfWord
    BY <1>4, <1>8
  <2> QED BY <1>1, <2>1, <2>2
<1>14. \A x \in Kept(cell_info) : x < e => link'[x] = cell_link[x] /\ info'[x] = cell_info[x]
  <2> SUFFICES ASSUME NEW x \in Kept(cell_info), x < e
               PROVE  link'[x] = cell_link[x] /\ info'[x] = cell_info[x]
    OBVIOUS
  <2>1. CASE x \in u..v + 1
    BY <1>8, <2>1
  <2>2. CASE x \notin u..v + 1
    <3>1. x \in Word /\ x \in Nat /\ x \in 0..e - 1
      BY <1>4, <1>7 DEF Word
    <3>2. x \notin Within2(cell_info)
      <4>1. hi_mem_min \in Nat /\ lo_mem_max < hi_mem_min
        BY <1>2, <1>4, PlacesAre
      <4> QED BY <1>7, <3>1, <4>1 DEF Kept
    <3>3. x \in 0..u - 1
      BY <1>7, <2>2, <3>1, <3>2
    <3>4. x < u
      BY <1>7, <3>3
    <3> QED BY <1>5, <1>13, <2>2, <3>1, <3>4
  <2> QED BY <2>1, <2>2
<1>15. Stored' /\ cell_link' = cell_link /\ cell_info' = cell_info
  BY <1>2, <1>3, StoredFrame
<1>16. Reached(cell_info)'
  <2>1. w # rover => e \in 0..w /\ \A x \in ring : x < w => x + cell_info[x] <= e
    BY <1>7
  <2>2. w = rover => e # 0 /\ e \in 0..lo_mem_max /\ \A x \in ring : x + cell_info[x] <= e
    BY <1>7
  <2>3. \E x \in ring : e = x + cell_info[x]
    BY <1>5, <1>6
  <2>4. ring' = ring /\ lo_mem_max' = lo_mem_max /\ u' = e /\ v' = w
    BY <1>1, <1>12
  <2>5. w # rover => Walked(cell_info, v)'
    BY <1>15, <2>1, <2>3, <2>4 DEF Walked
  <2>6. w = rover => Walked(cell_info, lo_mem_max)'
    BY <1>15, <2>2, <2>3, <2>4 DEF Walked
  <2> QED BY <1>7, <1>12, <2>2, <2>4, <2>5, <2>6 DEF Reached
<1>17. Undumped'
  BY <1>3, <1>4, <1>12, <1>14, <1>15, <1>16 DEF Undumped
<1>18. Bounds'
  <2>1. DOMAIN file'.cells \subseteq Word
    BY <1>3, <1>4
  <2>2. rover \in Word /\ old_rover \in Word /\ var_used \in Int /\ dyn_used \in Int
    BY <1>2 DEF Bounds, FileTypeOK, TypeOK
  <2> QED BY <1>1, <1>2, <1>3, <1>7, <1>12, <1>13, <2>1, <2>2, BoundsFrame
<1>19. Storing'
  BY <1>12, <1>15, <1>17 DEF Storing
<1> QED BY <1>3, <1>12, <1>18, <1>19 DEF FileInv

LEMMA UndumpRestHolds == ASSUME FileInv, UndumpRest PROVE FileInv'
<1> USE MemoryAssumption
<1>1. stage = "unrest"
  BY DEF UndumpRest
<1>2. Bounds /\ pc = "idle" /\ Stored /\ Undumped
  BY <1>1 DEF FileInv, Storing
<1>3. /\ Tiles(cell_info) /\ Sized(cell_info)
      /\ DOMAIN file.cells = Kept(cell_info) /\ Kept(cell_info) \subseteq Word
      /\ \A x \in Kept(cell_info) : /\ cell_link[x] = file.cells[x][1]
                                    /\ cell_info[x] = file.cells[x][2]
                                    /\ cell_link[x] \in HalfWord /\ cell_info[x] \in HalfWord
      /\ Layout(cell_link, cell_info) /\ Circle(cell_link, cell_info)
      /\ Rising(cell_link) /\ Parted(cell_info)
  BY <1>2, ReadingFacts
<1>4. /\ u # 0 /\ Walked(cell_info, lo_mem_max)
      /\ \A x \in Kept(cell_info) : x < u => link[x] = cell_link[x] /\ info[x] = cell_info[x]
  BY <1>1, <1>2, <1>3 DEF Undumped, Reached
<1>5. /\ Kept(cell_info) = ((0..u - 1) \ Within2(cell_info)) \cup u..lo_mem_max
                           \cup hi_mem_min..mem_end
      /\ u \in Nat /\ u <= lo_mem_max
  BY <1>2, <1>3, <1>4, WalkEnd
<1>6. /\ lo_mem_max \in Nat /\ hi_mem_min \in Nat /\ lo_mem_max < hi_mem_min
      /\ mem_end = mem_top /\ mem_top = mem_max /\ hi_mem_min <= mem_top - 2
      /\ avail \in 0..mem_top /\ rover \in Word /\ hi_mem_min \in Word /\ mem_top \in Word
      /\ avail \in Word /\ lo_mem_max \in Word
  BY <1>2, BaseFileAssumption DEF Bounds, Ordered, FileTypeOK, TypeOK, Word
<1>7. /\ file.lo = lo_mem_max /\ file.rover = rover /\ file.hi = hi_mem_min /\ file.avail = avail
      /\ file.used = lo_mem_stat_max + 1 + SizesBelow[mem_max + 1]
      /\ file.dyn = Cardinality(words)
  BY <1>2, Zenon DEF Stored
<1>8. ~ \/ file.hi \notin (lo_mem_max + 1)..hi_mem_stat_min
        \/ file.avail \notin null..mem_top
  BY <1>6, <1>7
<1>9. /\ link' = [x \in Word |-> IF x \in u..lo_mem_max \cup file.hi..mem_top
                                 THEN file.cells[x][1] ELSE link[x]]
      /\ info' = [x \in Word |-> IF x \in u..lo_mem_max \cup file.hi..mem_top
                                 THEN file.cells[x][2] ELSE info[x]]
      /\ hi_mem_min' = file.hi /\ avail' = file.avail /\ mem_end' = mem_top
      /\ var_used' = file.used /\ dyn_used' = file.dyn
      /\ stage' = "loaded" /\ file' = NoFile
      /\ u' = null /\ v' = null /\ old_rover' = null
      /\ UNCHANGED <<lo_mem_max, rover, pc, locals, nodes, words, ring>>
  BY <1>8 DEF UndumpRest
<1>10. Frame /\ pc' = "idle" /\ rover' = rover
  BY <1>2, <1>6, <1>7, <1>9 DEF Frame
<1> DEFINE R == u..lo_mem_max \cup hi_mem_min..mem_top
<1>11. ASSUME NEW x \in Kept(cell_info)
       PROVE  link'[x] = cell_link[x] /\ info'[x] = cell_info[x]
  <2>1. x \in Word
    BY <1>3
  <2>2. CASE x \in R
    BY <1>3, <1>7, <1>9, <2>1, <2>2
  <2>3. CASE x \notin R
    <3>1. x \in 0..u - 1
      BY <1>5, <1>6, <2>3
    <3>2. x < u
      BY <1>5, <3>1
    <3>3. link'[x] = link[x] /\ info'[x] = info[x]
      BY <1>7, <1>9, <2>1, <2>3
    <3> QED BY <1>4, <3>2, <3>3
  <2> QED BY <2>2, <2>3
<1>12. link' \in [Word -> HalfWord] /\ info' \in [Word -> HalfWord]
  <2>1. link \in [Word -> HalfWord] /\ info \in [Word -> HalfWord]
    BY <1>2 DEF Bounds, FileTypeOK, TypeOK, HalfWord
  <2>2. \A x \in R : x \in Kept(cell_info)
    BY <1>5, <1>6
  <2>3. \A x \in Word : x \in R => link'[x] \in HalfWord /\ info'[x] \in HalfWord
    BY <1>3, <1>11, <2>2
  <2>4. \A x \in Word : x \notin R => link'[x] = link[x] /\ info'[x] = info[x]
    BY <1>7, <1>9
  <2> HIDE DEF R
  <2>5. \A x \in Word : link'[x] \in HalfWord /\ info'[x] \in HalfWord
    BY <2>1, <2>3, <2>4
  <2> QED BY <1>9, <2>5
<1>13. Layout(link', info') /\ Circle(link', info')
  BY <1>2, <1>3, <1>11, KeptAgree
<1>14. Layout(link, info)' /\ Circle(link, info)'
  BY <1>10, <1>13, LayoutFrame
<1>15. Accounting'
  <2>1. SizesBelow' = SizesBelow
    BY <1>9, SizesFrame
  <2> QED BY <1>7, <1>9, <2>1 DEF Accounting
<1>16. Bounds'
  <2>1. 0 \in Word
    BY DEF Word
  <2>2. DOMAIN file'.cells = {}
    BY <1>9 DEF NoFile
  <2>3. file.used \in Int /\ file.dyn \in Int
    <3>1. SizesBelow[mem_max + 1] \in Int
      <4>1. 0 \in 0..mem_max
        OBVIOUS
      <4> QED BY <1>2, <4>1, SizesStep
    <3>2. Cardinality(words) \in Nat
      <4>1. words \subseteq Word
        BY <1>2 DEF Bounds, FileTypeOK, TypeOK
      <4> QED BY <4>1, WordCount
    <3> QED BY <1>7, <3>1, <3>2
  <2> QED BY <1>1, <1>2, <1>6, <1>9, <1>10, <1>12, <2>1, <2>2, <2>3, BoundsFrame
<1>17. Storing'
  BY <1>9, <1>14, <1>15 DEF Storing
<1> QED BY <1>9, <1>10, <1>16, <1>17 DEF FileInv

-----------------------------------------------------------------------------
(* From the start of INIMF to the start of the next job.                   *)

LEMMA FileStart == FileInit => FileInv
<1> USE MemoryAssumption
<1> SUFFICES ASSUME FileInit PROVE FileInv
  OBVIOUS
<1>1. Init /\ stage = "run" /\ u = 0 /\ v = 0 /\ old_rover = 0 /\ file = NoFile
  BY DEF FileInit
<1>2. IInv /\ Accounting
  BY <1>1, InitHolds, StatsStart
<1>3. TourInv
  <2>1. pc = "idle" /\ s = 0
    BY <1>1 DEF Init
  <2> QED BY <1>2, <2>1 DEF TourInv, Tour, OverflowJustified
<1>4. Bounds
  <2>1. 0 \in Word
    BY DEF Word
  <2>2. DOMAIN file.cells = {}
    BY <1>1 DEF NoFile
  <2>3. TypeOK /\ Ordered /\ words \subseteq hi_mem_min..mem_end /\ StaticHigh \subseteq words
    BY <1>2 DEF IInv, AvailOK
  <2>4. lo_mem_stat_max + GrowBy <= lo_mem_max
    BY <1>1 DEF Init
  <2> QED BY <1>1, <2>1, <2>2, <2>3, <2>4 DEF Bounds, FileTypeOK
<1>5. Running
  BY <1>1, <1>2, <1>3 DEF Running
<1> QED BY <1>1, <1>4, <1>5 DEF FileInv

\* Nothing happens.
LEMMA FileStutters == ASSUME FileInv, UNCHANGED dumpVars PROVE FileInv'
<1>1. /\ link' = link /\ info' = info /\ lo_mem_max' = lo_mem_max /\ hi_mem_min' = hi_mem_min
      /\ mem_end' = mem_end /\ avail' = avail /\ rover' = rover /\ dyn_used' = dyn_used
      /\ var_used' = var_used /\ pc' = pc /\ p' = p /\ q' = q /\ s' = s /\ nodes' = nodes
      /\ words' = words /\ ring' = ring /\ stage' = stage /\ u' = u /\ v' = v
      /\ old_rover' = old_rover /\ file' = file
  BY DEF dumpVars, vars, fileVars
<1>2. Bounds'
  <2>1. Bounds
    BY DEF FileInv
  <2> QED BY <1>1, <2>1 DEF Bounds, FileTypeOK, TypeOK, Ordered
<1>3. /\ Layout(link, info)' <=> Layout(link, info)
      /\ Parted(info)' <=> Parted(info)
      /\ Circle(link, info)' <=> Circle(link, info)
      /\ Rising(link)' <=> Rising(link)
      /\ Within2(info)' = Within2(info) /\ Frame
  <2>1. Frame
    BY <1>1 DEF Frame
  <2> QED BY <1>1, <2>1, LayoutFrame
<1>4. CASE stage \in {"run", "merge"}
  <2>1. Running /\ TourInv /\ IInv /\ Accounting
    BY <1>4 DEF FileInv, Running, TourInv
  <2>2. TourInv' /\ Accounting'
    <3>1. [Next]_vars
      BY <1>1 DEF vars
    <3> QED BY <2>1, <3>1, TourHolds, StatsHold
  <2>3. Running'
    BY <1>1, <1>3, <2>1, <2>2 DEF Running
  <2> QED BY <1>1, <1>2, <1>4, <2>3 DEF FileInv
<1>5. CASE stage \notin {"run", "merge"}
  <2>1. pc = "idle" /\ Storing /\ stage # "off_base"
    BY <1>5 DEF FileInv
  <2>2. SizesBelow' = SizesBelow
    BY <1>1, SizesFrame
  <2>3. stage \in {"stored", "loaded"} => Accounting'
    BY <1>1, <2>1, <2>2 DEF Storing, Accounting
  <2>4. stage \in {"stored", "undump", "unrest"} => Stored' /\ cell_link' = cell_link /\ cell_info' = cell_info
    BY <1>1, <1>3, <2>1, StoredFrame DEF Storing
  <2>5. stage \in {"sort", "walk"} => (\E B \in SUBSET ring : Inserting(B))'
    <3> SUFFICES ASSUME NEW B \in SUBSET ring, Inserting(B) PROVE Inserting(B)'
      BY <1>1, <2>1 DEF Storing
    <3>1. Row(B, u, old_rover)'
      <4>1. PICK c, e : c = u /\ e = old_rover
        OBVIOUS
      <4>2. Row(B, c, e)'
        BY <1>1, <4>1, RowSame DEF Inserting
      <4> QED BY <1>1, <4>1, <4>2 DEF Row
    <3>2. Upward(ring \ B)'
      BY <1>1 DEF Inserting, Upward, rlink
    <3> QED BY <1>1, <3>1, <3>2 DEF Inserting
  <2>6. stage = "relink" => Relinking'
    BY <1>1, <2>1 DEF Storing, Relinking, Upward, llink, rlink
  <2>7. stage \in {"dump", "rest"} => Dumped'
    <3> SUFFICES ASSUME Dumped PROVE Dumped'
      BY <2>1 DEF Storing
    <3>1. Reached(info)'
      BY <1>1 DEF Dumped, Reached, Walked
    <3> QED BY <1>1, <1>3, <2>2, <3>1 DEF Dumped
  <2>8. stage \in {"undump", "unrest"} => Undumped'
    <3> SUFFICES ASSUME Undumped, cell_link' = cell_link, cell_info' = cell_info PROVE Undumped'
      BY <2>1, <2>4 DEF Storing
    <3>1. Reached(cell_info)'
      BY <1>1 DEF Undumped, Reached, Walked
    <3> QED BY <1>1, <3>1 DEF Undumped
  <2>9. stage = "stored" => (\A x \in ring : info[x] = cell_info[x])'
    BY <1>1, <2>1, <2>4 DEF Storing
  <2>10. Storing'
    BY <1>1, <1>3, <2>1, <2>3, <2>4, <2>5, <2>6, <2>7, <2>8, <2>9 DEF Storing
  <2> QED BY <1>1, <1>2, <1>5, <2>1, <2>10 DEF FileInv
<1> QED BY <1>4, <1>5

\* What one job does to the memory, to the base file and to the memory of the
\* next job.
THEOREM FileInvariance == FileSpec => []FileInv
<1>1. FileInv /\ [FileNext]_dumpVars => FileInv'
  <2> SUFFICES ASSUME FileInv, [FileNext]_dumpVars PROVE FileInv'
    OBVIOUS
  <2>1. CASE FileNext
    BY <2>1, RunInimfHolds, StoreBaseFileHolds, CutRingHolds, InsertInFrontHolds, FindPlaceHolds,
       WalkHolds, InsertAfterHolds, StartRelinkHolds, RelinkHolds, CloseRingHolds, DumpNodeHolds,
       DumpRestHolds, UndumpBoundsHolds, UndumpNodeHolds, UndumpRestHolds DEF FileNext
  <2>2. CASE UNCHANGED dumpVars
    BY <2>2, FileStutters
  <2> QED BY <2>1, <2>2
<1> QED BY <1>1, FileStart, PTL DEF FileSpec

\* The heap is sound while INIMF runs, after its statistics were recounted for
\* the dump, and again in the job that loads the base file, whatever the fresh
\* memory held; load_base_file refuses nothing, and the ring that is dumped is
\* in order and has no adjacent nodes.
THEOREM LoadedHeapSound == FileSpec => []HeapSound
<1>1. FileInv => HeapSound
  <2> SUFFICES ASSUME FileInv PROVE HeapSound
    OBVIOUS
  <2>1. Bounds /\ FileTypeOK /\ stage # "off_base"
    BY DEF FileInv, Bounds
  <2>2. ASSUME stage \in {"dump", "rest", "stored"} PROVE SortedRing
    <3>1. /\ pc = "idle" /\ Layout(link, info) /\ Parted(info) /\ Circle(link, info) /\ Rising(link)
      BY <2>2 DEF FileInv, Storing
    <3>2. RingOK
      BY <3>1, LayoutIs
    <3>3. /\ \A x \in ring : rover <= x /\ rlink(x) \in ring /\ (rlink(x) = rover \/ x < rlink(x))
          /\ \A x \in ring : x + info[x] \notin ring
      BY <3>1 DEF Rising, Parted, rlink
    <3>4. ASSUME NEW x \in ring, rlink(x) # rover PROVE x + info[x] < rlink(x)
      <4>1. Tiles(info) /\ Sized(info)
        BY <2>1, <3>1 DEF Sized, Layout, Bounds, FileTypeOK, TypeOK, HalfWord
      <4>2. PICK y \in ring : y = rlink(x)
        BY <3>3
      <4>3. x \in Nat /\ y \in Nat /\ info[x] \in Nat
        BY <2>1, <3>1, <4>1, PlacesAre DEF Sized
      <4>4. x \in Node /\ y \in Node /\ Extent(info, x) = info[x] /\ x < y
        BY <3>3, <3>4, <4>2 DEF Node, Extent
      <4>5. x + info[x] <= y /\ x + info[x] # y
        BY <3>3, <4>1, <4>4 DEF Tiles
      <4> QED BY <4>2, <4>3, <4>5
    <3> QED BY <3>2, <3>3, <3>4 DEF SortedRing, node_size
  <2>3. SortedRing
    BY <2>2 DEF SortedRing
  <2>4. stage = "run" => HeapIntact /\ Accounting
    BY DEF FileInv, Running, TourInv, IInv, HeapIntact
  <2>5. stage = "loaded" => HeapIntact
    <3> SUFFICES ASSUME stage = "loaded" PROVE HeapIntact
      OBVIOUS
    <3>1. pc = "idle" /\ Layout(link, info) /\ Circle(link, info)
      BY DEF FileInv, Storing
    <3> QED BY <2>1, <3>1, LayoutIntact
  <2>6. stage \in {"stored", "loaded"} => Accounting
    BY DEF FileInv, Storing
  <2> QED BY <2>1, <2>3, <2>4, <2>5, <2>6 DEF HeapSound
<1> QED BY <1>1, FileInvariance, PTL

\* The base file holds exactly the words that are not inside empty nodes, each
\* once.
THEOREM FileHoldsLiveWords == FileSpec => []OnlyLiveWords
<1>1. FileInv => OnlyLiveWords
  <2> SUFFICES ASSUME FileInv, stage = "stored"
               PROVE  /\ file.count = Cardinality(DOMAIN file.cells)
                      /\ DOMAIN file.cells =
                           (0..lo_mem_max \ UNION {Span(x + 2, node_size(x) - 2) : x \in ring})
                           \cup hi_mem_min..mem_end
    BY DEF OnlyLiveWords
  <2>1. Stored /\ \A x \in ring : info[x] = cell_info[x]
    BY DEF FileInv, Storing
  <2>2. DOMAIN file.cells = Kept(cell_info) /\ file.count = Cardinality(DOMAIN file.cells)
    BY <2>1, Zenon DEF Stored
  <2>3. Kept(cell_info) = Kept(info)
    BY <2>1, KeptSame
  <2> QED BY <2>2, <2>3 DEF Kept, Within2, node_size
<1> QED BY <1>1, FileInvariance, PTL

-----------------------------------------------------------------------------
(* Following the links of the list that is being sorted.                   *)

IsTrail(f, y, M) ==
    f = [k \in 0..M |-> [x \in HalfWord |-> IF x = y \/ k = 0 THEN {}
                                            ELSE {x} \cup f[k - 1][rlink(x)]]]

LEMMA TrailDefined ==
  ASSUME NEW y, NEW M \in Nat
  PROVE  \E f : IsTrail(f, y, M)
<1> DEFINE S == {m \in Nat : \E f : IsTrail(f, y, m)}
           Line(f, k) == [x \in HalfWord |-> IF x = y \/ k = 0 THEN {}
                                             ELSE {x} \cup f[k - 1][rlink(x)]]
<1>1. 0 \in S
  <2> DEFINE f == [k \in 0..0 |-> [x \in HalfWord |-> {}]]
  <2>1. f = [k \in 0..0 |-> [x \in HalfWord |-> IF x = y \/ k = 0 THEN {}
                                                ELSE {x} \cup f[k - 1][rlink(x)]]]
    OBVIOUS
  <2> QED BY <2>1 DEF IsTrail
<1>2. \A m \in Nat : m \in S => m + 1 \in S
  <2> TAKE m \in Nat
  <2> HAVE m \in S
  <2>1. PICK c : IsTrail(c, y, m)
    OBVIOUS
  <2> DEFINE f == [k \in 0..(m + 1) |-> IF k <= m THEN c[k] ELSE Line(c, k)]
  <2>2. \A k \in 0..m : c[k] = Line(c, k)
    <3>1. c = [k \in 0..m |-> Line(c, k)]
      BY <2>1, Zenon DEF IsTrail
    <3> HIDE DEF Line
    <3> QED BY <3>1, Zenon
  <2>3. ASSUME NEW k \in 0..(m + 1) PROVE f[k] = Line(f, k)
    <3>1. \A j \in 0..m : f[j] = c[j]
      OBVIOUS
    <3>2. k # 0 => k - 1 \in 0..m
      OBVIOUS
    <3>3. f[k] = Line(c, k)
      <4>1. CASE k <= m
        <5>1. k \in 0..m /\ f[k] = c[k]
          BY <4>1
        <5> QED BY <2>2, <5>1
      <4>2. CASE ~(k <= m)
        BY <4>2
      <4> QED BY <4>1, <4>2
    <3> HIDE DEF f
    <3>4. Line(f, k) = Line(c, k)
      BY <3>1, <3>2
    <3> QED BY <3>3, <3>4
  <2>4. f = [k \in 0..(m + 1) |-> f[k]]
    OBVIOUS
  <2> HIDE DEF f
  <2>5. f = [k \in 0..(m + 1) |-> Line(f, k)]
    BY <2>3, <2>4
  <2> QED BY <2>5 DEF IsTrail
<1> HIDE DEF S
<1>3. M \in S
  BY <1>1, <1>2, NatSetInduction
<1> QED BY <1>3 DEF S

\* What Upto follows in a row is the row.
LEMMA UptoRow ==
  ASSUME Bounds, pc = "idle", Layout(link, info), NEW B \in SUBSET ring, NEW c, NEW e,
         e \in ring \cup {empty_flag}, Row(B, c, e)
  PROVE  Upto(e)[c] = B
<1> USE MemoryAssumption
<1>1. \E f : IsTrail(f, e, mem_max) /\ Upto(e) = f[mem_max]
  <2>1. \E f : IsTrail(f, e, mem_max)
    BY TrailDefined
  <2> QED BY <2>1, Zenon DEF IsTrail, Upto
<1>2. PICK f : IsTrail(f, e, mem_max) /\ Upto(e) = f[mem_max]
  BY <1>1
<1>3. ASSUME NEW k \in 0..mem_max, NEW x \in HalfWord
      PROVE  f[k][x] = IF x = e \/ k = 0 THEN {} ELSE {x} \cup f[k - 1][rlink(x)]
  <2>1. f[k] = [z \in HalfWord |-> IF z = e \/ k = 0 THEN {} ELSE {z} \cup f[k - 1][rlink(z)]]
    BY <1>2, Zenon DEF IsTrail
  <2> QED BY <2>1, Zenon
<1>4. /\ \A x \in ring \cup {empty_flag} : x \in HalfWord
      /\ ring \subseteq Word
  BY SortPlaces
<1> DEFINE S == {k \in Nat : k <= mem_max =>
                   \A C \in SUBSET ring : \A d \in HalfWord :
                      Row(C, d, e) /\ Cardinality(C) <= k => f[k][d] = C}
<1>5. 0 \in S
  <2> SUFFICES ASSUME NEW C \in SUBSET ring, NEW d \in HalfWord, Row(C, d, e),
                      Cardinality(C) <= 0
               PROVE  f[0][d] = C
    OBVIOUS
  <2>1. f[0][d] = {}
    <3>1. 0 \in 0..mem_max
      OBVIOUS
    <3> QED BY <1>3, <3>1
  <2>2. ASSUME NEW x \in C PROVE FALSE
    <3>1. C \subseteq Word
      BY <1>4
    <3>2. Cardinality(C \ {x}) = Cardinality(C) - 1 /\ Cardinality(C) \in Nat
      BY <3>1, WordCount
    <3>3. Cardinality(C \ {x}) \in Nat
      <4>1. C \ {x} \subseteq Word
        BY <3>1
      <4> QED BY <4>1, WordCount
    <3> QED BY <3>2, <3>3
  <2> QED BY <2>1, <2>2
<1>6. \A k \in Nat : k \in S => k + 1 \in S
  <2> SUFFICES ASSUME NEW k \in Nat, k \in S, k + 1 <= mem_max, NEW C \in SUBSET ring,
                      NEW d \in HalfWord, Row(C, d, e), Cardinality(C) <= k + 1
               PROVE  f[k + 1][d] = C
    OBVIOUS
  <2>1. k + 1 \in 0..mem_max /\ k + 1 # 0 /\ (k + 1) - 1 = k /\ k <= mem_max
    OBVIOUS
  <2>2. f[k + 1][d] = IF d = e THEN {} ELSE {d} \cup f[k][rlink(d)]
    BY <1>3, <2>1
  <2>3. CASE d = e
    <3>1. {} \in SUBSET C /\ d \in {} \cup {e} /\ \A x \in {} : rlink(x) \in {} \cup {e}
      BY <2>3
    <3>2. C = {}
      BY <3>1, Zenon DEF Row
    <3> QED BY <2>2, <2>3, <3>2
  <2>4. CASE d # e
    <3>1. d \in C /\ Row(C \ {d}, rlink(d), e)
      BY <2>4, RowLess
    <3>2. Cardinality(C \ {d}) <= k /\ C \ {d} \in SUBSET ring
      <4>1. C \subseteq Word
        BY <1>4
      <4>2. Cardinality(C \ {d}) = Cardinality(C) - 1 /\ Cardinality(C) \in Nat
        BY <3>1, <4>1, WordCount
      <4> QED BY <4>2
    <3>3. rlink(d) \in HalfWord
      <4>1. rlink(d) \in C \cup {e}
        BY <3>1 DEF Row
      <4> QED BY <1>4, <4>1
    <3>4. f[k][rlink(d)] = C \ {d}
      BY <2>1, <3>1, <3>2, <3>3
    <3> QED BY <2>2, <2>4, <3>1, <3>4
  <2> QED BY <2>3, <2>4
<1>7. mem_max \in S
  <2> HIDE DEF S
  <2> QED BY <1>5, <1>6, NatSetInduction
<1>8. c \in HalfWord
  BY <1>4 DEF Row
<1>9. Cardinality(B) <= mem_max
  <2>1. B \in SUBSET 1..mem_max
    <3>1. Tiles(info) /\ Sized(info)
      BY DEF Sized, Layout, Bounds, FileTypeOK, TypeOK, HalfWord
    <3>2. \A x \in ring : x \in Nat /\ lo_mem_stat_max < x /\ x \in Word
      BY <3>1, PlacesAre
    <3> QED BY <3>2 DEF Word
  <2>2. IsFiniteSet(1..mem_max) /\ Cardinality(1..mem_max) = mem_max
    <3>1. Cardinality(1..mem_max) = IF 1 > mem_max THEN 0 ELSE mem_max - 1 + 1
      BY FS_Interval
    <3>2. IsFiniteSet(1..mem_max)
      BY FS_Interval
    <3> QED BY <3>1, <3>2
  <2>3. Cardinality(B) <= Cardinality(1..mem_max)
    BY <2>1, <2>2, FS_Subset
  <2> QED BY <2>2, <2>3
<1> QED BY <1>2, <1>7, <1>8, <1>9

\* A list that goes up is a row that ends at max_halfword.
LEMMA UpwardRow ==
  ASSUME Bounds, pc = "idle", Layout(link, info), NEW A \in SUBSET ring, Upward(A)
  PROVE  Row(A, rover, empty_flag)
<1>1. A \subseteq Nat /\ empty_flag \in Nat /\ \A y \in A : y < empty_flag
  BY SortPlaces, MemoryAssumption
<1>2. /\ rover \in A
      /\ \A x \in A : rover <= x /\ x < rlink(x) /\ rlink(x) \in A \cup {empty_flag}
      /\ \A x, y \in A : x < y => rlink(x) <= y
  BY DEF Upward
<1>3. empty_flag \notin A /\ \A x \in A : rlink(x) \in Nat /\ x \in Nat
  <2>1. \A x \in A : x \in Nat /\ x # empty_flag
    BY <1>1
  <2>2. \A x \in A \cup {empty_flag} : x \in Nat
    BY <1>1, <2>1
  <2> QED BY <1>2, <2>1, <2>2
<1>4. \A x, y \in A : rlink(x) = rlink(y) => x = y
  <2> TAKE x, y \in A
  <2> HAVE rlink(x) = rlink(y)
  <2>1. ~(x < y) /\ ~(y < x)
    BY <1>2, <1>3
  <2> QED BY <1>3, <2>1
<1>5. \A x \in A : rlink(x) # rover
  BY <1>1, <1>2, <1>3
<1>6. ASSUME NEW S \in SUBSET A, rover \in S \cup {empty_flag},
             \A x \in S : rlink(x) \in S \cup {empty_flag}
      PROVE  S = A
  <2>1. rover \in S
    BY <1>2, <1>3, <1>6
  <2>2. ASSUME A \ S # {} PROVE FALSE
    <3>1. PICK x \in A \ S : \A y \in A \ S : x <= y
      <4>1. A \ S \in SUBSET Nat
        BY <1>1
      <4> QED BY <2>2, <4>1, LeastOf
    <3>2. x \in A /\ x # rover
      BY <2>1, <3>1
    <3>3. PICK y \in A : y < x /\ rlink(y) = x
      BY <1>1, <3>2, Predecessor
    <3>4. y \in S
      BY <1>3, <3>1, <3>3
    <3> QED BY <1>3, <1>6, <3>1, <3>3, <3>4
  <2> QED BY <2>2
<1> QED BY <1>2, <1>3, <1>4, <1>5, <1>6 DEF Row

\* While nodes are inserted, the sorted list and the nodes that wait are the
\* whole ring and share nothing, and the list goes up and ends at max_halfword.
THEOREM NodesInserted == FileSpec => []InsertionSorts
<1>1. FileInv => InsertionSorts
  <2> SUFFICES ASSUME FileInv, stage \in {"sort", "walk", "relink"} PROVE InsertionSorts
    BY DEF InsertionSorts
  <2>1. Bounds /\ pc = "idle" /\ Layout(link, info)
    BY DEF FileInv, Storing
  <2>2. PICK B \in SUBSET ring : /\ Upward(ring \ B)
                                 /\ stage = "relink" => B = {}
                                 /\ stage # "relink" => Inserting(B)
    <3>1. CASE stage = "relink"
      <4>1. Upward(ring \ {})
        BY <3>1 DEF FileInv, Storing, Relinking
      <4> QED BY <3>1, <4>1
    <3>2. CASE stage # "relink"
      BY <3>2 DEF FileInv, Storing, Inserting
    <3> QED BY <3>1, <3>2
  <2>3. Upto(empty_flag)[rover] = ring \ B
    <3>1. Row(ring \ B, rover, empty_flag)
      BY <2>1, <2>2, UpwardRow
    <3> QED BY <2>1, <3>1, UptoRow
  <2>4. (IF stage = "relink" THEN {} ELSE Upto(old_rover)[u]) = B
    <3>1. stage # "relink" => Row(B, u, old_rover) /\ old_rover \in ring
      BY <2>2 DEF Inserting
    <3> QED BY <2>1, <2>2, <3>1, UptoRow
  <2>5. \A x \in ring \ B : x < rlink(x)
    BY <2>2 DEF Upward
  <2>6. stage = "walk" => u \in B /\ v \in ring \ B /\ v < u
    BY <2>2 DEF Inserting
  <2>7. (ring \ B) \cup B = ring /\ (ring \ B) \cap B = {}
    OBVIOUS
  <2> QED BY <2>3, <2>4, <2>5, <2>6, <2>7 DEF InsertionSorts
<1> QED BY <1>1, FileInvariance, PTL

=============================================================================
