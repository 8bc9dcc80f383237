--------------------------- MODULE SaveStackProofs --------------------------
(***************************************************************************)
(* Proofs about macro references and variable roots, for every number of   *)
(* symbols, macros, groups and calls.                                      *)
(***************************************************************************)
EXTENDS SaveStack, FiniteSetTheorems, SequenceTheorems, WellFoundedInduction, TLAPS

EntrySet == [eq_type : {"tag"}, outer : BOOLEAN, equiv : Roots \cup {null}]
            \cup [eq_type : {"macro"}, outer : BOOLEAN, equiv : Macros]
            \cup [eq_type : {"internal"}, outer : BOOLEAN, equiv : Internals]
RootSet  == [name_type : {"free", "root", "saved_root"}, value : {null, "plain"} \cup Macros]
MacSet   == [ref_count : Int, body : Bodies \cup {"none"}]
TabSet   == [eqtb : [Symbols -> EntrySet], root : [Roots -> RootSet], mac : [Macros -> MacSet]]
CallSet  == [kind : {"group"}] \cup [kind : {"args"}, m : Macros, held : BOOLEAN]
            \cup [kind : {"held"}, m : Macros]
ItemOK(e) == /\ e.info \in {"boundary", "symbol", "internal"}
             /\ e.info = "symbol" => e.q \in Symbols /\ e.value \in EntrySet
IsList(q) == q \in Seq({q[i] : i \in DOMAIN q})

-----------------------------------------------------------------------------
(* The invariant.                                                          *)

\* The holders of macro m: symbols and vardefs; among the first n of each list,
\* items of the save stack, calls under way, those of them that held it before,
\* and input levels.
NowM(t, m)     == {q \in Symbols : Holds(t.eqtb[q], m)}
DefM(t, m)     == {r \in Roots : t.root[r].value = m}
SavM(st, n, m) == {i \in 1..n : st[i].info = "symbol" /\ Holds(st[i].value, m)}
CallM(c, n, m) == {i \in 1..n : c[i].kind # "group" /\ c[i].m = m}
HeldM(c, n, m) == {i \in 1..n : c[i].kind = "args" /\ c[i].m = m /\ c[i].held}
ReadM(l, n, m) == {i \in 1..n : l[i] = m}

\* The owners of root r.
NowR(t, r)     == {q \in Symbols : Owns(t.eqtb[q], r)}
SavR(st, n, r) == {i \in 1..n : st[i].info = "symbol" /\ Owns(st[i].value, r)}

\* Every macro counts its holders in the tables and x[m] others.
Balanced(t, x) ==
    \A m \in Macros :
        t.mac[m].ref_count + 1 = Cardinality(NowM(t, m)) + Cardinality(DefM(t, m)) + x[m]

\* Every root has the owner its type says, y[r] of them on the save stack.
Owned(t, y) ==
    \A r \in Roots :
        LET now == Cardinality(NowR(t, r)) IN
        \/ t.root[r].name_type = "free"       /\ now = 0 /\ y[r] = 0
        \/ t.root[r].name_type = "root"       /\ now = 1 /\ y[r] = 0
        \/ t.root[r].name_type = "saved_root" /\ now = 0 /\ y[r] = 1

\* The tables count x other holders and y saved roots.
Fit(t, x, y) == /\ t \in TabSet /\ x \in [Macros -> Int] /\ y \in [Roots -> Int]
                /\ Balanced(t, x) /\ Owned(t, y)

\* The holders that are calls and input levels; those and the first n items of
\* the save stack; the roots that these items own.
Busy(c, k, l, j) ==
    [m \in Macros |-> Cardinality(CallM(c, k, m)) + Cardinality(HeldM(c, k, m))
                      + Cardinality(ReadM(l, j, m))]
Others(st, n, b) == [m \in Macros |-> Cardinality(SavM(st, n, m)) + b[m]]
SavedRoots(st, n) == [r \in Roots |-> Cardinality(SavR(st, n, r))]

STypes ==
    /\ calls \in Seq(CallSet) /\ input \in Seq(Macros)
    /\ IsList(save_ptr) /\ \A i \in DOMAIN save_ptr : ItemOK(save_ptr[i])

Frames ==
    /\ save_ptr # <<>> => save_ptr[1].info = "boundary"
    /\ Cardinality(Bounds(save_ptr, Len(save_ptr))) = Cardinality(GroupsIn(calls, Len(calls)))

Exact == Fit(tab, Others(save_ptr, Len(save_ptr), Busy(calls, Len(calls), input, Len(input))),
             SavedRoots(save_ptr, Len(save_ptr)))

SInv == STypes /\ Frames /\ Exact

-----------------------------------------------------------------------------
(* Induction on natural numbers, for a set.                                *)

Less == {p \in Nat \X Nat : p[1] < p[2]}

\* There is no infinite descent in the natural numbers.
LEMMA LessWellFounded == IsWellFoundedOn(Less, Nat)
<1>1. OpToRel(<, Nat) = Less
  BY DEF OpToRel, Less
<1> QED BY <1>1, NatLessThanWellFounded

\* A set of natural numbers that is not empty has a least one.
LEMMA Least ==
  ASSUME NEW A, A \subseteq Nat, A # {}
  PROVE  \E i \in A : \A j \in A : i <= j
<1>1. \E x \in A : \A y \in A : <<y, x>> \notin Less
  BY LessWellFounded, WFMin
<1>2. PICK x \in A : \A y \in A : <<y, x>> \notin Less
  BY <1>1
<1>3. ASSUME NEW y \in A PROVE x <= y
  <2>1. <<y, x>> \notin Less /\ x \in Nat /\ y \in Nat
    BY <1>2
  <2> QED BY <2>1 DEF Less
<1> QED BY <1>3

\* A set with 0 and the successors of its members has every natural number.
LEMMA NatSetInduction ==
  ASSUME NEW S, 0 \in S, \A j \in Nat : j \in S => j + 1 \in S
  PROVE  Nat \subseteq S
<1> SUFFICES ASSUME Nat \ S # {} PROVE FALSE
  OBVIOUS
<1>1. PICK x \in Nat \ S : \A y \in Nat \ S : x <= y
  <2>1. Nat \ S \subseteq Nat
    OBVIOUS
  <2> QED BY <2>1, Least
<1>2. x - 1 \in Nat /\ x - 1 < x
  BY <1>1
<1>3. x - 1 \in S
  BY <1>1, <1>2
<1>4. (x - 1) + 1 \in S
  BY <1>2, <1>3
<1> QED BY <1>1, <1>4

-----------------------------------------------------------------------------
(* Counting.                                                               *)

One(b) == IF b THEN 1 ELSE 0

\* What one member more or less does to the size of a finite set.
LEMMA Swap ==
  ASSUME NEW S, IsFiniteSet(S), NEW A, NEW B, A \subseteq S, B \subseteq S, NEW p \in S,
         \A z \in S : z # p => (z \in A <=> z \in B)
  PROVE  /\ Cardinality(A) \in Nat /\ Cardinality(B) \in Nat
         /\ Cardinality(B) + One(p \in A) = Cardinality(A) + One(p \in B)
<1> DEFINE C == A \ {p}
<1>1. IsFiniteSet(A) /\ IsFiniteSet(B) /\ IsFiniteSet(C)
  <2>1. A \in SUBSET S /\ B \in SUBSET S /\ C \in SUBSET S
    OBVIOUS
  <2> HIDE DEF C
  <2> QED BY <2>1, FS_Subset
<1>2. p \notin C /\ IsFiniteSet(C)
  BY <1>1
<1>3. Cardinality(C) \in Nat /\ Cardinality(C \cup {p}) = Cardinality(C) + 1
  <2> HIDE DEF C
  <2> QED BY <1>2, FS_CardinalityType, FS_AddElement
<1>4. A = IF p \in A THEN C \cup {p} ELSE C
  OBVIOUS
<1>5. B = IF p \in B THEN C \cup {p} ELSE C
  <2>1. C = B \ {p}
    OBVIOUS
  <2> QED BY <2>1
<1> HIDE DEF C
<1>6. Cardinality(A) = Cardinality(C) + One(p \in A)
  <2>1. CASE p \in A
    BY <1>3, <1>4, <2>1 DEF One
  <2>2. CASE p \notin A
    BY <1>3, <1>4, <2>2 DEF One
  <2> QED BY <2>1, <2>2
<1>7. Cardinality(B) = Cardinality(C) + One(p \in B)
  <2>1. CASE p \in B
    BY <1>3, <1>5, <2>1 DEF One
  <2>2. CASE p \notin B
    BY <1>3, <1>5, <2>2 DEF One
  <2> QED BY <2>1, <2>2
<1>8. One(p \in A) \in Nat /\ One(p \in B) \in Nat
  BY DEF One
<1> QED BY <1>3, <1>6, <1>7, <1>8

\* The members of a list that are counted, with one more at its end.
LEMMA CountUpTo ==
  ASSUME NEW n \in Nat, NEW A, A \subseteq 1..n
  PROVE  /\ IsFiniteSet(A) /\ Cardinality(A) \in Nat
         /\ Cardinality(A \cup {n + 1}) = Cardinality(A) + 1
<1>1. IsFiniteSet(A)
  <2>1. A \in SUBSET (1..n) /\ IsFiniteSet(1..n)
    BY FS_Interval
  <2> QED BY <2>1, FS_Subset
<1>2. n + 1 \notin A
  OBVIOUS
<1> QED BY <1>1, <1>2, FS_CardinalityType, FS_AddElement

-----------------------------------------------------------------------------
(* The tables.                                                             *)

SetMac(t, m, c)  == [t EXCEPT !.mac[m] = c]
SetRoot(t, r, c) == [t EXCEPT !.root[r] = c]
SetEqtb(t, p, e) == [t EXCEPT !.eqtb[p] = e]

\* Another entry for a macro, a root, a symbol.
LEMMA MacSet1 ==
  ASSUME NEW t \in TabSet, NEW m \in Macros, NEW c \in MacSet
  PROVE  /\ SetMac(t, m, c) \in TabSet /\ SetMac(t, m, c).eqtb = t.eqtb
         /\ SetMac(t, m, c).root = t.root /\ SetMac(t, m, c).mac[m] = c
         /\ \A n \in Macros : n # m => SetMac(t, m, c).mac[n] = t.mac[n]
<1> DEFINE f == [t.mac EXCEPT ![m] = c]
<1>1. t.eqtb \in [Symbols -> EntrySet] /\ t.root \in [Roots -> RootSet] /\ t.mac \in [Macros -> MacSet]
  BY DEF TabSet
<1>2. f \in [Macros -> MacSet] /\ f[m] = c /\ \A n \in Macros : n # m => f[n] = t.mac[n]
  BY <1>1
<1>3. SetMac(t, m, c) = [t EXCEPT !.mac = f]
  BY DEF SetMac
<1> HIDE DEF f
<1> QED BY <1>1, <1>2, <1>3 DEF TabSet

LEMMA RootSet1 ==
  ASSUME NEW t \in TabSet, NEW r \in Roots, NEW c \in RootSet
  PROVE  /\ SetRoot(t, r, c) \in TabSet /\ SetRoot(t, r, c).eqtb = t.eqtb
         /\ SetRoot(t, r, c).mac = t.mac /\ SetRoot(t, r, c).root[r] = c
         /\ \A n \in Roots : n # r => SetRoot(t, r, c).root[n] = t.root[n]
<1> DEFINE f == [t.root EXCEPT ![r] = c]
<1>1. t.eqtb \in [Symbols -> EntrySet] /\ t.root \in [Roots -> RootSet] /\ t.mac \in [Macros -> MacSet]
  BY DEF TabSet
<1>2. f \in [Roots -> RootSet] /\ f[r] = c /\ \A n \in Roots : n # r => f[n] = t.root[n]
  BY <1>1
<1>3. SetRoot(t, r, c) = [t EXCEPT !.root = f]
  BY DEF SetRoot
<1> HIDE DEF f
<1> QED BY <1>1, <1>2, <1>3 DEF TabSet

LEMMA EqtbSet1 ==
  ASSUME NEW t \in TabSet, NEW p \in Symbols, NEW e \in EntrySet
  PROVE  /\ SetEqtb(t, p, e) \in TabSet /\ SetEqtb(t, p, e).root = t.root
         /\ SetEqtb(t, p, e).mac = t.mac /\ SetEqtb(t, p, e).eqtb[p] = e
         /\ \A n \in Symbols : n # p => SetEqtb(t, p, e).eqtb[n] = t.eqtb[n]
<1> DEFINE f == [t.eqtb EXCEPT ![p] = e]
<1>1. t.eqtb \in [Symbols -> EntrySet] /\ t.root \in [Roots -> RootSet] /\ t.mac \in [Macros -> MacSet]
  BY DEF TabSet
<1>2. f \in [Symbols -> EntrySet] /\ f[p] = e /\ \A n \in Symbols : n # p => f[n] = t.eqtb[n]
  BY <1>1
<1>3. SetEqtb(t, p, e) = [t EXCEPT !.eqtb = f]
  BY DEF SetEqtb
<1> HIDE DEF f
<1> QED BY <1>1, <1>2, <1>3 DEF TabSet

\* The entries of a table.
LEMMA TabIs ==
  ASSUME NEW t \in TabSet
  PROVE  /\ \A q \in Symbols : t.eqtb[q] \in EntrySet
         /\ \A r \in Roots : t.root[r] \in RootSet
         /\ \A m \in Macros : t.mac[m] \in MacSet /\ t.mac[m].ref_count \in Int
  BY DEF TabSet, MacSet

\* An entry is one of a tag, a macro or a quantity.
LEMMA EntryIs ==
  ASSUME NEW e \in EntrySet
  PROVE  /\ e.eq_type \in {"tag", "macro", "internal"}
         /\ e.eq_type = "tag" => e.equiv \in Roots \cup {null}
         /\ e.eq_type = "macro" => e.equiv \in Macros
         /\ e.eq_type = "internal" => e.equiv \in Internals
  BY DEF EntrySet

\* Symbol p means e instead.
LEMMA SymbolCount ==
  ASSUME NEW t \in TabSet, NEW p \in Symbols, NEW e \in EntrySet
  PROVE  /\ \A m \in Macros : /\ Cardinality(NowM(t, m)) \in Nat
               /\ Cardinality(NowM(SetEqtb(t, p, e), m)) \in Nat
               /\ Cardinality(NowM(SetEqtb(t, p, e), m)) + One(Holds(t.eqtb[p], m))
                   = Cardinality(NowM(t, m)) + One(Holds(e, m))
         /\ \A r \in Roots : /\ Cardinality(NowR(t, r)) \in Nat
               /\ Cardinality(NowR(SetEqtb(t, p, e), r)) \in Nat
               /\ Cardinality(NowR(SetEqtb(t, p, e), r)) + One(Owns(t.eqtb[p], r))
                   = Cardinality(NowR(t, r)) + One(Owns(e, r))
<1> DEFINE u == SetEqtb(t, p, e)
<1>1. u.eqtb[p] = e /\ \A n \in Symbols : n # p => u.eqtb[n] = t.eqtb[n]
  BY EqtbSet1
<1> HIDE DEF u
<1>2. IsFiniteSet(Symbols)
  BY SaveStackAssumption DEF SaveStackAssumption
<1>3. ASSUME NEW m \in Macros
      PROVE  /\ Cardinality(NowM(t, m)) \in Nat /\ Cardinality(NowM(u, m)) \in Nat
             /\ Cardinality(NowM(u, m)) + One(Holds(t.eqtb[p], m))
                 = Cardinality(NowM(t, m)) + One(Holds(e, m))
  <2> DEFINE A == NowM(t, m)  B == NowM(u, m)
  <2>1. A \subseteq Symbols /\ B \subseteq Symbols /\ (p \in A <=> Holds(t.eqtb[p], m))
        /\ (p \in B <=> Holds(e, m)) /\ \A z \in Symbols : z # p => (z \in A <=> z \in B)
    BY <1>1 DEF NowM
  <2> HIDE DEF A, B
  <2>2. /\ Cardinality(A) \in Nat /\ Cardinality(B) \in Nat
        /\ Cardinality(B) + One(p \in A) = Cardinality(A) + One(p \in B)
    BY <1>2, <2>1, Swap
  <2>3. One(p \in A) = One(Holds(t.eqtb[p], m)) /\ One(p \in B) = One(Holds(e, m))
    BY <2>1 DEF One
  <2> QED BY <2>2, <2>3 DEF A, B
<1>4. ASSUME NEW r \in Roots
      PROVE  /\ Cardinality(NowR(t, r)) \in Nat /\ Cardinality(NowR(u, r)) \in Nat
             /\ Cardinality(NowR(u, r)) + One(Owns(t.eqtb[p], r))
                 = Cardinality(NowR(t, r)) + One(Owns(e, r))
  <2> DEFINE A == NowR(t, r)  B == NowR(u, r)
  <2>1. A \subseteq Symbols /\ B \subseteq Symbols /\ (p \in A <=> Owns(t.eqtb[p], r))
        /\ (p \in B <=> Owns(e, r)) /\ \A z \in Symbols : z # p => (z \in A <=> z \in B)
    BY <1>1 DEF NowR
  <2> HIDE DEF A, B
  <2>2. /\ Cardinality(A) \in Nat /\ Cardinality(B) \in Nat
        /\ Cardinality(B) + One(p \in A) = Cardinality(A) + One(p \in B)
    BY <1>2, <2>1, Swap
  <2>3. One(p \in A) = One(Owns(t.eqtb[p], r)) /\ One(p \in B) = One(Owns(e, r))
    BY <2>1 DEF One
  <2> QED BY <2>2, <2>3 DEF A, B
<1> QED BY <1>3, <1>4 DEF u

\* Root r gets another value.
LEMMA RootCount ==
  ASSUME NEW t \in TabSet, NEW r \in Roots, NEW c \in RootSet
  PROVE  \A m \in Macros :
            /\ Cardinality(DefM(t, m)) \in Nat /\ Cardinality(DefM(SetRoot(t, r, c), m)) \in Nat
            /\ Cardinality(DefM(SetRoot(t, r, c), m)) + One(t.root[r].value = m)
                = Cardinality(DefM(t, m)) + One(c.value = m)
<1> DEFINE u == SetRoot(t, r, c)
<1>1. u.root[r] = c /\ \A n \in Roots : n # r => u.root[n] = t.root[n]
  BY RootSet1
<1> HIDE DEF u
<1>2. IsFiniteSet(Roots)
  BY SaveStackAssumption DEF SaveStackAssumption
<1> TAKE m \in Macros
<1> DEFINE A == DefM(t, m)  B == DefM(u, m)
<1>3. A \subseteq Roots /\ B \subseteq Roots /\ (r \in A <=> t.root[r].value = m)
      /\ (r \in B <=> c.value = m) /\ \A z \in Roots : z # r => (z \in A <=> z \in B)
  BY <1>1 DEF DefM
<1> HIDE DEF A, B
<1>4. /\ Cardinality(A) \in Nat /\ Cardinality(B) \in Nat
      /\ Cardinality(B) + One(r \in A) = Cardinality(A) + One(r \in B)
  BY <1>2, <1>3, Swap
<1>5. One(r \in A) = One(t.root[r].value = m) /\ One(r \in B) = One(c.value = m)
  BY <1>3 DEF One
<1> QED BY <1>4, <1>5 DEF A, B, u

-----------------------------------------------------------------------------
(* What keeps the balance.                                                 *)

Shift(x, m, d) == [x EXCEPT ![m] = @ + d]

LEMMA OneIs == \A b : One(b) \in {0, 1} /\ (b = TRUE => One(b) = 1) /\ (b = FALSE => One(b) = 0)
  BY DEF One

\* The same symbols and roots have the same holders and owners.
LEMMA SameHolders ==
  ASSUME NEW t, NEW u
  PROVE  /\ u.eqtb = t.eqtb => \A z : NowM(u, z) = NowM(t, z) /\ NowR(u, z) = NowR(t, z)
         /\ u.root = t.root => \A z : DefM(u, z) = DefM(t, z)
  BY DEF NowM, NowR, DefM

\* The sizes are numbers.
LEMMA HolderSizes ==
  ASSUME NEW t \in TabSet
  PROVE  /\ \A m : Cardinality(NowM(t, m)) \in Nat /\ Cardinality(DefM(t, m)) \in Nat
         /\ \A r : Cardinality(NowR(t, r)) \in Nat
<1>1. IsFiniteSet(Symbols) /\ IsFiniteSet(Roots)
  BY SaveStackAssumption DEF SaveStackAssumption
<1>2. \A z : NowM(t, z) \in SUBSET Symbols /\ DefM(t, z) \in SUBSET Roots /\ NowR(t, z) \in SUBSET Symbols
  BY DEF NowM, DefM, NowR
<1> QED BY <1>1, <1>2, FS_Subset, FS_CardinalityType

\* Macro m gets another count.
LEMMA NewMac ==
  ASSUME NEW t \in TabSet, NEW m \in Macros, NEW c \in MacSet, NEW x \in [Macros -> Int],
         Balanced(t, x)
  PROVE  /\ Balanced(SetMac(t, m, c), Shift(x, m, c.ref_count - t.mac[m].ref_count))
         /\ \A y : Owned(t, y) => Owned(SetMac(t, m, c), y)
<1> DEFINE u == SetMac(t, m, c)  d == c.ref_count - t.mac[m].ref_count
<1>1. /\ u \in TabSet /\ u.eqtb = t.eqtb /\ u.root = t.root /\ u.mac[m] = c
      /\ \A n \in Macros : n # m => u.mac[n] = t.mac[n]
  BY MacSet1
<1> HIDE DEF u
<1>2. \A z : NowM(u, z) = NowM(t, z) /\ NowR(u, z) = NowR(t, z) /\ DefM(u, z) = DefM(t, z)
  BY <1>1, SameHolders
<1>3. c.ref_count \in Int /\ t.mac[m].ref_count \in Int /\ d \in Int
  BY TabIs DEF MacSet
<1>4. Balanced(u, Shift(x, m, d))
  <2> SUFFICES ASSUME NEW n \in Macros
               PROVE  u.mac[n].ref_count + 1 = Cardinality(NowM(u, n)) + Cardinality(DefM(u, n))
                                               + Shift(x, m, d)[n]
    BY DEF Balanced
  <2>1. /\ t.mac[n].ref_count + 1 = Cardinality(NowM(t, n)) + Cardinality(DefM(t, n)) + x[n]
        /\ Cardinality(NowM(t, n)) \in Nat /\ Cardinality(DefM(t, n)) \in Nat /\ x[n] \in Int
        /\ t.mac[n].ref_count \in Int
    BY HolderSizes, TabIs DEF Balanced
  <2>2. CASE n = m
    <3>1. Shift(x, m, d)[n] = x[n] + d /\ u.mac[n].ref_count = t.mac[n].ref_count + d
      BY <1>1, <1>3, <2>1, <2>2 DEF Shift
    <3> HIDE DEF d
    <3> QED BY <1>2, <1>3, <2>1, <3>1
  <2>3. CASE n # m
    <3>1. Shift(x, m, d)[n] = x[n] /\ u.mac[n] = t.mac[n]
      BY <1>1, <2>3 DEF Shift
    <3> QED BY <1>2, <2>1, <3>1
  <2> QED BY <2>2, <2>3
<1>5. ASSUME NEW y, Owned(t, y) PROVE Owned(u, y)
  BY <1>1, <1>2, <1>5 DEF Owned
<1> QED BY <1>4, <1>5 DEF u, d

\* Root r gets another value.
LEMMA NewRoot ==
  ASSUME NEW t \in TabSet, NEW r \in Roots, NEW c \in RootSet, NEW x \in [Macros -> Int],
         Balanced(t, x), NEW z, \A n \in Macros : z[n] = x[n] + One(t.root[r].value = n) - One(c.value = n)
  PROVE  Balanced(SetRoot(t, r, c), z)
<1> DEFINE u == SetRoot(t, r, c)
<1>1. u \in TabSet /\ u.eqtb = t.eqtb /\ u.mac = t.mac
  BY RootSet1
<1>2. \A m \in Macros :
            /\ Cardinality(DefM(t, m)) \in Nat /\ Cardinality(DefM(u, m)) \in Nat
            /\ Cardinality(DefM(u, m)) + One(t.root[r].value = m)
                = Cardinality(DefM(t, m)) + One(c.value = m)
  BY RootCount
<1> HIDE DEF u
<1> SUFFICES ASSUME NEW n \in Macros
             PROVE  u.mac[n].ref_count + 1 = Cardinality(NowM(u, n)) + Cardinality(DefM(u, n)) + z[n]
  BY DEF Balanced, u
<1>3. /\ t.mac[n].ref_count + 1 = Cardinality(NowM(t, n)) + Cardinality(DefM(t, n)) + x[n]
      /\ Cardinality(NowM(t, n)) \in Nat /\ x[n] \in Int /\ t.mac[n].ref_count \in Int
  BY HolderSizes, TabIs DEF Balanced
<1>4. NowM(u, n) = NowM(t, n)
  BY <1>1, SameHolders
<1> DEFINE a == One(t.root[r].value = n)  b == One(c.value = n)
<1>5. a \in {0, 1} /\ b \in {0, 1} /\ z[n] = x[n] + a - b
      /\ Cardinality(DefM(u, n)) + a = Cardinality(DefM(t, n)) + b
  BY <1>2, OneIs
<1> HIDE DEF a, b
<1> QED BY <1>1, <1>2, <1>3, <1>4, <1>5

\* Symbol p gets another meaning.
LEMMA NewEqtb ==
  ASSUME NEW t \in TabSet, NEW p \in Symbols, NEW e \in EntrySet, NEW x \in [Macros -> Int],
         Balanced(t, x), NEW z, \A n \in Macros : z[n] = x[n] + One(Holds(t.eqtb[p], n)) - One(Holds(e, n))
  PROVE  Balanced(SetEqtb(t, p, e), z)
<1> DEFINE u == SetEqtb(t, p, e)
<1>1. u \in TabSet /\ u.root = t.root /\ u.mac = t.mac
  BY EqtbSet1
<1>2. \A m \in Macros :
            /\ Cardinality(NowM(t, m)) \in Nat /\ Cardinality(NowM(u, m)) \in Nat
            /\ Cardinality(NowM(u, m)) + One(Holds(t.eqtb[p], m))
                = Cardinality(NowM(t, m)) + One(Holds(e, m))
  BY SymbolCount
<1> HIDE DEF u
<1> SUFFICES ASSUME NEW n \in Macros
             PROVE  u.mac[n].ref_count + 1 = Cardinality(NowM(u, n)) + Cardinality(DefM(u, n)) + z[n]
  BY DEF Balanced, u
<1>3. /\ t.mac[n].ref_count + 1 = Cardinality(NowM(t, n)) + Cardinality(DefM(t, n)) + x[n]
      /\ Cardinality(DefM(t, n)) \in Nat /\ x[n] \in Int /\ t.mac[n].ref_count \in Int
  BY HolderSizes, TabIs DEF Balanced
<1>4. DefM(u, n) = DefM(t, n)
  BY <1>1, SameHolders
<1> DEFINE a == One(Holds(t.eqtb[p], n))  b == One(Holds(e, n))
<1>5. a \in {0, 1} /\ b \in {0, 1} /\ z[n] = x[n] + a - b
      /\ Cardinality(NowM(u, n)) + a = Cardinality(NowM(t, n)) + b
  BY <1>2, OneIs
<1> HIDE DEF a, b
<1> QED BY <1>1, <1>2, <1>3, <1>4, <1>5

-----------------------------------------------------------------------------
(* The operations on the tables.                                           *)

\* A reference more.
LEMMA AddRef ==
  ASSUME NEW t, NEW x, NEW y, Fit(t, x, y), NEW m \in Macros
  PROVE  /\ Fit(add_mac_ref(t, m), Shift(x, m, 1), y)
         /\ add_mac_ref(t, m).eqtb = t.eqtb /\ add_mac_ref(t, m).root = t.root
<1>1. t \in TabSet /\ x \in [Macros -> Int] /\ y \in [Roots -> Int] /\ Balanced(t, x) /\ Owned(t, y)
  BY DEF Fit
<1> DEFINE old == t.mac[m]
<1>2. old \in MacSet /\ old.ref_count \in Int
  BY <1>1, TabIs
<1> DEFINE c == [old EXCEPT !.ref_count = @ + 1]
<1>3. c \in MacSet /\ c.ref_count - old.ref_count = 1
  <2> HIDE DEF old
  <2> QED BY <1>2 DEF MacSet
<1>4. add_mac_ref(t, m) = SetMac(t, m, c)
  BY DEF add_mac_ref, SetMac
<1> HIDE DEF c
<1>5. Balanced(SetMac(t, m, c), Shift(x, m, 1)) /\ Owned(SetMac(t, m, c), y)
  BY <1>1, <1>3, NewMac
<1>6. /\ SetMac(t, m, c) \in TabSet /\ SetMac(t, m, c).eqtb = t.eqtb
      /\ SetMac(t, m, c).root = t.root
  BY <1>1, <1>3, MacSet1
<1>7. Shift(x, m, 1) \in [Macros -> Int]
  BY <1>1 DEF Shift
<1> QED BY <1>1, <1>4, <1>5, <1>6, <1>7 DEF Fit

\* A reference less, the last one included.
LEMMA DelRef ==
  ASSUME NEW t, NEW x, NEW y, Fit(t, x, y), NEW m \in Macros
  PROVE  /\ Fit(delete_mac_ref(t, m), Shift(x, m, -1), y)
         /\ delete_mac_ref(t, m).eqtb = t.eqtb /\ delete_mac_ref(t, m).root = t.root
<1>1. t \in TabSet /\ x \in [Macros -> Int] /\ y \in [Roots -> Int] /\ Balanced(t, x) /\ Owned(t, y)
  BY DEF Fit
<1> DEFINE old == t.mac[m]
<1>2. old \in MacSet /\ old.ref_count \in Int
  BY <1>1, TabIs
<1> DEFINE less == [old EXCEPT !.ref_count = @ - 1]
           c == IF old.ref_count = 0 THEN FreeMac ELSE less
<1>3. c \in MacSet /\ c.ref_count - old.ref_count = -1
  <2>1. less \in MacSet /\ less.ref_count - old.ref_count = -1
    <3> HIDE DEF old
    <3> QED BY <1>2 DEF MacSet
  <2>2. FreeMac \in MacSet /\ FreeMac.ref_count = -1
    BY DEF MacSet, FreeMac
  <2> HIDE DEF less, old
  <2> QED BY <1>2, <2>1, <2>2
<1>4. delete_mac_ref(t, m) = SetMac(t, m, c)
  <2>1. CASE old.ref_count = 0
    BY <2>1 DEF delete_mac_ref, SetMac
  <2>2. CASE old.ref_count # 0
    BY <2>2 DEF delete_mac_ref, SetMac
  <2> QED BY <2>1, <2>2
<1> HIDE DEF c
<1>5. Balanced(SetMac(t, m, c), Shift(x, m, -1)) /\ Owned(SetMac(t, m, c), y)
  BY <1>1, <1>3, NewMac
<1>6. /\ SetMac(t, m, c) \in TabSet /\ SetMac(t, m, c).eqtb = t.eqtb
      /\ SetMac(t, m, c).root = t.root
  BY <1>1, <1>3, MacSet1
<1>7. Shift(x, m, -1) \in [Macros -> Int]
  BY <1>1 DEF Shift
<1> QED BY <1>1, <1>4, <1>5, <1>6, <1>7 DEF Fit

\* A root that keeps its type keeps its owner.
LEMMA SameTypes ==
  ASSUME NEW t, NEW u, NEW y, Owned(t, y), u.eqtb = t.eqtb,
         \A r \in Roots : u.root[r].name_type = t.root[r].name_type
  PROVE  Owned(u, y)
<1>1. \A r : NowR(u, r) = NowR(t, r)
  BY SameHolders
<1> QED BY <1>1 DEF Owned

\* The value of a root is recycled.
LEMMA Recycle ==
  ASSUME NEW t, NEW x, NEW y, Fit(t, x, y), NEW r \in Roots
  PROVE  /\ Fit(recycle_value(t, r), x, y) /\ recycle_value(t, r).eqtb = t.eqtb
         /\ recycle_value(t, r).root[r].value = "plain"
         /\ \A n \in Roots : /\ recycle_value(t, r).root[n].name_type = t.root[n].name_type
                             /\ n # r => recycle_value(t, r).root[n] = t.root[n]
<1>1. t \in TabSet /\ x \in [Macros -> Int] /\ y \in [Roots -> Int] /\ Balanced(t, x) /\ Owned(t, y)
  BY DEF Fit
<1> DEFINE old == t.root[r]  m == old.value
           c == [old EXCEPT !.value = "plain"]
<1>2. old \in RootSet
  BY <1>1, TabIs
<1>3. c \in RootSet /\ c.value = "plain" /\ c.name_type = old.name_type
      /\ m \in {null, "plain"} \cup Macros
  <2> HIDE DEF old
  <2> QED BY <1>2 DEF RootSet
<1> DEFINE u == SetRoot(t, r, c)
<1>4. [t EXCEPT !.root[r].value = "plain"] = u
  BY DEF SetRoot
<1>5. recycle_value(t, r) = IF m \in Macros THEN delete_mac_ref(u, m) ELSE u
  BY <1>4 DEF recycle_value
<1> HIDE DEF c
<1>6. /\ u \in TabSet /\ u.eqtb = t.eqtb /\ u.root[r] = c
      /\ \A n \in Roots : n # r => u.root[n] = t.root[n]
  BY <1>1, <1>3, RootSet1
<1> DEFINE z == [n \in Macros |-> x[n] + One(m = n) - One(c.value = n)]
<1>7. z \in [Macros -> Int] /\ \A n \in Macros : z[n] = x[n] + One(m = n) /\ One(m = n) \in {0, 1}
      /\ z[n] = x[n] + One(t.root[r].value = n) - One(c.value = n)
  <2>1. \A n \in Macros : One(c.value = n) = 0 /\ One(m = n) \in {0, 1} /\ x[n] \in Int
    BY <1>1, <1>3, SaveStackAssumption DEF SaveStackAssumption, One
  <2> HIDE DEF m
  <2> QED BY <2>1 DEF m
<1>8. Balanced(u, z)
  <2> HIDE DEF z
  <2> QED BY <1>1, <1>3, <1>7, NewRoot
<1>9. Owned(u, y)
  <2>1. \A n \in Roots : u.root[n].name_type = t.root[n].name_type
    BY <1>3, <1>6
  <2> HIDE DEF u
  <2> QED BY <1>1, <1>6, <2>1, SameTypes
<1>10. Fit(u, z, y)
  BY <1>1, <1>6, <1>7, <1>8, <1>9 DEF Fit
<1> HIDE DEF u, z
<1>11. CASE m \in Macros
  <2> DEFINE v == delete_mac_ref(u, m)
  <2>1. Fit(v, Shift(z, m, -1), y) /\ v.eqtb = u.eqtb /\ v.root = u.root
    BY <1>10, <1>11, DelRef
  <2>2. Shift(z, m, -1) = x
    <3> SUFFICES ASSUME NEW n \in Macros PROVE Shift(z, m, -1)[n] = x[n]
      BY <1>1, <1>7 DEF Shift
    <3>1. CASE n = m
      <4>1. Shift(z, m, -1)[n] = z[n] + (-1) /\ One(m = n) = 1
        BY <1>7, <3>1 DEF Shift, One
      <4> QED BY <1>1, <1>7, <4>1
    <3>2. CASE n # m
      <4>1. Shift(z, m, -1)[n] = z[n] /\ One(m = n) = 0
        BY <1>7, <3>2 DEF Shift, One
      <4> QED BY <1>1, <1>7, <4>1
    <3> QED BY <3>1, <3>2
  <2>3. recycle_value(t, r) = v
    BY <1>5, <1>11
  <2> HIDE DEF v
  <2> QED BY <1>3, <1>6, <2>1, <2>2, <2>3
<1>12. CASE m \notin Macros
  <2>1. z = x
    <3>1. \A n \in Macros : One(m = n) = 0
      BY <1>12 DEF One
    <3> HIDE DEF m
    <3> QED BY <1>1, <1>7, <3>1
  <2>2. recycle_value(t, r) = u
    BY <1>5, <1>12
  <2> QED BY <1>3, <1>6, <1>10, <2>1, <2>2
<1> QED BY <1>11, <1>12

\* The entry that clearing leaves behind holds and owns nothing.
LEMMA Frozen ==
  /\ frozen_undefined \in EntrySet
  /\ \A m : One(Holds(frozen_undefined, m)) = 0
  /\ \A r \in Roots : One(Owns(frozen_undefined, r)) = 0
<1>1. frozen_undefined.eq_type = "tag" /\ frozen_undefined.equiv = null
      /\ frozen_undefined \in EntrySet
  BY DEF frozen_undefined, Entry, EntrySet
<1>2. \A r \in Roots : r # null
  BY SaveStackAssumption DEF SaveStackAssumption, null
<1> QED BY <1>1, <1>2, OneIs DEF Holds, Owns

\* Symbol p, which owns or saves its root, loses it: the types of the roots
\* change with the owners.
LEMMA OwnerLost ==
  ASSUME NEW t, NEW x, NEW y, Fit(t, x, y), NEW p \in Symbols, NEW u, NEW w,
         u.eqtb = SetEqtb(t, p, frozen_undefined).eqtb,
         \A r \in Roots :
            /\ ~Owns(t.eqtb[p], r) => u.root[r].name_type = t.root[r].name_type /\ w[r] = y[r]
            /\ Owns(t.eqtb[p], r) => \/ u.root[r].name_type = "saved_root" /\ w[r] = y[r] + 1
                                     \/ u.root[r].name_type = "free" /\ w[r] = y[r]
  PROVE  Owned(u, w)
<1> DEFINE v == SetEqtb(t, p, frozen_undefined)
<1>1. t \in TabSet /\ y \in [Roots -> Int] /\ Owned(t, y) /\ frozen_undefined \in EntrySet
  BY Frozen DEF Fit
<1> SUFFICES ASSUME NEW r \in Roots
             PROVE  LET now == Cardinality(NowR(u, r)) IN
                    \/ u.root[r].name_type = "free"       /\ now = 0 /\ w[r] = 0
                    \/ u.root[r].name_type = "root"       /\ now = 1 /\ w[r] = 0
                    \/ u.root[r].name_type = "saved_root" /\ now = 0 /\ w[r] = 1
  BY DEF Owned
<1> DEFINE before == Cardinality(NowR(t, r))  now == Cardinality(NowR(u, r))
           o == One(Owns(t.eqtb[p], r))
<1>2. before \in Nat /\ now \in Nat /\ now + o = before
  <2>1. NowR(u, r) = NowR(v, r)
    BY DEF NowR
  <2>2. /\ Cardinality(NowR(t, r)) \in Nat
        /\ Cardinality(NowR(v, r)) \in Nat
        /\ Cardinality(NowR(v, r)) + One(Owns(t.eqtb[p], r))
                   = Cardinality(NowR(t, r)) + One(Owns(frozen_undefined, r))
    BY <1>1, SymbolCount
  <2>3. One(Owns(frozen_undefined, r)) = 0
    BY Frozen
  <2> HIDE DEF v
  <2> QED BY <2>1, <2>2, <2>3
<1>3. \/ t.root[r].name_type = "free"       /\ before = 0 /\ y[r] = 0
      \/ t.root[r].name_type = "root"       /\ before = 1 /\ y[r] = 0
      \/ t.root[r].name_type = "saved_root" /\ before = 0 /\ y[r] = 1
  BY <1>1 DEF Owned
<1>4. CASE Owns(t.eqtb[p], r)
  <2>1. o = 1
    BY <1>4 DEF One
  <2> HIDE DEF o, before, now
  <2>2. now = 0 /\ y[r] = 0
    BY <1>2, <1>3, <2>1
  <2> QED BY <1>4, <2>2 DEF now
<1>5. CASE ~Owns(t.eqtb[p], r)
  <2>1. o = 0
    BY <1>5 DEF One
  <2> HIDE DEF o, before, now
  <2>2. now = before
    BY <1>2, <2>1
  <2> QED BY <1>3, <1>5, <2>2 DEF now
<1> QED BY <1>4, <1>5

\* A symbol is cleared for good.
LEMMA Clear ==
  ASSUME NEW t, NEW x, NEW y, Fit(t, x, y), NEW p \in Symbols
  PROVE  LET u == clear_symbol(t, p, FALSE) IN
         /\ Fit(u, x, y) /\ u.eqtb[p] = frozen_undefined
         /\ \A n \in Symbols : n # p => u.eqtb[n] = t.eqtb[n]
         /\ \A r \in Roots : u.root[r] \in {t.root[r], FreeRoot}
<1>1. t \in TabSet /\ x \in [Macros -> Int] /\ y \in [Roots -> Int] /\ Balanced(t, x) /\ Owned(t, y)
  BY DEF Fit
<1> DEFINE e == t.eqtb[p]  q == e.equiv
<1>2. e \in EntrySet
  BY <1>1, TabIs
<1>3. /\ e.eq_type \in {"tag", "macro", "internal"}
      /\ e.eq_type = "tag" => q \in Roots \cup {null}
      /\ e.eq_type = "macro" => q \in Macros
  <2> HIDE DEF e
  <2> QED BY <1>2, EntryIs
<1> DEFINE v == IF e.eq_type = "macro" THEN delete_mac_ref(t, q)
                ELSE IF e.eq_type = "tag" /\ q # null THEN flush_root(t, q) ELSE t
           u == clear_symbol(t, p, FALSE)
<1>4. u = SetEqtb(v, p, frozen_undefined)
  BY DEF clear_symbol, SetEqtb
<1> HIDE DEF u
<1>5. /\ v \in TabSet /\ v.eqtb = t.eqtb
      /\ \A r \in Roots : /\ v.root[r].name_type = IF Owns(e, r) THEN "free" ELSE t.root[r].name_type
                          /\ v.root[r] \in {t.root[r], FreeRoot}
      /\ \E z \in [Macros -> Int] :
            /\ Balanced(v, z) /\ \A n \in Macros : x[n] = z[n] + One(Holds(e, n)) - One(Holds(frozen_undefined, n))
  <2>1. CASE e.eq_type = "macro"
    <3> DEFINE z == Shift(x, q, -1)
    <3>1. v = delete_mac_ref(t, q) /\ q \in Macros
      BY <1>3, <2>1
    <3>2. Fit(v, z, y) /\ v.eqtb = t.eqtb /\ v.root = t.root
      <4> HIDE DEF v
      <4> QED BY <3>1, DelRef
    <3>3. \A r \in Roots : ~Owns(e, r)
      BY <2>1 DEF Owns
    <3>4. \A n \in Macros : x[n] = z[n] + One(Holds(e, n)) - One(Holds(frozen_undefined, n))
      <4> SUFFICES ASSUME NEW n \in Macros PROVE x[n] = z[n] + One(Holds(e, n)) - 0
        BY Frozen
      <4>1. CASE n = q
        <5>1. z[n] = x[n] + (-1) /\ One(Holds(e, n)) = 1
          BY <1>1, <2>1, <4>1 DEF Shift, Holds, One
        <5> QED BY <1>1, <5>1
      <4>2. CASE n # q
        <5>1. z[n] = x[n] /\ One(Holds(e, n)) = 0
          BY <1>1, <4>2 DEF Shift, Holds, One
        <5> QED BY <1>1, <5>1
      <4> QED BY <4>1, <4>2
    <3> HIDE DEF v, e, q, z
    <3>5. v \in TabSet /\ z \in [Macros -> Int] /\ Balanced(v, z)
      BY <3>2 DEF Fit
    <3> QED BY <3>2, <3>3, <3>4, <3>5
  <2>2. CASE e.eq_type = "tag" /\ q # null
    <3> DEFINE s == recycle_value(t, q)
    <3>1. v = SetRoot(s, q, FreeRoot) /\ q \in Roots
      BY <1>3, <2>2 DEF flush_root, SetRoot
    <3>2. /\ Fit(s, x, y) /\ s.eqtb = t.eqtb /\ s.root[q].value = "plain"
          /\ \A n \in Roots : /\ s.root[n].name_type = t.root[n].name_type
                              /\ n # q => s.root[n] = t.root[n]
      BY <3>1, Recycle
    <3>3. s \in TabSet /\ Balanced(s, x)
      BY <3>2 DEF Fit
    <3>4. FreeRoot \in RootSet /\ FreeRoot.name_type = "free" /\ FreeRoot.value = null
      BY DEF FreeRoot, RootSet
    <3> HIDE DEF s, v
    <3>5. \A n \in Macros : /\ One(s.root[q].value = n) = 0 /\ One(FreeRoot.value = n) = 0
                            /\ One(Holds(e, n)) = 0 /\ One(Holds(frozen_undefined, n)) = 0
      <4>1. \A n \in Macros : n # "plain" /\ n # null
        BY SaveStackAssumption DEF SaveStackAssumption, null
      <4>2. \A n \in Macros : ~Holds(e, n)
        BY <2>2 DEF Holds
      <4> QED BY <3>2, <3>4, <4>1, <4>2, Frozen DEF One
    <3>6. \A n \in Macros : x[n] = x[n] + One(s.root[q].value = n) - One(FreeRoot.value = n)
      BY <1>1, <3>5
    <3>7. Balanced(v, x)
      BY <1>1, <3>1, <3>3, <3>4, <3>6, NewRoot
    <3>8. /\ v \in TabSet /\ v.eqtb = s.eqtb /\ v.root[q] = FreeRoot
          /\ \A n \in Roots : n # q => v.root[n] = s.root[n]
      BY <3>1, <3>3, <3>4, RootSet1
    <3>9. \A n \in Macros : x[n] = x[n] + One(Holds(e, n)) - One(Holds(frozen_undefined, n))
      BY <1>1, <3>5
    <3>10. \A r \in Roots : Owns(e, r) <=> r = q
      BY <2>2 DEF Owns
    <3>11. \A r \in Roots : /\ v.root[r].name_type = IF Owns(e, r) THEN "free" ELSE t.root[r].name_type
                            /\ v.root[r] \in {t.root[r], FreeRoot}
      BY <3>2, <3>4, <3>8, <3>10
    <3> QED BY <1>1, <3>2, <3>7, <3>8, <3>9, <3>11
  <2>3. CASE e.eq_type # "macro" /\ ~(e.eq_type = "tag" /\ q # null)
    <3>1. v = t
      BY <2>3
    <3>2. \A n \in Macros : ~Holds(e, n)
      BY <2>3 DEF Holds
    <3>3. \A r \in Roots : ~Owns(e, r)
      <4>1. \A r \in Roots : r # null
        BY SaveStackAssumption DEF SaveStackAssumption, null
      <4> QED BY <2>3, <4>1 DEF Owns
    <3>4. \A n \in Macros : x[n] = x[n] + One(Holds(e, n)) - One(Holds(frozen_undefined, n))
      <4>1. \A n \in Macros : One(Holds(e, n)) = 0 /\ One(Holds(frozen_undefined, n)) = 0
        BY <3>2, Frozen DEF One
      <4> QED BY <1>1, <4>1
    <3> HIDE DEF v, e
    <3> QED BY <1>1, <3>1, <3>3, <3>4
  <2> HIDE DEF v, e, q
  <2> QED BY <2>1, <2>2, <2>3
<1> HIDE DEF v
<1>6. PICK z \in [Macros -> Int] :
        Balanced(v, z) /\ \A n \in Macros : x[n] = z[n] + One(Holds(v.eqtb[p], n)) - One(Holds(frozen_undefined, n))
  BY <1>5
<1>7. Balanced(u, x)
  BY <1>4, <1>5, <1>6, Frozen, NewEqtb
<1>8. /\ u \in TabSet /\ u.root = v.root /\ u.eqtb[p] = frozen_undefined
      /\ \A n \in Symbols : n # p => u.eqtb[n] = t.eqtb[n]
  BY <1>4, <1>5, Frozen, EqtbSet1
<1>9. u.eqtb = SetEqtb(t, p, frozen_undefined).eqtb
  <2>1. u.eqtb \in [Symbols -> EntrySet] /\ SetEqtb(t, p, frozen_undefined).eqtb \in [Symbols -> EntrySet]
    BY <1>1, <1>8, Frozen, EqtbSet1 DEF TabSet
  <2>2. \A n \in Symbols : u.eqtb[n] = SetEqtb(t, p, frozen_undefined).eqtb[n]
    BY <1>1, <1>8, Frozen, EqtbSet1
  <2> QED BY <2>1, <2>2
<1>10. Owned(u, y)
  <2>1. \A r \in Roots :
            /\ ~Owns(t.eqtb[p], r) => u.root[r].name_type = t.root[r].name_type /\ y[r] = y[r]
            /\ Owns(t.eqtb[p], r) => \/ u.root[r].name_type = "saved_root" /\ y[r] = y[r] + 1
                                     \/ u.root[r].name_type = "free" /\ y[r] = y[r]
    BY <1>5, <1>8
  <2> HIDE DEF u
  <2> QED BY <1>9, <2>1, OwnerLost
<1> HIDE DEF u
<1>11. \A r \in Roots : u.root[r] \in {t.root[r], FreeRoot}
  BY <1>5, <1>8
<1> QED BY <1>1, <1>7, <1>8, <1>10, <1>11 DEF Fit, u

\* A symbol is cleared after its meaning has been saved.
LEMMA ClearSaved ==
  ASSUME NEW t, NEW x, NEW y, Fit(t, x, y), NEW p \in Symbols,
         NEW z \in [Macros -> Int], \A n \in Macros : z[n] = x[n] + One(Holds(t.eqtb[p], n)),
         NEW w \in [Roots -> Int], \A r \in Roots : w[r] = y[r] + One(Owns(t.eqtb[p], r))
  PROVE  Fit(clear_symbol(t, p, TRUE), z, w)
<1>1. t \in TabSet /\ x \in [Macros -> Int] /\ y \in [Roots -> Int] /\ Balanced(t, x) /\ Owned(t, y)
  BY DEF Fit
<1> DEFINE e == t.eqtb[p]  q == e.equiv  old == t.root[q]
           c == [old EXCEPT !.name_type = "saved_root"]
           v == IF e.eq_type = "tag" /\ q # null THEN SetRoot(t, q, c) ELSE t
           u == clear_symbol(t, p, TRUE)
<1>2. e \in EntrySet
  BY <1>1, TabIs
<1>3. e.eq_type = "tag" => q \in Roots \cup {null}
  <2> HIDE DEF e
  <2> QED BY <1>2, EntryIs
<1>4. u = SetEqtb(v, p, frozen_undefined)
  BY DEF clear_symbol, SetEqtb, SetRoot
<1> HIDE DEF u
<1>5. /\ v \in TabSet /\ v.eqtb = t.eqtb /\ Balanced(v, x)
      /\ \A r \in Roots : v.root[r].name_type = IF Owns(e, r) THEN "saved_root" ELSE t.root[r].name_type
  <2>1. CASE e.eq_type = "tag" /\ q # null
    <3>1. v = SetRoot(t, q, c) /\ q \in Roots
      BY <1>3, <2>1
    <3>2. old \in RootSet
      BY <1>1, <3>1, TabIs
    <3>3. c \in RootSet /\ c.name_type = "saved_root" /\ c.value = old.value
      <4> HIDE DEF old
      <4> QED BY <3>2 DEF RootSet
    <3> HIDE DEF v, c
    <3>4. /\ v \in TabSet /\ v.eqtb = t.eqtb /\ v.root[q] = c
          /\ \A n \in Roots : n # q => v.root[n] = t.root[n]
      BY <1>1, <3>1, <3>3, RootSet1
    <3>5. \A n \in Macros : x[n] = x[n] + One(t.root[q].value = n) - One(c.value = n)
      <4>1. \A n \in Macros : One(t.root[q].value = n) = One(c.value = n) /\ One(c.value = n) \in {0, 1}
        BY <3>3 DEF One
      <4> QED BY <1>1, <4>1
    <3>6. Balanced(v, x)
      BY <1>1, <3>1, <3>3, <3>5, NewRoot
    <3>7. \A r \in Roots : Owns(e, r) <=> r = q
      BY <2>1 DEF Owns
    <3> QED BY <3>3, <3>4, <3>6, <3>7
  <2>2. CASE ~(e.eq_type = "tag" /\ q # null)
    <3>1. v = t
      BY <2>2
    <3>2. \A r \in Roots : ~Owns(e, r)
      <4>1. \A r \in Roots : r # null
        BY SaveStackAssumption DEF SaveStackAssumption, null
      <4> QED BY <2>2, <4>1 DEF Owns
    <3> HIDE DEF v, e
    <3> QED BY <1>1, <3>1, <3>2
  <2> QED BY <2>1, <2>2
<1> HIDE DEF v
<1>6. Balanced(u, z)
  <2>1. \A n \in Macros : z[n] = x[n] + One(Holds(v.eqtb[p], n)) - One(Holds(frozen_undefined, n))
    <3>1. \A n \in Macros : One(Holds(frozen_undefined, n)) = 0 /\ One(Holds(v.eqtb[p], n)) \in {0, 1}
                            /\ z[n] = x[n] + One(Holds(v.eqtb[p], n))
      BY <1>5, Frozen, OneIs
    <3> QED BY <1>1, <3>1
  <2> QED BY <1>1, <1>4, <1>5, <2>1, Frozen, NewEqtb
<1>7. /\ u \in TabSet /\ u.root = v.root /\ u.eqtb[p] = frozen_undefined
      /\ \A n \in Symbols : n # p => u.eqtb[n] = t.eqtb[n]
  BY <1>4, <1>5, Frozen, EqtbSet1
<1>8. u.eqtb = SetEqtb(t, p, frozen_undefined).eqtb
  <2>1. u.eqtb \in [Symbols -> EntrySet] /\ SetEqtb(t, p, frozen_undefined).eqtb \in [Symbols -> EntrySet]
    BY <1>1, <1>7, Frozen, EqtbSet1 DEF TabSet
  <2>2. \A n \in Symbols : u.eqtb[n] = SetEqtb(t, p, frozen_undefined).eqtb[n]
    BY <1>1, <1>7, Frozen, EqtbSet1
  <2> QED BY <2>1, <2>2
<1>9. Owned(u, w)
  <2>1. \A r \in Roots :
            /\ ~Owns(t.eqtb[p], r) => u.root[r].name_type = t.root[r].name_type /\ w[r] = y[r]
            /\ Owns(t.eqtb[p], r) => \/ u.root[r].name_type = "saved_root" /\ w[r] = y[r] + 1
                                     \/ u.root[r].name_type = "free" /\ w[r] = y[r]
    <3> TAKE r \in Roots
    <3>1. CASE Owns(t.eqtb[p], r)
      <4>1. One(Owns(t.eqtb[p], r)) = 1
        BY <3>1 DEF One
      <4>2. w[r] = y[r] + 1
        BY <4>1
      <4>3. u.root[r].name_type = "saved_root"
        BY <1>5, <1>7, <3>1
      <4> QED BY <3>1, <4>2, <4>3
    <3>2. CASE ~Owns(t.eqtb[p], r)
      <4>1. One(Owns(t.eqtb[p], r)) = 0 /\ y[r] \in Int
        BY <1>1, <3>2 DEF One
      <4>2. w[r] = y[r]
        BY <4>1
      <4>3. u.root[r].name_type = t.root[r].name_type
        BY <1>5, <1>7, <3>2
      <4> QED BY <3>2, <4>2, <4>3
    <3> QED BY <3>1, <3>2
  <2> QED BY <1>8, <2>1, OwnerLost
<1> HIDE DEF u
<1> QED BY <1>6, <1>7, <1>9 DEF Fit, u

\* A symbol means e instead, and owns what it owned before.
LEMMA SameOwner ==
  ASSUME NEW t, NEW x, NEW y, Fit(t, x, y), NEW p \in Symbols, NEW e \in EntrySet,
         \A r \in Roots : Owns(e, r) <=> Owns(t.eqtb[p], r),
         NEW z \in [Macros -> Int],
         \A n \in Macros : z[n] = x[n] + One(Holds(t.eqtb[p], n)) - One(Holds(e, n))
  PROVE  Fit(SetEqtb(t, p, e), z, y)
<1>1. t \in TabSet /\ x \in [Macros -> Int] /\ y \in [Roots -> Int] /\ Balanced(t, x) /\ Owned(t, y)
  BY DEF Fit
<1> DEFINE u == SetEqtb(t, p, e)
<1>2. /\ u \in TabSet /\ u.root = t.root /\ u.eqtb[p] = e
      /\ \A n \in Symbols : n # p => u.eqtb[n] = t.eqtb[n]
  BY <1>1, EqtbSet1
<1>3. Balanced(u, z)
  <2> HIDE DEF u
  <2> QED BY <1>1, NewEqtb DEF u
<1> HIDE DEF u
<1>4. \A r \in Roots : NowR(u, r) = NowR(t, r)
  BY <1>2 DEF NowR
<1>5. Owned(u, y)
  BY <1>1, <1>2, <1>4 DEF Owned
<1> QED BY <1>1, <1>2, <1>3, <1>5 DEF Fit, u

\* A symbol that owned and held nothing becomes the owner of root r.
LEMMA NewOwner ==
  ASSUME NEW t, NEW x, NEW y, Fit(t, x, y), NEW p \in Symbols,
         \A n \in Roots : ~Owns(t.eqtb[p], n), \A m \in Macros : ~Holds(t.eqtb[p], m),
         NEW r \in Roots, t.root[r].name_type # "root",
         NEW e \in EntrySet, e.eq_type = "tag", e.equiv = r,
         NEW c \in RootSet, c.name_type = "root",
         \A m \in Macros : c.value = m <=> t.root[r].value = m,
         NEW w \in [Roots -> Int], w[r] = 0, \A n \in Roots : n # r => w[n] = y[n]
  PROVE  Fit(SetRoot(SetEqtb(t, p, e), r, c), x, w)
<1>1. t \in TabSet /\ x \in [Macros -> Int] /\ y \in [Roots -> Int] /\ Balanced(t, x) /\ Owned(t, y)
  BY DEF Fit
<1> DEFINE v == SetEqtb(t, p, e)  u == SetRoot(v, r, c)
<1>2. /\ v \in TabSet /\ v.root = t.root /\ v.eqtb[p] = e
      /\ \A n \in Symbols : n # p => v.eqtb[n] = t.eqtb[n]
  BY <1>1, EqtbSet1
<1>3. Balanced(v, x)
  <2>1. \A m \in Macros : x[m] = x[m] + One(Holds(t.eqtb[p], m)) - One(Holds(e, m))
    <3>1. \A m \in Macros : One(Holds(t.eqtb[p], m)) = 0 /\ One(Holds(e, m)) = 0 /\ x[m] \in Int
      BY <1>1 DEF One, Holds
    <3> QED BY <3>1
  <2> HIDE DEF v
  <2> QED BY <1>1, <2>1, NewEqtb DEF v
<1>4. \A n \in Roots : /\ Cardinality(NowR(t, n)) \in Nat
               /\ Cardinality(NowR(v, n)) \in Nat
               /\ Cardinality(NowR(v, n)) + One(Owns(t.eqtb[p], n))
                   = Cardinality(NowR(t, n)) + One(Owns(e, n))
  BY <1>1, SymbolCount
<1> HIDE DEF v
<1>5. /\ u \in TabSet /\ u.eqtb = v.eqtb /\ u.root[r] = c
      /\ \A n \in Roots : n # r => u.root[n] = v.root[n]
  BY <1>2, RootSet1
<1>6. Balanced(u, x)
  <2>1. \A m \in Macros : x[m] = x[m] + One(v.root[r].value = m) - One(c.value = m)
    <3>1. \A m \in Macros : One(v.root[r].value = m) = One(c.value = m) /\ One(c.value = m) \in {0, 1}
                            /\ x[m] \in Int
      BY <1>1, <1>2 DEF One
    <3> QED BY <3>1
  <2> HIDE DEF u
  <2> QED BY <1>1, <1>2, <1>3, <2>1, NewRoot DEF u
<1> HIDE DEF u
<1>7. Owned(u, w)
  <2> SUFFICES ASSUME NEW n \in Roots
               PROVE  LET now == Cardinality(NowR(u, n)) IN
                    \/ u.root[n].name_type = "free"       /\ now = 0 /\ w[n] = 0
                    \/ u.root[n].name_type = "root"       /\ now = 1 /\ w[n] = 0
                    \/ u.root[n].name_type = "saved_root" /\ now = 0 /\ w[n] = 1
    BY DEF Owned
  <2>1. NowR(u, n) = NowR(v, n)
    BY <1>5 DEF NowR
  <2>2. \/ t.root[n].name_type = "free"       /\ Cardinality(NowR(t, n)) = 0 /\ y[n] = 0
        \/ t.root[n].name_type = "root"       /\ Cardinality(NowR(t, n)) = 1 /\ y[n] = 0
        \/ t.root[n].name_type = "saved_root" /\ Cardinality(NowR(t, n)) = 0 /\ y[n] = 1
    BY <1>1 DEF Owned
  <2>3. One(Owns(t.eqtb[p], n)) = 0
    BY DEF One
  <2>4. CASE n = r
    <3>1. One(Owns(e, n)) = 1
      BY <2>4 DEF One, Owns
    <3>2. Cardinality(NowR(v, n)) = 1
      BY <1>4, <2>2, <2>3, <2>4, <3>1
    <3> QED BY <1>5, <2>1, <2>4, <3>2
  <2>5. CASE n # r
    <3>1. One(Owns(e, n)) = 0
      BY <2>5 DEF One, Owns
    <3>2. Cardinality(NowR(v, n)) = Cardinality(NowR(t, n))
      BY <1>4, <2>3, <3>1
    <3> QED BY <1>2, <1>5, <2>1, <2>2, <2>5, <3>2
  <2> QED BY <2>4, <2>5
<1> QED BY <1>1, <1>5, <1>6, <1>7 DEF Fit, u, v

-----------------------------------------------------------------------------
(* The end of a group.                                                     *)

\* A symbol gets its old meaning back.
LEMMA RestoreSymbol ==
  ASSUME NEW s, "tab" \in DOMAIN s, NEW x, NEW y, Fit(s.tab, x, y),
         NEW item, item.info = "symbol", item.q \in Symbols, item.value \in EntrySet,
         NEW z \in [Macros -> Int], \A n \in Macros : z[n] = x[n] - One(Holds(item.value, n)),
         NEW w \in [Roots -> Nat], \A r \in Roots : w[r] = y[r] - One(Owns(item.value, r))
  PROVE  "tab" \in DOMAIN restore(s, item) /\ Fit(restore(s, item).tab, z, w)
<1> DEFINE p == item.q  e == item.value  t == clear_symbol(s.tab, p, FALSE)
<1>1. /\ Fit(t, x, y) /\ t.eqtb[p] = frozen_undefined /\ e \in EntrySet /\ p \in Symbols
  <2>1. p \in Symbols /\ e \in EntrySet
    OBVIOUS
  <2> HIDE DEF p, e
  <2>2. Fit(t, x, y) /\ t.eqtb[p] = frozen_undefined
    BY <2>1, Clear
  <2> QED BY <2>1, <2>2
<1>2. restore(s, item) = [s EXCEPT !.tab = IF e.eq_type = "tag" /\ e.equiv # null
                             THEN [SetEqtb(t, p, e) EXCEPT !.root[e.equiv].name_type = "root"]
                             ELSE SetEqtb(t, p, e)]
  BY DEF restore, SetEqtb
<1> HIDE DEF t, p, e
<1>3. t \in TabSet /\ x \in [Macros -> Int] /\ y \in [Roots -> Int] /\ Balanced(t, x) /\ Owned(t, y)
  BY <1>1 DEF Fit
<1>4. (\A n \in Roots : ~Owns(t.eqtb[p], n)) /\ (\A m \in Macros : ~Holds(t.eqtb[p], m))
  <2>1. (\A n \in Roots : One(Owns(t.eqtb[p], n)) = 0) /\ (\A m \in Macros : One(Holds(t.eqtb[p], m)) = 0)
    BY <1>1, Frozen
  <2> QED BY <2>1 DEF One
<1>5. CASE e.eq_type = "tag" /\ e.equiv # null
  <2> DEFINE r == e.equiv  old == t.root[r]  c == [old EXCEPT !.name_type = "root"]
             v == SetEqtb(t, p, e)
  <2>1. r \in Roots
    BY <1>1, <1>5, EntryIs
  <2>2. old \in RootSet
    BY <1>3, <2>1, TabIs
  <2>3. c \in RootSet /\ c.name_type = "root" /\ c.value = old.value
    <3> HIDE DEF old
    <3> QED BY <2>2 DEF RootSet
  <2>4. v.root = t.root
    BY <1>1, <1>3, EqtbSet1
  <2>5. restore(s, item) = [s EXCEPT !.tab = SetRoot(v, r, c)]
    <3>1. SetRoot(v, r, c) = [v EXCEPT !.root[r].name_type = "root"]
      BY <2>4 DEF SetRoot
    <3> HIDE DEF v, c
    <3> QED BY <1>2, <1>5, <3>1 DEF v
  <2>6. z = x
    <3>1. \A n \in Macros : One(Holds(e, n)) = 0 /\ x[n] \in Int /\ z[n] = x[n] - One(Holds(e, n))
      BY <1>3, <1>5 DEF One, Holds, e
    <3>2. \A n \in Macros : z[n] = x[n]
      BY <3>1
    <3> QED BY <1>3, <3>2
  <2>7. w[r] = 0 /\ t.root[r].name_type # "root" /\ \A n \in Roots : n # r => w[n] = y[n]
    <3>1. \A n \in Roots : /\ w[n] = y[n] - One(Owns(e, n)) /\ w[n] \in Nat /\ y[n] \in Int
                           /\ n # r => One(Owns(e, n)) = 0
      BY <1>3 DEF One, Owns, e
    <3>2. One(Owns(e, r)) = 1
      BY <1>5 DEF One, Owns
    <3>3. w[r] = y[r] - 1 /\ w[r] \in Nat /\ y[r] \in Int
      BY <2>1, <3>1, <3>2
    <3>4. \/ t.root[r].name_type = "free"       /\ y[r] = 0
          \/ t.root[r].name_type = "root"       /\ y[r] = 0
          \/ t.root[r].name_type = "saved_root" /\ y[r] = 1
      BY <1>3, <2>1 DEF Owned
    <3>5. w[r] = 0 /\ t.root[r].name_type = "saved_root"
      BY <3>3, <3>4
    <3>6. \A n \in Roots : n # r => w[n] = y[n]
      BY <3>1
    <3> QED BY <3>5, <3>6
  <2>8. w \in [Roots -> Int]
    OBVIOUS
  <2> HIDE DEF v, c, r, old
  <2>9. Fit(SetRoot(v, r, c), z, w)
    BY <1>1, <1>4, <1>5, <2>1, <2>3, <2>6, <2>7, <2>8, NewOwner DEF v, r, old
  <2> QED BY <2>5, <2>9
<1>6. CASE ~(e.eq_type = "tag" /\ e.equiv # null)
  <2>1. \A r \in Roots : ~Owns(e, r)
    <3>1. \A r \in Roots : r # null
      BY SaveStackAssumption DEF SaveStackAssumption, null
    <3> QED BY <1>6, <3>1 DEF Owns
  <2>2. w = y
    <3>1. \A n \in Roots : One(Owns(e, n)) = 0 /\ y[n] \in Int /\ w[n] = y[n] - One(Owns(e, n))
      BY <1>3, <2>1 DEF One, e
    <3>2. \A n \in Roots : w[n] = y[n]
      BY <3>1
    <3> QED BY <1>3, <3>2
  <2>3. \A n \in Macros : z[n] = x[n] + One(Holds(t.eqtb[p], n)) - One(Holds(e, n))
    <3>1. \A n \in Macros : /\ One(Holds(t.eqtb[p], n)) = 0 /\ x[n] \in Int /\ One(Holds(e, n)) \in {0, 1}
                            /\ z[n] = x[n] - One(Holds(e, n))
      BY <1>3, <1>4, OneIs DEF One, e
    <3> QED BY <3>1
  <2>4. Fit(SetEqtb(t, p, e), z, w)
    BY <1>1, <1>4, <2>1, <2>2, <2>3, SameOwner
  <2>5. restore(s, item) = [s EXCEPT !.tab = SetEqtb(t, p, e)]
    BY <1>2, <1>6
  <2> QED BY <2>4, <2>5
<1> QED BY <1>5, <1>6

\* A quantity gets its old value back.
LEMMA RestoreInternal ==
  ASSUME NEW s, "tab" \in DOMAIN s, NEW item, item.info = "internal"
  PROVE  "tab" \in DOMAIN restore(s, item) /\ restore(s, item).tab = s.tab
  BY DEF restore

\* The states in which the items above the boundary are restored.
IsUndone(c, s, st, N, M) ==
    c = [k \in 0..M |-> IF k = 0 THEN s ELSE restore(c[k - 1], st[N - k + 1])]

LEMMA UndoneDefined ==
  ASSUME NEW s, NEW st, NEW N, NEW M \in Nat
  PROVE  \E c : IsUndone(c, s, st, N, M)
<1> SUFFICES \E c : c = [k \in 0..M |-> IF k = 0 THEN s ELSE restore(c[k - 1], st[N - k + 1])]
  BY DEF IsUndone
<1> DEFINE S == {m \in Nat : \E c : c = [k \in 0..m |->
                                 IF k = 0 THEN s ELSE restore(c[k - 1], st[N - k + 1])]}
<1>1. 0 \in S
  <2> DEFINE g == [k \in 0..0 |-> s]
  <2>1. g = [k \in 0..0 |-> IF k = 0 THEN s ELSE restore(g[k - 1], st[N - k + 1])]
    OBVIOUS
  <2> QED BY <2>1
<1>2. \A m \in Nat : m \in S => m + 1 \in S
  <2> TAKE m \in Nat
  <2> HAVE m \in S
  <2>1. PICK c : c = [k \in 0..m |-> IF k = 0 THEN s ELSE restore(c[k - 1], st[N - k + 1])]
    OBVIOUS
  <2> DEFINE g == [k \in 0..(m + 1) |-> IF k <= m THEN c[k] ELSE restore(c[m], st[N - k + 1])]
  <2>2. \A k \in 0..(m + 1) : g[k] = IF k = 0 THEN s ELSE restore(g[k - 1], st[N - k + 1])
    <3> TAKE k \in 0..(m + 1)
    <3>1. CASE k = 0
      BY <2>1, <3>1
    <3>2. CASE k > 0 /\ k <= m
      <4>1. k \in 0..m /\ k - 1 \in 0..m /\ k # 0 /\ k - 1 \in 0..(m + 1) /\ k - 1 <= m
        BY <3>2
      <4>2. c[k] = restore(c[k - 1], st[N - k + 1])
        BY <2>1, <4>1
      <4> QED BY <3>2, <4>1, <4>2
    <3>3. CASE k = m + 1
      BY <3>3
    <3> QED BY <3>1, <3>2, <3>3
  <2>3. g = [k \in 0..(m + 1) |-> IF k = 0 THEN s ELSE restore(g[k - 1], st[N - k + 1])]
    <3>1. g = [k \in 0..(m + 1) |-> g[k]]
      OBVIOUS
    <3> HIDE DEF g
    <3> QED BY <2>2, <3>1
  <2> HIDE DEF g
  <2> QED BY <2>3
<1>3. Nat \subseteq S
  <2> HIDE DEF S
  <2> QED BY <1>1, <1>2, NatSetInduction
<1> QED BY <1>3

\* One more entry of a list that agrees with another on the first n.
LEMMA CountStep ==
  ASSUME NEW n \in Nat, NEW A, NEW B, A \subseteq 1..n, B \subseteq 1..(n + 1),
         \A i \in 1..n : i \in A <=> i \in B
  PROVE  /\ Cardinality(A) \in Nat /\ Cardinality(B) \in Nat
         /\ Cardinality(B) = Cardinality(A) + One(n + 1 \in B)
<1> DEFINE S == 1..(n + 1)  p == n + 1
<1>1. IsFiniteSet(S)
  BY FS_Interval
<1>2. A \subseteq S /\ B \subseteq S /\ p \in S /\ p \notin A
  OBVIOUS
<1>3. /\ Cardinality(A) \in Nat /\ Cardinality(B) \in Nat
      /\ Cardinality(B) + One(p \in A) = Cardinality(A) + One(p \in B)
  <2>1. \A z \in S : z # p => (z \in A <=> z \in B)
    OBVIOUS
  <2> HIDE DEF S, p
  <2> QED BY ONLY <1>1, <1>2, <2>1, Swap
<1> HIDE DEF S, p
<1>4. One(p \in A) = 0 /\ One(p \in B) \in {0, 1}
  BY <1>2, OneIs DEF One
<1> QED BY <1>3, <1>4 DEF p

\* The same, of the macros and roots on the save stack and of its boundaries.
LEMMA SavedMacros ==
  ASSUME NEW st, NEW su, NEW n \in Nat, \A i \in 1..n : su[i] = st[i], NEW m
  PROVE  /\ SavM(su, n, m) = SavM(st, n, m) /\ Cardinality(SavM(st, n, m)) \in Nat
         /\ Cardinality(SavM(su, n + 1, m)) = Cardinality(SavM(st, n, m)) + One(su[n + 1].info = "symbol" /\ Holds(su[n + 1].value, m))
<1> DEFINE A == SavM(st, n, m)  B == SavM(su, n + 1, m)  a == su[n + 1].info = "symbol" /\ Holds(su[n + 1].value, m)
<1>1. A \subseteq 1..n /\ B \subseteq 1..(n + 1) /\ (\A i \in 1..n : i \in A <=> i \in B)
      /\ SavM(su, n, m) = A /\ (n + 1 \in B <=> a)
  BY DEF SavM
<1> HIDE DEF A, B, a
<1>2. Cardinality(A) \in Nat /\ Cardinality(B) = Cardinality(A) + One(n + 1 \in B)
  BY <1>1, CountStep
<1>3. One(n + 1 \in B) = One(a)
  BY <1>1 DEF One
<1> QED BY <1>1, <1>2, <1>3 DEF A, B, a

LEMMA SavedOwners ==
  ASSUME NEW st, NEW su, NEW n \in Nat, \A i \in 1..n : su[i] = st[i], NEW r
  PROVE  /\ SavR(su, n, r) = SavR(st, n, r) /\ Cardinality(SavR(st, n, r)) \in Nat
         /\ Cardinality(SavR(su, n + 1, r)) = Cardinality(SavR(st, n, r)) + One(su[n + 1].info = "symbol" /\ Owns(su[n + 1].value, r))
<1> DEFINE A == SavR(st, n, r)  B == SavR(su, n + 1, r)  a == su[n + 1].info = "symbol" /\ Owns(su[n + 1].value, r)
<1>1. A \subseteq 1..n /\ B \subseteq 1..(n + 1) /\ (\A i \in 1..n : i \in A <=> i \in B)
      /\ SavR(su, n, r) = A /\ (n + 1 \in B <=> a)
  BY DEF SavR
<1> HIDE DEF A, B, a
<1>2. Cardinality(A) \in Nat /\ Cardinality(B) = Cardinality(A) + One(n + 1 \in B)
  BY <1>1, CountStep
<1>3. One(n + 1 \in B) = One(a)
  BY <1>1 DEF One
<1> QED BY <1>1, <1>2, <1>3 DEF A, B, a

LEMMA BoundsStep ==
  ASSUME NEW st, NEW su, NEW n \in Nat, \A i \in 1..n : su[i] = st[i]
  PROVE  /\ Bounds(su, n) = Bounds(st, n) /\ Cardinality(Bounds(st, n)) \in Nat
         /\ Cardinality(Bounds(su, n + 1)) = Cardinality(Bounds(st, n)) + One(su[n + 1].info = "boundary")
<1> DEFINE A == Bounds(st, n)  B == Bounds(su, n + 1)  a == su[n + 1].info = "boundary"
<1>1. A \subseteq 1..n /\ B \subseteq 1..(n + 1) /\ (\A i \in 1..n : i \in A <=> i \in B)
      /\ Bounds(su, n) = A /\ (n + 1 \in B <=> a)
  BY DEF Bounds
<1> HIDE DEF A, B, a
<1>2. Cardinality(A) \in Nat /\ Cardinality(B) = Cardinality(A) + One(n + 1 \in B)
  BY <1>1, CountStep
<1>3. One(n + 1 \in B) = One(a)
  BY <1>1 DEF One
<1> QED BY <1>1, <1>2, <1>3 DEF A, B, a

\* The same, of the calls and the input levels.
LEMMA CallsStep ==
  ASSUME NEW c, NEW d, NEW n \in Nat, \A i \in 1..n : d[i] = c[i], NEW m
  PROVE  /\ CallM(d, n, m) = CallM(c, n, m) /\ Cardinality(CallM(c, n, m)) \in Nat
         /\ Cardinality(CallM(d, n + 1, m)) = Cardinality(CallM(c, n, m)) + One(d[n + 1].kind # "group" /\ d[n + 1].m = m)
<1> DEFINE A == CallM(c, n, m)  B == CallM(d, n + 1, m)  a == d[n + 1].kind # "group" /\ d[n + 1].m = m
<1>1. A \subseteq 1..n /\ B \subseteq 1..(n + 1) /\ (\A i \in 1..n : i \in A <=> i \in B)
      /\ CallM(d, n, m) = A /\ (n + 1 \in B <=> a)
  BY DEF CallM
<1> HIDE DEF A, B, a
<1>2. Cardinality(A) \in Nat /\ Cardinality(B) = Cardinality(A) + One(n + 1 \in B)
  BY <1>1, CountStep
<1>3. One(n + 1 \in B) = One(a)
  BY <1>1 DEF One
<1> QED BY <1>1, <1>2, <1>3 DEF A, B, a

LEMMA HeldStep ==
  ASSUME NEW c, NEW d, NEW n \in Nat, \A i \in 1..n : d[i] = c[i], NEW m
  PROVE  /\ HeldM(d, n, m) = HeldM(c, n, m) /\ Cardinality(HeldM(c, n, m)) \in Nat
         /\ Cardinality(HeldM(d, n + 1, m)) = Cardinality(HeldM(c, n, m)) + One(d[n + 1].kind = "args" /\ d[n + 1].m = m /\ d[n + 1].held)
<1> DEFINE A == HeldM(c, n, m)  B == HeldM(d, n + 1, m)  a == d[n + 1].kind = "args" /\ d[n + 1].m = m /\ d[n + 1].held
<1>1. A \subseteq 1..n /\ B \subseteq 1..(n + 1) /\ (\A i \in 1..n : i \in A <=> i \in B)
      /\ HeldM(d, n, m) = A /\ (n + 1 \in B <=> a)
  BY DEF HeldM
<1> HIDE DEF A, B, a
<1>2. Cardinality(A) \in Nat /\ Cardinality(B) = Cardinality(A) + One(n + 1 \in B)
  BY <1>1, CountStep
<1>3. One(n + 1 \in B) = One(a)
  BY <1>1 DEF One
<1> QED BY <1>1, <1>2, <1>3 DEF A, B, a

LEMMA GroupsStep ==
  ASSUME NEW c, NEW d, NEW n \in Nat, \A i \in 1..n : d[i] = c[i]
  PROVE  /\ GroupsIn(d, n) = GroupsIn(c, n) /\ Cardinality(GroupsIn(c, n)) \in Nat
         /\ Cardinality(GroupsIn(d, n + 1)) = Cardinality(GroupsIn(c, n)) + One(d[n + 1].kind = "group")
<1> DEFINE A == GroupsIn(c, n)  B == GroupsIn(d, n + 1)  a == d[n + 1].kind = "group"
<1>1. A \subseteq 1..n /\ B \subseteq 1..(n + 1) /\ (\A i \in 1..n : i \in A <=> i \in B)
      /\ GroupsIn(d, n) = A /\ (n + 1 \in B <=> a)
  BY DEF GroupsIn
<1> HIDE DEF A, B, a
<1>2. Cardinality(A) \in Nat /\ Cardinality(B) = Cardinality(A) + One(n + 1 \in B)
  BY <1>1, CountStep
<1>3. One(n + 1 \in B) = One(a)
  BY <1>1 DEF One
<1> QED BY <1>1, <1>2, <1>3 DEF A, B, a

LEMMA ReadsStep ==
  ASSUME NEW l, NEW k, NEW n \in Nat, \A i \in 1..n : k[i] = l[i], NEW m
  PROVE  /\ ReadM(k, n, m) = ReadM(l, n, m) /\ Cardinality(ReadM(l, n, m)) \in Nat
         /\ Cardinality(ReadM(k, n + 1, m)) = Cardinality(ReadM(l, n, m)) + One(k[n + 1] = m)
<1> DEFINE A == ReadM(l, n, m)  B == ReadM(k, n + 1, m)  a == k[n + 1] = m
<1>1. A \subseteq 1..n /\ B \subseteq 1..(n + 1) /\ (\A i \in 1..n : i \in A <=> i \in B)
      /\ ReadM(k, n, m) = A /\ (n + 1 \in B <=> a)
  BY DEF ReadM
<1> HIDE DEF A, B, a
<1>2. Cardinality(A) \in Nat /\ Cardinality(B) = Cardinality(A) + One(n + 1 \in B)
  BY <1>1, CountStep
<1>3. One(n + 1 \in B) = One(a)
  BY <1>1 DEF One
<1> QED BY <1>1, <1>2, <1>3 DEF A, B, a

-----------------------------------------------------------------------------
(* Lists whose members are of no given set.                                *)

\* A function on 1..n is a list of n members.
LEMMA ListIs ==
  ASSUME NEW q, NEW n \in Nat, q = [i \in 1..n |-> q[i]]
  PROVE  IsList(q) /\ Len(q) = n /\ DOMAIN q = 1..n
<1> DEFINE R == {q[i] : i \in DOMAIN q}
<1>1. DOMAIN q = 1..n
  OBVIOUS
<1>2. q \in [1..n -> R]
  BY <1>1
<1> HIDE DEF R
<1>3. q \in Seq(R)
  BY <1>2, SeqDef
<1>4. Len(q) = n
  BY <1>1, <1>3
<1> QED BY <1>1, <1>3, <1>4 DEF IsList, R

\* A list has a length.
LEMMA ListHas ==
  ASSUME NEW q, IsList(q)
  PROVE  /\ Len(q) \in Nat /\ DOMAIN q = 1..Len(q) /\ q = [i \in 1..Len(q) |-> q[i]]
         /\ q = <<>> <=> Len(q) = 0
<1> DEFINE R == {q[i] : i \in DOMAIN q}
<1>1. q \in Seq(R)
  BY DEF IsList
<1> HIDE DEF R
<1> QED BY <1>1

\* A member more, and the first k of them.
LEMMA ListPush ==
  ASSUME NEW q, IsList(q), NEW e
  PROVE  /\ IsList(Append(q, e)) /\ Len(Append(q, e)) = Len(q) + 1
         /\ Append(q, e)[Len(q) + 1] = e /\ \A i \in 1..Len(q) : Append(q, e)[i] = q[i]
<1> DEFINE p == Append(q, e)  R == {q[i] : i \in DOMAIN q}  T == R \cup {e}
<1>1. q \in Seq(R) /\ Len(q) \in Nat
  BY ListHas DEF IsList
<1>2. q \in Seq(T) /\ e \in T
  <2>1. \A i \in 1..Len(q) : q[i] \in T
    BY <1>1
  <2> HIDE DEF R, T
  <2>2. q \in Seq(T)
    BY <1>1, <2>1
  <2> QED BY <2>2 DEF T
<1> HIDE DEF R, T
<1>3. p \in Seq(T) /\ Len(p) = Len(q) + 1 /\ p[Len(q) + 1] = e /\ \A i \in 1..Len(q) : p[i] = q[i]
  BY <1>1, <1>2
<1> HIDE DEF p
<1>4. p = [i \in 1..(Len(q) + 1) |-> p[i]]
  BY <1>1, <1>3
<1>5. IsList(p)
  <2>1. Len(q) + 1 \in Nat
    BY <1>1
  <2> QED BY <1>4, <2>1, ListIs
<1> QED BY <1>3, <1>5 DEF p

LEMMA ListCut ==
  ASSUME NEW q, IsList(q), NEW k \in Nat, k <= Len(q)
  PROVE  /\ IsList(SubSeq(q, 1, k)) /\ Len(SubSeq(q, 1, k)) = k
         /\ \A i \in 1..k : SubSeq(q, 1, k)[i] = q[i]
<1> DEFINE p == SubSeq(q, 1, k)  R == {q[i] : i \in DOMAIN q}
<1>1. q \in Seq(R) /\ Len(q) \in Nat
  BY ListHas DEF IsList
<1> HIDE DEF R
<1>2. p = [i \in 1..k |-> q[i]]
  BY <1>1
<1> HIDE DEF p
<1>3. (\A i \in 1..k : p[i] = q[i]) /\ p = [i \in 1..k |-> p[i]]
  BY <1>2
<1>4. IsList(p) /\ Len(p) = k
  BY <1>3, ListIs
<1> QED BY <1>3, <1>4 DEF p

\* The innermost group has a boundary, and no boundary is above it.
LEMMA BoundaryIs ==
  ASSUME NEW st, IsList(st), Cardinality(Bounds(st, Len(st))) # 0
  PROVE  /\ Boundary(st) \in 1..Len(st) /\ st[Boundary(st)].info = "boundary"
         /\ \A j \in 1..Len(st) : j > Boundary(st) => st[j].info # "boundary"
<1> DEFINE N == Len(st)  A == {d \in 0..N : d < N /\ st[N - d].info = "boundary"}
<1>1. N \in Nat /\ DOMAIN st = 1..N
  BY ListHas
<1>2. PICK b \in 1..N : st[b].info = "boundary"
  <2>1. Bounds(st, N) # {}
    BY FS_EmptySet
  <2> QED BY <2>1 DEF Bounds
<1>3. N - b \in A
  BY <1>1, <1>2
<1>4. PICK d \in A : \A c \in A : d <= c
  <2>1. A \subseteq Nat /\ A # {}
    BY <1>1, <1>3
  <2> HIDE DEF A
  <2> QED BY <2>1, Least
<1> DEFINE B == N - d
<1>5. B \in DOMAIN st /\ B \in 1..N /\ st[B].info = "boundary"
  BY <1>1, <1>4
<1>6. \A j \in (B + 1)..N : st[j].info # "boundary"
  <2> SUFFICES ASSUME NEW j \in (B + 1)..N, st[j].info = "boundary" PROVE FALSE
    OBVIOUS
  <2>1. N - j \in 0..N /\ N - j < N /\ N - (N - j) = j /\ N - j < d
    BY <1>1, <1>4
  <2>2. N - j \in A
    BY <2>1
  <2>3. d <= N - j
    BY <1>4, <2>2
  <2> QED BY <1>1, <1>4, <2>1, <2>3
<1> HIDE DEF B
<1>7. \E i \in DOMAIN st : /\ st[i].info = "boundary"
                           /\ \A j \in (i + 1)..Len(st) : st[j].info # "boundary"
  BY <1>5, <1>6 DEF N
<1> DEFINE P(i) == st[i].info = "boundary" /\ \A j \in (i + 1)..Len(st) : st[j].info # "boundary"
<1>8. Boundary(st) \in DOMAIN st /\ P(Boundary(st))
  BY <1>7 DEF Boundary
<1> QED BY <1>1, <1>8

-----------------------------------------------------------------------------
(* What the lists count.                                                   *)

\* The sizes are functions to the natural numbers.
LEMMA TallyTypes ==
  ASSUME NEW st, NEW n \in Nat, NEW c, NEW k \in Nat, NEW l, NEW j \in Nat
  PROVE  /\ Busy(c, k, l, j) \in [Macros -> Nat] /\ SavedRoots(st, n) \in [Roots -> Nat]
         /\ \A b \in [Macros -> Nat] : Others(st, n, b) \in [Macros -> Nat]
<1>1. \A m \in Macros : /\ Cardinality(CallM(c, k, m)) \in Nat /\ Cardinality(HeldM(c, k, m)) \in Nat
                        /\ Cardinality(SavM(st, n, m)) \in Nat /\ Cardinality(ReadM(l, j, m)) \in Nat
  <2>1. \A i \in 1..k : c[i] = c[i]
    OBVIOUS
  <2>2. \A i \in 1..n : st[i] = st[i]
    OBVIOUS
  <2>3. \A i \in 1..j : l[i] = l[i]
    OBVIOUS
  <2> QED BY <2>1, <2>2, <2>3, CallsStep, HeldStep, SavedMacros, ReadsStep
<1>2. \A r \in Roots : Cardinality(SavR(st, n, r)) \in Nat
  <2>1. \A i \in 1..n : st[i] = st[i]
    OBVIOUS
  <2> QED BY <2>1, SavedOwners
<1>3. Busy(c, k, l, j) \in [Macros -> Nat]
  BY <1>1 DEF Busy
<1>4. SavedRoots(st, n) \in [Roots -> Nat]
  BY <1>2 DEF SavedRoots
<1>5. \A b \in [Macros -> Nat] : Others(st, n, b) \in [Macros -> Nat]
  BY <1>1 DEF Others
<1> QED BY <1>3, <1>4, <1>5

\* Two lists agree on the first n entries.
Agree(c, d, n) == n \in Nat /\ \A i \in 1..n : d[i] = c[i]

\* An item of the save stack that is no symbol, and one that is.
LEMMA OthersStep ==
  ASSUME NEW st, NEW su, NEW n, Agree(st, su, n),
         NEW b \in [Macros -> Nat]
  PROVE  /\ Others(su, n, b) = Others(st, n, b)
         /\ su[n + 1].info # "symbol" => Others(su, n + 1, b) = Others(st, n, b)
<1> DEFINE e == su[n + 1]
<1>1. \A m : /\ SavM(su, n, m) = SavM(st, n, m) /\ Cardinality(SavM(st, n, m)) \in Nat
             /\ Cardinality(SavM(su, n + 1, m))
                      = Cardinality(SavM(st, n, m)) + One(e.info = "symbol" /\ Holds(e.value, m))
  BY SavedMacros DEF Agree
<1> HIDE DEF e
<1>2. Others(su, n, b) = Others(st, n, b)
  BY <1>1 DEF Others
<1>3. ASSUME e.info # "symbol"
      PROVE  Others(su, n + 1, b) = Others(st, n, b)
  <2>1. \A m : One(e.info = "symbol" /\ Holds(e.value, m)) = 0
    BY <1>3 DEF One
  <2>2. \A m : Cardinality(SavM(su, n + 1, m)) = Cardinality(SavM(st, n, m))
    BY <1>1, <2>1
  <2> QED BY <2>2 DEF Others
<1> QED BY <1>2, <1>3 DEF e

LEMMA OthersSymbol ==
  ASSUME NEW st, NEW su, NEW n, Agree(st, su, n),
         NEW b \in [Macros -> Nat], su[n + 1].info = "symbol", NEW m \in Macros
  PROVE  Others(su, n + 1, b)[m] = Others(st, n, b)[m] + One(Holds(su[n + 1].value, m))
<1> DEFINE e == su[n + 1]
<1>1. \A k : /\ SavM(su, n, k) = SavM(st, n, k) /\ Cardinality(SavM(st, n, k)) \in Nat
             /\ Cardinality(SavM(su, n + 1, k))
                   = Cardinality(SavM(st, n, k)) + One(e.info = "symbol" /\ Holds(e.value, k))
  BY SavedMacros DEF Agree
<1> HIDE DEF e
<1>2. e.info = "symbol"
  BY DEF e
<1>3. One(e.info = "symbol" /\ Holds(e.value, m)) = One(Holds(e.value, m))
  BY <1>2 DEF One
<1>4. One(Holds(e.value, m)) \in Nat
  BY DEF One
<1>5. Cardinality(SavM(su, n + 1, m)) = Cardinality(SavM(st, n, m)) + One(Holds(e.value, m))
  BY <1>1, <1>3
<1>6. Others(su, n + 1, b)[m] = Cardinality(SavM(su, n + 1, m)) + b[m]
      /\ Others(st, n, b)[m] = Cardinality(SavM(st, n, m)) + b[m] /\ b[m] \in Nat
  BY DEF Others
<1>7. Others(su, n + 1, b)[m] = Others(st, n, b)[m] + One(Holds(e.value, m))
  BY <1>1, <1>4, <1>5, <1>6
<1> QED BY <1>7 DEF e

LEMMA RootsStep ==
  ASSUME NEW st, NEW su, NEW n, Agree(st, su, n)
  PROVE  /\ SavedRoots(su, n) = SavedRoots(st, n)
         /\ su[n + 1].info # "symbol" => SavedRoots(su, n + 1) = SavedRoots(st, n)
         /\ su[n + 1].info = "symbol" =>
               \A r \in Roots : SavedRoots(su, n + 1)[r]
                                = SavedRoots(st, n)[r] + One(Owns(su[n + 1].value, r))
<1> DEFINE e == su[n + 1]
<1>1. \A r : /\ SavR(su, n, r) = SavR(st, n, r) /\ Cardinality(SavR(st, n, r)) \in Nat
             /\ Cardinality(SavR(su, n + 1, r))
                      = Cardinality(SavR(st, n, r)) + One(e.info = "symbol" /\ Owns(e.value, r))
  BY SavedOwners DEF Agree
<1> HIDE DEF e
<1>2. SavedRoots(su, n) = SavedRoots(st, n)
  BY <1>1 DEF SavedRoots
<1>3. ASSUME e.info # "symbol"
      PROVE  SavedRoots(su, n + 1) = SavedRoots(st, n)
  <2>1. \A r : One(e.info = "symbol" /\ Owns(e.value, r)) = 0
    BY <1>3 DEF One
  <2>2. \A r : Cardinality(SavR(su, n + 1, r)) = Cardinality(SavR(st, n, r))
    BY <1>1, <2>1
  <2> QED BY <2>2 DEF SavedRoots
<1>4. ASSUME e.info = "symbol", NEW r \in Roots
      PROVE  SavedRoots(su, n + 1)[r] = SavedRoots(st, n)[r] + One(Owns(e.value, r))
  <2>1. One(e.info = "symbol" /\ Owns(e.value, r)) = One(Owns(e.value, r))
    BY <1>4 DEF One
  <2>2. Cardinality(SavR(su, n + 1, r)) = Cardinality(SavR(st, n, r)) + One(Owns(e.value, r))
    BY <1>1, <2>1
  <2> QED BY <2>2 DEF SavedRoots
<1> QED BY <1>2, <1>3, <1>4 DEF e

\* The items above the boundary are restored, and the tables count those below.
LEMMA UndoneFit ==
  ASSUME NEW st, IsList(st), \A i \in DOMAIN st : ItemOK(st[i]),
         Cardinality(Bounds(st, Len(st))) # 0, NEW b \in [Macros -> Nat], NEW t, NEW v,
         Fit(t, Others(st, Len(st), b), SavedRoots(st, Len(st))), NEW c,
         IsUndone(c, [tab |-> t, internal |-> v], st, Len(st), Len(st) - Boundary(st)),
         NEW h \in Nat, h <= Len(st) - Boundary(st)
  PROVE  "tab" \in DOMAIN c[h] /\ Fit(c[h].tab, Others(st, Len(st) - h, b), SavedRoots(st, Len(st) - h))
<1> DEFINE s == [tab |-> t, internal |-> v]  N == Len(st)  B == Boundary(st)  M == N - B
<1>1. N \in Nat /\ DOMAIN st = 1..N
  BY ListHas
<1>2. B \in 1..N /\ \A j \in 1..N : j > B => st[j].info # "boundary"
  BY BoundaryIs
<1>3. IsUndone(c, s, st, N, M) /\ h <= M
  OBVIOUS
<1> HIDE DEF s, N, B
<1>4. M \in Nat /\ M = N - B
  BY <1>1, <1>2
<1> HIDE DEF M
<1>5. c = [k \in 0..M |-> IF k = 0 THEN s ELSE restore(c[k - 1], st[N - k + 1])]
  BY <1>3 DEF IsUndone
<1> DEFINE Right(k) == "tab" \in DOMAIN c[k] /\ Fit(c[k].tab, Others(st, N - k, b), SavedRoots(st, N - k))
           S == {k \in Nat : k <= M => Right(k)}
<1>6. 0 \in S
  <2>1. c[0] = s /\ N - 0 = N
    BY <1>1, <1>4, <1>5
  <2> QED BY <2>1 DEF s, N
<1>7. ASSUME NEW k \in Nat, k \in S PROVE k + 1 \in S
  <2> SUFFICES ASSUME k + 1 <= M PROVE Right(k + 1)
    OBVIOUS
  <2> DEFINE n == N - (k + 1)  item == st[n + 1]
  <2>1. /\ k \in 0..M /\ k <= M /\ n \in Nat /\ n + 1 = N - k /\ n + 1 \in 1..N /\ n + 1 > B
        /\ k + 1 \in 0..M /\ k + 1 # 0 /\ (k + 1) - 1 = k /\ N - (k + 1) + 1 = n + 1
    BY <1>1, <1>2, <1>4
  <2>2. c[k + 1] = restore(c[k], item)
    BY <1>5, <2>1
  <2>3. Right(k)
    BY <1>7, <2>1
  <2>4. "tab" \in DOMAIN c[k] /\ Fit(c[k].tab, Others(st, n + 1, b), SavedRoots(st, n + 1))
    BY <2>1, <2>3
  <2>5. ItemOK(item) /\ item.info # "boundary"
    BY <1>1, <1>2, <2>1
  <2> HIDE DEF n, S
  <2>6. /\ item.info # "symbol" => /\ Others(st, n + 1, b) = Others(st, n, b)
                                   /\ SavedRoots(st, n + 1) = SavedRoots(st, n)
        /\ item.info = "symbol" =>
               /\ \A m \in Macros : Others(st, n + 1, b)[m]
                                    = Others(st, n, b)[m] + One(Holds(item.value, m))
               /\ \A r \in Roots : SavedRoots(st, n + 1)[r]
                                   = SavedRoots(st, n)[r] + One(Owns(item.value, r))
    <3>1. Agree(st, st, n) /\ b \in [Macros -> Nat]
      BY <2>1 DEF Agree
    <3>2. st[n + 1].info = item.info /\ st[n + 1].value = item.value
      BY <2>1
    <3>3. ASSUME st[n + 1].info = "symbol", NEW m \in Macros
          PROVE  Others(st, n + 1, b)[m] = Others(st, n, b)[m] + One(Holds(st[n + 1].value, m))
      BY ONLY <3>1, <3>3, OthersSymbol
    <3>4. st[n + 1].info # "symbol" => Others(st, n + 1, b) = Others(st, n, b)
      BY ONLY <3>1, OthersStep
    <3>5. /\ st[n + 1].info # "symbol" => SavedRoots(st, n + 1) = SavedRoots(st, n)
          /\ st[n + 1].info = "symbol" =>
                \A r \in Roots : SavedRoots(st, n + 1)[r]
                                 = SavedRoots(st, n)[r] + One(Owns(st[n + 1].value, r))
      BY ONLY <3>1, RootsStep
    <3> HIDE DEF item
    <3> QED BY <3>2, <3>3, <3>4, <3>5
  <2>7. Others(st, n, b) \in [Macros -> Nat] /\ SavedRoots(st, n) \in [Roots -> Nat]
    BY <2>1, TallyTypes
  <2> DEFINE x == Others(st, n + 1, b)  y == SavedRoots(st, n + 1)  z == Others(st, n, b)  w == SavedRoots(st, n)
             d == c[k]
  <2> HIDE DEF item
  <2>8. CASE item.info = "symbol"
    <3>1. \A m \in Macros : z[m] = x[m] - One(Holds(item.value, m))
      <4>1. \A m \in Macros : One(Holds(item.value, m)) \in Nat /\ z[m] \in Nat
                              /\ x[m] = z[m] + One(Holds(item.value, m))
        BY <2>6, <2>7, <2>8 DEF One
      <4> QED BY <4>1
    <3>2. \A r \in Roots : w[r] = y[r] - One(Owns(item.value, r))
      <4>1. \A r \in Roots : One(Owns(item.value, r)) \in Nat /\ w[r] \in Nat
                             /\ y[r] = w[r] + One(Owns(item.value, r))
        BY <2>6, <2>7, <2>8 DEF One
      <4> QED BY <4>1
    <3>3. z \in [Macros -> Int] /\ w \in [Roots -> Nat]
      BY <2>7
    <3>4. item.q \in Symbols /\ item.value \in EntrySet
      BY <2>5, <2>8 DEF ItemOK
    <3>5. "tab" \in DOMAIN d /\ Fit(d.tab, x, y)
      BY <2>4
    <3> HIDE DEF x, y, z, w, d
    <3>6. "tab" \in DOMAIN restore(d, item) /\ Fit(restore(d, item).tab, z, w)
      BY <2>8, <3>1, <3>2, <3>3, <3>4, <3>5, RestoreSymbol
    <3> QED BY <2>2, <3>6 DEF z, w, d, n
  <2>9. CASE item.info # "symbol"
    <3>1. item.info = "internal"
      BY <2>5, <2>9 DEF ItemOK
    <3>2. "tab" \in DOMAIN d
      BY <2>4
    <3> HIDE DEF d
    <3>3. "tab" \in DOMAIN restore(d, item) /\ restore(d, item).tab = d.tab
      BY <3>1, <3>2, RestoreInternal
    <3> QED BY <2>2, <2>4, <2>6, <2>9, <3>3 DEF d, n
  <2> QED BY <2>8, <2>9
<1>8. Nat \subseteq S
  <2> HIDE DEF S
  <2> QED BY <1>6, <1>7, NatSetInduction
<1>9. Right(h)
  <2> HIDE DEF Right
  <2> QED BY <1>3, <1>8
<1> QED BY <1>9 DEF N

LEMMA UnsaveFit ==
  ASSUME NEW st, IsList(st), \A i \in DOMAIN st : ItemOK(st[i]),
         Cardinality(Bounds(st, Len(st))) # 0, NEW b \in [Macros -> Nat], NEW t, NEW v,
         Fit(t, Others(st, Len(st), b), SavedRoots(st, Len(st)))
  PROVE  Fit(unsave([tab |-> t, internal |-> v, stack |-> st]).tab,
             Others(st, Boundary(st), b), SavedRoots(st, Boundary(st)))
<1> DEFINE s == [tab |-> t, internal |-> v]  N == Len(st)  B == Boundary(st)  M == N - B
           c == CHOOSE f : IsUndone(f, s, st, N, M)
<1>1. unsave([tab |-> t, internal |-> v, stack |-> st]) = c[M]
  BY DEF unsave, IsUndone
<1>2. M \in Nat /\ M <= N - B /\ N - M = B
  BY ListHas, BoundaryIs
<1>3. IsUndone(c, s, st, N, M)
  <2> HIDE DEF M, N, s
  <2> QED BY <1>2, UndoneDefined
<1> HIDE DEF c
<1>4. Fit(c[M].tab, Others(st, N - M, b), SavedRoots(st, N - M))
  BY <1>2, <1>3, UndoneFit
<1> QED BY <1>1, <1>2, <1>4

\* Numbers that differ at one macro.
LEMMA ShiftIs ==
  ASSUME NEW x \in [Macros -> Int], NEW m \in Macros, NEW d \in Int, NEW z \in [Macros -> Int],
         \A n \in Macros : z[n] = x[n] + (IF n = m THEN d ELSE 0)
  PROVE  z = Shift(x, m, d) /\ x = Shift(z, m, -d)
<1>1. \A n \in Macros : Shift(x, m, d)[n] = z[n]
  BY DEF Shift
<1>2. \A n \in Macros : Shift(z, m, -d)[n] = x[n]
  BY DEF Shift
<1>3. Shift(x, m, d) \in [Macros -> Int] /\ Shift(z, m, -d) \in [Macros -> Int]
  BY DEF Shift
<1> QED BY <1>1, <1>2, <1>3

\* A call more: a group holds nothing, another call its macro, one that held it
\* before holds it twice.
Share(e) == IF e.kind = "args" /\ e.held THEN 2 ELSE 1

LEMMA BusyEither ==
  ASSUME NEW c, NEW d, NEW k, Agree(c, d, k), NEW l, NEW j \in Nat,
         d[k + 1] \in CallSet
  PROVE  /\ Busy(d, k, l, j) = Busy(c, k, l, j)
         /\ d[k + 1].kind = "group" => Busy(d, k + 1, l, j) = Busy(c, k, l, j)
         /\ d[k + 1].kind # "group" =>
               /\ d[k + 1].m \in Macros /\ Share(d[k + 1]) \in Int
               /\ Busy(d, k + 1, l, j) = Shift(Busy(c, k, l, j), d[k + 1].m, Share(d[k + 1]))
               /\ Busy(c, k, l, j) = Shift(Busy(d, k + 1, l, j), d[k + 1].m, -Share(d[k + 1]))
<1>0. k \in Nat /\ \A i \in 1..k : d[i] = c[i]
  BY DEF Agree
<1> DEFINE e == d[k + 1]
<1>1. \A m : /\ CallM(d, k, m) = CallM(c, k, m) /\ Cardinality(CallM(c, k, m)) \in Nat
             /\ Cardinality(CallM(d, k + 1, m))
                = Cardinality(CallM(c, k, m)) + One(e.kind # "group" /\ e.m = m)
  BY <1>0, CallsStep
<1>2. \A m : /\ HeldM(d, k, m) = HeldM(c, k, m) /\ Cardinality(HeldM(c, k, m)) \in Nat
             /\ Cardinality(HeldM(d, k + 1, m))
                = Cardinality(HeldM(c, k, m)) + One(e.kind = "args" /\ e.m = m /\ e.held)
  BY <1>0, HeldStep
<1>3. \A m : Cardinality(ReadM(l, j, m)) \in Nat
  <2>1. \A i \in 1..j : l[i] = l[i]
    OBVIOUS
  <2> QED BY <2>1, ReadsStep
<1>4. Busy(c, k, l, j) \in [Macros -> Nat] /\ Busy(d, k + 1, l, j) \in [Macros -> Nat]
  <2>1. k + 1 \in Nat
    BY <1>0
  <2> QED BY <1>0, <2>1, TallyTypes
<1>5. Busy(d, k, l, j) = Busy(c, k, l, j)
  BY <1>1, <1>2 DEF Busy
<1>6. e.kind = "group" \/ (e.kind = "held" /\ e.m \in Macros)
      \/ (e.kind = "args" /\ e.m \in Macros /\ e.held \in BOOLEAN)
  BY DEF CallSet
<1> HIDE DEF e
<1> DEFINE a(m) == One(e.kind # "group" /\ e.m = m)  h(m) == One(e.kind = "args" /\ e.m = m /\ e.held)
<1>7. \A m \in Macros : Busy(d, k + 1, l, j)[m] = Busy(c, k, l, j)[m] + a(m) + h(m)
  <2> TAKE m \in Macros
  <2>1. /\ Busy(d, k + 1, l, j)[m] = Cardinality(CallM(d, k + 1, m)) + Cardinality(HeldM(d, k + 1, m))
                                     + Cardinality(ReadM(l, j, m))
        /\ Busy(c, k, l, j)[m] = Cardinality(CallM(c, k, m)) + Cardinality(HeldM(c, k, m))
                                 + Cardinality(ReadM(l, j, m))
    BY DEF Busy
  <2>2. a(m) \in Nat /\ h(m) \in Nat
    BY DEF One
  <2>3. Cardinality(CallM(d, k + 1, m)) = Cardinality(CallM(c, k, m)) + a(m)
        /\ Cardinality(HeldM(d, k + 1, m)) = Cardinality(HeldM(c, k, m)) + h(m)
    BY <1>1, <1>2
  <2>4. Cardinality(CallM(c, k, m)) \in Nat /\ Cardinality(HeldM(c, k, m)) \in Nat
        /\ Cardinality(ReadM(l, j, m)) \in Nat
    BY <1>1, <1>2, <1>3
  <2> HIDE DEF a, h
  <2> QED BY <2>1, <2>2, <2>3, <2>4
<1>8. ASSUME e.kind = "group" PROVE Busy(d, k + 1, l, j) = Busy(c, k, l, j)
  <2>1. \A m \in Macros : a(m) = 0 /\ h(m) = 0
    BY <1>8 DEF One
  <2> HIDE DEF a, h
  <2>2. \A m \in Macros : Busy(d, k + 1, l, j)[m] = Busy(c, k, l, j)[m]
    BY <1>4, <1>7, <2>1
  <2> QED BY <1>4, <2>2
<1>9. ASSUME e.kind # "group"
      PROVE  /\ e.m \in Macros /\ Share(e) \in Int
             /\ Busy(d, k + 1, l, j) = Shift(Busy(c, k, l, j), e.m, Share(e))
             /\ Busy(c, k, l, j) = Shift(Busy(d, k + 1, l, j), e.m, -Share(e))
  <2>1. e.m \in Macros /\ Share(e) \in Int
    BY <1>6, <1>9 DEF Share
  <2>2. \A n \in Macros : a(n) + h(n) = (IF n = e.m THEN Share(e) ELSE 0)
    BY <1>6, <1>9 DEF One, Share
  <2> DEFINE x == Busy(c, k, l, j)  z == Busy(d, k + 1, l, j)
  <2>3. \A n \in Macros : z[n] = x[n] + (IF n = e.m THEN Share(e) ELSE 0)
    <3> TAKE n \in Macros
    <3>1. a(n) \in Nat /\ h(n) \in Nat /\ x[n] \in Nat
      BY <1>4 DEF One
    <3> DEFINE f == IF n = e.m THEN Share(e) ELSE 0
    <3>2. a(n) + h(n) = f
      BY <2>2
    <3>3. z[n] = x[n] + a(n) + h(n)
      BY <1>7
    <3> HIDE DEF a, h, x, z, f
    <3>4. z[n] = x[n] + f
      BY <3>1, <3>2, <3>3
    <3> QED BY <3>4 DEF f
  <2>4. x \in [Macros -> Int] /\ z \in [Macros -> Int]
    BY <1>4
  <2> HIDE DEF x, z, a, h
  <2>5. z = Shift(x, e.m, Share(e)) /\ x = Shift(z, e.m, -Share(e))
    BY <2>1, <2>3, <2>4, ShiftIs
  <2> QED BY <2>1, <2>5 DEF x, z
<1> QED BY <1>5, <1>8, <1>9 DEF e

LEMMA BusySame ==
  ASSUME NEW c, NEW d, NEW k, Agree(c, d, k), NEW l, NEW j \in Nat
  PROVE  Busy(d, k, l, j) = Busy(c, k, l, j)
<1>1. \A m : CallM(d, k, m) = CallM(c, k, m) /\ HeldM(d, k, m) = HeldM(c, k, m)
  BY DEF CallM, HeldM, Agree
<1> QED BY <1>1 DEF Busy

LEMMA BusyGroup ==
  ASSUME NEW c, NEW d, NEW k, Agree(c, d, k), NEW l, NEW j \in Nat,
         d[k + 1] \in CallSet, d[k + 1].kind = "group"
  PROVE  Busy(d, k + 1, l, j) = Busy(c, k, l, j)
  BY BusyEither

LEMMA BusyCall ==
  ASSUME NEW c, NEW d, NEW k, Agree(c, d, k), NEW l, NEW j \in Nat,
         d[k + 1] \in CallSet, d[k + 1].kind # "group"
  PROVE  /\ d[k + 1].m \in Macros /\ Share(d[k + 1]) \in Int
         /\ Busy(d, k + 1, l, j) = Shift(Busy(c, k, l, j), d[k + 1].m, Share(d[k + 1]))
         /\ Busy(c, k, l, j) = Shift(Busy(d, k + 1, l, j), d[k + 1].m, -Share(d[k + 1]))
  BY BusyEither

\* An input level more.
LEMMA BusyRead ==
  ASSUME NEW c, NEW k \in Nat, NEW l, NEW p, NEW j, Agree(l, p, j),
         p[j + 1] \in Macros
  PROVE  /\ Busy(c, k, p, j) = Busy(c, k, l, j)
         /\ Busy(c, k, p, j + 1) = Shift(Busy(c, k, l, j), p[j + 1], 1)
         /\ Busy(c, k, l, j) = Shift(Busy(c, k, p, j + 1), p[j + 1], -1)
<1>0. j \in Nat /\ \A i \in 1..j : p[i] = l[i]
  BY DEF Agree
<1> DEFINE x == Busy(c, k, l, j)  z == Busy(c, k, p, j + 1)  q == p[j + 1]
<1>1. x \in [Macros -> Int] /\ z \in [Macros -> Int] /\ q \in Macros
  <2>1. j + 1 \in Nat
    BY <1>0
  <2>2. x \in [Macros -> Nat] /\ z \in [Macros -> Nat]
    BY <1>0, <2>1, TallyTypes
  <2> QED BY <2>2
<1>2. \A m : /\ ReadM(p, j, m) = ReadM(l, j, m) /\ Cardinality(ReadM(l, j, m)) \in Nat
             /\ Cardinality(ReadM(p, j + 1, m)) = Cardinality(ReadM(l, j, m)) + One(q = m)
  BY <1>0, ReadsStep
<1>3. Busy(c, k, p, j) = x
  BY <1>2 DEF Busy
<1>4. \A m \in Macros : Cardinality(CallM(c, k, m)) \in Nat /\ Cardinality(HeldM(c, k, m)) \in Nat
  <2>1. \A i \in 1..k : c[i] = c[i]
    OBVIOUS
  <2> QED BY <2>1, CallsStep, HeldStep
<1>5. \A n \in Macros : z[n] = x[n] + (IF n = q THEN 1 ELSE 0)
  <2> TAKE n \in Macros
  <2>1. One(q = n) = IF n = q THEN 1 ELSE 0
    BY DEF One
  <2> HIDE DEF q
  <2>2. /\ z[n] = Cardinality(CallM(c, k, n)) + Cardinality(HeldM(c, k, n)) + Cardinality(ReadM(p, j + 1, n))
        /\ x[n] = Cardinality(CallM(c, k, n)) + Cardinality(HeldM(c, k, n)) + Cardinality(ReadM(l, j, n))
    BY DEF Busy
  <2> HIDE DEF x, z
  <2> DEFINE f == IF n = q THEN 1 ELSE 0
  <2>3. f \in Nat /\ Cardinality(ReadM(p, j + 1, n)) = Cardinality(ReadM(l, j, n)) + f
    BY <1>2, <2>1
  <2> HIDE DEF f
  <2>4. z[n] = x[n] + f
    BY <1>2, <1>4, <2>2, <2>3
  <2> QED BY <2>4 DEF f
<1> HIDE DEF x, z, q
<1>6. 1 \in Int
  OBVIOUS
<1>7. z = Shift(x, q, 1) /\ x = Shift(z, q, -1)
  BY <1>1, <1>5, <1>6, ShiftIs
<1> QED BY <1>3, <1>7 DEF x, z, q

\* A shift among the others is one of all.
LEMMA OthersShift ==
  ASSUME NEW st, NEW n \in Nat, NEW b \in [Macros -> Int], NEW m \in Macros, NEW d \in Int
  PROVE  Others(st, n, Shift(b, m, d)) = Shift(Others(st, n, b), m, d)
<1> DEFINE x == Others(st, n, b)  z == Others(st, n, Shift(b, m, d))
<1>1. \A k \in Macros : Cardinality(SavM(st, n, k)) \in Nat
  <2>1. \A i \in 1..n : st[i] = st[i]
    OBVIOUS
  <2> QED BY <2>1, SavedMacros
<1>2. Shift(b, m, d) \in [Macros -> Int]
      /\ \A k \in Macros : Shift(b, m, d)[k] = b[k] + (IF k = m THEN d ELSE 0)
  BY DEF Shift
<1>3. x \in [Macros -> Int] /\ z \in [Macros -> Int]
  BY <1>1, <1>2 DEF Others
<1>4. \A k \in Macros : z[k] = x[k] + (IF k = m THEN d ELSE 0)
  BY <1>1, <1>2 DEF Others
<1> HIDE DEF x, z
<1>5. z = Shift(x, m, d)
  BY <1>3, <1>4, ShiftIs
<1> QED BY <1>5 DEF x, z

\* Two shifts at one macro.
LEMMA ShiftTwice ==
  ASSUME NEW x \in [Macros -> Int], NEW m \in Macros, NEW c \in Int, NEW d \in Int
  PROVE  /\ Shift(Shift(x, m, c), m, d) = Shift(x, m, c + d) /\ Shift(x, m, c) \in [Macros -> Int]
         /\ Shift(x, m, 0) = x
<1>1. Shift(x, m, c) \in [Macros -> Int] /\ Shift(Shift(x, m, c), m, d) \in [Macros -> Int]
      /\ Shift(x, m, 0) \in [Macros -> Int] /\ Shift(x, m, c + d) \in [Macros -> Int]
  BY DEF Shift
<1>2. \A n \in Macros : Shift(Shift(x, m, c), m, d)[n] = Shift(x, m, c + d)[n]
  BY DEF Shift
<1>3. \A n \in Macros : Shift(x, m, 0)[n] = x[n]
  BY DEF Shift
<1>4. Shift(Shift(x, m, c), m, d) = Shift(x, m, c + d)
  BY <1>1, <1>2
<1> QED BY <1>1, <1>3, <1>4

\* The last levels end, and the tables count those that stay.
IsGone(c, t, N, M) ==
    c = [j \in 0..M |-> IF j = 0 THEN t ELSE delete_mac_ref(c[j - 1], input[N - j + 1])]

LEMMA GoneDefined ==
  ASSUME NEW t, NEW N, NEW M \in Nat
  PROVE  \E c : IsGone(c, t, N, M)
<1> SUFFICES \E c : c = [j \in 0..M |-> IF j = 0 THEN t ELSE delete_mac_ref(c[j - 1], input[N - j + 1])]
  BY DEF IsGone
<1> DEFINE S == {m \in Nat : \E c : c = [j \in 0..m |->
                                 IF j = 0 THEN t ELSE delete_mac_ref(c[j - 1], input[N - j + 1])]}
<1>1. 0 \in S
  <2> DEFINE g == [j \in 0..0 |-> t]
  <2>1. g = [j \in 0..0 |-> IF j = 0 THEN t ELSE delete_mac_ref(g[j - 1], input[N - j + 1])]
    OBVIOUS
  <2> QED BY <2>1
<1>2. \A m \in Nat : m \in S => m + 1 \in S
  <2> TAKE m \in Nat
  <2> HAVE m \in S
  <2>1. PICK c : c = [j \in 0..m |-> IF j = 0 THEN t ELSE delete_mac_ref(c[j - 1], input[N - j + 1])]
    OBVIOUS
  <2> DEFINE g == [j \in 0..(m + 1) |-> IF j <= m THEN c[j] ELSE delete_mac_ref(c[m], input[N - j + 1])]
  <2>2. \A j \in 0..(m + 1) : g[j] = IF j = 0 THEN t ELSE delete_mac_ref(g[j - 1], input[N - j + 1])
    <3> TAKE j \in 0..(m + 1)
    <3>1. CASE j = 0
      BY <2>1, <3>1
    <3>2. CASE j > 0 /\ j <= m
      <4>1. j \in 0..m /\ j - 1 \in 0..m /\ j # 0 /\ j - 1 \in 0..(m + 1) /\ j - 1 <= m
        BY <3>2
      <4>2. c[j] = delete_mac_ref(c[j - 1], input[N - j + 1])
        BY <2>1, <4>1
      <4> QED BY <3>2, <4>1, <4>2
    <3>3. CASE j = m + 1
      BY <3>3
    <3> QED BY <3>1, <3>2, <3>3
  <2>3. g = [j \in 0..(m + 1) |-> IF j = 0 THEN t ELSE delete_mac_ref(g[j - 1], input[N - j + 1])]
    <3>1. g = [j \in 0..(m + 1) |-> g[j]]
      OBVIOUS
    <3> HIDE DEF g
    <3> QED BY <2>2, <3>1
  <2> HIDE DEF g
  <2> QED BY <2>3
<1>3. Nat \subseteq S
  <2> HIDE DEF S
  <2> QED BY <1>1, <1>2, NatSetInduction
<1> QED BY <1>3

LEMMA DepletedFit ==
  ASSUME input \in Seq(Macros), NEW h \in 0..Len(input), NEW t, NEW y, NEW st, NEW n \in Nat,
         NEW c, NEW k \in Nat, Fit(t, Others(st, n, Busy(c, k, input, Len(input))), y)
  PROVE  Fit(Depleted(t, h), Others(st, n, Busy(c, k, input, h)), y)
<1> DEFINE N == Len(input)  M == N - h
           g == CHOOSE f : IsGone(f, t, N, M)
<1>1. N \in Nat /\ h \in Nat /\ h <= N /\ \A i \in 1..N : input[i] \in Macros
  OBVIOUS
<1>2. Depleted(t, h) = g[M]
  BY DEF Depleted, IsGone
<1> HIDE DEF N
<1>3. M \in Nat /\ M = N - h
  BY <1>1
<1> HIDE DEF M
<1>4. g = [j \in 0..M |-> IF j = 0 THEN t ELSE delete_mac_ref(g[j - 1], input[N - j + 1])]
  <2>1. M \in Nat
    BY <1>3
  <2>2. IsGone(g, t, N, M)
    BY <2>1, GoneDefined
  <2> QED BY <2>2 DEF IsGone
<1> HIDE DEF g
<1> DEFINE Right(j) == Fit(g[j], Others(st, n, Busy(c, k, input, N - j)), y)
           S == {j \in Nat : j <= M => Right(j)}
<1>5. 0 \in S
  <2>1. g[0] = t /\ N - 0 = N
    BY <1>1, <1>3, <1>4
  <2> QED BY <2>1 DEF N
<1>6. ASSUME NEW j \in Nat, j \in S PROVE j + 1 \in S
  <2> SUFFICES ASSUME j + 1 <= M PROVE Right(j + 1)
    OBVIOUS
  <2> DEFINE i == N - (j + 1)
  <2>1. /\ j <= M /\ i \in Nat /\ i + 1 = N - j /\ i + 1 \in 1..N
        /\ j + 1 \in 0..M /\ j + 1 # 0 /\ (j + 1) - 1 = j /\ N - (j + 1) + 1 = i + 1
    BY <1>1, <1>3
  <2>2. g[j + 1] = delete_mac_ref(g[j], input[i + 1])
    BY <1>4, <2>1
  <2>3. Right(j)
    BY <1>6, <2>1
  <2>4. Fit(g[j], Others(st, n, Busy(c, k, input, i + 1)), y)
    BY <2>1, <2>3
  <2>5. input[i + 1] \in Macros
    BY <1>1, <2>1
  <2> HIDE DEF i, S
  <2> DEFINE m == input[i + 1]  b == Busy(c, k, input, i + 1)
  <2>6. Busy(c, k, input, i) = Shift(b, m, -1)
    <3>1. Agree(input, input, i)
      BY <2>1 DEF Agree
    <3> QED BY <2>1, <2>5, <3>1, BusyRead
  <2>7. b \in [Macros -> Int]
    <3>1. i + 1 \in Nat
      BY <2>1
    <3>2. b \in [Macros -> Nat]
      BY <3>1, TallyTypes
    <3> QED BY <3>2
  <2> HIDE DEF b, m
  <2>8. Others(st, n, Busy(c, k, input, i)) = Shift(Others(st, n, b), m, -1)
    <3>1. -1 \in Int /\ m \in Macros
      BY <2>5 DEF m
    <3> QED BY <2>6, <2>7, <3>1, OthersShift
  <2>9. Fit(delete_mac_ref(g[j], m), Shift(Others(st, n, b), m, -1), y)
    BY <2>4, <2>5, DelRef DEF b, m
  <2> QED BY <2>2, <2>8, <2>9 DEF m, i
<1>7. Nat \subseteq S
  <2> HIDE DEF S
  <2> QED BY <1>5, <1>6, NatSetInduction
<1>8. Right(M) /\ N - M = h
  BY <1>1, <1>3, <1>7
<1> QED BY <1>2, <1>8

-----------------------------------------------------------------------------
(* Statements.                                                             *)

\* A cleared symbol means e instead, which owns no root.
LEMMA NewMeaning ==
  ASSUME NEW t, NEW x, NEW y, Fit(t, x, y), NEW p \in Symbols,
         NEW e \in EntrySet, \A r \in Roots : ~Owns(e, r),
         NEW z \in [Macros -> Int], \A n \in Macros : z[n] = x[n] - One(Holds(e, n))
  PROVE  Fit(SetEqtb(clear_symbol(t, p, FALSE), p, e), z, y)
<1> DEFINE u == clear_symbol(t, p, FALSE)
<1>1. Fit(u, x, y) /\ u.eqtb[p] = frozen_undefined
  BY Clear
<1> HIDE DEF u
<1>2. \A r \in Roots : Owns(e, r) <=> Owns(u.eqtb[p], r)
  <2>1. \A r \in Roots : One(Owns(u.eqtb[p], r)) = 0
    BY <1>1, Frozen
  <2> QED BY <2>1 DEF One
<1>3. \A n \in Macros : z[n] = x[n] + One(Holds(u.eqtb[p], n)) - One(Holds(e, n))
  <2>1. \A n \in Macros : One(Holds(u.eqtb[p], n)) = 0 /\ One(Holds(e, n)) \in Int /\ x[n] \in Int
    BY <1>1, Frozen, OneIs DEF One, Fit
  <2> QED BY <2>1
<1> QED BY <1>1, <1>2, <1>3, SameOwner DEF u

\* A macro that was free is referred to once.
LEMMA FirstRef ==
  ASSUME NEW t, NEW x, NEW y, Fit(t, x, y), NEW m \in Macros, t.mac[m].ref_count = -1, NEW b \in Bodies
  PROVE  LET u == [t EXCEPT !.mac[m] = [ref_count |-> 0, body |-> b]] IN
         Fit(u, Shift(x, m, 1), y) /\ u.eqtb = t.eqtb /\ u.root = t.root
<1> DEFINE c == [ref_count |-> 0, body |-> b]  u == SetMac(t, m, c)
<1>1. t \in TabSet /\ x \in [Macros -> Int] /\ y \in [Roots -> Int] /\ Balanced(t, x) /\ Owned(t, y)
  BY DEF Fit
<1>2. c \in MacSet /\ c.ref_count - t.mac[m].ref_count = 1
  BY DEF MacSet
<1>3. [t EXCEPT !.mac[m] = [ref_count |-> 0, body |-> b]] = u
  BY DEF SetMac
<1> HIDE DEF c
<1>4. Balanced(u, Shift(x, m, 1)) /\ Owned(u, y)
  <2>1. Balanced(u, Shift(x, m, c.ref_count - t.mac[m].ref_count)) /\ Owned(u, y)
    BY <1>1, <1>2, NewMac
  <2> QED BY <1>2, <2>1
<1>5. u \in TabSet /\ u.eqtb = t.eqtb /\ u.root = t.root
  BY <1>1, <1>2, MacSet1
<1>6. Shift(x, m, 1) \in [Macros -> Int]
  BY <1>1 DEF Shift
<1> HIDE DEF u
<1> QED BY <1>1, <1>3, <1>4, <1>5, <1>6 DEF Fit

\* A shift by one, undone by an entry that holds the macro.
LEMMA ShiftHolds ==
  ASSUME NEW x \in [Macros -> Int], NEW m \in Macros
  PROVE  /\ \A e : Holds(e, m) => \A n \in Macros : x[n] = Shift(x, m, 1)[n] - One(Holds(e, n))
         /\ \A n \in Macros : x[n] = Shift(x, m, 1)[n] - One(m = n)
<1>1. \A n \in Macros : x[n] \in Int /\ Shift(x, m, 1)[n] = x[n] + One(m = n) /\ One(m = n) \in Int
  BY DEF Shift, One
<1>2. ASSUME NEW e, Holds(e, m), NEW n \in Macros PROVE One(Holds(e, n)) = One(m = n)
  BY <1>2 DEF Holds, One
<1>3. \A n \in Macros : x[n] = Shift(x, m, 1)[n] - One(m = n)
  BY <1>1
<1>4. ASSUME NEW e, Holds(e, m), NEW n \in Macros PROVE x[n] = Shift(x, m, 1)[n] - One(Holds(e, n))
  BY <1>2, <1>3, <1>4
<1> QED BY <1>3, <1>4

\* No symbol holds macro m, and no root is a vardef of it.
Unused(t, m) == (\A q \in Symbols : ~Holds(t.eqtb[q], m)) /\ (\A r \in Roots : t.root[r].value # m)

\* Then it is free if nothing else holds it, and a free macro is not used.
LEMMA UnusedIs ==
  ASSUME NEW t, NEW x, NEW y, Fit(t, x, y), NEW m \in Macros, x[m] \in Nat
  PROVE  /\ t.mac[m].ref_count = -1 => Unused(t, m) /\ x[m] = 0
         /\ Unused(t, m) /\ x[m] = 0 => t.mac[m].ref_count = -1
<1> DEFINE A == NowM(t, m)  B == DefM(t, m)  f == t.mac[m].ref_count
<1>1. t \in TabSet /\ Balanced(t, x)
  BY DEF Fit
<1>2. Cardinality(A) \in Nat /\ Cardinality(B) \in Nat /\ f \in Int
      /\ f + 1 = Cardinality(A) + Cardinality(B) + x[m]
  BY <1>1, HolderSizes, TabIs DEF Balanced
<1>3. IsFiniteSet(A) /\ IsFiniteSet(B)
  <2>1. A \in SUBSET Symbols /\ B \in SUBSET Roots /\ IsFiniteSet(Symbols) /\ IsFiniteSet(Roots)
    BY SaveStackAssumption DEF SaveStackAssumption, NowM, DefM
  <2> HIDE DEF A, B
  <2> QED BY <2>1, FS_Subset
<1>4. (Cardinality(A) = 0 <=> A = {}) /\ (Cardinality(B) = 0 <=> B = {})
  <2> HIDE DEF A, B
  <2> QED BY <1>3, FS_EmptySet
<1>5. Unused(t, m) <=> A = {} /\ B = {}
  BY DEF Unused, NowM, DefM
<1> HIDE DEF A, B, f
<1>6. f = -1 <=> Cardinality(A) = 0 /\ Cardinality(B) = 0 /\ x[m] = 0
  <2> DEFINE a == Cardinality(A)  b == Cardinality(B)  c == x[m]
  <2>1. a \in Nat /\ b \in Nat /\ c \in Nat /\ f \in Int /\ f + 1 = a + b + c
    BY <1>2
  <2> HIDE DEF a, b, c
  <2>2. f = -1 <=> a = 0 /\ b = 0 /\ c = 0
    BY <2>1
  <2> QED BY <2>2 DEF a, b, c
<1> QED BY <1>4, <1>5, <1>6 DEF f

\* The variable of a declaration.
LEMMA DeclaredFit ==
  ASSUME NEW x, NEW y, Fit(tab, x, y), NEW q \in Symbols, NEW t \in declared_variables(q)
  PROVE  /\ Fit(t, x, y) /\ t.eqtb[q].equiv \in Roots
         /\ \A m \in Macros : Unused(tab, m) => Unused(t, m)
<1> DEFINE u == IF tab.eqtb[q].eq_type # "tag" THEN clear_symbol(tab, q, FALSE) ELSE tab
           d == u.eqtb[q]
<1>1. t \in IF d.equiv # null THEN {u}
            ELSE {[u EXCEPT !.root[r] = [name_type |-> "root", value |-> "plain"],
                            !.eqtb[q].equiv = r] : r \in FreshRoots}
  BY DEF declared_variables
<1>2. /\ Fit(u, x, y) /\ d.eq_type = "tag" /\ \A m \in Macros : Unused(tab, m) => Unused(u, m)
      /\ \A r \in Roots : tab.root[r] = FreeRoot => u.root[r] = FreeRoot
  <2>1. CASE tab.eqtb[q].eq_type # "tag"
    <3> DEFINE v == clear_symbol(tab, q, FALSE)
    <3>1. /\ Fit(v, x, y) /\ v.eqtb[q] = frozen_undefined
          /\ \A n \in Symbols : n # q => v.eqtb[n] = tab.eqtb[n]
          /\ \A r \in Roots : v.root[r] \in {tab.root[r], FreeRoot}
      BY Clear
    <3>2. u = v
      BY <2>1
    <3> HIDE DEF u, v
    <3>3. frozen_undefined.eq_type = "tag" /\ FreeRoot.value = null
      BY DEF frozen_undefined, Entry, FreeRoot
    <3>4. ASSUME NEW m \in Macros, Unused(tab, m) PROVE Unused(u, m)
      <4>1. m # null
        BY SaveStackAssumption DEF SaveStackAssumption, null
      <4>2. ~Holds(frozen_undefined, m)
        BY <3>3 DEF Holds
      <4>3. \A n \in Symbols : ~Holds(u.eqtb[n], m)
        BY <3>1, <3>2, <3>4, <4>2 DEF Unused
      <4>4. \A r \in Roots : u.root[r].value # m
        BY <3>1, <3>2, <3>3, <3>4, <4>1 DEF Unused
      <4> QED BY <4>3, <4>4 DEF Unused
    <3> QED BY <3>1, <3>2, <3>3, <3>4
  <2>2. CASE tab.eqtb[q].eq_type = "tag"
    BY <2>2
  <2> QED BY <2>1, <2>2
<1> HIDE DEF u
<1>3. u \in TabSet /\ x \in [Macros -> Int] /\ y \in [Roots -> Int] /\ Owned(u, y)
  BY <1>2 DEF Fit
<1>4. d \in EntrySet /\ d.equiv \in Roots \cup {null}
  <2>1. d \in EntrySet
    BY <1>3, TabIs
  <2> HIDE DEF d
  <2> QED BY <1>2, <2>1, EntryIs
<1>5. CASE d.equiv # null
  BY <1>1, <1>2, <1>4, <1>5
<1>6. CASE d.equiv = null
  <2> DEFINE c == [name_type |-> "root", value |-> "plain"]
  <2>1. PICK r \in FreshRoots : t = [u EXCEPT !.root[r] = c, !.eqtb[q].equiv = r]
    BY <1>1, <1>6
  <2>2. r \in Roots /\ u.root[r] = FreeRoot
    BY <1>2, <2>1 DEF FreshRoots, LiveRoots
  <2> DEFINE e == [d EXCEPT !.equiv = r]  v == SetEqtb(u, q, e)
  <2>3. e \in EntrySet /\ e.eq_type = "tag" /\ e.equiv = r
    <3> HIDE DEF d
    <3> QED BY <1>2, <1>4, <2>2 DEF EntrySet
  <2>4. t = SetRoot(v, r, c)
    BY <2>1 DEF SetRoot, SetEqtb
  <2>5. c \in RootSet /\ c.name_type = "root" /\ c.value = "plain"
    BY DEF RootSet
  <2>6. \A m \in Macros : m # "plain" /\ m # null
    BY SaveStackAssumption DEF SaveStackAssumption, null
  <2>7. FreeRoot.name_type = "free" /\ FreeRoot.value = null
    BY DEF FreeRoot
  <2> HIDE DEF c, e
  <2>8. /\ v \in TabSet /\ v.root = u.root /\ v.eqtb[q] = e
        /\ \A n \in Symbols : n # q => v.eqtb[n] = u.eqtb[n]
    BY <1>3, <2>3, EqtbSet1
  <2> HIDE DEF v
  <2>9. /\ t \in TabSet /\ t.eqtb = v.eqtb /\ t.root[r] = c
        /\ \A n \in Roots : n # r => t.root[n] = v.root[n]
    BY <2>2, <2>4, <2>5, <2>8, RootSet1
  <2>10. (\A n \in Roots : ~Owns(d, n)) /\ (\A m \in Macros : ~Holds(d, m))
    <3>1. \A n \in Roots : n # null
      BY SaveStackAssumption DEF SaveStackAssumption, null
    <3> QED BY <1>2, <1>6, <3>1 DEF Owns, Holds
  <2>11. y[r] = 0
    BY <1>3, <2>2, <2>7 DEF Owned
  <2>12. Fit(t, x, y)
    <3>1. \A m \in Macros : c.value = m <=> u.root[r].value = m
      BY <2>2, <2>5, <2>6, <2>7
    <3>2. u.root[r].name_type # "root"
      BY <2>2, <2>7
    <3> QED BY <1>2, <1>3, <2>2, <2>3, <2>4, <2>5, <2>10, <2>11, <3>1, <3>2, NewOwner DEF v
  <2>13. ASSUME NEW m \in Macros, Unused(tab, m) PROVE Unused(t, m)
    <3>1. Unused(u, m)
      BY <1>2, <2>13
    <3>2. ~Holds(e, m)
      BY <2>3 DEF Holds
    <3>3. \A n \in Symbols : ~Holds(t.eqtb[n], m)
      BY <2>8, <2>9, <3>1, <3>2 DEF Unused
    <3>4. \A n \in Roots : t.root[n].value # m
      BY <2>5, <2>6, <2>8, <2>9, <3>1 DEF Unused
    <3> QED BY <3>3, <3>4 DEF Unused
  <2>14. t.eqtb[q].equiv \in Roots
    BY <2>2, <2>3, <2>8, <2>9
  <2> QED BY <2>12, <2>13, <2>14
<1> QED BY <1>5, <1>6

\* What the statements that only write the tables make of them.
LEMMA DefineMacroFit ==
  ASSUME NEW x \in [Macros -> Nat], NEW y, Fit(tab, x, y), NEW q \in Symbols, NEW b \in Bodies,
         DefineMacro(q, b)
  PROVE  Fit(tab', x, y)
<1>1. PICK m \in FreshMacros :
          LET t == clear_symbol([tab EXCEPT !.mac[m] = [ref_count |-> 0, body |-> b]], q, FALSE)
          IN  tab' = [t EXCEPT !.eqtb[q] = Entry("macro", m)]
  BY DEF DefineMacro
<1> DEFINE s == [tab EXCEPT !.mac[m] = [ref_count |-> 0, body |-> b]]  e == Entry("macro", m)
           t == clear_symbol(s, q, FALSE)  z == Shift(x, m, 1)
<1>2. m \in Macros /\ tab.mac[m].ref_count = -1
  BY DEF FreshMacros, Live, FreeMac
<1>3. Fit(s, z, y)
  BY <1>2, FirstRef
<1>4. tab' = SetEqtb(t, q, e)
  BY <1>1 DEF SetEqtb
<1>5. e \in EntrySet /\ Holds(e, m) /\ \A r \in Roots : ~Owns(e, r)
  BY <1>2 DEF Entry, EntrySet, Holds, Owns
<1>6. x \in [Macros -> Int]
  OBVIOUS
<1> HIDE DEF s, e, z
<1>7. \A n \in Macros : x[n] = z[n] - One(Holds(e, n))
  BY <1>2, <1>5, <1>6, ShiftHolds DEF z
<1> QED BY <1>3, <1>4, <1>5, <1>6, <1>7, NewMeaning

LEMMA TypeFit ==
  ASSUME NEW x, NEW y, Fit(tab, x, y), NEW q \in Symbols, do_type_declaration(q)
  PROVE  Fit(tab', x, y)
<1>1. PICK t \in declared_variables(q) : tab' = recycle_value(t, t.eqtb[q].equiv)
  BY DEF do_type_declaration
<1>2. Fit(t, x, y) /\ t.eqtb[q].equiv \in Roots
  BY DeclaredFit
<1> QED BY <1>1, <1>2, Recycle

LEMMA VarDefFit ==
  ASSUME NEW x \in [Macros -> Nat], NEW y, Fit(tab, x, y), NEW q \in Symbols, NEW b \in Bodies,
         VarDef(q, b)
  PROVE  Fit(tab', x, y)
<1>1. PICK t \in declared_variables(q), m \in FreshMacros :
          tab' = [recycle_value(t, t.eqtb[q].equiv) EXCEPT !.mac[m] = [ref_count |-> 0, body |-> b],
                                                           !.root[t.eqtb[q].equiv].value = m]
  BY DEF VarDef
<1> DEFINE r == t.eqtb[q].equiv  u == recycle_value(t, r)
           v == [u EXCEPT !.mac[m] = [ref_count |-> 0, body |-> b]]  old == u.root[r]
           c == [old EXCEPT !.value = m]
<1>2. m \in Macros /\ tab.mac[m].ref_count = -1
  BY DEF FreshMacros, Live, FreeMac
<1>3. Unused(tab, m) /\ x[m] = 0 /\ x[m] \in Nat /\ x \in [Macros -> Int]
  BY <1>2, UnusedIs
<1>4. Fit(t, x, y) /\ r \in Roots /\ Unused(t, m)
  BY <1>2, <1>3, DeclaredFit
<1> HIDE DEF r
<1>5. /\ Fit(u, x, y) /\ u.eqtb = t.eqtb /\ u.root[r].value = "plain"
      /\ \A n \in Roots : n # r => u.root[n] = t.root[n]
  BY <1>4, Recycle
<1> HIDE DEF u
<1>6. \A n \in Macros : n # "plain"
  BY SaveStackAssumption DEF SaveStackAssumption
<1>7. u.mac[m].ref_count = -1
  <2>1. Unused(u, m)
    BY <1>2, <1>4, <1>5, <1>6 DEF Unused
  <2> QED BY <1>2, <1>3, <1>5, <2>1, UnusedIs
<1>8. Fit(v, Shift(x, m, 1), y) /\ v.eqtb = u.eqtb /\ v.root = u.root
  BY <1>2, <1>5, <1>7, FirstRef
<1>9. u \in TabSet /\ old \in RootSet /\ y \in [Roots -> Int]
  <2>1. u \in TabSet /\ y \in [Roots -> Int]
    BY <1>5 DEF Fit
  <2> QED BY <1>4, <2>1, TabIs
<1>10. c \in RootSet /\ c.value = m /\ c.name_type = old.name_type
  <2> HIDE DEF old
  <2> QED BY <1>2, <1>9 DEF RootSet
<1>11. tab' = SetRoot(v, r, c)
  BY <1>1, <1>8 DEF SetRoot, r, u
<1> HIDE DEF v, c
<1> DEFINE z == Shift(x, m, 1)
<1>12. v \in TabSet /\ z \in [Macros -> Int] /\ Balanced(v, z) /\ Owned(v, y)
  BY <1>8 DEF Fit
<1>13. \A n \in Macros : x[n] = z[n] + One(v.root[r].value = n) - One(c.value = n)
  <2>1. \A n \in Macros : One(v.root[r].value = n) = 0
    BY <1>5, <1>6, <1>8 DEF One
  <2>2. \A n \in Macros : x[n] = z[n] - One(m = n)
    BY <1>2, <1>3, ShiftHolds
  <2>3. \A n \in Macros : One(m = n) \in Int /\ z[n] \in Int
    BY <1>12, OneIs DEF One
  <2> HIDE DEF z
  <2> QED BY <1>10, <2>1, <2>2, <2>3
<1> HIDE DEF z
<1>14. Balanced(tab', x)
  BY <1>4, <1>10, <1>11, <1>12, <1>13, NewRoot
<1> DEFINE w == SetRoot(v, r, c)
<1>15. /\ w \in TabSet /\ w.eqtb = v.eqtb /\ w.root[r] = c
       /\ \A n \in Roots : n # r => w.root[n] = v.root[n]
  BY <1>4, <1>10, <1>12, RootSet1
<1>16. Owned(w, y)
  <2>1. \A n \in Roots : w.root[n].name_type = v.root[n].name_type
    BY <1>8, <1>10, <1>15
  <2> HIDE DEF w
  <2> QED BY <1>12, <1>15, <2>1, SameTypes
<1> QED BY <1>3, <1>9, <1>11, <1>14, <1>15, <1>16 DEF Fit

LEMMA LetFit ==
  ASSUME NEW x \in [Macros -> Int], NEW y, Fit(tab, x, y), NEW l \in Symbols, NEW r \in Symbols, do_let(l, r)
  PROVE  Fit(tab', x, y)
<1> DEFINE e == tab.eqtb[r]  t == IF e.eq_type = "macro" THEN add_mac_ref(tab, e.equiv) ELSE tab
           d == IF e.eq_type = "tag" THEN Entry("tag", null) ELSE Entry(e.eq_type, e.equiv)
           u == clear_symbol(t, l, FALSE)
<1>1. tab' = SetEqtb(u, l, d)
  BY DEF do_let, SetEqtb
<1>2. e \in EntrySet
  <2>1. tab \in TabSet
    BY DEF Fit
  <2> QED BY <2>1, TabIs
<1>3. /\ e.eq_type \in {"tag", "macro", "internal"}
      /\ e.eq_type = "macro" => e.equiv \in Macros
      /\ e.eq_type = "internal" => e.equiv \in Internals
  <2> HIDE DEF e
  <2> QED BY <1>2, EntryIs
<1>4. d \in EntrySet /\ \A n \in Roots : ~Owns(d, n)
  <2>1. \A n \in Roots : n # null
    BY SaveStackAssumption DEF SaveStackAssumption, null
  <2> HIDE DEF e
  <2>2. CASE e.eq_type = "tag"
    BY <2>1, <2>2 DEF Entry, EntrySet, Owns
  <2>3. CASE e.eq_type = "macro"
    BY <1>3, <2>3 DEF Entry, EntrySet, Owns
  <2>4. CASE e.eq_type = "internal"
    BY <1>3, <2>4 DEF Entry, EntrySet, Owns
  <2> QED BY <1>3, <2>2, <2>3, <2>4
<1>5. CASE e.eq_type = "macro"
  <2> DEFINE m == e.equiv  z == Shift(x, m, 1)
  <2>1. m \in Macros /\ t = add_mac_ref(tab, m)
    BY <1>3, <1>5
  <2>2. Fit(t, z, y)
    <3> HIDE DEF t, m
    <3> QED BY <2>1, AddRef
  <2>3. Holds(d, m)
    BY <1>5 DEF Holds, Entry
  <2> HIDE DEF m, d, t
  <2>4. \A n \in Macros : x[n] = z[n] - One(Holds(d, n))
    BY <2>1, <2>3, ShiftHolds
  <2> HIDE DEF z
  <2> QED BY <1>1, <1>4, <2>2, <2>4, NewMeaning
<1>6. CASE e.eq_type # "macro"
  <2>1. t = tab
    BY <1>6
  <2>2. \A n \in Macros : ~Holds(d, n)
    <3> HIDE DEF e
    <3> QED BY <1>6 DEF Holds, Entry
  <2> HIDE DEF d, t
  <2>3. \A n \in Macros : x[n] = x[n] - One(Holds(d, n))
    <3>1. \A n \in Macros : One(Holds(d, n)) = 0 /\ x[n] \in Int
      BY <2>2 DEF One
    <3> QED BY <3>1
  <2> QED BY <1>1, <1>4, <2>1, <2>3, NewMeaning
<1> QED BY <1>5, <1>6

LEMMA ProtectionFit ==
  ASSUME NEW x, NEW y, Fit(tab, x, y), NEW q \in Symbols, NEW m \in BOOLEAN, do_protection(q, m)
  PROVE  Fit(tab', x, y)
<1> DEFINE d == tab.eqtb[q]  e == [d EXCEPT !.outer = m]
<1>1. tab \in TabSet /\ x \in [Macros -> Int]
  BY DEF Fit
<1>2. d \in EntrySet
  BY <1>1, TabIs
<1>3. e \in EntrySet /\ e.eq_type = d.eq_type /\ e.equiv = d.equiv
  <2> HIDE DEF d
  <2> QED BY <1>2 DEF EntrySet
<1>4. tab' = SetEqtb(tab, q, e)
  BY DEF do_protection, SetEqtb
<1> HIDE DEF e
<1>5. (\A r \in Roots : Owns(e, r) <=> Owns(d, r)) /\ (\A n \in Macros : Holds(e, n) <=> Holds(d, n))
  BY <1>3 DEF Owns, Holds
<1>6. \A n \in Macros : x[n] = x[n] + One(Holds(d, n)) - One(Holds(e, n))
  <2>1. \A n \in Macros : One(Holds(d, n)) = One(Holds(e, n)) /\ One(Holds(e, n)) \in Int /\ x[n] \in Int
    BY <1>1, <1>5, OneIs DEF One
  <2> QED BY <2>1
<1> QED BY <1>1, <1>3, <1>4, <1>5, <1>6, SameOwner

LEMMA NewInternalFit ==
  ASSUME NEW x, NEW y, Fit(tab, x, y), NEW q \in Symbols, do_new_internal(q)
  PROVE  Fit(tab', x, y)
<1>1. PICK i \in FreshInternals : tab' = [clear_symbol(tab, q, FALSE) EXCEPT !.eqtb[q] = Entry("internal", i)]
  BY DEF do_new_internal
<1> DEFINE e == Entry("internal", i)
<1>2. e \in EntrySet /\ \A r \in Roots : ~Owns(e, r)
  <2>1. i \in Internals
    BY DEF FreshInternals
  <2> QED BY <2>1 DEF Entry, EntrySet, Owns
<1>3. x \in [Macros -> Int] /\ \A n \in Macros : x[n] = x[n] - One(Holds(e, n))
  <2>1. \A n \in Macros : One(Holds(e, n)) = 0
    BY DEF Holds, Entry, One
  <2>2. x \in [Macros -> Int]
    BY DEF Fit
  <2> HIDE DEF e
  <2> QED BY <2>1, <2>2
<1>4. tab' = SetEqtb(clear_symbol(tab, q, FALSE), q, e)
  BY <1>1 DEF SetEqtb
<1> HIDE DEF e
<1> QED BY <1>2, <1>3, <1>4, NewMeaning

-----------------------------------------------------------------------------
(* Steps.                                                                  *)

\* The numbers that the invariant is about.
LEMMA Numbers ==
  ASSUME SInv
  PROVE  /\ Len(save_ptr) \in Nat /\ Len(calls) \in Nat /\ Len(input) \in Nat
         /\ Busy(calls, Len(calls), input, Len(input)) \in [Macros -> Nat]
         /\ Others(save_ptr, Len(save_ptr), Busy(calls, Len(calls), input, Len(input))) \in [Macros -> Nat]
         /\ SavedRoots(save_ptr, Len(save_ptr)) \in [Roots -> Nat]
<1>1. Len(save_ptr) \in Nat /\ Len(calls) \in Nat /\ Len(input) \in Nat
  BY ListHas DEF SInv, STypes
<1>2. Busy(calls, Len(calls), input, Len(input)) \in [Macros -> Nat]
  BY <1>1, TallyTypes
<1>3. Others(save_ptr, Len(save_ptr), Busy(calls, Len(calls), input, Len(input))) \in [Macros -> Nat]
      /\ SavedRoots(save_ptr, Len(save_ptr)) \in [Roots -> Nat]
  BY <1>1, <1>2, TallyTypes
<1> QED BY <1>1, <1>2, <1>3

\* A statement that only writes the tables.
LEMMA Statement ==
  ASSUME SInv, UNCHANGED <<save_ptr, calls, input>>,
         \A x \in [Macros -> Nat] : \A y : Fit(tab, x, y) => Fit(tab', x, y)
  PROVE  SInv'
<1>1. STypes' /\ Frames'
  BY DEF SInv, STypes, Frames
<1> DEFINE x == Others(save_ptr, Len(save_ptr), Busy(calls, Len(calls), input, Len(input)))
           y == SavedRoots(save_ptr, Len(save_ptr))
<1>2. Fit(tab, x, y) /\ x \in [Macros -> Nat]
  BY Numbers DEF SInv, Exact
<1>3. Fit(tab', x, y)
  <2> HIDE DEF x, y
  <2> QED BY <1>2
<1>4. Exact'
  BY <1>3 DEF Exact
<1> QED BY <1>1, <1>4 DEF SInv

\* An item more on the save stack that bounds no group.
LEMMA PushItem ==
  ASSUME SInv, UNCHANGED <<calls, input>>, NEW e, save_ptr' = Append(save_ptr, e), save_ptr # <<>>,
         ItemOK(e), e.info # "boundary",
         Fit(tab', Others(save_ptr', Len(save_ptr'), Busy(calls, Len(calls), input, Len(input))),
             SavedRoots(save_ptr', Len(save_ptr')))
  PROVE  SInv'
<1>1. STypes /\ Frames
  BY DEF SInv
<1>2. IsList(save_ptr) /\ Len(save_ptr) \in Nat /\ DOMAIN save_ptr = 1..Len(save_ptr)
      /\ Len(save_ptr) # 0
  BY <1>1, ListHas DEF STypes
<1>3. /\ IsList(save_ptr') /\ Len(save_ptr') = Len(save_ptr) + 1
      /\ save_ptr'[Len(save_ptr) + 1] = e /\ \A i \in 1..Len(save_ptr) : save_ptr'[i] = save_ptr[i]
  BY <1>2, ListPush
<1>4. DOMAIN save_ptr' = 1..(Len(save_ptr) + 1)
  BY <1>3, ListHas
<1>5. STypes'
  <2>1. \A i \in DOMAIN save_ptr' : ItemOK(save_ptr'[i])
    BY <1>1, <1>2, <1>3, <1>4 DEF STypes
  <2> QED BY <1>1, <1>3, <2>1 DEF STypes
<1>6. Frames'
  <2>1. Cardinality(Bounds(save_ptr', Len(save_ptr) + 1)) = Cardinality(Bounds(save_ptr, Len(save_ptr))) + One(e.info = "boundary")
        /\ Cardinality(Bounds(save_ptr, Len(save_ptr))) \in Nat
    <3> DEFINE n == Len(save_ptr)  d == save_ptr'[n + 1]
    <3>1. n \in Nat /\ d = e /\ \A i \in 1..n : save_ptr'[i] = save_ptr[i]
      BY <1>2, <1>3
    <3> HIDE DEF n
    <3>2. Cardinality(Bounds(save_ptr, n)) \in Nat
          /\ Cardinality(Bounds(save_ptr', n + 1)) = Cardinality(Bounds(save_ptr, n)) + One(d.info = "boundary")
      BY ONLY <3>1, BoundsStep
    <3> QED BY <3>1, <3>2 DEF n
  <2>2. One(e.info = "boundary") = 0
    BY DEF One
  <2>3. Cardinality(Bounds(save_ptr', Len(save_ptr'))) = Cardinality(Bounds(save_ptr, Len(save_ptr)))
    BY <1>3, <2>1, <2>2
  <2>4. save_ptr'[1] = save_ptr[1]
    BY <1>2, <1>3
  <2> QED BY <1>1, <2>3, <2>4 DEF Frames
<1>7. Exact'
  BY DEF Exact
<1> QED BY <1>5, <1>6, <1>7 DEF SInv

\* save saves the meaning of a symbol.
LEMMA SaveVariableStep ==
  ASSUME SInv, NEW q \in Variables, save_variable(q)
  PROVE  SInv'
<1>1. q \in Symbols
  BY SaveStackAssumption DEF SaveStackAssumption
<1>2. CASE save_ptr = <<>>
  <2>1. tab' = clear_symbol(tab, q, FALSE) /\ UNCHANGED <<save_ptr, calls, input>>
    BY <1>2 DEF save_variable
  <2>2. ASSUME NEW x \in [Macros -> Nat], NEW y, Fit(tab, x, y) PROVE Fit(tab', x, y)
    BY <1>1, <2>1, <2>2, Clear
  <2> QED BY <2>1, <2>2, Statement
<1>3. CASE save_ptr # <<>>
  <2> DEFINE e == [info |-> "symbol", q |-> q, value |-> tab.eqtb[q]]
             b == Busy(calls, Len(calls), input, Len(input))  n == Len(save_ptr)
             x == Others(save_ptr, n, b)  y == SavedRoots(save_ptr, n)
             z == Others(save_ptr', n + 1, b)  w == SavedRoots(save_ptr', n + 1)
  <2>1. tab' = clear_symbol(tab, q, TRUE) /\ save_ptr' = Append(save_ptr, e) /\ UNCHANGED <<calls, input>>
    <3>1. (save_ptr # <<>>) = TRUE
      BY <1>3
    <3> QED BY <1>3, <3>1 DEF save_variable
  <2>2. /\ n \in Nat /\ b \in [Macros -> Nat] /\ x \in [Macros -> Nat] /\ y \in [Roots -> Nat]
        /\ Fit(tab, x, y) /\ IsList(save_ptr)
    BY Numbers DEF SInv, Exact, STypes
  <2> HIDE DEF e, b
  <2>3. /\ Len(save_ptr') = n + 1 /\ save_ptr'[n + 1] = e /\ \A i \in 1..n : save_ptr'[i] = save_ptr[i]
    BY <2>1, <2>2, ListPush
  <2>4. e.info = "symbol" /\ e.q = q /\ e.value = tab.eqtb[q]
    BY DEF e
  <2>5. ItemOK(e)
    <3>1. tab \in TabSet
      BY <2>2 DEF Fit
    <3> QED BY <1>1, <2>4, <3>1, TabIs DEF ItemOK
  <2> HIDE DEF n
  <2>6. /\ \A m \in Macros : z[m] = x[m] + One(Holds(e.value, m))
        /\ \A r \in Roots : w[r] = y[r] + One(Owns(e.value, r))
    <3> DEFINE d == save_ptr'[n + 1]
    <3>1. d = e /\ d.info = "symbol" /\ n \in Nat /\ b \in [Macros -> Nat]
          /\ Agree(save_ptr, save_ptr', n)
      BY <2>2, <2>3, <2>4 DEF Agree
    <3>2. \A m \in Macros : z[m] = x[m] + One(Holds(d.value, m))
      <4> SUFFICES ASSUME NEW m \in Macros
                   PROVE  Others(save_ptr', n + 1, b)[m]
                          = Others(save_ptr, n, b)[m] + One(Holds(save_ptr'[n + 1].value, m))
        OBVIOUS
      <4> QED BY ONLY <3>1, m \in Macros, OthersSymbol
    <3>3. \A r \in Roots : w[r] = y[r] + One(Owns(d.value, r))
      BY ONLY <3>1, RootsStep
    <3> HIDE DEF d
    <3> QED BY <3>1, <3>2, <3>3
  <2>7. z \in [Macros -> Int] /\ w \in [Roots -> Int]
    <3>1. n + 1 \in Nat
      BY <2>2
    <3>2. z \in [Macros -> Nat] /\ w \in [Roots -> Nat]
      BY <2>2, <3>1, TallyTypes
    <3> QED BY <3>2
  <2> HIDE DEF x, y, z, w
  <2>8. Fit(tab', z, w)
    <3>1. /\ \A m \in Macros : z[m] = x[m] + One(Holds(tab.eqtb[q], m))
          /\ \A r \in Roots : w[r] = y[r] + One(Owns(tab.eqtb[q], r))
      BY <2>4, <2>6
    <3>2. Fit(clear_symbol(tab, q, TRUE), z, w)
      BY <1>1, <2>2, <2>7, <3>1, ClearSaved
    <3> QED BY <2>1, <3>2
  <2>9. Fit(tab', Others(save_ptr', Len(save_ptr'), b), SavedRoots(save_ptr', Len(save_ptr')))
    BY <2>3, <2>8 DEF z, w
  <2> QED BY <1>3, <2>1, <2>4, <2>5, <2>9, PushItem DEF b
<1> QED BY <1>2, <1>3

\* interim saves the value of a quantity.
LEMMA SaveInternalStep ==
  ASSUME SInv, NEW q \in Symbols, save_internal(q)
  PROVE  SInv'
<1> DEFINE i == tab.eqtb[q].equiv  e == [info |-> "internal", q |-> i, value |-> internal[i]]
           b == Busy(calls, Len(calls), input, Len(input))  n == Len(save_ptr)
<1>1. save_ptr' = Append(save_ptr, e) /\ save_ptr # <<>> /\ UNCHANGED <<tab, calls, input>>
  BY DEF save_internal
<1>2. n \in Nat /\ b \in [Macros -> Nat] /\ Fit(tab, Others(save_ptr, n, b), SavedRoots(save_ptr, n))
      /\ IsList(save_ptr)
  BY Numbers DEF SInv, Exact, STypes
<1>3. e.info = "internal" /\ ItemOK(e)
  BY DEF ItemOK
<1> HIDE DEF e, b
<1>4. /\ Len(save_ptr') = n + 1 /\ save_ptr'[n + 1] = e /\ \A j \in 1..n : save_ptr'[j] = save_ptr[j]
  BY <1>1, <1>2, ListPush
<1> HIDE DEF n
<1>5. Others(save_ptr', n + 1, b) = Others(save_ptr, n, b) /\ SavedRoots(save_ptr', n + 1) = SavedRoots(save_ptr, n)
  <2>1. /\ Agree(save_ptr, save_ptr', n) /\ b \in [Macros -> Nat]
        /\ save_ptr'[n + 1].info # "symbol"
    BY <1>2, <1>3, <1>4 DEF Agree
  <2> QED BY ONLY <2>1, OthersStep, RootsStep
<1>6. Fit(tab', Others(save_ptr', Len(save_ptr'), b), SavedRoots(save_ptr', Len(save_ptr')))
  BY <1>1, <1>2, <1>4, <1>5
<1> QED BY <1>1, <1>3, <1>6, PushItem DEF b

\* Members of lists of calls and levels.
LEMMA CallsPush ==
  ASSUME calls \in Seq(CallSet), NEW e \in CallSet
  PROVE  LET d == Append(calls, e)  k == Len(calls) IN
         /\ d \in Seq(CallSet) /\ k \in Nat /\ Len(d) = k + 1 /\ d[k + 1] = e
         /\ \A i \in 1..k : d[i] = calls[i]
  OBVIOUS

LEMMA CallsFront ==
  ASSUME calls \in Seq(CallSet), calls # <<>>
  PROVE  \E k \in Nat : /\ Len(calls) = k + 1 /\ calls[k + 1] = Last(calls) /\ Last(calls) \in CallSet
                        /\ Front(calls) \in Seq(CallSet) /\ Len(Front(calls)) = k
                        /\ \A i \in 1..k : Front(calls)[i] = calls[i]
<1> DEFINE k == Len(calls) - 1
<1>1. k \in Nat /\ Len(calls) = k + 1 /\ calls[k + 1] = Last(calls) /\ Last(calls) \in CallSet
  BY DEF Last
<1>2. Front(calls) = SubSeq(calls, 1, k)
  BY DEF Front
<1> HIDE DEF k
<1>3. Front(calls) \in Seq(CallSet) /\ Len(Front(calls)) = k /\ \A i \in 1..k : Front(calls)[i] = calls[i]
  BY <1>1, <1>2
<1> QED BY <1>1, <1>3

LEMMA InputFirst ==
  ASSUME input \in Seq(Macros), NEW k \in 0..Len(input)
  PROVE  /\ SubSeq(input, 1, k) \in Seq(Macros) /\ Len(SubSeq(input, 1, k)) = k /\ k \in Nat
         /\ \A i \in 1..k : SubSeq(input, 1, k)[i] = input[i]
  OBVIOUS

\* A group begins.
LEMMA BeginGroupStep ==
  ASSUME SInv, BeginGroup
  PROVE  SInv'
<1> DEFINE e == [info |-> "boundary"]  f == [kind |-> "group"]
           b == Busy(calls, Len(calls), input, Len(input))  n == Len(save_ptr)  k == Len(calls)
           l == Len(input)
<1>1. save_ptr' = Append(save_ptr, e) /\ calls' = Append(calls, f) /\ UNCHANGED <<tab, input>>
  BY DEF BeginGroup
<1>2. /\ n \in Nat /\ b \in [Macros -> Nat] /\ k \in Nat /\ l \in Nat
      /\ Fit(tab, Others(save_ptr, n, b), SavedRoots(save_ptr, n))
      /\ STypes /\ Frames /\ DOMAIN save_ptr = 1..n /\ (save_ptr = <<>> <=> n = 0) /\ IsList(save_ptr)
  BY Numbers, ListHas DEF SInv, Exact, STypes
<1>3. e.info = "boundary" /\ ItemOK(e) /\ f \in CallSet /\ f.kind = "group"
  BY DEF ItemOK, CallSet
<1> HIDE DEF e, f
<1>4. /\ Len(save_ptr') = n + 1 /\ save_ptr'[n + 1] = e /\ \A i \in 1..n : save_ptr'[i] = save_ptr[i]
      /\ IsList(save_ptr')
  BY <1>1, <1>2, ListPush
<1>5. /\ calls' \in Seq(CallSet) /\ Len(calls') = k + 1 /\ calls'[k + 1] = f
      /\ \A i \in 1..k : calls'[i] = calls[i]
  BY <1>1, <1>2, <1>3, CallsPush DEF STypes
<1>6. DOMAIN save_ptr' = 1..(n + 1)
  BY <1>4, ListHas
<1> HIDE DEF n, k, l
<1>7. STypes'
  <2>1. \A i \in DOMAIN save_ptr' : ItemOK(save_ptr'[i])
    BY <1>2, <1>3, <1>4, <1>6 DEF STypes
  <2> QED BY <1>1, <1>2, <1>4, <1>5, <2>1 DEF STypes
<1>8. Frames'
  <2>1. /\ Cardinality(Bounds(save_ptr, n)) \in Nat
        /\ Cardinality(Bounds(save_ptr', n + 1)) = Cardinality(Bounds(save_ptr, n)) + One(save_ptr'[n + 1].info = "boundary")
    <3>1. n \in Nat /\ \A i \in 1..n : save_ptr'[i] = save_ptr[i]
      BY <1>2, <1>4
    <3> QED BY ONLY <3>1, BoundsStep
  <2>2. /\ Cardinality(GroupsIn(calls, k)) \in Nat
        /\ Cardinality(GroupsIn(calls', k + 1)) = Cardinality(GroupsIn(calls, k)) + One(calls'[k + 1].kind = "group")
    <3>1. k \in Nat /\ \A i \in 1..k : calls'[i] = calls[i]
      BY <1>2, <1>5
    <3> QED BY ONLY <3>1, GroupsStep
  <2>3. One(save_ptr'[n + 1].info = "boundary") = 1 /\ One(calls'[k + 1].kind = "group") = 1
    BY <1>3, <1>4, <1>5 DEF One
  <2>4. Cardinality(Bounds(save_ptr, n)) = Cardinality(GroupsIn(calls, k))
    BY <1>2 DEF Frames, n, k
  <2>5. Cardinality(Bounds(save_ptr', Len(save_ptr'))) = Cardinality(GroupsIn(calls', Len(calls')))
    BY <1>4, <1>5, <2>1, <2>2, <2>3, <2>4
  <2>6. save_ptr'[1].info = "boundary"
    <3>1. CASE n = 0
      BY <1>3, <1>4, <3>1
    <3>2. CASE n # 0
      BY <1>2, <1>4, <3>2 DEF Frames
    <3> QED BY <3>1, <3>2
  <2> QED BY <2>5, <2>6 DEF Frames
<1>9. Others(save_ptr', n + 1, b) = Others(save_ptr, n, b) /\ SavedRoots(save_ptr', n + 1) = SavedRoots(save_ptr, n)
  <2> HIDE DEF b
  <2>1. /\ Agree(save_ptr, save_ptr', n) /\ b \in [Macros -> Nat]
        /\ save_ptr'[n + 1].info # "symbol"
    BY <1>2, <1>3, <1>4 DEF Agree
  <2> QED BY ONLY <2>1, OthersStep, RootsStep
<1>10. Busy(calls', k + 1, input, l) = b
  <2>1. calls'[k + 1].kind = "group" /\ calls'[k + 1] \in CallSet
    BY <1>3, <1>5
  <2>2. Busy(calls', k + 1, input, l) = Busy(calls, k, input, l)
    <3>1. l \in Nat /\ Agree(calls, calls', k)
      BY <1>2, <1>5 DEF Agree
    <3> QED BY ONLY <2>1, <3>1, BusyGroup
  <2> QED BY <2>2 DEF k, l
<1>11. Exact'
  <2>1. Busy(calls', Len(calls'), input', Len(input')) = b
    BY <1>1, <1>5, <1>10 DEF l
  <2> HIDE DEF b
  <2> QED BY <1>1, <1>2, <1>4, <1>9, <2>1 DEF Exact
<1> QED BY <1>7, <1>8, <1>11 DEF SInv

\* The steps that do not touch the save stack: calls and levels change, and the
\* tables count them.
LEMMA Elsewhere ==
  ASSUME SInv, UNCHANGED save_ptr, calls' \in Seq(CallSet), input' \in Seq(Macros),
         Cardinality(GroupsIn(calls', Len(calls'))) = Cardinality(GroupsIn(calls, Len(calls))),
         \A y : Fit(tab, Others(save_ptr, Len(save_ptr), Busy(calls, Len(calls), input, Len(input))), y)
                => Fit(tab', Others(save_ptr, Len(save_ptr), Busy(calls', Len(calls'), input', Len(input'))), y)
  PROVE  SInv'
<1>1. STypes'
  BY DEF SInv, STypes
<1>2. Frames'
  BY DEF SInv, Frames
<1>3. Exact'
  BY DEF SInv, Exact
<1> QED BY <1>1, <1>2, <1>3 DEF SInv

\* The number of groups that an entry adds.
LEMMA GroupCount ==
  ASSUME NEW c, NEW d, NEW k, Agree(c, d, k)
  PROVE  /\ Cardinality(GroupsIn(c, k)) \in Nat
         /\ d[k + 1].kind # "group" => Cardinality(GroupsIn(d, k + 1)) = Cardinality(GroupsIn(c, k))
         /\ d[k + 1].kind = "group" => Cardinality(GroupsIn(d, k + 1)) = Cardinality(GroupsIn(c, k)) + 1
<1> DEFINE a == d[k + 1].kind = "group"
<1>1. k \in Nat /\ \A i \in 1..k : d[i] = c[i]
  BY DEF Agree
<1>2. /\ Cardinality(GroupsIn(c, k)) \in Nat
      /\ Cardinality(GroupsIn(d, k + 1)) = Cardinality(GroupsIn(c, k)) + One(a)
  BY ONLY <1>1, GroupsStep
<1>3. (a => One(a) = 1) /\ (~a => One(a) = 0)
  BY DEF One
<1> HIDE DEF a
<1>4. /\ ~a => Cardinality(GroupsIn(d, k + 1)) = Cardinality(GroupsIn(c, k))
      /\ a => Cardinality(GroupsIn(d, k + 1)) = Cardinality(GroupsIn(c, k)) + 1
  BY <1>2, <1>3
<1> QED BY <1>2, <1>4 DEF a

\* A call that takes a reference.
LEMMA PushCall ==
  ASSUME SInv, NEW m \in Macros, NEW e \in CallSet, e.kind # "group", e.m = m, Share(e) = 1,
         tab' = add_mac_ref(tab, m), calls' = Append(calls, e), UNCHANGED <<save_ptr, input>>
  PROVE  SInv'
<1> DEFINE k == Len(calls)  l == Len(input)  n == Len(save_ptr)  b == Busy(calls, k, input, l)
<1>1. /\ n \in Nat /\ b \in [Macros -> Nat] /\ k \in Nat /\ l \in Nat
      /\ calls \in Seq(CallSet) /\ input \in Seq(Macros)
  BY Numbers DEF SInv, STypes
<1>2. /\ calls' \in Seq(CallSet) /\ Len(calls') = k + 1 /\ calls'[k + 1] = e
      /\ \A i \in 1..k : calls'[i] = calls[i]
  BY <1>1, CallsPush
<1> HIDE DEF k, l, n
<1>3. Agree(calls, calls', k)
  BY <1>1, <1>2 DEF Agree
<1>4. Cardinality(GroupsIn(calls', k + 1)) = Cardinality(GroupsIn(calls, k))
  <2>1. calls'[k + 1].kind # "group"
    BY <1>2
  <2> QED BY ONLY <1>3, <2>1, GroupCount
<1>5. Busy(calls', k + 1, input, l) = Shift(b, m, 1)
  <2>1. calls'[k + 1] \in CallSet /\ calls'[k + 1].kind # "group"
    BY <1>2
  <2>2. Busy(calls', k + 1, input, l) = Shift(Busy(calls, k, input, l), calls'[k + 1].m, Share(calls'[k + 1]))
    <3>1. l \in Nat
      BY <1>1
    <3> QED BY ONLY <1>3, <2>1, <3>1, BusyCall
  <2> QED BY <1>2, <2>2
<1>6. Others(save_ptr, n, Shift(b, m, 1)) = Shift(Others(save_ptr, n, b), m, 1)
  <2>1. b \in [Macros -> Int] /\ 1 \in Int
    BY <1>1
  <2> HIDE DEF b
  <2> QED BY <1>1, <2>1, OthersShift
<1>7. ASSUME NEW y, Fit(tab, Others(save_ptr, n, b), y)
      PROVE  Fit(tab', Others(save_ptr, n, Busy(calls', k + 1, input, l)), y)
  <2> HIDE DEF b
  <2>1. Fit(add_mac_ref(tab, m), Shift(Others(save_ptr, n, b), m, 1), y)
    BY <1>7, AddRef
  <2> QED BY <1>5, <1>6, <2>1
<1> QED BY <1>1, <1>2, <1>4, <1>7, Elsewhere DEF k, l, n

\* The macro that was held is called.
LEMMA CallHeldStep ==
  ASSUME SInv, CallHeld
  PROVE  SInv'
<1> DEFINE l == Len(input)  n == Len(save_ptr)  m == Last(calls).m
           e == [kind |-> "args", m |-> m, held |-> TRUE]  b == Busy(calls, Len(calls), input, l)
<1>1. /\ calls # <<>> /\ Last(calls).kind = "held"
      /\ tab' = add_mac_ref(tab, m) /\ calls' = [calls EXCEPT ![Len(calls)] = e]
      /\ UNCHANGED <<save_ptr, input>>
  BY DEF CallHeld, Top
<1>2. n \in Nat /\ l \in Nat /\ b \in [Macros -> Nat] /\ calls \in Seq(CallSet) /\ input \in Seq(Macros)
  BY Numbers DEF SInv, STypes
<1>3. PICK k \in Nat : Len(calls) = k + 1 /\ calls[k + 1] = Last(calls) /\ Last(calls) \in CallSet
  BY <1>1, <1>2, CallsFront
<1>4. m \in Macros /\ e \in CallSet /\ e.kind = "args" /\ e.m = m /\ e.held = TRUE
  BY <1>1, <1>3 DEF CallSet
<1> HIDE DEF m, e
<1>5. /\ calls' \in Seq(CallSet) /\ Len(calls') = k + 1 /\ calls'[k + 1] = e
      /\ \A i \in 1..k : calls'[i] = calls[i]
  BY <1>1, <1>2, <1>3, <1>4
<1>6. Agree(calls, calls', k) /\ Agree(calls, calls, k)
  BY <1>5 DEF Agree
<1>7. Cardinality(GroupsIn(calls', k + 1)) = Cardinality(GroupsIn(calls, k + 1))
  <2>1. Cardinality(GroupsIn(calls', k + 1)) = Cardinality(GroupsIn(calls, k))
    BY <1>4, <1>5, <1>6, GroupCount
  <2>2. Cardinality(GroupsIn(calls, k + 1)) = Cardinality(GroupsIn(calls, k))
    BY <1>1, <1>3, <1>6, GroupCount
  <2> QED BY <2>1, <2>2
<1> DEFINE o == Busy(calls, k, input, l)
<1>8. Busy(calls', k + 1, input, l) = Shift(o, m, 2)
  <2>1. calls'[k + 1] \in CallSet /\ calls'[k + 1].kind # "group"
    BY <1>4, <1>5
  <2>2. Busy(calls', k + 1, input, l) = Shift(Busy(calls, k, input, l), calls'[k + 1].m, Share(calls'[k + 1]))
    BY <1>2, <1>6, <2>1, BusyCall
  <2>3. Share(e) = 2
    BY <1>4 DEF Share
  <2> QED BY <1>4, <1>5, <2>2, <2>3
<1>9. b = Shift(o, m, 1)
  <2>1. calls[k + 1] \in CallSet /\ calls[k + 1].kind # "group"
    BY <1>1, <1>3
  <2>2. Busy(calls, k + 1, input, l) = Shift(Busy(calls, k, input, l), calls[k + 1].m, Share(calls[k + 1]))
    BY <1>2, <1>6, <2>1, BusyCall
  <2>3. Share(Last(calls)) = 1
    BY <1>1 DEF Share
  <2> QED BY <1>3, <2>2, <2>3 DEF m
<1>10. Busy(calls', k + 1, input, l) = Shift(b, m, 1)
  <2>1. o \in [Macros -> Int]
    <3>1. o \in [Macros -> Nat]
      BY <1>2, TallyTypes
    <3> QED BY <3>1
  <2> HIDE DEF o, b
  <2>2. Shift(Shift(o, m, 1), m, 1) = Shift(o, m, 2)
    <3>1. 1 \in Int /\ 1 + 1 = 2
      OBVIOUS
    <3>2. Shift(Shift(o, m, 1), m, 1) = Shift(o, m, 1 + 1)
      BY <1>4, <2>1, <3>1, ShiftTwice
    <3> QED BY <3>1, <3>2
  <2> QED BY <1>8, <1>9, <2>2
<1>11. Others(save_ptr, n, Shift(b, m, 1)) = Shift(Others(save_ptr, n, b), m, 1)
  <2>1. b \in [Macros -> Int] /\ 1 \in Int
    BY <1>2
  <2> HIDE DEF b
  <2> QED BY <1>2, <1>4, <2>1, OthersShift
<1>12. ASSUME NEW y, Fit(tab, Others(save_ptr, n, b), y)
       PROVE  Fit(tab', Others(save_ptr, n, Busy(calls', k + 1, input, l)), y)
  <2> HIDE DEF b
  <2>1. Fit(add_mac_ref(tab, m), Shift(Others(save_ptr, n, b), m, 1), y)
    BY <1>4, <1>12, AddRef
  <2> QED BY <1>1, <1>10, <1>11, <2>1
<1> QED BY <1>1, <1>2, <1>3, <1>5, <1>7, <1>12, Elsewhere DEF l, n

\* An input level ends.
LEMMA EndTokenListStep ==
  ASSUME SInv, end_token_list
  PROVE  SInv'
<1> DEFINE k == Len(calls)  n == Len(save_ptr)  b == Busy(calls, k, input, Len(input))  m == Last(input)
           j == Len(input) - 1
<1>1. input # <<>> /\ tab' = delete_mac_ref(tab, m) /\ input' = Front(input) /\ UNCHANGED <<save_ptr, calls>>
  BY DEF end_token_list
<1>2. /\ n \in Nat /\ k \in Nat /\ b \in [Macros -> Nat]
      /\ calls \in Seq(CallSet) /\ input \in Seq(Macros)
  BY Numbers DEF SInv, STypes
<1>3. j \in Nat /\ j \in 0..Len(input) /\ Len(input) = j + 1 /\ input[j + 1] = m /\ m \in Macros
      /\ input' = SubSeq(input, 1, j)
  BY <1>1, <1>2 DEF Last, Front
<1> HIDE DEF j, m
<1>4. input' \in Seq(Macros) /\ Len(input') = j /\ \A i \in 1..j : input'[i] = input[i]
  BY <1>2, <1>3, InputFirst
<1>5. Agree(input', input, j)
  BY <1>3, <1>4 DEF Agree
<1>6. Busy(calls, k, input', j) = Shift(b, m, -1)
  <2>1. input[j + 1] \in Macros
    BY <1>3
  <2>2. Busy(calls, k, input', j) = Shift(Busy(calls, k, input, j + 1), input[j + 1], -1)
    BY <1>2, <1>5, <2>1, BusyRead
  <2> QED BY <1>3, <2>2
<1>7. Others(save_ptr, n, Shift(b, m, -1)) = Shift(Others(save_ptr, n, b), m, -1)
  <2>1. b \in [Macros -> Int] /\ -1 \in Int
    BY <1>2
  <2> HIDE DEF b
  <2> QED BY <1>2, <1>3, <2>1, OthersShift
<1>8. ASSUME NEW y, Fit(tab, Others(save_ptr, n, b), y)
      PROVE  Fit(tab', Others(save_ptr, n, Busy(calls, k, input', j)), y)
  <2> HIDE DEF b
  <2>1. Fit(delete_mac_ref(tab, m), Shift(Others(save_ptr, n, b), m, -1), y)
    BY <1>3, <1>8, DelRef
  <2> QED BY <1>1, <1>6, <1>7, <2>1
<1>9. calls' = calls /\ save_ptr' = save_ptr
  BY <1>1
<1> QED BY <1>2, <1>4, <1>8, <1>9, Elsewhere DEF k, n

\* The count of a macro that has others is lowered.
LEMMA LowerRef ==
  ASSUME NEW t, NEW x, NEW y, Fit(t, x, y), NEW m \in Macros
  PROVE  Fit([t EXCEPT !.mac[m].ref_count = @ - 1], Shift(x, m, -1), y)
<1>1. t \in TabSet /\ x \in [Macros -> Int] /\ y \in [Roots -> Int] /\ Balanced(t, x) /\ Owned(t, y)
  BY DEF Fit
<1> DEFINE old == t.mac[m]  c == [old EXCEPT !.ref_count = @ - 1]
<1>2. old \in MacSet /\ old.ref_count \in Int
  BY <1>1, TabIs
<1>3. c \in MacSet /\ c.ref_count - old.ref_count = -1
  <2> HIDE DEF old
  <2> QED BY <1>2 DEF MacSet
<1>4. [t EXCEPT !.mac[m].ref_count = @ - 1] = SetMac(t, m, c)
  BY DEF SetMac
<1> HIDE DEF c
<1>5. Balanced(SetMac(t, m, c), Shift(x, m, -1)) /\ Owned(SetMac(t, m, c), y)
  BY <1>1, <1>3, NewMac
<1>6. SetMac(t, m, c) \in TabSet
  BY <1>1, <1>3, MacSet1
<1>7. Shift(x, m, -1) \in [Macros -> Int]
  BY <1>1 DEF Shift
<1> QED BY <1>1, <1>4, <1>5, <1>6, <1>7 DEF Fit

\* The replacement text of a macro is fed to the scanner.
LEMMA FeedStep ==
  ASSUME SInv, Feed
  PROVE  SInv'
<1> DEFINE n == Len(save_ptr)  f == Last(calls)  m == f.m
<1>1. /\ calls # <<>> /\ f.kind = "args" /\ calls' = Front(calls) /\ UNCHANGED <<internal, save_ptr>>
  BY DEF Feed, Top
<1>2. PICK h \in 0..Len(input) :
          /\ input' = Append(SubSeq(input, 1, h), m)
          /\ tab' = IF f.held THEN [Depleted(tab, h) EXCEPT !.mac[m].ref_count = @ - 1]
                    ELSE Depleted(tab, h)
  BY DEF Feed
<1>3. n \in Nat /\ h \in Nat /\ calls \in Seq(CallSet) /\ input \in Seq(Macros)
  BY Numbers DEF SInv, STypes
<1>4. PICK k \in Nat : /\ Len(calls) = k + 1 /\ calls[k + 1] = f /\ f \in CallSet
                       /\ calls' \in Seq(CallSet) /\ Len(calls') = k
                       /\ \A i \in 1..k : calls'[i] = calls[i]
  BY <1>1, <1>3, CallsFront
<1>5. m \in Macros /\ f.held \in BOOLEAN
  BY <1>1, <1>4 DEF CallSet
<1>6. /\ input' \in Seq(Macros) /\ Len(input') = h + 1 /\ input'[h + 1] = m
      /\ \A i \in 1..h : input'[i] = input[i]
  <2> DEFINE p == SubSeq(input, 1, h)
  <2>1. p \in Seq(Macros) /\ Len(p) = h /\ \A i \in 1..h : p[i] = input[i]
    BY <1>3, InputFirst
  <2> HIDE DEF p, m
  <2> QED BY <1>2, <1>3, <1>5, <2>1 DEF p
<1> HIDE DEF n, f, m
<1> DEFINE o == Busy(calls, k, input, h)  c == Busy(calls, k + 1, input, h)
           x == Others(save_ptr, n, o)
<1>7. Agree(calls, calls, k) /\ Agree(calls, calls', k) /\ Agree(input, input', h)
  BY <1>3, <1>4, <1>6 DEF Agree
<1>8. c = Shift(o, m, Share(f)) /\ Share(f) \in Int
  <2>1. calls[k + 1] \in CallSet /\ calls[k + 1].kind # "group"
    BY <1>1, <1>4
  <2>2. Busy(calls, k + 1, input, h) = Shift(Busy(calls, k, input, h), calls[k + 1].m, Share(calls[k + 1]))
        /\ Share(calls[k + 1]) \in Int
    BY ONLY <1>3, <1>7, <2>1, BusyCall
  <2> QED BY <1>4, <2>2 DEF m
<1>9. Busy(calls', k, input', h + 1) = Shift(o, m, 1)
  <2>1. input'[h + 1] \in Macros /\ h + 1 \in Nat
    BY <1>3, <1>5, <1>6
  <2>2. Busy(calls, k, input', h + 1) = Shift(Busy(calls, k, input, h), input'[h + 1], 1)
    <3>1. k \in Nat
      BY <1>4
    <3> QED BY ONLY <1>7, <2>1, <3>1, BusyRead
  <2>3. Busy(calls', k, input', h + 1) = Busy(calls, k, input', h + 1)
    BY ONLY <1>7, <2>1, BusySame
  <2> QED BY <1>6, <2>2, <2>3
<1>10. o \in [Macros -> Int] /\ x \in [Macros -> Int]
  <2>1. o \in [Macros -> Nat]
    BY <1>3, TallyTypes
  <2>2. x \in [Macros -> Nat]
    <3> HIDE DEF o
    <3> QED BY <1>3, <2>1, TallyTypes
  <2> QED BY <2>1, <2>2
<1> HIDE DEF o
<1>11. Others(save_ptr, n, c) = Shift(x, m, Share(f)) /\ Others(save_ptr, n, Shift(o, m, 1)) = Shift(x, m, 1)
  <2>1. Others(save_ptr, n, Shift(o, m, Share(f))) = Shift(x, m, Share(f))
    BY <1>3, <1>5, <1>8, <1>10, OthersShift
  <2>2. Others(save_ptr, n, Shift(o, m, 1)) = Shift(x, m, 1)
    <3>1. 1 \in Int
      OBVIOUS
    <3> QED BY <1>3, <1>5, <1>10, <3>1, OthersShift
  <2> QED BY <1>8, <2>1, <2>2
<1>12. ASSUME NEW y, Fit(tab, Others(save_ptr, n, Busy(calls, k + 1, input, Len(input))), y)
       PROVE  Fit(tab', Shift(x, m, 1), y)
  <2> DEFINE t == Depleted(tab, h)
  <2>1. Fit(t, Others(save_ptr, n, c), y)
    <3>1. k + 1 \in Nat
      BY <1>4
    <3> QED BY <1>3, <1>12, <3>1, DepletedFit
  <2>2. Fit(t, Shift(x, m, Share(f)), y)
    BY <1>11, <2>1
  <2> HIDE DEF t, x
  <2>3. CASE f.held
    <3>1. Share(f) = 2
      BY <1>1, <2>3 DEF Share, f
    <3>2. Fit([t EXCEPT !.mac[m].ref_count = @ - 1], Shift(Shift(x, m, 2), m, -1), y)
      BY <1>5, <2>2, <3>1, LowerRef
    <3>3. Shift(Shift(x, m, 2), m, -1) = Shift(x, m, 1)
      <4>1. 2 \in Int /\ -1 \in Int /\ 2 + (-1) = 1
        OBVIOUS
      <4>2. Shift(Shift(x, m, 2), m, -1) = Shift(x, m, 2 + (-1))
        BY <1>5, <1>10, <4>1, ShiftTwice
      <4> QED BY <4>1, <4>2
    <3>4. tab' = [t EXCEPT !.mac[m].ref_count = @ - 1]
      BY <1>2, <2>3 DEF t
    <3> QED BY <3>2, <3>3, <3>4
  <2>4. CASE ~f.held
    <3>1. Share(f) = 1
      BY <2>4 DEF Share
    <3>2. tab' = t
      BY <1>2, <2>4 DEF t
    <3> QED BY <2>2, <3>1, <3>2
  <2> QED BY <1>5, <2>3, <2>4
<1>13. Cardinality(GroupsIn(calls', k)) = Cardinality(GroupsIn(calls, k + 1))
  <2>1. GroupsIn(calls', k) = GroupsIn(calls, k)
    BY <1>4 DEF GroupsIn
  <2>2. calls[k + 1].kind # "group"
    BY <1>1, <1>4 DEF f
  <2>3. Cardinality(GroupsIn(calls, k + 1)) = Cardinality(GroupsIn(calls, k))
    BY ONLY <1>7, <2>2, GroupCount
  <2> QED BY <2>1, <2>3
<1>14. \A y : Fit(tab, Others(save_ptr, Len(save_ptr), Busy(calls, Len(calls), input, Len(input))), y)
                => Fit(tab', Others(save_ptr, Len(save_ptr), Busy(calls', Len(calls'), input', Len(input'))), y)
  BY <1>4, <1>6, <1>9, <1>11, <1>12 DEF n
<1>15. save_ptr' = save_ptr
  BY <1>1
<1>16. Cardinality(GroupsIn(calls', Len(calls'))) = Cardinality(GroupsIn(calls, Len(calls)))
  BY <1>4, <1>13
<1> QED BY <1>4, <1>6, <1>14, <1>15, <1>16, Elsewhere

\* A group ends.
LEMMA EndGroupStep ==
  ASSUME SInv, EndGroup
  PROVE  SInv'
<1> DEFINE N == Len(save_ptr)  B == Boundary(save_ptr)  l == Len(input)  q == B - 1
<1>1. /\ calls # <<>> /\ Last(calls).kind = "group" /\ calls' = Front(calls) /\ input' = input
      /\ tab' = unsave([tab |-> tab, internal |-> internal, stack |-> save_ptr]).tab
      /\ save_ptr' = SubSeq(save_ptr, 1, q)
  BY DEF EndGroup, Top
<1>2. /\ N \in Nat /\ l \in Nat /\ calls \in Seq(CallSet) /\ input \in Seq(Macros)
      /\ IsList(save_ptr) /\ DOMAIN save_ptr = 1..N
      /\ \A i \in DOMAIN save_ptr : ItemOK(save_ptr[i])
  BY Numbers, ListHas DEF SInv, STypes
<1>3. PICK k \in Nat : /\ Len(calls) = k + 1 /\ calls[k + 1] = Last(calls) /\ Last(calls) \in CallSet
                       /\ calls' \in Seq(CallSet) /\ Len(calls') = k
                       /\ \A i \in 1..k : calls'[i] = calls[i]
  BY <1>1, <1>2, CallsFront
<1>4. Agree(calls, calls, k) /\ Agree(calls, calls', k)
  BY <1>3 DEF Agree
<1> DEFINE b == Busy(calls, k + 1, input, l)
<1>5. b \in [Macros -> Nat] /\ Fit(tab, Others(save_ptr, N, b), SavedRoots(save_ptr, N))
  BY <1>3, Numbers DEF SInv, Exact
<1>6. Busy(calls', k, input, l) = b
  <2>1. calls[k + 1] \in CallSet /\ calls[k + 1].kind = "group"
    BY <1>1, <1>3
  <2>2. Busy(calls, k + 1, input, l) = Busy(calls, k, input, l)
    BY ONLY <1>2, <1>4, <2>1, BusyGroup
  <2>3. Busy(calls', k, input, l) = Busy(calls, k, input, l)
    BY ONLY <1>2, <1>4, BusySame
  <2> QED BY <2>2, <2>3
<1> HIDE DEF b
<1>7. /\ Cardinality(GroupsIn(calls, k)) \in Nat
      /\ Cardinality(Bounds(save_ptr, N)) = Cardinality(GroupsIn(calls, k)) + 1
  <2>1. calls[k + 1].kind = "group"
    BY <1>1, <1>3
  <2>2. Cardinality(GroupsIn(calls, k)) \in Nat
        /\ Cardinality(GroupsIn(calls, k + 1)) = Cardinality(GroupsIn(calls, k)) + 1
    BY ONLY <1>4, <2>1, GroupCount
  <2>3. Cardinality(Bounds(save_ptr, N)) = Cardinality(GroupsIn(calls, k + 1))
    BY <1>3 DEF SInv, Frames
  <2> QED BY <2>2, <2>3
<1>8. Cardinality(Bounds(save_ptr, N)) # 0
  BY <1>7
<1>9. /\ B \in 1..N /\ save_ptr[B].info = "boundary"
      /\ \A j \in 1..N : j > B => save_ptr[j].info # "boundary"
  BY <1>2, <1>8, BoundaryIs
<1>10. Fit(tab', Others(save_ptr, B, b), SavedRoots(save_ptr, B))
  <2>1. Fit(unsave([tab |-> tab, internal |-> internal, stack |-> save_ptr]).tab,
            Others(save_ptr, B, b), SavedRoots(save_ptr, B))
    BY <1>2, <1>5, <1>8, UnsaveFit
  <2> QED BY <1>1, <2>1
<1> HIDE DEF N, B, l
<1>11. q \in Nat /\ q + 1 = B /\ q <= N
  BY <1>2, <1>9
<1> HIDE DEF q
<1>12. /\ IsList(save_ptr') /\ Len(save_ptr') = q /\ DOMAIN save_ptr' = 1..q
       /\ \A i \in 1..q : save_ptr'[i] = save_ptr[i]
  BY <1>1, <1>2, <1>11, ListCut, ListHas DEF N
<1>13. Others(save_ptr', q, b) = Others(save_ptr, q + 1, b) /\ SavedRoots(save_ptr', q) = SavedRoots(save_ptr, q + 1)
  <2>1. b \in [Macros -> Nat] /\ Agree(save_ptr, save_ptr', q) /\ Agree(save_ptr, save_ptr, q)
    BY <1>5, <1>11, <1>12 DEF Agree
  <2>2. save_ptr[q + 1].info # "symbol"
    BY <1>9, <1>11
  <2>3. Others(save_ptr', q, b) = Others(save_ptr, q, b) /\ SavedRoots(save_ptr', q) = SavedRoots(save_ptr, q)
    BY ONLY <2>1, OthersStep, RootsStep
  <2>4. Others(save_ptr, q + 1, b) = Others(save_ptr, q, b) /\ SavedRoots(save_ptr, q + 1) = SavedRoots(save_ptr, q)
    BY ONLY <2>1, <2>2, OthersStep, RootsStep
  <2> QED BY <2>3, <2>4
<1>14. STypes'
  <2>1. \A i \in DOMAIN save_ptr' : ItemOK(save_ptr'[i])
    BY <1>2, <1>11, <1>12
  <2> QED BY <1>1, <1>2, <1>3, <1>12, <2>1 DEF STypes
<1>15. Frames'
  <2>1. Cardinality(Bounds(save_ptr, q)) \in Nat
        /\ Cardinality(Bounds(save_ptr, q + 1)) = Cardinality(Bounds(save_ptr, q)) + One(save_ptr[q + 1].info = "boundary")
    <3>1. q \in Nat /\ \A i \in 1..q : save_ptr[i] = save_ptr[i]
      BY <1>11
    <3> QED BY ONLY <3>1, BoundsStep
  <2>2. One(save_ptr[q + 1].info = "boundary") = 1
    BY <1>9, <1>11 DEF One
  <2>3. Bounds(save_ptr', q) = Bounds(save_ptr, q)
    BY <1>12 DEF Bounds
  <2>4. Bounds(save_ptr, N) = Bounds(save_ptr, q + 1)
    <3>1. \A i \in 1..N : save_ptr[i].info = "boundary" => i \in 1..(q + 1)
      BY <1>2, <1>9, <1>11
    <3>2. \A i \in 1..(q + 1) : i \in 1..N
      BY <1>2, <1>9, <1>11
    <3> QED BY <3>1, <3>2 DEF Bounds
  <2>5. GroupsIn(calls', k) = GroupsIn(calls, k)
    BY <1>3 DEF GroupsIn
  <2>6. Cardinality(Bounds(save_ptr', q)) = Cardinality(GroupsIn(calls', k))
    BY <1>7, <2>1, <2>2, <2>3, <2>4, <2>5
  <2>7. save_ptr' # <<>> => save_ptr'[1].info = "boundary"
    <3>1. ASSUME save_ptr' # <<>> PROVE save_ptr'[1].info = "boundary"
      <4>1. q # 0
        BY <1>12, <3>1, ListHas
      <4>2. save_ptr'[1] = save_ptr[1] /\ save_ptr # <<>>
        BY <1>2, <1>9, <1>11, <1>12, <4>1
      <4> QED BY <4>2 DEF SInv, Frames
    <3> QED BY <3>1
  <2> QED BY <1>3, <1>12, <2>6, <2>7 DEF Frames
<1>16. Exact'
  <2>1. Busy(calls', Len(calls'), input', Len(input')) = b
    BY <1>1, <1>3, <1>6 DEF l
  <2> QED BY <1>10, <1>11, <1>12, <1>13, <2>1 DEF Exact
<1> QED BY <1>14, <1>15, <1>16 DEF SInv

-----------------------------------------------------------------------------
(* The invariant holds.                                                    *)

LEMMA SInvInit == Init => SInv
<1> SUFFICES ASSUME Init PROVE SInv
  OBVIOUS
<1>1. /\ tab = [eqtb |-> [q \in Symbols |-> frozen_undefined],
                root |-> [r \in Roots |-> FreeRoot], mac  |-> [m \in Macros |-> FreeMac]]
      /\ save_ptr = <<>> /\ calls = <<>> /\ input = <<>>
  BY DEF Init
<1>2. IsList(save_ptr) /\ Len(save_ptr) = 0 /\ DOMAIN save_ptr = {} /\ Len(calls) = 0 /\ Len(input) = 0
      /\ 1..0 = {}
  <2>1. save_ptr = [i \in 1..0 |-> save_ptr[i]]
    BY <1>1
  <2>2. IsList(save_ptr) /\ Len(save_ptr) = 0 /\ DOMAIN save_ptr = 1..0
    BY ONLY <2>1, 0 \in Nat, ListIs
  <2>3. 1..0 = {} /\ Len(calls) = 0 /\ Len(input) = 0
    BY <1>1
  <2> QED BY <2>2, <2>3
<1>3. STypes
  BY <1>1, <1>2 DEF STypes
<1>4. Cardinality({}) = 0
  BY FS_EmptySet
<1>5. Frames
  <2>1. Bounds(save_ptr, 0) = {} /\ GroupsIn(calls, 0) = {}
    BY <1>2 DEF Bounds, GroupsIn
  <2> QED BY <1>1, <1>2, <2>1 DEF Frames
<1>6. tab \in TabSet
  <2>1. frozen_undefined \in EntrySet /\ FreeRoot \in RootSet /\ FreeMac \in MacSet
    BY Frozen DEF FreeRoot, RootSet, FreeMac, MacSet
  <2> QED BY <1>1, <2>1 DEF TabSet
<1> DEFINE b == Busy(calls, 0, input, 0)  x == Others(save_ptr, 0, b)  y == SavedRoots(save_ptr, 0)
<1>7. b \in [Macros -> Nat] /\ y \in [Roots -> Nat] /\ x \in [Macros -> Nat]
  BY TallyTypes
<1>8. (\A m \in Macros : x[m] = 0) /\ (\A r \in Roots : y[r] = 0)
  <2>1. \A m \in Macros : /\ CallM(calls, 0, m) = {} /\ HeldM(calls, 0, m) = {}
                          /\ ReadM(input, 0, m) = {} /\ SavM(save_ptr, 0, m) = {}
    BY <1>2 DEF CallM, HeldM, ReadM, SavM
  <2>2. \A r \in Roots : SavR(save_ptr, 0, r) = {}
    BY <1>2 DEF SavR
  <2>3. \A m \in Macros : b[m] = 0
    BY <1>4, <2>1 DEF Busy
  <2> HIDE DEF b
  <2>4. \A m \in Macros : x[m] = 0
    BY <1>4, <2>1, <2>3 DEF Others
  <2> QED BY <1>4, <2>2, <2>4 DEF SavedRoots
<1>9. \A m \in Macros : NowM(tab, m) = {} /\ DefM(tab, m) = {}
  <2>1. (\A q \in Symbols : tab.eqtb[q].eq_type = "tag") /\ (\A r \in Roots : tab.root[r].value = null)
    BY <1>1 DEF frozen_undefined, Entry, FreeRoot
  <2>2. \A m \in Macros : m # null
    BY SaveStackAssumption DEF SaveStackAssumption, null
  <2> QED BY <2>1, <2>2 DEF NowM, DefM, Holds
<1>10. \A r \in Roots : NowR(tab, r) = {} /\ tab.root[r].name_type = "free"
  <2>1. (\A q \in Symbols : tab.eqtb[q].equiv = null) /\ (\A r \in Roots : tab.root[r].name_type = "free")
    BY <1>1 DEF frozen_undefined, Entry, FreeRoot
  <2>2. \A r \in Roots : r # null
    BY SaveStackAssumption DEF SaveStackAssumption, null
  <2> QED BY <2>1, <2>2 DEF NowR, Owns
<1> HIDE DEF x, y
<1>11. Balanced(tab, x)
  <2>1. \A m \in Macros : tab.mac[m].ref_count = -1
    BY <1>1 DEF FreeMac
  <2> QED BY <1>4, <1>8, <1>9, <2>1 DEF Balanced
<1>12. Owned(tab, y)
  BY <1>4, <1>8, <1>10 DEF Owned
<1>13. Fit(tab, x, y)
  BY <1>6, <1>7, <1>11, <1>12 DEF Fit
<1>14. Exact
  BY <1>2, <1>13 DEF Exact, x, y
<1> QED BY <1>3, <1>5, <1>14 DEF SInv

LEMMA SInvNext == SInv /\ [Next]_vars => SInv'
<1> SUFFICES ASSUME SInv, [Next]_vars PROVE SInv'
  OBVIOUS
<1>1. ASSUME NEW q \in Symbols, get_clear_symbol(q) PROVE SInv'
  <2>1. UNCHANGED <<save_ptr, calls, input>> /\ tab' = clear_symbol(tab, q, FALSE)
    BY <1>1 DEF get_clear_symbol
  <2>2. ASSUME NEW x \in [Macros -> Nat], NEW y, Fit(tab, x, y) PROVE Fit(tab', x, y)
    BY <2>1, <2>2, Clear
  <2> QED BY <2>1, <2>2, Statement
<1>2. ASSUME NEW q \in Symbols, do_new_internal(q) PROVE SInv'
  <2>1. UNCHANGED <<save_ptr, calls, input>>
    BY <1>2 DEF do_new_internal
  <2>2. ASSUME NEW x \in [Macros -> Nat], NEW y, Fit(tab, x, y) PROVE Fit(tab', x, y)
    BY <1>2, <2>2, NewInternalFit
  <2> QED BY <2>1, <2>2, Statement
<1>3. ASSUME NEW q \in Symbols, save_internal(q) PROVE SInv'
  BY <1>3, SaveInternalStep
<1>4. ASSUME NEW q \in Symbols, NEW b \in Bodies, DefineMacro(q, b) PROVE SInv'
  <2>1. UNCHANGED <<save_ptr, calls, input>>
    BY <1>4 DEF DefineMacro
  <2>2. ASSUME NEW x \in [Macros -> Nat], NEW y, Fit(tab, x, y) PROVE Fit(tab', x, y)
    BY <1>4, <2>2, DefineMacroFit
  <2> QED BY <2>1, <2>2, Statement
<1>5. ASSUME NEW q \in Symbols, NEW p \in Symbols, do_let(q, p) PROVE SInv'
  <2>1. UNCHANGED <<save_ptr, calls, input>>
    BY <1>5 DEF do_let
  <2>2. ASSUME NEW x \in [Macros -> Nat], NEW y, Fit(tab, x, y) PROVE Fit(tab', x, y)
    <3>1. x \in [Macros -> Int]
      OBVIOUS
    <3> QED BY <1>5, <2>2, <3>1, LetFit
  <2> QED BY <2>1, <2>2, Statement
<1>6. \A q \in Variables : q \in Symbols
  BY SaveStackAssumption DEF SaveStackAssumption
<1>7. ASSUME NEW q \in Variables, do_type_declaration(q) PROVE SInv'
  <2>1. UNCHANGED <<save_ptr, calls, input>>
    BY <1>7 DEF do_type_declaration
  <2>2. ASSUME NEW x \in [Macros -> Nat], NEW y, Fit(tab, x, y) PROVE Fit(tab', x, y)
    BY <1>6, <1>7, <2>2, TypeFit
  <2> QED BY <2>1, <2>2, Statement
<1>8. ASSUME NEW q \in Variables, save_variable(q) PROVE SInv'
  BY <1>8, SaveVariableStep
<1>9. ASSUME NEW q \in Variables, NEW b \in Bodies, VarDef(q, b) PROVE SInv'
  <2>1. UNCHANGED <<save_ptr, calls, input>>
    BY <1>9 DEF VarDef
  <2>2. ASSUME NEW x \in [Macros -> Nat], NEW y, Fit(tab, x, y) PROVE Fit(tab', x, y)
    BY <1>6, <1>9, <2>2, VarDefFit
  <2> QED BY <2>1, <2>2, Statement
<1>10. ASSUME NEW q \in Protectable, NEW m \in BOOLEAN, do_protection(q, m) PROVE SInv'
  <2>1. UNCHANGED <<save_ptr, calls, input>> /\ q \in Symbols
    BY <1>10, SaveStackAssumption DEF do_protection, SaveStackAssumption
  <2>2. ASSUME NEW x \in [Macros -> Nat], NEW y, Fit(tab, x, y) PROVE Fit(tab', x, y)
    BY <1>10, <2>1, <2>2, ProtectionFit
  <2> QED BY <2>1, <2>2, Statement
<1>11. ASSUME NEW i \in DOMAIN internal, NEW v \in IntValues, SetInternal(i, v) PROVE SInv'
  <2>1. UNCHANGED <<tab, save_ptr, calls, input>>
    BY <1>11 DEF SetInternal
  <2> QED BY <2>1, Statement
<1>12. ASSUME NEW m \in Macros, StartCall(m) PROVE SInv'
  <2> DEFINE e == [kind |-> "args", m |-> m, held |-> FALSE]
  <2>1. tab' = add_mac_ref(tab, m) /\ calls' = Append(calls, e) /\ UNCHANGED <<save_ptr, input>>
    BY <1>12 DEF StartCall
  <2>2. e \in CallSet /\ e.kind # "group" /\ e.m = m /\ Share(e) = 1
    BY DEF CallSet, Share
  <2> HIDE DEF e
  <2> QED BY <2>1, <2>2, PushCall
<1>13. ASSUME NEW m \in Macros, Hold(m) PROVE SInv'
  <2> DEFINE e == [kind |-> "held", m |-> m]
  <2>1. tab' = add_mac_ref(tab, m) /\ calls' = Append(calls, e) /\ UNCHANGED <<save_ptr, input>>
    BY <1>13 DEF Hold
  <2>2. e \in CallSet /\ e.kind # "group" /\ e.m = m /\ Share(e) = 1
    BY DEF CallSet, Share
  <2> HIDE DEF e
  <2> QED BY <2>1, <2>2, PushCall
<1>14. CASE UNCHANGED vars
  <2>1. UNCHANGED <<tab, save_ptr, calls, input>>
    BY <1>14 DEF vars
  <2> QED BY <2>1, Statement
<1>15. Live(tab) \subseteq Macros
  BY DEF Live
<1> QED BY <1>1, <1>2, <1>3, <1>4, <1>5, <1>7, <1>8, <1>9, <1>10, <1>11, <1>12, <1>13, <1>14, <1>15,
           BeginGroupStep, EndGroupStep, CallHeldStep, FeedStep, EndTokenListStep DEF Next

\* The tables, the save stack, the calls under way and the input levels always
\* agree: every macro counts exactly its holders, every root has the owner that
\* its type says, and there is a boundary for every group.
THEOREM SaveStackInvariance == Spec => []SInv
  BY SInvInit, SInvNext, PTL DEF Spec

\* No macro is freed while a symbol, a saved meaning, a vardef, a call under
\* way or an input level still has it, and none stays that nothing has.
THEOREM MacroReferences == Spec => []MacroRefsExact
<1>1. SInv => MacroRefsExact
  <2> SUFFICES ASSUME SInv, NEW m \in Macros PROVE tab.mac[m].ref_count + 1 = Holders(m)
    BY DEF MacroRefsExact
  <2> DEFINE n == Len(save_ptr)  k == Len(calls)  l == Len(input)
  <2>1. /\ DOMAIN save_ptr = 1..n /\ DOMAIN calls = 1..k /\ DOMAIN input = 1..l
        /\ calls \in Seq(CallSet) /\ input \in Seq(Macros) /\ n \in Nat /\ k \in Nat /\ l \in Nat
    BY ListHas, Numbers DEF SInv, STypes
  <2>2. /\ {q \in Symbols : Holds(tab.eqtb[q], m)} = NowM(tab, m)
        /\ {r \in Roots : tab.root[r].value = m} = DefM(tab, m)
    BY DEF NowM, DefM
  <2>3. {i \in Saved : Holds(save_ptr[i].value, m)} = SavM(save_ptr, n, m)
    BY <2>1 DEF Saved, SavM
  <2>4. /\ {i \in DOMAIN calls : calls[i].kind # "group" /\ calls[i].m = m} = CallM(calls, k, m)
        /\ {i \in DOMAIN calls : calls[i].kind = "args" /\ calls[i].m = m /\ calls[i].held} = HeldM(calls, k, m)
        /\ {i \in DOMAIN input : input[i] = m} = ReadM(input, l, m)
    BY <2>1 DEF CallM, HeldM, ReadM
  <2>5. Balanced(tab, Others(save_ptr, n, Busy(calls, k, input, l))) /\ tab \in TabSet
    BY DEF SInv, Exact, Fit
  <2> HIDE DEF n, k, l
  <2> DEFINE c == Cardinality(NowM(tab, m))  d == Cardinality(DefM(tab, m))
             s == Cardinality(SavM(save_ptr, n, m))  a == Cardinality(CallM(calls, k, m))
             h == Cardinality(HeldM(calls, k, m))  i == Cardinality(ReadM(input, l, m))
  <2>6. Holders(m) = c + s + d + a + h + i
    BY <2>2, <2>3, <2>4 DEF Holders
  <2>7. tab.mac[m].ref_count + 1 = c + d + (s + (a + h + i))
    BY <2>5 DEF Balanced, Others, Busy
  <2>8. c \in Nat /\ d \in Nat /\ s \in Nat /\ a \in Nat /\ h \in Nat /\ i \in Nat
    <3>1. c \in Nat /\ d \in Nat
      BY <2>5, HolderSizes
    <3>2. Agree(save_ptr, save_ptr, n) /\ Agree(calls, calls, k) /\ Agree(input, input, l)
      BY <2>1 DEF Agree
    <3>3. s \in Nat
      BY <2>1, SavedMacros
    <3>4. a \in Nat /\ h \in Nat
      BY <2>1, CallsStep, HeldStep
    <3>5. i \in Nat
      BY <2>1, ReadsStep
    <3> QED BY <3>1, <3>3, <3>4, <3>5
  <2> HIDE DEF c, d, s, a, h, i
  <2> QED BY <2>6, <2>7, <2>8
<1> QED BY <1>1, SaveStackInvariance, PTL

\* Every root of a variable belongs to the one symbol that its type tells of,
\* on the save stack or off it, and groups and boundaries correspond.
THEOREM RootsOwned == Spec => []NodesOwned
<1>1. SInv => NodesOwned
  <2> SUFFICES ASSUME SInv PROVE NodesOwned
    OBVIOUS
  <2> DEFINE n == Len(save_ptr)  k == Len(calls)
  <2>1. /\ DOMAIN save_ptr = 1..n /\ DOMAIN calls = 1..k
        /\ calls \in Seq(CallSet) /\ n \in Nat /\ k \in Nat
    BY ListHas, Numbers DEF SInv, STypes
  <2>2. Owned(tab, SavedRoots(save_ptr, n)) /\ Frames
    BY DEF SInv, Exact, Fit
  <2>3. /\ {i \in DOMAIN save_ptr : save_ptr[i].info = "boundary"} = Bounds(save_ptr, n)
        /\ {i \in DOMAIN calls : calls[i].kind = "group"} = GroupsIn(calls, k)
    BY <2>1 DEF Bounds, GroupsIn
  <2>4. /\ save_ptr # <<>> => Head(save_ptr).info = "boundary"
        /\ Cardinality({i \in DOMAIN save_ptr : save_ptr[i].info = "boundary"})
           = Cardinality({i \in DOMAIN calls : calls[i].kind = "group"})
    <3>1. save_ptr # <<>> => Head(save_ptr) = save_ptr[1]
      BY DEF SInv, STypes, IsList
    <3> QED BY <2>2, <2>3, <3>1 DEF Frames
  <2>5. ASSUME NEW r \in Roots
        PROVE  LET now   == Cardinality({q \in Symbols : Owns(tab.eqtb[q], r)})
                   saved == Cardinality({i \in Saved : Owns(save_ptr[i].value, r)})
               IN  CASE tab.root[r].name_type = "free"       -> now = 0 /\ saved = 0
                     []  tab.root[r].name_type = "root"       -> now = 1 /\ saved = 0
                     []  tab.root[r].name_type = "saved_root" -> now = 0 /\ saved = 1
    <3>1. {q \in Symbols : Owns(tab.eqtb[q], r)} = NowR(tab, r)
      BY DEF NowR
    <3>2. {i \in Saved : Owns(save_ptr[i].value, r)} = SavR(save_ptr, n, r)
      BY <2>1 DEF Saved, SavR
    <3> DEFINE now == Cardinality(NowR(tab, r))  saved == Cardinality(SavR(save_ptr, n, r))
               type == tab.root[r].name_type
    <3>3. \/ type = "free"       /\ now = 0 /\ saved = 0
          \/ type = "root"       /\ now = 1 /\ saved = 0
          \/ type = "saved_root" /\ now = 0 /\ saved = 1
      BY <2>2 DEF Owned, SavedRoots
    <3> HIDE DEF now, saved, type
    <3>4. (CASE type = "free"       -> now = 0 /\ saved = 0
             [] type = "root"       -> now = 1 /\ saved = 0
             [] type = "saved_root" -> now = 0 /\ saved = 1)
      BY <3>3
    <3> QED BY <3>1, <3>2, <3>4 DEF now, saved, type
  <2> QED BY <2>4, <2>5 DEF NodesOwned
<1> QED BY <1>1, SaveStackInvariance, PTL

-----------------------------------------------------------------------------
(* Who has a meaning keeps it.                                             *)

\* What e refers to exists.
Alive(t, e) ==
    /\ e.eq_type = "macro" => t.mac[e.equiv].ref_count >= 0
    /\ e.eq_type = "tag" /\ e.equiv # null =>
          /\ t.root[e.equiv].name_type # "free"
          /\ t.root[e.equiv].value \in Macros => t.mac[t.root[e.equiv].value].ref_count >= 0

\* So it does for all that symbols mean, that is saved, called or read; and no
\* other entry owns the root of a symbol.
Lives(t, st, c, l) ==
    /\ t \in TabSet
    /\ \A q \in Symbols : Alive(t, t.eqtb[q])
    /\ \A i \in DOMAIN st : st[i].info = "symbol" => Alive(t, st[i].value)
    /\ \A i \in DOMAIN c : c[i].kind # "group" => c[i].m \in Macros /\ t.mac[c[i].m].ref_count >= 0
    /\ \A i \in DOMAIN l : l[i] \in Macros /\ t.mac[l[i]].ref_count >= 0
    /\ \A p \in Symbols, q \in Symbols, r \in Roots : Owns(t.eqtb[p], r) /\ Owns(t.eqtb[q], r) => p = q
    /\ \A q \in Symbols, i \in DOMAIN st, r \in Roots :
          Owns(t.eqtb[q], r) /\ st[i].info = "symbol" => ~Owns(st[i].value, r)

\* A set that has a member has a positive size.
LEMMA Positive ==
  ASSUME NEW S, IsFiniteSet(S), NEW a \in S
  PROVE  Cardinality(S) \in Nat /\ Cardinality(S) >= 1
<1>1. Cardinality(S) \in Nat /\ Cardinality(S) # 0
  BY FS_CardinalityType, FS_EmptySet
<1> QED BY <1>1

\* A macro with a holder is not free, nor is a root with an owner.
LEMMA HeldAlive ==
  ASSUME NEW t, NEW x \in [Macros -> Nat], NEW y, Fit(t, x, y), NEW m \in Macros,
         ~Unused(t, m) \/ x[m] > 0
  PROVE  t.mac[m].ref_count >= 0
<1>1. t \in TabSet /\ Balanced(t, x)
  BY DEF Fit
<1> DEFINE f == t.mac[m].ref_count  a == Cardinality(NowM(t, m))  b == Cardinality(DefM(t, m))
<1>2. a \in Nat /\ b \in Nat /\ f \in Int /\ f + 1 = a + b + x[m] /\ x[m] \in Nat
  BY <1>1, HolderSizes, TabIs DEF Balanced
<1>3. f # -1
  BY <1>2, UnusedIs
<1> HIDE DEF f, a, b
<1>4. f >= 0
  BY <1>2, <1>3
<1> QED BY <1>4 DEF f

LEMMA OwnedAlive ==
  ASSUME NEW t, NEW x, NEW y, Fit(t, x, y), NEW r \in Roots
  PROVE  /\ y[r] > 0 => t.root[r].name_type = "saved_root"
         /\ \A q \in Symbols : Owns(t.eqtb[q], r) => t.root[r].name_type = "root" /\ y[r] = 0
         /\ \A p \in Symbols, q \in Symbols : Owns(t.eqtb[p], r) /\ Owns(t.eqtb[q], r) => p = q
<1> DEFINE S == NowR(t, r)
<1>1. \/ t.root[r].name_type = "free"       /\ Cardinality(S) = 0 /\ y[r] = 0
      \/ t.root[r].name_type = "root"       /\ Cardinality(S) = 1 /\ y[r] = 0
      \/ t.root[r].name_type = "saved_root" /\ Cardinality(S) = 0 /\ y[r] = 1
  BY DEF Fit, Owned
<1>2. \A q \in Symbols : Owns(t.eqtb[q], r) => q \in S
  BY DEF NowR
<1>3. IsFiniteSet(S)
  <2>1. S \in SUBSET Symbols /\ IsFiniteSet(Symbols)
    BY SaveStackAssumption DEF SaveStackAssumption, NowR
  <2> HIDE DEF S
  <2> QED BY <2>1, FS_Subset
<1> HIDE DEF S
<1>4. Cardinality(S) = 1 => \E a : S = {a}
  BY <1>3, FS_Singleton
<1>5. Cardinality(S) = 0 => S = {}
  BY <1>3, FS_EmptySet
<1>6. y[r] > 0 => t.root[r].name_type = "saved_root"
  BY <1>1
<1>7. \A q \in S : t.root[r].name_type = "root" /\ y[r] = 0
  BY <1>1, <1>5
<1>8. \A p \in S, q \in S : p = q
  BY <1>1, <1>4, <1>5
<1> QED BY <1>2, <1>6, <1>7, <1>8

\* An entry that a symbol has, or that is counted elsewhere, refers to something.
LEMMA EntryAlive ==
  ASSUME NEW t, NEW x \in [Macros -> Nat], NEW y, Fit(t, x, y), NEW e \in EntrySet,
         \/ \E q \in Symbols : t.eqtb[q] = e
         \/ /\ \A m \in Macros : Holds(e, m) => x[m] > 0
            /\ \A r \in Roots : Owns(e, r) => y[r] > 0
  PROVE  Alive(t, e)
<1>1. t \in TabSet
  BY DEF Fit
<1>2. ASSUME e.eq_type = "macro" PROVE t.mac[e.equiv].ref_count >= 0
  <2> DEFINE m == e.equiv
  <2>1. m \in Macros /\ Holds(e, m)
    BY <1>2, EntryIs DEF Holds
  <2> HIDE DEF m
  <2>2. ~Unused(t, m) \/ x[m] > 0
    BY <2>1 DEF Unused
  <2>3. t.mac[m].ref_count >= 0
    BY <2>1, <2>2, HeldAlive
  <2> QED BY <2>3 DEF m
<1>3. ASSUME e.eq_type = "tag", e.equiv # null
      PROVE  /\ t.root[e.equiv].name_type # "free"
             /\ t.root[e.equiv].value \in Macros => t.mac[t.root[e.equiv].value].ref_count >= 0
  <2> DEFINE r == e.equiv  m == t.root[r].value
  <2>1. r \in Roots /\ Owns(e, r)
    BY <1>3, EntryIs DEF Owns
  <2> HIDE DEF r
  <2>2. t.root[r].name_type # "free"
    BY <2>1, OwnedAlive
  <2>3. m \in Macros => ~Unused(t, m)
    BY <2>1 DEF Unused
  <2> HIDE DEF m
  <2>4. m \in Macros => t.mac[m].ref_count >= 0
    BY <2>3, HeldAlive
  <2> QED BY <2>2, <2>4 DEF r, m
<1> QED BY <1>2, <1>3 DEF Alive

LEMMA Living ==
  ASSUME NEW t, NEW st, IsList(st), \A i \in DOMAIN st : ItemOK(st[i]),
         NEW c \in Seq(CallSet), NEW l \in Seq(Macros),
         Fit(t, Others(st, Len(st), Busy(c, Len(c), l, Len(l))), SavedRoots(st, Len(st)))
  PROVE  Lives(t, st, c, l)
<1> DEFINE n == Len(st)  k == Len(c)  h == Len(l)  b == Busy(c, k, l, h)
           x == Others(st, n, b)  y == SavedRoots(st, n)
<1>1. /\ n \in Nat /\ k \in Nat /\ h \in Nat /\ DOMAIN st = 1..n /\ DOMAIN c = 1..k /\ DOMAIN l = 1..h
      /\ \A i \in 1..k : c[i] \in CallSet
      /\ \A i \in 1..h : l[i] \in Macros
  BY ListHas
<1>2. Fit(t, x, y)
  OBVIOUS
<1> HIDE DEF n, k, h
<1>3. b \in [Macros -> Nat] /\ x \in [Macros -> Nat] /\ y \in [Roots -> Nat]
  <2>1. b \in [Macros -> Nat]
    BY <1>1, TallyTypes
  <2> HIDE DEF b
  <2> QED BY <1>1, <2>1, TallyTypes
<1>4. \A j \in Nat : IsFiniteSet(1..j)
  BY FS_Interval
<1>5. ASSUME NEW i \in 1..n, st[i].info = "symbol", NEW m \in Macros, Holds(st[i].value, m)
      PROVE  x[m] > 0
  <2> DEFINE S == SavM(st, n, m)
  <2>1. i \in S /\ S \in SUBSET (1..n)
    BY <1>5 DEF SavM
  <2>2. x[m] = Cardinality(S) + b[m] /\ b[m] \in Nat
    BY <1>3 DEF Others
  <2> HIDE DEF S, x, b
  <2>3. IsFiniteSet(S)
    BY <1>1, <1>4, <2>1, FS_Subset
  <2>4. Cardinality(S) \in Nat /\ Cardinality(S) >= 1
    BY <2>1, <2>3, Positive
  <2> QED BY <2>2, <2>4
<1>6. ASSUME NEW i \in 1..n, st[i].info = "symbol", NEW r \in Roots, Owns(st[i].value, r)
      PROVE  y[r] > 0
  <2> DEFINE S == SavR(st, n, r)
  <2>1. i \in S /\ S \in SUBSET (1..n)
    BY <1>6 DEF SavR
  <2>2. y[r] = Cardinality(S)
    BY DEF SavedRoots
  <2> HIDE DEF S, y
  <2>3. IsFiniteSet(S)
    BY <1>1, <1>4, <2>1, FS_Subset
  <2>4. Cardinality(S) \in Nat /\ Cardinality(S) >= 1
    BY <2>1, <2>3, Positive
  <2> QED BY <2>2, <2>4
<1>7. ASSUME NEW m \in Macros,
             (\E i \in 1..k : c[i].kind # "group" /\ c[i].m = m) \/ (\E i \in 1..h : l[i] = m)
      PROVE  x[m] > 0
  <2> DEFINE C == CallM(c, k, m)  R == ReadM(l, h, m)  H == HeldM(c, k, m)  T == SavM(st, n, m)
  <2>1. /\ C \in SUBSET (1..k) /\ R \in SUBSET (1..h) /\ H \in SUBSET (1..k) /\ T \in SUBSET (1..n)
        /\ C # {} \/ R # {}
    BY <1>7 DEF CallM, ReadM, HeldM, SavM
  <2>2. x[m] = Cardinality(T) + (Cardinality(C) + Cardinality(H) + Cardinality(R))
    BY DEF Others, Busy
  <2> HIDE DEF C, R, H, T, x
  <2>3. IsFiniteSet(C) /\ IsFiniteSet(R) /\ IsFiniteSet(H) /\ IsFiniteSet(T)
    BY <1>1, <1>4, <2>1, FS_Subset
  <2>4. Cardinality(C) \in Nat /\ Cardinality(R) \in Nat /\ Cardinality(H) \in Nat /\ Cardinality(T) \in Nat
    BY <2>3, FS_CardinalityType
  <2>5. Cardinality(C) >= 1 \/ Cardinality(R) >= 1
    BY <2>1, <2>3, Positive
  <2> QED BY <2>2, <2>4, <2>5
<1> HIDE DEF b, x, y
<1>8. t \in TabSet
  BY <1>2 DEF Fit
<1>9. \A q \in Symbols : Alive(t, t.eqtb[q])
  BY <1>2, <1>3, <1>8, TabIs, EntryAlive
<1>10. ASSUME NEW i \in DOMAIN st, st[i].info = "symbol" PROVE Alive(t, st[i].value)
  <2> DEFINE e == st[i].value
  <2>1. e \in EntrySet
    BY <1>10 DEF ItemOK
  <2>2. (\A m \in Macros : Holds(e, m) => x[m] > 0) /\ (\A r \in Roots : Owns(e, r) => y[r] > 0)
    BY <1>1, <1>5, <1>6, <1>10
  <2> HIDE DEF e
  <2>3. Alive(t, e)
    BY <1>2, <1>3, <2>1, <2>2, EntryAlive
  <2> QED BY <2>3 DEF e
<1>11. ASSUME NEW m \in Macros, x[m] > 0 PROVE t.mac[m].ref_count >= 0
  BY <1>2, <1>3, <1>11, HeldAlive
<1>12. \A i \in DOMAIN c : c[i].kind # "group" => c[i].m \in Macros /\ t.mac[c[i].m].ref_count >= 0
  <2>1. \A i \in DOMAIN c : c[i].kind # "group" => c[i].m \in Macros
    BY <1>1 DEF CallSet
  <2> QED BY <1>1, <1>7, <1>11, <2>1
<1>13. \A i \in DOMAIN l : l[i] \in Macros /\ t.mac[l[i]].ref_count >= 0
  BY <1>1, <1>7, <1>11
<1>14. \A p \in Symbols, q \in Symbols, r \in Roots : Owns(t.eqtb[p], r) /\ Owns(t.eqtb[q], r) => p = q
  BY <1>2, OwnedAlive
<1>15. ASSUME NEW q \in Symbols, NEW i \in DOMAIN st, NEW r \in Roots,
              Owns(t.eqtb[q], r), st[i].info = "symbol", Owns(st[i].value, r)
       PROVE  FALSE
  <2>1. y[r] = 0
    BY <1>2, <1>15, OwnedAlive
  <2>2. y[r] > 0
    BY <1>1, <1>6, <1>15
  <2> QED BY <2>1, <2>2
<1> QED BY <1>8, <1>9, <1>10, <1>12, <1>13, <1>14, <1>15 DEF Lives

\* What table u still has of table t: the texts of the macros outside F and the
\* values of the roots outside R, unless they are freed.
Keeps(t, u, F, R) ==
    /\ \A m \in Macros \ F : u.mac[m].ref_count >= 0 =>
          t.mac[m].ref_count >= 0 /\ u.mac[m].body = t.mac[m].body
    /\ \A r \in Roots \ R : u.root[r].name_type # "free" =>
          t.root[r].name_type # "free" /\ u.root[r].value = t.root[r].value

LEMMA KeepsTwice ==
  ASSUME NEW t, NEW u, NEW v, NEW F, NEW R, NEW E, NEW S, Keeps(t, u, F, R), Keeps(u, v, E, S)
  PROVE  Keeps(t, v, F \cup E, R \cup S)
  BY DEF Keeps

\* An entry that refers to something before and after keeps its meaning.
LEMMA SameMeaning ==
  ASSUME NEW t, NEW u, NEW F, NEW R, Keeps(t, u, F, R), t \in TabSet,
         \A m \in F : m \in Macros => t.mac[m].ref_count < 0,
         NEW e \in EntrySet, Alive(t, e), Alive(u, e), \A r \in R : ~Owns(e, r)
  PROVE  Meaning(u, e) = Meaning(t, e)
<1> SUFFICES Of(u, e) = Of(t, e)
  BY DEF Meaning
<1>1. \A m \in Macros : t.mac[m].ref_count \in Int
  BY TabIs
<1>2. ASSUME NEW m \in Macros, t.mac[m].ref_count >= 0, u.mac[m].ref_count >= 0
      PROVE  Body(u, m) = Body(t, m)
  <2>1. m \notin F
    BY <1>1, <1>2
  <2> QED BY <1>2, <2>1 DEF Keeps, Body
<1>3. CASE e.eq_type = "macro"
  <2>1. e.equiv \in Macros
    BY <1>3, EntryIs
  <2>2. Body(u, e.equiv) = Body(t, e.equiv)
    BY <1>2, <1>3, <2>1 DEF Alive
  <2> QED BY <1>3, <2>2 DEF Of
<1>4. CASE e.eq_type = "internal"
  BY <1>4 DEF Of
<1>5. CASE e.eq_type = "tag" /\ e.equiv = null
  BY <1>5 DEF Of
<1>6. CASE e.eq_type = "tag" /\ e.equiv # null
  <2> DEFINE r == e.equiv  m == t.root[r].value
  <2>1. r \in Roots /\ Owns(e, r)
    BY <1>6, EntryIs DEF Owns
  <2>2. r \notin R
    BY <2>1
  <2>3. u.root[r].name_type # "free"
    BY <1>6 DEF Alive
  <2>4. u.root[r].value = m
    BY <2>1, <2>2, <2>3 DEF Keeps
  <2>5. m \in Macros => t.mac[m].ref_count >= 0 /\ u.mac[m].ref_count >= 0
    BY <1>6, <2>4 DEF Alive
  <2>6. m \in Macros => Body(u, m) = Body(t, m)
    <3> HIDE DEF m
    <3> QED BY <1>2, <2>5
  <2>7. /\ Of(u, e) = IF u.root[r].value \in Macros THEN Body(u, u.root[r].value) ELSE u.root[r].value
        /\ Of(t, e) = IF m \in Macros THEN Body(t, m) ELSE m
    BY <1>6 DEF Of
  <2> QED BY <2>4, <2>6, <2>7
<1>7. e.eq_type \in {"tag", "macro", "internal"}
  BY EntryIs
<1> QED BY <1>3, <1>4, <1>5, <1>6, <1>7

\* What the tables keep when one of their entries changes.
LEMMA KeepsSet ==
  ASSUME NEW t \in TabSet
  PROVE  /\ Keeps(t, t, {}, {})
         /\ \A p \in Symbols : \A e \in EntrySet : Keeps(t, SetEqtb(t, p, e), {}, {})
         /\ \A m \in Macros : \A c \in MacSet : Keeps(t, SetMac(t, m, c), {m}, {})
         /\ \A r \in Roots : \A c \in RootSet : Keeps(t, SetRoot(t, r, c), {}, {r})
<1>1. Keeps(t, t, {}, {})
  BY DEF Keeps
<1>2. ASSUME NEW p \in Symbols, NEW e \in EntrySet PROVE Keeps(t, SetEqtb(t, p, e), {}, {})
  BY EqtbSet1 DEF Keeps
<1>3. ASSUME NEW m \in Macros, NEW c \in MacSet PROVE Keeps(t, SetMac(t, m, c), {m}, {})
  BY MacSet1 DEF Keeps
<1>4. ASSUME NEW r \in Roots, NEW c \in RootSet PROVE Keeps(t, SetRoot(t, r, c), {}, {r})
  BY RootSet1 DEF Keeps
<1> QED BY <1>1, <1>2, <1>3, <1>4

\* Another count, no higher or of a macro that was there, leaves the text.
LEMMA KeepsMac ==
  ASSUME NEW t \in TabSet, NEW m \in Macros, NEW c \in MacSet,
         c.ref_count >= 0 => t.mac[m].ref_count >= 0 /\ c.body = t.mac[m].body
  PROVE  Keeps(t, SetMac(t, m, c), {}, {})
<1> DEFINE u == SetMac(t, m, c)
<1>1. u.root = t.root /\ u.mac[m] = c /\ \A n \in Macros : n # m => u.mac[n] = t.mac[n]
  BY MacSet1
<1> HIDE DEF u
<1>2. \A n \in Macros : u.mac[n].ref_count >= 0 =>
          t.mac[n].ref_count >= 0 /\ u.mac[n].body = t.mac[n].body
  <2> TAKE n \in Macros
  <2>1. CASE n = m
    BY <1>1, <2>1
  <2>2. CASE n # m
    BY <1>1, <2>2
  <2> QED BY <2>1, <2>2
<1> QED BY <1>1, <1>2 DEF Keeps, u

\* Another type, of a root that was there, leaves its value.
LEMMA KeepsRoot ==
  ASSUME NEW t \in TabSet, NEW r \in Roots, NEW c \in RootSet,
         c.name_type # "free" => t.root[r].name_type # "free" /\ c.value = t.root[r].value
  PROVE  Keeps(t, SetRoot(t, r, c), {}, {})
<1> DEFINE u == SetRoot(t, r, c)
<1>1. u.mac = t.mac /\ u.root[r] = c /\ \A n \in Roots : n # r => u.root[n] = t.root[n]
  BY RootSet1
<1> HIDE DEF u
<1>2. \A n \in Roots : u.root[n].name_type # "free" =>
          t.root[n].name_type # "free" /\ u.root[n].value = t.root[n].value
  <2> TAKE n \in Roots
  <2>1. CASE n = r
    BY <1>1, <2>1
  <2>2. CASE n # r
    BY <1>1, <2>2
  <2> QED BY <2>1, <2>2
<1> QED BY <1>1, <1>2 DEF Keeps, u

LEMMA KeepsDelete ==
  ASSUME NEW t \in TabSet, NEW m \in Macros
  PROVE  /\ delete_mac_ref(t, m) \in TabSet /\ Keeps(t, delete_mac_ref(t, m), {}, {})
         /\ delete_mac_ref(t, m).eqtb = t.eqtb /\ delete_mac_ref(t, m).root = t.root
<1> DEFINE old == t.mac[m]  c == [old EXCEPT !.ref_count = @ - 1]
<1>1. old \in MacSet /\ old.ref_count \in Int
  BY TabIs
<1>2. FreeMac \in MacSet /\ FreeMac.ref_count = -1
  BY DEF FreeMac, MacSet
<1>3. c \in MacSet /\ c.ref_count = old.ref_count - 1 /\ c.body = old.body
  <2> HIDE DEF old
  <2> QED BY <1>1 DEF MacSet
<1>4. delete_mac_ref(t, m) = SetMac(t, m, IF old.ref_count = 0 THEN FreeMac ELSE c)
  BY DEF delete_mac_ref, SetMac
<1> HIDE DEF c
<1>5. CASE old.ref_count = 0
  <2>1. delete_mac_ref(t, m) = SetMac(t, m, FreeMac)
    BY <1>4, <1>5
  <2> QED BY <1>2, <2>1, KeepsMac, MacSet1
<1>6. CASE old.ref_count # 0
  <2>1. delete_mac_ref(t, m) = SetMac(t, m, c)
    BY <1>4, <1>6
  <2>2. c.ref_count >= 0 => old.ref_count >= 0
    <3> HIDE DEF old
    <3> QED BY <1>1, <1>3
  <2> QED BY <1>3, <2>1, <2>2, KeepsMac, MacSet1
<1> QED BY <1>5, <1>6

LEMMA KeepsAdd ==
  ASSUME NEW t \in TabSet, NEW m \in Macros, t.mac[m].ref_count >= 0
  PROVE  /\ add_mac_ref(t, m) \in TabSet /\ Keeps(t, add_mac_ref(t, m), {}, {})
         /\ add_mac_ref(t, m).eqtb = t.eqtb /\ add_mac_ref(t, m).root = t.root
<1> DEFINE old == t.mac[m]  c == [old EXCEPT !.ref_count = @ + 1]
<1>1. old \in MacSet /\ old.ref_count \in Int
  BY TabIs
<1>2. c \in MacSet /\ c.body = old.body
  <2> HIDE DEF old
  <2> QED BY <1>1 DEF MacSet
<1>3. add_mac_ref(t, m) = SetMac(t, m, c)
  BY DEF add_mac_ref, SetMac
<1> HIDE DEF c
<1> QED BY <1>2, <1>3, KeepsMac, MacSet1

\* A recycled root loses its value, and nothing else is lost but a macro.
LEMMA KeepsRecycle ==
  ASSUME NEW t \in TabSet, NEW r \in Roots
  PROVE  /\ recycle_value(t, r) \in TabSet /\ Keeps(t, recycle_value(t, r), {}, {r})
         /\ recycle_value(t, r).eqtb = t.eqtb
         /\ recycle_value(t, r).root[r].value = "plain"
         /\ \A n \in Roots : n # r => recycle_value(t, r).root[n] = t.root[n]
<1> DEFINE old == t.root[r]  m == old.value  c == [old EXCEPT !.value = "plain"]
           u == SetRoot(t, r, c)
<1>1. old \in RootSet
  BY TabIs
<1>2. c \in RootSet /\ c.value = "plain"
  <2> HIDE DEF old
  <2> QED BY <1>1 DEF RootSet
<1>3. recycle_value(t, r) = IF m \in Macros THEN delete_mac_ref(u, m) ELSE u
  BY DEF recycle_value, SetRoot
<1> HIDE DEF c, m
<1>4. /\ u \in TabSet /\ Keeps(t, u, {}, {r}) /\ u.eqtb = t.eqtb /\ u.root[r] = c
      /\ \A n \in Roots : n # r => u.root[n] = t.root[n]
  BY <1>2, RootSet1, KeepsSet
<1> HIDE DEF u
<1>5. CASE m \in Macros
  <2>1. recycle_value(t, r) = delete_mac_ref(u, m)
    BY <1>3, <1>5
  <2>2. /\ delete_mac_ref(u, m) \in TabSet /\ Keeps(u, delete_mac_ref(u, m), {}, {})
        /\ delete_mac_ref(u, m).eqtb = u.eqtb /\ delete_mac_ref(u, m).root = u.root
    BY <1>4, <1>5, KeepsDelete
  <2>3. Keeps(t, delete_mac_ref(u, m), {} \cup {}, {r} \cup {})
    BY <1>4, <2>2, KeepsTwice
  <2>4. Keeps(t, delete_mac_ref(u, m), {}, {r})
    BY <2>3
  <2> QED BY <1>2, <1>4, <2>1, <2>2, <2>4
<1>6. CASE m \notin Macros
  <2>1. recycle_value(t, r) = u
    BY <1>3, <1>6
  <2> QED BY <1>2, <1>4, <2>1
<1> QED BY <1>5, <1>6

LEMMA KeepsFlush ==
  ASSUME NEW t \in TabSet, NEW r \in Roots
  PROVE  /\ flush_root(t, r) \in TabSet /\ Keeps(t, flush_root(t, r), {}, {})
         /\ flush_root(t, r).eqtb = t.eqtb
<1> DEFINE v == recycle_value(t, r)  u == SetRoot(v, r, FreeRoot)
<1>1. v \in TabSet /\ Keeps(t, v, {}, {r}) /\ v.eqtb = t.eqtb
  BY KeepsRecycle
<1>2. flush_root(t, r) = u
  BY DEF flush_root, SetRoot
<1> HIDE DEF v
<1>3. FreeRoot \in RootSet /\ FreeRoot.name_type = "free"
  BY DEF FreeRoot, RootSet
<1>4. /\ u \in TabSet /\ u.eqtb = v.eqtb /\ u.mac = v.mac /\ u.root[r] = FreeRoot
      /\ \A n \in Roots : n # r => u.root[n] = v.root[n]
  BY <1>1, <1>3, RootSet1
<1> HIDE DEF u
<1>5. Keeps(t, u, {}, {})
  BY <1>1, <1>3, <1>4 DEF Keeps
<1> QED BY <1>1, <1>2, <1>4, <1>5

\* A cleared symbol takes nothing from the others.
LEMMA KeepsClear ==
  ASSUME NEW t \in TabSet, NEW p \in Symbols
  PROVE  LET u == clear_symbol(t, p, FALSE) IN
         /\ u \in TabSet /\ Keeps(t, u, {}, {}) /\ u.eqtb[p] = frozen_undefined
         /\ \A n \in Symbols : n # p => u.eqtb[n] = t.eqtb[n]
<1> DEFINE e == t.eqtb[p]  q == e.equiv
           v == IF e.eq_type = "macro" THEN delete_mac_ref(t, q)
                ELSE IF e.eq_type = "tag" /\ q # null THEN flush_root(t, q) ELSE t
           u == clear_symbol(t, p, FALSE)
<1>1. /\ e.eq_type \in {"tag", "macro", "internal"}
      /\ e.eq_type = "tag" => q \in Roots \cup {null}
      /\ e.eq_type = "macro" => q \in Macros
  <2>1. e \in EntrySet
    BY TabIs
  <2> HIDE DEF e
  <2> QED BY <2>1, EntryIs
<1>2. u = SetEqtb(v, p, frozen_undefined)
  BY DEF clear_symbol, SetEqtb
<1> HIDE DEF u
<1>3. v \in TabSet /\ Keeps(t, v, {}, {}) /\ v.eqtb = t.eqtb
  <2>1. CASE e.eq_type = "macro"
    <3>1. v = delete_mac_ref(t, q) /\ q \in Macros
      BY <1>1, <2>1
    <3> HIDE DEF v, q
    <3> QED BY <3>1, KeepsDelete
  <2>2. CASE e.eq_type = "tag" /\ q # null
    <3>1. v = flush_root(t, q) /\ q \in Roots
      BY <1>1, <2>2
    <3> HIDE DEF v, q
    <3> QED BY <3>1, KeepsFlush
  <2>3. CASE e.eq_type # "macro" /\ ~(e.eq_type = "tag" /\ q # null)
    <3>1. v = t
      BY <2>3
    <3> HIDE DEF v
    <3> QED BY <3>1, KeepsSet
  <2> QED BY <2>1, <2>2, <2>3
<1> HIDE DEF v
<1>4. frozen_undefined \in EntrySet
  BY Frozen
<1>5. /\ u \in TabSet /\ u.eqtb[p] = frozen_undefined
      /\ \A n \in Symbols : n # p => u.eqtb[n] = v.eqtb[n]
  BY <1>2, <1>3, <1>4, EqtbSet1
<1>6. Keeps(v, u, {}, {})
  BY <1>2, <1>3, <1>4, KeepsSet
<1>7. Keeps(t, u, {} \cup {}, {} \cup {})
  BY <1>3, <1>6, KeepsTwice
<1>8. Keeps(t, u, {}, {})
  BY <1>7
<1> QED BY <1>3, <1>5, <1>8 DEF u

\* Nor does a symbol that is saved.
LEMMA KeepsSaved ==
  ASSUME NEW t \in TabSet, NEW p \in Symbols, Alive(t, t.eqtb[p])
  PROVE  LET u == clear_symbol(t, p, TRUE) IN
         /\ u \in TabSet /\ Keeps(t, u, {}, {}) /\ u.eqtb[p] = frozen_undefined
         /\ \A n \in Symbols : n # p => u.eqtb[n] = t.eqtb[n]
<1> DEFINE e == t.eqtb[p]  q == e.equiv  old == t.root[q]  c == [old EXCEPT !.name_type = "saved_root"]
           v == IF e.eq_type = "tag" /\ q # null THEN SetRoot(t, q, c) ELSE t
           u == clear_symbol(t, p, TRUE)
<1>1. e.eq_type = "tag" => q \in Roots \cup {null}
  <2>1. e \in EntrySet
    BY TabIs
  <2> HIDE DEF e
  <2> QED BY <2>1, EntryIs
<1>2. u = SetEqtb(v, p, frozen_undefined)
  BY DEF clear_symbol, SetEqtb, SetRoot
<1> HIDE DEF u
<1>3. v \in TabSet /\ Keeps(t, v, {}, {}) /\ v.eqtb = t.eqtb
  <2>1. CASE e.eq_type = "tag" /\ q # null
    <3>1. q \in Roots /\ old.name_type # "free"
      BY <1>1, <2>1 DEF Alive
    <3>2. old \in RootSet
      BY <3>1, TabIs
    <3>3. c \in RootSet /\ c.value = old.value
      <4> HIDE DEF old
      <4> QED BY <3>2 DEF RootSet
    <3>4. v = SetRoot(t, q, c)
      BY <2>1
    <3> HIDE DEF v, c, q
    <3> QED BY <3>1, <3>3, <3>4, KeepsRoot, RootSet1
  <2>2. CASE ~(e.eq_type = "tag" /\ q # null)
    <3>1. v = t
      BY <2>2
    <3> HIDE DEF v
    <3> QED BY <3>1, KeepsSet
  <2> QED BY <2>1, <2>2
<1> HIDE DEF v
<1>4. frozen_undefined \in EntrySet
  BY Frozen
<1>5. /\ u \in TabSet /\ u.eqtb[p] = frozen_undefined
      /\ \A n \in Symbols : n # p => u.eqtb[n] = v.eqtb[n]
  BY <1>2, <1>3, <1>4, EqtbSet1
<1>6. Keeps(v, u, {}, {})
  BY <1>2, <1>3, <1>4, KeepsSet
<1>7. Keeps(t, u, {} \cup {}, {} \cup {})
  BY <1>3, <1>6, KeepsTwice
<1>8. Keeps(t, u, {}, {})
  BY <1>7
<1> QED BY <1>3, <1>5, <1>8 DEF u

\* A symbol that gets its saved meaning back.
Tables(s)    == DOMAIN s = {"tab", "internal"}
Backed(e, y) == \A r \in Roots : Owns(e, r) => y[r] > 0
Restored(s, item, d) ==
    /\ DOMAIN d = {"tab", "internal"} /\ d.internal = s.internal
    /\ d.tab \in TabSet /\ Keeps(s.tab, d.tab, {}, {}) /\ d.tab.eqtb[item.q] = item.value
    /\ \A n \in Symbols : n # item.q => d.tab.eqtb[n] = s.tab.eqtb[n]

LEMMA KeepsRestored ==
  ASSUME NEW s, Tables(s), NEW x, NEW y, Fit(s.tab, x, y),
         NEW item, item.info = "symbol", item.q \in Symbols, item.value \in EntrySet, Backed(item.value, y)
  PROVE  Restored(s, item, restore(s, item))
<1> DEFINE p == item.q  e == item.value  t == clear_symbol(s.tab, p, FALSE)  v == SetEqtb(t, p, e)
           r == e.equiv  old == v.root[r]  c == [old EXCEPT !.name_type = "root"]
           u == IF e.eq_type = "tag" /\ r # null THEN SetRoot(v, r, c) ELSE v
<1>1. restore(s, item) = [s EXCEPT !.tab = u]
  BY DEF restore, SetEqtb, SetRoot
<1>2. s.tab \in TabSet /\ p \in Symbols /\ e \in EntrySet
  BY DEF Fit
<1>3. /\ DOMAIN restore(s, item) = {"tab", "internal"} /\ restore(s, item).internal = s.internal
      /\ restore(s, item).tab = u
  <2> HIDE DEF u
  <2> QED BY <1>1 DEF Tables
<1> HIDE DEF p, e, u
<1>4. /\ t \in TabSet /\ Keeps(s.tab, t, {}, {})
      /\ \A n \in Symbols : n # p => t.eqtb[n] = s.tab.eqtb[n]
  BY <1>2, KeepsClear
<1>5. Fit(t, x, y)
  BY <1>2, Clear
<1> HIDE DEF t
<1>6. /\ v \in TabSet /\ Keeps(t, v, {}, {}) /\ v.root = t.root /\ v.eqtb[p] = e
      /\ \A n \in Symbols : n # p => v.eqtb[n] = t.eqtb[n]
  BY <1>2, <1>4, KeepsSet, EqtbSet1
<1> HIDE DEF v
<1>7. u \in TabSet /\ Keeps(v, u, {}, {}) /\ u.eqtb = v.eqtb
  <2>1. CASE e.eq_type = "tag" /\ r # null
    <3>1. r \in Roots /\ Owns(e, r)
      BY <1>2, <2>1, EntryIs DEF Owns
    <3>2. t.root[r].name_type = "saved_root"
      BY <1>5, <3>1, OwnedAlive DEF e, Backed
    <3>3. old \in RootSet /\ old.name_type # "free"
      BY <1>6, <3>1, <3>2, TabIs
    <3>4. c \in RootSet /\ c.value = old.value
      <4> HIDE DEF old
      <4> QED BY <3>3 DEF RootSet
    <3>5. u = SetRoot(v, r, c)
      BY <2>1 DEF u
    <3> HIDE DEF c, r
    <3> QED BY <1>6, <3>1, <3>3, <3>4, <3>5, KeepsRoot, RootSet1
  <2>2. CASE ~(e.eq_type = "tag" /\ r # null)
    <3>1. u = v
      BY <2>2 DEF u
    <3> QED BY <1>6, <3>1, KeepsSet
  <2> QED BY <2>1, <2>2
<1>8. Keeps(s.tab, v, {} \cup {}, {} \cup {})
  BY <1>4, <1>6, KeepsTwice
<1>9. Keeps(s.tab, u, ({} \cup {}) \cup {}, ({} \cup {}) \cup {})
  BY <1>7, <1>8, KeepsTwice
<1>10. Keeps(s.tab, u, {}, {})
  BY <1>9
<1> QED BY <1>3, <1>4, <1>6, <1>7, <1>10 DEF p, e, Restored

-----------------------------------------------------------------------------
(* The abstract state.                                                     *)

Env(t)             == [q \in Symbols |-> Meaning(t, t.eqtb[q])]
UnderWay(t, st, c) == [n \in DOMAIN c |-> CallFrame(t, st, c, n)]
Texts(t, l)        == [n \in DOMAIN l |-> Body(t, l[n])]

\* The table changes, F and R apart, and F is of macros that were free.
Shared(t, u, F, R) == /\ Keeps(t, u, F, R) /\ t \in TabSet
                      /\ \A m \in F : m \in Macros => t.mac[m].ref_count < 0

\* What is there before and after means the same: a symbol, a saved symbol, a
\* macro that is called or read.
LEMMA SameSymbol ==
  ASSUME NEW t, NEW u, NEW F, NEW R, Shared(t, u, F, R), NEW st, NEW c, NEW l, Lives(t, st, c, l),
         NEW su, NEW d, NEW k, Lives(u, su, d, k),
         NEW q \in Symbols, u.eqtb[q] = t.eqtb[q], \A r \in R : ~Owns(t.eqtb[q], r)
  PROVE  Meaning(u, u.eqtb[q]) = Meaning(t, t.eqtb[q])
<1>1. t.eqtb[q] \in EntrySet /\ Alive(t, t.eqtb[q]) /\ Alive(u, t.eqtb[q])
  BY TabIs DEF Shared, Lives
<1> QED BY <1>1, SameMeaning DEF Shared

LEMMA SameItem ==
  ASSUME NEW t, NEW u, NEW F, NEW R, Shared(t, u, F, R), NEW st, NEW c, NEW l, Lives(t, st, c, l),
         NEW su, NEW d, NEW k, Lives(u, su, d, k),
         NEW i \in DOMAIN st, i \in DOMAIN su, su[i] = st[i], ItemOK(st[i]), st[i].info = "symbol",
         \A r \in R : ~Owns(st[i].value, r)
  PROVE  Meaning(u, st[i].value) = Meaning(t, st[i].value)
<1> DEFINE e == st[i].value
<1>1. e \in EntrySet /\ Alive(t, e) /\ Alive(u, e)
  BY DEF Lives, ItemOK
<1>2. \A r \in R : ~Owns(e, r)
  OBVIOUS
<1> HIDE DEF e
<1>3. Meaning(u, e) = Meaning(t, e)
  BY <1>1, <1>2, SameMeaning DEF Shared
<1> QED BY <1>3 DEF e

LEMMA SameBody ==
  ASSUME NEW t, NEW u, NEW F, NEW R, Shared(t, u, F, R),
         NEW m \in Macros, t.mac[m].ref_count >= 0, u.mac[m].ref_count >= 0
  PROVE  Body(u, m) = Body(t, m)
<1>1. t.mac[m].ref_count \in Int
  BY TabIs DEF Shared
<1>2. m \notin F
  BY <1>1 DEF Shared
<1> QED BY <1>2 DEF Shared, Keeps, Body

LEMMA SameText ==
  ASSUME NEW t, NEW u, NEW F, NEW R, Shared(t, u, F, R), NEW st, NEW c, NEW l, Lives(t, st, c, l),
         NEW su, NEW d, NEW k, Lives(u, su, d, k), NEW i \in DOMAIN l, i \in DOMAIN k, k[i] = l[i]
  PROVE  Body(u, k[i]) = Body(t, l[i])
<1> DEFINE m == l[i]
<1>1. m \in Macros /\ t.mac[m].ref_count >= 0 /\ u.mac[m].ref_count >= 0 /\ k[i] = m
  BY DEF Lives
<1> HIDE DEF m
<1>2. Body(u, m) = Body(t, m)
  BY <1>1, SameBody
<1> QED BY <1>1, <1>2 DEF m

\* A call under way looks the same if its group has the same frame.
LEMMA SameCall ==
  ASSUME NEW t, NEW u, NEW F, NEW R, Shared(t, u, F, R), NEW st, NEW c, NEW l, Lives(t, st, c, l),
         NEW su, NEW d, NEW k, Lives(u, su, d, k), NEW n \in Nat, n \in DOMAIN c, n \in DOMAIN d,
         n >= 1, \A i \in 1..n : d[i] = c[i],
         c[n].kind = "group" => GroupFrame(u, su, Cardinality(GroupsIn(c, n)))
                                = GroupFrame(t, st, Cardinality(GroupsIn(c, n)))
  PROVE  CallFrame(u, su, d, n) = CallFrame(t, st, c, n)
<1>1. d[n] = c[n] /\ GroupsIn(d, n) = GroupsIn(c, n)
  BY DEF GroupsIn
<1>2. CASE c[n].kind = "group"
  BY <1>1, <1>2 DEF CallFrame
<1>3. CASE c[n].kind # "group"
  <2> DEFINE m == c[n].m
  <2>1. m \in Macros /\ t.mac[m].ref_count >= 0 /\ u.mac[m].ref_count >= 0
    BY <1>1, <1>3 DEF Lives
  <2> HIDE DEF m
  <2>2. Body(u, m) = Body(t, m)
    BY <2>1, SameBody
  <2>3. d[n].kind # "group" /\ d[n].kind = c[n].kind /\ d[n].m = m /\ c[n].m = m
    BY <1>1, <1>3 DEF m
  <2>4. CallFrame(t, st, c, n) = [kind |-> c[n].kind, body |-> Body(t, m)]
    BY <1>3, <2>3 DEF CallFrame
  <2>5. CallFrame(u, su, d, n) = [kind |-> c[n].kind, body |-> Body(u, m)]
    BY <2>3 DEF CallFrame
  <2> QED BY <2>2, <2>4, <2>5
<1> QED BY <1>2, <1>3

\* The least of a set of numbers.
LEMMA MinIs ==
  ASSUME NEW A, A \subseteq Nat, A # {}
  PROVE  Min(A) \in A /\ \A j \in A : Min(A) <= j
<1>1. \E i \in A : \A j \in A : i <= j
  BY Least
<1> QED BY <1>1 DEF Min

LEMMA SavedIs ==
  ASSUME NEW st, IsList(st), NEW n, NEW kind, NEW x
  PROVE  /\ SavedBy(st, n, kind, x) \subseteq 1..Len(st)
         /\ \A i \in SavedBy(st, n, kind, x) : i \in DOMAIN st /\ st[i].info = kind /\ st[i].q = x
         /\ SavedBy(st, n, kind, x) # {} =>
               Min(SavedBy(st, n, kind, x)) \in SavedBy(st, n, kind, x)
<1> DEFINE A == SavedBy(st, n, kind, x)
<1>1. Len(st) \in Nat /\ DOMAIN st = 1..Len(st)
  BY ListHas
<1>2. A \subseteq 1..Len(st) /\ \A i \in A : i \in DOMAIN st /\ st[i].info = kind /\ st[i].q = x
  BY <1>1 DEF SavedBy
<1> HIDE DEF A
<1>3. A # {} => Min(A) \in A
  <2>1. A \subseteq Nat
    BY <1>1, <1>2
  <2> QED BY <2>1, MinIs
<1> QED BY <1>2, <1>3 DEF A

\* A group that saved the same items, of the same meanings, has the same frame.
LEMMA SameFrame ==
  ASSUME NEW t, NEW u, NEW st, NEW su, NEW n, IsList(st),
         \A kind \in {"symbol", "internal"} : \A x :
            /\ SavedBy(su, n, kind, x) = SavedBy(st, n, kind, x)
            /\ \A i \in SavedBy(st, n, kind, x) : su[i] = st[i],
         \A x \in Symbols : \A i \in SavedBy(st, n, "symbol", x) :
            Meaning(u, st[i].value) = Meaning(t, st[i].value)
  PROVE  GroupFrame(u, su, n) = GroupFrame(t, st, n)
<1>1. \A x : /\ SavedBy(su, n, "symbol", x) = SavedBy(st, n, "symbol", x)
             /\ SavedBy(su, n, "internal", x) = SavedBy(st, n, "internal", x)
  OBVIOUS
<1>2. ASSUME NEW x, SavedBy(st, n, "symbol", x) # {}
      PROVE  FirstSaved(su, n, "symbol", x) = FirstSaved(st, n, "symbol", x)
  BY <1>2, SavedIs DEF FirstSaved
<1>3. ASSUME NEW x, SavedBy(st, n, "internal", x) # {}
      PROVE  FirstSaved(su, n, "internal", x) = FirstSaved(st, n, "internal", x)
  BY <1>3, SavedIs DEF FirstSaved
<1>4. ASSUME NEW x \in Symbols, SavedBy(st, n, "symbol", x) # {}
      PROVE  Meaning(u, FirstSaved(su, n, "symbol", x)) = Meaning(t, FirstSaved(st, n, "symbol", x))
  <2>1. Meaning(u, FirstSaved(st, n, "symbol", x)) = Meaning(t, FirstSaved(st, n, "symbol", x))
    BY <1>4, SavedIs DEF FirstSaved
  <2> QED BY <1>2, <1>4, <2>1
<1> DEFINE D(s) == {q \in Symbols : SavedBy(s, n, "symbol", q) # {}}
           E(s) == {i \in Internals : SavedBy(s, n, "internal", i) # {}}
           f(v, s) == [q \in D(s) |-> Meaning(v, FirstSaved(s, n, "symbol", q))]
           g(s) == [i \in E(s) |-> FirstSaved(s, n, "internal", i)]
<1>5. D(su) = D(st) /\ E(su) = E(st)
  BY <1>1
<1>6. f(u, su) = f(t, st)
  <2>1. \A q \in D(st) : Meaning(u, FirstSaved(su, n, "symbol", q)) = Meaning(t, FirstSaved(st, n, "symbol", q))
    BY <1>4
  <2> HIDE DEF D
  <2> QED BY <1>5, <2>1
<1>7. g(su) = g(st)
  <2>1. \A i \in E(st) : FirstSaved(su, n, "internal", i) = FirstSaved(st, n, "internal", i)
    BY <1>3
  <2> HIDE DEF E
  <2> QED BY <1>5, <2>1
<1>8. /\ GroupFrame(u, su, n) = [kind |-> "group", symbols |-> f(u, su), internals |-> g(su)]
      /\ GroupFrame(t, st, n) = [kind |-> "group", symbols |-> f(t, st), internals |-> g(st)]
  BY DEF GroupFrame
<1> HIDE DEF f, g
<1> QED BY <1>6, <1>7, <1>8

\* Boundaries, and groups under way, among the first of a list.
LEMMA CountsGrow ==
  ASSUME NEW i \in Nat, NEW j \in Nat, i <= j, NEW A \in SUBSET (1..i), NEW B \in SUBSET (1..j), A \subseteq B
  PROVE  /\ Cardinality(A) \in Nat /\ Cardinality(B) \in Nat /\ Cardinality(A) <= Cardinality(B)
         /\ (\E b \in B : b > i) => Cardinality(A) < Cardinality(B)
<1>1. IsFiniteSet(1..j) /\ IsFiniteSet(1..i)
  BY FS_Interval
<1>2. IsFiniteSet(B) /\ IsFiniteSet(A)
  BY <1>1, FS_Subset
<1>3. /\ Cardinality(A) <= Cardinality(B) /\ Cardinality(A) \in Nat /\ Cardinality(B) \in Nat
      /\ Cardinality(B) = Cardinality(A) => B = A
  <2>1. A \in SUBSET B
    OBVIOUS
  <2> QED BY <1>2, <2>1, FS_Subset, FS_CardinalityType
<1>4. ASSUME NEW b \in B, b > i PROVE Cardinality(A) < Cardinality(B)
  <2>1. b \notin A
    BY <1>4
  <2>2. Cardinality(A) # Cardinality(B)
    BY <1>3, <1>4, <2>1
  <2> QED BY <1>3, <2>2
<1> QED BY <1>3, <1>4

LEMMA BoundsGrow ==
  ASSUME NEW st, NEW i \in Nat, NEW j \in Nat, i <= j
  PROVE  /\ Cardinality(Bounds(st, i)) \in Nat /\ Cardinality(Bounds(st, i)) <= Cardinality(Bounds(st, j))
         /\ \A b \in 1..j : b > i /\ st[b].info = "boundary"
                            => Cardinality(Bounds(st, i)) < Cardinality(Bounds(st, j))
         /\ (\A b \in 1..j : b > i => st[b].info # "boundary") => Bounds(st, i) = Bounds(st, j)
<1>1. Bounds(st, i) \in SUBSET (1..i) /\ Bounds(st, j) \in SUBSET (1..j) /\ Bounds(st, i) \subseteq Bounds(st, j)
  BY DEF Bounds
<1>2. \A b \in 1..j : b > i /\ st[b].info = "boundary" => \E d \in Bounds(st, j) : d > i
  BY DEF Bounds
<1>3. (\A b \in 1..j : b > i => st[b].info # "boundary") => Bounds(st, i) = Bounds(st, j)
  BY DEF Bounds
<1> DEFINE A == Bounds(st, i)  B == Bounds(st, j)
<1> HIDE DEF A, B
<1>4. A \in SUBSET (1..i) /\ B \in SUBSET (1..j) /\ A \subseteq B
  BY <1>1 DEF A, B
<1>5. /\ Cardinality(A) \in Nat /\ Cardinality(A) <= Cardinality(B)
      /\ (\E b \in B : b > i) => Cardinality(A) < Cardinality(B)
  BY <1>4, CountsGrow
<1>6. \A b \in 1..j : b > i /\ st[b].info = "boundary" => Cardinality(A) < Cardinality(B)
  BY <1>2, <1>5 DEF B
<1> QED BY <1>3, <1>5, <1>6 DEF A, B

LEMMA GroupsGrow ==
  ASSUME NEW c, NEW i \in Nat, NEW j \in Nat, i < j, c[j].kind = "group"
  PROVE  /\ Cardinality(GroupsIn(c, i)) \in Nat /\ Cardinality(GroupsIn(c, j)) \in Nat
         /\ Cardinality(GroupsIn(c, i)) < Cardinality(GroupsIn(c, j))
<1>1. GroupsIn(c, i) \in SUBSET (1..i) /\ GroupsIn(c, j) \in SUBSET (1..j) /\ GroupsIn(c, i) \subseteq GroupsIn(c, j)
  BY DEF GroupsIn
<1>2. j \in GroupsIn(c, j) /\ j > i
  BY DEF GroupsIn
<1> DEFINE A == GroupsIn(c, i)  B == GroupsIn(c, j)
<1> HIDE DEF A, B
<1>3. i <= j /\ A \in SUBSET (1..i) /\ B \in SUBSET (1..j) /\ A \subseteq B /\ \E b \in B : b > i
  BY <1>1, <1>2 DEF A, B
<1>4. Cardinality(A) \in Nat /\ Cardinality(B) \in Nat /\ Cardinality(A) < Cardinality(B)
  BY <1>3, CountsGrow
<1> QED BY <1>4 DEF A, B

LEMMA GroupsAtMost ==
  ASSUME NEW c, NEW i \in Nat, NEW j \in Nat, i <= j
  PROVE  /\ Cardinality(GroupsIn(c, i)) \in Nat /\ Cardinality(GroupsIn(c, j)) \in Nat
         /\ Cardinality(GroupsIn(c, i)) <= Cardinality(GroupsIn(c, j))
<1>1. GroupsIn(c, i) \in SUBSET (1..i) /\ GroupsIn(c, j) \in SUBSET (1..j) /\ GroupsIn(c, i) \subseteq GroupsIn(c, j)
  BY DEF GroupsIn
<1> DEFINE A == GroupsIn(c, i)  B == GroupsIn(c, j)
<1> HIDE DEF A, B
<1>2. A \in SUBSET (1..i) /\ B \in SUBSET (1..j) /\ A \subseteq B
  BY <1>1 DEF A, B
<1>3. Cardinality(A) \in Nat /\ Cardinality(B) \in Nat /\ Cardinality(A) <= Cardinality(B)
  BY <1>2, CountsGrow
<1> QED BY <1>3 DEF A, B

\* What the n-th group saved lies where two stacks agree.
LEMMA SavedSame ==
  ASSUME NEW st, NEW su, IsList(st), IsList(su), NEW h, Agree(st, su, h), h <= Len(st), h <= Len(su), NEW n,
         \A i \in 1..Len(st) : i > h => st[i].info = "boundary" \/ Cardinality(Bounds(st, i)) # n,
         \A i \in 1..Len(su) : i > h => su[i].info = "boundary" \/ Cardinality(Bounds(su, i)) # n,
         NEW kind \in {"symbol", "internal"}, NEW x
  PROVE  /\ SavedBy(su, n, kind, x) = SavedBy(st, n, kind, x)
         /\ \A i \in SavedBy(st, n, kind, x) : i \in 1..h /\ su[i] = st[i]
<1>1. /\ Len(st) \in Nat /\ DOMAIN st = 1..Len(st) /\ Len(su) \in Nat /\ DOMAIN su = 1..Len(su)
      /\ h \in Nat /\ \A i \in 1..h : su[i] = st[i]
  BY ListHas DEF Agree
<1>2. kind # "boundary"
  OBVIOUS
<1>3. \A i \in SavedBy(st, n, kind, x) : i \in 1..h
  BY <1>1, <1>2 DEF SavedBy
<1>4. \A i \in SavedBy(su, n, kind, x) : i \in 1..h
  BY <1>1, <1>2 DEF SavedBy
<1>5. ASSUME NEW i \in 1..h PROVE i \in SavedBy(su, n, kind, x) <=> i \in SavedBy(st, n, kind, x)
  <2>1. Bounds(su, i) = Bounds(st, i)
    BY <1>1 DEF Bounds
  <2>2. i \in DOMAIN st /\ i \in DOMAIN su /\ su[i] = st[i]
    BY <1>1
  <2> QED BY <2>1, <2>2 DEF SavedBy
<1> QED BY <1>1, <1>3, <1>4, <1>5

\* The item that is pushed is the last that the innermost group has saved.
LEMMA SavedPushed ==
  ASSUME NEW st, IsList(st), NEW e, e.info \in {"symbol", "internal"}, NEW kind \in {"symbol", "internal"}, NEW x
  PROVE  LET n == Cardinality(Bounds(st, Len(st)))
             A == SavedBy(st, n, kind, x)  B == SavedBy(Append(st, e), n, kind, x)
         IN  B = IF e.info = kind /\ e.q = x THEN A \cup {Len(st) + 1} ELSE A
<1> DEFINE su == Append(st, e)  N == Len(st)  n == Cardinality(Bounds(st, N))
           A == SavedBy(st, n, kind, x)  B == SavedBy(su, n, kind, x)
<1>1. /\ N \in Nat /\ DOMAIN st = 1..N /\ IsList(su) /\ Len(su) = N + 1
      /\ su[N + 1] = e /\ \A i \in 1..N : su[i] = st[i]
  BY ListHas, ListPush
<1> HIDE DEF su, N
<1>2. DOMAIN su = 1..(N + 1)
  BY <1>1, ListHas
<1>3. \A i \in 1..N : Bounds(su, i) = Bounds(st, i)
  BY <1>1 DEF Bounds
<1>4. Bounds(su, N + 1) = Bounds(st, N)
  BY <1>1 DEF Bounds
<1>5. ASSUME NEW i \in 1..N PROVE i \in B <=> i \in A
  BY <1>1, <1>2, <1>3 DEF SavedBy
<1>6. N + 1 \in B <=> e.info = kind /\ e.q = x
  BY <1>1, <1>2, <1>4 DEF SavedBy
<1>7. A \subseteq 1..N /\ B \subseteq 1..(N + 1)
  BY <1>1, <1>2 DEF SavedBy
<1> HIDE DEF A, B
<1> DEFINE has == e.info = kind /\ e.q = x
<1> HIDE DEF has
<1>8. (N + 1 \in B <=> has) /\ N + 1 \notin A
  BY <1>1, <1>6, <1>7 DEF has
<1>9. \A i : i \in B => i \in 1..N \/ i = N + 1
  BY <1>1, <1>7
<1>10. B = IF has THEN A \cup {N + 1} ELSE A
  <2>1. CASE has
    BY <1>5, <1>7, <1>8, <1>9, <2>1
  <2>2. CASE ~has
    <3>1. \A i : i \in B <=> i \in A
      BY <1>5, <1>7, <1>8, <1>9, <2>2
    <3>2. B = A
      BY ONLY <3>1
    <3> QED BY <2>2, <3>2
  <2> QED BY <2>1, <2>2
<1> QED BY <1>10 DEF A, B, su, N, has

LEMMA MinPushed ==
  ASSUME NEW N \in Nat, NEW A, A \subseteq 1..N
  PROVE  Min(A \cup {N + 1}) = IF A = {} THEN N + 1 ELSE Min(A)
<1> DEFINE B == A \cup {N + 1}
<1>1. B \subseteq Nat /\ B # {} /\ A \subseteq Nat
  OBVIOUS
<1>2. Min(B) \in B /\ \A j \in B : Min(B) <= j
  <2> HIDE DEF B
  <2> QED BY <1>1, MinIs
<1>3. CASE A = {}
  BY <1>2, <1>3
<1>4. CASE A # {}
  <2>1. Min(A) \in A /\ \A j \in A : Min(A) <= j
    BY <1>1, <1>4, MinIs
  <2>2. Min(A) \in B /\ Min(A) \in 1..N
    BY <2>1
  <2> DEFINE a == Min(A)  b == Min(B)
  <2>3. b <= a /\ b \in B /\ a \in 1..N /\ \A j \in A : a <= j
    BY <1>2, <2>1, <2>2
  <2> HIDE DEF a, b
  <2>4. b \in A
    BY <2>3
  <2>5. a = b
    BY <2>3, <2>4
  <2> QED BY <1>4, <2>5 DEF a, b
<1> QED BY <1>3, <1>4

\* The frame f of a group that saves item e, which means v.
Saving(f, e, v) == IF e.info = "symbol" THEN [f EXCEPT !.symbols = G!Remember(@, e.q, v)]
                   ELSE [f EXCEPT !.internals = G!Remember(@, e.q, e.value)]

\* The group that saves a symbol, or a quantity, remembers it unless it has.
LEMMA PushedFrame ==
  ASSUME NEW st, IsList(st), NEW t, NEW u, NEW e, e.info \in {"symbol", "internal"},
         e.info = "symbol" => e.q \in Symbols, e.info = "internal" => e.q \in Internals,
         \A x \in Symbols : \A i \in SavedBy(st, Cardinality(Bounds(st, Len(st))), "symbol", x) :
            Meaning(u, st[i].value) = Meaning(t, st[i].value)
  PROVE  LET n == Cardinality(Bounds(st, Len(st))) IN
         GroupFrame(u, Append(st, e), n) = Saving(GroupFrame(t, st, n), e, Meaning(u, e.value))
<1> DEFINE n == Cardinality(Bounds(st, Len(st)))  su == Append(st, e)  N == Len(st)
           A(kind, x) == SavedBy(st, n, kind, x)  B(kind, x) == SavedBy(su, n, kind, x)
           a(kind, x) == FirstSaved(st, n, kind, x)  b(kind, x) == FirstSaved(su, n, kind, x)
<1>1. /\ N \in Nat /\ IsList(su) /\ su[N + 1] = e /\ \A i \in 1..N : su[i] = st[i]
  BY ListHas, ListPush
<1>2. \A kind \in {"symbol", "internal"} : \A x :
         B(kind, x) = IF e.info = kind /\ e.q = x THEN A(kind, x) \cup {N + 1} ELSE A(kind, x)
  BY SavedPushed
<1>3. \A kind, x : A(kind, x) \subseteq 1..N /\ (A(kind, x) # {} => Min(A(kind, x)) \in A(kind, x))
  BY SavedIs
<1>4. \A kind, x : /\ a(kind, x) = st[Min(A(kind, x))].value
                   /\ b(kind, x) = su[Min(B(kind, x))].value
  BY DEF FirstSaved
<1> DEFINE D == {q \in Symbols : A("symbol", q) # {}}    D1 == {q \in Symbols : B("symbol", q) # {}}
           E == {i \in Internals : A("internal", i) # {}}  E1 == {i \in Internals : B("internal", i) # {}}
           f == [q \in D |-> Meaning(t, a("symbol", q))]   f1 == [q \in D1 |-> Meaning(u, b("symbol", q))]
           g == [i \in E |-> a("internal", i)]             g1 == [i \in E1 |-> b("internal", i)]
<1>5. /\ GroupFrame(t, st, n) = [kind |-> "group", symbols |-> f, internals |-> g]
      /\ GroupFrame(u, su, n) = [kind |-> "group", symbols |-> f1, internals |-> g1]
  BY DEF GroupFrame
<1>6. \A q \in Symbols : \A i \in A("symbol", q) : Meaning(u, st[i].value) = Meaning(t, st[i].value)
  OBVIOUS
<1> HIDE DEF A, B, a, b, n, su, N
<1>7. \A kind \in {"symbol", "internal"} : \A x : A(kind, x) # {} => b(kind, x) = a(kind, x)
  <2> TAKE kind \in {"symbol", "internal"}
  <2> TAKE x
  <2> HAVE A(kind, x) # {}
  <2> DEFINE S == A(kind, x)
  <2>1. S \subseteq 1..N /\ S # {} /\ Min(S) \in S /\ (B(kind, x) = S \cup {N + 1} \/ B(kind, x) = S)
    BY <1>2, <1>3
  <2> HIDE DEF S
  <2>2. Min(S \cup {N + 1}) = Min(S)
    BY <1>1, <2>1, MinPushed
  <2>3. Min(B(kind, x)) = Min(S) /\ su[Min(S)] = st[Min(S)]
    BY <1>1, <2>1, <2>2
  <2> QED BY <1>4, <2>3 DEF S
<1>8. \A kind \in {"symbol", "internal"} : \A x :
         e.info = kind /\ e.q = x /\ A(kind, x) = {} => b(kind, x) = e.value
  <2> TAKE kind \in {"symbol", "internal"}
  <2> TAKE x
  <2> HAVE e.info = kind /\ e.q = x /\ A(kind, x) = {}
  <2>1. B(kind, x) = A(kind, x) \cup {N + 1} /\ A(kind, x) \subseteq 1..N
    BY <1>2, <1>3
  <2> DEFINE S == A(kind, x)
  <2>2. B(kind, x) = S \cup {N + 1} /\ S = {} /\ S \subseteq 1..N
    BY <2>1
  <2> HIDE DEF S
  <2>3. Min(B(kind, x)) = N + 1
    BY <1>1, <2>2, MinPushed
  <2> QED BY <1>1, <1>4, <2>3
<1>9. \A kind \in {"symbol", "internal"} : \A x :
         B(kind, x) # {} <=> A(kind, x) # {} \/ (e.info = kind /\ e.q = x)
  BY <1>2
<1>10. \A q \in Symbols : A("symbol", q) # {} => Meaning(u, a("symbol", q)) = Meaning(t, a("symbol", q))
  BY <1>3, <1>4, <1>6
<1>11. CASE e.info = "symbol"
  <2>1. E1 = E /\ D1 = D \cup {e.q}
    BY <1>9, <1>11
  <2>2. g1 = g
    <3>1. \A i \in E : b("internal", i) = a("internal", i)
      BY <1>7
    <3> HIDE DEF E, E1
    <3> QED BY <2>1, <3>1
  <2>3. f1 = G!Remember(f, e.q, Meaning(u, e.value))
    <3>1. \A q \in D : Meaning(u, b("symbol", q)) = f[q]
      BY <1>7, <1>10
    <3>2. e.q \notin D => b("symbol", e.q) = e.value
      BY <1>8, <1>11
    <3>3. DOMAIN f = D
      OBVIOUS
    <3> DEFINE v == Meaning(u, e.value)
    <3>4. /\ D1 = D \cup {e.q} /\ \A q \in D : f1[q] = f[q]
          /\ e.q \notin D => f1[e.q] = v
          /\ f1 = [q \in D1 |-> f1[q]] /\ f = [q \in D |-> f[q]]
      <4>1. \A q \in D1 : f1[q] = Meaning(u, b("symbol", q))
        OBVIOUS
      <4> HIDE DEF D, D1
      <4> QED BY <2>1, <3>1, <3>2, <4>1
    <3> HIDE DEF D, D1, f, f1, v
    <3>5. CASE e.q \in D
      <4>1. D1 = D /\ f1 = f
        <5>1. D1 = D
          BY <3>4, <3>5
        <5> QED BY <3>4, <5>1
      <4> QED BY <3>3, <3>5, <4>1 DEF G!Remember
    <3>6. CASE e.q \notin D
      <4>1. f1 = [y \in D \cup {e.q} |-> IF y = e.q THEN v ELSE f[y]]
        BY <3>4, <3>6
      <4> QED BY <3>3, <3>6, <4>1 DEF G!Remember, v
    <3> QED BY <3>5, <3>6
  <2> HIDE DEF f, f1, g, g1
  <2>4. GroupFrame(u, su, n) = [GroupFrame(t, st, n) EXCEPT !.symbols = G!Remember(@, e.q, Meaning(u, e.value))]
    BY <1>5, <2>2, <2>3
  <2> QED BY <1>11, <2>4 DEF n, su, N, Saving
<1>12. CASE e.info = "internal"
  <2>1. D1 = D /\ E1 = E \cup {e.q}
    BY <1>9, <1>12
  <2>2. f1 = f
    <3>1. \A q \in D : Meaning(u, b("symbol", q)) = Meaning(t, a("symbol", q))
      BY <1>7, <1>10
    <3> HIDE DEF D, D1
    <3> QED BY <2>1, <3>1
  <2>3. g1 = G!Remember(g, e.q, e.value)
    <3>1. \A i \in E : b("internal", i) = g[i]
      BY <1>7
    <3>2. e.q \notin E => b("internal", e.q) = e.value
      BY <1>8, <1>12
    <3>3. DOMAIN g = E
      OBVIOUS
    <3> DEFINE v == e.value
    <3>4. /\ E1 = E \cup {e.q} /\ \A i \in E : g1[i] = g[i]
          /\ e.q \notin E => g1[e.q] = v
          /\ g1 = [i \in E1 |-> g1[i]] /\ g = [i \in E |-> g[i]]
      <4>1. \A i \in E1 : g1[i] = b("internal", i)
        OBVIOUS
      <4> HIDE DEF E, E1
      <4> QED BY <2>1, <3>1, <3>2, <4>1
    <3> HIDE DEF E, E1, g, g1, v
    <3>5. CASE e.q \in E
      <4>1. E1 = E /\ g1 = g
        <5>1. E1 = E
          BY <3>4, <3>5
        <5> QED BY <3>4, <5>1
      <4> QED BY <3>3, <3>5, <4>1 DEF G!Remember
    <3>6. CASE e.q \notin E
      <4>1. g1 = [y \in E \cup {e.q} |-> IF y = e.q THEN v ELSE g[y]]
        BY <3>4, <3>6
      <4> QED BY <3>3, <3>6, <4>1 DEF G!Remember, v
    <3> QED BY <3>5, <3>6
  <2> HIDE DEF f, f1, g, g1
  <2>4. GroupFrame(u, su, n) = [GroupFrame(t, st, n) EXCEPT !.internals = G!Remember(@, e.q, e.value)]
    BY <1>5, <2>2, <2>3
  <2>5. e.info # "symbol"
    BY <1>12
  <2> QED BY <2>4, <2>5 DEF n, su, N, Saving
<1> QED BY <1>11, <1>12

-----------------------------------------------------------------------------
(* What two states have in common.                                         *)

\* Lists of the same length and members are the same.
LEMMA ListSame ==
  ASSUME NEW a, IsList(a), NEW b, IsList(b), Len(a) = Len(b), \A i \in 1..Len(a) : a[i] = b[i]
  PROVE  a = b
<1>1. a = [i \in 1..Len(a) |-> a[i]] /\ b = [i \in 1..Len(a) |-> b[i]]
  BY ListHas
<1>2. [i \in 1..Len(a) |-> a[i]] = [i \in 1..Len(a) |-> b[i]]
  OBVIOUS
<1> QED BY ONLY <1>1, <1>2

\* The calls and the texts of the abstract state are lists.
LEMMA UnderWayIs ==
  ASSUME NEW t, NEW st, NEW c \in Seq(CallSet)
  PROVE  LET w == UnderWay(t, st, c) IN
         /\ IsList(w) /\ Len(w) = Len(c) /\ Len(c) \in Nat /\ (w = <<>> <=> c = <<>>)
         /\ \A n \in 1..Len(c) : w[n] = CallFrame(t, st, c, n) /\ w[n].kind = c[n].kind
<1> DEFINE w == UnderWay(t, st, c)  k == Len(c)
<1>1. k \in Nat /\ DOMAIN c = 1..k /\ (c = <<>> <=> k = 0)
  OBVIOUS
<1>2. w = [n \in 1..k |-> CallFrame(t, st, c, n)]
  BY <1>1 DEF UnderWay
<1> HIDE DEF w, k
<1>3. (\A n \in 1..k : w[n] = CallFrame(t, st, c, n)) /\ w = [n \in 1..k |-> w[n]]
  BY <1>2
<1>4. IsList(w) /\ Len(w) = k
  BY <1>1, <1>3, ListIs
<1>5. \A n : CallFrame(t, st, c, n).kind = c[n].kind
  BY DEF CallFrame, GroupFrame
<1> QED BY <1>1, <1>3, <1>4, <1>5, ListHas DEF w, k

LEMMA FrameAt ==
  ASSUME NEW t, NEW st, NEW c \in Seq(CallSet), NEW n \in 1..Len(c)
  PROVE  UnderWay(t, st, c)[n] = CallFrame(t, st, c, n)
<1>1. n \in DOMAIN c
  OBVIOUS
<1> QED BY <1>1 DEF UnderWay

LEMMA TextsIs ==
  ASSUME NEW t, NEW l \in Seq(Macros)
  PROVE  /\ IsList(Texts(t, l)) /\ Len(Texts(t, l)) = Len(l) /\ Len(l) \in Nat
         /\ \A n \in 1..Len(l) : Texts(t, l)[n] = Body(t, l[n])
<1> DEFINE w == Texts(t, l)  k == Len(l)
<1>1. k \in Nat /\ DOMAIN l = 1..k
  OBVIOUS
<1>2. w = [n \in 1..k |-> Body(t, l[n])]
  BY <1>1 DEF Texts
<1> HIDE DEF w, k
<1>3. (\A n \in 1..k : w[n] = Body(t, l[n])) /\ w = [n \in 1..k |-> w[n]]
  BY <1>2
<1>4. IsList(w) /\ Len(w) = k
  BY <1>1, <1>3, ListIs
<1> QED BY <1>1, <1>3, <1>4 DEF w, k

\* The frame of a group whose items lie where two stacks agree.
LEMMA KeptFrame ==
  ASSUME NEW t, NEW u, NEW F, NEW R, Shared(t, u, F, R), NEW st, NEW c, NEW l, Lives(t, st, c, l),
         NEW su, NEW d, NEW k, Lives(u, su, d, k), IsList(st), IsList(su),
         \A i \in DOMAIN st : ItemOK(st[i]),
         NEW h, Agree(st, su, h), h <= Len(st), h <= Len(su), NEW n,
         \A i \in 1..Len(st) : i > h => st[i].info = "boundary" \/ Cardinality(Bounds(st, i)) # n,
         \A i \in 1..Len(su) : i > h => su[i].info = "boundary" \/ Cardinality(Bounds(su, i)) # n,
         \A i \in DOMAIN st : st[i].info = "symbol" => \A r \in R : ~Owns(st[i].value, r)
  PROVE  GroupFrame(u, su, n) = GroupFrame(t, st, n)
<1>1. \A kind \in {"symbol", "internal"} : \A x :
            /\ SavedBy(su, n, kind, x) = SavedBy(st, n, kind, x)
            /\ \A i \in SavedBy(st, n, kind, x) : i \in 1..h /\ su[i] = st[i]
  BY SavedSame
<1>2. /\ Len(st) \in Nat /\ DOMAIN st = 1..Len(st) /\ Len(su) \in Nat /\ DOMAIN su = 1..Len(su) /\ h \in Nat
  BY ListHas DEF Agree
<1>3. ASSUME NEW x \in Symbols, NEW i \in SavedBy(st, n, "symbol", x)
      PROVE  Meaning(u, st[i].value) = Meaning(t, st[i].value)
  <2>1. i \in DOMAIN st /\ st[i].info = "symbol"
    BY SavedIs
  <2>2. su[i] = st[i] /\ i \in 1..h
    BY <1>1
  <2>3. i \in DOMAIN su
    BY <1>2, <2>2
  <2>4. ItemOK(st[i]) /\ \A r \in R : ~Owns(st[i].value, r)
    BY <2>1
  <2> QED BY <2>1, <2>2, <2>3, <2>4, SameItem
<1> QED BY <1>1, <1>3, SameFrame

\* The first h calls look the same if the groups among them have the same frames.
LEMMA KeptCalls ==
  ASSUME NEW t, NEW u, NEW F, NEW R, Shared(t, u, F, R), NEW st, NEW c \in Seq(CallSet), NEW l, Lives(t, st, c, l),
         NEW su, NEW d \in Seq(CallSet), NEW k, Lives(u, su, d, k),
         NEW h, Agree(c, d, h), h <= Len(c), h <= Len(d),
         \A n \in 1..h : c[n].kind = "group" => GroupFrame(u, su, Cardinality(GroupsIn(c, n)))
                                                = GroupFrame(t, st, Cardinality(GroupsIn(c, n)))
  PROVE  \A n \in 1..h : UnderWay(u, su, d)[n] = UnderWay(t, st, c)[n]
<1> TAKE n \in 1..h
<1>1. h \in Nat /\ (\A i \in 1..h : d[i] = c[i]) /\ DOMAIN c = 1..Len(c) /\ DOMAIN d = 1..Len(d)
      /\ Len(c) \in Nat /\ Len(d) \in Nat
  BY DEF Agree
<1>2. n \in Nat /\ n >= 1 /\ n \in 1..Len(c) /\ n \in 1..Len(d) /\ n \in DOMAIN c /\ n \in DOMAIN d
      /\ \A i \in 1..n : d[i] = c[i]
  BY <1>1
<1>3. CallFrame(u, su, d, n) = CallFrame(t, st, c, n)
  BY <1>2, SameCall
<1> QED BY <1>2, <1>3, UnderWayIs

\* The first h levels read the same texts.
LEMMA KeptTexts ==
  ASSUME NEW t, NEW u, NEW F, NEW R, Shared(t, u, F, R), NEW st, NEW c, NEW l \in Seq(Macros), Lives(t, st, c, l),
         NEW su, NEW d, NEW k \in Seq(Macros), Lives(u, su, d, k),
         NEW h, Agree(l, k, h), h <= Len(l), h <= Len(k)
  PROVE  \A n \in 1..h : Texts(u, k)[n] = Texts(t, l)[n]
<1> TAKE n \in 1..h
<1>1. h \in Nat /\ (\A i \in 1..h : k[i] = l[i]) /\ DOMAIN l = 1..Len(l) /\ DOMAIN k = 1..Len(k)
      /\ Len(l) \in Nat /\ Len(k) \in Nat
  BY DEF Agree
<1>2. n \in 1..Len(l) /\ n \in 1..Len(k) /\ n \in DOMAIN l /\ n \in DOMAIN k /\ k[n] = l[n]
  BY <1>1
<1>3. Body(u, k[n]) = Body(t, l[n])
  BY <1>2, SameText
<1> QED BY <1>2, <1>3, TextsIs

\* Where only symbol q is bound anew, everything else means what it did.
Rebinds(t, u, st, c, l, q) ==
    /\ UnderWay(u, st, c) = UnderWay(t, st, c) /\ Texts(u, l) = Texts(t, l)
    /\ Env(u) = [Env(t) EXCEPT ![q] = Meaning(u, u.eqtb[q])]

LEMMA OneSymbol ==
  ASSUME NEW t, NEW u, NEW F, NEW R, Shared(t, u, F, R), NEW st, NEW c \in Seq(CallSet), NEW l \in Seq(Macros),
         Lives(t, st, c, l), Lives(u, st, c, l), IsList(st), \A i \in DOMAIN st : ItemOK(st[i]),
         \A i \in DOMAIN st : st[i].info = "symbol" => \A r \in R : ~Owns(st[i].value, r),
         NEW q, \A n \in Symbols : n # q => u.eqtb[n] = t.eqtb[n] /\ \A r \in R : ~Owns(t.eqtb[n], r)
  PROVE  Rebinds(t, u, st, c, l, q)
<1>1. Len(st) \in Nat /\ DOMAIN st = 1..Len(st) /\ Len(c) \in Nat /\ Len(l) \in Nat
  BY ListHas
<1>2. Agree(st, st, Len(st)) /\ Agree(c, c, Len(c)) /\ Agree(l, l, Len(l))
  BY <1>1 DEF Agree
<1>3. \A n : GroupFrame(u, st, n) = GroupFrame(t, st, n)
  BY <1>1, <1>2, KeptFrame
<1>4. \A n \in 1..Len(c) : UnderWay(u, st, c)[n] = UnderWay(t, st, c)[n]
  BY <1>1, <1>2, <1>3, KeptCalls
<1>5. UnderWay(u, st, c) = UnderWay(t, st, c)
  BY <1>4, UnderWayIs, ListSame
<1>6. \A n \in 1..Len(l) : Texts(u, l)[n] = Texts(t, l)[n]
  BY <1>1, <1>2, KeptTexts
<1>7. Texts(u, l) = Texts(t, l)
  BY <1>6, TextsIs, ListSame
<1>8. \A n \in Symbols : n # q => Meaning(u, u.eqtb[n]) = Meaning(t, t.eqtb[n])
  BY SameSymbol
<1>9. Env(u) = [Env(t) EXCEPT ![q] = Meaning(u, u.eqtb[q])]
  BY <1>8 DEF Env
<1> QED BY <1>5, <1>7, <1>9 DEF Rebinds

-----------------------------------------------------------------------------
(* What else the steps keep, and what they need of the state before.       *)

Known(e, D) == e.eq_type = "internal" => e.equiv \in D

\* Macros in use have a replacement text; what means a quantity means an
\* allotted one.
TextsKnown(t) == \A m \in Macros : t.mac[m].ref_count >= 0 => t.mac[m].body \in Bodies
Quantities(t, st, v) ==
    /\ v = [i \in DOMAIN v |-> v[i]] /\ DOMAIN v \subseteq Internals
    /\ \A q \in Symbols : Known(t.eqtb[q], DOMAIN v)
    /\ \A i \in DOMAIN st : st[i].info = "symbol" => Known(st[i].value, DOMAIN v)
QInv == TextsKnown(tab) /\ Quantities(tab, save_ptr, internal)

View(t, v, st, c, l) ==
    [env |-> Env(t), internal |-> v, calls |-> UnderWay(t, st, c), input |-> Texts(t, l)]

LEMMA AbstractIs ==
  /\ Abstract = View(tab, internal, save_ptr, calls, input)
  /\ Abstract' = View(tab', internal', save_ptr', calls', input')
  BY DEF Abstract, View, Env, UnderWay, Texts

\* What the invariant says of the tables, the lists and who is in use.
LEMMA Situation ==
  ASSUME SInv
  PROVE  /\ tab \in TabSet /\ Lives(tab, save_ptr, calls, input)
         /\ IsList(save_ptr) /\ calls \in Seq(CallSet) /\ input \in Seq(Macros)
         /\ \A i \in DOMAIN save_ptr : ItemOK(save_ptr[i])
         /\ Len(save_ptr) \in Nat /\ DOMAIN save_ptr = 1..Len(save_ptr)
         /\ Len(calls) \in Nat /\ Len(input) \in Nat
         /\ Cardinality(Bounds(save_ptr, Len(save_ptr))) = Cardinality(GroupsIn(calls, Len(calls)))
<1>1. STypes /\ Frames /\ Exact
  BY DEF SInv
<1>2. /\ IsList(save_ptr) /\ calls \in Seq(CallSet) /\ input \in Seq(Macros)
      /\ \A i \in DOMAIN save_ptr : ItemOK(save_ptr[i])
  BY <1>1 DEF STypes
<1>3. Lives(tab, save_ptr, calls, input)
  BY <1>1, <1>2, Living DEF Exact
<1>4. tab \in TabSet
  BY <1>3 DEF Lives
<1>5. Len(save_ptr) \in Nat /\ DOMAIN save_ptr = 1..Len(save_ptr)
  BY <1>2, ListHas
<1>6. Len(calls) \in Nat /\ Len(input) \in Nat
  BY <1>2
<1> QED BY <1>1, <1>2, <1>3, <1>4, <1>5, <1>6 DEF Frames

LEMMA SituationNext ==
  ASSUME SInv'
  PROVE  /\ tab' \in TabSet /\ Lives(tab', save_ptr', calls', input')
         /\ IsList(save_ptr') /\ calls' \in Seq(CallSet) /\ input' \in Seq(Macros)
         /\ \A i \in DOMAIN save_ptr' : ItemOK(save_ptr'[i])
         /\ Len(save_ptr') \in Nat /\ DOMAIN save_ptr' = 1..Len(save_ptr')
<1>1. STypes' /\ Exact'
  BY DEF SInv
<1>2. /\ IsList(save_ptr') /\ calls' \in Seq(CallSet) /\ input' \in Seq(Macros)
      /\ \A i \in DOMAIN save_ptr' : ItemOK(save_ptr'[i])
  BY <1>1 DEF STypes
<1>3. Lives(tab', save_ptr', calls', input')
  BY <1>1, <1>2, Living DEF Exact
<1>4. tab' \in TabSet
  BY <1>3 DEF Lives
<1>5. Len(save_ptr') \in Nat /\ DOMAIN save_ptr' = 1..Len(save_ptr')
  BY <1>2, ListHas
<1> QED BY <1>2, <1>3, <1>4, <1>5

\* The texts stay known where only known ones are new.
LEMMA KeptTextsKnown ==
  ASSUME NEW t, NEW u, NEW F, NEW R, Keeps(t, u, F, R), TextsKnown(t),
         \A m \in F : m \in Macros => u.mac[m].body \in Bodies
  PROVE  TextsKnown(u)
  BY DEF Keeps, TextsKnown

\* Statements are obeyed by the abstract state too.
LEMMA AlsoObeying ==
  ASSUME NEW t, NEW st, calls \in Seq(CallSet), Obeying
  PROVE  G!Obeying(UnderWay(t, st, calls))
<1> DEFINE w == UnderWay(t, st, calls)  k == Len(calls)
<1>1. /\ IsList(w) /\ Len(w) = k /\ k \in Nat /\ (w = <<>> <=> calls = <<>>) /\ (calls = <<>> <=> k = 0)
      /\ \A n \in 1..k : w[n].kind = calls[n].kind
  BY UnderWayIs
<1>2. CASE calls = <<>>
  BY <1>1, <1>2 DEF G!Obeying
<1>3. CASE calls # <<>>
  <2>1. calls[k].kind = "group"
    <3>1. calls[k].kind # "none"
      BY <1>1, <1>3 DEF CallSet
    <3> QED BY <1>3, <3>1 DEF Obeying, Top, Last
  <2> HIDE DEF w, k
  <2>2. k \in 1..k /\ w[k].kind = "group" /\ Len(w) = k
    BY <1>1, <1>3, <2>1
  <2> QED BY <2>2 DEF G!Obeying, G!Last, w
<1> QED BY <1>2, <1>3

\* A statement gives symbol q another meaning, and nothing else happens.
LEMMA Bound ==
  ASSUME SInv, SInv', QInv, Obeying, UNCHANGED <<internal, save_ptr, calls, input>>,
         NEW F, NEW R, Shared(tab, tab', F, R), NEW q \in Symbols,
         \A m \in F : m \in Macros => tab'.mac[m].body \in Bodies,
         \A n \in Symbols : n # q => tab'.eqtb[n] = tab.eqtb[n] /\ \A r \in R : ~Owns(tab.eqtb[n], r),
         \A i \in DOMAIN save_ptr : save_ptr[i].info = "symbol" => \A r \in R : ~Owns(save_ptr[i].value, r),
         Known(tab'.eqtb[q], DOMAIN internal),
         Meaning(tab', tab'.eqtb[q]) \in G!NewMeanings(Env(tab), q)
  PROVE  QInv' /\ G!Step(Abstract, Abstract')
<1>1. /\ UnderWay(tab', save_ptr, calls) = UnderWay(tab, save_ptr, calls)
      /\ Texts(tab', input) = Texts(tab, input)
      /\ Env(tab') = [Env(tab) EXCEPT ![q] = Meaning(tab', tab'.eqtb[q])]
  <2>1. /\ Lives(tab, save_ptr, calls, input) /\ calls \in Seq(CallSet) /\ input \in Seq(Macros)
        /\ IsList(save_ptr) /\ \A i \in DOMAIN save_ptr : ItemOK(save_ptr[i])
    BY Situation
  <2>2. Lives(tab', save_ptr, calls, input)
    BY SituationNext
  <2>3. /\ Shared(tab, tab', F, R)
        /\ \A n \in Symbols : n # q => tab'.eqtb[n] = tab.eqtb[n] /\ \A r \in R : ~Owns(tab.eqtb[n], r)
        /\ \A i \in DOMAIN save_ptr : save_ptr[i].info = "symbol" => \A r \in R : ~Owns(save_ptr[i].value, r)
    OBVIOUS
  <2>4. Rebinds(tab, tab', save_ptr, calls, input, q)
    BY ONLY <2>1, <2>2, <2>3, OneSymbol
  <2> QED BY <2>4 DEF Rebinds
<1>2. QInv'
  <2>1. TextsKnown(tab')
    BY KeptTextsKnown DEF Shared, QInv
  <2>2. Quantities(tab', save_ptr, internal)
    BY DEF QInv, Quantities
  <2> QED BY <2>1, <2>2 DEF QInv
<1> DEFINE s == Abstract  t == View(tab', internal', save_ptr', calls', input')
<1>3. /\ s = View(tab, internal, save_ptr, calls, input) /\ Abstract' = t
  BY AbstractIs
<1>4. /\ s.env = Env(tab) /\ s.internal = internal /\ s.calls = UnderWay(tab, save_ptr, calls)
      /\ s.input = Texts(tab, input)
      /\ t.env = Env(tab') /\ t.internal = internal /\ t.calls = s.calls /\ t.input = s.input
  BY <1>1, <1>3 DEF View
<1>5. G!Obeying(s.calls)
  BY <1>4, Situation, AlsoObeying
<1> HIDE DEF s, t
<1>6. t.env[q] = Meaning(tab', tab'.eqtb[q])
  BY <1>4 DEF Env
<1>7. G!Binds(s, t)
  BY <1>1, <1>4, <1>6 DEF G!Binds
<1>8. G!Step(s, t)
  BY <1>4, <1>5, <1>7 DEF G!Step
<1> QED BY <1>2, <1>3, <1>8 DEF s

-----------------------------------------------------------------------------
(* Statements bind symbols.                                                *)

\* What an entry means: nothing, a macro, a quantity, a variable.
LEMMA MeaningIs ==
  ASSUME NEW t
  PROVE  /\ Meaning(t, frozen_undefined) = G!Undefined
         /\ \A m \in Macros : Meaning(t, Entry("macro", m)) = G!Macro(Body(t, m))
         /\ \A i : Meaning(t, Entry("internal", i)) = [kind |-> "internal", outer |-> FALSE, of |-> i]
         /\ \A e \in EntrySet : e.eq_type = "tag" /\ e.equiv # null =>
               Meaning(t, e) = [kind |-> "tag", outer |-> e.outer,
                                of |-> IF t.root[e.equiv].value \in Macros THEN Body(t, t.root[e.equiv].value)
                                       ELSE t.root[e.equiv].value]
<1>1. Meaning(t, frozen_undefined) = G!Undefined
  BY DEF Meaning, Of, frozen_undefined, Entry, G!Undefined
<1>2. \A m \in Macros : Meaning(t, Entry("macro", m)) = G!Macro(Body(t, m))
  BY DEF Meaning, Of, Entry, G!Macro
<1>3. \A i : Meaning(t, Entry("internal", i)) = [kind |-> "internal", outer |-> FALSE, of |-> i]
  BY DEF Meaning, Of, Entry
<1>4. ASSUME NEW e \in EntrySet, e.eq_type = "tag", e.equiv # null
      PROVE  Meaning(t, e) = [kind |-> "tag", outer |-> e.outer,
                                of |-> IF t.root[e.equiv].value \in Macros THEN Body(t, t.root[e.equiv].value)
                                       ELSE t.root[e.equiv].value]
  BY <1>4 DEF Meaning, Of
<1> QED BY <1>1, <1>2, <1>3, <1>4

\* Symbol q is cleared for good.
LEMMA ClearedMeans ==
  ASSUME SInv, SInv', QInv, Obeying, UNCHANGED <<internal, save_ptr, calls, input>>, NEW q \in Symbols,
         tab' = clear_symbol(tab, q, FALSE)
  PROVE  QInv' /\ G!Step(Abstract, Abstract')
<1>1. /\ Keeps(tab, tab', {}, {}) /\ tab'.eqtb[q] = frozen_undefined /\ tab \in TabSet
      /\ \A n \in Symbols : n # q => tab'.eqtb[n] = tab.eqtb[n]
  BY Situation, KeepsClear
<1>2. Shared(tab, tab', {}, {})
  BY <1>1 DEF Shared
<1>3. Known(tab'.eqtb[q], DOMAIN internal)
  <2>1. frozen_undefined.eq_type = "tag"
    BY DEF frozen_undefined, Entry
  <2>2. tab'.eqtb[q].eq_type = "tag"
    BY <1>1, <2>1
  <2> QED BY <2>2 DEF Known
<1>4. Meaning(tab', tab'.eqtb[q]) \in G!NewMeanings(Env(tab), q)
  <2>1. Meaning(tab', frozen_undefined) = G!Undefined
    BY MeaningIs
  <2> QED BY <1>1, <2>1 DEF G!NewMeanings
<1>5. \A n \in Symbols : n # q => tab'.eqtb[n] = tab.eqtb[n] /\ \A r \in {} : ~Owns(tab.eqtb[n], r)
  BY <1>1
<1>6. /\ SInv /\ SInv' /\ QInv /\ Obeying /\ UNCHANGED <<internal, save_ptr, calls, input>>
      /\ \A m \in {} : m \in Macros => tab'.mac[m].body \in Bodies
      /\ \A i \in DOMAIN save_ptr : save_ptr[i].info = "symbol" => \A r \in {} : ~Owns(save_ptr[i].value, r)
  OBVIOUS
<1> QED BY ONLY <1>2, <1>3, <1>4, <1>5, <1>6, Bound

\* def and its relatives.
LEMMA DefineMacroMeans ==
  ASSUME SInv, SInv', QInv, NEW q \in Symbols, NEW b \in Bodies, DefineMacro(q, b)
  PROVE  QInv' /\ G!Step(Abstract, Abstract')
<1>1. PICK m \in FreshMacros :
          LET t == clear_symbol([tab EXCEPT !.mac[m] = [ref_count |-> 0, body |-> b]], q, FALSE)
          IN  tab' = [t EXCEPT !.eqtb[q] = Entry("macro", m)]
  BY DEF DefineMacro
<1> DEFINE c == [ref_count |-> 0, body |-> b]  s == SetMac(tab, m, c)  e == Entry("macro", m)
           t == clear_symbol(s, q, FALSE)  u == SetEqtb(t, q, e)
<1>2. m \in Macros /\ tab.mac[m].ref_count = -1 /\ tab \in TabSet
  BY Situation DEF FreshMacros, Live, FreeMac
<1>3. c \in MacSet /\ e \in EntrySet /\ c.body = b /\ c.ref_count = 0
  BY <1>2 DEF MacSet, Entry, EntrySet
<1>4. tab' = u
  BY <1>1 DEF SetEqtb, SetMac
<1> HIDE DEF c, e
<1>5. s \in TabSet /\ Keeps(tab, s, {m}, {}) /\ s.eqtb = tab.eqtb /\ s.mac[m] = c
  BY <1>2, <1>3, MacSet1, KeepsSet
<1> HIDE DEF s
<1>6. /\ t \in TabSet /\ Keeps(s, t, {}, {})
      /\ \A n \in Symbols : n # q => t.eqtb[n] = s.eqtb[n]
  BY <1>5, KeepsClear
<1> HIDE DEF t
<1>7. /\ Keeps(t, u, {}, {}) /\ u.eqtb[q] = e /\ \A n \in Symbols : n # q => u.eqtb[n] = t.eqtb[n]
  BY <1>3, <1>6, KeepsSet, EqtbSet1
<1> HIDE DEF u
<1>8. Keeps(s, u, {} \cup {}, {} \cup {})
  BY <1>6, <1>7, KeepsTwice
<1>9. Keeps(s, u, {}, {})
  BY <1>8
<1>10. Keeps(tab, u, {m} \cup {}, {} \cup {})
  BY <1>5, <1>9, KeepsTwice
<1>11. Shared(tab, tab', {m}, {})
  BY <1>2, <1>4, <1>10 DEF Shared
<1>12. u.mac[m].ref_count >= 0
  <2>1. Alive(tab', tab'.eqtb[q])
    BY SituationNext DEF Lives
  <2> QED BY <1>4, <1>7, <2>1 DEF Alive, e, Entry
<1>13. u.mac[m].body = b
  BY <1>2, <1>3, <1>5, <1>9, <1>12 DEF Keeps
<1>14. Known(e, DOMAIN internal)
  BY DEF Known, e, Entry
<1>15. Meaning(tab', tab'.eqtb[q]) \in G!NewMeanings(Env(tab), q)
  <2>1. Meaning(u, e) = G!Macro(b)
    BY <1>2, <1>13, MeaningIs DEF e, Body
  <2> QED BY <1>4, <1>7, <2>1 DEF G!NewMeanings
<1>16. Obeying /\ UNCHANGED <<internal, save_ptr, calls, input>>
  BY DEF DefineMacro
<1>17. \A n \in Symbols : n # q => tab'.eqtb[n] = tab.eqtb[n]
  BY <1>4, <1>5, <1>6, <1>7
<1> QED BY <1>4, <1>7, <1>11, <1>13, <1>14, <1>15, <1>16, <1>17, Bound

\* outer and its opposite.
LEMMA ProtectionMeans ==
  ASSUME SInv, SInv', QInv, NEW q \in Symbols, NEW m \in BOOLEAN, do_protection(q, m)
  PROVE  QInv' /\ G!Step(Abstract, Abstract')
<1> DEFINE d == tab.eqtb[q]  e == [d EXCEPT !.outer = m]
<1>1. tab \in TabSet
  BY Situation
<1>2. d \in EntrySet
  BY <1>1, TabIs
<1>3. e \in EntrySet /\ e.eq_type = d.eq_type /\ e.equiv = d.equiv /\ e.outer = m
  <2> HIDE DEF d
  <2> QED BY <1>2 DEF EntrySet
<1>4. tab' = SetEqtb(tab, q, e)
  BY DEF do_protection, SetEqtb
<1> HIDE DEF e
<1>5. /\ Keeps(tab, tab', {}, {}) /\ tab'.eqtb[q] = e /\ \A n \in Symbols : n # q => tab'.eqtb[n] = tab.eqtb[n]
      /\ tab'.root = tab.root
  BY <1>1, <1>3, <1>4, KeepsSet, EqtbSet1
<1>6. tab'.mac = tab.mac
  BY <1>4 DEF SetEqtb
<1>7. Shared(tab, tab', {}, {})
  BY <1>1, <1>5 DEF Shared
<1>8. Known(e, DOMAIN internal)
  BY <1>3 DEF QInv, Quantities, Known
<1>9. Meaning(tab', e) = [Env(tab)[q] EXCEPT !.outer = m]
  <2>1. Of(tab', e) = Of(tab, d)
    BY <1>3, <1>5, <1>6 DEF Of, Body
  <2> HIDE DEF d
  <2>2. Meaning(tab', e) = [Meaning(tab, d) EXCEPT !.outer = m]
    BY <1>3, <2>1 DEF Meaning
  <2> QED BY <2>2 DEF Env, d
<1>10. Meaning(tab', tab'.eqtb[q]) \in G!NewMeanings(Env(tab), q)
  BY <1>5, <1>9 DEF G!NewMeanings
<1>11. Obeying /\ UNCHANGED <<internal, save_ptr, calls, input>>
  BY DEF do_protection
<1> QED BY <1>5, <1>7, <1>8, <1>10, <1>11, Bound

\* A meaning, unprotected.
LEMMA Unprotected ==
  ASSUME NEW k, NEW o, NEW b
  PROVE  [[kind |-> k, outer |-> o, of |-> b] EXCEPT !.outer = FALSE] = [kind |-> k, outer |-> FALSE, of |-> b]
<1>1. \A p : [[kind |-> k, outer |-> o, of |-> b] EXCEPT !.outer = p] = [kind |-> k, outer |-> p, of |-> b]
  <2> TAKE p
  <2> QED OBVIOUS
<1> QED BY ONLY <1>1, Zenon

\* let.
LEMMA LetMeans ==
  ASSUME SInv, SInv', QInv, NEW l \in Symbols, NEW r \in Symbols, do_let(l, r)
  PROVE  QInv' /\ G!Step(Abstract, Abstract')
<1> DEFINE e == tab.eqtb[r]  t == IF e.eq_type = "macro" THEN add_mac_ref(tab, e.equiv) ELSE tab
           d == IF e.eq_type = "tag" THEN Entry("tag", null) ELSE Entry(e.eq_type, e.equiv)
           v == clear_symbol(t, l, FALSE)  u == SetEqtb(v, l, d)
<1>1. tab' = u
  BY DEF do_let, SetEqtb
<1>2. tab \in TabSet /\ Lives(tab, save_ptr, calls, input)
  BY Situation
<1>3. e \in EntrySet /\ Alive(tab, e) /\ Known(e, DOMAIN internal)
  BY <1>2, TabIs DEF Lives, QInv, Quantities
<1>4. Env(tab)[r] = Meaning(tab, e)
  BY DEF Env
<1> HIDE DEF e
<1>5. /\ e.eq_type \in {"tag", "macro", "internal"}
      /\ e.eq_type = "macro" => e.equiv \in Macros
      /\ e.eq_type = "internal" => e.equiv \in Internals
  BY <1>3, EntryIs
<1>6. t \in TabSet /\ Keeps(tab, t, {}, {}) /\ t.eqtb = tab.eqtb
  <2>1. CASE e.eq_type = "macro"
    <3>1. t = add_mac_ref(tab, e.equiv) /\ e.equiv \in Macros /\ tab.mac[e.equiv].ref_count >= 0
      BY <1>3, <1>5, <2>1 DEF Alive
    <3> HIDE DEF t
    <3> QED BY <1>2, <3>1, KeepsAdd
  <2>2. CASE e.eq_type # "macro"
    BY <1>2, <2>2, KeepsSet
  <2> QED BY <2>1, <2>2
<1> HIDE DEF t
<1>7. /\ v \in TabSet /\ Keeps(t, v, {}, {}) /\ \A n \in Symbols : n # l => v.eqtb[n] = t.eqtb[n]
  BY <1>6, KeepsClear
<1> HIDE DEF v
<1>8. d \in EntrySet
  <2>1. CASE e.eq_type = "tag"
    BY <2>1 DEF Entry, EntrySet
  <2>2. CASE e.eq_type = "macro"
    BY <1>5, <2>2 DEF Entry, EntrySet
  <2>3. CASE e.eq_type = "internal"
    BY <1>5, <2>3 DEF Entry, EntrySet
  <2> QED BY <1>5, <2>1, <2>2, <2>3
<1>9. Known(d, DOMAIN internal)
  BY <1>3 DEF Known, Entry
<1> HIDE DEF d
<1>10. /\ Keeps(v, u, {}, {}) /\ u.eqtb[l] = d /\ \A n \in Symbols : n # l => u.eqtb[n] = v.eqtb[n]
  BY <1>7, <1>8, KeepsSet, EqtbSet1
<1> HIDE DEF u
<1>11. Keeps(tab, v, {} \cup {}, {} \cup {})
  BY <1>6, <1>7, KeepsTwice
<1>12. Keeps(tab, u, ({} \cup {}) \cup {}, ({} \cup {}) \cup {})
  BY <1>10, <1>11, KeepsTwice
<1>13. Keeps(tab, u, {}, {})
  BY <1>12
<1>14. Shared(tab, tab', {}, {})
  BY <1>1, <1>2, <1>13 DEF Shared
<1>15. Meaning(u, d) = IF Meaning(tab, e).kind = "tag" THEN G!Undefined
                       ELSE [Meaning(tab, e) EXCEPT !.outer = FALSE]
  <2>1. Meaning(tab, e).kind = e.eq_type
    BY DEF Meaning
  <2>2. CASE e.eq_type = "tag"
    <3>1. d = frozen_undefined
      BY <2>2 DEF d, frozen_undefined
    <3> QED BY <2>1, <2>2, <3>1, MeaningIs
  <2>3. CASE e.eq_type = "macro"
    <3> DEFINE m == e.equiv
    <3>1. d = Entry("macro", m) /\ m \in Macros /\ tab.mac[m].ref_count >= 0
      BY <1>3, <1>5, <2>3 DEF d, Alive
    <3>2. Meaning(tab, e) = [kind |-> "macro", outer |-> e.outer, of |-> Body(tab, m)]
      BY <2>3 DEF Meaning, Of
    <3> HIDE DEF m
    <3>3. u.mac[m].ref_count >= 0
      <4>1. Alive(tab', tab'.eqtb[l])
        BY SituationNext DEF Lives
      <4>2. d.eq_type = "macro" /\ d.equiv = m
        BY <3>1 DEF Entry
      <4> QED BY <1>1, <1>10, <4>1, <4>2 DEF Alive
    <3>4. Body(u, m) = Body(tab, m)
      BY <1>1, <1>14, <3>1, <3>3, SameBody
    <3>5. Meaning(u, d) = [kind |-> "macro", outer |-> FALSE, of |-> Body(tab, m)]
      BY <3>1, <3>4, MeaningIs DEF G!Macro
    <3> DEFINE a == Meaning(tab, e)  b == Meaning(u, d)
    <3>6. [a EXCEPT !.outer = FALSE] = b
      <4>1. [[kind |-> "macro", outer |-> e.outer, of |-> Body(tab, m)] EXCEPT !.outer = FALSE]
            = [kind |-> "macro", outer |-> FALSE, of |-> Body(tab, m)]
        BY Unprotected, Zenon
      <4> QED BY <3>2, <3>5, <4>1, Zenon
    <3>7. a.kind # "tag"
      BY <2>1, <2>3
    <3> HIDE DEF a, b
    <3>8. b = IF a.kind = "tag" THEN G!Undefined ELSE [a EXCEPT !.outer = FALSE]
      BY <3>6, <3>7
    <3> QED BY <3>8 DEF a, b
  <2>4. CASE e.eq_type = "internal"
    <3>1. d = Entry("internal", e.equiv)
      BY <2>4 DEF d
    <3>2. Meaning(tab, e) = [kind |-> "internal", outer |-> e.outer, of |-> e.equiv]
      BY <2>4 DEF Meaning, Of
    <3>3. Meaning(u, d) = [kind |-> "internal", outer |-> FALSE, of |-> e.equiv]
      BY <3>1, MeaningIs
    <3> DEFINE a == Meaning(tab, e)  b == Meaning(u, d)
    <3>4. [a EXCEPT !.outer = FALSE] = b
      <4>1. [[kind |-> "internal", outer |-> e.outer, of |-> e.equiv] EXCEPT !.outer = FALSE]
            = [kind |-> "internal", outer |-> FALSE, of |-> e.equiv]
        BY Unprotected, Zenon
      <4> QED BY <3>2, <3>3, <4>1, Zenon
    <3>5. a.kind # "tag"
      BY <2>1, <2>4
    <3> HIDE DEF a, b
    <3>6. b = IF a.kind = "tag" THEN G!Undefined ELSE [a EXCEPT !.outer = FALSE]
      BY <3>4, <3>5
    <3> QED BY <3>6 DEF a, b
  <2> QED BY <1>5, <2>2, <2>3, <2>4
<1>16. Meaning(tab', tab'.eqtb[l]) \in G!NewMeanings(Env(tab), l)
  <2>1. Meaning(tab', tab'.eqtb[l]) = IF Env(tab)[r].kind = "tag" THEN G!Undefined
                                      ELSE [Env(tab)[r] EXCEPT !.outer = FALSE]
    BY <1>1, <1>4, <1>10, <1>15
  <2> QED BY <2>1 DEF G!NewMeanings
<1>17. Obeying /\ UNCHANGED <<internal, save_ptr, calls, input>>
  BY DEF do_let
<1>18. \A n \in Symbols : n # l => tab'.eqtb[n] = tab.eqtb[n]
  BY <1>1, <1>6, <1>7, <1>10
<1> QED BY <1>1, <1>9, <1>10, <1>14, <1>16, <1>17, <1>18, Bound

\* What is alive owns no free root.
LEMMA FreeOwned ==
  ASSUME NEW t, NEW r \in Roots, t.root[r].name_type = "free", NEW e, Alive(t, e)
  PROVE  ~Owns(e, r)
<1>1. r # null
  BY SaveStackAssumption DEF SaveStackAssumption, null
<1> QED BY <1>1 DEF Alive, Owns

\* A variable that is declared has a root that only it owns.
LEMMA Declared ==
  ASSUME SInv, NEW q \in Symbols, NEW t \in declared_variables(q)
  PROVE  LET r == t.eqtb[q].equiv IN
         /\ r \in Roots /\ t \in TabSet /\ Keeps(tab, t, {}, {r})
         /\ t.eqtb[q].eq_type = "tag"
         /\ t.eqtb[q].outer = (tab.eqtb[q].eq_type = "tag" /\ tab.eqtb[q].outer)
         /\ \A n \in Symbols : n # q => t.eqtb[n] = tab.eqtb[n] /\ ~Owns(tab.eqtb[n], r)
         /\ \A i \in DOMAIN save_ptr : save_ptr[i].info = "symbol" => ~Owns(save_ptr[i].value, r)
<1> DEFINE e == tab.eqtb[q]  s == IF e.eq_type # "tag" THEN clear_symbol(tab, q, FALSE) ELSE tab  d == s.eqtb[q]
<1>1. tab \in TabSet /\ Lives(tab, save_ptr, calls, input) /\ e \in EntrySet
  BY Situation, TabIs
<1>2. /\ s \in TabSet /\ Keeps(tab, s, {}, {}) /\ \A n \in Symbols : n # q => s.eqtb[n] = tab.eqtb[n]
      /\ d.eq_type = "tag" /\ d.outer = (e.eq_type = "tag" /\ e.outer) /\ d.equiv \in Roots \cup {null}
      /\ d.equiv # null => s = tab
  <2>1. CASE e.eq_type = "tag"
    <3>1. s = tab /\ d = e
      BY <2>1
    <3>2. e.equiv \in Roots \cup {null} /\ e.outer \in BOOLEAN
      <4> HIDE DEF e
      <4> QED BY <1>1, <2>1, EntryIs DEF EntrySet
    <3> HIDE DEF e, s, d
    <3>3. Keeps(tab, s, {}, {})
      BY <1>1, <3>1, KeepsSet
    <3>4. d.outer = (e.eq_type = "tag" /\ e.outer)
      BY <2>1, <3>1, <3>2
    <3> QED BY <1>1, <2>1, <3>1, <3>2, <3>3, <3>4
  <2>2. CASE e.eq_type # "tag"
    <3>1. s = clear_symbol(tab, q, FALSE)
      BY <2>2
    <3>2. /\ s \in TabSet /\ Keeps(tab, s, {}, {}) /\ d = frozen_undefined
          /\ \A n \in Symbols : n # q => s.eqtb[n] = tab.eqtb[n]
      <4> HIDE DEF s, e
      <4> QED BY <1>1, <3>1, KeepsClear
    <3>3. frozen_undefined.eq_type = "tag" /\ frozen_undefined.outer = FALSE /\ frozen_undefined.equiv = null
      BY DEF frozen_undefined, Entry
    <3> HIDE DEF e, s, d
    <3>4. d.eq_type = "tag" /\ d.outer = (e.eq_type = "tag" /\ e.outer) /\ d.equiv = null
      BY <2>2, <3>2, <3>3
    <3> QED BY <3>2, <3>4
  <2> QED BY <2>1, <2>2
<1>3. CASE d.equiv # null
  <2> DEFINE r == d.equiv
  <2>1. t = s /\ s = tab /\ t.eqtb[q] = d /\ d = e
    BY <1>2, <1>3 DEF declared_variables
  <2>2. r \in Roots /\ Owns(tab.eqtb[q], r)
    <3>1. r \in Roots
      BY <1>2, <1>3
    <3>2. d.eq_type = "tag" /\ tab.eqtb[q] = d
      BY <1>2, <2>1
    <3> QED BY <3>1, <3>2 DEF Owns
  <2>3. Keeps(tab, t, {}, {r})
    BY <2>1 DEF Keeps
  <2>4. \A n \in Symbols : n # q => ~Owns(tab.eqtb[n], r)
    BY <1>1, <2>2 DEF Lives
  <2>5. \A i \in DOMAIN save_ptr : save_ptr[i].info = "symbol" => ~Owns(save_ptr[i].value, r)
    BY <1>1, <2>2 DEF Lives
  <2> HIDE DEF s, d, e
  <2> QED BY <1>1, <1>2, <2>1, <2>2, <2>3, <2>4, <2>5 DEF e
<1>4. CASE d.equiv = null
  <2>1. PICK r \in FreshRoots : t = [s EXCEPT !.root[r] = [name_type |-> "root", value |-> "plain"],
                                              !.eqtb[q].equiv = r]
    BY <1>4 DEF declared_variables
  <2> DEFINE c == [name_type |-> "root", value |-> "plain"]  v == SetRoot(s, r, c)
             o == v.eqtb[q]  f == [o EXCEPT !.equiv = r]
  <2>2. r \in Roots /\ tab.root[r] = FreeRoot
    BY <2>1 DEF FreshRoots, LiveRoots
  <2>3. t = SetEqtb(v, q, f)
    BY <2>1 DEF SetEqtb, SetRoot
  <2>4. c \in RootSet
    BY DEF RootSet
  <2> HIDE DEF c, s, d, e
  <2>5. v \in TabSet /\ Keeps(s, v, {}, {r}) /\ v.eqtb = s.eqtb
    BY <1>2, <2>2, <2>4, RootSet1, KeepsSet
  <2> HIDE DEF v
  <2>6. o \in EntrySet /\ o = d
    BY <2>5, TabIs DEF d
  <2>7. f \in EntrySet /\ f.equiv = r /\ f.eq_type = "tag" /\ f.outer = d.outer
    <3>1. o.eq_type = "tag"
      BY <1>2, <2>6
    <3> HIDE DEF o
    <3> QED BY <2>2, <2>6, <3>1 DEF EntrySet
  <2> HIDE DEF f, o
  <2>8. /\ t \in TabSet /\ Keeps(v, t, {}, {}) /\ t.eqtb[q] = f
        /\ \A n \in Symbols : n # q => t.eqtb[n] = v.eqtb[n]
    BY <2>3, <2>5, <2>7, KeepsSet, EqtbSet1
  <2>9. Keeps(tab, v, {} \cup {}, {} \cup {r})
    BY <1>2, <2>5, KeepsTwice
  <2>10. Keeps(tab, t, ({} \cup {}) \cup {}, ({} \cup {r}) \cup {})
    BY <2>8, <2>9, KeepsTwice
  <2>11. Keeps(tab, t, {}, {r})
    BY <2>10
  <2>12. tab.root[r].name_type = "free"
    BY <2>2 DEF FreeRoot
  <2>13. \A n \in Symbols : ~Owns(tab.eqtb[n], r)
    BY <1>1, <2>2, <2>12, FreeOwned DEF Lives
  <2>14. \A i \in DOMAIN save_ptr : save_ptr[i].info = "symbol" => ~Owns(save_ptr[i].value, r)
    BY <1>1, <2>2, <2>12, FreeOwned DEF Lives
  <2>15. t.eqtb[q].equiv = r /\ t.eqtb[q].eq_type = "tag" /\ t.eqtb[q].outer = d.outer
    BY <2>7, <2>8
  <2>16. \A n \in Symbols : n # q => t.eqtb[n] = tab.eqtb[n]
    BY <1>2, <2>5, <2>8
  <2>17. t.eqtb[q].outer = (tab.eqtb[q].eq_type = "tag" /\ tab.eqtb[q].outer)
    BY <1>2, <2>15 DEF e
  <2> QED BY <2>2, <2>8, <2>11, <2>13, <2>14, <2>15, <2>16, <2>17
<1> QED BY <1>3, <1>4

\* A variable with contents v is what a declaration can make of a symbol.
LEMMA VariableMeans ==
  ASSUME NEW u, NEW q \in Symbols, NEW v, v \in {"plain"} \cup Bodies,
         u.eqtb[q] \in EntrySet, u.eqtb[q].eq_type = "tag", u.eqtb[q].equiv \in Roots,
         u.eqtb[q].outer = (tab.eqtb[q].eq_type = "tag" /\ tab.eqtb[q].outer),
         v = IF u.root[u.eqtb[q].equiv].value \in Macros THEN Body(u, u.root[u.eqtb[q].equiv].value)
             ELSE u.root[u.eqtb[q].equiv].value
  PROVE  Meaning(u, u.eqtb[q]) \in G!NewMeanings(Env(tab), q)
<1> DEFINE e == u.eqtb[q]  o == e.outer  a == Env(tab)[q]
<1>1. e.equiv # null
  BY SaveStackAssumption DEF SaveStackAssumption, null
<1>2. Meaning(u, e) = [kind |-> "tag", outer |-> o, of |-> v]
  BY <1>1, MeaningIs
<1>3. a.kind = tab.eqtb[q].eq_type /\ a.outer = tab.eqtb[q].outer
  BY DEF Env, Meaning
<1>4. o = (a.kind = "tag" /\ a.outer)
  BY <1>3
<1> DEFINE N == {[kind |-> "tag", outer |-> a.kind = "tag" /\ a.outer, of |-> w] : w \in {"plain"} \cup Bodies}
<1>5. Meaning(u, e) \in N
  <2> HIDE DEF a, e, o
  <2> QED BY <1>2, <1>4
<1>6. N \subseteq G!NewMeanings(Env(tab), q)
  BY DEF G!NewMeanings
<1> QED BY <1>5, <1>6

\* Declarations of a type.
LEMMA TypeMeans ==
  ASSUME SInv, SInv', QInv, NEW q \in Symbols, do_type_declaration(q)
  PROVE  QInv' /\ G!Step(Abstract, Abstract')
<1>1. PICK t \in declared_variables(q) : tab' = recycle_value(t, t.eqtb[q].equiv)
  BY DEF do_type_declaration
<1> DEFINE r == t.eqtb[q].equiv
<1>2. /\ r \in Roots /\ t \in TabSet /\ Keeps(tab, t, {}, {r})
      /\ t.eqtb[q].eq_type = "tag"
      /\ t.eqtb[q].outer = (tab.eqtb[q].eq_type = "tag" /\ tab.eqtb[q].outer)
      /\ \A n \in Symbols : n # q => t.eqtb[n] = tab.eqtb[n] /\ ~Owns(tab.eqtb[n], r)
      /\ \A i \in DOMAIN save_ptr : save_ptr[i].info = "symbol" => ~Owns(save_ptr[i].value, r)
  BY Declared
<1>3. t.eqtb[q] \in EntrySet /\ t.eqtb[q].equiv = r
  BY <1>2, TabIs
<1>4. tab' = recycle_value(t, r)
  BY <1>1
<1> HIDE DEF r
<1>5. /\ Keeps(t, tab', {}, {r}) /\ tab'.eqtb = t.eqtb /\ tab'.root[r].value = "plain"
  BY <1>2, <1>4, KeepsRecycle
<1>6. Keeps(tab, tab', {} \cup {}, {r} \cup {r})
  BY <1>2, <1>5, KeepsTwice
<1>7. Keeps(tab, tab', {}, {r})
  BY <1>6
<1>8. Shared(tab, tab', {}, {r})
  BY <1>7, Situation DEF Shared
<1>9. "plain" \notin Macros
  BY SaveStackAssumption DEF SaveStackAssumption
<1>10. Meaning(tab', tab'.eqtb[q]) \in G!NewMeanings(Env(tab), q)
  BY <1>2, <1>3, <1>5, <1>9, VariableMeans
<1>11. Known(tab'.eqtb[q], DOMAIN internal)
  <2>1. tab'.eqtb[q].eq_type = "tag"
    BY <1>2, <1>5
  <2> QED BY <2>1 DEF Known
<1>12. Obeying /\ UNCHANGED <<internal, save_ptr, calls, input>>
  BY DEF do_type_declaration
<1>13. \A n \in Symbols : n # q => tab'.eqtb[n] = tab.eqtb[n] /\ \A s \in {r} : ~Owns(tab.eqtb[n], s)
  BY <1>2, <1>5
<1>14. /\ SInv /\ SInv' /\ QInv
       /\ \A m \in {} : m \in Macros => tab'.mac[m].body \in Bodies
       /\ \A i \in DOMAIN save_ptr : save_ptr[i].info = "symbol" => \A s \in {r} : ~Owns(save_ptr[i].value, s)
  BY <1>2
<1> QED BY ONLY <1>8, <1>10, <1>11, <1>12, <1>13, <1>14, Bound

\* vardef.
LEMMA VarDefMeans ==
  ASSUME SInv, SInv', QInv, NEW q \in Symbols, NEW b \in Bodies, VarDef(q, b)
  PROVE  QInv' /\ G!Step(Abstract, Abstract')
<1>1. PICK t \in declared_variables(q), m \in FreshMacros :
          tab' = [recycle_value(t, t.eqtb[q].equiv) EXCEPT !.mac[m] = [ref_count |-> 0, body |-> b],
                                                           !.root[t.eqtb[q].equiv].value = m]
  BY DEF VarDef
<1> DEFINE r == t.eqtb[q].equiv  u == recycle_value(t, r)
           c == [ref_count |-> 0, body |-> b]  v == SetMac(u, m, c)  old == v.root[r]
           d == [old EXCEPT !.value = m]
<1>2. /\ r \in Roots /\ t \in TabSet /\ Keeps(tab, t, {}, {r})
      /\ t.eqtb[q].eq_type = "tag"
      /\ t.eqtb[q].outer = (tab.eqtb[q].eq_type = "tag" /\ tab.eqtb[q].outer)
      /\ \A n \in Symbols : n # q => t.eqtb[n] = tab.eqtb[n] /\ ~Owns(tab.eqtb[n], r)
      /\ \A i \in DOMAIN save_ptr : save_ptr[i].info = "symbol" => ~Owns(save_ptr[i].value, r)
  BY Declared
<1>3. t.eqtb[q] \in EntrySet /\ t.eqtb[q].equiv = r
  BY <1>2, TabIs
<1>4. tab' = SetRoot(v, r, d)
  <2> HIDE DEF r, u
  <2>1. tab' = [u EXCEPT !.mac[m] = c, !.root[r].value = m]
    BY <1>1 DEF r, u
  <2> QED BY <2>1 DEF SetRoot, SetMac
<1> HIDE DEF r
<1>5. m \in Macros /\ tab.mac[m].ref_count = -1 /\ tab \in TabSet
  BY Situation DEF FreshMacros, Live, FreeMac
<1>6. c \in MacSet /\ c.body = b
  BY DEF MacSet
<1> HIDE DEF c
<1>7. /\ u \in TabSet /\ Keeps(t, u, {}, {r}) /\ u.eqtb = t.eqtb
  BY <1>2, KeepsRecycle
<1> HIDE DEF u
<1>8. v \in TabSet /\ Keeps(u, v, {m}, {}) /\ v.eqtb = u.eqtb /\ v.mac[m] = c
  BY <1>5, <1>6, <1>7, MacSet1, KeepsSet
<1> HIDE DEF v
<1>9. d \in RootSet /\ d.value = m
  <2>1. old \in RootSet
    BY <1>2, <1>8, TabIs
  <2> HIDE DEF old
  <2> QED BY <1>5, <2>1 DEF RootSet
<1> HIDE DEF d
<1>10. Keeps(v, tab', {}, {r}) /\ tab'.eqtb = v.eqtb /\ tab'.mac = v.mac /\ tab'.root[r] = d
  BY <1>2, <1>4, <1>8, <1>9, RootSet1, KeepsSet
<1>11. Keeps(tab, u, {} \cup {}, {r} \cup {r})
  BY <1>2, <1>7, KeepsTwice
<1>12. Keeps(tab, v, ({} \cup {}) \cup {m}, ({r} \cup {r}) \cup {})
  BY <1>8, <1>11, KeepsTwice
<1>13. Keeps(tab, tab', (({} \cup {}) \cup {m}) \cup {}, (({r} \cup {r}) \cup {}) \cup {r})
  BY <1>10, <1>12, KeepsTwice
<1>14. Keeps(tab, tab', {m}, {r})
  BY <1>13
<1>15. Shared(tab, tab', {m}, {r})
  BY <1>5, <1>14 DEF Shared
<1>16. tab'.root[r].value = m /\ tab'.mac[m].body = b
  BY <1>6, <1>8, <1>9, <1>10
<1>17. Meaning(tab', tab'.eqtb[q]) \in G!NewMeanings(Env(tab), q)
  BY <1>2, <1>3, <1>5, <1>7, <1>8, <1>10, <1>16, VariableMeans DEF Body
<1>18. Known(tab'.eqtb[q], DOMAIN internal)
  <2>1. tab'.eqtb[q].eq_type = "tag"
    BY <1>2, <1>7, <1>8, <1>10
  <2> QED BY <2>1 DEF Known
<1>19. Obeying /\ UNCHANGED <<internal, save_ptr, calls, input>>
  BY DEF VarDef
<1>20. \A n \in Symbols : n # q => tab'.eqtb[n] = tab.eqtb[n] /\ \A s \in {r} : ~Owns(tab.eqtb[n], s)
  BY <1>2, <1>7, <1>8, <1>10
<1>21. /\ SInv /\ SInv' /\ QInv
       /\ \A n \in {m} : n \in Macros => tab'.mac[n].body \in Bodies
       /\ \A i \in DOMAIN save_ptr : save_ptr[i].info = "symbol" => \A s \in {r} : ~Owns(save_ptr[i].value, s)
  BY <1>2, <1>16
<1> QED BY ONLY <1>15, <1>17, <1>18, <1>19, <1>20, <1>21, Bound

\* newinternal.
LEMMA NewInternalMeans ==
  ASSUME SInv, SInv', QInv, NEW q \in Symbols, do_new_internal(q)
  PROVE  QInv' /\ G!Step(Abstract, Abstract')
<1>1. Obeying /\ UNCHANGED <<save_ptr, calls, input>>
  BY DEF do_new_internal
<1>2. PICK i \in FreshInternals :
         /\ tab' = [clear_symbol(tab, q, FALSE) EXCEPT !.eqtb[q] = Entry("internal", i)]
         /\ internal' = [j \in DOMAIN internal \cup {i} |-> IF j = i THEN 0 ELSE internal[j]]
  BY DEF do_new_internal
<1> DEFINE e == Entry("internal", i)  v == clear_symbol(tab, q, FALSE)  D == DOMAIN internal
<1>3. i \in Internals \ D
  BY <1>2 DEF FreshInternals
<1>4. e \in EntrySet /\ e.eq_type = "internal" /\ e.equiv = i
  BY <1>3 DEF Entry, EntrySet
<1>5. Meaning(tab', e) = [kind |-> "internal", outer |-> FALSE, of |-> i]
  BY MeaningIs
<1>6. tab' = SetEqtb(v, q, e)
  BY <1>2 DEF SetEqtb
<1> HIDE DEF e
<1>7. tab \in TabSet /\ v \in TabSet /\ Keeps(tab, v, {}, {}) /\ \A n \in Symbols : n # q => v.eqtb[n] = tab.eqtb[n]
  BY Situation, KeepsClear
<1> HIDE DEF v
<1>8. /\ Keeps(v, tab', {}, {}) /\ tab'.eqtb[q] = e /\ \A n \in Symbols : n # q => tab'.eqtb[n] = v.eqtb[n]
  BY <1>4, <1>6, <1>7, KeepsSet, EqtbSet1
<1>9. Keeps(tab, tab', {} \cup {}, {} \cup {})
  BY <1>7, <1>8, KeepsTwice
<1>10. Shared(tab, tab', {}, {})
  BY <1>7, <1>9 DEF Shared
<1>11. /\ UnderWay(tab', save_ptr, calls) = UnderWay(tab, save_ptr, calls)
       /\ Texts(tab', input) = Texts(tab, input)
       /\ Env(tab') = [Env(tab) EXCEPT ![q] = Meaning(tab', tab'.eqtb[q])]
  <2>1. /\ Lives(tab, save_ptr, calls, input) /\ calls \in Seq(CallSet) /\ input \in Seq(Macros)
        /\ IsList(save_ptr) /\ \A j \in DOMAIN save_ptr : ItemOK(save_ptr[j])
    BY Situation
  <2>2. Lives(tab', save_ptr, calls, input)
    BY <1>1, SituationNext
  <2> DEFINE F == {}
  <2>3. /\ \A n \in Symbols : n # q => tab'.eqtb[n] = tab.eqtb[n] /\ \A r \in F : ~Owns(tab.eqtb[n], r)
        /\ \A j \in DOMAIN save_ptr : save_ptr[j].info = "symbol" => \A r \in F : ~Owns(save_ptr[j].value, r)
    BY <1>7, <1>8
  <2>4. Shared(tab, tab', F, F)
    BY <1>10
  <2> HIDE DEF F
  <2>5. Rebinds(tab, tab', save_ptr, calls, input, q)
    BY ONLY <2>1, <2>2, <2>3, <2>4, OneSymbol
  <2> QED BY <2>5 DEF Rebinds
<1>12. internal' = G!Remember(internal, i, 0) /\ DOMAIN internal' = D \cup {i}
  BY <1>2, <1>3 DEF G!Remember
<1>13. QInv'
  <2>1. TextsKnown(tab')
    BY <1>10, KeptTextsKnown DEF Shared, QInv
  <2>2. Quantities(tab, save_ptr, internal)
    BY DEF QInv
  <2>3. internal' = [j \in DOMAIN internal' |-> internal'[j]] /\ DOMAIN internal' \subseteq Internals
    BY <1>2, <1>3, <1>12, <2>2 DEF Quantities
  <2>4. \A n \in Symbols : Known(tab'.eqtb[n], DOMAIN internal')
    <3> TAKE n \in Symbols
    <3>1. CASE n = q
      BY <1>4, <1>8, <1>12, <3>1 DEF Known
    <3>2. CASE n # q
      BY <1>7, <1>8, <1>12, <2>2, <3>2 DEF Known, Quantities
    <3> QED BY <3>1, <3>2
  <2>5. \A j \in DOMAIN save_ptr : save_ptr[j].info = "symbol" => Known(save_ptr[j].value, DOMAIN internal')
    BY <1>12, <2>2 DEF Known, Quantities
  <2>6. Quantities(tab', save_ptr, internal')
    BY <2>3, <2>4, <2>5 DEF Quantities
  <2> QED BY <1>1, <2>1, <2>6 DEF QInv
<1> DEFINE s == Abstract  t == View(tab', internal', save_ptr', calls', input')
<1>14. /\ s = View(tab, internal, save_ptr, calls, input) /\ Abstract' = t
  BY AbstractIs
<1>15. /\ s.env = Env(tab) /\ s.internal = internal /\ s.calls = UnderWay(tab, save_ptr, calls)
       /\ s.input = Texts(tab, input)
       /\ t.env = Env(tab') /\ t.internal = internal' /\ t.calls = s.calls /\ t.input = s.input
  BY <1>1, <1>11, <1>14 DEF View
<1>16. G!Obeying(s.calls)
  BY <1>1, <1>15, Situation, AlsoObeying
<1> HIDE DEF s, t
<1>17. G!Binds(s, t)
  <2>1. t.env = [s.env EXCEPT ![q] = [kind |-> "internal", outer |-> FALSE, of |-> i]]
    BY <1>5, <1>8, <1>11, <1>15
  <2>2. i \in Internals \ DOMAIN s.internal /\ t.internal = G!Remember(s.internal, i, 0)
    BY <1>3, <1>12, <1>15
  <2> QED BY <2>1, <2>2 DEF G!Binds
<1>18. G!Step(s, t)
  BY <1>15, <1>16, <1>17 DEF G!Step
<1> QED BY <1>13, <1>14, <1>18 DEF s

\* An assignment to a quantity.
LEMMA SetInternalMeans ==
  ASSUME SInv, SInv', QInv, NEW i \in DOMAIN internal, NEW v, SetInternal(i, v)
  PROVE  QInv' /\ G!Step(Abstract, Abstract')
<1>1. Obeying /\ UNCHANGED <<tab, save_ptr, calls, input>> /\ internal' = [internal EXCEPT ![i] = v]
  BY DEF SetInternal
<1>2. DOMAIN internal' = DOMAIN internal /\ internal' = [j \in DOMAIN internal' |-> internal'[j]]
      /\ internal' = [internal EXCEPT ![i] = internal'[i]]
  BY <1>1 DEF QInv, Quantities
<1>3. QInv'
  BY <1>1, <1>2 DEF QInv, Quantities
<1> DEFINE s == Abstract  t == View(tab', internal', save_ptr', calls', input')
<1>4. /\ s = View(tab, internal, save_ptr, calls, input) /\ Abstract' = t
  BY AbstractIs
<1>5. /\ s.env = Env(tab) /\ s.internal = internal /\ s.calls = UnderWay(tab, save_ptr, calls)
      /\ s.input = Texts(tab, input)
      /\ t.env = s.env /\ t.internal = internal' /\ t.calls = s.calls /\ t.input = s.input
  BY <1>1, <1>4 DEF View
<1>6. G!Obeying(s.calls)
  BY <1>1, <1>5, Situation, AlsoObeying
<1> HIDE DEF s, t
<1>7. G!Binds(s, t)
  BY <1>2, <1>5 DEF G!Binds
<1>8. G!Step(s, t)
  BY <1>5, <1>6, <1>7 DEF G!Step
<1> QED BY <1>3, <1>4, <1>8 DEF s

-----------------------------------------------------------------------------
(* Saving.                                                                 *)

\* A list with another n-th member.
SetAt(w, n, f) == [w EXCEPT ![n] = f]

LEMMA ListSet ==
  ASSUME NEW w, IsList(w), NEW n \in 1..Len(w), NEW f, NEW b, b = SetAt(w, n, f)
  PROVE  /\ IsList(b) /\ Len(b) = Len(w) /\ b[n] = f
         /\ \A i \in 1..Len(w) : i # n => b[i] = w[i]
<1> DEFINE k == Len(w)
<1>1. k \in Nat /\ w = [i \in 1..k |-> w[i]]
  BY ListHas
<1>2. n \in 1..k
  OBVIOUS
<1> HIDE DEF k
<1>3. b = [i \in 1..k |-> IF i = n THEN f ELSE w[i]]
  BY <1>1, <1>2 DEF SetAt
<1>4. b = [i \in 1..k |-> b[i]]
  BY <1>3
<1>5. IsList(b) /\ Len(b) = k
  BY <1>1, <1>4, ListIs
<1>6. b[n] = f /\ \A i \in 1..k : i # n => b[i] = w[i]
  BY <1>2, <1>3
<1> QED BY <1>5, <1>6 DEF k

\* Where something can be saved, a group obeys the statement.
LEMMA InGroup ==
  ASSUME SInv, save_ptr # <<>>, Obeying
  PROVE  Len(calls) \in Nat /\ Len(calls) >= 1 /\ calls[Len(calls)].kind = "group"
<1> DEFINE st == save_ptr  N == Len(st)  k == Len(calls)
<1>1. /\ IsList(st) /\ N \in Nat /\ k \in Nat /\ Cardinality(Bounds(st, N)) = Cardinality(GroupsIn(calls, k))
      /\ calls \in Seq(CallSet)
  BY Situation
<1>2. st[1].info = "boundary" /\ N # 0
  BY <1>1, ListHas DEF SInv, Frames
<1>3. 1 \in Bounds(st, N) /\ Bounds(st, N) \in SUBSET (1..N)
  BY <1>1, <1>2 DEF Bounds
<1>4. Cardinality(Bounds(st, N)) >= 1
  <2>1. IsFiniteSet(1..N)
    BY <1>1, FS_Interval
  <2>2. IsFiniteSet(Bounds(st, N))
    BY <1>3, <2>1, FS_Subset
  <2> QED BY <1>3, <2>2, Positive
<1>5. k # 0
  <2> SUFFICES ASSUME k = 0 PROVE FALSE
    OBVIOUS
  <2>1. GroupsIn(calls, k) = {}
    BY DEF GroupsIn
  <2>2. Cardinality(GroupsIn(calls, k)) = 0
    BY <2>1, FS_EmptySet
  <2> DEFINE a == Cardinality(GroupsIn(calls, k))
  <2>3. a >= 1 /\ a = 0
    BY <1>1, <1>4, <2>2
  <2> HIDE DEF a
  <2> QED BY <2>3
<1>6. calls # <<>> /\ k \in 1..k
  BY <1>1, <1>5
<1>7. calls[k].kind # "none"
  BY <1>1, <1>6 DEF CallSet
<1>8. calls[k].kind = "group"
  BY <1>6, <1>7 DEF Obeying, Top, Last
<1> QED BY <1>1, <1>5, <1>8

\* The innermost group remembers an item that is pushed, and the others do not.
LEMMA FramesPushed ==
  ASSUME SInv, SInv', Obeying, UNCHANGED <<calls, input>>, save_ptr # <<>>,
         NEW e, e.info \in {"symbol", "internal"}, save_ptr' = Append(save_ptr, e),
         e.info = "symbol" => e.q \in Symbols, e.info = "internal" => e.q \in Internals,
         Shared(tab, tab', {}, {})
  PROVE  LET n == Len(calls)  w == UnderWay(tab, save_ptr, calls) IN
         /\ n \in Nat /\ n >= 1
         /\ UnderWay(tab', save_ptr', calls) = [w EXCEPT ![n] = Saving(w[n], e, Meaning(tab', e.value))]
         /\ Texts(tab', input) = Texts(tab, input)
<1> DEFINE st == save_ptr  su == save_ptr'  N == Len(st)  c == calls  n == Len(c)
           w == UnderWay(tab, st, c)  x == UnderWay(tab', su, c)
           K == Cardinality(GroupsIn(c, n))  f == Saving(w[n], e, Meaning(tab', e.value))
           R == {}
<1>1. /\ Lives(tab, st, c, input) /\ IsList(st) /\ c \in Seq(CallSet) /\ input \in Seq(Macros)
      /\ (\A i \in DOMAIN st : ItemOK(st[i])) /\ N \in Nat /\ K = Cardinality(Bounds(st, N))
      /\ Len(input) \in Nat
  BY Situation
<1>2. Lives(tab', su, c, input) /\ IsList(su)
  BY SituationNext
<1>3. n \in Nat /\ n >= 1 /\ c[n].kind = "group"
  BY InGroup
<1>4. Len(su) = N + 1 /\ su[N + 1] = e /\ \A i \in 1..N : su[i] = st[i]
  BY <1>1, ListPush
<1>5. Shared(tab, tab', R, R) /\ (\A i \in DOMAIN st : st[i].info = "symbol" => \A r \in R : ~Owns(st[i].value, r))
  OBVIOUS
<1> HIDE DEF st, su, N, c, n, w, x, K, f, R
<1>6. Agree(st, su, N) /\ N <= Len(st) /\ N <= Len(su)
  BY <1>1, <1>4 DEF Agree, N
<1>7. Cardinality(Bounds(su, N + 1)) = K
  <2>1. Bounds(su, N + 1) = Bounds(st, N)
    BY <1>1, <1>4 DEF Bounds
  <2> QED BY <1>1, <2>1
<1>8. ASSUME NEW i \in 1..(n - 1), c[i].kind = "group"
      PROVE  GroupFrame(tab', su, Cardinality(GroupsIn(c, i))) = GroupFrame(tab, st, Cardinality(GroupsIn(c, i)))
  <2> DEFINE m == Cardinality(GroupsIn(c, i))
  <2>1. i \in Nat /\ n \in Nat /\ i < n
    BY <1>3
  <2>2. m \in Nat /\ K \in Nat /\ m < K
    BY <1>3, <2>1, GroupsGrow DEF K
  <2> HIDE DEF m
  <2>3. \A j \in 1..Len(st) : j > N => st[j].info = "boundary" \/ Cardinality(Bounds(st, j)) # m
    BY <1>1 DEF N
  <2>4. \A j \in 1..Len(su) : j > N => su[j].info = "boundary" \/ Cardinality(Bounds(su, j)) # m
    <3> TAKE j \in 1..Len(su)
    <3> HAVE j > N
    <3>1. j = N + 1
      BY <1>1, <1>4
    <3> QED BY <1>7, <2>2, <3>1
  <2>5. GroupFrame(tab', su, m) = GroupFrame(tab, st, m)
    BY <1>1, <1>2, <1>5, <1>6, <2>3, <2>4, KeptFrame
  <2> QED BY <2>5 DEF m
<1>9. \A i \in 1..(n - 1) : x[i] = w[i]
  <2>1. Agree(c, c, n - 1) /\ n - 1 <= Len(c)
    BY <1>3 DEF Agree, n
  <2> QED BY <1>1, <1>2, <1>5, <1>8, <2>1, KeptCalls DEF x, w
<1>10. x[n] = f
  <2>1. \A q \in Symbols : \A i \in SavedBy(st, K, "symbol", q) : Meaning(tab', st[i].value) = Meaning(tab, st[i].value)
    <3> TAKE q \in Symbols
    <3> TAKE i \in SavedBy(st, K, "symbol", q)
    <3>1. i \in DOMAIN st /\ i \in 1..N /\ st[i].info = "symbol"
      BY <1>1, SavedIs DEF N
    <3>2. i \in DOMAIN su /\ su[i] = st[i]
      BY <1>1, <1>2, <1>4, <3>1, ListHas
    <3> QED BY <1>1, <1>2, <1>5, <3>1, <3>2, SameItem
  <2>2. GroupFrame(tab', su, K) = Saving(GroupFrame(tab, st, K), e, Meaning(tab', e.value))
    <3>1. \A q \in Symbols : \A i \in SavedBy(st, Cardinality(Bounds(st, Len(st))), "symbol", q) :
             Meaning(tab', st[i].value) = Meaning(tab, st[i].value)
      BY <1>1, <2>1 DEF N
    <3>2. su = Append(st, e)
      BY DEF su, st
    <3> QED BY <1>1, <3>1, <3>2, PushedFrame DEF N
  <2>3. n \in 1..n /\ w[n] = GroupFrame(tab, st, K) /\ x[n] = GroupFrame(tab', su, K)
    <3>1. n \in 1..Len(c)
      BY <1>3 DEF n
    <3>2. w[n] = CallFrame(tab, st, c, n) /\ x[n] = CallFrame(tab', su, c, n)
      BY <1>1, <3>1, UnderWayIs DEF w, x
    <3> QED BY <1>3, <3>2 DEF CallFrame, K
  <2> QED BY <2>2, <2>3 DEF f
<1>11. IsList(w) /\ IsList(x) /\ Len(w) = n /\ Len(x) = n
  BY <1>1, UnderWayIs DEF w, x, n
<1>12. x = [w EXCEPT ![n] = f]
  <2> DEFINE b == [w EXCEPT ![n] = f]
  <2>1. n \in 1..Len(w)
    BY <1>3, <1>11
  <2>2. IsList(b) /\ Len(b) = n /\ b[n] = f /\ \A i \in 1..n : i # n => b[i] = w[i]
    <3>1. b = SetAt(w, n, f)
      BY DEF SetAt
    <3> HIDE DEF b
    <3>2. IsList(w)
      BY <1>11
    <3>3. /\ IsList(b) /\ Len(b) = Len(w) /\ b[n] = f
          /\ \A i \in 1..Len(w) : i # n => b[i] = w[i]
      BY ONLY <2>1, <3>1, <3>2, ListSet
    <3> QED BY <1>11, <3>3
  <2> HIDE DEF b
  <2>3. \A i \in 1..n : x[i] = b[i]
    <3> TAKE i \in 1..n
    <3>1. i = n \/ i \in 1..(n - 1)
      BY <1>3
    <3> QED BY <1>3, <1>9, <1>10, <2>2, <3>1
  <2>4. x = b
    BY <1>11, <2>2, <2>3, ListSame
  <2> QED BY <2>4 DEF b
<1>13. Texts(tab', input) = Texts(tab, input)
  <2>1. Agree(input, input, Len(input))
    BY <1>1 DEF Agree
  <2>2. \A i \in 1..Len(input) : Texts(tab', input)[i] = Texts(tab, input)[i]
    BY <1>1, <1>2, <1>5, <2>1, KeptTexts
  <2> QED BY <1>1, <2>2, TextsIs, ListSame
<1> QED BY <1>3, <1>12, <1>13 DEF st, su, c, n, w, x, f

\* The items that are there stay known, and so does a known one that is pushed.
LEMMA PushedKnown ==
  ASSUME SInv, Quantities(tab, save_ptr, internal), NEW e, save_ptr' = Append(save_ptr, e),
         e.info = "symbol" => Known(e.value, DOMAIN internal),
         \A q \in Symbols : Known(tab'.eqtb[q], DOMAIN internal)
  PROVE  Quantities(tab', save_ptr', internal)
<1> DEFINE n == Len(save_ptr)  su == save_ptr'
<1>1. IsList(save_ptr) /\ n \in Nat /\ DOMAIN save_ptr = 1..n
  BY Situation
<1>2. IsList(su) /\ Len(su) = n + 1 /\ su[n + 1] = e /\ \A i \in 1..n : su[i] = save_ptr[i]
  BY <1>1, ListPush
<1> HIDE DEF su, n
<1>3. DOMAIN su = 1..(n + 1)
  BY <1>2, ListHas
<1>4. ASSUME NEW i \in DOMAIN su, su[i].info = "symbol" PROVE Known(su[i].value, DOMAIN internal)
  <2>1. CASE i = n + 1
    BY <1>2, <1>4, <2>1
  <2>2. CASE i # n + 1
    <3>1. i \in 1..n /\ su[i] = save_ptr[i]
      BY <1>1, <1>2, <1>3, <2>2
    <3>2. i \in DOMAIN save_ptr /\ save_ptr[i].info = "symbol"
      BY <1>1, <1>4, <3>1
    <3>3. Known(save_ptr[i].value, DOMAIN internal)
      BY <3>2 DEF Quantities
    <3> QED BY <3>1, <3>3
  <2> QED BY <2>1, <2>2
<1>5. \A i \in DOMAIN save_ptr' : save_ptr'[i].info = "symbol" => Known(save_ptr'[i].value, DOMAIN internal)
  BY <1>4 DEF su
<1> QED BY <1>5 DEF Quantities

\* save: the group remembers the symbol, which loses its meaning.
LEMMA SaveVariableMeans ==
  ASSUME SInv, SInv', QInv, NEW q \in Variables, save_variable(q)
  PROVE  QInv' /\ G!Step(Abstract, Abstract')
<1>1. q \in Symbols
  BY SaveStackAssumption DEF SaveStackAssumption
<1>2. Obeying /\ UNCHANGED <<internal, calls, input>>
  BY DEF save_variable
<1>3. CASE save_ptr = <<>>
  <2>1. tab' = clear_symbol(tab, q, FALSE) /\ UNCHANGED save_ptr
    BY <1>3 DEF save_variable
  <2> QED BY <1>1, <1>2, <2>1, ClearedMeans
<1>4. CASE save_ptr # <<>>
  <2> DEFINE d == tab.eqtb[q]  e == [info |-> "symbol", q |-> q, value |-> d]
             n == Len(calls)  w == UnderWay(tab, save_ptr, calls)
  <2>1. tab' = clear_symbol(tab, q, TRUE) /\ save_ptr' = Append(save_ptr, e)
    <3>1. (save_ptr # <<>>) = TRUE
      BY <1>4
    <3> QED BY <1>4, <3>1 DEF save_variable
  <2>2. tab \in TabSet /\ Lives(tab, save_ptr, calls, input)
    BY Situation
  <2>3. d \in EntrySet /\ Alive(tab, d) /\ Known(d, DOMAIN internal)
    BY <1>1, <2>2, TabIs DEF Lives, QInv, Quantities
  <2>4. /\ Keeps(tab, tab', {}, {}) /\ tab'.eqtb[q] = frozen_undefined
        /\ \A m \in Symbols : m # q => tab'.eqtb[m] = tab.eqtb[m]
    BY <1>1, <2>1, <2>2, <2>3, KeepsSaved
  <2>5. Shared(tab, tab', {}, {})
    BY <2>2, <2>4 DEF Shared
  <2>6. e.info = "symbol" /\ e.q = q /\ e.value = d
    OBVIOUS
  <2> HIDE DEF e, d
  <2>7. Lives(tab', save_ptr', calls, input)
    BY <1>2, SituationNext
  <2>8. Alive(tab', d)
    <3> DEFINE k == Len(save_ptr)
    <3>1. IsList(save_ptr) /\ k \in Nat
      BY Situation
    <3>2. save_ptr'[k + 1] = e /\ Len(save_ptr') = k + 1
      BY <2>1, <3>1, ListPush
    <3>3. DOMAIN save_ptr' = 1..(k + 1)
      BY <3>2, SituationNext
    <3> HIDE DEF k
    <3>4. k + 1 \in DOMAIN save_ptr'
      BY <3>1, <3>3
    <3> QED BY <2>6, <2>7, <3>2, <3>4 DEF Lives
  <2>9. Meaning(tab', d) = Meaning(tab, d)
    BY <2>3, <2>5, <2>8, SameMeaning DEF Shared
  <2>10. /\ n \in Nat /\ n >= 1
         /\ UnderWay(tab', save_ptr', calls) = [w EXCEPT ![n] = Saving(w[n], e, Meaning(tab', e.value))]
         /\ Texts(tab', input) = Texts(tab, input)
    <3>1. /\ SInv /\ SInv' /\ Obeying /\ UNCHANGED <<calls, input>> /\ save_ptr # <<>>
          /\ e.info \in {"symbol", "internal"} /\ save_ptr' = Append(save_ptr, e)
          /\ e.info = "symbol" => e.q \in Symbols
          /\ e.info = "internal" => e.q \in Internals
      BY <1>1, <1>2, <1>4, <2>1, <2>6
    <3> QED BY ONLY <3>1, <2>5, FramesPushed
  <2>11. Env(tab') = [Env(tab) EXCEPT ![q] = G!Undefined]
    <3>1. \A m \in Symbols : m # q => Meaning(tab', tab'.eqtb[m]) = Meaning(tab, tab.eqtb[m])
      BY <2>2, <2>4, <2>5, <2>7, SameSymbol
    <3>2. Meaning(tab', tab'.eqtb[q]) = G!Undefined
      BY <2>4, MeaningIs
    <3> QED BY <3>1, <3>2 DEF Env
  <2>12. QInv'
    <3>1. TextsKnown(tab')
      BY <2>4, KeptTextsKnown DEF QInv
    <3>2. \A m \in Symbols : Known(tab'.eqtb[m], DOMAIN internal)
      <4> TAKE m \in Symbols
      <4>1. CASE m = q
        <5>1. frozen_undefined.eq_type = "tag"
          BY DEF frozen_undefined, Entry
        <5>2. tab'.eqtb[m].eq_type = "tag"
          BY <2>4, <4>1, <5>1
        <5> QED BY <5>2 DEF Known
      <4>2. CASE m # q
        BY <2>4, <4>2 DEF QInv, Quantities
      <4> QED BY <4>1, <4>2
    <3>3. Quantities(tab, save_ptr, internal)
      BY DEF QInv
    <3>4. Quantities(tab', save_ptr', internal)
      BY <2>1, <2>3, <2>6, <3>2, <3>3, PushedKnown
    <3> QED BY <1>2, <3>1, <3>4 DEF QInv
  <2> DEFINE s == Abstract  t == View(tab', internal', save_ptr', calls', input')
  <2>13. /\ s = View(tab, internal, save_ptr, calls, input) /\ Abstract' = t
    BY AbstractIs
  <2>14. /\ s.env = Env(tab) /\ s.internal = internal /\ s.calls = w /\ s.input = Texts(tab, input)
         /\ t.env = Env(tab') /\ t.internal = internal /\ t.calls = UnderWay(tab', save_ptr', calls)
         /\ t.input = Texts(tab', input)
    BY <1>2, <2>13 DEF View
  <2>15. G!Obeying(s.calls)
    BY <1>2, <2>14, Situation, AlsoObeying
  <2>16. Len(w) = n /\ Env(tab)[q] = Meaning(tab, d)
    BY <1>1, Situation, UnderWayIs DEF Env, d
  <2> HIDE DEF s, t, w, n
  <2>17. t.calls = [s.calls EXCEPT ![n].symbols = G!Remember(@, q, s.env[q])]
    <3>1. Meaning(tab', e.value) = s.env[q]
      BY <2>6, <2>9, <2>14, <2>16
    <3>2. Saving(w[n], e, s.env[q]) = [w[n] EXCEPT !.symbols = G!Remember(@, q, s.env[q])]
      BY <2>6 DEF Saving
    <3>3. t.calls = [w EXCEPT ![n] = [w[n] EXCEPT !.symbols = G!Remember(@, q, s.env[q])]]
      BY <2>10, <2>14, <3>1, <3>2
    <3> QED BY <2>14, <3>3
  <2>18. G!Saves(s, t)
    <3>1. Len(s.calls) = n /\ n > 0 /\ t.internal = s.internal
      BY <2>10, <2>14, <2>16
    <3>2. t.env = [s.env EXCEPT ![q] = G!Undefined]
      BY <2>11, <2>14
    <3> QED BY <1>1, <2>17, <3>1, <3>2 DEF G!Saves
  <2>19. t.input = s.input
    BY <2>10, <2>14
  <2>20. G!Step(s, t)
    BY <2>15, <2>18, <2>19 DEF G!Step
  <2> QED BY <2>12, <2>13, <2>20 DEF s
<1> QED BY <1>3, <1>4

\* interim: the group remembers the value of the quantity.
LEMMA SaveInternalMeans ==
  ASSUME SInv, SInv', QInv, NEW q \in Symbols, save_internal(q)
  PROVE  QInv' /\ G!Step(Abstract, Abstract')
<1> DEFINE i == tab.eqtb[q].equiv  e == [info |-> "internal", q |-> i, value |-> internal[i]]
           n == Len(calls)  w == UnderWay(tab, save_ptr, calls)
<1>1. /\ save_ptr' = Append(save_ptr, e) /\ save_ptr # <<>> /\ UNCHANGED <<tab, internal, calls, input>>
      /\ Obeying /\ tab.eqtb[q].eq_type = "internal"
  BY DEF save_internal
<1>2. tab \in TabSet
  BY Situation
<1>3. i \in DOMAIN internal /\ i \in Internals
  BY <1>1 DEF QInv, Quantities, Known
<1> HIDE DEF i
<1>4. e.info = "internal" /\ e.q = i /\ e.value = internal[i]
  OBVIOUS
<1> HIDE DEF e
<1>5. Shared(tab, tab', {}, {})
  BY <1>1, <1>2, KeepsSet DEF Shared
<1>6. /\ n \in Nat /\ n >= 1
      /\ UnderWay(tab', save_ptr', calls) = [w EXCEPT ![n] = Saving(w[n], e, Meaning(tab', e.value))]
      /\ Texts(tab', input) = Texts(tab, input)
  BY <1>1, <1>3, <1>4, <1>5, FramesPushed
<1>7. QInv'
  <2>1. Quantities(tab, save_ptr, internal) /\ TextsKnown(tab)
    BY DEF QInv
  <2>2. \A m \in Symbols : Known(tab'.eqtb[m], DOMAIN internal)
    BY <1>1, <2>1 DEF Quantities
  <2>3. Quantities(tab', save_ptr', internal)
    BY <1>1, <1>4, <2>1, <2>2, PushedKnown
  <2> QED BY <1>1, <2>1, <2>3 DEF QInv
<1> DEFINE s == Abstract  t == View(tab', internal', save_ptr', calls', input')
<1>8. /\ s = View(tab, internal, save_ptr, calls, input) /\ Abstract' = t
  BY AbstractIs
<1>9. /\ s.env = Env(tab) /\ s.internal = internal /\ s.calls = w /\ s.input = Texts(tab, input)
      /\ t.env = s.env /\ t.internal = internal /\ t.calls = UnderWay(tab', save_ptr', calls)
      /\ t.input = s.input
  BY <1>1, <1>6, <1>8 DEF View
<1>10. G!Obeying(s.calls)
  BY <1>1, <1>9, Situation, AlsoObeying
<1>11. Len(w) = n
  BY Situation, UnderWayIs
<1> HIDE DEF s, t, w, n
<1>12. t.calls = [s.calls EXCEPT ![n].internals = G!Remember(@, i, s.internal[i])]
  <2>1. Saving(w[n], e, Meaning(tab', e.value)) = [w[n] EXCEPT !.internals = G!Remember(@, i, s.internal[i])]
    BY <1>4, <1>9 DEF Saving
  <2>2. t.calls = [w EXCEPT ![n] = [w[n] EXCEPT !.internals = G!Remember(@, i, s.internal[i])]]
    BY <1>6, <1>9, <2>1
  <2> QED BY <1>9, <2>2
<1>13. G!Saves(s, t)
  <2>1. Len(s.calls) = n /\ n > 0 /\ t.internal = s.internal /\ t.env = s.env /\ i \in DOMAIN s.internal
    BY <1>3, <1>6, <1>9, <1>11
  <2> QED BY <1>12, <2>1 DEF G!Saves
<1>14. t.input = s.input
  BY <1>9
<1>15. G!Step(s, t)
  BY <1>10, <1>13, <1>14 DEF G!Step
<1> QED BY <1>7, <1>8, <1>15 DEF s

-----------------------------------------------------------------------------
(* Groups begin; macros are called.                                        *)

\* A list with one member more, or less.
LEMMA ListAppend ==
  ASSUME NEW a, IsList(a), NEW b, IsList(b), Len(b) = Len(a) + 1, \A i \in 1..Len(a) : b[i] = a[i]
  PROVE  b = Append(a, b[Len(a) + 1])
<1> DEFINE n == Len(a)  e == b[n + 1]  p == Append(a, e)
<1>1. n \in Nat
  BY ListHas
<1>2. IsList(p) /\ Len(p) = n + 1 /\ p[n + 1] = e /\ \A i \in 1..n : p[i] = a[i]
  BY ListPush
<1> HIDE DEF p, n
<1>3. \A i \in 1..(n + 1) : b[i] = p[i]
  <2> TAKE i \in 1..(n + 1)
  <2>1. i = n + 1 \/ i \in 1..n
    BY <1>1
  <2> QED BY <1>2, <2>1 DEF n
<1>4. Len(b) = n + 1
  BY DEF n
<1>5. b = p
  BY <1>2, <1>3, <1>4, ListSame
<1> QED BY <1>5 DEF p, n

LEMMA ListFront ==
  ASSUME NEW a, IsList(a), NEW b, IsList(b), Len(b) + 1 = Len(a), \A i \in 1..Len(b) : b[i] = a[i]
  PROVE  b = G!Front(a) /\ a[Len(b) + 1] = G!Last(a) /\ a # <<>>
<1> DEFINE n == Len(b)  p == SubSeq(a, 1, n)
<1>1. n \in Nat /\ Len(a) = n + 1 /\ n <= Len(a) /\ Len(a) - 1 = n
  BY ListHas
<1>2. IsList(p) /\ Len(p) = n /\ \A i \in 1..n : p[i] = a[i]
  BY <1>1, ListCut
<1> HIDE DEF p
<1>3. b = p
  BY <1>2, ListSame
<1>4. a # <<>>
  <2>1. Len(a) # 0
    BY <1>1
  <2> QED BY <2>1, ListHas
<1> HIDE DEF n
<1>5. a[n + 1] = G!Last(a) /\ G!Front(a) = SubSeq(a, 1, n)
  BY <1>1 DEF G!Last, G!Front
<1> QED BY <1>3, <1>4, <1>5 DEF n, p

\* Where the symbols and the stack stay, what is there keeps its meaning, the
\* first h calls and the first j texts included.
LEMMA Undisturbed ==
  ASSUME SInv, SInv', Shared(tab, tab', {}, {}), tab'.eqtb = tab.eqtb, save_ptr' = save_ptr,
         NEW h, Agree(calls, calls', h), h <= Len(calls), h <= Len(calls'),
         NEW j, Agree(input, input', j), j <= Len(input), j <= Len(input')
  PROVE  /\ Env(tab') = Env(tab)
         /\ \A n \in 1..h : UnderWay(tab', save_ptr', calls')[n] = UnderWay(tab, save_ptr, calls)[n]
         /\ \A n \in 1..j : Texts(tab', input')[n] = Texts(tab, input)[n]
<1> DEFINE R == {}
<1>1. /\ Lives(tab, save_ptr, calls, input) /\ calls \in Seq(CallSet) /\ input \in Seq(Macros)
      /\ IsList(save_ptr) /\ (\A i \in DOMAIN save_ptr : ItemOK(save_ptr[i])) /\ Len(save_ptr) \in Nat
  BY Situation
<1>2. Lives(tab', save_ptr, calls', input') /\ calls' \in Seq(CallSet) /\ input' \in Seq(Macros)
  BY SituationNext
<1>3. /\ Shared(tab, tab', R, R)
      /\ (\A i \in DOMAIN save_ptr : save_ptr[i].info = "symbol" => \A r \in R : ~Owns(save_ptr[i].value, r))
      /\ \A q \in Symbols : \A r \in R : ~Owns(tab.eqtb[q], r)
  OBVIOUS
<1> HIDE DEF R
<1>4. \A q \in Symbols : Meaning(tab', tab'.eqtb[q]) = Meaning(tab, tab.eqtb[q])
  BY <1>1, <1>2, <1>3, SameSymbol
<1>5. Agree(save_ptr, save_ptr, Len(save_ptr))
  BY <1>1 DEF Agree
<1>6. ASSUME NEW n PROVE GroupFrame(tab', save_ptr, n) = GroupFrame(tab, save_ptr, n)
  <2> DEFINE N == Len(save_ptr)
  <2>1. /\ N <= Len(save_ptr)
        /\ \A i \in 1..Len(save_ptr) : i > N => save_ptr[i].info = "boundary" \/ Cardinality(Bounds(save_ptr, i)) # n
    BY <1>1
  <2>2. Agree(save_ptr, save_ptr, N)
    BY <1>5
  <2> HIDE DEF N
  <2> QED BY ONLY <1>1, <1>2, <1>3, <2>1, <2>2, KeptFrame
<1>7. \A n \in 1..h : UnderWay(tab', save_ptr, calls')[n] = UnderWay(tab, save_ptr, calls)[n]
  BY <1>1, <1>2, <1>3, <1>6, KeptCalls
<1>8. \A n \in 1..j : Texts(tab', input')[n] = Texts(tab, input)[n]
  BY <1>1, <1>2, <1>3, KeptTexts
<1>9. Env(tab') = Env(tab)
  BY <1>4 DEF Env
<1> QED BY <1>7, <1>8, <1>9

\* A macro is called, or held for a call.
LEMMA CallMeans ==
  ASSUME SInv, SInv', QInv, NEW m \in Macros, NEW q \in Symbols, MeansMacro(q, m), tab' = add_mac_ref(tab, m),
         NEW e \in CallSet, e.kind = (IF tab.mac[m].body \in HeldBodies THEN "held" ELSE "args"), e.m = m,
         calls' = Append(calls, e), UNCHANGED <<internal, save_ptr, input>>
  PROVE  QInv' /\ G!Step(Abstract, Abstract')
<1> DEFINE k == Len(calls)  j == Len(input)  d == tab.eqtb[q]  b == Body(tab, m)
           w == UnderWay(tab, save_ptr, calls)  x == UnderWay(tab', save_ptr', calls')
<1>1. /\ tab \in TabSet /\ Lives(tab, save_ptr, calls, input)
      /\ calls \in Seq(CallSet) /\ k \in Nat /\ input \in Seq(Macros) /\ j \in Nat
  BY Situation
<1>2. d \in EntrySet /\ Alive(tab, d)
  BY <1>1, TabIs DEF Lives
<1>3. tab.mac[m].ref_count >= 0 /\ Meaning(tab, d).of = b
  <2>1. CASE d.eq_type = "macro" /\ d.equiv = m
    <3>1. Meaning(tab, d).of = Of(tab, d)
      BY DEF Meaning
    <3>2. Of(tab, d) = b
      BY <2>1 DEF Of
    <3> QED BY <1>2, <2>1, <3>1, <3>2 DEF Alive
  <2>2. CASE d.eq_type = "tag" /\ d.equiv # null /\ tab.root[d.equiv].value = m
    <3>1. Meaning(tab, d).of = Of(tab, d)
      BY DEF Meaning
    <3>2. Of(tab, d) = b
      BY <2>2 DEF Of
    <3> QED BY <1>2, <2>2, <3>1, <3>2 DEF Alive
  <2> QED BY <2>1, <2>2 DEF MeansMacro
<1>4. b \in Bodies
  BY <1>3 DEF QInv, TextsKnown, Body
<1>5. /\ Keeps(tab, tab', {}, {}) /\ tab'.eqtb = tab.eqtb
  BY <1>1, <1>3, KeepsAdd
<1>6. Shared(tab, tab', {}, {})
  BY <1>1, <1>5 DEF Shared
<1>7. /\ calls' \in Seq(CallSet) /\ Len(calls') = k + 1 /\ calls'[k + 1] = e
      /\ \A i \in 1..k : calls'[i] = calls[i]
  BY <1>1, CallsPush
<1>8. Agree(calls, calls', k) /\ Agree(input, input, j) /\ k <= Len(calls')
  BY <1>1, <1>7 DEF Agree
<1>9. /\ Env(tab') = Env(tab)
      /\ \A n \in 1..k : x[n] = w[n]
      /\ \A n \in 1..j : Texts(tab', input)[n] = Texts(tab, input)[n]
  <2>1. k <= Len(calls) /\ j <= Len(input) /\ input' = input /\ save_ptr' = save_ptr
    BY <1>1
  <2> QED BY <1>5, <1>6, <1>8, <2>1, Undisturbed
<1>10. Texts(tab', input) = Texts(tab, input)
  BY <1>1, <1>9, TextsIs, ListSame
<1>11. x[k + 1] = [kind |-> e.kind, body |-> b]
  <2>1. k + 1 \in 1..Len(calls')
    BY <1>1, <1>7
  <2>2. x[k + 1] = CallFrame(tab', save_ptr', calls', k + 1)
    <3>1. calls' \in Seq(CallSet)
      BY <1>7
    <3> QED BY ONLY <2>1, <3>1, FrameAt
  <2>3. CallFrame(tab', save_ptr', calls', k + 1) = [kind |-> e.kind, body |-> Body(tab', m)]
    BY <1>7 DEF CallFrame
  <2>4. tab'.mac[m].ref_count >= 0
    <3>1. Lives(tab', save_ptr', calls', input') /\ DOMAIN calls' = 1..Len(calls')
      BY <1>7, SituationNext
    <3>2. k + 1 \in DOMAIN calls' /\ calls'[k + 1].kind # "group" /\ calls'[k + 1].m = m
      BY <1>7, <2>1, <3>1
    <3> QED BY <3>1, <3>2 DEF Lives
  <2>5. Body(tab', m) = b
    BY <1>3, <1>6, <2>4, SameBody
  <2> QED BY <2>2, <2>3, <2>5
<1>12. x = Append(w, [kind |-> e.kind, body |-> b])
  <2>1. IsList(w) /\ IsList(x) /\ Len(w) = k /\ Len(x) = k + 1
    BY <1>1, <1>7, UnderWayIs
  <2> HIDE DEF w, x, k
  <2>2. x = Append(w, x[k + 1])
    BY <1>9, <2>1, ListAppend
  <2> QED BY <1>11, <2>2
<1>13. QInv'
  <2>1. TextsKnown(tab')
    BY <1>5, KeptTextsKnown DEF QInv
  <2>2. Quantities(tab', save_ptr, internal)
    BY <1>5 DEF QInv, Quantities
  <2> QED BY <2>1, <2>2 DEF QInv
<1> DEFINE s == Abstract  t == View(tab', internal', save_ptr', calls', input')
<1>14. /\ s = View(tab, internal, save_ptr, calls, input) /\ Abstract' = t
  BY AbstractIs
<1>15. /\ s.env = Env(tab) /\ s.internal = internal /\ s.calls = w /\ s.input = Texts(tab, input)
       /\ t.env = s.env /\ t.internal = internal /\ t.calls = x /\ t.input = s.input
  BY <1>9, <1>10, <1>14 DEF View
<1>16. s.env[q].of = b
  BY <1>3, <1>15 DEF Env
<1> HIDE DEF s, t, w, x
<1>17. G!Calls(s, t)
  <2>1. t.calls = Append(s.calls, [kind |-> IF b \in HeldBodies THEN "held" ELSE "args", body |-> b])
    BY <1>12, <1>15 DEF Body
  <2> HIDE DEF b
  <2> QED BY <1>4, <1>16, <2>1 DEF G!Calls
<1>18. G!Step(s, t)
  BY <1>15, <1>17 DEF G!Step
<1> QED BY <1>13, <1>14, <1>18 DEF s

LEMMA StartCallMeans ==
  ASSUME SInv, SInv', QInv, NEW m \in Live(tab), StartCall(m)
  PROVE  QInv' /\ G!Step(Abstract, Abstract')
<1> DEFINE e == [kind |-> "args", m |-> m, held |-> FALSE]
<1>1. m \in Macros
  BY DEF Live
<1>2. PICK q \in Symbols : MeansMacro(q, m)
  BY DEF StartCall
<1>3. /\ tab.mac[m].body \notin HeldBodies /\ tab' = add_mac_ref(tab, m) /\ calls' = Append(calls, e)
      /\ UNCHANGED <<internal, save_ptr, input>>
  BY DEF StartCall
<1>4. e \in CallSet /\ e.kind = "args" /\ e.m = m
  BY <1>1 DEF CallSet
<1> HIDE DEF e
<1>5. e.kind = (IF tab.mac[m].body \in HeldBodies THEN "held" ELSE "args")
  BY <1>3, <1>4
<1> QED BY <1>1, <1>2, <1>3, <1>4, <1>5, CallMeans

LEMMA HoldMeans ==
  ASSUME SInv, SInv', QInv, NEW m \in Live(tab), Hold(m)
  PROVE  QInv' /\ G!Step(Abstract, Abstract')
<1> DEFINE e == [kind |-> "held", m |-> m]
<1>1. m \in Macros
  BY DEF Live
<1>2. PICK q \in Symbols : MeansMacro(q, m)
  BY DEF Hold
<1>3. /\ tab.mac[m].body \in HeldBodies /\ tab' = add_mac_ref(tab, m) /\ calls' = Append(calls, e)
      /\ UNCHANGED <<internal, save_ptr, input>>
  BY DEF Hold
<1>4. e \in CallSet /\ e.kind = "held" /\ e.m = m
  BY <1>1 DEF CallSet
<1> HIDE DEF e
<1>5. e.kind = (IF tab.mac[m].body \in HeldBodies THEN "held" ELSE "args")
  BY <1>3, <1>4
<1> QED BY <1>1, <1>2, <1>3, <1>4, <1>5, CallMeans

\* What is known stays known where nothing is bound or saved.
LEMMA QuietKnown ==
  ASSUME QInv, Keeps(tab, tab', {}, {}), tab'.eqtb = tab.eqtb, UNCHANGED <<internal, save_ptr>>
  PROVE  QInv'
<1>1. TextsKnown(tab')
  BY KeptTextsKnown DEF QInv
<1>2. Quantities(tab', save_ptr, internal)
  BY DEF QInv, Quantities
<1> QED BY <1>1, <1>2 DEF QInv

\* What was held is called.
LEMMA CallHeldMeans ==
  ASSUME SInv, SInv', QInv, CallHeld
  PROVE  QInv' /\ G!Step(Abstract, Abstract')
<1> DEFINE j == Len(input)  m == Last(calls).m  e == [kind |-> "args", m |-> m, held |-> TRUE]
           w == UnderWay(tab, save_ptr, calls)  x == UnderWay(tab', save_ptr', calls')  b == Body(tab, m)
<1>1. /\ calls # <<>> /\ Last(calls).kind = "held"
      /\ tab' = add_mac_ref(tab, m) /\ calls' = [calls EXCEPT ![Len(calls)] = e]
      /\ UNCHANGED <<internal, save_ptr, input>>
  BY DEF CallHeld, Top
<1>2. /\ tab \in TabSet /\ Lives(tab, save_ptr, calls, input) /\ DOMAIN calls = 1..Len(calls)
      /\ calls \in Seq(CallSet) /\ input \in Seq(Macros) /\ j \in Nat
  BY Situation
<1>3. PICK k \in Nat : Len(calls) = k + 1 /\ calls[k + 1] = Last(calls) /\ Last(calls) \in CallSet
  BY <1>1, <1>2, CallsFront
<1>4. m \in Macros /\ e \in CallSet /\ e.kind = "args" /\ e.m = m /\ calls[k + 1].m = m /\ calls[k + 1].kind = "held"
  BY <1>1, <1>3 DEF CallSet
<1> HIDE DEF m, e
<1>5. /\ calls' \in Seq(CallSet) /\ Len(calls') = k + 1 /\ calls'[k + 1] = e
      /\ \A i \in 1..k : calls'[i] = calls[i]
  BY <1>1, <1>2, <1>3, <1>4
<1>6. Agree(calls, calls', k) /\ Agree(input, input, j) /\ k <= Len(calls) /\ k <= Len(calls') /\ k + 1 \in 1..(k + 1)
  BY <1>2, <1>3, <1>5 DEF Agree
<1>7. tab.mac[m].ref_count >= 0 /\ tab'.mac[m].ref_count >= 0
  <2>1. Lives(tab', save_ptr', calls', input') /\ DOMAIN calls' = 1..(k + 1)
    BY <1>5, SituationNext
  <2> QED BY <1>2, <1>3, <1>4, <1>5, <1>6, <2>1 DEF Lives
<1>8. Keeps(tab, tab', {}, {}) /\ tab'.eqtb = tab.eqtb
  BY <1>1, <1>2, <1>4, <1>7, KeepsAdd
<1>9. Shared(tab, tab', {}, {})
  BY <1>2, <1>8 DEF Shared
<1>10. /\ Env(tab') = Env(tab)
       /\ \A n \in 1..k : x[n] = w[n]
       /\ \A n \in 1..j : Texts(tab', input)[n] = Texts(tab, input)[n]
  <2>1. j <= Len(input) /\ input' = input /\ save_ptr' = save_ptr
    BY <1>1, <1>2
  <2> QED BY <1>6, <1>8, <1>9, <2>1, Undisturbed
<1>11. Texts(tab', input) = Texts(tab, input)
  BY <1>2, <1>10, TextsIs, ListSame
<1>12. Body(tab', m) = b
  BY <1>4, <1>7, <1>9, SameBody
<1>13. w[k + 1] = [kind |-> "held", body |-> b] /\ x[k + 1] = [kind |-> "args", body |-> b]
  <2>1. k + 1 \in 1..Len(calls) /\ k + 1 \in 1..Len(calls')
    BY <1>3, <1>5, <1>6
  <2>2. w[k + 1] = CallFrame(tab, save_ptr, calls, k + 1)
    BY ONLY <1>2, <2>1, FrameAt
  <2>3. calls' \in Seq(CallSet)
    BY <1>5
  <2>4. x[k + 1] = CallFrame(tab', save_ptr', calls', k + 1)
    BY ONLY <2>1, <2>3, FrameAt
  <2> QED BY <1>4, <1>5, <1>12, <2>2, <2>4 DEF CallFrame
<1>14. IsList(w) /\ IsList(x) /\ Len(w) = k + 1 /\ Len(x) = k + 1
  BY <1>2, <1>3, <1>5, UnderWayIs
<1> HIDE DEF w, x, b
<1>15. x = [w EXCEPT ![k + 1] = [w[k + 1] EXCEPT !.kind = "args"]]
  <2> DEFINE f == [w[k + 1] EXCEPT !.kind = "args"]  y == SetAt(w, k + 1, f)
  <2>1. k + 1 \in 1..Len(w)
    BY <1>6, <1>14
  <2>2. f = [kind |-> "args", body |-> b]
    BY <1>13
  <2> HIDE DEF f
  <2>3. y = SetAt(w, k + 1, f)
    OBVIOUS
  <2> HIDE DEF y
  <2>4. IsList(w)
    BY <1>14
  <2>5. IsList(y) /\ Len(y) = Len(w) /\ y[k + 1] = f /\ \A i \in 1..Len(w) : i # k + 1 => y[i] = w[i]
    BY ONLY <2>1, <2>3, <2>4, ListSet
  <2>6. \A i \in 1..(k + 1) : x[i] = y[i]
    <3> TAKE i \in 1..(k + 1)
    <3>1. i = k + 1 \/ (i \in 1..k /\ i # k + 1)
      BY <1>3
    <3> QED BY <1>10, <1>13, <1>14, <2>2, <2>5, <3>1
  <2>7. x = y
    BY <1>14, <2>5, <2>6, ListSame
  <2> QED BY <2>7 DEF y, SetAt, f
<1>16. QInv'
  BY <1>1, <1>8, QuietKnown
<1> DEFINE s == Abstract  t == View(tab', internal', save_ptr', calls', input')
<1>17. /\ s = View(tab, internal, save_ptr, calls, input) /\ Abstract' = t
  BY AbstractIs
<1>18. /\ s.env = Env(tab) /\ s.internal = internal /\ s.calls = w /\ s.input = Texts(tab, input)
       /\ t.env = s.env /\ t.internal = internal /\ t.calls = x /\ t.input = s.input
  BY <1>1, <1>10, <1>11, <1>17 DEF View, w, x
<1> HIDE DEF s, t
<1>19. s.calls # <<>> /\ Len(s.calls) = k + 1 /\ G!Last(s.calls).kind = "held"
  <2>1. w # <<>>
    BY <1>14, ListHas
  <2>2. G!Last(w) = w[k + 1]
    BY <1>14 DEF G!Last
  <2>3. w[k + 1].kind = "held"
    BY <1>13
  <2> QED BY <1>14, <1>18, <2>1, <2>2, <2>3
<1>20. t.calls = [s.calls EXCEPT ![Len(s.calls)].kind = "args"]
  BY <1>15, <1>18, <1>19
<1>21. G!Step(s, t)
  BY <1>18, <1>19, <1>20 DEF G!Step
<1> QED BY <1>16, <1>17, <1>21 DEF s

\* An input level ends.
LEMMA EndTokenListMeans ==
  ASSUME SInv, SInv', QInv, end_token_list
  PROVE  QInv' /\ G!Step(Abstract, Abstract')
<1> DEFINE k == Len(calls)  m == Last(input)  j == Len(input) - 1
           a == Texts(tab, input)  b == Texts(tab', input')
<1>1. /\ input # <<>> /\ tab' = delete_mac_ref(tab, m) /\ input' = Front(input)
      /\ UNCHANGED <<internal, save_ptr, calls>>
  BY DEF end_token_list
<1>2. tab \in TabSet /\ calls \in Seq(CallSet) /\ input \in Seq(Macros) /\ k \in Nat
  BY Situation
<1>3. j \in Nat /\ j \in 0..Len(input) /\ Len(input) = j + 1 /\ m \in Macros /\ input' = SubSeq(input, 1, j)
  BY <1>1, <1>2 DEF Last, Front
<1> HIDE DEF j, m
<1>4. input' \in Seq(Macros) /\ Len(input') = j /\ \A i \in 1..j : input'[i] = input[i]
  BY <1>2, <1>3, InputFirst
<1>5. Agree(input, input', j) /\ Agree(calls, calls, k) /\ j <= Len(input) /\ j <= Len(input') /\ k <= Len(calls)
  BY <1>2, <1>3, <1>4 DEF Agree
<1>6. Keeps(tab, tab', {}, {}) /\ tab'.eqtb = tab.eqtb
  BY <1>1, <1>2, <1>3, KeepsDelete
<1>7. Shared(tab, tab', {}, {})
  BY <1>2, <1>6 DEF Shared
<1>8. /\ Env(tab') = Env(tab)
      /\ \A n \in 1..k : UnderWay(tab', save_ptr', calls)[n] = UnderWay(tab, save_ptr, calls)[n]
      /\ \A n \in 1..j : b[n] = a[n]
  <2>1. calls' = calls /\ save_ptr' = save_ptr
    BY <1>1
  <2> QED BY <1>5, <1>6, <1>7, <2>1, Undisturbed
<1>9. UnderWay(tab', save_ptr', calls) = UnderWay(tab, save_ptr, calls)
  BY <1>2, <1>8, UnderWayIs, ListSame
<1>10. IsList(a) /\ IsList(b) /\ Len(a) = j + 1 /\ Len(b) = j
  BY <1>2, <1>3, <1>4, TextsIs
<1> HIDE DEF a, b
<1>11. b = G!Front(a) /\ a # <<>>
  BY <1>8, <1>10, ListFront
<1>12. QInv'
  BY <1>1, <1>6, QuietKnown
<1> DEFINE s == Abstract  t == View(tab', internal', save_ptr', calls', input')
<1>13. /\ s = View(tab, internal, save_ptr, calls, input) /\ Abstract' = t
  BY AbstractIs
<1>14. /\ s.input = a /\ t.env = s.env /\ t.internal = s.internal /\ t.calls = s.calls /\ t.input = b
  BY <1>1, <1>8, <1>9, <1>13 DEF View, a, b
<1> HIDE DEF s, t
<1>15. G!Step(s, t)
  BY <1>11, <1>14 DEF G!Step
<1> QED BY <1>12, <1>13, <1>15 DEF s

\* A group begins: it has saved nothing.
LEMMA BeginGroupMeans ==
  ASSUME SInv, SInv', QInv, BeginGroup
  PROVE  QInv' /\ G!Step(Abstract, Abstract')
<1> DEFINE e == [info |-> "boundary"]  f == [kind |-> "group"]  N == Len(save_ptr)  k == Len(calls)
           st == save_ptr  su == save_ptr'
           w == UnderWay(tab, st, calls)  x == UnderWay(tab', su, calls')
<1>1. su = Append(st, e) /\ calls' = Append(calls, f) /\ UNCHANGED <<tab, internal, input>>
  BY DEF BeginGroup
<1>2. /\ tab \in TabSet /\ Lives(tab, st, calls, input) /\ calls \in Seq(CallSet) /\ k \in Nat
      /\ IsList(st) /\ N \in Nat /\ DOMAIN st = 1..N /\ \A i \in DOMAIN st : ItemOK(st[i])
  BY Situation
<1>3. Lives(tab', su, calls', input') /\ IsList(su) /\ DOMAIN su = 1..Len(su)
  BY SituationNext
<1>4. e.info = "boundary" /\ f \in CallSet /\ f.kind = "group"
  BY DEF CallSet
<1>5. Len(su) = N + 1 /\ su[N + 1] = e /\ \A i \in 1..N : su[i] = st[i]
  BY <1>1, <1>2, ListPush
<1>6. /\ calls' \in Seq(CallSet) /\ Len(calls') = k + 1 /\ calls'[k + 1] = f
      /\ \A i \in 1..k : calls'[i] = calls[i]
  BY <1>1, <1>2, <1>4, CallsPush
<1>7. Keeps(tab, tab', {}, {}) /\ Shared(tab, tab', {}, {}) /\ tab' = tab
  BY <1>1, <1>2, KeepsSet DEF Shared
<1>8. Cardinality(Bounds(su, N + 1)) = Cardinality(GroupsIn(calls', k + 1))
  BY <1>5, <1>6 DEF SInv, Frames
<1>9. N <= Len(su) /\ Agree(st, su, N) /\ Agree(calls, calls', k) /\ k <= Len(calls')
  BY <1>2, <1>5, <1>6 DEF Agree
<1> HIDE DEF e, f
<1>10. ASSUME NEW n PROVE GroupFrame(tab', su, n) = GroupFrame(tab, st, n)
  <2> DEFINE R == {}  h == N
  <2>1. Shared(tab, tab', R, R) /\ (\A i \in DOMAIN st : st[i].info = "symbol" => \A r \in R : ~Owns(st[i].value, r))
    BY <1>7
  <2>2. \A i \in 1..Len(st) : i > h => st[i].info = "boundary" \/ Cardinality(Bounds(st, i)) # n
    BY <1>2
  <2>3. \A i \in 1..Len(su) : i > h => su[i].info = "boundary" \/ Cardinality(Bounds(su, i)) # n
    <3> TAKE i \in 1..Len(su)
    <3> HAVE i > h
    <3>1. i = N + 1
      BY <1>2, <1>5
    <3> QED BY <1>4, <1>5, <3>1
  <2>4. Agree(st, su, h) /\ h <= Len(st) /\ h <= Len(su)
    BY <1>2, <1>9
  <2> HIDE DEF R, h, su, st, N
  <2> QED BY ONLY <1>2, <1>3, <2>1, <2>2, <2>3, <2>4, KeptFrame
<1>11. \A n \in 1..k : x[n] = w[n]
  <2> DEFINE h == k
  <2>1. Agree(calls, calls', h) /\ h <= Len(calls) /\ h <= Len(calls')
    BY <1>2, <1>9
  <2> HIDE DEF h
  <2>2. \A n \in 1..h : x[n] = w[n]
    BY <1>2, <1>3, <1>6, <1>7, <1>10, <2>1, KeptCalls
  <2> QED BY <2>2 DEF h
<1>12. x[k + 1] = G!NewGroup
  <2> DEFINE K == Cardinality(GroupsIn(calls', k + 1))
  <2>1. k + 1 \in 1..Len(calls')
    BY <1>2, <1>6
  <2>2. calls' \in Seq(CallSet)
    BY <1>6
  <2>3. x[k + 1] = CallFrame(tab', su, calls', k + 1)
    BY ONLY <2>1, <2>2, FrameAt
  <2>4. x[k + 1] = GroupFrame(tab', su, K)
    BY <1>4, <1>6, <2>3 DEF CallFrame
  <2>5. \A kind \in {"symbol", "internal"} : \A y : SavedBy(su, K, kind, y) = {}
    <3> TAKE kind \in {"symbol", "internal"}
    <3> TAKE y
    <3> SUFFICES ASSUME NEW i \in SavedBy(su, K, kind, y) PROVE FALSE
      OBVIOUS
    <3>1. i \in 1..(N + 1) /\ su[i].info = kind /\ Cardinality(Bounds(su, i)) = K
      BY <1>3, <1>5 DEF SavedBy
    <3>2. i # N + 1
      BY <1>4, <1>5, <3>1
    <3> DEFINE a == Cardinality(Bounds(su, i))  b == Cardinality(Bounds(su, N + 1))
    <3>3. i \in Nat /\ N + 1 \in Nat /\ i <= N + 1 /\ N + 1 \in 1..(N + 1) /\ N + 1 > i
      BY <1>2, <3>1, <3>2
    <3>4. a < b /\ a \in Nat
      BY <1>4, <1>5, <3>3, BoundsGrow
    <3>5. a = K /\ b = K
      BY <1>8, <3>1
    <3> HIDE DEF a, b, K
    <3> QED BY <3>4, <3>5
  <2>6. \A y : SavedBy(su, K, "symbol", y) = {} /\ SavedBy(su, K, "internal", y) = {}
    BY <2>5
  <2> HIDE DEF K, su
  <2>7. /\ {q \in Symbols : SavedBy(su, K, "symbol", q) # {}} = {}
        /\ {i \in Internals : SavedBy(su, K, "internal", i) # {}} = {}
    BY <2>6
  <2>8. GroupFrame(tab', su, K) = [kind |-> "group", symbols |-> [q \in {} |-> G!Undefined], internals |-> [i \in {} |-> 0]]
    <3> DEFINE D == {q \in Symbols : SavedBy(su, K, "symbol", q) # {}}
               E == {i \in Internals : SavedBy(su, K, "internal", i) # {}}
               g == [q \in D |-> Meaning(tab', FirstSaved(su, K, "symbol", q))]
               h == [i \in E |-> FirstSaved(su, K, "internal", i)]
    <3>1. GroupFrame(tab', su, K) = [kind |-> "group", symbols |-> g, internals |-> h]
      BY DEF GroupFrame
    <3>2. D = {} /\ E = {}
      BY <2>7
    <3> HIDE DEF D, E
    <3>3. g = [q \in {} |-> G!Undefined] /\ h = [i \in {} |-> 0]
      BY <3>2
    <3> HIDE DEF g, h
    <3> QED BY <3>1, <3>3
  <2> QED BY <2>4, <2>8 DEF G!NewGroup
<1>13. IsList(w) /\ IsList(x) /\ Len(w) = k /\ Len(x) = k + 1
  BY <1>2, <1>6, UnderWayIs
<1>14. QInv'
  <2>1. Quantities(tab, st, internal) /\ TextsKnown(tab)
    BY DEF QInv
  <2>2. \A q \in Symbols : Known(tab'.eqtb[q], DOMAIN internal)
    BY <1>7, <2>1 DEF Quantities
  <2>3. e.info # "symbol"
    BY <1>4
  <2>4. Quantities(tab', su, internal)
    BY <1>1, <2>1, <2>2, <2>3, PushedKnown
  <2> QED BY <1>1, <2>1, <2>4 DEF QInv
<1> DEFINE s == Abstract  t == View(tab', internal', save_ptr', calls', input')
<1>15. /\ s = View(tab, internal, save_ptr, calls, input) /\ Abstract' = t
  BY AbstractIs
<1>16. /\ s.env = Env(tab) /\ s.internal = internal /\ s.calls = w /\ s.input = Texts(tab, input)
       /\ t.env = s.env /\ t.internal = internal /\ t.calls = x /\ t.input = s.input
  BY <1>1, <1>15 DEF View
<1> HIDE DEF s, t, w, x, k
<1>17. x = Append(w, G!NewGroup)
  <2>1. x = Append(w, x[k + 1])
    BY <1>11, <1>13, ListAppend
  <2> QED BY <1>12, <2>1
<1>18. G!Step(s, t)
  BY <1>16, <1>17 DEF G!Step
<1> QED BY <1>14, <1>15, <1>18 DEF s

\* Ended levels take only their own references, and so does a lowered count.
LEMMA KeepsDepleted ==
  ASSUME input \in Seq(Macros), NEW h \in 0..Len(input), tab \in TabSet
  PROVE  /\ Depleted(tab, h) \in TabSet /\ Keeps(tab, Depleted(tab, h), {}, {})
         /\ Depleted(tab, h).eqtb = tab.eqtb
<1> DEFINE N == Len(input)  M == N - h
           g == CHOOSE f : IsGone(f, tab, N, M)
<1>1. N \in Nat /\ h \in Nat /\ h <= N /\ \A i \in 1..N : input[i] \in Macros
  OBVIOUS
<1>2. Depleted(tab, h) = g[M]
  BY DEF Depleted, IsGone
<1> HIDE DEF N
<1>3. M \in Nat /\ M = N - h
  BY <1>1
<1> HIDE DEF M
<1>4. g = [j \in 0..M |-> IF j = 0 THEN tab ELSE delete_mac_ref(g[j - 1], input[N - j + 1])]
  <2>1. M \in Nat
    BY <1>3
  <2>2. IsGone(g, tab, N, M)
    BY <2>1, GoneDefined
  <2> QED BY <2>2 DEF IsGone
<1> HIDE DEF g
<1> DEFINE Right(j) == g[j] \in TabSet /\ Keeps(tab, g[j], {}, {}) /\ g[j].eqtb = tab.eqtb
           S == {j \in Nat : j <= M => Right(j)}
<1>5. 0 \in S
  <2>1. g[0] = tab
    BY <1>3, <1>4
  <2> QED BY <2>1, KeepsSet
<1>6. ASSUME NEW j \in Nat, j \in S PROVE j + 1 \in S
  <2> SUFFICES ASSUME j + 1 <= M PROVE Right(j + 1)
    OBVIOUS
  <2>1. /\ j <= M /\ j + 1 \in 0..M /\ j + 1 # 0 /\ (j + 1) - 1 = j /\ N - (j + 1) + 1 \in 1..N
    BY <1>1, <1>3
  <2> DEFINE m == input[N - (j + 1) + 1]
  <2>2. g[j + 1] = delete_mac_ref(g[j], m) /\ m \in Macros
    BY <1>1, <1>4, <2>1
  <2>3. Right(j)
    BY <1>6, <2>1
  <2> HIDE DEF m, S
  <2>4. g[j + 1] \in TabSet /\ Keeps(g[j], g[j + 1], {}, {}) /\ g[j + 1].eqtb = g[j].eqtb
    BY <2>2, <2>3, KeepsDelete
  <2>5. Keeps(tab, g[j + 1], {} \cup {}, {} \cup {})
    BY <2>3, <2>4, KeepsTwice
  <2>6. Keeps(tab, g[j + 1], {}, {})
    BY <2>5
  <2> QED BY <2>3, <2>4, <2>6
<1>7. Nat \subseteq S
  <2> HIDE DEF S
  <2> QED BY <1>5, <1>6, NatSetInduction
<1>8. Right(M)
  BY <1>3, <1>7
<1> QED BY <1>2, <1>8

LEMMA KeepsLower ==
  ASSUME NEW t \in TabSet, NEW m \in Macros
  PROVE  LET u == [t EXCEPT !.mac[m].ref_count = @ - 1] IN Keeps(t, u, {}, {}) /\ u.eqtb = t.eqtb
<1> DEFINE old == t.mac[m]  c == [old EXCEPT !.ref_count = @ - 1]  u == [t EXCEPT !.mac[m].ref_count = @ - 1]
<1>1. old \in MacSet /\ old.ref_count \in Int
  BY TabIs
<1>2. c \in MacSet /\ c.ref_count = old.ref_count - 1 /\ c.body = old.body
  <2> HIDE DEF old
  <2> QED BY <1>1 DEF MacSet
<1>3. u = SetMac(t, m, c)
  BY DEF SetMac
<1> HIDE DEF c, u
<1>4. c.ref_count >= 0 => old.ref_count >= 0
  <2> HIDE DEF old
  <2> QED BY <1>1, <1>2
<1>5. Keeps(t, u, {}, {})
  BY <1>2, <1>3, <1>4, KeepsMac
<1>6. u.eqtb = t.eqtb
  BY <1>2, <1>3, MacSet1
<1> QED BY <1>5, <1>6 DEF u

\* The replacement text goes to the input, and the call is over.
LEMMA FeedMeans ==
  ASSUME SInv, SInv', QInv, Feed
  PROVE  QInv' /\ G!Step(Abstract, Abstract')
<1> DEFINE f == Last(calls)  m == f.m  b == Body(tab, m)
           w == UnderWay(tab, save_ptr, calls)  x == UnderWay(tab', save_ptr', calls')
           a == Texts(tab, input)  z == Texts(tab', input')
<1>1. /\ calls # <<>> /\ f.kind = "args" /\ calls' = Front(calls) /\ UNCHANGED <<internal, save_ptr>>
  BY DEF Feed, Top
<1>2. PICK h \in 0..Len(input) :
          /\ input' = Append(SubSeq(input, 1, h), m)
          /\ tab' = IF f.held THEN [Depleted(tab, h) EXCEPT !.mac[m].ref_count = @ - 1]
                    ELSE Depleted(tab, h)
  BY DEF Feed
<1>3. /\ h \in Nat /\ calls \in Seq(CallSet) /\ input \in Seq(Macros) /\ DOMAIN calls = 1..Len(calls)
      /\ tab \in TabSet /\ Lives(tab, save_ptr, calls, input) /\ Len(input) \in Nat
  BY Situation
<1>4. PICK k \in Nat : /\ Len(calls) = k + 1 /\ calls[k + 1] = f /\ f \in CallSet
                       /\ calls' \in Seq(CallSet) /\ Len(calls') = k
                       /\ \A i \in 1..k : calls'[i] = calls[i]
  BY <1>1, <1>3, CallsFront
<1>5. m \in Macros /\ f.held \in BOOLEAN
  BY <1>1, <1>4 DEF CallSet
<1>6. /\ input' \in Seq(Macros) /\ Len(input') = h + 1 /\ input'[h + 1] = m
      /\ \A i \in 1..h : input'[i] = input[i]
  <2> DEFINE p == SubSeq(input, 1, h)
  <2>1. p \in Seq(Macros) /\ Len(p) = h /\ \A i \in 1..h : p[i] = input[i]
    BY <1>3, InputFirst
  <2> HIDE DEF p, m
  <2> QED BY <1>2, <1>3, <1>5, <2>1 DEF p
<1> HIDE DEF f, m
<1>7. /\ Agree(calls, calls', k) /\ Agree(input, input', h) /\ k <= Len(calls) /\ k <= Len(calls')
      /\ h <= Len(input) /\ h <= Len(input')
  BY <1>3, <1>4, <1>6 DEF Agree
<1>8. Keeps(tab, tab', {}, {}) /\ tab'.eqtb = tab.eqtb
  <2> DEFINE t == Depleted(tab, h)
  <2>1. t \in TabSet /\ Keeps(tab, t, {}, {}) /\ t.eqtb = tab.eqtb
    BY <1>3, KeepsDepleted
  <2>2. tab' = IF f.held THEN [t EXCEPT !.mac[m].ref_count = @ - 1] ELSE t
    BY <1>2
  <2> HIDE DEF t
  <2>3. CASE f.held
    <3> DEFINE u == [t EXCEPT !.mac[m].ref_count = @ - 1]
    <3>1. Keeps(t, u, {}, {}) /\ u.eqtb = t.eqtb
      BY <1>5, <2>1, KeepsLower
    <3>2. tab' = u
      BY <2>2, <2>3
    <3> HIDE DEF u
    <3>3. Keeps(tab, u, {} \cup {}, {} \cup {})
      BY <2>1, <3>1, KeepsTwice
    <3> QED BY <2>1, <3>1, <3>2, <3>3
  <2>4. CASE ~f.held
    BY <2>1, <2>2, <2>4
  <2> QED BY <2>3, <2>4
<1>9. Shared(tab, tab', {}, {})
  BY <1>3, <1>8 DEF Shared
<1>10. /\ Env(tab') = Env(tab)
       /\ \A n \in 1..k : x[n] = w[n]
       /\ \A n \in 1..h : z[n] = a[n]
  <2>1. save_ptr' = save_ptr
    BY <1>1
  <2> QED BY <1>7, <1>8, <1>9, <2>1, Undisturbed
<1>11. IsList(w) /\ IsList(x) /\ Len(w) = k + 1 /\ Len(x) = k
  BY <1>3, <1>4, UnderWayIs
<1>12. IsList(a) /\ IsList(z) /\ Len(a) = Len(input) /\ Len(z) = h + 1 /\ z[h + 1] = Body(tab', m)
  <2>1. h + 1 \in 1..Len(input')
    BY <1>3, <1>6
  <2> QED BY <1>3, <1>6, <2>1, TextsIs
<1>13. k + 1 \in 1..Len(calls) /\ h + 1 \in 1..(h + 1)
  BY <1>3, <1>4
<1>14. Body(tab', m) = b
  <2>1. tab.mac[m].ref_count >= 0
    BY <1>1, <1>3, <1>4, <1>13 DEF Lives, m
  <2>2. Lives(tab', save_ptr', calls', input') /\ DOMAIN input' = 1..(h + 1)
    BY <1>6, SituationNext
  <2>3. tab'.mac[m].ref_count >= 0
    BY <1>6, <1>13, <2>2 DEF Lives
  <2> QED BY <1>5, <1>9, <2>1, <2>3, SameBody
<1>15. w[k + 1] = [kind |-> "args", body |-> b]
  <2>1. w[k + 1] = CallFrame(tab, save_ptr, calls, k + 1)
    BY ONLY <1>3, <1>13, FrameAt
  <2> QED BY <1>1, <1>4, <2>1 DEF CallFrame, m
<1> HIDE DEF w, x, a, z, b
<1>16. x = G!Front(w) /\ w[k + 1] = G!Last(w) /\ w # <<>>
  BY <1>10, <1>11, ListFront
<1>17. z = Append(SubSeq(a, 1, h), b)
  <2> DEFINE p == SubSeq(a, 1, h)
  <2>1. IsList(p) /\ Len(p) = h /\ \A i \in 1..h : p[i] = a[i]
    BY <1>3, <1>7, <1>12, ListCut
  <2> HIDE DEF p
  <2>2. \A i \in 1..Len(p) : z[i] = p[i]
    BY <1>10, <2>1
  <2>3. z = Append(p, z[h + 1])
    BY <1>12, <2>1, <2>2, ListAppend
  <2> QED BY <1>12, <1>14, <2>3 DEF p
<1>18. QInv'
  BY <1>1, <1>8, QuietKnown
<1> DEFINE s == Abstract  t == View(tab', internal', save_ptr', calls', input')
<1>19. /\ s = View(tab, internal, save_ptr, calls, input) /\ Abstract' = t
  BY AbstractIs
<1>20. /\ s.env = Env(tab) /\ s.internal = internal /\ s.calls = w /\ s.input = a
       /\ t.env = s.env /\ t.internal = internal /\ t.calls = x /\ t.input = z
  BY <1>1, <1>10, <1>19 DEF View, w, x, a, z
<1> HIDE DEF s, t
<1>21. s.calls # <<>> /\ G!Last(s.calls).kind = "args" /\ G!Last(s.calls).body = b
  <2>1. G!Last(w) = [kind |-> "args", body |-> b]
    BY <1>15, <1>16
  <2> QED BY <1>16, <1>20, <2>1
<1>22. G!Feeds(s, t)
  <2>1. h \in 0..Len(s.input)
    BY <1>3, <1>7, <1>12, <1>20
  <2>2. t.input = Append(SubSeq(s.input, 1, h), G!Last(s.calls).body)
    BY <1>17, <1>20, <1>21
  <2>3. t.calls = G!Front(s.calls)
    BY <1>16, <1>20
  <2> QED BY <2>1, <2>2, <2>3 DEF G!Feeds
<1>23. G!Step(s, t)
  BY <1>20, <1>21, <1>22 DEF G!Step
<1> QED BY <1>18, <1>19, <1>23 DEF s

-----------------------------------------------------------------------------
(* A group ends.                                                           *)

\* The items above the first n that saved x, and what they make of it.
Above(st, n, N, kind, x) == {i \in (n + 1)..N : st[i].info = kind /\ st[i].q = x}
Put(st, n, N, kind, x, old) ==
    IF Above(st, n, N, kind, x) = {} THEN old ELSE st[Min(Above(st, n, N, kind, x))].value

Back(st, n, f) == [i \in DOMAIN f |-> Put(st, n, Len(st), "internal", i, f[i])]

SavedAbove(st, n, k) ==
    \A kind \in {"symbol", "internal"} : \A x : Above(st, n, Len(st), kind, x) = SavedBy(st, k, kind, x)
BackAbove(t, u, st, n) == \A q \in Symbols : u.eqtb[q] = Put(st, n, Len(st), "symbol", q, t.eqtb[q])

LEMMA PutSome ==
  ASSUME NEW st, NEW n \in Nat, NEW N \in Nat, NEW kind, NEW x, NEW old, Above(st, n, N, kind, x) # {}
  PROVE  \E i \in (n + 1)..N : /\ i = Min(Above(st, n, N, kind, x)) /\ st[i].info = kind /\ st[i].q = x
                               /\ Put(st, n, N, kind, x, old) = st[i].value
<1> DEFINE A == Above(st, n, N, kind, x)
<1>1. A \subseteq (n + 1)..N /\ (\A i \in A : st[i].info = kind /\ st[i].q = x) /\ A # {}
  BY DEF Above
<1> HIDE DEF A
<1>2. A \subseteq Nat
  BY <1>1
<1>3. Min(A) \in A
  BY <1>1, <1>2, MinIs
<1>4. Put(st, n, N, kind, x, old) = st[Min(A)].value
  BY <1>1 DEF Put, A
<1> QED BY <1>1, <1>3, <1>4 DEF A

LEMMA PutStep ==
  ASSUME NEW st, NEW n \in Nat, NEW N \in Nat, n < N, NEW kind, NEW x, NEW old
  PROVE  /\ st[n + 1].info = kind /\ st[n + 1].q = x => Put(st, n, N, kind, x, old) = st[n + 1].value
         /\ ~(st[n + 1].info = kind /\ st[n + 1].q = x)
               => Put(st, n, N, kind, x, old) = Put(st, n + 1, N, kind, x, old)
<1>1. ASSUME st[n + 1].info = kind, st[n + 1].q = x
      PROVE  Put(st, n, N, kind, x, old) = st[n + 1].value
  <2> DEFINE A == Above(st, n, N, kind, x)
  <2>1. n + 1 \in A /\ A \subseteq (n + 1)..N
    BY <1>1 DEF Above
  <2> HIDE DEF A
  <2>2. A \subseteq Nat /\ A # {}
    BY <2>1
  <2>3. Min(A) \in A /\ Min(A) <= n + 1
    BY <2>1, <2>2, MinIs
  <2> DEFINE j == Min(A)
  <2>4. j \in (n + 1)..N /\ j <= n + 1
    BY <2>1, <2>3
  <2> HIDE DEF j
  <2>6. j = n + 1
    BY <2>4
  <2>5. Put(st, n, N, kind, x, old) = st[Min(A)].value
    BY <2>2 DEF Put, A
  <2> QED BY <2>5, <2>6 DEF j
<1>2. ASSUME ~(st[n + 1].info = kind /\ st[n + 1].q = x)
      PROVE  Above(st, n, N, kind, x) = Above(st, n + 1, N, kind, x)
  <2>1. \A i \in (n + 1)..N : i = n + 1 \/ i \in ((n + 1) + 1)..N
    OBVIOUS
  <2>2. \A i \in ((n + 1) + 1)..N : i \in (n + 1)..N
    OBVIOUS
  <2> QED BY <1>2, <2>1, <2>2 DEF Above
<1> QED BY <1>1, <1>2 DEF Put

LEMMA PutNone ==
  ASSUME NEW st, NEW N \in Nat, NEW kind, NEW x, NEW old
  PROVE  Put(st, N, N, kind, x, old) = old
<1>1. (N + 1)..N = {}
  OBVIOUS
<1> QED BY <1>1 DEF Put, Above

\* A quantity gets its saved value back.
LEMMA KeepsQuantity ==
  ASSUME NEW s, DOMAIN s = {"tab", "internal"}, NEW item, item.info = "internal"
  PROVE  LET d == restore(s, item) IN
         /\ DOMAIN d = {"tab", "internal"} /\ d.tab = s.tab
         /\ d.internal = [s.internal EXCEPT ![item.q] = item.value]
<1>1. restore(s, item) = [s EXCEPT !.internal = [s.internal EXCEPT ![item.q] = item.value]]
  BY DEF restore
<1> DEFINE f == [s.internal EXCEPT ![item.q] = item.value]
<1> HIDE DEF f
<1>2. restore(s, item) = [s EXCEPT !.internal = f]
  BY <1>1 DEF f
<1>3. /\ DOMAIN restore(s, item) = {"tab", "internal"} /\ restore(s, item).tab = s.tab
      /\ restore(s, item).internal = f
  BY <1>2
<1> QED BY <1>3 DEF f

\* The items above the boundary are restored: each symbol and each quantity is
\* what the lowest of its items says.
LEMMA UndoneMeans ==
  ASSUME NEW st, IsList(st), \A i \in DOMAIN st : ItemOK(st[i]),
         Cardinality(Bounds(st, Len(st))) # 0, NEW b \in [Macros -> Nat], NEW t, NEW v,
         v = [i \in DOMAIN v |-> v[i]],
         Fit(t, Others(st, Len(st), b), SavedRoots(st, Len(st))), NEW c,
         IsUndone(c, [tab |-> t, internal |-> v], st, Len(st), Len(st) - Boundary(st)),
         NEW h \in Nat, h <= Len(st) - Boundary(st)
  PROVE  /\ DOMAIN c[h] = {"tab", "internal"} /\ c[h].tab \in TabSet /\ Keeps(t, c[h].tab, {}, {})
         /\ \A q \in Symbols : c[h].tab.eqtb[q] = Put(st, Len(st) - h, Len(st), "symbol", q, t.eqtb[q])
         /\ c[h].internal = [i \in DOMAIN v |-> Put(st, Len(st) - h, Len(st), "internal", i, v[i])]
<1> DEFINE s == [tab |-> t, internal |-> v]  N == Len(st)  B == Boundary(st)  M == N - B
<1>1. N \in Nat /\ DOMAIN st = 1..N
  BY ListHas
<1>2. B \in 1..N /\ \A j \in 1..N : j > B => st[j].info # "boundary"
  BY BoundaryIs
<1>3. IsUndone(c, s, st, N, M) /\ h <= M
  OBVIOUS
<1>4. \A k \in Nat : k <= M => Fit(c[k].tab, Others(st, N - k, b), SavedRoots(st, N - k))
  BY UndoneFit
<1>5. t \in TabSet /\ s.tab = t /\ s.internal = v /\ DOMAIN s = {"tab", "internal"}
  BY DEF Fit
<1> HIDE DEF s, N, B
<1>6. M \in Nat /\ M = N - B
  BY <1>1, <1>2
<1> HIDE DEF M
<1>7. c = [k \in 0..M |-> IF k = 0 THEN s ELSE restore(c[k - 1], st[N - k + 1])]
  BY <1>3 DEF IsUndone
<1> DEFINE Sym(k, q) == Put(st, N - k, N, "symbol", q, t.eqtb[q])
           Qty(k, i) == Put(st, N - k, N, "internal", i, v[i])
           Right(k) == /\ DOMAIN c[k] = {"tab", "internal"} /\ c[k].tab \in TabSet /\ Keeps(t, c[k].tab, {}, {})
                       /\ \A q \in Symbols : c[k].tab.eqtb[q] = Sym(k, q)
                       /\ c[k].internal = [i \in DOMAIN v |-> Qty(k, i)]
           S == {k \in Nat : k <= M => Right(k)}
<1>8. 0 \in S
  <2>1. c[0] = s /\ N - 0 = N
    BY <1>1, <1>6, <1>7
  <2>2. Keeps(t, t, {}, {})
    BY DEF Keeps
  <2>3. (\A q : Sym(0, q) = t.eqtb[q]) /\ \A i : Qty(0, i) = v[i]
    BY <1>1, <2>1, PutNone
  <2>4. v = [i \in DOMAIN v |-> Qty(0, i)]
    <3> HIDE DEF Qty
    <3> QED BY <2>3
  <2> HIDE DEF Sym, Qty
  <2>5. Right(0)
    BY <1>5, <2>1, <2>2, <2>3, <2>4
  <2> QED BY <2>5
<1>9. ASSUME NEW k \in Nat, k \in S PROVE k + 1 \in S
  <2> SUFFICES ASSUME k + 1 <= M PROVE Right(k + 1)
    OBVIOUS
  <2> DEFINE n == N - (k + 1)  item == st[n + 1]  d == c[k]  e == c[k + 1]
  <2>1. /\ k \in 0..M /\ k <= M /\ n \in Nat /\ n + 1 = N - k /\ n + 1 \in 1..N /\ n + 1 > B /\ n < N
        /\ k + 1 \in 0..M /\ k + 1 # 0 /\ (k + 1) - 1 = k /\ N - (k + 1) + 1 = n + 1
    <3> HIDE DEF S, d, e, item
    <3>1. B \in Nat /\ B >= 1 /\ B <= N /\ k + 1 <= N - B
      BY <1>1, <1>2, <1>6
    <3> QED BY ONLY <1>1, <1>6, <3>1, k \in Nat, k + 1 <= M
  <2>2. e = restore(d, item)
    BY <1>7, <2>1
  <2>3. Right(k)
    BY <1>9, <2>1
  <2> DEFINE y == SavedRoots(st, n + 1)  x == Others(st, n + 1, b)
  <2>4. Fit(d.tab, x, y)
    BY <1>4, <2>1
  <2>5. ItemOK(item) /\ item.info # "boundary"
    BY <1>1, <1>2, <2>1
  <2>6. \A q : /\ item.info = "symbol" /\ item.q = q => Sym(k + 1, q) = item.value
               /\ ~(item.info = "symbol" /\ item.q = q) => Sym(k + 1, q) = Sym(k, q)
    BY <1>1, <2>1, PutStep
  <2>7. \A i : /\ item.info = "internal" /\ item.q = i => Qty(k + 1, i) = item.value
               /\ ~(item.info = "internal" /\ item.q = i) => Qty(k + 1, i) = Qty(k, i)
    BY <1>1, <2>1, PutStep
  <2>8. /\ DOMAIN d = {"tab", "internal"} /\ d.tab \in TabSet /\ Keeps(t, d.tab, {}, {})
        /\ \A q \in Symbols : d.tab.eqtb[q] = Sym(k, q)
        /\ d.internal = [i \in DOMAIN v |-> Qty(k, i)]
    BY <2>3
  <2> HIDE DEF S, Right, Sym, Qty, d, e, item
  <2>9. CASE item.info = "symbol"
    <3>1. item.q \in Symbols /\ item.value \in EntrySet
      BY <2>5, <2>9 DEF ItemOK
    <3>2. \A r \in Roots : Owns(item.value, r) => y[r] > 0
      <4>1. Agree(st, st, n)
        BY <2>1 DEF Agree
      <4>2. st[n + 1].info = "symbol"
        BY <2>9 DEF item
      <4>3. \A r \in Roots : SavedRoots(st, n + 1)[r] = SavedRoots(st, n)[r] + One(Owns(st[n + 1].value, r))
        BY ONLY <4>1, <4>2, RootsStep
      <4>4. SavedRoots(st, n) \in [Roots -> Nat]
        BY <2>1, TallyTypes
      <4> DEFINE w == SavedRoots(st, n)
      <4>5. w \in [Roots -> Nat] /\ \A r \in Roots : y[r] = w[r] + One(Owns(item.value, r))
        BY <4>3, <4>4 DEF item
      <4> HIDE DEF w, y
      <4>6. \A r \in Roots : Owns(item.value, r) => One(Owns(item.value, r)) = 1
        BY DEF One
      <4> QED BY <4>5, <4>6
    <3> HIDE DEF x, y
    <3>3. /\ DOMAIN e = {"tab", "internal"} /\ e.internal = d.internal
          /\ e.tab \in TabSet /\ Keeps(d.tab, e.tab, {}, {}) /\ e.tab.eqtb[item.q] = item.value
          /\ \A q \in Symbols : q # item.q => e.tab.eqtb[q] = d.tab.eqtb[q]
      <4> DEFINE f == restore(d, item)
      <4>1. /\ DOMAIN f = {"tab", "internal"} /\ f.internal = d.internal
            /\ f.tab \in TabSet /\ Keeps(d.tab, f.tab, {}, {}) /\ f.tab.eqtb[item.q] = item.value
            /\ \A q \in Symbols : q # item.q => f.tab.eqtb[q] = d.tab.eqtb[q]
        <5>1. Tables(d) /\ Backed(item.value, y)
          BY <2>8, <3>2 DEF Tables, Backed
        <5>2. Restored(d, item, f)
          BY ONLY <2>4, <2>9, <3>1, <5>1, KeepsRestored
        <5> QED BY <5>2 DEF Restored
      <4>2. e = f
        BY <2>2
      <4> HIDE DEF f
      <4> QED BY <4>1, <4>2
    <3>4. Keeps(t, e.tab, {} \cup {}, {} \cup {})
      BY <2>8, <3>3, KeepsTwice
    <3>5. Keeps(t, e.tab, {}, {})
      BY <3>4
    <3>6. \A q \in Symbols : e.tab.eqtb[q] = Sym(k + 1, q)
      BY <2>6, <2>8, <2>9, <3>3
    <3>7. \A i : Qty(k + 1, i) = Qty(k, i)
      BY <2>7, <2>9
    <3>8. e.internal = [i \in DOMAIN v |-> Qty(k + 1, i)]
      BY <2>8, <3>3, <3>7
    <3> QED BY <3>3, <3>5, <3>6, <3>8 DEF Right, e
  <2>10. CASE item.info # "symbol"
    <3>1. item.info = "internal"
      BY <2>5, <2>10 DEF ItemOK
    <3>2. /\ DOMAIN e = {"tab", "internal"} /\ e.tab = d.tab
          /\ e.internal = [d.internal EXCEPT ![item.q] = item.value]
      BY <2>2, <2>8, <3>1, KeepsQuantity
    <3>3. \A q \in Symbols : e.tab.eqtb[q] = Sym(k + 1, q)
      BY <2>6, <2>8, <2>10, <3>2
    <3>4. e.internal = [i \in DOMAIN v |-> Qty(k + 1, i)]
      BY <2>7, <2>8, <3>1, <3>2
    <3> QED BY <2>8, <3>2, <3>3, <3>4 DEF Right, e
  <2> QED BY <2>9, <2>10
<1>10. Nat \subseteq S
  <2> HIDE DEF S
  <2> QED BY <1>8, <1>9, NatSetInduction
<1>11. Right(h)
  <2> HIDE DEF Right
  <2> QED BY <1>3, <1>10
<1> QED BY <1>11 DEF N

LEMMA UnsaveMeans ==
  ASSUME NEW st, IsList(st), \A i \in DOMAIN st : ItemOK(st[i]),
         Cardinality(Bounds(st, Len(st))) # 0, NEW b \in [Macros -> Nat], NEW t, NEW v,
         v = [i \in DOMAIN v |-> v[i]],
         Fit(t, Others(st, Len(st), b), SavedRoots(st, Len(st)))
  PROVE  LET d == unsave([tab |-> t, internal |-> v, stack |-> st]) IN
         /\ d.tab \in TabSet /\ Keeps(t, d.tab, {}, {})
         /\ \A q \in Symbols : d.tab.eqtb[q] = Put(st, Boundary(st), Len(st), "symbol", q, t.eqtb[q])
         /\ d.internal = Back(st, Boundary(st), v)
<1> DEFINE s == [tab |-> t, internal |-> v]  N == Len(st)  B == Boundary(st)  M == N - B
           c == CHOOSE f : IsUndone(f, s, st, N, M)
<1>1. unsave([tab |-> t, internal |-> v, stack |-> st]) = c[M]
  BY DEF unsave, IsUndone
<1>2. M \in Nat /\ M <= N - B /\ N - M = B
  BY ListHas, BoundaryIs
<1>3. IsUndone(c, s, st, N, M)
  <2> HIDE DEF M, N, s
  <2> QED BY <1>2, UndoneDefined
<1> HIDE DEF c
<1>4. /\ c[M].tab \in TabSet /\ Keeps(t, c[M].tab, {}, {})
      /\ \A q \in Symbols : c[M].tab.eqtb[q] = Put(st, N - M, N, "symbol", q, t.eqtb[q])
      /\ c[M].internal = [i \in DOMAIN v |-> Put(st, N - M, N, "internal", i, v[i])]
  BY <1>2, <1>3, UndoneMeans
<1>5. c[M].internal = Back(st, B, v)
  BY <1>2, <1>4 DEF Back
<1> QED BY <1>1, <1>2, <1>4, <1>5

\* The items above the last boundary are those that the innermost group saved.
LEMMA LastSaved ==
  ASSUME NEW st, IsList(st), NEW B \in 1..Len(st), st[B].info = "boundary",
         \A j \in 1..Len(st) : j > B => st[j].info # "boundary"
  PROVE  LET K == Cardinality(Bounds(st, Len(st))) IN
         /\ \A kind \in {"symbol", "internal"} : \A x :
               Above(st, B, Len(st), kind, x) = SavedBy(st, K, kind, x)
         /\ \A i \in 1..Len(st) : i > B - 1 => st[i].info = "boundary" \/ Cardinality(Bounds(st, i)) = K
<1> DEFINE N == Len(st)  K == Cardinality(Bounds(st, N))
<1>1. N \in Nat /\ DOMAIN st = 1..N
  BY ListHas
<1> HIDE DEF N
<1>2. ASSUME NEW i \in 1..N, i > B PROVE Cardinality(Bounds(st, i)) = K
  <2>1. i \in Nat /\ i <= N /\ \A j \in 1..N : j > i => st[j].info # "boundary"
    BY <1>1, <1>2 DEF N
  <2>2. Bounds(st, i) = Bounds(st, N)
    BY <1>1, <2>1, BoundsGrow
  <2> QED BY <2>2
<1>3. ASSUME NEW i \in 1..N, i < B PROVE Cardinality(Bounds(st, i)) # K
  <2> DEFINE a == Cardinality(Bounds(st, i))
  <2>1. i \in Nat /\ i <= N /\ B \in 1..N /\ B > i /\ st[B].info = "boundary"
    BY <1>1, <1>3 DEF N
  <2>2. a \in Nat /\ a < K
    BY <1>1, <2>1, BoundsGrow
  <2> HIDE DEF a, K
  <2>3. a # K
    BY <2>2
  <2> QED BY <2>3 DEF a, K
<1> HIDE DEF K
<1>4. ASSUME NEW kind \in {"symbol", "internal"}, NEW x
      PROVE  Above(st, B, N, kind, x) = SavedBy(st, K, kind, x)
  <2>1. \A i \in (B + 1)..N : i \in 1..N /\ i > B
    BY <1>1 DEF N
  <2>2. \A i \in Above(st, B, N, kind, x) : i \in SavedBy(st, K, kind, x)
    BY <1>1, <1>2, <2>1 DEF Above, SavedBy
  <2>3. ASSUME NEW i \in SavedBy(st, K, kind, x) PROVE i \in Above(st, B, N, kind, x)
    <3>1. i \in 1..N /\ st[i].info = kind /\ st[i].q = x /\ Cardinality(Bounds(st, i)) = K
      BY <1>1 DEF SavedBy
    <3>2. i # B /\ ~(i < B)
      BY <1>3, <3>1
    <3>3. i \in (B + 1)..N
      BY <1>1, <3>1, <3>2 DEF N
    <3> QED BY <3>1, <3>3 DEF Above
  <2> QED BY <2>2, <2>3
<1>5. ASSUME NEW i \in 1..N, i > B - 1 PROVE st[i].info = "boundary" \/ Cardinality(Bounds(st, i)) = K
  <2>1. i = B \/ i > B
    BY <1>1, <1>5 DEF N
  <2> QED BY <1>2, <2>1
<1> QED BY <1>4, <1>5 DEF N, K

\* A group ends: its frame tells what the symbols and quantities are again.
LEMMA FrameUndone ==
  ASSUME NEW t, NEW u, Shared(t, u, {}, {}), NEW st, NEW c, NEW l, Lives(t, st, c, l),
         NEW su, NEW d, NEW k, Lives(u, su, d, k), IsList(st), \A i \in DOMAIN st : ItemOK(st[i]),
         NEW B \in Nat, NEW K, NEW v, DOMAIN v \subseteq Internals,
         SavedAbove(st, B, K), BackAbove(t, u, st, B)
  PROVE  /\ Env(u) = G!Over(GroupFrame(t, st, K).symbols, Env(t))
         /\ Back(st, B, v) = G!Over(GroupFrame(t, st, K).internals, v)
<1> DEFINE f == GroupFrame(t, st, K).symbols  g == GroupFrame(t, st, K).internals  N == Len(st)
           S(q) == SavedBy(st, K, "symbol", q)  T(i) == SavedBy(st, K, "internal", i)
<1>1. /\ f = [q \in {q \in Symbols : S(q) # {}} |-> Meaning(t, FirstSaved(st, K, "symbol", q))]
      /\ g = [i \in {i \in Internals : T(i) # {}} |-> FirstSaved(st, K, "internal", i)]
  BY DEF GroupFrame
<1>2. N \in Nat /\ DOMAIN st = 1..N
  BY ListHas
<1>3. /\ \A q : Above(st, B, N, "symbol", q) = S(q) /\ Above(st, B, N, "internal", q) = T(q)
      /\ \A q \in Symbols : u.eqtb[q] = Put(st, B, N, "symbol", q, t.eqtb[q])
  BY DEF SavedAbove, BackAbove
<1>4. \A q, old : /\ Put(st, B, N, "symbol", q, old) = IF S(q) = {} THEN old ELSE FirstSaved(st, K, "symbol", q)
                  /\ Put(st, B, N, "internal", q, old) = IF T(q) = {} THEN old ELSE FirstSaved(st, K, "internal", q)
  BY <1>3 DEF Put, FirstSaved
<1>5. ASSUME NEW q \in Symbols
      PROVE  Meaning(u, u.eqtb[q]) = IF q \in DOMAIN f THEN f[q] ELSE Meaning(t, t.eqtb[q])
  <2>1. CASE S(q) = {}
    <3>1. u.eqtb[q] = t.eqtb[q]
      BY <1>3, <1>4, <2>1
    <3> DEFINE R == {}
    <3>2. Shared(t, u, R, R) /\ \A r \in R : ~Owns(t.eqtb[q], r)
      OBVIOUS
    <3> HIDE DEF R
    <3>3. Meaning(u, u.eqtb[q]) = Meaning(t, t.eqtb[q])
      BY <3>1, <3>2, SameSymbol
    <3> QED BY <1>1, <2>1, <3>3
  <2>2. CASE S(q) # {}
    <3> DEFINE e == FirstSaved(st, K, "symbol", q)
    <3>1. u.eqtb[q] = e
      BY <1>3, <1>4, <2>2
    <3>2. PICK i \in DOMAIN st : st[i].info = "symbol" /\ e = st[i].value
      BY <2>2, SavedIs DEF FirstSaved
    <3>3. e \in EntrySet /\ Alive(t, e) /\ Alive(u, e)
      BY <3>1, <3>2 DEF Lives, ItemOK
    <3> HIDE DEF e
    <3> DEFINE R == {}
    <3>4. Shared(t, u, R, R) /\ \A r \in R : ~Owns(e, r)
      OBVIOUS
    <3> HIDE DEF R
    <3>5. Meaning(u, e) = Meaning(t, e)
      BY <3>3, <3>4, SameMeaning DEF Shared
    <3>6. q \in DOMAIN f /\ f[q] = Meaning(t, e)
      BY <1>1, <2>2 DEF e
    <3> QED BY <3>1, <3>5, <3>6
  <2> QED BY <2>1, <2>2
<1>6. \A i \in DOMAIN v : Put(st, B, N, "internal", i, v[i]) = IF i \in DOMAIN g THEN g[i] ELSE v[i]
  BY <1>1, <1>4
<1> HIDE DEF f, g, N
<1>7. Env(u) = G!Over(f, Env(t))
  BY <1>5 DEF Env, G!Over
<1>8. Back(st, B, v) = G!Over(g, v)
  BY <1>6 DEF G!Over, Back, N
<1> QED BY <1>7, <1>8 DEF f, g, N

LEMMA EndGroupMeans ==
  ASSUME SInv, SInv', QInv, EndGroup
  PROVE  QInv' /\ G!Step(Abstract, Abstract')
<1> DEFINE st == save_ptr  su == save_ptr'  N == Len(st)  B == Boundary(st)  h == B - 1  k == Len(calls) - 1
           K == Cardinality(Bounds(st, N))
           w == UnderWay(tab, st, calls)  x == UnderWay(tab', su, calls')
           Sym(q) == Put(st, B, N, "symbol", q, tab.eqtb[q])
<1>1. /\ calls # <<>> /\ Last(calls).kind = "group" /\ calls' = Front(calls) /\ input' = input
      /\ tab' = unsave([tab |-> tab, internal |-> internal, stack |-> st]).tab
      /\ internal' = unsave([tab |-> tab, internal |-> internal, stack |-> st]).internal
      /\ su = SubSeq(st, 1, h)
  BY DEF EndGroup, Top
<1>2. /\ tab \in TabSet /\ Lives(tab, st, calls, input) /\ calls \in Seq(CallSet) /\ input \in Seq(Macros)
      /\ IsList(st) /\ N \in Nat /\ DOMAIN st = 1..N /\ (\A i \in DOMAIN st : ItemOK(st[i]))
      /\ Len(calls) \in Nat /\ Len(input) \in Nat /\ K = Cardinality(GroupsIn(calls, Len(calls)))
  BY Situation
<1>3. /\ Lives(tab', su, calls', input') /\ IsList(su) /\ DOMAIN su = 1..Len(su) /\ tab' \in TabSet
      /\ calls' \in Seq(CallSet)
  BY SituationNext
<1>4. /\ k \in Nat /\ Len(calls) = k + 1 /\ calls[k + 1].kind = "group" /\ Len(calls') = k
      /\ (\A i \in 1..k : calls'[i] = calls[i]) /\ Agree(calls, calls', k) /\ k <= Len(calls)
  <2>1. PICK j \in Nat : /\ Len(calls) = j + 1 /\ calls[j + 1] = Last(calls)
                         /\ Len(calls') = j /\ \A i \in 1..j : calls'[i] = calls[i]
    BY <1>1, <1>2, CallsFront
  <2>2. k = j
    BY <2>1
  <2> HIDE DEF k
  <2> QED BY <1>1, <2>1, <2>2 DEF Agree
<1>5. K # 0 /\ \A n \in 1..k : calls[n].kind = "group" => Cardinality(GroupsIn(calls, n)) # K
  <2>1. ASSUME NEW n \in Nat, n < k + 1
        PROVE  Cardinality(GroupsIn(calls, n)) # K /\ K # 0
    <3> DEFINE a == Cardinality(GroupsIn(calls, n))  b == Cardinality(GroupsIn(calls, k + 1))
    <3>1. a \in Nat /\ b \in Nat /\ a < b
      BY <1>4, <2>1, GroupsGrow
    <3>2. K = b
      BY <1>2, <1>4
    <3> HIDE DEF a, b, K
    <3>3. a # K /\ K # 0
      BY <3>1, <3>2
    <3> QED BY <3>3 DEF a
  <2>2. K # 0
    <3>1. 0 \in Nat /\ 0 < k + 1
      BY <1>4
    <3> HIDE DEF K, k
    <3> QED BY <2>1, <3>1
  <2>3. \A n \in 1..k : n \in Nat /\ n < k + 1
    BY <1>4
  <2> HIDE DEF K, k
  <2> QED BY <2>1, <2>2, <2>3
<1>6. /\ B \in 1..N /\ st[B].info = "boundary"
      /\ \A j \in 1..N : j > B => st[j].info # "boundary"
  BY <1>2, <1>5, BoundaryIs
<1>7. internal = [i \in DOMAIN internal |-> internal[i]] /\ DOMAIN internal \subseteq Internals
      /\ TextsKnown(tab) /\ Quantities(tab, st, internal)
  BY DEF QInv, Quantities
<1>8. /\ Keeps(tab, tab', {}, {}) /\ (\A q \in Symbols : tab'.eqtb[q] = Sym(q))
      /\ internal' = Back(st, B, internal)
  <2> DEFINE b == Busy(calls, Len(calls), input, Len(input))
  <2>1. b \in [Macros -> Nat] /\ Fit(tab, Others(st, N, b), SavedRoots(st, N))
    BY Numbers DEF SInv, Exact
  <2> HIDE DEF b
  <2> DEFINE d == unsave([tab |-> tab, internal |-> internal, stack |-> st])
  <2>2. /\ Keeps(tab, d.tab, {}, {})
        /\ \A q \in Symbols : d.tab.eqtb[q] = Put(st, Boundary(st), Len(st), "symbol", q, tab.eqtb[q])
        /\ d.internal = Back(st, Boundary(st), internal)
    <3>1. /\ IsList(st) /\ (\A i \in DOMAIN st : ItemOK(st[i])) /\ Cardinality(Bounds(st, Len(st))) # 0
          /\ b \in [Macros -> Nat] /\ internal = [i \in DOMAIN internal |-> internal[i]]
          /\ Fit(tab, Others(st, Len(st), b), SavedRoots(st, Len(st)))
      BY <1>2, <1>5, <1>7, <2>1
    <3> HIDE DEF st, B, N, K, Sym
    <3> QED BY ONLY <3>1, UnsaveMeans
  <2> HIDE DEF d
  <2>3. tab' = d.tab /\ internal' = d.internal
    BY <1>1 DEF d
  <2> QED BY <2>2, <2>3
<1>9. Shared(tab, tab', {}, {})
  BY <1>2, <1>8 DEF Shared
<1>10. /\ \A kind \in {"symbol", "internal"} : \A y : Above(st, B, N, kind, y) = SavedBy(st, K, kind, y)
       /\ \A i \in 1..N : i > h => st[i].info = "boundary" \/ Cardinality(Bounds(st, i)) = K
  BY <1>2, <1>6, LastSaved
<1>11. /\ h \in Nat /\ h <= N /\ Len(su) = h /\ Agree(st, su, h) /\ h <= Len(su)
  <2>1. B \in Nat /\ h \in Nat /\ h <= N
    BY <1>2, <1>6
  <2> HIDE DEF h
  <2>2. Len(su) = h /\ \A i \in 1..h : su[i] = st[i]
    BY <1>1, <1>2, <2>1, ListCut
  <2> QED BY <2>1, <2>2 DEF Agree
<1>12. /\ Env(tab') = G!Over(GroupFrame(tab, st, K).symbols, Env(tab))
       /\ internal' = G!Over(GroupFrame(tab, st, K).internals, internal)
  <2>1. B \in Nat
    BY <1>2, <1>6
  <2> HIDE DEF K, B
  <2>2. /\ Env(tab') = G!Over(GroupFrame(tab, st, K).symbols, Env(tab))
        /\ Back(st, B, internal) = G!Over(GroupFrame(tab, st, K).internals, internal)
    <3>1. SavedAbove(st, B, K) /\ BackAbove(tab, tab', st, B)
      BY <1>8, <1>10 DEF SavedAbove, BackAbove
    <3>2. /\ Lives(tab, st, calls, input) /\ Lives(tab', su, calls', input') /\ IsList(st)
          /\ (\A i \in DOMAIN st : ItemOK(st[i])) /\ DOMAIN internal \subseteq Internals
      BY <1>2, <1>3, <1>7
    <3> HIDE DEF st, su, N, Sym
    <3> QED BY ONLY <1>9, <2>1, <3>1, <3>2, FrameUndone
  <2> QED BY <1>8, <2>2
<1>13. ASSUME NEW n, n # K PROVE GroupFrame(tab', su, n) = GroupFrame(tab, st, n)
  <2> DEFINE R == {}
  <2>1. Shared(tab, tab', R, R) /\ (\A i \in DOMAIN st : st[i].info = "symbol" => \A r \in R : ~Owns(st[i].value, r))
    BY <1>9
  <2>5. /\ Lives(tab, st, calls, input) /\ Lives(tab', su, calls', input') /\ IsList(st) /\ IsList(su)
        /\ \A i \in DOMAIN st : ItemOK(st[i])
    BY <1>2, <1>3
  <2>2. \A i \in 1..Len(st) : i > h => st[i].info = "boundary" \/ Cardinality(Bounds(st, i)) # n
    BY <1>10, <1>13
  <2>3. \A i \in 1..Len(su) : i > h => su[i].info = "boundary" \/ Cardinality(Bounds(su, i)) # n
    BY <1>11
  <2>4. Agree(st, su, h) /\ h <= Len(st) /\ h <= Len(su)
    BY <1>11
  <2> HIDE DEF R, h, su, st, N
  <2> QED BY ONLY <2>1, <2>2, <2>3, <2>4, <2>5, KeptFrame
<1>14. \A n \in 1..k : x[n] = w[n]
  <2>1. \A n \in 1..k : calls[n].kind = "group" => GroupFrame(tab', su, Cardinality(GroupsIn(calls, n)))
                                                   = GroupFrame(tab, st, Cardinality(GroupsIn(calls, n)))
    BY <1>5, <1>13
  <2>2. Agree(calls, calls', k) /\ k <= Len(calls) /\ k <= Len(calls')
    BY <1>4
  <2> HIDE DEF k
  <2> QED BY <1>2, <1>3, <1>9, <2>1, <2>2, KeptCalls
<1>15. w[k + 1] = GroupFrame(tab, st, K)
  <2>1. k + 1 \in 1..Len(calls) /\ K = Cardinality(GroupsIn(calls, k + 1))
    BY <1>2, <1>4
  <2> HIDE DEF k, K
  <2>2. w[k + 1] = CallFrame(tab, st, calls, k + 1)
    BY ONLY <1>2, <2>1, FrameAt
  <2> QED BY <1>4, <2>1, <2>2 DEF CallFrame
<1>16. Texts(tab', input') = Texts(tab, input)
  <2> DEFINE j == Len(input)
  <2>1. Agree(input, input', j) /\ j <= Len(input) /\ j <= Len(input') /\ j \in Nat
    BY <1>1, <1>2 DEF Agree
  <2>2. \A n \in 1..j : Texts(tab', input')[n] = Texts(tab, input)[n]
    <3> HIDE DEF j
    <3> QED BY <1>1, <1>2, <1>3, <1>9, <2>1, KeptTexts
  <2>3. \A n \in 1..Len(input) : Texts(tab', input)[n] = Texts(tab, input)[n]
    BY <1>1, <2>2
  <2>4. Texts(tab', input) = Texts(tab, input)
    BY <1>2, <2>3, TextsIs, ListSame
  <2> QED BY <1>1, <2>4
<1>17. QInv'
  <2>1. TextsKnown(tab')
    BY <1>7, <1>8, KeptTextsKnown
  <2>2. DOMAIN internal' = DOMAIN internal /\ internal' = [i \in DOMAIN internal' |-> internal'[i]]
    BY <1>8 DEF Back
  <2>3. ASSUME NEW q \in Symbols PROVE Known(tab'.eqtb[q], DOMAIN internal)
    <3>1. CASE Above(st, B, N, "symbol", q) = {}
      <4>1. tab'.eqtb[q] = tab.eqtb[q]
        BY <1>8, <3>1 DEF Put
      <4> QED BY <1>7, <4>1 DEF Quantities
    <3>2. CASE Above(st, B, N, "symbol", q) # {}
      <4>1. B \in Nat /\ N \in Nat
        BY <1>2, <1>6
      <4> DEFINE e == tab.eqtb[q]  f == Put(st, B, N, "symbol", q, e)
      <4> HIDE DEF e
      <4>5. \E i \in (B + 1)..N : st[i].info = "symbol" /\ f = st[i].value
        <5> HIDE DEF B, N, st
        <5> QED BY ONLY <3>2, <4>1, PutSome
      <4>2. PICK i \in (B + 1)..N : st[i].info = "symbol" /\ Sym(q) = st[i].value
        BY <4>5 DEF e
      <4>3. i \in DOMAIN st
        BY <1>2, <4>1
      <4>4. tab'.eqtb[q] = st[i].value
        BY <1>8, <4>2
      <4> QED BY <1>7, <4>2, <4>3, <4>4 DEF Quantities
    <3> QED BY <3>1, <3>2
  <2>4. ASSUME NEW i \in DOMAIN su, su[i].info = "symbol" PROVE Known(su[i].value, DOMAIN internal)
    <3>1. i \in DOMAIN st /\ su[i] = st[i]
      BY <1>2, <1>3, <1>11 DEF Agree
    <3> QED BY <1>7, <2>4, <3>1 DEF Quantities
  <2>5. Quantities(tab', su, internal')
    BY <1>7, <2>2, <2>3, <2>4 DEF Quantities
  <2> QED BY <2>1, <2>5 DEF QInv
<1>18. IsList(w) /\ IsList(x) /\ Len(w) = k + 1 /\ Len(x) = k
  BY <1>2, <1>3, <1>4, UnderWayIs
<1> DEFINE s == Abstract  t == View(tab', internal', save_ptr', calls', input')
<1>19. /\ s = View(tab, internal, save_ptr, calls, input) /\ Abstract' = t
  BY AbstractIs
<1>20. /\ s.env = Env(tab) /\ s.internal = internal /\ s.calls = w /\ s.input = Texts(tab, input)
       /\ t.env = Env(tab') /\ t.internal = internal' /\ t.calls = x /\ t.input = s.input
  BY <1>16, <1>19 DEF View
<1> DEFINE g == GroupFrame(tab, st, K)
<1>21. g.kind = "group"
  BY DEF GroupFrame
<1> HIDE DEF s, t, w, x, k, g, st, su, K
<1>22. x = G!Front(w) /\ g = G!Last(w) /\ w # <<>>
  BY <1>14, <1>15, <1>18, ListFront DEF g
<1>23. G!EndsGroup(s, t)
  BY <1>12, <1>20, <1>22 DEF G!EndsGroup, g
<1>24. G!Step(s, t)
  BY <1>20, <1>21, <1>22, <1>23 DEF G!Step
<1> QED BY <1>17, <1>19, <1>24 DEF s

-----------------------------------------------------------------------------
(* The stacks and the tables implement groups.                             *)

LEMMA GroupsInit == Init => QInv /\ G!Init
<1> SUFFICES ASSUME Init PROVE QInv /\ G!Init
  OBVIOUS
<1>1. /\ \A q \in Symbols : tab.eqtb[q] = frozen_undefined
      /\ \A m \in Macros : tab.mac[m] = FreeMac
      /\ save_ptr = <<>> /\ calls = <<>> /\ input = <<>>
  BY DEF Init
<1>2. internal = [i \in {} |-> 0]
  BY DEF Init
<1>3. QInv
  <2>1. TextsKnown(tab)
    <3>1. FreeMac.ref_count = -1
      BY DEF FreeMac
    <3>2. \A m \in Macros : tab.mac[m].ref_count = -1
      BY <1>1, <3>1
    <3> QED BY <3>2 DEF TextsKnown
  <2>2. \A q \in Symbols : Known(tab.eqtb[q], DOMAIN internal)
    <3>1. frozen_undefined.eq_type # "internal"
      BY DEF frozen_undefined, Entry
    <3> QED BY <1>1, <3>1 DEF Known
  <2>3. internal = [i \in DOMAIN internal |-> internal[i]] /\ DOMAIN internal \subseteq Internals
    BY <1>2
  <2>4. DOMAIN save_ptr = {}
    BY <1>1
  <2>5. Quantities(tab, save_ptr, internal)
    BY <2>2, <2>3, <2>4 DEF Quantities
  <2> QED BY <2>1, <2>5 DEF QInv
<1>4. Env(tab) = [q \in Symbols |-> G!Undefined]
  <2>1. \A q \in Symbols : Meaning(tab, tab.eqtb[q]) = G!Undefined
    BY <1>1, MeaningIs
  <2> QED BY <2>1 DEF Env
<1>5. UnderWay(tab, save_ptr, calls) = <<>>
  <2>1. calls \in Seq(CallSet)
    BY <1>1
  <2> QED BY <1>1, <2>1, UnderWayIs
<1>6. Texts(tab, input) = <<>>
  <2>1. input \in Seq(Macros) /\ Len(input) = 0
    BY <1>1
  <2>2. IsList(Texts(tab, input)) /\ Len(Texts(tab, input)) = 0
    BY <2>1, TextsIs
  <2> QED BY <2>2, ListHas
<1>7. Abstract = View(tab, internal, save_ptr, calls, input)
  BY AbstractIs
<1> DEFINE e == Env(tab)  c == UnderWay(tab, save_ptr, calls)  l == Texts(tab, input)
           f == [q \in Symbols |-> G!Undefined]  g == [i \in {} |-> 0]
<1>8. Abstract = [env |-> e, internal |-> internal, calls |-> c, input |-> l]
  BY <1>7 DEF View
<1>9. e = f /\ internal = g /\ c = <<>> /\ l = <<>>
  BY <1>2, <1>4, <1>5, <1>6
<1>10. G!Init <=> Abstract = [env |-> f, internal |-> g, calls |-> <<>>, input |-> <<>>]
  BY DEF G!Init
<1> HIDE DEF e, c, l, f, g
<1>11. G!Init
  BY <1>8, <1>9, <1>10
<1> QED BY <1>3, <1>11

LEMMA GroupsNext == SInv /\ SInv' /\ QInv /\ [Next]_vars => QInv' /\ [G!Next]_Abstract
<1> DEFINE Good == QInv' /\ G!Step(Abstract, Abstract')
<1> SUFFICES ASSUME SInv, SInv', QInv, [Next]_vars PROVE QInv' /\ [G!Next]_Abstract
  OBVIOUS
<1>1. ASSUME NEW q \in Symbols, get_clear_symbol(q) PROVE Good
  BY <1>1, ClearedMeans DEF get_clear_symbol
<1>2. ASSUME NEW q \in Symbols, do_new_internal(q) PROVE Good
  BY <1>2, NewInternalMeans
<1>3. ASSUME NEW q \in Symbols, save_internal(q) PROVE Good
  BY <1>3, SaveInternalMeans
<1>4. ASSUME NEW q \in Symbols, NEW b \in Bodies, DefineMacro(q, b) PROVE Good
  BY <1>4, DefineMacroMeans
<1>5. ASSUME NEW q \in Symbols, NEW p \in Symbols, do_let(q, p) PROVE Good
  BY <1>5, LetMeans
<1>6. (\A q \in Variables : q \in Symbols) /\ (\A q \in Protectable : q \in Symbols)
  BY SaveStackAssumption DEF SaveStackAssumption
<1>7. ASSUME NEW q \in Variables, do_type_declaration(q) PROVE Good
  BY <1>6, <1>7, TypeMeans
<1>8. ASSUME NEW q \in Variables, save_variable(q) PROVE Good
  BY <1>8, SaveVariableMeans
<1>9. ASSUME NEW q \in Variables, NEW b \in Bodies, VarDef(q, b) PROVE Good
  BY <1>6, <1>9, VarDefMeans
<1>10. ASSUME NEW q \in Protectable, NEW m \in BOOLEAN, do_protection(q, m) PROVE Good
  BY <1>6, <1>10, ProtectionMeans
<1>11. ASSUME NEW i \in DOMAIN internal, NEW v \in IntValues, SetInternal(i, v) PROVE Good
  BY <1>11, SetInternalMeans
<1>12. ASSUME NEW m \in Live(tab), StartCall(m) \/ Hold(m) PROVE Good
  BY <1>12, StartCallMeans, HoldMeans
<1>13. ASSUME BeginGroup \/ EndGroup \/ CallHeld \/ Feed \/ end_token_list PROVE Good
  BY <1>13, BeginGroupMeans, EndGroupMeans, CallHeldMeans, FeedMeans, EndTokenListMeans
<1>14. CASE UNCHANGED vars
  <2>1. UNCHANGED <<tab, internal, save_ptr, calls, input>>
    BY <1>14 DEF vars
  <2>2. Abstract' = Abstract
    BY <2>1, AbstractIs
  <2>3. QInv'
    BY <2>1 DEF QInv
  <2> QED BY <2>2, <2>3
<1>15. CASE Next
  <2>1. Good
    <3> HIDE DEF Good
    <3> QED BY <1>1, <1>2, <1>3, <1>4, <1>5, <1>7, <1>8, <1>9, <1>10, <1>11, <1>12, <1>13, <1>15 DEF Next
  <2>2. G!Next
    BY <2>1 DEF G!Next
  <2> QED BY <2>1, <2>2
<1> QED BY <1>14, <1>15

\* Every run of the tables and the stacks is one of groups: whatever is defined,
\* declared, let, saved or called in it, the end of a group gives each symbol
\* and quantity that it saved its meaning from before the group saved it first,
\* values and vardefs of variables included, and a macro under way keeps its
\* text.
THEOREM GroupsImplemented == Spec => GroupsSpec
<1>1. Init => SInv /\ QInv /\ G!Init
  BY SInvInit, GroupsInit
<1>2. SInv /\ QInv /\ [Next]_vars => SInv' /\ QInv' /\ [G!Next]_Abstract
  BY SInvNext, GroupsNext
<1> QED BY <1>1, <1>2, PTL DEF Spec, GroupsSpec, G!Spec

=============================================================================
