---------------------------- MODULE RecorderProofs ---------------------------
(***************************************************************************)
(* Proofs about the recorder, for every number of fills, octants, lines    *)
(* and characters.                                                         *)
(***************************************************************************)
EXTENDS Recorder, FiniteSetTheorems, WellFoundedInduction, TLAPS

Oct     == Nat \X Nat
FillSet == [kind : Kinds, side : {"rhs", "lhs"}, index : Int, octs : Seq(Oct), done : BOOLEAN]
ShipSet == [char : Int, index : Int, fills : Nat]
CharSet == [envelope : Seq(Seq(Oct)), contour : Seq(Seq(Oct)), knots : Seq(Nat),
            retrograde_line : Nat, edges : Nat]

-----------------------------------------------------------------------------
(* Induction on natural numbers, for a set.                                *)

Less == {p \in Nat \X Nat : p[1] < p[2]}

\* There is no infinite descent in the natural numbers.
LEMMA LessWellFounded == IsWellFoundedOn(Less, Nat)
<1>1. OpToRel(<, Nat) = Less
  BY DEF OpToRel, Less
<1> QED BY <1>1, NatLessThanWellFounded

\* A set of natural numbers that is not empty has a least one.
LEMMA Least ==
  ASSUME NEW A, A \subseteq Nat, A # {}
  PROVE  \E i \in A : \A j \in A : i <= j
<1>1. \E x \in A : \A y \in A : <<y, x>> \notin Less
  BY LessWellFounded, WFMin
<1>2. PICK x \in A : \A y \in A : <<y, x>> \notin Less
  BY <1>1
<1>3. ASSUME NEW y \in A PROVE x <= y
  <2>1. <<y, x>> \notin Less /\ x \in Nat /\ y \in Nat
    BY <1>2
  <2> QED BY <2>1 DEF Less
<1> QED BY <1>3

\* A set with 0 and the successors of its members has every natural number.
LEMMA NatSetInduction ==
  ASSUME NEW S, 0 \in S, \A j \in Nat : j \in S => j + 1 \in S
  PROVE  Nat \subseteq S
<1> SUFFICES ASSUME Nat \ S # {} PROVE FALSE
  OBVIOUS
<1>1. PICK x \in Nat \ S : \A y \in Nat \ S : x <= y
  <2>1. Nat \ S \subseteq Nat
    OBVIOUS
  <2> QED BY <2>1, Least
<1>2. x - 1 \in Nat /\ x - 1 < x
  BY <1>1
<1>3. x - 1 \in S
  BY <1>1, <1>2
<1>4. (x - 1) + 1 \in S
  BY <1>2, <1>3
<1> QED BY <1>1, <1>4

-----------------------------------------------------------------------------
(* What the scripts count.                                                 *)

\* The function that Covered counts with exists.
LEMMA CoveredDefined ==
  ASSUME NEW q, NEW N \in Nat
  PROVE  \E c : c = [n \in 0..N |-> IF n = 0 THEN 0 ELSE c[n - 1] + Len(q[n])]
<1> DEFINE S == {m \in Nat : \E c : c = [n \in 0..m |->
                                     IF n = 0 THEN 0 ELSE c[n - 1] + Len(q[n])]}
<1>1. 0 \in S
  <2> DEFINE g == [n \in 0..0 |-> 0]
  <2>1. g = [n \in 0..0 |-> IF n = 0 THEN 0 ELSE g[n - 1] + Len(q[n])]
    OBVIOUS
  <2> QED BY <2>1
<1>2. \A m \in Nat : m \in S => m + 1 \in S
  <2> TAKE m \in Nat
  <2> HAVE m \in S
  <2>1. PICK c : c = [n \in 0..m |-> IF n = 0 THEN 0 ELSE c[n - 1] + Len(q[n])]
    OBVIOUS
  <2> DEFINE g == [n \in 0..(m + 1) |-> IF n <= m THEN c[n] ELSE c[m] + Len(q[m + 1])]
  <2>2. \A n \in 0..(m + 1) : g[n] = IF n = 0 THEN 0 ELSE g[n - 1] + Len(q[n])
    <3> TAKE n \in 0..(m + 1)
    <3>1. CASE n = 0
      BY <2>1, <3>1
    <3>2. CASE n > 0 /\ n <= m
      <4>1. n \in 0..m /\ n - 1 \in 0..m /\ n # 0 /\ n - 1 \in 0..(m + 1) /\ n - 1 <= m
        BY <3>2
      <4>2. c[n] = c[n - 1] + Len(q[n])
        BY <2>1, <4>1
      <4> QED BY <3>2, <4>1, <4>2
    <3>3. CASE n = m + 1
      BY <3>3
    <3> QED BY <3>1, <3>2, <3>3
  <2>3. g = [n \in 0..(m + 1) |-> IF n = 0 THEN 0 ELSE g[n - 1] + Len(q[n])]
    <3>1. g = [n \in 0..(m + 1) |-> g[n]]
      OBVIOUS
    <3> HIDE DEF g
    <3> QED BY <2>2, <3>1
  <2> HIDE DEF g
  <2> QED BY <2>3
<1>3. Nat \subseteq S
  <2> HIDE DEF S
  <2> QED BY <1>1, <1>2, NatSetInduction
<1> QED BY <1>3

\* Nothing is covered at first; another slice covers its own octants.
LEMMA CoveredPush ==
  ASSUME NEW S, NEW q \in Seq(Seq(S)), NEW e \in Seq(S)
  PROVE  /\ Covered(q) \in Nat /\ (q = <<>> => Covered(q) = 0)
         /\ Covered(Append(q, e)) = Covered(q) + Len(e)
<1> DEFINE r == Append(q, e)  N == Len(q)
           c == CHOOSE f : f = [n \in 0..N |-> IF n = 0 THEN 0 ELSE f[n - 1] + Len(q[n])]
           d == CHOOSE f : f = [n \in 0..(N + 1) |-> IF n = 0 THEN 0 ELSE f[n - 1] + Len(r[n])]
           T == {m \in Nat : m <= N => c[m] \in Nat /\ d[m] = c[m]}
<1>1. /\ N \in Nat /\ r \in Seq(Seq(S)) /\ Len(r) = N + 1 /\ r[N + 1] = e
      /\ \A n \in 1..N : r[n] = q[n] /\ Len(q[n]) \in Nat
  <2>1. \A n \in 1..N : q[n] \in Seq(S)
    OBVIOUS
  <2>2. N \in Nat /\ r \in Seq(Seq(S)) /\ Len(r) = N + 1 /\ r[N + 1] = e
        /\ \A n \in 1..N : r[n] = q[n]
    OBVIOUS
  <2> QED BY <2>1, <2>2
<1>2. Covered(q) = c[N]
  BY DEF Covered
<1>3. Covered(r) = d[N + 1]
  <2>1. Covered(r) = LET cnt[n \in 0..Len(r)] == IF n = 0 THEN 0 ELSE cnt[n - 1] + Len(r[n])
                     IN  cnt[Len(r)]
    BY DEF Covered
  <2> HIDE DEF r, N
  <2> QED BY <1>1, <2>1
<1>4. c = [n \in 0..N |-> IF n = 0 THEN 0 ELSE c[n - 1] + Len(q[n])]
  <2> HIDE DEF N
  <2> QED BY <1>1, CoveredDefined
<1>5. d = [n \in 0..(N + 1) |-> IF n = 0 THEN 0 ELSE d[n - 1] + Len(r[n])]
  <2> HIDE DEF N, r
  <2>1. N + 1 \in Nat
    BY <1>1
  <2> QED BY <2>1, CoveredDefined
<1> HIDE DEF c, d, r, N
<1>6. 0 \in T
  BY <1>1, <1>4, <1>5
<1>7. ASSUME NEW m \in Nat, m \in T PROVE m + 1 \in T
  <2> SUFFICES ASSUME m + 1 <= N PROVE c[m + 1] \in Nat /\ d[m + 1] = c[m + 1]
    OBVIOUS
  <2>1. m + 1 \in 0..N /\ m + 1 \in 0..(N + 1) /\ m + 1 # 0 /\ (m + 1) - 1 = m /\ m + 1 \in 1..N
    BY <1>1
  <2>2. c[m + 1] = c[m] + Len(q[m + 1]) /\ d[m + 1] = d[m] + Len(r[m + 1])
    BY <1>4, <1>5, <2>1
  <2>3. c[m] \in Nat /\ d[m] = c[m]
    BY <1>1, <1>7, <2>1
  <2>4. r[m + 1] = q[m + 1] /\ Len(q[m + 1]) \in Nat
    BY <1>1, <2>1
  <2> QED BY <2>2, <2>3, <2>4
<1>8. Nat \subseteq T
  <2> HIDE DEF T
  <2> QED BY <1>6, <1>7, NatSetInduction
<1>9. c[N] \in Nat /\ d[N] = c[N]
  BY <1>1, <1>8
<1>10. d[N + 1] = c[N] + Len(e)
  <2>1. N + 1 \in 0..(N + 1) /\ N + 1 # 0 /\ (N + 1) - 1 = N
    BY <1>1
  <2>2. d[N + 1] = d[N] + Len(r[N + 1])
    BY <1>5, <2>1
  <2> QED BY <1>1, <1>9, <2>2
<1>11. q = <<>> => c[N] = 0
  BY <1>1, <1>4 DEF N
<1> QED BY <1>2, <1>3, <1>9, <1>10, <1>11 DEF r

-----------------------------------------------------------------------------
(* Lists in the order of the fills.                                        *)

\* A set of fills is finite, and the place of one is at most their number.
LEMMA PlaceIs ==
  ASSUME NEW N \in Nat, NEW F, F \subseteq 1..N, NEW f \in F
  PROVE  Place(f, F) \in 1..Cardinality(F) /\ Cardinality(F) \in Nat
<1> DEFINE G == {g \in F : g <= f}
<1>1. IsFiniteSet(F)
  <2>1. F \in SUBSET (1..N)
    OBVIOUS
  <2>2. IsFiniteSet(1..N)
    BY FS_Interval
  <2> QED BY <2>1, <2>2, FS_Subset
<1>2. IsFiniteSet(G) /\ Cardinality(G) <= Cardinality(F)
  BY <1>1, FS_Subset
<1>3. f \in G
  OBVIOUS
<1>4. Cardinality(G) \in Nat /\ Cardinality(F) \in Nat
  BY <1>1, <1>2, FS_CardinalityType
<1>5. Cardinality(G) # 0
  BY <1>2, <1>3, FS_EmptySet
<1> HIDE DEF G
<1>6. Cardinality(G) \in 1..Cardinality(F)
  BY <1>2, <1>4, <1>5
<1> QED BY <1>4, <1>6 DEF Place, G

\* The number of fills, none or one more.
LEMMA Count ==
  ASSUME NEW N \in Nat, NEW F, F \subseteq 1..N
  PROVE  /\ IsFiniteSet(F) /\ Cardinality(F) \in Nat /\ Cardinality({}) = 0
         /\ Cardinality(F \cup {N + 1}) = Cardinality(F) + 1
<1>1. IsFiniteSet(F)
  <2>1. F \in SUBSET (1..N)
    OBVIOUS
  <2>2. IsFiniteSet(1..N)
    BY FS_Interval
  <2> QED BY <2>1, <2>2, FS_Subset
<1>2. N + 1 \notin F
  OBVIOUS
<1> QED BY <1>1, <1>2, FS_CardinalityType, FS_AddElement, FS_EmptySet

\* A list q of members of S with an entry for each of the fills F among the
\* first N, and what an entry e for fill N + 1 makes of it.
Listed(S, N, F, q) == N \in Nat /\ F \subseteq 1..N /\ q \in Seq(S) /\ Len(q) = Cardinality(F)
Pushed(S, N, F, q, e) ==
    LET G == F \cup {N + 1}  r == Append(q, e) IN
    /\ r \in Seq(S) /\ Len(r) = Cardinality(G) /\ r[Place(N + 1, G)] = e
    /\ \A f \in F : r[Place(f, G)] = q[Place(f, F)]

\* An entry for the next fill leaves the places of the others.
LEMMA ListPush ==
  ASSUME NEW S, NEW N, NEW F, NEW q, Listed(S, N, F, q), NEW e, e \in S
  PROVE  Pushed(S, N, F, q, e)
<1> DEFINE G == F \cup {N + 1}
<1>0. N \in Nat /\ F \subseteq 1..N /\ q \in Seq(S) /\ Len(q) = Cardinality(F)
  BY DEF Listed
<1>1. Cardinality(F) \in Nat /\ Cardinality(G) = Cardinality(F) + 1
  BY <1>0, Count
<1>2. Place(N + 1, G) = Cardinality(G)
  <2>1. \A g \in G : g <= N + 1
    BY <1>0
  <2>2. {g \in G : g <= N + 1} = G
    BY <2>1
  <2> QED BY <2>2 DEF Place
<1>3. \A f \in F : Place(f, G) = Place(f, F)
  <2> TAKE f \in F
  <2>1. {g \in G : g <= f} = {g \in F : g <= f}
    BY <1>0
  <2> QED BY <2>1 DEF Place
<1>4. \A f \in F : Place(f, F) \in 1..Cardinality(F)
  BY <1>0, PlaceIs
<1>5. /\ Append(q, e) \in Seq(S) /\ Len(Append(q, e)) = Len(q) + 1
      /\ Append(q, e)[Len(q) + 1] = e
      /\ \A j \in 1..Len(q) : Append(q, e)[j] = q[j]
  BY <1>0
<1>6. Append(q, e) \in Seq(S) /\ Len(Append(q, e)) = Cardinality(G)
  BY <1>0, <1>1, <1>5
<1>7. Append(q, e)[Place(N + 1, G)] = e
  BY <1>0, <1>1, <1>2, <1>5
<1>8. \A f \in F : Append(q, e)[Place(f, G)] = q[Place(f, F)]
  BY <1>0, <1>1, <1>3, <1>4, <1>5
<1> QED BY <1>6, <1>7, <1>8 DEF Pushed

-----------------------------------------------------------------------------
(* The invariant.                                                          *)

Recorded == "do_add_to" \in has
Running  == pc \in {"start", "idle", "pre", "octants"}

RTypes ==
    /\ RecTypeOK
    /\ fills \in Seq(FillSet) /\ ships \in Seq(ShipSet) /\ retro \in Seq(Int)
    /\ octants \in [Kinds -> Seq(Oct)] /\ slices \in [Kinds -> Seq(Seq(Oct))]
    /\ DOMAIN chartable \subseteq Int /\ chartable \in [DOMAIN chartable -> CharSet]

\* Every fill is done but the one that is under way; the left-hand path of a
\* double path comes when the right-hand one's character is in the table.
Current ==
    /\ pc = "start" => fills = <<>>
    /\ \A f \in 1..(Len(fills) - 1) : fills[f].done
    /\ pc \in {"idle", "pre"} => \A f \in 1..Len(fills) : fills[f].done
    /\ pc = "octants" => Len(fills) >= 1 /\ fills[Len(fills)].kind = kind
                         /\ fills[Len(fills)].side = side /\ ~fills[Len(fills)].done
                         /\ fills[Len(fills)].index = LuaIndex
    /\ Recorded /\ pc \in {"pre", "octants"} /\ side = "lhs" => LuaIndex \in DOMAIN chartable

\* What no slice covers yet are the octants of the fill that is under way.
Rest(k) == IF pc = "octants" /\ kind = k THEN fills[Len(fills)].octs ELSE <<>>
Cut ==
    Recorded /\ Running =>
        \A k \in Kinds : /\ NewSlice(k) = Rest(k)
                         /\ Covered(slices[k]) + Len(Rest(k)) = Len(octants[k])

\* The table has the characters of fills, and of every fill that is done.
Table ==
    /\ ~Recorded => DOMAIN chartable = {}
    /\ \A i \in DOMAIN chartable : \E f \in DOMAIN fills : fills[f].index = i
    /\ Recorded => \A f \in DOMAIN fills :
          fills[f].done \/ (fills[f].kind = "envelope" /\ fills[f].side = "rhs")
             => fills[f].index \in DOMAIN chartable

\* The lists of a character, one without an entry included.
Curves == Recorded => \A k \in Kinds, i \in Int : ListsOcts(Char(i)[k], DoneIn(k, i))

Starts(i) == {f \in DOMAIN fills : /\ fills[f].kind = "envelope" /\ fills[f].side = "rhs"
                                   /\ fills[f].index = i}
Lists(q, F) == Len(q) = Cardinality(F) /\ \A f \in F : q[Place(f, F)] = f
Knots == Recorded => \A i \in Int : Lists(Char(i).knots, Starts(i))

Seen(i) == {m \in DOMAIN retro : retro[m] = i}
Lines ==
    Recorded => /\ \A m \in DOMAIN retro : retro[m] \in DOMAIN chartable
                /\ \A i \in Int : Char(i).retrograde_line = Cardinality(Seen(i))

\* A character that has been shipped after a fill in it has edges.
Complete == {"do_add_to", "print_edges"} \subseteq has
Shipped(f) == \E s \in DOMAIN ships : ships[s].char = fills[f].index /\ ships[s].fills >= f
Edges ==
    /\ \A s \in DOMAIN ships : ships[s].fills <= Len(fills)
    /\ \A f \in DOMAIN fills : fills[f].index \in Nat
    /\ Complete => \A f \in DOMAIN fills :
          Shipped(f) => /\ fills[f].index \in DOMAIN chartable
                        /\ chartable[fills[f].index].edges >= 1

\* Pages are written from the least character on.
Written ==
    /\ pages \in Seq(Int) /\ (Running => pages = <<>> /\ todo = {})
    /\ \A m, n \in 1..Len(pages) : m < n => pages[m] < pages[n]
    /\ \A m \in 1..Len(pages), j \in todo : pages[m] < j
    /\ pc \in {"end", "closed"} =>
          DOMAIN chartable = {pages[m] : m \in 1..Len(pages)} \cup todo
    /\ pc = "closed" => IF outfile1 THEN todo = {} ELSE pages = <<>>
    /\ ~outfile1 => pages = <<>>
    /\ pc = "dead" /\ Complete =>
          fills = <<>> \/ (outfile1 /\ \E f \in DOMAIN fills : ~Shipped(f))

RInv == /\ RTypes /\ Current /\ Cut /\ SliceIsOneFill /\ Table /\ Curves /\ Knots /\ Lines
        /\ (Codes \subseteq Nat => Edges /\ Written)

-----------------------------------------------------------------------------
(* The table of characters.                                                *)

\* The number of a character is one.
LEMMA IndexInt ==
  ASSUME RTypes
  PROVE  LuaIndex \in Int /\ (Codes \subseteq Nat => LuaIndex \in Nat /\ boc_c = LuaIndex)
<1>1. char_code \in Int /\ char_ext \in Nat /\ Byte \in Nat \ {0}
      /\ (Codes \subseteq Nat => char_code \in Nat)
  BY RecorderAssumption DEF RecorderAssumption, RTypes, RecTypeOK
<1>2. CASE char_code >= 0
  <2>1. CRem(char_code, Byte) = char_code % Byte /\ char_code % Byte \in Nat
    BY <1>1, <1>2 DEF CRem
  <2>2. char_ext * Byte \in Nat /\ char_ext * Byte = Byte * char_ext
    BY <1>1
  <2> QED BY <2>1, <2>2 DEF LuaIndex, boc_c
<1>3. CASE ~(char_code >= 0)
  <2>1. CRem(char_code, Byte) \in Int
    BY <1>1, <1>3 DEF CRem
  <2>2. char_ext * Byte \in Int
    BY <1>1
  <2> QED BY <1>1, <1>3, <2>1, <2>2 DEF LuaIndex
<1> QED BY <1>1, <1>2, <1>3

\* What is known of a character.
LEMMA CharIs ==
  ASSUME RTypes
  PROVE  \A i : Char(i) \in CharSet
<1>1. Blank \in CharSet
  BY DEF Blank, CharSet
<1> QED BY <1>1 DEF RTypes, Char

\* Another curve in it.
LEMMA CharCurve ==
  ASSUME NEW c \in CharSet, NEW k \in Kinds, NEW s \in Seq(Oct),
         NEW d, d = [c EXCEPT ![k] = Append(@, s)]
  PROVE  /\ d \in CharSet /\ d[k] = Append(c[k], s)
         /\ \A j \in Kinds : j # k => d[j] = c[j]
         /\ d.knots = c.knots /\ d.retrograde_line = c.retrograde_line /\ d.edges = c.edges
<1>1. /\ c.envelope \in Seq(Seq(Oct)) /\ c.contour \in Seq(Seq(Oct)) /\ c.knots \in Seq(Nat)
      /\ c.retrograde_line \in Nat /\ c.edges \in Nat
  BY DEF CharSet
<1>2. CASE k = "envelope"
  <2> DEFINE e == Append(c.envelope, s)
  <2>1. e \in Seq(Seq(Oct))
    BY <1>1
  <2> HIDE DEF e
  <2>2. d = [c EXCEPT !.envelope = e]
    BY <1>2 DEF e
  <2> QED BY <1>1, <1>2, <2>1, <2>2 DEF CharSet, Kinds, e
<1>3. CASE k = "contour"
  <2> DEFINE e == Append(c.contour, s)
  <2>1. e \in Seq(Seq(Oct))
    BY <1>1
  <2> HIDE DEF e
  <2>2. d = [c EXCEPT !.contour = e]
    BY <1>3 DEF e
  <2> QED BY <1>1, <1>3, <2>1, <2>2 DEF CharSet, Kinds, e
<1> QED BY <1>2, <1>3 DEF Kinds

\* Another knot list.
LEMMA CharKnot ==
  ASSUME NEW c \in CharSet, NEW f \in Nat, NEW d, d = [c EXCEPT !.knots = Append(@, f)]
  PROVE  /\ d \in CharSet /\ d.knots = Append(c.knots, f)
         /\ \A j \in Kinds : d[j] = c[j]
         /\ d.retrograde_line = c.retrograde_line /\ d.edges = c.edges
<1>1. /\ c.envelope \in Seq(Seq(Oct)) /\ c.contour \in Seq(Seq(Oct)) /\ c.knots \in Seq(Nat)
      /\ c.retrograde_line \in Nat /\ c.edges \in Nat
  BY DEF CharSet
<1> DEFINE e == Append(c.knots, f)
<1>2. e \in Seq(Nat)
  BY <1>1
<1> HIDE DEF e
<1>3. d = [c EXCEPT !.knots = e]
  BY DEF e
<1> QED BY <1>1, <1>2, <1>3 DEF CharSet, Kinds, e

\* Another retrograde line.
LEMMA CharLine ==
  ASSUME NEW c \in CharSet, NEW d, d = [c EXCEPT !.retrograde_line = @ + 1]
  PROVE  /\ d \in CharSet /\ d.retrograde_line = c.retrograde_line + 1
         /\ \A j \in Kinds : d[j] = c[j]
         /\ d.knots = c.knots /\ d.edges = c.edges
<1>1. /\ c.envelope \in Seq(Seq(Oct)) /\ c.contour \in Seq(Seq(Oct)) /\ c.knots \in Seq(Nat)
      /\ c.retrograde_line \in Nat /\ c.edges \in Nat
  BY DEF CharSet
<1> DEFINE e == c.retrograde_line + 1
<1>2. e \in Nat
  BY <1>1
<1> HIDE DEF e
<1>3. d = [c EXCEPT !.retrograde_line = e]
  BY DEF e
<1> QED BY <1>1, <1>2, <1>3 DEF CharSet, Kinds, e

\* Another set of edges.
LEMMA CharEdge ==
  ASSUME NEW c \in CharSet, NEW d, d = [c EXCEPT !.edges = @ + 1]
  PROVE  /\ d \in CharSet /\ d.edges = c.edges + 1
         /\ \A j \in Kinds : d[j] = c[j]
         /\ d.knots = c.knots /\ d.retrograde_line = c.retrograde_line
<1>1. /\ c.envelope \in Seq(Seq(Oct)) /\ c.contour \in Seq(Seq(Oct)) /\ c.knots \in Seq(Nat)
      /\ c.retrograde_line \in Nat /\ c.edges \in Nat
  BY DEF CharSet
<1> DEFINE e == c.edges + 1
<1>2. e \in Nat
  BY <1>1
<1> HIDE DEF e
<1>3. d = [c EXCEPT !.edges = e]
  BY DEF e
<1> QED BY <1>1, <1>2, <1>3 DEF CharSet, Kinds, e

\* The entry of character i, and no other, becomes c.
Becomes(i, c) ==
    /\ chartable' \in [DOMAIN chartable \cup {i} -> CharSet] /\ chartable'[i] = c
    /\ \A j \in DOMAIN chartable : j # i => chartable'[j] = chartable[j]

\* Another entry, or the same one changed.
LEMMA Stored ==
  ASSUME RTypes, NEW i \in Int, NEW c \in CharSet,
         chartable' = Store(i, c) \/ (i \in DOMAIN chartable /\ chartable' = [chartable EXCEPT ![i] = c])
  PROVE  Becomes(i, c)
<1>1. chartable \in [DOMAIN chartable -> CharSet]
  BY DEF RTypes
<1>2. CASE chartable' = Store(i, c)
  BY <1>1, <1>2 DEF Store, Becomes
<1>3. CASE i \in DOMAIN chartable /\ chartable' = [chartable EXCEPT ![i] = c]
  <2>1. DOMAIN chartable \cup {i} = DOMAIN chartable
    BY <1>3
  <2> QED BY <1>1, <1>3, <2>1 DEF Becomes
<1> QED BY <1>2, <1>3

\* What that means for each character.
LEMMA CharAfter ==
  ASSUME RTypes, NEW i \in Int, NEW c \in CharSet, Becomes(i, c)
  PROVE  /\ DOMAIN chartable' = DOMAIN chartable \cup {i} /\ DOMAIN chartable' \subseteq Int
         /\ chartable' \in [DOMAIN chartable' -> CharSet]
         /\ \A j : Char(j)' = IF j = i THEN c ELSE Char(j)
<1>1. DOMAIN chartable' = DOMAIN chartable \cup {i}
  BY DEF Becomes
<1>2. chartable' \in [DOMAIN chartable' -> CharSet]
  BY <1>1 DEF Becomes
<1>3. ASSUME NEW j PROVE Char(j)' = IF j = i THEN c ELSE Char(j)
  BY <1>1 DEF Becomes, Char
<1> QED BY <1>1, <1>2, <1>3 DEF RTypes

\* A record of a character has its fields.
LEMMA CharFields ==
  ASSUME NEW c \in CharSet
  PROVE  /\ DOMAIN c = DOMAIN Blank
         /\ \A k \in Kinds : c[k] \in Seq(Seq(Oct))
         /\ c.knots \in Seq(Nat) /\ c.retrograde_line \in Nat /\ c.edges \in Nat
  BY DEF CharSet, Blank, Kinds

\* Another curve for character i.
LEMMA CurveAdded ==
  ASSUME RTypes, NEW i \in Int, NEW k \in Kinds, NEW s \in Seq(Oct),
         chartable' = Store(i, [Char(i) EXCEPT ![k] = Append(@, s)])
  PROVE  /\ DOMAIN chartable' = DOMAIN chartable \cup {i} /\ DOMAIN chartable' \subseteq Int
         /\ chartable' \in [DOMAIN chartable' -> CharSet]
         /\ \A j : \A l \in Kinds :
               (Char(j)')[l] = IF j = i /\ l = k THEN Append(Char(j)[l], s) ELSE Char(j)[l]
         /\ \A j : /\ (Char(j)').knots = Char(j).knots /\ (Char(j)').edges = Char(j).edges
                   /\ (Char(j)').retrograde_line = Char(j).retrograde_line
<1> DEFINE d == [Char(i) EXCEPT ![k] = Append(@, s)]
<1>1. Char(i) \in CharSet
  BY CharIs
<1>2. /\ d \in CharSet /\ d[k] = Append(Char(i)[k], s)
      /\ \A j \in Kinds : j # k => d[j] = Char(i)[j]
      /\ d.knots = Char(i).knots /\ d.retrograde_line = Char(i).retrograde_line
      /\ d.edges = Char(i).edges
  BY <1>1, CharCurve
<1> HIDE DEF d
<1>3. chartable' = Store(i, d)
  BY DEF d
<1>4. Becomes(i, d)
  BY <1>2, <1>3, Stored
<1> QED BY <1>2, <1>4, CharAfter

\* Another knot list.
LEMMA KnotAdded ==
  ASSUME RTypes, NEW i \in Int, NEW f \in Nat,
         chartable' = Store(i, [Char(i) EXCEPT !.knots = Append(@, f)])
  PROVE  /\ DOMAIN chartable' = DOMAIN chartable \cup {i} /\ DOMAIN chartable' \subseteq Int
         /\ chartable' \in [DOMAIN chartable' -> CharSet]
         /\ \A j : (Char(j)').knots = IF j = i THEN Append(Char(j).knots, f) ELSE Char(j).knots
         /\ \A j : \A l \in Kinds : (Char(j)')[l] = Char(j)[l]
         /\ \A j : /\ (Char(j)').edges = Char(j).edges
                   /\ (Char(j)').retrograde_line = Char(j).retrograde_line
<1> DEFINE d == [Char(i) EXCEPT !.knots = Append(@, f)]
<1>1. Char(i) \in CharSet
  BY CharIs
<1>2. /\ d \in CharSet /\ d.knots = Append(Char(i).knots, f)
      /\ \A j \in Kinds : d[j] = Char(i)[j]
      /\ d.retrograde_line = Char(i).retrograde_line /\ d.edges = Char(i).edges
  BY <1>1, CharKnot
<1> HIDE DEF d
<1>3. chartable' = Store(i, d)
  BY DEF d
<1>4. Becomes(i, d)
  BY <1>2, <1>3, Stored
<1> QED BY <1>2, <1>4, CharAfter

\* Another retrograde line.
LEMMA LineAdded ==
  ASSUME RTypes, NEW i \in DOMAIN chartable,
         chartable' = [chartable EXCEPT ![i].retrograde_line = @ + 1]
  PROVE  /\ DOMAIN chartable' = DOMAIN chartable /\ DOMAIN chartable' \subseteq Int
         /\ chartable' \in [DOMAIN chartable' -> CharSet]
         /\ \A j : (Char(j)').retrograde_line =
                  IF j = i THEN Char(j).retrograde_line + 1 ELSE Char(j).retrograde_line
         /\ \A j : \A l \in Kinds : (Char(j)')[l] = Char(j)[l]
         /\ \A j : /\ (Char(j)').edges = Char(j).edges /\ (Char(j)').knots = Char(j).knots
<1> DEFINE d == [Char(i) EXCEPT !.retrograde_line = @ + 1]
<1>1. Char(i) \in CharSet /\ Char(i) = chartable[i] /\ i \in Int
  BY CharIs DEF Char, RTypes
<1>2. /\ d \in CharSet /\ d.retrograde_line = Char(i).retrograde_line + 1
      /\ \A j \in Kinds : d[j] = Char(i)[j]
      /\ d.knots = Char(i).knots /\ d.edges = Char(i).edges
  BY <1>1, CharLine
<1>3. chartable' = [chartable EXCEPT ![i] = d]
  BY <1>1
<1> HIDE DEF d
<1>4. Becomes(i, d)
  BY <1>1, <1>2, <1>3, Stored
<1>5. DOMAIN chartable \cup {i} = DOMAIN chartable
  OBVIOUS
<1> QED BY <1>1, <1>2, <1>4, <1>5, CharAfter

\* Another set of edges.
LEMMA EdgeAdded ==
  ASSUME RTypes, NEW i \in DOMAIN chartable,
         chartable' = [chartable EXCEPT ![i].edges = @ + 1]
  PROVE  /\ DOMAIN chartable' = DOMAIN chartable /\ DOMAIN chartable' \subseteq Int
         /\ chartable' \in [DOMAIN chartable' -> CharSet]
         /\ \A j : (Char(j)').edges = IF j = i THEN Char(j).edges + 1 ELSE Char(j).edges
         /\ \A j : \A l \in Kinds : (Char(j)')[l] = Char(j)[l]
         /\ \A j : /\ (Char(j)').retrograde_line = Char(j).retrograde_line
                   /\ (Char(j)').knots = Char(j).knots
<1> DEFINE d == [Char(i) EXCEPT !.edges = @ + 1]
<1>1. Char(i) \in CharSet /\ Char(i) = chartable[i] /\ i \in Int
  BY CharIs DEF Char, RTypes
<1>2. /\ d \in CharSet /\ d.edges = Char(i).edges + 1
      /\ \A j \in Kinds : d[j] = Char(i)[j]
      /\ d.knots = Char(i).knots /\ d.retrograde_line = Char(i).retrograde_line
  BY <1>1, CharEdge
<1>3. chartable' = [chartable EXCEPT ![i] = d]
  BY <1>1
<1> HIDE DEF d
<1>4. Becomes(i, d)
  BY <1>1, <1>2, <1>3, Stored
<1>5. DOMAIN chartable \cup {i} = DOMAIN chartable
  OBVIOUS
<1> QED BY <1>1, <1>2, <1>4, <1>5, CharAfter

-----------------------------------------------------------------------------
(* What a step keeps.                                                      *)

\* A step keeps what is known of every fill, and may add fills.
FillsKept ==
    /\ fills' \in Seq(FillSet) /\ Len(fills') >= Len(fills)
    /\ \A f \in DOMAIN fills :
          /\ fills'[f].kind = fills[f].kind /\ fills'[f].side = fills[f].side
          /\ fills'[f].index = fills[f].index

\* The fills that are done and their octants are the same.
DoneKept ==
    /\ \A k \in Kinds : Done(k)' = Done(k)
    /\ \A f \in DOMAIN fills : fills[f].done => fills'[f].octs = fills[f].octs

\* Then the curves are, if the lists are.
LEMMA CurvesFrame ==
  ASSUME SliceIsOneFill, Curves, has' = has, slices' = slices, FillsKept, DoneKept,
         \A j \in Int : \A k \in Kinds : (Char(j)')[k] = Char(j)[k]
  PROVE  SliceIsOneFill' /\ Curves'
<1>1. ASSUME NEW k \in Kinds, NEW i \in Int
      PROVE  DoneIn(k, i)' = DoneIn(k, i) /\ Done(k)' = Done(k)
             /\ \A f \in Done(k) : fills'[f].octs = fills[f].octs
  <2>1. Done(k)' = Done(k)
    BY DEF DoneKept
  <2>2. \A f \in Done(k) : fills'[f].octs = fills[f].octs /\ fills'[f].index = fills[f].index
    BY DEF DoneKept, FillsKept, Done
  <2> QED BY <2>1, <2>2 DEF DoneIn
<1>2. SliceIsOneFill'
  <2> SUFFICES ASSUME Recorded, NEW k \in Kinds PROVE ListsOcts(slices[k], Done(k))'
    BY DEF SliceIsOneFill, Recorded
  <2>1. ListsOcts(slices[k], Done(k))
    BY DEF SliceIsOneFill, Recorded
  <2>2. Done(k)' = Done(k) /\ \A f \in Done(k) : fills'[f].octs = fills[f].octs
    <3>1. 0 \in Int
      OBVIOUS
    <3> QED BY <1>1, <3>1
  <2> QED BY <2>1, <2>2 DEF ListsOcts
<1>3. Curves'
  <2> SUFFICES ASSUME Recorded, NEW k \in Kinds, NEW i \in Int
               PROVE  ListsOcts(Char(i)[k], DoneIn(k, i))'
    BY DEF Curves, Recorded
  <2>1. ListsOcts(Char(i)[k], DoneIn(k, i))
    BY DEF Curves
  <2>2. DoneIn(k, i)' = DoneIn(k, i) /\ \A f \in DoneIn(k, i) : fills'[f].octs = fills[f].octs
    BY <1>1 DEF DoneIn
  <2>3. (Char(i)')[k] = Char(i)[k]
    OBVIOUS
  <2> QED BY <2>1, <2>2, <2>3 DEF ListsOcts
<1> QED BY <1>2, <1>3

\* The knots, when no fill is added.
LEMMA KnotsFrame ==
  ASSUME fills \in Seq(FillSet), Knots, has' = has, FillsKept, Len(fills') = Len(fills),
         \A j \in Int : (Char(j)').knots = Char(j).knots
  PROVE  Knots'
<1> SUFFICES ASSUME Recorded, NEW i \in Int PROVE Lists(Char(i).knots, Starts(i))'
  BY DEF Knots, Recorded
<1>1. DOMAIN fills' = DOMAIN fills
  BY DEF FillsKept
<1>2. Starts(i)' = Starts(i)
  BY <1>1 DEF Starts, FillsKept
<1>3. Lists(Char(i).knots, Starts(i)) /\ (Char(i)').knots = Char(i).knots
  BY DEF Knots
<1> QED BY <1>2, <1>3 DEF Lists

\* The retrograde lines, when there is none.
LEMMA LinesFrame ==
  ASSUME Lines, has' = has, retro' = retro, DOMAIN chartable \subseteq DOMAIN chartable',
         \A j \in Int : (Char(j)').retrograde_line = Char(j).retrograde_line
  PROVE  Lines'
<1> SUFFICES ASSUME Recorded
             PROVE  /\ \A m \in DOMAIN retro : retro[m] \in DOMAIN chartable'
                    /\ \A i \in Int : (Char(i)').retrograde_line = Cardinality(Seen(i))
  BY DEF Lines, Recorded, Seen
<1> QED BY DEF Lines

\* The edges, when nothing is shipped.
LEMMA EdgesFrame ==
  ASSUME fills \in Seq(FillSet), ships \in Seq(ShipSet), Edges, has' = has, ships' = ships,
         FillsKept, DOMAIN chartable \subseteq DOMAIN chartable',
         \A f \in DOMAIN fills' : fills'[f].index \in Nat,
         \A j : (Char(j)').edges = Char(j).edges
  PROVE  Edges'
<1>1. \A s \in DOMAIN ships : ships[s].fills <= Len(fills) /\ ships[s].fills \in Nat
  <2>1. \A s \in DOMAIN ships : ships[s] \in ShipSet
    OBVIOUS
  <2> QED BY <2>1 DEF Edges, ShipSet
<1>2. Len(fills) \in Nat /\ Len(fills') \in Nat /\ Len(fills') >= Len(fills)
      /\ DOMAIN fills = 1..Len(fills) /\ DOMAIN fills' = 1..Len(fills')
  BY DEF FillsKept
<1>3. \A s \in DOMAIN ships' : ships'[s].fills <= Len(fills')
  BY <1>1, <1>2
<1>4. ASSUME Complete', NEW f \in DOMAIN fills', Shipped(f)'
      PROVE  fills'[f].index \in DOMAIN chartable' /\ chartable'[fills'[f].index].edges >= 1
  <2>1. PICK s \in DOMAIN ships : ships[s].char = fills'[f].index /\ ships[s].fills >= f
    BY <1>4 DEF Shipped
  <2>2. f \in DOMAIN fills
    BY <1>1, <1>2, <2>1
  <2>3. fills'[f].index = fills[f].index
    BY <2>2 DEF FillsKept
  <2>4. Shipped(f) /\ Complete
    BY <1>4, <2>1, <2>3 DEF Shipped, Complete
  <2>5. fills[f].index \in DOMAIN chartable /\ chartable[fills[f].index].edges >= 1
    BY <2>2, <2>4 DEF Edges
  <2>6. PICK i : i = fills[f].index
    OBVIOUS
  <2>7. (Char(i)').edges = Char(i).edges
    OBVIOUS
  <2> QED BY <2>3, <2>5, <2>6, <2>7 DEF Char
<1> QED BY <1>3, <1>4 DEF Edges

\* Nothing is written before the end.
LEMMA WrittenFrame ==
  ASSUME Written, Running, Running', pages' = pages, todo' = todo
  PROVE  Written'
<1>1. pages' = <<>> /\ todo' = {}
  BY DEF Written
<1>2. pc' \notin {"end", "closed", "dead"}
  BY DEF Running
<1>3. 1..Len(pages') = {}
  BY <1>1
<1> QED BY <1>1, <1>2, <1>3 DEF Written

-----------------------------------------------------------------------------
(* Parts of a list.                                                        *)

\* The part that is not covered yet, with an octant more, and none.
LEMMA Parts ==
  ASSUME NEW S, NEW q \in Seq(S), NEW m \in Nat, m <= Len(q)
  PROVE  /\ \A e \in S : SubSeq(Append(q, e), m + 1, Len(q) + 1)
                            = Append(SubSeq(q, m + 1, Len(q)), e)
         /\ SubSeq(q, m + 1, Len(q)) \in Seq(S)
         /\ Len(SubSeq(q, m + 1, Len(q))) = Len(q) - m
         /\ m = Len(q) => SubSeq(q, m + 1, Len(q)) = <<>>
<1> DEFINE p == SubSeq(q, m + 1, Len(q))
<1>1. p = [j \in 1..(Len(q) - m) |-> q[j + m]]
  OBVIOUS
<1>2. \A j \in 1..(Len(q) - m) : q[j + m] \in S
  OBVIOUS
<1>3. p \in Seq(S) /\ Len(p) = Len(q) - m /\ \A j \in 1..Len(p) : p[j] = q[j + m]
  <2> HIDE DEF p
  <2> QED BY <1>1, <1>2
<1>4. ASSUME m = Len(q) PROVE p = <<>>
  <2> HIDE DEF p
  <2> QED BY <1>3, <1>4
<1>5. ASSUME NEW e \in S PROVE SubSeq(Append(q, e), m + 1, Len(q) + 1) = Append(p, e)
  <2> DEFINE a == Append(q, e)  b == SubSeq(a, m + 1, Len(q) + 1)  c == Append(p, e)
  <2>1. a \in Seq(S) /\ Len(a) = Len(q) + 1 /\ a[Len(q) + 1] = e /\ \A j \in 1..Len(q) : a[j] = q[j]
    OBVIOUS
  <2> HIDE DEF a
  <2>2. b = [j \in 1..(Len(q) + 1 - m) |-> a[j + m]]
    BY <2>1
  <2>3. \A j \in 1..(Len(q) + 1 - m) : a[j + m] \in S
    BY <2>1
  <2>4. b \in Seq(S) /\ Len(b) = Len(q) + 1 - m /\ \A j \in 1..Len(b) : b[j] = a[j + m]
    <3> HIDE DEF b
    <3> QED BY <2>2, <2>3
  <2>5. c \in Seq(S) /\ Len(c) = Len(p) + 1 /\ c[Len(p) + 1] = e /\ \A j \in 1..Len(p) : c[j] = p[j]
    <3> HIDE DEF p
    <3> QED BY <1>3
  <2> HIDE DEF b, c, p
  <2>6. Len(b) = Len(c) /\ Len(b) \in Nat
    BY <1>3, <2>4, <2>5
  <2>7. ASSUME NEW j \in 1..Len(b) PROVE b[j] = c[j]
    <3>1. CASE j = Len(p) + 1
      BY <1>3, <2>1, <2>4, <2>5, <2>6, <3>1
    <3>2. CASE j # Len(p) + 1
      <4>1. j \in 1..Len(p) /\ j + m \in 1..Len(q)
        BY <1>3, <2>5, <2>6, <3>2
      <4> QED BY <1>3, <2>1, <2>4, <2>5, <4>1
    <3> QED BY <3>1, <3>2
  <2>8. b = c
    BY <2>4, <2>5, <2>6, <2>7
  <2> QED BY <2>8 DEF a, b, c
<1> QED BY <1>3, <1>4, <1>5

-----------------------------------------------------------------------------
(* The first state.                                                        *)

\* Nothing has been drawn.
LEMMA RecInit ==
  ASSUME Init
  PROVE  RInv
<1>1. /\ fills = <<>> /\ ships = <<>> /\ retro = <<>> /\ DOMAIN chartable = {} /\ pages = <<>>
      /\ todo = {} /\ pc = "start" /\ DOMAIN fills = {} /\ Len(fills) = 0
      /\ \A k \in Kinds : octants[k] = <<>> /\ slices[k] = <<>>
  BY DEF Init
<1>2. RTypes
  <2>1. RecTypeOK
    BY <1>1, RecorderAssumption DEF Init, RecTypeOK, RecorderAssumption, Kinds
  <2>2. octants \in [Kinds -> Seq(Oct)] /\ slices \in [Kinds -> Seq(Seq(Oct))]
    BY DEF Init
  <2>3. chartable \in [DOMAIN chartable -> CharSet]
    BY DEF Init
  <2> QED BY <1>1, <2>1, <2>2, <2>3 DEF RTypes
<1>3. Current
  BY <1>1 DEF Current
<1>4. Cut
  <2> SUFFICES ASSUME NEW k \in Kinds
               PROVE  NewSlice(k) = Rest(k) /\ Covered(slices[k]) + Len(Rest(k)) = Len(octants[k])
    BY DEF Cut
  <2>1. <<>> \in Seq(Seq(Oct)) /\ <<>> \in Seq(Oct) /\ Rest(k) = <<>>
    BY <1>1 DEF Rest
  <2>2. Covered(slices[k]) = 0
    BY <1>1, <2>1, CoveredPush
  <2>3. SubSeq(octants[k], 0 + 1, Len(octants[k])) = <<>> /\ Len(octants[k]) = 0
    BY <1>1, <2>1, Parts
  <2> QED BY <2>1, <2>2, <2>3 DEF NewSlice
<1>5. Cardinality({}) = 0
  BY FS_EmptySet
<1>6. \A k, i : Done(k) = {} /\ DoneIn(k, i) = {} /\ Starts(i) = {} /\ Seen(i) = {}
  BY <1>1 DEF Done, DoneIn, Starts, Seen
<1>7. \A i : Char(i) = Blank
  BY <1>1 DEF Char
<1>8. \A k \in Kinds : Blank[k] = <<>> /\ Blank.knots = <<>> /\ Blank.retrograde_line = 0
  BY DEF Blank, Kinds
<1>9. SliceIsOneFill /\ Curves
  BY <1>1, <1>5, <1>6, <1>7, <1>8 DEF SliceIsOneFill, Curves, ListsOcts
<1>10. Table
  BY <1>1 DEF Table
<1>11. Knots
  <2>1. Blank.knots = <<>>
    BY DEF Blank
  <2>2. Lists(<<>>, {})
    BY <1>5 DEF Lists
  <2> QED BY <1>6, <1>7, <2>1, <2>2 DEF Knots
<1>12. Lines
  <2>1. Blank.retrograde_line = 0
    BY DEF Blank
  <2> QED BY <1>1, <1>5, <1>6, <1>7, <2>1 DEF Lines
<1>13. Edges /\ Written
  <2>1. 1..Len(pages) = {}
    BY <1>1
  <2> QED BY <1>1, <2>1 DEF Edges, Written
<1> QED BY <1>2, <1>3, <1>4, <1>9, <1>10, <1>11, <1>12, <1>13 DEF RInv

-----------------------------------------------------------------------------
(* The steps that only move the program.                                   *)

\* What does not look at the program.
LEMMA Quiet ==
  ASSUME RInv, UNCHANGED <<has, lua, ghosts>>
  PROVE  /\ SliceIsOneFill' /\ Table' /\ Curves' /\ Knots' /\ Lines'
         /\ (Codes \subseteq Nat => Edges')
<1>1. /\ has' = has /\ slices' = slices /\ chartable' = chartable /\ fills' = fills
      /\ ships' = ships /\ retro' = retro
  BY DEF lua, ghosts
<1>2. SliceIsOneFill'
  BY <1>1 DEF RInv, SliceIsOneFill, ListsOcts, Done
<1>3. Table'
  BY <1>1 DEF RInv, Table, Recorded
<1>4. Curves'
  <2> SUFFICES ASSUME Recorded, NEW k \in Kinds, NEW i \in Int
               PROVE  ListsOcts(Char(i)[k], DoneIn(k, i))'
    BY <1>1 DEF Curves, Recorded
  <2>1. ListsOcts(Char(i)[k], DoneIn(k, i))
    BY DEF RInv, Curves
  <2>2. Char(i)' = Char(i) /\ DoneIn(k, i)' = DoneIn(k, i)
    BY <1>1 DEF Char, DoneIn, Done
  <2> QED BY <1>1, <2>1, <2>2 DEF ListsOcts
<1>5. Knots'
  BY <1>1 DEF RInv, Knots, Recorded, Lists, Starts, Char
<1>6. Lines'
  BY <1>1 DEF RInv, Lines, Recorded, Seen, Char
<1>7. ASSUME Codes \subseteq Nat PROVE Edges'
  BY <1>1, <1>7 DEF RInv, Edges, Complete, Shipped
<1> QED BY <1>2, <1>3, <1>4, <1>5, <1>6, <1>7

\* No octant is recorded and no fill begins or ends.
LEMMA CutKept ==
  ASSUME RInv, UNCHANGED <<has, octants, slices, fills>>, Running,
         pc # "octants", pc' # "octants"
  PROVE  Cut'
<1> SUFFICES ASSUME Recorded', Running', NEW k \in Kinds
             PROVE  NewSlice(k)' = Rest(k)' /\ Covered(slices'[k]) + Len(Rest(k)') = Len(octants'[k])
  BY DEF Cut
<1>1. Rest(k) = <<>> /\ Rest(k)' = <<>>
  BY DEF Rest
<1>2. NewSlice(k) = Rest(k) /\ Covered(slices[k]) + Len(Rest(k)) = Len(octants[k])
  BY DEF RInv, Cut, Recorded
<1>3. NewSlice(k)' = NewSlice(k)
  BY DEF NewSlice
<1> QED BY <1>1, <1>2, <1>3

\* The sensors are switched on, a character is chosen, a path is added.
LEMMA RecQuietSteps ==
  ASSUME RInv, mflua_initialize \/ SetCharacter \/ do_add_to
  PROVE  RInv'
<1>1. UNCHANGED <<has, lua, ghosts, pages, todo>> /\ outfile1' \in BOOLEAN
      /\ pc \in {"start", "idle"} /\ pc' \in {"idle", "pre"}
      /\ (pc' = "pre" => side' = "rhs")
  BY DEF RInv, RTypes, RecTypeOK, mflua_initialize, OpenOutput, SetCharacter, do_add_to, output
<1>2. /\ has' = has /\ octants' = octants /\ slices' = slices /\ chartable' = chartable
      /\ fills' = fills /\ ships' = ships /\ retro' = retro /\ pages' = pages /\ todo' = todo
  BY <1>1 DEF lua, ghosts
<1>3. /\ kind' \in Kinds /\ doubled' \in BOOLEAN /\ side' \in {"rhs", "lhs"}
      /\ char_code' \in Codes /\ char_ext' \in Exts
  BY DEF RInv, RTypes, RecTypeOK, mflua_initialize, SetCharacter, do_add_to, engine
<1>4. RTypes'
  <2>1. RecTypeOK'
    BY <1>1, <1>2, <1>3 DEF RInv, RTypes, RecTypeOK
  <2> QED BY <1>2, <2>1 DEF RInv, RTypes
<1>5. Current'
  <2>1. pc = "start" => fills = <<>> /\ Len(fills) = 0
    BY DEF RInv, Current
  <2>2. \A f \in 1..Len(fills) : fills[f].done
    BY <1>1, <2>1 DEF RInv, Current
  <2> QED BY <1>1, <1>2, <2>2 DEF RInv, Current
<1>6. Cut'
  BY <1>1, <1>2, CutKept DEF Running
<1>7. ASSUME Codes \subseteq Nat PROVE Written'
  <2>1. Running /\ Running'
    BY <1>1 DEF Running
  <2> QED BY <1>1, <1>7, <2>1, WrittenFrame DEF RInv
<1> QED BY <1>1, <1>4, <1>5, <1>6, <1>7, Quiet DEF RInv

-----------------------------------------------------------------------------
(* The end of the job.                                                     *)

\* What the end of the job keeps.
LEMMA EndKept ==
  ASSUME RInv, UNCHANGED <<has, engine, lua, ghosts>>, pc' \in {"end", "closed", "dead"},
         outfile1' = outfile1, todo' \subseteq DOMAIN chartable
  PROVE  RTypes' /\ Current' /\ Cut'
<1>1. /\ has' = has /\ octants' = octants /\ slices' = slices /\ chartable' = chartable
      /\ fills' = fills /\ ships' = ships /\ retro' = retro /\ kind' = kind /\ side' = side
      /\ doubled' = doubled /\ char_code' = char_code /\ char_ext' = char_ext
  BY DEF lua, ghosts, engine
<1>2. RTypes'
  <2>1. RecTypeOK'
    BY <1>1 DEF RInv, RTypes, RecTypeOK
  <2> QED BY <1>1, <2>1 DEF RInv, RTypes
<1>3. Current'
  BY <1>1 DEF RInv, Current
<1>4. Cut'
  BY DEF Cut, Running
<1> QED BY <1>2, <1>3, <1>4

\* The files are closed after the end of the program or a fatal stop.
LEMMA RecEnd ==
  ASSUME RInv, close_files_and_terminate
  PROVE  RInv'
<1>1. /\ UNCHANGED <<has, engine, lua, outfile1, ghosts>> /\ pages' = pages
      /\ todo' = DOMAIN chartable
      /\ pc' = (IF pc = "start" THEN "dead" ELSE "end") /\ Running
  BY DEF close_files_and_terminate, Running
<1>2. chartable' = chartable /\ fills' = fills
  BY <1>1 DEF lua, ghosts
<1>3. RTypes' /\ Current' /\ Cut'
  BY <1>1, <1>2, EndKept
<1>4. ASSUME Codes \subseteq Nat PROVE Written'
  <2>1. pages' = <<>>
    BY <1>1, <1>4 DEF RInv, Written
  <2>2. 1..Len(pages') = {} /\ ~Running'
    BY <1>1, <2>1 DEF Running
  <2>3. {pages'[m] : m \in 1..Len(pages')} = {}
    BY <2>2
  <2>4. pc' = "dead" => fills' = <<>>
    BY <1>1, <1>2 DEF RInv, Current
  <2>5. pc' # "closed" /\ DOMAIN chartable' = todo'
    BY <1>1, <1>2
  <2> QED BY <2>1, <2>2, <2>3, <2>4, <2>5 DEF Written
<1> QED BY <1>1, <1>3, <1>4, Quiet DEF RInv

\* end_program has no file to write to.
LEMMA RecNoFile ==
  ASSUME RInv, NoFile
  PROVE  RInv'
<1>1. /\ UNCHANGED <<has, engine, lua, ghosts>> /\ pc = "end" /\ pc' = "closed" /\ ~outfile1
      /\ outfile1' = outfile1 /\ todo' = todo /\ pages' = pages
  BY DEF NoFile, output
<1>2. chartable' = chartable /\ fills' = fills /\ todo \subseteq DOMAIN chartable
  BY <1>1 DEF lua, ghosts, RInv, RTypes, RecTypeOK
<1>3. RTypes' /\ Current' /\ Cut'
  BY <1>1, <1>2, EndKept
<1>4. ASSUME Codes \subseteq Nat PROVE Written'
  <2>1. ~Running' /\ pc' # "dead"
    BY <1>1 DEF Running
  <2> QED BY <1>1, <1>2, <1>4, <2>1 DEF RInv, Written
<1> QED BY <1>1, <1>3, <1>4, Quiet DEF RInv

\* A page is written, or the script fails.
LEMMA RecWritePage ==
  ASSUME RInv, WritePage
  PROVE  RInv'
<1>1. /\ UNCHANGED <<has, engine, lua, outfile1, ghosts>> /\ pc = "end" /\ todo # {}
      /\ outfile1 /\ outfile1'
  BY DEF WritePage
<1>2. chartable' = chartable /\ fills' = fills /\ ships' = ships /\ has' = has
  BY <1>1 DEF lua, ghosts
<1> DEFINE i == NextChar
<1>3. \/ /\ chartable[i].edges = 0 /\ pc' = "dead" /\ todo' = todo /\ pages' = pages
      \/ /\ chartable[i].edges # 0 /\ pc' = "end" /\ todo' = todo \ {i}
         /\ pages' = Append(pages, i)
  BY <1>1 DEF WritePage
<1>4. todo \subseteq DOMAIN chartable /\ DOMAIN chartable \subseteq Int
  BY DEF RInv, RTypes, RecTypeOK
<1>5. \A x \in DOMAIN chartable : \E f \in DOMAIN fills : fills[f].index = x
  BY DEF RInv, Table
<1>6. ASSUME Codes \subseteq Nat PROVE i \in todo /\ \A x \in todo : i <= x
  <2>1. \A f \in DOMAIN fills : fills[f].index \in Nat
    BY <1>6 DEF RInv, Edges
  <2>2. todo \subseteq Nat
    BY <1>4, <1>5, <2>1
  <2>3. \E x \in todo : \A y \in todo : x <= y
    BY <1>1, <2>2, Least
  <2> QED BY <2>3 DEF NextChar
<1>7. RTypes' /\ Current' /\ Cut'
  BY <1>1, <1>3, <1>4, EndKept
<1>8. ASSUME Codes \subseteq Nat PROVE Written'
  <2>1. i \in todo /\ (\A x \in todo : i <= x) /\ i \in Int
    BY <1>4, <1>6, <1>8
  <2>2. Written /\ Edges
    BY <1>8 DEF RInv
  <2>3. CASE pc' = "dead"
    <3>1. todo' = todo /\ pages' = pages /\ chartable[i].edges = 0
      BY <1>3, <2>3
    <3>2. PICK f \in DOMAIN fills : fills[f].index = i
      BY <1>4, <1>5, <2>1
    <3>3. Complete => ~Shipped(f)
      BY <2>2, <3>1, <3>2 DEF Edges
    <3>4. Complete' => f \in DOMAIN fills' /\ ~Shipped(f)'
      BY <1>2, <3>3 DEF Shipped, Complete
    <3>5. pc' = "dead" /\ Complete' => \E g \in DOMAIN fills' : ~Shipped(g)'
      BY <3>4
    <3>6. ~Running' /\ pc' \notin {"end", "closed"}
      BY <2>3 DEF Running
    <3> QED BY <1>1, <2>2, <3>1, <3>5, <3>6 DEF Written
  <2>4. CASE pc' = "end"
    <3>1. todo' = todo \ {i} /\ pages' = Append(pages, i)
      BY <1>3, <2>4
    <3>2. /\ pages \in Seq(Int) /\ \A m, n \in 1..Len(pages) : m < n => pages[m] < pages[n]
          /\ \A m \in 1..Len(pages), j \in todo : pages[m] < j
          /\ DOMAIN chartable = {pages[m] : m \in 1..Len(pages)} \cup todo
      BY <1>1, <2>2 DEF Written
    <3>3. /\ pages' \in Seq(Int) /\ Len(pages') = Len(pages) + 1 /\ pages'[Len(pages) + 1] = i
          /\ \A m \in 1..Len(pages) : pages'[m] = pages[m]
          /\ Len(pages) \in Nat
      BY <2>1, <3>1, <3>2
    <3>4. \A m, n \in 1..Len(pages') : m < n => pages'[m] < pages'[n]
      <4> SUFFICES ASSUME NEW m \in 1..Len(pages'), NEW n \in 1..Len(pages'), m < n
                   PROVE  pages'[m] < pages'[n]
        OBVIOUS
      <4>1. m \in 1..Len(pages)
        BY <3>2, <3>3
      <4>2. CASE n = Len(pages) + 1
        BY <2>1, <3>2, <3>3, <4>1, <4>2
      <4>3. CASE n # Len(pages) + 1
        <5>1. n \in 1..Len(pages)
          BY <3>3, <4>3
        <5> QED BY <3>2, <3>3, <4>1, <5>1
      <4> QED BY <4>2, <4>3
    <3>5. \A m \in 1..Len(pages'), j \in todo' : pages'[m] < j
      <4> SUFFICES ASSUME NEW m \in 1..Len(pages'), NEW j \in todo' PROVE pages'[m] < j
        OBVIOUS
      <4>1. j \in todo /\ j # i /\ j \in Int
        BY <1>4, <3>1
      <4>2. CASE m = Len(pages) + 1
        BY <2>1, <3>3, <4>1, <4>2
      <4>3. CASE m # Len(pages) + 1
        <5>1. m \in 1..Len(pages)
          BY <3>3, <4>3
        <5> QED BY <3>2, <3>3, <4>1, <5>1
      <4> QED BY <4>2, <4>3
    <3>6. DOMAIN chartable = {pages'[m] : m \in 1..Len(pages')} \cup todo'
      <4>1. i \in {pages'[m] : m \in 1..Len(pages')}
        BY <3>2, <3>3
      <4>2. {pages[m] : m \in 1..Len(pages)} \subseteq {pages'[m] : m \in 1..Len(pages')}
        BY <3>2, <3>3
      <4>3. \A m \in 1..Len(pages') : pages'[m] \in DOMAIN chartable
        <5> SUFFICES ASSUME NEW m \in 1..Len(pages') PROVE pages'[m] \in DOMAIN chartable
          OBVIOUS
        <5>1. m = Len(pages) + 1 \/ m \in 1..Len(pages)
          BY <3>2, <3>3
        <5> QED BY <1>4, <2>1, <3>2, <3>3, <5>1
      <4> QED BY <3>1, <3>2, <4>1, <4>2, <4>3
    <3>7. ~Running'
      BY <2>4 DEF Running
    <3> QED BY <1>1, <1>2, <2>4, <3>3, <3>4, <3>5, <3>6, <3>7 DEF Written
  <2> QED BY <1>3, <2>3, <2>4
<1> QED BY <1>1, <1>7, <1>8, Quiet DEF RInv

\* end_program has written every page.
LEMMA RecCloseFile ==
  ASSUME RInv, CloseFile
  PROVE  RInv'
<1>1. /\ UNCHANGED <<has, engine, lua, ghosts>> /\ pc = "end" /\ pc' = "closed" /\ todo = {}
      /\ outfile1 /\ outfile1' /\ todo' = todo /\ pages' = pages
  BY DEF CloseFile, output
<1>2. chartable' = chartable /\ fills' = fills
  BY <1>1 DEF lua, ghosts
<1>3. RTypes' /\ Current' /\ Cut'
  BY <1>1, EndKept
<1>4. ASSUME Codes \subseteq Nat PROVE Written'
  <2>1. ~Running' /\ pc' # "dead"
    BY <1>1 DEF Running
  <2> QED BY <1>1, <1>2, <1>4, <2>1 DEF RInv, Written
<1> QED BY <1>1, <1>3, <1>4, Quiet DEF RInv

-----------------------------------------------------------------------------
(* A fill begins.                                                          *)

\* Every fill has a number, and so has its character.
LEMMA FillIs ==
  ASSUME RTypes
  PROVE  /\ Len(fills) \in Nat /\ DOMAIN fills = 1..Len(fills)
         /\ \A f \in 1..Len(fills) : /\ fills[f] \in FillSet /\ fills[f].index \in Int
               /\ fills[f].kind \in Kinds /\ fills[f].side \in {"rhs", "lhs"}
               /\ fills[f].octs \in Seq(Oct) /\ fills[f].done \in BOOLEAN
         /\ \A k, i : Done(k) \subseteq 1..Len(fills) /\ DoneIn(k, i) \subseteq 1..Len(fills)
                       /\ Starts(i) \subseteq 1..Len(fills)
<1>1. fills \in Seq(FillSet)
  BY DEF RTypes
<1>2. Len(fills) \in Nat /\ DOMAIN fills = 1..Len(fills)
      /\ \A f \in 1..Len(fills) : fills[f] \in FillSet
  BY <1>1
<1>3. \A f \in 1..Len(fills) : /\ fills[f].index \in Int
               /\ fills[f].kind \in Kinds /\ fills[f].side \in {"rhs", "lhs"}
               /\ fills[f].octs \in Seq(Oct) /\ fills[f].done \in BOOLEAN
  BY <1>2 DEF FillSet
<1> QED BY <1>2, <1>3 DEF Done, DoneIn, Starts

\* The sensors before a fill.
LEMMA RecPreFill ==
  ASSUME RInv, PreFill
  PROVE  RInv'
<1> DEFINE N == Len(fills)
           r == [kind |-> kind, side |-> side, index |-> LuaIndex, octs |-> <<>>, done |-> FALSE]
           Starting == Recorded /\ kind = "envelope" /\ side = "rhs"
<1>1. /\ has' = has /\ kind' = kind /\ doubled' = doubled /\ side' = side
      /\ char_code' = char_code /\ char_ext' = char_ext /\ octants' = octants
      /\ slices' = slices /\ pages' = pages /\ todo' = todo /\ ships' = ships /\ retro' = retro
      /\ pc = "pre" /\ pc' = "octants"
  BY DEF PreFill, engine, output
<1>2. RTypes /\ LuaIndex \in Int /\ N \in Nat /\ DOMAIN fills = 1..N /\ kind \in Kinds
      /\ side \in {"rhs", "lhs"} /\ LuaIndex' = LuaIndex
  BY <1>1, IndexInt, FillIs DEF RInv, RTypes, RecTypeOK, LuaIndex
<1>3. r \in FillSet /\ r.kind = kind /\ r.side = side /\ r.index = LuaIndex /\ r.octs = <<>>
      /\ r.done = FALSE
  BY <1>2 DEF FillSet
<1>4. fills' = Append(fills, r)
  BY DEF PreFill
<1> HIDE DEF r
<1>5. /\ fills' \in Seq(FillSet) /\ Len(fills') = N + 1 /\ DOMAIN fills' = 1..(N + 1)
      /\ fills'[N + 1] = r /\ \A f \in 1..N : fills'[f] = fills[f]
  BY <1>2, <1>3, <1>4 DEF RTypes
<1>6. chartable' = IF Starting THEN WithKnots(N + 1) ELSE chartable
  BY <1>5 DEF PreFill, Recorded
<1> HIDE DEF N
<1>7. FillsKept
  BY <1>2, <1>5 DEF FillsKept, N
<1>8. DoneKept
  <2>1. ASSUME NEW k \in Kinds PROVE Done(k)' = Done(k)
    <3>1. \A f \in 1..(N + 1) : f \in 1..N \/ f = N + 1
      BY <1>2
    <3>2. \A f \in 1..N : f \in 1..(N + 1)
      BY <1>2
    <3> QED BY <1>2, <1>3, <1>5, <3>1, <3>2 DEF Done
  <2> QED BY <1>2, <1>5, <2>1 DEF DoneKept
<1>9. /\ DOMAIN chartable \subseteq DOMAIN chartable' /\ DOMAIN chartable' \subseteq Int
      /\ chartable' \in [DOMAIN chartable' -> CharSet]
      /\ DOMAIN chartable' = IF Starting THEN DOMAIN chartable \cup {LuaIndex} ELSE DOMAIN chartable
      /\ \A j : (Char(j)').knots = IF Starting /\ j = LuaIndex
                                   THEN Append(Char(j).knots, N + 1) ELSE Char(j).knots
      /\ \A j : \A l \in Kinds : (Char(j)')[l] = Char(j)[l]
      /\ \A j : /\ (Char(j)').edges = Char(j).edges
                /\ (Char(j)').retrograde_line = Char(j).retrograde_line
  <2>1. CASE Starting
    <3>1. N + 1 \in Nat
      BY <1>2
    <3>2. chartable' = Store(LuaIndex, [Char(LuaIndex) EXCEPT !.knots = Append(@, N + 1)])
      BY <1>6, <2>1 DEF WithKnots
    <3> HIDE DEF Starting
    <3> QED BY <1>2, <2>1, <3>1, <3>2, KnotAdded
  <2>2. CASE ~Starting
    <3>1. chartable' = chartable
      BY <1>6, <2>2
    <3>2. \A j : Char(j)' = Char(j)
      BY <3>1 DEF Char
    <3> HIDE DEF Starting
    <3> QED BY <1>2, <2>2, <3>1, <3>2 DEF RTypes
  <2> QED BY <2>1, <2>2
<1>10. RTypes'
  <2>1. todo' \subseteq DOMAIN chartable' /\ \A i \in DOMAIN chartable' : DOMAIN chartable'[i] = DOMAIN Blank
    BY <1>1, <1>2, <1>9, CharFields DEF RTypes, RecTypeOK
  <2>2. outfile1' \in BOOLEAN
    BY <1>2 DEF PreFill, output, RTypes, RecTypeOK
  <2>3. RecTypeOK'
    BY <1>1, <1>2, <1>5, <2>1, <2>2 DEF RTypes, RecTypeOK, this
  <2> QED BY <1>1, <1>2, <1>5, <1>9, <2>3 DEF RTypes
<1>11. Current'
  <2>1. \A f \in 1..N : fills[f].done
    BY <1>1 DEF RInv, Current, N
  <2>2. Recorded /\ side = "lhs" => LuaIndex \in DOMAIN chartable
    BY <1>1 DEF RInv, Current
  <2>3. /\ pc' = "octants" /\ Len(fills') = N + 1 /\ N + 1 >= 1
        /\ \A f \in 1..N : fills'[f].done
        /\ fills'[N + 1].kind = kind' /\ fills'[N + 1].side = side' /\ ~fills'[N + 1].done
        /\ fills'[N + 1].index = LuaIndex' /\ (N + 1) - 1 = N
    BY <1>1, <1>2, <1>3, <1>5, <2>1
  <2>4. Recorded' /\ side' = "lhs" => LuaIndex' \in DOMAIN chartable'
    BY <1>1, <1>2, <1>9, <2>2 DEF Recorded
  <2> QED BY <2>3, <2>4 DEF Current
<1>12. Cut'
  <2> SUFFICES ASSUME Recorded', NEW k \in Kinds
               PROVE  NewSlice(k)' = Rest(k)' /\ Covered(slices'[k]) + Len(Rest(k)') = Len(octants'[k])
    BY DEF Cut
  <2>1. Rest(k) = <<>> /\ Rest(k)' = <<>>
    BY <1>1, <1>3, <1>5 DEF Rest
  <2>2. NewSlice(k) = Rest(k) /\ Covered(slices[k]) + Len(Rest(k)) = Len(octants[k])
    BY <1>1 DEF RInv, Cut, Recorded, Running
  <2>3. NewSlice(k)' = NewSlice(k)
    BY <1>1 DEF NewSlice
  <2> QED BY <1>1, <2>1, <2>2, <2>3
<1>13. SliceIsOneFill' /\ Curves'
  BY <1>1, <1>7, <1>8, <1>9, CurvesFrame DEF RInv
<1>14. Table'
  <2>1. ~Recorded' => DOMAIN chartable' = {}
    BY <1>1, <1>9 DEF RInv, Table, Recorded
  <2>2. ASSUME NEW i \in DOMAIN chartable' PROVE \E f \in DOMAIN fills' : fills'[f].index = i
    <3>1. CASE i \in DOMAIN chartable
      <4>1. PICK f \in DOMAIN fills : fills[f].index = i
        BY <3>1 DEF RInv, Table
      <4>2. f \in DOMAIN fills' /\ fills'[f].index = i
        BY <1>2, <1>5, <4>1
      <4> QED BY <4>2
    <3>2. CASE i = LuaIndex
      <4>1. N + 1 \in DOMAIN fills' /\ fills'[N + 1].index = i
        BY <1>2, <1>3, <1>5, <3>2
      <4> QED BY <4>1
    <3> QED BY <1>9, <3>1, <3>2
  <2>3. ASSUME Recorded', NEW f \in DOMAIN fills',
               fills'[f].done \/ (fills'[f].kind = "envelope" /\ fills'[f].side = "rhs")
        PROVE  fills'[f].index \in DOMAIN chartable'
    <3>1. CASE f \in 1..N
      <4>1. fills[f].index \in DOMAIN chartable
        BY <1>1, <1>2, <1>5, <2>3, <3>1 DEF RInv, Table, Recorded
      <4> QED BY <1>5, <1>9, <3>1, <4>1
    <3>2. CASE f = N + 1
      <4>1. Starting
        BY <1>1, <1>3, <1>5, <2>3, <3>2 DEF Recorded
      <4> QED BY <1>3, <1>5, <1>9, <3>2, <4>1
    <3> QED BY <1>2, <1>5, <3>1, <3>2
  <2> QED BY <2>1, <2>2, <2>3 DEF Table
<1>15. Knots'
  <2> SUFFICES ASSUME Recorded, NEW i \in Int PROVE Lists(Char(i).knots, Starts(i))'
    BY <1>1 DEF Knots, Recorded
  <2>1. Lists(Char(i).knots, Starts(i)) /\ Starts(i) \subseteq 1..N /\ Char(i).knots \in Seq(Nat)
    BY <1>2, FillIs, CharIs, CharFields DEF RInv, Knots, N
  <2>2. CASE Starting /\ i = LuaIndex
    <3>1. Starts(i)' = Starts(i) \cup {N + 1}
      <4>1. \A f \in 1..(N + 1) : f \in 1..N \/ f = N + 1
        BY <1>2
      <4>2. N + 1 \in 1..(N + 1) /\ \A f \in 1..N : f \in 1..(N + 1)
        BY <1>2
      <4> QED BY <1>2, <1>3, <1>5, <2>2, <4>1, <4>2 DEF Starts
    <3>2. (Char(i)').knots = Append(Char(i).knots, N + 1)
      BY <1>9, <2>2
    <3> DEFINE F == Starts(i)  G == F \cup {N + 1}  q == Char(i).knots
    <3>3. /\ Len(Append(q, N + 1)) = Cardinality(G) /\ Append(q, N + 1)[Place(N + 1, G)] = N + 1
          /\ \A f \in F : Append(q, N + 1)[Place(f, G)] = q[Place(f, F)]
      <4>1. Listed(Nat, N, F, q) /\ N + 1 \in Nat
        BY <1>2, <2>1 DEF Lists, Listed
      <4> HIDE DEF F, q
      <4>2. Pushed(Nat, N, F, q, N + 1)
        BY <4>1, ListPush
      <4> QED BY <4>2 DEF Pushed
    <3>4. \A f \in F : q[Place(f, F)] = f
      BY <2>1 DEF Lists
    <3> HIDE DEF F, q
    <3>5. Lists(Append(q, N + 1), G)
      BY <3>3, <3>4 DEF Lists
    <3> QED BY <3>1, <3>2, <3>5 DEF Lists, F, q
  <2>3. CASE ~(Starting /\ i = LuaIndex)
    <3>1. Starts(i)' = Starts(i)
      <4>1. \A f \in 1..(N + 1) : f \in 1..N \/ f = N + 1
        BY <1>2
      <4>2. \A f \in 1..N : f \in 1..(N + 1)
        BY <1>2
      <4> QED BY <1>2, <1>3, <1>5, <2>3, <4>1, <4>2 DEF Starts
    <3>2. (Char(i)').knots = Char(i).knots
      BY <1>9, <2>3
    <3> QED BY <2>1, <3>1, <3>2 DEF Lists
  <2> QED BY <2>2, <2>3
<1>16. Lines'
  BY <1>1, <1>9, LinesFrame DEF RInv
<1>17. ASSUME Codes \subseteq Nat PROVE Edges' /\ Written'
  <2>1. \A f \in DOMAIN fills' : fills'[f].index \in Nat
    <3>1. LuaIndex \in Nat /\ \A f \in 1..N : fills[f].index \in Nat
      BY <1>2, <1>17, IndexInt DEF RInv, Edges
    <3>2. \A f \in 1..(N + 1) : f \in 1..N \/ f = N + 1
      BY <1>2
    <3> QED BY <1>3, <1>5, <3>1, <3>2
  <2>2. Edges'
    BY <1>1, <1>2, <1>7, <1>9, <1>17, <2>1, EdgesFrame DEF RInv, RTypes
  <2>3. Written'
    <3>1. Running /\ Running' /\ pages' = pages /\ todo' = todo
      BY <1>1 DEF Running, output
    <3> QED BY <1>17, <3>1, WrittenFrame DEF RInv
  <2> QED BY <2>2, <2>3
<1> QED BY <1>10, <1>11, <1>12, <1>13, <1>14, <1>15, <1>16, <1>17 DEF RInv

-----------------------------------------------------------------------------
(* A fill goes on.                                                         *)

\* What is known of one fill changes.
LEMMA FillChange ==
  ASSUME RTypes, NEW n \in 1..Len(fills), NEW r \in FillSet, fills' = [fills EXCEPT ![n] = r]
  PROVE  /\ fills' \in Seq(FillSet) /\ Len(fills') = Len(fills) /\ DOMAIN fills' = 1..Len(fills)
         /\ fills'[n] = r /\ \A f \in 1..Len(fills) : f # n => fills'[f] = fills[f]
<1>1. fills \in Seq(FillSet)
  BY DEF RTypes
<1> QED BY <1>1

\* It has other octants, or is done.
LEMMA FillFields ==
  ASSUME NEW r \in FillSet
  PROVE  /\ \A o \in Seq(Oct) : LET d == [r EXCEPT !.octs = o] IN
               /\ d \in FillSet /\ d.octs = o /\ d.kind = r.kind /\ d.side = r.side
               /\ d.index = r.index /\ d.done = r.done
         /\ LET d == [r EXCEPT !.done = TRUE] IN
               /\ d \in FillSet /\ d.octs = r.octs /\ d.kind = r.kind /\ d.side = r.side
               /\ d.index = r.index /\ d.done = TRUE
  BY DEF FillSet

\* How much of the octants the slices cover.
LEMMA CoveredIs ==
  ASSUME RTypes, Cut, Recorded, Running, NEW k \in Kinds
  PROVE  /\ Covered(slices[k]) \in Nat /\ Covered(slices[k]) <= Len(octants[k])
         /\ octants[k] \in Seq(Oct) /\ slices[k] \in Seq(Seq(Oct)) /\ Rest(k) \in Seq(Oct)
         /\ NewSlice(k) = Rest(k) /\ Covered(slices[k]) + Len(Rest(k)) = Len(octants[k])
<1>1. octants[k] \in Seq(Oct) /\ slices[k] \in Seq(Seq(Oct)) /\ <<>> \in Seq(Oct)
  BY DEF RTypes
<1>2. Covered(slices[k]) \in Nat
  BY <1>1, CoveredPush
<1>3. NewSlice(k) = Rest(k) /\ Covered(slices[k]) + Len(Rest(k)) = Len(octants[k])
  BY DEF Cut
<1>4. Rest(k) \in Seq(Oct)
  <2>1. pc = "octants" => Len(fills) > 0
    BY DEF RTypes, RecTypeOK, this, output
  <2>2. pc = "octants" => Len(fills) \in 1..Len(fills)
    BY <2>1, FillIs
  <2> QED BY <1>1, <2>2, FillIs DEF Rest
<1> QED BY <1>1, <1>2, <1>3, <1>4

\* An octant is recorded.
LEMMA RecOctant ==
  ASSUME RInv, Octant
  PROVE  RInv'
<1> DEFINE N == Len(fills)
           new == <<N, Len(fills[N].octs) + 1>>
           o == Append(fills[N].octs, new)
           r == [fills[N] EXCEPT !.octs = o]
<1>1. /\ has' = has /\ kind' = kind /\ doubled' = doubled /\ side' = side
      /\ char_code' = char_code /\ char_ext' = char_ext /\ chartable' = chartable
      /\ slices' = slices /\ pages' = pages /\ todo' = todo /\ ships' = ships /\ retro' = retro
      /\ pc = "octants" /\ pc' = pc
  BY DEF Octant, engine, output
<1>2. RTypes /\ LuaIndex \in Int /\ N \in Nat /\ DOMAIN fills = 1..N /\ kind \in Kinds
      /\ side \in {"rhs", "lhs"} /\ LuaIndex' = LuaIndex /\ N \in 1..N
  <2>1. N > 0
    BY <1>1 DEF RInv, RTypes, RecTypeOK, this
  <2> QED BY <1>1, <2>1, IndexInt, FillIs DEF RInv, RTypes, RecTypeOK, LuaIndex
<1>3. fills[N] \in FillSet /\ fills[N].octs \in Seq(Oct) /\ new \in Oct /\ o \in Seq(Oct)
  <2>1. fills[N] \in FillSet /\ fills[N].octs \in Seq(Oct)
    BY <1>2, FillIs
  <2>2. Len(fills[N].octs) + 1 \in Nat
    BY <2>1
  <2>3. new \in Oct
    BY <1>2, <2>2 DEF Oct
  <2> HIDE DEF new
  <2> QED BY <2>1, <2>3
<1>4. /\ fills' = [fills EXCEPT ![N] = r]
      /\ octants' = [octants EXCEPT ![kind] = Append(@, new)]
  BY DEF Octant, this
<1>5. /\ r \in FillSet /\ r.octs = o /\ r.kind = fills[N].kind /\ r.side = fills[N].side
      /\ r.index = fills[N].index /\ r.done = fills[N].done
  <2> HIDE DEF o
  <2> QED BY <1>3, FillFields
<1> HIDE DEF r
<1>6. /\ fills' \in Seq(FillSet) /\ Len(fills') = N /\ DOMAIN fills' = 1..N
      /\ fills'[N] = r /\ \A f \in 1..N : f # N => fills'[f] = fills[f]
  BY <1>2, <1>4, <1>5, FillChange
<1>7. /\ octants' \in [Kinds -> Seq(Oct)] /\ octants'[kind] = Append(octants[kind], new)
      /\ \A k \in Kinds : k # kind => octants'[k] = octants[k]
  <2>1. octants \in [Kinds -> Seq(Oct)]
    BY <1>2 DEF RTypes
  <2> HIDE DEF new
  <2> QED BY <1>2, <1>3, <1>4, <2>1
<1> HIDE DEF N, o, new
<1>8. /\ ~fills[N].done /\ fills[N].kind = kind /\ fills[N].side = side
      /\ fills[N].index = LuaIndex /\ \A f \in 1..(N - 1) : fills[f].done
  BY <1>1 DEF RInv, Current, N
<1>9. FillsKept
  <2>1. \A f \in 1..N : /\ fills'[f].index = fills[f].index /\ fills'[f].kind = fills[f].kind
                        /\ fills'[f].side = fills[f].side
    BY <1>5, <1>6
  <2>2. Len(fills') >= Len(fills)
    <3>1. Len(fills') = N
      BY <1>6
    <3>2. Len(fills) = N /\ N \in Nat
      BY <1>2 DEF N
    <3> QED BY <3>1, <3>2
  <2> QED BY <1>2, <1>6, <2>1, <2>2 DEF FillsKept
<1>10. DoneKept
  <2>1. ASSUME NEW k \in Kinds PROVE Done(k)' = Done(k)
    BY <1>2, <1>5, <1>6, <1>8 DEF Done
  <2> QED BY <1>2, <1>6, <1>8, <2>1 DEF DoneKept
<1>11. \A j : Char(j)' = Char(j)
  BY <1>1 DEF Char
<1>12. RTypes'
  <2>1. outfile1' \in BOOLEAN
    BY <1>2 DEF Octant, output, RTypes, RecTypeOK
  <2>2. RecTypeOK'
    BY <1>1, <1>2, <1>6, <2>1 DEF RTypes, RecTypeOK, this
  <2> QED BY <1>1, <1>2, <1>6, <1>7, <2>2 DEF RTypes
<1>13. Current'
  <2>1. \A f \in 1..(N - 1) : f \in 1..N /\ f # N
    BY <1>2
  <2>2. \A f \in 1..(N - 1) : fills'[f].done
    BY <1>6, <1>8, <2>1
  <2>3. /\ N >= 1 /\ fills'[N].kind = kind' /\ fills'[N].side = side' /\ ~fills'[N].done
        /\ fills'[N].index = LuaIndex'
    BY <1>1, <1>2, <1>5, <1>6, <1>8
  <2>4. Recorded' /\ side' = "lhs" => LuaIndex' \in DOMAIN chartable'
    BY <1>1, <1>2 DEF RInv, Current, Recorded
  <2> QED BY <1>1, <1>6, <2>2, <2>3, <2>4 DEF Current
<1>14. Cut'
  <2> SUFFICES ASSUME Recorded', NEW k \in Kinds
               PROVE  NewSlice(k)' = Rest(k)' /\ Covered(slices'[k]) + Len(Rest(k)') = Len(octants'[k])
    BY DEF Cut
  <2>1. /\ Covered(slices[k]) \in Nat /\ Covered(slices[k]) <= Len(octants[k])
        /\ octants[k] \in Seq(Oct)
        /\ NewSlice(k) = Rest(k) /\ Covered(slices[k]) + Len(Rest(k)) = Len(octants[k])
    BY <1>1, <1>2, CoveredIs DEF RInv, Recorded, Running
  <2>2. CASE k = kind
    <3>1. Rest(k) = fills[N].octs /\ Rest(k)' = o
      BY <1>1, <1>5, <1>6, <2>2 DEF Rest, N
    <3>2. SubSeq(Append(octants[k], new), Covered(slices[k]) + 1, Len(octants[k]) + 1)
            = Append(SubSeq(octants[k], Covered(slices[k]) + 1, Len(octants[k])), new)
      <4> DEFINE q == octants[k]  m == Covered(slices[k])
      <4>1. m \in Nat /\ m <= Len(q) /\ q \in Seq(Oct) /\ new \in Oct
        BY <1>3, <2>1
      <4> HIDE DEF q, m
      <4>2. SubSeq(Append(q, new), m + 1, Len(q) + 1) = Append(SubSeq(q, m + 1, Len(q)), new)
        BY <4>1, Parts
      <4> QED BY <4>2 DEF q, m
    <3>3. Len(Append(octants[k], new)) = Len(octants[k]) + 1
      BY <1>3, <2>1
    <3>4. NewSlice(k)' = Append(NewSlice(k), new)
      BY <1>1, <1>7, <2>2, <3>2, <3>3 DEF NewSlice
    <3>5. NewSlice(k)' = o
      BY <2>1, <3>1, <3>4 DEF o
    <3>6. Len(o) = Len(fills[N].octs) + 1 /\ Len(fills[N].octs) \in Nat
      BY <1>3 DEF o
    <3>7. Len(octants'[k]) = Len(octants[k]) + 1
      BY <1>7, <2>2, <3>3
    <3>8. Covered(slices'[k]) = Covered(slices[k])
      BY <1>1
    <3>9. NewSlice(k)' = Rest(k)'
      BY <3>1, <3>5
    <3>10. Covered(slices'[k]) + Len(o) = Len(octants'[k])
      <4>1. Covered(slices[k]) + Len(fills[N].octs) = Len(octants[k])
        BY <2>1, <3>1
      <4> DEFINE x == Covered(slices[k])  y == Len(fills[N].octs)  z == Len(octants[k])
      <4>2. x \in Nat /\ y \in Nat /\ x + y = z
        BY <2>1, <3>6, <4>1
      <4>3. Len(o) = y + 1 /\ Len(octants'[k]) = z + 1 /\ Covered(slices'[k]) = x
        BY <3>6, <3>7, <3>8
      <4> HIDE DEF x, y, z
      <4> QED BY <4>2, <4>3
    <3> QED BY <3>1, <3>9, <3>10
  <2>3. CASE k # kind
    <3>1. Rest(k) = <<>> /\ Rest(k)' = <<>>
      BY <1>1, <2>3 DEF Rest
    <3>2. NewSlice(k)' = NewSlice(k)
      BY <1>1, <1>7, <2>3 DEF NewSlice
    <3> QED BY <1>1, <1>7, <2>1, <2>3, <3>1, <3>2
  <2> QED BY <2>2, <2>3
<1>15. SliceIsOneFill' /\ Curves'
  BY <1>1, <1>9, <1>10, <1>11, CurvesFrame DEF RInv
<1>16. Table'
  <2>1. \A f \in 1..N : /\ fills'[f].index = fills[f].index /\ fills'[f].kind = fills[f].kind
                        /\ fills'[f].side = fills[f].side /\ fills'[f].done = fills[f].done
    BY <1>5, <1>6
  <2> QED BY <1>1, <1>2, <1>6, <2>1 DEF RInv, Table, Recorded
<1>17. Knots'
  BY <1>1, <1>2, <1>6, <1>9, <1>11, KnotsFrame DEF RInv, RTypes, N
<1>18. Lines'
  BY <1>1, <1>11, LinesFrame DEF RInv
<1>19. ASSUME Codes \subseteq Nat PROVE Edges' /\ Written'
  <2>1. \A f \in DOMAIN fills' : fills'[f].index \in Nat
    BY <1>2, <1>5, <1>6, <1>19 DEF RInv, Edges
  <2>2. Edges'
    BY <1>1, <1>2, <1>9, <1>11, <1>19, <2>1, EdgesFrame DEF RInv, RTypes
  <2>3. Written'
    <3>1. Running /\ Running' /\ pages' = pages /\ todo' = todo
      BY <1>1 DEF Running, output
    <3> QED BY <1>19, <3>1, WrittenFrame DEF RInv
  <2> QED BY <2>2, <2>3
<1> QED BY <1>12, <1>13, <1>14, <1>15, <1>16, <1>17, <1>18, <1>19 DEF RInv

\* A step that leaves the fills as they are and changes other fields of the
\* table than the curves and the knots.
LEMMA FillsSame ==
  ASSUME RInv, has' = has, slices' = slices, octants' = octants, fills' = fills, pc' = pc,
         kind' = kind, side' = side, LuaIndex' = LuaIndex,
         DOMAIN chartable' = DOMAIN chartable,
         \A j : \A l \in Kinds : (Char(j)')[l] = Char(j)[l],
         \A j : (Char(j)').knots = Char(j).knots
  PROVE  /\ FillsKept /\ Current' /\ Cut' /\ SliceIsOneFill' /\ Table' /\ Curves' /\ Knots'
<1>1. RTypes /\ fills \in Seq(FillSet) /\ Len(fills) \in Nat /\ DOMAIN fills = 1..Len(fills)
  BY FillIs DEF RInv, RTypes
<1>2. FillsKept
  BY <1>1 DEF FillsKept
<1>3. DoneKept
  BY DEF DoneKept, Done
<1>4. Current'
  BY DEF RInv, Current, Recorded
<1>5. Cut'
  BY DEF RInv, Cut, Recorded, Running, NewSlice, Rest
<1>6. SliceIsOneFill' /\ Curves'
  BY <1>2, <1>3, CurvesFrame DEF RInv
<1>7. Table'
  BY DEF RInv, Table, Recorded
<1>8. Knots'
  BY <1>1, <1>2, KnotsFrame DEF RInv
<1> QED BY <1>2, <1>4, <1>5, <1>6, <1>7, <1>8

\* The types, when only the table and the ghosts of lines and characters change.
LEMMA TypesSame ==
  ASSUME RTypes, UNCHANGED <<has, pc, engine, octants, slices, output, fills>>,
         DOMAIN chartable' = DOMAIN chartable, chartable' \in [DOMAIN chartable' -> CharSet],
         ships' \in Seq(ShipSet), retro' \in Seq(Int)
  PROVE  RTypes'
<1>1. /\ has' = has /\ pc' = pc /\ kind' = kind /\ doubled' = doubled /\ side' = side
      /\ char_code' = char_code /\ char_ext' = char_ext /\ octants' = octants
      /\ slices' = slices /\ pages' = pages /\ todo' = todo /\ fills' = fills
  BY DEF engine, output
<1>2. \A i \in DOMAIN chartable' : DOMAIN chartable'[i] = DOMAIN Blank
  BY CharFields
<1>3. RecTypeOK'
  BY <1>1, <1>2 DEF RTypes, RecTypeOK, this, output
<1> QED BY <1>1, <1>3 DEF RTypes

\* A retrograde line is recorded.
LEMMA RecRetrograde ==
  ASSUME RInv, Retrograde
  PROVE  RInv'
<1> DEFINE N == Len(retro)
<1>1. /\ UNCHANGED <<has, pc, engine, octants, slices, output, fills>> /\ ships' = ships
      /\ has' = has /\ kind' = kind /\ side' = side /\ LuaIndex' = LuaIndex
      /\ pages' = pages /\ todo' = todo /\ pc = "octants" /\ kind = "envelope"
      /\ retro' = Append(retro, LuaIndex)
      /\ chartable' = IF LuaIndex \in DOMAIN chartable
                      THEN [chartable EXCEPT ![LuaIndex].retrograde_line = @ + 1] ELSE chartable
  BY DEF Retrograde, engine, output, LuaIndex
<1>2. RTypes /\ LuaIndex \in Int /\ ships \in Seq(ShipSet) /\ retro \in Seq(Int) /\ N \in Nat
      /\ fills \in Seq(FillSet)
  BY IndexInt DEF RInv, RTypes
<1>3. /\ retro' \in Seq(Int) /\ DOMAIN retro = 1..N /\ DOMAIN retro' = 1..(N + 1)
      /\ retro'[N + 1] = LuaIndex /\ \A m \in 1..N : retro'[m] = retro[m]
  BY <1>1, <1>2
<1>4. Recorded => LuaIndex \in DOMAIN chartable
  <2> HAVE Recorded
  <2>1. Len(fills) \in 1..Len(fills) /\ DOMAIN fills = 1..Len(fills)
    <3>1. Len(fills) > 0
      BY <1>1, <1>2 DEF RTypes, RecTypeOK, this, output
    <3> QED BY <1>2, <3>1, FillIs
  <2>2. /\ fills[Len(fills)].kind = "envelope" /\ fills[Len(fills)].side = side
        /\ fills[Len(fills)].index = LuaIndex
    BY <1>1 DEF RInv, Current
  <2>3. side \in {"rhs", "lhs"}
    BY <1>2 DEF RTypes, RecTypeOK
  <2>4. CASE side = "lhs"
    BY <1>1, <2>4 DEF RInv, Current
  <2>5. CASE side = "rhs"
    BY <2>1, <2>2, <2>5 DEF RInv, Table
  <2> QED BY <2>3, <2>4, <2>5
<1>5. /\ DOMAIN chartable' = DOMAIN chartable /\ DOMAIN chartable' \subseteq Int
      /\ chartable' \in [DOMAIN chartable' -> CharSet]
      /\ \A j : \A l \in Kinds : (Char(j)')[l] = Char(j)[l]
      /\ \A j : (Char(j)').edges = Char(j).edges /\ (Char(j)').knots = Char(j).knots
      /\ \A j : (Char(j)').retrograde_line = IF LuaIndex \in DOMAIN chartable /\ j = LuaIndex
                                             THEN Char(j).retrograde_line + 1
                                             ELSE Char(j).retrograde_line
  <2>1. CASE LuaIndex \in DOMAIN chartable
    <3>1. chartable' = [chartable EXCEPT ![LuaIndex].retrograde_line = @ + 1]
      BY <1>1, <2>1
    <3> QED BY <1>2, <2>1, <3>1, LineAdded
  <2>2. CASE LuaIndex \notin DOMAIN chartable
    <3>1. chartable' = chartable
      BY <1>1, <2>2
    <3>2. \A j : Char(j)' = Char(j)
      BY <3>1 DEF Char
    <3> QED BY <1>2, <2>2, <3>1, <3>2 DEF RTypes
  <2> QED BY <2>1, <2>2
<1> HIDE DEF N
<1>6. RTypes'
  BY <1>1, <1>2, <1>3, <1>5, TypesSame
<1>7. FillsKept /\ Current' /\ Cut' /\ SliceIsOneFill' /\ Table' /\ Curves' /\ Knots'
  BY <1>1, <1>5, FillsSame
<1>8. Lines'
  <2> SUFFICES ASSUME Recorded
               PROVE  /\ \A m \in DOMAIN retro' : retro'[m] \in DOMAIN chartable'
                      /\ \A i \in Int : (Char(i)').retrograde_line = Cardinality(Seen(i)')
    BY <1>1 DEF Lines, Recorded
  <2>1. Lines
    BY DEF RInv
  <2>2. \A m \in DOMAIN retro' : retro'[m] \in DOMAIN chartable'
    <3> SUFFICES ASSUME NEW m \in 1..(N + 1) PROVE retro'[m] \in DOMAIN chartable
      BY <1>3, <1>5
    <3>1. CASE m \in 1..N
      BY <1>3, <2>1, <3>1 DEF Lines
    <3>2. CASE m = N + 1
      BY <1>3, <1>4, <3>2
    <3> QED BY <1>2, <3>1, <3>2
  <2>3. ASSUME NEW i \in Int PROVE (Char(i)').retrograde_line = Cardinality(Seen(i)')
    <3>1. Seen(i) \subseteq 1..N /\ Char(i).retrograde_line = Cardinality(Seen(i))
      BY <1>3, <2>1 DEF Lines, Seen
    <3>2. CASE i = LuaIndex
      <4>1. Seen(i)' = Seen(i) \cup {N + 1}
        BY <1>2, <1>3, <3>2 DEF Seen
      <4>2. Cardinality(Seen(i) \cup {N + 1}) = Cardinality(Seen(i)) + 1
        BY <1>2, <3>1, Count
      <4> QED BY <1>4, <1>5, <3>1, <3>2, <4>1, <4>2
    <3>3. CASE i # LuaIndex
      <4>1. Seen(i)' = Seen(i)
        BY <1>2, <1>3, <3>3 DEF Seen
      <4> QED BY <1>5, <3>1, <3>3, <4>1
    <3> QED BY <3>2, <3>3
  <2> QED BY <2>2, <2>3
<1>9. ASSUME Codes \subseteq Nat PROVE Edges' /\ Written'
  <2>1. \A f \in DOMAIN fills' : fills'[f].index \in Nat
    BY <1>1, <1>9 DEF RInv, Edges
  <2>2. Edges'
    BY <1>1, <1>2, <1>5, <1>7, <1>9, <2>1, EdgesFrame DEF RInv
  <2>3. Written'
    <3>1. Running /\ Running' /\ pages' = pages /\ todo' = todo
      BY <1>1 DEF Running, output
    <3> QED BY <1>9, <3>1, WrittenFrame DEF RInv
  <2> QED BY <2>2, <2>3
<1> QED BY <1>6, <1>7, <1>8, <1>9 DEF RInv

-----------------------------------------------------------------------------
(* A character is shipped.                                                 *)

\* The character that is shipped is the one that its fills were recorded for.
LEMMA RecShipOut ==
  ASSUME RInv, ship_out
  PROVE  RInv'
<1> DEFINE N == Len(ships)  b == [char |-> boc_c, index |-> LuaIndex, fills |-> Len(fills)]
<1>1. /\ UNCHANGED <<has, pc, engine, octants, slices, output, fills>> /\ retro' = retro
      /\ has' = has /\ kind' = kind /\ side' = side /\ LuaIndex' = LuaIndex
      /\ pages' = pages /\ todo' = todo /\ fills' = fills /\ pc = "idle"
      /\ ships' = Append(ships, b)
      /\ chartable' = IF "print_edges" \in has /\ LuaIndex \in DOMAIN chartable
                      THEN [chartable EXCEPT ![LuaIndex].edges = @ + 1] ELSE chartable
  BY DEF ship_out, engine, output, LuaIndex
<1>2. RTypes /\ LuaIndex \in Int /\ boc_c \in Int /\ ships \in Seq(ShipSet) /\ retro \in Seq(Int)
      /\ N \in Nat /\ Len(fills) \in Nat /\ DOMAIN fills = 1..Len(fills)
  <2>1. char_code \in Int /\ char_ext \in Nat /\ Byte \in Nat \ {0}
    BY RecorderAssumption DEF RecorderAssumption, RInv, RTypes, RecTypeOK
  <2>2. char_code % Byte \in Int /\ Byte * char_ext \in Int
    BY <2>1
  <2>3. boc_c \in Int
    BY <2>2 DEF boc_c
  <2> QED BY <2>3, IndexInt, FillIs DEF RInv, RTypes
<1>3. b \in ShipSet /\ b.char = boc_c /\ b.index = LuaIndex /\ b.fills = Len(fills)
  BY <1>2 DEF ShipSet
<1> HIDE DEF b
<1>4. /\ ships' \in Seq(ShipSet) /\ DOMAIN ships = 1..N /\ DOMAIN ships' = 1..(N + 1)
      /\ ships'[N + 1] = b /\ \A m \in 1..N : ships'[m] = ships[m]
  BY <1>1, <1>2, <1>3
<1> HIDE DEF N
<1> DEFINE Seeing == "print_edges" \in has /\ LuaIndex \in DOMAIN chartable
<1>5. /\ DOMAIN chartable' = DOMAIN chartable /\ DOMAIN chartable' \subseteq Int
      /\ chartable' \in [DOMAIN chartable' -> CharSet]
      /\ \A j : \A l \in Kinds : (Char(j)')[l] = Char(j)[l]
      /\ \A j : /\ (Char(j)').knots = Char(j).knots
                /\ (Char(j)').retrograde_line = Char(j).retrograde_line
      /\ \A j : (Char(j)').edges = IF Seeing /\ j = LuaIndex
                                   THEN Char(j).edges + 1 ELSE Char(j).edges
  <2>1. CASE Seeing
    <3>1. chartable' = [chartable EXCEPT ![LuaIndex].edges = @ + 1] /\ LuaIndex \in DOMAIN chartable
      BY <1>1, <2>1
    <3> HIDE DEF Seeing
    <3> QED BY <1>2, <2>1, <3>1, EdgeAdded
  <2>2. CASE ~Seeing
    <3>1. chartable' = chartable
      BY <1>1, <2>2
    <3>2. \A j : Char(j)' = Char(j)
      BY <3>1 DEF Char
    <3> HIDE DEF Seeing
    <3> QED BY <1>2, <2>2, <3>1, <3>2 DEF RTypes
  <2> QED BY <2>1, <2>2
<1>6. RTypes'
  BY <1>1, <1>2, <1>4, <1>5, TypesSame
<1>7. FillsKept /\ Current' /\ Cut' /\ SliceIsOneFill' /\ Table' /\ Curves' /\ Knots'
  BY <1>1, <1>5, FillsSame
<1>8. Lines'
  BY <1>1, <1>5, LinesFrame DEF RInv
<1>9. ASSUME Codes \subseteq Nat PROVE Edges'
  <2>1. Edges /\ boc_c = LuaIndex
    BY <1>2, <1>9, IndexInt DEF RInv
  <2>2. \A s \in DOMAIN ships' : ships'[s].fills <= Len(fills')
    BY <1>1, <1>2, <1>3, <1>4, <2>1 DEF Edges
  <2>3. ASSUME Complete, NEW f \in DOMAIN fills, Shipped(f)'
        PROVE  fills[f].index \in DOMAIN chartable /\ (Char(fills[f].index).edges)' >= 1
    <3> DEFINE i == fills[f].index
    <3>1. PICK s \in DOMAIN ships' : ships'[s].char = i /\ ships'[s].fills >= f
      BY <1>1, <2>3 DEF Shipped
    <3>2. /\ Recorded /\ "print_edges" \in has /\ f \in 1..Len(fills)
          /\ \A j : Char(j).edges \in Nat
      BY <1>2, <2>3, CharIs, CharFields DEF Complete, Recorded
    <3>3. i \in DOMAIN chartable
      <4>1. fills[f].done
        BY <1>1, <3>2 DEF RInv, Current
      <4> QED BY <2>3, <3>2, <4>1 DEF RInv, Table
    <3> PICK j : j = i
      OBVIOUS
    <3> HIDE DEF i
    <3>4. (Char(j)').edges >= 1
      <4>1. CASE s = N + 1
        <5>1. j = LuaIndex /\ Seeing
          BY <1>3, <1>4, <2>1, <3>1, <3>2, <3>3, <4>1
        <5> QED BY <1>5, <3>2, <5>1
      <4>2. CASE s \in 1..N
        <5>1. Shipped(f)
          BY <1>4, <3>1, <4>2 DEF Shipped, i
        <5>2. chartable[i].edges >= 1
          BY <2>1, <2>3, <5>1 DEF Edges, i
        <5>3. Char(j).edges >= 1
          BY <3>3, <5>2 DEF Char
        <5> QED BY <1>5, <3>2, <5>3
      <4> QED BY <1>2, <1>4, <4>1, <4>2
    <3> QED BY <1>1, <3>3, <3>4 DEF i
  <2> QED BY <1>1, <1>5, <2>1, <2>2, <2>3 DEF Edges, Complete, Char
<1>10. ASSUME Codes \subseteq Nat PROVE Written'
  <2>1. Running /\ Running' /\ pages' = pages /\ todo' = todo
    BY <1>1 DEF Running, output
  <2> QED BY <1>10, <2>1, WrittenFrame DEF RInv
<1> QED BY <1>6, <1>7, <1>8, <1>9, <1>10 DEF RInv

-----------------------------------------------------------------------------
(* A fill ends.                                                            *)

\* The sensors after a fill: what no slice covers are its octants.
LEMMA RecPostFill ==
  ASSUME RInv, PostFill
  PROVE  RInv'
<1> DEFINE N == Len(fills)  e == fills[N].octs  r == [fills[N] EXCEPT !.done = TRUE]
<1>1. /\ has' = has /\ kind' = kind /\ doubled' = doubled /\ side' \in {"rhs", "lhs"}
      /\ char_code' = char_code /\ char_ext' = char_ext /\ octants' = octants
      /\ pages' = pages /\ todo' = todo /\ ships' = ships /\ retro' = retro
      /\ pc = "octants" /\ pc' \in {"idle", "pre"} /\ LuaIndex' = LuaIndex
      /\ fills' = [fills EXCEPT ![N] = r]
      /\ Recorded => /\ slices' = [slices EXCEPT ![kind] = Append(@, NewSlice(kind))]
                     /\ chartable' = AddSlice(kind, NewSlice(kind))
      /\ ~Recorded => slices' = slices /\ chartable' = chartable
  <2>1. side \in {"rhs", "lhs"}
    BY DEF RInv, RTypes, RecTypeOK
  <2> QED BY <2>1 DEF PostFill, NextPath, output, LuaIndex, Recorded, this
<1>2. /\ RTypes /\ LuaIndex \in Int /\ N \in Nat /\ DOMAIN fills = 1..N /\ kind \in Kinds
      /\ N \in 1..N /\ N - 1 \in Nat /\ N = (N - 1) + 1 /\ N \notin 1..(N - 1)
      /\ \A f \in 1..N : f = N \/ f \in 1..(N - 1)
  <2>1. N > 0
    BY <1>1 DEF RInv, RTypes, RecTypeOK, this
  <2> QED BY <2>1, IndexInt, FillIs DEF RInv, RTypes, RecTypeOK
<1>3. fills[N] \in FillSet /\ e \in Seq(Oct)
  BY <1>2, FillIs
<1>4. /\ r \in FillSet /\ r.octs = e /\ r.kind = fills[N].kind /\ r.side = fills[N].side
      /\ r.index = fills[N].index /\ r.done = TRUE
  BY <1>3, FillFields
<1> HIDE DEF r
<1>5. /\ fills' \in Seq(FillSet) /\ Len(fills') = N /\ DOMAIN fills' = 1..N
      /\ fills'[N] = r /\ \A f \in 1..N : f # N => fills'[f] = fills[f]
  BY <1>1, <1>2, <1>4, FillChange
<1>6. /\ ~fills[N].done /\ fills[N].kind = kind /\ fills[N].side = side
      /\ fills[N].index = LuaIndex /\ \A f \in 1..(N - 1) : fills[f].done
  BY <1>1 DEF RInv, Current
<1>7. ASSUME Recorded, NEW k \in Kinds
      PROVE  /\ Covered(slices[k]) \in Nat /\ Covered(slices[k]) <= Len(octants[k])
             /\ octants[k] \in Seq(Oct) /\ slices[k] \in Seq(Seq(Oct))
             /\ NewSlice(k) = Rest(k) /\ Covered(slices[k]) + Len(Rest(k)) = Len(octants[k])
             /\ Rest(k) = IF k = kind THEN e ELSE <<>>
  <2>1. Rest(k) = IF k = kind THEN e ELSE <<>>
    BY <1>1 DEF Rest
  <2> HIDE DEF e
  <2> QED BY <1>1, <1>2, <1>7, <2>1, CoveredIs DEF RInv, Running
<1> HIDE DEF e
<1>8. Recorded => /\ slices' = [slices EXCEPT ![kind] = Append(@, e)]
                  /\ chartable' = Store(LuaIndex, [Char(LuaIndex) EXCEPT ![kind] = Append(@, e)])
  <2> HAVE Recorded
  <2>1. NewSlice(kind) = e
    BY <1>2, <1>7
  <2> QED BY <1>1, <2>1 DEF AddSlice
<1>9. /\ DOMAIN chartable \subseteq DOMAIN chartable' /\ DOMAIN chartable' \subseteq Int
      /\ chartable' \in [DOMAIN chartable' -> CharSet]
      /\ DOMAIN chartable' = IF Recorded THEN DOMAIN chartable \cup {LuaIndex} ELSE DOMAIN chartable
      /\ \A j : (Char(j)').knots = Char(j).knots
      /\ \A j : (Char(j)').edges = Char(j).edges
      /\ \A j : (Char(j)').retrograde_line = Char(j).retrograde_line
      /\ Recorded => \A j : \A l \in Kinds : (Char(j)')[l] = IF j = LuaIndex /\ l = kind
                                        THEN Append(Char(j)[l], e) ELSE Char(j)[l]
  <2>1. CASE Recorded
    <3>1. chartable' = Store(LuaIndex, [Char(LuaIndex) EXCEPT ![kind] = Append(@, e)])
      BY <1>8, <2>1
    <3> DEFINE i == LuaIndex  k == kind
    <3>2. i \in Int /\ k \in Kinds /\ RTypes
          /\ chartable' = Store(i, [Char(i) EXCEPT ![k] = Append(@, e)])
      BY <1>2, <3>1
    <3> HIDE DEF i, k
    <3>3. /\ DOMAIN chartable' = DOMAIN chartable \cup {i} /\ DOMAIN chartable' \subseteq Int
          /\ chartable' \in [DOMAIN chartable' -> CharSet]
          /\ \A j : \A l \in Kinds :
                (Char(j)')[l] = IF j = i /\ l = k THEN Append(Char(j)[l], e) ELSE Char(j)[l]
          /\ \A j : /\ (Char(j)').knots = Char(j).knots /\ (Char(j)').edges = Char(j).edges
                    /\ (Char(j)').retrograde_line = Char(j).retrograde_line
      BY <1>3, <3>2, CurveAdded
    <3> QED BY <2>1, <3>3 DEF i, k
  <2>2. CASE ~Recorded
    <3>1. chartable' = chartable
      BY <1>1, <2>2
    <3>2. \A j : Char(j)' = Char(j)
      BY <3>1 DEF Char
    <3> QED BY <1>2, <2>2, <3>1, <3>2 DEF RTypes
  <2> QED BY <2>1, <2>2
<1> HIDE DEF N
<1>10. /\ slices' \in [Kinds -> Seq(Seq(Oct))]
       /\ Recorded => \A k \in Kinds :
             slices'[k] = IF k = kind THEN Append(slices[k], e) ELSE slices[k]
  <2>1. slices \in [Kinds -> Seq(Seq(Oct))]
    BY <1>2 DEF RTypes
  <2>2. Append(slices[kind], e) \in Seq(Seq(Oct))
    BY <1>2, <1>3, <2>1
  <2> QED BY <1>1, <1>2, <1>8, <2>1, <2>2
<1>11. FillsKept
  <2>1. \A f \in 1..N : /\ fills'[f].index = fills[f].index /\ fills'[f].kind = fills[f].kind
                        /\ fills'[f].side = fills[f].side
    BY <1>4, <1>5
  <2>2. Len(fills') >= Len(fills)
    <3>1. Len(fills') = N
      BY <1>5
    <3>2. Len(fills) = N /\ N \in Nat
      BY <1>2 DEF N
    <3> QED BY <3>1, <3>2
  <2> QED BY <1>2, <1>5, <2>1, <2>2 DEF FillsKept
<1>12. RTypes'
  <2>1. todo' \subseteq DOMAIN chartable' /\ \A i \in DOMAIN chartable' : DOMAIN chartable'[i] = DOMAIN Blank
    BY <1>1, <1>2, <1>9, CharFields DEF RTypes, RecTypeOK
  <2>2. outfile1' \in BOOLEAN
    BY <1>2 DEF PostFill, output, RTypes, RecTypeOK
  <2>3. RecTypeOK'
    BY <1>1, <1>2, <1>5, <2>1, <2>2 DEF RTypes, RecTypeOK, this
  <2> QED BY <1>1, <1>2, <1>5, <1>9, <1>10, <2>3 DEF RTypes
<1>13. \A f \in 1..N : fills'[f].done
  BY <1>2, <1>4, <1>5, <1>6
<1>14. Current'
  <2>1. Len(fills') = N /\ \A f \in 1..(N - 1) : f \in 1..N
    BY <1>2, <1>5
  <2>2. Recorded' => LuaIndex' \in DOMAIN chartable'
    BY <1>1, <1>9 DEF Recorded
  <2> QED BY <1>1, <1>13, <2>1, <2>2 DEF Current
<1>15. Cut'
  <2> SUFFICES ASSUME Recorded, NEW k \in Kinds
               PROVE  NewSlice(k)' = Rest(k)' /\ Covered(slices'[k]) + Len(Rest(k)') = Len(octants'[k])
    BY <1>1 DEF Cut, Recorded
  <2>1. Rest(k)' = <<>>
    BY <1>1 DEF Rest
  <2>2. Covered(slices'[k]) = Len(octants[k])
    <3>1. CASE k = kind
      <4>1. Covered(slices'[k]) = Covered(slices[k]) + Len(e)
        BY <1>3, <1>7, <1>10, <3>1, CoveredPush
      <4> QED BY <1>7, <3>1, <4>1
    <3>2. CASE k # kind
      BY <1>7, <1>10, <3>2
    <3> QED BY <3>1, <3>2
  <2>3. octants[k] \in Seq(Oct) /\ Len(octants[k]) \in Nat
    BY <1>7
  <2>4. SubSeq(octants[k], Len(octants[k]) + 1, Len(octants[k])) = <<>>
    BY <2>3, Parts
  <2>5. NewSlice(k)' = <<>>
    BY <1>1, <2>2, <2>4 DEF NewSlice
  <2> QED BY <1>1, <2>1, <2>2, <2>3, <2>5
<1>16. \A k \in Kinds : Done(k)' = IF k = kind THEN Done(k) \cup {(N - 1) + 1} ELSE Done(k)
  <2> TAKE k \in Kinds
  <2>1. \A f \in 1..N : fills'[f].kind = fills[f].kind
    BY <1>4, <1>5
  <2>2. Done(k)' = {f \in 1..N : fills[f].kind = k}
    BY <1>5, <1>13, <2>1 DEF Done
  <2>3. Done(k) = {f \in 1..(N - 1) : fills[f].kind = k}
    BY <1>2, <1>6 DEF Done
  <2> QED BY <1>2, <1>6, <2>2, <2>3
<1>17. \A k \in Kinds, i \in Int :
          DoneIn(k, i)' = IF k = kind /\ i = LuaIndex THEN DoneIn(k, i) \cup {(N - 1) + 1}
                                                     ELSE DoneIn(k, i)
  <2> TAKE k \in Kinds, i \in Int
  <2>1. \A f \in 1..N : fills'[f].index = fills[f].index
    BY <1>4, <1>5
  <2>2. Done(k)' \subseteq 1..N /\ Done(k) \subseteq 1..N
    BY <1>2, <1>5 DEF Done
  <2>3. DoneIn(k, i)' = {f \in Done(k)' : fills[f].index = i}
    BY <2>1, <2>2 DEF DoneIn
  <2> QED BY <1>2, <1>6, <1>16, <2>3 DEF DoneIn
<1>18. \A k \in Kinds : Done(k) \subseteq 1..(N - 1)
  BY <1>2, <1>6 DEF Done
<1>19. \A f \in 1..N : fills'[f].octs = fills[f].octs
  BY <1>4, <1>5 DEF e, N
<1>20. ASSUME NEW k \in Kinds, NEW F, F \subseteq Done(k), NEW q, q \in Seq(Seq(Oct)),
              ListsOcts(q, F)
       PROVE  /\ Len(Append(q, e)) = Cardinality(F \cup {(N - 1) + 1})
              /\ \A f \in F \cup {(N - 1) + 1} :
                    Append(q, e)[Place(f, F \cup {(N - 1) + 1})] = fills'[f].octs
              /\ Len(q) = Cardinality(F) /\ \A f \in F : q[Place(f, F)] = fills'[f].octs
  <2> DEFINE S == Seq(Oct)
  <2>1. F \subseteq 1..(N - 1) /\ q \in Seq(S) /\ e \in S
    BY <1>3, <1>18, <1>20
  <2>2. Len(q) = Cardinality(F) /\ \A f \in F : q[Place(f, F)] = fills[f].octs
    BY <1>20 DEF ListsOcts
  <2>3. Listed(S, N - 1, F, q)
    BY <1>2, <2>1, <2>2 DEF Listed
  <2> HIDE DEF S
  <2>4. Pushed(S, N - 1, F, q, e)
    BY <2>1, <2>3, ListPush
  <2>5. fills'[(N - 1) + 1].octs = e
    BY <1>2, <1>4, <1>5
  <2>6. \A f \in F : fills'[f].octs = fills[f].octs
    <3>1. \A f \in F : f \in 1..N
      BY <1>2, <2>1
    <3> QED BY <1>19, <3>1
  <2> QED BY <2>2, <2>4, <2>5, <2>6 DEF Pushed
<1>21. SliceIsOneFill'
  <2> SUFFICES ASSUME Recorded, NEW k \in Kinds PROVE ListsOcts(slices[k], Done(k))'
    BY <1>1 DEF SliceIsOneFill, Recorded
  <2> DEFINE F == Done(k)  q == slices[k]
  <2>1. ListsOcts(q, F) /\ F \subseteq Done(k) /\ q \in Seq(Seq(Oct))
    BY <1>7 DEF RInv, SliceIsOneFill, Recorded
  <2>2. /\ Len(Append(q, e)) = Cardinality(F \cup {(N - 1) + 1})
        /\ \A f \in F \cup {(N - 1) + 1} :
              Append(q, e)[Place(f, F \cup {(N - 1) + 1})] = fills'[f].octs
        /\ Len(q) = Cardinality(F) /\ \A f \in F : q[Place(f, F)] = fills'[f].octs
    BY <1>20, <2>1
  <2>3. /\ slices'[k] = (IF k = kind THEN Append(q, e) ELSE q)
        /\ Done(k)' = IF k = kind THEN F \cup {(N - 1) + 1} ELSE F
    BY <1>10, <1>16
  <2> HIDE DEF F, q
  <2>4. /\ Len(slices'[k]) = Cardinality(Done(k)')
        /\ \A f \in Done(k)' : slices'[k][Place(f, Done(k)')] = fills'[f].octs
    <3>1. CASE k = kind
      BY <2>2, <2>3, <3>1
    <3>2. CASE k # kind
      BY <2>2, <2>3, <3>2
    <3> QED BY <3>1, <3>2
  <2> QED BY <2>4 DEF ListsOcts
<1>22. Curves'
  <2> SUFFICES ASSUME Recorded, NEW k \in Kinds, NEW i \in Int
               PROVE  ListsOcts(Char(i)[k], DoneIn(k, i))'
    BY <1>1 DEF Curves, Recorded
  <2> DEFINE F == DoneIn(k, i)  q == Char(i)[k]
  <2>1. ListsOcts(q, F) /\ F \subseteq Done(k) /\ q \in Seq(Seq(Oct))
    BY <1>2, CharIs, CharFields DEF RInv, Curves, DoneIn
  <2>2. /\ Len(Append(q, e)) = Cardinality(F \cup {(N - 1) + 1})
        /\ \A f \in F \cup {(N - 1) + 1} :
              Append(q, e)[Place(f, F \cup {(N - 1) + 1})] = fills'[f].octs
        /\ Len(q) = Cardinality(F) /\ \A f \in F : q[Place(f, F)] = fills'[f].octs
    BY <1>20, <2>1
  <2>3. /\ (Char(i)')[k] = (IF i = LuaIndex /\ k = kind THEN Append(q, e) ELSE q)
        /\ DoneIn(k, i)' = IF k = kind /\ i = LuaIndex THEN F \cup {(N - 1) + 1} ELSE F
    BY <1>9, <1>17
  <2> HIDE DEF F, q
  <2>4. /\ Len((Char(i)')[k]) = Cardinality(DoneIn(k, i)')
        /\ \A f \in DoneIn(k, i)' : (Char(i)')[k][Place(f, DoneIn(k, i)')] = fills'[f].octs
    <3>1. CASE k = kind /\ i = LuaIndex
      BY <2>2, <2>3, <3>1
    <3>2. CASE ~(k = kind /\ i = LuaIndex)
      BY <2>2, <2>3, <3>2
    <3> QED BY <3>1, <3>2
  <2> QED BY <2>4 DEF ListsOcts
<1>23. Table'
  <2>1. \A f \in 1..N : /\ fills'[f].index = fills[f].index /\ fills'[f].kind = fills[f].kind
                        /\ fills'[f].side = fills[f].side
    BY <1>4, <1>5
  <2>2. ~Recorded' => DOMAIN chartable' = {}
    BY <1>1, <1>9 DEF RInv, Table, Recorded
  <2>3. ASSUME NEW i \in DOMAIN chartable' PROVE \E f \in DOMAIN fills' : fills'[f].index = i
    <3>1. CASE i \in DOMAIN chartable
      BY <1>2, <1>5, <2>1, <3>1 DEF RInv, Table
    <3>2. CASE i = LuaIndex
      BY <1>2, <1>5, <1>6, <2>1, <3>2
    <3> QED BY <1>9, <3>1, <3>2
  <2>4. ASSUME Recorded', NEW f \in DOMAIN fills' PROVE fills'[f].index \in DOMAIN chartable'
    <3>1. CASE f = N
      BY <1>1, <1>2, <1>6, <1>9, <2>1, <2>4, <3>1 DEF Recorded
    <3>2. CASE f \in 1..(N - 1)
      <4>1. fills[f].done /\ f \in 1..N
        BY <1>2, <1>5, <1>6, <3>2
      <4>2. fills[f].index \in DOMAIN chartable
        BY <1>1, <1>2, <2>4, <4>1 DEF RInv, Table, Recorded
      <4> QED BY <1>9, <2>1, <4>1, <4>2
    <3> QED BY <1>2, <1>5, <3>1, <3>2
  <2> QED BY <2>2, <2>3, <2>4 DEF Table
<1>24. Knots'
  <2>1. Len(fills') = Len(fills)
    <3>1. Len(fills') = N
      BY <1>5
    <3> QED BY <3>1 DEF N
  <2> QED BY <1>1, <1>2, <1>9, <1>11, <2>1, KnotsFrame DEF RInv, RTypes
<1>25. Lines'
  BY <1>1, <1>9, LinesFrame DEF RInv
<1>26. ASSUME Codes \subseteq Nat PROVE Edges' /\ Written'
  <2>1. \A f \in DOMAIN fills' : fills'[f].index \in Nat
    BY <1>2, <1>4, <1>5, <1>26 DEF RInv, Edges
  <2>2. Edges'
    BY <1>1, <1>2, <1>9, <1>11, <1>26, <2>1, EdgesFrame DEF RInv, RTypes
  <2>3. Written'
    <3>1. Running /\ Running' /\ pages' = pages /\ todo' = todo
      BY <1>1 DEF Running, output
    <3> QED BY <1>26, <3>1, WrittenFrame DEF RInv
  <2> QED BY <2>2, <2>3
<1> QED BY <1>12, <1>14, <1>15, <1>21, <1>22, <1>23, <1>24, <1>25, <1>26 DEF RInv

-----------------------------------------------------------------------------
(* Theorems.                                                               *)

\* A step that changes nothing keeps the invariant.
LEMMA RecStutter ==
  ASSUME RInv, UNCHANGED vars
  PROVE  RInv'
<1>1. /\ UNCHANGED <<has, lua, ghosts>> /\ has' = has /\ pc' = pc /\ kind' = kind
      /\ doubled' = doubled /\ side' = side /\ char_code' = char_code /\ char_ext' = char_ext
      /\ octants' = octants /\ slices' = slices /\ chartable' = chartable /\ pages' = pages
      /\ todo' = todo /\ outfile1' = outfile1
      /\ fills' = fills /\ ships' = ships /\ retro' = retro
  BY DEF vars, engine, lua, output, ghosts
<1>2. RTypes'
  BY <1>1 DEF RInv, RTypes, RecTypeOK, this
<1>3. Current'
  BY <1>1 DEF RInv, Current, Recorded, LuaIndex
<1>4. Cut'
  BY <1>1 DEF RInv, Cut, Recorded, Running, NewSlice, Rest
<1>5. ASSUME Codes \subseteq Nat PROVE Written'
  BY <1>1, <1>5 DEF RInv, Written, Running, Complete, Shipped
<1> QED BY <1>1, <1>2, <1>3, <1>4, <1>5, Quiet DEF RInv

\* What the sensors have recorded is, at every moment of the job, the curves,
\* knots and lines of the fills so far, each under the character in force when
\* it was drawn.
THEOREM RecorderInvariance == Spec => []RInv
<1>1. Init => RInv
  BY RecInit
<1>2. RInv /\ [Next]_vars => RInv'
  <2> SUFFICES ASSUME RInv, [Next]_vars PROVE RInv'
    OBVIOUS
  <2>1. CASE mflua_initialize \/ SetCharacter \/ do_add_to
    BY <2>1, RecQuietSteps
  <2>2. CASE PreFill
    BY <2>2, RecPreFill
  <2>3. CASE Octant
    BY <2>3, RecOctant
  <2>4. CASE Retrograde
    BY <2>4, RecRetrograde
  <2>5. CASE PostFill
    BY <2>5, RecPostFill
  <2>6. CASE ship_out
    BY <2>6, RecShipOut
  <2>7. CASE close_files_and_terminate
    BY <2>7, RecEnd
  <2>8. CASE WritePage
    BY <2>8, RecWritePage
  <2>9. CASE CloseFile
    BY <2>9, RecCloseFile
  <2>10. CASE NoFile
    BY <2>10, RecNoFile
  <2>11. CASE UNCHANGED vars
    BY <2>11, RecStutter
  <2> QED BY <2>1, <2>2, <2>3, <2>4, <2>5, <2>6, <2>7, <2>8, <2>9, <2>10, <2>11 DEF Next
<1> QED BY <1>1, <1>2, PTL DEF Spec

\* A character's entry holds its own curves, whatever was drawn between them
\* and however many fills a fatal error cut short; no retrograde line is lost.
THEOREM RecorderCurves == Spec => []OwnCurves
<1>1. RInv => OwnCurves
  <2> SUFFICES ASSUME RInv PROVE OwnCurves
    OBVIOUS
  <2>1. RetrogradeKept
    <3> SUFFICES ASSUME Recorded
                 PROVE  /\ Range(retro) \subseteq DOMAIN chartable
                        /\ \A i \in DOMAIN chartable : chartable[i].retrograde_line = Cardinality(Seen(i))
      BY DEF RetrogradeKept, Recorded, Seen
    <3>1. DOMAIN chartable \subseteq Int /\ Lines
      BY DEF RInv, RTypes
    <3> QED BY <3>1 DEF Lines, Char, Range
  <2>2. ASSUME Recorded, NEW k \in Kinds, NEW i \in DOMAIN chartable
        PROVE  ListsOcts(chartable[i][k], DoneIn(k, i))
    <3>1. i \in Int /\ Char(i) = chartable[i]
      BY DEF RInv, RTypes, Char
    <3> QED BY <2>2, <3>1 DEF RInv, Curves
  <2>3. ASSUME Recorded, NEW f \in DOMAIN fills, fills[f].done
        PROVE  fills[f].index \in DOMAIN chartable
    BY <2>3 DEF RInv, Table
  <2> QED BY <2>1, <2>2, <2>3 DEF OwnCurves, Recorded, RInv, RTypes
<1> QED BY <1>1, RecorderInvariance, PTL

\* Another fill, before it in the order, makes a fill's place one later.
LEMMA PlaceAfter ==
  ASSUME NEW N \in Nat, NEW A, NEW B, B \subseteq 1..N, NEW f \in 1..N, A \subseteq B,
         NEW g \in B, g <= f, g \notin A
  PROVE  Place(f, A) + 1 <= Place(f, B) /\ Place(f, A) \in Nat /\ Place(f, B) \in Nat
<1> DEFINE S == {h \in A : h <= f}  T == {h \in B : h <= f}
<1>1. S \cup {g} \subseteq T /\ S \subseteq 1..N /\ T \subseteq 1..N /\ g \notin S
  OBVIOUS
<1> HIDE DEF S, T
<1>2. IsFiniteSet(S) /\ IsFiniteSet(T) /\ Cardinality(S) \in Nat /\ Cardinality(T) \in Nat
  BY <1>1, Count
<1>3. Cardinality(S \cup {g}) = Cardinality(S) + 1
  BY <1>1, <1>2, FS_AddElement
<1>4. Cardinality(S \cup {g}) <= Cardinality(T)
  BY <1>1, <1>2, FS_Subset
<1> QED BY <1>2, <1>3, <1>4 DEF Place, S, T

\* An earlier fill has an earlier place.
LEMMA PlaceMonotone ==
  ASSUME NEW N \in Nat, NEW F, F \subseteq 1..N, NEW f \in 1..N, NEW g \in 1..N, g <= f
  PROVE  Place(g, F) <= Place(f, F)
<1> DEFINE S == {h \in F : h <= g}  T == {h \in F : h <= f}
<1>1. S \subseteq T /\ T \subseteq 1..N
  <2>1. ASSUME NEW h \in F, h <= g PROVE h <= f
    <3>1. h \in 1..N
      OBVIOUS
    <3> QED BY <2>1, <3>1
  <2> QED BY <2>1
<1> HIDE DEF S, T
<1>2. IsFiniteSet(T)
  BY <1>1, Count
<1> QED BY <1>1, <1>2, FS_Subset DEF Place, S, T

\* Every place has a fill.
LEMMA PlaceHas ==
  ASSUME NEW N \in Nat, NEW F, F \subseteq 1..N, NEW m \in 1..Cardinality(F)
  PROVE  \E f \in F : Place(f, F) = m
<1> DEFINE Has(n) == {Place(f, F) : f \in {g \in F : g <= n}}
           C(n)   == Cardinality({g \in F : g <= n})
           S      == {n \in Nat : 1..C(n) \subseteq Has(n)}
<1>0. \A g \in F : g \in Nat /\ g >= 1 /\ g <= N
  OBVIOUS
<1>1. ASSUME NEW n \in Nat PROVE IsFiniteSet({g \in F : g <= n}) /\ C(n) \in Nat
  <2>1. {g \in F : g <= n} \subseteq 1..N
    OBVIOUS
  <2> QED BY <2>1, Count
<1>2. 0 \in S
  <2>1. {g \in F : g <= 0} = {}
    <3>1. \A g \in F : ~(g <= 0)
      BY <1>0
    <3> QED BY <3>1
  <2>2. C(0) = 0
    BY <2>1, FS_EmptySet
  <2> QED BY <2>2
<1>3. ASSUME NEW n \in Nat, n \in S PROVE n + 1 \in S
  <2>1. CASE n + 1 \in F
    <3>1. {g \in F : g <= n + 1} = {g \in F : g <= n} \cup {n + 1} /\ n + 1 \notin {g \in F : g <= n}
      <4>1. \A g \in F : g <= n + 1 <=> g <= n \/ g = n + 1
        BY <1>0
      <4>2. ~(n + 1 <= n) /\ n + 1 <= n + 1
        OBVIOUS
      <4>3. n + 1 \notin {g \in F : g <= n}
        BY <4>2
      <4>4. {g \in F : g <= n + 1} = {g \in F : g <= n} \cup {n + 1}
        <5> HIDE DEF C, Has, S
        <5> QED BY <2>1, <4>1, Zenon
      <4> QED BY <4>3, <4>4
    <3>2. C(n + 1) = C(n) + 1
      BY <1>1, <3>1, FS_AddElement
    <3>3. Place(n + 1, F) = C(n + 1)
      BY DEF Place
    <3>4. Has(n) \subseteq Has(n + 1) /\ C(n + 1) \in Has(n + 1)
      BY <2>1, <3>1, <3>3
    <3>5. 1..C(n) \subseteq Has(n) /\ C(n) \in Nat
      BY <1>1, <1>3
    <3> HIDE DEF C, Has
    <3>6. 1..C(n + 1) \subseteq Has(n + 1)
      BY <3>2, <3>4, <3>5
    <3> QED BY <3>6
  <2>2. CASE n + 1 \notin F
    <3>1. {g \in F : g <= n + 1} = {g \in F : g <= n}
      <4>1. \A g \in F : g <= n + 1 <=> g <= n
        BY <1>0, <2>2
      <4> QED BY <4>1
    <3> QED BY <1>3, <3>1
  <2> QED BY <2>1, <2>2
<1>4. N \in S
  <2> HIDE DEF S
  <2>1. Nat \subseteq S
    BY <1>2, <1>3, NatSetInduction
  <2> QED BY <2>1
<1>5. {g \in F : g <= N} = F
  BY <1>0
<1>6. m \in Has(N)
  BY <1>4, <1>5
<1> QED BY <1>5, <1>6

\* The m-th envelope of a character has the m-th list of knots until one is
\* filled from a left-hand path; after that it has a later one's or none.  So
\* also while the last fill, whose knots are already there, is under way.
THEOREM RecorderKnots == Spec => []KnotsAligned
<1>1. RInv => KnotsAligned
  <2> SUFFICES ASSUME RInv, Recorded, NEW i \in DOMAIN chartable,
                      NEW f \in DoneIn("envelope", i)
               PROVE  LET es == DoneIn("envelope", i)  ks == chartable[i].knots IN
                      IF \A g \in es : g <= f => fills[g].side = "rhs"
                      THEN Place(f, es) \in DOMAIN ks /\ ks[Place(f, es)] = f
                      ELSE Place(f, es) \in DOMAIN ks => ks[Place(f, es)] > f
    BY DEF KnotsAligned, Recorded
  <2> DEFINE E == DoneIn("envelope", i)  F == Starts(i)  q == chartable[i].knots
             N == Len(fills)
  <2>1. i \in Int /\ Char(i) = chartable[i] /\ q \in Seq(Nat) /\ RTypes
    <3>1. RTypes /\ i \in Int /\ Char(i) = chartable[i]
      BY DEF RInv, RTypes, Char
    <3>2. Char(i).knots \in Seq(Nat)
      BY <3>1, CharIs, CharFields
    <3> QED BY <3>1, <3>2
  <2>2. Len(q) = Cardinality(F) /\ \A g \in F : q[Place(g, F)] = g
    BY <2>1 DEF RInv, Knots, Lists
  <2>3. N \in Nat /\ DOMAIN fills = 1..N /\ F \subseteq 1..N /\ E \subseteq 1..N
    BY <2>1, FillIs
  <2>4. /\ \A g \in E : fills[g].side = "rhs" => g \in F
        /\ \A g \in F : fills[g].side = "rhs" /\ (fills[g].done => g \in E)
    BY DEF DoneIn, Done, Starts
  <2>5. ASSUME NEW g \in F, g <= f PROVE g \in E
    <3>1. f \in 1..N /\ fills[f].done /\ g \in 1..N
      BY <2>3 DEF DoneIn, Done
    <3>2. fills[g].done
      <4>1. CASE g = f
        BY <3>1, <4>1
      <4>2. CASE g # f
        <5>1. g \in 1..(N - 1)
          BY <2>3, <2>5, <3>1, <4>2
        <5> QED BY <5>1 DEF RInv, Current
      <4> QED BY <4>1, <4>2
    <3> QED BY <2>4, <3>2
  <2>6. f \in E /\ f \in 1..N
    BY <2>3
  <2>7. ASSUME \A g \in E : g <= f => fills[g].side = "rhs"
        PROVE  Place(f, E) \in DOMAIN q /\ q[Place(f, E)] = f
    <3> HIDE DEF E, F, q, N
    <3>1. {g \in E : g <= f} = {g \in F : g <= f}
      BY <2>4, <2>5, <2>7
    <3>2. f \in F /\ Place(f, E) = Place(f, F)
      <4>1. f <= f
        BY <2>6
      <4> QED BY <2>4, <2>6, <2>7, <3>1, <4>1 DEF Place
    <3>3. Place(f, F) \in 1..Cardinality(F)
      BY <2>3, <3>2, PlaceIs
    <3> QED BY <2>1, <2>2, <3>2, <3>3
  <2>8. ASSUME NEW g \in E, g <= f, fills[g].side # "rhs", Place(f, E) \in DOMAIN q
        PROVE  q[Place(f, E)] > f
    <3> HIDE DEF E, F, q, N
    <3> DEFINE A == {h \in F : h <= f}
    <3>1. A \subseteq E /\ g \notin A
      BY <2>4, <2>5, <2>8
    <3>2. Place(f, A) = Place(f, F)
      <4>1. {h \in A : h <= f} = {h \in F : h <= f}
        OBVIOUS
      <4> QED BY <4>1 DEF Place
    <3> HIDE DEF A
    <3>3. Place(f, F) + 1 <= Place(f, E) /\ Place(f, F) \in Nat /\ Place(f, E) \in Nat
      BY <2>3, <2>6, <2>8, <3>1, <3>2, PlaceAfter
    <3>4. Place(f, E) \in 1..Cardinality(F)
      BY <2>1, <2>2, <2>8
    <3>5. PICK h \in F : Place(h, F) = Place(f, E)
      BY <2>3, <3>4, PlaceHas
    <3>6. q[Place(f, E)] = h /\ h \in 1..N
      BY <2>2, <2>3, <3>5
    <3>7. ~(h <= f)
      <4> SUFFICES ASSUME h <= f PROVE FALSE
        OBVIOUS
      <4>1. Place(h, F) <= Place(f, F)
        BY <2>3, <2>6, <3>6, PlaceMonotone
      <4> QED BY <3>3, <3>5, <4>1
    <3> QED BY <2>3, <2>6, <3>6, <3>7
  <2> QED BY <2>7, <2>8
<1> QED BY <1>1, RecorderInvariance, PTL

\* The pages are in the order of the characters, and those of a job that ships
\* what it draws are complete, when no charcode is negative: the sensors and
\* the output number a negative one differently.
THEOREM RecorderPages == Codes \subseteq Nat => (Spec => []PagesRight)
<1> SUFFICES ASSUME Codes \subseteq Nat PROVE Spec => []PagesRight
  OBVIOUS
<1>1. RInv => PagesRight
  <2> SUFFICES ASSUME RInv PROVE PagesRight
    OBVIOUS
  <2>1. Written /\ pages \in Seq(Int)
    BY DEF RInv, Written
  <2>2. DOMAIN pages = 1..Len(pages) /\ Range(pages) = {pages[m] : m \in 1..Len(pages)}
    BY <2>1 DEF Range
  <2>3. PagesInOrder
    <3>1. pc = "closed" => Range(pages) = IF outfile1 THEN DOMAIN chartable ELSE {}
      BY <2>1, <2>2 DEF Written
    <3> QED BY <2>1, <2>2, <3>1 DEF Written, PagesInOrder
  <2>4. ShippedWritten
    BY <2>1 DEF Written, ShippedWritten, Complete, Shipped
  <2> QED BY <2>3, <2>4 DEF PagesRight
<1> QED BY <1>1, RecorderInvariance, PTL
=============================================================================
