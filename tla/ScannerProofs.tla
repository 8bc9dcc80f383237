---------------------------- MODULE ScannerProofs ---------------------------
(***************************************************************************)
(* Proofs about the input stack, for every number of levels, routines,     *)
(* conditions and loops.  The steps change the stack by the operations of  *)
(* Scanner, so most of the work is one lemma for each of these operations. *)
(***************************************************************************)
EXTENDS Scanner, FiniteSetTheorems, WellFoundedInduction, TLAPS

LevelTypes == {"terminal", "file", "string", "macro", "parameter", "loop",
               "backed_up", "inserted"}
Held == {"any", "endfor", "skip", "text", "body", "def"}
Levels == [type : LevelTypes, more : BOOLEAN, holds : Held, text : Texts \cup {null},
           param_start : Nat, n : Nat, index : Nat]
Scans == [input : Seq(Levels), param_ptr : Nat, in_open : Nat]

\* The levels of files up to level k, the terminal's excepted.
FilesTo(inp, k) == {j \in 2..k : file_state(inp[j])}

\* The bottom is the terminal's; the parameters of a level end where those of
\* the next one begin; files are numbered.
Bottom(inp) ==
    /\ Len(inp) >= 1 /\ inp[1].type = "terminal" /\ inp[1].more
    /\ \A j \in 2..Len(inp) : inp[j].type # "terminal"
    /\ \A j \in 1..Len(inp) :
          /\ inp[j].n > 0 => inp[j].type \in {"macro", "loop"}
          /\ inp[j].holds # "any" => inp[j].type \in {"backed_up", "inserted"}
          /\ inp[j].holds = "endfor" => inp[j].type = "backed_up"
ParamsEnd(inp, p) ==
    /\ \A j \in 1..(Len(inp) - 1) :
          inp[j].param_start + inp[j].n = inp[j + 1].param_start
    /\ inp[Len(inp)].param_start + inp[Len(inp)].n = p
FilesNumbered(inp, m) ==
    /\ m = Cardinality(FilesTo(inp, Len(inp)))
    /\ \A j \in 1..Len(inp) :
          file_state(inp[j]) => inp[j].index = Cardinality(FilesTo(inp, j))

\* The turns of loops, and the ENDFOR tokens that wait to be read again.  Each
\* turn whose ENDFOR has been read has one that waits above it, with nothing
\* but lists read to their end between them.
Turns(inp) == {k \in 1..Len(inp) : inp[k].type = "loop"}
Pending(inp) == {k \in 1..Len(inp) : inp[k].holds = "endfor" /\ inp[k].more}
Waits(inp, k, p) ==
    k < p /\ \A j \in (k + 1)..(p - 1) : ~inp[j].more /\ inp[j].type = "backed_up"
EndforKept(inp) ==
    /\ \A k \in Turns(inp) : ~inp[k].more => \E p \in Pending(inp) : Waits(inp, k, p)
    /\ \A p \in Pending(inp) : \E k \in Turns(inp) : ~inp[k].more /\ Waits(inp, k, p)

\* The turns are those of the loops in progress, in the same order.
Match(inp, lp) ==
    /\ {inp[k].text : k \in Turns(inp)} = {lp[i].text : i \in 1..Len(lp)}
    /\ \A k, m \in Turns(inp), i, j \in 1..Len(lp) :
          inp[k].text = lp[i].text /\ inp[m].text = lp[j].text => (k < m <=> i < j)

StackOK(s) == /\ s \in Scans /\ Bottom(s.input)
              /\ ParamsEnd(s.input, s.param_ptr) /\ FilesNumbered(s.input, s.in_open)

-----------------------------------------------------------------------------
(* Induction on natural numbers, for a set.                                *)

Less == {p \in Nat \X Nat : p[1] < p[2]}

\* There is no infinite descent in the natural numbers.
LEMMA LessWellFounded == IsWellFoundedOn(Less, Nat)
<1>1. OpToRel(<, Nat) = Less
  BY DEF OpToRel, Less
<1> QED BY <1>1, NatLessThanWellFounded

\* A set with 0 and the successors of its members has every natural number.
LEMMA NatSetInduction ==
  ASSUME NEW S, 0 \in S, \A j \in Nat : j \in S => j + 1 \in S
  PROVE  Nat \subseteq S
<1> SUFFICES ASSUME Nat \ S # {} PROVE FALSE
  OBVIOUS
<1>1. \E x \in Nat \ S : \A y \in Nat \ S : <<y, x>> \notin Less
  BY LessWellFounded, WFMin
<1>2. PICK x \in Nat \ S : \A y \in Nat \ S : <<y, x>> \notin Less
  BY <1>1
<1>3. x - 1 \in Nat /\ x - 1 < x
  BY <1>2
<1>4. <<x - 1, x>> \in Less
  BY <1>2, <1>3 DEF Less
<1>5. x - 1 \in S
  BY <1>2, <1>3, <1>4
<1>6. (x - 1) + 1 \in S
  BY <1>3, <1>5
<1> QED BY <1>2, <1>6

-----------------------------------------------------------------------------
(* Sequences: a new last element, one element more or some less.           *)

\* Another element on top, or in the place of the top one.
LEMMA PushSeq ==
  ASSUME NEW S, NEW q \in Seq(S), NEW e \in S
  PROVE  /\ Append(q, e) \in Seq(S) /\ Len(Append(q, e)) = Len(q) + 1
         /\ Append(q, e)[Len(q) + 1] = e
         /\ \A j \in 1..Len(q) : Append(q, e)[j] = q[j]
OBVIOUS

\* The first m elements.
LEMMA PrefixSeq ==
  ASSUME NEW S, NEW q \in Seq(S), NEW m \in 0..Len(q)
  PROVE  /\ SubSeq(q, 1, m) \in Seq(S) /\ Len(SubSeq(q, 1, m)) = m
         /\ \A j \in 1..m : SubSeq(q, 1, m)[j] = q[j]
OBVIOUS

\* All but the top element.
LEMMA FrontSeq ==
  ASSUME NEW S, NEW q \in Seq(S), Len(q) >= 1
  PROVE  /\ Front(q) \in Seq(S) /\ Len(Front(q)) = Len(q) - 1
         /\ \A j \in 1..(Len(q) - 1) : Front(q)[j] = q[j]
<1>1. Len(q) - 1 \in 0..Len(q)
  OBVIOUS
<1>2. Front(q) = SubSeq(q, 1, Len(q) - 1)
  BY DEF Front
<1> QED BY <1>1, <1>2, PrefixSeq

\* Another top element.
LEMMA TopSeq ==
  ASSUME NEW S, NEW q \in Seq(S), Len(q) >= 1, NEW e \in S
  PROVE  /\ Append(Front(q), e) \in Seq(S) /\ Len(Append(Front(q), e)) = Len(q)
         /\ Append(Front(q), e)[Len(q)] = e
         /\ \A j \in 1..(Len(q) - 1) : Append(Front(q), e)[j] = q[j]
<1>1. /\ Front(q) \in Seq(S) /\ Len(Front(q)) = Len(q) - 1 /\ Len(q) \in Nat
      /\ \A j \in 1..(Len(q) - 1) : Front(q)[j] = q[j]
  BY FrontSeq
<1>2. /\ Append(Front(q), e) \in Seq(S) /\ Len(Append(Front(q), e)) = Len(Front(q)) + 1
      /\ Append(Front(q), e)[Len(Front(q)) + 1] = e
      /\ \A j \in 1..Len(Front(q)) : Append(Front(q), e)[j] = Front(q)[j]
  BY <1>1, PushSeq
<1> QED BY <1>1, <1>2

\* A shorter prefix of a prefix.
LEMMA PrefixPrefix ==
  ASSUME NEW S, NEW q \in Seq(S), NEW m \in 0..Len(q), NEW j \in 0..m
  PROVE  SubSeq(SubSeq(q, 1, m), 1, j) = SubSeq(q, 1, j)
OBVIOUS

-----------------------------------------------------------------------------
(* Files on the stack.                                                     *)

\* One level more counts by one if it is a file.
LEMMA FilesStep ==
  ASSUME NEW inp, NEW k \in Nat
  PROVE  /\ IsFiniteSet(FilesTo(inp, k)) /\ Cardinality(FilesTo(inp, k)) \in Nat
         /\ k >= 1 => Cardinality(FilesTo(inp, k + 1)) = Cardinality(FilesTo(inp, k))
                                    + (IF file_state(inp[k + 1]) THEN 1 ELSE 0)
<1>1. IsFiniteSet(FilesTo(inp, k))
  <2>1. FilesTo(inp, k) \in SUBSET (2..k)
    BY DEF FilesTo
  <2> QED BY <2>1, FS_Interval, FS_Subset
<1>2. Cardinality(FilesTo(inp, k)) \in Nat
  BY <1>1, FS_CardinalityType
<1>3. CASE k >= 1 /\ file_state(inp[k + 1])
  <2>1. FilesTo(inp, k + 1) = FilesTo(inp, k) \cup {k + 1} /\ k + 1 \notin FilesTo(inp, k)
    BY <1>3 DEF FilesTo
  <2> QED BY <2>1, <1>1, <1>2, <1>3, FS_AddElement
<1>4. CASE k >= 1 /\ ~file_state(inp[k + 1])
  <2>1. FilesTo(inp, k + 1) = FilesTo(inp, k)
    BY <1>4 DEF FilesTo
  <2> QED BY <2>1, <1>1, <1>2, <1>4
<1> QED BY <1>1, <1>2, <1>3, <1>4

\* Only the types of the levels matter.
LEMMA FilesSame ==
  ASSUME NEW a, NEW b, NEW k \in Nat, \A j \in 1..k : a[j].type = b[j].type
  PROVE  FilesTo(a, k) = FilesTo(b, k)
BY DEF FilesTo, file_state

-----------------------------------------------------------------------------
(* The operations on the stack.                                            *)

\* t is s with a new level l and its parameters on top.
PushOf(s, t, l) ==
    /\ t \in Scans /\ t.input = Append(s.input, l)
    /\ t.param_ptr = s.param_ptr + l.n /\ t.in_open = s.in_open

\* A new level, for a list of tokens.
LEMMA Pushed ==
  ASSUME NEW s, StackOK(s), NEW l \in Levels,
         l.type \in {"macro", "parameter", "loop", "backed_up", "inserted"},
         l.param_start = s.param_ptr, l.n > 0 => l.type \in {"macro", "loop"},
         l.holds # "any" => l.type \in {"backed_up", "inserted"},
         l.holds = "endfor" => l.type = "backed_up",
         NEW t, PushOf(s, t, l)
  PROVE  StackOK(t)
<1> DEFINE q == s.input
<1>1. /\ q \in Seq(Levels) /\ s.param_ptr \in Nat /\ s.in_open \in Nat /\ l.n \in Nat
      /\ t.input = Append(q, l) /\ t.param_ptr = s.param_ptr + l.n /\ t.in_open = s.in_open
      /\ t \in Scans
  <2>1. s \in Scans /\ q \in Seq(Levels) /\ s.param_ptr \in Nat /\ s.in_open \in Nat
    BY DEF StackOK, Scans
  <2>2. l.n \in Nat
    BY DEF Levels
  <2> QED BY <2>1, <2>2 DEF PushOf
<1>2. /\ Len(t.input) = Len(q) + 1 /\ t.input[Len(q) + 1] = l /\ Len(q) \in Nat
      /\ \A j \in 1..Len(q) : t.input[j] = q[j]
  BY <1>1, PushSeq
<1> HIDE DEF q
<1>3. Len(q) >= 1
  BY DEF StackOK, Bottom, q
<1>4. Bottom(t.input)
  BY <1>1, <1>2, <1>3 DEF StackOK, Bottom, q
<1>5. ParamsEnd(t.input, t.param_ptr)
  BY <1>1, <1>2, <1>3 DEF StackOK, ParamsEnd, q
<1>6. FilesNumbered(t.input, t.in_open)
  <2>1. \A j \in 1..Len(q) : FilesTo(t.input, j) = FilesTo(q, j)
    BY <1>2, FilesSame
  <2>2. ~file_state(l)
    BY DEF file_state
  <2>3. Cardinality(FilesTo(t.input, Len(q) + 1)) = Cardinality(FilesTo(t.input, Len(q)))
    <3>1. ~file_state(t.input[Len(q) + 1])
      BY <1>2, <2>2
    <3>2. /\ Cardinality(FilesTo(t.input, Len(q))) \in Nat
          /\ Cardinality(FilesTo(t.input, Len(q) + 1)) =
                Cardinality(FilesTo(t.input, Len(q)))
                   + (IF file_state(t.input[Len(q) + 1]) THEN 1 ELSE 0)
      BY <1>2, <1>3, FilesStep
    <3> QED BY <3>1, <3>2
  <2>4. FilesNumbered(q, s.in_open)
    BY DEF StackOK, q
  <2>5. Cardinality(FilesTo(t.input, Len(t.input))) = s.in_open
    BY <1>2, <1>3, <2>1, <2>3, <2>4 DEF FilesNumbered
  <2>6. ASSUME NEW j \in 1..Len(t.input), file_state(t.input[j])
        PROVE  t.input[j].index = Cardinality(FilesTo(t.input, j))
    <3>1. j \in 1..Len(q) /\ t.input[j] = q[j]
      BY <1>2, <2>2, <2>6
    <3> QED BY <2>1, <2>4, <2>6, <3>1 DEF FilesNumbered
  <2> QED BY <1>1, <2>5, <2>6 DEF FilesNumbered
<1> QED BY <1>1, <1>4, <1>5, <1>6 DEF StackOK

\* Another state of the top level: more to read or not, a loop's text, or some
\* parameters above the level's own.
LEMMA Retopped ==
  ASSUME NEW s, StackOK(s), NEW l \in Levels, l.type = Top(s).type,
         l.param_start = Top(s).param_start, l.index = Top(s).index,
         l.n > 0 => l.type \in {"macro", "loop"},
         l.holds # "any" => l.type \in {"backed_up", "inserted"},
         l.holds = "endfor" => l.type = "backed_up",
         l.type = "terminal" => l.more,
         NEW p, p = l.param_start + l.n
  PROVE  /\ StackOK([s EXCEPT !.input = Append(Front(@), l), !.param_ptr = p])
         /\ Len(Append(Front(s.input), l)) = Len(s.input)
<1> DEFINE q == s.input  t == [s EXCEPT !.input = Append(Front(@), l), !.param_ptr = p]
<1>0. Len(q) >= 1 /\ q \in Seq(Levels)
  BY DEF StackOK, Bottom, Scans
<1>1. /\ q \in Seq(Levels) /\ p \in Nat /\ s.in_open \in Nat /\ l.n \in Nat
      /\ t.input = Append(Front(q), l) /\ t.param_ptr = p /\ t.in_open = s.in_open
      /\ t \in Scans
  <2>1. s \in Scans /\ s.in_open \in Nat
    BY DEF StackOK, Scans
  <2>2. l.n \in Nat /\ l.param_start \in Nat
    BY DEF Levels
  <2>3. Append(Front(q), l) \in Seq(Levels)
    BY <1>0, TopSeq
  <2>4. p \in Nat
    BY <2>2
  <2> QED BY <1>0, <2>1, <2>2, <2>3, <2>4 DEF Scans
<1>2. /\ Len(t.input) = Len(q) /\ t.input[Len(q)] = l /\ Len(q) \in Nat
      /\ \A j \in 1..(Len(q) - 1) : t.input[j] = q[j]
  BY <1>0, <1>1, TopSeq
<1>3. l.type = q[Len(q)].type /\ l.param_start = q[Len(q)].param_start /\ l.index = q[Len(q)].index
  BY DEF Top, Last
<1> HIDE DEF q, t
<1>a. \A j \in 1..Len(q) : /\ t.input[j].type = q[j].type
                           /\ t.input[j].param_start = q[j].param_start
                           /\ t.input[j].index = q[j].index
                           /\ j < Len(q) => t.input[j] = q[j]
  BY <1>2, <1>3
<1>4. Bottom(t.input)
  <2>1. Bottom(q)
    BY DEF StackOK, q
  <2> QED BY <1>0, <1>2, <1>a, <2>1 DEF Bottom
<1>5. ParamsEnd(t.input, t.param_ptr)
  <2>1. ParamsEnd(q, s.param_ptr)
    BY DEF StackOK, q
  <2>2. \A j \in 1..(Len(q) - 1) :
          t.input[j].param_start + t.input[j].n = t.input[j + 1].param_start
    BY <1>0, <1>2, <1>a, <2>1 DEF ParamsEnd
  <2> QED BY <1>1, <1>2, <2>2 DEF ParamsEnd
<1>6. FilesNumbered(t.input, t.in_open)
  <2>1. \A j \in 1..Len(q) : t.input[j].type = q[j].type /\ t.input[j].index = q[j].index
    BY <1>a
  <2>2. \A j \in 1..Len(q) : FilesTo(t.input, j) = FilesTo(q, j)
    BY <2>1, <1>2, FilesSame
  <2> QED BY <1>0, <1>1, <1>2, <2>1, <2>2 DEF StackOK, FilesNumbered, q, file_state
<1>7. StackOK(t)
  BY <1>1, <1>4, <1>5, <1>6 DEF StackOK
<1> QED BY <1>7, <1>1, <1>2 DEF t, q

\* A new file or string.
LEMMA Opened ==
  ASSUME NEW s, StackOK(s), NEW t \in {"file", "string"}
  PROVE  StackOK(begin_file_reading(s, t))
<1> DEFINE q == s.input  l == [Level(s, t) EXCEPT !.index = s.in_open + 1]
           r == begin_file_reading(s, t)
<1>1. s \in Scans /\ q \in Seq(Levels) /\ s.param_ptr \in Nat /\ s.in_open \in Nat
  BY DEF StackOK, Scans
<1>2. Level(s, t) = [type |-> t, more |-> TRUE, holds |-> "any", text |-> null,
                     param_start |-> s.param_ptr, n |-> 0, index |-> 0]
  BY DEF Level
<1>3. l \in Levels
  <2>1. s.in_open + 1 \in Nat
    BY <1>1
  <2>2. Level(s, t) \in Levels
    BY <1>1, <1>2 DEF Levels, LevelTypes, Held
  <2> QED BY <2>1, <2>2 DEF Levels
<1>4. /\ r.input = Append(q, l) /\ r.param_ptr = s.param_ptr /\ r.in_open = s.in_open + 1
      /\ r \in Scans
  <2>1. Append(q, l) \in Seq(Levels) /\ s.in_open + 1 \in Nat
    BY <1>1, <1>3, PushSeq
  <2> HIDE DEF l
  <2> QED BY <1>1, <2>1 DEF begin_file_reading, Scans, l
<1>5. l.type = t /\ l.more /\ l.holds = "any" /\ l.n = 0 /\ l.param_start = s.param_ptr
      /\ l.index = s.in_open + 1
  BY <1>2
<1> HIDE DEF l, q, r
<1>6. /\ Len(r.input) = Len(q) + 1 /\ r.input[Len(q) + 1] = l /\ Len(q) \in Nat
      /\ \A j \in 1..Len(q) : r.input[j] = q[j]
  BY <1>1, <1>3, <1>4, PushSeq
<1>7. Len(q) >= 1
  BY DEF StackOK, Bottom, q
<1>8. Bottom(r.input)
  BY <1>4, <1>5, <1>6, <1>7 DEF StackOK, Bottom, q
<1>9. ParamsEnd(r.input, r.param_ptr)
  BY <1>1, <1>4, <1>5, <1>6, <1>7 DEF StackOK, ParamsEnd, q
<1>10. FilesNumbered(r.input, r.in_open)
  <2>1. \A j \in 1..Len(q) : FilesTo(r.input, j) = FilesTo(q, j)
    BY <1>6, FilesSame
  <2>2. file_state(r.input[Len(q) + 1])
    BY <1>5, <1>6 DEF file_state
  <2>3. /\ Cardinality(FilesTo(r.input, Len(q))) \in Nat
        /\ Cardinality(FilesTo(r.input, Len(q) + 1)) =
              Cardinality(FilesTo(r.input, Len(q)))
                 + (IF file_state(r.input[Len(q) + 1]) THEN 1 ELSE 0)
    BY <1>6, <1>7, FilesStep
  <2>4. FilesNumbered(q, s.in_open)
    BY DEF StackOK, q
  <2>5. Cardinality(FilesTo(r.input, Len(q) + 1)) = s.in_open + 1
    BY <1>6, <1>7, <2>1, <2>2, <2>3, <2>4 DEF FilesNumbered
  <2> QED BY <1>4, <1>5, <1>6, <1>7, <2>1, <2>4, <2>5 DEF FilesNumbered
<1> QED BY <1>4, <1>8, <1>9, <1>10 DEF StackOK, r

\* The top level goes; a list's parameters with it.
LEMMA Popped ==
  ASSUME NEW s, StackOK(s), Len(s.input) >= 2
  PROVE  StackOK(PopLevel(s)) /\ PopLevel(s).input = Front(s.input)
<1> DEFINE q == s.input  n == Len(q)  l == q[n]  r == PopLevel(s)
           c(j) == Cardinality(FilesTo(q, j))
<1>1. /\ s \in Scans /\ q \in Seq(Levels) /\ s.param_ptr \in Nat /\ s.in_open \in Nat
      /\ n \in Nat /\ n >= 2
  BY DEF StackOK, Scans
<1>2. /\ Bottom(q) /\ ParamsEnd(q, s.param_ptr) /\ FilesNumbered(q, s.in_open)
  BY DEF StackOK
<1>3. l \in Levels /\ Top(s) = l
  BY <1>1 DEF Top, Last
<1>4. l.param_start \in Nat /\ l.n \in Nat /\ l.param_start + l.n = s.param_ptr
      /\ (l.n > 0 => l.type \in {"macro", "loop"})
  BY <1>1, <1>2, <1>3 DEF Levels, ParamsEnd, Bottom
<1>5. /\ Front(q) \in Seq(Levels) /\ Len(Front(q)) = n - 1
      /\ \A j \in 1..(n - 1) : Front(q)[j] = q[j]
  BY <1>1, FrontSeq
<1>6. /\ c(n - 1) \in Nat
      /\ c((n - 1) + 1) = c(n - 1) + (IF file_state(q[(n - 1) + 1]) THEN 1 ELSE 0)
  <2>1. n - 1 \in Nat /\ n - 1 >= 1
    BY <1>1
  <2> HIDE DEF n, q
  <2> QED BY <2>1, FilesStep
<1>7. s.in_open = c(n - 1) + (IF file_state(l) THEN 1 ELSE 0)
  BY <1>1, <1>2, <1>6 DEF FilesNumbered
<1>8. /\ r.input = Front(q) /\ r.param_ptr = l.param_start /\ r.in_open = c(n - 1)
      /\ r \in Scans
  <2>1. CASE file_state(l)
    <3>1. l.n = 0 /\ l.param_start = s.param_ptr /\ s.in_open - 1 = c(n - 1)
      BY <1>4, <1>6, <1>7, <2>1 DEF file_state
    <3>2. r = [s EXCEPT !.in_open = @ - 1, !.input = Front(@)]
      BY <1>3, <2>1 DEF PopLevel, end_file_reading
    <3> HIDE DEF n, l, r, c
    <3> QED BY <1>1, <1>5, <1>6, <3>1, <3>2 DEF Scans
  <2>2. CASE ~file_state(l)
    <3>1. s.in_open = c(n - 1)
      BY <1>6, <1>7, <2>2
    <3>2. r = [s EXCEPT !.input = Front(@),
                        !.param_ptr = IF l.type \notin {"backed_up", "inserted"}
                                         /\ @ > l.param_start
                                      THEN l.param_start ELSE @]
      BY <1>3, <2>2 DEF PopLevel, end_token_list
    <3>3. (IF l.type \notin {"backed_up", "inserted"} /\ s.param_ptr > l.param_start
           THEN l.param_start ELSE s.param_ptr) = l.param_start
      BY <1>1, <1>4
    <3> HIDE DEF n, l, r, c
    <3> QED BY <1>1, <1>4, <1>5, <1>6, <3>1, <3>2, <3>3 DEF Scans
  <2> QED BY <2>1, <2>2
<1> HIDE DEF q, n, l, r, c
<1>9. Bottom(r.input)
  <2> DEFINE f == Front(q)
  <2>1. n - 1 >= 1 /\ Len(f) = n - 1 /\ \A j \in 1..(n - 1) : j \in 1..n /\ f[j] = q[j]
    BY <1>1, <1>5
  <2>2. Len(q) = n /\ r.input = f
    BY <1>8 DEF n
  <2> HIDE DEF f
  <2> QED BY <1>1, <1>2, <2>1, <2>2 DEF Bottom
<1>10. ParamsEnd(r.input, r.param_ptr)
  BY <1>1, <1>2, <1>5, <1>8 DEF ParamsEnd, n, l
<1>11. FilesNumbered(r.input, r.in_open)
  <2>1. \A j \in 1..(n - 1) : FilesTo(Front(q), j) = FilesTo(q, j)
    BY <1>5, FilesSame
  <2> QED BY <1>1, <1>2, <1>5, <1>8, <2>1 DEF FilesNumbered, n, c
<1> QED BY <1>8, <1>9, <1>10, <1>11 DEF StackOK, r, q

\* Levels popped one by one: what PopTo's function gives for each number.
LEMMA PopToDefined ==
  ASSUME NEW s, NEW N \in Nat
  PROVE  \E pop : pop = [j \in 0..N |-> IF j = 0 THEN s ELSE PopLevel(pop[j - 1])]
<1> DEFINE S == {m \in Nat : \E pop : pop = [j \in 0..m |->
                                     IF j = 0 THEN s ELSE PopLevel(pop[j - 1])]}
<1>1. 0 \in S
  <2> DEFINE g == [j \in 0..0 |-> s]
  <2>1. g = [j \in 0..0 |-> IF j = 0 THEN s ELSE PopLevel(g[j - 1])]
    OBVIOUS
  <2> QED BY <2>1
<1>2. \A m \in Nat : m \in S => m + 1 \in S
  <2> TAKE m \in Nat
  <2> HAVE m \in S
  <2>1. PICK pop : pop = [j \in 0..m |-> IF j = 0 THEN s ELSE PopLevel(pop[j - 1])]
    OBVIOUS
  <2> DEFINE g == [j \in 0..(m + 1) |-> IF j <= m THEN pop[j] ELSE PopLevel(pop[m])]
  <2>2. \A j \in 0..(m + 1) : g[j] = IF j = 0 THEN s ELSE PopLevel(g[j - 1])
    <3> TAKE j \in 0..(m + 1)
    <3>1. CASE j = 0
      BY <2>1, <3>1
    <3>2. CASE j > 0 /\ j <= m
      <4>1. j \in 0..m /\ j - 1 \in 0..m /\ j # 0 /\ j - 1 \in 0..(m + 1) /\ j - 1 <= m
        BY <3>2
      <4>2. pop[j] = PopLevel(pop[j - 1])
        BY <2>1, <4>1
      <4> QED BY <3>2, <4>1, <4>2
    <3>3. CASE j = m + 1
      BY <3>3
    <3> QED BY <3>1, <3>2, <3>3
  <2>3. g = [j \in 0..(m + 1) |-> IF j = 0 THEN s ELSE PopLevel(g[j - 1])]
    <3>1. g = [j \in 0..(m + 1) |-> g[j]]
      OBVIOUS
    <3> HIDE DEF g
    <3> QED BY <2>2, <3>1
  <2> HIDE DEF g
  <2> QED BY <2>3
<1>3. Nat \subseteq S
  <2> HIDE DEF S
  <2> QED BY <1>1, <1>2, NatSetInduction
<1> QED BY <1>3

\* Leaving levels down to level k leaves the levels up to k as they were, in
\* step with the parameters and the files.
LEMMA PoppedTo ==
  ASSUME NEW s, StackOK(s), NEW k \in 1..Len(s.input)
  PROVE  StackOK(PopTo(s, k)) /\ PopTo(s, k).input = SubSeq(s.input, 1, k)
<1> DEFINE q == s.input  N == Len(q) - k
           pop == CHOOSE f : f = [j \in 0..N |-> IF j = 0 THEN s ELSE PopLevel(f[j - 1])]
           S == {j \in Nat : j <= N => /\ StackOK(pop[j])
                                      /\ pop[j].input = SubSeq(q, 1, Len(q) - j)}
<1>1. q \in Seq(Levels) /\ N \in Nat
  BY DEF StackOK, Scans
<1>2. pop = [j \in 0..N |-> IF j = 0 THEN s ELSE PopLevel(pop[j - 1])]
  <2> HIDE DEF N
  <2> QED BY <1>1, PopToDefined
<1>3. PopTo(s, k) = pop[N]
  BY DEF PopTo
<1> HIDE DEF pop
<1>4. 0 \in S
  <2>1. pop[0] = s
    BY <1>1, <1>2
  <2>2. SubSeq(q, 1, Len(q) - 0) = q
    BY <1>1
  <2> QED BY <2>1, <2>2
<1>5. ASSUME NEW j \in Nat, j \in S PROVE j + 1 \in S
  <2> SUFFICES ASSUME j + 1 <= N
               PROVE  /\ StackOK(pop[j + 1])
                      /\ pop[j + 1].input = SubSeq(q, 1, Len(q) - (j + 1))
    OBVIOUS
  <2>1. j \in 0..N /\ j + 1 \in 0..N /\ j + 1 # 0 /\ (j + 1) - 1 = j /\ j <= N
    BY <1>1
  <2>2. pop[j + 1] = PopLevel(pop[j])
    BY <1>2, <2>1
  <2>3. StackOK(pop[j]) /\ pop[j].input = SubSeq(q, 1, Len(q) - j)
    BY <1>5, <2>1
  <2>4. Len(q) - j \in 0..Len(q) /\ Len(q) - j >= 2 /\ Len(q) - (j + 1) \in 0..(Len(q) - j)
    BY <1>1, <2>1
  <2>5. Len(pop[j].input) = Len(q) - j
    BY <1>1, <2>3, <2>4, PrefixSeq
  <2>6. StackOK(PopLevel(pop[j])) /\ PopLevel(pop[j]).input = Front(pop[j].input)
    BY <2>3, <2>4, <2>5, Popped
  <2>7. Front(pop[j].input) = SubSeq(SubSeq(q, 1, Len(q) - j), 1, Len(q) - (j + 1))
    BY <2>3, <2>4, <2>5 DEF Front
  <2>8. @ = SubSeq(q, 1, Len(q) - (j + 1))
    <3> HIDE DEF q
    <3> QED BY <1>1, <2>4, PrefixPrefix
  <2> QED BY <2>2, <2>6, <2>7, <2>8
<1>6. Nat \subseteq S
  <2> HIDE DEF S
  <2> QED BY <1>4, <1>5, NatSetInduction
<1>7. N \in S /\ Len(q) - N = k
  BY <1>1, <1>6
<1> QED BY <1>1, <1>3, <1>7

\* A set of numbers that are at most N has a largest one.
LEMMA Largest ==
  ASSUME NEW N \in Nat, NEW A, A \subseteq 1..N, A # {}
  PROVE  \E k \in A : \A j \in A : j <= k
<1> DEFINE T == {N - j : j \in A}
<1>1. T \subseteq Nat /\ T # {}
  <2>1. PICK a \in A : TRUE
    OBVIOUS
  <2>2. N - a \in T
    OBVIOUS
  <2> QED BY <2>2
<1>2. PICK x \in T : \A y \in T : <<y, x>> \notin Less
  <2> HIDE DEF T
  <2>1. \E x \in T : \A y \in T : <<y, x>> \notin Less
    BY <1>1, LessWellFounded, WFMin
  <2> QED BY <2>1
<1>3. PICK k \in A : x = N - k
  OBVIOUS
<1>4. ASSUME NEW j \in A, ~(j <= k) PROVE FALSE
  <2>1. N - j \in T /\ N - j \in Nat /\ x \in Nat /\ N - j < x
    BY <1>3, <1>4
  <2>2. <<N - j, x>> \in Less
    BY <2>1 DEF Less
  <2> QED BY <1>2, <2>1, <2>2
<1> QED BY <1>4

\* What is read to its end goes, and nothing else.
LEMMA ConservedTo ==
  ASSUME NEW s, StackOK(s)
  PROVE  \E k \in 1..Len(s.input) :
            /\ StackOK(Conserved(s)) /\ Conserved(s).input = SubSeq(s.input, 1, k)
            /\ s.input[k].more \/ file_state(s.input[k])
            /\ \A j \in (k + 1)..Len(s.input) : ~s.input[j].more /\ ~file_state(s.input[j])
<1> DEFINE q == s.input
           kept == {k \in DOMAIN q : q[k].more \/ file_state(q[k])}
           k == CHOOSE k \in kept : \A j \in kept : j <= k
<1>1. q \in Seq(Levels) /\ Len(q) \in Nat /\ Len(q) >= 1 /\ DOMAIN q = 1..Len(q)
  BY DEF StackOK, Scans, Bottom
<1>2. kept \subseteq 1..Len(q) /\ 1 \in kept
  BY <1>1 DEF StackOK, Bottom
<1>3. k \in kept /\ \A j \in kept : j <= k
  <2>1. \E i \in kept : \A j \in kept : j <= i
    <3> HIDE DEF kept
    <3> QED BY <1>1, <1>2, Largest
  <2> HIDE DEF kept
  <2> QED BY <2>1
<1>4. Conserved(s) = PopTo(s, k)
  BY DEF Conserved
<1>5. k \in 1..Len(q)
  <2> HIDE DEF k
  <2> QED BY <1>1, <1>2, <1>3
<1>6. StackOK(PopTo(s, k)) /\ PopTo(s, k).input = SubSeq(q, 1, k)
  <2> HIDE DEF k
  <2> QED BY <1>5, PoppedTo
<1>7. \A j \in (k + 1)..Len(q) : ~q[j].more /\ ~file_state(q[j])
  <2> HIDE DEF k
  <2>1. \A j \in (k + 1)..Len(q) : j \in DOMAIN q /\ j \notin kept
    BY <1>1, <1>3, <1>5
  <2> QED BY <2>1
<1>8. q[k].more \/ file_state(q[k])
  <2> HIDE DEF k
  <2> QED BY <1>3
<1> HIDE DEF k
<1> QED BY <1>4, <1>5, <1>6, <1>7, <1>8

-----------------------------------------------------------------------------
(* Turns of loops and their ENDFOR tokens.                                 *)

\* No turn goes with levels that are read to their end or are no turns, when
\* no ENDFOR waits among them.
LEMMA Dropped ==
  ASSUME NEW inp \in Seq(Levels), EndforKept(inp), NEW m \in 0..Len(inp),
         \A j \in (m + 1)..Len(inp) : j \notin Pending(inp),
         \A j \in (m + 1)..Len(inp) : j \in Turns(inp) => ~inp[j].more
  PROVE  EndforKept(SubSeq(inp, 1, m)) /\ Turns(SubSeq(inp, 1, m)) = Turns(inp)
<1> DEFINE r == SubSeq(inp, 1, m)
<1>1. Len(r) = m /\ Len(inp) \in Nat /\ m \in Nat /\ \A j \in 1..m : r[j] = inp[j]
  BY PrefixSeq
<1> HIDE DEF r
<1>2. Pending(inp) = Pending(r)
  BY <1>1 DEF Pending
<1>3. Turns(inp) = Turns(r)
  <2>1. ASSUME NEW j \in Turns(inp), j > m PROVE FALSE
    <3>1. ~inp[j].more
      BY <1>1, <2>1 DEF Turns
    <3>2. PICK p \in Pending(inp) : Waits(inp, j, p)
      BY <3>1, <2>1 DEF EndforKept
    <3> QED BY <1>1, <1>2, <2>1, <3>2 DEF Waits, Pending, Turns
  <2> QED BY <1>1, <2>1 DEF Turns
<1>4. \A k \in Turns(r), p \in Pending(r) : Waits(inp, k, p) <=> Waits(r, k, p)
  BY <1>1 DEF Waits, Turns, Pending
<1>5. \A k \in Turns(r) : inp[k].more = r[k].more
  BY <1>1 DEF Turns
<1>6. EndforKept(r)
  BY <1>2, <1>3, <1>4, <1>5 DEF EndforKept
<1> QED BY <1>3, <1>6 DEF r

\* Below the innermost turn everything is as before.
LEMMA CutTurn ==
  ASSUME NEW inp \in Seq(Levels), Bottom(inp), EndforKept(inp), NEW k \in Turns(inp)
  PROVE  EndforKept(SubSeq(inp, 1, k - 1))
<1> DEFINE r == SubSeq(inp, 1, k - 1)
<1>1. k \in 1..Len(inp) /\ Len(inp) \in Nat /\ k - 1 \in 0..Len(inp) /\ inp[k].type = "loop"
  BY DEF Turns
<1>2. Len(r) = k - 1 /\ \A j \in 1..(k - 1) : r[j] = inp[j]
  BY <1>1, PrefixSeq
<1> HIDE DEF r
<1>3. \A j : j \in Turns(r) <=> j \in Turns(inp) /\ j < k
  BY <1>1, <1>2 DEF Turns
<1>4. \A j : j \in Pending(r) <=> j \in Pending(inp) /\ j < k
  BY <1>1, <1>2 DEF Pending
<1>5. \A j \in Turns(r), p \in Pending(r) : Waits(inp, j, p) <=> Waits(r, j, p)
  BY <1>1, <1>2 DEF Waits, Turns, Pending
<1>6. k \notin Pending(inp)
  BY <1>1 DEF Pending, Bottom
<1>7. ASSUME NEW j \in Turns(r), ~r[j].more PROVE \E p \in Pending(r) : Waits(r, j, p)
  <2>1. j \in Turns(inp) /\ ~inp[j].more /\ j < k /\ j \in 1..Len(inp)
    BY <1>2, <1>3, <1>7 DEF Turns
  <2>2. PICK p \in Pending(inp) : Waits(inp, j, p)
    BY <2>1 DEF EndforKept
  <2>3. p \in Int /\ p # k
    BY <1>6 DEF Pending
  <2>4. ~(p > k)
    BY <1>1, <2>1, <2>2, <2>3 DEF Waits
  <2>5. p \in Pending(r)
    BY <1>1, <1>4, <2>3, <2>4
  <2> QED BY <1>5, <2>2, <2>5
<1>8. ASSUME NEW p \in Pending(r) PROVE \E j \in Turns(r) : ~r[j].more /\ Waits(r, j, p)
  <2>1. p \in Pending(inp) /\ p < k
    BY <1>4
  <2>2. PICK j \in Turns(inp) : ~inp[j].more /\ Waits(inp, j, p)
    BY <2>1 DEF EndforKept
  <2>3. j < k /\ j \in 1..(k - 1)
    BY <1>1, <2>1, <2>2 DEF Waits, Turns, Pending
  <2>4. j \in Turns(r) /\ r[j] = inp[j]
    BY <1>2, <1>3, <2>3
  <2> QED BY <1>5, <2>2, <2>4
<1>9. EndforKept(r)
  BY <1>7, <1>8 DEF EndforKept
<1> QED BY <1>9 DEF r

\* Only turns and their texts matter, and the texts of the loops.
LEMMA MatchSame ==
  ASSUME NEW a, NEW b, NEW lp, NEW lq, Match(a, lp),
         Turns(a) = Turns(b), \A k \in Turns(a) : a[k].text = b[k].text,
         Len(lp) = Len(lq), \A i \in 1..Len(lp) : lp[i].text = lq[i].text
  PROVE  Match(b, lq)
<1>1. {b[k].text : k \in Turns(b)} = {a[k].text : k \in Turns(a)}
  OBVIOUS
<1>2. {lq[i].text : i \in 1..Len(lq)} = {lp[i].text : i \in 1..Len(lp)}
  OBVIOUS
<1> QED BY <1>1, <1>2 DEF Match

\* The innermost turn is the innermost loop's.
LEMMA MatchLast ==
  ASSUME NEW inp \in Seq(Levels), NEW S, NEW lp \in Seq(S), Match(inp, lp),
         NEW k \in Turns(inp), \A m \in Turns(inp) : m <= k
  PROVE  Len(lp) >= 1 /\ inp[k].text = lp[Len(lp)].text
<1>1. \A m \in Turns(inp) : m \in Int
  BY DEF Turns
<1>2. PICK i \in 1..Len(lp) : lp[i].text = inp[k].text
  <2>1. inp[k].text \in {lp[i].text : i \in 1..Len(lp)}
    BY DEF Match
  <2> QED BY <2>1
<1>3. Len(lp) \in Nat /\ Len(lp) \in 1..Len(lp)
  BY <1>2
<1>4. PICK m \in Turns(inp) : inp[m].text = lp[Len(lp)].text
  <2>1. lp[Len(lp)].text \in {inp[m].text : m \in Turns(inp)}
    BY <1>3 DEF Match
  <2> QED BY <2>1
<1>5. k < m <=> i < Len(lp)
  BY <1>2, <1>3, <1>4 DEF Match
<1>6. i = Len(lp)
  BY <1>1, <1>2, <1>3, <1>4, <1>5
<1> QED BY <1>2, <1>3, <1>6

\* Two loops have different texts.
LEMMA MatchDistinct ==
  ASSUME NEW inp \in Seq(Levels), NEW S, NEW lp \in Seq(S), Match(inp, lp),
         NEW i \in 1..Len(lp), NEW j \in 1..Len(lp), lp[i].text = lp[j].text
  PROVE  i = j
<1>1. PICK k \in Turns(inp) : inp[k].text = lp[i].text
  <2>1. lp[i].text \in {inp[m].text : m \in Turns(inp)}
    BY DEF Match
  <2> QED BY <2>1
<1>2. (k < k <=> i < j) /\ (k < k <=> j < i) /\ k \in Int
  BY <1>1 DEF Match, Turns
<1> QED BY <1>2

\* The innermost turn and the innermost loop go together.
LEMMA MatchPop ==
  ASSUME NEW inp \in Seq(Levels), NEW S, NEW lp \in Seq(S), Match(inp, lp),
         NEW k \in Turns(inp), \A m \in Turns(inp) : m <= k,
         NEW r, Turns(r) = Turns(inp) \ {k}, \A m \in Turns(r) : r[m].text = inp[m].text
  PROVE  Match(r, Front(lp))
<1>1. Len(lp) >= 1 /\ inp[k].text = lp[Len(lp)].text /\ Len(lp) \in Nat
  BY MatchLast
<1>2. /\ Len(Front(lp)) = Len(lp) - 1
      /\ \A i \in 1..(Len(lp) - 1) : Front(lp)[i] = lp[i]
  BY <1>1, FrontSeq
<1>3. \A m \in Turns(inp) : m \in Int
  BY DEF Turns
<1>4. ASSUME NEW m \in Turns(r) PROVE \E i \in 1..(Len(lp) - 1) : lp[i].text = inp[m].text
  <2>1. m \in Turns(inp) /\ m < k
    BY <1>3
  <2>2. PICK i \in 1..Len(lp) : lp[i].text = inp[m].text
    <3>1. inp[m].text \in {inp[x].text : x \in Turns(inp)}
      BY <2>1
    <3>2. {inp[x].text : x \in Turns(inp)} = {lp[i].text : i \in 1..Len(lp)}
      BY DEF Match
    <3> QED BY <3>1, <3>2
  <2>3. m < k <=> i < Len(lp)
    BY <1>1, <2>1, <2>2 DEF Match
  <2> QED BY <1>1, <2>1, <2>2, <2>3
<1>5. ASSUME NEW i \in 1..(Len(lp) - 1) PROVE \E m \in Turns(r) : inp[m].text = lp[i].text
  <2>1. i \in 1..Len(lp) /\ i < Len(lp)
    BY <1>1
  <2>2. PICK m \in Turns(inp) : inp[m].text = lp[i].text
    <3>1. lp[i].text \in {inp[m].text : m \in Turns(inp)}
      BY <2>1 DEF Match
    <3> QED BY <3>1
  <2>3. m < k <=> i < Len(lp)
    BY <1>1, <2>1, <2>2 DEF Match
  <2> QED BY <1>3, <2>1, <2>2, <2>3
<1>6. {r[m].text : m \in Turns(r)} = {Front(lp)[i].text : i \in 1..Len(Front(lp))}
  <2>1. {r[m].text : m \in Turns(r)} = {inp[m].text : m \in Turns(r)}
    OBVIOUS
  <2>2. {Front(lp)[i].text : i \in 1..Len(Front(lp))} = {lp[i].text : i \in 1..(Len(lp) - 1)}
    BY <1>2
  <2>3. {inp[m].text : m \in Turns(r)} = {lp[i].text : i \in 1..(Len(lp) - 1)}
    <3> DEFINE A == {inp[m].text : m \in Turns(r)}  B == {lp[i].text : i \in 1..(Len(lp) - 1)}
    <3>1. \A x \in A : x \in B
      BY <1>4, Zenon
    <3>2. \A x \in B : x \in A
      BY <1>5, Zenon
    <3> HIDE DEF A, B
    <3>3. A = B
      BY <3>1, <3>2
    <3> QED BY <3>3 DEF A, B
  <2> QED BY <2>1, <2>2, <2>3
<1>7. ASSUME NEW m \in Turns(r), NEW j \in Turns(r), NEW i \in 1..Len(Front(lp)),
             NEW h \in 1..Len(Front(lp)),
             r[m].text = Front(lp)[i].text, r[j].text = Front(lp)[h].text
      PROVE  m < j <=> i < h
  <2>1. m \in Turns(inp) /\ j \in Turns(inp) /\ i \in 1..Len(lp) /\ h \in 1..Len(lp)
    BY <1>1, <1>2
  <2>2. inp[m].text = lp[i].text /\ inp[j].text = lp[h].text
    BY <1>2, <1>7
  <2> QED BY <2>1, <2>2 DEF Match
<1> QED BY <1>6, <1>7 DEF Match

\* A new turn on top for a new innermost loop.
LEMMA MatchPush ==
  ASSUME NEW inp \in Seq(Levels), NEW S, NEW lp \in Seq(S), Match(inp, lp),
         NEW l \in Levels, l.type = "loop", NEW e \in S, l.text = e.text,
         \A i \in 1..Len(lp) : lp[i].text # e.text
  PROVE  Match(Append(inp, l), Append(lp, e))
<1> DEFINE a == Append(inp, l)  b == Append(lp, e)  n == Len(inp) + 1  h == Len(lp) + 1
<1>1. /\ Len(a) = n /\ a[n] = l /\ Len(inp) \in Nat
      /\ \A j \in 1..Len(inp) : a[j] = inp[j]
  BY PushSeq
<1>2. /\ Len(b) = h /\ b[h] = e /\ Len(lp) \in Nat /\ \A j \in 1..Len(lp) : b[j] = lp[j]
  BY PushSeq
<1> HIDE DEF a, b
<1>3. Turns(a) = Turns(inp) \cup {n}
  BY <1>1 DEF Turns
<1>4. \A m \in Turns(inp) : a[m].text = inp[m].text /\ m < n /\ m \in Int
  BY <1>1 DEF Turns
<1>5. \A m \in Turns(inp) : a[m].text # e.text
  <2> TAKE m \in Turns(inp)
  <2>1. inp[m].text \in {lp[i].text : i \in 1..Len(lp)}
    BY DEF Match
  <2> QED BY <1>4, <2>1
<1>6. {a[m].text : m \in Turns(a)} = {b[i].text : i \in 1..Len(b)}
  <2>1. {a[m].text : m \in Turns(a)} = {inp[m].text : m \in Turns(inp)} \cup {e.text}
    BY <1>1, <1>3, <1>4
  <2>2. {b[i].text : i \in 1..Len(b)} = {lp[i].text : i \in 1..Len(lp)} \cup {e.text}
    BY <1>2
  <2> QED BY <2>1, <2>2 DEF Match
<1>7. ASSUME NEW m \in Turns(a), NEW j \in Turns(a), NEW i \in 1..Len(b), NEW g \in 1..Len(b),
             a[m].text = b[i].text, a[j].text = b[g].text
      PROVE  m < j <=> i < g
  <2>1. \A x \in 1..Len(b) : x = h \/ (x \in 1..Len(lp) /\ x < h /\ b[x] = lp[x] /\ b[x].text # e.text)
    BY <1>2
  <2>2. (m = n <=> i = h) /\ (j = n <=> g = h)
    BY <1>1, <1>2, <1>3, <1>4, <1>5, <1>7, <2>1
  <2>3. CASE m # n /\ j # n
    BY <1>3, <1>4, <1>7, <2>1, <2>2, <2>3 DEF Match
  <2>4. CASE m = n \/ j = n
    BY <1>1, <1>2, <1>3, <1>4, <2>1, <2>2, <2>4
  <2> QED BY <2>3, <2>4
<1>8. Match(a, b)
  BY <1>6, <1>7 DEF Match
<1> QED BY <1>8 DEF a, b

\* A new level with more to read disturbs no ENDFOR.
LEMMA PushKept ==
  ASSUME NEW inp \in Seq(Levels), EndforKept(inp), NEW l \in Levels, l.more, l.holds # "endfor"
  PROVE  EndforKept(Append(inp, l))
<1> DEFINE a == Append(inp, l)  n == Len(inp) + 1
<1>1. /\ Len(a) = n /\ a[n] = l /\ Len(inp) \in Nat
      /\ \A j \in 1..Len(inp) : a[j] = inp[j]
  BY PushSeq
<1> HIDE DEF a
<1>2. Pending(a) = Pending(inp)
  BY <1>1 DEF Pending
<1>3. \A k : k \in Turns(a) /\ ~a[k].more <=> k \in Turns(inp) /\ ~inp[k].more
  BY <1>1 DEF Turns
<1>4. \A k \in Turns(inp), p \in Pending(inp) : Waits(a, k, p) <=> Waits(inp, k, p)
  BY <1>1 DEF Turns, Pending, Waits
<1>5. EndforKept(a)
  BY <1>2, <1>3, <1>4 DEF EndforKept
<1> QED BY <1>5 DEF a

-----------------------------------------------------------------------------
(* Operations keep stack and loops together.                               *)

LoopSet == [text : Texts, left : Int]

\* The stack is in order; and so are the turns, unless the program may take an
\* ENDFOR off the input.
Good(s, lp) ==
    StackOK(s) /\ (LoseEnd = FALSE => EndforKept(s.input) /\ Match(s.input, lp))

\* A new list that is no turn.
LEMMA GoodPushed ==
  ASSUME NEW s, NEW lp, Good(s, lp), NEW l \in Levels,
         l.type \in {"macro", "parameter", "backed_up", "inserted"},
         l.param_start = s.param_ptr, l.n > 0 => l.type = "macro", l.more,
         l.holds # "any" => l.type \in {"backed_up", "inserted"}, l.holds # "endfor",
         NEW r, PushOf(s, r, l)
  PROVE  Good(r, lp)
<1>1. StackOK(r)
  BY Pushed DEF Good
<1>2. s \in Scans /\ s.input \in Seq(Levels) /\ r.input = Append(s.input, l)
  BY DEF Good, StackOK, Scans, PushOf
<1>3. ASSUME LoseEnd = FALSE PROVE EndforKept(r.input) /\ Match(r.input, lp)
  <2>1. EndforKept(s.input) /\ Match(s.input, lp)
    BY <1>3 DEF Good
  <2>2. /\ Len(r.input) = Len(s.input) + 1 /\ r.input[Len(s.input) + 1] = l
        /\ Len(s.input) \in Nat /\ \A j \in 1..Len(s.input) : r.input[j] = s.input[j]
    BY <1>2, PushSeq
  <2>3. Turns(r.input) = Turns(s.input) /\ \A k \in Turns(s.input) : s.input[k].text = r.input[k].text
    BY <2>2 DEF Turns
  <2>4. Match(r.input, lp)
    BY <2>1, <2>3, MatchSame
  <2> QED BY <1>2, <2>1, <2>4, PushKept
<1> QED BY <1>1, <1>3 DEF Good

\* The level that begin_token_list makes.
LEMMA LevelType ==
  ASSUME NEW s, s.param_ptr \in Nat, NEW t \in LevelTypes
  PROVE  /\ Level(s, t) \in Levels
         /\ Level(s, t).type = t /\ Level(s, t).more /\ Level(s, t).holds = "any"
         /\ Level(s, t).param_start = s.param_ptr /\ Level(s, t).n = 0
<1>1. Level(s, t) = [type |-> t, more |-> TRUE, holds |-> "any", text |-> null,
                     param_start |-> s.param_ptr, n |-> 0, index |-> 0]
  BY DEF Level
<1> QED BY <1>1 DEF Levels, LevelTypes, Held

\* A new top level that is changed at once is that new level.
LEMMA PushedAndSet ==
  ASSUME NEW S, NEW q \in Seq(S), NEW a \in S, NEW b \in S
  PROVE  Append(Front(Append(q, a)), b) = Append(q, b)
<1>1. Append(q, a) \in Seq(S) /\ Len(Append(q, a)) = Len(q) + 1 /\ Len(q) \in Nat
  BY PushSeq
<1>2. Front(Append(q, a)) = SubSeq(Append(q, a), 1, Len(q))
  BY <1>1 DEF Front
<1>3. @ = q
  BY <1>1
<1> QED BY <1>2, <1>3

\* A list of which nothing is known.
LEMMA GoodList ==
  ASSUME NEW s, NEW lp, Good(s, lp)
  PROVE  Good(begin_token_list(s, "parameter"), lp)
<1> DEFINE l == Level(s, "parameter")
<1>1. s \in Scans /\ s.param_ptr \in Nat /\ s.input \in Seq(Levels)
  BY DEF Good, StackOK, Scans
<1>2. /\ l \in Levels /\ l.type = "parameter" /\ l.more /\ l.holds = "any"
      /\ l.param_start = s.param_ptr /\ l.n = 0
  BY <1>1, LevelType DEF LevelTypes
<1>3. PushOf(s, begin_token_list(s, "parameter"), l)
  <2> HIDE DEF l
  <2>1. Append(s.input, l) \in Seq(Levels)
    BY <1>1, <1>2, PushSeq
  <2>2. begin_token_list(s, "parameter") = [s EXCEPT !.input = Append(@, l)]
    BY DEF begin_token_list, l
  <2> QED BY <1>1, <1>2, <2>1, <2>2 DEF PushOf, Scans
<1> HIDE DEF l
<1> QED BY <1>2, <1>3, GoodPushed

\* A token put back, or inserted.
LEMMA BackListIs ==
  ASSUME NEW s, StackOK(s), NEW t \in {"backed_up", "inserted"}, NEW what \in Held
  PROVE  \E l \in Levels :
           /\ PushOf(s, back_list(s, t, what), l)
           /\ l.type = t /\ l.more /\ l.holds = what /\ l.n = 0 /\ l.param_start = s.param_ptr
<1> DEFINE a == Level(s, t)  l == [Level(s, t) EXCEPT !.holds = what]
<1>1. s \in Scans /\ s.param_ptr \in Nat /\ s.input \in Seq(Levels)
  BY DEF StackOK, Scans
<1>2. /\ a \in Levels /\ a.type = t /\ a.more /\ a.holds = "any"
      /\ a.param_start = s.param_ptr /\ a.n = 0
  BY <1>1, LevelType DEF LevelTypes
<1>3. /\ l \in Levels /\ l.type = t /\ l.more /\ l.holds = what
      /\ l.param_start = s.param_ptr /\ l.n = 0
  BY <1>2 DEF Levels
<1>4. back_list(s, t, what) = [begin_token_list(s, t) EXCEPT !.input = Append(Front(@), l)]
  BY DEF back_list, SetTop
<1> HIDE DEF a, l
<1>5. begin_token_list(s, t) = [s EXCEPT !.input = Append(@, a)]
  BY DEF begin_token_list, a
<1>6. Append(Front(Append(s.input, a)), l) = Append(s.input, l)
  BY <1>1, <1>2, <1>3, PushedAndSet
<1>7. PushOf(s, back_list(s, t, what), l)
  <2>1. Append(s.input, l) \in Seq(Levels)
    BY <1>1, <1>3, PushSeq
  <2> DEFINE u == [s EXCEPT !.input = Append(@, a)]
  <2>2. u \in Scans /\ u.input = Append(s.input, a)
        /\ u.param_ptr = s.param_ptr /\ u.in_open = s.in_open
    <3>1. Append(s.input, a) \in Seq(Levels)
      BY <1>1, <1>2, PushSeq
    <3> QED BY <1>1, <3>1 DEF Scans
  <2>3. back_list(s, t, what) = [u EXCEPT !.input = Append(Front(@), l)]
    BY <1>4, <1>5
  <2> HIDE DEF u
  <2>4. back_list(s, t, what) = [u EXCEPT !.input = Append(s.input, l)]
    BY <1>6, <2>2, <2>3
  <2>5. s.param_ptr = s.param_ptr + l.n
    BY <1>1, <1>3
  <2> QED BY <1>3, <2>1, <2>2, <2>4, <2>5 DEF PushOf, Scans
<1> QED BY <1>3, <1>7

\* Tokens put back other than ENDFOR leave stack and loops in order.
LEMMA GoodBack ==
  ASSUME NEW s, NEW lp, Good(s, lp), NEW t \in {"backed_up", "inserted"},
         NEW what \in Held, what # "endfor"
  PROVE  Good(back_list(s, t, what), lp)
<1>1. PICK l \in Levels :
           /\ PushOf(s, back_list(s, t, what), l)
           /\ l.type = t /\ l.more /\ l.holds = what /\ l.n = 0 /\ l.param_start = s.param_ptr
  <2>1. StackOK(s)
    BY DEF Good
  <2> QED BY <2>1, BackListIs
<1> QED BY <1>1, GoodPushed

\* The arguments of a macro, or the value of a loop, are stacked on a new list.
LEMMA StackedIs ==
  ASSUME NEW s, s \in Scans, NEW b \in Levels, NEW j \in Nat,
         b.param_start = s.param_ptr
  PROVE  LET u == [s EXCEPT !.input = Append(@, b)]  l == [b EXCEPT !.n = j]
         IN  PushOf(s, stack_argument(u, j), l) /\ l \in Levels
<1> DEFINE u == [s EXCEPT !.input = Append(@, b)]  l == [b EXCEPT !.n = j]
           v == [u EXCEPT !.param_ptr = @ + j]
<1>1. s.input \in Seq(Levels) /\ s.param_ptr \in Nat /\ s.in_open \in Nat
  BY DEF Scans
<1>2. l \in Levels /\ l.n = j
  BY DEF Levels
<1>3. Append(s.input, b) \in Seq(Levels) /\ Append(s.input, l) \in Seq(Levels)
  <2> HIDE DEF l
  <2> QED BY <1>1, <1>2, PushSeq
<1>4. u \in Scans /\ u.input = Append(s.input, b) /\ u.param_ptr = s.param_ptr
      /\ u.in_open = s.in_open
  BY <1>3 DEF Scans
<1>5. Top(u) = b
  <2>1. Len(Append(s.input, b)) = Len(s.input) + 1 /\ Append(s.input, b)[Len(s.input) + 1] = b
    BY <1>1, PushSeq
  <2> HIDE DEF u
  <2> QED BY <1>4, <2>1 DEF Top, Last
<1> HIDE DEF u
<1>6. v \in Scans /\ v.input = Append(s.input, b) /\ v.param_ptr = s.param_ptr + j
      /\ v.in_open = s.in_open
  BY <1>1, <1>4 DEF Scans
<1>7. stack_argument(u, j) = [v EXCEPT !.input = Append(Front(@), l)]
  BY <1>5 DEF stack_argument, SetTop
<1> HIDE DEF v, l
<1>8. stack_argument(u, j) = [v EXCEPT !.input = Append(s.input, l)]
  <2>1. Append(Front(Append(s.input, b)), l) = Append(s.input, l)
    BY <1>1, <1>2, PushedAndSet
  <2> QED BY <1>6, <1>7, <2>1
<1>9. PushOf(s, stack_argument(u, j), l)
  BY <1>2, <1>3, <1>6, <1>8 DEF PushOf, Scans
<1> QED BY <1>2, <1>9 DEF u, l

\* A macro's text with its arguments.
LEMMA GoodMacro ==
  ASSUME NEW s, NEW lp, Good(s, lp), NEW j \in Nat
  PROVE  Good(stack_argument(begin_token_list(s, "macro"), j), lp)
<1> DEFINE b == Level(s, "macro")  l == [b EXCEPT !.n = j]
<1>1. s \in Scans /\ s.param_ptr \in Nat
  BY DEF Good, StackOK, Scans
<1>2. /\ b \in Levels /\ b.type = "macro" /\ b.more /\ b.holds = "any"
      /\ b.param_start = s.param_ptr
  BY <1>1, LevelType DEF LevelTypes
<1>3. /\ l.type = "macro" /\ l.more /\ l.holds = "any" /\ l.param_start = s.param_ptr
  BY <1>2 DEF Levels
<1>4. begin_token_list(s, "macro") = [s EXCEPT !.input = Append(@, b)]
  BY DEF begin_token_list
<1> HIDE DEF b
<1>5. PushOf(s, stack_argument(begin_token_list(s, "macro"), j), l) /\ l \in Levels
  BY <1>1, <1>2, <1>4, StackedIs
<1> HIDE DEF l
<1> QED BY <1>3, <1>5, GoodPushed

\* Another turn of a loop, with or without a value.
LEMMA GoodTurn ==
  ASSUME NEW s, NEW lp \in Seq(LoopSet), Good(s, lp), NEW e \in LoopSet,
         LoseEnd = FALSE => \A i \in 1..Len(lp) : lp[i].text # e.text,
         NEW l \in Levels, l.type = "loop", l.text = e.text, l.more, l.holds = "any",
         l.param_start = s.param_ptr, NEW r, PushOf(s, r, l)
  PROVE  Good(r, Append(lp, e))
<1>1. StackOK(r)
  BY Pushed DEF Good
<1>2. s \in Scans /\ s.input \in Seq(Levels) /\ r.input = Append(s.input, l)
  BY DEF Good, StackOK, Scans, PushOf
<1>3. ASSUME LoseEnd = FALSE PROVE EndforKept(r.input) /\ Match(r.input, Append(lp, e))
  <2>1. EndforKept(s.input) /\ Match(s.input, lp)
    BY <1>3 DEF Good
  <2>2. EndforKept(r.input)
    BY <1>2, <2>1, PushKept
  <2> QED BY <1>2, <1>3, <2>1, <2>2, MatchPush
<1> QED BY <1>1, <1>3 DEF Good

\* A new file or string.
LEMMA GoodOpened ==
  ASSUME NEW s, NEW lp, Good(s, lp), NEW t \in {"file", "string"}
  PROVE  Good(begin_file_reading(s, t), lp)
<1> DEFINE l == [Level(s, t) EXCEPT !.index = s.in_open + 1]  r == begin_file_reading(s, t)
<1>1. StackOK(r)
  BY Opened DEF Good
<1>2. s \in Scans /\ s.input \in Seq(Levels) /\ s.param_ptr \in Nat /\ s.in_open \in Nat
  BY DEF Good, StackOK, Scans
<1>3. l \in Levels /\ l.type = t /\ l.more /\ l.holds = "any"
  <2>1. /\ Level(s, t) \in Levels /\ Level(s, t).type = t /\ Level(s, t).more
        /\ Level(s, t).holds = "any"
    BY <1>2, LevelType DEF LevelTypes
  <2>2. s.in_open + 1 \in Nat
    BY <1>2
  <2> QED BY <2>1, <2>2 DEF Levels
<1>4. r.input = Append(s.input, l)
  <2> HIDE DEF l
  <2> QED BY <1>2 DEF begin_file_reading, Scans, l
<1> HIDE DEF l, r
<1>5. ASSUME LoseEnd = FALSE PROVE EndforKept(r.input) /\ Match(r.input, lp)
  <2>1. EndforKept(s.input) /\ Match(s.input, lp)
    BY <1>5 DEF Good
  <2>2. /\ Len(r.input) = Len(s.input) + 1 /\ r.input[Len(s.input) + 1] = l
        /\ Len(s.input) \in Nat /\ \A j \in 1..Len(s.input) : r.input[j] = s.input[j]
    BY <1>2, <1>3, <1>4, PushSeq
  <2>3. Turns(r.input) = Turns(s.input) /\ \A k \in Turns(s.input) : s.input[k].text = r.input[k].text
    BY <1>3, <2>2 DEF Turns
  <2>4. Match(r.input, lp)
    BY <2>1, <2>3, MatchSame
  <2> QED BY <1>2, <1>3, <1>4, <2>1, <2>4, PushKept
<1> QED BY <1>1, <1>5 DEF Good, r

\* Levels go that are no turns and where no ENDFOR waits.
LEMMA GoodPrefix ==
  ASSUME NEW s, NEW lp, Good(s, lp), NEW r, StackOK(r), NEW m \in 0..Len(s.input),
         r.input = SubSeq(s.input, 1, m),
         \A j \in (m + 1)..Len(s.input) : ~s.input[j].more \/ file_state(s.input[j])
  PROVE  Good(r, lp)
<1>1. s.input \in Seq(Levels) /\ Bottom(s.input)
  BY DEF Good, StackOK, Scans
<1>2. ASSUME LoseEnd = FALSE PROVE EndforKept(r.input) /\ Match(r.input, lp)
  <2>1. EndforKept(s.input) /\ Match(s.input, lp)
    BY <1>2 DEF Good
  <2>2. \A j \in (m + 1)..Len(s.input) :
           /\ j \notin Pending(s.input)
           /\ j \in Turns(s.input) => ~s.input[j].more
    BY <1>1 DEF Pending, Turns, Bottom, file_state
  <2>3. EndforKept(r.input) /\ Turns(r.input) = Turns(s.input)
    BY <1>1, <2>1, <2>2, Dropped
  <2>4. \A k \in Turns(s.input) : s.input[k].text = r.input[k].text
    <3>1. Len(r.input) = m /\ \A j \in 1..m : r.input[j] = s.input[j]
      BY <1>1, PrefixSeq
    <3> QED BY <2>3, <3>1 DEF Turns
  <2> QED BY <2>1, <2>3, <2>4, MatchSame
<1> QED BY <1>2 DEF Good

\* Leaving what is read to its end.
LEMMA GoodConserved ==
  ASSUME NEW s, NEW lp, Good(s, lp)
  PROVE  Good(Conserved(s), lp)
<1>1. StackOK(s) /\ s.input \in Seq(Levels)
  BY DEF Good, StackOK, Scans
<1>2. PICK k \in 1..Len(s.input) :
            /\ StackOK(Conserved(s)) /\ Conserved(s).input = SubSeq(s.input, 1, k)
            /\ \A j \in (k + 1)..Len(s.input) : ~s.input[j].more /\ ~file_state(s.input[j])
  BY <1>1, ConservedTo
<1>3. k \in 0..Len(s.input)
  OBVIOUS
<1> QED BY <1>2, <1>3, GoodPrefix

\* Leaving the top level, a file or one that has been read to its end.
LEMMA GoodPop ==
  ASSUME NEW s, NEW lp, Good(s, lp), ~Top(s).more \/ Top(s).type = "file",
         Top(s).type # "terminal"
  PROVE  Good(PopLevel(s), lp)
<1>1. /\ StackOK(s) /\ s.input \in Seq(Levels) /\ Len(s.input) \in Nat /\ Len(s.input) >= 1
      /\ s.input[1].type = "terminal"
  BY DEF Good, StackOK, Scans, Bottom
<1>2. Top(s) = s.input[Len(s.input)]
  BY DEF Top, Last
<1>3. Len(s.input) >= 2
  BY <1>1, <1>2
<1>4. StackOK(PopLevel(s)) /\ PopLevel(s).input = SubSeq(s.input, 1, Len(s.input) - 1)
  BY <1>1, <1>3, Popped DEF Front
<1>5. /\ Len(s.input) - 1 \in 0..Len(s.input)
      /\ \A j \in (Len(s.input) - 1 + 1)..Len(s.input) :
            ~s.input[j].more \/ file_state(s.input[j])
  BY <1>1, <1>2, <1>3 DEF file_state
<1> QED BY <1>4, <1>5, GoodPrefix

\* After a token has been read only the top level is different, and only in
\* whether there is more.
LEMMA ReadIs ==
  ASSUME StackOK(scan), NEW w \in Held \cup {"normal"}, NEW s \in Reads(w)
  PROVE  /\ status = "ok" /\ StackOK(s)
         /\ Len(s.input) = Len(scan.input)
         /\ \A j \in 1..(Len(scan.input) - 1) : s.input[j] = scan.input[j]
         /\ s.input[Len(scan.input)] \in Levels
         /\ Top(s).type = Top(scan).type /\ Top(s).text = Top(scan).text
         /\ Top(s).holds = Top(scan).holds
         /\ Top(scan).more /\ w \in Comes(Top(scan)) /\ Top(s).more \in MoreAfter(Top(scan), w)
<1> DEFINE l == Top(scan)  q == scan.input
<1>1. status = "ok" /\ l.more /\ w \in Comes(l)
  BY DEF Reads
<1>2. PICK m \in MoreAfter(l, w) : s = SetTop(scan, [l EXCEPT !.more = m])
  BY <1>1 DEF Reads
<1>3. /\ scan \in Scans /\ q \in Seq(Levels) /\ Len(q) \in Nat /\ Len(q) >= 1
      /\ scan.param_ptr \in Nat /\ Bottom(q)
  BY DEF StackOK, Scans, Bottom
<1>4. l = q[Len(q)] /\ l \in Levels
  BY <1>3 DEF Top, Last
<1>5. m \in BOOLEAN
  BY <1>2 DEF MoreAfter
<1> DEFINE e == [l EXCEPT !.more = m]
<1>6. /\ e \in Levels /\ e.type = l.type /\ e.text = l.text /\ e.holds = l.holds /\ e.n = l.n
      /\ e.param_start = l.param_start /\ e.index = l.index /\ e.more = m
  BY <1>4, <1>5 DEF Levels
<1>7. scan.param_ptr = e.param_start + e.n
  BY <1>4, <1>6 DEF StackOK, ParamsEnd
<1>8. /\ e.n > 0 => e.type \in {"macro", "loop"}
      /\ e.holds # "any" => e.type \in {"backed_up", "inserted"}
      /\ e.holds = "endfor" => e.type = "backed_up"
  BY <1>3, <1>4, <1>6 DEF Bottom
<1>9. e.type = "terminal" => e.more
  <2> SUFFICES ASSUME e.type = "terminal" PROVE m
    BY <1>6
  <2>1. l.holds = "any" /\ l.type = "terminal"
    BY <1>3, <1>4, <1>6 DEF Bottom
  <2>2. w = "any"
    BY <1>1, <2>1 DEF Comes
  <2>3. MoreAfter(l, w) = {TRUE}
    BY <2>1, <2>2 DEF MoreAfter
  <2> QED BY <1>2, <2>3
<1> HIDE DEF e
<1>10. s = [scan EXCEPT !.input = Append(Front(@), e), !.param_ptr = scan.param_ptr]
  <2>1. s = [scan EXCEPT !.input = Append(Front(@), e)]
    BY <1>2 DEF SetTop, e
  <2> QED BY <1>3, <2>1 DEF Scans
<1>11. StackOK(s)
  BY <1>4, <1>6, <1>7, <1>8, <1>9, <1>10, Retopped
<1>12. s.input = Append(Front(q), e)
  BY <1>3, <1>10 DEF Scans
<1>13. /\ Len(s.input) = Len(q) /\ s.input[Len(q)] = e
       /\ \A j \in 1..(Len(q) - 1) : s.input[j] = q[j]
  BY <1>3, <1>6, <1>12, TopSeq
<1>14. Top(s) = e
  BY <1>13 DEF Top, Last
<1> QED BY <1>1, <1>2, <1>6, <1>11, <1>13, <1>14

\* Any token but ENDFOR.
LEMMA GoodRead ==
  ASSUME Good(scan, loops), NEW w \in Held \cup {"normal"}, w # "endfor", NEW s \in Reads(w)
  PROVE  status = "ok" /\ Good(s, loops)
<1> DEFINE q == scan.input  n == Len(q)
<1>1. StackOK(scan) /\ q \in Seq(Levels) /\ n \in Nat /\ n >= 1 /\ Bottom(q)
  BY DEF Good, StackOK, Scans, Bottom
<1>2. /\ status = "ok" /\ StackOK(s) /\ Len(s.input) = n
      /\ \A j \in 1..(n - 1) : s.input[j] = q[j]
      /\ Top(s).type = Top(scan).type /\ Top(s).text = Top(scan).text
      /\ Top(s).holds = Top(scan).holds
      /\ Top(scan).more /\ w \in Comes(Top(scan)) /\ Top(s).more \in MoreAfter(Top(scan), w)
  BY <1>1, ReadIs
<1>3. Top(scan) = q[n] /\ Top(s) = s.input[n]
  BY <1>2 DEF Top, Last
<1>4. q[n].holds # "endfor"
  BY <1>2, <1>3 DEF Comes
<1>5. q[n].type = "loop" => s.input[n].more
  <2> SUFFICES ASSUME q[n].type = "loop" PROVE s.input[n].more
    OBVIOUS
  <2>1. q[n].holds = "any"
    BY <1>1 DEF Bottom
  <2>2. w = "any"
    BY <1>2, <1>3, <2>1 DEF Comes
  <2> QED BY <1>2, <1>3, <2>2 DEF MoreAfter
<1> HIDE DEF q, n
<1>6. ASSUME LoseEnd = FALSE PROVE EndforKept(s.input) /\ Match(s.input, loops)
  <2>1. EndforKept(q) /\ Match(q, loops)
    BY <1>6 DEF Good, q
  <2>2. Len(q) = n
    BY DEF n
  <2>3. Turns(s.input) = Turns(q) /\ \A k \in Turns(q) : q[k].text = s.input[k].text
    BY <1>1, <1>2, <1>3, <2>2 DEF Turns
  <2>4. \A k \in Turns(q) : q[k].more <=> s.input[k].more
    BY <1>1, <1>2, <1>3, <1>5, <2>2 DEF Turns
  <2>5. Pending(s.input) = Pending(q)
    BY <1>1, <1>2, <1>3, <1>4, <2>2 DEF Pending
  <2>6. \A k \in Turns(q), p \in Pending(q) : Waits(q, k, p) <=> Waits(s.input, k, p)
    BY <1>1, <1>2, <2>2 DEF Turns, Pending, Waits
  <2>7. EndforKept(s.input)
    BY <2>1, <2>3, <2>4, <2>5, <2>6 DEF EndforKept
  <2>8. Match(s.input, loops)
    BY <1>2, <2>1, <2>2, <2>3, MatchSame
  <2> QED BY <2>7, <2>8
<1> QED BY <1>2, <1>6 DEF Good

\* ENDFOR has been read, and its turn is below what has been read to its end.
Ended(inp, k) ==
    /\ k \in Turns(inp) /\ ~inp[k].more
    /\ \A j \in (k + 1)..Len(inp) : ~inp[j].more /\ inp[j].type = "backed_up"

\* What reading ENDFOR leaves.
LEMMA ReadEndIs ==
  ASSUME StackOK(scan), NEW s \in Reads("endfor")
  PROVE  LET n == Len(scan.input) IN
         /\ status = "ok" /\ StackOK(s)
         /\ s.input \in Seq(Levels) /\ Len(s.input) = n /\ n \in Nat /\ n >= 1
         /\ \A j \in 1..(n - 1) : s.input[j] = scan.input[j]
         /\ scan.input[n].more /\ ~s.input[n].more
         /\ s.input[n].type = scan.input[n].type /\ s.input[n].text = scan.input[n].text
         /\ s.input[n].holds = scan.input[n].holds
         /\ \/ scan.input[n].type = "loop" /\ scan.input[n].holds = "any"
            \/ scan.input[n].type = "backed_up" /\ scan.input[n].holds = "endfor"
<1> DEFINE q == scan.input  n == Len(q)
<1>1. q \in Seq(Levels) /\ n \in Nat /\ n >= 1 /\ Bottom(q)
  BY DEF StackOK, Scans, Bottom
<1>2. /\ status = "ok" /\ StackOK(s) /\ Len(s.input) = n
      /\ \A j \in 1..(n - 1) : s.input[j] = q[j]
      /\ Top(s).type = Top(scan).type /\ Top(s).text = Top(scan).text
      /\ Top(s).holds = Top(scan).holds
      /\ Top(scan).more /\ "endfor" \in Comes(Top(scan))
      /\ Top(s).more \in MoreAfter(Top(scan), "endfor")
  BY ReadIs, "endfor" \in Held \cup {"normal"} DEF Held
<1>3. Top(scan) = q[n] /\ Top(s) = s.input[n]
  BY <1>2 DEF Top, Last
<1>4. \/ q[n].type = "loop" /\ q[n].holds = "any"
      \/ q[n].type = "backed_up" /\ q[n].holds = "endfor"
  BY <1>1, <1>2, <1>3 DEF Comes, Bottom
<1>5. ~s.input[n].more
  BY <1>2, <1>3 DEF MoreAfter
<1>6. s.input \in Seq(Levels)
  BY <1>2 DEF StackOK, Scans
<1> QED BY <1>1, <1>2, <1>3, <1>4, <1>5, <1>6

\* ENDFOR is read: one turn has ended, and below it everything is as before.
LEMMA ReadEnd ==
  ASSUME Good(scan, loops), NEW s \in Reads("endfor"), LoseEnd = FALSE
  PROVE  /\ Match(s.input, loops)
         /\ \E k \in 2..Len(s.input) :
               Ended(s.input, k) /\ EndforKept(SubSeq(s.input, 1, k - 1))
<1> DEFINE q == scan.input  n == Len(q)
<1>1. StackOK(scan) /\ q \in Seq(Levels) /\ Bottom(q) /\ EndforKept(q) /\ Match(q, loops)
  BY DEF Good, StackOK, Scans
<1>2. /\ s.input \in Seq(Levels) /\ Len(s.input) = n /\ n \in Nat /\ n >= 1
      /\ \A j \in 1..(n - 1) : s.input[j] = q[j]
      /\ q[n].more /\ ~s.input[n].more
      /\ s.input[n].type = q[n].type /\ s.input[n].text = q[n].text
      /\ \/ q[n].type = "loop" /\ q[n].holds = "any"
         \/ q[n].type = "backed_up" /\ q[n].holds = "endfor"
  BY <1>1, ReadEndIs
<1> HIDE DEF q, n
<1>a. Len(q) = n
  BY DEF n
<1>3. Match(s.input, loops)
  <2>1. Turns(s.input) = Turns(q) /\ \A k \in Turns(q) : q[k].text = s.input[k].text
    BY <1>2, <1>a DEF Turns
  <2> QED BY <1>1, <2>1, MatchSame
<1>4. ASSUME NEW k \in Turns(q), k - 1 < n PROVE EndforKept(SubSeq(s.input, 1, k - 1)) /\ k \in 2..n
  <2>1. k \in 1..n /\ k # 1 /\ k - 1 \in 0..n
    BY <1>1, <1>2, <1>a DEF Turns, Bottom
  <2>2. SubSeq(s.input, 1, k - 1) = SubSeq(q, 1, k - 1)
    BY <1>1, <1>2, <1>a, <1>4, <2>1
  <2>3. EndforKept(SubSeq(q, 1, k - 1))
    BY <1>1, CutTurn
  <2>4. EndforKept(SubSeq(s.input, 1, k - 1))
    BY <2>2, <2>3, Zenon
  <2>5. k \in 2..n
    BY <1>2, <2>1
  <2> QED BY <2>4, <2>5
<1>5. CASE q[n].type = "loop"
  <2>1. n \in Turns(q) /\ n - 1 < n
    BY <1>2, <1>5, <1>a DEF Turns
  <2>2. Ended(s.input, n)
    BY <1>2, <1>5 DEF Ended, Turns
  <2> QED BY <1>2, <1>3, <1>4, <2>1, <2>2
<1>6. CASE q[n].type = "backed_up" /\ q[n].holds = "endfor"
  <2>1. n \in Pending(q)
    BY <1>2, <1>6, <1>a DEF Pending
  <2>2. PICK k \in Turns(q) : ~q[k].more /\ Waits(q, k, n)
    BY <1>1, <2>1 DEF EndforKept
  <2>3. k \in 1..(n - 1) /\ k - 1 < n
    BY <1>2, <1>a, <2>2 DEF Turns, Waits
  <2>4. \A j \in (k + 1)..n : ~s.input[j].more /\ s.input[j].type = "backed_up"
    <3> TAKE j \in (k + 1)..n
    <3>1. CASE j = n
      BY <1>2, <1>6, <3>1
    <3>2. CASE j # n
      BY <1>2, <2>2, <2>3, <3>2 DEF Waits
    <3> QED BY <3>1, <3>2
  <2>5. Ended(s.input, k)
    BY <1>2, <2>2, <2>3, <2>4, <1>a DEF Ended, Turns
  <2> QED BY <1>2, <1>3, <1>4, <2>3, <2>5
<1> QED BY <1>2, <1>5, <1>6

\* ENDFOR comes too early, and is put back.
LEMMA ReadEndBack ==
  ASSUME Good(scan, loops), NEW s \in Reads("endfor")
  PROVE  Good(back_list(s, "backed_up", "endfor"), loops)
<1> DEFINE q == scan.input  n == Len(q)  r == back_list(s, "backed_up", "endfor")
<1>1. StackOK(scan) /\ q \in Seq(Levels) /\ Bottom(q)
  BY DEF Good, StackOK, Scans
<1>2. /\ StackOK(s) /\ s.input \in Seq(Levels) /\ Len(s.input) = n /\ n \in Nat /\ n >= 1
      /\ \A j \in 1..(n - 1) : s.input[j] = q[j]
      /\ q[n].more /\ ~s.input[n].more
      /\ s.input[n].type = q[n].type /\ s.input[n].text = q[n].text
      /\ s.input[n].holds = q[n].holds
      /\ \/ q[n].type = "loop" /\ q[n].holds = "any"
         \/ q[n].type = "backed_up" /\ q[n].holds = "endfor"
  BY <1>1, ReadEndIs
<1>3. PICK l \in Levels :
           /\ PushOf(s, r, l)
           /\ l.type = "backed_up" /\ l.more /\ l.holds = "endfor" /\ l.n = 0
           /\ l.param_start = s.param_ptr
  BY <1>2, BackListIs, "endfor" \in Held DEF Held
<1> HIDE DEF q, n, r
<1>4. StackOK(r)
  BY <1>2, <1>3, Pushed
<1>5. /\ Len(r.input) = n + 1 /\ r.input[n + 1] = l
      /\ \A j \in 1..n : r.input[j] = s.input[j]
  BY <1>2, <1>3, PushSeq DEF PushOf
<1>6. ASSUME LoseEnd = FALSE PROVE EndforKept(r.input) /\ Match(r.input, loops)
  <2>1. PICK k \in 2..Len(s.input) : Ended(s.input, k)
    BY <1>6, ReadEnd
  <2>2. EndforKept(q) /\ Match(q, loops) /\ Len(q) = n
    BY <1>6 DEF Good, q, n
  <2>3. Turns(r.input) = Turns(q) /\ \A j \in Turns(q) : q[j].text = r.input[j].text
    <3>1. r.input[n + 1].type # "loop"
      BY <1>3, <1>5
    <3>2. ASSUME NEW j \in 1..n
          PROVE  q[j].text = r.input[j].text /\ q[j].type = r.input[j].type
      <4>1. CASE j = n
        BY <1>5, <1>2, <4>1
      <4>2. CASE j # n
        <5>1. j \in 1..(n - 1)
          BY <1>2, <4>2
        <5> QED BY <1>2, <1>5, <3>2, <5>1
      <4> QED BY <4>1, <4>2
    <3>3. ASSUME NEW j PROVE j \in Turns(r.input) <=> j \in Turns(q)
      <4>1. j \in Turns(r.input) <=> j \in 1..(n + 1) /\ r.input[j].type = "loop"
        BY <1>5 DEF Turns
      <4>2. j \in Turns(q) <=> j \in 1..n /\ q[j].type = "loop"
        BY <2>2 DEF Turns
      <4> QED BY <1>2, <3>1, <3>2, <4>1, <4>2
    <3>4. \A j \in Turns(q) : j \in 1..n
      BY <2>2 DEF Turns
    <3> QED BY <3>2, <3>3, <3>4
  <2>4. Match(r.input, loops)
    BY <2>2, <2>3, MatchSame
  <2>5. \A p : p \in Pending(r.input) <=> p = n + 1 \/ (p \in Pending(q) /\ p # n)
    BY <1>2, <1>3, <1>5, <2>2 DEF Pending
  <2>6. \A j \in Turns(q), p \in Pending(q) : p < n /\ Waits(q, j, p) => Waits(r.input, j, p)
    BY <1>2, <1>5, <2>2 DEF Waits, Turns, Pending
  <2>7. ASSUME NEW j \in Turns(q), n \in Pending(q), Waits(q, j, n)
        PROVE  Waits(r.input, j, n + 1)
    <3>1. n # j /\ j \in 1..n /\ q[n].type = "backed_up"
      BY <1>2, <2>2, <2>7 DEF Turns, Pending, Waits
    <3>2. \A i \in (j + 1)..n : ~r.input[i].more /\ r.input[i].type = "backed_up"
      <4> TAKE i \in (j + 1)..n
      <4>1. CASE i = n
        <5>1. n \in 1..n
          BY <1>2
        <5>2. r.input[n] = s.input[n]
          BY <1>5, <5>1
        <5> QED BY <1>2, <3>1, <4>1, <5>2
      <4>2. CASE i # n
        BY <1>2, <1>5, <2>7, <3>1, <4>2 DEF Waits
      <4> QED BY <4>1, <4>2
    <3> QED BY <1>2, <3>1, <3>2 DEF Waits
  <2>8. Waits(r.input, k, n + 1) /\ k \in Turns(r.input) /\ ~r.input[k].more
    BY <1>2, <1>5, <2>1 DEF Ended, Waits, Turns
  <2>9. ASSUME NEW j \in Turns(r.input), ~r.input[j].more
        PROVE  \E p \in Pending(r.input) : Waits(r.input, j, p)
    <3>1. j \in Turns(q) /\ j \in 1..n
      BY <2>2, <2>3 DEF Turns
    <3>2. CASE q[j].more
      <4>1. j = n
        BY <1>2, <1>5, <2>9, <3>1, <3>2
      <4>2. Waits(r.input, n, n + 1)
        BY <1>2 DEF Waits
      <4>3. n + 1 \in Pending(r.input)
        BY <2>5
      <4> QED BY <4>1, <4>2, <4>3
    <3>3. CASE ~q[j].more
      <4>1. PICK p \in Pending(q) : Waits(q, j, p)
        BY <2>2, <3>1, <3>3 DEF EndforKept
      <4>2. p \in 1..n
        BY <2>2 DEF Pending
      <4> QED BY <1>2, <2>5, <2>6, <2>7, <3>1, <4>1, <4>2
    <3> QED BY <3>2, <3>3
  <2>10. ASSUME NEW p \in Pending(r.input)
         PROVE  \E j \in Turns(r.input) : ~r.input[j].more /\ Waits(r.input, j, p)
    <3>1. CASE p = n + 1
      BY <2>8, <3>1
    <3>2. CASE p # n + 1
      <4>1. p \in Pending(q) /\ p < n
        BY <2>2, <2>5, <3>2 DEF Pending
      <4>2. PICK j \in Turns(q) : ~q[j].more /\ Waits(q, j, p)
        BY <2>2, <4>1 DEF EndforKept
      <4>3. j \in 1..(n - 1)
        BY <2>2, <4>1, <4>2 DEF Waits, Turns, Pending
      <4> QED BY <1>2, <1>5, <2>3, <2>6, <4>1, <4>2, <4>3
    <3> QED BY <3>1, <3>2
  <2> QED BY <2>4, <2>9, <2>10 DEF EndforKept
<1>7. Good(r, loops)
  BY <1>4, <1>6 DEF Good
<1> QED BY <1>7 DEF r

-----------------------------------------------------------------------------
(* Routines under way and open conditions.                                 *)

CallSet == [kind : {"cond"}, at : Nodes, limit : {fi_code, else_if_code}]
             \cup [kind : {"skip"}, at : Nodes \cup {null}]
             \cup [kind : {"values", "exit", "text", "params", "def", "next"}]
             \cup [kind : {"body"}, left : Int] \cup [kind : {"args"}, n : Nat]
CondSet == [node : Nodes, limit : {if_code, fi_code, else_code, else_if_code}]

RawKinds == {"skip", "text", "body", "params", "def"}
OpenConds(cs) == {i \in 1..Len(cs) : cs[i].limit = if_code}
Waiting(fs) == {j \in 1..Len(fs) : fs[j].kind \in {"cond", "skip"} /\ fs[j].at # null}

\* The open conditions are those that a routine waits for, in order.
Limits(cs, fs) ==
    /\ {cs[i].node : i \in OpenConds(cs)} = {fs[j].at : j \in Waiting(fs)}
    /\ \A i, k \in OpenConds(cs), j, m \in Waiting(fs) :
          cs[i].node = fs[j].at /\ cs[k].node = fs[m].at => (i < k <=> j < m)

\* Only the innermost routine reads raw tokens; when it skips the rest of a
\* true condition, the innermost condition is that one or one inside it.
Routines(cs, fs) ==
    /\ cs \in Seq(CondSet) /\ fs \in Seq(CallSet)
    /\ \A i, k \in 1..Len(cs) : cs[i].node = cs[k].node => i = k
    /\ \A j \in 1..(Len(fs) - 1) : fs[j].kind \notin RawKinds
    /\ Len(fs) >= 1 /\ fs[Len(fs)].kind = "skip" /\ fs[Len(fs)].at = null
          => Len(cs) >= 1 /\ cs[Len(cs)].limit # if_code
    /\ Limits(cs, fs)

\* What IfLimitsKept says is part of it.
LEMMA LimitsAre ==
  ASSUME Routines(conds, calls) PROVE IfLimitsKept
<1>1. DOMAIN conds = 1..Len(conds) /\ DOMAIN calls = 1..Len(calls)
  BY DEF Routines
<1> QED BY <1>1 DEF Routines, Limits, OpenConds, Waiting, IfLimitsKept

\* Only the routines that wait, and the conditions that are open, matter.
LEMMA LimitsSame ==
  ASSUME NEW cs, NEW fs, NEW ds, NEW gs, Limits(cs, fs),
         OpenConds(cs) = OpenConds(ds), \A i \in OpenConds(cs) : cs[i].node = ds[i].node,
         Waiting(fs) = Waiting(gs), \A j \in Waiting(fs) : fs[j].at = gs[j].at
  PROVE  Limits(ds, gs)
<1>1. {ds[i].node : i \in OpenConds(ds)} = {cs[i].node : i \in OpenConds(cs)}
  OBVIOUS
<1>2. {gs[j].at : j \in Waiting(gs)} = {fs[j].at : j \in Waiting(fs)}
  OBVIOUS
<1> QED BY <1>1, <1>2 DEF Limits

\* The routine that waits innermost waits for the innermost open condition.
LEMMA LimitsLast ==
  ASSUME NEW cs, NEW fs, Routines(cs, fs), NEW h \in Waiting(fs), \A j \in Waiting(fs) : j <= h
  PROVE  \E k \in OpenConds(cs) : /\ cs[k].node = fs[h].at
                                  /\ \A i \in OpenConds(cs) : i <= k
<1>1. PICK k \in OpenConds(cs) : cs[k].node = fs[h].at
  <2>1. fs[h].at \in {fs[j].at : j \in Waiting(fs)}
    OBVIOUS
  <2>2. {cs[i].node : i \in OpenConds(cs)} = {fs[j].at : j \in Waiting(fs)}
    BY DEF Routines, Limits
  <2> QED BY <2>1, <2>2
<1>2. ASSUME NEW i \in OpenConds(cs) PROVE i <= k
  <2>1. PICK j \in Waiting(fs) : cs[i].node = fs[j].at
    <3>1. cs[i].node \in {cs[x].node : x \in OpenConds(cs)}
      OBVIOUS
    <3>2. {cs[x].node : x \in OpenConds(cs)} = {fs[j].at : j \in Waiting(fs)}
      BY DEF Routines, Limits
    <3> QED BY <3>1, <3>2
  <2>2. k < i <=> h < j
    BY <1>1, <2>1 DEF Routines, Limits
  <2>3. j <= h /\ j \in Int /\ h \in Int /\ i \in Int /\ k \in Int
    BY DEF Waiting, OpenConds
  <2> QED BY <2>2, <2>3
<1> QED BY <1>1, <1>2

\* Another routine on top in the place of the last one, both for the same
\* condition or for none.
LEMMA CallsTop ==
  ASSUME NEW cs, NEW fs, Routines(cs, fs), Len(fs) >= 1, NEW f \in CallSet,
         NEW top, top = fs[Len(fs)],
         \/ top.kind \notin {"cond", "skip"} /\ f.kind \notin {"cond", "skip"}
         \/ /\ top.kind \in {"cond", "skip"} /\ f.kind \in {"cond", "skip"}
            /\ top.at = f.at /\ f.at # null
  PROVE  Routines(cs, Append(Front(fs), f))
<1> DEFINE gs == Append(Front(fs), f)
<1>1. cs \in Seq(CondSet) /\ fs \in Seq(CallSet) /\ Limits(cs, fs) /\ Len(fs) \in Nat
  BY DEF Routines
<1>2. /\ gs \in Seq(CallSet) /\ Len(gs) = Len(fs) /\ gs[Len(fs)] = f
      /\ \A j \in 1..(Len(fs) - 1) : gs[j] = fs[j]
  BY <1>1, TopSeq
<1> HIDE DEF gs
<1>3. Waiting(gs) = Waiting(fs) /\ \A j \in Waiting(fs) : fs[j].at = gs[j].at
  BY <1>1, <1>2 DEF Waiting
<1>4. Limits(cs, gs)
  BY <1>1, <1>3, LimitsSame
<1>5. Routines(cs, gs)
  BY <1>1, <1>2, <1>4 DEF Routines
<1> QED BY <1>5 DEF gs

\* A new routine that waits for no condition.
LEMMA CallsPush ==
  ASSUME NEW cs, NEW fs, Routines(cs, fs), NEW f \in CallSet,
         Len(fs) >= 1 => fs[Len(fs)].kind \notin RawKinds,
         f.kind \in {"cond", "skip"} =>
            f.kind = "skip" /\ f.at = null /\ Len(cs) >= 1 /\ cs[Len(cs)].limit # if_code
  PROVE  Routines(cs, Append(fs, f))
<1> DEFINE gs == Append(fs, f)
<1>1. cs \in Seq(CondSet) /\ fs \in Seq(CallSet) /\ Limits(cs, fs) /\ Len(fs) \in Nat
  BY DEF Routines
<1>2. /\ gs \in Seq(CallSet) /\ Len(gs) = Len(fs) + 1 /\ gs[Len(fs) + 1] = f
      /\ \A j \in 1..Len(fs) : gs[j] = fs[j]
  BY <1>1, PushSeq
<1> HIDE DEF gs
<1>3. Waiting(gs) = Waiting(fs) /\ \A j \in Waiting(fs) : fs[j].at = gs[j].at
  BY <1>1, <1>2 DEF Waiting
<1>4. Limits(cs, gs)
  BY <1>1, <1>3, LimitsSame
<1>5. \A j \in 1..(Len(gs) - 1) : gs[j].kind \notin RawKinds
  BY <1>1, <1>2 DEF Routines
<1>6. Routines(cs, gs)
  BY <1>1, <1>2, <1>4, <1>5 DEF Routines
<1> QED BY <1>6 DEF gs

\* A routine that waits for no condition is done.
LEMMA CallsPop ==
  ASSUME NEW cs, NEW fs, Routines(cs, fs), Len(fs) >= 1, Len(fs) \notin Waiting(fs)
  PROVE  Routines(cs, Front(fs))
<1> DEFINE gs == Front(fs)
<1>1. cs \in Seq(CondSet) /\ fs \in Seq(CallSet) /\ Limits(cs, fs) /\ Len(fs) \in Nat
  BY DEF Routines
<1>2. /\ gs \in Seq(CallSet) /\ Len(gs) = Len(fs) - 1
      /\ \A j \in 1..(Len(fs) - 1) : gs[j] = fs[j]
  BY <1>1, FrontSeq
<1> HIDE DEF gs
<1>3. Waiting(gs) = Waiting(fs) /\ \A j \in Waiting(fs) : fs[j].at = gs[j].at
  BY <1>1, <1>2 DEF Waiting
<1>4. Limits(cs, gs)
  BY <1>1, <1>3, LimitsSame
<1>5. \A j \in 1..Len(gs) : gs[j].kind \notin RawKinds
  BY <1>1, <1>2 DEF Routines
<1>6. Routines(cs, gs)
  BY <1>1, <1>2, <1>4, <1>5 DEF Routines, RawKinds
<1> QED BY <1>6 DEF gs

\* The innermost condition ends that nobody waits for.
LEMMA CondsPop ==
  ASSUME NEW cs, NEW fs, Routines(cs, fs), Len(cs) >= 1, cs[Len(cs)].limit # if_code,
         Len(fs) >= 1 => ~(fs[Len(fs)].kind = "skip" /\ fs[Len(fs)].at = null)
  PROVE  Routines(Front(cs), fs)
<1> DEFINE ds == Front(cs)
<1>1. cs \in Seq(CondSet) /\ Limits(cs, fs) /\ Len(cs) \in Nat
  BY DEF Routines
<1>2. /\ ds \in Seq(CondSet) /\ Len(ds) = Len(cs) - 1
      /\ \A j \in 1..(Len(cs) - 1) : ds[j] = cs[j]
  BY <1>1, FrontSeq
<1> HIDE DEF ds
<1>3. OpenConds(ds) = OpenConds(cs) /\ \A j \in OpenConds(cs) : cs[j].node = ds[j].node
  BY <1>1, <1>2 DEF OpenConds
<1>4. Limits(ds, fs)
  BY <1>1, <1>3, LimitsSame
<1>5. Routines(ds, fs)
  BY <1>1, <1>2, <1>4 DEF Routines
<1> QED BY <1>5 DEF ds

\* A condition begins.
LEMMA CondsPush ==
  ASSUME NEW cs, NEW fs, Routines(cs, fs), Len(fs) >= 1 => fs[Len(fs)].kind \notin RawKinds,
         null \notin Nodes, NEW p \in Nodes, \A i \in 1..Len(cs) : cs[i].node # p
  PROVE  Routines(Append(cs, [node |-> p, limit |-> if_code]),
                  Append(fs, [kind |-> "cond", at |-> p, limit |-> else_if_code]))
<1> DEFINE c == [node |-> p, limit |-> if_code]
           f == [kind |-> "cond", at |-> p, limit |-> else_if_code]
           ds == Append(cs, c)  gs == Append(fs, f)  n == Len(cs) + 1  h == Len(fs) + 1
<1>1. cs \in Seq(CondSet) /\ fs \in Seq(CallSet) /\ Limits(cs, fs) /\ Len(cs) \in Nat
      /\ Len(fs) \in Nat
  BY DEF Routines
<1>2. c \in CondSet /\ f \in CallSet
  BY DEF CondSet, CallSet
<1>3. /\ ds \in Seq(CondSet) /\ Len(ds) = n /\ ds[n] = c
      /\ \A j \in 1..Len(cs) : ds[j] = cs[j]
  BY <1>1, <1>2, PushSeq
<1>4. /\ gs \in Seq(CallSet) /\ Len(gs) = h /\ gs[h] = f
      /\ \A j \in 1..Len(fs) : gs[j] = fs[j]
  BY <1>1, <1>2, PushSeq
<1>5. c.node = p /\ c.limit = if_code /\ f.kind = "cond" /\ f.at = p
  OBVIOUS
<1> HIDE DEF ds, gs, c, f
<1>6. OpenConds(ds) = OpenConds(cs) \cup {n}
  BY <1>1, <1>3, <1>5 DEF OpenConds
<1>7. Waiting(gs) = Waiting(fs) \cup {h}
  BY <1>1, <1>4, <1>5 DEF Waiting
<1>8. \A i \in OpenConds(cs) : ds[i].node = cs[i].node /\ i < n /\ i \in Int /\ ds[i].node # p
  BY <1>1, <1>3 DEF OpenConds
<1>9. \A j \in Waiting(fs) : gs[j].at = fs[j].at /\ j < h /\ j \in Int
  BY <1>1, <1>4 DEF Waiting
<1>10. \A j \in Waiting(fs) : gs[j].at # p
  <2> TAKE j \in Waiting(fs)
  <2>1. fs[j].at \in {cs[i].node : i \in OpenConds(cs)}
    BY DEF Routines, Limits
  <2> QED BY <1>8, <1>9, <2>1
<1>11. {ds[i].node : i \in OpenConds(ds)} = {gs[j].at : j \in Waiting(gs)}
  <2>1. {ds[i].node : i \in OpenConds(ds)} = {cs[i].node : i \in OpenConds(cs)} \cup {p}
    BY <1>3, <1>5, <1>6, <1>8
  <2>2. {gs[j].at : j \in Waiting(gs)} = {fs[j].at : j \in Waiting(fs)} \cup {p}
    BY <1>4, <1>5, <1>7, <1>9
  <2> QED BY <1>1, <2>1, <2>2 DEF Limits
<1>12. ASSUME NEW i \in OpenConds(ds), NEW k \in OpenConds(ds), NEW j \in Waiting(gs),
              NEW m \in Waiting(gs), ds[i].node = gs[j].at, ds[k].node = gs[m].at
       PROVE  i < k <=> j < m
  <2>1. (i = n <=> j = h) /\ (k = n <=> m = h)
    BY <1>3, <1>4, <1>5, <1>6, <1>7, <1>8, <1>10, <1>12
  <2>2. CASE i # n /\ k # n
    BY <1>1, <1>6, <1>7, <1>8, <1>9, <1>12, <2>1, <2>2 DEF Limits
  <2>3. CASE i = n \/ k = n
    BY <1>1, <1>6, <1>7, <1>8, <1>9, <2>1, <2>3
  <2> QED BY <2>2, <2>3
<1>13. Limits(ds, gs)
  BY <1>11, <1>12 DEF Limits
<1>14. \A i, k \in 1..Len(ds) : ds[i].node = ds[k].node => i = k
  BY <1>1, <1>3, <1>5 DEF Routines
<1>15. \A j \in 1..(Len(gs) - 1) : gs[j].kind \notin RawKinds
  BY <1>1, <1>4 DEF Routines
<1>16. Routines(ds, gs)
  BY <1>3, <1>4, <1>5, <1>13, <1>14, <1>15 DEF Routines
<1> QED BY <1>16 DEF ds, gs, c, f

\* The routine that waits innermost is done with its condition, which is no
\* longer open or no longer there.
LEMMA LimitsPop ==
  ASSUME NEW cs, NEW fs, Routines(cs, fs), Len(fs) \in Waiting(fs),
         NEW ds, NEW k \in OpenConds(cs), cs[k].node = fs[Len(fs)].at,
         OpenConds(ds) = OpenConds(cs) \ {k},
         \A i \in OpenConds(ds) : ds[i].node = cs[i].node
  PROVE  Limits(ds, Front(fs))
<1> DEFINE gs == Front(fs)  h == Len(fs)
<1>1. fs \in Seq(CallSet) /\ Limits(cs, fs) /\ h \in Nat /\ h >= 1
  BY DEF Routines, Waiting
<1>2. /\ Len(gs) = h - 1 /\ \A j \in 1..(h - 1) : gs[j] = fs[j]
  BY <1>1, FrontSeq
<1> HIDE DEF gs
<1>3. Waiting(gs) = Waiting(fs) \ {h} /\ \A j \in Waiting(gs) : gs[j].at = fs[j].at
  BY <1>1, <1>2 DEF Waiting
<1>4. /\ \A i \in OpenConds(cs) : \E j \in Waiting(fs) : cs[i].node = fs[j].at
      /\ \A j \in Waiting(fs) : \E i \in OpenConds(cs) : cs[i].node = fs[j].at
  <2>1. {cs[i].node : i \in OpenConds(cs)} = {fs[j].at : j \in Waiting(fs)}
    BY <1>1 DEF Limits
  <2>2. \A i \in OpenConds(cs) : cs[i].node \in {cs[x].node : x \in OpenConds(cs)}
    OBVIOUS
  <2>3. \A j \in Waiting(fs) : fs[j].at \in {fs[x].at : x \in Waiting(fs)}
    OBVIOUS
  <2>4. \A i \in OpenConds(cs) : \E j \in Waiting(fs) : cs[i].node = fs[j].at
    BY <2>1, <2>2
  <2> QED BY <2>1, <2>3, <2>4
<1>5. \A i \in OpenConds(cs), j \in Waiting(fs) : cs[i].node = fs[j].at => (i = k <=> j = h)
  <2> TAKE i \in OpenConds(cs), j \in Waiting(fs)
  <2> HAVE cs[i].node = fs[j].at
  <2>1. (i < k <=> j < h) /\ (k < i <=> h < j)
    BY <1>1 DEF Limits
  <2>2. i \in Int /\ k \in Int /\ j \in Int /\ h \in Int
    BY <1>1 DEF OpenConds, Waiting
  <2> QED BY <2>1, <2>2
<1>6. \A i \in OpenConds(ds) : \E j \in Waiting(gs) : ds[i].node = gs[j].at
  BY <1>3, <1>4, <1>5
<1>7. \A j \in Waiting(gs) : \E i \in OpenConds(ds) : ds[i].node = gs[j].at
  BY <1>3, <1>4, <1>5
<1>8. {ds[i].node : i \in OpenConds(ds)} = {gs[j].at : j \in Waiting(gs)}
  <2> DEFINE A == {ds[i].node : i \in OpenConds(ds)}  B == {gs[j].at : j \in Waiting(gs)}
  <2>1. \A x \in A : x \in B
    BY <1>6, Zenon
  <2>2. \A x \in B : x \in A
    BY <1>7, Zenon
  <2> HIDE DEF A, B
  <2>3. A = B
    BY <2>1, <2>2
  <2> QED BY <2>3 DEF A, B
<1>9. \A i, x \in OpenConds(ds), j, m \in Waiting(gs) :
         ds[i].node = gs[j].at /\ ds[x].node = gs[m].at => (i < x <=> j < m)
  BY <1>1, <1>3 DEF Limits
<1>10. Limits(ds, gs)
  BY <1>8, <1>9 DEF Limits
<1> QED BY <1>10 DEF gs

\* A condition is over with the routine that waited for it.
LEMMA BothPop ==
  ASSUME NEW cs, NEW fs, Routines(cs, fs), Len(fs) \in Waiting(fs), Len(cs) >= 1,
         cs[Len(cs)].node = fs[Len(fs)].at
  PROVE  Routines(Front(cs), Front(fs))
<1> DEFINE ds == Front(cs)  gs == Front(fs)
<1>1. cs \in Seq(CondSet) /\ fs \in Seq(CallSet) /\ Len(cs) \in Nat /\ Len(fs) \in Nat
      /\ Len(fs) >= 1
  BY DEF Routines, Waiting
<1>2. /\ ds \in Seq(CondSet) /\ Len(ds) = Len(cs) - 1
      /\ \A j \in 1..(Len(cs) - 1) : ds[j] = cs[j]
  BY <1>1, FrontSeq
<1>3. /\ gs \in Seq(CallSet) /\ Len(gs) = Len(fs) - 1
      /\ \A j \in 1..(Len(fs) - 1) : gs[j] = fs[j]
  BY <1>1, FrontSeq
<1>4. Len(cs) \in OpenConds(cs)
  <2>1. \A j \in Waiting(fs) : j <= Len(fs)
    BY <1>1 DEF Waiting
  <2>2. PICK k \in OpenConds(cs) : cs[k].node = fs[Len(fs)].at
    BY <2>1, LimitsLast
  <2>3. k = Len(cs)
    BY <1>1, <2>2 DEF OpenConds, Routines
  <2> QED BY <2>2, <2>3
<1>5. Limits(ds, gs)
  <2>1. OpenConds(ds) = OpenConds(cs) \ {Len(cs)}
    BY <1>1, <1>2 DEF OpenConds
  <2>2. \A i \in OpenConds(ds) : ds[i].node = cs[i].node
    BY <1>2 DEF OpenConds
  <2> HIDE DEF ds
  <2> QED BY <1>4, <2>1, <2>2, LimitsPop
<1> HIDE DEF ds, gs
<1>6. \A j \in 1..Len(gs) : gs[j].kind \notin RawKinds
  BY <1>1, <1>3 DEF Routines
<1>7. Routines(ds, gs)
  BY <1>1, <1>2, <1>3, <1>5, <1>6 DEF Routines, RawKinds
<1> QED BY <1>7 DEF ds, gs

\* A condition is true: its limit changes, wherever it is, and the routine that
\* waited for it is done.
LEMMA LimitChanges ==
  ASSUME NEW cs, NEW fs, Routines(cs, fs), Len(fs) \in Waiting(fs),
         fs[Len(fs)].kind = "cond", NEW l \in {fi_code, else_if_code},
         NEW ds, ds = [i \in DOMAIN cs |->
                          IF cs[i].node = fs[Len(fs)].at THEN [cs[i] EXCEPT !.limit = l] ELSE cs[i]]
  PROVE  /\ \E i \in DOMAIN cs : cs[i].node = fs[Len(fs)].at
         /\ Routines(ds, Front(fs))
<1> DEFINE gs == Front(fs)  p == fs[Len(fs)].at
<1>1. cs \in Seq(CondSet) /\ fs \in Seq(CallSet) /\ Len(cs) \in Nat /\ Len(fs) \in Nat
      /\ Len(fs) >= 1 /\ DOMAIN cs = 1..Len(cs)
  BY DEF Routines, Waiting
<1>2. PICK k \in OpenConds(cs) : cs[k].node = p
  <2>1. \A j \in Waiting(fs) : j <= Len(fs)
    BY <1>1 DEF Waiting
  <2> QED BY <2>1, LimitsLast
<1>3. k \in 1..Len(cs)
  BY DEF OpenConds
<1> HIDE DEF p
<1>4. \A i \in 1..Len(cs) : ds[i] = IF i = k THEN [cs[i] EXCEPT !.limit = l] ELSE cs[i]
  BY <1>1, <1>2, <1>3 DEF Routines, p
<1>5. ds \in Seq(CondSet) /\ Len(ds) = Len(cs)
  <2>1. \A i \in 1..Len(cs) : cs[i] \in CondSet
    BY <1>1
  <2>2. \A i \in 1..Len(cs) : ds[i] \in CondSet
    BY <1>4, <2>1 DEF CondSet
  <2>3. ds = [i \in 1..Len(cs) |-> ds[i]]
    BY <1>1
  <2> HIDE DEF p
  <2> QED BY <1>1, <2>2, <2>3
<1>6. \A i \in 1..Len(cs) : /\ ds[i].node = cs[i].node
                            /\ ds[i].limit = IF i = k THEN l ELSE cs[i].limit
  <2> TAKE i \in 1..Len(cs)
  <2>1. cs[i] \in CondSet
    BY <1>1
  <2>2. /\ [cs[i] EXCEPT !.limit = l].node = cs[i].node
        /\ [cs[i] EXCEPT !.limit = l].limit = l
    BY <2>1 DEF CondSet
  <2>3. CASE i = k
    <3>1. ds[i] = [cs[i] EXCEPT !.limit = l]
      BY <1>4, <2>3
    <3> QED BY <2>2, <2>3, <3>1
  <2>4. CASE i # k
    <3>1. ds[i] = cs[i]
      BY <1>4, <2>4
    <3>2. ds[i].node = cs[i].node /\ ds[i].limit = cs[i].limit
      BY <3>1, Zenon
    <3>3. cs[i].limit = IF i = k THEN l ELSE cs[i].limit
      BY <2>4
    <3> QED BY <3>2, <3>3, Zenon
  <2> QED BY <2>3, <2>4
<1>7. Limits(ds, gs)
  <2>1. OpenConds(ds) = OpenConds(cs) \ {k}
    <3>1. l # if_code
      BY DEF if_code, fi_code, else_if_code
    <3> QED BY <1>3, <1>5, <1>6, <3>1 DEF OpenConds
  <2>2. \A i \in OpenConds(ds) : ds[i].node = cs[i].node
    BY <1>5, <1>6 DEF OpenConds
  <2> QED BY <1>2, <2>1, <2>2, LimitsPop DEF p
<1>8. /\ gs \in Seq(CallSet) /\ Len(gs) = Len(fs) - 1
      /\ \A j \in 1..(Len(fs) - 1) : gs[j] = fs[j]
  BY <1>1, FrontSeq
<1> HIDE DEF gs
<1>9. \A j \in 1..Len(gs) : gs[j].kind \notin RawKinds
  BY <1>1, <1>8 DEF Routines
<1>10. \A i, j \in 1..Len(ds) : ds[i].node = ds[j].node => i = j
  BY <1>5, <1>6 DEF Routines
<1>11. Routines(ds, gs)
  <2>0. Len(gs) \in Nat
    BY <1>8
  <2>1. Len(gs) >= 1 => gs[Len(gs)].kind # "skip"
    <3>1. Len(gs) >= 1 => Len(gs) \in 1..Len(gs)
      BY ONLY <2>0
    <3>2. "skip" \in RawKinds
      BY DEF RawKinds
    <3> QED BY ONLY <3>1, <3>2, <1>9, Zenon
  <2>2. \A j \in 1..(Len(gs) - 1) : gs[j].kind \notin RawKinds
    <3>1. \A j \in 1..(Len(gs) - 1) : j \in 1..Len(gs)
      BY ONLY <2>0
    <3> QED BY ONLY <3>1, <1>9, Zenon
  <2> QED BY <1>5, <1>7, <1>8, <1>10, <2>1, <2>2 DEF Routines
<1> QED BY <1>1, <1>2, <1>3, <1>11 DEF gs, p

-----------------------------------------------------------------------------
(* The invariant.                                                          *)

StatusOK == /\ status # "confusion(if)"
            /\ LoseEnd = FALSE => status \notin {"loop confusion", "underflow"}

\* The usual case: every loop in progress has its turn on the stack.
Sound == /\ Good(scan, loops) /\ loops \in Seq(LoopSet)
         /\ Routines(conds, calls) /\ StatusOK

\* The innermost loop's ENDFOR came in the place of the = sign of a definition,
\* so its turn is gone and the ENDFOR waits, behind nothing but a rescue, until
\* the definition has ended.
Orphan(inp, lp) ==
    \E m \in 1..Len(inp), e \in 1..Len(inp) :
       /\ m < e /\ e >= Len(inp) - 1
       /\ EndforKept(SubSeq(inp, 1, m)) /\ Match(SubSeq(inp, 1, m), Front(lp))
       /\ inp[m].more \/ file_state(inp[m])
       /\ inp[e].type = "backed_up" /\ inp[e].holds = "endfor" /\ inp[e].more
       /\ \A j \in (m + 1)..(e - 1) : ~inp[j].more /\ inp[j].type = "backed_up"
       /\ e < Len(inp) => inp[Len(inp)].type = "inserted" /\ inp[Len(inp)].holds = "def"
LastDiffers(lp) == Len(lp) >= 1 /\ \A i \in 1..(Len(lp) - 1) : lp[i].text # lp[Len(lp)].text

BrokenInto == /\ LoseEnd = FALSE /\ StackOK(scan) /\ Orphan(scan.input, loops)
              /\ loops \in Seq(LoopSet) /\ LastDiffers(loops)
              /\ Routines(conds, calls) /\ StatusOK
              /\ Under("def") \/ Under("next")

IInv == Sound \/ BrokenInto

\* What the routines under way say of the scanner.
LEMMA ScannerStatusIs ==
  ASSUME Routines(conds, calls)
  PROVE  /\ scanner_status \in {"skip", "text", "body", "def", "normal"}
         /\ scanner_status = "normal" => (Len(calls) >= 1 => calls[Len(calls)].kind \notin RawKinds)
         /\ scanner_status \in {"skip", "text", "body"} =>
               Len(calls) >= 1 /\ calls[Len(calls)].kind = scanner_status
         /\ \A k : Under(k) => Len(calls) >= 1 /\ calls[Len(calls)].kind = k
         /\ Len(calls) \in Nat /\ (Len(calls) >= 1 => Last(calls) = calls[Len(calls)]
                                                       /\ calls[Len(calls)] \in CallSet)
<1>1. calls \in Seq(CallSet)
  BY DEF Routines
<1>2. calls # <<>> <=> Len(calls) >= 1
  BY <1>1
<1>3. Len(calls) \in Nat /\ Last(calls) = calls[Len(calls)]
  BY <1>1 DEF Last
<1>4. Len(calls) >= 1 => calls[Len(calls)] \in CallSet
  BY <1>1, <1>3
<1> QED BY <1>2, <1>3, <1>4 DEF scanner_status, Status, RawKinds, Under

\* The rescue of a routine that reads raw tokens.
LEMMA GoodRescue ==
  ASSUME NEW s, NEW lp, Good(s, lp), Routines(conds, calls)
  PROVE  Good(InsertRescue(s), lp)
<1>1. CASE scanner_status = "normal"
  BY <1>1 DEF InsertRescue
<1>2. CASE scanner_status # "normal"
  <2>1. scanner_status \in Held /\ scanner_status # "endfor"
    BY <1>2, ScannerStatusIs DEF Held, RawKinds
  <2>2. Good(Conserved(s), lp)
    BY GoodConserved
  <2>3. InsertRescue(s) = back_list(Conserved(s), "inserted", scanner_status)
    BY <1>2 DEF InsertRescue
  <2> QED BY <2>1, <2>2, <2>3, GoodBack
<1> QED BY <1>1, <1>2

\* A sequence is all but its last element and that.
LEMMA FrontLast ==
  ASSUME NEW S, NEW q \in Seq(S), Len(q) >= 1
  PROVE  Append(Front(q), Last(q)) = q
BY DEF Front, Last

\* The next turn of a loop, or its end.
LEMMA GoodResume ==
  ASSUME NEW s, NEW lp \in Seq(LoopSet), Len(lp) >= 1, Good(s, Front(lp)),
         LoseEnd = FALSE => \A i \in 1..(Len(lp) - 1) : lp[i].text # lp[Len(lp)].text
  PROVE  LET r == resume_iteration(s, lp) IN Good(r[1], r[2]) /\ r[2] \in Seq(LoopSet)
<1> DEFINE p == Last(lp)  f == Front(lp)
           b == [Level(s, "loop") EXCEPT !.text = p.text]
           turn == SetTop(begin_token_list(s, "loop"),
                          [Top(begin_token_list(s, "loop")) EXCEPT !.text = p.text])
           u == [s EXCEPT !.input = Append(@, b)]
           d == [p EXCEPT !.left = @ - 1]
<1>1. /\ f \in Seq(LoopSet) /\ Len(f) = Len(lp) - 1 /\ Len(lp) \in Nat
      /\ \A i \in 1..(Len(lp) - 1) : f[i] = lp[i]
  BY FrontSeq
<1>2. p = lp[Len(lp)] /\ p \in LoopSet
  BY <1>1 DEF Last
<1>3. d \in LoopSet /\ d.text = p.text /\ p.text \in Texts /\ p.left \in Int
  BY <1>2 DEF LoopSet
<1>4. s \in Scans /\ s.param_ptr \in Nat /\ s.input \in Seq(Levels)
  BY DEF Good, StackOK, Scans
<1>5. /\ Level(s, "loop") \in Levels /\ Level(s, "loop").type = "loop"
      /\ Level(s, "loop").more /\ Level(s, "loop").holds = "any"
      /\ Level(s, "loop").param_start = s.param_ptr /\ Level(s, "loop").n = 0
  BY <1>4, LevelType DEF LevelTypes
<1>6. /\ b \in Levels /\ b.type = "loop" /\ b.text = p.text /\ b.more /\ b.holds = "any"
      /\ b.param_start = s.param_ptr /\ b.n = 0
  BY <1>3, <1>5 DEF Levels
<1>7. turn = u
  <2> DEFINE a == Level(s, "loop")  v == [s EXCEPT !.input = Append(@, a)]
  <2>1. Append(s.input, a) \in Seq(Levels) /\ Len(Append(s.input, a)) = Len(s.input) + 1
        /\ Append(s.input, a)[Len(s.input) + 1] = a
    BY <1>4, <1>5, PushSeq
  <2>2. v \in Scans /\ v.input = Append(s.input, a) /\ v.param_ptr = s.param_ptr
        /\ v.in_open = s.in_open
    BY <1>4, <2>1 DEF Scans
  <2>3. begin_token_list(s, "loop") = v
    BY DEF begin_token_list
  <2>4. Top(v) = a
    BY <2>1, <2>2 DEF Top, Last
  <2>5. turn = [v EXCEPT !.input = Append(Front(@), b)]
    BY <2>3, <2>4 DEF SetTop
  <2>6. Append(Front(Append(s.input, a)), b) = Append(s.input, b)
    <3> HIDE DEF a, b
    <3> QED BY <1>4, <1>5, <1>6, PushedAndSet DEF a
  <2> HIDE DEF b, a
  <2>7. [v EXCEPT !.input = Append(s.input, b)] = [s EXCEPT !.input = Append(s.input, b)]
    BY <1>4, <2>2 DEF Scans
  <2> HIDE DEF v
  <2>8. turn = [v EXCEPT !.input = Append(s.input, b)]
    BY <2>2, <2>5, <2>6
  <2> QED BY <2>7, <2>8
<1> HIDE DEF turn
<1>8. resume_iteration(s, lp) = IF p.left = 0 THEN <<s, f>>
                                ELSE IF p.left < 0 THEN <<turn, lp>>
                                ELSE <<stack_argument(turn, 1), Append(f, d)>>
  BY DEF resume_iteration, turn
<1> HIDE DEF p, f, d, u, b
<1>9. CASE p.left = 0
  BY <1>1, <1>8, <1>9 DEF f
<1>10. CASE p.left < 0
  <2>1. PushOf(s, u, b)
    <3>1. Append(s.input, b) \in Seq(Levels)
      BY <1>4, <1>6, PushSeq
    <3>2. /\ u \in Scans /\ u.input = Append(s.input, b)
          /\ u.param_ptr = s.param_ptr /\ u.in_open = s.in_open
      BY <1>4, <3>1 DEF Scans, u
    <3>3. s.param_ptr = s.param_ptr + b.n
      BY <1>4, <1>6
    <3> QED BY <3>2, <3>3 DEF PushOf
  <2>2. LoseEnd = FALSE => \A i \in 1..Len(f) : f[i].text # p.text
    BY <1>1, <1>2
  <2>3. Good(u, Append(f, p))
    BY <1>1, <1>2, <1>6, <2>1, <2>2, GoodTurn DEF f
  <2>4. Append(f, p) = lp
    BY FrontLast DEF f, p
  <2>5. resume_iteration(s, lp) = <<u, lp>>
    BY <1>3, <1>7, <1>8, <1>10
  <2> QED BY <2>3, <2>4, <2>5
<1>11. CASE p.left > 0
  <2> DEFINE l == [b EXCEPT !.n = 1]
  <2>1. PushOf(s, stack_argument(u, 1), l) /\ l \in Levels
    BY <1>4, <1>6, StackedIs DEF u
  <2>2. l.type = "loop" /\ l.text = p.text /\ l.more /\ l.holds = "any"
        /\ l.param_start = s.param_ptr
    BY <1>6 DEF Levels
  <2> HIDE DEF l
  <2>3. LoseEnd = FALSE => \A i \in 1..Len(f) : f[i].text # d.text
    BY <1>1, <1>2, <1>3
  <2>4. Good(stack_argument(u, 1), Append(f, d))
    BY <1>1, <1>3, <2>1, <2>2, <2>3, GoodTurn DEF f
  <2>5. Append(f, d) \in Seq(LoopSet)
    BY <1>1, <1>3, PushSeq
  <2>6. resume_iteration(s, lp) = <<stack_argument(u, 1), Append(f, d)>>
    BY <1>3, <1>7, <1>8, <1>11
  <2> QED BY <2>4, <2>5, <2>6
<1> QED BY <1>3, <1>9, <1>10, <1>11

\* ENDFOR is read and what is read to its end is left: its turn goes with it.
LEMMA TurnGone ==
  ASSUME Good(scan, loops), loops \in Seq(LoopSet), NEW s \in Reads("endfor")
  PROVE  /\ Good(Conserved(s), Front(loops))
         /\ LoseEnd = FALSE => LastDiffers(loops)
         /\ Top(Conserved(s)).more \/ file_state(Top(Conserved(s)))
<1> DEFINE c == Conserved(s)
<1>1. StackOK(s) /\ s.input \in Seq(Levels) /\ Len(s.input) \in Nat
  <2>1. StackOK(scan)
    BY DEF Good
  <2> QED BY <2>1, ReadEndIs DEF StackOK, Scans
<1>2. PICK m \in 1..Len(s.input) :
            /\ StackOK(c) /\ c.input = SubSeq(s.input, 1, m)
            /\ s.input[m].more \/ file_state(s.input[m])
            /\ \A j \in (m + 1)..Len(s.input) : ~s.input[j].more /\ ~file_state(s.input[j])
  BY <1>1, ConservedTo
<1> HIDE DEF c
<1>3. ASSUME LoseEnd = FALSE
      PROVE  /\ Len(loops) >= 1 /\ EndforKept(c.input) /\ Match(c.input, Front(loops))
             /\ \A i, j \in 1..Len(loops) : loops[i].text = loops[j].text => i = j
  <2>1. Match(s.input, loops)
    BY <1>3, ReadEnd
  <2>2. PICK k \in 2..Len(s.input) : Ended(s.input, k) /\ EndforKept(SubSeq(s.input, 1, k - 1))
    BY <1>3, ReadEnd
  <2>3. k \in Turns(s.input) /\ \A i \in Turns(s.input) : i <= k
    BY <1>1, <2>2 DEF Ended, Turns
  <2>4. Len(loops) >= 1
    BY <1>1, <2>1, <2>3, MatchLast
  <2>5. m < k
    BY <1>1, <1>2, <2>2 DEF Ended, Turns, file_state
  <2> DEFINE f == SubSeq(s.input, 1, k - 1)
  <2>6. k - 1 \in 0..Len(s.input) /\ m \in 0..(k - 1)
    BY <1>1, <2>5
  <2>7. f \in Seq(Levels) /\ Len(f) = k - 1 /\ \A j \in 1..(k - 1) : f[j] = s.input[j]
    BY <1>1, <2>6, PrefixSeq
  <2>8. c.input = SubSeq(f, 1, m)
    BY <1>1, <1>2, <2>6, PrefixPrefix
  <2>9. EndforKept(f)
    BY <2>2
  <2> HIDE DEF f
  <2>10. \A j \in (m + 1)..Len(f) : j \notin Pending(f) /\ ~f[j].more
    <3> TAKE j \in (m + 1)..Len(f)
    <3>1. j \in (m + 1)..Len(s.input) /\ j \in 1..(k - 1)
      BY <1>1, <2>6, <2>7
    <3>2. ~s.input[j].more /\ f[j] = s.input[j]
      BY <1>2, <2>7, <3>1
    <3> QED BY <3>2 DEF Pending
  <2>11. EndforKept(c.input) /\ Turns(c.input) = Turns(f)
    BY <2>6, <2>7, <2>8, <2>9, <2>10, Dropped
  <2>12. Turns(c.input) = Turns(s.input) \ {k}
    BY <1>1, <2>3, <2>6, <2>7, <2>11 DEF Turns
  <2>13. \A j \in Turns(c.input) : c.input[j].text = s.input[j].text
    <3>1. Len(c.input) = m /\ \A j \in 1..m : c.input[j] = s.input[j]
      BY <1>1, <1>2, PrefixSeq
    <3> QED BY <3>1 DEF Turns
  <2>14. Match(c.input, Front(loops))
    BY <1>1, <2>1, <2>3, <2>12, <2>13, MatchPop
  <2>15. \A i, j \in 1..Len(loops) : loops[i].text = loops[j].text => i = j
    BY <1>1, <2>1, MatchDistinct
  <2> QED BY <2>4, <2>11, <2>14, <2>15
<1>4. Good(c, Front(loops))
  BY <1>2, <1>3 DEF Good
<1>5. ASSUME LoseEnd = FALSE PROVE LastDiffers(loops)
  <2>0. Len(loops) \in Nat
    OBVIOUS
  <2>1. Len(loops) >= 1 /\ Len(loops) \in Nat
    BY <1>3, <1>5, <2>0
  <2>2. ASSUME NEW i \in 1..(Len(loops) - 1) PROVE loops[i].text # loops[Len(loops)].text
    <3>1. i \in 1..Len(loops) /\ Len(loops) \in 1..Len(loops) /\ i # Len(loops)
      BY <2>1
    <3> QED BY <1>3, <1>5, <3>1
  <2> QED BY <2>1, <2>2 DEF LastDiffers
<1>6. Top(c) = s.input[m]
  <2>1. Len(c.input) = m /\ c.input[m] = s.input[m]
    BY <1>1, <1>2, PrefixSeq
  <2> QED BY <2>1 DEF Top, Last
<1> QED BY <1>2, <1>4, <1>5, <1>6 DEF c

\* ENDFOR, read when tokens are expanded: its turn goes, and the loop's next one
\* comes.
LEMMA GoodRepeat ==
  ASSUME Good(scan, loops), loops \in Seq(LoopSet), NEW s \in Reads("endfor")
  PROVE  LET r == IF loops = <<>> THEN <<Conserved(s), loops>>
                  ELSE resume_iteration(Conserved(s), loops)
         IN  Good(r[1], r[2]) /\ r[2] \in Seq(LoopSet)
<1> DEFINE c == Conserved(s)
<1>4. Good(c, Front(loops)) /\ (LoseEnd = FALSE => LastDiffers(loops))
  BY TurnGone
<1> HIDE DEF c
<1>5. CASE loops = <<>>
  <2>1. LoseEnd # FALSE
    <3> SUFFICES ASSUME LoseEnd = FALSE PROVE FALSE
      OBVIOUS
    <3>1. Len(loops) = 0
      BY <1>5
    <3> QED BY <1>4, <3>1 DEF LastDiffers
  <2>2. Good(c, loops)
    BY <1>4, <2>1 DEF Good
  <2> QED BY <1>5, <2>2 DEF c
<1>6. CASE loops # <<>>
  <2>1. Len(loops) >= 1 /\ Len(loops) \in Nat
    BY <1>6
  <2>2. LoseEnd = FALSE => \A i \in 1..(Len(loops) - 1) : loops[i].text # loops[Len(loops)].text
    BY <1>4 DEF LastDiffers
  <2>3. LET r == resume_iteration(c, loops) IN Good(r[1], r[2]) /\ r[2] \in Seq(LoopSet)
    BY <1>4, <2>1, <2>2, GoodResume
  <2> QED BY <1>6, <2>3 DEF c
<1> QED BY <1>5, <1>6

\* exitif leaves the innermost loop, with the innermost turn and what is on top
\* of it.
LEMMA GoodExit ==
  ASSUME Good(scan, loops), loops \in Seq(LoopSet), Len(loops) >= 1,
         NEW at, at = Turns(scan.input)
  PROVE  /\ LoseEnd = FALSE => at # {}
         /\ \A k \in at : (\A j \in at : j <= k) =>
               /\ LoseEnd = FALSE => scan.input[k].text = Last(loops).text
               /\ Good(PopTo(scan, k - 1), Front(loops))
<1> DEFINE q == scan.input
<1>1. StackOK(scan) /\ q \in Seq(Levels) /\ Bottom(q) /\ Len(q) \in Nat
  BY DEF Good, StackOK, Scans
<1>2. LoseEnd = FALSE => EndforKept(q) /\ Match(q, loops)
  BY DEF Good
<1> HIDE DEF q
<1>3. LoseEnd = FALSE => Turns(q) # {}
  <2> SUFFICES ASSUME LoseEnd = FALSE PROVE Turns(q) # {}
    OBVIOUS
  <2>1. {q[k].text : k \in Turns(q)} = {loops[i].text : i \in 1..Len(loops)}
    BY <1>2 DEF Match
  <2>2. 1 \in 1..Len(loops)
    OBVIOUS
  <2>3. loops[1].text \in {loops[i].text : i \in 1..Len(loops)}
    BY <2>2
  <2> QED BY <2>1, <2>3
<1>4. ASSUME NEW k \in Turns(q), \A j \in Turns(q) : j <= k
      PROVE  /\ LoseEnd = FALSE => q[k].text = Last(loops).text
             /\ Good(PopTo(scan, k - 1), Front(loops))
  <2>1. k \in 2..Len(q) /\ k - 1 \in 1..Len(q) /\ k - 1 \in 0..Len(q)
    BY <1>1 DEF Turns, Bottom
  <2> DEFINE r == PopTo(scan, k - 1)
  <2>2. StackOK(r) /\ r.input = SubSeq(q, 1, k - 1)
    BY <1>1, <2>1, PoppedTo DEF q
  <2> HIDE DEF r
  <2>3. Len(r.input) = k - 1 /\ \A j \in 1..(k - 1) : r.input[j] = q[j]
    BY <1>1, <2>1, <2>2, PrefixSeq
  <2>4. ASSUME LoseEnd = FALSE
        PROVE  q[k].text = Last(loops).text /\ EndforKept(r.input) /\ Match(r.input, Front(loops))
    <3>1. q[k].text = loops[Len(loops)].text
      BY <1>1, <1>2, <1>4, <2>4, MatchLast
    <3>2. EndforKept(r.input)
      BY <1>1, <1>2, <2>2, <2>4, CutTurn
    <3>3. Turns(r.input) = Turns(q) \ {k}
      BY <1>1, <1>4, <2>1, <2>3 DEF Turns
    <3>4. \A j \in Turns(r.input) : r.input[j].text = q[j].text
      BY <2>1, <2>3 DEF Turns
    <3>5. Match(r.input, Front(loops))
      BY <1>1, <1>2, <1>4, <2>4, <3>3, <3>4, MatchPop
    <3> QED BY <3>1, <3>2, <3>5 DEF Last
  <2>5. Good(r, Front(loops))
    BY <2>2, <2>4 DEF Good
  <2> QED BY <2>4, <2>5 DEF r
<1> QED BY <1>3, <1>4 DEF q

\* The text of a loop has been read, and its first turn comes.
LEMMA GoodLoop ==
  ASSUME NEW s, Good(s, loops), loops \in Seq(LoopSet), NEW d \in Int,
         NEW t \in Texts \ {loops[i].text : i \in DOMAIN loops}
  PROVE  LET r == resume_iteration(s, Append(loops, [text |-> t, left |-> d]))
         IN  Good(r[1], r[2]) /\ r[2] \in Seq(LoopSet)
<1> DEFINE e == [text |-> t, left |-> d]  lp == Append(loops, e)
<1>1. e \in LoopSet /\ e.text = t
  BY DEF LoopSet
<1> HIDE DEF e
<1>2. /\ lp \in Seq(LoopSet) /\ Len(lp) = Len(loops) + 1 /\ lp[Len(lp)] = e /\ Len(lp) >= 1
      /\ Len(loops) \in Nat /\ DOMAIN loops = 1..Len(loops)
      /\ \A i \in 1..(Len(lp) - 1) : lp[i] = loops[i]
  BY <1>1, PushSeq
<1>3. Front(lp) = loops
  BY <1>1 DEF Front
<1>4. \A i \in 1..(Len(lp) - 1) : lp[i].text # lp[Len(lp)].text
  BY <1>1, <1>2
<1> HIDE DEF lp
<1>5. Good(s, Front(lp))
  BY <1>3
<1>6. LET r == resume_iteration(s, lp) IN Good(r[1], r[2]) /\ r[2] \in Seq(LoopSet)
  BY <1>2, <1>4, <1>5, GoodResume
<1> QED BY <1>6 DEF lp, e

\* A list or a file turns out to have nothing left.
LEMMA GoodNoMore ==
  ASSUME NEW s, NEW lp, Good(s, lp), Top(s).type \in {"macro", "parameter", "file", "string"}
  PROVE  Good(SetTop(s, [Top(s) EXCEPT !.more = FALSE]), lp)
<1> DEFINE q == s.input  n == Len(q)  e == [Top(s) EXCEPT !.more = FALSE]  r == SetTop(s, e)
<1>1. /\ StackOK(s) /\ s \in Scans /\ q \in Seq(Levels) /\ n \in Nat /\ n >= 1 /\ Bottom(q)
      /\ s.param_ptr \in Nat
  BY DEF Good, StackOK, Scans, Bottom
<1>2. Top(s) = q[n] /\ q[n] \in Levels
  BY <1>1 DEF Top, Last
<1>3. /\ e \in Levels /\ e.type = q[n].type /\ e.text = q[n].text /\ e.holds = q[n].holds
      /\ e.n = q[n].n /\ e.param_start = q[n].param_start /\ e.index = q[n].index
  BY <1>2 DEF Levels
<1>4. s.param_ptr = e.param_start + e.n
  BY <1>3 DEF StackOK, Good, ParamsEnd
<1>5. /\ e.n > 0 => e.type \in {"macro", "loop"}
      /\ e.holds = "any" /\ e.type \in {"macro", "parameter", "file", "string"}
  BY <1>1, <1>2, <1>3 DEF Bottom
<1> HIDE DEF e
<1>6. r = [s EXCEPT !.input = Append(Front(@), e), !.param_ptr = s.param_ptr]
  <2>1. r = [s EXCEPT !.input = Append(Front(@), e)]
    BY DEF SetTop
  <2> QED BY <1>1, <2>1 DEF Scans
<1>7. StackOK(r)
  <2>1. /\ e.type = Top(s).type /\ e.param_start = Top(s).param_start
        /\ e.index = Top(s).index /\ e.type # "terminal"
    BY <1>2, <1>3, <1>5
  <2> HIDE DEF r
  <2> QED BY <1>1, <1>3, <1>4, <1>5, <1>6, <2>1, Retopped
<1>8. r.input = Append(Front(q), e)
  BY <1>1, <1>6 DEF Scans
<1> HIDE DEF r, q
<1>a. Len(q) = n
  BY DEF n
<1> HIDE DEF n
<1>9. Len(r.input) = n /\ r.input[n] = e /\ \A j \in 1..(n - 1) : r.input[j] = q[j]
  BY <1>1, <1>3, <1>8, <1>a, TopSeq
<1>10. ASSUME LoseEnd = FALSE PROVE EndforKept(r.input) /\ Match(r.input, lp)
  <2>1. EndforKept(q) /\ Match(q, lp)
    BY <1>10 DEF Good, q
  <2>2. Turns(r.input) = Turns(q) /\ n \notin Turns(q)
    BY <1>1, <1>3, <1>5, <1>9, <1>a DEF Turns
  <2>3. Pending(r.input) = Pending(q) /\ n \notin Pending(q)
    <3>1. q[n].holds # "endfor" /\ r.input[n].holds # "endfor"
      BY <1>3, <1>5, <1>9
    <3> QED BY <1>1, <1>9, <1>a, <3>1 DEF Pending
  <2>4. \A k \in Turns(q) : q[k] = r.input[k]
    BY <1>1, <1>9, <1>a, <2>2 DEF Turns
  <2>5. \A k \in Turns(q), p \in Pending(q) : Waits(q, k, p) <=> Waits(r.input, k, p)
    BY <1>1, <1>9, <1>a, <2>2, <2>3 DEF Turns, Pending, Waits
  <2>6. EndforKept(r.input)
    BY <2>1, <2>2, <2>3, <2>4, <2>5 DEF EndforKept
  <2>7. Match(r.input, lp)
    BY <2>1, <2>2, <2>4, MatchSame
  <2> QED BY <2>6, <2>7
<1> QED BY <1>7, <1>10 DEF Good, r, e

-----------------------------------------------------------------------------
(* The steps.                                                              *)

\* The scanner begins with the terminal alone.
LEMMA GoodInit ==
  ASSUME Init
  PROVE  Sound
<1> DEFINE z == [input |-> <<>>, param_ptr |-> 0, in_open |-> 0]  l == Level(z, "terminal")
<1>1. /\ l \in Levels /\ l.type = "terminal" /\ l.more /\ l.holds = "any"
      /\ l.param_start = 0 /\ l.n = 0 /\ l.index = 0
  BY DEF Level, Levels, LevelTypes, Held
<1> HIDE DEF l
<1>2. scan = [input |-> <<l>>, param_ptr |-> 0, in_open |-> 0]
  BY DEF Init, l
<1>3. scan.input = <<l>> /\ scan.param_ptr = 0 /\ scan.in_open = 0
  BY <1>2
<1>4. scan.input \in Seq(Levels) /\ Len(scan.input) = 1 /\ scan.input[1] = l
  BY <1>1, <1>3
<1>5. scan \in Scans
  BY <1>2, <1>3, <1>4 DEF Scans
<1>6. \A j \in 1..1 : FilesTo(scan.input, j) = {}
  BY DEF FilesTo
<1>7. FilesNumbered(scan.input, scan.in_open)
  BY <1>1, <1>3, <1>4, <1>6, FS_EmptySet DEF FilesNumbered
<1>8. Bottom(scan.input) /\ ParamsEnd(scan.input, scan.param_ptr)
  BY <1>1, <1>3, <1>4 DEF Bottom, ParamsEnd
<1>9. loops = <<>> /\ conds = <<>> /\ calls = <<>> /\ status = "ok"
  BY DEF Init
<1>10. Turns(scan.input) = {} /\ Pending(scan.input) = {}
  BY <1>1, <1>4 DEF Turns, Pending
<1>11. EndforKept(scan.input) /\ Match(scan.input, loops)
  BY <1>9, <1>10 DEF EndforKept, Match
<1>12. OpenConds(conds) = {} /\ Waiting(calls) = {}
  BY <1>9 DEF OpenConds, Waiting
<1>13. Routines(conds, calls)
  BY <1>9, <1>12 DEF Routines, Limits
<1>14. Good(scan, loops)
  BY <1>5, <1>7, <1>8, <1>11 DEF Good, StackOK
<1> QED BY <1>9, <1>13, <1>14 DEF Sound, StatusOK

\* A step that changes nothing but the input stack.
LEMMA OnlyScan ==
  ASSUME Sound, Good(scan', loops), UNCHANGED <<loops, conds, calls, status>>
  PROVE  Sound'
BY DEF Sound, StatusOK

\* A step of the routines and conditions.
LEMMA OnlyRoutines ==
  ASSUME Sound, Good(scan', loops), Routines(conds', calls'), UNCHANGED <<loops, status>>
  PROVE  Sound'
BY DEF Sound, StatusOK

\* The last of a sequence.
LEMMA TopIs ==
  ASSUME NEW S, NEW q \in Seq(S)
  PROVE  /\ q # <<>> => Len(q) >= 1 /\ Last(q) = q[Len(q)] /\ q[Len(q)] \in S
         /\ Len(q) \in Nat /\ DOMAIN q = 1..Len(q)
<1>1. Last(q) = q[Len(q)]
  BY DEF Last
<1> QED BY <1>1

\* Another last element, in another notation.
LEMMA ExceptTop ==
  ASSUME NEW S, NEW q \in Seq(S), Len(q) >= 1, NEW e \in S
  PROVE  [q EXCEPT ![Len(q)] = e] = Append(Front(q), e)
<1> DEFINE a == [q EXCEPT ![Len(q)] = e]  b == Append(Front(q), e)
<1>1. b \in Seq(S) /\ Len(b) = Len(q) /\ b[Len(q)] = e /\ Len(q) \in Nat
      /\ \A j \in 1..(Len(q) - 1) : b[j] = q[j]
  BY TopSeq
<1>2. a \in Seq(S) /\ Len(a) = Len(q) /\ \A j \in 1..Len(q) : a[j] = IF j = Len(q) THEN e ELSE q[j]
  BY <1>1
<1> HIDE DEF a, b
<1>3. \A j \in 1..Len(q) : a[j] = b[j]
  BY <1>1, <1>2
<1>4. a = b
  BY <1>1, <1>2, <1>3
<1> QED BY <1>4 DEF a, b

\* What skip_text does to conditions and routines when it meets fi, else or
\* elseif.
LEMMA SkipRoutines ==
  ASSUME Routines(conds, calls), scanner_status = "skip",
         NEW m \in {fi_code, else_code, else_if_code}, SkipTo(m)
  PROVE  Routines(conds', calls')
<1> DEFINE n == Len(calls)  at == Last(calls).at  mine == at = null \/ Innermost.node = at
<1>1. /\ conds \in Seq(CondSet) /\ calls \in Seq(CallSet) /\ Len(conds) \in Nat
      /\ n \in Nat /\ n >= 1 /\ calls[n].kind = "skip" /\ at = calls[n].at /\ calls[n] \in CallSet
  BY ScannerStatusIs DEF Routines, RawKinds
<1>2. at \in Nodes \cup {null} /\ Innermost = conds[Len(conds)]
  BY <1>1 DEF CallSet, Innermost, Last
<1>3. /\ conds' = IF m = fi_code THEN Front(conds) ELSE conds
      /\ calls' = IF ~mine THEN calls
                  ELSE IF m = fi_code THEN Front(calls)
                  ELSE IF at = null THEN calls
                  ELSE Append(Front(calls), [kind |-> "cond", at |-> at,
                                             limit |-> IF m = else_code THEN fi_code ELSE else_if_code])
  BY DEF SkipTo
<1> HIDE DEF n, at, mine
<1>a. n = Len(calls) /\ (mine <=> at = null \/ Innermost.node = at)
  BY DEF n, mine
<1>4. CASE m # fi_code /\ (~mine \/ at = null)
  BY <1>3, <1>4, <1>a
<1>5. CASE m # fi_code /\ mine /\ at # null
  <2> DEFINE f == [kind |-> "cond", at |-> at,
                   limit |-> IF m = else_code THEN fi_code ELSE else_if_code]
  <2>1. f \in CallSet /\ f.kind = "cond" /\ f.at = at
    BY <1>2, <1>5 DEF CallSet
  <2>2. conds' = conds /\ calls' = Append(Front(calls), f)
    BY <1>3, <1>5
  <2> HIDE DEF f
  <2> QED BY <1>1, <1>5, <1>a, <2>1, <2>2, CallsTop
<1>6. CASE m = fi_code /\ at = null
  <2>1. Len(conds) >= 1 /\ conds[Len(conds)].limit # if_code
    BY <1>1, <1>6, <1>a DEF Routines
  <2>2. n \notin Waiting(calls)
    BY <1>1, <1>6 DEF Waiting
  <2>3. Routines(conds, Front(calls))
    BY <1>1, <1>a, <2>2, CallsPop
  <2>4. Len(Front(calls)) = n - 1 /\ \A j \in 1..(n - 1) : Front(calls)[j] = calls[j]
    BY <1>1, <1>a, FrontSeq
  <2>5. Len(Front(calls)) >= 1 => Front(calls)[Len(Front(calls))].kind # "skip"
    BY <1>1, <1>a, <2>4 DEF Routines, RawKinds
  <2>6. Routines(Front(conds), Front(calls))
    BY <2>1, <2>3, <2>5, CondsPop
  <2> QED BY <1>3, <1>6, <1>a, <2>6
<1>7. CASE m = fi_code /\ at # null
  <2>1. n \in Waiting(calls) /\ \A j \in Waiting(calls) : j <= n
    BY <1>1, <1>7, <1>a DEF Waiting
  <2>2. PICK k \in OpenConds(conds) : /\ conds[k].node = at
                                      /\ \A i \in OpenConds(conds) : i <= k
    BY <1>1, <2>1, LimitsLast
  <2>3. k \in 1..Len(conds) /\ Len(conds) >= 1
    BY <1>1, <2>2 DEF OpenConds
  <2>4. CASE mine
    <3>1. conds[Len(conds)].node = at
      BY <1>2, <1>7, <1>a, <2>4
    <3>2. Routines(Front(conds), Front(calls))
      BY <1>1, <1>a, <2>1, <2>3, <3>1, BothPop
    <3> QED BY <1>3, <1>7, <2>4, <3>2
  <2>5. CASE ~mine
    <3>1. conds[Len(conds)].node # at
      BY <1>2, <1>a, <2>5
    <3>2. conds[Len(conds)].limit # if_code
      BY <1>1, <2>2, <2>3, <3>1 DEF OpenConds
    <3>3. Routines(Front(conds), calls)
      BY <1>1, <1>7, <1>a, <2>3, <3>2, CondsPop
    <3> QED BY <1>3, <1>7, <2>5, <3>3
  <2> QED BY <2>4, <2>5
<1> QED BY <1>4, <1>5, <1>6, <1>7

\* What fi, else and elseif do in the normal course of things.
LEMMA FiOrElseKept ==
  ASSUME Sound, NEW m \in {fi_code, else_code, else_if_code}, FiOrElse(m)
  PROVE  Sound'
<1>1. /\ Good(scan, loops) /\ Routines(conds, calls) /\ scanner_status = "normal"
      /\ conds \in Seq(CondSet) /\ calls \in Seq(CallSet)
  BY DEF Sound, FiOrElse, Routines
<1>2. Len(calls) >= 1 => calls[Len(calls)].kind \notin RawKinds
  BY <1>1, ScannerStatusIs
<1>3. PICK s \in Reads("any") :
          IF m > if_limit /\ if_limit = if_code
          THEN /\ scan' = back_list(back_input(s, "any"), "inserted", "any") /\ Room(scan')
               /\ UNCHANGED <<conds, calls>>
          ELSE /\ scan' = s
               /\ IF m > if_limit THEN UNCHANGED <<conds, calls>>
                  ELSE IF m = fi_code THEN conds' = Front(conds) /\ UNCHANGED calls
                  ELSE /\ calls' = Append(calls, [kind |-> "skip", at |-> null])
                       /\ UNCHANGED conds
  BY DEF FiOrElse
<1>4. Good(s, loops)
  BY <1>1, GoodRead DEF Held
<1>5. UNCHANGED <<loops, status>>
  BY DEF FiOrElse
<1>6. CASE m > if_limit /\ if_limit = if_code
  <2>1. Good(back_input(s, "any"), loops)
    BY <1>4, GoodConserved, GoodBack DEF back_input, Held
  <2>2. Good(back_list(back_input(s, "any"), "inserted", "any"), loops)
    BY <2>1, GoodBack DEF Held
  <2> QED BY <1>3, <1>5, <1>6, <2>2, OnlyScan
<1>7. CASE m > if_limit /\ if_limit # if_code
  BY <1>3, <1>4, <1>5, <1>7, OnlyScan
<1>8. CASE ~(m > if_limit)
  <2>1. conds # <<>> /\ if_limit = Innermost.limit
    BY <1>8 DEF if_limit, fi_code, else_code, else_if_code
  <2>2. Len(conds) >= 1 /\ Innermost = conds[Len(conds)] /\ conds[Len(conds)] \in CondSet
    BY <1>1, <2>1, TopIs DEF Innermost
  <2>3. conds[Len(conds)].limit # if_code
    BY <1>8, <2>1, <2>2 DEF if_code, fi_code, else_code, else_if_code
  <2>4. scan' = s
    BY <1>3, <1>8
  <2>5. CASE m = fi_code
    <3>1. Routines(Front(conds), calls)
      BY <1>1, <1>2, <2>2, <2>3, CondsPop DEF RawKinds
    <3> QED BY <1>3, <1>4, <1>5, <1>8, <2>4, <2>5, <3>1, OnlyRoutines
  <2>6. CASE m # fi_code
    <3> DEFINE f == [kind |-> "skip", at |-> null]
    <3>1. f \in CallSet /\ f.kind = "skip" /\ f.at = null
      BY DEF CallSet
    <3> HIDE DEF f
    <3>2. Routines(conds, Append(calls, f))
      BY <1>1, <1>2, <2>2, <2>3, <3>1, CallsPush
    <3>3. conds' = conds /\ calls' = Append(calls, f)
      BY <1>3, <1>8, <2>6 DEF f
    <3> QED BY <1>4, <1>5, <2>4, <3>2, <3>3, OnlyRoutines
  <2> QED BY <2>5, <2>6
<1>9. m \in Int /\ if_limit \in Int
  <2>1. CASE conds = <<>>
    BY <2>1 DEF if_limit, fi_code, else_code, else_if_code
  <2>2. CASE conds # <<>>
    <3>1. Innermost \in CondSet
      BY <1>1, <2>2, TopIs DEF Innermost
    <3> QED BY <2>2, <3>1 DEF if_limit, CondSet, if_code, fi_code, else_code, else_if_code
  <2> QED BY <2>1, <2>2 DEF fi_code, else_code, else_if_code
<1> QED BY <1>6, <1>7, <1>8

\* A routine begins that waits for no condition, after a token has been read.
LEMMA Begun ==
  ASSUME Sound, scanner_status = "normal", scan' \in Reads("any"),
         NEW f \in CallSet, f.kind \notin {"cond", "skip"},
         calls' = Append(calls, f), UNCHANGED <<loops, conds, status>>
  PROVE  Sound'
<1>1. Good(scan', loops)
  BY GoodRead DEF Sound, Held
<1>2. Routines(conds, calls) /\ (Len(calls) >= 1 => calls[Len(calls)].kind \notin RawKinds)
  BY ScannerStatusIs DEF Sound
<1>3. Routines(conds, Append(calls, f))
  BY <1>2, CallsPush
<1>4. Routines(conds', calls')
  BY <1>3
<1> QED BY <1>1, <1>4, OnlyRoutines

\* The routine under way goes on in another way, or is done.
LEMMA TopCall ==
  ASSUME Sound, NEW k, Under(k) \/ (scanner_status = k /\ k \in {"skip", "text", "body"})
  PROVE  /\ Routines(conds, calls) /\ calls \in Seq(CallSet)
         /\ Len(calls) \in Nat /\ Len(calls) >= 1
         /\ calls[Len(calls)].kind = k /\ calls[Len(calls)] \in CallSet
         /\ Last(calls) = calls[Len(calls)]
         /\ k \notin {"cond", "skip"} => Routines(conds, Front(calls))
         /\ \A f \in CallSet : k \notin {"cond", "skip"} /\ f.kind \notin {"cond", "skip"}
               => Routines(conds, Append(Front(calls), f))
<1>1. Routines(conds, calls) /\ calls \in Seq(CallSet)
  BY DEF Sound, Routines
<1>2. /\ Len(calls) \in Nat /\ Len(calls) >= 1
      /\ calls[Len(calls)].kind = k /\ calls[Len(calls)] \in CallSet
      /\ Last(calls) = calls[Len(calls)]
  BY <1>1, ScannerStatusIs
<1>3. k \notin {"cond", "skip"} => Routines(conds, Front(calls))
  <2> SUFFICES ASSUME k \notin {"cond", "skip"} PROVE Routines(conds, Front(calls))
    OBVIOUS
  <2>1. Len(calls) \notin Waiting(calls)
    BY <1>2 DEF Waiting
  <2> QED BY <1>1, <1>2, <2>1, CallsPop
<1>4. ASSUME NEW f \in CallSet, k \notin {"cond", "skip"}, f.kind \notin {"cond", "skip"}
      PROVE  Routines(conds, Append(Front(calls), f))
  BY <1>1, <1>2, <1>4, CallsTop
<1> QED BY <1>1, <1>2, <1>3, <1>4

\* A condition is true, or else is.
LEMMA ConditionTrueKept ==
  ASSUME Sound, ConditionTrue
  PROVE  Sound'
<1> DEFINE n == Len(calls)  l == Last(calls).limit
           ds == [i \in DOMAIN conds |-> IF conds[i].node = calls[n].at
                                         THEN [conds[i] EXCEPT !.limit = l] ELSE conds[i]]
<1>1. /\ Routines(conds, calls) /\ calls \in Seq(CallSet) /\ n \in Nat /\ n >= 1
      /\ calls[n].kind = "cond" /\ calls[n] \in CallSet /\ Last(calls) = calls[n]
  <2>1. Under("cond")
    BY DEF ConditionTrue
  <2> QED BY <2>1, TopCall
<1>2. calls[n].at \in Nodes /\ l \in {fi_code, else_if_code}
  BY <1>1 DEF CallSet
<1>3. n \in Waiting(calls)
  BY <1>1, <1>2, ScannerAssumption DEF Waiting, ScannerAssumption
<1>4. /\ \E i \in DOMAIN conds : conds[i].node = calls[n].at
      /\ Routines(ds, Front(calls))
  <2> HIDE DEF l
  <2> QED BY <1>1, <1>2, <1>3, LimitChanges
<1>5. change_if_limit(l, Last(calls).at) /\ calls' = Front(calls) /\ UNCHANGED <<scan, loops>>
  BY DEF ConditionTrue
<1>6. conds' = ds /\ status' = status
  BY <1>1, <1>4, <1>5 DEF change_if_limit
<1> HIDE DEF ds
<1> QED BY <1>4, <1>5, <1>6, OnlyRoutines DEF Sound

\* exitif.
LEMMA ExitLoopKept ==
  ASSUME Sound, ExitLoop
  PROVE  Sound'
<1> DEFINE at == {k \in DOMAIN scan.input : scan.input[k].type = "loop"}
           k == CHOOSE i \in at : \A j \in at : j <= i
<1>1. /\ Good(scan, loops) /\ loops \in Seq(LoopSet) /\ Len(loops) >= 1 /\ StatusOK
      /\ calls' = Front(calls) /\ conds' = conds /\ status = "ok"
  <2>1. /\ Good(scan, loops) /\ loops \in Seq(LoopSet) /\ StatusOK /\ loops # <<>>
        /\ calls' = Front(calls) /\ conds' = conds /\ status = "ok"
    BY DEF Sound, ExitLoop
  <2> QED BY <2>1, TopIs
<1>2. Routines(conds', calls')
  <2>1. Under("exit")
    BY DEF ExitLoop
  <2> QED BY <1>1, <2>1, TopCall
<1>3. at = Turns(scan.input) /\ Len(scan.input) \in Nat
  BY <1>1 DEF Good, StackOK, Scans, Turns
<1>4. /\ LoseEnd = FALSE => at # {}
      /\ \A i \in at : (\A j \in at : j <= i) =>
            /\ LoseEnd = FALSE => scan.input[i].text = Last(loops).text
            /\ Good(PopTo(scan, i - 1), Front(loops))
  <2> HIDE DEF at
  <2> QED BY <1>1, <1>3, GoodExit
<1>5. at # {} => k \in at /\ \A j \in at : j <= k
  <2>1. at \subseteq 1..Len(scan.input)
    BY <1>3 DEF Turns
  <2> HIDE DEF at
  <2>2. at # {} => \E i \in at : \A j \in at : j <= i
    BY <1>3, <2>1, Largest
  <2> QED BY <2>2
<1>6. IF at = {} THEN status' = "underflow" /\ UNCHANGED <<scan, loops>>
      ELSE IF scan.input[k].text # Last(loops).text
      THEN status' = "loop confusion" /\ UNCHANGED <<scan, loops>>
      ELSE scan' = PopTo(scan, k - 1) /\ loops' = Front(loops) /\ UNCHANGED status
  BY DEF ExitLoop
<1> HIDE DEF at, k
<1>7. CASE at = {} \/ scan.input[k].text # Last(loops).text
  <2>1. LoseEnd # FALSE
    <3> SUFFICES ASSUME LoseEnd = FALSE PROVE FALSE
      OBVIOUS
    <3> QED BY <1>4, <1>5, <1>7
  <2>2. status' \in {"underflow", "loop confusion"} /\ UNCHANGED <<scan, loops>>
    BY <1>6, <1>7
  <2>3. StatusOK'
    BY <2>1, <2>2 DEF StatusOK
  <2> QED BY <1>1, <1>2, <2>2, <2>3 DEF Sound
<1>8. CASE at # {} /\ scan.input[k].text = Last(loops).text
  <2>1. Good(PopTo(scan, k - 1), Front(loops))
    BY <1>4, <1>5, <1>8
  <2>2. Front(loops) \in Seq(LoopSet)
    BY <1>1, FrontSeq
  <2>3. scan' = PopTo(scan, k - 1) /\ loops' = Front(loops) /\ status' = status
    BY <1>6, <1>8
  <2>4. StatusOK'
    BY <1>1, <2>3 DEF StatusOK
  <2> QED BY <1>2, <2>1, <2>2, <2>3, <2>4 DEF Sound
<1> QED BY <1>7, <1>8

\* A definition that has ended may be followed by a token that is not expanded.
LEMMA TokenFoundKept ==
  ASSUME Sound, TokenFound
  PROVE  Routines(conds, calls')
<1>1. CASE Under("next")
  BY <1>1, TopCall DEF TokenFound
<1>2. CASE ~Under("next")
  BY <1>2 DEF TokenFound, Sound
<1> QED BY <1>1, <1>2

\* A definition begins.
LEMMA ScanDefKept ==
  ASSUME Sound, scan_def
  PROVE  IInv'
<1>1. /\ Good(scan, loops) /\ Routines(conds, calls) /\ loops \in Seq(LoopSet)
      /\ calls \in Seq(CallSet) /\ scanner_status = "normal"
      /\ UNCHANGED <<loops, conds, status>>
  BY DEF Sound, scan_def, Parsing, Routines
<1>2. [kind |-> "params"] \in CallSet /\ [kind |-> "def"] \in CallSet
  BY DEF CallSet
<1>3. CASE scan' \in Reads("any") /\ calls' = Append(calls, [kind |-> "params"])
  <2>1. Sound'
    BY <1>1, <1>2, <1>3, Begun
  <2> QED BY <2>1 DEF IInv
<1>4. ASSUME NEW w \in {"any", "endfor"}, NEW s \in Reads(w), scan' = back_input(s, w),
             calls' = Append(calls, [kind |-> "def"])
      PROVE  IInv'
  <2>1. Routines(conds', calls')
    <3> DEFINE f == [kind |-> "def"]
    <3>1. f.kind = "def" /\ f \in CallSet
      BY <1>2
    <3> HIDE DEF f
    <3>2. Len(calls) >= 1 => calls[Len(calls)].kind \notin RawKinds
      BY <1>1, ScannerStatusIs
    <3>3. Routines(conds, Append(calls, f))
      BY <1>1, <3>1, <3>2, CallsPush
    <3> QED BY <1>1, <1>4, <3>3 DEF f
  <2>2. CASE w = "any"
    <3>1. Good(s, loops)
      BY <1>1, <2>2, GoodRead DEF Held
    <3>2. Good(scan', loops)
      BY <1>4, <2>2, <3>1, GoodConserved, GoodBack DEF back_input, Held
    <3>3. Sound'
      BY <1>1, <2>1, <3>2, OnlyRoutines
    <3> QED BY <3>3 DEF IInv
  <2>3. CASE w = "endfor"
    <3> DEFINE c == Conserved(s)  n == Len(c.input)
    <3>1. /\ Good(c, Front(loops)) /\ (LoseEnd = FALSE => LastDiffers(loops))
          /\ Top(c).more \/ file_state(Top(c))
      BY <1>1, <2>3, TurnGone
    <3> HIDE DEF c
    <3>2. StackOK(c) /\ c.input \in Seq(Levels) /\ n \in Nat /\ n >= 1 /\ Top(c) = c.input[n]
      <4>1. StackOK(c)
        BY <3>1 DEF Good
      <4>2. c.input \in Seq(Levels) /\ n >= 1
        BY <4>1 DEF StackOK, Scans, Bottom
      <4> QED BY <4>1, <4>2, TopIs DEF Top, Last
    <3>3. PICK l \in Levels :
             /\ PushOf(c, back_list(c, "backed_up", "endfor"), l)
             /\ l.type = "backed_up" /\ l.more /\ l.holds = "endfor" /\ l.n = 0
             /\ l.param_start = c.param_ptr
      BY <3>2, BackListIs, "endfor" \in Held DEF Held
    <3>4. scan' = back_list(c, "backed_up", "endfor")
      BY <1>4, <2>3 DEF back_input, c
    <3>5. StackOK(scan')
      BY <3>2, <3>3, <3>4, Pushed
    <3>6. CASE LoseEnd # FALSE
      <4>1. Good(scan', loops)
        BY <3>5, <3>6 DEF Good
      <4>2. Sound'
        BY <1>1, <2>1, <4>1, OnlyRoutines
      <4> QED BY <4>2 DEF IInv
    <3>7. CASE LoseEnd = FALSE
      <4> DEFINE inp == scan.input'
      <4>1. /\ inp = Append(c.input, l) /\ Len(inp) = n + 1 /\ inp[n + 1] = l
            /\ \A j \in 1..n : inp[j] = c.input[j]
        BY <3>2, <3>3, <3>4, PushSeq DEF PushOf
      <4>2. SubSeq(inp, 1, n) = c.input
        BY <3>2, <4>1
      <4>3. EndforKept(SubSeq(inp, 1, n)) /\ Match(SubSeq(inp, 1, n), Front(loops))
        BY <3>1, <3>7, <4>2 DEF Good
      <4> HIDE DEF inp, n
      <4>4. /\ n \in 1..Len(inp) /\ n + 1 \in 1..Len(inp) /\ n < n + 1 /\ n + 1 >= Len(inp) - 1
            /\ inp[n].more \/ file_state(inp[n])
        BY <3>1, <3>2, <4>1
      <4>5. Orphan(inp, loops)
        BY <3>2, <3>3, <4>1, <4>3, <4>4 DEF Orphan
      <4>6. Under("def")'
        BY <1>1, <1>2, <1>4, PushSeq DEF Under, Last
      <4> QED BY <1>1, <2>1, <3>1, <3>5, <3>7, <4>5, <4>6 DEF IInv, BrokenInto, Sound, StatusOK, inp
    <3> QED BY <3>6, <3>7
  <2> QED BY <2>2, <2>3
<1> QED BY <1>3, <1>4 DEF scan_def

\* What each step keeps in the usual case.
LEMMA SoundStep ==
  ASSUME Sound, [Next]_vars
  PROVE  IInv'
<1> SUFFICES ASSUME ~scan_def PROVE Sound'
  BY ScanDefKept DEF IInv
<1>1. /\ Good(scan, loops) /\ loops \in Seq(LoopSet) /\ Routines(conds, calls) /\ StatusOK
      /\ calls \in Seq(CallSet)
  BY DEF Sound, Routines
<1>2. /\ \A w \in Held \cup {"normal"} : w # "endfor" => \A s \in Reads(w) : Good(s, loops)
      /\ \A s \in Reads("any") : Good(s, loops)
  BY <1>1, GoodRead DEF Held
<1>3. scanner_status \in (Held \cup {"normal"}) \ {"endfor"}
  BY <1>1, ScannerStatusIs DEF Held
<1>4. \A t \in {"backed_up", "inserted"} : \A s : Good(s, loops) => Good(back_list(s, t, "any"), loops)
  BY GoodBack DEF Held
<1>5. \A s : Good(s, loops) => Good(Conserved(s), loops) /\ Good(back_input(s, "any"), loops)
  <2> TAKE s
  <2> HAVE Good(s, loops)
  <2>1. Good(Conserved(s), loops)
    BY GoodConserved
  <2>2. Good(back_list(Conserved(s), "backed_up", "any"), loops)
    BY <1>4, <2>1
  <2> QED BY <2>1, <2>2 DEF back_input
<1>a. \A w \in Given : w # "endfor" \/ LoseEnd # FALSE
  BY <1>3 DEF Given
<1>b. Given \subseteq Held \cup {"normal"}
  BY <1>3 DEF Given, Held
<1>c. \A w \in Given : \A s \in Reads(w) : Good(s, loops)
  <2> TAKE w \in Given
  <2> TAKE s \in Reads(w)
  <2>1. CASE w # "endfor"
    BY <1>2, <1>b, <2>1
  <2>2. CASE w = "endfor"
    <3>1. StackOK(s)
      BY <1>1, <2>2, ReadEndIs DEF Good
    <3> QED BY <1>a, <2>2, <3>1 DEF Good
  <2> QED BY <2>1, <2>2
<1>6. CASE Ordinary
  <2>1. Good(scan', loops)
    BY <1>2, <1>3, <1>6 DEF Ordinary
  <2>2. Routines(conds, calls')
    BY <1>6, TokenFoundKept DEF Ordinary
  <2> QED BY <1>6, <2>1, <2>2, OnlyRoutines DEF Ordinary
<1>7. CASE NoMore
  <2>1. Good(scan', loops)
    BY <1>1, <1>7, GoodNoMore DEF NoMore
  <2> QED BY <1>7, <2>1, OnlyScan DEF NoMore
<1>8. CASE BackInput
  <2>0. PICK w \in {"any", scanner_status} : \E s \in Reads(w) : scan' = back_input(s, w)
    BY <1>8 DEF BackInput
  <2>1. PICK s \in Reads(w) : scan' = back_input(s, w)
    BY <2>0
  <2>2. Good(s, loops) /\ w \in (Held \cup {"normal"}) \ {"endfor"}
    BY <1>2, <1>3, <2>1 DEF Held
  <2>3. w # "normal"
    <3>1. w \in Comes(Top(scan)) /\ StackOK(scan)
      BY <1>1, <2>1, <2>2, ReadIs DEF Good
    <3>2. Top(scan) \in Levels
      BY <3>1 DEF StackOK, Scans, Bottom, Top, Last
    <3> QED BY <3>1, <3>2 DEF Comes, Levels, Held
  <2>4. Good(scan', loops)
    BY <1>5, <2>1, <2>2, <2>3, GoodBack DEF back_input
  <2>5. Routines(conds, calls')
    BY <1>8, TokenFoundKept DEF BackInput
  <2> QED BY <1>8, <2>4, <2>5, OnlyRoutines DEF BackInput
<1>9. CASE EndLevel
  <2>1. Good(PopLevel(scan), loops)
    BY <1>1, <1>9, GoodPop DEF EndLevel
  <2> QED BY <1>9, <2>1, OnlyScan DEF EndLevel
<1>10. CASE EndFile
  <2>1. Good(PopLevel(scan), loops)
    BY <1>1, <1>10, GoodPop DEF EndFile
  <2>2. PopLevel(scan) = end_file_reading(scan)
    BY <1>10 DEF EndFile, PopLevel, file_state
  <2>3. Good(InsertRescue(end_file_reading(scan)), loops)
    BY <1>1, <2>1, <2>2, GoodRescue
  <2> QED BY <1>10, <2>3, OnlyScan DEF EndFile
<1>11. CASE Parameter
  <2>1. Good(scan', loops)
    BY <1>2, <1>11, GoodList DEF Parameter
  <2> QED BY <1>11, <2>1, OnlyScan DEF Parameter
<1>12. CASE OuterEnd
  <2>1. Good(scan', loops)
    BY <1>1, <1>12, ReadEndBack, GoodRescue DEF OuterEnd
  <2> QED BY <1>12, <2>1, OnlyScan DEF OuterEnd
<1>13. CASE If
  <2>1. PICK p \in FreshNodes :
          /\ conds' = Append(conds, [node |-> p, limit |-> if_code])
          /\ calls' = Append(calls, [kind |-> "cond", at |-> p, limit |-> else_if_code])
    BY <1>13 DEF If
  <2>2. p \in Nodes /\ \A i \in 1..Len(conds) : conds[i].node # p
    BY <1>1, <2>1 DEF FreshNodes, Routines
  <2>3. Len(calls) >= 1 => calls[Len(calls)].kind \notin RawKinds
    BY <1>1, <1>13, ScannerStatusIs DEF If
  <2>4. Routines(conds', calls')
    BY <1>1, <2>1, <2>2, <2>3, CondsPush, ScannerAssumption DEF ScannerAssumption
  <2>5. Good(scan', loops)
    BY <1>2, <1>13 DEF If
  <2> QED BY <1>13, <2>4, <2>5, OnlyRoutines DEF If
<1>14. CASE ConditionTrue
  BY <1>14, ConditionTrueKept
<1>15. CASE ConditionFalse
  <2>1. Under("cond")
    BY <1>15 DEF ConditionFalse
  <2> DEFINE f == [kind |-> "skip", at |-> Last(calls).at]  top == calls[Len(calls)]
  <2>2. /\ Len(calls) >= 1 /\ top.kind = "cond" /\ top \in CallSet /\ Last(calls) = top
    BY <2>1, TopCall
  <2>3. top.at \in Nodes /\ top.at # null
    BY <2>2, ScannerAssumption DEF CallSet, ScannerAssumption
  <2>4. f \in CallSet /\ f.kind = "skip" /\ f.at = top.at
    BY <2>2, <2>3 DEF CallSet
  <2> HIDE DEF f, top
  <2>5. Routines(conds, Append(Front(calls), f))
    <3>1. top = calls[Len(calls)]
      BY DEF top
    <3> QED BY <1>1, <2>2, <2>3, <2>4, <3>1, CallsTop
  <2>6. conds' = conds /\ calls' = Append(Front(calls), f) /\ UNCHANGED <<scan, loops, status>>
    BY <1>15 DEF ConditionFalse, f
  <2> QED BY <1>1, <2>5, <2>6, OnlyRoutines
<1>16. ASSUME NEW m \in {fi_code, else_code, else_if_code}, SkipTo(m) PROVE Sound'
  <2>1. scanner_status = "skip"
    BY <1>16 DEF SkipTo
  <2>2. Routines(conds', calls')
    BY <1>1, <1>16, <2>1, SkipRoutines
  <2>3. Good(scan', loops)
    BY <1>2, <1>16 DEF SkipTo, Held
  <2> QED BY <1>16, <2>2, <2>3, OnlyRoutines DEF SkipTo
<1>17. ASSUME NEW m \in {fi_code, else_code, else_if_code}, FiOrElse(m) PROVE Sound'
  BY <1>17, FiOrElseKept
<1>18. CASE begin_iteration
  <2>1. [kind |-> "values"] \in CallSet
    BY DEF CallSet
  <2> QED BY <1>18, <2>1, Begun DEF begin_iteration
<1>19. CASE BeginBody
  <2>1. PICK k \in -1..MaxValues : calls' = Append(Front(calls), [kind |-> "body", left |-> k])
    BY <1>19 DEF BeginBody
  <2>2. Under("values")
    BY <1>19 DEF BeginBody
  <2>3. [kind |-> "body", left |-> k] \in CallSet
    BY DEF CallSet
  <2>4. Routines(conds, calls')
    BY <2>1, <2>2, <2>3, TopCall
  <2> QED BY <1>1, <1>19, <2>4, OnlyRoutines DEF BeginBody
<1>20. CASE EndBody
  <2>1. scanner_status = "body" /\ calls' = Front(calls) /\ UNCHANGED <<conds, status>>
    BY <1>20 DEF EndBody
  <2> DEFINE d == Last(calls).left
  <2>2. PICK s \in Reads("any") \cup Reads("body"), t \in Texts \ {loops[i].text : i \in DOMAIN loops} :
          LET r == resume_iteration(s, Append(loops, [text |-> t, left |-> d]))
          IN  scan' = r[1] /\ loops' = r[2] /\ Room(scan')
    BY <1>20 DEF EndBody
  <2>3. d \in Int /\ Routines(conds, Front(calls))
    <3>1. calls[Len(calls)].kind = "body" /\ calls[Len(calls)] \in CallSet
          /\ Last(calls) = calls[Len(calls)] /\ Routines(conds, Front(calls))
      BY <2>1, TopCall
    <3> QED BY <3>1 DEF CallSet
  <2> HIDE DEF d
  <2>4. Good(s, loops)
    BY <1>2 DEF Held
  <2>5. LET r == resume_iteration(s, Append(loops, [text |-> t, left |-> d]))
        IN  Good(r[1], r[2]) /\ r[2] \in Seq(LoopSet)
    BY <1>1, <2>3, <2>4, GoodLoop
  <2>6. Good(scan', loops') /\ loops' \in Seq(LoopSet)
    BY <2>2, <2>5
  <2> QED BY <1>1, <2>1, <2>3, <2>6 DEF Sound, StatusOK
<1>21. CASE RepeatLoop
  <2>1. PICK s \in Reads("endfor") :
          LET r == IF loops = <<>> THEN <<Conserved(s), loops>>
                   ELSE resume_iteration(Conserved(s), loops)
          IN  scan' = r[1] /\ loops' = r[2]
    BY <1>21 DEF RepeatLoop
  <2>2. LET r == IF loops = <<>> THEN <<Conserved(s), loops>>
                 ELSE resume_iteration(Conserved(s), loops)
        IN  Good(r[1], r[2]) /\ r[2] \in Seq(LoopSet)
    BY <1>1, GoodRepeat
  <2>3. Good(scan', loops') /\ loops' \in Seq(LoopSet)
    BY <2>1, <2>2
  <2> QED BY <1>1, <1>21, <2>3 DEF RepeatLoop, Sound, StatusOK
<1>22. CASE ExitTest
  <2>1. [kind |-> "exit"] \in CallSet
    BY DEF CallSet
  <2> QED BY <1>22, <2>1, Begun DEF ExitTest
<1>23. CASE StayInLoop
  <2>1. Under("exit")
    BY <1>23 DEF StayInLoop
  <2>2. Routines(conds, Front(calls))
    BY <2>1, TopCall
  <2> QED BY <1>1, <1>23, <2>2, OnlyRoutines DEF StayInLoop
<1>24. CASE ExitLoop
  BY <1>24, ExitLoopKept
<1>25. CASE get_symbol
  <2>0. PICK w \in Given : \E s \in Reads(w) : scan' = back_list(Conserved(s), "inserted", "any")
    BY <1>25 DEF get_symbol
  <2>1. PICK s \in Reads(w) : scan' = back_list(Conserved(s), "inserted", "any")
    BY <2>0
  <2>2. Good(s, loops)
    BY <1>c
  <2>3. Good(scan', loops)
    <3>1. Good(Conserved(s), loops)
      BY <1>5, <2>2
    <3>2. Good(back_list(Conserved(s), "inserted", "any"), loops)
      BY <1>4, <3>1
    <3> QED BY <2>1, <3>2
  <2> QED BY <1>25, <2>3, OnlyScan DEF get_symbol
<1>26. CASE macro_call
  <2>1. [kind |-> "args", n |-> 0] \in CallSet
    BY DEF CallSet
  <2> QED BY <1>26, <2>1, Begun DEF macro_call
<1>27. CASE Argument \/ TextArgument
  <2>1. Under("args") /\ UNCHANGED <<scan, loops, conds, status>>
    BY <1>27 DEF Argument, TextArgument
  <2> DEFINE top == calls[Len(calls)]  e == [top EXCEPT !.n = @ + 1]
             cs == [calls EXCEPT ![Len(calls)].n = @ + 1]
  <2>2. Len(calls) >= 1 /\ top \in CallSet /\ top.kind = "args"
    BY <2>1, TopCall
  <2>3. e \in CallSet /\ e.kind = "args"
    BY <2>2 DEF CallSet
  <2>4. cs = [calls EXCEPT ![Len(calls)] = e]
    OBVIOUS
  <2>5. cs = Append(Front(calls), e)
    <3> HIDE DEF e, cs
    <3> QED BY <1>1, <2>2, <2>3, <2>4, ExceptTop
  <2> HIDE DEF e, cs
  <2>6. Routines(conds, cs)
    BY <2>1, <2>3, <2>5, TopCall
  <2>7. CASE Argument
    <3>1. calls' = cs
      BY <2>7 DEF Argument, cs
    <3> QED BY <1>1, <2>1, <2>6, <3>1, OnlyRoutines
  <2>8. CASE TextArgument
    <3> DEFINE f == [kind |-> "text"]
    <3>1. calls' = Append(cs, f)
      BY <2>8 DEF TextArgument, cs
    <3>2. f \in CallSet /\ f.kind = "text"
      BY DEF CallSet
    <3> HIDE DEF f
    <3>3. cs[Len(cs)].kind = "args"
      BY <1>1, <2>2, <2>3, <2>5, TopSeq
    <3>4. Routines(conds, Append(cs, f))
      BY <2>6, <3>2, <3>3, CallsPush DEF RawKinds
    <3> QED BY <1>1, <2>1, <3>1, <3>4, OnlyRoutines
  <2> QED BY <1>27, <2>7, <2>8
<1>28. CASE EndText
  <2>1. Routines(conds, Front(calls))
    BY <1>28, TopCall DEF EndText
  <2>2. Good(scan', loops)
    BY <1>2, <1>28 DEF EndText, Held
  <2> QED BY <1>28, <2>1, <2>2, OnlyRoutines DEF EndText
<1>29. CASE Feed
  <2>1. Under("args") /\ calls' = Front(calls) /\ UNCHANGED <<loops, conds, status>>
        /\ scan' = stack_argument(begin_token_list(Conserved(scan), "macro"), Last(calls).n)
    BY <1>29 DEF Feed
  <2>2. /\ Routines(conds, Front(calls)) /\ calls[Len(calls)].kind = "args"
        /\ calls[Len(calls)] \in CallSet /\ Last(calls) = calls[Len(calls)]
    BY <2>1, TopCall
  <2>3. Last(calls).n \in Nat
    BY <2>2 DEF CallSet
  <2>4. Good(scan', loops)
    BY <1>1, <1>5, <2>1, <2>3, GoodMacro
  <2> QED BY <2>1, <2>2, <2>4, OnlyRoutines
<1>30. CASE start_input
  <2>1. Good(scan', loops)
    BY <1>2, <1>5, <1>30, GoodOpened DEF start_input
  <2> QED BY <1>30, <2>1, OnlyScan DEF start_input
<1>31. CASE EndInput
  <2>1. Good(scan', loops)
    BY <1>2, <1>31 DEF EndInput
  <2> QED BY <1>31, <2>1, OnlyScan DEF EndInput
<1>32. CASE ScanTokens
  <2>1. Good(scan', loops)
    BY <1>2, <1>5, <1>32, GoodOpened DEF ScanTokens
  <2> QED BY <1>32, <2>1, OnlyScan DEF ScanTokens
<1>35. CASE Flush
  <2>1. Good(scan', loops)
    BY <1>2, <1>5, <1>35 DEF Flush
  <2> DEFINE f == [kind |-> "text"]
  <2>2. f \in CallSet /\ f.kind = "text"
    BY DEF CallSet
  <2> HIDE DEF f
  <2>3. Len(calls) >= 1 => calls[Len(calls)].kind \notin RawKinds
    BY <1>1, <1>35, ScannerStatusIs DEF Flush, Parsing
  <2>4. Routines(conds, Append(calls, f))
    BY <1>1, <2>2, <2>3, CallsPush
  <2> QED BY <1>35, <2>1, <2>4, OnlyRoutines DEF Flush, f
<1>36. CASE ShowToken
  <2>1. Good(scan', loops)
    BY <1>c, <1>36 DEF ShowToken
  <2> QED BY <1>36, <2>1, OnlyScan DEF ShowToken
<1>38. CASE EndParams
  <2>1. Under("params")
    BY <1>38 DEF EndParams
  <2>2. [kind |-> "def"] \in CallSet
    BY DEF CallSet
  <2>3. Routines(conds, Append(Front(calls), [kind |-> "def"]))
    BY <2>1, <2>2, TopCall
  <2> QED BY <1>1, <1>38, <2>3, OnlyRoutines DEF EndParams
<1>39. CASE EndDef
  <2>1. Under("def")
    BY <1>39 DEF EndDef
  <2>2. [kind |-> "next"] \in CallSet
    BY DEF CallSet
  <2>3. Routines(conds, Append(Front(calls), [kind |-> "next"]))
    BY <2>1, <2>2, TopCall
  <2>4. Good(scan', loops)
    BY <1>2, <1>39 DEF EndDef, Held
  <2> QED BY <1>39, <2>3, <2>4, OnlyRoutines DEF EndDef
<1>33. CASE UNCHANGED vars
  BY <1>1, <1>33, OnlyScan DEF vars
<1>34. CASE \E m \in {fi_code, else_code, else_if_code} : SkipTo(m) \/ FiOrElse(m)
  BY <1>16, <1>17, <1>34
<1> QED
  BY <1>6, <1>7, <1>8, <1>9, <1>10, <1>11, <1>12, <1>13, <1>14, <1>15, <1>18, <1>19, <1>20,
     <1>21, <1>22, <1>23, <1>24, <1>25, <1>26, <1>27, <1>28, <1>29, <1>30, <1>31, <1>32,
     <1>33, <1>34, <1>35, <1>36, <1>38, <1>39 DEF Next

\* When a definition has been broken into, only the rescue can be read, put the
\* waiting ENDFOR back again, or end the definition, until ENDFOR is read.
LEMMA OnlyRescue ==
  ASSUME BrokenInto
  PROVE  /\ Reads("any") = {} /\ Reads("normal") = {}
         /\ Top(scan).type \in {"backed_up", "inserted"} /\ Top(scan).n = 0
         /\ scanner_status \in {"def", "normal"}
         /\ Routines(conds, calls) /\ calls \in Seq(CallSet)
         /\ Len(calls) >= 1 /\ Last(calls) = calls[Len(calls)]
         /\ Last(calls).kind \in {"def", "next"}
         /\ scanner_status = "def" <=> Last(calls).kind = "def"
<1> DEFINE n == Len(scan.input)
<1>1. StackOK(scan) /\ Orphan(scan.input, loops) /\ Bottom(scan.input)
      /\ n \in Nat /\ n >= 1 /\ Top(scan) = scan.input[n]
  BY DEF BrokenInto, StackOK, Scans, Bottom, Top, Last
<1>2. \/ scan.input[n].type = "backed_up" /\ scan.input[n].holds = "endfor"
      \/ scan.input[n].type = "inserted" /\ scan.input[n].holds = "def"
  BY <1>1 DEF Orphan
<1>3. scan.input[n].n = 0
  <2>1. scan.input[n] \in Levels
    BY <1>1 DEF StackOK, Scans
  <2> QED BY <1>1, <1>2, <2>1 DEF Bottom, Levels
<1>4. "any" \notin Comes(Top(scan)) /\ "normal" \notin Comes(Top(scan))
  BY <1>1, <1>2 DEF Comes
<1>5. Routines(conds, calls) /\ calls \in Seq(CallSet) /\ (Under("def") \/ Under("next"))
  BY DEF BrokenInto, Routines
<1>6. /\ Len(calls) >= 1 /\ Last(calls) = calls[Len(calls)] /\ calls # <<>>
      /\ Last(calls).kind \in {"def", "next"}
  BY <1>5, TopIs DEF Under
<1>7. scanner_status = IF Last(calls).kind = "def" THEN "def" ELSE "normal"
  BY <1>6 DEF scanner_status, Status
<1> QED BY <1>1, <1>2, <1>3, <1>4, <1>5, <1>6, <1>7 DEF Reads

\* Nothing but the top level changes, and that is the rescue.
LEMMA RescueRead ==
  ASSUME BrokenInto, scanner_status = "def", NEW s \in Reads("def")
  PROVE  StackOK(s) /\ Orphan(s.input, loops)
<1> DEFINE q == scan.input  n == Len(q)  r == s.input
<1>1. /\ StackOK(scan) /\ Orphan(q, loops) /\ q \in Seq(Levels) /\ n \in Nat
  BY DEF BrokenInto, StackOK, Scans
<1>2. /\ StackOK(s) /\ Len(r) = n /\ \A j \in 1..(n - 1) : r[j] = q[j]
      /\ Top(s).type = Top(scan).type /\ Top(s).holds = Top(scan).holds
      /\ "def" \in Comes(Top(scan)) /\ r \in Seq(Levels)
  BY <1>1, ReadIs DEF Held, StackOK, Scans
<1>3. Top(scan) = q[n] /\ Top(s) = r[n]
  BY <1>2 DEF Top, Last
<1> HIDE DEF q, n, r
<1>a. Len(q) = n
  BY DEF n
<1>4. PICK m \in 1..n, e \in 1..n :
       /\ m < e /\ e >= n - 1
       /\ EndforKept(SubSeq(q, 1, m)) /\ Match(SubSeq(q, 1, m), Front(loops))
       /\ q[m].more \/ file_state(q[m])
       /\ q[e].type = "backed_up" /\ q[e].holds = "endfor" /\ q[e].more
       /\ \A j \in (m + 1)..(e - 1) : ~q[j].more /\ q[j].type = "backed_up"
       /\ e < n => q[n].type = "inserted" /\ q[n].holds = "def"
  BY <1>1, <1>a DEF Orphan
<1>5. e < n
  <2>1. CASE e = n
    BY <1>2, <1>3, <1>4, <2>1 DEF Comes
  <2> QED BY <1>1, <1>4, <2>1
<1>6. SubSeq(r, 1, m) = SubSeq(q, 1, m)
  BY <1>1, <1>2, <1>4, <1>5, <1>a
<1>7. \A j \in 1..e : r[j] = q[j]
  BY <1>1, <1>2, <1>5
<1>8. /\ m < e /\ e >= n - 1 /\ m \in 1..n /\ e \in 1..n
      /\ EndforKept(SubSeq(r, 1, m)) /\ Match(SubSeq(r, 1, m), Front(loops))
      /\ r[m].more \/ file_state(r[m])
      /\ r[e].type = "backed_up" /\ r[e].holds = "endfor" /\ r[e].more
      /\ \A j \in (m + 1)..(e - 1) : ~r[j].more /\ r[j].type = "backed_up"
      /\ r[n].type = "inserted" /\ r[n].holds = "def"
  <2>1. r[m] = q[m] /\ r[e] = q[e]
    BY <1>4, <1>7
  <2>2. \A j \in (m + 1)..(e - 1) : r[j] = q[j] /\ ~q[j].more /\ q[j].type = "backed_up"
    BY <1>4, <1>7
  <2>3. r[n].type = "inserted" /\ r[n].holds = "def"
    BY <1>2, <1>3, <1>4, <1>5
  <2>4. EndforKept(SubSeq(r, 1, m)) /\ Match(SubSeq(r, 1, m), Front(loops))
    BY <1>4, <1>6
  <2> QED BY <1>4, <2>1, <2>2, <2>3, <2>4
<1>9. Orphan(r, loops)
  BY <1>2, <1>8 DEF Orphan
<1> QED BY <1>2, <1>9 DEF r

\* The rescue, which has been read, goes.
LEMMA RescueGone ==
  ASSUME BrokenInto, EndLevel
  PROVE  StackOK(scan') /\ Orphan(scan'.input, loops)
<1> DEFINE q == scan.input  n == Len(q)  r == scan'.input
<1>1. /\ StackOK(scan) /\ Orphan(q, loops) /\ q \in Seq(Levels) /\ n \in Nat
      /\ ~Top(scan).more /\ Top(scan) = q[n] /\ scan' = PopLevel(scan)
  BY DEF BrokenInto, StackOK, Scans, EndLevel, Top, Last
<1>2. PICK m \in 1..n, e \in 1..n :
       /\ m < e /\ e >= n - 1
       /\ EndforKept(SubSeq(q, 1, m)) /\ Match(SubSeq(q, 1, m), Front(loops))
       /\ q[m].more \/ file_state(q[m])
       /\ q[e].type = "backed_up" /\ q[e].holds = "endfor" /\ q[e].more
       /\ \A j \in (m + 1)..(e - 1) : ~q[j].more /\ q[j].type = "backed_up"
  BY <1>1 DEF Orphan
<1>3. e = n - 1 /\ n >= 2
  BY <1>1, <1>2
<1>4. StackOK(scan') /\ r = Front(q)
  BY <1>1, <1>3, Popped
<1> HIDE DEF q, n, r
<1>a. Len(q) = n
  BY DEF n
<1>5. Len(r) = e /\ \A j \in 1..e : r[j] = q[j]
  BY <1>1, <1>3, <1>4, <1>a, FrontSeq
<1>6. SubSeq(r, 1, m) = SubSeq(q, 1, m)
  <2>1. r = SubSeq(q, 1, e)
    BY <1>3, <1>4, <1>a DEF Front
  <2>2. e \in 0..Len(q) /\ m \in 0..e
    BY <1>1, <1>2, <1>a
  <2> QED BY <1>1, <2>1, <2>2, PrefixPrefix
<1>7. /\ m < e /\ e >= Len(r) - 1 /\ m \in 1..Len(r) /\ e \in 1..Len(r) /\ ~(e < Len(r))
      /\ EndforKept(SubSeq(r, 1, m)) /\ Match(SubSeq(r, 1, m), Front(loops))
      /\ r[m].more \/ file_state(r[m])
      /\ r[e].type = "backed_up" /\ r[e].holds = "endfor" /\ r[e].more
      /\ \A j \in (m + 1)..(e - 1) : ~r[j].more /\ r[j].type = "backed_up"
  <2>1. r[m] = q[m] /\ r[e] = q[e] /\ Len(r) = e /\ e \in Nat
    BY <1>1, <1>2, <1>3, <1>5
  <2>2. \A j \in (m + 1)..(e - 1) : r[j] = q[j] /\ ~q[j].more /\ q[j].type = "backed_up"
    BY <1>2, <1>5
  <2>3. m \in 1..Len(r) /\ e \in 1..Len(r) /\ e >= Len(r) - 1 /\ ~(e < Len(r))
    BY <1>1, <1>2, <2>1
  <2>4. \A j \in (m + 1)..(e - 1) : ~r[j].more /\ r[j].type = "backed_up"
    BY <2>2
  <2>5. EndforKept(SubSeq(r, 1, m)) /\ Match(SubSeq(r, 1, m), Front(loops))
    BY <1>2, <1>6
  <2>6. r[m].more \/ file_state(r[m])
    BY <1>2, <2>1
  <2> QED BY <1>2, <2>1, <2>3, <2>4, <2>5, <2>6
<1>8. Orphan(r, loops)
  BY <1>7 DEF Orphan
<1> QED BY <1>4, <1>8 DEF r

\* The waiting ENDFOR has been read: what is read to its end is above the
\* turns of the other loops.
LEMMA OrphanRead ==
  ASSUME BrokenInto, NEW s \in Reads("endfor")
  PROVE  \E m \in 1..Len(s.input) :
           /\ StackOK(s) /\ s.input \in Seq(Levels) /\ m < Len(s.input)
           /\ EndforKept(SubSeq(s.input, 1, m)) /\ Match(SubSeq(s.input, 1, m), Front(loops))
           /\ s.input[m].more \/ file_state(s.input[m])
           /\ \A j \in (m + 1)..Len(s.input) : ~s.input[j].more /\ s.input[j].type = "backed_up"
<1> DEFINE q == scan.input  n == Len(q)  r == s.input
<1>1. /\ StackOK(scan) /\ Orphan(q, loops) /\ q \in Seq(Levels) /\ n \in Nat
  BY DEF BrokenInto, StackOK, Scans
<1>2. /\ StackOK(s) /\ r \in Seq(Levels) /\ Len(r) = n
      /\ \A j \in 1..(n - 1) : r[j] = q[j]
      /\ ~r[n].more /\ r[n].type = q[n].type
      /\ \/ q[n].type = "loop" /\ q[n].holds = "any"
         \/ q[n].type = "backed_up" /\ q[n].holds = "endfor"
  BY <1>1, ReadEndIs
<1>3. PICK m \in 1..n, e \in 1..n :
       /\ m < e /\ e >= n - 1
       /\ EndforKept(SubSeq(q, 1, m)) /\ Match(SubSeq(q, 1, m), Front(loops))
       /\ q[m].more \/ file_state(q[m])
       /\ \A j \in (m + 1)..(e - 1) : ~q[j].more /\ q[j].type = "backed_up"
       /\ e < n => q[n].type = "inserted"
       /\ q[e].type = "backed_up"
  BY <1>1 DEF Orphan
<1>4. e = n
  BY <1>1, <1>2, <1>3
<1> HIDE DEF q, n, r
<1>a. Len(q) = n
  BY DEF n
<1>5. SubSeq(r, 1, m) = SubSeq(q, 1, m)
  BY <1>1, <1>2, <1>3, <1>4, <1>a
<1>6. r[m] = q[m] /\ \A j \in (m + 1)..n : ~r[j].more /\ r[j].type = "backed_up"
  BY <1>1, <1>2, <1>3, <1>4
<1> QED BY <1>1, <1>2, <1>3, <1>4, <1>5, <1>6 DEF r

\* ENDFOR comes again while the definition is read, and is put back again.
LEMMA OrphanBack ==
  ASSUME BrokenInto, OuterEnd
  PROVE  StackOK(scan') /\ Orphan(scan'.input, loops)
<1>1. scanner_status = "def"
  BY OnlyRescue DEF OuterEnd
<1>2. PICK s \in Reads("endfor") : scan' = InsertRescue(back_list(s, "backed_up", "endfor"))
  BY DEF OuterEnd
<1> DEFINE q == s.input  n == Len(q)  t == back_list(s, "backed_up", "endfor")
<1>3. PICK m \in 1..n :
        /\ StackOK(s) /\ q \in Seq(Levels) /\ m < n
        /\ EndforKept(SubSeq(q, 1, m)) /\ Match(SubSeq(q, 1, m), Front(loops))
        /\ q[m].more \/ file_state(q[m])
        /\ \A j \in (m + 1)..n : ~q[j].more /\ q[j].type = "backed_up"
  BY OrphanRead
<1>4. PICK l \in Levels :
         /\ PushOf(s, t, l)
         /\ l.type = "backed_up" /\ l.more /\ l.holds = "endfor" /\ l.n = 0
         /\ l.param_start = s.param_ptr
  BY <1>3, BackListIs, "endfor" \in Held DEF Held
<1> HIDE DEF q, n, t
<1>a. Len(q) = n /\ q = s.input /\ n \in Nat
  BY <1>3 DEF n, q
<1>5. StackOK(t)
  BY <1>3, <1>4, Pushed
<1>6. /\ t.input \in Seq(Levels) /\ Len(t.input) = n + 1 /\ t.input[n + 1] = l
      /\ \A j \in 1..n : t.input[j] = q[j]
  <2>1. t.input = Append(q, l) /\ q \in Seq(Levels)
    BY <1>3, <1>4, <1>a DEF PushOf
  <2> QED BY <1>a, <2>1, PushSeq
<1> DEFINE c == Conserved(t)
<1>7. StackOK(c) /\ c.input = t.input
  <2>1. PICK k \in 1..Len(t.input) :
            /\ StackOK(c) /\ c.input = SubSeq(t.input, 1, k)
            /\ \A j \in (k + 1)..Len(t.input) : ~t.input[j].more
    BY <1>5, ConservedTo
  <2>2. k = n + 1
    BY <1>4, <1>6, <1>a, <2>1
  <2> QED BY <1>6, <2>1, <2>2
<1> HIDE DEF c
<1>8. PICK d \in Levels :
         /\ PushOf(c, back_list(c, "inserted", "def"), d)
         /\ d.type = "inserted" /\ d.more /\ d.holds = "def" /\ d.n = 0
         /\ d.param_start = c.param_ptr
  BY <1>7, BackListIs, "def" \in Held DEF Held
<1>9. scan' = back_list(c, "inserted", "def")
  BY <1>1, <1>2 DEF InsertRescue, c, t
<1>10. StackOK(scan')
  BY <1>7, <1>8, <1>9, Pushed
<1> DEFINE r == scan'.input
<1>11. /\ r \in Seq(Levels) /\ Len(r) = n + 2 /\ r[n + 2] = d /\ r[n + 1] = l
       /\ \A j \in 1..n : r[j] = q[j]
  <2>1. r = Append(t.input, d)
    BY <1>7, <1>8, <1>9 DEF PushOf
  <2>2. /\ r \in Seq(Levels) /\ Len(r) = Len(t.input) + 1 /\ r[Len(t.input) + 1] = d
        /\ \A j \in 1..Len(t.input) : r[j] = t.input[j]
    BY <1>6, <2>1, PushSeq
  <2> QED BY <1>6, <1>a, <2>2
<1> HIDE DEF r
<1>12. SubSeq(r, 1, m) = SubSeq(q, 1, m)
  BY <1>3, <1>11, <1>a
<1>13. /\ m \in 1..Len(r) /\ n + 1 \in 1..Len(r) /\ m < n + 1 /\ n + 1 >= Len(r) - 1
       /\ r[m] = q[m] /\ r[Len(r)] = d
       /\ \A j \in (m + 1)..((n + 1) - 1) : ~r[j].more /\ r[j].type = "backed_up"
  BY <1>3, <1>11, <1>a
<1>14. Orphan(r, loops)
  BY <1>3, <1>4, <1>8, <1>11, <1>12, <1>13 DEF Orphan
<1> QED BY <1>10, <1>14 DEF r

\* The waiting ENDFOR is read when tokens are expanded, and its loop goes on.
LEMMA OrphanRepeat ==
  ASSUME BrokenInto, RepeatLoop
  PROVE  Sound'
<1>1. PICK s \in Reads("endfor") :
         LET r == IF loops = <<>> THEN <<Conserved(s), loops>>
                  ELSE resume_iteration(Conserved(s), loops)
         IN  scan' = r[1] /\ loops' = r[2]
  BY DEF RepeatLoop
<1>2. /\ loops \in Seq(LoopSet) /\ LastDiffers(loops) /\ Len(loops) >= 1 /\ loops # <<>>
      /\ Routines(conds, calls) /\ StatusOK /\ UNCHANGED <<conds, calls, status>>
  BY DEF BrokenInto, LastDiffers, RepeatLoop
<1> DEFINE q == s.input  n == Len(q)  c == Conserved(s)
<1>3. PICK m \in 1..n :
        /\ StackOK(s) /\ q \in Seq(Levels) /\ m < n
        /\ EndforKept(SubSeq(q, 1, m)) /\ Match(SubSeq(q, 1, m), Front(loops))
        /\ q[m].more \/ file_state(q[m])
        /\ \A j \in (m + 1)..n : ~q[j].more /\ q[j].type = "backed_up"
  BY OrphanRead
<1>4. PICK k \in 1..n :
        /\ StackOK(c) /\ c.input = SubSeq(q, 1, k)
        /\ q[k].more \/ file_state(q[k])
        /\ \A j \in (k + 1)..n : ~q[j].more /\ ~file_state(q[j])
  BY <1>3, ConservedTo
<1> HIDE DEF q, n, c
<1>5. k = m
  BY <1>3, <1>4 DEF file_state
<1>6. Good(c, Front(loops))
  BY <1>3, <1>4, <1>5 DEF Good
<1>7. LET r == resume_iteration(c, loops) IN Good(r[1], r[2]) /\ r[2] \in Seq(LoopSet)
  BY <1>2, <1>6, GoodResume DEF LastDiffers
<1>8. Good(scan', loops') /\ loops' \in Seq(LoopSet)
  BY <1>1, <1>2, <1>7 DEF c
<1> QED BY <1>2, <1>8 DEF Sound, StatusOK

\* What each step keeps when a definition has been broken into.
LEMMA BrokenStep ==
  ASSUME BrokenInto, [Next]_vars
  PROVE  IInv'
<1>1. /\ Reads("any") = {} /\ Reads("normal") = {}
      /\ Top(scan).type \in {"backed_up", "inserted"} /\ Top(scan).n = 0
      /\ scanner_status \in {"def", "normal"}
      /\ Routines(conds, calls) /\ calls \in Seq(CallSet)
      /\ Len(calls) >= 1 /\ Last(calls) = calls[Len(calls)]
      /\ Last(calls).kind \in {"def", "next"}
      /\ scanner_status = "def" <=> Last(calls).kind = "def"
  BY OnlyRescue
<1>2. /\ LoseEnd = FALSE /\ loops \in Seq(LoopSet) /\ LastDiffers(loops) /\ StatusOK
      /\ Under("def") \/ Under("next")
  BY DEF BrokenInto
<1>3. \A k : Under(k) => k \in {"def", "next"}
  BY <1>1 DEF Under
<1>4. Under("def") <=> scanner_status = "def"
  BY <1>1, <1>2 DEF Under
<1>5. ASSUME StackOK(scan'), Orphan(scan'.input, loops), UNCHANGED <<loops, conds, calls, status>>
      PROVE  IInv'
  BY <1>1, <1>2, <1>5 DEF IInv, BrokenInto, StatusOK, Under
<1>6. CASE Ordinary
  <2>1. scan' \in Reads("def") /\ scanner_status = "def"
    BY <1>1, <1>6 DEF Ordinary
  <2>2. calls' = calls
    BY <1>1, <1>6, <2>1 DEF Ordinary, TokenFound, Under
  <2>3. StackOK(scan') /\ Orphan(scan'.input, loops)
    BY <2>1, RescueRead
  <2> QED BY <1>5, <1>6, <2>2, <2>3 DEF Ordinary
<1>7. CASE EndLevel
  BY <1>5, <1>7, RescueGone DEF EndLevel
<1>8. CASE OuterEnd
  BY <1>5, <1>8, OrphanBack DEF OuterEnd
<1>9. CASE EndDef
  <2> DEFINE f == [kind |-> "next"]
  <2>1. /\ Last(calls).kind = "def" /\ scan' \in Reads("def")
        /\ calls' = Append(Front(calls), f) /\ UNCHANGED <<loops, conds, status>>
    BY <1>1, <1>9 DEF EndDef, Under
  <2>2. f \in CallSet /\ f.kind = "next"
    BY DEF CallSet
  <2> HIDE DEF f
  <2>3. Routines(conds, Append(Front(calls), f))
    BY <1>1, <2>1, <2>2, CallsTop
  <2>4. StackOK(scan') /\ Orphan(scan'.input, loops)
    BY <1>1, <2>1, RescueRead
  <2>5. Under("next")'
    <3>1. /\ Len(calls') = Len(calls) /\ calls'[Len(calls)] = f
      BY <1>1, <2>1, <2>2, TopSeq
    <3> QED BY <1>1, <2>2, <3>1 DEF Under, Last
  <2> QED BY <1>2, <2>1, <2>3, <2>4, <2>5 DEF IInv, BrokenInto, StatusOK
<1>10. CASE RepeatLoop
  BY <1>10, OrphanRepeat DEF IInv
<1>11. CASE UNCHANGED vars
  <2>1. StackOK(scan') /\ Orphan(scan'.input, loops)
    BY <1>11 DEF BrokenInto, vars
  <2> QED BY <1>5, <1>11, <2>1 DEF vars
<1>12. ~(NoMore \/ EndFile \/ Parameter)
  BY <1>1 DEF NoMore, EndFile, Parameter
<1>13. ~Parsing
  BY <1>1, <1>2, <1>4 DEF Parsing
<1>14. ~(Flush \/ ShowToken \/ scan_def \/ get_symbol \/ EndParams)
  BY <1>3, <1>13 DEF Flush, ShowToken, scan_def, get_symbol, EndParams
<1>15. ~BackInput
  <2> SUFFICES ASSUME BackInput PROVE FALSE
    OBVIOUS
  <2>1. scanner_status = "normal"
    BY <1>3 DEF BackInput
  <2> QED BY <1>1, <2>1 DEF BackInput
<1>16. ~(If \/ begin_iteration \/ ExitTest \/ macro_call \/ start_input \/ EndInput \/ ScanTokens)
  BY <1>1 DEF If, begin_iteration, ExitTest, macro_call, start_input, EndInput, ScanTokens
<1>17. ~(ConditionTrue \/ ConditionFalse \/ BeginBody \/ StayInLoop \/ ExitLoop)
  <2>1. ~Under("cond") /\ ~Under("values") /\ ~Under("exit")
    BY <1>3
  <2>2. ~ExitLoop
    BY <2>1 DEF ExitLoop
  <2>3. ~ConditionTrue
    BY <2>1 DEF ConditionTrue
  <2> QED BY <2>1, <2>2, <2>3 DEF ConditionFalse, BeginBody, StayInLoop
<1>18. ~(Argument \/ TextArgument \/ Feed)
  BY <1>3 DEF Argument, TextArgument, Feed
<1>19. ~(EndBody \/ EndText) /\ \A m : ~SkipTo(m) /\ ~FiOrElse(m)
  BY <1>1 DEF EndBody, EndText, SkipTo, FiOrElse
<1> QED
  BY <1>6, <1>7, <1>8, <1>9, <1>10, <1>11, <1>12, <1>14, <1>15, <1>16, <1>17, <1>18, <1>19
     DEF Next

\* What each step keeps.
LEMMA ScannerStep ==
  ASSUME IInv, [Next]_vars
  PROVE  IInv'
BY SoundStep, BrokenStep DEF IInv

\* In every state the stack is in order, its turns of loops are those of the
\* loops in progress, and the open conditions those that a routine waits for
\* (mf.web 13640-13823, 14593-14800, 15067-15509).
THEOREM ScannerInvariance == Spec => []IInv
<1>1. Init => IInv
  BY GoodInit DEF IInv
<1>2. IInv /\ [Next]_vars => IInv'
  BY ScannerStep
<1> QED BY <1>1, <1>2, PTL DEF Spec

\* However levels, files, macros, conditions and loops begin and end, files are
\* numbered without gaps, no level loses parameters of its own, if_limit is
\* if_code for just the conditions under evaluation, and change_if_limit finds
\* the one it is for (mf.web 13700-13823, 15067-15260).
THEOREM ScannerLevels == Spec => []LevelsSound
<1>1. ASSUME IInv PROVE LevelsSound
  <2>1. /\ StackOK(scan) /\ scan.input \in Seq(Levels) /\ Len(scan.input) \in Nat
        /\ IfLimitsKept /\ status # "confusion(if)"
    <3>1. StackOK(scan) /\ status # "confusion(if)" /\ Routines(conds, calls)
      BY <1>1 DEF IInv, Sound, BrokenInto, Good, StatusOK
    <3>2. scan.input \in Seq(Levels) /\ Len(scan.input) \in Nat
      BY <3>1 DEF StackOK, Scans
    <3> QED BY <3>1, <3>2, LimitsAre
  <2>2. \A k : FilesTo(scan.input, k) = {j \in 2..k : file_state(scan.input[j])}
    BY DEF FilesTo
  <2>3. FilesNumbered(scan.input, scan.in_open) /\ ParamsEnd(scan.input, scan.param_ptr)
    BY <2>1 DEF StackOK
  <2>4. \A k \in 1..Len(scan.input) :
           scan.input[k].param_start + scan.input[k].n =
              IF k = Len(scan.input) THEN scan.param_ptr ELSE scan.input[k + 1].param_start
    BY <2>1, <2>3 DEF ParamsEnd
  <2> QED BY <2>1, <2>2, <2>3, <2>4 DEF LevelsSound, FilesNumbered
<1> QED BY <1>1, ScannerInvariance, PTL

\* As long as the program gives the end of a loop to none of get_symbol,
\* showtoken and showvariable, the turns on the input stack are those of the
\* loops in progress, in their order, so that ENDFOR resumes its own loop and
\* exitif leaves the innermost one; even when ENDFOR comes where a definition
\* wants its = sign, which takes the turn away until the definition has ended
\* (mf.web 14405-14521, 15391-15509).
THEOREM ScannerLoopTexts == LoseEnd = FALSE => (Spec => []LoopTexts)
<1>1. ASSUME Sound, LoseEnd = FALSE PROVE LoopTexts
  <2>1. /\ Match(scan.input, loops) /\ DOMAIN scan.input = 1..Len(scan.input)
        /\ DOMAIN loops = 1..Len(loops) /\ status \notin {"loop confusion", "underflow"}
    <3>1. /\ StackOK(scan) /\ Match(scan.input, loops) /\ loops \in Seq(LoopSet)
          /\ status \notin {"loop confusion", "underflow"}
      BY <1>1 DEF Sound, Good, StatusOK
    <3>2. scan.input \in Seq(Levels)
      BY <3>1 DEF StackOK, Scans
    <3>3. DOMAIN scan.input = 1..Len(scan.input) /\ DOMAIN loops = 1..Len(loops)
      BY <3>1, <3>2, TopIs
    <3> QED BY <3>1, <3>3
  <2>2. Turns(scan.input) = TurnsOn
    BY <2>1 DEF Turns, TurnsOn
  <2>3. TextsOn = TextsOf(loops)
    BY <2>1, <2>2 DEF Match, TextsOn, TextsOf
  <2>4. TextsAlive
    <3>1. TextsOn \subseteq TextsOf(loops)
      BY <2>3
    <3>2. ASSUME NEW k \in TurnsOn, NEW m \in TurnsOn,
                 NEW i \in DOMAIN loops, NEW j \in DOMAIN loops,
                 scan.input[k].text = loops[i].text, scan.input[m].text = loops[j].text
          PROVE  k < m <=> i < j
      BY <2>1, <2>2, <3>2 DEF Match
    <3> QED BY <3>1, <3>2 DEF TextsAlive
  <2> QED BY <2>1, <2>3, <2>4 DEF LoopTexts
<1>2. ASSUME BrokenInto PROVE LoopTexts
  <2> DEFINE q == scan.input  n == Len(loops)
  <2>a. /\ Orphan(q, loops) /\ LastDiffers(loops)
        /\ status \notin {"loop confusion", "underflow"} /\ (Under("def") \/ Under("next"))
    BY <1>2 DEF BrokenInto, StackOK, Scans, StatusOK
  <2>0. q \in Seq(Levels) /\ loops \in Seq(LoopSet)
    BY <1>2 DEF BrokenInto, StackOK, Scans
  <2>b. n \in Nat /\ n >= 1 /\ Len(q) \in Nat
    <3>1. n >= 1
      BY <2>a DEF LastDiffers
    <3> QED BY <2>0, <3>1
  <2>1. DOMAIN q = 1..Len(q) /\ DOMAIN loops = 1..n /\ loops # <<>>
    BY <2>0, <2>b, TopIs
  <2>2. PICK m \in 1..Len(q), e \in 1..Len(q) :
           /\ m < e /\ e >= Len(q) - 1
           /\ Match(SubSeq(q, 1, m), Front(loops))
           /\ q[e].type = "backed_up" /\ q[e].holds = "endfor" /\ q[e].more
           /\ \A j \in (m + 1)..(e - 1) : q[j].type = "backed_up"
           /\ e < Len(q) => q[Len(q)].type = "inserted"
    BY <2>0, <2>a, <2>b, <2>1 DEF Orphan
  <2> DEFINE p == SubSeq(q, 1, m)  f == Front(loops)
  <2>3. Len(p) = m /\ \A j \in 1..m : p[j] = q[j]
    <3>1. m \in 0..Len(q)
      OBVIOUS
    <3> HIDE DEF q
    <3> QED BY <2>0, <2>a, <2>b, <2>1, <3>1, PrefixSeq
  <2>4. /\ Len(f) = n - 1 /\ DOMAIN f = 1..(n - 1) /\ \A i \in 1..(n - 1) : f[i] = loops[i]
    <3>1. f \in Seq(LoopSet) /\ Len(f) = n - 1 /\ \A i \in 1..(n - 1) : f[i] = loops[i]
      BY <2>0, <2>a, <2>b, <2>1, FrontSeq
    <3> HIDE DEF f, n
    <3> QED BY <3>1
  <2>5. Match(p, f)
    BY <2>2
  <2> HIDE DEF p, f, q, n
  <2>6. TurnsOn = Turns(p) /\ \A k \in TurnsOn : q[k] = p[k]
    <3>1. ASSUME NEW j \in 1..Len(q), j > m PROVE q[j].type # "loop"
      <4>1. CASE j < e
        <5>1. j \in (m + 1)..(e - 1)
          BY <2>b, <3>1, <4>1
        <5> QED BY <2>2, <5>1
      <4>2. CASE j = e
        BY <2>2, <4>2
      <4>3. CASE j > e
        <5>1. j = Len(q) /\ e < Len(q)
          <6>1. e >= Len(q) - 1
            BY <2>2
          <6> QED BY <2>b, <4>3, <6>1
        <5> QED BY <2>2, <5>1
      <4> QED BY <4>1, <4>2, <4>3
    <3>2. TurnsOn = {k \in 1..Len(q) : q[k].type = "loop"}
      BY <2>0, <2>a, <2>b, <2>1 DEF TurnsOn, q
    <3>3. \A j \in 1..m : j \in 1..Len(q)
      BY <2>b
    <3>4. \A j \in 1..Len(q) : q[j].type = "loop" => j \in 1..m
      BY <2>b, <3>1
    <3> QED BY <2>3, <3>2, <3>3, <3>4 DEF Turns
  <2>7. TextsOn = {p[k].text : k \in Turns(p)}
    BY <2>6 DEF TextsOn, q
  <2>8. TextsOf(f) = {f[i].text : i \in 1..Len(f)}
    BY <2>4 DEF TextsOf
  <2>9. TextsOn = TextsOf(f)
    BY <2>5, <2>7, <2>8 DEF Match
  <2>10. \A i \in 1..(n - 1) : loops[i].text # loops[n].text
    BY <2>0, <2>a, <2>b, <2>1 DEF LastDiffers, n
  <2>11. \A k \in TurnsOn, i \in DOMAIN loops : q[k].text = loops[i].text => i \in 1..(n - 1)
    <3> TAKE k \in TurnsOn, i \in DOMAIN loops
    <3> HAVE q[k].text = loops[i].text
    <3>1. PICK h \in 1..(n - 1) : q[k].text = f[h].text
      <4>1. q[k].text \in {f[x].text : x \in 1..(n - 1)}
        BY <2>4, <2>6, <2>7, <2>8, <2>9
      <4> QED BY <4>1
    <3>2. loops[i].text = loops[h].text
      BY <2>4, <3>1
    <3>3. i # n
      BY <2>0, <2>a, <2>b, <2>10, <3>2
    <3>4. i \in 1..n
      BY <2>1
    <3> QED BY <2>b, <3>3, <3>4
  <2>12. TextsAlive
    <3>1. TextsOf(f) \subseteq TextsOf(loops)
      <4>1. TextsOf(f) = {loops[i].text : i \in 1..(n - 1)}
        BY <2>4, <2>8
      <4>2. TextsOf(loops) = {loops[i].text : i \in 1..n}
        BY <2>0, <2>a, <2>b, <2>1 DEF TextsOf
      <4>3. \A i \in 1..(n - 1) : i \in 1..n
        BY <2>b
      <4> QED BY <4>1, <4>2, <4>3
    <3>2. ASSUME NEW k \in TurnsOn, NEW h \in TurnsOn, NEW i \in DOMAIN loops,
                 NEW j \in DOMAIN loops, q[k].text = loops[i].text, q[h].text = loops[j].text
          PROVE  k < h <=> i < j
      <4>1. i \in 1..Len(f) /\ j \in 1..Len(f) /\ f[i] = loops[i] /\ f[j] = loops[j]
        BY <2>4, <2>11, <3>2
      <4>2. k \in Turns(p) /\ h \in Turns(p) /\ p[k].text = f[i].text /\ p[h].text = f[j].text
        BY <2>6, <3>2, <4>1
      <4> QED BY <2>5, <4>1, <4>2 DEF Match
    <3> QED BY <2>9, <3>1, <3>2 DEF TextsAlive, q
  <2>13. \E l \in ToSet(scan.input) : l.holds = "endfor" /\ l.more
    BY <2>0, <2>a, <2>b, <2>1, <2>2 DEF ToSet, q
  <2> QED BY <2>0, <2>a, <2>b, <2>1, <2>9, <2>12, <2>13 DEF LoopTexts, f
<1>3. SUFFICES ASSUME LoseEnd = FALSE PROVE Spec => []LoopTexts
  OBVIOUS
<1>4. IInv => LoopTexts
  BY <1>1, <1>2, <1>3 DEF IInv
<1> QED BY <1>4, ScannerInvariance, PTL

=============================================================================
