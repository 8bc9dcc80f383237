---------------------------- MODULE MemoryProofs ----------------------------
(***************************************************************************)
(* Proofs about the dynamic memory, for every size of mem and every set of *)
(* node sizes: the lower part stays tiled by the ring's empty nodes and    *)
(* the held ones, held nodes are never written, and mem implements the     *)
(* abstract Storage.                                                       *)
(***************************************************************************)
EXTENDS Memory, TLAPS

IInv == TypeOK /\ Ordered /\ Tiled /\ RingOK /\ FlagsOK /\ AvailOK

USE DEF mem_min, null, sentinel, hi_mem_stat_min

\* Where nodes may lie: no node begins in the second word of another, and
\* the two words a ring node uses lie below lo_mem_max.
LEMMA NodePlace ==
  ASSUME IInv
  PROVE  /\ \A x \in Node : /\ x \in Nat /\ x \in Word /\ x + 1 \in Word
                            /\ lo_mem_stat_max < x /\ x + 1 < lo_mem_max
                            /\ SizeOf(x) \in Int /\ End(x) \in Int
         /\ \A x, y \in Node : x # y + 1
         /\ lo_mem_max \in Nat /\ lo_mem_max \notin Node
         /\ \A x \in Node : SizeOf(x) = End(x) - x
<1> USE MemoryAssumption
<1>1. ASSUME NEW x \in Node PROVE x \in Nat /\ x \in Word /\ SizeOf(x) \in Int
  <2>1. x \in Nat /\ x \in Word
    BY <1>1 DEF IInv, TypeOK, Node, Word
  <2>2. CASE x \in ring
    BY <2>1, <2>2, SMT DEF IInv, TypeOK, SizeOf, Word, HalfWord, node_size
  <2>3. CASE x \notin ring
    <3>1. nodes[x] \in Sizes
      BY <1>1, <2>3 DEF IInv, TypeOK, Node
    <3>2. nodes[x] \in Nat
      BY <3>1
    <3> QED BY <2>1, <2>3, <3>2 DEF SizeOf
  <2> QED BY <2>1, <2>2, <2>3
<1>2. lo_mem_max \in Nat /\ lo_mem_max <= mem_max
  BY DEF IInv, TypeOK, Word
<1>3. ASSUME NEW x \in Node
      PROVE /\ End(x) \in Int /\ End(x) <= lo_mem_max /\ x + 1 < End(x)
            /\ lo_mem_stat_max < x
  BY <1>1, SMT DEF IInv, Tiled, End
<1>4. \A x, y \in Node : x # y + 1
  <2> SUFFICES ASSUME NEW x \in Node, NEW y \in Node, x = y + 1 PROVE FALSE
    OBVIOUS
  <2>1. End(y) <= x
    BY <1>1, SMT DEF IInv, Tiled
  <2> QED BY <1>1, <1>3, <2>1, SMT
<1>5. lo_mem_max \notin Node
  BY <1>1, <1>2, <1>3, SMT
<1>6. \A x \in Node : SizeOf(x) = End(x) - x
  BY <1>1, SMT DEF End
<1>7. \A x \in Node : x + 1 < lo_mem_max /\ x + 1 \in Word
  BY <1>1, <1>2, <1>3, SMT DEF Word
<1> QED BY <1>1, <1>2, <1>3, <1>4, <1>5, <1>6, <1>7

\* Tiled, in the form the steps below use it.
LEMMA NodeOrder ==
  ASSUME IInv
  PROVE  /\ \A x, y \in Node : x < y => End(x) <= y
         /\ \A x \in Node : /\ x + 2 <= End(x) /\ End(x) <= lo_mem_max
                            /\ End(x) \in Node \cup {lo_mem_max}
<1>1. \A x \in Node : x + 2 <= End(x)
  <2> SUFFICES ASSUME NEW x \in Node PROVE x + 2 <= End(x)
    OBVIOUS
  <2>1. SizeOf(x) >= 2
    BY DEF IInv, Tiled
  <2> QED BY <2>1, NodePlace, SMT
<1> QED BY <1>1 DEF IInv, Tiled

\* A part of the ring that rlink does not leave is all of it.
LEMMA RingClosed ==
  ASSUME IInv, NEW S, S \subseteq ring, S # {}, \A x \in S : rlink(x) \in S
  PROVE  S = ring
BY Zenon DEF IInv, RingOK

\* The avail list is untouched by what happens in the lower part.
LEMMA AvailFrame ==
  ASSUME IInv, pc # "overflow",
         UNCHANGED <<words, hi_mem_min, mem_end, avail>>,
         \A x \in Word : lo_mem_max < x /\ hi_mem_min <= x => link'[x] = link[x]
  PROVE  AvailOK'
<1>1. FreeWords' = FreeWords
  BY DEF FreeWords
<1>2. \A x \in FreeWords : x \in Word /\ hi_mem_min <= x /\ lo_mem_max < x
  BY MemoryAssumption, SMT DEF IInv, TypeOK, Ordered, FreeWords, Word
<1>3. \A x \in FreeWords : link'[x] = link[x]
  BY <1>2
<1>4. AvailOK
  BY DEF IInv
<1> QED BY <1>1, <1>3, <1>4 DEF AvailOK

\* The memory INIMF starts with satisfies the inductive invariant: one empty
\* node in the lower part and the static words above.
THEOREM InitHolds == Init => IInv
<1> USE MemoryAssumption
<1> SUFFICES ASSUME Init PROVE IInv
  OBVIOUS
<1> DEFINE r0 == lo_mem_stat_max + 1
<1>1. /\ r0 \in Word /\ r0 + 1 \in Word /\ lo_mem_max \in Word /\ ring = {r0}
      /\ lo_mem_max = r0 + GrowBy /\ rover = r0 /\ pc = "idle"
      /\ DOMAIN nodes = {} /\ s = 0 /\ p = 0 /\ q = 0
  BY SMT DEF Init, Word
<1>2. /\ link \in [Word -> HalfWord] /\ info \in [Word -> HalfWord]
      /\ link[r0] = empty_flag /\ info[r0] = GrowBy /\ link[r0 + 1] = r0
      /\ info[r0 + 1] = r0 /\ link[lo_mem_max] = 0
  BY <1>1, SMTT(30) DEF Init, Word, HalfWord
<1>3. TypeOK
  <2>1. {lo_mem_max, hi_mem_min, mem_end, avail, rover} \subseteq Word
    BY <1>1, SMT DEF Init, Word
  <2>2. dyn_used \in Int /\ var_used \in Int /\ words \subseteq Word
    BY SMT DEF Init, Word, StaticHigh
  <2>3. p \in Word /\ q \in Word /\ ring \subseteq Word /\ DOMAIN nodes \subseteq Word
    BY <1>1, SMT DEF Word
  <2> QED BY <1>1, <1>2, <2>1, <2>2, <2>3 DEF TypeOK
<1>4. Ordered
  BY <1>1, SMT DEF Init, Ordered
<1>5. SizeOf(r0) = GrowBy /\ Node = {r0}
  BY <1>1, <1>2, SMT DEF SizeOf, node_size, Node
<1>6. Tiled
  BY <1>1, <1>5, SMT DEF Tiled, End
<1>7. RingOK
  <2>1. \A S \in SUBSET ring : S # {} => S = ring
    BY <1>1
  <2> QED BY <1>1, <1>2, <2>1, SMT DEF RingOK, llink, rlink
<1>8. FlagsOK
  BY <1>1, <1>2, SMT DEF FlagsOK, is_empty
<1>9. AvailOK
  <2>1. FreeWords = {}
    BY SMT DEF Init, FreeWords, StaticHigh
  <2>2. words \subseteq hi_mem_min..mem_end /\ StaticHigh \subseteq words /\ avail = null
    BY SMT DEF Init, StaticHigh
  <2> QED BY <2>1, <2>2 DEF AvailOK
<1> QED BY <1>3, <1>4, <1>6, <1>7, <1>8, <1>9 DEF IInv

-----------------------------------------------------------------------------
(* The two ways the ring changes.                                          *)

\* The ring pointers stored in the second word of an empty node are mutual.
LEMMA RingNeighbours ==
  ASSUME IInv, NEW x \in ring
  PROVE  /\ llink(x) \in ring /\ rlink(llink(x)) = x
         /\ rlink(x) \in ring /\ llink(rlink(x)) = x
BY DEF IInv, RingOK

\* Taking an empty node other than the last off the ring leaves a ring.
LEMMA RingRemove ==
  ASSUME IInv, NEW d \in ring, rlink(d) # d, ring' = ring \ {d},
         \A x \in ring' : /\ link'[x + 1] = IF x = llink(d) THEN rlink(d) ELSE rlink(x)
                          /\ info'[x + 1] = IF x = rlink(d) THEN llink(d) ELSE llink(x),
         rover' \in ring', pc' = "try" => p' \in ring'
  PROVE  RingOK'
<1> DEFINE t == rlink(d)  tt == llink(d)
<1>1. t \in ring' /\ tt \in ring' /\ rlink(tt) = d
  BY RingNeighbours
<1>2. ASSUME NEW x \in ring'
      PROVE /\ info'[x + 1] \in ring' /\ link'[info'[x + 1] + 1] = x
            /\ link'[x + 1] \in ring' /\ info'[link'[x + 1] + 1] = x
  <2>1. \A y \in ring : /\ llink(y) \in ring /\ rlink(llink(y)) = y
                        /\ rlink(y) \in ring /\ llink(rlink(y)) = y
    BY RingNeighbours
  <2>2. link'[x + 1] \in ring' /\ info'[x + 1] \in ring'
    BY <1>1, <1>2, <2>1
  <2> QED BY <1>1, <1>2, <2>1, <2>2
<1>3. ASSUME NEW S \in SUBSET ring', S # {}, \A x \in S : link'[x + 1] \in S
      PROVE  S = ring'
  <2>1. S \subseteq ring /\ d \notin S
    BY <1>3
  <2>2. \A x \in S : link'[x + 1] = IF x = tt THEN t ELSE rlink(x)
    BY <1>3
  <2>3. CASE tt \in S
    <3>1. \A x \in S \ {tt} : rlink(x) \in S
      BY <1>3, <2>2
    <3>2. t \in S
      BY <1>3, <2>2, <2>3
    <3>3. \A x \in S \cup {d} : rlink(x) \in S \cup {d}
      BY <1>1, <3>1, <3>2
    <3>4. S \cup {d} \subseteq ring /\ S \cup {d} # {}
      BY <2>1
    <3>5. S \cup {d} = ring
      BY <3>3, <3>4, RingClosed
    <3> QED BY <2>1, <3>5
  <2>4. CASE tt \notin S
    <3>1. \A x \in S : rlink(x) \in S
      BY <1>3, <2>2, <2>4
    <3>2. S = ring
      BY <1>3, <2>1, <3>1, RingClosed
    <3> QED BY <2>1, <3>2
  <2> QED BY <2>3, <2>4
<1> QED BY <1>2, <1>3 DEF RingOK, llink, rlink

\* The new node n goes between rover's left neighbour and rover.
LEMMA RingInsert ==
  ASSUME IInv, NEW n, n \notin ring, ring' = ring \cup {n},
         \A x \in ring' :
            /\ link'[x + 1] = IF x = n THEN rover
                              ELSE IF x = llink(rover) THEN n ELSE rlink(x)
            /\ info'[x + 1] = IF x = n THEN llink(rover)
                              ELSE IF x = rover THEN n ELSE llink(x),
         rover' \in ring', pc' = "try" => p' \in ring'
  PROVE  RingOK'
<1> DEFINE left == llink(rover)
<1>1. rover \in ring /\ left \in ring /\ rlink(left) = rover
  <2>1. rover \in ring
    BY DEF IInv, RingOK
  <2> QED BY <2>1, RingNeighbours
<1>2. ASSUME NEW x \in ring'
      PROVE /\ info'[x + 1] \in ring' /\ link'[info'[x + 1] + 1] = x
            /\ link'[x + 1] \in ring' /\ info'[link'[x + 1] + 1] = x
  <2>1. \A y \in ring : /\ llink(y) \in ring /\ rlink(llink(y)) = y
                        /\ rlink(y) \in ring /\ llink(rlink(y)) = y
    BY RingNeighbours
  <2>2. link'[x + 1] \in ring' /\ info'[x + 1] \in ring'
    BY <1>1, <1>2, <2>1
  <2> QED BY <1>1, <1>2, <2>1, <2>2
<1>3. ASSUME NEW S \in SUBSET ring', S # {}, \A x \in S : link'[x + 1] \in S
      PROVE  S = ring'
  <2>1. \A x \in S : link'[x + 1] = IF x = n THEN rover
                                    ELSE IF x = left THEN n ELSE rlink(x)
    BY <1>3
  <2>2. CASE n \in S
    <3>1. rover \in S /\ rover # n
      BY <1>1, <1>3, <2>1, <2>2
    <3>2. S \ {n} \subseteq ring /\ S \ {n} # {}
      BY <1>3, <3>1
    <3>3. \A x \in S \ {n} : rlink(x) \in S \ {n}
      <4> SUFFICES ASSUME NEW x \in S \ {n} PROVE rlink(x) \in S \ {n}
        OBVIOUS
      <4>1. x \in ring /\ rlink(x) \in ring
        BY <3>2, RingNeighbours
      <4>2. CASE x = left
        BY <1>1, <3>1, <4>2
      <4>3. CASE x # left
        BY <1>3, <2>1, <4>1, <4>3
      <4> QED BY <4>2, <4>3
    <3>4. S \ {n} = ring
      BY <3>2, <3>3, RingClosed
    <3> QED BY <2>2, <3>4
  <2>3. CASE n \notin S
    <3>1. left \notin S
      BY <2>1, <2>3, <1>1, <1>3
    <3>2. S \subseteq ring /\ \A x \in S : rlink(x) \in S
      BY <1>3, <2>1, <2>3, <3>1
    <3>3. S = ring
      BY <1>3, <3>2, RingClosed
    <3> QED BY <1>1, <3>1, <3>3
  <2> QED BY <2>2, <2>3
<1> QED BY <1>2, <1>3 DEF RingOK, llink, rlink

-----------------------------------------------------------------------------
(* MergeSuccessor.                                                         *)

\* What get_node knows when the node after p turns out to be empty: q is in
\* the ring, is not p, and its links are in the second words of ring nodes.
LEMMA MergeFacts ==
  ASSUME IInv, MergeSuccessor
  PROVE  /\ pc = "try" /\ pc' = "try" /\ p' = p /\ p \in ring /\ q \in ring
         /\ End(p) = q /\ p < q /\ p # q /\ SizeOf(q) = info[q]
         /\ rlink(q) \in ring \ {q} /\ llink(q) \in ring \ {q}
         /\ info' = [info EXCEPT ![rlink(q) + 1] = llink(q)]
         /\ link' = [link EXCEPT ![llink(q) + 1] = rlink(q)]
         /\ info'[q] = info[q] /\ q' = End(q)
<1> USE MemoryAssumption
<1>1. pc = "try" /\ pc' = "try" /\ p' = p /\ p \in ring /\ is_empty(q)
  BY DEF IInv, RingOK, MergeSuccessor
<1>2. End(p) = q
  BY <1>1, SMT DEF End, SizeOf, IInv, TypeOK, Word
<1>3. q \in ring
  BY <1>1, <1>2, SMT DEF IInv, Tiled, FlagsOK, Node
<1>4. p < q /\ p # q /\ p \in Node /\ q \in Node
  BY <1>1, <1>2, <1>3, NodePlace, SMT DEF IInv, Tiled, Node
<1>5. SizeOf(q) = info[q] /\ End(q) = q + info[q]
  BY <1>3, <1>4, SMT DEF SizeOf, node_size, End
<1>6. rlink(q) \in ring /\ llink(q) \in ring
  BY <1>3 DEF IInv, RingOK
<1>7. rlink(q) # q
  <2> SUFFICES ASSUME rlink(q) = q PROVE FALSE
    OBVIOUS
  <2>1. \A x \in {q} : rlink(x) \in {q}
    OBVIOUS
  <2>2. {q} = ring
    BY <1>3, <2>1, RingClosed
  <2> QED BY <1>1, <1>4, <2>2
<1>8. llink(q) # q
  BY <1>3, <1>7 DEF IInv, RingOK
<1>9. /\ info' = [info EXCEPT ![rlink(q) + 1] = llink(q)]
      /\ link' = [link EXCEPT ![llink(q) + 1] = rlink(q)]
      /\ q' = q + info'[q]
  BY DEF MergeSuccessor
<1>10. info'[q] = info[q]
  BY <1>4, <1>6, <1>9, NodePlace, SMT DEF Node, IInv, TypeOK
<1> QED BY <1>1, <1>2, <1>3, <1>4, <1>5, <1>6, <1>7, <1>8, <1>9, <1>10

\* The ring pointers after the successor was unlinked.
LEMMA MergeLinks ==
  ASSUME IInv, MergeSuccessor
  PROVE  /\ ring' = ring \ {q} /\ Node' = Node \ {q} /\ nodes' = nodes
         /\ \A x \in Node : link'[x] = link[x] /\ info'[x] = info[x]
         /\ link'[lo_mem_max] = link[lo_mem_max]
         /\ \A x \in ring' : link'[x + 1] = IF x = llink(q) THEN rlink(q) ELSE rlink(x)
         /\ \A x \in ring' : info'[x + 1] = IF x = rlink(q) THEN llink(q) ELSE llink(x)
<1> USE MemoryAssumption
<1>1. ring' = ring \ {q} /\ nodes' = nodes
  BY DEF MergeSuccessor
<1>2. Node' = Node \ {q}
  BY <1>1, MergeFacts DEF Node, IInv, Tiled
<1>3. ring \subseteq Node /\ q \in Node
  BY MergeFacts DEF Node
<1>4. \A x \in Node : link'[x] = link[x] /\ info'[x] = info[x]
  BY <1>3, MergeFacts, NodePlace, SMT DEF IInv, TypeOK
<1>5. link'[lo_mem_max] = link[lo_mem_max]
  BY <1>3, MergeFacts, NodePlace, SMT DEF IInv, TypeOK
<1>6. \A x \in ring' : link'[x + 1] = IF x = llink(q) THEN rlink(q) ELSE rlink(x)
  BY <1>1, <1>3, MergeFacts, NodePlace, SMT DEF rlink, IInv, TypeOK
<1>7. \A x \in ring' : info'[x + 1] = IF x = rlink(q) THEN llink(q) ELSE llink(x)
  BY <1>1, <1>3, MergeFacts, NodePlace, SMT DEF llink, IInv, TypeOK
<1> QED BY <1>1, <1>2, <1>4, <1>5, <1>6, <1>7

\* The successor's words now count as p's; no other node changes size.
LEMMA MergeSizes ==
  ASSUME IInv, MergeSuccessor
  PROVE  \A x \in Node' : End(x)' = IF x = p THEN End(q) ELSE End(x)
<1> SUFFICES ASSUME NEW x \in Node' PROVE End(x)' = IF x = p THEN End(q) ELSE End(x)
  OBVIOUS
<1>1. x \in Node /\ x # q /\ (x \in ring' <=> x \in ring) /\ nodes' = nodes
  BY MergeLinks
<1>2. info'[x] = info[x] /\ pc = "try" /\ pc' = "try" /\ p' = p /\ q' = End(q)
  BY <1>1, MergeLinks, MergeFacts
<1>3. CASE x = p
  <2>1. SizeOf(x)' = End(q) - p
    BY <1>1, <1>2, <1>3, MergeFacts DEF SizeOf
  <2>2. End(q) \in Int /\ p \in Int
    BY MergeFacts, NodePlace, SMT DEF Node
  <2> QED BY <1>3, <2>1, <2>2, SMT DEF End
<1>4. CASE x # p
  <2>1. SizeOf(x)' = SizeOf(x)
    BY <1>1, <1>2, <1>4 DEF SizeOf, node_size
  <2> QED BY <1>4, <2>1 DEF End
<1> QED BY <1>3, <1>4

\* Merging p with the empty node after it preserves the invariant.
LEMMA MergeHolds == IInv /\ MergeSuccessor => IInv'
<1> USE MemoryAssumption
<1> SUFFICES ASSUME IInv, MergeSuccessor PROVE IInv'
  OBVIOUS
<1> DEFINE t == rlink(q)  tt == llink(q)
<1>0. /\ p \in Node /\ q \in Node /\ t \in Node /\ tt \in Node
      /\ UNCHANGED <<bounds, avail, dyn_used, var_used, pc, p, s, nodes, words>>
      /\ rover' = IF q = rover THEN t ELSE rover
  BY MergeFacts DEF Node, MergeSuccessor, RoverAfter
<1>1. TypeOK'
  <2>1. link' \in [Word -> HalfWord] /\ info' \in [Word -> HalfWord]
    <3>1. link \in [Word -> HalfWord] /\ info \in [Word -> HalfWord]
      BY DEF IInv, TypeOK
    <3>2. t \in HalfWord /\ tt \in HalfWord
      BY <1>0, NodePlace, SMT DEF Word, HalfWord
    <3> QED BY <3>1, <3>2, MergeFacts
  <2>2. q' \in Word
    <3>1. q' = End(q) /\ q < End(q) /\ End(q) <= lo_mem_max /\ q \in Nat /\ End(q) \in Int
      BY <1>0, MergeFacts, NodePlace, SMT DEF IInv, Tiled
    <3>2. lo_mem_max \in Word
      BY DEF IInv, TypeOK
    <3> QED BY <3>1, <3>2, SMT DEF Word
  <2>3. ring' \subseteq Word /\ rover' \in Word
    BY <1>0, MergeLinks, NodePlace DEF IInv, TypeOK
  <2> QED BY <1>0, <2>1, <2>2, <2>3 DEF IInv, TypeOK, bounds
<1>2. Ordered'
  BY <1>0 DEF IInv, Ordered, bounds
<1>3. Tiled'
  <2>1. ring' \cap DOMAIN nodes' = {}
    BY MergeLinks DEF IInv, Tiled
  <2>2. lo_mem_stat_max + 1 \in Node'
    BY <1>0, MergeLinks, MergeFacts, NodePlace, SMT DEF IInv, Tiled
  <2>3. ASSUME NEW x \in Node'
        PROVE /\ lo_mem_stat_max < x /\ SizeOf(x)' >= 2
              /\ End(x)' <= lo_mem_max'
              /\ End(x)' \in Node' \cup {lo_mem_max'}
    <3>1. x \in Node /\ x # q /\ Node' = Node \ {q} /\ lo_mem_max' = lo_mem_max
      BY <1>0, MergeLinks DEF bounds
    <3>2. SizeOf(x)' = End(x)' - x
      <4>1. SizeOf(x)' \in Int
        BY <1>0, <3>1, MergeLinks, MergeFacts, NodePlace, SMT DEF SizeOf, node_size
      <4> QED BY <3>1, <4>1, NodePlace, SMT DEF End
    <3>3. End(q) \in Int /\ End(q) > q + 1 /\ End(q) <= lo_mem_max
          /\ End(q) \in Node \cup {lo_mem_max} /\ q > p
      BY <1>0, MergeFacts, NodePlace, SMT DEF IInv, Tiled
    <3>4. CASE x = p
      <4>1. End(x)' = End(q)
        BY <3>4, MergeSizes
      <4> QED BY <1>0, <3>1, <3>2, <3>3, <3>4, <4>1, NodePlace, SMT DEF IInv, Tiled
    <3>5. CASE x # p
      <4>1. End(x)' = End(x)
        BY <3>5, MergeSizes
      <4>2. End(x) # q
        <5>1. CASE x < p
          BY <1>0, <3>1, <3>3, <5>1, NodePlace, SMT DEF IInv, Tiled
        <5>2. CASE p < x
          BY <1>0, <3>1, <3>3, <5>2, MergeFacts, NodePlace, SMT DEF IInv, Tiled
        <5> QED BY <1>0, <3>1, <3>5, <5>1, <5>2, NodePlace, SMT
      <4> QED BY <3>1, <3>2, <4>1, <4>2, NodePlace, SMT DEF IInv, Tiled
    <3> QED BY <3>4, <3>5
  <2>4. ASSUME NEW x \in Node', NEW y \in Node', x < y PROVE End(x)' <= y
    <3>1. x \in Node /\ y \in Node /\ x # q /\ y # q
      BY MergeLinks
    <3>2. CASE x = p
      <4>1. End(x)' = End(q) /\ q <= y
        BY <1>0, <2>4, <3>1, <3>2, MergeSizes, MergeFacts, SMT DEF IInv, Tiled
      <4> QED BY <1>0, <3>1, <4>1, NodePlace, SMT DEF IInv, Tiled
    <3>3. CASE x # p
      BY <2>4, <3>1, <3>3, MergeSizes DEF IInv, Tiled
    <3> QED BY <3>2, <3>3
  <2> QED BY <2>1, <2>2, <2>3, <2>4 DEF Tiled
<1>4. RingOK'
  <2>1. rover' \in ring' /\ (pc' = "try" => p' \in ring')
    BY <1>0, MergeLinks, MergeFacts DEF IInv, RingOK
  <2> QED BY <2>1, MergeLinks, MergeFacts, RingRemove
<1>5. FlagsOK'
  BY <1>0, MergeLinks DEF IInv, FlagsOK, is_empty, bounds, Node
<1>6. AvailOK'
  <2>1. pc # "overflow"
    BY MergeFacts
  <2> QED BY <1>0, <2>1, AvailFrame, MergeFacts, NodePlace, SMT DEF bounds, IInv, TypeOK
<1> QED BY <1>1, <1>2, <1>3, <1>4, <1>5, <1>6 DEF IInv

-----------------------------------------------------------------------------
(* Steps that leave the ring, or the nodes, as they were.                  *)

\* The ring depends on the second words of its nodes only.
LEMMA RingFrame ==
  ASSUME IInv, ring' = ring, rover' \in ring, pc' = "try" => p' \in ring,
         \A x \in ring : link'[x + 1] = link[x + 1] /\ info'[x + 1] = info[x + 1]
  PROVE  RingOK'
<1>1. \A y \in ring : /\ info[y + 1] \in ring /\ link[info[y + 1] + 1] = y
                      /\ link[y + 1] \in ring /\ info[link[y + 1] + 1] = y
  BY DEF IInv, RingOK, llink, rlink
<1>2. \A y \in ring : /\ info'[y + 1] \in ring /\ link'[info'[y + 1] + 1] = y
                      /\ link'[y + 1] \in ring /\ info'[link'[y + 1] + 1] = y
  BY <1>1
<1>3. ASSUME NEW S \in SUBSET ring, S # {}, \A x \in S : link'[x + 1] \in S
      PROVE  S = ring
  <2>1. \A x \in S : rlink(x) \in S
    BY <1>3 DEF rlink
  <2> QED BY <1>3, <2>1, RingClosed
<1> QED BY <1>2, <1>3 DEF RingOK, llink, rlink

\* The tiling depends on the nodes and their sizes only.
LEMMA TiledFrame ==
  ASSUME IInv, UNCHANGED <<ring, nodes, lo_mem_max>>,
         \A x \in Node : SizeOf(x)' = SizeOf(x)
  PROVE  Tiled'
<1>1. Node' = Node
  BY DEF Node
<1>2. \A x \in Node : End(x)' = End(x)
  BY DEF End
<1> QED BY <1>1, <1>2 DEF IInv, Tiled

-----------------------------------------------------------------------------
(* AllocateFromTop.                                                        *)

\* When a node is cut off the top of p, both parts lie inside p's words.
LEMMA TopFacts ==
  ASSUME IInv, AllocateFromTop
  PROVE  /\ p \in ring /\ p \in Node /\ End(p) = q /\ SizeOf(p) = q - p
         /\ s \in Sizes /\ s \in Nat /\ 2 <= s
         /\ q - s > p + 1 /\ q - s \in Word /\ q - s \notin Node
         /\ q \in Nat /\ q <= lo_mem_max
<1> USE MemoryAssumption
<1>1. p \in ring /\ p \in Node /\ pc = "try" /\ s # 0 /\ q - s > p + 1
  BY DEF IInv, RingOK, TypeOK, AllocateFromTop, CanSplit, Node
<1>2. p \in Nat /\ q \in Nat /\ q <= mem_max
  BY SMT DEF IInv, TypeOK, Word
<1>3. SizeOf(p) = q - p /\ End(p) = q
  BY <1>1, <1>2, SMT DEF SizeOf, End
<1>4. s \in Sizes
  BY <1>1, <1>2, SMT DEF IInv, TypeOK
<1>5. s \in Nat /\ 2 <= s
  BY <1>4
<1>6. q <= lo_mem_max
  BY <1>1, <1>3 DEF IInv, Tiled
<1>7. q - s \notin Node
  <2> SUFFICES ASSUME q - s \in Node PROVE FALSE
    OBVIOUS
  <2>1. p < q - s
    BY <1>1, <1>2, <1>5, SMT
  <2>2. q <= q - s
    BY <1>1, <1>3, <2>1 DEF IInv, Tiled
  <2> QED BY <1>2, <1>5, <2>2, SMT
<1>8. q - s \in Word
  BY <1>1, <1>2, <1>5, SMT DEF Word
<1> QED BY <1>1, <1>2, <1>3, <1>4, <1>5, <1>6, <1>7, <1>8

\* Cutting the new node off the top of p preserves the invariant.
LEMMA TopHolds == IInv /\ AllocateFromTop => IInv'
<1> USE MemoryAssumption
<1> SUFFICES ASSUME IInv, AllocateFromTop PROVE IInv'
  OBVIOUS
<1> DEFINE r == q - s
<1>0. /\ info' = [info EXCEPT ![p] = r - p] /\ link' = [link EXCEPT ![r] = null]
      /\ rover' = p /\ pc' = "idle" /\ p' = 0 /\ q' = 0 /\ s' = 0
      /\ nodes' = [x \in DOMAIN nodes \cup {r} |-> IF x = r THEN s ELSE nodes[x]]
      /\ var_used' = var_used + s
      /\ UNCHANGED <<lo_mem_max, hi_mem_min, mem_end, avail, dyn_used, words, ring>>
      /\ pc = "try"
  BY DEF AllocateFromTop, Found, Return, bounds
<1>00. /\ DOMAIN nodes' = DOMAIN nodes \cup {r} /\ nodes'[r] = s
       /\ \A x \in DOMAIN nodes : nodes'[x] = nodes[x]
  BY <1>0, TopFacts DEF Node
<1>000. Node' = Node \cup {r} /\ r \notin ring /\ r \in Nat
  BY <1>0, <1>00, TopFacts, SMT DEF Node, Word
<1>r. /\ r \in Nat /\ r \in Word /\ r \notin Node /\ r > p + 1 /\ r + s = q /\ r < q
      /\ p \in Nat /\ q \in Nat /\ s \in Nat /\ r + 2 <= q /\ q <= lo_mem_max
      /\ lo_mem_stat_max < p /\ lo_mem_max \in Nat /\ lo_mem_stat_max \in Nat
  BY <1>000, TopFacts, NodePlace, SMT
<1> HIDE DEF r
<1>1. TypeOK'
  <2>1. link' \in [Word -> HalfWord] /\ info' \in [Word -> HalfWord]
    <3>1. link \in [Word -> HalfWord] /\ info \in [Word -> HalfWord]
      BY DEF IInv, TypeOK
    <3>2. r - p \in HalfWord /\ 0 \in HalfWord
      BY <1>r, MemoryAssumption, SMT DEF Word, HalfWord
    <3> QED BY <1>0, <3>1, <3>2
  <2>2. DOMAIN nodes' \subseteq Word /\ \A x \in DOMAIN nodes' : nodes'[x] \in Sizes
    BY <1>00, <1>r, TopFacts DEF IInv, TypeOK
  <2>3. var_used' \in Int
    BY <1>0, TopFacts, SMT DEF IInv, TypeOK
  <2>4. p \in Word /\ 0 \in Word
    BY SMT DEF IInv, TypeOK, Word
  <2> QED BY <1>0, <2>1, <2>2, <2>3, <2>4 DEF IInv, TypeOK
<1>2. Ordered'
  BY <1>0 DEF IInv, Ordered
<1>3. /\ \A x : x = p => End(x)' = r /\ SizeOf(x)' = r - p
      /\ \A x : x = r => End(x)' = q /\ SizeOf(x)' = s
      /\ \A x \in Node : x # p => End(x)' = End(x) /\ SizeOf(x)' = SizeOf(x)
  <2>1. info'[p] = r - p /\ \A x \in Node : x # p => info'[x] = info[x]
    BY <1>0, TopFacts, NodePlace DEF IInv, TypeOK
  <2>2. \A x : x = p => SizeOf(x)' = r - p
    BY <1>0, <2>1, TopFacts DEF SizeOf, node_size
  <2>3. \A x : x = r => SizeOf(x)' = s
    BY <1>0, <1>00, <1>000 DEF SizeOf
  <2>4. \A x \in Node : x # p => SizeOf(x)' = SizeOf(x)
    BY <1>0, <1>00, <2>1 DEF SizeOf, node_size, Node
  <2>5. \A x : x = p => End(x)' = r
    BY <1>0, <1>000, <2>2, TopFacts, NodePlace, SMT DEF End
  <2>6. \A x : x = r => End(x)' = q
    BY <1>r, <2>3, SMT DEF End
  <2> QED BY <2>2, <2>3, <2>4, <2>5, <2>6 DEF End
<1>4. Tiled'
  <2>1. ring' \cap DOMAIN nodes' = {}
    BY <1>0, <1>00, <1>000 DEF IInv, Tiled
  <2>2. lo_mem_stat_max + 1 \in Node'
    BY <1>000 DEF IInv, Tiled
  <2>3. ASSUME NEW x \in Node'
        PROVE /\ lo_mem_stat_max < x /\ SizeOf(x)' >= 2
              /\ End(x)' <= lo_mem_max'
              /\ End(x)' \in Node' \cup {lo_mem_max'}
    <3>1. CASE x = p
      BY <1>0, <1>000, <1>3, <3>1, <1>r, SMT
    <3>2. CASE x = r
      <4>1. SizeOf(x)' = s /\ End(x)' = q
        BY <1>3, <3>2
      <4>2. q \in Node \cup {lo_mem_max}
        BY TopFacts, NodeOrder
      <4> QED BY <1>0, <1>000, <1>r, <3>2, <4>1, <4>2, TopFacts, SMT
    <3>3. CASE x \in Node /\ x # p
      BY <1>0, <1>000, <1>3, <3>3 DEF IInv, Tiled
    <3> QED BY <1>000, <3>1, <3>2, <3>3
  <2>4. ASSUME NEW x \in Node', NEW y \in Node', x < y PROVE End(x)' <= y
    <3>1. \A u, v \in Node : u < v => End(u) <= v
      BY DEF IInv, Tiled
    <3>2. CASE x = r
      <4>1. y \in Node /\ p < y
        BY <1>000, <1>r, <2>4, <3>2, NodePlace, SMT
      <4> QED BY <1>3, <3>1, <3>2, <4>1, TopFacts
    <3>3. CASE x = p
      <4>1. CASE y = r
        BY <1>000, <1>3, <3>3, <4>1, SMT
      <4>2. CASE y # r
        <5>1. y \in Node /\ q <= y
          BY <1>000, <2>4, <3>1, <3>3, <4>2, TopFacts
        <5> QED BY <1>3, <1>r, <3>3, <5>1, NodePlace, SMT
      <4> QED BY <4>1, <4>2
    <3>4. CASE x # r /\ x # p
      <4>1. CASE y = r
        <5>1. x \in Node /\ x < q /\ x \in Nat
          BY <1>000, <1>r, <2>4, <3>4, <4>1, NodePlace, SMT
        <5>2. ~(p < x)
          BY <3>1, <5>1, <1>r, TopFacts, SMT
        <5>3. End(x)' <= p
          BY <1>3, <3>1, <3>4, <5>1, <5>2, <1>r, TopFacts, SMT
        <5> QED BY <1>3, <3>4, <4>1, <5>1, <5>3, <1>r, NodePlace, SMT
      <4>2. CASE y # r
        BY <1>000, <1>3, <2>4, <3>1, <3>4, <4>2
      <4> QED BY <4>1, <4>2
    <3> QED BY <3>2, <3>3, <3>4
  <2> QED BY <2>1, <2>2, <2>3, <2>4 DEF Tiled
<1>5. \A x \in Node : link'[x] = link[x] /\ link'[lo_mem_max] = link[lo_mem_max]
  BY <1>0, <1>000, <1>r, NodePlace, SMT DEF IInv, TypeOK
<1>6. RingOK'
  <2>1. \A x \in ring : x + 1 # p /\ x + 1 # r
    <3> SUFFICES ASSUME NEW x \in ring PROVE x + 1 # p /\ x + 1 # r
      OBVIOUS
    <3>1. x \in Node /\ x \in Nat /\ x + 1 < End(x)
      BY NodePlace, SMT DEF Node, IInv, Tiled
    <3>2. CASE x = p
      BY <3>1, <3>2, <1>r, SMT
    <3>3. CASE x < p
      <4>1. End(x) <= p
        BY <3>1, <3>3, NodeOrder, TopFacts
      <4> QED BY <1>r, <3>1, <4>1, NodePlace, SMT
    <3>4. CASE p < x
      <4>1. q <= x
        BY <3>1, <3>4, NodeOrder, TopFacts
      <4> QED BY <1>r, <3>1, <4>1, SMT
    <3> QED BY <1>r, <3>1, <3>2, <3>3, <3>4, SMT
  <2>2. \A x \in ring : link'[x + 1] = link[x + 1] /\ info'[x + 1] = info[x + 1]
    BY <1>0, <2>1, NodePlace DEF IInv, TypeOK, Node
  <2> QED BY <1>0, <2>2, RingFrame, TopFacts
<1>7. FlagsOK'
  <2>1. link'[r] = 0 /\ empty_flag # 0
    BY <1>0, <1>r DEF IInv, TypeOK
  <2> QED BY <1>0, <1>00, <1>5, <2>1 DEF IInv, FlagsOK, is_empty, Node
<1>8. AvailOK'
  <2>1. \A x \in Word : lo_mem_max < x /\ hi_mem_min <= x => link'[x] = link[x]
    <3>1. \A x \in Word : lo_mem_max < x => x # r
      BY <1>r, SMT DEF Word
    <3> QED BY <1>0, <3>1 DEF IInv, TypeOK
  <2>2. pc # "overflow"
    BY <1>0
  <2> QED BY <1>0, <2>1, <2>2, AvailFrame
<1> QED BY <1>1, <1>2, <1>4, <1>6, <1>7, <1>8 DEF IInv

-----------------------------------------------------------------------------
(* Steps of get_node that do not move nodes.                               *)

\* The flags depend on the first words of the nodes only.
LEMMA FlagsFrame ==
  ASSUME IInv, UNCHANGED <<ring, nodes, lo_mem_max>>,
         \A x \in Node : link'[x] = link[x], link'[lo_mem_max] = link[lo_mem_max]
  PROVE  FlagsOK'
BY DEF IInv, FlagsOK, is_empty, Node

\* Entering get_node preserves the invariant.
LEMMA CallHolds == ASSUME IInv, NEW n \in Sizes \cup {MergeOnly}, get_node(n)
                   PROVE  IInv'
<1> USE MemoryAssumption
<1>1. /\ pc = "idle" /\ pc' = "try" /\ s' = n /\ p' = rover /\ q' = rover + info[rover]
      /\ UNCHANGED <<link, info, lo_mem_max, hi_mem_min, mem_end, avail, rover,
                     dyn_used, var_used, nodes, words, ring>>
      /\ rover \in ring /\ rover \in Node
  BY DEF get_node, heap, bounds, node_size, IInv, RingOK, Node
<1>2. SizeOf(rover) = info[rover] /\ End(rover) = q'
  BY <1>1 DEF SizeOf, node_size, End
<1>3. TypeOK'
  <2>1. q' \in Word
    BY <1>1, <1>2, NodePlace, NodeOrder, SMT DEF IInv, TypeOK, Word
  <2>2. n # 0
    BY SMT
  <2> QED BY <1>1, <2>1, <2>2 DEF IInv, TypeOK
<1>4. Ordered'
  BY <1>1 DEF IInv, Ordered
<1>5. Tiled'
  <2>1. q' - rover = info[rover]
    BY <1>1, <1>2, NodePlace
  <2>2. \A x \in Node : SizeOf(x)' = SizeOf(x)
    BY <1>1, <2>1 DEF SizeOf, node_size
  <2> QED BY <1>1, <2>2, TiledFrame
<1>6. RingOK'
  BY <1>1, RingFrame
<1>7. FlagsOK'
  BY <1>1, FlagsFrame
<1>8. AvailOK'
  BY <1>1, AvailFrame
<1> QED BY <1>3, <1>4, <1>5, <1>6, <1>7, <1>8 DEF IInv

\* Resetting p's size and going on to the next node of the ring preserves the
\* invariant, also when the tour of the ring ends.
LEMMA NextInRingHolds == ASSUME IInv, NextInRing PROVE IInv'
<1> USE MemoryAssumption
<1>1. /\ pc = "try" /\ info' = [info EXCEPT ![p] = q - p] /\ p' = rlink(p)
      /\ UNCHANGED <<link, lo_mem_max, hi_mem_min, mem_end, avail, rover,
                     dyn_used, var_used, s, nodes, words, ring>>
      /\ p \in ring /\ p \in Node /\ p' \in ring /\ p' \in Node
  BY DEF NextInRing, bounds, IInv, RingOK, Node
<1>2. \/ pc' = "full" /\ q' = q
      \/ pc' = "try" /\ q' = p' + info'[p']
  BY <1>1 DEF NextInRing
<1>3. End(p) = q /\ SizeOf(p) = q - p /\ p \in Nat /\ q \in Nat /\ q - p \in Nat
  <2>1. SizeOf(p) = q - p
    BY <1>1 DEF SizeOf
  <2>2. p \in Nat /\ q \in Nat /\ p + 2 <= End(p)
    <3>1. q \in Nat
      BY DEF IInv, TypeOK, Word
    <3> QED BY <1>1, <3>1, NodePlace, NodeOrder
  <2> QED BY <2>1, <2>2, SMT DEF End
<1>4. info'[p] = q - p /\ \A x \in Word : x # p => info'[x] = info[x]
  BY <1>1 DEF IInv, TypeOK
<1>5. \A x \in ring : info'[x] = SizeOf(x)
  BY <1>1, <1>3, <1>4, NodePlace DEF SizeOf, node_size, Node
<1>6. \A x \in Node : SizeOf(x)' = SizeOf(x)
  <2>1. CASE pc' = "full"
    BY <1>1, <1>5, <2>1 DEF SizeOf, node_size
  <2>2. CASE pc' = "try" /\ q' = p' + info'[p']
    <3>1. q' - p' = info'[p']
      BY <1>1, <1>5, <2>2, NodePlace, SMT
    <3> QED BY <1>1, <1>5, <2>2, <3>1 DEF SizeOf, node_size
  <2> QED BY <1>2, <2>1, <2>2
<1>7. TypeOK'
  <2>1. info' \in [Word -> HalfWord]
    <3>1. q - p \in HalfWord
      BY <1>3, SMT DEF IInv, TypeOK, Word, HalfWord
    <3> QED BY <1>1, <3>1 DEF IInv, TypeOK
  <2>2. p' \in Word /\ q' \in Word
    <3>1. p' \in Word
      BY <1>1, NodePlace
    <3>2. \A x \in ring : x + info'[x] = End(x)
      BY <1>5 DEF End
    <3>3. p' + info'[p'] \in Word
      <4>1. \A x \in Node : End(x) \in Word
        <5> SUFFICES ASSUME NEW x \in Node PROVE End(x) \in Word
          OBVIOUS
        <5>1. /\ x \in Nat /\ End(x) \in Int /\ x + 2 <= End(x)
              /\ End(x) <= lo_mem_max /\ lo_mem_max \in Nat
          BY NodePlace, NodeOrder
        <5>2. lo_mem_max <= mem_max
          BY <5>1, SMT DEF IInv, TypeOK, Word
        <5> QED BY <5>1, <5>2, SMT DEF Word
      <4> QED BY <1>1, <3>2, <4>1
    <3> QED BY <1>2, <3>1, <3>3 DEF IInv, TypeOK
  <2>3. pc' \in {"try", "full"} /\ s' # 0
    BY <1>1, <1>2 DEF IInv, TypeOK
  <2> QED BY <1>1, <2>1, <2>2, <2>3 DEF IInv, TypeOK
<1>8. Ordered'
  BY <1>1, <1>2 DEF IInv, Ordered
<1>9. Tiled'
  BY <1>1, <1>6, TiledFrame
<1>10. RingOK'
  <2>1. \A x \in ring : info'[x + 1] = info[x + 1]
    BY <1>1, <1>4, NodePlace DEF Node
  <2> QED BY <1>1, <2>1, RingFrame DEF IInv, RingOK
<1>11. FlagsOK'
  BY <1>1, FlagsFrame
<1>12. AvailOK'
  BY <1>1, AvailFrame
<1> QED BY <1>7, <1>8, <1>9, <1>10, <1>11, <1>12 DEF IInv

\* A step that changes no word of the lower part, no node and no list.
LEMMA QuietHolds ==
  ASSUME IInv, UNCHANGED <<link, info, lo_mem_max, hi_mem_min, mem_end, avail,
                           rover, dyn_used, var_used, nodes, words, ring>>,
         pc \in {"full", "overflow"}, pc' \in {"idle", "full", "overflow"},
         p' \in Word, q' \in Word, s' \in Sizes \cup {0, MergeOnly},
         pc' = "full" => s' # 0, pc = "overflow" => pc' = "overflow"
  PROVE  IInv'
<1>1. TypeOK'
  BY DEF IInv, TypeOK
<1>2. Ordered'
  BY DEF IInv, Ordered
<1>3. Tiled'
  <2>1. \A x \in Node : SizeOf(x)' = SizeOf(x)
    BY DEF SizeOf, node_size
  <2> QED BY <2>1, TiledFrame
<1>4. RingOK'
  <2>1. rover' \in ring
    BY DEF IInv, RingOK
  <2> QED BY <2>1, RingFrame
<1>5. FlagsOK'
  BY FlagsFrame
<1>6. AvailOK'
  <2>1. FreeWords' = FreeWords
    BY DEF FreeWords
  <2> QED BY <2>1 DEF IInv, AvailOK
<1> QED BY <1>1, <1>2, <1>3, <1>4, <1>5, <1>6 DEF IInv

\* Returning from a merge-only request, and the overflow stop, change no list.
LEMMA StopHolds == ASSUME IInv, MergedAll \/ NodeOverflow PROVE IInv'
<1>1. 0 \in Word
  BY MemoryAssumption, SMT DEF Word
<1>2. CASE MergedAll
  BY <1>1, <1>2, QuietHolds DEF MergedAll, Return, heap, bounds
<1>3. CASE NodeOverflow
  BY <1>3, QuietHolds DEF NodeOverflow, heap, bounds, locals, IInv, TypeOK
<1> QED BY <1>2, <1>3

-----------------------------------------------------------------------------
(* AllocateEntire.                                                         *)

\* Giving out the whole of p preserves the invariant.
LEMMA EntireHolds == ASSUME IInv, AllocateEntire PROVE IInv'
<1> USE MemoryAssumption
<1> DEFINE t == rlink(p)  tt == llink(p)
<1>1. /\ pc = "try" /\ pc' = "idle" /\ p' = 0 /\ q' = 0 /\ s' = 0
      /\ q - s = p /\ t # p /\ rover' = t /\ s # 0
      /\ info' = [info EXCEPT ![t + 1] = tt]
      /\ link' = [link EXCEPT ![tt + 1] = t, ![p] = 0]
      /\ ring' = ring \ {p} /\ var_used' = var_used + s
      /\ nodes' = [x \in DOMAIN nodes \cup {p} |-> IF x = p THEN s ELSE nodes[x]]
      /\ UNCHANGED <<lo_mem_max, hi_mem_min, mem_end, avail, dyn_used, words>>
  BY DEF AllocateEntire, Found, Return, bounds, IInv, TypeOK
<1>2. /\ p \in ring /\ p \in Node /\ p \in Nat /\ q \in Nat
      /\ SizeOf(p) = q - p /\ End(p) = q
  <2>1. p \in ring /\ p \in Node /\ SizeOf(p) = q - p
    BY <1>1 DEF IInv, RingOK, Node, SizeOf
  <2>2. p \in Nat /\ q \in Nat
    BY DEF IInv, TypeOK, Word
  <2> QED BY <2>1, <2>2, SMT DEF End
<1>3. s \in Sizes /\ s \in Nat /\ s = SizeOf(p)
  <2>1. s \in Sizes \cup {MergeOnly} /\ q <= mem_max
    BY <1>1, SMT DEF IInv, TypeOK, Word
  <2>2. s \in Sizes
    BY <1>1, <1>2, <2>1, SMT
  <2>3. s \in Nat
    BY <2>2
  <2> QED BY <1>1, <1>2, <2>2, <2>3, SMT
<1>4. t \in ring /\ tt \in ring /\ tt # p /\ ring \subseteq Node
  <2>1. rlink(tt) = p /\ t \in ring /\ tt \in ring
    BY <1>2, RingNeighbours
  <2> QED BY <1>1, <2>1 DEF Node
<1> HIDE DEF t, tt
<1>5. /\ DOMAIN nodes' = DOMAIN nodes \cup {p} /\ nodes'[p] = s
      /\ \A x \in DOMAIN nodes : nodes'[x] = nodes[x]
      /\ Node' = Node
  <2>1. DOMAIN nodes' = DOMAIN nodes \cup {p} /\ nodes'[p] = s
    BY <1>1
  <2>2. p \notin DOMAIN nodes
    BY <1>2 DEF IInv, Tiled
  <2> QED BY <1>1, <1>2, <2>1, <2>2 DEF Node
<1>6. \A x \in Node : x # t + 1 /\ x # tt + 1 /\ lo_mem_max # t + 1
                      /\ lo_mem_max # tt + 1 /\ lo_mem_max # p
  BY <1>2, <1>4, NodePlace, SMT
<1>7. \A x \in Node : info'[x] = info[x] /\ (x # p => link'[x] = link[x])
  BY <1>1, <1>6, NodePlace DEF IInv, TypeOK
<1>8. \A x \in Node : SizeOf(x)' = SizeOf(x)
  BY <1>1, <1>3, <1>5, <1>7 DEF SizeOf, node_size, Node
<1>9. TypeOK'
  <2>1. link' \in [Word -> HalfWord] /\ info' \in [Word -> HalfWord]
    <3>1. t \in HalfWord /\ tt \in HalfWord /\ 0 \in HalfWord
      BY <1>4, NodePlace, SMT DEF Word, HalfWord
    <3> QED BY <1>1, <3>1 DEF IInv, TypeOK
  <2>2. var_used' \in Int /\ 0 \in Word
    BY <1>1, <1>3, SMT DEF IInv, TypeOK, Word
  <2>3. rover' \in Word
    BY <1>1, <1>4, NodePlace
  <2>4. DOMAIN nodes' \subseteq Word /\ \A x \in DOMAIN nodes' : nodes'[x] \in Sizes
    BY <1>2, <1>3, <1>5, NodePlace DEF IInv, TypeOK
  <2> QED BY <1>1, <2>1, <2>2, <2>3, <2>4, SMTT(30) DEF IInv, TypeOK
<1>10. Ordered'
  BY <1>1 DEF IInv, Ordered
<1>11. Tiled'
  <2>1. \A x \in Node : End(x)' = End(x)
    BY <1>8 DEF End
  <2> QED BY <1>1, <1>5, <1>8, <2>1 DEF IInv, Tiled
<1>12. RingOK'
  <2>1. \A x \in Node : x + 1 # p
    BY <1>2, NodePlace
  <2>2. \A x \in ring' : /\ link'[x + 1] = IF x = tt THEN t ELSE link[x + 1]
                         /\ info'[x + 1] = IF x = t THEN tt ELSE info[x + 1]
    BY <1>1, <1>4, <2>1, NodePlace, SMT DEF IInv, TypeOK
  <2> QED BY <1>1, <1>2, <1>4, <2>2, RingRemove DEF t, tt, llink, rlink
<1>13. FlagsOK'
  <2>1. link'[p] = 0 /\ link'[lo_mem_max] = link[lo_mem_max]
    BY <1>1, <1>2, <1>6, NodePlace DEF IInv, TypeOK
  <2>2. 0 # empty_flag
    BY SMT
  <2> QED BY <1>1, <1>5, <1>7, <2>1, <2>2 DEF IInv, FlagsOK, is_empty, Node
<1>14. AvailOK'
  <2>1. \A x \in Word : lo_mem_max < x => x # p /\ x # tt + 1
    BY <1>2, <1>4, NodePlace, SMT DEF Word
  <2> QED BY <1>1, <2>1, AvailFrame DEF IInv, TypeOK
<1> QED BY <1>9, <1>10, <1>11, <1>12, <1>13, <1>14 DEF IInv

-----------------------------------------------------------------------------
(* free_node.                                                              *)

\* free_node preserves the invariant.
LEMMA FreeNodeHolds == ASSUME IInv, NEW d \in DOMAIN nodes, free_node(d) PROVE IInv'
<1> USE MemoryAssumption
<1> DEFINE left == llink(rover)
<1>1. /\ pc = "idle" /\ ring' = ring \cup {d} /\ var_used' = var_used - nodes[d]
      /\ info' = [info EXCEPT ![d] = nodes[d], ![d + 1] = left, ![rover + 1] = d]
      /\ link' = [link EXCEPT ![d] = empty_flag, ![d + 1] = rover, ![left + 1] = d]
      /\ nodes' = [x \in DOMAIN nodes \ {d} |-> nodes[x]]
      /\ UNCHANGED <<lo_mem_max, hi_mem_min, mem_end, avail, rover, dyn_used,
                     pc, p, q, s, words>>
  BY DEF free_node, bounds, locals
<1>2. /\ rover \in ring /\ left \in ring /\ rover \in Node /\ left \in Node
      /\ d \in Node /\ d \notin ring /\ nodes[d] \in Sizes /\ nodes[d] \in Nat
      /\ SizeOf(d) = nodes[d] /\ nodes[d] <= mem_max
  <2>1. rover \in ring /\ left \in ring
    BY RingNeighbours DEF IInv, RingOK
  <2>2. d \in Node /\ d \notin ring /\ nodes[d] \in Sizes
    BY DEF Node, IInv, Tiled, TypeOK
  <2>3. nodes[d] \in Nat /\ nodes[d] <= mem_max
    BY <2>2
  <2> QED BY <2>1, <2>2, <2>3 DEF Node, SizeOf
<1> HIDE DEF left
<1>3. /\ DOMAIN nodes' = DOMAIN nodes \ {d} /\ Node' = Node
      /\ \A x \in DOMAIN nodes' : nodes'[x] = nodes[x]
  BY <1>1 DEF Node
<1>4. /\ info \in [Word -> HalfWord] /\ link \in [Word -> HalfWord]
      /\ \A x \in Node : x # d + 1 /\ x # rover + 1 /\ x # left + 1
      /\ lo_mem_max # d + 1 /\ lo_mem_max # rover + 1 /\ lo_mem_max # left + 1
      /\ lo_mem_max # d
      /\ \A x \in Node : x \in Word /\ x + 1 \in Word /\ x \in Nat
  BY <1>2, NodePlace, SMT DEF IInv, TypeOK
<1>5. \A x \in Node : x # d => info'[x] = info[x] /\ link'[x] = link[x]
  BY <1>1, <1>4
<1>6. info'[d] = nodes[d] /\ link'[d] = empty_flag /\ link'[lo_mem_max] = link[lo_mem_max]
  <2>1. d \in Word /\ d # d + 1 /\ d # rover + 1 /\ d # left + 1
    BY <1>2, <1>4
  <2>2. lo_mem_max \in Word
    BY DEF IInv, TypeOK
  <2> QED BY <1>1, <1>4, <2>1, <2>2
<1>7. \A x \in Node : SizeOf(x)' = SizeOf(x)
  BY <1>1, <1>2, <1>3, <1>5, <1>6 DEF SizeOf, node_size, Node
<1>8. TypeOK'
  <2>1. /\ left \in HalfWord /\ rover \in HalfWord /\ d \in HalfWord
        /\ empty_flag \in HalfWord /\ nodes[d] \in HalfWord
    <3>1. left \in Word /\ rover \in Word /\ d \in Word
      BY <1>2, <1>4
    <3>2. Word \subseteq HalfWord /\ empty_flag \in HalfWord
      BY SMT DEF Word, HalfWord
    <3>3. nodes[d] \in HalfWord
      BY <1>2, SMT DEF HalfWord
    <3> QED BY <3>1, <3>2, <3>3
  <2>2. link' \in [Word -> HalfWord] /\ info' \in [Word -> HalfWord]
    BY <1>1, <1>4, <2>1
  <2>3. var_used' \in Int
    BY <1>1, <1>2, SMT DEF IInv, TypeOK
  <2>4. ring' \subseteq Word
    BY <1>1, <1>2, <1>4 DEF IInv, TypeOK
  <2> QED BY <1>1, <1>3, <2>2, <2>3, <2>4 DEF IInv, TypeOK
<1>9. Ordered'
  BY <1>1 DEF IInv, Ordered
<1>10. Tiled'
  <2>1. \A x \in Node : End(x)' = End(x)
    BY <1>7 DEF End
  <2> QED BY <1>1, <1>3, <1>7, <2>1 DEF IInv, Tiled
<1>11. RingOK'
  <2>1. \A x \in ring' :
            /\ link'[x + 1] = IF x = d THEN rover
                              ELSE IF x = left THEN d ELSE link[x + 1]
            /\ info'[x + 1] = IF x = d THEN left
                              ELSE IF x = rover THEN d ELSE info[x + 1]
    <3> SUFFICES ASSUME NEW x \in ring'
                 PROVE /\ link'[x + 1] = IF x = d THEN rover
                              ELSE IF x = left THEN d ELSE link[x + 1]
                       /\ info'[x + 1] = IF x = d THEN left
                              ELSE IF x = rover THEN d ELSE info[x + 1]
      OBVIOUS
    <3>1. x \in Node /\ x + 1 # d /\ x + 1 \in Word /\ left # d /\ rover # d
      BY <1>1, <1>2, NodePlace DEF Node
    <3>2. /\ x + 1 = d + 1 <=> x = d
          /\ x + 1 = rover + 1 <=> x = rover
          /\ x + 1 = left + 1 <=> x = left
      BY <1>2, <1>4, <3>1, SMT
    <3> QED BY <1>1, <1>4, <3>1, <3>2
  <2> QED BY <1>1, <1>2, <2>1, RingInsert DEF left, llink, rlink
<1>12. FlagsOK'
  BY <1>1, <1>3, <1>5, <1>6 DEF IInv, FlagsOK, is_empty, Node
<1>13. AvailOK'
  <2>1. \A x \in Word : lo_mem_max < x => x # d /\ x # d + 1 /\ x # left + 1
    BY <1>2, NodePlace, SMT DEF Word
  <2> QED BY <1>1, <1>4, <2>1, AvailFrame
<1> QED BY <1>8, <1>9, <1>10, <1>11, <1>12, <1>13 DEF IInv

-----------------------------------------------------------------------------
(* Grow.                                                                   *)

\* The words the lower part grows to: at least two, and below hi_mem_min.
LEMMA GrowthBounds ==
  ASSUME NEW lo \in Nat, NEW hi \in Nat, lo + 2 < hi
  PROVE  LET room == hi - lo
             want == IF room >= 2 * GrowBy - 2 THEN lo + GrowBy
                                               ELSE lo + 1 + room \div 2
         IN  want \in Nat /\ lo + 2 <= want /\ want < hi
<1> USE MemoryAssumption
<1> DEFINE room == hi - lo
<1>1. room \in Nat /\ room >= 3
  BY SMT
<1>2. room \div 2 \in Nat /\ 2 * (room \div 2) <= room /\ room <= 2 * (room \div 2) + 1
  BY <1>1, SMT
<1> HIDE DEF room
<1>3. hi = lo + room
  BY SMT DEF room
<1> QED BY <1>1, <1>2, <1>3, SMT DEF room

\* Every word the growth of the lower part writes, and nothing else.
LEMMA GrowWrites ==
  ASSUME IInv, Grow
  PROVE  /\ lo_mem_max \in Nat /\ lo_mem_max' \in Nat /\ lo_mem_max + 2 <= lo_mem_max'
         /\ lo_mem_max' < hi_mem_min /\ hi_mem_min \in Nat /\ hi_mem_min <= mem_max
         /\ link' = [link EXCEPT ![llink(rover) + 1] = lo_mem_max,
                       ![lo_mem_max + 1] = rover, ![lo_mem_max] = empty_flag,
                       ![lo_mem_max'] = 0]
         /\ info' = [info EXCEPT ![rover + 1] = lo_mem_max,
                       ![lo_mem_max + 1] = llink(rover),
                       ![lo_mem_max] = lo_mem_max' - lo_mem_max,
                       ![lo_mem_max'] = 0]
         /\ q' = lo_mem_max'
<1> USE MemoryAssumption
<1> DEFINE left == llink(rover)  n == lo_mem_max  t == lo_mem_max'
<1> DEFINE room == hi_mem_min - lo_mem_max
           want == IF room >= 2 * GrowBy - 2 THEN lo_mem_max + GrowBy
                                             ELSE lo_mem_max + 1 + room \div 2
<1>1. lo_mem_max \in Nat /\ hi_mem_min \in Nat /\ hi_mem_min <= mem_max
  BY SMT DEF IInv, TypeOK, Word
<1>2. lo_mem_max + 2 < hi_mem_min
  BY DEF Grow, CanGrow
<1>3. want \in Nat /\ lo_mem_max + 2 <= want /\ want < hi_mem_min
  BY <1>1, <1>2, GrowthBounds
<1> HIDE DEF want
<1>4. ~(want > 0 + empty_flag)
  BY <1>1, <1>3, SMT
<1>5. t = want
  BY <1>4, Zenon DEF Grow, want
<1>6. /\ link' = [link EXCEPT ![left + 1] = n, ![n + 1] = rover,
                              ![n] = empty_flag, ![want] = 0]
      /\ info' = [info EXCEPT ![rover + 1] = n, ![n + 1] = left,
                              ![n] = want - n, ![want] = 0]
      /\ q' = want
  BY <1>4, Zenon DEF Grow, want
<1> QED BY <1>1, <1>3, <1>5, <1>6

\* Linking the words above lo_mem_max in as a new empty node preserves the
\* invariant.
LEMMA GrowHolds == ASSUME IInv, Grow PROVE IInv'
<1> USE MemoryAssumption
<1> DEFINE left == llink(rover)  n == lo_mem_max  t == lo_mem_max'
<1>1. /\ n \in Nat /\ t \in Nat /\ n + 2 <= t /\ t < hi_mem_min
      /\ hi_mem_min \in Nat /\ hi_mem_min <= mem_max
      /\ link' = [link EXCEPT ![left + 1] = n, ![n + 1] = rover,
                              ![n] = empty_flag, ![t] = 0]
      /\ info' = [info EXCEPT ![rover + 1] = n, ![n + 1] = left,
                              ![n] = t - n, ![t] = 0]
      /\ q' = t
  BY GrowWrites
<1>2. /\ pc = "full" /\ pc' = "try" /\ p' = n /\ rover' = n /\ ring' = ring \cup {n}
      /\ UNCHANGED <<hi_mem_min, mem_end, avail, dyn_used, var_used, s, nodes, words>>
  BY DEF Grow
<1>3. /\ rover \in ring /\ left \in ring /\ rover \in Node /\ left \in Node
      /\ n \notin ring /\ n \notin Node
  <2>1. rover \in ring /\ left \in ring
    BY RingNeighbours DEF IInv, RingOK
  <2> QED BY <2>1, NodePlace DEF Node
<1>4. /\ rover \in Nat /\ left \in Nat /\ rover + 1 < n /\ left + 1 < n
      /\ \A x \in Node : x \in Nat /\ x + 1 < n
  BY <1>3, NodePlace, SMT
<1>5. /\ info \in [Word -> HalfWord] /\ link \in [Word -> HalfWord]
      /\ n \in Word /\ n + 1 \in Word /\ t \in Word
  <2>1. n <= mem_max /\ n + 1 <= mem_max /\ t <= mem_max
    BY <1>1, SMT
  <2> QED BY <1>1, <2>1, SMT DEF IInv, TypeOK, Word
<1> HIDE DEF left, n, t
<1>6. Node' = Node \cup {n}
  BY <1>2 DEF Node
<1>7. \A x \in Node : info'[x] = info[x] /\ link'[x] = link[x]
  <2> SUFFICES ASSUME NEW x \in Node PROVE info'[x] = info[x] /\ link'[x] = link[x]
    OBVIOUS
  <2>1. x # n /\ x # n + 1 /\ x # t /\ x # rover + 1 /\ x # left + 1
    BY <1>1, <1>3, <1>4, NodePlace, SMT
  <2> QED BY <1>1, <1>5, <2>1, NodePlace
<1>8. info'[n] = t - n /\ link'[n] = empty_flag /\ link'[t] = 0
  <2>1. n # n + 1 /\ n # t /\ n # rover + 1 /\ n # left + 1 /\ t # n + 1
        /\ t # rover + 1 /\ t # left + 1
    BY <1>1, <1>4, SMT
  <2> QED BY <1>1, <1>5, <2>1
<1>9. /\ \A x \in Node : SizeOf(x)' = SizeOf(x) /\ End(x)' = End(x)
      /\ \A x : x = n => SizeOf(x)' = t - n /\ End(x)' = t
  <2>1. \A x \in Node : SizeOf(x)' = SizeOf(x)
    BY <1>2, <1>3, <1>7 DEF SizeOf, node_size, Node
  <2>2. \A x : x = n => SizeOf(x)' = t - n
    BY <1>1, <1>2 DEF SizeOf
  <2>3. n + (t - n) = t
    BY <1>1, SMT
  <2> QED BY <2>1, <2>2, <2>3 DEF End
<1>10. TypeOK'
  <2>1. Word \subseteq HalfWord /\ empty_flag \in HalfWord /\ 0 \in HalfWord
    BY SMT DEF Word, HalfWord
  <2>2. t - n \in HalfWord
    BY <1>1, SMT DEF HalfWord
  <2>3. left \in Word /\ rover \in Word
    BY <1>3, NodePlace
  <2>4. link' \in [Word -> HalfWord] /\ info' \in [Word -> HalfWord]
    BY <1>1, <1>5, <2>1, <2>2, <2>3
  <2> QED BY <1>1, <1>2, <1>5, <2>4 DEF IInv, TypeOK, t
<1>11. Ordered'
  BY <1>1, <1>2, SMT DEF IInv, Ordered, t, n
<1>12. Tiled'
  <2>1. ring' \cap DOMAIN nodes' = {}
    BY <1>2, <1>3 DEF IInv, Tiled, Node
  <2>2. lo_mem_stat_max + 1 \in Node'
    BY <1>6 DEF IInv, Tiled
  <2>3. ASSUME NEW x \in Node'
        PROVE /\ lo_mem_stat_max < x /\ SizeOf(x)' >= 2
              /\ End(x)' <= t /\ End(x)' \in Node' \cup {t}
    <3>1. CASE x \in Node
      <4>1. lo_mem_stat_max < x /\ SizeOf(x) >= 2 /\ End(x) \in Node \cup {n}
        BY <3>1 DEF IInv, Tiled, n
      <4>2. End(x) <= t
        BY <1>1, <3>1, NodePlace, NodeOrder, SMT DEF n
      <4> QED BY <1>6, <1>9, <3>1, <4>1, <4>2
    <3>2. CASE x = n
      <4>1. lo_mem_stat_max < n
        BY DEF IInv, Ordered, n
      <4>2. SizeOf(x)' = t - n /\ End(x)' = t
        BY <1>9, <3>2
      <4> QED BY <1>1, <3>2, <4>1, <4>2, SMT
    <3> QED BY <1>6, <3>1, <3>2
  <2>4. ASSUME NEW x \in Node', NEW y \in Node', x < y PROVE End(x)' <= y
    <3>1. CASE x = n
      BY <1>4, <1>6, <1>1, <2>4, <3>1, SMT
    <3>2. CASE x \in Node /\ y = n
      BY <1>9, <3>2, NodeOrder DEF n
    <3>3. CASE x \in Node /\ y \in Node
      BY <1>9, <2>4, <3>3, NodeOrder
    <3> QED BY <1>6, <3>1, <3>2, <3>3
  <2> QED BY <2>1, <2>2, <2>3, <2>4 DEF Tiled, t
<1>13. RingOK'
  <2>1. \A x \in ring' :
            /\ link'[x + 1] = IF x = n THEN rover
                              ELSE IF x = left THEN n ELSE link[x + 1]
            /\ info'[x + 1] = IF x = n THEN left
                              ELSE IF x = rover THEN n ELSE info[x + 1]
    <3> SUFFICES ASSUME NEW x \in ring'
                 PROVE /\ link'[x + 1] = IF x = n THEN rover
                              ELSE IF x = left THEN n ELSE link[x + 1]
                       /\ info'[x + 1] = IF x = n THEN left
                              ELSE IF x = rover THEN n ELSE info[x + 1]
      OBVIOUS
    <3>1. x \in Nat /\ x <= n /\ x + 1 # n /\ x + 1 # t
      BY <1>1, <1>2, <1>4, SMT DEF Node
    <3>2. /\ x + 1 = n + 1 <=> x = n
          /\ x + 1 = rover + 1 <=> x = rover
          /\ x + 1 = left + 1 <=> x = left
          /\ left # n /\ rover # n
      BY <1>1, <1>4, <3>1, SMT
    <3>3. x + 1 \in Word
      BY <1>1, <1>5, <3>1, SMT DEF Word
    <3> QED BY <1>1, <1>5, <3>1, <3>2, <3>3
  <2> QED BY <1>2, <1>3, <2>1, RingInsert DEF left, llink, rlink
<1>14. FlagsOK'
  <2>1. 0 # empty_flag
    BY SMT
  <2> QED BY <1>2, <1>7, <1>8, <2>1 DEF IInv, FlagsOK, is_empty, Node, t
<1>15. AvailOK'
  <2>1. \A x \in Word : n < x /\ hi_mem_min <= x
            => x # n /\ x # n + 1 /\ x # left + 1 /\ x # t
    BY <1>1, <1>4, SMT DEF Word
  <2>2. \A x \in Word : n < x /\ hi_mem_min <= x => link'[x] = link[x]
    BY <1>1, <1>5, <2>1
  <2> QED BY <1>2, <2>2, AvailFrame DEF n
<1> QED BY <1>10, <1>11, <1>12, <1>13, <1>14, <1>15 DEF IInv

\* What a holder writes in the later words of its node, even the empty flag,
\* preserves the invariant.
LEMMA UseHolds == ASSUME IInv, NEW d \in DOMAIN nodes, UseNode(d) PROVE IInv'
<1> USE MemoryAssumption
<1>1. /\ pc = "idle"
      /\ link' = [y \in Word |-> IF y \in Span(d + 1, nodes[d] - 1)
                                 THEN empty_flag ELSE link[y]]
      /\ UNCHANGED <<info, lo_mem_max, hi_mem_min, mem_end, avail, rover, dyn_used,
                     var_used, pc, p, q, s, nodes, words, ring>>
  BY DEF UseNode, bounds, locals
<1>2. /\ d \in Node /\ d \notin ring /\ SizeOf(d) = nodes[d] /\ d \in Nat
      /\ End(d) = d + nodes[d] /\ nodes[d] \in Int
  BY NodePlace DEF Node, IInv, Tiled, SizeOf, End
<1>3. \A y \in Int : y \in Span(d + 1, nodes[d] - 1) <=> d < y /\ y < End(d)
  BY <1>2, SMT DEF Span
<1>4. \A y \in Word : y <= d \/ End(d) <= y => link'[y] = link[y]
  <2> SUFFICES ASSUME NEW y \in Word, y <= d \/ End(d) <= y PROVE link'[y] = link[y]
    OBVIOUS
  <2>1. y \in Int /\ ~(d < y /\ y < End(d))
    BY <1>2, NodePlace, SMT DEF Word
  <2> QED BY <1>1, <1>3, <2>1
<1>5. \A x \in Node : link'[x] = link[x] /\ (x # d => link'[x + 1] = link[x + 1])
  <2> SUFFICES ASSUME NEW x \in Node
               PROVE link'[x] = link[x] /\ (x # d => link'[x + 1] = link[x + 1])
    OBVIOUS
  <2>1. x \in Nat /\ x \in Word /\ x + 1 \in Word /\ x + 2 <= End(x) /\ End(x) \in Int
    BY NodePlace, NodeOrder
  <2>2. x < d => End(x) <= d
    BY <1>2, NodeOrder
  <2>3. d < x => End(d) <= x
    BY <1>2, NodeOrder
  <2>4. End(d) \in Int
    BY <1>2, NodePlace
  <2> QED BY <1>2, <1>4, <2>1, <2>2, <2>3, <2>4, SMT
<1>6. link'[lo_mem_max] = link[lo_mem_max]
  BY <1>2, <1>4, NodeOrder DEF IInv, TypeOK
<1>7. TypeOK'
  <2>1. empty_flag \in HalfWord
    BY SMT DEF HalfWord
  <2>2. link' \in [Word -> HalfWord]
    BY <1>1, <2>1 DEF IInv, TypeOK
  <2> QED BY <1>1, <2>2 DEF IInv, TypeOK
<1>8. Ordered'
  BY <1>1 DEF IInv, Ordered
<1>9. Tiled'
  <2>1. \A x \in Node : SizeOf(x)' = SizeOf(x)
    BY <1>1 DEF SizeOf, node_size
  <2> QED BY <1>1, <2>1, TiledFrame
<1>10. RingOK'
  BY <1>1, <1>2, <1>5, RingFrame DEF IInv, RingOK, Node
<1>11. FlagsOK'
  BY <1>1, <1>5, <1>6, FlagsFrame
<1>12. AvailOK'
  <2>1. \A x \in Word : lo_mem_max < x => link'[x] = link[x]
    <3>1. End(d) <= lo_mem_max /\ End(d) \in Int /\ lo_mem_max \in Nat
      BY <1>2, NodePlace, NodeOrder
    <3> QED BY <1>4, <3>1, SMT DEF Word
  <2> QED BY <1>1, <2>1, AvailFrame
<1> QED BY <1>7, <1>8, <1>9, <1>10, <1>11, <1>12 DEF IInv

-----------------------------------------------------------------------------
(* One-word memory.                                                        *)

\* A step that writes the link of one one-word location only.
LEMMA HighHolds ==
  ASSUME IInv, pc = "idle", NEW w \in Word, NEW v \in HalfWord,
         lo_mem_max < w, link' = [link EXCEPT ![w] = v],
         UNCHANGED <<info, lo_mem_max, rover, var_used, pc, p, q, s, nodes, ring>>,
         mem_end' \in Word, hi_mem_min' \in Word, avail' \in Word,
         dyn_used' \in Int, words' \subseteq Word,
         mem_top <= mem_end', mem_end' <= mem_max,
         hi_mem_min' <= hi_mem_stat_min, lo_mem_max < hi_mem_min'
  PROVE  TypeOK' /\ Ordered' /\ Tiled' /\ RingOK' /\ FlagsOK'
<1>1. /\ link' \in [Word -> HalfWord]
      /\ \A x \in Word : x <= lo_mem_max => link'[x] = link[x]
  <2>1. \A x \in Word : x <= lo_mem_max => x # w
    BY NodePlace, SMT DEF Word
  <2> QED BY <2>1 DEF IInv, TypeOK
<1>2. \A x \in Node : link'[x] = link[x] /\ link'[x + 1] = link[x + 1]
  <2> SUFFICES ASSUME NEW x \in Node
               PROVE link'[x] = link[x] /\ link'[x + 1] = link[x + 1]
    OBVIOUS
  <2>1. x \in Word /\ x + 1 \in Word /\ x <= lo_mem_max /\ x + 1 <= lo_mem_max
    BY NodePlace, SMT
  <2> QED BY <1>1, <2>1
<1>3. link'[lo_mem_max] = link[lo_mem_max]
  <2>1. lo_mem_max \in Word /\ lo_mem_max <= lo_mem_max
    BY NodePlace, SMT DEF IInv, TypeOK
  <2> QED BY <1>1, <2>1
<1>4. TypeOK'
  BY <1>1 DEF IInv, TypeOK
<1>5. Ordered'
  BY DEF IInv, Ordered
<1>6. Tiled'
  <2>1. \A x \in Node : SizeOf(x)' = SizeOf(x)
    BY DEF SizeOf, node_size
  <2> QED BY <2>1, TiledFrame
<1>7. RingOK'
  <2>1. \A x \in ring : link'[x + 1] = link[x + 1] /\ info'[x + 1] = info[x + 1]
    BY <1>2 DEF Node
  <2> QED BY <2>1, RingFrame DEF IInv, RingOK
<1>8. FlagsOK'
  BY <1>2, <1>3, FlagsFrame
<1> QED BY <1>4, <1>5, <1>6, <1>7, <1>8

\* The avail list as a chain of exactly the free one-word locations.
LEMMA AvailFacts ==
  ASSUME IInv, pc = "idle"
  PROVE  /\ avail \in FreeWords \cup {0}
         /\ \A x \in FreeWords :
              /\ link[x] \in FreeWords \cup {0} /\ link[x] # avail
              /\ \A y \in FreeWords : link[x] = link[y] /\ x # y => link[x] = 0
         /\ \A S \in SUBSET FreeWords :
              avail \in S \cup {0} /\ (\A x \in S : link[x] \in S \cup {0})
              => S = FreeWords
         /\ \A x \in FreeWords \cup words : x \in Word /\ x \in Nat /\ lo_mem_max < x
                                            /\ x # 0 /\ hi_mem_min <= x /\ x <= mem_end
         /\ words \subseteq hi_mem_min..mem_end /\ StaticHigh \subseteq words
         /\ lo_mem_max \in Nat /\ hi_mem_min \in Nat /\ mem_end \in Nat
         /\ lo_mem_max < hi_mem_min /\ link \in [Word -> HalfWord]
         /\ hi_mem_min <= mem_top - 2 /\ mem_top <= mem_end /\ mem_end <= mem_max
<1> USE MemoryAssumption
<1>1. /\ lo_mem_max \in Nat /\ hi_mem_min \in Nat /\ mem_end \in Nat
      /\ lo_mem_max < hi_mem_min /\ link \in [Word -> HalfWord]
      /\ hi_mem_min <= mem_top - 2 /\ mem_top <= mem_end /\ mem_end <= mem_max
  BY SMT DEF IInv, TypeOK, Ordered, Word
<1>2. words \subseteq hi_mem_min..mem_end /\ StaticHigh \subseteq words
  BY DEF IInv, AvailOK
<1>3. \A x \in FreeWords \cup words : x \in Word /\ x \in Nat /\ lo_mem_max < x
                                      /\ x # 0 /\ hi_mem_min <= x /\ x <= mem_end
  <2>1. \A x \in hi_mem_min..mem_end : x \in Word /\ x \in Nat /\ lo_mem_max < x
                                      /\ x # 0 /\ hi_mem_min <= x /\ x <= mem_end
    BY <1>1, SMT DEF Word
  <2> QED BY <1>2, <2>1 DEF FreeWords
<1>4. AvailOK /\ pc # "overflow"
  BY DEF IInv
<1> QED BY <1>1, <1>2, <1>3, <1>4 DEF AvailOK

\* A part of the free words that the avail list does not leave is all.
LEMMA AvailWhole ==
  ASSUME IInv, pc = "idle", NEW S, S \subseteq FreeWords, avail \in S \cup {0},
         \A x \in S : link[x] \in S \cup {0}
  PROVE  S = FreeWords
<1>1. S \in SUBSET FreeWords
  OBVIOUS
<1> QED BY <1>1, AvailFacts

\* Popping the avail list preserves the invariant.
LEMMA PopHolds == ASSUME IInv, PopAvail PROVE IInv'
<1> USE MemoryAssumption
<1> DEFINE a == avail
<1>1. /\ pc = "idle" /\ a # 0 /\ avail' = link[a] /\ link' = [link EXCEPT ![a] = 0]
      /\ dyn_used' = dyn_used + 1 /\ words' = words \cup {a}
      /\ UNCHANGED <<info, lo_mem_max, hi_mem_min, mem_end, rover, var_used,
                     pc, p, q, s, nodes, ring>>
  BY DEF PopAvail, Take, bounds, locals
<1>2. a \in FreeWords /\ a \in Word /\ lo_mem_max < a /\ link[a] \in FreeWords \cup {0}
  BY <1>1, AvailFacts
<1> HIDE DEF a
<1>3. TypeOK' /\ Ordered' /\ Tiled' /\ RingOK' /\ FlagsOK'
  <2>1. 0 \in HalfWord /\ 0 \in Word
    BY SMT DEF HalfWord, Word
  <2>2. avail' \in Word /\ words' \subseteq Word /\ dyn_used' \in Int
    BY <1>1, <1>2, <2>1, AvailFacts, SMT DEF IInv, TypeOK
  <2>3. hi_mem_min \in Word /\ mem_end \in Word
    BY DEF IInv, TypeOK
  <2> QED BY <1>1, <1>2, <2>1, <2>2, <2>3, AvailFacts, HighHolds
<1>4. FreeWords' = FreeWords \ {a}
  BY <1>1 DEF FreeWords
<1>5. \A x \in FreeWords' : link'[x] = link[x]
  BY <1>1, <1>4, AvailFacts
<1>6. avail' \in FreeWords' \cup {0}
  BY <1>1, <1>2, <1>4, AvailFacts DEF a
<1>7. \A x \in FreeWords' : link[x] \in FreeWords' \cup {0} /\ link[x] # link[a]
  <2> SUFFICES ASSUME NEW x \in FreeWords'
               PROVE link[x] \in FreeWords' \cup {0} /\ link[x] # link[a]
    OBVIOUS
  <2>1. link[x] \in FreeWords' \cup {0}
    BY <1>1, <1>4, AvailFacts DEF a
  <2>2. CASE link[a] = 0
    <3>1. \A y \in {a} : link[y] \in {a} \cup {0}
      BY <2>2
    <3>2. {a} \subseteq FreeWords /\ avail \in {a} \cup {0}
      BY <1>2 DEF a
    <3>3. {a} = FreeWords
      BY <1>1, <3>1, <3>2, AvailWhole
    <3> QED BY <1>4, <3>3
  <2>3. CASE link[a] # 0
    <3>1. x \in FreeWords /\ x # a
      BY <1>4
    <3>2. link[x] = link[a] => link[x] = 0
      BY <1>1, <1>2, <3>1, AvailFacts
    <3> QED BY <2>1, <2>3, <3>2
  <2> QED BY <2>1, <2>2, <2>3
<1>8. ASSUME NEW S \in SUBSET FreeWords', avail' \in S \cup {0},
             \A x \in S : link'[x] \in S \cup {0}
      PROVE  S = FreeWords'
  <2>1. S \cup {a} \subseteq FreeWords
    BY <1>2, <1>4
  <2>2. \A x \in S \cup {a} : link[x] \in (S \cup {a}) \cup {0}
    BY <1>1, <1>5, <1>8
  <2>3. avail \in (S \cup {a}) \cup {0}
    BY DEF a
  <2>4. S \cup {a} = FreeWords
    BY <1>1, <2>1, <2>2, <2>3, AvailWhole
  <2> QED BY <1>4, <1>8, <2>4
<1>9. AvailOK'
  <2>1. words' \subseteq hi_mem_min'..mem_end' /\ StaticHigh \subseteq words'
    BY <1>1, <1>2, AvailFacts DEF FreeWords
  <2>2. \A x, y \in FreeWords' : link[x] = link[y] /\ x # y => link[x] = 0
    BY <1>1, <1>4, AvailFacts
  <2>3. \A x \in FreeWords' :
           /\ link'[x] \in FreeWords' \cup {0} /\ link'[x] # avail'
           /\ \A y \in FreeWords' : link'[x] = link'[y] /\ x # y => link'[x] = 0
    BY <1>1, <1>5, <1>7, <2>2
  <2> QED BY <1>6, <1>8, <2>1, <2>3 DEF AvailOK
<1> QED BY <1>3, <1>9 DEF IInv

\* Taking the word above mem_end preserves the invariant.
LEMMA VirginTopHolds == ASSUME IInv, VirginTop PROVE IInv'
<1> USE MemoryAssumption
<1> DEFINE w == mem_end + 1
<1>1. /\ pc = "idle" /\ avail = 0 /\ mem_end < mem_max /\ mem_end' = w
      /\ link' = [link EXCEPT ![w] = 0] /\ dyn_used' = dyn_used + 1
      /\ words' = words \cup {w}
      /\ UNCHANGED <<info, lo_mem_max, hi_mem_min, avail, rover, var_used,
                     pc, p, q, s, nodes, ring>>
  BY DEF VirginTop, Take, locals
<1>2. w \in Word /\ lo_mem_max < w /\ w <= mem_max /\ mem_top <= w /\ w \in Nat
  BY <1>1, AvailFacts, SMT DEF Word
<1>3. FreeWords = {}
  <2>1. {} \subseteq FreeWords /\ avail \in {} \cup {0} /\ \A x \in {} : link[x] \in {} \cup {0}
    BY <1>1
  <2> QED BY <1>1, <2>1, AvailWhole
<1>4. hi_mem_min..w = (hi_mem_min..mem_end) \cup {w}
  BY <1>1, AvailFacts, SMT
<1> HIDE DEF w
<1>5. TypeOK' /\ Ordered' /\ Tiled' /\ RingOK' /\ FlagsOK'
  <2>1. 0 \in HalfWord
    BY SMT DEF HalfWord
  <2>2. words' \subseteq Word /\ dyn_used' \in Int
    BY <1>1, <1>2, SMT DEF IInv, TypeOK
  <2>3. hi_mem_min \in Word /\ avail \in Word
    BY DEF IInv, TypeOK
  <2> QED BY <1>1, <1>2, <2>1, <2>2, <2>3, AvailFacts, HighHolds
<1>6. FreeWords' = {}
  BY <1>1, <1>3, <1>4 DEF FreeWords
<1>7. words' \subseteq hi_mem_min'..mem_end' /\ StaticHigh \subseteq words'
  BY <1>1, <1>4, AvailFacts
<1> QED BY <1>1, <1>5, <1>6, <1>7 DEF IInv, AvailOK

\* Taking the word below hi_mem_min, or finding no room for it, preserves the
\* invariant.
LEMMA VirginBottomHolds == ASSUME IInv, VirginBottom PROVE IInv'
<1> USE MemoryAssumption
<1> DEFINE w == hi_mem_min - 1
<1>1. /\ pc = "idle" /\ avail = 0 /\ hi_mem_min' = w
      /\ UNCHANGED <<info, lo_mem_max, mem_end, avail, rover, var_used,
                     p, q, s, nodes, ring>>
  BY DEF VirginBottom, locals
<1>2. /\ w \in Word /\ lo_mem_max <= w /\ w <= hi_mem_stat_min /\ w \in Nat
      /\ w < mem_end
  BY <1>1, AvailFacts, SMT DEF Word
<1>3. FreeWords = {}
  <2>1. {} \subseteq FreeWords /\ avail \in {} \cup {0} /\ \A x \in {} : link[x] \in {} \cup {0}
    BY <1>1
  <2> QED BY <1>1, <2>1, AvailWhole
<1>4. w..mem_end = (hi_mem_min..mem_end) \cup {w}
  BY <1>1, AvailFacts, SMT
<1>5. CASE w <= lo_mem_max
  <2>1. pc' = "overflow" /\ UNCHANGED <<link, dyn_used, words>>
    BY <1>1, <1>5 DEF VirginBottom
  <2>2. TypeOK'
    BY <1>1, <1>2, <2>1 DEF IInv, TypeOK
  <2>3. Ordered'
    BY <1>1, <1>2, <2>1 DEF IInv, Ordered
  <2>4. Tiled'
    <3>1. \A x \in Node : SizeOf(x)' = SizeOf(x)
      BY <1>1, <2>1 DEF SizeOf, node_size
    <3> QED BY <1>1, <3>1, TiledFrame
  <2>5. RingOK'
    BY <1>1, <2>1, RingFrame DEF IInv, RingOK
  <2>6. FlagsOK'
    BY <1>1, <2>1, FlagsFrame
  <2>7. AvailOK'
    BY <1>1, <1>4, <2>1, AvailFacts DEF AvailOK
  <2> QED BY <2>2, <2>3, <2>4, <2>5, <2>6, <2>7 DEF IInv
<1>6. CASE ~(w <= lo_mem_max)
  <2>1. /\ pc' = pc /\ link' = [link EXCEPT ![w] = 0]
        /\ dyn_used' = dyn_used + 1 /\ words' = words \cup {w}
    BY <1>1, <1>6 DEF VirginBottom, Take
  <2>0. lo_mem_max < w
    BY <1>1, <1>2, <1>6, AvailFacts, SMT
  <2> HIDE DEF w
  <2>2. TypeOK' /\ Ordered' /\ Tiled' /\ RingOK' /\ FlagsOK'
    <3>1. 0 \in HalfWord
      BY SMT DEF HalfWord
    <3>2. words' \subseteq Word /\ dyn_used' \in Int
      BY <1>2, <2>1, SMT DEF IInv, TypeOK
    <3>3. mem_end \in Word /\ avail \in Word
      BY DEF IInv, TypeOK
    <3> QED BY <1>1, <1>2, <2>0, <2>1, <3>1, <3>2, <3>3, AvailFacts, HighHolds
  <2>3. FreeWords' = {}
    BY <1>1, <1>3, <1>4, <2>1 DEF FreeWords
  <2>4. words' \subseteq hi_mem_min'..mem_end' /\ StaticHigh \subseteq words'
    BY <1>1, <1>4, <2>1, AvailFacts
  <2> QED BY <1>1, <2>1, <2>2, <2>3, <2>4 DEF IInv, AvailOK
<1> QED BY <1>5, <1>6

\* Putting a word in front of the avail list preserves the invariant.
LEMMA FreeAvailHolds == ASSUME IInv, NEW w \in words, free_avail(w) PROVE IInv'
<1> USE MemoryAssumption
<1>1. /\ pc = "idle" /\ w \notin StaticHigh /\ avail' = w
      /\ link' = [link EXCEPT ![w] = avail]
      /\ dyn_used' = dyn_used - 1 /\ words' = words \ {w}
      /\ UNCHANGED <<info, lo_mem_max, hi_mem_min, mem_end, rover, var_used,
                     pc, p, q, s, nodes, ring>>
  BY DEF free_avail, bounds, locals
<1>2. w \in Word /\ lo_mem_max < w /\ w # 0 /\ w \in hi_mem_min..mem_end
  BY <1>1, AvailFacts
<1>3. TypeOK' /\ Ordered' /\ Tiled' /\ RingOK' /\ FlagsOK'
  <2>1. avail \in HalfWord
    BY SMT DEF HalfWord, Word, IInv, TypeOK
  <2>2. words' \subseteq Word /\ dyn_used' \in Int
    BY <1>1, SMT DEF IInv, TypeOK
  <2>3. mem_end \in Word /\ hi_mem_min \in Word
    BY DEF IInv, TypeOK
  <2> QED BY <1>1, <1>2, <2>1, <2>2, <2>3, AvailFacts, HighHolds
<1>4. FreeWords' = FreeWords \cup {w} /\ w \notin FreeWords
  BY <1>1, <1>2 DEF FreeWords
<1>5. link'[w] = avail /\ \A x \in FreeWords : link'[x] = link[x]
  BY <1>1, <1>2, <1>4, AvailFacts
<1>6. \A x \in FreeWords' : link'[x] \in FreeWords' \cup {0} /\ link'[x] # w
  BY <1>1, <1>2, <1>4, <1>5, AvailFacts
<1>7. \A x, y \in FreeWords' : link'[x] = link'[y] /\ x # y => link'[x] = 0
  BY <1>1, <1>4, <1>5, AvailFacts
<1>8. ASSUME NEW S \in SUBSET FreeWords', avail' \in S \cup {0},
             \A x \in S : link'[x] \in S \cup {0}
      PROVE  S = FreeWords'
  <2>1. w \in S
    BY <1>1, <1>2, <1>8
  <2>2. S \ {w} \subseteq FreeWords
    BY <1>4, <1>8
  <2>3. \A x \in S \ {w} : link[x] \in (S \ {w}) \cup {0}
    BY <1>4, <1>5, <1>8, <2>2, AvailFacts, <1>1
  <2>4. avail \in (S \ {w}) \cup {0}
    BY <1>1, <1>4, <1>5, <1>8, <2>1, AvailFacts
  <2>5. S \ {w} = FreeWords
    BY <1>1, <2>2, <2>3, <2>4, AvailFacts
  <2> QED BY <1>4, <2>1, <2>5
<1>9. AvailOK'
  <2>1. words' \subseteq hi_mem_min'..mem_end' /\ StaticHigh \subseteq words'
    BY <1>1, AvailFacts
  <2> QED BY <1>1, <1>4, <1>6, <1>7, <1>8, <2>1 DEF AvailOK
<1> QED BY <1>3, <1>9 DEF IInv

-----------------------------------------------------------------------------
(* The invariant.                                                          *)

\* Every step of the allocator and of its users preserves the inductive
\* invariant.
THEOREM StepHolds == IInv /\ [Next]_vars => IInv'
<1> SUFFICES ASSUME IInv, [Next]_vars PROVE IInv'
  OBVIOUS
<1>1. CASE MergeSuccessor
  BY <1>1, MergeHolds
<1>2. CASE AllocateFromTop
  BY <1>2, TopHolds
<1>3. CASE AllocateEntire
  BY <1>3, EntireHolds
<1>4. CASE NextInRing
  BY <1>4, NextInRingHolds
<1>5. CASE MergedAll \/ NodeOverflow
  BY <1>5, StopHolds
<1>6. CASE Grow
  BY <1>6, GrowHolds
<1>7. CASE get_avail
  BY <1>7, PopHolds, VirginTopHolds, VirginBottomHolds DEF get_avail
<1>8. ASSUME NEW x \in words, free_avail(x) PROVE IInv'
  BY <1>8, FreeAvailHolds
<1>9. ASSUME NEW n \in Sizes \cup {MergeOnly}, get_node(n) PROVE IInv'
  BY <1>9, CallHolds
<1>10. ASSUME NEW x \in DOMAIN nodes, free_node(x) PROVE IInv'
  BY <1>10, FreeNodeHolds
<1>11. ASSUME NEW x \in DOMAIN nodes, UseNode(x) PROVE IInv'
  BY <1>11, UseHolds
<1>12. CASE UNCHANGED vars
  BY <1>12 DEF vars, IInv, TypeOK, Ordered, Tiled, RingOK, FlagsOK, AvailOK,
               Node, End, SizeOf, node_size, llink, rlink, is_empty, FreeWords
<1> QED
  BY <1>1, <1>2, <1>3, <1>4, <1>5, <1>6, <1>7, <1>8, <1>9, <1>10, <1>11, <1>12
  DEF Next, NodeSteps, Requests, Use

\* Every reachable state satisfies the inductive invariant.
THEOREM Invariance == Spec => []IInv
<1> QED BY InitHolds, StepHolds, PTL DEF Spec

\* The variables keep their types (web2c's halfword and pointer ranges).
THEOREM TypeCorrect == Spec => []TypeOK
<1>1. IInv => TypeOK
  BY DEF IInv
<1> QED BY <1>1, Invariance, PTL

\* Whatever sequence of requests the program makes, get_node and free_node
\* keep the lower part of mem tiled: no word is in two nodes and none is lost.
THEOREM NodesTile == Spec => []Tiled
<1>1. IInv => Tiled
  BY DEF IInv
<1> QED BY <1>1, Invariance, PTL

\* What check_mem tests: the ring of empty nodes, its flags and the avail
\* list are well formed.
THEOREM HeapStaysIntact == Spec => []HeapIntact
<1>1. IInv => HeapIntact
  BY DEF IInv, HeapIntact
<1> QED BY <1>1, Invariance, PTL

-----------------------------------------------------------------------------
(* Held nodes are not written.                                             *)

\* A word of a held node lies in no other node, so no list pointer is in it.
LEMMA HeldApart ==
  ASSUME IInv, NEW x \in DOMAIN nodes, NEW y \in Span(x, nodes[x])
  PROVE  /\ y \in Word /\ y \in Nat /\ y < lo_mem_max /\ lo_mem_max \in Nat
         /\ lo_mem_stat_max < y /\ x \in Node /\ x \notin ring
         /\ \A z \in Node : z # x => y < z \/ End(z) <= y
         /\ \A z \in Node : z # x => y # z /\ y # z + 1
<1> USE MemoryAssumption
<1>1. x \in Node /\ x \notin ring /\ SizeOf(x) = nodes[x]
  BY DEF Node, SizeOf, IInv, Tiled
<1>2. y \in Nat /\ x <= y /\ y < End(x) /\ End(x) <= lo_mem_max
      /\ lo_mem_stat_max < y
  <2>1. x \in Nat /\ nodes[x] \in Int /\ End(x) = x + nodes[x] /\ lo_mem_stat_max < x
    BY <1>1, NodePlace DEF End
  <2>2. y \in x..(x + nodes[x] - 1)
    BY DEF Span
  <2>3. End(x) <= lo_mem_max
    BY <1>1, NodeOrder
  <2> QED BY <2>1, <2>2, <2>3, SMT
<1>3. lo_mem_max \in Nat /\ lo_mem_max <= mem_max
  BY SMT DEF IInv, TypeOK, Word
<1>4. y \in Word /\ y < lo_mem_max
  <2>1. End(x) \in Int
    BY <1>1, NodePlace
  <2> QED BY <1>2, <1>3, <2>1, SMT DEF Word
<1>5. ASSUME NEW z \in Node, z # x PROVE /\ y < z \/ End(z) <= y
                                         /\ y # z /\ y # z + 1
  <2>1. /\ x \in Nat /\ z \in Nat /\ End(x) \in Int /\ End(z) \in Int
        /\ x < z => End(x) <= z
        /\ z < x => End(z) <= x
        /\ z + 2 <= End(z)
    BY <1>1, NodePlace, NodeOrder
  <2> QED BY <1>2, <1>5, <2>1, SMT
<1> QED BY <1>1, <1>2, <1>3, <1>4, <1>5

\* No step but its holder's writes in a word of a node that stays held.
LEMMA StepSpares ==
  ASSUME IInv, [Next]_vars, NEW x \in DOMAIN nodes, x \in DOMAIN nodes',
         ~UseNode(x), NEW y \in Span(x, nodes[x])
  PROVE  link'[y] = link[y] /\ info'[y] = info[y]
<1> USE MemoryAssumption
<1>0. /\ info \in [Word -> HalfWord] /\ link \in [Word -> HalfWord] /\ y \in Word
      /\ \A z \in ring : y # z /\ y # z + 1 /\ z \in Node
      /\ y # lo_mem_max /\ y # lo_mem_max + 1 /\ y < lo_mem_max /\ y \in Nat
  <2>1. \A z \in ring : y # z /\ y # z + 1 /\ z \in Node
    BY HeldApart DEF Node
  <2>2. y # lo_mem_max /\ y # lo_mem_max + 1 /\ y < lo_mem_max /\ y \in Nat
    BY HeldApart, SMT
  <2> QED BY <2>1, <2>2, HeldApart DEF IInv, TypeOK
<1>1. CASE MergeSuccessor
  BY <1>0, <1>1, MergeFacts
<1>2. CASE AllocateFromTop
  <2>1. /\ info' = [info EXCEPT ![p] = (q - s) - p]
        /\ link' = [link EXCEPT ![q - s] = 0]
    BY <1>2 DEF AllocateFromTop, Found
  <2>2. p \in ring /\ p # x /\ p \in Node
    BY <1>2, TopFacts, HeldApart
  <2>3. y < p \/ q <= y
    BY <1>2, <2>2, TopFacts, HeldApart
  <2>4. y # q - s
    BY <1>0, <1>2, <2>2, <2>3, TopFacts, NodePlace, SMT
  <2> QED BY <1>0, <2>1, <2>2, <2>4
<1>3. CASE AllocateEntire
  <2>1. p \in ring
    BY <1>3 DEF AllocateEntire, IInv, RingOK
  <2>2. rlink(p) \in ring /\ llink(p) \in ring
    BY <2>1, RingNeighbours
  <2> QED BY <1>0, <1>3, <2>1, <2>2 DEF AllocateEntire, Found
<1>4. CASE NextInRing
  <2>1. p \in ring
    BY <1>4 DEF NextInRing, IInv, RingOK
  <2> QED BY <1>0, <1>4, <2>1 DEF NextInRing
<1>5. CASE MergedAll \/ NodeOverflow
  BY <1>5 DEF MergedAll, NodeOverflow, heap
<1>6. CASE Grow
  <2>1. rover \in ring /\ llink(rover) \in ring
    BY RingNeighbours DEF IInv, RingOK
  <2>2. lo_mem_max' \in Nat /\ lo_mem_max + 2 <= lo_mem_max'
        /\ link' = [link EXCEPT ![llink(rover) + 1] = lo_mem_max,
                       ![lo_mem_max + 1] = rover, ![lo_mem_max] = empty_flag,
                       ![lo_mem_max'] = 0]
        /\ info' = [info EXCEPT ![rover + 1] = lo_mem_max,
                       ![lo_mem_max + 1] = llink(rover),
                       ![lo_mem_max] = lo_mem_max' - lo_mem_max,
                       ![lo_mem_max'] = 0]
    BY <1>6, GrowWrites
  <2>3. y # lo_mem_max'
    BY <1>0, <2>2, NodePlace, SMT
  <2> QED BY <1>0, <2>1, <2>2, <2>3
<1>7. CASE get_avail
  <2>1. info' = info /\ pc = "idle"
    BY <1>7 DEF get_avail, PopAvail, VirginTop, VirginBottom
  <2>2. ASSUME NEW w \in Int, lo_mem_max < w, link' = [link EXCEPT ![w] = 0]
        PROVE  link'[y] = link[y]
    <3>1. y # w
      BY <1>0, <2>2, NodePlace, SMT
    <3> QED BY <1>0, <2>2, <3>1
  <2>3. CASE PopAvail
    <3>1. avail \in FreeWords
      BY <2>1, <2>3, AvailFacts DEF PopAvail
    <3>2. avail \in Int /\ lo_mem_max < avail
      BY <2>1, <3>1, AvailFacts
    <3> QED BY <2>1, <2>2, <2>3, <3>2 DEF PopAvail, Take
  <2>4. CASE VirginTop
    <3>1. mem_end + 1 \in Int /\ lo_mem_max < mem_end + 1
      BY <2>1, AvailFacts, SMT
    <3> QED BY <2>1, <2>2, <2>4, <3>1 DEF VirginTop, Take
  <2>5. CASE VirginBottom
    <3>1. CASE hi_mem_min - 1 <= lo_mem_max
      BY <2>1, <2>5, <3>1 DEF VirginBottom
    <3>2. CASE ~(hi_mem_min - 1 <= lo_mem_max)
      <4>1. hi_mem_min - 1 \in Int /\ lo_mem_max < hi_mem_min - 1
        BY <2>1, <3>2, AvailFacts, SMT
      <4>2. link' = [link EXCEPT ![hi_mem_min - 1] = 0]
        BY <2>5, <3>2 DEF VirginBottom, Take
      <4> QED BY <2>1, <2>2, <4>1, <4>2
    <3> QED BY <3>1, <3>2
  <2> QED BY <1>7, <2>3, <2>4, <2>5 DEF get_avail
<1>8. ASSUME NEW w \in words, free_avail(w)
      PROVE  link'[y] = link[y] /\ info'[y] = info[y]
  <2>1. lo_mem_max < w /\ w \in Nat
    BY <1>8, AvailFacts DEF free_avail
  <2>2. y # w
    BY <1>0, <2>1, NodePlace, SMT
  <2> QED BY <1>0, <1>8, <2>2 DEF free_avail
<1>9. ASSUME NEW n \in Sizes \cup {MergeOnly}, get_node(n)
      PROVE  link'[y] = link[y] /\ info'[y] = info[y]
  BY <1>9 DEF get_node, heap
<1>10. ASSUME NEW d \in DOMAIN nodes, free_node(d)
       PROVE  link'[y] = link[y] /\ info'[y] = info[y]
  <2>1. d # x /\ d \in Node
    BY <1>10 DEF free_node, Node
  <2>2. y # d /\ y # d + 1
    BY <2>1, HeldApart
  <2>3. rover \in ring /\ llink(rover) \in ring
    BY RingNeighbours DEF IInv, RingOK
  <2> QED BY <1>0, <1>10, <2>2, <2>3 DEF free_node
<1>11. ASSUME NEW d \in DOMAIN nodes, UseNode(d)
       PROVE  link'[y] = link[y] /\ info'[y] = info[y]
  <2>1. d # x /\ d \in Node /\ d \notin ring
    BY <1>11 DEF Node, IInv, Tiled
  <2>2. y < d \/ End(d) <= y
    BY <2>1, HeldApart
  <2>3. End(d) = d + nodes[d] /\ d \in Nat /\ nodes[d] \in Int
    BY <2>1, NodePlace DEF End, SizeOf
  <2>4. y \notin Span(d + 1, nodes[d] - 1)
    BY <1>0, <2>2, <2>3, SMT DEF Span
  <2> QED BY <1>0, <1>11, <2>4 DEF UseNode
<1>12. CASE UNCHANGED vars
  BY <1>12 DEF vars
<1> QED
  BY <1>1, <1>2, <1>3, <1>4, <1>5, <1>6, <1>7, <1>8, <1>9, <1>10, <1>11, <1>12
  DEF Next, NodeSteps, Requests, Use

\* No merge, split, growth or list operation writes in a held node.
THEOREM HeldNodesUntouched == Spec => HeldUntouched
<1>1. IInv /\ [Next]_vars =>
        [\A x \in DOMAIN nodes :
          x \in DOMAIN nodes' /\ ~UseNode(x) =>
             \A y \in Span(x, nodes[x]) :
                link'[y] = link[y] /\ info'[y] = info[y]]_vars
  BY StepSpares
<1> QED BY <1>1, Invariance, PTL DEF Spec, HeldUntouched

-----------------------------------------------------------------------------
(* mem implements the abstract storage.                                    *)

\* A word in no held node, above the static ones and not held itself, is
\* free in the abstract storage too.
LEMMA BusyApart ==
  ASSUME IInv, NEW y \in Word, lo_mem_stat_max < y, y \notin words,
         y < lo_mem_max \/ hi_mem_min > hi_mem_stat_min \/ pc = "idle",
         \A x \in DOMAIN nodes : y \notin Span(x, nodes[x])
  PROVE  y \notin Store!Busy
<1>1. y \notin StaticLow
  BY MemoryAssumption, SMT DEF StaticLow, Word
<1>2. y \notin StaticHigh
  BY DEF IInv, AvailOK
<1>3. \A x \in DOMAIN nodes : y \notin Store!Words(x, nodes[x])
  BY DEF Store!Words, Span
<1> QED BY <1>1, <1>2, <1>3 DEF Store!Busy

\* The new node r lies in the empty node p, so it overlaps nothing held.
LEMMA GetNodeStep ==
  ASSUME IInv, NEW r \in Word, pc = "try", pc' = "idle", p \in ring,
         r >= p, r + s = End(p), s \in Sizes, words' = words,
         nodes' = [x \in DOMAIN nodes \cup {r} |-> IF x = r THEN s ELSE nodes[x]]
  PROVE  Store!GetNode(r, s)
<1> USE MemoryAssumption
<1>1. /\ r \in Nat /\ s \in Nat /\ p \in Node /\ p \in Nat /\ End(p) \in Int
      /\ End(p) <= lo_mem_max /\ lo_mem_max <= mem_max /\ lo_mem_max \in Nat
      /\ lo_mem_stat_max < p /\ lo_mem_max < hi_mem_min /\ hi_mem_min \in Nat
  <2>1. s \in Nat
    OBVIOUS
  <2>2. p \in Node
    BY DEF Node
  <2>3. r \in Nat /\ lo_mem_max <= mem_max /\ hi_mem_min \in Nat
    BY SMT DEF IInv, TypeOK, Word
  <2>4. lo_mem_max < hi_mem_min
    BY DEF IInv, Ordered
  <2> QED BY <2>1, <2>2, <2>3, <2>4, NodePlace, NodeOrder
<1>2. ASSUME NEW y \in Store!Words(r, s)
      PROVE  y \in Word /\ y \notin Store!Busy
  <2>1. y \in r..(r + s - 1)
    BY DEF Store!Words
  <2>2. y \in Nat /\ p <= y /\ y < End(p)
    BY <1>1, <2>1, SMT
  <2>3. y \in Word
    BY <1>1, <2>2, SMT DEF Word
  <2>4. y \notin words
    <3>1. ~(y \in hi_mem_min..mem_end)
      BY <1>1, <2>2, SMT
    <3> QED BY <3>1 DEF IInv, AvailOK
  <2>5. ASSUME NEW x \in DOMAIN nodes, y \in Span(x, nodes[x]) PROVE FALSE
    <3>1. p # x
      BY DEF IInv, Tiled
    <3>2. y < p \/ End(p) <= y
      BY <1>1, <2>5, <3>1, HeldApart
    <3> QED BY <1>1, <2>2, <3>2, SMT
  <2>6. lo_mem_stat_max < y /\ y < lo_mem_max
    BY <1>1, <2>2, SMT
  <2> QED BY <2>3, <2>4, <2>5, <2>6, BusyApart
<1>3. Store!Words(r, s) \subseteq Word /\ Store!Words(r, s) \cap Store!Busy = {}
  BY <1>2
<1> QED BY <1>3 DEF Store!GetNode

\* A word nobody held, given out, is a step GetWord of the abstract storage.
LEMMA GetWordStep ==
  ASSUME IInv, pc = "idle", pc' = "idle", NEW w \in Word,
         lo_mem_max < w, w \notin words, words' = words \cup {w}, nodes' = nodes
  PROVE  Store!GetWord(w)
<1>1. lo_mem_stat_max < w
  BY NodePlace, MemoryAssumption, SMT DEF IInv, Ordered, Word
<1>2. \A x \in DOMAIN nodes : w \notin Span(x, nodes[x])
  <2> SUFFICES ASSUME NEW x \in DOMAIN nodes, w \in Span(x, nodes[x]) PROVE FALSE
    OBVIOUS
  <2>1. w < lo_mem_max /\ w \in Nat /\ lo_mem_max \in Nat
    BY HeldApart
  <2> QED BY <2>1, SMT
<1>3. w \notin Store!Busy
  BY <1>1, <1>2, BusyApart
<1>4. w \notin StaticHigh
  BY DEF IInv, AvailOK
<1> QED BY <1>3, <1>4 DEF Store!GetWord

\* Initially the abstract storage holds nothing.
LEMMA InitStores == Init => Store!Init
BY DEF Init, Store!Init

\* Every step is a step of the abstract storage or leaves it as it is.
LEMMA StepStores ==
  ASSUME IInv, IInv', [Next]_vars
  PROVE  [Store!Next]_<<nodes, words \ StaticHigh, pc = "overflow">>
<1> USE MemoryAssumption
<1> DEFINE Goal == [Store!Next]_<<nodes, words \ StaticHigh, pc = "overflow">>
<1>1. CASE MergeSuccessor
  BY <1>1 DEF MergeSuccessor
<1>2. CASE AllocateFromTop
  <2>1. /\ q - s \in Word /\ q - s >= p /\ (q - s) + s = End(p) /\ s \in Sizes
        /\ p \in ring /\ pc = "try" /\ pc' = "idle" /\ words' = words
        /\ nodes' = [x \in DOMAIN nodes \cup {q - s} |->
                        IF x = q - s THEN s ELSE nodes[x]]
    <3>1. p \in Nat /\ q \in Nat /\ s \in Nat /\ q - s > p + 1 /\ End(p) = q
      BY <1>2, TopFacts, NodePlace
    <3>2. (q - s) + s = End(p) /\ q - s >= p
      BY <3>1, SMT
    <3> QED BY <1>2, <3>2, TopFacts DEF AllocateFromTop, Found, Return
  <2>2. Store!GetNode(q - s, s)
    BY <2>1, GetNodeStep
  <2> QED BY <2>1, <2>2 DEF Store!Next
<1>3. CASE AllocateEntire
  <2>1. /\ p \in ring /\ pc = "try" /\ pc' = "idle" /\ words' = words
        /\ nodes' = [x \in DOMAIN nodes \cup {p} |-> IF x = p THEN s ELSE nodes[x]]
        /\ p \in Word /\ q - s = p /\ SizeOf(p) = q - p /\ s # 0
    BY <1>3 DEF AllocateEntire, Found, Return, IInv, RingOK, TypeOK, SizeOf
  <2>2. p \in Nat /\ q \in Nat /\ q <= mem_max
    BY SMT DEF IInv, TypeOK, Word
  <2>3. s \in Sizes
    BY <2>1, <2>2, SMT DEF IInv, TypeOK
  <2>4. s \in Nat
    BY <2>3
  <2>5. p + s = End(p) /\ p >= p
    BY <2>1, <2>2, <2>4, SMT DEF End
  <2>6. Store!GetNode(p, s)
    BY <2>1, <2>3, <2>5, GetNodeStep
  <2> QED BY <2>1, <2>3, <2>6 DEF Store!Next
<1>4. CASE NextInRing
  <2>1. pc' # "overflow" /\ pc # "overflow"
    BY <1>4 DEF NextInRing
  <2> QED BY <1>4, <2>1 DEF NextInRing
<1>5. CASE MergedAll
  BY <1>5 DEF MergedAll, Return
<1>6. CASE Grow
  BY <1>6 DEF Grow
<1>7. CASE NodeOverflow
  <2>1. Store!Stop
    BY <1>7 DEF NodeOverflow, Store!Stop
  <2> QED BY <2>1 DEF Store!Next
<1>8. CASE PopAvail
  <2>1. /\ pc = "idle" /\ pc' = "idle" /\ words' = words \cup {avail} /\ nodes' = nodes
        /\ avail # 0
    BY <1>8 DEF PopAvail, Take
  <2>2. avail \in FreeWords /\ avail \in Word /\ lo_mem_max < avail
    BY <2>1, AvailFacts
  <2>3. Store!GetWord(avail)
    BY <2>1, <2>2, GetWordStep DEF FreeWords
  <2> QED BY <2>2, <2>3 DEF Store!Next
<1>9. CASE VirginTop
  <2>1. /\ pc = "idle" /\ pc' = "idle" /\ words' = words \cup {mem_end + 1}
        /\ nodes' = nodes /\ mem_end < mem_max
    BY <1>9 DEF VirginTop, Take
  <2>2. mem_end + 1 \in Word /\ lo_mem_max < mem_end + 1 /\ mem_end + 1 \notin hi_mem_min..mem_end
    BY <2>1, AvailFacts, SMT DEF Word
  <2>3. mem_end + 1 \notin words
    BY <2>1, <2>2, AvailFacts
  <2>4. Store!GetWord(mem_end + 1)
    BY <2>1, <2>2, <2>3, GetWordStep
  <2> QED BY <2>2, <2>4 DEF Store!Next
<1>10. CASE VirginBottom
  <2>1. pc = "idle" /\ nodes' = nodes
    BY <1>10 DEF VirginBottom
  <2>2. CASE hi_mem_min - 1 <= lo_mem_max
    <3>1. Store!Stop
      BY <1>10, <2>1, <2>2 DEF VirginBottom, Store!Stop
    <3> QED BY <3>1 DEF Store!Next
  <2>3. CASE ~(hi_mem_min - 1 <= lo_mem_max)
    <3>1. pc' = "idle" /\ words' = words \cup {hi_mem_min - 1}
      BY <1>10, <2>1, <2>3 DEF VirginBottom, Take
    <3>2. /\ hi_mem_min - 1 \in Word /\ lo_mem_max < hi_mem_min - 1
          /\ hi_mem_min - 1 \notin hi_mem_min..mem_end
      BY <2>1, <2>3, AvailFacts, SMT DEF Word
    <3>3. hi_mem_min - 1 \notin words
      BY <2>1, <3>2, AvailFacts
    <3>4. Store!GetWord(hi_mem_min - 1)
      BY <2>1, <3>1, <3>2, <3>3, GetWordStep
    <3> QED BY <3>2, <3>4 DEF Store!Next
  <2> QED BY <2>2, <2>3
<1>11. ASSUME NEW w \in words, free_avail(w) PROVE Goal
  <2>1. Store!FreeWord(w) /\ w \in words \ StaticHigh
    BY <1>11 DEF free_avail, Store!FreeWord
  <2> QED BY <2>1 DEF Store!Next
<1>12. ASSUME NEW n \in Sizes \cup {MergeOnly}, get_node(n) PROVE Goal
  BY <1>12 DEF get_node
<1>13. ASSUME NEW x \in DOMAIN nodes, free_node(x) PROVE Goal
  <2>1. Store!FreeNode(x)
    BY <1>13 DEF free_node, Store!FreeNode
  <2> QED BY <2>1 DEF Store!Next
<1>14. ASSUME NEW x \in DOMAIN nodes, UseNode(x) PROVE Goal
  BY <1>14 DEF UseNode
<1>15. CASE UNCHANGED vars
  BY <1>15 DEF vars
<1> QED
  BY <1>1, <1>2, <1>3, <1>4, <1>5, <1>6, <1>7, <1>8, <1>9, <1>10, <1>11, <1>12,
     <1>13, <1>14, <1>15 DEF Next, NodeSteps, Requests, Use, get_avail

\* get_avail, get_node, free_avail and free_node hand out and take back
\* locations as the abstract storage does.
THEOREM ImplementsStorage == Spec => StoreSpec
<1>1. Init => Store!Init
  BY InitStores
<1>2. IInv /\ IInv' /\ [Next]_vars
        => [Store!Next]_<<nodes, words \ StaticHigh, pc = "overflow">>
  BY StepStores
<1> QED BY <1>1, <1>2, Invariance, PTL DEF Spec, StoreSpec, Store!Spec

-----------------------------------------------------------------------------
(* The tour of the ring.                                                   *)

\* V are the empty nodes that get_node has passed, from rover to the one before
\* p; none of them has an empty node after it, and none of them will do.
Passed(V) ==
    /\ V \subseteq ring /\ p \notin V /\ rover \in V \cup {p} /\ (rover = p => V = {})
    /\ \A x \in V : rlink(x) \in V \cup {p}
    /\ \A x \in V \cup {p} : x # rover => llink(x) \in V
    /\ \A x \in V : /\ x + node_size(x) \notin ring
                    /\ node_size(x) <= s + 1 /\ node_size(x) # s
Toured == \A x \in ring : /\ x + node_size(x) \notin ring
                          /\ node_size(x) <= s + 1 /\ (node_size(x) = s => ring = {x})
Tour == /\ pc = "idle" => s = 0
        /\ pc = "try" => \E V \in SUBSET ring : Passed(V)
        /\ pc = "full" => Toured

TourInv == IInv /\ Tour /\ OverflowJustified

\* A set of empty nodes that llink does not leave is all of the ring or empty.
LEMMA RingClosedLeft ==
  ASSUME IInv, NEW S, S \subseteq ring, S # ring, \A x \in S : llink(x) \in S
  PROVE  S = {}
<1>1. \A x \in ring \ S : rlink(x) \in ring \ S
  BY RingNeighbours
<1>2. ring \ S # {} /\ ring \ S \subseteq ring
  OBVIOUS
<1>3. ring \ S = ring
  BY <1>1, <1>2, RingClosed
<1> QED BY <1>3

\* A node that is merged away is no longer among those passed; if rover was
\* there, the tour now begins after it.
LEMMA MergeTours ==
  ASSUME IInv, MergeSuccessor, NEW V, Passed(V)
  PROVE  \E W \in SUBSET ring' : Passed(W)'
<1> DEFINE t == rlink(q)  tt == llink(q)
<1>0. PICK W : W = V \ {q}
  OBVIOUS
<1>1. /\ p' = p /\ s' = s /\ p # q /\ p \in ring /\ q \in ring
      /\ t \in ring \ {q} /\ tt \in ring \ {q}
      /\ rover' = IF q = rover THEN t ELSE rover
  BY MergeFacts DEF MergeSuccessor, RoverAfter
<1>2. /\ V \subseteq ring /\ p \notin V /\ rover \in V \cup {p} /\ (rover = p => V = {})
      /\ \A x \in V : rlink(x) \in V \cup {p}
      /\ \A x \in V \cup {p} : x # rover => llink(x) \in V
  BY DEF Passed
<1>3. \A x \in ring : rlink(x) \in ring /\ llink(rlink(x)) = x
                      /\ llink(x) \in ring /\ rlink(llink(x)) = x
  BY RingNeighbours
<1>4. ring' = ring \ {q}
  BY MergeLinks
<1>5. \A x \in ring' : /\ rlink(x)' = IF x = tt THEN t ELSE rlink(x)
                       /\ llink(x)' = IF x = t THEN tt ELSE llink(x)
  BY MergeLinks DEF rlink, llink
<1> HIDE DEF t, tt
<1>6. t # q /\ tt # q /\ t = rlink(q) /\ tt = llink(q)
  BY <1>1 DEF t, tt
<1>7. rover' \in W \cup {p}
  BY <1>0, <1>1, <1>2, <1>6
<1>8. ASSUME rover' = p PROVE W = {}
  <2>1. CASE q # rover
    BY <1>0, <1>1, <1>2, <1>8, <2>1
  <2>2. CASE q = rover
    <3>1. rlink(q) = p
      BY <1>1, <1>6, <1>8, <2>2
    <3>2. \A x \in W : llink(x) \in W
      BY <1>0, <1>2, <1>3, <2>2, <3>1
    <3>3. W \subseteq ring /\ W # ring
      BY <1>0, <1>1, <1>2
    <3> QED BY <3>2, <3>3, RingClosedLeft
  <2> QED BY <2>1, <2>2
<1>9. \A x \in W : rlink(x)' \in W \cup {p}
  <2> SUFFICES ASSUME NEW x \in W PROVE rlink(x)' \in W \cup {p}
    OBVIOUS
  <2>1. x \in V /\ x # q /\ x \in ring /\ x \in ring'
    BY <1>0, <1>2, <1>4
  <2>2. CASE x = tt
    <3>1. rlink(x) = q
      BY <1>1, <1>3, <1>6, <2>2
    <3>2. q \in V
      BY <1>1, <1>2, <2>1, <3>1
    <3> QED BY <1>0, <1>2, <1>5, <1>6, <2>1, <2>2, <3>2
  <2>3. CASE x # tt
    <3>1. rlink(x) # q
      BY <1>3, <1>6, <2>1, <2>3
    <3> QED BY <1>0, <1>2, <1>5, <2>1, <2>3, <3>1
  <2> QED BY <2>2, <2>3
<1>10. ASSUME NEW x \in W \cup {p}, x # rover' PROVE llink(x)' \in W
  <2>1. x \in V \cup {p} /\ x # q /\ x \in ring /\ x \in ring'
    BY <1>0, <1>1, <1>2, <1>4
  <2>2. CASE x = t
    <3>1. q # rover /\ llink(x) = q
      BY <1>1, <1>3, <1>6, <1>10, <2>2
    <3>2. x # rover
      BY <1>1, <1>10, <3>1
    <3>3. q \in V
      BY <1>2, <2>1, <3>1, <3>2
    <3>4. tt \in V
      BY <1>2, <1>6, <3>1, <3>3
    <3> QED BY <1>0, <1>5, <1>6, <2>1, <2>2, <3>4
  <2>3. CASE x # t
    <3>1. x # rover
      BY <1>1, <1>10, <2>1
    <3>2. llink(x) \in V
      BY <1>2, <2>1, <3>1
    <3>3. llink(x) # q
      BY <1>3, <1>6, <2>1, <2>3
    <3> QED BY <1>0, <1>5, <2>1, <2>3, <3>2, <3>3
  <2> QED BY <2>2, <2>3
<1>11. \A x \in W : /\ x + node_size(x)' \notin ring'
                    /\ node_size(x)' <= s' + 1 /\ node_size(x)' # s'
  <2> SUFFICES ASSUME NEW x \in W PROVE /\ x + node_size(x)' \notin ring'
                                        /\ node_size(x)' <= s' + 1 /\ node_size(x)' # s'
    OBVIOUS
  <2>1. x \in V /\ x \in Node
    BY <1>0, <1>2 DEF Node
  <2>2. node_size(x)' = node_size(x)
    BY <2>1, MergeLinks DEF node_size
  <2>3. x + node_size(x) \notin ring /\ node_size(x) <= s + 1 /\ node_size(x) # s
    BY <2>1 DEF Passed
  <2> QED BY <1>1, <1>4, <2>2, <2>3
<1>12. W \subseteq ring' /\ p \notin W
  BY <1>0, <1>2, <1>4
<1>13. Passed(W)'
  BY <1>1, <1>7, <1>8, <1>9, <1>10, <1>11, <1>12 DEF Passed
<1> QED BY <1>12, <1>13

\* The node that is left is too small and has no empty node after it.
LEMMA NextTours ==
  ASSUME IInv, NextInRing, NEW V, Passed(V)
  PROVE  /\ pc' = "try" => \E W \in SUBSET ring' : Passed(W)'
         /\ pc' = "full" => Toured'
<1> USE MemoryAssumption
<1>0. PICK W : W = V \cup {p}
  OBVIOUS
<1>1. /\ pc = "try" /\ ~is_empty(q) /\ TooSmall /\ info' = [info EXCEPT ![p] = q - p]
      /\ p' = rlink(p) /\ link' = link /\ s' = s /\ ring' = ring /\ rover' = rover
      /\ p' = rover => pc' = "full"
      /\ p' # rover => pc' = "try"
  BY DEF NextInRing
<1>2. /\ V \subseteq ring /\ p \notin V /\ rover \in V \cup {p} /\ (rover = p => V = {})
      /\ \A x \in V : rlink(x) \in V \cup {p}
      /\ \A x \in V \cup {p} : x # rover => llink(x) \in V
      /\ p \in ring /\ rover \in ring
  BY <1>1 DEF Passed, IInv, RingOK
<1>3. \A x \in ring : rlink(x) \in ring /\ llink(rlink(x)) = x
  BY RingNeighbours
<1>4. \A x \in ring : rlink(x)' = rlink(x) /\ llink(x)' = llink(x)
  <2>1. \A x \in ring : x + 1 # p
    BY <1>2, NodePlace DEF Node
  <2> QED BY <1>1, <2>1 DEF rlink, llink, IInv, TypeOK
<1>5. \A x \in ring : node_size(x)' = IF x = p THEN q - p ELSE node_size(x)
  BY <1>1, <1>2 DEF node_size, IInv, TypeOK
<1>6. p \in Int /\ q \in Int /\ s \in Int
  <2>1. s \in Sizes \cup {0, MergeOnly}
    BY DEF IInv, TypeOK
  <2> QED BY <2>1, SMT DEF IInv, TypeOK, Word
<1>7. q \notin ring /\ q - p <= s + 1 /\ (q - p = s => rlink(p) = p)
  <2>1. q \notin ring
    BY <1>1 DEF IInv, FlagsOK
  <2> QED BY <1>1, <1>6, <2>1, SMT DEF TooSmall, CanSplit
<1>8. \A x \in W : /\ x + node_size(x)' \notin ring'
                   /\ node_size(x)' <= s' + 1 /\ (node_size(x)' = s' => x = p /\ rlink(p) = p)
  <2> SUFFICES ASSUME NEW x \in W
               PROVE  /\ x + node_size(x)' \notin ring' /\ node_size(x)' <= s' + 1
                      /\ (node_size(x)' = s' => x = p /\ rlink(p) = p)
    OBVIOUS
  <2>1. CASE x = p
    <3>1. node_size(x)' = q - p /\ x + (q - p) = q
      BY <1>2, <1>5, <1>6, <2>1
    <3> QED BY <1>1, <1>7, <2>1, <3>1
  <2>2. CASE x # p
    <3>1. x \in V /\ node_size(x)' = node_size(x)
      BY <1>0, <1>2, <1>5, <2>2
    <3>2. x + node_size(x) \notin ring /\ node_size(x) <= s + 1 /\ node_size(x) # s
      BY <3>1 DEF Passed
    <3> QED BY <1>1, <3>1, <3>2
  <2> QED BY <2>1, <2>2
<1>9. rlink(p) = p => ring = {p}
  <2> SUFFICES ASSUME rlink(p) = p PROVE {p} = ring
    OBVIOUS
  <2>1. {p} \subseteq ring /\ {p} # {} /\ \A x \in {p} : rlink(x) \in {p}
    BY <1>2
  <2> QED BY ONLY <2>1, IInv, RingClosed
<1>10. ASSUME pc' = "try" PROVE \E U \in SUBSET ring' : Passed(U)'
  <2>1. p' # rover
    BY <1>1, <1>10
  <2>2. p' \notin W
    <3>1. p' # p
      BY <1>1, <1>2, <1>9, <2>1
    <3>2. p' \notin V
      BY <1>1, <1>2, <1>3, <2>1
    <3> QED BY <1>0, <3>1, <3>2
  <2>3. \A x \in W : rlink(x)' \in W \cup {p'}
    BY <1>0, <1>1, <1>2, <1>4
  <2>4. \A x \in W \cup {p'} : x # rover' => llink(x)' \in W
    BY <1>0, <1>1, <1>2, <1>3, <1>4
  <2>5. W \subseteq ring' /\ rover' \in W
    BY <1>0, <1>1, <1>2
  <2>6. \A x \in W : node_size(x)' # s'
    BY <1>0, <1>1, <1>2, <1>8, <1>9, <2>1
  <2>7. Passed(W)'
    BY <1>8, <2>1, <2>2, <2>3, <2>4, <2>5, <2>6 DEF Passed
  <2> QED BY <2>5, <2>7
<1>11. ASSUME pc' = "full" PROVE Toured'
  <2>1. rlink(p) = rover
    BY <1>1, <1>11
  <2>2. W \subseteq ring /\ W # {} /\ \A x \in W : rlink(x) \in W
    BY <1>0, <1>2, <2>1
  <2>3. W = ring
    BY <2>2, RingClosed
  <2> QED BY <1>1, <1>8, <1>9, <2>3 DEF Toured
<1> QED BY <1>10, <1>11

\* The first node of the tour is rover.
LEMMA TourStarts ==
  ASSUME pc' = "try", p' = rover', rover' \in ring' PROVE Tour'
<1>1. Passed({})'
  BY DEF Passed
<1> QED BY <1>1 DEF Tour

\* Every step of the allocator keeps the tour.
LEMMA TourHolds == TourInv /\ [Next]_vars => TourInv'
<1> USE MemoryAssumption
<1> SUFFICES ASSUME TourInv, [Next]_vars PROVE TourInv'
  OBVIOUS
<1>0. IInv /\ IInv' /\ pc \in {"idle", "try", "full", "overflow"} /\ 0 \notin Sizes
  <2>1. IInv /\ IInv'
    BY StepHolds DEF TourInv
  <2> QED BY <2>1, SMT DEF IInv, TypeOK
<1> SUFFICES Tour' /\ OverflowJustified'
  BY <1>0 DEF TourInv
<1>1. CASE MergeSuccessor
  <2>1. pc = "try" /\ pc' = "try"
    BY <1>1 DEF MergeSuccessor
  <2>2. PICK V \in SUBSET ring : Passed(V)
    BY <2>1 DEF TourInv, Tour
  <2>3. \E W \in SUBSET ring' : Passed(W)'
    BY <1>0, <1>1, <2>2, MergeTours
  <2> QED BY <2>1, <2>3 DEF Tour, OverflowJustified
<1>2. CASE NextInRing
  <2>1. pc = "try" /\ pc' \in {"try", "full"} /\ ring' = ring
    BY <1>2 DEF NextInRing
  <2>2. PICK V \in SUBSET ring : Passed(V)
    BY <2>1 DEF TourInv, Tour
  <2>3. (pc' = "try" => \E W \in SUBSET ring' : Passed(W)') /\ (pc' = "full" => Toured')
    BY <1>0, <1>2, <2>2, NextTours
  <2> QED BY <2>1, <2>3 DEF Tour, OverflowJustified
<1>3. CASE AllocateFromTop \/ AllocateEntire \/ MergedAll
  <2>1. pc' = "idle" /\ s' = 0
    BY <1>3 DEF AllocateFromTop, AllocateEntire, MergedAll, Found, Return
  <2> QED BY <2>1 DEF Tour, OverflowJustified
<1>4. CASE Grow
  <2>1. pc' = "try" /\ p' = rover'
    BY <1>4 DEF Grow
  <2>2. rover' \in ring'
    BY <1>0 DEF IInv, RingOK
  <2> QED BY <2>1, <2>2, TourStarts DEF OverflowJustified
<1>5. CASE NodeOverflow
  <2>1. /\ pc = "full" /\ ~CanGrow /\ pc' = "overflow"
        /\ UNCHANGED <<heap, bounds, locals, ring>>
    BY <1>5 DEF NodeOverflow
  <2>2. Toured /\ lo_mem_max < hi_mem_min
    BY <1>0, <2>1 DEF TourInv, Tour, IInv, Ordered
  <2>3. hi_mem_min - lo_mem_max <= 2
    <3>1. lo_mem_max \in 0..mem_max /\ hi_mem_min \in 0..mem_max
      BY <1>0 DEF IInv, TypeOK, Word
    <3>2. lo_mem_max + 2 >= hi_mem_min \/ lo_mem_max + 2 > 0 + empty_flag
      BY <2>1, <3>1, SMT DEF CanGrow
    <3> QED BY <2>2, <3>1, <3>2, SMT
  <2>4. s \in Int /\ \A x \in ring : node_size(x) \in Int
    <3>1. s \in Sizes \cup {0, MergeOnly}
      BY <1>0 DEF IInv, TypeOK
    <3>2. \A x \in ring : node_size(x) \in Int
      BY <1>0, SMT DEF IInv, TypeOK, node_size, HalfWord
    <3> QED BY <3>1, <3>2, SMT
  <2>5. \A x \in ring : /\ node_size(x) # s + 1 => node_size(x) <= s
                        /\ node_size(x) = s => ring = {x}
    BY <2>2, <2>4, SMT DEF Toured
  <2>6. UNCHANGED <<info, lo_mem_max, hi_mem_min, s, ring>>
    BY <2>1 DEF heap, bounds, locals
  <2> QED BY <2>1, <2>3, <2>5, <2>6 DEF Tour, OverflowJustified, node_size
<1>6. ASSUME NEW n \in Sizes \cup {MergeOnly}, get_node(n) PROVE Tour' /\ OverflowJustified'
  <2>1. pc' = "try" /\ p' = rover'
    BY <1>6 DEF get_node
  <2>2. rover' \in ring'
    BY <1>0 DEF IInv, RingOK
  <2> QED BY <2>1, <2>2, TourStarts DEF OverflowJustified
<1>7. ASSUME get_avail \/ (\E x \in words : free_avail(x)) \/ (\E x \in DOMAIN nodes : free_node(x)) \/ Use
      PROVE  Tour' /\ OverflowJustified'
  <2>1. pc = "idle" /\ s' = s /\ pc' \in {"idle", "overflow"}
    BY <1>7 DEF get_avail, PopAvail, VirginTop, VirginBottom, free_avail, free_node, Use, UseNode, locals
  <2>2. s' = 0
    BY <2>1 DEF TourInv, Tour
  <2> QED BY <1>0, <2>1, <2>2 DEF Tour, OverflowJustified
<1>8. CASE UNCHANGED vars
  BY <1>8 DEF vars, TourInv, Tour, Passed, Toured, OverflowJustified, node_size, llink, rlink
<1> QED BY <1>1, <1>2, <1>3, <1>4, <1>5, <1>6, <1>7, <1>8 DEF Next, NodeSteps, Requests

\* Whatever is requested, what get_node has passed on its tour stays as the
\* invariant says.
THEOREM TourInvariance == Spec => []TourInv
<1>1. Init => TourInv
  <2> SUFFICES ASSUME Init PROVE TourInv
    OBVIOUS
  <2>1. IInv
    BY InitHolds
  <2>2. pc = "idle" /\ s = 0
    BY DEF Init
  <2> QED BY <2>1, <2>2, MemoryAssumption DEF TourInv, Tour, OverflowJustified
<1> QED BY <1>1, TourHolds, PTL DEF Spec

\* When get_node has been all around the ring in vain no two empty nodes are
\* adjacent, however rover moved and nodes were merged on the way.
THEOREM MergedByTour == Spec => []Merged
<1>1. TourInv => Merged
  <2> SUFFICES ASSUME TourInv, pc = "full" PROVE \A x, y \in ring : x + node_size(x) # y
    BY DEF Merged
  <2> QED BY DEF TourInv, Tour, Toured
<1> QED BY <1>1, TourInvariance, PTL

\* get_node stops only if no empty node would have done, merged as they are, and
\* the two regions cannot approach any more.
THEOREM StopsOnlyWhenFull == Spec => []OverflowJustified
<1>1. TourInv => OverflowJustified
  BY DEF TourInv
<1> QED BY <1>1, TourInvariance, PTL

=============================================================================
