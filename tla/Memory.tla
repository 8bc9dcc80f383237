------------------------------- MODULE Memory -------------------------------
(***************************************************************************)
(* The dynamic memory of METAFONT (mf.web, parts 10 and 11): one array mem *)
(* with variable-size nodes growing up from below and one-word nodes       *)
(* growing down from above.                                                *)
(*                                                                         *)
(* Only the link and info halves of a word matter here: link(p) flags an   *)
(* empty node and info(p) holds its size, and the second word holds the    *)
(* two ring pointers, so llink(p) IS info[p+1] and rlink(p) IS link[p+1].  *)
(*                                                                         *)
(* get_node is one step per pass through its loops.  The users of mem are  *)
(* the rest of the program: they own the nodes in the ghost variables      *)
(* `nodes' and `words', give each back at most once with the size they     *)
(* asked for, and write what they like in words they own, except that the  *)
(* first word of a node never has link = empty_flag (mf.web 3353-3359).    *)
(***************************************************************************)
EXTENDS Integers, FiniteSets

CONSTANTS
    lo_mem_stat_max,    \* last word of the static variable-size nodes
    mem_top,            \* last word INIMF uses
    mem_max,            \* last word of the array
    empty_flag,         \* max_halfword
    GrowBy,             \* 1000: the words the lower part grows by
    Sizes,              \* sizes the program asks get_node for
    MergeOnly           \* 2^30: the request that only merges

mem_min         == 0
null            == mem_min
sentinel        == mem_top
hi_mem_stat_min == mem_top - 2

ASSUME MemoryAssumption ==
    /\ lo_mem_stat_max \in Nat
    /\ mem_top \in Nat /\ mem_max \in Nat /\ empty_flag \in Nat
    /\ GrowBy \in Nat /\ GrowBy >= 2
    /\ lo_mem_stat_max + 1 + GrowBy < hi_mem_stat_min
    /\ mem_top <= mem_max /\ mem_max < empty_flag
    /\ Sizes \subseteq {s \in Nat : 2 <= s /\ s <= mem_max}
    /\ MergeOnly \in Nat /\ MergeOnly > 2 * mem_max

VARIABLES
    link, info,                     \* the two halves of every word
    lo_mem_max, hi_mem_min, mem_end, avail, rover,
    dyn_used, var_used,
    pc, p, q, s,                    \* where get_node is, and its locals
    nodes,                          \* ghost: first word -> size, of held nodes
    words,                          \* ghost: the held one-word nodes
    ring                            \* ghost: the empty nodes, from rover by rlink

heap   == <<link, info>>
bounds == <<lo_mem_max, hi_mem_min, mem_end>>
locals == <<p, q, s>>
vars   == <<link, info, lo_mem_max, hi_mem_min, mem_end, avail, rover,
            dyn_used, var_used, pc, p, q, s, nodes, words, ring>>

Word      == mem_min..mem_max
HalfWord  == 0..empty_flag
is_empty(x)  == link[x] = empty_flag
node_size(x) == info[x]
llink(x)     == info[x + 1]
rlink(x)     == link[x + 1]

Span(x, n) == x..(x + n - 1)
LowHeld    == UNION {Span(x, nodes[x]) : x \in DOMAIN nodes}
StaticLow  == mem_min..lo_mem_stat_max
StaticHigh == hi_mem_stat_min..mem_top

-----------------------------------------------------------------------------
Init ==
    LET r0 == lo_mem_stat_max + 1 IN
    /\ rover = r0 /\ lo_mem_max = r0 + GrowBy
    /\ link = [x \in Word |-> CASE x = r0     -> empty_flag
                                [] x = r0 + 1 -> r0
                                [] OTHER      -> null]
    /\ info = [x \in Word |-> CASE x = r0     -> GrowBy
                                [] x = r0 + 1 -> r0
                                [] OTHER      -> null]
    /\ avail = null /\ mem_end = mem_top /\ hi_mem_min = hi_mem_stat_min
    /\ var_used = lo_mem_stat_max + 1 - mem_min
    /\ dyn_used = mem_top + 1 - hi_mem_min
    /\ pc = "idle" /\ p = null /\ q = null /\ s = 0
    /\ nodes = [x \in {} |-> 0]
    /\ words = StaticHigh
    /\ ring = {r0}

-----------------------------------------------------------------------------
(* One-word memory.                                                        *)

\* The word a get_avail takes becomes the caller's, with a null link.
Take(x) ==
    /\ link' = [link EXCEPT ![x] = null]
    /\ dyn_used' = dyn_used + 1
    /\ words' = words \cup {x}

\* Both get_avail and the fast_get_avail macro pop the list when they can.
PopAvail ==
    /\ pc = "idle" /\ avail # null
    /\ avail' = link[avail] /\ Take(avail)
    /\ UNCHANGED <<info, bounds, rover, var_used, pc, locals, nodes, ring>>

VirginTop_OffByOne ==
    /\ pc = "idle" /\ avail = null /\ mem_end <= mem_max
    /\ mem_end' = mem_end + 1 /\ Take(mem_end + 1)
    /\ UNCHANGED <<info, lo_mem_max, hi_mem_min, avail, rover, var_used,
                   pc, locals, nodes, ring>>

VirginTop ==
    /\ pc = "idle" /\ avail = null /\ mem_end < mem_max
    /\ mem_end' = mem_end + 1 /\ Take(mem_end + 1)
    /\ UNCHANGED <<info, lo_mem_max, hi_mem_min, avail, rover, var_used,
                   pc, locals, nodes, ring>>

\* hi_mem_min is decremented before the test, also when it finds no room.
VirginBottom ==
    /\ pc = "idle" /\ avail = null /\ mem_end >= mem_max
    /\ hi_mem_min' = hi_mem_min - 1
    /\ IF hi_mem_min' <= lo_mem_max
       THEN pc' = "overflow" /\ UNCHANGED <<link, dyn_used, words>>
       ELSE Take(hi_mem_min') /\ UNCHANGED pc
    /\ UNCHANGED <<info, lo_mem_max, mem_end, avail, rover, var_used,
                   locals, nodes, ring>>

get_avail == PopAvail \/ VirginTop \/ VirginBottom

free_avail(x) ==
    /\ pc = "idle" /\ x \in words \ StaticHigh
    /\ link' = [link EXCEPT ![x] = avail] /\ avail' = x
    /\ dyn_used' = dyn_used - 1 /\ words' = words \ {x}
    /\ UNCHANGED <<info, bounds, rover, var_used, pc, locals, nodes, ring>>

-----------------------------------------------------------------------------
(* Variable-size memory.  While pc = "try", p is the empty node under      *)
(* inspection and q the end of the run of empty nodes that starts at p;    *)
(* the nodes between are off the ring but node_size(p) is not yet reset.   *)

get_node_SkipRover(n) ==
    /\ pc = "idle"
    /\ s' = n /\ p' = rlink(rover) /\ q' = p' + node_size(p') /\ pc' = "try"
    /\ UNCHANGED <<heap, bounds, avail, rover, dyn_used, var_used,
                   nodes, words, ring>>

get_node(n) ==
    /\ pc = "idle"
    /\ s' = n /\ p' = rover /\ q' = rover + node_size(rover) /\ pc' = "try"
    /\ UNCHANGED <<heap, bounds, avail, rover, dyn_used, var_used,
                   nodes, words, ring>>

RoverAfter_Stays(t) == rover
RoverAfter(t)       == IF q = rover THEN t ELSE rover

\* Take q off the ring: the words of q now belong to p.
MergeSuccessor ==
    LET t == rlink(q)  tt == llink(q) IN
    /\ pc = "try" /\ is_empty(q)
    /\ rover' = RoverAfter(t)
    /\ info' = [info EXCEPT ![t + 1] = tt]
    /\ link' = [link EXCEPT ![tt + 1] = t]
    /\ q' = q + info'[q]
    /\ ring' = ring \ {q}
    /\ UNCHANGED <<bounds, avail, dyn_used, var_used, pc, p, s, nodes, words>>

Return == pc' = "idle" /\ p' = null /\ q' = null /\ s' = 0

Found_Unmarked(r, l) ==
    /\ Return /\ link' = l /\ var_used' = var_used + s
    /\ nodes' = [x \in DOMAIN nodes \cup {r} |->
                    IF x = r THEN s ELSE nodes[x]]

\* found: with the links l, the new node r is the caller's.
Found(r, l) ==
    /\ Return
    /\ link' = [l EXCEPT ![r] = null]
    /\ var_used' = var_used + s
    /\ nodes' = [x \in DOMAIN nodes \cup {r} |->
                    IF x = r THEN s ELSE nodes[x]]

CanSplit_OneWord == q - s > p
CanSplit         == q - s > p + 1

AllocateFromTop ==
    LET r == q - s IN
    /\ pc = "try" /\ ~is_empty(q) /\ CanSplit
    /\ info' = [info EXCEPT ![p] = r - p]
    /\ rover' = p /\ Found(r, link)
    /\ UNCHANGED <<bounds, avail, dyn_used, words, ring>>

AllocateEntire ==
    LET t == llink(p) IN
    /\ pc = "try" /\ ~is_empty(q) /\ q - s = p /\ rlink(p) # p
    /\ rover' = rlink(p)
    /\ info' = [info EXCEPT ![rlink(p) + 1] = t]
    /\ ring' = ring \ {p} /\ Found(p, [link EXCEPT ![t + 1] = rlink(p)])
    /\ UNCHANGED <<bounds, avail, dyn_used, words>>

TooSmall == ~CanSplit /\ (q - s = p => rlink(p) = p)

\* Reset the size in case it grew and go on to the next node of the ring.
NextInRing ==
    /\ pc = "try" /\ ~is_empty(q) /\ TooSmall
    /\ info' = [info EXCEPT ![p] = q - p]
    /\ p' = rlink(p)
    /\ IF p' = rover THEN pc' = "full" /\ UNCHANGED q
                     ELSE q' = p' + info'[p'] /\ UNCHANGED pc
    /\ UNCHANGED <<link, bounds, avail, rover, dyn_used, var_used, s,
                   nodes, words, ring>>

MergedAll ==
    /\ pc = "full" /\ s = MergeOnly
    /\ Return
    /\ UNCHANGED <<heap, bounds, avail, rover, dyn_used, var_used,
                   nodes, words, ring>>

CanGrow_OnlyFull == lo_mem_max + GrowBy < hi_mem_min
CanGrow == lo_mem_max + 2 < hi_mem_min /\ lo_mem_max + 2 <= mem_min + empty_flag

\* Link a new node, from the old lo_mem_max up, into the ring; goto restart.
Grow ==
    LET room == hi_mem_min - lo_mem_max
        want == IF room >= 2 * GrowBy - 2 THEN lo_mem_max + GrowBy
                                          ELSE lo_mem_max + 1 + room \div 2
        t    == IF want > mem_min + empty_flag THEN mem_min + empty_flag
                                               ELSE want
        left == llink(rover)
        new  == lo_mem_max
    IN
    /\ pc = "full" /\ s # MergeOnly /\ CanGrow
    /\ link' = [link EXCEPT ![left + 1] = new, ![new + 1] = rover,
                            ![new] = empty_flag, ![t] = null]
    /\ info' = [info EXCEPT ![rover + 1] = new, ![new + 1] = left,
                            ![new] = t - lo_mem_max, ![t] = null]
    /\ lo_mem_max' = t /\ rover' = new /\ ring' = ring \cup {new}
    /\ p' = new /\ q' = t /\ pc' = "try"
    /\ UNCHANGED <<hi_mem_min, mem_end, avail, dyn_used, var_used, s,
                   nodes, words>>

NodeOverflow ==
    /\ pc = "full" /\ s # MergeOnly /\ ~CanGrow
    /\ pc' = "overflow"
    /\ UNCHANGED <<heap, bounds, avail, rover, dyn_used, var_used, locals,
                   nodes, words, ring>>

\* The program frees a node with the size it asked for; it goes just before
\* where rover points.
free_node(x) ==
    LET left == llink(rover) IN
    /\ pc = "idle" /\ x \in DOMAIN nodes
    /\ info' = [info EXCEPT ![x] = nodes[x], ![x + 1] = left, ![rover + 1] = x]
    /\ link' = [link EXCEPT ![x] = empty_flag, ![x + 1] = rover,
                            ![left + 1] = x]
    /\ var_used' = var_used - nodes[x]
    /\ nodes' = [y \in DOMAIN nodes \ {x} |-> nodes[y]]
    /\ ring' = ring \cup {x}
    /\ UNCHANGED <<bounds, avail, rover, dyn_used, pc, locals, words>>

-----------------------------------------------------------------------------
(* The users.  The worst a user may leave in words it owns: a later word   *)
(* of a node that looks like the head of an empty node.                    *)

UseNode(x) ==
    /\ pc = "idle" /\ x \in DOMAIN nodes
    /\ link' = [y \in Word |-> IF y \in Span(x + 1, nodes[x] - 1)
                               THEN empty_flag ELSE link[y]]
    /\ UNCHANGED <<info, bounds, avail, rover, dyn_used, var_used, pc,
                   locals, nodes, words, ring>>

NodeSteps ==
    \/ MergeSuccessor \/ AllocateFromTop \/ AllocateEntire \/ NextInRing
    \/ MergedAll \/ Grow \/ NodeOverflow

Requests ==
    \/ get_avail
    \/ \E x \in words : free_avail(x)
    \/ \E n \in Sizes \cup {MergeOnly} : get_node(n)
    \/ \E x \in DOMAIN nodes : free_node(x)

Use == \E x \in DOMAIN nodes : UseNode(x)

Next == NodeSteps \/ Requests \/ Use

Spec == Init /\ [][Next]_vars

\* The program is sequential: once called, get_node runs to its end.
FairSpec == Spec /\ WF_vars(NodeSteps)

-----------------------------------------------------------------------------
(* Properties.                                                             *)

\* Every variable holds a value of its type.
TypeOK ==
    /\ link \in [Word -> HalfWord] /\ info \in [Word -> HalfWord]
    /\ {lo_mem_max, hi_mem_min, mem_end, avail, rover} \subseteq Word
    /\ dyn_used \in Int /\ var_used \in Int
    /\ pc \in {"idle", "try", "full", "overflow"}
    /\ p \in Word /\ q \in Word /\ s \in Sizes \cup {0, MergeOnly}
    /\ pc \in {"try", "full"} => s # 0
    /\ DOMAIN nodes \subseteq Word /\ \A x \in DOMAIN nodes : nodes[x] \in Sizes
    /\ words \subseteq Word /\ ring \subseteq Word

\* The prescribed order of the key pointers (mf.web 3261-3262); a one-word
\* request that finds no room is the only thing that may close the gap.
Ordered ==
    /\ lo_mem_stat_max < lo_mem_max
    /\ mem_top <= mem_end /\ mem_end <= mem_max
    /\ hi_mem_min <= hi_mem_stat_min
    /\ pc # "overflow" => lo_mem_max < hi_mem_min

\* The nodes of the lower part, by their first words; the empty node under
\* inspection has grown to q, although node_size(p) does not say so yet.
Node      == ring \cup DOMAIN nodes
SizeOf(x) == IF x \notin ring THEN nodes[x]
             ELSE IF pc = "try" /\ x = p THEN q - p ELSE node_size(x)
End(x)    == x + SizeOf(x)

\* Empty and held nodes tile the words between the static ones and
\* lo_mem_max, however nodes were split, merged and grown: no word is in two
\* nodes, and none is lost.
Tiled ==
    /\ ring \cap DOMAIN nodes = {}
    /\ lo_mem_stat_max + 1 \in Node
    /\ \A x \in Node : /\ lo_mem_stat_max < x /\ SizeOf(x) >= 2
                       /\ End(x) <= lo_mem_max
                       /\ End(x) \in Node \cup {lo_mem_max}
    /\ \A x, y \in Node : x < y => End(x) <= y

\* The empty nodes are one circular list, doubly linked (what check_mem
\* verifies, mf.web 3631-3653), also in the middle of a merge: only the
\* whole ring is closed under rlink.
RingOK ==
    /\ rover \in ring /\ (pc = "try" => p \in ring)
    /\ \A x \in ring : /\ llink(x) \in ring /\ rlink(llink(x)) = x
                       /\ rlink(x) \in ring /\ llink(rlink(x)) = x
    /\ \A S \in SUBSET ring :
          S # {} /\ (\A x \in S : rlink(x) \in S) => S = ring

\* The empty flag tells empty nodes from held ones and from the word at
\* lo_mem_max that stops a merge (check_mem's "Bad flag", 3655-3665); a held
\* node may contain the flag in any word but its first.
FlagsOK ==
    /\ \A x \in ring : is_empty(x)
    /\ \A x \in DOMAIN nodes : ~is_empty(x)
    /\ ~is_empty(lo_mem_max)

\* The avail list holds each one-word location that nobody holds, once:
\* it is a chain without repetition and everything free is on it.
FreeWords == (hi_mem_min..mem_end) \ words

AvailOK ==
    /\ words \subseteq hi_mem_min..mem_end /\ StaticHigh \subseteq words
    /\ pc # "overflow" =>
        /\ avail \in FreeWords \cup {null}
        /\ \A x \in FreeWords :
              /\ link[x] \in FreeWords \cup {null}
              /\ link[x] # avail
              /\ \A y \in FreeWords : link[x] = link[y] /\ x # y => link[x] = null
        /\ \A S \in SUBSET FreeWords :
              /\ avail \in S \cup {null}
              /\ \A x \in S : link[x] \in S \cup {null}
              => S = FreeWords

\* The heap is sound at every step of every request: the key pointers are in
\* order, the nodes tile the lower part, the ring and the avail list are whole.
HeapIntact == Ordered /\ Tiled /\ RingOK /\ FlagsOK /\ AvailOK

\* The statistics count what is held: nothing leaks and nothing is freed
\* twice or with a size other than its own.
SizesBelow[y \in 0..mem_max + 1] ==    \* of the held nodes that begin below y
    IF y = 0 THEN 0
    ELSE SizesBelow[y - 1] + (IF y - 1 \in DOMAIN nodes THEN nodes[y - 1] ELSE 0)

Accounting ==
    /\ dyn_used = Cardinality(words)
    /\ var_used = lo_mem_stat_max + 1 + SizesBelow[mem_max + 1]

\* After a whole tour of the ring no two empty nodes are adjacent, although
\* rover itself moves while the tour goes on and ends it.
Merged ==
    pc = "full" => \A x, y \in ring : x + node_size(x) # y

\* The stop for lack of memory is taken only when no empty node, merged with
\* its neighbours, could have served and the two regions cannot approach.
OverflowJustified ==
    pc = "overflow" /\ s \in Sizes =>
        /\ hi_mem_min - lo_mem_max <= 2
        /\ \A x \in ring : /\ node_size(x) # s + 1 => node_size(x) <= s
                           /\ node_size(x) = s => ring = {x}

\* No operation writes in a word of a node that stays held, except its
\* holder: merging, splitting and relinking touch empty nodes only.
HeldUntouched ==
    [][\A x \in DOMAIN nodes :
          x \in DOMAIN nodes' /\ ~UseNode(x) =>
             \A y \in Span(x, nodes[x]) :
                link'[y] = link[y] /\ info'[y] = info[y]]_vars

\* A call of get_node ends: it returns or takes the overflow stop.
GetNodeEnds == pc = "try" ~> pc \in {"idle", "overflow"}

\* mem implements the abstract storage.
Store == INSTANCE Storage WITH
    Location  <- Word,
    Fixed     <- StaticLow \cup StaticHigh,
    NodeSizes <- Sizes,
    held      <- nodes,
    single    <- words \ StaticHigh,
    stopped   <- pc = "overflow"

StoreSpec == Store!Spec
=============================================================================
