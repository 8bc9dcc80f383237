------------------------------ MODULE BaseFile ------------------------------
(***************************************************************************)
(* Dumping the dynamic memory to a base file and loading it again (mf.web, *)
(* parts 10 and 48).  INIMF runs on Memory, then sort_avail puts the ring  *)
(* in order, the words that are not inside an empty node are written, and  *)
(* a later job reads them into a fresh, uninitialised array.               *)
(* One word of the file stands for the pair <<link, info>>.                *)
(***************************************************************************)
EXTENDS Memory

CONSTANTS
    Garbage,        \* what the words of a fresh array may hold
    MaxRing         \* a bound: INIMF asks for nodes while there are no more empty ones

VARIABLES
    stage,      \* what store_base_file or load_base_file is doing
    u, v,       \* p and q of sort_avail, of the dump and of the undump
    old_rover,
    file        \* the base file: its integers and the words written so far

fileVars == <<stage, u, v, old_rover, file>>
dumpVars == <<vars, fileVars>>

\* INIMF, which dumps, has no words above mem_top (mf.web 3159); the job that
\* loads has as many here.
ASSUME BaseFileAssumption == Garbage \subseteq HalfWord /\ mem_max = mem_top

NoFile == [lo |-> 0, rover |-> 0, hi |-> 0, avail |-> 0, used |-> 0,
           dyn |-> 0, cells |-> [x \in {} |-> 0], count |-> 0]

FileInit ==
    /\ Init
    /\ stage = "run" /\ u = null /\ v = null /\ old_rover = null /\ file = NoFile

\* The program runs, up to the dump.  What it writes in the nodes it holds is
\* copied like any other word.
RunInimf ==
    /\ stage \in {"run", "merge"}
    /\ \/ NodeSteps
       \/ stage = "run" /\ Requests /\ (pc' = "try" => Cardinality(ring) <= MaxRing)
    /\ UNCHANGED fileVars

-----------------------------------------------------------------------------
(* sort_avail: a merge of all adjacent empty nodes, then insertion sort of *)
(* the list that starts at rover and ends with max_halfword.               *)

StoreBaseFile ==
    /\ stage = "run" /\ get_node(MergeOnly)
    /\ stage' = "merge"
    /\ UNCHANGED <<u, v, old_rover, file>>

CutRing_NoEnd ==                    \* no max_halfword at the end
    /\ stage = "merge" /\ pc = "idle"
    /\ u' = rlink(rover) /\ old_rover' = rover /\ stage' = "sort"
    /\ UNCHANGED <<heap, bounds, avail, rover, dyn_used, var_used, pc, locals,
                   nodes, words, ring, v, file>>

\* The ring becomes a one-node sorted list; u is the next node to insert.
CutRing ==
    /\ stage = "merge" /\ pc = "idle"
    /\ u' = rlink(rover) /\ old_rover' = rover
    /\ link' = [link EXCEPT ![rover + 1] = empty_flag]
    /\ stage' = "sort"
    /\ UNCHANGED <<info, bounds, avail, rover, dyn_used, var_used, pc, locals,
                   nodes, words, ring, v, file>>

InsertInFront ==
    /\ stage = "sort" /\ u # old_rover /\ u < rover
    /\ v' = u /\ u' = rlink(u)
    /\ link' = [link EXCEPT ![u + 1] = rover] /\ rover' = u
    /\ UNCHANGED <<info, bounds, avail, dyn_used, var_used, pc, locals, nodes,
                   words, ring, stage, old_rover, file>>

FindPlace ==
    /\ stage = "sort" /\ u # old_rover /\ u >= rover
    /\ v' = rover /\ stage' = "walk"
    /\ UNCHANGED <<vars, u, old_rover, file>>

Walk ==
    /\ stage = "walk" /\ rlink(v) < u
    /\ v' = rlink(v)
    /\ UNCHANGED <<vars, stage, u, old_rover, file>>

InsertAfter_NoWalk ==                \* u goes where the list starts
    /\ stage = "walk"
    /\ link' = [link EXCEPT ![u + 1] = rlink(rover), ![rover + 1] = u]
    /\ u' = rlink(u) /\ stage' = "sort"
    /\ UNCHANGED <<info, bounds, avail, rover, dyn_used, var_used, pc, locals,
                   nodes, words, ring, v, old_rover, file>>

InsertAfter ==
    /\ stage = "walk" /\ rlink(v) >= u
    /\ link' = [link EXCEPT ![u + 1] = rlink(v), ![v + 1] = u]
    /\ u' = rlink(u) /\ stage' = "sort"
    /\ UNCHANGED <<info, bounds, avail, rover, dyn_used, var_used, pc, locals,
                   nodes, words, ring, v, old_rover, file>>

StartRelink ==
    /\ stage = "sort" /\ u = old_rover
    /\ u' = rover /\ stage' = "relink"
    /\ UNCHANGED <<vars, v, old_rover, file>>

Relink ==
    /\ stage = "relink" /\ rlink(u) # empty_flag
    /\ info' = [info EXCEPT ![rlink(u) + 1] = u]
    /\ u' = rlink(u)
    /\ UNCHANGED <<link, bounds, avail, rover, dyn_used, var_used, pc, locals,
                   nodes, words, ring, stage, v, old_rover, file>>

\* Close the ring; the dump of the memory begins.
CloseRing ==
    /\ stage = "relink" /\ rlink(u) = empty_flag
    /\ link' = [link EXCEPT ![u + 1] = rover]
    /\ info' = [info EXCEPT ![rover + 1] = u]
    /\ var_used' = 0
    /\ file' = [NoFile EXCEPT !.lo = lo_mem_max, !.rover = rover]
    /\ u' = mem_min /\ v' = rover /\ stage' = "dump"
    /\ UNCHANGED <<bounds, avail, rover, dyn_used, pc, locals, nodes, words,
                   ring, old_rover>>

-----------------------------------------------------------------------------
Put_OneTooMany(f, a, b) ==
    [f EXCEPT !.cells = [x \in DOMAIN f.cells \cup a..b |->
                            IF x \in a..b THEN <<link[x], info[x]>>
                                          ELSE f.cells[x]],
              !.count = @ + (b + 2 - a)]

\* The file with the words from a to b appended.
Put(f, a, b) ==
    [f EXCEPT !.cells = [x \in DOMAIN f.cells \cup a..b |->
                            IF x \in a..b THEN <<link[x], info[x]>>
                                          ELSE f.cells[x]],
              !.count = @ + (b + 1 - a)]

\* Everything from the end of one empty node to the links of the next.
DumpNode ==
    LET f == Put(file, u, v + 1) IN
    /\ stage = "dump"
    /\ var_used' = var_used + v - u
    /\ u' = v + node_size(v) /\ v' = rlink(v)
    /\ IF v' = rover THEN stage' = "rest" ELSE UNCHANGED stage
    /\ file' = f
    /\ UNCHANGED <<heap, bounds, avail, rover, dyn_used, pc, locals, nodes,
                   words, ring, old_rover>>

\* The words counted from each word on along link, at most k of them.
AvailFrom[k \in 0..mem_max] ==
    [x \in Word |-> IF x = null \/ k = 0 THEN 0 ELSE 1 + AvailFrom[k - 1][link[x]]]

\* dyn_used: the one-word locations less those on the avail list.
LiveAbove == mem_end + 1 - hi_mem_min - AvailFrom[mem_max][avail]

\* The rest of the lower part, the upper part, and the recounted statistics.
DumpRest ==
    LET used == var_used + lo_mem_max - u IN
    /\ stage = "rest"
    /\ var_used' = used /\ dyn_used' = LiveAbove
    /\ file' = [Put(Put(file, u, lo_mem_max), hi_mem_min, mem_end)
                  EXCEPT !.hi = hi_mem_min, !.avail = avail,
                         !.used = used, !.dyn = LiveAbove]
    /\ stage' = "stored"
    /\ UNCHANGED <<heap, bounds, avail, rover, pc, locals, nodes, words, ring,
                   u, v, old_rover>>

-----------------------------------------------------------------------------
(* Another job: mem is a fresh array, and every number read is checked.    *)

OffBase == stage' = "off_base" /\ UNCHANGED <<vars, u, v, old_rover, file>>

UndumpBounds ==
    /\ stage = "stored"
    /\ IF \/ file.lo \notin (lo_mem_stat_max + GrowBy)..(hi_mem_stat_min - 1)
          \/ file.rover \notin (lo_mem_stat_max + 1)..file.lo
       THEN OffBase
       ELSE /\ \E a, b \in Garbage :
                 /\ link' = [x \in Word |-> a] /\ info' = [x \in Word |-> b]
            /\ lo_mem_max' = file.lo /\ rover' = file.rover
            /\ u' = mem_min /\ v' = file.rover /\ stage' = "undump"
            /\ UNCHANGED <<hi_mem_min, mem_end, avail, dyn_used, var_used, pc,
                           locals, nodes, words, ring, old_rover, file>>

Get_ShortByOne(a, b) ==
    /\ link' = [x \in Word |-> IF x \in a..b THEN file.cells[x][1] ELSE link[x]]
    /\ info' = [x \in Word |-> IF x \in a..b-1 THEN file.cells[x][2]
                                              ELSE info[x]]

\* Read the words from a to b back.
Get(a, b) ==
    /\ link' = [x \in Word |-> IF x \in a..b THEN file.cells[x][1] ELSE link[x]]
    /\ info' = [x \in Word |-> IF x \in a..b THEN file.cells[x][2] ELSE info[x]]

UndumpNode ==
    /\ stage = "undump"
    /\ Get(u, v + 1)
    /\ LET next == link'[v + 1]  end == v + info'[v] IN
         IF end > lo_mem_max \/ (v >= next /\ next # rover)
         THEN stage' = "off_base" /\ UNCHANGED <<u, v>>
         ELSE /\ u' = end /\ v' = next
              /\ stage' = IF next = rover THEN "unrest" ELSE stage
    /\ UNCHANGED <<bounds, avail, rover, dyn_used, var_used, pc, locals, nodes,
                   words, ring, old_rover, file>>

UndumpRest ==
    /\ stage = "unrest"
    /\ IF \/ file.hi \notin (lo_mem_max + 1)..hi_mem_stat_min
          \/ file.avail \notin null..mem_top
       THEN OffBase
       ELSE /\ link' = [x \in Word |-> IF x \in u..lo_mem_max \cup file.hi..mem_top
                                       THEN file.cells[x][1] ELSE link[x]]
            /\ info' = [x \in Word |-> IF x \in u..lo_mem_max \cup file.hi..mem_top
                                       THEN file.cells[x][2] ELSE info[x]]
            /\ hi_mem_min' = file.hi /\ avail' = file.avail /\ mem_end' = mem_top
            /\ var_used' = file.used /\ dyn_used' = file.dyn
            /\ stage' = "loaded" /\ file' = NoFile
            /\ u' = null /\ v' = null /\ old_rover' = null
            /\ UNCHANGED <<lo_mem_max, rover, pc, locals, nodes, words, ring>>

FileNext ==
    \/ RunInimf \/ StoreBaseFile \/ CutRing \/ InsertInFront \/ FindPlace \/ Walk
    \/ InsertAfter \/ StartRelink \/ Relink \/ CloseRing \/ DumpNode
    \/ DumpRest \/ UndumpBounds \/ UndumpNode \/ UndumpRest

FileSpec == FileInit /\ [][FileNext]_dumpVars

-----------------------------------------------------------------------------
(* Properties.                                                             *)

Idle == pc = "idle"

FileTypeOK ==
    /\ TypeOK
    /\ stage \in {"run", "merge", "sort", "walk", "relink", "dump", "rest",
                  "stored", "undump", "unrest", "loaded", "off_base"}
    /\ {u, v, old_rover} \subseteq Word
    /\ DOMAIN file.cells \subseteq Word

\* The nodes met from a node on along rlink, before y; no list is longer.
Upto(y) ==
    LET from[k \in 0..mem_max] ==
            [x \in HalfWord |-> IF x = y \/ k = 0 THEN {}
                               ELSE {x} \cup from[k - 1][rlink(x)]]
    IN  from[mem_max]

\* While sort_avail works, the list from rover is in increasing order and ends
\* at max_halfword, so that the insertion stops at the latest there, and it and
\* the nodes still to be inserted are the ring, none lost and none in both.
InsertionSorts ==
    LET sorted  == Upto(empty_flag)[rover]
        pending == IF stage = "relink" THEN {} ELSE Upto(old_rover)[u]
    IN  stage \in {"sort", "walk", "relink"} =>
            /\ sorted \cup pending = ring /\ sorted \cap pending = {}
            /\ \A x \in sorted : x < rlink(x)
            /\ stage = "walk" => u \in pending /\ v \in sorted /\ v < u

\* While the dump walks it, the ring is circular in increasing order from
\* rover, doubly linked, complete, and no two of its nodes are adjacent.
SortedRing ==
    stage \in {"dump", "rest", "stored"} =>
        /\ RingOK
        /\ \A x \in ring : /\ rover <= x
                           /\ rlink(x) = rover \/ x + node_size(x) < rlink(x)

\* A heap that was dumped and loaded, with garbage in all words the file does
\* not hold, is as sound for the job that starts from it as the original one:
\* what it does from there on keeps it so (MemoryProofs, StepHolds).  No heap
\* that INIMF can have is refused by load_base_file ("off_base"), and the
\* recount of the statistics at the dump (mf.web 22695-22711) agrees with what
\* get_node, free_node and the one-word routines had counted.
HeapSound ==
    /\ FileTypeOK /\ SortedRing /\ stage # "off_base"
    /\ stage \in {"run", "loaded"} => HeapIntact
    /\ stage \in {"run", "stored", "loaded"} => Accounting

\* The dump is smaller than mem: words inside empty nodes are not written.
OnlyLiveWords ==
    stage = "stored" =>
        /\ file.count = Cardinality(DOMAIN file.cells)
        /\ DOMAIN file.cells =
              (0..lo_mem_max \ UNION {Span(x + 2, node_size(x) - 2) : x \in ring})
              \cup hi_mem_min..mem_end

=============================================================================
