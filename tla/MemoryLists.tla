----------------------------- MODULE MemoryLists ----------------------------
(***************************************************************************)
(* The linked lists the program keeps in mem and gives back as a whole:    *)
(* flush_list walks a list of one-word nodes and puts it in front of the   *)
(* avail list in one splice, flush_node_list frees a list that mixes       *)
(* one-word and two-word nodes one by one (mf.web 3554-3575).              *)
(*                                                                         *)
(* The program's part: its lists do not share nodes, do not run in a       *)
(* circle, and end at null or at sentinel.                                 *)
(***************************************************************************)
EXTENDS Memory

VARIABLES
    call,           \* the flush in progress, or "none"
    h, a, b         \* p, q and r of flush_list; h is p of flush_node_list

listVars == <<call, h, a, b>>
allVars  == <<vars, listVars>>

ListInit ==
    /\ Init
    /\ call = "none" /\ h = null /\ a = null /\ b = null

Free == words \ StaticHigh                      \* words the program may free
Member == Free \cup {x \in DOMAIN nodes : nodes[x] = 2}

\* The nodes of the list that starts at x, of which it has no more than words.
ListFrom[n \in 0..mem_max] ==
    [x \in Word |-> IF x \notin Member \/ n = 0 THEN {}
                    ELSE {x} \cup ListFrom[n - 1][link[x]]]
List(x) == ListFrom[mem_max][x]

Pointed(y) == \E x \in Member : link[x] = y

-----------------------------------------------------------------------------
Run == call = "none" /\ Next /\ UNCHANGED listVars
\* The routine lets go of a node only when nothing is linked to or from it.
Loose == \A x \in Member : x \in DOMAIN nodes' \cup words' \/
                           (~Pointed(x) /\ link[x] = null)

\* The program appends y to the list that ends at x, or ends it at sentinel.
Append(x, y) ==
    /\ call = "none" /\ pc = "idle"
    /\ x \in Member /\ link[x] = null
    /\ \/ y = sentinel
       \/ y \in Member /\ ~Pointed(y) /\ x \notin List(y)
    /\ link' = [link EXCEPT ![x] = y]
    /\ UNCHANGED <<info, bounds, avail, rover, dyn_used, var_used, pc, locals,
                   nodes, words, ring, listVars>>

-----------------------------------------------------------------------------
\* The list's owner: nothing else points to it.
FlushList(x) ==
    /\ call = "none" /\ pc = "idle" /\ ~Pointed(x)
    /\ x \in Member \cup {null, sentinel}
    /\ IF x >= hi_mem_min /\ x # sentinel
       THEN call' = "flush_list" /\ h' = x /\ b' = x /\ UNCHANGED a
       ELSE UNCHANGED listVars
    /\ UNCHANGED vars

\* repeat q:=r; r:=link(r); ... until r is no one-word node, or sentinel
FlushOne ==
    /\ call = "flush_list"
    /\ a' = b /\ b' = link[b] /\ dyn_used' = dyn_used - 1
    /\ words' = words \ {b}
    /\ call' = IF b' < hi_mem_min \/ b' = sentinel THEN "splice" ELSE call
    /\ UNCHANGED <<heap, bounds, avail, rover, var_used, pc, locals, nodes,
                   ring, h>>

Splice_Drops ==                     \* the list as it was is forgotten
    /\ call = "splice" /\ avail' = h
    /\ call' = "none" /\ h' = null /\ a' = null /\ b' = null
    /\ UNCHANGED <<heap, bounds, rover, dyn_used, var_used, pc, locals, nodes,
                   words, ring>>

\* done: the whole list goes in front of avail.
Splice ==
    /\ call = "splice"
    /\ link' = [link EXCEPT ![a] = avail] /\ avail' = h
    /\ call' = "none" /\ h' = null /\ a' = null /\ b' = null
    /\ UNCHANGED <<info, bounds, rover, dyn_used, var_used, pc, locals, nodes,
                   words, ring>>

-----------------------------------------------------------------------------
FlushNodeList(x) ==
    /\ call = "none" /\ pc = "idle" /\ ~Pointed(x)
    /\ x \in Member /\ \A y \in List(x) : link[y] # sentinel
    /\ call' = "flush_node_list" /\ h' = x
    /\ UNCHANGED <<vars, a, b>>

More_UntilSentinel == call = "flush_node_list" /\ h # sentinel
More               == call = "flush_node_list" /\ h # null

FlushNode_ReadAfterFree ==
    /\ More
    /\ IF h < hi_mem_min THEN free_node(h) ELSE free_avail(h)
    /\ h' = link'[h]
    /\ UNCHANGED <<call, a, b>>

\* The successor is read before the node is freed and its link overwritten.
FlushNode ==
    /\ More
    /\ h' = link[h]
    /\ IF h < hi_mem_min THEN free_node(h) ELSE free_avail(h)
    /\ UNCHANGED <<call, a, b>>

FlushNodesDone ==
    /\ call = "flush_node_list" /\ ~More
    /\ call' = "none" /\ UNCHANGED <<vars, h, a, b>>

Flushing == FlushOne \/ Splice \/ FlushNode \/ FlushNodesDone

ListNext ==
    \/ Run /\ Loose
    \/ \E x, y \in Word : Append(x, y)
    \/ \E x \in Word : FlushList(x) \/ FlushNodeList(x)
    \/ Flushing

ListSpec == ListInit /\ [][ListNext]_allVars /\ WF_allVars(Flushing)

-----------------------------------------------------------------------------
(* Properties.                                                             *)

\* The routines find what they need at each step of a flush.
ListTypeOK ==
    /\ TypeOK /\ {h, a, b} \subseteq Word
    /\ call \in {"none", "flush_list", "splice", "flush_node_list"}

\* When no flush is going on the heap is intact: splicing a whole list leaves
\* the avail list a chain without repetition of exactly the free words, whatever
\* ended the flushed list; and freeing node by node leaves the ring whole; every
\* node is counted as freed once.  While one is, what is left of the list is
\* still held, in spite of what the nodes freed before it were overwritten with,
\* and no one-word node of a flushed list is left behind when the rest is
\* spliced.
ListsSound ==
    /\ ListTypeOK
    /\ call = "none" => HeapIntact /\ Accounting
    /\ call = "flush_node_list" =>
          /\ h \in Member \cup {null}
          /\ \A y \in List(h) : link[y] \in Member \cup {null}
    /\ call = "splice" => link[a] \notin Free

\* A flush ends.
FlushEnds == call # "none" ~> call = "none"
=============================================================================
