------------------------------ MODULE Storage -------------------------------
(***************************************************************************)
(* What the dynamic memory promises the rest of METAFONT: a request is     *)
(* answered with locations of mem that nobody holds, held ones stay held   *)
(* until their holder frees them, and the program may stop for lack of     *)
(* room.  No free lists, no boundary between the two kinds of node.        *)
(***************************************************************************)
EXTENDS Integers

CONSTANTS
    Location,       \* the words of mem
    Fixed,          \* the statically allocated ones, never handed out
    NodeSizes       \* sizes of variable-size nodes

VARIABLES
    held,           \* first location -> size of every held node
    single,         \* held one-word nodes
    stopped         \* the overflow stop was taken

Words(x, n) == x..(x + n - 1)
Busy == Fixed \cup single \cup UNION {Words(x, held[x]) : x \in DOMAIN held}

Init ==
    /\ held = [x \in {} |-> 0]
    /\ single = {}
    /\ stopped = FALSE

GetNode(x, n) ==
    /\ ~stopped
    /\ Words(x, n) \subseteq Location
    /\ Words(x, n) \cap Busy = {}
    /\ held' = [y \in DOMAIN held \cup {x} |-> IF y = x THEN n ELSE held[y]]
    /\ UNCHANGED <<single, stopped>>

FreeNode(x) ==
    /\ ~stopped
    /\ held' = [y \in DOMAIN held \ {x} |-> held[y]]
    /\ UNCHANGED <<single, stopped>>

GetWord(x) ==
    /\ ~stopped /\ x \in Location \ Busy
    /\ single' = single \cup {x}
    /\ UNCHANGED <<held, stopped>>

FreeWord(x) ==
    /\ ~stopped
    /\ single' = single \ {x}
    /\ UNCHANGED <<held, stopped>>

Stop ==
    /\ ~stopped /\ stopped' = TRUE
    /\ UNCHANGED <<held, single>>

Next ==
    \/ \E x \in Location, n \in NodeSizes : GetNode(x, n)
    \/ \E x \in DOMAIN held : FreeNode(x)
    \/ \E x \in Location : GetWord(x)
    \/ \E x \in single : FreeWord(x)
    \/ Stop

Spec == Init /\ [][Next]_<<held, single, stopped>>
=============================================================================
