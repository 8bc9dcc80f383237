----------------------------- MODULE ByteStream -----------------------------
(***************************************************************************)
(* What the output buffer of the GF file promises: the bytes reach the     *)
(* file in the order they were put out, none twice and none left out, and  *)
(* a file that is closed holds them all.  Bytes are numbered from 0.       *)
(***************************************************************************)
EXTENDS Integers

CONSTANT Byte

VARIABLES
    count, out,     \* the bytes put out so far: out[0..count-1]
    sent,           \* how many of them are in the file
    status          \* "open", "closed", or "exited" by an error of fwrite

sVars == <<count, out, sent, status>>

Bytes(n) == [0..n - 1 -> Byte]

SInit == count = 0 /\ out \in Bytes(0) /\ sent = 0 /\ status = "open"

Out ==
    /\ status = "open" /\ status' \in {"open", "exited"}
    /\ count' = count + 1
    /\ out' \in Bytes(count') /\ \A j \in 0..count - 1 : out'[j] = out[j]
    /\ sent' \in sent..count'

Close ==
    /\ status = "open" /\ status' = "closed"
    /\ UNCHANGED <<count, out>>
    /\ sent' = count

\* An error when the last bytes are written.
Exit ==
    /\ status = "open" /\ status' = "exited"
    /\ UNCHANGED <<count, out>>
    /\ sent' \in sent..count

SNext == Out \/ Close \/ Exit

SSpec == SInit /\ [][SNext]_sVars
=============================================================================
