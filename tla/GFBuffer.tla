------------------------------ MODULE GFBuffer ------------------------------
(***************************************************************************)
(* The output buffer of the GF file (mf.web 22111-22177, 22506-22515):     *)
(* gf_out puts bytes into a buffer of two halves; when one is full the     *)
(* other, older one is written out to make room.  The last step of the     *)
(* job pads the file and writes what is left.                              *)
(***************************************************************************)
EXTENDS Integers

CONSTANTS
    half_buf,       \* half of gf_buf_size, a multiple of 4
    Byte,           \* the bytes the program puts out
    Pad,            \* 223, the signature at the end of the file
    MaxBytes        \* bound: bytes put out before the end of the job

ASSUME GFBufferAssumption ==
    /\ half_buf \in Nat \ {0} /\ half_buf % 4 = 0
    /\ Pad \in Byte
    /\ MaxBytes \in Nat

gf_buf_size == 2 * half_buf
gf_index == 0..gf_buf_size - 1

VARIABLES
    gf_buf, gf_ptr, gf_limit, gf_offset,
    gf_file, sent,      \* gf_file[0..sent-1]: the bytes written
    status,             \* "open", "closed", or "exited" (fwrite failed)
    k                   \* 223's still to go; -1 before the end of the job

bufVars == <<gf_buf, gf_ptr, gf_limit, gf_offset>>
vars == <<bufVars, gf_file, sent, status, k>>

\* fwrite takes buf[a..a+n-1].
Write(buf, a, n) ==
    /\ sent' = sent + n
    /\ gf_file' = [j \in 0..sent + n - 1 |->
                       IF j < sent THEN gf_file[j] ELSE buf[a + j - sent]]

-----------------------------------------------------------------------------
\* xmalloc leaves gf_buf as it is.
Init ==
    /\ gf_buf \in [gf_index -> Byte]
    /\ gf_ptr = 0 /\ gf_limit = gf_buf_size /\ gf_offset = 0
    /\ gf_file \in [0..-1 -> Byte] /\ sent = 0
    /\ status = "open" /\ k = -1

\* gf_out when it does not reach the limit.
Store(byte) ==
    /\ gf_ptr + 1 # gf_limit
    /\ gf_buf' = [gf_buf EXCEPT ![gf_ptr] = byte]
    /\ gf_ptr' = gf_ptr + 1
    /\ UNCHANGED <<gf_limit, gf_offset, gf_file, sent, status>>

gf_swap_NoOffset ==                 \* gf_offset not moved
    IF gf_limit = gf_buf_size
    THEN /\ Write(gf_buf', 0, half_buf)
         /\ gf_limit' = half_buf
         /\ gf_ptr' = 0
         /\ UNCHANGED gf_offset
    ELSE /\ Write(gf_buf', half_buf, half_buf)
         /\ gf_limit' = gf_buf_size
         /\ gf_ptr' = gf_ptr + 1
         /\ UNCHANGED gf_offset

\* The half that is about to be invaded next is written.
gf_swap ==
    IF gf_limit = gf_buf_size
    THEN /\ Write(gf_buf', 0, half_buf)
         /\ gf_limit' = half_buf
         /\ gf_offset' = gf_offset + gf_buf_size
         /\ gf_ptr' = 0
    ELSE /\ Write(gf_buf', half_buf, half_buf)
         /\ gf_limit' = gf_buf_size
         /\ gf_ptr' = gf_ptr + 1
         /\ UNCHANGED gf_offset

Swap(byte) ==
    /\ gf_ptr + 1 = gf_limit
    /\ gf_buf' = [gf_buf EXCEPT ![gf_ptr] = byte]
    /\ gf_swap
    /\ UNCHANGED status

\* WRITE_OUT stops the program when fwrite takes n bytes only.
SwapFails(byte, n) ==
    /\ gf_ptr + 1 = gf_limit
    /\ gf_buf' = [gf_buf EXCEPT ![gf_ptr] = byte]
    /\ gf_ptr' = gf_ptr + 1
    /\ Write(gf_buf', IF gf_limit = gf_buf_size THEN 0 ELSE half_buf, n)
    /\ status' = "exited"
    /\ UNCHANGED <<gf_limit, gf_offset>>

gf_out(byte) ==
    /\ status = "open"
    /\ \/ Store(byte) \/ Swap(byte)
       \/ \E n \in 0..half_buf - 1 : SwapFails(byte, n)

\* Some byte of the preamble, a character, a special or the postamble.
OutByte == k = -1 /\ gf_offset + gf_ptr < MaxBytes /\ UNCHANGED k /\ \E c \in Byte : gf_out(c)

Padding_Ahead ==                    \* the bytes put out, not the missing ones
    4 + (gf_ptr % 4)
Padding == 4 + ((gf_buf_size - gf_ptr) % 4)

EndJob ==
    /\ k = -1 /\ status = "open"
    /\ k' = Padding
    /\ UNCHANGED <<bufVars, gf_file, sent, status>>

PadByte == k > 0 /\ k' = k - 1 /\ gf_out(Pad)

\* write_gf(half_buf,gf_buf_size-1), if the second half is the older one, and
\* write_gf(0,gf_ptr-1).
LastSlot_First(j) == j              \* the older half not written first
Rest == IF gf_limit = half_buf THEN half_buf + gf_ptr ELSE gf_ptr
LastSlot(j) ==
    IF gf_limit = gf_buf_size THEN j
    ELSE IF j < half_buf THEN half_buf + j ELSE j - half_buf

WriteRest(n) ==
    /\ sent' = sent + n
    /\ gf_file' = [j \in 0..sent + n - 1 |->
                       IF j < sent THEN gf_file[j] ELSE gf_buf[LastSlot(j - sent)]]

\* Empty the last bytes out of gf_buf, and b_close.
Empty ==
    /\ k = 0 /\ status = "open"
    /\ WriteRest(Rest)
    /\ status' = "closed"
    /\ UNCHANGED <<bufVars, k>>

EmptyFails ==
    /\ k = 0 /\ status = "open"
    /\ \E n \in 0..Rest - 1 : WriteRest(n)
    /\ status' = "exited"
    /\ UNCHANGED <<bufVars, k>>

Next == OutByte \/ EndJob \/ PadByte \/ Empty \/ EmptyFails

Spec == Init /\ [][Next]_vars

-----------------------------------------------------------------------------
TypeOK ==
    /\ gf_buf \in [gf_index -> Byte]
    /\ gf_ptr \in 0..gf_buf_size
    /\ gf_limit \in {half_buf, gf_buf_size}
    /\ gf_offset \in Nat
    /\ sent \in Nat /\ gf_file \in [0..sent - 1 -> Byte]
    /\ status \in {"open", "closed", "exited"}
    /\ k \in -1..7

\* The byte numbers that char_ptr and the postamble use: gf_offset+gf_ptr is
\* the number of bytes put out, and of these all but the last half (and the
\* one in use) are in the file.
Numbers ==
    status = "open" =>
        /\ gf_ptr < gf_limit
        /\ IF gf_limit = gf_buf_size THEN sent = gf_offset
           ELSE sent = gf_offset - half_buf

\* The file is a whole number of words long: the writes of half a buffer and
\* the padding come out even.
WholeWords ==
    /\ status = "open" => sent % 4 = 0
    /\ status = "closed" => sent % 4 = 0 /\ sent = gf_offset + gf_ptr

\* The buffer implements the stream of bytes: byte j is in the file or still
\* in the buffer, at j - gf_offset or in the older half.
Slot(j) == IF j >= gf_offset THEN j - gf_offset ELSE j - gf_offset + gf_buf_size

Cell(j) == IF j < sent THEN gf_file[j] ELSE gf_buf[Slot(j)]
count == gf_offset + gf_ptr
Content == [j \in 0..count - 1 |-> Cell(j)]

Stream == INSTANCE ByteStream WITH out <- Content
StreamSpec == Stream!SSpec
=============================================================================
