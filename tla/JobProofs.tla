----------------------------- MODULE JobProofs ------------------------------
(***************************************************************************)
(* Proofs about the GF output buffer, and about the job that fills it:     *)
(* errors keep the print selector right, and                               *)
(* close_files_and_terminate, entered from anywhere and more than once,    *)
(* leaves files, end script and exit status as they should be, and the     *)
(* dimensions it puts into tables are moved as little as can be.           *)
(***************************************************************************)
EXTENDS Job, FiniteSetTheorems, WellFoundedInduction, TLAPS

-----------------------------------------------------------------------------
(* The GF output buffer, for every size of the buffer and every sequence   *)
(* of bytes: the file comes out word by word, the byte numbers are right,  *)
(* and the two halves implement a stream of bytes.                         *)

\* All that is ever written are whole halves, and the padding makes up for
\* the rest.
Aligned ==
    /\ status \in {"open", "closed"} => gf_offset % 4 = 0
    /\ status = "open" => sent % 4 = 0
    /\ status \in {"open", "closed"} /\ k >= 0 => (gf_ptr + k) % 4 = 0
    /\ status = "closed" => k = 0 /\ sent = gf_offset + gf_ptr

IInv == TypeOK /\ Numbers /\ Aligned

\* Every first state satisfies the invariant.
LEMMA InitInv == Init => IInv
<1> SUFFICES ASSUME Init PROVE IInv
  OBVIOUS
<1> USE GFBufferAssumption
<1>1. TypeOK
  BY DEF Init, TypeOK, gf_buf_size
<1>2. Numbers
  BY DEF Init, Numbers, gf_buf_size
<1>3. Aligned
  BY DEF Init, Aligned
<1> QED BY <1>1, <1>2, <1>3 DEF IInv

\* A byte stored, with or without a swap, keeps it; the count of bytes to
\* come goes down by what the byte adds.
LEMMA OutInv ==
  ASSUME IInv, NEW b \in Byte, gf_out(b),
         \/ k = -1 /\ k' = -1
         \/ k > 0 /\ k' = k - 1
  PROVE  IInv'
<1> USE GFBufferAssumption
<1>1. /\ gf_buf \in [gf_index -> Byte] /\ gf_ptr \in Nat /\ gf_ptr < gf_limit
      /\ gf_limit \in {half_buf, gf_buf_size} /\ gf_buf_size = 2 * half_buf
      /\ gf_offset \in Nat /\ sent \in Nat /\ gf_file \in [0..sent - 1 -> Byte]
      /\ status = "open" /\ k \in -1..7 /\ half_buf \in Nat /\ half_buf > 0
      /\ half_buf % 4 = 0 /\ gf_offset % 4 = 0 /\ sent % 4 = 0
      /\ k' \in -1..7
      /\ gf_limit = gf_buf_size => sent = gf_offset
      /\ gf_limit = half_buf => sent = gf_offset - half_buf
  BY DEF IInv, TypeOK, Numbers, Aligned, gf_out, gf_buf_size
<1>2. gf_buf' \in [gf_index -> Byte]
  BY <1>1 DEF gf_out, Store, Swap, SwapFails
<1>a. k' >= 0 => k >= 0 /\ k' = k - 1 /\ (gf_ptr + k) % 4 = 0
  BY <1>1 DEF IInv, Aligned
<1>3. CASE Store(b)
  <2>1. TypeOK'
    BY <1>1, <1>2, <1>3 DEF Store, TypeOK
  <2>2. Numbers'
    BY <1>1, <1>3 DEF Store, Numbers
  <2>3. k' >= 0 => gf_ptr' + k' = gf_ptr + k
    BY <1>1, <1>3, <1>a DEF Store
  <2>4. Aligned'
    BY <1>1, <1>3, <1>a, <2>3 DEF Store, Aligned
  <2> QED BY <2>1, <2>2, <2>4 DEF IInv
<1>4. ASSUME NEW a \in {0, half_buf}, NEW n \in 0..half_buf, Write(gf_buf', a, n)
      PROVE  sent' = sent + n /\ sent' \in Nat /\ gf_file' \in [0..sent' - 1 -> Byte]
  <2>1. \A j \in 0..sent + n - 1 : j >= sent => a + j - sent \in gf_index
    BY <1>1, <1>4 DEF gf_index
  <2>2. \A j \in 0..sent + n - 1 : ~ (j < sent) => gf_buf'[a + j - sent] \in Byte
    BY <1>1, <1>2, <2>1
  <2>3. \A j \in 0..sent + n - 1 : j < sent => gf_file[j] \in Byte
    BY <1>1
  <2> QED BY <1>1, <1>4, <2>2, <2>3 DEF Write
<1>5. CASE Swap(b)
  <2>1. CASE gf_limit = gf_buf_size
    <3>1. Write(gf_buf', 0, half_buf) /\ gf_limit' = half_buf /\ gf_ptr' = 0
          /\ gf_offset' = gf_offset + gf_buf_size /\ gf_ptr + 1 = gf_buf_size
          /\ status' = status
      BY <1>5, <2>1 DEF Swap, gf_swap
    <3>2. sent' = sent + half_buf /\ sent' \in Nat /\ gf_file' \in [0..sent' - 1 -> Byte]
      BY <1>1, <1>4, <3>1, half_buf \in 0..half_buf
    <3>3. TypeOK'
      BY <1>1, <1>2, <3>1, <3>2 DEF TypeOK
    <3>4. Numbers'
      BY <1>1, <2>1, <3>1, <3>2 DEF Numbers
    <3>5. k' >= 0 => (gf_ptr' + k') % 4 = 0
      BY <1>1, <1>a, <3>1
    <3>6. gf_offset' % 4 = 0 /\ sent' % 4 = 0
      BY <1>1, <3>1, <3>2
    <3>7. Aligned'
      BY <1>1, <3>1, <3>5, <3>6 DEF Aligned
    <3> QED BY <3>3, <3>4, <3>7 DEF IInv
  <2>2. CASE gf_limit = half_buf
    <3>1. Write(gf_buf', half_buf, half_buf) /\ gf_limit' = gf_buf_size
          /\ gf_ptr' = gf_ptr + 1 /\ gf_offset' = gf_offset
          /\ gf_ptr + 1 = half_buf /\ status' = status
      BY <1>1, <1>5, <2>2 DEF Swap, gf_swap
    <3>2. sent' = sent + half_buf /\ sent' \in Nat /\ gf_file' \in [0..sent' - 1 -> Byte]
      BY <1>1, <1>4, <3>1, half_buf \in 0..half_buf
    <3>3. TypeOK'
      BY <1>1, <1>2, <3>1, <3>2 DEF TypeOK
    <3>4. Numbers'
      BY <1>1, <2>2, <3>1, <3>2 DEF Numbers
    <3>5. k' >= 0 => (gf_ptr' + k') % 4 = 0
      BY <1>1, <1>a, <3>1
    <3>6. sent' % 4 = 0
      BY <1>1, <3>2
    <3>7. Aligned'
      BY <1>1, <3>1, <3>5, <3>6 DEF Aligned
    <3> QED BY <3>3, <3>4, <3>7 DEF IInv
  <2> QED BY <1>1, <2>1, <2>2
<1>6. ASSUME NEW n \in 0..half_buf - 1, SwapFails(b, n)
      PROVE  IInv'
  <2>1. PICK a \in {0, half_buf} : Write(gf_buf', a, n)
    BY <1>6 DEF SwapFails
  <2>2. sent' \in Nat /\ gf_file' \in [0..sent' - 1 -> Byte]
    BY <1>1, <1>4, <2>1
  <2>3. gf_ptr' = gf_ptr + 1 /\ gf_limit' = gf_limit /\ gf_offset' = gf_offset
        /\ status' = "exited"
    BY <1>6 DEF SwapFails
  <2>4. gf_ptr' \in 0..gf_buf_size
    BY <1>1, <2>3
  <2>5. TypeOK'
    BY <1>1, <1>2, <2>2, <2>3, <2>4 DEF TypeOK
  <2> QED BY <2>3, <2>5 DEF IInv, Numbers, Aligned
<1> QED BY <1>3, <1>5, <1>6 DEF gf_out

\* What the last write takes is what is not in the file yet.
LEMMA RestFits ==
  ASSUME IInv, status = "open", NEW n \in 0..Rest, WriteRest(n)
  PROVE  /\ sent' = sent + n /\ sent' \in Nat
         /\ sent + Rest = gf_offset + gf_ptr
         /\ gf_file' \in [0..sent' - 1 -> Byte]
         /\ \A j \in 0..sent' - 1 :
                gf_file'[j] = IF j < sent THEN gf_file[j] ELSE gf_buf[Slot(j)]
<1> USE GFBufferAssumption
<1>1. /\ gf_buf \in [gf_index -> Byte] /\ gf_ptr \in Nat /\ gf_ptr < gf_limit
      /\ gf_limit \in {half_buf, gf_buf_size} /\ gf_buf_size = 2 * half_buf
      /\ gf_offset \in Nat /\ sent \in Nat /\ gf_file \in [0..sent - 1 -> Byte]
      /\ half_buf \in Nat /\ half_buf > 0
      /\ gf_limit = gf_buf_size => sent = gf_offset
      /\ gf_limit = half_buf => sent = gf_offset - half_buf
  BY DEF IInv, TypeOK, Numbers, gf_buf_size
<1>2. Rest \in Nat /\ sent + Rest = gf_offset + gf_ptr
  BY <1>1 DEF Rest
<1>3. \A j \in 0..sent + n - 1 :
         j >= sent => LastSlot(j - sent) = Slot(j) /\ Slot(j) \in gf_index
  <2> SUFFICES ASSUME NEW j \in 0..sent + n - 1, j >= sent
               PROVE  LastSlot(j - sent) = Slot(j) /\ Slot(j) \in gf_index
    OBVIOUS
  <2>1. j < gf_offset + gf_ptr
    BY <1>1, <1>2
  <2>2. CASE gf_limit = gf_buf_size
    BY <1>1, <2>1, <2>2 DEF LastSlot, Slot, gf_index
  <2>3. CASE gf_limit = half_buf
    BY <1>1, <2>1, <2>3 DEF LastSlot, Slot, gf_index
  <2> QED BY <1>1, <2>2, <2>3
<1>4. \A j \in 0..sent + n - 1 : j < sent => gf_file[j] \in Byte
  BY <1>1
<1>5. \A j \in 0..sent + n - 1 : ~ (j < sent) => gf_buf[LastSlot(j - sent)] \in Byte
  <2> SUFFICES ASSUME NEW j \in 0..sent + n - 1, ~ (j < sent)
               PROVE  gf_buf[LastSlot(j - sent)] \in Byte
    OBVIOUS
  <2>1. j >= sent
    BY <1>1, <1>2
  <2> QED BY <1>1, <1>3, <2>1
<1> QED BY <1>1, <1>2, <1>3, <1>4, <1>5 DEF WriteRest

\* The end of the job: the padding is chosen, and the rest is written.
LEMMA EndInv == IInv /\ (EndJob \/ Empty \/ EmptyFails) => IInv'
<1> SUFFICES ASSUME IInv, EndJob \/ Empty \/ EmptyFails PROVE IInv'
  OBVIOUS
<1> USE GFBufferAssumption
<1>1. status = "open"
  BY DEF EndJob, Empty, EmptyFails
<1>2. CASE EndJob
  <2>1. gf_ptr \in Nat /\ half_buf \in Nat /\ half_buf % 4 = 0
    BY DEF IInv, TypeOK, gf_buf_size
  <2>2. Padding \in 4..7 /\ (gf_ptr + Padding) % 4 = 0
    BY <2>1 DEF Padding, gf_buf_size
  <2> QED BY <1>1, <1>2, <2>1, <2>2
             DEF EndJob, IInv, TypeOK, Numbers, Aligned, bufVars
<1>3. CASE Empty
  <2>1. Rest \in 0..Rest
    BY <1>1 DEF IInv, TypeOK, Rest, gf_buf_size
  <2>2. /\ sent' = sent + Rest /\ sent' \in Nat /\ sent' = gf_offset + gf_ptr
        /\ gf_file' \in [0..sent' - 1 -> Byte]
    BY <1>1, <1>3, <2>1, RestFits DEF Empty
  <2> QED BY <1>1, <1>3, <2>2 DEF Empty, IInv, TypeOK, Numbers, Aligned, bufVars
<1>4. CASE EmptyFails
  <2>1. PICK n \in 0..Rest - 1 : WriteRest(n)
    BY <1>4 DEF EmptyFails
  <2>2. n \in 0..Rest
    BY <1>1 DEF IInv, TypeOK, Rest, gf_buf_size
  <2>3. sent' \in Nat /\ gf_file' \in [0..sent' - 1 -> Byte]
    BY <1>1, <2>1, <2>2, RestFits
  <2> QED BY <1>4, <2>3 DEF EmptyFails, IInv, TypeOK, Numbers, Aligned, bufVars
<1> QED BY <1>2, <1>3, <1>4

\* Every step keeps the invariant.
LEMMA StepInv == IInv /\ [Next]_vars => IInv'
<1> SUFFICES ASSUME IInv, [Next]_vars PROVE IInv'
  OBVIOUS
<1>1. CASE OutByte
  <2>1. PICK b \in Byte : gf_out(b)
    BY <1>1 DEF OutByte
  <2> QED BY <1>1, <2>1, OutInv DEF OutByte
<1>2. CASE PadByte
  BY <1>2, OutInv, GFBufferAssumption DEF PadByte
<1>3. CASE UNCHANGED vars
  BY <1>3 DEF vars, bufVars, IInv, TypeOK, Numbers, Aligned
<1> QED BY <1>1, <1>2, <1>3, EndInv DEF Next

\* The invariant holds in every behaviour.
THEOREM Invariance == Spec => []IInv
BY InitInv, StepInv, PTL DEF Spec

\* Type correctness of the buffer and its file.
THEOREM BufferTypes == Spec => []TypeOK
BY Invariance, PTL DEF IInv

\* gf_offset+gf_ptr is the byte number that char_ptr and the postamble need.
THEOREM ByteNumbers == Spec => []Numbers
BY Invariance, PTL DEF IInv

\* The closed file is complete and a whole number of words long.
THEOREM Words == Spec => []WholeWords
<1>1. IInv => WholeWords
  <2> SUFFICES ASSUME IInv PROVE WholeWords
    OBVIOUS
  <2>1. status = "closed" => (gf_offset + gf_ptr) % 4 = 0
    BY DEF IInv, TypeOK, Aligned
  <2> QED BY <2>1 DEF IInv, Aligned, WholeWords
<1> QED BY <1>1, Invariance, PTL

-----------------------------------------------------------------------------
\* Where the bytes that are not in the file are.
LEMMA SlotRange ==
  ASSUME IInv, status = "open", NEW j \in sent..count - 1
  PROVE  Slot(j) \in gf_index /\ Slot(j) # gf_ptr
<1>1. /\ gf_ptr \in Nat /\ gf_ptr < gf_limit /\ gf_buf_size = 2 * half_buf
      /\ gf_limit \in {half_buf, gf_buf_size}
      /\ gf_offset \in Nat /\ sent \in Nat /\ half_buf \in Nat /\ half_buf > 0
      /\ gf_limit = gf_buf_size => sent = gf_offset
      /\ gf_limit = half_buf => sent = gf_offset - half_buf
  BY GFBufferAssumption DEF IInv, TypeOK, Numbers, gf_buf_size
<1>2. CASE gf_limit = gf_buf_size
  BY <1>1, <1>2 DEF Slot, gf_index, count
<1>3. CASE gf_limit = half_buf
  BY <1>1, <1>3 DEF Slot, gf_index, count
<1> QED BY <1>1, <1>2, <1>3

\* A byte that is put out becomes the next one, and the earlier ones stay.
LEMMA OutCells ==
  ASSUME IInv, NEW b \in Byte, gf_out(b)
  PROVE  /\ count' = count + 1
         /\ sent' \in sent..count'
         /\ \A j \in 0..count - 1 : Cell(j)' = Cell(j) /\ Cell(j) \in Byte
         /\ \A j \in Int : j = count => Cell(j)' = b
<1> USE GFBufferAssumption
<1>1. /\ gf_buf \in [gf_index -> Byte] /\ gf_ptr \in Nat /\ gf_ptr < gf_limit
      /\ gf_limit \in {half_buf, gf_buf_size} /\ gf_buf_size = 2 * half_buf
      /\ gf_offset \in Nat /\ sent \in Nat /\ gf_file \in [0..sent - 1 -> Byte]
      /\ status = "open" /\ half_buf \in Nat /\ half_buf > 0
      /\ gf_limit = gf_buf_size => sent = gf_offset
      /\ gf_limit = half_buf => sent = gf_offset - half_buf
  BY DEF IInv, TypeOK, Numbers, gf_out, gf_buf_size
<1>2. gf_buf' = [gf_buf EXCEPT ![gf_ptr] = b] /\ gf_ptr \in gf_index
  BY <1>1 DEF gf_out, Store, Swap, SwapFails, gf_index
<1>3. \A j \in sent..count - 1 : gf_buf'[Slot(j)] = gf_buf[Slot(j)]
  BY <1>1, <1>2, SlotRange
<1>4. gf_buf'[gf_ptr] = b
  BY <1>1, <1>2
<1>5. \A j \in 0..count - 1 : Cell(j) \in Byte
  BY <1>1, SlotRange DEF Cell, count
<1>6. CASE Store(b)
  <2>1. gf_ptr' = gf_ptr + 1 /\ gf_limit' = gf_limit /\ gf_offset' = gf_offset
        /\ gf_file' = gf_file /\ sent' = sent
    BY <1>6 DEF Store
  <2>2. \A j \in 0..count - 1 : Cell(j)' = Cell(j)
    BY <1>1, <1>3, <2>1 DEF Cell, Slot, count
  <2>3. \A j \in Int : j = count => Cell(j)' = b
    BY <1>1, <1>4, <2>1 DEF Cell, Slot, count
  <2> QED BY <1>1, <1>5, <2>1, <2>2, <2>3 DEF count
<1>7. ASSUME NEW a \in Nat, NEW n \in Nat, Write(gf_buf', a, n),
             n <= half_buf, sent + n <= count + 1,
             \A j \in sent..sent + n - 1 : Slot(j) = a + j - sent
      PROVE  /\ sent' = sent + n
             /\ \A j \in 0..sent - 1 : gf_file'[j] = gf_file[j]
             /\ \A j \in sent..sent + n - 1 : gf_file'[j] = gf_buf'[Slot(j)]
  BY <1>1, <1>7 DEF Write
<1>8. CASE Swap(b) /\ gf_limit = gf_buf_size
  <2>1. Write(gf_buf', 0, half_buf) /\ gf_ptr' = 0
        /\ gf_offset' = gf_offset + gf_buf_size /\ gf_ptr + 1 = gf_buf_size
    BY <1>8 DEF Swap, gf_swap
  <2>2. \A j \in sent..sent + half_buf - 1 : Slot(j) = 0 + j - sent
    BY <1>1, <1>8 DEF Slot
  <2>3. /\ sent' = sent + half_buf
        /\ \A j \in 0..sent - 1 : gf_file'[j] = gf_file[j]
        /\ \A j \in sent..sent + half_buf - 1 : gf_file'[j] = gf_buf'[Slot(j)]
    <3>1. half_buf <= half_buf /\ sent + half_buf <= count + 1 /\ 0 \in Nat
      BY <1>1, <1>8, <2>1 DEF count
    <3> QED BY <1>1, <1>7, <2>1, <2>2, <3>1
  <2>4. count' = count + 1
    BY <1>1, <2>1 DEF count
  <2>5. ASSUME NEW j \in sent'..count PROVE Slot(j)' = Slot(j)
    <3>1. j \in Int /\ j >= gf_offset /\ j < gf_offset'
      BY <1>1, <1>8, <2>1, <2>3 DEF count
    <3>2. Slot(j) = j - gf_offset
      BY <3>1 DEF Slot
    <3>3. Slot(j)' = j - gf_offset' + gf_buf_size
      BY <1>1, <2>1, <3>1 DEF Slot
    <3> QED BY <1>1, <2>1, <3>1, <3>2, <3>3
  <2>6. \A j \in 0..count - 1 : Cell(j)' = Cell(j)
    BY <1>1, <1>3, <2>3, <2>5 DEF Cell, count
  <2>7. \A j \in Int : j = count => Cell(j)' = b
    BY <1>1, <1>4, <1>8, <2>1, <2>3, <2>5 DEF Cell, Slot, count
  <2>8. sent' \in sent..count'
    BY <1>1, <1>8, <2>1, <2>3, <2>4 DEF count
  <2> QED BY <1>5, <2>4, <2>6, <2>7, <2>8
<1>9. CASE Swap(b) /\ gf_limit = half_buf
  <2>1. Write(gf_buf', half_buf, half_buf) /\ gf_ptr' = gf_ptr + 1
        /\ gf_offset' = gf_offset /\ gf_ptr + 1 = half_buf
    BY <1>1, <1>9 DEF Swap, gf_swap
  <2>2. \A j \in sent..sent + half_buf - 1 : Slot(j) = half_buf + j - sent
    BY <1>1, <1>9 DEF Slot
  <2>3. /\ sent' = sent + half_buf
        /\ \A j \in 0..sent - 1 : gf_file'[j] = gf_file[j]
        /\ \A j \in sent..sent + half_buf - 1 : gf_file'[j] = gf_buf'[Slot(j)]
    <3>1. half_buf <= half_buf /\ sent + half_buf <= count + 1
      BY <1>1, <1>9 DEF count
    <3> QED BY <1>1, <1>7, <2>1, <2>2, <3>1
  <2>4. count' = count + 1
    BY <1>1, <2>1 DEF count
  <2>5. \A j \in 0..count : Slot(j)' = Slot(j)
    BY <2>1 DEF Slot
  <2>6. sent' = gf_offset /\ sent' \in Int /\ count \in Int
    BY <1>1, <1>9, <2>3 DEF count
  <2>7. ASSUME NEW j \in 0..count - 1 PROVE Cell(j)' = Cell(j)
    <3>1. CASE j < sent
      <4>1. j \in 0..sent - 1 /\ j < sent'
        BY <1>1, <2>3, <2>6, <3>1
      <4> QED BY <2>3, <3>1, <4>1 DEF Cell
    <3>2. CASE sent <= j /\ j < sent'
      <4>1. j \in sent..count - 1 /\ j \in sent..sent + half_buf - 1
        BY <1>1, <2>3, <2>6, <3>2
      <4> QED BY <1>1, <1>3, <2>3, <3>2, <4>1 DEF Cell
    <3>3. CASE sent' <= j
      <4>1. j \in sent..count - 1 /\ j \in 0..count /\ ~ (j < sent') /\ ~ (j < sent)
        BY <1>1, <2>3, <2>6, <3>3
      <4> QED BY <1>3, <2>5, <4>1 DEF Cell
    <3> QED BY <1>1, <2>6, <3>1, <3>2, <3>3
  <2>8. ASSUME NEW j \in Int, j = count PROVE Cell(j)' = b
    <3>1. ~ (j < sent') /\ Slot(j)' = gf_ptr
      BY <1>1, <2>1, <2>6, <2>8 DEF Slot, count
    <3> QED BY <1>4, <3>1 DEF Cell
  <2>9. sent' \in sent..count'
    BY <1>1, <2>3, <2>4, <2>6 DEF count
  <2> QED BY <1>5, <2>4, <2>7, <2>8, <2>9
<1>10. ASSUME NEW n \in 0..half_buf - 1, SwapFails(b, n)
       PROVE  /\ count' = count + 1 /\ sent' \in sent..count'
              /\ \A j \in 0..count - 1 : Cell(j)' = Cell(j)
              /\ \A j \in Int : j = count => Cell(j)' = b
  <2> DEFINE a == IF gf_limit = gf_buf_size THEN 0 ELSE half_buf
  <2>1. Write(gf_buf', a, n) /\ gf_ptr' = gf_ptr + 1
        /\ gf_offset' = gf_offset /\ gf_ptr + 1 = gf_limit
    BY <1>10 DEF SwapFails
  <2>2. \A j \in sent..sent + n - 1 : Slot(j) = a + j - sent
    <3>1. CASE gf_limit = gf_buf_size
      BY <1>1, <3>1 DEF Slot
    <3>2. CASE gf_limit = half_buf
      BY <1>1, <3>2 DEF Slot
    <3> QED BY <1>1, <3>1, <3>2
  <2>3. sent + n <= count + 1 /\ sent + n <= count
    <3>1. CASE gf_limit = gf_buf_size
      BY <1>1, <2>1, <3>1 DEF count
    <3>2. CASE gf_limit = half_buf
      BY <1>1, <2>1, <3>2 DEF count
    <3> QED BY <1>1, <3>1, <3>2
  <2>4. /\ sent' = sent + n
        /\ \A j \in 0..sent - 1 : gf_file'[j] = gf_file[j]
        /\ \A j \in sent..sent + n - 1 : gf_file'[j] = gf_buf'[Slot(j)]
    <3>1. a \in Nat /\ n \in Nat /\ n <= half_buf
      BY <1>1
    <3> QED BY <1>7, <2>1, <2>2, <2>3, <3>1
  <2>5. count' = count + 1
    BY <1>1, <2>1 DEF count
  <2>6. \A j \in 0..count : Slot(j)' = Slot(j)
    BY <2>1 DEF Slot
  <2>7. \A j \in 0..count - 1 : Cell(j)' = Cell(j)
    BY <1>1, <1>3, <2>4, <2>6 DEF Cell, count
  <2>8. \A j \in Int : j = count => Cell(j)' = b
    BY <1>1, <1>4, <2>1, <2>3, <2>4, <2>6 DEF Cell, Slot, count
  <2> QED BY <1>1, <2>3, <2>4, <2>5, <2>7, <2>8 DEF count
<1> QED BY <1>1, <1>5, <1>6, <1>8, <1>9, <1>10 DEF gf_out

\* What the refinement mapping takes for the bytes put out.
LEMMA Mapping ==
  /\ Stream!SInit <=> /\ count = 0 /\ Content \in [0..0 - 1 -> Byte]
                      /\ sent = 0 /\ status = "open"
  /\ Stream!Out <=>
        /\ status = "open" /\ status' \in {"open", "exited"}
        /\ count' = count + 1
        /\ Content' \in [0..count' - 1 -> Byte]
        /\ \A j \in 0..count - 1 : Content'[j] = Content[j]
        /\ sent' \in sent..count'
  /\ Stream!Close <=> /\ status = "open" /\ status' = "closed"
                      /\ <<count, Content>>' = <<count, Content>>
                      /\ sent' = count
  /\ Stream!Exit <=> /\ status = "open" /\ status' = "exited"
                     /\ <<count, Content>>' = <<count, Content>>
                     /\ sent' \in sent..count
  /\ (UNCHANGED Stream!sVars) <=> UNCHANGED <<count, Content, sent, status>>
BY DEF Stream!SInit, Stream!Out, Stream!Close, Stream!Exit, Stream!sVars,
       Stream!Bytes

\* A byte put out is a step of the stream.
LEMMA OutRefines ==
  ASSUME IInv, NEW b \in Byte, gf_out(b) PROVE Stream!Out
<1>1. /\ count \in Nat /\ sent \in Nat
      /\ status = "open" /\ status' \in {"open", "exited"}
  BY DEF IInv, TypeOK, count, gf_out, Store, Swap, SwapFails
<1>2. /\ count' = count + 1
      /\ sent' \in sent..count'
      /\ \A j \in 0..count - 1 : Cell(j)' = Cell(j) /\ Cell(j) \in Byte
      /\ \A j \in Int : j = count => Cell(j)' = b
  BY OutCells
<1>3. Content' = [j \in 0..count' - 1 |-> Cell(j)']
  BY DEF Content
<1>4. \A j \in 0..count' - 1 : Cell(j)' \in Byte
  BY <1>1, <1>2
<1>5. Content' \in [0..count' - 1 -> Byte]
  BY <1>3, <1>4
<1>6. \A j \in 0..count - 1 : Content'[j] = Content[j]
  BY <1>1, <1>2, <1>3 DEF Content
<1> QED BY <1>1, <1>2, <1>5, <1>6, Mapping

\* The last write changes where bytes are, not what they are.
LEMMA RestRefines ==
  ASSUME IInv, Empty \/ EmptyFails PROVE Stream!Close \/ Stream!Exit
<1>1. /\ count \in Nat /\ sent \in Nat /\ Rest \in Nat /\ status = "open"
      /\ UNCHANGED bufVars
  BY GFBufferAssumption
     DEF IInv, TypeOK, count, Empty, EmptyFails, Rest, gf_buf_size
<1>2. ASSUME NEW n \in 0..Rest, WriteRest(n)
      PROVE  /\ sent' = sent + n /\ sent + Rest = count
             /\ <<count, Content>>' = <<count, Content>>
  <2>1. /\ sent' = sent + n /\ sent' \in Nat /\ sent + Rest = count
        /\ \A j \in 0..sent' - 1 :
              gf_file'[j] = IF j < sent THEN gf_file[j] ELSE gf_buf[Slot(j)]
    BY <1>1, <1>2, RestFits DEF count
  <2>2. count' = count /\ \A j : Slot(j)' = Slot(j)
    BY <1>1 DEF count, Slot, bufVars
  <2>3. ASSUME NEW j \in 0..count - 1 PROVE Cell(j)' = Cell(j)
    <3>1. CASE j < sent'
      BY <1>1, <2>1, <3>1 DEF Cell
    <3>2. CASE ~ (j < sent')
      <4>1. ~ (j < sent)
        BY <1>1, <2>1, <3>2
      <4> QED BY <1>1, <2>2, <3>2, <4>1 DEF Cell, bufVars
    <3> QED BY <3>1, <3>2
  <2>4. Content' = [j \in 0..count' - 1 |-> Cell(j)']
    BY DEF Content
  <2>5. Content' = Content
    BY <2>2, <2>3, <2>4 DEF Content
  <2> QED BY <2>1, <2>2, <2>5
<1>3. CASE Empty
  <2>1. Rest \in 0..Rest
    BY <1>1
  <2>2. WriteRest(Rest) /\ status' = "closed"
    BY <1>3 DEF Empty
  <2> QED BY <1>1, <1>2, <2>1, <2>2, Mapping
<1>4. CASE EmptyFails
  <2>1. PICK n \in 0..Rest - 1 : WriteRest(n)
    BY <1>4 DEF EmptyFails
  <2>2. n \in 0..Rest
    BY <1>1
  <2>3. sent' \in sent..count
    BY <1>1, <1>2, <2>1, <2>2
  <2> QED BY <1>1, <1>2, <1>4, <2>1, <2>2, <2>3, Mapping DEF EmptyFails
<1> QED BY <1>3, <1>4

\* The buffer implements the stream: every byte put out reaches the file in
\* its place, whatever the size of the buffer.
THEOREM BufferIsStream == Spec => StreamSpec
<1>1. Init => Stream!SInit
  <2> SUFFICES ASSUME Init PROVE Stream!SInit
    OBVIOUS
  <2>1. count = 0 /\ Content \in [0..0 - 1 -> Byte] /\ sent = 0 /\ status = "open"
    BY DEF Init, count, Content
  <2> QED BY <2>1, Mapping
<1>2. IInv /\ [Next]_vars => [Stream!SNext]_(Stream!sVars)
  <2> SUFFICES ASSUME IInv, [Next]_vars PROVE [Stream!SNext]_(Stream!sVars)
    OBVIOUS
  <2>1. CASE OutByte
    <3>1. PICK b \in Byte : gf_out(b)
      BY <2>1 DEF OutByte
    <3> QED BY <3>1, OutRefines DEF Stream!SNext
  <2>2. CASE PadByte
    BY <2>2, OutRefines, GFBufferAssumption DEF PadByte, Stream!SNext
  <2>3. CASE EndJob \/ UNCHANGED vars
    <3>1. UNCHANGED <<bufVars, gf_file, sent, status>>
      BY <2>3 DEF EndJob, vars
    <3>2. UNCHANGED <<count, Content, sent, status>>
      BY <3>1 DEF count, Content, Cell, Slot, bufVars
    <3> QED BY <3>2, Mapping
  <2>4. CASE Empty \/ EmptyFails
    BY <2>4, RestRefines DEF Stream!SNext
  <2> QED BY <2>1, <2>2, <2>3, <2>4 DEF Next
<1> QED BY <1>1, <1>2, Invariance, PTL DEF Spec, StreamSpec, Stream!SSpec
-----------------------------------------------------------------------------
(* The job around it.                                                      *)

RunPhases == {"run", "diagnostic"}
ClosingPhases == {"closing", "widths", "heights", "tfm", "gf", "log", "script"}
Phases == {"start", "over"} \cup RunPhases \cup ClosingPhases

JobRecord ==
    [phase : Phases, interaction : 0..3, selector : 0..3, history : 0..3,
     halt_on_error : BOOLEAN, error_count : Nat, job_name : BOOLEAN,
     log_opened : BOOLEAN, edit : BOOLEAN]

Demanded(s) == Initial_selector(s.interaction) + (IF s.log_opened THEN log_only ELSE 0)

\* An editor is asked for after an error only, and ends the dialogue.
Edits(s) == s.edit => s.history >= 2 /\ s.interaction >= 2 /\ s.phase \notin {"start"} \cup RunPhases

Named(s) == s \in JobRecord /\ (s.log_opened => s.job_name) /\ Edits(s)
Sound(s) == Named(s) /\ s.selector = Demanded(s)

\* An error was reported, says history, exactly when one was.
Honest == job.history <= warning_issued <=> ~reported

\* The invariant, by the phases of the job.
JobSound ==
    /\ Named(job)
    /\ job.phase \notin {"diagnostic", "script", "over"} => Sound(job)
    /\ job.phase = "diagnostic" => old_setting = Demanded(job)
    /\ job.phase = "script" => job.selector \in {no_print, term_only}
    /\ job.phase = "start" => ~job.job_name /\ ~reported
    /\ job.phase \in RunPhases => Honest /\ job.history # fatal_error_stop
    /\ job.phase \in ClosingPhases => Honest /\ (~reported => job.job_name)

FilesSound ==
    /\ job.phase # "over" => programs = 0 /\ code = -1 /\ status # "exited"
    /\ status \in {"open", "closed", "exited"} /\ reported \in BOOLEAN
    /\ job.phase \in {"start"} \cup RunPhases =>
          files.tfm = 0 /\ files.log = 0 /\ ~wanted /\ status = "open"
    /\ job.phase = "start" => gf = "none"
    /\ job.phase \in {"closing", "widths", "heights", "tfm", "gf"} => status = "open"
    /\ job.phase \in {"log", "script"} => status = (IF gf = "started" THEN "closed" ELSE "open")
    /\ job.phase \in ClosingPhases => files.tfm = 0 \/ (files.tfm = 1 /\ wanted /\ ~fontmaking)
    /\ job.phase \in ClosingPhases \ {"script"} => files.log = 0
    /\ job.phase = "script" => files.log = (IF job.log_opened THEN 1 ELSE 0)
    /\ job.phase = "widths" => (fontmaking => wanted)
    /\ job.phase \in {"heights", "tfm"} => fontmaking /\ wanted
    /\ ~reported =>
          /\ job.phase = "closing" => ~wanted
          /\ job.phase = "widths" => (wanted => fontmaking)
          /\ job.phase \in {"gf", "log", "script"} => (wanted => files.tfm = 1)
    /\ files \in [tfm : Nat, log : Nat] /\ wanted \in BOOLEAN /\ fontmaking \in BOOLEAN

JobInv == JobSound /\ FilesSound /\ ClosedRight

-----------------------------------------------------------------------------
\* A field of a job that gets a value of its own kind.
LEMMA Updated ==
  ASSUME NEW s \in JobRecord
  PROVE  /\ \A x \in Phases : [s EXCEPT !.phase = x] \in JobRecord
         /\ \A x \in 0..3 : [s EXCEPT !.interaction = x] \in JobRecord
         /\ \A x \in 0..3 : [s EXCEPT !.selector = x] \in JobRecord
         /\ \A x \in 0..3 : [s EXCEPT !.history = x] \in JobRecord
         /\ \A x \in Nat : [s EXCEPT !.error_count = x] \in JobRecord
         /\ \A x \in BOOLEAN : [s EXCEPT !.job_name = x] \in JobRecord
         /\ \A x \in BOOLEAN : [s EXCEPT !.log_opened = x] \in JobRecord
         /\ \A x \in BOOLEAN : [s EXCEPT !.edit = x] \in JobRecord
<1>1. ASSUME NEW x \in Phases PROVE [s EXCEPT !.phase = x] \in JobRecord
  BY DEF JobRecord
<1>2. ASSUME NEW x \in 0..3 PROVE [s EXCEPT !.interaction = x] \in JobRecord
  BY DEF JobRecord
<1>3. ASSUME NEW x \in 0..3 PROVE [s EXCEPT !.selector = x] \in JobRecord
  BY DEF JobRecord
<1>4. ASSUME NEW x \in 0..3 PROVE [s EXCEPT !.history = x] \in JobRecord
  BY DEF JobRecord
<1>5. ASSUME NEW x \in Nat PROVE [s EXCEPT !.error_count = x] \in JobRecord
  BY DEF JobRecord
<1>6. ASSUME NEW x \in BOOLEAN PROVE [s EXCEPT !.job_name = x] \in JobRecord
  BY DEF JobRecord
<1>7. ASSUME NEW x \in BOOLEAN PROVE [s EXCEPT !.log_opened = x] \in JobRecord
  BY DEF JobRecord
<1>8. ASSUME NEW x \in BOOLEAN PROVE [s EXCEPT !.edit = x] \in JobRecord
  BY DEF JobRecord
<1> QED BY <1>1, <1>2, <1>3, <1>4, <1>5, <1>6, <1>7, <1>8

\* succumb after normalize_selector leaves the selector right.
LEMMA Succumbed ==
  ASSUME NEW s, Named(s), NEW t, t = succumb(Normal(s))
  PROVE  /\ Sound(t) /\ t.phase = "closing" /\ t.history = fatal_error_stop
         /\ t.job_name = s.job_name
<1> USE DEF batch_mode, error_stop_mode, scroll_mode, no_print, term_only, log_only,
        term_and_log, fatal_error_stop
<1> DEFINE n == Normal(s)
<1>1. /\ n \in JobRecord /\ n.interaction = s.interaction /\ n.log_opened = s.log_opened
      /\ n.job_name = s.job_name /\ n.edit = s.edit /\ Edits(s)
      /\ n.selector = (IF s.log_opened THEN 3 ELSE 1) - (IF s.interaction = 0 THEN 1 ELSE 0)
  BY DEF Named, JobRecord, Normal
<1> HIDE DEF n
<1>a. PICK i \in 0..3 : i = IF n.interaction = 3 THEN 2 ELSE n.interaction
  BY <1>1 DEF JobRecord
<1>b. t = [n EXCEPT !.history = 3, !.interaction = i, !.phase = "closing"]
  BY <1>1, <1>a DEF n, succumb, jump_out, JobRecord
<1>c. t \in JobRecord
  <2>1. "closing" \in Phases /\ 3 \in 0..3
    BY DEF Phases, ClosingPhases
  <2>2. n \in JobRecord
    BY <1>1
  <2> QED BY <1>b, <2>1, <2>2 DEF JobRecord
<1>2. /\ t \in JobRecord /\ t.phase = "closing" /\ t.history = 3 /\ t.log_opened = n.log_opened
      /\ t.job_name = n.job_name /\ t.selector = n.selector /\ t.edit = n.edit
      /\ t.interaction = IF n.interaction = 3 THEN 2 ELSE n.interaction
  BY <1>1, <1>a, <1>b, <1>c DEF JobRecord
<1>3. t.selector = Demanded(t)
  BY <1>1, <1>2 DEF Demanded, Initial_selector, JobRecord
<1>4. Edits(t)
  BY <1>1, <1>2 DEF Edits, RunPhases
<1> QED BY <1>1, <1>2, <1>3, <1>4 DEF Sound, Named

\* open_log_file opens the transcript, or there is a fatal error.
LEMMA Opened ==
  ASSUME NEW s, Sound(s), ~s.log_opened, NEW t \in open_log_file(s)
  PROVE  /\ Sound(t) /\ t.job_name
         /\ \/ t.phase = s.phase /\ t.history = s.history
            \/ t.phase = "closing" /\ t.history = fatal_error_stop
<1> USE DEF batch_mode, no_print, term_only, log_only
<1> DEFINE u == [s EXCEPT !.job_name = TRUE]
<1>0. s \in JobRecord /\ s.selector = Demanded(s) /\ s.selector \in {0, 1}
  BY DEF Sound, Named, Demanded, Initial_selector
<1>1. CASE t = [u EXCEPT !.log_opened = TRUE, !.selector = s.selector + 2]
  <2>1. /\ t \in JobRecord /\ t.job_name = TRUE /\ t.log_opened = TRUE
        /\ t.selector = s.selector + 2 /\ t.interaction = s.interaction
        /\ t.phase = s.phase /\ t.history = s.history /\ t.edit = s.edit
    <3>a. u \in JobRecord
      BY <1>0, Updated
    <3>b. s.selector + 2 \in 0..3
      BY <1>0
    <3>1. u \in JobRecord /\ s.selector + 2 \in 0..3
      BY <3>a, <3>b
    <3>2. t \in JobRecord
      <4>1. [u EXCEPT !.log_opened = TRUE] \in JobRecord
        BY <3>1, Updated
      <4>2. t = [[u EXCEPT !.log_opened = TRUE] EXCEPT !.selector = s.selector + 2]
        BY <1>1
      <4> HIDE DEF u
      <4> QED BY <3>1, <4>1, <4>2, Updated
    <3> QED BY <1>0, <1>1, <3>1, <3>2 DEF JobRecord
  <2>2. t.selector = Demanded(t)
    BY <1>0, <2>1 DEF Demanded, Initial_selector
  <2>3. Edits(t)
    BY <2>1 DEF Edits, Sound, Named
  <2> QED BY <2>1, <2>2, <2>3 DEF Sound, Named
<1>2. CASE t = succumb(Normal([u EXCEPT !.selector = term_only]))
  <2> DEFINE v == [u EXCEPT !.selector = term_only]
  <2>1. u \in JobRecord /\ u.job_name = TRUE
    BY <1>0 DEF JobRecord
  <2>2. v \in JobRecord /\ v.job_name = TRUE
    <3>0. term_only \in 0..3
      OBVIOUS
    <3>1. v \in JobRecord
      <4> HIDE DEF u, term_only
      <4> QED BY <2>1, <3>0, Updated
    <3> QED BY <2>1, <3>1 DEF JobRecord
  <2>a. v.edit = s.edit /\ v.history = s.history /\ v.interaction = s.interaction /\ v.phase = s.phase
    BY <1>0 DEF JobRecord
  <2>3. Named(v)
    BY <2>2, <2>a DEF Named, Edits, Sound
  <2> HIDE DEF v
  <2> QED BY <1>2, <2>2, <2>3, Succumbed DEF v
<1> QED BY <1>1, <1>2 DEF open_log_file

\* So with the transcript opened where it was not.
LEMMA WithLog ==
  ASSUME NEW s, Sound(s), NEW t \in With_log(s)
  PROVE  /\ Sound(t) /\ t.job_name
         /\ \/ t.phase = s.phase /\ t.history = s.history
            \/ t.phase = "closing" /\ t.history = fatal_error_stop
BY Opened DEF With_log, Sound, Named, JobRecord

\* A fatal error ends with a job that is named and a right selector.
LEMMA FatalError ==
  ASSUME NEW s, Named(s), NEW t \in fatal_error(s)
  PROVE  /\ Sound(t) /\ t.phase = "closing" /\ t.history = fatal_error_stop
         /\ t.job_name
<1>1. CASE s.job_name
  BY <1>1, Succumbed DEF fatal_error
<1>2. CASE ~s.job_name
  <2> DEFINE v == [s EXCEPT !.selector = term_only]
             w == [v EXCEPT !.job_name = TRUE]
             x == [w EXCEPT !.selector = term_only]
  <2>1. PICK u \in open_log_file(v) : t = IF u.log_opened THEN succumb(Normal(u)) ELSE u
    BY <1>2 DEF fatal_error
  <2>2. v \in JobRecord /\ ~v.log_opened /\ ~v.job_name
    BY <1>2 DEF Named, JobRecord, term_only
  <2> HIDE DEF v
  <2>3. CASE u = [w EXCEPT !.log_opened = TRUE, !.selector = v.selector + 2]
    <3>1. v.selector = 1
      BY DEF v, Named, JobRecord, term_only
    <3>a. w \in JobRecord
      BY <2>2, Updated
    <3>b. w.job_name = TRUE
      BY <2>2 DEF JobRecord
    <3>c. u = [w EXCEPT !.log_opened = TRUE, !.selector = 3]
      BY <2>3, <3>1
    <3> HIDE DEF w
    <3>d. u \in JobRecord
      <4>1. u = [[w EXCEPT !.log_opened = TRUE] EXCEPT !.selector = 3]
        BY <3>c
      <4>2. [w EXCEPT !.log_opened = TRUE] \in JobRecord
        BY <3>a, Updated
      <4>3. 3 \in 0..3
        OBVIOUS
      <4> QED BY <4>1, <4>2, <4>3, Updated
    <3>2. u \in JobRecord /\ u.log_opened = TRUE /\ u.job_name = TRUE
      BY <3>a, <3>b, <3>c, <3>d DEF JobRecord
    <3>e. w.edit = s.edit /\ w.history = s.history /\ w.interaction = s.interaction /\ w.phase = s.phase
      BY DEF w, v, Named, JobRecord
    <3>f. u.edit = w.edit /\ u.history = w.history /\ u.interaction = w.interaction /\ u.phase = w.phase
      BY <3>a, <3>c DEF JobRecord
    <3>3. Named(u)
      BY <3>2, <3>e, <3>f DEF Named, Edits
    <3> QED BY <2>1, <3>2, <3>3, Succumbed
  <2>4. CASE u = succumb(Normal(x))
    <3>0. w \in JobRecord
      BY <2>2, Updated
    <3>1. term_only \in 0..3
      BY DEF term_only
    <3>2. x \in JobRecord
      <4> HIDE DEF w
      <4> QED BY <3>0, <3>1, Updated
    <3>a. w \in JobRecord /\ x \in JobRecord
      BY <3>0, <3>2
    <3>b. x \in JobRecord /\ x.job_name = TRUE
      <4>1. w.job_name = TRUE
        BY <2>2 DEF JobRecord
      <4> HIDE DEF w
      <4> QED BY <3>a, <4>1 DEF JobRecord, term_only
    <3>f. x.edit = s.edit /\ x.history = s.history /\ x.interaction = s.interaction /\ x.phase = s.phase
      BY DEF v, Named, JobRecord
    <3>c. Named(x)
      BY <3>b, <3>f DEF Named, Edits
    <3> HIDE DEF x
    <3>d. Sound(u) /\ u.phase = "closing" /\ u.history = fatal_error_stop /\ u.job_name
      BY <2>4, <3>b, <3>c, Succumbed
    <3>e. Named(u)
      BY <3>d DEF Sound
    <3> QED BY <2>1, <3>d, <3>e, Succumbed
  <2> QED BY <2>1, <2>3, <2>4 DEF open_log_file
<1> QED BY <1>1, <1>2

\* After an error the job goes on, knowing it, or is closed.
LEMMA AfterError ==
  ASSUME NEW s, Sound(s), s.phase = "run", s.history # fatal_error_stop, NEW t \in error(s)
  PROVE  /\ Sound(t) /\ t.history \in {error_message_issued, fatal_error_stop}
         /\ \/ t.phase = s.phase /\ t.history = error_message_issued
            \/ t.phase = "closing"
<1> USE DEF batch_mode, scroll_mode, error_stop_mode, error_message_issued, fatal_error_stop
<1> DEFINE u == [s EXCEPT !.history = IF @ < error_message_issued THEN error_message_issued ELSE @]
<1>1. /\ u \in JobRecord /\ u.history = 2 /\ u.phase = s.phase /\ u.selector = s.selector
      /\ u.interaction = s.interaction /\ u.log_opened = s.log_opened
      /\ u.job_name = s.job_name /\ s \in JobRecord /\ u.edit = s.edit
  BY DEF Sound, Named, JobRecord
<1>2. Sound(u) /\ Named(u)
  BY <1>1 DEF Sound, Named, Demanded, Edits
<1>3. t \in {jump_out([u EXCEPT !.history = 3]), Counted(u)}
         \/ (u.interaction = 3 /\ t \in Answers(u))
  BY DEF error
<1> HIDE DEF u
<1>4. CASE t = jump_out([u EXCEPT !.history = 3])
  <2>1. /\ t \in JobRecord /\ t.phase = "closing" /\ t.history = 3 /\ t.selector = u.selector
        /\ t.interaction = u.interaction /\ t.log_opened = u.log_opened /\ t.job_name = u.job_name
        /\ t.edit = u.edit
    <3>1. "closing" \in Phases /\ [u EXCEPT !.history = 3] \in JobRecord
      BY <1>1 DEF JobRecord, Phases, ClosingPhases
    <3> QED BY <1>1, <1>4, <3>1 DEF jump_out, JobRecord
  <2> QED BY <1>2, <2>1 DEF Sound, Named, Demanded, Edits, RunPhases
<1>5. CASE t = Counted(u)
  <2>1. /\ t \in JobRecord /\ t.selector = u.selector
        /\ t.interaction = u.interaction /\ t.log_opened = u.log_opened /\ t.job_name = u.job_name
        /\ t.edit = u.edit
        /\ \/ t.phase = "closing" /\ t.history = 3
           \/ t.phase = u.phase /\ t.history = 2
    <3>1. "closing" \in Phases /\ u.error_count + 1 \in Nat /\ 3 \in 0..3
      BY <1>1 DEF JobRecord, Phases, ClosingPhases
    <3>2. CASE u.error_count + 1 = MaxErrors
      <4>1. t = [[[u EXCEPT !.error_count = MaxErrors] EXCEPT !.history = 3] EXCEPT !.phase = "closing"]
        BY <1>5, <3>2 DEF Counted, jump_out
      <4>2. t \in JobRecord
        <5>1. [u EXCEPT !.error_count = MaxErrors] \in JobRecord
          BY <1>1, JobAssumption, Updated
        <5>2. [[u EXCEPT !.error_count = MaxErrors] EXCEPT !.history = 3] \in JobRecord
          BY <5>1, <3>1, Updated
        <5> QED BY <4>1, <5>2, <3>1, Updated
      <4> QED BY <1>1, <4>1, <4>2 DEF JobRecord
    <3>3. CASE u.error_count + 1 # MaxErrors
      <4>1. t = [u EXCEPT !.error_count = u.error_count + 1]
        BY <1>5, <3>3 DEF Counted
      <4>2. t \in JobRecord
        BY <1>1, <3>1, <4>1, Updated
      <4> QED BY <1>1, <4>1, <4>2 DEF JobRecord
    <3> QED BY <3>2, <3>3
  <2> QED BY <1>1, <1>2, <2>1 DEF Sound, Named, Demanded, Edits, RunPhases
<1>6. CASE u.interaction = 3 /\ t \in Answers(u)
  <2>1. CASE t = u
    BY <1>1, <1>2, <2>1
  <2>2. CASE t = jump_out([u EXCEPT !.interaction = scroll_mode])
             \/ t = jump_out([u EXCEPT !.edit = u.job_name])
    <3>1. /\ t \in JobRecord /\ t.selector = u.selector
          /\ t.interaction \in {2, 3} /\ t.log_opened = u.log_opened /\ t.job_name = u.job_name
          /\ t.phase = "closing" /\ t.history = 2
      BY <1>1, <1>6, <2>2 DEF jump_out, JobRecord, Phases, ClosingPhases
    <3>2. Edits(t)
      BY <3>1 DEF Edits, RunPhases
    <3> QED BY <1>2, <1>6, <3>1, <3>2 DEF Sound, Named, Demanded, Initial_selector
  <2>3. CASE \E c \in batch_mode..scroll_mode :
                t = [u EXCEPT !.error_count = 0, !.interaction = c,
                              !.selector = IF c = batch_mode THEN @ - 1 ELSE @]
    <3>1. u.selector \in {1, 3}
      BY <1>2, <1>6 DEF Sound, Demanded, Initial_selector, term_only, log_only
    <3>2. /\ t \in JobRecord /\ t.selector = u.selector - (IF t.interaction = 0 THEN 1 ELSE 0)
          /\ t.log_opened = u.log_opened /\ t.job_name = u.job_name
          /\ t.phase = u.phase /\ t.history = 2
      <4>1. PICK c \in 0..2 : t = [u EXCEPT !.error_count = 0, !.interaction = c,
                                    !.selector = IF c = 0 THEN u.selector - 1 ELSE u.selector]
        BY <2>3
      <4>2. (IF c = 0 THEN u.selector - 1 ELSE u.selector) \in 0..3 /\ c \in 0..3
        BY <3>1
      <4>3. t \in JobRecord
        <5> DEFINE v == [u EXCEPT !.error_count = 0]
                   w == [v EXCEPT !.interaction = c]
        <5>1. v \in JobRecord
          BY <1>1, Updated
        <5>2. w \in JobRecord
          BY <5>1, <4>2, Updated
        <5>3. t = [w EXCEPT !.selector = IF c = 0 THEN u.selector - 1 ELSE u.selector]
          BY <4>1
        <5> HIDE DEF v, w
        <5> QED BY <5>2, <5>3, <4>2, Updated
      <4> QED BY <1>1, <4>1, <4>2, <4>3 DEF JobRecord
    <3>3. t.selector = Demanded(t)
      BY <1>2, <1>6, <3>2 DEF Sound, Demanded, Initial_selector, term_only, no_print, log_only
    <3>4. ~u.edit /\ t.edit = u.edit
      BY <1>1, <2>3 DEF Sound, Named, Edits, RunPhases, JobRecord
    <3> QED BY <1>1, <1>2, <3>2, <3>3, <3>4 DEF Sound, Named, Edits
  <2>4. CASE t \in fatal_error(u)
    BY <1>2, <2>4, FatalError
  <2> QED BY <1>6, <2>1, <2>2, <2>3, <2>4 DEF Answers
<1> QED BY <1>3, <1>4, <1>5, <1>6

-----------------------------------------------------------------------------
\* The program starts with nothing done.
LEMMA JobStarts == JobInit => JobInv
<1> SUFFICES ASSUME JobInit PROVE JobInv
  OBVIOUS
<1> USE DEF batch_mode, error_stop_mode, fatal_error_stop, no_print, term_only, log_only
<1>1. PICK i \in 0..3, halt \in BOOLEAN :
         job = [phase |-> "start", interaction |-> i, selector |-> Initial_selector(i),
                history |-> 3, halt_on_error |-> halt, error_count |-> 0,
                job_name |-> FALSE, log_opened |-> FALSE, edit |-> FALSE]
  BY DEF JobInit
<1>2. /\ Initial_selector(i) \in 0..3 /\ "start" \in Phases
  BY DEF Initial_selector, Phases
<1>3. job \in JobRecord
  BY <1>1, <1>2 DEF JobRecord
<1>4. Sound(job) /\ Named(job)
  BY <1>1, <1>2, <1>3 DEF Sound, Named, Edits, Demanded
<1>5. JobSound
  BY <1>1, <1>4 DEF JobSound, JobInit, RunPhases, ClosingPhases
<1>6. FilesSound /\ ClosedRight
  BY <1>1 DEF FilesSound, ClosedRight, JobInit, Init, RunPhases, ClosingPhases
<1> QED BY <1>5, <1>6 DEF JobInv

\* A step of the running program that leaves the job sound and its history
\* honest: the files are as they were.
LEMMA Runs ==
  ASSUME JobInv, job.phase \in {"start"} \cup RunPhases,
         Named(job'), job'.phase \in RunPhases \cup {"closing"},
         job'.phase # "diagnostic" => Sound(job'),
         job'.phase = "diagnostic" => old_setting' = Demanded(job'),
         reported' \in BOOLEAN, job'.history <= warning_issued <=> ~reported',
         job'.phase \in RunPhases => job'.history # fatal_error_stop,
         job'.phase = "closing" => (~reported' => job'.job_name),
         status' = "open", fontmaking' \in BOOLEAN, UNCHANGED <<programs, code, files, wanted>>
  PROVE  JobInv'
<1>1. /\ job'.phase \notin {"start", "over", "script", "widths", "heights", "tfm", "gf", "log"}
      /\ job.phase # "over"
  BY DEF RunPhases
<1>2. JobSound'
  BY <1>1 DEF JobSound, Honest, ClosingPhases
<1>3. ClosedRight'
  BY <1>1 DEF ClosedRight
<1>4. FilesSound'
  BY <1>1 DEF JobInv, FilesSound, RunPhases, ClosingPhases
<1> QED BY <1>2, <1>3, <1>4 DEF JobInv

\* What a step that Becomes describes leaves alone.
LEMMA Untouched ==
  ASSUME JobInv, job.phase \in {"start"} \cup RunPhases, NEW S, Becomes(S)
  PROVE  /\ job' \in S /\ old_setting' = old_setting
         /\ status' = "open" /\ fontmaking' \in BOOLEAN
         /\ UNCHANGED <<programs, code, files, wanted>>
BY DEF JobInv, FilesSound, Becomes, Same_files, files_vars, Rest_unchanged, vars

\* A statement's error, a fatal error, and the commands that change where the
\* program prints.
LEMMA DialogueInv ==
  ASSUME JobInv, Start \/ Error \/ Fatal \/ pause_for_instructions \/ Mode_command
                 \/ End_statement \/ begin_diagnostic \/ end_diagnostic
  PROVE  JobInv'
<1> USE DEF batch_mode, error_stop_mode, no_print, term_only, log_only, term_and_log,
            spotless, warning_issued, error_message_issued, fatal_error_stop
<1>0. /\ job.phase \in {"start", "run", "diagnostic"} /\ reported \in BOOLEAN
      /\ Named(job) /\ job \in JobRecord
  BY DEF JobInv, JobSound, FilesSound, Named, Start, Error, Fatal, pause_for_instructions,
         Mode_command, End_statement, begin_diagnostic, end_diagnostic
<1> USE <1>0 DEF RunPhases
<1>a. job.phase = "run" => Sound(job) /\ Honest /\ job.history # 3 /\ ~job.edit
  BY DEF JobInv, JobSound, Named, Edits
<1>1. CASE Start
  <2>1. job.phase = "start" /\ Sound(job) /\ ~job.log_opened
    BY <1>1 DEF Start, JobInv, JobSound, Named
  <2> DEFINE From == {job} \cup With_log(job) \cup fatal_error(job)
             To == { IF s.phase = "start" THEN [s EXCEPT !.phase = "run", !.history = 0]
                     ELSE s : s \in From }
  <2>a. Becomes(To) /\ reported' = (job'.phase = "closing")
    BY <1>1 DEF Start
  <2>b. /\ job' \in To /\ status' = "open" /\ fontmaking' \in BOOLEAN
        /\ UNCHANGED <<programs, code, files, wanted>>
    <3> HIDE DEF To
    <3> QED BY <2>1, <2>a, Untouched
  <2>2. PICK s \in {job} \cup With_log(job) \cup fatal_error(job) :
           job' = IF s.phase = "start" THEN [s EXCEPT !.phase = "run", !.history = 0] ELSE s
    BY <2>b
  <2> HIDE DEF From, To
  <2>3. /\ Sound(s)
        /\ \/ s.phase = "start"
           \/ s.phase = "closing" /\ s.history = 3 /\ s.job_name
    BY <2>1, WithLog, FatalError
  <2>4. CASE s.phase = "start"
    <3>1. "run" \in Phases /\ 0 \in 0..3 /\ s \in JobRecord
      BY <2>3 DEF Phases, Sound, Named
    <3>2. job' \in JobRecord
      <4>1. job' = [[s EXCEPT !.phase = "run"] EXCEPT !.history = 0]
        BY <2>2, <2>4
      <4>2. [s EXCEPT !.phase = "run"] \in JobRecord
        BY <3>1, Updated
      <4> QED BY <3>1, <4>1, <4>2, Updated
    <3>3. /\ job'.phase = "run" /\ job'.history = 0 /\ job'.edit = s.edit
          /\ job'.selector = s.selector /\ job'.interaction = s.interaction
          /\ job'.log_opened = s.log_opened /\ job'.job_name = s.job_name
      BY <2>2, <2>4, <3>1 DEF JobRecord
    <3>4. Sound(job')
      BY <2>3, <2>4, <3>2, <3>3 DEF Sound, Named, Edits, Demanded
    <3>5. reported' = FALSE
      BY <2>a, <3>3
    <3>6. Named(job')
      BY <3>4 DEF Sound
    <3>7. /\ job'.history <= warning_issued <=> ~reported'
          /\ job'.history # fatal_error_stop /\ reported' \in BOOLEAN
          /\ job'.phase # "diagnostic" /\ job'.phase # "closing"
          /\ job'.phase \in RunPhases \cup {"closing"}
      <4>1. job'.history <= warning_issued /\ job'.history # fatal_error_stop
        BY <3>3
      <4>2. ~reported' /\ reported' \in BOOLEAN
        BY <3>5
      <4> QED BY <3>3, <4>1, <4>2
    <3> QED BY <2>1, <2>b, <3>4, <3>6, <3>7, Runs
  <2>5. CASE s.phase = "closing"
    <3>1. job' = s /\ reported' = TRUE /\ Named(s)
      BY <1>1, <2>2, <2>5, <2>3 DEF Start, Sound
    <3> QED BY <2>1, <2>3, <2>5, <2>b, <3>1, Runs
  <2> QED BY <2>3, <2>4, <2>5
<1>2. CASE Error
  <2>1. job.phase = "run" /\ job' \in error(job) /\ reported' = TRUE
    BY <1>2, Untouched DEF Error
  <2>2. /\ Sound(job') /\ Named(job') /\ job'.history \in {2, 3}
        /\ \/ job'.phase = "run" /\ job'.history = 2
           \/ job'.phase = "closing"
    BY <2>1, <1>a, AfterError DEF Sound
  <2> QED BY <1>2, <2>1, <2>2, Untouched, Runs DEF Error
<1>3. CASE Fatal
  <2>1. job' \in fatal_error(job) /\ reported' = TRUE
    BY <1>3, Untouched DEF Fatal
  <2>2. Sound(job') /\ Named(job') /\ job'.phase = "closing" /\ job'.history = 3
    BY <2>1, FatalError DEF Sound
  <2> QED BY <1>3, <2>1, <2>2, Untouched, Runs DEF Fatal
<1>4. CASE pause_for_instructions
  <2> DEFINE s == [job EXCEPT !.interaction = 3,
                              !.selector = IF @ \in {0, 2} THEN @ + 1 ELSE @]
  <2>1. job.phase = "run" /\ job' \in error(s) /\ reported' = TRUE
    BY <1>4, Untouched DEF pause_for_instructions
  <2>2. PICK x \in 0..3 : x = IF job.selector \in {0, 2} THEN job.selector + 1 ELSE job.selector
    BY DEF JobRecord
  <2>3. /\ s.phase = "run" /\ s.history = job.history /\ s.interaction = 3 /\ s.selector = x
        /\ s.log_opened = job.log_opened /\ s.job_name = job.job_name /\ s.edit = job.edit
    BY <2>1, <2>2 DEF JobRecord
  <2>4. s \in JobRecord
    <3>1. s = [[job EXCEPT !.interaction = 3] EXCEPT !.selector = x]
      BY <2>2
    <3>2. 3 \in 0..3
      OBVIOUS
    <3> HIDE DEF s
    <3>3. [job EXCEPT !.interaction = 3] \in JobRecord
      BY <3>2, Updated
    <3> QED BY <3>1, <3>3, Updated
  <2> HIDE DEF s
  <2>5. Sound(s)
    BY <1>a, <2>1, <2>2, <2>3, <2>4 DEF Sound, Named, Edits, Demanded, Initial_selector
  <2>6. /\ Sound(job') /\ Named(job') /\ job'.history \in {2, 3}
        /\ \/ job'.phase = "run" /\ job'.history = 2
           \/ job'.phase = "closing"
    BY <1>a, <2>1, <2>3, <2>5, AfterError DEF Sound
  <2> QED BY <1>4, <2>1, <2>6, Untouched, Runs DEF pause_for_instructions
<1>5. CASE Mode_command
  <2>1. PICK c \in 0..3 :
           Becomes({[job EXCEPT !.interaction = c,
                                !.selector = Initial_selector(c) + (IF job.log_opened THEN 2 ELSE 0)]})
    BY <1>5 DEF Mode_command
  <2>2. PICK x \in 0..3 : x = Initial_selector(c) + (IF job.log_opened THEN 2 ELSE 0)
    BY DEF Initial_selector
  <2>3. job' = [[job EXCEPT !.interaction = c] EXCEPT !.selector = x]
    BY <2>1, <2>2, Untouched
  <2>4. job' \in JobRecord
    <3>1. [job EXCEPT !.interaction = c] \in JobRecord
      BY Updated
    <3> QED BY <2>3, <3>1, Updated
  <2>5. /\ job'.phase = "run" /\ job'.history = job.history /\ job'.interaction = c
        /\ job'.selector = x /\ job'.edit = job.edit
        /\ job'.log_opened = job.log_opened /\ job'.job_name = job.job_name
        /\ reported' = reported /\ job.phase = "run"
    BY <1>5, <2>3 DEF JobRecord, Mode_command
  <2>6. Sound(job') /\ Named(job')
    BY <1>a, <2>2, <2>4, <2>5 DEF Sound, Named, Edits, Demanded
  <2> QED BY <1>a, <2>1, <2>5, <2>6, Untouched, Runs DEF Honest
<1>6. CASE End_statement
  <2>1. job' = [job EXCEPT !.error_count = 0] /\ job.phase = "run"
    BY <1>6, Untouched DEF End_statement
  <2>2. job' \in JobRecord
    BY <2>1, Updated
  <2>3. /\ job'.phase = "run" /\ job'.history = job.history /\ job'.interaction = job.interaction
        /\ job'.selector = job.selector /\ job'.edit = job.edit
        /\ job'.log_opened = job.log_opened /\ job'.job_name = job.job_name
        /\ reported' = reported
    BY <1>6, <2>1 DEF JobRecord, End_statement
  <2>4. Sound(job') /\ Named(job')
    BY <1>a, <2>1, <2>2, <2>3 DEF Sound, Named, Edits, Demanded
  <2> QED BY <1>6, <1>a, <2>1, <2>3, <2>4, Untouched, Runs DEF Honest, End_statement
<1>7. CASE begin_diagnostic
  <2>1. /\ job.phase = "run" /\ old_setting' = job.selector /\ reported' = reported
        /\ status' = "open" /\ fontmaking' \in BOOLEAN
        /\ UNCHANGED <<programs, code, files, wanted>>
    BY <1>7 DEF begin_diagnostic, JobInv, FilesSound, Same_files, files_vars, Rest_unchanged, vars
  <2>2. PICK x \in 0..3, h \in 0..3 :
           /\ job' = [[[job EXCEPT !.phase = "diagnostic"] EXCEPT !.selector = x] EXCEPT !.history = h]
           /\ h = job.history \/ (job.history = 0 /\ h = 1)
    <3>1. CASE job' = [job EXCEPT !.phase = "diagnostic"]
      BY <3>1 DEF JobRecord
    <3>2. CASE job' = [job EXCEPT !.phase = "diagnostic", !.selector = 2,
                                  !.history = IF @ = 0 THEN 1 ELSE @]
      <4>1. PICK h \in 0..3 : h = IF job.history = 0 THEN 1 ELSE job.history
        BY DEF JobRecord
      <4>2. job' = [job EXCEPT !.phase = "diagnostic", !.selector = 2, !.history = h]
        BY <3>2, <4>1
      <4>3. job' = [[[job EXCEPT !.phase = "diagnostic"] EXCEPT !.selector = 2] EXCEPT !.history = h]
        BY <4>2
      <4>4. 2 \in 0..3
        OBVIOUS
      <4> WITNESS 2 \in 0..3, h \in 0..3
      <4> QED BY <4>1, <4>3
    <3> QED BY <1>7, <3>1, <3>2 DEF begin_diagnostic
  <2>3. job' \in JobRecord
    <3>1. "diagnostic" \in Phases
      BY DEF Phases
    <3>2. [job EXCEPT !.phase = "diagnostic"] \in JobRecord
      BY <3>1, Updated
    <3>3. [[job EXCEPT !.phase = "diagnostic"] EXCEPT !.selector = x] \in JobRecord
      BY <3>2, Updated
    <3> QED BY <2>2, <3>3, Updated
  <2>4. /\ job'.phase = "diagnostic" /\ job'.history = h /\ job'.interaction = job.interaction
        /\ job'.edit = job.edit
        /\ job'.log_opened = job.log_opened /\ job'.job_name = job.job_name
    BY <2>2 DEF JobRecord
  <2>5. Named(job') /\ old_setting' = Demanded(job')
    BY <1>a, <2>1, <2>3, <2>4 DEF Sound, Named, Edits, Demanded
  <2> QED BY <1>a, <2>1, <2>2, <2>4, <2>5, Runs DEF Honest
<1>8. CASE end_diagnostic
  <2>1. /\ job' = [[job EXCEPT !.phase = "run"] EXCEPT !.selector = old_setting]
        /\ job.phase = "diagnostic" /\ reported' = reported
    BY <1>8, Untouched DEF end_diagnostic
  <2>2. old_setting = Demanded(job) /\ old_setting \in 0..3 /\ Honest /\ job.history # 3
    BY <2>1 DEF JobInv, JobSound, Demanded, Initial_selector
  <2>3. job' \in JobRecord
    <3>1. "run" \in Phases
      BY DEF Phases
    <3>2. [job EXCEPT !.phase = "run"] \in JobRecord
      BY <3>1, Updated
    <3> QED BY <2>1, <2>2, <3>2, Updated
  <2>4. /\ job'.phase = "run" /\ job'.history = job.history /\ job'.interaction = job.interaction
        /\ job'.selector = old_setting /\ job'.edit = job.edit
        /\ job'.log_opened = job.log_opened /\ job'.job_name = job.job_name
    BY <2>1 DEF JobRecord
  <2>5. Sound(job') /\ Named(job')
    BY <2>1, <2>2, <2>3, <2>4 DEF Sound, Named, Edits, Demanded
  <2> QED BY <1>8, <2>1, <2>2, <2>4, <2>5, Untouched, Runs DEF Honest, end_diagnostic
<1> QED BY <1>1, <1>2, <1>3, <1>4, <1>5, <1>6, <1>7, <1>8

\* The steps that open files or put bytes out, and the last statement.
LEMMA OpeningInv ==
  ASSUME JobInv, Input \/ Set_fontmaking \/ init_gf \/ Byte_out \/ Finish
  PROVE  JobInv'
<1> USE DEF batch_mode, error_stop_mode, no_print, term_only, log_only,
            spotless, warning_issued, fatal_error_stop
<1>0. /\ job.phase = "run" /\ reported \in BOOLEAN /\ status = "open" /\ fontmaking \in BOOLEAN
      /\ Named(job) /\ job \in JobRecord /\ Sound(job) /\ Honest /\ job.history # 3 /\ ~job.edit
  BY DEF JobInv, JobSound, FilesSound, Named, Edits, Input, Set_fontmaking, init_gf, Byte_out,
         Finish, RunPhases
<1> USE <1>0 DEF RunPhases
<1>a. ASSUME NEW s, s \in With_log(job) \/ (job.selector < 2 /\ s \in open_log_file(job))
      PROVE  /\ Sound(s) /\ Named(s)
             /\ \/ s.phase = "run" /\ s.history = job.history
                \/ s.phase = "closing" /\ s.history = 3
             /\ s \in With_log(job) => s.job_name
  <2>1. CASE s \in With_log(job)
    BY <2>1, WithLog DEF Sound
  <2>2. CASE job.selector < 2 /\ s \in open_log_file(job)
    <3>1. ~job.log_opened
      BY <2>2 DEF Sound, Demanded, Initial_selector
    <3> QED BY <2>2, <3>1, Opened DEF Sound, With_log
  <2> QED BY <1>a, <2>1, <2>2
<1>1. CASE Input
  <2>1. /\ \/ Becomes(With_log(job))
           \/ Becomes(IF job.selector < 2 THEN open_log_file(job) ELSE {job})
        /\ reported' = (reported \/ job'.phase = "closing")
    BY <1>1 DEF Input
  <2>2. job' \in With_log(job) \/ (job.selector < 2 /\ job' \in open_log_file(job)) \/ job' = job
    <3>1. CASE Becomes(With_log(job))
      BY <3>1, Untouched
    <3>2. CASE Becomes(IF job.selector < 2 THEN open_log_file(job) ELSE {job})
      BY <3>2, Untouched
    <3> QED BY <2>1, <3>1, <3>2
  <2>3. /\ status' = "open" /\ fontmaking' \in BOOLEAN
        /\ UNCHANGED <<programs, code, files, wanted>>
    BY <2>1, Untouched
  <2>4. /\ Sound(job') /\ Named(job')
        /\ \/ job'.phase = "run" /\ job'.history = job.history
           \/ job'.phase = "closing" /\ job'.history = 3
    BY <2>2, <1>a
  <2>5. CASE job'.phase = "run"
    <3>1. reported' = reported
      BY <2>1, <2>5
    <3> QED BY <2>3, <2>4, <2>5, <3>1, Runs DEF Honest
  <2>6. CASE job'.phase = "closing" /\ job'.history = 3
    <3>1. reported' = TRUE
      BY <2>1, <2>6
    <3> QED BY <2>3, <2>4, <2>6, <3>1, Runs
  <2> QED BY <2>4, <2>5, <2>6
<1>2. CASE Set_fontmaking
  <2>1. /\ UNCHANGED <<job, reported, programs, code, files, wanted, status>>
        /\ fontmaking' \in BOOLEAN
    BY <1>2 DEF Set_fontmaking, Rest_unchanged, vars
  <2>2. Sound(job') /\ Named(job') /\ job'.phase = "run"
    BY <2>1
  <2> QED BY <2>1, <2>2, Runs DEF Honest
<1>3. CASE init_gf
  <2>1. /\ job' \in UNION {{s} \cup (IF s.phase = "run" THEN fatal_error(s) ELSE {}) :
                              s \in With_log(job)}
        /\ reported' = (reported \/ job'.phase = "closing")
        /\ status' = "open" /\ fontmaking' \in BOOLEAN
        /\ UNCHANGED <<programs, code, files, wanted>>
    BY <1>3 DEF init_gf, Rest_unchanged, vars
  <2>2. PICK s \in With_log(job) : job' = s \/ job' \in fatal_error(s)
    BY <2>1
  <2>3. /\ Sound(job') /\ Named(job')
        /\ \/ job'.phase = "run" /\ job'.history = job.history
           \/ job'.phase = "closing" /\ job'.history = 3
    <3>1. CASE job' = s
      BY <3>1, <1>a
    <3>2. CASE job' \in fatal_error(s)
      BY <3>2, <1>a, FatalError DEF Sound
    <3> QED BY <2>2, <3>1, <3>2
  <2>4. CASE job'.phase = "run"
    <3>1. reported' = reported
      BY <2>1, <2>4
    <3> QED BY <2>1, <2>3, <2>4, <3>1, Runs DEF Honest
  <2>5. CASE job'.phase = "closing" /\ job'.history = 3
    <3>1. reported' = TRUE
      BY <2>1, <2>5
    <3> QED BY <2>1, <2>3, <2>5, <3>1, Runs
  <2> QED BY <2>3, <2>4, <2>5
<1>4. CASE Byte_out
  <2>1. /\ Exits /\ UNCHANGED <<old_setting, fontmaking, files, wanted, programs, reported>>
        /\ status' \in {"open", "exited"}
    BY <1>4 DEF Byte_out, Put_byte, OutByte, gf_out, Store, Swap, SwapFails
  <2>2. CASE status' = "open"
    <3>1. UNCHANGED <<job, code>>
      BY <2>1, <2>2 DEF Exits
    <3>2. Sound(job') /\ Named(job') /\ job'.phase = "run"
      BY <3>1
    <3> QED BY <2>1, <2>2, <3>1, <3>2, Runs DEF Honest
  <2>3. CASE status' = "exited"
    <3>1. job' = [job EXCEPT !.phase = "over"] /\ code' = 1
      BY <2>1, <2>3 DEF Exits
    <3>2. job' \in JobRecord
      <4>1. "over" \in Phases
        BY DEF Phases
      <4> QED BY <3>1, <4>1, Updated
    <3>3. /\ job'.phase = "over" /\ job'.edit = job.edit
          /\ job'.log_opened = job.log_opened /\ job'.job_name = job.job_name
      BY <3>1 DEF JobRecord
    <3>4. Named(job')
      BY <3>2, <3>3 DEF Named, Edits
    <3>5. JobSound'
      BY <3>3, <3>4 DEF JobSound, ClosingPhases
    <3>6. files.tfm = 0 /\ ~wanted
      BY DEF JobInv, FilesSound
    <3>7. ClosedRight'
      BY <2>1, <2>3, <3>1, <3>6 DEF ClosedRight
    <3>8. FilesSound'
      BY <2>1, <2>3, <3>3 DEF JobInv, FilesSound, ClosingPhases
    <3> QED BY <3>5, <3>7, <3>8 DEF JobInv
  <2> QED BY <2>1, <2>2, <2>3
<1>5. CASE Finish
  <2> DEFINE To == {jump_out(s) : s \in With_log(job)}
  <2>1. Becomes(To) /\ reported' = (reported \/ job'.history = 3)
    BY <1>5 DEF Finish
  <2>2. /\ job' \in To /\ status' = "open" /\ fontmaking' \in BOOLEAN
        /\ UNCHANGED <<programs, code, files, wanted>>
    <3> HIDE DEF To
    <3> QED BY <2>1, Untouched
  <2>3. PICK s \in With_log(job) : job' = [s EXCEPT !.phase = "closing"]
    BY <2>2 DEF jump_out
  <2> HIDE DEF To
  <2>4. /\ Sound(s) /\ s \in JobRecord /\ s.job_name
        /\ s.history = job.history \/ s.history = 3
    BY <1>a DEF Named
  <2>5. job' \in JobRecord
    <3>1. "closing" \in Phases
      BY DEF Phases, ClosingPhases
    <3> QED BY <2>3, <2>4, <3>1, Updated
  <2>6. /\ job'.phase = "closing" /\ job'.history = s.history /\ job'.interaction = s.interaction
        /\ job'.selector = s.selector /\ job'.edit = s.edit
        /\ job'.log_opened = s.log_opened /\ job'.job_name = s.job_name
    BY <2>3, <2>4 DEF JobRecord
  <2>7. Sound(job') /\ Named(job')
    BY <2>4, <2>5, <2>6 DEF Sound, Named, Edits, Demanded
  <2>8. reported' \in BOOLEAN
    BY <2>1
  <2>9. job'.history <= 1 <=> ~reported'
    <3>1. CASE job'.history = 3
      <4>1. reported' = TRUE
        BY <2>1, <3>1
      <4> QED BY <3>1, <4>1
    <3>2. CASE job'.history # 3
      <4>1. job'.history = job.history
        BY <2>4, <2>6, <3>2
      <4>2. reported' = reported
        BY <2>1, <3>2
      <4> QED BY <4>1, <4>2 DEF Honest
    <3> QED BY <3>1, <3>2
  <2> QED BY <2>2, <2>4, <2>6, <2>7, <2>8, <2>9, Runs
<1> QED BY <1>1, <1>2, <1>3, <1>4, <1>5

-----------------------------------------------------------------------------
\* A phase that only follows another keeps the rest of the job.
LEMMA Goes ==
  ASSUME Named(job), NEW p \in ClosingPhases, Goto(p)
  PROVE  /\ Named(job') /\ job'.phase = p
         /\ job'.selector = job.selector /\ job'.interaction = job.interaction
         /\ job'.log_opened = job.log_opened /\ job'.job_name = job.job_name
         /\ job'.history = job.history /\ job'.edit = job.edit
         /\ Demanded(job') = Demanded(job)
<1>1. job \in JobRecord /\ p \in Phases /\ job' = [job EXCEPT !.phase = p]
  BY DEF Named, Goto, Phases
<1>2. job' \in JobRecord
  BY <1>1, Updated
<1>3. /\ job'.phase = p
      /\ job'.selector = job.selector /\ job'.interaction = job.interaction
      /\ job'.log_opened = job.log_opened /\ job'.job_name = job.job_name
      /\ job'.history = job.history /\ job'.edit = job.edit
  BY <1>1 DEF JobRecord
<1>4. p \notin {"start"} \cup RunPhases
  BY DEF ClosingPhases, RunPhases
<1> QED BY <1>2, <1>3, <1>4 DEF Named, Edits, Demanded

\* The tables of the font metric file.
LEMMA MetricInv ==
  ASSUME JobInv, Massage \/ Sort_and_skimp \/ Widths_done \/ Heights_done
  PROVE  JobInv'
<1>0. /\ job.phase \in {"closing", "widths", "heights"}
      /\ Named(job) /\ job.selector = Demanded(job) /\ Honest /\ (~reported => job.job_name)
      /\ status = "open" /\ files.log = 0 /\ programs = 0 /\ code = -1
      /\ reported \in BOOLEAN /\ wanted \in BOOLEAN /\ fontmaking \in BOOLEAN
      /\ files \in [tfm : Nat, log : Nat]
      /\ files.tfm = 0 \/ (files.tfm = 1 /\ wanted /\ ~fontmaking)
      /\ UNCHANGED <<old_setting, gf, programs, code, reported, fontmaking, files, status>>
  BY DEF JobInv, JobSound, FilesSound, Sound, Massage, Sort_and_skimp, Widths_done, Heights_done,
         Same_job, ClosingPhases, vars
<1> USE <1>0
\* The phases that follow are sound and honest as well.
<1>a. ASSUME NEW p \in {"widths", "heights", "tfm", "gf", "log"}, Goto(p)
      PROVE  /\ JobSound' /\ ClosedRight' /\ job'.phase = p
  <2>1. p \in ClosingPhases
    BY DEF ClosingPhases
  <2>2. /\ Named(job') /\ job'.phase = p /\ job'.selector = Demanded(job')
        /\ job'.history = job.history /\ job'.job_name = job.job_name
    BY <1>a, <2>1, Goes
  <2>3. Honest'
    BY <2>2 DEF Honest
  <2> QED BY <2>2, <2>3 DEF JobSound, ClosedRight, RunPhases, Sound
<1>1. CASE Massage
  <2>1. wanted' = (wanted \/ fontmaking) /\ (~reported => ~wanted)
    BY <1>1 DEF Massage, JobInv, FilesSound
  <2>2. CASE Goto("widths")
    <3>1. FilesSound'
      BY <2>1, <2>2, <1>a DEF FilesSound, RunPhases, ClosingPhases
    <3> QED BY <2>2, <3>1, <1>a DEF JobInv
  <2>3. CASE Goto("log") /\ gf # "started" /\ ~fontmaking
    <3>1. FilesSound'
      BY <2>1, <2>3, <1>a DEF FilesSound, RunPhases, ClosingPhases
    <3> QED BY <2>3, <3>1, <1>a DEF JobInv
  <2> QED BY <1>1, <2>2, <2>3 DEF Massage, GF_started
<1>2. CASE Sort_and_skimp
  <2>1. UNCHANGED <<job, wanted>>
    BY <1>2 DEF Sort_and_skimp
  <2> QED BY <2>1 DEF JobInv, JobSound, FilesSound, ClosedRight, Sound, Named, Edits, Demanded, Honest
<1>3. CASE Widths_done
  <2>1. job.phase = "widths" /\ wanted' = wanted
    BY <1>3 DEF Widths_done
  <2>2. (fontmaking => wanted) /\ (~reported => (wanted => fontmaking))
    BY <2>1 DEF JobInv, FilesSound
  <2>3. CASE Goto("heights") /\ fontmaking
    <3>1. FilesSound'
      BY <2>1, <2>2, <2>3, <1>a DEF FilesSound, RunPhases, ClosingPhases
    <3> QED BY <2>3, <3>1, <1>a DEF JobInv
  <2>4. CASE Goto("gf") /\ ~fontmaking
    <3>1. FilesSound'
      BY <2>1, <2>2, <2>4, <1>a DEF FilesSound, RunPhases, ClosingPhases
    <3> QED BY <2>4, <3>1, <1>a DEF JobInv
  <2> QED BY <1>3, <2>3, <2>4 DEF Widths_done
<1>4. CASE Heights_done
  <2>1. job.phase = "heights" /\ wanted' = wanted /\ Goto("tfm")
    BY <1>4 DEF Heights_done
  <2>2. fontmaking /\ wanted
    BY <2>1 DEF JobInv, FilesSound
  <2>3. FilesSound'
    BY <2>1, <2>2, <1>a DEF FilesSound, RunPhases, ClosingPhases
  <2> QED BY <2>1, <2>3, <1>a DEF JobInv
<1> QED BY <1>1, <1>2, <1>3, <1>4

\* The font metric file is finished, or closing starts again.
LEMMA TFMInv == ASSUME JobInv, Finish_TFM PROVE JobInv'
<1> USE DEF fatal_error_stop, warning_issued
<1>0. /\ job.phase = "tfm" /\ Sound(job) /\ Honest /\ (~reported => job.job_name)
      /\ status = "open" /\ files.log = 0 /\ programs = 0 /\ code = -1
      /\ reported \in BOOLEAN /\ wanted /\ wanted \in BOOLEAN /\ fontmaking' = FALSE
      /\ files \in [tfm : Nat, log : Nat] /\ files.tfm = 0
      /\ UNCHANGED <<gf, programs, code, wanted, status>>
  BY DEF JobInv, JobSound, FilesSound, Finish_TFM, Avoid_loop, vars, ClosingPhases, RunPhases
<1>1. PICK s \in With_log(job) :
         \/ /\ s.phase = "tfm" /\ job' = [s EXCEPT !.phase = "gf"]
            /\ files' = [files EXCEPT !.tfm = @ + 1] /\ reported' = reported
         \/ /\ job' \in IF s.phase = "tfm" THEN fatal_error(s) ELSE {s}
            /\ reported' = TRUE /\ files' = files
  BY DEF Finish_TFM
<1>2. /\ Sound(s) /\ Named(s) /\ s \in JobRecord /\ s.job_name
      /\ \/ s.phase = "tfm" /\ s.history = job.history
         \/ s.phase = "closing" /\ s.history = 3
  BY <1>0, <1>1, WithLog DEF Sound, Named
<1>3. CASE /\ s.phase = "tfm" /\ job' = [s EXCEPT !.phase = "gf"]
           /\ files' = [files EXCEPT !.tfm = @ + 1] /\ reported' = reported
  <2>1. job' \in JobRecord
    <3>1. "gf" \in Phases
      BY DEF Phases, ClosingPhases
    <3> QED BY <1>2, <1>3, <3>1, Updated
  <2>2. /\ job'.phase = "gf" /\ job'.history = job.history /\ job'.interaction = s.interaction
        /\ job'.selector = s.selector /\ job'.edit = s.edit
        /\ job'.log_opened = s.log_opened /\ job'.job_name = s.job_name /\ s.history = job.history
    BY <1>2, <1>3 DEF JobRecord
  <2>3. Sound(job') /\ Named(job')
    BY <1>2, <1>3, <2>1, <2>2 DEF Sound, Named, Edits, Demanded, RunPhases
  <2>4. Honest'
    BY <1>0, <1>3, <2>2 DEF Honest
  <2>5. JobSound' /\ ClosedRight'
    BY <1>2, <2>2, <2>3, <2>4 DEF JobSound, ClosedRight, RunPhases
  <2>6. files'.tfm = 1 /\ files'.log = 0 /\ files' \in [tfm : Nat, log : Nat]
    BY <1>0, <1>3
  <2>7. FilesSound'
    BY <1>0, <1>3, <2>2, <2>6 DEF FilesSound, RunPhases, ClosingPhases
  <2> QED BY <2>5, <2>7 DEF JobInv
<1>4. CASE /\ job' \in IF s.phase = "tfm" THEN fatal_error(s) ELSE {s}
           /\ reported' = TRUE /\ files' = files
  <2>1. Sound(job') /\ job'.phase = "closing" /\ job'.history = 3
    BY <1>2, <1>4, FatalError
  <2>2. Honest'
    BY <1>4, <2>1 DEF Honest
  <2>3. JobSound' /\ ClosedRight'
    BY <1>4, <2>1, <2>2 DEF JobSound, ClosedRight, RunPhases, Sound
  <2>4. FilesSound'
    BY <1>0, <1>4, <2>1 DEF FilesSound, RunPhases, ClosingPhases
  <2> QED BY <2>3, <2>4 DEF JobInv
<1> QED BY <1>1, <1>3, <1>4

\* The end of the GF file, of the transcript and of the program.
LEMMA EndsInv ==
  ASSUME JobInv, Finish_GF \/ Close_log \/ End_program \/ No_start
  PROVE  JobInv'
<1> USE DEF batch_mode, no_print, term_only, log_only, spotless, warning_issued
<1>0. /\ Named(job) /\ job \in JobRecord /\ reported' = reported /\ reported \in BOOLEAN
      /\ wanted' = wanted /\ wanted \in BOOLEAN /\ fontmaking \in BOOLEAN /\ fontmaking' = fontmaking
      /\ files \in [tfm : Nat, log : Nat] /\ gf' = gf /\ programs = 0 /\ code = -1
      /\ status \in {"open", "closed", "exited"} /\ status # "exited"
  BY DEF JobInv, JobSound, FilesSound, Named, Finish_GF, Close_log, End_program, No_start,
         Same_job, Same_files, files_vars
<1>a. ASSUME job.phase \in {"gf", "log"}
      PROVE  /\ job.selector = Demanded(job) /\ Honest /\ (~reported => job.job_name)
             /\ files.tfm = 0 \/ (files.tfm = 1 /\ wanted /\ ~fontmaking)
             /\ files.log = 0 /\ (~reported => (wanted => files.tfm = 1))
  BY <1>a DEF JobInv, JobSound, FilesSound, Sound, ClosingPhases
\* The end, when nothing more is to be printed.
<1>b. ASSUME job' = [job EXCEPT !.phase = "over"]
      PROVE  /\ JobSound' /\ job'.phase = "over" /\ job'.log_opened = job.log_opened
             /\ job'.job_name = job.job_name /\ job'.edit = job.edit /\ job'.selector = job.selector
  <2>1. job' \in JobRecord
    <3>1. "over" \in Phases
      BY DEF Phases
    <3> QED BY <1>0, <1>b, <3>1, Updated
  <2>2. /\ job'.phase = "over" /\ job'.edit = job.edit /\ job'.history = job.history
        /\ job'.interaction = job.interaction /\ job'.selector = job.selector
        /\ job'.log_opened = job.log_opened /\ job'.job_name = job.job_name
    BY <1>0, <1>b DEF JobRecord
  <2>3. Named(job')
    BY <1>0, <2>1, <2>2 DEF Named, Edits, RunPhases
  <2> QED BY <2>2, <2>3 DEF JobSound, ClosingPhases, RunPhases
<1>1. CASE Finish_GF
  <2>1. /\ job.phase = "gf" /\ status = "open" /\ UNCHANGED <<programs, files>>
    BY <1>1 DEF Finish_GF, JobInv, FilesSound, files_vars
  <2>2. CASE Goto("log") /\ code' = code /\ status' = (IF gf = "started" THEN "closed" ELSE "open")
    <3>1. "log" \in ClosingPhases
      BY DEF ClosingPhases
    <3>2. /\ Named(job') /\ job'.phase = "log" /\ job'.selector = Demanded(job')
          /\ job'.history = job.history /\ job'.job_name = job.job_name
      BY <1>0, <1>a, <2>1, <2>2, <3>1, Goes
    <3>3. Honest'
      BY <1>0, <1>a, <2>1, <3>2 DEF Honest
    <3>4. JobSound' /\ ClosedRight'
      BY <1>0, <1>a, <2>1, <3>2, <3>3 DEF JobSound, ClosedRight, RunPhases, Sound
    <3>5. FilesSound'
      BY <1>0, <1>a, <2>1, <2>2, <3>2 DEF FilesSound, RunPhases, ClosingPhases
    <3> QED BY <3>4, <3>5 DEF JobInv
  <2>3. CASE UNCHANGED <<job, code>> /\ status' = "open"
    BY <1>0, <2>1, <2>3
    DEF JobInv, JobSound, FilesSound, ClosedRight, Sound, Named, Edits, Demanded, Honest
  <2>4. CASE job' = [job EXCEPT !.phase = "over"] /\ code' = 1 /\ status' = "exited"
    <3>1. /\ JobSound' /\ job'.phase = "over" /\ job'.log_opened = job.log_opened
          /\ job'.job_name = job.job_name /\ job'.edit = job.edit
      BY <2>4, <1>b
    <3>2. ClosedRight'
      BY <1>0, <1>a, <2>1, <2>4, <3>1 DEF ClosedRight
    <3>3. FilesSound'
      BY <1>0, <2>1, <2>4, <3>1 DEF FilesSound, RunPhases, ClosingPhases
    <3> QED BY <3>1, <3>2, <3>3 DEF JobInv
  <2>5. CASE gf = "started"
    <3>1. status' \in {"open", "closed", "exited"}
      BY <1>1, <2>1, <2>5 DEF Finish_GF, GF_started, Put_byte, OutByte, EndJob, PadByte, Empty,
         EmptyFails, gf_out, Store, Swap, SwapFails
    <3>2. IF status' = "closed" THEN Goto("log") /\ code' = code ELSE Exits
      BY <1>1, <2>5 DEF Finish_GF, GF_started
    <3> QED BY <2>2, <2>3, <2>4, <2>5, <3>1, <3>2 DEF Exits
  <2>6. CASE gf # "started"
    BY <1>1, <2>1, <2>2, <2>6 DEF Finish_GF, GF_started, vars
  <2> QED BY <2>5, <2>6
<1>2. CASE Close_log
  <2>1. /\ job.phase = "log" /\ status' = status /\ UNCHANGED <<programs, code>>
        /\ status = (IF gf = "started" THEN "closed" ELSE "open")
    BY <1>2 DEF Close_log, JobInv, FilesSound, Same_job, vars
  <2>2. CASE /\ job.log_opened /\ job' = [job EXCEPT !.phase = "script", !.selector = @ - 2]
             /\ files' = [files EXCEPT !.log = @ + 1]
    <3>1. job.selector \in {2, 3} /\ job.selector - 2 \in 0..3
      BY <1>0, <1>a, <2>1, <2>2 DEF Demanded, Initial_selector
    <3>2. job' \in JobRecord
      <4>1. "script" \in Phases
        BY DEF Phases, ClosingPhases
      <4>2. [job EXCEPT !.phase = "script"] \in JobRecord
        BY <1>0, <4>1, Updated
      <4>3. job' = [[job EXCEPT !.phase = "script"] EXCEPT !.selector = job.selector - 2]
        BY <2>2
      <4>4. job.selector - 2 \in 0..3
        BY <3>1
      <4> QED BY <4>2, <4>3, <4>4, Updated
    <3>3. /\ job'.phase = "script" /\ job'.history = job.history /\ job'.interaction = job.interaction
          /\ job'.selector \in {0, 1} /\ job'.edit = job.edit
          /\ job'.log_opened = job.log_opened /\ job'.job_name = job.job_name
      <4>1. job'.selector = job.selector - 2
        BY <1>0, <2>2 DEF JobRecord
      <4>2. job'.selector \in {0, 1}
        BY <3>1, <4>1
      <4> QED BY <1>0, <2>2, <4>2 DEF JobRecord
    <3>4. Named(job') /\ Honest'
      BY <1>0, <1>a, <2>1, <3>2, <3>3 DEF Named, Edits, Honest, RunPhases
    <3>5. JobSound' /\ ClosedRight'
      BY <1>0, <1>a, <2>1, <3>3, <3>4 DEF JobSound, ClosedRight, RunPhases
    <3>6. files'.tfm = files.tfm /\ files'.log = 1 /\ files' \in [tfm : Nat, log : Nat]
      BY <1>0, <1>a, <2>1, <2>2
    <3>7. FilesSound'
      BY <1>0, <1>a, <2>1, <2>2, <3>3, <3>6 DEF FilesSound, RunPhases, ClosingPhases
    <3> QED BY <3>5, <3>7 DEF JobInv
  <2>3. CASE ~job.log_opened /\ Goto("script") /\ files' = files
    <3>1. "script" \in ClosingPhases
      BY DEF ClosingPhases
    <3>2. /\ Named(job') /\ job'.phase = "script" /\ job'.selector = job.selector
          /\ job'.log_opened = job.log_opened
          /\ job'.history = job.history /\ job'.job_name = job.job_name
      BY <1>0, <2>3, <3>1, Goes
    <3>3. job'.selector \in {0, 1}
      BY <1>0, <1>a, <2>1, <2>3, <3>2 DEF Demanded, Initial_selector
    <3>4. Honest'
      BY <1>0, <1>a, <2>1, <3>2 DEF Honest
    <3>5. JobSound' /\ ClosedRight'
      BY <1>0, <1>a, <2>1, <3>2, <3>3, <3>4 DEF JobSound, ClosedRight, RunPhases
    <3>6. FilesSound'
      BY <1>0, <1>a, <2>1, <2>3, <3>2 DEF FilesSound, RunPhases, ClosingPhases
    <3> QED BY <3>5, <3>6 DEF JobInv
  <2> QED BY <1>2, <2>2, <2>3 DEF Close_log
<1>3. CASE End_program
  <2>1. /\ job.phase = "script" /\ status' = status /\ files' = files
        /\ job' = [job EXCEPT !.phase = "over"]
        /\ status = (IF gf = "started" THEN "closed" ELSE "open")
        /\ job.selector \in {0, 1} /\ Honest /\ (~reported => job.job_name)
        /\ files.log = (IF job.log_opened THEN 1 ELSE 0)
        /\ files.tfm = 0 \/ (files.tfm = 1 /\ wanted /\ ~fontmaking)
        /\ ~reported => (wanted => files.tfm = 1)
    BY <1>3 DEF End_program, Goto, JobInv, JobSound, FilesSound, files_vars, vars, ClosingPhases
  <2>2. /\ JobSound' /\ job'.phase = "over" /\ job'.log_opened = job.log_opened
        /\ job'.job_name = job.job_name /\ job'.edit = job.edit /\ job'.selector = job.selector
    BY <2>1, <1>b
  <2>3. FilesSound'
    BY <1>0, <2>1, <2>2 DEF FilesSound, RunPhases, ClosingPhases
  <2>4. job.history \in 0..3
    BY <1>0 DEF JobRecord
  <2>5. CASE job.edit
    <3>1. code' = 1 /\ programs' = 0 /\ ~(job.history <= 1)
      BY <1>0, <1>3, <2>4, <2>5 DEF End_program, Named, Edits, JobRecord
    <3>2. reported
      BY <2>1, <3>1 DEF Honest
    <3>3. ClosedRight'
      BY <1>0, <2>1, <2>2, <2>5, <3>1, <3>2 DEF ClosedRight
    <3> QED BY <2>2, <2>3, <3>3 DEF JobInv
  <2>6. CASE ~job.edit
    <3>1. code' = Exit_status /\ programs' = 1
      BY <1>0, <1>3, <2>6 DEF End_program
    <3>2. code' = 0 <=> job.history <= 1
      BY <2>4, <3>1 DEF Exit_status
    <3>3. code' = 0 <=> ~reported
      BY <2>1, <3>2 DEF Honest
    <3>4. ClosedRight'
      BY <1>0, <2>1, <2>2, <2>6, <3>1, <3>3 DEF ClosedRight
    <3> QED BY <2>2, <2>3, <3>4 DEF JobInv
  <2> QED BY <2>5, <2>6
<1>4. CASE No_start
  <2>1. /\ job.phase = "start" /\ job' = [job EXCEPT !.phase = "over"] /\ code' = 1
        /\ UNCHANGED <<programs, files, status>> /\ ~reported /\ ~job.job_name
        /\ gf = "none" /\ files.tfm = 0 /\ files.log = 0 /\ ~wanted /\ status = "open"
        /\ Sound(job) /\ ~job.log_opened
    BY <1>4 DEF No_start, JobInv, JobSound, FilesSound, Same_files, files_vars, Rest_unchanged, vars, Named
  <2>2. /\ JobSound' /\ job'.phase = "over" /\ job'.log_opened = job.log_opened
        /\ job'.job_name = job.job_name /\ job'.edit = job.edit /\ job'.selector = job.selector
    BY <2>1, <1>b
  <2>3. job.selector \in {0, 1}
    BY <2>1 DEF Sound, Demanded, Initial_selector
  <2>4. ClosedRight'
    BY <1>0, <2>1, <2>2, <2>3 DEF ClosedRight
  <2>5. FilesSound'
    BY <1>0, <2>1, <2>2 DEF FilesSound, RunPhases, ClosingPhases
  <2> QED BY <2>2, <2>4, <2>5 DEF JobInv
<1> QED BY <1>1, <1>2, <1>3, <1>4

-----------------------------------------------------------------------------
LEMMA JobStep == JobInv /\ [JobNext]_jobVars => JobInv'
<1> SUFFICES ASSUME JobInv, [JobNext]_jobVars PROVE JobInv'
  OBVIOUS
<1>1. CASE Running
  BY <1>1, DialogueInv, OpeningInv, EndsInv DEF Running
<1>2. CASE close_files_and_terminate
  BY <1>2, MetricInv, TFMInv, EndsInv DEF close_files_and_terminate
<1>3. CASE UNCHANGED jobVars
  <2>1. UNCHANGED <<job, old_setting, gf, fontmaking, files, wanted, programs, code, reported, status>>
    BY <1>3 DEF jobVars, files_vars, vars
  <2> QED BY <2>1
      DEF JobInv, JobSound, FilesSound, ClosedRight, Sound, Named, Edits, Demanded, Honest
<1> QED BY <1>1, <1>2, <1>3 DEF JobNext

\* The inductive invariant of a job.
THEOREM JobInvariance == JobSpec => []JobInv
BY JobStarts, JobStep, PTL DEF JobSpec

\* Whenever an error can be reported, the selector is what interaction and
\* the transcript demand: after answers, pauses, diagnostics and failures to
\* open the transcript, and however often closing starts again.
THEOREM SelectorAlwaysRight == JobSpec => []SelectorRight
<1>1. JobInv => SelectorRight
  BY DEF JobInv, JobSound, SelectorRight, Sound, Demanded, RunPhases, ClosingPhases
<1> QED BY <1>1, JobInvariance, PTL

\* However a job ends, files, end script and exit status are right.
THEOREM JobClosedRight == JobSpec => []ClosedRight
<1>1. JobInv => ClosedRight
  BY DEF JobInv
<1> QED BY <1>1, JobInvariance, PTL

\* What a job does to the output buffer is what GFBuffer allows, so that its
\* theorems hold of every job: the parts of a job that put bytes out, and a
\* second run of close_files_and_terminate, never use the buffer otherwise.
THEOREM JobUsesBuffer == JobSpec => Spec
<1>1. JobInit => Init
  BY DEF JobInit
<1>2. [JobNext]_jobVars => [Next]_vars
  <2> SUFFICES ASSUME [JobNext]_jobVars PROVE [Next]_vars
    OBVIOUS
  <2>1. CASE Byte_out
    BY <2>1 DEF Byte_out, Put_byte, Next
  <2>2. CASE Finish_GF
    BY <2>2 DEF Finish_GF, Put_byte, Next
  <2>3. CASE init_gf \/ Set_fontmaking \/ begin_diagnostic \/ No_start
    BY <2>3 DEF init_gf, Set_fontmaking, begin_diagnostic, No_start, Rest_unchanged
  <2>4. CASE Start \/ Error \/ Fatal \/ pause_for_instructions \/ Mode_command
             \/ End_statement \/ Input \/ end_diagnostic \/ Finish
    BY <2>4 DEF Start, Error, Fatal, pause_for_instructions, Mode_command, End_statement, Input,
       end_diagnostic, Finish, Becomes, Rest_unchanged
  <2>5. CASE Massage \/ Sort_and_skimp \/ Widths_done \/ Heights_done \/ Finish_TFM
             \/ Close_log \/ End_program
    BY <2>5 DEF Massage, Sort_and_skimp, Widths_done, Heights_done, Finish_TFM, Close_log, End_program
  <2>6. CASE UNCHANGED jobVars
    BY <2>6 DEF jobVars
  <2> QED BY <2>1, <2>2, <2>3, <2>4, <2>5, <2>6 DEF JobNext, Running, close_files_and_terminate
<1> QED BY <1>1, <1>2, PTL DEF JobSpec, Spec

\* In particular a finished GF file of a job is a whole number of words long,
\* and it has the bytes that the job put out, in their order.
COROLLARY JobWords == JobSpec => []WholeWords /\ StreamSpec
BY JobUsesBuffer, Words, BufferIsStream, PTL

-----------------------------------------------------------------------------
(* Natural numbers: induction for a set, least and greatest members.       *)

Less == {x \in Nat \X Nat : x[1] < x[2]}

\* Every set of natural numbers has a least member.
LEMMA LeastIs ==
  ASSUME NEW S \in SUBSET Nat, S # {}
  PROVE  \E x \in S : \A y \in S : x <= y
<1>1. OpToRel(<, Nat) = Less
  BY DEF OpToRel, Less
<1>2. IsWellFoundedOn(Less, Nat)
  BY <1>1, NatLessThanWellFounded
<1>3. PICK x \in S : \A y \in S : <<y, x>> \notin Less
  BY <1>2, WFMin
<1>4. ASSUME NEW y \in S, ~(x <= y) PROVE FALSE
  <2>1. x \in Nat /\ y \in Nat /\ y < x
    BY <1>4
  <2>2. <<y, x>> \in Less
    BY <2>1 DEF Less
  <2> QED BY <1>3, <2>2
<1> QED BY <1>4

\* A set with 0 and the successors of its members has every natural number.
LEMMA NatSetInduction ==
  ASSUME NEW S, 0 \in S, \A n \in Nat : n \in S => n + 1 \in S
  PROVE  Nat \subseteq S
<1> SUFFICES ASSUME Nat \ S # {} PROVE FALSE
  OBVIOUS
<1>1. PICK x \in Nat \ S : \A y \in Nat \ S : x <= y
  <2>1. Nat \ S \in SUBSET Nat
    OBVIOUS
  <2> QED BY <2>1, LeastIs
<1>2. x - 1 \in Nat /\ x - 1 < x
  BY <1>1
<1>3. (x - 1) + 1 \in S
  BY <1>1, <1>2
<1> QED BY <1>1, <1>3

\* A bounded set of natural numbers has a greatest member.
LEMMA GreatestIs ==
  ASSUME NEW S \in SUBSET Nat, S # {}, NEW n \in Nat, \A y \in S : y <= n
  PROVE  \E x \in S : \A y \in S : x >= y
<1> DEFINE T == {n - y : y \in S}
<1>1. T \in SUBSET Nat /\ T # {}
  <2>1. \A y \in S : n - y \in Nat
    OBVIOUS
  <2> QED BY <2>1
<1>2. PICK t \in T : \A u \in T : t <= u
  <2> HIDE DEF T
  <2> QED BY <1>1, LeastIs
<1>3. PICK x \in S : t = n - x
  OBVIOUS
<1>4. ASSUME NEW y \in S PROVE x >= y
  <2>1. n - y \in T
    OBVIOUS
  <2> HIDE DEF T
  <2>2. t <= n - y /\ x \in Nat /\ y \in Nat
    BY <1>2, <2>1
  <2> QED BY <1>3, <2>2
<1> QED BY <1>4

-----------------------------------------------------------------------------
(* Functions whose values are computed from the next place on.             *)

Follows(f, X, rank, next, base, step, n) ==
    \A x \in X : rank[x] <= n =>
        f[x] = IF rank[x] = 0 THEN base ELSE step[<<x, f[next[x]]>>]

\* Such a function exists, if every next place is nearer to an end.
LEMMA DescentDefined ==
  ASSUME NEW X, NEW rank \in [X -> Nat], NEW next \in [X -> X],
         \A x \in X : rank[x] # 0 => rank[next[x]] < rank[x],
         NEW R, NEW base \in R, NEW step \in [X \X R -> R],
         NEW n \in Nat
  PROVE  \E f \in [X -> R] : Follows(f, X, rank, next, base, step, n)
<1> DEFINE S == {h \in Nat : \E f \in [X -> R] : Follows(f, X, rank, next, base, step, h)}
<1>1. 0 \in S
  <2> DEFINE f == [x \in X |-> base]
  <2>1. f \in [X -> R] /\ Follows(f, X, rank, next, base, step, 0)
    BY DEF Follows
  <2> QED BY <2>1
<1>2. \A h \in Nat : h \in S => h + 1 \in S
  <2> TAKE h \in Nat
  <2> HAVE h \in S
  <2>1. PICK f \in [X -> R] : Follows(f, X, rank, next, base, step, h)
    OBVIOUS
  <2> DEFINE g == [x \in X |-> IF rank[x] = h + 1 THEN step[<<x, f[next[x]]>>] ELSE f[x]]
  <2>2. g \in [X -> R]
    OBVIOUS
  <2>3. ASSUME NEW x \in X, rank[x] <= h + 1
        PROVE  g[x] = IF rank[x] = 0 THEN base ELSE step[<<x, g[next[x]]>>]
    <3>1. rank[x] # 0 => g[next[x]] = f[next[x]]
      <4>1. rank[x] # 0 => rank[next[x]] # h + 1
        BY <2>3
      <4> QED BY <4>1
    <3>2. rank[x] # h + 1 => rank[x] <= h /\ g[x] = f[x]
      BY <2>3
    <3>3. rank[x] = h + 1 => rank[x] # 0 /\ g[x] = step[<<x, f[next[x]]>>]
      OBVIOUS
    <3> HIDE DEF g
    <3> QED BY <2>1, <3>1, <3>2, <3>3 DEF Follows
  <2> HIDE DEF g
  <2>4. Follows(g, X, rank, next, base, step, h + 1)
    BY <2>3 DEF Follows
  <2> QED BY <2>2, <2>4
<1> HIDE DEF S
<1>3. n \in S
  BY <1>1, <1>2, NatSetInduction
<1> QED BY <1>3 DEF S

-----------------------------------------------------------------------------
(* Dimensions: the sorted list and the intervals that cover it.            *)

N == Len(list)

\* The Cardinality of the instance is the usual one.
LEMMA SameCount == ASSUME NEW S PROVE D!Cardinality(S) = Cardinality(S)
BY DEF D!Cardinality, Cardinality

\* The list is in increasing order, and every node still has the value that it
\* is called by.
Sorted ==
    /\ inf \in Int /\ list \in Seq(Int)
    /\ \A i \in 1..N : list[i] < inf
    /\ \A i, j \in 1..N : i < j => list[i] < list[j]
    /\ value = [x \in {list[i] : i \in 1..N} |-> x]

\* An interval of width w that starts at a value ends below inf.
Fit(w) == w \in Nat /\ \A i \in 1..N : list[i] + w < inf

\* The values grow along the list, up to inf behind its end.
LEMMA ValueIs ==
  ASSUME Sorted
  PROVE  /\ N \in Nat
         /\ \A i \in 1..N : D!Value(i) = list[i]
         /\ D!Value(N + 1) = inf
         /\ \A i \in 1..N + 1 : D!Value(i) \in Int
         /\ \A i, j \in 1..N + 1 : i < j => D!Value(i) < D!Value(j)
<1>1. N \in Nat
  BY DEF Sorted, N
<1>2. ASSUME NEW i \in 1..N PROVE D!Value(i) = list[i] /\ list[i] \in Int
  BY <1>1 DEF Sorted, D!Value, N
<1>3. D!Value(N + 1) = inf /\ inf \in Int
  BY <1>1 DEF Sorted, D!Value, N
<1>4. ASSUME NEW i \in 1..N + 1, NEW j \in 1..N + 1, i < j PROVE D!Value(i) < D!Value(j)
  <2>1. i \in 1..N /\ (j \in 1..N \/ j = N + 1)
    BY <1>1, <1>4
  <2>2. CASE j \in 1..N
    <3>1. list[i] < list[j]
      BY <1>4, <2>1, <2>2 DEF Sorted
    <3> QED BY <1>2, <2>1, <2>2, <3>1
  <2>3. CASE j = N + 1
    <3>1. list[i] < inf
      BY <2>1 DEF Sorted
    <3> QED BY <1>2, <1>3, <2>1, <2>3, <3>1
  <2> QED BY <2>1, <2>2, <2>3
<1>5. \A i \in 1..N + 1 : D!Value(i) \in Int
  <2>1. \A i \in 1..N + 1 : i \in 1..N \/ i = N + 1
    BY <1>1
  <2> QED BY <1>2, <1>3, <2>1
<1> QED BY <1>1, <1>2, <1>3, <1>4, <1>5

\* The interval of width w at position i ends with the last value that it reaches.
LEMMA LastInIs ==
  ASSUME Sorted, NEW w, Fit(w), NEW i \in 1..N
  PROVE  /\ D!LastIn(i, w) \in i..N
         /\ D!Value(D!LastIn(i, w)) <= D!Value(i) + w
         /\ D!Value(D!LastIn(i, w) + 1) > D!Value(i) + w
<1>1. N \in Nat /\ w \in Nat /\ D!Value(i) \in Int /\ D!Value(N + 1) > D!Value(i) + w
  BY ValueIs DEF Fit
<1> DEFINE S == {j \in i..N : D!Value(j + 1) > D!Value(i) + w}
<1>2. S \in SUBSET Nat /\ N \in S
  BY <1>1
<1>3. PICK j \in S : \A h \in S : j <= h
  BY <1>2, LeastIs
<1>4. D!Value(j) <= D!Value(i) + w
  <2>1. CASE j = i
    BY <1>1, <2>1
  <2>2. CASE j # i
    <3>1. j - 1 \in i..N /\ (j - 1) + 1 = j /\ ~(j <= j - 1)
      BY <1>1, <1>3, <2>2
    <3>2. j - 1 \notin S
      BY <1>3, <3>1
    <3>3. ~(D!Value(j) > D!Value(i) + w)
      BY <3>1, <3>2
    <3>4. D!Value(j) \in Int
      BY <1>1, <1>3, ValueIs
    <3> QED BY <1>1, <3>3, <3>4
  <2> QED BY <2>1, <2>2
<1>5. j \in i..Len(list) /\ D!Value(j) <= D!Value(i) + w /\ D!Value(j + 1) > D!Value(i) + w
  BY <1>3, <1>4 DEF N
<1> HIDE DEF S
<1> QED BY <1>5 DEF D!LastIn, N

\* The first positions of the intervals of width w from each position on.
Onward(f, w) ==
    [i \in 1..N + 1 |-> IF i > N THEN {} ELSE {i} \cup f[D!LastIn(i, w) + 1]]
IsCover(f, w) == f = Onward(f, w) /\ f \in [1..N + 1 -> SUBSET (1..N)]

Gaps(f, w) == {D!Value(D!LastIn(i, w) + 1) - D!Value(i) : i \in f[1]}

\* There is such a cover.
LEMMA CoverDefined ==
  ASSUME Sorted, NEW w, Fit(w)
  PROVE  \E f : f = Onward(f, w)
<1> DEFINE X == 1..N + 1
           rank == [i \in X |-> N + 1 - i]
           next == [i \in X |-> IF i > N THEN i ELSE D!LastIn(i, w) + 1]
           R == SUBSET (1..N)
           step == [z \in X \X R |-> IF z[1] > N THEN {} ELSE {z[1]} \cup z[2]]
<1>1. N \in Nat /\ \A i \in 1..N : D!LastIn(i, w) \in i..N
  BY ValueIs, LastInIs
<1>2. rank \in [X -> Nat] /\ next \in [X -> X] /\ {} \in R
  BY <1>1
<1>3. \A i \in X : rank[i] # 0 => rank[next[i]] < rank[i]
  <2>1. ASSUME NEW i \in 1..N
        PROVE  /\ next[i] \in 1..N + 1 /\ next[i] > i
               /\ rank[next[i]] = N + 1 - next[i] /\ rank[i] = N + 1 - i
    <3>1. next[i] \in X /\ next[i] > i /\ i \in X
      BY <1>1
    <3> HIDE DEF next
    <3> QED BY <3>1
  <2>2. \A i \in X : rank[i] # 0 => i \in 1..N
    BY <1>1
  <2> HIDE DEF next, rank
  <2>3. ASSUME NEW i \in 1..N PROVE rank[next[i]] < rank[i]
    <3>1. /\ next[i] \in 1..N + 1 /\ next[i] > i
          /\ rank[next[i]] = N + 1 - next[i] /\ rank[i] = N + 1 - i
      BY <2>1
    <3> QED BY ONLY <1>1, <3>1, i \in 1..N
  <2> QED BY <2>2, <2>3
<1>4. step \in [X \X R -> R]
  <2>1. \A i \in X, r \in R : ~(i > N) => {i} \cup r \in R
    BY <1>1
  <2> QED BY <2>1
<1>5. PICK g \in [X -> R] : Follows(g, X, rank, next, {}, step, N)
  <2> HIDE DEF X, rank, next, R, step
  <2> QED BY <1>1, <1>2, <1>3, <1>4, DescentDefined
<1>6. ASSUME NEW i \in X
      PROVE  g[i] = IF i > N THEN {} ELSE {i} \cup g[D!LastIn(i, w) + 1]
  <2>1. rank[i] \in Nat /\ rank[i] <= N /\ (rank[i] = 0 <=> i > N)
    BY <1>1
  <2>2. ~(i > N) => next[i] = D!LastIn(i, w) + 1 /\ next[i] \in X
    BY <1>1
  <2>3. \A r \in R : ~(i > N) => step[<<i, r>>] = {i} \cup r
    OBVIOUS
  <2>4. g[i] = IF rank[i] = 0 THEN {} ELSE step[<<i, g[next[i]]>>]
    <3> HIDE DEF rank, next, step
    <3> QED BY <1>5, <2>1 DEF Follows
  <2> HIDE DEF rank, next, step, R, X
  <2> QED BY <1>5, <2>1, <2>2, <2>3, <2>4
<1> HIDE DEF R
<1>7. g = Onward(g, w)
  BY <1>5, <1>6 DEF Onward
<1> QED BY <1>7

\* It starts with positions of the list.
LEMMA CoverTyped ==
  ASSUME Sorted, NEW w, Fit(w), NEW f, f = Onward(f, w)
  PROVE  IsCover(f, w)
<1> DEFINE S == {n \in Nat : \A i \in 1..N + 1 : i + n > N => f[i] \in SUBSET (1..N)}
<1>1. N \in Nat /\ \A i \in 1..N : D!LastIn(i, w) \in i..N
  BY ValueIs, LastInIs
<1>2. \A i \in 1..N + 1 : f[i] = IF i > N THEN {} ELSE {i} \cup f[D!LastIn(i, w) + 1]
  BY DEF Onward
<1>3. 0 \in S
  <2>1. \A i \in 1..N + 1 : i + 0 > N => i > N
    BY <1>1
  <2>2. \A i \in 1..N + 1 : i + 0 > N => f[i] = {}
    BY <1>2, <2>1
  <2> QED BY <2>2
<1>4. \A n \in Nat : n \in S => n + 1 \in S
  <2> TAKE n \in Nat
  <2> HAVE n \in S
  <2>1. ASSUME NEW i \in 1..N + 1, i + (n + 1) > N PROVE f[i] \in SUBSET (1..N)
    <3>1. CASE i > N
      BY <1>2, <3>1
    <3>2. CASE ~(i > N)
      <4>1. i \in 1..N /\ D!LastIn(i, w) + 1 \in 1..N + 1 /\ (D!LastIn(i, w) + 1) + n > N
        BY <1>1, <2>1, <3>2
      <4>2. f[D!LastIn(i, w) + 1] \in SUBSET (1..N)
        BY <4>1
      <4> QED BY <1>2, <4>1, <4>2
    <3> QED BY <3>1, <3>2
  <2> QED BY <2>1
<1> HIDE DEF S
<1>5. N + 1 \in S
  BY <1>1, <1>3, <1>4, NatSetInduction
<1>6. \A i \in 1..N + 1 : f[i] \in SUBSET (1..N)
  BY <1>1, <1>5 DEF S
<1>7. f = [i \in 1..N + 1 |-> f[i]]
  BY DEF Onward
<1> QED BY ONLY f = Onward(f, w), <1>6, <1>7 DEF IsCover

\* What min_cover returns is computed from such a cover.
LEMMA CoverIs ==
  ASSUME Sorted, NEW w, Fit(w)
  PROVE  \E f : /\ IsCover(f, w)
                /\ D!min_cover(w) = [count |-> Cardinality(f[1]),
                                     least |-> D!Min({el_gordo} \cup Gaps(f, w))]
<1> DEFINE f == CHOOSE f : f = Onward(f, w)
<1>1. f = Onward(f, w)
  BY CoverDefined
<1>2. D!min_cover(w) =
          LET from[i \in 1..Len(list) + 1] ==
                  IF i > Len(list) THEN {} ELSE {i} \cup from[D!LastIn(i, w) + 1]
              starts == from[1]
          IN  [count |-> D!Cardinality(starts),
               least |-> D!Min({el_gordo} \cup {D!Value(D!LastIn(i, w) + 1) - D!Value(i) : i \in starts})]
  BY Zenon DEF D!min_cover
<1>3. D!min_cover(w) = [count |-> D!Cardinality(f[1]),
                        least |-> D!Min({el_gordo} \cup Gaps(f, w))]
  BY ONLY <1>2, Zenon DEF N, Gaps, Onward
<1> HIDE DEF f
<1>4. IsCover(f, w)
  BY <1>1, CoverTyped
<1> QED BY <1>3, <1>4, SameCount

\* The intervals of a cover lie one behind the other.
Spread(f, w, i) ==
    /\ f[i] \subseteq i..N
    /\ \A a, b \in f[i] : a < b => D!LastIn(a, w) < b

\* An interval of the cover starts behind the end of the one before.
LEMMA CoverSpread ==
  ASSUME Sorted, NEW w, Fit(w), NEW f, IsCover(f, w), NEW p \in 1..N + 1
  PROVE  Spread(f, w, p)
<1> DEFINE S == {n \in Nat : \A i \in 1..N + 1 : i + n > N => Spread(f, w, i)}
<1>1. N \in Nat /\ \A i \in 1..N : D!LastIn(i, w) \in i..N
  BY ValueIs, LastInIs
<1>2. \A i \in 1..N + 1 : f[i] = IF i > N THEN {} ELSE {i} \cup f[D!LastIn(i, w) + 1]
  BY DEF IsCover, Onward
<1>3. 0 \in S
  <2>1. \A i \in 1..N + 1 : i + 0 > N => i > N
    BY <1>1
  <2>2. \A i \in 1..N + 1 : i + 0 > N => f[i] = {}
    BY <1>2, <2>1
  <2> QED BY <2>2 DEF Spread
<1>4. \A n \in Nat : n \in S => n + 1 \in S
  <2> TAKE n \in Nat
  <2> HAVE n \in S
  <2>1. ASSUME NEW i \in 1..N + 1, i + (n + 1) > N PROVE Spread(f, w, i)
    <3>1. CASE i > N
      BY <1>2, <3>1 DEF Spread
    <3>2. CASE ~(i > N)
      <4> DEFINE j == D!LastIn(i, w) + 1
      <4>1. i \in 1..N /\ j \in 1..N + 1 /\ j + n > N /\ i < j
        BY <1>1, <2>1, <3>2
      <4>2. Spread(f, w, j)
        BY <4>1
      <4>3. f[i] = {i} \cup f[j]
        BY <1>2, <3>2
      <4>4. D!LastIn(i, w) < j
        BY <1>1, <4>1
      <4> HIDE DEF j
      <4>5. f[i] \subseteq i..N
        BY <1>1, <4>1, <4>2, <4>3 DEF Spread
      <4>6. ASSUME NEW a \in f[i], NEW b \in f[i], a < b PROVE D!LastIn(a, w) < b
        <5>1. \A c \in f[j] : c \in j..N
          BY <4>2 DEF Spread
        <5>2. CASE a \in f[j]
          <6>1. b \in f[j]
            BY <1>1, <4>1, <4>3, <4>6, <5>1, <5>2
          <6> QED BY <4>2, <4>6, <5>2, <6>1 DEF Spread
        <5>3. CASE a = i
          <6>1. b \in j..N /\ D!LastIn(a, w) \in i..N
            BY <1>1, <4>1, <4>3, <4>6, <5>1, <5>3
          <6> QED BY <1>1, <4>1, <4>4, <5>3, <6>1
        <5> QED BY <4>3, <5>2, <5>3
      <4> QED BY <4>5, <4>6 DEF Spread
    <3> QED BY <3>1, <3>2
  <2> QED BY <2>1
<1> HIDE DEF S
<1>5. N + 1 \in S
  BY <1>1, <1>3, <1>4, NatSetInduction
<1> QED BY <1>1, <1>5 DEF S

\* The least of a natural number and some others.
LEMMA MinIs ==
  ASSUME NEW S \in SUBSET Nat, S # {}
  PROVE  D!Min(S) \in S /\ \A y \in S : D!Min(S) <= y
BY LeastIs DEF D!Min

\* n of the values are e apart, or more.
Apart_by(e, n) ==
    \E S \in SUBSET (1..N) :
        Cardinality(S) = n /\ \A a, b \in S : a < b => list[b] - list[a] >= e

\* min_cover returns how many values it found that far apart.
LEMMA CoveringIs ==
  ASSUME Sorted, NEW w, Fit(w)
  PROVE  /\ D!min_cover(w).count \in 0..N /\ D!min_cover(w).least \in Nat
         /\ Apart_by(D!min_cover(w).least, D!min_cover(w).count)
<1>1. PICK f : /\ IsCover(f, w)
               /\ D!min_cover(w) = [count |-> Cardinality(f[1]),
                                    least |-> D!Min({el_gordo} \cup Gaps(f, w))]
  BY CoverIs
<1> DEFINE e == D!Min({el_gordo} \cup Gaps(f, w))
           S == f[1]
<1>2. N \in Nat /\ 1 \in 1..N + 1 /\ w \in Nat
  BY ValueIs DEF Fit
<1>3. Spread(f, w, 1)
  BY <1>1, <1>2, CoverSpread
<1>4. S \in SUBSET (1..N) /\ \A a, b \in S : a < b => D!LastIn(a, w) < b
  BY <1>3 DEF Spread
<1>5. Cardinality(S) \in 0..N
  <2>1. IsFiniteSet(1..N) /\ Cardinality(1..N) = N
    BY <1>2, FS_Interval
  <2>2. IsFiniteSet(S) /\ Cardinality(S) <= Cardinality(1..N)
    BY <1>4, <2>1, FS_Subset
  <2> QED BY <1>2, <2>1, <2>2, FS_CardinalityType
<1>6. \A a \in S : D!Value(D!LastIn(a, w) + 1) - D!Value(a) \in Nat
  <2> SUFFICES ASSUME NEW a \in S PROVE D!Value(D!LastIn(a, w) + 1) - D!Value(a) \in Nat
    OBVIOUS
  <2>1. a \in 1..N /\ a \in 1..N + 1
    BY <1>2, <1>4
  <2>2. D!LastIn(a, w) \in a..N /\ D!Value(D!LastIn(a, w) + 1) > D!Value(a) + w
    BY <2>1, LastInIs
  <2>3. D!LastIn(a, w) + 1 \in 1..N + 1
    BY <1>2, <2>1, <2>2
  <2>4. D!Value(D!LastIn(a, w) + 1) \in Int /\ D!Value(a) \in Int
    BY <2>1, <2>3, ValueIs
  <2> QED BY <1>2, <2>2, <2>4
<1>7. e \in {el_gordo} \cup Gaps(f, w) /\ \A y \in Gaps(f, w) : e <= y
  <2>1. {el_gordo} \cup Gaps(f, w) \in SUBSET Nat
    BY <1>6, DimensionAssumption DEF Gaps
  <2> QED BY <2>1, MinIs
<1>8. e \in Nat
  BY <1>6, <1>7, DimensionAssumption DEF Gaps
<1>9. ASSUME NEW a \in S, NEW b \in S, a < b PROVE list[b] - list[a] >= e
  <2> DEFINE j == D!LastIn(a, w) + 1
  <2>1. D!Value(j) - D!Value(a) \in Gaps(f, w)
    BY DEF Gaps
  <2>2. a \in 1..N /\ b \in 1..N /\ j \in 1..N + 1 /\ j <= b
    <3>1. a \in 1..N /\ b \in 1..N /\ D!LastIn(a, w) < b
      BY <1>4, <1>9
    <3>2. D!LastIn(a, w) \in a..N
      BY <3>1, LastInIs
    <3> QED BY <1>2, <3>1, <3>2
  <2> HIDE DEF j, e
  <2>3. D!Value(j) <= D!Value(b) /\ D!Value(j) \in Int
    <3>1. j = b \/ j < b
      BY <1>2, <2>2
    <3>2. b \in 1..N + 1
      BY <1>2, <2>2
    <3> QED BY <2>2, <3>1, <3>2, ValueIs
  <2>4. D!Value(a) = list[a] /\ D!Value(b) = list[b] /\ list[a] \in Int /\ list[b] \in Int
    BY <2>2, ValueIs DEF Sorted, N
  <2>5. e <= D!Value(j) - D!Value(a)
    BY <1>7, <2>1
  <2> QED BY <1>8, <2>3, <2>4, <2>5
<1>10. D!min_cover(w).count = Cardinality(S) /\ D!min_cover(w).least = e
  BY <1>1
<1> HIDE DEF e, S
<1> QED BY <1>4, <1>5, <1>8, <1>9, <1>10 DEF Apart_by

-----------------------------------------------------------------------------
(* The invariant of the dimensions.                                        *)

\* Values that may come: threshold stays below inf.
Fine(s) ==
    /\ s \in Seq(Int) /\ lo_mem_max + 4 * Len(s) <= inf
    /\ \A a, b, c \in DOMAIN s : s[a] + 2 * (s[b] - s[c]) < inf

Seen(n) == {dimen[c] : c \in 1..n} \ D!Apart
Listed == {list[i] : i \in 1..N}

Called(c) == IF dimen[c] \in D!Apart THEN D!zero_val ELSE dimen[c]
WhereRight == Len(where) \in 0..Len(dimen) /\ where = [c \in 1..Len(where) |-> Called(c)]

\* More than m values are more than w apart from each other, so that m intervals
\* of width w cannot have them all.
Scattered(w) ==
    \E T \in SUBSET D!Values :
        IsFiniteSet(T) /\ Cardinality(T) > m /\ \A a, b \in T : a < b => b - a > w

\* No width below x will do; x and 2x are small enough to be tried.
Needed(x) == \A w \in 0..x - 1 : Scattered(w)
Room(x) == x \in Nat /\ \A v \in D!Values : v + 2 * x < inf

\* What threshold has found so far.
Searched ==
    /\ at \in {"double", "creep", "skimp"} => excess = N - m
    /\ at \in {"double", "creep"} => excess > 0
    /\ at = "double" => Room(perturbation) /\ Needed(perturbation)
    /\ at \in {"creep", "skimp"} => Room(delta) /\ Needed(delta)
    /\ at = "skimp" => IF excess > 0 THEN D!min_cover(delta).count <= m ELSE delta = 0

DimInv ==
    /\ Fine(dimen) /\ zero_apart \in BOOLEAN
    /\ WhereRight
    /\ at \in {"sort", "double", "creep", "skimp", "done"}
    /\ at # "sort" => Len(where) = Len(dimen)
    /\ at # "done" => Sorted /\ Listed = Seen(Len(where)) /\ DOMAIN info = Listed
    /\ Searched
    /\ D!LeastPerturbation

DimsRight == limits \in Limits /\ Fine(tfm_width) /\ DimInv

-----------------------------------------------------------------------------
(* threshold.                                                              *)

\* The values are those of the characters.
LEMMA ValuesAre ==
  ASSUME Fine(dimen)
  PROVE  /\ D!Values = Seen(Len(dimen))
         /\ \A a, b, c \in D!Values : a \in Int /\ a + 2 * (b - c) < inf
<1>1. dimen \in Seq(Int) /\ DOMAIN dimen = 1..Len(dimen)
  BY DEF Fine
<1>2. D!Values = {dimen[c] : c \in 1..Len(dimen)} \ D!Apart
  BY <1>1 DEF D!Values, D!Range
<1>3. \A c \in DOMAIN dimen : dimen[c] \in Int
  BY <1>1
<1>4. ASSUME NEW a \in D!Values, NEW b \in D!Values, NEW c \in D!Values
      PROVE  a \in Int /\ a + 2 * (b - c) < inf
  <2>1. PICK x \in DOMAIN dimen, y \in DOMAIN dimen, z \in DOMAIN dimen :
            a = dimen[x] /\ b = dimen[y] /\ c = dimen[z]
    BY <1>1, <1>2
  <2>2. dimen[x] + 2 * (dimen[y] - dimen[z]) < inf
    BY <2>1 DEF Fine
  <2> QED BY <1>3, <2>1, <2>2
<1> QED BY <1>2, <1>4 DEF Seen

\* The widths that threshold tries fit.
LEMMA RoomFits ==
  ASSUME Sorted, Listed = D!Values, NEW x, Room(x)
  PROVE  Fit(x) /\ Fit(2 * x)
<1>1. x \in Nat /\ 2 * x \in Nat /\ inf \in Int
  BY DEF Room, Sorted
<1>2. ASSUME NEW i \in 1..N PROVE list[i] + x < inf /\ list[i] + 2 * x < inf
  <2>1. list[i] \in D!Values
    BY DEF Listed
  <2>2. list[i] + 2 * x < inf /\ list[i] \in Int
    BY <2>1 DEF Room, Sorted, N
  <2> QED BY <1>1, <2>2
<1> QED BY <1>1, <1>2 DEF Fit

\* As many values as positions.
LEMMA ImageCount ==
  ASSUME Sorted, NEW S \in SUBSET (1..N)
  PROVE  /\ IsFiniteSet(S) /\ IsFiniteSet({list[i] : i \in S})
         /\ Cardinality({list[i] : i \in S}) = Cardinality(S)
<1> DEFINE T == {list[i] : i \in S}
           f == [i \in S |-> list[i]]
<1>1. /\ N \in Nat /\ \A i \in 1..N : list[i] \in Int
      /\ \A i, j \in 1..N : i < j => list[i] < list[j]
  <2>1. N \in Nat /\ \A i, j \in 1..N : i < j => list[i] < list[j]
    BY ValueIs DEF Sorted
  <2>2. \A i \in 1..N : list[i] \in Int
    BY DEF Sorted, N
  <2> QED BY <2>1, <2>2
<1>2. IsFiniteSet(S)
  <2>1. IsFiniteSet(1..N)
    BY <1>1, FS_Interval
  <2> QED BY <2>1, FS_Subset
<1>3. f \in [S -> T] /\ \A t \in T : \E i \in S : f[i] = t
  OBVIOUS
<1>4. ASSUME NEW i \in S, NEW j \in S, f[i] = f[j] PROVE i = j
  <2>1. list[i] = list[j] /\ i \in 1..N /\ j \in 1..N
    BY <1>4
  <2>2. ~(i < j) /\ ~(j < i)
    BY <1>1, <2>1
  <2> QED BY <1>1, <2>1, <2>2
<1> HIDE DEF f, T
<1>5. f \in Bijection(S, T)
  BY <1>3, <1>4 DEF Bijection, Injection, Surjection, IsInjective
<1>6. ExistsBijection(S, T)
  BY <1>5 DEF ExistsBijection
<1>7. IsFiniteSet(T) /\ Cardinality(T) = Cardinality(S)
  BY <1>2, <1>6, FS_Bijection
<1> QED BY <1>2, <1>7 DEF T

\* When min_cover finds more than m values that far apart, less will not do.
LEMMA NotEnough ==
  ASSUME Sorted, Listed = D!Values, Fine(dimen), NEW w, Fit(w), D!min_cover(w).count > m
  PROVE  Needed(D!min_cover(w).least) /\ Room(D!min_cover(w).least)
<1> DEFINE e == D!min_cover(w).least
           n == D!min_cover(w).count
<1>1. n \in 0..N /\ e \in Nat /\ Apart_by(e, n) /\ n > m
  BY CoveringIs
<1>2. N \in Nat /\ list \in Seq(Int) /\ \A i \in 1..N : list[i] \in Int
  BY ValueIs DEF Sorted, N
<1>3. \A i, j \in 1..N : i < j => list[i] < list[j]
  BY DEF Sorted
<1> HIDE DEF e, n
<1>4. PICK S \in SUBSET (1..N) :
          Cardinality(S) = n /\ \A a, b \in S : a < b => list[b] - list[a] >= e
  BY <1>1 DEF Apart_by
<1> DEFINE T == {list[i] : i \in S}
<1>6. IsFiniteSet(T) /\ Cardinality(T) = n
  BY <1>4, ImageCount
<1>7. T \in SUBSET D!Values
  BY DEF Listed
<1>8. ASSUME NEW a \in T, NEW b \in T, a < b PROVE b - a >= e
  <2>1. PICK i \in S, j \in S : a = list[i] /\ b = list[j]
    OBVIOUS
  <2>2. i \in 1..N /\ j \in 1..N
    OBVIOUS
  <2>3. i < j
    <3>1. ~(j < i) /\ i # j
      BY <1>2, <1>3, <1>8, <2>1, <2>2
    <3> QED BY <1>2, <2>2, <3>1
  <2> QED BY <1>4, <2>1, <2>3
<1>9. \A a \in T : a \in Int
  BY <1>2
<1> HIDE DEF T
<1>10. Needed(e)
  <2>1. ASSUME NEW v \in 0..e - 1, NEW a \in T, NEW b \in T, a < b PROVE b - a > v
    BY <1>1, <1>8, <1>9, <2>1
  <2>2. Cardinality(T) > m
    BY <1>1, <1>6
  <2>3. \A v \in 0..e - 1 : Scattered(v)
    BY <1>6, <1>7, <2>1, <2>2 DEF Scattered
  <2> QED BY <2>3 DEF Needed
<1>11. Room(e)
  <2>1. \E a, b \in S : a < b
    <3>1. \E a, b \in S : a # b
      <4> SUFFICES ASSUME \A a, b \in S : a = b PROVE FALSE
        OBVIOUS
      <4>1. n > 1
        BY <1>1, DimensionAssumption
      <4>2. S # {}
        BY <1>4, <4>1, FS_EmptySet
      <4>3. PICK a \in S : S = {a}
        BY <4>2
      <4>4. Cardinality(S) = 1
        BY <4>3, FS_Singleton
      <4> QED BY <1>4, <4>1, <4>4
    <3>2. \A a \in S : a \in Int
      BY <1>2
    <3>3. \A a, b \in Int : a # b => a < b \/ b < a
      OBVIOUS
    <3> QED BY <3>1, <3>2, <3>3
  <2>2. PICK a \in S, b \in S : a < b
    BY <2>1
  <2>3. list[a] \in D!Values /\ list[b] \in D!Values /\ list[b] - list[a] >= e
    BY <1>4, <2>2 DEF Listed
  <2>4. ASSUME NEW v \in D!Values PROVE v + 2 * e < inf
    <3>1. v + 2 * (list[b] - list[a]) < inf /\ v \in Int /\ list[a] \in Int /\ list[b] \in Int
      BY <2>3, ValuesAre
    <3>2. inf \in Int
      BY DimensionAssumption
    <3> QED BY <1>1, <2>3, <3>1, <3>2
  <2> QED BY <1>1, <2>4 DEF Room
<1> QED BY <1>10, <1>11 DEF e

-----------------------------------------------------------------------------
(* The list is sorted.                                                     *)

\* A list is cleared, and the next table's values come.
LEMMA ClearInv ==
  ASSUME NEW s, Fine(s), NEW b \in BOOLEAN, D!clear_the_list(s, b)
  PROVE  DimInv'
<1>1. /\ dimen' = s /\ zero_apart' = b /\ at' = "sort"
      /\ where' = <<>> /\ list' = <<>> /\ value' = <<>> /\ info' = <<>>
  BY DEF D!clear_the_list, D!Empty
<1>2. Fine(dimen)' /\ zero_apart' \in BOOLEAN
  BY <1>1 DEF Fine
<1>3. WhereRight'
  <2>1. Len(s) \in Nat
    BY DEF Fine
  <2>2. <<>> = [c \in 1..0 |-> Called(c)'] /\ Len(<<>>) = 0
    OBVIOUS
  <2> QED BY <1>1, <2>1, <2>2 DEF WhereRight
<1>4. Sorted' /\ Listed' = {} /\ DOMAIN info' = {}
  <2>1. N' = 0 /\ <<>> \in Seq(Int) /\ 1..0 = {}
    BY <1>1 DEF N
  <2>2. value' = [x \in {list'[i] : i \in 1..N'} |-> x]
    BY <1>1, <2>1
  <2> QED BY <1>1, <2>1, <2>2, DimensionAssumption DEF Sorted, Listed
<1>5. Seen(Len(where))' = {}
  BY <1>1 DEF Seen
<1>6. Searched' /\ D!LeastPerturbation'
  BY <1>1 DEF Searched, D!LeastPerturbation
<1> QED BY <1>1, <1>2, <1>3, <1>4, <1>5, <1>6 DEF DimInv

\* One sequence behind the other.
LEMMA Joined ==
  ASSUME NEW B \in Seq(Int), NEW Z \in Seq(Int)
  PROVE  /\ B \o Z \in Seq(Int) /\ Len(B \o Z) = Len(B) + Len(Z)
         /\ \A i \in 1..Len(B) + Len(Z) :
               (B \o Z)[i] = IF i <= Len(B) THEN B[i] ELSE Z[i - Len(B)]
  OBVIOUS

Ladder(L) == L \in Seq(Int) /\ \A i, j \in 1..Len(L) : i < j => L[i] < L[j]

\* A new value is inserted between the less and the greater ones.
Inserted(M, L, v, b) ==
    /\ M \in Seq(Int) /\ Len(M) = Len(L) + 1 /\ b \in 0..Len(L)
    /\ \A i \in 1..Len(L) + 1 :
          M[i] = IF i <= b THEN L[i] ELSE IF i = b + 1 THEN v ELSE L[i - 1]
    /\ \A i \in 1..b : L[i] < v
    /\ \A i \in b + 1..Len(L) : v < L[i]

LEMMA InsertIs ==
  ASSUME NEW L, Ladder(L), NEW v \in Int, \A i \in 1..Len(L) : L[i] # v
  PROVE  LET b == Cardinality({i \in 1..Len(L) : L[i] < v})
         IN  Inserted(D!InsertAt(L, b + 1, v), L, v, b)
<1> DEFINE S == {i \in 1..Len(L) : L[i] < v}
           b == Cardinality(S)
           M == D!InsertAt(L, b + 1, v)
<1>1. Len(L) \in Nat /\ L \in Seq(Int) /\ \A i \in 1..Len(L) : L[i] \in Int
  BY DEF Ladder
<1>2. PICK g \in {0} \cup S : \A i \in {0} \cup S : g >= i
  <2>1. {0} \cup S \in SUBSET Nat /\ \A i \in {0} \cup S : i <= Len(L)
    BY <1>1
  <2> HIDE DEF S
  <2> QED BY <1>1, <2>1, GreatestIs
<1>3. g \in 0..Len(L)
  BY <1>1
<1>4. S = 1..g
  <2>1. ASSUME NEW i \in 1..g PROVE i \in S
    <3>1. i \in 1..Len(L) /\ g \in 1..Len(L) /\ g \in S
      BY <1>1, <1>3
    <3>2. L[g] < v /\ (i = g \/ i < g)
      BY <1>3, <3>1
    <3>3. i < g => L[i] < L[g]
      BY <3>1 DEF Ladder
    <3> QED BY <1>1, <3>1, <3>2, <3>3
  <2>2. ASSUME NEW i \in S PROVE i \in 1..g
    BY <1>1, <1>2, <1>3
  <2> QED BY <2>1, <2>2
<1>5. b = g
  <2>1. Cardinality(1..g) = g
    BY <1>3, FS_Interval
  <2> QED BY <1>4, <2>1
<1>6. \A i \in 1..g : L[i] < v
  BY <1>4
<1>7. ASSUME NEW i \in g + 1..Len(L) PROVE v < L[i]
  <2>1. i \in 1..Len(L) /\ i \notin 1..g
    BY <1>1, <1>3
  <2>2. ~(L[i] < v)
    BY <1>4, <2>1
  <2> QED BY <1>1, <2>1, <2>2
<1> HIDE DEF S, b
<1>8. M = SubSeq(L, 1, g) \o <<v>> \o SubSeq(L, g + 1, Len(L))
  <2>1. (g + 1) - 1 = g
    BY <1>3
  <2> QED BY <1>5, <2>1 DEF D!InsertAt
<1> HIDE DEF M
<1>9. /\ M \in Seq(Int) /\ Len(M) = Len(L) + 1
      /\ \A i \in 1..Len(L) + 1 :
            M[i] = IF i <= g THEN L[i] ELSE IF i = g + 1 THEN v ELSE L[i - 1]
  <2> DEFINE A == SubSeq(L, 1, g)
             Z == SubSeq(L, g + 1, Len(L))
  <2>1. A \in Seq(Int) /\ Len(A) = g /\ \A i \in 1..g : A[i] = L[i]
    BY <1>1, <1>3
  <2>2. Z \in Seq(Int) /\ Len(Z) = Len(L) - g /\ \A i \in 1..Len(L) - g : Z[i] = L[g + i]
    BY <1>1, <1>3
  <2> HIDE DEF A, Z
  <2> DEFINE B == A \o <<v>>
  <2>3. B \in Seq(Int) /\ Len(B) = g + 1 /\ B[g + 1] = v /\ \A i \in 1..g : B[i] = L[i]
    BY <1>3, <2>1
  <2>4. M = B \o Z
    BY <1>8 DEF A, Z
  <2> HIDE DEF B
  <2>5. M \in Seq(Int) /\ Len(M) = Len(L) + 1
    <3>1. B \o Z \in Seq(Int) /\ Len(B \o Z) = Len(B) + Len(Z)
      BY <2>2, <2>3, Joined
    <3>2. Len(B) + Len(Z) = Len(L) + 1
      BY <1>1, <1>3, <2>2, <2>3
    <3> QED BY <2>4, <3>1, <3>2
  <2>6. ASSUME NEW i \in 1..Len(L) + 1
        PROVE  M[i] = IF i <= g THEN L[i] ELSE IF i = g + 1 THEN v ELSE L[i - 1]
    <3>1. M[i] = IF i <= g + 1 THEN B[i] ELSE Z[i - (g + 1)]
      <4>1. i \in 1..Len(B) + Len(Z)
        BY <1>1, <1>3, <2>2, <2>3
      <4> QED BY <2>2, <2>3, <2>4, <4>1, Joined
    <3>2. CASE i <= g + 1
      BY <1>3, <2>3, <3>1, <3>2
    <3>3. CASE ~(i <= g + 1)
      <4> DEFINE h == i - (g + 1)
      <4>1. h \in 1..Len(L) - g /\ g + h = i - 1 /\ ~(i <= g) /\ i # g + 1
        BY <1>1, <1>3, <3>3
      <4>2. M[i] = Z[h]
        BY <3>1, <3>3
      <4> HIDE DEF h
      <4>3. Z[h] = L[i - 1]
        BY <2>2, <4>1
      <4> QED BY <4>1, <4>2, <4>3
    <3> QED BY <3>2, <3>3
  <2> QED BY <2>5, <2>6
<1>10. Inserted(M, L, v, b)
  BY <1>3, <1>5, <1>6, <1>7, <1>9 DEF Inserted
<1> QED BY <1>10 DEF M, b, S

Members(L) == {L[i] : i \in 1..Len(L)}

\* The list stays in order, and has one value more.
LEMMA StillLadder ==
  ASSUME NEW L, Ladder(L), NEW v \in Int, NEW b, NEW M, Inserted(M, L, v, b)
  PROVE  Ladder(M) /\ Members(M) = Members(L) \cup {v}
<1>1. /\ M \in Seq(Int) /\ Len(M) = Len(L) + 1 /\ b \in 0..Len(L) /\ Len(L) \in Nat
      /\ \A i \in 1..Len(L) : L[i] \in Int
      /\ \A i, j \in 1..Len(L) : i < j => L[i] < L[j]
  BY DEF Inserted, Ladder
<1>2. \A i \in 1..Len(L) + 1 :
          M[i] = IF i <= b THEN L[i] ELSE IF i = b + 1 THEN v ELSE L[i - 1]
  BY DEF Inserted
<1>3. (\A i \in 1..b : L[i] < v) /\ (\A i \in b + 1..Len(L) : v < L[i])
  BY DEF Inserted
<1>4. ASSUME NEW i \in 1..Len(L) + 1, NEW j \in 1..Len(L) + 1, i < j PROVE M[i] < M[j]
  <2>1. CASE j <= b
    <3>1. i \in 1..Len(L) /\ j \in 1..Len(L) /\ i <= b
      BY <1>1, <1>4, <2>1
    <3> QED BY <1>1, <1>2, <1>4, <2>1, <3>1
  <2>2. CASE j = b + 1
    <3>1. i \in 1..b /\ ~(j <= b)
      BY <1>1, <1>4, <2>2
    <3>2. M[j] = v
      BY <1>2, <2>2, <3>1
    <3>3. i <= b
      BY <1>1, <3>1
    <3>4. M[i] = L[i]
      BY <1>2, <3>3
    <3> QED BY <1>3, <3>1, <3>2, <3>4
  <2>3. CASE j > b + 1
    <3>1. M[j] = L[j - 1] /\ j - 1 \in b + 1..Len(L) /\ j - 1 \in 1..Len(L)
      BY <1>1, <1>2, <2>3
    <3>2. CASE i <= b
      <4>1. M[i] = L[i] /\ i \in 1..Len(L) /\ i < j - 1
        BY <1>1, <1>2, <2>3, <3>2
      <4> QED BY <1>1, <3>1, <4>1
    <3>3. CASE i = b + 1
      <4>1. M[i] = v
        BY <1>1, <1>2, <3>3
      <4> QED BY <1>3, <3>1, <4>1
    <3>4. CASE i > b + 1
      <4>1. M[i] = L[i - 1] /\ i - 1 \in 1..Len(L) /\ i - 1 < j - 1
        BY <1>1, <1>2, <1>4, <3>4
      <4> QED BY <1>1, <3>1, <4>1
    <3> QED BY <1>1, <3>2, <3>3, <3>4
  <2> QED BY <1>1, <2>1, <2>2, <2>3
<1>5. Ladder(M)
  BY <1>1, <1>4 DEF Ladder
<1>6. ASSUME NEW i \in 1..Len(M) PROVE M[i] \in {L[h] : h \in 1..Len(L)} \cup {v}
  <2>1. i <= b => i \in 1..Len(L)
    BY <1>1
  <2>2. i > b + 1 => i - 1 \in 1..Len(L)
    BY <1>1
  <2> QED BY <1>1, <1>2, <2>1, <2>2
<1>7. v \in {M[i] : i \in 1..Len(M)}
  <2>1. b + 1 \in 1..Len(L) + 1 /\ ~(b + 1 <= b)
    BY <1>1
  <2>2. M[b + 1] = v
    BY <1>2, <2>1
  <2> QED BY <1>1, <2>1, <2>2
<1>8. ASSUME NEW i \in 1..Len(L) PROVE L[i] \in {M[h] : h \in 1..Len(M)}
  <2>1. CASE i <= b
    <3>1. M[i] = L[i] /\ i \in 1..Len(M)
      BY <1>1, <1>2, <2>1
    <3> QED BY <3>1
  <2>2. CASE ~(i <= b)
    <3>1. i + 1 \in 1..Len(L) + 1 /\ ~(i + 1 <= b) /\ i + 1 # b + 1 /\ (i + 1) - 1 = i
      BY <1>1, <2>2
    <3>2. M[i + 1] = L[i]
      BY <1>2, <3>1
    <3> QED BY <1>1, <3>1, <3>2
  <2> QED BY <2>1, <2>2
<1> QED BY <1>5, <1>6, <1>7, <1>8 DEF Members

\* The values of one character more.
LEMMA WhereNext ==
  ASSUME WhereRight, Fine(dimen), Len(where) < Len(dimen),
         where' = Append(where, Called(Len(where) + 1)),
         dimen' = dimen, zero_apart' = zero_apart
  PROVE  /\ WhereRight' /\ Len(where)' = Len(where) + 1 /\ Len(where) \in Nat
         /\ Seen(Len(where))' = Seen(Len(where)) \cup ({dimen[Len(where) + 1]} \ D!Apart)
<1> DEFINE n == Len(where)
           h == [c \in 1..n + 1 |-> Called(c)]
           T == Int \cup {D!zero_val}
<1>1. n \in Nat /\ Len(dimen) \in Nat /\ n + 1 <= Len(dimen)
  BY DEF WhereRight, Fine
<1>2. ASSUME NEW c \in 1..Len(dimen) PROVE dimen[c] \in Int /\ Called(c) \in T
  BY DEF Fine, Called
<1>3. where = [c \in 1..n |-> Called(c)] /\ \A c \in 1..n + 1 : Called(c) \in T
  <2>1. \A c \in 1..n + 1 : c \in 1..Len(dimen)
    BY <1>1
  <2> QED BY <1>2, <2>1 DEF WhereRight
<1> HIDE DEF n, T
<1>4. where \in Seq(T) /\ Len(where) = n /\ \A c \in 1..n : where[c] = Called(c)
  <2>1. \A c \in 1..n : Called(c) \in T
    BY <1>1, <1>3
  <2> QED BY <1>1, <1>3, <2>1
<1>5. where' \in Seq(T) /\ Len(where') = n + 1 /\ where' = h
  <2>1. Called(n + 1) \in T
    BY <1>1, <1>3
  <2>2. where' = Append(where, Called(n + 1))
    BY DEF n
  <2>3. /\ where' \in Seq(T) /\ Len(where') = n + 1
        /\ \A c \in 1..n + 1 : where'[c] = IF c = n + 1 THEN Called(n + 1) ELSE where[c]
    BY <1>1, <1>4, <2>1, <2>2
  <2>4. \A c \in 1..n + 1 : c # n + 1 => c \in 1..n
    BY <1>1
  <2>5. \A c \in 1..n + 1 : where'[c] = Called(c)
    BY <1>4, <2>3, <2>4
  <2>6. where' = [c \in 1..n + 1 |-> where'[c]]
    BY <1>1, <2>3
  <2> QED BY <2>3, <2>5, <2>6
<1>6. \A c \in 1..n + 1 : Called(c)' = Called(c)
  BY DEF Called, D!Apart, D!zero_val
<1>7. where' = [c \in 1..n + 1 |-> Called(c)']
  BY <1>5, <1>6
<1>8. WhereRight'
  BY <1>1, <1>5, <1>7 DEF WhereRight
<1>9. Seen(Len(where))' = Seen(n) \cup ({dimen[n + 1]} \ D!Apart)
  <2>1. {dimen[c] : c \in 1..n + 1} = {dimen[c] : c \in 1..n} \cup {dimen[n + 1]}
    <3>1. \A c : c \in 1..n + 1 <=> c \in 1..n \/ c = n + 1
      BY <1>1
    <3> QED BY <3>1
  <2>2. Seen(Len(where))' = {dimen[c] : c \in 1..n + 1} \ D!Apart
    BY <1>5 DEF Seen, D!Apart
  <2> QED BY <2>1, <2>2 DEF Seen
<1> QED BY <1>1, <1>5, <1>8, <1>9 DEF n

\* A character's value goes into the list, or is there already, or is apart.
LEMMA SortInv ==
  ASSUME DimInv, D!sort_in
  PROVE  DimInv'
<1> DEFINE n == Len(where)  v == dimen[n + 1]
<1>1. /\ Fine(dimen) /\ zero_apart \in BOOLEAN /\ WhereRight /\ at = "sort" /\ n < Len(dimen)
      /\ Sorted /\ Listed = Seen(n) /\ DOMAIN info = Listed
      /\ dimen' = dimen /\ zero_apart' = zero_apart /\ at' = "sort"
  BY DEF DimInv, D!sort_in
<1>2. n \in Nat /\ n + 1 \in 1..Len(dimen) /\ v \in Int
  BY <1>1 DEF WhereRight, Fine
<1>3. where' = Append(where, Called(n + 1))
  BY <1>1 DEF D!sort_in, Called, D!Apart
<1> HIDE DEF n, v
<1>4. /\ WhereRight' /\ Len(where)' = n + 1
      /\ Seen(Len(where))' = Seen(n) \cup ({v} \ D!Apart)
  BY <1>1, <1>3, WhereNext DEF n, v
<1>5. D!Range(list) = Listed /\ N \in Nat
  BY <1>1, ValueIs DEF D!Range, Listed, Sorted, N
<1>6. Sorted' /\ Listed' = Seen(Len(where))' /\ DOMAIN info' = Listed'
  <2>1. CASE v \in D!Apart \/ v \in Listed
    <3>1. UNCHANGED <<list, value, info>>
      BY <1>1, <1>5, <2>1 DEF D!sort_in, D!Apart, n, v
    <3>2. Sorted' /\ Listed' = Listed /\ DOMAIN info' = Listed
      BY <1>1, <3>1 DEF Sorted, Listed, N
    <3>3. Seen(n) \cup ({v} \ D!Apart) = Seen(n)
      BY <1>1, <2>1
    <3> QED BY <1>1, <1>4, <3>2, <3>3
  <2>2. CASE v \notin D!Apart /\ v \notin Listed
    <3> DEFINE b == Cardinality({i \in 1..Len(list) : list[i] < v})
    <3>1. /\ list' = D!InsertAt(list, D!Below(v) + 1, v)
          /\ value' = [x \in D!Range(list) \cup {v} |-> IF x = v THEN v ELSE value[x]]
          /\ info' = [x \in D!Range(list) \cup {v} |-> 0]
      BY <1>1, <1>5, <2>2 DEF D!sort_in, D!Apart, n, v
    <3>2. D!Below(v) = b
      <4>1. DOMAIN list = 1..Len(list) /\ \A i \in 1..Len(list) : D!Value(i) = list[i]
        BY <1>1, ValueIs DEF Sorted, N
      <4>2. {i \in DOMAIN list : D!Value(i) < v} = {i \in 1..Len(list) : list[i] < v}
        BY <4>1
      <4> QED BY <4>2, SameCount DEF D!Below
    <3>3. Ladder(list) /\ \A i \in 1..Len(list) : list[i] # v
      BY <1>1, <2>2 DEF Sorted, Ladder, Listed, N
    <3>4. Inserted(D!InsertAt(list, b + 1, v), list, v, b)
      BY <1>2, <3>3, InsertIs
    <3> HIDE DEF b
    <3>5. Inserted(list', list, v, b)
      BY <3>1, <3>2, <3>4
    <3>6. Ladder(list') /\ Listed' = Listed \cup {v}
      <4>1. Ladder(list') /\ Members(list') = Members(list) \cup {v}
        BY ONLY <1>2, <3>3, <3>5, StillLadder
      <4> QED BY ONLY <4>1 DEF Listed, N, Members
    <3>7. value' = [x \in Listed' |-> x] /\ DOMAIN info' = Listed'
      <4>1. value = [x \in Listed |-> x]
        BY <1>1 DEF Sorted, Listed
      <4>2. value' = [x \in Listed \cup {v} |-> IF x = v THEN v ELSE value[x]]
        BY <1>5, <3>1
      <4> QED BY <1>5, <3>1, <3>6, <4>1, <4>2
    <3>8. \A x \in Listed' : x < inf
      <4>1. \A x \in Listed : x < inf
        BY <1>1 DEF Sorted, Listed
      <4>2. v < inf
        <5>1. n + 1 \in DOMAIN dimen
          BY <1>1, <1>2 DEF Fine
        <5>2. v + 2 * (v - v) < inf
          BY <1>1, <5>1 DEF Fine, v
        <5> QED BY <1>2, <5>2
      <4> QED BY <3>6, <4>1, <4>2
    <3>9. Sorted'
      <4>1. \A i \in 1..Len(list') : list'[i] < inf
        BY <3>8 DEF Listed, N
      <4>2. list' \in Seq(Int) /\ \A i, j \in 1..Len(list') : i < j => list'[i] < list'[j]
        BY <3>6 DEF Ladder
      <4> QED BY <3>7, <4>1, <4>2, DimensionAssumption DEF Sorted, Listed, N
    <3>10. Listed \cup {v} = Seen(n) \cup ({v} \ D!Apart)
      BY <1>1, <2>2
    <3> QED BY <1>4, <3>6, <3>7, <3>9, <3>10
  <2> QED BY <2>1, <2>2
<1>7. Searched' /\ D!LeastPerturbation'
  BY <1>1 DEF Searched, D!LeastPerturbation
<1>8. Fine(dimen)' /\ zero_apart' \in BOOLEAN
  BY <1>1 DEF Fine
<1> QED BY <1>1, <1>4, <1>6, <1>7, <1>8 DEF DimInv

-----------------------------------------------------------------------------
(* Steps of threshold keep the invariant.                                  *)

\* Intervals of width zero are single values.
LEMMA SinglesCount ==
  ASSUME Sorted, Fit(0)
  PROVE  D!min_cover(0).count = N
<1>1. PICK f : IsCover(f, 0) /\ D!min_cover(0).count = Cardinality(f[1])
  <2>1. PICK f : /\ IsCover(f, 0)
                 /\ D!min_cover(0) = [count |-> Cardinality(f[1]),
                                      least |-> D!Min({el_gordo} \cup Gaps(f, 0))]
    BY CoverIs
  <2> QED BY <2>1
<1>2. N \in Nat
  BY ValueIs
<1>3. ASSUME NEW i \in 1..N PROVE D!LastIn(i, 0) = i
  <2> DEFINE j == D!LastIn(i, 0)
  <2>1. j \in i..N /\ D!Value(j) <= D!Value(i) + 0
    BY LastInIs
  <2> HIDE DEF j
  <2>2. i \in 1..N + 1 /\ j \in 1..N + 1
    BY <1>2, <2>1
  <2>3. D!Value(i) \in Int /\ D!Value(j) \in Int /\ (i < j => D!Value(i) < D!Value(j))
    BY <2>2, ValueIs
  <2>4. ~(i < j)
    BY <2>1, <2>3
  <2>5. j = i
    BY <1>2, <2>1, <2>4
  <2> QED BY <2>5 DEF j
<1>4. \A i \in 1..N + 1 : f[i] = IF i > N THEN {} ELSE {i} \cup f[i + 1]
  BY <1>1, <1>3 DEF IsCover, Onward
<1> DEFINE S == {n \in Nat : \A i \in 1..N + 1 : i + n > N => f[i] = i..N}
<1>5. 0 \in S
  <2>1. \A i \in 1..N + 1 : i + 0 > N => i > N /\ i..N = {}
    BY <1>2
  <2>2. \A i \in 1..N + 1 : i + 0 > N => f[i] = i..N
    BY <1>4, <2>1
  <2> QED BY <2>2
<1>6. \A n \in Nat : n \in S => n + 1 \in S
  <2> TAKE n \in Nat
  <2> HAVE n \in S
  <2>1. ASSUME NEW i \in 1..N + 1, i + (n + 1) > N PROVE f[i] = i..N
    <3>1. CASE i > N
      <4>1. i..N = {}
        BY <1>2, <3>1
      <4> QED BY <1>4, <3>1, <4>1
    <3>2. CASE ~(i > N)
      <4>1. i + 1 \in 1..N + 1 /\ (i + 1) + n > N /\ {i} \cup (i + 1..N) = i..N
        BY <1>2, <2>1, <3>2
      <4>2. f[i + 1] = i + 1..N
        BY <4>1
      <4> QED BY <1>4, <3>2, <4>1, <4>2
    <3> QED BY <3>1, <3>2
  <2> QED BY <2>1
<1> HIDE DEF S
<1>7. N + 1 \in S
  BY <1>2, <1>5, <1>6, NatSetInduction
<1>8. f[1] = 1..N
  <2>1. 1 \in 1..N + 1 /\ 1 + (N + 1) > N
    BY <1>2
  <2> QED BY <1>7, <2>1 DEF S
<1>9. Cardinality(1..N) = N
  BY <1>2, FS_Interval
<1> QED BY <1>1, <1>8, <1>9

\* What does not change when threshold takes a step.
Kept == UNCHANGED <<dimen, zero_apart, where, list, value, info>>

LEMMA KeptInv ==
  ASSUME DimInv, Kept, at # "done", at' \in {"double", "creep", "skimp"}, Searched',
         Len(where) = Len(dimen)
  PROVE  DimInv'
<1>1. /\ Fine(dimen) /\ zero_apart \in BOOLEAN /\ WhereRight
      /\ Sorted /\ Listed = Seen(Len(where)) /\ DOMAIN info = Listed
  BY DEF DimInv
<1>2. /\ dimen' = dimen /\ zero_apart' = zero_apart /\ where' = where
      /\ list' = list /\ value' = value /\ info' = info
  BY DEF Kept
<1>3. Sorted' /\ Listed' = Listed /\ Seen(Len(where))' = Seen(Len(where))
  BY <1>1, <1>2 DEF Sorted, Listed, N, Seen, D!Apart
<1>4. WhereRight'
  BY <1>1, <1>2 DEF WhereRight, Called, D!Apart, D!zero_val
<1>5. Fine(dimen)' /\ zero_apart' \in BOOLEAN /\ DOMAIN info' = Listed'
  BY <1>1, <1>2, <1>3 DEF Fine
<1>6. D!LeastPerturbation'
  BY DEF D!LeastPerturbation
<1> QED BY <1>1, <1>2, <1>3, <1>4, <1>5, <1>6 DEF DimInv

\* The state of the search, when the list is complete.
LEMMA Complete ==
  ASSUME DimInv, at # "done", Len(where) = Len(dimen)
  PROVE  /\ Sorted /\ Fine(dimen) /\ Listed = D!Values /\ N \in Nat
         /\ Room(0) /\ Needed(0) /\ Fit(0)
<1>1. Sorted /\ Fine(dimen) /\ Listed = D!Values
  BY ValuesAre DEF DimInv
<1>2. Room(0)
  <2>1. ASSUME NEW v \in D!Values PROVE v + 2 * 0 < inf
    <3>1. v \in Int /\ v + 2 * (v - v) < inf
      BY <1>1, ValuesAre
    <3> QED BY <3>1
  <2> QED BY <2>1 DEF Room
<1>3. Needed(0)
  <2>1. 0..0 - 1 = {}
    OBVIOUS
  <2> QED BY <2>1 DEF Needed
<1> QED BY <1>1, <1>2, <1>3, ValueIs, RoomFits

\* The values stay, and so does what is said of them.
LEMMA SameValues ==
  ASSUME Kept
  PROVE  /\ \A x : Room(x)' = Room(x)
         /\ \A x : Needed(x)' = Needed(x)
         /\ N' = N /\ \A w : D!min_cover(w)' = D!min_cover(w)
<1>1. /\ dimen' = dimen /\ zero_apart' = zero_apart /\ where' = where
      /\ list' = list /\ value' = value /\ info' = info
  BY DEF Kept
<1>2. D!Values' = D!Values
  BY <1>1 DEF D!Values, D!Apart
<1>3. \A w : D!min_cover(w)' = D!min_cover(w)
  BY <1>1 DEF D!min_cover, D!LastIn, D!Value
<1>4. \A w : Scattered(w)' = Scattered(w)
  BY <1>2 DEF Scattered
<1>5. \A x : Room(x)' = Room(x)
  BY <1>2 DEF Room
<1>6. \A x : Needed(x)' = Needed(x)
  BY <1>4 DEF Needed
<1> QED BY <1>1, <1>3, <1>5, <1>6 DEF N

\* threshold starts with intervals of width zero.
LEMMA StartInv ==
  ASSUME DimInv, D!Start
  PROVE  DimInv'
<1> DEFINE c == D!min_cover(0)
<1>1. /\ at = "sort" /\ Len(where) = Len(dimen) /\ Kept
      /\ excess' = c.count - m /\ perturbation' = c.least /\ delta' = 0
      /\ at' = IF excess' <= 0 THEN "skimp" ELSE "double"
  BY DEF D!Start, Kept
<1>2. /\ Sorted /\ Fine(dimen) /\ Listed = D!Values /\ N \in Nat
      /\ Room(0) /\ Needed(0) /\ Fit(0)
  BY <1>1, Complete
<1>3. c.count = N /\ (c.count > m => Needed(c.least) /\ Room(c.least))
  BY <1>2, SinglesCount, NotEnough
<1> HIDE DEF c
<1>4. /\ \A x : Room(x)' = Room(x)
      /\ \A x : Needed(x)' = Needed(x)
      /\ N' = N
  BY <1>1, SameValues
<1>5. excess' = N - m /\ m \in Nat
  BY <1>1, <1>3, DimensionAssumption
<1>6. CASE excess' <= 0
  <2>1. at' = "skimp" /\ delta' = 0 /\ ~(excess' > 0)
    BY <1>1, <1>2, <1>5, <1>6
  <2>2. Room(delta') /\ Needed(delta')
    BY <1>2, <2>1
  <2>3. Room(delta)' /\ Needed(delta)'
    BY <1>4, <2>2
  <2>4. Searched'
    BY <1>4, <1>5, <2>1, <2>3 DEF Searched
  <2> QED BY <1>1, <2>1, <2>4, KeptInv
<1>7. CASE ~(excess' <= 0)
  <2>1. c.count > m /\ excess' > 0 /\ at' = "double"
    BY <1>1, <1>2, <1>3, <1>5, <1>7
  <2>2. Room(perturbation') /\ Needed(perturbation')
    BY <1>1, <1>3, <2>1
  <2>3. Room(perturbation)' /\ Needed(perturbation)'
    BY <1>4, <2>2
  <2>4. Searched'
    BY <1>4, <1>5, <2>1, <2>3 DEF Searched
  <2> QED BY <1>1, <2>1, <2>4, KeptInv
<1> QED BY <1>6, <1>7

\* It doubles the width until few intervals will do.
LEMMA DoubleInv ==
  ASSUME DimInv, D!Double
  PROVE  DimInv'
<1> DEFINE p == perturbation
           c == D!min_cover(2 * p)
<1>1. /\ at = "double" /\ Kept /\ excess' = excess /\ delta' = p /\ perturbation' = c.least
      /\ at' = IF c.count <= m THEN "creep" ELSE "double"
  BY DEF D!Double, Kept
<1>2. Len(where) = Len(dimen) /\ excess = N - m /\ excess > 0 /\ Room(p) /\ Needed(p)
  BY <1>1 DEF DimInv, Searched
<1>3. Sorted /\ Fine(dimen) /\ Listed = D!Values /\ N \in Nat
  BY <1>1, <1>2, Complete
<1>4. Fit(2 * p)
  BY <1>2, <1>3, RoomFits
<1>5. c.count \in 0..N /\ (c.count > m => Needed(c.least) /\ Room(c.least))
  BY <1>3, <1>4, CoveringIs, NotEnough
<1> HIDE DEF c, p
<1>6. /\ \A x : Room(x)' = Room(x)
      /\ \A x : Needed(x)' = Needed(x)
      /\ N' = N
  BY <1>1, SameValues
<1>7. Searched' /\ at' \in {"double", "creep", "skimp"}
  <2>1. CASE c.count <= m
    <3>1. Room(delta') /\ Needed(delta')
      BY <1>1, <1>2
    <3>2. Room(delta)' /\ Needed(delta)'
      BY <1>6, <3>1
    <3> QED BY <1>1, <1>2, <1>6, <2>1, <3>2 DEF Searched
  <2>2. CASE ~(c.count <= m)
    <3>1. c.count > m
      BY <1>3, <1>5, <2>2, DimensionAssumption
    <3>2. Room(perturbation') /\ Needed(perturbation')
      BY <1>1, <1>5, <3>1
    <3>3. Room(perturbation)' /\ Needed(perturbation)'
      BY <1>6, <3>2
    <3> QED BY <1>1, <1>2, <1>6, <2>2, <3>3 DEF Searched
  <2> QED BY <2>1, <2>2
<1> QED BY <1>1, <1>2, <1>7, KeptInv

\* From half of that it goes on by the least steps that change the cover.
LEMMA CreepInv ==
  ASSUME DimInv, D!Creep
  PROVE  DimInv'
<1> DEFINE c == D!min_cover(delta)
<1>1. /\ at = "creep" /\ Kept /\ excess' = excess
      /\ delta' = IF c.count > m THEN c.least ELSE delta
      /\ at' = IF c.count > m THEN "creep" ELSE "skimp"
  BY DEF D!Creep, Kept
<1>2. Len(where) = Len(dimen) /\ excess = N - m /\ excess > 0 /\ Room(delta) /\ Needed(delta)
  BY <1>1 DEF DimInv, Searched
<1>3. Sorted /\ Fine(dimen) /\ Listed = D!Values /\ N \in Nat
  BY <1>1, <1>2, Complete
<1>4. Fit(delta)
  BY <1>2, <1>3, RoomFits
<1>5. c.count \in 0..N /\ (c.count > m => Needed(c.least) /\ Room(c.least))
  BY <1>3, <1>4, CoveringIs, NotEnough
<1>6. /\ \A x : Room(x)' = Room(x)
      /\ \A x : Needed(x)' = Needed(x)
      /\ N' = N /\ D!min_cover(delta') = D!min_cover(delta)'
  <2>1. /\ \A x : Room(x)' = Room(x)
        /\ \A x : Needed(x)' = Needed(x)
        /\ N' = N
    BY <1>1, SameValues
  <2>2. \A w : D!min_cover(w)' = D!min_cover(w)
    BY <1>1, SameValues
  <2> QED BY <2>1, <2>2
<1>7. Searched' /\ at' \in {"double", "creep", "skimp"}
  <2>1. Room(delta') /\ Needed(delta')
    BY <1>1, <1>2, <1>5
  <2>2. Room(delta)' /\ Needed(delta)'
    BY <1>6, <2>1
  <2>3. ~(c.count > m) => c.count <= m /\ delta' = delta
    BY <1>1, <1>3, <1>5, DimensionAssumption
  <2>4. ~(c.count > m) => D!min_cover(delta)'.count <= m
    BY <1>6, <2>3
  <2> HIDE DEF c
  <2> QED BY <1>1, <1>2, <1>6, <2>2, <2>4 DEF Searched
<1> HIDE DEF c
<1> QED BY <1>1, <1>2, <1>7, KeptInv

-----------------------------------------------------------------------------
(* The intervals that skimp replaces.                                      *)

End(i, x) ==
    LET reach == IF x = 0 THEN i ELSE D!LastIn(i, delta)
    IN  IF reach - i > x THEN i + x ELSE reach

Interval(i, j) == [first |-> i, last |-> j]

\* The intervals from position i on, while x values can still be spared.
Later(g) ==
    [z \in (1..N + 1) \X (0..N) |->
        IF z[1] > N THEN <<>>
        ELSE <<Interval(z[1], End(z[1], z[2]))>>
                 \o g[<<End(z[1], z[2]) + 1, z[2] - (End(z[1], z[2]) - z[1])>>]]

\* The first interval ends in the list, and spares no more values than it may.
LEMMA EndIs ==
  ASSUME Sorted, Fit(delta), NEW i \in 1..N, NEW x \in 0..N
  PROVE  /\ End(i, x) \in i..N /\ x - (End(i, x) - i) \in 0..N
         /\ D!Value(End(i, x)) - D!Value(i) <= delta
         /\ x = 0 => End(i, x) = i
         /\ x # 0 => End(i, x) = D!LastIn(i, delta) \/ x - (End(i, x) - i) = 0
         /\ x # 0 => End(i, x) <= D!LastIn(i, delta)
<1> DEFINE r == D!LastIn(i, delta)
<1>1. /\ N \in Nat /\ delta \in Nat /\ r \in i..N /\ D!Value(r) <= D!Value(i) + delta
      /\ \A p \in 1..N + 1 : D!Value(p) \in Int
      /\ \A p, q \in 1..N + 1 : p < q => D!Value(p) < D!Value(q)
  BY ValueIs, LastInIs DEF Fit
<1> HIDE DEF r
<1>2. CASE x = 0
  <2>1. End(i, x) = i
    BY <1>1, <1>2 DEF End
  <2>2. D!Value(i) \in Int
    BY <1>1
  <2> QED BY <1>1, <1>2, <2>1, <2>2
<1>3. CASE x # 0
  <2>1. End(i, x) = IF r - i > x THEN i + x ELSE r
    BY <1>3 DEF End, r
  <2>2. /\ End(i, x) \in i..r /\ x - (End(i, x) - i) \in 0..N
        /\ End(i, x) = r \/ x - (End(i, x) - i) = 0
    BY <1>1, <1>3, <2>1
  <2> DEFINE j == End(i, x)
  <2>3. j \in i..N /\ j <= r
    BY <1>1, <2>2
  <2> HIDE DEF j
  <2>4. D!Value(j) <= D!Value(r)
    <3>1. j \in 1..N + 1 /\ r \in 1..N + 1 /\ (j = r \/ j < r)
      BY <1>1, <2>3
    <3> QED BY <1>1, <3>1
  <2>5. D!Value(j) \in Int /\ D!Value(r) \in Int /\ D!Value(i) \in Int
    <3>1. j \in 1..N + 1 /\ r \in 1..N + 1 /\ i \in 1..N + 1
      BY <1>1, <2>3
    <3> QED BY <1>1, <3>1
  <2>6. D!Value(j) - D!Value(i) <= delta
    BY <1>1, <2>4, <2>5
  <2> QED BY <1>3, <2>2, <2>3, <2>6 DEF j, r
<1> QED BY <1>2, <1>3

\* Such sequences of intervals are defined.
LEMMA LaterDefined ==
  ASSUME Sorted, Fit(delta)
  PROVE  \E g : g = Later(g)
<1> DEFINE X == (1..N + 1) \X (0..N)
           rank == [z \in X |-> N + 1 - z[1]]
           next == [z \in X |-> IF z[1] > N THEN z
                                ELSE <<End(z[1], z[2]) + 1, z[2] - (End(z[1], z[2]) - z[1])>>]
           R == Seq([first : Int, last : Int])
           step == [y \in X \X R |->
                       IF y[1][1] > N THEN <<>>
                       ELSE <<Interval(y[1][1], End(y[1][1], y[1][2]))>> \o y[2]]
<1>1. N \in Nat
  BY ValueIs
<1>2. ASSUME NEW i \in 1..N, NEW x \in 0..N
      PROVE  End(i, x) \in i..N /\ x - (End(i, x) - i) \in 0..N
  BY EndIs
<1>3. \A z \in X : z[1] \in 1..N + 1 /\ z[2] \in 0..N /\ z = <<z[1], z[2]>>
  OBVIOUS
<1>4. ASSUME NEW z \in X, ~(z[1] > N)
      PROVE  /\ next[z] = <<End(z[1], z[2]) + 1, z[2] - (End(z[1], z[2]) - z[1])>>
             /\ next[z] \in X /\ rank[next[z]] < rank[z]
  <2> DEFINE i == z[1]  x == z[2]  j == End(i, x)
  <2>1. i \in 1..N /\ x \in 0..N
    BY <1>1, <1>3, <1>4
  <2>2. j \in i..N /\ x - (j - i) \in 0..N
    BY <1>2, <2>1
  <2>3. next[z] = <<j + 1, x - (j - i)>>
    BY <1>4
  <2>4. j + 1 \in 1..N + 1
    BY <1>1, <2>1, <2>2
  <2>5. <<j + 1, x - (j - i)>> \in X
    BY <2>2, <2>4
  <2>6. rank[next[z]] = N + 1 - (j + 1) /\ rank[z] = N + 1 - i
    BY <2>3, <2>5
  <2> HIDE DEF i, x, j, rank, next, X
  <2>7. rank[next[z]] < rank[z]
    BY <1>1, <2>1, <2>2, <2>6
  <2> QED BY <2>3, <2>5, <2>7 DEF i, x, j
<1>5. rank \in [X -> Nat] /\ <<>> \in R
  <2>1. \A z \in X : N + 1 - z[1] \in Nat
    BY <1>1, <1>3
  <2> QED BY <2>1
<1>6. next \in [X -> X]
  <2>1. \A z \in X : next[z] \in X
    BY <1>4
  <2>2. next = [z \in X |-> next[z]]
    OBVIOUS
  <2> HIDE DEF next, X
  <2> QED BY <2>1, <2>2
<1>7. \A z \in X : rank[z] # 0 => rank[next[z]] < rank[z]
  <2>1. \A z \in X : rank[z] # 0 => ~(z[1] > N)
    BY <1>1, <1>3
  <2> HIDE DEF rank, next, X
  <2> QED BY <1>4, <2>1
<1>8. step \in [X \X R -> R]
  <2>1. ASSUME NEW z \in X, NEW q \in R, ~(z[1] > N)
        PROVE  <<Interval(z[1], End(z[1], z[2]))>> \o q \in R
    <3>1. z[1] \in 1..N /\ z[2] \in 0..N
      BY <1>1, <1>3, <2>1
    <3>2. z[1] \in Int /\ End(z[1], z[2]) \in Int
      BY <1>1, <1>2, <3>1
    <3>3. Interval(z[1], End(z[1], z[2])) \in [first : Int, last : Int]
      BY <3>2 DEF Interval
    <3> QED BY <3>3
  <2>2. \A y \in X \X R : y[1] \in X /\ y[2] \in R
    OBVIOUS
  <2>3. \A y \in X \X R : (IF y[1][1] > N THEN <<>>
                           ELSE <<Interval(y[1][1], End(y[1][1], y[1][2]))>> \o y[2]) \in R
    <3> HIDE DEF X, R
    <3> QED BY <1>5, <2>1, <2>2
  <2> HIDE DEF X, R
  <2> QED BY <2>3
<1>9. PICK g \in [X -> R] : Follows(g, X, rank, next, <<>>, step, N)
  <2> HIDE DEF X, rank, next, R, step
  <2> QED BY <1>1, <1>5, <1>6, <1>7, <1>8, DescentDefined
<1>10. ASSUME NEW z \in X
       PROVE  g[z] = IF z[1] > N THEN <<>>
                     ELSE <<Interval(z[1], End(z[1], z[2]))>>
                              \o g[<<End(z[1], z[2]) + 1, z[2] - (End(z[1], z[2]) - z[1])>>]
  <2>1. rank[z] <= N /\ (rank[z] = 0 <=> z[1] > N)
    BY <1>1, <1>3
  <2>2. g[z] = IF rank[z] = 0 THEN <<>> ELSE step[<<z, g[next[z]]>>]
    <3> HIDE DEF rank, next, step, X
    <3> QED BY <1>9, <2>1 DEF Follows
  <2>3. ASSUME NEW q \in R, ~(z[1] > N)
        PROVE  step[<<z, q>>] = <<Interval(z[1], End(z[1], z[2]))>> \o q
    <3>1. <<z, q>> \in X \X R
      OBVIOUS
    <3> QED BY <2>3, <3>1
  <2>4. ~(z[1] > N) => g[next[z]] \in R
    <3> HIDE DEF next, R, X
    <3> QED BY <1>4, <1>9
  <2> HIDE DEF next, step, R, X, rank
  <2> QED BY <1>4, <2>1, <2>2, <2>3, <2>4
<1>11. g = Later(g)
  <2> HIDE DEF R
  <2> QED BY <1>9, <1>10 DEF Later
<1> QED BY <1>11

\* Intervals that have all values from position i on, in order, and none too wide.
Tiles(q, i) ==
    /\ q \in Seq([first : 1..N, last : 1..N])
    /\ \A n \in 1..Len(q) :
          /\ i <= q[n].first /\ q[n].first <= q[n].last
          /\ D!Value(q[n].last) - D!Value(q[n].first) <= delta
    /\ \A n, h \in 1..Len(q) : n < h => q[n].last < q[h].first
    /\ \A p \in i..N : \E n \in 1..Len(q) : p \in q[n].first..q[n].last

\* One interval in front of the others.
LEMMA TileMore ==
  ASSUME N \in Nat, NEW i \in 1..N, NEW j \in i..N, D!Value(j) - D!Value(i) <= delta,
         NEW q, Tiles(q, j + 1)
  PROVE  /\ Tiles(<<Interval(i, j)>> \o q, i)
         /\ Len(<<Interval(i, j)>> \o q) = Len(q) + 1
<1> DEFINE T == [first : 1..N, last : 1..N]
           v == Interval(i, j)
           r == <<v>> \o q
<1>1. v \in T /\ v.first = i /\ v.last = j
  BY DEF Interval
<1> HIDE DEF v
<1>2. q \in Seq(T) /\ Len(q) \in Nat
  BY DEF Tiles
<1>3. r \in Seq(T) /\ Len(r) = Len(q) + 1 /\ r[1] = v /\ \A n \in 1..Len(q) : r[n + 1] = q[n]
  <2> HIDE DEF T
  <2> QED BY <1>1, <1>2
<1> HIDE DEF r
<1>4. \A n \in 1..Len(r) : n = 1 \/ (n - 1 \in 1..Len(q) /\ r[n] = q[n - 1])
  <2> SUFFICES ASSUME NEW n \in 1..Len(r), n # 1 PROVE n - 1 \in 1..Len(q) /\ r[n] = q[n - 1]
    OBVIOUS
  <2>1. n - 1 \in 1..Len(q) /\ (n - 1) + 1 = n
    BY <1>2, <1>3
  <2> QED BY <1>3, <2>1
<1>5. \A n \in 1..Len(q) :
          /\ q[n].first \in 1..N /\ q[n].last \in 1..N
          /\ j + 1 <= q[n].first /\ q[n].first <= q[n].last
          /\ D!Value(q[n].last) - D!Value(q[n].first) <= delta
  <2>1. \A n \in 1..Len(q) : q[n] \in T
    <3> HIDE DEF T
    <3> QED BY <1>2
  <2> QED BY <2>1 DEF Tiles
<1>6. ASSUME NEW n \in 1..Len(r)
      PROVE  /\ i <= r[n].first /\ r[n].first <= r[n].last
             /\ D!Value(r[n].last) - D!Value(r[n].first) <= delta
  <2>1. CASE n = 1
    BY <1>1, <1>3, <2>1
  <2>2. CASE n # 1
    <3>1. n - 1 \in 1..Len(q) /\ r[n] = q[n - 1]
      BY <1>4, <2>2
    <3>2. /\ r[n].first \in 1..N /\ j + 1 <= r[n].first /\ r[n].first <= r[n].last
          /\ D!Value(r[n].last) - D!Value(r[n].first) <= delta
      BY ONLY <1>5, <3>1
    <3>3. i <= r[n].first
      BY ONLY <3>2, N \in Nat, i \in 1..N, j \in i..N
    <3> QED BY <3>2, <3>3
  <2> QED BY <2>1, <2>2
<1>7. ASSUME NEW n \in 1..Len(r), NEW h \in 1..Len(r), n < h PROVE r[n].last < r[h].first
  <2>1. h # 1 /\ h - 1 \in 1..Len(q) /\ r[h] = q[h - 1]
    BY <1>4, <1>7
  <2>2. CASE n = 1
    <3>1. j + 1 <= q[h - 1].first /\ q[h - 1].first \in 1..N
      BY <1>5, <2>1
    <3> QED BY <1>1, <1>3, <2>1, <2>2, <3>1
  <2>3. CASE n # 1
    <3>1. n - 1 \in 1..Len(q) /\ r[n] = q[n - 1] /\ n - 1 < h - 1
      BY <1>4, <1>7, <2>3
    <3>2. q[n - 1].last < q[h - 1].first
      BY <2>1, <3>1 DEF Tiles
    <3> QED BY <2>1, <3>1, <3>2
  <2> QED BY <2>2, <2>3
<1>8. ASSUME NEW p \in i..N PROVE \E n \in 1..Len(r) : p \in r[n].first..r[n].last
  <2>1. CASE p <= j
    <3>1. p \in i..j /\ 1 \in 1..Len(r)
      BY <1>2, <1>3, <2>1
    <3> QED BY <1>1, <1>3, <3>1
  <2>2. CASE ~(p <= j)
    <3>1. p \in j + 1..N
      BY <2>2
    <3>2. PICK n \in 1..Len(q) : p \in q[n].first..q[n].last
      BY <3>1 DEF Tiles
    <3>3. n + 1 \in 1..Len(r)
      <4>1. Len(q) \in Nat /\ Len(r) = Len(q) + 1
        BY <1>2, <1>3
      <4> QED BY ONLY <4>1, n \in 1..Len(q)
    <3>4. r[n + 1] = q[n]
      BY <1>3
    <3> QED BY <3>2, <3>3, <3>4
  <2> QED BY <2>1, <2>2
<1>9. Tiles(r, i)
  BY <1>3, <1>6, <1>7, <1>8 DEF Tiles
<1> QED BY <1>3, <1>9 DEF r, v

\* A cover from the next interval on has one position less.
LEMMA CoverCount ==
  ASSUME Sorted, NEW w, Fit(w), NEW f, IsCover(f, w)
  PROVE  /\ \A i \in 1..N + 1 : Cardinality(f[i]) \in 0..N + 1 - i
         /\ \A i \in 1..N : Cardinality(f[i]) = Cardinality(f[D!LastIn(i, w) + 1]) + 1
<1>1. N \in Nat /\ \A i \in 1..N : D!LastIn(i, w) \in i..N
  BY ValueIs, LastInIs
<1>2. ASSUME NEW i \in 1..N + 1 PROVE IsFiniteSet(f[i]) /\ Cardinality(f[i]) \in 0..N + 1 - i
  <2>1. IsFiniteSet(i..N) /\ Cardinality(i..N) = N + 1 - i
    <3>1. IsFiniteSet(i..N) /\ Cardinality(i..N) = IF i > N THEN 0 ELSE N - i + 1
      BY <1>1, FS_Interval
    <3> QED BY <1>1, <3>1
  <2>2. f[i] \in SUBSET (i..N)
    BY CoverSpread DEF Spread
  <2>3. IsFiniteSet(f[i]) /\ Cardinality(f[i]) <= Cardinality(i..N)
    BY <2>1, <2>2, FS_Subset
  <2>4. Cardinality(f[i]) \in Nat
    BY <2>3, FS_CardinalityType
  <2> QED BY <1>1, <2>1, <2>3, <2>4
<1>3. ASSUME NEW i \in 1..N
      PROVE  Cardinality(f[i]) = Cardinality(f[D!LastIn(i, w) + 1]) + 1
  <2> DEFINE j == D!LastIn(i, w) + 1
  <2>1. j \in 1..N + 1 /\ i < j /\ i \in 1..N + 1 /\ ~(i > N)
    BY <1>1
  <2>2. f[i] = {i} \cup f[j]
    BY <2>1 DEF IsCover, Onward
  <2> HIDE DEF j
  <2>3. i \notin f[j]
    <3>1. f[j] \subseteq j..N
      BY <2>1, CoverSpread DEF Spread
    <3> QED BY <1>1, <2>1, <3>1
  <2>4. IsFiniteSet(f[j])
    BY <1>2, <2>1
  <2>5. Cardinality(f[j] \cup {i}) = Cardinality(f[j]) + 1
    BY <2>3, <2>4, FS_AddElement
  <2>6. f[j] \cup {i} = f[i]
    BY <2>2
  <2> QED BY <2>5, <2>6 DEF j
<1> QED BY <1>2, <1>3

\* As many values are spared as are to be, if a cover leaves that many out.
Spares(g, f, i) ==
    \A x \in 0..N : x + Cardinality(f[i]) <= N + 1 - i =>
        Tiles(g[<<i, x>>], i) /\ Len(g[<<i, x>>]) = N + 1 - i - x

\* From the next interval's position to the one before.
LEMMA SparesStep ==
  ASSUME Sorted, Fit(delta), NEW f, IsCover(f, delta), NEW g, g = Later(g), NEW i \in 1..N,
         \A j \in i + 1..N + 1 : Spares(g, f, j)
  PROVE  Spares(g, f, i)
<1>1. N \in Nat
  BY ValueIs
<1> SUFFICES ASSUME NEW x \in 0..N, x + Cardinality(f[i]) <= N + 1 - i
             PROVE  Tiles(g[<<i, x>>], i) /\ Len(g[<<i, x>>]) = N + 1 - i - x
  BY DEF Spares
<1> DEFINE j == End(i, x)  y == x - (j - i)  r == D!LastIn(i, delta)
<1>2. /\ j \in i..N /\ y \in 0..N /\ D!Value(j) - D!Value(i) <= delta
      /\ x = 0 => j = i
      /\ x # 0 => j = r \/ y = 0
  BY EndIs
<1>3. g[<<i, x>>] = <<Interval(i, j)>> \o g[<<j + 1, y>>]
  <2>1. <<i, x>> \in (1..N + 1) \X (0..N) /\ ~(i > N)
    BY <1>1
  <2> QED BY <2>1, Zenon DEF Later
<1>4. y = x - (j - i)
  OBVIOUS
<1> HIDE DEF j, y, r
<1>5. y + Cardinality(f[j + 1]) <= N + 1 - (j + 1)
  <2>1. j + 1 \in 1..N + 1 /\ r + 1 \in 1..N + 1
    BY <1>1, <1>2, LastInIs DEF r
  <2>2. Cardinality(f[j + 1]) \in 0..N + 1 - (j + 1)
    BY <2>1, CoverCount
  <2>3. Cardinality(f[i]) = Cardinality(f[r + 1]) + 1 /\ Cardinality(f[r + 1]) \in 0..N + 1 - (r + 1)
    BY <2>1, CoverCount DEF r
  <2>4. CASE y = 0
    BY <1>1, <1>2, <2>2, <2>4
  <2>5. CASE y # 0
    <3>1. j = r
      <4>1. x # 0
        BY <1>1, <1>2, <1>4, <2>5
      <4> QED BY <1>2, <2>5, <4>1
    <3>2. Cardinality(f[i]) = Cardinality(f[j + 1]) + 1
      BY <2>3, <3>1
    <3> QED BY <1>1, <1>2, <1>4, <2>2, <3>2
  <2> QED BY <2>4, <2>5
<1>6. Tiles(g[<<j + 1, y>>], j + 1) /\ Len(g[<<j + 1, y>>]) = N + 1 - (j + 1) - y
  <2>1. j + 1 \in i + 1..N + 1
    BY <1>1, <1>2
  <2> QED BY <1>2, <1>5, <2>1 DEF Spares
<1>7. Tiles(g[<<i, x>>], i) /\ Len(g[<<i, x>>]) = Len(g[<<j + 1, y>>]) + 1
  <2> DEFINE q == g[<<j + 1, y>>]
  <2>1. Tiles(q, j + 1) /\ D!Value(j) - D!Value(i) <= delta
    BY <1>2, <1>6
  <2>2. g[<<i, x>>] = <<Interval(i, j)>> \o q
    BY <1>3
  <2> HIDE DEF q
  <2>3. Tiles(<<Interval(i, j)>> \o q, i) /\ Len(<<Interval(i, j)>> \o q) = Len(q) + 1
    BY <1>1, <1>2, <2>1, TileMore
  <2> QED BY <2>2, <2>3 DEF q
<1> QED BY <1>1, <1>2, <1>4, <1>6, <1>7

\* And so from the first position on.
LEMMA SparesAre ==
  ASSUME Sorted, Fit(delta), NEW f, IsCover(f, delta), NEW g, g = Later(g)
  PROVE  Spares(g, f, 1)
<1>1. N \in Nat
  BY ValueIs
<1> DEFINE S == {n \in Nat : \A i \in 1..N + 1 : i + n > N => Spares(g, f, i)}
<1>2. 0 \in S
  <2> SUFFICES ASSUME NEW i \in 1..N + 1, i + 0 > N PROVE Spares(g, f, i)
    OBVIOUS
  <2>1. i = N + 1 /\ i > N
    BY <1>1
  <2>2. Cardinality(f[i]) = 0
    <3>1. f[i] = {}
      BY <2>1 DEF IsCover, Onward
    <3> QED BY <3>1, FS_EmptySet
  <2>3. ASSUME NEW x \in 0..N, x + Cardinality(f[i]) <= N + 1 - i
        PROVE  Tiles(g[<<i, x>>], i) /\ Len(g[<<i, x>>]) = N + 1 - i - x
    <3>1. x = 0
      BY <1>1, <2>1, <2>2, <2>3
    <3>2. <<i, x>> \in (1..N + 1) \X (0..N)
      BY <1>1
    <3>3. g[<<i, x>>] = <<>>
      BY <2>1, <3>2, Zenon DEF Later
    <3>4. Tiles(<<>>, i) /\ Len(<<>>) = 0
      <4>1. Len(<<>>) = 0 /\ 1..0 = {} /\ i..N = {} /\ <<>> \in Seq([first : 1..N, last : 1..N])
        BY <1>1, <2>1
      <4> QED BY <4>1 DEF Tiles
    <3> QED BY <1>1, <2>1, <3>1, <3>3, <3>4
  <2> QED BY <2>3 DEF Spares
<1>3. \A n \in Nat : n \in S => n + 1 \in S
  <2> TAKE n \in Nat
  <2> HAVE n \in S
  <2>1. ASSUME NEW i \in 1..N + 1, i + (n + 1) > N PROVE Spares(g, f, i)
    <3>1. CASE i = N + 1
      <4>1. i + n > N
        BY <1>1, <3>1
      <4> QED BY <4>1
    <3>2. CASE i # N + 1
      <4>1. i \in 1..N
        BY <1>1, <3>2
      <4>2. \A j \in i + 1..N + 1 : j \in 1..N + 1 /\ j + n > N
        BY <1>1, <2>1
      <4>3. \A j \in i + 1..N + 1 : Spares(g, f, j)
        BY <4>2
      <4> QED BY <4>1, <4>3, SparesStep
    <3> QED BY <3>1, <3>2
  <2> QED BY <2>1
<1> HIDE DEF S
<1>4. N + 1 \in S
  BY <1>1, <1>2, <1>3, NatSetInduction
<1>5. 1 \in 1..N + 1 /\ 1 + (N + 1) > N
  BY <1>1
<1> QED BY <1>4, <1>5 DEF S

\* skimp makes m intervals, or one of each value if there are no more than m.
LEMMA IntervalsAre ==
  ASSUME Sorted, Fit(delta), excess = N - m,
         excess > 0 => D!min_cover(delta).count <= m
  PROVE  /\ Tiles(D!Intervals(excess), 1)
         /\ Len(D!Intervals(excess)) = IF N > m THEN m ELSE N
<1> DEFINE g == CHOOSE g : g = Later(g)
           x == IF excess > 0 THEN excess ELSE 0
<1>1. N \in Nat /\ m \in Nat
  BY ValueIs, DimensionAssumption
<1>2. D!Intervals(excess) = g[<<1, x>>]
  <2>1. D!Intervals(excess) =
            LET from[z \in (1..Len(list) + 1) \X (0..Len(list))] ==
                    LET i == z[1]
                        y == z[2]
                        reach == IF y = 0 THEN i ELSE D!LastIn(i, delta)
                        j == IF reach - i > y THEN i + y ELSE reach
                    IN  IF i > Len(list) THEN <<>>
                        ELSE <<[first |-> i, last |-> j]>> \o from[<<j + 1, y - (j - i)>>]
            IN  from[<<1, IF excess > 0 THEN excess ELSE 0>>]
    BY Zenon DEF D!Intervals
  <2> QED BY ONLY <2>1, Zenon DEF N, Later, End, Interval
<1>3. g = Later(g)
  BY LaterDefined
<1> HIDE DEF g
<1>4. PICK f : IsCover(f, delta) /\ D!min_cover(delta).count = Cardinality(f[1])
  <2>1. PICK f : /\ IsCover(f, delta)
                 /\ D!min_cover(delta) = [count |-> Cardinality(f[1]),
                                          least |-> D!Min({el_gordo} \cup Gaps(f, delta))]
    BY CoverIs
  <2> QED BY <2>1
<1>5. Cardinality(f[1]) \in 0..N + 1 - 1
  BY <1>1, <1>4, CoverCount
<1>6. x \in 0..N /\ x + Cardinality(f[1]) <= N + 1 - 1 /\ N - x = (IF N > m THEN m ELSE N)
  BY <1>1, <1>4, <1>5
<1> HIDE DEF x
<1>7. Spares(g, f, 1)
  BY <1>3, <1>4, SparesAre
<1>8. Tiles(g[<<1, x>>], 1) /\ Len(g[<<1, x>>]) = N + 1 - 1 - x
  BY <1>6, <1>7 DEF Spares
<1> QED BY <1>1, <1>2, <1>6, <1>8

-----------------------------------------------------------------------------
(* No table of m entries comes closer.                                     *)

\* More than m values are too far apart for m intervals of less width.
LEMMA NotCloser ==
  ASSUME Fine(dimen), NEW x \in Nat, Needed(x), NEW p \in Nat, 2 * p <= x + 1
  PROVE  ~ D!Within(m, p - 1)
<1> SUFFICES ASSUME D!Within(m, p - 1) PROVE FALSE
  OBVIOUS
<1>1. m \in Nat /\ m > 0
  BY DimensionAssumption
<1>2. \A v \in D!Values : v \in Int
  BY ValuesAre
<1>3. PICK s \in [1..m -> D!Values] :
          \A v \in D!Values : \E i \in 1..m : v - s[i] \in 0..2 * (p - 1)
  BY DEF D!Within
<1>4. \A i \in 1..m : s[i] \in D!Values /\ s[i] \in Int
  BY <1>2
<1> DEFINE w == 2 * (p - 1)
<1>5. w \in 0..x - 1
  <2>1. 1 \in 1..m
    BY <1>1
  <2>2. PICK i \in 1..m : s[1] - s[i] \in 0..2 * (p - 1)
    BY <1>3, <1>4, <2>1
  <2>3. p # 0
    BY <1>4, <2>1, <2>2
  <2> QED BY <2>3
<1>6. PICK T \in SUBSET D!Values :
          /\ IsFiniteSet(T) /\ Cardinality(T) > m
          /\ \A a, b \in T : a < b => b - a > w
  BY <1>5 DEF Needed, Scattered
<1> HIDE DEF w
<1> DEFINE Near(t) == CHOOSE i \in 1..m : t - s[i] \in 0..w
           f == [t \in T |-> Near(t)]
<1>7. ASSUME NEW t \in T PROVE Near(t) \in 1..m /\ t - s[Near(t)] \in 0..w
  <2>1. \E i \in 1..m : t - s[i] \in 0..w
    BY <1>3, <1>6 DEF w
  <2> QED BY <2>1
<1> HIDE DEF Near
<1>8. f \in [T -> 1..m] /\ \A t \in T : f[t] = Near(t)
  BY <1>7
<1> HIDE DEF f
<1>9. PICK a \in T, b \in T : a # b /\ f[a] = f[b]
  <2>1. IsFiniteSet(1..m) /\ Cardinality(1..m) = m
    BY <1>1, FS_Interval
  <2>2. Cardinality(1..m) < Cardinality(T)
    BY <1>1, <1>6, <2>1, FS_CardinalityType
  <2>3. f \in [T -> 1..m] /\ IsFiniteSet(T)
    BY <1>6, <1>8
  <2>4. \E a, b \in T : a # b /\ f[a] = f[b]
    BY ONLY <2>1, <2>2, <2>3, FS_PigeonHole
  <2> QED BY <2>4
<1>10. ASSUME NEW c \in T, NEW e \in T, c < e, f[c] = f[e] PROVE FALSE
  <2>1. c - s[f[c]] \in 0..w /\ e - s[f[c]] \in 0..w /\ s[f[c]] \in Int
    BY <1>4, <1>7, <1>8, <1>10
  <2>2. c \in Int /\ e \in Int /\ w \in Int
    BY <1>2, <1>5
  <2>3. e - c > w
    BY <1>6, <1>10
  <2> QED BY <2>1, <2>2, <2>3
<1>11. a \in Int /\ b \in Int
  BY <1>2
<1>12. a < b \/ b < a
  BY <1>9, <1>11
<1> QED BY <1>9, <1>10, <1>12

\* The midpoint of an interval.
LEMMA MidIs ==
  ASSUME NEW x \in Nat, NEW v, D!Value(v.first) \in Int, D!Value(v.last) \in Int,
         D!Value(v.first) <= D!Value(v.last), D!Value(v.last) - D!Value(v.first) <= x
  PROVE  /\ D!Mid(v) \in Int /\ D!Value(v.first) <= D!Mid(v) /\ D!Mid(v) <= D!Value(v.last)
         /\ D!Mid(v) - D!Value(v.first) <= D!Value(v.last) - D!Mid(v)
         /\ 2 * (D!Value(v.last) - D!Mid(v)) <= x + 1
<1> DEFINE a == D!Value(v.first)  b == D!Value(v.last)  h == (b - a) \div 2
<1>1. a \in Int /\ b \in Int /\ a <= b /\ b - a <= x
  OBVIOUS
<1>2. D!Mid(v) = a + h
  BY DEF D!Mid
<1> HIDE DEF a, b
<1>3. h \in Int /\ 0 <= h /\ h <= b - a /\ 2 * h <= b - a /\ b - a <= 2 * h + 1
  BY <1>1
<1> HIDE DEF h
<1>4. 2 * (b - (a + h)) <= x + 1 /\ (a + h) - a <= b - (a + h)
  BY <1>1, <1>3
<1> QED BY <1>1, <1>2, <1>3, <1>4 DEF a, b

\* What skimp makes of the list: Center(n) is the value of its n-th interval.
Part(q, x) ==
    CHOOSE n \in DOMAIN q : \E i \in q[n].first..q[n].last : list[i] = x
Moved(q) == {D!Value(v.last) - D!Mid(v) : v \in D!Range(q)}

LEMMA SkimpIs ==
  ASSUME D!skimp
  PROVE  LET q == D!Intervals(excess)
         IN  /\ info' = [x \in DOMAIN info |-> Part(q, x)]
             /\ value' = [x \in DOMAIN value |-> D!Mid(q[Part(q, x)])]
             /\ list' = [n \in DOMAIN q |-> list[q[n].last]]
             /\ perturbation' = IF Moved(q) = {} THEN 0 ELSE D!Max(Moved(q))
BY Zenon DEF D!skimp, Part, Moved

\* The numbers of the intervals, and how far a value is moved.
Tabled(q, p) ==
    /\ p \in Nat /\ 2 * p <= delta + 1
    /\ \A n \in 1..Len(q) :
          /\ q[n].first \in 1..N /\ q[n].last \in 1..N /\ q[n].first <= q[n].last
          /\ D!Mid(q[n]) \in Int
          /\ D!Value(q[n].first) <= D!Mid(q[n]) /\ D!Mid(q[n]) <= D!Value(q[n].last)
          /\ D!Value(q[n].last) - D!Mid(q[n]) <= p /\ D!Mid(q[n]) - D!Value(q[n].first) <= p
          /\ \A i \in q[n].first..q[n].last : Part(q, list[i]) = n

\* Every value is in one interval, and near to its midpoint.
LEMMA TabledIs ==
  ASSUME Sorted, delta \in Nat, NEW q, Tiles(q, 1)
  PROVE  Tabled(q, IF Moved(q) = {} THEN 0 ELSE D!Max(Moved(q)))
<1> DEFINE p == IF Moved(q) = {} THEN 0 ELSE D!Max(Moved(q))
<1>1. /\ N \in Nat /\ \A i \in 1..N : list[i] \in Int /\ D!Value(i) \in Int
      /\ \A i, j \in 1..N : D!Value(i) <= D!Value(j) \/ ~(i <= j)
      /\ \A i, j \in 1..N : list[i] = list[j] => i = j
  <2>1. N \in Nat /\ \A i \in 1..N : i \in 1..N + 1
    BY ValueIs
  <2>2. \A i \in 1..N : D!Value(i) = list[i] /\ D!Value(i) \in Int
    BY <2>1, ValueIs
  <2>3. \A i, j \in 1..N : i < j => list[i] < list[j]
    BY DEF Sorted
  <2>4. \A i, j \in 1..N : i < j \/ j < i \/ i = j
    OBVIOUS
  <2> QED BY <2>1, <2>2, <2>3, <2>4
<1>2. /\ Len(q) \in Nat /\ DOMAIN q = 1..Len(q)
      /\ \A n \in 1..Len(q) : q[n].first \in 1..N /\ q[n].last \in 1..N
  <2> DEFINE T == [first : 1..N, last : 1..N]
  <2>1. q \in Seq(T) /\ \A t \in T : t.first \in 1..N /\ t.last \in 1..N
    BY DEF Tiles
  <2> HIDE DEF T
  <2>2. Len(q) \in Nat /\ DOMAIN q = 1..Len(q) /\ \A n \in 1..Len(q) : q[n] \in T
    BY <2>1
  <2> QED BY <2>1, <2>2
<1>3. /\ \A n \in 1..Len(q) : q[n].first <= q[n].last
      /\ \A n \in 1..Len(q) : D!Value(q[n].last) - D!Value(q[n].first) <= delta
      /\ \A n, h \in 1..Len(q) : n < h => q[n].last < q[h].first
  BY DEF Tiles
<1>4. ASSUME NEW n \in 1..Len(q)
      PROVE  /\ D!Mid(q[n]) \in Int
             /\ D!Value(q[n].first) <= D!Mid(q[n]) /\ D!Mid(q[n]) <= D!Value(q[n].last)
             /\ D!Mid(q[n]) - D!Value(q[n].first) <= D!Value(q[n].last) - D!Mid(q[n])
             /\ 2 * (D!Value(q[n].last) - D!Mid(q[n])) <= delta + 1
  <2>1. /\ D!Value(q[n].first) \in Int /\ D!Value(q[n].last) \in Int
        /\ D!Value(q[n].first) <= D!Value(q[n].last)
        /\ D!Value(q[n].last) - D!Value(q[n].first) <= delta
    BY <1>1, <1>2, <1>3
  <2> QED BY <2>1, MidIs
<1>5. \A z \in Moved(q) : z \in Nat /\ 2 * z <= delta + 1
  <2> SUFFICES ASSUME NEW z \in Moved(q) PROVE z \in Nat /\ 2 * z <= delta + 1
    OBVIOUS
  <2>1. PICK n \in 1..Len(q) : z = D!Value(q[n].last) - D!Mid(q[n])
    BY <1>2 DEF Moved, D!Range
  <2>2. D!Value(q[n].last) \in Int
    BY <1>1, <1>2
  <2> QED BY <1>4, <2>1, <2>2
<1>6. p \in Nat /\ 2 * p <= delta + 1 /\ \A z \in Moved(q) : z <= p
  <2>1. CASE Moved(q) = {}
    BY <2>1
  <2>2. CASE Moved(q) # {}
    <3>1. Moved(q) \in SUBSET Nat /\ \A z \in Moved(q) : z <= delta + 1
      BY <1>5
    <3>2. \E z \in Moved(q) : \A y \in Moved(q) : z >= y
      <4>1. delta + 1 \in Nat
        OBVIOUS
      <4> QED BY ONLY <2>2, <3>1, <4>1, GreatestIs
    <3>3. D!Max(Moved(q)) \in Moved(q) /\ \A y \in Moved(q) : D!Max(Moved(q)) >= y
      BY <3>2 DEF D!Max
    <3> QED BY <1>5, <2>2, <3>1, <3>3
  <2> QED BY <2>1, <2>2
<1> HIDE DEF p
<1>7. ASSUME NEW n \in 1..Len(q)
      PROVE  /\ D!Value(q[n].last) - D!Mid(q[n]) <= p
             /\ D!Mid(q[n]) - D!Value(q[n].first) <= p
  <2>1. D!Value(q[n].last) - D!Mid(q[n]) \in Moved(q)
    BY <1>2 DEF Moved, D!Range
  <2>2. D!Value(q[n].last) - D!Mid(q[n]) <= p
    BY <1>6, <2>1
  <2>3. D!Value(q[n].last) \in Int /\ D!Value(q[n].first) \in Int
    BY <1>1, <1>2
  <2> QED BY <1>4, <1>6, <2>2, <2>3
<1>8. ASSUME NEW n \in 1..Len(q), NEW i \in q[n].first..q[n].last
      PROVE  Part(q, list[i]) = n
  <2> DEFINE h == Part(q, list[i])
  <2>1. h \in 1..Len(q) /\ \E j \in q[h].first..q[h].last : list[j] = list[i]
    <3>1. \E c \in DOMAIN q : \E j \in q[c].first..q[c].last : list[j] = list[i]
      BY <1>2
    <3> QED BY <1>2, <3>1 DEF Part
  <2> HIDE DEF h
  <2>2. PICK j \in q[h].first..q[h].last : list[j] = list[i]
    BY <2>1
  <2>3. i \in 1..N /\ j \in 1..N
    <3>1. /\ q[n].first \in 1..N /\ q[n].last \in 1..N
          /\ q[h].first \in 1..N /\ q[h].last \in 1..N
      BY <1>2, <2>1
    <3>2. \A a, b \in 1..N : \A c \in a..b : c \in 1..N
      BY <1>1
    <3> QED BY ONLY i \in q[n].first..q[n].last, j \in q[h].first..q[h].last, <3>1, <3>2
  <2>4. i = j
    BY <1>1, <2>2, <2>3
  <2>5. ~(n < h) /\ ~(h < n)
    <3>1. ASSUME n < h PROVE FALSE
      BY <1>2, <1>3, <2>1, <2>4, <3>1
    <3>2. ASSUME h < n PROVE FALSE
      BY <1>2, <1>3, <2>1, <2>4, <3>2
    <3> QED BY <3>1, <3>2
  <2>6. h = n
    BY <2>1, <2>5
  <2> QED BY <2>6 DEF h
<1>9. Tabled(q, p)
  BY <1>2, <1>3, <1>4, <1>6, <1>7, <1>8 DEF Tabled
<1> QED BY <1>9 DEF p

\* The table that skimp makes is the promised one.
LEMMA SkimpRight ==
  ASSUME DimInv, D!skimp
  PROVE  D!LeastPerturbation'
<1> DEFINE q == D!Intervals(excess)
           p == IF Moved(q) = {} THEN 0 ELSE D!Max(Moved(q))
<1>1. /\ at = "skimp" /\ dimen' = dimen /\ zero_apart' = zero_apart /\ where' = where
      /\ delta' = delta
  BY DEF D!skimp
<1>2. /\ WhereRight /\ Len(where) = Len(dimen) /\ DOMAIN info = Listed
      /\ excess = N - m /\ Room(delta) /\ Needed(delta)
      /\ excess > 0 => D!min_cover(delta).count <= m
  BY <1>1 DEF DimInv, Searched
<1>3. Sorted /\ Fine(dimen) /\ Listed = D!Values /\ N \in Nat
  BY <1>1, <1>2, Complete
<1>4. Fit(delta) /\ delta \in Nat
  BY <1>2, <1>3, RoomFits DEF Fit
<1>5. Tiles(q, 1) /\ Len(q) = (IF N > m THEN m ELSE N)
  BY <1>2, <1>3, <1>4, IntervalsAre
<1>6. /\ info' = [x \in DOMAIN info |-> Part(q, x)]
      /\ value' = [x \in DOMAIN value |-> D!Mid(q[Part(q, x)])]
      /\ list' = [n \in DOMAIN q |-> list[q[n].last]]
      /\ perturbation' = p
  BY SkimpIs
<1> HIDE DEF q
<1>7. Tabled(q, p)
  BY <1>3, <1>4, <1>5, TabledIs
<1> HIDE DEF p
<1>8. /\ \A i \in 1..N : D!Value(i) = list[i] /\ list[i] \in Int /\ list[i] < inf
      /\ \A i, j \in 1..N : i < j => D!Value(i) < D!Value(j)
      /\ DOMAIN q = 1..Len(q) /\ Len(q) \in Nat /\ DOMAIN value = Listed
      /\ inf \in Int /\ m \in Nat
  <2>1. \A i \in 1..N : i \in 1..N + 1
    BY <1>3
  <2>2. /\ \A i \in 1..N : D!Value(i) = list[i]
        /\ \A i, j \in 1..N : i < j => D!Value(i) < D!Value(j)
    BY <1>3, <2>1, ValueIs
  <2>3. \A i \in 1..N : list[i] \in Int /\ list[i] < inf
    BY <1>3 DEF Sorted, N
  <2>4. DOMAIN q = 1..Len(q) /\ Len(q) \in Nat
    BY <1>5 DEF Tiles
  <2>5. DOMAIN value = Listed
    BY <1>3 DEF Sorted, Listed
  <2> QED BY <2>2, <2>3, <2>4, <2>5, DimensionAssumption
<1>9. ASSUME NEW n \in 1..Len(q)
      PROVE  /\ q[n].first \in 1..N /\ q[n].last \in 1..N /\ q[n].first <= q[n].last
             /\ D!Mid(q[n]) \in Int
             /\ D!Value(q[n].first) <= D!Mid(q[n]) /\ D!Mid(q[n]) <= D!Value(q[n].last)
             /\ D!Value(q[n].last) - D!Mid(q[n]) <= p /\ D!Mid(q[n]) - D!Value(q[n].first) <= p
             /\ \A i \in q[n].first..q[n].last : Part(q, list[i]) = n
  BY <1>7 DEF Tabled
\* The new list, and the values behind it.
<1>10. Len(list') = Len(q) /\ \A n \in 1..Len(q) : D!Value(n)' = D!Mid(q[n])
  <2>1. list' = [n \in 1..Len(q) |-> list[q[n].last]]
    BY <1>6, <1>8
  <2>2. \A n \in 1..Len(q) : list[q[n].last] \in Int
    BY <1>8, <1>9
  <2>3. list' \in Seq(Int) /\ Len(list') = Len(q)
    BY <1>8, <2>1, <2>2
  <2>4. ASSUME NEW n \in 1..Len(q) PROVE D!Value(n)' = D!Mid(q[n])
    <3>1. list'[n] = list[q[n].last] /\ list[q[n].last] \in DOMAIN value
      BY <1>8, <1>9, <2>1 DEF Listed
    <3>2. Part(q, list[q[n].last]) = n
      <4>1. q[n].last \in q[n].first..q[n].last
        BY <1>9
      <4> QED BY <1>9, <4>1
    <3>3. value'[list'[n]] = D!Mid(q[n])
      BY <1>6, <3>1, <3>2
    <3>4. ~(n > Len(list'))
      BY <1>8, <2>3
    <3> QED BY <3>3, <3>4 DEF D!Value
  <2> QED BY <2>3, <2>4
<1>11. ASSUME NEW i \in 1..Len(list') PROVE D!Value(i)' < D!Value(i + 1)'
  <2>1. i \in 1..Len(q) /\ D!Value(i)' = D!Mid(q[i])
    BY <1>10
  <2>2. /\ q[i].last \in 1..N /\ D!Mid(q[i]) \in Int
        /\ D!Mid(q[i]) <= D!Value(q[i].last) /\ D!Value(q[i].last) \in Int
        /\ D!Value(q[i].last) < inf
    BY <1>8, <1>9, <2>1
  <2>3. CASE i + 1 \in 1..Len(q)
    <3>1. q[i].last < q[i + 1].first /\ q[i + 1].first \in 1..N
      <4>1. i < i + 1
        BY <2>1
      <4>2. q[i].last < q[i + 1].first
        BY <1>5, <2>1, <2>3, <4>1 DEF Tiles
      <4> QED BY <1>9, <2>3, <4>2
    <3>2. D!Value(q[i].last) < D!Value(q[i + 1].first) /\ D!Value(q[i + 1].first) \in Int
      BY <1>8, <2>2, <3>1
    <3>3. D!Value(q[i + 1].first) <= D!Mid(q[i + 1]) /\ D!Mid(q[i + 1]) \in Int
      BY <1>9, <2>3
    <3>4. D!Value(i + 1)' = D!Mid(q[i + 1])
      BY <1>10, <2>3
    <3> QED BY <2>1, <2>2, <3>2, <3>3, <3>4
  <2>4. CASE i + 1 \notin 1..Len(q)
    <3>1. i + 1 > Len(list')
      BY <1>8, <1>10, <2>1, <2>4
    <3>2. D!Value(i + 1)' = inf
      BY <3>1 DEF D!Value
    <3> QED BY <1>8, <2>1, <2>2, <3>2
  <2> QED BY <2>3, <2>4
<1>12. ASSUME NEW c \in DOMAIN dimen, dimen[c] \notin D!Apart
       PROVE  /\ dimen[c] - value'[where[c]] \in -p..p
              /\ D!Value(info[where[c]])' = value'[where[c]]
  <2>1. where[c] = dimen[c]
    <3>1. c \in 1..Len(where)
      BY <1>2, <1>3 DEF Fine
    <3>2. where[c] = Called(c)
      BY <1>2, <3>1 DEF WhereRight
    <3> QED BY <1>12, <3>2 DEF Called
  <2>2. dimen[c] \in Listed
    BY <1>3, <1>12 DEF D!Values, D!Range
  <2>3. PICK i \in 1..N : dimen[c] = list[i]
    BY <2>2 DEF Listed
  <2>4. PICK n \in 1..Len(q) : i \in q[n].first..q[n].last
    BY <1>5 DEF Tiles
  <2>5. Part(q, list[i]) = n
    BY <1>9, <2>4
  <2>6. value'[list[i]] = D!Mid(q[n]) /\ info'[list[i]] = n
    BY <1>2, <1>6, <1>8, <2>2, <2>3, <2>5
  <2>7. D!Value(q[n].first) <= list[i] /\ list[i] <= D!Value(q[n].last)
    <3>1. /\ q[n].first \in 1..N /\ q[n].last \in 1..N
          /\ q[n].first <= i /\ i <= q[n].last
      BY <1>9, <2>4
    <3>2. q[n].first = i \/ q[n].first < i
      BY <3>1
    <3>3. i = q[n].last \/ i < q[n].last
      BY <3>1
    <3>4. /\ D!Value(i) = list[i] /\ D!Value(i) \in Int
          /\ D!Value(q[n].first) \in Int /\ D!Value(q[n].last) \in Int
      BY <1>8, <3>1
    <3>5. D!Value(q[n].first) <= D!Value(i)
      BY <1>8, <3>1, <3>2, <3>4
    <3>6. D!Value(i) <= D!Value(q[n].last)
      BY <1>8, <3>1, <3>3, <3>4
    <3> QED BY <3>4, <3>5, <3>6
  <2>8. list[i] - D!Mid(q[n]) \in -p..p
    <3>1. /\ D!Value(q[n].first) \in Int /\ D!Value(q[n].last) \in Int /\ list[i] \in Int
          /\ D!Mid(q[n]) \in Int /\ p \in Nat
      <4>1. q[n].first \in 1..N /\ q[n].last \in 1..N /\ D!Mid(q[n]) \in Int
        BY <1>9
      <4>2. p \in Nat
        BY <1>7 DEF Tabled
      <4> QED BY <1>8, <4>1, <4>2
    <3>2. D!Value(q[n].last) - D!Mid(q[n]) <= p /\ D!Mid(q[n]) - D!Value(q[n].first) <= p
      BY <1>9
    <3> QED BY <2>7, <3>1, <3>2
  <2>9. D!Value(info[where[c]])' = D!Mid(q[n])
    <3>1. info'[where'[c]] = n
      BY <1>1, <2>1, <2>3, <2>6
    <3>2. D!Value(info[where[c]])' = D!Value(n)'
      BY ONLY <3>1 DEF D!Value
    <3> QED BY <1>10, <3>2
  <2> QED BY <2>1, <2>3, <2>6, <2>8, <2>9
<1>13. Cardinality(D!Values) = N
  <2>1. 1..N \in SUBSET (1..N) /\ Cardinality(1..N) = N
    BY <1>3, FS_Interval
  <2>2. Cardinality({list[i] : i \in 1..N}) = N
    BY <1>3, <2>1, ImageCount
  <2> QED BY <1>3, <2>2 DEF Listed
<1>14. ~ D!Within(m, p - 1)
  BY <1>2, <1>3, <1>4, <1>7, NotCloser DEF Tabled
<1>15. D!Values' = D!Values /\ D!Apart' = D!Apart /\ (D!Within(m, perturbation - 1))' = D!Within(m, p - 1)
  BY <1>1, <1>6 DEF D!Values, D!Apart, D!Within
<1>16. Len(list') = IF D!Cardinality(D!Values') > m THEN m ELSE D!Cardinality(D!Values')
  BY <1>5, <1>10, <1>13, <1>15, SameCount
<1>17. \A c \in DOMAIN dimen' :
          IF dimen'[c] \in D!Apart' THEN where'[c] = D!zero_val
          ELSE /\ dimen'[c] - value'[where'[c]] \in -perturbation'..perturbation'
               /\ D!Value(info[where[c]])' = value'[where'[c]]
  <2> SUFFICES ASSUME NEW c \in DOMAIN dimen
               PROVE  IF dimen[c] \in D!Apart THEN where[c] = D!zero_val
                      ELSE /\ dimen[c] - value'[where[c]] \in -p..p
                           /\ D!Value(info[where[c]])' = value'[where[c]]
    BY <1>1, <1>6, <1>15
  <2>1. c \in 1..Len(where)
    BY <1>2, <1>3 DEF Fine
  <2>2. where[c] = Called(c)
    BY <1>2, <2>1 DEF WhereRight
  <2> QED BY <1>12, <2>2 DEF Called
<1> QED BY <1>11, <1>14, <1>15, <1>16, <1>17 DEF D!LeastPerturbation

\* skimp ends the work on a table.
LEMMA SkimpInv ==
  ASSUME DimInv, D!skimp
  PROVE  DimInv'
<1>1. /\ at = "skimp" /\ at' = "done"
      /\ dimen' = dimen /\ zero_apart' = zero_apart /\ where' = where
  BY DEF D!skimp
<1>2. Fine(dimen) /\ zero_apart \in BOOLEAN /\ WhereRight /\ Len(where) = Len(dimen)
  BY <1>1 DEF DimInv
<1>3. WhereRight'
  BY <1>1, <1>2 DEF WhereRight, Called, D!Apart, D!zero_val
<1>4. Fine(dimen)' /\ zero_apart' \in BOOLEAN /\ Len(where)' = Len(dimen)'
  BY <1>1, <1>2 DEF Fine
<1>5. Searched'
  BY <1>1 DEF Searched
<1>6. D!LeastPerturbation'
  BY SkimpRight
<1> QED BY <1>1, <1>3, <1>4, <1>5, <1>6 DEF DimInv

-----------------------------------------------------------------------------
(* The job gives the dimensions their values.                              *)

\* Nothing of the dimensions changes.
LEMMA SameDims ==
  ASSUME DimInv, UNCHANGED dims
  PROVE  DimInv'
<1>1. /\ dimen' = dimen /\ zero_apart' = zero_apart /\ where' = where
      /\ list' = list /\ value' = value /\ info' = info /\ excess' = excess
      /\ perturbation' = perturbation /\ delta' = delta /\ at' = at
  BY DEF dims
<1>2. Kept
  BY <1>1 DEF Kept
<1>3. /\ \A x : Room(x)' = Room(x)
      /\ \A x : Needed(x)' = Needed(x)
      /\ N' = N /\ \A w : D!min_cover(w)' = D!min_cover(w)
  BY <1>2, SameValues
<1>4. Searched' = Searched
  <2>1. /\ Room(perturbation)' = Room(perturbation) /\ Needed(perturbation)' = Needed(perturbation)
        /\ Room(delta)' = Room(delta) /\ Needed(delta)' = Needed(delta)
        /\ D!min_cover(delta)' = D!min_cover(delta)
    <3>1. /\ Room(perturbation)' = Room(perturbation') /\ Needed(perturbation)' = Needed(perturbation')
          /\ Room(delta)' = Room(delta') /\ Needed(delta)' = Needed(delta')
          /\ D!min_cover(delta)' = D!min_cover(delta')
      BY <1>3
    <3> QED BY <1>1, <3>1
  <2> QED BY <1>1, <1>3, <2>1 DEF Searched
<1>5. Fine(dimen)' = Fine(dimen) /\ WhereRight' = WhereRight
  BY <1>1 DEF Fine, WhereRight, Called, D!Apart, D!zero_val
<1>6. Sorted' = Sorted /\ Listed' = Listed /\ Seen(Len(where))' = Seen(Len(where))
  BY <1>1 DEF Sorted, Listed, N, Seen, D!Apart
<1>7. D!LeastPerturbation' = D!LeastPerturbation
  BY <1>1 DEF D!LeastPerturbation, D!Values, D!Apart, D!Value, D!Within
<1> QED BY <1>1, <1>4, <1>5, <1>6, <1>7 DEF DimInv

\* The same for a job.
LEMMA Untouched_dims ==
  ASSUME DimsRight, UNCHANGED <<dims, tfm_width, limits>>
  PROVE  DimsRight'
<1>1. DimInv'
  BY SameDims DEF DimsRight
<1>2. Fine(tfm_width)' /\ limits' \in Limits
  BY DEF DimsRight, Fine
<1> QED BY <1>1, <1>2 DEF DimsRight

\* An address of a node is about as far below lo_mem_max as there are nodes.
LEMMA NodeIs ==
  ASSUME Len(where) \in Nat, DOMAIN where = 1..Len(where), NEW c \in 1..Len(where)
  PROVE  Node(c) \in Int /\ lo_mem_max - 2 * Len(where) <= Node(c) /\ Node(c) + 2 <= lo_mem_max
<1> DEFINE First(i) == where[i] = where[c] /\ \A j \in 1..i - 1 : where[j] # where[c]
           f == CHOOSE i \in 1..c : First(i)
<1>1. f \in 1..c
  <2> DEFINE S == {i \in 1..c : where[i] = where[c]}
  <2>1. S \in SUBSET Nat /\ c \in S
    OBVIOUS
  <2>2. PICK i \in S : \A j \in S : i <= j
    <3> HIDE DEF S
    <3> QED BY <2>1, LeastIs
  <2>3. \A j \in 1..i - 1 : j \in 1..c /\ ~(i <= j)
    OBVIOUS
  <2>4. First(i)
    BY <2>2, <2>3
  <2> HIDE DEF First, S
  <2>5. \E n \in 1..c : First(n)
    BY <2>4 DEF S
  <2> QED BY <2>5
<1>2. Node(c) = lo_mem_max - 2 * Cardinality({where[j] : j \in 1..f})
  BY Zenon DEF Node
<1> HIDE DEF f
<1> DEFINE T == {where[j] : j \in 1..f}
<1>3. f \in Nat /\ f >= 1 /\ f <= Len(where)
  BY <1>1
<1>4. IsFiniteSet(T) /\ Cardinality(T) <= f
  <2> DEFINE g == [j \in 1..f |-> where[j]]
  <2>1. g \in Surjection(1..f, T)
    <3>1. g \in [1..f -> T] /\ \A t \in T : \E j \in 1..f : g[j] = t
      OBVIOUS
    <3> QED BY <3>1 DEF Surjection
  <2> HIDE DEF g, T
  <2>2. IsFiniteSet(1..f) /\ Cardinality(1..f) = f
    BY <1>3, FS_Interval
  <2> QED BY <2>1, <2>2, FS_Surjection
<1>5. Cardinality(T) \in Nat /\ Cardinality(T) # 0
  <2>1. where[1] \in T
    BY <1>3
  <2> HIDE DEF T
  <2> QED BY <1>4, <2>1, FS_CardinalityType, FS_EmptySet
<1> HIDE DEF T
<1>6. Node(c) = lo_mem_max - 2 * Cardinality(T) /\ lo_mem_max \in Nat
  BY <1>2, DimensionAssumption DEF T
<1> QED BY <1>3, <1>4, <1>5, <1>6

\* The values of a table of a job.
LEMMA TableFine ==
  ASSUME limits \in Limits, NEW w \in limits.widths \cup limits.heights
  PROVE  Fine(w)
<1>1. /\ w \in Seq(Int) /\ lo_mem_max + 4 * Len(w) <= inf
      /\ \A a, b, c \in DOMAIN w : w[a] + 2 * (w[b] - w[c]) < inf
  BY DimensionAssumption
<1> QED BY <1>1 DEF Fine

\* There are no dimensions at first.
LEMMA DimsStart == JobInit => DimsRight
<1> SUFFICES ASSUME JobInit PROVE DimsRight
  OBVIOUS
<1>1. /\ limits \in Limits /\ tfm_width \in limits.widths
      /\ dimen = <<>> /\ where = <<>> /\ list = <<>> /\ value = <<>> /\ info = <<>>
      /\ zero_apart = FALSE /\ at = "done"
  BY DEF JobInit, D!Init, D!Empty
<1>2. Fine(tfm_width)
  BY <1>1, TableFine
<1>3. Fine(dimen)
  <2>1. <<>> \in Seq(Int) /\ Len(<<>>) = 0 /\ DOMAIN <<>> = {}
    OBVIOUS
  <2>2. lo_mem_max + 4 * 0 <= inf
    BY DimensionAssumption
  <2> QED BY <1>1, <2>1, <2>2 DEF Fine
<1>4. WhereRight
  <2>1. <<>> = [c \in 1..0 |-> Called(c)] /\ Len(<<>>) = 0
    OBVIOUS
  <2> QED BY <1>1, <2>1 DEF WhereRight
<1>5. Searched
  BY <1>1 DEF Searched
<1>6. D!Values = {} /\ D!Cardinality({}) = 0
  <2>1. D!Range(<<>>) = {}
    BY DEF D!Range
  <2>2. Cardinality({}) = 0
    BY FS_EmptySet
  <2> QED BY <1>1, <2>1, <2>2, SameCount DEF D!Values
<1>7. ~ D!Within(m, perturbation - 1)
  <2>1. 1 \in 1..m
    BY DimensionAssumption
  <2> QED BY <1>6, <2>1 DEF D!Within
<1>8. D!LeastPerturbation
  <2>1. Len(<<>>) = 0 /\ 1..0 = {} /\ DOMAIN <<>> = {} /\ ~(0 > m)
    BY DimensionAssumption
  <2> QED BY <1>1, <1>6, <1>7, <2>1 DEF D!LeastPerturbation
<1> QED BY <1>1, <1>2, <1>3, <1>4, <1>5, <1>8 DEF DimsRight, DimInv

\* Every step of the work on a table keeps the invariant.
LEMMA DimStep ==
  ASSUME DimsRight, D!Step, UNCHANGED <<tfm_width, limits>>
  PROVE  DimsRight'
<1>1. DimInv
  BY DEF DimsRight
<1>2. DimInv'
  BY <1>1, SortInv, StartInv, DoubleInv, CreepInv, SkimpInv DEF D!Step
<1> QED BY <1>2 DEF DimsRight, Fine

\* The widths turn into the addresses of their nodes, which are sorted in
\* their turn when close_files_and_terminate starts again.
LEMMA WidthsInv ==
  ASSUME DimsRight, Widths_done
  PROVE  DimsRight'
<1> DEFINE n == Len(where)
           w == [c \in DOMAIN where |-> Node(c)]
<1>1. /\ at = "done" /\ tfm_width' = w /\ limits' = limits /\ limits \in Limits
      /\ \/ \E h \in limits.heights : D!clear_the_list(h, TRUE)
         \/ UNCHANGED dims
  BY DEF Widths_done, Same_job, DimsRight
<1>2. DimInv /\ Fine(dimen) /\ WhereRight /\ n = Len(dimen)
  BY <1>1 DEF DimsRight, DimInv
<1>3. n \in Nat /\ DOMAIN where = 1..n /\ lo_mem_max + 4 * n <= inf
  BY <1>2 DEF WhereRight, Fine
<1> HIDE DEF n
<1>4. ASSUME NEW c \in 1..n
      PROVE  Node(c) \in Int /\ lo_mem_max - 2 * n <= Node(c) /\ Node(c) + 2 <= lo_mem_max
  BY <1>3, NodeIs DEF n
<1>5. w \in Seq(Int) /\ Len(w) = n /\ DOMAIN w = 1..n /\ \A c \in 1..n : w[c] = Node(c)
  BY <1>3, <1>4
<1> HIDE DEF w
<1>6. ASSUME NEW a \in 1..n, NEW b \in 1..n, NEW c \in 1..n PROVE w[a] + 2 * (w[b] - w[c]) < inf
  <2>1. /\ w[a] \in Int /\ w[a] + 2 <= lo_mem_max
        /\ w[b] \in Int /\ w[b] + 2 <= lo_mem_max
        /\ w[c] \in Int /\ lo_mem_max - 2 * n <= w[c]
    BY <1>4, <1>5
  <2>2. lo_mem_max \in Nat /\ inf \in Int
    BY DimensionAssumption
  <2> QED BY <1>3, <2>1, <2>2
<1>7. Fine(w)
  BY <1>3, <1>5, <1>6 DEF Fine
<1>8. Fine(tfm_width)'
  BY <1>1, <1>7 DEF Fine
<1>9. DimInv'
  <2>1. CASE \E h \in limits.heights : D!clear_the_list(h, TRUE)
    <3>1. PICK h \in limits.heights : D!clear_the_list(h, TRUE)
      BY <2>1
    <3>2. Fine(h)
      BY <1>1, TableFine
    <3> QED BY <3>1, <3>2, ClearInv
  <2>2. CASE UNCHANGED dims
    BY <1>2, <2>2, SameDims
  <2> QED BY <1>1, <2>1, <2>2
<1> QED BY <1>1, <1>8, <1>9 DEF DimsRight

\* And so does every step of a job.
LEMMA DimsStep == DimsRight /\ [JobNext]_jobVars => DimsRight'
<1> SUFFICES ASSUME DimsRight, [JobNext]_jobVars PROVE DimsRight'
  OBVIOUS
<1>1. CASE Massage
  <2>1. /\ limits' = limits /\ tfm_width' = tfm_width
        /\ D!clear_the_list(tfm_width, FALSE) \/ UNCHANGED dims
    BY <1>1 DEF Massage, Same_job
  <2>2. CASE D!clear_the_list(tfm_width, FALSE)
    <3>1. DimInv'
      BY <2>2, ClearInv DEF DimsRight
    <3> QED BY <2>1, <3>1 DEF DimsRight, Fine
  <2>3. CASE UNCHANGED dims
    BY <2>1, <2>3, Untouched_dims
  <2> QED BY <2>1, <2>2, <2>3
<1>2. CASE Sort_and_skimp
  <2>1. D!Step /\ UNCHANGED <<tfm_width, limits>>
    BY <1>2 DEF Sort_and_skimp, Same_job
  <2> QED BY <2>1, DimStep
<1>3. CASE Widths_done
  BY <1>3, WidthsInv
<1>4. CASE Start \/ Error \/ Fatal \/ pause_for_instructions \/ Mode_command
           \/ End_statement \/ Input \/ end_diagnostic \/ Finish
  <2>1. UNCHANGED <<dims, tfm_width, limits>>
    BY <1>4 DEF Start, Error, Fatal, pause_for_instructions, Mode_command, End_statement, Input,
       end_diagnostic, Finish, Becomes, Rest_unchanged, Same_files, files_vars
  <2> QED BY <2>1, Untouched_dims
<1>5. CASE No_start \/ begin_diagnostic \/ Set_fontmaking \/ init_gf \/ Byte_out
  <2>1. UNCHANGED <<dims, tfm_width, limits>>
    BY <1>5 DEF No_start, begin_diagnostic, Set_fontmaking, init_gf, Byte_out, Rest_unchanged,
       Same_files, files_vars
  <2> QED BY <2>1, Untouched_dims
<1>6. CASE Heights_done \/ Finish_TFM \/ Finish_GF \/ Close_log \/ End_program
  <2>1. UNCHANGED <<dims, tfm_width, limits>>
    BY <1>6 DEF Heights_done, Finish_TFM, Finish_GF, Close_log, End_program, Same_job, files_vars
  <2> QED BY <2>1, Untouched_dims
<1>7. CASE UNCHANGED jobVars
  <2>1. UNCHANGED <<dims, tfm_width, limits>>
    BY <1>7 DEF jobVars, files_vars
  <2> QED BY <2>1, Untouched_dims
<1> QED BY <1>1, <1>2, <1>3, <1>4, <1>5, <1>6, <1>7
        DEF JobNext, Running, close_files_and_terminate

\* threshold and skimp do what they promise, for every m and all values that
\* leave room below inf: the table has as many entries as it may, in increasing
\* order, no character is moved by more than perturbation, and no table of m
\* entries comes closer to all of them.
THEOREM PerturbationLeast == JobSpec => []LeastPerturbation
<1>1. DimsRight => LeastPerturbation
  BY DEF DimsRight, DimInv, LeastPerturbation
<1> QED BY <1>1, DimsStart, DimsStep, PTL DEF JobSpec
=============================================================================
