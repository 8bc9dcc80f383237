------------------------------- MODULE GFFile -------------------------------
(***************************************************************************)
(* What goes into the GF file (mf.web 22186-22515): ship_out turns the     *)
(* edges of a character into paint and row commands, specials come between *)
(* characters, and the postamble points back to the characters.  A file is *)
(* a sequence of commands, each at its byte number.                        *)
(***************************************************************************)
EXTENDS Integers, Sequences, FiniteSets, SequencesExt

CONSTANTS
    Pictures,       \* [m_min, m_max, n_min, n_max, m_offset, rows]; rows[1]
                    \* is row n_max, a sorted list of edges <<m, weight>>
    Residues,       \* character codes modulo 256
    Extensions,     \* values of charext
    Offsets,        \* values of xoffset and yoffset
    eight_bits,     \* 256
    short_paint,    \* 64
    max_new_row,    \* 164
    infinity,       \* fraction_one: beyond every column
    Shapes,         \* more pictures, to be turned into commands one by one
    MaxShips, MaxSpecials       \* bounds

ASSUME GFFileAssumption ==
    /\ Residues \subseteq 0..eight_bits - 1
    /\ short_paint \in Nat /\ short_paint < eight_bits /\ max_new_row \in Nat

none == infinity                    \* prev_n = 4096: no row yet

VARIABLES
    file,           \* the commands, each with the number of its first byte
    length,         \* gf_offset+gf_ptr
    char_ptr, gf_prev_ptr,
    bounds,         \* gf_min_m, gf_max_m, gf_min_n, gf_max_n
    char_exists,
    shipped,        \* what was shipped: picture, residue, extension, offsets, byte
    specials,       \* the specials so far, for the bound
    status          \* "unopened", "open" or "done"

vars == <<file, length, char_ptr, gf_prev_ptr, bounds, char_exists, shipped,
          specials, status>>

-----------------------------------------------------------------------------
one_byte(x) == x >= 0 /\ x < eight_bits
\* How many bytes gf_out, gf_two, gf_three and gf_four make of a command.
Size(c) ==
    CASE c[1] = "pre"     -> 3 + c[2]
      [] c[1] = "boc"     -> 25
      [] c[1] = "boc1"    -> 6
      [] c[1] = "paint"   -> IF c[2] < short_paint THEN 1
                             ELSE IF c[2] < eight_bits THEN 2 ELSE 3
      [] c[1] = "skip"    -> IF c[2] = 0 THEN 1
                             ELSE IF c[2] < eight_bits THEN 2 ELSE 3
      [] c[1] = "xxx"     -> IF c[2] < eight_bits THEN 2 + c[2] ELSE 4 + c[2]
      [] c[1] = "yyy"     -> 5
      [] c[1] \in {"eoc", "new_row"} -> 1
      [] c[1] = "post"    -> 37
      [] c[1] = "char_loc" -> 18
      [] c[1] = "post_post" -> 6

\* The commands cs put out from byte number n on.
Placed(cs, n) ==
    FoldLeft(LAMBDA f, c : [cmds |-> Append(f.cmds, [at |-> f.end, cmd |-> c]),
                            end  |-> f.end + Size(c)],
             [cmds |-> <<>>, end |-> n], cs)
PutOut(cs) ==
    LET f == Placed(cs, length) IN file' = file \o f.cmds /\ length' = f.end

\* gf_boc takes the short form when everything fits in a byte and the
\* character has no predecessor.
gf_boc_Short(c, p, min_m, max_m, min_n, max_n) ==       \* boc_p not looked at
    IF one_byte(c) /\ one_byte(max_m - min_m) /\ one_byte(max_m)
           /\ one_byte(max_n - min_n) /\ one_byte(max_n)
    THEN <<"boc1", c, max_m - min_m, max_m, max_n - min_n, max_n>>
    ELSE <<"boc", c, p, min_m, max_m, min_n, max_n>>

gf_boc(c, p, min_m, max_m, min_n, max_n) ==
    IF p = -1 /\ one_byte(c) /\ one_byte(max_m - min_m) /\ one_byte(max_m)
           /\ one_byte(max_n - min_n) /\ one_byte(max_n)
    THEN <<"boc1", c, max_m - min_m, max_m, max_n - min_n, max_n>>
    ELSE <<"boc", c, p, min_m, max_m, min_n, max_n>>

Lower(b, m) == [b EXCEPT !.min_m = IF m < @ THEN m ELSE @]
Upper(b, n) == [b EXCEPT !.max_n = IF n > @ THEN n ELSE @]

-----------------------------------------------------------------------------
\* The state of a character being output: the commands out, the bounds b, the
\* row prev_n and column prev_m reached, the weights before and after column m.
\* s is what ship_out was called with.

\* Start a new row at (m,n).
StartRow(a, s, n) ==
    LET p == s.pic
        min == p.m_min + p.m_offset
        delta == a.m - min
    IN  IF a.prev_n = none
        THEN [a EXCEPT !.out = @ \o
                  <<gf_boc(s.code, s.p, p.m_min + s.x_off, p.m_max + s.x_off,
                           p.n_min + s.y_off, n + s.y_off),
                    <<"paint", delta>> >>,
                       !.b = Upper(Lower(@, p.m_min + s.x_off), n + s.y_off),
                       !.prev_n = n]
        ELSE [a EXCEPT !.out = @ \o
                  (IF a.prev_n > n + 1
                       THEN <<<<"skip", a.prev_n - n - 1>>, <<"paint", delta>>>>
                   ELSE IF delta > max_new_row
                       THEN <<<<"skip", 0>>, <<"paint", delta>>>>
                   ELSE <<<<"new_row", delta>>>>),
                       !.prev_n = n]

Turn(a) == [a EXCEPT !.prev_m = a.m, !.prev_w = a.w]
Paint(a) == [a EXCEPT !.out = Append(@, <<"paint", a.m - a.prev_m>>)]

\* One turn of the loop, at the edge <<mm, d>> or the sentinel.
Edge_Eager(a, s, n, e) ==           \* black starts at every positive edge
    LET turned ==
            IF a.prev_w <= 0 /\ a.w > 0
                THEN Turn(IF a.prev_m = -infinity THEN StartRow(a, s, n)
                          ELSE Paint(a))
            ELSE IF a.prev_w > 0 /\ a.w <= 0 THEN Turn(Paint(a))
            ELSE a
    IN  [turned EXCEPT !.m = e[1], !.ww = @ + e[2], !.w = a.ww + e[2]]
Edge(a, s, n, e) ==
    LET turned ==
            IF e[1] = a.m THEN a
            ELSE IF a.prev_w <= 0 /\ a.w > 0
                THEN Turn(IF a.prev_m = -infinity THEN StartRow(a, s, n)
                          ELSE Paint(a))
            ELSE IF a.prev_w > 0 /\ a.w <= 0 THEN Turn(Paint(a))
            ELSE a
    IN  [turned EXCEPT !.m = e[1], !.ww = @ + e[2], !.w = a.ww + e[2]]

MaxM(b, m) == [b EXCEPT !.max_m = IF m > @ THEN m ELSE @]

\* Output the pixels of row i of the picture to font row n.
Row(a, s, i) ==
    LET n == s.pic.n_max + 1 - i
        z == FoldLeft(LAMBDA x, e : Edge(x, s, n, e),
                      [a EXCEPT !.m = -infinity, !.prev_m = -infinity,
                                !.w = 0, !.ww = 0, !.prev_w = 0],
                      Append(s.pic.rows[i], <<infinity, 0>>))
    IN  [z EXCEPT !.b = IF z.prev_m = -infinity THEN @
                        ELSE MaxM(@, z.prev_m - s.pic.m_offset + s.x_off)]

Finish_NoOffset(a, s) ==            \* y_off left out of gf_min_n
    IF a.prev_n = none
    THEN [a EXCEPT !.out = Append(@, gf_boc(s.code, s.p, 0, 0, 0, 0)),
                   !.b = LET b == MaxM(Upper(Lower(@, 0), 0), 0)
                         IN  [b EXCEPT !.min_n = IF 0 < @ THEN 0 ELSE @]]
    ELSE [a EXCEPT !.b.min_n = IF a.prev_n < @ THEN a.prev_n ELSE @]

\* Finish off an entirely blank character, or note its lowest row.
Finish(a, s) ==
    IF a.prev_n = none
    THEN [a EXCEPT !.out = Append(@, gf_boc(s.code, s.p, 0, 0, 0, 0)),
                   !.b = LET b == MaxM(Upper(Lower(@, 0), 0), 0)
                         IN  [b EXCEPT !.min_n = IF 0 < @ THEN 0 ELSE @]]
    ELSE [a EXCEPT !.b.min_n = IF a.prev_n + s.y_off < @ THEN a.prev_n + s.y_off
                                                         ELSE @]

\* Output the character represented in cur_edges.
Character(s, b) ==
    LET start == [out |-> <<>>, b |-> b, prev_n |-> none, m |-> 0, prev_m |-> 0,
                  w |-> 0, ww |-> 0, prev_w |-> 0]
        rows == FoldLeft(LAMBDA a, i : Row(a, s, i), start,
                         [i \in 1..Len(s.pic.rows) |-> i])
    IN  Finish(rows, s)

-----------------------------------------------------------------------------
Init ==
    /\ file = <<>> /\ length = 0 /\ gf_prev_ptr = 0
    /\ char_ptr = [c \in Residues |-> -1]
    /\ bounds = [min_m |-> infinity, max_m |-> -infinity,
                 min_n |-> infinity, max_n |-> -infinity]
    /\ char_exists = {} /\ shipped = <<>> /\ specials = 0
    /\ status = "unopened"

\* check_gf: the preamble comes first, once.  22 is the length of its comment.
Preamble == IF status = "unopened" THEN <<<<"pre", 22>>>> ELSE <<>>
Opened == Placed(Preamble, length).end
check_gf == status' = "open"

PtrPrev == IF status = "unopened" THEN Opened ELSE gf_prev_ptr
\* shipit, with the character code reduced to c; proofing <= 0 sends no offsets.
ship_out(pic, c, f, x, y, proofing) ==
    LET s == [pic |-> pic, code |-> eight_bits * f + c, p |-> char_ptr[c],
              x_off |-> x, y_off |-> y]
        off == IF proofing = 0 THEN <<>>
               ELSE (IF x # 0 THEN <<<<"xxx", 7>>, <<"yyy">>>> ELSE <<>>)
                    \o (IF y # 0 THEN <<<<"xxx", 7>>, <<"yyy">>>> ELSE <<>>)
        a == Character(s, bounds)
    IN  /\ check_gf
        /\ PutOut(Preamble \o off \o a.out \o <<<<"eoc">>>>)
        /\ char_ptr' = [char_ptr EXCEPT ![c] = PtrPrev]
        /\ gf_prev_ptr' = length'
        /\ bounds' = a.b
        /\ shipped' = Append(shipped, [s EXCEPT !.p = PtrPrev])

do_ship_out ==
    /\ status # "done" /\ Len(shipped) < MaxShips
    /\ \E pic \in Pictures, c \in Residues, f \in Extensions, x, y \in Offsets :
          /\ char_exists' = char_exists \cup {c}
          /\ \E proofing \in {0, 1} : ship_out(pic, c, f, x, y, proofing)
    /\ UNCHANGED specials

\* proofing < 0: only the metrics are stored.
ship_nothing ==
    /\ status # "done"
    /\ \E c \in Residues \ char_exists : char_exists' = char_exists \cup {c}
    /\ UNCHANGED <<file, length, char_ptr, gf_prev_ptr, bounds, shipped,
                   specials, status>>

\* special, numspecial and titles.
do_special ==
    /\ status # "done" /\ specials < MaxSpecials
    /\ check_gf
    /\ \E c \in {<<"xxx", 2>>, <<"yyy">>} : PutOut(Append(Preamble, c))
    /\ gf_prev_ptr' = PtrPrev
    /\ specials' = specials + 1
    /\ UNCHANGED <<char_ptr, bounds, char_exists, shipped>>

SetToSeqUp(S) == SetToSortSeq(S, LAMBDA a, b : a < b)

FinishGF_Here ==                    \* gf_prev_ptr left at the last eoc
    /\ status # "done" /\ status' = "done"
    /\ IF gf_prev_ptr > 0
       THEN LET locs == SetToSeqUp(char_exists) IN
            PutOut(<<<<"post", length, bounds>>>>
                   \o [i \in DOMAIN locs |-> <<"char_loc", locs[i], char_ptr[locs[i]]>>]
                   \o <<<<"post_post", gf_prev_ptr>>>>)
            /\ gf_prev_ptr' = length
       ELSE UNCHANGED <<file, length, gf_prev_ptr>>
    /\ UNCHANGED <<char_ptr, bounds, char_exists, shipped, specials>>

\* Finish the GF file, if it was started.
FinishGF ==
    /\ status # "done" /\ status' = "done"
    /\ IF gf_prev_ptr > 0
       THEN LET locs == SetToSeqUp(char_exists) IN
            PutOut(<<<<"post", gf_prev_ptr, bounds>>>>
                   \o [i \in DOMAIN locs |-> <<"char_loc", locs[i], char_ptr[locs[i]]>>]
                   \o <<<<"post_post", length>>>>)
            /\ gf_prev_ptr' = length
       ELSE UNCHANGED <<file, length, gf_prev_ptr>>
    /\ UNCHANGED <<char_ptr, bounds, char_exists, shipped, specials>>

Next == do_ship_out \/ ship_nothing \/ do_special \/ FinishGF

Spec == Init /\ [][Next]_vars

-----------------------------------------------------------------------------
\* How a program reads the file: the commands as mf.web 21830-21935 defines
\* them move the registers m and n and blacken pixels.
Read(r, c) ==
    CASE c[1] = "boc" -> [r EXCEPT !.m = c[4], !.n = c[7], !.min = c[4], !.black = FALSE]
      [] c[1] = "boc1" -> [r EXCEPT !.m = c[4] - c[3], !.n = c[6],
                                    !.min = c[4] - c[3], !.black = FALSE]
      [] c[1] = "paint" ->
            [r EXCEPT !.m = @ + c[2], !.black = ~@,
                      !.wasted = @ \/ (r.black /\ c[2] = 0),
                      !.pixels = IF r.black
                                 THEN @ \cup {<<j, r.n>> : j \in r.m..r.m + c[2] - 1}
                                 ELSE @]
      [] c[1] = "skip" -> [r EXCEPT !.n = @ - c[2] - 1, !.m = r.min, !.black = FALSE]
      [] c[1] = "new_row" -> [r EXCEPT !.n = @ - 1, !.m = r.min + c[2], !.black = TRUE]
      [] OTHER -> r

Bocs == {i \in DOMAIN file : file[i].cmd[1] \in {"boc", "boc1"}}
EocAfter(i) == CHOOSE j \in DOMAIN file :
                   /\ j > i /\ file[j].cmd[1] = "eoc"
                   /\ \A l \in i..j - 1 : file[l].cmd[1] # "eoc"
\* The commands of the character that begins at i.
Commands(i) == [l \in 1..EocAfter(i) - i |-> file[i + l - 1].cmd]
\* All that the registers are when the commands cs, from a boc on, are read.
Reading(cs) ==
    FoldLeft(LAMBDA rs, c : Append(rs, Read(Last(rs), c)),
             <<[m |-> 0, n |-> 0, min |-> 0, black |-> FALSE, pixels |-> {},
                wasted |-> FALSE]>>, cs)
Registers(cs) == LET rs == Reading(cs) IN {<<rs[j].m, rs[j].n>> : j \in 2..Len(rs)}

Bounds(c) ==
    IF c[1] = "boc"
    THEN [code |-> c[2], p |-> c[3], min_m |-> c[4], max_m |-> c[5],
          min_n |-> c[6], max_n |-> c[7]]
    ELSE [code |-> c[2], p |-> -1, min_m |-> c[4] - c[3], max_m |-> c[4],
          min_n |-> c[6] - c[5], max_n |-> c[6]]
Header(i) == Bounds(file[i].cmd)

\* The command at i, read from its specials on, begins at byte number at.
BelongsAt(i, at) ==
    \E j \in 2..i : /\ file[j].at = at
                    /\ file[j - 1].cmd[1] \in {"pre", "eoc"}
                    /\ \A l \in j..i - 1 : file[l].cmd[1] \in {"xxx", "yyy"}

\* The j-th boc in the file.
Boc(j) == CHOOSE i \in Bocs : Cardinality({l \in Bocs : l <= i}) = j

\* The pixels of positive weight, where the offsets put them.
Pixels(s) ==
    LET p == s.pic
        Weight(i, m) == FoldLeft(LAMBDA w, e : IF e[1] <= m THEN w + e[2] ELSE w,
                                 0, p.rows[i])
    IN  {<<q[1] - p.m_offset + s.x_off, p.n_max + 1 - q[2] + s.y_off>> :
            q \in {q \in (p.m_min + p.m_offset..p.m_max + p.m_offset)
                            \X DOMAIN p.rows : Weight(q[2], q[1]) > 0}}

\* The commands cs show the character s pixel by pixel, no run of black is
\* empty, and the registers stay within the bounds of the boc.
Shows(cs, s) ==
    LET r == Last(Reading(cs)) b == Bounds(Head(cs)) IN
    /\ r.pixels = Pixels(s) /\ ~ r.wasted /\ b.code = s.code
    /\ \A q \in Registers(cs) : /\ b.min_m <= q[1] /\ q[1] <= b.max_m
                                 /\ b.min_n <= q[2] /\ q[2] <= b.max_n

\* Every one of Shapes becomes commands that show it.
ShapesShown ==
    \A pic \in Shapes, x, y \in Offsets :
        LET s == [pic |-> pic, code |-> 0, p |-> -1, x_off |-> x, y_off |-> y]
        IN  Shows(Character(s, bounds).out, s)

\* The characters in the file show what was shipped.
CharactersShown == \A j \in DOMAIN shipped : Shows(Commands(Boc(j)), shipped[j])

\* Nothing is lost between the commands: each begins where the one before
\* ends, there is one preamble, and one boc for every character shipped.
GFTypeOK ==
    /\ length \in Nat /\ gf_prev_ptr \in 0..length
    /\ \A i \in DOMAIN file :
          file[i].at + Size(file[i].cmd) = IF i = Len(file) THEN length
                                           ELSE file[i + 1].at
    /\ \A c \in Residues : char_ptr[c] \in -1..length
    /\ Cardinality(Bocs) = Len(shipped)
    /\ \A i \in DOMAIN file : file[i].cmd[1] = "pre" <=> i = 1
    /\ char_exists \subseteq Residues
    /\ status \in {"unopened", "open", "done"}

\* The backpointers of boc and char_loc lead from the last character of a
\* code to all the earlier ones, each with the specials that belong to it.
BackPointers ==
    GFTypeOK /\ \A c \in Residues :
        LET same == {i \in Bocs : Header(i).code % eight_bits = c}
            Before(i) == {l \in same : l < i}
            PointsTo(p, S) == IF S = {} THEN p = -1
                              ELSE BelongsAt(CHOOSE l \in S : \A k \in S : k <= l, p)
        IN  /\ PointsTo(char_ptr[c], same)
            /\ \A i \in same : PointsTo(Header(i).p, Before(i))

\* The bounds of the postamble hold for all registers of all characters.
PostBounds ==
    \A i \in Bocs : \A r \in Registers(Commands(i)) :
        /\ bounds.min_m <= r[1] /\ r[1] <= bounds.max_m
        /\ bounds.min_n <= r[2] /\ r[2] <= bounds.max_n

\* The postamble names every character of the font metric file, points to
\* the byte after the last eoc, and its own byte number comes at the end.
PostRight ==
    status = "done" /\ file # <<>> =>
        LET post == CHOOSE i \in DOMAIN file : file[i].cmd[1] = "post"
            tail == {file[i].cmd : i \in post + 1..Len(file) - 1}
        IN  /\ file[Len(file)].cmd = <<"post_post", file[post].at>>
            /\ {t[2] : t \in tail} = char_exists
            /\ \A t \in tail : t[3] = -1 <=> ~ \E i \in Bocs : Header(i).code % eight_bits = t[2]
            /\ BelongsAt(post, file[post].cmd[2])

\* The postamble serves a reader who looks at nothing else.
PostambleRight == PostBounds /\ PostRight
=============================================================================
