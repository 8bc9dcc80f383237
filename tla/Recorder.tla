------------------------------ MODULE Recorder ------------------------------
(***************************************************************************)
(* What MFLua adds to METAFONT: sensors before and after the steps that    *)
(* fill a contour or an envelope (mf.web 9939-9957, 10737-10760,           *)
(* 20405-20420), when a character is shipped and at the end of the job,    *)
(* each running a Lua script (mfluadir/mflua.c).  The scripts of           *)
(* test/skeleton collect, for each character, the octants of every curve,  *)
(* and end_program.lua writes a page for each character.                   *)
(*                                                                         *)
(* A fill is one call of fill_spec ("contour") or fill_envelope            *)
(* ("envelope").  An octant is <<fill, k>>: its coordinates do not matter. *)
(* A script that is missing or does not load leaves everything as it was.  *)
(***************************************************************************)
EXTENDS Integers, Sequences, SequencesExt, FiniteSets

CONSTANTS
    Codes, Exts,        \* rounded values the program gives charcode, charext
    Byte,               \* 256
    ScriptSets,         \* the sets of scripts a directory may hold
    MaxFills, MaxOctants, MaxShips, MaxRetro    \* bounds

Kinds == {"contour", "envelope"}

ASSUME RecorderAssumption ==
    /\ Codes \subseteq Int /\ Exts \subseteq Nat /\ Byte \in Nat \ {0}
    /\ 0 \in Codes /\ 0 \in Exts

VARIABLES
    has,                    \* the scripts that are there
    pc,                     \* where the program is
    kind, doubled, side,    \* the contour or envelope being filled
    char_code, char_ext,    \* the rounded internal quantities
    octants,                \* bezier_octant_I, bezier_octant, by kind
    slices,                 \* bezier_octant_contour, bezier_octant_envelope
    chartable,              \* mflua.chartable: index -> what is known of it
    outfile1,               \* is envelope.tex open for this job?
    pages, todo,            \* what end_program has written and has to write
    fills,                  \* ghost: every fill, in order
    ships, retro            \* ghost: characters shipped, and those of retrograde lines

engine == <<kind, doubled, side, char_code, char_ext>>
lua    == <<octants, slices, chartable>>
output == <<outfile1, pages, todo>>
ghosts == <<fills, ships, retro>>
vars   == <<has, pc, engine, lua, output, ghosts>>

\* The C operator % truncates towards zero, the div of mf.web's mod does not
\* matter because do_ship_out adds 256 to a negative remainder.
CRem(x, n) == IF x >= 0 THEN x % n ELSE -((-x) % n)

LuaIndex == CRem(char_code, Byte) + char_ext * Byte
boc_c    == (Byte * char_ext) + (char_code % Byte)

Blank == [envelope |-> <<>>, contour |-> <<>>, knots |-> <<>>,
          retrograde_line |-> 0, edges |-> 0]

\* chartable[i] or {}
Char(i) == IF i \in DOMAIN chartable THEN chartable[i] ELSE Blank
Store(i, char) == [j \in DOMAIN chartable \cup {i} |->
                      IF j = i THEN char ELSE chartable[j]]

Init ==
    /\ has \in ScriptSets
    /\ pc = "start"
    /\ kind = "contour" /\ doubled = FALSE /\ side = "rhs"
    /\ char_code = 0 /\ char_ext = 0
    /\ octants = [k \in Kinds |-> <<>>] /\ slices = [k \in Kinds |-> <<>>]
    /\ chartable = [i \in {} |-> Blank]
    /\ outfile1 = FALSE /\ pages = <<>> /\ todo = {}
    /\ fills = <<>> /\ ships = <<>> /\ retro = <<>>

-----------------------------------------------------------------------------
\* mfluaini.lua leaves envelope.tex alone when a file LOCK1 is there, and may
\* fail to open it.
OpenOutput == outfile1' \in BOOLEAN

mflua_initialize ==
    /\ pc = "start" /\ pc' = "idle"
    /\ OpenOutput
    /\ UNCHANGED <<has, engine, lua, pages, todo, ghosts>>

\* An assignment to charcode or charext in the program.
SetCharacter ==
    /\ pc = "idle"
    /\ char_code' \in Codes /\ char_ext' \in Exts
    /\ UNCHANGED <<has, pc, kind, doubled, side, lua, output, ghosts>>

\* addto contour, or doublepath (of a cycle, which is filled both ways), with
\* or without a pen that has offsets.
do_add_to ==
    /\ pc = "idle" /\ Len(fills) < MaxFills
    /\ kind' \in Kinds /\ doubled' \in BOOLEAN /\ side' = "rhs"
    /\ pc' = "pre"
    /\ UNCHANGED <<has, char_code, char_ext, lua, output, ghosts>>

WithKnots_NotKept(f) ==             \* mflua.chartable[index] = char forgotten
    IF LuaIndex \in DOMAIN chartable
    THEN Store(LuaIndex, [Char(LuaIndex) EXCEPT !.knots = Append(@, f)])
    ELSE chartable
WithKnots(f) ==
    Store(LuaIndex, [Char(LuaIndex) EXCEPT !.knots = Append(@, f)])

PreFill_NoKnots ==
    /\ pc = "pre" /\ pc' = "octants"
    /\ fills' = Append(fills, [kind |-> kind, side |-> side, index |-> LuaIndex,
                               octs |-> <<>>, done |-> FALSE])
    /\ UNCHANGED <<has, engine, lua, output, ships, retro>>

\* PRE_fill_spec_*, PRE_fill_envelope_*: only the right-hand path of an
\* envelope has its knots recorded.
PreFill ==
    /\ pc = "pre" /\ pc' = "octants"
    /\ fills' = Append(fills, [kind |-> kind, side |-> side, index |-> LuaIndex,
                               octs |-> <<>>, done |-> FALSE])
    /\ chartable' = IF "do_add_to" \in has /\ kind = "envelope" /\ side = "rhs"
                    THEN WithKnots(Len(fills')) ELSE chartable
    /\ UNCHANGED <<has, engine, octants, slices, output, ships, retro>>

this == Len(fills)

\* POST_offset_prep in every octant of an envelope; PRE_move_to_edges in the
\* octants of a contour that are not empty.
Octant ==
    LET k == Len(fills[this].octs) + 1  new == <<this, k>> IN
    /\ pc = "octants" /\ k <= MaxOctants
    /\ (IF kind = "envelope" THEN "offset_prep" ELSE "fill_spec") \in has
    /\ octants' = [octants EXCEPT ![kind] = Append(@, new)]
    /\ fills' = [fills EXCEPT ![this].octs = Append(@, new)]
    /\ UNCHANGED <<has, pc, engine, slices, chartable, output, ships, retro>>

\* print_retrograde_line does not store its char back.
Retrograde ==
    /\ pc = "octants" /\ kind = "envelope" /\ Len(retro) < MaxRetro
    /\ "skew_line_edges" \in has
    /\ retro' = Append(retro, LuaIndex)
    /\ chartable' = IF LuaIndex \in DOMAIN chartable
                    THEN [chartable EXCEPT ![LuaIndex].retrograde_line = @ + 1]
                    ELSE chartable
    /\ UNCHANGED <<has, pc, engine, octants, slices, output, fills, ships>>

\* The octants that the slices cover, as the scripts count them.
Covered(q) ==
    LET cnt[n \in 0..Len(q)] == IF n = 0 THEN 0 ELSE cnt[n - 1] + Len(q[n])
    IN  cnt[Len(q)]

\* _store_current_envelope, _store_current_contour: what is not in a slice yet.
NewSlice(k) == SubSeq(octants[k], Covered(slices[k]) + 1, Len(octants[k]))

NextPath ==
    IF doubled /\ side = "rhs" THEN side' = "lhs" /\ pc' = "pre"
                               ELSE pc' = "idle" /\ UNCHANGED side

AddSlice_ByCode(k, s) ==            \* without the extension code
    LET i == CRem(char_code, Byte) IN Store(i, [Char(i) EXCEPT ![k] = Append(@, s)])

\* _postprocessing, _postprocessing_contour
AddSlice(k, s) ==
    Store(LuaIndex, [Char(LuaIndex) EXCEPT ![k] = Append(@, s)])

PostFill ==
    /\ pc = "octants" /\ NextPath
    /\ fills' = [fills EXCEPT ![this].done = TRUE]
    /\ IF "do_add_to" \in has
       THEN /\ slices' = [slices EXCEPT ![kind] = Append(@, NewSlice(kind))]
            /\ chartable' = AddSlice(kind, NewSlice(kind))
       ELSE UNCHANGED <<slices, chartable>>
    /\ UNCHANGED <<has, kind, doubled, char_code, char_ext, octants, output,
                   ships, retro>>

\* shipit; with a negative proofing nothing is shipped.  print_edges does not
\* store its char back.
ship_out ==
    /\ pc = "idle" /\ Len(ships) < MaxShips
    /\ ships' = Append(ships, [char |-> boc_c, index |-> LuaIndex,
                               fills |-> Len(fills)])
    /\ chartable' = IF "print_edges" \in has /\ LuaIndex \in DOMAIN chartable
                    THEN [chartable EXCEPT ![LuaIndex].edges = @ + 1]
                    ELSE chartable
    /\ UNCHANGED <<has, pc, engine, octants, slices, output, fills, retro>>

-----------------------------------------------------------------------------
\* The end of the program, or a fatal stop anywhere: jump_out goes straight to
\* close_files_and_terminate, whose last act is mflua_end_program.  Before
\* mflua_initialize there is no mflua table and end_program.lua fails at once.
close_files_and_terminate ==
    /\ pc \in {"start", "idle", "pre", "octants"}
    /\ pc' = IF pc = "start" THEN "dead" ELSE "end"
    /\ todo' = DOMAIN chartable
    /\ UNCHANGED <<has, engine, lua, outfile1, pages, ghosts>>

\* Without an open file end_program returns at once.
NoFile ==
    /\ pc = "end" /\ ~outfile1 /\ pc' = "closed"
    /\ UNCHANGED <<has, engine, lua, output, ghosts>>

NextChar_Any   == CHOOSE i \in todo : \A j \in todo : j <= i
NextChar       == CHOOSE i \in todo : \A j \in todo : i <= j

WritePage_Second ==                 \* edges[2]
    LET char == chartable[NextChar] IN
    /\ pc = "end" /\ outfile1 /\ todo # {}
    /\ IF char.edges <= 1
       THEN pc' = "dead" /\ UNCHANGED <<todo, pages>>
       ELSE /\ pages' = Append(pages, NextChar) /\ todo' = todo \ {NextChar}
            /\ UNCHANGED pc
    /\ UNCHANGED <<has, engine, lua, outfile1, ghosts>>

\* edges[1][1] of a character that has no edges ends the script.
WritePage ==
    LET char == chartable[NextChar] IN
    /\ pc = "end" /\ outfile1 /\ todo # {}
    /\ IF char.edges = 0
       THEN pc' = "dead" /\ UNCHANGED <<todo, pages>>
       ELSE /\ pages' = Append(pages, NextChar) /\ todo' = todo \ {NextChar}
            /\ UNCHANGED pc
    /\ UNCHANGED <<has, engine, lua, outfile1, ghosts>>

CloseFile ==
    /\ pc = "end" /\ outfile1 /\ todo = {} /\ pc' = "closed"
    /\ UNCHANGED <<has, engine, lua, output, ghosts>>

Next ==
    \/ mflua_initialize \/ SetCharacter \/ do_add_to \/ PreFill \/ Octant
    \/ Retrograde \/ PostFill \/ ship_out
    \/ close_files_and_terminate \/ NoFile \/ WritePage \/ CloseFile

Spec == Init /\ [][Next]_vars

-----------------------------------------------------------------------------
(* Properties.                                                             *)

RecTypeOK ==
    /\ has \in ScriptSets /\ kind \in Kinds /\ doubled \in BOOLEAN
    /\ side \in {"rhs", "lhs"} /\ char_code \in Codes /\ char_ext \in Exts
    /\ pc \in {"start", "idle", "pre", "octants", "end", "closed", "dead"}
    /\ pc = "octants" => this > 0
    /\ \A i \in DOMAIN chartable : DOMAIN chartable[i] = DOMAIN Blank
    /\ outfile1 \in BOOLEAN /\ todo \subseteq DOMAIN chartable

Done(k)      == {f \in DOMAIN fills : fills[f].done /\ fills[f].kind = k}
DoneIn(k, i) == {f \in Done(k) : fills[f].index = i}

\* The place of fill f among the fills of F, and whether a list has one entry
\* for each of them, in the order they were drawn.
Place(f, F)     == Cardinality({g \in F : g <= f})
ListsOcts(q, F) == Len(q) = Cardinality(F) /\ \A f \in F : q[Place(f, F)] = fills[f].octs

\* The octants of all curves go into two lists that only grow; cut at the end
\* of every fill, each slice holds the octants of one contour or envelope,
\* although the two kinds alternate and other fills were stopped halfway.
SliceIsOneFill ==
    "do_add_to" \in has => \A k \in Kinds : ListsOcts(slices[k], Done(k))

\* No retrograde line is lost, although the script that sees it never stores a
\* new character: an envelope's character is in the table before its lines.
RetrogradeKept ==
    "do_add_to" \in has =>
        /\ Range(retro) \subseteq DOMAIN chartable
        /\ \A i \in DOMAIN chartable :
              chartable[i].retrograde_line = Cardinality({m \in DOMAIN retro : retro[m] = i})

\* A character's entry holds the curves drawn under its code and extension, in
\* the order they were drawn, and no others, and all the retrograde lines.
OwnCurves ==
    RecTypeOK /\ SliceIsOneFill /\ RetrogradeKept /\
    ("do_add_to" \in has =>
       /\ \A k \in Kinds, i \in DOMAIN chartable : ListsOcts(chartable[i][k], DoneIn(k, i))
       /\ \A f \in DOMAIN fills : fills[f].done => fills[f].index \in DOMAIN chartable)

\* end_program pairs the m-th envelope of a character with its m-th knot list.
\* That is the same fill's exactly until an envelope is filled from the left-
\* hand path of a double path, whose knots PRE_fill_envelope_lhs does not
\* record; from there on the list is a later fill's or there is none.
KnotsAligned ==
    "do_add_to" \in has =>
        \A i \in DOMAIN chartable :
            LET es == DoneIn("envelope", i)  ks == chartable[i].knots
                OwnKnots(f)   == Place(f, es) \in DOMAIN ks /\ ks[Place(f, es)] = f
                LaterKnots(f) == Place(f, es) \in DOMAIN ks => ks[Place(f, es)] > f
            IN  \A f \in es : IF \A g \in es : g <= f => fills[g].side = "rhs"
                             THEN OwnKnots(f) ELSE LaterKnots(f)

\* Pages are written once each, in order of character, also when the script
\* fails on the way; at the end all are there, or none if no file is open.
PagesInOrder ==
    /\ \A m, n \in DOMAIN pages : m < n => pages[m] < pages[n]
    /\ \A i \in Range(pages), j \in todo : i < j
    /\ pc = "closed" => Range(pages) = IF outfile1 THEN DOMAIN chartable ELSE {}

\* Nothing stops the script of a job that has no file, nor of one that ships
\* every character after drawing in it, so that this one gets all its pages.
ShippedWritten ==
    LET Shipped(f) == \E s \in DOMAIN ships :
                        ships[s].char = fills[f].index /\ ships[s].fills >= f
    IN pc = "dead" /\ {"do_add_to", "print_edges"} \subseteq has
          => fills = <<>> \/ (outfile1 /\ \E f \in DOMAIN fills : ~Shipped(f))

\* end_program's pages are in order, and a careful job's are complete.
PagesRight == PagesInOrder /\ ShippedWritten
=============================================================================
