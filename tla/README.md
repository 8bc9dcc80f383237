# MFLua in TLA+

MFLua is METAFONT 2.718281 (`texk/web2c/mf.web` with the change file `mf.ch`,
translated to C by web2c) with calls of Lua scripts, the *sensors*, at places
where a character's outlines are at hand (`texk/web2c/mfluadir/mflua.c`). The
scripts of `test/skeleton` collect the outlines and write them out when the job
ends. This directory holds TLA+ models of the parts of that program whose
correctness depends on a long history of calls: who owns which word of memory,
which token is read next, which value a name has, which byte of the font is where.

Comments in the modules cite sections and lines of `mf.web`, the source people
read. `PROJECT.json` maps each definition to the lines it stands for, as a rule to
the C that web2c made of `mf.web` and `mf.ch` and that the compiler sees:
`Work/texk/web2c/mf0.c`, `mf1.c` and `mfini.c`, and `mfextra.c` for the arithmetic, whose lines are
counted with its form feeds as line ends.

METAFONT has one thread and no concurrency. What takes the place of
interleaving is that **almost every routine reads more input while it works**:
reading a token can expand a macro, evaluate a group and run any statement of
the language, so between two halves of a routine anything else may happen. The
models make that explicit: a routine that reads input between two steps is two
actions, and any other action may come in between.

Contents: 1 the system; 2 plan; 3 modules; 4 runs; 5 fairness; 6 proofs;
7 disagreements; 8 what is not modelled.

## 1. The system

| component | state | operations | who calls it |
|---|---|---|---|
| dynamic memory (parts 10, 11) | `mem`, `lo_mem_max`, `hi_mem_min`, `mem_end`, `avail`, `rover`, statistics | `get_avail`, `free_avail`, `get_node`, `free_node`, `flush_list`, `flush_node_list` | every other component |
| base file (48) | the file; the tables it copies | `sort_avail`, `store_base_file`, `load_base_file` | `dump`, the start of the job |
| string pool (4) | `str_pool`, `str_start`, `str_ref` | `make_string`, `add_str_ref`, `flush_string` | scanner, expressions, file names |
| printing, errors (5, 6) | `selector`, `history`, `interaction`, `error_count`, help lines | `print_*`, `error`, `fatal_error`, `overflow`, `confusion`, `jump_out` | everything |
| arithmetic (7, 8) | `arith_error` | `make_fraction`, `take_fraction`, `velocity`, `pyth_add`, ... | paths, equations, transformations |
| symbols (13) | `hash`, `eqtb` | `id_lookup`, `clear_symbol` | scanner, definitions |
| token lists, variables (14, 15) | trees of attributes and subscripts | `find_variable`, `flush_variable`, `new_root` | expressions, declarations |
| groups (16) | `save_ptr` | `save_variable`, `save_internal`, `unsave` | `save`, `interim`, `endgroup` |
| paths, moves, octants, filling (17 to 19, 21, 22) | knots, `move` | `make_choices`, `make_spec`, `make_moves`, `fill_spec` | drawing commands |
| pens, envelopes, ellipses (23 to 25) | pen rings | `offset_prep`, `fill_envelope`, `make_ellipse` | drawing commands |
| edges (20) | rows of weighted edges | `edge_prep`, `sort_edges`, `cull_edges`, `xy_swap_edges`, `merge_edges` | `fill_spec`, `cull`, `ship_out` |
| equations (28, 29) | dependency lists; rings of unknowns | `linear_eq`, `fix_dependencies`; `new_ring_entry`, `ring_merge`, `nonlinear_eq`, `ring_delete` | `=`, `:=`, expressions |
| scanner (31 to 37) | `input_stack`, `param_stack`, `cond_ptr`, `loop_ptr`, `scanner_status`, `force_eof` | `get_next`, `back_input`, `expand`, `macro_call`, `conditional`, `begin_iteration`, `start_input` | the parser |
| expressions, statements (39 to 44) | `cur_type`, `cur_exp`, capsules | `scan_*`, `do_unary`, `do_binary`, `do_statement` | `main_control` |
| font metrics (45) | `char_exists`, `tfm_*`, lig/kern program | `sort_in`, `min_cover`, `skimp`, output of the TFM file | `ship_out`, end of job |
| GF file (46, 47) | `gf_buf`, `gf_ptr`, `gf_offset`, `char_ptr`, bounds | `gf_out`, `gf_swap`, `ship_out`, the postamble | `ship`, `special`, end of job |
| sensors and scripts | `mflua.chartable`, octant lists | `mflua_PRE_*`, `mflua_POST_*`, `end_program.lua` | drawing commands, `ship_out`, end of job |
| job (49, texmfmp.c) | command line, `init`, `final_cleanup` | `mf_main`, `close_files_and_terminate` | the shell |

They interact by calls and by shared state: nearly all structures are linked
lists in `mem`; the scanner's expansion calls expression parsing, which calls
the scanner; statements change meanings and values that the callers of the
expressions in progress have already read; the sensors read the engine's
variables and keep tables of their own across calls.

What is hard here, and what should hold:

* **Memory.** `get_node` merges and moves the very list it walks; `free_node`
  and `flush_node_list` overwrite links they may still need. Nodes must tile the
  lower region, the ring and the `avail` list must be whole after every step,
  nobody else's words may be touched, and memory may be declared full only when
  it is.
* **Base file.** Words inside empty nodes are not saved, so the next job starts
  from garbage there. What is loaded must be the same heap.
* **Rings.** Unknowns set equal form a ring; one side of an equation is a capsule
  while the other is still being evaluated and may change the ring. Classes of
  equal unknowns must neither split nor lose a member.
* **Groups.** Meanings saved several times, redefined, declared, made outer;
  macros that redefine themselves while being read. A group must restore exactly
  what it first saved, and a macro text must live as long as it can be read.
* **Variables.** `find_variable` goes down two lines of a tree at once and puts new nodes
  in the places of old ones; declarations and vardefs take away parts of the tree by
  pattern. To the user `x3a` must be one variable whatever was done around it.
* **Scanner.** Three stacks that grow and shrink independently (levels, conditions,
  loops). Early exits must not leave one of them out of step with the others.
* **GF file.** Byte numbers computed while the buffer is swapped; backpointers and
  bounds that several places contribute to. The picture in the file must be the
  picture shipped, and pointers must lead to the right bytes.
* **Equations.** An independent quantity may become dependent, or go away, while
  others depend on it and while operands that depend on it wait. No equation may be
  forgotten, none invented.
* **Edges.** Rows are kept in two lists, one unsorted, with a shift of the columns
  held apart from them and a cursor that every routine must keep up. The pixels must
  weigh what was drawn.
* **The job.** Errors arise anywhere, also while the job is being closed; the print
  selector is adjusted by one or two from what it was. What is open must be closed
  once, and the exit status must tell whether an error was reported.
* **Font dimensions.** Values are merged until they fit in the table, and as little
  as possible may be changed.
* **Arithmetic.** Intermediate values must not overflow a word when the result fits,
  and results must be the exact ones, rounded.
* **Recorder.** Sensors are called in an order the scripts only assume; fills are
  stopped by errors; characters are told apart by numbers computed twice. Each
  curve must be filed under its own character, once.

The `hazards` of `PROJECT.json` list these at the lines where they bite, with
the properties that would notice.

## 2. Plan

Done, in this order: `Memory` with `Storage` and the proofs; `MemoryLists` and
`BaseFile` on top of it; `Recorder`; `Rings` with `Unknowns`; `GFBuffer` with
`ByteStream` and the proofs; `GFFile`; `SaveStack` with `Groups`; `Scanner`;
`Equations` with `LinearSystem`; `Strokes`, `Edges` and `Shipping`, which feed `GFFile`
with structures in the form the engine builds them; `Dimensions`, and `Job`, which
composes it with `GFBuffer`, and the proofs; strings in `Rings`; `Arithmetic` and the
proofs; `VariableTrees` with `Suffixes`; the proofs about `Scanner`, `Recorder`,
`SaveStack`, `MemoryLists`, `Rings` and `BaseFile`.

Next, most important first:

1. **Scanner**: `expandafter`, deletion and insertion at the error prompt,
   `open_parens`; composition with `SaveStack`, whose `input` is an abstraction of
   the scanner's stack.
2. **Path intersection**: the backtracking of `cubic_intersection` over an abstract test
   of overlap.
3. **Arithmetic**: `pyth_add`, `pyth_sub`, `velocity`.
4. **Labels of the lig/kern program** in the font metric file.

Theorems to come: `PostambleRight` and `BackPointers` of `GFFile`; `WeightsKept` of `Shipping`.

## 3. Modules

| module | models | state in the code | notes |
|---|---|---|---|
| `Memory` | parts 10 and 11 | `link`, `info` are the two halves of the words of `mem`; `llink(p)` is `info[p+1]`, `rlink(p)` is `link[p+1]`, as in the code | `get_node` is one action per pass of its loops, so that invariants hold in the middle of a merge; `p`, `q`, `s`, `pc` are its locals. `nodes`, `words`, `ring` are ghosts: what the program holds, what is free |
| `Storage` | what memory promises | - | abstract specification; `Memory!StoreSpec` is the refinement |
| `MemoryProofs` | - | - | proofs about `Memory` |
| `MemoryLists` | `flush_list`, `flush_node_list` | adds their locals `h`, `a`, `b` | extends `Memory`; the program links the nodes it holds into lists |
| `MemoryListsProofs` | - | - | proofs about the statistics of `Memory`, about `MemoryLists` and about `BaseFile` |
| `BaseFile` | `sort_avail`, dump and undump of `mem` | adds the file and the locals `u`, `v` | extends `Memory`; one step per word, node or pass |
| `Recorder` | the sensors and the scripts of `test/skeleton` | `chartable`, the octant lists, `fills` as a ghost | an octant is a pair (fill, number) |
| `RecorderProofs` | - | - | proofs about `Recorder` |
| `Rings` | part 29, the routines that copy, stash, equate, assign and recycle unknowns, and the strings they hold | `type`, `value` of value nodes, `str_ref`, the pool and `max_str_ptr`, `cur_type`, `cur_exp` | stashed capsules are in `saved`; between the sides of an equation anything may happen |
| `Unknowns` | what the rings promise: classes of equal quantities | - | abstract specification of `Rings` |
| `RingsProofs` | - | - | proofs about `Rings` |
| `Equations` | parts 28 and 16481 ff.: dependency lists, `linear_eq`, `make_known`, `recycle_value`, `do_assignment` | `type`, `value`, `dep_list`, `dep_head` of value nodes, serial numbers, `cur_type`, `cur_exp` | numbers are those of a finite field |
| `LinearSystem` | what dependency lists promise: the solutions of the equations so far | - | abstract specification of `Equations` |
| `Strokes` | the pieces of contours that `line_edges` and `move_to_edges` add | - | pure operators |
| `Edges` | part 20 and the transformations of pictures | rows with `sorted` and `unsorted`, `n_min` to `m_max`, `m_offset`, `n_pos`, `n_rover` | `weights`, a ghost, is what the pixels should weigh |
| `GFBuffer` | `gf_out`, `gf_swap`, `write_gf`, padding, last write | `gf_buf`, `gf_ptr`, `gf_limit`, `gf_offset`, the file | `fwrite` may take a part only, then the program exits |
| `ByteStream` | an append-only stream of bytes | - | abstract specification of `GFBuffer` |
| `GFFile` | `ship_out`, specials, postamble | the file as a sequence of commands with their byte lengths; `char_ptr`, bounds, `gf_prev_ptr` | limits of short commands are constants, scaled down for TLC |
| `Shipping` | drawing, then shipping | that of `GFFile` and `Edges` | composes the two |
| `Dimensions` | `sort_in`, `min_cover`, `threshold`, `skimp` | the list of nodes with `value` and `info`, `excess`, `perturbation`, `d` | one action per character and per pass |
| `Job` | a job from its first line to its exit status: `error`, `fatal_error`, `open_log_file`, diagnostics, interrupts, `close_files_and_terminate` | `job` holds `interaction`, `selector`, `history`, `error_count`, `job_name`, `log_opened`; `tfm_width` | extends `GFBuffer`, instantiates `Dimensions` |
| `JobProofs` | - | - | proofs about `GFBuffer`, `Job` and `Dimensions` |
| `Word` | the width of an integer | - | one constant, shared by the numeric modules |
| `Arithmetic` | `slow_add`, `ab_vs_cd`, `square_rt`; `make_fraction`, `take_fraction`, `make_scaled`, `take_scaled` with doubles (`mfextra.c`); `dimen_out` and `fix_design_size` | the locals of the loops; `arith_error` | one action per pass of a loop; a double is an integer of grains, rounded either way; `pow` and `rest` are ghosts |
| `ArithmeticProofs` | - | - | proofs about `Arithmetic` |
| `SaveStack` | part 16, `clear_symbol`, definitions, declarations, `let`, `inner`/`outer`, `newinternal`, groups, macro calls | `eqtb`, roots of variables, macro reference counts, `save_ptr`, macros on the input stack, routines under way | a variable structure is one root with a plain value or a vardef |
| `SaveStackProofs` | - | - | proofs about `SaveStack` |
| `Groups` | what groups promise: a stack of what each group saved first | - | abstract specification of `SaveStack` |
| `VariableTrees` | the second half of part 15: `find_variable`, `new_structure`, `flush_variable`, `flush_below_variable`; the test for macros in `scan_primary` | the nodes of one variable in `mem` with their lists, `equiv` of its root | a node is named after the suffix it was made for; `names`, a ghost, is what the program can see |
| `Suffixes` | what variable structures promise: suffixes with types, values and places | - | abstract specification of `VariableTrees` |
| `Scanner` | parts 31 to 37, show token, flushed statements | `scan` holds the input stack, `param_ptr`, `in_open`; `conds`, `loops` the two other stacks; `calls` the recursive routines under way | a token is any token, except the end of a loop text |
| `ScannerProofs` | - | - | proofs about `Scanner` |

`MC*` modules extend the module they check and define symmetry sets and inputs.
Properties stand at the end of each module, under the dashed line after `Spec`.
A definition whose name continues another one's after an underscore
(`gf_swap_NoOffset` before `gf_swap`) is a *mutant*: the code with one plausible
mistake. Each property of the passing runs is violated when its mutant replaces
the original, so no property holds merely by the shape of the model.
`PROJECT.json` lists the pairs.

Composition: `MemoryLists` and `BaseFile` run on `Memory` itself and use its
actions. `Storage`, `Unknowns`, `LinearSystem`, `Groups`, `Suffixes` and `ByteStream` are
implemented through `INSTANCE ... WITH` a refinement mapping. `Job` puts its bytes
through `GFBuffer`'s own actions and its dimensions through `Dimensions`; `Shipping`
ships the structures that `Edges` has drawn with the `ship_out` of `GFFile`. `GFFile`
counts bytes as `GFBuffer`'s `gf_offset + gf_ptr`, which the theorem `ByteNumbers`
justifies. `Scanner` and `SaveStack` look at the same calls and levels from two
sides: one at their order, the other at who holds a macro's text. `VariableTrees` is what
is below one of `SaveStack`'s roots; since nothing there depends on other symbols, the
run `groups` checks the two side by side. `Arithmetic` keeps
nothing between calls except `arith_error`, so its state is composed with nothing.

## 4. Runs

All runs explore the whole reachable state graph of the instance.

| run | distinct states | what it shows |
|---|---|---|
| `memory` | 138,000 | Every sequence of requests and releases on a `mem` of 13 words: `HeapIntact` at every step, `Merged`, `OverflowJustified`, `HeldUntouched`, refinement of `Storage`, and `get_node` ends |
| `memory_lists` | 276,000 | Lists of mixed nodes flushed both ways leave the heap sound and are flushed whole (`ListsSound`), and a flush ends |
| `base_file` | 394,000 | From every heap of the instance: `sort_avail` sorts (`InsertionSorts`), only live words are written (`OnlyLiveWords`), and the next job accepts the file and has a sound heap with the right counts (`HeapSound`) |
| `recorder` | 4,288,000 | Curves filed whole, once, under their own character, retrograde lines with them (`OwnCurves`); knots paired with their envelopes until a character has one filled from a left-hand path, whose knots no sensor records; from there on with none or with a later one's (`KnotsAligned`). Pages once each and in order, shipped characters written, and no page at all when `envelope.tex` is not open (`PagesRight`) |
| `rings` | 293,000 | Reference counts exact, no string in the pool that nobody holds unless it must stay (`RefsExact`); the rings implement `Unknowns` (`EqualStayEqual`) |
| `equations` | 41,000 | Every list is sorted, mentions independent quantities only and is chained (`DepListsSound`); the lists describe the solutions of `LinearSystem` (`SolutionsKept`) |
| `gf_buffer` | 270,000 | Whole jobs. Bytes: `Numbers`, `WholeWords`, refinement of `ByteStream` with failing writes. Errors: `SelectorRight`, `ClosedRight`, and every job ends (`JobEnds`). Dimensions: `LeastPerturbation`. Arithmetic: `ResultRight`, `InWord`, `DimensionFits` |
| `gf_file` | 293,000 | A picture's edges weigh what was drawn (`WeightsKept`); running the commands paints the picture shipped (`PixelsKept`); `BackPointers`, `PostambleRight` |
| `groups` | 148,000 | Exact reference counts of macros (`MacroRefsExact`), one owner per variable (`NodesOwned`), refinement of `Groups`; the structure of a variable is one tree in order (`TreesSound`) and implements `Suffixes` (`NamesKept`) |
| `scanner` | 1,531,000 | Files, parameters and the limits of conditions stay in step with the levels (`LevelsSound`), the texts on the input are those of the loops in progress, once each and in order, except while a definition is read that an `ENDFOR` has broken into (`LoopTexts`) |
| `scanner_lost_end`, `edges_yscaled` | - | disagreements, section 7 |

**Bounds.** Deadlock is not checked in any run: a job may stop at any point, and
every bound is a guard.

* `memory`: `mem` has 0 to 12, one static word below and three above; sizes 2 and 3,
  both one word more and two words more than a node left over. `GrowBy = 4` makes
  the first growth a whole step and later ones the halving of the gap. All
  overflow stops are reached.
* `memory_lists`: two-word nodes only (`flush_node_list` frees no others), lists of up
  to three nodes with any mixture, ended by `null` or the sentinel.
* `base_file`: a lower part of ten words is the least in which a merged ring has
  three nodes, hence all ring orders; `MaxRing` bounds the history before the dump.
  Fresh words hold 0 or the empty flag, the two values that could mislead.
* `recorder`: jobs of two kinds, a bound chosen once per job. For the curves: three
  fills of up to two octants, so that a double path and another curve fit; two characters
  that differ in the extension only; one retrograde line; a complete directory of scripts
  and one without `offset_prep.lua`; nothing is shipped, which does not touch what is filed
  of the curves. For the pages: two codes and two extensions, hence four characters; two
  fills of one octant and two characters shipped, in any order and also before they are
  drawn in; with and without `print_edges.lua`.
* `rings`: two variables, three capsules, two values, two expressions put aside:
  rings of up to five members. Two strings at a time, and counts that stop at three
  (127 in the code).
* `equations`: numbers modulo 3, the least field in which a coefficient, its negative
  and zero differ; three variables, four capsules, one operand put aside. Any
  term may be the pivot: what the code takes for accuracy's sake is one choice.
* `gf_buffer`: three kinds of jobs. In the first half a buffer is four bytes, the
  least the assumption allows, and ten bytes, the postamble's included, fill both
  halves more than once. The second has one byte, four widths and every error from
  every point, with `MaxErrors = 3` for 100. The third has five widths, all
  multisets and orders of five values from -3 to 9, or five heights, of three such values,
  of which three must remain.
  Heights stand for depths and italic corrections, which take the same path. A fresh
  buffer holds zeros here; the proofs are for any contents. For the arithmetic a word
  has thirteen bits: `el_gordo` is 4095, `fraction_one` 512, `unity` 128; a double has
  twenty bits, the least power of two that `DoubleAssumption` allows, and masks and
  tested bits are scaled down with it. The 33 arguments are the ends of the range, what lies
  about the units, and pairs whose quotient or product is so close to a half that its double
  is on the wrong side; `ab_vs_cd`, with four arguments, has four values for each. It is
  called in one state of one job: where it is called makes no difference.
* `gf_file`: all rows of up to four edges in four columns next to some others;
  characters of two residues, blank ones among them, shipped up to twice with
  specials in between. The short commands' limits are crossed by these sizes. Edges:
  `limit` is 5 for 4096; up to three operations on a picture, then shipping. Contours have the
  weights 3 and -1, 3 being all that one edge can hold: where two of them meet, a row
  difference is more than 3 and a pixel needs several edges when rows and columns are swapped
  (a row split into pieces by a wrong loop is a mutant).
* `groups`: a symbol that is saved and declared and one that is only defined, let
  or made outer; a plain macro and an operator; two routines inside each other; up
  to four items on the save stack. The variable `x` beside them: x, x1, x2, x1a and x.a are
  used; x, x[] and x[]a are declared as numeric or boolean or defined as macros. Two
  subscripts give every order of insertion, and every node kind comes to be replaced
  by a structured one.
* `scanner`: four levels, the terminal's included: two nested loops with a macro, file or
  argument inside, or a loop whose end has been put back with a recovery token in front
  of it; two routines under way; conditions two deep; one value or argument.

## 5. Fairness

The program has one thread, so a routine once called runs to its end unless it
stops the job: nothing else can be scheduled. `FairSpec` of `Memory` has weak
fairness for the steps inside `get_node`, `ListSpec` of `MemoryLists` for those inside
the two flushing routines, `JobSpec` of `Job` for `close_files_and_terminate`, and
nothing is assumed of the program that calls them. `GetNodeEnds` and `FlushEnds` are
about the loops of those routines. `JobEnds` says that closing, once begun, ends
however often it is begun again; the loops of `Dimensions` are part of it. One thing
is assumed besides: a name asked for at the terminal is at last given or the
terminal's input ends, so that `prompt_file_name` returns. The other modules state
safety only.

## 6. Proofs

`tlapm` checks every theorem for all values of the constants.

*Memory* (`MemoryProofs`), from `MemoryAssumption`: the order of the static limits,
`mem_max < empty_flag`, sizes of at least 2, and room for the first growth. `HeapIntact`
is not inductive by itself: a merge in progress has already absorbed nodes whose
size field does not say so. The inductive invariant

    IInv == TypeOK /\ Ordered /\ Tiled /\ RingOK /\ FlagsOK /\ AvailOK

therefore states tiling with the size `q - p` for the node under inspection, and
each of its parts for every `pc`. That the ring is *one* cycle is stated without
induction: only the whole ring is closed under `rlink`; in the same way for the
`avail` list. `StepHolds` has one lemma per action, and the two operations all of
them come down to, taking a node out of the ring and putting one in
(`RingRemove`, `RingInsert`), are proved once. From the invariant follow
`TypeCorrect`, `NodesTile`, `HeapStaysIntact`, `HeldNodesUntouched` (no step but its
holder's writes in a held node) and `ImplementsStorage` (every step of `Memory` is a
step of `Storage` or a stutter).

What `get_node` has achieved when it gives up needs more than where its pointers are.
`Tour` says of its loop: some set `V` of empty nodes, those it has passed, lies between
`rover` and `p`; `rlink` leads from `V` into `V` or to `p`, `llink` from `p` or `V` into `V` or from
`rover`; no node of `V` ends where an empty node begins, and none has the size wanted or
is large enough to be cut. Back at `rover`, `V` with the last node is closed under `rlink`,
hence all of the ring. `MergedByTour` and `StopsOnlyWhenFull` (`Merged` and
`OverflowJustified`) follow; the second also needs that the lower region has grown as
far as it can.

*Lists and statistics* (`MemoryListsProofs`). `Accounting` sums the sizes of the nodes the
program holds with a recursive function; when one node is added or taken away, the sums
below it stay and those above it change by its size (`SumChange`, by induction), which
gives `StatisticsExact`. The invariant of the lists is

    LInv == ListTypes /\ Accounting /\ Linked /\ (IInv, or what a flush makes of it)

`Linked` says that lists end at `null` or `sentinel` and share no node. While `flush_list` walks,
`IInv` does not hold: the words it has passed count as free and are on no list. `Flushed(W)`
says that these words `W` are a chain from `h` to `b` whose last word is `a`, and that the avail
list is whole without them; `SpliceWhole` is the lemma that the chain put in front makes it
whole again. While `flush_node_list` walks, `IInv` holds and the nodes still to be freed are a set
of held nodes that `link` does not leave but for `null`. That every list is such a set needs
a count: a list collected in `mem_max` steps is closed under `link` because it has less than
`mem_max` nodes (`NestClosed`). `ListsKeepHeap` is `ListsSound`.

*Base file* (the second half of `MemoryListsProofs`), from `MemoryAssumption` and
`BaseFileAssumption`: a fresh array holds half words, and `mem_max = mem_top`. INIMF refuses to
run when these differ (`mf.web` 3159); the job that loads is modelled with an array of the
same size, although the code lets it have a larger one. `MaxRing` is any number,
so the histories before the dump are not bounded. The difficulty is that one
heap appears three times: in `mem`, as a file, and in an array half of which is garbage. The
invariant therefore says what a heap is of *any* pair of functions, not of `link` and `info`:
`Layout(l, i)` (the nodes tile the lower part, the flags are right, the avail list is whole),
`Circle(l, i)` (the ring), `Rising(l)` (it goes up from `rover`) and `Parted(i)` (no empty nodes
are adjacent, which the request that only merges leaves: `MergedByTour` is used here). Then

    FileInv == Bounds /\ IF stage \in {"run", "merge"} THEN Running ELSE Storing

with, by stage: while nodes are inserted, a set `B` of them is a row from `u` to `old_rover`, and
`rlink` leads upwards through the others (`Inserting`); while `llink` is set again, it is right
below `u` (`Relinking`); while words are written, the file has the kept words below `u`
(`Dumped`), `u` being the end of the last empty node passed; the complete file is itself a heap
with the same layout (`Stored`); while it is read, the array agrees with the file below `u`
(`Undumped`). Two heaps that agree in the words that are kept have the same layout (`KeptAgree`),
which is what makes loading right whatever the other words hold. `LoadedHeapSound` is `HeapSound`,
with the consequence that no check of `load_base_file` refuses a file that INIMF wrote.

The statistics that the dump recounts need two counts: the words between empty nodes are the
held nodes there, since these tile them (`HeldBetween`, `SizesPass`); and the recursive count
along the avail list is the number of free words, by induction on the length of the list
(`AvailCounted`). `FileHoldsLiveWords` is `OnlyLiveWords`. For `NodesInserted`, which is
`InsertionSorts`, following `rlink` collects exactly a row (`UptoRow`), and a list that goes up is
one (`UpwardRow`).

*GF buffer* (`JobProofs`), from `GFBufferAssumption` (`half_buf` a positive multiple of
4). `IInv == TypeOK /\ Numbers /\ Aligned`; `Aligned` adds that all swaps write multiples
of four bytes and that `gf_ptr` plus the padding to go is one. From it `ByteNumbers`, `Words`
(the closed file is complete and a whole number of words long) and `BufferIsStream`:
byte j is in the file or in the slot that `Slot` says, and each step appends one
byte, whether it swaps or not, or fails.

*Job* (`JobProofs`), from `JobAssumption` (`MaxErrors` is a natural number) and
`GFBufferAssumption`. `JobUsesBuffer`: every step of a job is a step of the buffer or
leaves it alone, so the buffer's invariant holds of whole jobs (`JobWords`). The
inductive invariant

    JobInv == JobSound /\ FilesSound /\ ClosedRight

says by the phases of the job what `selector` is and how it depends on `interaction`
and `log_opened` (`Demanded`): a diagnostic holds the demanded value in `old_setting`; the
end script runs after the transcript was taken off the selector; and `history` is above
a warning exactly when an error was reported. The selector enters no file, and the
files need only how far the closing has come, so the two parts are separate.
`SelectorAlwaysRight`: whenever `error` can be called its test of the selector passes.
`JobClosedRight`: a TFM file is finished at most once and the transcript once, however
often the closing is begun; a GF file that was started is closed, and one that was
not gets no postamble; the end script runs exactly once unless an editor is called;
and the exit status is 0 exactly when no error was reported.

*Dimensions* (`JobProofs`), from `DimensionAssumption`: the table has room for an entry,
and the dimensions leave room below `inf` for the intervals `threshold` tries. The code
sees to it: `tfm_check` (`mf.web` 21019) keeps every dimension below `fraction_half`, an eighth
of the `fraction_four` that ends the list (21350), so one dimension and twice a
difference of two stay below it, and so do the numbers of nodes, at most `sup_main_memory`, that
a closing begun again sorts as if they were widths (section 7). The inductive invariant

    DimsRight == limits \in Limits /\ Fine(tfm_width) /\ DimInv

says in `DimInv` what list, `where` and `info` are after any number of characters, and
what `threshold` knows (`Searched`): at each of its passes every interval width below the
one to be tried is too small, as there are then more than `m` values farther apart from each
other than that width (`Needed`); and the width left at the end covers the list with
`m` intervals at most. `PerturbationLeast` is `LeastPerturbation`. That no table comes closer is the
pigeonhole principle on those values: two of them would share an entry. That the perturbation is
no more than half the width found, and that `skimp` stops with `m` entries and not
fewer, is shown of its intervals (`TileMore`, `SparesAre`, `SkimpRight`), which are chained from the first value to
the last.

*Arithmetic* (`ArithmeticProofs`), from `WordAssumption`, `DoubleAssumption` and
`RootAssumption`, which the real word satisfies: `el_gordo = 2^31 - 1`,
`fraction_one = 2^28`, `unity = 2^16`, `sixteen = 16`, a `default_size` of 128 points,
`root_start = 23` and the powers of four; doubles of 53 bits (52 would do), the masks
`low = 2^15`, `make_test = 2^11`, `take_test = 2^14`. The product of two words can have more bits
than a double, and the model lets every operation on doubles return either neighbour of the
exact value.

    IInv == TypeOK /\ CompareInv /\ ShiftInv /\ RootInv /\ DimensionInv
            /\ ResultRight /\ InWord

The parts for the loops are the invariants that the comments of `mf.web` state, with the
ranges that keep every intermediate value in a word. Quotients and products need no loop but
an argument about errors. Halves of integers are doubles, so two roundings, the second after
0.5 was added, do not cross one (`WithHalfSides`): if the sum is not a whole number, truncating it is
right. If it is whole, the exact value is off by less than the bit that the routine tests
(`MakePrecise`, `TakePrecise`; this is where 52 bits are needed), the product of masked numbers
has the low bits of that difference (`MakeCheck`, `TakeCheck`), so the tested bit is its sign
(`BitIsSign`) and tells whether one must be taken off. `ArithmeticExact`: sums, quotients,
products, comparisons and square roots are the exact ones, rounded as the comments say, and
`arith_error` is set exactly when the result does not fit. `ArithmeticInWord`: no integer that the
compiled routines form, masked products and `dimen_out`'s multiples of sixteen included,
exceeds a word. `DimensionsFit`: what `dimen_out` is given after `fix_design_size` yields a
number below 2^24 in absolute value, so that three bytes and a sign are enough.

*Scanner* (`ScannerProofs`), from `ScannerAssumption`. Every step changes the input stack by
a few operations (a level more, a level less, a token backed up, the end of a list), so
there is one lemma for each of these and a short one for each step. The invariant is

    IInv == Sound \/ BrokenInto
    Sound == Good(scan, loops) /\ loops \in Seq(LoopSet) /\ Routines(conds, calls) /\ StatusOK

with the terminal at the bottom, parameters of a level that end where the next level's
begin, files numbered from the bottom, conditions that match the routines under way, and
statuses that are never reached. `ScannerLevels` is `LevelsSound` and needs no more.
`ScannerLoopTexts` is `LoopTexts`, for programs that give the end of a loop to none of
`get_symbol`, `showtoken` and `showvariable` (`LoseEnd = FALSE`; otherwise the property is
false, as `scanner_lost_end` shows). What makes it inductive is `EndforKept`: each turn of a loop
whose `ENDFOR` has been read has that token waiting above it, with nothing but exhausted backed-up
lists between the two, and no such token waits without a turn; so when the loop is
resumed or stopped, the level that comes to the top is its own. The exception is
`BrokenInto`: in `for ...: def a endfor` the token after the name is read while the status is still
normal, so it is not noticed that it is outer; it is backed up for the missing `=`, and that
pops the turn. From then on until the definition has ended and `get_x_next` has read the
`ENDFOR`, the loop has no turn and its token waits without one (`Orphan`). Nothing can come between:
the replacement text is absorbed raw, where `ENDFOR` is put back behind an `enddef`.

*Recorder* (`RecorderProofs`), from `RecorderAssumption`: the sets of numbers are what they
should be. `Covered` counts the octants that the
slices of earlier fills took; the invariant says that what no slice covers is the fill
under way, that the table has the characters of the fills and no others, each with its
curves, knots and lines in order, and edges if it was shipped. `RecorderCurves`,
`RecorderKnots` and `RecorderPages` are the three properties of the runs. The last has
the premise `Codes \subseteq Nat`: of a negative `charcode` two numbers are computed for
one character (section 7).

*Save stack* (`SaveStackProofs`), from `SaveStackAssumption`: finitely many symbols and
roots, which are not `null` or a plain value. The invariant is

    SInv == STypes /\ Frames /\ Exact

`Exact` says that the tables fit a tally of all that holds a macro or owns a root
outside them: `Fit(t, x, y)`, the reference count of `m` in `t` is the number of its
holders in `t` plus `x[m]` less one, and a root has one owner, in `t` or on the stack, as
its type tells. Operations on the tables are lemmas that take a fit to a fit
(`Clear`, `RestoreSymbol`, ...), whatever the tally; statements keep the tally, calls and saves
shift it. `unsave` undoes any number of items in one step: after `k` of them the
tables fit the tally of the rest, by induction on `k`. From the invariant follow
`MacroReferences` (`MacroRefsExact`) and `RootsOwned` (`NodesOwned`). The bounds `MaxUsed`,
`MaxSaved`, `MaxDepth` and `MaxInput` are any numbers.

`GroupsImplemented` proves that `SaveStack` implements `Groups`: every step of the tables
and the stacks is a step of groups or leaves them alone. It needs, besides `SInv`,

    QInv == TextsKnown(tab) /\ Quantities(tab, save_ptr, internal)

macros in use have a replacement text, and what means a quantity means an allotted one.
The argument has three parts. A meaning is what an entry *leads* to, so a step may
change it from afar: by `SInv` what a symbol, a saved item, a call or an input level
refers to exists (`Living`), and operations on the tables leave the texts and values of
what still exists (`Keeps`), apart from macros that were free and the one root they
are about, which no one else owns; so everything but the symbol at hand means what it did
(`OneSymbol`). A group's frame is what the *lowest* of its items of each name says, and items of
other groups lie below another number of boundaries: a pushed item changes the innermost
frame only, and there only if its name is new (`PushedFrame`). `unsave` works from the
top: after any number of items each name is what the lowest of those undone says (`UndoneMeans`,
by induction), so at the boundary it is what the frame says (`FrameUndone`). There is one lemma
per action (`...Means`).

*Rings* (`RingsProofs`), from `RingsAssumption`: finitely many variables and capsules, which are
not values, and `max_str_ref` above 1. The invariant is

    RInv == HeapOK(heap, what cur_exp holds) /\ CurRight /\ SavedRight /\ Allotted

`HeapOK(h, x)` says of nodes and pool together: `Linked`, the value fields permute the unknown
quantities of each type; and `Counts`, each count that is not infinite is the number of
nodes that have the string plus `x[s]`, those outside that have it, strings counted are in the
pool, and the one on top has a reference. Each routine is a lemma that takes `HeapOK(h, x)` to
`HeapOK(g, y)` whatever the tally `x`: `delete_str_ref` takes one holder from the tally, a node that
is given away or takes over a value moves one between nodes and tally, so the actions come
down to chains of such lemmas. `Linked` is all that `ring_delete` needs to find the one
before `p`, and it needs no recursion; that the walk of `nonlinear_eq` gets back to `p`
does: after as many steps as there are nodes it must have met a node twice, and as values are
injective it was `p` that it met first (`WalkCycle`), so `Ring(h, p)` is the least set with `p` that the
value fields do not leave (`RingIs`). `ReferencesExact` is `RefsExact`.

`ClassesImplemented` is the refinement. The rings part the unknown quantities, and a
partition is fixed by one cycle for each member (`Cycle`, `PartsGiven`), so each routine needs only
the cycles it leaves: one with a member more (`CycleEntered`) or less (`CycleLeft`), or, when
the value fields of members of two different cycles are exchanged, one made of both
(`CyclesMerged`; of one cycle it would make two, which is why `ring_merge` has to notice the
redundant equation). What the known ones say is the same wherever a string survives
(`SameSaid`). So the state is `IsK(Knows(h), Parts(h), Vals(h))`, each operator of
`Unknowns` is stated on those two (`WithoutIs`, `JoinIs`, `SettleIs`, ...), `KnowsMade` gives the
four outcomes of `make_eq`, and there is one lemma per action (`...Knows`). An assignment
is `Set`, `Join` or `Renew` of the variable alone: the capsule that is paired with it is in no
class before or after (`Paired`).

The library's induction theorems take an operator as a parameter, which the provers
do not instantiate. The modules that need one therefore prove induction for a *set* of natural
numbers from well-foundedness (`NatSetInduction`), and the loops of the code are
recursive functions, of which such an induction shows that they exist.

Only model-checked: liveness, which is out of the prover's reach; all properties of `Equations`,
`Edges`, `GFFile` and `VariableTrees`, whose flushing is recursive.

## 7. Disagreements between code and text

Two are the subject of a run:

* `scanner_lost_end`: the comment at `mf.web` 15391 says of `for ... let endfor` that the
  user will be foiled by `get_symbol` and that the end of the loop "won't be lost
  accidentally". `get_symbol` does keep the *meaning* of the frozen token, but it takes
  the token off the input and puts `frozen_inaccessible` in its place: the loop stays in
  progress and is neither repeated nor ended, and a later `exitif` looks in vain for its
  text on all levels down to the terminal's. `showtoken endfor` and `showvariable endfor`
  lose the token in the same way, without redefining anything. `scanner` shows that without
  these three the texts of the loops in progress and the levels correspond, but for the
  time in which a definition is read that the end of a loop has broken into; `expandafter` and
  tokens deleted at an error prompt, which can also take `ENDFOR` away, are not modelled.
* `edges_yscaled`: `n_rover` should point at the header of row `n_pos` (`mf.web` 7196).
  `y_scale_edges` renumbers the rows and leaves `n_pos` as `copy_edges` set it, with
  `n_rover` at the header; what is drawn next lands in other rows. `gf_file` does not
  draw into a picture in that state; with this exception the weights are always right.

Others were met while modelling, and no run fails because of them:

* `line_edges` (`mf.web` 8062) computes where its edges go from `m_offset` *before* it calls
  `edge_prep`, which may set `m_offset` to zero when a shifted picture has to grow. `Edges`
  does not draw lines then.
* The sensors reduce `charcode` with the operator `%` of C (`mflua.c` 421), which leaves -1 of
  -1, where `do_ship_out` (`mf.web` 20487) adds 256. Two numbers are then computed for
  one character. `Recorder` has codes that are not negative.
* `end_program.lua` calls the edges stored by `print_edges.lua` "useful to have, but
  unused" (205-207), yet indexes them (208). A character drawn and not shipped has none:
  the script dies, with the pages of all later characters unwritten. `Recorder` models
  this; `PagesRight` speaks of the pages before.
* A `close_files_and_terminate` begun again after a failure sorts `tfm_width[k]` once
  more (`mf.web` 22941), by then a node and not a width. The widths in the postamble of
  the GF file (22949) are then the numbers of nodes. `Job` models it; no comment of
  the source says what should happen.
* The answer E at an error ends in `call_edit`, which exits before `mflua_end_program` is
  called: the scripts write nothing. A fatal error while the first file is opened runs
  `mflua_end_program` before `mflua_initialize`.
* The comment before the floating-point routines (`mfextra.c` 2290-2299) promises exact agreement
  with the standard versions for doubles of at least 46 mantissa bits and divisions with a relative
  error of one part in 2^46. For the make routines, which test bit 04000 where the two take
  routines test 040000, that is too few: rounded to 46 bits, 2^28 times the quotient of 1560866979 and
  2004856689 plus 0.5 is a whole number, the difference has more than eleven bits and the result
  is one too large. 2^52 is enough (`DoubleAssumption`), so with IEEE doubles it makes no difference.
* `end_program.lua` (182-184) returns at once when `outfile1` is `nil`, which it is when there is a file
  `LOCK1` or `envelope.tex` cannot be opened (`mfluaini.lua` 529-532): the job ends normally and no page is
  written. `Recorder` models both cases.
* `PRE_fill_envelope_lhs` stores no knots. `end_program.lua` pairs the m-th envelope of a character with
  the m-th list of knots, so from the first left-hand path on the lists are those of later fills or
  missing; `KnotsAligned` states exactly that.
* `find_variable` ends its search for a subscript at an "infinite" one, `el_gordo`, that it
  puts into the node of the collective subscript for the time (`mf.web` 5394-5410). The
  greatest number is a legal subscript all the same (`x[8*infinity+7epsilon]` with plain's
  `infinity`), is found in that node, and its value is kept there, although branches
  below collective subscripts "do not carry actual values" (5119-5120); an `x3` used
  afterwards takes its type from it, "known". With such a subscript among those that are
  used, `TreesSound` fails in two steps; `VariableTrees` has none.
* `jobname` gives out the string of `get_job_name` without `add_str_ref` (`mfextra.c` 2030,
  `mf1.c` 4510), so using it may bring its count to zero. Nothing is lost: the name of
  the transcript, made right after it, stays above it in the pool.

## 8. What is not modelled

`PROJECT.json` lists every part with the reason. In short:

* **Geometry** (paths, octants, moves, pens, envelopes, ellipses, intersections): numerical
  algorithms over scaled reals; a small instance would say little about them. The
  control of path intersection is in the plan.
* **Values of expressions and the parser's dispatch**: any token may come next and any
  value may result; what matters is who holds what meanwhile.
* **In `Scanner`**: `expandafter`, which can put the end of a loop behind the start of
  another one; tokens deleted and lines inserted at an error prompt; `open_parens`, which
  an `exitif` that leaves a file does not lower (`mf.web` 14200; it only decides when a
  line is broken and how many parentheses the transcript closes); the text of lines;
  the terminal in nonstop mode. The file asked for is always found.
* **In `SaveStack`**: delimiters, strings; suffixes of variables are in `VariableTrees`.
* **In `VariableTrees`**: pairs, transforms and their big nodes; strings, paths and the other
  types, which the trees treat as they treat booleans; the printing of names.
* **In `Rings`**: pens, paths and pictures, whose rings are the same and whose values are
  copied instead of counted; the strings below `init_str_ptr`, which stay for ever.
* **In `Equations`**: numbers are exact, so thresholds, rounding, `fix_dependencies`, the
  scaling of independent quantities and `proto_dependent` lists are left out; pairs and
  transforms are several numeric quantities.
* **In `Edges`**: the columns of a line are given, not computed; tracing and display.
* **In `Job`**: what messages say; the lig/kern program, kerns and the bytes of the TFM
  file. Tokens deleted or inserted at the prompt change nothing that `Job` holds.
* **In `Arithmetic`**: `pyth_add`, `pyth_sub`, `velocity`, logarithms, sines and cosines. The
  loops for quotients and products in `mf.web` (under `#ifdef FIXPT` in `mf0.c`) and the assembler
  variants of other systems are not in this build; the routines of `mfextra.c` are, and they are the
  ones modelled. Of doubles the model says that an operation returns the exact value if that is a double and
  one of its two neighbours otherwise; underflow and infinities cannot occur with these numbers.
* **In `Recorder`**: coordinates, the text of the output files, and the sensors whose scripts
  keep nothing.
* **Vendored code**: Lua, kpathsea, luaTeX, pdfTeX, BibTeX and the other programs of the tree,
  which are most of its lines; the generated C of those programs; window backends; test
  data. MFLua is METAFONT and its sensors, and only these are modelled.
