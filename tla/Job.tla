-------------------------------- MODULE Job ---------------------------------
(***************************************************************************)
(* A run of the program from its first line of input to its exit status    *)
(* (mf.web 22803-22975): what is printed where, how errors are answered,   *)
(* and what close_files_and_terminate finishes.  That procedure may start  *)
(* again in its own middle, when a file that it opens brings a fatal       *)
(* error.  The GF bytes go through the buffer of GFBuffer; the dimensions  *)
(* of the font metric file through Dimensions.                             *)
(***************************************************************************)
EXTENDS Word, GFBuffer, Sequences, FiniteSets

CONSTANTS
    m, inf,             \* see Dimensions
    lo_mem_max,         \* where the nodes of the widths end
    Limits,             \* bounds: records [bytes, calm, widths, heights]
    MaxErrors           \* 100

ASSUME JobAssumption == MaxErrors \in Nat

\* The dimensions, less than inf / 8 in absolute value after tfm_check, and the
\* addresses of the nodes leave room below inf for the widths of the intervals
\* that threshold tries.
ASSUME DimensionAssumption ==
    /\ m \in Nat \ {0} /\ inf \in Int /\ el_gordo \in Nat
    /\ lo_mem_max \in Nat /\ lo_mem_max < inf
    /\ \A l \in Limits : \A w \in l.widths \cup l.heights :
          /\ w \in Seq(Int) /\ lo_mem_max + 4 * Len(w) <= inf
          /\ \A a, b, c \in DOMAIN w : w[a] + 2 * (w[b] - w[c]) < inf

VARIABLES
    limits,             \* the bounds of this job
    job,                \* where the job is, and what error and open_log_file change
    old_setting,        \* the selector before a diagnostic
    gf,                 \* "none", "preamble" (open), or "started": gf_prev_ptr > 0
    fontmaking,         \* internal[fontmaking] > 0
    tfm_width, gf_width,\* widths, then nodes; widths for the GF postamble
    files,              \* how many TFM files and transcripts were finished
    programs,           \* runs of end_program.lua
    code,               \* exit status, -1 before
    wanted, reported,   \* history: fontmaking at the end; an error was reported
    dimen, zero_apart, where, list, value, info, excess, perturbation,
    delta,              \* threshold's d
    at

D == INSTANCE Dimensions WITH d <- delta

dims == <<dimen, zero_apart, where, list, value, info, excess, perturbation, delta, at>>
files_vars == <<gf, fontmaking, tfm_width, gf_width, files, wanted>>
jobVars == <<limits, job, old_setting, files_vars, programs, code, reported, dims, vars>>

batch_mode == 0
nonstop_mode == 1
scroll_mode == 2
error_stop_mode == 3

no_print == 0
term_only == 1
log_only == 2
term_and_log == 3

spotless == 0
warning_issued == 1
error_message_issued == 2
fatal_error_stop == 3

-----------------------------------------------------------------------------
\* The print selector based on interaction.
Initial_selector(interaction) == IF interaction = batch_mode THEN no_print ELSE term_only

jump_out(s) == [s EXCEPT !.phase = "closing"]

\* fatal_error, overflow and confusion after normalize_selector.  Their error
\* has no dialogue: interaction is scroll_mode at most.
succumb(s) ==
    jump_out([s EXCEPT !.history = fatal_error_stop,
                       !.interaction = IF @ = error_stop_mode THEN scroll_mode ELSE @])

Normal(s) ==
    [s EXCEPT !.selector = (IF s.log_opened THEN term_and_log ELSE term_only)
                           - (IF s.interaction = batch_mode THEN 1 ELSE 0)]

\* When the transcript cannot be opened, prompt_file_name gets another name,
\* or there is a fatal error: in batch and nonstop mode, or at the end of the
\* terminal's input.
open_log_file(s) ==
    LET t == [s EXCEPT !.job_name = TRUE] IN
    { [t EXCEPT !.log_opened = TRUE, !.selector = s.selector + 2],
      succumb(Normal([t EXCEPT !.selector = term_only])) }

fatal_error(s) ==
    IF s.job_name THEN {succumb(Normal(s))}
    ELSE { IF t.log_opened THEN succumb(Normal(t)) ELSE t :
               t \in open_log_file([s EXCEPT !.selector = term_only]) }

With_log(s) == IF s.job_name THEN {s} ELSE open_log_file(s)

\* The answers at the question mark: Return, deletions, help and insertions
\* have no other effect here; Q, R and S; X; E; or the terminal's input ends.
Answers_NoSwitch(s) ==              \* Q leaves the terminal on
    {s, jump_out([s EXCEPT !.interaction = scroll_mode]), jump_out([s EXCEPT !.edit = s.job_name])}
    \cup {[s EXCEPT !.error_count = 0, !.interaction = c] : c \in batch_mode..scroll_mode}
    \cup fatal_error(s)
Answers(s) ==
    {s, jump_out([s EXCEPT !.interaction = scroll_mode]), jump_out([s EXCEPT !.edit = s.job_name])}
    \cup {[s EXCEPT !.error_count = 0, !.interaction = c,
                    !.selector = IF c = batch_mode THEN @ - 1 ELSE @] :
             c \in batch_mode..scroll_mode}
    \cup fatal_error(s)

Counted(s) ==
    IF s.error_count + 1 = MaxErrors
    THEN jump_out([s EXCEPT !.error_count = MaxErrors, !.history = fatal_error_stop])
    ELSE [s EXCEPT !.error_count = @ + 1]

error(s) ==
    LET t == [s EXCEPT !.history = IF @ < error_message_issued THEN error_message_issued ELSE @]
    IN  IF s.halt_on_error THEN {jump_out([t EXCEPT !.history = fatal_error_stop])}
        ELSE IF t.interaction = error_stop_mode THEN Answers(t)
        ELSE {Counted(t)}

-----------------------------------------------------------------------------
JobInit ==
    /\ Init /\ D!Init
    /\ limits \in Limits
    /\ \E i \in batch_mode..error_stop_mode, halt \in BOOLEAN :
          /\ limits.calm => i = scroll_mode /\ ~halt
          /\ job = [phase |-> "start", interaction |-> i, selector |-> Initial_selector(i),
                    history |-> fatal_error_stop, halt_on_error |-> halt, error_count |-> 0,
                    job_name |-> FALSE, log_opened |-> FALSE, edit |-> FALSE]
    /\ old_setting = 0 /\ gf = "none" /\ fontmaking = FALSE
    /\ tfm_width \in limits.widths /\ gf_width = <<>>
    /\ files = [tfm |-> 0, log |-> 0] /\ programs = 0 /\ code = -1
    /\ wanted = FALSE /\ reported = FALSE

Rest_unchanged == UNCHANGED <<limits, dims, vars>>
Same_files == UNCHANGED files_vars

\* What the running program does to job.
Becomes(results) ==
    /\ job' \in results
    /\ UNCHANGED <<old_setting, programs, code>> /\ Same_files /\ Rest_unchanged

\* No first line, or no base file: goto final_end.
No_start ==
    /\ job.phase = "start" /\ job' = [job EXCEPT !.phase = "over"]
    /\ code' = 1
    /\ UNCHANGED <<old_setting, programs, reported>> /\ Same_files /\ Rest_unchanged

\* The first line names a file or it does not; then history:=spotless.
Start ==
    /\ job.phase = "start"
    /\ Becomes({ IF s.phase = "start" THEN [s EXCEPT !.phase = "run", !.history = spotless]
                 ELSE s : s \in {job} \cup With_log(job) \cup fatal_error(job) })
    /\ reported' = (job'.phase = "closing")

\* An error at a statement.
Error == job.phase = "run" /\ ~limits.calm /\ Becomes(error(job)) /\ reported' = TRUE

\* overflow, confusion, or one of the fatal errors, also while a diagnostic is printed.
Fatal ==
    /\ job.phase \in {"run", "diagnostic"} /\ ~limits.calm
    /\ Becomes(fatal_error(job)) /\ reported' = TRUE

pause_for_instructions ==
    /\ job.phase = "run" /\ ~limits.calm
    /\ Becomes(error([job EXCEPT !.interaction = error_stop_mode,
                                 !.selector = IF @ \in {no_print, log_only} THEN @ + 1 ELSE @]))
    /\ reported' = TRUE

Mode_command ==
    /\ job.phase = "run" /\ ~limits.calm
    /\ \E c \in batch_mode..error_stop_mode :
          Becomes({[job EXCEPT !.interaction = c,
                               !.selector = Initial_selector(c)
                                            + (IF job.log_opened THEN 2 ELSE 0)]})
    /\ UNCHANGED reported

\* do_statement ends.
End_statement ==
    /\ job.phase = "run" /\ Becomes({[job EXCEPT !.error_count = 0]})
    /\ UNCHANGED reported

\* input and jobname; a line from the terminal; they may open the transcript.
Input ==
    /\ job.phase = "run" /\ ~limits.calm
    /\ \/ Becomes(With_log(job))
       \/ Becomes(IF job.selector < log_only THEN open_log_file(job) ELSE {job})
    /\ reported' = (reported \/ job'.phase = "closing")

begin_diagnostic ==
    /\ job.phase = "run" /\ ~limits.calm
    /\ old_setting' = job.selector
    /\ \/ job' = [job EXCEPT !.phase = "diagnostic"]            \* tracingonline
       \/ /\ job.selector = term_and_log
          /\ job' = [job EXCEPT !.phase = "diagnostic", !.selector = log_only,
                                !.history = IF @ = spotless THEN warning_issued ELSE @]
    /\ UNCHANGED <<programs, code, reported>> /\ Same_files /\ Rest_unchanged

end_diagnostic ==
    /\ job.phase = "diagnostic"
    /\ Becomes({[job EXCEPT !.phase = "run", !.selector = old_setting]})
    /\ UNCHANGED reported

Set_fontmaking ==
    /\ job.phase = "run" /\ fontmaking' \in BOOLEAN
    /\ UNCHANGED <<job, old_setting, gf, tfm_width, gf_width, files, wanted, programs, code, reported>>
    /\ Rest_unchanged

\* The first part of init_gf: the GF file is opened, or prompt_file_name fails.
init_gf ==
    /\ job.phase = "run" /\ gf = "none" /\ limits.bytes > 0
    /\ job' \in UNION {{s} \cup (IF s.phase = "run" THEN fatal_error(s) ELSE {}) : s \in With_log(job)}
    /\ gf' = IF job'.phase = "run" THEN "preamble" ELSE gf
    /\ reported' = (reported \/ job'.phase = "closing")
    /\ UNCHANGED <<old_setting, fontmaking, tfm_width, gf_width, files, wanted, programs, code>>
    /\ Rest_unchanged

\* gf_prev_ptr > 0: the preamble is complete.
GF_started_Opened == gf # "none"    \* an output file is enough
GF_started == gf = "started"

Put_byte == gf # "none" /\ count < limits.bytes /\ OutByte

\* exit(1), when fwrite fails.
Exits == IF status' = "exited" THEN job' = [job EXCEPT !.phase = "over"] /\ code' = 1
         ELSE UNCHANGED <<job, code>>

\* A byte of the preamble, after the last one of which gf_prev_ptr is set, of
\* a character or of a special.
Byte_out ==
    /\ job.phase = "run" /\ Put_byte
    /\ Exits
    /\ gf' \in IF status' = "open" THEN {gf, "started"} ELSE {gf}
    /\ UNCHANGED <<limits, old_setting, fontmaking, tfm_width, gf_width, files, wanted,
                   programs, reported, dims>>

\* end or dump, and final_cleanup.
Finish ==
    /\ job.phase = "run"
    /\ Becomes({jump_out(s) : s \in With_log(job)})
    /\ reported' = (reported \/ job'.history = fatal_error_stop)

-----------------------------------------------------------------------------
\* close_files_and_terminate, step by step.
Goto(phase) == job' = [job EXCEPT !.phase = phase]
Same_job == UNCHANGED <<limits, old_setting, gf, programs, code, reported>>

Massage ==
    /\ job.phase = "closing"
    /\ wanted' = (wanted \/ fontmaking)
    /\ IF GF_started \/ fontmaking
       THEN Goto("widths") /\ D!clear_the_list(tfm_width, FALSE)
       ELSE Goto("log") /\ UNCHANGED dims
    /\ Same_job /\ UNCHANGED <<fontmaking, tfm_width, gf_width, files, vars>>

Sort_and_skimp ==
    /\ job.phase \in {"widths", "heights"} /\ D!Step
    /\ Same_job /\ UNCHANGED <<job, fontmaking, tfm_width, gf_width, files, wanted, vars>>

\* The nodes come from the end of the one available node.
Node(c) ==
    LET first == CHOOSE i \in 1..c : where[i] = where[c] /\ \A j \in 1..i - 1 : where[j] # where[c]
    IN  lo_mem_max - 2 * Cardinality({where[j] : j \in 1..first})

\* tfm_width[k] is a node from now on.  The heights stand for the depths and
\* italic corrections as well.
Widths_done ==
    /\ job.phase = "widths" /\ at = "done"
    /\ tfm_width' = [c \in DOMAIN where |-> Node(c)]
    /\ gf_width' = [c \in DOMAIN where |-> value[where[c]]]
    /\ IF fontmaking
       THEN Goto("heights") /\ \E h \in limits.heights : D!clear_the_list(h, TRUE)
       ELSE Goto("gf") /\ UNCHANGED dims
    /\ Same_job /\ UNCHANGED <<fontmaking, files, wanted, vars>>

Heights_done ==
    /\ job.phase = "heights" /\ at = "done" /\ Goto("tfm")
    /\ Same_job /\ UNCHANGED <<fontmaking, tfm_width, gf_width, files, wanted, dims, vars>>

Avoid_loop_Not == UNCHANGED fontmaking      \* fontmaking not cleared
Avoid_loop == fontmaking' = FALSE

\* The TFM file is opened and written, or prompt_file_name fails.
Finish_TFM ==
    /\ job.phase = "tfm"
    /\ Avoid_loop
    /\ \E s \in With_log(job) :
          \/ /\ s.phase = "tfm"
             /\ job' = [s EXCEPT !.phase = "gf"]
             /\ files' = [files EXCEPT !.tfm = @ + 1]
             /\ UNCHANGED reported
          \/ /\ job' \in IF s.phase = "tfm" THEN fatal_error(s) ELSE {s}
             /\ reported' = TRUE
             /\ UNCHANGED files
    /\ UNCHANGED <<limits, old_setting, gf, programs, code, tfm_width, gf_width, wanted,
                   dims, vars>>

\* The postamble, the 223's and the last bytes, if there is a GF file.
Finish_GF ==
    /\ job.phase = "gf"
    /\ IF GF_started
       THEN /\ Put_byte \/ EndJob \/ PadByte \/ Empty \/ EmptyFails
            /\ IF status' = "closed" THEN Goto("log") /\ UNCHANGED code ELSE Exits
       ELSE Goto("log") /\ UNCHANGED <<code, vars>>
    /\ UNCHANGED <<limits, old_setting, programs, reported, files_vars, dims>>

Close_log ==
    /\ job.phase = "log"
    /\ IF job.log_opened
       THEN /\ job' = [job EXCEPT !.phase = "script", !.selector = @ - 2]
            /\ files' = [files EXCEPT !.log = @ + 1]
       ELSE Goto("script") /\ UNCHANGED files
    /\ Same_job /\ UNCHANGED <<fontmaking, tfm_width, gf_width, wanted, dims, vars>>

Exit_status == IF job.history \in {spotless, warning_issued} THEN 0 ELSE 1

\* call_edit exits; else end_program.lua runs and the program ends.
End_program ==
    /\ job.phase = "script" /\ Goto("over")
    /\ IF job.edit /\ job.interaction > batch_mode
       THEN code' = 1 /\ UNCHANGED programs
       ELSE code' = Exit_status /\ programs' = programs + 1
    /\ UNCHANGED <<limits, old_setting, reported, files_vars, dims, vars>>

close_files_and_terminate ==
    \/ Massage \/ Sort_and_skimp \/ Widths_done \/ Heights_done
    \/ Finish_TFM \/ Finish_GF \/ Close_log \/ End_program

Running ==
    \/ No_start \/ Start \/ Error \/ Fatal \/ pause_for_instructions \/ Mode_command
    \/ End_statement \/ Input \/ begin_diagnostic \/ end_diagnostic
    \/ Set_fontmaking \/ init_gf \/ Byte_out \/ Finish

JobNext == Running \/ close_files_and_terminate

\* The program goes on closing by itself; no answer is asked for twice.
JobSpec == JobInit /\ [][JobNext]_jobVars /\ WF_jobVars(close_files_and_terminate)

-----------------------------------------------------------------------------
\* Whenever error can be called the selector has the value that the
\* interaction and the state of the transcript demand (mf.web 1636-1652): the
\* tests of selector in place of log_opened rely on it.
SelectorRight ==
    job.phase \in {"run", "closing", "widths", "heights", "tfm", "gf", "log"} =>
        job.selector = Initial_selector(job.interaction) + (IF job.log_opened THEN log_only ELSE 0)

\* However the job ended: the GF file is finished if and only if it had been
\* started, unless fwrite failed; the metric file is written at most once, and
\* only if fontmaking was positive, in which case a good job has it; the
\* transcript is closed once; end_program.lua runs once, unless an editor is
\* called; and the exit status is 0 exactly when no error was reported.
ClosedRight ==
    job.phase = "over" =>
        /\ status = "closed" => gf = "started"
        /\ gf = "started" => status # "open"
        /\ files.tfm <= 1 /\ (files.tfm = 1 => wanted) /\ (wanted /\ code = 0 => files.tfm = 1)
        /\ status # "exited" =>
              /\ files.log = (IF job.log_opened THEN 1 ELSE 0)
              /\ job.selector \in {no_print, term_only}
              /\ reported \/ code = 0 => programs = (IF job.edit THEN 0 ELSE 1)
        /\ code = 0 <=> job.job_name /\ ~reported /\ status # "exited"

\* The widths, and the heights, depths and italic corrections, as Dimensions
\* promises them.
LeastPerturbation == job.phase \in {"widths", "heights"} => D!LeastPerturbation

\* Closing comes to an end, also when files that it opens bring it back to its
\* beginning.
JobEnds == job.phase = "closing" ~> job.phase = "over"
=============================================================================
