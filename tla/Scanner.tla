------------------------------- MODULE Scanner ------------------------------
(***************************************************************************)
(* The input stack and the expansion of tokens (mf.web 13640-13823,        *)
(* 13972-14230, 14405-14800, 15067-15509): files, macro texts, arguments,  *)
(* loop texts and tokens backed up lie on one stack, conditions and loops  *)
(* on two others, and the recursive routines that are under way on a       *)
(* fourth.  The three are independent of each other: an exitif, a token    *)
(* that comes too early or a list that ends may touch any of them while    *)
(* the routines wait.                                                      *)
(*                                                                         *)
(* What a text says does not matter: whatever token can come next may.     *)
(* Only the end of a loop text is known, the frozen_repeat_loop token.     *)
(***************************************************************************)
EXTENDS Integers, Sequences, SequencesExt, FiniteSets, TLC

CONSTANTS
    Texts,          \* nodes for loop texts
    Nodes,          \* nodes of the condition stack
    MaxValues,      \* bound on the values of a loop and arguments of a macro
    LoseEnd,        \* may the program redefine or show the end of a loop?
    MaxLevels, MaxCalls     \* bounds; stack_size of the code is 300

null == "null"

ASSUME ScannerAssumption ==
    /\ {MaxValues, MaxLevels, MaxCalls} \subseteq Nat /\ LoseEnd \in BOOLEAN
    /\ null \notin Nodes

VARIABLES
    scan,       \* [input, param_ptr, in_open]: the input stack, last level on
                \* top; the parameters and files it has in use
    force_eof,
    loops,      \* loop_ptr: [text, left], innermost last; left = -1: forever
    conds,      \* cond_ptr: [node, limit], innermost last
    calls,      \* conditional, expand, macro_call, begin_iteration, scan_def
    status      \* "ok", or the confusion or fatal error that stopped the job
vars == <<scan, force_eof, loops, conds, calls, status>>

if_code == 1
fi_code == 2
else_code == 3
else_if_code == 4

\* A level: what it is, whether there is more to read, what that is if it is
\* known, the loop text, param_start with the parameters stacked on it, and
\* the index of a file.
Level(s, t) == [type |-> t, more |-> TRUE, holds |-> "any", text |-> null,
                param_start |-> s.param_ptr, n |-> 0, index |-> 0]
file_state(l)  == l.type \in {"terminal", "file", "string"}
token_state(l) == ~file_state(l)
Top(s) == Last(s.input)
SetTop(s, l) == [s EXCEPT !.input = Append(Front(@), l)]

begin_token_list(s, t) == [s EXCEPT !.input = Append(@, Level(s, t))]

end_token_list_Macro(s) ==     \* mutant: only a macro flushes its parameters
    [s EXCEPT !.input = Front(@),
              !.param_ptr = IF Top(s).type = "macro" THEN Top(s).param_start ELSE @]

\* Backed-up and inserted lists have no parameters.
end_token_list(s) ==
    LET l == Top(s) IN
    [s EXCEPT !.input = Front(@),
              !.param_ptr = IF l.type \notin {"backed_up", "inserted"} /\ @ > l.param_start
                            THEN l.param_start ELSE @]

begin_file_reading(s, t) ==
    [s EXCEPT !.in_open = @ + 1,
              !.input = Append(@, [Level(s, t) EXCEPT !.index = s.in_open + 1])]
end_file_reading(s) == [s EXCEPT !.in_open = @ - 1, !.input = Front(@)]

PopLevel(s) == IF file_state(Top(s)) THEN end_file_reading(s) ELSE end_token_list(s)

\* Levels are left, one by one, until only k are there.
PopTo(s, k) ==
    LET pop[j \in 0..(Len(s.input) - k)] == IF j = 0 THEN s ELSE PopLevel(pop[j - 1])
    IN  pop[Len(s.input) - k]

\* while token_state and(loc=null) do end_token_list
Conserved(s) ==
    LET kept == {k \in DOMAIN s.input : s.input[k].more \/ file_state(s.input[k])} IN
    PopTo(s, CHOOSE k \in kept : \A j \in kept : j <= k)

\* A list of one token is put back, or inserted.
back_list(s, t, what) == SetTop(begin_token_list(s, t),
                                [Level(s, t) EXCEPT !.holds = what])
back_input(s, what) == back_list(Conserved(s), "backed_up", what)

stack_argument(s, k) ==
    SetTop([s EXCEPT !.param_ptr = @ + k], [Top(s) EXCEPT !.n = k])

Room(s) == Len(s.input) <= MaxLevels
Status(c) == IF c = <<>> THEN "normal"
             ELSE IF Last(c).kind = "params" THEN "def"
             ELSE IF Last(c).kind \in {"skip", "text", "body", "def"} THEN Last(c).kind
             ELSE "normal"
scanner_status == Status(calls)
Under(kind) == calls # <<>> /\ Last(calls).kind = kind

\* A definition ends by calling get_x_next, and nothing else is done before
\* this has found a token that is not expanded.
Parsing == scanner_status = "normal" /\ ~Under("next")
TokenFound == calls' = IF Under("next") THEN Front(calls) ELSE calls

-----------------------------------------------------------------------------
(* get_next: the top level after one more token, which may be its last.    *)

Comes(l) == IF l.holds # "any" THEN {l.holds}
            ELSE IF l.type = "loop" THEN {"any", "endfor"} ELSE {"any"}
MoreAfter(l, what) ==
    IF what # "any" \/ l.type \in {"backed_up", "inserted"} THEN {FALSE}
    ELSE IF l.type \in {"loop", "terminal"} THEN {TRUE} ELSE BOOLEAN

Reads(what) ==
    LET l == Top(scan) IN
    IF status # "ok" \/ ~l.more \/ what \notin Comes(l) THEN {}
    ELSE {SetTop(scan, [l EXCEPT !.more = m]) : m \in MoreAfter(l, what)}

\* A token that the parser takes, or that is skipped or absorbed: an inserted
\* one too, when it only ends something inside.
Ordinary ==
    /\ scan' \in Reads("any") \cup Reads(scanner_status)
    /\ TokenFound
    /\ UNCHANGED <<force_eof, loops, conds, status>>

\* A list or a file that has no token left, or never had one.
NoMore ==
    /\ status = "ok" /\ Top(scan).type \in {"macro", "parameter", "file", "string"}
    /\ Top(scan).more
    /\ scan' = SetTop(scan, [Top(scan) EXCEPT !.more = FALSE])
    /\ UNCHANGED <<force_eof, loops, conds, calls, status>>

\* The parser has read too far, or not found what it needs; what it inserts
\* then is read at once.
BackInput ==
    /\ scanner_status = "normal" \/ Under("params")
    /\ \E w \in {"any", scanner_status} : \E s \in Reads(w) :
          scan' = back_input(s, w) /\ Room(scan')
    /\ TokenFound
    /\ UNCHANGED <<force_eof, loops, conds, status>>

\* A statement is flushed after an error, raw like a text argument.
Flush ==
    /\ Parsing /\ Len(calls) < MaxCalls
    /\ \E s \in Reads("any") : scan' = back_input(s, "any") /\ Room(scan')
    /\ calls' = Append(calls, [kind |-> "text"])
    /\ UNCHANGED <<force_eof, loops, conds, status>>

\* The top level has been read to its end.
EndLevel ==
    /\ status = "ok" /\ ~Top(scan).more /\ Top(scan).type \notin {"terminal", "file"}
    /\ scan' = PopLevel(scan)
    /\ UNCHANGED <<force_eof, loops, conds, calls, status>>

\* What check_outer_validity inserts at the end of a file and in front of an
\* outer token, so that the routine that reads raw tokens can end.
InsertRescue(s) == IF scanner_status = "normal" THEN s
                   ELSE back_list(Conserved(s), "inserted", scanner_status)

\* A file has ended, or endinput has forced its end.
EndFile ==
    /\ status = "ok" /\ Top(scan).type = "file"
    /\ ~Top(scan).more \/ force_eof
    /\ force_eof' = FALSE
    /\ scan' = InsertRescue(end_file_reading(scan))
    /\ UNCHANGED <<loops, conds, calls, status>>

\* A suffix or text parameter of the top level is to be read.
Parameter ==
    /\ Top(scan).n > 0 /\ Top(scan).type \in {"macro", "loop"}
    /\ \E s \in Reads("any") : scan' = begin_token_list(s, "parameter") /\ Room(scan')
    /\ UNCHANGED <<force_eof, loops, conds, calls, status>>

OuterEnd_Dropped ==     \* mutant: the outer token is not backed up
    /\ scanner_status # "normal"
    /\ \E s \in Reads("endfor") : scan' = InsertRescue(s) /\ Room(scan')
    /\ UNCHANGED <<force_eof, loops, conds, calls, status>>

\* The end of a loop comes while raw tokens are read: it is outer.
OuterEnd ==
    /\ scanner_status # "normal"
    /\ \E s \in Reads("endfor") :
          scan' = InsertRescue(back_list(s, "backed_up", "endfor")) /\ Room(scan')
    /\ UNCHANGED <<force_eof, loops, conds, calls, status>>

-----------------------------------------------------------------------------
(* Conditions                                                              *)

FreshNodes == Nodes \ {conds[i].node : i \in DOMAIN conds}
Innermost == Last(conds)

\* conditional: the stack is pushed, and get_boolean begins.
If ==
    /\ scanner_status = "normal" /\ Len(calls) < MaxCalls
    /\ scan' \in Reads("any")
    /\ \E p \in FreshNodes :
          /\ conds' = Append(conds, [node |-> p, limit |-> if_code])
          /\ calls' = Append(calls, [kind |-> "cond", at |-> p, limit |-> else_if_code])
    /\ UNCHANGED <<force_eof, loops, status>>

change_if_limit_Top(l, p) ==     \* mutant: only the easy case
    conds' = [conds EXCEPT ![Len(conds)].limit = l] /\ UNCHANGED status

change_if_limit(l, p) ==
    IF \E i \in DOMAIN conds : conds[i].node = p
    THEN /\ conds' = [i \in DOMAIN conds |->
                         IF conds[i].node = p THEN [conds[i] EXCEPT !.limit = l] ELSE conds[i]]
         /\ UNCHANGED status
    ELSE status' = "confusion(if)" /\ UNCHANGED conds

\* The condition, or else, is true: wait for elseif, else or fi.
ConditionTrue ==
    /\ status = "ok" /\ Under("cond")
    /\ change_if_limit(Last(calls).limit, Last(calls).at)
    /\ calls' = Front(calls)
    /\ UNCHANGED <<scan, force_eof, loops>>

ConditionFalse ==
    /\ status = "ok" /\ Under("cond") /\ Last(calls).limit = else_if_code
    /\ calls' = Append(Front(calls), [kind |-> "skip", at |-> Last(calls).at])
    /\ UNCHANGED <<scan, force_eof, loops, conds, status>>

\* pass_text has come to fi, else or elseif outside all inner conditions.  A
\* false condition goes on if the token belongs to a condition inside its own;
\* a true one, whose at is null, skips to fi.
SkipTo(m) ==
    /\ scanner_status = "skip"
    /\ \E s \in Reads("any") \cup (IF m = fi_code THEN Reads("skip") ELSE {}) : scan' = s
    /\ LET at == Last(calls).at
           mine == at = null \/ Innermost.node = at
       IN  /\ conds' = IF m = fi_code THEN Front(conds) ELSE conds
           /\ calls' = IF ~mine THEN calls
                       ELSE IF m = fi_code THEN Front(calls)
                       ELSE IF at = null THEN calls
                       ELSE Append(Front(calls),
                                   [kind |-> "cond", at |-> at,
                                    limit |-> IF m = else_code THEN fi_code ELSE else_if_code])
    /\ UNCHANGED <<force_eof, loops, status>>

if_limit == IF conds = <<>> THEN 0 ELSE Innermost.limit

\* fi, else or elseif comes up in the normal course of things.
FiOrElse(m) ==
    /\ scanner_status = "normal" /\ Len(calls) < MaxCalls
    /\ \E s \in Reads("any") :
          IF m > if_limit /\ if_limit = if_code     \* Missing `:'
          THEN /\ scan' = back_list(back_input(s, "any"), "inserted", "any") /\ Room(scan')
               /\ UNCHANGED <<conds, calls>>
          ELSE /\ scan' = s
               /\ IF m > if_limit THEN UNCHANGED <<conds, calls>>     \* Extra fi
                  ELSE IF m = fi_code THEN conds' = Front(conds) /\ UNCHANGED calls
                  ELSE /\ calls' = Append(calls, [kind |-> "skip", at |-> null])
                       /\ UNCHANGED conds
    /\ UNCHANGED <<force_eof, loops, status>>

-----------------------------------------------------------------------------
(* Loops                                                                   *)

\* The next turn of the innermost loop, or its end: the scanner and the loops.
resume_iteration(s, l) ==
    LET p == Last(l)
        body(t) == SetTop(t, [Top(t) EXCEPT !.text = p.text])
        turn == body(begin_token_list(s, "loop"))
    IN  IF p.left = 0 THEN <<s, Front(l)>>
        ELSE IF p.left < 0 THEN <<turn, l>>
        ELSE <<stack_argument(turn, 1), Append(Front(l), [p EXCEPT !.left = @ - 1])>>

\* for: the values are scanned; forever has none.
begin_iteration ==
    /\ scanner_status = "normal" /\ Len(calls) < MaxCalls
    /\ scan' \in Reads("any")
    /\ calls' = Append(calls, [kind |-> "values"])
    /\ UNCHANGED <<force_eof, loops, conds, status>>

\* The colon is there, and the text of the loop is absorbed.
BeginBody ==
    /\ status = "ok" /\ Under("values")
    /\ \E k \in -1..MaxValues : calls' = Append(Front(calls), [kind |-> "body", left |-> k])
    /\ UNCHANGED <<scan, force_eof, loops, conds, status>>

\* endfor has been read: the loop starts with its first turn.
EndBody ==
    /\ scanner_status = "body"
    /\ \E s \in Reads("any") \cup Reads("body"),
          t \in Texts \ {loops[i].text : i \in DOMAIN loops} :
          LET r == resume_iteration(s, Append(loops, [text |-> t, left |-> Last(calls).left]))
          IN  scan' = r[1] /\ loops' = r[2] /\ Room(scan')
    /\ calls' = Front(calls)
    /\ UNCHANGED <<force_eof, conds, status>>

\* The end of a loop text; without a loop the loop is lost.
RepeatLoop ==
    /\ scanner_status = "normal"
    /\ \E s \in Reads("endfor") :
          LET r == IF loops = <<>> THEN <<Conserved(s), loops>>
                   ELSE resume_iteration(Conserved(s), loops)
          IN  scan' = r[1] /\ loops' = r[2]
    /\ UNCHANGED <<force_eof, conds, calls, status>>

\* exitif: get_boolean begins.
ExitTest ==
    /\ scanner_status = "normal" /\ Len(calls) < MaxCalls
    /\ scan' \in Reads("any")
    /\ calls' = Append(calls, [kind |-> "exit"])
    /\ UNCHANGED <<force_eof, loops, conds, status>>

StayInLoop ==
    /\ status = "ok" /\ Under("exit")
    /\ calls' = Front(calls)
    /\ UNCHANGED <<scan, force_eof, loops, conds, status>>

\* Levels are left until a loop text has been left, which must be the innermost
\* loop's; if there is none, the last level goes too.
ExitLoop ==
    /\ status = "ok" /\ Under("exit") /\ loops # <<>>
    /\ calls' = Front(calls)
    /\ LET at == {k \in DOMAIN scan.input : scan.input[k].type = "loop"}
           k == CHOOSE i \in at : \A j \in at : j <= i
       IN  IF at = {} THEN status' = "underflow" /\ UNCHANGED <<scan, loops>>
           ELSE IF scan.input[k].text # Last(loops).text
           THEN status' = "loop confusion" /\ UNCHANGED <<scan, loops>>
           ELSE scan' = PopTo(scan, k - 1) /\ loops' = Front(loops) /\ UNCHANGED status
    /\ UNCHANGED <<force_eof, conds>>

\* get_symbol puts frozen_inaccessible in the place of a token that cannot be
\* redefined, of ENDFOR too when the program asks for it there.
Given == IF LoseEnd /\ scanner_status = "normal" THEN {"any", "endfor"}
         ELSE {"any", scanner_status}
get_symbol ==
    /\ Parsing \/ Under("params")
    /\ \E w \in Given : \E s \in Reads(w) :
          scan' = back_list(Conserved(s), "inserted", "any") /\ Room(scan')
    /\ UNCHANGED <<force_eof, loops, conds, calls, status>>

\* showtoken and showvariable take any token as it is.
ShowToken ==
    /\ Parsing
    /\ \E w \in Given : scan' \in Reads(w)
    /\ UNCHANGED <<force_eof, loops, conds, calls, status>>

-----------------------------------------------------------------------------
(* Definitions                                                             *)

scan_def_Parsing ==     \* mutant: the end of a loop is taken for the = sign
    /\ Parsing /\ Len(calls) < MaxCalls
    /\ scan' \in Reads("any") \cup Reads("endfor")
    /\ calls' = Append(calls, [kind |-> "params"])
    /\ UNCHANGED <<force_eof, loops, conds, status>>

\* The token after the name is read while the status is still normal: it
\* begins the parameters or should be an = sign, and is backed up if it is
\* not, the end of a loop too.
scan_def ==
    /\ Parsing /\ Len(calls) < MaxCalls
    /\ \/ /\ scan' \in Reads("any")
          /\ calls' = Append(calls, [kind |-> "params"])
       \/ /\ \E w \in {"any", "endfor"} : \E s \in Reads(w) :
                scan' = back_input(s, w) /\ Room(scan')
          /\ calls' = Append(calls, [kind |-> "def"])
    /\ UNCHANGED <<force_eof, loops, conds, status>>

\* The parameters and the = sign are there, or back_error has supplied it.
EndParams ==
    /\ status = "ok" /\ Under("params")
    /\ calls' = Append(Front(calls), [kind |-> "def"])
    /\ UNCHANGED <<scan, force_eof, loops, conds, status>>

\* scan_toks has come to enddef.
EndDef ==
    /\ Under("def")
    /\ scan' \in Reads("any") \cup Reads("def")
    /\ calls' = Append(Front(calls), [kind |-> "next"])
    /\ UNCHANGED <<force_eof, loops, conds, status>>

-----------------------------------------------------------------------------
(* Macros and files                                                        *)

macro_call ==
    /\ scanner_status = "normal" /\ Len(calls) < MaxCalls
    /\ scan' \in Reads("any")
    /\ calls' = Append(calls, [kind |-> "args", n |-> 0])
    /\ UNCHANGED <<force_eof, loops, conds, status>>

\* An argument has been scanned; a text argument is read raw.
Argument ==
    /\ status = "ok" /\ Under("args") /\ Last(calls).n < MaxValues
    /\ calls' = [calls EXCEPT ![Len(calls)].n = @ + 1]
    /\ UNCHANGED <<scan, force_eof, loops, conds, status>>
TextArgument ==
    /\ status = "ok" /\ Under("args") /\ Last(calls).n < MaxValues /\ Len(calls) < MaxCalls
    /\ calls' = Append([calls EXCEPT ![Len(calls)].n = @ + 1], [kind |-> "text"])
    /\ UNCHANGED <<scan, force_eof, loops, conds, status>>
EndText ==
    /\ scanner_status = "text"
    /\ scan' \in Reads("any") \cup Reads("text")
    /\ calls' = Front(calls)
    /\ UNCHANGED <<force_eof, loops, conds, status>>

Feed ==
    /\ status = "ok" /\ Under("args")
    /\ scan' = stack_argument(begin_token_list(Conserved(scan), "macro"), Last(calls).n)
    /\ Room(scan')
    /\ calls' = Front(calls)
    /\ UNCHANGED <<force_eof, loops, conds, status>>

\* start_input: names of files are read from a file or made empty.
start_input ==
    /\ scanner_status = "normal"
    /\ \E s \in Reads("any") : scan' = begin_file_reading(Conserved(s), "file") /\ Room(scan')
    /\ UNCHANGED <<force_eof, loops, conds, calls, status>>

EndInput ==
    /\ scanner_status = "normal" /\ scan' \in Reads("any")
    /\ force_eof' = TRUE
    /\ UNCHANGED <<loops, conds, calls, status>>

\* scantokens: the token after the string is backed up, the string read.
ScanTokens ==
    /\ scanner_status = "normal"
    /\ \E s \in Reads("any") :
          scan' = begin_file_reading(back_input(s, "any"), "string") /\ Room(scan')
    /\ UNCHANGED <<force_eof, loops, conds, calls, status>>

-----------------------------------------------------------------------------
Init ==
    /\ scan = LET s == [input |-> <<>>, param_ptr |-> 0, in_open |-> 0] IN
              [s EXCEPT !.input = <<Level(s, "terminal")>>]
    /\ force_eof = FALSE /\ loops = <<>> /\ conds = <<>> /\ calls = <<>> /\ status = "ok"

Next ==
    \/ Ordinary \/ NoMore \/ BackInput \/ Flush \/ EndLevel \/ EndFile \/ Parameter \/ OuterEnd
    \/ If \/ ConditionTrue \/ ConditionFalse
    \/ \E m \in {fi_code, else_code, else_if_code} : SkipTo(m) \/ FiOrElse(m)
    \/ begin_iteration \/ BeginBody \/ EndBody \/ RepeatLoop
    \/ ExitTest \/ StayInLoop \/ ExitLoop \/ get_symbol \/ ShowToken
    \/ scan_def \/ EndParams \/ EndDef
    \/ macro_call \/ Argument \/ TextArgument \/ EndText \/ Feed
    \/ start_input \/ EndInput \/ ScanTokens

Spec == Init /\ [][Next]_vars

-----------------------------------------------------------------------------
\* if_limit says if_code for exactly the conditions that are still being
\* evaluated, the one begun last innermost.
IfLimitsKept ==
    LET open == {i \in DOMAIN conds : conds[i].limit = if_code}
        waiting == {j \in DOMAIN calls : /\ calls[j].kind \in {"cond", "skip"}
                                         /\ calls[j].at # null}
    IN  /\ {conds[i].node : i \in open} = {calls[j].at : j \in waiting}
        /\ \A i, k \in open, j, m \in waiting :
              conds[i].node = calls[j].at /\ conds[k].node = calls[m].at
                 => (i < k <=> j < m)

\* Whatever an exitif throws away and whatever is pushed while arguments are
\* still being scanned, the levels of files have the indexes 1, 2, ..., so that
\* end_file_reading never says confusion("endinput"), and the parameters of a
\* level end where those of the next one begin, so that no level loses its own.
\* However many conditions are opened inside a boolean expression and left open
\* there, change_if_limit finds the condition it was called for.
LevelsSound ==
    LET n == Len(scan.input)
        files(k) == Cardinality({j \in 2..k : file_state(scan.input[j])})
    IN  /\ status = "ok" =>
              /\ scan.in_open = files(n)
              /\ \A k \in 1..n :
                    /\ file_state(scan.input[k]) => scan.input[k].index = files(k)
                    /\ scan.input[k].param_start + scan.input[k].n =
                          IF k = n THEN scan.param_ptr ELSE scan.input[k + 1].param_start
        /\ IfLimitsKept /\ status # "confusion(if)"

TurnsOn == {k \in DOMAIN scan.input : scan.input[k].type = "loop"}
TextsOn == {scan.input[k].text : k \in TurnsOn}
TextsOf(l) == {l[i].text : i \in DOMAIN l}

\* However many loops have lost their ends, the loop texts on the input are
\* those of loops in progress, each at most once and the inner ones on top: no
\* text is read that has been given back.
TextsAlive ==
    /\ TextsOn \subseteq TextsOf(loops)
    /\ \A k, m \in TurnsOn, i, j \in DOMAIN loops :
          scan.input[k].text = loops[i].text /\ scan.input[m].text = loops[j].text
             => (k < m <=> i < j)

\* Every loop in progress has its text on the input: ENDFOR resumes the loop it
\* belongs to, and exitif finds a text and finds the innermost loop's, so that
\* it neither says "loop confusion" nor leaves the terminal's own level.  Only
\* while a definition is read that the end of a loop has broken into is that
\* loop's text gone, and its ENDFOR waits.  mf.web 15391-15395 says that ENDFOR
\* cannot be lost.
LoopTexts ==
    LET Broken == /\ Under("def") \/ Under("next")
                  /\ \E l \in ToSet(scan.input) : l.holds = "endfor" /\ l.more
                  /\ loops # <<>> /\ TextsOn = TextsOf(Front(loops))
    IN  /\ status \notin {"loop confusion", "underflow"}
        /\ TextsOn = TextsOf(loops) \/ Broken
        /\ TextsAlive
=============================================================================
