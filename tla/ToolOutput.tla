----------------------------- MODULE ToolOutput -----------------------------
(***************************************************************************)
(* What tools give back.  The read tool page by page as a caller follows its *)
(* continuation hints; the lists of grep, find and ls; and the bash tool:    *)
(* a process group that writes to two pipes, a timer, and the loop that      *)
(* waits for whichever comes first.  A text is the sequence of the lengths   *)
(* of its lines; one that ends with a newline has a last line of length 0.   *)
(***************************************************************************)
EXTENDS Integers, FiniteSets, Sequences, SequencesExt, FiniteSetsExt, Functions

CONSTANTS
    TMaxLines, TMaxBytes,  \* DEFAULT_MAX_LINES, DEFAULT_MAX_BYTES
    TMaxChars,             \* MAX_LINE_CHARS of grep
    TKeep,                 \* BUFFER_KEEP
    TTexts,                \* texts of files, and of lists of matches
    TLimits,               \* limits a caller asks for; 0 stands for none
    TLines,                \* lengths of the lines that a process writes
    TMaxWrites             \* bound: lines a process group writes

ASSUME ToolOutputAssumption == {TMaxLines, TMaxBytes, TMaxChars, TKeep, TMaxWrites} \subseteq Nat \ {0}

VARIABLES
    tFile, tLimit, tOffset, tShown, tPage,  \* the reader: offset 0 when it has stopped
    bCall,      \* the loop of bash_execute_real
    bGroup,     \* [child, others]: the processes of the group
    bPipe,      \* [stream -> lines not read yet]
    bTail,      \* OutputTail
    bWritten    \* history: lines the group has written

tVars == <<tFile, tLimit, tOffset, tShown, tPage>>
bVars == <<bCall, bGroup, bPipe, bTail, bWritten>>

----------------------------------------------------------------------------
(* truncate.rs.                                                              *)

Bytes(lines) == IF lines = <<>> THEN 0 ELSE FoldLeft(+, 0, lines) + Len(lines) - 1

\* split_lines_for_counting.
Counted(lines) ==
    IF lines = <<0>> THEN <<>> ELSE IF lines # <<>> /\ Last(lines) = 0
    THEN SubSeq(lines, 1, Len(lines) - 1) ELSE lines

\* truncate_head.
TruncateHead(lines, maxLines) ==
    LET all == Counted(lines)
        fits(n) == n <= maxLines /\ Bytes(SubSeq(all, 1, n)) <= TMaxBytes
    IN IF Len(all) <= maxLines /\ Bytes(lines) <= TMaxBytes
       THEN [lines |-> lines, truncated |-> FALSE, firstExceeds |-> FALSE]
       ELSE IF all # <<>> /\ all[1] > TMaxBytes
       THEN [lines |-> <<>>, truncated |-> TRUE, firstExceeds |-> TRUE]
       ELSE [lines |-> SubSeq(all, 1, Max({n \in 0..Len(all) : fits(n)})),
             truncated |-> TRUE, firstExceeds |-> FALSE]

\* What a process writes is lines with their newlines.
Terminated(lines) == FoldLeft(+, 0, lines) + Len(lines)

\* apply_truncation of bash, which is truncate_tail: the last lines; of a last line that
\* is too long its end.
TruncateTail(lines, overflowed) ==
    LET end(n) == SubSeq(lines, Len(lines) - n + 1, Len(lines))
        n == Max({k \in 0..Len(lines) : k <= TMaxLines /\ Bytes(end(k)) <= TMaxBytes})
    IN IF Len(lines) <= TMaxLines /\ Terminated(lines) <= TMaxBytes /\ ~overflowed
       THEN [lines |-> lines, notice |-> FALSE]
       ELSE [lines |-> IF n = 0 /\ lines # <<>> THEN <<TMaxBytes>> ELSE end(n),
             notice |-> overflowed \/ n < Len(lines)]

----------------------------------------------------------------------------
(* The read tool.                                                            *)

\* read_execute: how many lines from offset on are shown, and the offset to continue with.
ReadExecute(file, offset, limit) ==
    LET end == IF limit = 0 THEN Len(file) ELSE Min({offset - 1 + limit, Len(file)})
        cut == TruncateHead(SubSeq(file, offset, end), TMaxLines)
        n == IF cut.truncated THEN Len(cut.lines) ELSE end - offset + 1
    IN [n |-> n, stuck |-> cut.firstExceeds,
        next |-> IF cut.firstExceeds THEN 0
                 ELSE IF cut.truncated \/ end < Len(file) THEN offset + n ELSE 0]

\* A caller that does what the hint says.
ReadPage ==
    LET page == ReadExecute(tFile, tOffset, tLimit)
    IN /\ tOffset # 0
       /\ tShown' = tShown \o [i \in 1..page.n |-> tOffset + i - 1]
       /\ tOffset' = page.next
       /\ tPage' = page
       /\ UNCHANGED <<tFile, tLimit>>

\* grep: output_match_block, a match with the lines around it, each cut to TMaxChars.
OutputMatchBlock(lines, i, context) ==
    [k \in 1..(Min({i + context, Len(lines)}) - Max({i - context, 1}) + 1) |->
        Min({TMaxChars, lines[Max({i - context, 1}) + k - 1]})]

\* candidates_for_path: the files below a directory in their order, or the file itself;
\* the walk goes on past an entry that it cannot read.
CandidatesForPath(files) == SelectSeq(files, LAMBDA f : f.is # "unlisted")

\* grep_execute: the first limit matches of the candidates that the glob wants; a line of
\* odd length matches.  A file without metadata or whose contents cannot be read is passed
\* over without a word, one that is large with a notice.  It says that the limit was
\* reached even when there were no more.
GrepExecute(files, limit, context) ==
    LET wanted == SelectSeq(CandidatesForPath(files), LAMBDA f : f.wanted)
        read == SelectSeq(wanted, LAMBDA f : f.is \notin {"nometa", "large", "unread"})
        inFile(f) == SetToSortSeq({i \in DOMAIN f.lines : f.lines[i] % 2 = 1}, <)
        all == FlattenSeq([c \in DOMAIN read |-> [m \in DOMAIN inFile(read[c]) |->
                   [file |-> read[c], at |-> inFile(read[c])[m]]]])
        taken == IF limit = 0 THEN all ELSE SubSeq(all, 1, Min({limit, Len(all)}))
        near(m) == {i \in DOMAIN m.file.lines : i - m.at \in (-context)..context}
        out == FlattenSeq([m \in DOMAIN taken |->
                   OutputMatchBlock(taken[m].file.lines, taken[m].at, context)])
        cut == TruncateHead(out, Len(out) + 1)
    IN [lines |-> cut.lines, matches |-> Len(all),
        notice |-> \/ cut.truncated
                   \/ limit # 0 /\ Len(all) >= limit
                   \/ \E m \in ToSet(taken) : \E i \in near(m) : m.file.lines[i] > TMaxChars
                   \/ \E f \in ToSet(wanted) : f.is = "large"]

\* What a directory yields: entries whose type, or whose own directory, cannot be read
\* are skipped without a word.
Readable(entries, unreadable) ==
    FlattenSeq([i \in DOMAIN entries |-> IF i \in unreadable THEN <<>> ELSE <<entries[i]>>])

\* The sorted list of find and ls: the first limit of it, cut at the limit of bytes.
ListExecute(list, limit) ==
    LET taken == IF limit = 0 THEN list ELSE SubSeq(list, 1, Min({limit, Len(list)}))
        cut == TruncateHead(taken, Len(taken) + 1)
    IN [lines |-> cut.lines, notice |-> cut.truncated \/ (limit # 0 /\ Len(list) > limit)]

\* find_execute, ls_execute: of a path that is no directory an error.
NotADirectory == [lines |-> <<>>, notice |-> TRUE]
FindExecute(isDir, paths, unreadable, limit) ==
    IF isDir THEN ListExecute(Readable(paths, unreadable), limit) ELSE NotADirectory
LsExecute(isDir, entries, unreadable, limit) ==
    IF isDir THEN ListExecute(Readable(entries, unreadable), limit) ELSE NotADirectory

----------------------------------------------------------------------------
(* The bash tool.                                                            *)

Streams == {"out", "err"}
NoTail == [lines |-> <<>>, total |-> 0, overflowed |-> FALSE]

\* drain_byte: the last keep bytes, which may begin within a line.
DrainByte(lines, keep) ==
    LET from == Min({i \in 1..(Len(lines) + 1) : Terminated(SubSeq(lines, i, Len(lines))) <= keep})
        rest == SubSeq(lines, from, Len(lines))
        room == keep - Terminated(rest)
    IN (IF from > 1 /\ room > 0 THEN <<room - 1>> ELSE <<>>) \o rest

\* OutputTail::push.
PushTail(tail, line) ==
    LET all == Append(tail.lines, line)
        over == Terminated(all) > 2 * TKeep
    IN [lines |-> IF over THEN DrainByte(all, TKeep) ELSE all, total |-> tail.total + 1,
        overflowed |-> tail.overflowed \/ over]

ToolOutputInit ==
    /\ tFile \in TTexts
    /\ tLimit \in TLimits
    /\ tOffset = 1
    /\ tShown = <<>>
    /\ tPage = [n |-> 0, stuck |-> FALSE, next |-> 1]
    /\ bCall = [at |-> "call", timer |-> FALSE, open |-> Streams, code |-> "none",
                timedOut |-> FALSE, grace |-> FALSE, result |-> "none"]
    /\ bGroup = [child |-> "none", others |-> {}]
    /\ bPipe = [s \in Streams |-> <<>>]
    /\ bTail = NoTail
    /\ bWritten = <<>>

\* timeout_secs_from_args: a positive number, at most MAX_TIMEOUT_SECS; 0 is refused.
TimeoutSecs(raw, max) == IF raw <= 0 THEN 0 ELSE Min({raw, max})

\* resolve_shell_path: a custom shell that is not there is an error, /bin/bash else.
ResolveShellPath(custom, exists) == custom => exists

\* The start of bash_execute_real: bad arguments, a missing directory or shell and a failed
\* spawn are errors; else the child leads a process group of its own.
SpawnBash(timeout, cwdExists, shellExists, spawns) ==
    LET starts == /\ TimeoutSecs(timeout, 1) # 0
                  /\ cwdExists /\ ResolveShellPath(TRUE, shellExists) /\ spawns
    IN /\ bCall.at = "call"
       /\ bCall' = [bCall EXCEPT !.at = IF starts THEN "loop" ELSE "done",
                                 !.result = IF starts THEN @ ELSE "refused"]
       /\ bGroup' = IF starts THEN [bGroup EXCEPT !.child = "running"] ELSE bGroup
       /\ UNCHANGED <<bPipe, bTail, bWritten>>

\* Processes: the child, and others it leaves in its group, hold the pipes open.
Writers == (IF bGroup.child = "running" THEN {"child"} ELSE {}) \cup bGroup.others
ProcessWrites(s, line) ==
    /\ Writers # {}
    /\ Len(bWritten) < TMaxWrites
    /\ bPipe' = [bPipe EXCEPT ![s] = Append(@, line)]
    /\ bWritten' = Append(bWritten, line)
    /\ UNCHANGED <<bCall, bGroup, bTail>>
ProcessForks ==
    /\ bGroup.child = "running"
    /\ bGroup.others = {}
    /\ bGroup' = [bGroup EXCEPT !.others = {"background"}]
    /\ UNCHANGED <<bCall, bPipe, bTail, bWritten>>
ChildExits(code) ==
    /\ bGroup.child = "running"
    /\ bGroup' = [bGroup EXCEPT !.child = code]
    /\ UNCHANGED <<bCall, bPipe, bTail, bWritten>>
OtherExits ==
    /\ bGroup.others # {}
    /\ bGroup' = [bGroup EXCEPT !.others = {}]
    /\ UNCHANGED <<bCall, bPipe, bTail, bWritten>>
TimerFires ==
    /\ bCall.at = "loop" /\ ~bCall.timer
    /\ bCall' = [bCall EXCEPT !.timer = TRUE]
    /\ UNCHANGED <<bGroup, bPipe, bTail, bWritten>>

\* The branches of select!, any of those that are ready.  child.wait():
WaitBranch ==
    /\ bCall.at = "loop"
    /\ bGroup.child \notin {"none", "running"}
    /\ bCall' = [bCall EXCEPT !.at = "drain", !.code = bGroup.child]
    /\ UNCHANGED <<bGroup, bPipe, bTail, bWritten>>

\* Mutant of TerminateTree: only the child is killed.
TerminateChildOnly == [bGroup EXCEPT !.child = IF @ = "running" THEN "killed" ELSE @]

\* terminate_child_process_tree, kill_process_group: the whole group, when the child has
\* not been waited for.
TerminateTree ==
    [child |-> IF bGroup.child = "running" THEN "killed" ELSE bGroup.child, others |-> {}]

\* The timeout.
TimeoutBranch ==
    /\ bCall.at = "loop"
    /\ bCall.timer
    /\ bGroup' = TerminateTree
    /\ bCall' = [bCall EXCEPT !.at = "drain", !.timedOut = TRUE]
    /\ UNCHANGED <<bPipe, bTail, bWritten>>

\* A read from a pipe, in the loop or in drain_pipes: a piece, or its end.
ReadBranch(s) ==
    /\ bCall.at \in {"loop", "drain"}
    /\ s \in bCall.open
    /\ bPipe[s] # <<>>
    /\ bTail' = PushTail(bTail, Head(bPipe[s]))
    /\ bPipe' = [bPipe EXCEPT ![s] = Tail(@)]
    /\ UNCHANGED <<bCall, bGroup, bWritten>>
EofBranch(s) ==
    /\ bCall.at \in {"loop", "drain"}
    /\ s \in bCall.open
    /\ bPipe[s] = <<>> /\ Writers = {}
    /\ bCall' = [bCall EXCEPT !.open = @ \ {s}]
    /\ UNCHANGED <<bGroup, bPipe, bTail, bWritten>>

\* Mutant of GraceEnds: the drain waits for the end of the pipes.
GraceEndsNever ==
    /\ bCall.at = "drain" /\ bCall.open # {} /\ Writers = {}
    /\ bCall' = [bCall EXCEPT !.at = "report", !.grace = TRUE]
    /\ UNCHANGED <<bGroup, bPipe, bTail, bWritten>>

\* drain_with_grace gives up while a process keeps a pipe open.
GraceEnds ==
    /\ bCall.at = "drain" /\ bCall.open # {}
    /\ bCall' = [bCall EXCEPT !.at = "report", !.grace = TRUE]
    /\ UNCHANGED <<bGroup, bPipe, bTail, bWritten>>
DrainEnds ==
    /\ bCall.at = "drain" /\ bCall.open = {}
    /\ bCall' = [bCall EXCEPT !.at = "report"]
    /\ UNCHANGED <<bGroup, bPipe, bTail, bWritten>>

\* The end of bash_execute_real.
ReportBash ==
    /\ bCall.at = "report"
    /\ bCall' = [bCall EXCEPT !.at = "done",
                   !.result = CASE bCall.timedOut -> "timeout"
                                [] ~bCall.timedOut /\ bCall.code = "zero" -> "ok"
                                [] ~bCall.timedOut /\ bCall.code = "error" -> "code"
                                [] ~bCall.timedOut /\ bCall.code = "killed" -> "signal"]
    /\ UNCHANGED <<bGroup, bPipe, bTail, bWritten>>

BashStep == WaitBranch \/ TimeoutBranch \/ GraceEnds \/ DrainEnds \/ ReportBash
BashNext ==
    \/ \E s \in Streams, line \in TLines : ProcessWrites(s, line)
    \/ \E timeout \in {0, 2}, cwdExists, shellExists, spawns \in BOOLEAN :
          SpawnBash(timeout, cwdExists, shellExists, spawns)
    \/ ProcessForks \/ OtherExits \/ TimerFires
    \/ \E code \in {"zero", "error", "killed"} : ChildExits(code)
    \/ BashStep
    \/ \E s \in Streams : ReadBranch(s) \/ EofBranch(s)
BashFair == WF_bVars(bCall.at = "call" /\ BashNext) /\ WF_bVars(TimerFires) /\ WF_bVars(BashStep)

----------------------------------------------------------------------------
(* Properties.                                                               *)

\* Following the hints of the read tool shows every line once and in order, whatever the
\* limits cut off, up to a line that alone is too long.  Of what can be read no list leaves
\* out a result without a notice, be it for a limit, for a large file or for a long line,
\* and what cannot be read does not hide what can.  (That something could not be read is
\* not told: grep.rs:142, 260, 268, find.rs:127 and ls.rs:63 go on without a notice.)
CutsAreTold ==
    /\ tShown = [i \in DOMAIN tShown |-> i]
    /\ tOffset = 0 => tPage.stuck \/ Len(tShown) = Len(tFile)
    /\ tOffset # 0 => tOffset = Len(tShown) + 1 /\ tOffset <= Len(tFile)
    /\ \A lost \in SUBSET DOMAIN tFile :
          LET found == FindExecute(TRUE, tFile, lost, tLimit)
              listed == LsExecute(TRUE, tFile, lost, tLimit)
          IN /\ found.notice \/ found.lines = Readable(tFile, lost)
             /\ listed.notice \/ listed.lines = Readable(tFile, lost)
    /\ \A is \in {"readable", "unlisted", "nometa", "large", "unread"}, context \in {0, 1} :
          LET files == <<[wanted |-> TRUE, is |-> is, lines |-> <<1, 2>>],
                         [wanted |-> TRUE, is |-> "readable", lines |-> tFile]>>
              odd(lines) == {i \in DOMAIN lines : lines[i] % 2 = 1}
              found == GrepExecute(files, tLimit, context)
          IN found.notice \/
             (/\ is # "large"
              /\ found.matches = Cardinality(odd(tFile)) + (IF is = "readable" THEN 1 ELSE 0)
              /\ Cardinality(odd(found.lines)) >= found.matches)

\* The report of a command is true, however its exit, its output and the timer race:
\* after a timeout nothing of its group is alive; unless a process outlived the grace
\* every line written before the end was read; and what is shown without a notice is
\* all that was read.
BashTruthful ==
    bCall.at = "done" =>
       /\ bCall.result = "refused" <=> bGroup.child = "none"
       /\ bCall.result = "timeout" => bCall.timer /\ Writers = {}
       /\ bCall.result = "ok" => bGroup.child = "zero"
       /\ ~bCall.grace => bTail.total = Len(bWritten)
       /\ LET shown == TruncateTail(bTail.lines, bTail.overflowed)
          IN ~shown.notice => Len(shown.lines) = bTail.total

\* A command's call ends even when a process it left behind keeps the pipes open.
BashEnds == <>(bCall.at = "done")

\* No tool cuts off what it has read without saying so, and a command's report is true
\* (tools/read.rs, grep.rs, find.rs, ls.rs, bash.rs).
OutputTruthful == CutsAreTold /\ BashTruthful
=============================================================================
