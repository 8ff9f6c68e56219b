----------------------------- MODULE FileEdits ------------------------------
(***************************************************************************)
(* Tools and operations that change a file: the edit and write tools and the *)
(* self-healing edit, which run at once (parallel tool calls) and are kept   *)
(* apart by a queue per file.  There is one file; it may have two names, one *)
(* through a symbolic link.  A text is a sequence of lines; the style of a   *)
(* line is what fuzzy matching forgets (curly quotes, trailing blanks).      *)
(***************************************************************************)
EXTENDS Integers, FiniteSets, Sequences, SequencesExt, FiniteSetsExt

CONSTANTS
    FTasks,       \* the calls, numbered as they come
    FNames,       \* names of the file: "real" and possibly "link"
    FBodies,      \* texts the file may have at first
    FEdits,       \* lists of replacements [old, new] that a call may ask for
    FMaxRepairs,  \* bound: repair attempts of a self-healing edit
    FMaxDrops     \* bound: calls that are dropped (an aborted operation)

ASSUME FileEditsAssumption ==
    /\ FTasks \subseteq Nat \ {0} /\ IsFiniteSet(FTasks)
    /\ FNames \subseteq {"real", "link"}
    /\ {FMaxRepairs, FMaxDrops} \subseteq Nat

VARIABLES
    fFile,      \* [exists, body]
    fTask,      \* [FTasks -> call]
    fQueues,    \* FILE_MUTATION_QUEUES: [key -> number of a queue, 0 for none]
    fHeld,      \* [FTasks -> the queue whose lock the call has, 0 for none]
    fNext,      \* the number of the next queue
    fOrphan,    \* texts that blocking writes of dropped calls will still write
    fLost       \* history: calls that replaced a text other than the one they edited

fVars == <<fFile, fTask, fQueues, fHeld, fNext, fOrphan, fLost>>

----------------------------------------------------------------------------
(* apply_edits.                                                              *)

PlainLine(line) == [line EXCEPT !.s = "plain"]
NormalizeForFuzzy(body) == [i \in DOMAIN body |-> PlainLine(body[i])]
Occurrences(body, old) == {i \in DOMAIN body : body[i] = old}

\* fuzzy_find_text: exactly, else with both sides normalized; 0 when not found.  Of
\* several places it is the first.
FuzzyFind(body, old) ==
    LET exact == Occurrences(body, old)
        fuzzy == Occurrences(NormalizeForFuzzy(body), PlainLine(old))
    IN IF exact # {} THEN Min(exact) ELSE IF fuzzy # {} THEN Min(fuzzy) ELSE 0

\* Mutant of ApplyReplacements: the replacements are made from the first to the last.
ApplyForward(body, matched, edits) ==
    LET order == SetToSortSeq(DOMAIN matched, LAMBDA i, j : matched[i] < matched[j])
        splice(out, i) == SubSeq(out, 1, matched[i] - 1) \o edits[i].new
                            \o SubSeq(out, matched[i] + 1, Len(out))
    IN FoldLeft(splice, body, order)

\* The replacements, from the last to the first so that earlier places stay valid.
ApplyReplacements(body, matched, edits) ==
    LET order == SetToSortSeq(DOMAIN matched, LAMBDA i, j : matched[i] > matched[j])
        splice(out, i) == SubSeq(out, 1, matched[i] - 1) \o edits[i].new
                            \o SubSeq(out, matched[i] + 1, Len(out))
    IN FoldLeft(splice, body, order)

\* apply_replacements_preserving_unchanged_lines: lines that no replacement touches are
\* copied from the original.
PreservingUnchanged(original, matched, edits) ==
    FlattenSeq([k \in DOMAIN original |->
        IF \E i \in DOMAIN matched : matched[i] = k
        THEN edits[CHOOSE i \in DOMAIN matched : matched[i] = k].new ELSE <<original[k]>>])

UsesFuzzy(body, edits) == \E i \in DOMAIN edits : Occurrences(body, edits[i].old) = {}
Refused == [ok |-> FALSE, body |-> <<>>]

\* apply_edits: not found, found more than once, overlapping and without effect are errors.
\* As soon as one edit is fuzzy all are placed in the normalized text, where the old text
\* is counted as it was given: one with style occurs nowhere there, and its first fuzzy
\* place is taken, however many there are.
ApplyEdits(body, edits) ==
    LET fuzzy == UsesFuzzy(body, edits)
        base == IF fuzzy THEN NormalizeForFuzzy(body) ELSE body
        matched == [i \in DOMAIN edits |-> FuzzyFind(base, edits[i].old)]
        new == IF fuzzy THEN PreservingUnchanged(body, matched, edits)
               ELSE ApplyReplacements(body, matched, edits)
    IN IF \/ \E i \in DOMAIN edits : matched[i] = 0
          \/ \E i \in DOMAIN edits : Cardinality(Occurrences(base, edits[i].old)) > 1
          \/ \E i, j \in DOMAIN edits : i # j /\ matched[i] = matched[j]
          \/ new = body
       THEN Refused ELSE [ok |-> TRUE, body |-> new]

----------------------------------------------------------------------------
(* edit_diff.rs: what the result of an edit shows.                           *)

\* The table of diff_parts: the longest common subsequence of what is left.
Lcs(old, new) ==
    LET f[i \in 1..(Len(old) + 1), j \in 1..(Len(new) + 1)] ==
            IF i > Len(old) \/ j > Len(new) THEN 0
            ELSE IF old[i] = new[j] THEN f[i + 1, j + 1] + 1
            ELSE Max({f[i + 1, j], f[i, j + 1]})
    IN f

\* diff_parts, a line each: op, the line, and its number (of a removed line the old one).
DiffParts(old, new) ==
    LET lcs == Lcs(old, new)
        part(op, line, i, j) == <<[op |-> op, line |-> line, old |-> i, new |-> j]>>
        walk[i \in 1..(Len(old) + 1), j \in 1..(Len(new) + 1)] ==
            IF i > Len(old) /\ j > Len(new) THEN <<>>
            ELSE IF i > Len(old) THEN part("added", new[j], i, j) \o walk[i, j + 1]
            ELSE IF j > Len(new) THEN part("removed", old[i], i, j) \o walk[i + 1, j]
            ELSE IF old[i] = new[j] THEN part("equal", old[i], i, j) \o walk[i + 1, j + 1]
            ELSE IF lcs[i + 1, j] >= lcs[i, j + 1]
                 THEN part("removed", old[i], i, j) \o walk[i + 1, j]
            ELSE part("added", new[j], i, j) \o walk[i, j + 1]
    IN walk[1, 1]

\* generate_diff_string: the changed lines and those within context of one, in order, and
\* the line (of the new text) at which the first change is.
GenerateDiffString(old, new, context) ==
    LET parts == DiffParts(old, new)
        changed == {k \in DOMAIN parts : parts[k].op # "equal"}
        near == {k \in DOMAIN parts : \E c \in changed : k - c \in (-context)..context}
    IN [lines |-> [n \in DOMAIN SetToSortSeq(near, <) |-> parts[SetToSortSeq(near, <)[n]]],
        first |-> IF changed = {} THEN 0 ELSE parts[Min(changed)].new]

\* generate_unified_patch: one hunk of all lines.
GenerateUnifiedPatch(old, new) == [olds |-> Len(old), news |-> Len(new), parts |-> DiffParts(old, new)]

----------------------------------------------------------------------------
(* The calls.  at is the next thing a call does.                             *)

NoCall == [kind |-> "none", name |-> "real", edits |-> <<>>, at |-> "idle", key |-> "real",
           queue |-> 0, base |-> <<>>, new |-> <<>>, error |-> FALSE, repairs |-> 0,
           strategy |-> "none", check |-> FALSE, checks |-> <<>>, records |-> 0,
           applied |-> 0]

FileEditsInit ==
    /\ fFile \in [exists : {TRUE}, body : FBodies] \cup {[exists |-> FALSE, body |-> <<>>]}
    /\ fTask = [t \in FTasks |-> NoCall]
    /\ fQueues = [k \in {"real", "link"} |-> 0]
    /\ fHeld = [t \in FTasks |-> 0]
    /\ fNext = 1
    /\ fOrphan = {}
    /\ fLost = {}

Keep == UNCHANGED <<fFile, fQueues, fHeld, fNext, fOrphan, fLost>>
Goes(t, at) == fTask' = [fTask EXCEPT ![t].at = at]
Fails(t) == fTask' = [fTask EXCEPT ![t].at = "failed", ![t].error = TRUE]

Comes(t) == fTask[t] = NoCall /\ \A u \in FTasks : u < t => fTask[u] # NoCall

\* edit_execute (the tool, through the flow without a check), write_execute.
CallEdit(t, name, edits) ==
    /\ Comes(t)
    /\ fTask' = [fTask EXCEPT ![t] = [NoCall EXCEPT !.kind = "edit", !.name = name,
                                        !.edits = edits, !.at = "start"]]
    /\ Keep
CallWrite(t, name, body) ==
    /\ Comes(t)
    /\ fTask' = [fTask EXCEPT ![t] = [NoCall EXCEPT !.kind = "write", !.name = name,
                                        !.new = body, !.at = "key"]]
    /\ Keep

\* SelfHealingEditService::run_persistent with a check command (without one it does what
\* the tool does); the strategy is the planned attempts, or the model's.
CallHeal(t, name, edits, strategy) ==
    /\ Comes(t)
    /\ fTask' = [fTask EXCEPT ![t] = [NoCall EXCEPT !.kind = "heal", !.name = name, !.edits = edits,
                                        !.at = "start", !.check = TRUE, !.strategy = strategy]]
    /\ Keep

\* start_edit_workflow.
StartEditWorkflow(t) ==
    /\ fTask[t].at = "start"
    /\ IF fTask[t].edits = <<>> THEN Fails(t) ELSE Goes(t, "read")
    /\ Keep

\* read_target: outside of the queue, only to see that it can be read.
ReadTarget(t) ==
    /\ fTask[t].at = "read"
    /\ IF fFile.exists THEN Goes(t, "validate") ELSE Fails(t)
    /\ Keep

\* propose_patch and validate_patch: no old text is empty.
ValidatePatch(t) ==
    /\ fTask[t].at = "validate"
    /\ IF \E i \in DOMAIN fTask[t].edits : fTask[t].edits[i].old.t = "" THEN Fails(t)
       ELSE Goes(t, "key")
    /\ Keep

\* mutation_queue_key: the canonical path of a file that exists, else the path as given.
MutationQueueKey(t) ==
    /\ fTask[t].at = "key"
    /\ fTask' = [fTask EXCEPT ![t].at = "queue",
                   ![t].key = IF fFile.exists THEN "real" ELSE fTask[t].name]
    /\ Keep

\* queue_for_key, under the lock of the registry.
QueueForKey(t) ==
    LET key == fTask[t].key
        q == IF fQueues[key] = 0 THEN fNext ELSE fQueues[key]
    IN /\ fTask[t].at = "queue"
       /\ fQueues' = [fQueues EXCEPT ![key] = q]
       /\ fNext' = IF q = fNext THEN fNext + 1 ELSE fNext
       /\ fTask' = [fTask EXCEPT ![t].queue = q, ![t].at = "lock"]
       /\ UNCHANGED <<fFile, fHeld, fOrphan, fLost>>

LockQueue(t) ==
    /\ fTask[t].at = "lock"
    /\ \A u \in FTasks : fHeld[u] # fTask[t].queue
    /\ fHeld' = [fHeld EXCEPT ![t] = fTask[t].queue]
    /\ Goes(t, IF fTask[t].kind = "write" THEN "truncate" ELSE "apply")
    /\ UNCHANGED <<fFile, fQueues, fNext, fOrphan, fLost>>

\* edit_execute_with_operations in the queue: the text is read and edited.
ApplyPatch(t) ==
    LET result == ApplyEdits(fFile.body, fTask[t].edits)
    IN /\ fTask[t].at = "apply"
       /\ fTask' = [fTask EXCEPT ![t].base = fFile.body, ![t].new = result.body,
                      ![t].error = ~(fFile.exists /\ result.ok),
                      ![t].at = IF fFile.exists /\ result.ok THEN "truncate" ELSE "unlock"]
       /\ Keep

\* tokio::fs::write opens with truncation, then writes.
TruncateFile(t) ==
    /\ fTask[t].at = "truncate"
    /\ fFile' = [exists |-> TRUE, body |-> <<>>]
    /\ fLost' = IF fTask[t].kind # "write" /\ fFile.body # fTask[t].base
                THEN fLost \cup {t} ELSE fLost
    /\ Goes(t, "write")
    /\ UNCHANGED <<fQueues, fHeld, fNext, fOrphan>>
WriteFile(t) ==
    /\ fTask[t].at = "write"
    /\ fFile' = [exists |-> TRUE, body |-> fTask[t].new]
    /\ fTask' = [fTask EXCEPT ![t].at = "unlock", ![t].applied = @ + 1]
    /\ UNCHANGED <<fQueues, fHeld, fNext, fOrphan, fLost>>

\* write_file fails: when it opens the file, which is then as it was, or when it writes,
\* and the truncated file stays.
WriteFails(t) ==
    /\ fTask[t].at \in {"truncate", "write"}
    /\ fTask' = [fTask EXCEPT ![t].error = TRUE, ![t].at = "unlock"]
    /\ Keep

UnlockQueue(t) ==
    /\ fTask[t].at = "unlock"
    /\ fHeld' = [fHeld EXCEPT ![t] = 0]
    /\ Goes(t, "cleanup")
    /\ UNCHANGED <<fFile, fQueues, fNext, fOrphan, fLost>>

\* The strong count of a queue: the registry and the calls that hold it.
Holders(q) == {t \in FTasks : fTask[t].queue = q}

\* cleanup_queue: only the registry and this call have the queue, and it is the one of the key.
IsLast(t) == fQueues[fTask[t].key] = fTask[t].queue /\ Holders(fTask[t].queue) = {t}

\* The end of with_file_mutation_queue.
CleanupQueue(t) ==
    /\ fTask[t].at = "cleanup"
    /\ fQueues' = IF IsLast(t) THEN [fQueues EXCEPT ![fTask[t].key] = 0] ELSE fQueues
    /\ fTask' = [fTask EXCEPT ![t].queue = 0,
                   ![t].at = IF fTask[t].error THEN "failed"
                             ELSE IF fTask[t].check THEN "check" ELSE "done"]
    /\ UNCHANGED <<fFile, fHeld, fNext, fOrphan, fLost>>

----------------------------------------------------------------------------
(* The check and its repairs.                                                *)

\* The check runners: the command's exit code, or an error when it cannot be run.
CheckOutcomes == {"pass", "fail", "none"}

\* stream_model_repair and parse_model_repair_response: the text of the last message as
\* replacements; an error, no message, an empty one, one that is no JSON of edits or has
\* none of them is an error (<<>>).
ModelRepairs == FEdits \cup {<<>>}

\* PlannedSelfHealingEditRepairStrategy: the attempt of that number, if configured.
PlannedRepairs(attempts, n) == IF n \in DOMAIN attempts THEN {attempts[n]} ELSE {<<>>}

\* run_check: the command passes, exits with an error or cannot be run.
RunCheck(t, outcome) ==
    /\ fTask[t].at = "check"
    /\ fTask' = [fTask EXCEPT
         ![t].checks = Append(@, outcome),
         ![t].records = IF fTask[t].repairs > 0 /\ outcome # "none" THEN @ + 1 ELSE @,
         ![t].error = outcome = "none",
         ![t].at = CASE outcome = "none" -> "failed" [] outcome = "pass" -> "done"
                     [] outcome = "fail" -> "repair"]
    /\ Keep

\* repair_patch: there is a strategy and an attempt left.
MayRepair(t) == fTask[t].strategy # "none" /\ fTask[t].repairs < FMaxRepairs

\* The strategy gives replacements for the next attempt; an empty list or an error is the end.
RepairPatch(t, edits) ==
    /\ fTask[t].at = "repair"
    /\ MayRepair(t)
    /\ edits \in IF fTask[t].strategy = "model" THEN ModelRepairs
                ELSE PlannedRepairs(<<fTask[t].edits>>, fTask[t].repairs + 1)
    /\ fTask' = [fTask EXCEPT ![t].repairs = @ + 1,
                   ![t].edits = IF edits = <<>> THEN @ ELSE edits,
                   ![t].error = edits = <<>>,
                   ![t].at = IF edits = <<>> THEN "failed" ELSE "validate"]
    /\ Keep
GiveUpRepair(t) ==
    /\ fTask[t].at = "repair"
    /\ ~MayRepair(t)
    /\ Fails(t)
    /\ Keep

\* The future of a call is dropped: its lock is released and its queue let go, without
\* cleanup; a write that has begun goes on.
DropCall(t) ==
    /\ Cardinality({u \in FTasks : fTask[u].at = "dropped"}) < FMaxDrops
    /\ fTask[t].at \notin {"idle", "done", "failed", "dropped", "unlock", "cleanup"}
    /\ fOrphan' = IF fTask[t].at = "write" THEN fOrphan \cup {fTask[t].new} ELSE fOrphan
    /\ fHeld' = [fHeld EXCEPT ![t] = 0]
    /\ fTask' = [fTask EXCEPT ![t].at = "dropped", ![t].queue = 0]
    /\ UNCHANGED <<fFile, fQueues, fNext, fLost>>
OrphanWrites(body) ==
    /\ body \in fOrphan
    /\ fOrphan' = fOrphan \ {body}
    /\ fFile' = [exists |-> TRUE, body |-> body]
    /\ UNCHANGED <<fTask, fQueues, fHeld, fNext, fLost>>

CallStep(t) ==
    \/ StartEditWorkflow(t) \/ ReadTarget(t) \/ ValidatePatch(t) \/ MutationQueueKey(t)
    \/ QueueForKey(t) \/ LockQueue(t) \/ ApplyPatch(t) \/ TruncateFile(t) \/ WriteFile(t)
    \/ WriteFails(t) \/ UnlockQueue(t) \/ CleanupQueue(t) \/ GiveUpRepair(t)
    \/ \E outcome \in CheckOutcomes : RunCheck(t, outcome)
    \/ \E edits \in ModelRepairs : RepairPatch(t, edits)

FileEditsNext ==
    \/ \E t \in FTasks, name \in FNames :
          \/ \E edits \in FEdits : CallEdit(t, name, edits)
          \/ \E body \in FBodies : CallWrite(t, name, body)
          \/ \E edits \in FEdits, strategy \in {"none", "planned", "model"} :
                CallHeal(t, name, edits, strategy)
    \/ \E t \in FTasks : CallStep(t) \/ DropCall(t)
    \/ \E body \in fOrphan : OrphanWrites(body)

FileEditsSpec == FileEditsInit /\ [][FileEditsNext]_fVars

----------------------------------------------------------------------------
(* Properties.                                                               *)

Mutating(t) == fTask[t].at \in {"apply", "truncate", "write", "unlock"}
Strays == {t \in FTasks : fTask[t].key # "real" \/ fTask[t].at = "dropped"}

\* One mutation at a time: calls with one key are never both between lock and unlock,
\* although queues are thrown away and made anew while calls wait; and no edit replaces a
\* text other than the one it edited, unless a call found the file missing under its
\* other name, or one was dropped while it wrote.
OneMutator ==
    /\ \A t, u \in FTasks :
          t # u /\ Mutating(t) /\ Mutating(u) => fTask[t].key # fTask[u].key
    /\ fLost # {} => Strays # {}

PatchApplies(old, new) ==
    LET patch == GenerateUnifiedPatch(old, new)
        side(op) == LET kept == SelectSeq(patch.parts, LAMBDA p : p.op \in {"equal", op})
                    IN [k \in DOMAIN kept |-> kept[k].line]
        shown == GenerateDiffString(old, new, 1)
    IN /\ side("removed") = old /\ Len(side("removed")) = patch.olds
       /\ side("added") = new /\ Len(side("added")) = patch.news
       /\ SubSeq(old, 1, shown.first - 1) = SubSeq(new, 1, shown.first - 1)
       /\ shown.first \in DOMAIN old /\ shown.first \in DOMAIN new => old[shown.first] # new[shown.first]
       /\ ToSet(SelectSeq(patch.parts, LAMBDA p : p.op # "equal")) \subseteq ToSet(shown.lines)

\* What an edit writes.  Each replacement takes the place of one line of its own, whose
\* text is the one asked for; every other line is as it was, in its place and style.  A call
\* of which every old text is in the file as given hits exactly those lines, each of which
\* is the only one of its kind.  (That a line is unique is promised for no other call: when
\* one old text needs fuzzy matching, another that is in the file exactly once may replace
\* an earlier line that differs from it in style, edit.rs:132-149.)  What the result of the
\* edit shows: a patch that makes the one text of the other, and the first line at which
\* they differ.
Hits(place, base, edits) ==
    /\ \A i, j \in DOMAIN edits : i # j => place[i] # place[j]
    /\ \A i \in DOMAIN edits : PlainLine(base[place[i]]) = PlainLine(edits[i].old)
    /\ (\A i \in DOMAIN edits : Occurrences(base, edits[i].old) # {}) =>
          \A i \in DOMAIN edits : Occurrences(base, edits[i].old) = {place[i]}

EditExact ==
    \A t \in FTasks :
       fTask[t].at \in {"truncate", "write"} /\ fTask[t].kind # "write" =>
          LET base == fTask[t].base
              edits == fTask[t].edits
          IN /\ \E place \in [DOMAIN edits -> DOMAIN base] :
                   /\ Hits(place, base, edits)
                   /\ fTask[t].new = FlattenSeq([k \in DOMAIN base |->
                         IF \E i \in DOMAIN edits : place[i] = k
                         THEN edits[CHOOSE i \in DOMAIN edits : place[i] = k].new
                         ELSE <<base[k]>>])
             /\ PatchApplies(base, fTask[t].new)

\* The report of a self-healing edit: it succeeds when its last check passed and fails
\* when none did, every repair whose check ran is recorded, and no more
\* patches are written than the first and one for each repair allowed.
HealAccounts ==
    \A t \in FTasks :
       fTask[t].kind = "heal" =>
          /\ fTask[t].at = "done" => Last(fTask[t].checks) = "pass"
          /\ fTask[t].at = "failed" => \A i \in DOMAIN fTask[t].checks : fTask[t].checks[i] # "pass"
          /\ fTask[t].applied <= 1 + FMaxRepairs
          /\ fTask[t].records <= fTask[t].repairs
          /\ fTask[t].at = "done" => fTask[t].records = fTask[t].repairs

\* Calls that change one file do it one at a time, write what was asked and report what
\* they did (file_mutation_queue.rs, edit.rs, self_healing_edit_flow.rs).
EditsSound == OneMutator /\ EditExact /\ HealAccounts
=============================================================================
