----------------------------- MODULE SessionLog -----------------------------
(***************************************************************************)
(* A persistent session: the append-only event log and the manifest on disk, *)
(* and the one process that has the session open (SessionService,            *)
(* TurnTransaction, SessionLogStore).  A transaction collects its events in  *)
(* memory and appends them together when it ends; the manifest is written    *)
(* afterwards.  Every write may be cut short, by an error or by a crash:     *)
(* append_events goes through a buffer and neither it nor fs::write is       *)
(* atomic or synchronised.                                                   *)
(***************************************************************************)
EXTENDS SessionReplay

CONSTANTS
    MaxOperations,  \* bound: transactions begun
    MaxItems,       \* bound: messages and tool calls of one prompt
    MaxSwitches,    \* bound: switches of the active leaf
    MaxForks,       \* bound: clones and forks that the process moves on to
    MaxFaults,      \* bound: writes that fail or that the process dies in
    Offered         \* the kinds of operation that are begun

ASSUME SessionAssumption ==
    /\ MaxOperations \in Nat /\ MaxItems \in Nat /\ MaxSwitches \in Nat /\ MaxForks \in Nat
    /\ MaxFaults \in Nat
    /\ Offered \subseteq OperationKinds

VARIABLES
    log,       \* events.jsonl, the complete lines
    tail,      \* how the file ends: "clean", "open" (newline missing), "torn"
    manifest,  \* session.json: [leaf, ok], ok FALSE when it was cut short
    pc,        \* what the process is doing, see Steps
    handle,    \* active_leaf_id of the manifest in memory
    tx,        \* the transaction, or the switch, that is under way
    told,      \* per operation: what its caller was told
    agreed,    \* no write of a leaf has failed since the last one that succeeded
    faults,    \* bound: faults so far
    used       \* bounds: [ops, switches, forks]

disk == <<log, tail, manifest, faults>>
vars == <<log, tail, manifest, faults, pc, handle, tx, told, agreed, used>>

(* "creating": the directory exists, the log is empty; "down": no process;    *)
(* "recovering": recovery markers appended, manifest not yet; "open": a       *)
(* transaction is open; "sealing": its events are appended, the manifest is   *)
(* not; "switching": the same for switch_active_leaf.                         *)
Steps == {"creating", "down", "recovering", "idle", "open", "sealing", "switching"}

NoTx == [op |-> 0, of |-> "none", pending |-> <<>>, unsettled |-> {}, done |-> FALSE,
         leaf |-> 0, result |-> "none"]

Results == {"none", "committed", "aborted", "failed", "partial", "error"}

Init ==
    /\ log = <<>>
    /\ tail = "clean"
    /\ manifest = [leaf |-> 0, ok |-> TRUE]
    /\ faults = 0
    /\ pc = "creating"
    /\ handle = 0
    /\ tx = NoTx
    /\ told = [op \in 1..MaxOperations |-> "none"]
    /\ agreed = TRUE
    /\ used = [ops |-> 0, switches |-> 0, forks |-> 0]

(***************************************************************************)
(* The store.                                                               *)
(***************************************************************************)
\* read_events, next_session_sequence: one line that does not parse and nothing
\* can be read or appended any more.
Readable == tail # "torn"

Fault == faults < MaxFaults /\ faults' = faults + 1

\* append_events succeeds.  After a missing newline the first event ends up on
\* the same line as the one before it, which then does not parse.
AppendAll(events) ==
    /\ Readable
    /\ log' = log \o events
    /\ tail' = IF tail = "open" THEN "torn" ELSE "clean"
    /\ UNCHANGED faults

\* append_events fails, or the process dies in it: a prefix of the events is in
\* the file, all of them possibly, and then a part of a line or a line that
\* lacks its newline.
AppendCut(events) ==
    \/ /\ ~Readable
       /\ UNCHANGED <<log, tail, faults>>
    \/ /\ Readable
       /\ Fault
       /\ \E k \in 0..Len(events) :
            /\ log' = log \o SubSeq(events, 1, k)
            /\ \/ tail' = IF tail = "open" /\ k > 0 THEN "torn"
                          ELSE IF k = 0 THEN tail ELSE "clean"
               \/ k < Len(events) /\ tail' = "torn"
               \/ k > 0 /\ tail = "clean" /\ tail' = "open"

\* update_manifest, write_manifest succeed.
WriteManifest(leaf) ==
    /\ manifest.ok
    /\ manifest' = [manifest EXCEPT !.leaf = leaf]
    /\ UNCHANGED faults

\* update_manifest fails: it cannot read what is there, or write_manifest fails
\* before or after it truncated the file.
ManifestFails ==
    \/ ~manifest.ok /\ UNCHANGED <<manifest, faults>>
    \/ manifest.ok /\ Fault /\ \E ok \in BOOLEAN : manifest' = [manifest EXCEPT !.ok = ok]

\* The process dies in update_manifest or right after it.
ManifestCrash(leaf) ==
    ManifestFails \/ (manifest.ok /\ Fault /\ manifest' = [manifest EXCEPT !.leaf = leaf])

(***************************************************************************)
(* Create, open, crash.                                                     *)
(***************************************************************************)
\* create_with_id: the session.created event.
Create ==
    /\ pc = "creating"
    /\ \/ AppendAll(<<Event("created", 0)>>) /\ pc' = "idle"
       \/ AppendCut(<<Event("created", 0)>>) /\ pc' = "down"
    /\ UNCHANGED <<manifest, handle, tx, told, agreed, used>>

\* Mutant of RecoveryMarkers: every operation that did not commit is marked.
RecoveryMarkersAgain ==
    LET ops == Enumerate({op \in {log[i].op : i \in DOMAIN log} \ {0} :
                            op \notin CommittedLeaves(log)})
    IN [n \in DOMAIN ops |-> Recovered(ops[n])]

\* The events that apply_startup_recovery appends, in the order of the ids.
RecoveryMarkers ==
    LET ops == Enumerate(InDoubt(log))
    IN [n \in DOMAIN ops |-> Recovered(ops[n])]

\* Mutant of Open: no startup recovery.
OpenOnly ==
    /\ pc = "down"
    /\ manifest.ok
    /\ Readable
    /\ pc' = "idle" /\ handle' = manifest.leaf
    /\ UNCHANGED <<disk, tx, told, agreed, used>>

\* open, open_or_create, apply_startup_recovery.
Open ==
    /\ pc = "down"
    /\ manifest.ok
    /\ Readable
    /\ IF InDoubt(log) = {}
       THEN pc' = "idle" /\ handle' = manifest.leaf /\ UNCHANGED <<log, tail, faults>>
       ELSE /\ UNCHANGED handle
            /\ \/ AppendAll(RecoveryMarkers) /\ pc' = "recovering"
               \/ AppendCut(RecoveryMarkers) /\ pc' = "down"
    /\ UNCHANGED <<manifest, tx, told, agreed, used>>

\* apply_startup_recovery, update_manifest and the handle it opens anew.
OpenRecovered ==
    /\ pc = "recovering"
    /\ \/ WriteManifest(manifest.leaf) /\ pc' = "idle" /\ handle' = manifest.leaf
       \/ ManifestCrash(manifest.leaf) /\ pc' = "down" /\ UNCHANGED handle
    /\ UNCHANGED <<log, tail, tx, told, agreed, used>>

\* The process dies, or the session is closed, outside of a write.
Stop ==
    /\ pc \in {"idle", "open"}
    /\ pc' = "down"
    /\ tx' = NoTx
    /\ UNCHANGED <<disk, handle, told, agreed, used>>

(***************************************************************************)
(* Transactions.                                                            *)
(***************************************************************************)
\* begin_*_transaction, after a replay of the log.
Begin(of) ==
    /\ pc = "idle"
    /\ Readable
    /\ used.ops < MaxOperations
    /\ LET op == used.ops + 1
       IN /\ tx' = [NoTx EXCEPT !.op = op, !.of = of, !.pending = <<Started(op, of)>>]
          /\ used' = [used EXCEPT !.ops = op]
    /\ pc' = "open"
    /\ UNCHANGED <<disk, handle, told, agreed>>

Record(events) ==
    /\ tx' = [tx EXCEPT !.pending = @ \o events]
    /\ UNCHANGED <<disk, pc, handle, told, agreed, used>>

Items == {i \in 1..Len(tx.pending) : tx.pending[i].kind = "itemStarted"}

\* record_user_input.
RecordInput ==
    /\ pc = "open" /\ tx.of = "prompt"
    /\ Len(tx.pending) = 1
    /\ Record(<<Input(tx.op)>>)

\* start_assistant_message, record_tool_started.
StartItem ==
    /\ pc = "open" /\ tx.of = "prompt"
    /\ Len(tx.pending) > 1
    /\ Cardinality(Items) < MaxItems
    /\ LET n == Cardinality(Items) + 1
       IN tx' = [tx EXCEPT !.pending = Append(@, ItemStarted(<<tx.op, n>>)),
                           !.unsettled = @ \cup {n}]
    /\ UNCHANGED <<disk, pc, handle, told, agreed, used>>

\* complete_assistant_message, record_tool_completed, record_tool_failed.
CompleteItem ==
    /\ pc = "open"
    /\ \E n \in tx.unsettled :
        tx' = [tx EXCEPT !.pending = Append(@, ItemCompleted(<<tx.op, n>>)),
                         !.unsettled = @ \ {n}]
    /\ UNCHANGED <<disk, pc, handle, told, agreed, used>>

\* ManualCompactionContext: fails with nothing to compact, see Fail.
RecordCompaction ==
    /\ pc = "open" /\ tx.of = "compact" /\ ~tx.done
    /\ LET transcript == Replay(log).transcript
       IN /\ Len(Hydrated(transcript)) >= 2
          /\ \E keep \in (1..MaxOperations) \X (0..MaxItems) :
                /\ keep = FirstKept(transcript)
                /\ tx' = [tx EXCEPT !.pending = Append(@, Compacted(tx.op, keep)),
                                    !.done = TRUE]
    /\ UNCHANGED <<disk, pc, handle, told, agreed, used>>

\* BranchSummaryContext: a summary of the abandoned leaves, or a note that
\* there is nothing to summarize.
RecordSummary ==
    /\ pc = "open" /\ tx.of = "summary" /\ ~tx.done
    /\ \E source, target \in CommittedLeaves(log) :
        LET r == Replay(log)
            away == {l \in Elements(r.leaves) : l.leaf \in Abandoned(r.leaves, source, target)}
            empty == \A l \in away : Hydrated(RangeOf(r.transcript, l)) = <<>>
        IN tx' = [tx EXCEPT !.done = TRUE,
                            !.pending = Append(@, IF empty THEN Diagnostic(tx.op)
                                                  ELSE Summarized(tx.op, source, target))]
    /\ UNCHANGED <<disk, pc, handle, told, agreed, used>>

\* The transaction is gone; its caller has its answer.
Settle(result) ==
    /\ tx' = NoTx
    /\ told' = [told EXCEPT ![tx.op] = result]

\* Mutant of FlushCut: the error of the append is ignored.
FlushCutIgnored(events) ==
    /\ AppendCut(events)
    /\ pc' = "idle" /\ Settle("committed")
    /\ UNCHANGED <<manifest, handle, used>>

\* The append of a transaction: what fails is told as an error, a crash is not
\* told at all.
FlushCut(events) ==
    /\ AppendCut(events)
    /\ \/ pc' = "idle" /\ Settle("error")
       \/ pc' = "down" /\ tx' = NoTx /\ UNCHANGED told
    /\ UNCHANGED <<manifest, handle, used>>

\* The leaf that committing the transaction makes active.
NewLeaf == IF tx.of = "prompt" THEN tx.op ELSE 0

\* A prompt that succeeded has its input and no message or tool call open.
Complete ==
    /\ tx.of = "prompt" => Len(tx.pending) > 1 /\ tx.unsettled = {}
    /\ tx.of \in {"compact", "summary"} => tx.done

CommitEvents == Append(tx.pending, Committed(tx.op, NewLeaf))

\* Mutant of Commit: a prompt's manifest is written before its events.
CommitManifestFirst ==
    /\ pc = "open"
    /\ Complete
    /\ NewLeaf # 0 /\ manifest' = [manifest EXCEPT !.leaf = NewLeaf]
    /\ handle' = NewLeaf
    /\ \/ AppendAll(CommitEvents) /\ Settle("committed") /\ agreed' = TRUE
       \/ AppendCut(CommitEvents) /\ Settle("error") /\ agreed' = FALSE
    /\ pc' = "idle"
    /\ UNCHANGED used

\* TurnTransaction::commit, up to the append.
Commit ==
    /\ pc = "open"
    /\ Complete
    /\ \/ /\ AppendAll(CommitEvents)
          /\ pc' = "sealing"
          /\ tx' = [tx EXCEPT !.result = "committed", !.leaf = NewLeaf, !.pending = <<>>]
          /\ UNCHANGED <<manifest, handle, told, used, agreed>>
       \/ FlushCut(CommitEvents) /\ agreed' = (agreed /\ NewLeaf = 0)

\* cancel_open_lifecycle_events: in the order of a hash set, which replay does
\* not depend on.
Cancellations ==
    LET items == Enumerate(tx.unsettled)
    IN [n \in DOMAIN items |-> ItemCancelled(<<tx.op, items[n]>>)]

\* TurnTransaction::fail and abort: open messages and tool calls are cancelled.
EndEvents(marker) ==
    tx.pending \o Cancellations
               \o (IF marker = "failed" THEN <<Diagnostic(tx.op), Failed(tx.op)>>
                   ELSE <<Aborted(tx.op)>>)

\* fail_prompt_transaction also ends a compaction or a summary; an edit goes
\* through fail_non_leaf_transaction, which writes the manifest, too.
End(marker) ==
    /\ pc = "open"
    /\ marker = "aborted" => tx.of = "prompt"
    /\ \/ /\ AppendAll(EndEvents(marker))
          /\ IF tx.of = "edit"
             THEN /\ pc' = "sealing"
                  /\ tx' = [tx EXCEPT !.result = marker, !.pending = <<>>]
                  /\ UNCHANGED told
             ELSE pc' = "idle" /\ Settle(marker)
          /\ UNCHANGED <<manifest, handle, used>>
       \/ FlushCut(EndEvents(marker))
    /\ UNCHANGED agreed

Fail == End("failed")
Abort == End("aborted")

\* The leaf that update_manifest leaves in the manifest.
SealedLeaf == IF tx.leaf = 0 THEN manifest.leaf ELSE tx.leaf

\* update_manifest after the append, and the handle opened anew.
Seal ==
    /\ pc = "sealing"
    /\ WriteManifest(SealedLeaf)
    /\ handle' = SealedLeaf
    /\ Settle(tx.result)
    /\ pc' = "idle"
    /\ agreed' = (agreed \/ tx.leaf # 0)
    /\ UNCHANGED <<log, tail, used>>

\* A failed update is a PartialCommit, after fail_non_leaf_transaction a plain
\* error, and so is a handle that cannot be opened anew.
SealFails ==
    /\ pc = "sealing"
    /\ \/ /\ ManifestFails
          /\ Settle(IF tx.result = "committed" THEN "partial" ELSE "error")
       \/ /\ manifest.ok /\ Fault
          /\ manifest' = [manifest EXCEPT !.leaf = SealedLeaf]
          /\ Settle("error")
    /\ pc' = "idle"
    /\ agreed' = (agreed /\ tx.leaf = 0)
    /\ UNCHANGED <<log, tail, handle, used>>

SealCrash ==
    /\ pc = "sealing"
    /\ ManifestCrash(SealedLeaf)
    /\ pc' = "down"
    /\ tx' = NoTx
    /\ agreed' = (agreed /\ tx.leaf = 0)
    /\ UNCHANGED <<log, tail, handle, told, used>>

(***************************************************************************)
(* Leaves, profile, copies.                                                 *)
(***************************************************************************)
\* switch_active_leaf, up to the append.
Switch(leaf) ==
    /\ pc = "idle"
    /\ Readable
    /\ leaf \in CommittedLeaves(log)
    /\ used.switches < MaxSwitches
    /\ used' = [used EXCEPT !.switches = @ + 1]
    /\ \/ /\ AppendAll(<<LeafChanged(leaf)>>)
          /\ pc' = "switching"
          /\ tx' = [NoTx EXCEPT !.leaf = leaf]
          /\ UNCHANGED agreed
       \/ /\ AppendCut(<<LeafChanged(leaf)>>)
          /\ pc' \in {"idle", "down"}
          /\ UNCHANGED tx
          /\ agreed' = FALSE
    /\ UNCHANGED <<manifest, handle, told>>

\* switch_active_leaf, update_manifest and the handle opened anew, which fail or
\* in which the process dies.
SwitchSeal ==
    /\ pc = "switching"
    /\ \/ /\ WriteManifest(tx.leaf)
          /\ handle' = tx.leaf
          /\ pc' = "idle"
          /\ agreed' = TRUE
       \/ /\ ManifestCrash(tx.leaf)
          /\ pc' \in {"idle", "down"}
          /\ agreed' = FALSE
          /\ UNCHANGED handle
    /\ tx' = NoTx
    /\ UNCHANGED <<log, tail, told, used>>

\* set_default_agent_profile_id: a manifest write that leaves the leaf alone.
SetProfile ==
    /\ pc = "idle"
    /\ \/ WriteManifest(manifest.leaf) /\ handle' = manifest.leaf /\ UNCHANGED pc
       \/ ManifestCrash(manifest.leaf) /\ pc' \in {"idle", "down"} /\ UNCHANGED handle
    /\ UNCHANGED <<log, tail, tx, told, agreed, used>>

\* copy_to_new_session: the process goes on with the copy.  A copy that fails
\* is removed and the session stays as it is.
Fork(leaf) ==
    /\ pc = "idle"
    /\ Readable
    /\ leaf \in CommittedLeaves(log)
    /\ used.forks < MaxForks
    /\ used' = [used EXCEPT !.forks = @ + 1]
    /\ log' = CopiedEvents(log, leaf)
    /\ tail' = "clean"
    /\ manifest' = [leaf |-> leaf, ok |-> TRUE]
    /\ handle' = leaf
    /\ agreed' = TRUE
    /\ told' = [op \in DOMAIN told |->
                  IF \E i \in DOMAIN log' : log'[i].op = op THEN told[op] ELSE "none"]
    /\ UNCHANGED <<faults, pc, tx>>

Next ==
    \/ Create \/ Open \/ OpenRecovered \/ Stop
    \/ \E of \in Offered : Begin(of)
    \/ RecordInput \/ StartItem \/ CompleteItem \/ RecordCompaction \/ RecordSummary
    \/ Commit \/ Fail \/ Abort \/ Seal \/ SealFails \/ SealCrash
    \/ \E leaf \in 1..MaxOperations : Switch(leaf) \/ Fork(leaf)
    \/ SwitchSeal \/ SetProfile

Spec == Init /\ [][Next]_vars

(***************************************************************************)
(* Properties.                                                              *)
(***************************************************************************)
TypeOK ==
    /\ log \in Seq(Events)
    /\ tail \in {"clean", "open", "torn"}
    /\ manifest \in [leaf : Nat, ok : BOOLEAN]
    /\ pc \in Steps
    /\ handle \in Nat
    /\ tx \in [op : 0..MaxOperations, of : OperationKinds \cup {"none"}, pending : Seq(Events),
               unsettled : SUBSET (1..MaxItems), done : BOOLEAN, leaf : Nat, result : Results]
    /\ told \in [1..MaxOperations -> Results]
    /\ agreed \in BOOLEAN
    /\ faults \in 0..MaxFaults
    /\ used \in [ops : 0..MaxOperations, switches : 0..MaxSwitches, forks : 0..MaxForks]
    /\ (pc \in {"open", "sealing"}) = (tx.op # 0)

(* What commit_prompt_transaction and the other finalizers answered is what    *)
(* every later replay finds, through failed writes, crashes, recoveries and    *)
(* forks, for as long as the log can be read: a committed operation is         *)
(* committed, a failed or aborted one has that marker and no leaf.             *)
ToldIsDurable(r) ==
    Readable =>
        \A op \in DOMAIN told :
            told[op] \in {"committed", "partial", "aborted", "failed"} =>
                /\ op \in DOMAIN r.status
                /\ r.status[op] = IF told[op] = "partial" THEN "committed" ELSE told[op]
                /\ told[op] \in {"aborted", "failed"} =>
                        \A l \in Elements(r.leaves) : l.leaf # op

(* The leaf in session.json, and the one in memory, was committed by the log:  *)
(* fork, clone and tree start from it and would answer "leaf id not found".    *)
ManifestLeafCommitted ==
    /\ manifest.leaf \in {0} \cup CommittedLeaves(log)
    /\ handle \in {0} \cup CommittedLeaves(log)

(* An operation is finalized once: startup recovery never marks one that has   *)
(* its final marker, however often opening is cut short and repeated.          *)
OneFinalMarker ==
    \A i, j \in DOMAIN log :
        log[i].kind \in FinalMarkers /\ log[j].kind \in FinalMarkers /\ log[i].op = log[j].op
            => i = j

(* The status that replay folds for an operation is that of its final marker,  *)
(* wherever in the log recovery put it, and InDoubt exactly without one.       *)
StatusByMarker(status) ==
    /\ {op \in DOMAIN status : status[op] = "InDoubt"} = InDoubt(log)
    /\ \A i \in DOMAIN log :
            log[i].kind \in FinalMarkers => status[log[i].op] = log[i].kind

(* As long as no write of a leaf fails, manifest, memory and replay name the   *)
(* same active leaf whenever no operation is under way.                        *)
LeavesAgree(active) ==
    pc = "idle" /\ agreed /\ Readable =>
        /\ manifest.leaf = active
        /\ handle = manifest.leaf

(* The tree that build_leaf_tree draws from the raw events is the one that     *)
(* replay records, and following the parents from any leaf ends at the root    *)
(* (leaf_path_to_root meets neither a missing leaf nor a cycle).               *)
LeafForest(leaves) ==
    /\ LeafTree(log) = {[leaf |-> l.leaf, parent |-> l.parent] : l \in Elements(leaves)}
    /\ \A i \in DOMAIN leaves :
            leaves[i].parent \in {0} \cup {leaves[j].leaf : j \in 1..(i - 1)}

(* No message or tool call of an operation that ended, by commit, abort or     *)
(* failure, is replayed as still running.                                      *)
SettledLifecycles(r) ==
    \A x \in Elements(r.transcript) : x.st = "Started" => r.status[x.op] = "recovered"

(* Opening leaves no operation in doubt, whatever earlier processes left       *)
(* behind.                                                                     *)
OpenRecovers ==
    [][(pc \in {"down", "recovering"} /\ pc' = "idle") => (InDoubt(log') = {})]_vars

(* "The session log must never contain a normal-looking half-complete          *)
(* lifecycle as accepted final state": once a session is open, no transcript   *)
(* entry is half complete.                                                     *)
NoHalfLifecycle ==
    pc = "idle" => \A x \in Elements(Replay(log).transcript) : x.st # "Started"

(* The transcript range that replay records for a committed prompt holds the   *)
(* messages and tool calls of that prompt, all of them and no others, which is  *)
(* what a branch summary relies on, wherever switches, forks, failed and        *)
(* recovered operations fall.  Only for leaves committed after the last         *)
(* compaction: apply_compaction_completed moves entries and not the ranges.     *)
RangeIsOwn(r) ==
    LET Said(entries) == {x \in Elements(entries) : x.kind \in {"user", "item"}}
    IN \A l \in Elements(r.leaves) :
        (\A i \in DOMAIN log : log[i].kind = "compacted" => i < Cutoff(log, l.leaf))
            => Said(RangeOf(r.transcript, l)) = {x \in Said(r.transcript) : x.op = l.leaf}

(* What a caller was told of an operation, the status replay gives it and the    *)
(* messages and tool calls it opened agree with the log, whatever write failed    *)
(* and wherever the process died.                                                *)
LogSound ==
    /\ TypeOK
    /\ LET r == Replay(log)
       IN ToldIsDurable(r) /\ StatusByMarker(r.status) /\ SettledLifecycles(r)

(* Manifest, memory, replay and leaf tree agree on the leaves of a session, over  *)
(* switches, forks, failed commits and compactions.                              *)
LeavesSound ==
    LET r == Replay(log)
    IN LeavesAgree(r.active) /\ LeafForest(r.leaves) /\ RangeIsOwn(r)
=============================================================================
