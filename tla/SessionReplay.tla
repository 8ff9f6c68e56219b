--------------------------- MODULE SessionReplay ---------------------------
(***************************************************************************)
(* What the events of a session log mean: the replay that rebuilds a        *)
(* session (replay.rs), the leaf tree (session_service.rs), the branch that  *)
(* a branch summary covers (branch_summary_flow.rs) and the events that a    *)
(* clone or fork copies.  All are functions of the log, a sequence of events.*)
(*                                                                           *)
(* An operation is a positive number, and so is the leaf that a prompt       *)
(* commits: the number of its operation; 0 is no operation and no leaf.  An  *)
(* item is a transcript entry with an id: <<op, 0>> is the user input of the *)
(* turn of op, <<op, i>> its i-th assistant message or tool call.            *)
(***************************************************************************)
EXTENDS Naturals, Sequences, FiniteSets

NoItem == <<0, 0>>

\* SessionEventData, down to what replay looks at.
Event(kind, op) ==
    [kind |-> kind, op |-> op, of |-> "none", item |-> NoItem, leaf |-> 0, source |-> 0]
Started(op, of) == [Event("started", op) EXCEPT !.of = of]
Input(op) == [Event("input", op) EXCEPT !.item = <<op, 0>>]
ItemStarted(id) == [Event("itemStarted", id[1]) EXCEPT !.item = id]
ItemCompleted(id) == [Event("itemCompleted", id[1]) EXCEPT !.item = id]
ItemCancelled(id) == [Event("itemCancelled", id[1]) EXCEPT !.item = id]
Diagnostic(op) == Event("diagnostic", op)
Compacted(op, keep) == [Event("compacted", op) EXCEPT !.item = keep]
Summarized(op, source, target) ==
    [Event("summarized", op) EXCEPT !.leaf = target, !.source = source]
Committed(op, leaf) == [Event("committed", op) EXCEPT !.leaf = leaf]
Aborted(op) == Event("aborted", op)
Failed(op) == Event("failed", op)
Recovered(op) == Event("recovered", op)
LeafChanged(leaf) == [Event("leafChanged", 0) EXCEPT !.leaf = leaf]

FinalMarkers == {"committed", "aborted", "failed", "recovered"}
EventKinds == FinalMarkers \cup
    {"created", "forked", "started", "input", "itemStarted", "itemCompleted",
     "itemCancelled", "diagnostic", "compacted", "summarized", "leafChanged"}
OperationKinds == {"prompt", "compact", "summary", "edit"}
Events == [kind : EventKinds, op : Nat, of : OperationKinds \cup {"none"},
           item : Nat \X Nat, leaf : Nat, source : Nat]

\* The elements of a finite set of numbers in increasing order.
Enumerate(S) ==
    [n \in 1..Cardinality(S) |-> CHOOSE x \in S : Cardinality({y \in S : y <= x}) = n]

Put(f, x, y) == [z \in DOMAIN f \cup {x} |-> IF z = x THEN y ELSE f[z]]

(***************************************************************************)
(* Replay.                                                                  *)
(***************************************************************************)
\* finalized_operation_ids.
Finalized(log) == {log[i].op : i \in {j \in DOMAIN log : log[j].kind \in FinalMarkers}}

\* ReplayBuilder: leaves in commit order with their transcript range, statuses
\* and kinds per operation.
EmptyReplay ==
    [active |-> 0, transcript |-> <<>>, leaves |-> <<>>,
     status |-> <<>>, kinds |-> <<>>, starts |-> <<>>]

\* observe_operation_status.
ObserveStatus(status, e) ==
    CASE e.kind = "started" /\ e.op \notin DOMAIN status -> Put(status, e.op, "InDoubt")
      [] e.kind \in FinalMarkers -> Put(status, e.op, e.kind)
      [] OTHER -> status

Entry(kind, op, id, st) == [kind |-> kind, op |-> op, id |-> id, st |-> st]

\* complete_message, set_message_status, set_tool_status: an item that is not
\* in the transcript is only warned about.
SetItem(transcript, id, st) ==
    [i \in DOMAIN transcript |->
        IF transcript[i].id = id /\ transcript[i].kind = "item"
        THEN [transcript[i] EXCEPT !.st = st] ELSE transcript[i]]

\* apply_compaction_completed: what precedes the kept item becomes one summary.
Compact(transcript, op, keep) ==
    LET at == {i \in DOMAIN transcript : transcript[i].id = keep}
        first == CHOOSE i \in at : \A j \in at : i <= j
    IN IF at = {} THEN transcript
       ELSE <<Entry("compaction", op, NoItem, "Completed")>>
                \o SubSeq(transcript, first, Len(transcript))

\* record_prompt_leaf: the parent is the leaf that was active at the commit.
RecordLeaf(r, e) ==
    IF r.kinds[e.op] = "prompt"
    THEN Append(r.leaves, [leaf |-> e.leaf, parent |-> r.active,
                           first |-> r.starts[e.op] + 1, last |-> Len(r.transcript)])
    ELSE r.leaves

\* apply_event.
ApplyEvent(r, e) ==
    CASE e.kind = "started" ->
            [r EXCEPT !.kinds = Put(@, e.op, e.of), !.starts = Put(@, e.op, Len(r.transcript))]
      [] e.kind = "input" ->
            [r EXCEPT !.transcript = Append(@, Entry("user", e.op, e.item, "Completed"))]
      [] e.kind = "itemStarted" ->
            [r EXCEPT !.transcript = Append(@, Entry("item", e.op, e.item, "Started"))]
      [] e.kind = "itemCompleted" ->
            [r EXCEPT !.transcript = SetItem(@, e.item, "Completed")]
      [] e.kind = "itemCancelled" ->
            [r EXCEPT !.transcript = SetItem(@, e.item, "Cancelled")]
      [] e.kind = "diagnostic" ->
            [r EXCEPT !.transcript = Append(@, Entry("diagnostic", e.op, NoItem, "Completed"))]
      [] e.kind = "compacted" ->
            [r EXCEPT !.transcript = Compact(@, e.op, e.item)]
      [] e.kind = "summarized" ->
            [r EXCEPT !.transcript = Append(@, Entry("summary", e.op, NoItem, "Completed"))]
      [] e.kind = "committed" /\ e.leaf # 0 ->
            [r EXCEPT !.leaves = RecordLeaf(r, e), !.active = e.leaf]
      [] e.kind = "leafChanged" -> [r EXCEPT !.active = e.leaf]
      [] OTHER -> r

\* fold_events: an operation without a final marker only leaves its status.
Replay(log) ==
    LET final == Finalized(log)
        fold[i \in 0..Len(log)] ==
            IF i = 0 THEN EmptyReplay
            ELSE LET e == log[i]
                     r == [fold[i - 1] EXCEPT !.status = ObserveStatus(@, e)]
                 IN IF e.op = 0 \/ e.op \in final THEN ApplyEvent(r, e) ELSE r
    IN fold[Len(log)]

\* recovery_summary: started and not finalized, see StatusByMarker.
InDoubt(log) ==
    {log[i].op : i \in {j \in DOMAIN log : log[j].kind = "started"}} \ Finalized(log)

Elements(s) == {s[i] : i \in DOMAIN s}

\* hydrate_agent_runtime: the items that become messages of the agent.
Hydrated(transcript) ==
    SelectSeq(transcript, LAMBDA x : x.kind # "diagnostic" /\ x.st = "Completed")

\* select_compaction_range: the last item that has an id is kept.
FirstKept(transcript) ==
    LET named == {i \in DOMAIN transcript : transcript[i].id # NoItem}
    IN IF named = {} THEN NoItem
       ELSE transcript[CHOOSE i \in named : \A j \in named : i >= j].id

(***************************************************************************)
(* Leaves.                                                                  *)
(***************************************************************************)
\* committed_leaf_cutoff: where the leaf was committed, 0 when it was not.
Cutoff(log, leaf) ==
    LET at == {i \in DOMAIN log : log[i].kind = "committed" /\ log[i].leaf = leaf}
    IN IF at = {} THEN 0 ELSE CHOOSE i \in at : \A j \in at : i <= j

CommittedLeaves(log) ==
    {log[i].leaf : i \in {j \in DOMAIN log : log[j].kind = "committed"}} \ {0}

\* Mutant of TreeParent: going back to an older leaf does not change the parent.
TreeParentIgnoresSwitch(parent, e) ==
    IF e.kind = "committed" /\ e.leaf # 0 THEN e.leaf ELSE parent

\* build_leaf_tree, current_parent_leaf_id.
TreeParent(parent, e) ==
    IF e.kind = "leafChanged" \/ (e.kind = "committed" /\ e.leaf # 0) THEN e.leaf ELSE parent

\* build_leaf_tree: each leaf with its parent; the tree does not replay.
LeafTree(log) ==
    LET parent[i \in 0..Len(log)] == IF i = 0 THEN 0 ELSE TreeParent(parent[i - 1], log[i])
    IN {[leaf |-> log[i].leaf, parent |-> parent[i - 1]] :
            i \in {j \in DOMAIN log : log[j].kind = "committed" /\ log[j].leaf # 0}}

\* leaf_path_to_root, as a set: a leaf and its ancestors.
PathToRoot(leaves, leaf) ==
    LET parent(x) == (CHOOSE l \in Elements(leaves) : l.leaf = x).parent
        path[x \in {0} \cup {l.leaf : l \in Elements(leaves)}] ==
            IF x = 0 THEN {} ELSE {x} \cup path[parent(x)]
    IN path[leaf]

\* abandoned_leaf_path: what is left behind going from source to target.
Abandoned(leaves, source, target) ==
    PathToRoot(leaves, source) \ PathToRoot(leaves, target)

\* transcript_for_leaves: the entries in the recorded range of one leaf.
RangeOf(transcript, l) == SubSeq(transcript, l.first, IF l.last <= Len(transcript)
                                                     THEN l.last ELSE Len(transcript))

\* copy_to_new_session: everything up to the commit of the leaf, and what later
\* operations summarized into it.
CopiedEvents(log, leaf) ==
    LET cut == Cutoff(log, leaf)
        summaries == {log[i].op : i \in {j \in DOMAIN log :
                        j > cut /\ log[j].kind = "summarized" /\ log[j].leaf = leaf}}
        kept == Enumerate({i \in DOMAIN log :
                    /\ i <= cut \/ log[i].op \in summaries
                    /\ log[i].kind \notin {"created", "forked"}})
    IN <<Event("created", 0), Event("forked", 0)>> \o [n \in DOMAIN kept |-> log[kept[n]]]
=============================================================================
