---------------------------- MODULE UiTranscript -----------------------------
(***************************************************************************)
(* What the interactive interface shows: product events become interface    *)
(* events (UiProjection, CodingEventBridge), those change the items of the   *)
(* transcript, and the items are drawn through a cache of their lines and of *)
(* the number of their rows.  A text is the sequence of the numbers of the   *)
(* product events it came with, a row each; a drawn line is such a number,   *)
(* or a negative one for what drawing adds.                                  *)
(***************************************************************************)
EXTENDS Integers, FiniteSets, Sequences, SequencesExt, FiniteSetsExt

CONSTANTS
    UEvents,     \* product events that come, without their sequence
    UMaxEvents,  \* bound: product events
    UMaxResult,  \* MAX_TOOL_RESULT_LINES
    UMaxSteps    \* bound: scrolls, drawings and changes of the drawing

ASSUME UiTranscriptAssumption == {UMaxEvents, UMaxResult, UMaxSteps} \subseteq Nat

VARIABLES
    uItems,       \* Transcript.items with item_meta (id, rev)
    uScroll,      \* [offset, below]: scroll_offset, new_output_below
    uRev,         \* content_revision
    uCacheId,     \* cache_id of the transcript
    uNextId,      \* next_item_id
    uBlocks,      \* TranscriptRenderCache.blocks: set of [key, lines]
    uMeta,        \* row_metadata: [key -> metadata]
    uHide,        \* hide_thinking_block: the drawing profile
    uLast,        \* UiProjection.last_sequence
    uPending,     \* UiProjection.pending
    uSent,        \* history: the product events so far
    uSteps        \* bound

uVars == <<uItems, uScroll, uRev, uCacheId, uNextId, uBlocks, uMeta, uHide, uLast,
           uPending, uSent, uSteps>>
uCache == <<uBlocks, uMeta>>

----------------------------------------------------------------------------
(* Drawing: what an item's block is.                                         *)

\* render_user_message: a row above and below.
RenderUserMessage(item) == <<-1>> \o (IF item.text = <<>> THEN <<-1>> ELSE item.text) \o <<-1>>

\* render_assistant_message: nothing of nothing; thinking under a label, or only the label.
RenderAssistantMessage(item, hide) ==
    (IF item.think = <<>> THEN <<>> ELSE IF hide THEN <<-2>> ELSE <<-3>> \o item.think)
      \o (IF item.think # <<>> /\ item.text # <<>> THEN <<-1>> ELSE <<>>)
      \o item.text

\* render_error_message: at least one row.
RenderErrorMessage(item) == IF item.text = <<>> THEN <<-4>> ELSE item.text

\* render_tool_result_body: the head of a result, of bash its tail, of write all of it.
RenderToolResultBody(item) ==
    LET all == item.text
        n == IF item.name = "write" THEN Len(all) ELSE Min({UMaxResult, Len(all)})
    IN (IF item.name = "bash" THEN SubSeq(all, Len(all) - n + 1, Len(all)) ELSE SubSeq(all, 1, n))
         \o (IF n < Len(all) THEN <<-5>> ELSE <<>>)

\* render_edit_block: the whole diff.
RenderEditBlock(item) == IF item.has THEN item.text ELSE <<>>

\* render_tool_header: the state of the call.
RenderToolHeader(item) == IF ~item.has THEN -6 ELSE IF item.error THEN -7 ELSE -8

\* render_tool_block.
RenderToolBlock(item) ==
    <<RenderToolHeader(item)>> \o
        (IF item.name = "edit" THEN RenderEditBlock(item)
         ELSE IF item.has THEN RenderToolResultBody(item)
         ELSE IF item.name = "bash" THEN <<-9>> ELSE <<>>)

\* render_block.
RenderBlock(item, hide) ==
    CASE item.kind = "user" -> RenderUserMessage(item)
      [] item.kind = "system" -> item.text
      [] item.kind = "assistant" -> RenderAssistantMessage(item, hide)
      [] item.kind = "tool" -> RenderToolBlock(item)
      [] item.kind = "error" -> RenderErrorMessage(item)

----------------------------------------------------------------------------
(* TranscriptRenderCache.                                                    *)

BlockKey(item, hide) == [transcript |-> uCacheId, item |-> item.id, rev |-> item.rev, hide |-> hide]
Cached(blocks, key) == \E b \in blocks : b.key = key

\* The block of an item: from the cache if its key is there.
CachedBlock(blocks, item, hide) ==
    LET key == BlockKey(item, hide)
    IN IF Cached(blocks, key) THEN (CHOOSE b \in blocks : b.key = key)
       ELSE [key |-> key, lines |-> RenderBlock(item, hide)]

\* row_metadata_entry.
RowMetadataEntry(item, rows, before) ==
    LET visible == item.kind # "system" /\ rows > 0
    IN [id |-> item.id, rows |-> rows + (IF visible /\ before THEN 1 ELSE 0),
        visible |-> visible, separator |-> visible /\ before]

\* rebuild_row_metadata, and render_lines, which does the same and gives the lines.
RebuildRows(blocks, items, hide, rev) ==
    LET add(meta, item) ==
            LET entry == RowMetadataEntry(item, Len(CachedBlock(blocks, item, hide).lines), meta.visible)
            IN [meta EXCEPT !.total = @ + entry.rows, !.visible = @ \/ entry.visible,
                            !.entries = Append(@, entry)]
    IN FoldLeft(add, [rev |-> rev, total |-> 0, visible |-> FALSE, entries |-> <<>>], items)
UsedBlocks(blocks, items, hide) == {CachedBlock(blocks, items[i], hide) : i \in DOMAIN items}

MetaKey(hide) == [transcript |-> uCacheId, hide |-> hide]
Known(meta, key) == key \in DOMAIN meta
Put(meta, key, value) == [k \in DOMAIN meta \cup {key} |-> IF k = key THEN value ELSE meta[k]]

\* row_delta_since over the changed items, in order: an entry that is known keeps its
\* separator, a new one must be the next; else everything is counted again.
RowStep(acc, item, i, blocks, hide) ==
    LET meta == acc.meta
        old == i <= Len(meta.entries)
        before == IF old THEN meta.entries[i].separator ELSE meta.visible
        entry == RowMetadataEntry(item, Len(CachedBlock(blocks, item, hide).lines), before)
    IN IF \/ ~acc.ok
          \/ old /\ (meta.entries[i].id # item.id \/ meta.entries[i].visible # entry.visible)
          \/ ~old /\ i # Len(meta.entries) + 1
       THEN [acc EXCEPT !.ok = FALSE]
       ELSE [acc EXCEPT
               !.meta.total = @ + entry.rows - (IF old THEN meta.entries[i].rows ELSE 0),
               !.meta.visible = @ \/ entry.visible,
               !.meta.entries = IF old THEN [@ EXCEPT ![i] = entry] ELSE Append(@, entry)]

\* Mutant of RowDelta: only new items add rows, not those that grew.
RowDeltaOfNew(items, changed, blocks, before, rev) ==
    LET meta == RebuildRows(blocks, items, uHide, rev)
        new == SubSeq(meta.entries, Len(before.entries) + 1, Len(meta.entries))
    IN [meta |-> meta, added |-> FoldLeft(LAMBDA n, e : n + e.rows, 0, new),
        blocks |-> UsedBlocks(blocks, items, uHide)]

\* row_delta_since: the metadata of the snapshot brought up to date, or a new count (which
\* keeps only the blocks it used).
RowDelta(items, changed, blocks, before, rev) ==
    LET acc == FoldLeft(LAMBDA a, i : RowStep(a, items[i], i, blocks, uHide),
                        [ok |-> TRUE, meta |-> before], SetToSortSeq(changed, <))
        full == RebuildRows(blocks, items, uHide, rev)
    IN IF changed = {} \/ ~acc.ok
       THEN [meta |-> full, added |-> full.total - before.total,
             blocks |-> UsedBlocks(blocks, items, uHide)]
       ELSE [meta |-> [acc.meta EXCEPT !.rev = rev], added |-> acc.meta.total - before.total,
             blocks |-> blocks \cup {CachedBlock(blocks, items[i], uHide) : i \in changed}]

----------------------------------------------------------------------------
(* Transcript::apply_event_with_mutation.  t is [items, next, rev, changed].  *)

Item(kind, name, call, text) ==
    [kind |-> kind, name |-> name, call |-> call, text |-> text, think |-> <<>>,
     has |-> FALSE, error |-> FALSE, done |-> TRUE, id |-> 0, rev |-> 0]

\* push_with_index.
PushItem(t, item) ==
    [items |-> Append(t.items, [item EXCEPT !.id = t.next]), next |-> t.next + 1,
     rev |-> t.rev + 1, changed |-> t.changed \cup {Len(t.items) + 1}]

\* bump_item_revision, bump_content_revision.
Change(t, i, item) ==
    [t EXCEPT !.items[i] = [item EXCEPT !.rev = @ + 1], !.rev = @ + 1, !.changed = @ \cup {i}]

OpenAssistant(t) == {i \in DOMAIN t.items : t.items[i].kind = "assistant" /\ ~t.items[i].done}
ToolItem(t, call) == {i \in DOMAIN t.items : t.items[i].kind = "tool" /\ t.items[i].call = call}

\* close_open_assistant.
CloseOpenAssistant(t) ==
    IF OpenAssistant(t) = {} THEN t
    ELSE LET i == Max(OpenAssistant(t)) IN Change(t, i, [t.items[i] EXCEPT !.done = TRUE])

\* append_assistant_delta, append_assistant_thinking.
AppendAssistantDelta(t, text) ==
    IF OpenAssistant(t) = {} THEN PushItem(t, [Item("assistant", "", 0, text) EXCEPT !.done = FALSE])
    ELSE LET i == Max(OpenAssistant(t)) IN Change(t, i, [t.items[i] EXCEPT !.text = @ \o text])
AppendAssistantThinking(t, text) ==
    IF OpenAssistant(t) = {}
    THEN PushItem(t, [Item("assistant", "", 0, <<>>) EXCEPT !.think = text, !.done = FALSE])
    ELSE LET i == Max(OpenAssistant(t)) IN Change(t, i, [t.items[i] EXCEPT !.think = @ \o text])

\* mark_assistant_done: an empty item when none is open.
MarkAssistantDone(t) ==
    IF OpenAssistant(t) = {} THEN PushItem(t, Item("assistant", "", 0, <<>>)) ELSE CloseOpenAssistant(t)

\* update_tool, finish_tool: the first item of the call, if there is one.
UpdateTool(t, call, text) ==
    IF ToolItem(t, call) = {} THEN t
    ELSE LET i == Min(ToolItem(t, call))
         IN Change(t, i, [t.items[i] EXCEPT !.text = text, !.has = TRUE])
FinishTool(t, call, text, error) ==
    IF ToolItem(t, call) = {} THEN t
    ELSE LET i == Min(ToolItem(t, call))
         IN Change(t, i, [t.items[i] EXCEPT !.text = text, !.has = TRUE, !.error = error])

\* upsert_delegation_block: the call's block, which keeps its summary when there is no new one.
UpsertDelegationBlock(t, call, text, error) ==
    IF ToolItem(t, call) = {}
    THEN PushItem(CloseOpenAssistant(t), [Item("tool", "delegation", call, text)
                                        EXCEPT !.has = text # <<>>, !.error = error])
    ELSE LET i == Min(ToolItem(t, call))
         IN Change(t, i, [t.items[i] EXCEPT !.name = "delegation", !.error = error,
                            !.has = @ \/ text # <<>>, !.text = IF text = <<>> THEN @ ELSE text])

\* apply_event_with_mutation.
ApplyUiEvent(t, e) ==
    CASE e.is = "turn_started" -> CloseOpenAssistant(t)
      [] e.is = "assistant_delta" -> AppendAssistantDelta(t, e.text)
      [] e.is = "thinking_delta" -> AppendAssistantThinking(t, e.text)
      [] e.is = "assistant_done" -> MarkAssistantDone(t)
      [] e.is = "tool_started" -> PushItem(CloseOpenAssistant(t), Item("tool", e.name, e.call, <<>>))
      [] e.is = "tool_updated" -> UpdateTool(t, e.call, e.text)
      [] e.is = "tool_finished" -> FinishTool(t, e.call, e.text, e.error)
      [] e.is = "agent_error" -> PushItem(CloseOpenAssistant(t), Item("error", "", 0, e.text))
      [] e.is = "system_notice" -> PushItem(CloseOpenAssistant(t), Item("system", "", 0, e.text))
      [] e.is = "delegation_block" -> UpsertDelegationBlock(t, e.call, e.text, e.error)
      [] e.is = "compaction_notice" -> PushItem(t, Item("assistant", "", 0, e.text))
      [] e.is = "usage_update" -> t

----------------------------------------------------------------------------
(* CodingEventBridge: e is [is, call, name, rows] and its sequence gives the text. *)

Ui(is, e, text) == [is |-> is, call |-> e.call, name |-> e.name, text |-> text, error |-> FALSE]
IsDelegationTool(name) == name = "delegate"

\* The delegation events: the status of the block; one that starts has no summary.
HandleDelegation(e, text) ==
    [Ui("delegation_block", e, IF e.is = "delegation_started" THEN <<>> ELSE text)
       EXCEPT !.error = e.is \in {"delegation_rejected", "delegation_failed"}]

\* handle_typed.
HandleTyped(e, seq) ==
    LET text == [k \in 1..e.rows |-> seq]
    IN CASE e.is = "turn_started" -> <<Ui("turn_started", e, <<>>)>>
         [] e.is = "delta" -> <<Ui("assistant_delta", e, text)>>
         [] e.is = "thinking" -> <<Ui("thinking_delta", e, text)>>
         [] e.is = "message_completed" -> <<Ui("assistant_done", e, <<>>), Ui("usage_update", e, <<>>)>>
         [] e.is = "tool_started" ->
              IF IsDelegationTool(e.name) THEN <<Ui("delegation_block", e, <<>>)>>
              ELSE <<Ui("tool_started", e, <<>>)>>
         [] e.is = "tool_updated" -> <<Ui("tool_updated", e, text)>>
         [] e.is \in {"tool_completed", "tool_failed"} ->
              <<[Ui(IF IsDelegationTool(e.name) THEN "delegation_block" ELSE "tool_finished", e, text)
                   EXCEPT !.error = e.is = "tool_failed"]>>
         [] e.is = "compaction" -> <<Ui("compaction_notice", e, text), Ui("usage_update", e, <<>>)>>
         [] e.is \in {"prompt_failed", "prompt_aborted"} -> <<Ui("agent_error", e, text)>>
         [] e.is \in {"delegation_requested", "delegation_confirmation", "delegation_approved",
                      "delegation_rejected", "delegation_started", "delegation_completed",
                      "delegation_failed"} -> <<HandleDelegation(e, text)>>
         [] e.is \in {"self_healing", "recovered"} -> <<Ui("system_notice", e, text)>>
         [] OTHER -> <<>>

----------------------------------------------------------------------------
(* Actions.                                                                  *)

UiTranscriptInit ==
    /\ uItems = <<>>
    /\ uScroll = [offset |-> 0, below |-> FALSE]
    /\ uRev = 0 /\ uCacheId = 1 /\ uNextId = 0
    /\ uBlocks = {} /\ uMeta = << >>
    /\ uHide = FALSE
    /\ uLast = 0 /\ uPending = <<>> /\ uSent = <<>> /\ uSteps = 0

\* UiProjection::apply_product_event.
ApplyProductEvent(e, seq) ==
    IF seq <= uLast THEN UNCHANGED <<uLast, uPending>>
    ELSE uLast' = seq /\ uPending' = uPending \o HandleTyped(e, seq)

\* A product event comes; or one comes that has been delivered before (a replay that
\* overlaps the live events).
Deliver(e) ==
    /\ Len(uSent) < UMaxEvents
    /\ Len(uPending) < 3
    /\ uSent' = Append(uSent, e)
    /\ ApplyProductEvent(e, Len(uSent) + 1)
    /\ UNCHANGED <<uItems, uScroll, uRev, uCacheId, uNextId, uCache, uHide, uSteps>>
Redeliver(i) ==
    /\ uSteps < UMaxSteps /\ uSteps' = uSteps + 1
    /\ i \in DOMAIN uSent
    /\ ApplyProductEvent(uSent[i], i)
    /\ UNCHANGED <<uItems, uScroll, uRev, uCacheId, uNextId, uCache, uHide, uSent>>

\* row_snapshot: what is counted for this revision, or a new count.
RowSnapshot ==
    LET key == MetaKey(uHide)
    IN IF Known(uMeta, key) /\ uMeta[key].rev = uRev THEN [meta |-> uMeta[key], blocks |-> uBlocks]
       ELSE [meta |-> RebuildRows(uBlocks, uItems, uHide, uRev),
             blocks |-> UsedBlocks(uBlocks, uItems, uHide)]

\* InteractiveRoot::apply_events: while it is scrolled, the offset grows by the rows that
\* came (preserve_scrolled_view_after_hidden_change).
ApplyEvents ==
    LET t == FoldLeft(ApplyUiEvent, [items |-> uItems, next |-> uNextId, rev |-> uRev, changed |-> {}],
                      uPending)
        before == RowSnapshot
        delta == IF t.rev = uRev THEN [meta |-> before.meta, added |-> 0, blocks |-> before.blocks]
                 ELSE RowDelta(t.items, t.changed, before.blocks, before.meta, t.rev)
    IN /\ uPending # <<>>
       /\ uItems' = t.items /\ uNextId' = t.next /\ uRev' = t.rev
       /\ uPending' = <<>>
       /\ IF uScroll.offset = 0 THEN UNCHANGED <<uScroll, uCache>>
          ELSE /\ uScroll' = [offset |-> uScroll.offset + Max({0, delta.added}), below |-> TRUE]
               /\ uMeta' = Put(uMeta, MetaKey(uHide), delta.meta)
               /\ uBlocks' = delta.blocks
       /\ UNCHANGED <<uCacheId, uHide, uLast, uSent, uSteps>>

\* scroll_page_up, scroll_page_down.
ScrollPageUp ==
    /\ uSteps < UMaxSteps /\ uSteps' = uSteps + 1
    /\ uScroll' = [uScroll EXCEPT !.offset = @ + 2]
    /\ UNCHANGED <<uItems, uRev, uCacheId, uNextId, uCache, uHide, uLast, uPending, uSent>>
ScrollPageDown ==
    LET to == Max({0, uScroll.offset - 2})
    IN /\ uSteps < UMaxSteps /\ uSteps' = uSteps + 1
       /\ uScroll.offset > 0
       /\ uScroll' = [offset |-> to, below |-> uScroll.below /\ to # 0]
       /\ UNCHANGED <<uItems, uRev, uCacheId, uNextId, uCache, uHide, uLast, uPending, uSent>>

\* transcript_lines (render_lines): the blocks used stay in the cache, the rows are counted.
RenderLines ==
    /\ uSteps < UMaxSteps /\ uSteps' = uSteps + 1
    /\ uBlocks' = UsedBlocks(uBlocks, uItems, uHide)
    /\ uMeta' = Put(uMeta, MetaKey(uHide), RebuildRows(uBlocks, uItems, uHide, uRev))
    /\ UNCHANGED <<uItems, uScroll, uRev, uCacheId, uNextId, uHide, uLast, uPending, uSent>>

\* A setting changes the drawing; the cache is keyed by it.
ToggleThinking ==
    /\ uSteps < UMaxSteps /\ uSteps' = uSteps + 1
    /\ uHide' = ~uHide
    /\ UNCHANGED <<uItems, uScroll, uRev, uCacheId, uNextId, uCache, uLast, uPending, uSent>>

\* handle_new_command: a new transcript with its own cache id; the cache is not cleared.
NewTranscript ==
    /\ uSteps < UMaxSteps /\ uSteps' = uSteps + 1
    /\ uCacheId = 1 /\ uCacheId' = 2
    /\ uItems' = <<[Item("system", "", 0, <<-10>>) EXCEPT !.id = 0]>>
    /\ uNextId' = 1 /\ uRev' = 1
    /\ uScroll' = [offset |-> 0, below |-> FALSE]
    /\ UNCHANGED <<uCache, uHide, uLast, uPending, uSent>>

\* push_user: the user's message (Transcript::push).
PushUser ==
    /\ uSteps < UMaxSteps /\ uSteps' = uSteps + 1
    /\ LET t == PushItem([items |-> uItems, next |-> uNextId, rev |-> uRev, changed |-> {}],
                     Item("user", "", 0, <<-11>>))
       IN uItems' = t.items /\ uNextId' = t.next /\ uRev' = t.rev
    /\ uScroll' = IF uScroll.offset = 0 THEN uScroll ELSE [offset |-> uScroll.offset + 1, below |-> TRUE]
    /\ UNCHANGED <<uCacheId, uCache, uHide, uLast, uPending, uSent>>

UiTranscriptNext ==
    \/ \E e \in UEvents : Deliver(e)
    \/ \E i \in 1..UMaxEvents : Redeliver(i)
    \/ ApplyEvents \/ ScrollPageUp \/ ScrollPageDown \/ RenderLines \/ ToggleThinking
    \/ NewTranscript \/ PushUser

----------------------------------------------------------------------------
(* Properties.                                                               *)

\* What is drawn is what happened: a cached block is the drawing of its item, rows counted
\* for the present revision are those of a new count, however it was arrived at; at most
\* one message is open; no text is shown twice; and a call's item shows its last result.
ShownIsCurrent ==
    /\ \A i \in DOMAIN uItems, b \in uBlocks :
          b.key = BlockKey(uItems[i], b.key.hide) => b.lines = RenderBlock(uItems[i], b.key.hide)
    /\ \A key \in DOMAIN uMeta :
          key.transcript = uCacheId /\ uMeta[key].rev = uRev =>
             uMeta[key] = RebuildRows({}, uItems, key.hide, uRev)
    /\ Cardinality(OpenAssistant([items |-> uItems])) <= 1
    /\ \A i, j \in DOMAIN uItems :
          i # j => \A n \in (ToSet(uItems[i].text) \cap ToSet(uItems[j].text)) : n < 0
    /\ uPending = <<>> =>
          \A i \in DOMAIN uItems : uItems[i].kind = "tool" /\ uItems[i].has =>
             LET told == {n \in DOMAIN uSent : /\ uSent[n].call = uItems[i].call
                                              /\ HandleTyped(uSent[n], n)[1].text # <<>>}
             IN ToSet(uItems[i].text) = {Max(told)}

\* While the reader has scrolled up, events do not move the rows it sees: the distance
\* from the first row stays, unless there are fewer rows than before.
ViewHeld ==
    [][LET rows == RebuildRows({}, uItems, uHide, uRev).total
           rows2 == RebuildRows({}, uItems', uHide, uRev').total
       IN uPending # <<>> /\ uPending' = <<>> /\ uScroll.offset > 0 /\ uCacheId' = uCacheId
            /\ rows2 >= rows => rows2 - uScroll'.offset = rows - uScroll.offset]_uVars

\* The transcript is drawn as it is and held where the reader looks (transcript.rs,
\* render.rs), for every order of events, batches, scrolling and redraws.
TranscriptSound == []ShownIsCurrent /\ ViewHeld
=============================================================================
