-------------------------- MODULE RuntimeCompaction --------------------------
(***************************************************************************)
(* How the agent loop shortens its context before a provider request         *)
(* (pi-agent-core/src/compaction).  A message is a record; what it weighs in *)
(* tokens depends on its kind only.                                          *)
(***************************************************************************)
EXTENDS Integers, Sequences, FiniteSetsExt

CONSTANTS
    Weight,         \* estimated tokens of a message, by kind
    ContextWindow,  \* model.context_window; 0 never compacts
    ReserveTokens,  \* CompactionSettings.reserve_tokens
    KeepRecent      \* CompactionSettings.keep_recent_tokens

(* UserText has three origins; "reply" is an assistant message; "result" is   *)
(* the result of one tool call of a reply; "summary" is a CompactionSummary.  *)
MessageKinds == {"prompt", "steer", "follow", "reply", "result", "summary"}

Stops == {"stop", "length", "tool_use", "error", "aborted", "none"}

ASSUME CompactionAssumption ==
    /\ Weight \in [MessageKinds -> Nat]
    /\ ContextWindow \in Nat /\ ReserveTokens \in Nat /\ KeepRecent \in Nat

(* id: of a text, or of a reply, or of the reply whose call pos a result      *)
(* answers; calls, stop, usage and run describe a reply.                      *)
Message(kind, id, pos, calls, stop, usage, run) ==
    [kind |-> kind, id |-> id, pos |-> pos, calls |-> calls, stop |-> stop,
     usage |-> usage, run |-> run]

Text(kind, id) == Message(kind, id, 0, 0, "none", 0, 0)
Result(id, pos) == Message("result", id, pos, 0, "none", 0, 0)
Summary == Message("summary", 0, 0, 0, "none", 0, 0)

EstimateTokens(ms, from, to) == MapThenSumSet(LAMBDA i : Weight[ms[i].kind], from..to)

(* The newest reply that reports a usage and did not fail.                    *)
UsageAnchors(ms) ==
    {i \in 1..Len(ms) : ms[i].kind = "reply" /\ ms[i].stop \notin {"error", "aborted"} /\ ms[i].usage > 0}

LastUsage(ms) == IF UsageAnchors(ms) = {} THEN 0 ELSE Max(UsageAnchors(ms))

EstimateContextTokens(ms) ==
    LET anchor == LastUsage(ms)
    IN  (IF anchor = 0 THEN 0 ELSE ms[anchor].usage) + EstimateTokens(ms, anchor + 1, Len(ms))

ShouldCompact(ms) ==
    /\ ContextWindow > 0
    /\ EstimateContextTokens(ms) > IF ReserveTokens < ContextWindow THEN ContextWindow - ReserveTokens ELSE 0

Everything(ms) == [old |-> <<>>, keep |-> ms]

(* Walks back from the end: skips results until a message is kept, keeps that *)
(* one whatever it weighs, then keeps while the budget lasts.                 *)
PrepareCompaction(ms) ==
    LET ends == {i \in 1..Len(ms) : ms[i].kind # "result"}
        last == Max(ends)
        first == Min({last} \cup {i \in 1..last : EstimateTokens(ms, i, last) <= KeepRecent})
    IN  IF EstimateTokens(ms, 1, Len(ms)) <= ReserveTokens + KeepRecent THEN Everything(ms)
        ELSE IF ends = {} THEN [old |-> <<>>, keep |-> <<>>]
        ELSE [old |-> SubSeq(ms, 1, first - 1), keep |-> SubSeq(ms, first, last)]

(* Everything up to the anchor and the results behind it.                     *)
SplitAfterAnchor(ms, anchor) ==
    LET after == {i \in (anchor + 1)..Len(ms) : ms[i].kind # "result"}
        split == IF after = {} THEN Len(ms) ELSE Min(after) - 1
    IN  IF anchor = 0 THEN Everything(ms)
        ELSE [old |-> SubSeq(ms, 1, split), keep |-> SubSeq(ms, split + 1, Len(ms))]

Split(ms) ==
    LET prepared == PrepareCompaction(ms)
    IN  IF prepared.old # <<>> THEN prepared ELSE SplitAfterAnchor(ms, LastUsage(ms))

NeedsCompaction(ms) == ShouldCompact(ms) /\ Split(ms).old # <<>>

(* The kept replies lose their usage: it counted what is now a summary.       *)
Compacted(ms) ==
    <<Summary>> \o [i \in 1..Len(Split(ms).keep) |-> [Split(ms).keep[i] EXCEPT !.usage = 0]]
==============================================================================
