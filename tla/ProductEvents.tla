---- MODULE ProductEvents ----
(* The events of one root operation on their way out: the agent's events become coding events
   (event_service.rs), product events (event.rs, public_event.rs) and lines of the JSON
   protocol (protocol/events.rs), read from a bounded broadcast channel while the operation
   still runs (protocol/json_mode.rs). Print mode opens a session the same way and shows the
   outcome only. An event carries its kind, the operation it belongs to and a piece of text. *)
EXTENDS Integers, SequencesExt, FiniteSetsExt
CONSTANTS
    JMaxTurns,      \* turns of one agent run
    JCapacity       \* capacity of the broadcast channel
ASSUME JsonAssumption == JMaxTurns \in Nat \ {0} /\ JCapacity \in Nat \ {0}

VARIABLES
    jMode,          \* "json" or "print"
    jRefused,       \* the session could not be opened
    jOperation,     \* kind of the root operation
    jScript,        \* what the operation will still emit
    jLog,           \* what it emitted
    jChannel,       \* events the receiver has not read
    jLagged,        \* the receiver was overtaken
    jOutcome,       \* "running" or how the operation ended
    jAdapter,       \* CodingProtocolEventAdapter
    jLines,         \* protocol events written to stdout
    jExit           \* "running", or the outcome reported by the exit code
jVars == <<jMode, jRefused, jOperation, jScript, jLog, jChannel, jLagged, jOutcome, jAdapter, jLines, jExit>>

Event(kind, op, text) == [kind |-> kind, op |-> op, text |-> text]
----
(* The events of an agent run, one message and its tool calls per turn. *)
Agent(kind, text) == [kind |-> kind, text |-> text]
Replies == {<<Agent("start", ""), Agent("text_start", ""), Agent("text_delta", "x"), Agent("done", "x")>>,
            <<Agent("start", ""), Agent("thinking_start", ""), Agent("thinking_delta", "y"), Agent("text_delta", "x"),
              Agent("toolcall_end", ""), Agent("done", "x")>>,
            <<Agent("start", ""), Agent("done", "")>>}
Tools == {<<Agent("tool_start", "t"), Agent("tool_update", "t"), Agent("tool_end", "t")>>,
          <<Agent("tool_start", "t"), Agent("tool_error", "t")>>,
          <<Agent("tool_start", "t"), Agent("tool_rejected", "t")>>,
          <<Agent("tool_start", "t"), Agent("tool_requested", "t"), Agent("compacted", "")>>}
Turn(reply, tools) == <<Agent("turn_start", ""), Agent("provider_request", "")>> \o reply \o tools
Runs == LET AfterTools[n \in 1..JMaxTurns] ==
              IF n = 1 THEN {Turn(r, <<>>) : r \in Replies}
              ELSE {Turn(r, <<>>) : r \in Replies} \cup {Turn(r, t) \o rest : r \in Replies, t \in Tools, rest \in AfterTools[n - 1]}
        IN AfterTools[JMaxTurns]
\* A run that fails stops in the middle of a message, and says so twice.
FirstDone(run) == SelectInSeq(run, LAMBDA e : e.kind = "done")
FailedRun(run) == SubSeq(run, 1, FirstDone(run) - 1) \o <<Agent("error", ""), Agent("agent_error", "")>>
----
MapAssistantEvent(e, op) ==
    CASE e.kind \in {"start", "text_start", "thinking_start"} -> <<Event("AssistantMessageStarted", op, "")>>
      [] e.kind = "text_delta" -> <<Event("AssistantMessageDelta", op, e.text)>>
      [] e.kind = "thinking_delta" -> <<Event("AssistantThinkingDelta", op, e.text)>>
      [] e.kind = "error" -> <<Event("PromptFailed", op, "provider")>>
      [] e.kind = "done" -> <<Event("AssistantMessageCompleted", op, e.text)>>
      [] e.kind = "toolcall_end" -> <<>>
\* A delegation tool that answers with a request or a rejection is followed by that.
MapDelegationToolEvent(e, op) ==
    CASE e.kind = "tool_requested" -> <<Event("DelegationRequested", op, e.text)>>
      [] e.kind = "tool_rejected"  -> <<Event("DelegationRejected", op, e.text)>>
      [] OTHER                     -> <<>>
MapAgentEvent(e, op) ==
    CASE e.kind = "turn_start" -> <<Event("AgentTurnStarted", op, "")>>
      [] e.kind = "provider_request" -> <<Event("ProviderRequestStarted", op, "")>>
      [] e.kind = "tool_start" -> <<Event("ToolCallStarted", op, e.text)>>
      [] e.kind = "tool_update" -> <<Event("ToolCallUpdated", op, e.text)>>
      [] e.kind = "tool_error" -> <<Event("ToolCallFailed", op, e.text)>>
      [] e.kind \in {"tool_end", "tool_requested", "tool_rejected"} -> <<Event("ToolCallCompleted", op, e.text)>> \o MapDelegationToolEvent(e, op)
      [] e.kind = "agent_error" -> <<Event("PromptFailed", op, "provider")>>
      [] e.kind = "compacted" -> <<Event("RuntimeCompactionCompleted", op, "")>>
      [] OTHER -> MapAssistantEvent(e, op)
\* Mutant of LiveEvents: a failure the agent reports is emitted like any other event.
LiveEventsWithOutcome(run, op) == FlattenSeq([i \in DOMAIN run |-> MapAgentEvent(run[i], op)])
IsPromptOutcome(e) == e.kind \in {"PromptCompleted", "PromptFailed", "PromptAborted"}
\* The outcome of a prompt is told once, when the operation knows it.
LiveEvents(run, op) == SelectSeq(FlattenSeq([i \in DOMAIN run |-> MapAgentEvent(run[i], op)]), LAMBDA e : ~IsPromptOutcome(e))

PromptOutcome(outcome, op) ==
    CASE outcome = "completed" -> <<Event("Diagnostic", op, ""), Event("PromptCompleted", op, "")>>
      [] outcome = "failed" -> <<Event("Diagnostic", op, ""), Event("PromptFailed", op, "provider")>>
      [] outcome = "aborted" -> <<Event("PromptAborted", op, "abort")>>
SessionWrites(op, ok) == <<Event("SessionWritePending", op, ""), Event(IF ok THEN "SessionWriteCommitted" ELSE "SessionWriteSkipped", op, "")>>
RunOf(run, outcome, n) == CASE outcome = "completed" -> run [] outcome = "failed" -> FailedRun(run) [] outcome = "aborted" -> SubSeq(run, 1, Min({n, Len(run)}))
\* The prompt of a child: its agent's events and its outcome under the child's id.
ChildPrompt(run, outcome) == LiveEvents(RunOf(run, outcome, 5), "child")
    \o (IF outcome = "completed" THEN <<Event("PromptCompleted", "child", "")>>
        ELSE <<Event(IF outcome = "failed" THEN "PromptFailed" ELSE "PromptAborted", "child", "provider")>>)
InvocationEnd(outcome) == Event(CASE outcome = "completed" -> "AgentInvocationCompleted" [] outcome = "failed" -> "AgentInvocationFailed"
                                  [] outcome = "aborted" -> "AgentInvocationAborted", "root", "")
TeamEnd(outcome) == Event(CASE outcome = "completed" -> "AgentTeamCompleted" [] outcome = "failed" -> "AgentTeamFailed"
                            [] outcome = "aborted" -> "AgentTeamAborted", "root", "")
PromptScripts(outcome) ==
    {<<Event("PromptStarted", "root", "")>> \o LiveEvents(RunOf(run, outcome, n), "root") \o SessionWrites("root", outcome = "completed")
       \o PromptOutcome(outcome, "root") : run \in Runs, n \in 1..6}
RequestingRuns == {r \in Runs : \E i \in DOMAIN r : r[i].kind = "tool_requested"}
\* A prompt whose delegation is not run, or not yet.
DelegationHeld(decided) ==
    {<<Event("PromptStarted", "root", "")>> \o LiveEvents(run, "root") \o <<Event(decided, "root", "")>>
       \o SessionWrites("root", TRUE) \o PromptOutcome("completed", "root") : run \in RequestingRuns}
\* A prompt whose delegation runs: the child's events come before the prompt's own outcome.
DelegatingScripts(child) ==
    {<<Event("PromptStarted", "root", "")>> \o LiveEvents(run, "root")
       \o <<Event("DelegationApproved", "root", ""), Event("DelegationStarted", "root", "")>> \o ChildPrompt(run, child)
       \o <<Event(IF child = "completed" THEN "DelegationCompleted" ELSE "DelegationFailed", "root", "")>>
       \o SessionWrites("root", TRUE) \o PromptOutcome("completed", "root") : run \in RequestingRuns}
InvocationScripts(outcome) ==
    {<<Event("AgentInvocationStarted", "root", "")>> \o ChildPrompt(run, outcome) \o <<InvocationEnd(outcome)>> : run \in Runs}
TeamScripts(outcome) ==
    {<<Event("AgentTeamStarted", "root", ""), Event("AgentTeamMemberStarted", "root", "")>> \o ChildPrompt(run, outcome)
       \o (IF outcome = "completed" THEN <<Event("AgentTeamMemberCompleted", "root", "")>> ELSE <<>>) \o <<TeamEnd(outcome)>> : run \in Runs}
EditScripts(outcome) ==
    IF outcome = "aborted" THEN {}
    ELSE {<<Event("SelfHealingEditStarted", "root", "")>> \o [i \in 1..n |-> Event("SelfHealingEditRepairAttempted", "root", "")]
            \o <<Event(IF outcome = "completed" THEN "SelfHealingEditCompleted" ELSE "SelfHealingEditFailed", "root", "")>> : n \in 0..1}
CompactionScripts(outcome) ==
    CASE outcome = "completed" -> {<<Event("SessionWritePending", "root", ""), Event("SessionCompactionCompleted", "root", ""),
                                    Event("SessionWriteCommitted", "root", "")>> \o PromptOutcome("completed", "root")}
      [] outcome = "failed" -> {SessionWrites("root", FALSE) \o PromptOutcome("failed", "root")}
      [] outcome = "aborted" -> {}
Scripts(operation, outcome) ==
    CASE operation = "prompt" -> PromptScripts(outcome)
      [] operation = "delegating" -> IF outcome = "completed"
                                     THEN DelegatingScripts("completed") \cup DelegatingScripts("failed")
                                          \cup DelegationHeld("DelegationRejected")
                                          \cup DelegationHeld("DelegationConfirmationRequired")
                                     ELSE {}
      [] operation = "invocation" -> InvocationScripts(outcome)
      [] operation = "team" -> TeamScripts(outcome)
      [] operation = "edit" -> EditScripts(outcome)
      [] operation = "compact" -> CompactionScripts(outcome)
----
(* What a product event says besides its kind. *)
TerminalStatus(e) ==
    CASE e.kind \in {"AgentInvocationCompleted", "AgentTeamCompleted", "SelfHealingEditCompleted", "DelegationCompleted",
                     "SessionWriteCommitted", "SessionCompactionCompleted", "PromptCompleted", "ToolCallCompleted"} -> "completed"
      [] e.kind \in {"AgentInvocationFailed", "AgentTeamFailed", "SelfHealingEditFailed", "DelegationFailed", "PromptFailed", "ToolCallFailed"} -> "failed"
      [] e.kind \in {"AgentInvocationAborted", "AgentTeamAborted", "PromptAborted"} -> "aborted"
      [] OTHER -> "none"
Durability(e) == CASE e.kind = "SessionWritePending" -> "pending" [] e.kind = "SessionWriteCommitted" -> "durable" [] OTHER -> "live"
\* The kind of operation an event ends, if it ends one.
TerminalOperation(e) ==
    CASE IsPromptOutcome(e) -> "prompt"
      [] e.kind \in {"AgentInvocationCompleted", "AgentInvocationFailed", "AgentInvocationAborted"} -> "invocation"
      [] e.kind \in {"AgentTeamCompleted", "AgentTeamFailed", "AgentTeamAborted"} -> "team"
      [] e.kind \in {"SelfHealingEditCompleted", "SelfHealingEditFailed"} -> "edit"
      [] e.kind = "SessionCompactionCompleted" -> "compact"
      [] OTHER -> "none"
AgentKinds == {"AgentInvocationStarted", "AgentInvocationCompleted", "AgentInvocationFailed", "AgentInvocationAborted",
               "AgentTurnStarted", "ProviderRequestStarted"}
TeamKinds == {"AgentTeamStarted", "AgentTeamMemberStarted", "AgentTeamMemberCompleted", "AgentTeamCompleted", "AgentTeamFailed", "AgentTeamAborted"}
MessageKinds == {"AssistantMessageStarted", "AssistantMessageDelta", "AssistantThinkingDelta", "AssistantMessageCompleted"}
ToolKinds == {"ToolCallStarted", "ToolCallUpdated", "ToolCallCompleted", "ToolCallFailed"}
SessionKinds == {"SessionWritePending", "SessionWriteCommitted", "SessionWriteSkipped", "SessionCompactionCompleted"}
DelegationKinds == {"DelegationRequested", "DelegationRejected", "DelegationConfirmationRequired", "DelegationApproved", "DelegationStarted", "DelegationCompleted", "DelegationFailed"}
EditKinds == {"SelfHealingEditStarted", "SelfHealingEditRepairAttempted", "SelfHealingEditCompleted", "SelfHealingEditFailed"}
\* The family and the name a client reads; the name alone does not tell the families apart.
Family(kind) ==
    CASE kind \in AgentKinds -> "agent" [] kind \in TeamKinds -> "team" [] kind \in MessageKinds -> "message"
      [] kind \in ToolKinds -> "tool" [] kind \in SessionKinds -> "session" [] kind \in DelegationKinds -> "delegation"
      [] kind \in EditKinds \cup {"PromptStarted", "PromptCompleted", "PromptFailed", "PromptAborted"} -> "workflow"
      [] kind = "RuntimeCompactionCompleted" -> "runtime" [] kind = "Diagnostic" -> "diagnostic"
----
(* The protocol adapter: it keeps the open message, the tool results of the turn and every
   message of the run. *)
NoMessage == [content |-> <<>>, error |-> "none", present |-> FALSE]
NewAdapter == [messages |-> <<>>, current |-> NoMessage, results |-> <<>>, open |-> FALSE]
Line(type, message) == [type |-> type, message |-> message]
EnsureAssistant(a) == [a.current EXCEPT !.present = TRUE]
\* Text of one kind goes on in the last block of that kind, or starts a block.
AppendContent(content, kind, text) ==
    IF content # <<>> /\ Last(content).type = kind
    THEN [content EXCEPT ![Len(content)].text = @ \o <<text>>] ELSE Append(content, [type |-> kind, text |-> <<text>>])
MessageStart(a, message) == IF a.open THEN <<>> ELSE <<Line("message_start", message)>>
PushDelta(a, kind, text) ==
    LET message == [EnsureAssistant(a) EXCEPT !.content = AppendContent(@, kind, text)]
    IN [adapter |-> [a EXCEPT !.current = message, !.open = TRUE],
        lines |-> MessageStart(a, message) \o <<Line("message_update", message)>>]
PushStarted(a) == [adapter |-> [a EXCEPT !.current = EnsureAssistant(a), !.open = TRUE], lines |-> MessageStart(a, EnsureAssistant(a))]
\* The final text only counts when nothing was streamed.
PushCompleted(a, text) ==
    LET message == IF a.current.content = <<>> /\ text # "" THEN [EnsureAssistant(a) EXCEPT !.content = AppendContent(<<>>, "text", text)]
                   ELSE EnsureAssistant(a)
    IN [adapter |-> [a EXCEPT !.current = message, !.open = TRUE], lines |-> MessageStart(a, message)]
ToolResult(text, failed) == [content |-> <<[type |-> "result", text |-> <<text>>]>>, error |-> IF failed THEN "tool" ELSE "none", present |-> TRUE]
PushToolResult(a, text, failed) ==
    [adapter |-> [a EXCEPT !.results = Append(@, ToolResult(text, failed))],
     lines |-> <<Line("tool_end", NoMessage), Line("message_start", ToolResult(text, failed)), Line("message_end", ToolResult(text, failed))>>]
\* Messages are listed once: one equal to an earlier one is not added again.
AddMissing(messages, new) == FoldLeft(LAMBDA ms, m : IF m \in Range(ms) THEN ms ELSE Append(ms, m), messages, new)
FinishCurrentTurn(a) ==
    IF ~a.current.present THEN [adapter |-> a, lines |-> <<>>]
    ELSE [adapter |-> [messages |-> AddMissing(a.messages, <<a.current>> \o a.results), current |-> NoMessage, results |-> <<>>, open |-> FALSE],
          lines |-> <<Line("message_end", a.current), Line("turn_end", a.current)>>]
ErrorMessage(reason) == [content |-> <<>>, error |-> reason, present |-> TRUE]
\* A failed prompt ends with an error message; a message that is still open stays open.
PushPromptFailed(a, reason) ==
    LET m == ErrorMessage(reason) IN
    [adapter |-> [a EXCEPT !.messages = Append(@, m)],
     lines |-> <<Line("message_start", m), Line("message_end", m), Line("turn_end", m), Line("agent_end", NoMessage)>>]
\* The folded block of a delegation: its status, and whether it is shown as an error.
DelegationLine(e) ==
    LET error == IF e.kind \in {"DelegationFailed", "DelegationRejected"} THEN "delegation" ELSE "none"
    IN Line("delegation", [content |-> <<>>, present |-> TRUE, error |-> error])
EditLine(e) == Line("self_healing_edit", [content |-> <<>>, present |-> TRUE, error |-> IF e.kind = "SelfHealingEditFailed" THEN "edit" ELSE "none"])
InvocationLine(e) == Line(Family(e.kind), [content |-> <<>>, present |-> TRUE,
                          error |-> IF TerminalStatus(e) \in {"failed", "aborted"} THEN TerminalStatus(e) ELSE "none"])
PushTyped(a, e) ==
    CASE e.kind = "AgentTurnStarted" -> LET f == FinishCurrentTurn(a) IN [f EXCEPT !.lines = Append(@, Line("turn_start", NoMessage))]
      [] e.kind = "AssistantMessageStarted" -> PushStarted(a)
      [] e.kind = "AssistantMessageDelta" -> PushDelta(a, "text", e.text)
      [] e.kind = "AssistantThinkingDelta" -> PushDelta(a, "thinking", e.text)
      [] e.kind = "AssistantMessageCompleted" -> PushCompleted(a, e.text)
      [] e.kind = "ToolCallCompleted" -> PushToolResult(a, e.text, FALSE)
      [] e.kind = "ToolCallFailed" -> PushToolResult(a, e.text, TRUE)
      [] e.kind \in {"RuntimeCompactionCompleted", "SessionCompactionCompleted"} ->
           [adapter |-> a, lines |-> <<Line("compaction_start", NoMessage), Line("compaction_end", NoMessage)>>]
      [] e.kind = "PromptCompleted" -> LET f == FinishCurrentTurn(a) IN [f EXCEPT !.lines = Append(@, Line("agent_end", NoMessage))]
      [] e.kind \in {"PromptFailed", "PromptAborted"} -> PushPromptFailed(a, e.text)
      [] e.kind \in {"SessionWritePending", "SessionWriteCommitted", "SessionWriteSkipped", "PromptStarted", "Diagnostic", "ProviderRequestStarted"} ->
           [adapter |-> a, lines |-> <<>>]
      [] e.kind \in {"ToolCallStarted", "ToolCallUpdated"} -> [adapter |-> a, lines |-> <<Line("tool", NoMessage)>>]
      [] e.kind \in DelegationKinds -> [adapter |-> a, lines |-> <<DelegationLine(e)>>]
      [] e.kind \in EditKinds -> [adapter |-> a, lines |-> <<EditLine(e)>>]
      [] e.kind \in AgentKinds \cup TeamKinds -> [adapter |-> a, lines |-> <<InvocationLine(e)>>]
----
\* Which sessions the two modes open: only print mode forks, and only into a stored session.
OpenJsonSession(target, exists, persistent) ==
    ~persistent \/ target \in {"new", "openOrCreate"} \/ (target \in {"open", "continue"} /\ exists)
OpenPrintSession(target, exists, persistent) ==
    IF persistent THEN target \in {"new", "openOrCreate"} \/ (target \in {"open", "continue", "fork"} /\ exists) ELSE target = "new"
ProductEventsInit ==
    \E target \in {"new", "openOrCreate", "open", "continue", "fork"} : \E exists, persistent \in BOOLEAN :
    /\ jMode \in {"json", "print"}
    /\ jRefused = ~(IF jMode = "json" THEN OpenJsonSession(target, exists, persistent) ELSE OpenPrintSession(target, exists, persistent))
    /\ \E outcome \in {"completed", "failed", "aborted"} :
         /\ jOperation \in {"prompt", "delegating", "invocation", "team", "edit", "compact"}
         /\ jMode = "print" \/ jRefused => jOperation = "prompt"
         /\ jScript \in {[events |-> s, outcome |-> outcome] : s \in Scripts(jOperation, outcome)}
    /\ jLog = <<>> /\ jChannel = <<>> /\ jLagged = FALSE /\ jOutcome = "running"
    /\ jAdapter = NewAdapter /\ jLines = <<Line("agent_start", NoMessage)>> /\ jExit = "running"

\* The operation's task; a receiver that is a whole channel behind loses the oldest event.
Emit == /\ ~jRefused /\ jScript.events # <<>>
        /\ jScript' = [jScript EXCEPT !.events = Tail(@)]
        /\ jLog' = Append(jLog, Head(jScript.events))
        /\ jChannel' = IF jMode = "print" THEN <<>> ELSE LET all == Append(jChannel, Head(jScript.events)) IN IF Len(all) > JCapacity THEN Tail(all) ELSE all
        /\ jLagged' = (jLagged \/ Len(jChannel) = JCapacity)
        /\ UNCHANGED <<jMode, jRefused, jOperation, jOutcome, jAdapter, jLines, jExit>>
Done == /\ jScript.events = <<>> /\ jOutcome = "running"
        /\ jOutcome' = jScript.outcome
        /\ UNCHANGED <<jMode, jRefused, jOperation, jScript, jLog, jChannel, jLagged, jAdapter, jLines, jExit>>
PushAll(a, events) == FoldLeft(LAMBDA r, e : LET p == PushTyped(r.adapter, e) IN [adapter |-> p.adapter, lines |-> r.lines \o p.lines],
                               [adapter |-> a, lines |-> <<>>], events)
Report(pushed, exit) == /\ jAdapter' = pushed.adapter /\ jLines' = jLines \o pushed.lines /\ jExit' = exit
                        /\ jChannel' = <<>>
                        /\ UNCHANGED <<jMode, jRefused, jOperation, jScript, jLog, jLagged, jOutcome>>
Receive == /\ jExit = "running" /\ ~jLagged /\ jChannel # <<>>
           /\ LET p == PushTyped(jAdapter, Head(jChannel))
              IN jAdapter' = p.adapter /\ jLines' = jLines \o p.lines
           /\ jChannel' = Tail(jChannel)
           /\ UNCHANGED <<jMode, jRefused, jOperation, jScript, jLog, jLagged, jOutcome, jExit>>
\* A receiver that was overtaken ends the run with a failure, whatever the operation does.
Overtaken == jExit = "running" /\ jLagged /\ Report(PushPromptFailed(jAdapter, "lagged"), "failed")
FinishJson == jMode = "json" /\ jExit = "running" /\ jOutcome # "running" /\ ~jLagged /\ Report(PushAll(jAdapter, jChannel), jOutcome)
\* An error before or around the operation: JSON mode still writes a failed run.
Refuse == jRefused /\ jExit = "running"
          /\ Report(IF jMode = "json" THEN PushPromptFailed(jAdapter, "open") ELSE PushAll(jAdapter, <<>>), "failed")
\* Print mode reads no event: it prints the final text, or the error.
FinishPrint == jMode = "print" /\ jExit = "running" /\ jOutcome # "running" /\ Report(PushAll(jAdapter, <<>>), jOutcome)
ProductEventsNext == Emit \/ Done \/ Receive \/ Overtaken \/ Refuse \/ FinishJson \/ FinishPrint
----
Count(type) == Cardinality({i \in DOMAIN jLines : jLines[i].type = type})
IsRootTerminal(e) == e.op = "root" /\ TerminalOperation(e) = IF jOperation = "delegating" THEN "prompt" ELSE jOperation
(* An operation tells its end once: of the events under its id exactly one ends an operation
   of its kind, with the status the operation returns, after every event that is not about
   durability or the wrapping prompt outcome (a compaction that fails has none: only its
   prompt outcome tells it) (event_service.rs, is_prompt_outcome_event and the emitters). *)
TerminalToldOnce ==
    /\ Cardinality({i \in DOMAIN jLog : IsRootTerminal(jLog[i])}) <= 1
    /\ jOutcome # "running" /\ ~(jOperation = "compact" /\ jOutcome = "failed") =>
         \E i \in DOMAIN jLog : /\ IsRootTerminal(jLog[i]) /\ TerminalStatus(jLog[i]) = jOutcome
                                /\ \A k \in i + 1..Len(jLog) : Durability(jLog[k]) = "durable" \/ jLog[k].kind \in {"Diagnostic", "PromptCompleted"}
    /\ \A i \in DOMAIN jLog : Durability(jLog[i]) = "durable" => \E k \in 1..i - 1 : Durability(jLog[k]) = "pending"

(* The protocol a JSON client reads: a message ends only after it started, a turn ends only
   after it began and after its message; the run of an operation that is a prompt and has no
   child ends with exactly one agent_end, as the last line; and when the run succeeded every
   message that ended is in the list that agent_end carries (protocol/events.rs, json_mode.rs). *)
ProtocolWellFormed ==
    LET Before(i, type) == Cardinality({k \in 1..i : jLines[k].type = type}) IN
    /\ \A i \in DOMAIN jLines :
         /\ Before(i, "message_end") <= Before(i, "message_start")
         /\ jLines[i].type = "turn_end" => jLines[i - 1].type = "message_end" /\ jLines[i - 1].message = jLines[i].message
         /\ jLines[i].type = "message_start" /\ jLines[i].message.error = "none" /\ i > 1 => Before(i, "turn_start") > 0
    /\ jExit = "completed" => jOutcome = "completed"
    /\ jExit # "running" /\ jMode = "json" /\ jOperation = "prompt" =>
         /\ Count("agent_end") = 1 /\ Last(jLines).type = "agent_end"
         /\ \A i \in DOMAIN jLines : jLines[i].type = "message_end" /\ jExit = "completed" => jLines[i].message \in Range(jAdapter.messages)
         /\ jExit = "completed" => Count("turn_start") = Count("turn_end") /\ Count("message_start") = Count("message_end")

\* An operation's end is told once to the sessions' clients, and the lines a JSON client
\* reads make a protocol, however the events, the reader and the operation interleave.
ProtocolSound == TerminalToldOnce /\ ProtocolWellFormed
====
