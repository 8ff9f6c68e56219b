------------------------------ MODULE AgentTurn ------------------------------
(***************************************************************************)
(* One Agent of pi-agent-core: its state behind a lock, the event stream of  *)
(* a run, and the flow of nodes that a turn of the run walks through.  Any   *)
(* thread that holds a clone of the Agent may steer, follow up, abort or     *)
(* clear the queues at any moment of a run.                                  *)
(***************************************************************************)
EXTENDS RuntimeCompaction, SequencesExt

CONSTANTS
    MaxTurns,   \* AgentConfig.max_turns
    MaxRuns,    \* bound: runs started
    MaxTexts,   \* bound: prompts, steering messages and follow-ups sent
    MaxCalls,   \* bound: tool calls of one reply
    Usages,     \* what providers report as a reply's usage
    Reasons,    \* the stop reasons of replies
    Configs     \* the modes of the steering and the follow-up queue

Modes == {"all", "one"}  \* QueueMode::All, QueueMode::OneAtATime

ASSUME TurnAssumption ==
    /\ MaxTurns \in Nat /\ MaxRuns \in Nat /\ MaxTexts \in Nat /\ MaxCalls \in Nat
    /\ Usages \subseteq Nat
    /\ Reasons \subseteq Stops \ {"none"}
    /\ Configs \subseteq [steer : Modes, follow : Modes]

VARIABLES
    config,     \* [steer, follow]: the modes of the two queues
    messages,   \* AgentState.messages
    steering,   \* AgentState.steering_queue
    follow,     \* AgentState.follow_up_queue
    cancelled,  \* whether AgentState.cancel_token is cancelled
    running,    \* Agent.running
    pc,         \* where the run is: a node, or one of Between
    ctx,        \* AgentTurnContext of the turn
    turn,       \* the turn number that run_state carries over
    last,       \* the action that ended the flow
    sent,       \* number of texts sent so far: they are numbered 1..sent
    replies,    \* number of replies so far
    runs,       \* number of runs so far
    out,        \* the events of the run, see NoEvents
    hist        \* history, read by the properties only, see NoHistory

shared == <<messages, steering, follow>>
counters == <<sent, replies, runs>>
vars == <<config, messages, steering, follow, cancelled, running, pc, ctx, turn, last,
          sent, replies, runs, out, hist>>

(* The graph: <<node, action, next node>>.  An action that has no transition  *)
(* ends the flow.                                                             *)
Edges == {
    <<"start_turn", "default", "drain_queued_input">>,
    <<"drain_queued_input", "default", "maybe_compact_runtime_context">>,
    <<"maybe_compact_runtime_context", "default", "prepare_provider_request">>,
    <<"prepare_provider_request", "default", "apply_before_provider_request_hook">>,
    <<"apply_before_provider_request_hook", "default", "provider_stream">>,
    <<"provider_stream", "default", "decide_after_assistant">>,
    <<"decide_after_assistant", "tools", "execute_tools">>,
    <<"decide_after_assistant", "continue", "maybe_prepare_next_turn">>,
    <<"execute_tools", "continue", "maybe_prepare_next_turn">> }

Nodes == {e[1] : e \in Edges} \cup {e[3] : e \in Edges}
(* "turn": between two turns; "flow": the turn has its context; "apply" and   *)
(* "failed": its flow has ended, with an action or with an error.             *)
Between == {"idle", "turn", "flow", "apply", "failed"}

Actions == {"default", "tools", "continue", "continue_provider", "done", "error", "aborted"}

(* pending, open and ended: the tool calls of the reply that have not         *)
(* started, that run, and that have finished (in the order they finished).    *)
NoReply == Message("reply", 0, 0, 0, "none", 0, 0)
NoContext == [messages |-> <<>>, steering |-> <<>>, follow |-> <<>>, request |-> <<>>,
              reply |-> NoReply, mode |-> "none", pending |-> <<>>, open |-> {}, ended |-> <<>>,
              allTerminate |-> FALSE]

(* terminal: AgentDone and AgentError events; late: an event came after one;  *)
(* dropped: the consumer dropped the stream.                                  *)
NoEvents == [terminal |-> 0, late |-> FALSE, dropped |-> FALSE]

(* gone: texts cleared, summarised or dropped with a context; known: texts    *)
(* sent when the turn began; aborted: runs in which abort was called;         *)
(* compacted: a context was compacted.                                        *)
NoHistory == [gone |-> {}, known |-> 0, aborted |-> {}, compacted |-> FALSE]

Init ==
    /\ config \in Configs
    /\ messages = <<>> /\ steering = <<>> /\ follow = <<>>
    /\ cancelled = FALSE /\ running = FALSE
    /\ pc = "idle" /\ ctx = NoContext /\ turn = 0 /\ last = "default"
    /\ sent = 0 /\ replies = 0 /\ runs = 0
    /\ out = NoEvents /\ hist = NoHistory

IsText(m) == m.kind \in {"prompt", "steer", "follow"}
TextIds(ms) == {m.id : m \in {n \in ToSet(ms) : IsText(n)}}

----------------------------------------------------------------------------
(* What other threads do to the Agent.                                        *)

Steer ==
    /\ sent < MaxTexts
    /\ sent' = sent + 1
    /\ steering' = Append(steering, Text("steer", sent + 1))
    /\ UNCHANGED <<config, messages, follow, cancelled, running, pc, ctx, turn, last,
                   replies, runs, out, hist>>

FollowUp ==
    /\ sent < MaxTexts
    /\ sent' = sent + 1
    /\ follow' = Append(follow, Text("follow", sent + 1))
    /\ UNCHANGED <<config, messages, steering, cancelled, running, pc, ctx, turn, last,
                   replies, runs, out, hist>>

(* clear_queues, drain_steering_queue, drain_follow_up_queue.                 *)
ClearQueues(clearSteering, clearFollow) ==
    /\ steering' = IF clearSteering THEN <<>> ELSE steering
    /\ follow' = IF clearFollow THEN <<>> ELSE follow
    /\ <<steering, follow>>' # <<steering, follow>>
    /\ hist' = [hist EXCEPT !.gone = @ \cup (TextIds(steering \o follow) \ TextIds(steering' \o follow'))]
    /\ UNCHANGED <<config, messages, cancelled, running, pc, ctx, turn, last, sent, replies,
                   runs, out>>

Abort ==
    /\ ~cancelled
    /\ cancelled' = TRUE
    /\ hist' = IF running THEN [hist EXCEPT !.aborted = @ \cup {runs}] ELSE hist
    /\ UNCHANGED <<config, messages, steering, follow, running, pc, ctx, turn, last, sent,
                   replies, runs, out>>

(* A run gets a new token; its stream starts when it is first polled.         *)
StartRun ==
    /\ ~running /\ runs < MaxRuns
    /\ running' = TRUE
    /\ cancelled' = FALSE
    /\ runs' = runs + 1
    /\ pc' = "turn" /\ out' = NoEvents
    /\ UNCHANGED <<config, steering, follow, ctx, turn, last, replies, hist>>

Prompt ==
    /\ sent < MaxTexts
    /\ StartRun
    /\ sent' = sent + 1
    /\ messages' = Append(messages, Text("prompt", sent + 1))

Run ==
    /\ messages # <<>> /\ Last(messages).kind # "reply"
    /\ StartRun
    /\ UNCHANGED <<messages, sent>>

(* run_state and the guard of the stream end together.                        *)
EndRun ==
    /\ pc' = "idle" /\ running' = FALSE /\ turn' = 0

(* The consumer drops the stream: the context of the turn goes with it.       *)
DropStream ==
    /\ running
    /\ EndRun
    /\ ctx' = NoContext /\ last' = "default"
    /\ out' = [out EXCEPT !.dropped = TRUE]
    /\ hist' = [hist EXCEPT !.gone =
                   (@ \cup TextIds(ctx.messages \o ctx.steering \o ctx.follow)) \ TextIds(messages)]
    /\ UNCHANGED <<config, messages, steering, follow, cancelled, sent, replies, runs>>

----------------------------------------------------------------------------
(* The flow looks at the token before it starts and before every node.  Only  *)
(* start_turn looks at it again, so the check and the body of every other     *)
(* node are one step.                                                         *)

Emit == out' = [out EXCEPT !.late = @ \/ out.terminal > 0]

EmitFinal == out' = [out EXCEPT !.late = @ \/ out.terminal > 0, !.terminal = @ + 1]

At(node) == pc = node /\ ~cancelled

Leave(action) ==
    IF \E e \in Edges : e[1] = pc /\ e[2] = action
    THEN /\ \E e \in Edges : e[1] = pc /\ e[2] = action /\ pc' = e[3]
         /\ UNCHANGED last
    ELSE pc' = "apply" /\ last' = action

(* The queues move into the context, the messages are copied.                 *)
BeginTurn ==
    /\ pc = "turn"
    /\ ctx' = [NoContext EXCEPT !.messages = messages, !.steering = steering, !.follow = follow]
    /\ steering' = <<>> /\ follow' = <<>>
    /\ pc' = "flow"
    /\ hist' = [hist EXCEPT !.known = sent]
    /\ UNCHANGED <<config, messages, cancelled, running, turn, last, counters, out>>

EnterFlow ==
    /\ pc = "flow" /\ ~cancelled
    /\ pc' = "start_turn"
    /\ UNCHANGED <<config, shared, cancelled, running, ctx, turn, last, counters, out, hist>>

(* Mutant: the token is looked at only before the flow starts.                *)
CancelFlowAtStart ==
    /\ pc = "flow"
    /\ cancelled /\ ctx.mode = "none"
    /\ pc' = "failed"
    /\ UNCHANGED <<config, shared, cancelled, running, ctx, turn, last, counters, out, hist>>

CancelFlow ==
    /\ pc \in (Nodes \cup {"flow"}) \ {"start_turn"}
    /\ cancelled /\ ctx.mode = "none"
    /\ pc' = "failed"
    /\ UNCHANGED <<config, shared, cancelled, running, ctx, turn, last, counters, out, hist>>

(* Mutant: the queues of the context overwrite what was sent meanwhile.       *)
OverwriteState ==
    /\ messages' = ctx.messages
    /\ steering' = ctx.steering
    /\ follow' = ctx.follow
    /\ ctx' = NoContext

ApplyToState ==
    /\ messages' = ctx.messages
    /\ steering' = ctx.steering \o steering
    /\ follow' = ctx.follow \o follow
    /\ ctx' = NoContext

EndFlow ==
    /\ pc = "apply"
    /\ ApplyToState
    /\ last' = "default"
    /\ \/ /\ last \in {"continue", "continue_provider"}
          /\ pc' = "turn" /\ UNCHANGED <<running, turn>>
       \/ last \notin {"continue", "continue_provider"} /\ EndRun
    /\ UNCHANGED <<config, cancelled, counters, out, hist>>

FailFlow ==
    /\ pc = "failed"
    /\ ApplyToState
    /\ EmitFinal
    /\ EndRun
    /\ UNCHANGED <<config, cancelled, last, counters, hist>>

----------------------------------------------------------------------------
(* The nodes.                                                                 *)

StartTurn ==
    /\ pc = "start_turn"
    /\ turn' = IF cancelled THEN turn ELSE turn + 1
    /\ \/ cancelled /\ EmitFinal /\ Leave("aborted")
       \/ ~cancelled /\ turn' > MaxTurns /\ EmitFinal /\ Leave("error")
       \/ ~cancelled /\ turn' <= MaxTurns /\ Emit /\ Leave("default")
    /\ UNCHANGED <<config, shared, cancelled, running, ctx, counters, hist>>

(* drain_queue: what the mode takes from a queue, and what it leaves.         *)
Taken(queue, mode) == IF mode = "all" \/ queue = <<>> THEN queue ELSE <<Head(queue)>>
Left(queue, mode) == IF mode = "all" \/ queue = <<>> THEN <<>> ELSE Tail(queue)

(* sync_live_queues: what was sent since the turn began joins its queues.     *)
SyncLiveQueues ==
    [ctx EXCEPT !.steering = @ \o steering, !.follow = @ \o follow]

DrainQueuedInput ==
    /\ At("drain_queued_input")
    /\ LET synced == SyncLiveQueues
       IN  ctx' = [synced EXCEPT
                      !.messages = @ \o Taken(synced.steering, config.steer),
                      !.steering = Left(@, config.steer)]
    /\ steering' = <<>> /\ follow' = <<>>
    /\ Leave("default")
    /\ UNCHANGED <<config, messages, cancelled, running, turn, counters, out, hist>>

SkipCompaction ==
    /\ At("maybe_compact_runtime_context")
    /\ ~NeedsCompaction(ctx.messages)
    /\ Leave("default")
    /\ UNCHANGED <<config, shared, cancelled, running, ctx, turn, counters, out, hist>>

CompactContext ==
    /\ At("maybe_compact_runtime_context")
    /\ NeedsCompaction(ctx.messages)
    /\ ctx' = [ctx EXCEPT !.messages = Compacted(@)]
    /\ hist' = [hist EXCEPT !.gone = @ \cup TextIds(Split(ctx.messages).old), !.compacted = TRUE]
    /\ Emit
    /\ Leave("default")
    /\ UNCHANGED <<config, shared, cancelled, running, turn, counters>>

(* The summary could not be had: the node fails, and with it the flow.        *)
CompactionFails ==
    /\ At("maybe_compact_runtime_context")
    /\ NeedsCompaction(ctx.messages)
    /\ pc' = "failed"
    /\ UNCHANGED <<config, shared, cancelled, running, ctx, turn, last, counters, out, hist>>

(* The hooks of the two nodes may fail.                                       *)
PrepareProviderRequest ==
    /\ At("prepare_provider_request")
    /\ \/ /\ ctx' = [ctx EXCEPT !.request = ctx.messages]
          /\ Leave("default")
          /\ UNCHANGED out
       \/ EmitFinal /\ Leave("error") /\ UNCHANGED ctx
    /\ UNCHANGED <<config, shared, cancelled, running, turn, counters, hist>>

ApplyBeforeProviderRequestHook ==
    /\ At("apply_before_provider_request_hook")
    /\ \/ Emit /\ Leave("default")
       \/ EmitFinal /\ Leave("error")
    /\ UNCHANGED <<config, shared, cancelled, running, ctx, turn, counters, hist>>

(* The provider ends with a Done event that carries the reply.  Tool calls in *)
(* a reply that stops for another reason are content that no one looks at.    *)
ProviderReplies(stop, calls, usage) ==
    /\ At("provider_stream")
    /\ stop # "tool_use" => calls = 0
    /\ replies' = replies + 1
    /\ ctx' = [ctx EXCEPT !.reply = Message("reply", replies + 1, 0, calls, stop, usage, runs)]
    /\ Emit
    /\ Leave("default")
    /\ UNCHANGED <<config, shared, cancelled, running, turn, sent, runs, hist>>

(* It ends with an Error event or with no terminal event at all.              *)
ProviderFails ==
    /\ At("provider_stream")
    /\ EmitFinal
    /\ Leave("error")
    /\ UNCHANGED <<config, shared, cancelled, running, ctx, turn, counters, hist>>

(* Mutant: a reply that failed goes on like one that stopped.                 *)
DecideErrorContinues ==
    /\ At("decide_after_assistant")
    /\ LET stop == ctx.reply.stop
       IN  /\ ctx' = [ctx EXCEPT
                         !.messages = Append(@, ctx.reply),
                         !.pending = IF stop = "tool_use" THEN [i \in 1..ctx.reply.calls |-> i] ELSE @]
           /\ \/ stop \in {"stop", "length"} /\ Leave("continue") /\ UNCHANGED out
              \/ stop = "tool_use" /\ Leave("tools") /\ UNCHANGED out
              \/ stop \in {"error", "aborted"} /\ EmitFinal /\ Leave("continue")
    /\ UNCHANGED <<config, shared, cancelled, running, turn, counters, hist>>

DecideAfterAssistant ==
    /\ At("decide_after_assistant")
    /\ LET stop == ctx.reply.stop
       IN  /\ ctx' = [ctx EXCEPT
                         !.messages = Append(@, ctx.reply),
                         !.pending = IF stop = "tool_use" THEN [i \in 1..ctx.reply.calls |-> i] ELSE @]
           /\ \/ stop \in {"stop", "length"} /\ Leave("continue") /\ UNCHANGED out
              \/ stop = "tool_use" /\ Leave("tools") /\ UNCHANGED out
              \/ stop \in {"error", "aborted"} /\ EmitFinal /\ Leave(stop)
    /\ UNCHANGED <<config, shared, cancelled, running, turn, counters, hist>>

(* Tools do not see the token: a batch that began runs to its end.            *)
NoToolCalls ==
    /\ At("execute_tools") /\ ctx.mode = "none" /\ ctx.pending = <<>>
    /\ Leave("continue_provider")
    /\ UNCHANGED <<config, shared, cancelled, running, ctx, turn, counters, out, hist>>

BeginTools(mode) ==
    /\ At("execute_tools") /\ ctx.mode = "none" /\ ctx.pending # <<>>
    /\ ctx' = [ctx EXCEPT !.mode = mode,
                          !.open = IF mode = "parallel" THEN ToSet(ctx.pending) ELSE {},
                          !.pending = IF mode = "parallel" THEN <<>> ELSE @]
    /\ IF mode = "parallel" THEN Emit ELSE UNCHANGED out
    /\ UNCHANGED <<config, shared, cancelled, running, pc, turn, last, counters, hist>>

StartNextTool ==
    /\ ctx.mode = "sequential" /\ ctx.open = {} /\ ctx.pending # <<>>
    /\ ctx' = [ctx EXCEPT !.open = {Head(ctx.pending)}, !.pending = Tail(@)]
    /\ Emit
    /\ UNCHANGED <<config, shared, cancelled, running, pc, turn, last, counters, hist>>

EndTool(call, terminate) ==
    /\ call \in ctx.open
    /\ ctx' = [ctx EXCEPT !.open = @ \ {call},
                          !.ended = Append(@, [pos |-> call, terminate |-> terminate])]
    /\ Emit
    /\ UNCHANGED <<config, shared, cancelled, running, pc, turn, last, counters, hist>>

(* Mutant: results in the order the tools finished.                           *)
ResultsAsFinished ==
    [i \in 1..Len(ctx.ended) |-> Result(ctx.reply.id, ctx.ended[i].pos)]

(* Results are appended by the position of their call.                        *)
ResultMessages ==
    LET places == {e.pos : e \in ToSet(ctx.ended)}
        Place(i) == CHOOSE p \in places : Cardinality({q \in places : q <= p}) = i
    IN  [i \in 1..Len(ctx.ended) |-> Result(ctx.reply.id, Place(i))]

FinishTools ==
    /\ ctx.mode # "none" /\ ctx.open = {} /\ ctx.pending = <<>>
    /\ ctx' = [ctx EXCEPT !.messages = @ \o ResultMessages,
                          !.allTerminate = \A e \in ToSet(ctx.ended) : e.terminate,
                          !.mode = "none", !.ended = <<>>]
    /\ Leave("continue")
    /\ UNCHANGED <<config, shared, cancelled, running, turn, counters, out, hist>>

(* hook: what should_stop_after_turn and prepare_next_turn come to, "go" if   *)
(* there are none.  The queues are looked at once more; follow-ups are taken  *)
(* only here, and only if the reply asked for no tool.                        *)
MaybePrepareNextTurn(hook) ==
    /\ At("maybe_prepare_next_turn")
    /\ steering' = <<>> /\ follow' = <<>>
    /\ LET synced == SyncLiveQueues
           usesTools == ctx.reply.stop = "tool_use"
           queued == synced.steering \o synced.follow # <<>>
           finished == IF usesTools THEN ctx.allTerminate ELSE ~queued
       IN  \/ hook = "fail" /\ ctx' = synced /\ EmitFinal /\ Leave("error")
           \/ /\ hook = "stop" \/ (hook = "go" /\ finished)
              /\ ctx' = synced /\ EmitFinal /\ Leave("done")
           \/ /\ hook = "go" /\ ~finished
              /\ ctx' = IF usesTools THEN synced
                        ELSE [synced EXCEPT !.messages = @ \o Taken(synced.follow, config.follow),
                                            !.follow = Left(@, config.follow)]
              /\ Leave("continue")
              /\ UNCHANGED out
    /\ UNCHANGED <<config, messages, cancelled, running, turn, counters, hist>>

----------------------------------------------------------------------------
Outside ==
    \/ Steer
    \/ FollowUp
    \/ \E s, f \in BOOLEAN : ClearQueues(s, f)
    \/ Abort
    \/ Prompt
    \/ Run
    \/ DropStream

Tools ==
    \/ NoToolCalls
    \/ \E mode \in {"parallel", "sequential"} : BeginTools(mode)
    \/ StartNextTool
    \/ \E call \in ctx.open, terminate \in BOOLEAN : EndTool(call, terminate)
    \/ FinishTools

RunStep ==
    \/ BeginTurn
    \/ EnterFlow
    \/ CancelFlow
    \/ StartTurn
    \/ DrainQueuedInput
    \/ SkipCompaction
    \/ CompactContext
    \/ CompactionFails
    \/ PrepareProviderRequest
    \/ ApplyBeforeProviderRequestHook
    \/ \E stop \in Reasons, calls \in 0..MaxCalls, usage \in Usages :
            ProviderReplies(stop, calls, usage)
    \/ ProviderFails
    \/ DecideAfterAssistant
    \/ Tools
    \/ \E hook \in {"go", "stop", "fail"} : MaybePrepareNextTurn(hook)
    \/ EndFlow
    \/ FailFlow

Next == Outside \/ RunStep

Spec == Init /\ [][Next]_vars

(* The consumer polls the stream until it ends, and providers, summaries,     *)
(* hooks and tools come to an end.                                            *)
FairSpec == Spec /\ WF_vars(RunStep)

----------------------------------------------------------------------------
MessageSet == [kind : MessageKinds, id : Nat, pos : Nat, calls : Nat, stop : Stops,
               usage : Nat, run : Nat]

TypeOK ==
    /\ config \in Configs
    /\ messages \in Seq(MessageSet) /\ steering \in Seq(MessageSet) /\ follow \in Seq(MessageSet)
    /\ cancelled \in BOOLEAN /\ running \in BOOLEAN
    /\ running = (pc # "idle")
    /\ pc \in Nodes \cup Between
    /\ turn \in 0..(MaxTurns + 1) /\ last \in Actions
    /\ ctx.messages \in Seq(MessageSet) /\ ctx.steering \in Seq(MessageSet)
    /\ ctx.follow \in Seq(MessageSet) /\ ctx.request \in Seq(MessageSet)
    /\ sent \in 0..MaxTexts /\ runs \in 0..MaxRuns /\ replies \in Nat

(* The conversation: while a turn is under way its context holds it.          *)
Conversation == IF pc \in {"idle", "turn"} THEN messages ELSE ctx.messages

(* No text twice; the texts of a kind in the order they were sent.             *)
Apart(s) ==
    \A i, j \in 1..Len(s) : IsText(s[i]) /\ IsText(s[j]) /\ s[i].id = s[j].id => i = j
Rising(kind, s) ==
    \A i, j \in 1..Len(s) : i < j /\ s[i].kind = kind /\ s[j].kind = kind => s[i].id < s[j].id

(* Every text that prompt, steer or follow_up took is in exactly one place:   *)
(* the conversation, the queues of the turn or the queues of the agent, unless *)
(* it was cleared, summarised, or dropped with its stream.                    *)
QueuedOnce ==
    LET held == Conversation \o ctx.steering \o ctx.follow \o steering \o follow
    IN  TextIds(held) = (1..sent) \ hist.gone /\ Apart(held)

(* Steering messages are delivered in the order they were sent, and so are    *)
(* follow-ups, whichever of the two queues a text waits in.                   *)
DeliveredInOrder ==
    /\ Rising("steer", Conversation \o ctx.steering \o steering)
    /\ Rising("follow", Conversation \o ctx.follow \o follow)

(* With QueueMode::All a request holds every steering message that was sent   *)
(* before its turn began; with OneAtATime it takes one at a time.             *)
SteeringReachesRequest ==
    pc = "provider_stream" =>
        LET waiting == {t \in TextIds(ctx.steering \o steering) : t <= hist.known}
        IN  config.steer = "all" => waiting = {}

(* In a request, the results of a reply's tool calls follow it at once and in *)
(* the order of the calls, however the tools finished.  The exception: a      *)
(* reply of an earlier run that was aborted before its tools began.           *)
CallsAnswered ==
    pc = "provider_stream" /\ ~hist.compacted =>
        \A i \in 1..Len(ctx.request) :
            LET m == ctx.request[i]
            IN  m.kind = "reply" /\ m.stop = "tool_use" =>
                    \/ /\ i + m.calls <= Len(ctx.request)
                       /\ \A p \in 1..m.calls : ctx.request[i + p] = Result(m.id, p)
                    \/ m.run < runs /\ m.run \in hist.aborted

(* A stream that is read to its end delivers one AgentDone or AgentError, as  *)
(* its last event.                                                            *)
OneTerminalEvent ==
    /\ out.terminal <= 1 /\ ~out.late
    /\ pc = "idle" /\ runs > 0 /\ ~out.dropped => out.terminal = 1

(* A result that a request carries is the result of a reply that it carries.  *)
ResultsHaveCalls ==
    pc = "provider_stream" =>
        \A j \in 1..Len(ctx.request) :
            ctx.request[j].kind = "result" =>
                \E i \in 1..(j - 1) : ctx.request[i].kind = "reply" /\ ctx.request[i].id = ctx.request[j].id

(* Every run ends, so that the agent can be prompted again.                   *)
RunEnds == running ~> ~running

(* A text that was sent is in exactly one place, is delivered in the order of its  *)
(* queue, and steering is part of the request of the turn that follows it.         *)
TextsKept == QueuedOnce /\ DeliveredInOrder /\ SteeringReachesRequest

(* Whatever path a run takes to its end, its stream delivers one terminal event,   *)
(* as its last, and leaves the agent well typed for the next run.                  *)
StreamSound == TypeOK /\ OneTerminalEvent
==============================================================================
