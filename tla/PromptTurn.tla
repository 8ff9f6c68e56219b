----------------------------- MODULE PromptTurn -----------------------------
(***************************************************************************)
(* One prompt of a coding session from run() to its final marker: the flow  *)
(* that prepares it, the agent's event stream that it records into the       *)
(* session transaction, the control commands it applies meanwhile, and its   *)
(* outcome.                                                                  *)
(*                                                                           *)
(* Who runs it: "rpc" prompts are submitted by a client, which controls them *)
(* through the coordinator; "ui" prompts are run by the terminal's prompt    *)
(* task, which owns the session and holds the channel itself; "print" prompts *)
(* cannot be controlled.  The agent (module AgentTurn) is reduced to the     *)
(* events that it sends ahead of the flow and to where it looks at its        *)
(* cancellation token.                                                       *)
(***************************************************************************)
EXTENDS PromptControl

CONSTANTS
    Fronts,      \* who runs prompts: a subset of {"rpc", "ui", "print"}
    MaxPrompts,  \* bound: prompts run
    MaxControls, \* bound: commands accepted
    MaxTurns,    \* per front: turns of an agent run (its max_turns)
    MaxCalls,    \* bound, per front: tool calls of one prompt
    Numbered     \* whether the provider gives every tool call an id of its own

ASSUME PromptAssumption ==
    /\ Fronts \subseteq {"rpc", "ui", "print"}
    /\ MaxPrompts \in Nat /\ MaxControls \in Nat
    /\ MaxTurns \in [Fronts -> Nat] /\ MaxCalls \in [Fronts -> Nat]
    /\ Numbered \in BOOLEAN

VARIABLES
    front,    \* the one of Fronts that this process is
    turn,     \* the prompt under way, see NoTurn
    agent,    \* its agent, see NoAgent
    events,   \* the agent's events that the flow has not taken yet
    prompts,  \* prompts so far; an operation id is its number
    applied,  \* history: the commands applied to the prompt under way
    result,   \* what the session log has of the last prompt
    dropped   \* history: a run() was dropped before it ended

promptTurnVars == <<registry, control, front, turn, agent, events, prompts, applied, result, dropped>>

NoHandle == [id |-> "none", gen |-> 0]

(* by: the client that submitted it.  pc: "ready", a handle was made but run()   *)
(* not polled yet; "committed", the submission is; "bound", admitted;           *)
(* "prepared", the flow has its context and transaction; "streaming"; "ended",  *)
(* the flow is over and an outcome is known; "finalized".  rx: the receiver,    *)
(* 0 for none; polled: it was found empty and the stream is polled; message,    *)
(* calls: what is open in the transaction; known: the tool call ids it has      *)
(* seen; started: history, the calls it recorded as started; abort: a reason    *)
(* was recorded; heeded: history, the agent was still at work then.             *)
NoTurn == [pc |-> "idle", op |-> 0, by |-> NoHandle, rx |-> 0, polled |-> FALSE, abort |-> FALSE,
           heeded |-> FALSE, final |-> FALSE, outcome |-> "none", message |-> FALSE,
           calls |-> {}, known |-> {}, started |-> {}]

(* queued: a steering message or follow-up waits; todo, running: the calls of   *)
(* the reply that have not started and that run; made: calls so far.            *)
NoAgent == [phase |-> "over", cancelled |-> FALSE, queued |-> FALSE, turns |-> 0,
            todo |-> {}, running |-> {}, made |-> 0, part |-> FALSE]

Outcomes == {"none", "success", "aborted", "failed"}
PromptResults == {"none", "committed", "aborted", "failed", "error", "dropped"}
AgentEventKinds == {"part", "reply", "bad", "start", "update", "end", "AgentDone", "AgentError"}

PromptInit ==
    /\ RegistryInit /\ ControlInit
    /\ front \in Fronts
    /\ turn = NoTurn /\ agent = NoAgent /\ events = <<>>
    /\ prompts = 0 /\ applied = <<>>
    /\ result = "none"
    /\ dropped = FALSE

promptVars == <<front, turn, agent, events, prompts, applied, result, dropped>>

----------------------------------------------------------------------------
(* Clients and the coordinator.                                               *)

Client ==
    /\ front = "rpc"
    /\ UNCHANGED promptVars
    /\ \/ /\ turn.pc = "idle"
          /\ \E c \in Clients : ConnectOrTakeover(c) /\ RebindPromptControl(c)
       \/ (\E h \in Issued : DetachClient(h)) /\ UNCHANGED control
       \/ CloseRegistry /\ UnbindPromptControl
       \/ /\ Len(accepted) < MaxControls
          /\ \E h \in Issued, op \in 1..prompts, id \in ControlIds, kind \in ControlKinds,
                text \in Texts : EnqueuePromptControl(h, op, id, kind, text)
          /\ UNCHANGED registry
       \/ /\ \E h \in Issued, id \in ControlIds, kind \in Drafting, text \in Texts :
                EnqueueDraft(h, id, kind, text)
          /\ UNCHANGED registry
       \/ /\ \E h \in Issued, op \in 1..prompts : ReadDraft(h, op)
          /\ UNCHANGED registry
       \/ /\ Len(accepted) < MaxControls
          /\ \E c \in Clients : SendDraft(c)
          /\ UNCHANGED registry

----------------------------------------------------------------------------
(* run() up to the stream.                                                    *)

\* run_coding_prompt_task: a handle for the prompt that is about to run.
MakeHandle ==
    /\ front = "ui" /\ turn.pc = "idle" /\ prompts < MaxPrompts
    /\ NewChannel
    /\ prompts' = prompts + 1
    /\ turn' = [NoTurn EXCEPT !.pc = "ready", !.op = prompts + 1]
    /\ result' = "none"
    /\ UNCHANGED <<registry, binding, receipts, drafts, reading, accepted,
                   front, agent, events, applied, dropped>>

\* run_operation of a submitted prompt: commit, see module Submission, ...
SubmitPrompt(h) ==
    /\ front = "rpc" /\ turn.pc = "idle" /\ prompts < MaxPrompts
    /\ Valid(h)
    /\ prompts' = prompts + 1
    /\ turn' = [NoTurn EXCEPT !.pc = "committed", !.op = prompts + 1, !.by = h]
    /\ result' = "none"
    /\ UNCHANGED <<registry, control, front, agent, events, applied, dropped>>

\* ... then the binding, which a shutdown in between does not prevent.
BindPrompt ==
    /\ turn.pc = "committed"
    /\ BindPromptControl(turn.by, turn.op)
    /\ turn' = [turn EXCEPT !.pc = "bound"]
    /\ UNCHANGED <<registry, front, agent, events, prompts, applied, result, dropped>>

PlainPrompt ==
    /\ front = "print" /\ turn.pc = "idle" /\ prompts < MaxPrompts
    /\ prompts' = prompts + 1
    /\ turn' = [NoTurn EXCEPT !.pc = "bound", !.op = prompts + 1]
    /\ result' = "none"
    /\ UNCHANGED <<registry, control, front, agent, events, applied, dropped>>

\* run() is over: the context goes with its receiver, both ends are cleared.
Return ==
    /\ chans' = Closed(IF turn.rx # 0 THEN turn.rx ELSE receiver)
    /\ ClearPromptControl(turn.op)
    /\ turn' = NoTurn
    /\ accepted' = <<>> /\ applied' = <<>>
    /\ UNCHANGED <<registry, receipts, drafts, reading, front, prompts, dropped>>

\* prompt_inner, prepare_prompt_context: a transaction is begun.
Prepare ==
    /\ turn.pc \in {"ready", "bound"}
    /\ turn' = [turn EXCEPT !.pc = "prepared", !.rx = receiver]
    /\ receiver' = 0
    /\ UNCHANGED <<registry, chans, sender, binding, receipts, drafts, reading, accepted,
                   front, agent, events, prompts, applied, result, dropped>>

\* No runtime, no such profile, a session that cannot be replayed.
PrepareFails ==
    /\ turn.pc \in {"ready", "bound"}
    /\ Return
    /\ UNCHANGED <<agent, events, result>>

\* What a failed flow comes to: run_prompt_turn asks abort_reason.
Failure == IF turn.abort THEN "aborted" ELSE "failed"

\* The nodes up to record_user_input and start_agent_turn; one that fails
\* leaves the receiver in the context.
BeginStream ==
    /\ turn.pc = "prepared"
    /\ turn' = [turn EXCEPT !.pc = "streaming"]
    /\ agent' = [NoAgent EXCEPT !.phase = "turn"]
    /\ UNCHANGED <<registry, control, front, events, prompts, applied, result, dropped>>

FlowFails ==
    /\ turn.pc = "prepared"
    /\ turn' = [turn EXCEPT !.pc = "ended", !.outcome = Failure]
    /\ UNCHANGED <<registry, control, front, agent, events, prompts, applied, result, dropped>>

----------------------------------------------------------------------------
(* The agent, ahead of the flow.  It runs only while the stream is polled.     *)

Ahead(emitted, next) ==
    /\ turn.pc = "streaming" /\ turn.polled
    /\ events' = events \o emitted
    /\ agent' = next
    /\ UNCHANGED <<registry, control, front, turn, prompts, applied, result, dropped>>

AgentEvent(kind, call) == [kind |-> kind, call |-> call]
Done == <<AgentEvent("AgentDone", 0)>>
PromptFailed == <<AgentEvent("AgentError", 0)>>
Over == [agent EXCEPT !.phase = "over"]

\* The token is looked at before every node of a turn.
AgentCancelled ==
    /\ agent.phase \in {"turn", "decide", "next"} /\ agent.cancelled
    /\ Ahead(PromptFailed, Over)

\* start_turn up to the request, which takes what was queued.
AgentRequest ==
    /\ agent.phase = "turn" /\ ~agent.cancelled
    /\ \/ /\ agent.turns < MaxTurns[front]
          /\ Ahead(<<>>, [agent EXCEPT !.phase = "reply", !.turns = @ + 1, !.queued = FALSE,
                                       !.part = FALSE])
       \/ Ahead(PromptFailed, Over)

\* The reply streams in, and ends with Done, with Error, or without either.
AgentReply ==
    /\ agent.phase = "reply"
    /\ \/ ~agent.part /\ Ahead(<<AgentEvent("part", 0)>>, [agent EXCEPT !.part = TRUE])
       \/ \E n \in 0..(MaxCalls[front] - agent.made) :
            Ahead(<<AgentEvent("reply", 0)>>,
                  [agent EXCEPT !.phase = "decide", !.todo = (agent.made + 1)..(agent.made + n),
                                !.made = @ + n])
       \/ \E bad \in {<<>>, <<AgentEvent("bad", 0)>>} : Ahead(bad \o PromptFailed, Over)

\* Mutant of AgentDecide: a steering message that waits goes before the tools.
AgentDecideSteered ==
    /\ agent.phase = "decide" /\ ~agent.cancelled
    /\ \/ Ahead(<<>>, [agent EXCEPT !.phase = IF agent.todo = {} \/ agent.queued THEN "next" ELSE "tools"])
       \/ agent.todo = {} /\ Ahead(PromptFailed, Over)

\* decide_after_assistant; a reply that failed ends the run.
AgentDecide ==
    /\ agent.phase = "decide" /\ ~agent.cancelled
    /\ \/ Ahead(<<>>, [agent EXCEPT !.phase = IF agent.todo = {} THEN "next" ELSE "tools"])
       \/ agent.todo = {} /\ Ahead(PromptFailed, Over)

\* execute_tools: together, or one after the other.
AgentTools ==
    /\ agent.phase = "tools"
    /\ \/ /\ agent.running = {} /\ agent.todo # {}
          /\ \E n \in 1..Cardinality(agent.todo) :
                LET first == CHOOSE call \in agent.todo : \A other \in agent.todo : call <= other
                    batch == [i \in 1..n |-> AgentEvent("start", first + i - 1)]
                IN  /\ n \in {1, Cardinality(agent.todo)}
                    /\ Ahead(batch, [agent EXCEPT !.running = first..(first + n - 1),
                                                  !.todo = @ \ (first..(first + n - 1))])
       \/ \E call \in agent.running, updates \in {<<>>, <<"update">>} :
            Ahead([i \in DOMAIN updates |-> AgentEvent("update", call)] \o <<AgentEvent("end", call)>>,
                  [agent EXCEPT !.running = @ \ {call}])
       \/ agent.running = {} /\ agent.todo = {} /\ Ahead(<<>>, [agent EXCEPT !.phase = "next"])

\* maybe_prepare_next_turn: what is queued starts another turn.
AgentNext ==
    /\ agent.phase = "next" /\ ~agent.cancelled
    /\ \/ Ahead(<<>>, [agent EXCEPT !.phase = "turn"])
       \/ ~agent.queued /\ Ahead(Done, Over)

AgentStep ==
    AgentCancelled \/ AgentRequest \/ AgentReply \/ AgentDecide \/ AgentTools \/ AgentNext

----------------------------------------------------------------------------
(* run_agent_turn: commands before events, events into the transaction.        *)

\* The select found no command and polls the stream.
PollStream ==
    /\ turn.pc = "streaming" /\ ~turn.polled
    /\ turn.rx # 0 => chans[turn.rx].queue = <<>>
    /\ turn' = [turn EXCEPT !.polled = TRUE]
    /\ UNCHANGED <<registry, control, front, agent, events, prompts, applied, result, dropped>>

ApplyPromptControlCommand ==
    /\ turn.pc = "streaming" /\ turn.rx # 0
    /\ chans[turn.rx].queue # <<>>
    /\ LET command == Head(chans[turn.rx].queue)
       IN  /\ applied' = Append(applied, command)
           /\ IF command.kind = "Abort"
              THEN /\ turn' = [turn EXCEPT !.polled = FALSE, !.abort = TRUE,
                                           !.heeded = @ \/ agent.phase # "over"]
                   /\ agent' = [agent EXCEPT !.cancelled = TRUE]
              ELSE /\ turn' = [turn EXCEPT !.polled = FALSE]
                   /\ agent' = [agent EXCEPT !.queued = TRUE]
    /\ chans' = [chans EXCEPT ![turn.rx].queue = Tail(@)]
    /\ UNCHANGED <<registry, sender, receiver, binding, receipts, drafts, reading, accepted,
                   front, events, prompts, result, dropped>>

\* The flow is over; what run_agent_turn took goes with it.
EndFlow(outcome) ==
    /\ turn' = [turn EXCEPT !.pc = "ended", !.outcome = outcome, !.rx = 0]
    /\ chans' = Closed(turn.rx)
    /\ agent' = NoAgent /\ events' = <<>>
    /\ UNCHANGED <<registry, sender, receiver, binding, receipts, drafts, reading, accepted,
                   front, prompts, applied, result, dropped>>

\* The id under which the transaction knows a call: what the provider named it.
IdOf(call) == IF Numbered THEN call ELSE 1

\* ensure_tool_session_call_started.
Ensured(call) ==
    IF IdOf(call) \in turn.known THEN turn
    ELSE [turn EXCEPT !.known = @ \cup {IdOf(call)}, !.calls = @ \cup {IdOf(call)},
                      !.started = @ \cup {call}]

\* record_agent_event_to_transaction: the turn with the event recorded.
Recorded(event) ==
    CASE event.kind = "part" -> [turn EXCEPT !.message = TRUE]
      [] event.kind = "reply" -> [turn EXCEPT !.message = FALSE]
      [] event.kind = "bad" -> turn
      [] event.kind \in {"start", "update"} -> Ensured(event.call)
      [] event.kind = "end" -> [Ensured(event.call) EXCEPT !.calls = @ \ {IdOf(event.call)}]
      [] event.kind = "AgentDone" -> [turn EXCEPT !.final = TRUE]

\* ensure_tool_call_open.
Refused(event) ==
    event.kind \in {"update", "end"} /\ IdOf(event.call) \notin Ensured(event.call).calls

RecordEvent ==
    /\ turn.pc = "streaming" /\ turn.polled /\ events # <<>>
    /\ LET event == Head(events)
       IN  IF event.kind = "AgentError" \/ Refused(event)
           THEN EndFlow(Failure)
           ELSE /\ turn' = [Recorded(event) EXCEPT !.polled = FALSE]
                /\ events' = Tail(events)
                /\ UNCHANGED <<registry, control, front, agent, prompts, applied, result, dropped>>

\* The stream is over; the nodes and hooks that follow may still fail.
EndStream ==
    /\ turn.pc = "streaming" /\ turn.polled /\ events = <<>> /\ agent.phase = "over"
    /\ \/ turn.final /\ EndFlow("success")
       \/ EndFlow(Failure)

----------------------------------------------------------------------------
(* After the stream.                                                          *)

\* authorize_delegation_requests fails: not an abort, whatever was requested.
AuthorizeFails ==
    /\ turn.pc = "ended" /\ turn.outcome = "success"
    /\ turn' = [turn EXCEPT !.outcome = "failed"]
    /\ UNCHANGED <<registry, control, front, agent, events, prompts, applied, result, dropped>>

\* finalize_prompt_transaction, which module SessionLog details; a write that
\* fails turns the outcome into a failure.
Finalize(written) ==
    /\ turn.pc = "ended"
    /\ result' = IF ~written THEN "error"
                 ELSE IF turn.outcome = "success" THEN "committed" ELSE turn.outcome
    /\ turn' = [turn EXCEPT !.pc = "finalized", !.outcome = IF written THEN @ ELSE "failed"]
    /\ UNCHANGED <<registry, control, front, agent, events, prompts, applied, dropped>>

RunEnds ==
    /\ turn.pc = "finalized"
    /\ Return
    /\ UNCHANGED <<agent, events, result>>

\* run() waits for the agent or for a delegation.
Waiting == turn.pc = "streaming" \/ (turn.pc = "ended" /\ turn.outcome = "success")

\* The future of run() is dropped, and with it the context, its transaction and
\* its receiver; nothing clears what OperationControl and coordinator keep.
DropFuture ==
    /\ turn' = NoTurn /\ agent' = NoAgent /\ events' = <<>>
    /\ chans' = Closed(turn.rx)
    /\ result' = IF turn.pc = "ready" THEN "none" ELSE "dropped"
    /\ dropped' = TRUE
    /\ accepted' = <<>> /\ applied' = <<>>
    /\ UNCHANGED <<registry, sender, receiver, binding, receipts, drafts, reading,
                   front, prompts>>

\* The caller of run() drops it.
DropRun ==
    /\ front = "rpc" /\ Waiting
    /\ DropFuture

\* run_coding_prompt_task: a control between two polls of run().  A command that
\* cannot be sent ends the task; a second abort is not sent.
TaskControl(kind, text) ==
    /\ front = "ui"
    /\ turn.pc = "ready" \/ Waiting
    /\ kind = "Abort" => \A i \in 1..Len(accepted) : accepted[i].kind # "Abort"
    /\ \/ /\ CanSend(sender) /\ Len(accepted) < MaxControls
          /\ Send(sender, Command(kind, text, turn.op, 0))
          /\ UNCHANGED <<registry, sender, receiver, binding, receipts, drafts, reading, promptVars>>
       \/ ~CanSend(sender) /\ DropFuture

Stream ==
    \/ AgentStep \/ PollStream \/ ApplyPromptControlCommand \/ RecordEvent \/ EndStream

PromptNext ==
    \/ Client
    \/ MakeHandle \/ PlainPrompt \/ (\E h \in Issued : SubmitPrompt(h)) \/ BindPrompt
    \/ Prepare \/ PrepareFails \/ BeginStream \/ FlowFails
    \/ Stream
    \/ AuthorizeFails \/ (\E written \in BOOLEAN : Finalize(written)) \/ RunEnds
    \/ DropRun
    \/ \E kind \in ControlKinds, text \in Texts : TaskControl(kind, text)

PromptSpec == PromptInit /\ [][PromptNext]_promptTurnVars

----------------------------------------------------------------------------
PromptTypeOK ==
    /\ RegistryTypeOK /\ ControlTypeOK
    /\ front \in Fronts
    /\ turn.pc \in {"idle", "ready", "committed", "bound", "prepared", "streaming", "ended", "finalized"}
    /\ turn.op \in 0..MaxPrompts /\ turn.rx \in 0..Len(chans)
    /\ turn.outcome \in Outcomes
    /\ turn.pc \in {"ended", "finalized"} <=> turn.outcome # "none"
    /\ agent.phase \in {"turn", "reply", "decide", "tools", "next", "over"}
    /\ \A i \in 1..Len(events) : events[i].kind \in AgentEventKinds
    /\ prompts \in 0..MaxPrompts
    /\ result \in PromptResults
    /\ dropped \in BOOLEAN

(* A command is applied only to the prompt it was accepted for, in the order  *)
(* in which commands were accepted, and none is skipped: what a prompt has     *)
(* applied and what waits in its channel is what was accepted for it; when its *)
(* stream is over, what it applied is a prefix of it.                          *)
ControlsInOrder ==
    /\ \A i \in 1..Len(applied) : applied[i].op = turn.op
    /\ Len(applied) <= Len(accepted)
    /\ applied = SubSeq(accepted, 1, Len(applied))
    /\ turn.rx # 0 => applied \o chans[turn.rx].queue = accepted

(* A control that is sent again under its id, by a retry, from a draft or      *)
(* after a takeover, is applied at most once to an operation.                  *)
ControlOnce ==
    \A i, j \in 1..Len(applied) :
        applied[i].id # 0 /\ applied[i].id = applied[j].id => i = j

(* A prompt that succeeds leaves no message and no tool call open in its       *)
(* transaction, whatever order tools finish in and whatever was steered: what  *)
(* SessionLog assumes of a commit.                                             *)
CommitClosed ==
    turn.pc = "ended" /\ turn.outcome = "success" => ~turn.message /\ turn.calls = {}

(* A prompt whose stream ended well has recorded every call that its agent made *)
(* as started.  A provider that does not number its calls does not change that: *)
(* the second call under a name fails the prompt.                               *)
ToolCallsRecorded ==
    turn.pc = "streaming" /\ agent.phase = "over" /\ events = <<>> /\ turn.final =>
        turn.started = 1..agent.made

(* An abort that is applied while the agent is still at work ends the prompt   *)
(* as aborted, never as a success or a failure, also when provider, tool or    *)
(* hook end it first.                                                          *)
AbortHeeded ==
    turn.pc = "ended" /\ turn.heeded => turn.outcome = "aborted"

(* A streaming prompt can be controlled by the client that submitted it until   *)
(* the runtime shuts down, and when nothing runs no control goes anywhere,       *)
(* unless a run() was dropped.                                                   *)
Controllable ==
    ~dropped =>
        /\ turn.pc = "streaming" /\ front # "print" => turn.rx # 0 /\ chans[turn.rx].open
        /\ turn.pc = "streaming" /\ front = "rpc" /\ lifecycle = "Running" =>
                binding.st = "bound" /\ binding.op = turn.op /\ binding.chan = turn.rx
        /\ turn.pc = "idle" => binding = NoBinding /\ sender = 0 /\ receiver = 0

(* "Abort/error are first-class facts": a prompt that ended without a crash    *)
(* has its final marker, or its caller has seen the write fail.                *)
EndsRecorded == result # "dropped"

(* Commands reach the prompt they were accepted for, once and in the order of     *)
(* their acceptance, an abort ends a working prompt as aborted, and a prompt can   *)
(* be controlled as long as it runs.                                              *)
ControlsSound ==
    PromptTypeOK /\ ControlsInOrder /\ ControlOnce /\ AbortHeeded /\ Controllable

(* A prompt that succeeded has closed in its transaction every message and tool    *)
(* call that its agent began, in whatever order its tools ended.                   *)
TurnRecorded == CommitClosed /\ ToolCallsRecorded
=============================================================================
