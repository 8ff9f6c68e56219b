# Verification of pi-rust's coding agent

pi-rust is a coding agent in Rust: a provider library (`pi-ai`), an agent loop (`pi-agent-core`), a session
runtime with its front ends (`pi-coding-agent`) and a terminal library (`pi-tui`). This directory holds TLA+
models of the parts whose behaviour is hard to test: everything with interleaved steps, failures, limits or
long sequences of legal calls. TLC checks them on small instances; TLAPS proves the invariants that matter
most for every instance. `PROJECT.json` maps definitions to the lines they model and lists components, runs,
mutants, findings, hazards and theorems. A helper that lies within the lines of another definition is not
listed there separately.

Paths below are relative to `src/crates/`; `cs/` stands for `pi-coding-agent/src/coding_session/`.

## 1. Inventory

| Component | State | Operations | What is hard | What makes it correct |
|---|---|---|---|---|
| Product event stream (`cs/event_service.rs`, `cs/public_projection.rs`) | next sequence, retained window, `dropped_before`, broadcast channel, per client cursor and receiver | emit, subscribe, reconnect, recv, acknowledge | number and broadcast are two steps; receivers lag; reconnect replays and then listens | no event lost at the cut, no cursor over a hole |
| Client registry (`cs/snapshot_coordinator.rs`) | client records, generations, runtime lifecycle | connect or takeover, detach, request and finish shutdown | stale handles in use after takeover or shutdown | only the current generation acts |
| Submissions and `run()` (`cs/mod.rs`, `cs/public_operation.rs`, `cs/intent_router.rs`) | pending lease, submitted operation per client, active operation | prepare, run, commit, observe root, finish, acknowledge, shutdown | commit is two critical sections; futures are dropped; acknowledgement races the end | every accepted operation ends, its outcome is kept until acknowledged |
| Prompt control (`cs/operation_control.rs`, `cs/snapshot_coordinator.rs`) | command channel, binding, receipts, drafts | bind, enqueue, draft, clear | retries, takeover, drafts read and sent under two locks | each command once, in order, to its prompt |
| Prompt turn (`cs/prompt_flow.rs`, `cs/prompt.rs`, `cs/mod.rs`) | context, agent stream, open message and tool calls, outcome | prepare, stream, control, record, finalize | commands, events and the end of the agent race | a success leaves nothing open; an abort is an abort; a prompt ends with a marker |
| Session log (`cs/session_log/*`, `cs/session_service.rs`) | `events.jsonl`, `session.json`, transaction, leaf | create, open with recovery, begin, record, commit, fail, abort, switch, fork, clone | writes that fail or are cut; log and manifest are two files | what was reported survives; one final marker; leaves agree |
| Compaction and branch summary flows (`cs/manual_compaction_flow.rs`, `cs/branch_summary_flow.rs`) | none of their own | select from a replay, record | ranges that moved since | they summarise what they claim |
| Agent and turn flow (`pi-agent-core/src/agent.rs`, `flow.rs`, `agent_turn_flow/`) | messages, two queues, cancel token, running flag, turn context | prompt, run, steer, follow up, clear, abort, every node | texts sent while a turn runs; parallel tools; abort anywhere | no text lost, doubled or overtaken; calls answered; one terminal event |
| Runtime compaction (`pi-agent-core/src/compaction/`) | none | estimate, cut, replace | the cut falls anywhere | calls and results stay together |
| Agent harness (`pi-agent-core/src/harness.rs`, `hooks.rs`) | phase, handlers, observers, provider hook slot, messages | prompt, poll, drop, on, subscribe, abort, compact | streams are lazy and may be dropped between any two polls | one turn at a time; hooks and observers in order |
| Provider streams (`pi-ai/src`) | request conversion, decoder buffers, message under way | send with retry, decode, process, cancel | bodies in chunks, cut anywhere; ids that differ between APIs | one final event; every call answered under the id the API takes |
| Tools (`pi-coding-agent/src/tools`) | file mutation queues, child processes, truncation limits | read, write, edit, bash, search, self-healing edit | concurrent edits of one file under two names; timeouts, pipes kept open | edits of a file are serial; output that is cut says so; a call ends |
| RPC loop (`pi-coding-agent/src/protocol/rpc*`) | running prompt, idempotency records, event queue of 128 | commands, events, drain | commands while streaming, full queue, lag | a repeated command acts once; events precede the end of their prompt |
| Interactive loop (`pi-coding-agent/src/interactive`) | root, surfaces, task, session held or lent, target | keys, slash commands, task events | task completion, failure and panic against user input | the session, or its loss, comes back from every task |
| Transcript and tree selector (`interactive/event_bridge.rs`, `transcript.rs`, `tree_selector.rs`) | items, line cache, scroll; projection, folds, selection | events, keys | caches and selection while what they show changes | what is shown is current; a selection stays with its entry |
| Print and JSON modes (`protocol/json_mode.rs`, `protocol/events.rs`, `print_mode.rs`) | adapter, receiver, outcome | run, translate | a receiver that lags while the operation goes on | lines are well nested and say how it ended |
| Profiles, delegation, agent invocation and teams (`cs/delegation*.rs`, `cs/agent_invocation*`, `cs/agent_team*`) | stack of contexts, queued confirmations, log | authorize, confirm, reject, run children | confirmations that expire, are approved twice or survive a restart | children stay within their policy; nothing runs twice |
| Plugins and capability snapshots (`cs/plugin_*`, `plugins/`, `cs/capability*`) | plugin service, generation, snapshots | load, reload, hook, tool call, delegate | directories edited while they are read; snapshots of children | generations are whole; handles follow tools |
| Terminal user interface (`pi-tui/src`) | previous frame, terminal rows, focus, overlays; editor text, undo, kill ring | draw, keys, paste | differential drawing over resizes; undo across markers | the screen shows the frame; keys lose no text |
| Configuration and authentication (`config/settings.rs`, `config/auth.rs`, settings menu) | two settings files, delta, key file | load, merge, change, save, login | several processes and a person write the files; crashes in a write | a save forgets nothing that a person wrote |
| Resources, themes, export, stub crates | none that changes | | sequential | not modelled |

How they interact: the front ends (RPC loop, interactive loop, print and JSON mode) own one
`CodingAgentSession`. `run(&mut self)` executes one operation at a time; `connect`, `prepare_submission` and
`shutdown` need the same exclusive access. Client connections, prompt controls and the shutdown handle hold
only the shared coordinator and act at any time, also between two steps of `run()`. A prompt builds a new
`Agent` from the replayed session with the tools of its capability snapshot, polls its event stream, records
the events in a `PromptTurnTransaction`, publishes product events, carries out the delegations that were
authorized and at the end appends the transaction to the log and updates the manifest. Nothing in the session
runtime spawns a task: an operation advances only while its future is polled, and dropping the future stops it
at an await. The front ends do spawn a task for the operation, lend it the session and get it back when it
ends.

## 2. Modules

| Module | Models | State to code |
|---|---|---|
| `EventFeed` | what the event stream promises | abstract: events published, what each client knows and acknowledged |
| `EventStream` | `EventService` and its receivers; implements `EventFeed` | `next`, `retained`, `droppedBefore` are the fields of the coordinator's event authority; `inflight` is an event between `retain_product_event` and `send` |
| `ClientRegistry` | client records and lifecycle of `SnapshotCoordinator` | every action is one critical section of the state lock |
| `Submission` | leases, `SubmissionCommitGuard`, `run()`, `shutdown()`; extends `ClientRegistry` | `owner` is the program counter of `run()`, `submitted` the record's `submitted_operation` |
| `PromptControl` | channel, binding, receipts, drafts; extends `ClientRegistry` | one action per critical section; a draft is sent in two |
| `PromptTurn` | `prompt_inner`, `run_agent_turn`, the recording of agent events, the terminal's prompt task; extends `PromptControl` | `turn` is `PromptTurnContext`, `events` the agent's channel, `result` what the log got |
| `SessionReplay` | the fold of `replay.rs`, the leaf tree, copies | pure functions of a log |
| `SessionLog` | `SessionLogStore`, `SessionService`, transactions; extends `SessionReplay` | `log` and `manifest` are the two files, `tail` how the log ends, `tx` the transaction |
| `RuntimeCompaction` | token estimate and cut point | pure functions |
| `AgentTurn` | `Agent` and every node of `AgentTurnFlow`; extends `RuntimeCompaction` | `pc` is the node, `ctx` the turn context, `messages`, `steering`, `follow` the shared state |
| `RpcFeed`, `RpcLoop` | the task of an RPC run with its queue and adapter; commands, idempotency, answers | `RpcLoop` extends `RpcFeed`; one action per iteration of the loop |
| `InteractiveRoot`, `InteractiveLoop` | which surface gets a key; tasks, lent session, target | `InteractiveLoop` extends `InteractiveRoot`; a key is joined to the action it asks of the loop |
| `UiTranscript`, `TreeSelector` | event bridge, transcript, line cache, scrolling; the `/tree` selector | texts are sequences of event numbers, so a stale line is visible |
| `ProductEvents` | translation of agent events into product events and protocol lines; JSON and print mode | `jAdapter` is the protocol adapter, `jChannel` the broadcast receiver |
| `Delegation` | authorization, invocations, teams, confirmations in memory and log | `dStack` is the stack of contexts |
| `Plugins`, `Capabilities` | discovery, scripts, generations, hooks; snapshots and the tools agents get | `cOps` holds the snapshot of an operation and of its descendants |
| `FileEdits` | edit and write tools, mutation queues, self-healing edit | one file with two names; `fQueues` is the map of weak queues |
| `ToolOutput` | read pages, truncation, bash with process group, pipes and timer | a text is the lengths of its lines |
| `ProviderRequest`, `ProviderStream` | conversion of conversations; registry, retries, decoding and processing of nine APIs | `ProviderStream` extends `ProviderRequest`; the server is external |
| `Harness` | `AgentHarness`: hooks, handlers, observers, lazy streams | a stream is its program counter |
| `Settings` | settings files, menu, delta, save; key file | one table per file; several processes and an editor |
| `Screen`, `Editor` | `Tui::render_once` on a terminal, focus and overlays; the prompt editor | rows and lines are numbers |
| `*Proofs` | theorems, section 4 | |
| `MC...` | instances for TLC; modules of independent components run side by side, `part` or `scope` saying which a behaviour is about | |

Abstractions. Events, messages, texts and tool calls are numbers or small records; JSON, ids, clocks, wording
and usage totals are left out. What an operation computes is its result and its root event. The provider is a
choice: its stream ends with Done, with Error, or with neither. Writes fail or are cut after any event; a line
may be torn or lose its newline; a manifest may be truncated. In `PromptTurn` the agent is reduced to the
events it sends ahead of the flow and to where it looks at its token; `AgentTurn` has the details.
`PromptTurn` writes the session in one step, `SessionLog` has the steps of that. `SessionLog` assumes of a
commit that the transaction has nothing open, which is what `CommitClosed` of `PromptTurn` shows, here by
proof.

The constants of the product (64 clients, 64 receipts, 64 drafts, channels and windows of 128, the retained
window, limits of tools) are CONSTANTS; `MaxEvents`, `MaxOperations`, `MaxPrompts`, `MaxGeneration`,
`MaxFaults` and the like are bounds of the models and have no counterpart in the code.

## 3. Runs

Independent components share a run; its variable `part` (or `scope`) says which of them a behaviour is about,
so that their states add up instead of multiplying.

* `event_stream` (10,057 states): one emitter, one client, a window and a channel of two, four events, so that
  eviction, lag, gap and wrap-around of both happen. One emitter, because every product event is emitted by
  the task that polls `run()`. The retained window has no hole; a reconnect loses nothing and repeats at most
  the one event that is between numbering and broadcast; no cursor goes back or passes an event its client did
  not see; the stream implements `EventFeed`, in which each client gets each event or is told of a gap, and
  what is sent to a client that stays arrives.
* `submission` (667,525 states): one client with two generations and two operations of four kinds (a root
  event under its own id, a nested operation with a foreign root id, a change without root event, a read),
  early returns, dropped futures, takeover, detach, acknowledgement (also ahead of what was published) and
  shutdown at every point; in the scope `reader` one operation and a client that reads its state under two
  locks. Every running operation is owned and ends, its outcome stays until it is acknowledged, and a state
  that was read never hides an outcome its cursor covers.
* `session` (1,112,908 states), in three parts. `faults`: two operations and two faults (a failed or cut
  write, the death of the process), a switch, a fork. What callers were told is what every later replay finds,
  final markers are unique, opening settles what was in doubt. `branches`: three operations, the least that
  make a branch, a return and a third leaf. Manifest, memory, replay and tree agree. `prompt`: two prompts in
  each of three fronts; for RPC clients two control ids, drafts, takeover, detach, shutdown and dropped
  futures with a short agent run; for the terminal two turns with one tool call; for print mode two turns with
  two. RPC clients send aborts and steering, the terminal follow-ups too, which the coordinator treats alike.
  Two commands show reordering and repetition, two prompts a command that crosses from one to the next. With a
  single client the test for another owner's control is not exercised here; the proof covers it. Control ids
  are interchangeable, hence the symmetry.
* `agent_turn` (235,197 states): runs of up to two turns with three texts sent at any moment, two tools in
  parallel or in sequence, compaction, failing hooks and abort, and two runs of the same agent. No text is
  lost, doubled or overtaken, requests carry results behind their calls, the stream ends with one terminal
  event and the agent can be prompted again.
* `front_ends` (477,733 states): the RPC loop with retried commands, controls and a lagging receiver, one
  idempotency key, at most three events per run, a window of one, a channel and a queue of two: a queue of one
  can never hold a lag report with events behind it. Every queue is full at some time. The interactive loop
  with tasks that hold the session, that complete, fail or panic, and three sessions. A repeated command acts once, events precede the
  end of their prompt, the loop never blocks for good, and the session, or its loss, comes back from every
  task.
* `services` (182,421 states): delegations of depth up to three with confirmations, two of which may be queued
  in one go, one fault and restarts (profiles allow two children in parallel and no batch of the run asks for
  more, so that limit is not reached here; the proof of `DelegationSound` is for every limit); plugin reloads over two directories edited in between; snapshots of an operation and its children
  over three generations; pages of files, searches with entries that cannot be read, and bash output at their limits. Children stay within their policy,
  generations are whole, handles follow tools, output that is cut says so, and calls end.
* `edges` (1,373,984 states): answers of nine provider interfaces in chunks that are cut anywhere, with
  retries; two streams of a harness with handlers and observers; two tasks that edit one file under two names,
  one of them perhaps a self-healing edit, dropped at any await, with writes that fail before or after the file
  was truncated, on bodies whose lines differ in style only; two processes and an editor that share
  settings files. One final event, hooks in order, edits neither lost nor misplaced, settings that a save does
  not forget.
* `ui` (764,646 states): frames of up to three lines on both surfaces of one or two rows, with focus and
  overlays; four keys of the editor, among them a letter of two bytes and the slash that asks for completions,
  from an empty text or a draft; transcripts of three events; the tree selector over small forests; JSON
  and print mode with a receiver that may lag. The screen shows the frame, keys lose no text, rows and
  selection stay with their entries, protocol lines are well nested. The constraint `Afloat` stops at a frame
  that sinks below the screen (see section 5), after which the screen promises nothing.

Runs that refute a statement of the repository (the findings):

* `submission_ack_race`: a client that acknowledges the root event before `run()` has finalized makes `run()`
  return an error for an operation that succeeded.
* `session_half_lifecycle`: after startup recovery, the half-written events of an interrupted prompt are
  replayed as history, since `operation.recovered` counts as a final marker.
* `agent_compaction`: the cut point of a compaction separates a tool call from its result.
* `prompt_late_control`: a control sent by the terminal while a finished prompt executes its delegations finds
  the channel closed; the `?` drops `run()` and the prompt is not written to the session.

Each property of a passing run has a mutant in `PROJECT.json`: a version of one mapped definition with a
plausible mistake, under which TLC finds the property violated.

CHECK_DEADLOCK is off where the process may stop for good (bounds used up, process ended).

### Fairness

Weak fairness is assumed only of steps that the code takes by itself once it is polled.

* `EventStream`: the emitter between its two steps continues (no await lies between them); a client that stays
  polls its receiver, and asks for a snapshot when told of a lag or gap.
* `Submission`: the future of `run()` or `shutdown()` is polled or dropped, and what an operation awaits
  (provider, tools) ends.
* `AgentTurn`, `Delegation`: the consumer polls the stream or future, and provider, hooks and tools end;
  `max_turns` is set, and the depth of delegations is limited.
* `ToolOutput`: the call is polled and its timer fires; nothing is assumed of the command.
* `RpcLoop`: the loop and the task it spawned are scheduled.
* `InteractiveLoop`: the task opens its session, ends (completes, fails or panics), and the loop, which waits
  in a `select!`, takes its end.

Nothing assumes that a client acts, that an abort comes or that a fault does not. The other modules state
safety only.

## 4. Proofs

Every theorem holds for all values of the constants allowed by the named assumptions of the module that
declares them (capacities of at least one, bounds that are natural numbers, tables that are functions); TLC
evaluates those in every run. The theorems are about the specifications of the modules themselves, not of the
`MC` modules, and use no fairness.

**Event stream** (`EventStreamProofs`): `TypeCorrect`, `WindowCorrect` (the window is the newest events
without a hole) and `HandoffCorrect` (nothing is lost at the cut), for any number of emitters. The inductive
invariant `StreamInv` adds `ReceiverInChannel` (no receiver is ahead of the channel): without it a receiver
created at a cut could count events that were never sent. The key lemma is `ReplayComplete`: every event that
was numbered after the replay's base is in the replay; it needs the window to be contiguous.

**Refinement of the feed** (also `EventStreamProofs`): `CursorsCorrect` (no cursor passes an event its client
did not get, was not told of and did not give up) and `FeedSafety` (`Spec => Feed!Safety`: initial states map
to initial states, each step to a step of `EventFeed` or a stutter). Both carry the hypothesis `OneEmitter`.
It is needed: two emitters could broadcast in the other order than they numbered, and a client that received
the later event first would skip the earlier as already seen. It is justified: the product emits only from the
task that polls `run()`. `FeedInv` adds that the channel is in the order of the numbers (`InOrder`), that what
a client's cursor or receiver has passed is covered (`ClientBehind`), and that only the event under way at the
cut of a reconnect can come twice (`OverlapsOnce`).

**Submissions** (`SubmissionProofs`): `SubmissionCorrect` (`SubmissionSound`), `SubmittedForward` (a submitted
operation moves only forward, and only an acknowledgement of its own client clears it), `ViewsCorrect`
(`ViewNotStale`) and `OutcomesCorrect` (the outcome is shown until acknowledged and not after).
`SubmissionInv` says which steps of `run()` leave which record behind: counts of owners (`OwnerCounts`), a
registry that closes once (`RegistryCloses`), roots that were admitted (`RootsAdmitted`), records that belong
to the operation `run()` is at (`RecordShape`, `RecordOwned`). The other theorems add `ViewBehind` (the cursor
a reader took was published), `UntilAcked` and `AnchorAhead` (what is anchored at an event is not yet
acknowledged). `OutcomeUntilAcked` has a hypothesis in it, that clients acknowledge only what was published:
the coordinator stores an acknowledgement that is ahead, and the outcome is then cleared when it appears.

**Session log** (`SessionLogProofs`): `SessionTyped`, `LeafCommitted` (the leaf of
manifest and memory was committed by the log), `MarkedOnce` (no operation gets two final markers) and
`OpenedSettled` (opening leaves nothing in doubt), for any number of operations, items, faults, switches and
forks. `SessionInv` strengthens these with: operations in the log were begun (`LogOps`); the leaf of a
transaction that is being sealed is already committed (`TxLeaf`); a transaction that is open has written
nothing yet and collects only its own events, none of them final (`TxFresh`); during recovery nothing is in
doubt once the markers are written (`RecoveredSettled`). `EnumerateBijective` shows that a fork copies each
event once, which keeps markers unique; `StoreAppends` that a cut append is a prefix.

On top of these, `LogCorrect` (`LogSound`: what a caller was told, the status that replay folds and the
lifecycles that it shows agree with the log) and `LeavesCorrect` (`LeavesSound`: manifest, handle, replay and
leaf tree name the same leaves, parents come before their children, and the range recorded for a prompt holds
its own messages and calls). The argument has two halves. The first says what the replay of any
log in order (`Ordered`) computes, place by place: an operation's status is that of its marker
(`ReplayStatus`), an entry that still runs belongs to a recovered operation (`RunningRecovered`), the active
leaf is the one that the last event to move it named (`ActiveNames`), leaves and their tree
(`LeafElements`, `ReplayLeaves`, `TreeOfLeaves`), the ranges (`RangesOwn`: between the start and the commit of
a prompt only its own entries are added, and after the last compaction nothing moves them). `Ordered` is what
the transactions keep to: an operation starts with its start event (`StartsFirst`, `HasStart`), the events
of one that ended stand together, its marker last (`Closed`), what it opened is settled (`Settled`), each kind
of operation writes its own events (`OfKind`), and only committed leaves are switched to (`SwitchedTo`).
The second shows in `LogInv` that every step keeps the log in order, that an answer has its marker
(`ToldMarked`), and which leaf an append that the manifest does not have yet names (`LeafPointed`,
`LeafAgreed`): whole appends, prefixes of them, recovery markers anywhere later in the log, and forks, where
`CopyOrdered`, `CopyNames` and `CopyMarks` say what the copy of an ordered log keeps.

**Prompt turns** (`PromptTurnProofs`): `ControlsCorrect` (`ControlsSound`: commands reach the prompt they were
accepted for, in order, once per id; an abort of a working prompt ends it as aborted; a streaming prompt can
be controlled) and `TurnsRecorded` (`TurnRecorded`: a success leaves no message and no call open in its
transaction and has recorded every call). `PromptInv` has three parts. `ControlInv` follows a command from
receipt to application: what was applied and what is queued are together what was accepted for the bound
prompt (`AppliedFirst`, `QueuedRest`, `AcceptedFor`, `BoundToTurn`, `Undropped`), and the channel has one
reader (`OneReader`). `AgentInv` places the agent: which events it has sent ahead, where it may be when it is
aborted (`AgentAway`, `AbortKept`), which calls it started and ended (`AgentCalls`). `RecordInv` joins the two
ends of the agent's channel: the open message and the open calls of the transaction are those that the events
still in the channel will close (`MessageCloses`, `CallsClose`, `CallsStart`), so that nothing is open when
the channel is empty and the agent stopped. For a provider that does not number its calls `Clash` names the
prompts that fail on a second call of one tool.

**Agent** (`AgentTurnProofs`): `StreamCorrect` (`StreamSound`: one terminal event, and it is the last),
`CallsCorrect` (`CallsAnswered`: a request holds the results of every reply's calls, in the order of the
calls) and `TextsCorrect` (`TextsKept`: a text that was sent is in one place, is delivered in order and is in
the next request), for any number of texts, runs, turns and calls, every budget of the compaction and wherever
runs are aborted or dropped. `StreamInv` places the flow: what each node may find in its context and what was
emitted before it (`ContextKept`, `EventsKept`), and that the calls of a reply are pending, open or ended, each
once (`CallsKept`). `AnsweredInv` says for the conversation of the agent and for that of the turn which replies
are complete: all but those of aborted runs, and but the last while its tools run. `TextsInv` is the accounting
(conversation, both drained queues and both live queues hold each text once and in order, and together all
that was sent but what was cleared, summarised or dropped); it needs `ContextCut`, that a compaction cuts a
context into what the summary replaces and what is kept, and drops only tool results between them.
`SteeringInv` follows the steering of a turn from the queue into the request.

**RPC loop** (`RpcLoopProofs`): `RpcCorrect` (`RpcSound`: each line is answered once, the session is in one
place, queued messages are drafts, retries are told the truth) and `ShownCorrect` (`RpcShown`: the events of a
run are shown in order and once, and when it gave its result every published event has been shown or is
accounted for), for any number of commands, keys and events and any capacity. `RpcInv` says that nothing is skipped on
the way of an event: each item of the queue is a lag report or comes next after what was accounted for before
it (`QueueChained`), and so do the item that the task holds and the place of its receiver (`TaskChained`); and
it says where the session, the task, the answers and the keys are (`RunInv`, `AnswerInv`, `KeyInv`). One step
needed care: a lag report may still be queued with events behind it when the run ends, and the loop stops at
the report and never writes those (`finish_coding_running_prompt`, `protocol/rpc/prompt.rs:1071`). They are
accounted for by the fresh snapshot that the report asks for, which holds everything published up to then
(`Drained` of `RpcFeed`). A queue of one cannot show this, hence the bound of two in the run.

**Capabilities and delegation** (`ServicesProofs`): `HandlesCorrect` (`HandlesFollowTools`), for every chain of
delegations, from `SnapshotsSound`: each snapshot's handles are used by its tools, and a child's tools are
among its parent's. `DelegationCorrect` (`DelegationSound`: contexts within depth and lineage, a queue that is
what the log restores, a request acted on once), for every policy, profile, team and number of requests,
failed writes and crashes. `DelegationInv` says where a request can be: under way in a frame of the stack, in
the queue of confirmations or settled in the log, never in two of them (`Held`, `QueueUnsettled`,
`LogSettled`); that what a frame has in hand fits the context it runs in (`FrameSound` in `Held`); that what
was acted on was asked for and allowed (`Acted`, `LogAsked`); and that without failed writes every request
that needs a confirmation is in the queue or about to be (`WaitingKept`). The queue is compared with a replay
of the log that is a recursive function; the proofs reason about it place by place.

**File edits** (`EdgesProofs`): `OneMutatorCorrect` (calls of one key are never both between lock and
unlock, although the map holds queues weakly and makes them anew, and no edit replaces a text it did not read)
and `HealReportCorrect` (what a self-healing edit reports and how many patches it writes); both are parts of
`EditsSound`. `MutatorInv` says that a queue in use is the one the map finds and is held by one call
(`QueueKept`), which kinds of call are where (`CallPlaces`) and that, as long as no call was dropped or queued
under a raw path, the text that an edit read is still the file's when it writes (`TextKept`).

**Settings** (`EdgesProofs`): `SettingsCorrect` (`SettingsKept`), from `SettingsInv`: the shape of the
files, that the global file holds what its last writer changed (`WriterKept`) and what a person wrote
(`PersonalKept`), and that each process shows what it uses.

**Harness** (`EdgesProofs`): `SerialCorrect` (`HarnessSerial`: one turn at most holds the phase, the agent
runs exactly when that turn runs it, and `run()` never panics on a running agent), `ObserversCorrect`
(`ObserversTold`: who is there from a stream's first poll on hears exactly what it yields, and Settled once
and last) and `HarnessCorrect` (`HarnessSound`: these two, and what a request sends is what the last of its
handlers made of it), for any number of prompts, handlers, observers and events, wherever streams are dropped.
`SerialInv` ties the guards a stream holds to where it is (`GuardsFit`) and says that
the one holder of the phase is what keeps it taken: a stream that is being dropped holds its guards until they
are released one by one, which is why the phase cannot be read off the streams that run. `HeardInv` (`Heard`)
says that those who watch are still subscribed, that a refused stream has kept them, and that no one has heard
of a stream that was not polled. `PatchInv` says what the handlers of a stream have answered so far.

Where a definition is a recursive function over the places of a sequence (replays, queues, the fold of the
handlers' patches), the proofs go by the least place at which a claim fails: the natural numbers are well
founded (`WFMin` of `WellFoundedInduction`), and unlike the induction theorems that lemma takes no operator.

Only model-checked:

* liveness (delivery in `ImplementsFeed`, `SubmissionsEnd`, `RunEnds`, `RunsEnd`, `LoopDelivers`,
  `DelegationEnds`, `BashCallEnds`): fairness and ENABLED are out of the prover's reach;
* what an edit writes (`EditExact` of `EditsSound`);
* so far, `InteractiveLoop`, `Plugins`, `ToolOutput`, `ProviderStream`, `ProductEvents`, `Screen`,
  `UiTranscript`, `TreeSelector` and `Editor`.

## 5. Known disagreements

Besides the four findings, reading and modelling showed the following. They have no run of their own; the
properties state what does hold.

Sessions, submissions and prompts

* A detach or shutdown between `mark_submitted` and `mark_running` leaves an Accepted operation for good
  (`cs/mod.rs:209`; phase 8 08-RESEARCH.md:32).
* Ranges of leaves committed before a compaction are not moved (`cs/session_log/replay.rs:741`).
* A reconnect may repeat one event (`cs/event_service.rs:300`; 08-RESEARCH.md:22).
* Agent invocation, teams and self-healing edit publish their root under another id
  (`cs/agent_invocation_flow.rs:255`; phase 9 09-CONTEXT.md:28).
* `mark_submitted` clears the draft it finds, also one set after the lease was prepared (D-15).
* An acknowledgement ahead of the newest event is stored (08-02-PLAN:77).
* A fork copies the abandoned siblings that precede the cut; a prompt is hydrated from the whole transcript,
  whatever leaf is active.
* The manifest's leaf is not repaired after a crash between log and manifest. A torn line or manifest makes a
  session unreadable. Two processes on one session are not excluded.
* The Google provider names tool calls by function (`pi-ai/src/providers/google/process.rs:71`); a prompt's
  second call of a tool fails it.
* A command accepted and still queued when the stream ends is not applied. An abort after the agent decided to
  stop leaves a success. A failing delegation check after an abort request gives Failed.
* Steering texts are applied to the agent and not recorded in the session.
* After a dropped `run()` the stale sender is bound to the next submitted prompt, which cannot be controlled;
  dropped before its first poll, it leaves a receiver that makes the next handle Busy.
* Shutdown takes the binding, so the prompt that `shutdown()` waits for cannot be aborted by its client.
* Receipts are never released: a client id can send 64 controls in its life.

Agent and harness

* Follow-ups are appended before steering that arrived at the same stop; a dropped stream loses texts already
  taken into the turn's context; a reply that ends with Length, Stop or Error and holds tool calls leaves them
  unanswered; trailing tool results can be dropped by a compaction.
* `AgentHarness::prompt` restores messages it took when it was called (`harness.rs:522`), so a stream that was
  created before another's turn ended replaces that turn's messages. A message added or an abort sent while
  hooks run is lost. A dropped handler still runs when the later prompt needs no provider hook
  (`harness.rs:645`).

Front ends

* The RPC loop does not acknowledge roots, so a second RPC prompt of a client is refused with
  SubmittedRegression. A control or a prompt with a cursor while shutdown is pending, a failed operation or a
  panic ends the loop; a pending shutdown is then never answered. Cursor 0 is never a gap, so events that were
  trimmed are skipped in silence. Steering queued while idle is mirrored as drafts and never delivered.
* In the terminal, `/clone` shows the copy while the next prompt goes to the original; `/reload` rebuilds the
  target from the command line; a panic drops the session and the next prompt opens a new one while the old
  one is shown; `@missing-file` and an unreadable session end the loop; text submitted while a task runs that
  can only be aborted is lost; lagged product events are skipped in silence.
* In JSON mode a lagging receiver reports failure although the operation goes on; with delegations every
  child's outcome writes its own `agent_end`; equal messages of two turns are listed once
  (`protocol/events.rs:808`); a failed prompt leaves a message without `message_end`.
* The transcript counts rows with the limit for tool results even when they are expanded; a repeated call id
  puts the second result into the first item. A delegation tool whose summary is not JSON is shown as an ordinary
  tool (`interactive/event_bridge.rs:231`, left out of `UiTranscript`). Removing the label of a folded entry hides its descendants under
  the labeled-only filter.

Services, tools and providers

* Confirmations required inside a directly invoked agent or team are announced and never queued; after a
  failed child the rest of the batch is dropped without events; a crash between approval and execution loses
  the work; the first delegated child gets a permissive snapshot, since the parent's is not passed on
  (`cs/delegation_execution_service.rs:31`;
  docs/superpowers/plans/2026-07-09-capability-snapshot-integration-plan.md:2031).
* The fallback of a plugin's tool from `input_schema` to `parameters` is dead: a missing key reads as nil
  without an error, becomes null and the tool is refused (`cs/plugin_load_flow.rs:1514`).
* A reload that leaves no plugin and no diagnostic installs no generation. Of two tools with one name the last
  one's function runs. Export is reported Busy though admitted while busy (`cs/intent_router.rs:178`).
* A list of edits of which one needs fuzzy matching is located as a whole on the normalized text
  (`tools/edit.rs:132`), and occurrences are counted there with the `oldText` as given (:145). An `oldText`
  that occurs once in the file may therefore replace an earlier line that differs from it only in style, and
  one that occurs twice only after normalisation is not detected, against :18. `EditExact` promises
  a unique line only to calls whose old texts are all in the file as given. A write that fails after the file
  was opened leaves it truncated. A file missing under a symlinked name is queued under the raw path, so two calls can overlap. A
  dropped call's blocking write continues after its lock is released. A failed self-healing edit leaves its
  last patch.
* A read limit of 0 gives a page without progress; grep reports its limit reached at exactly that many
  matches; dropping a bash call kills only the child, not its group. grep, find and ls leave out what they
  cannot read without a notice (`tools/grep.rs:142`, :260, :268; `find.rs:127`; `ls.rs:63`).
* Malformed final arguments of a tool call become `{}` (`pi-ai/src/util/json_repair.rs:38` says they should
  fail closed); an SSE event whose data line and blank line come in two chunks is lost (`util/sse.rs:13`); a
  body cut between events gives Done with Stop for most providers; Mistral normalizes ids of calls and not of
  results (`mistral/convert.rs:103`); a hanging body cannot be cancelled until its next event.

Terminal and settings

* With `clear_on_shrink` off, a frame taller than the terminal that is followed by a shorter one can leave the
  cursor's row blank (`pi-tui/src/tui.rs:714`). Overlay rows count from the first line of the frame. Focusing
  an overlay twice can leave the focus with a hidden one.
* Cursor moves, undo, redo and yanks keep the completion list (`pi-tui/src/components/editor.rs:403`).
  Accepting an entry then cuts the prefix's bytes off the text before the cursor
  (`pi-tui/src/autocomplete.rs:180`): other columns are replaced, and when the cut falls inside a letter of
  two bytes, as in `é /` after two moves to the left and Tab, the program panics. The model follows
  it there and stops (`panicked`); `EditorKeeps` says that this is the only way. No document claims otherwise,
  so there is no run that refutes it.
* Paste markers in the kill ring survive a submit that resets the pastes; a paste end marker split over two reads is not recognised
  (`pi-tui/src/stdin_buffer.rs:76`).
* The delta of settings is never cleared and always saved globally; after `/reload` the next save reverts a
  hand edit; an unparseable settings file is replaced by the delta alone (against `config/settings.rs:365`);
  two processes may overwrite each other between read and write; a login after a failed load wipes the other
  keys.

## 6. Not modelled

See the components with status `not_modelled`: resources and themes, export, the stub crates, transcript
resources of the agent. Layout of what is rendered, wording, model lists and argument parsing are sequential
and of little interest to a model checker. Within modelled components: I/O errors of the terminal and overlays
that do not capture input (`Screen`), a key file cut by a crash (`Settings`), attachments, variables and
quoted paths in completions (`Editor`), and the entry types and ids that a search of the tree also matches
(`TreeSelector`). The legacy turn loop in `agent_turn_flow/runtime.rs` is not used by
the product. Sessions that are not persisted are left out of `PromptTurn`.

## 7. Plan

Done: the models of section 2, the abstract feed and its refinement, the theorems of section 4.

Next, in this order:

1. `InteractiveLoop` (session held or lent), then `ToolOutput` and `ProviderStream`.
2. An abstract specification of a session (operations with an outcome, written once), which `SessionLog`
   implements.
