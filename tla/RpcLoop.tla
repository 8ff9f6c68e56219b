------------------------------ MODULE RpcLoop ------------------------------
(***************************************************************************)
(* run_rpc_loop and RpcState: one client on a line stream, one session that  *)
(* is either held by the loop or lent to the task of the running operation,  *)
(* the idempotency records, and the answers the client gets.  Each command   *)
(* is one iteration of the loop; the task of RpcFeed runs beside it.         *)
(***************************************************************************)
EXTENDS RpcFeed

CONSTANTS
    Queues,        \* the queues of control messages: steering, follow_up
    Keys,          \* idempotency keys the client uses
    IdemLimit,     \* RPC_IDEMPOTENCY_RECORD_LIMIT, 64 in the product
    MaxDrafts,     \* MAX_DRAFTS of the client registry
    MaxCommands    \* bound: input lines

ASSUME LoopAssumption ==
    /\ IdemLimit \in Nat \ {0}
    /\ MaxDrafts \in Nat \ {0}
    /\ MaxCommands \in Nat
    /\ "no_key" \notin Keys

VARIABLES
    loop,       \* "open", "eof" (input_closed), "ended", "failed" (the loop returned Err)
    count,      \* input lines read so far
    answers,    \* per line: responses written
    place,      \* where the CodingAgentSession is: "none", "state", "task"
    runtime,    \* lifecycle of the session's runtime
    submitted,  \* the client record's submitted_operation; anchor when Terminal
    conn,       \* client_connection: "none", "live", or "stale" (of a dropped session)
    drafts,     \* control drafts the client record holds, per queue
    queued,     \* RpcState::steering and follow_up, per queue
    running,    \* CodingRunningPrompt, its feed left out
    records,    \* idempotency_records: per remembered key, completed
    order       \* idempotency_order

vars == <<feed, loop, count, answers, place, runtime, submitted, conn, drafts, queued,
          running, records, order>>

NoKey == "no_key"

Idle == [kind |-> "none", key |-> NoKey, pending |-> 0]
Streaming == running # Idle
NotSubmitted == [st |-> "None", anchor |-> 0]

Init ==
    /\ FeedInit
    /\ loop = "open"
    /\ count = 0
    /\ answers = [c \in 1..MaxCommands |-> 0]
    /\ place = "none"
    /\ runtime = "Running"
    /\ submitted = NotSubmitted
    /\ conn = "none"
    /\ drafts = [q \in Queues |-> 0]
    /\ queued = [q \in Queues |-> 0]
    /\ running = Idle
    /\ records = <<>>
    /\ order = <<>>

----------------------------------------------------------------------------
(* Answers.                                                                  *)

\* A line is read; the handler below decides what is written.
ReadLine ==
    /\ loop = "open"
    /\ count < MaxCommands
    /\ count' = count + 1

Answered(c) == answers' = [answers EXCEPT ![c] = @ + 1]

\* The handler answers (an error counts as an answer) and the loop goes on.
Reply == Answered(count + 1) /\ UNCHANGED loop

\* A `?` in a handler leaves run_rpc_loop with an error.
Fail == loop' = "failed" /\ UNCHANGED answers

----------------------------------------------------------------------------
(* Idempotency.                                                              *)

\* idempotent_retry_response: the key was used, for this command or another.
Used(key) == key # NoKey /\ key \in DOMAIN records

\* remember_idempotency_key, the key not being in the records, and the
\* completion that follows at once for an operation run inside its handler.
Remember(key, done) ==
    /\ order' = IF key = NoKey THEN order
                ELSE LET all == Append(order, key)
                     IN SubSeq(all, 1 + Len(all) - Min({IdemLimit, Len(all)}), Len(all))
    /\ records' = [k \in ToSet(order') |-> IF k = key THEN done ELSE records[k]]

\* mark_idempotency_complete.
Completed(key) == [k \in DOMAIN records |-> k = key \/ records[k]]

----------------------------------------------------------------------------
(* The client connection.                                                    *)

\* record(): the connection's calls succeed; with a connection and not Connected
\* they are lifecycle errors.
Connected == conn = "live" /\ runtime = "Running"

\* ensure_client_connection enqueues what is queued under ids 0, 1, ..., so a
\* draft of that id is replaced.
Mirrored == [q \in Queues |-> Max({drafts[q], queued[q]})]

\* It fails when the registry refuses a draft.
Mirrorable == \A q \in Queues : queued[q] <= MaxDrafts

\* enqueue_steer, enqueue_follow_up: the draft is dropped when it is refused.
Enqueue(q) ==
    /\ queued' = [queued EXCEPT ![q] = @ + 1]
    /\ drafts' = IF ~Connected \/ queued[q] >= MaxDrafts THEN drafts
                 ELSE [drafts EXCEPT ![q] = Max({@, queued[q] + 1})]

----------------------------------------------------------------------------
(* Operations the loop lends its session to.                                 *)

\* The task is spawned with the session; the loop keeps the handle.
Lend(kind, key) ==
    /\ StartFeed
    /\ place' = "task"
    /\ running' = [kind |-> kind, key |-> key, pending |-> 0]
    /\ Remember(key, FALSE)

\* start_coding_session_prompt: the connection is made if there is none, the
\* prompt draft set and the submission prepared; each of them fails unless the
\* runtime is running.
StartPrompt(key) ==
    /\ ~Streaming
    /\ ~Used(key)
    /\ IF Connected \/ (conn = "none" /\ runtime = "Running" /\ Mirrorable)
       THEN /\ Lend("prompt", key)
            /\ conn' = "live"
            /\ drafts' = IF conn = "live" THEN drafts ELSE Mirrored
            /\ Reply
            /\ UNCHANGED <<runtime, submitted, queued>>
       ELSE /\ Fail
            /\ UNCHANGED <<feed, place, runtime, submitted, conn, drafts, queued, running,
                           records, order>>

\* The handler took or opened a session, found nothing to run and put it back.
PutBack ==
    /\ place' = "state"
    /\ Reply
    /\ UNCHANGED <<feed, runtime, submitted, conn, drafts, queued, running, records, order>>

\* A key that is new, and no operation running; otherwise the line is only
\* answered (AnswerOnly).
Fresh(key) == ~Streaming /\ ~Used(key)

LendDelegated(key) ==
    /\ Lend("delegated", key)
    /\ Reply
    /\ UNCHANGED <<runtime, submitted, conn, drafts, queued>>

\* handle_invoke_agent: the session is opened to look the profile up; one that
\* is unknown is an error with the session kept.
InvokeAgent(key) == Fresh(key) /\ (PutBack \/ LendDelegated(key))

\* handle_invoke_team: the same with a team.
InvokeTeam(key) == Fresh(key) /\ (PutBack \/ LendDelegated(key))

\* handle_approve_delegation: only a held session has pending confirmations;
\* the approved one runs as an agent or a team invocation.
ApproveDelegation(key) ==
    /\ Fresh(key)
    /\ place = "state"
    /\ PutBack \/ LendDelegated(key)

\* The task reaches session.run: admission needs a running runtime, and a
\* prompt's submission a client record with nothing submitted.
Admit ==
    /\ task.at = "start"
    /\ LET refused == \/ runtime # "Running"
                      \/ running.kind = "prompt" /\ submitted.st # "None"
       IN /\ task' = [task EXCEPT !.at = IF refused THEN "drain" ELSE "op", !.ok = ~refused]
          /\ submitted' = IF refused \/ running.kind # "prompt" THEN submitted
                          ELSE [st |-> "Running", anchor |-> 0]
    /\ UNCHANGED <<published, queue, closed, applied, shown, excused, loop, count, answers,
                   place, runtime, conn, drafts, queued, running, records, order>>

\* run returns, its terminal event emitted and the submission made terminal.
OperationEnds(ok) ==
    /\ task.at = "op"
    /\ task.hold = Nothing
    /\ published' = published + 1
    /\ task' = [task EXCEPT !.at = "drain", !.ok = ok]
    /\ submitted' = IF running.kind # "prompt" THEN submitted
                    ELSE [st |-> "Terminal", anchor |-> published + 1]
    /\ UNCHANGED <<queue, closed, applied, shown, excused, loop, count, answers,
                   place, runtime, conn, drafts, queued, running, records, order>>

TaskStep ==
    /\ loop \in {"open", "eof"}
    /\ \/ Admit
       \/ \E ok \in BOOLEAN : OperationEnds(ok)
       \/ /\ Emit \/ Forward \/ Push \/ DrainReceiver \/ TaskDies
          /\ UNCHANGED <<loop, count, answers, place, runtime, submitted, conn, drafts, queued,
                         running, records, order>>

\* finish_coding_running_prompt: the session comes back, a pending shutdown is
\* carried out and answered, and a failed operation ends the loop.
Finish ==
    /\ Streaming
    /\ TaskEnded
    /\ AdapterIs(Drained)
    /\ queue' = <<>>
    /\ task' = NoTask
    /\ running' = Idle
    /\ records' = Completed(running.key)
    /\ IF task.at = "died"
       THEN /\ place' = "none"
            /\ loop' = "failed"
            /\ UNCHANGED <<published, answers, runtime, queued>>
       ELSE /\ place' = "state"
            /\ queued' = [q \in Queues |-> 0]
            /\ loop' = IF task.ok THEN loop ELSE "failed"
            /\ IF running.pending = 0 THEN UNCHANGED <<published, answers, runtime>>
               ELSE /\ Answered(running.pending)
                    /\ runtime' = "ShutDown"
                    /\ published' = published + 1
    /\ UNCHANGED <<count, submitted, conn, drafts, order>>

----------------------------------------------------------------------------
(* Commands.                                                                 *)

\* An answer and nothing else: hello, the queries and settings, a line that
\* does not parse, an unsupported or invalid command, a bad key, images, a
\* retry of a remembered key, a command refused because an operation runs.
AnswerOnly ==
    /\ Reply
    /\ UNCHANGED <<feed, place, runtime, submitted, conn, drafts, queued, running,
                   records, order>>

\* handle_list_agent_profiles, handle_list_team_profiles: a session opened for
\* the listing is not kept.
ListProfiles == AnswerOnly

\* session.run inside a handler: the key is remembered before and completed
\* after it, whether it succeeds or not; its events are drained at once.
RunInHandler(key) ==
    /\ Remember(key, TRUE)
    /\ place' = "state"
    /\ published' \in published..(published + 1)
    /\ Reply
    /\ UNCHANGED <<task, queue, closed, applied, shown, excused, runtime, submitted, conn,
                   drafts, queued, running>>

\* handle_self_healing_edit: a session is opened if there is none.
SelfHealingEdit(key) == Fresh(key) /\ RunInHandler(key)

\* handle_set_default_agent_profile: an unknown profile keeps the session.
SetDefaultAgentProfile(key) == Fresh(key) /\ (PutBack \/ RunInHandler(key))

\* handle_reject_delegation: a held session and a pending confirmation.
RejectDelegation(key) ==
    /\ Fresh(key)
    /\ place = "state"
    /\ PutBack \/ RunInHandler(key)

\* handle_plugin_command: loads the plugins of a session it has to open first,
\* runs the command, and keeps the session whatever came of it.
PluginCommand == ~Streaming /\ PutBack

\* handle_reload: the plugins are loaded again.
Reload == ~Streaming /\ PutBack

\* steer and follow_up with no run: queued.
QueueMessage(q) ==
    /\ ~Streaming
    /\ Enqueue(q)
    /\ Reply
    /\ UNCHANGED <<feed, place, runtime, submitted, conn, running, records, order>>

\* steer, follow_up and abort for a running prompt: active_prompt_control reads
\* the client's state, which is an error of the loop when the runtime is not
\* running; a control accepted or rejected is answered.
ControlMessage ==
    /\ running.kind = "prompt"
    /\ IF conn # "none" /\ ~Connected THEN Fail ELSE Reply
    /\ UNCHANGED <<feed, place, runtime, submitted, conn, drafts, queued, running,
                   records, order>>

\* abort: the same way; with nothing running it is only answered.
AbortPrompt == ControlMessage

\* A prompt that carries the client's cursor while an operation runs.
ReconnectPrompt(cursor) ==
    /\ Streaming
    /\ IF conn = "none" THEN Reply /\ UNCHANGED <<feed, submitted>>
       ELSE IF ~Connected THEN Fail /\ UNCHANGED <<feed, submitted>>
       ELSE IF RetainedGap(cursor) THEN Reply /\ UNCHANGED <<feed, submitted>>
       ELSE /\ AdapterIs(Replayed(cursor))
            /\ submitted' = IF submitted.st = "Terminal" /\ published >= submitted.anchor
                            THEN NotSubmitted ELSE submitted
            /\ Reply
            /\ UNCHANGED <<published, task, queue>>
    /\ UNCHANGED <<place, runtime, conn, drafts, queued, running, records, order>>

\* detach: refused, and the connection kept, when the runtime is not running.
Detach ==
    /\ conn' = IF Connected THEN "none" ELSE conn
    /\ Reply
    /\ UNCHANGED <<feed, place, runtime, submitted, drafts, queued, running, records, order>>

\* Mutant of Shutdown: a second shutdown takes the place of the pending one.
ShutdownAgain ==
    /\ IF Streaming
       THEN /\ runtime' = IF runtime = "Running" THEN "ShuttingDown" ELSE runtime
            /\ running' = [running EXCEPT !.pending = count + 1]
            /\ UNCHANGED <<loop, answers, published, place>>
       ELSE /\ runtime' = "ShutDown"
            /\ place' = "state"
            /\ published' = IF runtime = "ShutDown" THEN published ELSE published + 1
            /\ Reply
            /\ UNCHANGED running
    /\ UNCHANGED <<task, queue, closed, applied, shown, excused, submitted, conn, drafts,
                   queued, records, order>>

\* shutdown: pending until the running operation gives the session back.
Shutdown ==
    /\ IF Streaming
       THEN /\ IF running.pending # 0 THEN Reply /\ UNCHANGED <<runtime, running>>
               ELSE /\ runtime' = IF runtime = "Running" THEN "ShuttingDown" ELSE runtime
                    /\ running' = [running EXCEPT !.pending = count + 1]
                    /\ UNCHANGED <<loop, answers>>
            /\ UNCHANGED <<published, place>>
       ELSE /\ runtime' = "ShutDown"
            /\ place' = "state"
            /\ published' = IF runtime = "ShutDown" THEN published ELSE published + 1
            /\ Reply
            /\ UNCHANGED running
    /\ UNCHANGED <<task, queue, closed, applied, shown, excused, submitted, conn, drafts,
                   queued, records, order>>

\* messages, queues, name, active session and the session itself are cleared.
DropSession ==
    /\ place' = "none"
    /\ runtime' = "Running"
    /\ submitted' = NotSubmitted
    /\ drafts' = [q \in Queues |-> 0]
    /\ queued' = [q \in Queues |-> 0]
    /\ published' = 0
    /\ applied' = 0
    /\ shown' = <<>>
    /\ excused' = 0

\* new_session: the session is dropped, and its connection with it unless the
\* detach is refused (the runtime was shut down); the records stay.
NewSession ==
    /\ ~Streaming
    /\ conn' = IF Connected \/ conn = "none" THEN "none" ELSE "stale"
    /\ DropSession
    /\ Reply
    /\ UNCHANGED <<task, queue, closed, running, records, order>>

\* A command: one line, one handler.
Command ==
    /\ ReadLine
    /\ \/ AnswerOnly
       \/ ListProfiles
       \/ \E key \in Keys \cup {NoKey} :
            \/ StartPrompt(key)
            \/ InvokeAgent(key)
            \/ InvokeTeam(key)
            \/ ApproveDelegation(key)
            \/ SelfHealingEdit(key)
            \/ SetDefaultAgentProfile(key)
            \/ RejectDelegation(key)
       \/ PluginCommand
       \/ Reload
       \/ \E q \in Queues : QueueMessage(q)
       \/ ControlMessage
       \/ AbortPrompt
       \/ \E cursor \in 0..published : ReconnectPrompt(cursor)
       \/ Detach
       \/ Shutdown
       \/ NewSession

\* The other branches of the loop's select, and its end.
LoopStep ==
    /\ loop \in {"open", "eof"}
    /\ \/ Finish
       \/ /\ Streaming
          /\ ReceiveQueued \/ QueueEnds
          /\ UNCHANGED <<loop, count, answers, place, runtime, submitted, conn, drafts, queued,
                         running, records, order>>
       \/ /\ loop = "eof"
          /\ ~Streaming
          /\ loop' = "ended"
          /\ conn' = IF Connected THEN "none" ELSE conn
          /\ UNCHANGED <<feed, count, answers, place, runtime, submitted, drafts, queued,
                         running, records, order>>

\* read_next_line returns None.
InputCloses ==
    /\ loop = "open"
    /\ loop' = "eof"
    /\ UNCHANGED <<feed, count, answers, place, runtime, submitted, conn, drafts, queued,
                   running, records, order>>

Next == Command \/ LoopStep \/ TaskStep \/ InputCloses

Spec == Init /\ [][Next]_vars

\* The task and the loop's select are polled; an operation that was admitted
\* ends, as the turn flow does once its provider answers.
Fairness ==
    /\ WF_vars(LoopStep)
    /\ WF_vars(TaskStep)

FairSpec == Spec /\ Fairness

----------------------------------------------------------------------------
Alive == loop \in {"open", "eof"}

TypeOK ==
    /\ FeedTypeOK
    /\ loop \in {"open", "eof", "ended", "failed"}
    /\ count \in 0..MaxCommands
    /\ place \in {"none", "state", "task"}
    /\ runtime \in {"Running", "ShuttingDown", "ShutDown"}
    /\ submitted.st \in {"None", "Running", "Terminal"}
    /\ conn \in {"none", "live", "stale"}
    /\ running.kind \in {"none", "prompt", "delegated"}
    /\ DOMAIN records = ToSet(order)
    /\ Len(order) <= IdemLimit

\* Every line the loop has handled was answered exactly once; the only one it
\* may still owe is the shutdown kept in pending_shutdown_response (a second
\* shutdown is refused, the first answered when the session is back).
AnsweredOnce ==
    \A c \in 1..count :
        \/ answers[c] = 1
        \/ (answers[c] = 0 /\ (running.pending = c \/ loop = "failed"))

\* The session is in one place: lent exactly while an operation is recorded as
\* running, and never lost by a handler that took it (a connection to a live
\* session implies the session is there); and a message queued before a run is
\* a draft of the client's record whenever a connection works, also after a
\* detach and a new connection.
SessionAndDrafts ==
    Alive => /\ place = "task" <=> Streaming
             /\ conn = "live" => place # "none"
             /\ task.at # "none" <=> Streaming
             /\ Connected => \A q \in Queues : drafts[q] >= Min({queued[q], MaxDrafts})

\* What a retry is told is true: a remembered key is incomplete exactly while
\* the operation started with it runs, so the key of a running operation is
\* never evicted by the record limit.
RetryTruthful ==
    Alive => /\ running.key # NoKey => running.key \in DOMAIN records
             /\ \A k \in DOMAIN records : ~records[k] <=> running.key = k

\* The client sees the events of a run in order and once, although replays of
\* a reconnect and the queue deliver the same ones, and the adapter never goes
\* past an event of the run without showing it, except those a cursor of the
\* client or a lag report accounts for (a cursor of 0 accounts for everything
\* that is no longer retained).
ShownExactly ==
    /\ \A i, j \in 1..Len(shown) : i < j => shown[i] < shown[j]
    /\ Streaming => Unshown = {}

\* When a run ends, everything its session published has been shown or is
\* accounted for, whatever was in the queue or in the receiver.
AllShownAtEnd ==
    [][Finish /\ task.at = "done"
         => (excused' + 1)..published \subseteq ToSet(shown')]_vars

\* A running operation gives its session back or ends the loop, and a pending
\* shutdown is then answered: the task is never stuck sending to a queue the
\* loop no longer reads after a lag report.
RunsEnd ==
    /\ (Streaming \/ running.pending # 0)
          ~> ((~Streaming /\ running.pending = 0) \/ loop = "failed")
    /\ [][running.pending # 0 /\ running'.pending = 0 /\ loop' # "failed"
             => answers'[running.pending] = 1]_vars

\* The loop answers each command once, keeps its session in one place and tells retries
\* the truth (protocol/rpc.rs, rpc/commands.rs, rpc/prompt.rs), whatever order commands,
\* results and failures come in.
RpcSound == TypeOK /\ AnsweredOnce /\ SessionAndDrafts /\ RetryTruthful

\* A client of the RPC mode is shown the events of a run exactly once and all of them by
\* its end, over reconnects, replays and lag reports.
RpcShown == []ShownExactly /\ AllShownAtEnd
=============================================================================
