-------------------------- MODULE InteractiveLoop --------------------------
(***************************************************************************)
(* run_started_interactive_loop: keys, the task of the running operation,    *)
(* its product events, the session the loop holds or has lent to the task,   *)
(* and the target that the next task opens when it holds none.  The keys     *)
(* that follow in one chunk after the one that started a task are dropped    *)
(* (process_input_events), which is the same as not pressing them.           *)
(***************************************************************************)
EXTENDS InteractiveRoot

CONSTANTS
    Profiles,      \* agent profiles
    MaxInputs,     \* bound: keys that reach the loop
    MaxSessions,   \* bound: sessions that are ever made
    MaxTaskEmits,      \* bound: product events per task
    AllEmit,       \* bound: FALSE when only the tasks with control emit events
    BusCap         \* capacity of the product event channel

ASSUME InteractiveAssumption ==
    /\ Profiles # {}
    /\ MaxInputs \in Nat
    /\ MaxSessions \in Nat \ {0}
    /\ MaxTaskEmits \in Nat
    /\ BusCap \in Nat \ {0}

VARIABLES
    uiLoop,      \* "open", "ended", or "failed" (the loop returned Err)
    inputOpen,
    inputs,      \* keys that reached the loop
    enabled,     \* SessionMode::Enabled
    coding,      \* coding_session: the session the loop holds, 0 for none
    target,      \* session_target: a session id, 0 for New
    cli,         \* the target the command line names
    ctxDefault,  \* default_agent_profile_id of the prompt context
    default,     \* default profile of each session
    made,        \* sessions made so far
    clientOf,    \* session the loop's client is connected to, 0 for none
    ptask,       \* PromptTask and the future it runs
    emitted,     \* product events of the running operation
    drawn,       \* those the root applied since the last snapshot
    apart        \* history: why the shown session need not be the next task's

settings == <<enabled, cli>>
loopVars == <<uiLoop, inputOpen, inputs, enabled, coding, target, cli, ctxDefault, default, made,
              clientOf, ptask, emitted, drawn, apart>>
interactiveVars == <<rootVars, loopVars>>

Ids == 1..MaxSessions

\* What the loop tells apart of a task: steering and follow-ups reach it, it moves
\* the session object to a new session, it sets the default profile, and how
\* finish_prompt shows its session: "replace" (finish_coding_prompt forgets the old
\* one first), "update", or "none".
Run(controlled, forks, sets, shows) ==
    [controlled |-> controlled, forks |-> forks, sets |-> sets, shows |-> shows]
PromptRun == Run(TRUE, FALSE, FALSE, "replace")
AgentRun == Run(TRUE, FALSE, FALSE, "update")
TeamRun == Run(TRUE, FALSE, FALSE, "update")
ApprovalRun == Run(FALSE, FALSE, FALSE, "update")
RejectionRun == Run(FALSE, FALSE, FALSE, "update")
SetDefaultRun == Run(FALSE, FALSE, TRUE, "update")
CompactRun == Run(FALSE, FALSE, FALSE, "replace")
SummaryRun == Run(FALSE, FALSE, FALSE, "replace")
EditRun == Run(FALSE, FALSE, FALSE, "update")
ReloadRun == Run(FALSE, FALSE, FALSE, "none")
PluginRun == Run(FALSE, FALSE, FALSE, "none")
ForkRun == Run(FALSE, TRUE, FALSE, "update")
NavigationRun == Run(FALSE, TRUE, FALSE, "replace")

NoPTask == [run |-> Run(FALSE, FALSE, FALSE, "none"), session |-> 0, opens |-> 0, at |-> "none", asks |-> {},
           aborted |-> FALSE, bus |-> <<>>, queue |-> <<>>, result |-> "none",
           profile |-> CHOOSE p \in Profiles : TRUE]
Running == ptask # NoPTask

InteractiveInit ==
    /\ status = "Idle"
    /\ surfaces = {}
    /\ editor = "empty"
    /\ enabled \in BOOLEAN
    /\ cli \in {0, 1}
    /\ target = cli
    /\ shownId = IF enabled THEN target ELSE 0
    /\ rootDefault = NoPTask.profile
    /\ uiLoop = "open"
    /\ inputOpen = TRUE
    /\ inputs = 0
    /\ coding = 0
    /\ ctxDefault = rootDefault
    /\ \E p \in Profiles : default = [s \in Ids |-> p]
    /\ made = 1
    /\ clientOf = 0
    /\ ptask = NoPTask
    /\ emitted = 0
    /\ drawn = <<>>
    /\ apart = {}

Key == uiLoop = "open" /\ inputOpen /\ inputs < MaxInputs /\ inputs' = inputs + 1

----------------------------------------------------------------------------
(* Starting a task.                                                          *)

\* start_*_task and PromptTask::spawn_*: the session goes into the task.
Start(run, profile) ==
    /\ ptask' = [NoPTask EXCEPT !.run = run, !.session = coding, !.opens = target,
                              !.at = "spawned", !.profile = profile]
    /\ coding' = 0
    /\ status' = "Running"
    /\ emitted' = 0
    /\ UNCHANGED <<uiLoop, inputOpen, settings, target, ctxDefault, default, made, clientOf, drawn,
                   apart, shownId>>

\* A `?` leaves the loop.
FailLoop ==
    /\ uiLoop' = "failed"
    /\ UNCHANGED <<inputOpen, settings, coding, target, ctxDefault, default, made, clientOf, ptask,
                   emitted, drawn, apart, status, shownId>>

KeepLoop == UNCHANGED <<uiLoop, inputOpen, settings, coding, target, ctxDefault, default, made,
                        clientOf, ptask, emitted, drawn, apart>>

\* A prompt; a file it refers to that cannot be read ends the loop.
SubmitPrompt ==
    /\ Key
    /\ SlashCommand
    /\ Start(PromptRun, ptask.profile) \/ FailLoop
    /\ UNCHANGED rootDefault

\* /agent:<id> <task>, or the task the profile menu asked for.
AgentCommand ==
    /\ Key
    /\ SlashCommand \/ GiveTask
    /\ Start(AgentRun, ptask.profile)
    /\ UNCHANGED rootDefault

\* The same for a team.
TeamCommand == Key /\ (SlashCommand \/ GiveTask) /\ Start(TeamRun, ptask.profile) /\ UNCHANGED rootDefault

\* /self-healing-edit.
SelfHealingEditCommand == Key /\ SlashCommand /\ Start(EditRun, ptask.profile) /\ UNCHANGED rootDefault

\* /plugin-command, a plugin's slash command, a bound key or the form of a dialog.
RunPluginCommand ==
    /\ Key
    /\ SlashCommand \/ SubmitDialog
    /\ Start(PluginRun, ptask.profile)
    /\ UNCHANGED rootDefault

\* /compact: a shown session is needed, or start_compact_task would end the loop.
Compact == Key /\ CompactCommand /\ Start(CompactRun, ptask.profile) /\ UNCHANGED rootDefault

\* /branch-summary, with the same condition.
BranchSummary ==
    /\ Key
    /\ BranchSummaryCommand
    /\ Start(SummaryRun, ptask.profile)
    /\ UNCHANGED rootDefault

\* /fork, or the second escape.  start_fork_task needs a held session.
Fork ==
    /\ Key
    /\ ForkCommand \/ EscapeFork
    /\ IF coding # 0 THEN Start(ForkRun, ptask.profile)
       ELSE KeepLoop /\ UNCHANGED <<status, shownId>>
    /\ UNCHANGED rootDefault

\* start_tree_navigation_fork_task: a session without a leaf is only forked.
NavigateFork == Start(ForkRun, ptask.profile)

\* An entry chosen in the tree: the shown leaf, or another one.
ChooseEntry ==
    /\ Key
    /\ ChooseTreeEntry
    /\ \/ Start(NavigationRun, ptask.profile)
       \/ NavigateFork
       \/ KeepLoop /\ UNCHANGED <<status, shownId>>
    /\ UNCHANGED rootDefault

\* The profile menu sets the default: at once in the root, by a task in the session.
UseProfile(p) ==
    /\ Key
    /\ ChooseProfile
    /\ rootDefault' = p
    /\ IF coding # 0 THEN Start(SetDefaultRun, p)
       ELSE /\ ctxDefault' = p
            /\ UNCHANGED <<uiLoop, inputOpen, settings, coding, target, default, made, clientOf,
                           ptask, emitted, drawn, apart, status, shownId>>

\* /delegations opens the menu when the held session has pending confirmations.
ListDelegations ==
    /\ Key
    /\ SubmitLine
    /\ \/ coding # 0 /\ Open("delegations")
       \/ editor' = "empty" /\ UNCHANGED surfaces
    /\ KeepLoop
    /\ UNCHANGED <<status, shownId, rootDefault>>

\* An answer to a confirmation: from the menu or as a command.  The selection may
\* not resolve to one pending confirmation.
Approve ==
    /\ Key
    /\ SlashCommand \/ ChooseConfirmation
    /\ \/ coding # 0 /\ Start(ApprovalRun, ptask.profile)
       \/ KeepLoop /\ UNCHANGED <<status, shownId>>
    /\ UNCHANGED rootDefault

Reject ==
    /\ Key
    /\ SlashCommand \/ ChooseConfirmation \/ GiveReason
    /\ \/ coding # 0 /\ Start(RejectionRun, ptask.profile)
       \/ KeepLoop /\ UNCHANGED <<status, shownId>>
    /\ UNCHANGED rootDefault

----------------------------------------------------------------------------
(* Choosing a session.                                                       *)

\* /resume <id> or the session selector: the held session is dropped.  A session
\* that cannot be read ends the loop.
SelectSession(s) ==
    /\ Key
    /\ SlashCommand \/ ChooseSession
    /\ s <= made
    /\ \/ /\ shownId' = s
          /\ coding' = 0
          /\ target' = s
          /\ apart' = {}
          /\ UNCHANGED <<uiLoop, inputOpen, settings, ctxDefault, default, made, clientOf, ptask,
                         emitted, drawn, status>>
       \/ enabled /\ FailLoop
    /\ UNCHANGED rootDefault

\* /new: without session files only the transcript is new.
NewCommand ==
    /\ Key
    /\ SlashCommand
    /\ shownId' = 0
    /\ IF enabled
       THEN /\ made < MaxSessions
            /\ made' = made + 1
            /\ coding' = 0
            /\ target' = made + 1
            /\ apart' = {}
       ELSE UNCHANGED <<made, coding, target, apart>>
    /\ UNCHANGED <<uiLoop, inputOpen, settings, ctxDefault, default, clientOf, ptask, emitted, drawn,
                   status, rootDefault>>

\* /clone: the copy is shown; the held session and the target stay.
CloneSession ==
    /\ Key
    /\ CloneCommand
    /\ made < MaxSessions
    /\ made' = made + 1
    /\ shownId' = made + 1
    /\ default' = [default EXCEPT ![made + 1] = default[shownId]]
    /\ apart' = apart \cup {"clone"}
    /\ UNCHANGED <<uiLoop, inputOpen, settings, coding, target, ctxDefault, clientOf, ptask, emitted,
                   drawn, status, rootDefault>>

\* /reload: the prompt context is built again from the command line, its target
\* too, and a task loads the plugins.
ReloadCommand ==
    /\ Key
    /\ SlashCommand
    /\ ptask' = [NoPTask EXCEPT !.run = ReloadRun, !.session = coding, !.opens = cli,
                              !.at = "spawned"]
    /\ target' = cli
    /\ coding' = 0
    /\ status' = "Running"
    /\ emitted' = 0
    /\ rootDefault' = ctxDefault
    /\ apart' = IF coding = 0 THEN apart \cup {"reload"} ELSE apart
    /\ UNCHANGED <<uiLoop, inputOpen, settings, ctxDefault, default, made, clientOf, drawn, shownId>>

----------------------------------------------------------------------------
(* Keys while a task runs, and leaving.                                      *)

\* Enter or shift+enter: steering or a follow-up, for a task with a control channel.
Steer ==
    /\ Key
    /\ status = "Running"
    /\ Focus = "editor"
    /\ editor = "text"
    /\ editor' = "empty"
    /\ ptask' = IF ptask.run.controlled /\ ptask.at # "done"
               THEN [ptask EXCEPT !.asks = @ \cup {"message"}] ELSE ptask
    /\ UNCHANGED <<surfaces, status, shownId, rootDefault, uiLoop, inputOpen, settings,
                   coding, target, ctxDefault, default, made, clientOf, emitted, drawn, apart>>

\* abort_once.
AbortRunning ==
    /\ Key
    /\ status = "Running"
    /\ Focus = "editor"
    /\ ~ptask.aborted
    /\ ptask' = [ptask EXCEPT !.aborted = TRUE,
                            !.asks = IF ptask.at # "done" THEN @ \cup {"abort"} ELSE @]
    /\ UNCHANGED <<surfaces, editor, status, shownId, rootDefault, uiLoop, inputOpen,
                   settings, coding, target, ctxDefault, default, made, clientOf, emitted, drawn,
                   apart>>

\* detach_interactive_client and the end of the loop.
Leave ==
    /\ uiLoop' = "ended"
    /\ clientOf' = IF coding # 0 THEN 0 ELSE clientOf
    /\ UNCHANGED <<inputOpen, settings, coding, target, ctxDefault, default, made, ptask,
                   emitted, drawn, apart, status, shownId, rootDefault>>

\* /quit, or ctrl+c in an empty editor.
Exit ==
    /\ Key
    /\ IsIdle
    /\ \/ SlashCommand
       \/ /\ Focus \in {"editor", "model", "session", "settings"}
          /\ editor = "empty"
          /\ UNCHANGED <<surfaces, editor>>
    /\ Leave

\* The input ends.
TerminalCloses ==
    /\ uiLoop = "open"
    /\ inputOpen
    /\ inputOpen' = FALSE
    /\ UNCHANGED <<rootVars, uiLoop, inputs, settings, coding, target, ctxDefault, default, made,
                   clientOf, ptask, emitted, drawn, apart>>

\* Without input and without a task the loop returns.
LeaveAtEnd ==
    /\ uiLoop = "open"
    /\ ~inputOpen
    /\ ~Running
    /\ Leave
    /\ UNCHANGED <<inputs, surfaces, editor>>

----------------------------------------------------------------------------
(* The task.                                                                 *)

PromptTaskStep(t) ==
    /\ uiLoop = "open"
    /\ ptask' = t
    /\ UNCHANGED <<rootVars, uiLoop, inputOpen, inputs, settings, coding, target, ctxDefault, clientOf,
                   drawn, apart>>

\* open_interactive_coding_session, then send_ui_snapshot.
TaskOpens ==
    /\ ptask.at = "spawned"
    /\ \/ /\ ptask.session # 0
          /\ PromptTaskStep([ptask EXCEPT !.at = "runs", !.queue = Append(@, 0)])
          /\ UNCHANGED <<made, default, emitted>>
       \/ /\ ptask.session = 0
          /\ ptask.opens # 0 /\ enabled
          /\ PromptTaskStep([ptask EXCEPT !.at = "runs", !.session = ptask.opens,
                                   !.queue = Append(@, 0)])
          /\ UNCHANGED <<made, default, emitted>>
       \/ /\ ptask.session = 0
          /\ ptask.opens = 0 \/ ~enabled
          /\ made < MaxSessions
          /\ made' = made + 1
          /\ default' = [default EXCEPT ![made + 1] = ctxDefault]
          /\ PromptTaskStep([ptask EXCEPT !.at = "runs", !.session = made + 1, !.queue = Append(@, 0)])
          /\ UNCHANGED emitted
       \/ /\ ptask.session = 0
          /\ PromptTaskStep([ptask EXCEPT !.at = "done", !.result = "setup_failed"])
          /\ UNCHANGED <<made, default, emitted>>

\* The operation emits; a receiver that is behind loses the oldest event.
TaskEmits ==
    /\ ptask.at = "runs"
    /\ ptask.run.controlled \/ AllEmit
    /\ emitted < MaxTaskEmits
    /\ emitted' = emitted + 1
    /\ LET all == Append(ptask.bus, emitted + 1)
       IN PromptTaskStep([ptask EXCEPT !.bus = SubSeq(all, 1 + Len(all) - Min({BusCap, Len(all)}),
                                               Len(all))])
    /\ UNCHANGED <<made, default>>

\* receiver.recv() in the task's select.
ForwardEvent ==
    /\ ptask.at = "runs"
    /\ ptask.bus # <<>>
    /\ PromptTaskStep([ptask EXCEPT !.bus = Tail(@), !.queue = Append(@, Head(ptask.bus))])
    /\ UNCHANGED <<made, default, emitted>>

\* An abort drops the future of a task that has no control channel; a control that
\* cannot be sent drops that of the others.
ControlEnds ==
    /\ ptask.at = "runs"
    /\ \/ ~ptask.run.controlled /\ "abort" \in ptask.asks
       \/ ptask.run.controlled /\ ptask.asks # {}
    /\ PromptTaskStep([ptask EXCEPT !.at = "done", !.bus = <<>>, !.asks = {}, !.result = "failed"])
    /\ UNCHANGED <<made, default, emitted>>

\* A control is sent on to the prompt.
ControlSent(ask) ==
    /\ ptask.at = "runs"
    /\ ptask.run.controlled
    /\ ask \in ptask.asks
    /\ PromptTaskStep([ptask EXCEPT !.asks = @ \ {ask}])
    /\ UNCHANGED <<made, default, emitted>>

\* Mutant of Completes: the events that are still in the receiver are not forwarded.
CompletesUndrained ==
    /\ ptask.at = "runs"
    /\ PromptTaskStep([ptask EXCEPT !.at = "done", !.bus = <<>>, !.asks = {}, !.result = "completed"])
    /\ UNCHANGED <<made, default, emitted>>

\* The operation succeeds and the receiver is drained.  A fork leaves the session
\* object with the new session; a profile change is in the session.
Completes ==
    /\ ptask.at = "runs"
    /\ LET forks == ptask.run.forks
           s == IF forks THEN made + 1 ELSE ptask.session
       IN /\ forks => enabled /\ made < MaxSessions
          /\ made' = IF forks THEN made + 1 ELSE made
          /\ default' = IF forks THEN [default EXCEPT ![s] = default[ptask.session]]
                        ELSE IF ptask.run.sets
                        THEN [default EXCEPT ![s] = ptask.profile] ELSE default
          /\ PromptTaskStep([ptask EXCEPT !.at = "done", !.session = s, !.bus = <<>>, !.asks = {},
                                   !.queue = @ \o ptask.bus, !.result = "completed"])
    /\ UNCHANGED emitted

\* The operation fails: its last events stay in the receiver, which is dropped.
Fails ==
    /\ ptask.at = "runs"
    /\ PromptTaskStep([ptask EXCEPT !.at = "done", !.bus = <<>>, !.asks = {}, !.result = "failed"])
    /\ UNCHANGED <<made, default, emitted>>

\* A panic drops the task with its session.
Panics ==
    /\ ptask.at = "runs"
    /\ PromptTaskStep([ptask EXCEPT !.at = "done", !.bus = <<>>, !.asks = {}, !.session = 0,
                             !.result = "panicked"])
    /\ UNCHANGED <<made, default, emitted>>

----------------------------------------------------------------------------
(* The loop and the running task.                                            *)

\* UiProjection: a snapshot starts again, an event that is not newer is skipped.
Project(seen, e) == IF e = 0 THEN <<>>
                    ELSE IF seen # <<>> /\ e <= Last(seen) THEN seen ELSE Append(seen, e)

\* task.events.recv().
ApplyEvent ==
    /\ uiLoop = "open"
    /\ ptask.queue # <<>>
    /\ drawn' = Project(drawn, Head(ptask.queue))
    /\ ptask' = [ptask EXCEPT !.queue = Tail(@)]
    /\ UNCHANGED <<rootVars, uiLoop, inputOpen, inputs, settings, coding, target, ctxDefault,
                   default, made, clientOf, emitted, apart>>

\* Mutant of FinishPrompt: the target of a fork is not kept and its root not hydrated.
FinishForgetful(hydrated) ==
    /\ uiLoop = "open"
    /\ ptask.at = "done"
    /\ status' = "Idle"
    /\ ptask' = NoPTask
    /\ drawn' = FoldLeft(Project, drawn, ptask.queue)
    /\ coding' = ptask.session
    /\ UNCHANGED <<surfaces, editor, shownId, rootDefault, uiLoop, inputOpen, inputs,
                   settings, target, ctxDefault, default, made, clientOf, emitted, apart>>

\* The done branch: the queued events are applied, finish_prompt puts the session
\* back and shows it when it can be read (hydrated), a client is connected, and the
\* prompt context takes the session's default profile.
FinishPrompt(hydrated) ==
    LET s == ptask.session
        ok == ptask.result = "completed"
        moved == ptask.run.forks
        shows == ok /\ hydrated /\ ptask.run.shows # "none"
        clears == ptask.run.shows = "replace"
    IN /\ uiLoop = "open"
       /\ ptask.at = "done"
       /\ hydrated => enabled
       /\ drawn' = FoldLeft(Project, drawn, ptask.queue)
       /\ coding' = s
       /\ target' = IF ok /\ moved THEN s ELSE target
       /\ shownId' = IF shows THEN s ELSE IF ok /\ clears THEN 0 ELSE shownId
       /\ rootDefault' = IF ok /\ ptask.run.shows # "none" THEN default[s]
                         ELSE rootDefault
       /\ apart' = IF shows THEN {}
                   ELSE IF ptask.result = "panicked" THEN apart \cup {"lost"}
                   ELSE IF ok /\ moved THEN apart \cup {"unread"} ELSE apart
       /\ ctxDefault' = IF s # 0 THEN default[s] ELSE ctxDefault
       /\ clientOf' = IF s # 0 /\ clientOf = 0 THEN s ELSE clientOf
       /\ status' = "Idle"
       /\ ptask' = NoPTask
       /\ UNCHANGED <<surfaces, editor, uiLoop, inputOpen, inputs, settings, default,
                      made, emitted>>

----------------------------------------------------------------------------

RootOnly == uiLoop = "open" /\ inputOpen /\ (RootKey \/ ChooseModel) /\ UNCHANGED loopVars

InteractiveNext ==
    \/ RootOnly
    \/ SubmitPrompt
    \/ AgentCommand \/ TeamCommand \/ SelfHealingEditCommand \/ RunPluginCommand \/ Compact
    \/ BranchSummary \/ Approve \/ Reject
    \/ Fork \/ ChooseEntry \/ ListDelegations
    \/ \E p \in Profiles : UseProfile(p)
    \/ \E s \in Ids : SelectSession(s)
    \/ NewCommand \/ CloneSession \/ ReloadCommand
    \/ Steer \/ AbortRunning \/ Exit \/ TerminalCloses \/ LeaveAtEnd
    \/ TaskOpens \/ TaskEmits \/ ForwardEvent \/ ControlEnds \/ Completes \/ Fails \/ Panics
    \/ \E ask \in {"abort", "message"} : ControlSent(ask)
    \/ ApplyEvent
    \/ \E hydrated \in BOOLEAN : FinishPrompt(hydrated)

InteractiveSpec == InteractiveInit /\ [][InteractiveNext]_interactiveVars

\* The task is polled and operations end (RunEnds of AgentTurn), and the loop polls
\* the task it holds and returns when there is nothing left to wait for.
InteractiveFairness ==
    /\ WF_interactiveVars(TaskOpens)
    /\ WF_interactiveVars(Completes \/ Fails \/ Panics)
    /\ WF_interactiveVars(\E hydrated \in BOOLEAN : FinishPrompt(hydrated))
    /\ WF_interactiveVars(LeaveAtEnd)

InteractiveFairSpec == InteractiveSpec /\ InteractiveFairness

----------------------------------------------------------------------------
(* Properties.                                                               *)

\* The session that the next task works in.
NextSession == IF coding # 0 THEN coding ELSE target

\* Type correctness of the root, the loop and the task.
InteractiveTypeOK ==
    /\ status \in {"Idle", "Running"}
    /\ surfaces \subseteq Surfaces
    /\ editor \in {"empty", "text"}
    /\ {shownId, coding, target, clientOf, cli} \subseteq 0..made
    /\ made \in Ids
    /\ {ctxDefault, rootDefault} \subseteq Profiles
    /\ default \in [Ids -> Profiles]
    /\ Len(ptask.bus) <= BusCap
    /\ ptask.at \in {"none", "spawned", "runs", "done"}

\* The interface and the loop agree: the root is Running exactly while the loop
\* has a task, no surface is open that would take the keys meant for the task
\* (abort above all), at most one surface is open, the session is not both held
\* and lent, and the loop ends by itself only without a task.
InterfaceAgrees ==
    /\ uiLoop # "failed" => (status = "Running" <=> Running)
    /\ Cardinality(surfaces) <= 1
    /\ Running => surfaces = {} /\ coding = 0
    /\ uiLoop = "ended" => ~Running

\* What the root shows is where the next prompt goes: unless the shown session is a
\* clone, the target was rebuilt by a reload, a panic dropped the session or a
\* forked session could not be read, the next task works in the shown session; and
\* it always runs with the default profile of the session the loop holds.
NextIsShown ==
    /\ IsIdle /\ enabled /\ shownId # 0 /\ apart = {} => NextSession = shownId
    /\ IsIdle /\ coding # 0 => ctxDefault = default[coding]

\* The root applies a task's events in order and none twice, and when a task
\* completes, its last event was applied, however the events and the completion
\* were interleaved.
EventsApplied ==
    [][ /\ \A i, j \in DOMAIN drawn' : i < j => drawn'[i] < drawn'[j]
        /\ (ptask.result = "completed" /\ ptask' = NoPTask /\ emitted > 0) =>
              drawn' # <<>> /\ Last(drawn') = emitted ]_interactiveVars

\* A task ends and gives the interface back, and once the input has ended the loop
\* waits for the task that is left and then returns.
LoopEnds ==
    /\ (Running ~> (~Running \/ uiLoop # "open"))
    /\ (~inputOpen ~> uiLoop # "open")

\* The root, the loop and the session agree on who runs, what is open and where the next
\* prompt goes (interactive/loop.rs, root.rs, prompt_task.rs).
InterfaceSound == InteractiveTypeOK /\ InterfaceAgrees /\ NextIsShown

\* A task's events all reach the root in order, and both the task and the loop end.
LoopDelivers == EventsApplied /\ LoopEnds
=============================================================================
