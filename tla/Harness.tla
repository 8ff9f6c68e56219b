------------------------------ MODULE Harness ------------------------------
(***************************************************************************)
(* The agent harness: prompts become lazy streams that share one agent, with  *)
(* hooks and registered handlers run on the way, observers that hear every     *)
(* event, and a phase that lets one turn at a time through.  A stream does      *)
(* nothing until it is polled first, and may be dropped at any time.            *)
(***************************************************************************)
EXTENDS Integers, Sequences, FiniteSets, SequencesExt

CONSTANTS
    HStreams,     \* ids of prompts
    HHooks,       \* kinds for which AgentHarnessHooks holds a hook
    HHandlers,    \* ids of handlers that on() may register
    HObservers,   \* ids of observers
    HHeaders,     \* names of request headers
    HMaxOps,      \* bound: calls of the harness other than prompt
    HMaxEvents,   \* bound: events of the agent in a turn
    HMaxMessages  \* bound: messages of the agent

Hook == 0          \* what AgentHarnessHooks holds for a kind
HookKinds == {"start", "context", "auth", "request", "stream"}
                   \* "stream": before_provider_payload and after_provider_response

ASSUME HarnessAssumption ==
    /\ HStreams \subseteq Nat /\ HObservers \subseteq Nat /\ HHooks \subseteq HookKinds
    /\ HHandlers \subseteq Nat \ {Hook}
    /\ {HMaxOps, HMaxEvents, HMaxMessages} \subseteq Nat

VARIABLES
    hAgent,      \* the Agent: messages, running, cancelled, queue, hook
    hPhase,      \* phase
    hHandlers,   \* on_handlers: the sequence of [id, kind], in registration order
    hObservers,  \* observers, in registration order
    hStreams,    \* the streams returned by prompt
    hSeen,       \* history: what each observer heard of each stream
    hOps         \* calls so far

hVars == <<hAgent, hPhase, hHandlers, hObservers, hStreams, hSeen, hOps>>

----------------------------------------------------------------------------
(* Patches of the stream options.  Headers are a set of <<name, value>>.        *)

Headers(base, names, value) ==
    {h \in base : h[1] \notin names} \union {<<n, value>> : n \in names}

\* apply_header_patch: Set, Clear, or Merge, which also removes; merge_headers of an
\* auth handler is the last without removals.
ApplyHeaderPatch(base, patch, by) ==
    CASE patch.kind = "set"   -> {<<n, by>> : n \in patch.names}
      [] patch.kind = "clear" -> {}
      [] OTHER -> {h \in Headers(base, patch.names, by) : h[1] \notin patch.removed}

HeaderPatches ==
    [kind : {"set", "merge"}, names : SUBSET HHeaders, removed : {{}}]
        \union [kind : {"clear"}, names : {{}}, removed : {{}}]
        \union [kind : {"merge"}, names : {{}}, removed : (SUBSET HHeaders) \ {{}}]

\* What a handler may answer to a request: nothing, a patch, or an error.  An auth
\* handler only merges.
Answers(kind) ==
    {[kind |-> "none", names |-> {}, removed |-> {}]}
        \union (CASE kind = "auth" -> {p \in HeaderPatches : p.kind = "merge" /\ p.removed = {}}
                  [] kind = "request" -> HeaderPatches
                  [] OTHER -> {})

\* Handlers to be run for a kind: the configured hook, then the registered ones.
OfKind(handlers, kind) ==
    (IF kind \in HHooks THEN <<[id |-> Hook, kind |-> kind]>> ELSE <<>>)
        \o SelectSeq(handlers, LAMBDA x : x.kind = kind)

\* The hook of a request holds the configured hooks and the registry of on().
ProviderKinds == {"auth", "request", "stream"}

Configured(kind) == IF kind \in HHooks THEN <<[id |-> Hook, kind |-> kind]>> ELSE <<>>

ProviderHandlers(handlers) ==
    Configured("auth") \o Configured("request") \o Configured("stream") \o handlers

NeedsHook(handlers) ==
    \E kind \in ProviderKinds :
        kind \in HHooks \/ \E i \in DOMAIN handlers : handlers[i].kind = kind

----------------------------------------------------------------------------

NotMade == [pc |-> "none", messages |-> <<>>, handlers |-> <<>>, left |-> <<>>, told |-> <<>>,
            holds |-> <<>>, listeners |-> <<>>, watched |-> {}, events |-> 0, headers |-> {},
            answers |-> <<>>]

HarnessInit ==
    /\ hAgent = [messages |-> <<>>, running |-> FALSE, cancelled |-> FALSE, queue |-> 0,
                 hook |-> <<>>, panicked |-> FALSE]
    /\ hPhase = "idle" /\ hHandlers = <<>> /\ hObservers = <<>> /\ hOps = 0
    /\ hStreams = [s \in HStreams |-> NotMade]
    /\ hSeen = [o \in HObservers |-> [s \in HStreams |-> <<>>]]

\* emit!: each listener is called with the event, which the stream then yields.
EmitTo(listeners, s, event, pc, new) ==
    /\ hSeen' = [o \in HObservers |-> IF o \in ToSet(listeners)
                    THEN [hSeen[o] EXCEPT ![s] = Append(@, event)] ELSE hSeen[o]]
    /\ hStreams' = [hStreams EXCEPT ![s] = [new EXCEPT !.pc = pc, !.told = Append(@, event)]]

EmitEvent(s, event, pc, new) == EmitTo(hObservers, s, event, pc, new)

\* prompt: messages and handlers are taken now, everything else waits for the first poll.
PromptMade(s) ==
    /\ hStreams[s].pc = "none"
    /\ Len(hAgent.messages) < HMaxMessages
    /\ hStreams' = [hStreams EXCEPT ![s] = [@ EXCEPT !.pc = "made", !.handlers = hHandlers,
                                               !.messages = Append(hAgent.messages, "user")]]
    /\ UNCHANGED <<hAgent, hPhase, hHandlers, hObservers, hSeen, hOps>>

\* The first poll takes the phase, or is refused; a stream that is refused tells both
\* its events to the observers of this moment.
FirstPoll(s) ==
    /\ hStreams[s].pc = "made"
    /\ LET new == [hStreams[s] EXCEPT !.watched = ToSet(hObservers)] IN
       IF hPhase # "idle"
       THEN EmitEvent(s, "error", "busy", [new EXCEPT !.listeners = hObservers]) /\ UNCHANGED hPhase
       ELSE /\ hPhase' = "turn"
            /\ EmitEvent(s, "beforeAgentStart", "start",
                         [new EXCEPT !.holds = <<"phase">>,
                                     !.left = OfKind(new.handlers, "start")])
    /\ UNCHANGED <<hAgent, hHandlers, hObservers, hOps>>

\* before_agent_start and context: a hook answers nothing, other messages or an error.
RunHook(s) ==
    LET st == hStreams[s]
        rest == [st EXCEPT !.left = Tail(@)]
    IN /\ st.pc \in {"start", "context"} /\ st.left # <<>>
       /\ \/ EmitEvent(s, "error", "failed", rest)
          \/ \E messages \in {st.messages, <<>>, Append(st.messages, "assistant")} :
                /\ hStreams' = [hStreams EXCEPT ![s] = [rest EXCEPT !.messages = messages]]
                /\ UNCHANGED hSeen
       /\ UNCHANGED <<hAgent, hPhase, hHandlers, hObservers, hOps>>

ToldContext(s) ==
    /\ hStreams[s].pc = "start" /\ hStreams[s].left = <<>>
    /\ EmitEvent(s, "context", "context",
                 [hStreams[s] EXCEPT !.left = OfKind(hStreams[s].handlers, "context")])
    /\ UNCHANGED <<hAgent, hPhase, hHandlers, hObservers, hOps>>

\* replace_messages, set_before_provider_request_hook when a handler needs it, and
\* Agent::run, which refuses what it cannot continue and panics when it runs already.
StartRun(s) ==
    LET st    == hStreams[s]
        agent == [hAgent EXCEPT !.messages = st.messages,
                                !.hook = IF NeedsHook(st.handlers)
                                          THEN ProviderHandlers(st.handlers) ELSE @]
    IN /\ st.pc = "context" /\ st.left = <<>>
       /\ IF st.messages = <<>> \/ Last(st.messages) = "assistant"
          THEN hAgent' = agent /\ EmitEvent(s, "error", "failed", st)
          ELSE /\ hAgent' = [agent EXCEPT !.running = TRUE, !.panicked = @ \/ hAgent.running,
                                          !.cancelled = FALSE]
               /\ hStreams' = [hStreams EXCEPT ![s] = [st EXCEPT !.pc = "run",
                                                          !.holds = Append(@, "run")]]
               /\ UNCHANGED hSeen
       /\ UNCHANGED <<hPhase, hHandlers, hObservers, hOps>>

\* The handlers of a kind run one after the other, each over what the ones before it
\* left.
RunHandlers(hook, kind, answers, base) ==
    LET over[i \in 0..Len(hook)] ==
            IF i = 0 THEN base
            ELSE IF hook[i].kind # kind \/ answers[i].kind = "none" THEN over[i - 1]
            ELSE ApplyHeaderPatch(over[i - 1], answers[i], hook[i].id)
    IN over[Len(hook)]

\* make_provider_request_hook runs the auth handlers first, the request handlers then.
PatchedHeaders(hook, answers) ==
    RunHandlers(hook, "request", answers, RunHandlers(hook, "auth", answers, {}))

\* A request: the agent's hook runs the handlers it was made with.  An error of a handler
\* ends the turn with an error event.
Request(s) ==
    /\ hStreams[s].pc = "run" /\ hStreams[s].events < HMaxEvents /\ ~hAgent.cancelled
    /\ LET hook == hAgent.hook IN
       \E answers \in [DOMAIN hook -> UNION {Answers(hook[i].kind) : i \in DOMAIN hook}] :
          /\ \A i \in DOMAIN hook : answers[i] \in Answers(hook[i].kind)
          /\ EmitEvent(s, "request", "run",
                [hStreams[s] EXCEPT !.events = @ + 1,
                    !.answers = [i \in DOMAIN hook |-> <<hook[i], answers[i]>>],
                    !.headers = PatchedHeaders(hook, answers)])
    /\ hAgent' = [hAgent EXCEPT !.queue = 0]
    /\ UNCHANGED <<hPhase, hHandlers, hObservers, hOps>>

\* Any other event of the agent, as map_agent_event renames it; a hook that failed is one.
AgentEvent(s) ==
    /\ hStreams[s].pc = "run" /\ hStreams[s].events < HMaxEvents
    /\ \E event \in {"agent", "toolCall", "sessionCompact"} :
          EmitEvent(s, event, "run", [hStreams[s] EXCEPT !.events = @ + 1])
    /\ UNCHANGED <<hAgent, hPhase, hHandlers, hObservers, hOps>>

\* The agent's stream ends, which resets running; Settled is told then.
RunEnds(s) ==
    /\ hStreams[s].pc = "run"
    /\ hAgent' = [hAgent EXCEPT !.running = FALSE, !.messages = Append(@, "assistant")]
    /\ EmitEvent(s, "settled", "settled",
                 [hStreams[s] EXCEPT !.holds = <<"phase">>, !.answers = <<>>, !.headers = {}])
    /\ UNCHANGED <<hPhase, hHandlers, hObservers, hOps>>

ToldFailure(s) ==
    /\ \/ hStreams[s].pc = "failed" /\ EmitEvent(s, "settled", "settled", hStreams[s])
       \/ hStreams[s].pc = "busy"
          /\ EmitTo(hStreams[s].listeners, s, "settled", "settled", hStreams[s])
    /\ UNCHANGED <<hAgent, hPhase, hHandlers, hObservers, hOps>>

\* The stream is dropped by its owner, or ends after its last event.
Dropping(s) ==
    /\ hStreams[s].pc \notin {"none", "dropping"}
    /\ hStreams' = [hStreams EXCEPT ![s] = [NotMade EXCEPT !.pc = "dropping", !.told = hStreams[s].told,
                        !.holds = hStreams[s].holds, !.watched = hStreams[s].watched]]
    /\ UNCHANGED <<hAgent, hPhase, hHandlers, hObservers, hSeen, hOps>>

\* Mutant of Release: the phase is given back before the agent's run.
ReleaseFirst(s) ==
    LET held == hStreams[s].holds IN
    /\ hStreams[s].pc = "dropping" /\ held # <<>>
    /\ hStreams' = [hStreams EXCEPT ![s].holds = Tail(@)]
    /\ IF Head(held) = "phase" THEN hPhase' = "idle" /\ UNCHANGED hAgent
       ELSE hAgent' = [hAgent EXCEPT !.running = FALSE] /\ UNCHANGED hPhase
    /\ UNCHANGED <<hHandlers, hObservers, hSeen, hOps>>

\* RunGuard and PhaseResetOnDrop go in the reverse order of their making.
Release(s) ==
    LET held == hStreams[s].holds IN
    /\ hStreams[s].pc = "dropping" /\ held # <<>>
    /\ hStreams' = [hStreams EXCEPT ![s].holds = SubSeq(@, 1, Len(@) - 1)]
    /\ IF Last(held) = "phase" THEN hPhase' = "idle" /\ UNCHANGED hAgent
       ELSE hAgent' = [hAgent EXCEPT !.running = FALSE] /\ UNCHANGED hPhase
    /\ UNCHANGED <<hHandlers, hObservers, hSeen, hOps>>

----------------------------------------------------------------------------
(* The other calls, which any thread may make at any time.                     *)

\* on and its guard; which handler goes makes no difference to the others.
OnHandler ==
    \/ \E id \in HHandlers, kind \in HookKinds :
          /\ id = 1 + Cardinality({h.id : h \in ToSet(hHandlers)})
          /\ hHandlers' = Append(hHandlers, [id |-> id, kind |-> kind])
    \/ hHandlers # <<>> /\ hHandlers' = SubSeq(hHandlers, 1, Len(hHandlers) - 1)

\* subscribe and its guard.
Subscribe ==
    \/ \E o \in HObservers \ ToSet(hObservers) :
          hObservers' = Append(hObservers, o) /\ UNCHANGED hStreams
    \/ \E i \in DOMAIN hObservers :
          /\ hObservers' = RemoveAt(hObservers, i)
          /\ hStreams' = [s \in HStreams |-> [hStreams[s] EXCEPT !.watched = @ \ {hObservers[i]}]]

\* steer and follow_up; abort drains what is queued and cancels the run; add_message.
AgentCall ==
    \/ hAgent.queue = 0 /\ hAgent' = [hAgent EXCEPT !.queue = 1]
    \/ hAgent' = [hAgent EXCEPT !.queue = 0, !.cancelled = TRUE]
    \/ Len(hAgent.messages) < HMaxMessages
       /\ hAgent' = [hAgent EXCEPT !.messages = Append(@, "user")]

OtherCall ==
    /\ hOps < HMaxOps /\ hOps' = hOps + 1
    /\ \/ OnHandler /\ UNCHANGED <<hAgent, hObservers, hStreams>>
       \/ Subscribe /\ UNCHANGED <<hAgent, hHandlers>>
       \/ AgentCall /\ UNCHANGED <<hHandlers, hObservers, hStreams>>
    /\ UNCHANGED <<hPhase, hSeen>>

HarnessNext ==
    \/ \E s \in HStreams :
          \/ PromptMade(s) \/ FirstPoll(s) \/ RunHook(s) \/ ToldContext(s) \/ StartRun(s)
          \/ Request(s) \/ AgentEvent(s) \/ RunEnds(s) \/ ToldFailure(s)
          \/ Dropping(s) \/ Release(s)
    \/ OtherCall

HarnessSpec == HarnessInit /\ [][HarnessNext]_hVars

----------------------------------------------------------------------------
(* Properties *)

Holding(what) == {s \in HStreams : what \in ToSet(hStreams[s].holds)}

\* However prompts overlap and wherever their streams are dropped, one turn at most
\* holds the phase, the agent runs exactly when that turn runs it, and run() is never
\* called on a running agent, where it would panic with the phase taken for good.
HarnessSerial ==
    /\ ~hAgent.panicked
    /\ Cardinality(Holding("phase")) = (IF hPhase = "turn" THEN 1 ELSE 0)
    /\ Holding("run") \subseteq Holding("phase")
    /\ hAgent.running <=> Holding("run") # {}

\* A request handler's patch stands over what the base and every auth handler said: what
\* the last one that answered set is sent, what it removed or cleared is not.
LastPatchStands(s) ==
    LET asked   == hStreams[s].answers
        sent    == hStreams[s].headers
        patches == {i \in DOMAIN asked : asked[i][1].kind = "request" /\ asked[i][2].kind # "none"}
    IN \A i \in patches : (\A j \in patches : j <= i) =>
          LET patch == asked[i][2]
          IN /\ \A n \in patch.names : <<n, asked[i][1].id>> \in sent
             /\ \A h \in sent : h[1] \notin patch.removed
             /\ patch.kind \in {"set", "clear"} => {h[1] : h \in sent} = patch.names

\* Every observer that is there from a stream's first poll on hears exactly the events
\* the stream yields, those of a refused stream included, and Settled comes once and
\* last.
ObserversTold ==
    \A s \in HStreams :
        LET st == hStreams[s] IN
        /\ \A o \in st.watched : hSeen[o][s] = st.told
        /\ \A i \in DOMAIN st.told : st.told[i] = "settled" => i = Len(st.told)
        /\ st.pc = "settled" => Last(st.told) = "settled"

\* Prompts of one harness are run one at a time and told to all observers (harness.rs),
\* wherever a stream is dropped and whatever the hooks answer; a request carries what the
\* last of its handlers made of it.
HarnessSound ==
    /\ HarnessSerial /\ ObserversTold
    /\ \A s \in HStreams : hStreams[s].pc = "run" => LastPatchStands(s)
=============================================================================
