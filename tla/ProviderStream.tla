--------------------------- MODULE ProviderStream ---------------------------
(***************************************************************************)
(* A conversation with the providers of pi-ai, turn by turn: the registry    *)
(* finds the provider and its key, the request is sent, with retries where   *)
(* the transport retries, the body arrives as wire events that a handler of  *)
(* the API turns into the events of an assistant message, and the message    *)
(* with the answers to its tool calls goes into the next request, which may  *)
(* be another provider's.  The server is outside: it sends one of PBodies    *)
(* of its API, and the connection can break anywhere.  Text and arguments    *)
(* are sequences of pieces; "bad" is a piece no JSON can be made of.         *)
(***************************************************************************)
EXTENDS ProviderRequest, Functions

CONSTANTS
    PApis,        \* the providers that are registered
    PBodies,      \* [handler -> the bodies its server sends: sequences of wire events]
    PMaxRetries,  \* RetryConfig.max_retries
    PMaxLost,     \* bound: events that fall on a chunk boundary
    PMaxTurns     \* bound: streams of a conversation

ASSUME ProviderAssumption == {PMaxRetries, PMaxLost, PMaxTurns} \subseteq Nat

VARIABLES
    pApi,          \* the provider of the stream
    pPhase,        \* "idle", "sending", "waiting", "check", "await", "ended"
    pAttempt,      \* attempts before this one
    pCancel,       \* the cancellation token
    pBody,         \* wire events that are still to come
    pHandler,      \* the handler, with the partial message
    pSeen,         \* the events that the stream has yielded
    pLost,         \* events of the body that were never handled
    pSent,         \* history: pieces in the events that were handled
    pConversation, \* the messages so far
    pRequest,      \* the request of the stream
    pTurn          \* streams so far

pStream == <<pBody, pHandler, pSeen, pLost, pSent>>
pVars == <<pApi, pPhase, pAttempt, pCancel, pStream, pConversation, pRequest, pTurn>>

----------------------------------------------------------------------------
(* The partial message and the events about it.                              *)

NewHandler ==
    [content |-> <<>>, first |-> FALSE, cur |-> 0, curKind |-> "none", text |-> 0,
     thinking |-> 0, tools |-> <<>>, acc |-> <<>>, stop |-> "stop", out |-> <<>>, result |-> "continue"]

Yield(h, e, kind, i, piece) ==
    [h EXCEPT !.out = Append(@, [e |-> e, kind |-> kind, i |-> i, piece |-> piece])]

Begun(h) == IF h.first THEN h ELSE [Yield(h, "Start", "none", 0, "") EXCEPT !.first = TRUE]

\* A new block; its index is the place it takes unless the wire gives another.
OpenBlock(h, kind, id, i) ==
    Yield([h EXCEPT !.content = Append(@, [kind |-> kind, id |-> id, body |-> <<>>])],
          "start", kind, i, "")

\* A piece of text for block i, if that is a block of text.
PushDelta(h, kind, i, piece) ==
    Yield(IF i \in DOMAIN h.content /\ h.content[i].kind = kind
          THEN [h EXCEPT !.content[i].body = Append(@, piece)] ELSE h,
          "delta", kind, i, piece)

EndBlock(h, kind, i) == Yield(h, "end", kind, i, "")

\* try_parse_streaming_json, and parse_streaming_json, which makes {} of what it refuses.
TryParse(args) == "bad" \notin Range(args)

ParseStreamingJson(args) == IF TryParse(args) THEN args ELSE <<>>

Accumulated(h, key) == IF key \in DOMAIN h.acc THEN h.acc[key] ELSE <<>>

Accumulate(h, key, args) ==
    [h EXCEPT !.acc = [k \in DOMAIN @ \union {key} |-> IF k = key THEN args ELSE @[k]]]

SetArguments(h, i, args) ==
    IF i \in DOMAIN h.content /\ h.content[i].kind = "tool"
    THEN [h EXCEPT !.content[i].body = ParseStreamingJson(args)] ELSE h

\* A piece of the arguments of the call at i, accumulated under key.
PushArguments(h, key, i, piece) ==
    LET args == Append(Accumulated(h, key), piece)
    IN Yield(SetArguments(Accumulate(h, key, args), i, args), "delta", "tool", i, piece)

----------------------------------------------------------------------------
(* Anthropic: the wire numbers the blocks, and one is open at a time.        *)

AnthropicBlockStart(h, w) ==
    LET opened == OpenBlock([h EXCEPT !.cur = w.i, !.curKind = w.kind], w.kind, w.id, w.i)
    IN IF w.kind = "tool" THEN Accumulate(opened, 0, <<>>)
       ELSE IF w.piece = "" THEN opened
       ELSE [Yield(opened, "delta", w.kind, w.i, w.piece) EXCEPT
                !.content[Len(opened.content)].body = <<w.piece>>]

AnthropicBlockDelta(h, w) ==
    IF w.kind = "tool" THEN PushArguments(h, 0, h.cur, w.piece) ELSE PushDelta(h, w.kind, h.cur, w.piece)

AnthropicBlockStop(h, w) ==
    [IF h.curKind = "none" THEN h ELSE EndBlock(h, h.curKind, h.cur) EXCEPT !.curKind = "none"]

\* message_delta brings the stop reason, message_stop ends the stream.
AnthropicMessage(h, w) ==
    CASE w.t = "messageStart" -> Begun(h)
      [] w.t = "messageDelta" -> [h EXCEPT !.stop = w.reason]
      [] w.t = "messageStop" -> [h EXCEPT !.result = "done"]
      [] w.t = "ping" -> h

AnthropicHandle(h, w) ==
    CASE w.t = "blockStart" -> AnthropicBlockStart(h, w)
      [] w.t = "blockDelta" -> AnthropicBlockDelta(h, w)
      [] w.t = "blockStop" -> AnthropicBlockStop(h, w)
      [] OTHER -> AnthropicMessage(h, w)

----------------------------------------------------------------------------
(* Chunks of choices: [parts, finish], a part [kind, key, id, piece].        *)

\* The place of the tool call with an index of the wire, opened when it is new.
WithTool(h, p) ==
    IF p.key \in DOMAIN h.tools THEN h
    ELSE LET pos == Len(h.content) + 1
         IN [OpenBlock(h, "tool", p.id, pos) EXCEPT
                !.tools = [k \in DOMAIN @ \union {p.key} |-> IF k = p.key THEN pos ELSE @[k]]]

ToolPart(h, p) ==
    LET opened == WithTool(h, p)
        named == IF p.id = <<>> THEN opened
                 ELSE [opened EXCEPT !.content[opened.tools[p.key]].id = p.id]
    IN IF p.piece = "" THEN named ELSE PushArguments(named, p.key, named.tools[p.key], p.piece)

\* OpenAI completions: one block of text and one of thinking for the whole message.
CompletionsPart(h, p) ==
    LET pos == Len(h.content) + 1
        text == IF h.text # 0 THEN h ELSE [OpenBlock(h, "text", <<>>, pos) EXCEPT !.text = pos]
        thinking == IF h.thinking # 0 THEN h
                    ELSE [OpenBlock(h, "thinking", <<>>, pos) EXCEPT !.thinking = pos]
    IN CASE p.kind = "text" -> PushDelta(text, "text", text.text, p.piece)
         [] p.kind = "thinking" -> PushDelta(thinking, "thinking", thinking.thinking, p.piece)
         [] p.kind = "tool" -> ToolPart(h, p)

\* Mistral: finish_current_block.
FinishCurrentBlock(h) ==
    [IF h.curKind = "none" THEN h ELSE EndBlock(h, h.curKind, h.cur) EXCEPT !.curKind = "none"]

\* Mistral: emit_text_delta and emit_thinking_delta; a block ends when the kind changes.
MistralPart(h, p) ==
    LET closed == FinishCurrentBlock(h)
        pos == Len(h.content) + 1
        opened == IF h.curKind = p.kind THEN h
                  ELSE [OpenBlock(closed, p.kind, <<>>, pos) EXCEPT !.cur = pos, !.curKind = p.kind]
    IN IF p.kind = "tool" THEN ToolPart(closed, p) ELSE PushDelta(opened, p.kind, opened.cur, p.piece)

\* Google: every part is a whole block; the id of a call is the name of its function.
GooglePart(h, p) ==
    LET pos == Len(h.content) + 1
    IN EndBlock(PushDelta(OpenBlock(h, p.kind, p.id, pos), p.kind, pos, p.piece), p.kind, pos)

\* handle_event of the three: the parts of a chunk in order, then its finish reason.
ChunkHandle(api, h, w) ==
    LET part(acc, p) == CASE api = "completions" -> CompletionsPart(acc, p)
                          [] api = "mistral" -> MistralPart(acc, p)
                          [] api = "google" -> GooglePart(acc, p)
    IN [FoldLeft(part, Begun(h), w.parts) EXCEPT !.stop = IF w.finish = "none" THEN @ ELSE w.finish]

----------------------------------------------------------------------------
(* OpenAI responses: one text and one tool call open at most.                *)

\* The open call ends with its final arguments, which must be JSON.
CloseTool(h) ==
    IF h.cur = 0 THEN h
    ELSE IF ~TryParse(Accumulated(h, 0)) THEN [h EXCEPT !.result = "error"]
    ELSE [EndBlock(SetArguments(h, h.cur, Accumulated(h, 0)), "tool", h.cur) EXCEPT !.cur = 0]

ResponsesItem(h, w) ==
    LET closed == CloseTool(h)
        pos == Len(h.content) + 1
    IN CASE w.t = "itemAdded" ->
              IF closed.result = "error" THEN closed
              ELSE [OpenBlock(Accumulate(closed, 0, <<>>), "tool", w.id, pos) EXCEPT !.cur = pos]
         [] w.t = "itemDone" /\ w.kind = "tool" -> closed
         [] w.t = "itemDone" /\ w.kind = "text" ->
              IF h.text = 0 THEN h ELSE [EndBlock(h, "text", h.text) EXCEPT !.text = 0]

ResponsesHandle(h, w) ==
    LET pos == Len(h.content) + 1
        args == Append(Accumulated(h, 0), w.piece)
    IN CASE w.t = "created" -> Begun(h)
         [] w.t = "partAdded" -> [OpenBlock(h, "text", <<>>, pos) EXCEPT !.text = pos]
         [] w.t = "textDelta" -> IF h.text = 0 THEN h ELSE PushDelta(h, "text", h.text, w.piece)
         [] w.t = "argsDelta" -> IF h.cur = 0 THEN Accumulate(h, 0, args)
                                 ELSE PushArguments(h, 0, h.cur, w.piece)
         [] w.t = "completed" -> h
         [] OTHER -> ResponsesItem(h, w)

----------------------------------------------------------------------------
(* Bedrock: the wire's index of a block is mapped to its place.              *)

\* ensure_text_block, ensure_thinking_block.
EnsureBlock(h, w) ==
    IF w.key \in DOMAIN h.tools THEN h
    ELSE LET pos == Len(h.content) + 1
         IN [OpenBlock(h, w.kind, <<>>, pos) EXCEPT
                !.tools = [k \in DOMAIN @ \union {w.key} |-> IF k = w.key THEN pos ELSE @[k]]]

\* A tool call's input for a block that never started is dropped.
BedrockDelta(h, w) ==
    LET ensured == EnsureBlock(h, w)
    IN IF w.kind # "tool" THEN PushDelta(ensured, w.kind, ensured.tools[w.key], w.piece)
       ELSE IF w.key \in DOMAIN h.tools THEN PushArguments(h, w.key, h.tools[w.key], w.piece) ELSE h

BedrockStop(h, w) ==
    IF w.key \notin DOMAIN h.tools THEN h
    ELSE LET i == h.tools[w.key]
         IN EndBlock(SetArguments(h, i, Accumulated(h, w.key)), h.content[i].kind, i)

BedrockHandle(h, w) ==
    CASE w.t = "messageStart" -> Yield(h, "Start", "none", 0, "")
      [] w.t = "blockStart" -> LET pos == Len(h.content) + 1
                               IN [OpenBlock(h, "tool", w.id, pos) EXCEPT
                                      !.tools = [k \in DOMAIN @ \union {w.key} |->
                                                    IF k = w.key THEN pos ELSE @[k]]]
      [] w.t = "blockDelta" -> BedrockDelta(h, w)
      [] w.t = "blockStop" -> BedrockStop(h, w)
      [] w.t = "messageStop" -> [h EXCEPT !.stop = w.reason]
      [] w.t = "exception" -> [h EXCEPT !.result = "error"]

\* DeepSeek answers with one JSON document: thinking, then text.
DeepSeekHandle(h, w) ==
    IF w.parts = <<>> THEN [Begun(h) EXCEPT !.result = "error"]
    ELSE [FoldLeft(GooglePart, Begun(h), w.parts) EXCEPT !.stop = w.finish, !.result = "done"]

----------------------------------------------------------------------------
HandlerOf(api) == IF api \in {"azure", "codex"} THEN "responses" ELSE api

Handle(api, h, w) ==
    CASE api = "anthropic" -> AnthropicHandle(h, w)
      [] api \in {"completions", "mistral", "google"} -> ChunkHandle(api, h, w)
      [] api = "responses" -> ResponsesHandle(h, w)
      [] api = "bedrock" -> BedrockHandle(h, w)
      [] api = "deepseek" -> DeepSeekHandle(h, w)

\* The tool calls of a chunked message end in the order a hash map gives them.
EndTools(h, order) ==
    FoldLeft(LAMBDA acc, key : EndBlock(SetArguments(acc, acc.tools[key], Accumulated(acc, key)),
                                        "tool", acc.tools[key]), h, order)

HasTools(h) == \E i \in DOMAIN h.content : h.content[i].kind = "tool"

\* finalize of CompletionsHandler.
FinalizeCompletions(h, order) ==
    LET text == IF h.text = 0 THEN h ELSE EndBlock(h, "text", h.text)
        thinking == IF h.thinking = 0 THEN text ELSE EndBlock(text, "thinking", h.thinking)
    IN EndTools(thinking, order)

\* finalize of ResponsesHandler: here malformed arguments become {}.
FinalizeResponses(h) ==
    LET text == IF h.text = 0 THEN h ELSE EndBlock(h, "text", h.text)
    IN [IF h.cur = 0 THEN text
        ELSE EndBlock(SetArguments(text, h.cur, Accumulated(h, 0)), "tool", h.cur) EXCEPT
           !.stop = IF HasTools(h) THEN "toolUse" ELSE "stop"]

\* What each handler does when the body has ended; Bedrock has nothing to do.
Finalize(api, h, order) ==
    CASE api = "anthropic" -> [h EXCEPT !.stop = "error"]
      [] api = "completions" -> FinalizeCompletions(h, order)
      [] api = "mistral" -> EndTools(FinishCurrentBlock(h), order)
      [] api = "google" -> IF HasTools(h) THEN [h EXCEPT !.stop = "toolUse"] ELSE h
      [] api = "responses" -> FinalizeResponses(h)
      [] api = "bedrock" -> h

----------------------------------------------------------------------------
(* The stream.                                                               *)

Terminal(e, reason) == [e |-> e, kind |-> reason, i |-> 0, piece |-> ""]

\* The stream yields its last event.
End(e, reason) ==
    /\ pSeen' = Append(pSeen, Terminal(e, reason))
    /\ pPhase' = "ended"

\* resolve_model_auth of the environment: a key, but for Bedrock its own credentials.
ResolveModelAuth(api, env) ==
    [env EXCEPT !.key = @ /\ api # "bedrock", !.token = @ /\ api = "bedrock", !.secret = @ /\ api = "bedrock"]

\* apply_auth_material: what the caller gave comes first (fill_if_none), so something is
\* there when either has it.
ApplyAuthMaterial(given, resolved) == [f \in DOMAIN given |-> given[f] \/ resolved[f]]

\* What each provider's stream method needs before it sends, and how it sends: whether a
\* request has a timeout, is retried (send_json_stream) and looks at the token first.
Plain(opens) == [opens |-> opens, timeout |-> FALSE, retries |-> FALSE, looks |-> FALSE]
AnthropicProvider(o) == Plain(o.key)
MistralProvider(o) == Plain(o.key)
GoogleProvider(o) == [Plain(o.key) EXCEPT !.timeout = TRUE]
DeepSeekProvider(o) == [Plain(o.key) EXCEPT !.looks = TRUE]
CompletionsProvider(o) == [Plain(o.key) EXCEPT !.timeout = TRUE, !.retries = TRUE, !.looks = TRUE]
ResponsesProvider(o) == [Plain(o.key) EXCEPT !.timeout = TRUE, !.retries = TRUE, !.looks = TRUE]
AzureProvider(o) == [Plain(o.key /\ o.target) EXCEPT !.timeout = TRUE]  \* resolve_target
CodexProvider(o) == Plain(o.key /\ o.account)                           \* extract_account_id
BedrockProvider(o) == Plain(o.token \/ (o.secret /\ o.target))          \* auth_headers, sigv4

Provider(api, o) ==
    CASE api = "anthropic" -> AnthropicProvider(o)     [] api = "mistral" -> MistralProvider(o)
      [] api = "google" -> GoogleProvider(o)           [] api = "deepseek" -> DeepSeekProvider(o)
      [] api = "completions" -> CompletionsProvider(o) [] api = "responses" -> ResponsesProvider(o)
      [] api = "azure" -> AzureProvider(o)             [] api = "codex" -> CodexProvider(o)
      [] api = "bedrock" -> BedrockProvider(o)

Options == [{"key", "target", "account", "token", "secret"} -> BOOLEAN]
Sends(api) == Provider(api, [f \in {"key", "target", "account", "token", "secret"} |-> TRUE])

\* stream_model_with_auth: an API that is not registered, or a provider that lacks what it
\* needs, is an error at once.
StreamModel(api) ==
    /\ pPhase = "idle" /\ pTurn < PMaxTurns
    /\ pTurn' = pTurn + 1
    /\ pApi' = api
    /\ pBody' \in IF api \in PApis THEN PBodies[HandlerOf(api)] ELSE {<<>>}
    /\ pHandler' = NewHandler /\ pLost' = 0 /\ pSent' = 0 /\ pAttempt' = 0
    /\ UNCHANGED <<pCancel, pConversation>>
    /\ \E env \in Options, key \in BOOLEAN :
          LET given == [f \in DOMAIN env |-> f = "key" /\ key]
          IN IF api \in PApis /\ Provider(api, ApplyAuthMaterial(given, ResolveModelAuth(api, env))).opens
             THEN /\ pPhase' = "sending" /\ pSeen' = <<>>
                  /\ pRequest' = BuildRequest(api, pConversation)
             ELSE /\ pPhase' = "ended" /\ pSeen' = <<Terminal("Error", "error")>>
                  /\ pRequest' = <<>>

Looks == Sends(pApi).looks /\ pCancel

\* Before each attempt send_json_stream looks at the token, and so does DeepSeek.
SendCancelled ==
    /\ pPhase = "sending" /\ Looks
    /\ End("Error", "aborted")
    /\ UNCHANGED <<pApi, pAttempt, pCancel, pBody, pHandler, pLost, pSent, pConversation, pRequest, pTurn>>

\* should_retry, for what the network did.
ShouldRetry == Sends(pApi).retries /\ pAttempt < PMaxRetries

\* The network fails, or the timeout passes where the provider sets one: send_json_stream
\* tries again without a delay, the others do not.
SendFails(timeout) ==
    /\ pPhase = "sending" /\ ~Looks
    /\ timeout => Sends(pApi).timeout
    /\ IF ShouldRetry THEN pAttempt' = pAttempt + 1 /\ UNCHANGED <<pPhase, pSeen>>
       ELSE End("Error", "error") /\ UNCHANGED pAttempt
    /\ UNCHANGED <<pApi, pCancel, pBody, pHandler, pLost, pSent, pConversation, pRequest, pTurn>>

\* The server answers: status "ok", "refused" or "busy", and for "busy" a delay of "none",
\* "some" or "tooLong".  A hook that fails is an error, whatever the status.
Responds(status, delay) ==
    /\ pPhase = "sending" /\ ~Looks
    /\ \/ /\ status = "ok"
          /\ pPhase' = IF pApi \in {"bedrock", "deepseek"} THEN "await" ELSE "check"
          /\ UNCHANGED <<pSeen, pAttempt>>
       \/ /\ status = "busy" /\ ShouldRetry /\ delay # "tooLong"
          /\ IF delay = "some" THEN pPhase' = "waiting" /\ UNCHANGED pAttempt
             ELSE pAttempt' = pAttempt + 1 /\ UNCHANGED pPhase
          /\ UNCHANGED pSeen
       \/ /\ status = "refused" \/ (status = "busy" /\ (~ShouldRetry \/ delay = "tooLong"))
          /\ End("Error", "error") /\ UNCHANGED pAttempt
    /\ UNCHANGED <<pApi, pCancel, pBody, pHandler, pLost, pSent, pConversation, pRequest, pTurn>>

HookFails ==
    /\ pPhase = "sending" /\ Sends(pApi).retries /\ ~pCancel
    /\ End("Error", "error")
    /\ UNCHANGED <<pApi, pAttempt, pCancel, pBody, pHandler, pLost, pSent, pConversation, pRequest, pTurn>>

\* wait_before_retry: the timer or the token, whichever comes first.
WaitEnds(cancelled) ==
    /\ pPhase = "waiting"
    /\ IF cancelled THEN pCancel /\ End("Error", "aborted") /\ UNCHANGED pAttempt
       ELSE pPhase' = "sending" /\ pAttempt' = pAttempt + 1 /\ UNCHANGED pSeen
    /\ UNCHANGED <<pApi, pCancel, pBody, pHandler, pLost, pSent, pConversation, pRequest, pTurn>>

\* process_sse looks at the token before it waits for the next event.
CheckToken ==
    /\ pPhase = "check"
    /\ IF pCancel THEN End("Error", "aborted") ELSE pPhase' = "await" /\ UNCHANGED pSeen
    /\ UNCHANGED <<pApi, pAttempt, pCancel, pBody, pHandler, pLost, pSent, pConversation, pRequest, pTurn>>

\* The events of one step, and how the stream goes on after it.
Apply(h, next) ==
    /\ pHandler' = [h EXCEPT !.out = <<>>]
    /\ \/ /\ h.result = "continue"
          /\ pSeen' = pSeen \o h.out /\ pPhase' = next
       \/ /\ h.result = "done"
          /\ pSeen' = pSeen \o h.out \o <<Terminal("Done", h.stop)>> /\ pPhase' = "ended"
       \/ /\ h.result = "error"   \* the events of a step that fails are dropped with it
          /\ pSeen' = pSeen \o (IF pApi = "deepseek" THEN h.out ELSE <<>>)
                            \o <<Terminal("Error", "error")>>
          /\ pPhase' = "ended"

Pieces(w) == IF "parts" \in DOMAIN w THEN Len(w.parts)
             ELSE IF "piece" \in DOMAIN w /\ w.piece # "" THEN 1 ELSE 0

\* An event of the body is complete within one chunk.
BodyEvent ==
    /\ pPhase = "await" /\ pBody # <<>> /\ pApi # "bedrock"
    /\ Apply(Handle(HandlerOf(pApi), pHandler, Head(pBody)), "check")
    /\ pBody' = Tail(pBody) /\ pSent' = pSent + Pieces(Head(pBody))
    /\ UNCHANGED <<pApi, pAttempt, pCancel, pLost, pConversation, pRequest, pTurn>>

\* process_chunk: the lines of an event that a chunk ends between are forgotten with the
\* chunk, so the event is never seen.
EventAcrossChunks ==
    /\ pPhase = "await" /\ pBody # <<>> /\ pApi \notin {"bedrock", "deepseek"} /\ pLost < PMaxLost
    /\ pBody' = Tail(pBody) /\ pLost' = pLost + 1
    /\ UNCHANGED <<pApi, pPhase, pAttempt, pCancel, pHandler, pSeen, pSent, pConversation, pRequest, pTurn>>

\* Bedrock reads frames from chunks and looks at the token when a chunk arrives.
Frame(newChunk) ==
    /\ pPhase = "await" /\ pBody # <<>> /\ pApi = "bedrock"
    /\ newChunk \/ pHandler.first
    /\ IF newChunk /\ pCancel
       THEN End("Error", "aborted") /\ UNCHANGED <<pBody, pHandler, pSent>>
       ELSE /\ Apply([Handle("bedrock", pHandler, Head(pBody)) EXCEPT !.first = TRUE], "await")
            /\ pBody' = Tail(pBody) /\ pSent' = pSent + Pieces(Head(pBody))
    /\ UNCHANGED <<pApi, pAttempt, pCancel, pLost, pConversation, pRequest, pTurn>>

\* The connection breaks, or ends inside an event, whose rest no handler can parse.
BodyFails ==
    /\ pPhase = "await" /\ pBody # <<>>
    /\ IF pApi = "bedrock" /\ pCancel THEN End("Error", "aborted") ELSE End("Error", "error")
    /\ UNCHANGED <<pApi, pAttempt, pCancel, pBody, pHandler, pLost, pSent, pConversation, pRequest, pTurn>>

\* Mutant of BodyEnds: the handler has no last word.
BodyEndsAtOnce ==
    /\ pPhase = "await" /\ pApi # "deepseek"
    /\ pHandler' = pHandler
    /\ pSeen' = pSeen \o <<Terminal("Done", pHandler.stop)>>
    /\ pPhase' = "ended"
    /\ UNCHANGED <<pApi, pAttempt, pCancel, pBody, pLost, pSent, pConversation, pRequest, pTurn>>

\* The body ends between two events, after the last one or before, or with [DONE].
BodyEnds ==
    /\ pPhase = "await" /\ pApi # "deepseek"
    /\ \E order \in SetToSeqs(DOMAIN pHandler.tools) :
          LET h == Finalize(HandlerOf(pApi), pHandler, order)
          IN /\ pHandler' = [h EXCEPT !.out = <<>>]
             /\ pSeen' = pSeen \o h.out \o <<Terminal("Done", h.stop)>>
    /\ pPhase' = "ended"
    /\ UNCHANGED <<pApi, pAttempt, pCancel, pBody, pLost, pSent, pConversation, pRequest, pTurn>>

\* The caller cancels, at any time.
Cancel ==
    /\ pPhase \notin {"idle", "ended"} /\ ~pCancel
    /\ pCancel' = TRUE
    /\ UNCHANGED <<pApi, pPhase, pAttempt, pStream, pConversation, pRequest, pTurn>>

\* complete: the message of a Done is the assistant's; its tool calls are answered.
Complete ==
    /\ pPhase = "ended" /\ Last(pSeen).e = "Done"
    /\ LET calls == SelectSeq(pHandler.content, LAMBDA b : b.kind = "tool")
       IN pConversation' = pConversation
              \o <<[role |-> "assistant", blocks |-> pHandler.content]>>
              \o [c \in DOMAIN calls |-> [role |-> "result", blocks |-> <<calls[c]>>]]
    /\ pPhase' = "idle" /\ pCancel' = FALSE
    /\ UNCHANGED <<pApi, pAttempt, pStream, pRequest, pTurn>>

ProviderStreamInit ==
    /\ pApi = "none" /\ pPhase = "idle" /\ pAttempt = 0 /\ pCancel = FALSE
    /\ pBody = <<>> /\ pHandler = NewHandler /\ pSeen = <<>> /\ pLost = 0 /\ pSent = 0
    /\ pConversation = <<[role |-> "user", blocks |-> <<[kind |-> "text", id |-> <<>>, body |-> <<"u">>]>>]>>
    /\ pRequest = <<>> /\ pTurn = 0

ProviderStreamNext ==
    \/ \E api \in PApis \union {"unknown"} : StreamModel(api)
    \/ SendCancelled \/ HookFails
    \/ \E timeout \in BOOLEAN : SendFails(timeout)
    \/ \E status \in {"ok", "refused", "busy"}, delay \in {"none", "some", "tooLong"} :
          (status = "busy" \/ delay = "none") /\ Responds(status, delay)
    \/ \E cancelled \in BOOLEAN : WaitEnds(cancelled)
    \/ CheckToken \/ BodyEvent \/ EventAcrossChunks
    \/ \E newChunk \in BOOLEAN : Frame(newChunk)
    \/ BodyFails \/ BodyEnds \/ Cancel \/ Complete

----------------------------------------------------------------------------
Deltas(i) == SelectSeq(pSeen, LAMBDA e : e.e = "delta" /\ e.i = i)
Streamed(i) == [k \in DOMAIN Deltas(i) |-> Deltas(i)[k].piece]
At(e, i) == {k \in DOMAIN pSeen : pSeen[k].e = e /\ pSeen[k].i = i}

\* Whatever the API, and wherever the connection breaks or the caller cancels: the stream
\* yields one Done or Error and nothing after it; when no event of the body was lost, every
\* piece the server sent is streamed once, between the start and the end of its block, the
\* message holds exactly the pieces that were streamed for each block (arguments that are not
\* JSON become none), and a Done after the whole body has closed every block.
StreamFaithful ==
    LET ends == {k \in DOMAIN pSeen : pSeen[k].e \in {"Done", "Error"}}
        blocks == DOMAIN pHandler.content
    IN /\ Cardinality(ends) <= 1 /\ (pPhase = "ended" <=> ends # {} /\ pPhase # "idle")
       /\ \A k \in ends : k = Len(pSeen)
       /\ pLost = 0 =>
            /\ Cardinality(At("Start", 0)) <= 1
            /\ pHandler.result # "error" => Cardinality({k \in DOMAIN pSeen : pSeen[k].e = "delta"}) = pSent
            /\ \A i \in blocks : LET kind == pHandler.content[i].kind IN
                 /\ pHandler.content[i].body = IF kind = "tool" THEN ParseStreamingJson(Streamed(i))
                                               ELSE Streamed(i)
                 /\ Cardinality(At("start", i)) = 1 /\ Cardinality(At("end", i)) <= 1
                 /\ \A k \in At("start", i) \union At("delta", i) \union At("end", i) :
                       /\ pSeen[k].kind = kind
                       /\ \A s \in At("start", i) : s <= k
                       /\ \A e \in At("end", i) : k <= e
            /\ pBody = <<>> /\ ends # {} /\ Last(pSeen).e = "Done" =>
                 \A i \in blocks : At("end", i) # {}

\* Requests are repeated only by the transport that retries, at most max_retries times, and
\* never once the stream has yielded an event; and a request sends the tool calls of the
\* conversation and their answers in the same order, under the same ids (but Mistral's own
\* ids only), to Anthropic and Bedrock the answers of a message in the message after it.
RequestsSound ==
    LET items == FlattenSeq([m \in DOMAIN pRequest |-> pRequest[m].items])
        ids(kind) == LET of == SelectSeq(items, LAMBDA i : i.kind = kind)
                     IN [k \in DOMAIN of |-> of[k].id]
        calls(m) == {k \in DOMAIN pRequest[m].items : pRequest[m].items[k].kind = "tool"}
        answers(m) == {k \in DOMAIN pRequest[m].items : pRequest[m].items[k].kind = "result"}
    IN /\ pAttempt <= PMaxRetries /\ (pAttempt > 0 => Sends(pApi).retries)
       /\ pPhase \in {"sending", "waiting"} => pSeen = <<>>
       /\ pPhase = "sending" => items # <<>>
       /\ pApi = "mistral" => Len(ids("tool")) = Len(ids("result"))
       /\ pApi # "mistral" => ids("tool") = ids("result")
       /\ pApi \in {"anthropic", "bedrock"} =>
            \A m \in DOMAIN pRequest : calls(m) # {} =>
                m < Len(pRequest) /\ Cardinality(answers(m + 1)) = Cardinality(calls(m))

\* The requests and streams of every provider (pi-ai) say what the conversation and the
\* server say, also when the connection breaks, retries or is cancelled.
ProviderSound == StreamFaithful /\ RequestsSound
=============================================================================
