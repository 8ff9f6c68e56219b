--------------------------- MODULE ProviderRequest ---------------------------
(***************************************************************************)
(* What a conversation becomes in the request of each provider's API.  A     *)
(* conversation is a sequence of messages [role, blocks]: "user",            *)
(* "assistant", or "result", the answer to one tool call.  A block is        *)
(* [kind, id, body]; an id is a sequence of characters, because the APIs     *)
(* allow different ones: "*" stands for one that Anthropic and Bedrock       *)
(* refuse, "-" for one that Mistral refuses too.  A request is a sequence of *)
(* [role, items], an item [kind, id].                                        *)
(***************************************************************************)
EXTENDS Integers, FiniteSets, Sequences, SequencesExt

CONSTANT
    PNine   \* the length of an id that Mistral takes: 9 in the code

Item(b) == [kind |-> b.kind, id |-> b.id]

\* normalize_tool_call_id of tool_call_id.rs, with a character to put in or without.
NormalizeToolCallId(id, replacement) ==
    LET sanitized == IF replacement = "" THEN SelectSeq(id, LAMBDA c : c # "*")
                     ELSE [i \in DOMAIN id |-> IF id[i] = "*" THEN replacement ELSE id[i]]
    IN IF sanitized = <<>> THEN <<"tool_0">> ELSE sanitized

\* normalize_tool_call_id of Mistral: ids of another length are hashed.
NormalizeMistralId(id) ==
    LET alphanumeric == SelectSeq(id, LAMBDA c : c \notin {"*", "-", "_"})
    IN IF Len(alphanumeric) = PNine THEN alphanumeric
       ELSE <<"hash">> \o (IF alphanumeric = <<>> THEN id ELSE alphanumeric)

\* convert_content of Anthropic: every block.
ConvertContent(blocks) ==
    [k \in DOMAIN blocks |-> [Item(blocks[k]) EXCEPT !.id = NormalizeToolCallId(@, "")]]

\* convert_messages of Anthropic: a tool result goes into the user message before it.
ConvertMessages(conversation) ==
    LET answer(m) == [kind |-> "result", id |-> NormalizeToolCallId(m.blocks[1].id, "")]
        add(result, m) ==
            IF m.role # "result"
            THEN Append(result, [role |-> m.role, items |-> ConvertContent(m.blocks)])
            ELSE IF result # <<>> /\ Last(result).role = "user"
            THEN [result EXCEPT ![Len(result)].items = Append(@, answer(m))]
            ELSE Append(result, [role |-> "user", items |-> <<answer(m)>>])
    IN FoldLeft(add, <<>>, conversation)

\* convert_content of Bedrock: what is empty is left out, and never everything.
BedrockContent(blocks) ==
    LET kept == SelectSeq(blocks, LAMBDA b : b.kind \in {"tool", "image"} \/ b.body # <<>>)
    IN IF kept = <<>> THEN <<[kind |-> "text", id |-> <<>>]>>
       ELSE [k \in DOMAIN kept |-> [Item(kept[k]) EXCEPT !.id = NormalizeToolCallId(@, "_")]]

\* convert_messages of Bedrock: a run of tool results is one user message.
BedrockMessages(conversation) ==
    LET isRun(i) == i > 1 /\ conversation[i].role = "result" /\ conversation[i - 1].role = "result"
        add(result, i) ==
            LET m == conversation[i]
                answer == [kind |-> "result", id |-> NormalizeToolCallId(m.blocks[1].id, "_")]
            IN IF m.role # "result"
               THEN Append(result, [role |-> m.role, items |-> BedrockContent(m.blocks)])
               ELSE IF isRun(i) THEN [result EXCEPT ![Len(result)].items = Append(@, answer)]
               ELSE Append(result, [role |-> "user", items |-> <<answer>>])
        all == FoldLeft(add, <<>>, [i \in DOMAIN conversation |-> i])
    IN IF all # <<>> /\ Last(all).role = "user"
       THEN [all EXCEPT ![Len(all)].items = Append(@, [kind |-> "cachePoint", id |-> <<>>])]
       ELSE all

\* The blocks of one message that an API takes.
Taken(m, kinds) ==
    LET kept == SelectSeq(m.blocks, LAMBDA b : b.kind \in kinds)
    IN [k \in DOMAIN kept |-> Item(kept[k])]

\* convert_message of OpenAI completions: text, then the calls.
CompletionsMessage(m) ==
    CASE m.role = "user" -> [role |-> "user", items |-> Taken(m, {"text", "image"})]
      [] m.role = "assistant" ->
            [role |-> "assistant", items |-> Taken(m, {"text"}) \o Taken(m, {"tool"})]
      [] m.role = "result" -> [role |-> "tool", items |-> <<[kind |-> "result", id |-> m.blocks[1].id]>>]

\* convert_message of OpenAI responses: the blocks in order, no thinking.
ResponsesMessage(m) ==
    CASE m.role = "user" -> [role |-> "user", items |-> Taken(m, {"text", "image"})]
      [] m.role = "assistant" -> [role |-> "assistant", items |-> Taken(m, {"text", "tool"})]
      [] m.role = "result" -> [role |-> "output", items |-> <<[kind |-> "result", id |-> m.blocks[1].id]>>]

\* convert_message of Codex: the same items, built as JSON.
CodexMessage(m) ==
    IF m.role = "result"
    THEN [role |-> "output", items |-> <<[kind |-> "result", id |-> m.blocks[1].id]>>]
    ELSE [role |-> m.role, items |-> Taken(m, {"text", IF m.role = "user" THEN "image" ELSE "tool"})]

\* convert_message of Google: results by the name of their function, no ids at all.
GoogleMessage(m) ==
    IF m.role = "result" THEN [role |-> "user", items |-> <<[kind |-> "result", id |-> <<>>]>>]
    ELSE [role |-> m.role,
          items |-> LET parts == Taken(m, {"text", "tool", "image"})
                    IN [k \in DOMAIN parts |-> [parts[k] EXCEPT !.id = <<>>]]]

\* convert_message of Mistral: the id of a call is normalized, the one of a result is not.
MistralMessage(m) ==
    LET calls == Taken(m, {"tool"})
    IN CASE m.role = "user" -> [role |-> "user", items |-> Taken(m, {"text", "image"})]
      [] m.role = "assistant" ->
            [role |-> "assistant",
             items |-> Taken([m EXCEPT !.blocks = SelectSeq(@, LAMBDA b : b.body # <<>>)],
                             {"text", "thinking"})
                       \o [k \in DOMAIN calls |-> [calls[k] EXCEPT !.id = NormalizeMistralId(@)]]]
      [] m.role = "result" -> [role |-> "tool", items |-> <<[kind |-> "result", id |-> m.blocks[1].id]>>]

\* convert_message of DeepSeek: text only.
DeepSeekMessage(m) ==
    [role |-> IF m.role = "assistant" THEN "assistant" ELSE "user", items |-> Taken(m, {"text"})]

\* build_request of each API.  The marks for the provider's cache are left out.
BuildRequest(api, conversation) ==
    LET filled(convert(_)) == SelectSeq([i \in DOMAIN conversation |-> convert(conversation[i])],
                                        LAMBDA m : m.items # <<>>)
    IN CASE api = "anthropic" -> ConvertMessages(conversation)
         [] api = "bedrock" -> BedrockMessages(conversation)
         [] api = "completions" -> [i \in DOMAIN conversation |-> CompletionsMessage(conversation[i])]
         [] api \in {"responses", "azure"} -> filled(ResponsesMessage)
         [] api = "codex" -> filled(CodexMessage)
         [] api = "google" -> filled(GoogleMessage)
         [] api = "mistral" -> filled(MistralMessage)
         [] api = "deepseek" -> filled(DeepSeekMessage)

=============================================================================
