--------------------------- MODULE AgentTurnProofs --------------------------
(***************************************************************************)
(* Proofs about the run of an agent: for every context window, every number  *)
(* of turns, runs, texts and tool calls, and every mode of the two queues.    *)
(***************************************************************************)
EXTENDS AgentTurn, FiniteSetTheorems, SequenceTheorems, WellFoundedInduction, TLAPS

(***************************************************************************)
(* Numbers and sequences.                                                   *)
(***************************************************************************)
(* A set of numbers that is not empty has a least one: induction over the       *)
(* places of a sequence is by the least place where the claim fails.            *)
LEMMA NatLeast ==
    ASSUME NEW T \in SUBSET Nat, T # {}
    PROVE  \E m \in T : \A k \in T : m <= k
<1> DEFINE R == {ss \in Nat \X Nat : ss[1] < ss[2]}
<1>1. IsWellFoundedOn(R, Nat)
  BY NatLessThanWellFounded DEF OpToRel
<1> HIDE DEF R
<1>2. PICK m \in T : \A k \in T : ~(<<k, m>> \in R)
  BY <1>1, WFMin
<1>3. ASSUME NEW k \in T PROVE m <= k
  <2>1. ~(<<k, m>> \in R)
    BY <1>2
  <2>2. k \in Nat /\ m \in Nat
    OBVIOUS
  <2>3. ~(k < m)
    BY <2>1, <2>2 DEF R
  <2> QED
    BY <2>2, <2>3
<1> QED
  BY <1>3

(* What follows the first element.                                          *)
LEMMA TailFacts ==
    ASSUME NEW S, NEW s \in Seq(S), s # <<>>
    PROVE  /\ Tail(s) \in Seq(S) /\ Len(Tail(s)) = Len(s) - 1 /\ Head(s) = s[1] /\ s[1] \in S
           /\ Len(s) \in Nat \ {0} /\ \A i \in 1..(Len(s) - 1) : Tail(s)[i] = s[i + 1]
<1>1. Len(s) \in Nat \ {0}
  BY LenProperties, EmptySeq
<1> QED
  BY <1>1, HeadTailProperties, ElementOfSeq

(* Concatenation.                                                           *)
LEMMA ConcatFacts ==
    ASSUME NEW S, NEW s \in Seq(S), NEW t \in Seq(S)
    PROVE  /\ s \o t \in Seq(S) /\ Len(s \o t) = Len(s) + Len(t)
           /\ \A k \in 1..Len(s) : (s \o t)[k] = s[k]
           /\ \A k \in 1..Len(t) : (s \o t)[Len(s) + k] = t[k]
<1>1. Len(s) \in Nat /\ Len(t) \in Nat
  BY LenProperties
<1>2. /\ s \o t \in Seq(S) /\ Len(s \o t) = Len(s) + Len(t)
      /\ \A k \in 1..(Len(s) + Len(t)) :
            (s \o t)[k] = IF k <= Len(s) THEN s[k] ELSE t[k - Len(s)]
  BY Zenon, ConcatProperties
<1>3. ASSUME NEW k \in 1..Len(s) PROVE (s \o t)[k] = s[k]
  BY <1>1, <1>2
<1>4. ASSUME NEW k \in 1..Len(t) PROVE (s \o t)[Len(s) + k] = t[k]
  <2>1. Len(s) + k \in 1..(Len(s) + Len(t)) /\ ~(Len(s) + k <= Len(s)) /\ Len(s) + k - Len(s) = k
    BY <1>1
  <2> QED
    BY <1>2, <2>1
<1> QED
  BY <1>2, <1>3, <1>4

(***************************************************************************)
(* The run of the agent.                                                    *)
(***************************************************************************)
Seqs == Seq(MessageSet)
Ends == [pos : Nat, terminate : BOOLEAN]
Contexts ==
    [messages : Seqs, steering : Seqs, follow : Seqs, request : Seqs, reply : MessageSet,
     mode : {"none", "parallel", "sequential"}, pending : Seq(Nat), open : SUBSET Nat,
     ended : Seq(Ends), allTerminate : BOOLEAN]
Continues == {"continue", "continue_provider"}

TurnType ==
    /\ TypeOK
    /\ ctx \in Contexts
    /\ out \in [terminal : Nat, late : BOOLEAN, dropped : BOOLEAN]
    /\ hist \in [gone : SUBSET Nat, known : Nat, aborted : SUBSET Nat, compacted : BOOLEAN]

\* A turn has a context from its beginning to its end, and tools only where tools run.
ContextKept ==
    /\ pc \in {"idle", "turn"} => ctx = NoContext
    /\ ctx.mode # "none" => pc = "execute_tools"
    /\ ctx.mode = "none" => ctx.open = {} /\ ctx.ended = <<>>
    /\ pc \in (Nodes \ {"execute_tools"}) \cup {"flow"} => ctx.pending = <<>>
    /\ turn > MaxTurns => pc = "apply" /\ last = "error"

\* The terminal event is sent where the run ends, and nothing after it.
EventsKept ==
    /\ ~out.late
    /\ pc \in Nodes \cup {"turn", "flow", "failed"} => out.terminal = 0
    /\ pc = "apply" => /\ last \in Continues \cup {"done", "error", "aborted"}
                       /\ out.terminal = IF last \in Continues THEN 0 ELSE 1
    /\ pc = "idle" => out.terminal <= 1 /\ (runs > 0 /\ ~out.dropped => out.terminal = 1)

Distinct(s) == \A i, j \in 1..Len(s) : s[i] = s[j] => i = j
EndedPlaces(ended) == [i \in 1..Len(ended) |-> ended[i].pos]
Items(s) == {s[i] : i \in 1..Len(s)}

\* Every call of the reply is in one place: not started, running or finished.
CallsKept ==
    pc = "execute_tools" =>
        LET done == EndedPlaces(ctx.ended)
        IN  /\ Distinct(ctx.pending) /\ Distinct(done)
            /\ Items(ctx.pending) \cup ctx.open \cup Items(done) = 1..ctx.reply.calls
            /\ Items(ctx.pending) \cap ctx.open = {}
            /\ Items(ctx.pending) \cap Items(done) = {} /\ ctx.open \cap Items(done) = {}

\* The texts of a conversation, of the queues of its turn and of the agent's queues.
KindIds(kind, s) == {s[i].id : i \in {j \in 1..Len(s) : s[j].kind = kind}}
Below(kind, s, t) == \A x \in KindIds(kind, s), y \in KindIds(kind, t) : x < y
Only(kind, s) == \A i \in 1..Len(s) : s[i].kind = kind
Kept(c, cs, cf, s, f) ==
    /\ Apart(c) /\ Apart(cs) /\ Apart(cf) /\ Apart(s) /\ Apart(f)
    /\ TextIds(c) \cap (TextIds(cs) \cup TextIds(cf) \cup TextIds(s) \cup TextIds(f)) = {}
    /\ TextIds(cs) \cap (TextIds(cf) \cup TextIds(s) \cup TextIds(f)) = {}
    /\ TextIds(cf) \cap (TextIds(s) \cup TextIds(f)) = {}
    /\ TextIds(s) \cap TextIds(f) = {}
    /\ Rising("steer", c) /\ Rising("steer", cs) /\ Rising("steer", s)
    /\ Below("steer", c, cs) /\ Below("steer", c, s) /\ Below("steer", cs, s)
    /\ Rising("follow", c) /\ Rising("follow", cf) /\ Rising("follow", f)
    /\ Below("follow", c, cf) /\ Below("follow", c, f) /\ Below("follow", cf, f)
    /\ Only("steer", cs) /\ Only("steer", s) /\ Only("follow", cf) /\ Only("follow", f)

InContext == pc \notin {"idle", "turn"}
TextsInv ==
    /\ Kept(messages, <<>>, <<>>, steering, follow)
    /\ Kept(ctx.messages, ctx.steering, ctx.follow, steering, follow)
    /\ TextIds(Conversation) \cup TextIds(ctx.steering) \cup TextIds(ctx.follow)
         \cup TextIds(steering) \cup TextIds(follow) = (1..sent) \ hist.gone
    /\ TextIds(messages) \subseteq 1..sent /\ hist.gone \subseteq 1..sent

\* What was sent since the turn began is in the queues of the agent, and the steering of
\* before has joined the conversation where the request is made.
Drained == {"maybe_compact_runtime_context", "prepare_provider_request",
            "apply_before_provider_request_hook", "provider_stream"}
SteeringInv ==
    /\ InContext => \A t \in TextIds(steering) : t > hist.known
    /\ pc \in Drained /\ config.steer = "all" => ctx.steering = <<>>
    /\ hist.known <= sent

\* A reply that asks for tools is followed by their results, but for the runs of R.
Asks(m) == m.kind = "reply" /\ m.stop = "tool_use"
Complete(s, i) ==
    i + s[i].calls <= Len(s) /\ \A p \in 1..s[i].calls : s[i + p] = Result(s[i].id, p)
Answered(s, n, R) == \A i \in 1..n : Asks(s[i]) => Complete(s, i) \/ s[i].run \in R
Plain(s) == \A i \in 1..Len(s) : ~IsText(s[i])
Quiet(s) == \A i \in 1..Len(s) : ~Asks(s[i])
Past == {r \in hist.aborted : r < runs}

AnsweredInv ==
    /\ hist.aborted \subseteq 1..runs /\ (running => runs > 0)
    /\ Quiet(steering) /\ Quiet(follow) /\ Quiet(ctx.steering) /\ Quiet(ctx.follow)
    /\ running /\ cancelled => runs \in hist.aborted
    /\ pc = "execute_tools" =>
          /\ Len(ctx.messages) > 0 /\ ctx.messages[Len(ctx.messages)] = ctx.reply
          /\ ctx.reply.kind = "reply" /\ ctx.reply.stop = "tool_use" /\ ctx.reply.run = runs
    /\ pc = "decide_after_assistant" => ctx.reply.kind = "reply" /\ ctx.reply.run = runs
    /\ ~hist.compacted =>
          /\ Answered(messages, Len(messages), IF pc = "idle" THEN hist.aborted ELSE Past)
          /\ InContext =>
                Answered(ctx.messages, IF pc = "execute_tools" THEN Len(ctx.messages) - 1 ELSE Len(ctx.messages),
                         IF pc = "failed" THEN hist.aborted ELSE Past)
          /\ pc \in {"apply_before_provider_request_hook", "provider_stream"} =>
                Answered(ctx.request, Len(ctx.request), Past)

(***************************************************************************)
(* The texts of sequences of messages.                                      *)
(***************************************************************************)
(* Where the elements of a concatenation come from.                          *)
LEMMA ConcatPlaces ==
    ASSUME NEW s \in Seqs, NEW t \in Seqs
    PROVE  /\ s \o t \in Seqs /\ Len(s) \in Nat /\ Len(t) \in Nat /\ Len(s \o t) = Len(s) + Len(t)
           /\ \A i \in 1..Len(s \o t) :
                 \/ i \in 1..Len(s) /\ (s \o t)[i] = s[i]
                 \/ i - Len(s) \in 1..Len(t) /\ i > Len(s) /\ (s \o t)[i] = t[i - Len(s)]
           /\ \A i \in 1..Len(s) : i \in 1..Len(s \o t) /\ (s \o t)[i] = s[i]
           /\ \A i \in 1..Len(t) : Len(s) + i \in 1..Len(s \o t) /\ (s \o t)[Len(s) + i] = t[i]
<1> DEFINE n == Len(s)
           m == Len(t)
           u == s \o t
<1>1. n \in Nat /\ m \in Nat
  BY LenProperties DEF Seqs
<1>2. /\ u \in Seqs /\ Len(u) = n + m /\ (\A i \in 1..n : u[i] = s[i])
      /\ \A i \in 1..m : u[n + i] = t[i]
  BY ConcatFacts DEF Seqs
<1> HIDE DEF u, n, m
<1>3. ASSUME NEW i \in 1..(n + m)
      PROVE  \/ i \in 1..n /\ u[i] = s[i]
             \/ i - n \in 1..m /\ i > n /\ u[i] = t[i - n]
  <2>1. CASE i <= n
    BY <1>1, <1>2, <2>1
  <2>2. CASE ~(i <= n)
    <3>1. i - n \in 1..m /\ n + (i - n) = i /\ i > n
      BY <1>1, <2>2
    <3> QED
      BY <1>2, <3>1
  <2> QED
    BY <2>1, <2>2
<1>4. (\A i \in 1..n : i \in 1..(n + m)) /\ \A i \in 1..m : n + i \in 1..(n + m)
  BY <1>1
<1> QED
  BY <1>1, <1>2, <1>3, <1>4 DEF u, n, m

(* The texts of a sequence by its places.                                    *)
LEMMA TextPlaces ==
    ASSUME NEW s \in Seqs
    PROVE  /\ \A x : x \in TextIds(s) <=> \E i \in 1..Len(s) : IsText(s[i]) /\ s[i].id = x
           /\ \A i \in 1..Len(s) : s[i] \in MessageSet
           /\ TextIds(s) \subseteq Nat
<1>1. DOMAIN s = 1..Len(s) /\ \A i \in 1..Len(s) : s[i] \in MessageSet
  BY LenProperties, ElementOfSeq DEF Seqs
<1>2. \A x : x \in TextIds(s) <=> \E i \in 1..Len(s) : IsText(s[i]) /\ s[i].id = x
  <2>1. TextIds(s) = {m.id : m \in {n \in {s[i] : i \in 1..Len(s)} : IsText(n)}}
    BY <1>1 DEF TextIds, ToSet
  <2> QED
    BY <2>1
<1>3. \A i \in 1..Len(s) : s[i].id \in Nat
  BY <1>1 DEF MessageSet
<1> QED
  BY <1>1, <1>2, <1>3

LEMMA TextsConcat ==
    ASSUME NEW s \in Seqs, NEW t \in Seqs
    PROVE  /\ TextIds(s \o t) = TextIds(s) \cup TextIds(t)
           /\ Apart(s \o t) <=> Apart(s) /\ Apart(t) /\ TextIds(s) \cap TextIds(t) = {}
<1> DEFINE u == s \o t
           n == Len(s)
           m == Len(t)
<1>1. /\ u \in Seqs /\ n \in Nat /\ m \in Nat /\ Len(u) = n + m
      /\ \A i \in 1..Len(u) : \/ i \in 1..n /\ u[i] = s[i]
                              \/ i - n \in 1..m /\ i > n /\ u[i] = t[i - n]
      /\ \A i \in 1..n : i \in 1..Len(u) /\ u[i] = s[i]
      /\ \A i \in 1..m : n + i \in 1..Len(u) /\ u[n + i] = t[i]
  BY ConcatPlaces
<1> HIDE DEF u
<1>2. /\ \A x : x \in TextIds(s) <=> \E i \in 1..n : IsText(s[i]) /\ s[i].id = x
      /\ \A x : x \in TextIds(t) <=> \E i \in 1..m : IsText(t[i]) /\ t[i].id = x
      /\ \A x : x \in TextIds(u) <=> \E i \in 1..Len(u) : IsText(u[i]) /\ u[i].id = x
  BY <1>1, TextPlaces
<1> HIDE DEF n, m
<1>3. TextIds(u) = TextIds(s) \cup TextIds(t)
  BY <1>1, <1>2
<1>4. ASSUME Apart(u) PROVE Apart(s) /\ Apart(t) /\ TextIds(s) \cap TextIds(t) = {}
  <2>1. Apart(s)
    BY <1>1, <1>4 DEF Apart, n
  <2>2. ASSUME NEW i \in 1..m, NEW j \in 1..m, IsText(t[i]), IsText(t[j]), t[i].id = t[j].id PROVE i = j
    <3>1. n + i = n + j
      BY <1>1, <1>4, <2>2 DEF Apart
    <3> QED
      BY <1>1, <3>1
  <2>3. ASSUME NEW x \in TextIds(s) \cap TextIds(t) PROVE FALSE
    <3>1. PICK i \in 1..n : IsText(s[i]) /\ s[i].id = x
      BY <1>2, <2>3
    <3>2. PICK j \in 1..m : IsText(t[j]) /\ t[j].id = x
      BY <1>2, <2>3
    <3>3. i = n + j
      BY <1>1, <1>4, <3>1, <3>2 DEF Apart
    <3> QED
      BY <1>1, <3>3
  <2> QED
    BY <2>1, <2>2, <2>3 DEF Apart, m
<1>5. ASSUME Apart(s), Apart(t), TextIds(s) \cap TextIds(t) = {} PROVE Apart(u)
  <2> SUFFICES ASSUME NEW i \in 1..Len(u), NEW j \in 1..Len(u), IsText(u[i]), IsText(u[j]), u[i].id = u[j].id
               PROVE  i = j
    BY DEF Apart
  <2>1. CASE i \in 1..n /\ u[i] = s[i] /\ j \in 1..n /\ u[j] = s[j]
    BY <1>5, <2>1 DEF Apart, n
  <2>2. CASE /\ i - n \in 1..m /\ u[i] = t[i - n] /\ j - n \in 1..m /\ u[j] = t[j - n]
    <3>1. i - n = j - n
      BY <1>5, <2>2 DEF Apart, m
    <3> QED
      BY <1>1, <3>1
  <2>3. CASE i \in 1..n /\ u[i] = s[i] /\ j - n \in 1..m /\ u[j] = t[j - n]
    BY <1>2, <1>5, <2>3
  <2>4. CASE j \in 1..n /\ u[j] = s[j] /\ i - n \in 1..m /\ u[i] = t[i - n]
    BY <1>2, <1>5, <2>4
  <2> QED
    BY <1>1, <2>1, <2>2, <2>3, <2>4
<1> QED
  BY <1>3, <1>4, <1>5 DEF u

(* The texts of one kind.                                                     *)
LEMMA KindPlaces ==
    ASSUME NEW s \in Seqs, NEW kind
    PROVE  /\ \A x : x \in KindIds(kind, s) <=> \E i \in 1..Len(s) : s[i].kind = kind /\ s[i].id = x
           /\ KindIds(kind, s) \subseteq Nat
           /\ kind \in {"prompt", "steer", "follow"} => KindIds(kind, s) \subseteq TextIds(s)
<1>1. \A x : x \in KindIds(kind, s) <=> \E i \in 1..Len(s) : s[i].kind = kind /\ s[i].id = x
  BY DEF KindIds
<1>2. \A i \in 1..Len(s) : s[i].id \in Nat
  BY TextPlaces DEF MessageSet
<1>3. kind \in {"prompt", "steer", "follow"} => \A i \in 1..Len(s) : s[i].kind = kind => IsText(s[i])
  BY DEF IsText
<1> QED
  BY <1>1, <1>2, <1>3, TextPlaces

LEMMA KindConcat ==
    ASSUME NEW s \in Seqs, NEW t \in Seqs, NEW kind
    PROVE  /\ KindIds(kind, s \o t) = KindIds(kind, s) \cup KindIds(kind, t)
           /\ Rising(kind, s \o t) <=> Rising(kind, s) /\ Rising(kind, t) /\ Below(kind, s, t)
           /\ Only(kind, s \o t) <=> Only(kind, s) /\ Only(kind, t)
<1> DEFINE u == s \o t
           n == Len(s)
           m == Len(t)
<1>1. /\ u \in Seqs /\ n \in Nat /\ m \in Nat /\ Len(u) = n + m
      /\ \A i \in 1..Len(u) : \/ i \in 1..n /\ u[i] = s[i]
                              \/ i - n \in 1..m /\ i > n /\ u[i] = t[i - n]
      /\ \A i \in 1..n : i \in 1..Len(u) /\ u[i] = s[i]
      /\ \A i \in 1..m : n + i \in 1..Len(u) /\ u[n + i] = t[i]
  BY ConcatPlaces
<1> HIDE DEF u
<1>2. /\ \A x : x \in KindIds(kind, s) <=> \E i \in 1..n : s[i].kind = kind /\ s[i].id = x
      /\ \A x : x \in KindIds(kind, t) <=> \E i \in 1..m : t[i].kind = kind /\ t[i].id = x
      /\ \A x : x \in KindIds(kind, u) <=> \E i \in 1..Len(u) : u[i].kind = kind /\ u[i].id = x
  BY <1>1 DEF KindIds
<1> HIDE DEF n, m
<1>3. KindIds(kind, u) = KindIds(kind, s) \cup KindIds(kind, t)
  BY <1>1, <1>2
<1>4. ASSUME Rising(kind, u) PROVE Rising(kind, s) /\ Rising(kind, t) /\ Below(kind, s, t)
  <2>1. Rising(kind, s)
    BY <1>1, <1>4 DEF Rising, n
  <2>2. ASSUME NEW i \in 1..m, NEW j \in 1..m, i < j, t[i].kind = kind, t[j].kind = kind
        PROVE  t[i].id < t[j].id
    <3>1. n + i < n + j
      BY <1>1, <2>2
    <3> QED
      BY <1>1, <1>4, <2>2, <3>1 DEF Rising
  <2>3. ASSUME NEW x \in KindIds(kind, s), NEW y \in KindIds(kind, t) PROVE x < y
    <3>1. PICK i \in 1..n : s[i].kind = kind /\ s[i].id = x
      BY <1>2
    <3>2. PICK j \in 1..m : t[j].kind = kind /\ t[j].id = y
      BY <1>2
    <3>3. i < n + j
      BY <1>1
    <3> QED
      BY <1>1, <1>4, <3>1, <3>2, <3>3 DEF Rising
  <2> QED
    BY <2>1, <2>2, <2>3 DEF Rising, Below, m
<1>5. ASSUME Rising(kind, s), Rising(kind, t), Below(kind, s, t) PROVE Rising(kind, u)
  <2> SUFFICES ASSUME NEW i \in 1..Len(u), NEW j \in 1..Len(u), i < j, u[i].kind = kind, u[j].kind = kind
               PROVE  u[i].id < u[j].id
    BY DEF Rising
  <2>1. CASE i \in 1..n /\ u[i] = s[i] /\ j \in 1..n /\ u[j] = s[j]
    BY <1>5, <2>1 DEF Rising, n
  <2>2. CASE /\ i - n \in 1..m /\ u[i] = t[i - n] /\ j - n \in 1..m /\ u[j] = t[j - n]
    <3>1. i - n < j - n
      BY <1>1
    <3> QED
      BY <1>5, <2>2, <3>1 DEF Rising, m
  <2>3. CASE i \in 1..n /\ u[i] = s[i] /\ j - n \in 1..m /\ u[j] = t[j - n]
    <3>1. s[i].id \in KindIds(kind, s) /\ t[j - n].id \in KindIds(kind, t)
      BY <1>2, <2>3
    <3> QED
      BY <1>5, <2>3, <3>1 DEF Below
  <2>4. CASE j \in 1..n /\ i > n
    BY <1>1, <2>4
  <2> QED
    BY <1>1, <2>1, <2>2, <2>3, <2>4
<1>6. Only(kind, u) <=> Only(kind, s) /\ Only(kind, t)
  BY <1>1 DEF Only, n, m
<1> QED
  BY <1>3, <1>4, <1>5, <1>6 DEF u

(***************************************************************************)
(* The flow.                                                                *)
(***************************************************************************)
LEMMA NodeNames ==
    Nodes = {"start_turn", "drain_queued_input", "maybe_compact_runtime_context",
             "prepare_provider_request", "apply_before_provider_request_hook", "provider_stream",
             "decide_after_assistant", "execute_tools", "maybe_prepare_next_turn"}
<1> DEFINE N == {"start_turn", "drain_queued_input", "maybe_compact_runtime_context",
                 "prepare_provider_request", "apply_before_provider_request_hook", "provider_stream",
                 "decide_after_assistant", "execute_tools", "maybe_prepare_next_turn"}
<1>1. \A e \in Edges : e[1] \in N /\ e[3] \in N
  BY DEF Edges
<1>2. /\ <<"start_turn", "default", "drain_queued_input">> \in Edges
      /\ <<"drain_queued_input", "default", "maybe_compact_runtime_context">> \in Edges
      /\ <<"maybe_compact_runtime_context", "default", "prepare_provider_request">> \in Edges
      /\ <<"prepare_provider_request", "default", "apply_before_provider_request_hook">> \in Edges
      /\ <<"apply_before_provider_request_hook", "default", "provider_stream">> \in Edges
      /\ <<"provider_stream", "default", "decide_after_assistant">> \in Edges
      /\ <<"decide_after_assistant", "tools", "execute_tools">> \in Edges
      /\ <<"execute_tools", "continue", "maybe_prepare_next_turn">> \in Edges
  BY DEF Edges
<1>3. Nodes \subseteq N
  BY <1>1 DEF Nodes
<1>4. ASSUME NEW a, NEW b, NEW c, <<a, b, c>> \in Edges PROVE a \in Nodes /\ c \in Nodes
  <2>1. <<a, b, c>>[1] = a /\ <<a, b, c>>[3] = c
    OBVIOUS
  <2> QED
    BY <1>4, <2>1 DEF Nodes
<1> HIDE DEF N
<1>5. N \subseteq Nodes
  BY <1>2, <1>4 DEF N
<1> QED
  BY <1>3, <1>5 DEF N

(* Where a node goes by an action that the graph knows, and by one that ends  *)
(* the flow.                                                                  *)
LEMMA LeaveFacts ==
    /\ Leave("default") =>
          /\ pc = "start_turn" => pc' = "drain_queued_input" /\ last' = last
          /\ pc = "drain_queued_input" => pc' = "maybe_compact_runtime_context" /\ last' = last
          /\ pc = "maybe_compact_runtime_context" => pc' = "prepare_provider_request" /\ last' = last
          /\ pc = "prepare_provider_request" => pc' = "apply_before_provider_request_hook" /\ last' = last
          /\ pc = "apply_before_provider_request_hook" => pc' = "provider_stream" /\ last' = last
          /\ pc = "provider_stream" => pc' = "decide_after_assistant" /\ last' = last
    /\ Leave("tools") /\ pc = "decide_after_assistant" => pc' = "execute_tools" /\ last' = last
    /\ Leave("continue") /\ pc \in {"decide_after_assistant", "execute_tools"} =>
          pc' = "maybe_prepare_next_turn" /\ last' = last
    /\ Leave("continue") /\ pc = "maybe_prepare_next_turn" => pc' = "apply" /\ last' = "continue"
    /\ \A a \in {"continue_provider", "done", "error", "aborted"} :
          Leave(a) => pc' = "apply" /\ last' = a
<1>1. ASSUME NEW a, NEW b, <<pc, a, b>> \in Edges, Leave(a),
             \A e \in Edges : e[1] = pc /\ e[2] = a => e[3] = b
      PROVE  pc' = b /\ last' = last
  <2>1. \E e \in Edges : e[1] = pc /\ e[2] = a
    <3>1. <<pc, a, b>>[1] = pc /\ <<pc, a, b>>[2] = a
      OBVIOUS
    <3> QED
      BY <1>1, <3>1
  <2> QED
    BY <1>1, <2>1 DEF Leave
<1>2. ASSUME NEW a, Leave(a), \A e \in Edges : ~(e[1] = pc /\ e[2] = a) PROVE pc' = "apply" /\ last' = a
  BY <1>2 DEF Leave
<1>3. ASSUME Leave("default"), pc \in {"start_turn", "drain_queued_input", "maybe_compact_runtime_context",
                 "prepare_provider_request", "apply_before_provider_request_hook", "provider_stream"}
      PROVE  /\ pc = "start_turn" => pc' = "drain_queued_input" /\ last' = last
             /\ pc = "drain_queued_input" => pc' = "maybe_compact_runtime_context" /\ last' = last
             /\ pc = "maybe_compact_runtime_context" => pc' = "prepare_provider_request" /\ last' = last
             /\ pc = "prepare_provider_request" => pc' = "apply_before_provider_request_hook" /\ last' = last
             /\ pc = "apply_before_provider_request_hook" => pc' = "provider_stream" /\ last' = last
             /\ pc = "provider_stream" => pc' = "decide_after_assistant" /\ last' = last
  <2>1. CASE pc = "start_turn"
    BY <1>1, <1>3, <2>1 DEF Edges
  <2>2. CASE pc = "drain_queued_input"
    BY <1>1, <1>3, <2>2 DEF Edges
  <2>3. CASE pc = "maybe_compact_runtime_context"
    BY <1>1, <1>3, <2>3 DEF Edges
  <2>4. CASE pc = "prepare_provider_request"
    BY <1>1, <1>3, <2>4 DEF Edges
  <2>5. CASE pc = "apply_before_provider_request_hook"
    BY <1>1, <1>3, <2>5 DEF Edges
  <2>6. CASE pc = "provider_stream"
    BY <1>1, <1>3, <2>6 DEF Edges
  <2> QED
    BY <1>3, <2>1, <2>2, <2>3, <2>4, <2>5, <2>6
<1>4. ASSUME Leave("tools"), pc = "decide_after_assistant" PROVE pc' = "execute_tools" /\ last' = last
  BY <1>1, <1>4 DEF Edges
<1>5. ASSUME Leave("continue"), pc \in {"decide_after_assistant", "execute_tools"}
      PROVE  pc' = "maybe_prepare_next_turn" /\ last' = last
  BY <1>1, <1>5 DEF Edges
<1>6. ASSUME Leave("continue"), pc = "maybe_prepare_next_turn" PROVE pc' = "apply" /\ last' = "continue"
  BY <1>2, <1>6 DEF Edges
<1>7. ASSUME NEW a \in {"continue_provider", "done", "error", "aborted"}, Leave(a) PROVE pc' = "apply" /\ last' = a
  BY <1>2, <1>7 DEF Edges
<1> QED
  BY <1>3, <1>4, <1>5, <1>6, <1>7

(* Messages.                                                                *)
LEMMA MessageFacts ==
    /\ \A kind \in MessageKinds, id \in Nat : Text(kind, id) \in MessageSet
    /\ \A id \in Nat, pos \in Nat : Result(id, pos) \in MessageSet
    /\ NoReply \in MessageSet /\ Summary \in MessageSet
    /\ \A id \in Nat, calls \in Nat, stop \in Stops, usage \in Nat, run \in Nat :
          Message("reply", id, 0, calls, stop, usage, run) \in MessageSet
  BY DEF Text, Result, NoReply, Summary, Message, MessageSet, MessageKinds, Stops

LEMMA NoContextFacts == NoContext \in Contexts
<1>1. <<>> \in Seq(MessageSet) /\ <<>> \in Seq(Nat) /\ <<>> \in Seq(Ends)
  OBVIOUS
<1> QED
  BY <1>1, MessageFacts DEF NoContext, Contexts, Seqs

(***************************************************************************)
(* Compaction of the context.                                               *)
(***************************************************************************)
LEMMA LeastPlace ==
    ASSUME NEW T \in SUBSET Nat, T # {}
    PROVE  Min(T) \in T /\ \A k \in T : Min(T) <= k
<1>1. \E m \in T : \A k \in T : m <= k
  BY NatLeast
<1> QED
  BY <1>1 DEF Min

LEMMA GreatestPlace ==
    ASSUME NEW n \in Nat, NEW T \in SUBSET (0..n), T # {}
    PROVE  Max(T) \in T /\ \A k \in T : Max(T) >= k
<1> DEFINE U == {k \in Nat : \A i \in T : i <= k}
<1>1. n \in U
  OBVIOUS
<1>2. PICK m \in U : \A k \in U : m <= k
  BY <1>1, NatLeast
<1>3. m \in T
  <2>1. SUFFICES ASSUME m \notin T PROVE FALSE
    OBVIOUS
  <2>2. PICK t \in T : TRUE
    OBVIOUS
  <2>3. m > t
    BY <1>2, <2>1
  <2>4. m - 1 \in U
    BY <1>2, <2>1, <2>3
  <2> QED
    BY <1>2, <2>4
<1>4. \E x \in T : \A y \in T : x >= y
  BY <1>2, <1>3
<1> QED
  BY <1>4 DEF Max

(* The context is cut in three: what is summarised, what is kept, and results *)
(* at the end that are dropped.                                               *)
Cut(ms, a, b) ==
    /\ a \in 0..Len(ms) /\ b \in a..Len(ms)
    /\ \A i \in (b + 1)..Len(ms) : ms[i].kind = "result"

LEMMA PreparedCut ==
    ASSUME NEW ms \in Seqs, PrepareCompaction(ms).old # <<>>
    PROVE  \E a, b \in Nat : /\ Cut(ms, a, b) /\ PrepareCompaction(ms).old = SubSeq(ms, 1, a)
                             /\ PrepareCompaction(ms).keep = SubSeq(ms, a + 1, b)
<1> DEFINE n == Len(ms)
           ends == {i \in 1..n : ms[i].kind # "result"}
           final == Max(ends)
           starts == {final} \cup {i \in 1..final : EstimateTokens(ms, i, final) <= KeepRecent}
           first == Min(starts)
<1>1. n \in Nat
  BY LenProperties DEF Seqs
<1> HIDE DEF n
<1>2. /\ ends # {} /\ PrepareCompaction(ms) = [old |-> SubSeq(ms, 1, first - 1), keep |-> SubSeq(ms, first, final)]
  BY Zenon DEF PrepareCompaction, Everything, n
<1>3. final \in 1..n /\ \A i \in ends : final >= i
  <2>1. ends \in SUBSET (0..n)
    BY <1>1
  <2>2. final \in ends /\ \A i \in ends : final >= i
    BY <1>1, <1>2, <2>1, GreatestPlace
  <2> QED
    BY <2>2
<1> HIDE DEF final
<1>4. first \in 1..final
  <2>1. starts \subseteq 1..final /\ starts \in SUBSET Nat /\ starts # {}
    BY <1>1, <1>3
  <2> HIDE DEF starts
  <2> QED
    BY <2>1, LeastPlace
<1> HIDE DEF first
<1>5. first - 1 \in Nat /\ final \in Nat /\ first - 1 + 1 = first
  BY <1>3, <1>4
<1>6. Cut(ms, first - 1, final)
  <2>1. \A i \in (final + 1)..n : i \notin ends /\ i \in 1..n
    BY <1>1, <1>3
  <2>2. \A i \in (final + 1)..n : ms[i].kind = "result"
    BY <2>1
  <2> QED
    BY <1>1, <1>3, <1>4, <2>2 DEF Cut, n
<1>7. /\ PrepareCompaction(ms).old = SubSeq(ms, 1, first - 1)
      /\ PrepareCompaction(ms).keep = SubSeq(ms, first - 1 + 1, final)
  BY SMTT(60), <1>2, <1>5
<1> QED
  BY <1>5, <1>6, <1>7

LEMMA AnchorCut ==
    ASSUME NEW ms \in Seqs, NEW anchor, SplitAfterAnchor(ms, anchor).old # <<>>, anchor \in 0..Len(ms)
    PROVE  \E a, b \in Nat : /\ Cut(ms, a, b) /\ SplitAfterAnchor(ms, anchor).old = SubSeq(ms, 1, a)
                             /\ SplitAfterAnchor(ms, anchor).keep = SubSeq(ms, a + 1, b)
<1> DEFINE n == Len(ms)
           after == {i \in (anchor + 1)..n : ms[i].kind # "result"}
           split == IF after = {} THEN n ELSE Min(after) - 1
<1>1. n \in Nat
  BY LenProperties DEF Seqs
<1> HIDE DEF n
<1>2. SplitAfterAnchor(ms, anchor) = [old |-> SubSeq(ms, 1, split), keep |-> SubSeq(ms, split + 1, n)]
  <2>1. CASE anchor = 0
    BY <2>1 DEF SplitAfterAnchor, Everything
  <2>2. CASE anchor # 0
    BY Zenon, <2>2 DEF SplitAfterAnchor, n
  <2> QED
    BY <2>1, <2>2
<1>3. split \in 0..n
  <2>1. anchor \in 0..n
    BY DEF n
  <2>2. CASE after = {}
    BY <1>1, <2>2
  <2>3. CASE after # {}
    <3>1. after \in SUBSET Nat /\ after \subseteq (anchor + 1)..n
      BY <1>1, <2>1
    <3>2. Min(after) \in after
      BY <2>3, <3>1, LeastPlace
    <3>3. Min(after) \in (anchor + 1)..n
      BY <3>1, <3>2
    <3> HIDE DEF after
    <3> QED
      BY <1>1, <2>1, <2>3, <3>3
  <2> QED
    BY <2>2, <2>3
<1> HIDE DEF split
<1>4. Cut(ms, split, n)
  BY <1>1, <1>3 DEF Cut, n
<1> QED
  BY <1>1, <1>2, <1>3, <1>4

LEMMA ContextCut ==
    ASSUME NEW ms \in Seqs, Split(ms).old # <<>>
    PROVE  \E a, b \in Nat : /\ Cut(ms, a, b) /\ Split(ms).old = SubSeq(ms, 1, a)
                             /\ Split(ms).keep = SubSeq(ms, a + 1, b)
<1>1. CASE PrepareCompaction(ms).old # <<>>
  <2>1. Split(ms) = PrepareCompaction(ms)
    BY <1>1 DEF Split
  <2> QED
    BY <1>1, <2>1, PreparedCut
<1>2. CASE PrepareCompaction(ms).old = <<>>
  <2>1. Split(ms) = SplitAfterAnchor(ms, LastUsage(ms))
    BY <1>2 DEF Split
  <2>2. LastUsage(ms) \in 0..Len(ms)
    <3> DEFINE anchors == UsageAnchors(ms)
    <3>1. Len(ms) \in Nat
      BY LenProperties DEF Seqs
    <3>2. anchors \in SUBSET (0..Len(ms))
      BY <3>1 DEF UsageAnchors
    <3>3. anchors # {} => Max(anchors) \in anchors
      BY <3>1, <3>2, GreatestPlace
    <3>4. LastUsage(ms) = IF anchors = {} THEN 0 ELSE Max(anchors)
      BY DEF LastUsage
    <3> HIDE DEF anchors
    <3> QED
      BY <3>1, <3>2, <3>3, <3>4
  <2> QED
    BY SMTT(60), <2>1, <2>2, AnchorCut
<1> QED
  BY <1>1, <1>2

(* The shortened context: the summary, and what was kept.                     *)
LEMMA CompactedFacts ==
    ASSUME NEW ms \in Seqs, Split(ms).old # <<>>
    PROVE  \E a, b \in Nat :
              /\ Cut(ms, a, b) /\ Split(ms).old = SubSeq(ms, 1, a)
              /\ Compacted(ms) \in Seqs /\ Len(Compacted(ms)) = b - a + 1
              /\ Compacted(ms)[1] = Summary
              /\ \A i \in 1..(b - a) :
                    /\ a + i \in 1..Len(ms)
                    /\ Compacted(ms)[i + 1] = [ms[a + i] EXCEPT !.usage = 0]
<1>1. PICK a \in Nat, b \in Nat : Cut(ms, a, b) /\ Split(ms).old = SubSeq(ms, 1, a)
                                  /\ Split(ms).keep = SubSeq(ms, a + 1, b)
  BY ContextCut
<1> DEFINE n == Len(ms)
           keep == Split(ms).keep
           kept == [i \in 1..Len(keep) |-> [keep[i] EXCEPT !.usage = 0]]
<1>2. n \in Nat /\ \A i \in 1..n : ms[i] \in MessageSet
  BY LenProperties, ElementOfSeq DEF Seqs
<1>3. a <= b /\ b <= n
  BY <1>1, <1>2 DEF Cut
<1>4. Len(keep) = b - a /\ \A i \in 1..(b - a) : keep[i] = ms[a + i] /\ a + i \in 1..n
  <2>1. keep = SubSeq(ms, a + 1, b)
    BY <1>1
  <2>2. Len(keep) = b - a /\ \A i \in 1..(b - a) : keep[i] = ms[a + 1 + i - 1]
    BY <1>2, <1>3, <2>1, SubSeqProperties DEF Seqs
  <2>3. \A i \in 1..(b - a) : a + 1 + i - 1 = a + i /\ a + i \in 1..n
    BY <1>2, <1>3
  <2> QED
    BY <2>2, <2>3
<1> HIDE DEF keep
<1>5. /\ kept \in Seqs /\ Len(kept) = b - a
      /\ \A i \in 1..(b - a) : kept[i] = [ms[a + i] EXCEPT !.usage = 0]
  <2>1. \A i \in 1..(b - a) : [keep[i] EXCEPT !.usage = 0] \in MessageSet
    <3>1. TAKE i \in 1..(b - a)
    <3>2. keep[i] \in MessageSet
      BY <1>2, <1>4
    <3>3. \A m \in MessageSet : [m EXCEPT !.usage = 0] \in MessageSet
      BY DEF MessageSet
    <3> QED
      BY <3>2, <3>3
  <2>2. b - a \in Nat
    BY <1>3
  <2>3. kept \in [1..(b - a) -> MessageSet]
    BY <1>4, <2>1
  <2>4. kept \in Seq(MessageSet) /\ Len(kept) = b - a
    BY <1>4, <2>2, <2>3, SeqDef, LenProperties
  <2> QED
    BY <1>4, <2>4 DEF Seqs
<1> HIDE DEF kept
<1>6. Compacted(ms) = <<Summary>> \o kept
  BY Zenon DEF Compacted, kept, keep
<1>7. <<Summary>> \in Seqs /\ Len(<<Summary>>) = 1 /\ <<Summary>>[1] = Summary
  BY MessageFacts DEF Seqs
<1> DEFINE one == <<Summary>>
<1> HIDE DEF one
<1>8. /\ one \o kept \in Seqs /\ Len(one \o kept) = 1 + (b - a) /\ (one \o kept)[1] = Summary
      /\ \A i \in 1..(b - a) : (one \o kept)[1 + i] = kept[i]
  <2>1. one \in Seqs /\ Len(one) = 1 /\ one[1] = Summary
    BY <1>7 DEF one
  <2>2. /\ one \o kept \in Seqs /\ Len(one \o kept) = Len(one) + Len(kept)
        /\ \A k \in 1..Len(one) : (one \o kept)[k] = one[k]
        /\ \A k \in 1..Len(kept) : (one \o kept)[Len(one) + k] = kept[k]
    <3>1. one \in Seq(MessageSet) /\ kept \in Seq(MessageSet)
      BY <1>5, <2>1 DEF Seqs
    <3> QED
      BY <3>1, ConcatFacts DEF Seqs
  <2>3. 1 \in 1..Len(one)
    BY <2>1
  <2>4. Len(kept) = b - a
    BY <1>5
  <2> QED
    BY <2>1, <2>2, <2>3, <2>4
<1>9. (\A i \in 1..(b - a) : 1 + i = i + 1) /\ 1 + (b - a) = b - a + 1
  BY <1>3
<1>10. Compacted(ms) = one \o kept
  BY <1>6 DEF one
<1>11. /\ Compacted(ms) \in Seqs /\ Len(Compacted(ms)) = b - a + 1 /\ Compacted(ms)[1] = Summary
       /\ \A i \in 1..(b - a) :
             a + i \in 1..n /\ Compacted(ms)[i + 1] = [ms[a + i] EXCEPT !.usage = 0]
  BY <1>4, <1>5, <1>8, <1>9, <1>10
<1> QED
  BY <1>1, <1>11 DEF n

(***************************************************************************)
(* The results of a batch of tools.                                         *)
(***************************************************************************)
(* A sequence that lists 1..m without repetition has length m.                *)
LEMMA ListsAll ==
    ASSUME NEW n \in Nat, NEW m \in Nat, NEW g \in [1..n -> Nat],
           \A i, j \in 1..n : g[i] = g[j] => i = j, {g[i] : i \in 1..n} = 1..m
    PROVE  n = m
<1>1. g \in [1..n -> 1..m]
  OBVIOUS
<1>2. g \in Injection(1..n, 1..m)
  BY <1>1 DEF Injection, IsInjective
<1>3. g \in Surjection(1..n, 1..m)
  BY <1>1 DEF Surjection
<1>4. ExistsBijection(1..n, 1..m)
  BY <1>2, <1>3 DEF ExistsBijection, Bijection
<1>5. IsFiniteSet(1..n) /\ Cardinality(1..n) = n /\ Cardinality(1..m) = m
  <2>1. IsFiniteSet(1..n) /\ Cardinality(1..n) = n
    BY SMTT(30), FS_Interval
  <2>2. Cardinality(1..m) = m
    BY SMTT(30), FS_Interval
  <2> QED
    BY <2>1, <2>2
<1>6. Cardinality(1..m) = Cardinality(1..n)
  BY <1>4, <1>5, FS_Bijection
<1> QED
  BY <1>5, <1>6

LEMMA ResultsFacts ==
    ASSUME TurnType, CallsKept, pc = "execute_tools", ctx.open = {}, ctx.pending = <<>>
    PROVE  /\ ResultMessages \in Seqs /\ Len(ResultMessages) = ctx.reply.calls
           /\ \A i \in 1..ctx.reply.calls : ResultMessages[i] = Result(ctx.reply.id, i)
<1> DEFINE ended == ctx.ended
           n == Len(ended)
           m == ctx.reply.calls
           done == EndedPlaces(ended)
           places == {e.pos : e \in ToSet(ended)}
           Place(i) == CHOOSE p \in places : Cardinality({q \in places : q <= p}) = i
           id == ctx.reply.id
<1>1. /\ ended \in Seq(Ends) /\ m \in Nat /\ id \in Nat
  BY DEF TurnType, Contexts, MessageSet
<1>2. Distinct(done) /\ Items(done) = 1..m
  BY DEF CallsKept, Items
<1>3. ResultMessages = [i \in 1..n |-> Result(id, Place(i))]
  BY DEF ResultMessages
<1> HIDE DEF m, id
<1>4. n \in Nat /\ DOMAIN ended = 1..n /\ \A i \in 1..n : ended[i] \in Ends
  BY <1>1, LenProperties, ElementOfSeq
<1> HIDE DEF ended, n
<1>5. done = [i \in 1..n |-> ended[i].pos] /\ done \in [1..n -> Nat] /\ Len(done) = n
  <2>1. done = [i \in 1..n |-> ended[i].pos]
    BY DEF EndedPlaces, n
  <2>2. \A i \in 1..n : ended[i].pos \in Nat
    BY <1>4 DEF Ends
  <2>3. done \in [1..n -> Nat]
    BY <2>1, <2>2
  <2>4. done \in Seq(Nat)
    BY <1>4, <2>3, SeqDef
  <2> QED
    BY <1>4, <2>1, <2>3, <2>4, LenProperties
<1>6. places = 1..m
  <2>1. places = {ended[i].pos : i \in 1..n}
    BY <1>4 DEF ToSet
  <2>2. Len(done) = n /\ \A i \in 1..n : done[i] = ended[i].pos
    BY <1>5
  <2> HIDE DEF done, places
  <2>3. Items(done) = {ended[i].pos : i \in 1..n}
    BY <2>2 DEF Items
  <2> QED
    BY <1>2, <2>1, <2>3
<1>7. n = m
  <2>1. {done[i] : i \in 1..n} = 1..m
    BY <1>2, <1>5 DEF Items
  <2>2. \A i, j \in 1..n : done[i] = done[j] => i = j
    BY <1>2, <1>5 DEF Distinct
  <2> HIDE DEF done
  <2> QED
    BY <1>1, <1>4, <1>5, <2>1, <2>2, ListsAll
<1> HIDE DEF places
<1>8. ASSUME NEW i \in 1..m PROVE Place(i) = i
  <2>1. ASSUME NEW p \in places PROVE Cardinality({q \in places : q <= p}) = p
    <3>1. {q \in places : q <= p} = 1..p /\ p \in Nat /\ p >= 1
      BY <1>1, <1>6, <2>1
    <3>2. Cardinality(1..p) = p
      BY <3>1, FS_Interval
    <3> QED
      BY <3>1, <3>2
  <2>2. i \in places
    BY <1>6
  <2> QED
    BY <2>1, <2>2
<1> HIDE DEF Place
<1>9. ResultMessages = [i \in 1..m |-> Result(id, i)]
  BY <1>3, <1>7, <1>8
<1>10. \A i \in 1..m : Result(id, i) \in MessageSet
  BY <1>1, MessageFacts
<1>11. ResultMessages \in [1..m -> MessageSet]
  BY <1>9, <1>10
<1>12. ResultMessages \in Seq(MessageSet) /\ Len(ResultMessages) = m
  BY <1>1, <1>11, SeqDef, LenProperties
<1> QED
  BY <1>9, <1>12 DEF m, id, Seqs

(***************************************************************************)
(* The stream of a run.                                                     *)
(***************************************************************************)
StreamInv == TurnType /\ ContextKept /\ EventsKept /\ CallsKept

(* What the steps have in common: the types, and the names of the nodes.      *)
LEMMA TurnParts ==
    ASSUME TurnType
    PROVE  /\ messages \in Seqs /\ steering \in Seqs /\ follow \in Seqs
           /\ ctx.messages \in Seqs /\ ctx.steering \in Seqs /\ ctx.follow \in Seqs
           /\ ctx.request \in Seqs /\ ctx.reply \in MessageSet /\ ctx.pending \in Seq(Nat)
           /\ ctx.open \in SUBSET Nat /\ ctx.ended \in Seq(Ends)
           /\ sent \in Nat /\ runs \in Nat /\ replies \in Nat /\ turn \in Nat
           /\ hist.gone \in SUBSET Nat /\ hist.known \in Nat /\ hist.aborted \in SUBSET Nat
           /\ out.terminal \in Nat /\ MaxTurns \in Nat /\ MaxRuns \in Nat /\ MaxTexts \in Nat
<1>1. MaxTurns \in Nat /\ MaxRuns \in Nat /\ MaxTexts \in Nat
  BY TurnAssumption
<1> QED
  BY <1>1 DEF TurnType, TypeOK, Contexts, Seqs

LEMMA StreamSteer ==
    ASSUME StreamInv, Steer
    PROVE  StreamInv'
<1>0. TurnType /\ ContextKept /\ EventsKept /\ CallsKept
  BY DEF StreamInv
<1>1. Text("steer", sent + 1) \in MessageSet
  BY <1>0, TurnParts, MessageFacts DEF MessageKinds
<1>2. Append(steering, Text("steer", sent + 1)) \in Seqs
  BY <1>0, <1>1, TurnParts DEF Seqs
<1>91. TurnType'
  BY <1>0, NodeNames, TurnParts, <1>2, TurnAssumption DEF StreamInv, TurnType, TypeOK, Contexts, Seqs, shared, counters, Between, Steer
<1>92. ContextKept'
  BY <1>0, NodeNames, TurnParts DEF StreamInv, ContextKept, shared, counters, Between, Steer
<1>93. EventsKept'
  BY <1>0, NodeNames, TurnParts DEF StreamInv, EventsKept, Emit, EmitFinal, Continues, shared, counters, Between, Steer
<1>94. CallsKept'
  BY <1>0, NodeNames, TurnParts DEF StreamInv, CallsKept, shared, counters, Steer
<1> QED
  BY <1>91, <1>92, <1>93, <1>94 DEF StreamInv

LEMMA StreamFollowUp ==
    ASSUME StreamInv, FollowUp
    PROVE  StreamInv'
<1>0. TurnType /\ ContextKept /\ EventsKept /\ CallsKept
  BY DEF StreamInv
<1>1. Text("follow", sent + 1) \in MessageSet
  BY <1>0, TurnParts, MessageFacts DEF MessageKinds
<1>2. Append(follow, Text("follow", sent + 1)) \in Seqs
  BY <1>0, <1>1, TurnParts DEF Seqs
<1>91. TurnType'
  BY <1>0, NodeNames, TurnParts, <1>2, TurnAssumption DEF StreamInv, TurnType, TypeOK, Contexts, Seqs, shared, counters, Between, FollowUp
<1>92. ContextKept'
  BY <1>0, NodeNames, TurnParts DEF StreamInv, ContextKept, shared, counters, Between, FollowUp
<1>93. EventsKept'
  BY <1>0, NodeNames, TurnParts DEF StreamInv, EventsKept, Emit, EmitFinal, Continues, shared, counters, Between, FollowUp
<1>94. CallsKept'
  BY <1>0, NodeNames, TurnParts DEF StreamInv, CallsKept, shared, counters, FollowUp
<1> QED
  BY <1>91, <1>92, <1>93, <1>94 DEF StreamInv

LEMMA StreamClearQueues ==
    ASSUME StreamInv, NEW s, NEW f, ClearQueues(s, f)
    PROVE  StreamInv'
<1>0. TurnType /\ ContextKept /\ EventsKept /\ CallsKept
  BY DEF StreamInv
<1>1. <<>> \in Seqs
  BY DEF Seqs
<1>2. steering \o follow \in Seqs /\ TextIds(steering \o follow) \subseteq Nat
  BY <1>0, TurnParts, ConcatPlaces, TextPlaces
<1>91. TurnType'
  BY <1>0, NodeNames, TurnParts, <1>1, <1>2, TurnAssumption DEF StreamInv, TurnType, TypeOK, Contexts, Seqs, shared, counters, Between, ClearQueues
<1>92. ContextKept'
  BY <1>0, NodeNames, TurnParts DEF StreamInv, ContextKept, shared, counters, Between, ClearQueues
<1>93. EventsKept'
  BY <1>0, NodeNames, TurnParts DEF StreamInv, EventsKept, Emit, EmitFinal, Continues, shared, counters, Between, ClearQueues
<1>94. CallsKept'
  BY <1>0, NodeNames, TurnParts DEF StreamInv, CallsKept, shared, counters, ClearQueues
<1> QED
  BY <1>91, <1>92, <1>93, <1>94 DEF StreamInv

LEMMA StreamAbort ==
    ASSUME StreamInv, Abort
    PROVE  StreamInv'
<1>0. TurnType /\ ContextKept /\ EventsKept /\ CallsKept
  BY DEF StreamInv
<1>91. TurnType'
  BY <1>0, NodeNames, TurnParts, TurnAssumption DEF StreamInv, TurnType, TypeOK, Contexts, Seqs, shared, counters, Between, Abort
<1>92. ContextKept'
  BY <1>0, NodeNames, TurnParts DEF StreamInv, ContextKept, shared, counters, Between, Abort
<1>93. EventsKept'
  BY <1>0, NodeNames, TurnParts DEF StreamInv, EventsKept, Emit, EmitFinal, Continues, shared, counters, Between, Abort
<1>94. CallsKept'
  BY <1>0, NodeNames, TurnParts DEF StreamInv, CallsKept, shared, counters, Abort
<1> QED
  BY <1>91, <1>92, <1>93, <1>94 DEF StreamInv

LEMMA StreamPrompt ==
    ASSUME StreamInv, Prompt
    PROVE  StreamInv'
<1>0. TurnType /\ ContextKept /\ EventsKept /\ CallsKept
  BY DEF StreamInv
<1>1. Text("prompt", sent + 1) \in MessageSet
  BY <1>0, TurnParts, MessageFacts DEF MessageKinds
<1>2. Append(messages, Text("prompt", sent + 1)) \in Seqs
  BY <1>0, <1>1, TurnParts DEF Seqs
<1>3. NoContext.mode = "none" /\ NoContext.open = {} /\ NoContext.ended = <<>> /\ NoContext.pending = <<>>
  BY DEF NoContext
<1>4. pc = "idle" /\ runs < MaxRuns /\ running' = TRUE /\ runs' = runs + 1 /\ pc' = "turn" /\ out' = NoEvents
  BY <1>0 DEF Prompt, StartRun, TurnType, TypeOK
<1>5. ctx = NoContext
  BY <1>0, <1>4 DEF ContextKept
<1>6. runs' \in 0..MaxRuns /\ out' \in [terminal : Nat, late : BOOLEAN, dropped : BOOLEAN]
  BY <1>0, <1>4, TurnParts DEF NoEvents
<1>91. TurnType'
  <2>1. /\ config' = config /\ messages' \in Seqs /\ UNCHANGED <<steering, follow, ctx, turn, last, replies, hist>>
        /\ cancelled' = FALSE /\ sent' = sent + 1 /\ sent < MaxTexts
    BY <1>2 DEF Prompt, StartRun
  <2>2. sent' \in 0..MaxTexts
    BY <1>0, <2>1, TurnParts
  <2> QED
    BY <1>0, <1>4, <1>6, <2>1, <2>2 DEF TurnType, TypeOK, Between, Seqs
<1>92. ContextKept'
  BY <1>0, NodeNames, TurnParts, <1>3, <1>4, <1>5 DEF StreamInv, ContextKept, shared, counters, Between, Prompt, StartRun, NoEvents
<1>93. EventsKept'
  BY <1>0, NodeNames, TurnParts, <1>4, <1>6 DEF StreamInv, EventsKept, Emit, EmitFinal, Continues, shared, counters, Between, Prompt, StartRun, NoEvents
<1>94. CallsKept'
  BY <1>0, NodeNames, TurnParts, <1>4 DEF StreamInv, CallsKept, shared, counters, Prompt, StartRun, NoEvents
<1> QED
  BY <1>91, <1>92, <1>93, <1>94 DEF StreamInv

LEMMA StreamRun ==
    ASSUME StreamInv, Run
    PROVE  StreamInv'
<1>0. TurnType /\ ContextKept /\ EventsKept /\ CallsKept
  BY DEF StreamInv
<1>3. NoContext.mode = "none" /\ NoContext.open = {} /\ NoContext.ended = <<>> /\ NoContext.pending = <<>>
  BY DEF NoContext
<1>4. pc = "idle" /\ runs < MaxRuns /\ running' = TRUE /\ runs' = runs + 1 /\ pc' = "turn" /\ out' = NoEvents
  BY <1>0 DEF Run, StartRun, TurnType, TypeOK
<1>5. ctx = NoContext
  BY <1>0, <1>4 DEF ContextKept
<1>6. runs' \in 0..MaxRuns /\ out' \in [terminal : Nat, late : BOOLEAN, dropped : BOOLEAN]
  BY <1>0, <1>4, TurnParts DEF NoEvents
<1>91. TurnType'
  BY <1>0, NodeNames, TurnParts, <1>4, <1>6, TurnAssumption DEF StreamInv, TurnType, TypeOK, Contexts, Seqs, shared, counters, Between, Run, StartRun, NoEvents
<1>92. ContextKept'
  BY <1>0, NodeNames, TurnParts, <1>3, <1>4, <1>5 DEF StreamInv, ContextKept, shared, counters, Between, Run, StartRun, NoEvents
<1>93. EventsKept'
  BY <1>0, NodeNames, TurnParts, <1>4 DEF StreamInv, EventsKept, Emit, EmitFinal, Continues, shared, counters, Between, Run, StartRun, NoEvents
<1>94. CallsKept'
  BY <1>0, NodeNames, TurnParts, <1>4 DEF StreamInv, CallsKept, shared, counters, Run, StartRun, NoEvents
<1> QED
  BY <1>91, <1>92, <1>93, <1>94 DEF StreamInv

LEMMA StreamDropStream ==
    ASSUME StreamInv, DropStream
    PROVE  StreamInv'
<1>0. TurnType /\ ContextKept /\ EventsKept /\ CallsKept
  BY DEF StreamInv
<1>1. TextIds(ctx.messages \o ctx.steering \o ctx.follow) \subseteq Nat
  BY <1>0, TurnParts, ConcatPlaces, TextPlaces
<1>3. NoContext.mode = "none" /\ NoContext.open = {} /\ NoContext.ended = <<>> /\ NoContext.pending = <<>>
  BY DEF NoContext
<1>4. pc \in (Nodes \cup Between) \ {"idle"}
  BY <1>0 DEF DropStream, TurnType, TypeOK
<1>5. out.terminal <= 1 /\ ~out.late
  BY <1>0, <1>4, TurnParts DEF EventsKept, Between
<1>91. TurnType'
  <2>1. /\ UNCHANGED <<config, messages, steering, follow, cancelled, sent, replies, runs>>
        /\ pc' = "idle" /\ running' = FALSE /\ turn' = 0 /\ ctx' = NoContext /\ last' = "default"
    BY DEF DropStream, EndRun
  <2>2. ctx' \in Contexts
    BY <2>1, NoContextFacts
  <2>3. out' \in [terminal : Nat, late : BOOLEAN, dropped : BOOLEAN]
    BY <1>0 DEF DropStream, TurnType
  <2>4. hist' \in [gone : SUBSET Nat, known : Nat, aborted : SUBSET Nat, compacted : BOOLEAN]
    BY <1>0, <1>1 DEF DropStream, TurnType
  <2>6. /\ ctx'.messages \in Seqs /\ ctx'.steering \in Seqs /\ ctx'.follow \in Seqs /\ ctx'.request \in Seqs
        /\ turn' \in 0..(MaxTurns + 1) /\ pc' \in Between /\ last' \in Actions
    BY <1>0, <2>1, <2>2, TurnParts DEF Contexts, Between, Actions
  <2>5. TypeOK'
    BY <1>0, <2>1, <2>6 DEF TurnType, TypeOK, Seqs
  <2> QED
    BY <2>2, <2>3, <2>4, <2>5 DEF TurnType
<1>92. ContextKept'
  BY <1>0, NodeNames, TurnParts, <1>3 DEF StreamInv, ContextKept, shared, counters, Between, DropStream, EndRun
<1>93. EventsKept'
  BY <1>0, NodeNames, TurnParts, <1>4, <1>5 DEF StreamInv, EventsKept, Emit, EmitFinal, Continues, shared, counters, Between, DropStream, EndRun
<1>94. CallsKept'
  BY <1>0, NodeNames, TurnParts DEF StreamInv, CallsKept, shared, counters, DropStream, EndRun
<1> QED
  BY <1>91, <1>92, <1>93, <1>94 DEF StreamInv

(* What a step of the run does to the types and to the events.                *)
Outs == [terminal : Nat, late : BOOLEAN, dropped : BOOLEAN]
Hists == [gone : SUBSET Nat, known : Nat, aborted : SUBSET Nat, compacted : BOOLEAN]

LEMMA TypeParts ==
    ASSUME config' \in Configs, messages' \in Seqs, steering' \in Seqs, follow' \in Seqs,
           cancelled' \in BOOLEAN, running' \in BOOLEAN, running' = (pc' # "idle"),
           pc' \in Nodes \cup Between, turn' \in 0..(MaxTurns + 1), last' \in Actions,
           ctx' \in Contexts, sent' \in 0..MaxTexts, runs' \in 0..MaxRuns, replies' \in Nat,
           out' \in Outs, hist' \in Hists
    PROVE  TurnType'
<1>1. /\ ctx'.messages \in Seqs /\ ctx'.steering \in Seqs /\ ctx'.follow \in Seqs /\ ctx'.request \in Seqs
  BY DEF Contexts
<1>2. TypeOK'
  BY <1>1 DEF TypeOK, Seqs
<1> QED
  BY <1>2 DEF TurnType, Outs, Hists

LEMMA FlatType ==
    ASSUME TurnType
    PROVE  /\ config \in Configs /\ cancelled \in BOOLEAN /\ running \in BOOLEAN /\ running = (pc # "idle")
           /\ pc \in Nodes \cup Between /\ turn \in 0..(MaxTurns + 1) /\ last \in Actions
           /\ ctx \in Contexts /\ sent \in 0..MaxTexts /\ runs \in 0..MaxRuns /\ replies \in Nat
           /\ messages \in Seqs /\ steering \in Seqs /\ follow \in Seqs
           /\ out \in Outs /\ hist \in Hists
  BY DEF TurnType, TypeOK, Outs, Hists, Seqs

Final == {"done", "error", "aborted"}

LEMMA EventsStep ==
    ASSUME TurnType, EventsKept, pc \in Nodes \cup {"turn", "flow"},
           \/ /\ \/ pc' \in Nodes \cup {"turn", "flow", "failed"}
                 \/ pc' = "apply" /\ last' \in Continues
              /\ Emit \/ UNCHANGED out
           \/ pc' = "apply" /\ last' \in Final /\ EmitFinal
    PROVE  EventsKept' /\ out' \in Outs
<1>1. out \in Outs /\ out.terminal = 0 /\ ~out.late
  BY NodeNames, FlatType DEF EventsKept
<1>2. ASSUME Emit \/ UNCHANGED out PROVE out' \in Outs /\ out'.terminal = 0 /\ ~out'.late
  BY <1>1, <1>2 DEF Emit, Outs
<1>3. ASSUME EmitFinal PROVE out' \in Outs /\ out'.terminal = 1 /\ ~out'.late
  <2> DEFINE late == out.late \/ out.terminal > 0
             after == out.terminal + 1
  <2>1. late = FALSE /\ after = 1
    BY <1>1
  <2>2. out' = [out EXCEPT !.late = late, !.terminal = after]
    BY <1>3 DEF EmitFinal
  <2> HIDE DEF late, after
  <2> QED
    BY <1>1, <2>1, <2>2 DEF Outs
<1> QED
  BY <1>2, <1>3, NodeNames DEF EventsKept, Continues, Final

(* Queues: what the mode takes, and what came since the turn began.          *)
LEMMA DrainFacts ==
    ASSUME NEW q \in Seqs, NEW mode
    PROVE  /\ Taken(q, mode) \in Seqs /\ Left(q, mode) \in Seqs
           /\ q = Taken(q, mode) \o Left(q, mode)
<1>1. CASE mode = "all" \/ q = <<>>
  <2>1. Taken(q, mode) = q /\ Left(q, mode) = <<>>
    BY <1>1 DEF Taken, Left
  <2>2. q \o <<>> = q /\ <<>> \in Seqs
    BY ConcatEmptySeq DEF Seqs
  <2> QED
    BY <2>1, <2>2
<1>2. CASE ~(mode = "all" \/ q = <<>>)
  <2>1. Taken(q, mode) = <<Head(q)>> /\ Left(q, mode) = Tail(q)
    BY <1>2 DEF Taken, Left
  <2>2. Head(q) \in MessageSet /\ Tail(q) \in Seqs
    BY <1>2, TailFacts DEF Seqs
  <2>3. q = <<Head(q)>> \o Tail(q)
    BY <1>2, HeadTailProperties DEF Seqs
  <2> QED
    BY <2>1, <2>2, <2>3 DEF Seqs
<1> QED
  BY <1>1, <1>2

LEMMA SyncFacts ==
    ASSUME TurnType
    PROVE  /\ SyncLiveQueues \in Contexts
           /\ SyncLiveQueues = [ctx EXCEPT !.steering = ctx.steering \o steering, !.follow = ctx.follow \o follow]
           /\ SyncLiveQueues.mode = ctx.mode /\ SyncLiveQueues.open = ctx.open
           /\ SyncLiveQueues.ended = ctx.ended /\ SyncLiveQueues.pending = ctx.pending
           /\ SyncLiveQueues.messages = ctx.messages /\ SyncLiveQueues.reply = ctx.reply
           /\ SyncLiveQueues.request = ctx.request
           /\ SyncLiveQueues.steering = ctx.steering \o steering
           /\ SyncLiveQueues.follow = ctx.follow \o follow
<1>1. ctx \in Contexts /\ ctx.steering \o steering \in Seqs /\ ctx.follow \o follow \in Seqs
  BY TurnParts, FlatType, ConcatPlaces
<1> QED
  BY <1>1 DEF SyncLiveQueues, Contexts

LEMMA CompactedTypes ==
    ASSUME NEW ms \in Seqs, Split(ms).old # <<>>
    PROVE  Compacted(ms) \in Seqs /\ Split(ms).old \in Seqs
<1>1. PICK a \in Nat, b \in Nat :
          Cut(ms, a, b) /\ Split(ms).old = SubSeq(ms, 1, a) /\ Compacted(ms) \in Seqs
  BY CompactedFacts
<1>2. a \in 0..Len(ms)
  BY <1>1 DEF Cut
<1>3. SubSeq(ms, 1, a) \in Seqs
  BY <1>2, LenProperties, SubSeqProperties DEF Seqs
<1> QED
  BY <1>1, <1>3

LEMMA StreamBeginTurn ==
    ASSUME StreamInv, BeginTurn
    PROVE  StreamInv'
<1>0. TurnType /\ ContextKept /\ EventsKept /\ CallsKept
  BY DEF StreamInv
<1>1. UNCHANGED <<config, messages, cancelled, running, turn, sent, replies, runs>>
  BY DEF BeginTurn, shared, counters
<1>2. pc = "turn" /\ pc' = "flow" /\ last' = last /\ UNCHANGED out
  BY <1>0, FlatType, LeaveFacts DEF BeginTurn, At
<1>3. /\ ctx' \in Contexts /\ ctx'.mode = "none" /\ ctx'.open = {} /\ ctx'.ended = <<>> /\ ctx'.pending = <<>>
      /\ <<>> \in Seqs /\ hist' \in Hists
  <2>1. ctx' = [NoContext EXCEPT !.messages = messages, !.steering = steering, !.follow = follow]
    BY DEF BeginTurn
  <2>2. /\ ctx' \in Contexts /\ ctx'.mode = "none" /\ ctx'.open = {} /\ ctx'.ended = <<>> /\ ctx'.pending = <<>>
    BY <1>0, <2>1, NoContextFacts, TurnParts DEF NoContext, Contexts
  <2>3. hist' \in Hists
    BY <1>0, FlatType, TurnParts DEF BeginTurn, Hists
  <2> QED
    BY <2>2, <2>3 DEF Seqs
<1>8. steering' = <<>> /\ follow' = <<>>
  BY DEF BeginTurn
<1>4. EventsKept' /\ out' \in Outs
  BY <1>0, <1>2, NodeNames, EventsStep DEF Continues, Final
<1>5. TurnType'
  BY <1>0, <1>1, <1>2, <1>3, <1>4, <1>8, FlatType, NodeNames, TypeParts DEF Between, Actions
<1>6. ContextKept'
  BY <1>0, <1>1, <1>2, <1>3, TurnParts, NodeNames DEF ContextKept
<1>7. CallsKept'
  BY <1>0, <1>1, <1>2, <1>3 DEF CallsKept
<1> QED
  BY <1>4, <1>5, <1>6, <1>7 DEF StreamInv

LEMMA StreamEnterFlow ==
    ASSUME StreamInv, EnterFlow
    PROVE  StreamInv'
<1>0. TurnType /\ ContextKept /\ EventsKept /\ CallsKept
  BY DEF StreamInv
<1>1. UNCHANGED <<config, messages, steering, follow, cancelled, running, ctx, turn, sent, replies, runs, hist>>
  BY DEF EnterFlow, shared, counters
<1>2. pc = "flow" /\ pc' = "start_turn" /\ last' = last /\ UNCHANGED out
  BY <1>0, FlatType, LeaveFacts DEF EnterFlow, At
<1>4. EventsKept' /\ out' \in Outs
  BY <1>0, <1>2, NodeNames, EventsStep DEF Continues, Final
<1>5. TurnType'
  BY <1>0, <1>1, <1>2, <1>4, FlatType, NodeNames, TypeParts DEF Between, Actions
<1>6. ContextKept'
  BY <1>0, <1>1, <1>2, TurnParts, NodeNames DEF ContextKept
<1>7. CallsKept'
  BY <1>0, <1>1, <1>2 DEF CallsKept
<1> QED
  BY <1>4, <1>5, <1>6, <1>7 DEF StreamInv

LEMMA StreamCancelFlow ==
    ASSUME StreamInv, CancelFlow
    PROVE  StreamInv'
<1>0. TurnType /\ ContextKept /\ EventsKept /\ CallsKept
  BY DEF StreamInv
<1>1. UNCHANGED <<config, messages, steering, follow, cancelled, running, ctx, turn, sent, replies, runs, hist>>
  BY DEF CancelFlow, shared, counters
<1>2. /\ pc \in (Nodes \cup {"flow"}) \ {"start_turn"} /\ ctx.mode = "none"
      /\ pc' = "failed" /\ last' = last /\ UNCHANGED out
  BY <1>0, FlatType, LeaveFacts DEF CancelFlow, At
<1>4. EventsKept' /\ out' \in Outs
  BY <1>0, <1>2, NodeNames, EventsStep DEF Continues, Final
<1>5. TurnType'
  BY <1>0, <1>1, <1>2, <1>4, FlatType, NodeNames, TypeParts DEF Between, Actions
<1>6. ContextKept'
  BY <1>0, <1>1, <1>2, TurnParts, NodeNames DEF ContextKept
<1>7. CallsKept'
  BY <1>0, <1>1, <1>2 DEF CallsKept
<1> QED
  BY <1>4, <1>5, <1>6, <1>7 DEF StreamInv

LEMMA StreamStartTurn ==
    ASSUME StreamInv, StartTurn
    PROVE  StreamInv'
<1>0. TurnType /\ ContextKept /\ EventsKept /\ CallsKept
  BY DEF StreamInv
<1>1. UNCHANGED <<config, messages, steering, follow, cancelled, running, ctx, sent, replies, runs, hist>>
  BY DEF StartTurn, shared, counters
<1>2. /\ pc = "start_turn"
      /\ \/ /\ turn' = turn /\ pc' = "apply" /\ last' = "aborted" /\ EmitFinal
         \/ /\ turn' = turn + 1 /\ pc' = "apply" /\ last' = "error" /\ EmitFinal
         \/ /\ turn' = turn + 1 /\ turn' <= MaxTurns /\ pc' = "drain_queued_input" /\ last' = last /\ Emit
  BY <1>0, FlatType, LeaveFacts DEF StartTurn, At
<1>3. turn <= MaxTurns /\ turn' \in 0..(MaxTurns + 1)
  <2>1. turn \in Nat /\ MaxTurns \in Nat
    BY <1>0, TurnParts
  <2>2. turn <= MaxTurns
    <3>1. pc = "start_turn" /\ (turn > MaxTurns => pc = "apply")
      BY <1>0, <1>2 DEF ContextKept
    <3> QED
      BY <2>1, <3>1
  <2>3. turn' \in {turn, turn + 1}
    BY <1>2
  <2> QED
    BY <2>1, <2>2, <2>3
<1>4. EventsKept' /\ out' \in Outs
  BY <1>0, <1>2, NodeNames, EventsStep DEF Continues, Final
<1>5. TurnType'
  BY <1>0, <1>1, <1>2, <1>3, <1>4, FlatType, NodeNames, TypeParts DEF Between, Actions
<1>6. ContextKept'
  BY <1>0, <1>1, <1>2, <1>3, TurnParts, NodeNames DEF ContextKept
<1>7. CallsKept'
  BY <1>0, <1>1, <1>2, <1>3 DEF CallsKept
<1> QED
  BY <1>4, <1>5, <1>6, <1>7 DEF StreamInv

LEMMA StreamSkipCompaction ==
    ASSUME StreamInv, SkipCompaction
    PROVE  StreamInv'
<1>0. TurnType /\ ContextKept /\ EventsKept /\ CallsKept
  BY DEF StreamInv
<1>1. UNCHANGED <<config, messages, steering, follow, cancelled, running, ctx, turn, sent, replies, runs, hist>>
  BY DEF SkipCompaction, shared, counters
<1>2. pc = "maybe_compact_runtime_context" /\ pc' = "prepare_provider_request" /\ last' = last /\ UNCHANGED out
  BY <1>0, FlatType, LeaveFacts DEF SkipCompaction, At
<1>4. EventsKept' /\ out' \in Outs
  BY <1>0, <1>2, NodeNames, EventsStep DEF Continues, Final
<1>5. TurnType'
  BY <1>0, <1>1, <1>2, <1>4, FlatType, NodeNames, TypeParts DEF Between, Actions
<1>6. ContextKept'
  BY <1>0, <1>1, <1>2, TurnParts, NodeNames DEF ContextKept
<1>7. CallsKept'
  BY <1>0, <1>1, <1>2 DEF CallsKept
<1> QED
  BY <1>4, <1>5, <1>6, <1>7 DEF StreamInv

LEMMA StreamCompactionFails ==
    ASSUME StreamInv, CompactionFails
    PROVE  StreamInv'
<1>0. TurnType /\ ContextKept /\ EventsKept /\ CallsKept
  BY DEF StreamInv
<1>1. UNCHANGED <<config, messages, steering, follow, cancelled, running, ctx, turn, sent, replies, runs, hist>>
  BY DEF CompactionFails, shared, counters
<1>2. pc = "maybe_compact_runtime_context" /\ pc' = "failed" /\ last' = last /\ UNCHANGED out
  BY <1>0, FlatType, LeaveFacts DEF CompactionFails, At
<1>4. EventsKept' /\ out' \in Outs
  BY <1>0, <1>2, NodeNames, EventsStep DEF Continues, Final
<1>5. TurnType'
  BY <1>0, <1>1, <1>2, <1>4, FlatType, NodeNames, TypeParts DEF Between, Actions
<1>6. ContextKept'
  BY <1>0, <1>1, <1>2, TurnParts, NodeNames DEF ContextKept
<1>7. CallsKept'
  BY <1>0, <1>1, <1>2 DEF CallsKept
<1> QED
  BY <1>4, <1>5, <1>6, <1>7 DEF StreamInv

LEMMA StreamApplyBeforeProviderRequestHook ==
    ASSUME StreamInv, ApplyBeforeProviderRequestHook
    PROVE  StreamInv'
<1>0. TurnType /\ ContextKept /\ EventsKept /\ CallsKept
  BY DEF StreamInv
<1>1. UNCHANGED <<config, messages, steering, follow, cancelled, running, ctx, turn, sent, replies, runs, hist>>
  BY DEF ApplyBeforeProviderRequestHook, shared, counters
<1>2. /\ pc = "apply_before_provider_request_hook"
      /\ \/ pc' = "provider_stream" /\ last' = last /\ Emit
         \/ pc' = "apply" /\ last' = "error" /\ EmitFinal
  BY <1>0, FlatType, LeaveFacts DEF ApplyBeforeProviderRequestHook, At
<1>4. EventsKept' /\ out' \in Outs
  BY <1>0, <1>2, NodeNames, EventsStep DEF Continues, Final
<1>5. TurnType'
  BY <1>0, <1>1, <1>2, <1>4, FlatType, NodeNames, TypeParts DEF Between, Actions
<1>6. ContextKept'
  BY <1>0, <1>1, <1>2, TurnParts, NodeNames DEF ContextKept
<1>7. CallsKept'
  BY <1>0, <1>1, <1>2 DEF CallsKept
<1> QED
  BY <1>4, <1>5, <1>6, <1>7 DEF StreamInv

LEMMA StreamProviderFails ==
    ASSUME StreamInv, ProviderFails
    PROVE  StreamInv'
<1>0. TurnType /\ ContextKept /\ EventsKept /\ CallsKept
  BY DEF StreamInv
<1>1. UNCHANGED <<config, messages, steering, follow, cancelled, running, ctx, turn, sent, replies, runs, hist>>
  BY DEF ProviderFails, shared, counters
<1>2. pc = "provider_stream" /\ pc' = "apply" /\ last' = "error" /\ EmitFinal
  BY <1>0, FlatType, LeaveFacts DEF ProviderFails, At
<1>4. EventsKept' /\ out' \in Outs
  BY <1>0, <1>2, NodeNames, EventsStep DEF Continues, Final
<1>5. TurnType'
  BY <1>0, <1>1, <1>2, <1>4, FlatType, NodeNames, TypeParts DEF Between, Actions
<1>6. ContextKept'
  BY <1>0, <1>1, <1>2, TurnParts, NodeNames DEF ContextKept
<1>7. CallsKept'
  BY <1>0, <1>1, <1>2 DEF CallsKept
<1> QED
  BY <1>4, <1>5, <1>6, <1>7 DEF StreamInv

LEMMA StreamPrepareProviderRequest ==
    ASSUME StreamInv, PrepareProviderRequest
    PROVE  StreamInv'
<1>0. TurnType /\ ContextKept /\ EventsKept /\ CallsKept
  BY DEF StreamInv
<1>1. UNCHANGED <<config, messages, steering, follow, cancelled, running, turn, sent, replies, runs, hist>>
  BY DEF PrepareProviderRequest, shared, counters
<1>2. /\ pc = "prepare_provider_request"
      /\ \/ pc' = "apply_before_provider_request_hook" /\ last' = last /\ UNCHANGED out
         \/ pc' = "apply" /\ last' = "error" /\ EmitFinal
  BY <1>0, FlatType, LeaveFacts DEF PrepareProviderRequest, At
<1>3. /\ ctx' \in Contexts /\ ctx'.mode = ctx.mode /\ ctx'.open = ctx.open /\ ctx'.ended = ctx.ended
      /\ ctx'.pending = ctx.pending
  BY <1>0, FlatType, TurnParts DEF PrepareProviderRequest, Contexts
<1>4. EventsKept' /\ out' \in Outs
  BY <1>0, <1>2, NodeNames, EventsStep DEF Continues, Final
<1>5. TurnType'
  BY <1>0, <1>1, <1>2, <1>3, <1>4, FlatType, NodeNames, TypeParts DEF Between, Actions
<1>6. ContextKept'
  BY <1>0, <1>1, <1>2, <1>3, TurnParts, NodeNames DEF ContextKept
<1>7. CallsKept'
  BY <1>0, <1>1, <1>2, <1>3 DEF CallsKept
<1> QED
  BY <1>4, <1>5, <1>6, <1>7 DEF StreamInv

LEMMA StreamProviderReplies ==
    ASSUME StreamInv, NEW stop \in Stops, NEW calls \in Nat, NEW usage \in Nat,
           ProviderReplies(stop, calls, usage)
    PROVE  StreamInv'
<1>0. TurnType /\ ContextKept /\ EventsKept /\ CallsKept
  BY DEF StreamInv
<1>1. UNCHANGED <<config, messages, steering, follow, cancelled, running, turn, sent, runs, hist>>
  BY DEF ProviderReplies, shared, counters
<1>2. pc = "provider_stream" /\ pc' = "decide_after_assistant" /\ last' = last /\ Emit
  BY <1>0, FlatType, LeaveFacts DEF ProviderReplies, At
<1>3. /\ ctx' \in Contexts /\ ctx'.mode = ctx.mode /\ ctx'.open = ctx.open /\ ctx'.ended = ctx.ended
      /\ ctx'.pending = ctx.pending /\ replies' \in Nat
  <2>1. Message("reply", replies + 1, 0, calls, stop, usage, runs) \in MessageSet
    BY <1>0, TurnParts, MessageFacts
  <2> DEFINE reply == Message("reply", replies + 1, 0, calls, stop, usage, runs)
  <2>2. ctx' = [ctx EXCEPT !.reply = reply] /\ replies' = replies + 1
    BY DEF ProviderReplies
  <2>3. reply \in MessageSet
    BY <2>1
  <2> HIDE DEF reply
  <2>4. replies' \in Nat
    BY <1>0, <2>2, TurnParts
  <2>5. ctx \in Contexts
    BY <1>0, FlatType
  <2>6. \A c \in Contexts, m \in MessageSet :
           /\ [c EXCEPT !.reply = m] \in Contexts
           /\ [c EXCEPT !.reply = m].mode = c.mode /\ [c EXCEPT !.reply = m].open = c.open
           /\ [c EXCEPT !.reply = m].ended = c.ended /\ [c EXCEPT !.reply = m].pending = c.pending
    BY DEF Contexts
  <2> QED
    BY <2>2, <2>3, <2>4, <2>5, <2>6
<1>4. EventsKept' /\ out' \in Outs
  BY <1>0, <1>2, NodeNames, EventsStep DEF Continues, Final
<1>5. TurnType'
  BY <1>0, <1>1, <1>2, <1>3, <1>4, FlatType, NodeNames, TypeParts DEF Between, Actions
<1>6. ContextKept'
  BY <1>0, <1>1, <1>2, <1>3, TurnParts, NodeNames DEF ContextKept
<1>7. CallsKept'
  BY <1>0, <1>1, <1>2, <1>3 DEF CallsKept
<1> QED
  BY <1>4, <1>5, <1>6, <1>7 DEF StreamInv

LEMMA StreamDrainQueuedInput ==
    ASSUME StreamInv, DrainQueuedInput
    PROVE  StreamInv'
<1>0. TurnType /\ ContextKept /\ EventsKept /\ CallsKept
  BY DEF StreamInv
<1>1. UNCHANGED <<config, messages, cancelled, running, turn, sent, replies, runs, hist>>
  BY DEF DrainQueuedInput, shared, counters
<1>2. pc = "drain_queued_input" /\ pc' = "maybe_compact_runtime_context" /\ last' = last /\ UNCHANGED out
  BY <1>0, FlatType, LeaveFacts DEF DrainQueuedInput, At
<1>3. /\ ctx' \in Contexts /\ ctx'.mode = ctx.mode /\ ctx'.open = ctx.open /\ ctx'.ended = ctx.ended
      /\ ctx'.pending = ctx.pending
      /\ steering' \in Seqs /\ follow' \in Seqs
  <2> DEFINE synced == SyncLiveQueues
             taken == Taken(synced.steering, config.steer)
             left == Left(synced.steering, config.steer)
  <2>1. /\ synced \in Contexts /\ synced.mode = ctx.mode /\ synced.open = ctx.open /\ synced.ended = ctx.ended
        /\ synced.pending = ctx.pending
    BY <1>0, FlatType, SyncFacts
  <2>2. synced.messages \in Seqs /\ synced.steering \in Seqs
    BY <2>1 DEF Contexts
  <2>3. ctx' = [synced EXCEPT !.messages = @ \o taken, !.steering = left]
    BY DEF DrainQueuedInput
  <2> HIDE DEF synced
  <2>4. taken \in Seqs /\ left \in Seqs
    BY <2>2, DrainFacts
  <2>5. synced.messages \o taken \in Seqs
    BY <2>2, <2>4, ConcatPlaces
  <2> HIDE DEF taken, left
  <2>6. steering' \in Seqs /\ follow' \in Seqs
    BY DEF DrainQueuedInput, Seqs
  <2> QED
    BY <2>1, <2>3, <2>4, <2>5, <2>6 DEF Contexts
<1>4. EventsKept' /\ out' \in Outs
  BY <1>0, <1>2, NodeNames, EventsStep DEF Continues, Final
<1>5. TurnType'
  BY <1>0, <1>1, <1>2, <1>3, <1>4, FlatType, NodeNames, TypeParts DEF Between, Actions
<1>6. ContextKept'
  BY <1>0, <1>1, <1>2, <1>3, TurnParts, NodeNames DEF ContextKept
<1>7. CallsKept'
  BY <1>0, <1>1, <1>2, <1>3 DEF CallsKept
<1> QED
  BY <1>4, <1>5, <1>6, <1>7 DEF StreamInv

LEMMA StreamCompactContext ==
    ASSUME StreamInv, CompactContext
    PROVE  StreamInv'
<1>0. TurnType /\ ContextKept /\ EventsKept /\ CallsKept
  BY DEF StreamInv
<1>1. UNCHANGED <<config, messages, steering, follow, cancelled, running, turn, sent, replies, runs>>
  BY DEF CompactContext, shared, counters
<1>2. pc = "maybe_compact_runtime_context" /\ pc' = "prepare_provider_request" /\ last' = last /\ Emit
  BY <1>0, FlatType, LeaveFacts DEF CompactContext, At
<1>3. /\ ctx' \in Contexts /\ ctx'.mode = ctx.mode /\ ctx'.open = ctx.open /\ ctx'.ended = ctx.ended
      /\ ctx'.pending = ctx.pending /\ hist' \in Hists
  <2>1. Split(ctx.messages).old # <<>> /\ ctx.messages \in Seqs
    BY <1>0, TurnParts DEF CompactContext, NeedsCompaction
  <2>2. Compacted(ctx.messages) \in Seqs /\ Split(ctx.messages).old \in Seqs
    BY <2>1, CompactedTypes
  <2>3. TextIds(Split(ctx.messages).old) \subseteq Nat
    BY <2>2, TextPlaces
  <2>4. hist' \in Hists
    BY <1>0, <2>3, FlatType DEF CompactContext, Hists
  <2>5. ctx' = [ctx EXCEPT !.messages = Compacted(ctx.messages)]
    BY DEF CompactContext
  <2> QED
    BY <1>0, <2>2, <2>4, <2>5, FlatType DEF Contexts
<1>4. EventsKept' /\ out' \in Outs
  BY <1>0, <1>2, NodeNames, EventsStep DEF Continues, Final
<1>5. TurnType'
  BY <1>0, <1>1, <1>2, <1>3, <1>4, FlatType, NodeNames, TypeParts DEF Between, Actions
<1>6. ContextKept'
  BY <1>0, <1>1, <1>2, <1>3, TurnParts, NodeNames DEF ContextKept
<1>7. CallsKept'
  BY <1>0, <1>1, <1>2, <1>3 DEF CallsKept
<1> QED
  BY <1>4, <1>5, <1>6, <1>7 DEF StreamInv

(* The calls of a batch.                                                    *)
LEMMA NoItems == Items(<<>>) = {} /\ EndedPlaces(<<>>) = <<>> /\ Distinct(<<>>)
  BY DEF Items, EndedPlaces, Distinct

LEMMA ItemsSet ==
    ASSUME NEW s \in Seq(Nat)
    PROVE  ToSet(s) = Items(s) /\ Items(s) \subseteq Nat
<1>1. DOMAIN s = 1..Len(s) /\ \A i \in 1..Len(s) : s[i] \in Nat
  BY LenProperties, ElementOfSeq
<1> QED
  BY <1>1 DEF ToSet, Items

LEMMA FreshCalls ==
    ASSUME NEW m \in Nat
    PROVE  Distinct([i \in 1..m |-> i]) /\ Items([i \in 1..m |-> i]) = 1..m
<1> DEFINE s == [i \in 1..m |-> i]
<1>1. s \in Seq(Nat) /\ Len(s) = m /\ \A i \in 1..m : s[i] = i
  <2>1. s \in [1..m -> Nat]
    OBVIOUS
  <2>2. s \in Seq(Nat)
    BY <2>1, SeqDef
  <2> QED
    BY <2>1, <2>2, LenProperties
<1> HIDE DEF s
<1>2. Distinct(s) /\ Items(s) = 1..m
  BY <1>1 DEF Distinct, Items
<1> QED
  BY <1>2 DEF s

LEMMA TakeCall ==
    ASSUME NEW s \in Seq(Nat), s # <<>>, Distinct(s)
    PROVE  /\ Distinct(Tail(s)) /\ Head(s) \notin Items(Tail(s))
           /\ Items(s) = Items(Tail(s)) \cup {Head(s)}
<1> DEFINE t == Tail(s)
           n == Len(s)
<1>1. n \in Nat \ {0} /\ Len(t) = n - 1 /\ Head(s) = s[1] /\ \A i \in 1..(n - 1) : t[i] = s[i + 1]
  BY TailFacts
<1> HIDE DEF t
<1>2. \A i, j \in 1..n : s[i] = s[j] => i = j
  BY DEF Distinct
<1>3. Items(s) = {s[i] : i \in 1..n}
  BY DEF Items
<1> HIDE DEF n
<1>4. Items(t) = {s[i + 1] : i \in 1..(n - 1)}
  BY <1>1 DEF Items
<1>5. Distinct(t)
  BY <1>1, <1>2 DEF Distinct
<1>6. s[1] \notin Items(t)
  BY <1>1, <1>2, <1>4
<1>7. ASSUME NEW i \in 1..n, i # 1 PROVE s[i] \in Items(t)
  <2>1. i - 1 \in 1..(n - 1) /\ i - 1 + 1 = i
    BY <1>1, <1>7
  <2> QED
    BY <1>4, <2>1
<1>8. Items(t) \subseteq Items(s) /\ s[1] \in Items(s)
  BY <1>1, <1>3, <1>4
<1>9. Items(s) = Items(t) \cup {s[1]}
  BY <1>3, <1>7, <1>8
<1> QED
  BY <1>1, <1>5, <1>6, <1>9 DEF t

LEMMA EndCall ==
    ASSUME NEW ended \in Seq(Ends), NEW e \in Ends
    PROVE  /\ Items(EndedPlaces(Append(ended, e))) = Items(EndedPlaces(ended)) \cup {e.pos}
           /\ (Distinct(EndedPlaces(ended)) /\ e.pos \notin Items(EndedPlaces(ended))
                 => Distinct(EndedPlaces(Append(ended, e))))
<1> DEFINE n == Len(ended)
           done == EndedPlaces(ended)
           after == EndedPlaces(Append(ended, e))
<1>1. /\ n \in Nat /\ Append(ended, e) \in Seq(Ends) /\ Len(Append(ended, e)) = n + 1
      /\ \A i \in 1..n : Append(ended, e)[i] = ended[i]
      /\ Append(ended, e)[n + 1] = e /\ \A i \in 1..n : ended[i] \in Ends
  BY LenProperties, ElementOfSeq, AppendProperties
<1>2. done \in [1..n -> Nat] /\ \A i \in 1..n : done[i] = ended[i].pos
  BY <1>1 DEF EndedPlaces, Ends
<1>3. after \in [1..(n + 1) -> Nat] /\ (\A i \in 1..n : after[i] = ended[i].pos) /\ after[n + 1] = e.pos
  <2> DEFINE more == Append(ended, e)
  <2> HIDE DEF more
  <2>1. Len(more) = n + 1 /\ (\A i \in 1..n : more[i] = ended[i]) /\ more[n + 1] = e
    BY <1>1 DEF more
  <2>2. \A i \in 1..(n + 1) : more[i].pos \in Nat
    <3>1. \A i \in 1..(n + 1) : i \in 1..n \/ i = n + 1
      BY <1>1
    <3> QED
      BY <1>1, <2>1, <3>1 DEF Ends
  <2>3. EndedPlaces(more) = [i \in 1..(n + 1) |-> more[i].pos]
    BY <2>1 DEF EndedPlaces
  <2> HIDE DEF n
  <2> QED
    BY <1>1, <2>1, <2>2, <2>3 DEF more
<1> HIDE DEF done, after, n
<1>10. n \in Nat /\ n + 1 \in Nat
  BY <1>1
<1>4. done \in Seq(Nat) /\ after \in Seq(Nat) /\ Len(done) = n /\ Len(after) = n + 1
  BY <1>2, <1>3, <1>10, SeqDef, LenProperties
<1>5. \A i \in 1..(n + 1) : i \in 1..n \/ i = n + 1
  BY <1>1
<1>8. Items(done) = {done[i] : i \in 1..n} /\ Items(after) = {after[i] : i \in 1..(n + 1)}
  BY <1>4 DEF Items
<1>9. (\A i \in 1..n : after[i] = done[i] /\ i \in 1..(n + 1)) /\ after[n + 1] = e.pos /\ n + 1 \in 1..(n + 1)
  <2>1. (\A i \in 1..n : i \in 1..(n + 1)) /\ n + 1 \in 1..(n + 1)
    BY <1>10
  <2>2. \A i \in 1..n : after[i] = done[i]
    BY Zenon, <1>2, <1>3
  <2> QED
    BY <1>3, <2>1, <2>2
<1>6. Items(after) = Items(done) \cup {e.pos}
  BY <1>5, <1>8, <1>9
<1>7. ASSUME Distinct(done), e.pos \notin Items(done) PROVE Distinct(after)
  <2>1. \A i, j \in 1..n : done[i] = done[j] => i = j
    BY <1>4, <1>7 DEF Distinct
  <2>2. \A i, j \in 1..(n + 1) : after[i] = after[j] => i = j
    BY <1>5, <1>7, <1>8, <1>9, <2>1
  <2> QED
    BY <1>4, <2>2 DEF Distinct
<1> QED
  BY <1>6, <1>7 DEF done, after

LEMMA StreamDecideAfterAssistant ==
    ASSUME StreamInv, DecideAfterAssistant
    PROVE  StreamInv'
<1>0. TurnType /\ ContextKept /\ EventsKept /\ CallsKept
  BY DEF StreamInv
<1>1. UNCHANGED <<config, messages, steering, follow, cancelled, running, turn, sent, replies, runs, hist>>
  BY DEF DecideAfterAssistant, shared, counters
<1>2. /\ pc = "decide_after_assistant"
      /\ \/ /\ pc' = "maybe_prepare_next_turn" /\ last' = last /\ UNCHANGED out
            /\ ctx.reply.stop \in {"stop", "length"}
         \/ /\ pc' = "execute_tools" /\ last' = last /\ UNCHANGED out /\ ctx.reply.stop = "tool_use"
         \/ pc' = "apply" /\ last' \in {"error", "aborted"} /\ EmitFinal
  BY <1>0, FlatType, LeaveFacts DEF DecideAfterAssistant, At
<1>3. /\ ctx' \in Contexts /\ ctx'.mode = ctx.mode /\ ctx'.open = ctx.open /\ ctx'.ended = ctx.ended
      /\ ctx'.pending = IF ctx.reply.stop = "tool_use" THEN [i \in 1..ctx.reply.calls |-> i] ELSE ctx.pending
      /\ ctx'.reply = ctx.reply /\ ctx.mode = "none" /\ ctx.open = {} /\ ctx.ended = <<>>
      /\ ctx.reply.calls \in Nat
  <2> DEFINE ms == Append(ctx.messages, ctx.reply)
             all == [i \in 1..ctx.reply.calls |-> i]
             pending == IF ctx.reply.stop = "tool_use" THEN all ELSE ctx.pending
  <2>1. ctx' = [ctx EXCEPT !.messages = ms, !.pending = pending]
    BY DEF DecideAfterAssistant
  <2>2. ms \in Seqs
    BY <1>0, TurnParts DEF Seqs
  <2>3. ctx.reply.calls \in Nat
    BY <1>0, TurnParts DEF MessageSet
  <2>4. all \in Seq(Nat)
    BY <2>3, SeqDef
  <2>5. pending \in Seq(Nat)
    BY <1>0, <2>4, TurnParts
  <2> HIDE DEF ms, all, pending
  <2>6. /\ ctx' \in Contexts /\ ctx'.mode = ctx.mode /\ ctx'.open = ctx.open /\ ctx'.ended = ctx.ended
        /\ ctx'.pending = pending /\ ctx'.reply = ctx.reply
    BY <1>0, <2>1, <2>2, <2>5, FlatType DEF Contexts
  <2>7. ctx.mode = "none" /\ ctx.open = {} /\ ctx.ended = <<>>
    BY <1>0, <1>2 DEF ContextKept
  <2> QED
    BY <2>3, <2>6, <2>7 DEF pending, all
<1>4. EventsKept' /\ out' \in Outs
  BY <1>0, <1>2, NodeNames, EventsStep DEF Continues, Final
<1>5. TurnType'
  BY <1>0, <1>1, <1>2, <1>3, <1>4, FlatType, NodeNames, TypeParts DEF Between, Actions
<1>6. ContextKept'
  BY <1>0, <1>1, <1>2, <1>3, TurnParts, NodeNames DEF ContextKept
<1>7. CallsKept'
  BY <1>0, <1>1, <1>2, <1>3, FreshCalls, NoItems DEF CallsKept
<1> QED
  BY <1>4, <1>5, <1>6, <1>7 DEF StreamInv

LEMMA StreamNoToolCalls ==
    ASSUME StreamInv, NoToolCalls
    PROVE  StreamInv'
<1>0. TurnType /\ ContextKept /\ EventsKept /\ CallsKept
  BY DEF StreamInv
<1>1. UNCHANGED <<config, messages, steering, follow, cancelled, running, ctx, turn, sent, replies, runs, hist>>
  BY DEF NoToolCalls, shared, counters
<1>2. ctx.mode = "none" /\ pc = "execute_tools" /\ pc' = "apply" /\ last' = "continue_provider" /\ UNCHANGED out
  BY <1>0, FlatType, LeaveFacts DEF NoToolCalls, At
<1>4. EventsKept' /\ out' \in Outs
  BY <1>0, <1>2, NodeNames, EventsStep DEF Continues, Final
<1>5. TurnType'
  BY <1>0, <1>1, <1>2, <1>4, FlatType, NodeNames, TypeParts DEF Between, Actions
<1>6. ContextKept'
  BY <1>0, <1>1, <1>2, TurnParts, NodeNames DEF ContextKept
<1>7. CallsKept'
  BY <1>0, <1>1, <1>2 DEF CallsKept
<1> QED
  BY <1>4, <1>5, <1>6, <1>7 DEF StreamInv

LEMMA StreamBeginTools ==
    ASSUME StreamInv, NEW mode \in {"parallel", "sequential"}, BeginTools(mode)
    PROVE  StreamInv'
<1>0. TurnType /\ ContextKept /\ EventsKept /\ CallsKept
  BY DEF StreamInv
<1>1. UNCHANGED <<config, messages, steering, follow, cancelled, running, turn, sent, replies, runs, hist>>
  BY DEF BeginTools, shared, counters
<1>2. /\ pc = "execute_tools" /\ pc' = "execute_tools" /\ last' = last
      /\ Emit \/ UNCHANGED out
  BY <1>0, FlatType, LeaveFacts DEF BeginTools, At
<1>3. /\ ctx' \in Contexts /\ ctx.open = {} /\ ctx.ended = <<>> /\ ctx'.ended = <<>> /\ ctx'.reply = ctx.reply
      /\ ctx'.mode \in {"parallel", "sequential"}
      /\ \/ ctx'.open = Items(ctx.pending) /\ ctx'.pending = <<>>
         \/ ctx'.open = {} /\ ctx'.pending = ctx.pending
  <2> DEFINE open == IF mode = "parallel" THEN ToSet(ctx.pending) ELSE {}
             pending == IF mode = "parallel" THEN <<>> ELSE ctx.pending
  <2>1. ctx.open = {} /\ ctx.ended = <<>>
    BY <1>0 DEF ContextKept, BeginTools
  <2>2. ctx' = [ctx EXCEPT !.mode = mode, !.open = open, !.pending = pending]
    BY DEF BeginTools
  <2>3. ToSet(ctx.pending) = Items(ctx.pending) /\ Items(ctx.pending) \subseteq Nat
    BY <1>0, TurnParts, ItemsSet
  <2>4. open \in SUBSET Nat /\ pending \in Seq(Nat)
    BY <1>0, <2>3, TurnParts
  <2>5. \/ open = Items(ctx.pending) /\ pending = <<>>
        \/ open = {} /\ pending = ctx.pending
    BY <2>3
  <2> HIDE DEF open, pending
  <2> QED
    BY <1>0, <2>1, <2>2, <2>4, <2>5, FlatType DEF Contexts
<1>4. EventsKept' /\ out' \in Outs
  BY <1>0, <1>2, NodeNames, EventsStep DEF Continues, Final
<1>5. TurnType'
  BY <1>0, <1>1, <1>2, <1>3, <1>4, FlatType, NodeNames, TypeParts DEF Between, Actions
<1>6. ContextKept'
  BY <1>0, <1>1, <1>2, <1>3, TurnParts, NodeNames DEF ContextKept
<1>7. CallsKept'
  BY <1>0, <1>1, <1>2, <1>3, NoItems DEF CallsKept
<1> QED
  BY <1>4, <1>5, <1>6, <1>7 DEF StreamInv

LEMMA StreamStartNextTool ==
    ASSUME StreamInv, StartNextTool
    PROVE  StreamInv'
<1>0. TurnType /\ ContextKept /\ EventsKept /\ CallsKept
  BY DEF StreamInv
<1>1. UNCHANGED <<config, messages, steering, follow, cancelled, running, turn, sent, replies, runs, hist>>
  BY DEF StartNextTool, shared, counters
<1>2. pc = "execute_tools" /\ pc' = "execute_tools" /\ last' = last /\ Emit
  BY <1>0, FlatType, LeaveFacts DEF StartNextTool, At, ContextKept
<1>3. /\ ctx' \in Contexts /\ ctx.open = {} /\ ctx'.ended = ctx.ended /\ ctx'.reply = ctx.reply
      /\ ctx'.mode = ctx.mode /\ ctx.mode # "none" /\ ctx.pending # <<>> /\ ctx'.open = {Head(ctx.pending)}
      /\ ctx'.pending = Tail(ctx.pending)
  <2>1. ctx.pending \in Seq(Nat) /\ ctx.pending # <<>>
    BY <1>0, TurnParts DEF StartNextTool
  <2>2. Head(ctx.pending) \in Nat /\ Tail(ctx.pending) \in Seq(Nat)
    BY <2>1, TailFacts
  <2> QED
    BY <1>0, <2>1, <2>2, FlatType DEF StartNextTool, Contexts
<1>4. EventsKept' /\ out' \in Outs
  BY <1>0, <1>2, NodeNames, EventsStep DEF Continues, Final
<1>5. TurnType'
  BY <1>0, <1>1, <1>2, <1>3, <1>4, FlatType, NodeNames, TypeParts DEF Between, Actions
<1>6. ContextKept'
  BY <1>0, <1>1, <1>2, <1>3, TurnParts, NodeNames DEF ContextKept
<1>7. CallsKept'
  BY SMTT(60), <1>0, <1>1, <1>2, <1>3, TurnParts, TakeCall DEF CallsKept
<1> QED
  BY <1>4, <1>5, <1>6, <1>7 DEF StreamInv

LEMMA StreamEndTool ==
    ASSUME StreamInv, NEW call, NEW terminate \in BOOLEAN, EndTool(call, terminate)
    PROVE  StreamInv'
<1>0. TurnType /\ ContextKept /\ EventsKept /\ CallsKept
  BY DEF StreamInv
<1>1. UNCHANGED <<config, messages, steering, follow, cancelled, running, turn, sent, replies, runs, hist>>
  BY DEF EndTool, shared, counters
<1>2. pc = "execute_tools" /\ pc' = "execute_tools" /\ last' = last /\ Emit /\ call \in ctx.open
  BY <1>0, FlatType, LeaveFacts DEF EndTool, At, ContextKept
<1>3. /\ ctx' \in Contexts /\ ctx'.open = ctx.open \ {call} /\ ctx'.reply = ctx.reply /\ ctx'.mode = ctx.mode
      /\ ctx'.pending = ctx.pending /\ ctx.mode # "none"
      /\ call \in Nat
      /\ Items(EndedPlaces(ctx'.ended)) = Items(EndedPlaces(ctx.ended)) \cup {call}
      /\ (Distinct(EndedPlaces(ctx.ended)) /\ call \notin Items(EndedPlaces(ctx.ended))
            => Distinct(EndedPlaces(ctx'.ended)))
  <2>1. call \in Nat /\ [pos |-> call, terminate |-> terminate] \in Ends
    BY <1>0, TurnParts DEF EndTool, Ends
  <2>2. ctx.mode # "none"
    BY <1>0 DEF ContextKept, EndTool
  <2>3. Append(ctx.ended, [pos |-> call, terminate |-> terminate]) \in Seq(Ends)
    BY <1>0, <2>1, TurnParts
  <2> DEFINE e == [pos |-> call, terminate |-> terminate]
  <2>4. /\ Items(EndedPlaces(Append(ctx.ended, e))) = Items(EndedPlaces(ctx.ended)) \cup {e.pos}
        /\ (Distinct(EndedPlaces(ctx.ended)) /\ e.pos \notin Items(EndedPlaces(ctx.ended))
              => Distinct(EndedPlaces(Append(ctx.ended, e))))
    BY <1>0, <2>1, TurnParts, EndCall
  <2>5. ctx'.ended = Append(ctx.ended, e) /\ e.pos = call
    BY <1>0, FlatType DEF EndTool, Contexts
  <2>6. /\ ctx' \in Contexts /\ ctx'.open = ctx.open \ {call} /\ ctx'.reply = ctx.reply /\ ctx'.mode = ctx.mode
        /\ ctx'.pending = ctx.pending
    BY <1>0, <2>1, <2>3, FlatType DEF EndTool, Contexts
  <2> QED
    BY <2>1, <2>2, <2>4, <2>5, <2>6
<1>4. EventsKept' /\ out' \in Outs
  BY <1>0, <1>2, NodeNames, EventsStep DEF Continues, Final
<1>5. TurnType'
  BY <1>0, <1>1, <1>2, <1>3, <1>4, FlatType, NodeNames, TypeParts DEF Between, Actions
<1>6. ContextKept'
  BY <1>0, <1>1, <1>2, <1>3, TurnParts, NodeNames DEF ContextKept
<1>7. CallsKept'
  BY <1>0, <1>1, <1>2, <1>3, TurnParts DEF CallsKept
<1> QED
  BY <1>4, <1>5, <1>6, <1>7 DEF StreamInv

LEMMA StreamFinishTools ==
    ASSUME StreamInv, FinishTools
    PROVE  StreamInv'
<1>0. TurnType /\ ContextKept /\ EventsKept /\ CallsKept
  BY DEF StreamInv
<1>1. UNCHANGED <<config, messages, steering, follow, cancelled, running, turn, sent, replies, runs, hist>>
  BY DEF FinishTools, shared, counters
<1>2. pc = "execute_tools" /\ pc' = "maybe_prepare_next_turn" /\ last' = last /\ UNCHANGED out
  BY <1>0, FlatType, LeaveFacts DEF FinishTools, At, ContextKept
<1>3. /\ ctx' \in Contexts /\ ctx'.open = {} /\ ctx'.mode = "none" /\ ctx'.pending = <<>> /\ ctx'.ended = <<>>
  <2> DEFINE ms == ctx.messages \o ResultMessages
             all == \A e \in ToSet(ctx.ended) : e.terminate
  <2>1. ctx.open = {} /\ ctx.pending = <<>>
    BY DEF FinishTools
  <2>2. ResultMessages \in Seqs
    BY <1>0, <1>2, <2>1, ResultsFacts
  <2>3. ms \in Seqs
    BY <1>0, <2>2, TurnParts, ConcatPlaces
  <2>4. ctx' = [ctx EXCEPT !.messages = ms, !.allTerminate = all, !.mode = "none", !.ended = <<>>]
    BY DEF FinishTools
  <2>5. all \in BOOLEAN /\ <<>> \in Seq(Ends)
    OBVIOUS
  <2> HIDE DEF ms, all
  <2> QED
    BY <1>0, <2>1, <2>3, <2>4, <2>5, FlatType DEF Contexts
<1>4. EventsKept' /\ out' \in Outs
  BY <1>0, <1>2, NodeNames, EventsStep DEF Continues, Final
<1>5. TurnType'
  BY <1>0, <1>1, <1>2, <1>3, <1>4, FlatType, NodeNames, TypeParts DEF Between, Actions
<1>6. ContextKept'
  BY <1>0, <1>1, <1>2, <1>3, TurnParts, NodeNames DEF ContextKept
<1>7. CallsKept'
  BY <1>0, <1>1, <1>2, <1>3 DEF CallsKept
<1> QED
  BY <1>4, <1>5, <1>6, <1>7 DEF StreamInv

LEMMA StreamMaybePrepareNextTurn ==
    ASSUME StreamInv, NEW hook, MaybePrepareNextTurn(hook)
    PROVE  StreamInv'
<1>0. TurnType /\ ContextKept /\ EventsKept /\ CallsKept
  BY DEF StreamInv
<1>1. UNCHANGED <<config, messages, cancelled, running, turn, sent, replies, runs, hist>>
  BY DEF MaybePrepareNextTurn, shared, counters
<1>2. /\ pc = "maybe_prepare_next_turn" /\ pc' = "apply"
      /\ \/ last' \in {"error", "done"} /\ EmitFinal
         \/ last' = "continue" /\ UNCHANGED out
  BY <1>0, FlatType, LeaveFacts DEF MaybePrepareNextTurn, At
<1>3. /\ ctx' \in Contexts /\ ctx'.mode = ctx.mode /\ ctx'.open = ctx.open /\ ctx'.ended = ctx.ended
      /\ ctx'.pending = ctx.pending
      /\ steering' \in Seqs /\ follow' \in Seqs
  <2> DEFINE synced == SyncLiveQueues
             taken == Taken(synced.follow, config.follow)
             left == Left(synced.follow, config.follow)
  <2>1. /\ synced \in Contexts /\ synced.mode = ctx.mode /\ synced.open = ctx.open /\ synced.ended = ctx.ended
        /\ synced.pending = ctx.pending
    BY <1>0, FlatType, SyncFacts
  <2>2. synced.messages \in Seqs /\ synced.follow \in Seqs
    BY <2>1 DEF Contexts
  <2>3. \/ ctx' = synced
        \/ ctx' = [synced EXCEPT !.messages = @ \o taken, !.follow = left]
    BY DEF MaybePrepareNextTurn
  <2> HIDE DEF synced
  <2>4. taken \in Seqs /\ left \in Seqs
    BY <2>2, DrainFacts
  <2>5. synced.messages \o taken \in Seqs
    BY <2>2, <2>4, ConcatPlaces
  <2> HIDE DEF taken, left
  <2>6. steering' \in Seqs /\ follow' \in Seqs
    BY DEF MaybePrepareNextTurn, Seqs
  <2> QED
    BY <2>1, <2>3, <2>4, <2>5, <2>6 DEF Contexts
<1>4. EventsKept' /\ out' \in Outs
  BY <1>0, <1>2, NodeNames, EventsStep DEF Continues, Final
<1>5. TurnType'
  BY <1>0, <1>1, <1>2, <1>3, <1>4, FlatType, NodeNames, TypeParts DEF Between, Actions
<1>6. ContextKept'
  BY <1>0, <1>1, <1>2, <1>3, TurnParts, NodeNames DEF ContextKept
<1>7. CallsKept'
  BY <1>0, <1>1, <1>2, <1>3 DEF CallsKept
<1> QED
  BY <1>4, <1>5, <1>6, <1>7 DEF StreamInv

LEMMA Stream_Apply ==
    ASSUME TurnType, ApplyToState
    PROVE  /\ messages' \in Seqs /\ steering' \in Seqs /\ follow' \in Seqs /\ ctx' \in Contexts
           /\ ctx' = NoContext
           /\ ctx'.mode = "none" /\ ctx'.open = {} /\ ctx'.ended = <<>> /\ ctx'.pending = <<>>
<1>1. ctx.messages \in Seqs /\ ctx.steering \o steering \in Seqs /\ ctx.follow \o follow \in Seqs
  BY TurnParts, ConcatPlaces
<1>2. ctx' = NoContext /\ NoContext \in Contexts
  BY NoContextFacts DEF ApplyToState
<1>3. NoContext.mode = "none" /\ NoContext.open = {} /\ NoContext.ended = <<>> /\ NoContext.pending = <<>>
  BY DEF NoContext
<1> QED
  BY <1>1, <1>2, <1>3 DEF ApplyToState

LEMMA StreamEndFlow ==
    ASSUME StreamInv, EndFlow
    PROVE  StreamInv'
<1>0. TurnType /\ ContextKept /\ EventsKept /\ CallsKept
  BY DEF StreamInv
<1>1. UNCHANGED <<config, cancelled, sent, replies, runs, hist>>
  BY DEF EndFlow, counters
<1>2. /\ pc = "apply" /\ last' = "default" /\ UNCHANGED out
      /\ \/ last \in Continues /\ pc' = "turn" /\ running' = running /\ turn' = turn
         \/ last \notin Continues /\ pc' = "idle" /\ running' = FALSE /\ turn' = 0
  BY DEF EndFlow, EndRun, Continues
<1>3. /\ messages' \in Seqs /\ steering' \in Seqs /\ follow' \in Seqs /\ ctx' \in Contexts
      /\ ctx' = NoContext
      /\ ctx'.mode = "none" /\ ctx'.open = {} /\ ctx'.ended = <<>> /\ ctx'.pending = <<>>
  BY <1>0, Stream_Apply DEF EndFlow
<1>4. EventsKept' /\ out' \in Outs
  BY <1>0, <1>2, FlatType, NodeNames DEF EventsKept, Continues
<1>8. /\ running' \in BOOLEAN /\ running' = (pc' # "idle") /\ pc' \in Between /\ turn' \in 0..(MaxTurns + 1)
      /\ last' \in Actions /\ turn' <= MaxTurns
  <2>1. running = (pc # "idle") /\ running \in BOOLEAN /\ last \in Actions
    BY <1>0, FlatType
  <2>2. running' \in BOOLEAN /\ running' = (pc' # "idle") /\ pc' \in Between
    BY <1>2, <2>1 DEF Between
  <2>3. last' \in Actions
    BY <1>2, <2>1 DEF Actions
  <2>4. turn \in Nat /\ MaxTurns \in Nat /\ (turn > MaxTurns => pc = "apply" /\ last = "error")
    BY <1>0, TurnParts DEF ContextKept
  <2>5. turn' \in Nat /\ turn' <= MaxTurns
    BY <1>2, <2>4 DEF Continues
  <2>6. turn' \in 0..(MaxTurns + 1)
    BY <2>4, <2>5
  <2> QED
    BY <2>2, <2>3, <2>5, <2>6
<1>5. TurnType'
  BY <1>0, <1>1, <1>3, <1>4, <1>8, FlatType, TypeParts
<1>6. ContextKept'
  BY <1>0, <1>2, <1>3, <1>8, TurnParts, NodeNames DEF ContextKept
<1>7. CallsKept'
  BY <1>2 DEF CallsKept
<1> QED
  BY <1>4, <1>5, <1>6, <1>7 DEF StreamInv

LEMMA StreamFailFlow ==
    ASSUME StreamInv, FailFlow
    PROVE  StreamInv'
<1>0. TurnType /\ ContextKept /\ EventsKept /\ CallsKept
  BY DEF StreamInv
<1>1. UNCHANGED <<config, cancelled, sent, replies, runs, hist>>
  BY DEF FailFlow, counters
<1>2. /\ pc = "failed" /\ pc' = "idle" /\ running' = FALSE /\ turn' = 0 /\ last' = last /\ EmitFinal
  BY DEF FailFlow, EndRun, Continues
<1>3. /\ messages' \in Seqs /\ steering' \in Seqs /\ follow' \in Seqs /\ ctx' \in Contexts
      /\ ctx' = NoContext
      /\ ctx'.mode = "none" /\ ctx'.open = {} /\ ctx'.ended = <<>> /\ ctx'.pending = <<>>
  BY <1>0, Stream_Apply DEF FailFlow
<1>4. EventsKept' /\ out' \in Outs
  <2>1. out \in Outs /\ out.terminal = 0 /\ ~out.late
    BY <1>0, <1>2, FlatType DEF EventsKept
  <2> DEFINE late == out.late \/ out.terminal > 0
             after == out.terminal + 1
  <2>2. late = FALSE /\ after = 1
    BY <2>1
  <2>3. out' = [out EXCEPT !.late = late, !.terminal = after]
    BY <1>2 DEF EmitFinal
  <2> HIDE DEF late, after
  <2>4. out' \in Outs /\ out'.terminal = 1 /\ ~out'.late
    BY <2>1, <2>2, <2>3 DEF Outs
  <2> QED
    BY <1>2, <2>4, NodeNames DEF EventsKept
<1>8. /\ running' \in BOOLEAN /\ running' = (pc' # "idle") /\ pc' \in Between /\ turn' \in 0..(MaxTurns + 1)
      /\ last' \in Actions /\ turn' <= MaxTurns
  <2>1. running = (pc # "idle") /\ running \in BOOLEAN /\ last \in Actions
    BY <1>0, FlatType
  <2>2. running' \in BOOLEAN /\ running' = (pc' # "idle") /\ pc' \in Between
    BY <1>2, <2>1 DEF Between
  <2>3. last' \in Actions
    BY <1>2, <2>1 DEF Actions
  <2>4. turn \in Nat /\ MaxTurns \in Nat /\ (turn > MaxTurns => pc = "apply" /\ last = "error")
    BY <1>0, TurnParts DEF ContextKept
  <2>5. turn' \in Nat /\ turn' <= MaxTurns
    BY <1>2, <2>4 DEF Continues
  <2>6. turn' \in 0..(MaxTurns + 1)
    BY <2>4, <2>5
  <2> QED
    BY <2>2, <2>3, <2>5, <2>6
<1>5. TurnType'
  BY <1>0, <1>1, <1>3, <1>4, <1>8, FlatType, TypeParts
<1>6. ContextKept'
  BY <1>0, <1>2, <1>3, <1>8, TurnParts, NodeNames DEF ContextKept
<1>7. CallsKept'
  BY <1>2 DEF CallsKept
<1> QED
  BY <1>4, <1>5, <1>6, <1>7 DEF StreamInv

LEMMA StreamInit == ASSUME Init PROVE StreamInv
<1>1. <<>> \in Seqs
  BY DEF Seqs
<1>2. NoEvents \in Outs /\ NoHistory \in Hists
  BY DEF NoEvents, NoHistory, Outs, Hists
<1>3. NoContext.mode = "none" /\ NoContext.open = {} /\ NoContext.ended = <<>> /\ NoContext.pending = <<>>
  BY DEF NoContext
<1>4. TypeOK
  <2>1. /\ ctx.messages \in Seqs /\ ctx.steering \in Seqs /\ ctx.follow \in Seqs /\ ctx.request \in Seqs
    BY NoContextFacts DEF Init, Contexts
  <2> QED
    <3>1. /\ messages \in Seqs /\ steering \in Seqs /\ follow \in Seqs /\ config \in Configs
          /\ cancelled \in BOOLEAN /\ running \in BOOLEAN
          /\ running = (pc # "idle") /\ pc \in Between /\ last \in Actions /\ replies \in Nat
      BY <1>1 DEF Init, Between, Actions
    <3>2. turn \in 0..(MaxTurns + 1) /\ sent \in 0..MaxTexts /\ runs \in 0..MaxRuns
      BY TurnAssumption DEF Init
    <3> QED
      BY <2>1, <3>1, <3>2 DEF TypeOK, Seqs
<1>5. TurnType
  BY <1>2, <1>4, NoContextFacts DEF Init, TurnType, Outs, Hists
<1>6. ContextKept
  BY <1>3, NodeNames, TurnAssumption DEF Init, ContextKept
<1>7. EventsKept /\ CallsKept
  BY NodeNames DEF Init, EventsKept, CallsKept, NoEvents
<1> QED
  BY <1>5, <1>6, <1>7 DEF StreamInv

LEMMA StreamStutter == ASSUME StreamInv, UNCHANGED vars PROVE StreamInv'
<1>1. /\ UNCHANGED <<config, messages, steering, follow, cancelled, running, pc, ctx, turn, last>>
      /\ UNCHANGED <<sent, replies, runs, out, hist>>
  BY DEF vars
<1>2. TurnType'
  BY <1>1 DEF StreamInv, TurnType, TypeOK
<1>3. ContextKept' /\ EventsKept' /\ CallsKept'
  BY <1>1 DEF StreamInv, ContextKept, EventsKept, CallsKept
<1> QED
  BY <1>2, <1>3 DEF StreamInv

(* Every step of the agent and of what surrounds it keeps the invariant.      *)
LEMMA StreamStep == ASSUME StreamInv, [Next]_vars PROVE StreamInv'
<1>1. CASE BeginTurn
  BY <1>1, StreamBeginTurn
<1>2. CASE EnterFlow
  BY <1>2, StreamEnterFlow
<1>3. CASE CancelFlow
  BY <1>3, StreamCancelFlow
<1>4. CASE StartTurn
  BY <1>4, StreamStartTurn
<1>5. CASE DrainQueuedInput
  BY <1>5, StreamDrainQueuedInput
<1>6. CASE SkipCompaction
  BY <1>6, StreamSkipCompaction
<1>7. CASE CompactContext
  BY <1>7, StreamCompactContext
<1>8. CASE CompactionFails
  BY <1>8, StreamCompactionFails
<1>9. CASE PrepareProviderRequest
  BY <1>9, StreamPrepareProviderRequest
<1>10. CASE ApplyBeforeProviderRequestHook
  BY <1>10, StreamApplyBeforeProviderRequestHook
<1>11. ASSUME NEW stop \in Reasons, NEW calls \in 0..MaxCalls, NEW usage \in Usages, ProviderReplies(stop, calls, usage) PROVE StreamInv'
  <2>1. stop \in Stops /\ calls \in Nat /\ usage \in Nat
    BY TurnAssumption
  <2> QED
    BY <1>11, <2>1, StreamProviderReplies
<1>12. CASE ProviderFails
  BY <1>12, StreamProviderFails
<1>13. CASE DecideAfterAssistant
  BY <1>13, StreamDecideAfterAssistant
<1>14. CASE NoToolCalls
  BY <1>14, StreamNoToolCalls
<1>15. ASSUME NEW mode \in {"parallel", "sequential"}, BeginTools(mode) PROVE StreamInv'
  BY <1>15, StreamBeginTools
<1>16. CASE StartNextTool
  BY <1>16, StreamStartNextTool
<1>17. ASSUME NEW call \in ctx.open, NEW terminate \in BOOLEAN, EndTool(call, terminate) PROVE StreamInv'
  BY <1>17, StreamEndTool
<1>18. CASE FinishTools
  BY <1>18, StreamFinishTools
<1>19. ASSUME NEW hook \in {"go", "stop", "fail"}, MaybePrepareNextTurn(hook) PROVE StreamInv'
  BY <1>19, StreamMaybePrepareNextTurn
<1>20. CASE EndFlow
  BY <1>20, StreamEndFlow
<1>21. CASE FailFlow
  BY <1>21, StreamFailFlow
<1>22. CASE Steer
  BY <1>22, StreamSteer
<1>23. CASE FollowUp
  BY <1>23, StreamFollowUp
<1>24. ASSUME NEW s \in BOOLEAN, NEW f \in BOOLEAN, ClearQueues(s, f) PROVE StreamInv'
  BY <1>24, StreamClearQueues
<1>25. CASE Abort
  BY <1>25, StreamAbort
<1>26. CASE Prompt
  BY <1>26, StreamPrompt
<1>27. CASE Run
  BY <1>27, StreamRun
<1>28. CASE DropStream
  BY <1>28, StreamDropStream
<1>29. CASE UNCHANGED vars
  BY <1>29, StreamStutter
<1>30. CASE Tools
  BY <1>30, <1>14, <1>15, <1>16, <1>17, <1>18 DEF Tools
<1>31. CASE Outside
  BY <1>31, <1>22, <1>23, <1>24, <1>25, <1>26, <1>27, <1>28 DEF Outside
<1>32. CASE RunStep
  BY <1>32, <1>30, <1>1, <1>2, <1>3, <1>4, <1>5, <1>6, <1>7, <1>8, <1>9, <1>10, <1>11, <1>12, <1>13, <1>19, <1>20, <1>21 DEF RunStep
<1> QED
  BY <1>29, <1>31, <1>32 DEF Next

(* Whatever path a run takes to its end, its stream delivers exactly one       *)
(* terminal event, as its last, and the agent is left well typed for the next   *)
(* run (Agent::run_stream, run_agent_turn_flow and the nodes of the turn).      *)
THEOREM StreamCorrect == Spec => []StreamSound
<1>1. Init => StreamInv
  BY StreamInit
<1>2. StreamInv /\ [Next]_vars => StreamInv'
  BY StreamStep
<1>3. StreamInv => StreamSound
  <2>1. ASSUME StreamInv PROVE TypeOK /\ OneTerminalEvent
    <3>1. TurnType /\ EventsKept
      BY <2>1 DEF StreamInv
    <3>2. pc \in Nodes \cup Between /\ out.terminal \in Nat
      BY <3>1, FlatType DEF Outs
    <3>3. out.terminal <= 1
      BY <3>1, <3>2, NodeNames DEF EventsKept, Between
    <3> QED
      BY <3>1, <3>2, <3>3 DEF TurnType, EventsKept, OneTerminalEvent
  <2> QED
    BY <2>1 DEF StreamSound
<1> QED
  BY <1>1, <1>2, <1>3, PTL DEF Spec

(***************************************************************************)
(* Replies and the results of their tool calls.                             *)
(***************************************************************************)
LEMMA QuietFacts ==
    /\ Quiet(<<>>)
    /\ \A s, t \in Seqs : Quiet(s \o t) <=> Quiet(s) /\ Quiet(t)
    /\ \A kind \in {"prompt", "steer", "follow"}, id \in Nat : ~Asks(Text(kind, id))
    /\ \A id, pos \in Nat : ~Asks(Result(id, pos))
<1>1. Quiet(<<>>)
  BY DEF Quiet
<1>2. ASSUME NEW s \in Seqs, NEW t \in Seqs PROVE Quiet(s \o t) <=> Quiet(s) /\ Quiet(t)
  <2> DEFINE u == s \o t
             n == Len(s)
             m == Len(t)
  <2>1. /\ n \in Nat /\ m \in Nat
        /\ \A i \in 1..Len(u) : \/ i \in 1..n /\ u[i] = s[i]
                                \/ i - n \in 1..m /\ u[i] = t[i - n]
        /\ \A i \in 1..n : i \in 1..Len(u) /\ u[i] = s[i]
        /\ \A i \in 1..m : n + i \in 1..Len(u) /\ u[n + i] = t[i]
    BY ConcatPlaces
  <2>2. /\ Quiet(u) <=> \A i \in 1..Len(u) : ~Asks(u[i])
        /\ Quiet(s) <=> \A i \in 1..n : ~Asks(s[i])
        /\ Quiet(t) <=> \A i \in 1..m : ~Asks(t[i])
    BY DEF Quiet
  <2> HIDE DEF u, n, m
  <2>3. Quiet(u) => Quiet(s) /\ Quiet(t)
    BY <2>1, <2>2
  <2>4. Quiet(s) /\ Quiet(t) => Quiet(u)
    BY <2>1, <2>2
  <2>5. Quiet(u) <=> Quiet(s) /\ Quiet(t)
    BY <2>3, <2>4
  <2> QED
    BY <2>5 DEF u
<1>3. /\ \A kind \in {"prompt", "steer", "follow"}, id \in Nat : ~Asks(Text(kind, id))
      /\ \A id, pos \in Nat : ~Asks(Result(id, pos))
  BY DEF Asks, Text, Result, Message
<1> QED
  BY <1>1, <1>2, <1>3

LEMMA QuietQueue ==
    ASSUME NEW q \in Seqs, NEW mode, Quiet(q)
    PROVE  Quiet(Taken(q, mode)) /\ Quiet(Left(q, mode))
<1>1. Taken(q, mode) \in Seqs /\ Left(q, mode) \in Seqs /\ q = Taken(q, mode) \o Left(q, mode)
  BY DrainFacts
<1> QED
  BY <1>1, QuietFacts

LEMMA AnsweredMore ==
    ASSUME NEW s, NEW n, NEW R, NEW Q, Answered(s, n, R), R \subseteq Q
    PROVE  Answered(s, n, Q)
  BY DEF Answered

(* What follows a conversation takes no answer from it.                       *)
LEMMA AnsweredConcat ==
    ASSUME NEW s \in Seqs, NEW t \in Seqs, NEW n \in 0..Len(s), NEW R, Answered(s, n, R)
    PROVE  Answered(s \o t, n, R)
<1> DEFINE u == s \o t
<1>1. /\ Len(s) \in Nat /\ Len(t) \in Nat /\ Len(u) = Len(s) + Len(t)
      /\ \A i \in 1..Len(s) : u[i] = s[i]
  BY ConcatPlaces
<1> HIDE DEF u
<1>2. \A i \in 1..Len(s) : s[i].calls \in Nat
  BY TextPlaces DEF MessageSet
<1>3. ASSUME NEW i \in 1..n, Complete(s, i) PROVE Complete(u, i)
  <2> DEFINE c == s[i].calls
  <2>1. i \in 1..Len(s) /\ c \in Nat /\ u[i] = s[i]
    BY <1>1, <1>2
  <2>2. i + c <= Len(s) /\ \A p \in 1..c : s[i + p] = Result(s[i].id, p)
    BY <1>3 DEF Complete
  <2> HIDE DEF c
  <2>3. \A p \in 1..c : i + p \in 1..Len(s)
    BY <1>1, <2>1, <2>2
  <2>4. i + c <= Len(u)
    BY <1>1, <2>1, <2>2
  <2>5. \A p \in 1..c : u[i + p] = Result(u[i].id, p)
    BY <1>1, <2>1, <2>2, <2>3
  <2> QED
    BY <2>1, <2>4, <2>5 DEF Complete, c
<1>4. \A i \in 1..n : i \in 1..Len(s)
  BY <1>1
<1>5. \A i \in 1..n : u[i] = s[i]
  BY <1>1, <1>4
<1>6. Answered(u, n, R)
  BY <1>3, <1>5 DEF Answered
<1> QED
  BY <1>6 DEF u

LEMMA AnsweredQuiet ==
    ASSUME NEW s \in Seqs, NEW t \in Seqs, NEW R, Answered(s, Len(s), R), Quiet(t)
    PROVE  Answered(s \o t, Len(s \o t), R)
<1> DEFINE u == s \o t
<1>1. /\ Len(s) \in Nat /\ Len(t) \in Nat /\ Len(u) = Len(s) + Len(t)
      /\ \A i \in 1..Len(u) : \/ i \in 1..Len(s) /\ u[i] = s[i]
                              \/ i - Len(s) \in 1..Len(t) /\ u[i] = t[i - Len(s)]
  BY ConcatPlaces
<1>2. Len(s) \in 0..Len(s)
  BY <1>1
<1>3. Answered(u, Len(s), R)
  BY <1>2, AnsweredConcat
<1> HIDE DEF u
<1>4. \A i \in 1..Len(u) : i \in 1..Len(s) \/ ~Asks(u[i])
  BY <1>1 DEF Quiet
<1>5. Answered(u, Len(u), R)
  BY <1>3, <1>4 DEF Answered
<1> QED
  BY <1>5 DEF u

(* The last message asks, and its results are appended.                       *)
LEMMA AnsweredResults ==
    ASSUME NEW s \in Seqs, NEW t \in Seqs, NEW R, Len(s) > 0, Answered(s, Len(s) - 1, R), Quiet(t),
           Len(t) = s[Len(s)].calls, \A p \in 1..Len(t) : t[p] = Result(s[Len(s)].id, p)
    PROVE  Answered(s \o t, Len(s \o t), R)
<1> DEFINE u == s \o t
           n == Len(s)
<1>1. /\ n \in Nat /\ Len(t) \in Nat /\ Len(u) = n + Len(t)
      /\ \A i \in 1..Len(u) : \/ i \in 1..n /\ u[i] = s[i]
                              \/ i - n \in 1..Len(t) /\ u[i] = t[i - n]
      /\ \A i \in 1..n : u[i] = s[i]
      /\ \A i \in 1..Len(t) : u[n + i] = t[i]
  BY ConcatPlaces
<1>2. n - 1 \in 0..n /\ n \in 1..n
  BY <1>1
<1>3. Answered(u, n - 1, R)
  BY <1>2, AnsweredConcat
<1> HIDE DEF u
<1>4. u[n].calls = Len(t) /\ u[n].id = s[n].id
  BY <1>1, <1>2
<1>5. Complete(u, n)
  <2>1. n + Len(t) <= Len(u)
    BY <1>1
  <2>2. \A p \in 1..Len(t) : u[n + p] = Result(s[n].id, p)
    BY <1>1
  <2> QED
    BY <1>4, <2>1, <2>2 DEF Complete
<1>6. \A i \in 1..Len(u) : i \in 1..(n - 1) \/ i = n \/ ~Asks(u[i])
  <2>1. \A i \in 1..n : i \in 1..(n - 1) \/ i = n
    BY <1>1
  <2> QED
    BY <1>1, <2>1 DEF Quiet
<1>7. Answered(u, Len(u), R)
  BY <1>3, <1>5, <1>6 DEF Answered
<1> QED
  BY <1>7 DEF u

(* One message more.                                                        *)
LEMMA AnsweredAppend ==
    ASSUME NEW s \in Seqs, NEW m \in MessageSet, NEW R, Answered(s, Len(s), R)
    PROVE  /\ Append(s, m) \in Seqs /\ Len(Append(s, m)) = Len(s) + 1 /\ Append(s, m)[Len(s) + 1] = m
           /\ Answered(Append(s, m), Len(s), R)
           /\ ~Asks(m) => Answered(Append(s, m), Len(s) + 1, R)
           /\ Quiet(s) /\ ~Asks(m) => Quiet(Append(s, m))
<1> DEFINE t == <<m>>
<1>1. t \in Seqs /\ Append(s, m) = s \o t /\ Len(t) = 1 /\ t[1] = m
  BY AppendIsConcat DEF Seqs
<1> HIDE DEF t
<1>2. Append(s, m) \in Seqs /\ Len(Append(s, m)) = Len(s) + 1 /\ Append(s, m)[Len(s) + 1] = m
  BY AppendProperties DEF Seqs
<1>3. Len(s) \in 0..Len(s)
  BY LenProperties DEF Seqs
<1>4. Answered(Append(s, m), Len(s), R)
  BY <1>1, <1>3, AnsweredConcat
<1>5. ASSUME ~Asks(m) PROVE Quiet(t)
  BY <1>1, <1>5 DEF Quiet
<1>6. ASSUME ~Asks(m) PROVE Answered(Append(s, m), Len(s) + 1, R)
  BY <1>1, <1>2, <1>5, <1>6, AnsweredQuiet
<1>7. ASSUME Quiet(s), ~Asks(m) PROVE Quiet(Append(s, m))
  BY <1>1, <1>5, <1>7, QuietFacts
<1> QED
  BY <1>2, <1>4, <1>6, <1>7

LEMMA QuietAppend ==
    ASSUME NEW s \in Seqs, NEW m \in MessageSet, Quiet(s), ~Asks(m)
    PROVE  Quiet(Append(s, m))
<1>1. Append(s, m) = s \o <<m>> /\ <<m>> \in Seqs
  BY AppendIsConcat DEF Seqs
<1>2. Quiet(<<m>>)
  BY DEF Quiet
<1> QED
  BY <1>1, <1>2, QuietFacts

LEMMA AnsweredSteer ==
    ASSUME StreamInv, StreamInv', AnsweredInv, Steer
    PROVE  AnsweredInv'
<1>0. TurnType /\ ContextKept /\ EventsKept /\ CallsKept /\ TurnType'
  BY DEF StreamInv
<1>1. Text("steer", sent + 1) \in MessageSet /\ ~Asks(Text("steer", sent + 1))
  BY <1>0, TurnParts, MessageFacts, QuietFacts DEF MessageKinds
<1>2. Quiet(Append(steering, Text("steer", sent + 1)))
  BY <1>0, <1>1, TurnParts, QuietAppend DEF AnsweredInv
<1> QED
  BY <1>0, <1>2, FlatType, TurnParts, NodeNames, LeaveFacts DEF AnsweredInv, InContext, Past, At, shared, counters, Steer

LEMMA AnsweredFollowUp ==
    ASSUME StreamInv, StreamInv', AnsweredInv, FollowUp
    PROVE  AnsweredInv'
<1>0. TurnType /\ ContextKept /\ EventsKept /\ CallsKept /\ TurnType'
  BY DEF StreamInv
<1>1. Text("follow", sent + 1) \in MessageSet /\ ~Asks(Text("follow", sent + 1))
  BY <1>0, TurnParts, MessageFacts, QuietFacts DEF MessageKinds
<1>2. Quiet(Append(follow, Text("follow", sent + 1)))
  BY <1>0, <1>1, TurnParts, QuietAppend DEF AnsweredInv
<1> QED
  BY <1>0, <1>2, FlatType, TurnParts, NodeNames, LeaveFacts DEF AnsweredInv, InContext, Past, At, shared, counters, FollowUp

LEMMA AnsweredClearQueues ==
    ASSUME StreamInv, StreamInv', AnsweredInv, NEW s, NEW f, ClearQueues(s, f)
    PROVE  AnsweredInv'
<1>0. TurnType /\ ContextKept /\ EventsKept /\ CallsKept /\ TurnType'
  BY DEF StreamInv
<1> QED
  BY <1>0, QuietFacts, FlatType, TurnParts, NodeNames, LeaveFacts DEF AnsweredInv, InContext, Past, At, shared, counters, ClearQueues

LEMMA AnsweredAbort ==
    ASSUME StreamInv, StreamInv', AnsweredInv, Abort
    PROVE  AnsweredInv'
<1>0. TurnType /\ ContextKept /\ EventsKept /\ CallsKept /\ TurnType'
  BY DEF StreamInv
<1>1. hist'.aborted = IF running THEN hist.aborted \cup {runs} ELSE hist.aborted
  BY <1>0, FlatType DEF Abort, Hists
<1>2. hist'.compacted = hist.compacted
  BY <1>0, FlatType DEF Abort, Hists
<1>3. Past' = Past /\ hist.aborted \subseteq hist'.aborted
  BY <1>0, <1>1, TurnParts DEF Past, Abort
<1>4. UNCHANGED <<messages, steering, follow, running, pc, ctx, runs>>
  BY DEF Abort
<1>5. /\ hist'.aborted \subseteq 1..runs' /\ (running' => runs' > 0)
      /\ running' /\ cancelled' => runs' \in hist'.aborted
  BY <1>0, <1>1, <1>4, TurnParts DEF AnsweredInv
<1>6. ~hist'.compacted =>
          /\ Answered(messages', Len(messages'), IF pc' = "idle" THEN hist'.aborted ELSE Past')
          /\ InContext' =>
                Answered(ctx'.messages, IF pc' = "execute_tools" THEN Len(ctx'.messages) - 1 ELSE Len(ctx'.messages),
                         IF pc' = "failed" THEN hist'.aborted ELSE Past')
          /\ pc' \in {"apply_before_provider_request_hook", "provider_stream"} =>
                Answered(ctx'.request, Len(ctx'.request), Past')
  BY <1>2, <1>3, <1>4, AnsweredMore DEF AnsweredInv, InContext
<1>7. /\ Quiet(steering') /\ Quiet(follow') /\ Quiet(ctx'.steering) /\ Quiet(ctx'.follow)
      /\ pc' = "execute_tools" =>
            /\ Len(ctx'.messages) > 0 /\ ctx'.messages[Len(ctx'.messages)] = ctx'.reply
            /\ ctx'.reply.kind = "reply" /\ ctx'.reply.stop = "tool_use" /\ ctx'.reply.run = runs'
      /\ pc' = "decide_after_assistant" => ctx'.reply.kind = "reply" /\ ctx'.reply.run = runs'
  BY <1>4 DEF AnsweredInv
<1> QED
  BY <1>5, <1>6, <1>7 DEF AnsweredInv

LEMMA AnsweredPrompt ==
    ASSUME StreamInv, AnsweredInv, Prompt
    PROVE  AnsweredInv'
<1>0. TurnType
  BY DEF StreamInv
<1>1. Text("prompt", sent + 1) \in MessageSet /\ ~Asks(Text("prompt", sent + 1))
  BY <1>0, TurnParts, MessageFacts, QuietFacts DEF MessageKinds
<1>2. messages' = Append(messages, Text("prompt", sent + 1)) /\ messages \in Seqs
  BY <1>0, TurnParts DEF Prompt
<1>4. /\ pc = "idle" /\ pc' = "turn" /\ runs' = runs + 1 /\ cancelled' = FALSE
      /\ UNCHANGED <<steering, follow, ctx, hist>>
  BY <1>0, FlatType DEF Prompt, StartRun
<1>5. Past' = hist.aborted
  BY <1>0, <1>4, TurnParts DEF AnsweredInv, Past
<1>6. ~hist.compacted => Answered(messages', Len(messages'), Past')
  <2>1. ~hist.compacted => Answered(messages, Len(messages), hist.aborted)
    BY <1>4 DEF AnsweredInv
  <2> QED
    BY <1>1, <1>2, <1>5, <2>1, AnsweredAppend
<1>7. hist'.aborted \subseteq 1..runs' /\ runs' > 0
  BY <1>0, <1>4, TurnParts DEF AnsweredInv
<1> QED
  BY <1>4, <1>5, <1>6, <1>7 DEF AnsweredInv, InContext

LEMMA AnsweredRun ==
    ASSUME StreamInv, AnsweredInv, Run
    PROVE  AnsweredInv'
<1>0. TurnType
  BY DEF StreamInv
<1>4. /\ pc = "idle" /\ pc' = "turn" /\ runs' = runs + 1 /\ cancelled' = FALSE
      /\ UNCHANGED <<steering, follow, ctx, hist>>
  BY <1>0, FlatType DEF Run, StartRun
<1>5. Past' = hist.aborted
  BY <1>0, <1>4, TurnParts DEF AnsweredInv, Past
<1>6. ~hist.compacted => Answered(messages', Len(messages'), Past')
  <2>1. messages' = messages
    BY DEF Run
  <2> QED
    BY <1>4, <1>5, <2>1 DEF AnsweredInv
<1>7. hist'.aborted \subseteq 1..runs' /\ runs' > 0
  BY <1>0, <1>4, TurnParts DEF AnsweredInv
<1> QED
  BY <1>4, <1>5, <1>6, <1>7 DEF AnsweredInv, InContext

LEMMA AnsweredEnterFlow ==
    ASSUME StreamInv, StreamInv', AnsweredInv, EnterFlow
    PROVE  AnsweredInv'
<1>0. TurnType /\ ContextKept /\ EventsKept /\ CallsKept /\ TurnType'
  BY DEF StreamInv
<1>1. UNCHANGED <<config, messages, steering, follow, cancelled, running, ctx, sent, runs, hist>>
  BY DEF EnterFlow, shared, counters
<1>2. pc = "flow" /\ pc' = "start_turn"
  BY <1>0, FlatType, LeaveFacts, NodeNames DEF EnterFlow, At
<1> QED
  BY <1>1, <1>2, NodeNames, AnsweredMore DEF AnsweredInv, InContext, Past

(* A reply whose tools never ran belongs to a run that was aborted.           *)
LEMMA AnsweredLast ==
    ASSUME NEW s \in Seqs, NEW R, NEW Q, Answered(s, Len(s) - 1, R), R \subseteq Q, Len(s) > 0, s[Len(s)].run \in Q
    PROVE  Answered(s, Len(s), Q)
<1>1. Len(s) \in Nat
  BY LenProperties DEF Seqs
<1>2. \A i \in 1..Len(s) : i \in 1..(Len(s) - 1) \/ i = Len(s)
  BY <1>1
<1> QED
  BY <1>2 DEF Answered

LEMMA AnsweredCancelFlow ==
    ASSUME StreamInv, StreamInv', AnsweredInv, CancelFlow
    PROVE  AnsweredInv'
<1>0. TurnType /\ ContextKept /\ EventsKept /\ CallsKept /\ TurnType'
  BY DEF StreamInv
<1>1. UNCHANGED <<config, messages, steering, follow, cancelled, running, ctx, sent, runs, hist>>
  BY DEF CancelFlow, shared, counters
<1>2. pc \in Nodes \cup {"flow"} /\ pc' = "failed" /\ running /\ cancelled
  BY <1>0, FlatType, LeaveFacts, NodeNames DEF CancelFlow, At
<1>3. Past \subseteq hist.aborted
  BY DEF Past
<1>4. runs \in hist.aborted
  BY <1>2 DEF AnsweredInv
<1>5. ASSUME ~hist.compacted PROVE Answered(ctx.messages, Len(ctx.messages), hist.aborted)
  <2>1. InContext
    BY <1>2, NodeNames DEF InContext
  <2>2. CASE pc = "execute_tools"
    BY <1>0, <1>3, <1>4, <1>5, <2>1, <2>2, TurnParts, AnsweredLast DEF AnsweredInv
  <2>3. CASE pc # "execute_tools"
    BY <1>2, <1>3, <1>5, <2>1, <2>3, NodeNames, AnsweredMore DEF AnsweredInv
  <2> QED
    BY <2>2, <2>3
<1> QED
  BY <1>1, <1>2, <1>5, NodeNames, AnsweredMore DEF AnsweredInv, InContext, Past

LEMMA AnsweredStartTurn ==
    ASSUME StreamInv, StreamInv', AnsweredInv, StartTurn
    PROVE  AnsweredInv'
<1>0. TurnType /\ ContextKept /\ EventsKept /\ CallsKept /\ TurnType'
  BY DEF StreamInv
<1>1. UNCHANGED <<config, messages, steering, follow, cancelled, running, ctx, sent, runs, hist>>
  BY DEF StartTurn, shared, counters
<1>2. pc = "start_turn" /\ pc' \in {"apply", "drain_queued_input"}
  BY <1>0, FlatType, LeaveFacts, NodeNames DEF StartTurn, At
<1> QED
  BY <1>1, <1>2, NodeNames, AnsweredMore DEF AnsweredInv, InContext, Past

LEMMA AnsweredSkipCompaction ==
    ASSUME StreamInv, StreamInv', AnsweredInv, SkipCompaction
    PROVE  AnsweredInv'
<1>0. TurnType /\ ContextKept /\ EventsKept /\ CallsKept /\ TurnType'
  BY DEF StreamInv
<1>1. UNCHANGED <<config, messages, steering, follow, cancelled, running, ctx, sent, runs, hist>>
  BY DEF SkipCompaction, shared, counters
<1>2. pc = "maybe_compact_runtime_context" /\ pc' = "prepare_provider_request"
  BY <1>0, FlatType, LeaveFacts, NodeNames DEF SkipCompaction, At
<1> QED
  BY <1>1, <1>2, NodeNames, AnsweredMore DEF AnsweredInv, InContext, Past

LEMMA AnsweredCompactionFails ==
    ASSUME StreamInv, StreamInv', AnsweredInv, CompactionFails
    PROVE  AnsweredInv'
<1>0. TurnType /\ ContextKept /\ EventsKept /\ CallsKept /\ TurnType'
  BY DEF StreamInv
<1>1. UNCHANGED <<config, messages, steering, follow, cancelled, running, ctx, sent, runs, hist>>
  BY DEF CompactionFails, shared, counters
<1>2. pc = "maybe_compact_runtime_context" /\ pc' = "failed"
  BY <1>0, FlatType, LeaveFacts, NodeNames DEF CompactionFails, At
<1>3. Past \subseteq hist.aborted
  BY DEF Past
<1> QED
  BY <1>1, <1>2, <1>3, NodeNames, AnsweredMore DEF AnsweredInv, InContext, Past

LEMMA AnsweredApplyBeforeProviderRequestHook ==
    ASSUME StreamInv, StreamInv', AnsweredInv, ApplyBeforeProviderRequestHook
    PROVE  AnsweredInv'
<1>0. TurnType /\ ContextKept /\ EventsKept /\ CallsKept /\ TurnType'
  BY DEF StreamInv
<1>1. UNCHANGED <<config, messages, steering, follow, cancelled, running, ctx, sent, runs, hist>>
  BY DEF ApplyBeforeProviderRequestHook, shared, counters
<1>2. pc = "apply_before_provider_request_hook" /\ pc' \in {"apply", "provider_stream"}
  BY <1>0, FlatType, LeaveFacts, NodeNames DEF ApplyBeforeProviderRequestHook, At
<1> QED
  BY <1>1, <1>2, NodeNames, AnsweredMore DEF AnsweredInv, InContext, Past

LEMMA AnsweredProviderFails ==
    ASSUME StreamInv, StreamInv', AnsweredInv, ProviderFails
    PROVE  AnsweredInv'
<1>0. TurnType /\ ContextKept /\ EventsKept /\ CallsKept /\ TurnType'
  BY DEF StreamInv
<1>1. UNCHANGED <<config, messages, steering, follow, cancelled, running, ctx, sent, runs, hist>>
  BY DEF ProviderFails, shared, counters
<1>2. pc = "provider_stream" /\ pc' = "apply"
  BY <1>0, FlatType, LeaveFacts, NodeNames DEF ProviderFails, At
<1> QED
  BY <1>1, <1>2, NodeNames, AnsweredMore DEF AnsweredInv, InContext, Past

LEMMA AnsweredPrepareProviderRequest ==
    ASSUME StreamInv, StreamInv', AnsweredInv, PrepareProviderRequest
    PROVE  AnsweredInv'
<1>0. TurnType /\ ContextKept /\ EventsKept /\ CallsKept /\ TurnType'
  BY DEF StreamInv
<1>1. UNCHANGED <<config, messages, steering, follow, cancelled, running, sent, runs, hist>>
  BY DEF PrepareProviderRequest, shared, counters
<1>2. pc = "prepare_provider_request" /\ pc' \in {"apply", "apply_before_provider_request_hook"}
  BY <1>0, FlatType, LeaveFacts, NodeNames DEF PrepareProviderRequest, At
<1>3. /\ ctx'.messages = ctx.messages /\ ctx'.steering = ctx.steering /\ ctx'.follow = ctx.follow
      /\ pc' = "apply_before_provider_request_hook" => ctx'.request = ctx.messages
  BY <1>0, FlatType, LeaveFacts DEF PrepareProviderRequest, Contexts
<1> QED
  BY <1>1, <1>2, <1>3, NodeNames, AnsweredMore DEF AnsweredInv, InContext, Past

LEMMA AnsweredProviderReplies ==
    ASSUME StreamInv, StreamInv', AnsweredInv, NEW stop, NEW calls, NEW usage, ProviderReplies(stop, calls, usage)
    PROVE  AnsweredInv'
<1>0. TurnType /\ ContextKept /\ EventsKept /\ CallsKept /\ TurnType'
  BY DEF StreamInv
<1>1. UNCHANGED <<config, messages, steering, follow, cancelled, running, sent, runs, hist>>
  BY DEF ProviderReplies, shared, counters
<1>2. pc = "provider_stream" /\ pc' = "decide_after_assistant"
  BY <1>0, FlatType, LeaveFacts, NodeNames DEF ProviderReplies, At
<1>3. /\ ctx'.messages = ctx.messages /\ ctx'.steering = ctx.steering /\ ctx'.follow = ctx.follow
      /\ ctx'.reply = Message("reply", replies + 1, 0, calls, stop, usage, runs)
  BY <1>0, FlatType DEF ProviderReplies, Contexts
<1>4. ctx'.reply.kind = "reply" /\ ctx'.reply.run = runs
  BY <1>3 DEF Message
<1> QED
  BY <1>1, <1>2, <1>3, <1>4, NodeNames, AnsweredMore DEF AnsweredInv, InContext, Past

LEMMA AnsweredDecideAfterAssistant ==
    ASSUME StreamInv, StreamInv', AnsweredInv, DecideAfterAssistant
    PROVE  AnsweredInv'
<1>0. TurnType /\ ContextKept /\ EventsKept /\ CallsKept /\ TurnType'
  BY DEF StreamInv
<1>1. UNCHANGED <<config, messages, steering, follow, cancelled, running, sent, runs, hist>>
  BY DEF DecideAfterAssistant, shared, counters
<1>2. /\ pc = "decide_after_assistant"
      /\ \/ pc' \in {"maybe_prepare_next_turn", "apply"} /\ ctx.reply.stop # "tool_use"
         \/ pc' = "execute_tools" /\ ctx.reply.stop = "tool_use"
  BY <1>0, FlatType, LeaveFacts, NodeNames DEF DecideAfterAssistant, At
<1>3. /\ ctx'.messages = Append(ctx.messages, ctx.reply) /\ ctx'.steering = ctx.steering
      /\ ctx'.follow = ctx.follow /\ ctx'.reply = ctx.reply
  BY <1>0, FlatType DEF DecideAfterAssistant, Contexts
<1>4. ctx.messages \in Seqs /\ ctx.reply \in MessageSet /\ ctx.reply.kind = "reply" /\ ctx.reply.run = runs
  BY <1>0, <1>2, TurnParts DEF AnsweredInv
<1>5. /\ Len(ctx'.messages) = Len(ctx.messages) + 1 /\ Len(ctx.messages) \in Nat
      /\ ctx'.messages[Len(ctx'.messages)] = ctx.reply
  BY <1>3, <1>4, AppendProperties, LenProperties DEF Seqs
<1>6. ASSUME ~hist.compacted
      PROVE  /\ Answered(ctx'.messages, Len(ctx.messages), Past)
             /\ ctx.reply.stop # "tool_use" => Answered(ctx'.messages, Len(ctx'.messages), Past)
  <2>1. Answered(ctx.messages, Len(ctx.messages), Past)
    BY <1>2, <1>6 DEF AnsweredInv, InContext
  <2>2. ctx.reply.stop # "tool_use" => ~Asks(ctx.reply)
    BY DEF Asks
  <2> QED
    BY <1>3, <1>4, <1>5, <2>1, <2>2, AnsweredAppend
<1>7. Len(ctx'.messages) - 1 = Len(ctx.messages) /\ Len(ctx'.messages) > 0
  BY <1>5
<1> QED
  BY <1>1, <1>2, <1>3, <1>4, <1>5, <1>6, <1>7, NodeNames, AnsweredMore DEF AnsweredInv, InContext, Past

LEMMA AnsweredNoToolCalls ==
    ASSUME StreamInv, StreamInv', AnsweredInv, NoToolCalls
    PROVE  AnsweredInv'
<1>0. TurnType /\ ContextKept /\ EventsKept /\ CallsKept /\ TurnType'
  BY DEF StreamInv
<1>1. UNCHANGED <<config, messages, steering, follow, cancelled, running, ctx, sent, runs, hist>>
  BY DEF NoToolCalls, shared, counters
<1>2. pc = "execute_tools" /\ pc' = "apply" /\ ctx.mode = "none" /\ ctx.pending = <<>>
  BY <1>0, FlatType, LeaveFacts, NodeNames DEF NoToolCalls, At
<1>3. ctx.open = {} /\ Items(ctx.pending) = {} /\ Items(EndedPlaces(ctx.ended)) = {}
  BY <1>0, <1>2, NoItems DEF ContextKept
<1>4. 1..ctx.reply.calls = {} /\ ctx.reply.calls \in Nat
  BY <1>0, <1>2, <1>3, TurnParts DEF CallsKept, MessageSet
<1>5. ctx.reply.calls = 0
  BY <1>4
<1>6. ASSUME ~hist.compacted PROVE Answered(ctx.messages, Len(ctx.messages), Past)
  <2>1. Answered(ctx.messages, Len(ctx.messages) - 1, Past) /\ ctx.messages \in Seqs /\ Len(ctx.messages) > 0
    BY <1>0, <1>2, <1>6, TurnParts DEF AnsweredInv, InContext
  <2>2. ctx.messages[Len(ctx.messages)].calls = 0
    BY <1>2, <1>5 DEF AnsweredInv
  <2>3. <<>> \in Seqs /\ Len(<<>>) = 0 /\ ctx.messages \o <<>> = ctx.messages
    BY <2>1, ConcatEmptySeq DEF Seqs
  <2> DEFINE none == <<>>
             s == ctx.messages
  <2>4. /\ none \in Seqs /\ Len(none) = 0 /\ Quiet(none) /\ s \o none = s /\ s \in Seqs /\ Len(s) > 0
        /\ Answered(s, Len(s) - 1, Past) /\ Len(none) = s[Len(s)].calls
    BY <2>1, <2>2, <2>3, QuietFacts
  <2> HIDE DEF none, s
  <2>5. \A p \in 1..Len(none) : none[p] = Result(s[Len(s)].id, p)
    BY <2>4
  <2>6. Answered(s \o none, Len(s \o none), Past)
    BY <2>4, <2>5, AnsweredResults
  <2> QED
    BY <2>4, <2>6 DEF s
<1> QED
  BY <1>1, <1>2, <1>6, NodeNames, AnsweredMore DEF AnsweredInv, InContext, Past

LEMMA AnsweredBeginTools ==
    ASSUME StreamInv, StreamInv', AnsweredInv, NEW mode, BeginTools(mode)
    PROVE  AnsweredInv'
<1>0. TurnType /\ ContextKept /\ EventsKept /\ CallsKept /\ TurnType'
  BY DEF StreamInv
<1>1. UNCHANGED <<config, messages, steering, follow, cancelled, running, sent, runs, hist>>
  BY DEF BeginTools, shared, counters
<1>2. pc = "execute_tools" /\ pc' = "execute_tools"
  BY <1>0, FlatType, LeaveFacts, NodeNames DEF BeginTools, At, ContextKept
<1>3. /\ ctx'.messages = ctx.messages /\ ctx'.steering = ctx.steering /\ ctx'.follow = ctx.follow
      /\ ctx'.reply = ctx.reply
  BY <1>0, FlatType DEF BeginTools, Contexts
<1> QED
  BY <1>1, <1>2, <1>3, NodeNames, AnsweredMore DEF AnsweredInv, InContext, Past

LEMMA AnsweredStartNextTool ==
    ASSUME StreamInv, StreamInv', AnsweredInv, StartNextTool
    PROVE  AnsweredInv'
<1>0. TurnType /\ ContextKept /\ EventsKept /\ CallsKept /\ TurnType'
  BY DEF StreamInv
<1>1. UNCHANGED <<config, messages, steering, follow, cancelled, running, sent, runs, hist>>
  BY DEF StartNextTool, shared, counters
<1>2. pc = "execute_tools" /\ pc' = "execute_tools"
  BY <1>0, FlatType, LeaveFacts, NodeNames DEF StartNextTool, At, ContextKept
<1>3. /\ ctx'.messages = ctx.messages /\ ctx'.steering = ctx.steering /\ ctx'.follow = ctx.follow
      /\ ctx'.reply = ctx.reply
  BY <1>0, FlatType DEF StartNextTool, Contexts
<1> QED
  BY <1>1, <1>2, <1>3, NodeNames, AnsweredMore DEF AnsweredInv, InContext, Past

LEMMA AnsweredEndTool ==
    ASSUME StreamInv, StreamInv', AnsweredInv, NEW call, NEW terminate, EndTool(call, terminate)
    PROVE  AnsweredInv'
<1>0. TurnType /\ ContextKept /\ EventsKept /\ CallsKept /\ TurnType'
  BY DEF StreamInv
<1>1. UNCHANGED <<config, messages, steering, follow, cancelled, running, sent, runs, hist>>
  BY DEF EndTool, shared, counters
<1>2. pc = "execute_tools" /\ pc' = "execute_tools"
  BY <1>0, FlatType, LeaveFacts, NodeNames DEF EndTool, At, ContextKept
<1>3. /\ ctx'.messages = ctx.messages /\ ctx'.steering = ctx.steering /\ ctx'.follow = ctx.follow
      /\ ctx'.reply = ctx.reply
  BY <1>0, FlatType DEF EndTool, Contexts
<1> QED
  BY <1>1, <1>2, <1>3, NodeNames, AnsweredMore DEF AnsweredInv, InContext, Past

LEMMA AnsweredFinishTools ==
    ASSUME StreamInv, StreamInv', AnsweredInv, FinishTools
    PROVE  AnsweredInv'
<1>0. TurnType /\ ContextKept /\ EventsKept /\ CallsKept /\ TurnType'
  BY DEF StreamInv
<1>1. UNCHANGED <<config, messages, steering, follow, cancelled, running, sent, runs, hist>>
  BY DEF FinishTools, shared, counters
<1>2. pc = "execute_tools" /\ pc' = "maybe_prepare_next_turn"
  BY <1>0, FlatType, LeaveFacts, NodeNames DEF FinishTools, At, ContextKept
<1>3. /\ ctx'.messages = ctx.messages \o ResultMessages /\ ctx'.steering = ctx.steering
      /\ ctx'.follow = ctx.follow /\ ctx'.reply = ctx.reply
  BY <1>0, FlatType DEF FinishTools, Contexts
<1>4. /\ ResultMessages \in Seqs /\ Len(ResultMessages) = ctx.reply.calls
      /\ \A i \in 1..ctx.reply.calls : ResultMessages[i] = Result(ctx.reply.id, i)
  BY <1>0, <1>2, ResultsFacts DEF FinishTools
<1>5. Quiet(ResultMessages)
  <2>1. \A i \in 1..ctx.reply.calls : i \in Nat /\ ctx.reply.id \in Nat
    BY <1>0, TurnParts DEF MessageSet
  <2> QED
    BY <1>4, <2>1, QuietFacts DEF Quiet
<1>6. ASSUME ~hist.compacted PROVE Answered(ctx'.messages, Len(ctx'.messages), Past)
  <2>1. /\ Answered(ctx.messages, Len(ctx.messages) - 1, Past) /\ ctx.messages \in Seqs /\ Len(ctx.messages) > 0
        /\ ctx.messages[Len(ctx.messages)] = ctx.reply
    BY <1>0, <1>2, <1>6, TurnParts DEF AnsweredInv, InContext
  <2> QED
    BY <1>3, <1>4, <1>5, <2>1, AnsweredResults
<1> QED
  BY <1>1, <1>2, <1>3, <1>6, NodeNames, AnsweredMore DEF AnsweredInv, InContext, Past

LEMMA AnsweredDrainQueuedInput ==
    ASSUME StreamInv, StreamInv', AnsweredInv, DrainQueuedInput
    PROVE  AnsweredInv'
<1>0. TurnType /\ ContextKept /\ EventsKept /\ CallsKept /\ TurnType'
  BY DEF StreamInv
<1>1. UNCHANGED <<config, messages, cancelled, running, sent, runs, hist>>
  BY DEF DrainQueuedInput, shared, counters
<1>2. pc = "drain_queued_input" /\ pc' = "maybe_compact_runtime_context"
  BY <1>0, FlatType, LeaveFacts, NodeNames DEF DrainQueuedInput, At
<1>3. steering' = <<>> /\ follow' = <<>>
  BY DEF DrainQueuedInput
<1> DEFINE all == ctx.steering \o steering
           taken == Taken(all, config.steer)
<1>4. /\ ctx'.messages = ctx.messages \o taken /\ ctx'.steering = Left(all, config.steer)
      /\ ctx'.follow = ctx.follow \o follow
  <2> DEFINE synced == SyncLiveQueues
  <2>1. /\ synced \in Contexts /\ synced.messages = ctx.messages /\ synced.steering = all
        /\ synced.follow = ctx.follow \o follow
    BY <1>0, SyncFacts
  <2>2. ctx' = [synced EXCEPT !.messages = @ \o Taken(synced.steering, config.steer),
                              !.steering = Left(@, config.steer)]
    BY DEF DrainQueuedInput
  <2> HIDE DEF synced, all
  <2> QED
    BY <2>1, <2>2 DEF Contexts
<1>5. all \in Seqs /\ Quiet(all) /\ Quiet(ctx.follow \o follow)
  BY <1>0, TurnParts, ConcatPlaces, QuietFacts DEF AnsweredInv
<1> HIDE DEF all
<1>6. taken \in Seqs /\ Quiet(taken) /\ Quiet(Left(all, config.steer))
  BY <1>5, DrainFacts, QuietQueue
<1> HIDE DEF taken
<1>7. ASSUME ~hist.compacted PROVE Answered(ctx'.messages, Len(ctx'.messages), Past)
  <2>1. Answered(ctx.messages, Len(ctx.messages), Past) /\ ctx.messages \in Seqs
    BY <1>0, <1>2, <1>7, TurnParts DEF AnsweredInv, InContext
  <2> QED
    BY <1>4, <1>6, <2>1, AnsweredQuiet
<1> QED
  BY <1>1, <1>2, <1>3, <1>4, <1>5, <1>6, <1>7, QuietFacts, NodeNames, AnsweredMore DEF AnsweredInv, InContext, Past

LEMMA AnsweredCompactContext ==
    ASSUME StreamInv, StreamInv', AnsweredInv, CompactContext
    PROVE  AnsweredInv'
<1>0. TurnType /\ ContextKept /\ EventsKept /\ CallsKept /\ TurnType'
  BY DEF StreamInv
<1>1. UNCHANGED <<config, messages, steering, follow, cancelled, running, sent, runs>>
  BY DEF CompactContext, shared, counters
<1>2. pc = "maybe_compact_runtime_context" /\ pc' = "prepare_provider_request"
  BY <1>0, FlatType, LeaveFacts, NodeNames DEF CompactContext, At
<1>3. ctx'.steering = ctx.steering /\ ctx'.follow = ctx.follow
  BY <1>0, FlatType DEF CompactContext, Contexts
<1>4. hist'.compacted = TRUE /\ hist'.aborted = hist.aborted
  BY <1>0, FlatType DEF CompactContext, Hists
<1> QED
  BY <1>1, <1>2, <1>3, <1>4, NodeNames, AnsweredMore DEF AnsweredInv, InContext, Past

LEMMA AnsweredMaybePrepareNextTurn ==
    ASSUME StreamInv, StreamInv', AnsweredInv, NEW hook, MaybePrepareNextTurn(hook)
    PROVE  AnsweredInv'
<1>0. TurnType /\ ContextKept /\ EventsKept /\ CallsKept /\ TurnType'
  BY DEF StreamInv
<1>1. UNCHANGED <<config, messages, cancelled, running, sent, runs, hist>>
  BY DEF MaybePrepareNextTurn, shared, counters
<1>2. pc = "maybe_prepare_next_turn" /\ pc' = "apply"
  BY <1>0, FlatType, LeaveFacts, NodeNames DEF MaybePrepareNextTurn, At
<1>3. steering' = <<>> /\ follow' = <<>>
  BY DEF MaybePrepareNextTurn
<1> DEFINE all == ctx.follow \o follow
           taken == Taken(all, config.follow)
<1>4. /\ ctx'.steering = ctx.steering \o steering
      /\ \/ ctx'.messages = ctx.messages /\ ctx'.follow = all
         \/ ctx'.messages = ctx.messages \o taken /\ ctx'.follow = Left(all, config.follow)
  <2> DEFINE synced == SyncLiveQueues
  <2>1. /\ synced \in Contexts /\ synced.messages = ctx.messages /\ synced.follow = all
        /\ synced.steering = ctx.steering \o steering
    BY <1>0, SyncFacts
  <2>2. \/ ctx' = synced
        \/ ctx' = [synced EXCEPT !.messages = @ \o Taken(synced.follow, config.follow),
                                 !.follow = Left(@, config.follow)]
    BY DEF MaybePrepareNextTurn
  <2> HIDE DEF synced, all
  <2>3. CASE ctx' = synced
    BY <2>1, <2>3
  <2>4. CASE ctx' = [synced EXCEPT !.messages = @ \o Taken(synced.follow, config.follow),
                              !.follow = Left(@, config.follow)]
    BY <2>1, <2>4 DEF Contexts
  <2> QED
    BY <2>2, <2>3, <2>4
<1>5. all \in Seqs /\ Quiet(all) /\ Quiet(ctx.steering \o steering)
  BY <1>0, TurnParts, ConcatPlaces, QuietFacts DEF AnsweredInv
<1> HIDE DEF all
<1>6. taken \in Seqs /\ Quiet(taken) /\ Quiet(Left(all, config.follow))
  BY <1>5, DrainFacts, QuietQueue
<1> HIDE DEF taken
<1>7. ASSUME ~hist.compacted PROVE Answered(ctx'.messages, Len(ctx'.messages), Past)
  <2>1. Answered(ctx.messages, Len(ctx.messages), Past) /\ ctx.messages \in Seqs
    BY <1>0, <1>2, <1>7, TurnParts DEF AnsweredInv, InContext
  <2> QED
    BY <1>4, <1>6, <2>1, AnsweredQuiet
<1> QED
  BY <1>1, <1>2, <1>3, <1>4, <1>5, <1>6, <1>7, QuietFacts, NodeNames, AnsweredMore DEF AnsweredInv, InContext, Past

LEMMA AnsweredBeginTurn ==
    ASSUME StreamInv, StreamInv', AnsweredInv, BeginTurn
    PROVE  AnsweredInv'
<1>0. TurnType /\ ContextKept /\ EventsKept /\ CallsKept /\ TurnType'
  BY DEF StreamInv
<1>1. UNCHANGED <<config, messages, cancelled, running, sent, runs>>
  BY DEF BeginTurn, shared, counters
<1>2. pc = "turn" /\ pc' = "flow"
  BY <1>0, FlatType, LeaveFacts, NodeNames DEF BeginTurn, At
<1>3. /\ steering' = <<>> /\ follow' = <<>> /\ ctx'.messages = messages /\ ctx'.steering = steering
      /\ ctx'.follow = follow
  BY DEF BeginTurn, NoContext
<1>4. hist'.compacted = hist.compacted /\ hist'.aborted = hist.aborted
  BY <1>0, FlatType DEF BeginTurn, Hists
<1> QED
  BY <1>1, <1>2, <1>3, <1>4, QuietFacts, NodeNames, AnsweredMore DEF AnsweredInv, InContext, Past

LEMMA AnsweredEndFlow ==
    ASSUME StreamInv, StreamInv', AnsweredInv, EndFlow
    PROVE  AnsweredInv'
<1>0. TurnType /\ ContextKept /\ EventsKept /\ CallsKept /\ TurnType'
  BY DEF StreamInv
<1>1. UNCHANGED <<config, cancelled, sent, runs, hist>>
  BY DEF EndFlow, shared, counters
<1>2. pc = "apply" /\ pc' \in {"turn", "idle"} /\ (running' => running)
  BY <1>0, FlatType, LeaveFacts, NodeNames DEF EndFlow, At, EndRun
<1>3. /\ messages' = ctx.messages /\ ctx' = NoContext /\ steering' = ctx.steering \o steering
      /\ follow' = ctx.follow \o follow
  BY DEF EndFlow, ApplyToState
<1>4. Quiet(steering') /\ Quiet(follow') /\ Quiet(ctx'.steering) /\ Quiet(ctx'.follow)
  <2>1. NoContext.steering = <<>> /\ NoContext.follow = <<>>
    BY DEF NoContext
  <2> QED
    BY <1>0, <1>3, <2>1, TurnParts, QuietFacts DEF AnsweredInv
<1>5. Past \subseteq hist.aborted
  BY DEF Past
<1> QED
  BY <1>1, <1>2, <1>3, <1>4, <1>5, NodeNames, AnsweredMore DEF AnsweredInv, InContext, Past

LEMMA AnsweredFailFlow ==
    ASSUME StreamInv, StreamInv', AnsweredInv, FailFlow
    PROVE  AnsweredInv'
<1>0. TurnType /\ ContextKept /\ EventsKept /\ CallsKept /\ TurnType'
  BY DEF StreamInv
<1>1. UNCHANGED <<config, cancelled, sent, runs, hist>>
  BY DEF FailFlow, shared, counters
<1>2. pc = "failed" /\ pc' = "idle" /\ running' = FALSE
  BY <1>0, FlatType, LeaveFacts, NodeNames DEF FailFlow, At, EndRun
<1>3. /\ messages' = ctx.messages /\ ctx' = NoContext /\ steering' = ctx.steering \o steering
      /\ follow' = ctx.follow \o follow
  BY DEF FailFlow, ApplyToState
<1>4. Quiet(steering') /\ Quiet(follow') /\ Quiet(ctx'.steering) /\ Quiet(ctx'.follow)
  <2>1. NoContext.steering = <<>> /\ NoContext.follow = <<>>
    BY DEF NoContext
  <2> QED
    BY <1>0, <1>3, <2>1, TurnParts, QuietFacts DEF AnsweredInv
<1>5. Past \subseteq hist.aborted
  BY DEF Past
<1> QED
  BY <1>1, <1>2, <1>3, <1>4, <1>5, NodeNames, AnsweredMore DEF AnsweredInv, InContext, Past

LEMMA AnsweredDropStream ==
    ASSUME StreamInv, StreamInv', AnsweredInv, DropStream
    PROVE  AnsweredInv'
<1>0. TurnType /\ ContextKept /\ EventsKept /\ CallsKept /\ TurnType'
  BY DEF StreamInv
<1>1. UNCHANGED <<config, messages, steering, follow, cancelled, sent, runs>>
  BY DEF DropStream, shared, counters
<1>2. pc # "idle" /\ pc' = "idle" /\ running' = FALSE /\ ctx' = NoContext
  BY <1>0, FlatType, LeaveFacts, NodeNames DEF DropStream, At, EndRun
<1>3. hist'.compacted = hist.compacted /\ hist'.aborted = hist.aborted
  BY <1>0, FlatType DEF DropStream, Hists
<1>4. NoContext.steering = <<>> /\ NoContext.follow = <<>>
  BY DEF NoContext
<1>5. Past \subseteq hist.aborted
  BY DEF Past
<1> QED
  BY <1>1, <1>2, <1>3, <1>4, <1>5, QuietFacts, NodeNames, AnsweredMore DEF AnsweredInv, InContext, Past

LEMMA AnsweredInit == ASSUME Init PROVE AnsweredInv
<1>1. NoContext.steering = <<>> /\ NoContext.follow = <<>> /\ NoHistory.aborted = {}
  BY DEF NoContext, NoHistory
<1>2. Answered(<<>>, Len(<<>>), NoHistory.aborted)
  BY DEF Answered
<1> QED
  BY <1>1, <1>2, QuietFacts DEF Init, AnsweredInv, InContext

LEMMA AnsweredStep == ASSUME StreamInv, StreamInv', AnsweredInv, [Next]_vars PROVE AnsweredInv'
<1>1. StreamInv /\ StreamInv' /\ AnsweredInv
  OBVIOUS
<1>2. CASE BeginTurn
  BY <1>1, <1>2, AnsweredBeginTurn
<1>3. CASE EnterFlow
  BY <1>1, <1>3, AnsweredEnterFlow
<1>4. CASE CancelFlow
  BY <1>1, <1>4, AnsweredCancelFlow
<1>5. CASE StartTurn
  BY <1>1, <1>5, AnsweredStartTurn
<1>6. CASE DrainQueuedInput
  BY <1>1, <1>6, AnsweredDrainQueuedInput
<1>7. CASE SkipCompaction
  BY <1>1, <1>7, AnsweredSkipCompaction
<1>8. CASE CompactContext
  BY <1>1, <1>8, AnsweredCompactContext
<1>9. CASE CompactionFails
  BY <1>1, <1>9, AnsweredCompactionFails
<1>10. CASE PrepareProviderRequest
  BY <1>1, <1>10, AnsweredPrepareProviderRequest
<1>11. CASE ApplyBeforeProviderRequestHook
  BY <1>1, <1>11, AnsweredApplyBeforeProviderRequestHook
<1>12. ASSUME NEW stop \in Reasons, NEW calls \in 0..MaxCalls, NEW usage \in Usages, ProviderReplies(stop, calls, usage) PROVE AnsweredInv'
  BY <1>1, <1>12, AnsweredProviderReplies
<1>13. CASE ProviderFails
  BY <1>1, <1>13, AnsweredProviderFails
<1>14. CASE DecideAfterAssistant
  BY <1>1, <1>14, AnsweredDecideAfterAssistant
<1>15. CASE NoToolCalls
  BY <1>1, <1>15, AnsweredNoToolCalls
<1>16. ASSUME NEW mode \in {"parallel", "sequential"}, BeginTools(mode) PROVE AnsweredInv'
  BY <1>1, <1>16, AnsweredBeginTools
<1>17. CASE StartNextTool
  BY <1>1, <1>17, AnsweredStartNextTool
<1>18. ASSUME NEW call \in ctx.open, NEW terminate \in BOOLEAN, EndTool(call, terminate) PROVE AnsweredInv'
  BY <1>1, <1>18, AnsweredEndTool
<1>19. CASE FinishTools
  BY <1>1, <1>19, AnsweredFinishTools
<1>20. ASSUME NEW hook \in {"go", "stop", "fail"}, MaybePrepareNextTurn(hook) PROVE AnsweredInv'
  BY <1>1, <1>20, AnsweredMaybePrepareNextTurn
<1>21. CASE EndFlow
  BY <1>1, <1>21, AnsweredEndFlow
<1>22. CASE FailFlow
  BY <1>1, <1>22, AnsweredFailFlow
<1>23. CASE Steer
  BY <1>1, <1>23, AnsweredSteer
<1>24. CASE FollowUp
  BY <1>1, <1>24, AnsweredFollowUp
<1>25. ASSUME NEW s \in BOOLEAN, NEW f \in BOOLEAN, ClearQueues(s, f) PROVE AnsweredInv'
  BY <1>1, <1>25, AnsweredClearQueues
<1>26. CASE Abort
  BY <1>1, <1>26, AnsweredAbort
<1>27. CASE Prompt
  BY <1>1, <1>27, AnsweredPrompt
<1>28. CASE Run
  BY <1>1, <1>28, AnsweredRun
<1>29. CASE DropStream
  BY <1>1, <1>29, AnsweredDropStream
<1>30. CASE UNCHANGED vars
  <2>1. /\ UNCHANGED <<messages, steering, follow, cancelled, running, pc, ctx, runs, hist>>
    BY <1>30 DEF vars
  <2> QED
    BY <2>1 DEF AnsweredInv, InContext, Past
<1>31. CASE Tools
  BY <1>31, <1>15, <1>16, <1>17, <1>18, <1>19 DEF Tools
<1>32. CASE Outside
  BY <1>32, <1>23, <1>24, <1>25, <1>26, <1>27, <1>28, <1>29 DEF Outside
<1>33. CASE RunStep
  BY <1>33, <1>31, <1>2, <1>3, <1>4, <1>5, <1>6, <1>7, <1>8, <1>9, <1>10, <1>11, <1>12, <1>13, <1>14, <1>20, <1>21, <1>22 DEF RunStep
<1> QED
  BY <1>30, <1>32, <1>33 DEF Next

(* In every request the results of a reply's tool calls follow it at once and in  *)
(* the order of the calls, whatever the order in which the tools finished; only a  *)
(* reply of an earlier run that was aborted goes without (execute_tools and the    *)
(* tokens that the flow looks at between its nodes).                              *)
THEOREM CallsCorrect == Spec => []CallsAnswered
<1>1. Init => StreamInv /\ AnsweredInv
  BY StreamInit, AnsweredInit
<1>2. StreamInv /\ AnsweredInv /\ [Next]_vars => StreamInv' /\ AnsweredInv'
  BY StreamStep, AnsweredStep
<1>3. StreamInv /\ AnsweredInv => CallsAnswered
  <2>1. SUFFICES ASSUME StreamInv, AnsweredInv, pc = "provider_stream", ~hist.compacted,
                        NEW i \in 1..Len(ctx.request), Asks(ctx.request[i])
                 PROVE  \/ Complete(ctx.request, i)
                        \/ ctx.request[i].run < runs /\ ctx.request[i].run \in hist.aborted
    BY DEF CallsAnswered, Asks, Complete
  <2>2. Answered(ctx.request, Len(ctx.request), Past)
    BY <2>1 DEF AnsweredInv
  <2> QED
    BY <2>1, <2>2 DEF Answered, Past
<1> QED
  BY <1>1, <1>2, <1>3, PTL DEF Spec

(***************************************************************************)
(* Texts, and the queues they wait in.                                      *)
(***************************************************************************)
LEMMA NoTexts ==
    ASSUME NEW s \in Seqs, \A i \in 1..Len(s) : ~IsText(s[i])
    PROVE  /\ TextIds(s) = {} /\ Apart(s)
           /\ \A kind \in {"prompt", "steer", "follow"} : KindIds(kind, s) = {} /\ Rising(kind, s)
<1>1. TextIds(s) = {} /\ Apart(s)
  BY TextPlaces DEF Apart
<1>2. ASSUME NEW kind \in {"prompt", "steer", "follow"} PROVE KindIds(kind, s) = {} /\ Rising(kind, s)
  <2>1. \A i \in 1..Len(s) : s[i].kind # kind
    BY DEF IsText
  <2>2. KindIds(kind, s) = {}
    BY <2>1 DEF KindIds
  <2>3. Rising(kind, s)
    BY <2>1 DEF Rising
  <2> QED
    BY <2>2, <2>3
<1> QED
  BY <1>1, <1>2

LEMMA EmptyTexts ==
    /\ <<>> \in Seqs /\ TextIds(<<>>) = {} /\ Apart(<<>>)
    /\ \A kind \in {"prompt", "steer", "follow"} :
          KindIds(kind, <<>>) = {} /\ Rising(kind, <<>>) /\ Only(kind, <<>>)
<1>1. <<>> \in Seqs /\ Len(<<>>) = 0
  BY DEF Seqs
<1>2. \A i \in 1..Len(<<>>) : ~IsText(<<>>[i])
  BY <1>1
<1>3. \A kind : Only(kind, <<>>)
  BY <1>1 DEF Only
<1> DEFINE e == <<>>
<1>4. e \in Seqs /\ (\A i \in 1..Len(e) : ~IsText(e[i])) /\ \A kind : Only(kind, e)
  BY <1>1, <1>2, <1>3
<1> HIDE DEF e
<1>5. /\ TextIds(e) = {} /\ Apart(e)
      /\ \A kind \in {"prompt", "steer", "follow"} : KindIds(kind, e) = {} /\ Rising(kind, e)
  BY <1>4, NoTexts
<1> QED
  BY <1>4, <1>5 DEF e

(* A queue holds texts of its own kind only.                                 *)
LEMMA OnlyFacts ==
    ASSUME NEW s \in Seqs, NEW kind, NEW other, kind # other, Only(kind, s)
    PROVE  KindIds(other, s) = {} /\ Rising(other, s)
<1>1. \A i \in 1..Len(s) : s[i].kind # other
  BY DEF Only
<1> QED
  BY <1>1 DEF KindIds, Rising

LEMMA OneText ==
    ASSUME NEW kind \in {"prompt", "steer", "follow"}, NEW id \in Nat
    PROVE  LET s == <<Text(kind, id)>>
           IN  /\ s \in Seqs /\ TextIds(s) = {id} /\ Apart(s) /\ Only(kind, s)
               /\ \A k \in {"prompt", "steer", "follow"} :
                     KindIds(k, s) \subseteq {id} /\ Rising(k, s)
<1> DEFINE s == <<Text(kind, id)>>
<1>1. /\ s \in Seqs /\ Len(s) = 1 /\ s[1].kind = kind /\ s[1].id = id /\ IsText(s[1])
  <2>1. Text(kind, id) \in MessageSet
    BY MessageFacts DEF MessageKinds
  <2> QED
    BY <2>1 DEF Seqs, Text, Message, IsText
<1> HIDE DEF s
<1>2. \A i \in 1..Len(s) : i = 1
  BY <1>1
<1>3. TextIds(s) = {id}
  <2>1. \A x : x \in TextIds(s) <=> \E i \in 1..Len(s) : IsText(s[i]) /\ s[i].id = x
    BY <1>1, TextPlaces
  <2>2. 1 \in 1..Len(s)
    BY <1>1
  <2> QED
    BY <1>1, <1>2, <2>1, <2>2
<1>4. Apart(s) /\ Only(kind, s)
  BY <1>1, <1>2 DEF Apart, Only
<1>5. \A k : KindIds(k, s) \subseteq {id} /\ Rising(k, s)
  BY <1>1, <1>2 DEF KindIds, Rising
<1> QED
  BY <1>1, <1>3, <1>4, <1>5 DEF s

(* The queues of the turn take what came since it began.                      *)
LEMMA KeptSync ==
    ASSUME NEW c \in Seqs, NEW cs \in Seqs, NEW cf \in Seqs, NEW s \in Seqs, NEW f \in Seqs,
           Kept(c, cs, cf, s, f)
    PROVE  Kept(c, cs \o s, cf \o f, <<>>, <<>>)
<1> DEFINE e == <<>>
           qs == cs \o s
           qf == cf \o f
<1>1. /\ TextIds(qs) = TextIds(cs) \cup TextIds(s) /\ Apart(qs) <=> Apart(cs) /\ Apart(s) /\ TextIds(cs) \cap TextIds(s) = {}
      /\ TextIds(qf) = TextIds(cf) \cup TextIds(f) /\ Apart(qf) <=> Apart(cf) /\ Apart(f) /\ TextIds(cf) \cap TextIds(f) = {}
  BY TextsConcat
<1>2. \A kind : /\ KindIds(kind, qs) = KindIds(kind, cs) \cup KindIds(kind, s)
                /\ Rising(kind, qs) <=> Rising(kind, cs) /\ Rising(kind, s) /\ Below(kind, cs, s)
                /\ Only(kind, qs) <=> Only(kind, cs) /\ Only(kind, s)
                /\ KindIds(kind, qf) = KindIds(kind, cf) \cup KindIds(kind, f)
                /\ Rising(kind, qf) <=> Rising(kind, cf) /\ Rising(kind, f) /\ Below(kind, cf, f)
                /\ Only(kind, qf) <=> Only(kind, cf) /\ Only(kind, f)
  BY KindConcat
<1>3. /\ e \in Seqs /\ TextIds(e) = {} /\ Apart(e)
      /\ \A kind \in {"prompt", "steer", "follow"} : KindIds(kind, e) = {} /\ Rising(kind, e) /\ Only(kind, e)
  BY EmptyTexts
<1> HIDE DEF e, qs, qf
<1>4. /\ Apart(c) /\ Apart(qs) /\ Apart(qf) /\ Apart(e)
      /\ TextIds(c) \cap (TextIds(qs) \cup TextIds(qf) \cup TextIds(e)) = {}
      /\ TextIds(qs) \cap (TextIds(qf) \cup TextIds(e)) = {}
      /\ TextIds(qf) \cap TextIds(e) = {} /\ TextIds(e) = {}
  BY <1>1, <1>3 DEF Kept
<1>5. /\ Rising("steer", c) /\ Rising("steer", qs) /\ Rising("steer", e)
      /\ Below("steer", c, qs) /\ Below("steer", c, e) /\ Below("steer", qs, e)
      /\ Rising("follow", c) /\ Rising("follow", qf) /\ Rising("follow", e)
      /\ Below("follow", c, qf) /\ Below("follow", c, e) /\ Below("follow", qf, e)
      /\ Only("steer", qs) /\ Only("follow", qf) /\ Only("steer", e) /\ Only("follow", e)
  BY <1>2, <1>3 DEF Kept, Below
<1>6. Kept(c, qs, qf, e, e)
  BY <1>4, <1>5 DEF Kept
<1> QED
  BY <1>6 DEF e, qs, qf

(* The queues of the turn go back to the agent, in front of what came since.  *)
LEMMA KeptReturn ==
    ASSUME NEW c \in Seqs, NEW s \in Seqs, NEW f \in Seqs, Kept(c, s, f, <<>>, <<>>)
    PROVE  Kept(c, <<>>, <<>>, s, f)
<1> DEFINE e == <<>>
<1>1. /\ e \in Seqs /\ TextIds(e) = {} /\ Apart(e)
      /\ \A kind \in {"prompt", "steer", "follow"} : KindIds(kind, e) = {} /\ Rising(kind, e) /\ Only(kind, e)
  BY EmptyTexts
<1>2. Kept(c, s, f, e, e)
  OBVIOUS
<1> HIDE DEF e
<1>3. Kept(c, e, e, s, f)
  BY <1>1, <1>2 DEF Kept, Below
<1> QED
  BY <1>3 DEF e

(* Texts that are gone leave the others where they are.                       *)
LEMMA KeptClear ==
    ASSUME NEW c \in Seqs, NEW cs \in Seqs, NEW cf \in Seqs, NEW s \in Seqs, NEW f \in Seqs, Kept(c, cs, cf, s, f)
    PROVE  /\ Kept(c, cs, cf, <<>>, f) /\ Kept(c, cs, cf, s, <<>>) /\ Kept(c, cs, cf, <<>>, <<>>)
           /\ Kept(c, <<>>, <<>>, s, f) /\ Kept(<<>>, cs, cf, s, f)
<1> DEFINE e == <<>>
<1>1. /\ e \in Seqs /\ TextIds(e) = {} /\ Apart(e)
      /\ \A kind \in {"prompt", "steer", "follow"} : KindIds(kind, e) = {} /\ Rising(kind, e) /\ Only(kind, e)
  BY EmptyTexts
<1> HIDE DEF e
<1>2. Kept(c, cs, cf, e, f)
  BY <1>1 DEF Kept, Below
<1>3. Kept(c, cs, cf, s, e)
  BY <1>1 DEF Kept, Below
<1>4. Kept(c, cs, cf, e, e)
  BY <1>1 DEF Kept, Below
<1>5. Kept(c, e, e, s, f)
  BY <1>1 DEF Kept, Below
<1>6. Kept(e, cs, cf, s, f)
  BY <1>1 DEF Kept, Below
<1> QED
  BY <1>2, <1>3, <1>4, <1>5, <1>6 DEF e

(* What the mode takes from a queue of the turn joins the conversation.       *)
LEMMA KeptTakeSteering ==
    ASSUME NEW c \in Seqs, NEW a \in Seqs, NEW b \in Seqs, NEW cf \in Seqs, NEW s \in Seqs, NEW f \in Seqs,
           Kept(c, a \o b, cf, s, f)
    PROVE  Kept(c \o a, b, cf, s, f)
<1> DEFINE q == a \o b
           u == c \o a
<1>1. /\ TextIds(q) = TextIds(a) \cup TextIds(b)
      /\ Apart(q) <=> Apart(a) /\ Apart(b) /\ TextIds(a) \cap TextIds(b) = {}
      /\ TextIds(u) = TextIds(c) \cup TextIds(a)
      /\ Apart(u) <=> Apart(c) /\ Apart(a) /\ TextIds(c) \cap TextIds(a) = {}
  BY TextsConcat
<1>2. \A kind : /\ KindIds(kind, q) = KindIds(kind, a) \cup KindIds(kind, b)
                /\ Rising(kind, q) <=> Rising(kind, a) /\ Rising(kind, b) /\ Below(kind, a, b)
                /\ Only(kind, q) <=> Only(kind, a) /\ Only(kind, b)
                /\ KindIds(kind, u) = KindIds(kind, c) \cup KindIds(kind, a)
                /\ Rising(kind, u) <=> Rising(kind, c) /\ Rising(kind, a) /\ Below(kind, c, a)
  BY KindConcat
<1> HIDE DEF q, u
<1>3. Only("steer", a) /\ Only("steer", b)
  BY <1>2 DEF Kept, q
<1>4. KindIds("follow", a) = {} /\ Rising("follow", a)
  BY <1>3, OnlyFacts
<1>5. Kept(c, q, cf, s, f)
  BY DEF q
<1>6. /\ Apart(u) /\ Apart(b) /\ Apart(cf) /\ Apart(s) /\ Apart(f)
      /\ TextIds(u) \cap (TextIds(b) \cup TextIds(cf) \cup TextIds(s) \cup TextIds(f)) = {}
      /\ TextIds(b) \cap (TextIds(cf) \cup TextIds(s) \cup TextIds(f)) = {}
      /\ TextIds(cf) \cap (TextIds(s) \cup TextIds(f)) = {} /\ TextIds(s) \cap TextIds(f) = {}
  BY <1>1, <1>5 DEF Kept
<1>7. /\ Rising("steer", u) /\ Rising("steer", b) /\ Below("steer", u, b)
      /\ Rising("follow", u)
  BY <1>2, <1>4, <1>5 DEF Kept, Below
<1>8. Kept(u, b, cf, s, f)
  BY <1>2, <1>3, <1>4, <1>5, <1>6, <1>7 DEF Kept, Below
<1> QED
  BY <1>8 DEF u

LEMMA KeptTakeFollow ==
    ASSUME NEW c \in Seqs, NEW a \in Seqs, NEW b \in Seqs, NEW cs \in Seqs, NEW s \in Seqs, NEW f \in Seqs,
           Kept(c, cs, a \o b, s, f)
    PROVE  Kept(c \o a, cs, b, s, f)
<1> DEFINE q == a \o b
           u == c \o a
<1>1. /\ TextIds(q) = TextIds(a) \cup TextIds(b)
      /\ Apart(q) <=> Apart(a) /\ Apart(b) /\ TextIds(a) \cap TextIds(b) = {}
      /\ TextIds(u) = TextIds(c) \cup TextIds(a)
      /\ Apart(u) <=> Apart(c) /\ Apart(a) /\ TextIds(c) \cap TextIds(a) = {}
  BY TextsConcat
<1>2. \A kind : /\ KindIds(kind, q) = KindIds(kind, a) \cup KindIds(kind, b)
                /\ Rising(kind, q) <=> Rising(kind, a) /\ Rising(kind, b) /\ Below(kind, a, b)
                /\ Only(kind, q) <=> Only(kind, a) /\ Only(kind, b)
                /\ KindIds(kind, u) = KindIds(kind, c) \cup KindIds(kind, a)
                /\ Rising(kind, u) <=> Rising(kind, c) /\ Rising(kind, a) /\ Below(kind, c, a)
  BY KindConcat
<1> HIDE DEF q, u
<1>3. Only("follow", a) /\ Only("follow", b)
  BY <1>2 DEF Kept, q
<1>4. KindIds("steer", a) = {} /\ Rising("steer", a)
  BY <1>3, OnlyFacts
<1>5. Kept(c, cs, q, s, f)
  BY DEF q
<1>6. /\ Apart(u) /\ Apart(b) /\ Apart(cs) /\ Apart(s) /\ Apart(f)
      /\ TextIds(u) \cap (TextIds(b) \cup TextIds(cs) \cup TextIds(s) \cup TextIds(f)) = {}
      /\ TextIds(b) \cap (TextIds(cs) \cup TextIds(s) \cup TextIds(f)) = {}
      /\ TextIds(cs) \cap (TextIds(s) \cup TextIds(f)) = {} /\ TextIds(s) \cap TextIds(f) = {}
  BY <1>1, <1>5 DEF Kept
<1>7. /\ Rising("follow", u) /\ Rising("follow", b) /\ Below("follow", u, b)
      /\ Rising("steer", u)
  BY <1>2, <1>4, <1>5 DEF Kept, Below
<1>8. Kept(u, cs, b, s, f)
  BY <1>2, <1>3, <1>4, <1>5, <1>6, <1>7 DEF Kept, Below
<1> QED
  BY <1>8 DEF u

(* A conversation that keeps a part of its texts, in their order.             *)
Thins(d, c) ==
    \E k \in Nat : \A i \in 1..Len(d) :
        IsText(d[i]) => /\ i + k - 1 \in 1..Len(c)
                        /\ c[i + k - 1].kind = d[i].kind /\ c[i + k - 1].id = d[i].id

LEMMA ThinFacts ==
    ASSUME NEW c \in Seqs, NEW d \in Seqs, Thins(d, c)
    PROVE  /\ TextIds(d) \subseteq TextIds(c) /\ (Apart(c) => Apart(d))
           /\ \A kind \in {"prompt", "steer", "follow"} :
                 KindIds(kind, d) \subseteq KindIds(kind, c) /\ (Rising(kind, c) => Rising(kind, d))
<1>1. PICK k \in Nat : \A i \in 1..Len(d) :
          IsText(d[i]) => /\ i + k - 1 \in 1..Len(c)
                          /\ c[i + k - 1].kind = d[i].kind /\ c[i + k - 1].id = d[i].id
  BY DEF Thins
<1>2. \A i \in 1..Len(d) : IsText(d[i]) => IsText(c[i + k - 1])
  BY <1>1 DEF IsText
<1>3. /\ \A x : x \in TextIds(c) <=> \E i \in 1..Len(c) : IsText(c[i]) /\ c[i].id = x
      /\ \A x : x \in TextIds(d) <=> \E i \in 1..Len(d) : IsText(d[i]) /\ d[i].id = x
  BY TextPlaces
<1>4. TextIds(d) \subseteq TextIds(c)
  BY <1>1, <1>2, <1>3
<1>5. ASSUME Apart(c) PROVE Apart(d)
  <2>1. SUFFICES ASSUME NEW i \in 1..Len(d), NEW j \in 1..Len(d), IsText(d[i]), IsText(d[j]), d[i].id = d[j].id
                 PROVE  i = j
    BY DEF Apart
  <2>2. i + k - 1 = j + k - 1
    BY <1>1, <1>2, <1>5, <2>1 DEF Apart
  <2> QED
    BY <2>2
<1>6. ASSUME NEW kind \in {"prompt", "steer", "follow"}
      PROVE  KindIds(kind, d) \subseteq KindIds(kind, c) /\ (Rising(kind, c) => Rising(kind, d))
  <2>1. \A i \in 1..Len(d) : d[i].kind = kind => IsText(d[i])
    BY DEF IsText
  <2>2. KindIds(kind, d) \subseteq KindIds(kind, c)
    <3>1. /\ \A x : x \in KindIds(kind, c) <=> \E i \in 1..Len(c) : c[i].kind = kind /\ c[i].id = x
          /\ \A x : x \in KindIds(kind, d) <=> \E i \in 1..Len(d) : d[i].kind = kind /\ d[i].id = x
      BY DEF KindIds
    <3> QED
      BY <1>1, <2>1, <3>1
  <2>3. ASSUME Rising(kind, c) PROVE Rising(kind, d)
    <3>1. SUFFICES ASSUME NEW i \in 1..Len(d), NEW j \in 1..Len(d), i < j, d[i].kind = kind, d[j].kind = kind
                   PROVE  d[i].id < d[j].id
      BY DEF Rising
    <3>2. i + k - 1 < j + k - 1
      BY <3>1
    <3> QED
      BY <1>1, <2>1, <2>3, <3>1, <3>2 DEF Rising
  <2> QED
    BY <2>2, <2>3
<1> QED
  BY <1>4, <1>5, <1>6

LEMMA KeptThin ==
    ASSUME NEW c \in Seqs, NEW cs \in Seqs, NEW cf \in Seqs, NEW s \in Seqs, NEW f \in Seqs, NEW d \in Seqs,
           Kept(c, cs, cf, s, f), Thins(d, c)
    PROVE  Kept(d, cs, cf, s, f)
<1>1. /\ TextIds(d) \subseteq TextIds(c) /\ (Apart(c) => Apart(d))
      /\ \A kind \in {"prompt", "steer", "follow"} :
            KindIds(kind, d) \subseteq KindIds(kind, c) /\ (Rising(kind, c) => Rising(kind, d))
  BY ThinFacts
<1> QED
  BY <1>1 DEF Kept, Below

(* Replies and results are no texts.                                        *)
LEMMA KeptQuiet ==
    ASSUME NEW c \in Seqs, NEW cs \in Seqs, NEW cf \in Seqs, NEW s \in Seqs, NEW f \in Seqs, NEW t \in Seqs,
           Kept(c, cs, cf, s, f), Plain(t)
    PROVE  Kept(c \o t, cs, cf, s, f) /\ TextIds(c \o t) = TextIds(c)
<1> DEFINE u == c \o t
<1>1. /\ TextIds(u) = TextIds(c) \cup TextIds(t)
      /\ Apart(u) <=> Apart(c) /\ Apart(t) /\ TextIds(c) \cap TextIds(t) = {}
  BY TextsConcat
<1>2. \A kind : /\ KindIds(kind, u) = KindIds(kind, c) \cup KindIds(kind, t)
                /\ Rising(kind, u) <=> Rising(kind, c) /\ Rising(kind, t) /\ Below(kind, c, t)
  BY KindConcat
<1>3. /\ TextIds(t) = {} /\ Apart(t)
      /\ \A kind \in {"prompt", "steer", "follow"} : KindIds(kind, t) = {} /\ Rising(kind, t)
  BY NoTexts DEF Plain
<1> HIDE DEF u
<1>4. Kept(u, cs, cf, s, f) /\ TextIds(u) = TextIds(c)
  BY <1>1, <1>2, <1>3 DEF Kept, Below
<1> QED
  BY <1>4 DEF u

LEMMA ResultsPlain ==
    ASSUME NEW s \in Seqs, NEW id, \A i \in 1..Len(s) : s[i] = Result(id, i)
    PROVE  Plain(s)
<1>1. \A i : Result(id, i).kind = "result"
  BY DEF Result, Message
<1> QED
  BY <1>1 DEF Plain, IsText

(* A text that was just sent is later than every other.                       *)
LEMMA KeptSteer ==
    ASSUME NEW c \in Seqs, NEW cs \in Seqs, NEW cf \in Seqs, NEW s \in Seqs, NEW f \in Seqs, NEW id \in Nat,
           Kept(c, cs, cf, s, f), \A x \in TextIds(c) \cup TextIds(cs) \cup TextIds(cf) \cup TextIds(s) \cup TextIds(f) : x < id
    PROVE  /\ Append(s, Text("steer", id)) \in Seqs /\ TextIds(Append(s, Text("steer", id))) = TextIds(s) \cup {id}
           /\ Kept(c, cs, cf, Append(s, Text("steer", id)), f)
<1> DEFINE t == <<Text("steer", id)>>
           u == s \o t
<1>1. /\ t \in Seqs /\ TextIds(t) = {id} /\ Apart(t) /\ Only("steer", t)
      /\ \A k \in {"prompt", "steer", "follow"} : KindIds(k, t) \subseteq {id} /\ Rising(k, t)
  BY OneText
<1>2. Append(s, Text("steer", id)) = u
  BY MessageFacts, AppendIsConcat DEF Seqs, MessageKinds
<1> HIDE DEF t
<1>3. /\ u \in Seqs /\ TextIds(u) = TextIds(s) \cup TextIds(t)
      /\ Apart(u) <=> Apart(s) /\ Apart(t) /\ TextIds(s) \cap TextIds(t) = {}
  BY <1>1, TextsConcat, ConcatPlaces
<1>4. \A kind : /\ KindIds(kind, u) = KindIds(kind, s) \cup KindIds(kind, t)
                /\ Rising(kind, u) <=> Rising(kind, s) /\ Rising(kind, t) /\ Below(kind, s, t)
                /\ Only(kind, u) <=> Only(kind, s) /\ Only(kind, t)
  BY <1>1, KindConcat
<1> HIDE DEF u
<1>5. /\ \A k \in {"prompt", "steer", "follow"}, x \in {c, cs, cf, s, f} : KindIds(k, x) \subseteq TextIds(x)
      /\ \A x \in {c, cs, cf, s, f} : TextIds(x) \subseteq Nat
  BY KindPlaces, TextPlaces
<1>6. \A k \in {"prompt", "steer", "follow"}, x \in {c, cs, cf, s, f} : Below(k, x, t) /\ \A y \in TextIds(x) : y < id
  BY <1>1, <1>5 DEF Below
<1>7. KindIds("follow", t) = {}
  BY <1>1, OnlyFacts
<1>8. /\ Apart(u) /\ TextIds(u) = TextIds(s) \cup {id}
      /\ \A x \in {c, cs, cf, s, f} : id \notin TextIds(x)
  <2>1. ASSUME NEW x \in {c, cs, cf, s, f} PROVE id \notin TextIds(x)
    <3>1. \A y \in TextIds(x) : y < id /\ y \in Nat
      BY <1>5, <1>6
    <3> QED
      BY <3>1
  <2>2. Apart(s)
    BY DEF Kept
  <2> QED
    BY <1>1, <1>3, <2>1, <2>2
<1>9. Kept(c, cs, cf, u, f)
  BY <1>1, <1>3, <1>4, <1>6, <1>7, <1>8 DEF Kept, Below
<1> QED
  BY <1>2, <1>3, <1>8, <1>9

LEMMA KeptFollow ==
    ASSUME NEW c \in Seqs, NEW cs \in Seqs, NEW cf \in Seqs, NEW s \in Seqs, NEW f \in Seqs, NEW id \in Nat,
           Kept(c, cs, cf, s, f), \A x \in TextIds(c) \cup TextIds(cs) \cup TextIds(cf) \cup TextIds(s) \cup TextIds(f) : x < id
    PROVE  /\ Append(f, Text("follow", id)) \in Seqs /\ TextIds(Append(f, Text("follow", id))) = TextIds(f) \cup {id}
           /\ Kept(c, cs, cf, s, Append(f, Text("follow", id)))
<1> DEFINE t == <<Text("follow", id)>>
           u == f \o t
<1>1. /\ t \in Seqs /\ TextIds(t) = {id} /\ Apart(t) /\ Only("follow", t)
      /\ \A k \in {"prompt", "steer", "follow"} : KindIds(k, t) \subseteq {id} /\ Rising(k, t)
  BY OneText
<1>2. Append(f, Text("follow", id)) = u
  BY MessageFacts, AppendIsConcat DEF Seqs, MessageKinds
<1> HIDE DEF t
<1>3. /\ u \in Seqs /\ TextIds(u) = TextIds(f) \cup TextIds(t)
      /\ Apart(u) <=> Apart(f) /\ Apart(t) /\ TextIds(f) \cap TextIds(t) = {}
  BY <1>1, TextsConcat, ConcatPlaces
<1>4. \A kind : /\ KindIds(kind, u) = KindIds(kind, f) \cup KindIds(kind, t)
                /\ Rising(kind, u) <=> Rising(kind, f) /\ Rising(kind, t) /\ Below(kind, f, t)
                /\ Only(kind, u) <=> Only(kind, f) /\ Only(kind, t)
  BY <1>1, KindConcat
<1> HIDE DEF u
<1>5. /\ \A k \in {"prompt", "steer", "follow"}, x \in {c, cs, cf, s, f} : KindIds(k, x) \subseteq TextIds(x)
      /\ \A x \in {c, cs, cf, s, f} : TextIds(x) \subseteq Nat
  BY KindPlaces, TextPlaces
<1>6. \A k \in {"prompt", "steer", "follow"}, x \in {c, cs, cf, s, f} : Below(k, x, t) /\ \A y \in TextIds(x) : y < id
  BY <1>1, <1>5 DEF Below
<1>7. KindIds("steer", t) = {}
  BY <1>1, OnlyFacts
<1>8. /\ Apart(u) /\ TextIds(u) = TextIds(f) \cup {id}
      /\ \A x \in {c, cs, cf, s, f} : id \notin TextIds(x)
  <2>1. ASSUME NEW x \in {c, cs, cf, s, f} PROVE id \notin TextIds(x)
    <3>1. \A y \in TextIds(x) : y < id /\ y \in Nat
      BY <1>5, <1>6
    <3> QED
      BY <3>1
  <2>2. Apart(f)
    BY DEF Kept
  <2> QED
    BY <1>1, <1>3, <2>1, <2>2
<1>9. Kept(c, cs, cf, s, u)
  BY <1>1, <1>3, <1>4, <1>6, <1>7, <1>8 DEF Kept, Below
<1> QED
  BY <1>2, <1>3, <1>8, <1>9

LEMMA KeptPrompt ==
    ASSUME NEW c \in Seqs, NEW cs \in Seqs, NEW cf \in Seqs, NEW s \in Seqs, NEW f \in Seqs, NEW id \in Nat,
           Kept(c, cs, cf, s, f), \A x \in TextIds(c) \cup TextIds(cs) \cup TextIds(cf) \cup TextIds(s) \cup TextIds(f) : x < id
    PROVE  /\ Append(c, Text("prompt", id)) \in Seqs /\ TextIds(Append(c, Text("prompt", id))) = TextIds(c) \cup {id}
           /\ Kept(Append(c, Text("prompt", id)), cs, cf, s, f)
<1> DEFINE t == <<Text("prompt", id)>>
           u == c \o t
<1>1. /\ t \in Seqs /\ TextIds(t) = {id} /\ Apart(t) /\ Only("prompt", t)
      /\ \A k \in {"prompt", "steer", "follow"} : KindIds(k, t) \subseteq {id} /\ Rising(k, t)
  BY OneText
<1>2. Append(c, Text("prompt", id)) = u
  BY MessageFacts, AppendIsConcat DEF Seqs, MessageKinds
<1> HIDE DEF t
<1>3. /\ u \in Seqs /\ TextIds(u) = TextIds(c) \cup TextIds(t)
      /\ Apart(u) <=> Apart(c) /\ Apart(t) /\ TextIds(c) \cap TextIds(t) = {}
  BY <1>1, TextsConcat, ConcatPlaces
<1>4. \A kind : /\ KindIds(kind, u) = KindIds(kind, c) \cup KindIds(kind, t)
                /\ Rising(kind, u) <=> Rising(kind, c) /\ Rising(kind, t) /\ Below(kind, c, t)
                /\ Only(kind, u) <=> Only(kind, c) /\ Only(kind, t)
  BY <1>1, KindConcat
<1> HIDE DEF u
<1>5. /\ \A k \in {"prompt", "steer", "follow"}, x \in {c, cs, cf, s, f} : KindIds(k, x) \subseteq TextIds(x)
      /\ \A x \in {c, cs, cf, s, f} : TextIds(x) \subseteq Nat
  BY KindPlaces, TextPlaces
<1>6. \A k \in {"prompt", "steer", "follow"}, x \in {c, cs, cf, s, f} : Below(k, x, t) /\ \A y \in TextIds(x) : y < id
  BY <1>1, <1>5 DEF Below
<1>7. KindIds("steer", t) = {} /\ KindIds("follow", t) = {}
  BY <1>1, OnlyFacts
<1>8. /\ Apart(u) /\ TextIds(u) = TextIds(c) \cup {id}
      /\ \A x \in {c, cs, cf, s, f} : id \notin TextIds(x)
  <2>1. ASSUME NEW x \in {c, cs, cf, s, f} PROVE id \notin TextIds(x)
    <3>1. \A y \in TextIds(x) : y < id /\ y \in Nat
      BY <1>5, <1>6
    <3> QED
      BY <3>1
  <2>2. Apart(c)
    BY DEF Kept
  <2> QED
    BY <1>1, <1>3, <2>1, <2>2
<1>9. Kept(u, cs, cf, s, f)
  BY <1>1, <1>3, <1>4, <1>6, <1>7, <1>8 DEF Kept, Below
<1> QED
  BY <1>2, <1>3, <1>8, <1>9


(* Where the texts are when a turn has no context.                            *)
LEMMA TextsIdle ==
    ASSUME StreamInv, ~InContext
    PROVE  /\ Conversation = messages /\ ctx.messages = <<>> /\ ctx.steering = <<>> /\ ctx.follow = <<>>
<1>1. pc \in {"idle", "turn"}
  BY DEF InContext
<1>2. ctx = NoContext
  BY <1>1 DEF StreamInv, ContextKept
<1> QED
  BY <1>1, <1>2 DEF Conversation, NoContext

LEMMA TextsBusy ==
    ASSUME InContext
    PROVE  Conversation = ctx.messages
  BY DEF InContext, Conversation

(* A step that touches no text.                                             *)
LEMMA TextsSame ==
    ASSUME TextsInv, SteeringInv, UNCHANGED <<config, messages, steering, follow, sent>>,
           ctx'.messages = ctx.messages, ctx'.steering = ctx.steering, ctx'.follow = ctx.follow,
           hist'.gone = hist.gone, hist'.known = hist.known, InContext' = InContext,
           pc' \in Drained => pc \in Drained
    PROVE  TextsInv' /\ SteeringInv'
<1>1. Conversation' = Conversation
  BY DEF InContext, Conversation
<1>2. TextsInv'
  BY <1>1 DEF TextsInv
<1>3. SteeringInv'
  BY DEF SteeringInv
<1> QED
  BY <1>2, <1>3

LEMMA TextsBounds ==
    ASSUME StreamInv, TextsInv
    PROVE  /\ \A x \in TextIds(messages) : x < sent + 1
           /\ \A x \in TextIds(steering) \cup TextIds(follow) : x < sent + 1
           /\ \A x \in TextIds(ctx.messages) \cup TextIds(ctx.steering) \cup TextIds(ctx.follow) : x < sent + 1
           /\ TextIds(Conversation) \cup TextIds(ctx.steering) \cup TextIds(ctx.follow)
                \cup TextIds(steering) \cup TextIds(follow) = (1..sent) \ hist.gone
           /\ TextIds(messages) \subseteq 1..sent /\ hist.gone \subseteq 1..sent /\ sent \in Nat
           /\ TextIds(<<>>) = {}
<1>1. sent \in Nat
  BY TurnParts DEF StreamInv
<1>2. TextIds(<<>>) = {}
  BY EmptyTexts
<1>3. /\ TextIds(Conversation) \cup TextIds(ctx.steering) \cup TextIds(ctx.follow)
           \cup TextIds(steering) \cup TextIds(follow) = (1..sent) \ hist.gone
      /\ TextIds(messages) \subseteq 1..sent /\ hist.gone \subseteq 1..sent
  BY DEF TextsInv
<1>4. TextIds(ctx.messages) \subseteq TextIds(Conversation)
  <2>1. CASE InContext
    BY <2>1, TextsBusy
  <2>2. CASE ~InContext
    BY <1>2, <2>2, TextsIdle
  <2> QED
    BY <2>1, <2>2
<1>5. \A x \in 1..sent : x < sent + 1
  BY <1>1
<1> QED
  BY <1>1, <1>2, <1>3, <1>4, <1>5

LEMMA TextsAbort ==
    ASSUME StreamInv, StreamInv', AnsweredInv, TextsInv, SteeringInv, Abort
    PROVE  TextsInv' /\ SteeringInv'
<1>0. TurnType /\ ContextKept /\ CallsKept /\ TurnType'
  BY DEF StreamInv
<1>1. UNCHANGED <<config, messages, steering, follow, sent>>
  BY DEF Abort, shared, counters
<1>2. /\ ctx'.messages = ctx.messages /\ ctx'.steering = ctx.steering /\ ctx'.follow = ctx.follow
      /\ hist'.gone = hist.gone /\ hist'.known = hist.known
  BY <1>0, FlatType DEF Abort, Contexts, Hists
<1>3. InContext' = InContext /\ (pc' \in Drained => pc \in Drained)
  BY <1>0, FlatType, LeaveFacts, NodeNames DEF Abort, InContext, At, Drained, ContextKept
<1> QED
  BY <1>1, <1>2, <1>3, TextsSame

LEMMA TextsEnterFlow ==
    ASSUME StreamInv, StreamInv', AnsweredInv, TextsInv, SteeringInv, EnterFlow
    PROVE  TextsInv' /\ SteeringInv'
<1>0. TurnType /\ ContextKept /\ CallsKept /\ TurnType'
  BY DEF StreamInv
<1>1. UNCHANGED <<config, messages, steering, follow, sent>>
  BY DEF EnterFlow, shared, counters
<1>2. /\ ctx'.messages = ctx.messages /\ ctx'.steering = ctx.steering /\ ctx'.follow = ctx.follow
      /\ hist'.gone = hist.gone /\ hist'.known = hist.known
  BY <1>0, FlatType DEF EnterFlow, Contexts, Hists
<1>3. InContext' = InContext /\ (pc' \in Drained => pc \in Drained)
  BY <1>0, FlatType, LeaveFacts, NodeNames DEF EnterFlow, InContext, At, Drained, ContextKept
<1> QED
  BY <1>1, <1>2, <1>3, TextsSame

LEMMA TextsCancelFlow ==
    ASSUME StreamInv, StreamInv', AnsweredInv, TextsInv, SteeringInv, CancelFlow
    PROVE  TextsInv' /\ SteeringInv'
<1>0. TurnType /\ ContextKept /\ CallsKept /\ TurnType'
  BY DEF StreamInv
<1>1. UNCHANGED <<config, messages, steering, follow, sent>>
  BY DEF CancelFlow, shared, counters
<1>2. /\ ctx'.messages = ctx.messages /\ ctx'.steering = ctx.steering /\ ctx'.follow = ctx.follow
      /\ hist'.gone = hist.gone /\ hist'.known = hist.known
  BY <1>0, FlatType DEF CancelFlow, Contexts, Hists
<1>3. InContext' = InContext /\ (pc' \in Drained => pc \in Drained)
  BY <1>0, FlatType, LeaveFacts, NodeNames DEF CancelFlow, InContext, At, Drained, ContextKept
<1> QED
  BY <1>1, <1>2, <1>3, TextsSame

LEMMA TextsStartTurn ==
    ASSUME StreamInv, StreamInv', AnsweredInv, TextsInv, SteeringInv, StartTurn
    PROVE  TextsInv' /\ SteeringInv'
<1>0. TurnType /\ ContextKept /\ CallsKept /\ TurnType'
  BY DEF StreamInv
<1>1. UNCHANGED <<config, messages, steering, follow, sent>>
  BY DEF StartTurn, shared, counters
<1>2. /\ ctx'.messages = ctx.messages /\ ctx'.steering = ctx.steering /\ ctx'.follow = ctx.follow
      /\ hist'.gone = hist.gone /\ hist'.known = hist.known
  BY <1>0, FlatType DEF StartTurn, Contexts, Hists
<1>3. InContext' = InContext /\ (pc' \in Drained => pc \in Drained)
  BY <1>0, FlatType, LeaveFacts, NodeNames DEF StartTurn, InContext, At, Drained, ContextKept
<1> QED
  BY <1>1, <1>2, <1>3, TextsSame

LEMMA TextsSkipCompaction ==
    ASSUME StreamInv, StreamInv', AnsweredInv, TextsInv, SteeringInv, SkipCompaction
    PROVE  TextsInv' /\ SteeringInv'
<1>0. TurnType /\ ContextKept /\ CallsKept /\ TurnType'
  BY DEF StreamInv
<1>1. UNCHANGED <<config, messages, steering, follow, sent>>
  BY DEF SkipCompaction, shared, counters
<1>2. /\ ctx'.messages = ctx.messages /\ ctx'.steering = ctx.steering /\ ctx'.follow = ctx.follow
      /\ hist'.gone = hist.gone /\ hist'.known = hist.known
  BY <1>0, FlatType DEF SkipCompaction, Contexts, Hists
<1>3. InContext' = InContext /\ (pc' \in Drained => pc \in Drained)
  BY <1>0, FlatType, LeaveFacts, NodeNames DEF SkipCompaction, InContext, At, Drained, ContextKept
<1> QED
  BY <1>1, <1>2, <1>3, TextsSame

LEMMA TextsCompactionFails ==
    ASSUME StreamInv, StreamInv', AnsweredInv, TextsInv, SteeringInv, CompactionFails
    PROVE  TextsInv' /\ SteeringInv'
<1>0. TurnType /\ ContextKept /\ CallsKept /\ TurnType'
  BY DEF StreamInv
<1>1. UNCHANGED <<config, messages, steering, follow, sent>>
  BY DEF CompactionFails, shared, counters
<1>2. /\ ctx'.messages = ctx.messages /\ ctx'.steering = ctx.steering /\ ctx'.follow = ctx.follow
      /\ hist'.gone = hist.gone /\ hist'.known = hist.known
  BY <1>0, FlatType DEF CompactionFails, Contexts, Hists
<1>3. InContext' = InContext /\ (pc' \in Drained => pc \in Drained)
  BY <1>0, FlatType, LeaveFacts, NodeNames DEF CompactionFails, InContext, At, Drained, ContextKept
<1> QED
  BY <1>1, <1>2, <1>3, TextsSame

LEMMA TextsPrepareProviderRequest ==
    ASSUME StreamInv, StreamInv', AnsweredInv, TextsInv, SteeringInv, PrepareProviderRequest
    PROVE  TextsInv' /\ SteeringInv'
<1>0. TurnType /\ ContextKept /\ CallsKept /\ TurnType'
  BY DEF StreamInv
<1>1. UNCHANGED <<config, messages, steering, follow, sent>>
  BY DEF PrepareProviderRequest, shared, counters
<1>2. /\ ctx'.messages = ctx.messages /\ ctx'.steering = ctx.steering /\ ctx'.follow = ctx.follow
      /\ hist'.gone = hist.gone /\ hist'.known = hist.known
  BY <1>0, FlatType DEF PrepareProviderRequest, Contexts, Hists
<1>3. InContext' = InContext /\ (pc' \in Drained => pc \in Drained)
  BY <1>0, FlatType, LeaveFacts, NodeNames DEF PrepareProviderRequest, InContext, At, Drained, ContextKept
<1> QED
  BY <1>1, <1>2, <1>3, TextsSame

LEMMA TextsApplyBeforeProviderRequestHook ==
    ASSUME StreamInv, StreamInv', AnsweredInv, TextsInv, SteeringInv, ApplyBeforeProviderRequestHook
    PROVE  TextsInv' /\ SteeringInv'
<1>0. TurnType /\ ContextKept /\ CallsKept /\ TurnType'
  BY DEF StreamInv
<1>1. UNCHANGED <<config, messages, steering, follow, sent>>
  BY DEF ApplyBeforeProviderRequestHook, shared, counters
<1>2. /\ ctx'.messages = ctx.messages /\ ctx'.steering = ctx.steering /\ ctx'.follow = ctx.follow
      /\ hist'.gone = hist.gone /\ hist'.known = hist.known
  BY <1>0, FlatType DEF ApplyBeforeProviderRequestHook, Contexts, Hists
<1>3. InContext' = InContext /\ (pc' \in Drained => pc \in Drained)
  BY <1>0, FlatType, LeaveFacts, NodeNames DEF ApplyBeforeProviderRequestHook, InContext, At, Drained, ContextKept
<1> QED
  BY <1>1, <1>2, <1>3, TextsSame

LEMMA TextsProviderReplies ==
    ASSUME StreamInv, StreamInv', AnsweredInv, TextsInv, SteeringInv, NEW stop, NEW calls, NEW usage, ProviderReplies(stop, calls, usage)
    PROVE  TextsInv' /\ SteeringInv'
<1>0. TurnType /\ ContextKept /\ CallsKept /\ TurnType'
  BY DEF StreamInv
<1>1. UNCHANGED <<config, messages, steering, follow, sent>>
  BY DEF ProviderReplies, shared, counters
<1>2. /\ ctx'.messages = ctx.messages /\ ctx'.steering = ctx.steering /\ ctx'.follow = ctx.follow
      /\ hist'.gone = hist.gone /\ hist'.known = hist.known
  BY <1>0, FlatType DEF ProviderReplies, Contexts, Hists
<1>3. InContext' = InContext /\ (pc' \in Drained => pc \in Drained)
  BY <1>0, FlatType, LeaveFacts, NodeNames DEF ProviderReplies, InContext, At, Drained, ContextKept
<1> QED
  BY <1>1, <1>2, <1>3, TextsSame

LEMMA TextsProviderFails ==
    ASSUME StreamInv, StreamInv', AnsweredInv, TextsInv, SteeringInv, ProviderFails
    PROVE  TextsInv' /\ SteeringInv'
<1>0. TurnType /\ ContextKept /\ CallsKept /\ TurnType'
  BY DEF StreamInv
<1>1. UNCHANGED <<config, messages, steering, follow, sent>>
  BY DEF ProviderFails, shared, counters
<1>2. /\ ctx'.messages = ctx.messages /\ ctx'.steering = ctx.steering /\ ctx'.follow = ctx.follow
      /\ hist'.gone = hist.gone /\ hist'.known = hist.known
  BY <1>0, FlatType DEF ProviderFails, Contexts, Hists
<1>3. InContext' = InContext /\ (pc' \in Drained => pc \in Drained)
  BY <1>0, FlatType, LeaveFacts, NodeNames DEF ProviderFails, InContext, At, Drained, ContextKept
<1> QED
  BY <1>1, <1>2, <1>3, TextsSame

LEMMA TextsNoToolCalls ==
    ASSUME StreamInv, StreamInv', AnsweredInv, TextsInv, SteeringInv, NoToolCalls
    PROVE  TextsInv' /\ SteeringInv'
<1>0. TurnType /\ ContextKept /\ CallsKept /\ TurnType'
  BY DEF StreamInv
<1>1. UNCHANGED <<config, messages, steering, follow, sent>>
  BY DEF NoToolCalls, shared, counters
<1>2. /\ ctx'.messages = ctx.messages /\ ctx'.steering = ctx.steering /\ ctx'.follow = ctx.follow
      /\ hist'.gone = hist.gone /\ hist'.known = hist.known
  BY <1>0, FlatType DEF NoToolCalls, Contexts, Hists
<1>3. InContext' = InContext /\ (pc' \in Drained => pc \in Drained)
  BY <1>0, FlatType, LeaveFacts, NodeNames DEF NoToolCalls, InContext, At, Drained, ContextKept
<1> QED
  BY <1>1, <1>2, <1>3, TextsSame

LEMMA TextsBeginTools ==
    ASSUME StreamInv, StreamInv', AnsweredInv, TextsInv, SteeringInv, NEW mode, BeginTools(mode)
    PROVE  TextsInv' /\ SteeringInv'
<1>0. TurnType /\ ContextKept /\ CallsKept /\ TurnType'
  BY DEF StreamInv
<1>1. UNCHANGED <<config, messages, steering, follow, sent>>
  BY DEF BeginTools, shared, counters
<1>2. /\ ctx'.messages = ctx.messages /\ ctx'.steering = ctx.steering /\ ctx'.follow = ctx.follow
      /\ hist'.gone = hist.gone /\ hist'.known = hist.known
  BY <1>0, FlatType DEF BeginTools, Contexts, Hists
<1>3. InContext' = InContext /\ (pc' \in Drained => pc \in Drained)
  BY <1>0, FlatType, LeaveFacts, NodeNames DEF BeginTools, InContext, At, Drained, ContextKept
<1> QED
  BY <1>1, <1>2, <1>3, TextsSame

LEMMA TextsStartNextTool ==
    ASSUME StreamInv, StreamInv', AnsweredInv, TextsInv, SteeringInv, StartNextTool
    PROVE  TextsInv' /\ SteeringInv'
<1>0. TurnType /\ ContextKept /\ CallsKept /\ TurnType'
  BY DEF StreamInv
<1>1. UNCHANGED <<config, messages, steering, follow, sent>>
  BY DEF StartNextTool, shared, counters
<1>2. /\ ctx'.messages = ctx.messages /\ ctx'.steering = ctx.steering /\ ctx'.follow = ctx.follow
      /\ hist'.gone = hist.gone /\ hist'.known = hist.known
  BY <1>0, FlatType DEF StartNextTool, Contexts, Hists
<1>3. InContext' = InContext /\ (pc' \in Drained => pc \in Drained)
  BY <1>0, FlatType, LeaveFacts, NodeNames DEF StartNextTool, InContext, At, Drained, ContextKept
<1> QED
  BY <1>1, <1>2, <1>3, TextsSame

LEMMA TextsEndTool ==
    ASSUME StreamInv, StreamInv', AnsweredInv, TextsInv, SteeringInv, NEW call, NEW terminate, EndTool(call, terminate)
    PROVE  TextsInv' /\ SteeringInv'
<1>0. TurnType /\ ContextKept /\ CallsKept /\ TurnType'
  BY DEF StreamInv
<1>1. UNCHANGED <<config, messages, steering, follow, sent>>
  BY DEF EndTool, shared, counters
<1>2. /\ ctx'.messages = ctx.messages /\ ctx'.steering = ctx.steering /\ ctx'.follow = ctx.follow
      /\ hist'.gone = hist.gone /\ hist'.known = hist.known
  BY <1>0, FlatType DEF EndTool, Contexts, Hists
<1>3. InContext' = InContext /\ (pc' \in Drained => pc \in Drained)
  BY <1>0, FlatType, LeaveFacts, NodeNames DEF EndTool, InContext, At, Drained, ContextKept
<1> QED
  BY <1>1, <1>2, <1>3, TextsSame

LEMMA TextsSteer ==
    ASSUME StreamInv, StreamInv', AnsweredInv, TextsInv, SteeringInv, Steer
    PROVE  TextsInv' /\ SteeringInv'
<1>0. TurnType /\ ContextKept /\ CallsKept /\ TurnType'
  BY DEF StreamInv
<1> DEFINE u == Append(steering, Text("steer", sent + 1))
<1>1. /\ steering' = u /\ sent' = sent + 1
      /\ UNCHANGED <<config, messages, follow, pc, ctx, hist>>
  BY DEF Steer
<1>2. sent + 1 \in Nat /\ <<>> \in Seqs
  BY <1>0, TurnParts, EmptyTexts
<1>3. Kept(messages, <<>>, <<>>, steering, follow) /\ Kept(ctx.messages, ctx.steering, ctx.follow, steering, follow)
  BY DEF TextsInv
<1>5. /\ u \in Seqs /\ TextIds(u) = TextIds(steering) \cup {sent + 1}
      /\ Kept(messages, <<>>, <<>>, u, follow)
  BY <1>0, <1>2, <1>3, TurnParts, TextsBounds, KeptSteer
<1>6. Kept(ctx.messages, ctx.steering, ctx.follow, u, follow)
  BY <1>0, <1>2, <1>3, TurnParts, TextsBounds, KeptSteer
<1> HIDE DEF u
<1>7. Conversation' = Conversation /\ InContext' = InContext
  BY <1>1 DEF Conversation, InContext
<1>8. /\ TextIds(Conversation) \cup TextIds(ctx.steering) \cup TextIds(ctx.follow)
           \cup TextIds(steering) \cup TextIds(follow) = (1..sent) \ hist.gone
      /\ TextIds(messages) \subseteq 1..sent /\ hist.gone \subseteq 1..sent /\ sent \in Nat
  BY TextsBounds
<1>9. (1..(sent + 1)) \ hist.gone = ((1..sent) \ hist.gone) \cup {sent + 1}
  <2>1. 1..(sent + 1) = (1..sent) \cup {sent + 1} /\ sent + 1 \notin 1..sent
    BY <1>8
  <2> QED
    BY <1>8, <2>1
<1>10. /\ TextIds(Conversation') \cup TextIds(ctx'.steering) \cup TextIds(ctx'.follow)
            \cup TextIds(steering') \cup TextIds(follow') = (1..sent') \ hist'.gone
  BY <1>1, <1>5, <1>7, <1>8, <1>9
<1>11. TextIds(messages') \subseteq 1..sent' /\ hist'.gone \subseteq 1..sent'
  <2>1. 1..sent \subseteq 1..(sent + 1)
    BY <1>8
  <2> QED
    BY <1>1, <1>8, <2>1
<1>12. TextsInv'
  BY <1>1, <1>5, <1>6, <1>10, <1>11 DEF TextsInv
<1>13. SteeringInv'
  <2>1. hist.known \in Nat /\ hist.known <= sent
    BY <1>0, TurnParts DEF SteeringInv
  <2>2. hist.known <= sent + 1 /\ sent + 1 > hist.known
    BY <1>8, <2>1
  <2> QED
    BY <1>1, <1>5, <1>7, <2>2 DEF SteeringInv
<1> QED
  BY <1>12, <1>13

LEMMA TextsFollowUp ==
    ASSUME StreamInv, StreamInv', AnsweredInv, TextsInv, SteeringInv, FollowUp
    PROVE  TextsInv' /\ SteeringInv'
<1>0. TurnType /\ ContextKept /\ CallsKept /\ TurnType'
  BY DEF StreamInv
<1> DEFINE u == Append(follow, Text("follow", sent + 1))
<1>1. /\ follow' = u /\ sent' = sent + 1
      /\ UNCHANGED <<config, messages, steering, pc, ctx, hist>>
  BY DEF FollowUp
<1>2. sent + 1 \in Nat /\ <<>> \in Seqs
  BY <1>0, TurnParts, EmptyTexts
<1>3. Kept(messages, <<>>, <<>>, steering, follow) /\ Kept(ctx.messages, ctx.steering, ctx.follow, steering, follow)
  BY DEF TextsInv
<1>5. /\ u \in Seqs /\ TextIds(u) = TextIds(follow) \cup {sent + 1}
      /\ Kept(messages, <<>>, <<>>, steering, u)
  BY <1>0, <1>2, <1>3, TurnParts, TextsBounds, KeptFollow
<1>6. Kept(ctx.messages, ctx.steering, ctx.follow, steering, u)
  BY <1>0, <1>2, <1>3, TurnParts, TextsBounds, KeptFollow
<1> HIDE DEF u
<1>7. Conversation' = Conversation /\ InContext' = InContext
  BY <1>1 DEF Conversation, InContext
<1>8. /\ TextIds(Conversation) \cup TextIds(ctx.steering) \cup TextIds(ctx.follow)
           \cup TextIds(steering) \cup TextIds(follow) = (1..sent) \ hist.gone
      /\ TextIds(messages) \subseteq 1..sent /\ hist.gone \subseteq 1..sent /\ sent \in Nat
  BY TextsBounds
<1>9. (1..(sent + 1)) \ hist.gone = ((1..sent) \ hist.gone) \cup {sent + 1}
  <2>1. 1..(sent + 1) = (1..sent) \cup {sent + 1} /\ sent + 1 \notin 1..sent
    BY <1>8
  <2> QED
    BY <1>8, <2>1
<1>10. /\ TextIds(Conversation') \cup TextIds(ctx'.steering) \cup TextIds(ctx'.follow)
            \cup TextIds(steering') \cup TextIds(follow') = (1..sent') \ hist'.gone
  BY <1>1, <1>5, <1>7, <1>8, <1>9
<1>11. TextIds(messages') \subseteq 1..sent' /\ hist'.gone \subseteq 1..sent'
  <2>1. 1..sent \subseteq 1..(sent + 1)
    BY <1>8
  <2> QED
    BY <1>1, <1>8, <2>1
<1>12. TextsInv'
  BY <1>1, <1>5, <1>6, <1>10, <1>11 DEF TextsInv
<1>13. SteeringInv'
  <2>1. hist.known \in Nat /\ hist.known <= sent
    BY <1>0, TurnParts DEF SteeringInv
  <2>2. hist.known <= sent + 1 /\ sent + 1 > hist.known
    BY <1>8, <2>1
  <2> QED
    BY <1>1, <1>5, <1>7, <2>2 DEF SteeringInv
<1> QED
  BY <1>12, <1>13

LEMMA TextsClearQueues ==
    ASSUME StreamInv, StreamInv', AnsweredInv, TextsInv, SteeringInv, NEW clearSteering \in BOOLEAN, NEW clearFollow \in BOOLEAN,
           ClearQueues(clearSteering, clearFollow)
    PROVE  TextsInv' /\ SteeringInv'
<1>0. TurnType /\ ContextKept /\ CallsKept /\ TurnType'
  BY DEF StreamInv
<1>1. /\ steering' \in {<<>>, steering} /\ follow' \in {<<>>, follow}
      /\ UNCHANGED <<config, messages, pc, ctx, sent>>
  BY DEF ClearQueues
<1>2. /\ hist'.gone = hist.gone \cup (TextIds(steering \o follow) \ TextIds(steering' \o follow'))
      /\ hist'.known = hist.known
  BY <1>0, FlatType DEF ClearQueues, Hists
<1>3. Kept(messages, <<>>, <<>>, steering, follow) /\ Kept(ctx.messages, ctx.steering, ctx.follow, steering, follow)
  BY DEF TextsInv
<1>4. <<>> \in Seqs /\ steering' \in Seqs /\ follow' \in Seqs /\ TextIds(<<>>) = {}
  BY <1>0, <1>1, TurnParts, EmptyTexts
<1>5. Kept(messages, <<>>, <<>>, steering', follow')
  <2>1. /\ Kept(messages, <<>>, <<>>, <<>>, follow) /\ Kept(messages, <<>>, <<>>, steering, <<>>)
        /\ Kept(messages, <<>>, <<>>, <<>>, <<>>)
    BY <1>0, <1>3, <1>4, TurnParts, KeptClear
  <2> QED
    BY <1>1, <1>3, <2>1
<1>6. Kept(ctx.messages, ctx.steering, ctx.follow, steering', follow')
  <2>1. /\ Kept(ctx.messages, ctx.steering, ctx.follow, <<>>, follow) /\ Kept(ctx.messages, ctx.steering, ctx.follow, steering, <<>>)
        /\ Kept(ctx.messages, ctx.steering, ctx.follow, <<>>, <<>>)
    BY <1>0, <1>3, <1>4, TurnParts, KeptClear
  <2> QED
    BY <1>1, <1>3, <2>1
<1>7. Conversation' = Conversation /\ InContext' = InContext
  BY <1>1 DEF Conversation, InContext
<1>8. /\ TextIds(steering \o follow) = TextIds(steering) \cup TextIds(follow)
      /\ TextIds(steering' \o follow') = TextIds(steering') \cup TextIds(follow')
      /\ TextIds(steering') \subseteq TextIds(steering) /\ TextIds(follow') \subseteq TextIds(follow)
  BY <1>0, <1>1, <1>4, TurnParts, TextsConcat
<1>9. TextIds(Conversation) \subseteq TextIds(messages) \cup TextIds(ctx.messages)
  BY DEF Conversation
<1>10. /\ TextIds(Conversation) \cap (TextIds(steering) \cup TextIds(follow)) = {}
       /\ TextIds(ctx.steering) \cap (TextIds(steering) \cup TextIds(follow)) = {}
       /\ TextIds(ctx.follow) \cap (TextIds(steering) \cup TextIds(follow)) = {}
  BY <1>3, <1>9 DEF Kept
<1>11. /\ TextIds(Conversation) \cup TextIds(ctx.steering) \cup TextIds(ctx.follow)
            \cup TextIds(steering) \cup TextIds(follow) = (1..sent) \ hist.gone
       /\ TextIds(messages) \subseteq 1..sent /\ hist.gone \subseteq 1..sent
  BY TextsBounds
<1>12. /\ TextIds(Conversation) \cup TextIds(ctx.steering) \cup TextIds(ctx.follow)
            \cup TextIds(steering') \cup TextIds(follow') = (1..sent) \ hist'.gone
       /\ hist'.gone \subseteq 1..sent
  BY <1>2, <1>8, <1>10, <1>11
<1>13. TextsInv'
  BY <1>1, <1>5, <1>6, <1>7, <1>11, <1>12 DEF TextsInv
<1>14. SteeringInv'
  BY <1>1, <1>2, <1>7, <1>8 DEF SteeringInv
<1> QED
  BY <1>13, <1>14

LEMMA TextsPrompt ==
    ASSUME StreamInv, StreamInv', AnsweredInv, TextsInv, SteeringInv, Prompt
    PROVE  TextsInv' /\ SteeringInv'
<1>0. TurnType /\ ContextKept /\ CallsKept /\ TurnType'
  BY DEF StreamInv
<1> DEFINE u == Append(messages, Text("prompt", sent + 1))
<1>1. /\ messages' = u /\ sent' = sent + 1 /\ pc = "idle" /\ pc' = "turn"
      /\ UNCHANGED <<config, steering, follow, ctx, hist>>
  BY <1>0, FlatType DEF Prompt, StartRun
<1>2. sent + 1 \in Nat /\ <<>> \in Seqs
  BY <1>0, TurnParts, EmptyTexts
<1>3. Kept(messages, <<>>, <<>>, steering, follow) /\ Kept(ctx.messages, ctx.steering, ctx.follow, steering, follow)
  BY DEF TextsInv
<1>5. /\ u \in Seqs /\ TextIds(u) = TextIds(messages) \cup {sent + 1}
      /\ Kept(u, <<>>, <<>>, steering, follow)
  BY <1>0, <1>2, <1>3, TurnParts, TextsBounds, KeptPrompt
<1> HIDE DEF u
<1>7. Conversation' = messages' /\ Conversation = messages /\ ~InContext' /\ ~InContext
  BY <1>1 DEF Conversation, InContext
<1>8. /\ TextIds(Conversation) \cup TextIds(ctx.steering) \cup TextIds(ctx.follow)
           \cup TextIds(steering) \cup TextIds(follow) = (1..sent) \ hist.gone
      /\ TextIds(messages) \subseteq 1..sent /\ hist.gone \subseteq 1..sent /\ sent \in Nat
  BY TextsBounds
<1>9. 1..(sent + 1) = (1..sent) \cup {sent + 1} /\ sent + 1 \notin 1..sent
  BY <1>8
<1>10. /\ TextIds(Conversation') \cup TextIds(ctx'.steering) \cup TextIds(ctx'.follow)
            \cup TextIds(steering') \cup TextIds(follow') = (1..sent') \ hist'.gone
  BY <1>1, <1>5, <1>7, <1>8, <1>9
<1>11. TextIds(messages') \subseteq 1..sent' /\ hist'.gone \subseteq 1..sent'
  BY <1>1, <1>5, <1>8, <1>9
<1>12. TextsInv'
  BY <1>1, <1>3, <1>5, <1>10, <1>11 DEF TextsInv
<1>13. SteeringInv'
  <2>1. hist.known \in Nat /\ hist.known <= sent
    BY <1>0, TurnParts DEF SteeringInv
  <2>2. hist.known <= sent + 1
    BY <1>8, <2>1
  <2> QED
    BY <1>1, <1>7, <2>2 DEF SteeringInv, Drained
<1> QED
  BY <1>12, <1>13

LEMMA TextsRun ==
    ASSUME StreamInv, StreamInv', AnsweredInv, TextsInv, SteeringInv, Run
    PROVE  TextsInv' /\ SteeringInv'
<1>0. TurnType /\ ContextKept /\ CallsKept /\ TurnType'
  BY DEF StreamInv
<1>1. /\ pc = "idle" /\ pc' = "turn"
      /\ UNCHANGED <<config, messages, sent, steering, follow, ctx, hist>>
  BY <1>0, FlatType DEF Run, StartRun
<1>2. InContext' = InContext /\ pc' \notin Drained
  BY <1>1 DEF InContext, Drained
<1> QED
  BY <1>1, <1>2, TextsSame

LEMMA TextsDropStream ==
    ASSUME StreamInv, StreamInv', AnsweredInv, TextsInv, SteeringInv, DropStream
    PROVE  TextsInv' /\ SteeringInv'
<1>0. TurnType /\ ContextKept /\ CallsKept /\ TurnType'
  BY DEF StreamInv
<1>1. /\ pc' = "idle" /\ ctx' = NoContext
      /\ UNCHANGED <<config, messages, sent, steering, follow>>
  BY DEF DropStream, EndRun
<1>2. /\ hist'.gone = (hist.gone \cup TextIds(ctx.messages \o ctx.steering \o ctx.follow)) \ TextIds(messages)
      /\ hist'.known = hist.known
  BY <1>0, FlatType DEF DropStream, Hists
<1>3. TextIds(ctx.messages \o ctx.steering \o ctx.follow)
          = TextIds(ctx.messages) \cup TextIds(ctx.steering) \cup TextIds(ctx.follow)
  <2>1. ctx.messages \in Seqs /\ ctx.steering \in Seqs /\ ctx.follow \in Seqs
    BY <1>0, TurnParts
  <2>2. ctx.messages \o ctx.steering \in Seqs
    BY <2>1, ConcatPlaces
  <2>3. TextIds(ctx.messages \o ctx.steering) = TextIds(ctx.messages) \cup TextIds(ctx.steering)
    BY <2>1, TextsConcat
  <2>4. TextIds(ctx.messages \o ctx.steering \o ctx.follow)
            = TextIds(ctx.messages \o ctx.steering) \cup TextIds(ctx.follow)
    BY <2>1, <2>2, TextsConcat
  <2> QED
    BY <2>3, <2>4
<1>4. /\ Kept(messages, <<>>, <<>>, steering, follow) /\ Kept(ctx.messages, ctx.steering, ctx.follow, steering, follow)
      /\ <<>> \in Seqs
  BY EmptyTexts DEF TextsInv
<1>5. /\ NoContext.messages = <<>> /\ NoContext.steering = <<>> /\ NoContext.follow = <<>>
      /\ Kept(<<>>, <<>>, <<>>, steering, follow)
  BY <1>0, <1>4, TurnParts, KeptClear DEF NoContext
<1>6. Conversation' = messages /\ ~InContext' /\ pc' \notin Drained
  BY <1>1 DEF Conversation, InContext, Drained
<1>7. /\ TextIds(Conversation) \cup TextIds(ctx.steering) \cup TextIds(ctx.follow)
           \cup TextIds(steering) \cup TextIds(follow) = (1..sent) \ hist.gone
      /\ TextIds(messages) \subseteq 1..sent /\ hist.gone \subseteq 1..sent /\ TextIds(<<>>) = {}
  BY TextsBounds
<1>8. /\ TextIds(messages) \cap (TextIds(steering) \cup TextIds(follow)) = {}
      /\ (TextIds(ctx.messages) \cup TextIds(ctx.steering) \cup TextIds(ctx.follow))
            \cap (TextIds(steering) \cup TextIds(follow)) = {}
  BY <1>4 DEF Kept
<1>9. TextIds(Conversation) = TextIds(ctx.messages) \/ TextIds(Conversation) = TextIds(messages)
  BY DEF Conversation
<1>10. TextIds(ctx.messages) \subseteq TextIds(Conversation)
  BY <1>7, TextsIdle, TextsBusy
<1>11. /\ TextIds(messages) \cup TextIds(steering) \cup TextIds(follow) = (1..sent) \ hist'.gone
       /\ hist'.gone \subseteq 1..sent
  BY <1>2, <1>3, <1>7, <1>8, <1>9, <1>10
<1>12. TextsInv'
  BY <1>1, <1>4, <1>5, <1>6, <1>7, <1>11 DEF TextsInv
<1>13. SteeringInv'
  BY <1>1, <1>2, <1>6 DEF SteeringInv
<1> QED
  BY <1>12, <1>13

LEMMA QuietContext ==
    ASSUME TurnType, TextsInv, NEW t \in Seqs, Plain(t)
    PROVE  /\ Kept(ctx.messages \o t, ctx.steering, ctx.follow, steering, follow)
           /\ TextIds(ctx.messages \o t) = TextIds(ctx.messages)
<1>1. /\ ctx.messages \in Seqs /\ ctx.steering \in Seqs /\ ctx.follow \in Seqs
      /\ steering \in Seqs /\ follow \in Seqs
  BY TurnParts
<1>2. Kept(ctx.messages, ctx.steering, ctx.follow, steering, follow)
  BY DEF TextsInv
<1> QED
  <2>1. \A c, cs, cf, q, f \in Seqs : Kept(c, cs, cf, q, f) => Kept(c \o t, cs, cf, q, f) /\ TextIds(c \o t) = TextIds(c)
    BY KeptQuiet
  <2> QED
    BY <1>1, <1>2, <2>1

(* The kept part of a context, and what its summary stands for.               *)
LEMMA CompactedTexts ==
    ASSUME NEW ms \in Seqs, Split(ms).old # <<>>
    PROVE  /\ Compacted(ms) \in Seqs /\ Thins(Compacted(ms), ms)
           /\ TextIds(ms) = TextIds(Split(ms).old) \cup TextIds(Compacted(ms))
           /\ Apart(ms) => TextIds(Split(ms).old) \cap TextIds(Compacted(ms)) = {}
<1> DEFINE d == Compacted(ms)
           old == Split(ms).old
           n == Len(ms)
<1>1. PICK a \in Nat, b \in Nat :
          /\ Cut(ms, a, b) /\ old = SubSeq(ms, 1, a)
          /\ d \in Seqs /\ Len(d) = b - a + 1 /\ d[1] = Summary
          /\ \A i \in 1..(b - a) : a + i \in 1..n /\ d[i + 1] = [ms[a + i] EXCEPT !.usage = 0]
  <2>1. \E a, b \in Nat :
              /\ Cut(ms, a, b) /\ Split(ms).old = SubSeq(ms, 1, a)
              /\ Compacted(ms) \in Seqs /\ Len(Compacted(ms)) = b - a + 1
              /\ Compacted(ms)[1] = Summary
              /\ \A i \in 1..(b - a) :
                    /\ a + i \in 1..Len(ms)
                    /\ Compacted(ms)[i + 1] = [ms[a + i] EXCEPT !.usage = 0]
    BY CompactedFacts
  <2> QED
    BY <2>1
<1>2. n \in Nat /\ \A i \in 1..n : ms[i] \in MessageSet
  BY LenProperties, ElementOfSeq DEF Seqs
<1>3. a <= b /\ b <= n /\ \A i \in (b + 1)..n : ms[i].kind = "result"
  BY <1>1, <1>2 DEF Cut
<1>4. old \in Seqs /\ Len(old) = a /\ \A i \in 1..a : i \in 1..n /\ old[i] = ms[i]
  <2>1. old = SubSeq(ms, 1, a)
    BY <1>1
  <2>2. a <= n /\ \A i \in 1..a : i \in 1..n /\ 1 + i - 1 = i
    BY <1>2, <1>3
  <2>3. /\ SubSeq(ms, 1, a) \in Seq(MessageSet) /\ Len(SubSeq(ms, 1, a)) = a
        /\ \A i \in 1..a : SubSeq(ms, 1, a)[i] = ms[i]
    BY <1>2, <2>2, SubSeqProperties DEF Seqs
  <2> QED
    BY <2>1, <2>2, <2>3 DEF Seqs
<1>5. \A i \in 1..(b - a) :
          /\ d[i + 1].kind = ms[a + i].kind /\ d[i + 1].id = ms[a + i].id /\ a + i \in 1..n
          /\ i + 1 \in 1..(b - a + 1)
  <2>1. ASSUME NEW i \in 1..(b - a)
        PROVE  d[i + 1].kind = ms[a + i].kind /\ d[i + 1].id = ms[a + i].id /\ a + i \in 1..n
    <3>1. ms[a + i] \in MessageSet /\ d[i + 1] = [ms[a + i] EXCEPT !.usage = 0] /\ a + i \in 1..n
      BY <1>1, <1>2
    <3> QED
      BY <3>1 DEF MessageSet
  <2>2. \A i \in 1..(b - a) : i + 1 \in 1..(b - a + 1)
    BY <1>3
  <2> QED
    BY <2>1, <2>2
<1>6. ~IsText(d[1])
  BY <1>1 DEF Summary, Message, IsText
<1>7. d \in Seqs /\ Len(d) = b - a + 1
  BY <1>1
<1> HIDE DEF d, old, n
<1>8. ASSUME NEW i \in 1..(b - a + 1), IsText(d[i])
      PROVE  /\ i + a - 1 \in 1..n /\ i + a - 1 > a
             /\ ms[i + a - 1].kind = d[i].kind /\ ms[i + a - 1].id = d[i].id
  <2>1. i # 1
    BY <1>6, <1>8
  <2>2. i - 1 \in 1..(b - a) /\ i - 1 + 1 = i /\ a + (i - 1) = i + a - 1 /\ i + a - 1 > a
    BY <1>3, <2>1
  <2> QED
    BY <1>5, <2>2
<1>9. Thins(d, ms)
  BY <1>7, <1>8 DEF Thins, n
<1>10. /\ \A x : x \in TextIds(ms) <=> \E i \in 1..n : IsText(ms[i]) /\ ms[i].id = x
       /\ \A x : x \in TextIds(d) <=> \E i \in 1..(b - a + 1) : IsText(d[i]) /\ d[i].id = x
       /\ \A x : x \in TextIds(old) <=> \E i \in 1..a : IsText(old[i]) /\ old[i].id = x
  <2>1. /\ \A x : x \in TextIds(ms) <=> \E i \in 1..n : IsText(ms[i]) /\ ms[i].id = x
    BY TextPlaces DEF n
  <2>2. /\ \A x : x \in TextIds(d) <=> \E i \in 1..Len(d) : IsText(d[i]) /\ d[i].id = x
        /\ \A x : x \in TextIds(old) <=> \E i \in 1..Len(old) : IsText(old[i]) /\ old[i].id = x
    BY <1>4, <1>7, TextPlaces
  <2> QED
    BY <1>4, <1>7, <2>1, <2>2
<1>11. TextIds(old) \subseteq TextIds(ms)
  BY <1>4, <1>10
<1>12. TextIds(d) \subseteq TextIds(ms)
  BY <1>7, <1>9, ThinFacts
<1>13. ASSUME NEW x \in TextIds(ms) PROVE x \in TextIds(old) \/ x \in TextIds(d)
  <2>1. PICK i \in 1..n : IsText(ms[i]) /\ ms[i].id = x
    BY <1>10
  <2>2. CASE i <= a
    <3>1. i \in 1..a
      BY <1>2, <2>2
    <3> QED
      BY <1>4, <1>10, <2>1, <3>1
  <2>3. CASE i > b
    <3>1. i \in (b + 1)..n
      BY <1>2, <2>3
    <3> QED
      BY <1>3, <2>1, <3>1 DEF IsText, n
  <2>4. CASE i > a /\ i <= b
    <3>1. i - a \in 1..(b - a) /\ a + (i - a) = i
      BY <1>2, <2>4
    <3>2. d[i - a + 1].kind = ms[i].kind /\ d[i - a + 1].id = ms[i].id /\ i - a + 1 \in 1..(b - a + 1)
      BY <1>5, <3>1
    <3>3. IsText(d[i - a + 1])
      BY <2>1, <3>2 DEF IsText
    <3> QED
      BY <1>10, <2>1, <3>2, <3>3
  <2> QED
    BY <1>2, <2>2, <2>3, <2>4
<1>14. ASSUME Apart(ms), NEW x \in TextIds(old) \cap TextIds(d) PROVE FALSE
  <2>1. PICK i \in 1..a : IsText(ms[i]) /\ ms[i].id = x /\ i \in 1..n
    BY <1>4, <1>10, <1>14
  <2>2. PICK j \in 1..(b - a + 1) : IsText(d[j]) /\ d[j].id = x
    BY <1>10, <1>14
  <2>3. /\ j + a - 1 \in 1..n /\ j + a - 1 > a
        /\ ms[j + a - 1].kind = d[j].kind /\ ms[j + a - 1].id = d[j].id
    BY <1>8, <2>2
  <2>4. IsText(ms[j + a - 1])
    BY <2>2, <2>3 DEF IsText
  <2>5. i = j + a - 1
    BY <1>14, <2>1, <2>2, <2>3, <2>4 DEF Apart, n
  <2> QED
    BY <2>3, <2>5
<1>15. TextIds(ms) = TextIds(old) \cup TextIds(d) /\ (Apart(ms) => TextIds(old) \cap TextIds(d) = {})
  BY <1>11, <1>12, <1>13, <1>14
<1> QED
  BY <1>7, <1>9, <1>15 DEF d, old

LEMMA TextsBeginTurn ==
    ASSUME StreamInv, StreamInv', AnsweredInv, TextsInv, SteeringInv, BeginTurn
    PROVE  TextsInv' /\ SteeringInv'
<1>0. TurnType /\ ContextKept /\ CallsKept /\ TurnType'
  BY DEF StreamInv
<1>1. /\ pc = "turn" /\ pc' = "flow" /\ steering' = <<>> /\ follow' = <<>>
      /\ ctx'.messages = messages /\ ctx'.steering = steering /\ ctx'.follow = follow
      /\ UNCHANGED <<config, messages, sent>>
  BY DEF BeginTurn, NoContext, counters
<1>2. hist'.gone = hist.gone /\ hist'.known = sent
  BY <1>0, FlatType DEF BeginTurn, Hists
<1>3. /\ Kept(messages, <<>>, <<>>, steering, follow)
      /\ Kept(ctx.messages, ctx.steering, ctx.follow, steering, follow) /\ <<>> \in Seqs
  BY EmptyTexts DEF TextsInv
<1>4. Kept(messages, <<>>, <<>>, <<>>, <<>>)
  BY <1>0, <1>3, TurnParts, KeptClear
<1>5. Kept(messages, steering, follow, <<>>, <<>>)
  <2>1. Kept(messages, <<>> \o steering, <<>> \o follow, <<>>, <<>>)
    BY <1>0, <1>3, TurnParts, KeptSync
  <2>2. <<>> \o steering = steering /\ <<>> \o follow = follow
    BY <1>0, TurnParts, ConcatEmptySeq DEF Seqs
  <2> QED
    BY <2>1, <2>2
<1>6. Conversation' = messages /\ Conversation = messages /\ ctx.steering = <<>> /\ ctx.follow = <<>>
  <2>1. ~InContext
    BY <1>1 DEF InContext
  <2> QED
    BY <1>1, <2>1, TextsIdle DEF Conversation
<1>7. /\ TextIds(Conversation) \cup TextIds(ctx.steering) \cup TextIds(ctx.follow)
           \cup TextIds(steering) \cup TextIds(follow) = (1..sent) \ hist.gone
      /\ TextIds(messages) \subseteq 1..sent /\ hist.gone \subseteq 1..sent /\ TextIds(<<>>) = {} /\ sent \in Nat
  BY TextsBounds
<1>8. TextsInv'
  BY <1>1, <1>2, <1>4, <1>5, <1>6, <1>7 DEF TextsInv
<1>9. SteeringInv'
  BY <1>1, <1>2, <1>7 DEF SteeringInv, Drained
<1> QED
  BY <1>8, <1>9

LEMMA TextsDrainQueuedInput ==
    ASSUME StreamInv, StreamInv', AnsweredInv, TextsInv, SteeringInv, DrainQueuedInput
    PROVE  TextsInv' /\ SteeringInv'
<1>0. TurnType /\ ContextKept /\ CallsKept /\ TurnType'
  BY DEF StreamInv
<1>1. /\ pc = "drain_queued_input" /\ pc' = "maybe_compact_runtime_context"
      /\ steering' = <<>> /\ follow' = <<>> /\ UNCHANGED <<config, messages, sent, hist>>
  BY LeaveFacts DEF DrainQueuedInput, At, counters
<1>3. /\ Kept(messages, <<>>, <<>>, steering, follow)
      /\ Kept(ctx.messages, ctx.steering, ctx.follow, steering, follow) /\ <<>> \in Seqs
  BY EmptyTexts DEF TextsInv
<1>4. Kept(messages, <<>>, <<>>, <<>>, <<>>)
  BY <1>0, <1>3, TurnParts, KeptClear
<1> DEFINE qs == ctx.steering \o steering
           qf == ctx.follow \o follow
<1>5. Kept(ctx.messages, qs, qf, <<>>, <<>>)
  BY <1>0, <1>3, TurnParts, KeptSync
<1>6. /\ qs \in Seqs /\ TextIds(qs) = TextIds(ctx.steering) \cup TextIds(steering)
      /\ qf \in Seqs /\ TextIds(qf) = TextIds(ctx.follow) \cup TextIds(follow)
  BY <1>0, TurnParts, ConcatPlaces, TextsConcat
<1> DEFINE taken == Taken(qs, config.steer)
           left == Left(qs, config.steer)
<1>2. ctx'.messages = ctx.messages \o taken /\ ctx'.steering = left /\ ctx'.follow = qf
  <2> DEFINE synced == SyncLiveQueues
  <2>1. /\ synced \in Contexts /\ synced.messages = ctx.messages /\ synced.steering = qs /\ synced.follow = qf
    BY <1>0, SyncFacts
  <2>2. ctx' = [synced EXCEPT !.messages = @ \o Taken(synced.steering, config.steer),
                              !.steering = Left(@, config.steer)]
    BY DEF DrainQueuedInput
  <2> HIDE DEF synced, qs, qf
  <2> QED
    BY <2>1, <2>2 DEF Contexts
<1> HIDE DEF qs, qf
<1>7. taken \in Seqs /\ left \in Seqs /\ qs = taken \o left
  BY <1>6, DrainFacts
<1>8. config.steer = "all" => left = <<>>
  BY DEF Left
<1> HIDE DEF taken, left
<1>9. Kept(ctx.messages, taken \o left, qf, <<>>, <<>>)
  BY <1>5, <1>7
<1>10. Kept(ctx.messages \o taken, left, qf, <<>>, <<>>)
  BY <1>0, <1>3, <1>6, <1>7, <1>9, TurnParts, KeptTakeSteering
<1>11. /\ TextIds(ctx.messages \o taken) = TextIds(ctx.messages) \cup TextIds(taken)
       /\ TextIds(qs) = TextIds(taken) \cup TextIds(left)
  BY <1>0, <1>7, TurnParts, TextsConcat
<1>12. Conversation = ctx.messages /\ Conversation' = ctx.messages \o taken
  BY <1>1, <1>2 DEF Conversation
<1>13. /\ TextIds(Conversation) \cup TextIds(ctx.steering) \cup TextIds(ctx.follow)
           \cup TextIds(steering) \cup TextIds(follow) = (1..sent) \ hist.gone
      /\ TextIds(messages) \subseteq 1..sent /\ hist.gone \subseteq 1..sent /\ TextIds(<<>>) = {} /\ sent \in Nat
  BY TextsBounds
<1>14. TextIds(Conversation') \cup TextIds(left) \cup TextIds(qf) = (1..sent) \ hist.gone
  BY <1>6, <1>11, <1>12, <1>13
<1>15. TextsInv'
  BY <1>1, <1>2, <1>4, <1>10, <1>13, <1>14 DEF TextsInv
<1>16. SteeringInv'
  BY <1>1, <1>2, <1>8, <1>13 DEF SteeringInv
<1> QED
  BY <1>15, <1>16

LEMMA TextsMaybePrepareNextTurn ==
    ASSUME StreamInv, StreamInv', AnsweredInv, TextsInv, SteeringInv, NEW hook, MaybePrepareNextTurn(hook)
    PROVE  TextsInv' /\ SteeringInv'
<1>0. TurnType /\ ContextKept /\ CallsKept /\ TurnType'
  BY DEF StreamInv
<1>1. /\ pc = "maybe_prepare_next_turn" /\ pc' = "apply"
      /\ steering' = <<>> /\ follow' = <<>> /\ UNCHANGED <<config, messages, sent, hist>>
  BY LeaveFacts DEF MaybePrepareNextTurn, At, counters
<1>3. /\ Kept(messages, <<>>, <<>>, steering, follow)
      /\ Kept(ctx.messages, ctx.steering, ctx.follow, steering, follow) /\ <<>> \in Seqs
  BY EmptyTexts DEF TextsInv
<1>4. Kept(messages, <<>>, <<>>, <<>>, <<>>)
  BY <1>0, <1>3, TurnParts, KeptClear
<1> DEFINE qs == ctx.steering \o steering
           qf == ctx.follow \o follow
<1>5. Kept(ctx.messages, qs, qf, <<>>, <<>>)
  BY <1>0, <1>3, TurnParts, KeptSync
<1>6. /\ qs \in Seqs /\ TextIds(qs) = TextIds(ctx.steering) \cup TextIds(steering)
      /\ qf \in Seqs /\ TextIds(qf) = TextIds(ctx.follow) \cup TextIds(follow)
  BY <1>0, TurnParts, ConcatPlaces, TextsConcat
<1> DEFINE taken == Taken(qf, config.follow)
           left == Left(qf, config.follow)
<1>2. /\ ctx'.steering = qs
      /\ \/ ctx'.messages = ctx.messages /\ ctx'.follow = qf
         \/ ctx'.messages = ctx.messages \o taken /\ ctx'.follow = left
  <2> DEFINE synced == SyncLiveQueues
  <2>1. /\ synced \in Contexts /\ synced.messages = ctx.messages /\ synced.steering = qs /\ synced.follow = qf
    BY <1>0, SyncFacts
  <2>2. \/ ctx' = synced
        \/ ctx' = [synced EXCEPT !.messages = @ \o Taken(synced.follow, config.follow),
                                 !.follow = Left(@, config.follow)]
    BY DEF MaybePrepareNextTurn
  <2> HIDE DEF synced, qs, qf
  <2>3. CASE ctx' = synced
    BY <2>1, <2>3
  <2>4. CASE ctx' = [synced EXCEPT !.messages = @ \o Taken(synced.follow, config.follow),
                                   !.follow = Left(@, config.follow)]
    BY <2>1, <2>4 DEF Contexts
  <2> QED
    BY <2>2, <2>3, <2>4
<1> HIDE DEF qs, qf
<1>7. taken \in Seqs /\ left \in Seqs /\ qf = taken \o left
  BY <1>6, DrainFacts
<1> HIDE DEF taken, left
<1>9. Kept(ctx.messages, qs, taken \o left, <<>>, <<>>)
  BY <1>5, <1>7
<1>10. Kept(ctx.messages \o taken, qs, left, <<>>, <<>>)
  BY <1>0, <1>3, <1>6, <1>7, <1>9, TurnParts, KeptTakeFollow
<1>11. /\ TextIds(ctx.messages \o taken) = TextIds(ctx.messages) \cup TextIds(taken)
       /\ TextIds(qf) = TextIds(taken) \cup TextIds(left)
  BY <1>0, <1>7, TurnParts, TextsConcat
<1>12. Conversation = ctx.messages /\ Conversation' = ctx'.messages
  BY <1>1 DEF Conversation
<1>13. /\ TextIds(Conversation) \cup TextIds(ctx.steering) \cup TextIds(ctx.follow)
           \cup TextIds(steering) \cup TextIds(follow) = (1..sent) \ hist.gone
      /\ TextIds(messages) \subseteq 1..sent /\ hist.gone \subseteq 1..sent /\ TextIds(<<>>) = {} /\ sent \in Nat
  BY TextsBounds
<1>14. /\ TextIds(Conversation') \cup TextIds(qs) \cup TextIds(ctx'.follow) = (1..sent) \ hist.gone
       /\ Kept(ctx'.messages, qs, ctx'.follow, <<>>, <<>>)
  <2>1. CASE ctx'.messages = ctx.messages /\ ctx'.follow = qf
    BY <1>5, <1>6, <1>12, <1>13, <2>1
  <2>2. CASE ctx'.messages = ctx.messages \o taken /\ ctx'.follow = left
    BY <1>6, <1>10, <1>11, <1>12, <1>13, <2>2
  <2> QED
    BY <1>2, <2>1, <2>2
<1>15. TextsInv'
  BY <1>1, <1>2, <1>4, <1>13, <1>14 DEF TextsInv
<1>16. SteeringInv'
  BY <1>1, <1>13 DEF SteeringInv, Drained
<1> QED
  BY <1>15, <1>16

LEMMA TextsCompactContext ==
    ASSUME StreamInv, StreamInv', AnsweredInv, TextsInv, SteeringInv, CompactContext
    PROVE  TextsInv' /\ SteeringInv'
<1>0. TurnType /\ ContextKept /\ CallsKept /\ TurnType'
  BY DEF StreamInv
<1> DEFINE ms == ctx.messages
           d == Compacted(ms)
           old == Split(ms).old
<1>1. /\ pc = "maybe_compact_runtime_context" /\ pc' = "prepare_provider_request" /\ old # <<>>
      /\ UNCHANGED <<config, messages, steering, follow, sent>>
  BY LeaveFacts DEF CompactContext, NeedsCompaction, At, shared, counters
<1>2. /\ ctx'.messages = d /\ ctx'.steering = ctx.steering /\ ctx'.follow = ctx.follow
      /\ hist'.gone = hist.gone \cup TextIds(old) /\ hist'.known = hist.known
  BY <1>0, FlatType DEF CompactContext, Contexts, Hists
<1>3. /\ Kept(messages, <<>>, <<>>, steering, follow)
      /\ Kept(ctx.messages, ctx.steering, ctx.follow, steering, follow) /\ <<>> \in Seqs
  BY EmptyTexts DEF TextsInv
<1>4. ms \in Seqs
  BY <1>0, TurnParts
<1>5. /\ d \in Seqs /\ Thins(d, ms) /\ TextIds(ms) = TextIds(old) \cup TextIds(d)
      /\ Apart(ms) => TextIds(old) \cap TextIds(d) = {}
  BY <1>1, <1>4, CompactedTexts
<1>6. Conversation = ms /\ Conversation' = d /\ InContext /\ InContext'
  BY <1>1, <1>2 DEF Conversation, InContext
<1> HIDE DEF ms, d, old
<1>7. Kept(ms, ctx.steering, ctx.follow, steering, follow)
  BY <1>3 DEF ms
<1>8. Kept(d, ctx.steering, ctx.follow, steering, follow)
  BY <1>0, <1>4, <1>5, <1>7, TurnParts, KeptThin
<1>9. /\ TextIds(Conversation) \cup TextIds(ctx.steering) \cup TextIds(ctx.follow)
           \cup TextIds(steering) \cup TextIds(follow) = (1..sent) \ hist.gone
      /\ TextIds(messages) \subseteq 1..sent /\ hist.gone \subseteq 1..sent /\ TextIds(<<>>) = {} /\ sent \in Nat
  BY TextsBounds
<1>10. /\ TextIds(d) \cup TextIds(ctx.steering) \cup TextIds(ctx.follow)
            \cup TextIds(steering) \cup TextIds(follow) = (1..sent) \ hist'.gone
       /\ hist'.gone \subseteq 1..sent
  <2>1. /\ TextIds(ms) \cap (TextIds(ctx.steering) \cup TextIds(ctx.follow)
               \cup TextIds(steering) \cup TextIds(follow)) = {}
        /\ Apart(ms)
    BY <1>7 DEF Kept
  <2> QED
    BY <1>2, <1>5, <1>6, <1>9, <2>1
<1>11. TextsInv'
  BY <1>1, <1>2, <1>3, <1>6, <1>8, <1>9, <1>10 DEF TextsInv
<1>12. SteeringInv'
  BY <1>1, <1>2, <1>6 DEF SteeringInv, Drained
<1> QED
  BY <1>11, <1>12

LEMMA TextsDecideAfterAssistant ==
    ASSUME StreamInv, StreamInv', AnsweredInv, TextsInv, SteeringInv, DecideAfterAssistant
    PROVE  TextsInv' /\ SteeringInv'
<1>0. TurnType /\ ContextKept /\ CallsKept /\ TurnType'
  BY DEF StreamInv
<1> DEFINE more == <<ctx.reply>>
<1>1. /\ pc = "decide_after_assistant" /\ pc' \notin Drained \cup {"idle", "turn"}
      /\ UNCHANGED <<config, messages, steering, follow, sent, hist>>
  BY <1>0, LeaveFacts DEF DecideAfterAssistant, Drained, At, shared, counters, ContextKept
<1>2. ctx'.messages = ctx.messages \o more /\ ctx'.steering = ctx.steering /\ ctx'.follow = ctx.follow
  <2>1. ctx'.messages = Append(ctx.messages, ctx.reply) /\ ctx'.steering = ctx.steering /\ ctx'.follow = ctx.follow
    BY <1>0, FlatType DEF DecideAfterAssistant, Contexts
  <2>2. Append(ctx.messages, ctx.reply) = ctx.messages \o more
    BY <1>0, TurnParts, AppendIsConcat DEF Seqs
  <2> QED
    BY <2>1, <2>2
<1>3. more \in Seqs /\ Plain(more)
  <2>1. ctx.reply \in MessageSet /\ ctx.reply.kind = "reply"
    BY <1>0, <1>1, TurnParts DEF AnsweredInv
  <2> QED
    BY <2>1 DEF Seqs, IsText, Plain
<1> HIDE DEF more
<1>4. Kept(messages, <<>>, <<>>, steering, follow) /\ Kept(ctx.messages, ctx.steering, ctx.follow, steering, follow)
  BY DEF TextsInv
<1>5. /\ Kept(ctx.messages \o more, ctx.steering, ctx.follow, steering, follow)
      /\ TextIds(ctx.messages \o more) = TextIds(ctx.messages)
  BY <1>0, <1>3, QuietContext
<1>6. Conversation = ctx.messages /\ Conversation' = ctx.messages \o more /\ InContext /\ InContext'
  BY <1>1, <1>2 DEF Conversation, InContext
<1>7. TextsInv'
  BY <1>1, <1>2, <1>4, <1>5, <1>6 DEF TextsInv
<1>8. SteeringInv'
  BY <1>1, <1>2, <1>6 DEF SteeringInv
<1> QED
  BY <1>7, <1>8

LEMMA TextsFinishTools ==
    ASSUME StreamInv, StreamInv', AnsweredInv, TextsInv, SteeringInv, FinishTools
    PROVE  TextsInv' /\ SteeringInv'
<1>0. TurnType /\ ContextKept /\ CallsKept /\ TurnType'
  BY DEF StreamInv
<1> DEFINE more == ResultMessages
<1>1. /\ pc = "execute_tools" /\ pc' \notin Drained \cup {"idle", "turn"}
      /\ UNCHANGED <<config, messages, steering, follow, sent, hist>>
  BY <1>0, LeaveFacts DEF FinishTools, Drained, At, shared, counters, ContextKept
<1>2. ctx'.messages = ctx.messages \o more /\ ctx'.steering = ctx.steering /\ ctx'.follow = ctx.follow
  BY <1>0, FlatType DEF FinishTools, Contexts
<1>3. more \in Seqs /\ Plain(more)
  <2>1. /\ more \in Seqs /\ Len(more) = ctx.reply.calls
        /\ \A i \in 1..ctx.reply.calls : more[i] = Result(ctx.reply.id, i)
    BY <1>0, <1>1, ResultsFacts DEF FinishTools
  <2> HIDE DEF more
  <2> QED
    BY <2>1, ResultsPlain
<1> HIDE DEF more
<1>4. Kept(messages, <<>>, <<>>, steering, follow) /\ Kept(ctx.messages, ctx.steering, ctx.follow, steering, follow)
  BY DEF TextsInv
<1>5. /\ Kept(ctx.messages \o more, ctx.steering, ctx.follow, steering, follow)
      /\ TextIds(ctx.messages \o more) = TextIds(ctx.messages)
  BY <1>0, <1>3, QuietContext
<1>6. Conversation = ctx.messages /\ Conversation' = ctx.messages \o more /\ InContext /\ InContext'
  BY <1>1, <1>2 DEF Conversation, InContext
<1>7. TextsInv'
  BY <1>1, <1>2, <1>4, <1>5, <1>6 DEF TextsInv
<1>8. SteeringInv'
  BY <1>1, <1>2, <1>6 DEF SteeringInv
<1> QED
  BY <1>7, <1>8

LEMMA TextsEndFlow ==
    ASSUME StreamInv, StreamInv', AnsweredInv, TextsInv, SteeringInv, EndFlow
    PROVE  TextsInv' /\ SteeringInv'
<1>0. TurnType /\ ContextKept /\ CallsKept /\ TurnType'
  BY DEF StreamInv
<1>1. /\ pc = "apply" /\ pc' \in {"idle", "turn"} /\ messages' = ctx.messages /\ ctx' = NoContext
      /\ steering' = ctx.steering \o steering /\ follow' = ctx.follow \o follow
      /\ UNCHANGED <<config, sent, hist>>
  BY DEF EndFlow, ApplyToState, EndRun, counters
<1>3. /\ Kept(messages, <<>>, <<>>, steering, follow)
      /\ Kept(ctx.messages, ctx.steering, ctx.follow, steering, follow) /\ <<>> \in Seqs
  BY EmptyTexts DEF TextsInv
<1> DEFINE qs == ctx.steering \o steering
           qf == ctx.follow \o follow
<1>5. Kept(ctx.messages, qs, qf, <<>>, <<>>)
  BY <1>0, <1>3, TurnParts, KeptSync
<1>6. /\ qs \in Seqs /\ TextIds(qs) = TextIds(ctx.steering) \cup TextIds(steering)
      /\ qf \in Seqs /\ TextIds(qf) = TextIds(ctx.follow) \cup TextIds(follow)
  BY <1>0, TurnParts, ConcatPlaces, TextsConcat
<1>2. NoContext.messages = <<>> /\ NoContext.steering = <<>> /\ NoContext.follow = <<>>
  BY DEF NoContext
<1> HIDE DEF qs, qf
<1>7. Kept(ctx.messages, <<>>, <<>>, qs, qf)
  BY <1>0, <1>5, <1>6, TurnParts, KeptReturn
<1>8. Kept(<<>>, <<>>, <<>>, qs, qf)
  BY <1>0, <1>3, <1>6, <1>7, TurnParts, KeptClear
<1>9. Conversation = ctx.messages /\ Conversation' = ctx.messages /\ ~InContext' /\ pc' \notin Drained
  BY <1>1 DEF Conversation, InContext, Drained
<1>10. /\ TextIds(Conversation) \cup TextIds(ctx.steering) \cup TextIds(ctx.follow)
           \cup TextIds(steering) \cup TextIds(follow) = (1..sent) \ hist.gone
      /\ TextIds(messages) \subseteq 1..sent /\ hist.gone \subseteq 1..sent /\ TextIds(<<>>) = {} /\ sent \in Nat
  BY TextsBounds
<1>11. TextIds(ctx.messages) \cup TextIds(qs) \cup TextIds(qf) = (1..sent) \ hist.gone
  BY <1>6, <1>9, <1>10
<1>12. steering' = qs /\ follow' = qf
  BY <1>1 DEF qs, qf
<1>13. TextIds(ctx.messages) \subseteq 1..sent
  BY <1>10, <1>11
<1>14. TextsInv'
  BY <1>1, <1>2, <1>7, <1>8, <1>9, <1>10, <1>11, <1>12, <1>13 DEF TextsInv
<1>15. SteeringInv'
  BY <1>1, <1>9 DEF SteeringInv
<1> QED
  BY <1>14, <1>15

LEMMA TextsFailFlow ==
    ASSUME StreamInv, StreamInv', AnsweredInv, TextsInv, SteeringInv, FailFlow
    PROVE  TextsInv' /\ SteeringInv'
<1>0. TurnType /\ ContextKept /\ CallsKept /\ TurnType'
  BY DEF StreamInv
<1>1. /\ pc = "failed" /\ pc' \in {"idle", "turn"} /\ messages' = ctx.messages /\ ctx' = NoContext
      /\ steering' = ctx.steering \o steering /\ follow' = ctx.follow \o follow
      /\ UNCHANGED <<config, sent, hist>>
  BY DEF FailFlow, ApplyToState, EndRun, counters
<1>3. /\ Kept(messages, <<>>, <<>>, steering, follow)
      /\ Kept(ctx.messages, ctx.steering, ctx.follow, steering, follow) /\ <<>> \in Seqs
  BY EmptyTexts DEF TextsInv
<1> DEFINE qs == ctx.steering \o steering
           qf == ctx.follow \o follow
<1>5. Kept(ctx.messages, qs, qf, <<>>, <<>>)
  BY <1>0, <1>3, TurnParts, KeptSync
<1>6. /\ qs \in Seqs /\ TextIds(qs) = TextIds(ctx.steering) \cup TextIds(steering)
      /\ qf \in Seqs /\ TextIds(qf) = TextIds(ctx.follow) \cup TextIds(follow)
  BY <1>0, TurnParts, ConcatPlaces, TextsConcat
<1>2. NoContext.messages = <<>> /\ NoContext.steering = <<>> /\ NoContext.follow = <<>>
  BY DEF NoContext
<1> HIDE DEF qs, qf
<1>7. Kept(ctx.messages, <<>>, <<>>, qs, qf)
  BY <1>0, <1>5, <1>6, TurnParts, KeptReturn
<1>8. Kept(<<>>, <<>>, <<>>, qs, qf)
  BY <1>0, <1>3, <1>6, <1>7, TurnParts, KeptClear
<1>9. Conversation = ctx.messages /\ Conversation' = ctx.messages /\ ~InContext' /\ pc' \notin Drained
  BY <1>1 DEF Conversation, InContext, Drained
<1>10. /\ TextIds(Conversation) \cup TextIds(ctx.steering) \cup TextIds(ctx.follow)
           \cup TextIds(steering) \cup TextIds(follow) = (1..sent) \ hist.gone
      /\ TextIds(messages) \subseteq 1..sent /\ hist.gone \subseteq 1..sent /\ TextIds(<<>>) = {} /\ sent \in Nat
  BY TextsBounds
<1>11. TextIds(ctx.messages) \cup TextIds(qs) \cup TextIds(qf) = (1..sent) \ hist.gone
  BY <1>6, <1>9, <1>10
<1>12. steering' = qs /\ follow' = qf
  BY <1>1 DEF qs, qf
<1>13. TextIds(ctx.messages) \subseteq 1..sent
  BY <1>10, <1>11
<1>14. TextsInv'
  BY <1>1, <1>2, <1>7, <1>8, <1>9, <1>10, <1>11, <1>12, <1>13 DEF TextsInv
<1>15. SteeringInv'
  BY <1>1, <1>9 DEF SteeringInv
<1> QED
  BY <1>14, <1>15

(* What the parts of the conversation and the queues say of them as a whole.      *)
LEMMA KeptWhole ==
    ASSUME NEW c \in Seqs, NEW cs \in Seqs, NEW cf \in Seqs, NEW s \in Seqs, NEW f \in Seqs, Kept(c, cs, cf, s, f)
    PROVE  /\ TextIds(c \o cs \o cf \o s \o f)
                = TextIds(c) \cup TextIds(cs) \cup TextIds(cf) \cup TextIds(s) \cup TextIds(f)
           /\ Apart(c \o cs \o cf \o s \o f)
           /\ Rising("steer", c \o cs \o s) /\ Rising("follow", c \o cf \o f)
<1> DEFINE a == c \o cs
           b == a \o cf
           d == b \o s
           g == d \o f
           h == a \o s
           k == c \o cf
           l == k \o f
<1>1. /\ a \in Seqs /\ TextIds(a) = TextIds(c) \cup TextIds(cs)
      /\ Apart(a) <=> Apart(c) /\ Apart(cs) /\ TextIds(c) \cap TextIds(cs) = {}
      /\ KindIds("steer", a) = KindIds("steer", c) \cup KindIds("steer", cs)
      /\ Rising("steer", a) <=> Rising("steer", c) /\ Rising("steer", cs) /\ Below("steer", c, cs)
  <2>1. /\ a \in Seqs /\ TextIds(a) = TextIds(c) \cup TextIds(cs)
        /\ Apart(a) <=> Apart(c) /\ Apart(cs) /\ TextIds(c) \cap TextIds(cs) = {}
    BY TextsConcat, ConcatPlaces
  <2>2. /\ KindIds("steer", a) = KindIds("steer", c) \cup KindIds("steer", cs)
        /\ Rising("steer", a) <=> Rising("steer", c) /\ Rising("steer", cs) /\ Below("steer", c, cs)
    BY KindConcat
  <2> QED
    BY <2>1, <2>2
<1> HIDE DEF a
<1>2. /\ b \in Seqs /\ TextIds(b) = TextIds(a) \cup TextIds(cf)
      /\ Apart(b) <=> Apart(a) /\ Apart(cf) /\ TextIds(a) \cap TextIds(cf) = {}
  BY <1>1, TextsConcat, ConcatPlaces
<1> HIDE DEF b
<1>3. /\ d \in Seqs /\ TextIds(d) = TextIds(b) \cup TextIds(s)
      /\ Apart(d) <=> Apart(b) /\ Apart(s) /\ TextIds(b) \cap TextIds(s) = {}
  BY <1>2, TextsConcat, ConcatPlaces
<1> HIDE DEF d
<1>4. /\ g \in Seqs /\ TextIds(g) = TextIds(d) \cup TextIds(f)
      /\ Apart(g) <=> Apart(d) /\ Apart(f) /\ TextIds(d) \cap TextIds(f) = {}
  BY <1>3, TextsConcat, ConcatPlaces
<1> HIDE DEF g
<1>5. Rising("steer", h) <=> Rising("steer", a) /\ Rising("steer", s) /\ Below("steer", a, s)
  BY <1>1, KindConcat
<1> HIDE DEF h
<1>6. /\ k \in Seqs /\ KindIds("follow", k) = KindIds("follow", c) \cup KindIds("follow", cf)
      /\ Rising("follow", k) <=> Rising("follow", c) /\ Rising("follow", cf) /\ Below("follow", c, cf)
  BY ConcatPlaces, KindConcat
<1> HIDE DEF k
<1>7. Rising("follow", l) <=> Rising("follow", k) /\ Rising("follow", f) /\ Below("follow", k, f)
  BY <1>6, KindConcat
<1> HIDE DEF l
<1>8. Below("steer", a, s) /\ Below("follow", k, f)
  BY <1>1, <1>6 DEF Kept, Below
<1>9. Rising("steer", h) /\ Rising("follow", l)
  BY <1>1, <1>5, <1>6, <1>7, <1>8 DEF Kept
<1>10. /\ Apart(c) /\ Apart(cs) /\ Apart(cf) /\ Apart(s) /\ Apart(f)
       /\ TextIds(c) \cap (TextIds(cs) \cup TextIds(cf) \cup TextIds(s) \cup TextIds(f)) = {}
       /\ TextIds(cs) \cap (TextIds(cf) \cup TextIds(s) \cup TextIds(f)) = {}
       /\ TextIds(cf) \cap (TextIds(s) \cup TextIds(f)) = {}
       /\ TextIds(s) \cap TextIds(f) = {}
  BY DEF Kept
<1>11. Apart(a)
  BY <1>1, <1>10
<1>12. Apart(b)
  BY <1>1, <1>2, <1>10, <1>11
<1>13. Apart(d)
  BY <1>1, <1>2, <1>3, <1>10, <1>12
<1>14. Apart(g)
  BY <1>1, <1>2, <1>3, <1>4, <1>10, <1>13
<1>15. TextIds(g) = TextIds(c) \cup TextIds(cs) \cup TextIds(cf) \cup TextIds(s) \cup TextIds(f)
  BY <1>1, <1>2, <1>3, <1>4
<1> QED
  BY <1>9, <1>14, <1>15 DEF a, b, d, g, h, k, l

LEMMA TextsInit == ASSUME Init PROVE TextsInv /\ SteeringInv
<1>1. /\ messages = <<>> /\ steering = <<>> /\ follow = <<>> /\ pc = "idle" /\ sent = 0
      /\ ctx.messages = <<>> /\ ctx.steering = <<>> /\ ctx.follow = <<>> /\ hist.gone = {} /\ hist.known = 0
  BY DEF Init, NoContext, NoHistory
<1> DEFINE e == <<>>
<1>2. /\ TextIds(e) = {} /\ Apart(e)
      /\ \A kind \in {"prompt", "steer", "follow"} : KindIds(kind, e) = {} /\ Rising(kind, e) /\ Only(kind, e)
  BY EmptyTexts
<1> HIDE DEF e
<1>3. Kept(e, e, e, e, e)
  BY <1>2 DEF Kept, Below
<1>4. Kept(<<>>, <<>>, <<>>, <<>>, <<>>) /\ TextIds(<<>>) = {}
  BY <1>2, <1>3 DEF e
<1>5. Conversation = <<>> /\ ~InContext /\ pc \notin Drained
  BY <1>1 DEF Conversation, InContext, Drained
<1>6. TextsInv
  BY <1>1, <1>4, <1>5 DEF TextsInv
<1>7. SteeringInv
  BY <1>1, <1>5 DEF SteeringInv
<1> QED
  BY <1>6, <1>7

LEMMA TextsStep ==
    ASSUME StreamInv, StreamInv', AnsweredInv, TextsInv, SteeringInv, [Next]_vars
    PROVE  TextsInv' /\ SteeringInv'
<1>1. StreamInv /\ StreamInv' /\ AnsweredInv /\ TextsInv /\ SteeringInv
  OBVIOUS
<1>2. CASE BeginTurn
  BY <1>1, <1>2, TextsBeginTurn
<1>3. CASE EnterFlow
  BY <1>1, <1>3, TextsEnterFlow
<1>4. CASE CancelFlow
  BY <1>1, <1>4, TextsCancelFlow
<1>5. CASE StartTurn
  BY <1>1, <1>5, TextsStartTurn
<1>6. CASE DrainQueuedInput
  BY <1>1, <1>6, TextsDrainQueuedInput
<1>7. CASE SkipCompaction
  BY <1>1, <1>7, TextsSkipCompaction
<1>8. CASE CompactContext
  BY <1>1, <1>8, TextsCompactContext
<1>9. CASE CompactionFails
  BY <1>1, <1>9, TextsCompactionFails
<1>10. CASE PrepareProviderRequest
  BY <1>1, <1>10, TextsPrepareProviderRequest
<1>11. CASE ApplyBeforeProviderRequestHook
  BY <1>1, <1>11, TextsApplyBeforeProviderRequestHook
<1>12. ASSUME NEW stop \in Reasons, NEW calls \in 0..MaxCalls, NEW usage \in Usages, ProviderReplies(stop, calls, usage) PROVE TextsInv' /\ SteeringInv'
  BY <1>1, <1>12, TextsProviderReplies
<1>13. CASE ProviderFails
  BY <1>1, <1>13, TextsProviderFails
<1>14. CASE DecideAfterAssistant
  BY <1>1, <1>14, TextsDecideAfterAssistant
<1>15. CASE NoToolCalls
  BY <1>1, <1>15, TextsNoToolCalls
<1>16. ASSUME NEW mode \in {"parallel", "sequential"}, BeginTools(mode) PROVE TextsInv' /\ SteeringInv'
  BY <1>1, <1>16, TextsBeginTools
<1>17. CASE StartNextTool
  BY <1>1, <1>17, TextsStartNextTool
<1>18. ASSUME NEW call \in ctx.open, NEW terminate \in BOOLEAN, EndTool(call, terminate) PROVE TextsInv' /\ SteeringInv'
  BY <1>1, <1>18, TextsEndTool
<1>19. CASE FinishTools
  BY <1>1, <1>19, TextsFinishTools
<1>20. ASSUME NEW hook \in {"go", "stop", "fail"}, MaybePrepareNextTurn(hook) PROVE TextsInv' /\ SteeringInv'
  BY <1>1, <1>20, TextsMaybePrepareNextTurn
<1>21. CASE EndFlow
  BY <1>1, <1>21, TextsEndFlow
<1>22. CASE FailFlow
  BY <1>1, <1>22, TextsFailFlow
<1>23. CASE Steer
  BY <1>1, <1>23, TextsSteer
<1>24. CASE FollowUp
  BY <1>1, <1>24, TextsFollowUp
<1>25. ASSUME NEW s \in BOOLEAN, NEW f \in BOOLEAN, ClearQueues(s, f) PROVE TextsInv' /\ SteeringInv'
  BY <1>1, <1>25, TextsClearQueues
<1>26. CASE Abort
  BY <1>1, <1>26, TextsAbort
<1>27. CASE Prompt
  BY <1>1, <1>27, TextsPrompt
<1>28. CASE Run
  BY <1>1, <1>28, TextsRun
<1>29. CASE DropStream
  BY <1>1, <1>29, TextsDropStream
<1>30. CASE UNCHANGED vars
  <2>1. UNCHANGED <<config, messages, steering, follow, pc, ctx, sent, hist>>
    BY <1>30 DEF vars
  <2> QED
    BY <2>1, TextsSame DEF InContext
<1>31. CASE Tools
  BY <1>31, <1>15, <1>16, <1>17, <1>18, <1>19 DEF Tools
<1>32. CASE Outside
  BY <1>32, <1>23, <1>24, <1>25, <1>26, <1>27, <1>28, <1>29 DEF Outside
<1>33. CASE RunStep
  BY <1>33, <1>31, <1>2, <1>3, <1>4, <1>5, <1>6, <1>7, <1>8, <1>9, <1>10, <1>11, <1>12, <1>13, <1>14, <1>20, <1>21, <1>22 DEF RunStep
<1> QED
  BY <1>30, <1>32, <1>33 DEF Next

(* A text that was sent is in one place of the conversation and the queues until   *)
(* it is cleared, summarised or dropped with its stream; steering texts and        *)
(* follow-ups are delivered in the order in which they were sent; and the request  *)
(* of a turn holds every steering text sent before it (sync_live_queues, drain,    *)
(* apply_to_state and the compaction of the context).                              *)
THEOREM TextsCorrect == Spec => []TextsKept
<1>1. Init => StreamInv /\ AnsweredInv /\ TextsInv /\ SteeringInv
  BY StreamInit, AnsweredInit, TextsInit
<1>2. StreamInv /\ AnsweredInv /\ TextsInv /\ SteeringInv /\ [Next]_vars
      => StreamInv' /\ AnsweredInv' /\ TextsInv' /\ SteeringInv'
  BY StreamStep, AnsweredStep, TextsStep
<1>3. StreamInv /\ TextsInv /\ SteeringInv => TextsKept
  <2> SUFFICES ASSUME StreamInv, TextsInv, SteeringInv PROVE TextsKept
    OBVIOUS
  <2>1. Kept(Conversation, ctx.steering, ctx.follow, steering, follow) /\ Conversation \in Seqs
    <3>1. messages \in Seqs /\ ctx.messages \in Seqs
      BY TurnParts DEF StreamInv
    <3>2. CASE InContext
      BY <3>1, <3>2, TextsBusy DEF TextsInv
    <3>3. CASE ~InContext
      <4>1. Conversation = messages /\ ctx.steering = <<>> /\ ctx.follow = <<>>
        BY <3>3, TextsIdle
      <4> QED
        BY <3>1, <4>1 DEF TextsInv
    <3> QED
      BY <3>2, <3>3
  <2>2. /\ ctx.steering \in Seqs /\ ctx.follow \in Seqs /\ steering \in Seqs /\ follow \in Seqs
        /\ sent \in Nat /\ hist.known \in Nat
    BY TurnParts DEF StreamInv
  <2>3. /\ TextIds(Conversation \o ctx.steering \o ctx.follow \o steering \o follow)
             = TextIds(Conversation) \cup TextIds(ctx.steering) \cup TextIds(ctx.follow)
                 \cup TextIds(steering) \cup TextIds(follow)
        /\ Apart(Conversation \o ctx.steering \o ctx.follow \o steering \o follow)
        /\ Rising("steer", Conversation \o ctx.steering \o steering)
        /\ Rising("follow", Conversation \o ctx.follow \o follow)
    BY <2>1, <2>2, KeptWhole
  <2>4. QueuedOnce
    BY <2>3 DEF QueuedOnce, TextsInv
  <2>5. DeliveredInOrder
    BY <2>3 DEF DeliveredInOrder
  <2>6. SteeringReachesRequest
    <3> SUFFICES ASSUME pc = "provider_stream", config.steer = "all"
                 PROVE  \A x \in TextIds(ctx.steering \o steering) : ~(x <= hist.known)
      BY DEF SteeringReachesRequest
    <3>1. ctx.steering = <<>> /\ \A x \in TextIds(steering) : x > hist.known
      BY DEF SteeringInv, InContext, Drained
    <3>2. TextIds(ctx.steering \o steering) = TextIds(steering) /\ TextIds(steering) \subseteq Nat
      BY <2>2, <3>1, TextsConcat, EmptyTexts, TextPlaces
    <3> QED
      BY <2>2, <3>1, <3>2
  <2> QED
    BY <2>4, <2>5, <2>6 DEF TextsKept
<1> QED
  BY <1>1, <1>2, <1>3, PTL DEF Spec

=============================================================================
