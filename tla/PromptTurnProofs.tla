-------------------------- MODULE PromptTurnProofs --------------------------
(***************************************************************************)
(* Proofs about prompts and their control, for every number of clients,      *)
(* control ids, prompts, commands, turns and tool calls, and whether or not   *)
(* the provider numbers its calls.                                            *)
(***************************************************************************)
EXTENDS PromptTurn, SequenceTheorems, FiniteSetTheorems, TLAPS

(***************************************************************************)
(* Types.                                                                   *)
(***************************************************************************)
Commands == [kind : ControlKinds, text : Texts, op : Nat, id : ControlIds \cup {0}]
Channels == [open : BOOLEAN, queue : Seq(Commands)]
Drafts == [id : ControlIds, kind : DraftKinds, text : Texts]
AgentEvents == [kind : AgentEventKinds, call : Nat]

TurnFields == {"pc", "op", "by", "rx", "polled", "abort", "heeded", "final", "outcome",
               "message", "calls", "known", "started"}
AgentFields == {"phase", "cancelled", "queued", "turns", "todo", "running", "made", "part"}
TurnPcs == {"idle", "ready", "committed", "bound", "prepared", "streaming", "ended", "finalized"}
AgentPhases == {"turn", "reply", "decide", "tools", "next", "over"}

BindingShape ==
    \/ binding = NoBinding
    \/ /\ DOMAIN binding = {"st", "owner", "op", "chan"}
       /\ binding.st = "bound" /\ binding.owner \in Issued
       /\ binding.op \in Nat /\ binding.chan \in 1..Len(chans)

ReadingShape(c) ==
    \/ reading[c] = NoReading
    \/ /\ reading[c].st = "read" /\ reading[c].gen \in Nat /\ reading[c].op \in Nat
       /\ reading[c].draft \in Drafts

\* The drafts of one kind.
OfKind(queue, kind) == {d \in queue : d.kind = kind}

\* What the coordinator keeps of a client.
KeptShape(c) ==
    /\ IsFiniteSet(receipts[c]) /\ Cardinality(receipts[c]) <= MaxReceipts
    /\ drafts[c] \subseteq Drafts /\ IsFiniteSet(drafts[c])
    /\ \A kind \in DraftKinds : Cardinality(OfKind(drafts[c], kind)) <= MaxQueued

ChannelsShape ==
    /\ chans \in Seq(Channels)
    /\ \A i \in 1..Len(chans) : Len(chans[i].queue) <= ChannelCapacity
    /\ sender \in 0..Len(chans) /\ receiver \in {0, sender}
    /\ accepted \in Seq(Commands) /\ applied \in Seq(Commands)

ClientsShape ==
    /\ DOMAIN receipts = Clients /\ DOMAIN drafts = Clients /\ DOMAIN reading = Clients
    /\ \A c \in Clients : KeptShape(c) /\ ReadingShape(c)

TurnShape ==
    /\ front \in Fronts
    /\ DOMAIN turn = TurnFields
    /\ turn.pc \in TurnPcs
    /\ turn.op \in 0..prompts /\ turn.rx \in 0..Len(chans)
    /\ turn.outcome \in Outcomes
    /\ turn.pc \in {"ended", "finalized"} <=> turn.outcome # "none"
    /\ front = "rpc" /\ turn.pc # "idle" => turn.by \in Issued
    /\ prompts \in 0..MaxPrompts
    /\ result \in PromptResults
    /\ dropped \in BOOLEAN

AgentShape ==
    /\ DOMAIN agent = AgentFields
    /\ agent.phase \in AgentPhases
    /\ agent.turns \in Nat /\ agent.made \in Nat
    /\ events \in Seq(AgentEvents)

(***************************************************************************)
(* The inductive invariant.                                                 *)
(***************************************************************************)
\* The channel that something still reads, 0 if there is none.
Live == IF turn.rx # 0 THEN turn.rx ELSE receiver

\* Which front a prompt of this kind belongs to.
Fronted ==
    /\ turn.pc = "ready" => front = "ui"
    /\ turn.pc = "committed" => front = "rpc"
    /\ front # "rpc" => binding = NoBinding
    /\ front = "print" => sender = 0
    /\ front = "ui" /\ turn.pc # "idle" => sender # 0
    /\ front = "rpc" /\ turn.pc \in {"idle", "committed"} => receiver = 0

\* A channel is open exactly as long as something reads it.
OneReader ==
    /\ turn.rx # 0 => receiver = 0 /\ turn.pc \notin {"idle", "ready", "committed", "bound"}
    /\ receiver # 0 => turn.pc \in {"idle", "ready", "bound"}
    /\ \A i \in 1..Len(chans) : chans[i].open <=> i = Live

\* Commands are accepted once a prompt has a channel, and applied once it streams.
Begun ==
    /\ turn.pc \in {"idle", "committed"} => accepted = <<>>
    /\ turn.pc \in {"idle", "ready", "committed", "bound", "prepared"} => applied = <<>>

\* What was applied is the beginning of what was accepted ...
AppliedFirst ==
    /\ Len(applied) <= Len(accepted)
    /\ \A i \in 1..Len(applied) : applied[i] = accepted[i]

\* ... and what waits in the channel is the rest.
QueuedRest ==
    turn.pc # "idle" /\ Live # 0 =>
        /\ Len(accepted) = Len(applied) + Len(chans[Live].queue)
        /\ \A i \in 1..Len(chans[Live].queue) : accepted[Len(applied) + i] = chans[Live].queue[i]

\* A command was accepted for the prompt under way, and if it has an id, the
\* submitting client has a receipt of it.
AcceptedFor ==
    /\ \A i \in 1..Len(accepted) :
        /\ accepted[i].op = turn.op
        /\ accepted[i].id # 0 => front = "rpc" /\ HasReceipt(turn.by, turn.op, accepted[i].id)
    /\ \A i, j \in 1..Len(accepted) :
        accepted[i].id # 0 /\ accepted[i].id = accepted[j].id => i = j

\* A binding that leads anywhere leads to the prompt under way.
BoundToTurn ==
    binding.st = "bound" /\ chans[binding.chan].open =>
        /\ turn.pc \notin {"idle", "committed"}
        /\ binding.op = turn.op /\ binding.owner.id = turn.by.id

\* Without a dropped run() a prompt has its channel and its binding.
Undropped ==
    ~dropped =>
        /\ turn.pc \in {"idle", "committed"} => binding = NoBinding /\ sender = 0 /\ receiver = 0
        /\ front # "print" /\ turn.pc \in {"ready", "bound", "prepared", "streaming"} => Live # 0
        /\ front = "rpc" /\ lifecycle = "Running" /\ turn.pc \in {"bound", "prepared", "streaming"} =>
                binding.st = "bound" /\ binding.op = turn.op /\ binding.chan = Live
        /\ binding.st = "bound" => binding.op = turn.op

ControlInv ==
    /\ RegistryTypeOK /\ ChannelsShape /\ ClientsShape /\ BindingShape /\ TurnShape
    /\ Fronted /\ OneReader /\ Begun /\ AppliedFirst /\ QueuedRest /\ AcceptedFor
    /\ BoundToTurn /\ Undropped

\* Whether the agent has sent, and the flow not yet recorded, an event.
Sent(kind, call) == \E i \in 1..Len(events) : events[i].kind = kind /\ events[i].call = call
SentAfter(kind, call, i) ==
    \E j \in 1..Len(events) : j > i /\ events[j].kind = kind /\ events[j].call = call

\* Outside the stream there is no agent, and before it no abort was asked for.
AgentAway ==
    /\ turn.pc # "streaming" => agent = NoAgent /\ events = <<>>
    /\ turn.pc \notin {"streaming", "ended", "finalized"} =>
        /\ ~turn.heeded /\ ~turn.abort /\ ~turn.final /\ ~turn.message
        /\ turn.calls = {} /\ turn.known = {} /\ turn.started = {}

\* An agent at work has not ended its stream, and a cancelled one never ends it well.
AbortKept ==
    /\ turn.heeded => turn.abort
    /\ agent.phase # "over" => ~turn.final /\ ~Sent("AgentDone", 0)
    /\ turn.pc = "streaming" /\ turn.heeded => agent.cancelled /\ ~turn.final /\ ~Sent("AgentDone", 0)
    /\ turn.pc = "ended" /\ turn.heeded => turn.outcome = "aborted"

\* What an agent that is over left behind is behind an error.
Ended == agent.phase = "over" /\ Sent("AgentError", 0)

\* A message that is open will be closed by a reply, or the prompt fails.
MessageCloses ==
    /\ turn.message => agent.phase = "reply" \/ Sent("reply", 0) \/ Ended
    /\ \A i \in 1..Len(events) : events[i].kind = "part" =>
        agent.phase = "reply" \/ SentAfter("reply", 0, i) \/ Ended

\* A call that has not ended yet for the flow.
Open(call) == call \in agent.running \/ Sent("end", call)

\* What waits for the flow names calls of the agent, and a call ends after all else.
EventsPlaced ==
    \A i \in 1..Len(events) :
        /\ events[i].kind \in {"start", "update", "end"} => events[i].call \in 1..agent.made
        /\ events[i].kind \notin {"start", "update", "end"} => events[i].call = 0
        /\ events[i].kind \in {"start", "update"} =>
            events[i].call \in agent.running \/ SentAfter("end", events[i].call, i)

\* The calls of a reply are to do, then run, then end.
AgentCalls ==
    /\ \E low \in 1..(agent.made + 1) : agent.todo = low..agent.made
    /\ agent.running \subseteq 1..agent.made
    /\ agent.phase # "tools" => agent.running = {}
    /\ agent.phase \in {"turn", "reply", "next"} => agent.todo = {}
    /\ agent.phase = "over" => agent.todo = {} \/ Ended
    /\ EventsPlaced

\* A call that is open in the transaction was recorded as started and will end.
CallsClose ==
    /\ turn.started \subseteq 1..agent.made
    /\ turn.known = {IdOf(call) : call \in turn.started}
    /\ \A id \in turn.calls : \E call \in turn.started : IdOf(call) = id /\ Open(call)

\* Two calls that the provider gave one name: the end of one of them will be refused.
Clash ==
    /\ ~Numbered
    /\ turn.known # {}
    /\ \/ turn.calls = {} /\ \E call \in 1..agent.made : Open(call)
       \/ \E call, other \in 1..agent.made : call # other /\ Open(call) /\ Open(other)

\* A call of the agent is recorded as started, or will be, or the prompt fails.
CallsStart ==
    \A call \in 1..agent.made :
        call \in turn.started \/ call \in agent.todo \/ Sent("start", call) \/ Clash

AgentInv == AgentShape /\ AgentAway /\ AbortKept /\ AgentCalls

StreamInv == MessageCloses /\ CallsClose /\ CallsStart

RecordInv ==
    /\ turn.pc = "streaming" => StreamInv
    /\ CommitClosed

(***************************************************************************)
(* The channels.                                                            *)
(***************************************************************************)
(* A channel of the table is a channel.                                      *)
LEMMA ChannelType ==
    ASSUME ChannelsShape, NEW i \in 1..Len(chans)
    PROVE  /\ chans[i] \in Channels /\ chans[i].queue \in Seq(Commands)
           /\ chans[i].open \in BOOLEAN
           /\ Len(chans[i].queue) \in Nat /\ Len(chans[i].queue) <= ChannelCapacity
           /\ Len(chans) \in Nat
<1>1. chans[i] \in Channels /\ Len(chans) \in Nat
  BY DEF ChannelsShape
<1> QED
  BY <1>1 DEF ChannelsShape, Channels

(* A queue of a channel is replaced, and everything else stays.               *)
LEMMA QueueUpdate ==
    ASSUME ChannelsShape, NEW chan \in 1..Len(chans), NEW q \in Seq(Commands),
           Len(q) <= ChannelCapacity,
           chans' = [chans EXCEPT ![chan].queue = q]
    PROVE  /\ chans' \in Seq(Channels) /\ Len(chans') = Len(chans)
           /\ \A i \in 1..Len(chans) : i # chan => chans'[i] = chans[i]
           /\ chans'[chan].queue = q /\ (chans'[chan].open <=> chans[chan].open)
           /\ \A i \in 1..Len(chans') : Len(chans'[i].queue) <= ChannelCapacity
           /\ \A i \in 1..Len(chans') : chans'[i].open <=> chans[i].open
<1>1. chans \in Seq(Channels) /\ chans[chan] \in Channels
  BY ChannelType DEF ChannelsShape
<1> DEFINE new == [chans[chan] EXCEPT !.queue = q]
<1>2. new \in Channels /\ new.queue = q /\ (new.open <=> chans[chan].open)
  BY <1>1 DEF Channels
<1> HIDE DEF new
<1>3. chans' = [chans EXCEPT ![chan] = new]
  BY DEF new
<1>4. /\ chans' \in Seq(Channels) /\ Len(chans') = Len(chans)
      /\ \A i \in 1..Len(chans) : i # chan => chans'[i] = chans[i]
      /\ chans'[chan] = new
  BY <1>1, <1>2, <1>3
<1>5. \A i \in 1..Len(chans') : Len(chans'[i].queue) <= ChannelCapacity
  BY <1>2, <1>4 DEF ChannelsShape
<1> QED
  BY <1>2, <1>4, <1>5

(* A command that can be sent is appended to its channel's queue.             *)
LEMMA SendUpdate ==
    ASSUME ChannelsShape, NEW chan \in 1..Len(chans), NEW command \in Commands,
           CanSend(chan), Send(chan, command)
    PROVE  /\ chans' \in Seq(Channels) /\ Len(chans') = Len(chans)
           /\ \A i \in 1..Len(chans) : i # chan => chans'[i] = chans[i]
           /\ chans'[chan].queue = Append(chans[chan].queue, command)
           /\ \A i \in 1..Len(chans') : Len(chans'[i].queue) <= ChannelCapacity
           /\ \A i \in 1..Len(chans') : chans'[i].open <=> chans[i].open
           /\ accepted' = Append(accepted, command) /\ accepted' \in Seq(Commands)
           /\ chans[chan].open
<1> DEFINE q == Append(chans[chan].queue, command)
<1>1. q \in Seq(Commands) /\ Len(q) = Len(chans[chan].queue) + 1
  BY ChannelType
<1>2. Len(q) <= ChannelCapacity
  BY <1>1, ChannelType, ControlAssumption DEF CanSend
<1>3. chans' = [chans EXCEPT ![chan].queue = q]
  BY DEF Send
<1>4. accepted' = Append(accepted, command) /\ accepted' \in Seq(Commands)
  BY DEF Send, ChannelsShape
<1>5. chans[chan].open
  BY DEF CanSend
<1> HIDE DEF q
<1>6. /\ chans' \in Seq(Channels) /\ Len(chans') = Len(chans)
      /\ \A i \in 1..Len(chans) : i # chan => chans'[i] = chans[i]
      /\ chans'[chan].queue = q
      /\ \A i \in 1..Len(chans') : Len(chans'[i].queue) <= ChannelCapacity
      /\ \A i \in 1..Len(chans') : chans'[i].open <=> chans[i].open
  BY <1>1, <1>2, <1>3, QueueUpdate
<1> QED
  BY <1>4, <1>5, <1>6 DEF q

(* A receiver that is dropped closes its channel and no other.                 *)
LEMMA ClosedUpdate ==
    ASSUME ChannelsShape, NEW chan \in 0..Len(chans), chans' = Closed(chan)
    PROVE  /\ chans' \in Seq(Channels) /\ Len(chans') = Len(chans)
           /\ \A i \in 1..Len(chans') : Len(chans'[i].queue) <= ChannelCapacity
           /\ \A i \in 1..Len(chans') : i # chan => chans'[i] = chans[i]
           /\ \A i \in 1..Len(chans') : chans'[i].open <=> chans[i].open /\ i # chan
<1>1. chans \in Seq(Channels) /\ Len(chans) \in Nat
  BY DEF ChannelsShape
<1>2. CASE chan = 0
  BY <1>1, <1>2, ChannelType DEF Closed, ChannelsShape
<1>3. CASE chan # 0
  <2>1. PICK empty : empty = [open |-> FALSE, queue |-> <<>>]
    OBVIOUS
  <2>2. empty \in Channels /\ ~empty.open /\ Len(empty.queue) = 0
    BY <2>1 DEF Channels
  <2>3. chans' = [chans EXCEPT ![chan] = empty]
    BY <1>3, <2>1 DEF Closed
  <2>4. /\ chans' \in Seq(Channels) /\ Len(chans') = Len(chans)
        /\ \A i \in 1..Len(chans) : i # chan => chans'[i] = chans[i]
        /\ chans'[chan] = empty
    BY <1>1, <1>3, <2>2, <2>3
  <2> QED
    BY <1>1, <2>2, <2>4, ChannelType, ControlAssumption DEF ChannelsShape
<1> QED
  BY <1>2, <1>3

(* A new channel is open and empty, and the ones before it stay.                *)
LEMMA NewUpdate ==
    ASSUME ChannelsShape, NewChannel
    PROVE  /\ chans' \in Seq(Channels) /\ Len(chans') = Len(chans) + 1
           /\ \A i \in 1..Len(chans') : Len(chans'[i].queue) <= ChannelCapacity
           /\ \A i \in 1..Len(chans) : chans'[i] = chans[i]
           /\ chans'[Len(chans) + 1].open /\ chans'[Len(chans) + 1].queue = <<>>
           /\ sender' = Len(chans) + 1 /\ receiver' = Len(chans) + 1
           /\ Len(chans) \in Nat
<1>1. PICK fresh : fresh = [open |-> TRUE, queue |-> <<>>]
  OBVIOUS
<1>2. fresh \in Channels /\ fresh.open /\ fresh.queue = <<>> /\ Len(fresh.queue) = 0
  BY <1>1 DEF Channels
<1>3. chans \in Seq(Channels) /\ Len(chans) \in Nat
  BY DEF ChannelsShape
<1>4. chans' = Append(chans, fresh)
  BY <1>1 DEF NewChannel
<1>5. /\ chans' \in Seq(Channels) /\ Len(chans') = Len(chans) + 1
      /\ \A i \in 1..Len(chans) : chans'[i] = chans[i]
      /\ chans'[Len(chans) + 1] = fresh
  BY <1>2, <1>3, <1>4
<1>6. sender' = Len(chans) + 1 /\ receiver' = Len(chans) + 1
  BY DEF NewChannel
<1>7. \A i \in 1..Len(chans') : i \in 1..Len(chans) \/ i = Len(chans) + 1
  BY <1>3, <1>5
<1> QED
  BY <1>2, <1>3, <1>5, <1>6, <1>7, ControlAssumption DEF ChannelsShape

(***************************************************************************)
(* Commands reach the prompt they were accepted for.                         *)
(***************************************************************************)
(* Every handle that was issued names a client and a generation.             *)
LEMMA HandleType ==
    ASSUME RegistryTypeOK, NEW h \in Issued
    PROVE  /\ h.id \in Clients /\ h.gen \in Nat /\ h.gen # 0 /\ h.gen <= generation[h.id]
           /\ h = [id |-> h.id, gen |-> h.gen]
BY DEF RegistryTypeOK, Issued, Handles

(* The initial state satisfies the invariant.                                *)
LEMMA InitControl == PromptInit => ControlInv
<1> SUFFICES ASSUME PromptInit PROVE ControlInv
  OBVIOUS
<1> USE DEF PromptInit
<1>1. RegistryTypeOK
  BY DEF RegistryInit, RegistryTypeOK, Lifecycles, Connections
<1>2. ChannelsShape
  BY DEF ControlInit, ChannelsShape
<1>3. ClientsShape
  <2> SUFFICES ASSUME NEW c \in Clients PROVE KeptShape(c) /\ ReadingShape(c)
    BY DEF ControlInit, ClientsShape
  <2>1. receipts[c] = {} /\ drafts[c] = {} /\ reading[c] = NoReading
    BY DEF ControlInit
  <2>2. \A kind \in DraftKinds : OfKind(drafts[c], kind) = {}
    BY <2>1 DEF OfKind
  <2>3. IsFiniteSet({}) /\ Cardinality({}) = 0
    BY FS_EmptySet
  <2>4. ASSUME NEW kind \in DraftKinds PROVE Cardinality(OfKind(drafts[c], kind)) <= MaxQueued
    <3>1. Cardinality(OfKind(drafts[c], kind)) = 0
      BY <2>2, <2>3, Zenon
    <3> QED
      BY <3>1, ControlAssumption
  <2>5. IsFiniteSet(receipts[c]) /\ Cardinality(receipts[c]) <= MaxReceipts /\ IsFiniteSet(drafts[c])
    BY <2>1, <2>3, ControlAssumption
  <2> QED
    BY <2>1, <2>4, <2>5 DEF KeptShape, ReadingShape
<1>4. BindingShape /\ TurnShape
  <2>1. BindingShape
    BY DEF ControlInit, BindingShape
  <2>2. DOMAIN turn = TurnFields
    BY DEF NoTurn, TurnFields
  <2>3. turn.pc = "idle" /\ turn.op = 0 /\ turn.rx = 0 /\ turn.outcome = "none"
    BY DEF NoTurn
  <2>4. /\ dropped \in BOOLEAN /\ front \in Fronts /\ result \in PromptResults
        /\ turn.pc \in TurnPcs /\ turn.outcome \in Outcomes
    BY <2>3, Zenon DEF PromptResults, TurnPcs, Outcomes
  <2>5. 0 \in 0..prompts /\ 0 \in 0..Len(chans) /\ prompts \in 0..MaxPrompts
    BY PromptAssumption DEF ControlInit
  <2> QED
    BY <2>1, <2>2, <2>3, <2>4, <2>5 DEF TurnShape
<1>5. Fronted /\ OneReader /\ Begun /\ AppliedFirst /\ QueuedRest /\ AcceptedFor
  BY DEF ControlInit, Fronted, OneReader, Begun, AppliedFirst, QueuedRest, AcceptedFor, Live, NoTurn
<1>6. BoundToTurn /\ Undropped
  BY DEF ControlInit, BoundToTurn, Undropped, NoTurn, NoBinding
<1> QED
  BY <1>1, <1>2, <1>3, <1>4, <1>5, <1>6 DEF ControlInv

(* A step that only moves the flow along keeps the invariant.                 *)
LEMMA FlowStep ==
    ASSUME ControlInv, UNCHANGED <<registry, control, front, prompts, applied, dropped>>,
           TurnShape',
           turn'.op = turn.op, turn'.by = turn.by, turn'.rx = turn.rx,
           \/ turn'.pc = turn.pc
           \/ turn.pc = "prepared" /\ turn'.pc \in {"streaming", "ended"}
           \/ turn.pc \in {"streaming", "ended"} /\ turn'.pc \in {"ended", "finalized"}
    PROVE  ControlInv'
<1> USE DEF ControlInv, registry, control
<1>1. RegistryTypeOK' /\ ChannelsShape' /\ BindingShape'
  BY DEF RegistryTypeOK, ChannelsShape, BindingShape, Issued, Handles
<1>2. ClientsShape'
  BY DEF ClientsShape, KeptShape, ReadingShape
<1>3. Fronted' /\ Begun' /\ AppliedFirst'
  BY DEF Fronted, Begun, AppliedFirst
<1>4. OneReader' /\ Live' = Live
  BY DEF OneReader, Live
<1>5. QueuedRest' /\ AcceptedFor'
  BY <1>4 DEF QueuedRest, AcceptedFor, HasReceipt
<1>6. BoundToTurn' /\ Undropped'
  BY <1>4 DEF BoundToTurn, Undropped
<1> QED
  BY <1>1, <1>2, <1>3, <1>4, <1>5, <1>6

(* A command that is sent to the channel of the prompt under way, new to it,   *)
(* keeps its order.                                                            *)
LEMMA SendStep ==
    ASSUME ControlInv, UNCHANGED <<registry, sender, receiver, binding, promptVars>>,
           NEW chan \in 1..Len(chans), NEW command \in Commands,
           CanSend(chan), Send(chan, command), ClientsShape',
           turn.pc # "idle", command.op = turn.op,
           turn.pc = "committed" => FALSE,
           \A c \in Clients : receipts[c] \subseteq receipts'[c],
           command.id # 0 =>
               /\ front = "rpc" /\ ~HasReceipt(turn.by, turn.op, command.id)
               /\ \E r \in receipts'[turn.by.id] : r.op = turn.op /\ r.id = command.id
    PROVE  ControlInv'
<1> USE DEF ControlInv, registry, promptVars
<1>1. /\ chans' \in Seq(Channels) /\ Len(chans') = Len(chans)
      /\ \A i \in 1..Len(chans) : i # chan => chans'[i] = chans[i]
      /\ chans'[chan].queue = Append(chans[chan].queue, command)
      /\ \A i \in 1..Len(chans') : Len(chans'[i].queue) <= ChannelCapacity
      /\ \A i \in 1..Len(chans') : chans'[i].open <=> chans[i].open
      /\ accepted' = Append(accepted, command) /\ accepted' \in Seq(Commands)
      /\ chans[chan].open
  BY SendUpdate
<1>2. chan = Live /\ Live' = Live
  BY <1>1 DEF OneReader, Live
<1>3. accepted \in Seq(Commands) /\ applied \in Seq(Commands) /\ chans[chan].queue \in Seq(Commands)
  BY ChannelType DEF ChannelsShape
<1>4. /\ Len(accepted) \in Nat /\ Len(accepted') = Len(accepted) + 1
      /\ \A i \in 1..Len(accepted) : accepted'[i] = accepted[i]
      /\ accepted'[Len(accepted) + 1] = command
  <2>1. accepted' = Append(accepted, command)
    BY <1>1
  <2> QED
    BY <2>1, <1>3
<1>5. RegistryTypeOK' /\ BindingShape' /\ TurnShape' /\ ChannelsShape'
  <2>1. RegistryTypeOK' /\ Issued' = Issued
    BY DEF RegistryTypeOK, Issued, Handles
  <2>2. ChannelsShape'
    BY <1>1, <1>3 DEF ChannelsShape
  <2>3. BindingShape' /\ TurnShape'
    BY <1>1, <2>1 DEF BindingShape, TurnShape
  <2> QED
    BY <2>1, <2>2, <2>3
<1>6. Fronted' /\ OneReader' /\ Begun'
  BY <1>1, <1>2 DEF Fronted, OneReader, Begun
<1>7. AppliedFirst'
  BY <1>3, <1>4 DEF AppliedFirst
<1>8. QueuedRest'
  <2> DEFINE q == chans[chan].queue
  <2>1. /\ Len(q) \in Nat /\ Len(chans'[chan].queue) = Len(q) + 1 /\ Len(applied) \in Nat
        /\ \A i \in 1..Len(q) : chans'[chan].queue[i] = q[i]
        /\ chans'[chan].queue[Len(q) + 1] = command
    BY <1>1, <1>3
  <2>2. /\ Len(accepted) = Len(applied) + Len(q)
        /\ \A i \in 1..Len(q) : accepted[Len(applied) + i] = q[i]
    BY <1>2 DEF QueuedRest
  <2> HIDE DEF q
  <2>3. ASSUME NEW i \in 1..(Len(q) + 1)
        PROVE  accepted'[Len(applied) + i] = chans'[chan].queue[i]
    <3>1. CASE i = Len(q) + 1
      BY <3>1, <1>4, <2>1, <2>2
    <3>2. CASE i # Len(q) + 1
      <4>1. i \in 1..Len(q) /\ Len(applied) + i \in 1..Len(accepted)
        BY <3>2, <2>1, <2>2
      <4> QED
        BY <4>1, <1>4, <2>1, <2>2
    <3> QED
      BY <3>1, <3>2
  <2> QED
    BY <1>2, <1>4, <2>1, <2>2, <2>3 DEF QueuedRest
<1>9. AcceptedFor'
  <2>0. front = "rpc" => turn.by.id \in Clients
    BY HandleType DEF TurnShape
  <2>1. \A i \in 1..Len(accepted) : accepted[i].id # 0 =>
            /\ front = "rpc"
            /\ \E r \in receipts'[turn.by.id] : r.op = turn.op /\ r.id = accepted[i].id
    BY <2>0 DEF AcceptedFor, HasReceipt
  <2>2. \A i \in 1..Len(accepted) : accepted[i].id # 0 => accepted[i].id # command.id
    BY DEF AcceptedFor
  <2>3. \A i \in 1..Len(accepted') : i \in 1..Len(accepted) \/ i = Len(accepted) + 1
    BY <1>4
  <2>4. ASSUME NEW i \in 1..Len(accepted')
        PROVE  /\ accepted'[i].op = turn.op
               /\ accepted'[i].id # 0 =>
                    /\ front = "rpc"
                    /\ \E r \in receipts'[turn.by.id] : r.op = turn.op /\ r.id = accepted'[i].id
    BY <1>4, <2>1, <2>3 DEF AcceptedFor
  <2>5. ASSUME NEW i \in 1..Len(accepted'), NEW j \in 1..Len(accepted'),
               accepted'[i].id # 0, accepted'[i].id = accepted'[j].id
        PROVE  i = j
    BY <1>4, <2>2, <2>3, <2>5 DEF AcceptedFor
  <2> QED
    BY <2>4, <2>5 DEF AcceptedFor, HasReceipt
<1>10. BoundToTurn' /\ Undropped'
  BY <1>1, <1>2 DEF BoundToTurn, Undropped, BindingShape, NoBinding
<1> QED
  BY <1>5, <1>6, <1>7, <1>8, <1>9, <1>10

(* A subset of a client's drafts is kept within the bounds.                    *)
LEMMA FewerDrafts ==
    ASSUME NEW old, NEW new, new \subseteq old, IsFiniteSet(old), old \subseteq Drafts,
           \A kind \in DraftKinds : Cardinality(OfKind(old, kind)) <= MaxQueued
    PROVE  /\ IsFiniteSet(new) /\ new \subseteq Drafts
           /\ \A kind \in DraftKinds : Cardinality(OfKind(new, kind)) <= MaxQueued
<1>1. IsFiniteSet(new) /\ new \subseteq Drafts
  BY FS_Subset
<1>2. ASSUME NEW kind \in DraftKinds PROVE Cardinality(OfKind(new, kind)) <= MaxQueued
  <2>1. OfKind(new, kind) \subseteq OfKind(old, kind) /\ OfKind(old, kind) \subseteq old
    BY DEF OfKind
  <2>2. IsFiniteSet(OfKind(old, kind))
    BY <2>1, FS_Subset
  <2>3. /\ IsFiniteSet(OfKind(new, kind))
        /\ Cardinality(OfKind(new, kind)) <= Cardinality(OfKind(old, kind))
    BY <2>1, <2>2, FS_Subset
  <2>4. Cardinality(OfKind(new, kind)) \in Nat /\ Cardinality(OfKind(old, kind)) \in Nat
    BY <2>2, <2>3, FS_CardinalityType
  <2> QED
    BY <2>3, <2>4, ControlAssumption
<1> QED
  BY <1>1, <1>2

(* A draft replaces the one of its kind and id, or there is room for it.        *)
LEMMA DraftAdded ==
    ASSUME NEW old, IsFiniteSet(old), old \subseteq Drafts,
           \A kind \in DraftKinds : Cardinality(OfKind(old, kind)) <= MaxQueued,
           NEW draft \in Drafts,
           \/ \E d \in OfKind(old, draft.kind) : d.id = draft.id
           \/ Cardinality(OfKind(old, draft.kind)) < MaxQueued,
           NEW new, new = {d \in old : d.kind # draft.kind \/ d.id # draft.id} \cup {draft}
    PROVE  /\ IsFiniteSet(new) /\ new \subseteq Drafts
           /\ \A kind \in DraftKinds : Cardinality(OfKind(new, kind)) <= MaxQueued
<1> DEFINE others == {d \in old : d.kind # draft.kind \/ d.id # draft.id}
<1>1. others \subseteq old /\ new = others \cup {draft}
  OBVIOUS
<1>2. /\ IsFiniteSet(others) /\ others \subseteq Drafts
      /\ \A kind \in DraftKinds : Cardinality(OfKind(others, kind)) <= MaxQueued
  BY <1>1, FewerDrafts
<1>3. IsFiniteSet(new) /\ new \subseteq Drafts
  BY <1>1, <1>2, FS_AddElement
<1>4. ASSUME NEW kind \in DraftKinds PROVE Cardinality(OfKind(new, kind)) <= MaxQueued
  <2>1. CASE kind # draft.kind
    <3>1. OfKind(new, kind) = OfKind(old, kind)
      BY <2>1 DEF OfKind
    <3> QED
      BY <3>1
  <2>2. CASE kind = draft.kind
    <3>1. OfKind(others, kind) \subseteq OfKind(old, kind) /\ OfKind(old, kind) \subseteq old
      BY DEF OfKind
    <3>2. IsFiniteSet(OfKind(old, kind)) /\ IsFiniteSet(OfKind(others, kind))
      BY <3>1, FS_Subset
    <3>3. OfKind(new, kind) = OfKind(others, kind) \cup {draft} /\ draft \notin OfKind(others, kind)
      BY <2>2 DEF OfKind
    <3>4. /\ Cardinality(OfKind(new, kind)) = Cardinality(OfKind(others, kind)) + 1
          /\ Cardinality(OfKind(others, kind)) \in Nat /\ Cardinality(OfKind(old, kind)) \in Nat
      BY <3>2, <3>3, FS_AddElement, FS_CardinalityType
    <3>5. CASE \E d \in OfKind(old, draft.kind) : d.id = draft.id
      <4>1. PICK d \in OfKind(old, kind) : d.id = draft.id
        BY <2>2, <3>5
      <4>2. OfKind(others, kind) \subseteq OfKind(old, kind) \ {d}
        BY <2>2, <4>1 DEF OfKind
      <4>3. /\ IsFiniteSet(OfKind(old, kind) \ {d})
            /\ Cardinality(OfKind(old, kind) \ {d}) = Cardinality(OfKind(old, kind)) - 1
        BY <3>2, <4>1, FS_RemoveElement
      <4>4. Cardinality(OfKind(others, kind)) <= Cardinality(OfKind(old, kind) \ {d})
        BY <4>2, <4>3, FS_Subset
      <4>5. Cardinality(OfKind(old, kind)) <= MaxQueued
        OBVIOUS
      <4> QED
        BY <3>4, <4>3, <4>4, <4>5, ControlAssumption
    <3>6. CASE Cardinality(OfKind(old, draft.kind)) < MaxQueued
      <4>1. Cardinality(OfKind(others, kind)) <= Cardinality(OfKind(old, kind))
        BY <3>1, <3>2, FS_Subset
      <4> QED
        BY <2>2, <3>4, <3>6, <4>1, ControlAssumption
    <3> QED
      BY <3>5, <3>6
  <2> QED
    BY <2>1, <2>2
<1> QED
  BY <1>3, <1>4

(* An accepted control keeps the invariant.                                    *)
LEMMA AcceptStep ==
    ASSUME ControlInv, front = "rpc", UNCHANGED <<registry, promptVars>>,
           NEW h, h.id \in Clients, NEW op \in Nat, NEW id \in ControlIds,
           NEW kind \in ControlKinds, NEW text \in Texts,
           CanEnqueue(h, op, id), Accept(h, op, id, kind, text),
           DOMAIN reading' = Clients, \A c \in Clients : ReadingShape(c)'
    PROVE  ControlInv'
<1> USE DEF ControlInv
<1>1. /\ binding.st = "bound" /\ binding.owner.id = h.id /\ binding.op = op
      /\ CanSend(binding.chan) /\ ~HasReceipt(h, op, id)
      /\ Cardinality(receipts[h.id]) < MaxReceipts
  BY DEF CanEnqueue
<1>2. binding.chan \in 1..Len(chans)
  BY <1>1 DEF BindingShape, NoBinding
<1>3. turn.pc \notin {"idle", "committed"} /\ op = turn.op /\ h.id = turn.by.id
  BY <1>1 DEF BoundToTurn, CanSend
<1>4. PICK command : command = Command(kind, text, op, id)
  OBVIOUS
<1>5. command \in Commands /\ command.op = op /\ command.id = id
  BY <1>4 DEF Command, Commands
<1>6. PICK receipt : receipt = [op |-> op, id |-> id, kind |-> kind, text |-> text]
  OBVIOUS
<1>7. receipt.op = op /\ receipt.id = id
  BY <1>6
<1>8. /\ Send(binding.chan, command)
      /\ receipts' = [receipts EXCEPT ![h.id] = @ \cup {receipt}]
      /\ drafts' = [drafts EXCEPT ![h.id] = {d \in @ : d.kind # kind \/ d.id # id}]
      /\ UNCHANGED <<sender, receiver, binding>>
  BY <1>4, <1>6 DEF Accept
<1>9. /\ DOMAIN receipts' = Clients /\ DOMAIN drafts' = Clients
      /\ receipts'[h.id] = receipts[h.id] \cup {receipt}
      /\ drafts'[h.id] \subseteq drafts[h.id]
      /\ \A c \in Clients : c # h.id => receipts'[c] = receipts[c] /\ drafts'[c] = drafts[c]
  BY <1>8 DEF ClientsShape
<1>10. ClientsShape'
  <2> SUFFICES ASSUME NEW c \in Clients PROVE KeptShape(c)'
    BY <1>9 DEF ClientsShape
  <2>0. KeptShape(c)
    BY DEF ClientsShape
  <2>1. CASE c # h.id
    BY <2>0, <2>1, <1>9 DEF KeptShape
  <2>2. CASE c = h.id
    <3>1. IsFiniteSet(receipts[c]) /\ Cardinality(receipts[c]) \in Nat
      BY <2>0, FS_CardinalityType DEF KeptShape
    <3>2. /\ IsFiniteSet(receipts[c] \cup {receipt})
          /\ \/ Cardinality(receipts[c] \cup {receipt}) = Cardinality(receipts[c])
             \/ Cardinality(receipts[c] \cup {receipt}) = Cardinality(receipts[c]) + 1
      BY <3>1, FS_AddElement
    <3>3. IsFiniteSet(receipts'[c]) /\ Cardinality(receipts'[c]) <= MaxReceipts
      BY <2>2, <3>1, <3>2, <1>1, <1>9, ControlAssumption
    <3>4. /\ IsFiniteSet(drafts'[c]) /\ drafts'[c] \subseteq Drafts
          /\ \A k \in DraftKinds : Cardinality(OfKind(drafts'[c], k)) <= MaxQueued
      BY <2>0, <2>2, <1>9, FewerDrafts DEF KeptShape
    <3> QED
      BY <3>3, <3>4 DEF KeptShape
  <2> QED
    BY <2>1, <2>2
<1>11. \A c \in Clients : receipts[c] \subseteq receipts'[c]
  BY <1>9
<1>12. ~HasReceipt(turn.by, turn.op, command.id)
  BY <1>1, <1>3, <1>5 DEF HasReceipt
<1>13. \E r \in receipts'[turn.by.id] : r.op = turn.op /\ r.id = command.id
  BY <1>3, <1>5, <1>7, <1>9
<1> QED
  BY <1>1, <1>2, <1>3, <1>5, <1>8, <1>10, <1>11, <1>12, <1>13, SendStep

(* A step that leaves channels, receipts and the prompt alone keeps what is    *)
(* said of them.                                                               *)
LEMMA PlacesKept ==
    ASSUME ControlInv, UNCHANGED <<chans, sender, receiver, accepted, receipts>>,
           UNCHANGED <<front, turn, prompts, applied, result, dropped>>
    PROVE  /\ ChannelsShape' /\ OneReader' /\ Begun' /\ AppliedFirst'
           /\ QueuedRest' /\ AcceptedFor' /\ Live' = Live
<1> USE DEF ControlInv
<1>1. Live' = Live
  BY DEF Live
<1>2. ChannelsShape' /\ Begun' /\ AppliedFirst'
  BY DEF ChannelsShape, Begun, AppliedFirst
<1>3. OneReader' /\ QueuedRest'
  BY <1>1 DEF OneReader, QueuedRest
<1>4. AcceptedFor'
  BY DEF AcceptedFor, HasReceipt
<1> QED
  BY <1>1, <1>2, <1>3, <1>4

(* What clients and the registry do keeps the invariant.                       *)
LEMMA ClientStep ==
    ASSUME ControlInv, Client
    PROVE  ControlInv'
<1> USE DEF ControlInv
<1>0. front = "rpc" /\ UNCHANGED promptVars
  BY DEF Client
<1>a. UNCHANGED <<front, turn, prompts, applied, result, dropped>>
  BY <1>0 DEF promptVars
<1>1. ASSUME NEW c \in Clients, turn.pc = "idle", ConnectOrTakeover(c), RebindPromptControl(c)
      PROVE  ControlInv'
  <2>1. /\ UNCHANGED <<chans, sender, receiver, receipts, drafts, reading, accepted, lifecycle>>
        /\ generation' = [generation EXCEPT ![c] = @ + 1]
        /\ connection' = [connection EXCEPT ![c] = "Attached"]
    BY <1>1 DEF RebindPromptControl, ConnectOrTakeover
  <2>2. RegistryTypeOK'
    BY <2>1 DEF RegistryTypeOK, Connections
  <2>3. Issued \subseteq Issued' /\ [id |-> c, gen |-> generation'[c]] \in Issued'
    <3>1. \A d \in Clients : generation[d] \in Nat /\ generation'[d] \in Nat /\ generation[d] <= generation'[d]
      BY <2>1, <2>2 DEF RegistryTypeOK
    <3>2. generation'[c] \in 1..generation'[c]
      BY <2>1, <2>2 DEF RegistryTypeOK
    <3> QED
      BY <3>1, <3>2 DEF Issued, Handles
  <2>6. ChannelsShape' /\ OneReader' /\ Begun' /\ AppliedFirst' /\ QueuedRest' /\ AcceptedFor' /\ Live' = Live
    BY <1>a, <2>1, PlacesKept
  <2>7. ClientsShape'
    BY <2>1 DEF ClientsShape, KeptShape, ReadingShape
  <2>4. CASE binding.st = "bound" /\ binding.owner.id = c
    <3>1. binding' = [binding EXCEPT !.owner.gen = generation'[c]]
      BY <1>1, <2>4 DEF RebindPromptControl
    <3>2. /\ DOMAIN binding = {"st", "owner", "op", "chan"} /\ binding.owner \in Issued
          /\ binding.op \in Nat /\ binding.chan \in 1..Len(chans)
      BY <2>4 DEF BindingShape, NoBinding
    <3>3. PICK owner : owner = [binding.owner EXCEPT !.gen = generation'[c]]
      OBVIOUS
    <3>4. binding' = [binding EXCEPT !.owner = owner]
      BY <3>1, <3>3
    <3>5. binding.owner = [id |-> c, gen |-> binding.owner.gen]
      BY <2>4, <3>2, HandleType
    <3>6. owner = [id |-> c, gen |-> generation'[c]]
      BY <3>3, <3>5
    <3>7. /\ DOMAIN binding' = {"st", "owner", "op", "chan"} /\ binding'.st = "bound"
          /\ binding'.owner = owner /\ binding'.op = binding.op /\ binding'.chan = binding.chan
      BY <2>4, <3>2, <3>4
    <3>8. BindingShape'
      BY <2>1, <2>3, <3>2, <3>6, <3>7 DEF BindingShape
    <3>9. dropped
      BY <1>1, <2>4 DEF Undropped, NoBinding
    <3>10. BoundToTurn'
      BY <1>a, <2>1, <2>4, <3>7, <1>1 DEF BoundToTurn
    <3>11. Undropped' /\ TurnShape' /\ Fronted'
      BY <1>0, <1>a, <1>1, <2>1, <2>3, <3>9 DEF Undropped, TurnShape, Fronted
    <3> QED
      BY <2>2, <2>6, <2>7, <3>8, <3>10, <3>11
  <2>5. CASE ~(binding.st = "bound" /\ binding.owner.id = c)
    <3>1. binding' = binding
      BY <1>1, <2>5 DEF RebindPromptControl
    <3>2. BindingShape' /\ BoundToTurn'
      BY <1>a, <2>1, <2>3, <3>1 DEF BindingShape, BoundToTurn
    <3>3. TurnShape' /\ Fronted'
      BY <1>0, <1>a, <1>1, <2>1, <2>3, <3>1 DEF TurnShape, Fronted
    <3>4. Undropped'
      BY <1>0, <1>a, <1>1, <2>1, <2>6, <3>1 DEF Undropped
    <3> QED
      BY <2>2, <2>6, <2>7, <3>2, <3>3, <3>4
  <2> QED
    BY <2>4, <2>5
<1>2. ASSUME NEW h \in Issued, DetachClient(h), UNCHANGED control
      PROVE  ControlInv'
  <2>1. /\ UNCHANGED <<lifecycle, generation>> /\ UNCHANGED control
        /\ connection' = [connection EXCEPT ![h.id] = "Detached"]
    BY <1>2 DEF DetachClient
  <2>2. RegistryTypeOK' /\ Issued' = Issued
    BY <2>1, HandleType DEF RegistryTypeOK, Connections, Issued, Handles
  <2>3. ChannelsShape' /\ OneReader' /\ Begun' /\ AppliedFirst' /\ QueuedRest' /\ AcceptedFor' /\ Live' = Live
    BY <1>a, <2>1, PlacesKept DEF control
  <2>4. BindingShape' /\ BoundToTurn' /\ TurnShape' /\ Fronted'
    BY <1>a, <2>1, <2>2 DEF control, BindingShape, BoundToTurn, TurnShape, Fronted
  <2>5. Undropped'
    BY <1>a, <2>1, <2>3 DEF control, Undropped
  <2>6. ClientsShape'
    BY <2>1 DEF control, ClientsShape, KeptShape, ReadingShape
  <2> QED
    BY <2>2, <2>3, <2>4, <2>5, <2>6
<1>3. ASSUME CloseRegistry, UnbindPromptControl
      PROVE  ControlInv'
  <2>1. /\ UNCHANGED <<chans, sender, receiver, receipts, drafts, reading, accepted, generation>>
        /\ binding' = NoBinding /\ lifecycle' = "ShuttingDown"
        /\ connection' = [c \in Clients |->
                            IF connection[c] = "Attached" THEN "ShuttingDown" ELSE connection[c]]
    BY <1>3 DEF UnbindPromptControl, CloseRegistry
  <2>2. RegistryTypeOK' /\ Issued' = Issued
    BY <2>1 DEF RegistryTypeOK, Connections, Lifecycles, Issued, Handles
  <2>3. ChannelsShape' /\ OneReader' /\ Begun' /\ AppliedFirst' /\ QueuedRest' /\ AcceptedFor' /\ Live' = Live
    BY <1>a, <2>1, PlacesKept
  <2>4. BindingShape' /\ BoundToTurn' /\ TurnShape' /\ Fronted'
    BY <1>a, <2>1, <2>2 DEF BindingShape, BoundToTurn, TurnShape, Fronted, NoBinding
  <2>5. Undropped'
    BY <1>a, <2>1, <2>3 DEF Undropped, NoBinding
  <2>6. ClientsShape'
    BY <2>1 DEF ClientsShape, KeptShape, ReadingShape
  <2> QED
    BY <2>2, <2>3, <2>4, <2>5, <2>6
<1>4. ASSUME NEW h \in Issued, NEW op \in 1..prompts, NEW id \in ControlIds,
             NEW kind \in ControlKinds, NEW text \in Texts,
             EnqueuePromptControl(h, op, id, kind, text), UNCHANGED registry
      PROVE  ControlInv'
  <2>1. /\ CanEnqueue(h, op, id) /\ Accept(h, op, id, kind, text) /\ UNCHANGED reading
        /\ h.id \in Clients /\ op \in Nat
    BY <1>4, HandleType DEF EnqueuePromptControl, TurnShape
  <2>2. DOMAIN reading' = Clients /\ \A c \in Clients : ReadingShape(c)'
    BY <2>1 DEF ClientsShape, ReadingShape
  <2> QED
    BY <1>0, <1>4, <2>1, <2>2, AcceptStep
<1>5. ASSUME NEW h \in Issued, NEW id \in ControlIds, NEW kind \in Drafting, NEW text \in Texts,
             EnqueueDraft(h, id, kind, text), UNCHANGED registry
      PROVE  ControlInv'
  <2>1. h.id \in Clients /\ kind \in DraftKinds
    BY HandleType, ControlAssumption
  <2>2. PICK draft : draft = [id |-> id, kind |-> kind, text |-> text]
    OBVIOUS
  <2>3. draft \in Drafts /\ draft.id = id /\ draft.kind = kind
    BY <2>1, <2>2 DEF Drafts
  <2> DEFINE new == {d \in drafts[h.id] : d.kind # draft.kind \/ d.id # draft.id} \cup {draft}
  <2>4. /\ UNCHANGED <<chans, sender, receiver, binding, receipts, reading, accepted>>
        /\ \/ \E d \in OfKind(drafts[h.id], draft.kind) : d.id = draft.id
           \/ Cardinality(OfKind(drafts[h.id], draft.kind)) < MaxQueued
        /\ drafts' = [drafts EXCEPT ![h.id] = new]
    BY <1>5, <2>2, <2>3 DEF EnqueueDraft, OfKind
  <2>5. KeptShape(h.id)
    BY <2>1 DEF ClientsShape
  <2>6. /\ IsFiniteSet(new) /\ new \subseteq Drafts
        /\ \A k \in DraftKinds : Cardinality(OfKind(new, k)) <= MaxQueued
    BY <2>3, <2>4, <2>5, DraftAdded DEF KeptShape
  <2>7. /\ DOMAIN drafts' = Clients /\ drafts'[h.id] = new
        /\ \A c \in Clients : c # h.id => drafts'[c] = drafts[c]
    BY <2>1, <2>4 DEF ClientsShape
  <2> HIDE DEF new
  <2>8. ClientsShape'
    <3> SUFFICES ASSUME NEW c \in Clients PROVE KeptShape(c)' /\ ReadingShape(c)'
      BY <2>4, <2>7 DEF ClientsShape
    <3>1. KeptShape(c) /\ ReadingShape(c)
      BY DEF ClientsShape
    <3>2. ReadingShape(c)'
      BY <2>4, <3>1 DEF ReadingShape
    <3>3. CASE c # h.id
      BY <2>4, <2>7, <3>1, <3>2, <3>3 DEF KeptShape
    <3>4. CASE c = h.id
      BY <2>4, <2>6, <2>7, <3>1, <3>2, <3>4 DEF KeptShape
    <3> QED
      BY <3>3, <3>4
  <2>9. RegistryTypeOK' /\ Issued' = Issued
    BY <1>5 DEF registry, RegistryTypeOK, Issued, Handles
  <2>10. ChannelsShape' /\ OneReader' /\ Begun' /\ AppliedFirst' /\ QueuedRest' /\ AcceptedFor' /\ Live' = Live
    BY <1>a, <2>4, PlacesKept
  <2>11. BindingShape' /\ BoundToTurn' /\ TurnShape' /\ Fronted'
    BY <1>a, <2>4, <2>9 DEF BindingShape, BoundToTurn, TurnShape, Fronted
  <2>12. Undropped'
    BY <1>5, <1>a, <2>4, <2>10 DEF registry, Undropped
  <2> QED
    BY <2>8, <2>9, <2>10, <2>11, <2>12
<1>6. ASSUME NEW h \in Issued, NEW op \in 1..prompts, ReadDraft(h, op), UNCHANGED registry
      PROVE  ControlInv'
  <2>1. h.id \in Clients /\ h.gen \in Nat /\ op \in Nat
    BY HandleType DEF TurnShape
  <2>2. PICK d \in drafts[h.id] :
            reading' = [reading EXCEPT ![h.id] = [st |-> "read", gen |-> h.gen, op |-> op, draft |-> d]]
    BY <1>6 DEF ReadDraft
  <2>3. PICK r : r = [st |-> "read", gen |-> h.gen, op |-> op, draft |-> d]
    OBVIOUS
  <2>4. r.st = "read" /\ r.gen \in Nat /\ r.op \in Nat /\ r.draft \in Drafts
    BY <2>1, <2>2, <2>3 DEF ClientsShape, KeptShape
  <2>5. /\ DOMAIN reading' = Clients /\ reading'[h.id] = r
        /\ \A c \in Clients : c # h.id => reading'[c] = reading[c]
    BY <2>1, <2>2, <2>3 DEF ClientsShape
  <2>6. UNCHANGED <<chans, sender, receiver, binding, receipts, drafts, accepted>>
    BY <1>6 DEF ReadDraft
  <2>8. ClientsShape'
    <3> SUFFICES ASSUME NEW c \in Clients PROVE KeptShape(c)' /\ ReadingShape(c)'
      BY <2>5, <2>6 DEF ClientsShape
    <3>1. KeptShape(c) /\ ReadingShape(c)
      BY DEF ClientsShape
    <3> QED
      BY <2>4, <2>5, <2>6, <3>1 DEF KeptShape, ReadingShape
  <2>9. RegistryTypeOK' /\ Issued' = Issued
    BY <1>6 DEF registry, RegistryTypeOK, Issued, Handles
  <2>10. ChannelsShape' /\ OneReader' /\ Begun' /\ AppliedFirst' /\ QueuedRest' /\ AcceptedFor' /\ Live' = Live
    BY <1>a, <2>6, PlacesKept
  <2>11. BindingShape' /\ BoundToTurn' /\ TurnShape' /\ Fronted'
    BY <1>a, <2>6, <2>9 DEF BindingShape, BoundToTurn, TurnShape, Fronted
  <2>12. Undropped'
    BY <1>6, <1>a, <2>6, <2>10 DEF registry, Undropped
  <2> QED
    BY <2>8, <2>9, <2>10, <2>11, <2>12
<1>7. ASSUME NEW c \in Clients, SendDraft(c), UNCHANGED registry
      PROVE  ControlInv'
  <2>1. reading[c] # NoReading /\ reading' = [reading EXCEPT ![c] = NoReading]
    BY <1>7 DEF SendDraft
  <2>2. /\ reading[c].gen \in Nat /\ reading[c].op \in Nat /\ reading[c].draft \in Drafts
    BY <2>1 DEF ClientsShape, ReadingShape
  <2>3. DOMAIN reading' = Clients /\ \A d \in Clients : ReadingShape(d)'
    BY <2>1 DEF ClientsShape, ReadingShape
  <2>4. PICK h : h = [id |-> c, gen |-> reading[c].gen]
    OBVIOUS
  <2>5. h.id = c
    BY <2>4
  <2>6. CASE CanEnqueue(h, reading[c].op, reading[c].draft.id)
    <3>1. Accept(h, reading[c].op, reading[c].draft.id, reading[c].draft.kind, reading[c].draft.text)
      BY <1>7, <2>4, <2>6 DEF SendDraft
    <3>2. reading[c].draft.kind \in ControlKinds /\ reading[c].draft.id \in ControlIds
          /\ reading[c].draft.text \in Texts
      BY <2>2 DEF Drafts, DraftKinds, ControlKinds
    <3> QED
      BY <1>0, <1>7, <2>2, <2>3, <2>5, <2>6, <3>1, <3>2, AcceptStep
  <2>7. CASE ~CanEnqueue(h, reading[c].op, reading[c].draft.id)
    <3>1. UNCHANGED <<chans, sender, receiver, binding, receipts, drafts, accepted>>
      BY <1>7, <2>4, <2>7 DEF SendDraft
    <3>8. ClientsShape'
      BY <2>3, <3>1 DEF ClientsShape, KeptShape
    <3>9. RegistryTypeOK' /\ Issued' = Issued
      BY <1>7 DEF registry, RegistryTypeOK, Issued, Handles
    <3>10. ChannelsShape' /\ OneReader' /\ Begun' /\ AppliedFirst' /\ QueuedRest' /\ AcceptedFor' /\ Live' = Live
      BY <1>a, <3>1, PlacesKept
    <3>11. BindingShape' /\ BoundToTurn' /\ TurnShape' /\ Fronted'
      BY <1>a, <3>1, <3>9 DEF BindingShape, BoundToTurn, TurnShape, Fronted
    <3>12. Undropped'
      BY <1>7, <1>a, <3>1, <3>10 DEF registry, Undropped
    <3> QED
      BY <3>8, <3>9, <3>10, <3>11, <3>12
  <2> QED
    BY <2>6, <2>7
<1> QED
  BY <1>1, <1>2, <1>3, <1>4, <1>5, <1>6, <1>7 DEF Client

(* No prompt, and what it consists of.                                         *)
LEMMA NoTurnFields ==
    /\ DOMAIN NoTurn = TurnFields
    /\ NoTurn.pc = "idle" /\ NoTurn.op = 0 /\ NoTurn.rx = 0 /\ NoTurn.outcome = "none"
    /\ ~NoTurn.heeded /\ ~NoTurn.abort /\ ~NoTurn.final /\ ~NoTurn.message
    /\ NoTurn.calls = {} /\ NoTurn.known = {} /\ NoTurn.started = {}
BY DEF NoTurn, TurnFields

(* The shape of a prompt that just began.                                      *)
LEMMA TurnBegins ==
    ASSUME ControlInv, prompts < MaxPrompts, prompts' = prompts + 1, UNCHANGED <<front, dropped>>,
           result' = "none", DOMAIN turn' = TurnFields,
           turn'.op = prompts + 1, turn'.rx = 0, turn'.outcome = "none",
           turn'.pc \in {"ready", "committed", "bound"},
           front = "rpc" => turn'.by \in Issued',
           Len(chans') \in Nat
    PROVE  TurnShape'
<1>1. prompts \in 0..MaxPrompts /\ MaxPrompts \in Nat /\ front \in Fronts /\ dropped \in BOOLEAN
  BY PromptAssumption DEF ControlInv, TurnShape
<1>2. prompts' \in 0..MaxPrompts /\ turn'.op \in 0..prompts' /\ turn'.rx \in 0..Len(chans')
  BY <1>1
<1>3. result' \in PromptResults /\ turn'.outcome \in Outcomes /\ turn'.pc \in TurnPcs
  BY DEF PromptResults, Outcomes, TurnPcs
<1> QED
  BY <1>1, <1>2, <1>3 DEF TurnShape

(* While nothing is submitted through a client, nothing reads a channel.        *)
LEMMA NothingLive ==
    ASSUME ControlInv, receiver = 0, turn.pc \in {"idle", "ready", "committed", "bound"}
    PROVE  Live = 0 /\ \A i \in 1..Len(chans) : ~chans[i].open
<1>1. turn.rx = 0
  BY DEF ControlInv, OneReader
<1>2. Live = 0
  BY <1>1 DEF Live
<1> QED
  BY <1>2 DEF ControlInv, OneReader, ChannelsShape

(* The terminal's prompt task makes a handle.                                  *)
LEMMA MakeHandleStep ==
    ASSUME ControlInv, MakeHandle
    PROVE  ControlInv'
<1> USE DEF ControlInv
<1>1. /\ front = "ui" /\ turn.pc = "idle" /\ prompts < MaxPrompts /\ NewChannel
      /\ prompts' = prompts + 1 /\ result' = "none"
      /\ turn' = [NoTurn EXCEPT !.pc = "ready", !.op = prompts + 1]
      /\ UNCHANGED <<registry, binding, receipts, drafts, reading, accepted, front, applied, dropped>>
  BY DEF MakeHandle
<1>2. /\ DOMAIN turn' = TurnFields /\ turn'.pc = "ready" /\ turn'.op = prompts + 1
      /\ turn'.rx = 0 /\ turn'.outcome = "none"
  BY <1>1, NoTurnFields DEF TurnFields
<1>3. receiver = 0
  BY <1>1 DEF NewChannel
<1>4. \A i \in 1..Len(chans) : ~chans[i].open
  BY <1>1, <1>3, NothingLive
<1>5. /\ chans' \in Seq(Channels) /\ Len(chans') = Len(chans) + 1
      /\ \A i \in 1..Len(chans') : Len(chans'[i].queue) <= ChannelCapacity
      /\ \A i \in 1..Len(chans) : chans'[i] = chans[i]
      /\ chans'[Len(chans) + 1].open /\ chans'[Len(chans) + 1].queue = <<>>
      /\ sender' = Len(chans) + 1 /\ receiver' = Len(chans) + 1 /\ Len(chans) \in Nat
  BY <1>1, NewUpdate
<1>6. accepted = <<>> /\ applied = <<>> /\ binding = NoBinding
  BY <1>1 DEF Begun, Fronted
<1>7. RegistryTypeOK' /\ ClientsShape' /\ BindingShape'
  BY <1>1, <1>6 DEF registry, RegistryTypeOK, ClientsShape, KeptShape, ReadingShape, BindingShape
<1>8. ChannelsShape'
  BY <1>1, <1>5 DEF ChannelsShape
<1>9. TurnShape'
  BY <1>1, <1>2, <1>5, TurnBegins
<1>10. Live' = Len(chans) + 1
  BY <1>2, <1>5 DEF Live
<1>11. OneReader'
  <2>1. ASSUME NEW i \in 1..Len(chans') PROVE chans'[i].open <=> i = Live'
    <3>1. i \in 1..Len(chans) \/ i = Len(chans) + 1
      BY <1>5
    <3> QED
      BY <3>1, <1>4, <1>5, <1>10
  <2> QED
    BY <2>1, <1>2, <1>5 DEF OneReader
<1>12. Fronted' /\ Begun' /\ AppliedFirst' /\ AcceptedFor'
  BY <1>1, <1>2, <1>5, <1>6 DEF Fronted, Begun, AppliedFirst, AcceptedFor
<1>13. QueuedRest'
  BY <1>1, <1>2, <1>5, <1>6, <1>10 DEF QueuedRest
<1>14. BoundToTurn' /\ Undropped'
  BY <1>1, <1>2, <1>5, <1>6, <1>10 DEF BoundToTurn, Undropped, NoBinding
<1> QED
  BY <1>7, <1>8, <1>9, <1>11, <1>12, <1>13, <1>14

(* A prompt that is submitted by a client, or run without one.                  *)
LEMMA BeginStep ==
    ASSUME ControlInv, (\E h \in Issued : SubmitPrompt(h)) \/ PlainPrompt
    PROVE  ControlInv'
<1> USE DEF ControlInv
<1>1. /\ front \in {"rpc", "print"} /\ turn.pc = "idle" /\ prompts < MaxPrompts
      /\ prompts' = prompts + 1 /\ result' = "none"
      /\ UNCHANGED <<registry, control, front, applied, dropped>>
  BY DEF SubmitPrompt, PlainPrompt
<1>2. /\ DOMAIN turn' = TurnFields /\ turn'.op = prompts + 1
      /\ turn'.rx = 0 /\ turn'.outcome = "none"
      /\ turn'.pc = IF front = "rpc" THEN "committed" ELSE "bound"
      /\ front = "rpc" => turn'.by \in Issued
  BY NoTurnFields DEF SubmitPrompt, PlainPrompt, TurnFields
<1>3. receiver = 0 /\ Live = 0
  <2>1. receiver = 0
    BY <1>1 DEF Fronted, ChannelsShape
  <2> QED
    BY <2>1, <1>1, NothingLive
<1>4. \A i \in 1..Len(chans) : ~chans[i].open
  BY <1>1, <1>3, NothingLive
<1>5. Live' = 0 /\ receiver' = 0
  BY <1>1, <1>2, <1>3 DEF Live, control
<1>6. accepted = <<>> /\ applied = <<>>
  BY <1>1 DEF Begun
<1>7. RegistryTypeOK' /\ ClientsShape' /\ BindingShape' /\ ChannelsShape' /\ Issued' = Issued
  BY <1>1 DEF registry, control, RegistryTypeOK, ClientsShape, KeptShape, ReadingShape, BindingShape,
     ChannelsShape, Issued, Handles
<1>8. TurnShape'
  <2>1. Len(chans') \in Nat
    BY <1>7 DEF ChannelsShape
  <2> QED
    BY <2>1, <1>1, <1>2, <1>7, TurnBegins
<1>9. OneReader'
  BY <1>1, <1>2, <1>4, <1>5 DEF OneReader, control, ChannelsShape
<1>10. Fronted' /\ Begun' /\ AppliedFirst' /\ AcceptedFor' /\ QueuedRest'
  BY <1>1, <1>2, <1>5, <1>6 DEF Fronted, Begun, AppliedFirst, AcceptedFor, QueuedRest, control
<1>11. BoundToTurn'
  <2>1. binding.st = "bound" => ~chans[binding.chan].open
    BY <1>4 DEF BindingShape, NoBinding
  <2> QED
    BY <2>1, <1>1 DEF BoundToTurn, control
<1>12. Undropped'
  BY <1>1, <1>2, <1>5 DEF Undropped, control, NoBinding
<1> QED
  BY <1>7, <1>8, <1>9, <1>10, <1>11, <1>12

(* The coordinator binds the prompt to the client that submitted it.            *)
LEMMA BindStep ==
    ASSUME ControlInv, BindPrompt
    PROVE  ControlInv'
<1> USE DEF ControlInv
<1>1. /\ turn.pc = "committed" /\ binding' = Bound(turn.by, turn.op, sender')
      /\ \/ sender # 0 /\ UNCHANGED <<chans, sender, receiver>>
         \/ sender = 0 /\ NewChannel
      /\ turn' = [turn EXCEPT !.pc = "bound"]
      /\ UNCHANGED <<registry, receipts, drafts, reading, accepted, front, prompts, applied, result, dropped>>
  BY DEF BindPrompt, BindPromptControl
<1>2. /\ DOMAIN turn' = TurnFields /\ turn'.pc = "bound" /\ turn'.op = turn.op /\ turn'.by = turn.by
      /\ turn'.rx = turn.rx /\ turn'.outcome = turn.outcome
  BY <1>1 DEF TurnShape, TurnFields
<1>3. front = "rpc" /\ receiver = 0 /\ turn.by \in Issued /\ turn.op \in Nat /\ turn.rx = 0
  BY <1>1 DEF Fronted, TurnShape, OneReader
<1>4. \A i \in 1..Len(chans) : ~chans[i].open
  BY <1>1, <1>3, NothingLive
<1>5. accepted = <<>> /\ applied = <<>>
  BY <1>1 DEF Begun
<1>6. RegistryTypeOK' /\ ClientsShape' /\ Issued' = Issued
  BY <1>1 DEF registry, RegistryTypeOK, ClientsShape, KeptShape, ReadingShape, Issued, Handles
<1>7. /\ DOMAIN binding' = {"st", "owner", "op", "chan"} /\ binding'.st = "bound"
      /\ binding'.owner = turn.by /\ binding'.op = turn.op /\ binding'.chan = sender'
  BY <1>1 DEF Bound
<1>8. CASE sender # 0 /\ UNCHANGED <<chans, sender, receiver>>
  <2>1. dropped
    BY <1>1, <1>8 DEF Undropped
  <2>2. ChannelsShape' /\ TurnShape' /\ BindingShape'
    <3>1. ChannelsShape' /\ sender' \in 1..Len(chans')
      BY <1>1, <1>8 DEF ChannelsShape
    <3>2. TurnShape'
      BY <1>1, <1>2, <1>6, <1>8 DEF TurnShape, TurnPcs
    <3> QED
      BY <3>1, <3>2, <1>3, <1>6, <1>7 DEF BindingShape
  <2>3. Live' = 0
    BY <1>2, <1>3, <1>8 DEF Live
  <2>4. OneReader' /\ Fronted'
    BY <1>1, <1>2, <1>3, <1>4, <1>8, <2>3 DEF OneReader, Fronted, ChannelsShape
  <2>5. Begun' /\ AppliedFirst' /\ AcceptedFor' /\ QueuedRest'
    BY <1>1, <1>2, <1>5, <2>3 DEF Begun, AppliedFirst, AcceptedFor, QueuedRest
  <2>6. BoundToTurn' /\ Undropped'
    BY <1>1, <1>2, <1>7, <2>1 DEF BoundToTurn, Undropped
  <2> QED
    BY <1>6, <2>2, <2>4, <2>5, <2>6
<1>9. CASE sender = 0 /\ NewChannel
  <2>1. /\ chans' \in Seq(Channels) /\ Len(chans') = Len(chans) + 1
        /\ \A i \in 1..Len(chans') : Len(chans'[i].queue) <= ChannelCapacity
        /\ \A i \in 1..Len(chans) : chans'[i] = chans[i]
        /\ chans'[Len(chans) + 1].open /\ chans'[Len(chans) + 1].queue = <<>>
        /\ sender' = Len(chans) + 1 /\ receiver' = Len(chans) + 1 /\ Len(chans) \in Nat
    BY <1>9, NewUpdate
  <2>2. ChannelsShape' /\ TurnShape' /\ BindingShape'
    <3>1. ChannelsShape' /\ sender' \in 1..Len(chans')
      BY <1>1, <2>1 DEF ChannelsShape
    <3>2. TurnShape'
      BY <1>1, <1>2, <1>3, <1>6, <2>1 DEF TurnShape, TurnPcs
    <3> QED
      BY <3>1, <3>2, <1>3, <1>6, <1>7 DEF BindingShape
  <2>3. Live' = Len(chans) + 1
    BY <1>2, <1>3, <2>1 DEF Live
  <2>4. OneReader'
    <3>1. ASSUME NEW i \in 1..Len(chans') PROVE chans'[i].open <=> i = Live'
      <4>1. i \in 1..Len(chans) \/ i = Len(chans) + 1
        BY <2>1
      <4> QED
        BY <4>1, <1>4, <2>1, <2>3
    <3> QED
      BY <3>1, <1>2, <1>3, <2>1 DEF OneReader
  <2>5. Fronted' /\ Begun' /\ AppliedFirst' /\ AcceptedFor'
    BY <1>1, <1>2, <1>3, <1>5, <2>1 DEF Fronted, Begun, AppliedFirst, AcceptedFor
  <2>6. QueuedRest'
    BY <1>1, <1>2, <1>5, <2>1, <2>3 DEF QueuedRest
  <2>7. BoundToTurn' /\ Undropped'
    BY <1>1, <1>2, <1>7, <2>1, <2>3 DEF BoundToTurn, Undropped
  <2> QED
    BY <1>6, <2>2, <2>4, <2>5, <2>6, <2>7
<1> QED
  BY <1>1, <1>8, <1>9

(* The prompt takes the receiver.                                               *)
LEMMA PrepareStep ==
    ASSUME ControlInv, Prepare
    PROVE  ControlInv'
<1> USE DEF ControlInv
<1>1. /\ turn.pc \in {"ready", "bound"} /\ receiver' = 0
      /\ turn' = [turn EXCEPT !.pc = "prepared", !.rx = receiver]
      /\ UNCHANGED <<registry, chans, sender, binding, receipts, drafts, reading, accepted,
                     front, prompts, applied, result, dropped>>
  BY DEF Prepare
<1>2. /\ DOMAIN turn' = TurnFields /\ turn'.pc = "prepared" /\ turn'.op = turn.op /\ turn'.by = turn.by
      /\ turn'.rx = receiver /\ turn'.outcome = turn.outcome /\ turn.rx = 0
  BY <1>1 DEF TurnShape, TurnFields, OneReader
<1>3. Live' = Live /\ Live = receiver
  BY <1>1, <1>2 DEF Live
<1>4. RegistryTypeOK' /\ ClientsShape' /\ BindingShape' /\ Issued' = Issued
  BY <1>1 DEF registry, RegistryTypeOK, ClientsShape, KeptShape, ReadingShape, BindingShape, Issued, Handles
<1>5. ChannelsShape' /\ receiver \in 0..Len(chans)
  BY <1>1 DEF ChannelsShape
<1>6. TurnShape'
  BY <1>1, <1>2, <1>4, <1>5 DEF TurnShape, TurnPcs
<1>7. Fronted' /\ OneReader'
  BY <1>1, <1>2, <1>3 DEF Fronted, OneReader
<1>8. Begun' /\ AppliedFirst'
  BY <1>1, <1>2 DEF Begun, AppliedFirst
<1>9. QueuedRest' /\ AcceptedFor'
  BY <1>1, <1>2, <1>3 DEF QueuedRest, AcceptedFor, HasReceipt
<1>10. BoundToTurn'
  BY <1>1, <1>2 DEF BoundToTurn
<1>11. Undropped'
  <2>1. lifecycle' = lifecycle /\ binding' = binding /\ front' = front /\ dropped' = dropped
    BY <1>1 DEF registry
  <2>2. turn.pc = "ready" => front # "rpc"
    BY DEF Fronted
  <2> QED
    BY <1>1, <1>2, <1>3, <2>1, <2>2 DEF Undropped
<1> QED
  BY <1>4, <1>5, <1>6, <1>7, <1>8, <1>9, <1>10, <1>11

(* A prompt applies the first command that waits.                               *)
LEMMA ApplyStep ==
    ASSUME ControlInv, ApplyPromptControlCommand
    PROVE  ControlInv'
<1> USE DEF ControlInv
<1>1. /\ turn.pc = "streaming" /\ turn.rx # 0 /\ chans[turn.rx].queue # <<>>
      /\ applied' = Append(applied, Head(chans[turn.rx].queue))
      /\ chans' = [chans EXCEPT ![turn.rx].queue = Tail(@)]
      /\ UNCHANGED <<registry, sender, receiver, binding, receipts, drafts, reading, accepted,
                     front, prompts, result, dropped>>
  BY DEF ApplyPromptControlCommand
<1>2. /\ DOMAIN turn' = TurnFields /\ turn'.pc = turn.pc /\ turn'.op = turn.op /\ turn'.by = turn.by
      /\ turn'.rx = turn.rx /\ turn'.outcome = turn.outcome
  BY DEF ApplyPromptControlCommand, TurnShape, TurnFields
<1>3. turn.rx \in 1..Len(chans)
  BY <1>1 DEF TurnShape, ChannelsShape
<1>4. Live = turn.rx /\ Live' = turn.rx
  BY <1>1, <1>2 DEF Live
<1> DEFINE q == chans[turn.rx].queue
<1>5. /\ q \in Seq(Commands) /\ Len(q) \in Nat /\ Len(q) > 0 /\ Len(q) <= ChannelCapacity
      /\ Head(q) = q[1] /\ Head(q) \in Commands
      /\ Tail(q) \in Seq(Commands) /\ Len(Tail(q)) = Len(q) - 1
      /\ \A i \in 1..Len(Tail(q)) : Tail(q)[i] = q[i + 1]
  <2>1. q \in Seq(Commands) /\ Len(q) \in Nat /\ Len(q) <= ChannelCapacity /\ q # <<>>
    BY <1>1, <1>3, ChannelType
  <2> HIDE DEF q
  <2> QED
    BY <2>1
<1>6. chans' = [chans EXCEPT ![turn.rx].queue = Tail(q)]
  BY <1>1
<1>7. Len(accepted) = Len(applied) + Len(q) /\ \A i \in 1..Len(q) : accepted[Len(applied) + i] = q[i]
  BY <1>1, <1>4 DEF QueuedRest
<1>8. applied' = Append(applied, Head(q))
  BY <1>1
<1> HIDE DEF q
<1>9. /\ chans' \in Seq(Channels) /\ Len(chans') = Len(chans)
      /\ \A i \in 1..Len(chans) : i # turn.rx => chans'[i] = chans[i]
      /\ chans'[turn.rx].queue = Tail(q)
      /\ \A i \in 1..Len(chans') : Len(chans'[i].queue) <= ChannelCapacity
      /\ \A i \in 1..Len(chans') : chans'[i].open <=> chans[i].open
  <2>1. Len(Tail(q)) <= ChannelCapacity
    BY <1>5, ControlAssumption
  <2> QED
    BY <1>3, <1>5, <1>6, <2>1, QueueUpdate
<1>10. applied \in Seq(Commands) /\ accepted \in Seq(Commands) /\ Len(applied) \in Nat
  BY DEF ChannelsShape
<1>11. /\ applied' \in Seq(Commands) /\ Len(applied') = Len(applied) + 1
       /\ \A i \in 1..Len(applied) : applied'[i] = applied[i]
       /\ applied'[Len(applied) + 1] = q[1]
  BY <1>5, <1>8, <1>10
<1>12. RegistryTypeOK' /\ ClientsShape' /\ BindingShape' /\ Issued' = Issued
  BY <1>1, <1>9 DEF registry, RegistryTypeOK, ClientsShape, KeptShape, ReadingShape, BindingShape, Issued, Handles
<1>13. ChannelsShape'
  BY <1>1, <1>9, <1>11 DEF ChannelsShape
<1>14. TurnShape'
  BY <1>1, <1>2, <1>9, <1>12 DEF TurnShape
<1>15. OneReader'
  BY <1>1, <1>2, <1>4, <1>9 DEF OneReader
<1>16. Fronted' /\ Begun'
  BY <1>1, <1>2 DEF Fronted, Begun
<1>17. AppliedFirst'
  <2>1. accepted[Len(applied) + 1] = q[1]
    BY <1>5, <1>7
  <2>2. \A i \in 1..Len(applied') : i \in 1..Len(applied) \/ i = Len(applied) + 1
    BY <1>10, <1>11
  <2>3. \A i \in 1..Len(applied') : applied'[i] = accepted[i]
    BY <1>11, <2>1, <2>2 DEF AppliedFirst
  <2>4. Len(applied') <= Len(accepted)
    BY <1>5, <1>7, <1>10, <1>11
  <2> QED
    BY <1>1, <2>3, <2>4 DEF AppliedFirst
<1>18. QueuedRest'
  <2>1. Len(accepted) = Len(applied') + Len(Tail(q))
    BY <1>5, <1>7, <1>10, <1>11
  <2>2. ASSUME NEW i \in 1..Len(Tail(q)) PROVE accepted[Len(applied') + i] = Tail(q)[i]
    <3>1. i + 1 \in 1..Len(q) /\ Len(applied') + i = Len(applied) + (i + 1)
      BY <1>5, <1>10, <1>11
    <3> QED
      BY <3>1, <1>5, <1>7
  <2>3. chans'[Live'].queue = Tail(q) /\ accepted' = accepted
    BY <1>1, <1>4, <1>9
  <2> QED
    BY <2>1, <2>2, <2>3 DEF QueuedRest
<1>19. AcceptedFor'
  BY <1>1, <1>2 DEF AcceptedFor, HasReceipt
<1>20. BoundToTurn'
  BY <1>1, <1>2, <1>9 DEF BoundToTurn, BindingShape, NoBinding
<1>21. Undropped'
  BY <1>1, <1>2, <1>4 DEF Undropped, registry
<1> QED
  BY <1>12, <1>13, <1>14, <1>15, <1>16, <1>17, <1>18, <1>19, <1>20, <1>21

(* The flow is over, and its channel is closed.                                 *)
LEMMA EndFlowStep ==
    ASSUME ControlInv, turn.pc = "streaming", NEW outcome \in Outcomes \ {"none"}, EndFlow(outcome)
    PROVE  ControlInv'
<1> USE DEF ControlInv
<1>1. /\ turn' = [turn EXCEPT !.pc = "ended", !.outcome = outcome, !.rx = 0]
      /\ chans' = Closed(turn.rx)
      /\ UNCHANGED <<registry, sender, receiver, binding, receipts, drafts, reading, accepted,
                     front, prompts, applied, result, dropped>>
  BY DEF EndFlow
<1>2. /\ DOMAIN turn' = TurnFields /\ turn'.pc = "ended" /\ turn'.op = turn.op /\ turn'.by = turn.by
      /\ turn'.rx = 0 /\ turn'.outcome = outcome
  BY <1>1 DEF TurnShape, TurnFields
<1>3. turn.rx \in 0..Len(chans) /\ receiver = 0
  BY DEF TurnShape, OneReader
<1>4. /\ chans' \in Seq(Channels) /\ Len(chans') = Len(chans)
      /\ \A i \in 1..Len(chans') : Len(chans'[i].queue) <= ChannelCapacity
      /\ \A i \in 1..Len(chans') : chans'[i].open <=> chans[i].open /\ i # turn.rx
  BY <1>1, <1>3, ClosedUpdate
<1>5. Live' = 0 /\ \A i \in 1..Len(chans') : ~chans'[i].open
  BY <1>1, <1>2, <1>3, <1>4 DEF Live, OneReader
<1>6. RegistryTypeOK' /\ ClientsShape' /\ BindingShape' /\ Issued' = Issued
  BY <1>1, <1>4 DEF registry, RegistryTypeOK, ClientsShape, KeptShape, ReadingShape, BindingShape, Issued, Handles
<1>7. ChannelsShape'
  BY <1>1, <1>4 DEF ChannelsShape
<1>8. TurnShape'
  <2>1. 0 \in 0..Len(chans')
    BY <1>7 DEF ChannelsShape
  <2> QED
    BY <2>1, <1>1, <1>2, <1>6 DEF TurnShape, TurnPcs
<1>9. OneReader'
  <2>1. \A i \in 1..Len(chans') : i # 0
    BY <1>7 DEF ChannelsShape
  <2> QED
    BY <2>1, <1>1, <1>2, <1>3, <1>5 DEF OneReader
<1>10. Fronted' /\ Begun' /\ AppliedFirst' /\ QueuedRest'
  BY <1>1, <1>2, <1>5 DEF Fronted, Begun, AppliedFirst, QueuedRest
<1>11. AcceptedFor'
  BY <1>1, <1>2 DEF AcceptedFor, HasReceipt
<1>12. BoundToTurn'
  BY <1>1, <1>5, <1>6 DEF BoundToTurn, BindingShape, NoBinding
<1>13. Undropped'
  BY <1>1, <1>2 DEF Undropped
<1> QED
  BY <1>6, <1>7, <1>8, <1>9, <1>10, <1>11, <1>12, <1>13

(* run() returns, and both ends of its channel are cleared.                     *)
LEMMA ReturnStep ==
    ASSUME ControlInv, Return, result' = result, turn.pc # "idle"
    PROVE  ControlInv'
<1> USE DEF ControlInv
<1>1. /\ chans' = Closed(Live)
      /\ binding' = IF binding.st = "bound" /\ binding.op = turn.op THEN NoBinding ELSE binding
      /\ sender' = 0 /\ receiver' = 0 /\ turn' = NoTurn /\ accepted' = <<>> /\ applied' = <<>>
      /\ UNCHANGED <<registry, receipts, drafts, reading, front, prompts, dropped>>
  BY DEF Return, ClearPromptControl, Live
<1>2. /\ DOMAIN turn' = TurnFields /\ turn'.pc = "idle" /\ turn'.op = 0
      /\ turn'.rx = 0 /\ turn'.outcome = "none"
  BY <1>1, NoTurnFields
<1>3. Live \in 0..Len(chans)
  BY DEF TurnShape, ChannelsShape, Live
<1>4. /\ chans' \in Seq(Channels) /\ Len(chans') = Len(chans)
      /\ \A i \in 1..Len(chans') : Len(chans'[i].queue) <= ChannelCapacity
      /\ \A i \in 1..Len(chans') : chans'[i].open <=> chans[i].open /\ i # Live
  BY <1>1, <1>3, ClosedUpdate
<1>5. Live' = 0 /\ \A i \in 1..Len(chans') : ~chans'[i].open
  BY <1>1, <1>2, <1>4 DEF Live, OneReader
<1>6. RegistryTypeOK' /\ ClientsShape' /\ BindingShape'
  BY <1>1, <1>4 DEF registry, RegistryTypeOK, ClientsShape, KeptShape, ReadingShape, BindingShape, Issued, Handles
<1>7. ChannelsShape' /\ Len(chans') \in Nat
  BY <1>1, <1>4 DEF ChannelsShape
<1>8. TurnShape'
  <2>1. 0 \in 0..Len(chans') /\ 0 \in 0..prompts
    BY <1>7 DEF TurnShape
  <2> QED
    BY <2>1, <1>1, <1>2 DEF TurnShape, TurnPcs, Outcomes
<1>9. OneReader'
  <2>1. \A i \in 1..Len(chans') : i # 0
    BY <1>7
  <2> QED
    BY <2>1, <1>1, <1>2, <1>5 DEF OneReader
<1>10. Fronted' /\ Begun' /\ AppliedFirst' /\ QueuedRest' /\ AcceptedFor'
  BY <1>1, <1>2, <1>5 DEF Fronted, Begun, AppliedFirst, QueuedRest, AcceptedFor
<1>11. BoundToTurn'
  BY <1>5, <1>6 DEF BoundToTurn, BindingShape, NoBinding
<1>12. Undropped'
  <2>1. ~dropped => binding' = NoBinding
    BY <1>1 DEF Undropped, BindingShape
  <2> QED
    BY <2>1, <1>1, <1>2 DEF Undropped, NoBinding
<1> QED
  BY <1>6, <1>7, <1>8, <1>9, <1>10, <1>11, <1>12

(* The future of run() is dropped, and its channel is closed if it has one.      *)
LEMMA DropStep ==
    ASSUME ControlInv, DropFuture, Waiting \/ (front = "ui" /\ turn.pc = "ready")
    PROVE  ControlInv'
<1> USE DEF ControlInv
<1>1. /\ chans' = Closed(turn.rx) /\ turn' = NoTurn /\ dropped' = TRUE
      /\ accepted' = <<>> /\ applied' = <<>>
      /\ UNCHANGED <<registry, sender, receiver, binding, receipts, drafts, reading, front, prompts>>
  BY DEF DropFuture
<1>2. /\ DOMAIN turn' = TurnFields /\ turn'.pc = "idle" /\ turn'.op = 0
      /\ turn'.rx = 0 /\ turn'.outcome = "none"
  BY <1>1, NoTurnFields
<1>3. turn.rx \in 0..Len(chans) /\ (receiver # 0 => front = "ui" /\ turn.rx = 0)
  BY DEF TurnShape, OneReader, Waiting
<1>4. /\ chans' \in Seq(Channels) /\ Len(chans') = Len(chans)
      /\ \A i \in 1..Len(chans') : Len(chans'[i].queue) <= ChannelCapacity
      /\ \A i \in 1..Len(chans') : chans'[i].open <=> chans[i].open /\ i # turn.rx
  BY <1>1, <1>3, ClosedUpdate
<1>5. Live' = receiver
  BY <1>1, <1>2 DEF Live
<1>6. RegistryTypeOK' /\ ClientsShape' /\ BindingShape'
  BY <1>1, <1>4 DEF registry, RegistryTypeOK, ClientsShape, KeptShape, ReadingShape, BindingShape, Issued, Handles
<1>7. ChannelsShape' /\ Len(chans') \in Nat
  BY <1>1, <1>4 DEF ChannelsShape
<1>8. TurnShape'
  <2>1. 0 \in 0..Len(chans') /\ 0 \in 0..prompts
    BY <1>7 DEF TurnShape
  <2>2. result' \in PromptResults
    BY DEF DropFuture, PromptResults
  <2>3. dropped' \in BOOLEAN
    BY <1>1, Zenon
  <2> QED
    BY <2>1, <2>2, <2>3, <1>1, <1>2 DEF TurnShape, TurnPcs, Outcomes
<1>9. OneReader'
  <2>1. ASSUME NEW i \in 1..Len(chans') PROVE chans'[i].open <=> i = receiver
    <3>1. i # 0
      BY <1>7
    <3> QED
      BY <3>1, <1>3, <1>4 DEF OneReader, Live
  <2> QED
    BY <2>1, <1>1, <1>2, <1>5 DEF OneReader
<1>10. Fronted' /\ Begun' /\ AppliedFirst' /\ QueuedRest' /\ AcceptedFor'
  BY <1>1, <1>2, <1>3, <1>5 DEF Fronted, Begun, AppliedFirst, QueuedRest, AcceptedFor
<1>11. BoundToTurn'
  <2>1. front = "rpc" => receiver = 0
    BY <1>3
  <2>2. ASSUME binding.st = "bound" PROVE ~chans'[binding.chan].open
    <3>1. front = "rpc" /\ binding.chan \in 1..Len(chans')
      BY <1>4, <2>2 DEF Fronted, BindingShape, NoBinding
    <3> QED
      BY <3>1, <2>1, <1>1, <1>2, <1>7, <1>9 DEF OneReader, Live
  <2> QED
    BY <2>2, <1>1 DEF BoundToTurn
<1>12. Undropped'
  BY <1>1 DEF Undropped
<1> QED
  BY <1>6, <1>7, <1>8, <1>9, <1>10, <1>11, <1>12

(* A control of the terminal's prompt task.                                      *)
LEMMA TaskStep ==
    ASSUME ControlInv, NEW kind \in ControlKinds, NEW text \in Texts, TaskControl(kind, text)
    PROVE  ControlInv'
<1> USE DEF ControlInv
<1>1. front = "ui" /\ (turn.pc = "ready" \/ Waiting)
  BY DEF TaskControl
<1>2. CASE DropFuture
  BY <1>1, <1>2, DropStep
<1>3. CASE ~DropFuture
  <2>1. PICK command : command = Command(kind, text, turn.op, 0)
    OBVIOUS
  <2>2. /\ CanSend(sender) /\ Send(sender, command)
        /\ UNCHANGED <<registry, sender, receiver, binding, receipts, drafts, reading, promptVars>>
    BY <1>3, <2>1 DEF TaskControl
  <2>3. command \in Commands /\ command.op = turn.op /\ command.id = 0
    BY <2>1 DEF Command, Commands, TurnShape
  <2>4. turn.pc \notin {"idle", "committed"}
    BY <1>1 DEF Waiting
  <2>5. sender \in 1..Len(chans)
    BY <1>1, <2>4 DEF Fronted, ChannelsShape
  <2>6. ClientsShape' /\ \A c \in Clients : receipts[c] \subseteq receipts'[c]
    BY <2>2 DEF ClientsShape, KeptShape, ReadingShape
  <2> QED
    BY <2>2, <2>3, <2>4, <2>5, <2>6, SendStep
<1> QED
  BY <1>2, <1>3

(* An event that is recorded changes only what the transaction holds.           *)
LEMMA RecordedTurn ==
    ASSUME TurnShape, NEW event \in AgentEvents, event.kind # "AgentError"
    PROVE  /\ DOMAIN Recorded(event) = TurnFields
           /\ Recorded(event).pc = turn.pc /\ Recorded(event).op = turn.op
           /\ Recorded(event).by = turn.by /\ Recorded(event).rx = turn.rx
           /\ Recorded(event).outcome = turn.outcome
           /\ (Recorded(event).abort <=> turn.abort) /\ (Recorded(event).heeded <=> turn.heeded)
<1>1. DOMAIN turn = TurnFields
  BY DEF TurnShape
<1>2. PICK e : e = Ensured(event.call)
  OBVIOUS
<1>3. /\ DOMAIN e = TurnFields /\ e.pc = turn.pc /\ e.op = turn.op /\ e.by = turn.by /\ e.rx = turn.rx
      /\ e.outcome = turn.outcome /\ (e.abort <=> turn.abort) /\ (e.heeded <=> turn.heeded)
  BY <1>1, <1>2 DEF Ensured, TurnFields
<1>4. event.kind \in AgentEventKinds
  BY DEF AgentEvents
<1>5. CASE event.kind \in {"start", "update"}
  BY <1>2, <1>3, <1>5 DEF Recorded
<1>6. CASE event.kind = "end"
  <2>1. Recorded(event) = [e EXCEPT !.calls = @ \ {IdOf(event.call)}]
    BY <1>2, <1>6 DEF Recorded
  <2> QED
    BY <2>1, <1>3 DEF TurnFields
<1>7. CASE event.kind \in {"part", "reply", "bad", "AgentDone"}
  BY <1>1, <1>7 DEF Recorded, TurnFields
<1> QED
  BY <1>4, <1>5, <1>6, <1>7 DEF AgentEventKinds

(* Every step of the flow keeps the invariant of the channels.                   *)
LEMMA ControlStep ==
    ASSUME ControlInv, events \in Seq(AgentEvents), [PromptNext]_promptTurnVars
    PROVE  ControlInv'
<1> USE DEF ControlInv
<1>1. ASSUME Client PROVE ControlInv'
  BY <1>1, ClientStep
<1>2. ASSUME MakeHandle PROVE ControlInv'
  BY <1>2, MakeHandleStep
<1>3. ASSUME PlainPrompt \/ \E h \in Issued : SubmitPrompt(h) PROVE ControlInv'
  BY <1>3, BeginStep
<1>4. ASSUME BindPrompt PROVE ControlInv'
  BY <1>4, BindStep
<1>5. ASSUME Prepare PROVE ControlInv'
  BY <1>5, PrepareStep
<1>6. ASSUME PrepareFails \/ RunEnds PROVE ControlInv'
  BY <1>6, ReturnStep DEF PrepareFails, RunEnds
<1>7. ASSUME BeginStream \/ FlowFails PROVE ControlInv'
  <2>1. /\ turn.pc = "prepared"
        /\ UNCHANGED <<registry, control, front, prompts, applied, result, dropped>>
    BY <1>7 DEF BeginStream, FlowFails
  <2>2. /\ DOMAIN turn' = TurnFields /\ turn'.op = turn.op /\ turn'.by = turn.by /\ turn'.rx = turn.rx
        /\ \/ turn'.pc = "streaming" /\ turn'.outcome = turn.outcome
           \/ turn'.pc = "ended" /\ turn'.outcome \in {"aborted", "failed"}
    BY <1>7 DEF BeginStream, FlowFails, Failure, TurnShape, TurnFields
  <2>3. TurnShape'
    BY <2>1, <2>2 DEF TurnShape, TurnPcs, Outcomes, control, registry, Issued, Handles
  <2> QED
    BY <2>1, <2>2, <2>3, FlowStep
<1>8. ASSUME AgentStep \/ PollStream PROVE ControlInv'
  <2>1. UNCHANGED <<registry, control, front, prompts, applied, result, dropped>>
    BY <1>8 DEF AgentStep, PollStream, AgentCancelled, AgentRequest, AgentReply, AgentDecide,
       AgentTools, AgentNext, Ahead
  <2>2. turn' = turn \/ turn' = [turn EXCEPT !.polled = TRUE]
    BY <1>8 DEF AgentStep, PollStream, AgentCancelled, AgentRequest, AgentReply, AgentDecide,
       AgentTools, AgentNext, Ahead
  <2>3. /\ DOMAIN turn' = TurnFields /\ turn'.op = turn.op /\ turn'.by = turn.by /\ turn'.rx = turn.rx
        /\ turn'.pc = turn.pc /\ turn'.outcome = turn.outcome
    BY <2>2 DEF TurnShape, TurnFields
  <2>4. TurnShape'
    BY <2>1, <2>3 DEF TurnShape, control, registry, Issued, Handles
  <2> QED
    BY <2>1, <2>3, <2>4, FlowStep
<1>9. ASSUME ApplyPromptControlCommand PROVE ControlInv'
  BY <1>9, ApplyStep
<1>10. ASSUME RecordEvent PROVE ControlInv'
  <2>1. /\ turn.pc = "streaming" /\ events # <<>> /\ Head(events) \in AgentEvents
    BY <1>10 DEF RecordEvent
  <2>2. CASE Head(events).kind = "AgentError" \/ Refused(Head(events))
    <3>1. EndFlow(Failure)
      BY <1>10, <2>2 DEF RecordEvent
    <3>2. Failure \in Outcomes \ {"none"}
      BY DEF Failure, Outcomes
    <3> QED
      BY <2>1, <3>1, <3>2, EndFlowStep
  <2>3. CASE ~(Head(events).kind = "AgentError" \/ Refused(Head(events)))
    <3>1. /\ turn' = [Recorded(Head(events)) EXCEPT !.polled = FALSE]
          /\ UNCHANGED <<registry, control, front, prompts, applied, result, dropped>>
      BY <1>10, <2>3 DEF RecordEvent
    <3>2. PICK r : r = Recorded(Head(events))
      OBVIOUS
    <3>3. /\ DOMAIN r = TurnFields /\ r.op = turn.op /\ r.by = turn.by /\ r.rx = turn.rx
          /\ r.pc = turn.pc /\ r.outcome = turn.outcome
      BY <2>1, <2>3, <3>2, RecordedTurn
    <3>4. /\ DOMAIN turn' = TurnFields /\ turn'.op = turn.op /\ turn'.by = turn.by /\ turn'.rx = turn.rx
          /\ turn'.pc = turn.pc /\ turn'.outcome = turn.outcome
      BY <3>1, <3>2, <3>3 DEF TurnFields
    <3>5. TurnShape'
      BY <3>1, <3>4 DEF TurnShape, control, registry, Issued, Handles
    <3> QED
      BY <3>1, <3>4, <3>5, FlowStep
  <2> QED
    BY <2>2, <2>3
<1>11. ASSUME EndStream PROVE ControlInv'
  <2>1. turn.pc = "streaming" /\ (EndFlow("success") \/ EndFlow(Failure))
    BY <1>11 DEF EndStream
  <2>2. "success" \in Outcomes \ {"none"} /\ Failure \in Outcomes \ {"none"}
    BY DEF Failure, Outcomes
  <2> QED
    BY <2>1, <2>2, EndFlowStep
<1>12. ASSUME AuthorizeFails \/ \E written \in BOOLEAN : Finalize(written) PROVE ControlInv'
  <2>1. /\ turn.pc = "ended" /\ UNCHANGED <<registry, control, front, prompts, applied, dropped>>
    BY <1>12 DEF AuthorizeFails, Finalize
  <2>2. /\ DOMAIN turn' = TurnFields /\ turn'.op = turn.op /\ turn'.by = turn.by /\ turn'.rx = turn.rx
        /\ turn'.pc \in {"ended", "finalized"} /\ turn'.outcome \in {turn.outcome, "failed"}
    BY <1>12 DEF AuthorizeFails, Finalize, TurnShape, TurnFields
  <2>3. turn.outcome \in Outcomes \ {"none"}
    BY <2>1 DEF TurnShape
  <2>4. result' \in PromptResults
    BY <1>12, <2>3 DEF AuthorizeFails, Finalize, PromptResults, Outcomes, TurnShape
  <2>5. TurnShape'
    BY <2>1, <2>2, <2>3, <2>4 DEF TurnShape, TurnPcs, Outcomes, control, registry, Issued, Handles
  <2> QED
    BY <2>1, <2>2, <2>5, FlowStep
<1>13. ASSUME DropRun PROVE ControlInv'
  BY <1>13, DropStep DEF DropRun
<1>14. ASSUME NEW kind \in ControlKinds, NEW text \in Texts, TaskControl(kind, text) PROVE ControlInv'
  BY <1>14, TaskStep
<1>15. ASSUME UNCHANGED promptTurnVars PROVE ControlInv'
  <2>1. UNCHANGED <<registry, control, front, prompts, applied, result, dropped, turn>>
    BY <1>15 DEF promptTurnVars
  <2>2. TurnShape'
    BY <2>1 DEF TurnShape, control, registry, Issued, Handles
  <2> QED
    BY <2>1, <2>2, FlowStep
<1> QED
  BY <1>1, <1>2, <1>3, <1>4, <1>5, <1>6, <1>7, <1>8, <1>9, <1>10, <1>11, <1>12, <1>13, <1>14, <1>15
  DEF PromptNext, Stream

(***************************************************************************)
(* An abort ends a working prompt as aborted.                                *)
(***************************************************************************)
(* What a sequence of events has after others are appended to it.             *)
LEMMA EventsAppended ==
    ASSUME NEW s \in Seq(AgentEvents), NEW t \in Seq(AgentEvents)
    PROVE  /\ s \o t \in Seq(AgentEvents) /\ Len(s \o t) = Len(s) + Len(t)
           /\ Len(s) \in Nat /\ Len(t) \in Nat
           /\ \A i \in 1..Len(s) : (s \o t)[i] = s[i]
           /\ \A i \in 1..Len(t) : (s \o t)[Len(s) + i] = t[i]
           /\ \A i \in 1..Len(s \o t) :
                i \in 1..Len(s) \/ (i - Len(s) \in 1..Len(t) /\ (s \o t)[i] = t[i - Len(s)])
OBVIOUS

(* An event is an event.                                                     *)
LEMMA EventType ==
    ASSUME NEW kind \in AgentEventKinds, NEW call \in Nat
    PROVE  /\ AgentEvent(kind, call) \in AgentEvents
           /\ AgentEvent(kind, call).kind = kind /\ AgentEvent(kind, call).call = call
BY DEF AgentEvent, AgentEvents

(* The sequences of no and of one event.                                      *)
LEMMA ShortEvents ==
    /\ <<>> \in Seq(AgentEvents) /\ Len(<<>>) = 0
    /\ \A e \in AgentEvents : <<e>> \in Seq(AgentEvents) /\ Len(<<e>>) = 1 /\ <<e>>[1] = e
OBVIOUS

(* The events that end a stream.                                              *)
LEMMA LastEvents ==
    /\ Done \in Seq(AgentEvents) /\ Len(Done) = 1 /\ Done[1].kind = "AgentDone" /\ Done[1].call = 0
    /\ PromptFailed \in Seq(AgentEvents) /\ Len(PromptFailed) = 1
    /\ PromptFailed[1].kind = "AgentError" /\ PromptFailed[1].call = 0
<1>1. AgentEvent("AgentDone", 0) \in AgentEvents /\ AgentEvent("AgentError", 0) \in AgentEvents
  BY EventType DEF AgentEventKinds
<1>2. /\ AgentEvent("AgentDone", 0).kind = "AgentDone" /\ AgentEvent("AgentDone", 0).call = 0
      /\ AgentEvent("AgentError", 0).kind = "AgentError" /\ AgentEvent("AgentError", 0).call = 0
  BY DEF AgentEvent
<1> QED
  BY <1>1, <1>2, ShortEvents DEF Done, PromptFailed

(* The end of a failed reply.                                                  *)
LEMMA BadEnd ==
    ASSUME NEW bad \in {<<>>, <<AgentEvent("bad", 0)>>}
    PROVE  /\ bad \o PromptFailed \in Seq(AgentEvents)
           /\ Len(bad \o PromptFailed) \in {1, 2}
           /\ (bad \o PromptFailed)[Len(bad \o PromptFailed)].kind = "AgentError"
           /\ \A i \in 1..Len(bad \o PromptFailed) :
                /\ (bad \o PromptFailed)[i].kind \in {"bad", "AgentError"}
                /\ (bad \o PromptFailed)[i].call = 0
<1>1. /\ AgentEvent("bad", 0) \in AgentEvents
      /\ AgentEvent("bad", 0).kind = "bad" /\ AgentEvent("bad", 0).call = 0
  BY EventType DEF AgentEventKinds
<1>2. /\ bad \in Seq(AgentEvents) /\ Len(bad) \in {0, 1}
      /\ \A i \in 1..Len(bad) : bad[i].kind = "bad" /\ bad[i].call = 0
  <2>1. CASE bad = <<>>
    BY <2>1, ShortEvents
  <2>2. CASE bad = <<AgentEvent("bad", 0)>>
    BY <2>2, <1>1, ShortEvents
  <2> QED
    BY <2>1, <2>2
<1>3. PICK all : all = bad \o PromptFailed
  OBVIOUS
<1>4. /\ all \in Seq(AgentEvents) /\ Len(all) = Len(bad) + 1
      /\ \A i \in 1..Len(bad) : all[i] = bad[i]
      /\ all[Len(bad) + 1] = PromptFailed[1]
  <2>1. /\ all \in Seq(AgentEvents) /\ Len(all) = Len(bad) + Len(PromptFailed)
        /\ \A i \in 1..Len(bad) : all[i] = bad[i]
        /\ \A i \in 1..Len(PromptFailed) : all[Len(bad) + i] = PromptFailed[i]
    BY <1>2, <1>3, LastEvents, EventsAppended
  <2> QED
    BY <2>1, LastEvents
<1>5. \A i \in 1..Len(all) : i \in 1..Len(bad) \/ i = Len(bad) + 1
  BY <1>2, <1>4
<1> QED
  BY <1>2, <1>3, <1>4, <1>5, LastEvents

(* A function on the first numbers is a sequence.                               *)
LEMMA FunctionIsSeq ==
    ASSUME NEW S, NEW n \in Nat, NEW f \in [1..n -> S]
    PROVE  f \in Seq(S) /\ Len(f) = n
<1>1. f \in Seq(S)
  BY SeqDef
<1>2. Len(f) \in Nat /\ 1..n = 1..Len(f)
  BY <1>1, LenProperties
<1>3. \A k \in Nat : k \in 1..n <=> k \in 1..Len(f)
  BY <1>2
<1>4. (n \in 1..n \/ n = 0) /\ (Len(f) \in 1..Len(f) \/ Len(f) = 0)
  BY <1>2
<1> QED
  BY <1>1, <1>2, <1>3, <1>4

(* The events of a batch of tools that start.                                  *)
LEMMA StartBatch ==
    ASSUME NEW first \in Nat \ {0}, NEW n \in Nat, NEW batch, DOMAIN batch = 1..n,
           batch = [i \in DOMAIN batch |-> batch[i]],
           \A i \in 1..n : batch[i] = AgentEvent("start", first + i - 1)
    PROVE  /\ batch \in Seq(AgentEvents) /\ Len(batch) = n
           /\ \A i \in 1..n : batch[i].kind = "start" /\ batch[i].call = first + i - 1
<1>1. \A i \in 1..n : /\ AgentEvent("start", first + i - 1) \in AgentEvents
                      /\ AgentEvent("start", first + i - 1).kind = "start"
                      /\ AgentEvent("start", first + i - 1).call = first + i - 1
  <2> TAKE i \in 1..n
  <2>1. first + i - 1 \in Nat /\ "start" \in AgentEventKinds
    BY DEF AgentEventKinds
  <2> QED
    BY <2>1, EventType
<1>2. batch \in [1..n -> AgentEvents]
  BY <1>1
<1>3. batch \in Seq(AgentEvents) /\ Len(batch) = n
  BY <1>2, FunctionIsSeq
<1> QED
  BY <1>1, <1>3

(* The events of a tool that ends, with an update before or without.            *)
LEMMA EndOfCall ==
    ASSUME NEW call \in Nat, NEW before \in Seq(AgentEvents), Len(before) \in {0, 1},
           \A i \in 1..Len(before) : before[i] = AgentEvent("update", call),
           NEW emitted, emitted = before \o <<AgentEvent("end", call)>>
    PROVE  /\ emitted \in Seq(AgentEvents) /\ Len(emitted) \in {1, 2}
           /\ emitted[Len(emitted)].kind = "end"
           /\ \A i \in 1..Len(emitted) :
                emitted[i].kind \in {"update", "end"} /\ emitted[i].call = call
<1>1. /\ AgentEvent("update", call) \in AgentEvents /\ AgentEvent("end", call) \in AgentEvents
      /\ AgentEvent("update", call).kind = "update" /\ AgentEvent("update", call).call = call
      /\ AgentEvent("end", call).kind = "end" /\ AgentEvent("end", call).call = call
  BY EventType DEF AgentEventKinds
<1>4. PICK last : last = <<AgentEvent("end", call)>>
  OBVIOUS
<1>5. last \in Seq(AgentEvents) /\ Len(last) = 1 /\ last[1] = AgentEvent("end", call)
  BY <1>1, <1>4, ShortEvents
<1>6. /\ emitted \in Seq(AgentEvents) /\ Len(emitted) = Len(before) + 1
      /\ \A i \in 1..Len(before) : emitted[i] = before[i]
      /\ emitted[Len(before) + 1] = last[1]
  <2>1. emitted = before \o last
    BY <1>4
  <2>2. /\ emitted \in Seq(AgentEvents) /\ Len(emitted) = Len(before) + Len(last)
        /\ \A i \in 1..Len(before) : emitted[i] = before[i]
        /\ \A i \in 1..Len(last) : emitted[Len(before) + i] = last[i]
    BY <2>1, <1>5, EventsAppended
  <2> QED
    BY <2>2, <1>5
<1>7. \A i \in 1..Len(emitted) : i \in 1..Len(before) \/ i = Len(before) + 1
  BY <1>6
<1> QED
  BY <1>1, <1>5, <1>6, <1>7

(* No agent, and what it consists of.                                          *)
LEMMA NoAgentFields ==
    /\ DOMAIN NoAgent = AgentFields
    /\ NoAgent.phase = "over" /\ ~NoAgent.cancelled /\ NoAgent.turns = 0 /\ NoAgent.made = 0
    /\ NoAgent.todo = {} /\ NoAgent.running = {}
BY DEF NoAgent, AgentFields

(* The moves of an agent: what it sends, and where that leaves it.              *)
Moved(e, phase, made, todo, running) ==
    /\ e \in Seq(AgentEvents) /\ events' = events \o e
    /\ DOMAIN agent' = AgentFields /\ agent'.turns \in Nat
    /\ agent'.phase = phase /\ agent'.made = made /\ agent'.todo = todo /\ agent'.running = running
    /\ agent'.cancelled <=> agent.cancelled

MoveFails ==
    \E e \in Seq(AgentEvents) :
        /\ agent.phase \in {"turn", "reply", "decide", "next"}
        /\ Moved(e, "over", agent.made, agent.todo, agent.running)
        /\ Len(e) \in {1, 2} /\ e[Len(e)].kind = "AgentError"
        /\ \A i \in 1..Len(e) : e[i].kind \in {"bad", "AgentError"} /\ e[i].call = 0

MoveOn ==
    \E phase \in {"reply", "next", "tools", "turn"} :
        /\ Moved(<<>>, phase, agent.made, agent.todo, agent.running)
        /\ \/ agent.phase = "turn" /\ phase = "reply"
           \/ agent.phase = "decide" /\ phase = "next" /\ agent.todo = {}
           \/ agent.phase = "decide" /\ phase = "tools"
           \/ agent.phase = "tools" /\ phase = "next" /\ agent.todo = {} /\ agent.running = {}
           \/ agent.phase = "next" /\ phase = "turn"

MovePart ==
    \E e \in Seq(AgentEvents) :
        /\ agent.phase = "reply"
        /\ Moved(e, "reply", agent.made, agent.todo, agent.running)
        /\ Len(e) = 1 /\ e[1].kind = "part" /\ e[1].call = 0

MoveReply ==
    \E e \in Seq(AgentEvents), n \in Nat :
        /\ agent.phase = "reply"
        /\ Moved(e, "decide", agent.made + n, (agent.made + 1)..(agent.made + n), agent.running)
        /\ Len(e) = 1 /\ e[1].kind = "reply" /\ e[1].call = 0

MoveStart ==
    \E e \in Seq(AgentEvents), low \in 1..agent.made, n \in Nat \ {0} :
        /\ agent.phase = "tools" /\ agent.running = {} /\ agent.todo = low..agent.made
        /\ low + n - 1 <= agent.made
        /\ Moved(e, "tools", agent.made, (low + n)..agent.made, low..(low + n - 1))
        /\ Len(e) = n /\ \A i \in 1..n : e[i].kind = "start" /\ e[i].call = low + i - 1

MoveEnd ==
    \E e \in Seq(AgentEvents), call \in agent.running :
        /\ agent.phase = "tools"
        /\ Moved(e, "tools", agent.made, agent.todo, agent.running \ {call})
        /\ Len(e) \in {1, 2} /\ e[Len(e)].kind = "end"
        /\ \A i \in 1..Len(e) : e[i].kind \in {"update", "end"} /\ e[i].call = call

MoveDone ==
    \E e \in Seq(AgentEvents) :
        /\ agent.phase = "next" /\ ~agent.cancelled
        /\ Moved(e, "over", agent.made, agent.todo, agent.running)
        /\ Len(e) = 1 /\ e[1].kind = "AgentDone" /\ e[1].call = 0

(* The calls to do after a batch of them.                                         *)
LEMMA TodoRest ==
    ASSUME NEW low \in Int, NEW made \in Int, NEW n \in Nat
    PROVE  (low..made) \ (low..(low + n - 1)) = (low + n)..made
OBVIOUS

(* Every step of the agent is one of these moves.                                *)
LEMMA AgentMoves ==
    ASSUME AgentShape, AgentCalls, AgentStep
    PROVE  /\ turn.pc = "streaming" /\ turn.polled
           /\ UNCHANGED <<registry, control, front, turn, prompts, applied, result, dropped>>
           /\ MoveFails \/ MoveOn \/ MovePart \/ MoveReply \/ MoveStart \/ MoveEnd \/ MoveDone
<1>1. DOMAIN agent = AgentFields /\ agent.turns \in Nat /\ agent.made \in Nat /\ events \in Seq(AgentEvents)
  BY DEF AgentShape
<1>2. /\ turn.pc = "streaming" /\ turn.polled
      /\ UNCHANGED <<registry, control, front, turn, prompts, applied, result, dropped>>
  BY DEF AgentStep, AgentCancelled, AgentRequest, AgentReply, AgentDecide, AgentTools, AgentNext, Ahead
<1> SUFFICES MoveFails \/ MoveOn \/ MovePart \/ MoveReply \/ MoveStart \/ MoveEnd \/ MoveDone
  BY <1>2
<1>3. ASSUME NEW e \in Seq(AgentEvents), Ahead(e, Over)
      PROVE  Moved(e, "over", agent.made, agent.todo, agent.running)
  <2>1. PICK next : next = [agent EXCEPT !.phase = "over"]
    OBVIOUS
  <2>2. /\ DOMAIN next = AgentFields /\ next.turns = agent.turns /\ next.made = agent.made
        /\ next.phase = "over" /\ next.todo = agent.todo /\ next.running = agent.running
        /\ (next.cancelled <=> agent.cancelled)
    BY <1>1, <2>1 DEF AgentFields
  <2>3. agent' = next /\ events' = events \o e
    BY <1>3, <2>1 DEF Ahead, Over
  <2> QED
    BY <1>1, <2>2, <2>3 DEF Moved
<1>4. ASSUME Ahead(PromptFailed, Over), agent.phase \in {"turn", "reply", "decide", "next"} PROVE MoveFails
  <2>1. Moved(PromptFailed, "over", agent.made, agent.todo, agent.running)
    BY <1>3, <1>4, LastEvents
  <2>2. \A i \in 1..Len(PromptFailed) :
            PromptFailed[i].kind \in {"bad", "AgentError"} /\ PromptFailed[i].call = 0
    BY LastEvents
  <2> QED
    BY <1>4, <2>1, <2>2, LastEvents DEF MoveFails
<1>5. ASSUME NEW phase, Ahead(<<>>, [agent EXCEPT !.phase = phase])
      PROVE  Moved(<<>>, phase, agent.made, agent.todo, agent.running)
  <2>1. PICK next : next = [agent EXCEPT !.phase = phase]
    OBVIOUS
  <2>2. /\ DOMAIN next = AgentFields /\ next.turns = agent.turns /\ next.made = agent.made
        /\ next.phase = phase /\ next.todo = agent.todo /\ next.running = agent.running
        /\ (next.cancelled <=> agent.cancelled)
    BY <1>1, <2>1 DEF AgentFields
  <2>3. agent' = next /\ events' = events \o <<>>
    BY <1>5, <2>1 DEF Ahead
  <2> QED
    BY <1>1, <2>2, <2>3, ShortEvents DEF Moved
<1>6. CASE AgentCancelled
  BY <1>4, <1>6 DEF AgentCancelled
<1>7. CASE AgentRequest
  <2>0. agent.phase = "turn"
    BY <1>7 DEF AgentRequest
  <2>1. CASE Ahead(PromptFailed, Over)
    BY <1>4, <2>0, <2>1
  <2>2. CASE ~Ahead(PromptFailed, Over)
    <3>1. PICK next : next = [agent EXCEPT !.phase = "reply", !.turns = @ + 1, !.queued = FALSE, !.part = FALSE]
      OBVIOUS
    <3>2. agent' = next /\ events' = events \o <<>>
      BY <1>7, <2>2, <3>1 DEF AgentRequest, Ahead
    <3>3. /\ DOMAIN next = AgentFields /\ next.phase = "reply" /\ next.turns = agent.turns + 1
          /\ next.made = agent.made /\ (next.cancelled <=> agent.cancelled)
          /\ next.todo = agent.todo /\ next.running = agent.running
      BY <1>1, <3>1 DEF AgentFields
    <3>4. Moved(<<>>, "reply", agent.made, agent.todo, agent.running)
      BY <1>1, <3>2, <3>3, ShortEvents DEF Moved
    <3> QED
      BY <2>0, <3>4 DEF MoveOn
  <2> QED
    BY <2>1, <2>2
<1>8. CASE AgentReply
  <2>1. agent.phase = "reply"
    BY <1>8 DEF AgentReply
  <2>2. ASSUME Ahead(<<AgentEvent("part", 0)>>, [agent EXCEPT !.part = TRUE]) PROVE MovePart
    <3>1. /\ AgentEvent("part", 0) \in AgentEvents /\ AgentEvent("part", 0).kind = "part"
          /\ AgentEvent("part", 0).call = 0
      BY EventType DEF AgentEventKinds
    <3>2. PICK e : e = <<AgentEvent("part", 0)>>
      OBVIOUS
    <3>3. e \in Seq(AgentEvents) /\ Len(e) = 1 /\ e[1].kind = "part" /\ e[1].call = 0
      BY <3>1, <3>2, ShortEvents
    <3>4. PICK next : next = [agent EXCEPT !.part = TRUE]
      OBVIOUS
    <3>5. /\ DOMAIN next = AgentFields /\ next.phase = "reply" /\ next.turns = agent.turns
          /\ next.made = agent.made /\ (next.cancelled <=> agent.cancelled)
          /\ next.todo = agent.todo /\ next.running = agent.running
      BY <1>1, <2>1, <3>4 DEF AgentFields
    <3>6. agent' = next /\ events' = events \o e
      BY <2>2, <3>2, <3>4 DEF Ahead
    <3>7. Moved(e, "reply", agent.made, agent.todo, agent.running)
      BY <1>1, <3>3, <3>5, <3>6 DEF Moved
    <3> QED
      BY <2>1, <3>3, <3>7 DEF MovePart
  <2>3. ASSUME NEW n \in 0..(MaxCalls[front] - agent.made),
               Ahead(<<AgentEvent("reply", 0)>>,
                  [agent EXCEPT !.phase = "decide", !.todo = (agent.made + 1)..(agent.made + n),
                                !.made = @ + n])
        PROVE  MoveReply
    <3>1. /\ AgentEvent("reply", 0) \in AgentEvents /\ AgentEvent("reply", 0).kind = "reply"
          /\ AgentEvent("reply", 0).call = 0
      BY EventType DEF AgentEventKinds
    <3>2. PICK e : e = <<AgentEvent("reply", 0)>>
      OBVIOUS
    <3>3. e \in Seq(AgentEvents) /\ Len(e) = 1 /\ e[1].kind = "reply" /\ e[1].call = 0
      BY <3>1, <3>2, ShortEvents
    <3>4. PICK next : next = [agent EXCEPT !.phase = "decide", !.todo = (agent.made + 1)..(agent.made + n),
                                !.made = @ + n]
      OBVIOUS
    <3>5. /\ DOMAIN next = AgentFields /\ next.phase = "decide" /\ next.turns = agent.turns
          /\ next.made = agent.made + n /\ (next.cancelled <=> agent.cancelled)
          /\ next.todo = (agent.made + 1)..(agent.made + n) /\ next.running = agent.running
      BY <1>1, <2>1, <3>4 DEF AgentFields
    <3>6. agent' = next /\ events' = events \o e
      BY <2>3, <3>2, <3>4 DEF Ahead
    <3>7. n \in Nat
      BY <1>1
    <3>8. Moved(e, "decide", agent.made + n, (agent.made + 1)..(agent.made + n), agent.running)
      BY <1>1, <3>3, <3>5, <3>6 DEF Moved
    <3> QED
      BY <2>1, <3>3, <3>7, <3>8 DEF MoveReply
  <2>4. ASSUME NEW bad \in {<<>>, <<AgentEvent("bad", 0)>>}, Ahead(bad \o PromptFailed, Over)
        PROVE  MoveFails
    <3>1. PICK e : e = bad \o PromptFailed
      OBVIOUS
    <3>2. /\ e \in Seq(AgentEvents) /\ Len(e) \in {1, 2} /\ e[Len(e)].kind = "AgentError"
          /\ \A i \in 1..Len(e) : e[i].kind \in {"bad", "AgentError"} /\ e[i].call = 0
      BY <3>1, BadEnd
    <3>3. Moved(e, "over", agent.made, agent.todo, agent.running)
      BY <1>3, <2>4, <3>1, <3>2
    <3> QED
      BY <2>1, <3>2, <3>3 DEF MoveFails
  <2> QED
    BY <1>8, <2>2, <2>3, <2>4 DEF AgentReply
<1>9. CASE AgentDecide
  <2>1. agent.phase = "decide"
    BY <1>9 DEF AgentDecide
  <2>2. CASE Ahead(PromptFailed, Over)
    BY <1>4, <2>1, <2>2
  <2>3. CASE ~Ahead(PromptFailed, Over)
    <3>1. PICK phase : phase = IF agent.todo = {} THEN "next" ELSE "tools"
      OBVIOUS
    <3>2. Ahead(<<>>, [agent EXCEPT !.phase = phase])
      BY <1>9, <2>3, <3>1 DEF AgentDecide
    <3>3. Moved(<<>>, phase, agent.made, agent.todo, agent.running)
      BY <1>5, <3>2
    <3>4. (phase = "next" /\ agent.todo = {}) \/ phase = "tools"
      BY <3>1
    <3> QED
      BY <2>1, <3>3, <3>4 DEF MoveOn
  <2> QED
    BY <2>2, <2>3
<1>10. CASE AgentTools
  <2>1. agent.phase = "tools"
    BY <1>10 DEF AgentTools
  <2> DEFINE first == CHOOSE call \in agent.todo : \A other \in agent.todo : call <= other
  <2>2. ASSUME NEW n \in 1..Cardinality(agent.todo), agent.todo # {}, agent.running = {},
               n \in {1, Cardinality(agent.todo)},
               Ahead([i \in 1..n |-> AgentEvent("start", first + i - 1)],
                     [agent EXCEPT !.running = first..(first + n - 1),
                                   !.todo = @ \ (first..(first + n - 1))])
        PROVE  MoveStart
    <3>1. PICK low \in 1..(agent.made + 1) : agent.todo = low..agent.made
      BY DEF AgentCalls
    <3>2. /\ low \in 1..agent.made /\ first = low /\ n \in Nat \ {0} /\ low + n - 1 <= agent.made
          /\ agent.todo \ (low..(low + n - 1)) = (low + n)..agent.made
      <4>0. low \in agent.todo /\ \A other \in agent.todo : low <= other
        BY <1>1, <2>2, <3>1
      <4>1. first \in agent.todo /\ \A other \in agent.todo : first <= other
        BY <4>0
      <4>2. low \in 1..agent.made /\ n \in {1, Cardinality(low..agent.made)}
        BY <1>1, <2>2, <3>1, <4>0
      <4>3. first \in low..agent.made /\ \A other \in low..agent.made : first <= other
        BY <3>1, <4>1
      <4> HIDE DEF first
      <4>4. /\ first = low /\ n \in Nat \ {0} /\ low + n - 1 <= agent.made
            /\ (low..agent.made) \ (low..(low + n - 1)) = (low + n)..agent.made
        <5>1. first = low
          <6>1. first <= low /\ low <= first /\ first \in Int /\ low \in Int
            BY <1>1, <3>1, <4>0, <4>3
          <6> QED
            BY <6>1
        <5>2. Cardinality(low..agent.made) = agent.made - low + 1
          <6>1. PICK made \in Int : made = agent.made
            BY <1>1
          <6>2. low \in Int /\ ~(low > made)
            BY <1>1, <4>2, <6>1
          <6>3. Cardinality(low..made) = IF low > made THEN 0 ELSE made - low + 1
            BY <6>2, FS_Interval
          <6>4. Cardinality(low..made) = made - low + 1
            BY <6>2, <6>3
          <6> QED
            BY <6>1, <6>4
        <5>3. n \in Nat \ {0} /\ low + n - 1 <= agent.made
          BY <1>1, <4>2, <5>2
        <5>4. low \in Int /\ agent.made \in Int /\ n \in Nat
          BY <1>1, <5>3
        <5> QED
          BY <5>1, <5>3, <5>4, TodoRest
      <4> QED
        BY <3>1, <4>2, <4>4
    <3> HIDE DEF first
    <3>3. PICK e : e = [i \in 1..n |-> AgentEvent("start", low + i - 1)]
      OBVIOUS
    <3>9. /\ DOMAIN e = 1..n /\ e = [i \in DOMAIN e |-> e[i]]
          /\ \A i \in 1..n : e[i] = AgentEvent("start", low + i - 1)
      BY <3>3
    <3>4. /\ e \in Seq(AgentEvents) /\ Len(e) = n
          /\ \A i \in 1..n : e[i].kind = "start" /\ e[i].call = low + i - 1
      <4>1. low \in Nat \ {0} /\ n \in Nat
        BY <3>2, <1>1
      <4> QED
        BY <3>9, <4>1, StartBatch
    <3>5. PICK next : next = [agent EXCEPT !.running = low..(low + n - 1), !.todo = @ \ (low..(low + n - 1))]
      OBVIOUS
    <3>6. /\ DOMAIN next = AgentFields /\ next.phase = "tools" /\ next.turns = agent.turns
          /\ next.made = agent.made /\ (next.cancelled <=> agent.cancelled)
          /\ next.running = low..(low + n - 1) /\ next.todo = agent.todo \ (low..(low + n - 1))
      BY <1>1, <2>1, <3>5 DEF AgentFields
    <3>7. agent' = next /\ events' = events \o e
      BY <2>2, <3>2, <3>3, <3>5 DEF Ahead
    <3>8. Moved(e, "tools", agent.made, (low + n)..agent.made, low..(low + n - 1))
      BY <1>1, <3>2, <3>4, <3>6, <3>7 DEF Moved
    <3> QED
      BY <2>1, <2>2, <3>1, <3>2, <3>4, <3>8 DEF MoveStart
  <2>3. ASSUME NEW call \in agent.running, NEW updates \in {<<>>, <<"update">>},
               Ahead([i \in DOMAIN updates |-> AgentEvent("update", call)] \o <<AgentEvent("end", call)>>,
                     [agent EXCEPT !.running = @ \ {call}])
        PROVE  MoveEnd
    <3>1. call \in Nat
      BY <1>1 DEF AgentCalls
    <3>2. PICK e : e = [i \in DOMAIN updates |-> AgentEvent("update", call)] \o <<AgentEvent("end", call)>>
      OBVIOUS
    <3>3. /\ e \in Seq(AgentEvents) /\ Len(e) \in {1, 2} /\ e[Len(e)].kind = "end"
          /\ \A i \in 1..Len(e) : e[i].kind \in {"update", "end"} /\ e[i].call = call
      <4>1. PICK before : before = [i \in DOMAIN updates |-> AgentEvent("update", call)]
        OBVIOUS
      <4>0. AgentEvent("update", call) \in AgentEvents
        BY <3>1, EventType DEF AgentEventKinds
      <4>2. /\ before \in Seq(AgentEvents) /\ Len(before) \in {0, 1}
            /\ \A i \in 1..Len(before) : before[i] = AgentEvent("update", call)
        <5>1. PICK n \in {0, 1} : DOMAIN updates = 1..n
          <6>1. updates = <<>> => DOMAIN updates = 1..0
            OBVIOUS
          <6>2. updates = <<"update">> => DOMAIN updates = 1..1
            OBVIOUS
          <6> QED
            BY <6>1, <6>2
        <5>2. before \in [1..n -> AgentEvents] /\ \A i \in 1..n : before[i] = AgentEvent("update", call)
          BY <4>0, <4>1, <5>1
        <5>3. before \in Seq(AgentEvents) /\ Len(before) = n
          BY <5>2, FunctionIsSeq
        <5> QED
          BY <5>2, <5>3
      <4>3. e = before \o <<AgentEvent("end", call)>>
        BY <3>2, <4>1
      <4> QED
        BY <3>1, <4>2, <4>3, EndOfCall
    <3>4. PICK next : next = [agent EXCEPT !.running = @ \ {call}]
      OBVIOUS
    <3>5. /\ DOMAIN next = AgentFields /\ next.phase = "tools" /\ next.turns = agent.turns
          /\ next.made = agent.made /\ (next.cancelled <=> agent.cancelled)
          /\ next.todo = agent.todo /\ next.running = agent.running \ {call}
      BY <1>1, <2>1, <3>4 DEF AgentFields
    <3>6. agent' = next /\ events' = events \o e
      BY <2>3, <3>2, <3>4 DEF Ahead
    <3>7. Moved(e, "tools", agent.made, agent.todo, agent.running \ {call})
      BY <1>1, <3>3, <3>5, <3>6 DEF Moved
    <3> QED
      BY <2>1, <3>3, <3>7 DEF MoveEnd
  <2>4. ASSUME agent.running = {}, agent.todo = {}, Ahead(<<>>, [agent EXCEPT !.phase = "next"])
        PROVE  MoveOn
    BY <1>5, <2>1, <2>4 DEF MoveOn
  <2> QED
    BY <1>10, <2>2, <2>3, <2>4 DEF AgentTools
<1>11. CASE AgentNext
  <2>1. agent.phase = "next" /\ ~agent.cancelled
    BY <1>11 DEF AgentNext
  <2>2. CASE Ahead(Done, Over)
    <3>1. Moved(Done, "over", agent.made, agent.todo, agent.running)
      BY <1>3, <2>2, LastEvents
    <3> QED
      BY <2>1, <3>1, LastEvents DEF MoveDone
  <2>3. CASE ~Ahead(Done, Over)
    <3>1. Ahead(<<>>, [agent EXCEPT !.phase = "turn"])
      BY <1>11, <2>3 DEF AgentNext
    <3>2. Moved(<<>>, "turn", agent.made, agent.todo, agent.running)
      BY <1>5, <3>1
    <3> QED
      BY <2>1, <3>2 DEF MoveOn
  <2> QED
    BY <2>2, <2>3
<1> QED
  BY <1>2, <1>6, <1>7, <1>8, <1>9, <1>10, <1>11 DEF AgentStep

(* What was sent stays sent when more is.                                        *)
LEMMA EventsGrow ==
    ASSUME events \in Seq(AgentEvents), NEW e \in Seq(AgentEvents), events' = events \o e
    PROVE  /\ events' \in Seq(AgentEvents) /\ Len(events) \in Nat /\ Len(e) \in Nat
           /\ Len(events') = Len(events) + Len(e)
           /\ \A i \in 1..Len(events) : events'[i] = events[i]
           /\ \A i \in 1..Len(e) : events'[Len(events) + i] = e[i]
           /\ \A i \in 1..Len(events') : i \in 1..Len(events) \/ \E m \in 1..Len(e) : i = Len(events) + m
           /\ \A kind \in AgentEventKinds, call \in Nat :
                /\ Sent(kind, call) => Sent(kind, call)'
                /\ Sent(kind, call)' =>
                     Sent(kind, call) \/ \E m \in 1..Len(e) : e[m].kind = kind /\ e[m].call = call
                /\ \A m \in 1..Len(e) : e[m].kind = kind /\ e[m].call = call =>
                     Sent(kind, call)' /\ \A i \in 1..Len(events) : SentAfter(kind, call, i)'
                /\ \A i \in 1..Len(events) : SentAfter(kind, call, i) => SentAfter(kind, call, i)'
<1>1. /\ events' \in Seq(AgentEvents) /\ Len(events) \in Nat /\ Len(e) \in Nat
      /\ Len(events') = Len(events) + Len(e)
      /\ \A i \in 1..Len(events) : events'[i] = events[i]
      /\ \A i \in 1..Len(e) : events'[Len(events) + i] = e[i]
  BY EventsAppended
<1>2. ASSUME NEW i \in 1..Len(events')
      PROVE  i \in 1..Len(events) \/ \E m \in 1..Len(e) : i = Len(events) + m
  <2>1. CASE i \in 1..Len(events)
    BY <2>1
  <2>2. CASE i \notin 1..Len(events)
    <3>1. i - Len(events) \in 1..Len(e) /\ i = Len(events) + (i - Len(events))
      BY <1>1, <2>2
    <3> QED
      BY <3>1
  <2> QED
    BY <2>1, <2>2
<1>3. \A i \in 1..Len(events) : i \in 1..Len(events')
  BY <1>1
<1>4. \A m \in 1..Len(e) : Len(events) + m \in 1..Len(events') /\ \A i \in 1..Len(events) : Len(events) + m > i
  BY <1>1
<1>5. ASSUME NEW kind \in AgentEventKinds, NEW call \in Nat
      PROVE  /\ Sent(kind, call) => Sent(kind, call)'
             /\ Sent(kind, call)' =>
                  Sent(kind, call) \/ \E m \in 1..Len(e) : e[m].kind = kind /\ e[m].call = call
             /\ \A m \in 1..Len(e) : e[m].kind = kind /\ e[m].call = call =>
                  Sent(kind, call)' /\ \A i \in 1..Len(events) : SentAfter(kind, call, i)'
             /\ \A i \in 1..Len(events) : SentAfter(kind, call, i) => SentAfter(kind, call, i)'
  <2>1. Sent(kind, call) => Sent(kind, call)'
    BY <1>1, <1>3 DEF Sent
  <2>2. Sent(kind, call)' =>
            Sent(kind, call) \/ \E m \in 1..Len(e) : e[m].kind = kind /\ e[m].call = call
    BY <1>1, <1>2 DEF Sent
  <2>3. ASSUME NEW m \in 1..Len(e), e[m].kind = kind, e[m].call = call
        PROVE  Sent(kind, call)' /\ \A i \in 1..Len(events) : SentAfter(kind, call, i)'
    <3>1. /\ Len(events) + m \in 1..Len(events')
          /\ events'[Len(events) + m].kind = kind /\ events'[Len(events) + m].call = call
      BY <1>1, <1>4, <2>3
    <3> QED
      BY <1>4, <3>1 DEF Sent, SentAfter
  <2>4. \A i \in 1..Len(events) : SentAfter(kind, call, i) => SentAfter(kind, call, i)'
    BY <1>1, <1>3 DEF SentAfter
  <2> QED
    BY <2>1, <2>2, <2>3, <2>4
<1> QED
  BY <1>1, <1>2, <1>5

(* What was not sent before is in what was sent since.                           *)
LEMMA SentSince ==
    ASSUME events \in Seq(AgentEvents), NEW e \in Seq(AgentEvents), events' = events \o e,
           NEW kind \in AgentEventKinds, NEW call \in Nat, Sent(kind, call)', ~Sent(kind, call)
    PROVE  \E m \in 1..Len(e) : e[m].kind = kind /\ e[m].call = call
<1>1. /\ \A i \in 1..Len(events) : events'[i] = events[i]
      /\ \A i \in 1..Len(e) : events'[Len(events) + i] = e[i]
      /\ \A i \in 1..Len(events') : i \in 1..Len(events) \/ \E m \in 1..Len(e) : i = Len(events) + m
  BY EventsGrow
<1>2. PICK i \in 1..Len(events') : events'[i].kind = kind /\ events'[i].call = call
  BY DEF Sent
<1>3. i \notin 1..Len(events)
  BY <1>1, <1>2 DEF Sent
<1>4. PICK m \in 1..Len(e) : i = Len(events) + m
  BY <1>1, <1>3
<1> QED
  BY <1>1, <1>2, <1>4

(* What is left of the events after the first one was taken.                      *)
LEMMA EventsTaken ==
    ASSUME events \in Seq(AgentEvents), events # <<>>, events' = Tail(events)
    PROVE  /\ events' \in Seq(AgentEvents) /\ Len(events) \in Nat \ {0} /\ Len(events') = Len(events) - 1
           /\ Head(events) = events[1] /\ events[1] \in AgentEvents
           /\ \A i \in 1..Len(events') : i + 1 \in 1..Len(events) /\ events'[i] = events[i + 1]
           /\ \A kind \in AgentEventKinds, call \in Nat :
                /\ Sent(kind, call)' => Sent(kind, call)
                /\ Sent(kind, call) =>
                     Sent(kind, call)' \/ (events[1].kind = kind /\ events[1].call = call)
                /\ SentAfter(kind, call, 1) => Sent(kind, call)'
                /\ \A i \in 1..Len(events') : SentAfter(kind, call, i + 1) => SentAfter(kind, call, i)'
<1>1. /\ events' \in Seq(AgentEvents) /\ Len(events) \in Nat \ {0} /\ Len(events') = Len(events) - 1
      /\ Head(events) = events[1] /\ events[1] \in AgentEvents
      /\ \A i \in 1..Len(events') : events'[i] = events[i + 1]
  OBVIOUS
<1>2. \A i \in 1..Len(events') : i + 1 \in 1..Len(events)
  BY <1>1
<1>3. \A j \in 1..Len(events) : j = 1 \/ (j - 1 \in 1..Len(events') /\ events'[j - 1] = events[j])
  <2> TAKE j \in 1..Len(events)
  <2>1. CASE j = 1
    BY <2>1
  <2>2. CASE j # 1
    <3>1. j - 1 \in 1..Len(events') /\ (j - 1) + 1 = j
      BY <1>1, <2>2
    <3>2. events'[j - 1] = events[(j - 1) + 1]
      BY <1>1, <3>1
    <3> QED
      BY <3>1, <3>2
  <2> QED
    BY <2>1, <2>2
<1>4. ASSUME NEW kind \in AgentEventKinds, NEW call \in Nat
      PROVE  /\ Sent(kind, call)' => Sent(kind, call)
             /\ Sent(kind, call) =>
                  Sent(kind, call)' \/ (events[1].kind = kind /\ events[1].call = call)
             /\ SentAfter(kind, call, 1) => Sent(kind, call)'
             /\ \A i \in 1..Len(events') : SentAfter(kind, call, i + 1) => SentAfter(kind, call, i)'
  <2>1. Sent(kind, call)' => Sent(kind, call)
    BY <1>1, <1>2 DEF Sent
  <2>2. Sent(kind, call) =>
            Sent(kind, call)' \/ (events[1].kind = kind /\ events[1].call = call)
    <3> SUFFICES ASSUME Sent(kind, call) PROVE Sent(kind, call)' \/ (events[1].kind = kind /\ events[1].call = call)
      OBVIOUS
    <3>1. PICK j \in 1..Len(events) : events[j].kind = kind /\ events[j].call = call
      BY DEF Sent
    <3>2. CASE j = 1
      BY <3>1, <3>2
    <3>3. CASE j # 1
      <4>1. j - 1 \in 1..Len(events') /\ events'[j - 1].kind = kind /\ events'[j - 1].call = call
        BY <1>3, <3>1, <3>3
      <4> QED
        BY <4>1 DEF Sent
    <3> QED
      BY <3>2, <3>3
  <2>3. SentAfter(kind, call, 1) => Sent(kind, call)'
    BY <1>3 DEF Sent, SentAfter
  <2>4. ASSUME NEW i \in 1..Len(events'), SentAfter(kind, call, i + 1) PROVE SentAfter(kind, call, i)'
    <3>1. PICK j \in 1..Len(events) : j > i + 1 /\ events[j].kind = kind /\ events[j].call = call
      BY <2>4 DEF SentAfter
    <3>2. j # 1 /\ j - 1 > i
      BY <1>1, <3>1
    <3>3. j - 1 \in 1..Len(events') /\ events'[j - 1] = events[j]
      BY <1>3, <3>2
    <3> QED
      BY <3>1, <3>2, <3>3 DEF SentAfter
  <2> QED
    BY <2>1, <2>2, <2>3, <2>4
<1> QED
  BY <1>1, <1>2, <1>4

(* Nothing was sent before anything ran.                                          *)
LEMMA InitAgent == PromptInit => AgentInv /\ RecordInv
<1> SUFFICES ASSUME PromptInit PROVE AgentInv /\ RecordInv
  OBVIOUS
<1>1. turn = NoTurn /\ agent = NoAgent /\ events = <<>>
  BY DEF PromptInit
<1>2. events \in Seq(AgentEvents) /\ Len(events) = 0
  BY <1>1
<1>3. AgentShape
  BY <1>1, <1>2, NoAgentFields DEF AgentShape, AgentPhases
<1>4. AgentAway /\ RecordInv
  BY <1>1, NoTurnFields DEF AgentAway, RecordInv, CommitClosed
<1>5. AbortKept
  BY <1>1, NoTurnFields, NoAgentFields DEF AbortKept
<1>6. AgentCalls
  <2>1. agent.todo = 1..agent.made /\ 1 \in 1..(agent.made + 1)
    BY <1>1, NoAgentFields
  <2>2. EventsPlaced
    BY <1>2 DEF EventsPlaced
  <2> QED
    BY <1>1, <2>1, <2>2, NoAgentFields DEF AgentCalls
<1> QED
  BY <1>3, <1>4, <1>5, <1>6 DEF AgentInv

(* A call that runs goes on running, or its end is sent.                           *)
RunsOrEnds(e) ==
    \A call \in agent.running :
        call \in agent'.running \/ \E m \in 1..Len(e) : e[m].kind = "end" /\ e[m].call = call

(* What is open stays open when the agent sends more.                              *)
LEMMA OpenGrows ==
    ASSUME events \in Seq(AgentEvents), NEW e \in Seq(AgentEvents), events' = events \o e,
           agent.running \subseteq Nat, RunsOrEnds(e)
    PROVE  \A call \in Nat : Open(call) => Open(call)'
<1> SUFFICES ASSUME NEW call \in Nat, Open(call) PROVE Open(call)'
  OBVIOUS
<1>0. "end" \in AgentEventKinds
  BY DEF AgentEventKinds
<1>1. CASE Sent("end", call)
  BY <1>0, <1>1, EventsGrow DEF Open
<1>2. CASE call \in agent.running
  <2>1. CASE call \in agent'.running
    BY <2>1 DEF Open
  <2>2. CASE call \notin agent'.running
    <3>1. PICK m \in 1..Len(e) : e[m].kind = "end" /\ e[m].call = call
      BY <1>2, <2>2 DEF RunsOrEnds
    <3>2. Sent("end", call)'
      BY <1>0, <3>1, EventsGrow
    <3> QED
      BY <3>2 DEF Open
  <2> QED
    BY <2>1, <2>2
<1> QED
  BY <1>1, <1>2 DEF Open

(* What the agent sends more is in its place if it is among itself.                 *)
LEMMA PlacedGrows ==
    ASSUME AgentShape, AgentCalls, NEW e \in Seq(AgentEvents), events' = events \o e,
           agent'.made \in Nat, agent.made <= agent'.made, RunsOrEnds(e),
           \A m \in 1..Len(e) :
             /\ e[m].kind \in {"start", "update", "end"} => e[m].call \in 1..agent'.made
             /\ e[m].kind \notin {"start", "update", "end"} => e[m].call = 0
             /\ e[m].kind \in {"start", "update"} =>
                  \/ e[m].call \in agent'.running
                  \/ \E k \in 1..Len(e) : k > m /\ e[k].kind = "end" /\ e[k].call = e[m].call
    PROVE  EventsPlaced'
<1>0. "end" \in AgentEventKinds /\ agent.made \in Nat /\ events \in Seq(AgentEvents)
  BY DEF AgentEventKinds, AgentShape
<1>1. /\ events' \in Seq(AgentEvents) /\ Len(events) \in Nat /\ Len(e) \in Nat
      /\ Len(events') = Len(events) + Len(e)
      /\ \A i \in 1..Len(events) : events'[i] = events[i]
      /\ \A i \in 1..Len(e) : events'[Len(events) + i] = e[i]
      /\ \A i \in 1..Len(events') : i \in 1..Len(events) \/ \E m \in 1..Len(e) : i = Len(events) + m
  BY <1>0, EventsGrow
<1> SUFFICES ASSUME NEW i \in 1..Len(events')
             PROVE  /\ events'[i].kind \in {"start", "update", "end"} => events'[i].call \in 1..agent'.made
                    /\ events'[i].kind \notin {"start", "update", "end"} => events'[i].call = 0
                    /\ events'[i].kind \in {"start", "update"} =>
                         \/ events'[i].call \in agent'.running
                         \/ \E j \in 1..Len(events') :
                              j > i /\ events'[j].kind = "end" /\ events'[j].call = events'[i].call
  BY DEF EventsPlaced, SentAfter
<1>2. CASE i \in 1..Len(events)
  <2>1. PICK ev : ev = events[i]
    OBVIOUS
  <2>2. events'[i] = ev
    BY <1>1, <1>2, <2>1
  <2>3. /\ ev.kind \in {"start", "update", "end"} => ev.call \in 1..agent.made
        /\ ev.kind \notin {"start", "update", "end"} => ev.call = 0
        /\ ev.kind \in {"start", "update"} => ev.call \in agent.running \/ SentAfter("end", ev.call, i)
    BY <1>2, <2>1 DEF AgentCalls, EventsPlaced
  <2>4. \A call \in 1..agent.made : call \in 1..agent'.made /\ call \in Nat
    BY <1>0
  <2>5. ASSUME ev.kind \in {"start", "update"}
        PROVE  \/ ev.call \in agent'.running
               \/ \E j \in 1..Len(events') : j > i /\ events'[j].kind = "end" /\ events'[j].call = ev.call
    <3>1. PICK call \in Nat : call = ev.call
      BY <2>3, <2>4, <2>5
    <3>2. CASE SentAfter("end", call, i)
      <4>1. SentAfter("end", call, i)'
        BY <1>0, <1>2, <3>2, EventsGrow
      <4> QED
        BY <3>1, <4>1 DEF SentAfter
    <3>3. CASE call \in agent.running /\ call \notin agent'.running
      <4>1. PICK m \in 1..Len(e) : e[m].kind = "end" /\ e[m].call = call
        BY <3>3 DEF RunsOrEnds
      <4>2. SentAfter("end", call, i)'
        BY <1>0, <1>2, <4>1, EventsGrow
      <4> QED
        BY <3>1, <4>2 DEF SentAfter
    <3> QED
      BY <2>3, <2>5, <3>1, <3>2, <3>3
  <2> QED
    BY <2>2, <2>3, <2>4, <2>5
<1>3. CASE i \notin 1..Len(events)
  <2>1. PICK m \in 1..Len(e) : i = Len(events) + m
    BY <1>1, <1>3
  <2>2. PICK ev : ev = e[m]
    OBVIOUS
  <2>3. events'[i] = ev
    BY <1>1, <2>1, <2>2
  <2>4. ASSUME NEW k \in 1..Len(e), k > m, e[k].kind = "end", e[k].call = ev.call
        PROVE  \E j \in 1..Len(events') : j > i /\ events'[j].kind = "end" /\ events'[j].call = ev.call
    <3>1. Len(events) + k \in 1..Len(events') /\ Len(events) + k > i /\ events'[Len(events) + k] = e[k]
      BY <1>1, <2>1, <2>4
    <3>2. events'[Len(events) + k].kind = "end" /\ events'[Len(events) + k].call = ev.call
      BY <2>4, <3>1
    <3> WITNESS Len(events) + k \in 1..Len(events')
    <3> QED
      BY <3>1, <3>2
  <2>5. ev.kind \in {"start", "update"} =>
            \/ ev.call \in agent'.running
            \/ \E k \in 1..Len(e) : k > m /\ e[k].kind = "end" /\ e[k].call = ev.call
    BY <2>2
  <2>6. /\ ev.kind \in {"start", "update", "end"} => ev.call \in 1..agent'.made
        /\ ev.kind \notin {"start", "update", "end"} => ev.call = 0
    BY <2>2
  <2> QED
    BY <2>3, <2>4, <2>5, <2>6
<1> QED
  BY <1>2, <1>3

(* A working agent that sends more, but no good end after an abort.                  *)
LEMMA AbortGrows ==
    ASSUME AgentShape, AbortKept, turn.pc = "streaming", turn' = turn, agent.phase # "over",
           NEW e \in Seq(AgentEvents), events' = events \o e, agent'.cancelled <=> agent.cancelled,
           \A m \in 1..Len(e) : e[m].kind = "AgentDone" => agent'.phase = "over" /\ ~agent.cancelled
    PROVE  AbortKept'
<1>1. "AgentDone" \in AgentEventKinds /\ events \in Seq(AgentEvents)
  BY DEF AgentEventKinds, AgentShape
<1>2. Sent("AgentDone", 0)' => agent'.phase = "over" /\ ~agent.cancelled
  <2>1. Sent("AgentDone", 0)' =>
            Sent("AgentDone", 0) \/ \E m \in 1..Len(e) : e[m].kind = "AgentDone" /\ e[m].call = 0
    BY <1>1, SentSince
  <2>2. ~Sent("AgentDone", 0)
    BY DEF AbortKept
  <2> QED
    BY <2>1, <2>2
<1>3. turn'.pc = "streaming" /\ (turn'.heeded <=> turn.heeded) /\ (turn'.abort <=> turn.abort)
      /\ (turn'.final <=> turn.final)
  OBVIOUS
<1>4. ~turn.final /\ (turn.heeded => turn.abort /\ agent.cancelled)
  BY DEF AbortKept
<1> QED
  BY <1>2, <1>3, <1>4 DEF AbortKept

(* A reply under way goes on, or ends, or fails the prompt.                          *)
RepliesOn(e) ==
    agent.phase = "reply" =>
        \/ agent'.phase = "reply"
        \/ \E m \in 1..Len(e) : e[m].kind = "reply" /\ e[m].call = 0
        \/ agent'.phase = "over" /\ \E m \in 1..Len(e) : e[m].kind = "AgentError" /\ e[m].call = 0

(* A call to do stays so, or it is sent that it starts; new calls are to do.          *)
StartsOn(e) ==
    \A call \in 1..agent'.made : call \in agent.todo \/ call > agent.made =>
        call \in agent'.todo \/ \E m \in 1..Len(e) : e[m].kind = "start" /\ e[m].call = call

(* A working agent that sends more keeps what the transaction relies on.               *)
LEMMA StreamGrows ==
    ASSUME AgentShape, AgentCalls, StreamInv, turn' = turn, agent.phase # "over",
           NEW e \in Seq(AgentEvents), events' = events \o e,
           agent'.made \in Nat, agent.made <= agent'.made,
           RunsOrEnds(e), RepliesOn(e), StartsOn(e),
           \A m \in 1..Len(e) : e[m].kind = "part" => agent'.phase = "reply"
    PROVE  StreamInv'
<1>0. /\ {"end", "reply", "AgentError", "start"} \subseteq AgentEventKinds /\ agent.made \in Nat
      /\ events \in Seq(AgentEvents) /\ agent.running \subseteq Nat /\ 0 \in Nat
  BY DEF AgentEventKinds, AgentShape, AgentCalls
<1>1. \A call \in Nat : Open(call) => Open(call)'
  BY <1>0, OpenGrows
<1>2. \A call \in 1..agent.made : call \in 1..agent'.made /\ call \in Nat
  BY <1>0
<1>3. ~Ended
  BY DEF Ended
<1>4. MessageCloses'
  <2>1. ASSUME NEW m \in 1..Len(e), e[m].kind = "reply", e[m].call = 0
        PROVE  Sent("reply", 0)' /\ \A i \in 1..Len(events) : SentAfter("reply", 0, i)'
    BY <1>0, <2>1, EventsGrow
  <2>2. ASSUME agent'.phase = "over", NEW m \in 1..Len(e), e[m].kind = "AgentError", e[m].call = 0 PROVE Ended'
    <3>1. Sent("AgentError", 0)'
      BY <1>0, <2>2, EventsGrow
    <3> QED
      BY <2>2, <3>1 DEF Ended
  <2>3. agent.phase = "reply" =>
            \/ agent'.phase = "reply" \/ Ended'
            \/ Sent("reply", 0)' /\ \A i \in 1..Len(events) : SentAfter("reply", 0, i)'
    BY <2>1, <2>2 DEF RepliesOn
  <2>4. turn'.message => agent'.phase = "reply" \/ Sent("reply", 0)' \/ Ended'
    <3>1. Sent("reply", 0) => Sent("reply", 0)'
      BY <1>0, EventsGrow
    <3>2. turn'.message => agent.phase = "reply" \/ Sent("reply", 0)
      BY <1>3 DEF StreamInv, MessageCloses
    <3> QED
      BY <2>3, <3>1, <3>2
  <2>5. ASSUME NEW i \in 1..Len(events'), events'[i].kind = "part"
        PROVE  agent'.phase = "reply" \/ SentAfter("reply", 0, i)' \/ Ended'
    <3>1. CASE i \in 1..Len(events)
      <4>1. events[i].kind = "part"
        BY <1>0, <2>5, <3>1, EventsGrow
      <4>2. agent.phase = "reply" \/ SentAfter("reply", 0, i)
        BY <1>3, <3>1, <4>1 DEF StreamInv, MessageCloses
      <4>3. SentAfter("reply", 0, i) => SentAfter("reply", 0, i)'
        BY <1>0, <3>1, EventsGrow
      <4> QED
        BY <2>3, <3>1, <4>2, <4>3
    <3>2. CASE i \notin 1..Len(events)
      <4>1. PICK m \in 1..Len(e) : i = Len(events) + m
        BY <1>0, <3>2, EventsGrow
      <4>2. events'[i] = e[m]
        BY <1>0, <4>1, EventsGrow
      <4> QED
        BY <2>5, <4>2
    <3> QED
      BY <3>1, <3>2
  <2> QED
    BY <2>4, <2>5 DEF MessageCloses
<1>5. CallsClose'
  <2>1. turn.started \subseteq 1..agent'.made
    BY <1>2 DEF StreamInv, CallsClose
  <2>2. \A id \in turn.calls : \E call \in turn.started : IdOf(call) = id /\ Open(call)'
    BY <1>1, <1>2 DEF StreamInv, CallsClose
  <2>3. turn.known = {IdOf(call) : call \in turn.started}
    BY DEF StreamInv, CallsClose
  <2> QED
    BY <2>1, <2>2, <2>3 DEF CallsClose, IdOf
<1>6. Clash => Clash'
  <2> SUFFICES ASSUME Clash PROVE Clash'
    OBVIOUS
  <2>1. ~Numbered /\ turn'.known # {}
    BY DEF Clash
  <2>2. CASE turn.calls = {} /\ \E call \in 1..agent.made : Open(call)
    <3>1. turn'.calls = {} /\ \E call \in 1..agent'.made : Open(call)'
      BY <1>1, <1>2, <2>2
    <3> QED
      BY <2>1, <3>1 DEF Clash
  <2>3. CASE \E call, other \in 1..agent.made : call # other /\ Open(call) /\ Open(other)
    <3>1. \E call, other \in 1..agent'.made : call # other /\ Open(call)' /\ Open(other)'
      BY <1>1, <1>2, <2>3
    <3> QED
      BY <2>1, <3>1 DEF Clash
  <2> QED
    BY <2>2, <2>3 DEF Clash
<1>7. CallsStart'
  <2> SUFFICES ASSUME NEW call \in 1..agent'.made
               PROVE  call \in turn'.started \/ call \in agent'.todo \/ Sent("start", call)' \/ Clash'
    BY DEF CallsStart
  <2>0. call \in Nat
    OBVIOUS
  <2>1. CASE call \in agent.todo \/ call > agent.made
    <3>1. call \in agent'.todo \/ \E m \in 1..Len(e) : e[m].kind = "start" /\ e[m].call = call
      BY <2>1 DEF StartsOn
    <3>2. ASSUME NEW m \in 1..Len(e), e[m].kind = "start", e[m].call = call PROVE Sent("start", call)'
      BY <1>0, <2>0, <3>2, EventsGrow
    <3> QED
      BY <3>1, <3>2
  <2>2. CASE call \notin agent.todo /\ call \in 1..agent.made
    <3>1. call \in turn.started \/ Sent("start", call) \/ Clash
      BY <2>2 DEF StreamInv, CallsStart
    <3>2. Sent("start", call) => Sent("start", call)'
      BY <1>0, <2>0, EventsGrow
    <3> QED
      BY <1>6, <3>1, <3>2
  <2> QED
    BY <1>0, <2>1, <2>2
<1> QED
  BY <1>4, <1>5, <1>7 DEF StreamInv

(* What a working agent keeps, and what it keeps for the transaction.                  *)
LEMMA AgentKept ==
    ASSUME AgentInv, RecordInv, AgentStep
    PROVE  AgentInv' /\ RecordInv'
<1>0. AgentShape /\ AgentAway /\ AbortKept /\ AgentCalls
  BY DEF AgentInv
<1>1. /\ turn.pc = "streaming" /\ turn' = turn
      /\ MoveFails \/ MoveOn \/ MovePart \/ MoveReply \/ MoveStart \/ MoveEnd \/ MoveDone
  BY <1>0, AgentMoves
<1>2. /\ agent.made \in Nat /\ events \in Seq(AgentEvents) /\ agent.running \subseteq 1..agent.made
      /\ StreamInv
  BY <1>0, <1>1 DEF AgentShape, AgentCalls, RecordInv
<1>3. ASSUME NEW e \in Seq(AgentEvents), events' = events \o e, agent.phase # "over",
             agent'.phase \in AgentPhases,
             DOMAIN agent' = AgentFields, agent'.turns \in Nat, agent'.made \in Nat,
             agent.made <= agent'.made, agent'.cancelled <=> agent.cancelled,
             \E low \in 1..(agent'.made + 1) : agent'.todo = low..agent'.made,
             agent'.running \subseteq 1..agent'.made,
             agent'.phase # "tools" => agent'.running = {},
             agent'.phase \in {"turn", "reply", "next"} => agent'.todo = {},
             agent'.phase = "over" => agent'.todo = {} \/ \E m \in 1..Len(e) : e[m].kind = "AgentError" /\ e[m].call = 0,
             RunsOrEnds(e), RepliesOn(e), StartsOn(e),
             \A m \in 1..Len(e) :
               /\ e[m].kind = "part" => agent'.phase = "reply"
               /\ e[m].kind = "AgentDone" => agent'.phase = "over" /\ ~agent.cancelled
               /\ e[m].kind \in {"start", "update", "end"} => e[m].call \in 1..agent'.made
               /\ e[m].kind \notin {"start", "update", "end"} => e[m].call = 0
               /\ e[m].kind \in {"start", "update"} =>
                    \/ e[m].call \in agent'.running
                    \/ \E k \in 1..Len(e) : k > m /\ e[k].kind = "end" /\ e[k].call = e[m].call
      PROVE  AgentInv' /\ RecordInv'
  <2>1. AgentShape'
    <3>1. events' \in Seq(AgentEvents)
      BY <1>2, <1>3, EventsGrow
    <3> QED
      BY <1>3, <3>1 DEF AgentShape
  <2>2. AgentAway' /\ CommitClosed'
    <3>1. turn'.pc = "streaming"
      BY <1>1
    <3> QED
      BY <3>1 DEF AgentAway, CommitClosed
  <2>3. AbortKept'
    <3>1. \A m \in 1..Len(e) : e[m].kind = "AgentDone" => agent'.phase = "over" /\ ~agent.cancelled
      BY <1>3
    <3> QED
      BY <1>0, <1>1, <1>3, <3>1, AbortGrows
  <2>4. AgentCalls'
    <3>1. EventsPlaced'
      <4>1. \A m \in 1..Len(e) :
               /\ e[m].kind \in {"start", "update", "end"} => e[m].call \in 1..agent'.made
               /\ e[m].kind \notin {"start", "update", "end"} => e[m].call = 0
               /\ e[m].kind \in {"start", "update"} =>
                    \/ e[m].call \in agent'.running
                    \/ \E k \in 1..Len(e) : k > m /\ e[k].kind = "end" /\ e[k].call = e[m].call
        BY <1>3
      <4> QED
        BY <1>0, <1>3, <4>1, PlacedGrows
    <3>2. agent'.phase = "over" => agent'.todo = {} \/ Ended'
      <4>1. ASSUME NEW m \in 1..Len(e), e[m].kind = "AgentError", e[m].call = 0 PROVE Sent("AgentError", 0)'
        <5>1. "AgentError" \in AgentEventKinds /\ 0 \in Nat
          BY DEF AgentEventKinds
        <5> QED
          BY <1>2, <1>3, <4>1, <5>1, EventsGrow
      <4> QED
        BY <1>3, <4>1 DEF Ended
    <3> QED
      BY <1>3, <3>1, <3>2 DEF AgentCalls
  <2>5. StreamInv'
    <3>1. \A m \in 1..Len(e) : e[m].kind = "part" => agent'.phase = "reply"
      BY <1>3
    <3> QED
      BY <1>0, <1>1, <1>2, <1>3, <3>1, StreamGrows
  <2> QED
    BY <2>1, <2>2, <2>3, <2>4, <2>5 DEF AgentInv, RecordInv
<1>4. PICK low0 \in 1..(agent.made + 1) : agent.todo = low0..agent.made
  BY <1>0 DEF AgentCalls
<1>5. \A phase \in {"turn", "reply", "decide", "tools", "next", "over"} : phase \in AgentPhases
  BY DEF AgentPhases
<1>6. CASE MoveFails
  <2>1. PICK e \in Seq(AgentEvents) :
        /\ agent.phase \in {"turn", "reply", "decide", "next"}
        /\ Moved(e, "over", agent.made, agent.todo, agent.running)
        /\ Len(e) \in {1, 2} /\ e[Len(e)].kind = "AgentError"
        /\ \A i \in 1..Len(e) : e[i].kind \in {"bad", "AgentError"} /\ e[i].call = 0
    BY <1>6 DEF MoveFails
  <2>2. /\ events' = events \o e /\ DOMAIN agent' = AgentFields /\ agent'.turns \in Nat
        /\ agent'.phase = "over" /\ agent'.made = agent.made /\ agent'.todo = agent.todo
        /\ agent'.running = agent.running /\ (agent'.cancelled <=> agent.cancelled)
    BY <2>1 DEF Moved
  <2>3. agent.running = {}
    BY <1>0, <2>1 DEF AgentCalls
  <2>4. Len(e) \in 1..Len(e) /\ e[Len(e)].kind = "AgentError" /\ e[Len(e)].call = 0
    <3>0. Len(e) \in {1, 2}
      BY <2>1
    <3>1. Len(e) \in 1..Len(e)
      <4>1. \A n \in {1, 2} : n \in 1..n
        OBVIOUS
      <4> QED
        BY <3>0, <4>1
    <3>2. e[Len(e)].kind = "AgentError"
      BY <2>1
    <3>3. e[Len(e)].call = 0
      BY <2>1, <3>1
    <3> QED
      BY <3>1, <3>2, <3>3
  <2>5. RunsOrEnds(e) /\ RepliesOn(e) /\ StartsOn(e)
    BY <1>2, <2>2, <2>3, <2>4 DEF RunsOrEnds, RepliesOn, StartsOn
  <2>6. \A m \in 1..Len(e) : e[m].kind \in {"bad", "AgentError"} /\ e[m].call = 0
    BY <2>1
  <2>7. \A m \in 1..Len(e) :
          /\ e[m].kind = "part" => agent'.phase = "reply"
          /\ e[m].kind = "AgentDone" => agent'.phase = "over" /\ ~agent.cancelled
          /\ e[m].kind \in {"start", "update", "end"} => e[m].call \in 1..agent'.made
          /\ e[m].kind \notin {"start", "update", "end"} => e[m].call = 0
          /\ e[m].kind \in {"start", "update"} =>
               \/ e[m].call \in agent'.running
               \/ \E k \in 1..Len(e) : k > m /\ e[k].kind = "end" /\ e[k].call = e[m].call
    BY <2>6
  <2>8. agent'.made \in Nat /\ agent.made <= agent'.made /\ agent.phase # "over"
    BY <1>2, <2>1, <2>2
  <2> QED
    <3>1. /\ \E low \in 1..(agent'.made + 1) : agent'.todo = low..agent'.made
          /\ agent'.running \subseteq 1..agent'.made /\ agent'.running = {}
          /\ agent'.phase \in AgentPhases /\ agent'.phase \notin {"turn", "reply", "next"}
      BY <1>2, <1>4, <1>5, <2>2, <2>3
    <3>2. \E m \in 1..Len(e) : e[m].kind = "AgentError" /\ e[m].call = 0
      BY <2>4
    <3> QED
      BY <1>3, <2>2, <2>5, <2>7, <2>8, <3>1, <3>2
<1>7. CASE MoveOn
  <2>1. PICK phase \in {"reply", "next", "tools", "turn"} :
        /\ Moved(<<>>, phase, agent.made, agent.todo, agent.running)
        /\ \/ agent.phase = "turn" /\ phase = "reply"
           \/ agent.phase = "decide" /\ phase = "next" /\ agent.todo = {}
           \/ agent.phase = "decide" /\ phase = "tools"
           \/ agent.phase = "tools" /\ phase = "next" /\ agent.todo = {} /\ agent.running = {}
           \/ agent.phase = "next" /\ phase = "turn"
    BY <1>7 DEF MoveOn
  <2>0. PICK e \in Seq(AgentEvents) : e = <<>> /\ Len(e) = 0
    BY ShortEvents
  <2>2. /\ events' = events \o e /\ DOMAIN agent' = AgentFields /\ agent'.turns \in Nat
        /\ agent'.phase = phase /\ agent'.made = agent.made /\ agent'.todo = agent.todo
        /\ agent'.running = agent.running /\ (agent'.cancelled <=> agent.cancelled)
    BY <2>0, <2>1 DEF Moved
  <2>3. /\ agent.phase # "tools" => agent.running = {}
        /\ agent.phase \in {"turn", "next"} => agent.todo = {}
    BY <1>0 DEF AgentCalls
  <2>4. /\ agent'.phase # "tools" => agent'.running = {}
        /\ agent'.phase \in {"turn", "reply", "next"} => agent'.todo = {}
        /\ agent.phase \notin {"over", "reply"} /\ agent'.phase # "over"
    BY <2>1, <2>2, <2>3
  <2>5. RunsOrEnds(e) /\ RepliesOn(e) /\ StartsOn(e)
    BY <1>2, <2>2, <2>4 DEF RunsOrEnds, RepliesOn, StartsOn
  <2>6. agent'.made \in Nat /\ agent.made <= agent'.made /\ ~\E m \in 1..Len(e) : TRUE
    BY <1>2, <2>0, <2>2
  <2> QED
    BY <1>2, <1>3, <1>4, <1>5, <2>2, <2>4, <2>5, <2>6
<1>8. CASE MovePart
  <2>1. PICK e \in Seq(AgentEvents) :
        /\ agent.phase = "reply"
        /\ Moved(e, "reply", agent.made, agent.todo, agent.running)
        /\ Len(e) = 1 /\ e[1].kind = "part" /\ e[1].call = 0
    BY <1>8 DEF MovePart
  <2>2. /\ events' = events \o e /\ DOMAIN agent' = AgentFields /\ agent'.turns \in Nat
        /\ agent'.phase = "reply" /\ agent'.made = agent.made /\ agent'.todo = agent.todo
        /\ agent'.running = agent.running /\ (agent'.cancelled <=> agent.cancelled)
    BY <2>1 DEF Moved
  <2>3. agent.running = {} /\ agent.todo = {}
    BY <1>0, <2>1 DEF AgentCalls
  <2>4. \A m \in 1..Len(e) : e[m].kind = "part" /\ e[m].call = 0
    BY <2>1
  <2>5. RunsOrEnds(e) /\ RepliesOn(e) /\ StartsOn(e)
    BY <1>2, <2>2, <2>3 DEF RunsOrEnds, RepliesOn, StartsOn
  <2>6. agent'.made \in Nat /\ agent.made <= agent'.made /\ agent.phase # "over" /\ agent'.phase # "over"
    BY <1>2, <2>1, <2>2
  <2> QED
    BY <1>2, <1>3, <1>4, <1>5, <2>2, <2>3, <2>4, <2>5, <2>6
<1>9. CASE MoveReply
  <2>1. PICK e \in Seq(AgentEvents), n \in Nat :
        /\ agent.phase = "reply"
        /\ Moved(e, "decide", agent.made + n, (agent.made + 1)..(agent.made + n), agent.running)
        /\ Len(e) = 1 /\ e[1].kind = "reply" /\ e[1].call = 0
    BY <1>9 DEF MoveReply
  <2>2. /\ events' = events \o e /\ DOMAIN agent' = AgentFields /\ agent'.turns \in Nat
        /\ agent'.phase = "decide" /\ agent'.made = agent.made + n
        /\ agent'.todo = (agent.made + 1)..(agent.made + n)
        /\ agent'.running = agent.running /\ (agent'.cancelled <=> agent.cancelled)
    BY <2>1 DEF Moved
  <2>3. agent.running = {} /\ agent.todo = {}
    BY <1>0, <2>1 DEF AgentCalls
  <2>4. 1 \in 1..Len(e) /\ \A m \in 1..Len(e) : e[m].kind = "reply" /\ e[m].call = 0
    BY <2>1
  <2>5. /\ agent'.made \in Nat /\ agent.made <= agent'.made /\ agent.phase # "over" /\ agent'.phase # "over"
        /\ agent.made + 1 \in 1..(agent'.made + 1) /\ agent'.todo = (agent.made + 1)..agent'.made
    BY <1>2, <2>1, <2>2
  <2>6. RunsOrEnds(e) /\ RepliesOn(e)
    BY <2>3, <2>4 DEF RunsOrEnds, RepliesOn
  <2>7. StartsOn(e)
    <3>1. \A call \in 1..agent'.made : call > agent.made => call \in agent'.todo
      BY <1>2, <2>5
    <3> QED
      BY <2>3, <3>1 DEF StartsOn
  <2> QED
    BY <1>2, <1>3, <1>5, <2>2, <2>3, <2>4, <2>5, <2>6, <2>7
<1>10. CASE MoveStart
  <2>1. PICK e \in Seq(AgentEvents), low \in 1..agent.made, n \in Nat \ {0} :
        /\ agent.phase = "tools" /\ agent.running = {} /\ agent.todo = low..agent.made
        /\ low + n - 1 <= agent.made
        /\ Moved(e, "tools", agent.made, (low + n)..agent.made, low..(low + n - 1))
        /\ Len(e) = n /\ \A i \in 1..n : e[i].kind = "start" /\ e[i].call = low + i - 1
    BY <1>10 DEF MoveStart
  <2>2. /\ events' = events \o e /\ DOMAIN agent' = AgentFields /\ agent'.turns \in Nat
        /\ agent'.phase = "tools" /\ agent'.made = agent.made
        /\ agent'.todo = (low + n)..agent.made
        /\ agent'.running = low..(low + n - 1) /\ (agent'.cancelled <=> agent.cancelled)
    BY <2>1 DEF Moved
  <2>3. /\ low + n \in 1..(agent'.made + 1) /\ agent'.todo = (low + n)..agent'.made
        /\ agent'.running \subseteq 1..agent'.made
        /\ agent'.made \in Nat /\ agent.made <= agent'.made
    BY <1>2, <2>1, <2>2
  <2>4. \A m \in 1..Len(e) : e[m].kind = "start" /\ e[m].call \in agent'.running /\ e[m].call \in 1..agent'.made
    <3>1. \A m \in 1..n : low + m - 1 \in low..(low + n - 1)
      BY <2>1
    <3> QED
      BY <2>1, <2>2, <2>3, <3>1
  <2>5. RunsOrEnds(e) /\ RepliesOn(e)
    BY <2>1 DEF RunsOrEnds, RepliesOn
  <2>6. StartsOn(e)
    <3> SUFFICES ASSUME NEW call \in 1..agent'.made, call \in agent.todo \/ call > agent.made,
                        call \notin agent'.todo
                 PROVE  \E m \in 1..Len(e) : e[m].kind = "start" /\ e[m].call = call
      BY DEF StartsOn
    <3>1. call \in low..(low + n - 1)
      BY <1>2, <2>1, <2>2
    <3>2. PICK m \in 1..n : call = low + m - 1
      <4>1. call - low + 1 \in 1..n /\ call = low + (call - low + 1) - 1
        BY <1>2, <2>1, <3>1
      <4> QED
        BY <4>1
    <3> QED
      BY <2>1, <3>2
  <2>7. agent.phase # "over" /\ agent'.phase # "over" /\ agent'.phase \notin {"turn", "reply", "next"}
    BY <2>1, <2>2
  <2> QED
    BY <1>2, <1>3, <1>5, <2>2, <2>3, <2>4, <2>5, <2>6, <2>7
<1>11. CASE MoveEnd
  <2>1. PICK e \in Seq(AgentEvents), call \in agent.running :
        /\ agent.phase = "tools"
        /\ Moved(e, "tools", agent.made, agent.todo, agent.running \ {call})
        /\ Len(e) \in {1, 2} /\ e[Len(e)].kind = "end"
        /\ \A i \in 1..Len(e) : e[i].kind \in {"update", "end"} /\ e[i].call = call
    BY <1>11 DEF MoveEnd
  <2>2. /\ events' = events \o e /\ DOMAIN agent' = AgentFields /\ agent'.turns \in Nat
        /\ agent'.phase = "tools" /\ agent'.made = agent.made /\ agent'.todo = agent.todo
        /\ agent'.running = agent.running \ {call} /\ (agent'.cancelled <=> agent.cancelled)
    BY <2>1 DEF Moved
  <2>3. /\ agent'.running \subseteq 1..agent'.made /\ call \in 1..agent'.made
        /\ agent'.made \in Nat /\ agent.made <= agent'.made
    BY <1>2, <2>1, <2>2
  <2>4. Len(e) \in 1..Len(e) /\ e[Len(e)].kind = "end" /\ e[Len(e)].call = call
    BY <2>1
  <2>5. RunsOrEnds(e) /\ RepliesOn(e) /\ StartsOn(e)
    BY <1>2, <2>1, <2>2, <2>4 DEF RunsOrEnds, RepliesOn, StartsOn
  <2>6. \A m \in 1..Len(e) : m = Len(e) \/ Len(e) > m
    BY <2>1
  <2>7. \A m \in 1..Len(e) : e[m].kind \in {"update", "end"} /\ e[m].call = call
    BY <2>1
  <2>8. \A m \in 1..Len(e) :
          /\ e[m].kind = "part" => agent'.phase = "reply"
          /\ e[m].kind = "AgentDone" => agent'.phase = "over" /\ ~agent.cancelled
          /\ e[m].kind \in {"start", "update", "end"} => e[m].call \in 1..agent'.made
          /\ e[m].kind \notin {"start", "update", "end"} => e[m].call = 0
          /\ e[m].kind \in {"start", "update"} =>
               \/ e[m].call \in agent'.running
               \/ \E k \in 1..Len(e) : k > m /\ e[k].kind = "end" /\ e[k].call = e[m].call
    <3> TAKE m \in 1..Len(e)
    <3>1. e[m].kind \in {"update", "end"} /\ e[m].call = call /\ (m = Len(e) \/ Len(e) > m)
      BY <2>6, <2>7
    <3>2. e[m].kind \in {"start", "update"} =>
             \E k \in 1..Len(e) : k > m /\ e[k].kind = "end" /\ e[k].call = e[m].call
      BY <2>4, <3>1
    <3> QED
      BY <2>3, <3>1, <3>2
  <2>9. agent.phase # "over" /\ agent'.phase # "over" /\ agent'.phase \notin {"turn", "reply", "next"}
    BY <2>1, <2>2
  <2> QED
    BY <1>2, <1>3, <1>4, <1>5, <2>2, <2>3, <2>5, <2>8, <2>9
<1>12. CASE MoveDone
  <2>1. PICK e \in Seq(AgentEvents) :
        /\ agent.phase = "next" /\ ~agent.cancelled
        /\ Moved(e, "over", agent.made, agent.todo, agent.running)
        /\ Len(e) = 1 /\ e[1].kind = "AgentDone" /\ e[1].call = 0
    BY <1>12 DEF MoveDone
  <2>2. /\ events' = events \o e /\ DOMAIN agent' = AgentFields /\ agent'.turns \in Nat
        /\ agent'.phase = "over" /\ agent'.made = agent.made /\ agent'.todo = agent.todo
        /\ agent'.running = agent.running /\ (agent'.cancelled <=> agent.cancelled)
    BY <2>1 DEF Moved
  <2>3. agent.running = {} /\ agent.todo = {}
    BY <1>0, <2>1 DEF AgentCalls
  <2>4. \A m \in 1..Len(e) : e[m].kind = "AgentDone" /\ e[m].call = 0
    BY <2>1
  <2>5. RunsOrEnds(e) /\ RepliesOn(e) /\ StartsOn(e)
    BY <1>2, <2>1, <2>2, <2>3 DEF RunsOrEnds, RepliesOn, StartsOn
  <2>6. agent'.made \in Nat /\ agent.made <= agent'.made /\ agent.phase # "over"
    BY <1>2, <2>1, <2>2
  <2> QED
    BY <1>2, <1>3, <1>4, <1>5, <2>1, <2>2, <2>3, <2>4, <2>5, <2>6
<1> QED
  BY <1>1, <1>6, <1>7, <1>8, <1>9, <1>10, <1>11, <1>12

(* What a recorded event leaves in the transaction.                                    *)
RecordedAs(new, event, id) ==
    /\ new.pc = turn.pc /\ (new.abort <=> turn.abort) /\ (new.heeded <=> turn.heeded)
    /\ event.kind = "part" => new.message
    /\ event.kind = "reply" => ~new.message
    /\ event.kind \notin {"part", "reply"} => (new.message <=> turn.message)
    /\ event.kind # "AgentDone" => (new.final <=> turn.final)
    /\ event.kind \notin {"start", "update", "end"} =>
         new.known = turn.known /\ new.calls = turn.calls /\ new.started = turn.started
    /\ event.kind \in {"start", "update", "end"} /\ id \in turn.known =>
         /\ new.known = turn.known /\ new.started = turn.started
         /\ new.calls = IF event.kind = "end" THEN turn.calls \ {id} ELSE turn.calls
    /\ event.kind \in {"start", "update", "end"} /\ id \notin turn.known =>
         /\ new.known = turn.known \cup {id} /\ new.started = turn.started \cup {event.call}
         /\ new.calls = IF event.kind = "end" THEN (turn.calls \cup {id}) \ {id}
                        ELSE turn.calls \cup {id}

(* Recording an event leaves that.                                                     *)
LEMMA RecordedParts ==
    ASSUME TurnShape, NEW event \in AgentEvents, event.kind # "AgentError",
           NEW new, new = [Recorded(event) EXCEPT !.polled = FALSE],
           NEW id, id = IdOf(event.call)
    PROVE  RecordedAs(new, event, id)
<1> USE DEF RecordedAs
<1>1. DOMAIN turn = TurnFields
  BY DEF TurnShape
<1>2. PICK e : e = Ensured(event.call)
  OBVIOUS
<1>3. /\ DOMAIN e = TurnFields /\ e.pc = turn.pc /\ (e.abort <=> turn.abort)
      /\ (e.heeded <=> turn.heeded) /\ (e.message <=> turn.message) /\ (e.final <=> turn.final)
      /\ id \in turn.known =>
            e.known = turn.known /\ e.started = turn.started /\ e.calls = turn.calls
      /\ id \notin turn.known =>
            /\ e.known = turn.known \cup {id} /\ e.started = turn.started \cup {event.call}
            /\ e.calls = turn.calls \cup {id}
  BY <1>1, <1>2 DEF Ensured, TurnFields
<1>4. event.kind \in AgentEventKinds
  BY DEF AgentEvents
<1>5. CASE event.kind \in {"start", "update"}
  <2>1. new = [e EXCEPT !.polled = FALSE]
    BY <1>2, <1>5 DEF Recorded
  <2>2. /\ new.pc = e.pc /\ (new.abort <=> e.abort) /\ (new.heeded <=> e.heeded)
        /\ (new.message <=> e.message) /\ (new.final <=> e.final)
        /\ new.known = e.known /\ new.started = e.started /\ new.calls = e.calls
    BY <2>1, <1>3 DEF TurnFields
  <2> QED
    BY <1>3, <1>5, <2>2
<1>6. CASE event.kind = "end"
  <2>1. PICK f : f = [e EXCEPT !.calls = @ \ {id}]
    OBVIOUS
  <2>2. /\ DOMAIN f = TurnFields /\ f.pc = e.pc /\ (f.abort <=> e.abort) /\ (f.heeded <=> e.heeded)
        /\ (f.message <=> e.message) /\ (f.final <=> e.final)
        /\ f.known = e.known /\ f.started = e.started /\ f.calls = e.calls \ {id}
    BY <2>1, <1>3 DEF TurnFields
  <2>3. new = [f EXCEPT !.polled = FALSE]
    BY <1>2, <1>6, <2>1 DEF Recorded
  <2>4. /\ new.pc = f.pc /\ (new.abort <=> f.abort) /\ (new.heeded <=> f.heeded)
        /\ (new.message <=> f.message) /\ (new.final <=> f.final)
        /\ new.known = f.known /\ new.started = f.started /\ new.calls = f.calls
    BY <2>3, <2>2 DEF TurnFields
  <2> QED
    BY <1>3, <1>6, <2>2, <2>4
<1>7. CASE event.kind \in {"part", "reply", "bad", "AgentDone"}
  <2>1. PICK f : f = Recorded(event)
    OBVIOUS
  <2>2. /\ DOMAIN f = TurnFields /\ f.pc = turn.pc /\ (f.abort <=> turn.abort) /\ (f.heeded <=> turn.heeded)
        /\ f.known = turn.known /\ f.started = turn.started /\ f.calls = turn.calls
        /\ event.kind = "part" => f.message
        /\ event.kind = "reply" => ~f.message
        /\ event.kind \notin {"part", "reply"} => (f.message <=> turn.message)
        /\ event.kind # "AgentDone" => (f.final <=> turn.final)
    <3>1. CASE event.kind = "part"
      BY <1>1, <2>1, <3>1 DEF Recorded, TurnFields
    <3>2. CASE event.kind = "reply"
      BY <1>1, <2>1, <3>2 DEF Recorded, TurnFields
    <3>3. CASE event.kind = "bad"
      BY <1>1, <2>1, <3>3 DEF Recorded, TurnFields
    <3>4. CASE event.kind = "AgentDone"
      BY <1>1, <2>1, <3>4 DEF Recorded, TurnFields
    <3> QED
      BY <1>7, <3>1, <3>2, <3>3, <3>4
  <2>3. new = [f EXCEPT !.polled = FALSE]
    BY <2>1
  <2>4. /\ new.pc = f.pc /\ (new.abort <=> f.abort) /\ (new.heeded <=> f.heeded)
        /\ (new.message <=> f.message) /\ (new.final <=> f.final)
        /\ new.known = f.known /\ new.started = f.started /\ new.calls = f.calls
    BY <2>3, <2>2 DEF TurnFields
  <2> QED
    BY <1>7, <2>2, <2>4
<1> QED
  BY <1>4, <1>5, <1>6, <1>7 DEF AgentEventKinds

(* The first event is taken: what of the others it changes.                             *)
LEMMA TakenParts ==
    ASSUME AgentShape, AgentCalls, events # <<>>, events' = Tail(events), agent' = agent,
           NEW ev, ev = Head(events), ev.kind # "AgentError"
    PROVE  /\ ev \in AgentEvents /\ ev = events[1] /\ 1 \in 1..Len(events)
           /\ ev.kind \in {"start", "update", "end"} => ev.call \in 1..agent.made
           /\ ev.kind \notin {"start", "update", "end"} => ev.call = 0
           /\ \A call \in Nat : Open(call) => Open(call)' \/ (ev.kind = "end" /\ call = ev.call)
           /\ \A call \in Nat : Sent("start", call) => Sent("start", call)' \/ (ev.kind = "start" /\ call = ev.call)
           /\ Ended => Ended'
           /\ \A call \in Nat : ev.kind \in {"start", "update"} /\ call = ev.call => Open(call)'
           /\ AgentCalls'
<1>1. /\ events \in Seq(AgentEvents) /\ agent.made \in Nat /\ EventsPlaced
      /\ {"end", "start", "AgentError"} \subseteq AgentEventKinds /\ 0 \in Nat
  BY DEF AgentShape, AgentCalls, AgentEventKinds
<1>2. /\ ev \in AgentEvents /\ ev = events[1] /\ 1 \in 1..Len(events) /\ Len(events) \in Nat
  BY <1>1
<1>3. /\ ev.kind \in {"start", "update", "end"} => ev.call \in 1..agent.made
      /\ ev.kind \notin {"start", "update", "end"} => ev.call = 0
      /\ ev.kind \in {"start", "update"} => ev.call \in agent.running \/ SentAfter("end", ev.call, 1)
  BY <1>1, <1>2 DEF EventsPlaced
<1>4. ASSUME NEW call \in Nat, Open(call) PROVE Open(call)' \/ (ev.kind = "end" /\ call = ev.call)
  <2>1. Sent("end", call) => Sent("end", call)' \/ (ev.kind = "end" /\ ev.call = call)
    BY <1>1, <1>2, EventsTaken
  <2> QED
    BY <1>4, <2>1 DEF Open
<1>5. ASSUME NEW call \in Nat, Sent("start", call)
      PROVE Sent("start", call)' \/ (ev.kind = "start" /\ call = ev.call)
  BY <1>1, <1>2, <1>5, EventsTaken
<1>6. ASSUME Ended PROVE Ended'
  <2>1. Sent("AgentError", 0) => Sent("AgentError", 0)' \/ (ev.kind = "AgentError" /\ ev.call = 0)
    BY <1>1, <1>2, EventsTaken
  <2> QED
    BY <1>6, <2>1 DEF Ended
<1>7. ASSUME NEW call \in Nat, ev.kind \in {"start", "update"}, call = ev.call PROVE Open(call)'
  <2>1. SentAfter("end", call, 1) => Sent("end", call)'
    BY <1>1, EventsTaken
  <2> QED
    BY <1>3, <1>7, <2>1 DEF Open
<1>8. EventsPlaced'
  <2>0. \A call \in 1..agent.made : call \in Nat
    BY <1>1
  <2> SUFFICES ASSUME NEW i \in 1..Len(events')
               PROVE  /\ events'[i].kind \in {"start", "update", "end"} => events'[i].call \in 1..agent.made
                      /\ events'[i].kind \notin {"start", "update", "end"} => events'[i].call = 0
                      /\ events'[i].kind \in {"start", "update"} =>
                           \/ events'[i].call \in agent.running
                           \/ \E j \in 1..Len(events') :
                                j > i /\ events'[j].kind = "end" /\ events'[j].call = events'[i].call
    BY DEF EventsPlaced, SentAfter
  <2>1. PICK e : e = events'[i]
    OBVIOUS
  <2>2. i + 1 \in 1..Len(events) /\ e = events[i + 1]
    BY <1>1, <2>1, EventsTaken
  <2>3. /\ e.kind \in {"start", "update", "end"} => e.call \in 1..agent.made
        /\ e.kind \notin {"start", "update", "end"} => e.call = 0
        /\ e.kind \in {"start", "update"} => e.call \in agent.running \/ SentAfter("end", e.call, i + 1)
    BY <1>1, <2>2 DEF EventsPlaced
  <2>4. ASSUME NEW call \in Nat, SentAfter("end", call, i + 1)
        PROVE  \E j \in 1..Len(events') : j > i /\ events'[j].kind = "end" /\ events'[j].call = call
    <3>1. SentAfter("end", call, i)'
      BY <1>1, <2>4, EventsTaken
    <3> QED
      BY <3>1 DEF SentAfter
  <2> QED
    BY <2>0, <2>1, <2>3, <2>4
<1>9. AgentCalls'
  BY <1>6, <1>8 DEF AgentCalls
<1> QED
  BY <1>2, <1>3, <1>4, <1>5, <1>6, <1>7, <1>9

(* The flow records an event, which is not refused.                                     *)
LEMMA RecordKept ==
    ASSUME TurnShape, AgentInv, RecordInv, turn.pc = "streaming", events # <<>>,
           Head(events).kind # "AgentError", ~Refused(Head(events)),
           turn' = [Recorded(Head(events)) EXCEPT !.polled = FALSE],
           events' = Tail(events), agent' = agent
    PROVE  AgentInv' /\ RecordInv'
<1>0. /\ AgentShape /\ AgentAway /\ AbortKept /\ AgentCalls /\ StreamInv
      /\ agent.made \in Nat /\ events \in Seq(AgentEvents)
  BY DEF AgentInv, RecordInv, AgentShape
<1>1. PICK ev : ev = Head(events)
  OBVIOUS
<1>2. /\ ev \in AgentEvents /\ ev = events[1] /\ 1 \in 1..Len(events)
      /\ ev.kind \in {"start", "update", "end"} => ev.call \in 1..agent.made
      /\ ev.kind \notin {"start", "update", "end"} => ev.call = 0
      /\ \A call \in Nat : Open(call) => Open(call)' \/ (ev.kind = "end" /\ call = ev.call)
      /\ \A call \in Nat : Sent("start", call) => Sent("start", call)' \/ (ev.kind = "start" /\ call = ev.call)
      /\ Ended => Ended'
      /\ \A call \in Nat : ev.kind \in {"start", "update"} /\ call = ev.call => Open(call)'
      /\ AgentCalls'
  BY <1>0, <1>1, TakenParts
<1>3. PICK id : id = IdOf(ev.call)
  OBVIOUS
<1>4. /\ turn'.pc = turn.pc /\ (turn'.abort <=> turn.abort) /\ (turn'.heeded <=> turn.heeded)
      /\ ev.kind = "part" => turn'.message
      /\ ev.kind = "reply" => ~turn'.message
      /\ ev.kind \notin {"part", "reply"} => (turn'.message <=> turn.message)
      /\ ev.kind # "AgentDone" => (turn'.final <=> turn.final)
      /\ ev.kind \notin {"start", "update", "end"} =>
           turn'.known = turn.known /\ turn'.calls = turn.calls /\ turn'.started = turn.started
      /\ ev.kind \in {"start", "update", "end"} /\ id \in turn.known =>
           /\ turn'.known = turn.known /\ turn'.started = turn.started
           /\ turn'.calls = IF ev.kind = "end" THEN turn.calls \ {id} ELSE turn.calls
      /\ ev.kind \in {"start", "update", "end"} /\ id \notin turn.known =>
           /\ turn'.known = turn.known \cup {id} /\ turn'.started = turn.started \cup {ev.call}
           /\ turn'.calls = IF ev.kind = "end" THEN (turn.calls \cup {id}) \ {id}
                            ELSE turn.calls \cup {id}
  <2>1. PICK new : new = [Recorded(ev) EXCEPT !.polled = FALSE]
    OBVIOUS
  <2>2. turn' = new
    BY <1>1, <2>1
  <2>3. ev \in AgentEvents /\ ev.kind # "AgentError"
    BY <1>1, <1>2
  <2>4. RecordedAs(new, ev, id)
    BY <1>3, <2>1, <2>3, RecordedParts
  <2>5. RecordedAs(turn', ev, id)
    BY <2>2, <2>4
  <2> QED
    BY <2>5 DEF RecordedAs
<1>5. {"end", "reply", "AgentError", "start", "AgentDone"} \subseteq AgentEventKinds /\ 0 \in Nat
  BY DEF AgentEventKinds
<1>6. AgentShape' /\ AgentAway' /\ CommitClosed'
  <2>1. events' \in Seq(AgentEvents) /\ turn'.pc = "streaming"
    BY <1>0, <1>4, EventsTaken
  <2> QED
    BY <1>0, <2>1 DEF AgentShape, AgentAway, CommitClosed
<1>7. AbortKept'
  <2>1. Sent("AgentDone", 0)' => Sent("AgentDone", 0)
    BY <1>0, <1>5, EventsTaken
  <2>2. ev.kind = "AgentDone" => Sent("AgentDone", 0)
    BY <1>2 DEF Sent
  <2>3. ~Sent("AgentDone", 0) /\ ~turn.final => ~Sent("AgentDone", 0)' /\ ~turn'.final
    BY <1>4, <2>1, <2>2
  <2> QED
    BY <1>0, <1>4, <2>3 DEF AbortKept
<1>8. MessageCloses'
  <2>0. MessageCloses
    BY <1>0 DEF StreamInv
  <2>1. ASSUME turn'.message PROVE agent.phase = "reply" \/ Sent("reply", 0)' \/ Ended'
    <3>1. CASE ev.kind = "part"
      <4>1. agent.phase = "reply" \/ SentAfter("reply", 0, 1) \/ Ended
        BY <1>2, <2>0, <3>1 DEF MessageCloses
      <4>2. SentAfter("reply", 0, 1) => Sent("reply", 0)'
        BY <1>0, <1>5, EventsTaken
      <4> QED
        BY <1>2, <4>1, <4>2
    <3>2. CASE ev.kind # "part"
      <4>1. ev.kind # "reply" /\ turn.message
        BY <1>4, <2>1, <3>2
      <4>2. agent.phase = "reply" \/ Sent("reply", 0) \/ Ended
        BY <2>0, <4>1 DEF MessageCloses
      <4>3. Sent("reply", 0) => Sent("reply", 0)' \/ (events[1].kind = "reply" /\ events[1].call = 0)
        BY <1>0, <1>5, EventsTaken
      <4> QED
        BY <1>2, <4>1, <4>2, <4>3
    <3> QED
      BY <3>1, <3>2
  <2>2. ASSUME NEW i \in 1..Len(events'), events'[i].kind = "part"
        PROVE  agent.phase = "reply" \/ SentAfter("reply", 0, i)' \/ Ended'
    <3>1. i + 1 \in 1..Len(events) /\ events[i + 1].kind = "part"
      BY <1>0, <2>2, EventsTaken
    <3>2. agent.phase = "reply" \/ SentAfter("reply", 0, i + 1) \/ Ended
      BY <2>0, <3>1 DEF MessageCloses
    <3>3. SentAfter("reply", 0, i + 1) => SentAfter("reply", 0, i)'
      BY <1>0, <1>5, EventsTaken
    <3> QED
      BY <1>2, <3>2, <3>3
  <2> QED
    BY <2>1, <2>2 DEF MessageCloses
<1>9. /\ turn.started \subseteq 1..agent.made
      /\ turn.known = {IdOf(call) : call \in turn.started}
      /\ \A i \in turn.calls : \E call \in turn.started : IdOf(call) = i /\ Open(call)
      /\ \A call \in 1..agent.made :
           call \in turn.started \/ call \in agent.todo \/ Sent("start", call) \/ Clash
      /\ \A call \in 1..agent.made : call \in Nat
  BY <1>0 DEF StreamInv, CallsClose, CallsStart
<1>10. CASE ev.kind \notin {"start", "update", "end"}
  <2>1. turn'.known = turn.known /\ turn'.calls = turn.calls /\ turn'.started = turn.started
    BY <1>4, <1>10
  <2>2. \A call \in 1..agent.made : (Open(call) => Open(call)') /\ (Sent("start", call) => Sent("start", call)')
    BY <1>2, <1>9, <1>10
  <2>3. CallsClose'
    BY <1>9, <2>1, <2>2 DEF CallsClose, IdOf
  <2>4. Clash => Clash'
    BY <2>1, <2>2 DEF Clash
  <2>5. CallsStart'
    BY <1>9, <2>1, <2>2, <2>4 DEF CallsStart
  <2> QED
    BY <1>2, <1>6, <1>7, <1>8, <2>3, <2>5 DEF AgentInv, RecordInv, StreamInv
<1>11. CASE ev.kind \in {"start", "update", "end"}
  <2>0. PICK x \in 1..agent.made : x = ev.call
    BY <1>2, <1>11
  <2>1. x \in Nat /\ id = IdOf(x)
    BY <1>3, <2>0
  <2>2. ~Numbered => id = 1 /\ \A i \in turn.known : i = 1
    BY <1>9, <2>1 DEF IdOf
  <2>3. \A i \in turn.calls : i \in turn.known
    BY <1>9
  <2>4. \A call \in 1..agent.made : Open(call) => Open(call)' \/ (ev.kind = "end" /\ call = x)
    BY <1>2, <1>9, <2>0
  <2>5. \A call \in 1..agent.made :
            Sent("start", call) => Sent("start", call)' \/ (ev.kind = "start" /\ call = x)
    BY <1>2, <1>9, <2>0
  <2>6. ev.kind \in {"start", "update"} => Open(x)'
    BY <1>2, <2>0, <2>1
  <2> SUFFICES CallsClose' /\ CallsStart'
    BY <1>2, <1>6, <1>7, <1>8 DEF AgentInv, RecordInv, StreamInv
  <2>7. CASE id \notin turn.known
    <3>1. /\ turn'.known = turn.known \cup {id} /\ turn'.started = turn.started \cup {x}
          /\ turn'.calls = IF ev.kind = "end" THEN (turn.calls \cup {id}) \ {id} ELSE turn.calls \cup {id}
      BY <1>4, <1>11, <2>0, <2>7
    <3>2. turn'.started \subseteq 1..agent.made
      BY <1>9, <3>1
    <3>3. turn'.known = {IdOf(call) : call \in turn'.started}
      BY <1>9, <2>1, <3>1
    <3>4. \A i \in turn.calls : \E call \in turn.started : IdOf(call) = i /\ Open(call)'
      <4> TAKE i \in turn.calls
      <4>1. PICK call \in turn.started : IdOf(call) = i /\ Open(call)
        BY <1>9
      <4>2. call # x /\ call \in 1..agent.made
        BY <1>9, <2>1, <2>3, <2>7, <4>1
      <4> QED
        BY <2>4, <4>1, <4>2
    <3>5. \A i \in turn'.calls : \E call \in turn'.started : IdOf(call) = i /\ Open(call)'
      <4>1. CASE ev.kind = "end"
        BY <3>1, <3>4, <4>1
      <4>2. CASE ev.kind # "end"
        BY <1>11, <2>1, <2>6, <3>1, <3>4, <4>2
      <4> QED
        BY <4>1, <4>2
    <3>6. CallsClose'
      BY <3>2, <3>3, <3>5 DEF CallsClose, IdOf
    <3>7. ~Clash
      BY <2>2, <2>7 DEF Clash
    <3>8. \A call \in 1..agent.made :
             call \in turn'.started \/ call \in agent.todo \/ Sent("start", call)'
      BY <1>9, <2>5, <3>1, <3>7
    <3> QED
      BY <3>6, <3>8 DEF CallsStart
  <2>8. CASE id \in turn.known /\ ev.kind # "end"
    <3>1. turn'.known = turn.known /\ turn'.started = turn.started /\ turn'.calls = turn.calls
      BY <1>4, <1>11, <2>8
    <3>2. \A call \in 1..agent.made : Open(call) => Open(call)'
      BY <2>4, <2>8
    <3>3. CallsClose'
      BY <1>9, <3>1, <3>2 DEF CallsClose, IdOf
    <3>4. Clash => Clash'
      BY <3>1, <3>2 DEF Clash
    <3>5. Open(x)'
      BY <1>11, <2>6, <2>8
    <3>6. x \in turn.started \/ Clash'
      <4> SUFFICES ASSUME x \notin turn.started PROVE Clash'
        OBVIOUS
      <4>1. ~Numbered
        BY <1>9, <2>1, <2>8 DEF IdOf
      <4>2. CASE turn.calls = {}
        BY <2>8, <3>1, <3>5, <4>1, <4>2 DEF Clash
      <4>3. CASE turn.calls # {}
        <5>1. PICK c \in turn.started : Open(c)
          BY <1>9, <4>3
        <5>2. c # x /\ c \in 1..agent.made /\ Open(c)'
          BY <1>9, <3>2, <5>1
        <5> QED
          BY <2>8, <3>1, <3>5, <4>1, <5>2 DEF Clash
      <4> QED
        BY <4>2, <4>3
    <3>7. \A call \in 1..agent.made :
             call \in turn.started \/ call \in agent.todo \/ Sent("start", call)' \/ Clash'
      BY <1>9, <2>5, <3>4, <3>6
    <3> QED
      BY <3>1, <3>3, <3>7 DEF CallsStart
  <2>9. CASE id \in turn.known /\ ev.kind = "end"
    <3>1. turn'.known = turn.known /\ turn'.started = turn.started /\ turn'.calls = turn.calls \ {id}
      BY <1>4, <1>11, <2>9
    <3>2. id \in turn.calls
      <4>1. ~Refused(ev)
        BY <1>1
      <4>2. id \in Ensured(ev.call).calls
        BY <1>3, <2>9, <4>1 DEF Refused
      <4>3. Ensured(ev.call) = turn
        BY <1>3, <2>9 DEF Ensured
      <4> QED
        BY <4>2, <4>3
    <3>3. \A i \in turn'.calls : \E call \in turn.started : IdOf(call) = i /\ Open(call)'
      <4> TAKE i \in turn'.calls
      <4>1. i \in turn.calls /\ i # id
        BY <3>1
      <4>2. PICK call \in turn.started : IdOf(call) = i /\ Open(call)
        BY <1>9, <4>1
      <4>3. call # x /\ call \in 1..agent.made
        BY <1>9, <2>1, <4>1, <4>2
      <4> QED
        BY <2>4, <4>2, <4>3
    <3>4. CallsClose'
      BY <1>9, <3>1, <3>3 DEF CallsClose, IdOf
    <3>5. Clash => Clash'
      <4> SUFFICES ASSUME Clash PROVE Clash'
        OBVIOUS
      <4>1. ~Numbered /\ turn'.known # {}
        BY <3>1 DEF Clash
      <4>2. PICK call, other \in 1..agent.made : call # other /\ Open(call) /\ Open(other)
        BY <3>2 DEF Clash
      <4>3. \E c \in 1..agent.made : Open(c)'
        BY <2>4, <4>2
      <4>4. turn'.calls = {}
        BY <2>2, <2>3, <3>1, <4>1
      <4> QED
        BY <4>1, <4>3, <4>4 DEF Clash
    <3>6. \A call \in 1..agent.made :
             call \in turn.started \/ call \in agent.todo \/ Sent("start", call)' \/ Clash'
      BY <1>9, <2>5, <2>9, <3>5
    <3> QED
      BY <3>1, <3>4, <3>6 DEF CallsStart
  <2> QED
    BY <2>7, <2>8, <2>9
<1> QED
  BY <1>10, <1>11

(* Where the stream is not touched, what was said of it stays.                           *)
LEMMA FieldsKept ==
    ASSUME AgentCalls, events' = events,
           agent'.phase = agent.phase, agent'.made = agent.made, agent'.todo = agent.todo,
           agent'.running = agent.running,
           turn'.message <=> turn.message, turn'.calls = turn.calls, turn'.known = turn.known,
           turn'.started = turn.started
    PROVE  AgentCalls' /\ (StreamInv => StreamInv')
<1>1. \A kind, call : Sent(kind, call)' <=> Sent(kind, call)
  BY DEF Sent
<1>2. \A kind, call, i : SentAfter(kind, call, i)' <=> SentAfter(kind, call, i)
  BY DEF SentAfter
<1>3. (Ended' <=> Ended) /\ \A call : Open(call)' <=> Open(call)
  BY <1>1 DEF Ended, Open
<1>4. EventsPlaced'
  BY DEF AgentCalls, EventsPlaced, SentAfter
<1>5. AgentCalls'
  BY <1>3, <1>4 DEF AgentCalls
<1>6. MessageCloses => MessageCloses'
  BY <1>1, <1>2, <1>3 DEF MessageCloses
<1>7. CallsClose => CallsClose'
  BY <1>3 DEF CallsClose, IdOf
<1>8. Clash => Clash'
  BY <1>3 DEF Clash
<1>9. CallsStart => CallsStart'
  BY <1>1, <1>8 DEF CallsStart
<1> QED
  BY <1>5, <1>6, <1>7, <1>9 DEF StreamInv

(* Nothing is to do where there is no agent.                                              *)
LEMMA NoAgentKept ==
    ASSUME agent' = NoAgent, events' = <<>>
    PROVE  AgentShape' /\ AgentCalls' /\ \A kind, call : ~Sent(kind, call)'
<1>1. events' \in Seq(AgentEvents) /\ Len(events') = 0
  OBVIOUS
<1>2. AgentShape'
  BY <1>1, NoAgentFields DEF AgentShape, AgentPhases
<1>3. EventsPlaced' /\ \A kind, call : ~Sent(kind, call)'
  BY <1>1 DEF EventsPlaced, Sent
<1>4. agent'.todo = 1..agent'.made /\ 1 \in 1..(agent'.made + 1)
  BY NoAgentFields
<1>5. AgentCalls'
  BY <1>3, <1>4, NoAgentFields DEF AgentCalls
<1> QED
  BY <1>2, <1>3, <1>5

(* The flow before or after the stream.                                                   *)
LEMMA QuietKept ==
    ASSUME AgentInv, turn'.pc # "streaming",
           (turn.pc # "streaming" /\ agent' = agent /\ events' = events) \/ (agent' = NoAgent /\ events' = <<>>),
           turn'.heeded => turn'.abort,
           turn'.pc \notin {"ended", "finalized"} =>
               /\ ~turn'.heeded /\ ~turn'.abort /\ ~turn'.final /\ ~turn'.message
               /\ turn'.calls = {} /\ turn'.known = {} /\ turn'.started = {},
           turn'.pc = "ended" /\ turn'.heeded => turn'.outcome = "aborted",
           turn'.pc = "ended" /\ turn'.outcome = "success" => ~turn'.message /\ turn'.calls = {}
    PROVE  AgentInv' /\ RecordInv'
<1>1. agent' = NoAgent /\ events' = <<>>
  BY DEF AgentInv, AgentAway
<1>2. AgentShape' /\ AgentCalls' /\ agent'.phase = "over"
  BY <1>1, NoAgentKept, NoAgentFields
<1>3. AgentAway'
  BY <1>1 DEF AgentAway
<1>4. AbortKept'
  BY <1>2 DEF AbortKept
<1>5. RecordInv'
  BY DEF RecordInv, CommitClosed
<1> QED
  BY <1>2, <1>3, <1>4, <1>5 DEF AgentInv

(* A step that leaves turn, agent and events, or only polls the stream.                     *)
LEMMA SameKept ==
    ASSUME TurnShape, AgentInv, RecordInv, agent' = agent, events' = events,
           turn' = turn \/ turn' = [turn EXCEPT !.polled = TRUE]
    PROVE  AgentInv' /\ RecordInv'
<1>1. /\ turn'.pc = turn.pc /\ (turn'.heeded <=> turn.heeded) /\ (turn'.abort <=> turn.abort)
      /\ (turn'.final <=> turn.final) /\ (turn'.message <=> turn.message)
      /\ turn'.calls = turn.calls /\ turn'.known = turn.known /\ turn'.started = turn.started
      /\ turn'.outcome = turn.outcome
  BY DEF TurnShape, TurnFields
<1>2. AgentCalls' /\ (StreamInv => StreamInv')
  BY <1>1, FieldsKept DEF AgentInv
<1>3. AgentShape' /\ AgentAway'
  BY <1>1 DEF AgentInv, AgentShape, AgentAway
<1>4. AbortKept'
  <2>1. Sent("AgentDone", 0)' <=> Sent("AgentDone", 0)
    BY DEF Sent
  <2> QED
    BY <1>1, <2>1 DEF AgentInv, AbortKept
<1>5. RecordInv'
  BY <1>1, <1>2 DEF RecordInv, CommitClosed
<1> QED
  BY <1>2, <1>3, <1>4, <1>5 DEF AgentInv

(* A command is applied: an abort cancels the agent, which then never ends well.             *)
LEMMA ApplyKept ==
    ASSUME TurnShape, AgentInv, RecordInv, ApplyPromptControlCommand
    PROVE  AgentInv' /\ RecordInv'
<1>1. /\ turn.pc = "streaming" /\ events' = events
      /\ \/ /\ turn' = [turn EXCEPT !.polled = FALSE, !.abort = TRUE, !.heeded = @ \/ agent.phase # "over"]
            /\ agent' = [agent EXCEPT !.cancelled = TRUE]
         \/ /\ turn' = [turn EXCEPT !.polled = FALSE]
            /\ agent' = [agent EXCEPT !.queued = TRUE]
  BY DEF ApplyPromptControlCommand
<1>2. DOMAIN turn = TurnFields /\ DOMAIN agent = AgentFields
  BY DEF TurnShape, AgentInv, AgentShape
<1>3. /\ turn'.pc = "streaming" /\ (turn'.final <=> turn.final) /\ (turn'.message <=> turn.message)
      /\ turn'.calls = turn.calls /\ turn'.known = turn.known /\ turn'.started = turn.started
  BY <1>1, <1>2 DEF TurnFields
<1>4. /\ DOMAIN agent' = AgentFields
      /\ agent'.phase = agent.phase /\ agent'.made = agent.made /\ agent'.todo = agent.todo
      /\ agent'.running = agent.running /\ agent'.turns = agent.turns
  BY <1>1, <1>2 DEF AgentFields
<1>5. \/ /\ turn'.abort /\ (turn'.heeded <=> turn.heeded \/ agent.phase # "over") /\ agent'.cancelled
      \/ /\ (turn'.abort <=> turn.abort) /\ (turn'.heeded <=> turn.heeded) /\ (agent'.cancelled <=> agent.cancelled)
  BY <1>1, <1>2 DEF TurnFields, AgentFields
<1>6. AgentCalls' /\ (StreamInv => StreamInv')
  BY <1>1, <1>3, <1>4, FieldsKept DEF AgentInv
<1>7. AgentShape' /\ AgentAway'
  BY <1>1, <1>3, <1>4 DEF AgentInv, AgentShape, AgentAway
<1>8. AbortKept'
  <2>1. Sent("AgentDone", 0)' <=> Sent("AgentDone", 0)
    BY <1>1 DEF Sent
  <2> QED
    BY <1>1, <1>3, <1>4, <1>5, <2>1 DEF AgentInv, AbortKept
<1>9. RecordInv'
  BY <1>1, <1>3, <1>6 DEF RecordInv, CommitClosed
<1> QED
  BY <1>6, <1>7, <1>8, <1>9 DEF AgentInv

(* The stream begins, with nothing recorded yet.                                             *)
LEMMA StreamBegins ==
    ASSUME TurnShape, AgentInv, BeginStream
    PROVE  AgentInv' /\ RecordInv'
<1>1. /\ turn.pc = "prepared" /\ turn' = [turn EXCEPT !.pc = "streaming"]
      /\ agent' = [NoAgent EXCEPT !.phase = "turn"] /\ events' = events
  BY DEF BeginStream
<1>2. /\ events = <<>> /\ ~turn.heeded /\ ~turn.abort /\ ~turn.final /\ ~turn.message
      /\ turn.calls = {} /\ turn.known = {} /\ turn.started = {}
  BY <1>1 DEF AgentInv, AgentAway
<1>3. /\ turn'.pc = "streaming" /\ ~turn'.heeded /\ ~turn'.abort /\ ~turn'.final /\ ~turn'.message
      /\ turn'.calls = {} /\ turn'.known = {} /\ turn'.started = {}
  BY <1>1, <1>2 DEF TurnShape, TurnFields
<1>4. /\ DOMAIN agent' = AgentFields /\ agent'.phase = "turn" /\ agent'.made = 0 /\ agent'.turns = 0
      /\ agent'.todo = {} /\ agent'.running = {}
  BY <1>1, NoAgentFields DEF AgentFields
<1>5. events' \in Seq(AgentEvents) /\ Len(events') = 0
  BY <1>1, <1>2
<1>6. AgentShape' /\ AgentAway'
  BY <1>3, <1>4, <1>5 DEF AgentShape, AgentAway, AgentPhases
<1>7. EventsPlaced' /\ \A kind, call : ~Sent(kind, call)'
  BY <1>5 DEF EventsPlaced, Sent
<1>8. AgentCalls'
  <2>1. agent'.todo = 1..agent'.made /\ 1 \in 1..(agent'.made + 1)
    BY <1>4
  <2> QED
    BY <1>4, <1>7, <2>1 DEF AgentCalls
<1>9. AbortKept'
  BY <1>3, <1>4, <1>7 DEF AbortKept
<1>10. MessageCloses' /\ CallsClose' /\ CallsStart'
  <2>1. 1..agent'.made = {}
    BY <1>4
  <2> QED
    BY <1>3, <1>5, <2>1 DEF MessageCloses, CallsClose, CallsStart
<1> QED
  BY <1>3, <1>6, <1>8, <1>9, <1>10 DEF AgentInv, RecordInv, StreamInv, CommitClosed

(* The flow is over; as a success only with everything closed and no abort.                   *)
LEMMA EndFlowKept ==
    ASSUME TurnShape, AgentInv, RecordInv, turn.pc = "streaming", NEW outcome, EndFlow(outcome),
           outcome = Failure \/ (outcome = "success" /\ turn.final /\ events = <<>> /\ agent.phase = "over")
    PROVE  AgentInv' /\ RecordInv'
<1>1. /\ turn' = [turn EXCEPT !.pc = "ended", !.outcome = outcome, !.rx = 0]
      /\ agent' = NoAgent /\ events' = <<>>
  BY DEF EndFlow
<1>2. /\ turn'.pc = "ended" /\ (turn'.heeded <=> turn.heeded) /\ (turn'.abort <=> turn.abort)
      /\ (turn'.message <=> turn.message) /\ turn'.calls = turn.calls /\ turn'.outcome = outcome
  BY <1>1 DEF TurnShape, TurnFields
<1>3. turn.heeded => turn.abort
  BY DEF AgentInv, AbortKept
<1>4. outcome = Failure => (turn.heeded => outcome = "aborted") /\ outcome # "success"
  BY <1>3 DEF Failure
<1>5. ASSUME outcome = "success" PROVE ~turn.heeded /\ ~turn.message /\ turn.calls = {}
  <2>1. turn.final /\ events = <<>> /\ agent.phase = "over"
    BY <1>4, <1>5
  <2>2. ~turn.heeded
    BY <2>1 DEF AgentInv, AbortKept
  <2>3. \A kind, call : ~Sent(kind, call)
    <3>1. Len(events) = 0
      BY <2>1
    <3> QED
      BY <3>1 DEF Sent
  <2>4. ~turn.message
    BY <2>1, <2>3 DEF RecordInv, StreamInv, MessageCloses, Ended
  <2>5. turn.calls = {}
    BY <2>1, <2>3 DEF RecordInv, StreamInv, CallsClose, Open, AgentInv, AgentCalls
  <2> QED
    BY <2>2, <2>4, <2>5
<1> QED
  BY <1>1, <1>2, <1>3, <1>4, <1>5, QuietKept

(* Every step keeps what is said of the agent, its events and the transaction.                *)
LEMMA TurnStep ==
    ASSUME ControlInv, AgentInv, RecordInv, [PromptNext]_promptTurnVars
    PROVE  AgentInv' /\ RecordInv'
<1>0. TurnShape /\ DOMAIN turn = TurnFields
  BY DEF ControlInv, TurnShape
<1>1. ASSUME Client \/ UNCHANGED promptTurnVars PROVE AgentInv' /\ RecordInv'
  <2>1. UNCHANGED <<turn, agent, events>>
    BY <1>1 DEF Client, promptVars, promptTurnVars
  <2> QED
    BY <1>0, <2>1, SameKept
<1>2. ASSUME MakeHandle \/ PlainPrompt \/ \E h \in Issued : SubmitPrompt(h)
      PROVE  AgentInv' /\ RecordInv'
  <2>1. /\ turn.pc = "idle" /\ agent' = agent /\ events' = events
        /\ \/ turn' = [NoTurn EXCEPT !.pc = "ready", !.op = prompts + 1]
           \/ turn' = [NoTurn EXCEPT !.pc = "bound", !.op = prompts + 1]
           \/ \E h \in Issued : turn' = [NoTurn EXCEPT !.pc = "committed", !.op = prompts + 1, !.by = h]
    BY <1>2 DEF MakeHandle, PlainPrompt, SubmitPrompt
  <2>2. /\ turn'.pc \in {"ready", "bound", "committed"}
        /\ ~turn'.heeded /\ ~turn'.abort /\ ~turn'.final /\ ~turn'.message
        /\ turn'.calls = {} /\ turn'.known = {} /\ turn'.started = {}
    BY <2>1, NoTurnFields DEF TurnFields
  <2> QED
    BY <2>1, <2>2, QuietKept
<1>3. ASSUME BindPrompt \/ Prepare PROVE AgentInv' /\ RecordInv'
  <2>1. /\ turn.pc \in {"committed", "ready", "bound"} /\ agent' = agent /\ events' = events
        /\ \/ turn' = [turn EXCEPT !.pc = "bound"]
           \/ turn' = [turn EXCEPT !.pc = "prepared", !.rx = receiver]
    BY <1>3 DEF BindPrompt, Prepare
  <2>2. /\ ~turn.heeded /\ ~turn.abort /\ ~turn.final /\ ~turn.message
        /\ turn.calls = {} /\ turn.known = {} /\ turn.started = {}
    BY <2>1 DEF AgentInv, AgentAway
  <2>3. /\ turn'.pc \in {"bound", "prepared"}
        /\ ~turn'.heeded /\ ~turn'.abort /\ ~turn'.final /\ ~turn'.message
        /\ turn'.calls = {} /\ turn'.known = {} /\ turn'.started = {}
    BY <1>0, <2>1, <2>2 DEF TurnFields
  <2> QED
    BY <2>1, <2>3, QuietKept
<1>4. ASSUME PrepareFails \/ RunEnds PROVE AgentInv' /\ RecordInv'
  <2>1. turn.pc # "streaming" /\ agent' = agent /\ events' = events /\ turn' = NoTurn
    BY <1>4 DEF PrepareFails, RunEnds, Return
  <2> QED
    BY <2>1, NoTurnFields, QuietKept
<1>5. ASSUME BeginStream PROVE AgentInv' /\ RecordInv'
  BY <1>0, <1>5, StreamBegins
<1>6. ASSUME FlowFails PROVE AgentInv' /\ RecordInv'
  <2>1. /\ turn.pc = "prepared" /\ agent' = agent /\ events' = events
        /\ turn' = [turn EXCEPT !.pc = "ended", !.outcome = Failure]
    BY <1>6 DEF FlowFails
  <2>2. turn'.pc = "ended" /\ (turn'.heeded <=> turn.heeded) /\ turn'.outcome = Failure
    BY <1>0, <2>1 DEF TurnFields
  <2>3. ~turn.heeded
    BY <2>1 DEF AgentInv, AgentAway
  <2>4. Failure # "success"
    BY DEF Failure
  <2> QED
    BY <2>1, <2>2, <2>3, <2>4, QuietKept
<1>7. ASSUME AgentStep PROVE AgentInv' /\ RecordInv'
  BY <1>7, AgentKept
<1>8. ASSUME PollStream PROVE AgentInv' /\ RecordInv'
  <2>1. agent' = agent /\ events' = events /\ turn' = [turn EXCEPT !.polled = TRUE]
    BY <1>8 DEF PollStream
  <2> QED
    BY <1>0, <2>1, SameKept
<1>9. ASSUME ApplyPromptControlCommand PROVE AgentInv' /\ RecordInv'
  BY <1>0, <1>9, ApplyKept
<1>10. ASSUME RecordEvent PROVE AgentInv' /\ RecordInv'
  <2>1. turn.pc = "streaming" /\ events # <<>>
    BY <1>10 DEF RecordEvent
  <2>2. CASE Head(events).kind = "AgentError" \/ Refused(Head(events))
    <3>1. EndFlow(Failure)
      BY <1>10, <2>2 DEF RecordEvent
    <3> QED
      BY <1>0, <2>1, <3>1, EndFlowKept
  <2>3. CASE ~(Head(events).kind = "AgentError" \/ Refused(Head(events)))
    <3>1. /\ turn' = [Recorded(Head(events)) EXCEPT !.polled = FALSE]
          /\ events' = Tail(events) /\ agent' = agent
      BY <1>10, <2>3 DEF RecordEvent
    <3> QED
      BY <1>0, <2>1, <2>3, <3>1, RecordKept
  <2> QED
    BY <2>2, <2>3
<1>11. ASSUME EndStream PROVE AgentInv' /\ RecordInv'
  <2>1. /\ turn.pc = "streaming" /\ events = <<>> /\ agent.phase = "over"
        /\ (turn.final /\ EndFlow("success")) \/ EndFlow(Failure)
    BY <1>11 DEF EndStream
  <2>2. CASE turn.final /\ EndFlow("success")
    BY <1>0, <2>1, <2>2, EndFlowKept
  <2>3. CASE EndFlow(Failure)
    BY <1>0, <2>1, <2>3, EndFlowKept
  <2> QED
    BY <2>1, <2>2, <2>3
<1>12. ASSUME AuthorizeFails PROVE AgentInv' /\ RecordInv'
  <2>1. /\ turn.pc = "ended" /\ turn.outcome = "success" /\ agent' = agent /\ events' = events
        /\ turn' = [turn EXCEPT !.outcome = "failed"]
    BY <1>12 DEF AuthorizeFails
  <2>2. turn'.pc = "ended" /\ turn'.outcome = "failed" /\ (turn'.heeded <=> turn.heeded)
    BY <1>0, <2>1 DEF TurnFields
  <2>3. ~turn.heeded
    BY <2>1 DEF AgentInv, AbortKept
  <2> QED
    BY <2>1, <2>2, <2>3, QuietKept
<1>13. ASSUME NEW written \in BOOLEAN, Finalize(written) PROVE AgentInv' /\ RecordInv'
  <2>1. /\ turn.pc = "ended" /\ agent' = agent /\ events' = events
        /\ turn' = [turn EXCEPT !.pc = "finalized", !.outcome = IF written THEN @ ELSE "failed"]
    BY <1>13 DEF Finalize
  <2>2. turn'.pc = "finalized" /\ (turn'.heeded <=> turn.heeded) /\ (turn'.abort <=> turn.abort)
    BY <1>0, <2>1 DEF TurnFields
  <2>3. turn.heeded => turn.abort
    BY DEF AgentInv, AbortKept
  <2> QED
    BY <2>1, <2>2, <2>3, QuietKept
<1>14. ASSUME DropFuture PROVE AgentInv' /\ RecordInv'
  <2>1. turn' = NoTurn /\ agent' = NoAgent /\ events' = <<>>
    BY <1>14 DEF DropFuture
  <2> QED
    BY <2>1, NoTurnFields, QuietKept
<1>15. ASSUME NEW kind \in ControlKinds, NEW text \in Texts, TaskControl(kind, text)
       PROVE  AgentInv' /\ RecordInv'
  <2>1. DropFuture \/ UNCHANGED promptVars
    BY <1>15 DEF TaskControl
  <2>2. CASE UNCHANGED promptVars
    <3>1. UNCHANGED <<turn, agent, events>>
      BY <2>2 DEF promptVars
    <3> QED
      BY <1>0, <3>1, SameKept
  <2> QED
    BY <1>14, <2>1, <2>2
<1> QED
  BY <1>1, <1>2, <1>3, <1>4, <1>5, <1>6, <1>7, <1>8, <1>9, <1>10, <1>11, <1>12, <1>13, <1>14, <1>15
  DEF PromptNext, Stream, DropRun

(***************************************************************************)
(* The theorems.                                                            *)
(***************************************************************************)
PromptInv == ControlInv /\ AgentInv /\ RecordInv

(* The inductive invariant of prompts and their control.                     *)
LEMMA PromptInvariant == PromptSpec => []PromptInv
<1>1. PromptInit => PromptInv
  BY InitControl, InitAgent DEF PromptInv
<1>2. PromptInv /\ [PromptNext]_promptTurnVars => PromptInv'
  <2> SUFFICES ASSUME PromptInv, [PromptNext]_promptTurnVars PROVE PromptInv'
    OBVIOUS
  <2>1. ControlInv /\ AgentInv /\ RecordInv /\ events \in Seq(AgentEvents)
    BY DEF PromptInv, AgentInv, AgentShape
  <2>2. ControlInv'
    BY <2>1, ControlStep
  <2>3. AgentInv' /\ RecordInv'
    BY <2>1, TurnStep
  <2> QED
    BY <2>2, <2>3 DEF PromptInv
<1> QED
  BY <1>1, <1>2, PTL DEF PromptSpec

(* The invariant types the state.                                             *)
LEMMA InvTypes == PromptInv => PromptTypeOK
<1> SUFFICES ASSUME PromptInv PROVE PromptTypeOK
  OBVIOUS
<1>1. RegistryTypeOK /\ ChannelsShape /\ ClientsShape /\ BindingShape /\ TurnShape /\ AgentShape
  BY DEF PromptInv, ControlInv, AgentInv
<1>2. ControlTypeOK
  <2>1. \A i \in 1..Len(chans) : chans[i].open \in BOOLEAN /\ Len(chans[i].queue) <= ChannelCapacity
    BY <1>1, ChannelType
  <2>2. sender \in 0..Len(chans) /\ receiver \in {0, sender}
    BY <1>1 DEF ChannelsShape
  <2>3. binding.st = "bound" => binding.owner \in Issued /\ binding.chan \in 1..Len(chans)
    BY <1>1 DEF BindingShape, NoBinding
  <2>4. \A c \in Clients :
          /\ Cardinality(receipts[c]) <= MaxReceipts
          /\ \A kind \in DraftKinds : Cardinality({d \in drafts[c] : d.kind = kind}) <= MaxQueued
    BY <1>1 DEF ClientsShape, KeptShape, OfKind
  <2>5. \A i \in 1..Len(accepted) : accepted[i].kind \in ControlKinds
    <3>1. accepted \in Seq(Commands)
      BY <1>1 DEF ChannelsShape
    <3>2. \A i \in 1..Len(accepted) : accepted[i] \in Commands
      BY <3>1
    <3> QED
      BY <3>2 DEF Commands
  <2> QED
    BY <2>1, <2>2, <2>3, <2>4, <2>5 DEF ControlTypeOK
<1>3. turn.op \in 0..MaxPrompts
  BY <1>1, PromptAssumption DEF TurnShape
<1>4. \A i \in 1..Len(events) : events[i].kind \in AgentEventKinds
  <2>1. \A i \in 1..Len(events) : events[i] \in AgentEvents
    BY <1>1 DEF AgentShape
  <2> QED
    BY <2>1 DEF AgentEvents
<1> QED
  BY <1>1, <1>2, <1>3, <1>4 DEF PromptTypeOK, TurnShape, TurnPcs, AgentShape, AgentPhases

(* Commands are applied in their order, each at most once.                     *)
LEMMA InvInOrder == PromptInv => ControlsInOrder /\ ControlOnce
<1> SUFFICES ASSUME PromptInv PROVE ControlsInOrder /\ ControlOnce
  OBVIOUS
<1>1. /\ ChannelsShape /\ TurnShape /\ OneReader /\ Begun /\ AppliedFirst /\ QueuedRest /\ AcceptedFor
      /\ accepted \in Seq(Commands) /\ applied \in Seq(Commands)
      /\ Len(accepted) \in Nat /\ Len(applied) \in Nat
  BY DEF PromptInv, ControlInv, ChannelsShape
<1>2. /\ Len(applied) <= Len(accepted) /\ \A i \in 1..Len(applied) : applied[i] = accepted[i]
      /\ \A i \in 1..Len(applied) : i \in 1..Len(accepted)
  BY <1>1 DEF AppliedFirst
<1>3. \A i \in 1..Len(applied) : applied[i].op = turn.op
  BY <1>1, <1>2 DEF AcceptedFor
<1>4. ControlOnce
  BY <1>1, <1>2 DEF ControlOnce, AcceptedFor
<1>5. applied = SubSeq(accepted, 1, Len(applied))
  <2>1. PICK s : s = SubSeq(accepted, 1, Len(applied))
    OBVIOUS
  <2>2. /\ s \in Seq(Commands) /\ Len(s) = Len(applied)
        /\ \A i \in 1..Len(applied) : s[i] = accepted[i]
    BY <1>1, <1>2, <2>1
  <2>3. Len(s) = Len(applied) /\ \A i \in 1..Len(s) : s[i] = applied[i]
    BY <1>2, <2>2
  <2>4. s = applied
    BY <1>1, <2>2, <2>3, SeqEqual
  <2> QED
    BY <2>1, <2>4
<1>6. ASSUME turn.rx # 0 PROVE applied \o chans[turn.rx].queue = accepted
  <2>1. Live = turn.rx /\ turn.rx \in 1..Len(chans) /\ turn.pc # "idle"
    BY <1>1, <1>6 DEF Live, TurnShape, OneReader
  <2>2. PICK q : q = chans[turn.rx].queue
    OBVIOUS
  <2>3. q \in Seq(Commands) /\ Len(q) \in Nat
    BY <1>1, <2>1, <2>2, ChannelType
  <2>4. /\ Len(accepted) = Len(applied) + Len(q)
        /\ \A i \in 1..Len(q) : accepted[Len(applied) + i] = q[i]
    BY <1>1, <1>6, <2>1, <2>2 DEF QueuedRest
  <2>5. PICK s : s = applied \o q
    OBVIOUS
  <2>6. /\ s \in Seq(Commands) /\ Len(s) = Len(applied) + Len(q)
        /\ \A i \in 1..Len(applied) : s[i] = applied[i]
        /\ \A i \in 1..Len(s) : i \notin 1..Len(applied) => s[i] = q[i - Len(applied)]
    <3>1. s \in Seq(Commands) /\ Len(s) = Len(applied) + Len(q)
      BY <1>1, <2>3, <2>5
    <3>2. \A i \in 1..(Len(applied) + Len(q)) :
              s[i] = IF i <= Len(applied) THEN applied[i] ELSE q[i - Len(applied)]
      BY <1>1, <2>3, <2>5, ConcatProperties
    <3> QED
      BY <1>1, <2>3, <3>1, <3>2
  <2>7. ASSUME NEW i \in 1..Len(s) PROVE s[i] = accepted[i]
    <3>1. CASE i \in 1..Len(applied)
      BY <1>2, <2>6, <3>1
    <3>2. CASE i \notin 1..Len(applied)
      <4>1. i - Len(applied) \in 1..Len(q) /\ Len(applied) + (i - Len(applied)) = i
        BY <1>1, <2>3, <2>6, <3>2
      <4>2. accepted[Len(applied) + (i - Len(applied))] = q[i - Len(applied)]
        BY <2>4, <4>1
      <4> QED
        BY <2>6, <3>2, <4>1, <4>2
    <3> QED
      BY <3>1, <3>2
  <2>8. s = accepted
    BY <1>1, <2>4, <2>6, <2>7, SeqEqual
  <2> QED
    BY <2>2, <2>5, <2>8
<1> QED
  BY <1>2, <1>3, <1>4, <1>5, <1>6 DEF ControlsInOrder

(* A prompt can be controlled as long as it runs.                               *)
LEMMA InvControllable == PromptInv => Controllable
<1> SUFFICES ASSUME PromptInv, ~dropped
             PROVE  /\ turn.pc = "streaming" /\ front # "print" => turn.rx # 0 /\ chans[turn.rx].open
                    /\ turn.pc = "streaming" /\ front = "rpc" /\ lifecycle = "Running" =>
                            binding.st = "bound" /\ binding.op = turn.op /\ binding.chan = turn.rx
                    /\ turn.pc = "idle" => binding = NoBinding /\ sender = 0 /\ receiver = 0
  BY DEF Controllable
<1>1. ChannelsShape /\ TurnShape /\ OneReader /\ Undropped
  BY DEF PromptInv, ControlInv
<1>2. turn.pc = "idle" => binding = NoBinding /\ sender = 0 /\ receiver = 0
  BY <1>1 DEF Undropped
<1>3. turn.pc = "streaming" => receiver = 0 /\ Live = turn.rx
  BY <1>1 DEF OneReader, Live
<1>4. turn.pc = "streaming" /\ front # "print" => turn.rx # 0 /\ chans[turn.rx].open
  <2> SUFFICES ASSUME turn.pc = "streaming", front # "print" PROVE turn.rx # 0 /\ chans[turn.rx].open
    OBVIOUS
  <2>1. turn.rx # 0
    BY <1>1, <1>3 DEF Undropped
  <2>2. turn.rx \in 1..Len(chans)
    BY <1>1, <2>1 DEF TurnShape, ChannelsShape
  <2> QED
    BY <1>1, <1>3, <2>1, <2>2 DEF OneReader
<1>5. turn.pc = "streaming" /\ front = "rpc" /\ lifecycle = "Running" =>
          binding.st = "bound" /\ binding.op = turn.op /\ binding.chan = turn.rx
  BY <1>1, <1>3 DEF Undropped
<1> QED
  BY <1>2, <1>4, <1>5

(* Whatever clients, tools and providers do, and however many of them there are: *)
(* commands reach the prompt they were accepted for, in the order of their        *)
(* acceptance and at most once per id (OperationControl, SnapshotCoordinator),     *)
(* an abort that is applied while the agent works ends the prompt as aborted       *)
(* (run_prompt_turn), and a prompt that streams can be controlled.                 *)
THEOREM ControlsCorrect == PromptSpec => []ControlsSound
<1>1. PromptInv => AbortHeeded
  BY DEF PromptInv, AgentInv, AbortKept, AbortHeeded
<1>2. PromptInv => ControlsSound
  BY <1>1, InvTypes, InvInOrder, InvControllable DEF ControlsSound
<1> QED
  BY <1>2, PromptInvariant, PTL

(* A prompt that succeeds left no message and no tool call open in its             *)
(* transaction, and recorded every call that its agent made, in whatever order     *)
(* tools end and whether or not the provider numbers its calls                      *)
(* (record_agent_event_to_transaction).                                             *)
THEOREM TurnsRecorded == PromptSpec => []TurnRecorded
<1>1. PromptInv => CommitClosed
  BY DEF PromptInv, RecordInv
<1>2. PromptInv => ToolCallsRecorded
  <2> SUFFICES ASSUME PromptInv, turn.pc = "streaming", agent.phase = "over", events = <<>>, turn.final
               PROVE  turn.started = 1..agent.made
    BY DEF ToolCallsRecorded
  <2>1. StreamInv /\ AgentCalls /\ Len(events) = 0
    BY DEF PromptInv, RecordInv, AgentInv
  <2>2. \A kind, call : ~Sent(kind, call)
    BY <2>1 DEF Sent
  <2>3. agent.todo = {} /\ agent.running = {}
    BY <2>1, <2>2 DEF AgentCalls, Ended
  <2>4. ~Clash
    BY <2>2, <2>3 DEF Clash, Open
  <2> QED
    BY <2>1, <2>2, <2>3, <2>4 DEF StreamInv, CallsClose, CallsStart
<1>3. PromptInv => TurnRecorded
  BY <1>1, <1>2 DEF TurnRecorded
<1> QED
  BY <1>3, PromptInvariant, PTL
=============================================================================
