---------------------------- MODULE PromptControl ----------------------------
(***************************************************************************)
(* How a running prompt is steered, followed up and aborted.  OperationControl *)
(* keeps the two ends of a bounded channel; SnapshotCoordinator binds its    *)
(* sender to the client that submitted the prompt, checks who may use it and *)
(* remembers what it accepted, so that a control that is sent again is not   *)
(* queued again.  Every action is one critical section; the prompt that      *)
(* reads the channel is module PromptTurn.                                   *)
(***************************************************************************)
EXTENDS ClientRegistry, Sequences

CONSTANTS
    ControlIds,       \* the control ids (and draft ids) that clients use
    Texts,            \* what controls and drafts say
    ChannelCapacity,  \* prompt_control_channel, 64 in the product
    MaxReceipts,      \* MAX_RECEIPTS, 64 in the product
    MaxQueued,        \* MAX_DRAFTS, drafts of one kind a client may queue
    Drafting          \* the kinds of control that are queued as drafts first

ControlKinds == {"Abort", "Steer", "FollowUp"}
DraftKinds == {"Steer", "FollowUp"}

ASSUME ControlAssumption ==
    /\ 0 \notin ControlIds
    /\ ChannelCapacity \in Nat \ {0}
    /\ MaxReceipts \in Nat /\ MaxQueued \in Nat
    /\ Drafting \subseteq DraftKinds

VARIABLES
    chans,     \* the channels made so far: [open, queue]
    sender,    \* prompt_control_sender: a channel, 0 for None
    receiver,  \* prompt_control_receiver: a channel, 0 for None
    binding,   \* PromptControlBinding, or NoBinding
    receipts,  \* per client: control_receipts
    drafts,    \* per client: steer_drafts and follow_up_drafts
    reading,   \* per client: a draft that was read and is about to be sent
    accepted   \* history: the commands accepted for the prompt under way

control == <<chans, sender, receiver, binding, receipts, drafts, reading, accepted>>

NoBinding == [st |-> "none"]
Bound(h, op, chan) == [st |-> "bound", owner |-> h, op |-> op, chan |-> chan]
NoReading == [st |-> "none"]

(* A PromptControlCommand is its kind and text; id and op are history: 0 for  *)
(* the id of a command that the terminal's prompt task sends.                 *)
Command(kind, text, op, id) == [kind |-> kind, text |-> text, op |-> op, id |-> id]

ControlInit ==
    /\ chans = <<>>
    /\ sender = 0 /\ receiver = 0
    /\ binding = NoBinding
    /\ receipts = [c \in Clients |-> {}]
    /\ drafts = [c \in Clients |-> {}]
    /\ reading = [c \in Clients |-> NoReading]
    /\ accepted = <<>>

----------------------------------------------------------------------------
(* The channel.                                                               *)

\* try_send: Closed without a receiver, Full at the capacity.
CanSend(chan) == chans[chan].open /\ Len(chans[chan].queue) < ChannelCapacity

Send(chan, command) ==
    /\ chans' = [chans EXCEPT ![chan].queue = Append(@, command)]
    /\ accepted' = Append(accepted, command)

\* prompt_control_handle: a channel whose ends are both kept.
NewChannel ==
    /\ receiver = 0
    /\ chans' = Append(chans, [open |-> TRUE, queue |-> <<>>])
    /\ sender' = Len(chans) + 1
    /\ receiver' = Len(chans) + 1

\* The receiver is dropped, and with it what is still queued.
Closed(chan) ==
    IF chan = 0 THEN chans ELSE [chans EXCEPT ![chan] = [open |-> FALSE, queue |-> <<>>]]

----------------------------------------------------------------------------
(* The coordinator.                                                           *)

\* The checks of enqueue_prompt_control, in its order: record, receipt,
\* MAX_RECEIPTS, binding, owner, target, channel.
HasReceipt(h, op, id) == \E r \in receipts[h.id] : r.op = op /\ r.id = id

\* Mutant of CanEnqueue: a control that was accepted before is sent again.
CanEnqueueAgain(h, op, id) ==
    /\ Valid(h)
    /\ Cardinality(receipts[h.id]) < MaxReceipts
    /\ binding.st = "bound"
    /\ binding.owner.id = h.id
    /\ binding.op = op
    /\ CanSend(binding.chan)

CanEnqueue(h, op, id) ==
    /\ Valid(h)
    /\ ~HasReceipt(h, op, id)
    /\ Cardinality(receipts[h.id]) < MaxReceipts
    /\ binding.st = "bound"
    /\ binding.owner.id = h.id
    /\ binding.op = op
    /\ CanSend(binding.chan)

\* What an accepted control changes; a duplicate or a rejection changes nothing.
Accept(h, op, id, kind, text) ==
    /\ Send(binding.chan, Command(kind, text, op, id))
    /\ receipts' = [receipts EXCEPT ![h.id] =
                       @ \cup {[op |-> op, id |-> id, kind |-> kind, text |-> text]}]
    /\ drafts' = [drafts EXCEPT ![h.id] = {d \in @ : d.kind # kind \/ d.id # id}]
    /\ UNCHANGED <<sender, receiver, binding>>

\* enqueue_prompt_control.
EnqueuePromptControl(h, op, id, kind, text) ==
    /\ CanEnqueue(h, op, id)
    /\ Accept(h, op, id, kind, text)
    /\ UNCHANGED reading

\* enqueue_draft: a draft of the same kind and id is replaced.
EnqueueDraft(h, id, kind, text) ==
    /\ Valid(h)
    /\ LET queue == {d \in drafts[h.id] : d.kind = kind}
           others == {d \in drafts[h.id] : d.kind # kind \/ d.id # id}
       IN  /\ (\E d \in queue : d.id = id) \/ Cardinality(queue) < MaxQueued
           /\ drafts' = [drafts EXCEPT ![h.id] =
                            others \cup {[id |-> id, kind |-> kind, text |-> text]}]
    /\ UNCHANGED <<chans, sender, receiver, binding, receipts, reading, accepted>>

\* enqueue_prompt_control_draft reads the draft ...
ReadDraft(h, op) ==
    /\ Valid(h)
    /\ reading[h.id] = NoReading
    /\ \E d \in drafts[h.id] :
        reading' = [reading EXCEPT ![h.id] =
                       [st |-> "read", gen |-> h.gen, op |-> op, draft |-> d]]
    /\ UNCHANGED <<chans, sender, receiver, binding, receipts, drafts, accepted>>

\* ... and sends what it read under the lock a second time.
SendDraft(c) ==
    /\ reading[c] # NoReading
    /\ reading' = [reading EXCEPT ![c] = NoReading]
    /\ LET r == reading[c]
           h == [id |-> c, gen |-> r.gen]
       IN  \/ CanEnqueue(h, r.op, r.draft.id)
              /\ Accept(h, r.op, r.draft.id, r.draft.kind, r.draft.text)
           \/ ~CanEnqueue(h, r.op, r.draft.id)
              /\ UNCHANGED <<chans, sender, receiver, binding, receipts, drafts, accepted>>

\* bind_prompt_control, with the sender there is or with a new one.
BindPromptControl(h, op) ==
    /\ \/ sender # 0 /\ UNCHANGED <<chans, sender, receiver>>
       \/ sender = 0 /\ NewChannel
    /\ binding' = Bound(h, op, sender')
    /\ UNCHANGED <<receipts, drafts, reading, accepted>>

\* rebind_prompt_control: the owner's next generation owns the prompt.
RebindPromptControl(c) ==
    /\ binding' = IF binding.st = "bound" /\ binding.owner.id = c
                  THEN [binding EXCEPT !.owner.gen = generation'[c]] ELSE binding
    /\ UNCHANGED <<chans, sender, receiver, receipts, drafts, reading, accepted>>

\* request_shutdown closes the registry and takes the binding.
UnbindPromptControl ==
    /\ binding' = NoBinding
    /\ UNCHANGED <<chans, sender, receiver, receipts, drafts, reading, accepted>>

\* clear_prompt_control, clear_prompt_control_receiver.
ClearPromptControl(op) ==
    /\ binding' = IF binding.st = "bound" /\ binding.op = op THEN NoBinding ELSE binding
    /\ sender' = 0 /\ receiver' = 0

ControlTypeOK ==
    /\ \A i \in 1..Len(chans) : chans[i].open \in BOOLEAN /\ Len(chans[i].queue) <= ChannelCapacity
    /\ sender \in 0..Len(chans) /\ receiver \in {0, sender}
    /\ binding.st = "bound" => binding.owner \in Issued /\ binding.chan \in 1..Len(chans)
    /\ \A c \in Clients :
        /\ Cardinality(receipts[c]) <= MaxReceipts
        /\ \A kind \in DraftKinds : Cardinality({d \in drafts[c] : d.kind = kind}) <= MaxQueued
    /\ \A i \in 1..Len(accepted) : accepted[i].kind \in ControlKinds
==============================================================================
