------------------------------ MODULE RpcFeed ------------------------------
(***************************************************************************)
(* The event path of one RPC run: the spawned task that drives              *)
(* CodingAgentSession::run and forwards the session's broadcast receiver     *)
(* into a bounded queue, the queue, and the adapter that turns queued and    *)
(* replayed product events into protocol events.  RpcLoop adds the commands. *)
(***************************************************************************)
EXTENDS Naturals, Sequences, FiniteSetsExt, SequencesExt

CONSTANTS
    ChannelCap,   \* EVENT_CHANNEL_CAPACITY, 128 in the product
    RetainCap,    \* EVENT_RETAINED_CAPACITY, 128 in the product
    QueueCap,     \* RPC_PRODUCT_EVENT_QUEUE_CAPACITY, 128 in the product
    MaxEmits      \* bound: events an operation emits before its terminal one

ASSUME FeedAssumption ==
    /\ ChannelCap \in Nat \ {0}
    /\ RetainCap \in Nat \ {0}
    /\ QueueCap \in Nat \ {0}
    /\ MaxEmits \in Nat

VARIABLES
    published,  \* next_event_sequence - 1 of the session's event service
    task,       \* the spawned task: where it is, its receiver, the item it is sending
    queue,      \* RpcProductEventQueue: sequences and the Overflow marker
    closed,     \* CodingRunningPrompt::events_closed
    applied,    \* adapter_applied_sequence
    shown,      \* sequences written to the client in this run, in order
    excused     \* up to here the client knows without being shown: published before
                \* the run, at or below a cursor it presented, or reported as lagged

feed == <<published, task, queue, closed, applied, shown, excused>>

\* RpcQueuedProductEvent: an event, or Overflow and up to where it accounts for
\* events that will not be sent.
Item(seq, lag) == [seq |-> seq, lag |-> lag]
Nothing == Item(0, FALSE)

NoTask == [at |-> "none", ok |-> TRUE, rcv |-> 0, fwd |-> FALSE, hold |-> Nothing, emits |-> 0]

FeedInit ==
    /\ published = 0
    /\ task = NoTask
    /\ queue = <<>>
    /\ closed = FALSE
    /\ applied = 0
    /\ shown = <<>>
    /\ excused = 0

FeedTypeOK ==
    /\ published \in Nat
    /\ task.at \in {"none", "start", "op", "drain", "last", "done", "died"}
    /\ task.hold \in [seq : Nat, lag : BOOLEAN]
    /\ Len(queue) <= QueueCap
    /\ closed \in BOOLEAN
    /\ applied \in 0..published
    /\ shown \in Seq(1..published)
    /\ excused \in Nat

\* The session subscribes before the task is spawned; the adapter starts at 0.
StartFeed ==
    /\ task' = [NoTask EXCEPT !.at = "start", !.rcv = published, !.fwd = TRUE]
    /\ queue' = <<>>
    /\ closed' = FALSE
    /\ applied' = 0
    /\ shown' = <<>>
    /\ excused' = published
    /\ UNCHANGED published

----------------------------------------------------------------------------
(* The task.                                                                 *)

\* The operation emits a product event (EventService::emit).
Emit ==
    /\ task.at = "op"
    /\ task.emits < MaxEmits
    /\ published' = published + 1
    /\ task' = [task EXCEPT !.emits = @ + 1]
    /\ UNCHANGED <<queue, closed, applied, shown, excused>>

Lags == published - task.rcv > ChannelCap

\* broadcast recv: a receiver more than the channel behind is moved to the
\* oldest event still held and told how many it missed.
Received ==
    IF Lags THEN [task EXCEPT !.rcv = published - ChannelCap,
                              !.hold = Item(published - ChannelCap, TRUE)]
            ELSE [task EXCEPT !.rcv = @ + 1, !.hold = Item(task.rcv + 1, FALSE)]

\* One receiver branch of the select; a lag report ends the forwarding.
Forward ==
    /\ task.at = "op"
    /\ task.fwd
    /\ task.hold = Nothing
    /\ task.rcv < published
    /\ task' = [Received EXCEPT !.fwd = ~Lags]
    /\ UNCHANGED <<published, queue, closed, applied, shown, excused>>

\* send_event, send_overflow: waits for room in the queue.
Push ==
    /\ task.hold # Nothing
    /\ Len(queue) < QueueCap
    /\ queue' = Append(queue, task.hold)
    /\ task' = [task EXCEPT !.hold = Nothing]
    /\ UNCHANGED <<published, closed, applied, shown, excused>>

\* drain_product_events_to_rpc_queue, also after forwarding was given up; a lag
\* ends it.  Then the result is sent through the oneshot.
DrainReceiver ==
    /\ task.at \in {"drain", "last"}
    /\ task.hold = Nothing
    /\ task' = IF task.at = "last" \/ task.rcv = published
               THEN [task EXCEPT !.at = "done"]
               ELSE IF Lags THEN [task EXCEPT !.at = "last", !.hold = Item(published, TRUE)]
               ELSE Received
    /\ UNCHANGED <<published, queue, closed, applied, shown, excused>>

\* The task panics: the oneshot and the queue's sender are dropped.
TaskDies ==
    /\ task.at = "op"
    /\ task' = [task EXCEPT !.at = "died", !.hold = Nothing]
    /\ UNCHANGED <<published, queue, closed, applied, shown, excused>>

\* Mutant of TaskEnded: only a task that sends its result is noticed.
TaskReported == task.at = "done"

\* The senders of the oneshot and of the queue are gone, with a result or without one.
TaskEnded == task.at \in {"done", "died"}

----------------------------------------------------------------------------
(* The adapter.                                                              *)

Adapter == [applied |-> applied, shown |-> shown, excused |-> excused, closed |-> closed]

AdapterIs(st) ==
    /\ applied' = st.applied
    /\ shown' = st.shown
    /\ excused' = st.excused
    /\ closed' = st.closed

\* push_live_product_event: nothing at or below the applied sequence.
PushLive(st, e) ==
    IF e <= st.applied THEN st
    ELSE [st EXCEPT !.applied = e, !.shown = Append(@, e)]

\* A queued item: a lag report tells the client to take a fresh snapshot, and
\* the loop stops reading the queue.
Deliver(st, item) ==
    IF item.lag THEN [st EXCEPT !.closed = TRUE, !.excused = Max({@, item.seq})]
    ELSE PushLive(st, item.seq)

\* RpcLoopEvent::CodingEvent.
ReceiveQueued ==
    /\ ~closed
    /\ queue # <<>>
    /\ AdapterIs(Deliver(Adapter, Head(queue)))
    /\ queue' = Tail(queue)
    /\ UNCHANGED <<published, task>>

\* recv returns None once the sender is gone and the queue is empty.
QueueEnds ==
    /\ ~closed
    /\ queue = <<>>
    /\ TaskEnded
    /\ closed' = TRUE
    /\ UNCHANGED <<published, task, queue, applied, shown, excused>>

\* Mutant of Drained: what is still queued when the result arrives is dropped.
DrainedNot == Adapter

\* finish_coding_running_prompt: try_recv until the queue is empty or has reported an
\* overflow.  What is queued behind that report is never read, and the run is over: the
\* fresh snapshot that the report asks for has everything that was published.
Drained ==
    LET reports == {i \in DOMAIN queue : queue[i].lag}
        after[n \in 0..Len(queue)] ==
            IF n = 0 THEN Adapter ELSE Deliver(after[n - 1], queue[n])
    IN IF reports = {} THEN after[Len(queue)]
       ELSE [after[Min(reports)] EXCEPT !.excused = published]

----------------------------------------------------------------------------
(* reconnect_running_prompt_after.                                           *)

Oldest == IF published > RetainCap THEN published - RetainCap + 1 ELSE 1

\* recovery_boundary_from_state; a cursor of 0 is never a gap.
RetainedGap(cursor) == published > 0 /\ cursor < Oldest /\ cursor # 0

\* The retained events after the cursor, those the adapter has seen left out.
Replayed(cursor) ==
    LET before == Max({cursor, Oldest - 1})
        known == IF cursor = 0 THEN Oldest - 1 ELSE Min({cursor, published})
        after[n \in 0..(published - before)] ==
            IF n = 0 THEN [Adapter EXCEPT !.excused = Max({@, known})]
            ELSE PushLive(after[n - 1], before + n)
    IN after[published - before]

\* Every event of the run the adapter has gone past was shown to the client,
\* unless the client knows it without being shown.
Unshown == {e \in 1..applied : e > excused} \ ToSet(shown)
=============================================================================
