---------------------------- MODULE EventStream ----------------------------
(***************************************************************************)
(* The product event stream of a coding session: EventService numbers       *)
(* events, keeps the newest ones for replay and broadcasts each of them to   *)
(* live receivers; a client that comes back recovers with a replay, or, when *)
(* history is gone, with a fresh snapshot.                                   *)
(*                                                                           *)
(* EventService::emit is two steps: number and retain under the state lock   *)
(* (Stamp), then, with the lock released, broadcast (Send).  A recovery can  *)
(* fall between the two.  An event is its sequence number.                   *)
(***************************************************************************)
EXTENDS Naturals, Sequences, FiniteSets

CONSTANTS
    Emitters,          \* tasks that hold a clone of the EventService
    Clients,           \* consumers of the stream
    RetainedCapacity,  \* retained_capacity, 128 in the product
    ChannelCapacity,   \* channel_capacity, 128 in the product
    MaxEvents          \* bound: how many events are published

ASSUME CapacityAssumption ==
    /\ RetainedCapacity \in Nat \ {0}
    /\ ChannelCapacity \in Nat \ {0}
    /\ MaxEvents \in Nat

VARIABLES
    next,           \* next_event_sequence
    retained,       \* retained_product_events, oldest first
    droppedBefore,  \* dropped_before, 0 for None
    inflight,       \* per emitter: numbered and retained, not yet broadcast (0: none)
    sent,           \* the broadcasts so far, in broadcast order
    mode,           \* per client: what it holds, see Modes
    pos,            \* per client: how many of sent its receiver has passed
    base,           \* per client: its replay and receiver cover the events after this one
    got,            \* per client: what its replay and its receiver handed over
    again,          \* per client: what they handed over a second time
    applied,        \* per client: the events it applied or a snapshot covers
    forgone,        \* per client: history it did without, by starting from "now" or from 0
    cursor,         \* per client: the newest event it knows (adapter_applied_sequence)
    acked           \* per client: acknowledged_sequence

stream == <<next, retained, droppedBefore, inflight, sent>>
clientVars == <<mode, pos, base, got, again, applied, forgone, cursor, acked>>
vars == <<next, retained, droppedBefore, inflight, sent,
          mode, pos, base, got, again, applied, forgone, cursor, acked>>

(* A client has no receiver; has one; was told that its receiver lagged, or *)
(* that its cursor fell out of the retained window, and has yet to read the  *)
(* snapshot which that answer carries.                                       *)
Modes == {"none", "live", "lagged", "gap"}

Larger(a, b) == IF a >= b THEN a ELSE b

Elements(s) == {s[i] : i \in 1..Len(s)}

Init ==
    /\ next = 1
    /\ retained = <<>>
    /\ droppedBefore = 0
    /\ inflight = [e \in Emitters |-> 0]
    /\ sent = <<>>
    /\ mode = [c \in Clients |-> "none"]
    /\ pos = [c \in Clients |-> 0]
    /\ base = [c \in Clients |-> 0]
    /\ got = [c \in Clients |-> {}]
    /\ again = [c \in Clients |-> {}]
    /\ applied = [c \in Clients |-> {}]
    /\ forgone = [c \in Clients |-> {}]
    /\ cursor = [c \in Clients |-> 0]
    /\ acked = [c \in Clients |-> 0]

(***************************************************************************)
(* Publication.                                                             *)
(***************************************************************************)
\* Mutant of Retain: the window grows one past its capacity.
RetainOneMore(window, s) ==
    Append(IF Len(window) > RetainedCapacity THEN Tail(window) ELSE window, s)

\* retain_product_event: evict the oldest when the window is full.
Retain(window, s) ==
    Append(IF Len(window) = RetainedCapacity THEN Tail(window) ELSE window, s)

\* emit, under the state lock.
Stamp(e) ==
    /\ inflight[e] = 0
    /\ next <= MaxEvents
    /\ next' = next + 1
    /\ retained' = Retain(retained, next)
    /\ droppedBefore' = IF Len(retained) = RetainedCapacity
                        THEN Retain(retained, next)[1] ELSE droppedBefore
    /\ inflight' = [inflight EXCEPT ![e] = next]
    /\ UNCHANGED <<sent, clientVars>>

\* Mutant of Send: the event is retained but never broadcast.
SendNothing(e) ==
    /\ inflight[e] # 0
    /\ inflight' = [inflight EXCEPT ![e] = 0]
    /\ UNCHANGED <<next, retained, droppedBefore, sent, clientVars>>

\* emit, after drop(state): the broadcast.
Send(e) ==
    /\ inflight[e] # 0
    /\ sent' = Append(sent, inflight[e])
    /\ inflight' = [inflight EXCEPT ![e] = 0]
    /\ UNCHANGED <<next, retained, droppedBefore, clientVars>>

(***************************************************************************)
(* Recovery.                                                                *)
(***************************************************************************)
\* product_events_after, recovery_boundary_from_state: a cursor before the
\* window is a gap, except the initial cursor 0.
IsGap(cur) == retained # <<>> /\ cur < retained[1] /\ cur # 0

\* Mutant of Replay: the event right after the cursor is taken as known.
ReplayAfterNext(cur) == {s \in Elements(retained) : s > cur + 1}

Replay(cur) == {s \in Elements(retained) : s > cur}

\* A replay after cur covers what follows this event.
ReplayBase(cur) ==
    IF retained # <<>> /\ cur < retained[1] THEN retained[1] - 1 ELSE cur

\* The consumer's adapter applies what is newer than what it knows.
ApplyReplay(c, cur) ==
    LET news == {s \in Replay(cur) : s > cursor[c]}
    IN /\ applied' = [applied EXCEPT ![c] = @ \cup news]
       /\ forgone' = [forgone EXCEPT ![c] = @ \cup (cur + 1)..ReplayBase(cur)]
       /\ cursor' = [cursor EXCEPT ![c] = IF news = {} THEN @ ELSE next - 1]

\* Cursors a client presents: the initial one, its own, the acknowledged one.
Cursors(c) == {0, cursor[c], acked[c]}

\* reconnect, ProductEventRecovery::Ready: under the state lock, a receiver at
\* the tail of the channel and the retained events after cur.
ReconnectReady(c, cur) ==
    /\ ~IsGap(cur)
    /\ mode' = [mode EXCEPT ![c] = "live"]
    /\ pos' = [pos EXCEPT ![c] = Len(sent)]
    /\ base' = [base EXCEPT ![c] = ReplayBase(cur)]
    /\ got' = [got EXCEPT ![c] = Replay(cur)]
    /\ again' = [again EXCEPT ![c] = {}]
    /\ ApplyReplay(c, cur)
    /\ UNCHANGED <<stream, acked>>

\* reconnect, ProductEventRecovery::RetainedGap.
ReconnectGap(c, cur) ==
    /\ IsGap(cur)
    /\ mode' = [mode EXCEPT ![c] = "gap"]
    /\ UNCHANGED <<stream, pos, base, got, again, applied, forgone, cursor, acked>>

Reconnect(c) ==
    \E cur \in Cursors(c) : ReconnectReady(c, cur) \/ ReconnectGap(c, cur)

\* reconnect_running_prompt_after: the RPC server replays into its adapter,
\* drops the new receiver, keeps the one it has, acknowledges the cut.
ReplayAndKeep(c) ==
    /\ mode[c] = "live"
    /\ \E cur \in Cursors(c) : ~IsGap(cur) /\ ApplyReplay(c, cur)
    /\ acked' = [acked EXCEPT ![c] = Larger(@, next - 1)]
    /\ UNCHANGED <<stream, mode, pos, base, got, again>>

\* Mutant of Subscribe: the receiver claims to cover one event too many.
SubscribeOneBack(c) ==
    /\ mode[c] = "none"
    /\ mode' = [mode EXCEPT ![c] = "live"]
    /\ pos' = [pos EXCEPT ![c] = Len(sent)]
    /\ base' = [base EXCEPT ![c] = next - 2]
    /\ got' = [got EXCEPT ![c] = {}]
    /\ again' = [again EXCEPT ![c] = {}]
    /\ forgone' = [forgone EXCEPT ![c] = @ \cup 1..(next - 1)]
    /\ UNCHANGED <<stream, applied, cursor, acked>>

\* subscribe_product_events: a receiver from now on, no replay.
Subscribe(c) ==
    /\ mode[c] = "none"
    /\ mode' = [mode EXCEPT ![c] = "live"]
    /\ pos' = [pos EXCEPT ![c] = Len(sent)]
    /\ base' = [base EXCEPT ![c] = next - 1]
    /\ got' = [got EXCEPT ![c] = {}]
    /\ again' = [again EXCEPT ![c] = {}]
    /\ forgone' = [forgone EXCEPT ![c] = @ \cup 1..(next - 1)]
    /\ UNCHANGED <<stream, applied, cursor, acked>>

\* The snapshot of connect, of FreshSnapshotRequired after a gap, and of
\* project_live_lag: its cursor is the newest number, next - 1.  After a lag
\* the receiver stays.
FreshSnapshot(c) ==
    /\ mode[c] # "live"
    /\ mode' = [mode EXCEPT ![c] = IF @ = "lagged" THEN "live" ELSE "none"]
    /\ base' = [base EXCEPT ![c] = next - 1]
    /\ got' = [got EXCEPT ![c] = {}]
    /\ again' = [again EXCEPT ![c] = {}]
    /\ applied' = [applied EXCEPT ![c] = @ \cup 1..(next - 1)]
    /\ cursor' = [cursor EXCEPT ![c] = next - 1]
    /\ UNCHANGED <<stream, pos, forgone, acked>>

(***************************************************************************)
(* Live delivery.                                                           *)
(***************************************************************************)
\* The broadcast ring has overwritten what the receiver should read next.
Lagged(c) == Len(sent) - pos[c] > ChannelCapacity

\* recv: the next event; the adapter skips one it already applied.
Recv(c) ==
    /\ mode[c] = "live"
    /\ pos[c] < Len(sent)
    /\ ~Lagged(c)
    /\ LET s == sent[pos[c] + 1]
       IN /\ got' = [got EXCEPT ![c] = @ \cup {s}]
          /\ again' = [again EXCEPT ![c] = IF s \in got[c] THEN @ \cup {s} ELSE @]
          /\ applied' = [applied EXCEPT ![c] = IF s > cursor[c] THEN @ \cup {s} ELSE @]
          /\ cursor' = [cursor EXCEPT ![c] = Larger(@, s)]
    /\ pos' = [pos EXCEPT ![c] = @ + 1]
    /\ UNCHANGED <<stream, mode, base, forgone, acked>>

\* Mutant of RecvLagged: the lag is swallowed and reception goes on.
RecvLaggedSilently(c) ==
    /\ mode[c] = "live"
    /\ Lagged(c)
    /\ pos' = [pos EXCEPT ![c] = Len(sent) - ChannelCapacity]
    /\ UNCHANGED <<stream, mode, base, got, again, applied, forgone, cursor, acked>>

\* recv: RecvError::Lagged moves the receiver to the oldest buffered event.
RecvLagged(c) ==
    /\ mode[c] = "live"
    /\ Lagged(c)
    /\ mode' = [mode EXCEPT ![c] = "lagged"]
    /\ pos' = [pos EXCEPT ![c] = Len(sent) - ChannelCapacity]
    /\ UNCHANGED <<stream, base, got, again, applied, forgone, cursor, acked>>

\* acknowledge: never backwards.
Acknowledge(c) ==
    /\ acked' = [acked EXCEPT ![c] = Larger(@, cursor[c])]
    /\ UNCHANGED <<stream, mode, pos, base, got, again, applied, forgone, cursor>>

\* The receiver is dropped: the client goes away, its cursor survives.
Leave(c) ==
    /\ mode[c] = "live"
    /\ mode' = [mode EXCEPT ![c] = "none"]
    /\ UNCHANGED <<stream, pos, base, got, again, applied, forgone, cursor, acked>>

Next ==
    \/ \E e \in Emitters : Stamp(e) \/ Send(e)
    \/ \E c \in Clients :
        \/ Reconnect(c) \/ ReplayAndKeep(c) \/ Subscribe(c) \/ FreshSnapshot(c)
        \/ Recv(c) \/ RecvLagged(c) \/ Acknowledge(c) \/ Leave(c)

Spec == Init /\ [][Next]_vars

(* Send follows Stamp in one synchronous function; a client that holds a     *)
(* receiver keeps polling it and reads the snapshot it is handed.            *)
Fairness ==
    /\ \A e \in Emitters : WF_vars(Send(e))
    /\ \A c \in Clients : /\ WF_vars(Recv(c) \/ RecvLagged(c))
                          /\ WF_vars(FreshSnapshot(c))

FairSpec == Spec /\ Fairness

(***************************************************************************)
(* Properties.                                                              *)
(***************************************************************************)
TypeOK ==
    /\ next \in Nat \ {0}
    /\ retained \in Seq(Nat)
    /\ droppedBefore \in Nat
    /\ inflight \in [Emitters -> Nat]
    /\ sent \in Seq(Nat)
    /\ mode \in [Clients -> Modes]
    /\ pos \in [Clients -> Nat]
    /\ base \in [Clients -> Nat]
    /\ got \in [Clients -> SUBSET Nat]
    /\ again \in [Clients -> SUBSET Nat]
    /\ applied \in [Clients -> SUBSET Nat]
    /\ forgone \in [Clients -> SUBSET Nat]
    /\ cursor \in [Clients -> Nat]
    /\ acked \in [Clients -> Nat]

(* retained_product_events is always the newest events, without a hole, as   *)
(* many as the capacity allows, and dropped_before names its first element   *)
(* exactly when something was evicted, whatever the emitters interleave.     *)
RetainedWindow ==
    /\ Len(retained) = IF next - 1 < RetainedCapacity THEN next - 1 ELSE RetainedCapacity
    /\ \A i \in 1..Len(retained) : retained[i] = next - 1 - Len(retained) + i
    /\ droppedBefore = IF next - 1 > RetainedCapacity THEN retained[1] ELSE 0

\* s is still on its way to c: broadcast and unread, or about to be broadcast.
Coming(c, s) ==
    \/ \E i \in (pos[c] + 1)..Len(sent) : sent[i] = s
    \/ \E e \in Emitters : inflight[e] = s

(* The replay/live cut loses nothing: as long as its receiver has not lagged, *)
(* every event after the point a client recovered from was handed over or is  *)
(* still to come on its receiver (the comment on ProductEventRecoveryBoundary).*)
NoHandoffOmission ==
    \A c \in Clients : mode[c] = "live" =>
        \A s \in (base[c] + 1)..(next - 1) : s \in got[c] \/ Coming(c, s)

(* Replay and receiver overlap at most in the events that were between Stamp  *)
(* and Send at the cut, one for each emitter.                                 *)
HandoffDuplicateBounded ==
    \A c \in Clients : Cardinality(again[c]) <= Cardinality(Emitters)

(* A client's cursor, and what it acknowledges, never pass an event that it    *)
(* neither applied nor was told of by a snapshot, except history it chose to   *)
(* do without: a recovery from that cursor therefore misses nothing.           *)
CursorCovered ==
    \A c \in Clients :
        /\ acked[c] <= cursor[c]
        /\ 1..cursor[c] \subseteq applied[c] \cup forgone[c]

(* A client knows the events up to its cursor, or, when it started from "now",     *)
(* those before its receiver.                                                      *)
Feed == INSTANCE EventFeed WITH
    published <- next - 1,
    attached <- [c \in Clients |-> mode[c] # "none"],
    known <- [c \in Clients |-> Larger(cursor[c], base[c])],
    confirmed <- acked

(* Numbering, retention, broadcast, lag, gap, replay and snapshot together keep    *)
(* the promise of EventFeed: whatever a client does, its knowledge is a prefix     *)
(* that only grows, nothing unknown is acknowledged, and every event reaches a     *)
(* client that stays.                                                              *)
ImplementsFeed == Feed!Spec

(* What a client's cursor has passed it applied or did without knowingly, and the  *)
(* cut between replay and receiver repeats at most the events in flight there.     *)
ClientsCovered == CursorCovered /\ HandoffDuplicateBounded
=============================================================================
