----------------------------- MODULE Submission -----------------------------
(***************************************************************************)
(* How an operation is submitted, run and accounted for.  A client prepares  *)
(* a lease on its connection, CodingAgentSession::run consumes it, and       *)
(* SubmissionCommitGuard carries the client's submitted operation through    *)
(* Accepted, Running and Terminal while connections come and go, events are  *)
(* acknowledged and the runtime shuts down.                                  *)
(*                                                                           *)
(* run and connect need the session itself, so a single owner takes the      *)
(* steps of run one after the other; the other actions need only a           *)
(* connection or a shutdown handle and fall between them.                    *)
(***************************************************************************)
EXTENDS ClientRegistry

CONSTANTS
    MaxOperations,  \* bound: how many operations are admitted
    MaxEvents,      \* bound: how many events are published
    MaxDrafts,      \* bound: how many versions of a prompt draft are set
    Offered,        \* the kinds of operation that are submitted, see Kinds
    Readers,        \* clients that read their state while run() is under way
    AckAhead        \* how far past the newest event a client may acknowledge

VARIABLES
    operations,  \* operations admitted so far; an operation id is its number
    next,        \* next_event_sequence
    roots,       \* the root terminal events published: [op, seq, status, by]
    active,      \* the projection's active_operation is set
    lease,       \* pending_submission
    owner,       \* where the owner is in run() or shutdown()
    submitted,   \* per client: submitted_operation
    acked,       \* per client: acknowledged_sequence
    draft,       \* per client: version of the prompt draft, 0 for none
    drafts,      \* bound: draft versions used so far
    view,        \* per client: a client_state read under way or done
    returned     \* what the last run() returned: [op, kind, body, ret]

runVars == <<operations, roots, active, owner, returned>>
clientVars == <<submitted, acked, draft, drafts, view>>
vars == <<registry, operations, next, roots, active, lease, owner,
          submitted, acked, draft, drafts, view, returned>>

(***************************************************************************)
(* Operations.  CodingAgentOperation::descriptor: a kind with permitted root *)
(* evidence is TerminalAssociated, the others are OutcomeOnly.  "prompt" and *)
(* "compact" publish their root event under the admitted operation id;       *)
(* "nested" stands for InvokeAgent, InvokeTeam and SelfHealingEdit, which    *)
(* publish it under an id of their own; "change" for the OutcomeOnly         *)
(* operations that hold the operation guard and "read" for those that do not.*)
(***************************************************************************)
Kinds == {"prompt", "compact", "nested", "change", "read"}
TerminalAssociated == {"prompt", "compact", "nested"}
RootUnderAdmittedId == {"prompt", "compact"}

ASSUME SubmissionAssumption ==
    /\ MaxOperations \in Nat /\ MaxEvents \in Nat /\ MaxDrafts \in Nat /\ AckAhead \in Nat
    /\ Offered \subseteq Kinds /\ Readers \subseteq Clients /\ Clients # {}

Statuses == {"Completed", "Failed", "Aborted"}

None == [st |-> "None", op |-> 0, kind |-> "read", anchor |-> "none", seq |-> 0,
         status |-> "Aborted", count |-> 0]

NoLease == [st |-> "none", id |-> CHOOSE c \in Clients : TRUE, gen |-> 0,
            kind |-> "read"]
NoGuard == [id |-> CHOOSE c \in Clients : TRUE, gen |-> 0]
Idle == [pc |-> "idle", op |-> 0, kind |-> "read", guard |-> NoGuard, body |-> "ok"]

Init ==
    /\ RegistryInit
    /\ operations = 0
    /\ next = 1
    /\ roots = {}
    /\ active = FALSE
    /\ lease = NoLease
    /\ owner = Idle
    /\ submitted = [c \in Clients |-> None]
    /\ acked = [c \in Clients |-> 0]
    /\ draft = [c \in Clients |-> 0]
    /\ drafts = 0
    /\ view = [c \in Clients |-> [st |-> "none", cursor |-> 0, sub |-> None]]
    /\ returned = [op |-> 0, kind |-> "read", body |-> "ok", ret |-> "ok"]

(***************************************************************************)
(* Connections and leases.                                                  *)
(***************************************************************************)
\* connect: needs the session, so never while run() or shutdown() holds it.
Connect(c) ==
    /\ owner.pc = "idle"
    /\ ConnectOrTakeover(c)
    /\ UNCHANGED <<runVars, next, lease, clientVars>>

Detach(h) ==
    /\ DetachClient(h)
    /\ UNCHANGED <<runVars, next, lease, clientVars>>

\* CodingAgentRuntimeShutdownHandle::request_shutdown.
RequestShutdown ==
    /\ CloseRegistry
    /\ UNCHANGED <<runVars, next, lease, clientVars>>

SetDraft(h) ==
    /\ Valid(h)
    /\ drafts < MaxDrafts
    /\ drafts' = drafts + 1
    /\ draft' = [draft EXCEPT ![h.id] = drafts + 1]
    /\ UNCHANGED <<registry, runVars, next, lease, submitted, acked, view>>

\* install_submission_lease: an earlier lease only yields when it was abandoned
\* or its generation is gone.
LeaseFree ==
    lease.st # "Prepared" \/ generation[lease.id] # lease.gen

\* prepare_submission: a prompt must repeat the client's draft; no other kind
\* looks at the connection.
Prepare(h, kind) ==
    /\ owner.pc = "idle"
    /\ kind = "prompt" => Valid(h) /\ draft[h.id] # 0
    /\ LeaseFree
    /\ lease' = [st |-> "Prepared", id |-> h.id, gen |-> h.gen, kind |-> kind]
    /\ UNCHANGED <<registry, runVars, next, clientVars>>

\* CodingAgentSubmissionLease::drop.
DropLease ==
    /\ lease.st = "Prepared"
    /\ lease' = [lease EXCEPT !.st = "Abandoned"]
    /\ UNCHANGED <<registry, runVars, next, clientVars>>

(***************************************************************************)
(* run(), step by step.                                                     *)
(***************************************************************************)
\* ensure_runtime_running, consume_submission_lease.
RunStart(kind) ==
    /\ owner.pc = "idle"
    /\ lifecycle = "Running"
    /\ operations < MaxOperations
    /\ LET mine == lease.st = "Prepared" /\ lease.kind = kind
       IN /\ owner' = [Idle EXCEPT !.pc = "admitting", !.kind = kind,
                       !.guard = IF mine THEN [id |-> lease.id, gen |-> lease.gen]
                                 ELSE NoGuard]
          /\ lease' = IF mine \/ lease.st = "Abandoned" THEN NoLease ELSE lease
    /\ UNCHANGED <<registry, operations, next, roots, active, clientVars, returned>>

Guarded == owner.guard.gen # 0

\* Mutant of Return: the operation guard leaves active_operation set.
ReturnKeepsActive(ret, body) ==
    /\ owner' = Idle
    /\ UNCHANGED active
    /\ returned' = [op |-> owner.op, kind |-> owner.kind, body |-> body, ret |-> ret]

\* run() returns; ret is what the caller sees, body what the operation did.
Return(ret, body) ==
    /\ owner' = Idle
    /\ active' = FALSE
    /\ returned' = [op |-> owner.op, kind |-> owner.kind, body |-> body, ret |-> ret]

\* admit_operation: OperationState::begin, except for read-only operations.
Admit ==
    /\ owner.pc = "admitting"
    /\ operations' = operations + 1
    /\ owner' = [owner EXCEPT !.pc = IF Guarded THEN "accepting" ELSE "body",
                              !.op = operations + 1]
    /\ active' = (owner.kind # "read")
    /\ UNCHANGED <<registry, next, roots, lease, clientVars, returned>>

\* resolve_operation_admission fails; the guard's drop abandons the lease.
AdmitFails ==
    /\ owner.pc = "admitting"
    /\ Return("err", "err")
    /\ UNCHANGED <<registry, operations, next, roots, lease, clientVars>>

\* commit, mark_submitted.
MarkSubmitted ==
    /\ owner.pc = "accepting"
    /\ LET c == owner.guard.id
       IN IF Valid(owner.guard) /\ submitted[c].st = "None"
          THEN /\ submitted' = [submitted EXCEPT ![c] =
                    [None EXCEPT !.st = "Accepted", !.op = owner.op, !.kind = owner.kind]]
               /\ draft' = [draft EXCEPT ![c] = IF owner.kind = "prompt" THEN 0 ELSE @]
               /\ owner' = [owner EXCEPT !.pc = "accepted"]
               /\ UNCHANGED <<active, returned>>
          ELSE Return("err", "err") /\ UNCHANGED <<submitted, draft>>
    /\ UNCHANGED <<registry, operations, next, roots, lease, acked, drafts, view>>

\* commit, mark_running: a second critical section.
MarkRunning ==
    /\ owner.pc = "accepted"
    /\ LET c == owner.guard.id
       IN IF Valid(owner.guard)
          THEN /\ submitted' = [submitted EXCEPT ![c].st = "Running"]
               /\ owner' = [owner EXCEPT !.pc = "body"]
               /\ UNCHANGED <<active, returned>>
          ELSE Return("err", "err") /\ UNCHANGED submitted
    /\ UNCHANGED <<registry, operations, next, roots, lease, acked, draft, drafts, view>>

\* emit: an event that is no root evidence, before or after the root event.
Progress ==
    /\ owner.pc \in {"body", "finishing"}
    /\ next <= MaxEvents
    /\ next' = next + 1
    /\ UNCHANGED <<registry, runVars, lease, clientVars>>

\* observe_root_terminal_in_state, within emit's critical section.
Observe(op, seq, status) ==
    submitted' = [c \in Clients |->
        LET s == submitted[c]
        IN IF s.op # op \/ s.st = "None" THEN s
           ELSE IF s.st = "Terminal" THEN [s EXCEPT !.count = @ + 1]
           ELSE [s EXCEPT !.st = "Terminal", !.anchor = "event", !.seq = seq,
                          !.status = status, !.count = 1]]

\* The operation publishes its root terminal event and ends with a result: Ok
\* with a failed outcome for prompt and compact, Err for a failed nested one.
EmitRoot(status) ==
    /\ owner.pc = "body"
    /\ owner.kind \in TerminalAssociated
    /\ next <= MaxEvents
    /\ next' = next + 1
    /\ IF owner.kind \in RootUnderAdmittedId
       THEN /\ roots' = roots \cup {[op |-> owner.op, seq |-> next, status |-> status,
                                      by |-> IF Guarded THEN {owner.guard.id} ELSE {}]}
            /\ Observe(owner.op, next, status)
       ELSE UNCHANGED <<roots, submitted>>
    /\ owner' = [owner EXCEPT !.pc = "finishing",
                              !.body = IF owner.kind = "nested" /\ status # "Completed"
                                       THEN "err" ELSE "ok"]
    /\ UNCHANGED <<registry, operations, active, lease, acked, draft, drafts, view, returned>>

\* The operation ends without a root event: every OutcomeOnly operation, and a
\* TerminalAssociated one that fails before it or whose commit is uncertain.
EndBody(body) ==
    /\ owner.pc = "body"
    /\ owner.kind \in TerminalAssociated => body = "err"
    /\ owner' = [owner EXCEPT !.pc = "finishing", !.body = body]
    /\ UNCHANGED <<registry, operations, next, roots, active, lease, clientVars, returned>>

\* finish: finalize_terminal_association or mark_terminal, with what it answers.
Finalized(status) ==
    LET s == submitted[owner.guard.id]
    IN IF s.op = owner.op /\ s.st \in {"Accepted", "Running"}
       THEN [s EXCEPT !.st = "Terminal", !.status = status,
                      !.anchor = IF owner.kind \in TerminalAssociated
                                 THEN "uncertain" ELSE "outcome"]
       ELSE s
FinishOK ==
    LET s == submitted[owner.guard.id]
    IN \/ s.op = owner.op /\ s.st \in {"Accepted", "Running"}
       \/ /\ owner.kind \in TerminalAssociated
          /\ s.op = owner.op /\ s.st = "Terminal" /\ s.count = 1

\* run() after the operation: guard.finish(..)?, then the result.
Finish ==
    /\ owner.pc = "finishing"
    /\ IF Guarded
       THEN /\ submitted' = [submitted EXCEPT ![owner.guard.id] =
                    Finalized(IF owner.body = "ok" THEN "Completed" ELSE "Failed")]
            /\ Return(IF FinishOK THEN owner.body ELSE "err", owner.body)
       ELSE /\ Return(owner.body, owner.body)
            /\ UNCHANGED submitted
    /\ UNCHANGED <<registry, operations, next, roots, lease, acked, draft, drafts, view>>

\* A `return` or `?` out of the match on the operation (a reused branch summary
\* with Ok, other errors with Err; SelfHealingEdit also after its root event), or
\* the caller dropping the run() future: the operation guard goes first.
LeaveEarly(body) ==
    /\ owner.kind # "read"
    /\ \/ owner.pc = "body" /\ (body = "ok" => owner.kind = "change")
       \/ owner.pc = "finishing" /\ owner.kind = "nested" /\ body = "err"
    /\ active' = FALSE
    /\ owner' = [owner EXCEPT !.pc = "leaving", !.body = body]
    /\ UNCHANGED <<registry, operations, next, roots, lease, clientVars, returned>>

\* Mutant of DropGuard: an unfinished guard is dropped without a trace.
DropGuardSilently ==
    /\ owner.pc = "leaving"
    /\ Return(owner.body, owner.body)
    /\ UNCHANGED <<registry, operations, next, roots, lease, clientVars>>

\* SubmissionCommitGuard::drop of an unfinished guard: finish(Aborted).
DropGuard ==
    /\ owner.pc = "leaving"
    /\ IF Guarded
       THEN submitted' = [submitted EXCEPT ![owner.guard.id] = Finalized("Aborted")]
       ELSE UNCHANGED submitted
    /\ Return(owner.body, owner.body)
    /\ UNCHANGED <<registry, operations, next, roots, lease, acked, draft, drafts, view>>

(***************************************************************************)
(* shutdown().                                                              *)
(***************************************************************************)
\* request_shutdown, unless the handle did it before.
ShutdownStart ==
    /\ owner.pc = "idle"
    /\ lifecycle # "ShutDown"
    /\ CloseRegistry \/ (lifecycle = "ShuttingDown" /\ UNCHANGED registry)
    /\ owner' = [owner EXCEPT !.pc = "draining"]
    /\ UNCHANGED <<operations, next, roots, active, lease, clientVars, returned>>

\* wait_for_active_operation_to_drain, then RuntimeShutDown.
ShutdownEmit ==
    /\ owner.pc = "draining"
    /\ ~active
    /\ next' = next + 1
    /\ owner' = [owner EXCEPT !.pc = "sealing"]
    /\ UNCHANGED <<registry, operations, roots, active, lease, clientVars, returned>>

ShutdownSeal ==
    /\ owner.pc = "sealing"
    /\ SealRegistry
    /\ owner' = Idle
    /\ UNCHANGED <<operations, next, roots, active, lease, clientVars, returned>>

(***************************************************************************)
(* What a connection does while run() is under way.                         *)
(***************************************************************************)
\* Mutant of Acknowledge: any acknowledgement clears the terminal state.
AcknowledgeClears(h, seq) ==
    /\ Valid(h)
    /\ seq >= acked[h.id]
    /\ acked' = [acked EXCEPT ![h.id] = seq]
    /\ submitted' = [submitted EXCEPT ![h.id] =
            IF @.st = "Terminal" /\ @.anchor = "event" THEN None ELSE @]
    /\ UNCHANGED <<registry, runVars, next, lease, draft, drafts, view>>

\* acknowledge: clears a terminal state anchored at or before the sequence.
Acknowledge(h, seq) ==
    /\ Valid(h)
    /\ seq >= acked[h.id]
    /\ acked' = [acked EXCEPT ![h.id] = seq]
    /\ submitted' = [submitted EXCEPT ![h.id] =
            IF @.st = "Terminal" /\ @.anchor = "event" /\ seq >= @.seq THEN None ELSE @]
    /\ UNCHANGED <<registry, runVars, next, lease, draft, drafts, view>>

\* acknowledge_outcome.
AcknowledgeOutcome(h) ==
    /\ Valid(h)
    /\ submitted[h.id].st = "Terminal" /\ submitted[h.id].anchor = "outcome"
    /\ submitted' = [submitted EXCEPT ![h.id] = None]
    /\ UNCHANGED <<registry, runVars, next, lease, acked, draft, drafts, view>>

\* client_state: the snapshot and its cursor ...
ReadSnapshot(h) ==
    /\ Valid(h) /\ h.id \in Readers
    /\ view[h.id].st # "snapshot"
    /\ view' = [view EXCEPT ![h.id] = [st |-> "snapshot", cursor |-> next - 1, sub |-> None]]
    /\ UNCHANGED <<registry, runVars, next, lease, submitted, acked, draft, drafts>>

\* ... then, under the lock a second time, the client's record.
ReadRecord(h) ==
    /\ view[h.id].st = "snapshot"
    /\ view' = [view EXCEPT ![h.id] = IF Valid(h)
                    THEN [@ EXCEPT !.st = "done", !.sub = submitted[h.id]]
                    ELSE [@ EXCEPT !.st = "none"]]
    /\ UNCHANGED <<registry, runVars, next, lease, submitted, acked, draft, drafts>>

RunStep ==
    \/ Admit \/ AdmitFails \/ MarkSubmitted \/ MarkRunning \/ Finish \/ DropGuard
    \/ \E status \in Statuses : EmitRoot(status)
    \/ \E body \in {"ok", "err"} : EndBody(body) \/ LeaveEarly(body)

ShutdownStep == ShutdownEmit \/ ShutdownSeal

ClientStep(h) ==
    \/ Detach(h) \/ SetDraft(h) \/ AcknowledgeOutcome(h)
    \/ ReadSnapshot(h) \/ ReadRecord(h)
    \/ \E seq \in 0..(next - 1 + AckAhead) : Acknowledge(h, seq)
    \/ \E kind \in Offered : Prepare(h, kind)

Next ==
    \/ \E c \in Clients : Connect(c)
    \/ \E h \in Issued : ClientStep(h)
    \/ \E kind \in Offered : RunStart(kind)
    \/ RunStep \/ Progress
    \/ DropLease \/ RequestShutdown \/ ShutdownStart \/ ShutdownStep

Spec == Init /\ [][Next]_vars

(* The run() future is polled until it ends or is dropped, and shutdown()   *)
(* has nothing left to wait for once the owner calls it.                     *)
Fairness == WF_vars(RunStep) /\ WF_vars(ShutdownStep)

FairSpec == Spec /\ Fairness

(***************************************************************************)
(* Properties.                                                              *)
(***************************************************************************)
SubmittedType ==
    [st : {"None", "Accepted", "Running", "Terminal"}, op : Nat, kind : Kinds,
     anchor : {"none", "event", "outcome", "uncertain"}, seq : Nat,
     status : Statuses, count : Nat]

TypeOK ==
    /\ RegistryTypeOK
    /\ operations \in Nat
    /\ next \in Nat \ {0}
    /\ roots \subseteq [op : Nat, seq : Nat, status : Statuses, by : SUBSET Clients]
    /\ active \in BOOLEAN
    /\ lease \in [st : {"none", "Prepared", "Abandoned"}, id : Clients, gen : Nat,
                  kind : Kinds]
    /\ owner \in [pc : {"idle", "admitting", "accepting", "accepted", "body",
                        "finishing", "leaving", "draining", "sealing"},
                  op : Nat, kind : Kinds, guard : [id : Clients, gen : Nat],
                  body : {"ok", "err"}]
    /\ submitted \in [Clients -> SubmittedType]
    /\ acked \in [Clients -> Nat]
    /\ draft \in [Clients -> Nat]
    /\ drafts \in Nat
    /\ view \in [Clients -> [st : {"none", "snapshot", "done"}, cursor : Nat,
                             sub : SubmittedType]]
    /\ returned \in [op : Nat, kind : Kinds, body : {"ok", "err"}, ret : {"ok", "err"}]

(* No client is left with a Running operation that nobody runs: whatever      *)
(* detach, takeover, acknowledgement, early return or shutdown comes between,  *)
(* a Running state belongs to the run() under way.                             *)
RunningOwned ==
    \A c \in Clients : submitted[c].st = "Running" =>
        /\ owner.pc \in {"body", "finishing", "leaving"}
        /\ owner.op = submitted[c].op
        /\ owner.guard.id = c /\ Guarded

(* A terminal state anchored at an event names the one root event published    *)
(* under its operation id, with that event's status (Phase 9, D-06, D-07).      *)
RootAnchorExact ==
    \A c \in Clients : submitted[c].anchor = "event" =>
        /\ {r \in roots : r.op = submitted[c].op} =
             {[op |-> submitted[c].op, seq |-> submitted[c].seq,
               status |-> submitted[c].status, by |-> {c}]}
        /\ submitted[c].count = 1

(* A client that submitted an operation sees it as Terminal until it           *)
(* acknowledges its root event, through detach and takeover, and never after    *)
(* (Phase 8, D-11): as long as nobody acknowledges an event that is not yet      *)
(* published, which the coordinator would store.                               *)
TerminalUntilAcked ==
    \A c \in Clients :
        /\ \A r \in roots : (c \in r.by /\ r.seq > acked[c]) =>
                submitted[c].st = "Terminal" /\ submitted[c].op = r.op
        /\ submitted[c].anchor = "event" => submitted[c].seq > acked[c]

AcksPublished == \A c \in Clients : acked[c] < next

OutcomeUntilAcked == []AcksPublished => []TerminalUntilAcked

(* A submitted operation only moves forward, Accepted, Running, Terminal, and   *)
(* only an acknowledgement makes room for another one (Phase 8, D-11).          *)
Rank(s) == CASE s.st = "None" -> 0 [] s.st = "Accepted" -> 1
             [] s.st = "Running" -> 2 [] s.st = "Terminal" -> 3

SubmittedMonotone ==
    [][\A c \in Clients :
        LET s == submitted[c]
            t == submitted'[c]
        IN \/ s.op = t.op /\ s.kind = t.kind /\ Rank(s) <= Rank(t)
           \/ s = None /\ t.st = "Accepted" /\ t.op > 0
           \/ s.st = "Terminal" /\ s.anchor # "uncertain" /\ t = None]_vars

(* Once the runtime is shut down nothing runs, no client is shown a running     *)
(* operation, and no connection can deliver or change anything (Phase 9, D-04,  *)
(* D-14).                                                                       *)
ShutdownQuiescent ==
    lifecycle = "ShutDown" =>
        /\ ~active /\ owner.pc = "idle"
        /\ \A c \in Clients : submitted[c].st # "Running" /\ connection[c] = "Detached"
        /\ \A h \in Issued : ~Deliverable(h) /\ ~Valid(h)

(* Every accepted operation comes to a terminal state, whether it completes,    *)
(* fails, returns early or its future is dropped.                               *)
RunningTerminates ==
    \A c \in Clients : \A op \in 1..MaxOperations :
        (submitted[c].st = "Running" /\ submitted[c].op = op)
            ~> (submitted[c].st = "Terminal" \/ submitted[c].op # op)

(* shutdown() ends.                                                             *)
ShutdownEnds == (owner.pc = "draining") ~> (lifecycle = "ShutDown")

(* run() returns what the operation did: finalization finds its root evidence   *)
(* before it returns (09-04-PLAN, D-06).                                        *)
OutcomeReturned == returned.ret = returned.body

(* client_state reads its cursor and the client's record under two locks.  The  *)
(* record may be newer than the cursor, never older: a root event that the       *)
(* cursor covers, and that the client has not acknowledged, shows as Terminal,   *)
(* so a client that resumes behind the cursor misses no outcome.                 *)
ViewNotStale ==
    \A c \in Clients : view[c].st = "done" =>
        \A r \in roots : (c \in r.by /\ r.seq <= view[c].cursor /\ r.seq > acked[c]) =>
            view[c].sub.st = "Terminal" /\ view[c].sub.op = r.op

(* What a client is shown of its operation is owned by the run() under way, or     *)
(* names the one root event of it, and nothing of it is left after shutdown().     *)
SubmissionSound == TypeOK /\ RunningOwned /\ RootAnchorExact /\ ShutdownQuiescent

(* Submitted operations only move forward, every running one comes to a terminal   *)
(* state, and shutdown() ends.                                                     *)
SubmissionsEnd == SubmittedMonotone /\ RunningTerminates /\ ShutdownEnds
=============================================================================
