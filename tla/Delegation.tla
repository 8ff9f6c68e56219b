----------------------------- MODULE Delegation -----------------------------
(***************************************************************************)
(* Delegation: what an agent profile may hand to other profiles, the nested  *)
(* invocations and teams that run it, and the confirmations that wait for    *)
(* the user, in memory and in the session log.                               *)
(* The frames of dStack are the contexts that are on the call stack: the     *)
(* session's operation at the bottom, AgentInvocationContext and             *)
(* AgentTeamContext above it.  A frame runs the prompts of its profiles one   *)
(* after the other and then carries out what each of them asked for.         *)
(***************************************************************************)
EXTENDS Integers, FiniteSets, Sequences, SequencesExt, FiniteSetsExt

CONSTANTS
    DAgents, DTeams,   \* profile ids
    DDefault,          \* the profile of the session's prompts
    DPolicy,           \* [DAgents -> DelegationPolicy]
    DMembers,          \* [DTeams -> Seq(DAgents)], the supervisor last
    DMaxRequests,      \* bound: delegation requests in a behaviour
    DMaxOps,           \* bound: operations of the session
    DMaxFaults         \* bound: session writes that fail

ASSUME DelegationAssumption ==
    /\ DDefault \in DAgents
    /\ \A a \in DAgents : DPolicy[a].maxDepth \in Nat
    /\ DMembers \in [DTeams -> Seq(DAgents) \ {<<>>}]
    /\ {DMaxRequests, DMaxOps, DMaxFaults} \subseteq Nat

VARIABLES
    dStack,    \* frames, the running one last
    dQueue,    \* PendingDelegationConfirmationQueue
    dLog,      \* the delegation records of the session log
    dTrace,    \* history: the delegation events of each request
    dNow,      \* days that have passed
    dOps, dFaults,
    dPartial   \* history: a record was written and reported as failed

dVars == <<dStack, dQueue, dLog, dTrace, dNow, dOps, dFaults, dPartial>>

Targets == {<<"agent", a>> : a \in DAgents} \cup {<<"team", t>> : t \in DTeams}

\* plan_subtasks: the members in their order, the supervisor merges what they return.
PlanSubtasks(t) == DMembers[t]
Runs(target) == IF target[1] = "agent" THEN <<target[2]>> ELSE PlanSubtasks(target[2])

----------------------------------------------------------------------------
(* Authorization.                                                            *)

\* target_is_allowed.
TargetIsAllowed(allowed, id) == allowed = {} \/ id \in allowed

\* delegation_tools and handle_delegation_request: what a profile can ask for at all.
Requestable(p, target) ==
    LET policy == DPolicy[p]
    IN /\ policy.maxDepth > 0
       /\ IF target[1] = "agent"
          THEN policy.allowAgent /\ TargetIsAllowed(policy.allowedAgents, target[2])
          ELSE policy.allowTeam /\ TargetIsAllowed(policy.allowedTeams, target[2])

\* delegation_lineage_for_request.
LineageForRequest(lineage, r) == lineage \cup {<<"agent", r.from>>, r.to}

\* Mutant of RejectionReason: the requesting profile's own lineage is forgotten.
RejectionWithoutLineage(r, policy, depth, accepted, lineage) ==
    \/ depth >= policy.maxDepth
    \/ accepted >= policy.maxParallel

\* rejection_reason.
RejectionReason(r, policy, depth, accepted, lineage) ==
    \/ depth >= policy.maxDepth
    \/ accepted >= policy.maxParallel
    \/ r.to \in lineage \cup {<<"agent", r.from>>}
    \/ ~Requestable(r.from, r.to)

\* confirmation_reason.
NeedsConfirmation(r, policy) ==
    policy.confirm = "always" \/ (policy.confirm = "writes" /\ r.to[1] = "team")

\* authorize_delegation_requests_with_lineage: one decision after the other, counting
\* the children that were accepted.
Authorize(requests, depth, lineage) ==
    LET Decide(r, accepted) ==
            IF RejectionReason(r, DPolicy[r.from], depth, accepted, lineage) THEN "rejected"
            ELSE IF NeedsConfirmation(r, DPolicy[r.from]) THEN "confirm" ELSE "approved"
        accepted[i \in 0..Len(requests)] ==
            IF i = 0 THEN 0
            ELSE accepted[i - 1]
                   + (IF Decide(requests[i], accepted[i - 1]) = "rejected" THEN 0 ELSE 1)
    IN [i \in DOMAIN requests |-> [is |-> Decide(requests[i], accepted[i - 1]), r |-> requests[i]]]

----------------------------------------------------------------------------
(* Frames and confirmations.                                                 *)

Frame(op, kind, r, run, depth, lineage) ==
    [op |-> op, kind |-> kind, r |-> r, run |-> run, depth |-> depth, lineage |-> lineage, at |-> "run",
     decisions |-> <<>>, pending |-> <<>>, ok |-> TRUE]
NoRequest == [n |-> 0]
ChildFrame(r, depth, lineage) == Frame("child", r.to[1], r, Runs(r.to), depth, lineage)

Top == Last(dStack)
Below == SubSeq(dStack, 1, Len(dStack) - 1)
WithTop(f) == Append(Below, f)

\* Only the operations of the session itself have the queue and the log at hand.
OwnsSession(f) == f.op \in {"prompt", "approval"}

Confirmation(r, depth, lineage) ==
    [r |-> r, depth |-> depth, lineage |-> lineage, day |-> dNow]
Key(c) == c.r.call
IsDuplicate(queue, c) == \E i \in DOMAIN queue : Key(queue[i]) = Key(c)

\* is_active_at: 24 hours.
IsActive(c) == c.day = dNow

\* The position of a pending confirmation.
Position(queue, call) ==
    LET at == {i \in DOMAIN queue : Key(queue[i]) = call}
    IN IF at = {} THEN 0 ELSE Min(at)
Dropped(queue, i) == IF i = 0 THEN queue ELSE RemoveAt(queue, i)

\* delegation_runtime_seed_from_prompt_options stores the parent's depth and the
\* lineage, pending_state_from_replay restores them.
PendingFromReplay(c) == [c EXCEPT !.depth = Max({@ - 1, 0}) + 1]

\* add_pending_delegation_confirmation, resolve_pending_delegation_confirmation.
Resolve(pending, e) ==
    IF e.is = "requested"
    THEN IF IsDuplicate(pending, e.c) THEN pending ELSE Append(pending, e.c)
    ELSE Dropped(pending, Position(pending, Key(e.c)))

PendingAfter(log) ==
    LET pending[i \in 0..Len(log)] == IF i = 0 THEN <<>> ELSE Resolve(pending[i - 1], log[i])
    IN pending[Len(log)]

ReplayPending(log) ==
    [i \in DOMAIN PendingAfter(log) |-> PendingFromReplay(PendingAfter(log)[i])]

Record(is, c) == [is |-> is, c |-> c]
Traced(n, what) == dTrace' = [dTrace EXCEPT ![n] = @ \o what]
Noted(ns, what) == [n \in DOMAIN dTrace |-> IF n \in ns THEN Append(dTrace[n], what)
                                            ELSE dTrace[n]]
Requests(cs) == {cs[i].r.n : i \in DOMAIN cs}

\* append_durable_session_event: the record is in the log; it is not; or it is, but
\* the manifest could not be updated and the caller sees PartialCommit.
Written(e) ==
    /\ dLog' = Append(dLog, e)
    /\ UNCHANGED <<dFaults, dPartial>>
WriteFails(e) ==
    /\ dFaults < DMaxFaults
    /\ dFaults' = dFaults + 1
    /\ \/ dLog' = dLog /\ UNCHANGED dPartial
       \/ dLog' = Append(dLog, e) /\ dPartial' = TRUE

\* adopt_pending without a fault: what it adds to the log and to the queue.
Adopted(pending) ==
    LET new[i \in 0..Len(pending)] ==
            IF i = 0 THEN <<>>
            ELSE IF IsDuplicate(dQueue \o new[i - 1], pending[i]) THEN new[i - 1]
            ELSE Append(new[i - 1], pending[i])
    IN new[Len(pending)]
Requested(cs) == [i \in DOMAIN cs |-> Record("requested", cs[i])]
Adopt(cs) ==
    /\ dQueue' = dQueue \o cs
    /\ dLog' = dLog \o Requested(cs)

\* It stops at the first one whose record cannot be written, here the i-th: those before it
\* are in the queue and in the log, it itself perhaps in the log, those behind it are lost.
AdoptUpTo(cs, i) ==
    /\ dFaults < DMaxFaults
    /\ dFaults' = dFaults + 1
    /\ dQueue' = dQueue \o SubSeq(cs, 1, i - 1)
    /\ \/ dLog' = dLog \o Requested(SubSeq(cs, 1, i - 1)) /\ UNCHANGED dPartial
       \/ dLog' = dLog \o Requested(SubSeq(cs, 1, i)) /\ dPartial' = TRUE

----------------------------------------------------------------------------
(* Operations of the session.                                                *)

DelegationInit ==
    /\ dStack = <<>>
    /\ dQueue = <<>>
    /\ dLog = <<>>
    /\ dTrace = [n \in 1..DMaxRequests |-> <<>>]
    /\ dNow = 0
    /\ dOps = 0
    /\ dFaults = 0
    /\ dPartial = FALSE

StartOperation(frames) ==
    /\ dStack = <<>>
    /\ dOps < DMaxOps
    /\ dOps' = dOps + 1
    /\ dStack' = frames

\* prompt_inner: authorize_delegation_requests(0).
PromptOperation ==
    /\ StartOperation(<<Frame("prompt", "session", NoRequest, <<DDefault>>, 0, {})>>)
    /\ UNCHANGED <<dQueue, dLog, dTrace, dNow, dFaults, dPartial>>

\* invoke_agent_inner and invoke_team_inner, AgentInvocationContext and AgentTeamContext.
InvokeOperation(target) ==
    /\ StartOperation(<<Frame("invoke", target[1], NoRequest, Runs(target), 0, {})>>)
    /\ UNCHANGED <<dQueue, dLog, dTrace, dNow, dFaults, dPartial>>

\* approve_delegation_confirmation_inner, approve_pending: the record comes first.
ApproveOperation(i) ==
    LET c == dQueue[i]
        base == [Frame("approval", "session", NoRequest, <<>>, 0, {}) EXCEPT !.at = "delegate"]
    IN /\ IsActive(c)
       /\ \/ /\ StartOperation(<<base, ChildFrame(c.r, c.depth, c.lineage)>>)
             /\ Written(Record("approved", c))
             /\ dQueue' = RemoveAt(dQueue, i)
             /\ Traced(c.r.n, <<"approved", "started">>)
          \/ /\ StartOperation(<<>>)
             /\ WriteFails(Record("approved", c))
             /\ UNCHANGED <<dQueue, dTrace>>
       /\ UNCHANGED dNow

\* reject_pending.
RejectOperation(i) ==
    LET c == dQueue[i]
    IN /\ IsActive(c)
       /\ StartOperation(<<>>)
       /\ \/ /\ Written(Record("rejected", c))
             /\ dQueue' = RemoveAt(dQueue, i)
             /\ Traced(c.r.n, <<"rejected">>)
          \/ /\ WriteFails(Record("rejected", c))
             /\ UNCHANGED <<dQueue, dTrace>>
       /\ UNCHANGED dNow

----------------------------------------------------------------------------
(* Running a frame.                                                          *)

Asked == {n \in 1..DMaxRequests : dTrace[n] # <<>>}

\* The prompt of the profile succeeds, and the requests it made are authorized.  Two
\* calls of one turn may share a call id.
ProfileSucceeds(kind, targets, shared) ==
    /\ dStack # <<>>
    /\ Top.at = "run"
    /\ Top.kind = kind
    /\ Cardinality(Asked) + Len(targets) <= DMaxRequests
    /\ LET p == Head(Top.run)
           first == Cardinality(Asked)
           requests == [i \in DOMAIN targets |->
                          [n |-> first + i, call |-> IF shared THEN first + 1 ELSE first + i,
                           from |-> p, to |-> targets[i]]]
       IN /\ \A i \in DOMAIN targets : Requestable(p, targets[i])
          /\ dStack' = WithTop([Top EXCEPT !.at = "delegate",
                                  !.decisions = Authorize(requests, Top.depth, Top.lineage)])
          /\ dTrace' = [n \in DOMAIN dTrace |->
                          IF n \in first + 1 .. first + Len(targets) THEN <<"asked">>
                          ELSE dTrace[n]]
    /\ UNCHANGED <<dQueue, dLog, dNow, dOps, dFaults, dPartial>>

\* prompt_inner, AgentInvocationContext::run_child_agent, AgentTeamContext::run_profile_child.
PromptSucceeds(targets, shared) == ProfileSucceeds("session", targets, shared)
RunChildAgent(targets, shared) == ProfileSucceeds("agent", targets, shared)
RunProfileChild(targets, shared) == ProfileSucceeds("team", targets, shared)

\* The prompt fails or is aborted: the frame fails, and the profiles that follow in a
\* team do not run.
ProfileFails(kind) ==
    /\ dStack # <<>>
    /\ Top.at = "run"
    /\ Top.kind = kind
    /\ dStack' = WithTop([Top EXCEPT !.at = "done", !.ok = FALSE])
    /\ UNCHANGED <<dQueue, dLog, dTrace, dNow, dOps, dFaults, dPartial>>

\* finish_failure or finish_abort of the prompt; an agent profile that is not known or
\* has no runtime; a failing member or supervisor.
PromptFails == ProfileFails("session")
AgentFails == ProfileFails("agent")
TeamFails == ProfileFails("team")

Deciding == dStack # <<>> /\ Top.at = "delegate" /\ Top.decisions # <<>>
Decision == Head(Top.decisions)
Decided == [Top EXCEPT !.decisions = Tail(@)]
Abandoned == [Top EXCEPT !.decisions = <<>>]

\* execute_authorized_delegations, Approved: the child runs before the next decision.
ExecuteApproved ==
    /\ Deciding
    /\ Decision.is = "approved"
    /\ LET r == Decision.r
       IN /\ dStack' = Append(WithTop(Decided),
                              ChildFrame(r, Top.depth + 1, LineageForRequest(Top.lineage, r)))
          /\ Traced(r.n, <<"approved", "started">>)
    /\ UNCHANGED <<dQueue, dLog, dNow, dOps, dFaults, dPartial>>

\* RequiresConfirmation in the session's prompt: queue_pending.
QueueConfirmation ==
    /\ Deciding
    /\ Decision.is = "confirm"
    /\ OwnsSession(Top)
    /\ LET r == Decision.r
           c == Confirmation(r, Top.depth + 1, LineageForRequest(Top.lineage, r))
       IN \/ /\ IsDuplicate(dQueue, c)
             /\ dStack' = WithTop(Decided)
             /\ Traced(r.n, <<"duplicate">>)
             /\ UNCHANGED <<dQueue, dLog, dFaults, dPartial>>
          \/ /\ ~IsDuplicate(dQueue, c)
             /\ Written(Record("requested", c))
             /\ dQueue' = Append(dQueue, c)
             /\ Traced(r.n, <<"required">>)
             /\ dStack' = WithTop(Decided)
          \/ /\ ~IsDuplicate(dQueue, c)
             /\ WriteFails(Record("requested", c))
             /\ dStack' = WithTop(Abandoned)
             /\ UNCHANGED <<dQueue, dTrace>>
    /\ UNCHANGED <<dNow, dOps>>

\* RequiresConfirmation in a nested context: kept for the caller.
KeepConfirmation(kind) ==
    /\ Deciding
    /\ Decision.is = "confirm"
    /\ Top.kind = kind
    /\ LET r == Decision.r
           c == Confirmation(r, Top.depth + 1, LineageForRequest(Top.lineage, r))
       IN /\ dStack' = WithTop([Decided EXCEPT !.pending = Append(@, c)])
          /\ Traced(r.n, <<"required">>)
    /\ UNCHANGED <<dQueue, dLog, dNow, dOps, dFaults, dPartial>>

\* execute_authorized_delegations of an AgentInvocationContext and of an AgentTeamContext.
AgentKeepsConfirmation == KeepConfirmation("agent")
TeamKeepsConfirmation == KeepConfirmation("team")

RejectDecision ==
    /\ Deciding
    /\ Decision.is = "rejected"
    /\ dStack' = WithTop(Decided)
    /\ Traced(Decision.r.n, <<"rejected">>)
    /\ UNCHANGED <<dQueue, dLog, dNow, dOps, dFaults, dPartial>>

Finished == dStack # <<>> /\ Top.at = "delegate" /\ Top.decisions = <<>>

\* Mutant of NextProfile: the member that has answered is asked again.
NextProfileAgain ==
    /\ Finished
    /\ Len(Top.run) > 1
    /\ dStack' = WithTop([Top EXCEPT !.at = "run"])
    /\ UNCHANGED <<dQueue, dLog, dTrace, dNow, dOps, dFaults, dPartial>>

\* run_member_agents, merge_or_reject_result: the next member of the team, and the
\* supervisor after the members.
NextProfile ==
    /\ Finished
    /\ Len(Top.run) > 1
    /\ dStack' = WithTop([Top EXCEPT !.at = "run", !.run = Tail(@)])
    /\ UNCHANGED <<dQueue, dLog, dTrace, dNow, dOps, dFaults, dPartial>>

\* finish_success of the frame.
FrameFinished(kind) ==
    /\ Finished
    /\ Top.kind = kind
    /\ Len(Top.run) <= 1
    /\ dStack' = WithTop([Top EXCEPT !.at = "done"])
    /\ UNCHANGED <<dQueue, dLog, dTrace, dNow, dOps, dFaults, dPartial>>
FinalizePrompt == FrameFinished("session")
FinalizeAgentInvocation == FrameFinished("agent")
FinalizeTeam == FrameFinished("team")

\* A failed child ends what its parent had left to carry out.
Resumed(parent) == IF Top.ok THEN parent ELSE [parent EXCEPT !.decisions = <<>>]
Outcome == IF Top.ok THEN "completed" ELSE "failed"
Returning == Len(dStack) > 1 /\ Top.at = "done"
Parent == dStack[Len(dStack) - 1]
ReplaceParent(f) == Append(SubSeq(dStack, 1, Len(dStack) - 2), f)

\* The confirmations of the child go to the parent, whether it failed or not.
ReturnToContext(kind) ==
    /\ Returning
    /\ Parent.kind = kind
    /\ dStack' = ReplaceParent([Resumed(Parent) EXCEPT !.pending = @ \o Top.pending])
    /\ Traced(Top.r.n, <<Outcome>>)
    /\ UNCHANGED <<dQueue, dLog, dNow, dOps, dFaults, dPartial>>

\* The events of the end: the request, and a diagnostic for each duplicate.
TraceReturn(adopted) ==
    LET dups == Requests(Top.pending) \ Requests(adopted)
    IN dTrace' = [Noted(dups, "duplicate") EXCEPT ![Top.r.n] = Append(@, Outcome)]

\* execute_approved_agent_delegation and execute_approved_team_delegation of both.
ReturnToAgent == ReturnToContext("agent")
ReturnToTeam == ReturnToContext("team")

\* DelegationExecutionService, adopt_pending: the confirmations of the child are
\* recorded and queued up to the first one that cannot be written.
ReturnToSession ==
    /\ Returning
    /\ OwnsSession(Parent)
    /\ LET cs == Adopted(Top.pending)
       IN /\ TraceReturn(cs)
          /\ \/ /\ Adopt(cs)
                /\ dStack' = ReplaceParent(Resumed(Parent))
                /\ UNCHANGED <<dFaults, dPartial>>
             \/ \E i \in DOMAIN cs :
                   /\ AdoptUpTo(cs, i)
                   /\ dStack' = ReplaceParent([Parent EXCEPT !.decisions = <<>>])
    /\ UNCHANGED <<dNow, dOps>>

\* The operation of the session ends.  Nobody takes the confirmations of a context
\* that invoke_agent_inner or invoke_team_inner made.
OperationEnds ==
    /\ Len(dStack) = 1
    /\ Top.at = "done"
    /\ dStack' = <<>>
    /\ dTrace' = Noted(Requests(Top.pending), "dropped")
    /\ UNCHANGED <<dQueue, dLog, dNow, dOps, dFaults, dPartial>>

----------------------------------------------------------------------------
(* Time, and a crash with the session opened again.                          *)

DayPasses ==
    /\ dNow < 1
    /\ dNow' = dNow + 1
    /\ UNCHANGED <<dStack, dQueue, dLog, dTrace, dOps, dFaults, dPartial>>

\* replay_derived_owner_state.
Reopen ==
    /\ dStack' = <<>>
    /\ dQueue' = ReplayPending(dLog)
    /\ dPartial' = FALSE
    /\ dTrace' = Noted(UNION {Requests(dStack[i].pending) : i \in DOMAIN dStack}, "lost")
    /\ UNCHANGED <<dLog, dNow, dOps, dFaults>>

RunStep ==
    \/ \E targets \in SeqOf(Targets, 2), shared \in BOOLEAN :
          \/ PromptSucceeds(targets, shared)
          \/ RunChildAgent(targets, shared)
          \/ RunProfileChild(targets, shared)
    \/ PromptFails \/ AgentFails \/ TeamFails
    \/ ExecuteApproved \/ QueueConfirmation \/ RejectDecision
    \/ AgentKeepsConfirmation \/ TeamKeepsConfirmation
    \/ NextProfile \/ FinalizePrompt \/ FinalizeAgentInvocation \/ FinalizeTeam
    \/ ReturnToAgent \/ ReturnToTeam \/ ReturnToSession \/ OperationEnds

DelegationNext ==
    \/ PromptOperation
    \/ \E target \in Targets : InvokeOperation(target)
    \/ \E i \in DOMAIN dQueue : ApproveOperation(i) \/ RejectOperation(i)
    \/ RunStep
    \/ DayPasses
    \/ Reopen

DelegationSpec == DelegationInit /\ [][DelegationNext]_dVars

\* The prompts of the profiles end (RunEnds of AgentTurn) and the contexts above
\* them are polled.
DelegationFair == WF_dVars(RunStep)

----------------------------------------------------------------------------
(* Properties.                                                               *)

\* Delegation is bounded whatever the policies allow: no profile is delegated to
\* below itself, so the contexts on the stack are at most one per profile, and each
\* is within the depth of the profile that asked for it; also when the request
\* waited for its confirmation in the log of a session that was opened again.
DelegationBounded ==
    LET child == {i \in DOMAIN dStack : dStack[i].op = "child"}
    IN /\ \A i, j \in child : i # j => dStack[i].r.to # dStack[j].r.to
       /\ \A i \in child : /\ dStack[i].depth <= DPolicy[dStack[i].r.from].maxDepth
                           /\ dStack[i].depth >= Cardinality({j \in child : j <= i})
                           /\ dStack[i].r.to \in dStack[i].lineage

\* What the events of one request may be: it is started at most once, never when it was
\* rejected, and ends at most once, after it was started.
ActedOnce(events) ==
    /\ \A i, j \in DOMAIN events :
          {events[i], events[j]} \subseteq {"started", "rejected"} => i = j
    /\ \A i, j \in DOMAIN events :
          {events[i], events[j]} \subseteq {"completed", "failed"} => i = j
    /\ \A j \in DOMAIN events :
          events[j] \in {"completed", "failed"} => \E i \in 1..(j - 1) : events[i] = "started"

\* Confirmations survive a restart and none is acted on twice: between operations
\* the queue is what the log would restore, and unless a write failed it holds every
\* request whose confirmation was required and not answered, but for those of a
\* directly invoked agent and of a crash; a request is started at most once, never
\* when it was rejected, and ends at most once.
ConfirmationsAgree ==
    /\ dStack = <<>> /\ ~dPartial => dQueue = ReplayPending(dLog)
    /\ dStack = <<>> /\ dFaults = 0 =>
          Requests(dQueue) = {n \in Asked : Last(dTrace[n]) = "required"}
    /\ \A n \in DOMAIN dTrace : ActedOnce(dTrace[n])

\* A delegation ends: the session is free again after every operation.
DelegationEnds == dStack # <<>> ~> dStack = <<>>

\* Delegations stay within their policy and confirmations are acted on once, over
\* restarts, failed writes and crashes (delegation.rs, delegation_execution_service.rs).
DelegationSound == DelegationBounded /\ ConfirmationsAgree
=============================================================================
