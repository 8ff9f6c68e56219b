-------------------------- MODULE SubmissionProofs --------------------------
(***************************************************************************)
(* Proofs about submitted operations, for every number of clients,            *)
(* generations, operations and events.                                       *)
(***************************************************************************)
EXTENDS Submission, TLAPS

\* Where the owner is while an operation is admitted.
RunPcs == {"accepting", "accepted", "body", "finishing", "leaving"}

(***************************************************************************)
(* The inductive invariant.                                                 *)
(***************************************************************************)
\* The operation under way is the newest one, and active_operation is set only
\* while one is.
OwnerCounts ==
    /\ owner.pc \in RunPcs => owner.op = operations /\ owner.op > 0
    /\ owner.pc \notin RunPcs => owner.op = 0
    /\ active => owner.pc \in {"accepting", "accepted", "body", "finishing"}
    /\ owner.pc \in {"accepting", "accepted"} => Guarded

\* After a shutdown request no connection is attached, and none is left after
\* the runtime is sealed, which only shutdown() does.
RegistryCloses ==
    /\ lifecycle # "Running" => \A c \in Clients : connection[c] # "Attached"
    /\ lifecycle = "ShutDown" =>
        owner.pc = "idle" /\ \A c \in Clients : connection[c] = "Detached"
    /\ owner.pc \in {"draining", "sealing"} => lifecycle = "ShuttingDown"

\* Root events belong to admitted operations, and the one under way has none
\* before it publishes it.
RootsAdmitted ==
    /\ \A r \in roots : r.op \in 1..operations /\ r.seq < next
    /\ owner.pc \in {"accepting", "accepted", "body"} => \A r \in roots : r.op # owner.op

\* What a client's record holds, by itself and beside the root events.
RecordShape(c) ==
    /\ submitted[c].st = "None" => submitted[c] = None
    /\ submitted[c].st # "None" => submitted[c].op \in 1..operations
    /\ submitted[c].st \in {"Accepted", "Running"} => submitted[c].anchor = "none"
    /\ \A r \in roots : r.op = submitted[c].op => submitted[c].anchor = "event"

\* Only the client of the guard has a record of the operation under way, and as
\* far as the guard has brought it.
RecordOwned(c) ==
    /\ owner.pc \in RunPcs /\ submitted[c].op = owner.op =>
        Guarded /\ owner.guard.id = c /\ owner.pc # "accepting"
    /\ owner.pc = "accepted" /\ owner.guard.id = c =>
        submitted[c].st = "Accepted" /\ submitted[c].op = owner.op
    /\ owner.pc = "body" /\ Guarded /\ owner.guard.id = c =>
        submitted[c].st = "Running" /\ submitted[c].op = owner.op

SubmissionInv ==
    /\ TypeOK /\ OwnerCounts /\ RegistryCloses /\ RootsAdmitted
    /\ \A c \in Clients : RecordShape(c) /\ RecordOwned(c)
    /\ RunningOwned /\ RootAnchorExact

(***************************************************************************)
(* Types.                                                                   *)
(***************************************************************************)
(* Every handle that was issued names a client and a generation.             *)
LEMMA HandleType ==
    ASSUME RegistryTypeOK, NEW h \in Issued
    PROVE  h.id \in Clients /\ h.gen \in Nat /\ h.gen # 0
BY DEF RegistryTypeOK, Issued, Handles

(* The values that stand for nothing are well typed.                         *)
LEMMA NothingType ==
    /\ None \in SubmittedType
    /\ NoLease \in [st : {"none", "Prepared", "Abandoned"}, id : Clients, gen : Nat,
                    kind : Kinds]
    /\ NoGuard \in [id : Clients, gen : Nat]
    /\ Idle \in [pc : {"idle", "admitting", "accepting", "accepted", "body",
                        "finishing", "leaving", "draining", "sealing"},
                  op : Nat, kind : Kinds, guard : [id : Clients, gen : Nat],
                  body : {"ok", "err"}]
<1>1. None \in SubmittedType
  BY DEF None, SubmittedType, Kinds, Statuses
<1>2. (CHOOSE c \in Clients : TRUE) \in Clients
  BY SubmissionAssumption
<1>3. NoGuard \in [id : Clients, gen : Nat]
  BY <1>2 DEF NoGuard
<1> QED
  BY <1>1, <1>2, <1>3 DEF NoLease, Idle, Kinds

(* The changes that run() and emit make to a client's record keep its type.   *)
LEMMA RecordUpdates ==
    ASSUME NEW s \in SubmittedType
    PROVE  /\ [s EXCEPT !.st = "Running"] \in SubmittedType
           /\ [s EXCEPT !.count = @ + 1] \in SubmittedType
           /\ \A seq \in Nat, status \in Statuses :
                [s EXCEPT !.st = "Terminal", !.anchor = "event", !.seq = seq,
                          !.status = status, !.count = 1] \in SubmittedType
<1>1. s.count + 1 \in Nat
  BY DEF SubmittedType
<1>2. [s EXCEPT !.count = @ + 1] = [s EXCEPT !.count = s.count + 1]
  OBVIOUS
<1> QED
  BY <1>1, <1>2 DEF SubmittedType

(* Finalizing a record makes an unfinished one of this operation Terminal and *)
(* leaves every other alone.                                                  *)
LEMMA FinalizedRecord ==
    ASSUME TypeOK, NEW status \in Statuses
    PROVE  LET s == submitted[owner.guard.id]
               f == Finalized(status)
           IN /\ f \in SubmittedType /\ f.op = s.op /\ f.kind = s.kind
              /\ s.op = owner.op /\ s.st \in {"Accepted", "Running"} =>
                   f.st = "Terminal" /\ f.anchor \in {"uncertain", "outcome"}
              /\ ~(s.op = owner.op /\ s.st \in {"Accepted", "Running"}) => f = s
<1>1. submitted[owner.guard.id] \in SubmittedType
  BY DEF TypeOK
<1> QED
  BY <1>1 DEF Finalized, SubmittedType, Statuses

(* What run() returns is well typed.                                         *)
LEMMA ReturnType ==
    ASSUME TypeOK, NEW ret \in {"ok", "err"}, NEW body \in {"ok", "err"}, Return(ret, body)
    PROVE  /\ owner' = Idle /\ active' = FALSE
           /\ returned' \in [op : Nat, kind : Kinds, body : {"ok", "err"}, ret : {"ok", "err"}]
BY DEF TypeOK, Return

(* Init satisfies the invariant.                                             *)
LEMMA InitSubmission == Init => SubmissionInv
<1> SUFFICES ASSUME Init PROVE SubmissionInv
  OBVIOUS
<1>1. TypeOK
  <2>1. RegistryTypeOK
    BY DEF Init, RegistryInit, RegistryTypeOK, Lifecycles, Connections
  <2>2. view \in [Clients -> [st : {"none", "snapshot", "done"}, cursor : Nat,
                             sub : SubmittedType]]
    BY NothingType DEF Init
  <2>3. returned \in [op : Nat, kind : Kinds, body : {"ok", "err"}, ret : {"ok", "err"}]
    BY DEF Init, Kinds
  <2>4. submitted \in [Clients -> SubmittedType]
    BY NothingType DEF Init
  <2>a. active \in BOOLEAN
    BY DEF Init
  <2>5. /\ operations \in Nat /\ next \in Nat \ {0} /\ drafts \in Nat
        /\ acked \in [Clients -> Nat] /\ draft \in [Clients -> Nat]
    BY DEF Init
  <2>6. /\ roots \subseteq [op : Nat, seq : Nat, status : Statuses, by : SUBSET Clients]
        /\ lease = NoLease /\ owner = Idle
    BY DEF Init
  <2> QED
    BY <2>1, <2>2, <2>3, <2>4, <2>a, <2>5, <2>6, NothingType DEF TypeOK
<1>2. OwnerCounts
  BY DEF Init, OwnerCounts, Idle, RunPcs
<1>3. RegistryCloses /\ RootsAdmitted
  BY DEF Init, RegistryInit, RegistryCloses, RootsAdmitted, Idle
<1>4. ASSUME NEW c \in Clients PROVE RecordShape(c) /\ RecordOwned(c)
  BY DEF Init, RecordShape, RecordOwned, None, Idle, RunPcs
<1>5. RunningOwned /\ RootAnchorExact
  BY DEF Init, RunningOwned, RootAnchorExact, None
<1> QED
  BY <1>1, <1>2, <1>3, <1>4, <1>5 DEF SubmissionInv

(* Every step keeps the state well typed.                                    *)
LEMMA StepTyped ==
    ASSUME TypeOK, [Next]_vars
    PROVE  TypeOK'
<1> USE DEF TypeOK
<1>1. ASSUME NEW c \in Clients, Connect(c) PROVE TypeOK'
  BY <1>1 DEF Connect, ConnectOrTakeover, RegistryTypeOK, Connections, runVars, clientVars
<1>2. ASSUME RequestShutdown PROVE TypeOK'
  BY <1>2 DEF RequestShutdown, CloseRegistry, RegistryTypeOK, Connections, Lifecycles,
     runVars, clientVars
<1>3. ASSUME DropLease PROVE TypeOK'
  BY <1>3 DEF DropLease, runVars, clientVars, registry, RegistryTypeOK
<1>4. ASSUME NEW kind \in Offered, RunStart(kind) PROVE TypeOK'
  <2>1. kind \in Kinds
    BY SubmissionAssumption
  <2> DEFINE mine == lease.st = "Prepared" /\ lease.kind = kind
             guard == IF mine THEN [id |-> lease.id, gen |-> lease.gen] ELSE NoGuard
  <2>2. guard \in [id : Clients, gen : Nat]
    BY NothingType
  <2>3. owner' = [Idle EXCEPT !.pc = "admitting", !.kind = kind, !.guard = guard]
    BY <1>4 DEF RunStart
  <2>4. lease' \in {NoLease, lease}
    BY <1>4 DEF RunStart
  <2> HIDE DEF guard
  <2>5. owner' \in [pc : {"idle", "admitting", "accepting", "accepted", "body",
                        "finishing", "leaving", "draining", "sealing"},
                  op : Nat, kind : Kinds, guard : [id : Clients, gen : Nat],
                  body : {"ok", "err"}]
    BY <2>1, <2>2, <2>3, NothingType
  <2>6. UNCHANGED <<registry, operations, next, roots, active, clientVars, returned>>
    BY <1>4 DEF RunStart
  <2> QED
    BY <2>4, <2>5, <2>6, NothingType DEF registry, clientVars, RegistryTypeOK
<1>5. ASSUME Admit PROVE TypeOK'
  <2>1. active' \in BOOLEAN
    BY <1>5 DEF Admit
  <2>2. PICK pc \in {"accepting", "body"} :
            owner' = [owner EXCEPT !.pc = pc, !.op = operations + 1]
    BY <1>5 DEF Admit
  <2>3. operations + 1 \in Nat
    OBVIOUS
  <2>4. owner' \in [pc : {"idle", "admitting", "accepting", "accepted", "body",
                        "finishing", "leaving", "draining", "sealing"},
                  op : Nat, kind : Kinds, guard : [id : Clients, gen : Nat],
                  body : {"ok", "err"}]
    BY <2>2, <2>3
  <2> QED
    BY <1>5, <2>1, <2>4 DEF Admit, registry, clientVars, RegistryTypeOK
<1>6. ASSUME AdmitFails PROVE TypeOK'
  BY <1>6, ReturnType, NothingType DEF AdmitFails, registry, clientVars, RegistryTypeOK
<1>7. ASSUME MarkSubmitted PROVE TypeOK'
  <2>0. owner.guard.id \in Clients
    OBVIOUS
  <2>1. CASE Valid(owner.guard) /\ submitted[owner.guard.id].st = "None"
    <3> DEFINE record == [None EXCEPT !.st = "Accepted", !.op = owner.op, !.kind = owner.kind]
    <3>1. record \in SubmittedType
      BY NothingType DEF SubmittedType
    <3>2. /\ submitted' = [submitted EXCEPT ![owner.guard.id] = record]
          /\ draft' = [draft EXCEPT ![owner.guard.id] = IF owner.kind = "prompt" THEN 0 ELSE @]
          /\ owner' = [owner EXCEPT !.pc = "accepted"]
          /\ UNCHANGED <<active, returned>>
      BY <1>7, <2>1 DEF MarkSubmitted
    <3> HIDE DEF record
    <3>3. submitted' \in [Clients -> SubmittedType] /\ draft' \in [Clients -> Nat]
      BY <3>1, <3>2
    <3> QED
      BY <1>7, <3>2, <3>3 DEF MarkSubmitted, registry, RegistryTypeOK
  <2>2. CASE ~(Valid(owner.guard) /\ submitted[owner.guard.id].st = "None")
    BY <1>7, <2>2, ReturnType, NothingType DEF MarkSubmitted, registry, RegistryTypeOK
  <2> QED
    BY <2>1, <2>2
<1>8. ASSUME MarkRunning PROVE TypeOK'
  <2>1. CASE Valid(owner.guard)
    <3>1. submitted' = [submitted EXCEPT ![owner.guard.id].st = "Running"]
      BY <1>8, <2>1 DEF MarkRunning
    <3>2. [submitted[owner.guard.id] EXCEPT !.st = "Running"] \in SubmittedType
      BY RecordUpdates
    <3>3. submitted' \in [Clients -> SubmittedType]
      BY <3>1, <3>2
    <3> QED
      BY <1>8, <2>1, <3>3 DEF MarkRunning, registry, RegistryTypeOK
  <2>2. CASE ~Valid(owner.guard)
    BY <1>8, <2>2, ReturnType, NothingType DEF MarkRunning, registry, RegistryTypeOK
  <2> QED
    BY <2>1, <2>2
<1>9. ASSUME Progress PROVE TypeOK'
  BY <1>9 DEF Progress, registry, runVars, clientVars, RegistryTypeOK
<1>10. ASSUME NEW status \in Statuses, EmitRoot(status) PROVE TypeOK'
  <2>1. next' \in Nat \ {0} /\ owner.guard.id \in Clients
    BY <1>10 DEF EmitRoot
  <2>2. submitted' \in [Clients -> SubmittedType]
    <3>1. CASE Observe(owner.op, next, status)
      <4> SUFFICES ASSUME NEW c \in Clients PROVE submitted'[c] \in SubmittedType
        BY <3>1 DEF Observe
      <4>1. submitted[c] \in SubmittedType
        OBVIOUS
      <4>2. [submitted[c] EXCEPT !.count = @ + 1] \in SubmittedType
        BY <4>1, RecordUpdates
      <4>3. [submitted[c] EXCEPT !.st = "Terminal", !.anchor = "event", !.seq = next,
                                 !.status = status, !.count = 1] \in SubmittedType
        BY <4>1, RecordUpdates
      <4> QED
        BY <3>1, <4>1, <4>2, <4>3 DEF Observe
    <3> QED
      BY <1>10, <3>1 DEF EmitRoot
  <2>3. roots' \subseteq [op : Nat, seq : Nat, status : Statuses, by : SUBSET Clients]
    BY <1>10, <2>1 DEF EmitRoot
  <2>4. owner' \in [pc : {"idle", "admitting", "accepting", "accepted", "body",
                        "finishing", "leaving", "draining", "sealing"},
                  op : Nat, kind : Kinds, guard : [id : Clients, gen : Nat],
                  body : {"ok", "err"}]
    BY <1>10 DEF EmitRoot
  <2> QED
    BY <1>10, <2>1, <2>2, <2>3, <2>4 DEF EmitRoot, registry, RegistryTypeOK
<1>11. ASSUME NEW body \in {"ok", "err"}, EndBody(body) \/ LeaveEarly(body) PROVE TypeOK'
  BY <1>11 DEF EndBody, LeaveEarly, registry, clientVars, RegistryTypeOK
<1>12. ASSUME Finish \/ DropGuard PROVE TypeOK'
  <2>1. \/ submitted' = submitted
        \/ \E status \in Statuses :
             submitted' = [submitted EXCEPT ![owner.guard.id] = Finalized(status)]
    BY <1>12 DEF Finish, DropGuard, Statuses
  <2>2. \A status \in Statuses : Finalized(status) \in SubmittedType
    BY FinalizedRecord
  <2>3. submitted' \in [Clients -> SubmittedType]
    BY <2>1, <2>2
  <2>4. \E ret, body \in {"ok", "err"} : Return(ret, body)
    BY <1>12 DEF Finish, DropGuard
  <2>5. UNCHANGED <<registry, operations, next, roots, lease, acked, draft, drafts, view>>
    BY <1>12 DEF Finish, DropGuard
  <2> QED
    BY <2>3, <2>4, <2>5, ReturnType, NothingType DEF registry, RegistryTypeOK
<1>13. ASSUME ShutdownStart PROVE TypeOK'
  BY <1>13 DEF ShutdownStart, CloseRegistry, registry, clientVars, RegistryTypeOK,
     Lifecycles, Connections
<1>14. ASSUME ShutdownEmit PROVE TypeOK'
  BY <1>14 DEF ShutdownEmit, registry, clientVars, RegistryTypeOK
<1>15. ASSUME ShutdownSeal PROVE TypeOK'
  BY <1>15, NothingType DEF ShutdownSeal, SealRegistry, clientVars, RegistryTypeOK,
     Lifecycles, Connections
<1>16. ASSUME NEW h \in Issued, ClientStep(h) PROVE TypeOK'
  <2>0. h.id \in Clients /\ h.gen \in Nat
    BY HandleType
  <2>1. CASE Detach(h)
    BY <2>0, <2>1 DEF Detach, DetachClient, RegistryTypeOK, Connections, runVars, clientVars
  <2>2. CASE SetDraft(h)
    BY <2>0, <2>2 DEF SetDraft, registry, RegistryTypeOK, runVars
  <2>3. CASE AcknowledgeOutcome(h)
    BY <2>0, <2>3, NothingType DEF AcknowledgeOutcome, registry, RegistryTypeOK, runVars
  <2>4. CASE ReadSnapshot(h)
    BY <2>0, <2>4, NothingType DEF ReadSnapshot, registry, RegistryTypeOK, runVars
  <2>5. CASE ReadRecord(h)
    <3>1. PICK v \in [st : {"none", "snapshot", "done"}, cursor : Nat, sub : SubmittedType] :
              v = view[h.id]
      BY <2>0
    <3>a. PICK s \in SubmittedType : s = submitted[h.id]
      BY <2>0
    <3>b. /\ [v EXCEPT !.st = "none"] \in
               [st : {"none", "snapshot", "done"}, cursor : Nat, sub : SubmittedType]
          /\ [v EXCEPT !.st = "done", !.sub = s] \in
               [st : {"none", "snapshot", "done"}, cursor : Nat, sub : SubmittedType]
      OBVIOUS
    <3>2. view' \in [Clients -> [st : {"none", "snapshot", "done"}, cursor : Nat,
                                sub : SubmittedType]]
      BY <2>5, <3>1, <3>a, <3>b DEF ReadRecord
    <3> QED
      BY <2>5, <3>2 DEF ReadRecord, registry, RegistryTypeOK, runVars
  <2>6. ASSUME NEW seq \in 0..(next - 1 + AckAhead), Acknowledge(h, seq) PROVE TypeOK'
    <3>1. seq \in Nat
      BY SubmissionAssumption
    <3> QED
      BY <2>0, <2>6, <3>1, NothingType DEF Acknowledge, registry, RegistryTypeOK, runVars
  <2>7. ASSUME NEW kind \in Offered, Prepare(h, kind) PROVE TypeOK'
    <3>1. kind \in Kinds
      BY SubmissionAssumption
    <3> QED
      BY <2>0, <2>7, <3>1 DEF Prepare, registry, RegistryTypeOK, runVars, clientVars
  <2> QED
    BY <1>16, <2>1, <2>2, <2>3, <2>4, <2>5, <2>6, <2>7 DEF ClientStep
<1>17. CASE UNCHANGED vars
  BY <1>17 DEF vars, registry, RegistryTypeOK
<1> QED
  BY <1>1, <1>2, <1>3, <1>4, <1>5, <1>6, <1>7, <1>8, <1>9, <1>10, <1>11, <1>12, <1>13,
     <1>14, <1>15, <1>16, <1>17 DEF Next, RunStep, ShutdownStep

(***************************************************************************)
(* What the steps leave alone.                                              *)
(***************************************************************************)
(* A client's own steps other than an acknowledgement touch neither the run   *)
(* nor any record.                                                            *)
LEMMA ClientFrame ==
    ASSUME NEW h, ClientStep(h)
    PROVE  /\ UNCHANGED <<operations, next, roots, active, owner, returned>>
           /\ UNCHANGED <<lifecycle, generation>>
           /\ \/ UNCHANGED <<submitted, acked>>
              \/ AcknowledgeOutcome(h)
              \/ \E seq \in 0..(next - 1 + AckAhead) : Acknowledge(h, seq)
           /\ connection' = connection \/ DetachClient(h)
BY DEF ClientStep, Detach, SetDraft, AcknowledgeOutcome, ReadSnapshot, ReadRecord,
   Acknowledge, Prepare, DetachClient, registry, runVars, clientVars

(* Of the other steps, those of run() alone change the records.              *)
LEMMA QuietFrame ==
    ASSUME \/ \E c \in Clients : Connect(c)
           \/ \E kind \in Offered : RunStart(kind)
           \/ Progress \/ DropLease \/ RequestShutdown \/ ShutdownStart \/ ShutdownStep
           \/ Admit \/ AdmitFails \/ \E body \in {"ok", "err"} : EndBody(body) \/ LeaveEarly(body)
           \/ UNCHANGED vars
    PROVE  UNCHANGED <<roots, submitted, acked>> /\ (next' = next \/ next' = next + 1)
BY DEF Connect, RunStart, Progress, DropLease, RequestShutdown, ShutdownStart, ShutdownStep,
   ShutdownEmit, ShutdownSeal, Admit, AdmitFails, EndBody, LeaveEarly, vars, runVars, clientVars

(* The owner after each of those steps.                                      *)
LEMMA QuietOwner ==
    ASSUME TypeOK, OwnerCounts,
           \/ \E c \in Clients : Connect(c)
           \/ \E kind \in Offered : RunStart(kind)
           \/ Progress \/ DropLease \/ RequestShutdown \/ ShutdownStart \/ ShutdownStep
           \/ Admit \/ AdmitFails \/ \E body \in {"ok", "err"} : EndBody(body) \/ LeaveEarly(body)
           \/ UNCHANGED vars
    PROVE  \/ owner' = owner /\ operations' = operations
           \/ owner'.pc \notin RunPcs /\ owner.pc \notin RunPcs /\ operations' = operations
           \/ /\ Admit /\ operations' = operations + 1 /\ owner'.op = operations'
              /\ owner'.pc = IF owner'.guard.gen # 0 THEN "accepting" ELSE "body"
           \/ /\ operations' = operations /\ owner'.op = owner.op /\ owner'.guard = owner.guard
              /\ owner'.pc \in {"finishing", "leaving"} /\ owner.pc \in {"body", "finishing"}
<1> USE DEF TypeOK
<1>1. ASSUME NEW c \in Clients, Connect(c)
      PROVE  owner' = owner /\ operations' = operations
  BY <1>1 DEF Connect, runVars
<1>2. CASE Progress \/ DropLease \/ RequestShutdown \/ UNCHANGED vars
  BY <1>2 DEF Progress, DropLease, RequestShutdown, vars, runVars
<1>3. ASSUME NEW kind \in Offered, RunStart(kind)
      PROVE  owner'.pc \notin RunPcs /\ owner.pc \notin RunPcs /\ operations' = operations
  BY <1>3 DEF RunStart, Idle, RunPcs
<1>4. CASE ShutdownStart \/ ShutdownStep \/ AdmitFails
  <2>1. owner'.pc \notin RunPcs /\ owner.pc \notin RunPcs /\ operations' = operations
    BY <1>4 DEF ShutdownStart, ShutdownStep, ShutdownEmit, ShutdownSeal, AdmitFails, Return,
       Idle, RunPcs
  <2> QED
    BY <2>1
<1>5. CASE Admit
  <2>1. /\ operations' = operations + 1
        /\ owner' = [owner EXCEPT !.pc = IF Guarded THEN "accepting" ELSE "body",
                                  !.op = operations + 1]
    BY <1>5 DEF Admit
  <2>2. owner'.op = operations + 1 /\ owner'.guard = owner.guard
        /\ owner'.pc = IF Guarded THEN "accepting" ELSE "body"
    BY <2>1
  <2> QED
    BY <1>5, <2>1, <2>2 DEF Guarded
<1>6. ASSUME NEW body \in {"ok", "err"}, EndBody(body) \/ LeaveEarly(body)
      PROVE  /\ operations' = operations /\ owner'.op = owner.op /\ owner'.guard = owner.guard
             /\ owner'.pc \in {"finishing", "leaving"} /\ owner.pc \in {"body", "finishing"}
  BY <1>6 DEF EndBody, LeaveEarly
<1> QED
  BY <1>1, <1>2, <1>3, <1>4, <1>5, <1>6

(***************************************************************************)
(* The registry and the owner.                                              *)
(***************************************************************************)
(* Every step keeps the registry closing.                                    *)
LEMMA StepRegistry ==
    ASSUME SubmissionInv, [Next]_vars
    PROVE  RegistryCloses'
<1> USE DEF SubmissionInv, RegistryCloses
<1>0. TypeOK
  OBVIOUS
<1>1. ASSUME NEW c \in Clients, Connect(c) PROVE RegistryCloses'
  BY <1>0, <1>1 DEF Connect, ConnectOrTakeover, runVars, TypeOK, RegistryTypeOK
<1>2. ASSUME NEW h \in Issued, ClientStep(h) PROVE RegistryCloses'
  <2>1. h.id \in Clients /\ UNCHANGED <<lifecycle, owner>>
    BY <1>0, <1>2, HandleType, ClientFrame DEF TypeOK
  <2>2. connection' = connection \/ connection' = [connection EXCEPT ![h.id] = "Detached"]
    BY <1>2, ClientFrame DEF DetachClient
  <2> QED
    BY <1>0, <2>1, <2>2 DEF TypeOK, RegistryTypeOK
<1>3. ASSUME UNCHANGED registry, owner'.pc \notin {"draining", "sealing"},
             owner.pc = "idle" => owner'.pc = "idle" \/ lifecycle = "Running",
             owner.pc # "idle" => lifecycle # "ShutDown"
      PROVE  RegistryCloses'
  BY <1>3 DEF registry
<1>4. ASSUME NEW kind \in Offered, RunStart(kind) PROVE RegistryCloses'
  BY <1>4 DEF RunStart, Idle, registry
<1>5. ASSUME RunStep PROVE RegistryCloses'
  <2>1. UNCHANGED registry
    BY <1>5 DEF RunStep, Admit, AdmitFails, MarkSubmitted, MarkRunning, Finish, DropGuard,
       EmitRoot, EndBody, LeaveEarly
  <2>2. owner.pc # "idle"
    BY <1>5 DEF RunStep, Admit, AdmitFails, MarkSubmitted, MarkRunning, Finish, DropGuard,
       EmitRoot, EndBody, LeaveEarly
  <2>3. owner'.pc \in {"idle", "accepting", "accepted", "body", "finishing", "leaving"}
    <3>1. \/ owner' = Idle
          \/ owner' = [owner EXCEPT !.pc = "accepted"]
          \/ owner' = [owner EXCEPT !.pc = "body"]
          \/ Admit
          \/ \E pc \in {"finishing", "leaving"}, body \in {"ok", "err"} :
               owner' = [owner EXCEPT !.pc = pc, !.body = body]
      BY <1>5 DEF RunStep, AdmitFails, MarkSubmitted, MarkRunning, Finish, DropGuard,
         EmitRoot, EndBody, LeaveEarly, Return
    <3>2. CASE Admit
      BY <1>0, <3>2 DEF Admit, TypeOK
    <3>3. CASE owner' = Idle
      BY <3>3 DEF Idle
    <3>4. CASE owner' = [owner EXCEPT !.pc = "accepted"] \/ owner' = [owner EXCEPT !.pc = "body"]
      BY <1>0, <3>4 DEF TypeOK
    <3>5. ASSUME NEW pc \in {"finishing", "leaving"}, NEW body \in {"ok", "err"},
                 owner' = [owner EXCEPT !.pc = pc, !.body = body]
          PROVE  owner'.pc = pc
      BY <1>0, <3>5 DEF TypeOK
    <3> QED
      BY <3>1, <3>2, <3>3, <3>4, <3>5
  <2> QED
    BY <1>3, <2>1, <2>2, <2>3
<1>6. ASSUME Progress \/ DropLease PROVE RegistryCloses'
  BY <1>6 DEF Progress, DropLease, registry, runVars
<1>7. ASSUME RequestShutdown PROVE RegistryCloses'
  BY <1>7 DEF RequestShutdown, CloseRegistry, runVars
<1>8. ASSUME ShutdownStart PROVE RegistryCloses'
  <2>1. owner'.pc = "draining"
    BY <1>0, <1>8 DEF ShutdownStart, TypeOK
  <2> QED
    BY <1>8, <2>1 DEF ShutdownStart, CloseRegistry, registry
<1>9. ASSUME ShutdownEmit PROVE RegistryCloses'
  BY <1>0, <1>9 DEF ShutdownEmit, registry, TypeOK
<1>10. ASSUME ShutdownSeal PROVE RegistryCloses'
  <2>1. owner'.pc = "idle"
    BY <1>10 DEF ShutdownSeal, Idle
  <2>2. \A c \in Clients : connection'[c] = "Detached"
    BY <1>0, <1>10 DEF ShutdownSeal, SealRegistry, TypeOK, RegistryTypeOK, Connections
  <2> QED
    BY <2>1, <2>2
<1>11. CASE UNCHANGED vars
  BY <1>11 DEF vars, registry
<1> QED
  BY <1>1, <1>2, <1>4, <1>5, <1>6, <1>7, <1>8, <1>9, <1>10, <1>11 DEF Next, ShutdownStep

(* Every step keeps the operation under way the newest one.                  *)
LEMMA StepOwner ==
    ASSUME SubmissionInv, [Next]_vars
    PROVE  OwnerCounts'
<1> USE DEF RunPcs
<1>0. TypeOK /\ OwnerCounts
  BY DEF SubmissionInv
<1>1. ASSUME UNCHANGED <<operations, owner, active>> PROVE OwnerCounts'
  BY <1>0, <1>1 DEF OwnerCounts, Guarded
<1>2. ASSUME owner' = Idle, active' = FALSE PROVE OwnerCounts'
  BY <1>2 DEF OwnerCounts, Idle, Guarded
<1>3. ASSUME UNCHANGED <<operations, active>>, owner.pc \in RunPcs, owner'.op = owner.op,
             owner'.guard = owner.guard,
             \/ owner.pc = "accepting" /\ owner'.pc = "accepted"
             \/ owner.pc \in RunPcs /\ owner'.pc \in {"body", "finishing"}
      PROVE  OwnerCounts'
  BY <1>0, <1>3 DEF OwnerCounts, Guarded
<1>4. ASSUME NEW c \in Clients, Connect(c) PROVE OwnerCounts'
  BY <1>1, <1>4 DEF Connect, runVars
<1>5. ASSUME NEW h \in Issued, ClientStep(h) PROVE OwnerCounts'
  BY <1>1, <1>5, ClientFrame
<1>6. ASSUME Progress \/ DropLease \/ RequestShutdown \/ UNCHANGED vars PROVE OwnerCounts'
  BY <1>1, <1>6 DEF Progress, DropLease, RequestShutdown, runVars, vars
<1>7. ASSUME NEW kind \in Offered, RunStart(kind) PROVE OwnerCounts'
  BY <1>0, <1>7 DEF RunStart, Idle, OwnerCounts, Guarded
<1>8. ASSUME ShutdownStart \/ ShutdownEmit PROVE OwnerCounts'
  BY <1>0, <1>8 DEF ShutdownStart, ShutdownEmit, OwnerCounts, Guarded, TypeOK
<1>9. ASSUME ShutdownSeal PROVE OwnerCounts'
  BY <1>0, <1>9 DEF ShutdownSeal, Idle, OwnerCounts, Guarded
<1>10. ASSUME Admit PROVE OwnerCounts'
  <2>1. /\ operations' = operations + 1 /\ owner'.op = operations + 1
        /\ owner'.guard = owner.guard
        /\ owner'.pc = IF Guarded THEN "accepting" ELSE "body"
    BY <1>0, <1>10 DEF Admit, TypeOK
  <2> QED
    BY <1>0, <2>1 DEF OwnerCounts, Guarded, TypeOK
<1>11. ASSUME AdmitFails \/ Finish \/ DropGuard PROVE OwnerCounts'
  BY <1>2, <1>11 DEF AdmitFails, Finish, DropGuard, Return
<1>12. ASSUME MarkSubmitted PROVE OwnerCounts'
  <2>1. CASE owner' = [owner EXCEPT !.pc = "accepted"] /\ UNCHANGED active
    BY <1>0, <1>3, <1>12, <2>1 DEF MarkSubmitted, TypeOK
  <2>2. CASE Return("err", "err")
    BY <1>2, <2>2 DEF Return
  <2> QED
    BY <1>12, <2>1, <2>2 DEF MarkSubmitted
<1>13. ASSUME MarkRunning PROVE OwnerCounts'
  <2>1. CASE owner' = [owner EXCEPT !.pc = "body"] /\ UNCHANGED active
    BY <1>0, <1>3, <1>13, <2>1 DEF MarkRunning, TypeOK
  <2>2. CASE Return("err", "err")
    BY <1>2, <2>2 DEF Return
  <2> QED
    BY <1>13, <2>1, <2>2 DEF MarkRunning
<1>14. ASSUME NEW status \in Statuses, EmitRoot(status) PROVE OwnerCounts'
  BY <1>0, <1>3, <1>14 DEF EmitRoot, TypeOK
<1>15. ASSUME NEW body \in {"ok", "err"}, EndBody(body) PROVE OwnerCounts'
  BY <1>0, <1>3, <1>15 DEF EndBody, TypeOK
<1>16. ASSUME NEW body \in {"ok", "err"}, LeaveEarly(body) PROVE OwnerCounts'
  BY <1>0, <1>16 DEF LeaveEarly, OwnerCounts, Guarded, TypeOK
<1> QED
  BY <1>4, <1>5, <1>6, <1>7, <1>8, <1>9, <1>10, <1>11, <1>12, <1>13, <1>14, <1>15, <1>16
     DEF Next, RunStep, ShutdownStep

(***************************************************************************)
(* Records and root events.                                                 *)
(***************************************************************************)
RecordsSound ==
    /\ RootsAdmitted /\ RunningOwned /\ RootAnchorExact
    /\ \A c \in Clients : RecordShape(c) /\ RecordOwned(c)

(* A record names an admitted operation, or 0 when there is none.            *)
LEMMA RecordOp ==
    ASSUME SubmissionInv, NEW c \in Clients
    PROVE  /\ submitted[c] \in SubmittedType
           /\ submitted[c].op \in 0..operations
           /\ submitted[c].st = "None" <=> submitted[c].op = 0
<1>1. submitted[c] \in SubmittedType /\ operations \in Nat
  BY DEF SubmissionInv, TypeOK
<1>2. None.op = 0
  BY DEF None
<1> QED
  BY <1>1, <1>2 DEF SubmissionInv, RecordShape

(* Steps that change neither records nor root events.                        *)
LEMMA StepQuiet ==
    ASSUME SubmissionInv,
           \/ \E c \in Clients : Connect(c)
           \/ \E kind \in Offered : RunStart(kind)
           \/ Progress \/ DropLease \/ RequestShutdown \/ ShutdownStart \/ ShutdownStep
           \/ Admit \/ AdmitFails \/ \E body \in {"ok", "err"} : EndBody(body) \/ LeaveEarly(body)
           \/ UNCHANGED vars
    PROVE  RecordsSound'
<1>0. TypeOK /\ OwnerCounts /\ RootsAdmitted /\ RunningOwned /\ RootAnchorExact
  BY DEF SubmissionInv
<1>1. UNCHANGED <<roots, submitted>> /\ (next' = next \/ next' = next + 1)
  BY QuietFrame
<1>2. \/ owner' = owner /\ operations' = operations
      \/ owner'.pc \notin RunPcs /\ owner.pc \notin RunPcs /\ operations' = operations
      \/ /\ Admit /\ operations' = operations + 1 /\ owner'.op = operations'
         /\ owner'.pc = IF owner'.guard.gen # 0 THEN "accepting" ELSE "body"
      \/ /\ operations' = operations /\ owner'.op = owner.op /\ owner'.guard = owner.guard
         /\ owner'.pc \in {"finishing", "leaving"} /\ owner.pc \in {"body", "finishing"}
  BY <1>0, QuietOwner
<1>3. operations' \in Nat /\ operations <= operations' /\ next <= next' /\ next \in Nat
  BY <1>0, <1>1, <1>2 DEF TypeOK
<1>4. RootsAdmitted'
  <2>1. ASSUME NEW r \in roots
        PROVE  /\ r.op \in 1..operations' /\ r.seq < next'
               /\ owner'.pc \in {"accepting", "accepted", "body"} => r.op # owner'.op
    <3>1. r.op \in 1..operations /\ r.seq < next /\ r.seq \in Nat
      BY <1>0 DEF RootsAdmitted, TypeOK
    <3>2. r.op \in 1..operations' /\ r.seq < next'
      BY <1>0, <1>1, <1>3, <3>1 DEF TypeOK
    <3>3. owner'.pc \in {"accepting", "accepted", "body"} => r.op # owner'.op
      BY <1>0, <1>2, <3>1 DEF RootsAdmitted, RunPcs, TypeOK
    <3> QED
      BY <3>2, <3>3
  <2> QED
    BY <1>1, <2>1 DEF RootsAdmitted
<1>5. ASSUME NEW c \in Clients PROVE RecordShape(c)'
  <2>1. RecordShape(c)
    BY DEF SubmissionInv
  <2>2. submitted[c].st # "None" => submitted[c].op \in 1..operations'
    BY <1>0, <1>3, <2>1 DEF RecordShape, TypeOK
  <2> QED
    BY <1>1, <2>1, <2>2 DEF RecordShape
<1>6. ASSUME NEW c \in Clients PROVE RecordOwned(c)'
  <2>1. RecordOwned(c)
    BY DEF SubmissionInv
  <2>2. submitted[c].op # operations + 1
    BY <1>0, RecordOp DEF TypeOK
  <2>3. CASE owner' = owner
    BY <1>1, <2>1, <2>3 DEF RecordOwned, Guarded
  <2>4. CASE owner'.pc \notin RunPcs
    BY <2>4 DEF RecordOwned, RunPcs
  <2>5. CASE /\ operations' = operations + 1 /\ owner'.op = operations'
             /\ owner'.pc = IF owner'.guard.gen # 0 THEN "accepting" ELSE "body"
    BY <1>1, <2>2, <2>5 DEF RecordOwned, Guarded
  <2>6. CASE /\ owner'.op = owner.op /\ owner'.guard = owner.guard
             /\ owner'.pc \in {"finishing", "leaving"} /\ owner.pc \in {"body", "finishing"}
    BY <1>1, <2>1, <2>6 DEF RecordOwned, Guarded, RunPcs
  <2> QED
    BY <1>2, <2>3, <2>4, <2>5, <2>6
<1>7. RunningOwned'
  <2> SUFFICES ASSUME NEW c \in Clients, submitted[c].st = "Running"
               PROVE  /\ owner'.pc \in {"body", "finishing", "leaving"}
                      /\ owner'.op = submitted[c].op
                      /\ owner'.guard.id = c /\ Guarded'
    BY <1>1 DEF RunningOwned
  <2>1. /\ owner.pc \in {"body", "finishing", "leaving"} /\ owner.op = submitted[c].op
        /\ owner.guard.id = c /\ Guarded
    BY <1>0 DEF RunningOwned
  <2>2. ~Admit /\ owner.pc \in RunPcs
    BY <2>1 DEF Admit, RunPcs
  <2> QED
    BY <1>2, <2>1, <2>2 DEF Guarded
<1>8. RootAnchorExact'
  BY <1>0, <1>1 DEF RootAnchorExact
<1> QED
  BY <1>4, <1>5, <1>6, <1>7, <1>8 DEF RecordsSound

(* A client's step clears at most a Terminal record.                         *)
LEMMA Cleared ==
    ASSUME SubmissionInv, NEW h \in Issued, ClientStep(h), NEW k \in Clients
    PROVE  \/ submitted'[k] = submitted[k]
           \/ /\ k = h.id /\ submitted[k].st = "Terminal" /\ submitted'[k] = None
              /\ submitted[k].anchor \in {"event", "outcome"}
<1>0. submitted \in [Clients -> SubmittedType] /\ h.id \in Clients
  BY HandleType DEF SubmissionInv, TypeOK
<1>1. CASE submitted' = submitted
  BY <1>1
<1>2. CASE AcknowledgeOutcome(h)
  BY <1>0, <1>2 DEF AcknowledgeOutcome
<1>3. ASSUME NEW seq \in 0..(next - 1 + AckAhead), Acknowledge(h, seq)
      PROVE  \/ submitted'[k] = submitted[k]
             \/ /\ k = h.id /\ submitted[k].st = "Terminal" /\ submitted'[k] = None
                /\ submitted[k].anchor \in {"event", "outcome"}
  BY <1>0, <1>3 DEF Acknowledge
<1> QED
  BY <1>1, <1>2, <1>3, ClientFrame

(* A client's steps keep the records sound.                                  *)
LEMMA StepClient ==
    ASSUME SubmissionInv, NEW h \in Issued, ClientStep(h)
    PROVE  RecordsSound'
<1>0. TypeOK /\ OwnerCounts /\ RootsAdmitted /\ RunningOwned /\ RootAnchorExact
  BY DEF SubmissionInv
<1>1. UNCHANGED <<operations, next, roots, owner>>
  BY ClientFrame
<1>2. None.st = "None" /\ None.op = 0 /\ None.anchor = "none"
  BY DEF None
<1>3. RootsAdmitted'
  BY <1>0, <1>1 DEF RootsAdmitted
<1>4. ASSUME NEW k \in Clients PROVE RecordShape(k)' /\ RecordOwned(k)'
  <2>1. RecordShape(k) /\ RecordOwned(k)
    BY DEF SubmissionInv
  <2>2. CASE submitted'[k] = submitted[k]
    BY <1>1, <2>1, <2>2 DEF RecordShape, RecordOwned, Guarded
  <2>3. CASE submitted[k].st = "Terminal" /\ submitted'[k] = None
    <3>1. \A r \in roots : r.op # 0
      BY <1>0 DEF RootsAdmitted, TypeOK
    <3>2. owner.pc \in RunPcs => owner.op # 0
      BY <1>0 DEF OwnerCounts, TypeOK
    <3> QED
      BY <1>1, <1>2, <2>1, <2>3, <3>1, <3>2 DEF RecordShape, RecordOwned, Guarded, RunPcs
  <2> QED
    BY <2>2, <2>3, Cleared
<1>5. RunningOwned'
  BY <1>0, <1>1, <1>2, Cleared DEF RunningOwned, Guarded
<1>6. RootAnchorExact'
  <2> SUFFICES ASSUME NEW k \in Clients, submitted'[k].anchor = "event"
               PROVE  /\ {r \in roots' : r.op = submitted'[k].op} =
                         {[op |-> submitted'[k].op, seq |-> submitted'[k].seq,
                           status |-> submitted'[k].status, by |-> {k}]}
                      /\ submitted'[k].count = 1
    BY DEF RootAnchorExact
  <2>1. submitted'[k] = submitted[k]
    BY <1>2, Cleared
  <2> QED
    BY <1>0, <1>1, <2>1 DEF RootAnchorExact
<1> QED
  BY <1>3, <1>4, <1>5, <1>6 DEF RecordsSound

(* run() returns while no client's operation is running.                     *)
LEMMA StepReturn ==
    ASSUME SubmissionInv, owner' = Idle, UNCHANGED <<operations, next, roots, submitted>>,
           \A c \in Clients : submitted[c].st # "Running"
    PROVE  RecordsSound'
<1>0. RootsAdmitted /\ RootAnchorExact /\ \A c \in Clients : RecordShape(c)
  BY DEF SubmissionInv
<1>1. owner'.pc = "idle"
  BY DEF Idle
<1>2. RootsAdmitted'
  BY <1>0, <1>1 DEF RootsAdmitted
<1>3. ASSUME NEW c \in Clients PROVE RecordShape(c)' /\ RecordOwned(c)'
  BY <1>0, <1>1 DEF RecordShape, RecordOwned, RunPcs
<1> QED
  BY <1>0, <1>2, <1>3 DEF RecordsSound, RunningOwned, RootAnchorExact

(* mark_submitted gives the guard's client, and no other, a record of the     *)
(* operation under way.                                                       *)
LEMMA StepAccept ==
    ASSUME SubmissionInv, MarkSubmitted
    PROVE  RecordsSound'
<1>0. TypeOK /\ OwnerCounts /\ RootsAdmitted /\ RunningOwned /\ RootAnchorExact
  BY DEF SubmissionInv
<1>1. owner.pc = "accepting" /\ UNCHANGED <<operations, next, roots>>
  BY DEF MarkSubmitted
<1>2. CASE ~(Valid(owner.guard) /\ submitted[owner.guard.id].st = "None")
  <2>1. owner' = Idle /\ submitted' = submitted
    BY <1>2 DEF MarkSubmitted, Return
  <2>2. \A c \in Clients : submitted[c].st # "Running"
    BY <1>0, <1>1 DEF RunningOwned
  <2> QED
    BY <1>1, <2>1, <2>2, StepReturn
<1>3. CASE Valid(owner.guard) /\ submitted[owner.guard.id].st = "None"
  <2> DEFINE record == [None EXCEPT !.st = "Accepted", !.op = owner.op, !.kind = owner.kind]
  <2>1. /\ submitted' = [submitted EXCEPT ![owner.guard.id] = record]
        /\ owner' = [owner EXCEPT !.pc = "accepted"]
    BY <1>3 DEF MarkSubmitted
  <2>2. record.st = "Accepted" /\ record.op = owner.op /\ record.anchor = "none"
    BY DEF None
  <2> HIDE DEF record
  <2>3. /\ owner'.pc = "accepted" /\ owner'.op = owner.op /\ owner'.guard = owner.guard
        /\ owner.guard.id \in Clients
    BY <1>0, <2>1 DEF TypeOK
  <2>4. \A k \in Clients : submitted'[k] = IF k = owner.guard.id THEN record ELSE submitted[k]
    BY <1>0, <2>1 DEF TypeOK
  <2>5. Guarded /\ owner.op = operations /\ owner.op > 0 /\ operations \in Nat
    BY <1>0, <1>1 DEF OwnerCounts, RunPcs, TypeOK
  <2>6. \A k \in Clients : submitted[k].op # owner.op /\ submitted[k].st # "Running"
    BY <1>0, <1>1 DEF SubmissionInv, RecordOwned, RunPcs, RunningOwned
  <2>7. \A r \in roots : r.op # owner.op
    BY <1>0, <1>1 DEF RootsAdmitted
  <2>8. RootsAdmitted'
    BY <1>0, <1>1, <2>3, <2>7 DEF RootsAdmitted
  <2>9. ASSUME NEW k \in Clients PROVE RecordShape(k)' /\ RecordOwned(k)'
    <3>1. CASE k = owner.guard.id
      <4>1. submitted'[k] = record
        BY <2>4, <3>1
      <4> QED
        BY <1>1, <2>2, <2>3, <2>5, <2>7, <3>1, <4>1 DEF RecordShape, RecordOwned, Guarded
    <3>2. CASE k # owner.guard.id
      <4>1. submitted'[k] = submitted[k]
        BY <2>4, <3>2
      <4> QED
        BY <1>1, <2>3, <2>6, <3>2, <4>1 DEF SubmissionInv, RecordShape, RecordOwned, Guarded
    <3> QED
      BY <3>1, <3>2
  <2>10. RunningOwned'
    BY <2>2, <2>4, <2>6 DEF RunningOwned
  <2>11. RootAnchorExact'
    <3> SUFFICES ASSUME NEW k \in Clients, submitted'[k].anchor = "event"
                 PROVE  /\ {r \in roots' : r.op = submitted'[k].op} =
                           {[op |-> submitted'[k].op, seq |-> submitted'[k].seq,
                             status |-> submitted'[k].status, by |-> {k}]}
                        /\ submitted'[k].count = 1
      BY DEF RootAnchorExact
    <3>1. submitted'[k] = submitted[k]
      BY <2>2, <2>4
    <3> QED
      BY <1>0, <1>1, <3>1 DEF RootAnchorExact
  <2> QED
    BY <2>8, <2>9, <2>10, <2>11 DEF RecordsSound
<1> QED
  BY <1>2, <1>3

(* mark_running brings that record on, or run() gives up and leaves it.      *)
LEMMA StepRunning ==
    ASSUME SubmissionInv, MarkRunning
    PROVE  RecordsSound'
<1>0. TypeOK /\ OwnerCounts /\ RootsAdmitted /\ RunningOwned /\ RootAnchorExact
  BY DEF SubmissionInv
<1>1. owner.pc = "accepted" /\ UNCHANGED <<operations, next, roots>>
  BY DEF MarkRunning
<1>2. CASE ~Valid(owner.guard)
  <2>1. owner' = Idle /\ submitted' = submitted
    BY <1>2 DEF MarkRunning, Return
  <2>2. \A c \in Clients : submitted[c].st # "Running"
    BY <1>0, <1>1 DEF RunningOwned
  <2> QED
    BY <1>1, <2>1, <2>2, StepReturn
<1>3. CASE Valid(owner.guard)
  <2> DEFINE c == owner.guard.id
             record == [submitted[c] EXCEPT !.st = "Running"]
  <2>1. submitted' = [submitted EXCEPT ![c] = record] /\ owner' = [owner EXCEPT !.pc = "body"]
    BY <1>3 DEF MarkRunning
  <2>2. /\ owner'.pc = "body" /\ owner'.op = owner.op /\ owner'.guard = owner.guard
        /\ c \in Clients
    BY <1>0, <2>1 DEF TypeOK
  <2>3. /\ submitted[c].st = "Accepted" /\ submitted[c].op = owner.op
        /\ submitted[c].anchor = "none" /\ submitted[c].op \in 1..operations
    BY <1>1, <2>2 DEF SubmissionInv, RecordOwned, RecordShape
  <2>4. record.st = "Running" /\ record.op = owner.op /\ record.anchor = "none"
    <3>1. submitted[c] \in SubmittedType
      BY <1>0, <2>2 DEF TypeOK
    <3> QED
      BY <2>3, <3>1 DEF SubmittedType
  <2> HIDE DEF record
  <2>5. \A k \in Clients : submitted'[k] = IF k = c THEN record ELSE submitted[k]
    BY <1>0, <2>1, <2>2 DEF TypeOK
  <2>6. Guarded
    BY <1>0, <1>1 DEF OwnerCounts
  <2>7. \A k \in Clients \ {c} : submitted[k].op # owner.op /\ submitted[k].st # "Running"
    BY <1>0, <1>1 DEF SubmissionInv, RecordOwned, RunPcs, RunningOwned
  <2>8. \A r \in roots : r.op # owner.op
    BY <1>0, <1>1 DEF RootsAdmitted
  <2>9. RootsAdmitted'
    BY <1>0, <1>1, <2>2, <2>8 DEF RootsAdmitted
  <2>10. ASSUME NEW k \in Clients PROVE RecordShape(k)' /\ RecordOwned(k)'
    <3>1. CASE k = c
      <4>1. submitted'[k] = record
        BY <2>5, <3>1
      <4> QED
        BY <1>1, <2>2, <2>3, <2>4, <2>6, <2>8, <3>1, <4>1
           DEF RecordShape, RecordOwned, Guarded
    <3>2. CASE k # c
      <4>1. submitted'[k] = submitted[k]
        BY <2>5, <3>2
      <4> QED
        BY <1>1, <2>2, <2>7, <3>2, <4>1 DEF SubmissionInv, RecordShape, RecordOwned, Guarded
    <3> QED
      BY <3>1, <3>2
  <2>11. RunningOwned'
    BY <2>2, <2>4, <2>5, <2>6, <2>7 DEF RunningOwned, Guarded
  <2>12. RootAnchorExact'
    <3> SUFFICES ASSUME NEW k \in Clients, submitted'[k].anchor = "event"
                 PROVE  /\ {r \in roots' : r.op = submitted'[k].op} =
                           {[op |-> submitted'[k].op, seq |-> submitted'[k].seq,
                             status |-> submitted'[k].status, by |-> {k}]}
                        /\ submitted'[k].count = 1
      BY DEF RootAnchorExact
    <3>1. submitted'[k] = submitted[k]
      BY <2>4, <2>5
    <3> QED
      BY <1>0, <1>1, <3>1 DEF RootAnchorExact
  <2> QED
    BY <2>9, <2>10, <2>11, <2>12 DEF RecordsSound
<1> QED
  BY <1>2, <1>3

(* emit observes the root event of the operation under way: it anchors the    *)
(* record of the guard's client, which is Running, and touches no other.       *)
LEMMA StepEmit ==
    ASSUME SubmissionInv, NEW status \in Statuses, EmitRoot(status)
    PROVE  RecordsSound'
<1>0. TypeOK /\ OwnerCounts /\ RootsAdmitted /\ RunningOwned /\ RootAnchorExact
  BY DEF SubmissionInv
<1>1. owner.pc = "body" /\ operations' = operations /\ next' = next + 1
  BY DEF EmitRoot
<1>2. /\ owner'.pc = "finishing" /\ owner'.op = owner.op /\ owner'.guard = owner.guard
      /\ owner.op = operations /\ owner.op > 0 /\ operations \in Nat /\ next \in Nat
  BY <1>0, <1>1 DEF EmitRoot, TypeOK, OwnerCounts, RunPcs
<1>3. ASSUME NEW k \in Clients, submitted[k].op = owner.op
      PROVE  Guarded /\ owner.guard.id = k /\ submitted[k].st = "Running"
  BY <1>1, <1>3 DEF SubmissionInv, RecordOwned, RunPcs
<1>4. \A r \in roots : r.op # owner.op /\ r.op \in 1..operations /\ r.seq < next + 1
  BY <1>0, <1>1, <1>2 DEF RootsAdmitted, TypeOK
<1>5. \A k \in Clients : submitted[k].st = "Running" =>
          owner.op = submitted[k].op /\ owner.guard.id = k /\ Guarded
  BY <1>0 DEF RunningOwned
<1>6. \A k \in Clients : RecordShape(k) /\ RecordOwned(k) /\ submitted[k] \in SubmittedType
  BY <1>0 DEF SubmissionInv, TypeOK
<1>7. CASE owner.kind \notin RootUnderAdmittedId
  <2>1. UNCHANGED <<roots, submitted>>
    BY <1>7 DEF EmitRoot
  <2>2. RootsAdmitted'
    BY <1>1, <1>2, <1>4, <2>1 DEF RootsAdmitted
  <2>3. ASSUME NEW k \in Clients PROVE RecordShape(k)' /\ RecordOwned(k)'
    BY <1>1, <1>2, <1>3, <1>6, <2>1 DEF RecordShape, RecordOwned, Guarded
  <2>4. RunningOwned'
    BY <1>2, <1>5, <2>1 DEF RunningOwned, Guarded
  <2> QED
    BY <1>0, <2>1, <2>2, <2>3, <2>4 DEF RecordsSound, RootAnchorExact
<1>8. CASE owner.kind \in RootUnderAdmittedId
  <2> DEFINE new == [op |-> owner.op, seq |-> next, status |-> status,
                     by |-> IF Guarded THEN {owner.guard.id} ELSE {}]
             Anchored(s) == [s EXCEPT !.st = "Terminal", !.anchor = "event", !.seq = next,
                                      !.status = status, !.count = 1]
  <2>1. roots' = roots \cup {new} /\ Observe(owner.op, next, status)
    BY <1>8 DEF EmitRoot
  <2>2. ASSUME NEW k \in Clients
        PROVE  submitted'[k] = IF submitted[k].op = owner.op THEN Anchored(submitted[k])
                               ELSE submitted[k]
    BY <1>3, <2>1 DEF Observe
  <2>3. ASSUME NEW k \in Clients
        PROVE  LET t == Anchored(submitted[k])
               IN /\ t.st = "Terminal" /\ t.anchor = "event" /\ t.seq = next
                  /\ t.status = status /\ t.count = 1 /\ t.op = submitted[k].op
    BY <1>6 DEF SubmittedType
  <2>4. new.op = owner.op /\ new.seq = next
    OBVIOUS
  <2>5. RootsAdmitted'
    <3>1. \A r \in roots' : r.op \in 1..operations' /\ r.seq < next'
      <4>1. new.op \in 1..operations /\ new.seq < next + 1
        BY <1>2, <2>4
      <4> HIDE DEF new
      <4> QED
        BY <1>1, <1>4, <2>1, <4>1
    <3> QED
      BY <1>2, <3>1 DEF RootsAdmitted
  <2>6. ASSUME NEW k \in Clients, submitted[k].op = owner.op
        PROVE  /\ RecordShape(k)' /\ RecordOwned(k)' /\ submitted'[k].st # "Running"
               /\ {r \in roots' : r.op = submitted'[k].op} =
                    {[op |-> submitted'[k].op, seq |-> submitted'[k].seq,
                      status |-> submitted'[k].status, by |-> {k}]}
               /\ submitted'[k].count = 1
    <3> DEFINE t == submitted'[k]
    <3>1. /\ t.st = "Terminal" /\ t.anchor = "event" /\ t.seq = next
          /\ t.status = status /\ t.count = 1 /\ t.op = owner.op
      BY <2>2, <2>3, <2>6
    <3>2. Guarded /\ owner.guard.id = k
      BY <1>3, <2>6
    <3> HIDE DEF t
    <3>3. new = [op |-> t.op, seq |-> t.seq, status |-> t.status, by |-> {k}]
      BY <3>1, <3>2
    <3>4. {r \in roots' : r.op = t.op} = {new}
      <4> HIDE DEF new
      <4> QED
        BY <1>4, <2>1, <2>4, <3>1
    <3>5. RecordShape(k)'
      BY <1>1, <1>2, <3>1 DEF RecordShape, t
    <3>6. RecordOwned(k)'
      BY <1>2, <3>2 DEF RecordOwned, Guarded
    <3> QED
      BY <3>1, <3>3, <3>4, <3>5, <3>6 DEF t
  <2>7. ASSUME NEW k \in Clients, submitted[k].op # owner.op
        PROVE  /\ RecordShape(k)' /\ RecordOwned(k)' /\ submitted'[k] = submitted[k]
               /\ {r \in roots' : r.op = submitted[k].op} = {r \in roots : r.op = submitted[k].op}
    <3>1. submitted'[k] = submitted[k]
      BY <2>2, <2>7
    <3> HIDE DEF new
    <3>2. {r \in roots' : r.op = submitted[k].op} = {r \in roots : r.op = submitted[k].op}
      BY <2>1, <2>4, <2>7
    <3>3. \A r \in roots' : r.op = submitted[k].op => r \in roots
      BY <2>1, <2>4, <2>7
    <3>4. RecordShape(k)'
      BY <1>1, <1>6, <3>1, <3>3 DEF RecordShape
    <3>5. RecordOwned(k)'
      BY <1>2, <2>7, <3>1 DEF RecordOwned
    <3> QED
      BY <3>1, <3>2, <3>4, <3>5
  <2>8. RunningOwned'
    BY <1>5, <2>6, <2>7 DEF RunningOwned
  <2>9. RootAnchorExact'
    <3> SUFFICES ASSUME NEW k \in Clients, submitted'[k].anchor = "event"
                 PROVE  /\ {r \in roots' : r.op = submitted'[k].op} =
                           {[op |-> submitted'[k].op, seq |-> submitted'[k].seq,
                             status |-> submitted'[k].status, by |-> {k}]}
                        /\ submitted'[k].count = 1
      BY DEF RootAnchorExact
    <3>1. CASE submitted[k].op = owner.op
      BY <2>6, <3>1
    <3>2. CASE submitted[k].op # owner.op
      <4>1. /\ submitted'[k] = submitted[k]
            /\ {r \in roots' : r.op = submitted[k].op} = {r \in roots : r.op = submitted[k].op}
        BY <2>7, <3>2
      <4> QED
        BY <1>0, <4>1 DEF RootAnchorExact
    <3> QED
      BY <3>1, <3>2
  <2> QED
    BY <2>5, <2>6, <2>7, <2>8, <2>9 DEF RecordsSound
<1> QED
  BY <1>7, <1>8

(* The guard's finish, or its drop, leaves no record of the operation         *)
(* unfinished.                                                                *)
LEMMA StepFinish ==
    ASSUME SubmissionInv, Finish \/ DropGuard
    PROVE  RecordsSound'
<1>0. TypeOK /\ RootsAdmitted /\ RunningOwned /\ RootAnchorExact
  BY DEF SubmissionInv
<1>1. owner' = Idle /\ UNCHANGED <<operations, next, roots>>
  BY DEF Finish, DropGuard, Return
<1>2. CASE ~Guarded
  <2>1. submitted' = submitted
    BY <1>2 DEF Finish, DropGuard
  <2>2. \A c \in Clients : submitted[c].st # "Running"
    BY <1>0, <1>2 DEF RunningOwned
  <2> QED
    BY <1>1, <2>1, <2>2, StepReturn
<1>3. CASE Guarded
  <2> DEFINE c == owner.guard.id
             s == submitted[c]
  <2>1. PICK status \in Statuses : submitted' = [submitted EXCEPT ![c] = Finalized(status)]
    BY <1>3 DEF Finish, DropGuard, Statuses
  <2>2. PICK f : f = Finalized(status)
    OBVIOUS
  <2>3. /\ f \in SubmittedType /\ f.op = s.op
        /\ s.op = owner.op /\ s.st \in {"Accepted", "Running"} =>
             f.st = "Terminal" /\ f.anchor \in {"uncertain", "outcome"}
        /\ ~(s.op = owner.op /\ s.st \in {"Accepted", "Running"}) => f = s
    BY <1>0, <2>2, FinalizedRecord
  <2>4. c \in Clients /\ \A k \in Clients : submitted'[k] = IF k = c THEN f ELSE submitted[k]
    BY <1>0, <2>1, <2>2 DEF TypeOK
  <2>5. owner'.pc = "idle"
    BY <1>1 DEF Idle
  <2>6. RootsAdmitted'
    BY <1>0, <1>1, <2>5 DEF RootsAdmitted
  <2>7. \A k \in Clients : submitted'[k].st # "Running"
    BY <1>0, <2>3, <2>4 DEF RunningOwned
  <2>8. ASSUME NEW k \in Clients PROVE RecordShape(k)' /\ RecordOwned(k)'
    <3>1. RecordOwned(k)'
      BY <2>5 DEF RecordOwned, RunPcs
    <3>2. RecordShape(k)
      BY DEF SubmissionInv
    <3>3. CASE submitted'[k] = submitted[k]
      BY <1>1, <3>1, <3>2, <3>3 DEF RecordShape
    <3>4. CASE /\ k = c /\ s.st \in {"Accepted", "Running"} /\ f.st = "Terminal"
               /\ f.op = s.op
      <4>1. submitted'[k] = f
        BY <2>4, <3>4
      <4>2. s.anchor = "none" /\ s.op \in 1..operations /\ \A r \in roots : r.op # s.op
        BY <3>2, <3>4 DEF RecordShape
      <4> QED
        BY <1>1, <3>1, <3>4, <4>1, <4>2 DEF RecordShape
    <3> QED
      BY <2>3, <2>4, <3>1, <3>3, <3>4
  <2>9. RootAnchorExact'
    <3> SUFFICES ASSUME NEW k \in Clients, submitted'[k].anchor = "event"
                 PROVE  /\ {r \in roots' : r.op = submitted'[k].op} =
                           {[op |-> submitted'[k].op, seq |-> submitted'[k].seq,
                             status |-> submitted'[k].status, by |-> {k}]}
                        /\ submitted'[k].count = 1
      BY DEF RootAnchorExact
    <3>1. submitted'[k] = submitted[k]
      BY <2>3, <2>4
    <3> QED
      BY <1>0, <1>1, <3>1 DEF RootAnchorExact
  <2> QED
    BY <2>6, <2>7, <2>8, <2>9 DEF RecordsSound, RunningOwned
<1> QED
  BY <1>2, <1>3

(* The invariant holds in every reachable state.                             *)
LEMMA SubmissionInvariant == Spec => []SubmissionInv
<1>1. Init => SubmissionInv
  BY InitSubmission
<1>2. SubmissionInv /\ [Next]_vars => SubmissionInv'
  <2> SUFFICES ASSUME SubmissionInv, [Next]_vars PROVE SubmissionInv'
    OBVIOUS
  <2>1. TypeOK'
    BY StepTyped DEF SubmissionInv
  <2>2. RegistryCloses' /\ OwnerCounts'
    BY StepRegistry, StepOwner
  <2>3. RecordsSound'
    BY StepQuiet, StepClient, StepAccept, StepRunning, StepEmit, StepFinish
       DEF Next, RunStep
  <2> QED
    BY <2>1, <2>2, <2>3 DEF SubmissionInv, RecordsSound
<1> QED
  BY <1>1, <1>2, PTL DEF Spec

(* Whatever connects, detaches, takes over, acknowledges, returns early or     *)
(* shuts down between the critical sections of run(): no client is left with   *)
(* a Running operation that nobody runs, a Terminal state anchored at an event *)
(* names the one root event of its operation, and nothing is active, running   *)
(* or deliverable once the runtime is shut down.                               *)
THEOREM SubmissionCorrect == Spec => []SubmissionSound
<1>1. SubmissionInv => SubmissionSound
  <2> SUFFICES ASSUME SubmissionInv PROVE SubmissionSound
    OBVIOUS
  <2>1. ShutdownQuiescent
    <3> SUFFICES ASSUME lifecycle = "ShutDown"
                 PROVE  /\ ~active /\ owner.pc = "idle"
                        /\ \A c \in Clients :
                             submitted[c].st # "Running" /\ connection[c] = "Detached"
                        /\ \A h \in Issued : ~Deliverable(h) /\ ~Valid(h)
      BY DEF ShutdownQuiescent
    <3>1. owner.pc = "idle" /\ \A c \in Clients : connection[c] = "Detached"
      BY DEF SubmissionInv, RegistryCloses
    <3>2. ~active
      BY <3>1 DEF SubmissionInv, OwnerCounts
    <3>3. \A c \in Clients : submitted[c].st # "Running"
      BY <3>1 DEF SubmissionInv, RunningOwned
    <3> QED
      BY <3>1, <3>2, <3>3 DEF Deliverable, Valid
  <2> QED
    BY <2>1 DEF SubmissionInv, SubmissionSound
<1> QED
  BY <1>1, SubmissionInvariant, PTL

(***************************************************************************)
(* What a client is shown of its operation until it acknowledges it.         *)
(***************************************************************************)
(* Records after finish: only the guard's client's, and only to Terminal.    *)
LEMMA FinishMoves ==
    ASSUME SubmissionInv, Finish \/ DropGuard, NEW k \in Clients
    PROVE  \/ submitted'[k] = submitted[k]
           \/ /\ submitted[k].st \in {"Accepted", "Running"} /\ submitted'[k].st = "Terminal"
              /\ submitted'[k].op = submitted[k].op /\ submitted'[k].kind = submitted[k].kind
<1>0. TypeOK
  BY DEF SubmissionInv
<1>1. CASE ~Guarded
  BY <1>1 DEF Finish, DropGuard
<1>2. CASE Guarded
  <2>1. PICK status \in Statuses :
          submitted' = [submitted EXCEPT ![owner.guard.id] = Finalized(status)]
    BY <1>2 DEF Finish, DropGuard, Statuses
  <2>2. PICK f : f = Finalized(status)
    OBVIOUS
  <2>3. LET s == submitted[owner.guard.id]
        IN /\ f.op = s.op /\ f.kind = s.kind
           /\ s.op = owner.op /\ s.st \in {"Accepted", "Running"} => f.st = "Terminal"
           /\ ~(s.op = owner.op /\ s.st \in {"Accepted", "Running"}) => f = s
    BY <1>0, <2>2, FinalizedRecord
  <2>4. submitted'[k] = IF k = owner.guard.id THEN f ELSE submitted[k]
    BY <1>0, <2>1, <2>2 DEF TypeOK
  <2> QED
    BY <2>3, <2>4
<1> QED
  BY <1>1, <1>2

(* Records after emit: the Running one of the guard's client.                *)
LEMMA EmitMoves ==
    ASSUME SubmissionInv, NEW status \in Statuses, EmitRoot(status), NEW k \in Clients
    PROVE  \/ submitted'[k] = submitted[k]
           \/ /\ submitted[k].st \in {"Accepted", "Running"} /\ submitted'[k].st = "Terminal"
              /\ submitted'[k].op = submitted[k].op /\ submitted'[k].kind = submitted[k].kind
              /\ submitted'[k].seq = next /\ submitted[k].op = owner.op
<1>0. submitted[k] \in SubmittedType /\ owner.pc = "body"
  BY DEF SubmissionInv, TypeOK, EmitRoot
<1>1. CASE owner.kind \notin RootUnderAdmittedId
  BY <1>1 DEF EmitRoot
<1>2. CASE owner.kind \in RootUnderAdmittedId
  <2>1. Observe(owner.op, next, status)
    BY <1>2 DEF EmitRoot
  <2>2. CASE submitted[k].op # owner.op
    BY <2>1, <2>2 DEF Observe
  <2>3. CASE submitted[k].op = owner.op
    <3>1. submitted[k].st = "Running"
      BY <1>0, <2>3 DEF SubmissionInv, RecordOwned, RunPcs
    <3>2. submitted'[k] = [submitted[k] EXCEPT !.st = "Terminal", !.anchor = "event",
                             !.seq = next, !.status = status, !.count = 1]
      BY <2>1, <2>3, <3>1 DEF Observe
    <3> QED
      BY <1>0, <2>3, <3>1, <3>2 DEF SubmittedType
  <2> QED
    BY <2>2, <2>3
<1> QED
  BY <1>1, <1>2

(* A step leaves a client's record as it is, or moves it forward, or opens one *)
(* where there was none, or clears a Terminal one that the client acknowledged.*)
LEMMA RecordMoves ==
    ASSUME SubmissionInv, [Next]_vars, NEW k \in Clients
    PROVE  \/ submitted'[k] = submitted[k]
           \/ /\ submitted[k] = None /\ submitted'[k].st = "Accepted"
              /\ submitted'[k].op > 0 /\ submitted'[k].anchor = "none"
           \/ /\ submitted'[k].op = submitted[k].op /\ submitted'[k].kind = submitted[k].kind
              /\ \/ submitted[k].st = "Accepted" /\ submitted'[k].st = "Running"
                 \/ /\ submitted[k].st \in {"Accepted", "Running"}
                    /\ submitted'[k].st = "Terminal"
           \/ /\ submitted[k].st = "Terminal" /\ submitted'[k] = None
              /\ submitted[k].anchor # "uncertain"
<1>0. /\ TypeOK /\ OwnerCounts /\ submitted[k] \in SubmittedType
      /\ RecordShape(k) /\ RecordOwned(k)
  BY DEF SubmissionInv, TypeOK
<1>1. CASE \/ \E c \in Clients : Connect(c)
           \/ \E kind \in Offered : RunStart(kind)
           \/ Progress \/ DropLease \/ RequestShutdown \/ ShutdownStart \/ ShutdownStep
           \/ Admit \/ AdmitFails \/ \E body \in {"ok", "err"} : EndBody(body) \/ LeaveEarly(body)
           \/ UNCHANGED vars
  BY <1>1, QuietFrame
<1>2. ASSUME NEW h \in Issued, ClientStep(h)
      PROVE  \/ submitted'[k] = submitted[k]
             \/ /\ submitted[k].st = "Terminal" /\ submitted'[k] = None
                /\ submitted[k].anchor # "uncertain"
  BY <1>2, Cleared
<1>3. CASE MarkSubmitted
  <2>1. CASE submitted' = submitted
    BY <2>1
  <2>2. CASE /\ submitted[owner.guard.id].st = "None"
             /\ submitted' = [submitted EXCEPT ![owner.guard.id] =
                    [None EXCEPT !.st = "Accepted", !.op = owner.op, !.kind = owner.kind]]
    <3>1. owner.op > 0
      BY <1>0, <1>3 DEF MarkSubmitted, OwnerCounts, RunPcs
    <3>2. CASE k = owner.guard.id
      <4>1. submitted'[k] = [None EXCEPT !.st = "Accepted", !.op = owner.op, !.kind = owner.kind]
        BY <1>0, <2>2, <3>2 DEF TypeOK
      <4>2. submitted[k] = None
        BY <1>0, <2>2, <3>2 DEF RecordShape
      <4> QED
        BY <3>1, <4>1, <4>2 DEF None
    <3>3. CASE k # owner.guard.id
      BY <1>0, <2>2, <3>3 DEF TypeOK
    <3> QED
      BY <3>2, <3>3
  <2> QED
    BY <1>3, <2>1, <2>2 DEF MarkSubmitted
<1>4. CASE MarkRunning
  <2>1. CASE submitted' = submitted
    BY <2>1
  <2>2. CASE submitted' = [submitted EXCEPT ![owner.guard.id].st = "Running"]
    <3>1. CASE k = owner.guard.id
      <4>1. submitted'[k] = [submitted[k] EXCEPT !.st = "Running"]
        BY <1>0, <2>2, <3>1 DEF TypeOK
      <4>2. submitted[k].st = "Accepted"
        BY <1>0, <1>4, <3>1 DEF MarkRunning, RecordOwned
      <4> QED
        BY <1>0, <4>1, <4>2 DEF SubmittedType
    <3>2. CASE k # owner.guard.id
      BY <1>0, <2>2, <3>2 DEF TypeOK
    <3> QED
      BY <3>1, <3>2
  <2> QED
    BY <1>4, <2>1, <2>2 DEF MarkRunning
<1>5. CASE Finish \/ DropGuard
  BY <1>5, FinishMoves
<1>6. ASSUME NEW status \in Statuses, EmitRoot(status)
      PROVE  \/ submitted'[k] = submitted[k]
             \/ /\ submitted'[k].op = submitted[k].op /\ submitted'[k].kind = submitted[k].kind
                /\ submitted[k].st \in {"Accepted", "Running"} /\ submitted'[k].st = "Terminal"
  BY <1>6, EmitMoves
<1> QED
  BY <1>1, <1>2, <1>3, <1>4, <1>5, <1>6 DEF Next, RunStep

(* A submitted operation only moves forward, and only an acknowledgement that   *)
(* the client may make clears it: no step of run(), of another client, of a     *)
(* takeover or of shutdown() takes a client's record back or away.              *)
THEOREM SubmittedForward == Spec => SubmittedMonotone
<1>1. SubmissionInv /\ [Next]_vars =>
        [\A c \in Clients :
            LET s == submitted[c]
                t == submitted'[c]
            IN \/ s.op = t.op /\ s.kind = t.kind /\ Rank(s) <= Rank(t)
               \/ s = None /\ t.st = "Accepted" /\ t.op > 0
               \/ s.st = "Terminal" /\ s.anchor # "uncertain" /\ t = None]_vars
  <2> SUFFICES ASSUME SubmissionInv, [Next]_vars, NEW c \in Clients
               PROVE  LET s == submitted[c]
                          t == submitted'[c]
                      IN \/ s.op = t.op /\ s.kind = t.kind /\ Rank(s) <= Rank(t)
                         \/ s = None /\ t.st = "Accepted" /\ t.op > 0
                         \/ s.st = "Terminal" /\ s.anchor # "uncertain" /\ t = None
    OBVIOUS
  <2>1. submitted[c].st \in {"None", "Accepted", "Running", "Terminal"}
    BY DEF SubmissionInv, TypeOK, SubmittedType
  <2>2. Rank(submitted[c]) <= Rank(submitted[c])
    BY <2>1 DEF Rank
  <2>3. \A s, t : \/ s.st = "Accepted" /\ t.st = "Running"
                  \/ s.st \in {"Accepted", "Running"} /\ t.st = "Terminal"
                  => Rank(s) <= Rank(t)
    BY DEF Rank
  <2> QED
    BY <2>2, <2>3, RecordMoves
<1> QED
  BY <1>1, SubmissionInvariant, PTL DEF Spec, SubmittedMonotone

(***************************************************************************)
(* Outcomes and views.                                                      *)
(***************************************************************************)
\* A client sees its operation as Terminal until it acknowledges the root event.
UntilAcked ==
    \A c \in Clients : \A r \in roots : c \in r.by /\ r.seq > acked[c] =>
        submitted[c].st = "Terminal" /\ submitted[c].op = r.op

\* The cursor a client read is one that was published.
ViewBehind == \A c \in Clients : view[c].st # "none" => view[c].cursor < next

OutcomeInv == SubmissionInv /\ UntilAcked /\ ViewBehind /\ ViewNotStale

(* How the root events and a client's acknowledgement change in a step.      *)
LEMMA RootsAndAcks ==
    ASSUME SubmissionInv, [Next]_vars
    PROVE  /\ \/ roots' = roots /\ next' \in {next, next + 1}
              \/ \E status \in Statuses :
                   /\ EmitRoot(status) /\ next' = next + 1
                   /\ roots' = roots \cup
                        {[op |-> owner.op, seq |-> next, status |-> status,
                          by |-> IF Guarded THEN {owner.guard.id} ELSE {}]}
                   /\ owner.kind \in RootUnderAdmittedId
           /\ \/ acked' = acked
              \/ \E h \in Issued : \E seq \in 0..(next - 1 + AckAhead) : Acknowledge(h, seq)
<1>1. CASE \/ \E c \in Clients : Connect(c)
           \/ \E kind \in Offered : RunStart(kind)
           \/ Progress \/ DropLease \/ RequestShutdown \/ ShutdownStart \/ ShutdownStep
           \/ Admit \/ AdmitFails \/ \E body \in {"ok", "err"} : EndBody(body) \/ LeaveEarly(body)
           \/ UNCHANGED vars
  BY <1>1, QuietFrame
<1>2. ASSUME NEW h \in Issued, ClientStep(h)
      PROVE  /\ roots' = roots /\ next' = next
             /\ acked' = acked \/ \E seq \in 0..(next - 1 + AckAhead) : Acknowledge(h, seq)
  BY <1>2, ClientFrame DEF AcknowledgeOutcome
<1>3. CASE MarkSubmitted \/ MarkRunning \/ Finish \/ DropGuard
  BY <1>3 DEF MarkSubmitted, MarkRunning, Finish, DropGuard
<1>4. ASSUME NEW status \in Statuses, EmitRoot(status)
      PROVE  /\ next' = next + 1 /\ acked' = acked
             /\ \/ roots' = roots
                \/ /\ roots' = roots \cup
                        {[op |-> owner.op, seq |-> next, status |-> status,
                          by |-> IF Guarded THEN {owner.guard.id} ELSE {}]}
                   /\ owner.kind \in RootUnderAdmittedId
  BY <1>4 DEF EmitRoot
<1> QED
  BY <1>1, <1>2, <1>3, <1>4 DEF Next, RunStep

(* Acknowledgements only grow.                                               *)
LEMMA AcksGrow ==
    ASSUME SubmissionInv, [Next]_vars, NEW c \in Clients
    PROVE  acked[c] \in Nat /\ acked'[c] \in Nat /\ acked[c] <= acked'[c]
<1>0. acked \in [Clients -> Nat] /\ next \in Nat \ {0} /\ AckAhead \in Nat
  BY SubmissionAssumption DEF SubmissionInv, TypeOK
<1>1. ASSUME NEW h \in Issued, NEW seq \in 0..(next - 1 + AckAhead), Acknowledge(h, seq)
      PROVE  acked'[c] \in Nat /\ acked[c] <= acked'[c]
  <2>1. seq \in Nat /\ seq >= acked[h.id] /\ acked' = [acked EXCEPT ![h.id] = seq]
    BY <1>0, <1>1 DEF Acknowledge
  <2> QED
    BY <1>0, <2>1
<1> QED
  BY <1>0, <1>1, RootsAndAcks

(* A step that publishes no root event keeps a client's unacknowledged        *)
(* operation Terminal: what clears it is an acknowledgement of its root event. *)
LEMMA OldRootKept ==
    ASSUME SubmissionInv, UntilAcked, [Next]_vars,
           NEW c \in Clients, NEW r \in roots, c \in r.by, r.seq > acked'[c]
    PROVE  submitted'[c].st = "Terminal" /\ submitted'[c].op = r.op
<1>0. r.seq \in Nat /\ acked[c] \in Nat /\ acked'[c] \in Nat /\ acked[c] <= acked'[c]
  BY AcksGrow DEF SubmissionInv, TypeOK
<1>1. submitted[c].st = "Terminal" /\ submitted[c].op = r.op
  BY <1>0 DEF UntilAcked
<1>2. submitted[c].anchor = "event"
  BY <1>1 DEF SubmissionInv, RecordShape
<1>3. submitted[c].seq = r.seq
  <2>1. r \in {q \in roots : q.op = submitted[c].op}
    BY <1>1
  <2>2. r = [op |-> submitted[c].op, seq |-> submitted[c].seq,
             status |-> submitted[c].status, by |-> {c}]
    BY <1>2, <2>1 DEF SubmissionInv, RootAnchorExact
  <2> QED
    BY <2>2
<1>4. CASE submitted'[c] = submitted[c]
  BY <1>1, <1>4
<1>5. CASE submitted'[c] = None
  <2>0. submitted \in [Clients -> SubmittedType] /\ acked \in [Clients -> Nat]
    BY DEF SubmissionInv, TypeOK
  <2>1. submitted'[c] # submitted[c] /\ None.st = "None"
    BY <1>1, <1>5 DEF None
  <2>2. PICK h \in Issued : ClientStep(h)
    <3>1. ~UNCHANGED submitted
      BY <2>1
    <3>2. ASSUME Finish \/ DropGuard PROVE FALSE
      BY <1>1, <2>1, <3>2, FinishMoves
    <3>3. ASSUME NEW status \in Statuses, EmitRoot(status) PROVE FALSE
      BY <1>1, <2>1, <3>3, EmitMoves
    <3>4. ASSUME MarkSubmitted PROVE FALSE
      <4>1. submitted' = [submitted EXCEPT ![owner.guard.id] =
                    [None EXCEPT !.st = "Accepted", !.op = owner.op, !.kind = owner.kind]]
        BY <3>1, <3>4 DEF MarkSubmitted
      <4>2. submitted'[c].st = "Accepted"
        BY <2>0, <2>1, <4>1 DEF None
      <4> QED
        BY <1>5, <2>1, <4>2
    <3>5. ASSUME MarkRunning PROVE FALSE
      <4>1. submitted' = [submitted EXCEPT ![owner.guard.id].st = "Running"]
        BY <3>1, <3>5 DEF MarkRunning
      <4>2. submitted'[c] = [submitted[c] EXCEPT !.st = "Running"]
        BY <2>0, <2>1, <4>1
      <4>3. submitted'[c].st = "Running"
        BY <2>0, <4>2 DEF SubmittedType
      <4> QED
        BY <1>5, <2>1, <4>3
    <3> QED
      BY <3>1, <3>2, <3>3, <3>4, <3>5, QuietFrame DEF Next, RunStep
  <2>3. h.id \in Clients
    BY HandleType DEF SubmissionInv, TypeOK
  <2>4. CASE AcknowledgeOutcome(h)
    BY <1>2, <2>0, <2>1, <2>3, <2>4 DEF AcknowledgeOutcome
  <2>5. ASSUME NEW seq \in 0..(next - 1 + AckAhead), Acknowledge(h, seq) PROVE FALSE
    <3>1. /\ acked' = [acked EXCEPT ![h.id] = seq]
          /\ submitted' = [submitted EXCEPT ![h.id] =
                IF @.st = "Terminal" /\ @.anchor = "event" /\ seq >= @.seq THEN None ELSE @]
      BY <2>5 DEF Acknowledge
    <3>2. c = h.id /\ seq >= submitted[c].seq
      BY <2>0, <2>1, <2>3, <3>1
    <3>3. acked'[c] = seq
      BY <2>0, <3>1, <3>2
    <3> QED
      BY <1>0, <1>3, <3>2, <3>3
  <2> QED
    BY <2>1, <2>2, <2>4, <2>5, ClientFrame
<1>6. None.st = "None"
  BY DEF None
<1> QED
  BY <1>1, <1>4, <1>5, <1>6, RecordMoves

(* Every step keeps an unacknowledged operation Terminal.                     *)
LEMMA StepUntilAcked ==
    ASSUME SubmissionInv, UntilAcked, [Next]_vars
    PROVE  UntilAcked'
<1> SUFFICES ASSUME NEW c \in Clients, NEW r \in roots', c \in r.by, r.seq > acked'[c]
             PROVE  submitted'[c].st = "Terminal" /\ submitted'[c].op = r.op
  BY DEF UntilAcked
<1>1. CASE r \in roots
  BY <1>1, OldRootKept
<1>2. CASE r \notin roots
  <2>1. PICK status \in Statuses :
          /\ EmitRoot(status) /\ owner.kind \in RootUnderAdmittedId
          /\ r = [op |-> owner.op, seq |-> next, status |-> status,
                  by |-> IF Guarded THEN {owner.guard.id} ELSE {}]
    BY <1>2, RootsAndAcks
  <2>2. Guarded /\ owner.guard.id = c /\ r.op = owner.op
    BY <2>1
  <2>3. submitted[c].st = "Running" /\ submitted[c].op = owner.op
    BY <2>1, <2>2 DEF SubmissionInv, RecordOwned, EmitRoot
  <2>4. submitted[c] \in SubmittedType
    BY DEF SubmissionInv, TypeOK
  <2>5. submitted'[c] = [submitted[c] EXCEPT !.st = "Terminal", !.anchor = "event",
                             !.seq = next, !.status = status, !.count = 1]
    BY <2>1, <2>3 DEF EmitRoot, Observe
  <2> QED
    BY <2>2, <2>3, <2>4, <2>5 DEF SubmittedType
<1> QED
  BY <1>1, <1>2

(* Which view a step changes, and how: a snapshot is taken at the newest      *)
(* event, and the record is read after it.                                    *)
LEMMA ViewMoves ==
    ASSUME TypeOK, [Next]_vars, NEW c \in Clients
    PROVE  \/ view'[c] = view[c]
           \/ /\ UNCHANGED <<roots, next, submitted, acked>>
              /\ \/ view'[c].st = "snapshot" /\ view'[c].cursor = next - 1
                 \/ view'[c].st = "none"
                 \/ /\ view[c].st = "snapshot" /\ view'[c].st = "done"
                    /\ view'[c].cursor = view[c].cursor /\ view'[c].sub = submitted[c]
<1>0. view \in [Clients -> [st : {"none", "snapshot", "done"}, cursor : Nat,
                             sub : SubmittedType]]
  BY DEF TypeOK
<1>1. ASSUME NEW h \in Issued, ReadSnapshot(h)
      PROVE  \/ view'[c] = view[c]
             \/ /\ view'[c].st = "snapshot" /\ view'[c].cursor = next - 1
                /\ UNCHANGED <<roots, next, submitted, acked>>
  BY <1>0, <1>1 DEF ReadSnapshot, runVars
<1>2. ASSUME NEW h \in Issued, ReadRecord(h)
      PROVE  \/ view'[c] = view[c]
             \/ /\ UNCHANGED <<roots, next, submitted, acked>>
                /\ \/ view'[c].st = "none"
                   \/ /\ view[c].st = "snapshot" /\ view'[c].st = "done"
                      /\ view'[c].cursor = view[c].cursor /\ view'[c].sub = submitted[c]
  <2>1. UNCHANGED <<roots, next, submitted, acked>> /\ view[h.id].st = "snapshot"
    BY <1>2 DEF ReadRecord, runVars
  <2>2. view' = [view EXCEPT ![h.id] = IF Valid(h)
                    THEN [view[h.id] EXCEPT !.st = "done", !.sub = submitted[h.id]]
                    ELSE [view[h.id] EXCEPT !.st = "none"]]
    BY <1>2 DEF ReadRecord
  <2>3. CASE c # h.id
    BY <1>0, <2>2, <2>3
  <2>4. CASE c = h.id
    <3>1. PICK v : v = view[c]
      OBVIOUS
    <3>2. v \in [st : {"none", "snapshot", "done"}, cursor : Nat, sub : SubmittedType]
      BY <1>0, <3>1
    <3>3. \/ view'[c] = [v EXCEPT !.st = "done", !.sub = submitted[c]]
          \/ view'[c] = [v EXCEPT !.st = "none"]
      BY <1>0, <2>2, <2>4, <3>1
    <3> QED
      BY <2>1, <2>4, <3>1, <3>2, <3>3
  <2> QED
    BY <2>3, <2>4
<1>3. \/ view' = view
      \/ \E h \in Issued : ReadSnapshot(h) \/ ReadRecord(h)
  BY DEF Next, vars, Connect, ClientStep, Detach, SetDraft, AcknowledgeOutcome, Acknowledge,
     Prepare, RunStart, RunStep, Admit, AdmitFails, MarkSubmitted, MarkRunning, Finish,
     DropGuard, EmitRoot, EndBody, LeaveEarly, Progress, DropLease, RequestShutdown,
     ShutdownStart, ShutdownStep, ShutdownEmit, ShutdownSeal, clientVars
<1> QED
  BY <1>1, <1>2, <1>3

(* Every step keeps the views behind the newest event and never stale.        *)
LEMMA StepViews ==
    ASSUME OutcomeInv, [Next]_vars
    PROVE  ViewBehind' /\ ViewNotStale'
<1>0. /\ SubmissionInv /\ TypeOK /\ UntilAcked /\ ViewBehind /\ ViewNotStale
      /\ next \in Nat \ {0} /\ RootsAdmitted
  BY DEF OutcomeInv, SubmissionInv, TypeOK
<1>1. next' \in Nat /\ next <= next'
  BY <1>0, RootsAndAcks
<1>2. ASSUME NEW c \in Clients, view'[c].st # "none"
      PROVE  view'[c].cursor < next'
  <2>1. view[c].cursor \in Nat
    BY <1>0 DEF TypeOK
  <2>2. CASE view'[c] = view[c]
    BY <1>0, <1>1, <1>2, <2>1, <2>2 DEF ViewBehind
  <2>3. CASE view'[c].st = "snapshot" /\ view'[c].cursor = next - 1
    BY <1>0, <1>1, <2>3
  <2>4. CASE view[c].st = "snapshot" /\ view'[c].cursor = view[c].cursor
    BY <1>0, <1>1, <2>1, <2>4 DEF ViewBehind
  <2> QED
    BY <1>0, <1>2, <2>2, <2>3, <2>4, ViewMoves
<1>3. ASSUME NEW c \in Clients, view'[c].st = "done", NEW r \in roots',
             c \in r.by, r.seq <= view'[c].cursor, r.seq > acked'[c]
      PROVE  view'[c].sub.st = "Terminal" /\ view'[c].sub.op = r.op
  <2>1. CASE view'[c] = view[c]
    <3>1. view[c].cursor < next /\ view[c].cursor \in Nat
      BY <1>0, <1>3, <2>1 DEF ViewBehind, TypeOK
    <3>2. r.seq # next
      BY <1>0, <1>3, <2>1, <3>1
    <3>3. r \in roots
      BY <1>0, <3>2, RootsAndAcks
    <3>4. r.seq > acked[c]
      <4>1. r.seq \in Nat /\ acked[c] \in Nat /\ acked'[c] \in Nat /\ acked[c] <= acked'[c]
        BY <1>0, <3>3, AcksGrow DEF TypeOK
      <4> QED
        BY <1>3, <4>1
    <3> QED
      BY <1>0, <1>3, <2>1, <3>3, <3>4 DEF ViewNotStale
  <2>2. CASE /\ UNCHANGED <<roots, next, submitted, acked>>
             /\ view[c].st = "snapshot" /\ view'[c].st = "done"
             /\ view'[c].cursor = view[c].cursor /\ view'[c].sub = submitted[c]
    BY <1>0, <1>3, <2>2 DEF UntilAcked
  <2> QED
    BY <1>0, <1>3, <2>1, <2>2, ViewMoves
<1> QED
  BY <1>2, <1>3 DEF ViewBehind, ViewNotStale

(* The outcomes and the views stay true, however far ahead clients            *)
(* acknowledge.                                                               *)
LEMMA OutcomeInvariant == Spec => []OutcomeInv
<1>1. Init => OutcomeInv
  BY InitSubmission DEF Init, OutcomeInv, UntilAcked, ViewBehind, ViewNotStale
<1>2. OutcomeInv /\ [Next]_vars => UntilAcked' /\ ViewBehind' /\ ViewNotStale'
  BY StepUntilAcked, StepViews DEF OutcomeInv
<1>3. OutcomeInv <=> SubmissionInv /\ UntilAcked /\ ViewBehind /\ ViewNotStale
  BY DEF OutcomeInv
<1> QED
  BY <1>1, <1>2, <1>3, SubmissionInvariant, PTL DEF Spec

(* client_state reads the cursor and the client's record under two locks, and   *)
(* events, acknowledgements, finishes and takeovers may come between: the       *)
(* record it returns still shows every unacknowledged root event that the       *)
(* cursor covers.                                                               *)
THEOREM ViewsCorrect == Spec => []ViewNotStale
BY OutcomeInvariant, PTL DEF OutcomeInv

(***************************************************************************)
(* Clients that acknowledge only what was published.                         *)
(***************************************************************************)
\* What is anchored at an event is not yet acknowledged.
AnchorAhead ==
    \A c \in Clients : submitted[c].anchor = "event" => submitted[c].seq > acked[c]

(* A record becomes anchored at an event only when emit observes that event.  *)
LEMMA AnchorMoves ==
    ASSUME SubmissionInv, [Next]_vars, NEW c \in Clients, submitted'[c].anchor = "event"
    PROVE  submitted'[c] = submitted[c] \/ submitted'[c].seq = next
<1>0. None.anchor = "none" /\ TypeOK /\ submitted[c] \in SubmittedType
  BY DEF None, SubmissionInv, TypeOK
<1>1. ASSUME NEW h \in Issued, ClientStep(h) PROVE submitted'[c] = submitted[c]
  BY <1>0, <1>1, Cleared
<1>2. ASSUME NEW status \in Statuses, EmitRoot(status)
      PROVE  submitted'[c] = submitted[c] \/ submitted'[c].seq = next
  BY <1>2, EmitMoves
<1>3. CASE Finish \/ DropGuard
  <2>1. CASE ~Guarded
    BY <1>3, <2>1 DEF Finish, DropGuard
  <2>2. CASE Guarded
    <3>1. PICK status \in Statuses :
            submitted' = [submitted EXCEPT ![owner.guard.id] = Finalized(status)]
      BY <1>3, <2>2 DEF Finish, DropGuard, Statuses
    <3>2. PICK f : f = Finalized(status)
      OBVIOUS
    <3>3. f.anchor \in {"uncertain", "outcome"} \/ f = submitted[owner.guard.id]
      BY <1>0, <3>2, FinalizedRecord
    <3>4. submitted'[c] = IF c = owner.guard.id THEN f ELSE submitted[c]
      BY <1>0, <3>1, <3>2 DEF TypeOK
    <3> QED
      BY <3>3, <3>4
  <2> QED
    BY <2>1, <2>2
<1>4. CASE MarkSubmitted
  <2>1. \/ submitted' = submitted
        \/ submitted' = [submitted EXCEPT ![owner.guard.id] =
                    [None EXCEPT !.st = "Accepted", !.op = owner.op, !.kind = owner.kind]]
    BY <1>4 DEF MarkSubmitted
  <2>2. PICK n : n = [None EXCEPT !.st = "Accepted", !.op = owner.op, !.kind = owner.kind]
    OBVIOUS
  <2>3. n.anchor = "none"
    BY <2>2 DEF None
  <2>4. submitted'[c] = submitted[c] \/ submitted'[c] = n
    BY <1>0, <2>1, <2>2 DEF TypeOK
  <2> QED
    BY <2>3, <2>4
<1>5. CASE MarkRunning
  <2>1. CASE submitted' = submitted
    BY <2>1
  <2>2. CASE submitted' = [submitted EXCEPT ![owner.guard.id].st = "Running"]
    <3>1. CASE c = owner.guard.id
      <4>1. submitted'[c] = [submitted[c] EXCEPT !.st = "Running"]
        BY <1>0, <2>2, <3>1 DEF TypeOK
      <4>2. submitted[c].st = "Accepted"
        BY <1>5, <3>1 DEF MarkRunning, SubmissionInv, RecordOwned
      <4>3. submitted[c].anchor = "none"
        BY <4>2 DEF SubmissionInv, RecordShape
      <4> QED
        BY <1>0, <4>1, <4>3 DEF SubmittedType
    <3>2. CASE c # owner.guard.id
      BY <1>0, <2>2, <3>2 DEF TypeOK
    <3> QED
      BY <3>1, <3>2
  <2> QED
    BY <1>5, <2>1, <2>2 DEF MarkRunning
<1> QED
  BY <1>1, <1>2, <1>3, <1>4, <1>5, QuietFrame DEF Next, RunStep

(* A step before and after which only published events are acknowledged keeps   *)
(* anchors ahead of the acknowledgements.                                      *)
LEMMA StepAnchor ==
    ASSUME SubmissionInv, AnchorAhead, AcksPublished, AcksPublished', [Next]_vars
    PROVE  AnchorAhead'
<1>0. /\ TypeOK /\ next \in Nat \ {0} /\ acked \in [Clients -> Nat]
      /\ submitted \in [Clients -> SubmittedType]
  BY DEF SubmissionInv, TypeOK
<1>1. next' \in Nat /\ next <= next' /\ AckAhead \in Nat
  BY <1>0, RootsAndAcks, SubmissionAssumption
<1>2. CASE \E h \in Issued : \E seq \in 0..(next - 1 + AckAhead) : Acknowledge(h, seq)
  <2>1. PICK h \in Issued, seq \in 0..(next - 1 + AckAhead) : Acknowledge(h, seq)
    BY <1>2
  <2>2. /\ acked' = [acked EXCEPT ![h.id] = seq]
        /\ submitted' = [submitted EXCEPT ![h.id] =
                IF @.st = "Terminal" /\ @.anchor = "event" /\ seq >= @.seq THEN None ELSE @]
    BY <2>1 DEF Acknowledge
  <2>3. ASSUME NEW c \in Clients
        PROVE  submitted'[c].anchor = "event" => submitted'[c].seq > acked'[c]
    <3>1. CASE c # h.id
      BY <1>0, <1>1, <2>2, <3>1 DEF AnchorAhead
    <3>2. CASE c = h.id
      <4>1. acked'[c] = seq /\ seq \in Nat
        BY <1>0, <2>2, <3>2
      <4>2. \/ submitted'[c] = None
            \/ /\ submitted'[c] = submitted[c]
               /\ ~(submitted[c].st = "Terminal" /\ submitted[c].anchor = "event"
                    /\ seq >= submitted[c].seq)
        BY <1>0, <2>2, <3>2
      <4>3. submitted[c].seq \in Nat /\ None.anchor = "none"
        BY <1>0 DEF SubmittedType, None
      <4>4. submitted[c].anchor = "event" => submitted[c].st = "Terminal"
        <5>1. RecordShape(c) /\ submitted[c].st \in {"None", "Accepted", "Running", "Terminal"}
          BY <1>0 DEF SubmissionInv, SubmittedType
        <5> QED
          BY <4>3, <5>1 DEF RecordShape
      <4> QED
        BY <1>0, <1>1, <4>1, <4>2, <4>3, <4>4
    <3> QED
      BY <3>1, <3>2
  <2> QED
    BY <2>3 DEF AnchorAhead
<1>3. CASE acked' = acked
  <2> SUFFICES ASSUME NEW c \in Clients
               PROVE  submitted'[c].anchor = "event" => submitted'[c].seq > acked[c]
    BY <1>3 DEF AnchorAhead
  <2>1. acked[c] < next /\ acked[c] \in Nat
    BY <1>0 DEF AcksPublished
  <2>2. acked[c] < next'
    BY <1>0, <1>1, <2>1
  <2>3. ASSUME submitted'[c].anchor = "event"
        PROVE  submitted'[c] = submitted[c] \/ submitted'[c].seq = next
    BY <2>3, AnchorMoves
  <2> QED
    BY <2>1, <2>2, <2>3 DEF AnchorAhead
<1> QED
  BY <1>0, <1>2, <1>3, RootsAndAcks

(* While nobody acknowledges what is not yet published, a client sees its        *)
(* operation as Terminal until it acknowledges its root event, through detach     *)
(* and takeover, and never after.                                              *)
THEOREM OutcomesCorrect == Spec => OutcomeUntilAcked
<1>1. Init => AnchorAhead
  <2>1. None.anchor = "none"
    BY DEF None
  <2> QED
    BY <2>1 DEF Init, AnchorAhead
<1>2. SubmissionInv /\ AnchorAhead /\ AcksPublished /\ AcksPublished' /\ [Next]_vars => AnchorAhead'
  BY StepAnchor
<1>3. OutcomeInv /\ AnchorAhead => TerminalUntilAcked
  BY DEF OutcomeInv, UntilAcked, AnchorAhead, TerminalUntilAcked
<1> QED
  BY <1>1, <1>2, <1>3, SubmissionInvariant, OutcomeInvariant, PTL DEF Spec, OutcomeUntilAcked
=============================================================================
