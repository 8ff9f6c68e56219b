---------------------------- MODULE EdgesProofs -----------------------------
(***************************************************************************)
(* Proofs about the edges of the agent: the harness, the calls that change *)
(* files and the settings, for any number of prompts, handlers, observers, *)
(* calls, processes and items.                                             *)
(***************************************************************************)
EXTENDS Harness, FileEdits, Settings, FiniteSetTheorems, SequenceTheorems,
        WellFoundedInduction, TLAPS

(***************************************************************************)
(* Induction over the places of a sequence.                                *)
(***************************************************************************)
(* A set of numbers that is not empty has a least one: induction over the       *)
(* places of a sequence is by the least place where the claim fails.            *)
LEMMA NatLeast ==
    ASSUME NEW T \in SUBSET Nat, T # {}
    PROVE  \E m \in T : \A k \in T : m <= k
<1> DEFINE R == {ss \in Nat \X Nat : ss[1] < ss[2]}
<1>1. IsWellFoundedOn(R, Nat)
  BY NatLessThanWellFounded DEF OpToRel
<1> HIDE DEF R
<1>2. PICK m \in T : \A k \in T : ~(<<k, m>> \in R)
  BY <1>1, WFMin
<1>3. ASSUME NEW k \in T PROVE m <= k
  <2>1. ~(<<k, m>> \in R)
    BY <1>2
  <2>2. k \in Nat /\ m \in Nat
    OBVIOUS
  <2>3. ~(k < m)
    BY <2>1, <2>2 DEF R
  <2> QED
    BY <2>2, <2>3
<1> QED
  BY <1>3

\* f is built from base in n steps.
BuiltBy(f, S, base, n, step) ==
    f \in [0..n -> S] /\ f[0] = base /\ \A i \in 1..n : f[i] = step[<<i, f[i - 1]>>]

(* A function that is built step by step exists.                               *)
LEMMA Iterates ==
    ASSUME NEW S, NEW base \in S, NEW n \in Nat, NEW step \in [(1..n) \X S -> S]
    PROVE  \E f : BuiltBy(f, S, base, n, step)
<1> DEFINE Built(k) == \E f : BuiltBy(f, S, base, k, step)
           Missed == {k \in Nat : k <= n /\ ~Built(k)}
<1>0. SUFFICES Built(n)
  OBVIOUS
<1> HIDE DEF Built
<1>1. SUFFICES ASSUME Missed # {} PROVE FALSE
  OBVIOUS
<1>2. PICK m \in Missed : \A k \in Missed : m <= k
  <2>1. Missed \in SUBSET Nat
    OBVIOUS
  <2> HIDE DEF Missed
  <2> QED
    BY <1>1, <2>1, NatLeast
<1>3. CASE m = 0
  <2>1. Built(0)
    <3> DEFINE f == [i \in 0..0 |-> base]
    <3>1. f \in [0..0 -> S] /\ f[0] = base /\ \A i \in 1..0 : f[i] = step[<<i, f[i - 1]>>]
      OBVIOUS
    <3> QED
      BY <3>1 DEF Built, BuiltBy
  <2> QED
    BY <1>3, <2>1
<1>4. CASE m # 0
  <2>1. m \in 1..n /\ m - 1 \in Nat /\ m - 1 <= n
    BY <1>4
  <2>2. Built(m - 1)
    BY <1>2, <2>1
  <2>3. PICK f \in [0..(m - 1) -> S] :
           f[0] = base /\ \A i \in 1..(m - 1) : f[i] = step[<<i, f[i - 1]>>]
    BY <2>2 DEF Built, BuiltBy
  <2> DEFINE g == [i \in 0..m |-> IF i = m THEN step[<<m, f[m - 1]>>] ELSE f[i]]
  <2>4. f[m - 1] \in S /\ step[<<m, f[m - 1]>>] \in S
    BY <2>1
  <2>5. g \in [0..m -> S]
    BY <2>1, <2>4
  <2>6. g[0] = base
    BY <2>1, <2>3
  <2>7. ASSUME NEW i \in 1..m PROVE g[i] = step[<<i, g[i - 1]>>]
    <3>1. CASE i = m
      <4>1. m - 1 # m /\ m - 1 \in 0..m /\ m \in 0..m
        BY <2>1
      <4>2. g[m] = step[<<m, f[m - 1]>>] /\ g[m - 1] = f[m - 1]
        BY <4>1
      <4> HIDE DEF g
      <4> QED
        BY <3>1, <4>2
    <3>2. CASE i # m
      <4>1. i \in 1..(m - 1) /\ i - 1 # m /\ i - 1 \in 0..m
        BY <2>1, <3>2
      <4>2. g[i] = f[i] /\ g[i - 1] = f[i - 1]
        BY <3>2, <4>1
      <4> HIDE DEF g
      <4> QED
        BY <2>3, <4>1, <4>2
    <3> QED
      BY <3>1, <3>2
  <2>8. Built(m)
    <3> HIDE DEF g
    <3> QED
      BY <2>5, <2>6, <2>7 DEF Built, BuiltBy
  <2> QED
    BY <2>8
<1> QED
  BY <1>3, <1>4

(***************************************************************************)
(* The harness.                                                            *)
(***************************************************************************)
StreamFields == {"pc", "messages", "handlers", "left", "told", "holds", "listeners", "watched",
                 "events", "headers", "answers"}

\* The functions and records keep their domains.
HarnessShape ==
    /\ DOMAIN hStreams = HStreams
    /\ \A s \in HStreams : DOMAIN hStreams[s] = StreamFields
    /\ DOMAIN hAgent = {"messages", "running", "cancelled", "queue", "hook", "panicked"}
    /\ hAgent.running \in BOOLEAN /\ hAgent.panicked \in BOOLEAN

(***************************************************************************)
(* One turn at a time.                                                      *)
(***************************************************************************)
\* The guards that a stream has, RunGuard above PhaseResetOnDrop, follow from where it
\* is; one that is being dropped may have any of them left.
Guards == {<<>>, <<"phase">>, <<"phase", "run">>}
GuardsFit(st) ==
    /\ st.holds \in Guards
    /\ st.pc \in {"none", "made", "busy"} => st.holds = <<>>
    /\ st.pc \in {"start", "context", "failed"} => st.holds = <<"phase">>
    /\ st.pc = "run" => st.holds = <<"phase", "run">>
    /\ st.pc = "settled" => st.holds # <<"phase", "run">>

\* The inductive invariant: one stream at most has guards, and they say in which phase
\* the harness is and whether the agent runs.
SerialInv ==
    /\ HarnessShape
    /\ hPhase \in {"idle", "turn"}
    /\ \A s \in HStreams : GuardsFit(hStreams[s])
    /\ \A s, t \in HStreams : hStreams[s].holds # <<>> /\ hStreams[t].holds # <<>> => s = t
    /\ hPhase = "turn" <=> \E s \in HStreams : hStreams[s].holds # <<>>
    /\ hAgent.running <=> \E s \in HStreams : hStreams[s].holds = <<"phase", "run">>
    /\ ~hAgent.panicked

(* The guards of a stream differ, and the last one of each is as expected.    *)
LEMMA GuardValues ==
    /\ <<"phase">> # <<>> /\ <<"phase", "run">> # <<>> /\ <<"phase", "run">> # <<"phase">>
    /\ Last(<<"phase">>) = "phase" /\ Last(<<"phase", "run">>) = "run"
    /\ SubSeq(<<"phase">>, 1, Len(<<"phase">>) - 1) = <<>>
    /\ SubSeq(<<"phase", "run">>, 1, Len(<<"phase", "run">>) - 1) = <<"phase">>
    /\ Append(<<"phase">>, "run") = <<"phase", "run">>
    /\ ToSet(<<>>) = {} /\ ToSet(<<"phase">>) = {"phase"}
    /\ ToSet(<<"phase", "run">>) = {"phase", "run"}
<1>1. <<"phase">> # <<>> /\ <<"phase", "run">> # <<>> /\ <<"phase", "run">> # <<"phase">>
  OBVIOUS
<1>2. /\ Last(<<"phase">>) = "phase" /\ Last(<<"phase", "run">>) = "run"
      /\ SubSeq(<<"phase">>, 1, Len(<<"phase">>) - 1) = <<>>
  BY DEF Last
<1>3. /\ SubSeq(<<"phase", "run">>, 1, Len(<<"phase", "run">>) - 1) = <<"phase">>
      /\ Append(<<"phase">>, "run") = <<"phase", "run">>
  <2> DEFINE S == {"phase", "run"}
             one == <<"phase">>
             two == <<"phase", "run">>
             a == SubSeq(two, 1, 1)
             b == Append(one, "run")
  <2>1. one \in Seq(S) /\ Len(one) = 1 /\ one[1] = "phase"
    OBVIOUS
  <2>2. two \in Seq(S) /\ Len(two) = 2 /\ two[1] = "phase" /\ two[2] = "run"
    OBVIOUS
  <2>3. a \in Seq(S) /\ Len(a) = 1 /\ a[1] = "phase"
    BY <2>2
  <2>4. b \in Seq(S) /\ Len(b) = 2 /\ b[1] = "phase" /\ b[2] = "run"
    BY <2>1
  <2> HIDE DEF S, one, two, a, b
  <2>5. a = one
    BY <2>1, <2>3, SeqEqual
  <2>6. b = two
    <3>1. \A i \in 1..Len(b) : b[i] = two[i]
      BY <2>2, <2>4
    <3> QED
      BY <3>1, <2>2, <2>4, SeqEqual
  <2> QED
    BY <2>2, <2>5, <2>6 DEF one, two, a, b
<1>4. ToSet(<<>>) = {}
  BY DEF ToSet
<1>5. ToSet(<<"phase">>) = {"phase"}
  BY DEF ToSet
<1>6. ToSet(<<"phase", "run">>) = {"phase", "run"}
  BY DEF ToSet
<1> QED
  BY <1>1, <1>2, <1>3, <1>4, <1>5, <1>6

(* The first state has no guards.                                            *)
LEMMA InitSerial == HarnessInit => SerialInv
<1> SUFFICES ASSUME HarnessInit PROVE SerialInv
  OBVIOUS
<1>1. HarnessShape
  BY DEF HarnessInit, HarnessShape, NotMade, StreamFields
<1>2. \A s \in HStreams : hStreams[s].holds = <<>> /\ hStreams[s].pc = "none"
  BY DEF HarnessInit, NotMade
<1> QED
  BY <1>1, <1>2, GuardValues DEF HarnessInit, SerialInv, GuardsFit, Guards

\* A step of one stream, which becomes new.
Becomes(s, new) ==
    /\ hStreams' = [hStreams EXCEPT ![s] = new]
    /\ DOMAIN new = StreamFields

(* An event is told by the stream it is of.                                  *)
LEMMA EmitBecomes ==
    ASSUME HarnessShape, NEW s \in HStreams, NEW listeners, NEW event, NEW pc, NEW new,
           DOMAIN new = StreamFields, EmitTo(listeners, s, event, pc, new)
    PROVE  \E st : /\ Becomes(s, st)
                   /\ st.pc = pc /\ st.told = Append(new.told, event)
                   /\ st.holds = new.holds /\ st.watched = new.watched
                   /\ st.listeners = new.listeners
<1> DEFINE st == [new EXCEPT !.pc = pc, !.told = Append(@, event)]
<1>1. Becomes(s, st)
  BY DEF Becomes, EmitTo, StreamFields
<1>2. /\ st.pc = pc /\ st.told = Append(new.told, event)
      /\ st.holds = new.holds /\ st.watched = new.watched /\ st.listeners = new.listeners
  BY DEF StreamFields
<1> QED
  BY <1>1, <1>2

(* A step that leaves the guards alone keeps the invariant.                   *)
LEMMA SerialKept ==
    ASSUME SerialInv, HarnessShape', hPhase' = hPhase,
           hAgent'.running = hAgent.running, hAgent'.panicked = hAgent.panicked,
           \A s \in HStreams : hStreams'[s].holds = hStreams[s].holds,
           \A s \in HStreams : GuardsFit(hStreams'[s])
    PROVE  SerialInv'
BY DEF SerialInv

(* The same for a step of one stream.                                        *)
LEMMA SerialOne ==
    ASSUME SerialInv, NEW s \in HStreams, NEW new, Becomes(s, new), hPhase' = hPhase,
           DOMAIN hAgent' = DOMAIN hAgent,
           hAgent'.running = hAgent.running, hAgent'.panicked = hAgent.panicked,
           new.holds = hStreams[s].holds, GuardsFit(new)
    PROVE  SerialInv'
<1>1. \A t \in HStreams : hStreams'[t] = IF t = s THEN new ELSE hStreams[t]
  BY DEF Becomes, SerialInv, HarnessShape
<1>2. HarnessShape'
  BY <1>1 DEF Becomes, SerialInv, HarnessShape
<1>3. \A t \in HStreams : hStreams'[t].holds = hStreams[t].holds /\ GuardsFit(hStreams'[t])
  BY <1>1 DEF SerialInv
<1> QED
  BY <1>2, <1>3, SerialKept

(* A stream that takes the phase, starts the agent's run or gives a guard back: the one  *)
(* stream with guards changes, and phase and agent with it.                           *)
LEMMA SerialMoves ==
    ASSUME SerialInv, NEW s \in HStreams, NEW new, Becomes(s, new), GuardsFit(new),
           hStreams[s].holds # <<>> \/ hPhase = "idle",
           hPhase' = IF new.holds = <<>> THEN "idle" ELSE "turn",
           DOMAIN hAgent' = DOMAIN hAgent, hAgent'.panicked = hAgent.panicked,
           hAgent'.running \in BOOLEAN,
           hAgent'.running <=> new.holds = <<"phase", "run">>
    PROVE  SerialInv'
<1>1. \A t \in HStreams : hStreams'[t] = IF t = s THEN new ELSE hStreams[t]
  BY DEF Becomes, SerialInv, HarnessShape
<1>2. HarnessShape'
  BY <1>1 DEF Becomes, SerialInv, HarnessShape
<1>3. \A t \in HStreams : t # s => hStreams[t].holds = <<>>
  BY DEF SerialInv
<1>4. \A t \in HStreams : t # s => hStreams'[t].holds = <<>>
  BY <1>1, <1>3
<1>5. hStreams'[s].holds = new.holds
  BY <1>1
<1>6. hPhase' \in {"idle", "turn"}
  OBVIOUS
<1>7. \A t \in HStreams : GuardsFit(hStreams'[t])
  BY <1>1 DEF SerialInv
<1>8. \A t, u \in HStreams : hStreams'[t].holds # <<>> /\ hStreams'[u].holds # <<>> => t = u
  BY <1>4
<1>9. hPhase' = "turn" <=> \E t \in HStreams : hStreams'[t].holds # <<>>
  BY <1>4, <1>5
<1>10. hAgent'.running <=> \E t \in HStreams : hStreams'[t].holds = <<"phase", "run">>
  BY <1>4, <1>5, GuardValues
<1>11. ~hAgent'.panicked
  BY DEF SerialInv
<1> QED
  BY <1>2, <1>6, <1>7, <1>8, <1>9, <1>10, <1>11 DEF SerialInv

(* Every step keeps one turn at a time.                                        *)
LEMMA SerialNext == SerialInv /\ [HarnessNext]_hVars => SerialInv'
<1> SUFFICES ASSUME SerialInv, [HarnessNext]_hVars PROVE SerialInv'
  OBVIOUS
<1>0. HarnessShape /\ \A s \in HStreams : GuardsFit(hStreams[s])
  BY DEF SerialInv
<1>1. ASSUME NEW s \in HStreams, PromptMade(s) PROVE SerialInv'
  <2> DEFINE new == [hStreams[s] EXCEPT !.pc = "made", !.handlers = hHandlers,
                                         !.messages = Append(hAgent.messages, "user")]
  <2>1. Becomes(s, new) /\ new.holds = hStreams[s].holds /\ new.pc = "made"
    BY <1>0, <1>1 DEF PromptMade, Becomes, HarnessShape, StreamFields
  <2>2. GuardsFit(new)
    BY <1>0, <1>1, <2>1 DEF PromptMade, GuardsFit, Guards
  <2> QED
    BY <1>1, <2>1, <2>2, SerialOne DEF PromptMade
<1>2. ASSUME NEW s \in HStreams, FirstPoll(s) PROVE SerialInv'
  <2>0. hStreams[s].pc = "made" /\ hStreams[s].holds = <<>> /\ UNCHANGED hAgent
    BY <1>0, <1>2 DEF FirstPoll, GuardsFit
  <2>1. CASE hPhase # "idle"
    <3> DEFINE new == [[hStreams[s] EXCEPT !.watched = ToSet(hObservers)] EXCEPT !.listeners = hObservers]
    <3>1. DOMAIN new = StreamFields /\ new.holds = hStreams[s].holds
      BY <1>0 DEF HarnessShape, StreamFields
    <3>2. EmitTo(hObservers, s, "error", "busy", new) /\ hPhase' = hPhase
      BY <1>2, <2>1 DEF FirstPoll, EmitEvent
    <3> HIDE DEF new
    <3>3. PICK st : Becomes(s, st) /\ st.pc = "busy" /\ st.holds = new.holds
      BY <1>0, <3>1, <3>2, EmitBecomes
    <3>4. GuardsFit(st)
      BY <1>0, <2>0, <3>1, <3>3 DEF GuardsFit, Guards
    <3> QED
      BY <2>0, <3>1, <3>2, <3>3, <3>4, SerialOne
  <2>2. CASE hPhase = "idle"
    <3> DEFINE new == [[hStreams[s] EXCEPT !.watched = ToSet(hObservers)]
                          EXCEPT !.holds = <<"phase">>, !.left = OfKind(hStreams[s].handlers, "start")]
    <3>1. DOMAIN new = StreamFields /\ new.holds = <<"phase">>
      BY <1>0 DEF HarnessShape, StreamFields
    <3>2. EmitTo(hObservers, s, "beforeAgentStart", "start", new) /\ hPhase' = "turn"
      BY <1>0, <1>2, <2>2 DEF FirstPoll, EmitEvent, HarnessShape, StreamFields
    <3> HIDE DEF new
    <3>3. PICK st : Becomes(s, st) /\ st.pc = "start" /\ st.holds = new.holds
      BY <1>0, <3>1, <3>2, EmitBecomes
    <3>4. GuardsFit(st) /\ st.holds # <<>> /\ st.holds # <<"phase", "run">>
      BY <3>1, <3>3, GuardValues DEF GuardsFit, Guards
    <3>5. ~hAgent.running
      BY <2>2, GuardValues DEF SerialInv
    <3>6. hAgent.running \in BOOLEAN
      BY <1>0 DEF HarnessShape
    <3> QED
      BY <2>0, <2>2, <3>2, <3>3, <3>4, <3>5, <3>6, SerialMoves
  <2> QED
    BY <2>1, <2>2
<1>3. ASSUME NEW s \in HStreams, RunHook(s) PROVE SerialInv'
  <2> DEFINE rest == [hStreams[s] EXCEPT !.left = Tail(@)]
  <2>0. /\ hStreams[s].pc \in {"start", "context"} /\ hStreams[s].holds = <<"phase">>
        /\ UNCHANGED <<hAgent, hPhase>>
    BY <1>0, <1>3 DEF RunHook, GuardsFit
  <2>1. DOMAIN rest = StreamFields /\ rest.holds = <<"phase">> /\ rest.pc = hStreams[s].pc
    BY <1>0, <2>0 DEF HarnessShape, StreamFields
  <2>2. CASE EmitEvent(s, "error", "failed", rest)
    <3>0. EmitTo(hObservers, s, "error", "failed", rest)
      BY <2>2 DEF EmitEvent
    <3> HIDE DEF rest
    <3>1. PICK st : Becomes(s, st) /\ st.pc = "failed" /\ st.holds = rest.holds
      BY <1>0, <2>1, <3>0, EmitBecomes
    <3>2. GuardsFit(st)
      BY <2>1, <3>1 DEF GuardsFit, Guards
    <3> QED
      BY <2>0, <2>1, <3>1, <3>2, SerialOne
  <2>3. CASE \E messages : hStreams' = [hStreams EXCEPT ![s] = [rest EXCEPT !.messages = messages]]
    <3>1. PICK messages : hStreams' = [hStreams EXCEPT ![s] = [rest EXCEPT !.messages = messages]]
      BY <2>3
    <3> DEFINE new == [rest EXCEPT !.messages = messages]
    <3>2. Becomes(s, new) /\ new.holds = <<"phase">> /\ new.pc = hStreams[s].pc
      BY <2>1, <3>1 DEF Becomes, StreamFields
    <3>3. GuardsFit(new)
      BY <2>0, <3>2 DEF GuardsFit, Guards
    <3> QED
      BY <2>0, <3>2, <3>3, SerialOne
  <2> QED
    BY <1>3, <2>2, <2>3 DEF RunHook
<1>4. ASSUME NEW s \in HStreams, ToldContext(s) PROVE SerialInv'
  <2> DEFINE new == [hStreams[s] EXCEPT !.left = OfKind(hStreams[s].handlers, "context")]
  <2>1. DOMAIN new = StreamFields /\ new.holds = hStreams[s].holds
    BY <1>0 DEF HarnessShape, StreamFields
  <2>0. EmitTo(hObservers, s, "context", "context", new)
    BY <1>4 DEF ToldContext, EmitEvent
  <2> HIDE DEF new
  <2>2. PICK st : Becomes(s, st) /\ st.pc = "context" /\ st.holds = new.holds
    BY <1>0, <2>0, <2>1, EmitBecomes
  <2>3. GuardsFit(st)
    BY <1>0, <1>4, <2>1, <2>2 DEF ToldContext, GuardsFit, Guards
  <2> QED
    BY <1>4, <2>1, <2>2, <2>3, SerialOne DEF ToldContext
<1>5. ASSUME NEW s \in HStreams, StartRun(s) PROVE SerialInv'
  <2> DEFINE agent == [hAgent EXCEPT !.messages = hStreams[s].messages,
                                     !.hook = IF NeedsHook(hStreams[s].handlers)
                                              THEN ProviderHandlers(hStreams[s].handlers) ELSE @]
  <2>0. hStreams[s].pc = "context" /\ hStreams[s].holds = <<"phase">> /\ hPhase' = hPhase
    BY <1>0, <1>5 DEF StartRun, GuardsFit
  <2>1. /\ DOMAIN agent = DOMAIN hAgent /\ agent.running = hAgent.running
        /\ agent.panicked = hAgent.panicked
    BY <1>0 DEF HarnessShape
  <2>2. CASE hAgent' = agent /\ EmitEvent(s, "error", "failed", hStreams[s])
    <3>1. PICK st : Becomes(s, st) /\ st.pc = "failed" /\ st.holds = hStreams[s].holds
      BY <1>0, <2>2, EmitBecomes DEF EmitEvent, HarnessShape
    <3>2. GuardsFit(st)
      BY <2>0, <3>1 DEF GuardsFit, Guards
    <3> QED
      BY <2>0, <2>1, <2>2, <3>1, <3>2, SerialOne
  <2>3. CASE /\ hAgent' = [agent EXCEPT !.running = TRUE, !.panicked = @ \/ hAgent.running,
                                        !.cancelled = FALSE]
             /\ hStreams' = [hStreams EXCEPT ![s] = [hStreams[s] EXCEPT !.pc = "run",
                                                        !.holds = Append(@, "run")]]
    <3> DEFINE new == [hStreams[s] EXCEPT !.pc = "run", !.holds = Append(@, "run")]
    <3>1. Becomes(s, new) /\ new.pc = "run" /\ new.holds = <<"phase", "run">>
      BY <1>0, <2>0, <2>3, GuardValues DEF Becomes, HarnessShape, StreamFields
    <3>2. GuardsFit(new)
      BY <3>1, GuardValues DEF GuardsFit, Guards
    <3>3. \A t \in HStreams : hStreams[t].holds # <<"phase", "run">>
      BY <2>0, GuardValues DEF SerialInv
    <3>4. ~hAgent.running /\ ~hAgent.panicked
      BY <3>3 DEF SerialInv
    <3>5. /\ DOMAIN hAgent' = DOMAIN hAgent /\ hAgent'.running = TRUE
          /\ hAgent'.panicked = (hAgent.panicked \/ hAgent.running)
      BY <1>0, <2>1, <2>3 DEF HarnessShape
    <3>6. hAgent'.panicked = hAgent.panicked
      BY <1>0, <3>4, <3>5 DEF HarnessShape
    <3>7. hPhase = "turn"
      BY <2>0, GuardValues DEF SerialInv
    <3> QED
      BY <2>0, <3>1, <3>2, <3>5, <3>6, <3>7, GuardValues, SerialMoves
  <2> QED
    BY <1>5, <2>2, <2>3 DEF StartRun
<1>6. ASSUME NEW s \in HStreams, Request(s) \/ AgentEvent(s) PROVE SerialInv'
  <2>1. PICK event, new : /\ DOMAIN new = StreamFields /\ new.holds = hStreams[s].holds
                          /\ EmitTo(hObservers, s, event, "run", new)
    BY <1>0, <1>6 DEF Request, AgentEvent, EmitEvent, HarnessShape, StreamFields
  <2>2. PICK st : Becomes(s, st) /\ st.pc = "run" /\ st.holds = new.holds
    BY <1>0, <2>1, EmitBecomes
  <2>3. hStreams[s].pc = "run" /\ hPhase' = hPhase
    BY <1>6 DEF Request, AgentEvent
  <2>4. GuardsFit(st)
    BY <1>0, <2>1, <2>2, <2>3 DEF GuardsFit, Guards
  <2>5. /\ DOMAIN hAgent' = DOMAIN hAgent /\ hAgent'.running = hAgent.running
        /\ hAgent'.panicked = hAgent.panicked
    BY <1>0, <1>6 DEF Request, AgentEvent, HarnessShape
  <2> QED
    BY <2>1, <2>2, <2>3, <2>4, <2>5, SerialOne
<1>7. ASSUME NEW s \in HStreams, RunEnds(s) PROVE SerialInv'
  <2> DEFINE new == [hStreams[s] EXCEPT !.holds = <<"phase">>, !.answers = <<>>, !.headers = {}]
  <2>0. hStreams[s].pc = "run" /\ hStreams[s].holds = <<"phase", "run">> /\ hPhase' = hPhase
    BY <1>0, <1>7 DEF RunEnds, GuardsFit
  <2>1. DOMAIN new = StreamFields /\ new.holds = <<"phase">>
    BY <1>0 DEF HarnessShape, StreamFields
  <2>6. EmitTo(hObservers, s, "settled", "settled", new)
    BY <1>7 DEF RunEnds, EmitEvent
  <2> HIDE DEF new
  <2>2. PICK st : Becomes(s, st) /\ st.pc = "settled" /\ st.holds = new.holds
    BY <1>0, <2>1, <2>6, EmitBecomes
  <2>3. GuardsFit(st) /\ st.holds # <<>> /\ st.holds # <<"phase", "run">>
    BY <2>1, <2>2, GuardValues DEF GuardsFit, Guards
  <2>4. /\ DOMAIN hAgent' = DOMAIN hAgent /\ hAgent'.running = FALSE
        /\ hAgent'.panicked = hAgent.panicked
    BY <1>0, <1>7 DEF RunEnds, HarnessShape
  <2>5. hPhase = "turn"
    BY <2>0, GuardValues DEF SerialInv
  <2> QED
    BY <2>0, <2>2, <2>3, <2>4, <2>5, GuardValues, SerialMoves
<1>8. ASSUME NEW s \in HStreams, ToldFailure(s) PROVE SerialInv'
  <2>1. hStreams[s].pc \in {"failed", "busy"} /\ UNCHANGED <<hAgent, hPhase>>
    BY <1>8 DEF ToldFailure
  <2>2. PICK st : Becomes(s, st) /\ st.pc = "settled" /\ st.holds = hStreams[s].holds
    BY <1>0, <1>8, EmitBecomes DEF ToldFailure, EmitEvent, HarnessShape
  <2>3. GuardsFit(st)
    BY <1>0, <2>1, <2>2, GuardValues DEF GuardsFit, Guards
  <2> QED
    BY <2>1, <2>2, <2>3, SerialOne
<1>9. ASSUME NEW s \in HStreams, Dropping(s) PROVE SerialInv'
  <2> DEFINE new == [NotMade EXCEPT !.pc = "dropping", !.told = hStreams[s].told,
                        !.holds = hStreams[s].holds, !.watched = hStreams[s].watched]
  <2>1. Becomes(s, new) /\ new.holds = hStreams[s].holds /\ new.pc = "dropping"
    BY <1>9 DEF Dropping, Becomes, NotMade, StreamFields
  <2>2. GuardsFit(new)
    BY <1>0, <2>1 DEF GuardsFit, Guards
  <2> QED
    BY <1>9, <2>1, <2>2, SerialOne DEF Dropping
<1>10. ASSUME NEW s \in HStreams, Release(s) PROVE SerialInv'
  <2> DEFINE new == [hStreams[s] EXCEPT !.holds = SubSeq(@, 1, Len(@) - 1)]
  <2>0. hStreams[s].pc = "dropping" /\ hStreams[s].holds \in Guards /\ hStreams[s].holds # <<>>
    BY <1>0, <1>10 DEF Release, GuardsFit
  <2>1. Becomes(s, new) /\ new.pc = "dropping"
    BY <1>0, <1>10, <2>0 DEF Release, Becomes, HarnessShape, StreamFields
  <2>2. new.holds = SubSeq(hStreams[s].holds, 1, Len(hStreams[s].holds) - 1)
    BY <1>0 DEF HarnessShape, StreamFields
  <2>3. CASE hStreams[s].holds = <<"phase">>
    <3>1. new.holds = <<>> /\ hPhase' = "idle" /\ hAgent' = hAgent
      BY <1>10, <2>2, <2>3, GuardValues DEF Release
    <3>2. GuardsFit(new)
      BY <2>1, <3>1 DEF GuardsFit, Guards
    <3>3. ~hAgent.running
      BY <2>3, GuardValues DEF SerialInv
    <3> QED
      BY <1>0, <2>0, <2>1, <3>1, <3>2, <3>3, GuardValues, SerialMoves DEF HarnessShape
  <2>4. CASE hStreams[s].holds = <<"phase", "run">>
    <3>1. /\ new.holds = <<"phase">> /\ hPhase' = hPhase
          /\ hAgent' = [hAgent EXCEPT !.running = FALSE]
      BY <1>10, <2>2, <2>4, GuardValues DEF Release
    <3>2. GuardsFit(new)
      BY <2>1, <3>1 DEF GuardsFit, Guards
    <3>3. hPhase = "turn"
      BY <2>0 DEF SerialInv
    <3>4. /\ DOMAIN hAgent' = DOMAIN hAgent /\ hAgent'.running = FALSE
          /\ hAgent'.panicked = hAgent.panicked
      BY <1>0, <3>1 DEF HarnessShape
    <3> QED
      BY <2>0, <2>1, <3>1, <3>2, <3>3, <3>4, GuardValues, SerialMoves
  <2> QED
    BY <2>0, <2>3, <2>4 DEF Guards
<1>11. ASSUME OtherCall PROVE SerialInv'
  <2>1. hPhase' = hPhase
    BY <1>11 DEF OtherCall
  <2>2. /\ DOMAIN hAgent' = DOMAIN hAgent /\ hAgent'.running = hAgent.running
        /\ hAgent'.panicked = hAgent.panicked
    BY <1>0, <1>11 DEF OtherCall, AgentCall, HarnessShape
  <2>3. /\ DOMAIN hStreams' = HStreams
        /\ \A s \in HStreams : /\ DOMAIN hStreams'[s] = StreamFields
                               /\ hStreams'[s].holds = hStreams[s].holds
                               /\ hStreams'[s].pc = hStreams[s].pc
    BY <1>0, <1>11 DEF OtherCall, Subscribe, HarnessShape, StreamFields
  <2>4. HarnessShape'
    BY <1>0, <2>2, <2>3 DEF HarnessShape
  <2>5. \A s \in HStreams : GuardsFit(hStreams'[s])
    BY <1>0, <2>3 DEF GuardsFit
  <2> QED
    BY <2>1, <2>2, <2>3, <2>4, <2>5, SerialKept
<1>12. ASSUME UNCHANGED hVars PROVE SerialInv'
  BY <1>12 DEF hVars, SerialInv, HarnessShape
<1> QED
  BY <1>1, <1>2, <1>3, <1>4, <1>5, <1>6, <1>7, <1>8, <1>9, <1>10, <1>11, <1>12 DEF HarnessNext

(* Prompts of one harness are run one at a time: one stream at most holds the phase,  *)
(* the agent runs exactly when that stream runs it, and run() is never called on a    *)
(* running agent, where it would panic (AgentHarness::prompt, PhaseResetOnDrop).      *)
THEOREM SerialCorrect == HarnessSpec => []HarnessSerial
<1>1. ASSUME SerialInv PROVE HarnessSerial
  <2>1. \A s \in HStreams : /\ "phase" \in ToSet(hStreams[s].holds) <=> hStreams[s].holds # <<>>
                            /\ "run" \in ToSet(hStreams[s].holds) <=>
                                    hStreams[s].holds = <<"phase", "run">>
    BY <1>1, GuardValues DEF SerialInv, GuardsFit, Guards
  <2>2. /\ Holding("phase") = {s \in HStreams : hStreams[s].holds # <<>>}
        /\ Holding("run") = {s \in HStreams : hStreams[s].holds = <<"phase", "run">>}
    BY <2>1 DEF Holding
  <2>3. Holding("run") \subseteq Holding("phase")
    BY <2>2, GuardValues
  <2>4. hAgent.running <=> Holding("run") # {}
    BY <1>1, <2>2 DEF SerialInv
  <2>5. Cardinality(Holding("phase")) = IF hPhase = "turn" THEN 1 ELSE 0
    <3>1. CASE hPhase = "turn"
      <4>1. PICK s \in HStreams : hStreams[s].holds # <<>>
        BY <1>1, <3>1 DEF SerialInv
      <4>2. Holding("phase") = {s}
        BY <1>1, <2>2, <4>1 DEF SerialInv
      <4> QED
        BY <3>1, <4>2, FS_Singleton
    <3>2. CASE hPhase # "turn"
      <4>1. Holding("phase") = {}
        BY <1>1, <2>2, <3>2 DEF SerialInv
      <4> QED
        BY <3>2, <4>1, FS_EmptySet
    <3> QED
      BY <3>1, <3>2
  <2> QED
    BY <1>1, <2>3, <2>4, <2>5 DEF HarnessSerial, SerialInv
<1> QED
  BY <1>1, InitSerial, SerialNext, PTL DEF HarnessSpec

(***************************************************************************)
(* What observers hear.                                                     *)
(***************************************************************************)
Events == {"error", "beforeAgentStart", "context", "request", "agent", "toolCall",
           "sessionCompact", "settled"}

\* What is known of a stream and of those who have observed it from its first poll on:
\* they still observe, a stream that was refused has kept them, nobody has heard of a
\* stream that was not polled, and a stream that has not ended has not settled.
Heard(s) ==
    LET st == hStreams[s] IN
    /\ st.told \in Seq(Events)
    /\ st.watched \subseteq ToSet(hObservers)
    /\ st.pc = "busy" => st.watched \subseteq ToSet(st.listeners)
    /\ st.pc \in {"none", "made"} =>
            st.told = <<>> /\ st.watched = {} /\ \A o \in HObservers : hSeen[o][s] = <<>>
    /\ \A o \in st.watched : hSeen[o][s] = st.told
    /\ st.pc \notin {"settled", "dropping"} => \A i \in 1..Len(st.told) : st.told[i] # "settled"
    /\ \A i \in 1..Len(st.told) : st.told[i] = "settled" => i = Len(st.told)
    /\ st.pc = "settled" => Last(st.told) = "settled"

HeardInv ==
    /\ DOMAIN hSeen = HObservers
    /\ \A o \in HObservers : DOMAIN hSeen[o] = HStreams
    /\ hObservers \in Seq(HObservers)
    /\ \A s \in HStreams : Heard(s)

(* Nothing is told in the first state.                                       *)
LEMMA InitHeard == HarnessInit => HeardInv
<1> SUFFICES ASSUME HarnessInit PROVE HeardInv
  OBVIOUS
<1>1. \A s \in HStreams : /\ hStreams[s].pc = "none" /\ hStreams[s].told = <<>>
                          /\ hStreams[s].watched = {}
                          /\ \A o \in HObservers : hSeen[o][s] = <<>>
  BY DEF HarnessInit, NotMade
<1>2. ASSUME NEW s \in HStreams PROVE Heard(s)
  <2>1. <<>> \in Seq(Events) /\ \A i \in 1..Len(<<>>) : FALSE
    OBVIOUS
  <2> QED
    BY <1>1, <2>1 DEF Heard
<1> QED
  BY <1>2 DEF HarnessInit, HeardInv

(* A step of one stream that tells nothing.                                  *)
LEMMA HeardQuiet ==
    ASSUME HarnessShape, HeardInv, NEW s \in HStreams, NEW new, Becomes(s, new),
           UNCHANGED <<hObservers, hSeen>>,
           new.told = hStreams[s].told, new.watched = hStreams[s].watched,
           \/ new.pc \in {"dropping"}
           \/ new.pc = hStreams[s].pc /\ new.listeners = hStreams[s].listeners
           \/ hStreams[s].pc = "none" /\ new.pc = "made"
           \/ hStreams[s].pc = "context" /\ new.pc = "run"
    PROVE  HeardInv'
<1>1. \A t \in HStreams : hStreams'[t] = IF t = s THEN new ELSE hStreams[t]
  BY DEF Becomes, HarnessShape
<1>2. ASSUME NEW t \in HStreams, t # s PROVE Heard(t)'
  BY <1>1, <1>2 DEF HeardInv, Heard
<1>3. Heard(s)'
  BY <1>1 DEF HeardInv, Heard
<1> QED
  BY <1>2, <1>3 DEF HeardInv

\* A stream that has not settled may tell an event and go on at pc.
MayTell(before, event, pc) ==
    /\ event \in Events
    /\ before \notin {"settled", "dropping"} /\ pc \notin {"none", "made", "dropping"}
    /\ pc = "settled" <=> event = "settled"

(* An event that a stream tells is heard by all who watch it.                  *)
LEMMA HeardTold ==
    ASSUME HarnessShape, HeardInv, NEW s \in HStreams, NEW listeners, NEW event, NEW pc, NEW new,
           DOMAIN new = StreamFields,
           EmitTo(listeners, s, event, pc, new), hObservers' = hObservers,
           new.told = hStreams[s].told,
           new.watched \subseteq ToSet(listeners), new.watched \subseteq ToSet(hObservers),
           \A o \in new.watched : hSeen[o][s] = hStreams[s].told,
           pc = "busy" => new.watched \subseteq ToSet(new.listeners),
           MayTell(hStreams[s].pc, event, pc)
    PROVE  HeardInv'
<1>1. PICK st : /\ Becomes(s, st) /\ st.pc = pc /\ st.told = Append(hStreams[s].told, event)
                /\ st.watched = new.watched /\ st.listeners = new.listeners
  BY EmitBecomes
<1>2. \A t \in HStreams : hStreams'[t] = IF t = s THEN st ELSE hStreams[t]
  BY <1>1 DEF Becomes, HarnessShape
<1>3. /\ DOMAIN hSeen' = HObservers /\ \A o \in HObservers : DOMAIN hSeen'[o] = HStreams
      /\ \A o \in HObservers, t \in HStreams : t # s => hSeen'[o][t] = hSeen[o][t]
      /\ \A o \in HObservers : o \in ToSet(listeners) => hSeen'[o][s] = Append(hSeen[o][s], event)
  BY DEF EmitTo, HeardInv
<1>4. ToSet(hObservers) \subseteq HObservers
  BY DEF HeardInv, ToSet
<1>5. ASSUME NEW t \in HStreams, t # s PROVE Heard(t)'
  <2>1. hStreams'[t] = hStreams[t] /\ Heard(t)
    BY <1>2, <1>5 DEF HeardInv
  <2> QED
    BY <1>3, <1>4, <1>5, <2>1 DEF Heard
<1>6. Heard(s)'
  <2>1. hStreams[s].told \in Seq(Events) /\ \A i \in 1..Len(hStreams[s].told) : hStreams[s].told[i] # "settled"
    BY DEF HeardInv, Heard, MayTell
  <2>2. /\ st.told \in Seq(Events) /\ Len(st.told) = Len(hStreams[s].told) + 1
        /\ st.told[Len(st.told)] = event
        /\ \A i \in 1..Len(hStreams[s].told) : st.told[i] = hStreams[s].told[i]
    BY <1>1, <2>1 DEF MayTell, Events
  <2>3. \A o \in st.watched : hSeen'[o][s] = st.told
    BY <1>1, <1>3, <1>4
  <2>4. /\ pc # "settled" => \A i \in 1..Len(st.told) : st.told[i] # "settled"
        /\ \A i \in 1..Len(st.told) : st.told[i] = "settled" => i = Len(st.told)
        /\ pc = "settled" => Last(st.told) = "settled"
    <3>1. Len(hStreams[s].told) \in Nat
      BY <2>1
    <3>2. \A i \in 1..Len(st.told) : i = Len(st.told) \/ i \in 1..Len(hStreams[s].told)
      BY <2>2, <3>1
    <3>3. \A i \in 1..Len(hStreams[s].told) : st.told[i] # "settled"
      BY <2>1, <2>2
    <3> QED
      BY <2>2, <3>2, <3>3 DEF Last, MayTell
  <2>5. hStreams'[s] = st
    BY <1>2
  <2> QED
    BY <1>1, <2>2, <2>3, <2>4, <2>5 DEF Heard, MayTell
<1> QED
  BY <1>3, <1>5, <1>6 DEF HeardInv

(* What a stream that is under way tells is heard by those who watch it, if they are   *)
(* its observers or the ones it kept.                                                *)
LEMMA HeardOn ==
    ASSUME HarnessShape, HeardInv, NEW s \in HStreams, NEW event, NEW pc, NEW new,
           DOMAIN new = StreamFields, EmitTo(hObservers, s, event, pc, new),
           hObservers' = hObservers, new.told = hStreams[s].told,
           new.watched = hStreams[s].watched,
           MayTell(hStreams[s].pc, event, pc), pc # "busy"
    PROVE  HeardInv'
<1>1. /\ new.watched \subseteq ToSet(hObservers)
      /\ \A o \in new.watched : hSeen[o][s] = hStreams[s].told
  BY DEF HeardInv, Heard
<1> QED
  BY <1>1, HeardTold

(* Every step keeps observers informed.                                        *)
LEMMA HeardNext == HarnessShape /\ HeardInv /\ [HarnessNext]_hVars => HeardInv'
<1> SUFFICES ASSUME HarnessShape, HeardInv, [HarnessNext]_hVars PROVE HeardInv'
  OBVIOUS
<1>1. ASSUME NEW s \in HStreams, PromptMade(s) PROVE HeardInv'
  <2> DEFINE new == [hStreams[s] EXCEPT !.pc = "made", !.handlers = hHandlers,
                                         !.messages = Append(hAgent.messages, "user")]
  <2>1. /\ Becomes(s, new) /\ new.pc = "made" /\ hStreams[s].pc = "none"
        /\ new.told = hStreams[s].told /\ new.watched = hStreams[s].watched
    BY <1>1 DEF PromptMade, Becomes, HarnessShape, StreamFields
  <2>2. UNCHANGED <<hObservers, hSeen>>
    BY <1>1 DEF PromptMade
  <2> HIDE DEF new
  <2> QED
    BY <2>1, <2>2, HeardQuiet
<1>2. ASSUME NEW s \in HStreams, FirstPoll(s) PROVE HeardInv'
  <2>0. /\ hStreams[s].pc = "made" /\ hStreams[s].told = <<>> /\ hObservers' = hObservers
        /\ \A o \in HObservers : hSeen[o][s] = <<>>
    BY <1>2 DEF FirstPoll, HeardInv, Heard
  <2>1. ToSet(hObservers) \subseteq HObservers
    BY DEF HeardInv, ToSet
  <2>2. CASE hPhase # "idle"
    <3> DEFINE new == [[hStreams[s] EXCEPT !.watched = ToSet(hObservers)] EXCEPT !.listeners = hObservers]
    <3>1. /\ DOMAIN new = StreamFields /\ new.told = hStreams[s].told
          /\ new.watched = ToSet(hObservers) /\ new.listeners = hObservers
      BY DEF HarnessShape, StreamFields
    <3>2. EmitTo(hObservers, s, "error", "busy", new)
      BY <1>2, <2>2 DEF FirstPoll, EmitEvent
    <3> HIDE DEF new
    <3>3. MayTell(hStreams[s].pc, "error", "busy")
      BY <2>0 DEF MayTell, Events
    <3>4. \A o \in new.watched : hSeen[o][s] = hStreams[s].told
      BY <2>0, <2>1, <3>1
    <3> QED
      BY <2>0, <3>1, <3>2, <3>3, <3>4, HeardTold
  <2>3. CASE hPhase = "idle"
    <3> DEFINE new == [[hStreams[s] EXCEPT !.watched = ToSet(hObservers)]
                          EXCEPT !.holds = <<"phase">>, !.left = OfKind(hStreams[s].handlers, "start")]
    <3>1. /\ DOMAIN new = StreamFields /\ new.told = hStreams[s].told
          /\ new.watched = ToSet(hObservers)
      BY DEF HarnessShape, StreamFields
    <3>2. EmitTo(hObservers, s, "beforeAgentStart", "start", new)
      BY <1>2, <2>3 DEF FirstPoll, EmitEvent, HarnessShape, StreamFields
    <3> HIDE DEF new
    <3>3. MayTell(hStreams[s].pc, "beforeAgentStart", "start")
      BY <2>0 DEF MayTell, Events
    <3>4. \A o \in new.watched : hSeen[o][s] = hStreams[s].told
      BY <2>0, <2>1, <3>1
    <3> QED
      BY <2>0, <3>1, <3>2, <3>3, <3>4, HeardTold
  <2> QED
    BY <2>2, <2>3
<1>3. ASSUME NEW s \in HStreams, RunHook(s) PROVE HeardInv'
  <2> DEFINE rest == [hStreams[s] EXCEPT !.left = Tail(@)]
  <2>0. hStreams[s].pc \in {"start", "context"} /\ hObservers' = hObservers
    BY <1>3 DEF RunHook
  <2>1. /\ DOMAIN rest = StreamFields /\ rest.told = hStreams[s].told /\ rest.pc = hStreams[s].pc
        /\ rest.watched = hStreams[s].watched /\ rest.listeners = hStreams[s].listeners
    BY DEF HarnessShape, StreamFields
  <2>2. CASE EmitTo(hObservers, s, "error", "failed", rest)
    <3> HIDE DEF rest
    <3>1. MayTell(hStreams[s].pc, "error", "failed")
      BY <2>0 DEF MayTell, Events
    <3> QED
      BY <2>0, <2>1, <2>2, <3>1, HeardOn
  <2>3. CASE /\ \E messages : hStreams' = [hStreams EXCEPT ![s] = [rest EXCEPT !.messages = messages]]
             /\ UNCHANGED hSeen
    <3>1. PICK messages : hStreams' = [hStreams EXCEPT ![s] = [rest EXCEPT !.messages = messages]]
      BY <2>3
    <3> DEFINE new == [rest EXCEPT !.messages = messages]
    <3>2. /\ Becomes(s, new) /\ new.told = hStreams[s].told /\ new.pc = hStreams[s].pc
          /\ new.watched = hStreams[s].watched /\ new.listeners = hStreams[s].listeners
      BY <2>1, <3>1 DEF Becomes, StreamFields
    <3> HIDE DEF new
    <3> QED
      BY <2>0, <2>3, <3>2, HeardQuiet
  <2> QED
    BY <1>3, <2>2, <2>3 DEF RunHook, EmitEvent
<1>4. ASSUME NEW s \in HStreams, ToldContext(s) PROVE HeardInv'
  <2> DEFINE new == [hStreams[s] EXCEPT !.left = OfKind(hStreams[s].handlers, "context")]
  <2>1. /\ DOMAIN new = StreamFields /\ new.told = hStreams[s].told
        /\ new.watched = hStreams[s].watched
    BY DEF HarnessShape, StreamFields
  <2>2. /\ EmitTo(hObservers, s, "context", "context", new)
        /\ hStreams[s].pc = "start" /\ hObservers' = hObservers
    BY <1>4 DEF ToldContext, EmitEvent
  <2> HIDE DEF new
  <2>3. MayTell(hStreams[s].pc, "context", "context")
    BY <2>2 DEF MayTell, Events
  <2> QED
    BY <2>1, <2>2, <2>3, HeardOn
<1>5. ASSUME NEW s \in HStreams, StartRun(s) PROVE HeardInv'
  <2>0. hStreams[s].pc = "context" /\ hObservers' = hObservers
    BY <1>5 DEF StartRun
  <2>1. CASE EmitTo(hObservers, s, "error", "failed", hStreams[s])
    <3>1. MayTell(hStreams[s].pc, "error", "failed")
      BY <2>0 DEF MayTell, Events
    <3> QED
      BY <2>0, <2>1, <3>1, HeardOn DEF HarnessShape
  <2>2. CASE /\ hStreams' = [hStreams EXCEPT ![s] = [hStreams[s] EXCEPT !.pc = "run",
                                                        !.holds = Append(@, "run")]]
             /\ UNCHANGED hSeen
    <3> DEFINE new == [hStreams[s] EXCEPT !.pc = "run", !.holds = Append(@, "run")]
    <3>1. /\ Becomes(s, new) /\ new.pc = "run" /\ new.told = hStreams[s].told
          /\ new.watched = hStreams[s].watched
      BY <2>2 DEF Becomes, HarnessShape, StreamFields
    <3> HIDE DEF new
    <3> QED
      BY <2>0, <2>2, <3>1, HeardQuiet
  <2> QED
    BY <1>5, <2>1, <2>2 DEF StartRun, EmitEvent
<1>6. ASSUME NEW s \in HStreams, Request(s) \/ AgentEvent(s) PROVE HeardInv'
  <2>1. PICK event, new :
            /\ event \in {"request", "agent", "toolCall", "sessionCompact"}
            /\ DOMAIN new = StreamFields /\ new.told = hStreams[s].told
            /\ new.watched = hStreams[s].watched
            /\ EmitTo(hObservers, s, event, "run", new)
    <3>1. CASE Request(s)
      <4>1. PICK step : EmitEvent(s, "request", "run",
                [hStreams[s] EXCEPT !.events = @ + 1, !.answers = step.answers, !.headers = step.headers])
        <5>1. PICK answers : EmitEvent(s, "request", "run",
                    [hStreams[s] EXCEPT !.events = @ + 1,
                        !.answers = [i \in DOMAIN hAgent.hook |-> <<hAgent.hook[i], answers[i]>>],
                        !.headers = PatchedHeaders(hAgent.hook, answers)])
          BY <3>1 DEF Request
        <5> DEFINE told == [answers |-> [i \in DOMAIN hAgent.hook |-> <<hAgent.hook[i], answers[i]>>],
                            headers |-> PatchedHeaders(hAgent.hook, answers)]
        <5> WITNESS told
        <5> QED
          BY <5>1
      <4> DEFINE new == [hStreams[s] EXCEPT !.events = @ + 1, !.answers = step.answers,
                                            !.headers = step.headers]
      <4>2. DOMAIN new = StreamFields /\ new.told = hStreams[s].told /\ new.watched = hStreams[s].watched
        BY DEF HarnessShape, StreamFields
      <4>3. EmitTo(hObservers, s, "request", "run", new)
        BY <4>1 DEF EmitEvent
      <4> HIDE DEF new
      <4> QED
        BY <4>2, <4>3
    <3>2. CASE AgentEvent(s)
      <4>1. PICK event \in {"agent", "toolCall", "sessionCompact"} :
                EmitEvent(s, event, "run", [hStreams[s] EXCEPT !.events = @ + 1])
        BY <3>2 DEF AgentEvent
      <4> DEFINE new == [hStreams[s] EXCEPT !.events = @ + 1]
      <4>2. DOMAIN new = StreamFields /\ new.told = hStreams[s].told /\ new.watched = hStreams[s].watched
        BY DEF HarnessShape, StreamFields
      <4>3. EmitTo(hObservers, s, event, "run", new)
        BY <4>1 DEF EmitEvent
      <4> HIDE DEF new
      <4> QED
        BY <4>2, <4>3
    <3> QED
      BY <1>6, <3>1, <3>2
  <2>2. hStreams[s].pc = "run" /\ hObservers' = hObservers
    BY <1>6 DEF Request, AgentEvent
  <2>3. MayTell(hStreams[s].pc, event, "run")
    BY <2>1, <2>2 DEF MayTell, Events
  <2> QED
    BY <2>1, <2>2, <2>3, HeardOn
<1>7. ASSUME NEW s \in HStreams, RunEnds(s) PROVE HeardInv'
  <2> DEFINE new == [hStreams[s] EXCEPT !.holds = <<"phase">>, !.answers = <<>>, !.headers = {}]
  <2>1. /\ DOMAIN new = StreamFields /\ new.told = hStreams[s].told
        /\ new.watched = hStreams[s].watched
    BY DEF HarnessShape, StreamFields
  <2>2. /\ EmitTo(hObservers, s, "settled", "settled", new)
        /\ hStreams[s].pc = "run" /\ hObservers' = hObservers
    BY <1>7 DEF RunEnds, EmitEvent
  <2> HIDE DEF new
  <2>3. MayTell(hStreams[s].pc, "settled", "settled")
    BY <2>2 DEF MayTell, Events
  <2> QED
    BY <2>1, <2>2, <2>3, HeardOn
<1>8. ASSUME NEW s \in HStreams, ToldFailure(s) PROVE HeardInv'
  <2>0. hObservers' = hObservers /\ DOMAIN hStreams[s] = StreamFields
    BY <1>8 DEF ToldFailure, HarnessShape
  <2>1. CASE hStreams[s].pc = "failed" /\ EmitTo(hObservers, s, "settled", "settled", hStreams[s])
    <3>1. MayTell(hStreams[s].pc, "settled", "settled")
      BY <2>1 DEF MayTell, Events
    <3> QED
      BY <2>0, <2>1, <3>1, HeardOn
  <2>2. CASE /\ hStreams[s].pc = "busy"
             /\ EmitTo(hStreams[s].listeners, s, "settled", "settled", hStreams[s])
    <3>1. /\ hStreams[s].watched \subseteq ToSet(hStreams[s].listeners)
          /\ hStreams[s].watched \subseteq ToSet(hObservers)
          /\ \A o \in hStreams[s].watched : hSeen[o][s] = hStreams[s].told
      BY <2>2 DEF HeardInv, Heard
    <3>2. MayTell(hStreams[s].pc, "settled", "settled")
      BY <2>2 DEF MayTell, Events
    <3> QED
      BY <2>0, <2>2, <3>1, <3>2, HeardTold
  <2> QED
    BY <1>8, <2>1, <2>2 DEF ToldFailure, EmitEvent
<1>9. ASSUME NEW s \in HStreams, Dropping(s) PROVE HeardInv'
  <2> DEFINE new == [NotMade EXCEPT !.pc = "dropping", !.told = hStreams[s].told,
                        !.holds = hStreams[s].holds, !.watched = hStreams[s].watched]
  <2>1. /\ Becomes(s, new) /\ new.pc = "dropping" /\ new.told = hStreams[s].told
        /\ new.watched = hStreams[s].watched
    BY <1>9 DEF Dropping, Becomes, NotMade, StreamFields
  <2>2. UNCHANGED <<hObservers, hSeen>>
    BY <1>9 DEF Dropping
  <2> HIDE DEF new
  <2> QED
    BY <2>1, <2>2, HeardQuiet
<1>10. ASSUME NEW s \in HStreams, Release(s) PROVE HeardInv'
  <2> DEFINE new == [hStreams[s] EXCEPT !.holds = SubSeq(@, 1, Len(@) - 1)]
  <2>1. /\ Becomes(s, new) /\ new.pc = hStreams[s].pc /\ new.told = hStreams[s].told
        /\ new.watched = hStreams[s].watched /\ new.listeners = hStreams[s].listeners
    BY <1>10 DEF Release, Becomes, HarnessShape, StreamFields
  <2>2. UNCHANGED <<hObservers, hSeen>>
    BY <1>10 DEF Release
  <2> HIDE DEF new
  <2> QED
    BY <2>1, <2>2, HeardQuiet
<1>11. ASSUME OtherCall PROVE HeardInv'
  <2>0. hSeen' = hSeen /\ hObservers \in Seq(HObservers)
    BY <1>11 DEF OtherCall, HeardInv
  <2>1. CASE UNCHANGED <<hStreams, hObservers>>
    BY <2>0, <2>1 DEF HeardInv, Heard
  <2>2. ASSUME NEW o \in HObservers, hObservers' = Append(hObservers, o), hStreams' = hStreams
        PROVE  HeardInv'
    <3>1. hObservers' \in Seq(HObservers) /\ ToSet(hObservers) \subseteq ToSet(hObservers')
      BY <2>0, <2>2 DEF ToSet
    <3>2. \A s \in HStreams : Heard(s)'
      BY <2>0, <2>2, <3>1 DEF HeardInv, Heard
    <3> QED
      BY <2>0, <3>1, <3>2 DEF HeardInv
  <2>3. ASSUME NEW i \in DOMAIN hObservers, hObservers' = RemoveAt(hObservers, i),
               hStreams' = [s \in HStreams |-> [hStreams[s] EXCEPT !.watched = @ \ {hObservers[i]}]]
        PROVE  HeardInv'
    <3>1. /\ hObservers' \in Seq(HObservers)
          /\ ToSet(hObservers) \ {hObservers[i]} \subseteq ToSet(hObservers')
      <4> DEFINE n == Len(hObservers)
                 front == SubSeq(hObservers, 1, i - 1)
                 back == SubSeq(hObservers, i + 1, n)
      <4>1. n \in Nat /\ i \in 1..n
        BY <2>0, <2>3
      <4>2. /\ front \in Seq(HObservers) /\ Len(front) = i - 1
            /\ \A j \in 1..(i - 1) : front[j] = hObservers[j]
        BY <2>0, <4>1
      <4>3. /\ back \in Seq(HObservers) /\ Len(back) = n - i
            /\ \A j \in 1..(n - i) : back[j] = hObservers[i + j]
        BY <2>0, <4>1
      <4>4. hObservers' = front \o back
        BY <2>3 DEF RemoveAt
      <4> HIDE DEF front, back
      <4>5. /\ hObservers' \in Seq(HObservers) /\ Len(hObservers') = n - 1
            /\ \A j \in 1..(i - 1) : hObservers'[j] = hObservers[j]
            /\ \A j \in 1..(n - i) : hObservers'[i - 1 + j] = hObservers[i + j]
        <5>1. /\ hObservers' \in Seq(HObservers) /\ Len(hObservers') = Len(front) + Len(back)
              /\ \A j \in 1..Len(hObservers') : hObservers'[j] =
                      IF j <= Len(front) THEN front[j] ELSE back[j - Len(front)]
          <6>1. front \in Seq(HObservers) /\ back \in Seq(HObservers)
            BY <4>2, <4>3
          <6>2. /\ front \o back \in Seq(HObservers) /\ Len(front \o back) = Len(front) + Len(back)
                /\ \A j \in 1..Len(front) + Len(back) : (front \o back)[j] =
                        IF j <= Len(front) THEN front[j] ELSE back[j - Len(front)]
            BY <6>1, ConcatProperties, Zenon
          <6> QED
            BY <4>4, <6>2, Zenon
        <5>2. Len(hObservers') = n - 1
          BY <4>1, <4>2, <4>3, <5>1
        <5>3. ASSUME NEW j \in 1..(i - 1) PROVE hObservers'[j] = hObservers[j]
          BY <4>1, <4>2, <5>1, <5>2
        <5>4. ASSUME NEW j \in 1..(n - i) PROVE hObservers'[i - 1 + j] = hObservers[i + j]
          <6>1. i - 1 + j \in 1..(n - 1) /\ ~(i - 1 + j <= i - 1) /\ (i - 1 + j) - (i - 1) = j
            BY <4>1
          <6> QED
            BY <4>2, <4>3, <5>1, <5>2, <6>1
        <5> QED
          BY <5>1, <5>2, <5>3, <5>4
      <4>6. ASSUME NEW j \in 1..n, j # i PROVE \E k \in 1..(n - 1) : hObservers'[k] = hObservers[j]
        <5>1. CASE j < i
          BY <4>1, <4>5, <5>1
        <5>2. CASE j > i
          <6>1. j - i \in 1..(n - i) /\ j - 1 \in 1..(n - 1)
            BY <4>1, <5>2
          <6>2. i - 1 + (j - i) = j - 1 /\ i + (j - i) = j
            BY <4>1
          <6> QED
            BY <4>5, <6>1, <6>2
        <5> QED
          BY <4>1, <4>6, <5>1, <5>2
      <4> QED
        BY <2>0, <4>1, <4>5, <4>6 DEF ToSet
    <3>2. ASSUME NEW s \in HStreams PROVE Heard(s)'
      <4>1. /\ hStreams'[s].watched = hStreams[s].watched \ {hObservers[i]}
            /\ hStreams'[s].pc = hStreams[s].pc /\ hStreams'[s].told = hStreams[s].told
            /\ hStreams'[s].listeners = hStreams[s].listeners
        BY <2>3 DEF HarnessShape, StreamFields
      <4> QED
        BY <2>0, <3>1, <4>1 DEF HeardInv, Heard
    <3> QED
      BY <2>0, <3>1, <3>2 DEF HeardInv
  <2> QED
    BY <1>11, <2>1, <2>2, <2>3 DEF OtherCall, OnHandler, Subscribe
<1>12. ASSUME UNCHANGED hVars PROVE HeardInv'
  BY <1>12 DEF hVars, HeardInv, Heard
<1> QED
  BY <1>1, <1>2, <1>3, <1>4, <1>5, <1>6, <1>7, <1>8, <1>9, <1>10, <1>11, <1>12 DEF HarnessNext

(* An observer that is there from a stream's first poll on hears exactly the events    *)
(* the stream yields, also those of a stream that was refused, and Settled once and    *)
(* last, wherever the stream is dropped and whoever else comes and goes (subscribe,    *)
(* emit! of AgentHarness::prompt).                                                     *)
THEOREM ObserversCorrect == HarnessSpec => []ObserversTold
<1>1. ASSUME HeardInv PROVE ObserversTold
  <2>1. ASSUME NEW s \in HStreams PROVE DOMAIN hStreams[s].told = 1..Len(hStreams[s].told)
    BY <1>1 DEF HeardInv, Heard
  <2> QED
    BY <1>1, <2>1 DEF HeardInv, Heard, ObserversTold
<1>2. SerialInv => HarnessShape
  BY DEF SerialInv
<1> QED
  BY <1>1, <1>2, InitSerial, SerialNext, InitHeard, HeardNext, PTL DEF HarnessSpec

(***************************************************************************)
(* What the handlers of a request make of its headers.                       *)
(***************************************************************************)
Names(hook) == SUBSET (HHeaders \X {hook[i].id : i \in 1..Len(hook)})

\* What the i-th handler makes of the headers it finds.
Step(hook, kind, answers, i, h) ==
    IF hook[i].kind # kind \/ answers[i].kind = "none" THEN h
    ELSE ApplyHeaderPatch(h, answers[i], hook[i].id)

(* A patch of names that may be set leaves headers that may be set.              *)
LEMMA PatchKeeps ==
    ASSUME NEW N, NEW I, NEW h \in SUBSET (N \X I), NEW patch, patch.names \subseteq N, NEW id \in I
    PROVE  ApplyHeaderPatch(h, patch, id) \in SUBSET (N \X I)
BY DEF ApplyHeaderPatch, Headers

\* over holds the headers after each of the handlers.
RunBy(over, hook, kind, answers, base) ==
    /\ over \in [0..Len(hook) -> Names(hook)] /\ over[0] = base
    /\ \A i \in 1..Len(hook) : over[i] = Step(hook, kind, answers, i, over[i - 1])
    /\ RunHandlers(hook, kind, answers, base) = over[Len(hook)]

(* The handlers of a kind, one after the other (make_provider_request_hook).       *)
LEMMA RunHandlersSteps ==
    ASSUME NEW hook, Len(hook) \in Nat, NEW kind, NEW base \in Names(hook),
           NEW answers, \A i \in 1..Len(hook) : answers[i].names \subseteq HHeaders
    PROVE  \E over : RunBy(over, hook, kind, answers, base)
<1> DEFINE n == Len(hook)
           S == Names(hook)
           step == [p \in (1..n) \X S |-> Step(hook, kind, answers, p[1], p[2])]
<1>1. step \in [(1..n) \X S -> S]
  <2>1. ASSUME NEW i \in 1..n, NEW h \in S PROVE Step(hook, kind, answers, i, h) \in S
    BY <2>1, PatchKeeps DEF Step, Names
  <2>2. ASSUME NEW p \in (1..n) \X S PROVE Step(hook, kind, answers, p[1], p[2]) \in S
    <3>1. p[1] \in 1..n /\ p[2] \in S
      OBVIOUS
    <3> HIDE DEF S, n
    <3> QED
      BY <2>1, <3>1
  <2> HIDE DEF S
  <2> QED
    BY <2>2
<1>2. PICK f \in [0..n -> S] : f[0] = base /\ \A i \in 1..n : f[i] = step[<<i, f[i - 1]>>]
  <2>1. base \in S /\ n \in Nat
    OBVIOUS
  <2> HIDE DEF step, S, n
  <2>2. \E f : BuiltBy(f, S, base, n, step)
    BY <1>1, <2>1, Iterates
  <2> QED
    BY <2>2 DEF BuiltBy
<1>3. \A i \in 1..n : f[i] = Step(hook, kind, answers, i, f[i - 1])
  <2> TAKE i \in 1..n
  <2>1. i - 1 \in 0..n
    OBVIOUS
  <2>2. f[i - 1] \in S
    BY <2>1
  <2> HIDE DEF S
  <2>3. step[<<i, f[i - 1]>>] = Step(hook, kind, answers, i, f[i - 1])
    BY <2>2
  <2> HIDE DEF step
  <2> QED
    BY <1>2, <2>3
<1> DEFINE Built(g) == g = [i \in 0..n |->
                IF i = 0 THEN base
                ELSE IF hook[i].kind # kind \/ answers[i].kind = "none" THEN g[i - 1]
                ELSE ApplyHeaderPatch(g[i - 1], answers[i], hook[i].id)]
<1>4. Built(f)
  <2>1. ASSUME NEW i \in 0..n
        PROVE  f[i] = IF i = 0 THEN base
                      ELSE IF hook[i].kind # kind \/ answers[i].kind = "none" THEN f[i - 1]
                      ELSE ApplyHeaderPatch(f[i - 1], answers[i], hook[i].id)
    <3>1. CASE i = 0
      BY <1>2, <3>1
    <3>2. CASE i # 0
      <4>1. i \in 1..n
        BY <3>2
      <4> QED
        BY <1>3, <3>2, <4>1 DEF Step
    <3> QED
      BY <3>1, <3>2
  <2> HIDE DEF S
  <2> QED
    BY <2>1
<1> DEFINE over == CHOOSE g : Built(g)
<1>5. Built(over)
  BY <1>4
<1>6. RunHandlers(hook, kind, answers, base) = over[n]
  BY Zenon DEF RunHandlers
<1>7. over[0] = base
  <2> HIDE DEF over
  <2> QED
    BY <1>5
<1>8. ASSUME NEW i \in 1..n PROVE over[i] = Step(hook, kind, answers, i, over[i - 1])
  <2> HIDE DEF over
  <2>1. i \in 0..n /\ i # 0
    OBVIOUS
  <2> QED
    BY <1>5, <2>1 DEF Step
<1>9. ASSUME NEW i \in 0..n PROVE over[i] = f[i]
  <2> DEFINE Differ == {k \in 0..n : over[k] # f[k]}
  <2>1. SUFFICES ASSUME Differ # {} PROVE FALSE
    OBVIOUS
  <2>2. Differ \in SUBSET Nat
    OBVIOUS
  <2>3. PICK k \in Differ : \A j \in Differ : k <= j
    <3> HIDE DEF Differ
    <3> QED
      BY <2>1, <2>2, NatLeast
  <2> HIDE DEF over, S
  <2>4. CASE k = 0
    BY <1>2, <1>7, <2>3, <2>4
  <2>5. CASE k # 0
    <3>1. k \in 1..n /\ k - 1 \in 0..n /\ ~(k <= k - 1)
      BY <2>3, <2>5
    <3>2. over[k - 1] = f[k - 1]
      BY <2>3, <3>1
    <3> QED
      BY <1>3, <1>8, <2>3, <3>1, <3>2
  <2> QED
    BY <2>4, <2>5
<1> HIDE DEF over, S
<1>10. over = f
  <2>1. over = [i \in 0..n |-> over[i]]
    <3>1. DOMAIN over = 0..n
      BY <1>5
    <3>2. over = [i \in 0..n |->
                IF i = 0 THEN base
                ELSE IF hook[i].kind # kind \/ answers[i].kind = "none" THEN over[i - 1]
                ELSE ApplyHeaderPatch(over[i - 1], answers[i], hook[i].id)]
      BY <1>5
    <3> HIDE DEF Built
    <3> QED
      BY <3>1, <3>2
  <2> QED
    BY <1>9, <2>1
<1> QED
  BY <1>2, <1>3, <1>6, <1>10 DEF S, RunBy

\* What the patch says of the headers that are sent.
Stands(patch, id, sent) ==
    /\ \A n \in patch.names : <<n, id>> \in sent
    /\ \A h \in sent : h[1] \notin patch.removed
    /\ patch.kind \in {"set", "clear"} => {h[1] : h \in sent} = patch.names

(* A patch stands right after it was applied.                                     *)
LEMMA PatchStandsNow ==
    ASSUME NEW base, NEW id, NEW patch \in Answers("request"), patch.kind # "none"
    PROVE  Stands(patch, id, ApplyHeaderPatch(base, patch, id))
<1>1. patch \in HeaderPatches
  BY DEF Answers
<1> DEFINE sent == ApplyHeaderPatch(base, patch, id)
<1> SUFFICES Stands(patch, id, sent)
  OBVIOUS
<1>2. CASE patch.kind = "set"
  <2>1. sent = {<<n, id>> : n \in patch.names}
    BY <1>2 DEF ApplyHeaderPatch
  <2>2. patch.removed = {}
    BY <1>1, <1>2 DEF HeaderPatches
  <2> HIDE DEF sent
  <2>3. \A n \in patch.names : <<n, id>> \in sent /\ <<n, id>>[1] = n
    BY <2>1
  <2>4. \A h \in sent : h[1] \in patch.names
    BY <2>1
  <2>5. {h[1] : h \in sent} = patch.names
    BY <2>3, <2>4
  <2> QED
    BY <2>2, <2>3, <2>5 DEF Stands
<1>3. CASE patch.kind = "clear"
  <2>1. sent = {} /\ patch.names = {}
    BY <1>1, <1>3 DEF ApplyHeaderPatch, HeaderPatches
  <2> QED
    BY <1>3, <2>1 DEF Stands
<1>4. CASE patch.kind = "merge"
  <2>1. sent = {h \in Headers(base, patch.names, id) : h[1] \notin patch.removed}
    BY <1>4 DEF ApplyHeaderPatch
  <2>2. patch.names = {} \/ patch.removed = {}
    BY <1>1, <1>4 DEF HeaderPatches
  <2>3. ASSUME NEW n \in patch.names PROVE <<n, id>> \in sent
    BY <2>1, <2>2 DEF Headers
  <2> QED
    BY <1>4, <2>1, <2>3 DEF Stands
<1> QED
  BY <1>1, <1>2, <1>3, <1>4 DEF HeaderPatches

(* The last patch of a request handler stands in what is sent.                    *)
LEMMA LastStands ==
    ASSUME NEW hook, Len(hook) \in Nat, NEW answers,
           \A k \in 1..Len(hook) : answers[k] \in Answers(hook[k].kind),
           NEW i \in 1..Len(hook), hook[i].kind = "request", answers[i].kind # "none",
           \A j \in 1..Len(hook) : hook[j].kind = "request" /\ answers[j].kind # "none" => j <= i
    PROVE  Stands(answers[i], hook[i].id, PatchedHeaders(hook, answers))
<1> DEFINE n == Len(hook)
           base == RunHandlers(hook, "auth", answers, {})
<1>1. \A k \in 1..n : answers[k].names \subseteq HHeaders
  BY DEF Answers, HeaderPatches
<1>2. base \in Names(hook)
  <2>1. {} \in Names(hook)
    BY DEF Names
  <2>2. PICK over : RunBy(over, hook, "auth", answers, {})
    BY <1>1, <2>1, RunHandlersSteps
  <2> QED
    BY <2>2 DEF RunBy
<1> HIDE DEF base
<1>3. PICK over \in [0..n -> Names(hook)] :
          /\ over[0] = base
          /\ \A k \in 1..n : over[k] = Step(hook, "request", answers, k, over[k - 1])
          /\ RunHandlers(hook, "request", answers, base) = over[n]
  <2>1. \E over : RunBy(over, hook, "request", answers, base)
    BY <1>1, <1>2, RunHandlersSteps
  <2> QED
    BY <2>1 DEF RunBy
<1>4. Stands(answers[i], hook[i].id, over[i])
  <2>1. over[i] = ApplyHeaderPatch(over[i - 1], answers[i], hook[i].id)
    BY <1>3 DEF Step
  <2>2. answers[i] \in Answers("request")
    OBVIOUS
  <2> QED
    BY <2>1, <2>2, PatchStandsNow
<1>5. over[n] = over[i]
  <2> DEFINE Differ == {k \in i..n : over[k] # over[i]}
  <2>1. SUFFICES ASSUME Differ # {} PROVE FALSE
    OBVIOUS
  <2>2. Differ \in SUBSET Nat
    OBVIOUS
  <2>3. PICK k \in Differ : \A j \in Differ : k <= j
    <3> HIDE DEF Differ
    <3> QED
      BY <2>1, <2>2, NatLeast
  <2>4. k # i /\ k \in 1..n /\ k - 1 \in i..n /\ ~(k <= k - 1) /\ ~(k <= i)
    BY <2>3
  <2>5. over[k - 1] = over[i]
    BY <2>3, <2>4
  <2>6. over[k] = over[k - 1]
    BY <1>3, <2>4 DEF Step
  <2> QED
    BY <2>3, <2>5, <2>6
<1> QED
  BY <1>3, <1>4, <1>5 DEF PatchedHeaders, base

Registered == [id : Nat, kind : HookKinds]

\* LastPatchStands of a stream, and the sequences it is read from.
PatchedBy(st) ==
    LET patches == {i \in DOMAIN st.answers :
                       st.answers[i][1].kind = "request" /\ st.answers[i][2].kind # "none"}
    IN \A i \in patches : (\A j \in patches : j <= i) =>
          Stands(st.answers[i][2], st.answers[i][1].id, st.headers)

PatchInv ==
    /\ hHandlers \in Seq(Registered) /\ hAgent.hook \in Seq(Registered)
    /\ \A s \in HStreams : hStreams[s].handlers \in Seq(Registered) /\ PatchedBy(hStreams[s])

\* The step leaves what s knows of handlers and headers alone.
Kept(s, st) ==
    /\ DOMAIN st = StreamFields /\ st.handlers = hStreams[s].handlers
    /\ st.answers = hStreams[s].answers /\ st.headers = hStreams[s].headers

(* A stream that has asked for nothing has nothing to stand.                     *)
LEMMA NothingPatched ==
    ASSUME NEW st, st.answers = <<>> PROVE PatchedBy(st)
<1>1. DOMAIN st.answers = {}
  OBVIOUS
<1> QED
  BY <1>1 DEF PatchedBy

(* A step of one stream keeps the invariant.                                      *)
LEMMA PatchOne ==
    ASSUME PatchInv, HarnessShape, NEW s \in HStreams, NEW st, hStreams' = [hStreams EXCEPT ![s] = st],
           st.handlers \in Seq(Registered), PatchedBy(st),
           hHandlers' = hHandlers, hAgent'.hook \in Seq(Registered)
    PROVE  PatchInv'
<1> SUFFICES ASSUME NEW t \in HStreams
             PROVE  hStreams'[t].handlers \in Seq(Registered) /\ PatchedBy(hStreams'[t])
  BY DEF PatchInv, PatchedBy
<1>1. hStreams'[t] = IF t = s THEN st ELSE hStreams[t]
  BY DEF HarnessShape
<1> QED
  BY <1>1 DEF PatchInv

(* The same for a step that leaves them alone, and for one that tells an event.    *)
LEMMA PatchSame ==
    ASSUME PatchInv, HarnessShape, NEW s \in HStreams, NEW st, hStreams' = [hStreams EXCEPT ![s] = st],
           Kept(s, st), hHandlers' = hHandlers, hAgent'.hook \in Seq(Registered)
    PROVE  PatchInv'
<1>1. st.handlers \in Seq(Registered) /\ PatchedBy(st)
  BY DEF PatchInv, PatchedBy, Kept
<1> QED
  BY <1>1, PatchOne

LEMMA PatchTold ==
    ASSUME PatchInv, HarnessShape, NEW s \in HStreams, NEW listeners, NEW event, NEW pc, NEW st,
           EmitTo(listeners, s, event, pc, st), DOMAIN st = StreamFields,
           st.handlers \in Seq(Registered), PatchedBy(st),
           hHandlers' = hHandlers, hAgent'.hook \in Seq(Registered)
    PROVE  PatchInv'
<1> DEFINE told == [st EXCEPT !.pc = pc, !.told = Append(@, event)]
<1>1. hStreams' = [hStreams EXCEPT ![s] = told]
  BY DEF EmitTo
<1>2. told.handlers = st.handlers /\ told.answers = st.answers /\ told.headers = st.headers
  BY DEF StreamFields
<1>3. PatchedBy(told)
  BY <1>2 DEF PatchedBy
<1> HIDE DEF told
<1> QED
  BY <1>1, <1>2, <1>3, PatchOne

LEMMA PatchToldSame ==
    ASSUME PatchInv, HarnessShape, NEW s \in HStreams, NEW listeners, NEW event, NEW pc, NEW st,
           EmitTo(listeners, s, event, pc, st), Kept(s, st), hHandlers' = hHandlers,
           hAgent'.hook \in Seq(Registered)
    PROVE  PatchInv'
<1>1. st.handlers \in Seq(Registered) /\ PatchedBy(st) /\ DOMAIN st = StreamFields
  BY DEF PatchInv, PatchedBy, Kept
<1> QED
  BY <1>1, PatchTold

(* The hook of a request is a sequence of handlers.                                *)
LEMMA HookSequence ==
    ASSUME NEW handlers \in Seq(Registered)
    PROVE  ProviderHandlers(handlers) \in Seq(Registered)
<1>1. ASSUME NEW kind \in HookKinds PROVE Configured(kind) \in Seq(Registered)
  <2>1. [id |-> Hook, kind |-> kind] \in Registered
    BY DEF Registered, Hook
  <2> DEFINE r == [id |-> Hook, kind |-> kind]
  <2>2. <<>> \in Seq(Registered)
    OBVIOUS
  <2>3. <<r>> \in Seq(Registered)
    <3> HIDE DEF r
    <3> QED
      BY <2>1 DEF r
  <2> QED
    BY <2>2, <2>3 DEF Configured
<1>2. /\ Configured("auth") \in Seq(Registered) /\ Configured("request") \in Seq(Registered)
      /\ Configured("stream") \in Seq(Registered)
  BY <1>1 DEF HookKinds
<1> QED
  BY <1>2 DEF ProviderHandlers

(* Every step keeps what was asked and what is sent together.                      *)
LEMMA PatchNext == PatchInv /\ HarnessShape /\ [HarnessNext]_hVars => PatchInv'
<1> SUFFICES ASSUME PatchInv, HarnessShape, [HarnessNext]_hVars PROVE PatchInv'
  OBVIOUS
<1>0. /\ hAgent.hook \in Seq(Registered) /\ hHandlers \in Seq(Registered)
      /\ \A s \in HStreams : /\ DOMAIN hStreams[s] = StreamFields
                             /\ hStreams[s].handlers \in Seq(Registered) /\ PatchedBy(hStreams[s])
  BY DEF PatchInv, HarnessShape
<1>1. ASSUME NEW s \in HStreams, PromptMade(s) PROVE PatchInv'
  <2> DEFINE new == [hStreams[s] EXCEPT !.pc = "made", !.handlers = hHandlers,
                                         !.messages = Append(hAgent.messages, "user")]
  <2>1. /\ new.handlers = hHandlers /\ new.answers = hStreams[s].answers
        /\ new.headers = hStreams[s].headers
    BY <1>0 DEF StreamFields
  <2>2. PatchedBy(new)
    BY <1>0, <2>1 DEF PatchedBy
  <2>3. hStreams' = [hStreams EXCEPT ![s] = new] /\ UNCHANGED <<hHandlers, hAgent>>
    BY <1>1 DEF PromptMade
  <2> HIDE DEF new
  <2> QED
    BY <1>0, <2>1, <2>2, <2>3, PatchOne
<1>2. ASSUME NEW s \in HStreams, FirstPoll(s) PROVE PatchInv'
  <2>0. UNCHANGED <<hHandlers, hAgent>>
    BY <1>2 DEF FirstPoll
  <2>1. CASE hPhase # "idle"
    <3> DEFINE new == [[hStreams[s] EXCEPT !.watched = ToSet(hObservers)] EXCEPT !.listeners = hObservers]
    <3>1. Kept(s, new)
      BY <1>0 DEF Kept, StreamFields
    <3>2. EmitTo(hObservers, s, "error", "busy", new)
      BY <1>2, <2>1 DEF FirstPoll, EmitEvent
    <3> HIDE DEF new
    <3> QED
      BY <1>0, <2>0, <3>1, <3>2, PatchToldSame
  <2>2. CASE hPhase = "idle"
    <3> DEFINE new == [[hStreams[s] EXCEPT !.watched = ToSet(hObservers)]
                          EXCEPT !.holds = <<"phase">>, !.left = OfKind(hStreams[s].handlers, "start")]
    <3>1. Kept(s, new)
      BY <1>0 DEF Kept, StreamFields
    <3>2. EmitTo(hObservers, s, "beforeAgentStart", "start", new)
      BY <1>0, <1>2, <2>2 DEF FirstPoll, EmitEvent, StreamFields
    <3> HIDE DEF new
    <3> QED
      BY <1>0, <2>0, <3>1, <3>2, PatchToldSame
  <2> QED
    BY <2>1, <2>2
<1>3. ASSUME NEW s \in HStreams, RunHook(s) PROVE PatchInv'
  <2> DEFINE rest == [hStreams[s] EXCEPT !.left = Tail(@)]
  <2>0. UNCHANGED <<hHandlers, hAgent>>
    BY <1>3 DEF RunHook
  <2>1. Kept(s, rest)
    BY <1>0 DEF Kept, StreamFields
  <2>2. CASE EmitEvent(s, "error", "failed", rest)
    <3>1. EmitTo(hObservers, s, "error", "failed", rest)
      BY <2>2 DEF EmitEvent
    <3> HIDE DEF rest
    <3> QED
      BY <1>0, <2>0, <2>1, <3>1, PatchToldSame
  <2>3. CASE \E messages : hStreams' = [hStreams EXCEPT ![s] = [rest EXCEPT !.messages = messages]]
    <3>1. PICK messages : hStreams' = [hStreams EXCEPT ![s] = [rest EXCEPT !.messages = messages]]
      BY <2>3
    <3> DEFINE new == [rest EXCEPT !.messages = messages]
    <3> HIDE DEF rest
    <3>2. Kept(s, new)
      BY <2>1 DEF Kept, StreamFields
    <3> QED
      BY <1>0, <2>0, <3>1, <3>2, PatchSame
  <2> QED
    BY <1>3, <2>2, <2>3 DEF RunHook
<1>4. ASSUME NEW s \in HStreams, ToldContext(s) PROVE PatchInv'
  <2> DEFINE new == [hStreams[s] EXCEPT !.left = OfKind(hStreams[s].handlers, "context")]
  <2>1. Kept(s, new)
    BY <1>0 DEF Kept, StreamFields
  <2>2. EmitTo(hObservers, s, "context", "context", new) /\ UNCHANGED <<hHandlers, hAgent>>
    BY <1>4 DEF ToldContext, EmitEvent
  <2> HIDE DEF new
  <2> QED
    BY <1>0, <2>1, <2>2, PatchToldSame
<1>5. ASSUME NEW s \in HStreams, StartRun(s) PROVE PatchInv'
  <2> DEFINE agent == [hAgent EXCEPT !.messages = hStreams[s].messages,
                                     !.hook = IF NeedsHook(hStreams[s].handlers)
                                              THEN ProviderHandlers(hStreams[s].handlers) ELSE @]
  <2>1. agent.hook \in Seq(Registered) /\ DOMAIN agent = DOMAIN hAgent
    BY <1>0, HookSequence DEF HarnessShape
  <2>2. hHandlers' = hHandlers
    BY <1>5 DEF StartRun
  <2>3. CASE hAgent' = agent /\ EmitEvent(s, "error", "failed", hStreams[s])
    <3>1. EmitTo(hObservers, s, "error", "failed", hStreams[s]) /\ Kept(s, hStreams[s])
      BY <1>0, <2>3 DEF EmitEvent, Kept
    <3> QED
      BY <2>1, <2>2, <2>3, <3>1, PatchToldSame
  <2>4. CASE /\ hAgent' = [agent EXCEPT !.running = TRUE, !.panicked = @ \/ hAgent.running,
                                        !.cancelled = FALSE]
             /\ hStreams' = [hStreams EXCEPT ![s] = [hStreams[s] EXCEPT !.pc = "run",
                                                        !.holds = Append(@, "run")]]
    <3> DEFINE new == [hStreams[s] EXCEPT !.pc = "run", !.holds = Append(@, "run")]
    <3>1. Kept(s, new)
      BY <1>0 DEF Kept, StreamFields
    <3> HIDE DEF agent
    <3>2. hAgent'.hook = agent.hook
      BY <2>1, <2>4 DEF HarnessShape
    <3> HIDE DEF new
    <3>3. hStreams' = [hStreams EXCEPT ![s] = new]
      BY <2>4 DEF new
    <3> QED
      BY <2>1, <2>2, <3>1, <3>2, <3>3, PatchSame
  <2> QED
    BY <1>5, <2>3, <2>4 DEF StartRun
<1>6. ASSUME NEW s \in HStreams, Request(s) PROVE PatchInv'
  <2> DEFINE hook == hAgent.hook
             n == Len(hook)
  <2>1. PICK answers : /\ \A i \in DOMAIN hook : answers[i] \in Answers(hook[i].kind)
                       /\ EmitEvent(s, "request", "run",
                            [hStreams[s] EXCEPT !.events = @ + 1,
                                !.answers = [i \in DOMAIN hook |-> <<hook[i], answers[i]>>],
                                !.headers = PatchedHeaders(hook, answers)])
    BY <1>6 DEF Request
  <2> DEFINE new == [hStreams[s] EXCEPT !.events = @ + 1,
                                !.answers = [i \in DOMAIN hook |-> <<hook[i], answers[i]>>],
                                !.headers = PatchedHeaders(hook, answers)]
  <2>2. n \in Nat /\ DOMAIN hook = 1..n
    BY <1>0
  <2>3. /\ DOMAIN new = StreamFields /\ new.handlers = hStreams[s].handlers
        /\ new.answers = [i \in 1..n |-> <<hook[i], answers[i]>>]
        /\ new.headers = PatchedHeaders(hook, answers)
    BY <1>0, <2>2 DEF StreamFields
  <2>4. PatchedBy(new)
    <3> HIDE DEF new, hook, n
    <3>1. /\ DOMAIN new.answers = 1..n
          /\ \A i \in 1..n : new.answers[i][1] = hook[i] /\ new.answers[i][2] = answers[i]
      BY <2>3
    <3>2. ASSUME NEW i \in 1..n, hook[i].kind = "request", answers[i].kind # "none",
                 \A j \in 1..n : hook[j].kind = "request" /\ answers[j].kind # "none" => j <= i
          PROVE  Stands(answers[i], hook[i].id, new.headers)
      <4>1. \A k \in 1..Len(hook) : answers[k] \in Answers(hook[k].kind)
        BY <2>1, <2>2 DEF n
      <4>2. Len(hook) \in Nat /\ n = Len(hook)
        BY <2>2 DEF n
      <4>3. Stands(answers[i], hook[i].id, PatchedHeaders(hook, answers))
        BY <3>2, <4>1, <4>2, LastStands
      <4> QED
        BY <2>3, <4>3
    <3> QED
      BY <3>1, <3>2 DEF PatchedBy
  <2>5. /\ EmitTo(hObservers, s, "request", "run", new) /\ hHandlers' = hHandlers
        /\ hAgent' = [hAgent EXCEPT !.queue = 0]
    BY <1>6, <2>1 DEF Request, EmitEvent
  <2>6. hAgent'.hook = hAgent.hook
    BY <2>5 DEF HarnessShape
  <2> HIDE DEF new
  <2> QED
    BY <1>0, <2>3, <2>4, <2>5, <2>6, PatchTold
<1>7. ASSUME NEW s \in HStreams, AgentEvent(s) PROVE PatchInv'
  <2> DEFINE new == [hStreams[s] EXCEPT !.events = @ + 1]
  <2>1. PICK event : EmitTo(hObservers, s, event, "run", new)
    BY <1>7 DEF AgentEvent, EmitEvent
  <2>2. Kept(s, new) /\ UNCHANGED <<hHandlers, hAgent>>
    BY <1>0, <1>7 DEF Kept, StreamFields, AgentEvent
  <2> HIDE DEF new
  <2> QED
    BY <1>0, <2>1, <2>2, PatchToldSame
<1>8. ASSUME NEW s \in HStreams, RunEnds(s) PROVE PatchInv'
  <2> DEFINE new == [hStreams[s] EXCEPT !.holds = <<"phase">>, !.answers = <<>>, !.headers = {}]
  <2>1. DOMAIN new = StreamFields /\ new.handlers = hStreams[s].handlers /\ new.answers = <<>>
    BY <1>0 DEF StreamFields
  <2>2. PatchedBy(new)
    BY <2>1, NothingPatched
  <2>3. /\ EmitTo(hObservers, s, "settled", "settled", new) /\ hHandlers' = hHandlers
        /\ hAgent'.hook = hAgent.hook
    BY <1>8 DEF RunEnds, EmitEvent, HarnessShape
  <2> HIDE DEF new
  <2> QED
    BY <1>0, <2>1, <2>2, <2>3, PatchTold
<1>9. ASSUME NEW s \in HStreams, ToldFailure(s) PROVE PatchInv'
  <2>1. PICK listeners : EmitTo(listeners, s, "settled", "settled", hStreams[s])
    BY <1>9 DEF ToldFailure, EmitEvent
  <2>2. Kept(s, hStreams[s]) /\ UNCHANGED <<hHandlers, hAgent>>
    BY <1>0, <1>9 DEF Kept, ToldFailure
  <2> QED
    BY <1>0, <2>1, <2>2, PatchToldSame
<1>10. ASSUME NEW s \in HStreams, Dropping(s) PROVE PatchInv'
  <2> DEFINE new == [NotMade EXCEPT !.pc = "dropping", !.told = hStreams[s].told,
                        !.holds = hStreams[s].holds, !.watched = hStreams[s].watched]
  <2>1. /\ hStreams' = [hStreams EXCEPT ![s] = new] /\ UNCHANGED <<hHandlers, hAgent>>
        /\ new.handlers = <<>> /\ new.answers = <<>>
    BY <1>10 DEF Dropping, NotMade
  <2> HIDE DEF new
  <2>2. PatchedBy(new) /\ new.handlers \in Seq(Registered)
    BY <2>1, NothingPatched
  <2> QED
    BY <1>0, <2>1, <2>2, PatchOne
<1>11. ASSUME NEW s \in HStreams, Release(s) PROVE PatchInv'
  <2> DEFINE new == [hStreams[s] EXCEPT !.holds = SubSeq(@, 1, Len(@) - 1)]
  <2>1. hStreams' = [hStreams EXCEPT ![s] = new] /\ hHandlers' = hHandlers
    BY <1>11 DEF Release
  <2>2. Kept(s, new)
    BY <1>0 DEF Kept, StreamFields
  <2>3. hAgent'.hook = hAgent.hook
    BY <1>11 DEF Release, HarnessShape
  <2> HIDE DEF new
  <2> QED
    BY <1>0, <2>1, <2>2, <2>3, PatchSame
<1>12. CASE OtherCall
  <2>1. CASE OnHandler /\ UNCHANGED <<hAgent, hObservers, hStreams>>
    <3>1. hHandlers' \in Seq(Registered)
      <4>1. ASSUME NEW id \in HHandlers, NEW kind \in HookKinds,
                   hHandlers' = Append(hHandlers, [id |-> id, kind |-> kind])
            PROVE  hHandlers' \in Seq(Registered)
        <5>1. [id |-> id, kind |-> kind] \in Registered
          BY HarnessAssumption DEF Registered
        <5> QED
          BY <1>0, <4>1, <5>1
      <4>2. ASSUME hHandlers # <<>>, hHandlers' = SubSeq(hHandlers, 1, Len(hHandlers) - 1)
            PROVE  hHandlers' \in Seq(Registered)
        BY <1>0, <4>2
      <4> QED
        BY <2>1, <4>1, <4>2 DEF OnHandler
    <3> QED
      BY <1>0, <2>1, <3>1 DEF PatchInv, PatchedBy
  <2>2. CASE Subscribe /\ UNCHANGED <<hAgent, hHandlers>>
    <3>1. CASE UNCHANGED hStreams
      BY <2>2, <3>1 DEF PatchInv, PatchedBy
    <3>2. CASE \E i \in DOMAIN hObservers :
                  hStreams' = [s \in HStreams |-> [hStreams[s] EXCEPT !.watched = @ \ {hObservers[i]}]]
      <4>1. ASSUME NEW s \in HStreams
            PROVE  /\ hStreams'[s].handlers = hStreams[s].handlers
                   /\ hStreams'[s].answers = hStreams[s].answers
                   /\ hStreams'[s].headers = hStreams[s].headers
        BY <1>0, <3>2 DEF StreamFields
      <4> QED
        BY <2>2, <4>1 DEF PatchInv, PatchedBy
    <3> QED
      BY <2>2, <3>1, <3>2 DEF Subscribe
  <2>3. CASE AgentCall /\ UNCHANGED <<hHandlers, hObservers, hStreams>>
    <3>1. hAgent'.hook = hAgent.hook
      BY <2>3 DEF AgentCall, HarnessShape
    <3> QED
      BY <2>3, <3>1 DEF PatchInv, PatchedBy
  <2> QED
    BY <1>12, <2>1, <2>2, <2>3 DEF OtherCall
<1>13. CASE UNCHANGED hVars
  BY <1>13 DEF hVars, PatchInv, PatchedBy
<1> QED
  BY <1>1, <1>2, <1>3, <1>4, <1>5, <1>6, <1>7, <1>8, <1>9, <1>10, <1>11, <1>12, <1>13 DEF HarnessNext

(* The harness lets one turn at a time through, its observers hear exactly what its    *)
(* streams yield, and what a request sends is what the last of its handlers made of    *)
(* it (AgentHarness::prompt, make_provider_request_hook).                              *)
THEOREM HarnessCorrect == HarnessSpec => []HarnessSound
<1>1. ASSUME HarnessInit PROVE PatchInv
  <2>1. ASSUME NEW s \in HStreams PROVE hStreams[s].handlers = <<>> /\ hStreams[s].answers = <<>>
    BY <1>1 DEF HarnessInit, NotMade
  <2>2. hHandlers = <<>> /\ hAgent.hook = <<>>
    BY <1>1 DEF HarnessInit
  <2>3. <<>> \in Seq(Registered)
    OBVIOUS
  <2> QED
    BY <2>1, <2>2, <2>3, NothingPatched DEF PatchInv
<1>2. ASSUME PatchInv, NEW s \in HStreams PROVE LastPatchStands(s)
  BY <1>2 DEF PatchInv, PatchedBy, LastPatchStands, Stands
<1>3. SerialInv => HarnessShape
  BY DEF SerialInv
<1>4. HarnessSerial /\ ObserversTold /\ PatchInv => HarnessSound
  BY <1>2 DEF HarnessSound
<1> QED
  BY <1>1, <1>3, <1>4, SerialCorrect, ObserversCorrect, InitSerial, SerialNext, PatchNext, PTL
     DEF HarnessSpec

(***************************************************************************)
(* The calls that change a file.                                           *)
(***************************************************************************)
CallFields == {"kind", "name", "edits", "at", "key", "queue", "base", "new", "error", "repairs",
               "strategy", "check", "checks", "records", "applied"}

\* The functions and records keep their domains.
EditsShape ==
    /\ DOMAIN fTask = FTasks /\ DOMAIN fHeld = FTasks
    /\ \A t \in FTasks : DOMAIN fTask[t] = CallFields
    /\ DOMAIN fQueues = {"real", "link"} /\ DOMAIN fFile = {"exists", "body"}
    /\ fNext \in Nat \ {0}
    /\ \A t \in FTasks : fTask[t].key \in {"real", "link"} /\ fTask[t].name \in {"real", "link"}

(***************************************************************************)
(* One mutation at a time.                                                  *)
(***************************************************************************)
\* Where a call has a queue.
Queued(t) == fTask[t].at \in {"lock", "apply", "truncate", "write", "unlock", "cleanup"}

\* A call's queue is the one registered for its key: while a call has it, it is not
\* thrown away.  A lock is held by one call.
QueueKept ==
    /\ \A t \in FTasks : Queued(t) => fTask[t].queue # 0 /\ fQueues[fTask[t].key] = fTask[t].queue
    /\ \A t \in FTasks : ~Queued(t) => fTask[t].queue = 0
    /\ \A t \in FTasks : fHeld[t] = IF Mutating(t) THEN fTask[t].queue ELSE 0
    /\ \A t, u \in FTasks : t # u /\ fHeld[t] = fHeld[u] => fHeld[t] = 0

\* What kind of call is where, and under which key: an edit has seen the file, which
\* never goes away again.
Placed(c) ==
    /\ c.kind = "write" =>
        /\ c.at \in {"key", "queue", "lock", "truncate", "write", "unlock", "cleanup",
                     "done", "failed", "dropped"}
        /\ ~c.check
    /\ c.kind # "write" => c.key = "real"
    /\ c.at = "key" => c.key = "real"
HasSeen(c) == c.kind # "write" /\ c.at \notin {"idle", "start", "read", "failed", "dropped"}
CallPlaces ==
    \A t \in FTasks : Placed(fTask[t]) /\ (HasSeen(fTask[t]) => fFile.exists)

\* Without strays an edit holds the text it read until it writes.
TextKept ==
    /\ fOrphan # {} => \E t \in FTasks : fTask[t].at = "dropped"
    /\ Strays = {} => \A t \in FTasks :
          fTask[t].at = "truncate" /\ fTask[t].kind # "write" => fTask[t].base = fFile.body
    /\ fLost # {} => Strays # {}

MutatorInv == EditsShape /\ QueueKept /\ CallPlaces /\ TextKept

(* The first state.                                                          *)
LEMMA InitMutator == FileEditsInit => MutatorInv
<1> SUFFICES ASSUME FileEditsInit PROVE MutatorInv
  OBVIOUS
<1>1. \A t \in FTasks : fTask[t] = NoCall
  BY DEF FileEditsInit
<1>2. /\ DOMAIN NoCall = CallFields /\ NoCall.at = "idle" /\ NoCall.kind = "none"
      /\ NoCall.key = "real" /\ NoCall.name = "real" /\ NoCall.queue = 0
  BY DEF NoCall, CallFields
<1>3. DOMAIN fFile = {"exists", "body"}
  BY DEF FileEditsInit
<1>4. EditsShape
  BY <1>1, <1>2, <1>3 DEF EditsShape, FileEditsInit
<1>5. QueueKept
  BY <1>1, <1>2 DEF QueueKept, Queued, Mutating, FileEditsInit
<1>6. CallPlaces
  BY <1>1, <1>2 DEF CallPlaces, Placed, HasSeen
<1>7. TextKept
  BY <1>1, <1>2 DEF TextKept, FileEditsInit
<1> QED
  BY <1>4, <1>5, <1>6, <1>7 DEF MutatorInv

\* The steps of one call.
StepOf(t) ==
    \/ \E name \in FNames :
          \/ \E edits \in FEdits : CallEdit(t, name, edits)
          \/ \E body \in FBodies : CallWrite(t, name, body)
          \/ \E edits \in FEdits, strategy \in {"none", "planned", "model"} :
                CallHeal(t, name, edits, strategy)
    \/ CallStep(t) \/ DropCall(t)

(* A step of a call changes no other call, no other call's lock, and keeps the shape. *)
LEMMA StepFrame ==
    ASSUME EditsShape, NEW t \in FTasks, StepOf(t)
    PROVE  /\ EditsShape'
           /\ \A u \in FTasks : u # t => fTask'[u] = fTask[u] /\ fHeld'[u] = fHeld[u]
<1>1. ASSUME NEW name \in FNames, NEW edits \in FEdits, CallEdit(t, name, edits)
      PROVE  /\ EditsShape'
             /\ \A u \in FTasks : u # t => fTask'[u] = fTask[u] /\ fHeld'[u] = fHeld[u]
  <2>1. PICK n : n = [NoCall EXCEPT !.kind = "edit", !.name = name, !.edits = edits, !.at = "start"]
    OBVIOUS
  <2>2. DOMAIN n = CallFields /\ n.key = "real" /\ n.name = name
    BY <2>1 DEF NoCall, CallFields
  <2>3. fTask' = [fTask EXCEPT ![t] = n] /\ Keep /\ name \in {"real", "link"}
    BY <1>1, <2>1, FileEditsAssumption DEF CallEdit
  <2> QED
    BY <2>2, <2>3 DEF Keep, EditsShape
<1>2. ASSUME NEW name \in FNames, NEW body \in FBodies, CallWrite(t, name, body)
      PROVE  /\ EditsShape'
             /\ \A u \in FTasks : u # t => fTask'[u] = fTask[u] /\ fHeld'[u] = fHeld[u]
  BY <1>2, FileEditsAssumption DEF CallWrite, Keep, EditsShape, NoCall, CallFields
<1>3. ASSUME NEW name \in FNames, NEW edits \in FEdits, NEW strategy, CallHeal(t, name, edits, strategy)
      PROVE  /\ EditsShape'
             /\ \A u \in FTasks : u # t => fTask'[u] = fTask[u] /\ fHeld'[u] = fHeld[u]
  BY <1>3, FileEditsAssumption DEF CallHeal, Keep, EditsShape, NoCall, CallFields
<1>4. CASE StartEditWorkflow(t) \/ ReadTarget(t) \/ ValidatePatch(t) \/ GiveUpRepair(t)
  <2>1. Keep /\ (Fails(t) \/ Goes(t, "read") \/ Goes(t, "validate") \/ Goes(t, "key"))
    BY <1>4 DEF StartEditWorkflow, ReadTarget, ValidatePatch, GiveUpRepair
  <2>2. CASE Fails(t)
    BY <2>1, <2>2 DEF Fails, Keep, EditsShape, CallFields
  <2>3. ASSUME NEW at, Goes(t, at)
        PROVE  /\ EditsShape'
               /\ \A u \in FTasks : u # t => fTask'[u] = fTask[u] /\ fHeld'[u] = fHeld[u]
    BY <2>1, <2>3 DEF Goes, Keep, EditsShape, CallFields
  <2> QED
    BY <2>1, <2>2, <2>3
<1>5. CASE MutationQueueKey(t)
  BY <1>5 DEF MutationQueueKey, Keep, EditsShape, CallFields
<1>6. CASE QueueForKey(t)
  BY <1>6 DEF QueueForKey, EditsShape, CallFields
<1>7. CASE LockQueue(t) \/ UnlockQueue(t) \/ TruncateFile(t)
  BY <1>7 DEF LockQueue, UnlockQueue, TruncateFile, Goes, EditsShape, CallFields
<1>8. CASE ApplyPatch(t) \/ WriteFails(t)
  BY <1>8 DEF ApplyPatch, WriteFails, Keep, EditsShape, CallFields
<1>9. CASE WriteFile(t)
  BY <1>9 DEF WriteFile, EditsShape, CallFields
<1>10. CASE CleanupQueue(t)
  BY <1>10 DEF CleanupQueue, EditsShape, CallFields
<1>11. ASSUME NEW outcome \in CheckOutcomes, RunCheck(t, outcome)
      PROVE  /\ EditsShape'
             /\ \A u \in FTasks : u # t => fTask'[u] = fTask[u] /\ fHeld'[u] = fHeld[u]
  BY <1>11 DEF RunCheck, Keep, EditsShape, CallFields
<1>12. ASSUME NEW edits \in ModelRepairs, RepairPatch(t, edits)
      PROVE  /\ EditsShape'
             /\ \A u \in FTasks : u # t => fTask'[u] = fTask[u] /\ fHeld'[u] = fHeld[u]
  BY <1>12 DEF RepairPatch, Keep, EditsShape, CallFields
<1>13. CASE DropCall(t)
  BY <1>13 DEF DropCall, EditsShape, CallFields
<1> QED
  BY <1>1, <1>2, <1>3, <1>4, <1>5, <1>6, <1>7, <1>8, <1>9, <1>10, <1>11, <1>12, <1>13
  DEF StepOf, CallStep

(* Every step of a call keeps the queues, however they are made and thrown away.     *)
LEMMA StepQueues ==
    ASSUME MutatorInv, NEW t \in FTasks, StepOf(t)
    PROVE  QueueKept'
<1>0. EditsShape /\ QueueKept /\ t \in FTasks
  BY DEF MutatorInv
<1>1. \A u \in FTasks : u # t => fTask'[u] = fTask[u] /\ fHeld'[u] = fHeld[u]
  BY <1>0, StepFrame
<1>2. \A u \in FTasks : u # t => (Queued(u)' <=> Queued(u)) /\ (Mutating(u)' <=> Mutating(u))
  BY <1>1 DEF Queued, Mutating
<1>3. ASSUME UNCHANGED <<fQueues, fHeld>>, fTask'[t].queue = fTask[t].queue,
             \/ ~Queued(t) /\ ~Queued(t)'
             \/ Mutating(t) /\ Mutating(t)' /\ fTask'[t].key = fTask[t].key
      PROVE  QueueKept'
  BY <1>0, <1>1, <1>2, <1>3 DEF QueueKept, Queued, Mutating
<1>4. ASSUME NEW name \in FNames,
             \/ \E edits \in FEdits : CallEdit(t, name, edits)
             \/ \E body \in FBodies : CallWrite(t, name, body)
             \/ \E edits \in FEdits, strategy \in {"none", "planned", "model"} :
                   CallHeal(t, name, edits, strategy)
      PROVE  QueueKept'
  <2>1. fTask[t] = NoCall /\ UNCHANGED <<fQueues, fHeld>>
    BY <1>4 DEF CallEdit, CallWrite, CallHeal, Comes, Keep
  <2>2. fTask'[t].queue = 0 /\ fTask'[t].at \in {"start", "key"}
    <3>1. \E n : /\ n.queue = 0 /\ n.at \in {"start", "key"}
                /\ fTask' = [fTask EXCEPT ![t] = n]
      BY <1>4 DEF CallEdit, CallWrite, CallHeal, NoCall
    <3> QED
      BY <1>0, <3>1 DEF EditsShape
  <2>3. fTask[t].queue = 0 /\ fTask[t].at = "idle"
    BY <2>1 DEF NoCall
  <2> QED
    BY <1>3, <2>1, <2>2, <2>3 DEF Queued
<1>5. CASE StartEditWorkflow(t) \/ ReadTarget(t) \/ ValidatePatch(t) \/ GiveUpRepair(t)
  <2>1. /\ fTask[t].at \in {"start", "read", "validate", "repair"} /\ UNCHANGED <<fQueues, fHeld>>
        /\ Fails(t) \/ Goes(t, "read") \/ Goes(t, "validate") \/ Goes(t, "key")
    BY <1>5 DEF StartEditWorkflow, ReadTarget, ValidatePatch, GiveUpRepair, Keep
  <2>2. fTask'[t].queue = fTask[t].queue /\ fTask'[t].at \in {"failed", "read", "validate", "key"}
    BY <1>0, <2>1 DEF Fails, Goes, EditsShape, CallFields
  <2> QED
    BY <1>3, <2>1, <2>2 DEF Queued
<1>6. CASE MutationQueueKey(t)
  <2>1. /\ fTask[t].at = "key" /\ UNCHANGED <<fQueues, fHeld>>
        /\ fTask'[t].queue = fTask[t].queue /\ fTask'[t].at = "queue"
    BY <1>0, <1>6 DEF MutationQueueKey, Keep, EditsShape, CallFields
  <2> QED
    BY <1>3, <2>1 DEF Queued
<1>7. CASE QueueForKey(t)
  <2>1. PICK q : q = IF fQueues[fTask[t].key] = 0 THEN fNext ELSE fQueues[fTask[t].key]
    OBVIOUS
  <2>2. q # 0 /\ (fQueues[fTask[t].key] # 0 => q = fQueues[fTask[t].key])
    BY <1>0, <2>1 DEF EditsShape
  <2>3. /\ fTask[t].at = "queue" /\ fHeld' = fHeld
        /\ fQueues' = [fQueues EXCEPT ![fTask[t].key] = q]
        /\ fTask' = [fTask EXCEPT ![t].queue = q, ![t].at = "lock"]
    BY <1>7, <2>1 DEF QueueForKey
  <2>4. fTask'[t].queue = q /\ fTask'[t].at = "lock" /\ fTask'[t].key = fTask[t].key
    BY <1>0, <2>3 DEF EditsShape, CallFields
  <2>5. \A k \in {"real", "link"} :
           fQueues'[k] = IF k = fTask[t].key THEN q ELSE fQueues[k]
    BY <1>0, <2>3 DEF EditsShape
  <2>6. ASSUME NEW u \in FTasks, u # t, Queued(u)
        PROVE  fQueues'[fTask[u].key] = fTask[u].queue
    BY <1>0, <2>2, <2>5, <2>6 DEF QueueKept, EditsShape
  <2>7. ~Mutating(t) /\ ~Mutating(t)' /\ Queued(t)'
    BY <2>3, <2>4 DEF Mutating, Queued
  <2>8. fQueues'[fTask[t].key] = q
    BY <1>0, <2>5 DEF EditsShape
  <2>9. ASSUME NEW u \in FTasks
        PROVE  /\ Queued(u)' => /\ fTask'[u].queue # 0
                                /\ fQueues'[fTask'[u].key] = fTask'[u].queue
               /\ ~Queued(u)' => fTask'[u].queue = 0
               /\ fHeld'[u] = IF Mutating(u)' THEN fTask'[u].queue ELSE 0
    <3>1. CASE u # t
      BY <1>0, <1>1, <1>2, <2>3, <2>6, <3>1 DEF QueueKept
    <3>2. CASE u = t
      BY <1>0, <2>2, <2>3, <2>4, <2>7, <2>8, <3>2 DEF QueueKept
    <3> QED
      BY <3>1, <3>2
  <2> QED
    BY <1>0, <2>3, <2>9 DEF QueueKept
<1>8. CASE LockQueue(t)
  <2>1. /\ fTask[t].at = "lock" /\ \A u \in FTasks : fHeld[u] # fTask[t].queue
        /\ fHeld'[t] = fTask[t].queue /\ fQueues' = fQueues
    BY <1>0, <1>8 DEF LockQueue, EditsShape
  <2>2. /\ fTask'[t].at \in {"truncate", "apply"} /\ fTask'[t].key = fTask[t].key
        /\ fTask'[t].queue = fTask[t].queue
    BY <1>0, <1>8 DEF LockQueue, Goes, EditsShape, CallFields
  <2>3. Queued(t) /\ Queued(t)' /\ Mutating(t)'
    BY <2>1, <2>2 DEF Queued, Mutating
  <2> QED
    BY <1>0, <1>1, <1>2, <2>1, <2>2, <2>3 DEF QueueKept
<1>9. CASE ApplyPatch(t) \/ TruncateFile(t) \/ WriteFile(t) \/ WriteFails(t)
  <2>1. fTask[t].at \in {"apply", "truncate", "write"} /\ UNCHANGED <<fQueues, fHeld>>
    BY <1>9 DEF ApplyPatch, TruncateFile, WriteFile, WriteFails, Keep
  <2>2. /\ fTask'[t].at \in {"truncate", "write", "unlock"} /\ fTask'[t].key = fTask[t].key
        /\ fTask'[t].queue = fTask[t].queue
    BY <1>0, <1>9 DEF ApplyPatch, TruncateFile, WriteFile, WriteFails, Goes, EditsShape, CallFields
  <2> QED
    BY <1>3, <2>1, <2>2 DEF Mutating
<1>10. CASE UnlockQueue(t)
  <2>1. fTask[t].at = "unlock" /\ fHeld'[t] = 0 /\ fQueues' = fQueues
    BY <1>0, <1>10 DEF UnlockQueue, EditsShape
  <2>2. /\ fTask'[t].at = "cleanup" /\ fTask'[t].key = fTask[t].key
        /\ fTask'[t].queue = fTask[t].queue
    BY <1>0, <1>10 DEF UnlockQueue, Goes, EditsShape, CallFields
  <2>3. Queued(t) /\ Queued(t)' /\ ~Mutating(t)'
    BY <2>1, <2>2 DEF Queued, Mutating
  <2> QED
    BY <1>0, <1>1, <1>2, <2>1, <2>2, <2>3 DEF QueueKept
<1>11. CASE CleanupQueue(t)
  <2>1. /\ fTask[t].at = "cleanup" /\ fHeld' = fHeld
        /\ fQueues' = IF IsLast(t) THEN [fQueues EXCEPT ![fTask[t].key] = 0] ELSE fQueues
    BY <1>11 DEF CleanupQueue
  <2>2. fTask'[t].at \in {"failed", "check", "done"} /\ fTask'[t].queue = 0
    BY <1>0, <1>11 DEF CleanupQueue, EditsShape, CallFields
  <2>3. ~Queued(t)' /\ ~Mutating(t) /\ ~Mutating(t)'
    BY <2>1, <2>2 DEF Queued, Mutating
  <2>4. ASSUME NEW u \in FTasks, u # t, Queued(u)
        PROVE  fQueues'[fTask[u].key] = fTask[u].queue
    <3>1. fQueues[fTask[u].key] = fTask[u].queue
      BY <1>0, <2>4 DEF QueueKept
    <3>2. CASE fQueues' = fQueues
      BY <3>1, <3>2
    <3>3. CASE IsLast(t)
      <4>1. fTask[u].queue # fTask[t].queue
        BY <2>4, <3>3 DEF IsLast, Holders
      <4>2. fTask[u].key # fTask[t].key
        BY <3>1, <3>3, <4>1 DEF IsLast
      <4> QED
        BY <1>0, <2>1, <3>1, <3>3, <4>2 DEF EditsShape
    <3> QED
      BY <2>1, <3>2, <3>3
  <2> QED
    BY <1>0, <1>1, <1>2, <2>1, <2>2, <2>3, <2>4 DEF QueueKept
<1>12. ASSUME NEW outcome \in CheckOutcomes, RunCheck(t, outcome)
       PROVE  QueueKept'
  <2>1. /\ fTask[t].at = "check" /\ UNCHANGED <<fQueues, fHeld>>
        /\ fTask'[t].queue = fTask[t].queue /\ fTask'[t].at \in {"failed", "done", "repair"}
    BY <1>0, <1>12 DEF RunCheck, Keep, EditsShape, CallFields, CheckOutcomes
  <2> QED
    BY <1>3, <2>1 DEF Queued
<1>13. ASSUME NEW edits \in ModelRepairs, RepairPatch(t, edits)
       PROVE  QueueKept'
  <2>1. /\ fTask[t].at = "repair" /\ UNCHANGED <<fQueues, fHeld>>
        /\ fTask'[t].queue = fTask[t].queue /\ fTask'[t].at \in {"failed", "validate"}
    BY <1>0, <1>13 DEF RepairPatch, Keep, EditsShape, CallFields
  <2> QED
    BY <1>3, <2>1 DEF Queued
<1>14. CASE DropCall(t)
  <2>1. fQueues' = fQueues /\ fHeld'[t] = 0
    BY <1>0, <1>14 DEF DropCall, EditsShape
  <2>2. fTask'[t].at = "dropped" /\ fTask'[t].queue = 0
    BY <1>0, <1>14 DEF DropCall, EditsShape, CallFields
  <2>3. ~Queued(t)' /\ ~Mutating(t)'
    BY <2>2 DEF Queued, Mutating
  <2> QED
    BY <1>0, <1>1, <1>2, <2>1, <2>2, <2>3 DEF QueueKept
<1> QED
  BY <1>4, <1>5, <1>6, <1>7, <1>8, <1>9, <1>10, <1>11, <1>12, <1>13, <1>14 DEF StepOf, CallStep

\* What is the same of all calls as they come.
Fresh(n) ==
    /\ n.key = "real" /\ n.at \in {"start", "key"}
    /\ n.kind # "write" => n.at = "start"
    /\ n.kind = "write" => n.at = "key" /\ ~n.check /\ ~n.error
    /\ n.queue = 0 /\ n.repairs = 0 /\ n.records = 0 /\ n.applied = 0
    /\ n.checks = <<>> /\ (n.kind = "heal" => n.check)

(* A call as it comes.                                                               *)
LEMMA CallMade ==
    ASSUME NEW t, NEW name,
           \/ \E edits \in FEdits : CallEdit(t, name, edits)
           \/ \E body \in FBodies : CallWrite(t, name, body)
           \/ \E edits \in FEdits, strategy \in {"none", "planned", "model"} :
                 CallHeal(t, name, edits, strategy)
    PROVE  \E n : fTask' = [fTask EXCEPT ![t] = n] /\ Fresh(n)
<1>1. ASSUME NEW edits \in FEdits, CallEdit(t, name, edits)
      PROVE  \E n : fTask' = [fTask EXCEPT ![t] = n] /\ Fresh(n)
  <2>1. PICK n : n = [NoCall EXCEPT !.kind = "edit", !.name = name, !.edits = edits, !.at = "start"]
    OBVIOUS
  <2>2. Fresh(n)
    BY <2>1 DEF Fresh, NoCall
  <2> QED
    BY <1>1, <2>1, <2>2 DEF CallEdit
<1>2. ASSUME NEW body \in FBodies, CallWrite(t, name, body)
      PROVE  \E n : fTask' = [fTask EXCEPT ![t] = n] /\ Fresh(n)
  <2>1. PICK n : n = [NoCall EXCEPT !.kind = "write", !.name = name, !.new = body, !.at = "key"]
    OBVIOUS
  <2>2. Fresh(n)
    BY <2>1 DEF Fresh, NoCall
  <2> QED
    BY <1>2, <2>1, <2>2 DEF CallWrite
<1>3. ASSUME NEW edits \in FEdits, NEW strategy, CallHeal(t, name, edits, strategy)
      PROVE  \E n : fTask' = [fTask EXCEPT ![t] = n] /\ Fresh(n)
  <2>1. PICK n : n = [NoCall EXCEPT !.kind = "heal", !.name = name, !.edits = edits,
                                    !.at = "start", !.check = TRUE, !.strategy = strategy]
    OBVIOUS
  <2>2. Fresh(n)
    BY <2>1 DEF Fresh, NoCall
  <2> QED
    BY <1>3, <2>1, <2>2 DEF CallHeal
<1> QED
  BY <1>1, <1>2, <1>3

(* Every step of a call keeps it where its kind may be.                              *)
LEMMA StepPlaces ==
    ASSUME MutatorInv, NEW t \in FTasks, StepOf(t)
    PROVE  /\ CallPlaces'
           /\ fTask[t].at # "dropped"
           /\ fTask'[t].key = fTask[t].key \/ fTask[t].key = "real"
<1> DEFINE c == fTask[t]
           d == fTask'[t]
           Goal == /\ Placed(d) /\ (HasSeen(d) => fFile'.exists)
                   /\ (fFile.exists => fFile'.exists)
                   /\ c.at # "dropped" /\ (d.key = c.key \/ c.key = "real")
<1>0. /\ EditsShape /\ t \in FTasks
      /\ \A u \in FTasks : Placed(fTask[u]) /\ (HasSeen(fTask[u]) => fFile.exists)
  BY DEF MutatorInv, CallPlaces
<1>1. \A u \in FTasks : u # t => fTask'[u] = fTask[u]
  BY <1>0, StepFrame
<1>2. ASSUME Goal
      PROVE  /\ CallPlaces' /\ fTask[t].at # "dropped"
             /\ fTask'[t].key = fTask[t].key \/ fTask[t].key = "real"
  BY <1>0, <1>1, <1>2 DEF CallPlaces
<1>3. DOMAIN c = CallFields /\ DOMAIN fTask = FTasks /\ Placed(c) /\ (HasSeen(c) => fFile.exists)
  BY <1>0 DEF EditsShape
<1> USE DEF Placed, HasSeen
<1>4. ASSUME NEW name \in FNames,
             \/ \E edits \in FEdits : CallEdit(t, name, edits)
             \/ \E body \in FBodies : CallWrite(t, name, body)
             \/ \E edits \in FEdits, strategy \in {"none", "planned", "model"} :
                   CallHeal(t, name, edits, strategy)
      PROVE  Goal
  <2>1. c = NoCall /\ fFile' = fFile
    BY <1>4 DEF CallEdit, CallWrite, CallHeal, Comes, Keep
  <2>2. PICK n : fTask' = [fTask EXCEPT ![t] = n] /\ Fresh(n)
    BY <1>4, CallMade
  <2>3. d = n
    BY <1>3, <2>2
  <2>4. c.at = "idle" /\ c.key = "real"
    BY <2>1 DEF NoCall
  <2> QED
    BY <2>1, <2>2, <2>3, <2>4 DEF Fresh
<1>5. ASSUME StartEditWorkflow(t) \/ ReadTarget(t) \/ ValidatePatch(t) \/ GiveUpRepair(t) PROVE Goal
  <2>1. /\ c.at \in {"start", "read", "validate", "repair"} /\ fFile' = fFile
        /\ \/ Fails(t) \/ Goes(t, "read")
           \/ Goes(t, "validate") /\ fFile.exists
           \/ Goes(t, "key") /\ c.at = "validate"
    <3>1. CASE StartEditWorkflow(t) \/ GiveUpRepair(t)
      BY <3>1 DEF StartEditWorkflow, GiveUpRepair, Keep
    <3>2. CASE ReadTarget(t)
      BY <3>2 DEF ReadTarget, Keep
    <3>3. CASE ValidatePatch(t)
      BY <3>3 DEF ValidatePatch, Keep
    <3> QED
      BY <1>5, <3>1, <3>2, <3>3
  <2>2. c.kind # "write" /\ c.key = "real"
    BY <1>3, <2>1
  <2>3. CASE Fails(t)
    <3>1. d.at = "failed" /\ d.key = c.key /\ d.kind = c.kind
      BY <1>3, <2>3 DEF Fails, CallFields
    <3> QED
      BY <2>1, <2>2, <3>1
  <2>4. ASSUME NEW at, Goes(t, at) PROVE d.at = at /\ d.key = c.key /\ d.kind = c.kind
    BY <1>3, <2>4 DEF Goes, CallFields
  <2>5. CASE \/ Goes(t, "read")
             \/ Goes(t, "validate") /\ fFile.exists
             \/ Goes(t, "key") /\ c.at = "validate"
    <3>1. c.at = "validate" => fFile.exists
      BY <1>3, <2>2
    <3> QED
      BY <2>1, <2>2, <2>4, <2>5, <3>1
  <2> QED
    BY <2>1, <2>3, <2>5
<1>6. ASSUME MutationQueueKey(t) PROVE Goal
  <2>1. /\ c.at = "key" /\ fFile' = fFile /\ d.at = "queue" /\ d.kind = c.kind
        /\ d.check = c.check /\ d.error = c.error
        /\ d.key = IF fFile.exists THEN "real" ELSE c.name
    BY <1>3, <1>6 DEF MutationQueueKey, Keep, CallFields
  <2> QED
    BY <1>3, <2>1
<1>7. ASSUME QueueForKey(t) \/ LockQueue(t) \/ UnlockQueue(t) PROVE Goal
  <2>1. /\ c.at \in {"queue", "lock", "unlock"} /\ fFile' = fFile
        /\ d.kind = c.kind /\ d.key = c.key /\ d.check = c.check /\ d.error = c.error
        /\ d.at \in {"lock", "cleanup", "truncate", "apply"}
        /\ d.at = "apply" => c.kind # "write"
    BY <1>3, <1>7 DEF QueueForKey, LockQueue, UnlockQueue, Goes, CallFields
  <2> QED
    BY <1>3, <2>1
<1>8. ASSUME ApplyPatch(t) \/ WriteFails(t) PROVE Goal
  <2>1. /\ c.at \in {"apply", "truncate", "write"} /\ fFile' = fFile
        /\ d.kind = c.kind /\ d.key = c.key /\ d.check = c.check
        /\ d.at = "unlock" \/ (c.at = "apply" /\ d.at = "truncate")
    BY <1>3, <1>8 DEF ApplyPatch, WriteFails, Keep, CallFields
  <2> QED
    BY <1>3, <2>1
<1>9. ASSUME TruncateFile(t) \/ WriteFile(t) PROVE Goal
  <2>1. /\ c.at \in {"truncate", "write"} /\ fFile'.exists
        /\ d.kind = c.kind /\ d.key = c.key /\ d.check = c.check /\ d.error = c.error
        /\ d.at \in {"write", "unlock"}
    BY <1>3, <1>9 DEF TruncateFile, WriteFile, Goes, CallFields
  <2> QED
    BY <1>3, <2>1
<1>10. ASSUME CleanupQueue(t) PROVE Goal
  <2>1. /\ c.at = "cleanup" /\ fFile' = fFile
        /\ d.kind = c.kind /\ d.key = c.key /\ d.check = c.check /\ d.error = c.error
        /\ d.at = IF c.error THEN "failed" ELSE IF c.check THEN "check" ELSE "done"
    BY <1>3, <1>10 DEF CleanupQueue, CallFields
  <2> QED
    BY <1>3, <2>1
<1>11. ASSUME NEW outcome \in CheckOutcomes, RunCheck(t, outcome)
       PROVE  Goal
  <2>1. /\ c.at = "check" /\ fFile' = fFile /\ d.kind = c.kind /\ d.key = c.key
        /\ d.at \in {"failed", "done", "repair"}
    BY <1>3, <1>11 DEF RunCheck, Keep, CallFields, CheckOutcomes
  <2> QED
    BY <1>3, <2>1
<1>12. ASSUME NEW edits \in ModelRepairs, RepairPatch(t, edits)
       PROVE  Goal
  <2>1. /\ c.at = "repair" /\ fFile' = fFile /\ d.kind = c.kind /\ d.key = c.key
        /\ d.at \in {"failed", "validate"}
    BY <1>3, <1>12 DEF RepairPatch, Keep, CallFields
  <2> QED
    BY <1>3, <2>1
<1>13. ASSUME DropCall(t) PROVE Goal
  <2>1. /\ c.at # "dropped" /\ fFile' = fFile /\ d.kind = c.kind /\ d.key = c.key
        /\ d.check = c.check /\ d.error = c.error /\ d.at = "dropped"
    BY <1>3, <1>13 DEF DropCall, CallFields
  <2> QED
    BY <1>3, <2>1
<1> HIDE DEF Goal
<1> QED
  BY <1>2, <1>4, <1>5, <1>6, <1>7, <1>8, <1>9, <1>10, <1>11, <1>12, <1>13 DEF StepOf, CallStep

(* What a step of a call does to the file, to the texts still to be written and to  *)
(* what was lost.                                                                   *)
LEMMA FileMoves ==
    ASSUME EditsShape, NEW t \in FTasks, StepOf(t)
    PROVE  /\ fFile' = fFile \/ TruncateFile(t) \/ WriteFile(t)
           /\ fOrphan' = fOrphan \/ DropCall(t)
           /\ fLost' = fLost \/ TruncateFile(t)
           /\ fTask'[t].at = "truncate" /\ fTask'[t].kind # "write" =>
                fTask'[t].base = fFile.body /\ fFile' = fFile
<1>1. /\ fFile' = fFile \/ TruncateFile(t) \/ WriteFile(t)
      /\ fOrphan' = fOrphan \/ DropCall(t)
      /\ fLost' = fLost \/ TruncateFile(t)
  BY DEF StepOf, CallStep, CallEdit, CallWrite, CallHeal, StartEditWorkflow, ReadTarget,
     ValidatePatch, MutationQueueKey, QueueForKey, LockQueue, ApplyPatch, TruncateFile,
     WriteFile, WriteFails, UnlockQueue, CleanupQueue, GiveUpRepair, RunCheck, RepairPatch,
     DropCall, Keep
<1>2. DOMAIN fTask[t] = CallFields /\ DOMAIN fTask = FTasks
  BY DEF EditsShape
<1>3. CASE ApplyPatch(t)
  BY <1>1, <1>2, <1>3 DEF ApplyPatch, CallFields, Keep
<1>4. CASE LockQueue(t)
  BY <1>1, <1>2, <1>4 DEF LockQueue, Goes, CallFields
<1>5. ASSUME ~ApplyPatch(t), ~LockQueue(t) PROVE fTask'[t].at # "truncate"
  <2>1. ASSUME NEW name \in FNames,
             \/ \E edits \in FEdits : CallEdit(t, name, edits)
             \/ \E body \in FBodies : CallWrite(t, name, body)
             \/ \E edits \in FEdits, strategy \in {"none", "planned", "model"} :
                   CallHeal(t, name, edits, strategy)
        PROVE  fTask'[t].at # "truncate"
    <3>1. PICK n : fTask' = [fTask EXCEPT ![t] = n] /\ n.at \in {"start", "key"}
      BY <2>1, CallMade DEF Fresh
    <3> QED
      BY <1>2, <3>1
  <2>2. CASE StartEditWorkflow(t) \/ ReadTarget(t) \/ ValidatePatch(t) \/ GiveUpRepair(t)
    <3>1. Fails(t) \/ Goes(t, "read") \/ Goes(t, "validate") \/ Goes(t, "key")
      BY <2>2 DEF StartEditWorkflow, ReadTarget, ValidatePatch, GiveUpRepair
    <3> QED
      BY <1>2, <3>1 DEF Fails, Goes, CallFields
  <2>3. CASE \/ MutationQueueKey(t) \/ QueueForKey(t) \/ TruncateFile(t) \/ WriteFile(t)
             \/ WriteFails(t) \/ UnlockQueue(t) \/ CleanupQueue(t) \/ DropCall(t)
    BY <1>2, <2>3 DEF MutationQueueKey, QueueForKey, TruncateFile, WriteFile, WriteFails,
       UnlockQueue, CleanupQueue, DropCall, Goes, CallFields
  <2>4. ASSUME NEW outcome \in CheckOutcomes, RunCheck(t, outcome)
        PROVE  fTask'[t].at # "truncate"
    BY <1>2, <2>4 DEF RunCheck, CallFields, CheckOutcomes
  <2>5. ASSUME NEW edits \in ModelRepairs, RepairPatch(t, edits)
        PROVE  fTask'[t].at # "truncate"
    BY <1>2, <2>5 DEF RepairPatch, CallFields
  <2> QED
    BY <1>5, <2>1, <2>2, <2>3, <2>4, <2>5 DEF StepOf, CallStep
<1> QED
  BY <1>1, <1>3, <1>4, <1>5

(* Calls with one key are not both between lock and unlock.                          *)
LEMMA OneOfKey ==
    ASSUME QueueKept, NEW t \in FTasks, NEW u \in FTasks, t # u, Mutating(t), Mutating(u)
    PROVE  fTask[t].key # fTask[u].key
<1>1. Queued(t) /\ Queued(u)
  BY DEF Queued, Mutating
<1> QED
  BY <1>1 DEF QueueKept

(* Every step of a call keeps what the texts are based on.                           *)
LEMMA StepText ==
    ASSUME MutatorInv, NEW t \in FTasks, StepOf(t)
    PROVE  TextKept'
<1>0. EditsShape /\ QueueKept /\ TextKept
  BY DEF MutatorInv
<1>1. \A u \in FTasks : u # t => fTask'[u] = fTask[u]
  BY <1>0, StepFrame
<1>2. fTask[t].at # "dropped" /\ (fTask'[t].key = fTask[t].key \/ fTask[t].key = "real")
  BY StepPlaces
<1>3. Strays' = {} => Strays = {}
  BY <1>1, <1>2 DEF Strays
<1>4. fOrphan' # {} => \E u \in FTasks : fTask'[u].at = "dropped"
  <2>1. CASE DropCall(t)
    <3>1. fTask'[t].at = "dropped"
      BY <1>0, <2>1 DEF DropCall, EditsShape, CallFields
    <3> QED
      BY <3>1
  <2>2. CASE fOrphan' = fOrphan
    BY <1>0, <1>1, <1>2, <2>2 DEF TextKept
  <2> QED
    BY <1>0, <2>1, <2>2, FileMoves
<1>5. ASSUME Strays' = {}, NEW u \in FTasks, fTask'[u].at = "truncate", fTask'[u].kind # "write"
      PROVE  fTask'[u].base = fFile'.body
  <2>1. CASE u = t
    BY <1>0, <1>5, <2>1, FileMoves
  <2>2. CASE u # t
    <3>1. fTask[u].base = fFile.body /\ fTask'[u] = fTask[u] /\ Mutating(u)
      BY <1>0, <1>1, <1>3, <1>5, <2>2 DEF TextKept, Mutating
    <3>2. ASSUME TruncateFile(t) \/ WriteFile(t) PROVE FALSE
      <4>1. Mutating(t)
        BY <3>2 DEF TruncateFile, WriteFile, Mutating
      <4>2. fTask[t].key = "real" /\ fTask[u].key = "real"
        BY <1>3, <1>5 DEF Strays
      <4> QED
        BY <1>0, <2>2, <3>1, <4>1, <4>2, OneOfKey
    <3> QED
      BY <1>0, <3>1, <3>2, FileMoves
  <2> QED
    BY <2>1, <2>2
<1>6. ASSUME Strays' = {} PROVE fLost' = {}
  <2>1. fLost = {} /\ Strays = {}
    BY <1>0, <1>3, <1>6 DEF TextKept
  <2>2. CASE TruncateFile(t)
    <3>1. fTask[t].kind # "write" => fTask[t].base = fFile.body
      BY <1>0, <2>1, <2>2 DEF TextKept, TruncateFile
    <3> QED
      BY <2>1, <2>2, <3>1 DEF TruncateFile
  <2> QED
    BY <1>0, <2>1, <2>2, FileMoves
<1> QED
  BY <1>4, <1>5, <1>6 DEF TextKept

(* Every step is one of a call, or a late write, which there is only after a drop.   *)
LEMMA StepMutator ==
    ASSUME MutatorInv, [FileEditsNext]_fVars
    PROVE  MutatorInv'
<1>0. EditsShape /\ QueueKept /\ CallPlaces /\ TextKept
  BY DEF MutatorInv
<1>1. ASSUME NEW t \in FTasks, StepOf(t) PROVE MutatorInv'
  BY <1>0, <1>1, StepFrame, StepQueues, StepPlaces, StepText DEF MutatorInv
<1>2. ASSUME NEW body \in fOrphan, OrphanWrites(body) PROVE MutatorInv'
  <2>1. /\ UNCHANGED <<fTask, fQueues, fHeld, fNext, fLost>> /\ fOrphan' = fOrphan \ {body}
        /\ fFile' = [exists |-> TRUE, body |-> body]
    BY <1>2 DEF OrphanWrites
  <2>2. \E t \in FTasks : fTask[t].at = "dropped"
    BY <1>0, <1>2 DEF TextKept
  <2>3. EditsShape'
    BY <1>0, <2>1 DEF EditsShape
  <2>4. QueueKept'
    BY <1>0, <2>1 DEF QueueKept, Queued, Mutating
  <2>5. CallPlaces'
    BY <1>0, <2>1 DEF CallPlaces
  <2>6. TextKept'
    BY <1>0, <2>1, <2>2 DEF TextKept, Strays
  <2> QED
    BY <2>3, <2>4, <2>5, <2>6 DEF MutatorInv
<1>3. CASE UNCHANGED fVars
  <2>1. EditsShape' /\ QueueKept'
    BY <1>0, <1>3 DEF fVars, EditsShape, QueueKept, Queued, Mutating
  <2>2. CallPlaces' /\ TextKept'
    BY <1>0, <1>3 DEF fVars, CallPlaces, TextKept, Strays
  <2> QED
    BY <2>1, <2>2 DEF MutatorInv
<1> QED
  BY <1>1, <1>2, <1>3 DEF FileEditsNext, StepOf

(* Calls of one key are never both between lock and unlock, although queues are      *)
(* thrown away and made anew while calls wait; and no edit replaces a text other     *)
(* than the one it read, unless a call found the file missing under its other name   *)
(* or was dropped while it wrote: for any number of calls, names and repairs.        *)
THEOREM OneMutatorCorrect == FileEditsSpec => []OneMutator
<1>1. MutatorInv => OneMutator
  BY OneOfKey DEF MutatorInv, TextKept, OneMutator
<1> QED
  BY <1>1, InitMutator, StepMutator, PTL DEF FileEditsSpec

(***************************************************************************)
(* The report of a self-healing edit.                                       *)
(***************************************************************************)
\* The places before the write of a round, and those before its check.
BeforeWrite == {"start", "read", "validate", "key", "queue", "lock", "apply", "truncate", "write"}
BeforeCheck == BeforeWrite \cup {"unlock", "cleanup", "check"}

\* What the counters of a self-healing edit say of each other, by its place.
Accounted(c) ==
    /\ c.repairs \in 0..FMaxRepairs /\ c.applied \in Nat /\ c.records \in Nat
    /\ c.checks \in Seq(CheckOutcomes) /\ c.check
    /\ c.applied <= c.repairs + (IF c.at \in BeforeWrite THEN 0 ELSE 1)
    /\ c.records <= c.repairs
    /\ c.at \in BeforeCheck /\ c.repairs > 0 => c.records = c.repairs - 1
    /\ c.at \in {"repair", "done"} => c.records = c.repairs
    /\ c.at = "done" => c.checks # <<>> /\ c.checks[Len(c.checks)] = "pass"
    /\ c.at # "done" => \A i \in DOMAIN c.checks : c.checks[i] # "pass"

HealInv == EditsShape /\ \A t \in FTasks : fTask[t].kind = "heal" => Accounted(fTask[t])

(* A move of a call within a round changes none of what is counted.                  *)
LEMMA SamePart ==
    ASSUME NEW c, NEW d, Accounted(c), c.at # "done", d.at # "done",
           d.repairs = c.repairs, d.applied = c.applied, d.records = c.records,
           d.checks = c.checks, d.check = c.check,
           d.at \in BeforeWrite => c.at \in BeforeWrite,
           d.at \in BeforeCheck => c.at \in BeforeCheck,
           d.at # "repair"
    PROVE  Accounted(d)
<1>1. c.applied \in Nat /\ c.repairs \in Nat
  BY DEF Accounted
<1>2. d.applied <= d.repairs + (IF d.at \in BeforeWrite THEN 0 ELSE 1)
  <2>1. CASE d.at \in BeforeWrite
    BY <2>1 DEF Accounted
  <2>2. CASE d.at \notin BeforeWrite
    <3>1. c.applied <= c.repairs + 1
      BY <1>1 DEF Accounted
    <3> QED
      BY <2>2, <3>1
  <2> QED
    BY <2>1, <2>2
<1> QED
  BY <1>2 DEF Accounted

(* Every step keeps the accounts of the call that takes it.                          *)
LEMMA StepHeal ==
    ASSUME HealInv, NEW t \in FTasks, StepOf(t), fTask'[t].kind = "heal"
    PROVE  Accounted(fTask'[t])
<1> DEFINE c == fTask[t]
           d == fTask'[t]
<1>0. EditsShape /\ DOMAIN c = CallFields /\ DOMAIN fTask = FTasks
  BY DEF HealInv, EditsShape
<1>1. ASSUME c.kind = "heal" PROVE Accounted(c)
  BY <1>1 DEF HealInv
<1>2. ASSUME NEW name \in FNames,
             \/ \E edits \in FEdits : CallEdit(t, name, edits)
             \/ \E body \in FBodies : CallWrite(t, name, body)
             \/ \E edits \in FEdits, strategy \in {"none", "planned", "model"} :
                   CallHeal(t, name, edits, strategy)
      PROVE  Accounted(d)
  <2>1. PICK n : fTask' = [fTask EXCEPT ![t] = n] /\ Fresh(n)
    BY <1>2, CallMade
  <2>2. d = n
    BY <1>0, <2>1
  <2>3. <<>> \in Seq(CheckOutcomes) /\ DOMAIN <<>> = {}
    OBVIOUS
  <2>4. /\ d.at = "start" /\ d.repairs = 0 /\ d.records = 0 /\ d.applied = 0
        /\ d.checks = <<>>
    BY <2>1, <2>2 DEF Fresh
  <2>5. d.check
    BY <2>1, <2>2 DEF Fresh
  <2> QED
    BY <2>3, <2>4, <2>5, FileEditsAssumption DEF Accounted
<1>3. CASE StartEditWorkflow(t) \/ ReadTarget(t) \/ ValidatePatch(t) \/ GiveUpRepair(t)
  <2>1. /\ c.at \in {"start", "read", "validate", "repair"}
        /\ \/ Fails(t)
           \/ Goes(t, "read") /\ c.at = "start"
           \/ Goes(t, "validate") /\ c.at = "read"
           \/ Goes(t, "key") /\ c.at = "validate"
    BY <1>3 DEF StartEditWorkflow, ReadTarget, ValidatePatch, GiveUpRepair
  <2>2. /\ d.kind = c.kind /\ d.repairs = c.repairs /\ d.applied = c.applied
        /\ d.records = c.records /\ d.checks = c.checks /\ d.check = c.check
        /\ \/ d.at = "failed"
           \/ d.at = "read" /\ c.at = "start"
           \/ d.at = "validate" /\ c.at = "read"
           \/ d.at = "key" /\ c.at = "validate"
    BY <1>0, <2>1 DEF Fails, Goes, CallFields
  <2> QED
    BY <1>1, <2>1, <2>2, SamePart DEF BeforeWrite, BeforeCheck
<1>4. CASE MutationQueueKey(t) \/ QueueForKey(t) \/ LockQueue(t) \/ TruncateFile(t)
  <2>1. /\ d.kind = c.kind /\ d.repairs = c.repairs /\ d.applied = c.applied
        /\ d.records = c.records /\ d.checks = c.checks /\ d.check = c.check
        /\ c.at \in {"key", "queue", "lock", "truncate"}
        /\ d.at \in {"queue", "lock", "apply", "truncate", "write"}
    BY <1>0, <1>4 DEF MutationQueueKey, QueueForKey, LockQueue, TruncateFile, Goes, CallFields
  <2> QED
    BY <1>1, <2>1, SamePart DEF BeforeWrite, BeforeCheck
<1>5. CASE ApplyPatch(t) \/ WriteFails(t) \/ UnlockQueue(t) \/ CleanupQueue(t)
  <2>1. /\ d.kind = c.kind /\ d.repairs = c.repairs /\ d.applied = c.applied
        /\ d.records = c.records /\ d.checks = c.checks /\ d.check = c.check
        /\ \/ c.at = "apply" /\ d.at \in {"truncate", "unlock"}
           \/ c.at \in {"truncate", "write"} /\ d.at = "unlock"
           \/ c.at = "unlock" /\ d.at = "cleanup"
           \/ c.at = "cleanup" /\ d.at \in {"failed", "check"}
           \/ c.at = "cleanup" /\ d.at = "done" /\ ~c.check
    BY <1>0, <1>5 DEF ApplyPatch, WriteFails, UnlockQueue, CleanupQueue, Goes, CallFields
  <2>2. c.check /\ Accounted(c)
    BY <1>1, <2>1 DEF Accounted
  <2> QED
    BY <2>1, <2>2, SamePart DEF BeforeWrite, BeforeCheck
<1>6. CASE WriteFile(t)
  <2>1. /\ d.kind = c.kind /\ d.repairs = c.repairs /\ d.applied = c.applied + 1
        /\ d.records = c.records /\ d.checks = c.checks /\ d.check = c.check
        /\ c.at = "write" /\ d.at = "unlock"
    BY <1>0, <1>6 DEF WriteFile, CallFields
  <2>2. Accounted(c)
    BY <1>1, <2>1
  <2> QED
    BY <2>1, <2>2 DEF Accounted, BeforeWrite, BeforeCheck
<1>7. ASSUME NEW outcome \in CheckOutcomes, RunCheck(t, outcome)
      PROVE  Accounted(d)
  <2>1. /\ d.kind = c.kind /\ d.repairs = c.repairs /\ d.applied = c.applied
        /\ d.check = c.check /\ c.at = "check" /\ d.checks = Append(c.checks, outcome)
        /\ d.records = IF c.repairs > 0 /\ outcome # "none" THEN c.records + 1 ELSE c.records
        /\ d.at = CASE outcome = "none" -> "failed" [] outcome = "pass" -> "done"
                     [] outcome = "fail" -> "repair"
    BY <1>0, <1>7 DEF RunCheck, CallFields
  <2>2. Accounted(c)
    BY <1>1, <2>1
  <2>3. /\ c.checks \in Seq(CheckOutcomes) /\ \A i \in DOMAIN c.checks : c.checks[i] # "pass"
        /\ c.applied <= c.repairs + 1 /\ c.repairs \in 0..FMaxRepairs /\ c.applied \in Nat
        /\ c.records \in Nat /\ c.records <= c.repairs
        /\ c.repairs > 0 => c.records = c.repairs - 1
    BY <2>1, <2>2 DEF Accounted, BeforeWrite, BeforeCheck
  <2>4. PICK n \in Nat : n = Len(c.checks)
    BY <2>3
  <2>5. /\ d.checks \in Seq(CheckOutcomes) /\ Len(d.checks) = n + 1 /\ d.checks # <<>>
        /\ d.checks[n + 1] = outcome /\ \A i \in 1..n : d.checks[i] = c.checks[i]
        /\ DOMAIN d.checks = 1..(n + 1) /\ DOMAIN c.checks = 1..n
    BY <2>1, <2>3, <2>4
  <2>6. outcome # "pass" => \A i \in DOMAIN d.checks : d.checks[i] # "pass"
    BY <2>3, <2>5
  <2>7. d.at \in {"failed", "done", "repair"} /\ (d.at = "done" <=> outcome = "pass")
        /\ (d.at \in {"repair", "done"} => outcome # "none")
    BY <2>1 DEF CheckOutcomes
  <2>8. /\ d.records \in Nat /\ d.records <= d.repairs
        /\ d.at \in {"repair", "done"} => d.records = d.repairs
    BY <2>1, <2>3, <2>7
  <2>9. d.check
    BY <2>1, <2>2 DEF Accounted
  <2> QED
    BY <2>1, <2>3, <2>5, <2>6, <2>7, <2>8, <2>9 DEF Accounted, BeforeWrite, BeforeCheck
<1>8. ASSUME NEW edits \in ModelRepairs, RepairPatch(t, edits)
      PROVE  Accounted(d)
  <2>1. /\ d.kind = c.kind /\ d.repairs = c.repairs + 1 /\ d.applied = c.applied
        /\ d.records = c.records /\ d.checks = c.checks /\ d.check = c.check
        /\ c.at = "repair" /\ d.at \in {"failed", "validate"} /\ c.repairs < FMaxRepairs
    BY <1>0, <1>8 DEF RepairPatch, MayRepair, CallFields
  <2>2. Accounted(c)
    BY <1>1, <2>1
  <2> QED
    BY <2>1, <2>2, FileEditsAssumption DEF Accounted, BeforeWrite, BeforeCheck
<1>9. CASE DropCall(t)
  <2>1. /\ d.kind = c.kind /\ d.repairs = c.repairs /\ d.applied = c.applied
        /\ d.records = c.records /\ d.checks = c.checks /\ d.check = c.check
        /\ c.at # "done" /\ d.at = "dropped"
    BY <1>0, <1>9 DEF DropCall, CallFields
  <2> QED
    BY <1>1, <2>1, SamePart DEF BeforeWrite, BeforeCheck
<1> QED
  BY <1>2, <1>3, <1>4, <1>5, <1>6, <1>7, <1>8, <1>9 DEF StepOf, CallStep

(* The report of a self-healing edit is true: it succeeds when its last check passed  *)
(* and fails when none did, every repair whose check ran is recorded, and no more     *)
(* patches are written than the first and one for each repair allowed, wherever       *)
(* other calls and drops come between.                                                *)
THEOREM HealReportCorrect == FileEditsSpec => []HealAccounts
<1>1. FileEditsInit => HealInv
  <2> SUFFICES ASSUME FileEditsInit PROVE HealInv
    OBVIOUS
  <2>1. EditsShape
    BY InitMutator DEF MutatorInv
  <2>2. \A t \in FTasks : fTask[t].kind = "none"
    BY DEF FileEditsInit, NoCall
  <2> QED
    BY <2>1, <2>2 DEF HealInv
<1>2. HealInv /\ [FileEditsNext]_fVars => HealInv'
  <2> SUFFICES ASSUME HealInv, [FileEditsNext]_fVars PROVE HealInv'
    OBVIOUS
  <2>0. EditsShape
    BY DEF HealInv
  <2>1. ASSUME NEW t \in FTasks, StepOf(t) PROVE HealInv'
    <3>1. EditsShape' /\ \A u \in FTasks : u # t => fTask'[u] = fTask[u]
      BY <2>0, <2>1, StepFrame
    <3>2. fTask'[t].kind = "heal" => Accounted(fTask'[t])
      BY <2>1, StepHeal
    <3> QED
      BY <3>1, <3>2 DEF HealInv
  <2>2. ASSUME NEW body \in fOrphan, OrphanWrites(body) PROVE HealInv'
    BY <2>0, <2>2 DEF OrphanWrites, HealInv, EditsShape
  <2>3. CASE UNCHANGED fVars
    BY <2>0, <2>3 DEF fVars, HealInv, EditsShape
  <2> QED
    BY <2>1, <2>2, <2>3 DEF FileEditsNext, StepOf
<1>3. HealInv => HealAccounts
  <2> SUFFICES ASSUME HealInv, NEW t \in FTasks, fTask[t].kind = "heal"
               PROVE  /\ fTask[t].at = "done" => Last(fTask[t].checks) = "pass"
                      /\ fTask[t].at = "failed" =>
                            \A i \in DOMAIN fTask[t].checks : fTask[t].checks[i] # "pass"
                      /\ fTask[t].applied <= 1 + FMaxRepairs
                      /\ fTask[t].records <= fTask[t].repairs
                      /\ fTask[t].at = "done" => fTask[t].records = fTask[t].repairs
    BY DEF HealAccounts
  <2>1. Accounted(fTask[t])
    BY DEF HealInv
  <2>2. /\ fTask[t].applied \in Nat /\ fTask[t].repairs \in Nat
        /\ fTask[t].repairs <= FMaxRepairs /\ FMaxRepairs \in Nat
    BY <2>1, FileEditsAssumption DEF Accounted
  <2>3. fTask[t].applied <= fTask[t].repairs + 1
    BY <2>1, <2>2 DEF Accounted
  <2> QED
    BY <2>1, <2>2, <2>3 DEF Accounted, Last
<1> QED
  BY <1>1, <1>2, <1>3, PTL DEF FileEditsSpec

(***************************************************************************)
(* The settings.                                                           *)
(***************************************************************************)
Fields == {"pc", "open", "sel", "shown", "eff", "ctx", "delta", "text", "store", "saved", "key"}

\* What holds of a process by itself.
ProcessOK(st, env) ==
    \/ st.pc = "down"
    \/ /\ DOMAIN st = Fields /\ st.pc \in {"ready", "saving"}
       /\ st.sel \in 1..Len(GItems)
       /\ st.shown = st.eff /\ st.ctx = st.eff
       /\ DOMAIN st.delta \subseteq Items
       /\ st.saved => st.key = ResolveKey(st.store, env)

\* The global file holds what its last writer changed, and what the person wrote.
WriterKept ==
    \A p \in GProcs :
        gWriter = p /\ gProc[p].pc = "ready" /\ gIntact =>
            \A k \in DOMAIN gProc[p].delta :
                /\ gFiles.global.kind = "table" /\ k \in DOMAIN gFiles.global.at
                /\ gFiles.global.at[k] = gProc[p].delta[k]

FilesShape ==
    /\ DOMAIN gProc = GProcs
    /\ DOMAIN gFiles = {"global", "project"}
    /\ DOMAIN gFiles.global = {"kind", "at"}
    /\ gFiles.global.kind = "absent" => DOMAIN gPersonal = {}
    /\ gFiles.global.kind \in {"table", "bad", "absent"}

SettingsInv ==
    /\ FilesShape /\ WriterKept /\ PersonalKept
    /\ \A p \in GProcs : ProcessOK(gProc[p], gEnv)

(* The selected row is one of those drawn around it.                         *)
LEMMA WindowHolds ==
    ASSUME NEW sel \in 1..Len(GItems)
    PROVE  sel \in Window(sel)
<1>1. PICK L \in Nat \ {0} : L = Len(GItems)
  BY SettingsAssumption
<1>2. PICK h \in Nat : h = GVisible \div 2 /\ 2 * h <= GVisible
  BY SettingsAssumption
<1>3. GVisible \in Nat \ {0} /\ sel \in 1..L
  BY <1>1, SettingsAssumption
<1>4. PICK half \in Int : half = sel - 1 - h
  BY <1>2, <1>3
<1>5. PICK low \in Nat : low = IF half < 0 THEN 0 ELSE half
  <2>1. CASE half < 0
    BY <2>1
  <2>2. CASE ~(half < 0)
    <3>1. half \in Nat
      BY <1>4, <2>2
    <3> QED
      BY <2>2, <3>1
  <2> QED
    BY <2>1, <2>2
<1>6. PICK high \in Nat : high = IF L - GVisible < 0 THEN 0 ELSE L - GVisible
  <2>1. CASE L - GVisible < 0
    BY <2>1
  <2>2. CASE ~(L - GVisible < 0)
    <3>1. L - GVisible \in Nat
      BY <1>1, <1>3, <2>2
    <3> QED
      BY <2>2, <3>1
  <2> QED
    BY <2>1, <2>2
<1>7. PICK from \in Nat : from = IF low < high THEN low ELSE high
  BY <1>5, <1>6
<1>8. Window(sel) = (from + 1) .. (IF from + GVisible < L THEN from + GVisible ELSE L)
  BY <1>1, <1>2, <1>4, <1>5, <1>6, <1>7 DEF Window
<1>9. from + 1 <= sel
  BY <1>2, <1>3, <1>4, <1>5, <1>6, <1>7
<1>10. sel <= from + GVisible
  BY <1>1, <1>2, <1>3, <1>4, <1>5, <1>6, <1>7
<1> QED
  BY <1>1, <1>3, <1>8, <1>9, <1>10

(* What one table over another holds.                                        *)
LEMMA OverHolds ==
    ASSUME NEW over, NEW base
    PROVE  /\ DOMAIN Over(over, base) = DOMAIN over \cup DOMAIN base
           /\ \A k \in DOMAIN over : Over(over, base)[k] = over[k]
           /\ \A k \in DOMAIN base \ DOMAIN over : Over(over, base)[k] = base[k]
BY DEF Over

(* A process as it is launched or reloaded.                                  *)
LEMMA ContextOK ==
    ASSUME NEW delta, DOMAIN delta \subseteq Items
    PROVE  ProcessOK(Context(delta), gEnv) /\ Context(delta).delta = delta
           /\ Context(delta).pc = "ready"
<1>1. PICK n : n = Context(delta)
  OBVIOUS
<1>2. /\ DOMAIN n = Fields /\ n.pc = "ready" /\ n.sel = 1 /\ n.shown = n.eff /\ n.ctx = n.eff
      /\ n.delta = delta
  BY <1>1 DEF Context, Fields, BuildList, LoadSettings, ResolveSettings
<1>3. n.key = ResolveKey(n.store, gEnv)
  BY <1>1 DEF Context
<1>4. 1 \in 1..Len(GItems)
  BY SettingsAssumption
<1> QED
  BY <1>1, <1>2, <1>3, <1>4 DEF ProcessOK

(* A change of a setting.                                                    *)
LEMMA ApplyOK ==
    ASSUME NEW st, ProcessOK(st, gEnv), st.pc = "ready", NEW item \in Items, NEW value
    PROVE  /\ ProcessOK(ApplyValue(st, item, value), gEnv)
           /\ ApplyValue(st, item, value).pc = "ready"
           /\ DOMAIN ApplyValue(st, item, value) = Fields
<1>1. PICK n : n = ApplyValue(st, item, value)
  OBVIOUS
<1>2. /\ DOMAIN st = Fields /\ st.shown = st.eff /\ st.sel \in 1..Len(GItems)
      /\ DOMAIN st.delta \subseteq Items /\ (st.saved => st.key = ResolveKey(st.store, gEnv))
  BY DEF ProcessOK
<1>3. /\ DOMAIN n = Fields /\ n.pc = st.pc /\ n.sel = st.sel
      /\ n.shown = [st.shown EXCEPT ![item] = value]
      /\ n.eff = [st.eff EXCEPT ![item] = value] /\ n.ctx = [st.eff EXCEPT ![item] = value]
      /\ n.delta = Over(Entry(item, value), st.delta)
      /\ n.saved = st.saved /\ n.key = st.key /\ n.store = st.store
  <2>1. PICK shown, eff, delta :
          /\ shown = [st.shown EXCEPT ![item] = value] /\ eff = [st.eff EXCEPT ![item] = value]
          /\ delta = Over(Entry(item, value), st.delta)
    OBVIOUS
  <2>2. n = [st EXCEPT !.shown = shown, !.eff = eff, !.ctx = eff, !.delta = delta]
    BY <1>1, <1>2, <2>1 DEF ApplyValue, Fields
  <2> QED
    BY <1>2, <2>1, <2>2 DEF Fields
<1>4. DOMAIN n.delta \subseteq Items
  <2>1. DOMAIN Entry(item, value) = {item}
    BY DEF Entry
  <2>2. DOMAIN n.delta = DOMAIN Entry(item, value) \cup DOMAIN st.delta
    BY <1>3 DEF Over
  <2> QED
    BY <1>2, <2>1, <2>2
<1> QED
  BY <1>1, <1>2, <1>3, <1>4 DEF ProcessOK

(* The first state.                                                          *)
LEMMA InitSettings == SettingsInit => SettingsInv
<1> SUFFICES ASSUME SettingsInit PROVE SettingsInv
  OBVIOUS
<1>1. FilesShape
  BY DEF SettingsInit, FilesShape, NoFile, NoTable
<1>2. gWriter = "none" /\ gPersonal = NoTable /\ \A p \in GProcs : gProc[p] = Down
  BY DEF SettingsInit
<1>3. WriterKept
  BY <1>2, SettingsAssumption DEF WriterKept
<1>4. PersonalKept
  BY <1>2 DEF PersonalKept, NoTable
<1>5. \A p \in GProcs : ProcessOK(gProc[p], gEnv)
  BY <1>2 DEF ProcessOK, Down
<1> QED
  BY <1>1, <1>3, <1>4, <1>5 DEF SettingsInv

(* A step of one process that writes no file keeps the invariant when it keeps its    *)
(* own state, and what it changed stays what its last write left in the global file.  *)
LEMMA ProcessStep ==
    ASSUME SettingsInv, NEW p \in GProcs, NEW n, gProc' = [gProc EXCEPT ![p] = n],
           ProcessOK(n, gEnv), UNCHANGED <<gFiles, gEnv, gPersonal>>, gIntact' = gIntact,
           \/ gWriter' = "none"
           \/ gWriter' = gWriter /\ n.pc # "ready"
           \/ gWriter' = gWriter /\ gProc[p].pc = "ready" /\ n.delta = gProc[p].delta
           \/ gWriter' = gWriter /\ DOMAIN n.delta = {}
    PROVE  SettingsInv'
<1>0. /\ FilesShape /\ WriterKept /\ PersonalKept
      /\ \A q \in GProcs : ProcessOK(gProc[q], gEnv)
  BY DEF SettingsInv
<1>1. gProc'[p] = n /\ \A q \in GProcs : q # p => gProc'[q] = gProc[q]
  BY <1>0 DEF FilesShape
<1>2. FilesShape' /\ PersonalKept'
  BY <1>0 DEF FilesShape, PersonalKept
<1>3. WriterKept'
  <2> SUFFICES ASSUME NEW q \in GProcs, gWriter' = q, gProc'[q].pc = "ready", gIntact,
                      NEW k \in DOMAIN gProc'[q].delta
               PROVE  /\ gFiles.global.kind = "table" /\ k \in DOMAIN gFiles.global.at
                      /\ gFiles.global.at[k] = gProc'[q].delta[k]
    BY DEF WriterKept
  <2>1. gWriter' = gWriter
    BY SettingsAssumption
  <2> QED
    BY <1>0, <1>1, <2>1, SettingsAssumption DEF WriterKept
<1>4. \A q \in GProcs : ProcessOK(gProc'[q], gEnv')
  BY <1>0, <1>1
<1> QED
  BY <1>2, <1>3, <1>4 DEF SettingsInv

(* A write of the settings leaves what this process changed over what it read.        *)
LEMMA WriteKeeps ==
    ASSUME SettingsInv, NEW p \in GProcs, WriteSettings(p)
    PROVE  SettingsInv'
<1>0. /\ FilesShape /\ WriterKept /\ PersonalKept
      /\ \A q \in GProcs : ProcessOK(gProc[q], gEnv)
  BY DEF SettingsInv
<1>1. PICK text, delta : text = gProc[p].text /\ delta = gProc[p].delta
  OBVIOUS
<1>2. PICK at : at = MergeTables(text, delta)
  OBVIOUS
<1>3. /\ gFiles' = [gFiles EXCEPT !.global = [kind |-> "table", at |-> at]]
      /\ gProc' = [gProc EXCEPT ![p].pc = "ready", ![p].text = NoFile]
      /\ gWriter' = p /\ UNCHANGED <<gEnv, gPersonal>>
      /\ gIntact' <=> gIntact /\ text = gFiles.global /\ gFiles.global.kind # "bad"
  BY <1>1, <1>2 DEF WriteSettings
<1>4. DOMAIN gProc[p] = Fields /\ DOMAIN delta \subseteq Items /\ gProc[p].pc = "saving"
  BY <1>0, <1>1 DEF ProcessOK, WriteSettings
<1>5. gProc'[p] = [gProc[p] EXCEPT !.pc = "ready", !.text = NoFile]
      /\ \A q \in GProcs : q # p => gProc'[q] = gProc[q]
  BY <1>0, <1>3 DEF FilesShape
<1>6. PICK n : n = gProc'[p]
  OBVIOUS
<1>7. /\ DOMAIN n = Fields /\ n.pc = "ready" /\ n.delta = delta /\ n.sel = gProc[p].sel
      /\ n.shown = gProc[p].shown /\ n.eff = gProc[p].eff /\ n.ctx = gProc[p].ctx
      /\ n.saved = gProc[p].saved /\ n.key = gProc[p].key /\ n.store = gProc[p].store
  BY <1>1, <1>4, <1>5, <1>6 DEF Fields
<1>8. ProcessOK(n, gEnv)
  BY <1>0, <1>4, <1>7, <1>1 DEF ProcessOK
<1>9. /\ gFiles'.global.kind = "table" /\ gFiles'.global.at = at
      /\ DOMAIN gFiles' = {"global", "project"} /\ DOMAIN gFiles'.global = {"kind", "at"}
  BY <1>0, <1>3 DEF FilesShape
<1>10. /\ DOMAIN delta \subseteq DOMAIN at /\ \A k \in DOMAIN delta : at[k] = delta[k]
       /\ text.kind = "table" => /\ DOMAIN text.at \subseteq DOMAIN at
                                 /\ \A k \in DOMAIN text.at \ DOMAIN delta : at[k] = text.at[k]
  BY <1>2 DEF MergeTables, Over
<1>11. WriterKept'
  BY <1>3, <1>6, <1>7, <1>9, <1>10 DEF WriterKept
<1>12. PersonalKept'
  <2> SUFFICES ASSUME gIntact', NEW k \in DOMAIN gPersonal
               PROVE  k \in DOMAIN at /\ (k \notin Items => at[k] = gPersonal[k])
    BY <1>3, <1>9 DEF PersonalKept
  <2>1. gIntact /\ text = gFiles.global /\ gFiles.global.kind = "table"
    BY <1>0, <1>3 DEF FilesShape
  <2>2. k \in DOMAIN text.at /\ (k \notin Items => text.at[k] = gPersonal[k])
    BY <1>0, <2>1 DEF PersonalKept
  <2> QED
    BY <1>4, <1>10, <2>1, <2>2
<1>13. FilesShape'
  <2>1. DOMAIN gProc' = GProcs
    BY <1>0, <1>3 DEF FilesShape
  <2> QED
    BY <1>9, <2>1 DEF FilesShape
<1>14. \A q \in GProcs : ProcessOK(gProc'[q], gEnv')
  BY <1>0, <1>3, <1>5, <1>6, <1>8
<1> QED
  BY <1>11, <1>12, <1>13, <1>14 DEF SettingsInv

(* Every step keeps the invariant.                                           *)
LEMMA StepSettings ==
    ASSUME SettingsInv, [SettingsNext]_gVars
    PROVE  SettingsInv'
<1>0. /\ FilesShape /\ WriterKept /\ PersonalKept
      /\ \A q \in GProcs : ProcessOK(gProc[q], gEnv)
  BY DEF SettingsInv
<1>1. ASSUME NEW p \in GProcs, Launch(p) PROVE SettingsInv'
  <2>1. DOMAIN NoTable = {}
    BY DEF NoTable
  <2>2. ProcessOK(Context(NoTable), gEnv) /\ Context(NoTable).delta = NoTable
    BY <2>1, ContextOK
  <2> QED
    BY <1>1, <2>1, <2>2, ProcessStep DEF Launch
<1>2. ASSUME NEW p \in GProcs, Reload(p) PROVE SettingsInv'
  <2>1. DOMAIN gProc[p].delta \subseteq Items /\ gProc[p].pc = "ready"
    BY <1>0, <1>2 DEF ProcessOK, Reload
  <2>2. PICK n : n = Context(gProc[p].delta)
    OBVIOUS
  <2>3. ProcessOK(n, gEnv) /\ n.delta = gProc[p].delta
    BY <2>1, <2>2, ContextOK
  <2> QED
    BY <1>2, <2>1, <2>2, <2>3, ProcessStep DEF Reload
<1>3. ASSUME NEW p \in GProcs, NEW n, gProc[p].pc = "ready", ProcessOK(gProc[p], gEnv),
             gProc' = [gProc EXCEPT ![p] = n], UNCHANGED <<gFiles, gEnv, gWriter, gIntact, gPersonal>>,
             ProcessOK(n, gEnv), n.delta = gProc[p].delta
      PROVE  SettingsInv'
  BY <1>3, ProcessStep
<1>4. ASSUME NEW p \in GProcs, ToggleMenu(p) PROVE SettingsInv'
  <2>1. PICK n : n = [gProc[p] EXCEPT !.open = ~gProc[p].open]
    OBVIOUS
  <2>2. gProc' = [gProc EXCEPT ![p] = n] /\ gProc[p].pc = "ready"
    BY <1>0, <1>4, <2>1 DEF ToggleMenu, FilesShape
  <2>3. ProcessOK(n, gEnv) /\ n.delta = gProc[p].delta
    BY <1>0, <2>1, <2>2 DEF ProcessOK, Fields
  <2> QED
    BY <1>0, <1>3, <1>4, <2>2, <2>3 DEF ToggleMenu
<1>5. ASSUME NEW p \in GProcs, MoveSelection(p) PROVE SettingsInv'
  <2>1. PICK delta \in {-1, 1, -GVisible, GVisible} :
          gProc' = [gProc EXCEPT ![p].sel = ((@ - 1 + delta) % Len(GItems)) + 1]
    BY <1>5 DEF MoveSelection
  <2>2. PICK sel : sel = ((gProc[p].sel - 1 + delta) % Len(GItems)) + 1
    OBVIOUS
  <2>3. PICK n : n = [gProc[p] EXCEPT !.sel = sel]
    OBVIOUS
  <2>4. gProc' = [gProc EXCEPT ![p] = n] /\ gProc[p].pc = "ready"
    BY <1>0, <1>5, <2>1, <2>2, <2>3 DEF MoveSelection, FilesShape
  <2>5. DOMAIN gProc[p] = Fields /\ gProc[p].sel \in 1..Len(GItems)
    BY <1>0, <2>4 DEF ProcessOK
  <2>6. sel \in 1..Len(GItems)
    <3>1. PICK L \in Nat \ {0} : L = Len(GItems)
      BY SettingsAssumption
    <3>2. PICK x \in Int : x = gProc[p].sel - 1 + delta
      BY <2>5, <3>1, SettingsAssumption
    <3>3. x % L \in 0..(L - 1)
      BY <3>1, <3>2
    <3> QED
      BY <2>2, <3>1, <3>2, <3>3
  <2>7. ProcessOK(n, gEnv) /\ n.delta = gProc[p].delta
    BY <1>0, <2>3, <2>4, <2>5, <2>6 DEF ProcessOK, Fields
  <2> QED
    BY <1>0, <1>3, <1>5, <2>4, <2>7 DEF MoveSelection
<1>6. ASSUME NEW p \in GProcs, Change(p) PROVE SettingsInv'
  <2>1. gProc[p].pc = "ready" /\ gProc[p].sel \in 1..Len(GItems) /\ ProcessOK(gProc[p], gEnv)
    BY <1>0, <1>6 DEF ProcessOK, Change
  <2>2. PICK item \in Items : item = GItems[gProc[p].sel]
    BY <2>1, SettingsAssumption DEF Items
  <2>3. PICK value : value = NextChoice(item, gProc[p].shown[item])
    OBVIOUS
  <2>4. PICK n : n = ApplyValue(gProc[p], item, value)
    OBVIOUS
  <2>5. ProcessOK(n, gEnv) /\ n.pc = "ready" /\ DOMAIN n = Fields
    BY <2>1, <2>4, ApplyOK
  <2>6. PICK m : m = [n EXCEPT !.pc = "saving", !.text = gFiles.global]
    OBVIOUS
  <2>7. ProcessOK(m, gEnv) /\ m.pc = "saving"
    BY <2>5, <2>6 DEF ProcessOK, Fields
  <2>8. /\ UNCHANGED <<gFiles, gEnv, gIntact, gPersonal>>
        /\ \/ gProc' = [gProc EXCEPT ![p] = m] /\ gWriter' = gWriter
           \/ gProc' = [gProc EXCEPT ![p] = n] /\ gWriter' = "none"
    BY <1>6, <2>2, <2>3, <2>4, <2>6 DEF Change
  <2> QED
    BY <2>5, <2>7, <2>8, ProcessStep
<1>7. ASSUME NEW p \in GProcs, SaveFails(p) PROVE SettingsInv'
  <2>1. PICK n : n = [gProc[p] EXCEPT !.pc = "ready", !.text = NoFile]
    OBVIOUS
  <2>2. gProc' = [gProc EXCEPT ![p] = n] /\ gProc[p].pc = "saving"
    BY <1>0, <1>7, <2>1 DEF SaveFails, FilesShape
  <2>3. ProcessOK(n, gEnv)
    BY <1>0, <2>1, <2>2 DEF ProcessOK, Fields
  <2> QED
    BY <1>7, <2>2, <2>3, ProcessStep DEF SaveFails
<1>8. ASSUME NEW p \in GProcs, Ends(p) PROVE SettingsInv'
  <2>1. gProc' = [gProc EXCEPT ![p] = Down] /\ UNCHANGED <<gEnv, gPersonal>>
    BY <1>8 DEF Ends
  <2>2. Down.pc = "down" /\ ProcessOK(Down, gEnv)
    BY DEF Down, ProcessOK
  <2>3. CASE UNCHANGED <<gFiles, gIntact, gWriter>>
    BY <2>1, <2>2, <2>3, ProcessStep
  <2>4. CASE gProc[p].pc = "saving" /\ ~UNCHANGED <<gFiles, gIntact, gWriter>>
    <3>1. PICK kind \in {"table", "bad"} :
             gFiles' = [gFiles EXCEPT !.global = [kind |-> kind, at |-> NoTable]]
      BY <1>8, <2>4 DEF Ends
    <3>2. gIntact' = FALSE
      BY <1>8, <2>4 DEF Ends
    <3>3. FilesShape'
      BY <1>0, <2>1, <3>1 DEF FilesShape
    <3>4. WriterKept' /\ PersonalKept'
      BY <3>2 DEF WriterKept, PersonalKept
    <3>5. \A q \in GProcs : ProcessOK(gProc'[q], gEnv')
      BY <1>0, <2>1, <2>2 DEF FilesShape
    <3> QED
      BY <3>3, <3>4, <3>5 DEF SettingsInv
  <2> QED
    BY <1>8, <2>3, <2>4 DEF Ends
<1>9. ASSUME NEW p \in GProcs, LoginOrOut(p) PROVE SettingsInv'
  <2>1. /\ gProc[p].pc = "ready" /\ UNCHANGED <<gFiles, gEnv, gWriter, gIntact, gPersonal>>
        /\ \E store : SaveAuth(p, store) \/ SaveAuthFails(p, store)
    BY <1>9 DEF LoginOrOut
  <2>2. PICK store : SaveAuth(p, store) \/ SaveAuthFails(p, store)
    BY <2>1
  <2>3. DOMAIN gProc[p] = Fields
    BY <1>0, <2>1 DEF ProcessOK
  <2>4. CASE SaveAuth(p, store)
    <3>1. PICK n : n = [gProc[p] EXCEPT !.store = store, !.saved = TRUE,
                                        !.key = ResolveKey(store, gEnv)]
      OBVIOUS
    <3>2. gProc' = [gProc EXCEPT ![p] = n]
      BY <1>0, <2>4, <3>1 DEF SaveAuth, FilesShape
    <3>3. /\ DOMAIN n = Fields /\ n.pc = "ready" /\ n.sel = gProc[p].sel
          /\ n.shown = gProc[p].shown /\ n.eff = gProc[p].eff /\ n.ctx = gProc[p].ctx
          /\ n.delta = gProc[p].delta /\ n.store = store /\ n.key = ResolveKey(store, gEnv)
      BY <2>1, <2>3, <3>1 DEF Fields
    <3>4. ProcessOK(n, gEnv)
      BY <1>0, <2>1, <3>3 DEF ProcessOK
    <3> QED
      BY <1>0, <1>3, <2>1, <3>2, <3>3, <3>4
  <2>5. CASE SaveAuthFails(p, store)
    <3>1. PICK n : n = [gProc[p] EXCEPT !.store = store, !.saved = FALSE]
      OBVIOUS
    <3>2. gProc' = [gProc EXCEPT ![p] = n]
      BY <1>0, <2>5, <3>1 DEF SaveAuthFails, FilesShape
    <3>3. /\ DOMAIN n = Fields /\ n.pc = "ready" /\ n.sel = gProc[p].sel
          /\ n.shown = gProc[p].shown /\ n.eff = gProc[p].eff /\ n.ctx = gProc[p].ctx
          /\ n.delta = gProc[p].delta
      BY <2>1, <2>3, <3>1 DEF Fields
    <3>4. n.saved = FALSE
      BY <2>3, <3>1 DEF Fields
    <3>5. ProcessOK(n, gEnv)
      BY <1>0, <2>1, <3>3, <3>4 DEF ProcessOK
    <3> QED
      BY <1>0, <1>3, <2>1, <3>2, <3>3, <3>5
  <2> QED
    BY <2>2, <2>4, <2>5
<1>10. CASE PersonEdits
  <2>0. UNCHANGED <<gEnv, gProc>>
    BY <1>10 DEF PersonEdits
  <2>1. \A q \in GProcs : ProcessOK(gProc'[q], gEnv')
    BY <1>0, <2>0
  <2>2. CASE UNCHANGED <<gFiles, gWriter, gPersonal, gIntact>>
    <3>1. FilesShape' /\ WriterKept' /\ PersonalKept'
      BY <1>0, <2>0, <2>2 DEF FilesShape, WriterKept, PersonalKept
    <3> QED
      BY <2>1, <3>1 DEF SettingsInv
  <2>3. ASSUME NEW at, NEW kind \in {"table", "bad"},
               gFiles' = [gFiles EXCEPT !.global = [kind |-> kind, at |-> at]],
               gWriter' = "none", gPersonal' = at
        PROVE  SettingsInv'
    <3>1. /\ gFiles'.global.kind = kind /\ gFiles'.global.at = at
          /\ DOMAIN gFiles' = {"global", "project"} /\ DOMAIN gFiles'.global = {"kind", "at"}
      BY <1>0, <2>3 DEF FilesShape
    <3>2. FilesShape'
      BY <1>0, <2>0, <3>1 DEF FilesShape
    <3>3. WriterKept'
      BY <2>3, SettingsAssumption DEF WriterKept
    <3>4. PersonalKept'
      BY <2>3, <3>1 DEF PersonalKept
    <3> QED
      BY <2>1, <3>2, <3>3, <3>4 DEF SettingsInv
  <2>4. ASSUME NEW at, NEW kind \in {"table", "bad"},
               gFiles' = [gFiles EXCEPT !.project = [kind |-> kind, at |-> at]],
               UNCHANGED <<gWriter, gPersonal, gIntact>>
        PROVE  SettingsInv'
    <3>1. gFiles'.global = gFiles.global /\ DOMAIN gFiles' = {"global", "project"}
      BY <1>0, <2>4 DEF FilesShape
    <3>2. FilesShape' /\ WriterKept' /\ PersonalKept'
      BY <1>0, <2>0, <2>4, <3>1 DEF FilesShape, WriterKept, PersonalKept
    <3> QED
      BY <2>1, <3>2 DEF SettingsInv
  <2> QED
    BY <1>10, <2>2, <2>3, <2>4 DEF PersonEdits
<1>11. CASE UNCHANGED gVars
  <2>1. FilesShape' /\ WriterKept' /\ PersonalKept'
    BY <1>0, <1>11 DEF gVars, FilesShape, WriterKept, PersonalKept
  <2>2. \A q \in GProcs : ProcessOK(gProc'[q], gEnv')
    BY <1>0, <1>11 DEF gVars
  <2> QED
    BY <2>1, <2>2 DEF SettingsInv
<1> QED
  BY <1>1, <1>2, <1>4, <1>5, <1>6, <1>7, <1>8, <1>9, <1>10, <1>11, WriteKeeps DEF SettingsNext

(* Whatever several processes, an editor, failed saves and crashes do to the files:    *)
(* every process shows the settings it uses and uses the key its store resolves to;    *)
(* what a process changed is what a launch reads back, as long as its save was the     *)
(* last; and no process's write over a file it read takes out what a person wrote.     *)
THEOREM SettingsCorrect == SettingsSpec => []SettingsKept
<1>1. SettingsInv => SettingsKept
  <2> SUFFICES ASSUME SettingsInv PROVE SettingsKept
    OBVIOUS
  <2>0. /\ FilesShape /\ WriterKept /\ PersonalKept
        /\ \A q \in GProcs : ProcessOK(gProc[q], gEnv)
    BY DEF SettingsInv
  <2>1. ShownIsUsed
    BY <2>0, WindowHolds DEF ShownIsUsed, Live, ProcessOK
  <2>2. KeyIsCurrent
    BY <2>0 DEF KeyIsCurrent, Live, ProcessOK
  <2>3. ChangesLast
    <3> SUFFICES ASSUME NEW p \in Live, gWriter = p, gProc[p].pc = "ready", gIntact,
                        NEW k \in DOMAIN gProc[p].delta,
                        "odd" \notin DOMAIN gFiles.global.at,
                        k \notin DOMAIN LoadPartial(gFiles.project)
                 PROVE  LoadSettings(gFiles)[k] = gProc[p].delta[k]
      BY DEF ChangesLast
    <3>1. /\ gFiles.global.kind = "table" /\ k \in DOMAIN gFiles.global.at
          /\ gFiles.global.at[k] = gProc[p].delta[k]
      BY <2>0 DEF WriterKept, Live
    <3>2. k \in Items
      BY <2>0 DEF ProcessOK, Live
    <3>3. LoadPartial(gFiles.global) = gFiles.global.at
      BY <3>1 DEF LoadPartial
    <3>4. PICK m : m = MergePartial(LoadPartial(gFiles.global), LoadPartial(gFiles.project))
      OBVIOUS
    <3>5. k \in DOMAIN m /\ m[k] = gProc[p].delta[k]
      BY <3>1, <3>3, <3>4 DEF MergePartial
    <3> QED
      BY <3>2, <3>4, <3>5 DEF LoadSettings, ResolveSettings
  <2> QED
    BY <2>0, <2>1, <2>2, <2>3 DEF SettingsKept
<1> QED
  BY <1>1, InitSettings, StepSettings, PTL DEF SettingsSpec
=============================================================================
