------------------------- MODULE EventStreamProofs -------------------------
(***************************************************************************)
(* Proofs about the event stream, for every number of emitters and clients, *)
(* every capacity and every number of events.                               *)
(***************************************************************************)
EXTENDS EventStream, FiniteSetTheorems, TLAPS

(* Retaining an event keeps a sequence of numbers.                           *)
LEMMA RetainType ==
    ASSUME NEW window \in Seq(Nat), NEW s \in Nat
    PROVE  Retain(window, s) \in Seq(Nat)
BY CapacityAssumption DEF Retain

(* A window that is not empty starts with a number that is at least 1.       *)
LEMMA WindowStart ==
    ASSUME TypeOK, RetainedWindow, retained # <<>>
    PROVE  /\ Len(retained) \in Nat \ {0}
           /\ retained[1] = next - Len(retained)
           /\ retained[1] \in Nat \ {0}
<1>1. Len(retained) \in Nat \ {0}
  BY DEF TypeOK
<1>2. 1 \in 1..Len(retained)
  BY <1>1
<1>3. retained[1] = next - Len(retained)
  BY <1>1, <1>2 DEF TypeOK, RetainedWindow
<1>4. Len(retained) <= next - 1
  BY <1>1, CapacityAssumption DEF TypeOK, RetainedWindow
<1> QED
  BY <1>1, <1>3, <1>4 DEF TypeOK

(* A replay is a set of numbers, and its base is a number.                   *)
LEMMA ReplayType ==
    ASSUME TypeOK, RetainedWindow, NEW cur \in Nat
    PROVE  /\ Replay(cur) \in SUBSET Nat
           /\ ReplayBase(cur) \in Nat
<1>1. Replay(cur) \in SUBSET Nat
  BY DEF TypeOK, Replay, Elements
<1>2. ReplayBase(cur) \in Nat
  BY WindowStart DEF ReplayBase
<1> QED
  BY <1>1, <1>2

(* The cursors a client presents are numbers.                                *)
LEMMA CursorsType ==
    ASSUME TypeOK, NEW c \in Clients, NEW cur \in Cursors(c)
    PROVE  cur \in Nat
BY DEF TypeOK, Cursors

(* Applying a replay keeps the client's state well typed.                    *)
LEMMA ApplyReplayType ==
    ASSUME TypeOK, RetainedWindow, NEW c \in Clients, NEW cur \in Cursors(c),
           ApplyReplay(c, cur)
    PROVE  /\ applied' \in [Clients -> SUBSET Nat]
           /\ forgone' \in [Clients -> SUBSET Nat]
           /\ cursor' \in [Clients -> Nat]
<1>1. cur \in Nat /\ Replay(cur) \in SUBSET Nat /\ ReplayBase(cur) \in Nat
  BY CursorsType, ReplayType
<1>2. applied' \in [Clients -> SUBSET Nat]
  BY <1>1 DEF TypeOK, ApplyReplay
<1>3. (cur + 1)..ReplayBase(cur) \in SUBSET Nat
  BY <1>1
<1>4. forgone' \in [Clients -> SUBSET Nat]
  BY <1>3 DEF TypeOK, ApplyReplay
<1>5. cursor' \in [Clients -> Nat]
  BY DEF TypeOK, ApplyReplay
<1> QED
  BY <1>2, <1>4, <1>5

(* Init satisfies the type invariant and the window invariant.               *)
LEMMA InitSafe == Init => TypeOK /\ RetainedWindow /\ NoHandoffOmission
<1> SUFFICES ASSUME Init PROVE TypeOK /\ RetainedWindow /\ NoHandoffOmission
  OBVIOUS
<1>1. TypeOK
  BY DEF Init, TypeOK, Modes
<1>2. RetainedWindow
  BY CapacityAssumption DEF Init, RetainedWindow
<1>3. NoHandoffOmission
  BY DEF Init, NoHandoffOmission
<1> QED
  BY <1>1, <1>2, <1>3

(* Every step keeps the type invariant; the window invariant is needed for    *)
(* the base of a replay.                                                      *)
LEMMA StepType ==
    ASSUME TypeOK, RetainedWindow, [Next]_vars
    PROVE  TypeOK'
<1>1. CASE UNCHANGED vars
  BY <1>1 DEF TypeOK, vars
<1>2. ASSUME NEW e \in Emitters, Stamp(e) PROVE TypeOK'
  <2>1. retained' \in Seq(Nat)
    BY <1>2, RetainType DEF TypeOK, Stamp
  <2>2. next' \in Nat \ {0}
    BY <1>2 DEF TypeOK, Stamp
  <2>3. droppedBefore' \in Nat
    <3>1. CASE Len(retained) = RetainedCapacity
      <4>1. Retain(retained, next) \in Seq(Nat)
        BY RetainType DEF TypeOK
      <4>2. Len(Retain(retained, next)) >= 1
        BY <3>1, CapacityAssumption DEF TypeOK, Retain
      <4>3. 1 \in 1..Len(Retain(retained, next))
        BY <4>1, <4>2
      <4> QED
        BY <1>2, <3>1, <4>1, <4>3 DEF TypeOK, Stamp
    <3>2. CASE Len(retained) # RetainedCapacity
      BY <1>2, <3>2 DEF TypeOK, Stamp
    <3> QED
      BY <3>1, <3>2
  <2>4. inflight' \in [Emitters -> Nat]
    BY <1>2 DEF TypeOK, Stamp
  <2> QED
    BY <1>2, <2>1, <2>2, <2>3, <2>4 DEF TypeOK, Stamp, clientVars
<1>3. ASSUME NEW e \in Emitters, Send(e) PROVE TypeOK'
  BY <1>3 DEF TypeOK, Send, clientVars
<1>4. ASSUME NEW c \in Clients, Reconnect(c) PROVE TypeOK'
  <2>1. PICK cur \in Cursors(c) : ReconnectReady(c, cur) \/ ReconnectGap(c, cur)
    BY <1>4 DEF Reconnect
  <2>2. CASE ReconnectReady(c, cur)
    <3>1. /\ applied' \in [Clients -> SUBSET Nat]
          /\ forgone' \in [Clients -> SUBSET Nat]
          /\ cursor' \in [Clients -> Nat]
      BY <2>2, ApplyReplayType DEF ReconnectReady
    <3>2. Replay(cur) \in SUBSET Nat /\ ReplayBase(cur) \in Nat
      BY CursorsType, ReplayType
    <3>3. /\ mode' \in [Clients -> Modes]
          /\ pos' \in [Clients -> Nat]
          /\ base' \in [Clients -> Nat]
          /\ got' \in [Clients -> SUBSET Nat]
          /\ again' \in [Clients -> SUBSET Nat]
      BY <2>2, <3>2 DEF TypeOK, ReconnectReady, Modes
    <3> QED
      BY <2>2, <3>1, <3>3 DEF TypeOK, ReconnectReady, stream
  <2>3. CASE ReconnectGap(c, cur)
    BY <2>3 DEF TypeOK, ReconnectGap, Modes, stream
  <2> QED
    BY <2>1, <2>2, <2>3
<1>5. ASSUME NEW c \in Clients, ReplayAndKeep(c) PROVE TypeOK'
  <2>1. /\ applied' \in [Clients -> SUBSET Nat]
        /\ forgone' \in [Clients -> SUBSET Nat]
        /\ cursor' \in [Clients -> Nat]
    BY <1>5, ApplyReplayType DEF ReplayAndKeep
  <2>2. acked' \in [Clients -> Nat]
    BY <1>5 DEF TypeOK, ReplayAndKeep, Larger
  <2> QED
    BY <1>5, <2>1, <2>2 DEF TypeOK, ReplayAndKeep, stream
<1>6. ASSUME NEW c \in Clients, Subscribe(c) PROVE TypeOK'
  BY <1>6 DEF TypeOK, Subscribe, Modes, stream
<1>7. ASSUME NEW c \in Clients, FreshSnapshot(c) PROVE TypeOK'
  <2>1. mode' \in [Clients -> Modes]
    BY <1>7 DEF TypeOK, FreshSnapshot, Modes
  <2>2. next - 1 \in Nat /\ 1..(next - 1) \in SUBSET Nat
    BY DEF TypeOK
  <2>3. /\ base' \in [Clients -> Nat]
        /\ got' \in [Clients -> SUBSET Nat]
        /\ again' \in [Clients -> SUBSET Nat]
        /\ applied' \in [Clients -> SUBSET Nat]
        /\ cursor' \in [Clients -> Nat]
    BY <1>7, <2>2 DEF TypeOK, FreshSnapshot
  <2> QED
    BY <1>7, <2>1, <2>3 DEF TypeOK, FreshSnapshot, stream
<1>8. ASSUME NEW c \in Clients, Recv(c) PROVE TypeOK'
  <2>1. sent[pos[c] + 1] \in Nat
    BY <1>8 DEF TypeOK, Recv
  <2>2. /\ got' \in [Clients -> SUBSET Nat]
        /\ again' \in [Clients -> SUBSET Nat]
        /\ applied' \in [Clients -> SUBSET Nat]
    BY <1>8, <2>1 DEF TypeOK, Recv
  <2>3. cursor' \in [Clients -> Nat] /\ pos' \in [Clients -> Nat]
    BY <1>8, <2>1 DEF TypeOK, Recv, Larger
  <2> QED
    BY <1>8, <2>2, <2>3 DEF TypeOK, Recv, stream
<1>9. ASSUME NEW c \in Clients, RecvLagged(c) PROVE TypeOK'
  <2>1. Len(sent) - ChannelCapacity \in Nat
    BY <1>9, CapacityAssumption DEF TypeOK, RecvLagged, Lagged
  <2>2. mode' \in [Clients -> Modes] /\ pos' \in [Clients -> Nat]
    BY <1>9, <2>1 DEF TypeOK, RecvLagged, Modes
  <2> QED
    BY <1>9, <2>2 DEF TypeOK, RecvLagged, stream
<1>10. ASSUME NEW c \in Clients, Acknowledge(c) PROVE TypeOK'
  BY <1>10 DEF TypeOK, Acknowledge, Larger, stream
<1>11. ASSUME NEW c \in Clients, Leave(c) PROVE TypeOK'
  BY <1>11 DEF TypeOK, Leave, Modes, stream
<1> QED
  BY <1>1, <1>2, <1>3, <1>4, <1>5, <1>6, <1>7, <1>8, <1>9, <1>10, <1>11 DEF Next

(* Every step keeps the window: only Stamp changes it, and it appends the     *)
(* next number and evicts the first element of a full window.                 *)
LEMMA StepWindow ==
    ASSUME TypeOK, RetainedWindow, [Next]_vars
    PROVE  RetainedWindow'
<1>1. ASSUME NEW e \in Emitters, Stamp(e) PROVE RetainedWindow'
  <2>1. retained' = Retain(retained, next) /\ next' = next + 1
    BY <1>1 DEF Stamp
  <2>2. Len(retained) \in Nat /\ next \in Nat \ {0} /\ retained \in Seq(Nat)
    BY DEF TypeOK
  <2>3. CASE Len(retained) = RetainedCapacity
    <3>1. next - 1 >= RetainedCapacity
      BY <2>2, <2>3, CapacityAssumption DEF RetainedWindow
    <3>2. retained # <<>> /\ Tail(retained) \in Seq(Nat)
          /\ Len(Tail(retained)) = Len(retained) - 1
      BY <2>2, <2>3, CapacityAssumption
    <3>3. retained' = Append(Tail(retained), next)
      BY <2>1, <2>3 DEF Retain
    <3>4. Len(retained') = RetainedCapacity
      BY <2>3, <3>2, <3>3, <2>2
    <3>5. ASSUME NEW i \in 1..Len(retained')
          PROVE  retained'[i] = next' - 1 - Len(retained') + i
      <4>1. CASE i = RetainedCapacity
        BY <2>1, <2>2, <2>3, <3>2, <3>3, <3>4, <4>1, CapacityAssumption
      <4>2. CASE i # RetainedCapacity
        <5>1. i \in 1..Len(Tail(retained)) /\ i + 1 \in 1..Len(retained)
          BY <2>3, <3>2, <3>4, <4>2, CapacityAssumption
        <5>2. retained'[i] = retained[i + 1]
          BY <2>2, <3>2, <3>3, <5>1
        <5>3. retained[i + 1] = next - 1 - Len(retained) + (i + 1)
          BY <5>1 DEF RetainedWindow
        <5> QED
          BY <2>1, <2>2, <2>3, <3>4, <5>2, <5>3, CapacityAssumption
      <4> QED
        BY <4>1, <4>2
    <3>6. droppedBefore' = retained'[1]
      BY <1>1, <2>1, <2>3 DEF Stamp
    <3> QED
      BY <2>1, <2>2, <3>1, <3>4, <3>5, <3>6, CapacityAssumption DEF RetainedWindow
  <2>4. CASE Len(retained) # RetainedCapacity
    <3>1. Len(retained) = next - 1 /\ next - 1 < RetainedCapacity
      BY <2>2, <2>4, CapacityAssumption DEF RetainedWindow
    <3>2. retained' = Append(retained, next)
      BY <2>1, <2>4 DEF Retain
    <3>3. Len(retained') = next
      BY <2>2, <3>1, <3>2
    <3>4. ASSUME NEW i \in 1..Len(retained')
          PROVE  retained'[i] = next' - 1 - Len(retained') + i
      <4>1. CASE i = next
        BY <2>1, <2>2, <3>1, <3>2, <3>3, <4>1
      <4>2. CASE i # next
        <5>1. i \in 1..Len(retained)
          BY <2>2, <3>1, <3>3, <4>2
        <5>2. retained'[i] = retained[i]
          BY <2>2, <3>2, <5>1
        <5>3. retained[i] = next - 1 - Len(retained) + i
          BY <5>1 DEF RetainedWindow
        <5> QED
          BY <2>1, <2>2, <3>1, <3>3, <5>2, <5>3
      <4> QED
        BY <4>1, <4>2
    <3>5. droppedBefore' = 0
      BY <1>1, <2>2, <2>4, <3>1, CapacityAssumption DEF Stamp, RetainedWindow
    <3> QED
      BY <2>1, <2>2, <3>1, <3>3, <3>4, <3>5, CapacityAssumption DEF RetainedWindow
  <2> QED
    BY <2>3, <2>4
<1>2. ASSUME UNCHANGED <<next, retained, droppedBefore>> PROVE RetainedWindow'
  BY <1>2 DEF RetainedWindow
<1>3. ASSUME NEW e \in Emitters, Send(e) PROVE RetainedWindow'
  BY <1>2, <1>3 DEF Send
<1>4. ASSUME NEW c \in Clients,
             \/ Reconnect(c) \/ ReplayAndKeep(c) \/ Subscribe(c) \/ FreshSnapshot(c)
             \/ Recv(c) \/ RecvLagged(c) \/ Acknowledge(c) \/ Leave(c)
      PROVE  RetainedWindow'
  BY <1>2, <1>4 DEF Reconnect, ReconnectReady, ReconnectGap, ReplayAndKeep, Subscribe,
     FreshSnapshot, Recv, RecvLagged, Acknowledge, Leave, stream
<1>5. CASE UNCHANGED vars
  BY <1>2, <1>5 DEF vars
<1> QED
  BY <1>1, <1>3, <1>4, <1>5 DEF Next

(* What a Ready reconnect has to hand over is all in its replay: what follows *)
(* the base of the replay is in the window and after the cursor.              *)
LEMMA ReplayComplete ==
    ASSUME TypeOK, RetainedWindow, NEW cur \in Nat,
           NEW s \in (ReplayBase(cur) + 1)..(next - 1)
    PROVE  s \in Replay(cur)
<1>1. Len(retained) \in Nat /\ next \in Nat \ {0} /\ ReplayBase(cur) \in Nat
  BY ReplayType DEF TypeOK
<1>2. retained # <<>>
  BY <1>1, CapacityAssumption DEF RetainedWindow
<1>3. retained[1] = next - Len(retained) /\ retained[1] \in Nat \ {0}
  BY <1>2, WindowStart
<1>4. s \in Nat /\ s > cur /\ s >= retained[1]
  BY <1>1, <1>2, <1>3 DEF ReplayBase
<1>5. s - retained[1] + 1 \in 1..Len(retained)
  BY <1>1, <1>3, <1>4
<1>6. retained[s - retained[1] + 1] = next - 1 - Len(retained) + (s - retained[1] + 1)
  BY <1>5 DEF RetainedWindow
<1>7. retained[s - retained[1] + 1] = s
  BY <1>1, <1>3, <1>4, <1>6
<1> QED
  BY <1>4, <1>5, <1>7 DEF Replay, Elements

\* No receiver is past the end of the channel.
ReceiverInChannel == \A c \in Clients : pos[c] <= Len(sent)

(* Every step keeps the receivers within the channel.                         *)
LEMMA StepReceiver ==
    ASSUME TypeOK, ReceiverInChannel, [Next]_vars
    PROVE  ReceiverInChannel'
<1> SUFFICES ASSUME NEW k \in Clients PROVE pos'[k] <= Len(sent')
  BY DEF ReceiverInChannel
<1> USE DEF TypeOK, ReceiverInChannel
<1>1. ASSUME NEW e \in Emitters, Send(e) PROVE pos'[k] <= Len(sent')
  BY <1>1 DEF Send, clientVars
<1>2. ASSUME UNCHANGED <<pos, sent>> PROVE pos'[k] <= Len(sent')
  BY <1>2
<1>3. ASSUME NEW e \in Emitters, Stamp(e) PROVE pos'[k] <= Len(sent')
  BY <1>2, <1>3 DEF Stamp, clientVars
<1>4. ASSUME NEW c \in Clients, Reconnect(c) \/ Subscribe(c) PROVE pos'[k] <= Len(sent')
  <2>1. \/ UNCHANGED <<pos, sent>>
        \/ pos' = [pos EXCEPT ![c] = Len(sent)] /\ sent' = sent
    BY <1>4, Zenon DEF Reconnect, ReconnectReady, ReconnectGap, Subscribe, stream
  <2>2. CASE UNCHANGED <<pos, sent>>
    BY <1>2, <2>2
  <2>3. CASE pos' = [pos EXCEPT ![c] = Len(sent)] /\ sent' = sent
    <3>1. Len(sent) <= Len(sent)
      OBVIOUS
    <3> QED
      BY <2>3, <3>1
  <2> QED
    BY <2>1, <2>2, <2>3
<1>5. ASSUME NEW c \in Clients, Recv(c) PROVE pos'[k] <= Len(sent')
  BY <1>5 DEF Recv, stream
<1>6. ASSUME NEW c \in Clients, RecvLagged(c) PROVE pos'[k] <= Len(sent')
  <2>1. pos' = [pos EXCEPT ![c] = Len(sent) - ChannelCapacity] /\ sent' = sent
    BY <1>6 DEF RecvLagged, stream
  <2>2. Len(sent) - ChannelCapacity <= Len(sent)
    BY CapacityAssumption
  <2> QED
    BY <2>1, <2>2
<1>7. ASSUME NEW c \in Clients,
             ReplayAndKeep(c) \/ FreshSnapshot(c) \/ Acknowledge(c) \/ Leave(c)
      PROVE  pos'[k] <= Len(sent')
  BY <1>2, <1>7 DEF ReplayAndKeep, FreshSnapshot, Acknowledge, Leave, stream
<1>8. CASE UNCHANGED vars
  BY <1>2, <1>8 DEF vars
<1> QED
  BY <1>1, <1>3, <1>4, <1>5, <1>6, <1>7, <1>8 DEF Next

(* Every step keeps the replay/live cut free of omissions.                    *)
LEMMA StepHandoff ==
    ASSUME TypeOK, RetainedWindow, ReceiverInChannel, NoHandoffOmission, [Next]_vars
    PROVE  NoHandoffOmission'
<1> SUFFICES ASSUME NEW k \in Clients, mode'[k] = "live",
                    NEW s \in (base'[k] + 1)..(next' - 1)
             PROVE  s \in got'[k] \/ Coming(k, s)'
  BY DEF NoHandoffOmission
<1> USE DEF TypeOK
<1>1. ASSUME NEW e \in Emitters, Stamp(e) PROVE s \in got'[k] \/ Coming(k, s)'
  <2>1. CASE s = next
    BY <1>1, <2>1 DEF Stamp, Coming, clientVars
  <2>2. CASE s # next
    <3>1. s \in got[k] \/ Coming(k, s)
      BY <1>1, <2>2 DEF Stamp, NoHandoffOmission, clientVars
    <3>2. s # 0
      BY <1>1 DEF Stamp, clientVars
    <3> QED
      BY <1>1, <3>1, <3>2 DEF Stamp, Coming, clientVars
  <2> QED
    BY <2>1, <2>2
<1>2. ASSUME NEW e \in Emitters, Send(e) PROVE s \in got'[k] \/ Coming(k, s)'
  <2>1. s \in got[k] \/ Coming(k, s)
    BY <1>2 DEF Send, NoHandoffOmission, clientVars
  <2>2. CASE \E i \in (pos[k] + 1)..Len(sent) : sent[i] = s
    <3>1. PICK i \in (pos[k] + 1)..Len(sent) : sent[i] = s
      BY <2>2
    <3>2. i \in (pos'[k] + 1)..Len(sent') /\ sent'[i] = s
      BY <1>2, <3>1 DEF Send, clientVars
    <3> QED
      BY <3>2 DEF Coming
  <2>3. CASE \E d \in Emitters : inflight[d] = s
    <3>1. PICK d \in Emitters : inflight[d] = s
      BY <2>3
    <3>2. CASE d = e
      <4>1. /\ Len(sent) + 1 \in (pos'[k] + 1)..Len(sent')
            /\ sent'[Len(sent) + 1] = s
        BY <1>2, <3>1, <3>2 DEF Send, clientVars, ReceiverInChannel
      <4> QED
        BY <4>1 DEF Coming
    <3>3. CASE d # e
      BY <1>2, <3>1, <3>3 DEF Send, Coming
    <3> QED
      BY <3>2, <3>3
  <2>4. CASE s \in got[k]
    BY <1>2, <2>4 DEF Send, clientVars
  <2> QED
    BY <2>1, <2>2, <2>3, <2>4 DEF Coming
<1>3. ASSUME UNCHANGED <<next, inflight, sent, pos, base, got>>, mode[k] = "live"
      PROVE  s \in got'[k] \/ Coming(k, s)'
  <2>1. s \in got[k] \/ Coming(k, s)
    BY <1>3 DEF NoHandoffOmission
  <2> QED
    BY <1>3, <2>1 DEF Coming
<1>4. ASSUME NEW c \in Clients, Reconnect(c) PROVE s \in got'[k] \/ Coming(k, s)'
  <2>1. PICK cur \in Cursors(c) : ReconnectReady(c, cur) \/ ReconnectGap(c, cur)
    BY <1>4 DEF Reconnect
  <2>2. cur \in Nat
    BY CursorsType
  <2>3. CASE ReconnectReady(c, cur) /\ k = c
    <3>1. s \in (ReplayBase(cur) + 1)..(next - 1)
      BY <2>3 DEF ReconnectReady, stream
    <3>2. s \in Replay(cur)
      BY <2>2, <3>1, ReplayComplete
    <3> QED
      BY <2>3, <3>2 DEF ReconnectReady
  <2>4. CASE ReconnectReady(c, cur) /\ k # c
    <3>1. s \in got[k] \/ Coming(k, s)
      BY <2>4 DEF ReconnectReady, NoHandoffOmission, stream
    <3> QED
      BY <2>4, <3>1 DEF ReconnectReady, Coming, stream
  <2>5. CASE ReconnectGap(c, cur)
    BY <1>3, <2>5 DEF ReconnectGap, stream
  <2> QED
    BY <2>1, <2>3, <2>4, <2>5
<1>5. ASSUME NEW c \in Clients, Subscribe(c) \/ FreshSnapshot(c)
      PROVE  s \in got'[k] \/ Coming(k, s)'
  <2>1. k # c
    BY <1>5 DEF Subscribe, FreshSnapshot, stream
  <2>2. s \in got[k] \/ Coming(k, s)
    BY <1>5, <2>1 DEF Subscribe, FreshSnapshot, NoHandoffOmission, stream
  <2> QED
    BY <1>5, <2>1, <2>2 DEF Subscribe, FreshSnapshot, Coming, stream
<1>6. ASSUME NEW c \in Clients, Recv(c) PROVE s \in got'[k] \/ Coming(k, s)'
  <2>1. s \in got[k] \/ Coming(k, s)
    BY <1>6 DEF Recv, NoHandoffOmission, stream
  <2>2. CASE s \in got[k]
    BY <1>6, <2>2 DEF Recv
  <2>3. CASE \E e \in Emitters : inflight[e] = s
    BY <1>6, <2>3 DEF Recv, Coming, stream
  <2>4. CASE \E i \in (pos[k] + 1)..Len(sent) : sent[i] = s
    <3>1. PICK i \in (pos[k] + 1)..Len(sent) : sent[i] = s
      BY <2>4
    <3>2. CASE k = c /\ i = pos[k] + 1
      BY <1>6, <3>1, <3>2 DEF Recv
    <3>3. CASE ~(k = c /\ i = pos[k] + 1)
      <4>1. i \in (pos'[k] + 1)..Len(sent') /\ sent'[i] = s
        BY <1>6, <3>1, <3>3 DEF Recv, stream
      <4> QED
        BY <4>1 DEF Coming
    <3> QED
      BY <3>2, <3>3
  <2> QED
    BY <2>1, <2>2, <2>3, <2>4 DEF Coming
<1>7. ASSUME NEW c \in Clients, RecvLagged(c) PROVE s \in got'[k] \/ Coming(k, s)'
  <2>1. k # c
    BY <1>7 DEF RecvLagged
  <2>2. s \in got[k] \/ Coming(k, s)
    BY <1>7, <2>1 DEF RecvLagged, NoHandoffOmission, stream
  <2> QED
    BY <1>7, <2>1, <2>2 DEF RecvLagged, Coming, stream
<1>8. ASSUME NEW c \in Clients, ReplayAndKeep(c) \/ Acknowledge(c) \/ Leave(c)
      PROVE  s \in got'[k] \/ Coming(k, s)'
  BY <1>3, <1>8 DEF ReplayAndKeep, Acknowledge, Leave, stream
<1>9. CASE UNCHANGED vars
  BY <1>3, <1>9 DEF vars
<1> QED
  BY <1>1, <1>2, <1>4, <1>5, <1>6, <1>7, <1>8, <1>9 DEF Next

(* The inductive invariant: a receiver's replay is complete because the       *)
(* window has no hole, and what is broadcast lands ahead of every receiver.   *)
StreamInv ==
    TypeOK /\ RetainedWindow /\ ReceiverInChannel /\ NoHandoffOmission

(* The inductive invariant holds in every reachable state.                    *)
LEMMA StreamInvariant == Spec => []StreamInv
<1>1. Init => StreamInv
  <2>1. Init => ReceiverInChannel
    BY DEF Init, ReceiverInChannel
  <2> QED
    BY <2>1, InitSafe DEF StreamInv
<1>2. StreamInv /\ [Next]_vars => StreamInv'
  BY StepType, StepWindow, StepReceiver, StepHandoff DEF StreamInv
<1> QED
  BY <1>1, <1>2, PTL DEF Spec

(* EventService and its clients keep well-typed state.                        *)
THEOREM TypeCorrect == Spec => []TypeOK
<1>1. StreamInv => TypeOK
  BY DEF StreamInv
<1> QED
  BY <1>1, StreamInvariant, PTL

(* retained_product_events is the newest events without a hole, and           *)
(* dropped_before agrees with it, for every capacity and every interleaving   *)
(* of emitters.                                                               *)
THEOREM WindowCorrect == Spec => []RetainedWindow
<1>1. StreamInv => RetainedWindow
  BY DEF StreamInv
<1> QED
  BY <1>1, StreamInvariant, PTL

(* A reconnect that answers Ready loses no event at the cut between its       *)
(* replay and its receiver, whatever emitters and clients interleave.         *)
THEOREM HandoffCorrect == Spec => []NoHandoffOmission
<1>1. StreamInv => NoHandoffOmission
  BY DEF StreamInv
<1> QED
  BY <1>1, StreamInvariant, PTL

(***************************************************************************)
(* The clients: what a cursor has passed is covered, and every step of the   *)
(* stream is a step of EventFeed.                                            *)
(*                                                                           *)
(* This needs the broadcasts to come in the order of the numbers, which the   *)
(* code does not enforce but has: the product emits its events from the one   *)
(* task that polls run().  With two emitters the second number could be       *)
(* broadcast first and the adapter would skip the first.                      *)
(***************************************************************************)
\* Product events come from one task.
OneEmitter == \E e : Emitters = {e}

\* The broadcasts are the numbers in order, but for the one in flight.
InOrder ==
    /\ \A i \in 1..Len(sent) : sent[i] = i
    /\ \A e \in Emitters :
        IF inflight[e] = 0 THEN Len(sent) = next - 1
        ELSE inflight[e] = next - 1 /\ Len(sent) = next - 2

\* c applied the events up to n, was told of them by a snapshot, or did without them.
Covered(c, n) == 1..n \subseteq applied[c] \cup forgone[c]

\* No cursor, base or acknowledgement is ahead of the stream, and what a cursor
\* or a receiver has passed is covered.
ClientBehind(c) ==
    /\ cursor[c] <= next - 1
    /\ base[c] <= next - 1
    /\ acked[c] <= cursor[c]
    /\ Covered(c, cursor[c])
    /\ mode[c] = "live" => Covered(c, pos[c])

\* Only the event that was in flight at the cut can come twice, and once it has,
\* nothing the client holds is ahead of its receiver.
OverlapsOnce(c) ==
    /\ again[c] = {} \/ \E s : again[c] = {s}
    /\ mode[c] = "live" => \/ again[c] = {} /\ got[c] \subseteq 1..(pos[c] + 1)
                           \/ got[c] \subseteq 1..pos[c]

\* The inductive invariant of a stream with one emitter.
FeedInv ==
    /\ StreamInv
    /\ InOrder
    /\ \A c \in Clients : ClientBehind(c) /\ OverlapsOnce(c)

(* The one emitter of OneEmitter.                                            *)
LEMMA TheEmitter ==
    ASSUME OneEmitter, NEW d \in Emitters, NEW e \in Emitters
    PROVE  d = e
BY DEF OneEmitter

(* Init satisfies the invariant.                                             *)
LEMMA InitFeed == Init => FeedInv
<1> SUFFICES ASSUME Init PROVE FeedInv
  OBVIOUS
<1>1. StreamInv
  BY InitSafe DEF StreamInv, ReceiverInChannel, Init
<1>2. InOrder
  BY DEF Init, InOrder
<1>3. ASSUME NEW c \in Clients PROVE ClientBehind(c) /\ OverlapsOnce(c)
  BY DEF Init, ClientBehind, OverlapsOnce, Covered
<1> QED
  BY <1>1, <1>2, <1>3 DEF FeedInv

(* Stamp and Send of the one emitter keep the broadcasts in order.           *)
LEMMA StepOrder ==
    ASSUME OneEmitter, TypeOK, InOrder, [Next]_vars
    PROVE  InOrder'
<1> USE DEF TypeOK
<1>1. ASSUME NEW e \in Emitters, Stamp(e) PROVE InOrder'
  <2>1. \A d \in Emitters : d = e
    BY TheEmitter
  <2>2. /\ next' = next + 1 /\ inflight'[e] = next /\ sent' = sent /\ inflight[e] = 0
    BY <1>1 DEF Stamp
  <2> QED
    BY <2>1, <2>2 DEF InOrder
<1>2. ASSUME NEW e \in Emitters, Send(e) PROVE InOrder'
  <2>1. \A d \in Emitters : d = e
    BY TheEmitter
  <2>2. /\ sent' = Append(sent, inflight[e]) /\ next' = next
        /\ inflight'[e] = 0 /\ inflight[e] # 0
    BY <1>2 DEF Send
  <2>3. inflight[e] = next - 1 /\ Len(sent) = next - 2 /\ Len(sent') = next - 1
    BY <2>2 DEF InOrder
  <2>4. \A i \in 1..Len(sent') : sent'[i] = i
    BY <2>2, <2>3 DEF InOrder
  <2> QED
    BY <2>1, <2>2, <2>3, <2>4 DEF InOrder
<1>3. ASSUME UNCHANGED stream PROVE InOrder'
  BY <1>3 DEF InOrder, stream
<1>4. ASSUME NEW c \in Clients,
             \/ Reconnect(c) \/ ReplayAndKeep(c) \/ Subscribe(c) \/ FreshSnapshot(c)
             \/ Recv(c) \/ RecvLagged(c) \/ Acknowledge(c) \/ Leave(c)
      PROVE  InOrder'
  BY <1>3, <1>4 DEF Reconnect, ReconnectReady, ReconnectGap, ReplayAndKeep, Subscribe,
     FreshSnapshot, Recv, RecvLagged, Acknowledge, Leave
<1>5. CASE UNCHANGED vars
  BY <1>3, <1>5 DEF vars, stream
<1> QED
  BY <1>1, <1>2, <1>4, <1>5 DEF Next

(* The channel holds no more than was numbered.                              *)
LEMMA ChannelBehind ==
    ASSUME OneEmitter, TypeOK, InOrder
    PROVE  Len(sent) \in Nat /\ Len(sent) <= next - 1 /\ next - 2 <= Len(sent)
<1>1. PICK e : Emitters = {e}
  BY DEF OneEmitter
<1> QED
  BY <1>1 DEF InOrder, TypeOK

(* A replay stays behind the stream, and so does its base.                   *)
LEMMA ReplayBehind ==
    ASSUME TypeOK, RetainedWindow, NEW cur \in Nat, cur <= next - 1
    PROVE  /\ Replay(cur) \subseteq 1..(next - 1)
           /\ ReplayBase(cur) \in Nat
           /\ ReplayBase(cur) <= next - 1
<1>1. Len(retained) \in Nat /\ next \in Nat \ {0}
  BY DEF TypeOK
<1>2. ASSUME NEW s \in Replay(cur) PROVE s \in 1..(next - 1)
  <2>1. PICK i \in 1..Len(retained) : s = retained[i]
    BY <1>2 DEF Replay, Elements
  <2>2. s = next - 1 - Len(retained) + i /\ s > cur
    BY <1>2, <2>1 DEF RetainedWindow, Replay
  <2> QED
    BY <1>1, <2>1, <2>2
<1>3. ReplayBase(cur) \in Nat /\ ReplayBase(cur) <= next - 1
  <2>1. CASE retained # <<>> /\ cur < retained[1]
    BY <1>1, <2>1, WindowStart DEF ReplayBase
  <2>2. CASE ~(retained # <<>> /\ cur < retained[1])
    BY <2>2 DEF ReplayBase
  <2> QED
    BY <2>1, <2>2
<1> QED
  BY <1>2, <1>3

(* A replay that is not refused brings the adapter to the newest event, and   *)
(* what it passes is applied or, below the window, done without.              *)
LEMMA ReplayCatchesUp ==
    ASSUME TypeOK, RetainedWindow, NEW c \in Clients, ClientBehind(c),
           NEW cur \in Cursors(c), ~IsGap(cur), ApplyReplay(c, cur)
    PROVE  /\ cursor' = [cursor EXCEPT ![c] = next - 1]
           /\ 1..(next - 1) \subseteq applied'[c] \cup forgone'[c]
<1> DEFINE news == {s \in Replay(cur) : s > cursor[c]}
<1>1. /\ cur \in Nat /\ cursor[c] \in Nat /\ next \in Nat \ {0}
      /\ cur <= cursor[c] /\ cursor[c] <= next - 1
  BY DEF TypeOK, Cursors, ClientBehind
<1>2. /\ applied'[c] = applied[c] \cup news
      /\ forgone'[c] = forgone[c] \cup (cur + 1)..ReplayBase(cur)
      /\ cursor' = [cursor EXCEPT ![c] = IF news = {} THEN cursor[c] ELSE next - 1]
  BY DEF ApplyReplay, TypeOK
<1>3. ASSUME NEW s \in (cursor[c] + 1)..(next - 1), s > ReplayBase(cur)
      PROVE  s \in news
  <2>1. s \in (ReplayBase(cur) + 1)..(next - 1)
    BY <1>1, <1>3, ReplayBehind
  <2> QED
    BY <1>1, <2>1, ReplayComplete
<1>4. ASSUME NEW s \in (cursor[c] + 1)..(next - 1), s <= ReplayBase(cur)
      PROVE  s \in (cur + 1)..ReplayBase(cur)
  BY <1>1, <1>4, ReplayBehind
<1>5. 1..(next - 1) \subseteq applied'[c] \cup forgone'[c]
  <2> SUFFICES ASSUME NEW s \in 1..(next - 1)
               PROVE  s \in applied'[c] \cup forgone'[c]
    OBVIOUS
  <2>1. CASE s \in 1..cursor[c]
    BY <1>2, <2>1 DEF ClientBehind, Covered
  <2>2. CASE s \in (cursor[c] + 1)..(next - 1)
    <3>1. s \in Nat /\ ReplayBase(cur) \in Nat
      BY <1>1, ReplayBehind
    <3>2. s > ReplayBase(cur) \/ s <= ReplayBase(cur)
      BY <3>1
    <3> QED
      BY <1>2, <1>3, <1>4, <2>2, <3>2
  <2> QED
    BY <1>1, <2>1, <2>2
<1>6. CASE news = {}
  <2>1. ReplayBase(cur) = next - 1 \/ cursor[c] = next - 1 \/ next - 1 \in news
    <3>1. CASE cursor[c] < next - 1 /\ ReplayBase(cur) < next - 1
      <4>1. next - 1 \in (cursor[c] + 1)..(next - 1) /\ next - 1 > ReplayBase(cur)
        BY <1>1, <3>1, ReplayBehind
      <4> QED
        BY <1>3, <4>1
    <3> QED
      BY <1>1, <3>1, ReplayBehind
  <2>2. ReplayBase(cur) = next - 1 => cur = next - 1
    <3>1. CASE retained # <<>> /\ cur < retained[1]
      <4>1. Len(retained) \in Nat \ {0} /\ retained[1] = next - Len(retained)
        BY <3>1, WindowStart
      <4>2. ReplayBase(cur) = retained[1] - 1
        BY <3>1 DEF ReplayBase
      <4> QED
        BY <1>1, <4>1, <4>2
    <3>2. CASE ~(retained # <<>> /\ cur < retained[1])
      BY <3>2 DEF ReplayBase
    <3> QED
      BY <3>1, <3>2
  <2>3. cursor[c] = next - 1
    BY <1>1, <1>6, <2>1, <2>2
  <2> QED
    BY <1>2, <1>5, <1>6, <2>3
<1>7. CASE news # {}
  BY <1>2, <1>5, <1>7
<1> QED
  BY <1>6, <1>7

(* A client that a step leaves alone stays behind the stream, which only     *)
(* grows.                                                                     *)
LEMMA OtherClient ==
    ASSUME TypeOK, NEW k \in Clients, ClientBehind(k), OverlapsOnce(k),
           next' \in Nat, next <= next',
           cursor'[k] = cursor[k], base'[k] = base[k], acked'[k] = acked[k],
           applied'[k] = applied[k], forgone'[k] = forgone[k], pos'[k] = pos[k],
           got'[k] = got[k], again'[k] = again[k],
           mode'[k] = "live" => mode[k] = "live"
    PROVE  ClientBehind(k)' /\ OverlapsOnce(k)'
<1>1. ClientBehind(k)'
  BY DEF TypeOK, ClientBehind, Covered
<1>2. OverlapsOnce(k)'
  BY DEF OverlapsOnce
<1> QED
  BY <1>1, <1>2

(* Every step keeps every client behind the stream, covered, and within one   *)
(* duplicate.                                                                 *)
LEMMA StepClients ==
    ASSUME OneEmitter, FeedInv, [Next]_vars, NEW k \in Clients
    PROVE  ClientBehind(k)' /\ OverlapsOnce(k)'
<1>0. /\ TypeOK /\ RetainedWindow /\ ReceiverInChannel /\ InOrder
      /\ ClientBehind(k) /\ OverlapsOnce(k)
  BY DEF FeedInv, StreamInv
<1>a. /\ next \in Nat \ {0} /\ Len(sent) \in Nat /\ Len(sent) <= next - 1
      /\ next - 2 <= Len(sent)
  BY <1>0, ChannelBehind DEF TypeOK
<1>1. ASSUME NEW e \in Emitters, Stamp(e) \/ Send(e)
      PROVE  ClientBehind(k)' /\ OverlapsOnce(k)'
  <2>1. UNCHANGED clientVars /\ next' \in Nat /\ next <= next'
    BY <1>1, <1>0 DEF Stamp, Send, TypeOK
  <2> QED
    BY <1>0, <2>1, OtherClient DEF clientVars
<1>2. ASSUME NEW c \in Clients, c # k,
             \/ Reconnect(c) \/ ReplayAndKeep(c) \/ Subscribe(c) \/ FreshSnapshot(c)
             \/ Recv(c) \/ RecvLagged(c) \/ Acknowledge(c) \/ Leave(c)
      PROVE  ClientBehind(k)' /\ OverlapsOnce(k)'
  <2>1. next' = next
    BY <1>2 DEF Reconnect, ReconnectReady, ReconnectGap, ReplayAndKeep, Subscribe,
       FreshSnapshot, Recv, RecvLagged, Acknowledge, Leave, stream
  <2>2. /\ cursor'[k] = cursor[k] /\ base'[k] = base[k] /\ acked'[k] = acked[k]
        /\ applied'[k] = applied[k] /\ forgone'[k] = forgone[k] /\ pos'[k] = pos[k]
        /\ got'[k] = got[k] /\ again'[k] = again[k] /\ mode'[k] = mode[k]
    BY <1>0, <1>2 DEF TypeOK, Reconnect, ReconnectReady, ReconnectGap, ReplayAndKeep,
       Subscribe, FreshSnapshot, Recv, RecvLagged, Acknowledge, Leave, ApplyReplay
  <2> QED
    BY <1>0, <1>a, <2>1, <2>2, OtherClient
<1>3. ASSUME Reconnect(k) PROVE ClientBehind(k)' /\ OverlapsOnce(k)'
  <2>1. PICK cur \in Cursors(k) : ReconnectReady(k, cur) \/ ReconnectGap(k, cur)
    BY <1>3 DEF Reconnect
  <2>2. CASE ReconnectGap(k, cur)
    <3>1. /\ UNCHANGED <<next, pos, base, got, again, applied, forgone, cursor, acked>>
          /\ mode'[k] # "live"
      BY <1>0, <2>2 DEF ReconnectGap, stream, TypeOK
    <3> QED
      BY <1>0, <1>a, <3>1, OtherClient
  <2>3. CASE ReconnectReady(k, cur)
    <3>1. /\ next' = next /\ pos'[k] = Len(sent) /\ base'[k] = ReplayBase(cur)
          /\ got'[k] = Replay(cur) /\ again'[k] = {} /\ acked' = acked
          /\ ~IsGap(cur) /\ ApplyReplay(k, cur)
      BY <1>0, <2>3 DEF ReconnectReady, stream, TypeOK
    <3>2. cursor'[k] = next - 1 /\ 1..(next - 1) \subseteq applied'[k] \cup forgone'[k]
      BY <1>0, <3>1, ReplayCatchesUp DEF TypeOK
    <3>3. cur \in Nat /\ cur <= next - 1
      BY <1>0, <1>a DEF TypeOK, ClientBehind, Cursors
    <3>4. /\ Replay(cur) \subseteq 1..(next - 1)
          /\ ReplayBase(cur) \in Nat /\ ReplayBase(cur) <= next - 1
      BY <1>0, <3>3, ReplayBehind
    <3>5. ClientBehind(k)'
      <4>1. acked[k] \in Nat /\ acked[k] <= next - 1
        BY <1>0, <1>a DEF TypeOK, ClientBehind
      <4>2. 1..Len(sent) \subseteq 1..(next - 1)
        BY <1>a
      <4> QED
        BY <1>a, <3>1, <3>2, <3>4, <4>1, <4>2 DEF ClientBehind, Covered
    <3>6. OverlapsOnce(k)'
      <4>1. 1..(next - 1) \subseteq 1..(Len(sent) + 1)
        BY <1>a
      <4> QED
        BY <3>1, <3>4, <4>1 DEF OverlapsOnce
    <3> QED
      BY <3>5, <3>6
  <2> QED
    BY <2>1, <2>2, <2>3
<1>4. ASSUME ReplayAndKeep(k) PROVE ClientBehind(k)' /\ OverlapsOnce(k)'
  <2>1. PICK cur \in Cursors(k) : ~IsGap(cur) /\ ApplyReplay(k, cur)
    BY <1>4 DEF ReplayAndKeep
  <2>2. cursor'[k] = next - 1 /\ 1..(next - 1) \subseteq applied'[k] \cup forgone'[k]
    BY <1>0, <2>1, ReplayCatchesUp DEF TypeOK
  <2>3. /\ next' = next /\ pos' = pos /\ base' = base /\ got' = got /\ again' = again
        /\ mode' = mode /\ acked'[k] = Larger(acked[k], next - 1)
    BY <1>0, <1>4 DEF ReplayAndKeep, stream, TypeOK
  <2>4. acked'[k] = next - 1
    BY <1>0, <1>a, <2>3 DEF ClientBehind, TypeOK, Larger
  <2>5. 1..pos[k] \subseteq 1..(next - 1)
    BY <1>0, <1>a DEF ReceiverInChannel, TypeOK
  <2>6. ClientBehind(k)'
    BY <1>0, <1>a, <2>2, <2>3, <2>4, <2>5 DEF ClientBehind, Covered, TypeOK
  <2> QED
    BY <1>0, <2>3, <2>6 DEF OverlapsOnce
<1>5. ASSUME Subscribe(k) PROVE ClientBehind(k)' /\ OverlapsOnce(k)'
  <2>1. /\ next' = next /\ cursor' = cursor /\ acked' = acked /\ applied' = applied
        /\ pos'[k] = Len(sent) /\ base'[k] = next - 1 /\ got'[k] = {} /\ again'[k] = {}
        /\ forgone'[k] = forgone[k] \cup 1..(next - 1)
    BY <1>0, <1>5 DEF Subscribe, stream, TypeOK
  <2>2. 1..Len(sent) \subseteq 1..(next - 1)
    BY <1>a
  <2>3. ClientBehind(k)'
    BY <1>0, <1>a, <2>1, <2>2 DEF ClientBehind, Covered
  <2> QED
    BY <2>1, <2>3 DEF OverlapsOnce
<1>6. ASSUME FreshSnapshot(k) PROVE ClientBehind(k)' /\ OverlapsOnce(k)'
  <2>1. /\ next' = next /\ acked' = acked /\ pos' = pos /\ cursor'[k] = next - 1
        /\ base'[k] = next - 1 /\ got'[k] = {} /\ again'[k] = {}
        /\ applied'[k] = applied[k] \cup 1..(next - 1)
    BY <1>0, <1>6 DEF FreshSnapshot, stream, TypeOK
  <2>2. 1..pos[k] \subseteq 1..(next - 1)
    BY <1>0, <1>a DEF ReceiverInChannel, TypeOK
  <2>3. ClientBehind(k)'
    BY <1>0, <1>a, <2>1, <2>2 DEF ClientBehind, Covered, TypeOK
  <2> QED
    BY <2>1, <2>3 DEF OverlapsOnce
<1>7. ASSUME Recv(k) PROVE ClientBehind(k)' /\ OverlapsOnce(k)'
  <2> DEFINE s == pos[k] + 1
  <2>1. s \in 1..Len(sent) /\ sent[s] = s /\ pos[k] \in Nat /\ cursor[k] \in Nat
    BY <1>0, <1>7 DEF Recv, TypeOK, InOrder
  <2>2. /\ next' = next /\ acked' = acked /\ base' = base /\ forgone' = forgone
        /\ mode[k] = "live" /\ pos'[k] = s /\ got'[k] = got[k] \cup {s}
        /\ again'[k] = IF s \in got[k] THEN again[k] \cup {s} ELSE again[k]
        /\ applied'[k] = IF s > cursor[k] THEN applied[k] \cup {s} ELSE applied[k]
        /\ cursor'[k] = Larger(cursor[k], s)
    BY <1>0, <1>7, <2>1 DEF Recv, stream, TypeOK
  <2>3. Covered(k, cursor[k]) /\ Covered(k, pos[k]) /\ s <= next - 1
    BY <1>0, <1>a, <2>1, <2>2 DEF ClientBehind
  <2>4. /\ 1..s \subseteq applied'[k] \cup forgone'[k]
        /\ 1..cursor[k] \subseteq applied'[k] \cup forgone'[k]
    <3>1. CASE s > cursor[k]
      <4>1. 1..s = 1..pos[k] \cup {s}
        BY <2>1
      <4> QED
        BY <2>2, <2>3, <3>1, <4>1 DEF Covered
    <3>2. CASE ~(s > cursor[k])
      <4>1. 1..s \subseteq 1..cursor[k]
        BY <2>1, <3>2
      <4> QED
        BY <2>2, <2>3, <3>2, <4>1 DEF Covered
    <3> QED
      BY <3>1, <3>2
  <2>5. cursor'[k] \in {s, cursor[k]} /\ cursor[k] <= cursor'[k]
    BY <2>1, <2>2 DEF Larger
  <2>6. ClientBehind(k)'
    <3>2. 1..cursor'[k] \subseteq applied'[k] \cup forgone'[k]
      BY <2>4, <2>5
    <3>3. 1..pos'[k] \subseteq applied'[k] \cup forgone'[k]
      BY <2>4, <2>2
    <3>4. cursor'[k] <= next - 1 /\ acked[k] <= cursor'[k] /\ base[k] <= next - 1
      BY <1>0, <1>a, <2>1, <2>3, <2>5 DEF ClientBehind, TypeOK
    <3> QED
      BY <2>2, <3>2, <3>3, <3>4 DEF ClientBehind, Covered
  <2>7. OverlapsOnce(k)'
    <3>1. CASE again[k] = {} /\ got[k] \subseteq 1..s
      <4>1. again'[k] = {} \/ again'[k] = {s}
        BY <2>2, <3>1
      <4>2. got'[k] \subseteq 1..pos'[k]
        BY <2>1, <2>2, <3>1
      <4> QED
        BY <4>1, <4>2 DEF OverlapsOnce
    <3>2. CASE got[k] \subseteq 1..pos[k]
      <4>1. s \notin got[k]
        BY <2>1, <3>2
      <4>2. again'[k] = again[k]
        BY <2>2, <4>1
      <4>3. got'[k] \subseteq 1..pos'[k]
        BY <2>1, <2>2, <3>2
      <4> QED
        BY <1>0, <4>2, <4>3 DEF OverlapsOnce
    <3> QED
      BY <1>0, <2>2, <3>1, <3>2 DEF OverlapsOnce
  <2> QED
    BY <2>6, <2>7
<1>8. ASSUME RecvLagged(k) \/ Leave(k) PROVE ClientBehind(k)' /\ OverlapsOnce(k)'
  <2>1. /\ UNCHANGED <<next, base, got, again, applied, forgone, cursor, acked>>
        /\ mode'[k] # "live"
    BY <1>0, <1>8 DEF RecvLagged, Leave, stream, TypeOK
  <2> QED
    BY <1>0, <2>1 DEF ClientBehind, Covered, OverlapsOnce
<1>9. ASSUME Acknowledge(k) PROVE ClientBehind(k)' /\ OverlapsOnce(k)'
  <2>1. /\ UNCHANGED <<next, mode, pos, base, got, again, applied, forgone, cursor>>
        /\ acked'[k] = Larger(acked[k], cursor[k])
    BY <1>0, <1>9 DEF Acknowledge, stream, TypeOK
  <2>2. acked'[k] = cursor[k] /\ cursor[k] \in Nat
    BY <1>0, <2>1 DEF ClientBehind, TypeOK, Larger
  <2> QED
    BY <1>0, <2>1, <2>2 DEF ClientBehind, Covered, OverlapsOnce
<1>10. CASE UNCHANGED vars
  BY <1>0, <1>a, <1>10, OtherClient DEF vars
<1>11. ASSUME NEW c \in Clients,
             \/ Reconnect(c) \/ ReplayAndKeep(c) \/ Subscribe(c) \/ FreshSnapshot(c)
             \/ Recv(c) \/ RecvLagged(c) \/ Acknowledge(c) \/ Leave(c)
      PROVE  ClientBehind(k)' /\ OverlapsOnce(k)'
  <2>1. CASE c # k
    BY <1>2, <1>11, <2>1
  <2>2. CASE c = k
    BY <1>3, <1>4, <1>5, <1>6, <1>7, <1>8, <1>9, <1>11, <2>2
  <2> QED
    BY <2>1, <2>2
<1> QED
  BY <1>1, <1>10, <1>11 DEF Next

(* The invariant holds in every reachable state of a stream with one emitter. *)
LEMMA FeedInvariant ==
    ASSUME OneEmitter
    PROVE  Spec => []FeedInv
<1>1. Init => FeedInv
  BY InitFeed
<1>2. FeedInv /\ [Next]_vars => FeedInv'
  <2> SUFFICES ASSUME FeedInv, [Next]_vars PROVE FeedInv'
    OBVIOUS
  <2>1. StreamInv'
    BY StepType, StepWindow, StepReceiver, StepHandoff DEF FeedInv, StreamInv
  <2>2. InOrder'
    BY StepOrder DEF FeedInv, StreamInv
  <2>3. \A c \in Clients : ClientBehind(c)' /\ OverlapsOnce(c)'
    BY StepClients
  <2> QED
    BY <2>1, <2>2, <2>3 DEF FeedInv
<1> QED
  BY <1>1, <1>2, PTL DEF Spec

(* adapter_applied_sequence and acknowledged_sequence never pass an event the *)
(* client neither applied, nor was told of, nor chose to do without, through  *)
(* any sequence of reconnects, replays, gaps, lags and snapshots; and a cut    *)
(* repeats at most the one event that was between its number and its           *)
(* broadcast.                                                                  *)
THEOREM CursorsCorrect ==
    ASSUME OneEmitter
    PROVE  Spec => []ClientsCovered
<1>1. FeedInv => ClientsCovered
  <2> SUFFICES ASSUME FeedInv PROVE ClientsCovered
    OBVIOUS
  <2>1. CursorCovered
    BY DEF FeedInv, ClientBehind, Covered, CursorCovered
  <2>2. HandoffDuplicateBounded
    <3> SUFFICES ASSUME NEW c \in Clients
                 PROVE  Cardinality(again[c]) <= Cardinality(Emitters)
      BY DEF HandoffDuplicateBounded
    <3>1. PICK e : Emitters = {e}
      BY DEF OneEmitter
    <3>2. Cardinality(Emitters) = 1
      BY <3>1, FS_Singleton
    <3>3. CASE again[c] = {}
      <4>1. Cardinality(again[c]) = 0
        BY <3>3, FS_EmptySet
      <4> QED
        BY <3>2, <4>1
    <3>4. CASE \E s : again[c] = {s}
      <4>1. Cardinality(again[c]) = 1
        BY <3>4, FS_Singleton
      <4> QED
        BY <3>2, <4>1
    <3> QED
      BY <3>3, <3>4 DEF FeedInv, OverlapsOnce
  <2> QED
    BY <2>1, <2>2 DEF ClientsCovered
<1> QED
  BY <1>1, FeedInvariant, PTL

\* The numbers of EventFeed that a client's state stands for.
Known(c) == Larger(cursor[c], base[c])

(* A step that changes at most one client's part of the mapping, forward and  *)
(* not past the stream, is a Serve of EventFeed.                              *)
LEMMA ServeStep ==
    ASSUME FeedInv, FeedInv', NEW c \in Clients, next' = next,
           \A k \in Clients \ {c} :
               /\ cursor'[k] = cursor[k] /\ base'[k] = base[k]
               /\ mode'[k] = mode[k],
           Known(c) <= Known(c)',
           \E m \in Nat : m >= acked[c] /\ acked' = [acked EXCEPT ![c] = m]
    PROVE  Feed!Next
<1>1. PICK m \in Nat : m >= acked[c] /\ acked' = [acked EXCEPT ![c] = m]
  OBVIOUS
<1>2. /\ Known(c) \in Nat /\ Known(c)' \in Nat /\ Known(c)' <= next - 1
      /\ m = acked'[c] /\ m <= Known(c)' /\ next \in Nat /\ acked[c] \in Nat
  BY <1>1 DEF FeedInv, StreamInv, TypeOK, ClientBehind, Known, Larger
<1>3. [k \in Clients |-> Larger(cursor[k], base[k])]' =
      [[k \in Clients |-> Larger(cursor[k], base[k])] EXCEPT ![c] = Known(c)']
  BY DEF Known
<1>4. [k \in Clients |-> mode[k] # "none"]' =
      [[k \in Clients |-> mode[k] # "none"] EXCEPT ![c] = (mode'[c] # "none")]
  OBVIOUS
<1>5. Known(c)' \in Known(c)..(next - 1) /\ m \in acked[c]..Known(c)'
  BY <1>1, <1>2
<1>6. (mode'[c] # "none") \in BOOLEAN
  OBVIOUS
<1>7. [k \in Clients |-> Larger(cursor[k], base[k])][c] = Known(c)
  BY DEF Known
<1>8. Feed!Serve(c)
  BY <1>1, <1>3, <1>4, <1>5, <1>6, <1>7 DEF Feed!Serve
<1> QED
  BY <1>8 DEF Feed!Next

(* Every step of the stream is a step of EventFeed or leaves its state alone. *)
LEMMA StepFeed ==
    ASSUME OneEmitter, FeedInv, FeedInv', [Next]_vars
    PROVE  [Feed!Next]_(Feed!feed)
<1>0. TypeOK /\ RetainedWindow
  BY DEF FeedInv, StreamInv
<1>1. ASSUME NEW e \in Emitters, Stamp(e) PROVE Feed!Next
  <2>1. /\ next <= MaxEvents /\ next' = next + 1
        /\ UNCHANGED <<mode, cursor, base, acked>>
    BY <1>1 DEF Stamp, clientVars
  <2>2. next - 1 < MaxEvents /\ next' - 1 = (next - 1) + 1
    BY <1>0, <2>1, CapacityAssumption DEF TypeOK
  <2>3. Feed!Publish
    BY <2>1, <2>2 DEF Feed!Publish
  <2> QED
    BY <2>3 DEF Feed!Next
<1>2. ASSUME UNCHANGED <<next, mode, cursor, base, acked>> PROVE UNCHANGED Feed!feed
  BY <1>2 DEF Feed!feed
<1>3. ASSUME NEW e \in Emitters, Send(e) PROVE UNCHANGED Feed!feed
  BY <1>2, <1>3 DEF Send, clientVars
<1>4. CASE UNCHANGED vars
  BY <1>2, <1>4 DEF vars
<1>5. ASSUME NEW c \in Clients,
             \/ Reconnect(c) \/ ReplayAndKeep(c) \/ Subscribe(c) \/ FreshSnapshot(c)
             \/ Recv(c) \/ RecvLagged(c) \/ Acknowledge(c) \/ Leave(c)
      PROVE  Feed!Next
  <2>1. next' = next
    BY <1>5 DEF Reconnect, ReconnectReady, ReconnectGap, ReplayAndKeep, Subscribe,
       FreshSnapshot, Recv, RecvLagged, Acknowledge, Leave, stream
  <2>2. \A k \in Clients \ {c} :
            cursor'[k] = cursor[k] /\ base'[k] = base[k] /\ mode'[k] = mode[k]
    BY <1>0, <1>5 DEF TypeOK, Reconnect, ReconnectReady, ReconnectGap, ReplayAndKeep,
       Subscribe, FreshSnapshot, Recv, RecvLagged, Acknowledge, Leave, ApplyReplay
  <2>3. Known(c) <= Known(c)'
    <3>1. CASE Reconnect(c) \/ ReplayAndKeep(c)
      <4>1. \/ UNCHANGED <<cursor, base>>
            \/ \E cur \in Cursors(c) : ~IsGap(cur) /\ ApplyReplay(c, cur)
        BY <3>1 DEF Reconnect, ReconnectReady, ReconnectGap, ReplayAndKeep
      <4>2. \/ UNCHANGED <<cursor, base>>
            \/ cursor'[c] = next - 1
        BY <1>0, <4>1, ReplayCatchesUp DEF TypeOK, FeedInv
      <4>3. CASE UNCHANGED <<cursor, base>>
        BY <1>0, <4>3 DEF Known, Larger, TypeOK
      <4>4. CASE cursor'[c] = next - 1
        <5>1. Known(c) \in Nat /\ Known(c) <= next - 1 /\ next - 1 \in Nat
          BY <1>0 DEF Known, Larger, FeedInv, TypeOK, ClientBehind
        <5>2. base'[c] \in Nat
          BY DEF FeedInv, StreamInv, TypeOK
        <5> QED
          BY <4>4, <5>1, <5>2 DEF Known, Larger
      <4> QED
        BY <4>2, <4>3, <4>4
    <3>2. CASE Subscribe(c) \/ FreshSnapshot(c)
      <4>1. base'[c] = next - 1
        BY <1>0, <3>2 DEF Subscribe, FreshSnapshot, TypeOK
      <4> QED
        BY <1>0, <2>1, <4>1 DEF Known, Larger, FeedInv, StreamInv, TypeOK, ClientBehind
    <3>3. CASE Recv(c)
      <4>1. base' = base /\ cursor'[c] \in Nat /\ cursor[c] <= cursor'[c]
        BY <1>0, <3>3 DEF Recv, TypeOK, Larger
      <4> QED
        BY <1>0, <4>1 DEF Known, Larger, TypeOK
    <3>4. CASE RecvLagged(c) \/ Acknowledge(c) \/ Leave(c)
      <4>1. base' = base /\ cursor' = cursor
        BY <3>4 DEF RecvLagged, Acknowledge, Leave
      <4> QED
        BY <1>0, <4>1 DEF Known, Larger, TypeOK
    <3> QED
      BY <1>5, <3>1, <3>2, <3>3, <3>4
  <2>4. \E m \in Nat : m >= acked[c] /\ acked' = [acked EXCEPT ![c] = m]
    <3>1. CASE acked' = acked
      BY <1>0, <3>1 DEF TypeOK
    <3>2. ASSUME NEW n \in Nat, acked' = [acked EXCEPT ![c] = Larger(@, n)]
          PROVE  \E m \in Nat : m >= acked[c] /\ acked' = [acked EXCEPT ![c] = m]
      <4>1. Larger(acked[c], n) \in Nat /\ Larger(acked[c], n) >= acked[c]
        BY <1>0, <3>2 DEF TypeOK, Larger
      <4> QED
        BY <3>2, <4>1
    <3>3. CASE ReplayAndKeep(c)
      <4>1. next - 1 \in Nat
        BY <1>0 DEF TypeOK
      <4>2. acked' = [acked EXCEPT ![c] = Larger(@, next - 1)]
        BY <3>3 DEF ReplayAndKeep
      <4> QED
        BY <3>2, <4>1, <4>2
    <3>4. CASE Acknowledge(c)
      BY <1>0, <3>2, <3>4 DEF Acknowledge, TypeOK
    <3> QED
      BY <1>5, <3>1, <3>3, <3>4 DEF Reconnect, ReconnectReady, ReconnectGap, Subscribe,
         FreshSnapshot, Recv, RecvLagged, Leave
  <2> QED
    BY <2>1, <2>2, <2>3, <2>4, ServeStep
<1> QED
  BY <1>1, <1>3, <1>4, <1>5 DEF Next

(* The stream implements the safety part of EventFeed: through Stamp, Send,   *)
(* replay, gap, lag and snapshot the events come one after the other, what a  *)
(* client knows is a prefix that only grows, and it acknowledges only what it  *)
(* knows.  (That every event is delivered, ImplementsFeed, is left to TLC.)    *)
THEOREM FeedSafety ==
    ASSUME OneEmitter
    PROVE  Spec => Feed!Safety
<1>1. Init => Feed!Init
  <2> SUFFICES ASSUME Init PROVE Feed!Init
    OBVIOUS
  <2>1. next - 1 = 0
    BY DEF Init
  <2>2. [c \in Clients |-> mode[c] # "none"] = [c \in Clients |-> FALSE]
    BY DEF Init
  <2>3. [c \in Clients |-> Larger(cursor[c], base[c])] = [c \in Clients |-> 0]
    BY DEF Init, Larger
  <2>4. acked = [c \in Clients |-> 0]
    BY DEF Init
  <2> QED
    BY <2>1, <2>2, <2>3, <2>4 DEF Feed!Init
<1>2. FeedInv /\ FeedInv' /\ [Next]_vars => [Feed!Next]_(Feed!feed)
  BY StepFeed
<1> QED
  BY <1>1, <1>2, FeedInvariant, PTL DEF Spec, Feed!Safety
=============================================================================
