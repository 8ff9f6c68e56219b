-------------------------- MODULE SessionLogProofs --------------------------
(***************************************************************************)
(* Proofs about SessionLog, for every number of operations, faults, switches *)
(* and forks: the leaf that the manifest names was committed by the log, no  *)
(* operation is finalized twice, opening a session leaves none in doubt, and *)
(* what callers were told, the manifest, the replay and the leaf tree agree. *)
(* First what the replay of a log computes (SessionReplay), for every log     *)
(* that keeps to the order of a session, and what a copy of such a log keeps. *)
(***************************************************************************)
EXTENDS SessionLog, FiniteSetTheorems, SequenceTheorems, WellFoundedInduction, TLAPS

(***************************************************************************)
(* Induction over the places of a log.                                      *)
(***************************************************************************)
(* A set of numbers has a least one.                                          *)
LEMMA NatLeast ==
    ASSUME NEW T \in SUBSET Nat, T # {}
    PROVE  \E m \in T : \A k \in T : m <= k
<1> DEFINE R == {ss \in Nat \X Nat : ss[1] < ss[2]}
<1>1. IsWellFoundedOn(R, Nat)
  BY NatLessThanWellFounded DEF OpToRel
<1> HIDE DEF R
<1>2. PICK m \in T : \A k \in T : ~(<<k, m>> \in R)
  BY <1>1, WFMin
<1>3. ASSUME NEW k \in T PROVE m <= k
  <2>1. ~(<<k, m>> \in R)
    BY <1>2
  <2>2. k \in Nat /\ m \in Nat
    OBVIOUS
  <2>3. ~(k < m)
    BY <2>1, <2>2 DEF R
  <2> QED
    BY <2>2, <2>3
<1> QED
  BY <1>3

(* What holds at the beginning and is kept from each place to the next holds    *)
(* at every place.                                                             *)
LEMMA UpTo ==
    ASSUME NEW n \in Nat, NEW S, 0 \in S, \A i \in 1..n : i - 1 \in S => i \in S
    PROVE  \A i \in 0..n : i \in S
<1> DEFINE Missed == {i \in 0..n : i \notin S}
<1>1. SUFFICES ASSUME Missed # {} PROVE FALSE
  OBVIOUS
<1>2. PICK m \in Missed : \A k \in Missed : m <= k
  <2>1. Missed \in SUBSET Nat
    OBVIOUS
  <2> HIDE DEF Missed
  <2> QED
    BY <1>1, <2>1, NatLeast
<1>3. m \in 0..n /\ m \notin S /\ m # 0
  OBVIOUS
<1>4. m \in 1..n /\ m - 1 \in 0..n /\ ~(m <= m - 1)
  BY <1>3
<1>5. m - 1 \in S
  BY <1>2, <1>4
<1> QED
  BY <1>3, <1>4, <1>5

(***************************************************************************)
(* Replay, event by event.                                                  *)
(***************************************************************************)
\* fold_events for one event of the log l.
FoldEvent(l, r, e) ==
    LET q == [r EXCEPT !.status = ObserveStatus(@, e)]
    IN IF e.op = 0 \/ e.op \in Finalized(l) THEN ApplyEvent(q, e) ELSE q

Replays(g, l) ==
    /\ g[0] = EmptyReplay /\ \A i \in 1..Len(l) : g[i] = FoldEvent(l, g[i - 1], l[i])
    /\ Replay(l) = g[Len(l)]

LEMMA ReplayFolds ==
    ASSUME NEW l, Len(l) \in Nat
    PROVE  \E g : Replays(g, l)
<1> DEFINE n == Len(l)
           Built(h, k) == h = [i \in 0..k |-> IF i = 0 THEN EmptyReplay ELSE FoldEvent(l, h[i - 1], l[i])]
           S == {k \in 0..n : \E h : Built(h, k)}
<1>0. n \in Nat
  OBVIOUS
<1>1. 0 \in S
  <2> DEFINE h == [i \in 0..0 |-> EmptyReplay]
  <2>1. Built(h, 0)
    OBVIOUS
  <2>2. 0 \in 0..n
    BY <1>0
  <2> HIDE DEF h
  <2>3. \E f : Built(f, 0)
    BY <2>1
  <2> QED
    BY <2>2, <2>3
<1>2. ASSUME NEW k \in 1..n, k - 1 \in S PROVE k \in S
  <2>0. k \in Nat /\ k - 1 \in Nat /\ k \in 0..n /\ k # 0
    BY <1>0
  <2>1. PICK f : Built(f, k - 1)
    BY <1>2
  <2> DEFINE h == [i \in 0..k |-> IF i = k THEN FoldEvent(l, f[k - 1], l[k]) ELSE f[i]]
  <2>2. \A i \in 0..(k - 1) : h[i] = f[i]
    BY <2>0
  <2>3. \A i \in 0..k : i # 0 => i - 1 \in 0..(k - 1) /\ (i # k => i \in 0..(k - 1))
    BY <2>0
  <2>4. ASSUME NEW i \in 0..k PROVE h[i] = IF i = 0 THEN EmptyReplay ELSE FoldEvent(l, h[i - 1], l[i])
    <3>1. \A j \in 0..(k - 1) : f[j] = IF j = 0 THEN EmptyReplay ELSE FoldEvent(l, f[j - 1], l[j])
      BY <2>1
    <3>2. h[i] = IF i = k THEN FoldEvent(l, f[k - 1], l[k]) ELSE f[i]
      OBVIOUS
    <3> HIDE DEF h
    <3>3. CASE i = 0
      <4>1. 0 \in 0..(k - 1)
        BY <2>0
      <4> QED
        BY <2>0, <3>1, <3>2, <3>3, <4>1
    <3>4. CASE i # 0
      <4>1. h[i - 1] = f[i - 1]
        BY <2>2, <2>3, <3>4
      <4> QED
        BY <2>3, <3>1, <3>2, <3>4, <4>1
    <3> QED
      BY <3>3, <3>4
  <2>5. DOMAIN h = 0..k /\ h = [i \in 0..k |-> h[i]]
    OBVIOUS
  <2> HIDE DEF h
  <2>6. Built(h, k)
    BY <2>4, <2>5
  <2> QED
    BY <2>0, <2>6
<1>3. n \in S
  <2> HIDE DEF S, n
  <2> QED
    BY <1>0, <1>1, <1>2, UpTo
<1>4. PICK f : Built(f, n)
  BY <1>3
<1> DEFINE g == CHOOSE h : Built(h, n)
<1>5. Built(g, n)
  BY <1>4
<1>6. Replay(l) = g[Len(l)]
  BY Zenon DEF Replay, FoldEvent
<1> HIDE DEF g
<1>7. g[0] = EmptyReplay
  BY <1>0, <1>5
<1>8. ASSUME NEW i \in 1..n PROVE g[i] = FoldEvent(l, g[i - 1], l[i])
  BY <1>0, <1>5
<1> QED
  BY <1>6, <1>7, <1>8 DEF Replays

Applied(l, e) == e.op = 0 \/ e.op \in Finalized(l)
Moves(e) == e.kind = "leafChanged" \/ (e.kind = "committed" /\ e.leaf # 0)
ReplayFields == {"active", "transcript", "leaves", "status", "kinds", "starts"}

\* What an event does to the transcript.
Transcribed(t, e) ==
    CASE e.kind = "input" -> Append(t, Entry("user", e.op, e.item, "Completed"))
      [] e.kind = "itemStarted" -> Append(t, Entry("item", e.op, e.item, "Started"))
      [] e.kind = "itemCompleted" -> SetItem(t, e.item, "Completed")
      [] e.kind = "itemCancelled" -> SetItem(t, e.item, "Cancelled")
      [] e.kind = "diagnostic" -> Append(t, Entry("diagnostic", e.op, NoItem, "Completed"))
      [] e.kind = "compacted" -> Compact(t, e.op, e.item)
      [] e.kind = "summarized" -> Append(t, Entry("summary", e.op, NoItem, "Completed"))
      [] OTHER -> t

LEMMA ApplyFacts ==
    ASSUME NEW r, NEW e, DOMAIN r = ReplayFields
    PROVE  /\ DOMAIN ApplyEvent(r, e) = ReplayFields
           /\ ApplyEvent(r, e).status = r.status
           /\ ApplyEvent(r, e).active = IF Moves(e) THEN e.leaf ELSE r.active
           /\ ApplyEvent(r, e).kinds = IF e.kind = "started" THEN Put(r.kinds, e.op, e.of) ELSE r.kinds
           /\ ApplyEvent(r, e).starts
                = IF e.kind = "started" THEN Put(r.starts, e.op, Len(r.transcript)) ELSE r.starts
           /\ ApplyEvent(r, e).leaves
                = IF e.kind = "committed" /\ e.leaf # 0 THEN RecordLeaf(r, e) ELSE r.leaves
           /\ ApplyEvent(r, e).transcript = Transcribed(r.transcript, e)
  BY DEF ApplyEvent, Transcribed, Moves, ReplayFields

LEMMA FoldFacts ==
    ASSUME NEW l, NEW r, NEW e, DOMAIN r = ReplayFields
    PROVE  /\ DOMAIN FoldEvent(l, r, e) = ReplayFields
           /\ FoldEvent(l, r, e).status = ObserveStatus(r.status, e)
           /\ ~Applied(l, e) =>
                 /\ FoldEvent(l, r, e).active = r.active /\ FoldEvent(l, r, e).kinds = r.kinds
                 /\ FoldEvent(l, r, e).starts = r.starts /\ FoldEvent(l, r, e).leaves = r.leaves
                 /\ FoldEvent(l, r, e).transcript = r.transcript
           /\ Applied(l, e) =>
                 /\ FoldEvent(l, r, e).active = IF Moves(e) THEN e.leaf ELSE r.active
                 /\ FoldEvent(l, r, e).kinds = IF e.kind = "started" THEN Put(r.kinds, e.op, e.of) ELSE r.kinds
                 /\ FoldEvent(l, r, e).starts
                      = IF e.kind = "started" THEN Put(r.starts, e.op, Len(r.transcript)) ELSE r.starts
                 /\ FoldEvent(l, r, e).leaves
                      = IF e.kind = "committed" /\ e.leaf # 0 THEN RecordLeaf(r, e) ELSE r.leaves
                 /\ FoldEvent(l, r, e).transcript = Transcribed(r.transcript, e)
<1> DEFINE q == [r EXCEPT !.status = ObserveStatus(@, e)]
<1>1. /\ DOMAIN q = ReplayFields /\ q.status = ObserveStatus(r.status, e)
      /\ q.active = r.active /\ q.kinds = r.kinds /\ q.starts = r.starts /\ q.leaves = r.leaves
      /\ q.transcript = r.transcript
  BY DEF ReplayFields
<1>2. FoldEvent(l, r, e) = IF Applied(l, e) THEN ApplyEvent(q, e) ELSE q
  BY DEF FoldEvent, Applied
<1> HIDE DEF q
<1>3. RecordLeaf(q, e) = RecordLeaf(r, e)
  BY <1>1 DEF RecordLeaf
<1>4. CASE Applied(l, e)
  BY <1>1, <1>2, <1>3, <1>4, ApplyFacts
<1>5. CASE ~Applied(l, e)
  BY <1>1, <1>2, <1>5
<1> QED
  BY <1>4, <1>5

(***************************************************************************)
(* Enumerating a set.                                                       *)
(***************************************************************************)
(* The rank of an element counts the elements up to it; a larger element has  *)
(* a larger rank.                                                             *)
LEMMA RankIncreases ==
    ASSUME NEW S \in SUBSET Nat, IsFiniteSet(S), NEW x \in S, NEW y \in S, x < y
    PROVE  Cardinality({z \in S : z <= x}) < Cardinality({z \in S : z <= y})
<1> DEFINE A == {z \in S : z <= x}
           B == {z \in S : z <= y}
<1>1. IsFiniteSet(B) /\ Cardinality(B) \in Nat
  BY FS_Subset, FS_CardinalityType
<1>2. A \in SUBSET B /\ y \in B /\ y \notin A
  <2>1. \A z \in S : z \in Nat
    OBVIOUS
  <2>2. \A z \in S : z <= x => z <= y
    BY <2>1
  <2>3. y <= y /\ ~(y <= x)
    BY <2>1
  <2> QED
    BY <2>2, <2>3
<1>3. /\ Cardinality(A) <= Cardinality(B)
      /\ Cardinality(B) = Cardinality(A) => B = A
  BY <1>1, <1>2, FS_Subset
<1>4. Cardinality(A) \in Nat
  BY <1>1, <1>2, FS_Subset, FS_CardinalityType
<1> QED
  BY <1>1, <1>2, <1>3, <1>4

(* Enumerate lists every element of a finite set of numbers exactly once      *)
(* (copy_to_new_session keeps the events it selects, each one once).          *)
LEMMA EnumerateBijective ==
    ASSUME NEW S \in SUBSET Nat, IsFiniteSet(S)
    PROVE  /\ Cardinality(S) \in Nat
           /\ DOMAIN Enumerate(S) = 1..Cardinality(S)
           /\ \A n \in 1..Cardinality(S) : Enumerate(S)[n] \in S
           /\ \A m, n \in 1..Cardinality(S) : Enumerate(S)[m] = Enumerate(S)[n] => m = n
           /\ \A x \in S : \E n \in 1..Cardinality(S) : Enumerate(S)[n] = x
           /\ \A x \in S : Enumerate(S)[1] \in S /\ Enumerate(S)[1] <= x
           /\ \A n \in 1..Cardinality(S) : Cardinality({z \in S : z <= Enumerate(S)[n]}) = n
<1> DEFINE N == Cardinality(S)
           rank == [x \in S |-> Cardinality({z \in S : z <= x})]
<1>1. N \in Nat
  BY FS_CardinalityType
<1>2. ASSUME NEW x \in S PROVE rank[x] \in 1..N
  <2>1. {z \in S : z <= x} \in SUBSET S /\ x \in {z \in S : z <= x}
    <3>1. x \in Nat
      OBVIOUS
    <3> QED
      BY <3>1
  <2>2. IsFiniteSet({z \in S : z <= x}) /\ rank[x] <= N
    BY <2>1, FS_Subset
  <2>3. rank[x] \in Nat /\ rank[x] # 0
    BY <2>1, <2>2, FS_CardinalityType, FS_EmptySet
  <2> QED
    BY <1>1, <2>2, <2>3
<1>3. \A x, y \in S : rank[x] = rank[y] => x = y
  <2> SUFFICES ASSUME NEW x \in S, NEW y \in S, rank[x] = rank[y], x # y PROVE FALSE
    OBVIOUS
  <2>1. x < y \/ y < x
    <3>1. x \in Nat /\ y \in Nat
      OBVIOUS
    <3> QED
      BY <3>1
  <2>2. rank[x] < rank[y] \/ rank[y] < rank[x]
    BY <2>1, RankIncreases
  <2> QED
    BY <1>1, <1>2, <2>2
<1>4. rank \in Injection(S, 1..N)
  BY <1>2, <1>3 DEF Injection, IsInjective
<1>5. IsFiniteSet(1..N) /\ Cardinality(1..N) = N
  BY <1>1, FS_Interval
<1>6. rank \in Surjection(S, 1..N)
  BY <1>4, <1>5, FS_Injection
<1>7. \A n \in 1..N : \E x \in S : rank[x] = n
  BY <1>6 DEF Surjection
<1>8. ASSUME NEW n \in 1..N
      PROVE  Enumerate(S)[n] \in S /\ rank[Enumerate(S)[n]] = n
  BY <1>7 DEF Enumerate
<1>9. DOMAIN Enumerate(S) = 1..N
  BY DEF Enumerate
<1>10. \A x \in S : \E n \in 1..N : Enumerate(S)[n] = x
  BY <1>2, <1>3, <1>8
<1>11. ASSUME NEW x \in S PROVE Enumerate(S)[1] \in S /\ Enumerate(S)[1] <= x
  <2>1. 1 \in 1..N
    <3>1. rank[x] \in 1..N
      BY <1>2
    <3> HIDE DEF rank, N
    <3> QED
      BY <1>1, <3>1
  <2> DEFINE least == Enumerate(S)[1]
  <2>2. least \in S /\ rank[least] = 1 /\ rank[x] \in 1..N
    BY <2>1, <1>2, <1>8
  <2>3. x < least => rank[x] < rank[least]
    BY <2>2, RankIncreases
  <2>4. x \in Nat /\ least \in Nat
    BY <2>2
  <2> QED
    BY <1>1, <2>2, <2>3, <2>4
<1> QED
  BY <1>1, <1>8, <1>9, <1>10, <1>11

(***************************************************************************)
(* What a log keeps to.                                                     *)
(***************************************************************************)
Ended == {"committed", "aborted", "failed"}
Settling == {"itemCompleted", "itemCancelled"}
Outside == {"created", "forked", "leafChanged"}

EventOK(e) ==
    /\ e.kind \in Outside <=> e.op = 0
    /\ e.kind = "committed" => e.leaf \in {0, e.op}
    /\ e.kind \in {"itemStarted"} \cup Settling => e.item[1] = e.op

\* What an operation of some kind writes.
Does(of, e) ==
    /\ e.kind = "committed" /\ e.leaf # 0 => of = "prompt"
    /\ e.kind = "summarized" => of = "summary"
    /\ e.kind = "compacted" => of = "compact"

EventsOK(l) == \A i \in 1..Len(l) : EventOK(l[i])

\* The event that starts an operation is its first.
StartsFirst(l) ==
    \A i, j \in 1..Len(l) : l[i].kind = "started" /\ l[i].op = l[j].op => i <= j
HasStart(l) ==
    \A j \in 1..Len(l) : l[j].op # 0 => \E i \in 1..j : l[i].kind = "started" /\ l[i].op = l[j].op

\* The events of an operation that ended stand together, the last one ends it.
Closed(l) ==
    \A m, j \in 1..Len(l) :
        l[m].kind \in Ended /\ l[j].op = l[m].op => j <= m /\ \A k \in j..m : l[k].op = l[m].op

\* What an operation that ended has started is settled.
Settled(l) ==
    \A m, j \in 1..Len(l) :
        l[m].kind \in Ended /\ l[j].op = l[m].op /\ l[j].kind = "itemStarted" =>
            \E k \in 1..Len(l) : k > j /\ l[k].kind \in Settling /\ l[k].item = l[j].item

OfKind(l) ==
    \A i, m \in 1..Len(l) : l[i].kind = "started" /\ l[m].op = l[i].op => Does(l[i].of, l[m])

\* Only leaves that were committed before are switched to.
SwitchedTo(l) ==
    \A j \in 1..Len(l) : l[j].kind = "leafChanged" =>
        l[j].leaf # 0 /\ \E i \in 1..j : l[i].kind = "committed" /\ l[i].leaf = l[j].leaf

Once(l) ==
    \A i, j \in 1..Len(l) :
        l[i].kind \in FinalMarkers /\ l[j].kind \in FinalMarkers /\ l[i].op = l[j].op => i = j

Ordered(l) ==
    /\ EventsOK(l) /\ StartsFirst(l) /\ HasStart(l) /\ Closed(l) /\ Settled(l) /\ OfKind(l)
    /\ SwitchedTo(l)

LEMMA LogFacts ==
    ASSUME NEW l \in Seq(Events)
    PROVE  /\ Len(l) \in Nat /\ DOMAIN l = 1..Len(l)
           /\ \A i \in 1..Len(l) :
                 /\ l[i] \in Events /\ l[i].op \in Nat /\ l[i].leaf \in Nat
                 /\ l[i].item \in Nat \X Nat /\ l[i].kind \in EventKinds
<1>1. Len(l) \in Nat /\ DOMAIN l = 1..Len(l)
  BY LenProperties
<1>2. \A i \in 1..Len(l) : l[i] \in Events
  BY ElementOfSeq
<1>3. \A e \in Events : /\ e.op \in Nat /\ e.leaf \in Nat
                        /\ e.item \in Nat \X Nat /\ e.kind \in EventKinds
  BY DEF Events
<1> QED
  BY <1>1, <1>2, <1>3

LEMMA ReplayShape ==
    ASSUME NEW l \in Seq(Events), NEW g, Replays(g, l)
    PROVE  \A i \in 0..Len(l) : DOMAIN g[i] = ReplayFields
<1> DEFINE S == {i \in 0..Len(l) : DOMAIN g[i] = ReplayFields}
<1>1. Len(l) \in Nat
  BY LenProperties
<1>2. 0 \in S
  <2>1. DOMAIN EmptyReplay = ReplayFields
    BY DEF EmptyReplay, ReplayFields
  <2>2. g[0] = EmptyReplay
    BY DEF Replays
  <2> QED
    BY <1>1, <2>1, <2>2
<1>3. ASSUME NEW i \in 1..Len(l), i - 1 \in S PROVE i \in S
  <2>1. g[i] = FoldEvent(l, g[i - 1], l[i])
    BY DEF Replays
  <2>2. DOMAIN g[i - 1] = ReplayFields
    BY <1>3
  <2>3. DOMAIN FoldEvent(l, g[i - 1], l[i]) = ReplayFields
    BY <2>2, FoldFacts
  <2> QED
    BY <1>1, <2>1, <2>3
<1> HIDE DEF S
<1>4. \A i \in 0..Len(l) : i \in S
  BY <1>1, <1>2, <1>3, UpTo
<1> QED
  BY <1>4 DEF S

(* Each event of the log does to the replay what it says.                     *)
LEMMA ReplayStep ==
    ASSUME NEW l \in Seq(Events), NEW g, Replays(g, l), NEW i \in 1..Len(l)
    PROVE  /\ g[i].status = ObserveStatus(g[i - 1].status, l[i])
           /\ ~Applied(l, l[i]) =>
                 /\ g[i].active = g[i - 1].active /\ g[i].kinds = g[i - 1].kinds
                 /\ g[i].starts = g[i - 1].starts /\ g[i].leaves = g[i - 1].leaves
                 /\ g[i].transcript = g[i - 1].transcript
           /\ Applied(l, l[i]) =>
                 /\ g[i].active = IF Moves(l[i]) THEN l[i].leaf ELSE g[i - 1].active
                 /\ g[i].kinds = IF l[i].kind = "started" THEN Put(g[i - 1].kinds, l[i].op, l[i].of)
                                 ELSE g[i - 1].kinds
                 /\ g[i].starts = IF l[i].kind = "started"
                                  THEN Put(g[i - 1].starts, l[i].op, Len(g[i - 1].transcript))
                                  ELSE g[i - 1].starts
                 /\ g[i].leaves = IF l[i].kind = "committed" /\ l[i].leaf # 0
                                  THEN RecordLeaf(g[i - 1], l[i]) ELSE g[i - 1].leaves
                 /\ g[i].transcript = Transcribed(g[i - 1].transcript, l[i])
<1>1. g[i] = FoldEvent(l, g[i - 1], l[i])
  BY DEF Replays
<1>2. DOMAIN g[i - 1] = ReplayFields
  <2>1. i - 1 \in 0..Len(l)
    BY LenProperties
  <2> QED
    BY <2>1, ReplayShape
<1> DEFINE r == g[i - 1]
           e == l[i]
<1>3. DOMAIN r = ReplayFields /\ g[i] = FoldEvent(l, r, e)
  BY <1>1, <1>2
<1> HIDE DEF r, e
<1>4. /\ g[i].status = ObserveStatus(r.status, e)
      /\ ~Applied(l, e) =>
            /\ g[i].active = r.active /\ g[i].kinds = r.kinds
            /\ g[i].starts = r.starts /\ g[i].leaves = r.leaves
            /\ g[i].transcript = r.transcript
      /\ Applied(l, e) =>
            /\ g[i].active = IF Moves(e) THEN e.leaf ELSE r.active
            /\ g[i].kinds = IF e.kind = "started" THEN Put(r.kinds, e.op, e.of) ELSE r.kinds
            /\ g[i].starts = IF e.kind = "started" THEN Put(r.starts, e.op, Len(r.transcript)) ELSE r.starts
            /\ g[i].leaves = IF e.kind = "committed" /\ e.leaf # 0 THEN RecordLeaf(r, e) ELSE r.leaves
            /\ g[i].transcript = Transcribed(r.transcript, e)
  BY <1>3, FoldFacts
<1> QED
  BY <1>4 DEF r, e

(***************************************************************************)
(* Statuses.                                                                *)
(***************************************************************************)
StatusAt(l, st, i) ==
    /\ \A o : o \in DOMAIN st <=>
          \E j \in 1..i : l[j].op = o /\ (l[j].kind = "started" \/ l[j].kind \in FinalMarkers)
    /\ \A j \in 1..i : l[j].kind \in FinalMarkers => st[l[j].op] = l[j].kind
    /\ \A o \in DOMAIN st :
          (\A j \in 1..i : l[j].kind \in FinalMarkers => l[j].op # o) => st[o] = "InDoubt"

(* The status of an operation is that of its marker.                          *)
LEMMA StatusStep ==
    ASSUME NEW l \in Seq(Events), Once(l), NEW i \in 1..Len(l), NEW st, StatusAt(l, st, i - 1)
    PROVE  StatusAt(l, ObserveStatus(st, l[i]), i)
<1> DEFINE e == l[i]
           now == ObserveStatus(st, e)
<1>1. i \in Nat /\ Len(l) \in Nat /\ \A j \in 1..i : j \in 1..(i - 1) \/ j = i
  BY LenProperties
<1>2. \A j \in 1..(i - 1) : j \in 1..i /\ j \in 1..Len(l) /\ j # i
  BY <1>1
<1>3. i \in 1..i
  BY <1>1
<1>4. CASE e.kind = "started" /\ e.op \notin DOMAIN st
  <2>1. now = Put(st, e.op, "InDoubt")
    BY <1>4 DEF ObserveStatus, FinalMarkers
  <2> HIDE DEF now
  <2>2. /\ DOMAIN now = DOMAIN st \cup {e.op} /\ now[e.op] = "InDoubt"
        /\ \A z \in DOMAIN st : z # e.op => now[z] = st[z]
    BY <2>1 DEF Put
  <2>3. e.kind \notin FinalMarkers
    BY <1>4 DEF FinalMarkers
  <2>4. \A j \in 1..(i - 1) : l[j].kind \in FinalMarkers => l[j].op \in DOMAIN st /\ l[j].op # e.op
    BY <1>4 DEF StatusAt
  <2>5. \A o : o \in DOMAIN now <=>
          \E j \in 1..i : l[j].op = o /\ (l[j].kind = "started" \/ l[j].kind \in FinalMarkers)
    BY <1>1, <1>2, <1>3, <1>4, <2>2 DEF StatusAt
  <2>6. \A j \in 1..i : l[j].kind \in FinalMarkers => now[l[j].op] = l[j].kind
    BY <1>1, <2>2, <2>3, <2>4 DEF StatusAt
  <2>7. \A o \in DOMAIN now :
          (\A j \in 1..i : l[j].kind \in FinalMarkers => l[j].op # o) => now[o] = "InDoubt"
    BY <1>2, <2>2 DEF StatusAt
  <2> QED
    BY <2>5, <2>6, <2>7 DEF StatusAt, now
<1>5. CASE e.kind \in FinalMarkers
  <2>1. now = Put(st, e.op, e.kind)
    BY <1>5 DEF ObserveStatus, FinalMarkers
  <2> HIDE DEF now
  <2>2. /\ DOMAIN now = DOMAIN st \cup {e.op} /\ now[e.op] = e.kind
        /\ \A z \in DOMAIN st : z # e.op => now[z] = st[z]
    BY <2>1 DEF Put
  <2>3. \A j \in 1..(i - 1) : l[j].kind \in FinalMarkers => l[j].op \in DOMAIN st /\ l[j].op # e.op
    BY <1>2, <1>5 DEF StatusAt, Once
  <2>4. \A o : o \in DOMAIN now <=>
          \E j \in 1..i : l[j].op = o /\ (l[j].kind = "started" \/ l[j].kind \in FinalMarkers)
    BY <1>1, <1>2, <1>3, <1>5, <2>2 DEF StatusAt
  <2>5. \A j \in 1..i : l[j].kind \in FinalMarkers => now[l[j].op] = l[j].kind
    BY <1>1, <2>2, <2>3 DEF StatusAt
  <2>6. \A o \in DOMAIN now :
          (\A j \in 1..i : l[j].kind \in FinalMarkers => l[j].op # o) => now[o] = "InDoubt"
    BY <1>2, <1>3, <1>5, <2>2 DEF StatusAt
  <2> QED
    BY <2>4, <2>5, <2>6 DEF StatusAt, now
<1>6. CASE e.kind \notin FinalMarkers /\ ~(e.kind = "started" /\ e.op \notin DOMAIN st)
  <2>1. now = st
    BY <1>6 DEF ObserveStatus
  <2>2. \A o : o \in DOMAIN st <=>
          \E j \in 1..i : l[j].op = o /\ (l[j].kind = "started" \/ l[j].kind \in FinalMarkers)
    BY <1>1, <1>2, <1>3, <1>6 DEF StatusAt
  <2>3. \A j \in 1..i : l[j].kind \in FinalMarkers => st[l[j].op] = l[j].kind
    BY <1>1, <1>6 DEF StatusAt
  <2>4. \A o \in DOMAIN st :
          (\A j \in 1..i : l[j].kind \in FinalMarkers => l[j].op # o) => st[o] = "InDoubt"
    BY <1>2 DEF StatusAt
  <2> QED
    BY <2>1, <2>2, <2>3, <2>4 DEF StatusAt
<1> QED
  BY <1>4, <1>5, <1>6

LEMMA ReplayStatus ==
    ASSUME NEW l \in Seq(Events), Once(l), NEW g, Replays(g, l)
    PROVE  StatusAt(l, g[Len(l)].status, Len(l))
<1> DEFINE S == {i \in 0..Len(l) : StatusAt(l, g[i].status, i)}
<1>1. Len(l) \in Nat
  BY LenProperties
<1>2. 0 \in S
  <2>1. g[0].status = <<>>
    BY DEF Replays, EmptyReplay
  <2>2. StatusAt(l, <<>>, 0)
    BY DEF StatusAt
  <2> QED
    BY <1>1, <2>1, <2>2
<1>3. ASSUME NEW i \in 1..Len(l), i - 1 \in S PROVE i \in S
  <2>1. g[i].status = ObserveStatus(g[i - 1].status, l[i])
    BY ReplayStep
  <2>2. StatusAt(l, g[i - 1].status, i - 1)
    BY <1>3
  <2>3. StatusAt(l, ObserveStatus(g[i - 1].status, l[i]), i)
    BY <2>2, StatusStep
  <2> QED
    BY <1>1, <2>1, <2>3
<1> HIDE DEF S
<1>4. \A i \in 0..Len(l) : i \in S
  BY <1>1, <1>2, <1>3, UpTo
<1>5. Len(l) \in 0..Len(l)
  BY <1>1
<1> QED
  BY <1>4, <1>5 DEF S

(***************************************************************************)
(* The active leaf.                                                         *)
(***************************************************************************)
\* The leaf that is active after n events.
Names(l, n, a) ==
    \/ a = 0 /\ \A i \in 1..n : ~Moves(l[i])
    \/ \E i \in 1..n : Moves(l[i]) /\ l[i].leaf = a /\ \A j \in (i + 1)..n : ~Moves(l[j])

LEMMA NamesStep ==
    ASSUME NEW l, NEW i \in Nat, i > 0, NEW a, Names(l, i - 1, a)
    PROVE  Names(l, i, IF Moves(l[i]) THEN l[i].leaf ELSE a)
<1>1. CASE Moves(l[i])
  <2>1. i \in 1..i /\ \A j \in (i + 1)..i : ~Moves(l[j])
    OBVIOUS
  <2> QED
    BY <1>1, <2>1 DEF Names
<1>2. CASE ~Moves(l[i])
  <2>1. CASE a = 0 /\ \A k \in 1..(i - 1) : ~Moves(l[k])
    <3>1. \A k \in 1..i : k \in 1..(i - 1) \/ k = i
      OBVIOUS
    <3> QED
      BY <1>2, <2>1, <3>1 DEF Names
  <2>2. ASSUME NEW k \in 1..(i - 1), Moves(l[k]), l[k].leaf = a, \A j \in (k + 1)..(i - 1) : ~Moves(l[j])
        PROVE  Names(l, i, a)
    <3>1. k \in 1..i /\ \A j \in (k + 1)..i : j \in (k + 1)..(i - 1) \/ j = i
      OBVIOUS
    <3>2. \A j \in (k + 1)..i : ~Moves(l[j])
      BY <1>2, <2>2, <3>1
    <3> QED
      BY <2>2, <3>1, <3>2 DEF Names
  <2> QED
    BY <1>2, <2>1, <2>2 DEF Names
<1> QED
  BY <1>1, <1>2

LEMMA NamesOne ==
    ASSUME NEW l, NEW n \in Nat, NEW a, NEW b, Names(l, n, a), Names(l, n, b)
    PROVE  a = b
<1>1. CASE \A i \in 1..n : ~Moves(l[i])
  BY <1>1 DEF Names
<1>2. CASE ~\A i \in 1..n : ~Moves(l[i])
  <2>1. PICK i \in 1..n : Moves(l[i]) /\ l[i].leaf = a /\ \A j \in (i + 1)..n : ~Moves(l[j])
    BY <1>2 DEF Names
  <2>2. PICK k \in 1..n : Moves(l[k]) /\ l[k].leaf = b /\ \A j \in (k + 1)..n : ~Moves(l[j])
    BY <1>2 DEF Names
  <2>3. i = k
    <3>1. ~(i < k) /\ ~(k < i)
      <4>1. i < k => k \in (i + 1)..n
        OBVIOUS
      <4>2. k < i => i \in (k + 1)..n
        OBVIOUS
      <4> QED
        BY <2>1, <2>2, <4>1, <4>2
    <3> QED
      BY <3>1
  <2> QED
    BY <2>1, <2>2, <2>3
<1> QED
  BY <1>1, <1>2

LEMMA MovesApply ==
    ASSUME NEW l \in Seq(Events), EventsOK(l), NEW i \in 1..Len(l)
    PROVE  /\ Moves(l[i]) => Applied(l, l[i])
           /\ l[i].kind \in FinalMarkers => Applied(l, l[i]) /\ l[i].op \in Finalized(l)
<1>1. DOMAIN l = 1..Len(l)
  BY LenProperties
<1>2. l[i].kind \in FinalMarkers => l[i].op \in Finalized(l)
  BY <1>1 DEF Finalized
<1>3. l[i].kind = "leafChanged" => l[i].op = 0
  BY DEF EventsOK, EventOK, Outside
<1>4. l[i].kind = "committed" => l[i].kind \in FinalMarkers
  BY DEF FinalMarkers
<1> QED
  BY <1>2, <1>3, <1>4 DEF Moves, Applied

LEMMA ActiveNames ==
    ASSUME NEW l \in Seq(Events), EventsOK(l), NEW g, Replays(g, l)
    PROVE  \A i \in 0..Len(l) : Names(l, i, g[i].active)
<1> DEFINE S == {i \in 0..Len(l) : Names(l, i, g[i].active)}
<1>1. Len(l) \in Nat
  BY LenProperties
<1>2. 0 \in S
  <2>1. g[0].active = 0
    BY DEF Replays, EmptyReplay
  <2> QED
    BY <1>1, <2>1 DEF Names
<1>3. ASSUME NEW i \in 1..Len(l), i - 1 \in S PROVE i \in S
  <2>1. g[i].active = IF Moves(l[i]) THEN l[i].leaf ELSE g[i - 1].active
    <3>1. CASE Applied(l, l[i])
      BY <3>1, ReplayStep
    <3>2. CASE ~Applied(l, l[i])
      BY <3>2, ReplayStep, MovesApply
    <3> QED
      BY <3>1, <3>2
  <2>2. Names(l, i - 1, g[i - 1].active)
    BY <1>3
  <2>3. i \in Nat /\ i > 0 /\ i \in 0..Len(l)
    BY <1>1
  <2>4. Names(l, i, IF Moves(l[i]) THEN l[i].leaf ELSE g[i - 1].active)
    BY <2>2, <2>3, NamesStep
  <2> QED
    BY <2>1, <2>3, <2>4
<1> HIDE DEF S
<1>4. \A i \in 0..Len(l) : i \in S
  BY <1>1, <1>2, <1>3, UpTo
<1> QED
  BY <1>4 DEF S

\* build_leaf_tree, event by event.
Trees(p, l) ==
    /\ p[0] = 0 /\ \A i \in 1..Len(l) : p[i] = TreeParent(p[i - 1], l[i])
    /\ LeafTree(l) = {[leaf |-> l[i].leaf, parent |-> p[i - 1]] :
                         i \in {j \in DOMAIN l : l[j].kind = "committed" /\ l[j].leaf # 0}}

LEMMA TreeFolds ==
    ASSUME NEW l, Len(l) \in Nat
    PROVE  \E p : Trees(p, l)
<1> DEFINE n == Len(l)
           Built(h, k) == h = [i \in 0..k |-> IF i = 0 THEN 0 ELSE TreeParent(h[i - 1], l[i])]
           S == {k \in 0..n : \E h : Built(h, k)}
<1>0. n \in Nat
  OBVIOUS
<1>1. 0 \in S
  <2> DEFINE h == [i \in 0..0 |-> 0]
  <2>1. Built(h, 0)
    OBVIOUS
  <2>2. 0 \in 0..n
    BY <1>0
  <2> HIDE DEF h
  <2>3. \E f : Built(f, 0)
    BY <2>1
  <2> QED
    BY <2>2, <2>3
<1>2. ASSUME NEW k \in 1..n, k - 1 \in S PROVE k \in S
  <2>0. k \in Nat /\ k - 1 \in Nat /\ k \in 0..n /\ k # 0
    BY <1>0
  <2>1. PICK f : Built(f, k - 1)
    BY <1>2
  <2> DEFINE h == [i \in 0..k |-> IF i = k THEN TreeParent(f[k - 1], l[k]) ELSE f[i]]
  <2>2. \A i \in 0..(k - 1) : h[i] = f[i]
    BY <2>0
  <2>3. \A i \in 0..k : i # 0 => i - 1 \in 0..(k - 1) /\ (i # k => i \in 0..(k - 1))
    BY <2>0
  <2>4. ASSUME NEW i \in 0..k PROVE h[i] = IF i = 0 THEN 0 ELSE TreeParent(h[i - 1], l[i])
    <3>1. \A j \in 0..(k - 1) : f[j] = IF j = 0 THEN 0 ELSE TreeParent(f[j - 1], l[j])
      BY <2>1
    <3>2. h[i] = IF i = k THEN TreeParent(f[k - 1], l[k]) ELSE f[i]
      OBVIOUS
    <3> HIDE DEF h
    <3>3. CASE i = 0
      <4>1. 0 \in 0..(k - 1)
        BY <2>0
      <4> QED
        BY <2>0, <3>1, <3>2, <3>3, <4>1
    <3>4. CASE i # 0
      <4>1. h[i - 1] = f[i - 1]
        BY <2>2, <2>3, <3>4
      <4> QED
        BY <2>3, <3>1, <3>2, <3>4, <4>1
    <3> QED
      BY <3>3, <3>4
  <2>5. DOMAIN h = 0..k /\ h = [i \in 0..k |-> h[i]]
    OBVIOUS
  <2> HIDE DEF h
  <2>6. Built(h, k)
    BY <2>4, <2>5
  <2> QED
    BY <2>0, <2>6
<1>3. n \in S
  <2> HIDE DEF S, n
  <2> QED
    BY <1>0, <1>1, <1>2, UpTo
<1>4. PICK f : Built(f, n)
  BY <1>3
<1> DEFINE p == CHOOSE h : Built(h, n)
<1>5. Built(p, n)
  BY <1>4
<1>6. LeafTree(l) = {[leaf |-> l[i].leaf, parent |-> p[i - 1]] :
                        i \in {j \in DOMAIN l : l[j].kind = "committed" /\ l[j].leaf # 0}}
  BY Zenon DEF LeafTree
<1> HIDE DEF p
<1>7. p[0] = 0
  BY <1>0, <1>5
<1>8. ASSUME NEW i \in 1..n PROVE p[i] = TreeParent(p[i - 1], l[i])
  BY <1>0, <1>5
<1> QED
  BY <1>6, <1>7, <1>8 DEF Trees

(* The tree and the replay name the same parent at every place.               *)
LEMMA TreeNames ==
    ASSUME NEW l \in Seq(Events), NEW p, Trees(p, l)
    PROVE  \A i \in 0..Len(l) : Names(l, i, p[i])
<1> DEFINE S == {i \in 0..Len(l) : Names(l, i, p[i])}
<1>1. Len(l) \in Nat
  BY LenProperties
<1>2. 0 \in S
  <2>1. p[0] = 0
    BY DEF Trees
  <2> QED
    BY <1>1, <2>1 DEF Names
<1>3. ASSUME NEW i \in 1..Len(l), i - 1 \in S PROVE i \in S
  <2>1. p[i] = IF Moves(l[i]) THEN l[i].leaf ELSE p[i - 1]
    BY DEF Trees, TreeParent, Moves
  <2>2. Names(l, i - 1, p[i - 1])
    BY <1>3
  <2>3. i \in Nat /\ i > 0 /\ i \in 0..Len(l)
    BY <1>1
  <2>4. Names(l, i, IF Moves(l[i]) THEN l[i].leaf ELSE p[i - 1])
    BY <2>2, <2>3, NamesStep
  <2> QED
    BY <2>1, <2>3, <2>4
<1> HIDE DEF S
<1>4. \A i \in 0..Len(l) : i \in S
  BY <1>1, <1>2, <1>3, UpTo
<1> QED
  BY <1>4 DEF S

(***************************************************************************)
(* Where an operation began.                                                *)
(***************************************************************************)
\* The start of an operation that has its marker, as the replay knows it.
Begun(l, g, i) ==
    \A s \in 1..i : l[s].kind = "started" /\ l[s].op \in Finalized(l) =>
        /\ l[s].op \in DOMAIN g[i].kinds /\ l[s].op \in DOMAIN g[i].starts
        /\ g[i].kinds[l[s].op] = l[s].of /\ g[i].starts[l[s].op] = Len(g[s - 1].transcript)

LEMMA BegunStep ==
    ASSUME NEW l \in Seq(Events), StartsFirst(l), NEW g, Replays(g, l), NEW i \in 1..Len(l), Begun(l, g, i - 1)
    PROVE  Begun(l, g, i)
<1>1. i \in Nat /\ Len(l) \in Nat
  BY LenProperties
<1>2. SUFFICES ASSUME NEW s \in 1..i, l[s].kind = "started", l[s].op \in Finalized(l)
               PROVE  /\ l[s].op \in DOMAIN g[i].kinds /\ l[s].op \in DOMAIN g[i].starts
                      /\ g[i].kinds[l[s].op] = l[s].of /\ g[i].starts[l[s].op] = Len(g[s - 1].transcript)
  BY DEF Begun
<1> DEFINE op == l[i].op
           kinds == g[i - 1].kinds
           starts == g[i - 1].starts
<1>3. CASE s = i
  <2>1. /\ g[i].kinds = Put(kinds, op, l[i].of)
        /\ g[i].starts = Put(starts, op, Len(g[i - 1].transcript))
    BY <1>2, <1>3, ReplayStep DEF Applied
  <2> HIDE DEF op, kinds, starts
  <2>2. /\ op \in DOMAIN g[i].kinds /\ op \in DOMAIN g[i].starts
        /\ g[i].kinds[op] = l[i].of /\ g[i].starts[op] = Len(g[i - 1].transcript)
    BY <2>1 DEF Put
  <2> QED
    BY <1>3, <2>2 DEF op
<1>4. CASE s # i
  <2>1. s \in 1..(i - 1) /\ s \in 1..Len(l) /\ s < i
    BY <1>1, <1>4
  <2>2. /\ l[s].op \in DOMAIN kinds /\ l[s].op \in DOMAIN starts
        /\ kinds[l[s].op] = l[s].of /\ starts[l[s].op] = Len(g[s - 1].transcript)
    BY <1>2, <2>1 DEF Begun
  <2>3. l[i].kind = "started" => l[s].op # op
    BY <1>1, <1>2, <2>1 DEF StartsFirst
  <2>4. \/ l[i].kind # "started" /\ g[i].kinds = kinds /\ g[i].starts = starts
        \/ g[i].kinds = kinds /\ g[i].starts = starts
        \/ /\ l[i].kind = "started" /\ g[i].kinds = Put(kinds, op, l[i].of)
           /\ g[i].starts = Put(starts, op, Len(g[i - 1].transcript))
    BY ReplayStep
  <2> HIDE DEF kinds, starts, op
  <2>5. CASE g[i].kinds = kinds /\ g[i].starts = starts
    BY <2>2, <2>5
  <2>6. CASE /\ l[i].kind = "started" /\ g[i].kinds = Put(kinds, op, l[i].of)
             /\ g[i].starts = Put(starts, op, Len(g[i - 1].transcript))
    BY <2>2, <2>3, <2>6 DEF Put
  <2> QED
    BY <2>4, <2>5, <2>6
<1> QED
  BY <1>3, <1>4

LEMMA ReplayBegun ==
    ASSUME NEW l \in Seq(Events), StartsFirst(l), NEW g, Replays(g, l)
    PROVE  \A i \in 0..Len(l) : Begun(l, g, i)
<1> DEFINE S == {i \in 0..Len(l) : Begun(l, g, i)}
<1>1. Len(l) \in Nat
  BY LenProperties
<1>2. 0 \in S
  BY <1>1 DEF Begun
<1>3. ASSUME NEW i \in 1..Len(l), i - 1 \in S PROVE i \in S
  <2>1. i \in 0..Len(l)
    BY <1>1
  <2> QED
    BY <1>3, <2>1, BegunStep
<1> HIDE DEF S
<1>4. \A i \in 0..Len(l) : i \in S
  BY <1>1, <1>2, <1>3, UpTo
<1> QED
  BY <1>4 DEF S

(***************************************************************************)
(* The transcript.                                                          *)
(***************************************************************************)
Entries == [kind : {"user", "item", "diagnostic", "compaction", "summary"}, op : Nat,
            id : Nat \X Nat, st : {"Started", "Completed", "Cancelled"}]

LEMMA EntryFacts ==
    ASSUME NEW op \in Nat, NEW id \in Nat \X Nat
    PROVE  /\ \A k \in {"user", "item", "diagnostic", "compaction", "summary"},
                 st \in {"Started", "Completed", "Cancelled"} :
                 /\ Entry(k, op, id, st) \in Entries
                 /\ Entry(k, op, id, st).kind = k /\ Entry(k, op, id, st).op = op
                 /\ Entry(k, op, id, st).id = id /\ Entry(k, op, id, st).st = st
           /\ NoItem \in Nat \X Nat
BY DEF Entry, Entries, NoItem

\* What a step that is no compaction does: the entries there keep their places.
Extends(t, u, e) ==
    /\ u \in Seq(Entries) /\ Len(t) <= Len(u)
    /\ \A p \in 1..Len(t) :
          /\ u[p].op = t[p].op /\ u[p].kind = t[p].kind /\ u[p].id = t[p].id
          /\ u[p].st = "Started" =>
                t[p].st = "Started" /\ ~(e.kind \in Settling /\ t[p].kind = "item" /\ t[p].id = e.item)
    /\ \A p \in 1..Len(u) : p > Len(t) =>
          /\ u[p].op = e.op /\ e.kind \notin FinalMarkers
          /\ u[p].st = "Started" => e.kind = "itemStarted" /\ u[p].kind = "item" /\ u[p].id = e.item

LEMMA ExtendsByOne ==
    ASSUME NEW t \in Seq(Entries), NEW e, NEW x \in Entries, x.op = e.op,
           e.kind \notin FinalMarkers, e.kind \notin Settling,
           x.st = "Started" => e.kind = "itemStarted" /\ x.kind = "item" /\ x.id = e.item
    PROVE  Extends(t, Append(t, x), e)
<1> DEFINE u == Append(t, x)
<1>1. /\ u \in Seq(Entries) /\ Len(u) = Len(t) + 1 /\ Len(t) \in Nat
      /\ \A p \in 1..Len(t) : u[p] = t[p]
      /\ u[Len(t) + 1] = x
  BY AppendProperties, LenProperties
<1> HIDE DEF u
<1>2. \A p \in 1..Len(u) : p > Len(t) => p = Len(t) + 1
  BY <1>1
<1>3. Len(t) <= Len(u)
  BY <1>1
<1> QED
  BY <1>1, <1>2, <1>3 DEF Extends, u

LEMMA ExtendsSame ==
    ASSUME NEW t \in Seq(Entries), NEW e, e.kind \notin Settling
    PROVE  Extends(t, t, e)
<1>1. Len(t) \in Nat
  BY LenProperties
<1> QED
  BY <1>1 DEF Extends

LEMMA ExtendsSettled ==
    ASSUME NEW t \in Seq(Entries), NEW e, NEW st \in {"Completed", "Cancelled"}
    PROVE  Extends(t, SetItem(t, e.item, st), e)
<1> DEFINE u == SetItem(t, e.item, st)
<1>1. Len(t) \in Nat /\ DOMAIN t = 1..Len(t) /\ \A p \in 1..Len(t) : t[p] \in Entries
  BY LenProperties, ElementOfSeq
<1>2. /\ DOMAIN u = 1..Len(t)
      /\ \A p \in 1..Len(t) : u[p] = IF t[p].id = e.item /\ t[p].kind = "item"
                                     THEN [t[p] EXCEPT !.st = st] ELSE t[p]
      /\ u = [p \in 1..Len(t) |-> u[p]]
  BY <1>1 DEF SetItem
<1> HIDE DEF u
<1>3. \A x \in Entries :
         /\ [x EXCEPT !.st = st] \in Entries /\ [x EXCEPT !.st = st].op = x.op
         /\ [x EXCEPT !.st = st].kind = x.kind /\ [x EXCEPT !.st = st].id = x.id
         /\ [x EXCEPT !.st = st].st # "Started"
  BY DEF Entries
<1>4. \A p \in 1..Len(t) : u[p] \in Entries
  BY <1>1, <1>2, <1>3
<1>5. u \in [1..Len(t) -> Entries]
  BY <1>2, <1>4
<1>6. u \in Seq(Entries) /\ Len(u) = Len(t)
  BY <1>1, <1>5, SeqDef, LenProperties
<1>7. \A p \in 1..Len(t) :
          /\ u[p].op = t[p].op /\ u[p].kind = t[p].kind /\ u[p].id = t[p].id
          /\ u[p].st = "Started" =>
                t[p].st = "Started" /\ ~(e.kind \in Settling /\ t[p].kind = "item" /\ t[p].id = e.item)
  BY <1>1, <1>2, <1>3
<1>8. Len(t) <= Len(u) /\ \A p \in 1..Len(u) : ~(p > Len(t))
  BY <1>1, <1>6
<1> QED
  BY <1>6, <1>7, <1>8 DEF Extends, u

(* A compaction keeps some of the entries and adds one of its own.            *)
LEMMA CompactFacts ==
    ASSUME NEW t \in Seq(Entries), NEW op \in Nat, NEW keep
    PROVE  /\ Compact(t, op, keep) \in Seq(Entries)
           /\ \A p \in 1..Len(Compact(t, op, keep)) :
                 \/ Compact(t, op, keep)[p].st = "Completed" /\ Compact(t, op, keep)[p].op = op
                 \/ \E q \in 1..Len(t) : Compact(t, op, keep)[p] = t[q]
<1> DEFINE at == {i \in DOMAIN t : t[i].id = keep}
           first == CHOOSE i \in at : \A j \in at : i <= j
           x == Entry("compaction", op, NoItem, "Completed")
           rest == SubSeq(t, first, Len(t))
<1>1. Len(t) \in Nat /\ DOMAIN t = 1..Len(t) /\ \A p \in 1..Len(t) : t[p] \in Entries
  BY LenProperties, ElementOfSeq
<1>2. CASE at = {}
  <2>1. Compact(t, op, keep) = t
    BY <1>2 DEF Compact
  <2> QED
    BY <2>1
<1>3. CASE at # {}
  <2>1. Compact(t, op, keep) = <<x>> \o rest
    BY <1>3 DEF Compact
  <2>2. first \in 1..Len(t)
    <3>1. at \in SUBSET (1..Len(t)) /\ at \in SUBSET Nat
      BY <1>1
    <3> HIDE DEF at
    <3>2. \E i \in at : \A j \in at : i <= j
      BY <1>3, <3>1, NatLeast
    <3>3. first \in at
      BY <3>2
    <3> HIDE DEF first
    <3> QED
      BY <3>1, <3>3
  <2>3. x \in Entries /\ x.st = "Completed" /\ x.op = op
    <3>1. NoItem \in Nat \X Nat
      BY DEF NoItem
    <3> QED
      BY <3>1, EntryFacts
  <2> HIDE DEF at, first, x
  <2>4. /\ rest \in Seq(Entries) /\ Len(rest) \in Nat
        /\ \A p \in 1..Len(rest) : \E q \in 1..Len(t) : rest[p] = t[q]
    <3>1. first <= Len(t) + 1 /\ first \in 1..(Len(t) + 1) /\ Len(t) <= Len(t)
      BY <1>1, <2>2
    <3>2. \A i \in first..Len(t) : t[i] \in Entries
      BY <1>1, <2>2
    <3>3. /\ rest \in Seq(Entries) /\ Len(rest) = Len(t) - first + 1
          /\ \A p \in 1..(Len(t) - first + 1) : rest[p] = t[first + p - 1]
      BY <1>1, <2>2, <3>1, <3>2, SubSeqProperties
    <3>4. \A p \in 1..(Len(t) - first + 1) : first + p - 1 \in 1..Len(t)
      BY <1>1, <2>2
    <3>5. Len(t) - first + 1 \in Nat
      BY <1>1, <2>2
    <3> QED
      BY <3>3, <3>4, <3>5
  <2> HIDE DEF rest
  <2> DEFINE u == <<x>> \o rest
  <2>5. <<x>> \in Seq(Entries) /\ Len(<<x>>) = 1 /\ <<x>>[1] = x
    BY <2>3
  <2>6. /\ u \in Seq(Entries) /\ Len(u) = 1 + Len(rest)
        /\ \A p \in 1..(1 + Len(rest)) : u[p] = IF p <= 1 THEN <<x>>[p] ELSE rest[p - 1]
    BY <2>4, <2>5, ConcatProperties
  <2>7. ASSUME NEW p \in 1..Len(u)
        PROVE  \/ u[p].st = "Completed" /\ u[p].op = op
               \/ \E q \in 1..Len(t) : u[p] = t[q]
    <3>1. p = 1 \/ (p - 1 \in 1..Len(rest) /\ ~(p <= 1))
      BY <2>4, <2>6
    <3>2. u[p] = IF p <= 1 THEN <<x>>[p] ELSE rest[p - 1]
      BY <2>6
    <3>3. CASE p = 1
      <4>1. u[p] = x
        BY <2>5, <3>2, <3>3
      <4> QED
        BY <2>3, <4>1
    <3>4. CASE p - 1 \in 1..Len(rest) /\ ~(p <= 1)
      <4>1. u[p] = rest[p - 1]
        BY <3>2, <3>4
      <4> QED
        BY <2>4, <3>4, <4>1
    <3> QED
      BY <3>1, <3>3, <3>4
  <2> QED
    BY <2>1, <2>6, <2>7
<1> QED
  BY <1>2, <1>3

LEMMA TranscribedFacts ==
    ASSUME NEW t \in Seq(Entries), NEW e \in Events
    PROVE  /\ Transcribed(t, e) \in Seq(Entries)
           /\ e.kind # "compacted" => Extends(t, Transcribed(t, e), e)
           /\ e.kind = "compacted" => Transcribed(t, e) = Compact(t, e.op, e.item)
<1>1. e.op \in Nat /\ e.item \in Nat \X Nat /\ e.kind \in EventKinds
  BY DEF Events
<1>2. /\ Entry("user", e.op, e.item, "Completed") \in Entries
      /\ Entry("user", e.op, e.item, "Completed").op = e.op
      /\ Entry("user", e.op, e.item, "Completed").st = "Completed"
      /\ Entry("item", e.op, e.item, "Started") \in Entries
      /\ Entry("item", e.op, e.item, "Started").op = e.op
      /\ Entry("item", e.op, e.item, "Started").id = e.item
      /\ Entry("item", e.op, e.item, "Started").kind = "item"
  BY SMTT(60), <1>1, EntryFacts
<1>3. /\ Entry("diagnostic", e.op, NoItem, "Completed") \in Entries
      /\ Entry("diagnostic", e.op, NoItem, "Completed").op = e.op
      /\ Entry("diagnostic", e.op, NoItem, "Completed").st = "Completed"
      /\ Entry("summary", e.op, NoItem, "Completed") \in Entries
      /\ Entry("summary", e.op, NoItem, "Completed").op = e.op
      /\ Entry("summary", e.op, NoItem, "Completed").st = "Completed"
  <2>1. NoItem \in Nat \X Nat
    BY DEF NoItem
  <2> QED
    BY <1>1, <2>1, EntryFacts
<1>4. \A u : Extends(t, u, e) => u \in Seq(Entries)
  BY DEF Extends
<1>5. CASE e.kind = "input"
  <2>1. Transcribed(t, e) = Append(t, Entry("user", e.op, e.item, "Completed"))
    BY <1>5 DEF Transcribed
  <2>2. e.kind \notin FinalMarkers /\ e.kind \notin Settling
    BY <1>5 DEF FinalMarkers, Settling
  <2>3. Extends(t, Append(t, Entry("user", e.op, e.item, "Completed")), e)
    BY <1>2, <2>2, ExtendsByOne
  <2> QED
    BY <1>4, <1>5, <2>1, <2>3
<1>6. CASE e.kind = "itemStarted"
  <2>1. Transcribed(t, e) = Append(t, Entry("item", e.op, e.item, "Started"))
    BY <1>6 DEF Transcribed
  <2>2. e.kind \notin FinalMarkers /\ e.kind \notin Settling
    BY <1>6 DEF FinalMarkers, Settling
  <2>3. Extends(t, Append(t, Entry("item", e.op, e.item, "Started")), e)
    BY <1>2, <1>6, <2>2, ExtendsByOne
  <2> QED
    BY <1>4, <1>6, <2>1, <2>3
<1>7. CASE e.kind = "diagnostic"
  <2>1. Transcribed(t, e) = Append(t, Entry("diagnostic", e.op, NoItem, "Completed"))
    BY <1>7 DEF Transcribed
  <2>2. e.kind \notin FinalMarkers /\ e.kind \notin Settling
    BY <1>7 DEF FinalMarkers, Settling
  <2>3. Extends(t, Append(t, Entry("diagnostic", e.op, NoItem, "Completed")), e)
    BY <1>3, <2>2, ExtendsByOne
  <2> QED
    BY <1>4, <1>7, <2>1, <2>3
<1>8. CASE e.kind = "summarized"
  <2>1. Transcribed(t, e) = Append(t, Entry("summary", e.op, NoItem, "Completed"))
    BY <1>8 DEF Transcribed
  <2>2. e.kind \notin FinalMarkers /\ e.kind \notin Settling
    BY <1>8 DEF FinalMarkers, Settling
  <2>3. Extends(t, Append(t, Entry("summary", e.op, NoItem, "Completed")), e)
    BY <1>3, <2>2, ExtendsByOne
  <2> QED
    BY <1>4, <1>8, <2>1, <2>3
<1>9. CASE e.kind = "itemCompleted"
  <2>1. Transcribed(t, e) = SetItem(t, e.item, "Completed")
    BY <1>9 DEF Transcribed
  <2>2. Extends(t, SetItem(t, e.item, "Completed"), e)
    BY ExtendsSettled
  <2> QED
    BY <1>4, <1>9, <2>1, <2>2
<1>10. CASE e.kind = "itemCancelled"
  <2>1. Transcribed(t, e) = SetItem(t, e.item, "Cancelled")
    BY <1>10 DEF Transcribed
  <2>2. Extends(t, SetItem(t, e.item, "Cancelled"), e)
    BY ExtendsSettled
  <2> QED
    BY <1>4, <1>10, <2>1, <2>2
<1>11. CASE e.kind = "compacted"
  <2>1. Transcribed(t, e) = Compact(t, e.op, e.item)
    BY <1>11 DEF Transcribed
  <2> QED
    BY <1>1, <1>11, <2>1, CompactFacts
<1>12. CASE e.kind \notin {"input", "itemStarted", "diagnostic", "summarized", "itemCompleted",
                           "itemCancelled", "compacted"}
  <2>1. Transcribed(t, e) = t
    BY <1>12 DEF Transcribed
  <2>2. Extends(t, t, e)
    BY <1>12, ExtendsSame DEF Settling
  <2> QED
    BY <1>12, <2>1, <2>2
<1> QED
  BY <1>5, <1>6, <1>7, <1>8, <1>9, <1>10, <1>11, <1>12

LEMMA TranscriptType ==
    ASSUME NEW l \in Seq(Events), NEW g, Replays(g, l)
    PROVE  \A i \in 0..Len(l) : g[i].transcript \in Seq(Entries) /\ Len(g[i].transcript) \in Nat
<1> DEFINE S == {i \in 0..Len(l) : g[i].transcript \in Seq(Entries)}
<1>1. Len(l) \in Nat
  BY LenProperties
<1>2. 0 \in S
  <2>1. g[0].transcript = <<>>
    BY DEF Replays, EmptyReplay
  <2>2. <<>> \in Seq(Entries)
    OBVIOUS
  <2>3. 0 \in 0..Len(l)
    BY <1>1
  <2> QED
    BY <2>1, <2>2, <2>3
<1>3. ASSUME NEW i \in 1..Len(l), i - 1 \in S PROVE i \in S
  <2>1. g[i].transcript \in {g[i - 1].transcript, Transcribed(g[i - 1].transcript, l[i])}
    BY ReplayStep
  <2>2. g[i - 1].transcript \in Seq(Entries) /\ l[i] \in Events
    BY <1>3, LogFacts
  <2>3. Transcribed(g[i - 1].transcript, l[i]) \in Seq(Entries)
    BY <2>2, TranscribedFacts
  <2> QED
    BY <1>1, <2>1, <2>2, <2>3
<1> HIDE DEF S
<1>4. \A i \in 0..Len(l) : i \in S
  BY <1>1, <1>2, <1>3, UpTo
<1> QED
  BY <1>4, LenProperties DEF S

(***************************************************************************)
(* Items that still run.                                                    *)
(***************************************************************************)
\* An entry that runs was started and is not settled since.
RunningAt(l, i, x) ==
    \E j \in 1..i :
        /\ l[j].kind = "itemStarted" /\ Applied(l, l[j])
        /\ x.kind = "item" /\ x.op = l[j].op /\ x.id = l[j].item
        /\ \A k \in (j + 1)..i : l[k].kind \in Settling /\ Applied(l, l[k]) => l[k].item # x.id

Running(l, t, i) == \A p \in 1..Len(t) : t[p].st = "Started" => RunningAt(l, i, t[p])

LEMMA RunningKept ==
    ASSUME NEW l, NEW i \in Nat, i > 0, NEW x, RunningAt(l, i - 1, x),
           NEW y, y.kind = x.kind, y.op = x.op, y.id = x.id,
           l[i].kind \in Settling /\ Applied(l, l[i]) => ~(x.kind = "item" /\ x.id = l[i].item)
    PROVE  RunningAt(l, i, y)
<1>1. PICK j \in 1..(i - 1) :
        /\ l[j].kind = "itemStarted" /\ Applied(l, l[j])
        /\ x.kind = "item" /\ x.op = l[j].op /\ x.id = l[j].item
        /\ \A k \in (j + 1)..(i - 1) : l[k].kind \in Settling /\ Applied(l, l[k]) => l[k].item # x.id
  BY DEF RunningAt
<1>2. j \in 1..i /\ \A k \in (j + 1)..i : k \in (j + 1)..(i - 1) \/ k = i
  OBVIOUS
<1>3. \A k \in (j + 1)..i : l[k].kind \in Settling /\ Applied(l, l[k]) => l[k].item # x.id
  BY <1>1, <1>2
<1> QED
  BY <1>1, <1>2, <1>3 DEF RunningAt

LEMMA RunningStep ==
    ASSUME NEW l \in Seq(Events), NEW g, Replays(g, l), NEW i \in 1..Len(l),
           Running(l, g[i - 1].transcript, i - 1)
    PROVE  Running(l, g[i].transcript, i)
<1> DEFINE t == g[i - 1].transcript
           u == g[i].transcript
           e == l[i]
<1>1. /\ Len(l) \in Nat /\ i \in Nat /\ i > 0 /\ e \in Events /\ e.op \in Nat
      /\ t \in Seq(Entries) /\ u \in Seq(Entries) /\ Len(t) \in Nat /\ Len(u) \in Nat
  <2>1. Len(l) \in Nat /\ e \in Events /\ e.op \in Nat
    BY LogFacts
  <2>2. i \in Nat /\ i > 0 /\ i \in 0..Len(l) /\ i - 1 \in 0..Len(l)
    BY <2>1
  <2> QED
    BY <2>1, <2>2, TranscriptType
<1>2. ~Applied(l, e) => u = t
  BY ReplayStep
<1>3. Applied(l, e) => u = Transcribed(t, e)
  BY ReplayStep
<1>0. Running(l, t, i - 1) /\ i \in 1..i
  BY <1>1
<1> HIDE DEF t, u
<1>4. CASE ~Applied(l, e)
  <2>1. ASSUME NEW p \in 1..Len(u), u[p].st = "Started" PROVE RunningAt(l, i, u[p])
    <3>1. RunningAt(l, i - 1, u[p])
      BY <1>0, <1>2, <1>4, <2>1 DEF Running
    <3> QED
      BY <1>1, <1>4, <3>1, RunningKept
  <2> QED
    BY <2>1 DEF Running, u
<1>5. CASE Applied(l, e) /\ e.kind # "compacted"
  <2>1. Extends(t, u, e)
    BY <1>1, <1>3, <1>5, TranscribedFacts
  <2>2. ASSUME NEW p \in 1..Len(u), u[p].st = "Started" PROVE RunningAt(l, i, u[p])
    <3>1. CASE p <= Len(t)
      <4>1. p \in 1..Len(t)
        BY <1>1, <3>1
      <4>2. /\ u[p].op = t[p].op /\ u[p].kind = t[p].kind /\ u[p].id = t[p].id
            /\ t[p].st = "Started" /\ ~(e.kind \in Settling /\ t[p].kind = "item" /\ t[p].id = e.item)
        BY <2>1, <2>2, <4>1 DEF Extends
      <4>3. RunningAt(l, i - 1, t[p])
        BY <1>0, <4>1, <4>2 DEF Running
      <4> QED
        BY <1>1, <4>2, <4>3, RunningKept
    <3>2. CASE p > Len(t)
      <4>1. e.kind = "itemStarted" /\ u[p].kind = "item" /\ u[p].id = e.item /\ u[p].op = e.op
        BY <2>1, <2>2, <3>2 DEF Extends
      <4>2. \A k \in (i + 1)..i : FALSE
        BY <1>1
      <4> QED
        BY <1>0, <1>5, <4>1, <4>2 DEF RunningAt
    <3> QED
      BY <1>1, <3>1, <3>2
  <2> QED
    BY <2>2 DEF Running, u
<1>6. CASE Applied(l, e) /\ e.kind = "compacted"
  <2>1. u = Compact(t, e.op, e.item)
    BY <1>1, <1>3, <1>6, TranscribedFacts
  <2>2. ASSUME NEW p \in 1..Len(u), u[p].st = "Started" PROVE RunningAt(l, i, u[p])
    <3>1. PICK q \in 1..Len(t) : u[p] = t[q]
      BY <1>1, <2>1, <2>2, CompactFacts
    <3>2. RunningAt(l, i - 1, t[q])
      BY <1>0, <2>2, <3>1 DEF Running
    <3>3. e.kind \notin Settling
      BY <1>6 DEF Settling
    <3> QED
      BY <1>1, <3>1, <3>2, <3>3, RunningKept
  <2> QED
    BY <2>2 DEF Running, u
<1> QED
  BY <1>4, <1>5, <1>6

LEMMA ReplayRunning ==
    ASSUME NEW l \in Seq(Events), NEW g, Replays(g, l)
    PROVE  Running(l, g[Len(l)].transcript, Len(l))
<1> DEFINE S == {i \in 0..Len(l) : Running(l, g[i].transcript, i)}
<1>1. Len(l) \in Nat
  BY LenProperties
<1>2. 0 \in S
  <2>1. g[0].transcript = <<>>
    BY DEF Replays, EmptyReplay
  <2>2. Running(l, <<>>, 0)
    BY DEF Running
  <2> QED
    BY <1>1, <2>1, <2>2
<1>3. ASSUME NEW i \in 1..Len(l), i - 1 \in S PROVE i \in S
  <2>1. i \in 0..Len(l)
    BY <1>1
  <2> QED
    BY <1>3, <2>1, RunningStep
<1> HIDE DEF S
<1>4. \A i \in 0..Len(l) : i \in S
  BY <1>1, <1>2, <1>3, UpTo
<1>5. Len(l) \in 0..Len(l)
  BY <1>1
<1> QED
  BY <1>4, <1>5 DEF S

(* Only what an operation started that was recovered is replayed as running.  *)
LEMMA RunningRecovered ==
    ASSUME NEW l \in Seq(Events), Ordered(l), Once(l), NEW g, Replays(g, l),
           NEW p \in 1..Len(g[Len(l)].transcript), g[Len(l)].transcript[p].st = "Started"
    PROVE  g[Len(l)].status[g[Len(l)].transcript[p].op] = "recovered"
<1> DEFINE x == g[Len(l)].transcript[p]
<1>1. RunningAt(l, Len(l), x)
  BY ReplayRunning DEF Running
<1> HIDE DEF x
<1>2. PICK j \in 1..Len(l) :
        /\ l[j].kind = "itemStarted" /\ Applied(l, l[j])
        /\ x.kind = "item" /\ x.op = l[j].op /\ x.id = l[j].item
        /\ \A k \in (j + 1)..Len(l) : l[k].kind \in Settling /\ Applied(l, l[k]) => l[k].item # x.id
  BY <1>1 DEF RunningAt
<1>3. Len(l) \in Nat /\ DOMAIN l = 1..Len(l)
  BY LenProperties
<1>4. EventOK(l[j]) /\ l[j].op # 0 /\ l[j].item[1] = l[j].op
  BY <1>2 DEF Ordered, EventsOK, EventOK, Outside
<1>5. PICK m \in 1..Len(l) : l[m].kind \in FinalMarkers /\ l[m].op = l[j].op
  BY <1>2, <1>3, <1>4 DEF Applied, Finalized
<1>6. l[m].kind \notin Ended
  <2>1. SUFFICES ASSUME l[m].kind \in Ended PROVE FALSE
    OBVIOUS
  <2>2. PICK k \in 1..Len(l) : k > j /\ l[k].kind \in Settling /\ l[k].item = l[j].item
    BY <1>2, <1>5, <2>1 DEF Ordered, Settled
  <2>3. l[k].item[1] = l[k].op
    BY <2>2 DEF Ordered, EventsOK, EventOK
  <2>4. l[k].op = l[j].op
    BY <1>4, <2>2, <2>3
  <2>5. Applied(l, l[k])
    BY <1>2, <2>4 DEF Applied
  <2>6. k \in (j + 1)..Len(l)
    BY <1>3, <2>2
  <2> QED
    BY <1>2, <2>2, <2>5, <2>6
<1>7. l[m].kind = "recovered"
  BY <1>5, <1>6 DEF Ended, FinalMarkers
<1>8. g[Len(l)].status[l[m].op] = l[m].kind
  BY <1>5, ReplayStatus DEF StatusAt
<1> QED
  BY <1>2, <1>5, <1>7, <1>8 DEF x

(***************************************************************************)
(* The leaves.                                                              *)
(***************************************************************************)
Commits(e) == e.kind = "committed" /\ e.leaf # 0

\* The record of the leaf that event j commits.
LeafOf(l, g, j) ==
    [leaf |-> l[j].leaf, parent |-> g[j - 1].active, first |-> g[j - 1].starts[l[j].op] + 1,
     last |-> Len(g[j - 1].transcript)]
LeafSet(l, g) == {LeafOf(l, g, j) : j \in {k \in 1..Len(l) : Commits(l[k])}}

LeavesAt(l, g, i) ==
    LET leaves == g[i].leaves
    IN /\ leaves \in Seq(LeafSet(l, g))
       /\ \A j \in 1..i : Commits(l[j]) => \E x \in 1..Len(leaves) : leaves[x] = LeafOf(l, g, j)
       /\ \A x \in 1..Len(leaves) :
             leaves[x].parent = 0 \/ \E y \in 1..(x - 1) : leaves[y].leaf = leaves[x].parent

\* Where the operation began that commits a leaf.
LEMMA CommitBegun ==
    ASSUME NEW l \in Seq(Events), Ordered(l), Once(l), NEW g, Replays(g, l),
           NEW c \in 1..Len(l), Commits(l[c])
    PROVE  \E s \in 1..(c - 1) :
              /\ l[s].kind = "started" /\ l[s].op = l[c].op /\ l[s].of = "prompt"
              /\ g[c - 1].kinds[l[c].op] = "prompt"
              /\ g[c - 1].starts[l[c].op] = Len(g[s - 1].transcript)
<1>1. Len(l) \in Nat /\ c \in Nat /\ c - 1 \in 0..Len(l) /\ \A s \in 1..c : s \in 1..Len(l)
  BY LenProperties
<1>2. l[c].op # 0 /\ l[c].kind = "committed" /\ l[c].leaf # 0
  BY DEF Ordered, EventsOK, EventOK, Commits, Outside
<1>3. PICK s \in 1..c : l[s].kind = "started" /\ l[s].op = l[c].op
  BY <1>2 DEF Ordered, HasStart
<1>4. s # c
  BY <1>2, <1>3
<1>5. s \in 1..(c - 1)
  BY <1>1, <1>4
<1>6. l[s].of = "prompt"
  BY <1>1, <1>2, <1>3 DEF Ordered, OfKind, Does
<1>7. l[s].op \in Finalized(l)
  BY <1>2, <1>3, MovesApply DEF Ordered, FinalMarkers
<1>8. Begun(l, g, c - 1)
  BY <1>1, ReplayBegun DEF Ordered
<1>9. g[c - 1].kinds[l[s].op] = l[s].of /\ g[c - 1].starts[l[s].op] = Len(g[s - 1].transcript)
  BY <1>3, <1>5, <1>7, <1>8 DEF Begun
<1> QED
  BY <1>3, <1>5, <1>6, <1>9

\* The leaf that is active was committed.
LEMMA ActiveCommitted ==
    ASSUME NEW l \in Seq(Events), Ordered(l), NEW i \in 0..Len(l), NEW a, Names(l, i, a), a # 0
    PROVE  \E j \in 1..i : Commits(l[j]) /\ l[j].leaf = a
<1>1. Len(l) \in Nat
  BY LenProperties
<1>2. PICK k \in 1..i : Moves(l[k]) /\ l[k].leaf = a
  BY DEF Names
<1>3. CASE l[k].kind = "leafChanged"
  <2>1. PICK j \in 1..k : l[j].kind = "committed" /\ l[j].leaf = l[k].leaf
    BY <1>1, <1>3 DEF Ordered, SwitchedTo
  <2>2. j \in 1..i
    BY <1>1
  <2> QED
    BY <1>2, <2>1, <2>2 DEF Commits
<1>4. CASE l[k].kind # "leafChanged"
  BY <1>2, <1>4 DEF Moves, Commits
<1> QED
  BY <1>3, <1>4

LEMMA LeavesStep ==
    ASSUME NEW l \in Seq(Events), Ordered(l), Once(l), NEW g, Replays(g, l), NEW i \in 1..Len(l),
           LeavesAt(l, g, i - 1)
    PROVE  LeavesAt(l, g, i)
<1> DEFINE old == g[i - 1].leaves
           new == g[i].leaves
           x == LeafOf(l, g, i)
           L == LeafSet(l, g)
<1>1. Len(l) \in Nat /\ i \in Nat /\ \A j \in 1..i : j \in 1..(i - 1) \/ j = i
  BY LenProperties
<1>2. /\ old \in Seq(L)
      /\ \A j \in 1..(i - 1) : Commits(l[j]) => \E y \in 1..Len(old) : old[y] = LeafOf(l, g, j)
      /\ \A z \in 1..Len(old) : old[z].parent = 0 \/ \E y \in 1..(z - 1) : old[y].leaf = old[z].parent
  BY DEF LeavesAt
<1>3. CASE ~Commits(l[i])
  <2>1. new = old
    <3>1. CASE Applied(l, l[i])
      BY <1>3, <3>1, ReplayStep DEF Commits
    <3>2. CASE ~Applied(l, l[i])
      BY <3>2, ReplayStep
    <3> QED
      BY <3>1, <3>2
  <2>2. \A j \in 1..i : Commits(l[j]) => \E y \in 1..Len(old) : old[y] = LeafOf(l, g, j)
    BY <1>1, <1>2, <1>3
  <2> QED
    BY <1>2, <2>1, <2>2 DEF LeavesAt
<1>4. CASE Commits(l[i])
  <2>1. new = Append(old, x)
    <3>1. Applied(l, l[i])
      BY <1>4, MovesApply DEF Ordered, Commits, Moves
    <3>2. new = RecordLeaf(g[i - 1], l[i])
      BY <1>4, <3>1, ReplayStep DEF Commits
    <3>3. g[i - 1].kinds[l[i].op] = "prompt"
      BY <1>4, CommitBegun
    <3> QED
      BY <3>2, <3>3 DEF RecordLeaf, LeafOf
  <2>2. x \in L /\ x.leaf = l[i].leaf /\ x.parent = g[i - 1].active
    BY <1>4 DEF LeafSet, LeafOf
  <2>3. \A j \in 1..Len(l) : LeafOf(l, g, j).leaf = l[j].leaf
    BY DEF LeafOf
  <2>4. Names(l, i - 1, g[i - 1].active)
    <3>1. i - 1 \in 0..Len(l)
      BY <1>1
    <3> QED
      BY <3>1, ActiveNames DEF Ordered
  <2> HIDE DEF old, new, x, L
  <2>5. x.parent = 0 \/ \E y \in 1..Len(old) : old[y].leaf = x.parent
    <3>1. ASSUME x.parent # 0 PROVE \E y \in 1..Len(old) : old[y].leaf = x.parent
      <4>1. i - 1 \in 0..Len(l)
        BY <1>1
      <4>2. PICK j \in 1..(i - 1) : Commits(l[j]) /\ l[j].leaf = x.parent
        BY <2>2, <2>4, <3>1, <4>1, ActiveCommitted
      <4>3. PICK y \in 1..Len(old) : old[y] = LeafOf(l, g, j)
        BY <1>2, <4>2
      <4>4. j \in 1..Len(l)
        BY <1>1
      <4> QED
        BY <2>3, <4>2, <4>3, <4>4
    <3> QED
      BY <3>1
  <2>6. /\ Append(old, x) \in Seq(L) /\ Len(Append(old, x)) = Len(old) + 1 /\ Len(old) \in Nat
        /\ \A y \in 1..Len(old) : Append(old, x)[y] = old[y]
        /\ Append(old, x)[Len(old) + 1] = x
    BY <1>2, <2>2, AppendProperties, LenProperties
  <2>7. /\ new \in Seq(L) /\ Len(new) = Len(old) + 1 /\ Len(old) \in Nat
        /\ \A y \in 1..Len(old) : new[y] = old[y] /\ y \in 1..Len(new)
        /\ new[Len(old) + 1] = x /\ Len(old) + 1 \in 1..Len(new)
    BY <2>1, <2>6
  <2>8. \A j \in 1..i : Commits(l[j]) => \E y \in 1..Len(new) : new[y] = LeafOf(l, g, j)
    BY <1>1, <1>2, <2>7 DEF x
  <2>9. ASSUME NEW z \in 1..Len(new)
        PROVE  new[z].parent = 0 \/ \E y \in 1..(z - 1) : new[y].leaf = new[z].parent
    <3>1. CASE z = Len(old) + 1
      <4>1. z - 1 = Len(old)
        BY <2>7, <3>1
      <4> QED
        BY <2>5, <2>7, <3>1, <4>1
    <3>2. CASE z # Len(old) + 1
      <4>1. z \in 1..Len(old) /\ \A y \in 1..(z - 1) : y \in 1..Len(old)
        BY <2>7, <3>2
      <4> QED
        BY <1>2, <2>7, <4>1
    <3> QED
      BY <3>1, <3>2
  <2> QED
    BY <2>7, <2>8, <2>9 DEF LeavesAt, new, L
<1> QED
  BY <1>3, <1>4

LEMMA ReplayLeaves ==
    ASSUME NEW l \in Seq(Events), Ordered(l), Once(l), NEW g, Replays(g, l)
    PROVE  LeavesAt(l, g, Len(l))
<1> DEFINE S == {i \in 0..Len(l) : LeavesAt(l, g, i)}
<1>1. Len(l) \in Nat
  BY LenProperties
<1>2. 0 \in S
  <2>1. g[0].leaves = <<>>
    BY DEF Replays, EmptyReplay
  <2>2. Len(<<>>) = 0 /\ <<>> \in Seq(LeafSet(l, g))
    OBVIOUS
  <2>3. g[0].leaves \in Seq(LeafSet(l, g)) /\ \A x \in 1..Len(g[0].leaves) : FALSE
    BY <2>1, <2>2
  <2>4. \A j \in 1..0 : FALSE
    OBVIOUS
  <2>5. LeavesAt(l, g, 0)
    BY <2>3, <2>4 DEF LeavesAt
  <2>6. 0 \in 0..Len(l)
    BY <1>1
  <2> QED
    BY <2>5, <2>6
<1>3. ASSUME NEW i \in 1..Len(l), i - 1 \in S PROVE i \in S
  <2>1. i \in 0..Len(l)
    BY <1>1
  <2> QED
    BY <1>3, <2>1, LeavesStep
<1> HIDE DEF S
<1>4. \A i \in 0..Len(l) : i \in S
  BY <1>1, <1>2, <1>3, UpTo
<1>5. Len(l) \in 0..Len(l)
  BY <1>1
<1> QED
  BY <1>4, <1>5 DEF S

(* What the fields of the leaves are.                                         *)
LEMMA LeafElements ==
    ASSUME NEW l \in Seq(Events), Ordered(l), Once(l), NEW g, Replays(g, l)
    PROVE  /\ DOMAIN g[Len(l)].leaves = 1..Len(g[Len(l)].leaves)
           /\ \A x \in Elements(g[Len(l)].leaves) :
                 \E c \in 1..Len(l) : Commits(l[c]) /\ x = LeafOf(l, g, c) /\ x.leaf = l[c].op
           /\ \A c \in 1..Len(l) : Commits(l[c]) => LeafOf(l, g, c) \in Elements(g[Len(l)].leaves)
<1> DEFINE leaves == g[Len(l)].leaves
<1>1. /\ leaves \in Seq(LeafSet(l, g))
      /\ \A j \in 1..Len(l) : Commits(l[j]) => \E x \in 1..Len(leaves) : leaves[x] = LeafOf(l, g, j)
  BY ReplayLeaves DEF LeavesAt
<1> HIDE DEF leaves
<1>2. DOMAIN leaves = 1..Len(leaves) /\ \A y \in 1..Len(leaves) : leaves[y] \in LeafSet(l, g)
  BY <1>1, LenProperties, ElementOfSeq
<1>3. \A c \in 1..Len(l) : Commits(l[c]) => l[c].leaf = l[c].op /\ LeafOf(l, g, c).leaf = l[c].leaf
  BY DEF Ordered, EventsOK, EventOK, Commits, LeafOf
<1>4. ASSUME NEW x \in Elements(leaves)
      PROVE  \E c \in 1..Len(l) : Commits(l[c]) /\ x = LeafOf(l, g, c) /\ x.leaf = l[c].op
  <2>1. x \in LeafSet(l, g)
    BY <1>2 DEF Elements
  <2>2. PICK c \in 1..Len(l) : Commits(l[c]) /\ x = LeafOf(l, g, c)
    BY <2>1 DEF LeafSet
  <2> QED
    BY <1>3, <2>2
<1>5. ASSUME NEW c \in 1..Len(l), Commits(l[c]) PROVE LeafOf(l, g, c) \in Elements(leaves)
  BY <1>1, <1>2, <1>5 DEF Elements
<1> QED
  BY <1>2, <1>4, <1>5 DEF leaves

(* The tree of the raw events and the leaves of the replay.                   *)
LEMMA TreeOfLeaves ==
    ASSUME NEW l \in Seq(Events), Ordered(l), Once(l), NEW g, Replays(g, l)
    PROVE  LeafTree(l) = {[leaf |-> x.leaf, parent |-> x.parent] : x \in Elements(g[Len(l)].leaves)}
<1>1. Len(l) \in Nat /\ DOMAIN l = 1..Len(l)
  BY LenProperties
<1>2. PICK p : Trees(p, l)
  BY <1>1, TreeFolds
<1>3. ASSUME NEW c \in 1..Len(l) PROVE p[c - 1] = g[c - 1].active
  <2>1. c - 1 \in 0..Len(l) /\ c - 1 \in Nat
    BY <1>1
  <2>2. Names(l, c - 1, p[c - 1]) /\ Names(l, c - 1, g[c - 1].active)
    BY <1>2, <2>1, TreeNames, ActiveNames DEF Ordered
  <2> QED
    BY <2>1, <2>2, NamesOne
<1> DEFINE E == Elements(g[Len(l)].leaves)
           B == {j \in DOMAIN l : l[j].kind = "committed" /\ l[j].leaf # 0}
           node(x) == [leaf |-> x.leaf, parent |-> x.parent]
<1>4. LeafTree(l) = {[leaf |-> l[i].leaf, parent |-> p[i - 1]] : i \in B}
  BY <1>2 DEF Trees
<1>5. \A c \in B : LeafOf(l, g, c) \in E
  BY <1>1, LeafElements DEF Commits
<1>6. \A x \in E : \E c \in B : x = LeafOf(l, g, c)
  <2>1. \A x \in E : \E c \in 1..Len(l) : Commits(l[c]) /\ x = LeafOf(l, g, c) /\ x.leaf = l[c].op
    BY LeafElements
  <2>2. \A c \in 1..Len(l) : Commits(l[c]) => c \in B
    BY <1>1 DEF Commits
  <2> HIDE DEF E, B
  <2> QED
    BY <2>1, <2>2
<1>7. \A c \in B : LeafOf(l, g, c).leaf = l[c].leaf /\ LeafOf(l, g, c).parent = p[c - 1]
  BY <1>1, <1>3 DEF LeafOf
<1> HIDE DEF E, B
<1>8. {[leaf |-> l[i].leaf, parent |-> p[i - 1]] : i \in B} = {[leaf |-> x.leaf, parent |-> x.parent] : x \in E}
  BY <1>5, <1>6, <1>7
<1> QED
  BY <1>4, <1>8 DEF E

(***************************************************************************)
(* The range of a leaf.                                                     *)
(***************************************************************************)
\* What the events after a up to b add, when none of them is a compaction.
Grows(l, g, a, b) ==
    LET t == g[a].transcript
        u == g[b].transcript
    IN /\ Len(t) <= Len(u)
       /\ \A p \in 1..Len(t) : u[p].op = t[p].op
       /\ \A p \in 1..Len(u) : p > Len(t) =>
             \E j \in (a + 1)..b : u[p].op = l[j].op /\ l[j].kind \notin FinalMarkers

LEMMA GrowsStep ==
    ASSUME NEW l \in Seq(Events), NEW g, Replays(g, l), NEW a \in 0..Len(l), NEW i \in 1..Len(l), a < i,
           Grows(l, g, a, i - 1), l[i].kind # "compacted"
    PROVE  Grows(l, g, a, i)
<1> DEFINE t == g[a].transcript
           u == g[i - 1].transcript
           v == g[i].transcript
           e == l[i]
<1>1. /\ Len(l) \in Nat /\ i \in Nat /\ a \in Nat /\ e \in Events
      /\ t \in Seq(Entries) /\ u \in Seq(Entries) /\ Len(t) \in Nat /\ Len(u) \in Nat /\ Len(v) \in Nat
  <2>1. Len(l) \in Nat /\ e \in Events
    BY LogFacts
  <2>2. i \in Nat /\ a \in Nat /\ i \in 0..Len(l) /\ i - 1 \in 0..Len(l)
    BY <2>1
  <2> QED
    BY <2>1, <2>2, TranscriptType
<1>2. v = u \/ v = Transcribed(u, e)
  BY ReplayStep
<1>3. /\ Len(t) <= Len(u)
      /\ \A p \in 1..Len(t) : u[p].op = t[p].op
      /\ \A p \in 1..Len(u) : p > Len(t) =>
            \E j \in (a + 1)..(i - 1) : u[p].op = l[j].op /\ l[j].kind \notin FinalMarkers
  BY DEF Grows
<1> HIDE DEF t, u, v
<1>4. /\ Len(u) <= Len(v)
      /\ \A p \in 1..Len(u) : v[p].op = u[p].op
      /\ \A p \in 1..Len(v) : p > Len(u) => v[p].op = e.op /\ e.kind \notin FinalMarkers
  <2>1. CASE v = u
    <3>1. \A p \in 1..Len(v) : ~(p > Len(u))
      BY <1>1, <2>1
    <3> QED
      BY <1>1, <2>1, <3>1
  <2>2. CASE v = Transcribed(u, e)
    <3>1. Extends(u, v, e)
      BY <1>1, <2>2, TranscribedFacts
    <3> QED
      BY <3>1 DEF Extends
  <2> QED
    BY <1>2, <2>1, <2>2
<1>5. Len(t) <= Len(v) /\ \A p \in 1..Len(t) : p \in 1..Len(u)
  BY <1>1, <1>3, <1>4
<1>6. \A p \in 1..Len(t) : v[p].op = t[p].op
  BY <1>3, <1>4, <1>5
<1>7. \A j \in (a + 1)..(i - 1) : j \in (a + 1)..i
  BY <1>1
<1>8. i \in (a + 1)..i
  BY <1>1
<1>9. ASSUME NEW p \in 1..Len(v), p > Len(t)
      PROVE  \E j \in (a + 1)..i : v[p].op = l[j].op /\ l[j].kind \notin FinalMarkers
  <2>1. CASE p > Len(u)
    BY <1>4, <1>8, <2>1
  <2>2. CASE ~(p > Len(u))
    <3>1. p \in 1..Len(u)
      BY <1>1, <2>2
    <3> QED
      BY <1>3, <1>4, <1>7, <1>9, <3>1
  <2> QED
    BY <2>1, <2>2
<1> QED
  BY <1>5, <1>6, <1>9 DEF Grows, t, v

LEMMA ReplayGrows ==
    ASSUME NEW l \in Seq(Events), NEW g, Replays(g, l), NEW a \in 0..Len(l), NEW b \in a..Len(l),
           \A i \in (a + 1)..b : l[i].kind # "compacted"
    PROVE  Grows(l, g, a, b)
<1> DEFINE S == {d \in 0..(b - a) : Grows(l, g, a, a + d)}
<1>1. Len(l) \in Nat /\ a \in Nat /\ b \in Nat /\ b - a \in Nat /\ b <= Len(l) /\ a <= b
  BY LenProperties
<1>2. 0 \in S
  <2>1. a + 0 = a /\ 0 \in 0..(b - a)
    BY <1>1
  <2>2. Len(g[a].transcript) \in Nat
    BY TranscriptType
  <2>3. Grows(l, g, a, a)
    BY <2>2 DEF Grows
  <2> QED
    BY <2>1, <2>3
<1>3. ASSUME NEW d \in 1..(b - a), d - 1 \in S PROVE d \in S
  <2>1. /\ d \in 0..(b - a) /\ a + d \in 1..Len(l) /\ a < a + d /\ a + (d - 1) = (a + d) - 1
        /\ a + d \in (a + 1)..b
    BY <1>1
  <2>2. Grows(l, g, a, (a + d) - 1)
    BY <1>3, <2>1
  <2>3. Grows(l, g, a, a + d)
    BY <2>1, <2>2, GrowsStep
  <2> QED
    BY <2>1, <2>3
<1> HIDE DEF S
<1>4. \A d \in 0..(b - a) : d \in S
  BY <1>1, <1>2, <1>3, UpTo
<1>5. b - a \in 0..(b - a) /\ a + (b - a) = b
  BY <1>1
<1>6. Grows(l, g, a, a + (b - a))
  BY <1>4, <1>5 DEF S
<1> QED
  BY <1>5, <1>6

\* Every entry is of an event before.
Sourced(l, t, i) == \A p \in 1..Len(t) : \E j \in 1..i : t[p].op = l[j].op

LEMMA ReplaySourced ==
    ASSUME NEW l \in Seq(Events), NEW g, Replays(g, l)
    PROVE  \A i \in 0..Len(l) : Sourced(l, g[i].transcript, i)
<1> DEFINE S == {i \in 0..Len(l) : Sourced(l, g[i].transcript, i)}
<1>1. Len(l) \in Nat
  BY LenProperties
<1>2. 0 \in S
  <2>1. g[0].transcript = <<>>
    BY DEF Replays, EmptyReplay
  <2>2. Sourced(l, <<>>, 0)
    BY DEF Sourced
  <2> QED
    BY <1>1, <2>1, <2>2
<1>3. ASSUME NEW i \in 1..Len(l), i - 1 \in S PROVE i \in S
  <2> DEFINE t == g[i - 1].transcript
             u == g[i].transcript
             e == l[i]
  <2>1. /\ i \in 0..Len(l) /\ e \in Events /\ e.op \in Nat /\ t \in Seq(Entries) /\ Len(t) \in Nat /\ Len(u) \in Nat
    <3>1. e \in Events /\ e.op \in Nat
      BY LogFacts
    <3>2. i \in 0..Len(l) /\ i - 1 \in 0..Len(l)
      BY <1>1
    <3> QED
      BY <3>1, <3>2, TranscriptType
  <2>2. u = t \/ u = Transcribed(t, e)
    BY ReplayStep
  <2>3. Sourced(l, t, i - 1)
    BY <1>3
  <2>4. i \in 1..i /\ \A j \in 1..(i - 1) : j \in 1..i
    BY <1>1
  <2> HIDE DEF t, u
  <2>5. ASSUME NEW p \in 1..Len(u) PROVE u[p].op = e.op \/ \E q \in 1..Len(t) : u[p].op = t[q].op
    <3>1. CASE u = t
      BY <2>5, <3>1
    <3>2. CASE u = Transcribed(t, e) /\ e.kind # "compacted"
      <4>1. Extends(t, u, e)
        BY <2>1, <3>2, TranscribedFacts
      <4>2. p \in 1..Len(t) \/ p > Len(t)
        BY <2>1
      <4> QED
        BY <4>1, <4>2 DEF Extends
    <3>3. CASE u = Transcribed(t, e) /\ e.kind = "compacted"
      <4>1. u = Compact(t, e.op, e.item)
        BY <2>1, <3>3, TranscribedFacts
      <4>2. \/ u[p].st = "Completed" /\ u[p].op = e.op
            \/ \E q \in 1..Len(t) : u[p] = t[q]
        BY SMTT(60), <2>1, <2>5, <4>1, CompactFacts
      <4> QED
        BY <4>2
    <3> QED
      BY <2>2, <3>1, <3>2, <3>3
  <2>6. Sourced(l, u, i)
    BY <2>3, <2>4, <2>5 DEF Sourced
  <2> QED
    BY <2>1, <2>6 DEF u
<1> HIDE DEF S
<1>4. \A i \in 0..Len(l) : i \in S
  BY <1>1, <1>2, <1>3, UpTo
<1> QED
  BY <1>4 DEF S

(* After the last compaction the range that was recorded for a prompt holds    *)
(* the entries of that prompt and no others.                                  *)
LEMMA RangeOwn ==
    ASSUME NEW l \in Seq(Events), Ordered(l), Once(l), NEW g, Replays(g, l),
           NEW c \in 1..Len(l), Commits(l[c]), \A i \in 1..Len(l) : l[i].kind = "compacted" => i < c
    PROVE  LET t == g[Len(l)].transcript
               x == LeafOf(l, g, c)
           IN /\ x.first \in Nat /\ x.first > 0 /\ x.last \in Nat /\ x.last <= Len(t) /\ x.first <= x.last + 1
              /\ \A p \in 1..Len(t) : t[p].op = l[c].op <=> p \in x.first..x.last
<1> DEFINE n == Len(l)
           op == l[c].op
<1>1. n \in Nat /\ c \in Nat /\ c - 1 \in 0..n /\ n \in 0..n /\ c <= n /\ n \in (c - 1)..n
  BY LenProperties
<1>2. PICK s \in 1..(c - 1) :
              /\ l[s].kind = "started" /\ l[s].op = op /\ l[s].of = "prompt"
              /\ g[c - 1].starts[op] = Len(g[s - 1].transcript)
  BY CommitBegun
<1> DEFINE t0 == g[s - 1].transcript
           t1 == g[c - 1].transcript
           t == g[n].transcript
           x == LeafOf(l, g, c)
<1>3. /\ s \in 1..n /\ s - 1 \in 0..n /\ c - 1 \in (s - 1)..n /\ s < c /\ s \in Nat
  BY <1>1
<1>4. Len(t0) \in Nat /\ Len(t1) \in Nat /\ Len(t) \in Nat
  BY <1>1, <1>3, TranscriptType
<1>5. x.first = Len(t0) + 1 /\ x.last = Len(t1)
  BY <1>2 DEF LeafOf
<1>6. \A k \in s..c : l[k].op = op
  <2>1. l[c].kind \in Ended
    BY DEF Commits, Ended
  <2> QED
    BY <1>2, <1>3, <2>1 DEF Ordered, Closed
<1>7. \A k \in s..c : l[k].kind # "compacted"
  <2>1. \A k \in s..c : k \in 1..n
    BY <1>1, <1>3
  <2>2. \A k \in s..c : Does(l[s].of, l[k])
    BY <1>2, <1>3, <1>6, <2>1 DEF Ordered, OfKind
  <2> QED
    BY <1>2, <2>2 DEF Does
<1>8. Grows(l, g, s - 1, c - 1)
  <2>1. \A k \in (s - 1 + 1)..(c - 1) : k \in s..c
    BY <1>1, <1>3
  <2> QED
    BY <1>3, <1>7, <2>1, ReplayGrows
<1>9. Grows(l, g, c - 1, n)
  <2>1. \A k \in (c - 1 + 1)..n : k \in 1..n /\ (k = c \/ ~(k < c))
    BY <1>1
  <2>2. \A k \in (c - 1 + 1)..n : l[k].kind # "compacted"
    BY <2>1
  <2> QED
    BY <1>1, <2>2, ReplayGrows
<1>10. \A p \in 1..Len(t0) : t0[p].op # op
  <2>1. Sourced(l, t0, s - 1)
    BY <1>3, ReplaySourced
  <2>2. \A j \in 1..(s - 1) : j \in 1..n /\ ~(s <= j)
    BY <1>1, <1>3
  <2>3. \A j \in 1..(s - 1) : l[j].op # op
    BY <1>2, <1>3, <2>2 DEF Ordered, StartsFirst
  <2> QED
    BY <2>1, <2>3 DEF Sourced
<1>11. /\ Len(t0) <= Len(t1) /\ Len(t1) <= Len(t)
       /\ \A p \in 1..Len(t0) : t1[p].op = t0[p].op
       /\ \A p \in 1..Len(t1) : t[p].op = t1[p].op
       /\ \A p \in 1..Len(t1) : p > Len(t0) => \E j \in (s - 1 + 1)..(c - 1) : t1[p].op = l[j].op
       /\ \A p \in 1..Len(t) : p > Len(t1) =>
             \E j \in (c - 1 + 1)..n : t[p].op = l[j].op /\ l[j].kind \notin FinalMarkers
  BY <1>8, <1>9 DEF Grows
<1> HIDE DEF t0, t1, t, x
<1>12. ASSUME NEW p \in 1..Len(t) PROVE t[p].op = op <=> p \in x.first..x.last
  <2>1. CASE p <= Len(t0)
    <3>1. p \in 1..Len(t0) /\ p \in 1..Len(t1) /\ ~(p \in x.first..x.last)
      BY <1>4, <1>5, <1>11, <2>1
    <3> QED
      BY <1>10, <1>11, <3>1
  <2>2. CASE p > Len(t0) /\ p <= Len(t1)
    <3>1. p \in 1..Len(t1) /\ p \in x.first..x.last
      BY <1>4, <1>5, <2>2
    <3>2. PICK j \in (s - 1 + 1)..(c - 1) : t1[p].op = l[j].op
      BY <1>11, <2>2, <3>1
    <3>3. j \in s..c
      BY <1>1, <1>3
    <3> QED
      BY <1>6, <1>11, <3>1, <3>2, <3>3
  <2>3. CASE p > Len(t1)
    <3>1. ~(p \in x.first..x.last)
      BY <1>4, <1>5, <2>3
    <3>2. PICK j \in (c - 1 + 1)..n : t[p].op = l[j].op /\ l[j].kind \notin FinalMarkers
      BY <1>11, <2>3
    <3>3. l[c].kind \in Ended /\ l[c].kind \in FinalMarkers
      BY DEF Commits, Ended, FinalMarkers
    <3>4. j \in 1..n /\ (j = c \/ ~(j <= c))
      BY <1>1
    <3>5. l[j].op # op
      BY <3>2, <3>3, <3>4 DEF Ordered, Closed
    <3> QED
      BY <3>1, <3>2, <3>5
  <2> QED
    BY <1>4, <2>1, <2>2, <2>3
<1>13. x.first \in Nat /\ x.first > 0 /\ x.last \in Nat /\ x.last <= Len(t) /\ x.first <= x.last + 1
  BY <1>4, <1>5, <1>11
<1> QED
  BY <1>12, <1>13 DEF t, x

\* The commit that Cutoff finds.
LEMMA CutoffOf ==
    ASSUME NEW l \in Seq(Events), Ordered(l), Once(l), NEW c \in 1..Len(l), Commits(l[c])
    PROVE  Cutoff(l, l[c].leaf) = c
<1> DEFINE at == {i \in DOMAIN l : l[i].kind = "committed" /\ l[i].leaf = l[c].leaf}
<1>1. DOMAIN l = 1..Len(l) /\ Len(l) \in Nat
  BY LenProperties
<1>2. c \in at
  BY <1>1 DEF Commits
<1>3. ASSUME NEW i \in at PROVE i = c
  <2>1. i \in 1..Len(l) /\ l[i].kind = "committed" /\ l[i].leaf = l[c].leaf
    BY <1>1
  <2>2. l[i].op = l[c].op
    BY <2>1 DEF Ordered, EventsOK, EventOK, Commits
  <2> QED
    BY <2>1, <2>2 DEF Once, Commits, FinalMarkers
<1>4. Cutoff(l, l[c].leaf) = CHOOSE i \in at : \A j \in at : i <= j
  BY <1>2 DEF Cutoff
<1>5. \A j \in at : c <= j
  BY <1>1, <1>3
<1> HIDE DEF at
<1> QED
  BY <1>2, <1>3, <1>4, <1>5

LEMMA PlaceInRange ==
    ASSUME NEW a \in Nat, NEW b \in Nat, NEW p \in a..b
    PROVE  p - a + 1 \in 1..(b - a + 1) /\ a + (p - a + 1) - 1 = p
OBVIOUS

LEMMA RangesOwn ==
    ASSUME NEW l \in Seq(Events), Ordered(l), Once(l), NEW g, Replays(g, l),
           NEW x \in Elements(g[Len(l)].leaves),
           \A i \in DOMAIN l : l[i].kind = "compacted" => i < Cutoff(l, x.leaf)
    PROVE  {y \in Elements(RangeOf(g[Len(l)].transcript, x)) : y.kind \in {"user", "item"}}
              = {z \in {y \in Elements(g[Len(l)].transcript) : y.kind \in {"user", "item"}} : z.op = x.leaf}
<1> DEFINE t == g[Len(l)].transcript
<1>1. DOMAIN l = 1..Len(l) /\ Len(l) \in Nat /\ Len(l) \in 0..Len(l)
  BY LenProperties
<1>2. PICK c \in 1..Len(l) : Commits(l[c]) /\ x = LeafOf(l, g, c) /\ x.leaf = l[c].op
  BY LeafElements
<1>3. x.leaf = l[c].leaf
  BY <1>2 DEF LeafOf
<1>4. \A i \in 1..Len(l) : l[i].kind = "compacted" => i < c
  BY <1>1, <1>2, <1>3, CutoffOf
<1>5. /\ x.first \in Nat /\ x.first > 0 /\ x.last \in Nat /\ x.last <= Len(t) /\ x.first <= x.last + 1
      /\ \A p \in 1..Len(t) : t[p].op = x.leaf <=> p \in x.first..x.last
  BY <1>2, <1>4, RangeOwn
<1>6. t \in Seq(Entries) /\ Len(t) \in Nat /\ DOMAIN t = 1..Len(t) /\ \A p \in 1..Len(t) : t[p] \in Entries
  BY <1>1, TranscriptType, LenProperties, ElementOfSeq
<1> HIDE DEF t
<1> DEFINE rest == SubSeq(t, x.first, x.last)
<1>7. RangeOf(t, x) = rest
  BY <1>5 DEF RangeOf
<1>8. /\ rest \in Seq(Entries) /\ Len(rest) = x.last - x.first + 1 /\ DOMAIN rest = 1..Len(rest)
      /\ \A p \in 1..(x.last - x.first + 1) : rest[p] = t[x.first + p - 1]
  <2>1. \A i \in x.first..x.last : t[i] \in Entries
    BY <1>5, <1>6
  <2>2. x.first \in 1..(Len(t) + 1) /\ x.first <= x.last + 1
    BY <1>5, <1>6
  <2>3. CASE x.first <= x.last
    BY SMTT(60), <1>5, <1>6, <2>1, <2>2, <2>3, SubSeqProperties, LenProperties
  <2>4. CASE x.first > x.last
    BY <1>5, <1>6, <2>1, <2>2, <2>4, SubSeqProperties, LenProperties
  <2> QED
    BY <1>5, <2>3, <2>4
<1> HIDE DEF rest
<1>9. Elements(rest) = {t[p] : p \in x.first..x.last}
  <2>1. ASSUME NEW p \in x.first..x.last PROVE t[p] \in Elements(rest)
    <3> DEFINE q == p - x.first + 1
    <3>1. q \in 1..(x.last - x.first + 1) /\ x.first + q - 1 = p
      <4>1. x.first \in Nat /\ x.last \in Nat
        BY <1>5
      <4> QED
        BY <2>1, <4>1, PlaceInRange
    <3> HIDE DEF q
    <3>2. rest[q] = t[p] /\ q \in DOMAIN rest
      BY <1>8, <3>1
    <3> QED
      BY <3>2 DEF Elements
  <2>2. ASSUME NEW y \in Elements(rest) PROVE y \in {t[p] : p \in x.first..x.last}
    <3>1. PICK q \in 1..(x.last - x.first + 1) : y = t[x.first + q - 1]
      BY <1>8 DEF Elements
    <3>2. x.first + q - 1 \in x.first..x.last
      BY <1>5
    <3> QED
      BY <3>1, <3>2
  <2> QED
    BY <2>1, <2>2
<1>10. \A p \in x.first..x.last : p \in 1..Len(t)
  BY <1>5, <1>6
<1>11. Elements(rest) = {z \in Elements(t) : z.op = x.leaf}
  BY <1>5, <1>6, <1>9, <1>10 DEF Elements
<1>12. {y \in Elements(rest) : y.kind \in {"user", "item"}}
          = {z \in {y \in Elements(t) : y.kind \in {"user", "item"}} : z.op = x.leaf}
  BY <1>11
<1> QED
  BY <1>7, <1>12 DEF t

(***************************************************************************)
(* Logs that grow.                                                          *)
(***************************************************************************)
\* m is l with some of the events es, from the first one on, at its end.
Grew(l, m, es) ==
    /\ Len(l) <= Len(m)
    /\ \A i \in 1..Len(l) : m[i] = l[i]
    /\ \A i \in 1..Len(m) : i > Len(l) => i - Len(l) \in 1..Len(es) /\ m[i] = es[i - Len(l)]

LEMMA GrewPlaces ==
    ASSUME NEW l \in Seq(Events), NEW m \in Seq(Events), NEW es \in Seq(Events), Grew(l, m, es)
    PROVE  /\ Len(l) \in Nat /\ Len(m) \in Nat /\ Len(es) \in Nat /\ Len(l) <= Len(m)
           /\ \A i \in 1..Len(l) : i \in 1..Len(m) /\ m[i] = l[i]
           /\ \A i \in 1..Len(m) : \/ i \in 1..Len(l) /\ m[i] = l[i]
                                   \/ i > Len(l) /\ i - Len(l) \in 1..Len(es) /\ m[i] = es[i - Len(l)]
<1>1. Len(l) \in Nat /\ Len(m) \in Nat /\ Len(es) \in Nat
  BY LenProperties
<1>2. \A i \in 1..Len(m) : i \in 1..Len(l) \/ i > Len(l)
  BY <1>1
<1>3. \A i \in 1..Len(l) : i \in 1..Len(m)
  BY <1>1 DEF Grew
<1> QED
  BY <1>1, <1>2, <1>3 DEF Grew

\* The events of one transaction: the first one starts it.
Block(of, es) ==
    \A i \in 1..Len(es) :
        /\ EventOK(es[i]) /\ Does(of, es[i])
        /\ es[i].kind = "started" <=> i = 1
        /\ i = 1 => es[i].of = of

\* What is not settled yet.
OnlyOpen(es, unsettled) ==
    \A i \in 1..Len(es) : es[i].kind = "itemStarted" =>
        \/ es[i].item[2] \in unsettled
        \/ \E k \in 1..Len(es) : k > i /\ es[k].kind \in Settling /\ es[k].item = es[i].item

(* The events of an operation that is new to the log keep it in order.        *)
LEMMA OwnOrdered ==
    ASSUME NEW l \in Seq(Events), NEW m \in Seq(Events), NEW es \in Seq(Events), Grew(l, m, es),
           Ordered(l), NEW op, op # 0, NEW of, Block(of, es),
           \A i \in 1..Len(l) : l[i].op # op,
           \A i \in 1..Len(es) : es[i].op = op /\ (es[i].kind \in Ended => i = Len(es) /\ OnlyOpen(es, {}))
    PROVE  Ordered(m)
<1> DEFINE n == Len(l)
<1>1. /\ n \in Nat /\ Len(m) \in Nat /\ Len(es) \in Nat /\ n <= Len(m)
      /\ \A i \in 1..n : i \in 1..Len(m) /\ m[i] = l[i] /\ m[i].op # op
      /\ \A i \in 1..Len(m) : \/ i \in 1..n /\ m[i] = l[i] /\ m[i].op # op
                              \/ /\ i > n /\ i - n \in 1..Len(es) /\ m[i] = es[i - n]
                                 /\ m[i].op = op
  BY GrewPlaces
<1>2. \A i \in 1..Len(m) : ~(i \in 1..n) =>
         /\ EventOK(m[i]) /\ Does(of, m[i])
         /\ m[i].kind = "started" <=> i = n + 1
         /\ i = n + 1 => m[i].of = of
         /\ m[i].kind \in Ended => i - n = Len(es) /\ OnlyOpen(es, {})
  <2> SUFFICES ASSUME NEW i \in 1..Len(m), ~(i \in 1..n)
               PROVE  /\ EventOK(m[i]) /\ Does(of, m[i])
                      /\ m[i].kind = "started" <=> i = n + 1
                      /\ i = n + 1 => m[i].of = of
                      /\ m[i].kind \in Ended => i - n = Len(es) /\ OnlyOpen(es, {})
    OBVIOUS
  <2>1. i - n \in 1..Len(es) /\ m[i] = es[i - n] /\ (i - n = 1 <=> i = n + 1)
    BY <1>1
  <2> HIDE DEF n
  <2> QED
    BY <2>1 DEF Block
<1>3. EventsOK(l) /\ StartsFirst(l) /\ HasStart(l) /\ Closed(l) /\ Settled(l) /\ OfKind(l) /\ SwitchedTo(l)
  BY DEF Ordered
<1>4. \A i, j \in 1..Len(m) : m[i].op = m[j].op => (i \in 1..n <=> j \in 1..n)
  BY <1>1
<1>5. \A i \in 1..Len(m) : ~(i \in 1..n) => i > n
  BY <1>1
<1>6. EventsOK(m)
  BY <1>1, <1>2, <1>3 DEF EventsOK
<1> HIDE DEF n
<1>7. StartsFirst(m)
  <2> SUFFICES ASSUME NEW i \in 1..Len(m), NEW j \in 1..Len(m), m[i].kind = "started", m[i].op = m[j].op
               PROVE  i <= j
    BY DEF StartsFirst
  <2>1. CASE i \in 1..n
    BY <1>1, <1>3, <1>4, <2>1 DEF StartsFirst, n
  <2>2. CASE ~(i \in 1..n)
    <3>1. i = n + 1 /\ j > n
      BY <1>2, <1>4, <1>5, <2>2
    <3> QED
      BY <1>1, <3>1
  <2> QED
    BY <2>1, <2>2
<1>8. HasStart(m)
  <2> SUFFICES ASSUME NEW j \in 1..Len(m), m[j].op # 0
               PROVE  \E i \in 1..j : m[i].kind = "started" /\ m[i].op = m[j].op
    BY DEF HasStart
  <2>1. CASE j \in 1..n
    <3>1. PICK i \in 1..j : l[i].kind = "started" /\ l[i].op = l[j].op
      BY <1>1, <1>3, <2>1 DEF HasStart, n
    <3>2. i \in 1..n
      BY <1>1, <2>1
    <3> QED
      BY <1>1, <2>1, <3>1, <3>2
  <2>2. CASE ~(j \in 1..n)
    <3>1. n + 1 \in 1..j /\ n + 1 \in 1..Len(m) /\ ~(n + 1 \in 1..n)
      BY <1>1, <1>5, <2>2
    <3>2. m[n + 1].kind = "started" /\ m[n + 1].op = op /\ m[j].op = op
      BY <1>1, <1>2, <2>2, <3>1
    <3> QED
      BY <3>1, <3>2
  <2> QED
    BY <2>1, <2>2
<1>9. Closed(m)
  <2> SUFFICES ASSUME NEW c \in 1..Len(m), NEW j \in 1..Len(m), m[c].kind \in Ended, m[j].op = m[c].op
               PROVE  j <= c /\ \A k \in j..c : m[k].op = m[c].op
    BY DEF Closed
  <2>1. CASE c \in 1..n
    <3>1. j \in 1..n
      BY <1>4, <2>1
    <3>2. j <= c /\ \A k \in j..c : l[k].op = l[c].op
      BY <1>1, <1>3, <2>1, <3>1 DEF Closed, n
    <3>3. \A k \in j..c : k \in 1..n
      BY <1>1, <2>1, <3>1
    <3> QED
      BY <1>1, <2>1, <3>2, <3>3
  <2>2. CASE ~(c \in 1..n)
    <3>1. ~(j \in 1..n) /\ j > n /\ c - n = Len(es)
      BY <1>2, <1>4, <1>5, <2>2
    <3>2. j - n \in 1..Len(es)
      BY <1>1, <3>1
    <3>3. j <= c
      BY <1>1, <3>1, <3>2
    <3>4. \A k \in j..c : k \in 1..Len(m) /\ ~(k \in 1..n)
      BY <1>1, <3>1
    <3>5. \A k \in j..c : m[k].op = op
      BY <1>1, <3>4
    <3> QED
      BY <1>1, <2>2, <3>3, <3>5
  <2> QED
    BY <2>1, <2>2
<1>10. Settled(m)
  <2> SUFFICES ASSUME NEW c \in 1..Len(m), NEW j \in 1..Len(m), m[c].kind \in Ended, m[j].op = m[c].op,
                      m[j].kind = "itemStarted"
               PROVE  \E k \in 1..Len(m) : k > j /\ m[k].kind \in Settling /\ m[k].item = m[j].item
    BY DEF Settled
  <2>1. CASE c \in 1..n
    <3>1. j \in 1..n
      BY <1>4, <2>1
    <3>2. PICK k \in 1..n : k > j /\ l[k].kind \in Settling /\ l[k].item = l[j].item
      BY SMTT(60), <1>1, <1>3, <2>1, <3>1 DEF Settled, n
    <3> QED
      BY <1>1, <3>1, <3>2
  <2>2. CASE ~(c \in 1..n)
    <3>1. ~(j \in 1..n) /\ j > n /\ c - n = Len(es) /\ OnlyOpen(es, {})
      BY <1>2, <1>4, <1>5, <2>2
    <3>2. j - n \in 1..Len(es) /\ m[j] = es[j - n]
      BY <1>1, <3>1
    <3>3. PICK k \in 1..Len(es) : k > j - n /\ es[k].kind \in Settling /\ es[k].item = es[j - n].item
      BY <3>1, <3>2 DEF OnlyOpen
    <3>4. n + k \in 1..Len(m) /\ n + k > j /\ ~(n + k \in 1..n) /\ (n + k) - n = k
      BY <1>1, <3>1, <3>3
    <3>5. m[n + k] = es[k]
      BY <1>1, <3>4
    <3> QED
      BY <3>2, <3>3, <3>4, <3>5
  <2> QED
    BY <2>1, <2>2
<1>11. OfKind(m)
  <2> SUFFICES ASSUME NEW i \in 1..Len(m), NEW c \in 1..Len(m), m[i].kind = "started", m[c].op = m[i].op
               PROVE  Does(m[i].of, m[c])
    BY DEF OfKind
  <2>1. CASE i \in 1..n
    <3>1. c \in 1..n
      BY <1>4, <2>1
    <3> QED
      BY <1>1, <1>3, <2>1, <3>1 DEF OfKind, n
  <2>2. CASE ~(i \in 1..n)
    <3>1. ~(c \in 1..n) /\ m[i].of = of
      BY <1>2, <1>4, <2>2
    <3> QED
      BY <1>2, <3>1
  <2> QED
    BY <2>1, <2>2
<1>12. SwitchedTo(m)
  <2> SUFFICES ASSUME NEW j \in 1..Len(m), m[j].kind = "leafChanged"
               PROVE  m[j].leaf # 0 /\ \E i \in 1..j : m[i].kind = "committed" /\ m[i].leaf = m[j].leaf
    BY DEF SwitchedTo
  <2>1. j \in 1..n
    <3>1. m[j].op = 0
      BY <1>6 DEF EventsOK, EventOK, Outside
    <3> QED
      BY <1>1, <3>1
  <2>2. l[j].leaf # 0
    BY <1>1, <1>3, <2>1 DEF SwitchedTo, n
  <2>3. PICK i \in 1..j : l[i].kind = "committed" /\ l[i].leaf = l[j].leaf
    BY <1>1, <1>3, <2>1 DEF SwitchedTo, n
  <2>4. i \in 1..n
    BY <1>1, <2>1
  <2> QED
    BY <1>1, <2>1, <2>2, <2>3, <2>4
<1> QED
  BY <1>6, <1>7, <1>8, <1>9, <1>10, <1>11, <1>12 DEF Ordered

(* Markers and events outside of operations keep the log in order when they    *)
(* neither start nor end an operation nor belong to one that ended.           *)
LEMMA AddedOrdered ==
    ASSUME NEW l \in Seq(Events), NEW m \in Seq(Events), NEW es \in Seq(Events), Grew(l, m, es), Ordered(l),
           \A i \in 1..Len(es) :
              /\ EventOK(es[i]) /\ es[i].kind \notin {"started", "itemStarted", "summarized", "compacted"} \cup Ended
              /\ es[i].op # 0 => \E s \in 1..Len(l) : l[s].kind = "started" /\ l[s].op = es[i].op
              /\ \A c \in 1..Len(l) : l[c].kind \in Ended => l[c].op # es[i].op
              /\ es[i].kind = "leafChanged" =>
                    /\ es[i].leaf # 0
                    /\ \E c \in 1..Len(l) : l[c].kind = "committed" /\ l[c].leaf = es[i].leaf
    PROVE  Ordered(m)
<1> DEFINE n == Len(l)
           Fine(e) ==
              /\ EventOK(e) /\ e.kind \notin {"started", "itemStarted", "summarized", "compacted"} \cup Ended
              /\ e.op # 0 => \E s \in 1..Len(l) : l[s].kind = "started" /\ l[s].op = e.op
              /\ \A c \in 1..Len(l) : l[c].kind \in Ended => l[c].op # e.op
              /\ e.kind = "leafChanged" =>
                    /\ e.leaf # 0
                    /\ \E c \in 1..Len(l) : l[c].kind = "committed" /\ l[c].leaf = e.leaf
<1>1. /\ n \in Nat /\ Len(m) \in Nat /\ n <= Len(m)
      /\ \A i \in 1..n : i \in 1..Len(m) /\ m[i] = l[i]
      /\ \A i \in 1..Len(m) : \/ i \in 1..n /\ m[i] = l[i]
                              \/ i > n /\ ~(i \in 1..n) /\ Fine(m[i])
  <2>1. /\ n \in Nat /\ Len(m) \in Nat /\ n <= Len(m)
        /\ \A i \in 1..n : i \in 1..Len(m) /\ m[i] = l[i]
        /\ \A i \in 1..Len(m) : \/ i \in 1..n /\ m[i] = l[i]
                                \/ i > n /\ i - n \in 1..Len(es) /\ m[i] = es[i - n]
    BY GrewPlaces
  <2>2. \A i \in 1..Len(es) : Fine(es[i])
    OBVIOUS
  <2>3. \A i \in 1..Len(m) : i > n => ~(i \in 1..n)
    BY <2>1
  <2> HIDE DEF n, Fine
  <2> QED
    BY <2>1, <2>2, <2>3
<1>2. EventsOK(l) /\ StartsFirst(l) /\ HasStart(l) /\ Closed(l) /\ Settled(l) /\ OfKind(l) /\ SwitchedTo(l)
  BY DEF Ordered
<1>3. EventsOK(m)
  BY <1>1, <1>2 DEF EventsOK
<1> HIDE DEF n
<1>4. StartsFirst(m)
  <2> SUFFICES ASSUME NEW i \in 1..Len(m), NEW j \in 1..Len(m), m[i].kind = "started", m[i].op = m[j].op
               PROVE  i <= j
    BY DEF StartsFirst
  <2>1. i \in 1..n /\ m[i] = l[i]
    BY <1>1
  <2>2. CASE j \in 1..n
    BY <1>1, <1>2, <2>1, <2>2 DEF StartsFirst, n
  <2>3. CASE ~(j \in 1..n)
    BY <1>1, <2>1, <2>3
  <2> QED
    BY <2>2, <2>3
<1>5. HasStart(m)
  <2> SUFFICES ASSUME NEW j \in 1..Len(m), m[j].op # 0
               PROVE  \E i \in 1..j : m[i].kind = "started" /\ m[i].op = m[j].op
    BY DEF HasStart
  <2>1. CASE j \in 1..n
    <3>1. PICK i \in 1..j : l[i].kind = "started" /\ l[i].op = l[j].op
      BY <1>1, <1>2, <2>1 DEF HasStart, n
    <3>2. i \in 1..n
      BY <1>1, <2>1
    <3> QED
      BY <1>1, <2>1, <3>1, <3>2
  <2>2. CASE ~(j \in 1..n)
    <3>1. PICK s \in 1..n : l[s].kind = "started" /\ l[s].op = m[j].op
      BY <1>1, <2>2 DEF n
    <3>2. s \in 1..j
      BY <1>1, <2>2
    <3> QED
      BY <1>1, <3>1, <3>2
  <2> QED
    BY <2>1, <2>2
<1>6. Closed(m)
  <2> SUFFICES ASSUME NEW c \in 1..Len(m), NEW j \in 1..Len(m), m[c].kind \in Ended, m[j].op = m[c].op
               PROVE  j <= c /\ \A k \in j..c : m[k].op = m[c].op
    BY DEF Closed
  <2>1. c \in 1..n /\ m[c] = l[c]
    BY <1>1
  <2>2. j \in 1..n
    BY <1>1, <2>1 DEF n
  <2>3. j <= c /\ \A k \in j..c : l[k].op = l[c].op
    BY <1>1, <1>2, <2>1, <2>2 DEF Closed, n
  <2>4. \A k \in j..c : k \in 1..n
    BY <1>1, <2>1, <2>2
  <2> QED
    BY <1>1, <2>1, <2>3, <2>4
<1>7. Settled(m)
  <2> SUFFICES ASSUME NEW c \in 1..Len(m), NEW j \in 1..Len(m), m[c].kind \in Ended, m[j].op = m[c].op,
                      m[j].kind = "itemStarted"
               PROVE  \E k \in 1..Len(m) : k > j /\ m[k].kind \in Settling /\ m[k].item = m[j].item
    BY DEF Settled
  <2>1. c \in 1..n /\ m[c] = l[c] /\ j \in 1..n /\ m[j] = l[j]
    BY <1>1
  <2>2. PICK k \in 1..n : k > j /\ l[k].kind \in Settling /\ l[k].item = l[j].item
    BY <1>2, <2>1 DEF Settled, n
  <2> QED
    BY <1>1, <2>1, <2>2
<1>8. OfKind(m)
  <2> SUFFICES ASSUME NEW i \in 1..Len(m), NEW c \in 1..Len(m), m[i].kind = "started", m[c].op = m[i].op
               PROVE  Does(m[i].of, m[c])
    BY DEF OfKind
  <2>1. i \in 1..n /\ m[i] = l[i]
    BY <1>1
  <2>2. CASE c \in 1..n
    BY <1>1, <1>2, <2>1, <2>2 DEF OfKind, n
  <2>3. CASE ~(c \in 1..n)
    <3>1. m[c].kind \notin {"summarized", "compacted", "committed"}
      BY <1>1, <2>3 DEF Ended
    <3> QED
      BY <3>1 DEF Does
  <2> QED
    BY <2>2, <2>3
<1>9. SwitchedTo(m)
  <2> SUFFICES ASSUME NEW j \in 1..Len(m), m[j].kind = "leafChanged"
               PROVE  m[j].leaf # 0 /\ \E i \in 1..j : m[i].kind = "committed" /\ m[i].leaf = m[j].leaf
    BY DEF SwitchedTo
  <2>1. CASE j \in 1..n
    <3>1. l[j].leaf # 0
      BY <1>1, <1>2, <2>1 DEF SwitchedTo, n
    <3>2. PICK i \in 1..j : l[i].kind = "committed" /\ l[i].leaf = l[j].leaf
      BY <1>1, <1>2, <2>1 DEF SwitchedTo, n
    <3>3. i \in 1..n
      BY <1>1, <2>1
    <3> QED
      BY <1>1, <2>1, <3>1, <3>2, <3>3
  <2>2. CASE ~(j \in 1..n)
    <3>1. m[j].leaf # 0
      BY <1>1, <2>2
    <3>2. PICK i \in 1..n : l[i].kind = "committed" /\ l[i].leaf = m[j].leaf
      BY <1>1, <2>2 DEF n
    <3>3. i \in 1..j
      BY <1>1, <2>2
    <3> QED
      BY <1>1, <3>1, <3>2, <3>3
  <2> QED
    BY <2>1, <2>2
<1> QED
  BY <1>3, <1>4, <1>5, <1>6, <1>7, <1>8, <1>9 DEF Ordered

(* Events that move no leaf leave the active one.                             *)
LEMMA NamesGrow ==
    ASSUME NEW l \in Seq(Events), NEW m \in Seq(Events), NEW es \in Seq(Events), Grew(l, m, es),
           NEW a, Names(l, Len(l), a), \A i \in 1..Len(es) : ~Moves(es[i])
    PROVE  Names(m, Len(m), a)
<1> DEFINE n == Len(l)
<1>1. /\ n \in Nat /\ Len(m) \in Nat /\ n <= Len(m)
      /\ \A i \in 1..n : i \in 1..Len(m) /\ m[i] = l[i]
      /\ \A i \in 1..Len(m) : i \in 1..n \/ ~Moves(m[i])
  BY GrewPlaces
<1>2. CASE a = 0 /\ \A i \in 1..n : ~Moves(l[i])
  <2>1. \A i \in 1..Len(m) : ~Moves(m[i])
    BY <1>1, <1>2
  <2> QED
    BY <1>2, <2>1 DEF Names
<1>3. ASSUME NEW i \in 1..n, Moves(l[i]), l[i].leaf = a, \A j \in (i + 1)..n : ~Moves(l[j])
      PROVE  Names(m, Len(m), a)
  <2>1. \A j \in (i + 1)..Len(m) : j \in 1..Len(m) /\ (j \in 1..n => j \in (i + 1)..n)
    BY <1>1
  <2>2. \A j \in (i + 1)..Len(m) : ~Moves(m[j])
    BY <1>1, <1>3, <2>1
  <2>3. i \in 1..Len(m) /\ Moves(m[i]) /\ m[i].leaf = a
    BY <1>1, <1>3
  <2> QED
    BY <2>2, <2>3 DEF Names
<1> QED
  BY <1>2, <1>3 DEF Names

LEMMA NamesLast ==
    ASSUME NEW m, NEW n \in Nat, n > 0, Moves(m[n])
    PROVE  Names(m, n, m[n].leaf)
<1>1. n \in 1..n /\ \A j \in (n + 1)..n : FALSE
  OBVIOUS
<1> QED
  BY <1>1 DEF Names

(***************************************************************************)
(* The events of a transaction, one after the other.                        *)
(***************************************************************************)
LEMMA BlockJoined ==
    ASSUME NEW s \in Seq(Events), NEW t \in Seq(Events), Len(s) > 0, NEW of, Block(of, s),
           \A i \in 1..Len(t) : EventOK(t[i]) /\ Does(of, t[i]) /\ t[i].kind # "started"
    PROVE  s \o t \in Seq(Events) /\ Len(s \o t) = Len(s) + Len(t) /\ Block(of, s \o t)
<1> DEFINE u == s \o t
<1>1. /\ Len(s) \in Nat /\ Len(t) \in Nat /\ u \in Seq(Events) /\ Len(u) = Len(s) + Len(t)
      /\ \A i \in 1..(Len(s) + Len(t)) : u[i] = IF i <= Len(s) THEN s[i] ELSE t[i - Len(s)]
  BY ConcatProperties, LenProperties
<1> HIDE DEF u
<1>2. \A i \in 1..Len(u) : \/ i \in 1..Len(s) /\ u[i] = s[i]
                           \/ i - Len(s) \in 1..Len(t) /\ u[i] = t[i - Len(s)] /\ i # 1
  BY <1>1
<1>3. Block(of, u)
  BY SMTT(60), <1>2 DEF Block
<1> QED
  BY <1>1, <1>3 DEF u

\* Every item that is still open is settled by what follows.
LEMMA OpenJoined ==
    ASSUME NEW s \in Seq(Events), NEW t \in Seq(Events), NEW old, NEW new, OnlyOpen(s, old),
           \A i \in 1..Len(s) : s[i].kind = "itemStarted" /\ s[i].item[2] \in old =>
              \/ s[i].item[2] \in new
              \/ \E k \in 1..Len(t) : t[k].kind \in Settling /\ t[k].item = s[i].item,
           \A i \in 1..Len(t) : t[i].kind = "itemStarted" => t[i].item[2] \in new
    PROVE  OnlyOpen(s \o t, new)
<1> DEFINE u == s \o t
<1>1. /\ Len(s) \in Nat /\ Len(t) \in Nat /\ u \in Seq(Events) /\ Len(u) = Len(s) + Len(t)
      /\ \A i \in 1..(Len(s) + Len(t)) : u[i] = IF i <= Len(s) THEN s[i] ELSE t[i - Len(s)]
  BY ConcatProperties, LenProperties
<1> HIDE DEF u
<1>2. \A i \in 1..Len(s) : i \in 1..Len(u) /\ u[i] = s[i]
  BY <1>1
<1>3. \A k \in 1..Len(t) : Len(s) + k \in 1..Len(u) /\ u[Len(s) + k] = t[k] /\ Len(s) + k > Len(s)
  BY <1>1
<1>4. SUFFICES ASSUME NEW i \in 1..Len(u), u[i].kind = "itemStarted"
               PROVE  \/ u[i].item[2] \in new
                      \/ \E k \in 1..Len(u) : k > i /\ u[k].kind \in Settling /\ u[k].item = u[i].item
  BY DEF OnlyOpen, u
<1>5. CASE i <= Len(s)
  <2>1. i \in 1..Len(s) /\ u[i] = s[i]
    BY <1>1, <1>5
  <2>2. CASE s[i].item[2] \in old
    <3>1. CASE \E k \in 1..Len(t) : t[k].kind \in Settling /\ t[k].item = s[i].item
      <4>1. PICK k \in 1..Len(t) : t[k].kind \in Settling /\ t[k].item = s[i].item
        BY <3>1
      <4>2. Len(s) + k > i
        BY <1>1, <1>5
      <4> QED
        BY SMTT(30), <1>3, <2>1, <4>1, <4>2
    <3> QED
      BY <1>4, <2>1, <2>2, <3>1
  <2>3. CASE s[i].item[2] \notin old
    <3>1. PICK k \in 1..Len(s) : k > i /\ s[k].kind \in Settling /\ s[k].item = s[i].item
      BY <1>4, <2>1, <2>3 DEF OnlyOpen
    <3> QED
      BY <1>2, <2>1, <3>1
  <2> QED
    BY <2>2, <2>3
<1>6. CASE ~(i <= Len(s))
  <2>1. i - Len(s) \in 1..Len(t) /\ u[i] = t[i - Len(s)]
    BY <1>1, <1>6
  <2> QED
    BY <1>4, <2>1
<1> QED
  BY <1>5, <1>6

(***************************************************************************)
(* Copies.                                                                  *)
(***************************************************************************)
\* The operations that summarized into a leaf after its commit.
Summaries(l, leaf) ==
    {l[i].op : i \in {j \in DOMAIN l : j > Cutoff(l, leaf) /\ l[j].kind = "summarized" /\ l[j].leaf = leaf}}

Chosen(l, leaf, k) ==
    /\ k <= Cutoff(l, leaf) \/ l[k].op \in Summaries(l, leaf)
    /\ l[k].kind \notin {"created", "forked"}

\* After its two first events a copy holds the chosen ones, in their order.
Copies(h, l, m, leaf) ==
    /\ m \in Seq(Events) /\ 2 <= Len(m)
    /\ m[1] = Event("created", 0) /\ m[2] = Event("forked", 0)
    /\ \A i \in 3..Len(m) : h[i] \in 1..Len(l) /\ Chosen(l, leaf, h[i]) /\ m[i] = l[h[i]]
    /\ \A i, j \in 3..Len(m) : i < j => h[i] < h[j]
    /\ \A k \in 1..Len(l) : Chosen(l, leaf, k) => \E i \in 3..Len(m) : h[i] = k

LEMMA CutoffFacts ==
    ASSUME NEW l \in Seq(Events), NEW leaf \in CommittedLeaves(l)
    PROVE  /\ leaf # 0 /\ Cutoff(l, leaf) \in 1..Len(l)
           /\ l[Cutoff(l, leaf)].kind = "committed" /\ l[Cutoff(l, leaf)].leaf = leaf
<1> DEFINE at == {i \in DOMAIN l : l[i].kind = "committed" /\ l[i].leaf = leaf}
<1>1. DOMAIN l = 1..Len(l) /\ Len(l) \in Nat
  BY LenProperties
<1>2. at \in SUBSET Nat /\ at # {} /\ leaf # 0 /\ at \in SUBSET (1..Len(l))
  BY <1>1 DEF CommittedLeaves
<1>3. Cutoff(l, leaf) = CHOOSE i \in at : \A j \in at : i <= j
  BY <1>2 DEF Cutoff
<1>4. Cutoff(l, leaf) \in at
  <2> HIDE DEF at
  <2>1. \E i \in at : \A j \in at : i <= j
    BY <1>2, NatLeast
  <2> QED
    BY <1>3, <2>1
<1> QED
  BY <1>2, <1>4

LEMMA EnumerateIncreases ==
    ASSUME NEW S \in SUBSET Nat, IsFiniteSet(S),
           NEW m \in 1..Cardinality(S), NEW n \in 1..Cardinality(S), m < n
    PROVE  Enumerate(S)[m] < Enumerate(S)[n]
<1> DEFINE N == Cardinality(S)
           h == Enumerate(S)
           rank(x) == Cardinality({y \in S : y <= x})
<1>1. /\ N \in Nat /\ DOMAIN h = 1..N /\ \A k \in 1..N : h[k] \in S
      /\ \A x \in S : \E k \in 1..N : h[k] = x
  BY EnumerateBijective
<1>3. \A k \in 1..N : rank(h[k]) = k
  BY EnumerateBijective
<1>4. h[m] \in Nat /\ h[n] \in Nat
  BY <1>1
<1>5. ~(h[n] < h[m])
  <2>1. h[n] < h[m] => rank(h[n]) < rank(h[m])
    <3> HIDE DEF h
    <3> QED
      BY <1>1, RankIncreases
  <2>2. rank(h[n]) = n /\ rank(h[m]) = m
    BY <1>3
  <2> HIDE DEF h, rank
  <2> QED
    BY <1>1, <2>1, <2>2
<1>6. h[m] # h[n]
  BY <1>1, EnumerateBijective
<1> HIDE DEF h
<1>7. h[m] < h[n]
  BY <1>4, <1>5, <1>6
<1> QED
  BY <1>7 DEF h

(* copy_to_new_session.                                                       *)
LEMMA CopyShape ==
    ASSUME NEW l \in Seq(Events), NEW leaf
    PROVE  \E h : Copies(h, l, CopiedEvents(l, leaf), leaf)
<1> DEFINE chosen == {i \in DOMAIN l : Chosen(l, leaf, i)}
           kept == Enumerate(chosen)
           count == Cardinality(chosen)
           head == <<Event("created", 0), Event("forked", 0)>>
           copy == [n \in DOMAIN kept |-> l[kept[n]]]
           m == head \o copy
           h == [i \in 3..(2 + count) |-> kept[i - 2]]
<1>1. /\ Len(l) \in Nat /\ DOMAIN l = 1..Len(l)
      /\ \A i \in 1..Len(l) : l[i] \in Events
  BY LenProperties, ElementOfSeq
<1>2. chosen \in SUBSET (1..Len(l)) /\ chosen \in SUBSET Nat /\ IsFiniteSet(chosen)
  <2>1. chosen \in SUBSET (1..Len(l)) /\ IsFiniteSet(1..Len(l))
    BY <1>1, FS_Interval
  <2> HIDE DEF chosen
  <2>2. IsFiniteSet(chosen)
    BY <2>1, FS_Subset
  <2> QED
    BY <2>1, <2>2
<1>3. CopiedEvents(l, leaf) = m
  <2>1. chosen = {i \in DOMAIN l :
                    /\ i <= Cutoff(l, leaf) \/ l[i].op \in Summaries(l, leaf)
                    /\ l[i].kind \notin {"created", "forked"}}
    BY DEF Chosen
  <2> QED
    BY <2>1 DEF CopiedEvents, Summaries
<1>4. \A k \in 1..Len(l) : Chosen(l, leaf, k) <=> k \in chosen
  BY <1>1
<1> HIDE DEF chosen
<1>5. /\ count \in Nat
      /\ DOMAIN kept = 1..count
      /\ \A n \in 1..count : kept[n] \in chosen
      /\ \A x \in chosen : \E n \in 1..count : kept[n] = x
      /\ \A a, b \in 1..count : a < b => kept[a] < kept[b]
  BY <1>2, EnumerateBijective, EnumerateIncreases
<1> HIDE DEF kept, count
<1>6. copy \in Seq(Events) /\ Len(copy) = count /\ \A n \in 1..count : copy[n] = l[kept[n]]
  <2>1. \A n \in 1..count : l[kept[n]] \in Events
    BY <1>1, <1>2, <1>5
  <2>2. copy \in [1..count -> Events] /\ \A n \in 1..count : copy[n] = l[kept[n]]
    BY <1>5, <2>1
  <2> HIDE DEF copy
  <2> QED
    BY <1>5, <2>2
<1>7. head \in Seq(Events) /\ Len(head) = 2 /\ head[1] = Event("created", 0) /\ head[2] = Event("forked", 0)
  BY DEF Event, Events, EventKinds, NoItem
<1> HIDE DEF head, copy
<1>8. /\ m \in Seq(Events) /\ Len(m) = 2 + count
      /\ \A i \in 1..(2 + count) : m[i] = IF i <= 2 THEN head[i] ELSE copy[i - 2]
  <2>1. /\ m \in Seq(Events) /\ Len(m) = Len(head) + Len(copy)
        /\ \A i \in 1..(Len(head) + Len(copy)) : m[i] = IF i <= Len(head) THEN head[i] ELSE copy[i - Len(head)]
    BY <1>6, <1>7, ConcatProperties
  <2> HIDE DEF m
  <2> QED
    BY <1>6, <1>7, <2>1
<1> HIDE DEF m
<1>9. m[1] = Event("created", 0) /\ m[2] = Event("forked", 0) /\ 2 <= Len(m)
  <2>1. 1 \in 1..(2 + count) /\ 2 \in 1..(2 + count)
    BY <1>5
  <2> QED
    BY <1>5, <1>7, <1>8, <2>1
<1>10. \A i \in 3..Len(m) : i \in 1..(2 + count) /\ ~(i <= 2) /\ i - 2 \in 1..count /\ h[i] = kept[i - 2]
  BY <1>5, <1>8
<1>11. \A i \in 3..Len(m) : h[i] \in chosen /\ m[i] = l[h[i]]
  BY <1>5, <1>6, <1>8, <1>10
<1>12. \A i, j \in 3..Len(m) : i < j => h[i] < h[j]
  <2>1. \A i, j \in 3..Len(m) : i < j => i - 2 < j - 2
    OBVIOUS
  <2> HIDE DEF h
  <2> QED
    BY <1>5, <1>10, <2>1
<1>13. ASSUME NEW k \in chosen PROVE \E i \in 3..Len(m) : h[i] = k
  <2>1. PICK n \in 1..count : kept[n] = k
    BY <1>5
  <2>2. n + 2 \in 3..Len(m) /\ (n + 2) - 2 = n
    BY <1>5, <1>8
  <2> HIDE DEF h
  <2> QED
    BY <1>10, <2>1, <2>2
<1> HIDE DEF h
<1>14. Copies(h, l, m, leaf)
  BY <1>2, <1>4, <1>8, <1>9, <1>11, <1>12, <1>13 DEF Copies
<1> QED
  BY <1>3, <1>14

(* With an event a copy keeps what its operation did before.                  *)
LEMMA CopyFacts ==
    ASSUME NEW l \in Seq(Events), Ordered(l), NEW leaf, NEW h, NEW m, Copies(h, l, m, leaf)
    PROVE  /\ Len(l) \in Nat /\ Len(m) \in Nat
           /\ \A i \in 1..Len(m) : \/ i \in 3..Len(m)
                                   \/ m[i].op = 0 /\ m[i].kind \in {"created", "forked"} /\ EventOK(m[i])
           /\ \A i \in 3..Len(m) : h[i] \in 1..Len(l) /\ m[i] = l[h[i]] /\ i \in 1..Len(m)
           /\ \A i, j \in 3..Len(m) : h[i] <= h[j] <=> i <= j
           /\ \A i \in 3..Len(m), k \in 1..Len(l) :
                 k <= h[i] /\ l[k].op = l[h[i]].op /\ l[k].op # 0 => \E j \in 3..Len(m) : h[j] = k
<1>1. Len(l) \in Nat /\ Len(m) \in Nat
  BY LenProperties DEF Copies
<1>2. ASSUME NEW i \in 1..Len(m)
      PROVE  \/ i \in 3..Len(m)
             \/ m[i].op = 0 /\ m[i].kind \in {"created", "forked"} /\ EventOK(m[i])
  <2>1. /\ Event("created", 0).op = 0 /\ Event("created", 0).kind = "created"
        /\ Event("forked", 0).op = 0 /\ Event("forked", 0).kind = "forked"
    BY DEF Event
  <2>2. i \in 3..Len(m) \/ i = 1 \/ i = 2
    BY <1>1
  <2>3. \A e : e.op = 0 /\ e.kind \in {"created", "forked"} => EventOK(e)
    BY DEF EventOK, Outside, Settling
  <2> QED
    BY <2>1, <2>2, <2>3 DEF Copies
<1>3. \A i \in 3..Len(m) : h[i] \in 1..Len(l) /\ m[i] = l[h[i]] /\ i \in 1..Len(m)
  BY <1>1 DEF Copies
<1>4. ASSUME NEW i \in 3..Len(m), NEW j \in 3..Len(m) PROVE h[i] <= h[j] <=> i <= j
  <2>1. (i < j => h[i] < h[j]) /\ (j < i => h[j] < h[i])
    BY DEF Copies
  <2>2. h[i] \in Nat /\ h[j] \in Nat /\ i \in Nat /\ j \in Nat
    BY <1>3
  <2>3. i = j => h[i] = h[j]
    OBVIOUS
  <2> QED
    BY <2>1, <2>2, <2>3
<1>5. ASSUME NEW i \in 3..Len(m), NEW k \in 1..Len(l), k <= h[i], l[k].op = l[h[i]].op, l[k].op # 0
      PROVE  \E j \in 3..Len(m) : h[j] = k
  <2>1. Chosen(l, leaf, h[i]) /\ h[i] \in 1..Len(l)
    BY DEF Copies
  <2>2. l[k].kind \notin {"created", "forked"}
    BY <1>5 DEF Ordered, EventsOK, EventOK, Outside
  <2>3. h[i] <= Cutoff(l, leaf) => k <= Cutoff(l, leaf)
    <3>1. Cutoff(l, leaf) \in Nat
      <4> DEFINE at == {c \in DOMAIN l : l[c].kind = "committed" /\ l[c].leaf = leaf}
      <4>1. DOMAIN l = 1..Len(l)
        BY LenProperties
      <4>2. at \in SUBSET Nat
        BY <1>1, <4>1
      <4>3. Cutoff(l, leaf) = IF at = {} THEN 0 ELSE CHOOSE c \in at : \A d \in at : c <= d
        BY DEF Cutoff
      <4> DEFINE first == CHOOSE c \in at : \A d \in at : c <= d
      <4>4. Cutoff(l, leaf) = IF at = {} THEN 0 ELSE first
        BY <4>3
      <4> HIDE DEF at
      <4>5. at # {} => \E c \in at : \A d \in at : c <= d
        BY <4>2, NatLeast
      <4>6. at # {} => first \in at
        BY <4>5
      <4> HIDE DEF first
      <4>7. CASE at = {}
        BY <4>4, <4>7
      <4>8. CASE at # {}
        <5>1. Cutoff(l, leaf) = first /\ first \in at
          BY <4>4, <4>6, <4>8
        <5> QED
          BY <4>2, <5>1
      <4> QED
        BY <4>7, <4>8
    <3> QED
      BY <1>5, <2>1, <3>1
  <2>4. Chosen(l, leaf, k)
    BY <1>5, <2>1, <2>2, <2>3 DEF Chosen
  <2> QED
    BY <2>4 DEF Copies
<1> QED
  BY <1>1, <1>2, <1>3, <1>4, <1>5

(* A copy is in order.                                                        *)
LEMMA CopyOrdered ==
    ASSUME NEW l \in Seq(Events), Ordered(l), NEW leaf \in CommittedLeaves(l), NEW h, NEW m, Copies(h, l, m, leaf)
    PROVE  Ordered(m)
<1>1. /\ Len(l) \in Nat /\ Len(m) \in Nat
      /\ \A i \in 1..Len(m) : \/ i \in 3..Len(m)
                              \/ m[i].op = 0 /\ m[i].kind \in {"created", "forked"} /\ EventOK(m[i])
      /\ \A i \in 3..Len(m) : h[i] \in 1..Len(l) /\ m[i] = l[h[i]] /\ i \in 1..Len(m)
      /\ \A i, j \in 3..Len(m) : h[i] <= h[j] <=> i <= j
      /\ \A i \in 3..Len(m), k \in 1..Len(l) :
            k <= h[i] /\ l[k].op = l[h[i]].op /\ l[k].op # 0 => \E j \in 3..Len(m) : h[j] = k
  BY SMTT(60), CopyFacts
<1>2. EventsOK(l) /\ StartsFirst(l) /\ HasStart(l) /\ Closed(l) /\ Settled(l) /\ OfKind(l) /\ SwitchedTo(l)
  BY DEF Ordered
<1>3. EventsOK(m)
  BY <1>1, <1>2 DEF EventsOK
<1>4. \A i \in 1..Len(m) : m[i].op # 0 => i \in 3..Len(m)
  BY <1>1
<1>5. \A i \in 1..Len(m) : m[i].kind \in {"started", "itemStarted"} \cup Ended => m[i].op # 0 /\ i \in 3..Len(m)
  BY <1>3, <1>4 DEF EventsOK, EventOK, Outside, Ended
<1>6. StartsFirst(m)
  <2> SUFFICES ASSUME NEW i \in 1..Len(m), NEW j \in 1..Len(m), m[i].kind = "started", m[i].op = m[j].op
               PROVE  i <= j
    BY DEF StartsFirst
  <2>1. i \in 3..Len(m) /\ j \in 3..Len(m)
    BY <1>4, <1>5
  <2>2. h[i] <= h[j]
    BY <1>1, <1>2, <2>1 DEF StartsFirst
  <2> QED
    BY <1>1, <2>1, <2>2
<1>7. HasStart(m)
  <2> SUFFICES ASSUME NEW j \in 1..Len(m), m[j].op # 0
               PROVE  \E i \in 1..j : m[i].kind = "started" /\ m[i].op = m[j].op
    BY DEF HasStart
  <2>1. j \in 3..Len(m) /\ h[j] \in 1..Len(l) /\ m[j] = l[h[j]]
    BY <1>1, <1>4
  <2>2. PICK s \in 1..h[j] : l[s].kind = "started" /\ l[s].op = l[h[j]].op
    BY <1>2, <2>1 DEF HasStart
  <2>3. s \in 1..Len(l) /\ s <= h[j]
    BY <1>1, <2>1
  <2>4. PICK i \in 3..Len(m) : h[i] = s
    BY <1>1, <2>1, <2>2, <2>3
  <2>5. i <= j /\ m[i] = l[s]
    BY <1>1, <2>1, <2>3, <2>4
  <2>6. i \in 1..j
    BY <1>1, <2>1, <2>5
  <2> QED
    BY <2>1, <2>2, <2>5, <2>6
<1>8. Closed(m)
  <2> SUFFICES ASSUME NEW c \in 1..Len(m), NEW j \in 1..Len(m), m[c].kind \in Ended, m[j].op = m[c].op
               PROVE  j <= c /\ \A k \in j..c : m[k].op = m[c].op
    BY DEF Closed
  <2>1. c \in 3..Len(m) /\ j \in 3..Len(m)
    BY <1>4, <1>5
  <2>2. /\ h[c] \in 1..Len(l) /\ m[c] = l[h[c]] /\ h[j] \in 1..Len(l) /\ m[j] = l[h[j]]
    BY <1>1, <2>1
  <2>3. h[j] <= h[c] /\ \A k \in h[j]..h[c] : l[k].op = l[h[c]].op
    BY <1>2, <2>2 DEF Closed
  <2>4. j <= c
    BY <1>1, <2>1, <2>3
  <2>5. ASSUME NEW k \in j..c PROVE m[k].op = m[c].op
    <3>1. k \in 3..Len(m) /\ j <= k /\ k <= c
      BY <1>1, <2>1
    <3>2. h[k] \in 1..Len(l) /\ h[j] <= h[k] /\ h[k] <= h[c] /\ m[k] = l[h[k]]
      BY <1>1, <2>1, <3>1
    <3>3. h[k] \in h[j]..h[c]
      BY <1>1, <2>2, <3>2
    <3> QED
      BY <2>2, <2>3, <3>2, <3>3
  <2> QED
    BY <2>4, <2>5
<1>9. Settled(m)
  <2> SUFFICES ASSUME NEW c \in 1..Len(m), NEW j \in 1..Len(m), m[c].kind \in Ended, m[j].op = m[c].op,
                      m[j].kind = "itemStarted"
               PROVE  \E k \in 1..Len(m) : k > j /\ m[k].kind \in Settling /\ m[k].item = m[j].item
    BY DEF Settled
  <2>1. c \in 3..Len(m) /\ j \in 3..Len(m) /\ m[c].op # 0
    BY <1>5
  <2>2. h[c] \in 1..Len(l) /\ m[c] = l[h[c]] /\ h[j] \in 1..Len(l) /\ m[j] = l[h[j]]
    BY <1>1, <2>1
  <2>3. PICK k \in 1..Len(l) : k > h[j] /\ l[k].kind \in Settling /\ l[k].item = l[h[j]].item
    BY <1>2, <2>2 DEF Settled
  <2>4. l[k].op = l[h[c]].op
    <3>1. l[k].item[1] = l[k].op /\ l[h[j]].item[1] = l[h[j]].op
      BY <1>2, <2>2, <2>3 DEF EventsOK, EventOK
    <3> QED
      BY <2>2, <2>3, <3>1
  <2>5. k <= h[c]
    BY <1>2, <2>2, <2>4 DEF Closed
  <2>6. PICK i \in 3..Len(m) : h[i] = k
    BY <1>1, <2>1, <2>2, <2>4, <2>5
  <2>7. i > j
    <3>1. ~(h[i] <= h[j])
      BY <2>2, <2>3, <2>6
    <3>2. ~(i <= j)
      BY <1>1, <2>1, <3>1
    <3> QED
      BY <3>2
  <2> QED
    BY SMTT(30), <1>1, <2>2, <2>3, <2>6, <2>7
<1>10. OfKind(m)
  <2> SUFFICES ASSUME NEW i \in 1..Len(m), NEW c \in 1..Len(m), m[i].kind = "started", m[c].op = m[i].op
               PROVE  Does(m[i].of, m[c])
    BY DEF OfKind
  <2>1. i \in 3..Len(m) /\ c \in 3..Len(m)
    BY <1>4, <1>5
  <2>2. h[i] \in 1..Len(l) /\ m[i] = l[h[i]] /\ h[c] \in 1..Len(l) /\ m[c] = l[h[c]]
    BY <1>1, <2>1
  <2>3. Does(l[h[i]].of, l[h[c]])
    BY <1>2, <2>2 DEF OfKind
  <2> QED
    BY <2>2, <2>3
<1>11. SwitchedTo(m)
  <2> SUFFICES ASSUME NEW j \in 1..Len(m), m[j].kind = "leafChanged"
               PROVE  m[j].leaf # 0 /\ \E i \in 1..j : m[i].kind = "committed" /\ m[i].leaf = m[j].leaf
    BY DEF SwitchedTo
  <2>1. j \in 3..Len(m) /\ h[j] \in 1..Len(l) /\ m[j] = l[h[j]]
    BY <1>1
  <2>2. l[h[j]].leaf # 0
    BY <1>2, <2>1 DEF SwitchedTo
  <2>3. PICK s \in 1..h[j] : l[s].kind = "committed" /\ l[s].leaf = l[h[j]].leaf
    BY <1>2, <2>1 DEF SwitchedTo
  <2>4. h[j] <= Cutoff(l, leaf)
    <3>1. \A k \in 1..Len(l) : l[k].kind = "summarized" => l[k].op # 0
      BY <1>2 DEF EventsOK, EventOK, Outside
    <3>2. 0 \notin Summaries(l, leaf)
      <4>1. DOMAIN l = 1..Len(l)
        BY LenProperties
      <4> QED
        BY <3>1, <4>1 DEF Summaries
    <3>3. l[h[j]].op = 0
      BY <1>3, <2>1 DEF EventsOK, EventOK, Outside
    <3> QED
      BY <2>1, <3>2, <3>3 DEF Copies, Chosen
  <2>5. s \in 1..Len(l) /\ s <= Cutoff(l, leaf) /\ s <= h[j]
    BY <1>1, <2>1, <2>4, CutoffFacts
  <2>6. Chosen(l, leaf, s)
    BY <2>3, <2>5 DEF Chosen
  <2>7. PICK i \in 3..Len(m) : h[i] = s
    BY <2>5, <2>6 DEF Copies
  <2>8. i <= j /\ m[i] = l[s]
    BY <1>1, <2>1, <2>5, <2>7
  <2>9. i \in 1..j
    BY <1>1, <2>8
  <2> QED
    BY <2>1, <2>2, <2>3, <2>8, <2>9
<1> QED
  BY <1>3, <1>6, <1>7, <1>8, <1>9, <1>10, <1>11 DEF Ordered

(* The leaf of a copy is active in it.                                        *)
LEMMA CopyNames ==
    ASSUME NEW l \in Seq(Events), Ordered(l), NEW leaf \in CommittedLeaves(l), NEW h, NEW m, Copies(h, l, m, leaf)
    PROVE  Names(m, Len(m), leaf)
<1> DEFINE cut == Cutoff(l, leaf)
<1>1. /\ Len(l) \in Nat /\ Len(m) \in Nat
      /\ \A i \in 1..Len(m) : \/ i \in 3..Len(m)
                              \/ m[i].op = 0 /\ m[i].kind \in {"created", "forked"} /\ EventOK(m[i])
      /\ \A i \in 3..Len(m) : h[i] \in 1..Len(l) /\ m[i] = l[h[i]] /\ i \in 1..Len(m)
      /\ \A i, j \in 3..Len(m) : h[i] <= h[j] <=> i <= j
  BY CopyFacts
<1>2. leaf # 0 /\ cut \in 1..Len(l) /\ l[cut].kind = "committed" /\ l[cut].leaf = leaf
  BY CutoffFacts
<1> HIDE DEF cut
<1>3. PICK c \in 3..Len(m) : h[c] = cut
  <2>1. cut <= cut
    BY <1>1, <1>2
  <2>2. Chosen(l, leaf, cut)
    BY <1>2, <2>1 DEF Chosen, cut
  <2> QED
    BY <1>2, <2>2 DEF Copies
<1>4. c \in 1..Len(m) /\ Moves(m[c]) /\ m[c].leaf = leaf
  BY <1>1, <1>2, <1>3 DEF Moves
<1>5. ASSUME NEW i \in (c + 1)..Len(m) PROVE ~Moves(m[i])
  <2>1. i \in 3..Len(m) /\ ~(i <= c)
    BY <1>1
  <2>2. h[i] \in 1..Len(l) /\ m[i] = l[h[i]] /\ ~(h[i] <= cut)
    BY <1>1, <1>3, <2>1
  <2>3. l[h[i]].op \in Summaries(l, leaf)
    BY <2>1, <2>2 DEF Copies, Chosen, cut
  <2>4. PICK k \in 1..Len(l) : l[k].kind = "summarized" /\ l[k].op = l[h[i]].op
    <3>1. DOMAIN l = 1..Len(l)
      BY LenProperties
    <3> QED
      BY <2>3, <3>1 DEF Summaries
  <2>5. l[k].op # 0
    BY <2>4 DEF Ordered, EventsOK, EventOK, Outside
  <2>6. PICK s \in 1..k : l[s].kind = "started" /\ l[s].op = l[k].op
    BY <2>5 DEF Ordered, HasStart
  <2>7. s \in 1..Len(l)
    BY <1>1
  <2>8. Does(l[s].of, l[k]) /\ Does(l[s].of, l[h[i]])
    BY <2>2, <2>4, <2>6, <2>7 DEF Ordered, OfKind
  <2>9. l[s].of = "summary"
    BY <2>4, <2>8 DEF Does
  <2>10. l[h[i]].kind # "leafChanged"
    BY <2>2, <2>4, <2>5 DEF Ordered, EventsOK, EventOK, Outside
  <2> QED
    BY <2>2, <2>8, <2>9, <2>10 DEF Moves, Does
<1> QED
  BY <1>4, <1>5 DEF Names

(* A copy ends the operations that it holds as the log does.                  *)
LEMMA CopyMarks ==
    ASSUME NEW l \in Seq(Events), Ordered(l), Once(l), NEW leaf \in CommittedLeaves(l), NEW h, NEW m,
           Copies(h, l, m, leaf), NEW i \in 1..Len(m), m[i].op # 0,
           NEW c \in 1..Len(l), l[c].kind \in Ended, l[c].op = m[i].op
    PROVE  \E j \in 1..Len(m) : m[j] = l[c]
<1> DEFINE cut == Cutoff(l, leaf)
<1>1. /\ Len(l) \in Nat /\ Len(m) \in Nat
      /\ i \in 3..Len(m) /\ h[i] \in 1..Len(l) /\ m[i] = l[h[i]]
      /\ \A j \in 3..Len(m) : j \in 1..Len(m) /\ m[j] = l[h[j]]
  BY CopyFacts
<1>2. leaf # 0 /\ cut \in 1..Len(l) /\ l[cut].kind = "committed" /\ l[cut].leaf = leaf
  BY CutoffFacts
<1>3. Chosen(l, leaf, h[i])
  BY <1>1 DEF Copies
<1>4. l[c].kind \notin {"created", "forked"}
  BY DEF Ended
<1>5. h[i] <= cut \/ l[c].op \in Summaries(l, leaf)
  BY <1>1, <1>3 DEF Chosen
<1>6. c <= cut \/ l[c].op \in Summaries(l, leaf)
  <2> HIDE DEF cut
  <2>1. ASSUME h[i] <= cut, ~(c <= cut) PROVE FALSE
    <3>1. h[i] <= c /\ \A k \in h[i]..c : l[k].op = l[c].op
      BY <1>1 DEF Ordered, Closed
    <3>2. cut \in h[i]..c
      BY <1>1, <1>2, <2>1
    <3>3. l[cut].op = l[c].op
      BY <3>1, <3>2
    <3>4. l[cut].kind \in FinalMarkers /\ l[c].kind \in FinalMarkers
      BY <1>2 DEF FinalMarkers, Ended
    <3>5. cut = c
      BY <1>2, <3>3, <3>4 DEF Once
    <3> QED
      BY <1>1, <1>2, <2>1, <3>5
  <2> QED
    BY <1>5, <2>1
<1>7. Chosen(l, leaf, c)
  BY <1>4, <1>6 DEF Chosen
<1>8. PICK j \in 3..Len(m) : h[j] = c
  BY <1>7 DEF Copies
<1> QED
  BY <1>1, <1>8

(***************************************************************************)
(* Appending to the log.                                                    *)
(***************************************************************************)
(* Some of the events, from the first one on, are added to the log.           *)
Appends(events) == \E k \in 0..Len(events) : log' = log \o SubSeq(events, 1, k)

(* append_events adds a prefix whether it succeeds, fails or is cut short.    *)
LEMMA StoreAppends ==
    ASSUME NEW events \in Seq(Events), log \in Seq(Events), AppendAll(events) \/ AppendCut(events)
    PROVE  Appends(events)
<1>1. Len(events) \in Nat /\ SubSeq(events, 1, Len(events)) = events
      /\ SubSeq(events, 1, 0) = <<>> /\ log \o <<>> = log
  BY LenProperties, SubSeqFull, SubSeqEmpty, ConcatEmptySeq
<1>2. CASE AppendAll(events)
  BY <1>1, <1>2 DEF AppendAll, Appends
<1>3. CASE AppendCut(events)
  <2>1. CASE ~Readable /\ UNCHANGED <<log, tail, faults>>
    BY <1>1, <2>1 DEF Appends
  <2>2. CASE \E k \in 0..Len(events) : log' = log \o SubSeq(events, 1, k)
    BY <2>2 DEF Appends
  <2> QED
    BY <1>3, <2>1, <2>2 DEF AppendCut
<1> QED
  BY <1>2, <1>3

(* What was there stays, and what is new was appended.                        *)
Extended(events) ==
    /\ log' \in Seq(Events)
    /\ Len(log) \in Nat /\ DOMAIN log = 1..Len(log)
    /\ Len(log') \in Nat /\ DOMAIN log' = 1..Len(log') /\ Len(log) <= Len(log')
    /\ \A i \in 1..Len(log) : log'[i] = log[i]
    /\ \A i \in 1..Len(log') : i > Len(log) =>
            /\ i - Len(log) \in 1..Len(events)
            /\ log'[i] = events[i - Len(log)]

LEMMA AppendsShape ==
    ASSUME NEW events \in Seq(Events), log \in Seq(Events), Appends(events)
    PROVE  Extended(events)
<1>1. PICK k \in 0..Len(events) : log' = log \o SubSeq(events, 1, k)
  BY DEF Appends
<1> DEFINE new == SubSeq(events, 1, k)
<1>2. Len(events) \in Nat /\ Len(log) \in Nat /\ DOMAIN log = 1..Len(log)
  BY LenProperties
<1>3. \A i \in 1..k : events[i] \in Events
  BY <1>2, ElementOfSeq
<1>4. new \in Seq(Events) /\ Len(new) = k /\ \A i \in 1..k : new[i] = events[i]
  BY <1>2, <1>3, SubSeqProperties
<1>5. /\ log' \in Seq(Events)
      /\ Len(log') = Len(log) + k
      /\ \A i \in 1..(Len(log) + k) :
            log'[i] = IF i <= Len(log) THEN log[i] ELSE new[i - Len(log)]
  BY <1>1, <1>4, ConcatProperties
<1>6. DOMAIN log' = 1..Len(log')
  BY <1>5, LenProperties
<1> HIDE DEF new
<1> QED
  BY <1>2, <1>4, <1>5, <1>6 DEF Extended

(* Leaves that were committed stay committed.                                 *)
LEMMA AppendsKeepLeaves ==
    ASSUME NEW events \in Seq(Events), Extended(events)
    PROVE  CommittedLeaves(log) \subseteq CommittedLeaves(log')
BY DEF CommittedLeaves, Extended

(* No operation is finalized twice when the new markers are for operations    *)
(* that have none, one for each.                                              *)
LEMMA AppendsMarkOnce ==
    ASSUME NEW events \in Seq(Events), Extended(events), OneFinalMarker,
           \A i \in 1..Len(events) :
                events[i].kind \in FinalMarkers => events[i].op \notin Finalized(log),
           \A i, j \in 1..Len(events) :
                /\ events[i].kind \in FinalMarkers
                /\ events[j].kind \in FinalMarkers
                /\ events[i].op = events[j].op
                => i = j
    PROVE  OneFinalMarker'
<1> SUFFICES ASSUME NEW i \in 1..Len(log'), NEW j \in 1..Len(log'),
                    log'[i].kind \in FinalMarkers, log'[j].kind \in FinalMarkers,
                    log'[i].op = log'[j].op
             PROVE  i = j
  BY DEF OneFinalMarker, Extended
<1> USE DEF Extended
<1>0. ASSUME NEW x \in 1..Len(log), log[x].kind \in FinalMarkers
      PROVE  log[x].op \in Finalized(log)
  BY <1>0 DEF Finalized
<1>1. CASE i <= Len(log) /\ j <= Len(log)
  BY <1>1 DEF OneFinalMarker
<1>2. CASE i <= Len(log) /\ j > Len(log)
  BY <1>0, <1>2
<1>3. CASE i > Len(log) /\ j <= Len(log)
  BY <1>0, <1>3
<1>4. CASE i > Len(log) /\ j > Len(log)
  <2>1. i - Len(log) = j - Len(log)
    BY ZenonT(60), <1>4
  <2> QED
    BY <2>1
<1> QED
  BY <1>1, <1>2, <1>3, <1>4

(***************************************************************************)
(* The events of a transaction.                                             *)
(***************************************************************************)
(* The events of a transaction, by the fields that the invariant looks at.    *)
LEMMA EventFields ==
    ASSUME NEW op \in Nat, NEW n \in Nat
    PROVE  /\ Input(op) \in Events
           /\ Input(op).op = op /\ Input(op).kind = "input"
           /\ ItemStarted(<<op, n>>) \in Events
           /\ ItemStarted(<<op, n>>).op = op /\ ItemStarted(<<op, n>>).kind = "itemStarted"
           /\ ItemCompleted(<<op, n>>) \in Events
           /\ ItemCompleted(<<op, n>>).op = op /\ ItemCompleted(<<op, n>>).kind = "itemCompleted"
           /\ ItemCancelled(<<op, n>>) \in Events
           /\ ItemCancelled(<<op, n>>).op = op /\ ItemCancelled(<<op, n>>).kind = "itemCancelled"
           /\ Diagnostic(op) \in Events
           /\ Diagnostic(op).op = op /\ Diagnostic(op).kind = "diagnostic"
<1> USE DEF Event, Events, EventKinds, FinalMarkers, NoItem
<1>1. /\ Input(op) \in Events
      /\ Input(op).op = op /\ Input(op).kind = "input"
  BY DEF Input
<1>2. /\ ItemStarted(<<op, n>>) \in Events
      /\ ItemStarted(<<op, n>>).op = op /\ ItemStarted(<<op, n>>).kind = "itemStarted"
  BY DEF ItemStarted
<1>3. /\ ItemCompleted(<<op, n>>) \in Events
      /\ ItemCompleted(<<op, n>>).op = op /\ ItemCompleted(<<op, n>>).kind = "itemCompleted"
  BY DEF ItemCompleted
<1>4. /\ ItemCancelled(<<op, n>>) \in Events
      /\ ItemCancelled(<<op, n>>).op = op /\ ItemCancelled(<<op, n>>).kind = "itemCancelled"
  BY DEF ItemCancelled
<1>5. /\ Diagnostic(op) \in Events
      /\ Diagnostic(op).op = op /\ Diagnostic(op).kind = "diagnostic"
  BY DEF Diagnostic
<1> QED
  BY <1>1, <1>2, <1>3, <1>4, <1>5

(* The event that begins a transaction.                                       *)
LEMMA StartedFields ==
    ASSUME NEW op \in Nat, NEW of \in OperationKinds
    PROVE  /\ Started(op, of) \in Events
           /\ Started(op, of).op = op /\ Started(op, of).kind = "started"
BY DEF Started, Event, Events, EventKinds, FinalMarkers, NoItem

(* What a compaction and a branch summary record.                             *)
LEMMA FlowFields ==
    ASSUME NEW op \in Nat, NEW source \in Nat, NEW leaf \in Nat, NEW keep \in Nat \X Nat
    PROVE  /\ Compacted(op, keep) \in Events
           /\ Compacted(op, keep).op = op /\ Compacted(op, keep).kind = "compacted"
           /\ Summarized(op, source, leaf) \in Events
           /\ Summarized(op, source, leaf).op = op
           /\ Summarized(op, source, leaf).kind = "summarized"
<1> USE DEF Event, Events, EventKinds, FinalMarkers, NoItem
<1>1. /\ Compacted(op, keep) \in Events
      /\ Compacted(op, keep).op = op /\ Compacted(op, keep).kind = "compacted"
  BY DEF Compacted
<1>2. /\ Summarized(op, source, leaf) \in Events
      /\ Summarized(op, source, leaf).op = op
      /\ Summarized(op, source, leaf).kind = "summarized"
  BY DEF Summarized
<1> QED
  BY <1>1, <1>2

(* The final markers and the events outside of transactions.                  *)
LEMMA MarkerFields ==
    ASSUME NEW op \in Nat, NEW leaf \in Nat
    PROVE  /\ Committed(op, leaf) \in Events /\ Committed(op, leaf).op = op
           /\ Committed(op, leaf).kind = "committed" /\ Committed(op, leaf).leaf = leaf
           /\ Aborted(op) \in Events /\ Aborted(op).op = op
           /\ Failed(op) \in Events /\ Failed(op).op = op
           /\ Recovered(op) \in Events /\ Recovered(op).op = op
           /\ Recovered(op).kind = "recovered"
           /\ LeafChanged(leaf) \in Events /\ LeafChanged(leaf).op = 0
           /\ LeafChanged(leaf).kind = "leafChanged"
           /\ Event("created", 0) \in Events /\ Event("created", 0).op = 0
           /\ Event("created", 0).kind = "created"
           /\ Event("forked", 0) \in Events /\ Event("forked", 0).op = 0
           /\ Event("forked", 0).kind = "forked"
<1> USE DEF Event, Events, EventKinds, FinalMarkers, NoItem
<1>1. /\ Committed(op, leaf) \in Events /\ Committed(op, leaf).op = op
      /\ Committed(op, leaf).kind = "committed" /\ Committed(op, leaf).leaf = leaf
  BY DEF Committed
<1>2. /\ Aborted(op) \in Events /\ Aborted(op).op = op
      /\ Failed(op) \in Events /\ Failed(op).op = op
  BY DEF Aborted, Failed
<1>3. Recovered(op) \in Events /\ Recovered(op).op = op /\ Recovered(op).kind = "recovered"
  BY DEF Recovered
<1>4. /\ LeafChanged(leaf) \in Events /\ LeafChanged(leaf).op = 0
      /\ LeafChanged(leaf).kind = "leafChanged"
  BY DEF LeafChanged
<1>5. /\ Event("created", 0) \in Events /\ Event("created", 0).op = 0
      /\ Event("created", 0).kind = "created"
      /\ Event("forked", 0) \in Events /\ Event("forked", 0).op = 0
      /\ Event("forked", 0).kind = "forked"
  OBVIOUS
<1> QED
  BY <1>1, <1>2, <1>3, <1>4, <1>5

(***************************************************************************)
(* The inductive invariant.                                                 *)
(***************************************************************************)
(* Every event belongs to an operation that was begun, or to none.            *)
LogOps == \A i \in DOMAIN log : log[i].op <= used.ops

(* The leaf that is to be written into the manifest is already committed.     *)
TxLeaf == pc \in {"sealing", "switching"} => tx.leaf \in {0} \cup CommittedLeaves(log)

(* An open transaction has written nothing, and collects only its own events, *)
(* none of them final.                                                        *)
TxFresh ==
    pc = "open" =>
        /\ tx.leaf = 0
        /\ tx.op <= used.ops
        /\ \A i \in DOMAIN log : log[i].op # tx.op
        /\ \A i \in DOMAIN tx.pending :
                tx.pending[i].op = tx.op /\ tx.pending[i].kind \notin FinalMarkers

(* Once its markers are appended, recovery has left nothing in doubt.         *)
RecoveredSettled == pc = "recovering" => InDoubt(log) = {}

SessionInv ==
    /\ TypeOK
    /\ ManifestLeafCommitted
    /\ OneFinalMarker
    /\ LogOps
    /\ TxLeaf
    /\ TxFresh
    /\ RecoveredSettled

(* What the log keeps through an append.                                      *)
Grown ==
    /\ log' \in Seq(Events)
    /\ CommittedLeaves(log) \subseteq CommittedLeaves(log')
    /\ OneFinalMarker'
    /\ LogOps'

(* The events that end a transaction: its own, the last one final.            *)
OwnEvents(events) ==
    /\ events \in Seq(Events)
    /\ \A i \in 1..Len(events) :
            events[i].op = tx.op /\ (events[i].kind \in FinalMarkers => i = Len(events))

(* Ending a transaction finalizes an operation that had no marker.            *)
LEMMA OwnAppends ==
    ASSUME SessionInv, pc = "open", NEW events, OwnEvents(events), UNCHANGED used,
           AppendAll(events) \/ AppendCut(events)
    PROVE  Grown /\ Extended(events)
<1>1. log \in Seq(Events) /\ events \in Seq(Events)
  BY DEF SessionInv, TypeOK, OwnEvents
<1>2. Extended(events)
  BY <1>1, StoreAppends, AppendsShape
<1>3. CommittedLeaves(log) \subseteq CommittedLeaves(log')
  BY <1>1, <1>2, AppendsKeepLeaves
<1>4. \A i \in 1..Len(events) :
        events[i].kind \in FinalMarkers => events[i].op \notin Finalized(log)
  BY DEF SessionInv, TxFresh, OwnEvents, Finalized
<1>5. OneFinalMarker'
  BY <1>1, <1>2, <1>4, AppendsMarkOnce DEF SessionInv, OwnEvents
<1>6. LogOps'
  <2>1. \A i \in 1..Len(events) : events[i].op <= used.ops
    BY DEF SessionInv, TxFresh, OwnEvents
  <2>2. \A i \in 1..Len(log) : log[i].op <= used.ops
    BY <1>2 DEF SessionInv, LogOps, Extended
  <2> QED
    BY <1>2, <2>1, <2>2 DEF LogOps, Extended
<1> QED
  BY <1>2, <1>3, <1>5, <1>6 DEF Grown, Extended

(* TurnTransaction::commit ends the pending events with the commit marker.    *)
LEMMA CommitOwn ==
    ASSUME SessionInv, pc = "open"
    PROVE  /\ OwnEvents(CommitEvents)
           /\ Len(CommitEvents) = Len(tx.pending) + 1
           /\ CommitEvents[Len(CommitEvents)] = Committed(tx.op, NewLeaf)
<1>1. tx.pending \in Seq(Events) /\ tx.op \in Nat /\ NewLeaf \in Nat
  BY SessionAssumption DEF SessionInv, TypeOK, NewLeaf
<1>2. Len(tx.pending) \in Nat /\ DOMAIN tx.pending = 1..Len(tx.pending)
  BY <1>1, LenProperties
<1>3. Committed(tx.op, NewLeaf) \in Events /\ Committed(tx.op, NewLeaf).op = tx.op
  BY <1>1, MarkerFields
<1>4. /\ CommitEvents \in Seq(Events)
      /\ Len(CommitEvents) = Len(tx.pending) + 1
      /\ \A i \in 1..Len(tx.pending) : CommitEvents[i] = tx.pending[i]
      /\ CommitEvents[Len(tx.pending) + 1] = Committed(tx.op, NewLeaf)
  BY <1>1, <1>3, AppendProperties DEF CommitEvents
<1>5. \A i \in 1..Len(tx.pending) :
        tx.pending[i].op = tx.op /\ tx.pending[i].kind \notin FinalMarkers
  BY <1>2 DEF SessionInv, TxFresh
<1> QED
  BY <1>2, <1>3, <1>4, <1>5 DEF OwnEvents

(* TurnTransaction::fail and abort add the cancellations and one marker.      *)
LEMMA EndOwn ==
    ASSUME SessionInv, pc = "open", NEW marker
    PROVE  OwnEvents(EndEvents(marker))
<1> DEFINE last == IF marker = "failed" THEN <<Diagnostic(tx.op), Failed(tx.op)>>
                   ELSE <<Aborted(tx.op)>>
           items == Enumerate(tx.unsettled)
<1>1. /\ tx.pending \in Seq(Events) /\ tx.op \in Nat
      /\ tx.unsettled \in SUBSET (1..MaxItems)
  BY SessionAssumption DEF SessionInv, TypeOK
<1>2. Len(tx.pending) \in Nat /\ DOMAIN tx.pending = 1..Len(tx.pending)
  BY <1>1, LenProperties
<1>3. IsFiniteSet(tx.unsettled) /\ tx.unsettled \in SUBSET Nat
  <2>1. IsFiniteSet(1..MaxItems)
    BY SessionAssumption, FS_Interval
  <2>2. IsFiniteSet(tx.unsettled)
    BY <1>1, <2>1, FS_Subset
  <2> QED
    BY <1>1, <2>2, SessionAssumption
<1> DEFINE count == Cardinality(tx.unsettled)
<1>4. count \in Nat /\ DOMAIN items = 1..count /\ \A n \in 1..count : items[n] \in Nat
  BY <1>3, EnumerateBijective
<1>5. \A n \in 1..count : /\ ItemCancelled(<<tx.op, items[n]>>) \in Events
                          /\ ItemCancelled(<<tx.op, items[n]>>).op = tx.op
                          /\ ItemCancelled(<<tx.op, items[n]>>).kind = "itemCancelled"
  <2> SUFFICES ASSUME NEW n \in 1..count
               PROVE  /\ ItemCancelled(<<tx.op, items[n]>>) \in Events
                      /\ ItemCancelled(<<tx.op, items[n]>>).op = tx.op
                      /\ ItemCancelled(<<tx.op, items[n]>>).kind = "itemCancelled"
    OBVIOUS
  <2>1. items[n] \in Nat
    BY <1>4
  <2> HIDE DEF items
  <2> QED
    BY <1>1, <2>1, EventFields
<1>6. Cancellations = [n \in 1..count |-> ItemCancelled(<<tx.op, items[n]>>)]
  BY <1>4 DEF Cancellations
<1>7. /\ Cancellations \in Seq(Events) /\ Len(Cancellations) = count
      /\ \A n \in 1..count : /\ Cancellations[n].op = tx.op
                             /\ Cancellations[n].kind \notin FinalMarkers
  <2> HIDE DEF items, count
  <2>1. Cancellations \in [1..count -> Events]
    BY <1>5, <1>6
  <2>2. Cancellations \in Seq(Events) /\ Len(Cancellations) = count
    BY <1>4, <2>1
  <2> QED
    BY <1>5, <1>6, <2>2 DEF FinalMarkers
<1>8. /\ last \in Seq(Events) /\ Len(last) \in 1..2
      /\ \A n \in 1..Len(last) :
            last[n].op = tx.op /\ (last[n].kind \in FinalMarkers => n = Len(last))
  <2>1. /\ Diagnostic(tx.op) \in Events /\ Diagnostic(tx.op).op = tx.op
        /\ Diagnostic(tx.op).kind = "diagnostic"
    BY <1>1, EventFields
  <2>2. /\ Failed(tx.op) \in Events /\ Failed(tx.op).op = tx.op
        /\ Aborted(tx.op) \in Events /\ Aborted(tx.op).op = tx.op
    BY <1>1, MarkerFields
  <2>3. "diagnostic" \notin FinalMarkers
    BY DEF FinalMarkers
  <2>4. CASE marker = "failed"
    BY <2>1, <2>2, <2>3, <2>4
  <2>5. CASE marker # "failed"
    BY <2>2, <2>5
  <2> QED
    BY <2>4, <2>5
<1> HIDE DEF last, items, count
<1> DEFINE body == tx.pending \o Cancellations
<1>9. /\ body \in Seq(Events) /\ Len(body) = Len(tx.pending) + count
      /\ \A i \in 1..Len(body) : body[i].op = tx.op /\ body[i].kind \notin FinalMarkers
  <2>1. /\ body \in Seq(Events) /\ Len(body) = Len(tx.pending) + count
        /\ \A i \in 1..(Len(tx.pending) + count) :
              body[i] = IF i <= Len(tx.pending) THEN tx.pending[i]
                        ELSE Cancellations[i - Len(tx.pending)]
    BY ZenonT(60), <1>1, <1>7, ConcatProperties
  <2>2. \A i \in 1..Len(tx.pending) :
            tx.pending[i].op = tx.op /\ tx.pending[i].kind \notin FinalMarkers
    BY <1>2 DEF SessionInv, TxFresh
  <2> HIDE DEF body
  <2> QED
    BY SMTT(60), <1>2, <1>4, <1>7, <2>1, <2>2
<1>10. EndEvents(marker) = body \o last
  BY DEF EndEvents, last
<1> HIDE DEF body
<1>11. Len(body) \in Nat /\ Len(last) \in Nat
  BY <1>8, <1>9, LenProperties
<1>12. /\ body \o last \in Seq(Events) /\ Len(body \o last) = Len(body) + Len(last)
       /\ \A i \in 1..(Len(body) + Len(last)) :
            (body \o last)[i] = IF i <= Len(body) THEN body[i] ELSE last[i - Len(body)]
  BY <1>8, <1>9, ConcatProperties
<1>13. ASSUME NEW i \in 1..Len(body \o last)
       PROVE  /\ (body \o last)[i].op = tx.op
              /\ (body \o last)[i].kind \in FinalMarkers => i = Len(body \o last)
  <2>1. CASE i <= Len(body)
    <3>1. i \in 1..Len(body) /\ (body \o last)[i] = body[i]
      BY <1>11, <1>12, <2>1
    <3> QED
      BY <1>9, <3>1
  <2>2. CASE i > Len(body)
    <3>1. i - Len(body) \in 1..Len(last) /\ (body \o last)[i] = last[i - Len(body)]
      BY <1>11, <1>12, <2>2
    <3>2. i - Len(body) = Len(last) => i = Len(body \o last)
      BY <1>11, <1>12
    <3> QED
      BY <1>8, <3>1, <3>2
  <2> QED
    BY <1>11, <1>12, <2>1, <2>2
<1> QED
  BY <1>10, <1>12, <1>13 DEF OwnEvents

(***************************************************************************)
(* Startup recovery.                                                        *)
(***************************************************************************)
(* The markers are one for each operation in doubt and none besides.          *)
LEMMA MarkersOfDoubt ==
    ASSUME SessionInv
    PROVE  /\ RecoveryMarkers \in Seq(Events)
           /\ \A i \in 1..Len(RecoveryMarkers) :
                /\ RecoveryMarkers[i].kind = "recovered"
                /\ RecoveryMarkers[i].op \in InDoubt(log)
           /\ \A i, j \in 1..Len(RecoveryMarkers) :
                RecoveryMarkers[i].op = RecoveryMarkers[j].op => i = j
           /\ \A op \in InDoubt(log) : \E i \in 1..Len(RecoveryMarkers) :
                RecoveryMarkers[i].op = op
<1> DEFINE ops == Enumerate(InDoubt(log))
           count == Cardinality(InDoubt(log))
<1>1. log \in Seq(Events) /\ used.ops \in Nat
  BY SessionAssumption DEF SessionInv, TypeOK
<1>2. \A i \in DOMAIN log : log[i].op \in Nat /\ log[i].op <= used.ops
  <2>1. \A i \in DOMAIN log : log[i] \in Events
    BY <1>1
  <2>2. \A e \in Events : e.op \in Nat
    BY DEF Events
  <2> QED
    BY <2>1, <2>2 DEF SessionInv, LogOps
<1>3. InDoubt(log) \in SUBSET Nat /\ \A op \in InDoubt(log) : op <= used.ops
  BY <1>2 DEF InDoubt
<1>4. IsFiniteSet(InDoubt(log))
  BY <1>1, <1>3, FS_BoundedSetOfNaturals
<1>5. /\ count \in Nat
      /\ DOMAIN ops = 1..count
      /\ \A n \in 1..count : ops[n] \in InDoubt(log)
      /\ \A m, n \in 1..count : ops[m] = ops[n] => m = n
      /\ \A x \in InDoubt(log) : \E n \in 1..count : ops[n] = x
  BY <1>3, <1>4, EnumerateBijective
<1>6. RecoveryMarkers = [n \in 1..count |-> Recovered(ops[n])]
  BY <1>5 DEF RecoveryMarkers
<1> HIDE DEF ops, count
<1>7. \A n \in 1..count : /\ Recovered(ops[n]) \in Events
                          /\ Recovered(ops[n]).op = ops[n]
                          /\ Recovered(ops[n]).kind = "recovered"
  <2> SUFFICES ASSUME NEW n \in 1..count
               PROVE  /\ Recovered(ops[n]) \in Events
                      /\ Recovered(ops[n]).op = ops[n]
                      /\ Recovered(ops[n]).kind = "recovered"
    OBVIOUS
  <2>1. ops[n] \in Nat /\ 0 \in Nat
    BY <1>3, <1>5
  <2> QED
    BY <2>1, MarkerFields
<1>8. RecoveryMarkers \in [1..count -> Events]
  BY <1>6, <1>7
<1>9. RecoveryMarkers \in Seq(Events) /\ Len(RecoveryMarkers) = count
  BY <1>5, <1>8
<1>10. \A n \in 1..count : /\ RecoveryMarkers[n].op = ops[n]
                           /\ RecoveryMarkers[n].kind = "recovered"
  BY <1>6, <1>7
<1> QED
  BY <1>5, <1>9, <1>10

(* Any prefix of the markers keeps the log in order, and all of them leave    *)
(* nothing in doubt.                                                          *)
LEMMA RecoveryAppends ==
    ASSUME SessionInv, UNCHANGED used,
           AppendAll(RecoveryMarkers) \/ AppendCut(RecoveryMarkers)
    PROVE  Grown /\ (AppendAll(RecoveryMarkers) => InDoubt(log') = {})
<1> DEFINE events == RecoveryMarkers
<1>1. log \in Seq(Events) /\ events \in Seq(Events)
  BY MarkersOfDoubt DEF SessionInv, TypeOK
<1>2. /\ \A i \in 1..Len(events) :
            events[i].kind = "recovered" /\ events[i].op \in InDoubt(log)
      /\ \A i, j \in 1..Len(events) : events[i].op = events[j].op => i = j
      /\ \A op \in InDoubt(log) : \E i \in 1..Len(events) : events[i].op = op
  BY MarkersOfDoubt
<1>3. AppendAll(events) \/ AppendCut(events)
  OBVIOUS
<1>0. AppendAll(RecoveryMarkers) => log' = log \o events
  BY DEF AppendAll
<1> HIDE DEF events
<1>4. Extended(events)
  BY <1>1, <1>3, StoreAppends, AppendsShape
<1>5. CommittedLeaves(log) \subseteq CommittedLeaves(log')
  BY <1>1, <1>4, AppendsKeepLeaves
<1>6. OneFinalMarker'
  <2>1. \A i \in 1..Len(events) : events[i].op \notin Finalized(log)
    BY <1>2 DEF InDoubt
  <2> QED
    BY <1>1, <1>2, <1>4, <2>1, AppendsMarkOnce DEF SessionInv
<1>7. LogOps'
  <2>1. \A i \in 1..Len(log) : log[i].op <= used.ops
    BY <1>4 DEF SessionInv, LogOps, Extended
  <2>2. \A op \in InDoubt(log) : op <= used.ops
    BY <1>4, <2>1 DEF InDoubt, Extended
  <2> QED
    BY <1>2, <1>4, <2>1, <2>2 DEF LogOps, Extended
<1>8. ASSUME AppendAll(RecoveryMarkers) PROVE InDoubt(log') = {}
  <2>1. /\ Len(log) \in Nat /\ Len(events) \in Nat /\ Len(log') = Len(log) + Len(events)
        /\ \A i \in 1..Len(events) : log'[Len(log) + i] = events[i]
    <3>1. Len(log) \in Nat /\ Len(events) \in Nat
      BY <1>1, LenProperties
    <3>2. /\ Len(log') = Len(log) + Len(events)
          /\ \A i \in 1..(Len(log) + Len(events)) :
                log'[i] = IF i <= Len(log) THEN log[i] ELSE events[i - Len(log)]
      BY <1>0, <1>1, <1>8, ConcatProperties
    <3> QED
      BY <3>1, <3>2
  <2> SUFFICES ASSUME NEW i \in 1..Len(log'), log'[i].kind = "started",
                      log'[i].op \notin Finalized(log')
               PROVE  FALSE
    BY <1>4 DEF InDoubt, Extended
  <2>2. i <= Len(log)
    BY <1>2, <1>4 DEF Extended
  <2>3. log'[i] = log[i] /\ i \in DOMAIN log
    BY <1>4, <2>2 DEF Extended
  <2>4. Finalized(log) \subseteq Finalized(log')
    BY <1>4 DEF Finalized, Extended
  <2>5. log[i].op \in InDoubt(log)
    BY <2>3, <2>4 DEF InDoubt
  <2>6. PICK n \in 1..Len(events) : events[n].op = log[i].op
    BY <1>2, <2>5
  <2>7. Len(log) + n \in 1..Len(log') /\ log'[Len(log) + n] = events[n]
    BY <2>1
  <2>8. log'[Len(log) + n].op \in Finalized(log')
    BY ZenonT(60), <1>2, <1>4, <2>7 DEF Finalized, FinalMarkers, Extended
  <2> QED
    BY <2>3, <2>6, <2>7, <2>8
<1> QED
  BY <1>4, <1>5, <1>6, <1>7, <1>8 DEF Grown, Extended

(***************************************************************************)
(* Copies.                                                                  *)
(***************************************************************************)
(* A copy holds events of the log, each at most once, and the commit of the   *)
(* leaf that it starts from.                                                  *)
LEMMA CopyKeeps ==
    ASSUME log \in Seq(Events), OneFinalMarker, LogOps, used.ops \in Nat,
           NEW leaf \in CommittedLeaves(log), UNCHANGED <<used.ops>>,
           log' = CopiedEvents(log, leaf)
    PROVE  /\ log' \in Seq(Events)
           /\ leaf \in CommittedLeaves(log')
           /\ OneFinalMarker'
           /\ LogOps'
<1> DEFINE cut == Cutoff(log, leaf)
           at == {i \in DOMAIN log : log[i].kind = "committed" /\ log[i].leaf = leaf}
           summaries == {log[i].op : i \in {j \in DOMAIN log :
                            j > cut /\ log[j].kind = "summarized" /\ log[j].leaf = leaf}}
           chosen == {i \in DOMAIN log : /\ i <= cut \/ log[i].op \in summaries
                                         /\ log[i].kind \notin {"created", "forked"}}
           kept == Enumerate(chosen)
           count == Cardinality(chosen)
           head == <<Event("created", 0), Event("forked", 0)>>
           copy == [n \in DOMAIN kept |-> log[kept[n]]]
<1>1. /\ Len(log) \in Nat /\ DOMAIN log = 1..Len(log)
      /\ \A i \in 1..Len(log) : log[i] \in Events
  BY LenProperties, ElementOfSeq
<1>2. IsFiniteSet(DOMAIN log) /\ DOMAIN log \in SUBSET Nat
  BY <1>1, FS_Interval
<1>3. cut \in at /\ leaf # 0
  <2>1. at \in SUBSET DOMAIN log /\ at # {} /\ leaf # 0
    BY DEF CommittedLeaves
  <2>2. IsFiniteSet(at) /\ at \in SUBSET Nat
    <3>1. IsFiniteSet(at)
      BY <1>2, <2>1, FS_Subset
    <3> QED
      BY <1>2, <2>1, <3>1
  <2> HIDE DEF at
  <2>3. \E x \in at : \A y \in at : x <= y
    BY SMTT(60), <2>1, <2>2, EnumerateBijective
  <2>4. cut = CHOOSE i \in at : \A j \in at : i <= j
    BY <2>1 DEF Cutoff, at
  <2> HIDE DEF cut
  <2> QED
    BY <2>1, <2>3, <2>4
<1>4. cut \in chosen /\ cut \in 1..Len(log)
  BY <1>1, <1>3
<1>5. chosen \in SUBSET (1..Len(log)) /\ IsFiniteSet(chosen)
  <2>1. chosen \in SUBSET DOMAIN log
    OBVIOUS
  <2> HIDE DEF chosen
  <2>2. IsFiniteSet(chosen)
    BY <1>2, <2>1, FS_Subset
  <2> QED
    BY <1>1, <2>1, <2>2
<1>6. chosen \in SUBSET Nat
  BY <1>5
<1>7. log' = head \o copy
  BY DEF CopiedEvents
<1> HIDE DEF chosen
<1>8. /\ count \in Nat
      /\ DOMAIN kept = 1..count
      /\ \A n \in 1..count : kept[n] \in chosen
      /\ \A m, n \in 1..count : kept[m] = kept[n] => m = n
      /\ \A x \in chosen : \E n \in 1..count : kept[n] = x
  BY <1>5, <1>6, EnumerateBijective
<1> HIDE DEF kept, count, cut, at
<1>9. \A n \in 1..count : kept[n] \in 1..Len(log) /\ log[kept[n]] \in Events
  BY <1>1, <1>5, <1>8
<1>10. copy \in [1..count -> Events] /\ \A n \in 1..count : copy[n] = log[kept[n]]
  BY <1>8, <1>9
<1> HIDE DEF copy
<1>11. copy \in Seq(Events) /\ Len(copy) = count
  BY <1>8, <1>10
<1>12. /\ head \in Seq(Events) /\ Len(head) = 2
       /\ \A i \in 1..2 : head[i].op = 0 /\ head[i].kind \notin FinalMarkers
  <2>1. /\ Event("created", 0) \in Events /\ Event("created", 0).op = 0
        /\ Event("created", 0).kind = "created"
        /\ Event("forked", 0) \in Events /\ Event("forked", 0).op = 0
        /\ Event("forked", 0).kind = "forked"
    <3>1. 0 \in Nat
      OBVIOUS
    <3> QED
      BY <3>1, MarkerFields
  <2> QED
    BY <2>1 DEF FinalMarkers
<1> HIDE DEF head
<1>13. /\ log' \in Seq(Events) /\ Len(log') = 2 + count
       /\ \A i \in 1..(2 + count) : log'[i] = IF i <= 2 THEN head[i] ELSE copy[i - 2]
  <2>1. /\ head \o copy \in Seq(Events) /\ Len(head \o copy) = Len(head) + Len(copy)
        /\ \A i \in 1..(Len(head) + Len(copy)) :
              (head \o copy)[i] = IF i <= Len(head) THEN head[i] ELSE copy[i - Len(head)]
    BY <1>11, <1>12, ConcatProperties
  <2> QED
    BY <1>7, <1>11, <1>12, <2>1
<1>14. DOMAIN log' = 1..(2 + count)
  BY <1>13, LenProperties
<1>15. \A i \in 1..(2 + count) :
        IF i <= 2 THEN log'[i].op = 0 /\ log'[i].kind \notin FinalMarkers
        ELSE i - 2 \in 1..count /\ log'[i] = log[kept[i - 2]]
  <2> SUFFICES ASSUME NEW i \in 1..(2 + count)
               PROVE  IF i <= 2 THEN log'[i].op = 0 /\ log'[i].kind \notin FinalMarkers
                      ELSE i - 2 \in 1..count /\ log'[i] = log[kept[i - 2]]
    OBVIOUS
  <2>1. CASE i <= 2
    <3>1. i \in 1..2 /\ log'[i] = head[i]
      BY <1>8, <1>13, <2>1
    <3>2. log'[i].op = 0 /\ log'[i].kind \notin FinalMarkers
      BY <1>12, <3>1
    <3> QED
      BY <2>1, <3>2
  <2>2. CASE i > 2
    <3>1. i - 2 \in 1..count /\ log'[i] = copy[i - 2]
      BY <1>8, <1>13, <2>2
    <3>2. copy[i - 2] = log[kept[i - 2]]
      BY <1>10, <3>1
    <3> QED
      BY <1>8, <2>2, <3>1, <3>2
  <2> QED
    BY <1>8, <2>1, <2>2
<1>16. leaf \in CommittedLeaves(log')
  <2>1. PICK n \in 1..count : kept[n] = cut
    BY <1>4, <1>8
  <2>2. n + 2 \in 1..(2 + count) /\ log'[n + 2] = log[cut]
    BY <1>8, <1>15, <2>1
  <2>3. log[cut].kind = "committed" /\ log[cut].leaf = leaf
    BY <1>3 DEF at
  <2> QED
    BY <1>3, <1>14, <2>2, <2>3 DEF CommittedLeaves
<1>17. OneFinalMarker'
  <2> SUFFICES ASSUME NEW i \in 1..(2 + count), NEW j \in 1..(2 + count),
                      log'[i].kind \in FinalMarkers, log'[j].kind \in FinalMarkers,
                      log'[i].op = log'[j].op
               PROVE  i = j
    BY <1>14 DEF OneFinalMarker
  <2>1. /\ i > 2 /\ j > 2 /\ i - 2 \in 1..count /\ j - 2 \in 1..count
        /\ log'[i] = log[kept[i - 2]] /\ log'[j] = log[kept[j - 2]]
    BY <1>8, <1>15
  <2>2. kept[i - 2] = kept[j - 2]
    BY <1>1, <1>9, <2>1 DEF OneFinalMarker
  <2>3. i - 2 = j - 2
    BY <1>8, <2>1, <2>2
  <2> QED
    BY <1>8, <2>3
<1>18. LogOps'
  <2>1. \A i \in 1..Len(log) : log[i].op <= used.ops
    BY <1>1 DEF LogOps
  <2>2. \A i \in 1..(2 + count) : log'[i].op <= used.ops
    BY <1>8, <1>9, <1>15, <2>1
  <2> QED
    BY <1>14, <2>2 DEF LogOps
<1> QED
  BY <1>13, <1>16, <1>17, <1>18

(***************************************************************************)
(* Every step keeps the invariant.                                          *)
(***************************************************************************)
(* The state without the log and the transaction is well typed.               *)
RestOK ==
    /\ tail \in {"clean", "open", "torn"}
    /\ manifest \in [leaf : Nat, ok : BOOLEAN]
    /\ pc \in Steps
    /\ handle \in Nat
    /\ told \in [1..MaxOperations -> Results]
    /\ agreed \in BOOLEAN
    /\ faults \in 0..MaxFaults
    /\ used \in [ops : 0..MaxOperations, switches : 0..MaxSwitches, forks : 0..MaxForks]

TxOK ==
    /\ tx \in [op : 0..MaxOperations, of : OperationKinds \cup {"none"}, pending : Seq(Events),
               unsettled : SUBSET (1..MaxItems), done : BOOLEAN, leaf : Nat, result : Results]
    /\ (pc \in {"open", "sealing"}) = (tx.op # 0)

LEMMA TypeParts == TypeOK <=> log \in Seq(Events) /\ RestOK /\ TxOK
BY DEF TypeOK, RestOK, TxOK

(* The transaction that no operation is under way with.                       *)
LEMMA NoTxOK ==
    /\ NoTx \in [op : 0..MaxOperations, of : OperationKinds \cup {"none"}, pending : Seq(Events),
                 unsettled : SUBSET (1..MaxItems), done : BOOLEAN, leaf : Nat, result : Results]
    /\ NoTx.op = 0
BY SessionAssumption DEF NoTx, OperationKinds, Results

(* Writing the store leaves its types alone.                                  *)
LEMMA StoreTypes ==
    ASSUME RestOK, NEW events
    PROVE  /\ AppendAll(events) \/ AppendCut(events) =>
                tail' \in {"clean", "open", "torn"} /\ faults' \in 0..MaxFaults
           /\ \A leaf \in Nat : WriteManifest(leaf) \/ ManifestFails \/ ManifestCrash(leaf) =>
                /\ manifest' \in [leaf : Nat, ok : BOOLEAN]
                /\ manifest'.leaf \in {manifest.leaf, leaf}
                /\ faults' \in 0..MaxFaults
<1>1. faults \in Nat /\ (Fault => faults' \in 0..MaxFaults)
  BY SessionAssumption DEF RestOK, Fault
<1>2. AppendAll(events) \/ AppendCut(events) =>
        tail' \in {"clean", "open", "torn"} /\ faults' \in 0..MaxFaults
  BY <1>1 DEF RestOK, AppendAll, AppendCut
<1>3. ASSUME NEW leaf \in Nat, WriteManifest(leaf) \/ ManifestFails \/ ManifestCrash(leaf)
      PROVE  /\ manifest' \in [leaf : Nat, ok : BOOLEAN]
             /\ manifest'.leaf \in {manifest.leaf, leaf}
             /\ faults' \in 0..MaxFaults
  BY <1>1, <1>3 DEF RestOK, WriteManifest, ManifestFails, ManifestCrash
<1> QED
  BY <1>2, <1>3

(* Leaves are numbers.                                                        *)
LEMMA LeavesNat == log \in Seq(Events) => CommittedLeaves(log) \in SUBSET Nat
<1> SUFFICES ASSUME log \in Seq(Events) PROVE CommittedLeaves(log) \in SUBSET Nat
  OBVIOUS
<1>1. \A i \in DOMAIN log : log[i] \in Events
  OBVIOUS
<1>2. \A e \in Events : e.leaf \in Nat
  BY DEF Events
<1> QED
  BY <1>1, <1>2 DEF CommittedLeaves

(* A step that does not touch the log keeps what is known of it.              *)
LEMMA SameLog ==
    ASSUME SessionInv, UNCHANGED log, used'.ops \in Nat, used.ops <= used'.ops
    PROVE  Grown /\ CommittedLeaves(log') = CommittedLeaves(log) /\ InDoubt(log') = InDoubt(log)
<1>1. log' \in Seq(Events) /\ CommittedLeaves(log') = CommittedLeaves(log) /\ OneFinalMarker'
      /\ InDoubt(log') = InDoubt(log)
  BY DEF SessionInv, TypeOK, OneFinalMarker
<1>2. LogOps'
  <2>1. used.ops \in Nat /\ \A i \in DOMAIN log : log[i].op \in Nat
    <3>1. log \in Seq(Events) /\ used.ops \in Nat
      BY SessionAssumption DEF SessionInv, TypeOK
    <3>2. \A i \in DOMAIN log : log[i] \in Events
      BY <3>1
    <3>3. \A e \in Events : e.op \in Nat
      BY DEF Events
    <3> QED
      BY <3>1, <3>2, <3>3
  <2> QED
    BY <2>1 DEF SessionInv, LogOps
<1> QED
  BY <1>1, <1>2 DEF Grown

(* A step after which no transaction is under way.                            *)
LEMMA AtRest ==
    ASSUME SessionInv, Grown, RestOK', pc' \in {"idle", "down"}, tx' = NoTx \/ (tx' = tx /\ tx.op = 0),
           manifest'.leaf \in {0} \cup CommittedLeaves(log'),
           handle' \in {0} \cup CommittedLeaves(log')
    PROVE  SessionInv'
<1>1. TxOK /\ RestOK
  BY TypeParts DEF SessionInv
<1>2. TxOK'
  BY <1>1, NoTxOK DEF TxOK
<1>3. TypeOK'
  BY <1>2, TypeParts DEF Grown, TypeOK, RestOK, TxOK
<1>4. TxLeaf' /\ TxFresh' /\ RecoveredSettled'
  BY DEF TxLeaf, TxFresh, RecoveredSettled
<1>5. ManifestLeafCommitted'
  BY DEF ManifestLeafCommitted
<1> QED
  BY <1>3, <1>4, <1>5 DEF SessionInv, Grown

(* Recording one more event of the open transaction.                          *)
LEMMA RecordKeeps ==
    ASSUME SessionInv, pc = "open", TxOK', UNCHANGED <<disk, pc, handle, told, agreed, used>>,
           tx'.op = tx.op, tx'.leaf = tx.leaf, NEW e \in Events, e.op = tx.op, e.kind \notin FinalMarkers,
           tx'.pending = Append(tx.pending, e)
    PROVE  SessionInv'
<1>1. used.ops \in Nat
  BY SessionAssumption DEF SessionInv, TypeOK
<1>2. Grown /\ CommittedLeaves(log') = CommittedLeaves(log)
  BY <1>1, SameLog DEF disk
<1>3. TypeOK'
  <2>1. RestOK'
    BY TypeParts DEF SessionInv, disk, RestOK
  <2> QED
    BY <1>2, <2>1 DEF Grown, TypeOK, RestOK, TxOK
<1>4. ManifestLeafCommitted'
  BY <1>2 DEF SessionInv, ManifestLeafCommitted, disk
<1>5. TxFresh'
  <2>1. tx.pending \in Seq(Events) /\ tx'.pending \in Seq(Events)
    BY DEF SessionInv, TypeOK, TxOK
  <2>2. /\ Len(tx'.pending) = Len(tx.pending) + 1 /\ Len(tx.pending) \in Nat
        /\ DOMAIN tx.pending = 1..Len(tx.pending) /\ DOMAIN tx'.pending = 1..Len(tx'.pending)
        /\ \A i \in 1..Len(tx.pending) : tx'.pending[i] = tx.pending[i]
        /\ tx'.pending[Len(tx.pending) + 1] = e
    BY <2>1, LenProperties, AppendProperties
  <2>3. \A i \in 1..Len(tx'.pending) :
            tx'.pending[i].op = tx.op /\ tx'.pending[i].kind \notin FinalMarkers
    BY <2>2 DEF SessionInv, TxFresh
  <2> QED
    BY <2>2, <2>3 DEF SessionInv, TxFresh, disk
<1>6. TxLeaf' /\ RecoveredSettled'
  BY DEF TxLeaf, RecoveredSettled
<1> QED
  BY <1>2, <1>3, <1>4, <1>5, <1>6 DEF SessionInv, Grown

(* A step that leaves the log, the transaction and the counters alone and     *)
(* writes the manifest at most.                                               *)
LEMMA ManifestStep ==
    ASSUME SessionInv, UNCHANGED <<log, tail, used>>, agreed' \in BOOLEAN,
           told' \in [1..MaxOperations -> Results], pc' \in {"idle", "down"},
           tx' = NoTx \/ (tx' = tx /\ tx.op = 0),
           NEW leaf \in {0} \cup CommittedLeaves(log), leaf \in Nat,
           WriteManifest(leaf) \/ ManifestFails \/ ManifestCrash(leaf),
           handle' \in {handle, leaf}
    PROVE  SessionInv'
<1>1. RestOK /\ used.ops \in Nat
  BY SessionAssumption, TypeParts DEF SessionInv, RestOK
<1>2. Grown /\ CommittedLeaves(log') = CommittedLeaves(log)
  BY <1>1, SameLog
<1>3. /\ manifest' \in [leaf : Nat, ok : BOOLEAN]
      /\ manifest'.leaf \in {manifest.leaf, leaf}
      /\ faults' \in 0..MaxFaults
  BY <1>1, StoreTypes
<1>4. RestOK'
  BY <1>1, <1>3 DEF RestOK, Steps
<1>5. /\ manifest'.leaf \in {0} \cup CommittedLeaves(log')
      /\ handle' \in {0} \cup CommittedLeaves(log')
  BY <1>2, <1>3 DEF SessionInv, ManifestLeafCommitted
<1> QED
  BY <1>2, <1>4, <1>5, AtRest

(* One event that belongs to no operation disturbs nothing.                   *)
LEMMA NeutralAppends ==
    ASSUME SessionInv, used'.ops = used.ops, NEW events \in Seq(Events), Extended(events),
           Len(events) = 1, events[1].op = 0, events[1].kind \notin FinalMarkers
    PROVE  Grown
<1>1. CommittedLeaves(log) \subseteq CommittedLeaves(log')
  BY AppendsKeepLeaves
<1>2. OneFinalMarker'
  BY AppendsMarkOnce DEF SessionInv
<1>3. LogOps'
  <2>1. used.ops \in Nat
    BY SessionAssumption DEF SessionInv, TypeOK
  <2> QED
    BY <2>1 DEF SessionInv, LogOps, Extended
<1> QED
  BY <1>1, <1>2, <1>3 DEF Grown, Extended

(* Ending a transaction by an append that is cut short.                       *)
LEMMA CutKeeps ==
    ASSUME SessionInv, pc = "open", NEW events, OwnEvents(events), FlushCut(events),
           agreed' \in BOOLEAN
    PROVE  SessionInv'
<1>1. RestOK /\ tx.op \in 1..MaxOperations
  BY TypeParts, SessionAssumption DEF SessionInv, RestOK, TxOK
<1>2. Grown
  BY OwnAppends DEF FlushCut
<1>3. RestOK'
  <2>1. tail' \in {"clean", "open", "torn"} /\ faults' \in 0..MaxFaults
    BY <1>1, StoreTypes DEF FlushCut
  <2>2. told' \in [1..MaxOperations -> Results]
    BY <1>1 DEF FlushCut, Settle, RestOK, Results
  <2> QED
    BY <1>1, <2>1, <2>2 DEF RestOK, FlushCut, Steps
<1>4. /\ manifest'.leaf \in {0} \cup CommittedLeaves(log')
      /\ handle' \in {0} \cup CommittedLeaves(log')
  BY <1>2 DEF SessionInv, ManifestLeafCommitted, FlushCut, Grown
<1>5. tx' = NoTx /\ pc' \in {"idle", "down"}
  BY DEF FlushCut, Settle
<1> QED
  BY <1>2, <1>3, <1>4, <1>5, AtRest

(* create_with_id: the first event of a session belongs to no operation.      *)
LEMMA CreateKeeps == ASSUME SessionInv, Create PROVE SessionInv'
<1> DEFINE events == <<Event("created", 0)>>
<1>1. RestOK /\ TxOK /\ log \in Seq(Events) /\ used.ops \in Nat
  BY TypeParts, SessionAssumption DEF SessionInv, RestOK
<1>2. /\ Event("created", 0) \in Events /\ Event("created", 0).op = 0
      /\ Event("created", 0).kind \notin FinalMarkers
  <2>1. 0 \in Nat
    OBVIOUS
  <2>2. /\ Event("created", 0) \in Events /\ Event("created", 0).op = 0
        /\ Event("created", 0).kind = "created"
    BY <2>1, MarkerFields
  <2> QED
    BY <2>2 DEF FinalMarkers
<1>3. /\ events \in Seq(Events) /\ Len(events) = 1
      /\ events[1].op = 0 /\ events[1].kind \notin FinalMarkers
  BY <1>2
<1>4. (AppendAll(events) \/ AppendCut(events)) /\ pc = "creating" /\ pc' \in {"idle", "down"}
      /\ UNCHANGED <<manifest, handle, tx, told, agreed, used>>
  BY DEF Create
<1> HIDE DEF events
<1>5. Extended(events)
  BY <1>1, <1>3, <1>4, StoreAppends, AppendsShape
<1>6. Grown
  BY <1>1, <1>3, <1>4, <1>5, NeutralAppends
<1>7. RestOK'
  <2>1. tail' \in {"clean", "open", "torn"} /\ faults' \in 0..MaxFaults
    BY <1>1, <1>4, StoreTypes
  <2> QED
    BY <1>1, <1>4, <2>1 DEF RestOK, Steps
<1>8. /\ manifest'.leaf \in {0} \cup CommittedLeaves(log')
      /\ handle' \in {0} \cup CommittedLeaves(log')
  BY <1>4, <1>6 DEF SessionInv, ManifestLeafCommitted, Grown
<1>9. tx' = tx /\ tx.op = 0
  BY <1>1, <1>4 DEF TxOK
<1> QED
  BY <1>4, <1>6, <1>7, <1>8, <1>9, AtRest

(* open, with or without something to recover.                                *)
LEMMA OpenKeeps == ASSUME SessionInv, Open PROVE SessionInv'
<1>1. /\ RestOK /\ TxOK /\ used.ops \in Nat /\ pc = "down" /\ tx.op = 0
      /\ UNCHANGED <<manifest, tx, told, agreed, used>>
  BY TypeParts, SessionAssumption DEF SessionInv, RestOK, TxOK, Open
<1>2. CASE pc' = "idle" /\ handle' = manifest.leaf /\ UNCHANGED <<log, tail, faults>>
  <2>1. Grown /\ CommittedLeaves(log') = CommittedLeaves(log)
    BY <1>1, <1>2, SameLog
  <2>2. RestOK'
    BY <1>1, <1>2 DEF RestOK, Steps
  <2>3. /\ manifest'.leaf \in {0} \cup CommittedLeaves(log')
        /\ handle' \in {0} \cup CommittedLeaves(log')
    BY <1>1, <1>2, <2>1 DEF SessionInv, ManifestLeafCommitted
  <2> QED
    BY <1>1, <1>2, <2>1, <2>2, <2>3, AtRest
<1>3. CASE /\ UNCHANGED handle
           /\ \/ AppendAll(RecoveryMarkers) /\ pc' = "recovering"
              \/ AppendCut(RecoveryMarkers) /\ pc' = "down"
  <2>1. Grown /\ (AppendAll(RecoveryMarkers) => InDoubt(log') = {})
    BY <1>1, <1>3, RecoveryAppends
  <2>2. RestOK'
    <3>1. tail' \in {"clean", "open", "torn"} /\ faults' \in 0..MaxFaults
      BY <1>1, <1>3, StoreTypes
    <3> QED
      BY <1>1, <1>3, <3>1 DEF RestOK, Steps
  <2>3. /\ manifest'.leaf \in {0} \cup CommittedLeaves(log')
        /\ handle' \in {0} \cup CommittedLeaves(log')
    BY <1>1, <1>3, <2>1 DEF SessionInv, ManifestLeafCommitted, Grown
  <2>4. CASE pc' = "down"
    BY <1>1, <2>1, <2>2, <2>3, <2>4, AtRest
  <2>5. CASE AppendAll(RecoveryMarkers) /\ pc' = "recovering"
    <3>1. TypeOK'
      BY <1>1, <2>1, <2>2, <2>5 DEF Grown, TypeOK, RestOK, TxOK
    <3>2. TxLeaf' /\ TxFresh' /\ RecoveredSettled'
      BY <2>1, <2>5 DEF TxLeaf, TxFresh, RecoveredSettled
    <3> QED
      BY <2>1, <2>3, <3>1, <3>2 DEF SessionInv, ManifestLeafCommitted, Grown
  <2> QED
    BY <1>3, <2>4, <2>5
<1> QED
  BY <1>2, <1>3 DEF Open

(* begin_*_transaction draws an operation that the log does not know.         *)
LEMMA BeginKeeps == ASSUME SessionInv, NEW of \in Offered, Begin(of) PROVE SessionInv'
<1> DEFINE op == used.ops + 1
<1>1. /\ RestOK /\ TxOK /\ used.ops \in Nat /\ log \in Seq(Events)
      /\ op \in 1..MaxOperations /\ of \in OperationKinds
  BY TypeParts, SessionAssumption DEF SessionInv, RestOK, Begin
<1>2. Started(op, of) \in Events /\ Started(op, of).op = op /\ Started(op, of).kind = "started"
  BY <1>1, StartedFields
<1>3. /\ tx' = [NoTx EXCEPT !.op = op, !.of = of, !.pending = <<Started(op, of)>>]
      /\ used' = [used EXCEPT !.ops = op]
      /\ pc' = "open"
      /\ UNCHANGED <<log, tail, manifest, faults, handle, told, agreed>>
  BY DEF Begin, disk
<1>4. /\ tx'.op = op /\ tx'.pending = <<Started(op, of)>> /\ used'.ops = op
      /\ used' \in [ops : 0..MaxOperations, switches : 0..MaxSwitches, forks : 0..MaxForks]
  BY <1>1, <1>3 DEF NoTx, RestOK
<1>5. tx' \in [op : 0..MaxOperations, of : OperationKinds \cup {"none"}, pending : Seq(Events),
               unsettled : SUBSET (1..MaxItems), done : BOOLEAN, leaf : Nat, result : Results]
  <2>1. <<Started(op, of)>> \in Seq(Events)
    BY <1>2
  <2> QED
    <3>1. tx' = [op |-> op, of |-> of, pending |-> <<Started(op, of)>>, unsettled |-> {},
                 done |-> FALSE, leaf |-> 0, result |-> "none"]
      BY <1>3 DEF NoTx
    <3> HIDE DEF op
    <3> QED
      BY <1>1, <2>1, <3>1 DEF Results
<1>6. Grown /\ CommittedLeaves(log') = CommittedLeaves(log)
  BY <1>1, <1>3, <1>4, SameLog
<1>7. TypeOK'
  BY <1>1, <1>3, <1>4, <1>5, <1>6 DEF TypeOK, Grown, RestOK, Steps
<1>8. TxFresh'
  <2>1. \A i \in DOMAIN log : log[i].op <= used.ops /\ log[i].op \in Nat
    <3>1. \A i \in DOMAIN log : log[i] \in Events
      BY <1>1
    <3>2. \A e \in Events : e.op \in Nat
      BY DEF Events
    <3> QED
      BY <3>1, <3>2 DEF SessionInv, LogOps
  <2>2. \A i \in DOMAIN log' : log'[i].op # op
    BY <1>1, <1>3, <2>1
  <2>3. \A i \in DOMAIN tx'.pending :
            tx'.pending[i].op = op /\ tx'.pending[i].kind \notin FinalMarkers
    BY <1>2, <1>4 DEF FinalMarkers
  <2> QED
    BY <1>1, <1>3, <1>4, <2>2, <2>3 DEF TxFresh, NoTx
<1>9. ManifestLeafCommitted' /\ TxLeaf' /\ RecoveredSettled'
  BY <1>3, <1>6 DEF SessionInv, ManifestLeafCommitted, TxLeaf, RecoveredSettled
<1> QED
  BY <1>6, <1>7, <1>8, <1>9 DEF SessionInv, Grown

(* The recording operations of an open transaction.                           *)
LEMMA RecordingKeeps ==
    ASSUME SessionInv,
           RecordInput \/ StartItem \/ CompleteItem \/ RecordCompaction \/ RecordSummary
    PROVE  SessionInv'
<1>1. /\ TxOK /\ pc = "open" /\ tx.op \in Nat /\ tx.pending \in Seq(Events)
      /\ UNCHANGED <<disk, pc, handle, told, agreed, used>>
  <2>1. TxOK /\ tx.op \in Nat /\ tx.pending \in Seq(Events)
    BY TypeParts, SessionAssumption DEF SessionInv, TxOK
  <2>2. pc = "open" /\ UNCHANGED <<disk, pc, handle, told, agreed, used>>
    BY DEF RecordInput, Record, StartItem, CompleteItem, RecordCompaction, RecordSummary
  <2> QED
    BY <2>1, <2>2
<1>2. CASE RecordInput
  <2> DEFINE e == Input(tx.op)
  <2>1. e \in Events /\ e.op = tx.op /\ e.kind \notin FinalMarkers
    <3>1. e \in Events /\ e.op = tx.op /\ e.kind = "input"
      BY <1>1, EventFields
    <3> QED
      BY <3>1 DEF FinalMarkers
  <2>2. tx' = [tx EXCEPT !.pending = Append(@, e)]
    <3>1. tx.pending \o <<e>> = Append(tx.pending, e)
      BY <1>1, <2>1, AppendIsConcat
    <3> QED
      BY <1>2, <3>1 DEF RecordInput, Record
  <2> HIDE DEF e
  <2>3. TxOK' /\ tx'.op = tx.op /\ tx'.leaf = tx.leaf /\ tx'.pending = Append(tx.pending, e)
    BY <1>1, <2>1, <2>2, AppendProperties DEF TxOK
  <2> QED
    BY <1>1, <2>1, <2>3, RecordKeeps
<1>3. CASE StartItem
  <2> DEFINE n == Cardinality(Items) + 1
             e == ItemStarted(<<tx.op, n>>)
  <2>1. n \in 1..MaxItems
    <3>1. Items \in SUBSET (1..Len(tx.pending)) /\ Len(tx.pending) \in Nat
      BY <1>1, LenProperties DEF Items
    <3>2. Cardinality(Items) \in Nat
      <4>1. IsFiniteSet(1..Len(tx.pending))
        BY <3>1, FS_Interval
      <4>2. IsFiniteSet(Items)
        BY <3>1, <4>1, FS_Subset
      <4> QED
        BY <4>2, FS_CardinalityType
    <3> QED
      BY <1>3, <3>2, SessionAssumption DEF StartItem
  <2>2. /\ tx' = [tx EXCEPT !.pending = Append(@, e), !.unsettled = @ \cup {n}]
    BY <1>3 DEF StartItem
  <2> HIDE DEF n
  <2>3. e \in Events /\ e.op = tx.op /\ e.kind \notin FinalMarkers
    <3>1. n \in Nat
      BY <2>1
    <3>2. e \in Events /\ e.op = tx.op /\ e.kind = "itemStarted"
      BY <1>1, <3>1, EventFields
    <3> QED
      BY <3>2 DEF FinalMarkers
  <2> HIDE DEF e
  <2>4. TxOK' /\ tx'.op = tx.op /\ tx'.leaf = tx.leaf /\ tx'.pending = Append(tx.pending, e)
    BY ZenonT(60), <1>1, <2>1, <2>2, <2>3, AppendProperties DEF TxOK
  <2> QED
    BY <1>1, <2>3, <2>4, RecordKeeps
<1>4. CASE CompleteItem
  <2>1. PICK n \in tx.unsettled :
            tx' = [tx EXCEPT !.pending = Append(@, ItemCompleted(<<tx.op, n>>)),
                             !.unsettled = @ \ {n}]
    BY <1>4 DEF CompleteItem
  <2> DEFINE e == ItemCompleted(<<tx.op, n>>)
  <2>2. e \in Events /\ e.op = tx.op /\ e.kind \notin FinalMarkers
    <3>1. n \in Nat
      BY <1>1, <2>1, SessionAssumption DEF TxOK
    <3>2. e \in Events /\ e.op = tx.op /\ e.kind = "itemCompleted"
      BY <1>1, <3>1, EventFields
    <3> QED
      BY <3>2 DEF FinalMarkers
  <2> HIDE DEF e
  <2>3. TxOK' /\ tx'.op = tx.op /\ tx'.leaf = tx.leaf /\ tx'.pending = Append(tx.pending, e)
    BY <1>1, <2>1, <2>2, AppendProperties DEF TxOK, e
  <2> QED
    BY <1>1, <2>2, <2>3, RecordKeeps
<1>5. CASE RecordCompaction
  <2>1. PICK keep \in (1..MaxOperations) \X (0..MaxItems) :
            tx' = [tx EXCEPT !.pending = Append(@, Compacted(tx.op, keep)), !.done = TRUE]
    BY <1>5 DEF RecordCompaction
  <2> DEFINE e == Compacted(tx.op, keep)
  <2>2. e \in Events /\ e.op = tx.op /\ e.kind \notin FinalMarkers
    <3>1. keep \in Nat \X Nat /\ 0 \in Nat
      BY SessionAssumption
    <3>2. e \in Events /\ e.op = tx.op /\ e.kind = "compacted"
      BY SMTT(60), <1>1, <3>1, FlowFields
    <3> QED
      BY <3>2 DEF FinalMarkers
  <2> HIDE DEF e
  <2>3. TxOK' /\ tx'.op = tx.op /\ tx'.leaf = tx.leaf /\ tx'.pending = Append(tx.pending, e)
    BY <1>1, <2>1, <2>2, AppendProperties DEF TxOK, e
  <2> QED
    BY <1>1, <2>2, <2>3, RecordKeeps
<1>6. CASE RecordSummary
  <2>1. PICK source \in CommittedLeaves(log), target \in CommittedLeaves(log) :
            \E x \in {Diagnostic(tx.op), Summarized(tx.op, source, target)} :
                tx' = [tx EXCEPT !.done = TRUE, !.pending = Append(@, x)]
    BY <1>6 DEF RecordSummary
  <2>2. PICK e \in {Diagnostic(tx.op), Summarized(tx.op, source, target)} :
            tx' = [tx EXCEPT !.done = TRUE, !.pending = Append(@, e)]
    BY <2>1
  <2>3. \A leaf \in CommittedLeaves(log) : leaf \in Nat
    BY LeavesNat DEF SessionInv, TypeOK
  <2>4. /\ Diagnostic(tx.op) \in Events /\ Diagnostic(tx.op).op = tx.op
        /\ Diagnostic(tx.op).kind = "diagnostic"
    BY <1>1, EventFields
  <2>5. /\ Summarized(tx.op, source, target) \in Events
        /\ Summarized(tx.op, source, target).op = tx.op
        /\ Summarized(tx.op, source, target).kind = "summarized"
    <3>1. <<0, 0>> \in Nat \X Nat
      OBVIOUS
    <3> QED
      BY SMTT(60), <1>1, <2>3, <3>1, FlowFields
  <2>6. e \in Events /\ e.op = tx.op /\ e.kind \notin FinalMarkers
    BY <2>4, <2>5 DEF FinalMarkers
  <2>7. TxOK' /\ tx'.op = tx.op /\ tx'.leaf = tx.leaf /\ tx'.pending = Append(tx.pending, e)
    BY <1>1, <2>2, <2>6, AppendProperties DEF TxOK
  <2> QED
    BY <1>1, <2>6, <2>7, RecordKeeps
<1> QED
  BY <1>2, <1>3, <1>4, <1>5, <1>6

(* A commit that reached the log names its own leaf, which is now committed.  *)
LEMMA CommitKeeps == ASSUME SessionInv, Commit PROVE SessionInv'
<1>1. /\ RestOK /\ TxOK /\ pc = "open" /\ tx.op \in 1..MaxOperations /\ NewLeaf \in Nat
      /\ OwnEvents(CommitEvents)
  <2>1. RestOK /\ TxOK /\ pc = "open" /\ tx.op \in 1..MaxOperations /\ NewLeaf \in Nat
    BY SMTT(60), TypeParts, SessionAssumption DEF SessionInv, RestOK, TxOK, Commit, NewLeaf
  <2> QED
    BY <2>1, CommitOwn
<1>2. CASE FlushCut(CommitEvents) /\ agreed' = (agreed /\ NewLeaf = 0)
  BY <1>1, <1>2, CutKeeps
<1>3. CASE /\ AppendAll(CommitEvents)
           /\ pc' = "sealing"
           /\ tx' = [tx EXCEPT !.result = "committed", !.leaf = NewLeaf, !.pending = <<>>]
           /\ UNCHANGED <<manifest, handle, told, used, agreed>>
  <2>1. Grown /\ Extended(CommitEvents)
    BY <1>1, <1>3, OwnAppends
  <2>2. NewLeaf \in {0} \cup CommittedLeaves(log')
    <3> DEFINE events == CommitEvents
               n == Len(log) + Len(events)
    <3>1. /\ events \in Seq(Events) /\ Len(events) \in Nat /\ Len(events) >= 1
          /\ events[Len(events)] = Committed(tx.op, NewLeaf)
          /\ log \in Seq(Events) /\ Len(log) \in Nat
      <4>1. tx.pending \in Seq(Events) /\ log \in Seq(Events)
        BY DEF SessionInv, TypeOK
      <4> QED
        BY <1>1, <4>1, CommitOwn, LenProperties DEF OwnEvents
    <3>2. log' = log \o events
      BY <1>3 DEF AppendAll
    <3> HIDE DEF events
    <3>3. /\ Len(log') = n
          /\ \A i \in 1..n : log'[i] = IF i <= Len(log) THEN log[i] ELSE events[i - Len(log)]
      BY <3>1, <3>2, ConcatProperties
    <3>4. n \in 1..n /\ ~(n <= Len(log)) /\ n - Len(log) = Len(events)
      BY <3>1
    <3>5. log'[n] = Committed(tx.op, NewLeaf) /\ n \in DOMAIN log'
      BY <2>1, <3>1, <3>3, <3>4 DEF Extended
    <3>6. log'[n].kind = "committed" /\ log'[n].leaf = NewLeaf
      BY <1>1, <3>5, MarkerFields
    <3> HIDE DEF n
    <3> QED
      BY <3>5, <3>6 DEF CommittedLeaves
  <2>3. tx' \in [op : 0..MaxOperations, of : OperationKinds \cup {"none"}, pending : Seq(Events),
                 unsettled : SUBSET (1..MaxItems), done : BOOLEAN, leaf : Nat, result : Results]
        /\ tx'.op = tx.op /\ tx'.leaf = NewLeaf
    <3>1. <<>> \in Seq(Events) /\ "committed" \in Results
      BY DEF Results
    <3> QED
      BY <1>1, <1>3, <3>1 DEF TxOK
  <2>4. tail' \in {"clean", "open", "torn"} /\ faults' \in 0..MaxFaults
    BY <1>1, <1>3, StoreTypes
  <2>5. TypeOK'
    BY <1>1, <1>3, <2>1, <2>3, <2>4 DEF TypeOK, Grown, RestOK, Steps
  <2>6. ManifestLeafCommitted'
    BY <1>3, <2>1 DEF SessionInv, ManifestLeafCommitted, Grown
  <2>7. TxLeaf' /\ TxFresh' /\ RecoveredSettled'
    BY <1>3, <2>2, <2>3 DEF TxLeaf, TxFresh, RecoveredSettled
  <2> QED
    BY <2>1, <2>5, <2>6, <2>7 DEF SessionInv, Grown
<1> QED
  BY <1>2, <1>3 DEF Commit

(* fail and abort never make a leaf.                                          *)
LEMMA EndKeeps ==
    ASSUME SessionInv, NEW marker \in {"failed", "aborted"}, End(marker)
    PROVE  SessionInv'
<1> DEFINE events == EndEvents(marker)
<1>1. /\ RestOK /\ TxOK /\ pc = "open" /\ tx.op \in 1..MaxOperations
      /\ OwnEvents(events) /\ UNCHANGED agreed /\ agreed' \in BOOLEAN
  <2>1. RestOK /\ TxOK /\ pc = "open" /\ tx.op \in 1..MaxOperations
    BY TypeParts, SessionAssumption DEF SessionInv, RestOK, TxOK, End
  <2>2. UNCHANGED agreed
    BY DEF End
  <2> QED
    BY <2>1, <2>2, EndOwn DEF RestOK
<1>2. CASE FlushCut(events)
  <2> HIDE DEF events
  <2> QED
    BY <1>1, <1>2, CutKeeps
<1>3. CASE /\ AppendAll(events)
           /\ IF tx.of = "edit"
              THEN /\ pc' = "sealing"
                   /\ tx' = [tx EXCEPT !.result = marker, !.pending = <<>>]
                   /\ UNCHANGED told
              ELSE pc' = "idle" /\ Settle(marker)
           /\ UNCHANGED <<manifest, handle, used>>
  <2> HIDE DEF events
  <2>1. Grown
    BY <1>1, <1>3, OwnAppends
  <2>2. tail' \in {"clean", "open", "torn"} /\ faults' \in 0..MaxFaults
    BY <1>1, <1>3, StoreTypes
  <2>3. /\ manifest'.leaf \in {0} \cup CommittedLeaves(log')
        /\ handle' \in {0} \cup CommittedLeaves(log')
    BY <1>3, <2>1 DEF SessionInv, ManifestLeafCommitted, Grown
  <2>4. CASE pc' = "idle" /\ Settle(marker)
    <3>1. told' \in [1..MaxOperations -> Results]
      BY <1>1, <2>4 DEF Settle, RestOK, Results
    <3>2. RestOK'
      BY <1>1, <1>3, <2>2, <2>4, <3>1 DEF RestOK, Steps
    <3> QED
      BY <2>1, <2>3, <2>4, <3>2, AtRest DEF Settle
  <2>5. CASE /\ pc' = "sealing"
             /\ tx' = [tx EXCEPT !.result = marker, !.pending = <<>>]
             /\ UNCHANGED told
    <3>1. tx' \in [op : 0..MaxOperations, of : OperationKinds \cup {"none"},
                   pending : Seq(Events), unsettled : SUBSET (1..MaxItems), done : BOOLEAN,
                   leaf : Nat, result : Results]
          /\ tx'.op = tx.op /\ tx'.leaf = tx.leaf
      <4>1. <<>> \in Seq(Events) /\ marker \in Results
        BY DEF Results
      <4> QED
        BY <1>1, <2>5, <4>1 DEF TxOK
    <3>2. TypeOK'
      BY <1>1, <1>3, <2>1, <2>2, <2>5, <3>1 DEF TypeOK, Grown, RestOK, Steps
    <3>3. TxLeaf' /\ TxFresh' /\ RecoveredSettled'
      BY <2>5, <3>1, <1>1 DEF TxLeaf, TxFresh, RecoveredSettled, SessionInv
    <3> QED
      BY <2>1, <2>3, <3>2, <3>3 DEF SessionInv, Grown, ManifestLeafCommitted
  <2> QED
    BY <1>3, <2>4, <2>5
<1> QED
  BY <1>2, <1>3 DEF End

(* update_manifest after the append, succeeding, failing or cut by a crash.   *)
LEMMA SealKeeps == ASSUME SessionInv, Seal \/ SealFails \/ SealCrash PROVE SessionInv'
<1>1. /\ RestOK /\ TxOK /\ pc = "sealing" /\ tx.op \in 1..MaxOperations
      /\ UNCHANGED <<log, tail, used>>
  <2>1. RestOK /\ TxOK
    BY TypeParts DEF SessionInv
  <2>2. pc = "sealing" /\ UNCHANGED <<log, tail, used>>
    BY DEF Seal, SealFails, SealCrash
  <2> QED
    BY <2>1, <2>2, SessionAssumption DEF TxOK
<1>2. SealedLeaf \in {0} \cup CommittedLeaves(log) /\ SealedLeaf \in Nat
  BY <1>1 DEF SealedLeaf, SessionInv, ManifestLeafCommitted, TxLeaf, RestOK, TxOK
<1>3. agreed' \in BOOLEAN /\ pc' \in {"idle", "down"} /\ tx' = NoTx
      /\ handle' \in {handle, SealedLeaf}
  BY DEF Seal, SealFails, SealCrash, Settle
<1>4. told' \in [1..MaxOperations -> Results]
  BY <1>1 DEF Seal, SealFails, SealCrash, Settle, RestOK, TxOK, Results
<1>5. WriteManifest(SealedLeaf) \/ ManifestFails \/ ManifestCrash(SealedLeaf)
  BY DEF Seal, SealFails, SealCrash, ManifestCrash
<1> QED
  BY <1>1, <1>2, <1>3, <1>4, <1>5, ManifestStep

(* The other manifest writes, and the end of the process.                     *)
LEMMA OtherKeeps ==
    ASSUME SessionInv, OpenRecovered \/ Stop \/ SwitchSeal \/ SetProfile
    PROVE  SessionInv'
<1>1. RestOK /\ TxOK /\ used.ops \in Nat
  BY TypeParts, SessionAssumption DEF SessionInv, RestOK
<1>2. /\ manifest.leaf \in {0} \cup CommittedLeaves(log) /\ manifest.leaf \in Nat
      /\ handle \in {0} \cup CommittedLeaves(log)
  BY <1>1 DEF SessionInv, ManifestLeafCommitted, RestOK
<1>3. CASE Stop
  <2>1. Grown /\ CommittedLeaves(log') = CommittedLeaves(log)
    BY <1>1, <1>3, SameLog DEF Stop, disk
  <2>2. RestOK'
    BY <1>1, <1>3 DEF RestOK, Stop, disk, Steps
  <2> QED
    BY <1>2, <1>3, <2>1, <2>2, AtRest DEF Stop, disk
<1>4. CASE OpenRecovered
  <2>1. /\ UNCHANGED <<log, tail, used>> /\ agreed' \in BOOLEAN
        /\ told' \in [1..MaxOperations -> Results] /\ pc' \in {"idle", "down"}
        /\ tx' = tx /\ tx.op = 0 /\ handle' \in {handle, manifest.leaf}
        /\ WriteManifest(manifest.leaf) \/ ManifestCrash(manifest.leaf)
    BY <1>1, <1>4 DEF OpenRecovered, RestOK, TxOK
  <2> QED
    BY <1>2, <2>1, ManifestStep
<1>5. CASE SetProfile
  <2>1. /\ UNCHANGED <<log, tail, used>> /\ agreed' \in BOOLEAN
        /\ told' \in [1..MaxOperations -> Results] /\ pc' \in {"idle", "down"}
        /\ tx' = tx /\ tx.op = 0 /\ handle' \in {handle, manifest.leaf}
        /\ WriteManifest(manifest.leaf) \/ ManifestCrash(manifest.leaf)
    BY <1>1, <1>5 DEF SetProfile, RestOK, TxOK
  <2> QED
    BY <1>2, <2>1, ManifestStep
<1>6. CASE SwitchSeal
  <2>1. tx.leaf \in {0} \cup CommittedLeaves(log) /\ tx.leaf \in Nat
    BY <1>1, <1>6 DEF SwitchSeal, SessionInv, TxLeaf, TxOK
  <2>2. /\ UNCHANGED <<log, tail, used>> /\ agreed' \in BOOLEAN
        /\ told' \in [1..MaxOperations -> Results] /\ pc' \in {"idle", "down"}
        /\ tx' = NoTx /\ handle' \in {handle, tx.leaf}
        /\ WriteManifest(tx.leaf) \/ ManifestCrash(tx.leaf)
    BY <1>1, <1>6 DEF SwitchSeal, RestOK
  <2> QED
    BY <2>1, <2>2, ManifestStep
<1> QED
  BY <1>3, <1>4, <1>5, <1>6

(* switch_active_leaf goes only to leaves that the log committed.             *)
LEMMA SwitchKeeps ==
    ASSUME SessionInv, NEW leaf \in 1..MaxOperations, Switch(leaf)
    PROVE  SessionInv'
<1> DEFINE events == <<LeafChanged(leaf)>>
<1>1. /\ RestOK /\ TxOK /\ log \in Seq(Events) /\ used.ops \in Nat /\ leaf \in Nat
      /\ pc = "idle" /\ tx.op = 0 /\ leaf \in CommittedLeaves(log)
      /\ UNCHANGED <<manifest, handle, told>>
  BY SMTT(60), TypeParts, SessionAssumption DEF SessionInv, RestOK, TxOK, Switch
<1>2. /\ used' = [used EXCEPT !.switches = @ + 1] /\ used.switches < MaxSwitches
      /\ AppendAll(events) \/ AppendCut(events)
  BY DEF Switch
<1>3. used' \in [ops : 0..MaxOperations, switches : 0..MaxSwitches, forks : 0..MaxForks]
      /\ used'.ops = used.ops
  <2>1. used \in [ops : 0..MaxOperations, switches : 0..MaxSwitches, forks : 0..MaxForks]
    BY <1>1 DEF RestOK
  <2>2. used.switches + 1 \in 0..MaxSwitches
    BY <1>2, <2>1, SessionAssumption
  <2> QED
    BY <1>2, <2>1, <2>2
<1>4. /\ events \in Seq(Events) /\ Len(events) = 1
      /\ events[1].op = 0 /\ events[1].kind \notin FinalMarkers
  <2>1. /\ LeafChanged(leaf) \in Events /\ LeafChanged(leaf).op = 0
        /\ LeafChanged(leaf).kind = "leafChanged"
    BY <1>1, MarkerFields
  <2> QED
    BY <2>1 DEF FinalMarkers
<1> HIDE DEF events
<1>5. Extended(events)
  BY <1>1, <1>2, <1>4, StoreAppends, AppendsShape
<1>6. Grown
  BY <1>3, <1>4, <1>5, NeutralAppends
<1>7. tail' \in {"clean", "open", "torn"} /\ faults' \in 0..MaxFaults
  BY <1>1, <1>2, StoreTypes
<1>8. /\ manifest'.leaf \in {0} \cup CommittedLeaves(log')
      /\ handle' \in {0} \cup CommittedLeaves(log')
  BY <1>1, <1>6 DEF SessionInv, ManifestLeafCommitted, Grown
<1>9. CASE pc' \in {"idle", "down"} /\ UNCHANGED tx /\ agreed' = FALSE
  <2>1. RestOK'
    BY <1>1, <1>3, <1>7, <1>9 DEF RestOK, Steps
  <2> QED
    BY <1>1, <1>6, <1>8, <1>9, <2>1, AtRest
<1>10. CASE pc' = "switching" /\ tx' = [NoTx EXCEPT !.leaf = leaf] /\ UNCHANGED agreed
  <2>1. /\ tx' \in [op : 0..MaxOperations, of : OperationKinds \cup {"none"},
                    pending : Seq(Events), unsettled : SUBSET (1..MaxItems), done : BOOLEAN,
                    leaf : Nat, result : Results]
        /\ tx'.op = 0 /\ tx'.leaf = leaf
    BY <1>1, <1>10, NoTxOK DEF NoTx
  <2>2. TypeOK'
    <3>1. RestOK'
      BY <1>1, <1>3, <1>7, <1>10 DEF RestOK, Steps
    <3>2. TxOK'
      BY <1>10, <2>1 DEF TxOK
    <3> QED
      BY <1>6, <3>1, <3>2 DEF TypeOK, Grown, RestOK, TxOK
  <2>3. TxLeaf' /\ TxFresh' /\ RecoveredSettled'
    BY <1>1, <1>6, <1>10, <2>1 DEF TxLeaf, TxFresh, RecoveredSettled, Grown
  <2> QED
    BY <1>6, <1>8, <2>2, <2>3 DEF SessionInv, Grown, ManifestLeafCommitted
<1> QED
  BY <1>9, <1>10 DEF Switch

(* The process goes on with a copy, which has committed the leaf it names.    *)
LEMMA ForkKeeps ==
    ASSUME SessionInv, NEW leaf \in 1..MaxOperations, Fork(leaf)
    PROVE  SessionInv'
<1>1. /\ RestOK /\ TxOK /\ log \in Seq(Events) /\ used.ops \in Nat /\ leaf \in Nat
      /\ pc = "idle" /\ tx.op = 0 /\ leaf \in CommittedLeaves(log)
  BY SMTT(60), TypeParts, SessionAssumption DEF SessionInv, RestOK, TxOK, Fork
<1>2. /\ used' = [used EXCEPT !.forks = @ + 1] /\ used.forks < MaxForks
      /\ log' = CopiedEvents(log, leaf) /\ tail' = "clean"
      /\ manifest' = [leaf |-> leaf, ok |-> TRUE] /\ handle' = leaf /\ agreed' = TRUE
      /\ UNCHANGED <<faults, pc, tx>>
  BY DEF Fork
<1>3. used' \in [ops : 0..MaxOperations, switches : 0..MaxSwitches, forks : 0..MaxForks]
      /\ used'.ops = used.ops
  <2>1. used \in [ops : 0..MaxOperations, switches : 0..MaxSwitches, forks : 0..MaxForks]
    BY <1>1 DEF RestOK
  <2>2. used.forks + 1 \in 0..MaxForks
    BY <1>2, <2>1, SessionAssumption
  <2> QED
    BY <1>2, <2>1, <2>2
<1>4. log' \in Seq(Events) /\ leaf \in CommittedLeaves(log') /\ OneFinalMarker' /\ LogOps'
  BY <1>1, <1>2, <1>3, CopyKeeps DEF SessionInv
<1>5. told' \in [1..MaxOperations -> Results]
  <2>1. told \in [1..MaxOperations -> Results] /\ "none" \in Results
    BY <1>1 DEF RestOK, Results
  <2> QED
    BY <2>1 DEF Fork
<1>6. TypeOK'
  BY <1>1, <1>2, <1>3, <1>4, <1>5 DEF TypeOK, RestOK, TxOK
<1>7. ManifestLeafCommitted'
  BY <1>2, <1>4 DEF ManifestLeafCommitted
<1>8. TxLeaf' /\ TxFresh' /\ RecoveredSettled'
  BY <1>1, <1>2 DEF TxLeaf, TxFresh, RecoveredSettled
<1> QED
  BY <1>4, <1>6, <1>7, <1>8 DEF SessionInv

(***************************************************************************)
(* The theorems.                                                            *)
(***************************************************************************)
(* Every step of the session keeps the invariant.                             *)
LEMMA StepKeeps == ASSUME SessionInv, [Next]_vars PROVE SessionInv'
<1>1. CASE Create
  BY <1>1, CreateKeeps
<1>2. CASE Open
  BY <1>2, OpenKeeps
<1>3. CASE \E of \in Offered : Begin(of)
  BY <1>3, BeginKeeps
<1>4. CASE RecordInput \/ StartItem \/ CompleteItem \/ RecordCompaction \/ RecordSummary
  BY <1>4, RecordingKeeps
<1>5. CASE Commit
  BY <1>5, CommitKeeps
<1>6. CASE Fail \/ Abort
  BY <1>6, EndKeeps DEF Fail, Abort
<1>7. CASE Seal \/ SealFails \/ SealCrash
  BY <1>7, SealKeeps
<1>8. CASE OpenRecovered \/ Stop \/ SwitchSeal \/ SetProfile
  BY <1>8, OtherKeeps
<1>9. CASE \E leaf \in 1..MaxOperations : Switch(leaf)
  BY <1>9, SwitchKeeps
<1>10. CASE \E leaf \in 1..MaxOperations : Fork(leaf)
  BY <1>10, ForkKeeps
<1>11. CASE UNCHANGED vars
  BY <1>11 DEF vars, SessionInv, TypeOK, ManifestLeafCommitted, OneFinalMarker, LogOps,
               TxLeaf, TxFresh, RecoveredSettled
<1> QED
  BY <1>1, <1>2, <1>3, <1>4, <1>5, <1>6, <1>7, <1>8, <1>9, <1>10, <1>11 DEF Next

(* A session that is being created satisfies the invariant.                   *)
LEMMA InitKeeps == ASSUME Init PROVE SessionInv
<1>1. TypeOK
  <2>1. log \in Seq(Events) /\ Len(log) = 0
    BY DEF Init
  <2> QED
    BY <2>1, NoTxOK, SessionAssumption DEF Init, TypeOK, Steps, Results
<1>2. ManifestLeafCommitted
  BY DEF Init, ManifestLeafCommitted
<1>3. OneFinalMarker /\ LogOps
  BY DEF Init, OneFinalMarker, LogOps
<1>4. TxLeaf /\ TxFresh /\ RecoveredSettled
  BY DEF Init, TxLeaf, TxFresh, RecoveredSettled
<1> QED
  BY <1>1, <1>2, <1>3, <1>4 DEF SessionInv

(* The invariant holds of every state of a session.                           *)
THEOREM SessionCorrect == Spec => []SessionInv
<1>1. Init => SessionInv
  BY InitKeeps
<1>2. SessionInv /\ [Next]_vars => SessionInv'
  BY StepKeeps
<1> QED
  BY <1>1, <1>2, PTL DEF Spec

(* The variables of a session keep their types.                               *)
THEOREM SessionTyped == Spec => []TypeOK
<1>1. SessionInv => TypeOK
  BY DEF SessionInv
<1> QED
  BY <1>1, SessionCorrect, PTL

(* The leaf in session.json and the one in memory were committed by the log,  *)
(* through every failed write, crash, switch and fork.                        *)
THEOREM LeafCommitted == Spec => []ManifestLeafCommitted
<1>1. SessionInv => ManifestLeafCommitted
  BY DEF SessionInv
<1> QED
  BY <1>1, SessionCorrect, PTL

(* No operation is finalized twice, however often startup recovery is cut     *)
(* short and repeated.                                                        *)
THEOREM MarkedOnce == Spec => []OneFinalMarker
<1>1. SessionInv => OneFinalMarker
  BY DEF SessionInv
<1> QED
  BY <1>1, SessionCorrect, PTL

(* A process that opens a session starts with no operation in doubt.          *)
THEOREM OpenedSettled == Spec => OpenRecovers
<1>1. ASSUME SessionInv, Next, pc \in {"down", "recovering"}, pc' = "idle"
      PROVE  InDoubt(log') = {}
  <2>1. CASE pc = "down"
    <3>1. Open
      BY <1>1, <2>1
         DEF Next, Create, OpenRecovered, Stop, Begin, RecordInput, StartItem, CompleteItem,
             RecordCompaction, RecordSummary, Commit, Fail, Abort, End, Seal, SealFails,
             SealCrash, Switch, Fork, SwitchSeal, SetProfile
    <3> QED
      BY <1>1, <3>1 DEF Open
  <2>2. CASE pc = "recovering"
    <3>1. OpenRecovered
      BY <1>1, <2>2
         DEF Next, Create, Open, Stop, Begin, RecordInput, StartItem, CompleteItem,
             RecordCompaction, RecordSummary, Commit, Fail, Abort, End, Seal, SealFails,
             SealCrash, Switch, Fork, SwitchSeal, SetProfile
    <3> QED
      BY <1>1, <2>2, <3>1 DEF OpenRecovered, SessionInv, RecoveredSettled
  <2> QED
    BY <1>1, <2>1, <2>2
<1>2. SessionInv /\ [Next]_vars =>
        [(pc \in {"down", "recovering"} /\ pc' = "idle") => (InDoubt(log') = {})]_vars
  BY <1>1
<1> QED
  BY <1>2, SessionCorrect, PTL DEF Spec, OpenRecovers

(***************************************************************************)
(* What the log says of the operations and of the leaves.                   *)
(***************************************************************************)
Marked(l, op, kind) == \E m \in 1..Len(l) : l[m].op = op /\ l[m].kind = kind

\* The answers that say how an operation ended, and the marker of each.
Answers == {"committed", "partial", "aborted", "failed"}
Marker(result) == IF result = "partial" THEN "committed" ELSE result

ToldMarked(t, l) == \A op \in DOMAIN t : t[op] \in Answers => Marked(l, op, Marker(t[op]))

(* What a transaction has collected.                                          *)
Collected(of, pending, unsettled) ==
    /\ Len(pending) > 0 /\ Block(of, pending) /\ OnlyOpen(pending, unsettled)
    /\ of # "prompt" => unsettled = {}

(* A leaf that is appended and not yet in the manifest.                       *)
Pointing == pc = "switching" \/ (pc = "sealing" /\ tx.leaf # 0)

SealingMarked == pc = "sealing" => tx.result \in Ended /\ Marked(log, tx.op, tx.result)
OpenCollected == pc = "open" => Collected(tx.of, tx.pending, tx.unsettled)
LeafPointed == Pointing => Names(log, Len(log), tx.leaf)
LeafAgreed == agreed /\ ~Pointing => Names(log, Len(log), manifest.leaf)
HandleAgreed ==
    agreed /\ pc \in {"creating", "idle", "open", "sealing", "switching"} => handle = manifest.leaf

LogInv ==
    /\ Ordered(log)
    /\ ToldMarked(told, log)
    /\ SealingMarked
    /\ OpenCollected
    /\ LeafPointed
    /\ LeafAgreed
    /\ HandleAgreed

(***************************************************************************)
(* Events that fit.                                                         *)
(***************************************************************************)
LEMMA PlainFits ==
    ASSUME NEW e, e.op # 0, NEW of,
           e.kind \in {"started", "input", "diagnostic", "aborted", "failed", "recovered"}
    PROVE  EventOK(e) /\ Does(of, e) /\ ~Moves(e) /\ e.kind \notin {"itemStarted"} \cup Settling
BY DEF EventOK, Does, Moves, Settling, Outside

LEMMA ItemFits ==
    ASSUME NEW e, e.op # 0, NEW of, e.kind \in {"itemStarted"} \cup Settling, e.item[1] = e.op
    PROVE  EventOK(e) /\ Does(of, e) /\ ~Moves(e) /\ e.kind # "started"
BY DEF EventOK, Does, Moves, Settling, Outside

LEMMA FlowFits ==
    ASSUME NEW e, e.op # 0, NEW of,
           \/ e.kind = "compacted" /\ of = "compact"
           \/ e.kind = "summarized" /\ of = "summary"
           \/ e.kind = "committed" /\ e.leaf = 0
           \/ e.kind = "committed" /\ e.leaf = e.op /\ of = "prompt"
    PROVE  EventOK(e) /\ Does(of, e) /\ e.kind \notin {"started", "itemStarted"} \cup Settling
BY DEF EventOK, Does, Settling, Outside

(* The fields that say which item an event is about.                          *)
LEMMA ItemFields ==
    ASSUME NEW op \in Nat, NEW n \in Nat
    PROVE  /\ ItemStarted(<<op, n>>).item = <<op, n>>
           /\ ItemCompleted(<<op, n>>).item = <<op, n>>
           /\ ItemCancelled(<<op, n>>).item = <<op, n>>
           /\ Aborted(op).kind = "aborted" /\ Failed(op).kind = "failed"
           /\ LeafChanged(n).leaf = n
<1>1. ItemStarted(<<op, n>>).item = <<op, n>>
  BY DEF ItemStarted, Event
<1>2. ItemCompleted(<<op, n>>).item = <<op, n>>
  BY DEF ItemCompleted, Event
<1>3. ItemCancelled(<<op, n>>).item = <<op, n>>
  BY DEF ItemCancelled, Event
<1>4. Aborted(op).kind = "aborted" /\ Failed(op).kind = "failed"
  BY DEF Aborted, Failed, Event
<1>5. LeafChanged(n).leaf = n
  BY DEF LeafChanged, Event
<1> QED
  BY <1>1, <1>2, <1>3, <1>4, <1>5

LEMMA StartedOf == ASSUME NEW op, NEW of PROVE Started(op, of).of = of
BY DEF Started, Event

(***************************************************************************)
(* Steps that keep what the log says.                                       *)
(***************************************************************************)
LEMMA MarksStay ==
    ASSUME NEW l \in Seq(Events), NEW m \in Seq(Events), NEW es \in Seq(Events), Grew(l, m, es)
    PROVE  \A op, kind : Marked(l, op, kind) => Marked(m, op, kind)
<1>1. \A i \in 1..Len(l) : i \in 1..Len(m) /\ m[i] = l[i]
  BY GrewPlaces
<1> QED
  BY <1>1 DEF Marked

LEMMA ToldStep ==
    ASSUME NEW l, NEW m, NEW t, ToldMarked(t, l),
           \A op, kind : Marked(l, op, kind) => Marked(m, op, kind),
           NEW o, NEW result, result \in Answers => Marked(m, o, Marker(result))
    PROVE  ToldMarked(t, m) /\ ToldMarked([t EXCEPT ![o] = result], m)
<1> DEFINE u == [t EXCEPT ![o] = result]
<1>1. ToldMarked(t, m)
  BY DEF ToldMarked
<1>2. DOMAIN u = DOMAIN t /\ \A op \in DOMAIN t : u[op] = IF op = o THEN result ELSE t[op]
  OBVIOUS
<1> HIDE DEF u
<1>3. ToldMarked(u, m)
  BY <1>1, <1>2 DEF ToldMarked
<1> QED
  BY <1>1, <1>3 DEF u

LEMMA Unanswered ==
    /\ "error" \notin Answers /\ "none" \notin Answers
    /\ \A result \in Ended : result \in Answers /\ Marker(result) = result
    /\ \A result \in Answers : Marker(result) \in Ended
    /\ Marker("partial") = "committed"
    /\ Ended \subseteq FinalMarkers
BY DEF Answers, Marker, Ended, FinalMarkers

LEMMA ExtendedGrew == ASSUME NEW events, Extended(events) PROVE Grew(log, log', events)
BY DEF Extended, Grew

(* A step after which neither a transaction nor a switch is under way.        *)
LEMMA RestKeeps ==
    ASSUME Ordered(log'), ToldMarked(told', log'), pc' \in {"idle", "down", "recovering"},
           agreed' => Names(log', Len(log'), manifest'.leaf),
           agreed' /\ pc' = "idle" => handle' = manifest'.leaf
    PROVE  LogInv'
<1>1. ~Pointing'
  BY DEF Pointing
<1>2. SealingMarked' /\ OpenCollected'
  BY DEF SealingMarked, OpenCollected
<1>3. LeafPointed' /\ LeafAgreed' /\ HandleAgreed'
  BY <1>1 DEF LeafPointed, LeafAgreed, HandleAgreed
<1> QED
  BY <1>2, <1>3 DEF LogInv

(* The append that ends a transaction, whole or cut short.                    *)
LEMMA FlushOrdered ==
    ASSUME SessionInv, LogInv, pc = "open", NEW events, OwnEvents(events), Block(tx.of, events),
           OnlyOpen(events, {}), UNCHANGED used, AppendAll(events) \/ AppendCut(events)
    PROVE  /\ Ordered(log')
           /\ \A op, kind : Marked(log, op, kind) => Marked(log', op, kind)
           /\ (\A i \in 1..Len(events) : ~Moves(events[i])) =>
                 \A a : Names(log, Len(log), a) => Names(log', Len(log'), a)
<1>1. /\ log \in Seq(Events) /\ log' \in Seq(Events) /\ events \in Seq(Events)
      /\ Grew(log, log', events)
  <2>1. Extended(events)
    BY OwnAppends
  <2> QED
    BY <2>1, ExtendedGrew DEF SessionInv, TypeOK, OwnEvents, Extended
<1>2. tx.op # 0 /\ \A i \in 1..Len(log) : log[i].op # tx.op
  <2>1. DOMAIN log = 1..Len(log)
    BY <1>1, LenProperties
  <2> QED
    BY <2>1 DEF SessionInv, TypeOK, TxFresh
<1>3. \A i \in 1..Len(events) :
        events[i].op = tx.op /\ (events[i].kind \in Ended => i = Len(events) /\ OnlyOpen(events, {}))
  BY Unanswered DEF OwnEvents
<1>4. Ordered(log)
  BY DEF LogInv
<1>5. Ordered(log')
  BY ZenonT(60), <1>1, <1>2, <1>3, <1>4, OwnOrdered
<1>6. \A op, kind : Marked(log, op, kind) => Marked(log', op, kind)
  BY <1>1, MarksStay
<1>7. ASSUME NEW a, Names(log, Len(log), a), \A i \in 1..Len(events) : ~Moves(events[i])
      PROVE  Names(log', Len(log'), a)
  BY <1>1, <1>7, NamesGrow
<1> QED
  BY <1>5, <1>6, <1>7

(* An append that is cut short: the caller is told an error, or nothing.      *)
LEMMA CutLeaves ==
    ASSUME SessionInv, LogInv, pc = "open", NEW events, OwnEvents(events), Block(tx.of, events),
           OnlyOpen(events, {}), FlushCut(events),
           agreed' => agreed /\ \A i \in 1..Len(events) : ~Moves(events[i])
    PROVE  LogInv'
<1>1. /\ Ordered(log')
      /\ \A op, kind : Marked(log, op, kind) => Marked(log', op, kind)
      /\ (\A i \in 1..Len(events) : ~Moves(events[i])) =>
            \A a : Names(log, Len(log), a) => Names(log', Len(log'), a)
  BY FlushOrdered DEF FlushCut
<1>2. told' = told \/ told' = [told EXCEPT ![tx.op] = "error"]
  BY DEF FlushCut, Settle
<1>3. ToldMarked(told', log')
  <2>1. ToldMarked(told, log)
    BY DEF LogInv
  <2>2. ToldMarked(told, log') /\ ToldMarked([told EXCEPT ![tx.op] = "error"], log')
    BY <1>1, <2>1, Unanswered, ToldStep
  <2> QED
    BY <1>2, <2>2
<1>4. pc' \in {"idle", "down"} /\ manifest' = manifest /\ handle' = handle
  BY DEF FlushCut
<1>5. agreed' => Names(log', Len(log'), manifest'.leaf) /\ handle' = manifest'.leaf
  <2>1. ~Pointing
    BY DEF Pointing
  <2>2. agreed => Names(log, Len(log), manifest.leaf) /\ handle = manifest.leaf
    BY <2>1 DEF LogInv, LeafAgreed, HandleAgreed
  <2> QED
    BY <1>1, <1>4, <2>2
<1> QED
  BY <1>1, <1>3, <1>4, <1>5, RestKeeps

(* A step that only writes the manifest, at most.                             *)
LEMMA ManifestLeaves ==
    ASSUME manifest \in [leaf : Nat, ok : BOOLEAN], NEW leaf \in Nat
    PROVE  /\ WriteManifest(leaf) => manifest'.leaf = leaf
           /\ ManifestFails => manifest'.leaf = manifest.leaf
           /\ ManifestCrash(leaf) => manifest'.leaf \in {manifest.leaf, leaf}
BY DEF WriteManifest, ManifestFails, ManifestCrash

(* Between a begun append and its manifest write nothing else happens.        *)
LEMMA LeavesNow ==
    ASSUME LogInv, agreed
    PROVE  /\ ~Pointing => Names(log, Len(log), manifest.leaf)
           /\ pc \in {"creating", "idle", "open", "sealing", "switching"} => handle = manifest.leaf
BY DEF LogInv, LeafAgreed, HandleAgreed

LEMMA SameLogOrdered ==
    ASSUME LogInv, UNCHANGED <<log, told>>
    PROVE  Ordered(log') /\ ToldMarked(told', log')
BY DEF LogInv

LEMMA OtherLeaves ==
    ASSUME SessionInv, LogInv, OpenRecovered \/ Stop \/ SwitchSeal \/ SetProfile
    PROVE  LogInv'
<1>1. manifest \in [leaf : Nat, ok : BOOLEAN] /\ manifest.leaf \in Nat /\ tx.leaf \in Nat
  BY DEF SessionInv, TypeOK
<1>2. UNCHANGED <<log, told>> /\ Ordered(log') /\ ToldMarked(told', log')
  <2>1. UNCHANGED <<log, told>>
    BY DEF OpenRecovered, Stop, SwitchSeal, SetProfile, disk
  <2> QED
    BY <2>1, SameLogOrdered
<1>3. CASE Stop
  <2>1. pc' = "down" /\ ~Pointing /\ manifest' = manifest /\ agreed' = agreed
    BY <1>3 DEF Stop, disk, Pointing
  <2> QED
    BY <1>2, <2>1, LeavesNow, RestKeeps
<1>4. CASE OpenRecovered
  <2>1. ~Pointing /\ agreed' = agreed /\ pc' \in {"idle", "down"}
    BY <1>4 DEF OpenRecovered, Pointing
  <2>2. manifest'.leaf = manifest.leaf
    BY <1>1, <1>4, ManifestLeaves DEF OpenRecovered
  <2>3. pc' = "idle" => handle' = manifest.leaf
    BY <1>4 DEF OpenRecovered
  <2> QED
    BY <1>2, <2>1, <2>2, <2>3, LeavesNow, RestKeeps
<1>5. CASE SetProfile
  <2>1. pc = "idle" /\ ~Pointing /\ agreed' = agreed /\ pc' \in {"idle", "down"}
    BY <1>5 DEF SetProfile, Pointing
  <2>2. manifest'.leaf = manifest.leaf
    BY <1>1, <1>5, ManifestLeaves DEF SetProfile
  <2>3. handle' = manifest.leaf \/ handle' = handle
    BY <1>5 DEF SetProfile
  <2> QED
    BY <1>2, <2>1, <2>2, <2>3, LeavesNow, RestKeeps
<1>6. CASE SwitchSeal
  <2>1. pc' \in {"idle", "down"} /\ Names(log, Len(log), tx.leaf)
    BY <1>6 DEF SwitchSeal, LogInv, LeafPointed, Pointing
  <2>2. CASE WriteManifest(tx.leaf) /\ handle' = tx.leaf
    <3>1. manifest'.leaf = tx.leaf
      BY <1>1, <2>2, ManifestLeaves
    <3> QED
      BY <1>2, <2>1, <2>2, <3>1, RestKeeps
  <2>3. CASE agreed' = FALSE
    BY <1>2, <2>1, <2>3, RestKeeps
  <2> QED
    BY <1>6, <2>2, <2>3 DEF SwitchSeal
<1> QED
  BY <1>3, <1>4, <1>5, <1>6

LEMMA SealLeaves ==
    ASSUME SessionInv, LogInv, Seal \/ SealFails \/ SealCrash
    PROVE  LogInv'
<1>1. /\ manifest \in [leaf : Nat, ok : BOOLEAN] /\ SealedLeaf \in Nat /\ UNCHANGED log
      /\ pc = "sealing" /\ pc' \in {"idle", "down"} /\ Ordered(log')
  <2>1. manifest \in [leaf : Nat, ok : BOOLEAN] /\ SealedLeaf \in Nat
    BY DEF SessionInv, TypeOK, SealedLeaf
  <2>2. UNCHANGED log /\ pc = "sealing" /\ pc' \in {"idle", "down"}
    BY DEF Seal, SealFails, SealCrash
  <2> QED
    BY <2>1, <2>2 DEF LogInv
<1>2. ToldMarked(told', log')
  <2>1. ToldMarked(told, log) /\ tx.result \in Ended /\ Marked(log, tx.op, tx.result)
    BY <1>1 DEF LogInv, SealingMarked
  <2>2. PICK result : /\ told' = told \/ told' = [told EXCEPT ![tx.op] = result]
                      /\ \/ result = tx.result \/ result = "error"
                         \/ result = "partial" /\ tx.result = "committed"
    BY DEF Seal, SealFails, SealCrash, Settle
  <2>3. result \in Answers => Marked(log, tx.op, Marker(result))
    BY <2>1, <2>2, Unanswered
  <2>4. ToldMarked(told, log) /\ ToldMarked([told EXCEPT ![tx.op] = result], log)
    BY <2>1, <2>3, ToldStep
  <2> QED
    BY <1>1, <2>2, <2>4
<1>3. agreed \/ tx.leaf # 0 => Names(log, Len(log), SealedLeaf)
  <2>1. CASE tx.leaf # 0
    BY <1>1, <2>1 DEF SealedLeaf, LogInv, LeafPointed, Pointing
  <2>2. CASE tx.leaf = 0
    <3>1. ~Pointing /\ SealedLeaf = manifest.leaf
      BY <1>1, <2>2 DEF Pointing, SealedLeaf
    <3> QED
      BY <2>2, <3>1, LeavesNow
  <2> QED
    BY <2>1, <2>2
<1>4. CASE Seal
  <2>1. manifest'.leaf = SealedLeaf
    BY <1>1, <1>4, ManifestLeaves DEF Seal
  <2>2. handle' = SealedLeaf /\ agreed' = (agreed \/ tx.leaf # 0)
    BY <1>4 DEF Seal
  <2>3. agreed' => Names(log', Len(log'), manifest'.leaf)
    BY <1>1, <1>3, <2>1, <2>2
  <2> QED
    BY <1>1, <1>2, <2>1, <2>2, <2>3, RestKeeps
<1>5. CASE SealFails \/ SealCrash
  <2>1. manifest'.leaf \in {manifest.leaf, SealedLeaf}
    BY <1>1, <1>5, ManifestLeaves DEF SealFails, SealCrash
  <2>2. handle' = handle /\ agreed' = (agreed /\ tx.leaf = 0)
    BY <1>5 DEF SealFails, SealCrash
  <2>3. agreed' => manifest'.leaf = manifest.leaf /\ SealedLeaf = manifest.leaf /\ handle = manifest.leaf
    <3>1. tx.leaf = 0 => SealedLeaf = manifest.leaf
      BY DEF SealedLeaf
    <3> QED
      BY <1>1, <2>1, <2>2, <3>1, LeavesNow
  <2>4. agreed' => Names(log', Len(log'), manifest'.leaf)
    BY <1>1, <1>3, <2>2, <2>3
  <2> QED
    BY <1>1, <1>2, <2>2, <2>3, <2>4, RestKeeps
<1> QED
  BY <1>4, <1>5

(***************************************************************************)
(* Collecting events.                                                       *)
(***************************************************************************)
LEMMA StillOpen ==
    ASSUME LogInv, UNCHANGED <<log, told, manifest, handle, agreed>>, pc \in {"idle", "open"},
           pc' = "open", Collected(tx'.of, tx'.pending, tx'.unsettled)
    PROVE  LogInv'
<1>1. ~Pointing /\ ~Pointing'
  BY DEF Pointing
<1>2. Ordered(log') /\ ToldMarked(told', log')
  BY SameLogOrdered
<1>3. SealingMarked' /\ OpenCollected' /\ LeafPointed'
  BY <1>1 DEF SealingMarked, OpenCollected, LeafPointed
<1>4. LeafAgreed' /\ HandleAgreed'
  BY <1>1, LeavesNow DEF LeafAgreed, HandleAgreed
<1> QED
  BY <1>2, <1>3, <1>4 DEF LogInv

LEMMA BeginLeaves ==
    ASSUME SessionInv, LogInv, NEW of \in Offered, Begin(of)
    PROVE  LogInv'
<1> DEFINE op == used.ops + 1
           e == Started(op, of)
<1>1. op \in Nat /\ op # 0 /\ of \in OperationKinds
  <2>1. used.ops \in Nat
    BY SessionAssumption DEF SessionInv, TypeOK
  <2> QED
    BY <2>1, SessionAssumption
<1>2. /\ tx' = [NoTx EXCEPT !.op = op, !.of = of, !.pending = <<e>>]
      /\ pc = "idle" /\ pc' = "open" /\ UNCHANGED <<log, told, manifest, handle, agreed>>
  BY DEF Begin, disk
<1>3. tx'.of = of /\ tx'.pending = <<e>> /\ tx'.unsettled = {}
  BY <1>2 DEF NoTx
<1> HIDE DEF op
<1>4. e.op = op /\ e.kind = "started" /\ e.of = of
  BY <1>1, StartedFields, StartedOf
<1> HIDE DEF e
<1>5. EventOK(e) /\ Does(of, e)
  BY <1>1, <1>4, PlainFits
<1>6. Len(<<e>>) = 1 /\ <<e>>[1] = e
  OBVIOUS
<1>7. Block(of, <<e>>)
  BY <1>4, <1>5, <1>6 DEF Block
<1>8. OnlyOpen(<<e>>, {})
  BY <1>4, <1>6 DEF OnlyOpen
<1>9. Collected(of, <<e>>, {})
  BY <1>6, <1>7, <1>8 DEF Collected
<1> QED
  BY <1>2, <1>3, <1>9, StillOpen

(* The open messages and tool calls of a transaction are its own.             *)
LEMMA PendingItems ==
    ASSUME SessionInv, LogInv, pc = "open"
    PROVE  /\ tx.pending \in Seq(Events) /\ Len(tx.pending) \in Nat /\ Len(tx.pending) > 0
           /\ tx.op \in Nat /\ tx.op # 0 /\ tx.unsettled \in SUBSET Nat
           /\ Collected(tx.of, tx.pending, tx.unsettled)
           /\ \A i \in 1..Len(tx.pending) : tx.pending[i].kind = "itemStarted" =>
                 /\ tx.pending[i].item[2] \in Nat
                 /\ tx.pending[i].item = <<tx.op, tx.pending[i].item[2]>>
<1>1. /\ tx.pending \in Seq(Events) /\ tx.op \in Nat /\ tx.op # 0 /\ tx.unsettled \in SUBSET Nat
  BY SessionAssumption DEF SessionInv, TypeOK
<1>2. /\ Len(tx.pending) \in Nat /\ DOMAIN tx.pending = 1..Len(tx.pending)
      /\ \A i \in 1..Len(tx.pending) : tx.pending[i].item \in Nat \X Nat
  BY <1>1, LogFacts
<1>3. Collected(tx.of, tx.pending, tx.unsettled)
  BY DEF LogInv, OpenCollected
<1>4. Len(tx.pending) > 0
  BY <1>3 DEF Collected
<1>5. \A i \in 1..Len(tx.pending) : tx.pending[i].op = tx.op /\ EventOK(tx.pending[i])
  BY <1>2, <1>3 DEF SessionInv, TxFresh, Collected, Block
<1>6. \A id \in Nat \X Nat : id[2] \in Nat /\ id = <<id[1], id[2]>>
  OBVIOUS
<1>7. \A i \in 1..Len(tx.pending) : tx.pending[i].kind = "itemStarted" =>
        tx.pending[i].item[1] = tx.op
  BY <1>5 DEF EventOK
<1> QED
  BY <1>1, <1>2, <1>3, <1>4, <1>6, <1>7

LEMMA RecordLeaves ==
    ASSUME SessionInv, LogInv, pc = "open",
           UNCHANGED <<log, told, manifest, handle, agreed, pc>>, tx'.of = tx.of,
           NEW e \in Events, tx'.pending = Append(tx.pending, e),
           EventOK(e), Does(tx.of, e), e.kind # "started",
           \A i \in 1..Len(tx.pending) :
                tx.pending[i].kind = "itemStarted" /\ tx.pending[i].item[2] \in tx.unsettled =>
                    \/ tx.pending[i].item[2] \in tx'.unsettled
                    \/ e.kind \in Settling /\ e.item = tx.pending[i].item,
           e.kind = "itemStarted" => e.item[2] \in tx'.unsettled,
           tx.of # "prompt" => tx'.unsettled = {}
    PROVE  LogInv'
<1> DEFINE s == tx.pending
           new == tx'.unsettled
<1>1. s \in Seq(Events) /\ Len(s) \in Nat /\ Len(s) > 0 /\ Collected(tx.of, s, tx.unsettled)
  BY PendingItems
<1>2. <<e>> \in Seq(Events) /\ Len(<<e>>) = 1 /\ <<e>>[1] = e /\ s \o <<e>> = Append(s, e)
  BY <1>1, AppendIsConcat
<1>3. \A i \in 1..Len(<<e>>) :
        EventOK(<<e>>[i]) /\ Does(tx.of, <<e>>[i]) /\ <<e>>[i].kind # "started"
  BY <1>2
<1>4. \A i \in 1..Len(s) : s[i].kind = "itemStarted" /\ s[i].item[2] \in tx.unsettled =>
        \/ s[i].item[2] \in new
        \/ \E k \in 1..Len(<<e>>) : <<e>>[k].kind \in Settling /\ <<e>>[k].item = s[i].item
  BY <1>2
<1>5. \A i \in 1..Len(<<e>>) : <<e>>[i].kind = "itemStarted" => <<e>>[i].item[2] \in new
  BY <1>2
<1> HIDE DEF s, new
<1>6. Block(tx.of, s) /\ OnlyOpen(s, tx.unsettled)
  BY <1>1 DEF Collected
<1>7. Len(s \o <<e>>) = Len(s) + 1 /\ Block(tx.of, s \o <<e>>)
  BY <1>1, <1>2, <1>3, <1>6, BlockJoined
<1>8. OnlyOpen(s \o <<e>>, new)
  BY <1>1, <1>2, <1>4, <1>5, <1>6, OpenJoined
<1>9. Collected(tx.of, s \o <<e>>, new)
  BY <1>1, <1>7, <1>8 DEF Collected, new
<1>10. Collected(tx'.of, tx'.pending, tx'.unsettled)
  BY <1>2, <1>9 DEF s, new
<1> QED
  BY <1>10, StillOpen

LEMMA RecordingLeaves ==
    ASSUME SessionInv, LogInv,
           RecordInput \/ StartItem \/ CompleteItem \/ RecordCompaction \/ RecordSummary
    PROVE  LogInv'
<1>1. /\ pc = "open" /\ UNCHANGED <<log, told, manifest, handle, agreed, pc>>
      /\ tx \in [op : 0..MaxOperations, of : OperationKinds \cup {"none"}, pending : Seq(Events),
                 unsettled : SUBSET (1..MaxItems), done : BOOLEAN, leaf : Nat, result : Results]
  BY DEF RecordInput, Record, StartItem, CompleteItem, RecordCompaction, RecordSummary, disk,
         SessionInv, TypeOK
<1>2. /\ tx.pending \in Seq(Events) /\ tx.op \in Nat /\ tx.op # 0 /\ tx.unsettled \in SUBSET Nat
      /\ tx.of # "prompt" => tx.unsettled = {}
      /\ \A i \in 1..Len(tx.pending) : tx.pending[i].kind = "itemStarted" =>
            tx.pending[i].item = <<tx.op, tx.pending[i].item[2]>>
  BY <1>1, PendingItems DEF Collected
<1>3. ASSUME NEW e \in Events, e.op = tx.op, EventOK(e), Does(tx.of, e),
             e.kind \notin {"started", "itemStarted"} \cup Settling,
             tx'.pending = Append(tx.pending, e), tx'.of = tx.of, tx'.unsettled = tx.unsettled
      PROVE  LogInv'
  BY <1>1, <1>2, <1>3, RecordLeaves
<1>4. CASE RecordInput
  <2> DEFINE e == Input(tx.op)
  <2>1. e \in Events /\ e.op = tx.op /\ e.kind = "input"
    BY <1>2, EventFields
  <2>2. tx' = [tx EXCEPT !.pending = Append(@, e)]
    <3>1. tx.pending \o <<e>> = Append(tx.pending, e)
      BY <1>2, <2>1, AppendIsConcat
    <3> QED
      BY <1>4, <3>1 DEF RecordInput, Record
  <2> HIDE DEF e
  <2>3. tx'.pending = Append(tx.pending, e) /\ tx'.of = tx.of /\ tx'.unsettled = tx.unsettled
    BY <1>1, <2>2
  <2>4. EventOK(e) /\ Does(tx.of, e) /\ e.kind \notin {"started", "itemStarted"} \cup Settling
    BY <1>2, <2>1, PlainFits
  <2> QED
    BY <1>3, <2>1, <2>3, <2>4
<1>5. CASE StartItem
  <2> DEFINE n == Cardinality(Items) + 1
             e == ItemStarted(<<tx.op, n>>)
  <2>1. n \in Nat
    <3>1. Items \in SUBSET (1..Len(tx.pending)) /\ Len(tx.pending) \in Nat
      BY <1>2, LenProperties DEF Items
    <3>2. IsFiniteSet(1..Len(tx.pending))
      BY <3>1, FS_Interval
    <3>3. IsFiniteSet(Items)
      BY <3>1, <3>2, FS_Subset
    <3> QED
      BY <3>3, FS_CardinalityType
  <2>2. tx' = [tx EXCEPT !.pending = Append(@, e), !.unsettled = @ \cup {n}] /\ tx.of = "prompt"
    BY <1>5 DEF StartItem
  <2> HIDE DEF n
  <2>3. e \in Events /\ e.op = tx.op /\ e.kind = "itemStarted" /\ e.item = <<tx.op, n>>
    BY <1>2, <2>1, EventFields, ItemFields
  <2> HIDE DEF e
  <2>4. tx'.pending = Append(tx.pending, e) /\ tx'.of = tx.of /\ tx'.unsettled = tx.unsettled \cup {n}
    BY <1>1, <2>2
  <2>5. EventOK(e) /\ Does(tx.of, e)
    BY <1>2, <2>3, ItemFits
  <2> QED
    BY <1>1, <2>2, <2>3, <2>4, <2>5, RecordLeaves
<1>6. CASE CompleteItem
  <2>1. PICK n \in tx.unsettled :
            tx' = [tx EXCEPT !.pending = Append(@, ItemCompleted(<<tx.op, n>>)), !.unsettled = @ \ {n}]
    BY <1>6 DEF CompleteItem
  <2> DEFINE e == ItemCompleted(<<tx.op, n>>)
  <2>2. n \in Nat /\ tx.of = "prompt"
    BY <1>2, <2>1
  <2>3. e \in Events /\ e.op = tx.op /\ e.kind = "itemCompleted" /\ e.item = <<tx.op, n>>
    BY <1>2, <2>2, EventFields, ItemFields
  <2>4. tx' = [tx EXCEPT !.pending = Append(@, e), !.unsettled = @ \ {n}]
    BY <2>1
  <2> HIDE DEF e
  <2>5. tx'.pending = Append(tx.pending, e) /\ tx'.of = tx.of /\ tx'.unsettled = tx.unsettled \ {n}
    BY <1>1, <2>4
  <2>6. EventOK(e) /\ Does(tx.of, e)
    BY <1>2, <2>3, ItemFits DEF Settling
  <2>7. \A i \in 1..Len(tx.pending) :
            tx.pending[i].kind = "itemStarted" /\ tx.pending[i].item[2] \in tx.unsettled =>
                \/ tx.pending[i].item[2] \in tx'.unsettled
                \/ e.kind \in Settling /\ e.item = tx.pending[i].item
    BY <1>2, <2>3, <2>5 DEF Settling
  <2> QED
    BY <1>1, <2>2, <2>3, <2>5, <2>6, <2>7, RecordLeaves
<1>7. CASE RecordCompaction
  <2>1. PICK keep \in (1..MaxOperations) \X (0..MaxItems) :
            tx' = [tx EXCEPT !.pending = Append(@, Compacted(tx.op, keep)), !.done = TRUE]
    BY <1>7 DEF RecordCompaction
  <2> DEFINE e == Compacted(tx.op, keep)
  <2>2. e \in Events /\ e.op = tx.op /\ e.kind = "compacted" /\ tx.of = "compact"
    <3>1. keep \in Nat \X Nat /\ 0 \in Nat
      BY SessionAssumption
    <3>2. e \in Events /\ e.op = tx.op /\ e.kind = "compacted"
      BY <1>2, <3>1, FlowFields
    <3> QED
      BY <1>7, <3>2 DEF RecordCompaction
  <2>3. tx' = [tx EXCEPT !.pending = Append(@, e), !.done = TRUE]
    BY <2>1
  <2> HIDE DEF e
  <2>4. tx'.pending = Append(tx.pending, e) /\ tx'.of = tx.of /\ tx'.unsettled = tx.unsettled
    BY <1>1, <2>3
  <2>5. EventOK(e) /\ Does(tx.of, e) /\ e.kind \notin {"started", "itemStarted"} \cup Settling
    BY <1>2, <2>2, FlowFits
  <2> QED
    BY <1>3, <2>2, <2>4, <2>5
<1>8. CASE RecordSummary
  <2>1. PICK source \in CommittedLeaves(log), target \in CommittedLeaves(log) :
            \E x \in {Diagnostic(tx.op), Summarized(tx.op, source, target)} :
                tx' = [tx EXCEPT !.done = TRUE, !.pending = Append(@, x)]
    BY <1>8 DEF RecordSummary
  <2>2. PICK e \in {Diagnostic(tx.op), Summarized(tx.op, source, target)} :
            tx' = [tx EXCEPT !.done = TRUE, !.pending = Append(@, e)]
    BY <2>1
  <2>3. source \in Nat /\ target \in Nat /\ <<0, 0>> \in Nat \X Nat /\ tx.of = "summary"
    BY <1>8, LeavesNat DEF SessionInv, TypeOK, RecordSummary
  <2>4. /\ Diagnostic(tx.op) \in Events /\ Diagnostic(tx.op).op = tx.op
        /\ Diagnostic(tx.op).kind = "diagnostic"
    BY <1>2, EventFields
  <2>5. /\ Summarized(tx.op, source, target) \in Events
        /\ Summarized(tx.op, source, target).op = tx.op
        /\ Summarized(tx.op, source, target).kind = "summarized"
    BY SMTT(60), <1>2, <2>3, FlowFields
  <2>6. e \in Events /\ e.op = tx.op /\ e.kind \in {"diagnostic", "summarized"}
    BY <2>4, <2>5
  <2>7. tx'.pending = Append(tx.pending, e) /\ tx'.of = tx.of /\ tx'.unsettled = tx.unsettled
    BY <1>1, <2>2
  <2>8. EventOK(e) /\ Does(tx.of, e) /\ e.kind \notin {"started", "itemStarted"} \cup Settling
    BY <1>2, <2>3, <2>6, PlainFits, FlowFits
  <2> QED
    BY <1>3, <2>6, <2>7, <2>8
<1> QED
  BY <1>4, <1>5, <1>6, <1>7, <1>8

(***************************************************************************)
(* Appends outside of transactions.                                         *)
(***************************************************************************)
LEMMA OutsideOrdered ==
    ASSUME SessionInv, LogInv, NEW e \in Events, e.op = 0, e.kind \in {"created", "leafChanged"},
           e.kind = "leafChanged" => e.leaf \in CommittedLeaves(log),
           AppendAll(<<e>>) \/ AppendCut(<<e>>)
    PROVE  /\ log \in Seq(Events) /\ log' \in Seq(Events) /\ <<e>> \in Seq(Events)
           /\ Grew(log, log', <<e>>) /\ Ordered(log')
           /\ UNCHANGED told => ToldMarked(told', log')
<1>1. log \in Seq(Events) /\ <<e>> \in Seq(Events) /\ Len(<<e>>) = 1 /\ <<e>>[1] = e
  BY DEF SessionInv, TypeOK
<1>2. log' \in Seq(Events) /\ Grew(log, log', <<e>>)
  <2>1. Extended(<<e>>)
    BY <1>1, StoreAppends, AppendsShape
  <2> QED
    BY <2>1, ExtendedGrew DEF Extended
<1>3. Ordered(log) /\ ToldMarked(told, log)
  BY DEF LogInv
<1>4. EventOK(e) /\ e.kind \notin {"started", "itemStarted", "summarized", "compacted"} \cup Ended
  BY DEF EventOK, Outside, Settling, Ended
<1>5. \A c \in 1..Len(log) : log[c].kind \in Ended => log[c].op # e.op
  BY <1>3 DEF Ordered, EventsOK, EventOK, Outside, Ended
<1>6. e.kind = "leafChanged" =>
        e.leaf # 0 /\ \E c \in 1..Len(log) : log[c].kind = "committed" /\ log[c].leaf = e.leaf
  <2>1. DOMAIN log = 1..Len(log)
    BY <1>1, LenProperties
  <2> QED
    BY <2>1 DEF CommittedLeaves
<1> DEFINE es == <<e>>
<1>7. /\ es \in Seq(Events) /\ Grew(log, log', es)
      /\ \A i \in 1..Len(es) : es[i] = e
  BY <1>1, <1>2
<1> HIDE DEF es
<1>8. Ordered(log')
  <2>1. \A i \in 1..Len(es) :
          /\ EventOK(es[i])
          /\ es[i].kind \notin {"started", "itemStarted", "summarized", "compacted"} \cup Ended
          /\ es[i].op # 0 => \E s \in 1..Len(log) : log[s].kind = "started" /\ log[s].op = es[i].op
          /\ \A c \in 1..Len(log) : log[c].kind \in Ended => log[c].op # es[i].op
          /\ es[i].kind = "leafChanged" =>
                /\ es[i].leaf # 0
                /\ \E c \in 1..Len(log) : log[c].kind = "committed" /\ log[c].leaf = es[i].leaf
    BY <1>4, <1>5, <1>6, <1>7
  <2> QED
    BY <1>1, <1>2, <1>3, <1>7, <2>1, AddedOrdered
<1>9. ToldMarked(told, log')
  BY <1>1, <1>2, <1>3, MarksStay DEF ToldMarked
<1> QED
  BY <1>1, <1>2, <1>8, <1>9

LEMMA CreateLeaves == ASSUME SessionInv, LogInv, Create PROVE LogInv'
<1> DEFINE e == Event("created", 0)
<1>1. e \in Events /\ e.op = 0 /\ e.kind = "created"
  <2>1. 0 \in Nat
    OBVIOUS
  <2> QED
    BY <2>1, MarkerFields
<1>2. /\ AppendAll(<<e>>) \/ AppendCut(<<e>>)
      /\ pc = "creating" /\ pc' \in {"idle", "down"} /\ UNCHANGED <<manifest, handle, told, agreed>>
  BY DEF Create
<1> HIDE DEF e
<1>3. /\ log \in Seq(Events) /\ log' \in Seq(Events) /\ <<e>> \in Seq(Events)
      /\ Grew(log, log', <<e>>) /\ Ordered(log') /\ ToldMarked(told', log')
  BY <1>1, <1>2, OutsideOrdered
<1>4. ~Pointing /\ \A i \in 1..Len(<<e>>) : ~Moves(<<e>>[i])
  BY <1>1, <1>2 DEF Pointing, Moves
<1>5. agreed => Names(log', Len(log'), manifest.leaf) /\ handle = manifest.leaf
  BY <1>2, <1>3, <1>4, LeavesNow, NamesGrow
<1> QED
  BY <1>2, <1>3, <1>5, RestKeeps

(* The last event of an append that succeeded.                                *)
LEMMA LastAppended ==
    ASSUME log \in Seq(Events), NEW events \in Seq(Events), Len(events) > 0, AppendAll(events)
    PROVE  /\ log' \in Seq(Events) /\ Len(log') \in Nat /\ Len(log') > 0
           /\ log'[Len(log')] = events[Len(events)]
<1>1. Len(events) \in Nat /\ Len(log) \in Nat /\ log' = log \o events
  BY LenProperties DEF AppendAll
<1>2. /\ log' \in Seq(Events) /\ Len(log') = Len(log) + Len(events)
      /\ \A i \in 1..(Len(log) + Len(events)) :
            log'[i] = IF i <= Len(log) THEN log[i] ELSE events[i - Len(log)]
  BY <1>1, ConcatProperties
<1>3. /\ Len(log) + Len(events) \in 1..(Len(log) + Len(events))
      /\ ~(Len(log) + Len(events) <= Len(log))
      /\ (Len(log) + Len(events)) - Len(log) = Len(events)
  BY <1>1
<1> QED
  BY <1>1, <1>2, <1>3

(* The step from an append that succeeded to the manifest write.              *)
LEMMA SealingKeeps ==
    ASSUME LogInv, Ordered(log'), ToldMarked(told', log'), pc \in {"idle", "open"},
           pc' \in {"sealing", "switching"}, UNCHANGED <<manifest, handle, agreed>>,
           pc' = "sealing" => tx'.result \in Ended /\ Marked(log', tx'.op, tx'.result),
           pc' = "switching" \/ tx'.leaf # 0 => Names(log', Len(log'), tx'.leaf),
           pc' = "sealing" /\ tx'.leaf = 0 =>
                \A a : Names(log, Len(log), a) => Names(log', Len(log'), a)
    PROVE  LogInv'
<1>1. ~Pointing
  BY DEF Pointing
<1>2. SealingMarked' /\ OpenCollected'
  BY DEF SealingMarked, OpenCollected
<1>3. LeafPointed' /\ LeafAgreed' /\ HandleAgreed'
  BY <1>1, LeavesNow DEF LeafPointed, LeafAgreed, HandleAgreed, Pointing
<1> QED
  BY <1>2, <1>3 DEF LogInv

LEMMA SwitchLeaves ==
    ASSUME SessionInv, LogInv, NEW leaf \in 1..MaxOperations, Switch(leaf)
    PROVE  LogInv'
<1> DEFINE e == LeafChanged(leaf)
<1>1. e \in Events /\ e.op = 0 /\ e.kind = "leafChanged" /\ e.leaf = leaf
  <2>1. leaf \in Nat /\ 0 \in Nat
    BY SessionAssumption
  <2> QED
    BY ZenonT(60), <2>1, MarkerFields, ItemFields
<1>2. pc = "idle" /\ leaf \in CommittedLeaves(log) /\ UNCHANGED <<manifest, handle, told>>
  BY DEF Switch
<1>3. AppendAll(<<e>>) \/ AppendCut(<<e>>)
  BY DEF Switch
<1>4. \/ AppendAll(<<e>>) /\ pc' = "switching" /\ tx' = [NoTx EXCEPT !.leaf = leaf] /\ UNCHANGED agreed
      \/ pc' \in {"idle", "down"} /\ agreed' = FALSE
  BY DEF Switch
<1> HIDE DEF e
<1>5. log \in Seq(Events) /\ <<e>> \in Seq(Events) /\ Ordered(log') /\ ToldMarked(told', log')
  BY <1>1, <1>2, <1>3, OutsideOrdered
<1>6. CASE AppendAll(<<e>>) /\ pc' = "switching" /\ tx' = [NoTx EXCEPT !.leaf = leaf] /\ UNCHANGED agreed
  <2>1. Len(<<e>>) = 1 /\ <<e>>[1] = e /\ Moves(e)
    BY <1>1 DEF Moves
  <2>2. Len(log') \in Nat /\ Len(log') > 0 /\ log'[Len(log')] = e
    <3> DEFINE es == <<e>>
    <3>1. es \in Seq(Events) /\ Len(es) = 1 /\ es[Len(es)] = e /\ AppendAll(es)
      BY <1>5, <1>6, <2>1
    <3> HIDE DEF es
    <3>2. Len(es) > 0
      BY <3>1
    <3> QED
      BY <1>5, <3>1, <3>2, LastAppended
  <2>3. Names(log', Len(log'), leaf)
    BY <1>1, <2>1, <2>2, NamesLast
  <2>4. tx'.leaf = leaf
    BY <1>6 DEF NoTx
  <2> QED
    BY <1>2, <1>5, <1>6, <2>3, <2>4, SealingKeeps
<1>7. CASE pc' \in {"idle", "down"} /\ agreed' = FALSE
  BY <1>5, <1>7, RestKeeps
<1> QED
  BY <1>4, <1>6, <1>7

LEMMA OpenLeaves == ASSUME SessionInv, LogInv, Open PROVE LogInv'
<1> DEFINE es == RecoveryMarkers
<1>1. /\ pc = "down" /\ ~Pointing /\ UNCHANGED <<manifest, told, agreed>>
      /\ \/ pc' = "idle" /\ handle' = manifest.leaf /\ UNCHANGED log
         \/ (AppendAll(es) \/ AppendCut(es)) /\ pc' \in {"recovering", "down"}
  BY DEF Open, Pointing
<1>2. CASE pc' = "idle" /\ handle' = manifest.leaf /\ UNCHANGED log
  BY <1>1, <1>2, SameLogOrdered, LeavesNow, RestKeeps
<1>3. CASE (AppendAll(es) \/ AppendCut(es)) /\ pc' \in {"recovering", "down"}
  <2>1. /\ log \in Seq(Events) /\ es \in Seq(Events) /\ DOMAIN log = 1..Len(log)
        /\ \A i \in 1..Len(es) : es[i].kind = "recovered" /\ es[i].op \in InDoubt(log)
    BY MarkersOfDoubt, LenProperties DEF SessionInv, TypeOK
  <2> HIDE DEF es
  <2>2. log' \in Seq(Events) /\ Grew(log, log', es)
    <3>1. Extended(es)
      BY <1>3, <2>1, StoreAppends, AppendsShape
    <3> QED
      BY <3>1, ExtendedGrew DEF Extended
  <2>3. Ordered(log) /\ ToldMarked(told, log)
    BY DEF LogInv
  <2>4. ASSUME NEW op \in InDoubt(log)
        PROVE  /\ op # 0 /\ \E s \in 1..Len(log) : log[s].kind = "started" /\ log[s].op = op
               /\ \A c \in 1..Len(log) : log[c].kind \in Ended => log[c].op # op
    <3>1. PICK s \in 1..Len(log) : log[s].kind = "started" /\ log[s].op = op
      BY <2>1, <2>4 DEF InDoubt
    <3>2. op # 0
      BY <2>3, <3>1 DEF Ordered, EventsOK, EventOK, Outside
    <3>3. \A c \in 1..Len(log) : log[c].kind \in Ended => log[c].op # op
      BY <2>1, <2>4, Unanswered DEF InDoubt, Finalized
    <3> QED
      BY <3>1, <3>2, <3>3
  <2>5. \A i \in 1..Len(es) : EventOK(es[i]) /\ ~Moves(es[i])
    BY <2>1, <2>4, PlainFits
  <2>6. \A i \in 1..Len(es) :
          /\ EventOK(es[i])
          /\ es[i].kind \notin {"started", "itemStarted", "summarized", "compacted"} \cup Ended
          /\ es[i].op # 0 => \E s \in 1..Len(log) : log[s].kind = "started" /\ log[s].op = es[i].op
          /\ \A c \in 1..Len(log) : log[c].kind \in Ended => log[c].op # es[i].op
          /\ es[i].kind = "leafChanged" =>
                /\ es[i].leaf # 0
                /\ \E c \in 1..Len(log) : log[c].kind = "committed" /\ log[c].leaf = es[i].leaf
    <3> SUFFICES ASSUME NEW i \in 1..Len(es)
                 PROVE  /\ EventOK(es[i])
                        /\ es[i].kind \notin {"started", "itemStarted", "summarized", "compacted"} \cup Ended
                        /\ es[i].op # 0 =>
                              \E s \in 1..Len(log) : log[s].kind = "started" /\ log[s].op = es[i].op
                        /\ \A c \in 1..Len(log) : log[c].kind \in Ended => log[c].op # es[i].op
                        /\ es[i].kind # "leafChanged"
      OBVIOUS
    <3>1. es[i].kind = "recovered" /\ es[i].op \in InDoubt(log)
      BY <2>1
    <3> QED
      BY <2>4, <2>5, <3>1 DEF Ended
  <2>7. Ordered(log')
    BY <2>1, <2>2, <2>3, <2>6, AddedOrdered
  <2>8. ToldMarked(told', log')
    BY <1>1, <2>1, <2>2, <2>3, MarksStay DEF ToldMarked
  <2>9. agreed => Names(log', Len(log'), manifest.leaf)
    BY <1>1, <2>1, <2>2, <2>5, LeavesNow, NamesGrow
  <2> QED
    BY <1>1, <1>3, <2>7, <2>8, <2>9, RestKeeps
<1> QED
  BY <1>1, <1>2, <1>3

(***************************************************************************)
(* Ending a transaction.                                                    *)
(***************************************************************************)
(* What a transaction has collected moves no leaf.                            *)
LEMMA PendingStill ==
    ASSUME SessionInv, LogInv, pc = "open"
    PROVE  \A i \in 1..Len(tx.pending) : ~Moves(tx.pending[i])
<1>1. /\ DOMAIN tx.pending = 1..Len(tx.pending) /\ tx.op # 0
      /\ Block(tx.of, tx.pending)
  BY PendingItems, LenProperties DEF Collected
<1>2. \A i \in 1..Len(tx.pending) :
        tx.pending[i].op # 0 /\ tx.pending[i].kind \notin FinalMarkers /\ EventOK(tx.pending[i])
  BY <1>1 DEF SessionInv, TxFresh, Block
<1> QED
  BY <1>2 DEF EventOK, Outside, Moves, FinalMarkers

LEMMA CommitBlock ==
    ASSUME SessionInv, LogInv, pc = "open", Complete
    PROVE  /\ OwnEvents(CommitEvents) /\ Block(tx.of, CommitEvents) /\ OnlyOpen(CommitEvents, {})
           /\ CommitEvents \in Seq(Events) /\ Len(CommitEvents) \in Nat /\ Len(CommitEvents) > 0
           /\ CommitEvents[Len(CommitEvents)].op = tx.op
           /\ CommitEvents[Len(CommitEvents)].kind = "committed"
           /\ CommitEvents[Len(CommitEvents)].leaf = NewLeaf
           /\ NewLeaf = 0 => \A i \in 1..Len(CommitEvents) : ~Moves(CommitEvents[i])
<1> DEFINE c == Committed(tx.op, NewLeaf)
           s == tx.pending
<1>1. /\ s \in Seq(Events) /\ Len(s) \in Nat /\ Len(s) > 0 /\ tx.op \in Nat /\ tx.op # 0
      /\ Block(tx.of, s) /\ OnlyOpen(s, tx.unsettled)
      /\ tx.of # "prompt" => tx.unsettled = {}
      /\ \A i \in 1..Len(s) : ~Moves(s[i])
  BY PendingItems, PendingStill DEF Collected
<1>2. tx.unsettled = {}
  BY <1>1 DEF Complete
<1>3. NewLeaf \in Nat /\ (NewLeaf # 0 => NewLeaf = tx.op /\ tx.of = "prompt")
  BY <1>1 DEF NewLeaf
<1>4. /\ c \in Events /\ c.op = tx.op /\ c.kind = "committed" /\ c.leaf = NewLeaf
  BY <1>1, <1>3, MarkerFields
<1> HIDE DEF c
<1>5. /\ EventOK(c) /\ Does(tx.of, c) /\ c.kind \notin {"started", "itemStarted"} \cup Settling
  BY <1>1, <1>3, <1>4, FlowFits
<1>6. CommitEvents = s \o <<c>> /\ <<c>> \in Seq(Events) /\ Len(<<c>>) = 1 /\ <<c>>[1] = c
  <2>1. Append(s, c) = s \o <<c>>
    BY <1>1, <1>4, AppendIsConcat
  <2> QED
    BY <1>4, <2>1 DEF CommitEvents, c, s
<1> HIDE DEF s
<1> DEFINE u == <<c>>
<1>7. /\ u \in Seq(Events) /\ Len(u) = 1 /\ CommitEvents = s \o u
      /\ \A i \in 1..Len(u) : u[i] = c
  BY <1>6
<1> HIDE DEF u
<1>8. s \o u \in Seq(Events) /\ Block(tx.of, s \o u)
  <2>1. \A i \in 1..Len(u) : EventOK(u[i]) /\ Does(tx.of, u[i]) /\ u[i].kind # "started"
    BY <1>5, <1>7
  <2> QED
    BY <1>1, <1>7, <2>1, BlockJoined
<1>9. OnlyOpen(s \o u, {})
  <2>1. \A i \in 1..Len(u) : u[i].kind # "itemStarted"
    BY <1>5, <1>7
  <2> QED
    BY <1>1, <1>2, <1>7, <2>1, OpenJoined
<1>10. /\ OwnEvents(CommitEvents) /\ Len(CommitEvents) = Len(s) + 1
       /\ CommitEvents[Len(CommitEvents)] = c
  BY CommitOwn DEF c, s
<1>11. \A i \in 1..Len(s) : CommitEvents[i] = s[i]
  BY <1>1, <1>4, AppendProperties DEF CommitEvents, c, s
<1>12. ASSUME NewLeaf = 0 PROVE \A i \in 1..Len(CommitEvents) : ~Moves(CommitEvents[i])
  <2>1. ~Moves(c)
    BY <1>4, <1>12 DEF Moves
  <2>2. \A i \in 1..(Len(s) + 1) : i \in 1..Len(s) \/ i = Len(s) + 1
    BY <1>1
  <2> QED
    BY <1>1, <1>10, <1>11, <2>1, <2>2
<1>13. Len(CommitEvents) \in Nat /\ Len(CommitEvents) > 0
  BY <1>1, <1>10
<1> QED
  BY <1>4, <1>7, <1>8, <1>9, <1>10, <1>12, <1>13

LEMMA CommitLeaves == ASSUME SessionInv, LogInv, Commit PROVE LogInv'
<1> DEFINE es == CommitEvents
<1>1. pc = "open" /\ Complete
  BY DEF Commit
<1>2. /\ OwnEvents(es) /\ Block(tx.of, es) /\ OnlyOpen(es, {})
      /\ es \in Seq(Events) /\ Len(es) \in Nat /\ Len(es) > 0
      /\ es[Len(es)].op = tx.op /\ es[Len(es)].kind = "committed" /\ es[Len(es)].leaf = NewLeaf
      /\ NewLeaf = 0 => \A i \in 1..Len(es) : ~Moves(es[i])
  BY <1>1, CommitBlock
<1>3. \/ /\ AppendAll(es) /\ pc' = "sealing"
         /\ tx' = [tx EXCEPT !.result = "committed", !.leaf = NewLeaf, !.pending = <<>>]
         /\ UNCHANGED <<manifest, handle, told, used, agreed>>
      \/ FlushCut(es) /\ agreed' = (agreed /\ NewLeaf = 0)
  BY DEF Commit
<1> HIDE DEF es
<1>4. CASE FlushCut(es) /\ agreed' = (agreed /\ NewLeaf = 0)
  BY <1>1, <1>2, <1>4, CutLeaves
<1>5. CASE /\ AppendAll(es) /\ pc' = "sealing"
           /\ tx' = [tx EXCEPT !.result = "committed", !.leaf = NewLeaf, !.pending = <<>>]
           /\ UNCHANGED <<manifest, handle, told, used, agreed>>
  <2>1. /\ Ordered(log')
        /\ \A op, kind : Marked(log, op, kind) => Marked(log', op, kind)
        /\ (\A i \in 1..Len(es) : ~Moves(es[i])) =>
              \A a : Names(log, Len(log), a) => Names(log', Len(log'), a)
    BY <1>1, <1>2, <1>5, FlushOrdered
  <2>2. Len(log') \in Nat /\ Len(log') > 0 /\ log'[Len(log')] = es[Len(es)]
    BY <1>2, <1>5, LastAppended DEF SessionInv, TypeOK
  <2>3. tx'.op = tx.op /\ tx'.leaf = NewLeaf /\ tx'.result = "committed"
    BY <1>5 DEF SessionInv, TypeOK
  <2>4. tx'.result \in Ended /\ Marked(log', tx'.op, tx'.result)
    <3>1. Len(log') \in 1..Len(log')
      BY <2>2
    <3> QED
      BY <1>2, <2>2, <2>3, <3>1 DEF Ended, Marked
  <2>5. ToldMarked(told', log')
    BY <1>5, <2>1 DEF LogInv, ToldMarked
  <2>6. NewLeaf # 0 => Names(log', Len(log'), NewLeaf)
    <3>1. NewLeaf # 0 => Moves(log'[Len(log')])
      BY <1>2, <2>2 DEF Moves
    <3> QED
      BY <1>2, <2>2, <3>1, NamesLast
  <2> QED
    BY <1>1, <1>2, <1>5, <2>1, <2>3, <2>4, <2>5, <2>6, SealingKeeps
<1> QED
  BY <1>3, <1>4, <1>5

(* cancel_open_lifecycle_events settles what is open.                         *)
LEMMA CancellationsSettle ==
    ASSUME SessionInv, LogInv, pc = "open"
    PROVE  /\ Cancellations \in Seq(Events)
           /\ \A i \in 1..Len(Cancellations) :
                 /\ Cancellations[i].kind = "itemCancelled" /\ Cancellations[i].op = tx.op
                 /\ Cancellations[i].item[1] = tx.op
           /\ \A n \in tx.unsettled : \E k \in 1..Len(Cancellations) :
                 Cancellations[k].kind = "itemCancelled" /\ Cancellations[k].item = <<tx.op, n>>
<1> DEFINE items == Enumerate(tx.unsettled)
           count == Cardinality(tx.unsettled)
<1>1. tx.op \in Nat /\ tx.unsettled \in SUBSET Nat /\ tx.unsettled \in SUBSET (1..MaxItems)
  BY PendingItems DEF SessionInv, TypeOK
<1>2. IsFiniteSet(tx.unsettled)
  <2>1. IsFiniteSet(1..MaxItems)
    BY SessionAssumption, FS_Interval
  <2> QED
    BY <1>1, <2>1, FS_Subset
<1>3. /\ count \in Nat /\ DOMAIN items = 1..count
      /\ \A n \in 1..count : items[n] \in tx.unsettled
      /\ \A x \in tx.unsettled : \E n \in 1..count : items[n] = x
  BY <1>1, <1>2, EnumerateBijective
<1>4. Cancellations = [n \in 1..count |-> ItemCancelled(<<tx.op, items[n]>>)]
  BY <1>3 DEF Cancellations
<1> HIDE DEF items, count
<1>5. \A n \in 1..count : items[n] \in Nat
  BY <1>1, <1>3
<1>6. ASSUME NEW n \in 1..count
      PROVE  /\ ItemCancelled(<<tx.op, items[n]>>) \in Events
             /\ ItemCancelled(<<tx.op, items[n]>>).op = tx.op
             /\ ItemCancelled(<<tx.op, items[n]>>).kind = "itemCancelled"
             /\ ItemCancelled(<<tx.op, items[n]>>).item = <<tx.op, items[n]>>
  BY <1>1, <1>5, EventFields, ItemFields
<1>7. Cancellations \in [1..count -> Events]
  BY <1>4, <1>6
<1>8. Cancellations \in Seq(Events) /\ Len(Cancellations) = count
  BY <1>3, <1>7
<1>9. \A n \in 1..count : /\ Cancellations[n].op = tx.op
                          /\ Cancellations[n].kind = "itemCancelled"
                          /\ Cancellations[n].item = <<tx.op, items[n]>>
  BY <1>4, <1>6
<1>10. \A n \in 1..count : <<tx.op, items[n]>>[1] = tx.op
  OBVIOUS
<1> QED
  BY <1>3, <1>8, <1>9, <1>10

LEMMA EndBlock ==
    ASSUME SessionInv, LogInv, pc = "open", NEW marker \in {"failed", "aborted"}
    PROVE  /\ OwnEvents(EndEvents(marker)) /\ Block(tx.of, EndEvents(marker))
           /\ OnlyOpen(EndEvents(marker), {})
           /\ EndEvents(marker) \in Seq(Events) /\ Len(EndEvents(marker)) \in Nat
           /\ Len(EndEvents(marker)) > 0
           /\ EndEvents(marker)[Len(EndEvents(marker))].op = tx.op
           /\ EndEvents(marker)[Len(EndEvents(marker))].kind = marker
           /\ \A i \in 1..Len(EndEvents(marker)) : ~Moves(EndEvents(marker)[i])
<1> DEFINE last == IF marker = "failed" THEN <<Diagnostic(tx.op), Failed(tx.op)>>
                   ELSE <<Aborted(tx.op)>>
           s == tx.pending
           c == Cancellations
<1>1. /\ s \in Seq(Events) /\ Len(s) \in Nat /\ Len(s) > 0 /\ tx.op \in Nat /\ tx.op # 0
      /\ Block(tx.of, s) /\ OnlyOpen(s, tx.unsettled)
      /\ \A i \in 1..Len(s) : ~Moves(s[i])
      /\ \A i \in 1..Len(s) : s[i].kind = "itemStarted" =>
            s[i].item[2] \in Nat /\ s[i].item = <<tx.op, s[i].item[2]>>
  BY PendingItems, PendingStill DEF Collected
<1>2. /\ c \in Seq(Events) /\ Len(c) \in Nat
      /\ \A i \in 1..Len(c) : /\ c[i].kind = "itemCancelled" /\ c[i].op = tx.op
                              /\ c[i].item[1] = tx.op
      /\ \A n \in tx.unsettled : \E k \in 1..Len(c) :
            c[k].kind = "itemCancelled" /\ c[k].item = <<tx.op, n>>
  BY CancellationsSettle, LenProperties
<1>3. /\ last \in Seq(Events) /\ Len(last) \in {1, 2}
      /\ last[Len(last)].op = tx.op /\ last[Len(last)].kind = marker
      /\ \A i \in 1..Len(last) :
            last[i].op = tx.op /\ last[i].kind \in {"diagnostic", "aborted", "failed"}
  <2>1. 0 \in Nat
    OBVIOUS
  <2>2. /\ Aborted(tx.op) \in Events /\ Aborted(tx.op).op = tx.op /\ Aborted(tx.op).kind = "aborted"
        /\ Failed(tx.op) \in Events /\ Failed(tx.op).op = tx.op /\ Failed(tx.op).kind = "failed"
        /\ Diagnostic(tx.op) \in Events /\ Diagnostic(tx.op).op = tx.op
        /\ Diagnostic(tx.op).kind = "diagnostic"
    BY ZenonT(60), <1>1, <2>1, MarkerFields, EventFields, ItemFields
  <2>3. CASE marker = "failed"
    BY <2>2, <2>3
  <2>4. CASE marker = "aborted"
    BY <2>2, <2>4
  <2> QED
    BY <2>3, <2>4
<1>4. EndEvents(marker) = s \o c \o last
  BY DEF EndEvents
<1> HIDE DEF s, c, last
<1>5. \A i \in 1..Len(c) : /\ EventOK(c[i]) /\ Does(tx.of, c[i]) /\ c[i].kind # "started"
                           /\ ~Moves(c[i])
  BY <1>1, <1>2, ItemFits DEF Settling
<1>6. \A i \in 1..Len(last) :
        /\ EventOK(last[i]) /\ Does(tx.of, last[i]) /\ last[i].kind # "started" /\ ~Moves(last[i])
        /\ last[i].kind # "itemStarted"
  <2> SUFFICES ASSUME NEW i \in 1..Len(last)
               PROVE  /\ EventOK(last[i]) /\ Does(tx.of, last[i]) /\ last[i].kind # "started"
                      /\ ~Moves(last[i]) /\ last[i].kind # "itemStarted"
    OBVIOUS
  <2>1. last[i].op # 0 /\ last[i].kind \in {"diagnostic", "aborted", "failed"}
    BY <1>1, <1>3
  <2>2. /\ EventOK(last[i]) /\ Does(tx.of, last[i]) /\ ~Moves(last[i])
        /\ last[i].kind \notin {"itemStarted"} \cup Settling
    BY <2>1, PlainFits
  <2> QED
    BY <2>1, <2>2
<1>7. /\ s \o c \in Seq(Events) /\ Len(s \o c) = Len(s) + Len(c) /\ Block(tx.of, s \o c)
      /\ Len(s \o c) > 0
  <2>1. s \o c \in Seq(Events) /\ Len(s \o c) = Len(s) + Len(c) /\ Block(tx.of, s \o c)
    BY <1>1, <1>2, <1>5, BlockJoined
  <2> QED
    BY <1>1, <1>2, <2>1
<1>8. OnlyOpen(s \o c, {})
  <2>1. \A i \in 1..Len(s) : s[i].kind = "itemStarted" /\ s[i].item[2] \in tx.unsettled =>
            \/ s[i].item[2] \in {}
            \/ \E k \in 1..Len(c) : c[k].kind \in Settling /\ c[k].item = s[i].item
    BY <1>1, <1>2 DEF Settling
  <2>2. \A i \in 1..Len(c) : c[i].kind # "itemStarted"
    BY <1>2
  <2> QED
    BY SMTT(60), <1>1, <1>2, <2>1, <2>2, OpenJoined
<1>9. /\ (s \o c) \o last \in Seq(Events) /\ Len((s \o c) \o last) = Len(s \o c) + Len(last)
      /\ Block(tx.of, (s \o c) \o last)
  BY <1>3, <1>6, <1>7, BlockJoined
<1>10. OnlyOpen((s \o c) \o last, {})
  BY <1>3, <1>6, <1>7, <1>8, OpenJoined
<1>11. \A i \in 1..(Len(s) + Len(c)) : (s \o c)[i] = IF i <= Len(s) THEN s[i] ELSE c[i - Len(s)]
  BY <1>1, <1>2, ConcatProperties
<1>12. \A i \in 1..Len(s \o c) : ~Moves((s \o c)[i])
  <2>1. \A i \in 1..(Len(s) + Len(c)) : i \in 1..Len(s) \/ (~(i <= Len(s)) /\ i - Len(s) \in 1..Len(c))
    BY <1>1, <1>2
  <2>2. \A i \in 1..Len(s) : i <= Len(s)
    BY <1>1
  <2> QED
    BY <1>1, <1>5, <1>7, <1>11, <2>1, <2>2
<1> DEFINE t == s \o c
           es == t \o last
<1>13. /\ t \in Seq(Events) /\ Len(t) \in Nat /\ Len(t) > 0 /\ \A i \in 1..Len(t) : ~Moves(t[i])
       /\ es \in Seq(Events) /\ Len(es) = Len(t) + Len(last)
       /\ Block(tx.of, es) /\ OnlyOpen(es, {}) /\ EndEvents(marker) = es
  BY <1>1, <1>2, <1>4, <1>7, <1>9, <1>10, <1>12
<1> HIDE DEF t
<1>14. /\ \A i \in 1..(Len(t) + Len(last)) : es[i] = IF i <= Len(t) THEN t[i] ELSE last[i - Len(t)]
  BY <1>3, <1>13, ConcatProperties
<1> HIDE DEF es
<1>15. Len(es) \in Nat /\ Len(es) > 0 /\ es[Len(es)] = last[Len(last)]
  <2>1. /\ Len(t) + Len(last) \in 1..(Len(t) + Len(last)) /\ ~(Len(t) + Len(last) <= Len(t))
        /\ (Len(t) + Len(last)) - Len(t) = Len(last) /\ Len(t) + Len(last) \in Nat
        /\ Len(t) + Len(last) > 0
    <3>1. Len(t) \in Nat
      BY Zenon, <1>13
    <3>2. Len(last) \in {1, 2}
      BY Zenon, <1>3
    <3> QED
      BY <3>1, <3>2
  <2> QED
    BY <1>13, <1>14, <2>1
<1>16. \A i \in 1..Len(es) : ~Moves(es[i])
  <2>1. \A i \in 1..(Len(t) + Len(last)) :
            i \in 1..Len(t) \/ (~(i <= Len(t)) /\ i - Len(t) \in 1..Len(last))
    BY <1>3, <1>13
  <2>2. \A i \in 1..Len(t) : i <= Len(t)
    BY <1>13
  <2> QED
    BY <1>6, <1>13, <1>14, <2>1, <2>2
<1>17. OwnEvents(EndEvents(marker))
  BY EndOwn
<1> QED
  BY <1>3, <1>13, <1>15, <1>16, <1>17

LEMMA EndLeaves ==
    ASSUME SessionInv, LogInv, NEW marker \in {"failed", "aborted"}, End(marker)
    PROVE  LogInv'
<1> DEFINE es == EndEvents(marker)
<1>1. pc = "open" /\ UNCHANGED agreed /\ tx.leaf = 0 /\ ~Pointing
  BY DEF End, SessionInv, TxFresh, Pointing
<1>2. /\ OwnEvents(es) /\ Block(tx.of, es) /\ OnlyOpen(es, {})
      /\ es \in Seq(Events) /\ Len(es) \in Nat /\ Len(es) > 0
      /\ es[Len(es)].op = tx.op /\ es[Len(es)].kind = marker
      /\ \A i \in 1..Len(es) : ~Moves(es[i])
  BY <1>1, EndBlock
<1>3. \/ /\ AppendAll(es)
         /\ \/ /\ pc' = "sealing" /\ UNCHANGED told
               /\ tx' = [tx EXCEPT !.result = marker, !.pending = <<>>]
            \/ pc' = "idle" /\ Settle(marker)
         /\ UNCHANGED <<manifest, handle, used>>
      \/ FlushCut(es)
  BY DEF End
<1> HIDE DEF es
<1>4. CASE FlushCut(es)
  BY <1>1, <1>2, <1>4, CutLeaves
<1>5. CASE /\ AppendAll(es)
           /\ \/ /\ pc' = "sealing" /\ UNCHANGED told
                 /\ tx' = [tx EXCEPT !.result = marker, !.pending = <<>>]
              \/ pc' = "idle" /\ Settle(marker)
           /\ UNCHANGED <<manifest, handle, used>>
  <2>1. /\ Ordered(log')
        /\ \A op, kind : Marked(log, op, kind) => Marked(log', op, kind)
        /\ \A a : Names(log, Len(log), a) => Names(log', Len(log'), a)
    BY <1>1, <1>2, <1>5, FlushOrdered
  <2>2. Len(log') \in Nat /\ Len(log') > 0 /\ log'[Len(log')] = es[Len(es)]
    BY <1>2, <1>5, LastAppended DEF SessionInv, TypeOK
  <2>3. marker \in Ended /\ Marked(log', tx.op, marker)
    <3>1. Len(log') \in 1..Len(log')
      BY <2>2
    <3> QED
      BY <1>2, <2>2, <3>1 DEF Ended, Marked
  <2>4. ToldMarked(told, log') /\ ToldMarked([told EXCEPT ![tx.op] = marker], log')
    BY <2>1, <2>3, Unanswered, ToldStep DEF LogInv
  <2>5. CASE /\ pc' = "sealing" /\ UNCHANGED told
             /\ tx' = [tx EXCEPT !.result = marker, !.pending = <<>>]
    <3>1. tx'.op = tx.op /\ tx'.leaf = 0 /\ tx'.result = marker
      BY <1>1, <2>5 DEF SessionInv, TypeOK
    <3>2. ToldMarked(told', log')
      BY <2>4, <2>5
    <3> QED
      BY <1>1, <1>5, <2>1, <2>3, <2>5, <3>1, <3>2, SealingKeeps
  <2>6. CASE pc' = "idle" /\ Settle(marker)
    <3>1. ToldMarked(told', log')
      BY <2>4, <2>6 DEF Settle
    <3>2. agreed' => Names(log', Len(log'), manifest'.leaf) /\ handle' = manifest'.leaf
      BY <1>1, <1>5, <2>1, LeavesNow
    <3> QED
      BY <2>1, <2>6, <3>1, <3>2, RestKeeps
  <2> QED
    BY <1>5, <2>5, <2>6
<1> QED
  BY <1>3, <1>4, <1>5

(***************************************************************************)
(* Copies, and every step.                                                  *)
(***************************************************************************)
LEMMA ForkLeaves ==
    ASSUME SessionInv, LogInv, NEW leaf \in 1..MaxOperations, Fork(leaf)
    PROVE  LogInv'
<1>1. log \in Seq(Events) /\ Len(log) \in Nat /\ Ordered(log) /\ Once(log) /\ ToldMarked(told, log)
  <2>1. log \in Seq(Events)
    BY DEF SessionInv, TypeOK
  <2>2. Len(log) \in Nat /\ DOMAIN log = 1..Len(log)
    BY <2>1, LenProperties
  <2> QED
    BY <2>1, <2>2 DEF SessionInv, OneFinalMarker, Once, LogInv
<1>2. /\ pc = "idle" /\ pc' = "idle" /\ leaf \in CommittedLeaves(log)
      /\ log' = CopiedEvents(log, leaf)
      /\ manifest' = [leaf |-> leaf, ok |-> TRUE] /\ handle' = leaf
      /\ told' = [op \in DOMAIN told |->
                    IF \E i \in DOMAIN log' : log'[i].op = op THEN told[op] ELSE "none"]
  BY DEF Fork
<1>3. PICK h : Copies(h, log, log', leaf)
  BY <1>1, <1>2, CopyShape
<1>4. Ordered(log') /\ Names(log', Len(log'), leaf)
  BY <1>1, <1>2, <1>3, CopyOrdered, CopyNames
<1>5. DOMAIN log' = 1..Len(log')
  BY <1>3, LenProperties DEF Copies
<1>6. ASSUME NEW op \in DOMAIN told', told'[op] \in Answers
      PROVE  Marked(log', op, Marker(told'[op]))
  <2>1. op \in DOMAIN told /\ told'[op] = told[op] /\ \E i \in 1..Len(log') : log'[i].op = op
    BY <1>2, <1>5, <1>6, Unanswered
  <2>2. PICK i \in 1..Len(log') : log'[i].op = op
    BY <2>1
  <2>3. op # 0
    BY <2>1 DEF SessionInv, TypeOK
  <2>4. PICK c \in 1..Len(log) : log[c].op = op /\ log[c].kind = Marker(told[op])
    BY <1>1, <1>6, <2>1 DEF ToldMarked, Marked
  <2>5. log[c].kind \in Ended
    BY <1>6, <2>1, <2>4, Unanswered
  <2>6. \E j \in 1..Len(log') : log'[j] = log[c]
    BY SMTT(60), <1>1, <1>2, <1>3, <2>2, <2>3, <2>4, <2>5, CopyMarks
  <2> QED
    BY <2>1, <2>4, <2>6 DEF Marked
<1>7. ToldMarked(told', log')
  BY <1>6 DEF ToldMarked
<1> QED
  BY <1>2, <1>4, <1>7, RestKeeps

LEMMA StartLeaves == ASSUME Init PROVE LogInv
<1>1. /\ log = <<>> /\ Len(log) = 0 /\ pc = "creating" /\ handle = 0 /\ manifest.leaf = 0
      /\ told = [op \in 1..MaxOperations |-> "none"]
  BY DEF Init
<1>2. Ordered(log)
  <2>1. \A i \in 1..Len(log) : FALSE
    BY <1>1
  <2> QED
    BY <2>1 DEF Ordered, EventsOK, StartsFirst, HasStart, Closed, Settled, OfKind, SwitchedTo
<1>3. ToldMarked(told, log)
  BY <1>1, Unanswered DEF ToldMarked
<1>4. Names(log, Len(log), 0)
  BY <1>1 DEF Names
<1>5. SealingMarked /\ OpenCollected /\ LeafPointed
  BY <1>1 DEF SealingMarked, OpenCollected, LeafPointed, Pointing
<1>6. LeafAgreed /\ HandleAgreed
  BY <1>1, <1>4 DEF LeafAgreed, HandleAgreed
<1> QED
  BY <1>2, <1>3, <1>5, <1>6 DEF LogInv

LEMMA StepLeaves == ASSUME SessionInv, LogInv, [Next]_vars PROVE LogInv'
<1>1. CASE Create
  BY <1>1, CreateLeaves
<1>2. CASE Open
  BY <1>2, OpenLeaves
<1>3. CASE \E of \in Offered : Begin(of)
  BY <1>3, BeginLeaves
<1>4. CASE RecordInput \/ StartItem \/ CompleteItem \/ RecordCompaction \/ RecordSummary
  BY <1>4, RecordingLeaves
<1>5. CASE Commit
  BY <1>5, CommitLeaves
<1>6. CASE Fail \/ Abort
  BY <1>6, EndLeaves DEF Fail, Abort
<1>7. CASE Seal \/ SealFails \/ SealCrash
  BY <1>7, SealLeaves
<1>8. CASE OpenRecovered \/ Stop \/ SwitchSeal \/ SetProfile
  BY <1>8, OtherLeaves
<1>9. CASE \E leaf \in 1..MaxOperations : Switch(leaf)
  BY <1>9, SwitchLeaves
<1>10. CASE \E leaf \in 1..MaxOperations : Fork(leaf)
  BY <1>10, ForkLeaves
<1>11. CASE UNCHANGED vars
  <2>1. /\ log' = log /\ told' = told /\ pc' = pc /\ tx' = tx /\ manifest' = manifest
        /\ handle' = handle /\ agreed' = agreed
    BY <1>11 DEF vars
  <2> QED
    BY <2>1 DEF LogInv, SealingMarked, OpenCollected, LeafPointed, LeafAgreed, HandleAgreed, Pointing
<1> QED
  BY <1>1, <1>2, <1>3, <1>4, <1>5, <1>6, <1>7, <1>8, <1>9, <1>10, <1>11 DEF Next

LEMMA LogInvariant == Spec => [](SessionInv /\ LogInv)
<1>1. Init => SessionInv /\ LogInv
  BY InitKeeps, StartLeaves
<1>2. SessionInv /\ LogInv /\ [Next]_vars => (SessionInv /\ LogInv)'
  BY StepKeeps, StepLeaves
<1> QED
  BY <1>1, <1>2, PTL DEF Spec

(***************************************************************************)
(* What the replay of such a log says.                                      *)
(***************************************************************************)
LEMMA ReplayTold ==
    ASSUME SessionInv, LogInv
    PROVE  LogSound
<1>1. /\ log \in Seq(Events) /\ Len(log) \in Nat /\ DOMAIN log = 1..Len(log)
      /\ Ordered(log) /\ Once(log) /\ ToldMarked(told, log)
  <2>1. log \in Seq(Events)
    BY DEF SessionInv, TypeOK
  <2>2. Len(log) \in Nat /\ DOMAIN log = 1..Len(log)
    BY <2>1, LenProperties
  <2> QED
    BY <2>1, <2>2 DEF SessionInv, OneFinalMarker, Once, LogInv
<1>2. PICK g : Replays(g, log)
  BY <1>1, ReplayFolds
<1> DEFINE r == g[Len(log)]
           st == r.status
<1>3. Replay(log) = r
  BY <1>2 DEF Replays
<1>4. StatusAt(log, st, Len(log))
  BY <1>1, <1>2, ReplayStatus
<1>5. /\ \A o : o \in DOMAIN st <=>
            \E j \in 1..Len(log) : log[j].op = o /\ (log[j].kind = "started" \/ log[j].kind \in FinalMarkers)
      /\ \A j \in 1..Len(log) : log[j].kind \in FinalMarkers => st[log[j].op] = log[j].kind
      /\ \A o \in DOMAIN st :
            (\A j \in 1..Len(log) : log[j].kind \in FinalMarkers => log[j].op # o) => st[o] = "InDoubt"
  BY <1>4 DEF StatusAt
<1> HIDE DEF st
<1>6. ASSUME NEW op \in DOMAIN told, told[op] \in Answers
      PROVE  /\ op \in DOMAIN st /\ st[op] = Marker(told[op])
             /\ told[op] \in {"aborted", "failed"} => \A x \in Elements(r.leaves) : x.leaf # op
  <2>1. PICK m \in 1..Len(log) : log[m].op = op /\ log[m].kind = Marker(told[op])
    BY <1>1, <1>6 DEF ToldMarked, Marked
  <2>2. log[m].kind \in FinalMarkers
    BY <1>6, <2>1, Unanswered
  <2>3. op \in DOMAIN st /\ st[op] = Marker(told[op])
    BY <1>5, <2>1, <2>2
  <2>4. ASSUME told[op] \in {"aborted", "failed"}, NEW x \in Elements(r.leaves), x.leaf = op
        PROVE  FALSE
    <3>1. PICK c \in 1..Len(log) : Commits(log[c]) /\ x.leaf = log[c].op
      BY <1>1, <1>2, LeafElements
    <3>2. log[c].kind = "committed" /\ "committed" \in FinalMarkers
      BY <3>1 DEF Commits, FinalMarkers
    <3>3. c = m
      BY <1>1, <2>1, <2>2, <2>4, <3>1, <3>2 DEF Once
    <3> QED
      BY <2>1, <2>4, <3>2, <3>3 DEF Marker
  <2> QED
    BY <2>3, <2>4
<1>7. ToldIsDurable(r)
  <2>1. ASSUME NEW op \in DOMAIN told, told[op] \in {"committed", "partial", "aborted", "failed"}
        PROVE  /\ op \in DOMAIN r.status
               /\ r.status[op] = IF told[op] = "partial" THEN "committed" ELSE told[op]
               /\ told[op] \in {"aborted", "failed"} => \A x \in Elements(r.leaves) : x.leaf # op
    BY <1>6, <2>1 DEF Answers, Marker, st
  <2> QED
    BY <2>1 DEF ToldIsDurable
<1>8. StatusByMarker(r.status)
  <2>1. "InDoubt" \notin FinalMarkers
    BY DEF FinalMarkers
  <2>2. {op \in DOMAIN st : st[op] = "InDoubt"} = InDoubt(log)
    <3>1. ASSUME NEW op \in DOMAIN st, st[op] = "InDoubt" PROVE op \in InDoubt(log)
      <4>1. \A j \in 1..Len(log) : log[j].kind \in FinalMarkers => log[j].op # op
        BY <1>5, <2>1, <3>1
      <4>2. \E j \in 1..Len(log) : log[j].op = op /\ log[j].kind = "started"
        BY <1>5, <3>1, <4>1
      <4> QED
        BY <1>1, <4>1, <4>2 DEF InDoubt, Finalized
    <3>2. ASSUME NEW op \in InDoubt(log) PROVE op \in DOMAIN st /\ st[op] = "InDoubt"
      <4>1. /\ \E j \in 1..Len(log) : log[j].op = op /\ log[j].kind = "started"
            /\ \A j \in 1..Len(log) : log[j].kind \in FinalMarkers => log[j].op # op
        BY <1>1, <3>2 DEF InDoubt, Finalized
      <4> QED
        BY <1>5, <4>1
    <3> QED
      BY <3>1, <3>2
  <2> QED
    BY <1>1, <1>5, <2>2 DEF StatusByMarker, st
<1>9. SettledLifecycles(r)
  <2>1. DOMAIN r.transcript = 1..Len(r.transcript)
    <3>1. r.transcript \in Seq(Entries)
      BY <1>1, <1>2, TranscriptType
    <3> QED
      BY <3>1, LenProperties
  <2>2. \A p \in 1..Len(r.transcript) :
          r.transcript[p].st = "Started" => r.status[r.transcript[p].op] = "recovered"
    BY <1>1, <1>2, RunningRecovered
  <2> QED
    BY <2>1, <2>2 DEF SettledLifecycles, Elements
<1> QED
  BY <1>3, <1>7, <1>8, <1>9 DEF LogSound, SessionInv

LEMMA ReplayAgrees ==
    ASSUME SessionInv, LogInv
    PROVE  LeavesSound
<1>1. /\ log \in Seq(Events) /\ Len(log) \in Nat /\ DOMAIN log = 1..Len(log)
      /\ Ordered(log) /\ EventsOK(log) /\ Once(log)
  <2>1. log \in Seq(Events)
    BY DEF SessionInv, TypeOK
  <2>2. Len(log) \in Nat /\ DOMAIN log = 1..Len(log)
    BY <2>1, LenProperties
  <2> QED
    BY <2>1, <2>2 DEF SessionInv, OneFinalMarker, Once, LogInv, Ordered
<1>2. PICK g : Replays(g, log)
  BY <1>1, ReplayFolds
<1> DEFINE r == g[Len(log)]
<1>3. Replay(log) = r
  BY <1>2 DEF Replays
<1>4. LeavesAgree(r.active)
  <2>1. Names(log, Len(log), r.active)
    <3>1. Len(log) \in 0..Len(log)
      BY <1>1
    <3> QED
      BY <1>1, <1>2, <3>1, ActiveNames
  <2>2. pc = "idle" => ~Pointing
    BY DEF Pointing
  <2>3. pc = "idle" /\ agreed => Names(log, Len(log), manifest.leaf) /\ handle = manifest.leaf
    BY <2>2, LeavesNow
  <2>4. pc = "idle" /\ agreed => manifest.leaf = r.active
    BY <1>1, <2>1, <2>3, NamesOne
  <2> QED
    BY <2>3, <2>4 DEF LeavesAgree
<1>5. LeafForest(r.leaves)
  <2>1. LeafTree(log) = {[leaf |-> x.leaf, parent |-> x.parent] : x \in Elements(r.leaves)}
    BY <1>1, <1>2, TreeOfLeaves
  <2>2. DOMAIN r.leaves = 1..Len(r.leaves)
    BY <1>1, <1>2, LeafElements
  <2>3. \A x \in 1..Len(r.leaves) :
          r.leaves[x].parent = 0 \/ \E y \in 1..(x - 1) : r.leaves[y].leaf = r.leaves[x].parent
    BY <1>1, <1>2, ReplayLeaves DEF LeavesAt
  <2>4. \A i \in DOMAIN r.leaves :
          r.leaves[i].parent \in {0} \cup {r.leaves[j].leaf : j \in 1..(i - 1)}
    BY <2>2, <2>3
  <2> QED
    BY <2>1, <2>4 DEF LeafForest
<1>6. RangeIsOwn(r)
  <2>1. ASSUME NEW x \in Elements(r.leaves),
               \A i \in DOMAIN log : log[i].kind = "compacted" => i < Cutoff(log, x.leaf)
        PROVE  {y \in Elements(RangeOf(r.transcript, x)) : y.kind \in {"user", "item"}}
                 = {z \in {y \in Elements(r.transcript) : y.kind \in {"user", "item"}} : z.op = x.leaf}
    BY <1>1, <1>2, <2>1, RangesOwn
  <2> QED
    BY <2>1 DEF RangeIsOwn
<1> QED
  BY <1>3, <1>4, <1>5, <1>6 DEF LeavesSound

(* What a caller was told of an operation, the status that every later replay  *)
(* gives it and the messages and tool calls that it opened agree with the log: *)
(* commit, fail and abort, with any write cut short, any crash and recovery,   *)
(* and any fork.                                                               *)
THEOREM LogCorrect == Spec => []LogSound
<1>1. SessionInv /\ LogInv => LogSound
  BY ReplayTold
<1> QED
  BY <1>1, LogInvariant, PTL

(* Manifest, handle, replay and leaf tree name the same leaves, and the range   *)
(* that replay records for a committed prompt holds its messages and tool calls *)
(* and no others.                                                               *)
THEOREM LeavesCorrect == Spec => []LeavesSound
<1>1. SessionInv /\ LogInv => LeavesSound
  BY ReplayAgrees
<1> QED
  BY <1>1, LogInvariant, PTL
=============================================================================
