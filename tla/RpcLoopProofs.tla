--------------------------- MODULE RpcLoopProofs ----------------------------
(***************************************************************************)
(* Proofs about the RPC mode, for every capacity of the channel, the window  *)
(* and the queue, every set of idempotency keys and queues and every number  *)
(* of commands: the loop answers once, keeps its session and tells retries   *)
(* the truth (RpcSound), and a client is shown every event of a run once and  *)
(* in order, and all of them by its end (RpcShown).                          *)
(***************************************************************************)
EXTENDS RpcLoop, FiniteSetTheorems, SequenceTheorems, WellFoundedInduction, TLAPS

(* A set of numbers that is not empty has a least one: induction over the       *)
(* places of a sequence is by the least place where the claim fails.            *)
LEMMA NatLeast ==
    ASSUME NEW T \in SUBSET Nat, T # {}
    PROVE  \E m \in T : \A k \in T : m <= k
<1> DEFINE R == {ss \in Nat \X Nat : ss[1] < ss[2]}
<1>1. IsWellFoundedOn(R, Nat)
  BY NatLessThanWellFounded DEF OpToRel
<1> HIDE DEF R
<1>2. PICK m \in T : \A k \in T : ~(<<k, m>> \in R)
  BY <1>1, WFMin
<1>3. ASSUME NEW k \in T PROVE m <= k
  <2>1. ~(<<k, m>> \in R)
    BY <1>2
  <2>2. k \in Nat /\ m \in Nat
    OBVIOUS
  <2>3. ~(k < m)
    BY <2>1, <2>2 DEF R
  <2> QED
    BY <2>2, <2>3
<1> QED
  BY <1>3

\* f is built from base in n steps.
BuiltBy(f, S, base, n, step) ==
    f \in [0..n -> S] /\ f[0] = base /\ \A i \in 1..n : f[i] = step[<<i, f[i - 1]>>]

(* A function that is built step by step exists.                               *)
LEMMA Iterates ==
    ASSUME NEW S, NEW base \in S, NEW n \in Nat, NEW step \in [(1..n) \X S -> S]
    PROVE  \E f : BuiltBy(f, S, base, n, step)
<1> DEFINE Built(k) == \E f : BuiltBy(f, S, base, k, step)
           Missed == {k \in Nat : k <= n /\ ~Built(k)}
<1>0. SUFFICES Built(n)
  OBVIOUS
<1> HIDE DEF Built
<1>1. SUFFICES ASSUME Missed # {} PROVE FALSE
  OBVIOUS
<1>2. PICK m \in Missed : \A k \in Missed : m <= k
  <2>1. Missed \in SUBSET Nat
    OBVIOUS
  <2> HIDE DEF Missed
  <2> QED
    BY <1>1, <2>1, NatLeast
<1>3. CASE m = 0
  <2>1. Built(0)
    <3> DEFINE f == [i \in 0..0 |-> base]
    <3>1. f \in [0..0 -> S] /\ f[0] = base /\ \A i \in 1..0 : f[i] = step[<<i, f[i - 1]>>]
      OBVIOUS
    <3> QED
      BY <3>1 DEF Built, BuiltBy
  <2> QED
    BY <1>3, <2>1
<1>4. CASE m # 0
  <2>1. m \in 1..n /\ m - 1 \in Nat /\ m - 1 <= n
    BY <1>4
  <2>2. Built(m - 1)
    BY <1>2, <2>1
  <2>3. PICK f \in [0..(m - 1) -> S] :
           f[0] = base /\ \A i \in 1..(m - 1) : f[i] = step[<<i, f[i - 1]>>]
    BY <2>2 DEF Built, BuiltBy
  <2> DEFINE g == [i \in 0..m |-> IF i = m THEN step[<<m, f[m - 1]>>] ELSE f[i]]
  <2>4. f[m - 1] \in S /\ step[<<m, f[m - 1]>>] \in S
    BY <2>1
  <2>5. g \in [0..m -> S]
    BY <2>1, <2>4
  <2>6. g[0] = base
    BY <2>1, <2>3
  <2>7. ASSUME NEW i \in 1..m PROVE g[i] = step[<<i, g[i - 1]>>]
    <3>1. CASE i = m
      <4>1. m - 1 # m /\ m - 1 \in 0..m /\ m \in 0..m
        BY <2>1
      <4>2. g[m] = step[<<m, f[m - 1]>>] /\ g[m - 1] = f[m - 1]
        BY <4>1
      <4> HIDE DEF g
      <4> QED
        BY <3>1, <4>2
    <3>2. CASE i # m
      <4>1. i \in 1..(m - 1) /\ i - 1 # m /\ i - 1 \in 0..m
        BY <2>1, <3>2
      <4>2. g[i] = f[i] /\ g[i - 1] = f[i - 1]
        BY <3>2, <4>1
      <4> HIDE DEF g
      <4> QED
        BY <2>3, <4>1, <4>2
    <3> QED
      BY <3>1, <3>2
  <2>8. Built(m)
    <3> HIDE DEF g
    <3> QED
      BY <2>5, <2>6, <2>7 DEF Built, BuiltBy
  <2> QED
    BY <2>8
<1> QED
  BY <1>3, <1>4
----------------------------------------------------------------------------
(* The adapter.                                                              *)

AdapterStates == [applied : Nat, shown : Seq(Nat), excused : Nat, closed : BOOLEAN]

\* The adapter accounts for an event: it has gone past it, or the client is excused.
Accounts(st, e) == e <= st.applied \/ e <= st.excused

\* What an adapter that has seen events up to top keeps true: the client was shown
\* events in order, up to the applied sequence, and of those all that are not excused.
AdapterSound(st, top) ==
    /\ st \in AdapterStates
    /\ st.applied <= top
    /\ st.excused <= top
    /\ \A i \in 1..Len(st.shown) : st.shown[i] \in 1..st.applied
    /\ \A i, j \in 1..Len(st.shown) : i < j => st.shown[i] < st.shown[j]
    /\ \A e \in 1..st.applied : e > st.excused => \E i \in 1..Len(st.shown) : st.shown[i] = e

\* One adapter has come from another: what the first accounts for, so does the second.
Onward(st, other) ==
    /\ st.applied <= other.applied
    /\ st.excused <= other.excused

(* push_live_product_event shows an event that comes next, or after events that are  *)
(* excused, and drops one that was already shown.                                    *)
LEMMA PushLiveSound ==
    ASSUME NEW top \in Nat, NEW st, AdapterSound(st, top), NEW e \in 1..top,
           Accounts(st, e - 1)
    PROVE  LET new == PushLive(st, e)
           IN AdapterSound(new, top) /\ Onward(st, new) /\ Accounts(new, e)
<1>0. /\ st \in AdapterStates /\ st.applied \in Nat /\ st.excused \in Nat
      /\ st.shown \in Seq(Nat) /\ Len(st.shown) \in Nat /\ st.closed \in BOOLEAN
      /\ st.applied <= top /\ st.excused <= top
  BY LenProperties DEF AdapterSound, AdapterStates
<1>1. CASE e <= st.applied
  <2>1. PushLive(st, e) = st
    BY <1>1 DEF PushLive
  <2> QED
    BY <1>0, <1>1, <2>1 DEF Onward, Accounts
<1>2. CASE ~(e <= st.applied)
  <2>0. e \in Nat /\ st.applied < e
    BY <1>0, <1>2
  <2> DEFINE s == Append(st.shown, e)
             k == Len(st.shown)
  <2>3. /\ s \in Seq(Nat) /\ Len(s) = k + 1 /\ s[k + 1] = e
        /\ \A i \in 1..k : s[i] = st.shown[i]
    BY <1>0, <2>0, AppendProperties
  <2> DEFINE new == [st EXCEPT !.applied = e, !.shown = s]
  <2>1. PushLive(st, e) = new
    BY <1>2 DEF PushLive
  <2> HIDE DEF s
  <2>2. /\ new \in AdapterStates /\ new.applied = e /\ new.shown = s
        /\ new.excused = st.excused
    BY <1>0, <2>0, <2>3 DEF AdapterStates
  <2> HIDE DEF new
  <2>4. \A i \in 1..k : st.shown[i] \in 1..st.applied
    BY DEF AdapterSound
  <2>9. k \in Nat
    BY <1>0
  <2> HIDE DEF k
  <2>10. \A i \in 1..Len(s) : i = k + 1 \/ i \in 1..k
    BY <2>3, <2>9
  <2>5. ASSUME NEW i \in 1..Len(s) PROVE s[i] \in 1..e
    <3>1. CASE i = k + 1
      BY <2>0, <2>3, <3>1
    <3>2. CASE i \in 1..k
      <4>1. s[i] \in 1..st.applied
        BY <2>3, <2>4, <3>2
      <4> QED
        BY <1>0, <2>0, <4>1
    <3> QED
      BY <2>10, <3>1, <3>2
  <2>6. ASSUME NEW i \in 1..Len(s), NEW j \in 1..Len(s), i < j PROVE s[i] < s[j]
    <3>1. CASE j = k + 1
      <4>1. i \in 1..k
        BY <2>6, <2>9, <2>10, <3>1
      <4>2. s[i] \in 1..st.applied /\ s[j] = e
        BY <2>3, <2>4, <3>1, <4>1
      <4> QED
        BY <1>0, <2>0, <4>2
    <3>2. CASE j \in 1..k
      <4>1. i \in 1..k
        BY <2>6, <2>9, <2>10, <3>2
      <4>2. st.shown[i] < st.shown[j]
        BY <2>6, <3>2, <4>1 DEF AdapterSound, k
      <4> QED
        BY <2>3, <3>2, <4>1, <4>2
    <3> QED
      BY <2>10, <3>1, <3>2
  <2>7. ASSUME NEW d \in 1..e, d > st.excused PROVE \E i \in 1..Len(s) : s[i] = d
    <3>1. CASE d = e
      <4>1. k + 1 \in 1..Len(s)
        BY <2>3, <2>9
      <4> QED
        BY <2>3, <3>1, <4>1
    <3>2. CASE d # e
      <4>1. d \in 1..st.applied
        BY <1>0, <2>0, <2>7, <3>2 DEF Accounts
      <4>2. PICK i \in 1..k : st.shown[i] = d
        BY <2>7, <4>1 DEF AdapterSound, k
      <4>3. i \in 1..Len(s)
        BY <2>3, <2>9
      <4> QED
        BY <2>3, <4>2, <4>3
    <3> QED
      BY <3>1, <3>2
  <2>8. AdapterSound(new, top)
    BY <1>0, <2>0, <2>2, <2>5, <2>6, <2>7 DEF AdapterSound
  <2>11. Onward(st, new) /\ Accounts(new, e)
    BY <1>0, <2>0, <2>2 DEF Onward, Accounts
  <2> QED
    BY <2>1, <2>8, <2>11
<1> QED
  BY <1>1, <1>2

\* Two numbers and the greater one.
LEMMA MaxOfTwo ==
    ASSUME NEW a \in Nat, NEW b \in Nat
    PROVE  /\ Max({a, b}) \in {a, b}
           /\ a <= Max({a, b}) /\ b <= Max({a, b})
BY DEF Max

\* Two numbers and the smaller one.
LEMMA MinOfTwo ==
    ASSUME NEW a \in Nat, NEW b \in Nat
    PROVE  /\ Min({a, b}) \in {a, b}
           /\ Min({a, b}) <= a /\ Min({a, b}) <= b
BY DEF Min

\* What is queued: events and lag reports.
Items == [seq : Nat, lag : BOOLEAN]

(* A queued item keeps the adapter sound: an event by PushLiveSound, and a lag report  *)
(* excuses what it says.                                                              *)
LEMMA DeliverSound ==
    ASSUME NEW top \in Nat, NEW st, AdapterSound(st, top),
           NEW item \in [seq : Nat, lag : BOOLEAN], item.seq \in 1..top,
           item.lag \/ Accounts(st, item.seq - 1)
    PROVE  LET new == Deliver(st, item)
           IN AdapterSound(new, top) /\ Onward(st, new) /\ Accounts(new, item.seq)
<1>1. CASE ~item.lag
  <2>1. Deliver(st, item) = PushLive(st, item.seq)
    BY <1>1 DEF Deliver
  <2> QED
    BY <1>1, <2>1, PushLiveSound
<1>2. CASE item.lag
  <2> DEFINE m == Max({st.excused, item.seq})
             new == [st EXCEPT !.closed = TRUE, !.excused = m]
  <2>1. Deliver(st, item) = new
    BY <1>2 DEF Deliver
  <2>2. /\ st \in AdapterStates /\ st.applied \in Nat /\ st.excused \in Nat
        /\ st.excused <= top
    BY DEF AdapterSound, AdapterStates
  <2>3. m \in Nat /\ st.excused <= m /\ item.seq <= m /\ m <= top
    BY <2>2, MaxOfTwo
  <2> HIDE DEF m
  <2>4. /\ new \in AdapterStates /\ new.applied = st.applied /\ new.shown = st.shown
        /\ new.excused = m
    BY <2>2, <2>3 DEF AdapterStates
  <2> HIDE DEF new
  <2>5. \A e \in 1..st.applied : e > m => e > st.excused
    BY <2>2, <2>3
  <2>6. AdapterSound(new, top)
    BY <2>3, <2>4, <2>5 DEF AdapterSound
  <2>7. Onward(st, new) /\ Accounts(new, item.seq)
    BY <2>2, <2>3, <2>4 DEF Onward, Accounts
  <2> QED
    BY <2>1, <2>6, <2>7
<1> QED
  BY <1>1, <1>2

\* The same, without the states that the adapter's invariant leaves out.
LEMMA DeliverType ==
    ASSUME NEW st \in AdapterStates, NEW item \in Items
    PROVE  Deliver(st, item) \in AdapterStates
<1>0. /\ st.applied \in Nat /\ st.excused \in Nat /\ st.shown \in Seq(Nat)
      /\ item.seq \in Nat /\ item.lag \in BOOLEAN
  BY DEF AdapterStates, Items
<1>1. CASE item.lag
  <2> DEFINE m == Max({st.excused, item.seq})
  <2>1. m \in Nat
    BY <1>0, MaxOfTwo
  <2>2. Deliver(st, item) = [st EXCEPT !.closed = TRUE, !.excused = m]
    BY <1>1 DEF Deliver
  <2> HIDE DEF m
  <2> QED
    BY <2>1, <2>2 DEF AdapterStates
<1>2. CASE ~item.lag
  <2> DEFINE s == Append(st.shown, item.seq)
  <2>1. s \in Seq(Nat)
    BY <1>0, AppendProperties
  <2>2. Deliver(st, item) = IF item.seq <= st.applied THEN st
                            ELSE [st EXCEPT !.applied = item.seq, !.shown = s]
    BY <1>2 DEF Deliver, PushLive
  <2> HIDE DEF s
  <2> QED
    BY <1>0, <2>1, <2>2 DEF AdapterStates
<1> QED
  BY <1>1, <1>2

\* The states of the adapter while it takes items one after the other.
Delivered(f, base, n, items) ==
    f = [i \in 0..n |-> IF i = 0 THEN base ELSE Deliver(f[i - 1], items[i])]

LEMMA DeliveredExists ==
    ASSUME NEW base \in AdapterStates, NEW n \in Nat, NEW items, \A i \in 1..n : items[i] \in Items
    PROVE  \E f : Delivered(f, base, n, items)
<1> DEFINE step == [p \in (1..n) \X AdapterStates |-> Deliver(p[2], items[p[1]])]
<1>1. step \in [(1..n) \X AdapterStates -> AdapterStates]
  BY DeliverType
<1>2. \A i \in 1..n, st \in AdapterStates : step[<<i, st>>] = Deliver(st, items[i])
  OBVIOUS
<1> HIDE DEF step
<1>3. PICK f : BuiltBy(f, AdapterStates, base, n, step)
  BY <1>1, Iterates
<1>4. /\ f \in [0..n -> AdapterStates] /\ f[0] = base
      /\ \A i \in 1..n : f[i] = step[<<i, f[i - 1]>>]
  BY <1>3 DEF BuiltBy
<1>5. ASSUME NEW i \in 0..n
      PROVE  f[i] = IF i = 0 THEN base ELSE Deliver(f[i - 1], items[i])
  <2>1. CASE i = 0
    BY <1>4, <2>1
  <2>2. CASE i # 0
    <3>1. i \in 1..n /\ f[i - 1] \in AdapterStates
      BY <1>4, <2>2
    <3>2. f[i] = step[<<i, f[i - 1]>>]
      BY <1>4, <3>1
    <3> QED
      BY <1>2, <2>2, <3>1, <3>2
  <2> QED
    BY <2>1, <2>2
<1> QED
  BY <1>4, <1>5 DEF Delivered

\* Items that follow one another, the first of them what base accounts for.
Following(base, n, items, top) ==
    \A i \in 1..n :
       /\ items[i] \in Items
       /\ items[i].seq \in 1..top
       /\ items[i].lag \/ IF i = 1 THEN Accounts(base, items[i].seq - 1)
                          ELSE items[i].seq - 1 <= items[i - 1].seq

(* Items that follow one another keep the adapter sound, however many there are.       *)
LEMMA DeliveredSound ==
    ASSUME NEW top \in Nat, NEW base, AdapterSound(base, top), NEW n \in Nat, NEW items,
           Following(base, n, items, top), NEW f, Delivered(f, base, n, items)
    PROVE  \A i \in 0..n : /\ AdapterSound(f[i], top)
                           /\ Onward(base, f[i])
                           /\ i # 0 => Accounts(f[i], items[i].seq)
<1> DEFINE Good(i) == /\ AdapterSound(f[i], top)
                      /\ Onward(base, f[i])
                      /\ i # 0 => Accounts(f[i], items[i].seq)
           Bad == {i \in 0..n : ~Good(i)}
<1>1. f[0] = base /\ \A i \in 1..n : f[i] = Deliver(f[i - 1], items[i])
  BY DEF Delivered
<1>2. \A i \in 1..n : items[i] \in Items /\ items[i].seq \in 1..top
  BY DEF Following
<1>3. base \in AdapterStates
  BY DEF AdapterSound
<1> SUFFICES ASSUME Bad # {} PROVE FALSE
  OBVIOUS
<1> HIDE DEF Good
<1>4. PICK m \in Bad : \A k \in Bad : m <= k
  <2>1. Bad \in SUBSET Nat
    OBVIOUS
  <2> HIDE DEF Bad
  <2> QED
    BY <2>1, NatLeast
<1>5. CASE m = 0
  <2>1. Onward(base, base)
    BY <1>3 DEF Onward, AdapterStates
  <2> QED
    BY <1>1, <1>4, <1>5, <2>1 DEF Good
<1>6. CASE m # 0
  <2>1. m \in 1..n /\ m - 1 \in 0..n /\ m - 1 < m
    BY <1>4, <1>6
  <2>2. Good(m - 1)
    BY <1>4, <2>1
  <2> DEFINE st == f[m - 1]
             item == items[m]
  <2>3. AdapterSound(st, top) /\ Onward(base, st)
    BY <2>2 DEF Good
  <2>4. f[m] = Deliver(st, item) /\ item \in Items /\ item.seq \in 1..top
    BY <1>1, <1>2, <2>1
  <2>5. st.applied \in Nat /\ st.excused \in Nat /\ base.applied \in Nat /\ base.excused \in Nat
    BY <1>3, <2>3 DEF AdapterSound, AdapterStates
  <2>6. ASSUME ~item.lag PROVE Accounts(st, item.seq - 1)
    <3>1. CASE m = 1
      <4>1. Accounts(base, item.seq - 1)
        BY <2>1, <2>6, <3>1 DEF Following
      <4> QED
        BY <1>1, <3>1, <4>1
    <3>2. CASE m # 1
      <4>1. item.seq - 1 <= items[m - 1].seq
        BY <2>1, <2>6, <3>2 DEF Following
      <4>2. Accounts(st, items[m - 1].seq)
        BY <2>1, <2>2, <3>2 DEF Good
      <4>3. m - 1 \in 1..n
        BY <2>1, <3>2
      <4>4. items[m - 1].seq \in Nat /\ item.seq \in Nat
        BY <1>2, <2>4, <4>3
      <4> HIDE DEF st, item
      <4> QED
        BY <2>5, <4>1, <4>2, <4>4 DEF Accounts
    <3> QED
      BY <3>1, <3>2
  <2> HIDE DEF st, item
  <2>7. item.lag \/ Accounts(st, item.seq - 1)
    BY <2>6
  <2>8. /\ AdapterSound(f[m], top) /\ Onward(st, f[m]) /\ Accounts(f[m], item.seq)
    <3>1. LET new == Deliver(st, item)
          IN AdapterSound(new, top) /\ Onward(st, new) /\ Accounts(new, item.seq)
      BY <2>3, <2>4, <2>7, DeliverSound DEF Items
    <3> QED
      BY <2>4, <3>1
  <2>9. f[m].applied \in Nat /\ f[m].excused \in Nat
    BY <2>8 DEF AdapterSound, AdapterStates
  <2>10. Onward(base, f[m])
    BY <2>3, <2>5, <2>8, <2>9 DEF Onward
  <2> QED
    BY <1>4, <2>8, <2>10 DEF Good, item
<1> QED
  BY <1>5, <1>6

----------------------------------------------------------------------------
(* The inductive invariant.                                                  *)

Tasks == [at : {"none", "start", "op", "drain", "last", "done", "died"}, ok : BOOLEAN,
          rcv : Nat, fwd : BOOLEAN, hold : Items, emits : Nat]

\* The task and the queue hold what was published.
FeedTypes ==
    /\ published \in Nat
    /\ task \in Tasks
    /\ task.rcv <= published
    /\ task.hold # Nothing => task.hold.seq \in 1..published
    /\ queue \in Seq(Items)
    /\ Len(queue) <= QueueCap
    /\ \A i \in 1..Len(queue) : queue[i].seq \in 1..published

\* What the adapter will account for once it has read the first i items of the queue.
ReachedAt(i, e) == IF i = 0 THEN Accounts(Adapter, e) ELSE e <= queue[i].seq
Reached(e) == ReachedAt(Len(queue), e)

\* An event in the queue comes next after the item before it.
QueueChained == \A i \in 1..Len(queue) : queue[i].lag \/ ReachedAt(i - 1, queue[i].seq - 1)

\* So does the item that waits to be sent, and what the receiver has handed out
\* is on its way.
TaskChained ==
    /\ task.hold # Nothing /\ ~task.hold.lag => Reached(task.hold.seq - 1)
    /\ task.at \in {"start", "op", "drain"} =>
          IF task.hold = Nothing THEN Reached(task.rcv) ELSE task.rcv <= task.hold.seq
    /\ task.at = "last" =>
          IF task.hold = Nothing THEN Reached(published) ELSE task.hold.seq = published
    /\ task.at = "done" => Reached(published)
    /\ task.at \in {"none", "start", "done", "died"} => task.hold = Nothing
    /\ task.at = "none" => task = NoTask /\ queue = <<>>

FeedInv ==
    /\ FeedTypes
    /\ AdapterSound(Adapter, published)
    /\ QueueChained
    /\ TaskChained

\* What the loop keeps about its session, its answers and its keys.
LoopTypes ==
    /\ loop \in {"open", "eof", "ended", "failed"}
    /\ count \in 0..MaxCommands
    /\ answers \in [1..MaxCommands -> Nat]
    /\ place \in {"none", "state", "task"}
    /\ runtime \in {"Running", "ShuttingDown", "ShutDown"}
    /\ submitted \in [st : {"None", "Running", "Terminal"}, anchor : Nat]
    /\ conn \in {"none", "live", "stale"}
    /\ drafts \in [Queues -> Nat]
    /\ queued \in [Queues -> Nat]
    /\ running \in [kind : {"none", "prompt", "delegated"}, key : Keys \cup {NoKey},
                    pending : 0..count]
    /\ order \in Seq(Keys)
    /\ Len(order) <= IdemLimit
    /\ records \in [ToSet(order) -> BOOLEAN]

\* The session and the task are lent together; a run has a kind of its own.
RunInv ==
    /\ Streaming <=> task.at # "none"
    /\ running.kind = "none" => ~Streaming
    /\ Alive => (place = "task" <=> Streaming)
    /\ Alive /\ conn = "live" => place # "none"
    /\ Alive /\ Connected => \A q \in Queues : drafts[q] >= Min({queued[q], MaxDrafts})

\* The lines still to come are not answered, nor is the shutdown that waits.
AnswerInv ==
    /\ \A c \in 1..MaxCommands : c > count \/ c = running.pending => answers[c] = 0
    /\ AnsweredOnce

KeyInv ==
    /\ running.key # NoKey => running.key \in DOMAIN records
    /\ \A k \in DOMAIN records : ~records[k] <=> running.key = k

LoopInv == LoopTypes /\ RunInv /\ AnswerInv /\ KeyInv

RpcInv == FeedInv /\ LoopInv

----------------------------------------------------------------------------
(* The end of a run and a reconnect.                                         *)

LEMMA QueueFollows ==
    ASSUME FeedInv
    PROVE  /\ Len(queue) \in Nat
           /\ Following(Adapter, Len(queue), queue, published)
           /\ \A i \in 1..Len(queue) : queue[i] \in Items
<1>1. Len(queue) \in Nat /\ \A i \in 1..Len(queue) : queue[i] \in Items
  BY LenProperties, ElementOfSeq DEF FeedInv, FeedTypes
<1>2. ASSUME NEW i \in 1..Len(queue), ~queue[i].lag
      PROVE  IF i = 1 THEN Accounts(Adapter, queue[i].seq - 1)
                      ELSE queue[i].seq - 1 <= queue[i - 1].seq
  <2>1. ReachedAt(i - 1, queue[i].seq - 1)
    BY <1>2 DEF FeedInv, QueueChained
  <2> QED
    BY <1>1, <2>1 DEF ReachedAt
<1> QED
  BY <1>1, <1>2 DEF Following, FeedInv, FeedTypes

\* Accounting goes on with the adapter.
LEMMA OnwardAccounts ==
    ASSUME NEW st \in AdapterStates, NEW other \in AdapterStates, Onward(st, other),
           NEW e \in Int, Accounts(st, e)
    PROVE  Accounts(other, e)
BY DEF AdapterStates, Onward, Accounts

(* finish_coding_running_prompt leaves the adapter sound, and a run whose result came   *)
(* has everything that its session published accounted for.                            *)
LEMMA DrainedSound ==
    ASSUME FeedInv
    PROVE  /\ AdapterSound(Drained, published)
           /\ task.at = "done" => \A e \in 1..published : Accounts(Drained, e)
<1> DEFINE n == Len(queue)
           reports == {i \in DOMAIN queue : queue[i].lag}
           Built(f) == f = [i \in 0..Len(queue) |->
                               IF i = 0 THEN Adapter ELSE Deliver(f[i - 1], queue[i])]
           after == CHOOSE f : Built(f)
<1>1. /\ n \in Nat /\ Following(Adapter, n, queue, published)
      /\ \A i \in 1..n : queue[i] \in Items
  BY QueueFollows
<1>2. published \in Nat /\ AdapterSound(Adapter, published) /\ Adapter \in AdapterStates
  BY DEF FeedInv, FeedTypes, AdapterSound
<1>3. DOMAIN queue = 1..n
  BY LenProperties DEF FeedInv, FeedTypes
<1>4. Built(after)
  <2>1. \E f : Delivered(f, Adapter, n, queue)
    <3> HIDE DEF n
    <3> QED
      BY <1>1, <1>2, DeliveredExists
  <2>2. \E f : Built(f)
    BY <2>1 DEF Delivered
  <2> HIDE DEF Built
  <2> QED
    BY <2>2
<1>5. Drained = IF reports = {} THEN after[Len(queue)]
                ELSE [after[Min(reports)] EXCEPT !.excused = published]
  BY Zenon DEF Drained
<1>6. Delivered(after, Adapter, n, queue)
  <2> HIDE DEF after
  <2> QED
    BY <1>4 DEF Delivered
<1> HIDE DEF after, Built
<1>7. \A i \in 0..n : /\ AdapterSound(after[i], published)
                      /\ Onward(Adapter, after[i])
                      /\ i # 0 => Accounts(after[i], queue[i].seq)
  <2> HIDE DEF n
  <2> QED
    BY <1>1, <1>2, <1>6, DeliveredSound
<1>8. CASE reports = {}
  <2>1. AdapterSound(Drained, published) /\ Drained = after[n] /\ Onward(Adapter, Drained)
    BY <1>1, <1>5, <1>7, <1>8
  <2>2. ASSUME task.at = "done", NEW e \in 1..published PROVE Accounts(Drained, e)
    <3>1. Reached(published)
      BY <2>2 DEF FeedInv, TaskChained
    <3>2. Drained \in AdapterStates
      BY <2>1 DEF AdapterSound
    <3>3. Accounts(Drained, published)
      <4>1. CASE n = 0
        BY <1>2, <2>1, <3>1, <3>2, <4>1, OnwardAccounts DEF Reached, ReachedAt
      <4>2. CASE n # 0
        <5>1. published <= queue[n].seq /\ Accounts(Drained, queue[n].seq)
          BY <1>1, <1>7, <2>1, <3>1, <4>2 DEF Reached, ReachedAt
        <5>2. queue[n].seq \in Nat
          BY <1>1, <4>2 DEF Items
        <5> QED
          BY <1>2, <3>2, <5>1, <5>2 DEF Accounts, AdapterStates
      <4> QED
        BY <4>1, <4>2
    <3> QED
      BY <1>2, <3>2, <3>3 DEF Accounts, AdapterStates
  <2> QED
    BY <2>1, <2>2
<1>9. CASE reports # {}
  <2>1. Min(reports) \in 0..n
    <3>1. reports \subseteq 1..n /\ reports \in SUBSET Nat
      BY <1>1, <1>3
    <3>2. \E m \in reports : \A k \in reports : m <= k
      <4> HIDE DEF reports
      <4> QED
        BY <1>9, <3>1, NatLeast
    <3>3. Min(reports) \in reports
      <4> HIDE DEF reports
      <4> QED
        BY <3>2, Zenon DEF Min
    <3> QED
      BY <1>1, <3>1, <3>3
  <2> DEFINE st == after[Min(reports)]
             new == [st EXCEPT !.excused = published]
  <2>2. Drained = new
    BY <1>5, <1>9
  <2>3. AdapterSound(st, published)
    BY <1>7, <2>1
  <2> HIDE DEF st
  <2>4. /\ st \in AdapterStates /\ st.applied \in Nat /\ st.excused \in Nat
        /\ st.applied <= published
    BY <2>3 DEF AdapterSound, AdapterStates
  <2>5. /\ new \in AdapterStates /\ new.applied = st.applied /\ new.shown = st.shown
        /\ new.excused = published
    BY <1>2, <2>4 DEF AdapterStates
  <2> HIDE DEF new
  <2>6. AdapterSound(new, published)
    <3>1. \A e \in 1..st.applied : ~(e > published)
      BY <1>2, <2>4
    <3> QED
      BY <1>2, <2>3, <2>5, <3>1 DEF AdapterSound
  <2>7. \A e \in 1..published : Accounts(new, e)
    BY <1>2, <2>5 DEF Accounts
  <2> QED
    BY <2>2, <2>6, <2>7
<1> QED
  BY <1>8, <1>9

(* reconnect_running_prompt_after from a cursor that is no gap.                         *)
LEMMA ReplayedSound ==
    ASSUME FeedInv, NEW cursor \in 0..published, ~RetainedGap(cursor)
    PROVE  AdapterSound(Replayed(cursor), published) /\ Onward(Adapter, Replayed(cursor))
<1> DEFINE before == Max({cursor, Oldest - 1})
           known == IF cursor = 0 THEN Oldest - 1 ELSE Min({cursor, published})
           base == [Adapter EXCEPT !.excused = Max({@, known})]
           n == published - before
           items == [i \in 1..n |-> Item(before + i, FALSE)]
           Built(f) == f = [i \in 0..(published - before) |->
                               IF i = 0 THEN base ELSE PushLive(f[i - 1], before + i)]
           after == CHOOSE f : Built(f)
<1>1. published \in Nat /\ AdapterSound(Adapter, published)
  BY DEF FeedInv, FeedTypes
<1>2. Oldest - 1 \in Nat /\ Oldest - 1 <= published
  BY <1>1, FeedAssumption DEF Oldest
<1>3. before \in Nat /\ before <= published /\ n \in Nat /\ cursor <= before /\ Oldest - 1 <= before
  BY <1>1, <1>2, MaxOfTwo
<1>4. known \in Nat /\ known <= published /\ before <= known
  <2>1. CASE cursor = 0
    <3>1. before = Oldest - 1
      BY <1>2, <2>1, MaxOfTwo
    <3> QED
      BY <1>2, <2>1, <3>1
  <2>2. CASE cursor # 0
    <3>1. Oldest - 1 < cursor
      BY <1>1, <1>2, <2>2, FeedAssumption DEF RetainedGap, Oldest
    <3>2. before = cursor
      BY <1>2, <3>1, MaxOfTwo
    <3>3. Min({cursor, published}) = cursor
      BY <1>1, MinOfTwo
    <3> QED
      BY <1>1, <2>2, <3>2, <3>3
  <2> QED
    BY <2>1, <2>2
<1> HIDE DEF before, known
<1>5. /\ AdapterSound(base, published) /\ Onward(Adapter, base) /\ Accounts(base, before)
      /\ base \in AdapterStates
  <2> DEFINE m == Max({excused, known})
  <2>1. /\ Adapter \in AdapterStates /\ Adapter.excused = excused /\ excused \in Nat
        /\ excused <= published /\ Adapter.applied \in Nat
    BY <1>1 DEF AdapterSound, AdapterStates, Adapter
  <2>2. m \in Nat /\ excused <= m /\ known <= m /\ m <= published
    BY <1>1, <1>4, <2>1, MaxOfTwo
  <2>3. base = [Adapter EXCEPT !.excused = m]
    BY <2>1
  <2> HIDE DEF m, base
  <2>4. /\ base \in AdapterStates /\ base.applied = Adapter.applied
        /\ base.shown = Adapter.shown /\ base.excused = m
    BY <2>1, <2>2, <2>3 DEF AdapterStates
  <2>5. \A e \in 1..Adapter.applied : e > m => e > Adapter.excused
    BY <2>1, <2>2
  <2>6. AdapterSound(base, published)
    BY <1>1, <2>2, <2>4, <2>5 DEF AdapterSound
  <2>7. Onward(Adapter, base) /\ Accounts(base, before)
    BY <1>3, <1>4, <2>1, <2>2, <2>4 DEF Onward, Accounts
  <2> QED
    BY <2>4, <2>6, <2>7
<1> HIDE DEF base
<1>6. \A i \in 1..n : items[i] \in Items /\ items[i].seq = before + i /\ items[i].lag = FALSE
  BY <1>1, <1>3 DEF Items, Item
<1> HIDE DEF items
<1>7. Following(base, n, items, published)
  <2>1. \A i \in 1..n : items[i].seq \in 1..published
    BY <1>1, <1>3, <1>6
  <2>2. ASSUME NEW i \in 1..n
        PROVE  IF i = 1 THEN Accounts(base, items[i].seq - 1)
                        ELSE items[i].seq - 1 <= items[i - 1].seq
    <3>1. CASE i = 1
      <4>1. items[i].seq - 1 = before
        BY <1>3, <1>6, <3>1
      <4> QED
        BY <1>5, <3>1, <4>1
    <3>2. CASE i # 1
      <4>1. i - 1 \in 1..n
        BY <1>3, <3>2
      <4> QED
        BY <1>3, <1>6, <3>2, <4>1
    <3> QED
      BY <3>1, <3>2
  <2> QED
    BY <1>6, <2>1, <2>2 DEF Following
<1>8. ASSUME NEW i \in 1..n, NEW st PROVE Deliver(st, items[i]) = PushLive(st, before + i)
  BY <1>6 DEF Deliver
<1>9. ASSUME NEW f PROVE Delivered(f, base, n, items) <=> Built(f)
  <2>1. ASSUME NEW i \in 0..n
        PROVE  (IF i = 0 THEN base ELSE Deliver(f[i - 1], items[i]))
                  = (IF i = 0 THEN base ELSE PushLive(f[i - 1], before + i))
    <3>1. i # 0 => i \in 1..n
      BY <1>3
    <3> QED
      BY <1>8, <3>1
  <2> QED
    BY <2>1 DEF Delivered
<1>10. Built(after)
  <2>1. \E f : Built(f)
    <3> HIDE DEF n, Built
    <3> QED
      BY <1>3, <1>5, <1>6, <1>9, DeliveredExists
  <2> HIDE DEF Built
  <2> QED
    BY <2>1
<1>11. Replayed(cursor) = after[published - before]
  BY Zenon DEF Replayed, before, known, base
<1> HIDE DEF after
<1>12. Delivered(after, base, n, items)
  <2> HIDE DEF Built
  <2> QED
    BY <1>9, <1>10
<1>13. AdapterSound(after[n], published) /\ Onward(base, after[n])
  <2>1. n \in 0..n
    BY <1>3
  <2> HIDE DEF n
  <2> QED
    BY <1>1, <1>3, <1>5, <1>7, <1>12, <2>1, DeliveredSound
<1>14. Onward(Adapter, after[n])
  <2> HIDE DEF n
  <2>1. /\ Adapter \in AdapterStates /\ base \in AdapterStates /\ after[n] \in AdapterStates
    BY <1>1, <1>5, <1>13 DEF AdapterSound
  <2> QED
    BY <1>5, <1>13, <2>1 DEF Onward, AdapterStates
<1> QED
  BY <1>11, <1>13, <1>14

----------------------------------------------------------------------------
(* The steps of the event path.                                              *)

LEMMA AdapterLater ==
    ASSUME NEW st, NEW top \in Nat, NEW later \in Nat, AdapterSound(st, top), top <= later
    PROVE  AdapterSound(st, later)
<1>1. st.applied \in Nat /\ st.excused \in Nat
  BY DEF AdapterSound, AdapterStates
<1> QED
  BY <1>1 DEF AdapterSound

LEMMA FeedInitial ==
    ASSUME FeedInit
    PROVE  FeedInv
<1>1. Adapter = [applied |-> 0, shown |-> <<>>, excused |-> 0, closed |-> FALSE]
  BY DEF FeedInit, Adapter
<1>2. AdapterSound(Adapter, 0)
  <2>1. <<>> \in Seq(Nat) /\ Len(<<>>) = 0
    BY EmptySeq
  <2> QED
    BY <1>1, <2>1 DEF AdapterSound, AdapterStates
<1>3. FeedTypes
  <2>1. <<>> \in Seq(Items) /\ Len(<<>>) = 0
    BY EmptySeq
  <2> QED
    BY <2>1, FeedAssumption DEF FeedInit, FeedTypes, Tasks, Items, NoTask, Nothing, Item
<1>4. QueueChained /\ TaskChained
  BY DEF FeedInit, QueueChained, TaskChained, NoTask
<1> QED
  BY <1>2, <1>3, <1>4 DEF FeedInv, FeedInit

\* What is reached stays reached when neither the queue nor the adapter changes.
LEMMA SameReach ==
    ASSUME UNCHANGED <<queue, applied, excused>>
    PROVE  /\ QueueChained => QueueChained'
           /\ \A e : Reached(e) <=> (Reached(e))'
BY DEF QueueChained, Reached, ReachedAt, Accounts, Adapter

\* A step in which the task stands still.
LEMMA TaskKeeps ==
    ASSUME TaskChained, UNCHANGED <<task, published>>, \A e \in Int : Reached(e) => (Reached(e))',
           task.at = "none" => queue' = <<>>, FeedTypes
    PROVE  TaskChained'
<1>1. /\ published \in Int /\ task.rcv \in Int
      /\ task.hold.seq - 1 \in Int
  BY DEF FeedTypes, Tasks, Items
<1> QED
  BY <1>1 DEF TaskChained

\* A step of the task that leaves the queue and the adapter alone.
LEMMA TaskMoves ==
    ASSUME FeedInv, UNCHANGED <<queue, closed, applied, shown, excused>>,
           published' \in Nat, published <= published',
           task' \in Tasks, task'.rcv <= published',
           task'.hold # Nothing => task'.hold.seq \in 1..published',
           TaskChained'
    PROVE  FeedInv'
<1>1. published \in Nat /\ queue \in Seq(Items) /\ Len(queue) <= QueueCap
      /\ \A i \in 1..Len(queue) : queue[i].seq \in 1..published
  BY DEF FeedInv, FeedTypes
<1>2. FeedTypes'
  <2>1. \A i \in 1..Len(queue) : queue[i].seq \in 1..published'
    BY <1>1
  <2> QED
    BY <1>1, <2>1 DEF FeedTypes
<1>3. AdapterSound(Adapter, published)'
  <2>1. Adapter' = Adapter
    BY DEF Adapter
  <2>2. AdapterSound(Adapter, published')
    BY <1>1, AdapterLater DEF FeedInv
  <2> QED
    BY <2>1, <2>2
<1>4. QueueChained'
  BY SameReach DEF FeedInv
<1> QED
  BY <1>2, <1>3, <1>4 DEF FeedInv

LEMMA EmitSafe ==
    ASSUME FeedInv, Emit
    PROVE  FeedInv'
<1>1. /\ published \in Nat /\ task \in Tasks /\ task.rcv <= published /\ task.at = "op"
      /\ task.rcv \in Nat /\ task.emits \in Nat
      /\ task.hold # Nothing => task.hold.seq \in 1..published
  BY DEF FeedInv, FeedTypes, Tasks, Emit
<1>2. /\ UNCHANGED <<queue, closed, applied, shown, excused>> /\ published' = published + 1
      /\ task' = [task EXCEPT !.emits = @ + 1]
  BY DEF Emit
<1>3. /\ task' \in Tasks /\ task'.rcv = task.rcv /\ task'.at = task.at /\ task'.hold = task.hold
  BY <1>1, <1>2 DEF Tasks
<1>4. TaskChained'
  <2>1. \A e : Reached(e) <=> (Reached(e))'
    BY <1>2, SameReach
  <2> QED
    BY <1>1, <1>3, <2>1 DEF FeedInv, TaskChained
<1> QED
  BY <1>1, <1>2, <1>3, <1>4, TaskMoves

\* The next event, as the receiver hands it out.
LEMMA ReceivedNext ==
    ASSUME FeedInv, UNCHANGED <<queue, closed, applied, shown, excused, published>>,
           task.at \in {"op", "drain"}, task.hold = Nothing,
           NEW next \in 1..published, next - 1 = task.rcv,
           NEW item \in Items, item.seq = next, item # Nothing,
           task' \in Tasks, task'.at = task.at, task'.rcv = next, task'.hold = item
    PROVE  FeedInv'
<1>1. /\ published \in Nat /\ next \in Nat /\ next <= published /\ Reached(next - 1)
  BY DEF FeedInv, FeedTypes, TaskChained
<1>2. (Reached(next - 1))'
  BY <1>1, SameReach
<1>3. TaskChained'
  <2>1. next <= item.seq
    BY <1>1
  <2> QED
    BY <1>2, <2>1 DEF TaskChained
<1>4. published' = published
  OBVIOUS
<1> QED
  BY <1>1, <1>3, <1>4, TaskMoves

(* A receiver that lags is moved on and told so; what it is moved past is reported.     *)
LEMMA ForwardSafe ==
    ASSUME FeedInv, Forward
    PROVE  FeedInv'
<1>1. /\ published \in Nat /\ task \in Tasks /\ task.rcv \in Nat /\ ChannelCap \in Nat
      /\ task.at = "op" /\ task.hold = Nothing /\ task.rcv < published
  BY FeedAssumption DEF FeedInv, FeedTypes, Tasks, Forward
<1>2. /\ UNCHANGED <<queue, closed, applied, shown, excused, published>>
      /\ task' = [Received EXCEPT !.fwd = ~Lags]
  BY DEF Forward
<1>3. CASE ~Lags
  <2>0. PICK next \in 1..published : next = task.rcv + 1
    BY <1>1
  <2>1. PICK item \in Items : item = Item(next, FALSE) /\ item.seq = next /\ item # Nothing
    <3>1. /\ Item(next, FALSE) \in Items /\ Item(next, FALSE).seq = next
          /\ Item(next, FALSE) # Nothing
      BY <1>1 DEF Items, Item, Nothing
    <3> QED
      BY <3>1, Zenon
  <2>2. task' = [task EXCEPT !.rcv = next, !.hold = item, !.fwd = TRUE]
    <3>1. Received = [task EXCEPT !.rcv = next, !.hold = item]
      BY <1>1, <1>3, <2>0, <2>1 DEF Received, Tasks
    <3>2. (~Lags) = TRUE
      BY <1>3 DEF Lags
    <3> QED
      BY <1>1, <1>2, <3>1, <3>2 DEF Tasks
  <2>3. task' \in Tasks /\ task'.rcv = next /\ task'.at = task.at /\ task'.hold = item
    <3>1. next \in Nat /\ TRUE \in BOOLEAN
      OBVIOUS
    <3> DEFINE u == [task EXCEPT !.rcv = next, !.hold = item, !.fwd = TRUE]
    <3>2. u \in Tasks /\ u.rcv = next /\ u.at = task.at /\ u.hold = item
      <4>1. task \in Tasks /\ next \in Nat /\ item \in Items
        BY <1>1, <2>1, <3>1
      <4> QED
        BY <4>1 DEF Tasks
    <3>3. task' = u
      BY <2>2
    <3> HIDE DEF u
    <3> QED
      BY <3>2, <3>3, Zenon
  <2>4. next - 1 = task.rcv
    BY <1>1, <2>0
  <2> QED
    BY <1>1, <1>2, <2>1, <2>3, <2>4, ReceivedNext
<1>4. CASE Lags
  <2> DEFINE item == Item(published - ChannelCap, TRUE)
  <2>1. /\ published - ChannelCap \in 1..published /\ task.rcv < published - ChannelCap
    BY <1>1, <1>4, FeedAssumption DEF Lags
  <2>2. item \in Items /\ item.seq = published - ChannelCap /\ item # Nothing /\ item.lag
    BY <1>1, <2>1 DEF Items, Item, Nothing
  <2>3. Received = [task EXCEPT !.rcv = published - ChannelCap, !.hold = item]
    BY <1>4 DEF Received
  <2> HIDE DEF item
  <2>4. /\ task' \in Tasks /\ task'.rcv = published - ChannelCap /\ task'.at = "op"
        /\ task'.hold = item
    <3>0. (~Lags) = FALSE
      BY <1>4 DEF Lags
    <3>1. published - ChannelCap \in Nat
      BY <2>1
    <3> DEFINE u == [task EXCEPT !.rcv = published - ChannelCap, !.hold = item, !.fwd = FALSE]
    <3>2. u \in Tasks /\ u.rcv = published - ChannelCap /\ u.at = task.at /\ u.hold = item
      <4>1. task \in Tasks /\ published - ChannelCap \in Nat /\ item \in Items
        BY <1>1, <2>2, <3>1
      <4> QED
        BY <4>1 DEF Tasks
    <3>3. task' = u
      BY <1>1, <1>2, <2>3, <3>0
    <3> HIDE DEF u
    <3> QED
      BY <1>1, <3>2, <3>3, Zenon
  <2>5. TaskChained'
    BY <1>1, <2>1, <2>2, <2>4 DEF TaskChained
  <2> QED
    BY <1>1, <1>2, <2>1, <2>2, <2>4, <2>5, TaskMoves
<1> QED
  BY <1>3, <1>4

(* The drain ends with everything reached: it read up to the last event, or its lag     *)
(* report accounts for all of them.                                                    *)
LEMMA DrainReceiverSafe ==
    ASSUME FeedInv, DrainReceiver
    PROVE  FeedInv'
<1>1. /\ published \in Nat /\ task \in Tasks /\ task.rcv \in Nat /\ task.rcv <= published
      /\ task.at \in {"drain", "last"} /\ task.hold = Nothing
  BY DEF FeedInv, FeedTypes, Tasks, DrainReceiver
<1>2. UNCHANGED <<queue, closed, applied, shown, excused, published>>
  BY DEF DrainReceiver
<1>3. \A e : Reached(e) <=> (Reached(e))'
  BY <1>2, SameReach
<1>4. CASE task.at = "last" \/ task.rcv = published
  <2>1. task' = [task EXCEPT !.at = "done"]
    BY <1>4 DEF DrainReceiver
  <2>2. /\ task' \in Tasks /\ task'.rcv = task.rcv /\ task'.at = "done" /\ task'.hold = Nothing
    BY <1>1, <2>1 DEF Tasks
  <2>3. Reached(published)
    BY <1>1, <1>4 DEF FeedInv, TaskChained
  <2>4. (Reached(published))'
    BY <1>2, <1>3, <2>3
  <2>5. TaskChained'
    BY <2>2, <2>4 DEF TaskChained
  <2> QED
    BY <1>1, <1>2, <2>2, <2>5, TaskMoves
<1>5. CASE ~(task.at = "last" \/ task.rcv = published) /\ Lags
  <2> DEFINE item == Item(published, TRUE)
  <2>1. published \in 1..published
    BY <1>1, <1>5
  <2>2. item \in Items /\ item.seq = published /\ item # Nothing /\ item.lag
    BY <1>1, <2>1 DEF Items, Item, Nothing
  <2>3. task' = [task EXCEPT !.at = "last", !.hold = item]
    BY <1>5 DEF DrainReceiver
  <2> HIDE DEF item
  <2>4. /\ task' \in Tasks /\ task'.rcv = task.rcv /\ task'.at = "last" /\ task'.hold = item
    BY <1>1, <2>2, <2>3 DEF Tasks
  <2>5. TaskChained'
    BY <1>1, <1>2, <2>2, <2>4 DEF TaskChained
  <2> QED
    BY <1>1, <1>2, <2>1, <2>2, <2>4, <2>5, TaskMoves
<1>6. CASE ~(task.at = "last" \/ task.rcv = published) /\ ~Lags
  <2>0. PICK next \in 1..published : next = task.rcv + 1
    BY <1>1, <1>6
  <2>1. PICK item \in Items : item = Item(next, FALSE) /\ item.seq = next /\ item # Nothing
    <3>1. /\ Item(next, FALSE) \in Items /\ Item(next, FALSE).seq = next
          /\ Item(next, FALSE) # Nothing
      BY <1>1 DEF Items, Item, Nothing
    <3> QED
      BY <3>1, Zenon
  <2>2. task' = [task EXCEPT !.rcv = next, !.hold = item, !.fwd = task.fwd]
    <3>1. task' = [task EXCEPT !.rcv = next, !.hold = item]
      BY <1>1, <1>6, <2>0, <2>1 DEF DrainReceiver, Received, Tasks
    <3> QED
      BY <1>1, <3>1 DEF Tasks
  <2>3. task' \in Tasks /\ task'.rcv = next /\ task'.at = task.at /\ task'.hold = item
    <3>1. next \in Nat
      OBVIOUS
    <3> DEFINE u == [task EXCEPT !.rcv = next, !.hold = item, !.fwd = task.fwd]
    <3>2. u \in Tasks /\ u.rcv = next /\ u.at = task.at /\ u.hold = item
      <4>1. task \in Tasks /\ next \in Nat /\ item \in Items
        BY <1>1, <2>1, <3>1
      <4> QED
        BY <4>1 DEF Tasks
    <3>3. task' = u
      BY <2>2
    <3> HIDE DEF u
    <3> QED
      BY <3>2, <3>3, Zenon
  <2>4. next - 1 = task.rcv /\ task.at \in {"op", "drain"}
    BY <1>1, <1>6, <2>0
  <2> QED
    BY <1>1, <1>2, <2>1, <2>3, <2>4, ReceivedNext
<1> QED
  BY <1>4, <1>5, <1>6

LEMMA TaskDiesSafe ==
    ASSUME FeedInv, TaskDies
    PROVE  FeedInv'
<1>1. /\ published \in Nat /\ task \in Tasks /\ task.rcv \in Nat /\ task.rcv <= published
  BY DEF FeedInv, FeedTypes, Tasks
<1>2. /\ UNCHANGED <<queue, closed, applied, shown, excused, published>>
      /\ task' = [task EXCEPT !.at = "died", !.hold = Nothing]
  BY DEF TaskDies
<1>3. Nothing \in Items
  BY DEF Items, Nothing, Item
<1>4. /\ task' \in Tasks /\ task'.rcv = task.rcv /\ task'.at = "died" /\ task'.hold = Nothing
  BY <1>1, <1>2, <1>3 DEF Tasks
<1>5. TaskChained'
  BY <1>4 DEF TaskChained
<1> QED
  BY <1>1, <1>2, <1>4, <1>5, TaskMoves

\* The operation is admitted or refused.
LEMMA AdmitSafe ==
    ASSUME FeedInv, Admit
    PROVE  FeedInv'
<1>1. /\ published \in Nat /\ task \in Tasks /\ task.rcv \in Nat /\ task.rcv <= published
      /\ task.at = "start" /\ task.hold = Nothing /\ Reached(task.rcv)
  BY DEF FeedInv, FeedTypes, Tasks, TaskChained, Admit
<1>2. /\ UNCHANGED <<queue, closed, applied, shown, excused, published>>
      /\ \E at \in {"drain", "op"}, ok \in BOOLEAN : task' = [task EXCEPT !.at = at, !.ok = ok]
  BY DEF Admit
<1>3. /\ task' \in Tasks /\ task'.rcv = task.rcv /\ task'.at \in {"drain", "op"}
      /\ task'.hold = Nothing
  BY <1>1, <1>2 DEF Tasks
<1>4. TaskChained'
  <2>1. \A e : Reached(e) <=> (Reached(e))'
    BY <1>2, SameReach
  <2>2. (Reached(task.rcv))'
    BY <1>1, <1>3, <2>1
  <2> QED
    BY <1>3, <2>2 DEF TaskChained
<1> QED
  BY <1>1, <1>2, <1>3, <1>4, TaskMoves

\* The terminal event is published and the drain begins.
LEMMA OperationEndsSafe ==
    ASSUME FeedInv, NEW ok \in BOOLEAN, OperationEnds(ok)
    PROVE  FeedInv'
<1>1. /\ published \in Nat /\ task \in Tasks /\ task.rcv \in Nat /\ task.rcv <= published
      /\ task.at = "op" /\ task.hold = Nothing /\ Reached(task.rcv)
  BY DEF FeedInv, FeedTypes, Tasks, TaskChained, OperationEnds
<1>2. /\ UNCHANGED <<queue, closed, applied, shown, excused>> /\ published' = published + 1
      /\ task' = [task EXCEPT !.at = "drain", !.ok = ok]
  BY DEF OperationEnds
<1>3. /\ task' \in Tasks /\ task'.rcv = task.rcv /\ task'.at = "drain" /\ task'.hold = Nothing
  BY <1>1, <1>2 DEF Tasks
<1>4. TaskChained'
  <2>1. \A e : Reached(e) <=> (Reached(e))'
    BY <1>2, SameReach
  <2>2. (Reached(task.rcv))'
    BY <1>1, <1>3, <2>1
  <2> QED
    BY <1>3, <2>2 DEF TaskChained
<1> QED
  BY <1>1, <1>2, <1>3, <1>4, TaskMoves

(* send_event and send_overflow put at the end of the queue what comes next there.       *)
LEMMA PushSafe ==
    ASSUME FeedInv, Push
    PROVE  FeedInv'
<1> DEFINE n == Len(queue)
           item == task.hold
<1>1. /\ published \in Nat /\ task \in Tasks /\ task.rcv <= published /\ task.rcv \in Nat
      /\ item \in Items /\ item.seq \in 1..published /\ item # Nothing
      /\ queue \in Seq(Items) /\ n < QueueCap
      /\ \A i \in 1..n : queue[i].seq \in 1..published
  BY DEF FeedInv, FeedTypes, Tasks, Push
<1>2. /\ UNCHANGED <<published, closed, applied, shown, excused>>
      /\ queue' = Append(queue, item) /\ task' = [task EXCEPT !.hold = Nothing]
  BY DEF Push
<1>3. Nothing \in Items
  BY DEF Items, Nothing, Item
<1>4. /\ task' \in Tasks /\ task'.rcv = task.rcv /\ task'.at = task.at /\ task'.hold = Nothing
  BY <1>1, <1>2, <1>3 DEF Tasks
<1>5. n \in Nat
  BY <1>1, LenProperties
<1> HIDE DEF item
<1>6. /\ queue' \in Seq(Items) /\ Len(queue') = n + 1 /\ queue'[n + 1] = item
      /\ \A i \in 1..n : queue'[i] = queue[i]
  BY <1>1, <1>2, AppendProperties
<1>7. /\ item.lag \/ Reached(item.seq - 1)
      /\ task.at \in {"op", "drain"} => task.rcv <= item.seq
      /\ task.at = "last" => item.seq = published
      /\ task.at \in {"op", "drain", "last"}
  BY <1>1 DEF FeedInv, TaskChained, item, Tasks
<1>8. \A i \in 1..n : queue[i].lag \/ ReachedAt(i - 1, queue[i].seq - 1)
  BY DEF FeedInv, QueueChained
<1>9. AdapterSound(Adapter, published)'
  BY <1>2 DEF FeedInv, Adapter
<1>10. Reached(item.seq - 1) => ReachedAt(n, item.seq - 1)
  BY DEF Reached
<1> HIDE DEF n
<1>11. \A i \in 1..Len(queue') : i = n + 1 \/ i \in 1..n
  BY <1>5, <1>6
<1>12. FeedTypes'
  <2>1. \A i \in 1..Len(queue') : queue'[i].seq \in 1..published
    BY <1>1, <1>6, <1>11
  <2>2. Len(queue') <= QueueCap
    BY <1>1, <1>5, <1>6, FeedAssumption
  <2> QED
    BY <1>1, <1>2, <1>4, <1>6, <2>1, <2>2 DEF FeedTypes
<1>13. ASSUME NEW i \in 0..n, NEW e, ReachedAt(i, e) PROVE (ReachedAt(i, e))'
  <2>1. i # 0 => i \in 1..n
    BY <1>5
  <2> QED
    BY <1>2, <1>6, <1>13, <2>1 DEF ReachedAt, Accounts, Adapter
<1>14. ASSUME NEW i \in 1..Len(queue')
       PROVE  queue'[i].lag \/ (ReachedAt(i - 1, queue[i].seq - 1))'
  <2>1. CASE i = n + 1
    <3>1. i - 1 = n /\ n \in 0..n
      BY <1>5, <2>1
    <3> QED
      BY <1>6, <1>7, <1>10, <1>13, <2>1, <3>1
  <2>2. CASE i \in 1..n
    <3>1. i - 1 \in 0..n
      BY <1>5, <2>2
    <3>2. queue[i].lag \/ ReachedAt(i - 1, queue[i].seq - 1)
      BY <1>8, <2>2
    <3>3. queue'[i] = queue[i]
      BY <1>6, <2>2
    <3> QED
      BY <1>13, <3>1, <3>2, <3>3
  <2> QED
    BY <1>11, <2>1, <2>2
<1>15. QueueChained'
  BY <1>14 DEF QueueChained
<1>16. \A e : e <= item.seq => (Reached(e))'
  <2>1. n + 1 # 0
    BY <1>5
  <2> QED
    BY <1>6, <2>1 DEF Reached, ReachedAt
<1>17. TaskChained'
  <2>1. published <= published
    BY <1>1
  <2> QED
    BY <1>2, <1>4, <1>7, <1>16, <2>1 DEF TaskChained
<1> QED
  BY <1>9, <1>12, <1>15, <1>17 DEF FeedInv

\* The adapter takes a state.
LEMMA AdapterTaken ==
    ASSUME NEW st \in AdapterStates, AdapterIs(st)
    PROVE  Adapter' = st
BY DEF AdapterStates, AdapterIs, Adapter

(* The loop takes the first item of the queue: what the queue and the adapter reach      *)
(* together stays the same.                                                             *)
LEMMA ReceiveQueuedSafe ==
    ASSUME FeedInv, ReceiveQueued
    PROVE  FeedInv'
<1> DEFINE head == queue[1]
           new == Deliver(Adapter, head)
           m == Len(queue) - 1
<1>1. /\ published \in Nat /\ task \in Tasks /\ task.rcv <= published
      /\ task.hold # Nothing => task.hold.seq \in 1..published
      /\ queue \in Seq(Items) /\ queue # <<>> /\ Len(queue) <= QueueCap
      /\ \A i \in 1..Len(queue) : queue[i].seq \in 1..published
  BY DEF FeedInv, FeedTypes, ReceiveQueued
<1>2. m \in Nat /\ Len(queue) = m + 1
  BY <1>1, LenProperties, EmptySeq
<1>3. /\ queue' \in Seq(Items) /\ Len(queue') = m
      /\ \A i \in 1..m : queue'[i] = queue[i + 1]
  <2>1. queue' = Tail(queue)
    BY DEF ReceiveQueued
  <2> QED
    BY <1>1, <2>1, HeadTailProperties
<1>4. Head(queue) = head
  BY <1>1
<1>5. \A i \in 1..(m + 1) : queue[i] \in Items /\ queue[i].seq \in 1..published
  BY <1>1, <1>2, ElementOfSeq
<1> HIDE DEF m
<1>6. \A i \in 1..(m + 1) : queue[i].lag \/ ReachedAt(i - 1, queue[i].seq - 1)
  BY <1>2 DEF FeedInv, QueueChained
<1>7. head \in Items /\ head.seq \in 1..published
      /\ (head.lag \/ Accounts(Adapter, head.seq - 1))
  <2>1. 1 \in 1..(m + 1) /\ 1 - 1 = 0
    BY <1>2
  <2>2. queue[1].lag \/ ReachedAt(0, queue[1].seq - 1)
    BY <1>6, <2>1
  <2> QED
    BY <1>5, <2>1, <2>2 DEF ReachedAt
<1>8. AdapterSound(new, published) /\ Onward(Adapter, new) /\ Accounts(new, head.seq)
  <2> HIDE DEF head
  <2> QED
    BY <1>1, <1>7, DeliverSound DEF FeedInv, Items
<1>9. UNCHANGED <<published, task>> /\ Adapter' = new
  <2>1. new \in AdapterStates
    BY <1>8 DEF AdapterSound
  <2>2. UNCHANGED <<published, task>> /\ AdapterIs(new)
    BY <1>4 DEF ReceiveQueued
  <2> QED
    BY <2>1, <2>2, AdapterTaken
<1> HIDE DEF new
<1>10. new.applied \in Nat /\ new.excused \in Nat /\ head.seq \in Nat
  BY <1>7, <1>8 DEF AdapterSound, AdapterStates
<1>11. ASSUME NEW i \in 0..m, NEW e \in Int, ReachedAt(i + 1, e) PROVE (ReachedAt(i, e))'
  <2>1. CASE i = 0
    <3>1. e <= head.seq
      BY <1>11, <2>1 DEF ReachedAt
    <3>2. Accounts(new, e)
      <4> HIDE DEF head
      <4> QED
        BY <1>8, <1>10, <3>1 DEF Accounts
    <3> QED
      BY <1>9, <2>1, <3>2 DEF ReachedAt
  <2>2. CASE i # 0
    <3>1. i \in 1..m /\ i + 1 # 0
      BY <1>2, <2>2
    <3>2. e <= queue[i + 1].seq
      BY <1>11, <3>1 DEF ReachedAt
    <3> QED
      BY <1>3, <2>2, <3>1, <3>2 DEF ReachedAt
  <2> QED
    BY <2>1, <2>2
<1> HIDE DEF head
<1>12. FeedTypes'
  <2>1. \A i \in 1..m : i + 1 \in 1..(m + 1)
    BY <1>2
  <2>2. \A i \in 1..m : queue'[i].seq \in 1..published
    BY <1>3, <1>5, <2>1
  <2>3. Len(queue') <= QueueCap
    BY <1>1, <1>2, <1>3, FeedAssumption
  <2> QED
    BY <1>1, <1>3, <1>9, <2>2, <2>3 DEF FeedTypes
<1>13. QueueChained'
  <2>1. ASSUME NEW i \in 1..m, ~queue[i + 1].lag
        PROVE  (ReachedAt(i - 1, queue[i].seq - 1))'
    <3>1. i + 1 \in 1..(m + 1) /\ i - 1 \in 0..m /\ (i + 1) - 1 = i /\ (i - 1) + 1 = i
      BY <1>2
    <3>2. ReachedAt(i, queue[i + 1].seq - 1)
      BY <1>6, <2>1, <3>1
    <3>3. queue[i + 1].seq - 1 \in Int
      BY <1>5, <3>1
    <3>5. ASSUME NEW e \in Int, e = queue[i + 1].seq - 1 PROVE (ReachedAt(i - 1, e))'
      BY <1>11, <3>1, <3>2, <3>5
    <3>6. queue'[i] = queue[i + 1]
      BY <1>3
    <3> QED
      BY <3>3, <3>5, <3>6
  <2> QED
    BY <1>3, <2>1 DEF QueueChained
<1>14. \A e \in Int : Reached(e) => (Reached(e))'
  <2>1. m \in 0..m
    BY <1>2
  <2> QED
    BY <1>2, <1>3, <1>11, <2>1 DEF Reached
<1>15. TaskChained'
  <2>1. task.at # "none"
    BY <1>1 DEF FeedInv, TaskChained
  <2> QED
    BY <1>9, <1>14, <2>1, TaskKeeps DEF FeedInv
<1>16. AdapterSound(Adapter, published)'
  BY <1>8, <1>9
<1> QED
  BY <1>12, <1>13, <1>15, <1>16 DEF FeedInv

\* The adapter goes on while the queue and the task stand still.
LEMMA AdapterMoves ==
    ASSUME FeedInv, UNCHANGED <<published, task, queue>>,
           NEW st, AdapterSound(st, published), Onward(Adapter, st), Adapter' = st
    PROVE  FeedInv'
<1>1. /\ Adapter \in AdapterStates /\ st \in AdapterStates
      /\ Len(queue) \in Nat /\ \A i \in 1..Len(queue) : queue[i] \in Items
  BY QueueFollows DEF FeedInv, AdapterSound
<1>2. \A e \in Int : Accounts(Adapter, e) => Accounts(st, e)
  BY <1>1, OnwardAccounts
<1>3. ASSUME NEW i, NEW e \in Int, ReachedAt(i, e) PROVE (ReachedAt(i, e))'
  BY <1>2, <1>3 DEF ReachedAt
<1>4. QueueChained'
  <2>1. ASSUME NEW i \in 1..Len(queue), ~queue[i].lag
        PROVE  (ReachedAt(i - 1, queue[i].seq - 1))'
    <3>1. ReachedAt(i - 1, queue[i].seq - 1) /\ queue[i].seq - 1 \in Int
      BY <1>1, <2>1 DEF FeedInv, QueueChained, Items
    <3>2. ASSUME NEW e \in Int, e = queue[i].seq - 1 PROVE (ReachedAt(i - 1, e))'
      BY <1>3, <3>1, <3>2
    <3> QED
      BY <3>1, <3>2
  <2> QED
    BY <2>1 DEF QueueChained
<1>5. \A e \in Int : Reached(e) => (Reached(e))'
  BY <1>3 DEF Reached
<1>6. TaskChained'
  BY <1>5, TaskKeeps DEF FeedInv, TaskChained
<1>7. FeedTypes'
  BY DEF FeedInv, FeedTypes
<1> QED
  BY <1>4, <1>6, <1>7 DEF FeedInv

\* recv returns None.
LEMMA QueueEndsSafe ==
    ASSUME FeedInv, QueueEnds
    PROVE  FeedInv'
<1> DEFINE st == [applied |-> applied, shown |-> shown, excused |-> excused, closed |-> TRUE]
<1>1. AdapterSound(Adapter, published) /\ Adapter \in AdapterStates
  BY DEF FeedInv, AdapterSound
<1>2. /\ st \in AdapterStates /\ st.applied = Adapter.applied /\ st.shown = Adapter.shown
      /\ st.excused = Adapter.excused
  <2>1. applied \in Nat /\ shown \in Seq(Nat) /\ excused \in Nat
    BY <1>1 DEF Adapter, AdapterStates
  <2> QED
    BY <2>1 DEF AdapterStates, Adapter
<1>3. UNCHANGED <<published, task, queue>> /\ Adapter' = st
  BY DEF QueueEnds, Adapter
<1> HIDE DEF st
<1>4. AdapterSound(st, published) /\ Onward(Adapter, st)
  <2>1. Adapter.applied \in Nat /\ Adapter.excused \in Nat
    BY <1>1 DEF AdapterStates
  <2> QED
    BY <1>1, <1>2, <2>1 DEF AdapterSound, Onward
<1> QED
  BY <1>3, <1>4, AdapterMoves

\* A reconnect that is no gap replays what is retained.
LEMMA ReplaySafe ==
    ASSUME FeedInv, NEW cursor \in 0..published, ~RetainedGap(cursor),
           AdapterIs(Replayed(cursor)), UNCHANGED <<published, task, queue>>
    PROVE  FeedInv'
<1>1. AdapterSound(Replayed(cursor), published) /\ Onward(Adapter, Replayed(cursor))
  BY ReplayedSound
<1>2. Adapter' = Replayed(cursor)
  <2>1. Replayed(cursor) \in AdapterStates
    BY <1>1 DEF AdapterSound
  <2> QED
    BY <2>1, AdapterTaken
<1> QED
  BY <1>1, <1>2, AdapterMoves

\* Without a task there is nothing on its way.
LEMMA FeedAtRest ==
    ASSUME published' \in Nat, task' = NoTask, queue' = <<>>, AdapterSound(Adapter, published)'
    PROVE  FeedInv'
<1>1. FeedTypes'
  <2>1. <<>> \in Seq(Items) /\ Len(<<>>) = 0
    BY EmptySeq
  <2> QED
    BY <2>1, FeedAssumption DEF FeedTypes, Tasks, Items, NoTask, Nothing, Item
<1>2. QueueChained' /\ TaskChained'
  BY DEF QueueChained, TaskChained, NoTask
<1> QED
  BY <1>1, <1>2 DEF FeedInv

\* A run starts with a client that knows what was published before it.
LEMMA StartFeedSafe ==
    ASSUME FeedInv, StartFeed
    PROVE  FeedInv'
<1>1. /\ published \in Nat /\ published' = published /\ queue' = <<>>
      /\ task' = [NoTask EXCEPT !.at = "start", !.rcv = published, !.fwd = TRUE]
      /\ Adapter' = [applied |-> 0, shown |-> <<>>, excused |-> published, closed |-> FALSE]
  BY DEF FeedInv, FeedTypes, StartFeed, Adapter
<1>2. <<>> \in Seq(Items) /\ <<>> \in Seq(Nat) /\ Len(<<>>) = 0
  BY EmptySeq
<1>3. AdapterSound(Adapter, published)'
  BY <1>1, <1>2 DEF AdapterSound, AdapterStates
<1>4. /\ task' \in Tasks /\ task'.rcv = published /\ task'.at = "start" /\ task'.hold = Nothing
  BY <1>1 DEF Tasks, NoTask, Nothing, Items, Item
<1>5. FeedTypes'
  BY <1>1, <1>2, <1>4, FeedAssumption DEF FeedTypes
<1>6. (Reached(published))'
  <2>1. Accounts(Adapter', published)
    BY <1>1 DEF Accounts
  <2> QED
    BY <1>1, <1>2, <2>1 DEF Reached, ReachedAt
<1>7. QueueChained' /\ TaskChained'
  BY <1>1, <1>2, <1>4, <1>6 DEF QueueChained, TaskChained
<1> QED
  BY <1>3, <1>5, <1>7 DEF FeedInv

\* The end of a run: the adapter has drained the queue, the session may publish its shutdown.
LEMMA FinishSafe ==
    ASSUME FeedInv, AdapterIs(Drained), queue' = <<>>, task' = NoTask,
           published' \in {published, published + 1}
    PROVE  FeedInv' /\ Adapter' = Drained
<1>1. published \in Nat /\ AdapterSound(Drained, published)
  BY DrainedSound DEF FeedInv, FeedTypes
<1>2. Adapter' = Drained
  BY <1>1, AdapterTaken DEF AdapterSound
<1>3. published' \in Nat /\ published <= published'
  BY <1>1
<1>4. AdapterSound(Drained, published')
  BY <1>1, <1>3, AdapterLater
<1> QED
  BY <1>2, <1>3, <1>4, FeedAtRest

\* Without a run the session may publish: nobody is on the way.
LEMMA QuietSafe ==
    ASSUME FeedInv, task.at = "none", UNCHANGED <<task, queue, closed, applied, shown, excused>>,
           published' \in Nat, published <= published'
    PROVE  FeedInv'
<1>1. published \in Nat /\ AdapterSound(Adapter, published) /\ task = NoTask /\ queue = <<>>
  BY DEF FeedInv, FeedTypes, TaskChained
<1>2. Adapter' = Adapter
  BY DEF Adapter
<1>3. AdapterSound(Adapter, published')
  BY <1>1, AdapterLater
<1> QED
  BY <1>1, <1>2, <1>3, FeedAtRest

\* new_session forgets what was published and shown.
LEMMA ForgetSafe ==
    ASSUME FeedInv, task.at = "none", UNCHANGED <<task, queue, closed>>,
           published' = 0, applied' = 0, shown' = <<>>, excused' = 0
    PROVE  FeedInv'
<1>1. task = NoTask /\ queue = <<>> /\ Adapter.closed \in BOOLEAN
  BY DEF FeedInv, TaskChained, AdapterSound, AdapterStates
<1>2. AdapterSound(Adapter, published)'
  <2>1. <<>> \in Seq(Nat) /\ Len(<<>>) = 0
    BY EmptySeq
  <2>2. Adapter' = [applied |-> 0, shown |-> <<>>, excused |-> 0, closed |-> Adapter.closed]
    BY DEF Adapter
  <2> QED
    BY <1>1, <2>1, <2>2 DEF AdapterSound, AdapterStates
<1> QED
  BY <1>1, <1>2, FeedAtRest

LEMMA FeedStands ==
    ASSUME FeedInv, UNCHANGED feed
    PROVE  FeedInv'
<1>1. UNCHANGED <<published, task, queue>> /\ Adapter' = Adapter
  BY DEF feed, Adapter
<1>2. AdapterSound(Adapter, published) /\ Onward(Adapter, Adapter)
  BY DEF FeedInv, AdapterSound, AdapterStates, Onward
<1> QED
  BY <1>1, <1>2, AdapterMoves

----------------------------------------------------------------------------
(* The answers.                                                              *)

Submissions == [st : {"None", "Running", "Terminal"}, anchor : Nat]
Runs(c) == [kind : {"none", "prompt", "delegated"}, key : Keys \cup {NoKey}, pending : 0..c]

\* A line that is answered, or ends the loop with an error, leaves the types alone.
LEMMA LineTypes ==
    ASSUME LoopTypes, ReadLine, Reply \/ Fail
    PROVE  /\ loop' \in {"open", "eof", "ended", "failed"}
           /\ count' \in 0..MaxCommands
           /\ answers' \in [1..MaxCommands -> Nat]
           /\ running \in Runs(count')
<1>1. /\ count \in Nat /\ MaxCommands \in Nat /\ count' = count + 1 /\ count + 1 \in 1..MaxCommands
  BY LoopAssumption DEF LoopTypes, ReadLine
<1>2. answers' \in [1..MaxCommands -> Nat]
  <2>1. answers \in [1..MaxCommands -> Nat]
    BY DEF LoopTypes
  <2>2. answers[count + 1] + 1 \in Nat
    BY <1>1, <2>1
  <2> QED
    BY <1>1, <2>1, <2>2 DEF Reply, Answered, Fail
<1>3. running \in Runs(count')
  <2>1. running \in Runs(count)
    BY DEF LoopTypes, Runs
  <2>2. \A p \in 0..count : p \in 0..(count + 1)
    BY <1>1
  <2> QED
    BY <1>1, <2>1, <2>2 DEF Runs
<1>4. loop' \in {"open", "eof", "ended", "failed"}
  BY DEF LoopTypes, Reply, Fail
<1>5. count' \in 0..MaxCommands
  BY <1>1
<1> QED
  BY <1>2, <1>3, <1>4, <1>5

\* The line that was read gets its only answer.
LEMMA ReplyAnswers ==
    ASSUME LoopTypes, AnswerInv, ReadLine, Reply,
           running'.pending = running.pending
    PROVE  AnswerInv'
<1>1. /\ count \in Nat /\ MaxCommands \in Nat /\ count' = count + 1 /\ count + 1 \in 1..MaxCommands
      /\ running.pending \in 0..count /\ answers \in [1..MaxCommands -> Nat]
  BY LoopAssumption DEF LoopTypes, ReadLine
<1>2. answers' = [answers EXCEPT ![count + 1] = @ + 1] /\ loop' = loop
  BY DEF Reply, Answered
<1>3. answers[count + 1] = 0
  BY <1>1 DEF AnswerInv
<1>4. /\ \A c \in 1..MaxCommands : c # count + 1 => answers'[c] = answers[c]
      /\ answers'[count + 1] = 1
  BY <1>1, <1>2, <1>3
<1>5. ASSUME NEW c \in 1..MaxCommands, c > count' \/ c = running'.pending PROVE answers'[c] = 0
  <2>1. c # count + 1 /\ (c > count \/ c = running.pending)
    BY <1>1, <1>5
  <2> QED
    BY <1>4, <2>1 DEF AnswerInv
<1>6. ASSUME NEW c \in 1..count', c # count + 1
      PROVE  \/ answers'[c] = 1
             \/ (answers'[c] = 0 /\ (running'.pending = c \/ loop' = "failed"))
  <2>1. c \in 1..count /\ c \in 1..MaxCommands
    BY <1>1, <1>6
  <2>2. \/ answers[c] = 1
        \/ (answers[c] = 0 /\ (running.pending = c \/ loop = "failed"))
    BY <2>1 DEF AnswerInv, AnsweredOnce
  <2> QED
    BY <1>2, <1>4, <1>6, <2>1, <2>2
<1> QED
  BY <1>4, <1>5, <1>6 DEF AnswerInv, AnsweredOnce

\* No line of a loop that failed is owed an answer.
LEMMA FailAnswers ==
    ASSUME LoopTypes, AnswerInv, count' \in Nat, count <= count', loop' = "failed",
           UNCHANGED answers, count' <= MaxCommands,
           running'.pending = running.pending \/ running'.pending = 0
    PROVE  AnswerInv'
<1>1. count \in Nat /\ MaxCommands \in Nat
  BY LoopAssumption DEF LoopTypes
<1>2. ASSUME NEW c \in 1..MaxCommands, c > count' \/ c = running'.pending PROVE answers'[c] = 0
  <2>1. c > count \/ c = running.pending
    BY <1>1, <1>2
  <2> QED
    BY <2>1 DEF AnswerInv
<1>3. ASSUME NEW c \in 1..count' PROVE answers'[c] = 1 \/ answers'[c] = 0
  <2>1. CASE c \in 1..count
    BY <2>1 DEF AnswerInv, AnsweredOnce
  <2>2. CASE c \notin 1..count
    <3>1. c > count /\ c \in 1..MaxCommands
      BY <1>1, <2>2
    <3> QED
      BY <3>1 DEF AnswerInv
  <2> QED
    BY <2>1, <2>2
<1> QED
  BY <1>2, <1>3 DEF AnswerInv, AnsweredOnce

\* Nothing is read and nothing written.
LEMMA StayAnswers ==
    ASSUME AnswerInv, loop # "failed", UNCHANGED <<count, answers>>,
           running'.pending = running.pending
    PROVE  AnswerInv'
BY DEF AnswerInv, AnsweredOnce

\* The keys stay, and so does the one of the run.
LEMMA KeyStays ==
    ASSUME KeyInv, UNCHANGED records, running'.key = running.key
    PROVE  KeyInv'
BY DEF KeyInv

----------------------------------------------------------------------------
(* The commands.                                                             *)

\* The fields of the run, and that a recorded run has a kind.
LEMMA RunFields ==
    ASSUME LoopInv
    PROVE  /\ running \in Runs(count) /\ Idle \in Runs(count)
           /\ Streaming <=> running.kind # "none"
           /\ ~Streaming => running.pending = 0 /\ running.key = NoKey /\ task.at = "none"
           /\ Streaming => task.at # "none"
<1>1. running \in Runs(count) /\ count \in Nat
  BY LoopAssumption DEF LoopInv, LoopTypes, Runs
<1>2. Idle \in Runs(count)
  BY <1>1 DEF Idle, Runs
<1>3. Streaming => running.kind # "none"
  BY DEF LoopInv, RunInv
<1>4. ~Streaming => running.kind = "none" /\ running.pending = 0 /\ running.key = NoKey
  BY DEF Streaming, Idle
<1> QED
  BY <1>1, <1>2, <1>3, <1>4 DEF LoopInv, RunInv

\* A line that leaves the session, its drafts and the keys as they are.
LEMMA LineSafe ==
    ASSUME LoopInv, ReadLine, Reply \/ Fail, submitted' \in Submissions,
           UNCHANGED <<task, place, runtime, conn, drafts, queued, running, records, order>>
    PROVE  LoopInv'
<1>1. LoopTypes'
  BY LineTypes DEF LoopInv, LoopTypes, Submissions, Runs
<1>2. AnswerInv'
  <2>1. CASE Reply
    <3>1. running'.pending = running.pending
      OBVIOUS
    <3> QED
      BY <2>1, <3>1, ReplyAnswers DEF LoopInv
  <2>2. CASE Fail
    <3>1. count' \in Nat /\ count <= count' /\ count' <= MaxCommands
      BY LoopAssumption DEF ReadLine, LoopInv, LoopTypes
    <3> QED
      BY <2>2, <3>1, FailAnswers DEF LoopInv, Fail
  <2> QED
    BY <2>1, <2>2
<1>3. RunInv'
  <2>1. Alive
    BY DEF ReadLine, Alive
  <2> QED
    BY <2>1 DEF LoopInv, RunInv, Streaming, Connected
<1>4. KeyInv'
  BY KeyStays DEF LoopInv
<1> QED
  BY <1>1, <1>2, <1>3, <1>4 DEF LoopInv

\* A session taken is put back.
LEMMA PutBackSafe ==
    ASSUME LoopInv, ReadLine, ~Streaming, PutBack
    PROVE  LoopInv'
<1>1. /\ Reply /\ place' = "state"
      /\ UNCHANGED <<task, runtime, submitted, conn, drafts, queued, running, records, order>>
  BY DEF PutBack, feed
<1>2. LoopTypes'
  BY <1>1, LineTypes DEF LoopInv, LoopTypes, Runs
<1>3. AnswerInv'
  <2>1. running'.pending = running.pending
    BY <1>1
  <2> QED
    BY <1>1, <2>1, ReplyAnswers DEF LoopInv
<1>4. RunInv'
  <2>1. Alive
    BY DEF ReadLine, Alive
  <2> QED
    BY <1>1, <2>1 DEF LoopInv, RunInv, Streaming, Connected
<1>5. KeyInv'
  BY <1>1, KeyStays DEF LoopInv
<1> QED
  BY <1>2, <1>3, <1>4, <1>5 DEF LoopInv

(* remember_idempotency_key keeps at most as many records as it may, among them the one  *)
(* of the key it remembers.                                                            *)
LEMMA RememberSound ==
    ASSUME LoopTypes, NEW key \in Keys \cup {NoKey}, NEW done \in BOOLEAN, Remember(key, done)
    PROVE  /\ order' \in Seq(Keys) /\ Len(order') <= IdemLimit
           /\ records' \in [ToSet(order') -> BOOLEAN]
           /\ key # NoKey => key \in ToSet(order')
           /\ \A k \in ToSet(order') :
                 /\ records'[k] = IF k = key THEN done ELSE records[k]
                 /\ k # key => k \in ToSet(order)
                 /\ k # NoKey
<1>1. /\ order \in Seq(Keys) /\ Len(order) \in Nat /\ Len(order) <= IdemLimit
      /\ records \in [ToSet(order) -> BOOLEAN] /\ IdemLimit \in Nat /\ IdemLimit # 0
      /\ "no_key" \notin Keys
  BY LoopAssumption, LenProperties DEF LoopTypes
<1>2. records' = [k \in ToSet(order') |-> IF k = key THEN done ELSE records[k]]
  BY DEF Remember
<1>3. /\ order' \in Seq(Keys) /\ Len(order') <= IdemLimit
      /\ key # NoKey => key \in ToSet(order')
      /\ \A k \in ToSet(order') : k # key => k \in ToSet(order)
  <2>1. CASE key = NoKey
    BY <1>1, <2>1 DEF Remember
  <2>2. CASE key # NoKey
    <3> DEFINE all == Append(order, key)
               n == Len(order)
               m == Min({IdemLimit, Len(all)})
               new == SubSeq(all, 1 + Len(all) - m, Len(all))
    <3>1. order' = new /\ key \in Keys
      BY <2>2 DEF Remember
    <3>2. /\ all \in Seq(Keys) /\ Len(all) = n + 1 /\ all[n + 1] = key
          /\ \A i \in 1..n : all[i] = order[i]
      BY <1>1, <3>1, AppendProperties
    <3>3. m \in 1..(n + 1) /\ m <= IdemLimit
      <4>1. Len(all) \in Nat /\ Len(all) # 0
        BY <1>1, <3>2
      <4> HIDE DEF all, n
      <4>2. m \in {IdemLimit, Len(all)} /\ m <= Len(all) /\ m <= IdemLimit
        BY <1>1, <4>1, MinOfTwo
      <4> QED
        BY <1>1, <3>2, <4>1, <4>2
    <3> DEFINE first == 1 + Len(all) - m
    <3>4. first \in 1..(n + 1) /\ first = n + 2 - m
      <4> HIDE DEF all, m
      <4> QED
        BY <1>1, <3>2, <3>3
    <3>5. /\ new \in Seq(Keys) /\ Len(new) = m
          /\ \A i \in 1..m : new[i] = all[first + i - 1]
      <4>1. \A i \in first..Len(all) : all[i] \in Keys
        BY <1>1, <3>2, <3>4, ElementOfSeq
      <4> HIDE DEF all, m
      <4>2. new \in Seq(Keys) /\ Len(new) = IF first <= Len(all) THEN Len(all) - first + 1 ELSE 0
        BY <1>1, <3>2, <3>4, SubSeqProperties
      <4>3. Len(new) = m
        BY <1>1, <3>2, <3>3, <3>4, <4>2
      <4>4. \A i \in 1..m : new[i] = all[first + i - 1]
        BY <1>1, <3>2, <3>3, <3>4, SubSeqProperties
      <4> QED
        BY <4>2, <4>3, <4>4
    <3> HIDE DEF new, m, all, first
    <3>6. n \in Nat
      BY <1>1
    <3> HIDE DEF n
    <3>7. \A i \in 1..m : first + i - 1 \in 1..(n + 1)
      BY <3>3, <3>4, <3>6
    <3>8. key \in ToSet(new)
      <4>1. m \in 1..m /\ first + m - 1 = n + 1
        BY <3>3, <3>4, <3>6
      <4>2. new[m] = key
        BY <3>2, <3>5, <4>1
      <4>3. m \in DOMAIN new
        BY <3>5, <4>1
      <4> QED
        BY <4>2, <4>3 DEF ToSet
    <3>9. ASSUME NEW k \in ToSet(new), k # key PROVE k \in ToSet(order)
      <4>1. PICK i \in 1..m : new[i] = k
        BY <3>5 DEF ToSet
      <4>2. PICK j \in 1..(n + 1) : all[j] = k
        BY <3>5, <3>7, <4>1
      <4>3. j \in 1..n
        BY <3>2, <3>6, <3>9, <4>2
      <4>4. order[j] = k /\ j \in DOMAIN order
        BY <1>1, <3>2, <4>2, <4>3 DEF n
      <4> QED
        BY <4>4 DEF ToSet
    <3> QED
      BY <3>1, <3>3, <3>5, <3>8, <3>9
  <2> QED
    BY <2>1, <2>2
<1>4. \A k \in ToSet(order') : k \in Keys
  BY <1>3, ElementOfSeq DEF ToSet
<1>5. ASSUME NEW k \in ToSet(order') PROVE (IF k = key THEN done ELSE records[k]) \in BOOLEAN
  BY <1>1, <1>3
<1> QED
  BY <1>1, <1>2, <1>3, <1>4, <1>5 DEF NoKey

\* A session is lent: the key of the run is remembered, and incomplete.
LEMMA LendSafe ==
    ASSUME LoopInv, ReadLine, ~Streaming, NEW kind \in {"prompt", "delegated"},
           NEW key \in Keys \cup {NoKey}, Lend(kind, key), Reply,
           UNCHANGED <<runtime, submitted, queued>>,
           conn' \in {"none", "live", "stale"}, drafts' \in [Queues -> Nat],
           Connected' => \A q \in Queues : drafts'[q] >= Min({queued[q], MaxDrafts})
    PROVE  LoopInv'
<1>1. /\ place' = "task" /\ running' = [kind |-> kind, key |-> key, pending |-> 0]
      /\ Remember(key, FALSE)
      /\ task' = [NoTask EXCEPT !.at = "start", !.rcv = published, !.fwd = TRUE]
  BY DEF Lend, StartFeed
<1>2. running.pending = 0 /\ running.key = NoKey
  BY RunFields
<1>3. /\ order' \in Seq(Keys) /\ Len(order') <= IdemLimit
      /\ records' \in [ToSet(order') -> BOOLEAN]
      /\ key # NoKey => key \in ToSet(order')
      /\ \A k \in ToSet(order') :
            /\ records'[k] = IF k = key THEN FALSE ELSE records[k]
            /\ k # key => k \in ToSet(order)
            /\ k # NoKey
  BY <1>1, RememberSound DEF LoopInv
<1>4. LoopTypes'
  <2>1. running' \in Runs(count')
    <3>1. 0 \in 0..count'
      BY LineTypes DEF LoopInv
    <3> QED
      BY <1>1, <3>1 DEF Runs
  <2> QED
    BY <1>1, <1>3, <2>1, LineTypes DEF LoopInv, LoopTypes, Runs
<1>5. AnswerInv'
  <2>1. running'.pending = running.pending
    BY <1>1, <1>2
  <2> QED
    BY <2>1, ReplyAnswers DEF LoopInv
<1>6. task'.at = "start"
  BY <1>1 DEF NoTask
<1>7. running'.kind = kind /\ running'.key = key
  BY <1>1
<1>8. RunInv'
  <2>1. running' # Idle
    BY <1>7 DEF Idle
  <2> QED
    BY <1>1, <1>6, <1>7, <2>1 DEF RunInv, Streaming
<1>9. KeyInv'
  <2>1. DOMAIN records' = ToSet(order') /\ DOMAIN records = ToSet(order)
    BY <1>3 DEF LoopInv, LoopTypes
  <2>2. \A k \in ToSet(order) : k # NoKey => records[k]
    BY <1>2, <2>1 DEF LoopInv, KeyInv
  <2>3. ASSUME NEW k \in ToSet(order') PROVE ~records'[k] <=> key = k
    <3>1. CASE k = key
      BY <1>3, <3>1
    <3>2. CASE k # key
      BY <1>3, <2>2, <3>2
    <3> QED
      BY <3>1, <3>2
  <2> QED
    BY <1>3, <1>7, <2>1, <2>3 DEF KeyInv
<1> QED
  BY <1>4, <1>5, <1>8, <1>9 DEF LoopInv

\* An operation inside a handler: its key is remembered and complete.
LEMMA RunInHandlerSafe ==
    ASSUME LoopInv, ReadLine, ~Streaming, NEW key \in Keys \cup {NoKey}, RunInHandler(key)
    PROVE  LoopInv'
<1>1. /\ Remember(key, TRUE) /\ place' = "state" /\ Reply
      /\ UNCHANGED <<task, runtime, submitted, conn, drafts, queued, running>>
  BY DEF RunInHandler
<1>2. running.key = NoKey
  BY RunFields
<1>3. /\ order' \in Seq(Keys) /\ Len(order') <= IdemLimit
      /\ records' \in [ToSet(order') -> BOOLEAN]
      /\ \A k \in ToSet(order') :
            /\ records'[k] = IF k = key THEN TRUE ELSE records[k]
            /\ k # key => k \in ToSet(order)
            /\ k # NoKey
  BY <1>1, RememberSound DEF LoopInv
<1>4. LoopTypes'
  BY <1>1, <1>3, LineTypes DEF LoopInv, LoopTypes, Runs
<1>5. AnswerInv'
  <2>1. running'.pending = running.pending
    BY <1>1
  <2> QED
    BY <1>1, <2>1, ReplyAnswers DEF LoopInv
<1>6. RunInv'
  <2>1. Alive
    BY DEF ReadLine, Alive
  <2> QED
    BY <1>1, <2>1 DEF LoopInv, RunInv, Streaming, Connected
<1>7. KeyInv'
  <2>1. DOMAIN records' = ToSet(order') /\ DOMAIN records = ToSet(order)
    BY <1>3 DEF LoopInv, LoopTypes
  <2>2. \A k \in ToSet(order) : k # NoKey => records[k]
    BY <1>2, <2>1 DEF LoopInv, KeyInv
  <2>3. ASSUME NEW k \in ToSet(order') PROVE records'[k] /\ NoKey # k
    BY <1>3, <2>2
  <2> QED
    BY <1>1, <1>2, <2>1, <2>3 DEF KeyInv
<1> QED
  BY <1>4, <1>5, <1>6, <1>7 DEF LoopInv

\* A message is queued, and becomes a draft if there is room for it.
LEMMA QueueMessageSafe ==
    ASSUME LoopInv, ReadLine, NEW q \in Queues, QueueMessage(q)
    PROVE  LoopInv'
<1>1. /\ Reply /\ UNCHANGED <<task, place, runtime, submitted, conn, running, records, order>>
      /\ queued' = [queued EXCEPT ![q] = @ + 1]
      /\ drafts' = IF ~Connected \/ queued[q] >= MaxDrafts THEN drafts
                   ELSE [drafts EXCEPT ![q] = Max({@, queued[q] + 1})]
  BY DEF QueueMessage, Enqueue, feed
<1>2. /\ queued \in [Queues -> Nat] /\ drafts \in [Queues -> Nat] /\ MaxDrafts \in Nat
      /\ queued[q] \in Nat /\ drafts[q] \in Nat
  BY LoopAssumption DEF LoopInv, LoopTypes
<1> DEFINE top == Max({drafts[q], queued[q] + 1})
<1>3. top \in Nat /\ drafts[q] <= top /\ queued[q] + 1 <= top
  BY <1>2, MaxOfTwo
<1>4. drafts' = IF ~Connected \/ queued[q] >= MaxDrafts THEN drafts
                ELSE [drafts EXCEPT ![q] = top]
  BY <1>1, <1>2
<1> HIDE DEF top
<1>5. queued' \in [Queues -> Nat] /\ drafts' \in [Queues -> Nat]
  BY <1>1, <1>2, <1>3, <1>4
<1>6. LoopTypes'
  BY <1>1, <1>5, LineTypes DEF LoopInv, LoopTypes, Runs
<1>7. AnswerInv'
  <2>1. running'.pending = running.pending
    BY <1>1
  <2> QED
    BY <1>1, <2>1, ReplyAnswers DEF LoopInv
<1>8. RunInv'
  <2>1. Alive
    BY DEF ReadLine, Alive
  <2>2. ASSUME Connected, NEW r \in Queues
        PROVE  drafts'[r] >= Min({queued'[r], MaxDrafts})
    <3>1. drafts[r] >= Min({queued[r], MaxDrafts})
      BY <2>1, <2>2 DEF LoopInv, RunInv
    <3>2. CASE r # q
      <4>1. queued'[r] = queued[r] /\ drafts'[r] = drafts[r]
        BY <1>1, <1>2, <1>4, <3>2
      <4> QED
        BY <3>1, <4>1
    <3>3. CASE r = q
      <4>1. queued'[q] = queued[q] + 1
        BY <1>1, <1>2
      <4>2. CASE queued[q] >= MaxDrafts
        <5>1. Min({queued[q], MaxDrafts}) = MaxDrafts /\ Min({queued[q] + 1, MaxDrafts}) = MaxDrafts
          <6>1. Min({queued[q], MaxDrafts}) = MaxDrafts
            BY <1>2, <4>2, MinOfTwo
          <6>2. Min({queued[q] + 1, MaxDrafts}) = MaxDrafts
            BY <1>2, <4>2, MinOfTwo
          <6> QED
            BY <6>1, <6>2
        <5>2. drafts' = drafts
          BY <1>4, <4>2
        <5> QED
          BY <3>1, <3>3, <4>1, <5>1, <5>2
      <4>3. CASE ~(queued[q] >= MaxDrafts)
        <5>1. drafts'[q] = top
          BY <1>2, <1>4, <2>2, <4>3
        <5>2. Min({queued[q] + 1, MaxDrafts}) <= queued[q] + 1
              /\ Min({queued[q] + 1, MaxDrafts}) \in Nat
          BY <1>2, MinOfTwo
        <5> HIDE DEF Min
        <5>3. top >= Min({queued[q] + 1, MaxDrafts})
          BY <1>2, <1>3, <5>2
        <5> QED
          BY <3>3, <4>1, <5>1, <5>3
      <4> QED
        BY <4>2, <4>3
    <3> QED
      BY <3>2, <3>3
  <2> QED
    BY <1>1, <2>1, <2>2 DEF LoopInv, RunInv, Streaming, Connected
<1>9. KeyInv'
  BY <1>1, KeyStays DEF LoopInv
<1> QED
  BY <1>6, <1>7, <1>8, <1>9 DEF LoopInv

LEMMA DetachSafe ==
    ASSUME LoopInv, ReadLine, Detach
    PROVE  LoopInv'
<1>1. /\ Reply /\ conn' = IF Connected THEN "none" ELSE conn
      /\ UNCHANGED <<task, place, runtime, submitted, drafts, queued, running, records, order>>
  BY DEF Detach, feed
<1>2. LoopTypes'
  BY <1>1, LineTypes DEF LoopInv, LoopTypes, Runs
<1>3. AnswerInv'
  <2>1. running'.pending = running.pending
    BY <1>1
  <2> QED
    BY <1>1, <2>1, ReplyAnswers DEF LoopInv
<1>4. RunInv'
  <2>1. Alive
    BY DEF ReadLine, Alive
  <2>2. ~Connected'
    BY <1>1 DEF Connected
  <2>3. conn' = "live" => conn = "live"
    BY <1>1
  <2> QED
    BY <1>1, <2>1, <2>2, <2>3 DEF LoopInv, RunInv, Streaming
<1>5. KeyInv'
  BY <1>1, KeyStays DEF LoopInv
<1> QED
  BY <1>2, <1>3, <1>4, <1>5 DEF LoopInv

(* A shutdown waits for the run, one at a time, and its line is answered when the session *)
(* is back.                                                                             *)
LEMMA ShutdownSafe ==
    ASSUME LoopInv, ReadLine, Shutdown
    PROVE  LoopInv'
<1>1. /\ UNCHANGED <<task, submitted, conn, drafts, queued, records, order>>
      /\ count' = count + 1 /\ count < MaxCommands /\ count \in Nat /\ MaxCommands \in Nat
      /\ loop = "open" /\ running \in Runs(count) /\ answers \in [1..MaxCommands -> Nat]
  BY LoopAssumption DEF Shutdown, ReadLine, LoopInv, LoopTypes, Runs
<1>2. CASE ~Streaming
  <2>1. Reply /\ UNCHANGED running /\ runtime' = "ShutDown" /\ place' = "state"
    BY <1>2 DEF Shutdown
  <2>2. LoopTypes'
    BY <1>1, <2>1, LineTypes DEF LoopInv, LoopTypes, Runs
  <2>3. AnswerInv'
    <3>1. running'.pending = running.pending
      BY <2>1
    <3> QED
      BY <2>1, <3>1, ReplyAnswers DEF LoopInv
  <2>4. RunInv'
    BY <1>1, <1>2, <2>1 DEF LoopInv, RunInv, Streaming, Connected
  <2>5. KeyInv'
    BY <1>1, <2>1, KeyStays DEF LoopInv
  <2> QED
    BY <2>2, <2>3, <2>4, <2>5 DEF LoopInv
<1>3. CASE Streaming /\ running.pending # 0
  <2>1. Reply /\ UNCHANGED <<runtime, running, published, place>>
    BY <1>3 DEF Shutdown
  <2>2. submitted' \in Submissions
    BY <1>1 DEF LoopInv, LoopTypes, Submissions
  <2> QED
    BY <1>1, <2>1, <2>2, LineSafe
<1>4. CASE Streaming /\ running.pending = 0
  <2>1. /\ runtime' = IF runtime = "Running" THEN "ShuttingDown" ELSE runtime
        /\ running' = [running EXCEPT !.pending = count + 1]
        /\ UNCHANGED <<loop, answers, place>>
    BY <1>4 DEF Shutdown
  <2>2. /\ running'.kind = running.kind /\ running'.key = running.key
        /\ running'.pending = count + 1 /\ running' \in Runs(count')
    BY <1>1, <2>1 DEF Runs
  <2>3. running' # Idle /\ running.kind # "none" /\ ~Connected'
    <3>1. running.kind # "none"
      BY <1>4, RunFields
    <3> QED
      BY <2>1, <2>2, <3>1 DEF Idle, Connected
  <2>4. count' \in 0..MaxCommands
    BY <1>1
  <2>5. LoopTypes'
    BY <1>1, <2>1, <2>2, <2>4 DEF LoopInv, LoopTypes, Runs
  <2>6. AnswerInv'
    <3>1. \A c \in 1..MaxCommands : c > count => answers[c] = 0
      BY DEF LoopInv, AnswerInv
    <3>2. ASSUME NEW c \in 1..MaxCommands, c > count' \/ c = running'.pending PROVE answers'[c] = 0
      <4>1. c > count
        BY <1>1, <2>2, <3>2
      <4> QED
        BY <2>1, <3>1, <4>1
    <3>3. ASSUME NEW c \in 1..count'
          PROVE  answers'[c] = 1 \/ (answers'[c] = 0 /\ running'.pending = c)
      <4>1. CASE c = count + 1
        <5>1. c \in 1..MaxCommands /\ c > count
          BY <1>1, <4>1
        <5> QED
          BY <2>1, <2>2, <3>1, <4>1, <5>1
      <4>2. CASE c # count + 1
        <5>1. c \in 1..count
          BY <1>1, <4>2
        <5>2. answers[c] = 1
          BY <1>1, <1>4, <5>1 DEF LoopInv, AnswerInv, AnsweredOnce
        <5> QED
          BY <2>1, <5>2
      <4> QED
        BY <4>1, <4>2
    <3> QED
      BY <3>2, <3>3 DEF AnswerInv, AnsweredOnce
  <2>7. RunInv'
    BY <1>1, <1>4, <2>1, <2>2, <2>3 DEF LoopInv, RunInv, Streaming, Alive
  <2>8. KeyInv'
    BY <1>1, <2>2, KeyStays DEF LoopInv
  <2> QED
    BY <2>5, <2>6, <2>7, <2>8 DEF LoopInv
<1> QED
  BY <1>2, <1>3, <1>4

\* new_session drops the session, its drafts and its connection; the keys stay.
LEMMA NewSessionSafe ==
    ASSUME LoopInv, ReadLine, NewSession
    PROVE  LoopInv'
<1>1. /\ Reply /\ ~Streaming /\ place' = "none" /\ runtime' = "Running"
      /\ submitted' = NotSubmitted /\ conn' \in {"none", "stale"}
      /\ drafts' = [q \in Queues |-> 0] /\ queued' = [q \in Queues |-> 0]
      /\ UNCHANGED <<task, running, records, order>>
  BY DEF NewSession, DropSession
<1>2. LoopTypes'
  BY <1>1, LineTypes DEF LoopInv, LoopTypes, Runs, NotSubmitted
<1>3. AnswerInv'
  <2>1. running'.pending = running.pending
    BY <1>1
  <2> QED
    BY <1>1, <2>1, ReplyAnswers DEF LoopInv
<1>4. RunInv'
  <2>1. ~Connected'
    BY <1>1 DEF Connected
  <2> QED
    BY <1>1, <2>1 DEF LoopInv, RunInv, Streaming
<1>5. KeyInv'
  BY <1>1, KeyStays DEF LoopInv
<1> QED
  BY <1>2, <1>3, <1>4, <1>5 DEF LoopInv

----------------------------------------------------------------------------
(* The other steps of the loop.                                              *)

(* The run ends: the session comes back or the loop fails, the key is complete and a     *)
(* shutdown that waited is answered.                                                    *)
LEMMA FinishLoopSafe ==
    ASSUME LoopInv, loop \in {"open", "eof"}, Finish
    PROVE  LoopInv'
<1>1. /\ Streaming /\ task' = NoTask /\ running' = Idle /\ records' = Completed(running.key)
      /\ UNCHANGED <<count, submitted, conn, drafts, order>>
      /\ place' \in {"none", "state"}
      /\ loop' = loop \/ loop' = "failed"
      /\ place' = "none" => loop' = "failed"
      /\ runtime' = runtime \/ runtime' = "ShutDown"
      /\ (queued' = queued /\ loop' = "failed") \/ queued' = [q \in Queues |-> 0]
      /\ \/ answers' = answers /\ (loop' = "failed" \/ running.pending = 0)
         \/ running.pending # 0 /\ answers' = [answers EXCEPT ![running.pending] = @ + 1]
  BY DEF Finish, Answered
<1>2. /\ count \in Nat /\ MaxCommands \in Nat /\ count <= MaxCommands
      /\ answers \in [1..MaxCommands -> Nat]
      /\ running.pending \in 0..count /\ drafts \in [Queues -> Nat]
      /\ records \in [ToSet(order) -> BOOLEAN] /\ MaxDrafts \in Nat
  BY LoopAssumption DEF LoopInv, LoopTypes
<1>3. answers' \in [1..MaxCommands -> Nat]
  <2>1. CASE answers' = answers
    BY <1>2, <2>1
  <2>2. CASE running.pending # 0 /\ answers' = [answers EXCEPT ![running.pending] = @ + 1]
    <3>1. running.pending \in 1..MaxCommands
      BY <1>2, <2>2
    <3>2. answers[running.pending] + 1 \in Nat
      BY <1>2, <3>1
    <3> QED
      BY <1>2, <2>2, <3>2
  <2> QED
    BY <1>1, <2>1, <2>2
<1>4. records' \in [ToSet(order) -> BOOLEAN] /\ \A k \in ToSet(order) : records'[k]
  <2>1. \A k \in ToSet(order) : (k = running.key \/ records[k]) = TRUE
    BY <1>2 DEF LoopInv, KeyInv
  <2>2. records' = [k \in ToSet(order) |-> TRUE]
    BY <1>1, <1>2, <2>1 DEF Completed
  <2> QED
    BY <2>2
<1>5. LoopTypes'
  <2>1. running' \in Runs(count')
    BY <1>1, RunFields
  <2> QED
    BY <1>1, <1>3, <1>4, <2>1 DEF LoopInv, LoopTypes, Runs
<1>6. AnswerInv'
  <2>0. running'.pending = 0
    BY <1>1 DEF Idle
  <2>1. CASE answers' = answers /\ loop' = "failed"
    <3>1. count' \in Nat /\ count <= count' /\ count' <= MaxCommands
      BY <1>1, <1>2
    <3> QED
      BY <2>0, <2>1, <3>1, FailAnswers DEF LoopInv
  <2>2. CASE answers' = answers /\ running.pending = 0
    BY <1>1, <2>0, <2>2, StayAnswers DEF LoopInv
  <2>3. CASE running.pending # 0 /\ answers' = [answers EXCEPT ![running.pending] = @ + 1]
    <3> DEFINE p == running.pending
    <3>1. p \in 1..count /\ p \in 1..MaxCommands
      BY <1>2, <2>3
    <3>2. answers[p] = 0
      BY <3>1 DEF LoopInv, AnswerInv
    <3>3. answers'[p] = 1 /\ \A c \in 1..MaxCommands : c # p => answers'[c] = answers[c]
      BY <1>2, <2>3, <3>1, <3>2
    <3>4. ASSUME NEW c \in 1..MaxCommands, c > count' \/ c = running'.pending PROVE answers'[c] = 0
      <4>1. c # p /\ c > count
        BY <1>1, <1>2, <2>0, <3>1, <3>4
      <4> QED
        BY <3>3, <4>1 DEF LoopInv, AnswerInv
    <3>5. ASSUME NEW c \in 1..count' PROVE answers'[c] = 1
      <4>1. c \in 1..MaxCommands /\ c \in 1..count
        BY <1>1, <1>2
      <4>2. CASE c = p
        BY <3>3, <4>2
      <4>3. CASE c # p
        <5>1. answers[c] = 1
          BY <4>1, <4>3 DEF LoopInv, AnswerInv, AnsweredOnce
        <5> QED
          BY <3>3, <4>1, <4>3, <5>1
      <4> QED
        BY <4>2, <4>3
    <3> QED
      BY <3>4, <3>5 DEF AnswerInv, AnsweredOnce
  <2> QED
    BY <1>1, <2>1, <2>2, <2>3
<1>7. RunInv'
  <2>1. task'.at = "none" /\ ~Streaming'
    BY <1>1 DEF NoTask, Streaming
  <2>2. ASSUME Alive', Connected', NEW q \in Queues
        PROVE  drafts'[q] >= Min({queued'[q], MaxDrafts})
    <3>1. queued'[q] = 0 /\ drafts'[q] \in Nat
      BY <1>1, <1>2, <2>2 DEF Alive
    <3>2. Min({0, MaxDrafts}) = 0
      BY SMTT(30), <1>2, MinOfTwo
    <3> QED
      BY <3>1, <3>2
  <2> QED
    BY <1>1, <2>1, <2>2 DEF RunInv, Alive
<1>8. KeyInv'
  <2>1. running'.key = NoKey /\ NoKey \notin ToSet(order)
    <3>1. order \in Seq(Keys) /\ NoKey \notin Keys
      BY LoopAssumption DEF LoopInv, LoopTypes, NoKey
    <3> QED
      BY <1>1, <3>1, ElementOfSeq, LenProperties DEF Idle, ToSet
  <2> QED
    BY <1>1, <1>4, <2>1 DEF KeyInv
<1> QED
  BY <1>5, <1>6, <1>7, <1>8 DEF LoopInv

\* A step of the task, and one of the loop that reads its queue.
LEMMA TaskLoopSafe ==
    ASSUME LoopInv, loop # "failed", submitted' \in Submissions,
           task.at # "none" <=> task'.at # "none",
           UNCHANGED <<loop, count, answers, place, runtime, conn, drafts, queued, running,
                       records, order>>
    PROVE  LoopInv'
<1>1. LoopTypes' /\ RunInv'
  BY DEF LoopInv, LoopTypes, RunInv, Submissions, Streaming, Alive, Connected
<1>2. AnswerInv' /\ KeyInv'
  BY StayAnswers, KeyStays DEF LoopInv
<1> QED
  BY <1>1, <1>2 DEF LoopInv

\* The input closes, or the loop ends after it.
LEMMA LoopEndsSafe ==
    ASSUME LoopInv, loop \in {"open", "eof"}, loop' \in {"eof", "ended"},
           conn' = conn \/ (loop' = "ended" /\ conn' = "none"),
           UNCHANGED <<task, count, answers, place, runtime, submitted, drafts, queued,
                       running, records, order>>
    PROVE  LoopInv'
<1>1. LoopTypes'
  BY DEF LoopInv, LoopTypes
<1>2. RunInv'
  BY DEF LoopInv, RunInv, Streaming, Alive, Connected
<1>3. AnswerInv' /\ KeyInv'
  BY StayAnswers, KeyStays DEF LoopInv
<1> QED
  BY <1>1, <1>2, <1>3 DEF LoopInv

----------------------------------------------------------------------------
(* The steps together.                                                       *)

LEMMA TaskGoesOn ==
    ASSUME FeedInv, \/ Emit \/ Forward \/ Push \/ DrainReceiver \/ TaskDies \/ Admit
                    \/ \E ok \in BOOLEAN : OperationEnds(ok)
    PROVE  task.at # "none" /\ task'.at # "none"
<1>1. task \in Tasks /\ task.at \in {"none", "start", "op", "drain", "last", "done", "died"}
  BY DEF FeedInv, FeedTypes, Tasks
<1>2. CASE Emit
  BY <1>1, <1>2 DEF Emit, Tasks
<1>3. CASE Forward
  <2>1. Received.at = task.at /\ task.at = "op"
    BY <1>1, <1>3 DEF Forward, Received, Tasks
  <2>2. task' = [Received EXCEPT !.fwd = ~Lags]
    BY <1>3 DEF Forward
  <2>3. task'.at = Received.at
    BY <1>1, <2>2 DEF Received, Tasks
  <2> QED
    BY <2>1, <2>3
<1>4. CASE Push
  <2>1. task.at # "none"
    BY <1>4 DEF Push, FeedInv, TaskChained
  <2> QED
    BY <1>1, <1>4, <2>1 DEF Push, Tasks
<1>5. CASE DrainReceiver
  <2>1. Received.at = task.at
    BY <1>1 DEF Received, Tasks
  <2> QED
    BY <1>1, <1>5, <2>1 DEF DrainReceiver, Tasks
<1>6. CASE TaskDies
  BY <1>1, <1>6 DEF TaskDies, Tasks
<1>7. CASE Admit
  <2>1. /\ task.at = "start"
        /\ \E at \in {"drain", "op"}, ok \in BOOLEAN : task' = [task EXCEPT !.at = at, !.ok = ok]
    BY <1>7 DEF Admit
  <2> QED
    BY <1>1, <2>1 DEF Tasks
<1>8. CASE \E ok \in BOOLEAN : OperationEnds(ok)
  BY <1>1, <1>8 DEF OperationEnds, Tasks
<1> QED
  BY <1>2, <1>3, <1>4, <1>5, <1>6, <1>7, <1>8

LEMMA TaskStepSafe ==
    ASSUME RpcInv, TaskStep
    PROVE  RpcInv'
<1>0. FeedInv /\ LoopInv /\ loop # "failed"
  BY DEF RpcInv, TaskStep
<1>1. submitted \in Submissions /\ published \in Nat
  BY <1>0 DEF LoopInv, LoopTypes, Submissions, FeedInv, FeedTypes
<1>2. CASE Admit
  <2>1. FeedInv'
    BY <1>0, <1>2, AdmitSafe
  <2>2. UNCHANGED <<loop, count, answers, place, runtime, conn, drafts, queued, running,
                    records, order>>
    BY <1>2 DEF Admit
  <2>3. submitted' \in Submissions
    BY <1>1, <1>2 DEF Admit, Submissions
  <2> QED
    BY <1>0, <1>2, <2>1, <2>2, <2>3, TaskGoesOn, TaskLoopSafe DEF RpcInv
<1>3. ASSUME NEW ok \in BOOLEAN, OperationEnds(ok) PROVE RpcInv'
  <2>1. FeedInv'
    BY <1>0, <1>3, OperationEndsSafe
  <2>2. UNCHANGED <<loop, count, answers, place, runtime, conn, drafts, queued, running,
                    records, order>>
    BY <1>3 DEF OperationEnds
  <2>3. submitted' \in Submissions
    BY <1>1, <1>3 DEF OperationEnds, Submissions
  <2> QED
    BY <1>0, <1>3, <2>1, <2>2, <2>3, TaskGoesOn, TaskLoopSafe DEF RpcInv
<1>4. CASE /\ Emit \/ Forward \/ Push \/ DrainReceiver \/ TaskDies
           /\ UNCHANGED <<loop, count, answers, place, runtime, submitted, conn, drafts, queued,
                          running, records, order>>
  <2>1. FeedInv'
    BY <1>0, <1>4, EmitSafe, ForwardSafe, PushSafe, DrainReceiverSafe, TaskDiesSafe
  <2>2. submitted' \in Submissions
    BY <1>1, <1>4
  <2> QED
    BY <1>0, <1>4, <2>1, <2>2, TaskGoesOn, TaskLoopSafe DEF RpcInv
<1> QED
  BY <1>2, <1>3, <1>4 DEF TaskStep

LEMMA LoopStepSafe ==
    ASSUME RpcInv, LoopStep
    PROVE  RpcInv'
<1>0. FeedInv /\ LoopInv /\ loop \in {"open", "eof"}
  BY DEF RpcInv, LoopStep
<1>1. submitted \in Submissions /\ published \in Nat
  BY <1>0 DEF LoopInv, LoopTypes, Submissions, FeedInv, FeedTypes
<1>2. CASE Finish
  <2>1. FeedInv'
    <3>1. AdapterIs(Drained) /\ queue' = <<>> /\ task' = NoTask
      BY <1>2 DEF Finish
    <3>2. published' \in {published, published + 1}
      BY <1>2 DEF Finish
    <3> QED
      BY <1>0, <3>1, <3>2, FinishSafe
  <2> QED
    BY <1>0, <1>2, <2>1, FinishLoopSafe DEF RpcInv
<1>3. CASE /\ ReceiveQueued \/ QueueEnds
           /\ UNCHANGED <<loop, count, answers, place, runtime, submitted, conn, drafts, queued,
                          running, records, order>>
  <2>1. FeedInv'
    BY <1>0, <1>3, ReceiveQueuedSafe, QueueEndsSafe
  <2>2. UNCHANGED task
    BY <1>3 DEF ReceiveQueued, QueueEnds
  <2>3. submitted' \in Submissions
    BY <1>1, <1>3
  <2> QED
    BY <1>0, <1>3, <2>1, <2>2, <2>3, TaskLoopSafe DEF RpcInv
<1>4. CASE /\ loop' = "ended"
           /\ conn' = IF Connected THEN "none" ELSE conn
           /\ UNCHANGED <<feed, count, answers, place, runtime, submitted, drafts, queued,
                          running, records, order>>
  <2>1. FeedInv'
    BY <1>0, <1>4, FeedStands
  <2>2. UNCHANGED task
    BY <1>4 DEF feed
  <2>3. conn' = conn \/ (loop' = "ended" /\ conn' = "none")
    BY <1>4
  <2>4. LoopInv'
    BY <1>0, <1>4, <2>2, <2>3, LoopEndsSafe
  <2> QED
    BY <2>1, <2>4 DEF RpcInv
<1> QED
  BY <1>2, <1>3, <1>4 DEF LoopStep

LEMMA CommandSafe ==
    ASSUME RpcInv, Command
    PROVE  RpcInv'
<1>0. FeedInv /\ LoopInv /\ ReadLine
  BY DEF RpcInv, Command
<1>1. /\ submitted \in Submissions /\ published \in Nat
      /\ ~Streaming => task.at = "none"
      /\ conn \in {"none", "live", "stale"} /\ drafts \in [Queues -> Nat]
      /\ queued \in [Queues -> Nat] /\ MaxDrafts \in Nat
  BY <1>0, RunFields, LoopAssumption DEF LoopInv, LoopTypes, Submissions, FeedInv, FeedTypes
<1>2. ASSUME UNCHANGED feed PROVE FeedInv' /\ UNCHANGED task
  BY <1>0, <1>2, FeedStands DEF feed
<1>3. ASSUME AnswerOnly \/ ControlMessage PROVE RpcInv'
  <2>1. /\ UNCHANGED feed /\ (Reply \/ Fail)
        /\ UNCHANGED <<place, runtime, submitted, conn, drafts, queued, running, records, order>>
    BY <1>3 DEF AnswerOnly, ControlMessage
  <2>2. FeedInv' /\ UNCHANGED task
    BY <1>2, <2>1
  <2>4. submitted' \in Submissions
    <3>1. submitted' = submitted
      BY <2>1
    <3> QED
      BY <1>1, <3>1
  <2>3. LoopInv'
    BY <1>0, <2>1, <2>2, <2>4, LineSafe
  <2> QED
    BY <2>2, <2>3 DEF RpcInv
<1>4. ASSUME ~Streaming, PutBack PROVE RpcInv'
  <2>1. FeedInv'
    BY <1>2, <1>4 DEF PutBack
  <2> QED
    BY <1>0, <1>4, <2>1, PutBackSafe DEF RpcInv
<1>5. ASSUME ~Streaming, NEW key \in Keys \cup {NoKey}, RunInHandler(key) PROVE RpcInv'
  <2>1. FeedInv'
    <3>1. /\ task.at = "none" /\ UNCHANGED <<task, queue, closed, applied, shown, excused>>
          /\ published' \in Nat /\ published <= published'
      BY <1>1, <1>5 DEF RunInHandler
    <3> QED
      BY <1>0, <3>1, QuietSafe
  <2> QED
    BY <1>0, <1>5, <2>1, RunInHandlerSafe DEF RpcInv
<1>6. ASSUME ~Streaming, NEW key \in Keys \cup {NoKey}, LendDelegated(key) PROVE RpcInv'
  <2>1. /\ Lend("delegated", key) /\ Reply
        /\ UNCHANGED <<runtime, submitted, conn, drafts, queued>>
    BY <1>6 DEF LendDelegated
  <2>2. FeedInv'
    BY <1>0, <2>1, StartFeedSafe DEF Lend
  <2>3. Connected' => \A q \in Queues : drafts'[q] >= Min({queued[q], MaxDrafts})
    BY <1>0, <2>1 DEF LoopInv, RunInv, Connected, Alive, ReadLine
  <2>4. LoopInv'
    BY <1>0, <1>1, <1>6, <2>1, <2>3, LendSafe
  <2> QED
    BY <2>2, <2>4 DEF RpcInv
<1>7. ASSUME NEW key \in Keys \cup {NoKey}, StartPrompt(key) PROVE RpcInv'
  <2>1. CASE ~(Connected \/ (conn = "none" /\ runtime = "Running" /\ Mirrorable))
    <3>1. /\ Fail /\ UNCHANGED feed
          /\ UNCHANGED <<place, runtime, submitted, conn, drafts, queued, running, records, order>>
      BY <1>7, <2>1 DEF StartPrompt
    <3> QED
      BY <1>0, <1>1, <1>2, <3>1, LineSafe DEF RpcInv
  <2>2. CASE Connected \/ (conn = "none" /\ runtime = "Running" /\ Mirrorable)
    <3>1. /\ ~Streaming /\ Lend("prompt", key) /\ Reply /\ conn' = "live"
          /\ drafts' = IF conn = "live" THEN drafts ELSE Mirrored
          /\ UNCHANGED <<runtime, submitted, queued>>
      BY <1>7, <2>2 DEF StartPrompt
    <3>2. FeedInv'
      BY <1>0, <3>1, StartFeedSafe DEF Lend
    <3>3. \A q \in Queues : /\ Mirrored[q] \in Nat /\ queued[q] <= Mirrored[q]
      BY <1>1, MaxOfTwo DEF Mirrored
    <3>4. Mirrored \in [Queues -> Nat]
      BY <3>3 DEF Mirrored
    <3>5. ASSUME NEW q \in Queues PROVE drafts'[q] >= Min({queued[q], MaxDrafts})
      <4>1. CASE conn = "live"
        <5>1. Connected
          BY <2>2, <4>1
        <5> QED
          BY <1>0, <3>1, <4>1, <5>1 DEF LoopInv, RunInv, Alive, ReadLine
      <4>2. CASE conn # "live"
        <5>1. drafts'[q] = Mirrored[q] /\ queued[q] <= Mirrored[q] /\ Mirrored[q] \in Nat
          BY <3>1, <3>3, <4>2
        <5>2. Min({queued[q], MaxDrafts}) <= queued[q] /\ queued[q] \in Nat
              /\ Min({queued[q], MaxDrafts}) \in Nat
          BY <1>1, MinOfTwo
        <5> HIDE DEF Min
        <5> QED
          BY <5>1, <5>2
      <4> QED
        BY <4>1, <4>2
    <3>6. LoopInv'
      <4>1. drafts' \in [Queues -> Nat] /\ conn' \in {"none", "live", "stale"}
        BY <1>1, <3>1, <3>4
      <4>2. "prompt" \in {"prompt", "delegated"}
        OBVIOUS
      <4> QED
        BY <1>0, <1>7, <3>1, <3>5, <4>1, <4>2, LendSafe
    <3> QED
      BY <3>2, <3>6 DEF RpcInv
  <2> QED
    BY <2>1, <2>2
<1>8. ASSUME NEW key \in Keys \cup {NoKey},
             \/ InvokeAgent(key) \/ InvokeTeam(key) \/ ApproveDelegation(key)
             \/ SelfHealingEdit(key) \/ SetDefaultAgentProfile(key) \/ RejectDelegation(key)
      PROVE  RpcInv'
  <2>1. ~Streaming /\ (PutBack \/ LendDelegated(key) \/ RunInHandler(key))
    BY <1>8 DEF InvokeAgent, InvokeTeam, ApproveDelegation, SelfHealingEdit,
                SetDefaultAgentProfile, RejectDelegation, Fresh
  <2> QED
    BY <1>4, <1>5, <1>6, <2>1
<1>9. ASSUME NEW q \in Queues, QueueMessage(q) PROVE RpcInv'
  <2>1. FeedInv'
    BY <1>2, <1>9 DEF QueueMessage
  <2> QED
    BY <1>0, <1>9, <2>1, QueueMessageSafe DEF RpcInv
<1>10. ASSUME NEW cursor \in 0..published, ReconnectPrompt(cursor) PROVE RpcInv'
  <2>1. UNCHANGED <<place, runtime, conn, drafts, queued, running, records, order>>
    BY <1>10 DEF ReconnectPrompt
  <2>2. CASE (Reply \/ Fail) /\ UNCHANGED <<feed, submitted>>
    <3>1. UNCHANGED feed /\ submitted' \in Submissions
      BY <1>1, <2>2
    <3> QED
      BY <1>0, <1>2, <2>1, <2>2, <3>1, LineSafe DEF RpcInv
  <2>3. CASE /\ ~RetainedGap(cursor) /\ AdapterIs(Replayed(cursor))
             /\ submitted' \in {NotSubmitted, submitted}
             /\ Reply /\ UNCHANGED <<published, task, queue>>
    <3>1. FeedInv'
      BY <1>0, <2>3, ReplaySafe
    <3>2. submitted' \in Submissions
      BY <1>1, <2>3 DEF NotSubmitted, Submissions
    <3> QED
      BY <1>0, <2>1, <2>3, <3>1, <3>2, LineSafe DEF RpcInv
  <2> QED
    BY <1>10, <2>2, <2>3 DEF ReconnectPrompt
<1>11. ASSUME Detach PROVE RpcInv'
  <2>1. FeedInv'
    BY <1>2, <1>11 DEF Detach
  <2> QED
    BY <1>0, <1>11, <2>1, DetachSafe DEF RpcInv
<1>12. ASSUME Shutdown PROVE RpcInv'
  <2>1. FeedInv'
    <3>1. CASE Streaming
      <4>1. UNCHANGED feed
        BY <1>12, <3>1 DEF Shutdown, feed
      <4> QED
        BY <1>2, <4>1
    <3>2. CASE ~Streaming
      <4>1. /\ task.at = "none" /\ UNCHANGED <<task, queue, closed, applied, shown, excused>>
            /\ published' \in {published, published + 1}
        BY <1>1, <1>12, <3>2 DEF Shutdown
      <4>2. published' \in Nat /\ published <= published'
        BY <1>1, <4>1
      <4> QED
        BY <1>0, <4>1, <4>2, QuietSafe
    <3> QED
      BY <3>1, <3>2
  <2> QED
    BY <1>0, <1>12, <2>1, ShutdownSafe DEF RpcInv
<1>13. ASSUME NewSession PROVE RpcInv'
  <2>1. FeedInv'
    <3>1. /\ task.at = "none" /\ UNCHANGED <<task, queue, closed>>
          /\ published' = 0 /\ applied' = 0 /\ shown' = <<>> /\ excused' = 0
      BY <1>1, <1>13 DEF NewSession, DropSession
    <3> QED
      BY <1>0, <3>1, ForgetSafe
  <2> QED
    BY <1>0, <1>13, <2>1, NewSessionSafe DEF RpcInv
<1> QED
  BY <1>3, <1>4, <1>7, <1>8, <1>9, <1>10, <1>11, <1>12, <1>13
  DEF Command, ListProfiles, AbortPrompt, PluginCommand, Reload

----------------------------------------------------------------------------
(* The theorems.                                                             *)

LEMMA RpcStarts ==
    ASSUME Init
    PROVE  RpcInv
<1>1. FeedInv
  BY FeedInitial DEF Init
<1>2. ~Streaming /\ task.at = "none" /\ running.pending = 0 /\ running.key = NoKey
  BY DEF Init, FeedInit, Streaming, Idle, NoTask
<1>3. LoopTypes
  <2>1. MaxCommands \in Nat /\ IdemLimit \in Nat /\ 0 \in 0..MaxCommands /\ 0 \in 0..0
    BY LoopAssumption
  <2>2. <<>> \in Seq(Keys) /\ Len(<<>>) = 0 /\ ToSet(<<>>) = {}
    BY EmptySeq DEF ToSet
  <2>3. <<>> \in [{} -> BOOLEAN]
    BY EmptySeq
  <2> QED
    BY <2>1, <2>2, <2>3 DEF Init, LoopTypes, NotSubmitted, Idle
<1>4. RunInv
  BY <1>2 DEF Init, RunInv, Connected
<1>5. AnswerInv
  BY <1>2 DEF Init, AnswerInv, AnsweredOnce
<1>6. KeyInv
  <2>1. DOMAIN records = {}
    BY DEF Init
  <2> QED
    BY <1>2, <2>1 DEF KeyInv
<1> QED
  BY <1>1, <1>3, <1>4, <1>5, <1>6 DEF RpcInv, LoopInv

LEMMA RpcStep ==
    ASSUME RpcInv, [Next]_vars
    PROVE  RpcInv'
<1>1. CASE Command
  BY <1>1, CommandSafe
<1>2. CASE LoopStep
  BY <1>2, LoopStepSafe
<1>3. CASE TaskStep
  BY <1>3, TaskStepSafe
<1>4. CASE InputCloses
  <2>1. /\ UNCHANGED feed /\ loop = "open" /\ loop' = "eof"
        /\ UNCHANGED <<count, answers, place, runtime, submitted, conn, drafts, queued,
                       running, records, order>>
    BY <1>4 DEF InputCloses
  <2>2. FeedInv' /\ UNCHANGED task
    BY <2>1, FeedStands DEF RpcInv, feed
  <2>3. LoopInv'
    BY <2>1, <2>2, LoopEndsSafe DEF RpcInv
  <2> QED
    BY <2>2, <2>3 DEF RpcInv
<1>5. CASE UNCHANGED vars
  <2>1. /\ UNCHANGED feed
        /\ UNCHANGED <<loop, count, answers, place, runtime, submitted, conn, drafts, queued,
                       running, records, order>>
    BY <1>5 DEF vars
  <2>2. FeedInv' /\ UNCHANGED task
    BY <2>1, FeedStands DEF RpcInv, feed
  <2>3. LoopInv'
    BY <2>1, <2>2 DEF RpcInv, LoopInv, LoopTypes, RunInv, AnswerInv, KeyInv, AnsweredOnce,
                      Streaming, Alive, Connected
  <2> QED
    BY <2>2, <2>3 DEF RpcInv
<1> QED
  BY <1>1, <1>2, <1>3, <1>4, <1>5 DEF Next

LEMMA RpcTypes ==
    ASSUME RpcInv
    PROVE  TypeOK
<1>1. FeedInv /\ LoopTypes /\ Adapter \in AdapterStates
  BY DEF RpcInv, LoopInv, FeedInv, AdapterSound
<1>2. /\ applied \in Nat /\ excused \in Nat /\ closed \in BOOLEAN /\ shown \in Seq(Nat)
      /\ published \in Nat /\ applied <= published
      /\ \A i \in 1..Len(shown) : shown[i] \in 1..applied
  BY <1>1 DEF FeedInv, FeedTypes, AdapterSound, AdapterStates, Adapter
<1>3. shown \in Seq(1..published)
  <2>1. \A i \in 1..Len(shown) : shown[i] \in 1..published
    BY <1>2
  <2>2. Len(shown) \in Nat /\ shown \in [1..Len(shown) -> Nat]
    BY <1>2, LenProperties
  <2>3. shown \in [1..Len(shown) -> 1..published]
    BY <2>1, <2>2
  <2> QED
    BY <2>2, <2>3, SeqDef
<1>4. FeedTypeOK
  <2>1. task.at \in {"none", "start", "op", "drain", "last", "done", "died"}
        /\ task.hold \in [seq : Nat, lag : BOOLEAN] /\ Len(queue) <= QueueCap
    BY <1>1 DEF FeedInv, FeedTypes, Tasks, Items
  <2> QED
    BY <1>2, <1>3, <2>1 DEF FeedTypeOK
<1> QED
  BY <1>1, <1>4 DEF TypeOK, LoopTypes

LEMMA RpcInvSound ==
    ASSUME RpcInv
    PROVE  RpcSound
<1>1. AnsweredOnce /\ RetryTruthful
  BY DEF RpcInv, LoopInv, AnswerInv, KeyInv, RetryTruthful
<1>2. SessionAndDrafts
  BY DEF RpcInv, LoopInv, RunInv, SessionAndDrafts
<1> QED
  BY <1>1, <1>2, RpcTypes DEF RpcSound

\* What the adapter has shown, in the words of the model.
LEMMA ShownSound ==
    ASSUME RpcInv
    PROVE  ShownExactly
<1>1. /\ \A i, j \in 1..Len(shown) : i < j => shown[i] < shown[j]
      /\ \A e \in 1..applied : e > excused => \E i \in 1..Len(shown) : shown[i] = e
      /\ shown \in Seq(Nat)
  BY DEF RpcInv, FeedInv, AdapterSound, AdapterStates, Adapter
<1>2. DOMAIN shown = 1..Len(shown)
  BY <1>1, LenProperties
<1>3. Unshown = {}
  BY <1>1, <1>2 DEF Unshown, ToSet
<1> QED
  BY <1>1, <1>3 DEF ShownExactly

(* The result of a run is taken after the last event was put in the queue; what is there *)
(* is drained, and a lag report accounts for the rest.                                  *)
LEMMA EndSound ==
    ASSUME RpcInv, Finish, task.at = "done"
    PROVE  (excused' + 1)..published \subseteq ToSet(shown')
<1>1. FeedInv /\ published \in Nat
  BY DEF RpcInv, FeedInv, FeedTypes
<1>2. AdapterSound(Drained, published) /\ \A e \in 1..published : Accounts(Drained, e)
  BY <1>1, DrainedSound
<1>3. Adapter' = Drained
  <2>1. AdapterIs(Drained) /\ Drained \in AdapterStates
    BY <1>2 DEF Finish, AdapterSound
  <2> QED
    BY <2>1, AdapterTaken
<1> HIDE DEF Drained
<1>4. shown' = Drained.shown /\ excused' = Drained.excused
  BY <1>3 DEF Adapter
<1>5. Drained.shown \in Seq(Nat) /\ Drained.excused \in Nat /\ Drained.applied \in Nat
  BY <1>2 DEF AdapterSound, AdapterStates
<1>6. DOMAIN Drained.shown = 1..Len(Drained.shown)
  BY <1>5, LenProperties
<1>7. ASSUME NEW e \in (Drained.excused + 1)..published PROVE e \in ToSet(Drained.shown)
  <2>1. e \in 1..published /\ e > Drained.excused
    BY <1>1, <1>5
  <2>2. e \in 1..Drained.applied
    BY <1>2, <1>5, <2>1 DEF Accounts
  <2>3. \E i \in 1..Len(Drained.shown) : Drained.shown[i] = e
    BY <1>2, <2>1, <2>2 DEF AdapterSound
  <2> QED
    BY <1>6, <2>3 DEF ToSet
<1> QED
  BY <1>4, <1>7

LEMMA RpcInvariant == Spec => []RpcInv
<1>1. Init => RpcInv
  BY RpcStarts
<1>2. RpcInv /\ [Next]_vars => RpcInv'
  BY RpcStep
<1> QED
  BY <1>1, <1>2, PTL DEF Spec

(* Whatever order commands, results, failures and the steps of the running operation    *)
(* come in, run_rpc_loop answers every line once (one shutdown at a time may wait for    *)
(* the run), keeps its session in exactly one place with its queued messages as drafts,  *)
(* and tells retries the truth.                                                         *)
THEOREM RpcCorrect == Spec => []RpcSound
<1>1. RpcInv => RpcSound
  BY RpcInvSound
<1> QED
  BY <1>1, RpcInvariant, PTL

(* A client of the RPC mode is shown the events of a run in order and once, over replays *)
(* and lag reports, and when the run gave its result every event that was published has   *)
(* been shown or is accounted for.                                                      *)
THEOREM ShownCorrect == Spec => RpcShown
<1>1. RpcInv => ShownExactly
  BY ShownSound
<1>2. RpcInv /\ [Next]_vars
         => [Finish /\ task.at = "done"
                => (excused' + 1)..published \subseteq ToSet(shown')]_vars
  BY EndSound
<1>3. Spec => []ShownExactly
  BY <1>1, RpcInvariant, PTL
<1>4. Spec => AllShownAtEnd
  BY <1>2, RpcInvariant, PTL DEF Spec, AllShownAtEnd
<1> QED
  BY <1>3, <1>4 DEF RpcShown
=============================================================================
