--------------------------- MODULE ServicesProofs ---------------------------
(***************************************************************************)
(* Proofs about the services of a session: capability snapshots, for every   *)
(* set of profiles and plugin tools and every depth, and delegation, for      *)
(* every set of profiles, teams and policies and every number of requests,    *)
(* operations, failed writes and crashes.                                     *)
(***************************************************************************)
EXTENDS Capabilities, Delegation, FiniteSetTheorems, SequenceTheorems, WellFoundedInduction,
        TLAPS

(* A set of numbers that is not empty has a least one: induction over the       *)
(* places of a sequence is by the least place where the claim fails.            *)
LEMMA NatLeast ==
    ASSUME NEW T \in SUBSET Nat, T # {}
    PROVE  \E m \in T : \A k \in T : m <= k
<1> DEFINE R == {ss \in Nat \X Nat : ss[1] < ss[2]}
<1>1. IsWellFoundedOn(R, Nat)
  BY NatLessThanWellFounded DEF OpToRel
<1> HIDE DEF R
<1>2. PICK m \in T : \A k \in T : ~(<<k, m>> \in R)
  BY <1>1, WFMin
<1>3. ASSUME NEW k \in T PROVE m <= k
  <2>1. ~(<<k, m>> \in R)
    BY <1>2
  <2>2. k \in Nat /\ m \in Nat
    OBVIOUS
  <2>3. ~(k < m)
    BY <2>1, <2>2 DEF R
  <2> QED
    BY <2>2, <2>3
<1> QED
  BY <1>3

\* f is built from base in n steps.
BuiltBy(f, S, base, n, step) ==
    f \in [0..n -> S] /\ f[0] = base /\ \A i \in 1..n : f[i] = step[<<i, f[i - 1]>>]

(* A function that is built step by step exists.                               *)
LEMMA Iterates ==
    ASSUME NEW S, NEW base \in S, NEW n \in Nat, NEW step \in [(1..n) \X S -> S]
    PROVE  \E f : BuiltBy(f, S, base, n, step)
<1> DEFINE Built(k) == \E f : BuiltBy(f, S, base, k, step)
           Missed == {k \in Nat : k <= n /\ ~Built(k)}
<1>0. SUFFICES Built(n)
  OBVIOUS
<1> HIDE DEF Built
<1>1. SUFFICES ASSUME Missed # {} PROVE FALSE
  OBVIOUS
<1>2. PICK m \in Missed : \A k \in Missed : m <= k
  <2>1. Missed \in SUBSET Nat
    OBVIOUS
  <2> HIDE DEF Missed
  <2> QED
    BY <1>1, <2>1, NatLeast
<1>3. CASE m = 0
  <2>1. Built(0)
    <3> DEFINE f == [i \in 0..0 |-> base]
    <3>1. f \in [0..0 -> S] /\ f[0] = base /\ \A i \in 1..0 : f[i] = step[<<i, f[i - 1]>>]
      OBVIOUS
    <3> QED
      BY <3>1 DEF Built, BuiltBy
  <2> QED
    BY <1>3, <2>1
<1>4. CASE m # 0
  <2>1. m \in 1..n /\ m - 1 \in Nat /\ m - 1 <= n
    BY <1>4
  <2>2. Built(m - 1)
    BY <1>2, <2>1
  <2>3. PICK f \in [0..(m - 1) -> S] :
           f[0] = base /\ \A i \in 1..(m - 1) : f[i] = step[<<i, f[i - 1]>>]
    BY <2>2 DEF Built, BuiltBy
  <2> DEFINE g == [i \in 0..m |-> IF i = m THEN step[<<m, f[m - 1]>>] ELSE f[i]]
  <2>4. f[m - 1] \in S /\ step[<<m, f[m - 1]>>] \in S
    BY <2>1
  <2>5. g \in [0..m -> S]
    BY <2>1, <2>4
  <2>6. g[0] = base
    BY <2>1, <2>3
  <2>7. ASSUME NEW i \in 1..m PROVE g[i] = step[<<i, g[i - 1]>>]
    <3>1. CASE i = m
      <4>1. m - 1 # m /\ m - 1 \in 0..m /\ m \in 0..m
        BY <2>1
      <4>2. g[m] = step[<<m, f[m - 1]>>] /\ g[m - 1] = f[m - 1]
        BY <4>1
      <4> HIDE DEF g
      <4> QED
        BY <3>1, <4>2
    <3>2. CASE i # m
      <4>1. i \in 1..(m - 1) /\ i - 1 # m /\ i - 1 \in 0..m
        BY <2>1, <3>2
      <4>2. g[i] = f[i] /\ g[i - 1] = f[i - 1]
        BY <3>2, <4>1
      <4> HIDE DEF g
      <4> QED
        BY <2>3, <4>1, <4>2
    <3> QED
      BY <3>1, <3>2
  <2>8. Built(m)
    <3> HIDE DEF g
    <3> QED
      BY <2>5, <2>6, <2>7 DEF Built, BuiltBy
  <2> QED
    BY <2>8
<1> QED
  BY <1>3, <1>4
(* A sequence whose elements are those of f, as far as f is built.              *)
LEMMA Agrees ==
    ASSUME NEW S, NEW base \in S, NEW n \in Nat, NEW step \in [(1..n) \X S -> S],
           NEW f, BuiltBy(f, S, base, n, step), NEW g, g[0] = base,
           \A i \in 1..n : g[i - 1] \in S => g[i] = step[<<i, g[i - 1]>>]
    PROVE  \A i \in 0..n : g[i] = f[i] /\ g[i] \in S
<1> DEFINE Differ == {k \in 0..n : g[k] # f[k]}
<1>0. f \in [0..n -> S] /\ f[0] = base /\ \A i \in 1..n : f[i] = step[<<i, f[i - 1]>>]
  BY DEF BuiltBy
<1>1. SUFFICES ASSUME Differ # {} PROVE FALSE
  BY <1>0
<1>2. PICK k \in Differ : \A l \in Differ : k <= l
  <2>1. Differ \in SUBSET Nat
    OBVIOUS
  <2> HIDE DEF Differ
  <2> QED
    BY <1>1, <2>1, NatLeast
<1>3. k # 0
  BY <1>0
<1>4. k \in 1..n /\ k - 1 \in 0..n /\ ~(k <= k - 1)
  BY <1>3
<1>5. g[k - 1] = f[k - 1]
  BY <1>2, <1>4
<1>6. g[k - 1] \in S
  BY <1>0, <1>4, <1>5
<1> QED
  BY <1>0, <1>2, <1>4, <1>5, <1>6

(***************************************************************************)
(* Sequences.                                                              *)
(***************************************************************************)

(* What follows the first element.                                          *)
LEMMA TailFacts ==
    ASSUME NEW S, NEW s \in Seq(S), s # <<>>
    PROVE  /\ Tail(s) \in Seq(S) /\ Len(Tail(s)) = Len(s) - 1 /\ Head(s) = s[1] /\ s[1] \in S
           /\ Len(s) \in Nat \ {0} /\ \A i \in 1..(Len(s) - 1) : Tail(s)[i] = s[i + 1]
<1>1. Len(s) \in Nat \ {0}
  BY LenProperties, EmptySeq
<1> QED
  BY <1>1, HeadTailProperties, ElementOfSeq

(* A sequence without the element at i.                                      *)
LEMMA RemoveFacts ==
    ASSUME NEW S, NEW s \in Seq(S), NEW i \in 1..Len(s)
    PROVE  /\ RemoveAt(s, i) \in Seq(S) /\ Len(RemoveAt(s, i)) = Len(s) - 1
           /\ \A k \in 1..(Len(s) - 1) :
                 RemoveAt(s, i)[k] = IF k < i THEN s[k] ELSE s[k + 1]
<1> DEFINE n == Len(s)
           front == SubSeq(s, 1, i - 1)
           back == SubSeq(s, i + 1, n)
<1>1. n \in Nat /\ i \in 1..n /\ i - 1 \in 0..n
  BY LenProperties
<1>2. \A k \in 1..n : s[k] \in S
  BY ElementOfSeq
<1>3. front \in Seq(S) /\ Len(front) = i - 1 /\ \A k \in 1..(i - 1) : front[k] = s[k]
  <2>1. \A k \in 1..(i - 1) : s[k] \in S
    BY <1>1, <1>2
  <2>2. /\ front \in Seq(S) /\ Len(front) = IF 1 <= i - 1 THEN (i - 1) - 1 + 1 ELSE 0
        /\ \A k \in 1..((i - 1) - 1 + 1) : front[k] = s[1 + k - 1]
    BY <1>1, <2>1, SubSeqProperties
  <2> HIDE DEF front
  <2> QED
    BY <1>1, <2>2
<1>4. back \in Seq(S) /\ Len(back) = n - i /\ \A k \in 1..(n - i) : back[k] = s[i + k]
  <2>1. \A k \in (i + 1)..n : s[k] \in S
    BY <1>1, <1>2
  <2>2. /\ back \in Seq(S) /\ Len(back) = IF i + 1 <= n THEN n - (i + 1) + 1 ELSE 0
        /\ \A k \in 1..(n - (i + 1) + 1) : back[k] = s[(i + 1) + k - 1]
    BY <1>1, <2>1, SubSeqProperties
  <2> HIDE DEF back
  <2>3. n - (i + 1) + 1 = n - i /\ \A k \in 1..(n - i) : (i + 1) + k - 1 = i + k
    BY <1>1
  <2>4. (IF i + 1 <= n THEN n - (i + 1) + 1 ELSE 0) = n - i
    BY <1>1
  <2>5. \A k \in 1..(n - i) : back[k] = s[i + k]
    BY <2>2, <2>3
  <2> QED
    BY <2>2, <2>4, <2>5
<1> HIDE DEF front, back
<1>5. /\ front \o back \in Seq(S) /\ Len(front \o back) = (i - 1) + (n - i)
      /\ \A k \in 1..((i - 1) + (n - i)) :
            (front \o back)[k] = IF k <= i - 1 THEN front[k] ELSE back[k - (i - 1)]
  <2>1. /\ front \o back \in Seq(S) /\ Len(front \o back) = Len(front) + Len(back)
        /\ \A k \in 1..(Len(front) + Len(back)) :
              (front \o back)[k] = IF k <= Len(front) THEN front[k] ELSE back[k - Len(front)]
    BY <1>3, <1>4, ConcatProperties
  <2>2. Len(front) = i - 1 /\ Len(back) = n - i
    BY <1>3, <1>4
  <2> QED
    BY <2>1, <2>2
<1>7. (i - 1) + (n - i) = n - 1
  BY <1>1
<1>8. RemoveAt(s, i) = front \o back
  BY DEF RemoveAt, front, back
<1>6. ASSUME NEW k \in 1..(n - 1)
      PROVE (front \o back)[k] = IF k < i THEN s[k] ELSE s[k + 1]
  <2>1. CASE k < i
    BY <1>1, <1>3, <1>5, <2>1
  <2>2. CASE ~(k < i)
    <3>1. k - (i - 1) \in 1..(n - i) /\ i + (k - (i - 1)) = k + 1 /\ ~(k <= i - 1)
          /\ k \in 1..((i - 1) + (n - i))
      BY <1>1, <2>2
    <3> QED
      BY <1>4, <1>5, <2>2, <3>1
  <2> QED
    BY <2>1, <2>2
<1> QED
  BY <1>5, <1>6, <1>7, <1>8

(* Concatenation.                                                           *)
LEMMA ConcatFacts ==
    ASSUME NEW S, NEW s \in Seq(S), NEW t \in Seq(S)
    PROVE  /\ s \o t \in Seq(S) /\ Len(s \o t) = Len(s) + Len(t)
           /\ \A k \in 1..Len(s) : (s \o t)[k] = s[k]
           /\ \A k \in 1..Len(t) : (s \o t)[Len(s) + k] = t[k]
<1>1. Len(s) \in Nat /\ Len(t) \in Nat
  BY LenProperties
<1>2. /\ s \o t \in Seq(S) /\ Len(s \o t) = Len(s) + Len(t)
      /\ \A k \in 1..(Len(s) + Len(t)) :
            (s \o t)[k] = IF k <= Len(s) THEN s[k] ELSE t[k - Len(s)]
  BY Zenon, ConcatProperties
<1>3. ASSUME NEW k \in 1..Len(s) PROVE (s \o t)[k] = s[k]
  BY <1>1, <1>2
<1>4. ASSUME NEW k \in 1..Len(t) PROVE (s \o t)[Len(s) + k] = t[k]
  <2>1. Len(s) + k \in 1..(Len(s) + Len(t)) /\ ~(Len(s) + k <= Len(s)) /\ Len(s) + k - Len(s) = k
    BY <1>1
  <2> QED
    BY <1>2, <2>1
<1> QED
  BY <1>2, <1>3, <1>4

(* A sequence without its last element.                                      *)
LEMMA ButLast ==
    ASSUME NEW S, NEW s \in Seq(S), s # <<>>
    PROVE  /\ SubSeq(s, 1, Len(s) - 1) \in Seq(S)
           /\ Len(SubSeq(s, 1, Len(s) - 1)) = Len(s) - 1
           /\ \A i \in 1..(Len(s) - 1) : SubSeq(s, 1, Len(s) - 1)[i] = s[i]
<1>1. PICK n \in Nat : Len(s) = n + 1
  <2>1. Len(s) \in Nat \ {0}
    BY LenProperties, EmptySeq
  <2> QED
    BY <2>1
<1>2. \A i \in 1..n : s[i] \in S
  BY <1>1, ElementOfSeq
<1> DEFINE rest == SubSeq(s, 1, n)
<1>3. /\ rest \in Seq(S)
      /\ Len(rest) = IF 1 <= n THEN n - 1 + 1 ELSE 0
      /\ \A i \in 1..(n - 1 + 1) : rest[i] = s[1 + i - 1]
  BY <1>2, SubSeqProperties
<1> HIDE DEF rest
<1>4. Len(rest) = n /\ \A i \in 1..n : rest[i] = s[i]
  BY <1>3
<1>5. Len(s) - 1 = n
  BY <1>1
<1> QED
  BY <1>3, <1>4, <1>5 DEF rest

(* A sequence whose last element is replaced.                                *)
LEMMA RetopFacts ==
    ASSUME NEW S, NEW s \in Seq(S), s # <<>>, NEW f \in S
    PROVE  LET t == Append(SubSeq(s, 1, Len(s) - 1), f)
           IN /\ t \in Seq(S) /\ Len(t) = Len(s) /\ t[Len(s)] = f
              /\ \A i \in 1..(Len(s) - 1) : t[i] = s[i]
<1> DEFINE b == SubSeq(s, 1, Len(s) - 1)
<1>1. /\ b \in Seq(S) /\ Len(b) = Len(s) - 1 /\ \A i \in 1..(Len(s) - 1) : b[i] = s[i]
  BY ButLast
<1>2. Len(s) \in Nat \ {0}
  BY LenProperties, EmptySeq
<1> HIDE DEF b
<1>3. /\ Append(b, f) \in Seq(S) /\ Len(Append(b, f)) = Len(s) /\ Append(b, f)[Len(s)] = f
      /\ \A i \in 1..(Len(s) - 1) : Append(b, f)[i] = b[i]
  BY <1>1, <1>2, AppendProperties
<1> QED
  BY <1>1, <1>3 DEF b

(***************************************************************************)
(* Capabilities.                                                            *)
(***************************************************************************)
\* The tools that a profile names, a plugin registers or the product has.
ToolNames ==
    Builtins \cup CPluginTools \cup {"delegate_agent"}
      \cup UNION {CProfiles[p].tools : p \in DOMAIN CProfiles}

Snapshots ==
    [kind : OperationKinds \cup {"child"}, profile : DOMAIN CProfiles, all : BOOLEAN,
     tools : SUBSET ToolNames, gen : Nat, filesystem : BOOLEAN, shell : BOOLEAN,
     model : BOOLEAN, write : BOOLEAN, read : BOOLEAN]

CapabilitiesType ==
    /\ cPersistent \in BOOLEAN
    /\ cTools \in SUBSET CPluginTools
    /\ cGen \in Nat
    /\ cOps \in Seq(Snapshots)

\* A snapshot by itself: its handles have a tool that uses them.
HandlesUsed(snapshot) ==
    /\ snapshot.filesystem => snapshot.all \/ AllowedFilesystem(snapshot.tools)
    /\ snapshot.shell => Allows(snapshot, "bash")

\* A child's tools are the parent's.
Released(parent, child) == \A t \in child.tools : Allows(parent, t)

\* The inductive invariant.
SnapshotsSound ==
    /\ CapabilitiesType
    /\ \A i \in 1..Len(cOps) : HandlesUsed(cOps[i])
    /\ \A i \in 3..Len(cOps) : Released(cOps[i - 1], cOps[i])

(* The tools an agent may be offered have names.                             *)
LEMMA RuntimeNames ==
    ASSUME CapabilitiesType, NEW profile \in DOMAIN CProfiles
    PROVE  /\ RuntimeToolNames(profile) \subseteq ToolNames
           /\ CProfiles[profile].tools \subseteq ToolNames
<1>1. CProfiles[profile].tools \subseteq ToolNames
  BY DEF ToolNames
<1>2. RuntimeToolNames(profile) \subseteq ToolNames
  BY DEF CapabilitiesType, RuntimeToolNames, ToolNames
<1> QED
  BY <1>1, <1>2

(* The snapshot of an admitted operation has the handles its tools use.      *)
LEMMA SnapshotUsed ==
    ASSUME CapabilitiesType, NEW kind \in OperationKinds, NEW profile \in DOMAIN CProfiles
    PROVE  Snapshot(kind, profile) \in Snapshots /\ HandlesUsed(Snapshot(kind, profile))
<1> DEFINE named == CProfiles[profile].tools
           runtime == RuntimeToolNames(profile)
           tools == IF named = {} THEN runtime ELSE runtime \cap named
<1>1. tools \in SUBSET ToolNames
  BY RuntimeNames
<1> DEFINE files == cPersistent /\ AllowedFilesystem(tools)
           shell == cPersistent /\ "bash" \in tools
           model == kind \in {"prompt", "compact", "branch_summary", "invocation", "team", "edit"}
           write == kind \in {"prompt", "compact", "branch_summary", "fork", "edit"}
           read == kind \in {"prompt", "compact", "branch_summary", "fork", "edit", "export"}
<1>2. /\ files \in BOOLEAN /\ shell \in BOOLEAN /\ model \in BOOLEAN
      /\ write \in BOOLEAN /\ read \in BOOLEAN
  BY DEF AllowedFilesystem
<1>3. (files => AllowedFilesystem(tools)) /\ (shell => "bash" \in tools)
  OBVIOUS
<1>4. Snapshot(kind, profile) =
        [kind |-> kind, profile |-> profile, all |-> FALSE, tools |-> tools, gen |-> cGen,
         filesystem |-> files, shell |-> shell, model |-> model, write |-> write,
         read |-> read]
  BY DEF Snapshot
<1>5. cGen \in Nat
  BY DEF CapabilitiesType
<1> HIDE DEF tools, files, shell, model, write, read
<1>6. Snapshot(kind, profile) \in Snapshots
  BY <1>1, <1>2, <1>4, <1>5 DEF Snapshots
<1>7. HandlesUsed(Snapshot(kind, profile))
  BY <1>3, <1>4 DEF HandlesUsed, Allows
<1> QED
  BY <1>6, <1>7

(* The snapshot of a session's own child allows everything.                  *)
LEMMA PermissiveUsed ==
    ASSUME NEW profile \in DOMAIN CProfiles
    PROVE  Permissive(profile) \in Snapshots /\ HandlesUsed(Permissive(profile))
BY DEF Permissive, Snapshots, HandlesUsed, Allows

(* A delegated snapshot has the handles its tools use, and no tool that its   *)
(* parent does not allow: the shell handle comes with the parent's, which     *)
(* allows "bash", so a profile that names "bash" is released it.              *)
LEMMA DelegatedUsed ==
    ASSUME CapabilitiesType, NEW parent \in Snapshots, HandlesUsed(parent),
           NEW profile \in DOMAIN CProfiles
    PROVE  /\ DelegatedSnapshot(parent, profile) \in Snapshots
           /\ HandlesUsed(DelegatedSnapshot(parent, profile))
           /\ Released(parent, DelegatedSnapshot(parent, profile))
<1> DEFINE named == CProfiles[profile].tools
           offered == named \cup (IF CProfiles[profile].delegates
                                  THEN {"delegate_agent"} ELSE {})
           released == {t \in offered : Allows(parent, t)}
           child == DelegatedSnapshot(parent, profile)
<1>1. released \in SUBSET ToolNames
  BY RuntimeNames DEF ToolNames
<1>2. \A t \in released : Allows(parent, t)
  OBVIOUS
<1>3. "bash" \in named /\ parent.shell => "bash" \in released
  BY DEF HandlesUsed
<1>4. AllowedFilesystem(released) \in BOOLEAN
  BY DEF AllowedFilesystem
<1>5. child = [parent EXCEPT !.kind = "child", !.profile = profile, !.all = FALSE,
                 !.tools = released, !.filesystem = @ /\ AllowedFilesystem(released),
                 !.shell = @ /\ "bash" \in named, !.model = TRUE, !.write = FALSE,
                 !.read = FALSE]
  BY DEF DelegatedSnapshot
<1> HIDE DEF released, child
<1>6. /\ child.tools = released /\ child.all = FALSE
      /\ child.filesystem = (parent.filesystem /\ AllowedFilesystem(released))
      /\ child.shell = (parent.shell /\ "bash" \in named)
  BY <1>5 DEF Snapshots
<1>7. child \in Snapshots
  BY ZenonT(60), <1>1, <1>4, <1>5 DEF Snapshots
<1>8. HandlesUsed(child)
  BY <1>3, <1>6 DEF HandlesUsed, Allows
<1>9. Released(parent, child)
  BY <1>2, <1>6 DEF Released
<1> QED
  BY <1>7, <1>8, <1>9 DEF child

(* Every step keeps the invariant.                                           *)
LEMMA StepSnapshots ==
    ASSUME SnapshotsSound, [CapabilitiesNext]_cVars
    PROVE  SnapshotsSound'
<1>0. CapabilitiesType
  BY DEF SnapshotsSound
<1>1. ASSUME NEW tools \in SUBSET CPluginTools, InstallGeneration(tools)
      PROVE  SnapshotsSound'
  BY <1>1 DEF SnapshotsSound, CapabilitiesType, InstallGeneration
<1>2. ASSUME NEW kind \in OperationKinds, NEW profile \in DOMAIN CProfiles,
             AdmitOperation(kind, profile)
      PROVE  SnapshotsSound'
  <2>1. Snapshot(kind, profile) \in Snapshots /\ HandlesUsed(Snapshot(kind, profile))
    BY <1>0, SnapshotUsed
  <2>2. /\ cOps' = <<Snapshot(kind, profile)>> /\ cPersistent' = cPersistent
        /\ cTools' = cTools /\ cGen' = cGen
    BY <1>2 DEF AdmitOperation
  <2> HIDE DEF Snapshots
  <2>3. CapabilitiesType'
    BY <1>0, <2>1, <2>2 DEF CapabilitiesType
  <2>4. Len(cOps') = 1 /\ cOps'[1] = Snapshot(kind, profile)
    BY <2>2
  <2> QED
    BY <2>1, <2>3, <2>4 DEF SnapshotsSound
<1>3. ASSUME NEW profile \in DOMAIN CProfiles, Delegate(profile)
      PROVE  SnapshotsSound'
  <2> DEFINE parent == cOps[Len(cOps)]
             child == IF Len(cOps) = 1 THEN Permissive(profile)
                      ELSE DelegatedSnapshot(parent, profile)
  <2>1. /\ cOps # <<>> /\ cOps' = Append(cOps, child) /\ cPersistent' = cPersistent
        /\ cTools' = cTools /\ cGen' = cGen
    BY <1>3 DEF Delegate, Last
  <2>2. Len(cOps) \in Nat \ {0} /\ parent \in Snapshots /\ HandlesUsed(parent)
    BY <1>0, <2>1 DEF SnapshotsSound, CapabilitiesType
  <2>3. child \in Snapshots /\ HandlesUsed(child)
    BY <1>0, <2>2, PermissiveUsed, DelegatedUsed
  <2>4. Len(cOps) # 1 => Released(parent, child)
    BY <1>0, <2>2, DelegatedUsed
  <2> HIDE DEF child
  <2>5. CapabilitiesType'
    BY <1>0, <2>1, <2>3 DEF CapabilitiesType
  <2>6. /\ Len(cOps') = Len(cOps) + 1 /\ cOps'[Len(cOps) + 1] = child
        /\ \A i \in 1..Len(cOps) : cOps'[i] = cOps[i]
    BY <1>0, <2>1, <2>3 DEF CapabilitiesType
  <2>7. \A i \in 1..Len(cOps') : HandlesUsed(cOps'[i])
    BY <2>2, <2>3, <2>6 DEF SnapshotsSound
  <2>8. ASSUME NEW i \in 3..Len(cOps') PROVE Released(cOps'[i - 1], cOps'[i])
    <3>1. CASE i = Len(cOps) + 1
      BY <2>2, <2>4, <2>6, <3>1
    <3>2. CASE i # Len(cOps) + 1
      <4>1. i \in 3..Len(cOps) /\ i - 1 \in 1..Len(cOps) /\ i \in 1..Len(cOps)
        BY <2>2, <2>6, <3>2
      <4> QED
        BY <2>6, <4>1 DEF SnapshotsSound
    <3> QED
      BY <3>1, <3>2
  <2> QED
    BY <2>5, <2>7, <2>8 DEF SnapshotsSound
<1>4. ASSUME ChildReturns PROVE SnapshotsSound'
  <2>1. /\ cOps # <<>> /\ cOps' = SubSeq(cOps, 1, Len(cOps) - 1)
        /\ cPersistent' = cPersistent /\ cTools' = cTools /\ cGen' = cGen
    BY <1>4 DEF ChildReturns
  <2>2. /\ Len(cOps') = Len(cOps) - 1 /\ cOps' \in Seq(Snapshots)
        /\ \A i \in 1..Len(cOps') : cOps'[i] = cOps[i]
    BY <1>0, <2>1, ButLast DEF CapabilitiesType
  <2>3. Len(cOps) \in Nat
    BY <1>0 DEF CapabilitiesType
  <2>4. \A i \in 1..Len(cOps') : HandlesUsed(cOps'[i])
    BY <2>2, <2>3 DEF SnapshotsSound
  <2>5. \A i \in 3..Len(cOps') : Released(cOps'[i - 1], cOps'[i])
    BY <2>2, <2>3 DEF SnapshotsSound
  <2> QED
    BY <1>0, <2>1, <2>2, <2>4, <2>5 DEF SnapshotsSound, CapabilitiesType
<1>5. CASE UNCHANGED cVars
  BY <1>5 DEF SnapshotsSound, CapabilitiesType, cVars
<1> QED
  BY <1>1, <1>2, <1>3, <1>4, <1>5 DEF CapabilitiesNext

(* Whatever profiles, plugin tools and chain of delegations, no operation     *)
(* holds a filesystem or shell handle without a tool that uses it, no agent   *)
(* is built with a tool its snapshot does not grant, and below a child of the *)
(* session nobody has a tool that the one who delegated had not               *)
(* (capability_snapshot_for_delegated_profile).                               *)
THEOREM HandlesCorrect == CapabilitiesSpec => []HandlesFollowTools
<1>1. CapabilitiesInit => SnapshotsSound
  BY DEF CapabilitiesInit, SnapshotsSound, CapabilitiesType
<1>2. SnapshotsSound /\ [CapabilitiesNext]_cVars => SnapshotsSound'
  BY StepSnapshots
<1>3. SnapshotsSound => HandlesFollowTools
  <2> SUFFICES ASSUME SnapshotsSound, NEW i \in DOMAIN cOps
               PROVE  /\ HandlesUsed(cOps[i])
                      /\ ~cOps[i].all => AgentTools(cOps[i]) \subseteq cOps[i].tools
                      /\ i > 2 => Released(cOps[i - 1], cOps[i])
    BY DEF HandlesFollowTools, HandlesUsed, Released
  <2>1. i \in 1..Len(cOps)
    BY DEF SnapshotsSound, CapabilitiesType
  <2>2. ~cOps[i].all => AgentTools(cOps[i]) \subseteq cOps[i].tools
    BY DEF AgentTools, Allows
  <2>3. i > 2 => i \in 3..Len(cOps)
    BY <2>1 DEF SnapshotsSound, CapabilitiesType
  <2> QED
    BY <2>1, <2>2, <2>3 DEF SnapshotsSound
<1> QED
  BY <1>1, <1>2, <1>3, PTL DEF CapabilitiesSpec

(***************************************************************************)
(* Delegation: what the records of the log leave pending.                   *)
(***************************************************************************)
Reqs == [n : 1..DMaxRequests, call : Nat, from : DAgents, to : Targets]
Confs == [r : Reqs, depth : Nat, lineage : SUBSET Targets, day : Nat]
Recs == [is : {"requested", "approved", "rejected"}, c : Confs]

\* No two confirmations of a queue have one key.
KeysApart(queue) == \A i, j \in DOMAIN queue : Key(queue[i]) = Key(queue[j]) => i = j

\* c is one of those that wait.
Among(c, queue) == \E i \in DOMAIN queue : queue[i] = c

(* The place of a pending confirmation.                                      *)
LEMMA PositionFacts ==
    ASSUME NEW queue \in Seq(Confs), NEW call
    PROVE  /\ Position(queue, call) = 0 => \A i \in 1..Len(queue) : Key(queue[i]) # call
           /\ Position(queue, call) # 0 =>
                 Position(queue, call) \in 1..Len(queue)
                 /\ Key(queue[Position(queue, call)]) = call
<1> DEFINE at == {i \in DOMAIN queue : Key(queue[i]) = call}
<1>1. DOMAIN queue = 1..Len(queue) /\ Len(queue) \in Nat
  BY LenProperties
<1>2. Position(queue, call) = IF at = {} THEN 0 ELSE Min(at)
  BY DEF Position
<1>3. CASE at = {}
  BY <1>1, <1>2, <1>3
<1>4. CASE at # {}
  <2>1. at \in SUBSET Nat
    BY <1>1
  <2>2. \E m \in at : \A k \in at : m <= k
    <3> HIDE DEF at
    <3> QED
      BY <1>4, <2>1, NatLeast
  <2>3. Min(at) \in at
    <3> HIDE DEF at
    <3> QED
      BY <2>2 DEF Min
  <2>4. Position(queue, call) \in at
    BY <1>2, <1>4, <2>3
  <2> QED
    BY <1>1, <2>4
<1> QED
  BY <1>3, <1>4

(* What a record does to the pending confirmations                            *)
(* (add_pending_delegation_confirmation,                                      *)
(* resolve_pending_delegation_confirmation).                                  *)
LEMMA ResolveFacts ==
    ASSUME NEW pending \in Seq(Confs), KeysApart(pending), NEW e \in Recs
    PROVE  LET after == Resolve(pending, e)
           IN /\ after \in Seq(Confs) /\ KeysApart(after)
              /\ \A i \in 1..Len(after) :
                    \/ Among(after[i], pending)
                    \/ e.is = "requested" /\ after[i] = e.c
              /\ e.is # "requested" => \A i \in 1..Len(after) : Key(after[i]) # Key(e.c)
<1> DEFINE after == Resolve(pending, e)
<1>1. Len(pending) \in Nat /\ DOMAIN pending = 1..Len(pending) /\ e.c \in Confs
      /\ \A i \in 1..Len(pending) : pending[i] \in Confs
  BY LenProperties, ElementOfSeq DEF Recs
<1> HIDE DEF Confs, Recs
<1>2. CASE e.is = "requested" /\ IsDuplicate(pending, e.c)
  BY <1>1, <1>2 DEF Resolve, Among
<1>3. CASE e.is = "requested" /\ ~IsDuplicate(pending, e.c)
  <2>1. after = Append(pending, e.c)
    BY <1>3 DEF Resolve
  <2>2. /\ after \in Seq(Confs) /\ Len(after) = Len(pending) + 1
        /\ after[Len(pending) + 1] = e.c
        /\ \A i \in 1..Len(pending) : after[i] = pending[i]
    BY <1>1, <2>1, AppendProperties
  <2>3. \A i \in 1..Len(pending) : Key(pending[i]) # Key(e.c)
    BY <1>1, <1>3 DEF IsDuplicate
  <2>4. DOMAIN after = 1..(Len(pending) + 1)
    BY <2>2, LenProperties
  <2> HIDE DEF after
  <2>5. KeysApart(after)
    BY <1>1, <2>2, <2>3, <2>4 DEF KeysApart
  <2>6. \A i \in 1..Len(after) : Among(after[i], pending) \/ after[i] = e.c
    BY <1>1, <2>2 DEF Among
  <2> QED
    BY <1>3, <2>2, <2>5, <2>6 DEF after
<1>4. CASE e.is # "requested" /\ Position(pending, Key(e.c)) = 0
  <2>1. after = pending
    BY <1>4 DEF Resolve, Dropped
  <2>2. \A i \in 1..Len(pending) : Key(pending[i]) # Key(e.c)
    BY <1>4, PositionFacts
  <2> QED
    BY <1>1, <1>4, <2>1, <2>2 DEF Among
<1>5. CASE e.is # "requested" /\ Position(pending, Key(e.c)) # 0
  <2> DEFINE p == Position(pending, Key(e.c))
  <2>1. after = RemoveAt(pending, p)
    BY <1>5 DEF Resolve, Dropped
  <2>2. p \in 1..Len(pending) /\ Key(pending[p]) = Key(e.c)
    BY <1>5, PositionFacts
  <2> HIDE DEF p
  <2>3. /\ after \in Seq(Confs) /\ Len(after) = Len(pending) - 1
        /\ \A k \in 1..(Len(pending) - 1) :
              after[k] = IF k < p THEN pending[k] ELSE pending[k + 1]
    BY <2>1, <2>2, RemoveFacts
  <2>4. DOMAIN after = 1..(Len(pending) - 1)
    BY <2>3, LenProperties
  <2> HIDE DEF after
  <2>5. \A k \in 1..Len(after) : \E i \in 1..Len(pending) :
           after[k] = pending[i] /\ i # p /\ i = IF k < p THEN k ELSE k + 1
    BY <1>1, <2>2, <2>3
  <2>6. KeysApart(after)
    <3> SUFFICES ASSUME NEW k \in 1..Len(after), NEW l \in 1..Len(after),
                        Key(after[k]) = Key(after[l])
                 PROVE  k = l
      BY <2>3, <2>4 DEF KeysApart
    <3>1. PICK i \in 1..Len(pending) : after[k] = pending[i] /\ i = IF k < p THEN k ELSE k + 1
      BY <2>5
    <3>2. PICK j \in 1..Len(pending) : after[l] = pending[j] /\ j = IF l < p THEN l ELSE l + 1
      BY <2>5
    <3>3. i = j
      BY <1>1, <3>1, <3>2 DEF KeysApart
    <3> QED
      BY <2>2, <2>3, <3>1, <3>2, <3>3
  <2>7. \A k \in 1..Len(after) : Among(after[k], pending) /\ Key(after[k]) # Key(e.c)
    <3> TAKE k \in 1..Len(after)
    <3>1. PICK i \in 1..Len(pending) : after[k] = pending[i] /\ i # p
      BY <2>5
    <3> QED
      BY <1>1, <2>2, <3>1 DEF KeysApart, Among
  <2> QED
    BY <1>5, <2>3, <2>6, <2>7 DEF after
<1> QED
  BY <1>2, <1>3, <1>4, <1>5

\* What waits after each record of the log.
Waits == {queue \in Seq(Confs) : KeysApart(queue)}
Folded(g, log) ==
    /\ g \in [0..Len(log) -> Waits] /\ g[0] = <<>>
    /\ \A i \in 1..Len(log) : g[i] = Resolve(g[i - 1], log[i])
    /\ PendingAfter(log) = g[Len(log)]

(* The pending confirmations are folded over the log record by record.         *)
LEMMA PendingFolds ==
    ASSUME NEW log \in Seq(Recs)
    PROVE  \E g : Folded(g, log)
<1> DEFINE n == Len(log)
           step == [x \in (1..n) \X Waits |-> Resolve(x[2], log[x[1]])]
<1>0. n \in Nat /\ \A i \in 1..n : log[i] \in Recs
  BY LenProperties, ElementOfSeq
<1>1. <<>> \in Waits
  <2>1. <<>> \in Seq(Confs) /\ DOMAIN <<>> = {}
    OBVIOUS
  <2> QED
    BY <2>1 DEF Waits, KeysApart
<1>2. step \in [(1..n) \X Waits -> Waits]
  <2>1. ASSUME NEW x \in (1..n) \X Waits PROVE Resolve(x[2], log[x[1]]) \in Waits
    <3>1. x[1] \in 1..n /\ x[2] \in Waits
      OBVIOUS
    <3>2. log[x[1]] \in Recs /\ x[2] \in Seq(Confs) /\ KeysApart(x[2])
      BY <1>0, <3>1 DEF Waits
    <3> QED
      BY <3>2, ResolveFacts DEF Waits
  <2> HIDE DEF n
  <2> QED
    BY <2>1
<1>3. PICK f : BuiltBy(f, Waits, <<>>, n, step)
  <2> HIDE DEF n, step
  <2> QED
    BY <1>0, <1>1, <1>2, Iterates
<1>4. f \in [0..n -> Waits] /\ f[0] = <<>> /\ \A i \in 1..n : f[i] = step[<<i, f[i - 1]>>]
  <2> HIDE DEF n, step
  <2> QED
    BY <1>3 DEF BuiltBy
<1>5. \A i \in 1..n, p \in Waits : step[<<i, p>>] = Resolve(p, log[i])
  BY <1>0
<1> HIDE DEF step
<1>6. ASSUME NEW i \in 1..n PROVE f[i] = Resolve(f[i - 1], log[i])
  <2>1. f[i - 1] \in Waits
    BY <1>0, <1>4
  <2> QED
    BY <1>4, <1>5, <2>1
<1> DEFINE Built(g) == g = [i \in 0..Len(log) |->
                              IF i = 0 THEN <<>> ELSE Resolve(g[i - 1], log[i])]
<1>7. Built(f)
  <2>1. ASSUME NEW i \in 0..Len(log)
        PROVE  f[i] = IF i = 0 THEN <<>> ELSE Resolve(f[i - 1], log[i])
    BY <1>0, <1>4, <1>6
  <2> QED
    BY <1>4, <2>1
<1> DEFINE g == CHOOSE h : Built(h)
<1>8. Built(g)
  BY <1>7
<1>9. PendingAfter(log) = g[Len(log)]
  BY Zenon DEF PendingAfter
<1>10. g[0] = <<>> /\ \A i \in 1..n : g[i] = Resolve(g[i - 1], log[i])
  <2> HIDE DEF g
  <2> QED
    BY <1>0, <1>8
<1> HIDE DEF g
<1>11. \A i \in 0..n : g[i] = f[i] /\ g[i] \in Waits
  <2>1. \A i \in 1..n : g[i - 1] \in Waits => g[i] = step[<<i, g[i - 1]>>]
    BY <1>5, <1>10
  <2> HIDE DEF n
  <2> QED
    BY <1>0, <1>1, <1>2, <1>3, <1>10, <2>1, Agrees
<1>12. g \in [0..n -> Waits]
  BY <1>8, <1>11
<1> QED
  BY <1>9, <1>10, <1>12 DEF Folded

(* Logs with the same first records leave the same pending after them.         *)
LEMMA FoldsAgree ==
    ASSUME NEW log \in Seq(Recs), NEW more \in Seq(Recs), NEW g, NEW h,
           Folded(g, log), Folded(h, more), Len(log) <= Len(more),
           \A i \in 1..Len(log) : more[i] = log[i]
    PROVE  \A i \in 0..Len(log) : h[i] = g[i]
<1> DEFINE Differ == {k \in 0..Len(log) : h[k] # g[k]}
<1>0. Len(log) \in Nat /\ Len(more) \in Nat
  BY LenProperties
<1>1. SUFFICES ASSUME Differ # {} PROVE FALSE
  OBVIOUS
<1>2. PICK k \in Differ : \A l \in Differ : k <= l
  <2>1. Differ \in SUBSET Nat
    OBVIOUS
  <2> HIDE DEF Differ
  <2> QED
    BY <1>1, <2>1, NatLeast
<1>3. k # 0
  BY DEF Folded
<1>4. k \in 1..Len(log) /\ k \in 1..Len(more) /\ k - 1 \in 0..Len(log) /\ ~(k <= k - 1)
  BY <1>0, <1>3
<1>5. h[k - 1] = g[k - 1]
  BY <1>2, <1>4
<1>6. h[k] = Resolve(h[k - 1], more[k]) /\ g[k] = Resolve(g[k - 1], log[k])
  BY <1>4 DEF Folded
<1> QED
  BY <1>4, <1>5, <1>6

(* One more record.                                                          *)
LEMMA PendingAppend ==
    ASSUME NEW log \in Seq(Recs), NEW e \in Recs
    PROVE  PendingAfter(Append(log, e)) = Resolve(PendingAfter(log), e)
<1> DEFINE more == Append(log, e)
<1>1. /\ more \in Seq(Recs) /\ Len(more) = Len(log) + 1 /\ more[Len(log) + 1] = e
      /\ Len(log) \in Nat /\ \A i \in 1..Len(log) : more[i] = log[i]
  BY AppendProperties, LenProperties
<1> HIDE DEF more
<1>2. PICK g : Folded(g, log)
  BY PendingFolds
<1>3. PICK h : Folded(h, more)
  BY <1>1, PendingFolds
<1>4. \A i \in 0..Len(log) : h[i] = g[i]
  BY <1>1, <1>2, <1>3, FoldsAgree
<1>5. h[Len(log)] = g[Len(log)]
  BY <1>1, <1>4
<1>6. PendingAfter(log) = g[Len(log)] /\ PendingAfter(more) = h[Len(more)]
  BY <1>2, <1>3 DEF Folded
<1>7. h[Len(log) + 1] = Resolve(h[Len(log)], e)
  <2>1. Len(log) + 1 \in 1..Len(more) /\ (Len(log) + 1) - 1 = Len(log)
    BY <1>1
  <2>2. \A i \in 1..Len(more) : h[i] = Resolve(h[i - 1], more[i])
    BY <1>3 DEF Folded
  <2> QED
    BY <1>1, <2>1, <2>2
<1> QED
  BY <1>1, <1>5, <1>6, <1>7 DEF more

(* Everything that is pending was requested, and has not been answered since.   *)
LEMMA PendingShape ==
    ASSUME NEW log \in Seq(Recs)
    PROVE  /\ PendingAfter(log) \in Seq(Confs) /\ KeysApart(PendingAfter(log))
           /\ \A i \in 1..Len(PendingAfter(log)) : \E j \in 1..Len(log) :
                 /\ log[j] = Record("requested", PendingAfter(log)[i])
                 /\ \A k \in (j + 1)..Len(log) :
                       log[k].is # "requested" => Key(log[k].c) # Key(PendingAfter(log)[i])
<1>0. Len(log) \in Nat /\ \A i \in 1..Len(log) : log[i] \in Recs
  BY LenProperties, ElementOfSeq
<1>1. PICK g : Folded(g, log)
  BY PendingFolds
<1>2. /\ \A i \in 0..Len(log) : g[i] \in Seq(Confs) /\ KeysApart(g[i])
      /\ g[0] = <<>> /\ PendingAfter(log) = g[Len(log)]
      /\ \A i \in 1..Len(log) : g[i] = Resolve(g[i - 1], log[i])
  BY <1>1 DEF Folded, Waits
<1> DEFINE Asks(j, c, m) ==
               /\ log[j] = Record("requested", c)
               /\ \A k \in (j + 1)..m : log[k].is # "requested" => Key(log[k].c) # Key(c)
           Fine(m) == \A i \in 1..Len(g[m]) : \E j \in 1..m : Asks(j, g[m][i], m)
           Bad == {m \in 0..Len(log) : ~Fine(m)}
<1>3. \A m \in 0..Len(log) : Fine(m)
  <2>1. SUFFICES ASSUME Bad # {} PROVE FALSE
    OBVIOUS
  <2>2. PICK m \in Bad : \A l \in Bad : m <= l
    <3>1. Bad \in SUBSET Nat
      OBVIOUS
    <3> HIDE DEF Bad
    <3> QED
      BY <2>1, <3>1, NatLeast
  <2>3. m # 0
    <3>1. Len(g[0]) = 0
      BY <1>2
    <3> QED
      BY <3>1
  <2>4. m \in 1..Len(log) /\ m - 1 \in 0..Len(log) /\ ~(m <= m - 1) /\ ~Fine(m)
    BY SMTT(30), <1>0, <2>3
  <2>5. Fine(m - 1)
    <3> HIDE DEF Fine
    <3> QED
      BY <2>2, <2>4
  <2>6. /\ g[m] = Resolve(g[m - 1], log[m]) /\ log[m] \in Recs
        /\ g[m - 1] \in Seq(Confs) /\ KeysApart(g[m - 1])
    BY <1>0, <1>2, <2>4
  <2>7. /\ \A i \in 1..Len(g[m]) : \/ Among(g[m][i], g[m - 1])
                                   \/ log[m].is = "requested" /\ g[m][i] = log[m].c
        /\ log[m].is # "requested" => \A i \in 1..Len(g[m]) : Key(g[m][i]) # Key(log[m].c)
    <3> DEFINE p == g[m - 1]
               e == log[m]
               q == Resolve(p, e)
    <3>1. p \in Seq(Confs) /\ KeysApart(p) /\ e \in Recs
      BY <2>6
    <3> HIDE DEF p, e
    <3>2. /\ \A i \in 1..Len(q) :
                Among(q[i], p) \/ (e.is = "requested" /\ q[i] = e.c)
          /\ e.is # "requested" => \A i \in 1..Len(q) : Key(q[i]) # Key(e.c)
      BY <3>1, ResolveFacts
    <3>3. g[m] = q
      BY <2>6 DEF p, e
    <3> HIDE DEF q
    <3> QED
      BY <3>2, <3>3 DEF p, e
  <2>8. ASSUME NEW i \in 1..Len(g[m]) PROVE \E j \in 1..m : Asks(j, g[m][i], m)
    <3>1. CASE Among(g[m][i], g[m - 1])
      <4>1. PICK l \in 1..Len(g[m - 1]) : g[m - 1][l] = g[m][i]
        <5>1. DOMAIN g[m - 1] = 1..Len(g[m - 1])
          BY <2>6, LenProperties
        <5> QED
          BY <3>1, <5>1 DEF Among
      <4>2. PICK j \in 1..(m - 1) : Asks(j, g[m][i], m - 1)
        BY <2>5, <4>1
      <4>3. j \in 1..m /\ \A k \in (j + 1)..m : k \in (j + 1)..(m - 1) \/ k = m
        BY <2>4
      <4>4. \A k \in (j + 1)..m : log[k].is # "requested" => Key(log[k].c) # Key(g[m][i])
        BY <2>7, <4>2, <4>3
      <4> QED
        BY <4>2, <4>3, <4>4
    <3>2. CASE log[m].is = "requested" /\ g[m][i] = log[m].c
      <4>1. log[m] = Record("requested", g[m][i])
        BY <2>6, <3>2 DEF Recs, Record
      <4>2. (m + 1)..m = {}
        BY <2>4
      <4> QED
        BY <2>4, <4>1, <4>2
    <3> QED
      BY <2>7, <3>1, <3>2
  <2> HIDE DEF Asks
  <2> QED
    BY <2>4, <2>8
<1>4. Len(log) \in 0..Len(log)
  BY <1>0
<1>5. Fine(Len(log))
  <2> HIDE DEF Fine
  <2> QED
    BY <1>3, <1>4
<1>6. PendingAfter(log) \in Seq(Confs) /\ KeysApart(PendingAfter(log))
  BY <1>2, <1>4
<1>7. \A i \in 1..Len(PendingAfter(log)) : \E j \in 1..Len(log) :
         Asks(j, PendingAfter(log)[i], Len(log))
  <2> HIDE DEF Asks
  <2> QED
    BY <1>2, <1>5
<1> QED
  BY <1>6, <1>7

(* A sequence with one more element, behind another one.                     *)
LEMMA ConcatAppend ==
    ASSUME NEW S, NEW s \in Seq(S), NEW t \in Seq(S), NEW e \in S
    PROVE  s \o Append(t, e) = Append(s \o t, e)
BY SMTT(60)

(* Confirmations that are requested one after the other, with keys of their   *)
(* own, are pending behind those that were.                                   *)
LEMMA PendingBatch ==
    ASSUME NEW log \in Seq(Recs), NEW cs \in Seq(Confs), KeysApart(PendingAfter(log) \o cs)
    PROVE  LET recs == [i \in DOMAIN cs |-> Record("requested", cs[i])]
           IN PendingAfter(log \o recs) = PendingAfter(log) \o cs
<1> DEFINE recs == [i \in DOMAIN cs |-> Record("requested", cs[i])]
           P == PendingAfter(log)
           all == P \o cs
           more == log \o recs
           L == Len(log)
           N == Len(cs)
           M == Len(P)
<1>0. N \in Nat /\ L \in Nat /\ DOMAIN cs = 1..N /\ \A i \in 1..N : cs[i] \in Confs
  BY LenProperties, ElementOfSeq
<1>1. P \in Seq(Confs) /\ M \in Nat
  BY PendingShape, LenProperties
<1>2. recs \in Seq(Recs) /\ Len(recs) = N /\ \A i \in 1..N : recs[i] = Record("requested", cs[i])
  <2>1. \A i \in 1..N : Record("requested", cs[i]) \in Recs
    BY <1>0 DEF Record, Recs
  <2>2. recs = [i \in 1..N |-> Record("requested", cs[i])]
    BY <1>0
  <2> HIDE DEF recs, N
  <2> QED
    BY <1>0, <2>1, <2>2
<1> HIDE DEF recs, P, N, L, M
<1>3. /\ more \in Seq(Recs) /\ Len(more) = L + N /\ \A i \in 1..L : more[i] = log[i]
      /\ \A k \in 1..N : more[L + k] = Record("requested", cs[k])
  <2>1. /\ log \o recs \in Seq(Recs) /\ Len(log \o recs) = Len(log) + Len(recs)
        /\ \A k \in 1..Len(log) : (log \o recs)[k] = log[k]
        /\ \A k \in 1..Len(recs) : (log \o recs)[Len(log) + k] = recs[k]
    BY <1>2, ConcatFacts
  <2> HIDE DEF more
  <2> QED
    BY <1>2, <2>1 DEF L, more
<1>4. /\ all \in Seq(Confs) /\ Len(all) = M + N /\ \A i \in 1..M : all[i] = P[i]
      /\ \A k \in 1..N : all[M + k] = cs[k]
  BY <1>1, ConcatFacts DEF M, N
<1>5. KeysApart(all)
  BY DEF P
<1> HIDE DEF more, all
<1>6. PICK g : Folded(g, log)
  BY PendingFolds
<1>7. PICK h : Folded(h, more)
  BY <1>3, PendingFolds
<1>8. h[L] = P
  <2>1. \A i \in 0..Len(log) : h[i] = g[i]
    BY <1>0, <1>3, <1>6, <1>7, FoldsAgree DEF L
  <2> QED
    BY <1>0, <1>6, <2>1 DEF Folded, L, P
<1> DEFINE Grown(k) == Len(h[L + k]) = M + k /\ \A i \in 1..(M + k) : h[L + k][i] = all[i]
           Bad == {k \in 0..N : ~Grown(k)}
<1>9. \A k \in 0..N : Grown(k)
  <2>1. SUFFICES ASSUME Bad # {} PROVE FALSE
    OBVIOUS
  <2>2. PICK k \in Bad : \A l \in Bad : k <= l
    <3>1. Bad \in SUBSET Nat
      OBVIOUS
    <3> HIDE DEF Bad
    <3> QED
      BY <2>1, <3>1, NatLeast
  <2>3. k # 0
    BY <1>0, <1>1, <1>4, <1>8 DEF M
  <2>4. k \in 1..N /\ k - 1 \in 0..N /\ ~(k <= k - 1) /\ ~Grown(k)
    BY <1>0, <2>3
  <2>5. Grown(k - 1)
    <3> HIDE DEF Grown
    <3> QED
      BY <2>2, <2>4
  <2> DEFINE p == h[L + (k - 1)]
             c == cs[k]
  <2>6. h[L + k] = Resolve(p, Record("requested", c)) /\ p \in Seq(Confs) /\ c \in Confs
    <3>1. /\ L + k \in 1..Len(more) /\ L + k - 1 = L + (k - 1) /\ L + (k - 1) \in 0..Len(more)
      BY <1>0, <1>3, <2>4
    <3>2. /\ \A i \in 1..Len(more) : h[i] = Resolve(h[i - 1], more[i])
          /\ \A i \in 0..Len(more) : h[i] \in Seq(Confs)
      BY <1>7 DEF Folded, Waits
    <3> QED
      BY <1>0, <1>3, <2>4, <3>1, <3>2
  <2>7. Len(p) = M + (k - 1) /\ \A i \in 1..(M + (k - 1)) : p[i] = all[i]
    BY <2>5
  <2> HIDE DEF p
  <2>8. c = all[M + k] /\ M + k \in 1..Len(all) /\ DOMAIN all = 1..Len(all)
    BY <1>0, <1>1, <1>4, <2>4, LenProperties
  <2>9. ~IsDuplicate(p, c)
    <3> SUFFICES ASSUME NEW i \in DOMAIN p, Key(p[i]) = Key(c) PROVE FALSE
      BY DEF IsDuplicate
    <3>1. i \in 1..(M + (k - 1))
      BY <2>6, <2>7, LenProperties
    <3>2. i \in 1..Len(all) /\ i # M + k /\ p[i] = all[i]
      BY <1>0, <1>1, <1>4, <2>4, <2>7, <3>1
    <3> QED
      BY <1>5, <2>8, <3>2 DEF KeysApart
  <2> HIDE DEF c
  <2>10. h[L + k] = Append(p, c)
    BY <2>6, <2>9 DEF Resolve, Record
  <2>11. /\ Len(Append(p, c)) = Len(p) + 1 /\ Append(p, c)[Len(p) + 1] = c
         /\ \A i \in 1..Len(p) : Append(p, c)[i] = p[i]
    BY <2>6, AppendProperties
  <2>12. M + (k - 1) + 1 = M + k
    BY <1>1, <2>4
  <2>13. ASSUME NEW i \in 1..(M + k) PROVE Append(p, c)[i] = all[i]
    <3>1. i = M + k \/ i \in 1..(M + (k - 1))
      BY SMTT(30), <1>1, <2>4
    <3> QED
      BY <2>7, <2>8, <2>11, <2>12, <3>1
  <2>14. Grown(k)
    BY <2>7, <2>10, <2>11, <2>12, <2>13
  <2> HIDE DEF Grown
  <2> QED
    BY <2>4, <2>14
<1>10. Grown(N)
  <2> HIDE DEF Grown
  <2> QED
    BY <1>0, <1>9
<1>11. PendingAfter(more) = h[L + N] /\ h[L + N] \in Seq(Confs)
  BY <1>0, <1>3, <1>7 DEF Folded, Waits
<1>12. h[L + N] = all
  <2>1. Len(h[L + N]) = Len(all) /\ \A i \in 1..Len(all) : h[L + N][i] = all[i]
    BY <1>4, <1>10
  <2> QED
    BY <1>4, <1>11, <2>1, SeqEqual
<1> QED
  BY <1>11, <1>12 DEF more, all, recs, P

(* What a context's confirmations add to the queue (adopt_pending): some of     *)
(* them, with keys that the queue does not have.                               *)
LEMMA AdoptedFacts ==
    ASSUME dQueue \in Seq(Confs), KeysApart(dQueue), NEW pending \in Seq(Confs)
    PROVE  /\ Adopted(pending) \in Seq(Confs) /\ KeysApart(dQueue \o Adopted(pending))
           /\ \A i \in 1..Len(Adopted(pending)) : Among(Adopted(pending)[i], pending)
<1> DEFINE n == Len(pending)
           Fit(cs) == KeysApart(dQueue \o cs) /\ \A i \in 1..Len(cs) : Among(cs[i], pending)
           S == {cs \in Seq(Confs) : Fit(cs)}
           Next1(cs, c) == IF IsDuplicate(dQueue \o cs, c) THEN cs ELSE Append(cs, c)
           step == [x \in (1..n) \X S |-> Next1(x[2], pending[x[1]])]
<1>0. n \in Nat /\ DOMAIN pending = 1..n /\ \A i \in 1..n : pending[i] \in Confs
  BY LenProperties, ElementOfSeq
<1>1. <<>> \in S
  <2>1. <<>> \in Seq(Confs) /\ Len(<<>>) = 0 /\ dQueue \o <<>> = dQueue
    BY ConcatEmptySeq
  <2> QED
    BY <2>1
<1>2. ASSUME NEW cs \in S, NEW i \in 1..n PROVE Next1(cs, pending[i]) \in S
  <2> DEFINE c == pending[i]
             q == dQueue \o cs
  <2>0. cs \in Seq(Confs) /\ KeysApart(q) /\ c \in Confs /\ \A k \in 1..Len(cs) : Among(cs[k], pending)
    BY <1>0
  <2>1. CASE IsDuplicate(q, c)
    BY <2>1
  <2>2. CASE ~IsDuplicate(q, c)
    <3> DEFINE t == Append(cs, c)
    <3>1. q \in Seq(Confs) /\ dQueue \o t = Append(q, c)
      BY <2>0, ConcatProperties, ConcatAppend
    <3> HIDE DEF q
    <3>2. /\ Append(q, c) \in Seq(Confs) /\ Len(Append(q, c)) = Len(q) + 1
          /\ Append(q, c)[Len(q) + 1] = c
          /\ \A k \in 1..Len(q) : Append(q, c)[k] = q[k]
      BY <2>0, <3>1, AppendProperties
    <3>3. /\ DOMAIN q = 1..Len(q) /\ Len(q) \in Nat
          /\ DOMAIN Append(q, c) = 1..(Len(q) + 1)
      BY <3>1, <3>2, LenProperties
    <3>4. \A k \in 1..Len(q) : Key(q[k]) # Key(c)
      BY <2>2, <3>3 DEF IsDuplicate
    <3>5. KeysApart(Append(q, c))
      BY <2>0, <3>2, <3>3, <3>4 DEF KeysApart
    <3>6. /\ t \in Seq(Confs) /\ Len(t) = Len(cs) + 1 /\ t[Len(cs) + 1] = c
          /\ Len(cs) \in Nat /\ \A k \in 1..Len(cs) : t[k] = cs[k]
      BY <2>0, AppendProperties, LenProperties
    <3>7. Among(c, pending)
      BY <1>0 DEF Among
    <3> HIDE DEF t, c
    <3>8. \A k \in 1..Len(t) : Among(t[k], pending)
      BY <2>0, <3>6, <3>7
    <3>9. t \in S
      BY <3>1, <3>5, <3>6, <3>8
    <3> QED
      BY <2>2, <3>9 DEF t, q, c
  <2> HIDE DEF S
  <2> QED
    BY <2>1, <2>2
<1> HIDE DEF S, Next1
<1>3. step \in [(1..n) \X S -> S]
  <2>1. ASSUME NEW x \in (1..n) \X S PROVE Next1(x[2], pending[x[1]]) \in S
    <3>1. x[1] \in 1..n /\ x[2] \in S
      OBVIOUS
    <3> HIDE DEF n
    <3> QED
      BY <1>2, <3>1
  <2> HIDE DEF n
  <2> QED
    BY <2>1
<1>4. \A i \in 1..n, cs \in S : step[<<i, cs>>] = Next1(cs, pending[i])
  <2> HIDE DEF n
  <2> QED
    OBVIOUS
<1> HIDE DEF step
<1>5. PICK f : BuiltBy(f, S, <<>>, n, step)
  <2> HIDE DEF n
  <2> QED
    BY <1>0, <1>1, <1>3, Iterates
<1>6. f \in [0..n -> S] /\ f[0] = <<>> /\ \A i \in 1..n : f[i] = step[<<i, f[i - 1]>>]
  <2> HIDE DEF n
  <2> QED
    BY <1>5 DEF BuiltBy
<1>7. ASSUME NEW i \in 1..n PROVE f[i] = Next1(f[i - 1], pending[i])
  <2>1. f[i - 1] \in S
    BY <1>0, <1>6
  <2> QED
    BY <1>4, <1>6, <2>1
<1> DEFINE Built(g) == g = [i \in 0..Len(pending) |->
                IF i = 0 THEN <<>>
                ELSE IF IsDuplicate(dQueue \o g[i - 1], pending[i]) THEN g[i - 1]
                ELSE Append(g[i - 1], pending[i])]
<1>8. Built(f)
  <2>1. ASSUME NEW i \in 0..Len(pending)
        PROVE  f[i] = IF i = 0 THEN <<>>
                      ELSE IF IsDuplicate(dQueue \o f[i - 1], pending[i]) THEN f[i - 1]
                      ELSE Append(f[i - 1], pending[i])
    <3>1. CASE i = 0
      BY <1>6, <3>1
    <3>2. CASE i # 0
      <4>1. i \in 1..n
        BY <3>2
      <4>2. f[i] = IF IsDuplicate(dQueue \o f[i - 1], pending[i]) THEN f[i - 1]
                   ELSE Append(f[i - 1], pending[i])
        BY Zenon, <1>7, <4>1 DEF Next1
      <4> QED
        BY Zenon, <3>2, <4>2
    <3> QED
      BY <3>1, <3>2
  <2> QED
    BY <1>6, <2>1
<1> DEFINE g == CHOOSE h : Built(h)
<1>9. Built(g)
  BY <1>8
<1>10. Adopted(pending) = g[Len(pending)]
  BY Zenon DEF Adopted
<1>11. g[0] = <<>> /\ \A i \in 1..n : g[i] = Next1(g[i - 1], pending[i])
  <2> HIDE DEF g
  <2>1. 0 \in 0..Len(pending) /\ \A i \in 1..n : i \in 0..Len(pending) /\ i # 0
    BY <1>0
  <2>2. g[0] = <<>>
    BY <1>9, <2>1
  <2>3. ASSUME NEW i \in 1..n PROVE g[i] = Next1(g[i - 1], pending[i])
    <3>1. g[i] = IF i = 0 THEN <<>>
                 ELSE IF IsDuplicate(dQueue \o g[i - 1], pending[i]) THEN g[i - 1]
                 ELSE Append(g[i - 1], pending[i])
      BY Zenon, <1>9, <2>1
    <3> QED
      BY Zenon, <2>1, <3>1 DEF Next1
  <2> QED
    BY <2>2, <2>3
<1> HIDE DEF g
<1>12. \A i \in 0..n : g[i] = f[i] /\ g[i] \in S
  <2>1. \A i \in 1..n : g[i - 1] \in S => g[i] = step[<<i, g[i - 1]>>]
    BY <1>4, <1>11
  <2> HIDE DEF n
  <2> QED
    BY <1>0, <1>1, <1>3, <1>5, <1>11, <2>1, Agrees
<1>13. Adopted(pending) \in S
  BY <1>0, <1>10, <1>12
<1> QED
  BY <1>13 DEF S

(***************************************************************************)
(* Delegation: authorization.                                               *)
(***************************************************************************)
Decs == [is : {"rejected", "confirm", "approved"}, r : Reqs]

(* Whatever was accepted before it, a request that is not rejected is within    *)
(* the depth of its policy, and asks for nobody above it                       *)
(* (authorize_delegation_requests_with_lineage).                               *)
LEMMA AuthorizeFacts ==
    ASSUME NEW requests \in Seq(Reqs), NEW depth \in Nat, NEW lineage
    PROVE  LET ds == Authorize(requests, depth, lineage)
           IN /\ ds \in Seq(Decs) /\ Len(ds) = Len(requests)
              /\ \A i \in 1..Len(requests) :
                    /\ ds[i].r = requests[i]
                    /\ ds[i].is # "rejected" => /\ depth < DPolicy[requests[i].from].maxDepth
                                                /\ requests[i].to \notin lineage
<1> DEFINE n == Len(requests)
           ds == Authorize(requests, depth, lineage)
           Is(r, accepted) ==
               IF RejectionReason(r, DPolicy[r.from], depth, accepted, lineage) THEN "rejected"
               ELSE IF NeedsConfirmation(r, DPolicy[r.from]) THEN "confirm" ELSE "approved"
           accepted == CHOOSE a : a = [i \in 0..Len(requests) |->
                           IF i = 0 THEN 0
                           ELSE a[i - 1] + (IF Is(requests[i], a[i - 1]) = "rejected" THEN 0 ELSE 1)]
<1>0. n \in Nat /\ DOMAIN requests = 1..n /\ \A i \in 1..n : requests[i] \in Reqs
  BY LenProperties, ElementOfSeq
<1>1. ds = [i \in DOMAIN requests |-> [is |-> Is(requests[i], accepted[i - 1]), r |-> requests[i]]]
  BY Zenon DEF Authorize
<1> HIDE DEF accepted, ds
<1>2. ASSUME NEW i \in 1..n
      PROVE  /\ ds[i] \in Decs /\ ds[i].r = requests[i]
             /\ ds[i].is # "rejected" => /\ depth < DPolicy[requests[i].from].maxDepth
                                         /\ requests[i].to \notin lineage
  <2> DEFINE x == accepted[i - 1]
             r == requests[i]
  <2>1. ds[i] = [is |-> Is(r, x), r |-> r]
    BY <1>0, <1>1
  <2>2. Is(r, x) \in {"rejected", "confirm", "approved"}
    OBVIOUS
  <2>3. Is(r, x) # "rejected" =>
           ~(depth >= DPolicy[r.from].maxDepth) /\ r.to \notin lineage
    BY Zenon DEF RejectionReason
  <2> HIDE DEF Is, x
  <2>4. r \in Reqs /\ DPolicy[r.from].maxDepth \in Nat
    BY <1>0, DelegationAssumption DEF Reqs
  <2>5. ~(depth >= DPolicy[r.from].maxDepth) => depth < DPolicy[r.from].maxDepth
    BY <2>4
  <2> HIDE DEF r
  <2>6. ds[i] \in Decs /\ ds[i].r = r /\ ds[i].is = Is(r, x)
    BY <2>1, <2>2, <2>4 DEF Decs
  <2> QED
    BY <2>3, <2>5, <2>6 DEF r
<1>3. ds \in [1..n -> Decs]
  BY <1>0, <1>1, <1>2
<1>4. ds \in Seq(Decs) /\ Len(ds) = n
  <2> HIDE DEF n
  <2> QED
    BY <1>0, <1>3
<1> QED
  BY <1>2, <1>4 DEF ds

(***************************************************************************)
(* Delegation: the events of a request.                                     *)
(***************************************************************************)
Unsettled(events) ==
    \A i \in DOMAIN events : events[i] \notin {"started", "rejected", "completed", "failed"}
UnderWay(events) ==
    /\ \E i \in DOMAIN events : events[i] = "started"
    /\ \A i \in DOMAIN events : events[i] \notin {"completed", "failed"}
Required(events) == events # <<>> /\ Last(events) = "required"

Words == {"asked", "approved", "started", "rejected", "required", "duplicate", "completed",
          "failed", "dropped", "lost"}

(* A request that was only asked for is not settled.                         *)
LEMMA AskedFacts ==
    LET events == <<"asked">>
    IN /\ events \in Seq(Words) /\ events # <<>>
       /\ ActedOnce(events) /\ Unsettled(events) /\ ~Required(events)
<1> DEFINE events == <<"asked">>
<1>1. "asked" \in Words
  BY DEF Words
<1>2. events \in Seq(Words) /\ Len(events) = 1 /\ events[1] = "asked" /\ events # <<>>
  BY <1>1
<1>3. DOMAIN events = {1}
  OBVIOUS
<1> HIDE DEF events
<1>4. \A i \in {1} : events[i] = "asked"
  BY <1>2
<1> QED
  BY <1>2, <1>3, <1>4 DEF events, ActedOnce, Unsettled, Required, Last

(* One more event.                                                           *)
LEMMA EventFacts ==
    ASSUME NEW events \in Seq(Words), NEW what \in Words
    PROVE  LET after == Append(events, what)
           IN /\ after \in Seq(Words) /\ after # <<>> /\ events \o <<what>> = after
              /\ Required(after) <=> what = "required"
              /\ what \notin {"started", "rejected", "completed", "failed"} =>
                    /\ Unsettled(events) => Unsettled(after)
                    /\ UnderWay(events) => UnderWay(after)
                    /\ ActedOnce(events) => ActedOnce(after)
              /\ what \in {"started", "rejected"} /\ Unsettled(events) => ActedOnce(after)
              /\ what = "started" /\ Unsettled(events) => UnderWay(after)
              /\ what \in {"completed", "failed"} /\ UnderWay(events) /\ ActedOnce(events) =>
                    ActedOnce(after)
<1> DEFINE after == Append(events, what)
           n == Len(events)
<1>1. /\ n \in Nat /\ DOMAIN events = 1..n
      /\ after \in Seq(Words) /\ Len(after) = n + 1 /\ after[n + 1] = what
      /\ \A i \in 1..n : after[i] = events[i]
  BY AppendProperties, LenProperties
<1>2. DOMAIN after = 1..(n + 1)
  BY <1>1, LenProperties
<1>3. events \o <<what>> = after /\ after # <<>>
  BY <1>1, AppendIsConcat
<1> HIDE DEF after, n
<1>4. Required(after) <=> what = "required"
  BY <1>1, <1>3 DEF Required, Last
<1>5. ASSUME what \notin {"started", "rejected", "completed", "failed"}
      PROVE  /\ Unsettled(events) => Unsettled(after)
             /\ UnderWay(events) => UnderWay(after)
             /\ ActedOnce(events) => ActedOnce(after)
  <2>1. Unsettled(events) => Unsettled(after)
    BY <1>1, <1>2, <1>5 DEF Unsettled
  <2>2. UnderWay(events) => UnderWay(after)
    BY <1>1, <1>2, <1>5 DEF UnderWay
  <2>3. ASSUME ActedOnce(events) PROVE ActedOnce(after)
    <3>1. \A i \in 1..(n + 1) : i \in 1..n \/ i = n + 1
      BY <1>1
    <3> QED
      BY <1>1, <1>2, <1>5, <2>3, <3>1 DEF ActedOnce
  <2> QED
    BY <2>1, <2>2, <2>3
<1>6. ASSUME what \in {"started", "rejected"}, Unsettled(events) PROVE ActedOnce(after)
  <2>1. \A i \in 1..(n + 1) : i \in 1..n \/ i = n + 1
    BY <1>1
  <2> QED
    BY <1>1, <1>2, <1>6, <2>1 DEF ActedOnce, Unsettled
<1>7. ASSUME what = "started", Unsettled(events) PROVE UnderWay(after)
  <2>1. \A i \in 1..(n + 1) : i \in 1..n \/ i = n + 1
    BY <1>1
  <2>2. n + 1 \in 1..(n + 1)
    BY <1>1
  <2> QED
    BY <1>1, <1>2, <1>7, <2>1, <2>2 DEF UnderWay, Unsettled
<1>8. ASSUME what \in {"completed", "failed"}, UnderWay(events), ActedOnce(events)
      PROVE  ActedOnce(after)
  <2>1. \A i \in 1..(n + 1) : i \in 1..n \/ i = n + 1
    BY <1>1
  <2>2. \E i \in 1..((n + 1) - 1) : after[i] = "started"
    BY <1>1, <1>8 DEF UnderWay
  <2>3. \A i \in 1..n : after[i] \notin {"completed", "failed"}
    BY <1>1, <1>8 DEF UnderWay
  <2>4. \A i, j \in 1..(n + 1) :
           {after[i], after[j]} \subseteq {"started", "rejected"} => i = j
    BY <1>1, <1>8, <2>1 DEF ActedOnce
  <2>5. \A i, j \in 1..(n + 1) :
           {after[i], after[j]} \subseteq {"completed", "failed"} => i = j
    BY <2>1, <2>3
  <2>6. \A j \in 1..(n + 1) :
           after[j] \in {"completed", "failed"} => \E i \in 1..(j - 1) : after[i] = "started"
    BY <2>1, <2>2, <2>3
  <2> QED
    BY <1>2, <2>4, <2>5, <2>6 DEF ActedOnce
<1> QED
  BY <1>1, <1>3, <1>4, <1>5, <1>6, <1>7, <1>8 DEF after

(* An approved request is under way.                                          *)
LEMMA ApprovedFacts ==
    ASSUME NEW events \in Seq(Words), Unsettled(events)
    PROVE  LET after == events \o <<"approved", "started">>
           IN /\ after \in Seq(Words) /\ after # <<>> /\ ActedOnce(after) /\ UnderWay(after)
              /\ ~Required(after)
<1> DEFINE one == Append(events, "approved")
           two == Append(one, "started")
<1>0. "approved" \in Words /\ "started" \in Words
  BY DEF Words
<1>1. one \in Seq(Words) /\ Unsettled(one)
  BY <1>0, EventFacts
<1> HIDE DEF one
<1>2. /\ two \in Seq(Words) /\ two # <<>> /\ ActedOnce(two) /\ UnderWay(two)
      /\ ~Required(two)
  BY <1>0, <1>1, EventFacts
<1>3. events \o <<"approved", "started">> = two
  <2>0. <<"approved">> \in Seq(Words)
    BY <1>0
  <2>1. Append(<<"approved">>, "started") = <<"approved", "started">>
    <3> DEFINE s == Append(<<"approved">>, "started")
               t == <<"approved", "started">>
    <3>1. /\ s \in Seq(Words) /\ Len(s) = Len(<<"approved">>) + 1
          /\ s[Len(<<"approved">>) + 1] = "started"
          /\ \A i \in 1..Len(<<"approved">>) : s[i] = <<"approved">>[i]
      BY <1>0, <2>0, AppendProperties
    <3>2. t \in Seq(Words) /\ Len(t) = 2 /\ t[1] = "approved" /\ t[2] = "started"
      BY <1>0
    <3>3. Len(<<"approved">>) = 1 /\ <<"approved">>[1] = "approved"
      OBVIOUS
    <3> HIDE DEF s, t
    <3>4. Len(s) = 2 /\ s[1] = "approved" /\ s[2] = "started"
      BY <3>1, <3>3
    <3>5. Len(s) = Len(t) /\ \A i \in 1..Len(t) : s[i] = t[i]
      BY <3>2, <3>4
    <3>6. s = t
      BY <3>1, <3>2, <3>5, SeqEqual
    <3> QED
      BY <3>6 DEF s, t
  <2>2. events \o Append(<<"approved">>, "started") = Append(events \o <<"approved">>, "started")
    BY <1>0, <2>0, ConcatAppend
  <2>3. events \o <<"approved">> = one
    BY <1>0, EventFacts DEF one
  <2> QED
    BY <2>1, <2>2, <2>3
<1> QED
  BY <1>2, <1>3

(***************************************************************************)
(* Delegation: the stack of contexts.                                       *)
(***************************************************************************)
Frms ==
    [op : {"prompt", "invoke", "approval", "child"}, kind : {"session", "agent", "team"},
     r : Reqs \cup {NoRequest}, run : Seq(DAgents), depth : Nat, lineage : SUBSET Targets,
     at : {"run", "delegate", "done"}, decisions : Seq(Decs), pending : Seq(Confs),
     ok : BOOLEAN]

\* A confirmation that its profile's policy permits.
Permitted(c) ==
    c.depth >= 1 /\ c.depth <= DPolicy[c.r.from].maxDepth /\ c.r.to \in c.lineage

FrameSound(f) ==
    /\ f.at = "run" => f.run # <<>>
    /\ \A a \in DOMAIN f.decisions : f.decisions[a].is # "rejected" =>
          /\ f.depth < DPolicy[f.decisions[a].r.from].maxDepth
          /\ f.decisions[a].r.to \notin f.lineage
    /\ \A a \in DOMAIN f.pending : Permitted(f.pending[a])

\* Every context above the first is a child, within the policy of the profile that
\* asked for it, and below the targets of those under it.
StackSound(s) ==
    /\ \A i \in 1..Len(s) : FrameSound(s[i]) /\ (s[i].op = "child" <=> i > 1)
                            /\ s[i].depth >= i - 1
    /\ \A i \in 2..Len(s) : s[i].r \in Reqs /\ s[i].depth <= DPolicy[s[i].r.from].maxDepth
    /\ \A i, j \in 2..Len(s) : i <= j => s[i].r.to \in s[j].lineage
    /\ \A i, j \in 2..Len(s) : i # j => s[i].r.to # s[j].r.to

\* t is s up to some context, which is f now.
Topped(s, t, f) ==
    /\ t \in Seq(Frms) /\ Len(t) \in 1..Len(s) /\ t[Len(t)] = f
    /\ \A i \in 1..(Len(t) - 1) : t[i] = s[i]

SameContext(f, g) == f.op = g.op /\ f.r = g.r /\ f.depth = g.depth /\ f.lineage = g.lineage

(* The running context changes.                                               *)
LEMMA WithTopFacts ==
    ASSUME dStack \in Seq(Frms), dStack # <<>>, NEW f \in Frms
    PROVE  Topped(dStack, WithTop(f), f) /\ Len(WithTop(f)) = Len(dStack)
<1>1. Len(dStack) \in Nat \ {0}
  BY LenProperties, EmptySeq
<1> DEFINE t == Append(SubSeq(dStack, 1, Len(dStack) - 1), f)
<1>2. /\ t \in Seq(Frms) /\ Len(t) = Len(dStack) /\ t[Len(dStack)] = f
      /\ \A i \in 1..(Len(dStack) - 1) : t[i] = dStack[i]
  BY RetopFacts
<1>3. WithTop(f) = t
  BY DEF WithTop, Below
<1> HIDE DEF t
<1> QED
  BY <1>1, <1>2, <1>3 DEF Topped

(* A context returns to the one below it.                                      *)
LEMMA ReplaceParentFacts ==
    ASSUME dStack \in Seq(Frms), Len(dStack) > 1, NEW f \in Frms
    PROVE  Topped(dStack, ReplaceParent(f), f) /\ Len(ReplaceParent(f)) = Len(dStack) - 1
<1> DEFINE n == Len(dStack)
           b == SubSeq(dStack, 1, n - 2)
           t == Append(b, f)
<1>1. n \in Nat /\ n - 2 \in Nat /\ n - 1 \in 1..n
  BY LenProperties
<1>2. b \in Seq(Frms) /\ Len(b) = n - 2 /\ \A i \in 1..(n - 2) : b[i] = dStack[i]
  <2>1. \A i \in 1..(n - 2) : dStack[i] \in Frms
    BY <1>1, ElementOfSeq
  <2>2. /\ b \in Seq(Frms) /\ Len(b) = IF 1 <= n - 2 THEN (n - 2) - 1 + 1 ELSE 0
        /\ \A i \in 1..((n - 2) - 1 + 1) : b[i] = dStack[1 + i - 1]
    BY <1>1, <2>1, SubSeqProperties
  <2> HIDE DEF b, n
  <2>3. (n - 2) - 1 + 1 = n - 2 /\ \A i \in 1..(n - 2) : 1 + i - 1 = i
    BY <1>1
  <2>4. (IF 1 <= n - 2 THEN (n - 2) - 1 + 1 ELSE 0) = n - 2
    BY <1>1
  <2> QED
    BY <2>2, <2>3, <2>4
<1> HIDE DEF b, n
<1>3. /\ t \in Seq(Frms) /\ Len(t) = (n - 2) + 1 /\ t[(n - 2) + 1] = f
      /\ \A i \in 1..(n - 2) : t[i] = b[i]
  BY <1>2, AppendProperties
<1>4. (n - 2) + 1 = n - 1 /\ (n - 1) - 1 = n - 2
  BY <1>1
<1> HIDE DEF t
<1>5. Topped(dStack, t, f) /\ Len(t) = n - 1
  BY <1>1, <1>2, <1>3, <1>4 DEF Topped, n
<1> QED
  BY <1>5 DEF ReplaceParent, t, b, n

(* A context that stays what it is keeps the stack sound.                       *)
LEMMA ToppedSound ==
    ASSUME NEW s \in Seq(Frms), StackSound(s), NEW t, NEW f, Topped(s, t, f),
           SameContext(f, s[Len(t)]), FrameSound(f)
    PROVE  StackSound(t)
<1> DEFINE k == Len(t)
<1>1. k \in 1..Len(s) /\ t[k] = f /\ Len(s) \in Nat /\ \A i \in 1..(k - 1) : t[i] = s[i]
  BY LenProperties DEF Topped
<1>2. SameContext(f, s[k])
  OBVIOUS
<1> HIDE DEF k
<1>3. \A i \in 1..k : i \in 1..Len(s) /\ (i \in 1..(k - 1) \/ i = k)
  BY <1>1
<1>4. \A i \in 1..k : SameContext(t[i], s[i]) /\ FrameSound(t[i])
  BY <1>1, <1>2, <1>3 DEF SameContext, StackSound
<1> HIDE DEF FrameSound
<1>5. \A i \in 2..k : i \in 1..k /\ i \in 2..Len(s)
  BY <1>1
<1>6. \A i \in 1..k : (t[i].op = "child" <=> i > 1) /\ t[i].depth >= i - 1
  BY <1>3, <1>4 DEF SameContext, StackSound
<1>7. \A i \in 2..k : t[i].r \in Reqs /\ t[i].depth <= DPolicy[t[i].r.from].maxDepth
  BY <1>4, <1>5 DEF SameContext, StackSound
<1>8. \A i, j \in 2..k : i <= j => t[i].r.to \in t[j].lineage
  BY <1>4, <1>5 DEF SameContext, StackSound
<1>9. \A i, j \in 2..k : i # j => t[i].r.to # t[j].r.to
  <2>1. \A i \in 2..k : t[i].r = s[i].r
    BY <1>4, <1>5 DEF SameContext
  <2>2. \A i, j \in 2..Len(s) : i # j => s[i].r.to # s[j].r.to
    BY DEF StackSound
  <2> QED
    BY <1>5, <2>1, <2>2
<1> QED
  BY <1>4, <1>6, <1>7, <1>8, <1>9 DEF StackSound, k

(* The context that runs a request.                                            *)
LEMMA ChildFacts ==
    ASSUME NEW r \in Reqs, NEW depth \in Nat, NEW lineage \in SUBSET Targets
    PROVE  LET f == ChildFrame(r, depth, lineage)
           IN /\ f \in Frms /\ FrameSound(f) /\ f.op = "child" /\ f.r = r /\ f.depth = depth
              /\ f.lineage = lineage /\ f.decisions = <<>> /\ f.pending = <<>>
<1>1. PICK target \in Targets : target = r.to
  BY DEF Reqs
<1>2. Runs(target) \in Seq(DAgents) /\ Runs(target) # <<>> /\ target[1] \in {"agent", "team"}
  <2>1. CASE \E a \in DAgents : target = <<"agent", a>>
    BY <2>1 DEF Runs
  <2>2. CASE \E x \in DTeams : target = <<"team", x>>
    <3>1. PICK x \in DTeams : target = <<"team", x>>
      BY <2>2
    <3>2. DMembers[x] \in Seq(DAgents) \ {<<>>}
      BY DelegationAssumption
    <3>3. Runs(target) = DMembers[x] /\ target[1] = "team"
      BY <3>1 DEF Runs, PlanSubtasks
    <3> QED
      BY <3>2, <3>3
  <2> QED
    BY <2>1, <2>2 DEF Targets
<1> DEFINE f == ChildFrame(r, depth, lineage)
<1>3. f = [op |-> "child", kind |-> target[1], r |-> r, run |-> Runs(target), depth |-> depth,
           lineage |-> lineage, at |-> "run", decisions |-> <<>>, pending |-> <<>>, ok |-> TRUE]
  BY <1>1 DEF ChildFrame, Frame
<1>4. <<>> \in Seq(Decs) /\ <<>> \in Seq(Confs) /\ DOMAIN <<>> = {}
  OBVIOUS
<1> HIDE DEF f
<1>5. f \in Frms
  BY <1>2, <1>3, <1>4 DEF Frms
<1>6. FrameSound(f)
  BY <1>2, <1>3, <1>4 DEF FrameSound
<1> QED
  BY <1>3, <1>5, <1>6 DEF f

(* A child on the stack.                                                       *)
LEMMA PushedSound ==
    ASSUME NEW s \in Seq(Frms), StackSound(s), s # <<>>,
           NEW r \in Reqs, NEW depth \in Nat, NEW lineage \in SUBSET Targets,
           depth >= Len(s), depth <= DPolicy[r.from].maxDepth,
           s[Len(s)].lineage \subseteq lineage, r.to \in lineage,
           r.to \notin s[Len(s)].lineage
    PROVE  LET t == Append(s, ChildFrame(r, depth, lineage))
           IN StackSound(t) /\ t \in Seq(Frms)
<1> DEFINE f == ChildFrame(r, depth, lineage)
           t == Append(s, f)
           n == Len(s)
<1>1. /\ f \in Frms /\ FrameSound(f) /\ f.op = "child" /\ f.r = r /\ f.depth = depth
      /\ f.lineage = lineage
  BY ChildFacts
<1> HIDE DEF f
<1>2. /\ t \in Seq(Frms) /\ Len(t) = n + 1 /\ t[n + 1] = f /\ n \in Nat \ {0}
      /\ \A i \in 1..n : t[i] = s[i]
  BY <1>1, AppendProperties, LenProperties, EmptySeq
<1>0. /\ depth >= n /\ s[n].lineage \subseteq lineage /\ r.to \notin s[n].lineage
  OBVIOUS
<1> HIDE DEF t, n, FrameSound
<1>3. \A i \in 1..(n + 1) : i \in 1..n \/ i = n + 1
  BY <1>2
<1>4. \A i \in 2..n : r.to # s[i].r.to /\ s[i].r.to \in lineage
  <2> TAKE i \in 2..n
  <2>1. n \in 2..n /\ i <= n /\ i \in 2..Len(s) /\ n \in 2..Len(s)
    BY <1>2 DEF n
  <2>2. s[i].r.to \in s[n].lineage
    BY <2>1 DEF StackSound
  <2> QED
    BY <1>0, <2>2
<1>5. \A i \in 1..(n + 1) : FrameSound(t[i]) /\ (t[i].op = "child" <=> i > 1)
                            /\ t[i].depth >= i - 1
  <2>1. ASSUME NEW i \in 1..n
        PROVE  FrameSound(t[i]) /\ (t[i].op = "child" <=> i > 1) /\ t[i].depth >= i - 1
    BY <1>2 DEF StackSound, n
  <2>2. /\ FrameSound(t[n + 1]) /\ (t[n + 1].op = "child" <=> n + 1 > 1)
        /\ t[n + 1].depth >= (n + 1) - 1
    BY <1>0, <1>1, <1>2
  <2> QED
    BY <1>3, <2>1, <2>2
<1>6. \A i \in 2..(n + 1) : i \in 2..n \/ i = n + 1
  BY <1>2
<1>7. \A i \in 2..n : t[i] = s[i] /\ i \in 2..Len(s) /\ i # n + 1 /\ ~(n + 1 <= i)
  BY <1>2 DEF n
<1>8. \A i \in 2..(n + 1) : t[i].r \in Reqs /\ t[i].depth <= DPolicy[t[i].r.from].maxDepth
  BY <1>1, <1>2, <1>6, <1>7 DEF StackSound
<1>9. \A i, j \in 2..(n + 1) : i <= j => t[i].r.to \in t[j].lineage
  BY <1>1, <1>2, <1>4, <1>6, <1>7 DEF StackSound
<1>10. \A i, j \in 2..(n + 1) : i # j => t[i].r.to # t[j].r.to
  <2> SUFFICES ASSUME NEW i \in 2..(n + 1), NEW j \in 2..(n + 1), i # j
               PROVE  t[i].r.to # t[j].r.to
    OBVIOUS
  <2>1. \A x, y \in 2..Len(s) : x # y => s[x].r.to # s[y].r.to
    BY DEF StackSound
  <2>2. CASE i \in 2..n /\ j \in 2..n
    BY <1>7, <2>1, <2>2
  <2>3. CASE i = n + 1 /\ j \in 2..n
    BY <1>1, <1>2, <1>4, <1>7, <2>3
  <2>4. CASE i \in 2..n /\ j = n + 1
    BY <1>1, <1>2, <1>4, <1>7, <2>4
  <2> QED
    BY <1>6, <2>2, <2>3, <2>4
<1> QED
  BY <1>2, <1>5, <1>8, <1>9, <1>10 DEF StackSound, t, f

(***************************************************************************)
(* Delegation: requests that wait in one place only.                        *)
(***************************************************************************)
NumbersApart(cs) == \A a, b \in DOMAIN cs : cs[a].r.n = cs[b].r.n => a = b

DecisionsApart(s) ==
    \A i, j \in 1..Len(s) : \A a \in DOMAIN s[i].decisions, b \in DOMAIN s[j].decisions :
        s[i].decisions[a].r.n = s[j].decisions[b].r.n => i = j /\ a = b

(* What the context on top holds comes from those that are on top of it, or is   *)
(* new.                                                                         *)
LEMMA DecisionsStayApart ==
    ASSUME NEW s \in Seq(Frms), DecisionsApart(s), NEW t, NEW f, Topped(s, t, f),
           NumbersApart(f.decisions),
           \A a \in DOMAIN f.decisions :
              \/ \E i \in Len(t)..Len(s) : \E b \in DOMAIN s[i].decisions : f.decisions[a] = s[i].decisions[b]
              \/ \A i \in 1..Len(s) : \A b \in DOMAIN s[i].decisions : f.decisions[a].r.n # s[i].decisions[b].r.n
    PROVE  DecisionsApart(t)
<1> DEFINE k == Len(t)
<1>1. k \in 1..Len(s) /\ t[k] = f /\ Len(s) \in Nat /\ \A i \in 1..(k - 1) : t[i] = s[i]
  BY LenProperties DEF Topped
<1>2. \A a \in DOMAIN f.decisions :
         \/ \E i \in k..Len(s) : \E b \in DOMAIN s[i].decisions : f.decisions[a] = s[i].decisions[b]
         \/ \A i \in 1..Len(s) : \A b \in DOMAIN s[i].decisions : f.decisions[a].r.n # s[i].decisions[b].r.n
  OBVIOUS
<1> HIDE DEF k
<1>3. \A i \in 1..k : i \in 1..(k - 1) \/ i = k
  BY <1>1
<1>4. ASSUME NEW i \in 1..(k - 1), NEW a \in DOMAIN s[i].decisions, NEW b \in DOMAIN f.decisions
      PROVE  s[i].decisions[a].r.n # f.decisions[b].r.n
  <2>1. i \in 1..Len(s)
    BY <1>1
  <2>2. CASE \E j \in k..Len(s) : \E c \in DOMAIN s[j].decisions : f.decisions[b] = s[j].decisions[c]
    <3>1. PICK j \in k..Len(s) : \E c \in DOMAIN s[j].decisions : f.decisions[b] = s[j].decisions[c]
      BY <2>2
    <3>2. PICK c \in DOMAIN s[j].decisions : f.decisions[b] = s[j].decisions[c]
      BY <3>1
    <3>3. j \in 1..Len(s) /\ i # j
      BY <1>1
    <3> QED
      BY <2>1, <3>2, <3>3 DEF DecisionsApart
  <2> QED
    BY <1>2, <2>1, <2>2
<1>5. ASSUME NEW i \in 1..k, NEW j \in 1..k, NEW a \in DOMAIN t[i].decisions, NEW b \in DOMAIN t[j].decisions,
             t[i].decisions[a].r.n = t[j].decisions[b].r.n
      PROVE  i = j /\ a = b
  <2>1. CASE i \in 1..(k - 1) /\ j \in 1..(k - 1)
    <3>1. i \in 1..Len(s) /\ j \in 1..Len(s) /\ t[i] = s[i] /\ t[j] = s[j]
      BY <1>1, <2>1
    <3> QED
      BY <1>5, <3>1 DEF DecisionsApart
  <2>2. CASE i = k /\ j = k
    BY <1>1, <1>5, <2>2 DEF NumbersApart
  <2>3. CASE i \in 1..(k - 1) /\ j = k
    BY <1>1, <1>4, <1>5, <2>3
  <2>4. CASE i = k /\ j \in 1..(k - 1)
    BY <1>1, <1>4, <1>5, <2>4
  <2> QED
    BY <1>3, <2>1, <2>2, <2>3, <2>4
<1> QED
  BY <1>5 DEF DecisionsApart, k

(* A new context holds nothing.                                                 *)
LEMMA DecisionsPushed ==
    ASSUME NEW s \in Seq(Frms), DecisionsApart(s), NEW f \in Frms, f.decisions = <<>>
    PROVE  DecisionsApart(Append(s, f))
<1> DEFINE t == Append(s, f)
<1>1. /\ Len(t) = Len(s) + 1 /\ t[Len(s) + 1] = f /\ Len(s) \in Nat
      /\ \A i \in 1..Len(s) : t[i] = s[i]
  BY AppendProperties, LenProperties
<1>2. DOMAIN f.decisions = {}
  OBVIOUS
<1> HIDE DEF t
<1>3. \A i \in 1..Len(t) : i \in 1..Len(s) \/ i = Len(s) + 1
  BY <1>1
<1>4. DecisionsApart(t)
  BY <1>1, <1>2, <1>3 DEF DecisionsApart
<1> QED
  BY <1>4 DEF t

PendingApart(s) ==
    \A i, j \in 1..Len(s) : \A a \in DOMAIN s[i].pending, b \in DOMAIN s[j].pending :
        s[i].pending[a].r.n = s[j].pending[b].r.n => i = j /\ a = b

(* What the context on top holds comes from those that are on top of it, or is   *)
(* new.                                                                         *)
LEMMA PendingStayApart ==
    ASSUME NEW s \in Seq(Frms), PendingApart(s), NEW t, NEW f, Topped(s, t, f),
           NumbersApart(f.pending),
           \A a \in DOMAIN f.pending :
              \/ \E i \in Len(t)..Len(s) : \E b \in DOMAIN s[i].pending : f.pending[a] = s[i].pending[b]
              \/ \A i \in 1..Len(s) : \A b \in DOMAIN s[i].pending : f.pending[a].r.n # s[i].pending[b].r.n
    PROVE  PendingApart(t)
<1> DEFINE k == Len(t)
<1>1. k \in 1..Len(s) /\ t[k] = f /\ Len(s) \in Nat /\ \A i \in 1..(k - 1) : t[i] = s[i]
  BY LenProperties DEF Topped
<1>2. \A a \in DOMAIN f.pending :
         \/ \E i \in k..Len(s) : \E b \in DOMAIN s[i].pending : f.pending[a] = s[i].pending[b]
         \/ \A i \in 1..Len(s) : \A b \in DOMAIN s[i].pending : f.pending[a].r.n # s[i].pending[b].r.n
  OBVIOUS
<1> HIDE DEF k
<1>3. \A i \in 1..k : i \in 1..(k - 1) \/ i = k
  BY <1>1
<1>4. ASSUME NEW i \in 1..(k - 1), NEW a \in DOMAIN s[i].pending, NEW b \in DOMAIN f.pending
      PROVE  s[i].pending[a].r.n # f.pending[b].r.n
  <2>1. i \in 1..Len(s)
    BY <1>1
  <2>2. CASE \E j \in k..Len(s) : \E c \in DOMAIN s[j].pending : f.pending[b] = s[j].pending[c]
    <3>1. PICK j \in k..Len(s) : \E c \in DOMAIN s[j].pending : f.pending[b] = s[j].pending[c]
      BY <2>2
    <3>2. PICK c \in DOMAIN s[j].pending : f.pending[b] = s[j].pending[c]
      BY <3>1
    <3>3. j \in 1..Len(s) /\ i # j
      BY <1>1
    <3> QED
      BY <2>1, <3>2, <3>3 DEF PendingApart
  <2> QED
    BY <1>2, <2>1, <2>2
<1>5. ASSUME NEW i \in 1..k, NEW j \in 1..k, NEW a \in DOMAIN t[i].pending, NEW b \in DOMAIN t[j].pending,
             t[i].pending[a].r.n = t[j].pending[b].r.n
      PROVE  i = j /\ a = b
  <2>1. CASE i \in 1..(k - 1) /\ j \in 1..(k - 1)
    <3>1. i \in 1..Len(s) /\ j \in 1..Len(s) /\ t[i] = s[i] /\ t[j] = s[j]
      BY <1>1, <2>1
    <3> QED
      BY <1>5, <3>1 DEF PendingApart
  <2>2. CASE i = k /\ j = k
    BY <1>1, <1>5, <2>2 DEF NumbersApart
  <2>3. CASE i \in 1..(k - 1) /\ j = k
    BY <1>1, <1>4, <1>5, <2>3
  <2>4. CASE i = k /\ j \in 1..(k - 1)
    BY <1>1, <1>4, <1>5, <2>4
  <2> QED
    BY <1>3, <2>1, <2>2, <2>3, <2>4
<1> QED
  BY <1>5 DEF PendingApart, k

(* A new context holds nothing.                                                 *)
LEMMA PendingPushed ==
    ASSUME NEW s \in Seq(Frms), PendingApart(s), NEW f \in Frms, f.pending = <<>>
    PROVE  PendingApart(Append(s, f))
<1> DEFINE t == Append(s, f)
<1>1. /\ Len(t) = Len(s) + 1 /\ t[Len(s) + 1] = f /\ Len(s) \in Nat
      /\ \A i \in 1..Len(s) : t[i] = s[i]
  BY AppendProperties, LenProperties
<1>2. DOMAIN f.pending = {}
  OBVIOUS
<1> HIDE DEF t
<1>3. \A i \in 1..Len(t) : i \in 1..Len(s) \/ i = Len(s) + 1
  BY <1>1
<1>4. PendingApart(t)
  BY <1>1, <1>2, <1>3 DEF PendingApart
<1> QED
  BY <1>4 DEF t

(***************************************************************************)
(* Delegation: the inductive invariant.                                     *)
(***************************************************************************)
DelegationType ==
    /\ dStack \in Seq(Frms) /\ dQueue \in Seq(Confs) /\ dLog \in Seq(Recs)
    /\ dTrace \in [1..DMaxRequests -> Seq(Words)]
    /\ dNow \in Nat /\ dOps \in Nat /\ dFaults \in Nat /\ dPartial \in BOOLEAN

\* The log asks for a request once; the queue holds what was asked for, under keys of
\* its own, and is what the log restores unless a write was reported as failed.
LogKept ==
    /\ \A i \in 1..Len(dLog) : Permitted(dLog[i].c)
    /\ \A i, j \in 1..Len(dLog) :
          dLog[i].is = "requested" /\ dLog[j].is = "requested" /\ dLog[i].c.r.n = dLog[j].c.r.n
             => i = j
    /\ KeysApart(dQueue)
    /\ \A i \in 1..Len(dQueue) : \E j \in 1..Len(dLog) : dLog[j] = Record("requested", dQueue[i])
    /\ ~dPartial => dQueue = PendingAfter(dLog)
    /\ dPartial => dFaults > 0

Numbered == \E k \in 0..DMaxRequests : Asked = 1..k
Acted == \A n \in 1..DMaxRequests : ActedOnce(dTrace[n])

\* Where the requests of contexts are: only asked for, waiting, or under way.
DecisionsAsked(s, trace) ==
    \A i \in 1..Len(s) : \A a \in DOMAIN s[i].decisions : trace[s[i].decisions[a].r.n] = <<"asked">>
PendingRequired(s, trace) ==
    \A i \in 1..Len(s) : \A a \in DOMAIN s[i].pending :
        Unsettled(trace[s[i].pending[a].r.n]) /\ Required(trace[s[i].pending[a].r.n])
ChildrenUnderWay(s, trace) == \A i \in 2..Len(s) : UnderWay(trace[s[i].r.n])
ChildrenApart(s) == \A i, j \in 2..Len(s) : s[i].r.n = s[j].r.n => i = j
NotLogged(s, log) ==
    \A i \in 1..Len(s) : \A l \in 1..Len(log) :
        /\ \A a \in DOMAIN s[i].decisions : s[i].decisions[a].r.n # log[l].c.r.n
        /\ \A a \in DOMAIN s[i].pending : s[i].pending[a].r.n # log[l].c.r.n
Held(s, trace, log) ==
    /\ StackSound(s) /\ DecisionsApart(s) /\ PendingApart(s) /\ NotLogged(s, log)
    /\ DecisionsAsked(s, trace) /\ PendingRequired(s, trace) /\ ChildrenUnderWay(s, trace)
    /\ ChildrenApart(s)

\* What the queue holds is not settled, and what is settled is answered in the log.
QueueUnsettled == \A i \in 1..Len(dQueue) : Unsettled(dTrace[dQueue[i].r.n])
LogSettled ==
    \A i \in 1..Len(dLog) : dLog[i].is = "requested" /\ ~Unsettled(dTrace[dLog[i].c.r.n]) =>
        \E j \in (i + 1)..Len(dLog) : dLog[j].is # "requested" /\ Key(dLog[j].c) = Key(dLog[i].c)
LogAsked == \A i \in 1..Len(dLog) : dTrace[dLog[i].c.r.n] # <<>>

\* Without a fault, what was required last waits in the queue or in a context.
InPending(n, s) == \E i \in 1..Len(s) : \E a \in DOMAIN s[i].pending : s[i].pending[a].r.n = n
InQueue(n, queue) == \E i \in 1..Len(queue) : queue[i].r.n = n
WaitingKept ==
    dFaults = 0 => \A n \in 1..DMaxRequests :
        Required(dTrace[n]) <=> InQueue(n, dQueue) \/ InPending(n, dStack)

DelegationInv ==
    /\ DelegationType /\ LogKept /\ Numbered /\ Acted /\ Held(dStack, dTrace, dLog)
    /\ QueueUnsettled /\ LogSettled /\ LogAsked /\ WaitingKept

(* Requests keep their numbers.                                                *)
LEMMA NumberedStays ==
    ASSUME Numbered, \A n \in 1..DMaxRequests : (dTrace[n] # <<>>) <=> (dTrace'[n] # <<>>)
    PROVE  Numbered'
<1>1. Asked' = Asked
  BY DEF Asked
<1> QED
  BY <1>1 DEF Numbered

(* What is logged stays answered, as records are added and events happen.       *)
LEMMA LogGrows ==
    ASSUME LogSettled, LogAsked, Len(dLog) \in Nat, Len(dLog') \in Nat, Len(dLog) <= Len(dLog'),
           \A i \in 1..Len(dLog) : dLog'[i] = dLog[i],
           \A i \in 1..Len(dLog) : dTrace'[dLog[i].c.r.n] # <<>>,
           \A i \in 1..Len(dLog) :
              \/ Unsettled(dTrace[dLog[i].c.r.n]) => Unsettled(dTrace'[dLog[i].c.r.n])
              \/ \E j \in (Len(dLog) + 1)..Len(dLog') :
                    dLog'[j].is # "requested" /\ Key(dLog'[j].c) = Key(dLog[i].c)
              \/ dLog[i].is # "requested",
           \A i \in (Len(dLog) + 1)..Len(dLog') :
              /\ dTrace'[dLog'[i].c.r.n] # <<>>
              /\ dLog'[i].is = "requested" => Unsettled(dTrace'[dLog'[i].c.r.n])
    PROVE  LogSettled' /\ LogAsked'
<1>1. \A i \in 1..Len(dLog') : i \in 1..Len(dLog) \/ i \in (Len(dLog) + 1)..Len(dLog')
  OBVIOUS
<1>2. LogAsked'
  BY <1>1 DEF LogAsked
<1>3. ASSUME NEW i \in 1..Len(dLog'), dLog'[i].is = "requested", ~Unsettled(dTrace'[dLog'[i].c.r.n])
      PROVE  \E j \in (i + 1)..Len(dLog') :
                dLog'[j].is # "requested" /\ Key(dLog'[j].c) = Key(dLog'[i].c)
  <2>1. i \in 1..Len(dLog)
    BY <1>1, <1>3
  <2>2. \A j \in (Len(dLog) + 1)..Len(dLog') : j \in (i + 1)..Len(dLog')
    BY <2>1
  <2>3. \A j \in (i + 1)..Len(dLog) : j \in (i + 1)..Len(dLog') /\ dLog'[j] = dLog[j]
    BY <2>1
  <2>4. dLog'[i] = dLog[i]
    BY <2>1
  <2>5. CASE \E j \in (Len(dLog) + 1)..Len(dLog') :
               dLog'[j].is # "requested" /\ Key(dLog'[j].c) = Key(dLog[i].c)
    BY <2>2, <2>4, <2>5
  <2>6. CASE Unsettled(dTrace[dLog[i].c.r.n]) => Unsettled(dTrace'[dLog[i].c.r.n])
    <3>1. \E j \in (i + 1)..Len(dLog) :
             dLog[j].is # "requested" /\ Key(dLog[j].c) = Key(dLog[i].c)
      BY <1>3, <2>1, <2>4, <2>6 DEF LogSettled
    <3> QED
      BY <2>3, <2>4, <3>1
  <2> QED
    BY <1>3, <2>1, <2>4, <2>5, <2>6
<1> QED
  BY <1>2, <1>3 DEF LogSettled

(* What the members of the invariant say of the top context.                    *)
LEMMA TopFacts ==
    ASSUME DelegationType, dStack # <<>>
    PROVE  /\ Len(dStack) \in Nat \ {0} /\ Top = dStack[Len(dStack)] /\ Top \in Frms
           /\ Len(dStack) \in 1..Len(dStack) /\ \A i \in 1..Len(dStack) : dStack[i] \in Frms
<1>1. Len(dStack) \in Nat \ {0} /\ Len(dStack) \in 1..Len(dStack)
  BY LenProperties, EmptySeq DEF DelegationType
<1> QED
  BY <1>1, ElementOfSeq DEF DelegationType, Top, Last

(* The queue and the log are left alone, and the requests stay numbered.          *)
LEMMA QueueKept ==
    ASSUME DelegationInv, DelegationType', UNCHANGED <<dQueue, dLog, dPartial>>,
           dFaults' = dFaults \/ dFaults' = dFaults + 1, Held(dStack', dTrace', dLog), Acted',
           \A n \in 1..DMaxRequests : dTrace[n] # <<>> => dTrace'[n] # <<>>, Numbered',
           \A n \in 1..DMaxRequests :
              \/ Unsettled(dTrace[n]) => Unsettled(dTrace'[n])
              \/ \A l \in 1..Len(dLog) : dLog[l].c.r.n # n,
           dFaults' = 0 => \A n \in 1..DMaxRequests :
              Required(dTrace'[n]) <=> InQueue(n, dQueue) \/ InPending(n, dStack')
    PROVE  DelegationInv'
<1>1. DelegationType /\ LogKept /\ Numbered /\ LogSettled /\ LogAsked /\ QueueUnsettled
  BY DEF DelegationInv
<1>2. \A i \in 1..Len(dLog) : dLog[i].c.r.n \in 1..DMaxRequests
  <2>1. \A i \in 1..Len(dLog) : dLog[i] \in Recs
    BY <1>1, ElementOfSeq DEF DelegationType
  <2> QED
    BY <2>1 DEF Recs, Confs, Reqs
<1>3. LogKept'
  <2>1. dPartial' => dFaults' > 0
    BY <1>1 DEF LogKept, DelegationType
  <2> QED
    BY <1>1, <2>1 DEF LogKept
<1>4. Numbered'
  OBVIOUS
<1>5. Len(dLog) \in Nat /\ Len(dLog') = Len(dLog)
  BY <1>1, LenProperties DEF DelegationType
<1>6. LogSettled' /\ LogAsked'
  <2>1. \A i \in 1..Len(dLog) : dTrace'[dLog[i].c.r.n] # <<>>
    BY <1>1, <1>2 DEF LogAsked
  <2>2. \A i \in 1..Len(dLog) :
           Unsettled(dTrace[dLog[i].c.r.n]) => Unsettled(dTrace'[dLog[i].c.r.n])
    BY <1>2
  <2>3. (Len(dLog) + 1)..Len(dLog') = {} /\ Len(dLog) <= Len(dLog')
    BY <1>5
  <2>4. \A i \in 1..Len(dLog) : dLog'[i] = dLog[i]
    OBVIOUS
  <2> QED
    BY <1>1, <1>5, <2>1, <2>2, <2>3, <2>4, LogGrows
<1>7. QueueUnsettled'
  <2> SUFFICES ASSUME NEW i \in 1..Len(dQueue) PROVE Unsettled(dTrace'[dQueue[i].r.n])
    BY DEF QueueUnsettled
  <2>1. PICK j \in 1..Len(dLog) : dLog[j] = Record("requested", dQueue[i])
    BY <1>1 DEF LogKept
  <2>2. dLog[j].c = dQueue[i]
    BY <2>1 DEF Record
  <2>3. dQueue[i].r.n \in 1..DMaxRequests /\ Unsettled(dTrace[dQueue[i].r.n])
    BY <1>1, <1>2, <2>2 DEF QueueUnsettled
  <2> QED
    BY <2>2, <2>3
<1>8. Held(dStack, dTrace, dLog)'
  OBVIOUS
<1>9. WaitingKept'
  BY DEF WaitingKept
<1> QED
  BY <1>3, <1>4, <1>6, <1>7, <1>8, <1>9 DEF DelegationInv

(* The queue and the log are left alone.                                       *)
LEMMA QueueStays ==
    ASSUME DelegationInv, DelegationType', UNCHANGED <<dQueue, dLog, dPartial>>,
           dFaults' = dFaults \/ dFaults' = dFaults + 1, Held(dStack', dTrace', dLog), Acted',
           \A n \in 1..DMaxRequests : (dTrace[n] # <<>>) <=> (dTrace'[n] # <<>>),
           \A n \in 1..DMaxRequests :
              \/ Unsettled(dTrace[n]) => Unsettled(dTrace'[n])
              \/ \A l \in 1..Len(dLog) : dLog[l].c.r.n # n,
           dFaults' = 0 => \A n \in 1..DMaxRequests :
              Required(dTrace'[n]) <=> InQueue(n, dQueue) \/ InPending(n, dStack')
    PROVE  DelegationInv'
<1>1. Numbered'
  BY NumberedStays DEF DelegationInv
<1> QED
  BY <1>1, QueueKept

\* Outside N the events and the log are what they were.
Beyond(N, trace, after, log, more) ==
    /\ \A n \in (1..DMaxRequests) \ N : after[n] = trace[n]
    /\ Len(log) \in Nat /\ Len(more) \in Nat /\ Len(log) <= Len(more)
    /\ \A l \in 1..Len(log) : more[l] = log[l]
    /\ \A l \in (Len(log) + 1)..Len(more) : more[l].c.r.n \in N

\* What f holds was held by a context from the k-th on, and is none of N.
HeldAbove(f, s, k, N) ==
    /\ NumbersApart(f.decisions) /\ NumbersApart(f.pending)
    /\ \A a \in DOMAIN f.decisions : f.decisions[a].r.n \notin N
          /\ \E i \in k..Len(s) : \E b \in DOMAIN s[i].decisions : f.decisions[a] = s[i].decisions[b]
    /\ \A a \in DOMAIN f.pending : f.pending[a].r.n \notin N
          /\ \E i \in k..Len(s) : \E b \in DOMAIN s[i].pending : f.pending[a] = s[i].pending[b]

\* The contexts below the k-th hold none of N, and those up to it stay under way.
HeldBelow(s, k, N, after) ==
    /\ \A i \in 1..(k - 1) : /\ \A a \in DOMAIN s[i].decisions : s[i].decisions[a].r.n \notin N
                             /\ \A a \in DOMAIN s[i].pending : s[i].pending[a].r.n \notin N
    /\ \A i \in 2..k : s[i].r.n \notin N \/ UnderWay(after[s[i].r.n])

(* The numbers that contexts hold.                                             *)
LEMMA NumbersHeld ==
    ASSUME NEW s \in Seq(Frms), NEW i \in 1..Len(s)
    PROVE  /\ \A a \in DOMAIN s[i].decisions : s[i].decisions[a].r \in Reqs
              /\ s[i].decisions[a].r.n \in 1..DMaxRequests
           /\ \A a \in DOMAIN s[i].pending : s[i].pending[a].r \in Reqs
              /\ s[i].pending[a].r.n \in 1..DMaxRequests
           /\ s[i].r \in Reqs => s[i].r.n \in 1..DMaxRequests
<1>1. s[i] \in Frms
  BY ElementOfSeq
<1>2. s[i].decisions \in Seq(Decs) /\ s[i].pending \in Seq(Confs)
  BY <1>1 DEF Frms
<1>3. \A a \in DOMAIN s[i].decisions : s[i].decisions[a] \in Decs
  BY <1>2, ElementOfSeq, LenProperties
<1>4. \A a \in DOMAIN s[i].pending : s[i].pending[a] \in Confs
  BY <1>2, ElementOfSeq, LenProperties
<1> QED
  BY <1>3, <1>4 DEF Decs, Confs, Reqs

(* The contexts keep what they hold when the running one is replaced.            *)
LEMMA HeldStays ==
    ASSUME NEW s \in Seq(Frms), NEW trace, NEW log, Held(s, trace, log),
           NEW t, NEW f, Topped(s, t, f), SameContext(f, s[Len(t)]), FrameSound(f),
           NEW N, NEW after, NEW more, Beyond(N, trace, after, log, more),
           HeldAbove(f, s, Len(t), N), HeldBelow(s, Len(t), N, after)
    PROVE  Held(t, after, more)
<1> DEFINE k == Len(t)
<1>1. /\ k \in 1..Len(s) /\ t[k] = f /\ Len(s) \in Nat /\ \A i \in 1..(k - 1) : t[i] = s[i]
      /\ \A i \in 1..(k - 1) : i \in 1..Len(s)
  <2>1. Len(s) \in Nat
    BY LenProperties
  <2> QED
    BY <2>1 DEF Topped
<1>2. /\ StackSound(s) /\ DecisionsApart(s) /\ PendingApart(s) /\ NotLogged(s, log)
      /\ DecisionsAsked(s, trace) /\ PendingRequired(s, trace) /\ ChildrenUnderWay(s, trace)
      /\ ChildrenApart(s)
  BY DEF Held
<1>3. StackSound(t)
  BY <1>2, ToppedSound
<1>4. DecisionsApart(t)
  BY <1>2, DecisionsStayApart DEF HeldAbove
<1>5. PendingApart(t)
  BY <1>2, PendingStayApart DEF HeldAbove
<1>6. \A i \in k..Len(s) : i \in 1..Len(s)
  BY <1>1
<1> HIDE DEF k
<1>7. ASSUME NEW i \in 1..k, NEW a \in DOMAIN t[i].decisions
      PROVE  /\ t[i].decisions[a].r.n \in (1..DMaxRequests) \ N
             /\ trace[t[i].decisions[a].r.n] = <<"asked">>
             /\ \A l \in 1..Len(log) : t[i].decisions[a].r.n # log[l].c.r.n
  <2>1. PICK j \in 1..Len(s) : \E b \in DOMAIN s[j].decisions :
              t[i].decisions[a] = s[j].decisions[b] /\ s[j].decisions[b].r.n \notin N
    <3>1. CASE i = k
      BY <1>1, <1>6, <3>1 DEF HeldAbove, k
    <3>2. CASE i \in 1..(k - 1)
      BY <1>1, <3>2 DEF HeldBelow, k
    <3> QED
      BY <1>1, <3>1, <3>2
  <2>2. PICK b \in DOMAIN s[j].decisions :
              t[i].decisions[a] = s[j].decisions[b] /\ s[j].decisions[b].r.n \notin N
    BY <2>1
  <2>3. s[j].decisions[b].r.n \in 1..DMaxRequests
    BY NumbersHeld
  <2> QED
    BY ZenonT(60), <1>2, <2>2, <2>3 DEF DecisionsAsked, NotLogged
<1>8. ASSUME NEW i \in 1..k, NEW a \in DOMAIN t[i].pending
      PROVE  /\ t[i].pending[a].r.n \in (1..DMaxRequests) \ N
             /\ Unsettled(trace[t[i].pending[a].r.n]) /\ Required(trace[t[i].pending[a].r.n])
             /\ \A l \in 1..Len(log) : t[i].pending[a].r.n # log[l].c.r.n
  <2>1. PICK j \in 1..Len(s) : \E b \in DOMAIN s[j].pending :
              t[i].pending[a] = s[j].pending[b] /\ s[j].pending[b].r.n \notin N
    <3>1. CASE i = k
      BY <1>1, <1>6, <3>1 DEF HeldAbove, k
    <3>2. CASE i \in 1..(k - 1)
      BY <1>1, <3>2 DEF HeldBelow, k
    <3> QED
      BY <1>1, <3>1, <3>2
  <2>2. PICK b \in DOMAIN s[j].pending :
              t[i].pending[a] = s[j].pending[b] /\ s[j].pending[b].r.n \notin N
    BY <2>1
  <2>3. s[j].pending[b].r.n \in 1..DMaxRequests
    BY NumbersHeld
  <2> QED
    BY <1>2, <2>2, <2>3 DEF PendingRequired, NotLogged
<1>9. NotLogged(t, more)
  <2> SUFFICES ASSUME NEW i \in 1..k, NEW l \in 1..Len(more)
               PROVE  /\ \A a \in DOMAIN t[i].decisions : t[i].decisions[a].r.n # more[l].c.r.n
                      /\ \A a \in DOMAIN t[i].pending : t[i].pending[a].r.n # more[l].c.r.n
    BY DEF NotLogged, k
  <2>1. l \in 1..Len(log) \/ l \in (Len(log) + 1)..Len(more)
    BY DEF Beyond
  <2>2. CASE l \in 1..Len(log)
    BY <1>7, <1>8, <2>2 DEF Beyond
  <2>3. CASE l \in (Len(log) + 1)..Len(more)
    BY <1>7, <1>8, <2>3 DEF Beyond
  <2> QED
    BY <2>1, <2>2, <2>3
<1>10. DecisionsAsked(t, after)
  BY <1>7 DEF DecisionsAsked, Beyond, k
<1>11. PendingRequired(t, after)
  BY <1>8 DEF PendingRequired, Beyond, k
<1>13. ASSUME NEW i \in 2..k
       PROVE  t[i].r = s[i].r /\ i \in 2..Len(s) /\ i \in 1..Len(s)
  <2>1. CASE i = k
    BY <1>1, <2>1 DEF SameContext, k
  <2>2. CASE i # k
    <3>1. i \in 1..(k - 1) /\ i \in 2..Len(s)
      BY <1>1, <2>2
    <3> QED
      BY <1>1, <3>1
  <2> QED
    BY <2>1, <2>2
<1>14. ChildrenApart(t)
  BY <1>2, <1>13 DEF ChildrenApart, k
<1>12. ChildrenUnderWay(t, after)
  <2> SUFFICES ASSUME NEW i \in 2..k PROVE UnderWay(after[t[i].r.n])
    BY DEF ChildrenUnderWay, k
  <2>1. t[i].r = s[i].r /\ i \in 2..Len(s) /\ i \in 1..Len(s)
    BY <1>13
  <2>2. s[i].r \in Reqs
    BY <1>2, <2>1 DEF StackSound
  <2>3. s[i].r.n \in 1..DMaxRequests /\ UnderWay(trace[s[i].r.n])
    BY <1>2, <2>1, <2>2, NumbersHeld DEF ChildrenUnderWay
  <2>4. s[i].r.n \notin N \/ UnderWay(after[s[i].r.n])
    BY DEF HeldBelow, k
  <2> QED
    BY <2>1, <2>3, <2>4 DEF Beyond
<1> QED
  BY <1>3, <1>4, <1>5, <1>9, <1>10, <1>11, <1>12, <1>14 DEF Held

(* The events of a request grow, those of the others stay.                       *)
LEMMA TracedFacts ==
    ASSUME DelegationType, NEW n \in 1..DMaxRequests, NEW what, Traced(n, what),
           dTrace[n] \o what \in Seq(Words)
    PROVE  /\ dTrace' \in [1..DMaxRequests -> Seq(Words)] /\ dTrace'[n] = dTrace[n] \o what
           /\ \A m \in (1..DMaxRequests) \ {n} : dTrace'[m] = dTrace[m]
  BY DEF DelegationType, Traced

(* The log does not change.                                                     *)
LEMMA BeyondTrace ==
    ASSUME DelegationType, NEW N, UNCHANGED dLog,
           \A m \in (1..DMaxRequests) \ N : dTrace'[m] = dTrace[m]
    PROVE  Beyond(N, dTrace, dTrace', dLog, dLog')
<1>1. Len(dLog) \in Nat
  BY LenProperties DEF DelegationType
<1>2. Len(dLog') = Len(dLog) /\ (Len(dLog) + 1)..Len(dLog) = {} /\ Len(dLog) <= Len(dLog)
  BY <1>1
<1> QED
  BY <1>1, <1>2 DEF Beyond

(* Confirmations wait in the contexts they waited in.                            *)
LEMMA PendingSame ==
    ASSUME NEW s \in Seq(Frms), NEW t, NEW f, Topped(s, t, f), Len(t) = Len(s),
           f.pending = s[Len(s)].pending
    PROVE  \A n : InPending(n, t) <=> InPending(n, s)
<1>1. Len(s) \in Nat /\ t[Len(s)] = f /\ \A i \in 1..(Len(s) - 1) : t[i] = s[i]
  BY LenProperties DEF Topped
<1>2. \A i \in 1..Len(s) : t[i].pending = s[i].pending
  <2> SUFFICES ASSUME NEW i \in 1..Len(s) PROVE t[i].pending = s[i].pending
    OBVIOUS
  <2>1. i = Len(s) \/ i \in 1..(Len(s) - 1)
    BY <1>1
  <2> QED
    BY <1>1, <2>1
<1> QED
  BY <1>2 DEF InPending

(* What waits in the log or in the queue has a number of its own.                *)
LEMMA QueueLogged ==
    ASSUME DelegationInv
    PROVE  /\ Len(dQueue) \in Nat /\ Len(dLog) \in Nat
           /\ \A i \in 1..Len(dQueue) : dQueue[i] \in Confs /\ dQueue[i].r.n \in 1..DMaxRequests
           /\ \A i \in 1..Len(dLog) : dLog[i] \in Recs /\ dLog[i].c.r.n \in 1..DMaxRequests
           /\ \A i \in 1..Len(dQueue) : \E j \in 1..Len(dLog) : dLog[j] = Record("requested", dQueue[i])
                                                             /\ dLog[j].c = dQueue[i]
<1>1. DelegationType /\ LogKept
  BY DEF DelegationInv
<1>2. Len(dQueue) \in Nat /\ Len(dLog) \in Nat
  BY <1>1, LenProperties DEF DelegationType
<1>3. \A i \in 1..Len(dQueue) : dQueue[i] \in Confs
  BY <1>1, ElementOfSeq DEF DelegationType
<1>4. \A i \in 1..Len(dLog) : dLog[i] \in Recs
  BY <1>1, ElementOfSeq DEF DelegationType
<1>5. \A i \in 1..Len(dQueue) : dQueue[i].r.n \in 1..DMaxRequests
  BY <1>3 DEF Confs, Reqs
<1>6. \A i \in 1..Len(dLog) : dLog[i].c.r.n \in 1..DMaxRequests
  BY <1>4 DEF Recs, Confs, Reqs
<1>7. \A i \in 1..Len(dQueue) : \E j \in 1..Len(dLog) : dLog[j] = Record("requested", dQueue[i])
                                                             /\ dLog[j].c = dQueue[i]
  BY <1>1 DEF LogKept, Record
<1> QED
  BY <1>2, <1>3, <1>4, <1>5, <1>6, <1>7

(* The first decision of the running context is about a request nobody else      *)
(* holds and the log does not know.                                              *)
LEMMA HeadFacts ==
    ASSUME DelegationInv, Deciding
    PROVE  LET n == Decision.r.n
               k == Len(dStack)
           IN /\ Decision \in Decs /\ Decision.r \in Reqs /\ n \in 1..DMaxRequests
              /\ Decided \in Frms /\ Abandoned \in Frms
              /\ dTrace[n] = <<"asked">> /\ ~InQueue(n, dQueue) /\ ~InPending(n, dStack)
              /\ \A l \in 1..Len(dLog) : dLog[l].c.r.n # n
              /\ HeldAbove(Decided, dStack, k, {n}) /\ HeldAbove(Abandoned, dStack, k, {n})
              /\ \A after : HeldBelow(dStack, k, {n}, after)
              /\ FrameSound(Decided) /\ FrameSound(Abandoned)
              /\ Decision.is # "rejected" => /\ Top.depth < DPolicy[Decision.r.from].maxDepth
                                             /\ Decision.r.to \notin Top.lineage
<1> DEFINE n == Decision.r.n
           k == Len(dStack)
           ds == Top.decisions
<1>1. /\ DelegationType /\ LogKept /\ QueueUnsettled /\ LogAsked
      /\ StackSound(dStack) /\ DecisionsApart(dStack) /\ PendingApart(dStack) /\ NotLogged(dStack, dLog)
      /\ DecisionsAsked(dStack, dTrace) /\ PendingRequired(dStack, dTrace)
      /\ ChildrenUnderWay(dStack, dTrace) /\ dStack \in Seq(Frms)
  BY DEF DelegationInv, Held, DelegationType
<1>2. /\ k \in Nat \ {0} /\ Top = dStack[k] /\ Top \in Frms /\ k \in 1..k /\ ds # <<>>
      /\ \A i \in 1..k : dStack[i] \in Frms
  BY <1>1, TopFacts DEF Deciding
<1>3. ds \in Seq(Decs) /\ Top.pending \in Seq(Confs)
  BY <1>2 DEF Frms
<1>4. /\ Tail(ds) \in Seq(Decs) /\ Len(Tail(ds)) = Len(ds) - 1 /\ Head(ds) = ds[1] /\ ds[1] \in Decs
      /\ Len(ds) \in Nat \ {0} /\ \A i \in 1..(Len(ds) - 1) : Tail(ds)[i] = ds[i + 1]
  BY <1>2, <1>3, TailFacts
<1>5. DOMAIN ds = 1..Len(ds) /\ DOMAIN Tail(ds) = 1..(Len(ds) - 1) /\ 1 \in 1..Len(ds)
  BY <1>3, <1>4, LenProperties
<1>6. Decision = dStack[k].decisions[1] /\ 1 \in DOMAIN dStack[k].decisions
  BY <1>2, <1>4, <1>5 DEF Decision
<1>7. Decision \in Decs /\ Decision.r \in Reqs /\ n \in 1..DMaxRequests
  BY <1>4 DEF Decision, Decs, Reqs
<1>8. Decided \in Frms /\ Abandoned \in Frms
  <2>1. <<>> \in Seq(Decs)
    BY EmptySeq
  <2> QED
    BY <1>2, <1>4, <2>1 DEF Decided, Abandoned, Frms
<1>9. dTrace[n] = <<"asked">>
  BY <1>1, <1>2, <1>6 DEF DecisionsAsked
<1>10. \A l \in 1..Len(dLog) : dLog[l].c.r.n # n
  BY <1>1, <1>2, <1>6 DEF NotLogged
<1>11. ~InQueue(n, dQueue)
  BY <1>10, QueueLogged DEF InQueue
<1>12. ~Required(dTrace[n]) /\ ~UnderWay(dTrace[n])
  <2>1. ~Required(dTrace[n])
    BY <1>9, AskedFacts
  <2>2. \A i \in DOMAIN dTrace[n] : dTrace[n][i] \notin {"started"}
    BY <1>9, AskedFacts DEF Unsettled
  <2> QED
    BY <2>1, <2>2 DEF UnderWay
<1>13. ~InPending(n, dStack)
  BY <1>1, <1>12 DEF InPending, PendingRequired
<1>14. ASSUME NEW i \in 1..k, NEW a \in DOMAIN dStack[i].decisions, dStack[i].decisions[a].r.n = n
       PROVE  i = k /\ a = 1
  BY <1>1, <1>2, <1>6, <1>14 DEF DecisionsApart
<1>15. \A i \in 1..k : \A a \in DOMAIN dStack[i].pending : dStack[i].pending[a].r.n # n
  BY <1>13 DEF InPending
<1>16. /\ NumbersApart(ds) /\ NumbersApart(Top.pending)
  BY <1>1, <1>2 DEF NumbersApart, DecisionsApart, PendingApart
<1>17. /\ Decided.decisions = Tail(ds) /\ Decided.pending = Top.pending
       /\ Abandoned.decisions = <<>> /\ Abandoned.pending = Top.pending
       /\ Decided.at = Top.at /\ Decided.run = Top.run /\ Decided.depth = Top.depth /\ Decided.lineage = Top.lineage
       /\ Abandoned.at = Top.at /\ Abandoned.run = Top.run
       /\ Abandoned.depth = Top.depth /\ Abandoned.lineage = Top.lineage
  BY <1>2 DEF Decided, Abandoned, Frms
<1>18. \A a \in DOMAIN Tail(ds) : a + 1 \in DOMAIN ds /\ Tail(ds)[a] = ds[a + 1] /\ a + 1 # 1
  BY <1>4, <1>5
<1> HIDE DEF n, ds
<1>19. NumbersApart(Tail(ds))
  <2> SUFFICES ASSUME NEW a \in DOMAIN Tail(ds), NEW b \in DOMAIN Tail(ds),
                      Tail(ds)[a].r.n = Tail(ds)[b].r.n
               PROVE  a = b
    BY DEF NumbersApart
  <2>1. a + 1 = b + 1
    BY <1>16, <1>18 DEF NumbersApart
  <2> QED
    BY <1>5, <1>4, <2>1
<1>20. \A a \in DOMAIN Top.pending : Top.pending[a].r.n \notin {n}
         /\ \E i \in k..k : \E b \in DOMAIN dStack[i].pending : Top.pending[a] = dStack[i].pending[b]
  BY <1>2, <1>15
<1>21. \A a \in DOMAIN Tail(ds) : Tail(ds)[a].r.n \notin {n}
         /\ \E i \in k..k : \E b \in DOMAIN dStack[i].decisions : Tail(ds)[a] = dStack[i].decisions[b]
  <2> SUFFICES ASSUME NEW a \in DOMAIN Tail(ds)
               PROVE  Tail(ds)[a].r.n \notin {n}
                  /\ \E i \in k..k : \E b \in DOMAIN dStack[i].decisions : Tail(ds)[a] = dStack[i].decisions[b]
    OBVIOUS
  <2>1. a + 1 \in DOMAIN dStack[k].decisions /\ Tail(ds)[a] = dStack[k].decisions[a + 1] /\ a + 1 # 1
    BY <1>2, <1>18 DEF ds
  <2>2. dStack[k].decisions[a + 1].r.n # n
    BY <1>2, <1>14, <2>1
  <2> QED
    BY <1>2, <2>1, <2>2
<1>22. HeldAbove(Decided, dStack, k, {n})
  BY <1>16, <1>17, <1>19, <1>20, <1>21 DEF HeldAbove, ds
<1>23. HeldAbove(Abandoned, dStack, k, {n})
  <2>1. DOMAIN <<>> = {}
    OBVIOUS
  <2>2. NumbersApart(<<>>)
    BY <2>1 DEF NumbersApart
  <2> QED
    BY <1>16, <1>17, <1>20, <2>1, <2>2 DEF HeldAbove
<1>24. ASSUME NEW after PROVE HeldBelow(dStack, k, {n}, after)
  <2>1. \A i \in 1..(k - 1) : i \in 1..k /\ i # k
    BY <1>2
  <2>2. \A i \in 1..(k - 1) : \A a \in DOMAIN dStack[i].decisions : dStack[i].decisions[a].r.n # n
    BY <1>14, <2>1
  <2>3. \A i \in 1..(k - 1) : \A a \in DOMAIN dStack[i].pending : dStack[i].pending[a].r.n # n
    BY <1>15, <2>1
  <2>4. \A i \in 2..k : dStack[i].r.n # n
    BY <1>1, <1>12 DEF ChildrenUnderWay
  <2> QED
    BY <2>2, <2>3, <2>4 DEF HeldBelow
<1>25. FrameSound(Top)
  BY <1>1, <1>2 DEF StackSound
<1>26. FrameSound(Decided)
  BY <1>17, <1>18, <1>25 DEF FrameSound, ds
<1>27. FrameSound(Abandoned)
  <2>1. DOMAIN <<>> = {}
    OBVIOUS
  <2> QED
    BY <1>17, <1>25, <2>1 DEF FrameSound
<1>28. Decision.is # "rejected" => /\ Top.depth < DPolicy[Decision.r.from].maxDepth
                                   /\ Decision.r.to \notin Top.lineage
  BY <1>2, <1>6, <1>25 DEF FrameSound
<1> QED
  BY <1>7, <1>8, <1>9, <1>10, <1>11, <1>13, <1>22, <1>23, <1>24, <1>26, <1>27, <1>28 DEF n

(* What the running context holds, as long as it only gives things up.            *)
LEMMA TopHolds ==
    ASSUME DelegationInv, dStack # <<>>, NEW f, f.pending = Top.pending,
           f.decisions = Top.decisions \/ f.decisions = <<>>, NEW after
    PROVE  HeldAbove(f, dStack, Len(dStack), {}) /\ HeldBelow(dStack, Len(dStack), {}, after)
<1> DEFINE k == Len(dStack)
<1>1. DelegationType /\ DecisionsApart(dStack) /\ PendingApart(dStack)
  BY DEF DelegationInv, Held
<1>2. k \in Nat \ {0} /\ Top = dStack[k] /\ k \in 1..k /\ k \in k..k
  BY <1>1, TopFacts
<1>3. NumbersApart(Top.decisions) /\ NumbersApart(Top.pending)
  BY <1>1, <1>2 DEF NumbersApart, DecisionsApart, PendingApart
<1>4. DOMAIN <<>> = {}
  OBVIOUS
<1>5. NumbersApart(f.decisions)
  BY <1>3, <1>4 DEF NumbersApart
<1> HIDE DEF k
<1>6. HeldAbove(f, dStack, k, {})
  BY <1>2, <1>3, <1>4, <1>5 DEF HeldAbove, k
<1>7. HeldBelow(dStack, k, {}, after)
  BY DEF HeldBelow
<1> QED
  BY <1>6, <1>7 DEF k

(* Only what is left of the running context changes.                              *)
LEMMA QuietTop ==
    ASSUME DelegationInv, dStack # <<>>, NEW f \in Frms, SameContext(f, Top), FrameSound(f),
           f.pending = Top.pending, f.decisions = Top.decisions \/ f.decisions = <<>>,
           dStack' = WithTop(f), UNCHANGED <<dQueue, dLog, dTrace, dNow, dOps, dFaults, dPartial>>
    PROVE  DelegationInv'
<1>1. DelegationType /\ Held(dStack, dTrace, dLog) /\ Acted /\ WaitingKept /\ dStack \in Seq(Frms)
  BY DEF DelegationInv, DelegationType
<1>2. Top = dStack[Len(dStack)]
  BY <1>1, TopFacts
<1>3. Topped(dStack, dStack', f) /\ Len(dStack') = Len(dStack)
  BY <1>1, WithTopFacts
<1>4. Beyond({}, dTrace, dTrace', dLog, dLog')
  BY <1>1, BeyondTrace
<1>5. HeldAbove(f, dStack, Len(dStack'), {}) /\ HeldBelow(dStack, Len(dStack'), {}, dTrace')
  BY <1>3, TopHolds
<1>6. Held(dStack', dTrace', dLog')
  BY <1>1, <1>2, <1>3, <1>4, <1>5, HeldStays
<1>7. \A n : InPending(n, dStack') <=> InPending(n, dStack)
  BY <1>1, <1>2, <1>3, PendingSame
<1>8. DelegationType'
  BY <1>1, <1>3 DEF DelegationType, Topped
<1>9. Acted'
  BY <1>1 DEF Acted
<1>10. dFaults = 0 => \A n \in 1..DMaxRequests :
            Required(dTrace'[n]) <=> InQueue(n, dQueue) \/ InPending(n, dStack')
  BY <1>1, <1>7 DEF WaitingKept
<1> QED
  BY <1>6, <1>8, <1>9, <1>10, QueueStays

(* The first decision is dealt with, and nothing waits for it.                     *)
LEMMA HeadSettled ==
    ASSUME DelegationInv, Deciding, NEW what \in {"rejected", "duplicate"},
           dStack' = WithTop(Decided), Traced(Decision.r.n, <<what>>),
           UNCHANGED <<dQueue, dLog, dNow, dOps, dFaults, dPartial>>
    PROVE  DelegationInv'
<1> DEFINE n == Decision.r.n
           k == Len(dStack)
<1>1. DelegationType /\ Held(dStack, dTrace, dLog) /\ Acted /\ WaitingKept /\ dStack \in Seq(Frms)
      /\ dStack # <<>>
  BY DEF DelegationInv, DelegationType, Deciding
<1>2. /\ n \in 1..DMaxRequests /\ Decided \in Frms
      /\ dTrace[n] = <<"asked">> /\ ~InQueue(n, dQueue) /\ ~InPending(n, dStack)
      /\ \A l \in 1..Len(dLog) : dLog[l].c.r.n # n
      /\ HeldAbove(Decided, dStack, k, {n}) /\ HeldBelow(dStack, k, {n}, dTrace')
      /\ FrameSound(Decided)
  BY HeadFacts
<1>3. Top = dStack[k] /\ Top \in Frms
  BY <1>1, TopFacts
<1>4. SameContext(Decided, Top) /\ Decided.pending = Top.pending
  BY <1>3 DEF Decided, SameContext, Frms
<1>5. Topped(dStack, dStack', Decided) /\ Len(dStack') = k
  BY <1>1, <1>2, WithTopFacts
<1>6. /\ <<"asked">> \in Seq(Words) /\ <<"asked">> # <<>> /\ Unsettled(<<"asked">>)
      /\ ActedOnce(<<"asked">>)
  BY AskedFacts
<1>7. /\ <<"asked">> \o <<what>> \in Seq(Words) /\ <<"asked">> \o <<what>> # <<>>
      /\ ActedOnce(<<"asked">> \o <<what>>) /\ ~Required(<<"asked">> \o <<what>>)
  <2>1. what \in Words /\ what # "required"
    BY DEF Words
  <2> HIDE DEF n, k
  <2>2. CASE what = "rejected"
    BY <1>6, <2>1, <2>2, EventFacts
  <2>3. CASE what = "duplicate"
    BY <1>6, <2>1, <2>3, EventFacts
  <2> QED
    BY <2>2, <2>3
<1> HIDE DEF n, k
<1>8. /\ dTrace' \in [1..DMaxRequests -> Seq(Words)] /\ dTrace'[n] = dTrace[n] \o <<what>>
      /\ \A m \in (1..DMaxRequests) \ {n} : dTrace'[m] = dTrace[m]
  BY <1>1, <1>2, <1>7, TracedFacts DEF n
<1>9. Beyond({n}, dTrace, dTrace', dLog, dLog')
  BY <1>1, <1>8, BeyondTrace
<1>10. Held(dStack', dTrace', dLog)
  <2>1. HeldAbove(Decided, dStack, Len(dStack'), {n}) /\ HeldBelow(dStack, Len(dStack'), {n}, dTrace')
    BY <1>2, <1>5
  <2>2. SameContext(Decided, dStack[Len(dStack')])
    BY <1>3, <1>4, <1>5
  <2>3. Held(dStack', dTrace', dLog')
    BY <1>1, <1>2, <1>5, <1>9, <2>1, <2>2, HeldStays
  <2> QED
    BY <2>3
<1>11. \A m : InPending(m, dStack') <=> InPending(m, dStack)
  BY <1>1, <1>3, <1>4, <1>5, PendingSame DEF k
<1>12. DelegationType'
  BY <1>1, <1>5, <1>8 DEF DelegationType, Topped
<1>13. Acted'
  BY <1>1, <1>2, <1>7, <1>8 DEF Acted
<1>14. \A m \in 1..DMaxRequests : (dTrace[m] # <<>>) <=> (dTrace'[m] # <<>>)
  BY <1>2, <1>6, <1>7, <1>8
<1>15. \A m \in 1..DMaxRequests :
          \/ Unsettled(dTrace[m]) => Unsettled(dTrace'[m])
          \/ \A l \in 1..Len(dLog) : dLog[l].c.r.n # m
  BY <1>2, <1>8
<1>16. dFaults = 0 => \A m \in 1..DMaxRequests :
            Required(dTrace'[m]) <=> InQueue(m, dQueue) \/ InPending(m, dStack')
  BY <1>1, <1>2, <1>7, <1>8, <1>11 DEF WaitingKept
<1> QED
  BY <1>10, <1>12, <1>13, <1>14, <1>15, <1>16, QueueStays

(* A request that needs a confirmation is within the depth of its policy.          *)
LEMMA ConfirmationFacts ==
    ASSUME DelegationInv, Deciding, Decision.is # "rejected"
    PROVE  LET r == Decision.r
               c == Confirmation(r, Top.depth + 1, LineageForRequest(Top.lineage, r))
           IN c \in Confs /\ Permitted(c) /\ c.r = r /\ Key(c) = r.call
<1> DEFINE r == Decision.r
           lineage == LineageForRequest(Top.lineage, r)
           c == Confirmation(r, Top.depth + 1, lineage)
<1>1. DelegationType /\ dStack # <<>> /\ dNow \in Nat
  BY DEF DelegationInv, DelegationType, Deciding
<1>2. Top \in Frms
  BY <1>1, TopFacts
<1>3. r \in Reqs /\ Top.depth < DPolicy[r.from].maxDepth
  BY HeadFacts
<1>4. Top.depth \in Nat /\ Top.lineage \in SUBSET Targets /\ r.from \in DAgents /\ r.to \in Targets
  BY <1>2, <1>3 DEF Frms, Reqs
<1>5. lineage \in SUBSET Targets /\ r.to \in lineage
  BY <1>4 DEF LineageForRequest, Targets
<1>6. DPolicy[r.from].maxDepth \in Nat
  BY <1>4, DelegationAssumption
<1> HIDE DEF lineage, r
<1>7. /\ c.r = r /\ c.depth = Top.depth + 1 /\ c.lineage = lineage /\ c.day = dNow
      /\ c = [r |-> r, depth |-> Top.depth + 1, lineage |-> lineage, day |-> dNow]
  BY DEF Confirmation
<1>8. c \in Confs
  BY <1>1, <1>3, <1>4, <1>5, <1>7 DEF Confs
<1>9. Permitted(c)
  BY <1>3, <1>4, <1>5, <1>6, <1>7 DEF Permitted
<1> QED
  BY <1>7, <1>8, <1>9 DEF Key, r, lineage

\* The log does not know the request n.
Unlogged(n, log) == \A l \in 1..Len(log) : log[l].c.r.n # n

(* The running context keeps a confirmation that nobody has yet.                  *)
LEMMA HeldPending ==
    ASSUME NEW s \in Seq(Frms), NEW trace, NEW log, Held(s, trace, log),
           NEW t, NEW f, Topped(s, t, f), Len(t) = Len(s), SameContext(f, s[Len(s)]), FrameSound(f),
           f.decisions = s[Len(s)].decisions,
           NEW c \in Confs, f.pending = Append(s[Len(s)].pending, c), ~InPending(c.r.n, s),
           Unsettled(trace[c.r.n]), Required(trace[c.r.n]), Unlogged(c.r.n, log)
    PROVE  Held(t, trace, log) /\ \A m : InPending(m, t) <=> InPending(m, s) \/ m = c.r.n
<1> DEFINE k == Len(s)
           old == s[k].pending
<1>1. /\ k \in Nat /\ k \in 1..k /\ t[k] = f /\ \A i \in 1..(k - 1) : t[i] = s[i]
      /\ \A i \in 1..k : i = k \/ i \in 1..(k - 1)
  <2>1. k \in Nat
    BY LenProperties
  <2> QED
    BY <2>1 DEF Topped
<1>2. /\ StackSound(s) /\ DecisionsApart(s) /\ PendingApart(s) /\ NotLogged(s, log)
      /\ DecisionsAsked(s, trace) /\ PendingRequired(s, trace) /\ ChildrenUnderWay(s, trace)
      /\ ChildrenApart(s)
  BY DEF Held
<1>3. old \in Seq(Confs)
  <2>1. s[k] \in Frms
    BY <1>1, ElementOfSeq
  <2> QED
    BY <2>1 DEF Frms
<1>4. /\ f.pending \in Seq(Confs) /\ Len(f.pending) = Len(old) + 1 /\ f.pending[Len(old) + 1] = c
      /\ Len(old) \in Nat /\ \A a \in 1..Len(old) : f.pending[a] = old[a]
  BY <1>3, AppendProperties, LenProperties
<1>5. DOMAIN f.pending = 1..(Len(old) + 1) /\ DOMAIN old = 1..Len(old)
  BY <1>3, <1>4, LenProperties
<1>6. \A a \in DOMAIN f.pending : a = Len(old) + 1 \/ a \in 1..Len(old)
  BY <1>4, <1>5
<1>7. \A a \in 1..Len(old) : old[a].r.n # c.r.n
  BY <1>1, <1>5 DEF InPending
<1>8. NumbersApart(old)
  BY <1>1, <1>2 DEF NumbersApart, PendingApart
<1> HIDE DEF old
<1>9. NumbersApart(f.pending)
  <2> SUFFICES ASSUME NEW a \in DOMAIN f.pending, NEW b \in DOMAIN f.pending,
                      f.pending[a].r.n = f.pending[b].r.n
               PROVE  a = b
    BY DEF NumbersApart
  <2>1. CASE a \in 1..Len(old) /\ b \in 1..Len(old)
    BY <1>4, <1>5, <1>8, <2>1 DEF NumbersApart
  <2> QED
    BY <1>4, <1>6, <1>7, <2>1
<1>10. StackSound(t)
  BY <1>2, ToppedSound
<1>11. DecisionsApart(t)
  <2>1. NumbersApart(f.decisions)
    BY <1>1, <1>2 DEF NumbersApart, DecisionsApart
  <2>2. \A a \in DOMAIN f.decisions : \E i \in Len(t)..Len(s) : \E b \in DOMAIN s[i].decisions :
            f.decisions[a] = s[i].decisions[b]
    BY <1>1
  <2> QED
    BY <1>2, <2>1, <2>2, DecisionsStayApart
<1>12. PendingApart(t)
  <2>1. ASSUME NEW a \in DOMAIN f.pending
        PROVE  \/ \E i \in Len(t)..Len(s) : \E b \in DOMAIN s[i].pending : f.pending[a] = s[i].pending[b]
               \/ \A i \in 1..Len(s) : \A b \in DOMAIN s[i].pending : f.pending[a].r.n # s[i].pending[b].r.n
    <3>1. CASE a \in 1..Len(old)
      <4>1. k \in Len(t)..Len(s) /\ a \in DOMAIN s[k].pending /\ f.pending[a] = s[k].pending[a]
        BY <1>1, <1>4, <1>5, <3>1 DEF old
      <4> QED
        BY <4>1
    <3>2. CASE a = Len(old) + 1
      BY <1>4, <3>2 DEF InPending
    <3> QED
      BY <1>6, <3>1, <3>2
  <2> QED
    BY <1>2, <1>9, <2>1, PendingStayApart
<1>13. ASSUME NEW i \in 1..k
       PROVE  /\ t[i].r = s[i].r /\ t[i].decisions = s[i].decisions
              /\ \A a \in DOMAIN t[i].pending :
                    \/ a \in DOMAIN s[i].pending /\ t[i].pending[a] = s[i].pending[a]
                    \/ t[i].pending[a] = c
  <2>1. CASE i = k
    BY <1>1, <1>4, <1>5, <1>6, <2>1 DEF SameContext, old
  <2>2. CASE i \in 1..(k - 1)
    BY <1>1, <2>2
  <2> QED
    BY <1>1, <2>1, <2>2
<1> HIDE DEF k
<1>14. Len(t) = k
  BY DEF k
<1>15. NotLogged(t, log)
  <2> SUFFICES ASSUME NEW i \in 1..k, NEW l \in 1..Len(log)
               PROVE  /\ \A a \in DOMAIN t[i].decisions : t[i].decisions[a].r.n # log[l].c.r.n
                      /\ \A a \in DOMAIN t[i].pending : t[i].pending[a].r.n # log[l].c.r.n
    BY <1>14 DEF NotLogged
  <2>1. /\ \A a \in DOMAIN s[i].decisions : s[i].decisions[a].r.n # log[l].c.r.n
        /\ \A a \in DOMAIN s[i].pending : s[i].pending[a].r.n # log[l].c.r.n
    BY <1>2 DEF NotLogged, k
  <2> QED
    BY <1>13, <2>1 DEF Unlogged
<1>16. DecisionsAsked(t, trace)
  <2> SUFFICES ASSUME NEW i \in 1..k
               PROVE  \A a \in DOMAIN t[i].decisions : trace[t[i].decisions[a].r.n] = <<"asked">>
    BY <1>14 DEF DecisionsAsked
  <2>1. \A a \in DOMAIN s[i].decisions : trace[s[i].decisions[a].r.n] = <<"asked">>
    BY <1>2 DEF DecisionsAsked, k
  <2> QED
    BY <1>13, <2>1
<1>17. PendingRequired(t, trace)
  BY <1>2, <1>13, <1>14 DEF PendingRequired, k
<1>18. ChildrenUnderWay(t, trace) /\ ChildrenApart(t)
  <2>1. \A i \in 2..k : i \in 1..k
    BY <1>1
  <2>2. ChildrenUnderWay(t, trace)
    BY <1>2, <1>13, <1>14, <2>1 DEF ChildrenUnderWay, k
  <2>3. ChildrenApart(t)
    BY <1>2, <1>13, <1>14, <2>1 DEF ChildrenApart, k
  <2> QED
    BY <2>2, <2>3
<1>19. ASSUME NEW m PROVE InPending(m, t) <=> InPending(m, s) \/ m = c.r.n
  <2>1. InPending(m, t) => InPending(m, s) \/ m = c.r.n
    BY <1>13, <1>14 DEF InPending, k
  <2>2. InPending(m, s) => InPending(m, t)
    <3> SUFFICES ASSUME NEW i \in 1..k, NEW a \in DOMAIN s[i].pending, s[i].pending[a].r.n = m
                 PROVE  \E b \in DOMAIN t[i].pending : t[i].pending[b].r.n = m
      BY <1>14 DEF InPending, k
    <3>1. CASE i = k
      <4>1. a \in 1..Len(old) /\ s[i].pending[a] = old[a]
        BY <1>5, <3>1 DEF old
      <4>2. a \in 1..(Len(old) + 1) /\ t[i] = f
        BY <1>1, <1>4, <3>1, <4>1
      <4>3. a \in DOMAIN t[i].pending /\ t[i].pending[a] = s[i].pending[a]
        BY <1>4, <1>5, <4>1, <4>2
      <4> QED
        BY <4>3
    <3>2. CASE i \in 1..(k - 1)
      BY <1>1, <3>2
    <3> QED
      BY <1>1, <3>1, <3>2
  <2>3. m = c.r.n => InPending(m, t)
    <3>1. Len(old) + 1 \in DOMAIN t[k].pending /\ t[k].pending[Len(old) + 1] = c
      BY <1>1, <1>4, <1>5
    <3> QED
      BY <1>1, <1>14, <3>1 DEF InPending
  <2> QED
    BY <2>1, <2>2, <2>3
<1> QED
  BY <1>10, <1>11, <1>12, <1>15, <1>16, <1>17, <1>18, <1>19 DEF Held

(* A confirmation is kept for the caller.                                         *)
LEMMA KeepStep ==
    ASSUME DelegationInv, NEW kind, KeepConfirmation(kind)
    PROVE  DelegationInv'
<1> DEFINE n == Decision.r.n
           k == Len(dStack)
           c == Confirmation(Decision.r, Top.depth + 1, LineageForRequest(Top.lineage, Decision.r))
           f == [Decided EXCEPT !.pending = Append(@, c)]
           mid == WithTop(Decided)
           required == <<"asked">> \o <<"required">>
<1>0. /\ Deciding /\ Decision.is = "confirm" /\ dStack' = WithTop(f) /\ Traced(n, <<"required">>)
      /\ UNCHANGED <<dQueue, dLog, dNow, dOps, dFaults, dPartial>>
  BY DEF KeepConfirmation
<1>1. /\ DelegationType /\ Held(dStack, dTrace, dLog) /\ Acted /\ WaitingKept
      /\ dStack \in Seq(Frms) /\ dStack # <<>>
  BY <1>0 DEF DelegationInv, DelegationType, Deciding
<1>2. /\ n \in 1..DMaxRequests /\ Decided \in Frms
      /\ dTrace[n] = <<"asked">> /\ ~InQueue(n, dQueue) /\ ~InPending(n, dStack)
      /\ \A l \in 1..Len(dLog) : dLog[l].c.r.n # n
      /\ HeldAbove(Decided, dStack, k, {n}) /\ \A after : HeldBelow(dStack, k, {n}, after)
      /\ FrameSound(Decided)
  BY <1>0, HeadFacts
<1>3. Top = dStack[k] /\ Top \in Frms
  BY <1>1, TopFacts
<1>4. SameContext(Decided, Top) /\ Decided.pending = Top.pending
  BY <1>3 DEF Decided, SameContext, Frms
<1>5. c \in Confs /\ Permitted(c) /\ c.r.n = n
  BY <1>0, ConfirmationFacts
<1> HIDE DEF c
<1>6. /\ f.pending = Append(Decided.pending, c) /\ f.decisions = Decided.decisions
      /\ f.at = Decided.at /\ f.run = Decided.run /\ SameContext(f, Decided)
      /\ f.depth = Decided.depth /\ f.lineage = Decided.lineage
  BY <1>2 DEF SameContext, Frms
<1>7. Decided.pending \in Seq(Confs)
  BY <1>2 DEF Frms
<1>8. /\ Append(Decided.pending, c) \in Seq(Confs) /\ Len(Decided.pending) \in Nat
      /\ DOMAIN Append(Decided.pending, c) = 1..(Len(Decided.pending) + 1)
      /\ DOMAIN Decided.pending = 1..Len(Decided.pending)
      /\ Append(Decided.pending, c)[Len(Decided.pending) + 1] = c
      /\ \A a \in 1..Len(Decided.pending) : Append(Decided.pending, c)[a] = Decided.pending[a]
  BY <1>5, <1>7, AppendProperties, LenProperties
<1>9. f \in Frms
  BY <1>2, <1>8 DEF Frms
<1>10. FrameSound(f)
  <2>1. \A a \in DOMAIN f.pending : a = Len(Decided.pending) + 1 \/ a \in 1..Len(Decided.pending)
    BY <1>6, <1>8
  <2>2. \A a \in DOMAIN f.pending : Permitted(f.pending[a])
    BY <1>2, <1>5, <1>6, <1>8, <2>1 DEF FrameSound
  <2> QED
    BY <1>2, <1>6, <2>2 DEF FrameSound
<1> HIDE DEF f
<1>11. /\ Topped(dStack, mid, Decided) /\ Len(mid) = k
       /\ Topped(dStack, dStack', f) /\ Len(dStack') = k
  BY <1>0, <1>1, <1>2, <1>9, WithTopFacts
<1> HIDE DEF mid
<1>12. /\ <<"asked">> \in Seq(Words) /\ <<"asked">> # <<>> /\ Unsettled(<<"asked">>)
       /\ ActedOnce(<<"asked">>)
  BY AskedFacts
<1>13. /\ required \in Seq(Words) /\ required # <<>> /\ ActedOnce(required) /\ Required(required)
       /\ Unsettled(required)
  <2>1. "required" \in Words /\ "required" \notin {"started", "rejected", "completed", "failed"}
    BY DEF Words
  <2> QED
    BY <1>12, <2>1, EventFacts
<1> HIDE DEF n, k
<1>14. /\ dTrace' \in [1..DMaxRequests -> Seq(Words)] /\ dTrace'[n] = required
       /\ \A m \in (1..DMaxRequests) \ {n} : dTrace'[m] = dTrace[m]
  <2>1. dTrace[n] \o <<"required">> = required
    BY <1>2
  <2> HIDE DEF required
  <2> QED
    BY <1>0, <1>1, <1>2, <1>13, <2>1, TracedFacts
<1> HIDE DEF required
<1>15. Beyond({n}, dTrace, dTrace', dLog, dLog')
  BY <1>0, <1>1, <1>14, BeyondTrace
<1>16. Held(mid, dTrace', dLog)
  <2>1. HeldAbove(Decided, dStack, Len(mid), {n}) /\ HeldBelow(dStack, Len(mid), {n}, dTrace')
    BY <1>2, <1>11
  <2>2. SameContext(Decided, dStack[Len(mid)])
    BY <1>3, <1>4, <1>11
  <2>3. Held(mid, dTrace', dLog')
    BY <1>1, <1>2, <1>11, <1>15, <2>1, <2>2, HeldStays
  <2> QED
    BY <1>0, <2>3
<1>17. mid \in Seq(Frms) /\ k \in Nat /\ mid[k] = Decided /\ \A i \in 1..(k - 1) : mid[i] = dStack[i]
  BY <1>1, <1>11, LenProperties DEF Topped, k
<1>18. \A m : InPending(m, mid) <=> InPending(m, dStack)
  BY <1>1, <1>3, <1>4, <1>11, PendingSame DEF k
<1>19. Topped(mid, dStack', f)
  BY <1>11, <1>17 DEF Topped
<1>20. /\ Held(dStack', dTrace', dLog)
       /\ \A m : InPending(m, dStack') <=> InPending(m, mid) \/ m = c.r.n
  <2>1. /\ SameContext(f, mid[Len(mid)]) /\ f.decisions = mid[Len(mid)].decisions
        /\ f.pending = Append(mid[Len(mid)].pending, c)
    BY <1>6, <1>11, <1>17
  <2>2. /\ ~InPending(c.r.n, mid) /\ Unsettled(dTrace'[c.r.n]) /\ Required(dTrace'[c.r.n])
        /\ Unlogged(c.r.n, dLog)
    BY <1>2, <1>5, <1>13, <1>14, <1>18 DEF Unlogged
  <2>3. Len(dStack') = Len(mid)
    BY <1>11
  <2> QED
    BY <1>5, <1>10, <1>16, <1>17, <1>19, <2>1, <2>2, <2>3, HeldPending
<1>21. \A m : InPending(m, dStack') <=> InPending(m, dStack) \/ m = n
  BY <1>5, <1>18, <1>20
<1>22. DelegationType'
  BY <1>0, <1>1, <1>11, <1>14 DEF DelegationType, Topped
<1>23. Acted'
  BY <1>1, <1>2, <1>13, <1>14 DEF Acted
<1>24. \A m \in 1..DMaxRequests : (dTrace[m] # <<>>) <=> (dTrace'[m] # <<>>)
  BY <1>2, <1>12, <1>13, <1>14
<1>25. \A m \in 1..DMaxRequests :
          \/ Unsettled(dTrace[m]) => Unsettled(dTrace'[m])
          \/ \A l \in 1..Len(dLog) : dLog[l].c.r.n # m
  BY <1>2, <1>14
<1>26. dFaults = 0 => \A m \in 1..DMaxRequests :
            Required(dTrace'[m]) <=> InQueue(m, dQueue) \/ InPending(m, dStack')
  BY <1>1, <1>2, <1>13, <1>14, <1>21 DEF WaitingKept
<1> QED
  BY <1>0, <1>20, <1>22, <1>23, <1>24, <1>25, <1>26, QueueStays

(* A context is put on the stack for a request that is under way.                  *)
LEMMA HeldPushed ==
    ASSUME NEW s \in Seq(Frms), s # <<>>, NEW trace, NEW log, Held(s, trace, log),
           NEW r \in Reqs, NEW depth \in Nat, NEW lineage \in SUBSET Targets,
           depth >= Len(s), depth <= DPolicy[r.from].maxDepth,
           s[Len(s)].lineage \subseteq lineage, r.to \in lineage, r.to \notin s[Len(s)].lineage,
           UnderWay(trace[r.n]), \A i \in 2..Len(s) : s[i].r.n # r.n
    PROVE  LET t == Append(s, ChildFrame(r, depth, lineage))
           IN /\ t \in Seq(Frms) /\ Held(t, trace, log)
              /\ \A m : InPending(m, t) <=> InPending(m, s)
<1> DEFINE f == ChildFrame(r, depth, lineage)
           t == Append(s, f)
           k == Len(s)
<1>1. /\ StackSound(s) /\ DecisionsApart(s) /\ PendingApart(s) /\ NotLogged(s, log)
      /\ DecisionsAsked(s, trace) /\ PendingRequired(s, trace) /\ ChildrenUnderWay(s, trace)
      /\ ChildrenApart(s)
  BY DEF Held
<1>2. f \in Frms /\ f.r = r /\ f.decisions = <<>> /\ f.pending = <<>>
  <2>1. ChildFrame(r, depth, lineage) \in Frms
    BY ChildFacts
  <2>2. ChildFrame(r, depth, lineage).r = r
    BY ChildFacts
  <2>3. ChildFrame(r, depth, lineage).decisions = <<>> /\ ChildFrame(r, depth, lineage).pending = <<>>
    BY ChildFacts
  <2> QED
    BY <2>1, <2>2, <2>3
<1>3. StackSound(t) /\ t \in Seq(Frms)
  BY <1>1, PushedSound
<1> HIDE DEF f
<1>4. DecisionsApart(t) /\ PendingApart(t)
  BY <1>1, <1>2, DecisionsPushed, PendingPushed
<1>5. k \in Nat /\ Len(t) = k + 1 /\ t[k + 1] = f /\ \A i \in 1..k : t[i] = s[i]
  BY <1>2, AppendProperties, LenProperties
<1> HIDE DEF t, k
<1>6. \A i \in 1..Len(t) : i \in 1..k \/ (t[i].decisions = <<>> /\ t[i].pending = <<>>)
  <2>1. \A i \in 1..(k + 1) : i \in 1..k \/ i = k + 1
    BY <1>5
  <2>2. t[k + 1].decisions = <<>> /\ t[k + 1].pending = <<>>
    BY <1>2, <1>5
  <2>3. Len(t) = k + 1
    BY <1>5
  <2> QED
    BY <2>1, <2>2, <2>3
<1>7. DOMAIN <<>> = {}
  OBVIOUS
<1>8. NotLogged(t, log)
  <2> SUFFICES ASSUME NEW i \in 1..Len(t), NEW l \in 1..Len(log)
               PROVE  /\ \A a \in DOMAIN t[i].decisions : t[i].decisions[a].r.n # log[l].c.r.n
                      /\ \A a \in DOMAIN t[i].pending : t[i].pending[a].r.n # log[l].c.r.n
    BY DEF NotLogged
  <2>1. CASE i \in 1..k
    BY <1>1, <1>5, <2>1 DEF NotLogged, k
  <2> QED
    BY <1>6, <1>7, <2>1
<1>9. DecisionsAsked(t, trace)
  <2> SUFFICES ASSUME NEW i \in 1..Len(t)
               PROVE  \A a \in DOMAIN t[i].decisions : trace[t[i].decisions[a].r.n] = <<"asked">>
    BY DEF DecisionsAsked
  <2>1. CASE i \in 1..k
    <3>1. i \in 1..Len(s) /\ t[i] = s[i]
      BY <1>5, <2>1 DEF k
    <3> QED
      BY <1>1, <3>1 DEF DecisionsAsked
  <2> QED
    BY <1>6, <1>7, <2>1
<1>10. PendingRequired(t, trace)
  <2> SUFFICES ASSUME NEW i \in 1..Len(t)
               PROVE  \A a \in DOMAIN t[i].pending : Unsettled(trace[t[i].pending[a].r.n])
                                                     /\ Required(trace[t[i].pending[a].r.n])
    BY DEF PendingRequired
  <2>1. CASE i \in 1..k
    <3>1. i \in 1..Len(s) /\ t[i] = s[i]
      BY <1>5, <2>1 DEF k
    <3> QED
      BY <1>1, <3>1 DEF PendingRequired
  <2> QED
    BY <1>6, <1>7, <2>1
<1>11. \A i \in 2..Len(t) : i = k + 1 \/ (i \in 2..k /\ i \in 1..k)
  <2>1. \A i \in 2..(k + 1) : i = k + 1 \/ (i \in 2..k /\ i \in 1..k)
    BY <1>5
  <2> QED
    BY <1>5, <2>1
<1>12. ChildrenUnderWay(t, trace)
  BY <1>1, <1>2, <1>5, <1>11 DEF ChildrenUnderWay, k
<1>13. ChildrenApart(t)
  BY <1>1, <1>2, <1>5, <1>11 DEF ChildrenApart, k
<1>14. ASSUME NEW m PROVE InPending(m, t) <=> InPending(m, s)
  <2>1. InPending(m, t) => InPending(m, s)
    <3> SUFFICES ASSUME NEW i \in 1..Len(t), NEW a \in DOMAIN t[i].pending, t[i].pending[a].r.n = m
                 PROVE  InPending(m, s)
      BY DEF InPending
    <3>1. i \in 1..k
      BY <1>6, <1>7
    <3> QED
      BY <1>5, <3>1 DEF InPending, k
  <2>2. \A i \in 1..k : i \in 1..Len(t)
    BY <1>5
  <2> QED
    BY <1>5, <2>1, <2>2 DEF InPending, k
<1> QED
  BY <1>3, <1>4, <1>8, <1>9, <1>10, <1>12, <1>13, <1>14 DEF Held, t, f

(* The contexts of an operation that starts.                                       *)
LEMMA HeldOne ==
    ASSUME NEW f \in Frms, f.decisions = <<>>, f.pending = <<>>, f.op # "child", FrameSound(f),
           NEW trace, NEW log
    PROVE  /\ <<f>> \in Seq(Frms) /\ Held(<<f>>, trace, log) /\ Len(<<f>>) = 1 /\ <<f>>[1] = f
           /\ \A m : ~InPending(m, <<f>>)
<1> DEFINE s == <<f>>
<1>1. s \in Seq(Frms) /\ Len(s) = 1 /\ s[1] = f
  OBVIOUS
<1>2. (\A i \in 1..Len(s) : i = 1) /\ 2..Len(s) = {} /\ DOMAIN <<>> = {}
  BY <1>1
<1>3. f.depth \in Nat
  BY DEF Frms
<1> HIDE DEF s
<1>4. StackSound(s)
  <2>1. \A i \in 1..Len(s) : FrameSound(s[i]) /\ (s[i].op = "child" <=> i > 1)
                             /\ s[i].depth >= i - 1
    BY <1>1, <1>2, <1>3
  <2> QED
    BY <1>2, <2>1 DEF StackSound
<1>5. DecisionsApart(s) /\ PendingApart(s)
  BY <1>1, <1>2 DEF DecisionsApart, PendingApart
<1>6. NotLogged(s, log) /\ DecisionsAsked(s, trace) /\ PendingRequired(s, trace)
  BY <1>1, <1>2 DEF NotLogged, DecisionsAsked, PendingRequired
<1>7. ChildrenUnderWay(s, trace) /\ ChildrenApart(s)
  BY <1>2 DEF ChildrenUnderWay, ChildrenApart
<1>8. \A m : ~InPending(m, s)
  BY <1>1, <1>2 DEF InPending
<1> QED
  BY <1>1, <1>4, <1>5, <1>6, <1>7, <1>8 DEF Held, s

(* No context holds anything between the operations.                                *)
LEMMA HeldNone ==
    ASSUME NEW trace, NEW log
    PROVE  <<>> \in Seq(Frms) /\ Held(<<>>, trace, log) /\ \A m : ~InPending(m, <<>>)
<1> DEFINE s == <<>>
<1>1. s \in Seq(Frms) /\ 1..Len(s) = {} /\ 2..Len(s) = {}
  OBVIOUS
<1> HIDE DEF s
<1>2. StackSound(s)
  BY <1>1 DEF StackSound
<1>3. DecisionsApart(s) /\ PendingApart(s)
  BY <1>1 DEF DecisionsApart, PendingApart
<1>4. NotLogged(s, log) /\ DecisionsAsked(s, trace) /\ PendingRequired(s, trace)
  BY <1>1 DEF NotLogged, DecisionsAsked, PendingRequired
<1>5. ChildrenUnderWay(s, trace) /\ ChildrenApart(s)
  BY <1>1 DEF ChildrenUnderWay, ChildrenApart
<1>6. \A m : ~InPending(m, s)
  BY <1>1 DEF InPending
<1> QED
  BY <1>1, <1>2, <1>3, <1>4, <1>5, <1>6 DEF Held, s

(* An operation starts with one context that holds nothing.                         *)
LEMMA StartStep ==
    ASSUME DelegationInv, dStack = <<>>, NEW f \in Frms, f.decisions = <<>>, f.pending = <<>>,
           f.op # "child", FrameSound(f), dStack' = <<f>>, dOps' \in Nat,
           UNCHANGED <<dQueue, dLog, dTrace, dNow, dFaults, dPartial>>
    PROVE  DelegationInv'
<1>1. DelegationType /\ Acted /\ WaitingKept
  BY DEF DelegationInv
<1>2. /\ dStack' \in Seq(Frms) /\ Held(dStack', dTrace', dLog) /\ \A m : ~InPending(m, dStack')
  BY HeldOne
<1>3. \A m : ~InPending(m, dStack)
  BY HeldNone
<1>4. DelegationType'
  BY <1>1, <1>2 DEF DelegationType
<1>5. Acted'
  BY <1>1 DEF Acted
<1>6. dFaults' = 0 => \A n \in 1..DMaxRequests :
            Required(dTrace'[n]) <=> InQueue(n, dQueue) \/ InPending(n, dStack')
  BY <1>1, <1>2, <1>3 DEF WaitingKept
<1> QED
  BY <1>2, <1>4, <1>5, <1>6, QueueStays

(* The child of an approved decision runs.                                          *)
LEMMA ExecuteStep ==
    ASSUME DelegationInv, ExecuteApproved
    PROVE  DelegationInv'
<1> DEFINE r == Decision.r
           n == r.n
           k == Len(dStack)
           depth == Top.depth + 1
           lineage == LineageForRequest(Top.lineage, r)
           mid == WithTop(Decided)
           events == <<"asked">> \o <<"approved", "started">>
<1>0. /\ Deciding /\ Decision.is = "approved" /\ dStack' = Append(mid, ChildFrame(r, depth, lineage))
      /\ Traced(n, <<"approved", "started">>)
      /\ UNCHANGED <<dQueue, dLog, dNow, dOps, dFaults, dPartial>>
  BY DEF ExecuteApproved
<1>1. /\ DelegationType /\ Held(dStack, dTrace, dLog) /\ Acted /\ WaitingKept
      /\ dStack \in Seq(Frms) /\ dStack # <<>>
  BY <1>0 DEF DelegationInv, DelegationType, Deciding
<1>2. /\ r \in Reqs /\ n \in 1..DMaxRequests /\ Decided \in Frms
      /\ dTrace[n] = <<"asked">> /\ ~InQueue(n, dQueue) /\ ~InPending(n, dStack)
      /\ \A l \in 1..Len(dLog) : dLog[l].c.r.n # n
      /\ HeldAbove(Decided, dStack, k, {n}) /\ HeldBelow(dStack, k, {n}, dTrace')
      /\ HeldBelow(dStack, k, {n}, [m \in 1..DMaxRequests |-> <<>>])
      /\ FrameSound(Decided)
      /\ Top.depth < DPolicy[r.from].maxDepth /\ r.to \notin Top.lineage
  BY <1>0, HeadFacts
<1>3. Top = dStack[k] /\ Top \in Frms /\ k \in Nat \ {0}
  BY <1>1, TopFacts
<1>4. SameContext(Decided, Top) /\ Decided.pending = Top.pending
  BY <1>3 DEF Decided, SameContext, Frms
<1>5. Topped(dStack, mid, Decided) /\ Len(mid) = k
  BY <1>1, <1>2, WithTopFacts
<1>6. Top.depth \in Nat /\ Top.lineage \in SUBSET Targets /\ r.from \in DAgents /\ r.to \in Targets
  BY <1>2, <1>3 DEF Frms, Reqs
<1>7. lineage \in SUBSET Targets /\ r.to \in lineage /\ Top.lineage \subseteq lineage
  BY <1>6 DEF LineageForRequest, Targets
<1>8. DPolicy[r.from].maxDepth \in Nat
  BY <1>6, DelegationAssumption
<1>9. Top.depth >= k - 1
  <2>1. StackSound(dStack) /\ k \in 1..k
    BY <1>1, <1>3 DEF Held
  <2> QED
    BY <1>3, <2>1 DEF StackSound
<1>10. /\ <<"asked">> \in Seq(Words) /\ <<"asked">> # <<>> /\ Unsettled(<<"asked">>)
  BY AskedFacts
<1>11. /\ events \in Seq(Words) /\ events # <<>> /\ ActedOnce(events) /\ UnderWay(events)
       /\ ~Required(events)
  BY <1>10, ApprovedFacts
<1> HIDE DEF r, mid, lineage
<1>12. /\ dTrace' \in [1..DMaxRequests -> Seq(Words)] /\ dTrace'[n] = events
       /\ \A m \in (1..DMaxRequests) \ {n} : dTrace'[m] = dTrace[m]
  <2>1. dTrace[n] \o <<"approved", "started">> = events
    BY <1>2
  <2> HIDE DEF events, n
  <2> QED
    BY <1>0, <1>1, <1>2, <1>11, <2>1, TracedFacts
<1> HIDE DEF events, n, k
<1>13. Beyond({n}, dTrace, dTrace', dLog, dLog')
  BY <1>0, <1>1, <1>12, BeyondTrace
<1>14. Held(mid, dTrace', dLog)
  <2>1. HeldAbove(Decided, dStack, Len(mid), {n}) /\ HeldBelow(dStack, Len(mid), {n}, dTrace')
    BY <1>2, <1>5
  <2>2. SameContext(Decided, dStack[Len(mid)])
    BY <1>3, <1>4, <1>5
  <2>3. Held(mid, dTrace', dLog')
    BY <1>1, <1>2, <1>5, <1>13, <2>1, <2>2, HeldStays
  <2> QED
    BY <1>0, <2>3
<1>15. mid \in Seq(Frms) /\ mid[k] = Decided /\ \A i \in 1..(k - 1) : mid[i] = dStack[i]
  BY <1>5 DEF Topped
<1>16. \A m : InPending(m, mid) <=> InPending(m, dStack)
  BY <1>1, <1>3, <1>4, <1>5, PendingSame DEF k
<1>17. mid # <<>> /\ mid[Len(mid)].lineage = Top.lineage
  <2>1. Len(<<>>) = 0 /\ Len(mid) # 0
    BY <1>3, <1>5
  <2> QED
    BY <1>4, <1>5, <1>15, <2>1 DEF SameContext
<1>18. \A i \in 2..Len(mid) : mid[i].r.n # n
  <2>0. \A i \in 2..Len(mid) : i = k \/ i \in 1..(k - 1)
    BY <1>3, <1>5
  <2>1. \A i \in 2..Len(mid) : mid[i].r = dStack[i].r
    BY <1>3, <1>4, <1>15, <2>0 DEF SameContext
  <2>2. \A i \in 2..k : dStack[i].r.n # n
    <3>1. DOMAIN [m \in 1..DMaxRequests |-> <<>>][n] = {}
      BY <1>2
    <3>2. ~UnderWay([m \in 1..DMaxRequests |-> <<>>][n])
      BY <3>1 DEF UnderWay
    <3> QED
      BY <1>2, <3>2 DEF HeldBelow
  <2> QED
    BY <1>5, <2>1, <2>2
<1>19. /\ dStack' \in Seq(Frms) /\ Held(dStack', dTrace', dLog)
       /\ \A m : InPending(m, dStack') <=> InPending(m, mid)
  <2>1. depth \in Nat /\ depth >= Len(mid) /\ depth <= DPolicy[r.from].maxDepth
    BY <1>2, <1>3, <1>5, <1>6, <1>8, <1>9
  <2>2. UnderWay(dTrace'[r.n]) /\ \A i \in 2..Len(mid) : mid[i].r.n # r.n
    BY <1>11, <1>12, <1>18 DEF n
  <2>3. mid[Len(mid)].lineage \subseteq lineage /\ r.to \notin mid[Len(mid)].lineage
    BY <1>2, <1>7, <1>17
  <2> HIDE DEF depth
  <2> QED
    BY <1>0, <1>2, <1>7, <1>14, <1>15, <1>17, <2>1, <2>2, <2>3, HeldPushed
<1>20. \A m : InPending(m, dStack') <=> InPending(m, dStack)
  BY <1>16, <1>19
<1>21. DelegationType'
  BY <1>0, <1>1, <1>12, <1>19 DEF DelegationType
<1>22. Acted'
  BY <1>1, <1>2, <1>11, <1>12 DEF Acted
<1>23. \A m \in 1..DMaxRequests : (dTrace[m] # <<>>) <=> (dTrace'[m] # <<>>)
  BY <1>2, <1>10, <1>11, <1>12
<1>24. \A m \in 1..DMaxRequests :
          \/ Unsettled(dTrace[m]) => Unsettled(dTrace'[m])
          \/ \A l \in 1..Len(dLog) : dLog[l].c.r.n # m
  BY <1>2, <1>12
<1>25. dFaults' = 0 => \A m \in 1..DMaxRequests :
            Required(dTrace'[m]) <=> InQueue(m, dQueue) \/ InPending(m, dStack')
  BY <1>0, <1>1, <1>2, <1>11, <1>12, <1>20 DEF WaitingKept
<1> QED
  BY <1>0, <1>19, <1>21, <1>22, <1>23, <1>24, <1>25, QueueStays

(* What is asked for is recorded, one record for each.                              *)
LEMMA AskingFacts ==
    ASSUME NEW log \in Seq(Recs), NEW cs \in Seq(Confs)
    PROVE  /\ log \o Requested(cs) \in Seq(Recs) /\ Len(log \o Requested(cs)) = Len(log) + Len(cs)
           /\ Len(log) \in Nat /\ Len(cs) \in Nat
           /\ \A l \in 1..Len(log) : (log \o Requested(cs))[l] = log[l]
           /\ \A a \in 1..Len(cs) : (log \o Requested(cs))[Len(log) + a] = Record("requested", cs[a])
<1>1. Len(log) \in Nat /\ Len(cs) \in Nat /\ DOMAIN cs = 1..Len(cs)
  BY LenProperties
<1>2. \A a \in 1..Len(cs) : Record("requested", cs[a]) \in Recs
  <2>1. \A a \in 1..Len(cs) : cs[a] \in Confs
    BY ElementOfSeq
  <2> QED
    BY <2>1 DEF Record, Recs
<1>3. Requested(cs) \in [1..Len(cs) -> Recs] /\ \A a \in 1..Len(cs) : Requested(cs)[a] = Record("requested", cs[a])
  BY <1>1, <1>2 DEF Requested
<1>4. Requested(cs) \in Seq(Recs) /\ Len(Requested(cs)) = Len(cs)
  <2>1. Requested(cs) \in Seq(Recs)
    BY <1>1, <1>3
  <2>2. DOMAIN Requested(cs) = 1..Len(cs) /\ DOMAIN Requested(cs) = 1..Len(Requested(cs)) /\ Len(Requested(cs)) \in Nat
    BY <1>3, <2>1, LenProperties
  <2> QED
    BY <1>1, <2>1, <2>2
<1>5. /\ log \o Requested(cs) \in Seq(Recs) /\ Len(log \o Requested(cs)) = Len(log) + Len(Requested(cs))
      /\ \A k \in 1..Len(log) : (log \o Requested(cs))[k] = log[k]
      /\ \A k \in 1..Len(Requested(cs)) : (log \o Requested(cs))[Len(log) + k] = Requested(cs)[k]
  <2> DEFINE more == Requested(cs)
  <2>1. more \in Seq(Recs)
    BY <1>4
  <2> HIDE DEF more
  <2>2. /\ log \o more \in Seq(Recs) /\ Len(log \o more) = Len(log) + Len(more)
        /\ \A k \in 1..Len(log) : (log \o more)[k] = log[k]
        /\ \A k \in 1..Len(more) : (log \o more)[Len(log) + k] = more[k]
    BY <2>1, ConcatFacts
  <2> QED
    BY <2>2 DEF more
<1>6. \A a \in 1..Len(cs) : (log \o Requested(cs))[Len(log) + a] = Record("requested", cs[a])
  BY <1>3, <1>4, <1>5
<1> QED
  BY <1>1, <1>4, <1>5, <1>6

(* One request is one record.                                                       *)
LEMMA OneRecord ==
    ASSUME NEW log \in Seq(Recs), NEW c \in Confs
    PROVE  /\ <<c>> \in Seq(Confs) /\ Len(<<c>>) = 1 /\ <<c>>[1] = c /\ DOMAIN <<c>> = {1}
           /\ Append(log, Record("requested", c)) = log \o Requested(<<c>>)
<1>1. <<c>> \in Seq(Confs) /\ Len(<<c>>) = 1 /\ <<c>>[1] = c /\ DOMAIN <<c>> = {1}
  OBVIOUS
<1>2. Record("requested", c) \in Recs
  BY DEF Record, Recs
<1>3. /\ Append(log, Record("requested", c)) \in Seq(Recs)
      /\ Len(Append(log, Record("requested", c))) = Len(log) + 1
      /\ \A l \in 1..Len(log) : Append(log, Record("requested", c))[l] = log[l]
      /\ Append(log, Record("requested", c))[Len(log) + 1] = Record("requested", c)
  BY <1>2, AppendProperties
<1>4. /\ log \o Requested(<<c>>) \in Seq(Recs) /\ Len(log \o Requested(<<c>>)) = Len(log) + 1 /\ Len(log) \in Nat
      /\ \A l \in 1..Len(log) : (log \o Requested(<<c>>))[l] = log[l]
      /\ (log \o Requested(<<c>>))[Len(log) + 1] = Record("requested", c)
  <2> DEFINE cs == <<c>>
  <2>1. cs \in Seq(Confs) /\ Len(cs) = 1 /\ cs[1] = c /\ 1 \in 1..Len(cs)
    BY <1>1
  <2> HIDE DEF cs
  <2>2. /\ log \o Requested(cs) \in Seq(Recs) /\ Len(log \o Requested(cs)) = Len(log) + Len(cs)
        /\ Len(log) \in Nat
        /\ \A l \in 1..Len(log) : (log \o Requested(cs))[l] = log[l]
        /\ \A a \in 1..Len(cs) : (log \o Requested(cs))[Len(log) + a] = Record("requested", cs[a])
    BY <2>1, AskingFacts
  <2>3. (log \o Requested(cs))[Len(log) + 1] = Record("requested", c)
    BY <2>1, <2>2
  <2>4. Len(log \o Requested(cs)) = Len(log) + 1
    BY <2>1, <2>2
  <2> QED
    BY <2>2, <2>3, <2>4 DEF cs
<1> DEFINE x == Append(log, Record("requested", c))
           y == log \o Requested(<<c>>)
<1> HIDE DEF x, y
<1>5. x = y
  <2>1. x \in Seq(Recs) /\ y \in Seq(Recs) /\ Len(x) = Len(y) /\ Len(x) = Len(log) + 1
    BY <1>3, <1>4 DEF x, y
  <2>2. \A l \in 1..(Len(log) + 1) : l \in 1..Len(log) \/ l = Len(log) + 1
    BY <1>4
  <2>3. \A l \in 1..Len(x) : x[l] = y[l]
    <3>1. \A l \in 1..Len(log) : x[l] = y[l]
      BY <1>3, <1>4 DEF x, y
    <3>2. x[Len(log) + 1] = y[Len(log) + 1]
      BY <1>3, <1>4 DEF x, y
    <3> QED
      BY <2>1, <2>2, <3>1, <3>2
  <2> QED
    BY <2>1, <2>3, SeqEqual
<1> QED
  BY <1>1, <1>5 DEF x, y

(* Confirmations are recorded, and queued unless the write was reported as failed.      *)
LEMMA AdoptStep ==
    ASSUME DelegationInv, DelegationType', Held(dStack', dTrace', dLog'), Acted',
           \A n \in 1..DMaxRequests : (dTrace[n] # <<>>) <=> (dTrace'[n] # <<>>),
           NEW cs \in Seq(Confs), dLog' = dLog \o Requested(cs), NumbersApart(cs),
           \A a \in 1..Len(cs) : /\ Permitted(cs[a]) /\ Unlogged(cs[a].r.n, dLog)
                                 /\ dTrace'[cs[a].r.n] # <<>> /\ Unsettled(dTrace'[cs[a].r.n]),
           \A l \in 1..Len(dLog) :
              Unsettled(dTrace[dLog[l].c.r.n]) => Unsettled(dTrace'[dLog[l].c.r.n]),
           \/ /\ dQueue' = dQueue \o cs /\ KeysApart(dQueue \o cs)
              /\ UNCHANGED dPartial /\ dFaults' \in {dFaults, dFaults + 1}
           \/ /\ dPartial' = TRUE /\ dFaults' > 0 /\ KeysApart(dQueue')
              /\ \A i \in 1..Len(dQueue') :
                    \/ i \in 1..Len(dQueue) /\ dQueue'[i] = dQueue[i]
                    \/ \E a \in 1..Len(cs) : dQueue'[i] = cs[a],
           dFaults' = 0 => \A n \in 1..DMaxRequests :
              Required(dTrace'[n]) <=> InQueue(n, dQueue') \/ InPending(n, dStack')
    PROVE  DelegationInv'
<1>1. DelegationType /\ LogKept /\ Numbered /\ LogSettled /\ LogAsked /\ QueueUnsettled
  BY DEF DelegationInv
<1>2. /\ Len(dQueue) \in Nat /\ Len(dLog) \in Nat /\ dLog \in Seq(Recs) /\ dQueue \in Seq(Confs)
      /\ \A i \in 1..Len(dLog) : dLog[i].c.r.n \in 1..DMaxRequests
      /\ \A i \in 1..Len(dQueue) : dQueue[i].r.n \in 1..DMaxRequests
      /\ \A i \in 1..Len(dQueue) : \E j \in 1..Len(dLog) : dLog[j] = Record("requested", dQueue[i])
                                                           /\ dLog[j].c = dQueue[i]
  BY <1>1, QueueLogged DEF DelegationType
<1>3. /\ Len(dLog') = Len(dLog) + Len(cs) /\ Len(cs) \in Nat
      /\ \A l \in 1..Len(dLog) : dLog'[l] = dLog[l]
      /\ \A a \in 1..Len(cs) : dLog'[Len(dLog) + a] = Record("requested", cs[a])
  BY <1>2, AskingFacts
<1>4. ASSUME NEW l \in 1..Len(dLog')
      PROVE  \/ l \in 1..Len(dLog) /\ dLog'[l] = dLog[l]
             \/ \E a \in 1..Len(cs) : l = Len(dLog) + a /\ dLog'[l].c = cs[a] /\ dLog'[l].is = "requested"
  <2>1. CASE l \in 1..Len(dLog)
    BY <1>3, <2>1
  <2>2. CASE l \notin 1..Len(dLog)
    <3>1. l - Len(dLog) \in 1..Len(cs) /\ l = Len(dLog) + (l - Len(dLog))
      BY <1>2, <1>3, <2>2
    <3>2. dLog'[l] = Record("requested", cs[l - Len(dLog)])
      BY <1>3, <3>1
    <3> QED
      BY <3>1, <3>2 DEF Record
  <2> QED
    BY <2>1, <2>2
<1>5. \A l \in 1..Len(dLog') : Permitted(dLog'[l].c)
  BY <1>1, <1>4 DEF LogKept
<1>6. ASSUME NEW i \in 1..Len(dLog'), NEW j \in 1..Len(dLog'),
             dLog'[i].is = "requested", dLog'[j].is = "requested", dLog'[i].c.r.n = dLog'[j].c.r.n
      PROVE  i = j
  <2>1. CASE i \in 1..Len(dLog) /\ j \in 1..Len(dLog)
    BY <1>1, <1>3, <1>6, <2>1 DEF LogKept
  <2>2. CASE i \in 1..Len(dLog) /\ j \notin 1..Len(dLog)
    <3>1. PICK a \in 1..Len(cs) : dLog'[j].c = cs[a]
      BY <1>4, <2>2
    <3>2. dLog[i].c.r.n # cs[a].r.n
      BY <2>2 DEF Unlogged
    <3> QED
      BY <1>3, <1>6, <2>2, <3>1, <3>2
  <2>3. CASE i \notin 1..Len(dLog) /\ j \in 1..Len(dLog)
    <3>1. PICK a \in 1..Len(cs) : dLog'[i].c = cs[a]
      BY <1>4, <2>3
    <3>2. dLog[j].c.r.n # cs[a].r.n
      BY <2>3 DEF Unlogged
    <3> QED
      BY <1>3, <1>6, <2>3, <3>1, <3>2
  <2>4. CASE i \notin 1..Len(dLog) /\ j \notin 1..Len(dLog)
    <3>1. PICK a \in 1..Len(cs) : i = Len(dLog) + a /\ dLog'[i].c = cs[a]
      BY <1>4, <2>4
    <3>2. PICK b \in 1..Len(cs) : j = Len(dLog) + b /\ dLog'[j].c = cs[b]
      BY <1>4, <2>4
    <3>3. a = b
      BY <1>6, <3>1, <3>2, LenProperties DEF NumbersApart
    <3> QED
      BY <3>1, <3>2, <3>3
  <2> QED
    BY <2>1, <2>2, <2>3, <2>4
<1>7. ASSUME dQueue' = dQueue \o cs
      PROVE  \A i \in 1..Len(dQueue') :
                \/ i \in 1..Len(dQueue) /\ dQueue'[i] = dQueue[i]
                \/ \E a \in 1..Len(cs) : dQueue'[i] = cs[a]
  <2>1. /\ Len(dQueue') = Len(dQueue) + Len(cs)
        /\ \A i \in 1..Len(dQueue) : dQueue'[i] = dQueue[i]
        /\ \A a \in 1..Len(cs) : dQueue'[Len(dQueue) + a] = cs[a]
    BY <1>2, <1>7, ConcatFacts
  <2> SUFFICES ASSUME NEW i \in 1..Len(dQueue'), i \notin 1..Len(dQueue)
               PROVE  \E a \in 1..Len(cs) : dQueue'[i] = cs[a]
    BY <2>1
  <2>2. i - Len(dQueue) \in 1..Len(cs) /\ i = Len(dQueue) + (i - Len(dQueue))
    BY <1>2, <1>3, <2>1
  <2> QED
    BY <2>1, <2>2
<1>8. \A i \in 1..Len(dQueue') :
         \/ i \in 1..Len(dQueue) /\ dQueue'[i] = dQueue[i]
         \/ \E a \in 1..Len(cs) : dQueue'[i] = cs[a]
  BY <1>7
<1>9. \A i \in 1..Len(dQueue') : \E j \in 1..Len(dLog') : dLog'[j] = Record("requested", dQueue'[i])
  <2> SUFFICES ASSUME NEW i \in 1..Len(dQueue')
               PROVE  \E j \in 1..Len(dLog') : dLog'[j] = Record("requested", dQueue'[i])
    OBVIOUS
  <2>1. CASE i \in 1..Len(dQueue) /\ dQueue'[i] = dQueue[i]
    <3>1. PICK j \in 1..Len(dLog) : dLog[j] = Record("requested", dQueue[i])
      BY <1>2, <2>1
    <3>2. j \in 1..Len(dLog')
      BY <1>2, <1>3
    <3> QED
      BY <1>3, <2>1, <3>1, <3>2
  <2>2. CASE \E a \in 1..Len(cs) : dQueue'[i] = cs[a]
    <3>1. PICK a \in 1..Len(cs) : dQueue'[i] = cs[a]
      BY <2>2
    <3>2. Len(dLog) + a \in 1..Len(dLog')
      BY <1>2, <1>3
    <3> QED
      BY <1>3, <3>1, <3>2
  <2> QED
    BY <1>8, <2>1, <2>2
<1>10. KeysApart(dQueue') /\ (~dPartial' => dQueue' = PendingAfter(dLog')) /\ (dPartial' => dFaults' > 0)
  <2>1. CASE dPartial' = TRUE /\ dFaults' > 0 /\ KeysApart(dQueue')
    BY <2>1
  <2>2. CASE dQueue' = dQueue \o cs /\ KeysApart(dQueue \o cs) /\ UNCHANGED dPartial
             /\ dFaults' \in {dFaults, dFaults + 1}
    <3>1. ASSUME ~dPartial PROVE dQueue' = PendingAfter(dLog')
      <4>1. dQueue = PendingAfter(dLog)
        BY <1>1, <3>1 DEF LogKept
      <4>2. PendingAfter(dLog \o Requested(cs)) = PendingAfter(dLog) \o cs
        BY <1>2, <2>2, <4>1, PendingBatch DEF Requested
      <4> QED
        BY <2>2, <4>1, <4>2
    <3>2. dPartial => dFaults > 0
      BY <1>1 DEF LogKept
    <3>3. dFaults \in Nat
      BY <1>1 DEF DelegationType
    <3>4. dFaults > 0 => dFaults' > 0
      BY <2>2, <3>3
    <3> QED
      BY <2>2, <3>1, <3>2, <3>4
  <2> QED
    BY <2>1, <2>2
<1>11. LogKept'
  BY <1>5, <1>6, <1>9, <1>10 DEF LogKept
<1>12. Numbered'
  BY <1>1, NumberedStays
<1>13. LogSettled' /\ LogAsked'
  <2>1. \A i \in 1..Len(dLog) : dTrace'[dLog[i].c.r.n] # <<>>
    BY <1>1, <1>2 DEF LogAsked
  <2>2. Len(dLog) <= Len(dLog') /\ Len(dLog') \in Nat
    BY <1>2, <1>3
  <2>3. \A i \in (Len(dLog) + 1)..Len(dLog') :
              /\ dTrace'[dLog'[i].c.r.n] # <<>>
              /\ dLog'[i].is = "requested" => Unsettled(dTrace'[dLog'[i].c.r.n])
    <3> SUFFICES ASSUME NEW i \in (Len(dLog) + 1)..Len(dLog')
                 PROVE  dTrace'[dLog'[i].c.r.n] # <<>> /\ Unsettled(dTrace'[dLog'[i].c.r.n])
      OBVIOUS
    <3>1. i \in 1..Len(dLog') /\ i \notin 1..Len(dLog)
      BY <1>2, <2>2
    <3>2. PICK a \in 1..Len(cs) : dLog'[i].c = cs[a]
      BY <1>4, <3>1
    <3> QED
      BY <3>2
  <2> QED
    BY <1>1, <1>2, <1>3, <2>1, <2>2, <2>3, LogGrows
<1>14. QueueUnsettled'
  <2> SUFFICES ASSUME NEW i \in 1..Len(dQueue') PROVE Unsettled(dTrace'[dQueue'[i].r.n])
    BY DEF QueueUnsettled
  <2>1. CASE i \in 1..Len(dQueue) /\ dQueue'[i] = dQueue[i]
    <3>1. PICK j \in 1..Len(dLog) : dLog[j].c = dQueue[i]
      BY <1>2, <2>1
    <3>2. Unsettled(dTrace[dQueue[i].r.n])
      BY <1>1, <2>1 DEF QueueUnsettled
    <3> QED
      BY <2>1, <3>1, <3>2
  <2>2. CASE \E a \in 1..Len(cs) : dQueue'[i] = cs[a]
    BY <2>2
  <2> QED
    BY <1>8, <2>1, <2>2
<1>15. WaitingKept'
  BY DEF WaitingKept
<1>16. Held(dStack, dTrace, dLog)'
  OBVIOUS
<1> QED
  BY <1>11, <1>12, <1>13, <1>14, <1>15, <1>16 DEF DelegationInv

(* A confirmation whose key nobody uses joins the queue.                               *)
LEMMA QueueJoined ==
    ASSUME NEW queue \in Seq(Confs), KeysApart(queue), NEW c \in Confs, ~IsDuplicate(queue, c)
    PROVE  /\ queue \o <<c>> = Append(queue, c) /\ KeysApart(queue \o <<c>>)
           /\ Append(queue, c) \in Seq(Confs)
           /\ \A m : InQueue(m, Append(queue, c)) <=> InQueue(m, queue) \/ m = c.r.n
<1> DEFINE more == Append(queue, c)
<1>1. queue \o <<c>> = more
  BY AppendIsConcat
<1>2. /\ more \in Seq(Confs) /\ Len(more) = Len(queue) + 1 /\ Len(queue) \in Nat
      /\ more[Len(queue) + 1] = c /\ \A k \in 1..Len(queue) : more[k] = queue[k]
  BY AppendProperties, LenProperties
<1> HIDE DEF more
<1>3. DOMAIN more = 1..(Len(queue) + 1) /\ DOMAIN queue = 1..Len(queue)
  BY <1>2, LenProperties
<1>4. \A k \in 1..(Len(queue) + 1) : k \in 1..Len(queue) \/ k = Len(queue) + 1
  BY <1>2
<1>5. \A k \in 1..Len(queue) : k \in 1..(Len(queue) + 1) /\ Key(queue[k]) # Key(c)
  BY <1>2, <1>3 DEF IsDuplicate
<1>6. KeysApart(more)
  BY <1>2, <1>3, <1>4, <1>5 DEF KeysApart
<1>7. Len(queue) + 1 \in 1..Len(more) /\ \A k \in 1..Len(queue) : k \in 1..Len(more)
  BY <1>2
<1>8. ASSUME NEW m PROVE InQueue(m, more) <=> InQueue(m, queue) \/ m = c.r.n
  <2>1. InQueue(m, more) => InQueue(m, queue) \/ m = c.r.n
    BY <1>2, <1>4 DEF InQueue
  <2>2. InQueue(m, queue) \/ m = c.r.n => InQueue(m, more)
    BY <1>2, <1>7 DEF InQueue
  <2> QED
    BY <2>1, <2>2
<1> QED
  BY <1>1, <1>2, <1>6, <1>8 DEF more

(* The session's prompt queues a confirmation, or the record of it cannot be written.   *)
LEMMA QueueStep ==
    ASSUME DelegationInv, QueueConfirmation
    PROVE  DelegationInv'
<1> DEFINE r == Decision.r
           n == r.n
           k == Len(dStack)
           c == Confirmation(r, Top.depth + 1, LineageForRequest(Top.lineage, r))
           required == <<"asked">> \o <<"required">>
<1>0. /\ Deciding /\ Decision.is = "confirm" /\ UNCHANGED <<dNow, dOps>>
      /\ \/ /\ dStack' = WithTop(Decided)
            /\ Traced(n, <<"duplicate">>)
            /\ UNCHANGED <<dQueue, dLog, dFaults, dPartial>>
         \/ /\ ~IsDuplicate(dQueue, c)
            /\ Written(Record("requested", c))
            /\ dQueue' = Append(dQueue, c)
            /\ Traced(n, <<"required">>)
            /\ dStack' = WithTop(Decided)
         \/ /\ ~IsDuplicate(dQueue, c)
            /\ WriteFails(Record("requested", c))
            /\ dStack' = WithTop(Abandoned)
            /\ UNCHANGED <<dQueue, dTrace>>
  BY DEF QueueConfirmation
<1>1. /\ DelegationType /\ Held(dStack, dTrace, dLog) /\ Acted /\ WaitingKept
      /\ dStack \in Seq(Frms) /\ dStack # <<>> /\ dQueue \in Seq(Confs) /\ dLog \in Seq(Recs)
      /\ dFaults \in Nat /\ KeysApart(dQueue)
  BY <1>0 DEF DelegationInv, DelegationType, Deciding, LogKept
<1>2. /\ n \in 1..DMaxRequests /\ Decided \in Frms /\ Abandoned \in Frms
      /\ dTrace[n] = <<"asked">> /\ ~InQueue(n, dQueue) /\ ~InPending(n, dStack)
      /\ Unlogged(n, dLog)
      /\ HeldAbove(Decided, dStack, k, {n}) /\ HeldAbove(Abandoned, dStack, k, {n})
      /\ HeldBelow(dStack, k, {n}, dTrace')
      /\ FrameSound(Decided) /\ FrameSound(Abandoned)
  BY <1>0, HeadFacts DEF Unlogged
<1>3. Top = dStack[k] /\ Top \in Frms
  BY <1>1, TopFacts
<1>4. /\ SameContext(Decided, Top) /\ Decided.pending = Top.pending
      /\ SameContext(Abandoned, Top) /\ Abandoned.pending = Top.pending
  BY <1>3 DEF Decided, Abandoned, SameContext, Frms
<1>5. c \in Confs /\ Permitted(c) /\ c.r.n = n
  BY <1>0, ConfirmationFacts
<1> HIDE DEF c
<1>6. /\ <<c>> \in Seq(Confs) /\ Len(<<c>>) = 1 /\ <<c>>[1] = c /\ DOMAIN <<c>> = {1}
      /\ Append(dLog, Record("requested", c)) = dLog \o Requested(<<c>>)
  BY <1>1, <1>5, OneRecord
<1>7. NumbersApart(<<c>>) /\ \A a \in 1..Len(<<c>>) : <<c>>[a] = c
  BY <1>6 DEF NumbersApart
<1>8. /\ <<"asked">> \in Seq(Words) /\ <<"asked">> # <<>> /\ Unsettled(<<"asked">>)
      /\ ActedOnce(<<"asked">>)
  BY AskedFacts
<1>9. /\ required \in Seq(Words) /\ required # <<>> /\ ActedOnce(required) /\ Required(required)
      /\ Unsettled(required)
  <2>1. "required" \in Words /\ "required" \notin {"started", "rejected", "completed", "failed"}
    BY DEF Words
  <2> QED
    BY <1>8, <2>1, EventFacts
<1> HIDE DEF n, k
<1>10. ASSUME dLog' = Append(dLog, Record("requested", c)),
              \A m \in (1..DMaxRequests) \ {n} : dTrace'[m] = dTrace[m]
       PROVE  Beyond({n}, dTrace, dTrace', dLog, dLog') /\ dLog' \in Seq(Recs)
  <2> DEFINE cs == <<c>>
  <2>0. cs \in Seq(Confs) /\ Len(cs) = 1 /\ cs[1] = c /\ dLog' = dLog \o Requested(cs)
    BY <1>6, <1>10
  <2> HIDE DEF cs
  <2>1. /\ dLog' \in Seq(Recs) /\ Len(dLog') = Len(dLog) + Len(cs) /\ Len(dLog) \in Nat
        /\ \A l \in 1..Len(dLog) : dLog'[l] = dLog[l]
        /\ \A a \in 1..Len(cs) : dLog'[Len(dLog) + a] = Record("requested", cs[a])
    BY <1>1, <2>0, AskingFacts
  <2>2. dLog'[Len(dLog) + 1].c.r.n = n
    BY <1>5, <2>0, <2>1 DEF Record
  <2>3. \A l \in (Len(dLog) + 1)..Len(dLog') : l = Len(dLog) + 1
    BY <2>0, <2>1
  <2> QED
    BY <1>10, <2>0, <2>1, <2>2, <2>3 DEF Beyond
<1>11. CASE dStack' = WithTop(Decided) /\ Traced(n, <<"duplicate">>)
            /\ UNCHANGED <<dQueue, dLog, dFaults, dPartial>>
  BY <1>0, <1>11, HeadSettled DEF n
<1>12. CASE /\ ~IsDuplicate(dQueue, c) /\ Written(Record("requested", c))
            /\ dQueue' = Append(dQueue, c) /\ Traced(n, <<"required">>)
            /\ dStack' = WithTop(Decided)
  <2>1. dLog' = Append(dLog, Record("requested", c)) /\ UNCHANGED <<dFaults, dPartial>>
    BY <1>12 DEF Written
  <2>2. /\ dTrace' \in [1..DMaxRequests -> Seq(Words)] /\ dTrace'[n] = required
        /\ \A m \in (1..DMaxRequests) \ {n} : dTrace'[m] = dTrace[m]
    <3>1. dTrace[n] \o <<"required">> = required
      BY <1>2
    <3> HIDE DEF required
    <3> QED
      BY <1>1, <1>2, <1>9, <1>12, <3>1, TracedFacts
  <2> HIDE DEF required
  <2>3. Beyond({n}, dTrace, dTrace', dLog, dLog') /\ dLog' \in Seq(Recs)
    BY <1>10, <2>1, <2>2
  <2>4. Topped(dStack, dStack', Decided) /\ Len(dStack') = k
    BY <1>1, <1>2, <1>12, WithTopFacts DEF k
  <2>5. Held(dStack', dTrace', dLog')
    <3>1. HeldAbove(Decided, dStack, Len(dStack'), {n}) /\ HeldBelow(dStack, Len(dStack'), {n}, dTrace')
      BY <1>2, <2>4
    <3>2. SameContext(Decided, dStack[Len(dStack')])
      BY <1>3, <1>4, <2>4
    <3> QED
      BY <1>1, <1>2, <2>3, <2>4, <3>1, <3>2, HeldStays
  <2>6. \A m : InPending(m, dStack') <=> InPending(m, dStack)
    BY <1>1, <1>3, <1>4, <2>4, PendingSame DEF k
  <2>7. /\ dQueue' = dQueue \o <<c>> /\ KeysApart(dQueue \o <<c>>) /\ dQueue' \in Seq(Confs)
        /\ \A m : InQueue(m, dQueue') <=> InQueue(m, dQueue) \/ m = c.r.n
    BY <1>1, <1>5, <1>12, QueueJoined
  <2>8. DelegationType'
    BY <1>0, <1>1, <2>1, <2>2, <2>3, <2>4, <2>7 DEF DelegationType, Topped
  <2>9. Acted'
    BY <1>1, <1>2, <1>9, <2>2 DEF Acted
  <2>10. \A m \in 1..DMaxRequests : (dTrace[m] # <<>>) <=> (dTrace'[m] # <<>>)
    BY <1>2, <1>8, <1>9, <2>2
  <2>11. \A l \in 1..Len(dLog) :
              Unsettled(dTrace[dLog[l].c.r.n]) => Unsettled(dTrace'[dLog[l].c.r.n])
    BY <1>2, <2>2, QueueLogged DEF Unlogged
  <2>12. dFaults' = 0 => \A m \in 1..DMaxRequests :
              Required(dTrace'[m]) <=> InQueue(m, dQueue') \/ InPending(m, dStack')
    <3> SUFFICES ASSUME dFaults = 0, NEW m \in 1..DMaxRequests
                 PROVE  Required(dTrace'[m]) <=> InQueue(m, dQueue') \/ InPending(m, dStack')
      BY <2>1
    <3>1. Required(dTrace[m]) <=> InQueue(m, dQueue) \/ InPending(m, dStack)
      BY <1>1 DEF WaitingKept
    <3>2. CASE m = n
      BY <1>5, <1>9, <2>2, <2>7, <3>2
    <3>3. CASE m # n
      BY <1>5, <2>2, <2>6, <2>7, <3>1, <3>3
    <3> QED
      BY <3>2, <3>3
  <2>13. dLog' = dLog \o Requested(<<c>>)
    BY <1>6, <2>1
  <2>14. \A a \in 1..Len(<<c>>) : /\ Permitted(<<c>>[a]) /\ Unlogged(<<c>>[a].r.n, dLog)
                 /\ dTrace'[<<c>>[a].r.n] # <<>> /\ Unsettled(dTrace'[<<c>>[a].r.n])
    BY <1>2, <1>5, <1>7, <1>9, <2>2
  <2> DEFINE cs == <<c>>
  <2> HIDE DEF cs
  <2>15. /\ cs \in Seq(Confs) /\ NumbersApart(cs) /\ dLog' = dLog \o Requested(cs)
         /\ dQueue' = dQueue \o cs /\ KeysApart(dQueue \o cs)
         /\ \A a \in 1..Len(cs) : /\ Permitted(cs[a]) /\ Unlogged(cs[a].r.n, dLog)
                 /\ dTrace'[cs[a].r.n] # <<>> /\ Unsettled(dTrace'[cs[a].r.n])
    BY <1>6, <1>7, <2>7, <2>13, <2>14 DEF cs
  <2> QED
    BY <2>1, <2>5, <2>8, <2>9, <2>10, <2>11, <2>12, <2>15, AdoptStep
<1>13. CASE /\ WriteFails(Record("requested", c)) /\ dStack' = WithTop(Abandoned)
            /\ UNCHANGED <<dQueue, dTrace>>
  <2>1. /\ dFaults' = dFaults + 1 /\ dFaults' \in Nat /\ dFaults' # 0 /\ dFaults' > 0
        /\ \/ dLog' = dLog /\ UNCHANGED dPartial
           \/ dLog' = Append(dLog, Record("requested", c)) /\ dPartial' = TRUE
    BY <1>1, <1>13 DEF WriteFails
  <2>2. \A m \in (1..DMaxRequests) \ {n} : dTrace'[m] = dTrace[m]
    BY <1>13
  <2>3. Topped(dStack, dStack', Abandoned) /\ Len(dStack') = k
    BY <1>1, <1>2, <1>13, WithTopFacts DEF k
  <2>4. Beyond({n}, dTrace, dTrace', dLog, dLog') /\ dLog' \in Seq(Recs)
    <3>1. CASE dLog' = dLog
      BY <1>1, <2>2, <3>1, BeyondTrace
    <3>2. CASE dLog' = Append(dLog, Record("requested", c))
      BY <1>10, <2>2, <3>2
    <3> QED
      BY <2>1, <3>1, <3>2
  <2>5. Held(dStack', dTrace', dLog')
    <3>1. HeldAbove(Abandoned, dStack, Len(dStack'), {n}) /\ HeldBelow(dStack, Len(dStack'), {n}, dTrace')
      BY <1>2, <2>3
    <3>2. SameContext(Abandoned, dStack[Len(dStack')])
      BY <1>3, <1>4, <2>3
    <3> QED
      BY <1>1, <1>2, <2>3, <2>4, <3>1, <3>2, HeldStays
  <2>6. DelegationType'
    BY <1>0, <1>1, <1>13, <2>1, <2>3, <2>4 DEF DelegationType, Topped
  <2>7. Acted' /\ \A m \in 1..DMaxRequests : (dTrace[m] # <<>>) <=> (dTrace'[m] # <<>>)
    BY <1>1, <1>13 DEF Acted
  <2>8. CASE dLog' = dLog /\ UNCHANGED dPartial
    BY <1>13, <2>1, <2>5, <2>6, <2>7, <2>8, QueueStays
  <2>9. CASE dLog' = Append(dLog, Record("requested", c)) /\ dPartial' = TRUE
    <3>1. dLog' = dLog \o Requested(<<c>>)
      BY <1>6, <2>9
    <3>2. \A a \in 1..Len(<<c>>) : /\ Permitted(<<c>>[a]) /\ Unlogged(<<c>>[a].r.n, dLog)
                   /\ dTrace'[<<c>>[a].r.n] # <<>> /\ Unsettled(dTrace'[<<c>>[a].r.n])
      BY <1>2, <1>5, <1>7, <1>8, <1>13
    <3>3. \A l \in 1..Len(dLog) :
                Unsettled(dTrace[dLog[l].c.r.n]) => Unsettled(dTrace'[dLog[l].c.r.n])
      BY <1>13
    <3> DEFINE cs == <<c>>
    <3> HIDE DEF cs
    <3>4. /\ cs \in Seq(Confs) /\ NumbersApart(cs) /\ dLog' = dLog \o Requested(cs)
          /\ \A a \in 1..Len(cs) : /\ Permitted(cs[a]) /\ Unlogged(cs[a].r.n, dLog)
                   /\ dTrace'[cs[a].r.n] # <<>> /\ Unsettled(dTrace'[cs[a].r.n])
      BY <1>6, <1>7, <3>1, <3>2 DEF cs
    <3>5. KeysApart(dQueue') /\ dQueue' = dQueue
      BY <1>13 DEF DelegationInv, LogKept
    <3> QED
      BY <1>13, <2>1, <2>5, <2>6, <2>7, <2>9, <3>3, <3>4, <3>5, AdoptStep
  <2> QED
    BY <2>1, <2>8, <2>9
<1> QED
  BY <1>0, <1>11, <1>12, <1>13

(* The confirmations of a context have their numbers.                                  *)
LEMMA RequestsFacts ==
    ASSUME NEW cs \in Seq(Confs)
    PROVE  /\ DOMAIN cs = 1..Len(cs) /\ Len(cs) \in Nat
           /\ \A m : m \in Requests(cs) <=> \E a \in 1..Len(cs) : cs[a].r.n = m
           /\ Requests(cs) \subseteq 1..DMaxRequests
<1>1. DOMAIN cs = 1..Len(cs) /\ Len(cs) \in Nat
  BY LenProperties
<1>2. \A a \in 1..Len(cs) : cs[a].r.n \in 1..DMaxRequests
  <2>1. \A a \in 1..Len(cs) : cs[a] \in Confs
    BY ElementOfSeq
  <2> QED
    BY <2>1 DEF Confs, Reqs
<1> QED
  BY <1>1, <1>2 DEF Requests

(* A child that is done, and its parent: what the child kept and its own request are     *)
(* held by nobody else.                                                                *)
LEMMA ParentFacts ==
    ASSUME DelegationInv, Returning
    PROVE  LET k == Len(dStack)
               n == Top.r.n
               both == Requests(Top.pending) \cup {n}
           IN /\ k \in Nat /\ k > 1 /\ k - 1 \in 1..k /\ Top = dStack[k] /\ Parent = dStack[k - 1]
              /\ Top \in Frms /\ Parent \in Frms /\ n \in 1..DMaxRequests
              /\ UnderWay(dTrace[n]) /\ ~Unsettled(dTrace[n])
              /\ ~InQueue(n, dQueue) /\ ~InPending(n, dStack)
              /\ Resumed(Parent) \in Frms /\ FrameSound(Resumed(Parent))
              /\ [Parent EXCEPT !.decisions = <<>>] \in Frms
              /\ FrameSound([Parent EXCEPT !.decisions = <<>>])
              /\ \A f, after : f.pending = Parent.pending
                            /\ (f.decisions = Parent.decisions \/ f.decisions = <<>>) =>
                    HeldAbove(f, dStack, k - 1, both) /\ HeldBelow(dStack, k - 1, both, after)
<1> DEFINE k == Len(dStack)
           n == Top.r.n
           both == Requests(Top.pending) \cup {n}
           ended == [Parent EXCEPT !.decisions = <<>>]
<1>1. /\ DelegationType /\ StackSound(dStack) /\ DecisionsApart(dStack) /\ PendingApart(dStack)
      /\ DecisionsAsked(dStack, dTrace) /\ PendingRequired(dStack, dTrace) /\ QueueUnsettled
      /\ ChildrenUnderWay(dStack, dTrace) /\ ChildrenApart(dStack) /\ dStack \in Seq(Frms)
  BY DEF DelegationInv, Held, DelegationType
<1>2. k \in Nat /\ k > 1 /\ k - 1 \in 1..k /\ k \in 2..k /\ k \in 1..k /\ k # k - 1 /\ dStack # <<>>
  <2>1. k \in Nat /\ k > 1
    BY <1>1, LenProperties DEF Returning
  <2>2. Len(<<>>) = 0
    OBVIOUS
  <2> QED
    BY <2>1, <2>2
<1>3. Top = dStack[k] /\ Parent = dStack[k - 1]
  BY <1>1, <1>2, TopFacts DEF Parent
<1>4. Top \in Frms /\ Parent \in Frms
  BY <1>1, <1>2, <1>3, ElementOfSeq
<1> HIDE DEF k
<1>5. Top.r \in Reqs
  BY <1>1, <1>2, <1>3 DEF StackSound, k
<1>6. n \in 1..DMaxRequests /\ UnderWay(dTrace[n])
  BY <1>1, <1>2, <1>3, <1>5 DEF ChildrenUnderWay, Reqs, k
<1>7. ~Unsettled(dTrace[n])
  BY <1>6 DEF UnderWay, Unsettled
<1>8. ~InQueue(n, dQueue) /\ ~InPending(n, dStack)
  BY <1>1, <1>7 DEF InQueue, InPending, QueueUnsettled, PendingRequired
<1>9. Top.pending \in Seq(Confs)
  BY <1>4 DEF Frms
<1>10. \A m : m \in Requests(Top.pending) <=> \E a \in DOMAIN Top.pending : Top.pending[a].r.n = m
  BY <1>9, RequestsFacts
<1>11. \A m \in both : \/ m = n
                       \/ Unsettled(dTrace[m]) /\ Required(dTrace[m])
  BY <1>1, <1>2, <1>3, <1>10 DEF PendingRequired, k
<1>12. \A m \in both : dTrace[m] # <<"asked">>
  <2>1. Unsettled(<<"asked">>) /\ ~Required(<<"asked">>)
    BY AskedFacts
  <2> QED
    BY <1>7, <1>11, <2>1
<1> HIDE DEF n, both
<1>13. ASSUME NEW i \in 1..k, NEW a \in DOMAIN dStack[i].decisions
       PROVE  dStack[i].decisions[a].r.n \notin both
  BY <1>1, <1>12 DEF DecisionsAsked, k
<1>14. ASSUME NEW i \in 1..(k - 1), NEW a \in DOMAIN dStack[i].pending
       PROVE  dStack[i].pending[a].r.n \notin both
  <2>1. i \in 1..k /\ i # k
    BY <1>2
  <2>2. dStack[i].pending[a].r.n # n
    BY <1>8, <2>1 DEF InPending, k
  <2>3. dStack[i].pending[a].r.n \notin Requests(Top.pending)
    BY <1>1, <1>2, <1>3, <1>10, <2>1 DEF PendingApart, k
  <2> QED
    BY <2>2, <2>3 DEF both
<1>15. ASSUME NEW i \in 2..(k - 1) PROVE dStack[i].r.n \notin both
  <2>1. i \in 2..k /\ i # k
    BY <1>2
  <2>2. dStack[i].r.n # n
    BY <1>1, <1>2, <1>3, <2>1 DEF ChildrenApart, k, n
  <2>3. UnderWay(dTrace[dStack[i].r.n])
    BY <1>1, <2>1 DEF ChildrenUnderWay, k
  <2>4. ~Unsettled(dTrace[dStack[i].r.n])
    BY <2>3 DEF UnderWay, Unsettled
  <2> QED
    BY <1>11, <2>2, <2>4
<1>16. FrameSound(Parent)
  BY <1>1, <1>2, <1>3 DEF StackSound, k
<1>17. ended \in Frms /\ FrameSound(ended)
  <2>1. <<>> \in Seq(Decs) /\ DOMAIN <<>> = {}
    OBVIOUS
  <2>2. /\ ended \in Frms /\ ended.at = Parent.at /\ ended.run = Parent.run /\ ended.decisions = <<>>
        /\ ended.pending = Parent.pending
    BY <1>4, <2>1 DEF Frms
  <2> QED
    BY <1>16, <2>1, <2>2 DEF FrameSound
<1> HIDE DEF ended
<1>18. Resumed(Parent) \in Frms /\ FrameSound(Resumed(Parent))
  BY <1>4, <1>16, <1>17 DEF Resumed, ended
<1>19. ASSUME NEW f, NEW after, f.pending = Parent.pending,
              f.decisions = Parent.decisions \/ f.decisions = <<>>
       PROVE  HeldAbove(f, dStack, k - 1, both) /\ HeldBelow(dStack, k - 1, both, after)
  <2>1. NumbersApart(Parent.decisions) /\ NumbersApart(Parent.pending)
    BY <1>1, <1>2, <1>3 DEF NumbersApart, DecisionsApart, PendingApart, k
  <2>2. DOMAIN <<>> = {}
    OBVIOUS
  <2>3. NumbersApart(f.decisions) /\ NumbersApart(f.pending)
    BY <1>19, <2>1, <2>2 DEF NumbersApart
  <2>4. k - 1 \in (k - 1)..k /\ k - 1 \in 1..(k - 1) /\ \A i \in 1..(k - 1) : i \in 1..k
    BY <1>2
  <2>5. ASSUME NEW a \in DOMAIN f.decisions
        PROVE  f.decisions[a].r.n \notin both
               /\ \E i \in (k - 1)..k : \E b \in DOMAIN dStack[i].decisions : f.decisions[a] = dStack[i].decisions[b]
    <3>1. f.decisions = dStack[k - 1].decisions
      BY <1>3, <1>19, <2>2, <2>5
    <3>2. a \in DOMAIN dStack[k - 1].decisions /\ f.decisions[a] = dStack[k - 1].decisions[a]
      BY <2>5, <3>1
    <3>3. dStack[k - 1].decisions[a].r.n \notin both
      BY <1>2, <1>13, <3>2
    <3> QED
      BY <2>4, <3>2, <3>3
  <2>6. ASSUME NEW a \in DOMAIN f.pending
        PROVE  f.pending[a].r.n \notin both
               /\ \E i \in (k - 1)..k : \E b \in DOMAIN dStack[i].pending : f.pending[a] = dStack[i].pending[b]
    <3>1. a \in DOMAIN dStack[k - 1].pending /\ f.pending[a] = dStack[k - 1].pending[a]
      BY <1>3, <1>19, <2>6
    <3>2. dStack[k - 1].pending[a].r.n \notin both
      BY <1>14, <2>4, <3>1
    <3> QED
      BY <2>4, <3>1, <3>2
  <2>7. HeldAbove(f, dStack, k - 1, both)
    BY <2>3, <2>5, <2>6 DEF HeldAbove, k
  <2>8. HeldBelow(dStack, k - 1, both, after)
    <3>1. \A i \in 1..((k - 1) - 1) : i \in 1..k /\ i \in 1..(k - 1)
      BY <1>2
    <3>2. \A i \in 1..((k - 1) - 1) :
             /\ \A a \in DOMAIN dStack[i].decisions : dStack[i].decisions[a].r.n \notin both
             /\ \A a \in DOMAIN dStack[i].pending : dStack[i].pending[a].r.n \notin both
      BY <1>13, <1>14, <3>1
    <3> QED
      BY <1>15, <3>2 DEF HeldBelow
  <2> QED
    BY <2>7, <2>8
<1>20. \A f, after : f.pending = Parent.pending
                     /\ (f.decisions = Parent.decisions \/ f.decisions = <<>>) =>
                    HeldAbove(f, dStack, k - 1, both) /\ HeldBelow(dStack, k - 1, both, after)
  BY <1>19
<1> QED
  BY <1>2, <1>3, <1>4, <1>6, <1>7, <1>8, <1>17, <1>18, <1>20 DEF k, n, both, ended

(* Fewer numbers are held by nobody a fortiori.                                          *)
LEMMA HeldFewer ==
    ASSUME NEW f, NEW s, NEW k, NEW N, NEW M \in SUBSET N, NEW after
    PROVE  /\ HeldAbove(f, s, k, N) => HeldAbove(f, s, k, M)
           /\ HeldBelow(s, k, N, after) => HeldBelow(s, k, M, after)
<1>1. \A m : m \notin N => m \notin M
  OBVIOUS
<1>2. HeldAbove(f, s, k, N) => HeldAbove(f, s, k, M)
  BY <1>1 DEF HeldAbove
<1>3. HeldBelow(s, k, N, after) => HeldBelow(s, k, M, after)
  BY <1>1 DEF HeldBelow
<1> QED
  BY <1>2, <1>3

(* A child returns to a context: its confirmations go to the parent.                      *)
LEMMA ReturnStep ==
    ASSUME DelegationInv, NEW kind, ReturnToContext(kind)
    PROVE  DelegationInv'
<1> DEFINE k == Len(dStack)
           n == Top.r.n
           both == Requests(Top.pending) \cup {n}
           p == Parent.pending
           q == Top.pending
           f == [Resumed(Parent) EXCEPT !.pending = @ \o Top.pending]
<1>0. /\ Returning /\ dStack' = ReplaceParent(f) /\ Traced(n, <<Outcome>>)
      /\ UNCHANGED <<dQueue, dLog, dNow, dOps, dFaults, dPartial>>
  BY DEF ReturnToContext
<1>1. /\ DelegationType /\ Held(dStack, dTrace, dLog) /\ Acted /\ WaitingKept
      /\ dStack \in Seq(Frms) /\ PendingApart(dStack)
      /\ dTrace \in [1..DMaxRequests -> Seq(Words)]
  BY DEF DelegationInv, DelegationType, Held
<1>2. /\ k \in Nat /\ k > 1 /\ k - 1 \in 1..k /\ Top = dStack[k] /\ Parent = dStack[k - 1]
      /\ Top \in Frms /\ Parent \in Frms /\ n \in 1..DMaxRequests
      /\ UnderWay(dTrace[n]) /\ ~Unsettled(dTrace[n])
      /\ ~InQueue(n, dQueue) /\ ~InPending(n, dStack)
      /\ Resumed(Parent) \in Frms /\ FrameSound(Resumed(Parent))
  BY <1>0, ParentFacts
<1>3. HeldAbove(Resumed(Parent), dStack, k - 1, both) /\ HeldBelow(dStack, k - 1, both, dTrace')
  <2>1. \A g, after : g.pending = Parent.pending
                      /\ (g.decisions = Parent.decisions \/ g.decisions = <<>>) =>
                    HeldAbove(g, dStack, k - 1, both) /\ HeldBelow(dStack, k - 1, both, after)
    BY <1>0, ParentFacts
  <2>2. /\ Resumed(Parent).pending = Parent.pending
        /\ Resumed(Parent).decisions = Parent.decisions \/ Resumed(Parent).decisions = <<>>
    BY <1>2 DEF Resumed, Frms
  <2> HIDE DEF both
  <2> QED
    BY <2>1, <2>2
<1>4. SameContext(Resumed(Parent), Parent) /\ Resumed(Parent).pending = p
  BY <1>2 DEF Resumed, SameContext, Frms
<1>5. p \in Seq(Confs) /\ q \in Seq(Confs)
  BY <1>2 DEF Frms
<1>6. /\ p \o q \in Seq(Confs) /\ Len(p \o q) = Len(p) + Len(q) /\ Len(p) \in Nat /\ Len(q) \in Nat
      /\ DOMAIN (p \o q) = 1..(Len(p) + Len(q)) /\ DOMAIN p = 1..Len(p) /\ DOMAIN q = 1..Len(q)
      /\ \A a \in 1..Len(p) : (p \o q)[a] = p[a]
      /\ \A a \in 1..Len(q) : (p \o q)[Len(p) + a] = q[a]
  <2> HIDE DEF p, q
  <2>1. /\ p \o q \in Seq(Confs) /\ Len(p \o q) = Len(p) + Len(q)
        /\ \A a \in 1..Len(p) : (p \o q)[a] = p[a]
        /\ \A a \in 1..Len(q) : (p \o q)[Len(p) + a] = q[a]
    BY <1>5, ConcatFacts
  <2> QED
    BY <1>5, <2>1, LenProperties
<1>7. /\ f.pending = p \o q /\ f.decisions = Resumed(Parent).decisions /\ f.at = Resumed(Parent).at
      /\ f.run = Resumed(Parent).run /\ f.depth = Resumed(Parent).depth
      /\ f.lineage = Resumed(Parent).lineage /\ SameContext(f, Parent) /\ f \in Frms
  <2>1. SameContext(f, Resumed(Parent)) /\ f.pending = Resumed(Parent).pending \o q
    BY <1>2 DEF SameContext, Frms
  <2>2. f \in Frms
    BY ZenonT(60), <1>2, <1>4, <1>6 DEF Frms
  <2>3. /\ f.decisions = Resumed(Parent).decisions /\ f.at = Resumed(Parent).at
        /\ f.run = Resumed(Parent).run /\ f.depth = Resumed(Parent).depth
        /\ f.lineage = Resumed(Parent).lineage
    BY <1>2 DEF Frms
  <2> QED
    BY <1>4, <2>1, <2>2, <2>3 DEF SameContext
<1>8. StackSound(dStack) /\ k \in 1..k
  BY <1>1, <1>2 DEF Held
<1>9. FrameSound(Top)
  BY <1>2, <1>8 DEF StackSound
<1> HIDE DEF f
<1>10. \A a \in DOMAIN (p \o q) : \/ a \in DOMAIN p /\ (p \o q)[a] = p[a]
                                  \/ \E b \in DOMAIN q : a = Len(p) + b /\ (p \o q)[a] = q[b]
  <2> HIDE DEF p, q
  <2> SUFFICES ASSUME NEW a \in DOMAIN (p \o q), a \notin 1..Len(p)
               PROVE  \E b \in DOMAIN q : a = Len(p) + b /\ (p \o q)[a] = q[b]
    BY <1>6
  <2>1. a - Len(p) \in 1..Len(q) /\ a = Len(p) + (a - Len(p))
    BY <1>6
  <2> QED
    BY <1>6, <2>1
<1>11. FrameSound(f)
  <2>1. \A a \in DOMAIN f.pending : Permitted(f.pending[a])
    <3>1. (\A a \in DOMAIN p : Permitted(p[a])) /\ \A a \in DOMAIN q : Permitted(q[a])
      BY <1>2, <1>4, <1>9 DEF FrameSound
    <3> HIDE DEF p, q
    <3> QED
      BY <1>7, <1>10, <3>1
  <2> QED
    BY <1>2, <1>7, <2>1 DEF FrameSound
<1>12. HeldAbove(f, dStack, k - 1, {n}) /\ HeldBelow(dStack, k - 1, {n}, dTrace')
  <2>1. {n} \in SUBSET both
    OBVIOUS
  <2> HIDE DEF both
  <2>2. HeldAbove(Resumed(Parent), dStack, k - 1, {n}) /\ HeldBelow(dStack, k - 1, {n}, dTrace')
    BY <1>3, <2>1, HeldFewer
  <2>3. k \in (k - 1)..k /\ k - 1 \in (k - 1)..k /\ k - 1 \in 1..k /\ k \in 1..k /\ k # k - 1
    BY <1>2
  <2>4. \A a \in DOMAIN q : q[a].r.n # n
    BY <1>2, <2>3 DEF InPending
  <2>5. \A a \in DOMAIN p : p[a].r.n # n
    BY <1>2, <2>3 DEF InPending
  <2>6. /\ NumbersApart(p) /\ NumbersApart(q)
        /\ \A a \in DOMAIN p, b \in DOMAIN q : p[a].r.n # q[b].r.n
    BY SMTT(30), <1>1, <1>2, <2>3 DEF NumbersApart, PendingApart
  <2>7. \A a \in DOMAIN p : \E i \in (k - 1)..k : \E b \in DOMAIN dStack[i].pending : p[a] = dStack[i].pending[b]
    BY <1>2, <2>3
  <2>8. \A a \in DOMAIN q : \E i \in (k - 1)..k : \E b \in DOMAIN dStack[i].pending : q[a] = dStack[i].pending[b]
    BY <1>2, <2>3
  <2> HIDE DEF p, q, k, n
  <2>9. NumbersApart(p \o q)
    <3> SUFFICES ASSUME NEW a \in DOMAIN (p \o q), NEW b \in DOMAIN (p \o q),
                        (p \o q)[a].r.n = (p \o q)[b].r.n
                 PROVE  a = b
      BY DEF NumbersApart
    <3>1. CASE a \in DOMAIN p /\ b \in DOMAIN p
      BY <1>6, <2>6, <3>1 DEF NumbersApart
    <3>2. CASE a \in DOMAIN p /\ b \notin DOMAIN p
      BY <1>6, <1>10, <2>6, <3>2
    <3>3. CASE a \notin DOMAIN p /\ b \in DOMAIN p
      BY <1>6, <1>10, <2>6, <3>3
    <3>4. CASE a \notin DOMAIN p /\ b \notin DOMAIN p
      <4>1. PICK c \in DOMAIN q : a = Len(p) + c /\ (p \o q)[a] = q[c]
        BY <1>10, <3>4
      <4>2. PICK d \in DOMAIN q : b = Len(p) + d /\ (p \o q)[b] = q[d]
        BY <1>10, <3>4
      <4>3. c = d
        BY <2>6, <4>1, <4>2 DEF NumbersApart
      <4> QED
        BY <4>1, <4>2, <4>3
    <3> QED
      BY <3>1, <3>2, <3>3, <3>4
  <2>10. \A a \in DOMAIN f.pending : f.pending[a].r.n \notin {n}
            /\ \E i \in (k - 1)..k : \E b \in DOMAIN dStack[i].pending : f.pending[a] = dStack[i].pending[b]
    <3> SUFFICES ASSUME NEW a \in DOMAIN (p \o q)
                 PROVE  (p \o q)[a].r.n # n
                   /\ \E i \in (k - 1)..k : \E b \in DOMAIN dStack[i].pending : (p \o q)[a] = dStack[i].pending[b]
      BY <1>7
    <3>1. CASE a \in DOMAIN p /\ (p \o q)[a] = p[a]
      BY <2>5, <2>7, <3>1
    <3>2. CASE \E b \in DOMAIN q : (p \o q)[a] = q[b]
      BY <2>4, <2>8, <3>2
    <3> QED
      BY <1>10, <3>1, <3>2
  <2>11. HeldAbove(f, dStack, k - 1, {n})
    BY <1>7, <2>2, <2>9, <2>10 DEF HeldAbove, k
  <2> QED
    BY <2>2, <2>11
<1>13. Topped(dStack, dStack', f) /\ Len(dStack') = k - 1
  BY <1>0, <1>1, <1>2, <1>7, ReplaceParentFacts
<1>14. /\ dStack' \in Seq(Frms) /\ dStack'[k - 1] = f /\ \A i \in 1..((k - 1) - 1) : dStack'[i] = dStack[i]
  BY <1>13 DEF Topped
<1>15. /\ Append(dTrace[n], Outcome) \in Seq(Words) /\ Append(dTrace[n], Outcome) # <<>>
       /\ dTrace[n] \o <<Outcome>> = Append(dTrace[n], Outcome)
       /\ ~Required(Append(dTrace[n], Outcome)) /\ ActedOnce(Append(dTrace[n], Outcome))
  <2>1. Outcome \in {"completed", "failed"} /\ Outcome \in Words /\ Outcome # "required"
    BY DEF Outcome, Words
  <2>2. dTrace[n] \in Seq(Words) /\ ActedOnce(dTrace[n])
    BY <1>1, <1>2 DEF Acted
  <2> QED
    BY <1>2, <2>1, <2>2, EventFacts
<1> HIDE DEF n, k, both
<1>16. /\ dTrace' \in [1..DMaxRequests -> Seq(Words)] /\ dTrace'[n] = Append(dTrace[n], Outcome)
       /\ \A m \in (1..DMaxRequests) \ {n} : dTrace'[m] = dTrace[m]
  BY <1>0, <1>1, <1>2, <1>15, TracedFacts
<1>17. Beyond({n}, dTrace, dTrace', dLog, dLog')
  BY <1>0, <1>1, <1>16, BeyondTrace
<1>18. Held(dStack', dTrace', dLog)
  <2>1. HeldAbove(f, dStack, Len(dStack'), {n}) /\ HeldBelow(dStack, Len(dStack'), {n}, dTrace')
    BY <1>12, <1>13
  <2>2. SameContext(f, dStack[Len(dStack')])
    BY <1>2, <1>7, <1>13
  <2>3. Held(dStack', dTrace', dLog')
    BY <1>1, <1>11, <1>13, <1>17, <2>1, <2>2, HeldStays
  <2> QED
    BY <1>0, <2>3
<1>19. ASSUME NEW m PROVE InPending(m, dStack') <=> InPending(m, dStack)
  <2>1. \A i \in 1..k : i = k \/ i = k - 1 \/ i \in 1..((k - 1) - 1)
    BY <1>2
  <2>2. \A i \in 1..(k - 1) : i = k - 1 \/ i \in 1..((k - 1) - 1)
    BY <1>2
  <2>3. \A i \in 1..((k - 1) - 1) : i \in 1..k /\ i \in 1..(k - 1)
    BY <1>2
  <2>4. InPending(m, dStack') => InPending(m, dStack)
    <3> SUFFICES ASSUME NEW i \in 1..(k - 1), NEW a \in DOMAIN dStack'[i].pending,
                        dStack'[i].pending[a].r.n = m
                 PROVE  \E j \in 1..k : \E b \in DOMAIN dStack[j].pending : dStack[j].pending[b].r.n = m
      BY <1>13 DEF InPending, k
    <3>1. CASE i \in 1..((k - 1) - 1)
      BY <1>14, <2>3, <3>1
    <3>2. CASE i = k - 1
      <4>1. a \in DOMAIN (p \o q) /\ (p \o q)[a].r.n = m
        BY <1>7, <1>14, <3>2
      <4>2. (\E b \in DOMAIN p : p[b].r.n = m) \/ (\E b \in DOMAIN q : q[b].r.n = m)
        <5> HIDE DEF p, q
        <5> QED
          BY <1>10, <4>1
      <4> QED
        BY <1>2, <4>2 DEF k
    <3> QED
      BY <2>2, <3>1, <3>2
  <2>5. InPending(m, dStack) => InPending(m, dStack')
    <3> SUFFICES ASSUME NEW i \in 1..k, NEW a \in DOMAIN dStack[i].pending, dStack[i].pending[a].r.n = m
                 PROVE  \E j \in 1..(k - 1) : \E b \in DOMAIN dStack'[j].pending : dStack'[j].pending[b].r.n = m
      BY <1>13 DEF InPending, k
    <3>1. CASE i \in 1..((k - 1) - 1)
      BY <1>14, <2>3, <3>1
    <3>2. CASE i \notin 1..((k - 1) - 1)
      <4>1. (\E b \in DOMAIN p : p[b].r.n = m) \/ (\E b \in DOMAIN q : q[b].r.n = m)
        BY <1>2, <2>1, <3>2 DEF k
      <4>2. \E b \in DOMAIN (p \o q) : (p \o q)[b].r.n = m
        <5> HIDE DEF p, q
        <5>1. CASE \E b \in DOMAIN p : p[b].r.n = m
          <6>1. PICK b \in 1..Len(p) : p[b].r.n = m
            BY <1>6, <5>1
          <6>2. b \in 1..(Len(p) + Len(q)) /\ (p \o q)[b] = p[b]
            BY <1>6
          <6> QED
            BY <1>6, <6>1, <6>2
        <5>2. CASE \E b \in DOMAIN q : q[b].r.n = m
          <6>1. PICK b \in 1..Len(q) : q[b].r.n = m
            BY <1>6, <5>2
          <6>2. Len(p) + b \in 1..(Len(p) + Len(q)) /\ (p \o q)[Len(p) + b] = q[b]
            BY <1>6
          <6> QED
            BY <1>6, <6>1, <6>2
        <5> QED
          BY <4>1, <5>1, <5>2
      <4>3. k - 1 \in 1..(k - 1) /\ dStack'[k - 1].pending = p \o q
        <5> HIDE DEF p, q
        <5>1. k - 1 \in 1..(k - 1)
          BY <1>2
        <5>2. dStack'[k - 1].pending = p \o q
          BY <1>7, <1>14
        <5> QED
          BY <5>1, <5>2
      <4> QED
        BY <4>2, <4>3
    <3> QED
      BY <3>1, <3>2
  <2> QED
    BY <2>4, <2>5
<1>20. DelegationType'
  BY <1>0, <1>1, <1>14, <1>16 DEF DelegationType
<1>21. Acted'
  BY <1>1, <1>15, <1>16 DEF Acted
<1>22. \A m \in 1..DMaxRequests : (dTrace[m] # <<>>) <=> (dTrace'[m] # <<>>)
  <2>1. dTrace[n] # <<>>
    BY <1>2 DEF UnderWay
  <2> QED
    BY <1>15, <1>16, <2>1
<1>23. \A m \in 1..DMaxRequests :
          \/ Unsettled(dTrace[m]) => Unsettled(dTrace'[m])
          \/ \A l \in 1..Len(dLog) : dLog[l].c.r.n # m
  BY <1>2, <1>16
<1>24. dFaults' = 0 => \A m \in 1..DMaxRequests :
            Required(dTrace'[m]) <=> InQueue(m, dQueue) \/ InPending(m, dStack')
  <2> SUFFICES ASSUME dFaults = 0, NEW m \in 1..DMaxRequests
               PROVE  Required(dTrace'[m]) <=> InQueue(m, dQueue) \/ InPending(m, dStack')
    BY <1>0
  <2>1. CASE m = n
    BY <1>2, <1>15, <1>16, <1>19, <2>1
  <2>2. CASE m # n
    BY <1>1, <1>16, <1>19, <2>2 DEF WaitingKept
  <2> QED
    BY <2>1, <2>2
<1> QED
  BY <1>0, <1>18, <1>20, <1>21, <1>22, <1>23, <1>24, QueueStays

(* What a child kept is required, unsettled and known neither to the log nor to the queue; *)
(* what is adopted of it has numbers of its own.                                          *)
LEMMA ReturnedFacts ==
    ASSUME DelegationInv, Returning
    PROVE  LET q == Top.pending
               cs == Adopted(q)
           IN /\ q \in Seq(Confs) /\ cs \in Seq(Confs) /\ KeysApart(dQueue \o cs) /\ NumbersApart(cs)
              /\ Requests(cs) \subseteq Requests(q)
              /\ \A m \in Requests(q) : /\ Unlogged(m, dLog) /\ ~InQueue(m, dQueue)
                                        /\ Unsettled(dTrace[m]) /\ Required(dTrace[m])
                                        /\ m \in 1..DMaxRequests
              /\ \A a \in 1..Len(cs) : Permitted(cs[a]) /\ cs[a].r.n \in Requests(cs)
<1> DEFINE k == Len(dStack)
           q == Top.pending
           cs == Adopted(q)
<1>1. /\ DelegationType /\ StackSound(dStack) /\ PendingApart(dStack) /\ NotLogged(dStack, dLog)
      /\ PendingRequired(dStack, dTrace) /\ LogKept /\ dQueue \in Seq(Confs)
  BY DEF DelegationInv, Held, DelegationType
<1>2. k \in Nat /\ k \in 1..k /\ Top = dStack[k] /\ Top \in Frms
  <2>1. k \in Nat /\ k > 1 /\ Top = dStack[k] /\ Top \in Frms
    BY ParentFacts
  <2> QED
    BY <2>1
<1>3. q \in Seq(Confs)
  BY <1>2 DEF Frms
<1>4. FrameSound(Top)
  BY <1>1, <1>2 DEF StackSound
<1>5. /\ DOMAIN q = 1..Len(q) /\ Requests(q) \subseteq 1..DMaxRequests
      /\ \A m : m \in Requests(q) <=> \E a \in 1..Len(q) : q[a].r.n = m
  BY <1>3, RequestsFacts
<1>6. \A a \in 1..Len(q) : /\ Permitted(q[a]) /\ Unlogged(q[a].r.n, dLog)
                           /\ Unsettled(dTrace[q[a].r.n]) /\ Required(dTrace[q[a].r.n])
  <2>1. \A a \in 1..Len(q) : Permitted(q[a])
    BY <1>4, <1>5 DEF FrameSound
  <2>2. \A a \in 1..Len(q) : Unlogged(q[a].r.n, dLog)
    BY <1>1, <1>2, <1>5 DEF NotLogged, Unlogged
  <2>3. \A a \in 1..Len(q) : Unsettled(dTrace[q[a].r.n]) /\ Required(dTrace[q[a].r.n])
    BY <1>1, <1>2, <1>5 DEF PendingRequired
  <2> QED
    BY <2>1, <2>2, <2>3
<1>7. NumbersApart(q)
  BY <1>1, <1>2 DEF NumbersApart, PendingApart
<1>8. /\ cs \in Seq(Confs) /\ KeysApart(dQueue \o cs) /\ \A i \in 1..Len(cs) : Among(cs[i], q)
  BY <1>1, <1>3, AdoptedFacts DEF LogKept
<1> HIDE DEF q, cs, k
<1>9. \A i \in 1..Len(cs) : \E a \in 1..Len(q) : cs[i] = q[a]
  BY <1>5, <1>8 DEF Among
<1>10. /\ DOMAIN cs = 1..Len(cs) /\ Len(cs) \in Nat
       /\ \A m : m \in Requests(cs) <=> \E a \in 1..Len(cs) : cs[a].r.n = m
  BY <1>8, RequestsFacts
<1>11. Requests(cs) \subseteq Requests(q)
  BY <1>5, <1>9, <1>10
<1>12. NumbersApart(cs)
  <2> SUFFICES ASSUME NEW i \in 1..Len(cs), NEW j \in 1..Len(cs), cs[i].r.n = cs[j].r.n
               PROVE  i = j
    BY <1>10 DEF NumbersApart
  <2>1. cs[i] = cs[j]
    <3>1. PICK a \in 1..Len(q) : cs[i] = q[a]
      BY <1>9
    <3>2. PICK b \in 1..Len(q) : cs[j] = q[b]
      BY <1>9
    <3>3. a = b
      BY <1>5, <1>7, <3>1, <3>2 DEF NumbersApart
    <3> QED
      BY <3>1, <3>2, <3>3
  <2>2. /\ Len(dQueue \o cs) = Len(dQueue) + Len(cs) /\ dQueue \o cs \in Seq(Confs) /\ Len(dQueue) \in Nat
        /\ \A a \in 1..Len(cs) : (dQueue \o cs)[Len(dQueue) + a] = cs[a]
    BY <1>1, <1>8, ConcatFacts, LenProperties
  <2>3. DOMAIN (dQueue \o cs) = 1..(Len(dQueue) + Len(cs))
    BY <2>2, LenProperties
  <2>4. Len(dQueue) + i \in DOMAIN (dQueue \o cs) /\ Len(dQueue) + j \in DOMAIN (dQueue \o cs)
    BY <1>10, <2>2, <2>3
  <2>5. Len(dQueue) + i = Len(dQueue) + j
    BY <1>8, <2>1, <2>2, <2>4 DEF KeysApart
  <2> QED
    BY <1>10, <2>2, <2>5
<1>13. \A m \in Requests(q) : /\ Unlogged(m, dLog) /\ Unsettled(dTrace[m]) /\ Required(dTrace[m])
                              /\ m \in 1..DMaxRequests
  BY <1>5, <1>6
<1>14. \A m \in Requests(q) : ~InQueue(m, dQueue)
  <2> SUFFICES ASSUME NEW m \in Requests(q), NEW i \in 1..Len(dQueue), dQueue[i].r.n = m PROVE FALSE
    BY DEF InQueue
  <2>1. PICK j \in 1..Len(dLog) : dLog[j].c = dQueue[i]
    BY QueueLogged
  <2> QED
    BY <1>13, <2>1 DEF Unlogged
<1>15. \A a \in 1..Len(cs) : Permitted(cs[a]) /\ cs[a].r.n \in Requests(cs)
  BY <1>6, <1>9, <1>10
<1> QED
  BY <1>3, <1>8, <1>11, <1>12, <1>13, <1>14, <1>15 DEF q, cs

(* The confirmations of a child that has left the stack do not wait in a context any more.  *)
LEMMA ReturnedPending ==
    ASSUME DelegationInv, Returning, NEW f \in Frms, f.pending = Parent.pending
    PROVE  \A m : InPending(m, ReplaceParent(f)) <=>
                     InPending(m, dStack) /\ m \notin Requests(Top.pending)
<1> DEFINE k == Len(dStack)
           t == ReplaceParent(f)
           q == Top.pending
<1>1. /\ DelegationType /\ PendingApart(dStack) /\ dStack \in Seq(Frms)
  BY DEF DelegationInv, Held, DelegationType
<1>2. /\ k \in Nat /\ k > 1 /\ k - 1 \in 1..k /\ Top = dStack[k] /\ Parent = dStack[k - 1]
      /\ Top \in Frms
  BY ParentFacts
<1>3. q \in Seq(Confs)
  BY <1>2 DEF Frms
<1>4. \A m : m \in Requests(q) <=> \E a \in DOMAIN q : q[a].r.n = m
  BY <1>3, RequestsFacts
<1>5. Topped(dStack, t, f) /\ Len(t) = k - 1
  BY <1>1, <1>2, ReplaceParentFacts
<1> HIDE DEF t, k, q
<1>6. t[k - 1] = f /\ \A i \in 1..((k - 1) - 1) : t[i] = dStack[i]
  BY <1>5 DEF Topped
<1>7. \A i \in 1..(k - 1) : t[i].pending = dStack[i].pending
  <2> SUFFICES ASSUME NEW i \in 1..(k - 1) PROVE t[i].pending = dStack[i].pending
    OBVIOUS
  <2>1. i = k - 1 \/ i \in 1..((k - 1) - 1)
    BY <1>2
  <2> QED
    BY <1>2, <1>6, <2>1
<1>8. (\A i \in 1..k : i = k \/ i \in 1..(k - 1)) /\ (\A i \in 1..(k - 1) : i \in 1..k /\ i # k) /\ k \in 1..k
  BY <1>2
<1>9. ASSUME NEW m, InPending(m, t) PROVE InPending(m, dStack) /\ m \notin Requests(q)
  <2>1. PICK i \in 1..(k - 1) : \E a \in DOMAIN dStack[i].pending : dStack[i].pending[a].r.n = m
    BY <1>5, <1>7, <1>9 DEF InPending
  <2>2. i \in 1..k /\ i # k
    BY <1>8
  <2>3. InPending(m, dStack)
    BY <2>1, <2>2 DEF InPending, k
  <2>4. m \notin Requests(q)
    <3> SUFFICES ASSUME m \in Requests(q) PROVE FALSE
      OBVIOUS
    <3>1. PICK a \in DOMAIN dStack[i].pending : dStack[i].pending[a].r.n = m
      BY <2>1
    <3>2. PICK b \in DOMAIN dStack[k].pending : dStack[k].pending[b].r.n = m
      BY <1>2, <1>4 DEF q
    <3>3. i = k
      BY SMTT(30), <1>1, <1>8, <2>2, <3>1, <3>2 DEF PendingApart, k
    <3> QED
      BY <2>2, <3>3
  <2> QED
    BY <2>3, <2>4
<1>10. ASSUME NEW m, InPending(m, dStack), m \notin Requests(q) PROVE InPending(m, t)
  <2>1. PICK i \in 1..k : \E a \in DOMAIN dStack[i].pending : dStack[i].pending[a].r.n = m
    BY <1>10 DEF InPending, k
  <2>2. i # k
    BY <1>2, <1>4, <1>10, <2>1 DEF q
  <2>3. i \in 1..(k - 1)
    BY <1>8, <2>2
  <2> QED
    BY <1>5, <1>7, <2>1, <2>3 DEF InPending
<1> QED
  BY <1>9, <1>10 DEF t, q

(* The front of what is adopted, behind the queue.                                          *)
LEMMA FrontAdopted ==
    ASSUME NEW queue \in Seq(Confs), NEW cs \in Seq(Confs), KeysApart(queue \o cs),
           NumbersApart(cs), NEW j \in 0..Len(cs)
    PROVE  LET kept == SubSeq(cs, 1, j)
           IN /\ kept \in Seq(Confs) /\ Len(kept) = j /\ NumbersApart(kept)
              /\ \A a \in 1..Len(kept) : a \in 1..Len(cs) /\ kept[a] = cs[a]
              /\ queue \o kept \in Seq(Confs) /\ KeysApart(queue \o kept)
              /\ \A i \in 1..Len(queue \o kept) :
                    \/ i \in 1..Len(queue) /\ (queue \o kept)[i] = queue[i]
                    \/ \E a \in 1..Len(kept) : (queue \o kept)[i] = kept[a]
<1> DEFINE kept == SubSeq(cs, 1, j)
           more == queue \o kept
           all  == queue \o cs
<1>1. Len(queue) \in Nat /\ Len(cs) \in Nat /\ DOMAIN cs = 1..Len(cs)
  BY LenProperties
<1>2. /\ kept \in Seq(Confs) /\ Len(kept) = j
      /\ \A a \in 1..j : a \in 1..Len(cs) /\ kept[a] = cs[a]
  <2>1. \A a \in 1..j : cs[a] \in Confs /\ a \in 1..Len(cs)
    BY <1>1, ElementOfSeq
  <2> QED
    BY SMTT(30), <1>1, <2>1
<1>3. /\ more \in Seq(Confs) /\ Len(more) = Len(queue) + j
      /\ \A i \in 1..Len(queue) : more[i] = queue[i]
      /\ \A a \in 1..j : more[Len(queue) + a] = kept[a]
  <2>1. ASSUME NEW t \in Seq(Confs), Len(t) = j
        PROVE  /\ queue \o t \in Seq(Confs) /\ Len(queue \o t) = Len(queue) + j
               /\ \A i \in 1..Len(queue) : (queue \o t)[i] = queue[i]
               /\ \A a \in 1..j : (queue \o t)[Len(queue) + a] = t[a]
    <3>1. /\ queue \o t \in Seq(Confs) /\ Len(queue \o t) = Len(queue) + Len(t)
          /\ \A i \in 1..Len(queue) : (queue \o t)[i] = queue[i]
          /\ \A a \in 1..Len(t) : (queue \o t)[Len(queue) + a] = t[a]
      BY ConcatFacts
    <3> QED
      BY <2>1, <3>1
  <2>2. kept \in Seq(Confs) /\ Len(kept) = j
    BY <1>2
  <2> HIDE DEF kept
  <2> QED
    BY Zenon, <2>1, <2>2
<1>4. /\ all \in Seq(Confs) /\ Len(all) = Len(queue) + Len(cs)
      /\ \A i \in 1..Len(queue) : all[i] = queue[i]
      /\ \A a \in 1..Len(cs) : all[Len(queue) + a] = cs[a]
  BY ConcatFacts
<1>5. KeysApart(all)
  OBVIOUS
<1> HIDE DEF kept, more, all
<1>6. DOMAIN kept = 1..j /\ DOMAIN more = 1..Len(more) /\ DOMAIN all = 1..Len(all)
  BY <1>2, <1>3, <1>4, LenProperties
<1>7. NumbersApart(kept)
  BY <1>1, <1>2, <1>6 DEF NumbersApart
<1>8. ASSUME NEW i \in 1..Len(more)
      PROVE  /\ i \in 1..Len(all) /\ more[i] = all[i]
             /\ \/ i \in 1..Len(queue) /\ more[i] = queue[i]
                \/ \E a \in 1..j : more[i] = kept[a]
  <2>1. CASE i \in 1..Len(queue)
    BY <1>1, <1>3, <1>4, <2>1
  <2>2. CASE i \notin 1..Len(queue)
    <3>1. i - Len(queue) \in 1..j /\ i = Len(queue) + (i - Len(queue))
      BY <1>1, <1>3, <2>2
    <3>2. i - Len(queue) \in 1..Len(cs) /\ i \in 1..Len(all)
      BY <1>1, <1>4, <3>1
    <3>3. more[i] = kept[i - Len(queue)] /\ all[i] = cs[i - Len(queue)]
      BY <1>3, <1>4, <3>1, <3>2
    <3> QED
      BY <1>2, <3>1, <3>2, <3>3
  <2> QED
    BY <2>1, <2>2
<1>9. KeysApart(more)
  BY <1>5, <1>6, <1>8 DEF KeysApart
<1> QED
  BY <1>2, <1>3, <1>7, <1>8, <1>9 DEF kept, more

(* The events of the end of a child.                                                        *)
LEMMA ReturnTraced ==
    ASSUME DelegationInv, Returning, TraceReturn(Adopted(Top.pending))
    PROVE  LET n == Top.r.n
               dups == Requests(Top.pending) \ Requests(Adopted(Top.pending))
           IN /\ dTrace' \in [1..DMaxRequests -> Seq(Words)] /\ Acted'
              /\ \A m \in (1..DMaxRequests) \ (dups \cup {n}) : dTrace'[m] = dTrace[m]
              /\ \A m \in dups \cup {n} : ~Required(dTrace'[m])
              /\ \A m \in 1..DMaxRequests : (dTrace[m] # <<>>) <=> (dTrace'[m] # <<>>)
              /\ \A m \in 1..DMaxRequests : Unsettled(dTrace[m]) => Unsettled(dTrace'[m])
<1> DEFINE n == Top.r.n
           dups == Requests(Top.pending) \ Requests(Adopted(Top.pending))
<1>1. dTrace \in [1..DMaxRequests -> Seq(Words)] /\ Acted
  BY DEF DelegationInv, DelegationType
<1>2. n \in 1..DMaxRequests /\ UnderWay(dTrace[n]) /\ ~Unsettled(dTrace[n])
  BY ParentFacts
<1>3. \A m \in dups : m \in 1..DMaxRequests /\ Unsettled(dTrace[m]) /\ Required(dTrace[m])
  BY ReturnedFacts
<1>4. dTrace' = [Noted(dups, "duplicate") EXCEPT ![n] = Append(@, Outcome)]
  BY DEF TraceReturn
<1> HIDE DEF n, dups
<1>5. n \notin dups
  BY <1>2, <1>3
<1>6. Noted(dups, "duplicate") = [m \in 1..DMaxRequests |-> IF m \in dups THEN Append(dTrace[m], "duplicate")
                                                            ELSE dTrace[m]]
  BY <1>1 DEF Noted
<1>7. /\ DOMAIN dTrace' = 1..DMaxRequests
      /\ dTrace' = [m \in 1..DMaxRequests |-> IF m = n THEN Append(dTrace[n], Outcome)
                              ELSE IF m \in dups THEN Append(dTrace[m], "duplicate") ELSE dTrace[m]]
  BY <1>2, <1>4, <1>5, <1>6
<1>8. /\ dTrace'[n] = Append(dTrace[n], Outcome)
      /\ \A m \in dups : dTrace'[m] = Append(dTrace[m], "duplicate")
      /\ \A m \in (1..DMaxRequests) \ (dups \cup {n}) : dTrace'[m] = dTrace[m]
  BY <1>2, <1>3, <1>5, <1>7
<1>9. /\ Append(dTrace[n], Outcome) \in Seq(Words) /\ Append(dTrace[n], Outcome) # <<>>
      /\ ~Required(Append(dTrace[n], Outcome)) /\ ActedOnce(Append(dTrace[n], Outcome))
  <2>1. Outcome \in {"completed", "failed"} /\ Outcome \in Words /\ Outcome # "required"
    BY DEF Outcome, Words
  <2>2. dTrace[n] \in Seq(Words) /\ ActedOnce(dTrace[n])
    BY <1>1, <1>2 DEF Acted
  <2> QED
    BY <1>2, <2>1, <2>2, EventFacts
<1>10. ASSUME NEW m \in dups
       PROVE  LET after == Append(dTrace[m], "duplicate")
              IN /\ after \in Seq(Words) /\ after # <<>> /\ ~Required(after) /\ ActedOnce(after)
                 /\ Unsettled(after)
  <2>1. "duplicate" \in Words /\ "duplicate" \notin {"started", "rejected", "completed", "failed"}
        /\ "duplicate" # "required"
    BY DEF Words
  <2>2. dTrace[m] \in Seq(Words) /\ ActedOnce(dTrace[m]) /\ Unsettled(dTrace[m])
    BY <1>1, <1>3 DEF Acted
  <2> QED
    BY <2>1, <2>2, EventFacts
<1>11. dTrace[n] # <<>> /\ \A m \in dups : dTrace[m] # <<>>
  BY <1>2, <1>3 DEF UnderWay, Required
<1>12. ASSUME NEW m \in 1..DMaxRequests
       PROVE  /\ dTrace'[m] \in Seq(Words) /\ ActedOnce(dTrace'[m])
              /\ (dTrace[m] # <<>>) <=> (dTrace'[m] # <<>>)
              /\ Unsettled(dTrace[m]) => Unsettled(dTrace'[m])
  <2>1. CASE m = n
    BY <1>2, <1>8, <1>9, <1>11, <2>1
  <2>2. CASE m \in dups
    BY <1>8, <1>10, <1>11, <2>2
  <2>3. CASE m \notin dups \cup {n}
    BY <1>1, <1>8, <2>3 DEF Acted
  <2> QED
    BY <2>1, <2>2, <2>3
<1>13. dTrace' \in [1..DMaxRequests -> Seq(Words)]
  <2>1. \A m \in 1..DMaxRequests : dTrace'[m] \in Seq(Words)
    BY <1>12
  <2>2. dTrace' = [m \in 1..DMaxRequests |-> dTrace'[m]]
    BY <1>7
  <2> QED
    BY <2>1, <2>2
<1>14. Acted'
  BY <1>12 DEF Acted
<1>15. \A m \in dups \cup {n} : ~Required(dTrace'[m])
  BY <1>8, <1>9, <1>10
<1> QED
  BY <1>8, <1>12, <1>13, <1>14, <1>15 DEF n, dups

(* A child returns to the session's operation: what it kept is recorded and queued, up to    *)
(* a write that fails.                                                                      *)
LEMMA SessionStep ==
    ASSUME DelegationInv, ReturnToSession
    PROVE  DelegationInv'
<1> DEFINE k == Len(dStack)
           n == Top.r.n
           q == Top.pending
           cs == Adopted(q)
           both == Requests(q) \cup {n}
           dups == Requests(q) \ Requests(cs)
           ended == [Parent EXCEPT !.decisions = <<>>]
<1>0. /\ Returning /\ TraceReturn(cs) /\ UNCHANGED <<dNow, dOps>>
      /\ \/ /\ Adopt(cs)
            /\ dStack' = ReplaceParent(Resumed(Parent))
            /\ UNCHANGED <<dFaults, dPartial>>
         \/ \E i \in DOMAIN cs : AdoptUpTo(cs, i) /\ dStack' = ReplaceParent(ended)
  BY DEF ReturnToSession
<1>1. /\ DelegationType /\ Held(dStack, dTrace, dLog) /\ WaitingKept /\ dFaults \in Nat
      /\ dStack \in Seq(Frms) /\ dQueue \in Seq(Confs) /\ dLog \in Seq(Recs)
  BY DEF DelegationInv, DelegationType
<1>2. /\ k \in Nat /\ k > 1 /\ k - 1 \in 1..k /\ Top = dStack[k] /\ Parent = dStack[k - 1]
      /\ Top \in Frms /\ Parent \in Frms /\ n \in 1..DMaxRequests
      /\ ~InQueue(n, dQueue) /\ ~InPending(n, dStack) /\ ~Unsettled(dTrace[n])
      /\ Resumed(Parent) \in Frms /\ FrameSound(Resumed(Parent))
      /\ ended \in Frms /\ FrameSound(ended)
      /\ \A g, after : g.pending = Parent.pending
                       /\ (g.decisions = Parent.decisions \/ g.decisions = <<>>) =>
                    HeldAbove(g, dStack, k - 1, both) /\ HeldBelow(dStack, k - 1, both, after)
  BY <1>0, ParentFacts
<1>3. /\ q \in Seq(Confs) /\ cs \in Seq(Confs) /\ KeysApart(dQueue \o cs) /\ NumbersApart(cs)
      /\ Requests(cs) \subseteq Requests(q)
      /\ \A m \in Requests(q) : /\ Unlogged(m, dLog) /\ ~InQueue(m, dQueue)
                                /\ Unsettled(dTrace[m]) /\ Required(dTrace[m]) /\ m \in 1..DMaxRequests
      /\ \A a \in 1..Len(cs) : Permitted(cs[a]) /\ cs[a].r.n \in Requests(cs)
  BY <1>0, ReturnedFacts
<1>4. /\ dTrace' \in [1..DMaxRequests -> Seq(Words)] /\ Acted'
      /\ \A m \in (1..DMaxRequests) \ (dups \cup {n}) : dTrace'[m] = dTrace[m]
      /\ \A m \in dups \cup {n} : ~Required(dTrace'[m])
      /\ \A m \in 1..DMaxRequests : (dTrace[m] # <<>>) <=> (dTrace'[m] # <<>>)
      /\ \A m \in 1..DMaxRequests : Unsettled(dTrace[m]) => Unsettled(dTrace'[m])
  BY <1>0, ReturnTraced
<1>5. /\ SameContext(Resumed(Parent), Parent) /\ Resumed(Parent).pending = Parent.pending
      /\ Resumed(Parent).decisions = Parent.decisions \/ Resumed(Parent).decisions = <<>>
      /\ SameContext(ended, Parent) /\ ended.pending = Parent.pending /\ ended.decisions = <<>>
  BY <1>2 DEF Resumed, SameContext, Frms
<1> HIDE DEF ended, cs, q, both, dups, n, k
<1>6. /\ HeldAbove(Resumed(Parent), dStack, k - 1, both) /\ HeldAbove(ended, dStack, k - 1, both)
      /\ HeldBelow(dStack, k - 1, both, dTrace')
  BY <1>2, <1>5
<1>7. \A m \in (1..DMaxRequests) \ both : dTrace'[m] = dTrace[m]
  BY <1>4 DEF both, dups
<1>8. \A l \in 1..Len(dLog) : Unsettled(dTrace[dLog[l].c.r.n]) => Unsettled(dTrace'[dLog[l].c.r.n])
  BY <1>4, QueueLogged
<1>9. \A a \in 1..Len(cs) :
         /\ Permitted(cs[a]) /\ Unlogged(cs[a].r.n, dLog)
         /\ dTrace'[cs[a].r.n] # <<>> /\ Unsettled(dTrace'[cs[a].r.n])
  <2> SUFFICES ASSUME NEW a \in 1..Len(cs)
               PROVE  /\ Permitted(cs[a]) /\ Unlogged(cs[a].r.n, dLog)
                      /\ dTrace'[cs[a].r.n] # <<>> /\ Unsettled(dTrace'[cs[a].r.n])
    OBVIOUS
  <2>1. cs[a].r.n \in Requests(q)
    BY <1>3
  <2>2. dTrace[cs[a].r.n] # <<>>
    BY <1>3, <2>1 DEF Required
  <2> QED
    BY <1>3, <1>4, <2>1, <2>2
<1>10. DOMAIN cs = 1..Len(cs) /\ Len(cs) \in Nat /\ \A m : m \in Requests(cs) <=> \E a \in 1..Len(cs) : cs[a].r.n = m
  BY <1>3, RequestsFacts
<1>11. ASSUME NEW some \in Seq(Confs), dLog' = dLog \o Requested(some),
              \A a \in 1..Len(some) : some[a].r.n \in Requests(cs)
       PROVE  Beyond(both, dTrace, dTrace', dLog, dLog') /\ dLog' \in Seq(Recs)
  <2>1. /\ dLog' \in Seq(Recs) /\ Len(dLog') = Len(dLog) + Len(some) /\ Len(dLog) \in Nat /\ Len(some) \in Nat
        /\ \A l \in 1..Len(dLog) : dLog'[l] = dLog[l]
        /\ \A a \in 1..Len(some) : dLog'[Len(dLog) + a] = Record("requested", some[a])
    BY <1>1, <1>11, AskingFacts
  <2>2. ASSUME NEW l \in (Len(dLog) + 1)..Len(dLog') PROVE dLog'[l].c.r.n \in both
    <3>1. l - Len(dLog) \in 1..Len(some) /\ l = Len(dLog) + (l - Len(dLog))
      BY <2>1
    <3>2. dLog'[l] = Record("requested", some[l - Len(dLog)])
      BY <2>1, <3>1
    <3>3. dLog'[l].c.r.n = some[l - Len(dLog)].r.n
      BY <3>2 DEF Record
    <3> QED
      BY <1>3, <1>11, <3>1, <3>3 DEF both
  <2> QED
    BY <1>7, <2>1, <2>2 DEF Beyond
<1>12. CASE Adopt(cs) /\ dStack' = ReplaceParent(Resumed(Parent)) /\ UNCHANGED <<dFaults, dPartial>>
  <2>1. dQueue' = dQueue \o cs /\ dLog' = dLog \o Requested(cs)
    BY <1>12 DEF Adopt
  <2>2. Beyond(both, dTrace, dTrace', dLog, dLog') /\ dLog' \in Seq(Recs)
    BY <1>3, <1>11, <2>1
  <2>3. Topped(dStack, dStack', Resumed(Parent)) /\ Len(dStack') = k - 1
    BY <1>1, <1>2, <1>12, ReplaceParentFacts DEF k
  <2>4. Held(dStack', dTrace', dLog')
    <3>1. HeldAbove(Resumed(Parent), dStack, Len(dStack'), both)
          /\ HeldBelow(dStack, Len(dStack'), both, dTrace')
      BY <1>6, <2>3
    <3>2. SameContext(Resumed(Parent), dStack[Len(dStack')])
      BY <1>2, <1>5, <2>3
    <3> QED
      BY <1>1, <1>2, <2>2, <2>3, <3>1, <3>2, HeldStays
  <2>5. /\ dQueue' \in Seq(Confs) /\ Len(dQueue') = Len(dQueue) + Len(cs) /\ Len(dQueue) \in Nat
        /\ \A i \in 1..Len(dQueue) : dQueue'[i] = dQueue[i]
        /\ \A a \in 1..Len(cs) : dQueue'[Len(dQueue) + a] = cs[a]
    BY <1>1, <1>3, <2>1, ConcatFacts, LenProperties
  <2>6. ASSUME NEW m PROVE InQueue(m, dQueue') <=> InQueue(m, dQueue) \/ m \in Requests(cs)
    <3>1. ASSUME NEW i \in 1..Len(dQueue'), dQueue'[i].r.n = m
          PROVE  InQueue(m, dQueue) \/ m \in Requests(cs)
      <4>1. CASE i \in 1..Len(dQueue)
        BY <2>5, <3>1, <4>1 DEF InQueue
      <4>2. CASE i \notin 1..Len(dQueue)
        <5>1. i - Len(dQueue) \in 1..Len(cs) /\ i = Len(dQueue) + (i - Len(dQueue))
          BY <1>10, <2>5, <4>2
        <5> QED
          BY ZenonT(60), <1>10, <2>5, <3>1, <5>1
      <4> QED
        BY <4>1, <4>2
    <3>2. ASSUME InQueue(m, dQueue) PROVE InQueue(m, dQueue')
      <4>1. \A i \in 1..Len(dQueue) : i \in 1..Len(dQueue')
        BY <1>10, <2>5
      <4> QED
        BY <2>5, <3>2, <4>1 DEF InQueue
    <3>3. ASSUME m \in Requests(cs) PROVE InQueue(m, dQueue')
      <4>1. PICK a \in 1..Len(cs) : cs[a].r.n = m
        BY <1>10, <3>3
      <4>2. Len(dQueue) + a \in 1..Len(dQueue')
        BY <1>10, <2>5
      <4> QED
        BY <2>5, <4>1, <4>2 DEF InQueue
    <3> QED
      BY <3>1, <3>2, <3>3 DEF InQueue
  <2>7. \A m : InPending(m, dStack') <=> InPending(m, dStack) /\ m \notin Requests(q)
    BY <1>0, <1>2, <1>5, <1>12, ReturnedPending DEF q
  <2>8. DelegationType'
    BY <1>0, <1>1, <1>4, <1>12, <2>2, <2>3, <2>5 DEF DelegationType, Topped
  <2>9. dFaults' = 0 => \A m \in 1..DMaxRequests :
              Required(dTrace'[m]) <=> InQueue(m, dQueue') \/ InPending(m, dStack')
    <3> SUFFICES ASSUME dFaults = 0, NEW m \in 1..DMaxRequests
                 PROVE  Required(dTrace'[m]) <=> InQueue(m, dQueue') \/ InPending(m, dStack')
      BY <1>12
    <3>1. CASE m = n
      <4>1. ~Required(dTrace'[m]) /\ ~InQueue(m, dQueue) /\ ~InPending(m, dStack')
        BY <1>2, <1>4, <2>7, <3>1
      <4>2. m \notin Requests(cs)
        BY <1>2, <1>3, <3>1
      <4> QED
        BY <2>6, <4>1, <4>2
    <3>2. CASE m \in dups
      <4>1. m \in Requests(q) /\ m \notin Requests(cs)
        BY <3>2 DEF dups
      <4> QED
        BY <1>3, <1>4, <2>6, <2>7, <3>2, <4>1
    <3>3. CASE m \in Requests(cs)
      <4>1. m \in Requests(q) /\ m # n /\ m \notin dups
        BY <1>2, <1>3, <3>3 DEF dups
      <4>2. dTrace'[m] = dTrace[m] /\ Required(dTrace[m])
        BY <1>3, <1>4, <4>1
      <4> QED
        BY <2>6, <3>3, <4>2
    <3>4. CASE m \notin Requests(q) /\ m # n
      <4>1. m \notin dups \cup {n} /\ m \notin Requests(cs)
        BY <1>3, <3>4 DEF dups
      <4> QED
        BY <1>1, <1>4, <2>6, <2>7, <3>4, <4>1 DEF WaitingKept
    <3>5. m = n \/ m \in dups \/ m \in Requests(cs) \/ (m \notin Requests(q) /\ m # n)
      BY DEF dups
    <3> QED
      BY <3>1, <3>2, <3>3, <3>4, <3>5
  <2>10. UNCHANGED <<dPartial, dFaults>>
    BY <1>12
  <2> QED
    BY <1>3, <1>4, <1>8, <1>9, <2>1, <2>4, <2>8, <2>9, <2>10, AdoptStep
<1>13. ASSUME NEW i \in DOMAIN cs, AdoptUpTo(cs, i), dStack' = ReplaceParent(ended)
       PROVE  DelegationInv'
  <2> DEFINE kept == SubSeq(cs, 1, i - 1)
             told == SubSeq(cs, 1, i)
  <2>1. /\ dFaults' = dFaults + 1 /\ dFaults' \in Nat /\ dFaults' # 0 /\ dFaults' > 0
        /\ dQueue' = dQueue \o kept
        /\ \/ dLog' = dLog \o Requested(kept) /\ UNCHANGED dPartial
           \/ dLog' = dLog \o Requested(told) /\ dPartial' = TRUE
    BY <1>1, <1>13 DEF AdoptUpTo
  <2>2. i \in 1..Len(cs) /\ i - 1 \in 0..Len(cs) /\ i \in 0..Len(cs) /\ Len(cs) \in Nat
    BY <1>10
  <2>3. /\ kept \in Seq(Confs) /\ Len(kept) = i - 1 /\ NumbersApart(kept)
        /\ \A a \in 1..Len(kept) : a \in 1..Len(cs) /\ kept[a] = cs[a]
        /\ dQueue \o kept \in Seq(Confs) /\ KeysApart(dQueue \o kept)
        /\ \A j \in 1..Len(dQueue \o kept) :
              \/ j \in 1..Len(dQueue) /\ (dQueue \o kept)[j] = dQueue[j]
              \/ \E a \in 1..Len(kept) : (dQueue \o kept)[j] = kept[a]
    BY <1>1, <1>3, <2>2, FrontAdopted
  <2>4. /\ told \in Seq(Confs) /\ Len(told) = i /\ NumbersApart(told)
        /\ \A a \in 1..Len(told) : a \in 1..Len(cs) /\ told[a] = cs[a]
    BY <1>1, <1>3, <2>2, FrontAdopted
  <2> HIDE DEF kept, told
  <2>5. Topped(dStack, dStack', ended) /\ Len(dStack') = k - 1
    BY <1>1, <1>2, <1>13, ReplaceParentFacts DEF k
  <2>6. Beyond(both, dTrace, dTrace', dLog, dLog') /\ dLog' \in Seq(Recs)
    <3>1. CASE dLog' = dLog \o Requested(kept)
      <4>1. \A a \in 1..Len(kept) : kept[a].r.n \in Requests(cs)
        BY <1>3, <2>3
      <4> QED
        BY <1>11, <2>3, <3>1, <4>1
    <3>2. CASE dLog' = dLog \o Requested(told)
      <4>1. \A a \in 1..Len(told) : told[a].r.n \in Requests(cs)
        BY <1>3, <2>4
      <4> QED
        BY <1>11, <2>4, <3>2, <4>1
    <3> QED
      BY <2>1, <3>1, <3>2
  <2>7. Held(dStack', dTrace', dLog')
    <3>1. HeldAbove(ended, dStack, Len(dStack'), both) /\ HeldBelow(dStack, Len(dStack'), both, dTrace')
      BY <1>6, <2>5
    <3>2. SameContext(ended, dStack[Len(dStack')])
      BY <1>2, <1>5, <2>5
    <3> QED
      BY <1>1, <1>2, <2>5, <2>6, <3>1, <3>2, HeldStays
  <2>8. dPartial' \in BOOLEAN /\ dQueue' \in Seq(Confs)
    BY <1>1, <2>1, <2>3 DEF DelegationType
  <2>9. DelegationType'
    BY <1>0, <1>1, <1>4, <2>1, <2>5, <2>6, <2>8 DEF DelegationType, Topped
  <2>10. CASE dLog' = dLog \o Requested(kept) /\ UNCHANGED dPartial
    <3>1. \A a \in 1..Len(kept) :
             /\ Permitted(kept[a]) /\ Unlogged(kept[a].r.n, dLog)
             /\ dTrace'[kept[a].r.n] # <<>> /\ Unsettled(dTrace'[kept[a].r.n])
      BY <1>9, <2>3
    <3>2. dFaults' \in {dFaults, dFaults + 1} /\ KeysApart(dQueue \o kept)
      BY <2>1, <2>3
    <3> QED
      BY <1>4, <1>8, <2>1, <2>3, <2>7, <2>9, <2>10, <3>1, <3>2, AdoptStep
  <2>11. CASE dLog' = dLog \o Requested(told) /\ dPartial' = TRUE
    <3>1. \A a \in 1..Len(told) :
             /\ Permitted(told[a]) /\ Unlogged(told[a].r.n, dLog)
             /\ dTrace'[told[a].r.n] # <<>> /\ Unsettled(dTrace'[told[a].r.n])
      BY <1>9, <2>4
    <3>2. \A a \in 1..Len(kept) : a \in 1..Len(told) /\ kept[a] = told[a]
      BY <2>2, <2>3, <2>4
    <3>3. /\ KeysApart(dQueue')
          /\ \A j \in 1..Len(dQueue') :
                \/ j \in 1..Len(dQueue) /\ dQueue'[j] = dQueue[j]
                \/ \E a \in 1..Len(told) : dQueue'[j] = told[a]
      BY <2>1, <2>3, <3>2
    <3> QED
      BY <1>4, <1>8, <2>1, <2>4, <2>7, <2>9, <2>11, <3>1, <3>3, AdoptStep
  <2> QED
    BY <2>1, <2>10, <2>11
<1> QED
  BY <1>0, <1>12, <1>13

(* A confirmation leaves the queue: it is the only one of its request and of its key.       *)
LEMMA DequeueFacts ==
    ASSUME DelegationInv, NEW i \in 1..Len(dQueue)
    PROVE  LET c == dQueue[i]
               rest == RemoveAt(dQueue, i)
           IN /\ c \in Confs /\ Permitted(c) /\ c.r.n \in 1..DMaxRequests /\ Unsettled(dTrace[c.r.n])
              /\ dTrace[c.r.n] # <<>>
              /\ \A l \in 1..Len(dLog) : dLog[l].is = "requested" /\ dLog[l].c.r.n = c.r.n => dLog[l].c = c
              /\ rest \in Seq(Confs) /\ KeysApart(rest)
              /\ \A k \in 1..Len(rest) : /\ rest[k].r.n # c.r.n
                                         /\ \E j \in 1..Len(dQueue) : rest[k] = dQueue[j]
              /\ \A m : InQueue(m, rest) <=> InQueue(m, dQueue) /\ m # c.r.n
              /\ \A e : e.is # "requested" /\ e.c = c => Resolve(dQueue, e) = rest
<1> DEFINE c == dQueue[i]
           rest == RemoveAt(dQueue, i)
           N == Len(dQueue)
<1>1. /\ DelegationType /\ LogKept /\ QueueUnsettled /\ LogAsked /\ dQueue \in Seq(Confs) /\ KeysApart(dQueue)
  BY DEF DelegationInv, DelegationType, LogKept
<1>2. /\ N \in Nat /\ c \in Confs /\ c.r.n \in 1..DMaxRequests /\ DOMAIN dQueue = 1..N
      /\ \A k \in 1..N : \E j \in 1..Len(dLog) : dLog[j] = Record("requested", dQueue[k])
                                                 /\ dLog[j].c = dQueue[k]
  BY <1>1, QueueLogged, LenProperties
<1>3. PICK j \in 1..Len(dLog) : dLog[j] = Record("requested", c) /\ dLog[j].c = c
  BY <1>2
<1>4. Permitted(c) /\ dTrace[c.r.n] # <<>> /\ Unsettled(dTrace[c.r.n])
  BY <1>1, <1>3 DEF LogKept, LogAsked, QueueUnsettled
<1>5. dLog[j].is = "requested"
  BY <1>3 DEF Record
<1>6. \A l \in 1..Len(dLog) : dLog[l].is = "requested" /\ dLog[l].c.r.n = c.r.n => dLog[l].c = c
  BY <1>1, <1>3, <1>5 DEF LogKept
<1>7. ASSUME NEW k \in 1..N, dQueue[k].r.n = c.r.n PROVE k = i
  <2>1. PICK l \in 1..Len(dLog) : dLog[l] = Record("requested", dQueue[k]) /\ dLog[l].c = dQueue[k]
    BY <1>2
  <2>2. dLog[l].is = "requested"
    BY <2>1 DEF Record
  <2>3. dQueue[k] = c
    BY <1>6, <1>7, <2>1, <2>2
  <2> QED
    BY <1>1, <1>2, <2>3 DEF KeysApart
<1>8. /\ rest \in Seq(Confs) /\ Len(rest) = N - 1
      /\ \A k \in 1..(N - 1) : rest[k] = IF k < i THEN dQueue[k] ELSE dQueue[k + 1]
  BY <1>1, RemoveFacts
<1> HIDE DEF c, rest, N
<1>9. i \in 1..N
  BY DEF N
<1>10. DOMAIN rest = 1..(N - 1) /\ \A k \in 1..(N - 1) : k \in 1..N /\ k + 1 \in 1..N
  BY <1>2, <1>8, LenProperties
<1>11. ASSUME NEW k \in 1..(N - 1)
       PROVE  \E l \in 1..N : l # i /\ rest[k] = dQueue[l] /\ l = IF k < i THEN k ELSE k + 1
  <2> DEFINE l == IF k < i THEN k ELSE k + 1
  <2>1. l \in 1..N /\ l # i
    BY <1>2, <1>9, <1>10
  <2>2. rest[k] = dQueue[l]
    BY <1>8
  <2> QED
    BY <2>1, <2>2
<1>12. KeysApart(rest)
  <2> SUFFICES ASSUME NEW a \in 1..(N - 1), NEW b \in 1..(N - 1), Key(rest[a]) = Key(rest[b])
               PROVE  a = b
    BY <1>10 DEF KeysApart
  <2>1. PICK l \in 1..N : rest[a] = dQueue[l] /\ l = IF a < i THEN a ELSE a + 1
    BY <1>11
  <2>2. PICK m \in 1..N : rest[b] = dQueue[m] /\ m = IF b < i THEN b ELSE b + 1
    BY <1>11
  <2>3. l = m
    BY <1>1, <1>2, <2>1, <2>2 DEF KeysApart
  <2> QED
    BY <1>2, <1>9, <2>1, <2>2, <2>3
<1>13. \A k \in 1..(N - 1) : rest[k].r.n # c.r.n /\ \E l \in 1..N : rest[k] = dQueue[l]
  BY <1>7, <1>11
<1>14. ASSUME NEW m PROVE InQueue(m, rest) <=> InQueue(m, dQueue) /\ m # c.r.n
  <2>1. InQueue(m, rest) => InQueue(m, dQueue) /\ m # c.r.n
    BY <1>8, <1>13 DEF InQueue, N
  <2>2. ASSUME InQueue(m, dQueue), m # c.r.n PROVE InQueue(m, rest)
    <3>1. PICK l \in 1..N : dQueue[l].r.n = m
      BY <2>2 DEF InQueue, N
    <3>2. l # i
      BY <2>2, <3>1 DEF c
    <3>3. CASE l < i
      <4>1. l \in 1..(N - 1)
        BY <1>2, <1>9, <3>3
      <4>2. rest[l] = dQueue[l]
        BY <1>8, <3>3, <4>1
      <4> QED
        BY <1>8, <3>1, <4>1, <4>2 DEF InQueue
    <3>4. CASE ~(l < i)
      <4>1. l - 1 \in 1..(N - 1) /\ ~(l - 1 < i) /\ (l - 1) + 1 = l
        BY <1>2, <1>9, <3>2, <3>4
      <4>2. rest[l - 1] = dQueue[l]
        BY <1>8, <4>1
      <4> QED
        BY <1>8, <3>1, <4>1, <4>2 DEF InQueue
    <3> QED
      BY <3>3, <3>4
  <2> QED
    BY <2>1, <2>2
<1>15. ASSUME NEW e, e.is # "requested", e.c = c PROVE Resolve(dQueue, e) = rest
  <2>1. Key(dQueue[i]) = Key(c)
    BY DEF c
  <2>2. Position(dQueue, Key(c)) # 0
    BY <1>1, <1>9, <2>1, PositionFacts DEF N
  <2>3. Position(dQueue, Key(c)) \in 1..N /\ Key(dQueue[Position(dQueue, Key(c))]) = Key(c)
    BY <1>1, <2>2, PositionFacts DEF N
  <2>4. Position(dQueue, Key(c)) = i
    BY <1>1, <1>2, <1>9, <2>1, <2>3 DEF KeysApart
  <2> QED
    BY <1>15, <2>2, <2>4 DEF Resolve, Dropped, rest
<1>16. \A e : e.is # "requested" /\ e.c = c => Resolve(dQueue, e) = rest
  BY <1>15
<1>17. \A k \in 1..Len(rest) : rest[k].r.n # c.r.n /\ \E l \in 1..N : rest[k] = dQueue[l]
  BY <1>8, <1>13
<1> QED
  BY <1>2, <1>4, <1>6, <1>8, <1>12, <1>14, <1>16, <1>17 DEF c, rest, N

(* A confirmation is answered in the log, and leaves the queue unless the write was          *)
(* reported as failed.                                                                      *)
LEMMA AnswerStep ==
    ASSUME DelegationInv, DelegationType', Held(dStack', dTrace', dLog'), Acted',
           NEW i \in 1..Len(dQueue), NEW is \in {"approved", "rejected"},
           dLog' = Append(dLog, Record(is, dQueue[i])),
           \A m \in (1..DMaxRequests) \ {dQueue[i].r.n} : dTrace'[m] = dTrace[m],
           dTrace'[dQueue[i].r.n] # <<>>,
           \/ dQueue' = RemoveAt(dQueue, i) /\ UNCHANGED <<dPartial, dFaults>>
           \/ /\ dQueue' = dQueue /\ dPartial' = TRUE /\ dFaults' > 0
              /\ dTrace'[dQueue[i].r.n] = dTrace[dQueue[i].r.n],
           dFaults' = 0 => \A m \in 1..DMaxRequests :
              Required(dTrace'[m]) <=> InQueue(m, dQueue') \/ InPending(m, dStack')
    PROVE  DelegationInv'
<1> DEFINE c == dQueue[i]
           n == c.r.n
           e == Record(is, c)
           rest == RemoveAt(dQueue, i)
           N == Len(dQueue)
           L == Len(dLog)
<1>1. DelegationType /\ LogKept /\ Numbered /\ LogSettled /\ LogAsked /\ QueueUnsettled
  BY DEF DelegationInv
<1>2. /\ N \in Nat /\ L \in Nat /\ dLog \in Seq(Recs) /\ dQueue \in Seq(Confs)
      /\ \A l \in 1..L : dLog[l].c.r.n \in 1..DMaxRequests
      /\ \A l \in 1..N : dQueue[l].r.n \in 1..DMaxRequests
      /\ \A l \in 1..N : \E j \in 1..L : dLog[j] = Record("requested", dQueue[l])
                                         /\ dLog[j].c = dQueue[l]
  BY <1>1, QueueLogged DEF DelegationType
<1>3. /\ c \in Confs /\ Permitted(c) /\ n \in 1..DMaxRequests /\ Unsettled(dTrace[n])
      /\ dTrace[n] # <<>>
      /\ \A l \in 1..L : dLog[l].is = "requested" /\ dLog[l].c.r.n = n => dLog[l].c = c
      /\ rest \in Seq(Confs) /\ KeysApart(rest)
      /\ \A k \in 1..Len(rest) : rest[k].r.n # n /\ \E j \in 1..N : rest[k] = dQueue[j]
      /\ \A x : x.is # "requested" /\ x.c = c => Resolve(dQueue, x) = rest
  BY DequeueFacts
<1>4. e \in Recs /\ e.is # "requested" /\ e.c = c
  BY <1>3 DEF Record, Recs
<1>5. dLog' = Append(dLog, e)
  OBVIOUS
<1> HIDE DEF e, c, rest
<1>6. /\ Len(dLog') = L + 1 /\ dLog'[L + 1] = e /\ \A l \in 1..L : dLog'[l] = dLog[l]
  BY <1>2, <1>4, <1>5, AppendProperties
<1> HIDE DEF n, N, L
<1>7. \A l \in 1..(L + 1) : l \in 1..L \/ l = L + 1
  BY <1>2
<1>8. \A l \in 1..Len(dLog') : Permitted(dLog'[l].c)
  BY <1>1, <1>3, <1>4, <1>6, <1>7 DEF LogKept, L
<1>9. \A k, j \in 1..Len(dLog') :
          dLog'[k].is = "requested" /\ dLog'[j].is = "requested" /\ dLog'[k].c.r.n = dLog'[j].c.r.n
             => k = j
  BY <1>1, <1>4, <1>6, <1>7 DEF LogKept, L
<1>10. \A k \in 1..Len(dQueue') :
          \/ \E j \in 1..N : dQueue'[k] = dQueue[j] /\ dQueue[j].r.n # n
          \/ dQueue' = dQueue /\ dTrace'[n] = dTrace[n]
  <2>1. \A k \in 1..Len(rest) : \E j \in 1..N : rest[k] = dQueue[j] /\ dQueue[j].r.n # n
    BY <1>3
  <2>2. dQueue' = rest \/ (dQueue' = dQueue /\ dTrace'[n] = dTrace[n])
    BY DEF rest, n, c
  <2> QED
    BY <2>1, <2>2
<1>11. \A k \in 1..Len(dQueue') : \E j \in 1..N : dQueue'[k] = dQueue[j]
  BY <1>10 DEF N
<1>12. \A k \in 1..Len(dQueue') : \E j \in 1..Len(dLog') : dLog'[j] = Record("requested", dQueue'[k])
  <2>1. \A j \in 1..L : j \in 1..Len(dLog')
    BY <1>2, <1>6
  <2> QED
    BY <1>2, <1>6, <1>11, <2>1
<1>13. KeysApart(dQueue') /\ (~dPartial' => dQueue' = PendingAfter(dLog')) /\ (dPartial' => dFaults' > 0)
  <2>1. CASE dQueue' = dQueue /\ dPartial' = TRUE /\ dFaults' > 0
    BY <1>1, <2>1 DEF LogKept
  <2>2. CASE dQueue' = rest /\ UNCHANGED <<dPartial, dFaults>>
    <3>1. ASSUME ~dPartial PROVE dQueue' = PendingAfter(dLog')
      <4>1. dQueue = PendingAfter(dLog)
        BY <1>1, <3>1 DEF LogKept
      <4>2. PendingAfter(Append(dLog, e)) = Resolve(PendingAfter(dLog), e)
        BY <1>2, <1>4, PendingAppend
      <4>3. Resolve(dQueue, e) = rest
        BY <1>3, <1>4
      <4> QED
        BY <1>5, <2>2, <4>1, <4>2, <4>3
    <3> QED
      BY <1>1, <1>3, <2>2, <3>1 DEF LogKept
  <2> QED
    BY <2>1, <2>2 DEF rest
<1>14. LogKept'
  BY <1>8, <1>9, <1>12, <1>13 DEF LogKept
<1>15. \A m \in 1..DMaxRequests : (dTrace[m] # <<>>) <=> (dTrace'[m] # <<>>)
  BY <1>3 DEF n, c
<1>16. Numbered'
  BY <1>1, <1>15, NumberedStays
<1>17. LogSettled' /\ LogAsked'
  <2>1. \A l \in 1..L : dTrace'[dLog[l].c.r.n] # <<>>
    BY <1>1, <1>2, <1>15 DEF LogAsked, L
  <2>2. L <= Len(dLog') /\ Len(dLog') \in Nat
    BY <1>2, <1>6
  <2>3. ASSUME NEW l \in 1..L
        PROVE  \/ Unsettled(dTrace[dLog[l].c.r.n]) => Unsettled(dTrace'[dLog[l].c.r.n])
               \/ \E j \in (L + 1)..Len(dLog') :
                     dLog'[j].is # "requested" /\ Key(dLog'[j].c) = Key(dLog[l].c)
               \/ dLog[l].is # "requested"
    <3>1. CASE dLog[l].c.r.n # n
      BY <1>2, <3>1 DEF n, c
    <3>2. CASE dLog[l].is = "requested" /\ dLog[l].c.r.n = n
      <4>1. L + 1 \in (L + 1)..Len(dLog')
        BY <1>2, <1>6
      <4>2. dLog'[L + 1].is # "requested" /\ Key(dLog'[L + 1].c) = Key(dLog[l].c)
        BY <1>3, <1>4, <1>6, <3>2
      <4> QED
        BY <4>1, <4>2
    <3> QED
      BY <3>1, <3>2
  <2>4. \A l \in (L + 1)..Len(dLog') :
              /\ dTrace'[dLog'[l].c.r.n] # <<>>
              /\ dLog'[l].is = "requested" => Unsettled(dTrace'[dLog'[l].c.r.n])
    <3>1. \A l \in (L + 1)..Len(dLog') : l = L + 1
      BY <1>2, <1>6
    <3>2. dTrace'[n] # <<>>
      BY DEF n, c
    <3> QED
      BY <1>4, <1>6, <3>1, <3>2 DEF n
  <2> QED
    BY <1>1, <1>2, <1>6, <2>1, <2>2, <2>3, <2>4, LogGrows DEF L
<1>18. QueueUnsettled'
  <2> SUFFICES ASSUME NEW k \in 1..Len(dQueue') PROVE Unsettled(dTrace'[dQueue'[k].r.n])
    BY DEF QueueUnsettled
  <2>1. CASE \E j \in 1..N : dQueue'[k] = dQueue[j] /\ dQueue[j].r.n # n
    <3>1. PICK j \in 1..N : dQueue'[k] = dQueue[j] /\ dQueue[j].r.n # n
      BY <2>1
    <3>2. dQueue[j].r.n \in 1..DMaxRequests /\ Unsettled(dTrace[dQueue[j].r.n])
      BY <1>1, <1>2 DEF QueueUnsettled, N
    <3>3. dTrace'[dQueue[j].r.n] = dTrace[dQueue[j].r.n]
      BY <3>1, <3>2 DEF n, c
    <3> QED
      BY <3>1, <3>2, <3>3
  <2>2. CASE dQueue' = dQueue /\ dTrace'[n] = dTrace[n]
    <3>1. dQueue[k].r.n \in 1..DMaxRequests /\ Unsettled(dTrace[dQueue[k].r.n])
      BY <1>1, <1>2, <2>2 DEF QueueUnsettled, N
    <3>2. dTrace'[dQueue[k].r.n] = dTrace[dQueue[k].r.n]
      BY <2>2, <3>1 DEF n, c
    <3> QED
      BY <2>2, <3>1, <3>2
  <2> QED
    BY <1>10, <2>1, <2>2
<1>19. WaitingKept'
  BY DEF WaitingKept
<1>20. Held(dStack, dTrace, dLog)'
  OBVIOUS
<1> QED
  BY <1>14, <1>16, <1>17, <1>18, <1>19, <1>20 DEF DelegationInv

(* An answer whose write fails: the record may be in the log all the same.                   *)
LEMMA AnswerFails ==
    ASSUME DelegationInv, dStack = <<>>, dStack' = <<>>, NEW i \in 1..Len(dQueue),
           NEW is \in {"approved", "rejected"}, WriteFails(Record(is, dQueue[i])), dOps' \in Nat,
           UNCHANGED <<dQueue, dTrace, dNow>>
    PROVE  DelegationInv'
<1> DEFINE c == dQueue[i]
<1>1. /\ DelegationType /\ Acted /\ dFaults \in Nat /\ dLog \in Seq(Recs)
      /\ dTrace \in [1..DMaxRequests -> Seq(Words)] /\ dQueue \in Seq(Confs)
  BY DEF DelegationInv, DelegationType
<1>2. c \in Confs /\ c.r.n \in 1..DMaxRequests /\ dTrace[c.r.n] # <<>>
  BY DequeueFacts
<1> HIDE DEF c
<1>3. Record(is, c) \in Recs
  BY <1>2 DEF Record, Recs
<1>4. /\ dFaults' = dFaults + 1 /\ dFaults' \in Nat /\ dFaults' # 0 /\ dFaults' > 0
      /\ \/ dLog' = dLog /\ UNCHANGED dPartial
         \/ dLog' = Append(dLog, Record(is, c)) /\ dPartial' = TRUE
  BY <1>1 DEF WriteFails, c
<1>5. dStack' \in Seq(Frms) /\ Held(dStack', dTrace', dLog') /\ \A m : ~InPending(m, dStack')
  BY HeldNone
<1>6. dLog' \in Seq(Recs)
  BY <1>1, <1>3, <1>4, AppendProperties
<1>7. DelegationType'
  BY <1>1, <1>4, <1>5, <1>6 DEF DelegationType
<1>8. Acted' /\ \A m \in 1..DMaxRequests : (dTrace[m] # <<>>) <=> (dTrace'[m] # <<>>)
  BY <1>1 DEF Acted
<1>9. CASE dLog' = dLog /\ UNCHANGED dPartial
  BY <1>4, <1>5, <1>7, <1>8, <1>9, QueueStays
<1>10. CASE dLog' = Append(dLog, Record(is, c)) /\ dPartial' = TRUE
  BY <1>2, <1>4, <1>5, <1>7, <1>8, <1>10, AnswerStep DEF c
<1> QED
  BY <1>4, <1>9, <1>10

(* The user rejects a confirmation.                                                          *)
LEMMA RejectStep ==
    ASSUME DelegationInv, NEW i \in DOMAIN dQueue, RejectOperation(i)
    PROVE  DelegationInv'
<1> DEFINE c == dQueue[i]
           n == c.r.n
           events == Append(dTrace[n], "rejected")
<1>1. /\ DelegationType /\ Acted /\ WaitingKept /\ dLog \in Seq(Recs) /\ dOps \in Nat
      /\ dTrace \in [1..DMaxRequests -> Seq(Words)] /\ dQueue \in Seq(Confs)
  BY DEF DelegationInv, DelegationType
<1>2. /\ i \in 1..Len(dQueue) /\ dStack = <<>> /\ dStack' = <<>> /\ dOps' \in Nat /\ UNCHANGED dNow
      /\ \/ /\ Written(Record("rejected", c))
            /\ dQueue' = RemoveAt(dQueue, i)
            /\ Traced(n, <<"rejected">>)
         \/ /\ WriteFails(Record("rejected", c))
            /\ UNCHANGED <<dQueue, dTrace>>
  BY <1>1, LenProperties DEF RejectOperation, StartOperation
<1>3. /\ c \in Confs /\ n \in 1..DMaxRequests /\ Unsettled(dTrace[n])
      /\ RemoveAt(dQueue, i) \in Seq(Confs)
      /\ \A m : InQueue(m, RemoveAt(dQueue, i)) <=> InQueue(m, dQueue) /\ m # n
  BY <1>2, DequeueFacts
<1>4. CASE WriteFails(Record("rejected", c)) /\ UNCHANGED <<dQueue, dTrace>>
  BY <1>2, <1>4, AnswerFails
<1>5. CASE Written(Record("rejected", c)) /\ dQueue' = RemoveAt(dQueue, i) /\ Traced(n, <<"rejected">>)
  <2>1. dLog' = Append(dLog, Record("rejected", c)) /\ UNCHANGED <<dFaults, dPartial>>
    BY <1>5 DEF Written
  <2>2. /\ events \in Seq(Words) /\ events # <<>> /\ dTrace[n] \o <<"rejected">> = events
        /\ ~Required(events) /\ ActedOnce(events)
    <3>1. "rejected" \in Words /\ dTrace[n] \in Seq(Words)
      BY <1>1, <1>3 DEF Words
    <3> QED
      BY <1>3, <3>1, EventFacts
  <2> HIDE DEF events, n, c
  <2>3. /\ dTrace' \in [1..DMaxRequests -> Seq(Words)] /\ dTrace'[n] = events
        /\ \A m \in (1..DMaxRequests) \ {n} : dTrace'[m] = dTrace[m]
    BY <1>1, <1>3, <1>5, <2>2, TracedFacts
  <2>4. dStack' \in Seq(Frms) /\ Held(dStack', dTrace', dLog') /\ \A m : ~InPending(m, dStack')
    BY <1>2, HeldNone
  <2>5. \A m : ~InPending(m, dStack)
    BY <1>2, HeldNone
  <2>6. dLog' \in Seq(Recs)
    <3>1. Record("rejected", c) \in Recs
      BY <1>3 DEF Record, Recs
    <3> QED
      BY <1>1, <2>1, <3>1, AppendProperties
  <2>7. DelegationType'
    BY <1>1, <1>2, <1>3, <1>5, <2>1, <2>3, <2>4, <2>6 DEF DelegationType
  <2>8. Acted'
    BY <1>1, <2>2, <2>3 DEF Acted
  <2>9. dFaults' = 0 => \A m \in 1..DMaxRequests :
              Required(dTrace'[m]) <=> InQueue(m, dQueue') \/ InPending(m, dStack')
    <3> SUFFICES ASSUME dFaults = 0, NEW m \in 1..DMaxRequests
                 PROVE  Required(dTrace'[m]) <=> InQueue(m, dQueue') \/ InPending(m, dStack')
      BY <2>1
    <3>1. CASE m = n
      BY <1>3, <1>5, <2>2, <2>3, <2>4, <3>1
    <3>2. CASE m # n
      BY <1>1, <1>3, <1>5, <2>3, <2>4, <2>5, <3>2 DEF WaitingKept
    <3> QED
      BY <3>1, <3>2
  <2>10. /\ dLog' = Append(dLog, Record("rejected", dQueue[i]))
         /\ \A m \in (1..DMaxRequests) \ {dQueue[i].r.n} : dTrace'[m] = dTrace[m]
         /\ dTrace'[dQueue[i].r.n] # <<>>
    BY <2>1, <2>2, <2>3 DEF n, c
  <2> QED
    BY <1>2, <1>5, <2>1, <2>4, <2>7, <2>8, <2>9, <2>10, AnswerStep
<1> QED
  BY <1>2, <1>4, <1>5

(* The user approves a confirmation: the child runs above the operation.                       *)
LEMMA ApproveStep ==
    ASSUME DelegationInv, NEW i \in DOMAIN dQueue, ApproveOperation(i)
    PROVE  DelegationInv'
<1> DEFINE c == dQueue[i]
           n == c.r.n
           base == [Frame("approval", "session", NoRequest, <<>>, 0, {}) EXCEPT !.at = "delegate"]
           child == ChildFrame(c.r, c.depth, c.lineage)
           events == dTrace[n] \o <<"approved", "started">>
<1>1. /\ DelegationType /\ Acted /\ WaitingKept /\ dLog \in Seq(Recs) /\ dOps \in Nat
      /\ dTrace \in [1..DMaxRequests -> Seq(Words)] /\ dQueue \in Seq(Confs)
  BY DEF DelegationInv, DelegationType
<1>2. /\ i \in 1..Len(dQueue) /\ dStack = <<>> /\ dOps' \in Nat /\ UNCHANGED dNow
      /\ \/ /\ dStack' = <<base, child>>
            /\ Written(Record("approved", c))
            /\ dQueue' = RemoveAt(dQueue, i)
            /\ Traced(n, <<"approved", "started">>)
         \/ /\ dStack' = <<>>
            /\ WriteFails(Record("approved", c))
            /\ UNCHANGED <<dQueue, dTrace>>
  BY <1>1, LenProperties DEF ApproveOperation, StartOperation
<1>3. /\ c \in Confs /\ Permitted(c) /\ n \in 1..DMaxRequests /\ Unsettled(dTrace[n])
      /\ RemoveAt(dQueue, i) \in Seq(Confs)
      /\ \A m : InQueue(m, RemoveAt(dQueue, i)) <=> InQueue(m, dQueue) /\ m # n
  BY <1>2, DequeueFacts
<1>4. CASE dStack' = <<>> /\ WriteFails(Record("approved", c)) /\ UNCHANGED <<dQueue, dTrace>>
  BY <1>2, <1>4, AnswerFails
<1>5. CASE /\ dStack' = <<base, child>> /\ Written(Record("approved", c))
           /\ dQueue' = RemoveAt(dQueue, i) /\ Traced(n, <<"approved", "started">>)
  <2>1. dLog' = Append(dLog, Record("approved", c)) /\ UNCHANGED <<dFaults, dPartial>>
    BY <1>5 DEF Written
  <2>2. /\ events \in Seq(Words) /\ events # <<>> /\ ActedOnce(events) /\ UnderWay(events)
        /\ ~Required(events)
    <3>1. dTrace[n] \in Seq(Words)
      BY <1>1, <1>3
    <3> QED
      BY <1>3, <3>1, ApprovedFacts
  <2>3. /\ base \in Frms /\ base.decisions = <<>> /\ base.pending = <<>> /\ base.op # "child"
        /\ base.lineage = {} /\ FrameSound(base)
    <3>1. <<>> \in Seq(DAgents) /\ <<>> \in Seq(Decs) /\ <<>> \in Seq(Confs) /\ DOMAIN <<>> = {}
      OBVIOUS
    <3>2. /\ base \in Frms /\ base.decisions = <<>> /\ base.pending = <<>> /\ base.op # "child"
          /\ base.lineage = {} /\ base.at = "delegate"
      BY <3>1 DEF Frame, Frms
    <3> HIDE DEF base
    <3> QED
      BY <3>1, <3>2 DEF FrameSound
  <2> HIDE DEF base
  <2>4. <<base>> \in Seq(Frms) /\ Held(<<base>>, dTrace', dLog') /\ Len(<<base>>) = 1 /\ <<base>>[1] = base
        /\ \A m : ~InPending(m, <<base>>)
    BY <2>3, HeldOne
  <2>5. \A m : ~InPending(m, dStack)
    BY <1>2, HeldNone
  <2>6. c.r \in Reqs /\ c.depth \in Nat /\ c.lineage \in SUBSET Targets /\ c.depth >= 1
        /\ c.depth <= DPolicy[c.r.from].maxDepth /\ c.r.to \in c.lineage
    BY <1>3 DEF Confs, Permitted
  <2> HIDE DEF events, n, c
  <2>7. /\ dTrace' \in [1..DMaxRequests -> Seq(Words)] /\ dTrace'[n] = events
        /\ \A m \in (1..DMaxRequests) \ {n} : dTrace'[m] = dTrace[m]
    BY <1>1, <1>3, <1>5, <2>2, TracedFacts DEF events
  <2>8. dStack' \in Seq(Frms) /\ Held(dStack', dTrace', dLog') /\ \A m : ~InPending(m, dStack')
    <3> DEFINE s == <<base>>
    <3>1. s \in Seq(Frms) /\ s # <<>> /\ Held(s, dTrace', dLog') /\ Len(s) = 1 /\ s[Len(s)] = base
          /\ \A m : ~InPending(m, s)
      BY <2>4
    <3>2. <<base, child>> = Append(s, child)
      OBVIOUS
    <3>3. UnderWay(dTrace'[c.r.n])
      BY <2>2, <2>7 DEF n
    <3> HIDE DEF s
    <3>4. \A j \in 2..Len(s) : s[j].r.n # c.r.n
      BY <3>1
    <3>5. /\ s[Len(s)].lineage \subseteq c.lineage /\ c.r.to \notin s[Len(s)].lineage
          /\ c.depth >= Len(s)
      BY <2>3, <2>6, <3>1
    <3>6. /\ Append(s, child) \in Seq(Frms) /\ Held(Append(s, child), dTrace', dLog')
          /\ \A m : InPending(m, Append(s, child)) <=> InPending(m, s)
      BY <2>6, <3>1, <3>3, <3>4, <3>5, HeldPushed
    <3> HIDE DEF child
    <3> QED
      BY <1>5, <3>1, <3>2, <3>6
  <2>9. dLog' \in Seq(Recs)
    <3>1. Record("approved", c) \in Recs
      BY <1>3 DEF Record, Recs
    <3> QED
      BY <1>1, <2>1, <3>1, AppendProperties
  <2>10. DelegationType'
    BY <1>1, <1>2, <1>3, <1>5, <2>1, <2>7, <2>8, <2>9 DEF DelegationType
  <2>11. Acted'
    BY <1>1, <2>2, <2>7 DEF Acted
  <2>12. dFaults' = 0 => \A m \in 1..DMaxRequests :
              Required(dTrace'[m]) <=> InQueue(m, dQueue') \/ InPending(m, dStack')
    <3> SUFFICES ASSUME dFaults = 0, NEW m \in 1..DMaxRequests
                 PROVE  Required(dTrace'[m]) <=> InQueue(m, dQueue') \/ InPending(m, dStack')
      BY <2>1
    <3>1. CASE m = n
      BY <1>3, <1>5, <2>2, <2>7, <2>8, <3>1
    <3>2. CASE m # n
      BY <1>1, <1>3, <1>5, <2>5, <2>7, <2>8, <3>2 DEF WaitingKept
    <3> QED
      BY <3>1, <3>2
  <2>13. /\ dLog' = Append(dLog, Record("approved", dQueue[i]))
         /\ \A m \in (1..DMaxRequests) \ {dQueue[i].r.n} : dTrace'[m] = dTrace[m]
         /\ dTrace'[dQueue[i].r.n] # <<>>
    BY <2>1, <2>2, <2>7 DEF n, c
  <2> QED
    BY <1>2, <1>5, <2>1, <2>8, <2>10, <2>11, <2>12, <2>13, AnswerStep
<1> QED
  BY <1>2, <1>4, <1>5

(* The confirmations that wait in contexts, when those contexts are dropped.                     *)
LEMMA DroppedFacts ==
    ASSUME DelegationInv, NEW ns, \A m : m \in ns <=> InPending(m, dStack),
           NEW what \in {"dropped", "lost"}, dTrace' = Noted(ns, what)
    PROVE  /\ dTrace' \in [1..DMaxRequests -> Seq(Words)] /\ Acted'
           /\ \A m \in (1..DMaxRequests) \ ns : dTrace'[m] = dTrace[m]
           /\ \A m \in ns : ~Required(dTrace'[m]) /\ ~InQueue(m, dQueue)
           /\ \A m \in 1..DMaxRequests : (dTrace[m] # <<>>) <=> (dTrace'[m] # <<>>)
           /\ \A m \in 1..DMaxRequests : Unsettled(dTrace[m]) => Unsettled(dTrace'[m])
<1>1. /\ dTrace \in [1..DMaxRequests -> Seq(Words)] /\ Acted /\ dStack \in Seq(Frms)
      /\ PendingRequired(dStack, dTrace) /\ NotLogged(dStack, dLog)
  BY DEF DelegationInv, DelegationType, Held
<1>2. \A m \in ns : m \in 1..DMaxRequests /\ Unsettled(dTrace[m]) /\ Required(dTrace[m]) /\ Unlogged(m, dLog)
  <2> SUFFICES ASSUME NEW m \in ns
               PROVE  m \in 1..DMaxRequests /\ Unsettled(dTrace[m]) /\ Required(dTrace[m]) /\ Unlogged(m, dLog)
    OBVIOUS
  <2>1. PICK i \in 1..Len(dStack) : \E a \in DOMAIN dStack[i].pending : dStack[i].pending[a].r.n = m
    BY DEF InPending
  <2>2. PICK a \in DOMAIN dStack[i].pending : dStack[i].pending[a].r.n = m
    BY <2>1
  <2>3. m \in 1..DMaxRequests
    BY <1>1, <2>2, NumbersHeld
  <2> QED
    BY <1>1, <2>2, <2>3 DEF PendingRequired, NotLogged, Unlogged
<1>3. \A m \in ns : ~InQueue(m, dQueue)
  <2> SUFFICES ASSUME NEW m \in ns, NEW i \in 1..Len(dQueue), dQueue[i].r.n = m PROVE FALSE
    BY DEF InQueue
  <2>1. PICK j \in 1..Len(dLog) : dLog[j].c = dQueue[i]
    BY QueueLogged
  <2> QED
    BY <1>2, <2>1 DEF Unlogged
<1>4. /\ DOMAIN dTrace' = 1..DMaxRequests
      /\ dTrace' = [m \in 1..DMaxRequests |-> IF m \in ns THEN Append(dTrace[m], what) ELSE dTrace[m]]
  BY <1>1 DEF Noted
<1>5. /\ \A m \in ns : dTrace'[m] = Append(dTrace[m], what)
      /\ \A m \in (1..DMaxRequests) \ ns : dTrace'[m] = dTrace[m]
  BY <1>2, <1>4
<1>6. ASSUME NEW m \in ns
      PROVE  LET after == Append(dTrace[m], what)
             IN /\ after \in Seq(Words) /\ after # <<>> /\ ~Required(after) /\ ActedOnce(after)
                /\ Unsettled(after)
  <2>1. what \in Words /\ what \notin {"started", "rejected", "completed", "failed"} /\ what # "required"
    BY DEF Words
  <2>2. dTrace[m] \in Seq(Words) /\ ActedOnce(dTrace[m]) /\ Unsettled(dTrace[m])
    BY <1>1, <1>2 DEF Acted
  <2> QED
    BY <2>1, <2>2, EventFacts
<1>7. \A m \in ns : dTrace[m] # <<>>
  BY <1>2 DEF Required
<1>8. ASSUME NEW m \in 1..DMaxRequests
      PROVE  /\ dTrace'[m] \in Seq(Words) /\ ActedOnce(dTrace'[m])
             /\ (dTrace[m] # <<>>) <=> (dTrace'[m] # <<>>)
             /\ Unsettled(dTrace[m]) => Unsettled(dTrace'[m])
  <2>1. CASE m \in ns
    BY <1>5, <1>6, <1>7, <2>1
  <2>2. CASE m \notin ns
    BY <1>1, <1>5, <2>2 DEF Acted
  <2> QED
    BY <2>1, <2>2
<1>9. dTrace' \in [1..DMaxRequests -> Seq(Words)]
  <2>1. \A m \in 1..DMaxRequests : dTrace'[m] \in Seq(Words)
    BY <1>8
  <2>2. dTrace' = [m \in 1..DMaxRequests |-> dTrace'[m]]
    BY <1>4
  <2> QED
    BY <2>1, <2>2
<1>10. Acted'
  BY <1>8 DEF Acted
<1>11. \A m \in ns : ~Required(dTrace'[m])
  BY <1>5, <1>6
<1> QED
  BY <1>3, <1>5, <1>8, <1>9, <1>10, <1>11

(* The confirmations of one context.                                                              *)
LEMMA PendingRequests ==
    ASSUME NEW f \in Frms
    PROVE  \A m : m \in Requests(f.pending) <=> \E a \in DOMAIN f.pending : f.pending[a].r.n = m
<1>1. f.pending \in Seq(Confs)
  BY DEF Frms
<1> QED
  BY <1>1, RequestsFacts

(* The operation of the session ends.                                                            *)
LEMMA EndStep ==
    ASSUME DelegationInv, OperationEnds
    PROVE  DelegationInv'
<1> DEFINE ns == Requests(Top.pending)
<1>1. /\ DelegationType /\ WaitingKept /\ dStack \in Seq(Frms) /\ Len(dStack) = 1
      /\ dStack' = <<>> /\ dTrace' = Noted(ns, "dropped")
      /\ UNCHANGED <<dQueue, dLog, dNow, dOps, dFaults, dPartial>>
  BY DEF DelegationInv, DelegationType, OperationEnds
<1>2. dStack # <<>>
  <2>1. Len(<<>>) = 0
    OBVIOUS
  <2> QED
    BY <1>1, <2>1
<1>3. Top = dStack[1] /\ Top \in Frms /\ \A i \in 1..Len(dStack) : i = 1
  BY <1>1, <1>2, TopFacts
<1>4. \A m : m \in ns <=> InPending(m, dStack)
  <2>1. \A m : m \in ns <=> \E a \in DOMAIN dStack[1].pending : dStack[1].pending[a].r.n = m
    BY <1>3, PendingRequests
  <2>2. 1 \in 1..Len(dStack)
    BY <1>1
  <2> HIDE DEF ns
  <2> QED
    BY <1>3, <2>1, <2>2 DEF InPending
<1> HIDE DEF ns
<1>5. /\ dTrace' \in [1..DMaxRequests -> Seq(Words)] /\ Acted'
      /\ \A m \in (1..DMaxRequests) \ ns : dTrace'[m] = dTrace[m]
      /\ \A m \in ns : ~Required(dTrace'[m]) /\ ~InQueue(m, dQueue)
      /\ \A m \in 1..DMaxRequests : (dTrace[m] # <<>>) <=> (dTrace'[m] # <<>>)
      /\ \A m \in 1..DMaxRequests : Unsettled(dTrace[m]) => Unsettled(dTrace'[m])
  BY <1>1, <1>4, DroppedFacts
<1>6. dStack' \in Seq(Frms) /\ Held(dStack', dTrace', dLog) /\ \A m : ~InPending(m, dStack')
  BY <1>1, HeldNone
<1>7. DelegationType'
  BY <1>1, <1>5, <1>6 DEF DelegationType
<1>8. dFaults' = 0 => \A m \in 1..DMaxRequests :
            Required(dTrace'[m]) <=> InQueue(m, dQueue) \/ InPending(m, dStack')
  <2> SUFFICES ASSUME dFaults = 0, NEW m \in 1..DMaxRequests
               PROVE  Required(dTrace'[m]) <=> InQueue(m, dQueue) \/ InPending(m, dStack')
    BY <1>1
  <2>1. CASE m \in ns
    BY <1>5, <1>6, <2>1
  <2>2. CASE m \notin ns
    BY <1>1, <1>4, <1>5, <1>6, <2>2 DEF WaitingKept
  <2> QED
    BY <2>1, <2>2
<1> QED
  BY <1>1, <1>5, <1>6, <1>7, <1>8, QueueStays

(* What the policies permit is restored as it was (pending_state_from_replay).                    *)
LEMMA ReplayFacts ==
    ASSUME NEW log \in Seq(Recs), \A i \in 1..Len(log) : Permitted(log[i].c)
    PROVE  ReplayPending(log) = PendingAfter(log)
<1> DEFINE q == PendingAfter(log)
<1>1. /\ q \in Seq(Confs)
      /\ \A i \in 1..Len(q) : \E j \in 1..Len(log) : log[j] = Record("requested", q[i])
  BY PendingShape
<1>2. ReplayPending(log) = [i \in DOMAIN q |-> PendingFromReplay(q[i])]
  BY DEF ReplayPending
<1> HIDE DEF q
<1>3. DOMAIN q = 1..Len(q) /\ \A i \in 1..Len(q) : q[i] \in Confs
  BY <1>1, LenProperties, ElementOfSeq
<1>4. ASSUME NEW i \in 1..Len(q) PROVE PendingFromReplay(q[i]) = q[i]
  <2>1. PICK j \in 1..Len(log) : log[j] = Record("requested", q[i])
    BY <1>1
  <2> DEFINE c == q[i]
             d == c.depth
  <2>2. c \in Confs /\ d \in Nat /\ d >= 1
    BY <1>3, <2>1 DEF Record, Permitted, Confs
  <2> HIDE DEF c, d
  <2>3. Max({d - 1, 0}) = d - 1
    <3>1. \A x \in {d - 1, 0} : d - 1 >= x
      BY <2>2
    <3>2. \A x \in {d - 1, 0} : (\A y \in {d - 1, 0} : x >= y) => x = d - 1
      BY <2>2
    <3> QED
      BY <3>1, <3>2 DEF Max
  <2>4. (d - 1) + 1 = d
    BY <2>2
  <2>5. PendingFromReplay(c) = [c EXCEPT !.depth = Max({d - 1, 0}) + 1]
    BY DEF PendingFromReplay, d
  <2>6. [c EXCEPT !.depth = d] = c
    BY <2>2 DEF Confs, d
  <2> QED
    BY <2>3, <2>4, <2>5, <2>6 DEF c
<1>5. [i \in DOMAIN q |-> PendingFromReplay(q[i])] = [i \in 1..Len(q) |-> q[i]]
  BY <1>3, <1>4
<1>6. [i \in 1..Len(q) |-> q[i]] = q
  BY <1>1, <1>3
<1> QED
  BY <1>2, <1>5, <1>6 DEF q

(* The session crashes and is opened again.                                                      *)
LEMMA ReopenStep ==
    ASSUME DelegationInv, Reopen
    PROVE  DelegationInv'
<1> DEFINE ns == UNION {Requests(dStack[i].pending) : i \in DOMAIN dStack}
<1>1. /\ DelegationType /\ WaitingKept /\ LogKept /\ Numbered /\ LogSettled /\ LogAsked
      /\ dStack \in Seq(Frms) /\ dLog \in Seq(Recs) /\ dQueue \in Seq(Confs)
      /\ dStack' = <<>> /\ dTrace' = Noted(ns, "lost") /\ dPartial' = FALSE
      /\ dQueue' = ReplayPending(dLog)
      /\ UNCHANGED <<dLog, dNow, dOps, dFaults>>
  BY DEF DelegationInv, DelegationType, Reopen
<1>2. \A m : m \in ns <=> InPending(m, dStack)
  <2>1. DOMAIN dStack = 1..Len(dStack) /\ \A i \in 1..Len(dStack) : dStack[i] \in Frms
    BY <1>1, LenProperties, ElementOfSeq
  <2>2. \A i \in 1..Len(dStack) : \A m :
            m \in Requests(dStack[i].pending) <=> \E a \in DOMAIN dStack[i].pending : dStack[i].pending[a].r.n = m
    BY <2>1, PendingRequests
  <2>3. \A m : m \in ns <=> \E i \in 1..Len(dStack) : m \in Requests(dStack[i].pending)
    BY <2>1
  <2> HIDE DEF ns
  <2> DEFINE Kept(i, m) == \E a \in DOMAIN dStack[i].pending : dStack[i].pending[a].r.n = m
  <2>4. \A i \in 1..Len(dStack) : \A m : m \in Requests(dStack[i].pending) <=> Kept(i, m)
    BY <2>2
  <2>5. \A m : InPending(m, dStack) <=> \E i \in 1..Len(dStack) : Kept(i, m)
    BY DEF InPending
  <2> HIDE DEF Kept
  <2> QED
    BY <2>3, <2>4, <2>5
<1> HIDE DEF ns
<1>3. /\ dTrace' \in [1..DMaxRequests -> Seq(Words)] /\ Acted'
      /\ \A m \in (1..DMaxRequests) \ ns : dTrace'[m] = dTrace[m]
      /\ \A m \in ns : ~Required(dTrace'[m]) /\ ~InQueue(m, dQueue)
      /\ \A m \in 1..DMaxRequests : (dTrace[m] # <<>>) <=> (dTrace'[m] # <<>>)
      /\ \A m \in 1..DMaxRequests : Unsettled(dTrace[m]) => Unsettled(dTrace'[m])
  BY <1>1, <1>2, DroppedFacts
<1>4. dStack' \in Seq(Frms) /\ Held(dStack', dTrace', dLog') /\ \A m : ~InPending(m, dStack')
  BY <1>1, HeldNone
<1>5. dQueue' = PendingAfter(dLog)
  BY <1>1, ReplayFacts DEF LogKept
<1>6. /\ dQueue' \in Seq(Confs) /\ KeysApart(dQueue')
      /\ \A i \in 1..Len(dQueue') : \E j \in 1..Len(dLog) :
            /\ dLog[j] = Record("requested", dQueue'[i])
            /\ \A k \in (j + 1)..Len(dLog) :
                  dLog[k].is # "requested" => Key(dLog[k].c) # Key(dQueue'[i])
  BY <1>1, <1>5, PendingShape
<1>7. DelegationType'
  BY <1>1, <1>3, <1>4, <1>6 DEF DelegationType
<1>8. LogKept'
  <2>1. \A i \in 1..Len(dQueue') : \E j \in 1..Len(dLog) : dLog[j] = Record("requested", dQueue'[i])
    BY <1>6
  <2> QED
    BY <1>1, <1>5, <1>6, <2>1 DEF LogKept
<1>9. Numbered'
  BY <1>1, <1>3, NumberedStays
<1>10. \A i \in 1..Len(dLog) : dLog[i].c.r.n \in 1..DMaxRequests
  BY QueueLogged
<1>11. LogSettled' /\ LogAsked'
  <2>1. Len(dLog) \in Nat /\ Len(dLog') = Len(dLog) /\ (Len(dLog) + 1)..Len(dLog') = {}
    <3>1. Len(dLog) \in Nat
      BY <1>1, LenProperties
    <3> QED
      BY <1>1, <3>1
  <2>2. \A i \in 1..Len(dLog) : dTrace'[dLog[i].c.r.n] # <<>>
    BY <1>1, <1>3, <1>10 DEF LogAsked
  <2>3. \A i \in 1..Len(dLog) :
           Unsettled(dTrace[dLog[i].c.r.n]) => Unsettled(dTrace'[dLog[i].c.r.n])
    BY <1>3, <1>10
  <2>4. \A i \in 1..Len(dLog) : dLog'[i] = dLog[i]
    BY <1>1
  <2> QED
    BY <1>1, <2>1, <2>2, <2>3, <2>4, LogGrows
<1>12. QueueUnsettled'
  <2> SUFFICES ASSUME NEW i \in 1..Len(dQueue') PROVE Unsettled(dTrace'[dQueue'[i].r.n])
    BY DEF QueueUnsettled
  <2>1. PICK j \in 1..Len(dLog) :
            /\ dLog[j] = Record("requested", dQueue'[i])
            /\ \A k \in (j + 1)..Len(dLog) :
                  dLog[k].is # "requested" => Key(dLog[k].c) # Key(dQueue'[i])
    BY <1>6
  <2>2. dLog[j].is = "requested" /\ dLog[j].c = dQueue'[i]
    BY <2>1 DEF Record
  <2>3. Unsettled(dTrace[dLog[j].c.r.n])
    BY <1>1, <2>1, <2>2 DEF LogSettled
  <2> QED
    BY <1>3, <1>10, <2>2, <2>3
<1>13. WaitingKept'
  <2> SUFFICES ASSUME dFaults = 0, NEW m \in 1..DMaxRequests
               PROVE  Required(dTrace'[m]) <=> InQueue(m, dQueue') \/ InPending(m, dStack')
    BY <1>1 DEF WaitingKept
  <2>1. dQueue' = dQueue
    BY <1>1, <1>5 DEF LogKept
  <2>2. CASE m \in ns
    BY <1>3, <1>4, <2>1, <2>2
  <2>3. CASE m \notin ns
    BY <1>1, <1>2, <1>3, <1>4, <2>1, <2>3 DEF WaitingKept
  <2> QED
    BY <2>2, <2>3
<1>14. Held(dStack, dTrace, dLog)' /\ Acted'
  BY <1>3, <1>4
<1> QED
  BY <1>7, <1>8, <1>9, <1>11, <1>12, <1>13, <1>14 DEF DelegationInv

(* The requests of a behaviour are numbered in the order they were made.                         *)
LEMMA AskedNumbers ==
    ASSUME DelegationInv
    PROVE  LET first == Cardinality(Asked)
           IN /\ first \in 0..DMaxRequests /\ Asked = 1..first
              /\ \A n \in 1..DMaxRequests : (dTrace[n] # <<>>) <=> n <= first
<1> DEFINE first == Cardinality(Asked)
<1>0. DMaxRequests \in Nat
  BY DelegationAssumption
<1>1. PICK k \in 0..DMaxRequests : Asked = 1..k
  BY DEF DelegationInv, Numbered
<1>2. Cardinality(1..k) = k
  <2>1. k \in Int /\ 1 \in Int
    BY <1>0
  <2>2. Cardinality(1..k) = IF 1 > k THEN 0 ELSE k - 1 + 1
    BY <2>1, FS_Interval
  <2> QED
    BY <1>0, <2>2
<1>3. first = k
  BY <1>1, <1>2
<1> HIDE DEF first
<1>4. \A n \in 1..DMaxRequests : (dTrace[n] # <<>>) <=> n \in 1..k
  BY <1>1 DEF Asked
<1> QED
  BY <1>0, <1>1, <1>3, <1>4 DEF first

(* The running context has new requests to carry out, that nobody else has.                      *)
LEMMA HeldDecisions ==
    ASSUME NEW s \in Seq(Frms), NEW trace, NEW log, Held(s, trace, log),
           NEW t, NEW f, Topped(s, t, f), Len(t) = Len(s), SameContext(f, s[Len(s)]), FrameSound(f),
           f.pending = s[Len(s)].pending, NumbersApart(f.decisions),
           \A a \in DOMAIN f.decisions :
              /\ trace[f.decisions[a].r.n] = <<"asked">> /\ Unlogged(f.decisions[a].r.n, log)
              /\ \A i \in 1..Len(s) : \A b \in DOMAIN s[i].decisions :
                    f.decisions[a].r.n # s[i].decisions[b].r.n
    PROVE  Held(t, trace, log)
<1> DEFINE k == Len(s)
<1>1. /\ k \in Nat /\ k \in 1..k /\ t[k] = f /\ \A i \in 1..(k - 1) : t[i] = s[i]
      /\ \A i \in 1..k : i = k \/ i \in 1..(k - 1)
  <2>1. k \in Nat
    BY LenProperties
  <2> QED
    BY <2>1 DEF Topped
<1>2. /\ StackSound(s) /\ DecisionsApart(s) /\ PendingApart(s) /\ NotLogged(s, log)
      /\ DecisionsAsked(s, trace) /\ PendingRequired(s, trace) /\ ChildrenUnderWay(s, trace)
      /\ ChildrenApart(s)
  BY DEF Held
<1>3. StackSound(t)
  BY <1>2, ToppedSound
<1>4. DecisionsApart(t)
  BY <1>2, DecisionsStayApart
<1>5. PendingApart(t)
  <2>1. NumbersApart(f.pending)
    BY <1>1, <1>2 DEF NumbersApart, PendingApart
  <2>2. \A a \in DOMAIN f.pending : \E i \in Len(t)..Len(s) : \E b \in DOMAIN s[i].pending :
            f.pending[a] = s[i].pending[b]
    BY <1>1
  <2> QED
    BY <1>2, <2>1, <2>2, PendingStayApart
<1>6. ASSUME NEW i \in 1..k
      PROVE  /\ t[i].r = s[i].r /\ t[i].pending = s[i].pending
             /\ \A a \in DOMAIN t[i].decisions :
                   \/ a \in DOMAIN s[i].decisions /\ t[i].decisions[a] = s[i].decisions[a]
                   \/ /\ trace[t[i].decisions[a].r.n] = <<"asked">>
                      /\ Unlogged(t[i].decisions[a].r.n, log)
  <2>1. CASE i = k
    BY <1>1, <2>1 DEF SameContext
  <2>2. CASE i \in 1..(k - 1)
    BY <1>1, <2>2
  <2> QED
    BY <1>1, <2>1, <2>2
<1> HIDE DEF k
<1>7. Len(t) = k
  BY DEF k
<1>8. NotLogged(t, log)
  <2> SUFFICES ASSUME NEW i \in 1..k, NEW l \in 1..Len(log)
               PROVE  /\ \A a \in DOMAIN t[i].decisions : t[i].decisions[a].r.n # log[l].c.r.n
                      /\ \A a \in DOMAIN t[i].pending : t[i].pending[a].r.n # log[l].c.r.n
    BY <1>7 DEF NotLogged
  <2>1. /\ \A a \in DOMAIN s[i].decisions : s[i].decisions[a].r.n # log[l].c.r.n
        /\ \A a \in DOMAIN s[i].pending : s[i].pending[a].r.n # log[l].c.r.n
    BY <1>2 DEF NotLogged, k
  <2> QED
    BY <1>6, <2>1 DEF Unlogged
<1>9. DecisionsAsked(t, trace)
  <2> SUFFICES ASSUME NEW i \in 1..k
               PROVE  \A a \in DOMAIN t[i].decisions : trace[t[i].decisions[a].r.n] = <<"asked">>
    BY <1>7 DEF DecisionsAsked
  <2>1. \A a \in DOMAIN s[i].decisions : trace[s[i].decisions[a].r.n] = <<"asked">>
    BY <1>2 DEF DecisionsAsked, k
  <2> QED
    BY <1>6, <2>1
<1>10. PendingRequired(t, trace)
  BY <1>2, <1>6, <1>7 DEF PendingRequired, k
<1>11. ChildrenUnderWay(t, trace) /\ ChildrenApart(t)
  <2>1. \A i \in 2..k : i \in 1..k
    BY <1>1
  <2>2. ChildrenUnderWay(t, trace)
    BY <1>2, <1>6, <1>7, <2>1 DEF ChildrenUnderWay, k
  <2>3. ChildrenApart(t)
    BY <1>2, <1>6, <1>7, <2>1 DEF ChildrenApart, k
  <2> QED
    BY <2>2, <2>3
<1> QED
  BY <1>3, <1>4, <1>5, <1>8, <1>9, <1>10, <1>11 DEF Held

\* What the profile p asks for, numbered on from first.
Asks(first, p, targets, shared) ==
    [i \in DOMAIN targets |-> [n |-> first + i, call |-> IF shared THEN first + 1 ELSE first + i,
                               from |-> p, to |-> targets[i]]]

(* The requests of a prompt.                                                                     *)
LEMMA AsksFacts ==
    ASSUME NEW first \in Nat, NEW p \in DAgents, NEW targets \in SeqOf(Targets, 2),
           NEW shared \in BOOLEAN, first + Len(targets) <= DMaxRequests
    PROVE  LET rs == Asks(first, p, targets, shared)
           IN /\ Len(targets) \in Nat /\ rs \in Seq(Reqs) /\ Len(rs) = Len(targets)
              /\ \A i \in 1..Len(targets) : rs[i].n = first + i
<1> DEFINE rs == Asks(first, p, targets, shared)
           m == Len(targets)
<1>0. DMaxRequests \in Nat
  BY DelegationAssumption
<1>1. PICK x \in 0..2 : targets \in [1..x -> Targets]
  BY DEF SeqOf
<1>2. m = x /\ m \in Nat /\ DOMAIN targets = 1..m /\ \A i \in 1..m : targets[i] \in Targets
  <2>1. targets \in Seq(Targets) /\ Len(targets) = x
    BY <1>1
  <2> QED
    BY <1>1, <2>1
<1> HIDE DEF m
<1>3. ASSUME NEW i \in 1..m
      PROVE  rs[i] \in Reqs /\ rs[i].n = first + i
  <2>1. rs[i] = [n |-> first + i, call |-> IF shared THEN first + 1 ELSE first + i,
                 from |-> p, to |-> targets[i]]
    BY <1>2 DEF Asks
  <2>2. /\ first + i \in 1..DMaxRequests /\ (IF shared THEN first + 1 ELSE first + i) \in Nat
        /\ targets[i] \in Targets
    BY <1>0, <1>2 DEF m
  <2> HIDE DEF rs
  <2> QED
    BY <2>1, <2>2 DEF Reqs
<1>4. rs = [i \in 1..m |-> rs[i]]
  BY <1>2 DEF Asks
<1> HIDE DEF rs
<1>5. rs \in [1..m -> Reqs]
  BY <1>3, <1>4
<1>6. rs \in Seq(Reqs) /\ Len(rs) = m
  BY <1>2, <1>5
<1> QED
  BY <1>2, <1>3, <1>6 DEF rs, m

(* The prompt of a profile succeeds, and its requests are authorized.                            *)
LEMMA ProfileStep ==
    ASSUME DelegationInv, NEW kind, NEW targets \in SeqOf(Targets, 2), NEW shared \in BOOLEAN,
           ProfileSucceeds(kind, targets, shared)
    PROVE  DelegationInv'
<1> DEFINE first == Cardinality(Asked)
           m == Len(targets)
           p == Head(Top.run)
           rs == Asks(first, p, targets, shared)
           ds == Authorize(rs, Top.depth, Top.lineage)
           f == [Top EXCEPT !.at = "delegate", !.decisions = ds]
           N == (first + 1)..(first + m)
           k == Len(dStack)
<1>0. DMaxRequests \in Nat
  BY DelegationAssumption
<1>1. /\ DelegationType /\ Held(dStack, dTrace, dLog) /\ Acted /\ WaitingKept /\ dStack \in Seq(Frms)
      /\ LogAsked /\ dStack # <<>> /\ Top.at = "run"
      /\ dTrace \in [1..DMaxRequests -> Seq(Words)]
  BY DEF DelegationInv, DelegationType, ProfileSucceeds
<1>2. /\ k \in Nat \ {0} /\ Top = dStack[k] /\ Top \in Frms /\ k \in 1..k
      /\ \A i \in 1..k : dStack[i] \in Frms
  BY <1>1, TopFacts
<1>3. first \in 0..DMaxRequests /\ Asked = 1..first /\ \A n \in 1..DMaxRequests : (dTrace[n] # <<>>) <=> n <= first
  BY AskedNumbers
<1>4. first + m <= DMaxRequests
  BY DEF ProfileSucceeds
<1>5. FrameSound(Top)
  BY <1>1, <1>2 DEF Held, StackSound
<1>6. p \in DAgents
  <2>1. Top.run \in Seq(DAgents) /\ Top.run # <<>>
    BY <1>1, <1>2, <1>5 DEF Frms, FrameSound
  <2> QED
    BY <2>1, TailFacts
<1>7. /\ dStack' = WithTop(f)
      /\ dTrace' = [n \in DOMAIN dTrace |-> IF n \in N THEN <<"asked">> ELSE dTrace[n]]
      /\ UNCHANGED <<dQueue, dLog, dNow, dOps, dFaults, dPartial>>
  BY Zenon DEF ProfileSucceeds, Asks
<1> HIDE DEF first, p
<1>8. first \in Nat /\ m \in Nat /\ rs \in Seq(Reqs) /\ Len(rs) = m /\ \A i \in 1..m : rs[i].n = first + i
  BY <1>0, <1>3, <1>4, <1>6, AsksFacts
<1> HIDE DEF rs, m
<1>9. /\ ds \in Seq(Decs) /\ Len(ds) = m
      /\ \A i \in 1..m : /\ ds[i].r = rs[i]
                         /\ ds[i].is # "rejected" => /\ Top.depth < DPolicy[rs[i].from].maxDepth
                                                     /\ rs[i].to \notin Top.lineage
  <2>1. Top.depth \in Nat
    BY <1>2 DEF Frms
  <2>2. /\ ds \in Seq(Decs) /\ Len(ds) = Len(rs)
        /\ \A i \in 1..Len(rs) :
              /\ ds[i].r = rs[i]
              /\ ds[i].is # "rejected" => /\ Top.depth < DPolicy[rs[i].from].maxDepth
                                          /\ rs[i].to \notin Top.lineage
    BY <1>8, <2>1, AuthorizeFacts
  <2> HIDE DEF ds
  <2> QED
    BY <1>8, <2>2
<1> HIDE DEF ds
<1>10. DOMAIN ds = 1..m
  BY <1>8, <1>9, LenProperties
<1>11. /\ f \in Frms /\ SameContext(f, Top) /\ f.pending = Top.pending /\ f.decisions = ds
       /\ f.at = "delegate" /\ f.depth = Top.depth /\ f.lineage = Top.lineage
  BY <1>2, <1>9 DEF Frms, SameContext
<1> HIDE DEF f
<1>12. FrameSound(f)
  BY <1>5, <1>9, <1>10, <1>11 DEF FrameSound
<1>13. Topped(dStack, dStack', f) /\ Len(dStack') = k
  BY <1>1, <1>7, <1>11, WithTopFacts
<1>14. \A n \in N : n \in 1..DMaxRequests /\ ~(n <= first) /\ dTrace[n] = <<>>
  BY <1>0, <1>3, <1>4, <1>8
<1> HIDE DEF N
<1>15. /\ DOMAIN dTrace' = 1..DMaxRequests
       /\ \A n \in N : dTrace'[n] = <<"asked">>
       /\ \A n \in (1..DMaxRequests) \ N : dTrace'[n] = dTrace[n]
  BY <1>1, <1>7, <1>14
<1>16. /\ <<"asked">> \in Seq(Words) /\ <<"asked">> # <<>> /\ Unsettled(<<"asked">>)
       /\ ActedOnce(<<"asked">>) /\ ~Required(<<"asked">>)
  BY AskedFacts
<1>17. dTrace' \in [1..DMaxRequests -> Seq(Words)]
  <2>1. \A n \in 1..DMaxRequests : dTrace'[n] \in Seq(Words)
    BY <1>1, <1>15, <1>16
  <2>2. dTrace' = [n \in 1..DMaxRequests |-> dTrace'[n]]
    BY <1>7, <1>15
  <2> QED
    BY <2>1, <2>2
<1>18. Beyond(N, dTrace, dTrace', dLog, dLog')
  BY <1>1, <1>7, <1>15, BeyondTrace
<1>19. /\ \A i \in 1..k : \A a \in DOMAIN dStack[i].decisions : dStack[i].decisions[a].r.n \notin N
       /\ \A i \in 1..k : \A a \in DOMAIN dStack[i].pending : dStack[i].pending[a].r.n \notin N
       /\ \A i \in 2..k : dStack[i].r.n \notin N
  <2>1. \A i \in 1..k : \A a \in DOMAIN dStack[i].decisions : dTrace[dStack[i].decisions[a].r.n] # <<>>
    BY <1>1, <1>16 DEF Held, DecisionsAsked
  <2>2. \A i \in 1..k : \A a \in DOMAIN dStack[i].pending : dTrace[dStack[i].pending[a].r.n] # <<>>
    BY <1>1 DEF Held, PendingRequired, Required
  <2>3. \A i \in 2..k : dTrace[dStack[i].r.n] # <<>>
    <3>1. DOMAIN <<>> = {}
      OBVIOUS
    <3> QED
      BY <1>1, <3>1 DEF Held, ChildrenUnderWay, UnderWay
  <2> QED
    BY <1>14, <2>1, <2>2, <2>3
<1>20. Held(dStack, dTrace', dLog')
  <2>1. Topped(dStack, dStack, Top) /\ SameContext(Top, dStack[Len(dStack)])
    BY <1>1, <1>2 DEF Topped, SameContext
  <2>2. HeldAbove(Top, dStack, Len(dStack), N)
    <3>1. NumbersApart(Top.decisions) /\ NumbersApart(Top.pending)
      BY <1>1, <1>2 DEF Held, NumbersApart, DecisionsApart, PendingApart
    <3>2. k \in k..Len(dStack)
      BY <1>2
    <3> QED
      BY <1>2, <1>19, <3>1, <3>2 DEF HeldAbove
  <2>3. HeldBelow(dStack, Len(dStack), N, dTrace')
    <3>1. \A i \in 1..(k - 1) : i \in 1..k
      BY <1>2
    <3> QED
      BY <1>19, <3>1 DEF HeldBelow
  <2> QED
    BY <1>1, <1>5, <1>18, <2>1, <2>2, <2>3, HeldStays
<1>21. ASSUME NEW a \in DOMAIN ds
       PROVE  /\ ds[a].r.n = first + a /\ ds[a].r.n \in N
              /\ dTrace'[ds[a].r.n] = <<"asked">> /\ Unlogged(ds[a].r.n, dLog)
  <2>1. a \in 1..m /\ ds[a].r.n = first + a
    BY <1>8, <1>9, <1>10
  <2>2. first + a \in N
    BY <1>8, <2>1 DEF N
  <2>3. Unlogged(ds[a].r.n, dLog)
    BY <1>1, <1>14, <2>1, <2>2 DEF Unlogged, LogAsked
  <2> QED
    BY <1>15, <2>1, <2>2, <2>3
<1>22. NumbersApart(f.decisions)
  <2> SUFFICES ASSUME NEW a \in DOMAIN ds, NEW b \in DOMAIN ds, ds[a].r.n = ds[b].r.n
               PROVE  a = b
    BY <1>11 DEF NumbersApart
  <2>1. a \in 1..m /\ b \in 1..m /\ first + a = first + b
    BY <1>10, <1>21
  <2> QED
    BY <1>8, <2>1
<1>23. Held(dStack', dTrace', dLog)
  <2>1. \A a \in DOMAIN f.decisions :
           /\ dTrace'[f.decisions[a].r.n] = <<"asked">> /\ Unlogged(f.decisions[a].r.n, dLog)
           /\ \A i \in 1..Len(dStack) : \A b \in DOMAIN dStack[i].decisions :
                 f.decisions[a].r.n # dStack[i].decisions[b].r.n
    <3>1. SUFFICES ASSUME NEW a \in DOMAIN ds
                   PROVE  /\ dTrace'[ds[a].r.n] = <<"asked">> /\ Unlogged(ds[a].r.n, dLog)
                          /\ \A i \in 1..Len(dStack) : \A b \in DOMAIN dStack[i].decisions :
                                ds[a].r.n # dStack[i].decisions[b].r.n
      BY <1>11
    <3>2. ds[a].r.n \in N /\ dTrace'[ds[a].r.n] = <<"asked">> /\ Unlogged(ds[a].r.n, dLog)
      BY <1>21
    <3>3. ASSUME NEW i \in 1..Len(dStack), NEW b \in DOMAIN dStack[i].decisions
          PROVE  ds[a].r.n # dStack[i].decisions[b].r.n
      <4>1. dStack[i].decisions[b].r.n \notin N
        BY <1>19, <3>3
      <4> QED
        BY <3>2, <4>1
    <3> QED
      BY <3>2, <3>3
  <2>2. SameContext(f, dStack[Len(dStack)]) /\ f.pending = dStack[Len(dStack)].pending
    BY <1>2, <1>11
  <2>3. Held(dStack, dTrace', dLog) /\ Len(dStack') = Len(dStack)
    BY <1>7, <1>13, <1>20
  <2> QED
    BY <1>1, <1>12, <1>13, <1>22, <2>1, <2>2, <2>3, HeldDecisions
<1>24. \A n : InPending(n, dStack') <=> InPending(n, dStack)
  BY <1>1, <1>2, <1>11, <1>13, PendingSame
<1>25. DelegationType'
  BY <1>1, <1>7, <1>13, <1>17 DEF DelegationType, Topped
<1>26. Acted'
  BY <1>1, <1>15, <1>16 DEF Acted
<1>27. Numbered'
  <2>1. Asked' = 1..(first + m)
    <3>1. Asked' = {n \in 1..DMaxRequests : dTrace'[n] # <<>>}
      BY DEF Asked
    <3>2. \A n \in 1..DMaxRequests : dTrace'[n] # <<>> <=> n <= first + m
      <4>1. \A n \in 1..DMaxRequests : n \in N <=> n > first /\ n <= first + m
        BY <1>8 DEF N
      <4>2. \A n \in 1..DMaxRequests : n \in N => dTrace'[n] # <<>>
        BY <1>15, <1>16
      <4>3. \A n \in 1..DMaxRequests : n \notin N => (dTrace'[n] # <<>> <=> n <= first)
        BY <1>3, <1>15
      <4> QED
        BY <1>0, <1>8, <4>1, <4>2, <4>3
    <3> QED
      BY <1>0, <1>4, <1>8, <3>1, <3>2 DEF m
  <2>2. first + m \in 0..DMaxRequests
    BY <1>0, <1>4, <1>8 DEF m
  <2> QED
    BY <2>1, <2>2 DEF Numbered
<1>28. \A n \in 1..DMaxRequests : dTrace[n] # <<>> => dTrace'[n] # <<>>
  BY <1>14, <1>15
<1>29. \A n \in 1..DMaxRequests :
          \/ Unsettled(dTrace[n]) => Unsettled(dTrace'[n])
          \/ \A l \in 1..Len(dLog) : dLog[l].c.r.n # n
  BY <1>15, <1>16
<1>30. dFaults' = 0 => \A n \in 1..DMaxRequests :
            Required(dTrace'[n]) <=> InQueue(n, dQueue) \/ InPending(n, dStack')
  <2> SUFFICES ASSUME dFaults = 0, NEW n \in 1..DMaxRequests
               PROVE  Required(dTrace'[n]) <=> InQueue(n, dQueue) \/ InPending(n, dStack')
    BY <1>7
  <2>1. Required(dTrace[n]) <=> InQueue(n, dQueue) \/ InPending(n, dStack)
    BY <1>1 DEF WaitingKept
  <2>2. CASE n \in N
    <3>1. ~Required(dTrace[n])
      BY <1>14, <2>2 DEF Required
    <3> QED
      BY <1>15, <1>16, <1>24, <2>1, <2>2, <3>1
  <2>3. CASE n \notin N
    BY <1>15, <1>24, <2>1, <2>3
  <2> QED
    BY <2>2, <2>3
<1> QED
  BY <1>7, <1>23, <1>25, <1>26, <1>27, <1>28, <1>29, <1>30, QueueKept

(* The prompt of a profile fails.                                                                *)
LEMMA FailStep ==
    ASSUME DelegationInv, NEW kind, ProfileFails(kind)
    PROVE  DelegationInv'
<1> DEFINE f == [Top EXCEPT !.at = "done", !.ok = FALSE]
<1>1. /\ dStack # <<>> /\ dStack' = WithTop(f)
      /\ UNCHANGED <<dQueue, dLog, dTrace, dNow, dOps, dFaults, dPartial>>
  BY DEF ProfileFails
<1>2. Top \in Frms /\ FrameSound(Top)
  BY <1>1, TopFacts DEF DelegationInv, Held, StackSound
<1>3. /\ f \in Frms /\ SameContext(f, Top) /\ f.pending = Top.pending /\ f.decisions = Top.decisions
      /\ f.at = "done"
  BY <1>2 DEF Frms, SameContext
<1>4. FrameSound(f)
  BY <1>2, <1>3 DEF FrameSound, SameContext
<1> HIDE DEF f
<1> QED
  BY <1>1, <1>3, <1>4, QuietTop

(* The next profile of a team runs.                                                              *)
LEMMA NextStep ==
    ASSUME DelegationInv, NextProfile
    PROVE  DelegationInv'
<1> DEFINE f == [Top EXCEPT !.at = "run", !.run = Tail(@)]
<1>1. /\ dStack # <<>> /\ dStack' = WithTop(f) /\ Len(Top.run) > 1 /\ Top.decisions = <<>>
      /\ UNCHANGED <<dQueue, dLog, dTrace, dNow, dOps, dFaults, dPartial>>
  BY DEF NextProfile, Finished
<1>2. Top \in Frms /\ FrameSound(Top)
  BY <1>1, TopFacts DEF DelegationInv, Held, StackSound
<1>3. Tail(Top.run) \in Seq(DAgents) /\ Tail(Top.run) # <<>>
  <2>1. Top.run \in Seq(DAgents) /\ Len(<<>>) = 0
    BY <1>2 DEF Frms
  <2>2. Top.run # <<>>
    BY <1>1, <2>1
  <2>3. Tail(Top.run) \in Seq(DAgents) /\ Len(Tail(Top.run)) = Len(Top.run) - 1 /\ Len(Top.run) \in Nat
    BY <2>1, <2>2, TailFacts
  <2>4. Len(Tail(Top.run)) # 0
    <3> DEFINE n == Len(Top.run)
               m == Len(Tail(Top.run))
    <3>1. n \in Nat /\ n > 1 /\ m = n - 1
      BY <1>1, <2>3
    <3> HIDE DEF n, m
    <3>2. m # 0
      BY <3>1
    <3> QED
      BY <3>2 DEF m
  <2> QED
    BY <2>1, <2>3, <2>4
<1>4. /\ f \in Frms /\ SameContext(f, Top) /\ f.pending = Top.pending /\ f.decisions = Top.decisions
      /\ f.run = Tail(Top.run)
  BY <1>2, <1>3 DEF Frms, SameContext
<1>5. FrameSound(f)
  BY <1>2, <1>3, <1>4 DEF FrameSound, SameContext
<1> HIDE DEF f
<1> QED
  BY <1>1, <1>4, <1>5, QuietTop

(* A context has carried out everything.                                                         *)
LEMMA FinishStep ==
    ASSUME DelegationInv, NEW kind, FrameFinished(kind)
    PROVE  DelegationInv'
<1> DEFINE f == [Top EXCEPT !.at = "done"]
<1>1. /\ dStack # <<>> /\ dStack' = WithTop(f)
      /\ UNCHANGED <<dQueue, dLog, dTrace, dNow, dOps, dFaults, dPartial>>
  BY DEF FrameFinished, Finished
<1>2. Top \in Frms /\ FrameSound(Top)
  BY <1>1, TopFacts DEF DelegationInv, Held, StackSound
<1>3. /\ f \in Frms /\ SameContext(f, Top) /\ f.pending = Top.pending /\ f.decisions = Top.decisions
      /\ f.at = "done"
  BY <1>2 DEF Frms, SameContext
<1>4. FrameSound(f)
  BY <1>2, <1>3 DEF FrameSound, SameContext
<1> HIDE DEF f
<1> QED
  BY <1>1, <1>3, <1>4, QuietTop

(* A prompt of the session, or an agent or a team that is invoked directly.                       *)
LEMMA FirstStep ==
    ASSUME DelegationInv, PromptOperation \/ \E target \in Targets : InvokeOperation(target)
    PROVE  DelegationInv'
<1>1. PICK op \in {"prompt", "invoke"}, kind \in {"session", "agent", "team"}, run \in Seq(DAgents) :
           run # <<>> /\ StartOperation(<<Frame(op, kind, NoRequest, run, 0, {})>>)
           /\ UNCHANGED <<dQueue, dLog, dTrace, dNow, dFaults, dPartial>>
  <2>1. CASE PromptOperation
    <3>1. <<DDefault>> \in Seq(DAgents) /\ <<DDefault>> # <<>>
      BY DelegationAssumption
    <3> QED
      BY <2>1, <3>1 DEF PromptOperation
  <2>2. CASE \E target \in Targets : InvokeOperation(target)
    <3>1. PICK target \in Targets : InvokeOperation(target)
      BY <2>2
    <3>2. Runs(target) \in Seq(DAgents) /\ Runs(target) # <<>> /\ target[1] \in {"agent", "team"}
      <4>1. CASE \E a \in DAgents : target = <<"agent", a>>
        BY <4>1 DEF Runs
      <4>2. CASE \E x \in DTeams : target = <<"team", x>>
        <5>1. PICK x \in DTeams : target = <<"team", x>>
          BY <4>2
        <5>2. DMembers[x] \in Seq(DAgents) \ {<<>>}
          BY DelegationAssumption
        <5>3. Runs(target) = DMembers[x] /\ target[1] = "team"
          BY <5>1 DEF Runs, PlanSubtasks
        <5> QED
          BY <5>2, <5>3
      <4> QED
        BY <4>1, <4>2 DEF Targets
    <3>3. /\ StartOperation(<<Frame("invoke", target[1], NoRequest, Runs(target), 0, {})>>)
          /\ UNCHANGED <<dQueue, dLog, dTrace, dNow, dFaults, dPartial>>
      BY <3>1 DEF InvokeOperation
    <3> QED
      BY <3>2, <3>3
  <2> QED
    BY <2>1, <2>2
<1> DEFINE f == Frame(op, kind, NoRequest, run, 0, {})
<1>2. f = [op |-> op, kind |-> kind, r |-> NoRequest, run |-> run, depth |-> 0, lineage |-> {},
           at |-> "run", decisions |-> <<>>, pending |-> <<>>, ok |-> TRUE]
  BY DEF Frame
<1>3. dStack = <<>> /\ dStack' = <<f>> /\ dOps' = dOps + 1 /\ dOps \in Nat
  BY <1>1 DEF StartOperation, DelegationInv, DelegationType
<1>4. <<>> \in Seq(Decs) /\ <<>> \in Seq(Confs) /\ DOMAIN <<>> = {}
  OBVIOUS
<1> HIDE DEF f
<1>5. f \in Frms /\ FrameSound(f) /\ f.op # "child" /\ f.decisions = <<>> /\ f.pending = <<>>
  BY <1>1, <1>2, <1>4 DEF Frms, FrameSound
<1> QED
  BY <1>1, <1>3, <1>5, StartStep

(* Before anything has run.                                                                      *)
LEMMA InitInv == DelegationInit => DelegationInv
<1> SUFFICES ASSUME DelegationInit PROVE DelegationInv
  OBVIOUS
<1>0. DMaxRequests \in Nat
  BY DelegationAssumption
<1>1. /\ dStack = <<>> /\ dQueue = <<>> /\ dLog = <<>> /\ dNow = 0 /\ dOps = 0 /\ dFaults = 0
      /\ dPartial = FALSE /\ dTrace = [n \in 1..DMaxRequests |-> <<>>]
  BY DEF DelegationInit
<1>2. dQueue \in Seq(Confs) /\ dLog \in Seq(Recs) /\ 1..Len(dQueue) = {} /\ 1..Len(dLog) = {}
      /\ Len(dLog) = 0
  BY <1>1
<1>3. dStack \in Seq(Frms) /\ Held(dStack, dTrace, dLog) /\ \A m : ~InPending(m, dStack)
  BY <1>1, HeldNone
<1>4. /\ dTrace \in [1..DMaxRequests -> Seq(Words)]
      /\ \A n \in 1..DMaxRequests : dTrace[n] = <<>> /\ ActedOnce(dTrace[n]) /\ ~Required(dTrace[n])
  <2>1. <<>> \in Seq(Words) /\ DOMAIN <<>> = {}
    OBVIOUS
  <2>2. ActedOnce(<<>>) /\ ~Required(<<>>)
    BY <2>1 DEF ActedOnce, Required
  <2> QED
    BY <1>1, <2>1, <2>2
<1>5. DelegationType
  BY <1>1, <1>2, <1>3, <1>4 DEF DelegationType
<1>6. PendingAfter(dLog) = <<>>
  <2>1. PICK g : Folded(g, dLog)
    BY <1>2, PendingFolds
  <2> QED
    BY <1>2, <2>1 DEF Folded
<1>7. LogKept
  <2>1. KeysApart(dQueue)
    <3>1. DOMAIN <<>> = {}
      OBVIOUS
    <3> QED
      BY <1>1, <3>1 DEF KeysApart
  <2> QED
    BY <1>1, <1>2, <1>6, <2>1 DEF LogKept
<1>8. Numbered
  <2>1. Asked = {}
    BY <1>4 DEF Asked
  <2>2. 1..0 = {} /\ 0 \in 0..DMaxRequests
    BY <1>0
  <2> QED
    BY <2>1, <2>2 DEF Numbered
<1>9. Acted
  BY <1>4 DEF Acted
<1>10. QueueUnsettled /\ LogSettled /\ LogAsked
  BY <1>2 DEF QueueUnsettled, LogSettled, LogAsked
<1>11. WaitingKept
  BY <1>2, <1>3, <1>4 DEF WaitingKept, InQueue
<1> QED
  BY <1>3, <1>5, <1>7, <1>8, <1>9, <1>10, <1>11 DEF DelegationInv

(* Every step of the delegations keeps the invariant.                                            *)
LEMMA StepInv == DelegationInv /\ [DelegationNext]_dVars => DelegationInv'
<1> SUFFICES ASSUME DelegationInv, [DelegationNext]_dVars PROVE DelegationInv'
  OBVIOUS
<1>1. CASE PromptOperation \/ \E target \in Targets : InvokeOperation(target)
  BY <1>1, FirstStep
<1>2. ASSUME NEW i \in DOMAIN dQueue, ApproveOperation(i) \/ RejectOperation(i) PROVE DelegationInv'
  BY <1>2, ApproveStep, RejectStep
<1>3. ASSUME NEW targets \in SeqOf(Targets, 2), NEW shared \in BOOLEAN,
             \/ PromptSucceeds(targets, shared)
             \/ RunChildAgent(targets, shared)
             \/ RunProfileChild(targets, shared)
      PROVE  DelegationInv'
  BY <1>3, ProfileStep DEF PromptSucceeds, RunChildAgent, RunProfileChild
<1>4. CASE PromptFails \/ AgentFails \/ TeamFails
  BY <1>4, FailStep DEF PromptFails, AgentFails, TeamFails
<1>5. CASE ExecuteApproved
  BY <1>5, ExecuteStep
<1>6. CASE QueueConfirmation
  BY <1>6, QueueStep
<1>7. CASE RejectDecision
  <2>1. "rejected" \in {"rejected", "duplicate"}
    OBVIOUS
  <2> QED
    BY <1>7, <2>1, HeadSettled DEF RejectDecision
<1>8. CASE AgentKeepsConfirmation \/ TeamKeepsConfirmation
  BY <1>8, KeepStep DEF AgentKeepsConfirmation, TeamKeepsConfirmation
<1>9. CASE NextProfile
  BY <1>9, NextStep
<1>10. CASE FinalizePrompt \/ FinalizeAgentInvocation \/ FinalizeTeam
  BY <1>10, FinishStep DEF FinalizePrompt, FinalizeAgentInvocation, FinalizeTeam
<1>11. CASE ReturnToAgent \/ ReturnToTeam
  BY <1>11, ReturnStep DEF ReturnToAgent, ReturnToTeam
<1>12. CASE ReturnToSession
  BY <1>12, SessionStep
<1>13. CASE OperationEnds
  BY <1>13, EndStep
<1>14. CASE Reopen
  BY <1>14, ReopenStep
<1>15. CASE DayPasses
  <2>1. dNow' = dNow + 1 /\ UNCHANGED <<dStack, dQueue, dLog, dTrace, dOps, dFaults, dPartial>>
    BY <1>15 DEF DayPasses
  <2>2. DelegationType'
    BY <2>1 DEF DelegationInv, DelegationType
  <2>3. LogKept' /\ Numbered' /\ Acted' /\ Held(dStack, dTrace, dLog)'
    BY <2>1 DEF DelegationInv, LogKept, Numbered, Asked, Acted
  <2>4. QueueUnsettled' /\ LogSettled' /\ LogAsked' /\ WaitingKept'
    BY <2>1 DEF DelegationInv, QueueUnsettled, LogSettled, LogAsked, WaitingKept
  <2> QED
    BY <2>2, <2>3, <2>4 DEF DelegationInv
<1>16. CASE UNCHANGED dVars
  BY <1>16 DEF dVars, DelegationInv, DelegationType, LogKept, Numbered, Asked, Acted,
               QueueUnsettled, LogSettled, LogAsked, WaitingKept
<1> QED
  BY <1>1, <1>2, <1>3, <1>4, <1>5, <1>6, <1>7, <1>8, <1>9, <1>10, <1>11, <1>12, <1>13, <1>14,
     <1>15, <1>16
     DEF DelegationNext, RunStep

(* The invariant bounds the delegations, and makes the confirmations agree with the log.          *)
LEMMA InvSound == DelegationInv => DelegationSound
<1> SUFFICES ASSUME DelegationInv PROVE DelegationSound
  OBVIOUS
<1>1. /\ DelegationType /\ StackSound(dStack) /\ LogKept /\ Acted /\ WaitingKept
      /\ dStack \in Seq(Frms) /\ dLog \in Seq(Recs) /\ dQueue \in Seq(Confs)
      /\ dTrace \in [1..DMaxRequests -> Seq(Words)]
  BY DEF DelegationInv, DelegationType, Held
<1>2. DelegationBounded
  <2> DEFINE child == {i \in DOMAIN dStack : dStack[i].op = "child"}
             k == Len(dStack)
  <2>1. k \in Nat /\ DOMAIN dStack = 1..k
    BY <1>1, LenProperties
  <2>2. child = 2..k
    BY <1>1, <2>1 DEF StackSound
  <2>3. \A i, j \in 2..k : i # j => dStack[i].r.to # dStack[j].r.to
    BY <1>1 DEF StackSound
  <2>4. \A i \in 2..k : /\ dStack[i].depth <= DPolicy[dStack[i].r.from].maxDepth
                        /\ dStack[i].r.to \in dStack[i].lineage
    BY <1>1, <2>1 DEF StackSound
  <2>5. ASSUME NEW i \in 2..k PROVE dStack[i].depth >= Cardinality({j \in 2..k : j <= i})
    <3>1. {j \in 2..k : j <= i} = 2..i
      BY <2>1
    <3>2. Cardinality(2..i) = i - 1
      <4>1. i \in Int /\ 2 \in Int
        BY <2>1
      <4>2. Cardinality(2..i) = IF 2 > i THEN 0 ELSE i - 2 + 1
        BY <4>1, FS_Interval
      <4> QED
        BY <2>1, <4>2
    <3>3. dStack[i].depth >= i - 1
      BY <1>1, <2>1 DEF StackSound
    <3> QED
      BY <3>1, <3>2, <3>3
  <2> HIDE DEF child, k
  <2>6. /\ \A i, j \in child : i # j => dStack[i].r.to # dStack[j].r.to
        /\ \A i \in child : /\ dStack[i].depth <= DPolicy[dStack[i].r.from].maxDepth
                            /\ dStack[i].depth >= Cardinality({j \in child : j <= i})
                            /\ dStack[i].r.to \in dStack[i].lineage
    BY <2>2, <2>3, <2>4, <2>5
  <2> QED
    BY <2>6 DEF DelegationBounded, child
<1>3. ConfirmationsAgree
  <2>1. dStack = <<>> /\ ~dPartial => dQueue = ReplayPending(dLog)
    BY <1>1, ReplayFacts DEF LogKept
  <2>2. ASSUME dStack = <<>>, dFaults = 0
        PROVE  Requests(dQueue) = {n \in Asked : Last(dTrace[n]) = "required"}
    <3>1. \A n : ~InPending(n, dStack)
      BY <2>2, HeldNone
    <3>2. \A n : n \in Requests(dQueue) <=> InQueue(n, dQueue)
      BY <1>1, RequestsFacts, LenProperties DEF InQueue
    <3>3. \A n : InQueue(n, dQueue) => n \in 1..DMaxRequests
      BY QueueLogged DEF InQueue
    <3>4. \A n : n \in Asked /\ Last(dTrace[n]) = "required" <=> n \in 1..DMaxRequests /\ Required(dTrace[n])
      BY DEF Asked, Required
    <3> QED
      BY <1>1, <2>2, <3>1, <3>2, <3>3, <3>4 DEF WaitingKept
  <2>3. \A n \in DOMAIN dTrace : ActedOnce(dTrace[n])
    BY <1>1 DEF Acted
  <2> QED
    BY <2>1, <2>2, <2>3 DEF ConfirmationsAgree
<1> QED
  BY <1>2, <1>3 DEF DelegationSound

\* Whatever the policies, profiles and teams: contexts stay within the depth and the
\* lineage of the profile that asked, the queue is what the log restores, and a request
\* is acted on once, over failed writes and crashes (delegation.rs,
\* delegation_execution_service.rs).
THEOREM DelegationCorrect == DelegationSpec => []DelegationSound
<1>1. DelegationInit => DelegationInv
  BY InitInv
<1>2. DelegationInv /\ [DelegationNext]_dVars => DelegationInv'
  BY StepInv
<1>3. DelegationInv => DelegationSound
  BY InvSound
<1> QED
  BY <1>1, <1>2, <1>3, PTL DEF DelegationSpec
=============================================================================
