---------------------------- MODULE Capabilities ----------------------------
(***************************************************************************)
(* Capability snapshots: what an operation is admitted with, what the        *)
(* children it delegates to are given, and the tools an agent built from     *)
(* either has.  Plugins come and go with the reloads of Plugins.             *)
(***************************************************************************)
EXTENDS Integers, FiniteSets, Sequences, SequencesExt, FiniteSetsExt

CONSTANTS
    CProfiles,      \* [profile -> [tools, delegates]]
    CPluginTools,   \* names of tools that plugins may register
    CMaxDepth,      \* bound: snapshots below the one of the operation
    CMaxGen         \* bound: generations

ASSUME CapabilitiesAssumption == {CMaxDepth, CMaxGen} \subseteq Nat

VARIABLES
    cPersistent, \* the session is a persistent one, which has a working directory
    cTools,   \* the tools PluginService collects
    cGen,     \* the capability generation
    cOps      \* the snapshots of the running operation and its delegated children

cVars == <<cPersistent, cTools, cGen, cOps>>

Builtins == {"read", "write", "edit", "bash", "grep", "find", "ls"}
OperationKinds == {"prompt", "compact", "branch_summary", "invocation", "team", "edit",
                   "export", "fork", "other"}

\* tool_uses_filesystem, ToolCapabilitySet::allows.
UsesFilesystem(t) == t \in Builtins \ {"bash"}
Allows(snapshot, t) == snapshot.all \/ t \in snapshot.tools
AllowedFilesystem(tools) == \E t \in tools : UsesFilesystem(t)

\* operation_runtime_tool_names.
RuntimeToolNames(profile) ==
    Builtins \cup cTools
      \cup (IF CProfiles[profile].delegates THEN {"delegate_agent"} ELSE {})

\* CapabilitySnapshotService::snapshot with snapshot_input_for_operation: a profile that
\* names no tools has them all.
Snapshot(kind, profile) ==
    LET runtime == RuntimeToolNames(profile)
        named == CProfiles[profile].tools
        tools == IF named = {} THEN runtime ELSE runtime \cap named
    IN [kind |-> kind, profile |-> profile, all |-> FALSE, tools |-> tools, gen |-> cGen,
        filesystem |-> cPersistent /\ AllowedFilesystem(tools),
        shell |-> cPersistent /\ "bash" \in tools,
        model |-> kind \in {"prompt", "compact", "branch_summary", "invocation", "team", "edit"},
        write |-> kind \in {"prompt", "compact", "branch_summary", "fork", "edit"},
        read |-> kind \in {"prompt", "compact", "branch_summary", "fork", "edit", "export"}]

\* OperationCapabilitySnapshot::permissive.
Permissive(profile) ==
    [kind |-> "child", profile |-> profile, all |-> TRUE, tools |-> {}, gen |-> 1,
     filesystem |-> TRUE, shell |-> TRUE, model |-> TRUE, write |-> TRUE, read |-> TRUE]

\* Mutant of DelegatedSnapshot: the child has what its profile names.
DelegatedUnreleased(parent, profile) ==
    LET named == CProfiles[profile].tools
    IN [parent EXCEPT !.kind = "child", !.profile = profile, !.all = FALSE, !.tools = named,
          !.filesystem = AllowedFilesystem(named),
          !.shell = "bash" \in named, !.model = TRUE, !.write = FALSE, !.read = FALSE]

\* capability_snapshot_for_delegated_profile.
DelegatedSnapshot(parent, profile) ==
    LET named == CProfiles[profile].tools
        offered == named \cup (IF CProfiles[profile].delegates THEN {"delegate_agent"} ELSE {})
        released == {t \in offered : Allows(parent, t)}
    IN [parent EXCEPT !.kind = "child", !.profile = profile, !.all = FALSE, !.tools = released,
          !.filesystem = @ /\ AllowedFilesystem(released),
          !.shell = @ /\ "bash" \in named, !.model = TRUE, !.write = FALSE, !.read = FALSE]

\* resolve_operation_admission, and the permit that keeps a second operation out.
AdmitOperation(kind, profile) ==
    /\ cOps = <<>>
    /\ cOps' = <<Snapshot(kind, profile)>>
    /\ UNCHANGED <<cPersistent, cTools, cGen>>

\* A prompt, an invocation or a team delegates.  The contexts that the session itself
\* makes have no parent snapshot (DelegationExecutionService, invoke_agent_inner); those
\* made by a context have its child's.
Delegate(profile) ==
    /\ cOps # <<>>
    /\ Last(cOps).kind \in {"prompt", "invocation", "team", "child"}
    /\ Len(cOps) <= CMaxDepth
    /\ cOps' = Append(cOps, IF Len(cOps) = 1 THEN Permissive(profile)
                            ELSE DelegatedSnapshot(Last(cOps), profile))
    /\ UNCHANGED <<cPersistent, cTools, cGen>>

ChildReturns ==
    /\ cOps # <<>>
    /\ cOps' = SubSeq(cOps, 1, Len(cOps) - 1)
    /\ UNCHANGED <<cPersistent, cTools, cGen>>

\* build_agent_runtime_with_capabilities, apply_tool_policy: the tools of the agent.
AgentTools(snapshot) ==
    LET named == CProfiles[snapshot.profile].tools
        offered == RuntimeToolNames(snapshot.profile)
        policy == IF named = {} THEN offered
                  ELSE (offered \cap named)
                         \cup (IF CProfiles[snapshot.profile].delegates THEN {"delegate_agent"} ELSE {})
    IN {t \in policy : Allows(snapshot, t)}

----------------------------------------------------------------------------
CapabilitiesInit ==
    /\ cPersistent \in BOOLEAN
    /\ cTools = {}
    /\ cGen = 1
    /\ cOps = <<>>

\* load_plugins_inner and SetDefaultAgentProfile: install_next_generation.
InstallGeneration(tools) ==
    /\ cOps = <<>>
    /\ cGen < CMaxGen
    /\ cTools' = tools
    /\ cGen' = cGen + 1
    /\ UNCHANGED <<cPersistent, cOps>>

CapabilitiesNext ==
    \/ \E tools \in SUBSET CPluginTools : InstallGeneration(tools)
    \/ \E kind \in OperationKinds, profile \in DOMAIN CProfiles : AdmitOperation(kind, profile)
    \/ \E profile \in DOMAIN CProfiles : Delegate(profile)
    \/ ChildReturns

CapabilitiesSpec == CapabilitiesInit /\ [][CapabilitiesNext]_cVars

----------------------------------------------------------------------------
\* Handles follow tools: whatever chain of delegations leads to it, no operation holds a
\* filesystem or shell handle without a tool that uses it, its agent has no tool it was
\* not granted, and below a child of the session nobody has a tool that the one who
\* delegated had not.
HandlesFollowTools ==
    \A i \in DOMAIN cOps :
       /\ cOps[i].filesystem => cOps[i].all \/ AllowedFilesystem(cOps[i].tools)
       /\ cOps[i].shell => Allows(cOps[i], "bash")
       /\ ~cOps[i].all => AgentTools(cOps[i]) \subseteq cOps[i].tools
       /\ i > 2 => \A t \in cOps[i].tools : Allows(cOps[i - 1], t)
=============================================================================
