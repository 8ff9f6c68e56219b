------------------------------ MODULE Plugins -------------------------------
(***************************************************************************)
(* Plugins: the flow that discovers plugin directories, runs their Lua       *)
(* scripts and replaces the plugin service; the service that lists and runs  *)
(* what they registered.  Directories are edited while all of this goes on.  *)
(***************************************************************************)
EXTENDS Integers, FiniteSets, Sequences, SequencesExt, FiniteSetsExt

CONSTANTS
    PPaths,        \* plugin directories, 1..n in the order of the flow: project first
    PFiles,        \* what may be in one
    PMaxEdits,     \* bound: edits of plugin directories
    PMaxOps        \* bound: operations of the session

ASSUME PluginsAssumption ==
    /\ PPaths \subseteq Nat /\ IsFiniteSet(PPaths)
    /\ {PMaxEdits, PMaxOps} \subseteq Nat

VARIABLES
    pDisk,      \* [PPaths -> PFiles]
    pService,   \* PluginService: providers in the order of registration
    pGen,       \* capability generation
    pLoad,      \* PluginLoadContext, or NoLoad
    pPrompt,    \* a prompt is running
    pRan,       \* history: what was last asked for and what ran
    pEdits, pStarted

pVars == <<pDisk, pService, pGen, pLoad, pPrompt, pRan, pEdits, pStarted>>

----------------------------------------------------------------------------
(* Manifests and scripts.  A manifest has the fields it names; a script is     *)
(* a version and the definitions its register function hands to the host.     *)

ManifestFields == {"id", "name", "version"}

\* plugin_source: runtime or source, or that of the root; anything else is refused.
SourceOf(m) == IF m.source = "root" THEN "project" ELSE m.source
KnownSources == {"first", "project", "user", "lua"}

\* validate_plugin_entry_path.
EntryStaysInside(m) == m.entry \in {"none", "relative"}

\* discover_manifest_paths: a directory without a manifest is passed over.
DiscoverManifestPaths(disk) == {p \in PPaths : disk[p].manifest.is # "none"}

\* read_manifest_candidate.
ReadsAsCandidate(f) ==
    /\ f.manifest.is = "toml"
    /\ SourceOf(f.manifest) \in KnownSources
    /\ EntryStaysInside(f.manifest)

\* PluginLoadManifest::validate, and the entry that a Lua plugin needs.
ValidManifest(m) ==
    /\ ManifestFields \subseteq m.has
    /\ SourceOf(m) = "lua" => m.entry # "none"

\* lua_tool_spec_from_table, lua_command_spec_from_table, lua_hook_spec_from_table,
\* lua_ui_action_spec_from_table, lua_dialog_spec_from_table, lua_keybind_spec_from_table:
\* the fields without which the host raises an error in the script.  A tool needs its
\* input_schema: the key read from a table without it is nil and no error, so that the
\* fallback to "parameters" is never taken, and nil is no JSON object.
ToolSpec(d) == {"name", "description", "input_schema", "run"} \subseteq d.has
CommandSpec(d) == {"description", "run"} \subseteq d.has /\ {"id", "name"} \cap d.has # {}
HookPoints == {"before_prompt_prepare", "after_input_prepared", "after_resources_loaded",
               "before_agent_turn", "after_agent_turn", "before_session_commit",
               "after_session_commit"}
HookPolicies == {"fail_open", "fail_closed"}
HookSpec(d) == "run" \in d.has /\ d.point \in HookPoints /\ d.policy \in HookPolicies
Triggers(d) == {"action_id", "action"} \cap d.has # {}
UiActionSpec(d) == {"id", "label", "description"} \subseteq d.has /\ Triggers(d)
DialogFieldsSpec(d) == "bad_fields" \notin d.has
DialogSpec(d) ==
    {"id", "title", "description"} \subseteq d.has /\ Triggers(d) /\ DialogFieldsSpec(d)
KeybindSpec(d) == {"id", "key", "description"} \subseteq d.has /\ Triggers(d)

Accepted(d) ==
    CASE d.kind = "tool" -> ToolSpec(d)      [] d.kind = "command" -> CommandSpec(d)
      [] d.kind = "hook" -> HookSpec(d)      [] d.kind = "ui_action" -> UiActionSpec(d)
      [] d.kind = "dialog" -> DialogSpec(d)  [] d.kind = "keybind" -> KeybindSpec(d)

OfKind(defs, kind) == SelectSeq(defs, LAMBDA d : d.kind = kind)

\* collect_lua_plugin_specs: the script runs, defines register, and no definition is refused.
CollectSpecs(s) == s.runs /\ s.registers /\ \A i \in DOMAIN s.defs : Accepted(s.defs[i])

\* LuaToolProvider, LuaCommandProvider, LuaUiProvider and LuaKeybindProvider are one
\* provider of a plugin each, and there is a LuaHookProvider for every hook, which
\* knows it by its place among the hooks.
Provider(kind, plugin, s, at) == [kind |-> kind, plugin |-> plugin, script |-> s, at |-> at]

ProviderKind(d) == IF d.kind \in {"ui_action", "dialog"} THEN "ui" ELSE d.kind

\* load_lua_plugin_registry.
LoadLuaRegistry(plugin, s) ==
    LET one(kind, kinds) ==
          IF \E i \in DOMAIN s.defs : s.defs[i].kind \in kinds
          THEN <<Provider(kind, plugin, s, 0)>> ELSE <<>>
        hooks == OfKind(s.defs, "hook")
    IN one("tool", {"tool"}) \o one("command", {"command"}) \o one("ui", {"ui_action", "dialog"})
         \o one("keybind", {"keybind"})
         \o [i \in DOMAIN hooks |-> Provider("hook", plugin, s, i)]

----------------------------------------------------------------------------
(* The load flow.                                                            *)

NoLoad == [at |-> "none", discovered |-> <<>>, diagnostics |-> {}, loaded |-> <<>>,
           found |-> {}]

\* PluginCapabilities of a service: the providers of each kind.
Counts(service) == [k \in {"tool", "command", "ui", "keybind", "hook"} |->
                      Len(SelectSeq(service, LAMBDA p : p.kind = k))]
NoCounts == Counts(<<>>)

PluginsInit ==
    /\ pDisk \in [PPaths -> PFiles]
    /\ pService = <<>>
    /\ pGen = 1
    /\ pLoad = NoLoad
    /\ pPrompt = FALSE
    /\ pRan = {}
    /\ pEdits = 0
    /\ pStarted = 0

\* Somebody edits a plugin directory.
EditPlugin(p, f) ==
    /\ pEdits < PMaxEdits
    /\ f # pDisk[p]
    /\ pDisk' = [pDisk EXCEPT ![p] = f]
    /\ pEdits' = pEdits + 1
    /\ UNCHANGED <<pService, pGen, pLoad, pPrompt, pRan, pStarted>>

Idle == pLoad = NoLoad /\ ~pPrompt
LoadStep(from, load) ==
    /\ pLoad.at = from
    /\ pLoad' = load
    /\ UNCHANGED <<pDisk, pGen, pPrompt, pRan, pEdits>>

\* run(PluginLoad) is admitted, start_plugin_load.
StartLoad ==
    /\ Idle
    /\ pStarted < PMaxOps
    /\ pStarted' = pStarted + 1
    /\ LoadStep("none", [NoLoad EXCEPT !.at = "discover"])
    /\ UNCHANGED pService

\* discover_plugins: one bad manifest is a diagnostic, not the end.
DiscoverPlugins ==
    LET found == DiscoverManifestPaths(pDisk)
        good == {p \in found : ReadsAsCandidate(pDisk[p])}
        candidates == SetToSortSeq(good, <)
    IN /\ LoadStep("discover",
             [pLoad EXCEPT !.at = "validate", !.found = found, !.diagnostics = found \ good,
                           !.discovered = [i \in DOMAIN candidates |->
                              [path |-> candidates[i], m |-> pDisk[candidates[i]].manifest]]])
       /\ UNCHANGED <<pService, pStarted>>

\* validate_manifests.
ValidateManifests ==
    LET bad == {i \in DOMAIN pLoad.discovered : ~ValidManifest(pLoad.discovered[i].m)}
    IN /\ LoadStep("validate",
             [pLoad EXCEPT !.at = "lua",
                           !.discovered = SelectSeq(@, LAMBDA c : ValidManifest(c.m)),
                           !.diagnostics = @ \cup {pLoad.discovered[i].path : i \in bad}])
       /\ UNCHANGED <<pService, pStarted>>

\* load_lua_plugins_later, one candidate: its entry is read now, not when its manifest was.
LoadLuaPlugins ==
    /\ pLoad.discovered # <<>>
    /\ LET c == Head(pLoad.discovered)
           s == pDisk[c.path].script
           ok == SourceOf(c.m) = "lua" => CollectSpecs(s)
       IN LoadStep("lua",
            [pLoad EXCEPT !.discovered = Tail(@),
               !.loaded = IF ok THEN Append(@, [path |-> c.path,
                            registry |-> IF SourceOf(c.m) = "lua"
                                         THEN LoadLuaRegistry(c.path, s) ELSE <<>>]) ELSE @,
               !.diagnostics = IF ok THEN @ ELSE @ \cup {c.path}])
    /\ UNCHANGED <<pService, pStarted>>

\* register_capabilities, PluginRegistry::extend.
Registered(loaded) == FlattenSeq([i \in DOMAIN loaded |-> loaded[i].registry])

\* finalize_plugin_load: changed when there is anything at all.
CapabilityChanged(service, diagnostics) == Counts(service) # NoCounts \/ diagnostics # {}

\* register_capabilities to the end of load_plugins_inner: the load is committed to the
\* session, then the service is replaced and the generation installed.
FinishLoad ==
    LET service == Registered(pLoad.loaded)
    IN /\ pLoad.at = "lua" /\ pLoad.discovered = <<>>
       /\ pService' = service
       /\ pGen' = IF CapabilityChanged(service, pLoad.diagnostics) THEN pGen + 1 ELSE pGen
       /\ pLoad' = [pLoad EXCEPT !.at = "done"]
       /\ UNCHANGED <<pDisk, pPrompt, pRan, pEdits, pStarted>>

\* PluginLoadService::load: the transaction cannot be committed, nothing is replaced.
CommitFails ==
    /\ pLoad.at = "lua" /\ pLoad.discovered = <<>>
    /\ pLoad' = NoLoad
    /\ UNCHANGED <<pDisk, pService, pGen, pPrompt, pRan, pEdits, pStarted>>

LoadReturns ==
    /\ pLoad.at = "done"
    /\ pLoad' = NoLoad
    /\ UNCHANGED <<pDisk, pService, pGen, pPrompt, pRan, pEdits, pStarted>>

----------------------------------------------------------------------------
(* Running what plugins registered.  A fresh Lua state runs the source that    *)
(* was loaded, with a host that keeps the function that is wanted.            *)

Missing == [kind |-> "missing"]
LastOrMissing(defs) == IF defs = <<>> THEN Missing ELSE Last(defs)

\* run_lua_tool, run_lua_command: the last definition of the name.
RunLuaTool(p, name) == LastOrMissing(SelectSeq(OfKind(p.script.defs, "tool"), LAMBDA d : d.id = name))
RunLuaCommand(p, id) == LastOrMissing(SelectSeq(OfKind(p.script.defs, "command"), LAMBDA d : d.id = id))

\* Mutant of RunLuaHook: hooks are counted among all definitions.
RunLuaHookByPlace(p) ==
    IF p.at \in DOMAIN p.script.defs THEN p.script.defs[p.at] ELSE Missing

\* run_lua_hook: the definition with the index of the registration.
RunLuaHook(p) == OfKind(p.script.defs, "hook")[p.at]

\* lua_hook_outcome: what the function returned is no outcome, or it raised an error.
HookFails(d) == d.outcome = "fails"

\* collect_tools, collect_commands and the others: what the providers of a kind list.
Listed(service, kind) ==
    {<<i, d>> \in UNION {{i} \X ToSet(service[i].script.defs) : i \in DOMAIN service} :
        d.kind = kind /\ service[i].kind = kind}

\* collect_tools.
CollectTools(service) == {x[2].id : x \in Listed(service, "tool")}

\* run_command: the first provider that lists the id.
RunCommand(service, id) ==
    LET at == {x[1] : x \in {y \in Listed(service, "command") : y[2].id = id}}
    IN IF at = {} THEN Missing ELSE RunLuaCommand(service[Min(at)], id)

\* run_prompt_hook: the hooks of a point in their order, up to one that fails closed.
RunPromptHook(service, point) ==
    LET at == SelectSeq(service, LAMBDA p : p.kind = "hook"
                                   /\ OfKind(p.script.defs, "hook")[p.at].point = point)
        fails == {i \in DOMAIN at : HookFails(RunLuaHook(at[i]))
                                      /\ RunLuaHook(at[i]).policy = "fail_closed"}
    IN [ran |-> IF fails = {} THEN Len(at) ELSE Min(fails), ok |-> fails = {}]

\* run_command_with_capabilities, as the operation PluginCommand.
PluginCommand(id) ==
    /\ Idle
    /\ pStarted < PMaxOps
    /\ pStarted' = pStarted + 1
    /\ Counts(pService)["command"] > 0
    /\ pRan' = {[what |-> id, ran |-> RunCommand(pService, id)]}
    /\ UNCHANGED <<pDisk, pService, pGen, pLoad, pPrompt, pEdits>>

\* A prompt runs with the service it was started with; a reload waits for it.
StartPrompt ==
    /\ Idle
    /\ pStarted < PMaxOps
    /\ pStarted' = pStarted + 1
    /\ pPrompt' = TRUE
    /\ UNCHANGED <<pDisk, pService, pGen, pLoad, pRan, pEdits>>
EndPrompt ==
    /\ pPrompt
    /\ pPrompt' = FALSE
    /\ UNCHANGED <<pDisk, pService, pGen, pLoad, pRan, pEdits, pStarted>>

\* The agent uses a tool; of two with one name it has the later one.
UsePluginTool(name) ==
    /\ pPrompt
    /\ LET at == Max({x[1] : x \in {y \in Listed(pService, "tool") : y[2].id = name}})
       IN pRan' = {[what |-> name, ran |-> RunLuaTool(pService[at], name)]}
    /\ UNCHANGED <<pDisk, pService, pGen, pLoad, pPrompt, pEdits, pStarted>>

\* The prompt comes to the point of a hook; one that fails closed ends it.
ReachHook(point) ==
    LET result == RunPromptHook(pService, point)
    IN /\ pPrompt
       /\ pRan' = {[what |-> point, ran |-> result]}
       /\ pPrompt' = result.ok
       /\ UNCHANGED <<pDisk, pService, pGen, pLoad, pEdits, pStarted>>

PluginsNext ==
    \/ \E p \in PPaths, f \in PFiles : EditPlugin(p, f)
    \/ StartLoad \/ DiscoverPlugins \/ ValidateManifests \/ LoadLuaPlugins \/ FinishLoad
    \/ CommitFails \/ LoadReturns
    \/ \E id \in {x[2].id : x \in Listed(pService, "command")} : PluginCommand(id)
    \/ StartPrompt \/ EndPrompt
    \/ \E name \in CollectTools(pService) : UsePluginTool(name)
    \/ \E p \in {i \in DOMAIN pService : pService[i].kind = "hook"} :
          ReachHook(RunLuaHook(pService[p]).point)

----------------------------------------------------------------------------
(* Properties.                                                               *)

\* One plugin's fault stays its own: when a load ends, every directory in which a
\* manifest was found is loaded or has a diagnostic and never both, and a loaded
\* script has registered all of its definitions, also when the directories were
\* edited between the reading of manifests and scripts.
LoadAccounts ==
    pLoad.at = "done" =>
       LET loaded == {pLoad.loaded[i].path : i \in DOMAIN pLoad.loaded}
       IN /\ loaded \cup pLoad.diagnostics = pLoad.found
          /\ loaded \cap pLoad.diagnostics = {}
          /\ \A i \in DOMAIN pService : \A d \in ToSet(pService[i].script.defs) :
                \E j \in DOMAIN pService : /\ pService[j].plugin = pService[i].plugin
                                           /\ pService[j].script = pService[i].script
                                           /\ pService[j].kind = ProviderKind(d)

\* What the service lists can be run, however the directory has been edited since: a
\* hook runs the definition of its own registration, with its point and policy, and a
\* tool or command one of its name.
ListedCanRun ==
    /\ \A i \in DOMAIN pService : pService[i].kind = "hook" =>
          LET d == RunLuaHook(pService[i])
          IN /\ d.kind = "hook"
             /\ \A j \in DOMAIN pService :
                   (j # i /\ pService[j].kind = "hook" /\ pService[j].plugin = pService[i].plugin)
                      => pService[j].at # pService[i].at
    /\ \A x \in pRan : "kind" \in DOMAIN x.ran => x.ran.kind # "missing" /\ x.ran.id = x.what

\* What a load found is accounted for and what it lists can run (plugin_load_flow.rs,
\* plugin_service.rs), while the directories are edited.
PluginsSound == LoadAccounts /\ ListedCanRun
=============================================================================
