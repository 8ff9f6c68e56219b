---- MODULE MCServices ----
(* The services of a session, and the output of its tools for TLC, side by
   side: part says which one a behaviour is about. *)
EXTENDS Delegation, Plugins, Capabilities, ToolOutput

MCPolicy == [a \in DAgents |->
    IF a = "main"
    THEN [allowAgent |-> TRUE, allowTeam |-> TRUE, maxDepth |-> 3, maxParallel |-> 2,
          confirm |-> "writes", allowedAgents |-> {}, allowedTeams |-> {}]
    ELSE [allowAgent |-> TRUE, allowTeam |-> TRUE, maxDepth |-> 3, maxParallel |-> 2,
          confirm |-> "always", allowedAgents |-> {"main"}, allowedTeams |-> {}]]
MCMembers == [t \in DTeams |-> <<"main", "helper">>]

\* Plugin directories: none; two good scripts; one that registers a tool without its
\* run function, one whose tool has "parameters" for its schema, one without register;
\* a manifest that does not parse, one without a name, and one of a project.
Def(kind, id, has) == [kind |-> kind, id |-> id, has |-> has, point |-> "none",
                       policy |-> "fail_open", outcome |-> "ok"]
Tool(id) == Def("tool", id, {"name", "description", "input_schema", "run"})
Command(id) == Def("command", id, {"name", "description", "run"})
Hook(id, point, policy, outcome) ==
    [Def("hook", id, {"run"}) EXCEPT !.point = point, !.policy = policy, !.outcome = outcome]
Shown(kind, id) == Def(kind, id, {"id", "label", "title", "key", "description", "action"})
Script(defs) == [runs |-> TRUE, registers |-> TRUE, defs |-> defs]
Lua == [is |-> "toml", has |-> ManifestFields, source |-> "lua", entry |-> "relative"]
NoPlugin == [manifest |-> [Lua EXCEPT !.is = "none"], script |-> Script(<<>>)]
MCFiles ==
    {NoPlugin,
     [manifest |-> Lua, script |-> Script(<<Tool("t"), Hook("h", "before_agent_turn", "fail_open", "fails"),
        Command("c"), Hook("k", "after_agent_turn", "fail_closed", "fails")>>)],
     [manifest |-> Lua, script |-> Script(<<Command("c"), Tool("t"), Tool("t"), Shown("ui_action", "u"),
        Shown("dialog", "d"), Shown("keybind", "b")>>)],
     [manifest |-> Lua, script |-> Script(<<Command("c"), Def("tool", "t", {"name", "description", "input_schema"})>>)],
     [manifest |-> Lua, script |-> Script(<<Def("tool", "t", {"name", "description", "parameters", "run"})>>)],
     [manifest |-> Lua, script |-> [Script(<<Tool("t")>>) EXCEPT !.registers = FALSE]],
     [manifest |-> [Lua EXCEPT !.is = "unreadable"], script |-> Script(<<>>)],
     [manifest |-> [Lua EXCEPT !.has = {"id", "version"}], script |-> Script(<<Tool("t")>>)],
     [manifest |-> [Lua EXCEPT !.source = "root", !.entry = "none"], script |-> Script(<<>>)]}
MCProfiles == [p \in {"main", "reader", "coder"} |->
    [tools |-> CASE p = "main" -> {} [] p = "reader" -> {"read", "t"} [] p = "coder" -> {"bash", "edit"},
     delegates |-> p # "coder"]]

MCTexts == {<<0>>, <<1, 0>>, <<4, 0>>, <<2, 1, 0>>, <<1, 1, 1, 1, 0>>, <<3, 3, 1>>, <<1, 5, 1>>, <<1, 0, 0, 2>>}

VARIABLE part
services == <<dVars, pVars, cVars, tVars, bVars>>
Init == /\ part \in {"delegation", "plugins", "capabilities", "read", "bash"}
        /\ DelegationInit /\ PluginsInit /\ CapabilitiesInit /\ ToolOutputInit
        /\ part # "capabilities" => cPersistent
        /\ part # "plugins" => pDisk = [p \in PPaths |-> NoPlugin]
        /\ part # "read" => tFile = <<0>> /\ tLimit = 0
Next ==
  /\ UNCHANGED part
  /\ \/ part = "delegation" /\ DelegationNext /\ UNCHANGED <<pVars, cVars, tVars, bVars>>
     \/ part = "plugins" /\ PluginsNext /\ UNCHANGED <<dVars, cVars, tVars, bVars>>
     \/ part = "capabilities" /\ CapabilitiesNext /\ UNCHANGED <<dVars, pVars, tVars, bVars>>
     \/ part = "read" /\ ReadPage /\ UNCHANGED <<dVars, pVars, cVars, bVars>>
     \/ part = "bash" /\ BashNext /\ UNCHANGED <<dVars, pVars, cVars, tVars>>
Spec == Init /\ [][Next]_<<part, services>> /\ DelegationFair /\ (part = "bash" => BashFair)

(* A bash call returns, whether its command ends, times out or is aborted, and also  *)
(* when a process that the command left behind keeps the pipes open (bash.rs).        *)
BashCallEnds == part = "bash" => BashEnds
====
