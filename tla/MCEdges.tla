---- MODULE MCEdges ----
(* The edges of the agent for TLC, side by side: the requests to a provider and its
   streams, the hooks of a harness, the edits of files and the settings files.  part
   says which one a behaviour is about. *)
EXTENDS ProviderStream, Harness, FileEdits, Settings

\* The answers of the providers, one event after the other, of each kind of stream.
IdA == <<"a", "-">>
IdB == <<"b", "*">>
Tool(key, id, piece) == [kind |-> "tool", key |-> key, id |-> id, piece |-> piece]
Part(kind, piece) == [kind |-> kind, key |-> 0, id |-> <<>>, piece |-> piece]
Chunk(parts, finish) == [t |-> "chunk", parts |-> parts, finish |-> finish]
BStart(i, kind, id) == [t |-> "blockStart", i |-> i, key |-> i, kind |-> kind, id |-> id, piece |-> ""]
BDelta(i, kind, piece) == [t |-> "blockDelta", key |-> i, kind |-> kind, piece |-> piece]
BStop(i) == [t |-> "blockStop", key |-> i]
T(t) == [t |-> t, piece |-> ""]
Reason(t, r) == [t |-> t, reason |-> r]
Delta(t, piece) == [t |-> t, piece |-> piece]
Added(id) == [t |-> "itemAdded", id |-> id, piece |-> ""]
Done(kind) == [t |-> "itemDone", kind |-> kind, piece |-> ""]
Anthropic(last) ==
    <<T("messageStart"), BStart(1, "thinking", <<>>), BDelta(1, "thinking", "p"), BStop(1),
      [BStart(2, "text", <<>>) EXCEPT !.piece = "p"], BDelta(2, "text", "q"), BStop(2),
      BStart(3, "tool", IdA), BDelta(3, "tool", "x"), BDelta(3, "tool", "y"), BStop(3), T("ping"),
      BStart(4, "tool", IdB), BDelta(4, "tool", last), BStop(4),
      Reason("messageDelta", "toolUse"), T("messageStop")>>
Chunks(a, b, last) ==
    <<Chunk(<<Part("thinking", "p")>>, "none"), Chunk(<<Part("text", "p"), Part("thinking", "q")>>, "none"),
      Chunk(<<Part("text", "q"), Tool(0, a, "x"), Tool(1, b, last)>>, "none"),
      Chunk(<<Tool(0, <<>>, "y")>>, "toolUse")>>
Responses(last) ==
    <<T("created"), T("partAdded"), Delta("textDelta", "p"), Delta("textDelta", "q"), Done("text"),
      Added(IdA), Delta("argsDelta", "x"), Delta("argsDelta", "y"), Added(IdB),
      Delta("argsDelta", last), Done("tool"), T("completed")>>
Bedrock(last) ==
    <<T("messageStart"), BDelta(0, "thinking", "p"), BStop(0), BDelta(1, "text", "p"),
      BDelta(1, "text", "q"), BStop(1), BStart(2, "tool", IdA), BDelta(2, "tool", "x"), BStop(2),
      BStart(3, "tool", IdB), BDelta(3, "tool", last), BStop(3), Reason("messageStop", "toolUse")>>
MCAnswers ==
    [anthropic |-> {Anthropic("x")},
     completions |-> {Chunks(IdA, IdB, "bad")},
     mistral |-> {Chunks(<<"a", "b">>, <<"b", "a">>, "x")},
     google |-> {Chunks(<<"f">>, <<"f">>, "x")},
     responses |-> {Responses("bad")},
     bedrock |-> {Bedrock("x"), <<T("messageStart"), T("exception")>>},
     deepseek |-> {<<Chunk(<<Part("thinking", "p"), Part("text", "q")>>, "stop")>>, <<Chunk(<<>>, "stop")>>}]

\* The body of the file, and the edits of a call.  In the first call one edit is fuzzy,
\* and the other finds a line before its own; in the second both are in the file as given.
Line(t) == [t |-> t, s |-> "plain"]
Curly(t) == [t |-> t, s |-> "curly"]
Edit(old, new) == [old |-> old, new |-> new]
MCBodies == {<<Curly("a"), Line("b"), Curly("b")>>}
MCEdits == {<<Edit(Line("a"), <<Line("b"), Line("a")>>), Edit(Curly("b"), <<Line("c")>>)>>,
            <<Edit(Curly("a"), <<>>), Edit(Curly("b"), <<Line("c")>>)>>}

MCItems == <<"steering", "width">>
MCChoices == [steering |-> <<"one", "all">>, width |-> <<"60", "80">>]
MCDefaults == [steering |-> "one", width |-> "60"]
MCContents == {("skills" :> <<"s">>) @@ ("width" :> "70"), ("odd" :> "x"), ("steering" :> "all")}
MCEnvs == {[cli |-> FALSE, env |-> e, var |-> ~e] : e \in BOOLEAN}

\* One of the calls at most heals itself: the other one disturbs it whatever its kind.
OneHeal == Cardinality({t \in FTasks : fTask[t].kind = "heal"}) <= 1

VARIABLE part
Init == /\ part \in {"provider", "harness", "edits", "settings"}
        /\ ProviderStreamInit /\ HarnessInit /\ FileEditsInit /\ SettingsInit
        /\ part # "edits" => ~fFile.exists
        /\ part # "settings" => gEnv.env
Next ==
  /\ UNCHANGED part
  /\ \/ part = "provider" /\ ProviderStreamNext /\ UNCHANGED <<hVars, fVars, gVars>>
     \/ part = "harness" /\ HarnessNext /\ UNCHANGED <<pVars, fVars, gVars>>
     \/ part = "edits" /\ FileEditsNext /\ OneHeal' /\ UNCHANGED <<pVars, hVars, gVars>>
     \/ part = "settings" /\ SettingsNext /\ UNCHANGED <<pVars, hVars, fVars>>
Spec == Init /\ [][Next]_<<part, pVars, hVars, fVars, gVars>>
====
