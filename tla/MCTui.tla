------------------------------- MODULE MCTui -------------------------------
(***************************************************************************)
(* What the terminal shows, for TLC: the drawing of frames, the focus, the     *)
(* prompt editor, the transcript, the session tree and the lines of the JSON   *)
(* and print modes, side by side.  Drawing and focus meet in the overlays that *)
(* are shown.                                                                  *)
(***************************************************************************)
EXTENDS Screen, Editor, UiTranscript, TreeSelector, ProductEvents

\* The product events the transcript is built from.
Ev(is, call, name, rows) == [is |-> is, call |-> call, name |-> name, rows |-> rows]
MCUiEvents ==
    {Ev("turn_started", 0, "", 0), Ev("delta", 0, "", 1), Ev("message_completed", 0, "", 0),
     Ev("tool_started", 1, "bash", 0), Ev("tool_updated", 1, "bash", 2), Ev("tool_completed", 1, "bash", 1),
     Ev("thinking", 0, "", 1), Ev("tool_failed", 1, "bash", 1),
     Ev("delegation_started", 1, "delegate", 1), Ev("delegation_completed", 1, "delegate", 2),
     Ev("compaction", 0, "", 1), Ev("prompt_failed", 0, "", 1), Ev("self_healing", 0, "", 1),
     Ev("other", 0, "", 0)}

\* A branch with a tool call, two roots, and one entry that is hidden by default.
MCForests ==
    {[parent |-> <<0, 1, 2, 2, 1, 5>>,
      kind |-> <<"user", "assistantTools", "toolResult", "user", "user", "assistantText">>,
      text |-> <<<<"a">>, <<"b">>, <<>>, <<"a", "b">>, <<"b">>, <<>>>>,
      call |-> <<0, 0, 2, 0, 0, 0>>, leaf |-> 4],
     [parent |-> <<0, 1, 0, 3, 3>>, kind |-> <<"user", "assistantText", "user", "setting", "user">>,
      text |-> <<<<"a">>, <<"b">>, <<"b">>, <<>>, <<"a">>>>, call |-> <<0, 0, 0, 0, 0>>, leaf |-> 2],
     [parent |-> <<0>>, kind |-> <<"setting">>, text |-> <<<<>>>>, call |-> <<0>>, leaf |-> 1]}

VARIABLE part    \* the part this behaviour is about

Parts == {"draw", "focus", "editor", "transcript", "tree", "lines"}

\* The terminal matters to the drawing only, the forest to the tree and the operation
\* to the lines: the other parts start on one of them.
MCInit ==
    /\ ScreenInit /\ EditorInit /\ UiTranscriptInit /\ part \in Parts
    /\ IF part = "tree" THEN TreeSelectorInit
       ELSE TreeSelectorInit /\ Len(sTree.parent) = 1
    /\ IF part = "lines" THEN ProductEventsInit
       ELSE /\ jMode = "print" /\ jRefused = TRUE /\ jOperation = "prompt"
            /\ jScript = [events |-> <<>>, outcome |-> "failed"]
            /\ jLog = <<>> /\ jChannel = <<>> /\ jLagged = FALSE /\ jOutcome = "running"
            /\ jAdapter = NewAdapter /\ jLines = <<>> /\ jExit = "running"
    /\ part # "editor" => vEd.text = <<>>
    /\ part # "draw" =>
          /\ yTui.surface = "inline" /\ yTerm.row = 0
          /\ yTerm.height = CHOOSE h \in YHeights : TRUE

MCNext ==
    /\ UNCHANGED part
    /\ \/ part = "draw" /\ (OverlayNext \/ DrawNext) /\ UNCHANGED <<vVars, uVars, sVars, jVars>>
       \/ part = "focus" /\ (OverlayNext \/ FocusNext) /\ UNCHANGED <<vVars, uVars, sVars, jVars>>
       \/ part = "editor" /\ EditorNext /\ UNCHANGED <<yVars, uVars, sVars, jVars>>
       \/ part = "transcript" /\ UiTranscriptNext /\ UNCHANGED <<yVars, vVars, sVars, jVars>>
       \/ part = "tree" /\ TreeSelectorNext /\ UNCHANGED <<yVars, vVars, uVars, jVars>>
       \/ part = "lines" /\ ProductEventsNext /\ UNCHANGED <<yVars, vVars, uVars, sVars>>

\* What the terminal shows is followed until a frame sinks below it: ScreenShows says
\* nothing of what comes after.
Afloat == ~yDrawn.sunk

Spec == MCInit /\ [][MCNext]_<<part, yVars, vVars, uVars, sVars, jVars>>
=============================================================================
