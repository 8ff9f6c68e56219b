-------------------------- MODULE InteractiveRoot --------------------------
(***************************************************************************)
(* InteractiveRoot and handle_root_input: which surface of the terminal      *)
(* interface gets a key, what it does to the surfaces and the editor, and    *)
(* what the root shows as the active session and the default profile.  What  *)
(* a key asks of the loop is the action that InteractiveLoop joins to it.    *)
(***************************************************************************)
EXTENDS Integers, FiniteSets, FiniteSetsExt, Sequences, SequencesExt

VARIABLES
    status,       \* InteractiveStatus
    surfaces,     \* the menus, selectors and forms that are open
    editor,       \* "empty" or "text"
    shownId,        \* active_session: a session id, 0 for none
    rootDefault   \* default_agent_profile_id as the root shows it

rootVars == <<status, surfaces, editor, shownId, rootDefault>>

\* handle_root_input asks them in this order.
Priority == <<"tree", "dialog", "delegations", "profiles", "reason", "profile_task",
              "model", "session", "settings">>
Surfaces == ToSet(Priority)
IsIdle == status = "Idle"

\* Only the tree selector is asked while a task runs.
Focus == LET asked == {i \in DOMAIN Priority :
                          Priority[i] \in surfaces /\ (IsIdle \/ Priority[i] = "tree")}
         IN IF asked = {} THEN "editor" ELSE Priority[Min(asked)]

Close(s, text) == surfaces' = surfaces \ {s} /\ editor' = text

\* open_delegation_confirmation_menu, open_agent_menu, handle_model_command and
\* the like: each closes the surfaces of its own family.
Family(s) == IF s \in {"delegations", "profiles"}
             THEN {"delegations", "profiles", "reason", "profile_task"}
             ELSE IF s \in {"model", "session", "settings"}
             THEN {"model", "session", "settings"} ELSE {}
Open(s) == surfaces' = (surfaces \ Family(s)) \cup {s} /\ editor' = "empty"

----------------------------------------------------------------------------
(* Keys that end in the root.                                                *)

\* ctrl+c and escape on a surface that takes them itself.
CancelSurface ==
    /\ Focus \in {"tree", "dialog", "delegations", "profiles", "reason", "profile_task"}
    /\ Close(Focus, "empty")

\* escape in one of the three selectors.
EscapeSelector ==
    /\ Focus \in {"model", "session", "settings"}
    /\ Close(Focus, "empty")

\* ctrl+c with text in the editor, the selectors' query included.
ClearEditor ==
    /\ IsIdle
    /\ Focus \in {"editor", "model", "session", "settings"}
    /\ editor = "text"
    /\ editor' = "empty"
    /\ UNCHANGED surfaces

\* A key the editor takes; a suggestion or a query field takes it the same way.
Type ==
    /\ Focus \in {"editor", "reason", "profile_task", "model", "session"}
    /\ editor = "empty"
    /\ editor' = "text"
    /\ UNCHANGED surfaces

\* handle_empty_editor_escape: the second escape within DOUBLE_ESCAPE_WINDOW, nothing
\* but the first one before it, runs /fork or /tree, as the settings say.
DoubleEscape == IsIdle /\ Focus = "editor" /\ editor = "empty"

\* Enter in the editor: the text is taken, and is a slash command or a prompt.
SubmitLine ==
    /\ IsIdle
    /\ Focus = "editor"
    /\ editor = "text"

\* A command that only prints, or one whose arguments do not parse.
PrintCommand == SubmitLine /\ editor' = "empty" /\ UNCHANGED surfaces

\* Commands without arguments open a surface; /resume only when the workspace has
\* sessions, /tree only with entries in the shown session.
OpenProfiles == SubmitLine /\ Open("profiles")
OpenModels == SubmitLine /\ Open("model")
OpenSessions == SubmitLine /\ Open("session")
OpenSettings == SubmitLine /\ Open("settings")
OpenTree == shownId # 0 /\ Open("tree")

\* The profile menu starts to ask for a task.
BeginProfileTask ==
    /\ Focus = "profiles"
    /\ surfaces' = (surfaces \ {"profiles"}) \cup {"profile_task"}
    /\ editor' = "empty"

\* R in the delegation menu asks for a reason.
AskReason ==
    /\ Focus = "delegations"
    /\ surfaces' = (surfaces \ {"delegations"}) \cup {"reason"}
    /\ editor' = "empty"

\* handle_plugin_keybinding_input, a key bound to a dialog, and
\* dispatch_plugin_ui_dialog, which puts the command into the editor.
OpenDialog ==
    /\ IsIdle
    /\ Focus = "editor"
    /\ surfaces' = surfaces \cup {"dialog"}
    /\ editor' = "text"

\* submit_active_plugin_dialog_form: the fields are not valid.
DialogInvalid == Focus = "dialog" /\ editor' = "text" /\ UNCHANGED surfaces

\* Keys that stay in the root.
RootKey ==
    /\ \/ CancelSurface \/ EscapeSelector \/ ClearEditor \/ Type
       \/ DoubleEscape /\ OpenTree
       \/ OpenProfiles \/ OpenModels \/ OpenSessions \/ OpenSettings
       \/ SubmitLine /\ OpenTree
       \/ PrintCommand \/ BeginProfileTask \/ AskReason \/ OpenDialog \/ DialogInvalid
    /\ UNCHANGED <<status, shownId, rootDefault>>

\* handle_slash_command: a command of the editor line that asks the loop.
SlashCommand == SubmitLine /\ editor' = "empty" /\ UNCHANGED surfaces

\* The handlers that ask only when a session is shown.
CompactCommand == SlashCommand /\ shownId # 0
BranchSummaryCommand == SlashCommand /\ shownId # 0
ForkCommand == SlashCommand /\ shownId # 0
CloneCommand == SlashCommand /\ shownId # 0

\* handle_empty_editor_escape runs handle_fork_command as well.
EscapeFork == DoubleEscape /\ shownId # 0 /\ UNCHANGED <<editor, surfaces>>

\* A choice in a surface that asks the loop, and the surfaces that have one.
Choose(s, text) == Focus = s /\ Close(s, text)
ChooseConfirmation == Choose("delegations", editor)
GiveReason == Choose("reason", "empty")
GiveTask == editor = "text" /\ Choose("profile_task", "empty")
ChooseProfile == Choose("profiles", editor)
ChooseTreeEntry == Choose("tree", editor)
ChooseSession == Choose("session", "empty")
SubmitDialog == Choose("dialog", "text")

\* /model <id>, the model selector and the rotation keys: the prompt context takes
\* the model, which no property tells apart.
ChooseModel == (SlashCommand \/ Choose("model", "empty")) /\ UNCHANGED <<status, shownId, rootDefault>>
=============================================================================
