------------------------------ MODULE Settings ------------------------------
(***************************************************************************)
(* The settings and the keys of the coding agent: two files merged into    *)
(* the settings in effect (config/settings.rs), the menu that changes them *)
(* (InteractiveRoot, pi-tui SettingsList), the write-back of what was      *)
(* changed, and the key file (config/auth.rs) behind /login and /logout.   *)
(* Several processes share the files, and so does an editor.               *)
(*                                                                         *)
(* A settings file is a table from paths to values: a section such as      *)
(* [terminal] is its paths, so the field by field merge of two sections is *)
(* a merge of tables.  "bad" is a file with a line that is no TOML; its    *)
(* table is what a reader of the text sees in it.                          *)
(***************************************************************************)
EXTENDS Integers, Sequences, FiniteSets

CONSTANTS
  GProcs,      \* processes that may run at one time
  GItems,      \* the items of the menu, in order: a sequence of paths
  GChoices,    \* [item -> the sequence of the values it cycles through]
  GDefaults,   \* [item -> its value when no file sets it]
  GContents,   \* tables a person may write into a settings file
  GProviders,  \* providers a key can be stored for; one of them is used
  GUsed,
  GEnvs,       \* set of [cli, env, var : BOOLEAN]
  GVisible,    \* rows of the menu drawn at once
  GMaxOps      \* bound on the steps people take: launches, edits, changes

ASSUME SettingsAssumption ==
  /\ GUsed \in GProviders
  /\ Len(GItems) \in Nat \ {0} /\ DOMAIN GItems = 1..Len(GItems)
  /\ \A k \in DOMAIN GItems :
       GDefaults[GItems[k]] \in STRING /\ GItems[k] \notin {"skills", "odd"}
  /\ GVisible \in Nat \ {0}
  /\ "none" \notin GProcs

VARIABLES
  gFiles,   \* [scope -> [kind, at]]: the two settings.toml
  gAuth,    \* [kind, at]: auth.toml, at: provider -> kind of entry
  gEnv,     \* is there a key argument, a key in the environment, and the
            \* variable a "$VAR" entry names
  gProc,    \* [process -> its state]
  gWriter,  \* the process whose changes the global file holds, or "none"
  gIntact,  \* no write over a file not parsed, changed meanwhile or torn
  gPersonal,\* the table the person wrote into the global file last
  gOps

gVars == <<gFiles, gAuth, gEnv, gProc, gWriter, gIntact, gPersonal, gOps>>

Items == {GItems[k] : k \in DOMAIN GItems}
NoTable == [k \in {} |-> ""]
NoFile == [kind |-> "absent", at |-> NoTable]
Entry(k, v) == [x \in {k} |-> v]
Over(over, base) ==
  [k \in DOMAIN over \cup DOMAIN base |-> IF k \in DOMAIN over THEN over[k] ELSE base[k]]

\* The paths of the files that are no menu items: "skills", a list whose
\* entries of both files are used, and "odd", a name no setting has.
Lists == {"skills"}

(***************************************************************************)
(* Loading.                                                                *)
(***************************************************************************)

\* A file that is missing, does not parse or has a name no setting has
\* (deny_unknown_fields) counts as empty.
LoadPartial(file) ==
  IF file.kind = "table" /\ "odd" \notin DOMAIN file.at
  THEN file.at ELSE NoTable

\* PartialSettings::merge: the project's value before the global one, both
\* for a list.
MergePartial(base, over) ==
  [k \in DOMAIN base \cup DOMAIN over |->
     IF k \in Lists \cap DOMAIN base \cap DOMAIN over
     THEN base[k] \o over[k]
     ELSE IF k \in DOMAIN over THEN over[k] ELSE base[k]]

\* PartialSettings::resolve.
ResolveSettings(partial) ==
  [k \in Items |->
     IF k \in DOMAIN partial THEN partial[k] ELSE GDefaults[k]]

LoadSettings(files) ==
  ResolveSettings(MergePartial(LoadPartial(files.global),
                               LoadPartial(files.project)))

\* AuthStore::load.
LoadAuth(file) == IF file.kind = "table" THEN file.at ELSE NoTable

\* resolve_config_value: an entry that names an unset variable is none.
Expand(entry, env) == IF entry = "$VAR" /\ ~env.var THEN "none" ELSE entry

\* resolve_api_key: the argument, the environment, then the stored entry.
ResolveKey(store, env) ==
  IF env.cli THEN "argument"
  ELSE IF env.env THEN "environment"
  ELSE IF GUsed \in DOMAIN store THEN Expand(store[GUsed], env)
  ELSE "none"

(***************************************************************************)
(* The menu.                                                               *)
(***************************************************************************)

\* build_settings_list: the value of each setting, known to the menu or not.
BuildList(settings) == [k \in Items |-> settings[k]]

\* The rows drawn around the selected one.
Window(sel) ==
  LET from == LET half == sel - 1 - (GVisible \div 2)
                  last == Len(GItems) - GVisible
                  low == IF half < 0 THEN 0 ELSE half
                  high == IF last < 0 THEN 0 ELSE last
              IN  IF low < high THEN low ELSE high
  IN  (from + 1) .. (IF from + GVisible < Len(GItems)
                     THEN from + GVisible ELSE Len(GItems))

\* activate_selected: the value after the shown one; the first value when
\* the shown one is none of the choices.
NextChoice(item, shown) ==
  LET values == GChoices[item]
      found == {k \in DOMAIN values : values[k] = shown}
  IN  IF found = {} THEN values[1]
      ELSE LET k == CHOOSE f \in found : TRUE
           IN  values[(k % Len(values)) + 1]

\* apply_settings_value, and the loop takes the settings into its context.
ApplyValue(st, item, value) ==
  LET settings == [st.eff EXCEPT ![item] = value]
  IN  [st EXCEPT !.shown[item] = value,
                 !.eff = settings,
                 !.ctx = settings,
                 !.delta = Over(Entry(item, value), @)]

(***************************************************************************)
(* A process: launch, the menu, reload, and its end.                       *)
(***************************************************************************)

Down == [pc |-> "down"]

\* resolve_cli_context and build_prompt_context, seen from the root.
Context(delta) ==
  LET settings == LoadSettings(gFiles)
      store == LoadAuth(gAuth)
  IN  [pc |-> "ready", open |-> FALSE, sel |-> 1,
       shown |-> BuildList(settings), eff |-> settings, ctx |-> settings,
       delta |-> delta, text |-> NoFile,
       store |-> store, saved |-> TRUE, key |-> ResolveKey(store, gEnv)]

Counted == gOps < GMaxOps /\ gOps' = gOps + 1

Launch(p) ==
  /\ gProc[p].pc = "down"
  /\ Counted
  /\ gProc' = [gProc EXCEPT ![p] = Context(NoTable)]
  /\ UNCHANGED <<gFiles, gAuth, gEnv, gWriter, gIntact, gPersonal>>

\* /reload: everything is read again but what was changed here is kept to
\* be written with the next change.
Reload(p) ==
  /\ gProc[p].pc = "ready" /\ ~gProc[p].open
  /\ Counted
  /\ gProc' = [gProc EXCEPT ![p] = Context(gProc[p].delta)]
  /\ UNCHANGED <<gFiles, gAuth, gEnv, gWriter, gIntact, gPersonal>>

\* /settings, and escape.
ToggleMenu(p) ==
  /\ gProc[p].pc = "ready"
  /\ gProc' = [gProc EXCEPT ![p].open = ~@]
  /\ UNCHANGED <<gFiles, gAuth, gEnv, gWriter, gIntact, gPersonal, gOps>>

\* Arrows and page keys go round the list.
MoveSelection(p) ==
  /\ gProc[p].pc = "ready" /\ gProc[p].open
  /\ \E delta \in {-1, 1, -GVisible, GVisible} :
       gProc' = [gProc EXCEPT ![p].sel = ((@ - 1 + delta) % Len(GItems)) + 1]
  /\ UNCHANGED <<gFiles, gAuth, gEnv, gWriter, gIntact, gPersonal, gOps>>

\* Enter or space changes the selected setting; merge_and_save_settings
\* reads the global file, or gives up when it cannot.
Change(p) ==
  LET item == GItems[gProc[p].sel]
      value == NextChoice(item, gProc[p].shown[item])
      changed == ApplyValue(gProc[p], item, value)
  IN  /\ gProc[p].pc = "ready" /\ gProc[p].open
      /\ Counted
      /\ \/ /\ gProc' = [gProc EXCEPT ![p] =
                 [changed EXCEPT !.pc = "saving", !.text = gFiles.global]]
            /\ UNCHANGED gWriter
         \/ gProc' = [gProc EXCEPT ![p] = changed] /\ gWriter' = "none"
      /\ UNCHANGED <<gFiles, gAuth, gEnv, gIntact, gPersonal>>

\* Mutant of MergeTables: the file is what was changed here.
MergeTablesOver(text, delta) == delta

\* merge_toml_tables over what was read; a file that did not parse is read
\* as an empty table.
MergeTables(text, delta) ==
  Over(delta, IF text.kind = "table" THEN text.at ELSE NoTable)

WriteSettings(p) ==
  /\ gProc[p].pc = "saving"
  /\ gFiles' = [gFiles EXCEPT !.global =
       [kind |-> "table", at |-> MergeTables(gProc[p].text, gProc[p].delta)]]
  /\ gProc' = [gProc EXCEPT ![p].pc = "ready", ![p].text = NoFile]
  /\ gWriter' = p
  /\ gIntact' = (gIntact /\ gProc[p].text = gFiles.global
                         /\ gFiles.global.kind # "bad")
  /\ UNCHANGED <<gAuth, gEnv, gPersonal, gOps>>

\* The diagnostics of a failed save are dropped.
SaveFails(p) ==
  /\ gProc[p].pc = "saving"
  /\ gProc' = [gProc EXCEPT ![p].pc = "ready", ![p].text = NoFile]
  /\ gWriter' = "none"
  /\ UNCHANGED <<gFiles, gAuth, gEnv, gIntact, gPersonal, gOps>>

\* A process ends; within fs::write it leaves the file cut off: empty, or
\* somewhere within a line.
Ends(p) ==
  /\ gProc[p].pc # "down"
  /\ gProc' = [gProc EXCEPT ![p] = Down]
  /\ \/ UNCHANGED <<gFiles, gIntact, gWriter>>
     \/ /\ gProc[p].pc = "saving"
        /\ \E kind \in {"table", "bad"} :
             gFiles' = [gFiles EXCEPT !.global = [kind |-> kind, at |-> NoTable]]
        /\ gIntact' = FALSE
        /\ gWriter' = p
  /\ UNCHANGED <<gAuth, gEnv, gPersonal, gOps>>

(***************************************************************************)
(* Keys.                                                                   *)
(***************************************************************************)

\* AuthStore::save writes the whole store of this process; the loop takes
\* it and resolves the key again (mark_auth_updated).
SaveAuth(p, store) ==
  /\ gAuth' = [kind |-> "table", at |-> store]
  /\ gProc' = [gProc EXCEPT ![p].store = store, ![p].saved = TRUE,
                            ![p].key = ResolveKey(store, gEnv)]

\* A save that fails leaves the change in the root only.
SaveAuthFails(p, store) ==
  /\ gProc' = [gProc EXCEPT ![p].store = store, ![p].saved = FALSE]
  /\ UNCHANGED gAuth

\* /login and /logout.
LoginOrOut(p) ==
  /\ gProc[p].pc = "ready" /\ ~gProc[p].open
  /\ Counted
  /\ \E provider \in GProviders :
       LET old == gProc[p].store IN
       \E store \in {Over(Entry(provider, "api"), old),
                     [k \in DOMAIN old \ {provider} |-> old[k]]} :
         SaveAuth(p, store) \/ SaveAuthFails(p, store)
  /\ UNCHANGED <<gFiles, gEnv, gWriter, gIntact, gPersonal>>

\* A person edits one of the files.
PersonEdits ==
  /\ Counted
  /\ \/ \E scope \in {"global", "project"}, at \in GContents,
           kind \in {"table", "bad"} :
          /\ gFiles' = [gFiles EXCEPT ![scope] = [kind |-> kind, at |-> at]]
          /\ IF scope = "global"
             THEN gWriter' = "none" /\ gPersonal' = at /\ gIntact' = TRUE
             ELSE UNCHANGED <<gWriter, gPersonal, gIntact>>
          /\ UNCHANGED gAuth
     \/ /\ \E entry \in {"$VAR", "oauth"}, kind \in {"table", "bad"} :
             gAuth' = [kind |-> kind, at |-> Entry(GUsed, entry)]
        /\ UNCHANGED <<gFiles, gWriter, gPersonal, gIntact>>
  /\ UNCHANGED <<gEnv, gProc>>

SettingsInit ==
  /\ gFiles = [global |-> NoFile, project |-> NoFile]
  /\ gAuth = NoFile
  /\ gEnv \in GEnvs
  /\ gProc = [p \in GProcs |-> Down]
  /\ gWriter = "none"
  /\ gIntact = TRUE
  /\ gPersonal = NoTable
  /\ gOps = 0

SettingsNext ==
  \/ \E p \in GProcs :
       \/ Launch(p) \/ Reload(p) \/ ToggleMenu(p) \/ MoveSelection(p)
       \/ Change(p) \/ WriteSettings(p) \/ SaveFails(p) \/ Ends(p)
       \/ LoginOrOut(p)
  \/ PersonEdits

SettingsSpec == SettingsInit /\ [][SettingsNext]_gVars

(***************************************************************************)
(* Properties.                                                             *)
(***************************************************************************)

Live == {p \in GProcs : gProc[p].pc # "down"}

\* The menu, the root and the loop agree on every setting, and the selected
\* row is drawn.
ShownIsUsed ==
  \A p \in Live :
    /\ gProc[p].shown = gProc[p].eff
    /\ gProc[p].ctx = gProc[p].eff
    /\ gProc[p].sel \in Window(gProc[p].sel)

\* What this process changed is what a launch gets from the files, when this
\* process's save was the last to the global file and the file loads, unless
\* the project sets it.
ChangesLast ==
  \A p \in Live :
    (gWriter = p /\ gProc[p].pc = "ready" /\ gIntact) =>
      \A k \in DOMAIN gProc[p].delta :
        \/ "odd" \in DOMAIN gFiles.global.at
        \/ k \in DOMAIN LoadPartial(gFiles.project)
        \/ LoadSettings(gFiles)[k] = gProc[p].delta[k]

\* A process's write never takes a setting a person wrote out of the file,
\* when it was over the file it read and the file was TOML: only a value the
\* menu changed differs.
PersonalKept ==
  (gIntact /\ gFiles.global.kind = "table") =>
    \A k \in DOMAIN gPersonal :
      /\ k \in DOMAIN gFiles.global.at
      /\ k \notin Items => gFiles.global.at[k] = gPersonal[k]

\* The key the prompts of a process use is the one its store resolves to,
\* until a save fails.
KeyIsCurrent ==
  \A p \in Live : gProc[p].saved => gProc[p].key = ResolveKey(gProc[p].store, gEnv)

\* Settings are used as shown, written without loss and read back as written
\* (apply_settings_value, merge_and_save_settings, load_settings, /login),
\* for every order of changes, edits, reloads, failed saves and crashes of
\* processes that share the files.
SettingsKept == ShownIsUsed /\ ChangesLast /\ PersonalKept /\ KeyIsCurrent
=============================================================================
