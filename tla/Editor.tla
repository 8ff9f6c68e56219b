------------------------------- MODULE Editor -------------------------------
(***************************************************************************)
(* The prompt editor of the terminal user interface: text and cursor, undo    *)
(* and redo, kill ring, prompt history, jumps, large pastes shown as markers,  *)
(* completion, and the window of rows it draws.                                *)
(*                                                                           *)
(* A text is a sequence of graphemes, each one column wide and, but for an      *)
(* accented letter, one byte long.  A large paste is shown as a marker of two   *)
(* graphemes, so that half of it can be deleted.                               *)
(***************************************************************************)
EXTENDS Integers, Sequences, FiniteSets, SequencesExt

CONSTANTS
    ETyped,       \* graphemes that are typed
    EPastes,      \* names of large texts that are pasted
    EWidth,       \* columns of the editor
    EVisible,     \* rows drawn at most: 5, or 30 of 100 of the terminal's
    EUndoMax,     \* entries of UndoStack: 100
    EHistoryMax,  \* entries of the history: 100
    EMaxKeys,     \* bound: inputs
    EMaxText      \* bound: graphemes of a text

Letter  == 1
Space   == 2
NewLine == 3
Slash   == 4
Accent  == 5                   \* a letter of two bytes
MarkHead(n)   == 10 + n        \* the two halves of the marker of paste n
MarkTail(n) == 20 + n
Content(p) == 30 + p        \* what a large paste stands for

ASSUME EditorAssumption ==
    /\ ETyped \subseteq {Letter, Space, Slash, Accent} /\ EPastes \subseteq 1..9
    /\ {EWidth, EVisible, EUndoMax, EHistoryMax} \subseteq Nat \ {0}
    /\ {EMaxKeys, EMaxText} \subseteq Nat

VARIABLES
    vEd,       \* the Editor
    vKey,      \* history: the last input
    vKeys      \* inputs so far

vVars == <<vEd, vKey, vKeys>>

Nowhere == <<>>                                \* no last_yank
NoCompletion == [on |-> FALSE, prefix |-> <<>>, items |-> <<>>, selected |-> 0]

Snapshot(e) == <<e.text, e.cursor>>

Before(e, n) == SubSeq(e.text, 1, n)
After(e, n)  == SubSeq(e.text, n + 1, Len(e.text))

----------------------------------------------------------------------------
(* Undo: UndoStack, push_undo_snapshot, restore.                               *)

\* UndoStack::push drops the oldest entry over the limit.
Push(stack, s) ==
    LET all == Append(stack, s) IN
    IF Len(all) > EUndoMax THEN SubSeq(all, 2, Len(all)) ELSE all

PushUndoSnapshot(e) == [e EXCEPT !.undo = Push(@, Snapshot(e)), !.redo = <<>>]

Restore(e, s) ==
    [e EXCEPT !.text = s[1], !.cursor = s[2], !.action = "none", !.yank = Nowhere, !.index = 0]

Undo(e) ==
    IF e.undo = <<>> THEN e
    ELSE Restore([e EXCEPT !.undo = SubSeq(@, 1, Len(@) - 1), !.redo = Push(@, Snapshot(e))],
                 e.undo[Len(e.undo)])

Redo(e) ==
    IF e.redo = <<>> THEN e
    ELSE Restore([e EXCEPT !.redo = SubSeq(@, 1, Len(@) - 1), !.undo = Push(@, Snapshot(e))],
                 e.redo[Len(e.redo)])

----------------------------------------------------------------------------
(* Visual rows: push_visual_line_ranges, visual_lines and the rows of wrap_line *)
(* break at a new line and after EWidth columns.                               *)

VisualLines(text) ==
    LET step(a, i) ==
            IF text[i] = NewLine
            THEN [rows |-> Append(a.rows, <<a.start, i - 1>>), start |-> i, width |-> 0]
            ELSE IF a.width + 1 > EWidth
            THEN [rows |-> Append(a.rows, <<a.start, i - 1>>), start |-> i - 1, width |-> 1]
            ELSE [a EXCEPT !.width = @ + 1]
        all == FoldLeft(step, [rows |-> <<>>, start |-> 0, width |-> 0],
                        [i \in 1..Len(text) |-> i])
    IN Append(all.rows, <<all.start, Len(text)>>)

\* visual_line_at_cursor; current_visual_line_index looks as if moving up.
VisualLineAt(rows, cursor, down) ==
    LET holds(i) == /\ cursor >= rows[i][1]
                    /\ \/ cursor < rows[i][2]
                       \/ /\ cursor = rows[i][2]
                          /\ down \/ i = Len(rows) \/ rows[i + 1][1] # cursor
    IN CHOOSE i \in DOMAIN rows : holds(i) /\ \A j \in 1..(i - 1) : ~holds(j)

OnFirstVisualLine(e) == VisualLineAt(VisualLines(e.text), e.cursor, FALSE) = 1

OnLastVisualLine(e) ==
    LET rows == VisualLines(e.text) IN VisualLineAt(rows, e.cursor, FALSE) = Len(rows)

\* current_line_start, current_line_end.
LineStart(e) == LET nl == {i \in 1..e.cursor : e.text[i] = NewLine} IN
                IF nl = {} THEN 0 ELSE CHOOSE i \in nl : \A j \in nl : j <= i
LineEnd(e) == LET nl == {i \in (e.cursor + 1)..Len(e.text) : e.text[i] = NewLine} IN
              IF nl = {} THEN Len(e.text) ELSE (CHOOSE i \in nl : \A j \in nl : i <= j) - 1

\* find_word_backward, find_word_forward: what is neither white space nor punctuation is
\* a word, of a marker the second half.
IsWord(c) == c \notin {Space, NewLine, Slash} /\ \A n \in EPastes : c # MarkHead(n)

WordBackward(e) ==
    LET words == {i \in 1..e.cursor : IsWord(e.text[i])}
        last  == CHOOSE i \in words : \A j \in words : j <= i
        stops == {i \in 1..last : ~IsWord(e.text[i])}
    IN IF words = {} \/ stops = {} THEN 0 ELSE CHOOSE i \in stops : \A j \in stops : j <= i

WordForward(e) ==
    LET words == {i \in (e.cursor + 1)..Len(e.text) : IsWord(e.text[i])}
        first == CHOOSE i \in words : \A j \in words : i <= j
        stops == {i \in first..Len(e.text) : ~IsWord(e.text[i])}
    IN IF words = {} \/ stops = {} THEN Len(e.text)
       ELSE (CHOOSE i \in stops : \A j \in stops : i <= j) - 1

----------------------------------------------------------------------------
(* Edits.                                                                      *)

InsertWithoutUndo(e, text) ==
    [e EXCEPT !.text = Before(e, e.cursor) \o text \o After(e, e.cursor),
              !.cursor = @ + Len(text)]

\* insert: letters typed in a row are undone together.
Insert(e, c) ==
    LET word == c \in {Letter, Accent}
        kept == IF word /\ e.action = "type" THEN e ELSE PushUndoSnapshot(e)
    IN [InsertWithoutUndo(kept, <<c>>) EXCEPT
           !.action = IF word THEN "type" ELSE "none", !.yank = Nowhere, !.index = 0]

\* delete_backward, delete_forward.
DeleteRange(e, from, to) ==
    IF from >= to THEN e
    ELSE [PushUndoSnapshot(e) EXCEPT !.text = Before(e, from) \o After(e, to), !.cursor = from,
                                     !.action = "none", !.yank = Nowhere, !.index = 0]

\* KillRing::push.
PushKill(e, text, prepend) ==
    [e EXCEPT !.ring = IF e.action = "kill" /\ @ # <<>>
                       THEN [@ EXCEPT ![1] = IF prepend THEN text \o @ ELSE @ \o text]
                       ELSE <<text>> \o @,
              !.ringAt = 1]

\* Mutant of KillRange: what is killed in a row is undone together.
KillRangeTogether(e, from, to, prepend) ==
    IF from >= to THEN e
    ELSE [PushKill(IF e.action = "kill" THEN e ELSE PushUndoSnapshot(e),
                   SubSeq(e.text, from + 1, to), prepend) EXCEPT
             !.text = Before(e, from) \o After(e, to), !.cursor = from,
             !.action = "kill", !.yank = Nowhere, !.index = 0]

\* kill_range, and the cursor its callers leave at the start of the range.
KillRange(e, from, to, prepend) ==
    IF from >= to THEN e
    ELSE [PushKill(PushUndoSnapshot(e), SubSeq(e.text, from + 1, to), prepend) EXCEPT
             !.text = Before(e, from) \o After(e, to), !.cursor = from,
             !.action = "kill", !.yank = Nowhere, !.index = 0]

\* delete_to_line_start, delete_to_line_end: at the edge of a line the new line is killed.
DeleteToLineStart(e) ==
    IF LineStart(e) = e.cursor /\ e.cursor > 0 THEN KillRange(e, e.cursor - 1, e.cursor, TRUE)
    ELSE KillRange(e, LineStart(e), e.cursor, TRUE)

DeleteToLineEnd(e) ==
    IF LineEnd(e) = e.cursor /\ e.cursor < Len(e.text)
    THEN KillRange(e, e.cursor, e.cursor + 1, FALSE)
    ELSE KillRange(e, e.cursor, LineEnd(e), FALSE)

Yanked(e, text) ==
    [InsertWithoutUndo(e, text) EXCEPT !.yank = <<e.cursor, e.cursor + Len(text)>>,
                                       !.action = "yank", !.index = 0]

Yank(e) == IF e.ring = <<>> THEN e ELSE Yanked(PushUndoSnapshot(e), e.ring[e.ringAt])

YankPop(e) ==
    IF e.action # "yank" \/ e.yank = Nowhere \/ e.ring = <<>> THEN e
    ELSE LET next == (e.ringAt % Len(e.ring)) + 1
             cut  == [PushUndoSnapshot(e) EXCEPT
                         !.text = Before(e, e.yank[1]) \o After(e, e.yank[2]),
                         !.cursor = e.yank[1], !.ringAt = next]
         IN Yanked(cut, e.ring[next])

\* move_left, move_right, move_line_start, move_line_end, move_word_left, move_word_right.
MoveTo(e, n) == [e EXCEPT !.cursor = n, !.action = "none", !.yank = Nowhere]

\* move_vertical, cursor_at_visible_col.
MoveVertical(e, down) ==
    LET rows == VisualLines(e.text)
        i    == VisualLineAt(rows, e.cursor, down)
        j    == IF down THEN i + 1 ELSE i - 1
        col  == e.cursor - rows[i][1]
    IN IF j \notin DOMAIN rows THEN e
       ELSE MoveTo(e, IF rows[j][1] + col > rows[j][2] THEN rows[j][2] ELSE rows[j][1] + col)

\* jump_to_char: forward looks past the grapheme under the cursor.
JumpToChar(e, c) ==
    LET hits == IF e.jump = "forward"
                THEN {i \in (e.cursor + 1)..(Len(e.text) - 1) : e.text[i + 1] = c}
                ELSE {i \in 0..(e.cursor - 1) : e.text[i + 1] = c}
        done == [e EXCEPT !.jump = "none"]
    IN IF hits = {} THEN done
       ELSE MoveTo(done, CHOOSE i \in hits : \A j \in hits :
                             IF e.jump = "forward" THEN i <= j ELSE j <= i)

----------------------------------------------------------------------------
(* Completion: CombinedAutocompleteProvider, for a slash command at the start   *)
(* of the text before the cursor and for paths.  Attachments, variables, quotes  *)
(* and the home directory are left out.                                        *)

\* The commands and the files the provider finds, in its order; the base directory and
\* the root hold the same files and no other directory exists.
Commands == <<<<Accent>>, <<Letter, Accent>>>>
Files  == <<<<Letter>>, <<Accent>>>>

CancelAutocomplete(e) == [e EXCEPT !.completion = NoCompletion]

Has(text, c) == c \in ToSet(text)
StartsWith(text, c) == text # <<>> /\ text[1] = c
BlankText(text) == ToSet(text) \subseteq {Space}
TrimStart(text, c) ==
    LET rest == {i \in DOMAIN text : text[i] # c} IN
    IF rest = {} THEN <<>>
    ELSE SubSeq(text, CHOOSE i \in rest : \A j \in rest : i <= j, Len(text))

\* str::trim.
Trimmed(text) ==
    LET inner == {i \in DOMAIN text : text[i] \notin {Space, NewLine}} IN
    IF inner = {} THEN <<>>
    ELSE SubSeq(text, CHOOSE i \in inner : \A j \in inner : i <= j,
                      CHOOSE i \in inner : \A j \in inner : j <= i)

\* A length in bytes.
Size(text) == Len(text) + Cardinality({i \in DOMAIN text : text[i] = Accent})

\* The text before the cursor in its line, of lines_and_cursor.
LineBefore(e) == SubSeq(e.text, LineStart(e) + 1, e.cursor)

\* What follows the last c of a text; current_token is what follows the last space.
AfterLast(text, c) ==
    LET cuts == {0} \union {i \in DOMAIN text : text[i] = c} IN
    SubSeq(text, (CHOOSE i \in cuts : \A j \in cuts : j <= i) + 1, Len(text))
Token(before) == AfterLast(before, Space)

\* fuzzy_match: the letters of the query appear in the name in their order.
FuzzyMatch(query, name) ==
    \E at \in [DOMAIN query -> DOMAIN name] :
        /\ \A i, j \in DOMAIN query : i < j => at[i] < at[j]
        /\ \A i \in DOMAIN query : name[at[i]] = query[i]

\* file_suggestions: the files of the token's directory whose names go on as it does.
FileSuggestions(token) ==
    LET rest == AfterLast(token, Slash)
        dir  == SubSeq(token, 1, Len(token) - Len(rest))
        here == SelectSeq(Files, LAMBDA name : IsPrefix(rest, name))
    IN IF ToSet(dir) \subseteq {Slash} THEN [i \in DOMAIN here |-> dir \o here[i]] ELSE <<>>

\* get_suggestions and extract_path_prefix: a path is a token with a slash in it, an empty
\* one after a space and, when forced, any.
Suggestions(before, force) ==
    LET token == Token(before)
        query == TrimStart(before, Slash)
        path  == force \/ Has(token, Slash) \/ (token = <<>> /\ before # <<>>)
        none  == [prefix |-> <<>>, items |-> <<>>]
    IN IF ~force /\ StartsWith(before, Slash)
       THEN IF Has(before, Space) THEN none
            ELSE [prefix |-> before,
                  items |-> SelectSeq(Commands, LAMBDA name : FuzzyMatch(query, name))]
       ELSE IF path THEN [prefix |-> token, items |-> FileSuggestions(token)] ELSE none

\* apply_autocomplete_item, and apply_completion of its provider: as many bytes as the
\* prefix has are replaced before the cursor, wherever the cursor is by now; a byte that
\* starts no grapheme is a slice inside a letter, which panics.
ApplyAutocompleteItem(e, item, prefix) ==
    LET before == LineBefore(e)
        start  == IF Size(prefix) > Size(before) THEN 0 ELSE Size(before) - Size(prefix)
        starts == {n \in 0..Len(before) : Size(SubSeq(before, 1, n)) = start}
        kept   == SubSeq(before, 1, CHOOSE n \in starts : TRUE)
        command == StartsWith(prefix, Slash) /\ BlankText(kept) /\ ~Has(Tail(prefix), Slash)
        put    == IF command THEN <<Slash>> \o item \o <<Space>> ELSE item
        from   == LineStart(e) + Len(kept)
    IN IF starts = {} THEN [e EXCEPT !.panicked = TRUE]
       ELSE [CancelAutocomplete(PushUndoSnapshot(e)) EXCEPT
                !.text = Before(e, from) \o put \o After(e, e.cursor),
                !.cursor = from + Len(put), !.index = 0, !.action = "none", !.yank = Nowhere]

\* best_autocomplete_match: the item that is the prefix, else the first that goes on as
\* it does, else the first.
BestMatch(items, prefix) ==
    LET same == {i \in DOMAIN items : items[i] = prefix}
        on   == {i \in DOMAIN items : IsPrefix(prefix, items[i])}
        best == IF same # {} THEN same ELSE on
    IN IF best = {} THEN 1 ELSE CHOOSE i \in best : \A j \in best : i <= j

\* should_trigger_file_completion.
MayBePath(before) == LET t == Trimmed(before) IN ~StartsWith(t, Slash) \/ Has(t, Space)

\* request_autocomplete; only a forced request is an explicit one.
RequestAutocomplete(e, force) ==
    LET s == Suggestions(LineBefore(e), force) IN
    IF force /\ ~MayBePath(LineBefore(e)) THEN e
    ELSE IF s.items = <<>> THEN CancelAutocomplete(e)
    ELSE IF force /\ Len(s.items) = 1 THEN ApplyAutocompleteItem(e, s.items[1], s.prefix)
    ELSE [e EXCEPT !.completion = [on |-> TRUE, prefix |-> s.prefix, items |-> s.items,
                                   selected |-> BestMatch(s.items, s.prefix)]]

\* handle_tab_completion.
HandleTab(e) ==
    LET c == e.completion
        typed == TrimStart(LineBefore(e), Space)
    IN IF c.on THEN ApplyAutocompleteItem(e, c.items[c.selected], c.prefix)
       ELSE RequestAutocomplete(e, ~StartsWith(typed, Slash) \/ Has(typed, Space))

\* The keys that a list of completions takes for itself.
CompletionKeys == {"escape", "up", "down", "tab", "enter"}

HandleCompletionKey(e, key) ==
    LET c == e.completion
        n == Len(c.items)
    IN CASE key = "escape" -> CancelAutocomplete(e)
         [] key = "up"     -> [e EXCEPT !.completion.selected = ((@ + n - 2) % n) + 1]
         [] key = "down"   -> [e EXCEPT !.completion.selected = (@ % n) + 1]
         [] OTHER          -> ApplyAutocompleteItem(e, c.items[c.selected], c.prefix)

----------------------------------------------------------------------------
(* History, pastes, submission.                                                *)

\* replace_text_for_history.
ReplaceTextForHistory(e, text) ==
    [CancelAutocomplete(e) EXCEPT !.text = text, !.cursor = Len(text), !.scroll = 0,
                                  !.action = "none", !.yank = Nowhere]

\* navigate_history_up: leaving the draft keeps it for undo.
NavigateHistoryUp(e) ==
    LET kept == IF e.index = 0 THEN PushUndoSnapshot(e) ELSE e IN
    IF e.history = <<>> \/ e.index = Len(e.history) THEN e
    ELSE ReplaceTextForHistory([kept EXCEPT !.index = @ + 1], e.history[e.index + 1])

NavigateHistoryDown(e) ==
    IF e.index = 0 THEN e
    ELSE ReplaceTextForHistory([e EXCEPT !.index = @ - 1],
                               IF e.index = 1 THEN <<>> ELSE e.history[e.index - 1])

\* expand_paste_markers: only a whole marker is replaced.
Expanded(e) ==
    LET marker(i) == /\ i < Len(e.text)
                     /\ \E n \in DOMAIN e.pastes : e.text[i] = MarkHead(n) /\ e.text[i + 1] = MarkTail(n)
        put(out, i) == IF marker(i) THEN Append(out, Content(e.pastes[e.text[i] - 10]))
                       ELSE IF i > 1 /\ marker(i - 1) THEN out ELSE Append(out, e.text[i])
    IN FoldLeft(put, <<>>, [i \in 1..Len(e.text) |-> i])

\* add_to_history: empty texts and repetitions are left out, the oldest goes.
AddToHistory(e, text) ==
    LET t == Trimmed(text) IN
    IF t = <<>> \/ (e.history # <<>> /\ e.history[1] = t) THEN e
    ELSE [e EXCEPT !.history = SubSeq(<<t>> \o @, 1, IF Len(@) < EHistoryMax THEN Len(@) + 1
                                                     ELSE EHistoryMax)]

\* handle_paste: a large paste is kept aside under the next number.
HandlePaste(e, p) ==
    LET n    == e.pasted + 1
        calm == [CancelAutocomplete(e) EXCEPT !.index = 0, !.action = "none", !.yank = Nowhere,
                    !.pasted = n,
                    !.pastes = [m \in DOMAIN @ \union {n} |-> IF m = n THEN p ELSE @[m]]]
    IN InsertWithoutUndo(PushUndoSnapshot(calm), <<MarkHead(n), MarkTail(n)>>)

\* submit, the callback of the interactive root that enters the text in the history
\* included.
Submit(e) ==
    [AddToHistory(CancelAutocomplete(e), Expanded(e)) EXCEPT
        !.text = <<>>, !.cursor = 0, !.undo = <<>>, !.redo = <<>>, !.action = "none",
        !.yank = Nowhere, !.index = 0, !.scroll = 0, !.pastes = <<>>, !.pasted = 0]

\* set_text.
SetText(e, text) ==
    [CancelAutocomplete(e) EXCEPT !.text = text, !.cursor = Len(text), !.undo = <<>>,
        !.redo = <<>>, !.action = "none", !.yank = Nowhere, !.index = 0, !.scroll = 0]

----------------------------------------------------------------------------
(* Drawing: the rows of wrap_multiline, one more when the text ends in a new     *)
(* line and the cursor's marker does not follow it; the window follows the      *)
(* cursor.                                                                      *)

LayoutRows(e) ==
    Len(VisualLines(e.text)) +
        (IF e.text # <<>> /\ e.text[Len(e.text)] = NewLine
            /\ ~(e.focused /\ e.cursor = Len(e.text)) THEN 1 ELSE 0)

MaxVisible(e) == IF EVisible < LayoutRows(e) THEN EVisible ELSE LayoutRows(e)

Rendered(e) ==
    LET line   == VisualLineAt(VisualLines(e.text), e.cursor, FALSE) - 1
        follow == IF line < e.scroll THEN line
                  ELSE IF line >= e.scroll + MaxVisible(e) THEN line - MaxVisible(e) + 1
                  ELSE e.scroll
        most   == LayoutRows(e) - MaxVisible(e)
    IN [e EXCEPT !.scroll = IF follow > most THEN most ELSE follow, !.drawn = TRUE]

----------------------------------------------------------------------------
(* Input: handle_input_inner, in the order in which it looks at a key.          *)

\* refresh_regular_autocomplete, which follows typing and deleting.
Refreshed(e) == RequestAutocomplete(e, FALSE)

EditKeys == [ killLineEnd    |-> "edit", killLineStart |-> "edit", killWordBack |-> "edit",
              killWordForth  |-> "edit", backspace     |-> "edit", delete       |-> "edit" ]

HandleEdit(e, key) ==
    Refreshed(CASE key = "killLineEnd"   -> DeleteToLineEnd(e)
                [] key = "killLineStart" -> DeleteToLineStart(e)
                [] key = "killWordBack"  -> KillRange(e, WordBackward(e), e.cursor, TRUE)
                [] key = "killWordForth" -> KillRange(e, e.cursor, WordForward(e), FALSE)
                [] key = "backspace"     ->
                     DeleteRange(e, IF e.cursor = 0 THEN 0 ELSE e.cursor - 1, e.cursor)
                [] OTHER                 ->
                     DeleteRange(e, e.cursor, IF e.cursor = Len(e.text) THEN e.cursor
                                              ELSE e.cursor + 1))

MoveKeys == {"home", "end", "wordLeft", "wordRight", "left", "right", "up", "down"}

HandleMove(e, key) ==
    CASE key = "home"      -> MoveTo(e, LineStart(e))
      [] key = "end"       -> MoveTo(e, LineEnd(e))
      [] key = "wordLeft"  -> MoveTo(e, WordBackward(e))
      [] key = "wordRight" -> MoveTo(e, WordForward(e))
      [] key = "left"      -> MoveTo(e, IF e.cursor = 0 THEN 0 ELSE e.cursor - 1)
      [] key = "right"     -> MoveTo(e, IF e.cursor = Len(e.text) THEN e.cursor
                                        ELSE e.cursor + 1)
      [] key = "up"        -> IF e.text = <<>> \/ (e.index > 0 /\ OnFirstVisualLine(e))
                              THEN NavigateHistoryUp(e)
                              ELSE IF OnFirstVisualLine(e) THEN MoveTo(e, LineStart(e))
                              ELSE MoveVertical(e, FALSE)
      [] OTHER             -> IF e.index > 0 /\ OnLastVisualLine(e) THEN NavigateHistoryDown(e)
                              ELSE IF OnLastVisualLine(e) THEN MoveTo(e, LineEnd(e))
                              ELSE MoveVertical(e, TRUE)

OtherKeys == {"undo", "redo", "newLine", "enter", "tab", "yank", "yankPop",
              "jumpForward", "jumpBackward", "escape"}

HandleOther(e, key) ==
    CASE key = "undo"    -> Undo(e)
      [] key = "redo"    -> Redo(e)
      [] key = "newLine" -> CancelAutocomplete(Insert(e, NewLine))
      [] key = "enter"   -> Submit(e)
      [] key = "tab"     -> HandleTab(e)
      [] key = "yank"    -> Yank(e)
      [] key = "yankPop" -> YankPop(e)
      [] key = "jumpForward"  -> [CancelAutocomplete(e) EXCEPT !.jump = "forward"]
      [] key = "jumpBackward" -> [CancelAutocomplete(e) EXCEPT !.jump = "backward"]
      [] OTHER -> e

HandleKey(e, key) ==
    CASE e.completion.on /\ key \in CompletionKeys -> HandleCompletionKey(e, key)
      [] key \in DOMAIN EditKeys -> HandleEdit(e, key)
      [] key \in MoveKeys        -> HandleMove(e, key)
      [] OTHER                   -> HandleOther(e, key)

\* handle_pending_jump: the jump keys end the wait, another key ends it and is handled.
KeyInput ==
    \E key \in DOMAIN EditKeys \union MoveKeys \union OtherKeys :
        /\ vKey' = key
        /\ vEd' = IF vEd.jump # "none" /\ key \in {"jumpForward", "jumpBackward"}
                  THEN [vEd EXCEPT !.jump = "none"]
                  ELSE [HandleKey([vEd EXCEPT !.jump = "none"], key) EXCEPT !.drawn = FALSE]

\* A typed character: the target of a pending jump, or text.
CharInput ==
    \E c \in ETyped :
        /\ vKey' = "char"
        /\ vEd' = [IF vEd.jump # "none" THEN JumpToChar(vEd, c) ELSE Refreshed(Insert(vEd, c))
                      EXCEPT !.drawn = FALSE]

PasteInput ==
    \E p \in EPastes :
        /\ vEd.pasted < 9
        /\ vKey' = "paste"
        /\ vEd' = [HandlePaste([vEd EXCEPT !.jump = "none"], p) EXCEPT !.drawn = FALSE]

\* A text that the program puts into the editor.
Draft == <<Accent, Space>>

SetTextCalled ==
    \E text \in {<<>>, Draft} :
        vKey' = "setText" /\ vEd' = [SetText(vEd, text) EXCEPT !.drawn = FALSE]

Render == ~vEd.drawn /\ vKey' = "render" /\ vEd' = Rendered(vEd)

SetFocused == vKey' = "focus" /\ vEd' = [vEd EXCEPT !.focused = ~@, !.drawn = FALSE]

\* Editor::new, a draft set in it or not.
EditorInit ==
    /\ \E text \in {<<>>, Draft} :
       vEd = [text |-> text, cursor |-> Len(text), undo |-> <<>>, redo |-> <<>>, action |-> "none",
              yank |-> Nowhere, ring |-> <<>>, ringAt |-> 1, history |-> <<>>, index |-> 0,
              jump |-> "none", pastes |-> <<>>, pasted |-> 0, completion |-> NoCompletion,
              scroll |-> 0, focused |-> TRUE, drawn |-> FALSE, panicked |-> FALSE]
    /\ vKey = "none" /\ vKeys = 0

EditorNext ==
    /\ ~vEd.panicked
    /\ \/ Render /\ UNCHANGED vKeys
       \/ /\ vKeys < EMaxKeys /\ vKeys' = vKeys + 1
          /\ KeyInput \/ CharInput \/ PasteInput \/ SetTextCalled \/ SetFocused
          /\ Len(vEd'.text) <= EMaxText

----------------------------------------------------------------------------
(* Properties *)

\* The row of the cursor is among the rows drawn, whatever was typed, deleted or moved
\* since the last time, and the window never starts past the last row.
CursorRowDrawn ==
    vEd.drawn =>
        LET line == VisualLineAt(VisualLines(vEd.text), vEd.cursor, FALSE) - 1 IN
        line >= vEd.scroll /\ line < vEd.scroll + MaxVisible(vEd)

\* What yank_pop will replace is what the last yank put there: as long as a yank is the
\* last action, its range holds the ring's current entry and ends at the cursor.  No
\* input leaves the cursor, the history index, the ring or the selected completion pointing
\* past what they point into.  And the cursor's row is drawn.
EditorSound ==
    /\ vEd.cursor \in 0..Len(vEd.text)
    /\ vEd.index \in 0..Len(vEd.history)
    /\ vEd.completion.on => vEd.completion.selected \in DOMAIN vEd.completion.items
    /\ vEd.action = "yank" =>
          /\ vEd.yank[2] = vEd.cursor
          /\ SubSeq(vEd.text, vEd.yank[1] + 1, vEd.yank[2]) = vEd.ring[vEd.ringAt]
    /\ CursorRowDrawn

\* No key destroys text for good: unless the text was submitted or set by the program,
\* what a key removes can be had back with undo or redo, or from the history.
TextRecoverable ==
    [][ \/ vEd'.text = vEd.text
        \/ vKey' \in {"setText", "enter"}
        \/ \E s \in ToSet(vEd'.undo) \union ToSet(vEd'.redo) : s[1] = vEd.text
        \/ vEd.text \in ToSet(vEd.history)
        \/ /\ Len(vEd'.text) > Len(vEd.text)
           /\ vEd.text = Before(vEd', vEd.cursor) \o After(vEd', vEd'.cursor) ]_vVars

\* The text that accepting a completion replaces is the one the list was made for.
CompletionFits(e) == e.completion.on => IsSuffix(e.completion.prefix, LineBefore(e))

\* The keys that move the cursor or change the text and keep the list as it is.
StaleKeys == {"home", "end", "wordLeft", "wordRight", "left", "right",
              "undo", "redo", "yank", "yankPop"}

\* A list of completions goes stale by one of the StaleKeys only: every other input makes
\* the list anew, drops it or leaves its text alone.  Accepting a stale one is the only
\* way into the slice in apply_completion that panics (autocomplete.rs:180-182).
CompletionsFollow ==
    [][ /\ CompletionFits(vEd) /\ vKey' \notin StaleKeys => CompletionFits(vEd')
        /\ vEd'.panicked => ~CompletionFits(vEd) /\ vKey' \in {"tab", "enter"} ]_vVars

\* The editor keeps its places valid, loses no text and follows it with its completions
\* (editor.rs, undo_stack.rs, kill_ring.rs, autocomplete.rs), for every sequence of keys.
EditorKeeps == []EditorSound /\ TextRecoverable /\ CompletionsFollow
=============================================================================
