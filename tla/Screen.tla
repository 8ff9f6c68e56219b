------------------------------- MODULE Screen -------------------------------
(***************************************************************************)
(* The terminal user interface's screen: components and overlays render a     *)
(* frame of lines, Tui::render_once brings the rows of the terminal from the   *)
(* previous frame to this one with as few writes as it can, and input goes to  *)
(* the component that has the focus.                                           *)
(*                                                                           *)
(* A line is a number, Blank an empty row, Image a line that places an image,  *)
(* Smear a row written over without being cleared.  Rows of the terminal and   *)
(* lines of a frame count from 0, as in the code.                              *)
(***************************************************************************)
EXTENDS Integers, Sequences, FiniteSets, SequencesExt

CONSTANTS
    YHeights,        \* heights of the terminal
    YTexts,          \* lines of text
    YMaxLines,       \* bound: lines of a frame
    YSurfaces,       \* RenderSurface: "inline", "clearing"
    YClearOnShrink,  \* values of clear_on_shrink
    YChildren,       \* ids of components that may be children
    YOverlays        \* ids of components of overlays

Blank == 0
Image == 100
Smear == 102

ASSUME ScreenAssumption ==
    /\ YHeights \subseteq Nat \ {0} /\ YMaxLines \in Nat
    /\ YTexts \subseteq 1..99
    /\ YChildren \union YOverlays \subseteq Nat \ {0} /\ YChildren \intersect YOverlays = {}

VARIABLES
    yTerm,     \* the terminal: rows, row of the cursor, cursor shown, images placed
    yTui,      \* what Tui remembers of the terminal
    yFocus,    \* children, overlays, focused_component and the flags of the components
    yDrawn     \* history: is the last frame on the screen, and was a frame that did not fit
               \* on it ever replaced by a shorter one without a full redraw

yVars == <<yTerm, yTui, yFocus, yDrawn>>

Lowered(a, b) == IF a > b THEN a - b ELSE 0     \* saturating_sub
Smaller(a, b) == IF a < b THEN a ELSE b
Larger(a, b)  == IF a > b THEN a ELSE b

----------------------------------------------------------------------------
(* The terminal (external): a write at the last row's line feed scrolls, moves *)
(* stop at the edges.                                                          *)

Rows(t) == 0..(t.height - 1)

LineFeed(t) ==
    IF t.row < t.height - 1 THEN [t EXCEPT !.row = @ + 1]
    ELSE [t EXCEPT !.rows = [r \in Rows(t) |-> IF r + 1 \in Rows(t) THEN @[r + 1] ELSE Blank]]

WriteText(t, line) ==
    [t EXCEPT !.rows[t.row] = IF @ = Blank THEN line ELSE Smear,
              !.images = @ \union ({line} \intersect {Image})]

ClearLine(t) == [t EXCEPT !.rows[t.row] = Blank]

ClearFromCursor(t) ==
    [t EXCEPT !.rows = [r \in Rows(t) |-> IF r < t.row THEN @[r] ELSE Blank]]

ClearScreen(t) == [t EXCEPT !.rows = [r \in Rows(t) |-> Blank], !.row = 0]

MoveBy(t, n) ==
    [t EXCEPT !.row = Larger(0, Smaller(@ + n, t.height - 1))]

\* A terminal that loses rows keeps the cursor on the screen and drops rows below
\* it first; one that gains rows gets them at the bottom.
TermResize(t, h) ==
    LET up == Lowered(t.row, h - 1) IN
    [t EXCEPT !.height = h, !.row = @ - up,
              !.rows = [r \in 0..(h - 1) |-> IF r + up \in Rows(t) THEN @[r + up] ELSE Blank]]

----------------------------------------------------------------------------
(* Frames.  lines[i + 1] is line i.                                            *)

\* extract_cursor_marker: only the lines that will be visible are searched.
ViewportTop(count, height) == Lowered(count, height)

ImagesIn(lines) == ToSet(lines) \intersect {Image}

\* collect_kitty_image_ids_in_range.
ImagesInRange(lines, first, last) ==
    {lines[i + 1] : i \in {j \in first..last : j < Len(lines)}} \intersect {Image}

\* changed_line_range.
ChangedLineRange(previous, next) ==
    LET shared  == Smaller(Len(previous), Len(next))
        differs == {i \in 0..(shared - 1) : previous[i + 1] # next[i + 1]}
        first   == CHOOSE i \in differs : \A j \in differs : i <= j
        last    == CHOOSE i \in differs : \A j \in differs : j <= i
    IN IF Len(previous) # Len(next)
       THEN <<IF differs = {} THEN shared ELSE first, Larger(Len(previous), Len(next)) - 1>>
       ELSE IF differs = {} THEN <<>> ELSE <<first, last>>

\* choose_strategy: size is <<>> before the first frame.
ChooseStrategy(u, lines, size) ==
    IF u.size # size \/ (u.clearOnShrink /\ Len(lines) < Len(u.lines)) THEN "full"
    ELSE IF ChangedLineRange(u.lines, lines) = <<>> THEN "none" ELSE "differential"

----------------------------------------------------------------------------
(* Writing.  s pairs the terminal with the row Tui believes its cursor is on,   *)
(* hardware_cursor_row, counted in lines of the frame.                          *)

\* write_lines, from the cursor's row on.
WriteLines(t, lines) ==
    FoldLeft(LAMBDA u, i : LET w == WriteText(u, lines[i]) IN
                           IF i < Len(lines) THEN LineFeed(w) ELSE w,
             t, [i \in 1..Len(lines) |-> i])

\* rewrite_rows.
RewriteRows(s, start, lines, count) ==
    IF count = 0 THEN s
    ELSE [t |-> FoldLeft(LAMBDA u, i :
                    LET c == ClearLine(u)
                        w == IF i <= Len(lines) THEN WriteText(c, lines[i]) ELSE c
                    IN IF i < count THEN LineFeed(w) ELSE w,
                    s.t, [i \in 1..count |-> i]),
          at |-> start + count - 1]

\* move_to_logical_row.
MoveToLogicalRow(s, u, target) ==
    [t |-> MoveBy(s.t, Lowered(target, u.top) - Lowered(s.at, u.top)), at |-> target]

\* delete_previous_kitty_images and delete_changed_kitty_images.
DeleteImages(s, images) == [s EXCEPT !.t.images = @ \ images]

LastRow(lines) == Lowered(Len(lines), 1)

RenderFullClearing(s, u, lines) ==
    [t |-> WriteLines(ClearScreen(DeleteImages(s, u.images).t), lines), at |-> LastRow(lines)]

RenderFullInline(s, u, lines, height) ==
    LET top     == ViewportTop(Len(lines), height)
        visible == SubSeq(lines, top + 1, Len(lines))
        count   == Smaller(Larger(u.owned, Len(visible)), height)
        cleaned == DeleteImages(s, u.images)
    IN IF ~u.once THEN [t |-> WriteLines(s.t, lines), at |-> LastRow(lines)]
       ELSE IF count = 0 THEN cleaned
       ELSE RewriteRows(MoveToLogicalRow(cleaned, u, u.top), top, visible, count)

RenderDifferentialClearing(s, u, lines, first, last) ==
    LET d == DeleteImages(s, ImagesInRange(u.lines, first, last)) IN
    [t |-> WriteLines(ClearFromCursor(MoveBy(d.t, first - d.at)),
                      SubSeq(lines, first + 1, Len(lines))),
     at |-> LastRow(lines)]

RenderDifferentialInline(s, u, lines, first, last, height) ==
    LET d       == DeleteImages(s, ImagesInRange(u.lines, first, last))
        upTo(n) == IF first < n THEN Smaller(last, n - 1) - first + 1 ELSE 0
        written == upTo(Len(lines))
        m       == MoveToLogicalRow(d, u, first - 1)
    IN IF first < u.top THEN RenderFullInline(s, u, lines, height)
       ELSE IF Len(lines) > Len(u.lines) /\ first = Len(u.lines) /\ first > 0
       THEN [t |-> WriteLines(LineFeed(m.t), SubSeq(lines, first + 1, Len(lines))),
             at |-> LastRow(lines)]
       ELSE RewriteRows(MoveToLogicalRow(d, u, first), first,
                        SubSeq(lines, first + 1, first + written),
                        Larger(written, upTo(Len(u.lines))))

Draw(s, u, lines, size) ==
    LET strategy == ChooseStrategy(u, lines, size)
        range    == ChangedLineRange(u.lines, lines)
        inline   == u.surface = "inline"
    IN CASE strategy = "none" -> s
         [] strategy = "full" /\ inline -> RenderFullInline(s, u, lines, size[1])
         [] strategy = "full" /\ ~inline -> RenderFullClearing(s, u, lines)
         [] strategy = "differential" /\ inline ->
              RenderDifferentialInline(s, u, lines, range[1], range[2], size[1])
         [] OTHER -> RenderDifferentialClearing(s, u, lines, range[1], range[2])

\* Mutant of PositionHardwareCursor: the row moved to is not remembered.
PositionHardwareCursorForgotten(s, cursor, top) ==
    IF cursor = -1 THEN [s EXCEPT !.t.shown = FALSE]
    ELSE [t |-> [MoveBy(s.t, Lowered(cursor, top) - Lowered(s.at, top)) EXCEPT !.shown = TRUE],
          at |-> s.at]

\* position_hardware_cursor; cursor is a line of the frame or -1.
PositionHardwareCursor(s, cursor, top) ==
    IF cursor = -1 THEN [s EXCEPT !.t.shown = FALSE]
    ELSE [t |-> [MoveBy(s.t, Lowered(cursor, top) - Lowered(s.at, top)) EXCEPT !.shown = TRUE],
          at |-> cursor]

----------------------------------------------------------------------------
(* Focus.                                                                      *)

NoComponent == 0

Present(f, c) == c \in f.children \/ c \in DOMAIN f.overlays

\* set_focus: the old holder's flag is dropped, a holder that is gone is refused.
SetFocus(f, c) ==
    IF f.focused = c THEN f
    ELSE [f EXCEPT !.focused = IF Present(f, c) THEN c ELSE NoComponent,
                   !.flags = (@ \ {f.focused}) \union {x \in {c} : Present(f, x)}]

OverlayFields == [hidden |-> FALSE, restore |-> NoComponent]

AddChild ==
    \E c \in YChildren \ yFocus.children :
        yFocus' = [yFocus EXCEPT !.children = @ \union {c}, !.flags = @ \ {c}]

\* remove_child, and clear_children for both.
RemoveChild ==
    \E cs \in (SUBSET yFocus.children) \ {{}} :
        yFocus' = [yFocus EXCEPT !.children = @ \ cs, !.flags = @ \ cs,
                                 !.focused = IF @ \in cs THEN NoComponent ELSE @]

ShowOverlay ==
    \E o \in YOverlays \ DOMAIN yFocus.overlays :
        yFocus' = [yFocus EXCEPT !.overlays =
                      [x \in DOMAIN @ \union {o} |-> IF x = o THEN OverlayFields ELSE @[x]]]

SetOverlayHidden ==
    \E o \in DOMAIN yFocus.overlays, hidden \in BOOLEAN :
        LET f == [yFocus EXCEPT !.overlays[o].hidden = hidden] IN
        yFocus' = IF hidden /\ f.focused = o THEN SetFocus(f, f.overlays[o].restore) ELSE f

FocusOverlay ==
    \E o \in DOMAIN yFocus.overlays :
        yFocus' = SetFocus([yFocus EXCEPT !.overlays[o].restore = yFocus.focused], o)

UnfocusOverlay ==
    \E o \in DOMAIN yFocus.overlays, target \in YChildren \union {NoComponent} :
        /\ yFocus.focused = o
        /\ yFocus' = SetFocus(yFocus, IF target # NoComponent THEN target
                                      ELSE yFocus.overlays[o].restore)

FocusChild == \E c \in YChildren \union {NoComponent} : yFocus' = SetFocus(yFocus, c)

\* dispatch_input, dispatch_to_focused, try_consume_color_scheme_response: a reply of
\* the terminal or an event a listener consumes goes no further, every other event is
\* handled by the component that is focused, if there is one.
DispatchInput ==
    \E consumed \in BOOLEAN :
        yFocus' = [yFocus EXCEPT !.handled =
                      IF consumed THEN @ ELSE yFocus.focused]

\* composite_overlays: an overlay's lines cover those of the frame from its row on, and
\* the frame grows to hold them.  overlay_position keeps the overlay on a terminal of
\* this height, counting rows from the first line of the frame.
OverlayPositions(height, count) == 0..Lowered(height, count)

CompositeOverlays(base, over, row) ==
    [i \in 1..Larger(Len(base), IF over = <<>> THEN 0 ELSE row + Len(over)) |->
        IF i > row /\ i <= row + Len(over) THEN over[i - row]
        ELSE IF i <= Len(base) THEN base[i] ELSE Blank]

\* The overlays that composite_overlays draws.
Showing(f) == {o \in DOMAIN f.overlays : ~f.overlays[o].hidden}

----------------------------------------------------------------------------

ScreenInit ==
    /\ \E h \in YHeights, row \in 0..(CHOOSE m \in YHeights : \A k \in YHeights : k <= m) :
          /\ row < h
          /\ yTerm = [height |-> h, wide |-> FALSE, rows |-> [r \in 0..(h - 1) |-> Blank],
                      row |-> row, shown |-> FALSE, images |-> {}]
    /\ \E surface \in YSurfaces, clear \in YClearOnShrink :
          yTui = [lines |-> <<>>, size |-> <<>>, top |-> 0, owned |-> 0, once |-> FALSE,
                  at |-> 0, surface |-> surface, clearOnShrink |-> clear, images |-> {}]
    /\ yFocus = [children |-> YChildren, overlays |-> <<>>, focused |-> NoComponent,
                 flags |-> {}, handled |-> NoComponent]
    /\ yDrawn = [valid |-> FALSE, sunk |-> FALSE]

Frames ==
    {f \in UNION {[1..n -> YTexts \union {Image}] : n \in 1..YMaxLines} :
        Cardinality({i \in DOMAIN f : f[i] = Image}) <= 1}

\* render_once.  A frame with a line that is too wide is refused by validate_lines before
\* anything is written or remembered; overlays are drawn over the frame when one is shown.
RenderOnce ==
    \E base \in Frames, over \in {<<>>} \union (IF Showing(yFocus) = {} THEN {} ELSE {<<Blank>>}) :
    \E row \in IF over = <<>> THEN {0} ELSE OverlayPositions(yTerm.height, Len(over)) :
        LET lines == CompositeOverlays(base, over, row)
            size  == <<yTerm.height, yTerm.wide>>
            top   == ViewportTop(Len(lines), yTerm.height)
            drawn == Draw([t |-> yTerm, at |-> yTui.at], yTui, lines, size)
        IN \E cursor \in {-1} \union top..(Len(lines) - 1) :
           LET placed == PositionHardwareCursor(drawn, cursor, top)
           IN /\ yTerm' = placed.t
              /\ yTui' = [yTui EXCEPT !.lines = lines, !.size = size, !.top = top,
                                      !.owned = Smaller(Len(lines), yTerm.height),
                                      !.once = TRUE, !.at = placed.at,
                                      !.images = ImagesIn(lines)]
              /\ yDrawn' = [valid |-> TRUE,
                            sunk |-> yDrawn.sunk \/ (/\ Len(lines) < Len(yTui.lines)
                                                     /\ yTui.top > 0 /\ ~yTui.clearOnShrink
                                                     /\ yTui.size = size)]

\* The width or the height of the terminal changes: what is on the screen is the
\* terminal's affair until the next frame.
Resize ==
    /\ yDrawn.valid
    /\ \/ yTerm' = [yTerm EXCEPT !.wide = ~@]
       \/ \E h \in YHeights \ {yTerm.height} : yTerm' = TermResize(yTerm, h)
    /\ yDrawn' = [yDrawn EXCEPT !.valid = FALSE]
    /\ UNCHANGED <<yTui, yFocus>>

DrawNext == (RenderOnce /\ UNCHANGED yFocus) \/ Resize

OverlayNext == (ShowOverlay \/ SetOverlayHidden) /\ UNCHANGED <<yTerm, yTui, yDrawn>>

FocusNext ==
    /\ AddChild \/ RemoveChild \/ FocusOverlay \/ UnfocusOverlay \/ FocusChild \/ DispatchInput
    /\ UNCHANGED <<yTerm, yTui, yDrawn>>

ScreenNext == DrawNext \/ OverlayNext \/ FocusNext

----------------------------------------------------------------------------
(* Properties *)

\* The screen row that holds line top of the frame, as Tui sees it.
Origin == yTerm.row - (yTui.at - yTui.top)

\* A frame that was drawn is what the terminal shows: the last lines of the frame that
\* fit stand on consecutive rows, nothing stands below them, no row is written over
\* another, the cursor is on the row Tui believes it is on, and the images placed are
\* those of the frame and include those of its visible lines; a cursor marker of the
\* frame is on the row of its line.
\* This is about the inline surface, the one the program uses, until a frame that did
\* not fit on the terminal is followed by a shorter one without clear_on_shrink.
ScreenShows ==
    (yDrawn.valid /\ yTui.surface = "inline" /\ ~yDrawn.sunk) =>
        /\ Origin >= 0 /\ Origin + yTui.owned <= yTerm.height
        /\ \A i \in 0..(yTui.owned - 1) : yTerm.rows[Origin + i] = yTui.lines[yTui.top + i + 1]
        /\ \A r \in (Origin + yTui.owned)..(yTerm.height - 1) : yTerm.rows[r] = Blank
        /\ yTerm.images \subseteq ImagesIn(yTui.lines)
        /\ ImagesInRange(yTui.lines, yTui.top, Len(yTui.lines)) \subseteq yTerm.images

\* Exactly the component that has the focus knows it, and it is a component that is
\* still there: no order of showing, focusing, hiding and removing leaves two
\* components that draw a cursor, or input going to one that is gone.
FocusAgrees ==
    /\ yFocus.flags = {yFocus.focused} \ {NoComponent}
    /\ yFocus.focused # NoComponent => Present(yFocus, yFocus.focused)

\* What Tui draws and whom it gives the input (Tui::render_once, set_focus), for every
\* order of frames, resizes, overlays and focus changes.
TuiSound == ScreenShows /\ FocusAgrees
=============================================================================
