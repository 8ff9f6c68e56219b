---- MODULE TreeSelector ----
(* The /tree selector (interactive/tree_selector.rs): the forest of session entries is
   flattened with the active branch first, projected through a filter, a search and the
   folds, and a selection is kept on an entry while the projection changes under it.
   Entries are numbered in the order of the forest; a text is a sequence of letters.
   Painting and the toggle for label timestamps are left out. *)
EXTENDS Integers, SequencesExt, FiniteSetsExt
CONSTANTS
    SForests,     \* the forests: [parent, kind, text, call, leaf], the first four by entry
    SLetters,     \* what is typed, " " for a space
    SMaxText,     \* longest search or label
    SMaxLabels,   \* entries that carry a label at once
    SPageSize     \* PAGE_SIZE
ASSUME TreeAssumption == SPageSize \in Nat \ {0} /\ SMaxText \in Nat /\ SMaxLabels \in Nat

VARIABLES
    sTree, sLabel,          \* the forest, the label of each entry
    sFlat,                  \* flat_nodes: the order of the entries and the ancestors of each
    sVisible, sUp,          \* the rows, visible_parent_map (0 for a root)
    sSelected,              \* position of the selection, from 0
    sLast,                  \* last_selected_id, 0 for none
    sFilter, sQuery, sFolded,
    sEditing, sInput,       \* editing_label_entry_id (0: not editing), label_input
    sChosen,                \* 0, the entry of Confirm, or -1 for Cancel
    sRelabelled             \* entries whose label was saved since the folds were last cleared
sVars == <<sTree, sFlat, sLabel, sVisible, sUp, sSelected, sLast, sFilter, sQuery, sFolded, sEditing, sInput, sChosen, sRelabelled>>

Entries == 1..Len(sTree.parent)
Parent(n) == sTree.parent[n]
\* Children of n in tree order; the roots are the children of 0.
Children(n) == SelectSeq([i \in Entries |-> i], LAMBDA c : Parent(c) = n)
ParentChain == LET Up[m \in 0..Len(sTree.parent)] == IF m = 0 THEN {} ELSE ({Parent(m)} \cup Up[Parent(m)]) \ {0}
               IN [n \in Entries |-> Up[n]]
Ancestors(n) == sFlat.above[n]
ActivePath == IF sTree.leaf = 0 THEN {} ELSE ParentChain[sTree.leaf] \cup {sTree.leaf}
ContainsActive(n) == n \in ActivePath
\* Depth first, at each level the child on the active path first.
FlattenTree ==
    LET Flat[n \in 0..Len(sTree.parent)] ==
          LET ordered == SelectSeq(Children(n), ContainsActive)
                         \o SelectSeq(Children(n), LAMBDA c : ~ContainsActive(c))
          IN FoldLeft(LAMBDA rows, c : rows \o <<c>> \o Flat[c], <<>>, ordered)
    IN Flat[0]

\* A tool result is shown as the call it answers, when that call is in the tree.
CollectToolCallMap == {n \in Entries : sTree.kind[n] \in {"assistantTools", "assistantText"}}
EntryDisplayText(n) == IF sTree.kind[n] = "toolResult" /\ sTree.call[n] \in CollectToolCallMap
                       THEN sTree.text[sTree.call[n]] ELSE sTree.text[n]
\* The entry's type and id, which the search takes in too, are left out.
SearchableText(n, label) == EntryDisplayText(n) \o <<" ">> \o label[n]
ContainsText(text, term) == \E i \in 0..Len(text) - Len(term) : SubSeq(text, i + 1, i + Len(term)) = term
\* An assistant entry without text and without an error or abort is left out, unless it is
\* the current leaf; settings entries always are.
PassesDefaultFilter(n) == /\ sTree.kind[n] = "assistantTools" => n = sTree.leaf
                          /\ sTree.kind[n] # "setting"
PassesFilter(n, filter, label) ==
    CASE filter = "default" -> PassesDefaultFilter(n)
      [] filter = "noTools" -> PassesDefaultFilter(n) /\ sTree.kind[n] # "toolResult"
      [] filter = "userOnly" -> sTree.kind[n] = "user"
      [] filter = "labeledOnly" -> label[n] # <<>>
      [] filter = "all" -> TRUE
\* Every term of the query occurs: so does every part of the query without a space.
ApplyFilterAndSearch(n, filter, query, label) ==
    /\ PassesFilter(n, filter, label)
    /\ \A i, j \in DOMAIN query :
         (\A k \in i..j : query[k] # " ") => ContainsText(SearchableText(n, label), SubSeq(query, i, j))
FoldedDescendant(n, folded) == Ancestors(n) \cap folded # {}
Projection(filter, query, folded, label) ==
    SelectSeq(sFlat.order, LAMBDA n : ApplyFilterAndSearch(n, filter, query, label) /\ ~FoldedDescendant(n, folded))

Position(rows, n) == (CHOOSE i \in DOMAIN rows : rows[i] = n) - 1
VisibleAncestor(rows, n) == LET up == Ancestors(n) \cap Range(rows) IN IF up = {} THEN 0 ELSE Max(up)
VisibleParents(rows) == [n \in Range(rows) |-> VisibleAncestor(rows, n)]
VisibleChildren(n) == SelectSeq(sVisible, LAMBDA c : sUp[c] = n)
MultipleRoots == Len(VisibleChildren(0)) > 1
\* Only a root, or an entry with visible siblings, that has visible children can be folded.
Foldable(n) == /\ VisibleChildren(n) # <<>>
               /\ sUp[n] # 0 => Len(VisibleChildren(sUp[n])) > 1
\* Where the branch sign of a row is drawn, if it has one.
SignPosition(row) == row.indent - 1 - (IF MultipleRoots THEN 1 ELSE 0)
\* Indentation, branch sign and guide lines of each row. A row is indented under a parent
\* with several rows below it, and once more under a row that is itself one of several.
VisualStructure ==
    LET Row[n \in 0..Len(sTree.parent)] ==
          IF n = 0 THEN [indent |-> IF MultipleRoots THEN 1 ELSE 0, connector |-> FALSE, last |-> TRUE, gutters |-> {}]
          ELSE LET above == Row[sUp[n]]
                   siblings == VisibleChildren(sUp[n])
                   branched == Len(siblings) > 1
               IN [indent |-> IF sUp[n] # 0 /\ (branched \/ (above.connector /\ above.indent > 0))
                              THEN above.indent + 1 ELSE above.indent,
                   connector |-> branched, last |-> n = Last(siblings),
                   gutters |-> above.gutters \cup
                      (IF sUp[n] # 0 /\ above.connector /\ sUp[sUp[n]] # 0
                       THEN {[position |-> SignPosition(above), show |-> ~above.last]} ELSE {})]
    IN [n \in Range(sVisible) |-> Row[n]]
\* A root of several has no branch sign.
HasSign(rows, n) == rows[n].connector /\ sUp[n] # 0
\* The rows drawn around the selection.
RowsShown == LET start == Max({0, sSelected - SPageSize \div 2})
             IN start .. Min({start + SPageSize, Len(sVisible)}) - 1
----
\* The entry or its nearest visible ancestor, 0 when none is visible.
FindNearestVisible(rows, n) == IF n \in Range(rows) THEN n ELSE IF n = 0 THEN 0 ELSE VisibleAncestor(rows, n)

\* Mutant of Rebuild: an empty projection forgets the selection.
RebuildForgetful(filter, query, folded, label, last) ==
    LET rows == Projection(filter, query, folded, label)
        target == FindNearestVisible(rows, IF last # 0 THEN last ELSE sTree.leaf)
    IN /\ sVisible' = rows /\ sUp' = VisibleParents(rows)
       /\ sFilter' = filter /\ sQuery' = query /\ sFolded' = folded /\ sLabel' = label
       /\ sSelected' = IF rows = <<>> THEN 0 ELSE IF target # 0 THEN Position(rows, target) ELSE Min({sSelected, Len(rows) - 1})
       /\ sLast' = IF rows = <<>> THEN 0 ELSE rows[sSelected' + 1]
Rebuild(filter, query, folded, label, last) ==
    LET rows == Projection(filter, query, folded, label)
        target == FindNearestVisible(rows, IF last # 0 THEN last ELSE sTree.leaf)
    IN /\ sVisible' = rows /\ sUp' = VisibleParents(rows)
       /\ sFilter' = filter /\ sQuery' = query /\ sFolded' = folded /\ sLabel' = label
       /\ sSelected' = IF rows = <<>> THEN 0 ELSE IF target # 0 THEN Position(rows, target) ELSE Min({sSelected, Len(rows) - 1})
       /\ sLast' = IF rows = <<>> THEN last ELSE rows[sSelected' + 1]

TreeSelectorInit ==
    /\ sTree \in SForests
    /\ sFlat = [order |-> FlattenTree, above |-> ParentChain]
    /\ sLabel = [n \in Entries |-> <<>>] /\ sFilter = "default" /\ sQuery = <<>> /\ sFolded = {}
    /\ sVisible = Projection(sFilter, sQuery, sFolded, sLabel)
    /\ sUp = VisibleParents(sVisible)
    /\ sSelected = LET n == FindNearestVisible(sVisible, sTree.leaf) IN IF n = 0 THEN 0 ELSE Position(sVisible, n)
    /\ sLast = IF sVisible = <<>> THEN 0 ELSE sVisible[sSelected + 1]
    /\ sEditing = 0 /\ sInput = <<>> /\ sChosen = 0 /\ sRelabelled = {}

Browsing == sChosen = 0 /\ sEditing = 0
Selected == sVisible[sSelected + 1]
Fixed == UNCHANGED <<sTree, sFlat, sEditing, sInput, sChosen>>
GoTo(i) == /\ sSelected' = i
             /\ sLast' = sVisible[i + 1]
             /\ UNCHANGED <<sTree, sFlat, sLabel, sVisible, sUp, sFilter, sQuery, sFolded, sEditing, sInput, sChosen, sRelabelled>>
Move == /\ Browsing /\ sVisible # <<>>
        /\ \E i \in {(sSelected + 1) % Len(sVisible), (sSelected + Len(sVisible) - 1) % Len(sVisible),
                     Min({sSelected + SPageSize, Len(sVisible) - 1}), Max({0, sSelected - SPageSize})} : GoTo(i)
\* Up to the first row of the branch, or down to where the rows branch or end.
FindBranchSegmentStart(up) ==
    LET UpFrom[n \in Entries] ==
          LET p == sUp[n] IN
          IF p = 0 \/ (Len(VisibleChildren(p)) > 1 /\ Position(sVisible, n) < sSelected)
          THEN Position(sVisible, n) ELSE UpFrom[p]
        DownFrom[n \in Entries] ==
          LET cs == VisibleChildren(n) IN
          IF cs = <<>> THEN Position(sVisible, n)
          ELSE IF Len(cs) > 1 THEN Position(sVisible, cs[1]) ELSE DownFrom[cs[1]]
    IN IF up THEN UpFrom[Selected] ELSE DownFrom[Selected]
FoldOrUp == /\ Browsing /\ sVisible # <<>>
            /\ IF Foldable(Selected) /\ Selected \notin sFolded
               THEN Rebuild(sFilter, sQuery, sFolded \cup {Selected}, sLabel, sLast) /\ Fixed /\ UNCHANGED sRelabelled
               ELSE GoTo(FindBranchSegmentStart(TRUE))
UnfoldOrDown == /\ Browsing /\ sVisible # <<>>
                /\ IF Selected \in sFolded
                   THEN Rebuild(sFilter, sQuery, sFolded \ {Selected}, sLabel, sLast) /\ Fixed /\ UNCHANGED sRelabelled
                   ELSE GoTo(FindBranchSegmentStart(FALSE))
Confirm == Browsing /\ sVisible # <<>> /\ sChosen' = Selected
           /\ UNCHANGED <<sTree, sFlat, sLabel, sVisible, sUp, sSelected, sLast, sFilter, sQuery, sFolded, sEditing, sInput, sRelabelled>>
\* Escape leaves a search first; like backspace it keeps the folds made while searching.
Escape == /\ Browsing
          /\ IF sQuery # <<>> THEN Rebuild(sFilter, <<>>, sFolded, sLabel, sLast) /\ Fixed /\ UNCHANGED sRelabelled
             ELSE sChosen' = -1 /\ UNCHANGED <<sTree, sFlat, sLabel, sVisible, sUp, sSelected, sLast, sFilter, sQuery, sFolded, sEditing, sInput, sRelabelled>>
Backspace == Browsing /\ sQuery # <<>>
             /\ Rebuild(sFilter, Front(sQuery), sFolded, sLabel, sLast) /\ Fixed /\ UNCHANGED sRelabelled
TypeSearch == Browsing /\ Len(sQuery) < SMaxText
              /\ \E c \in SLetters : Rebuild(sFilter, Append(sQuery, c), {}, sLabel, sLast)
              /\ Fixed /\ sRelabelled' = {}
FilterModes == {"default", "noTools", "userOnly", "labeledOnly", "all"}
SetFilter == Browsing /\ \E mode \in FilterModes :
                 Rebuild(mode, sQuery, {}, sLabel, IF sVisible = <<>> THEN sLast ELSE Selected)
             /\ Fixed /\ sRelabelled' = {}
EditLabel == Browsing /\ sVisible # <<>> /\ sEditing' = Selected /\ sInput' = sLabel[Selected]
             /\ UNCHANGED <<sTree, sFlat, sLabel, sVisible, sUp, sSelected, sLast, sFilter, sQuery, sFolded, sChosen, sRelabelled>>
\* A space is not taken into a label.
LabelInput == /\ sEditing # 0
              /\ \/ Len(sInput) < SMaxText /\ \E c \in SLetters \ {" "} : sInput' = Append(sInput, c) /\ UNCHANGED sEditing
                 \/ sInput # <<>> /\ sInput' = Front(sInput) /\ UNCHANGED sEditing
                 \/ sInput' = <<>> /\ sEditing' = 0
              /\ UNCHANGED <<sTree, sFlat, sLabel, sVisible, sUp, sSelected, sLast, sFilter, sQuery, sFolded, sChosen, sRelabelled>>
SaveLabel == /\ sEditing # 0 /\ (sInput = <<>> \/ Cardinality({n \in Entries \ {sEditing} : sLabel[n] # <<>>}) < SMaxLabels)
             /\ sEditing' = 0 /\ sInput' = <<>>
             /\ Rebuild(sFilter, sQuery, sFolded, [sLabel EXCEPT ![sEditing] = sInput], sLast)
             /\ sRelabelled' = sRelabelled \cup {sEditing}
             /\ UNCHANGED <<sTree, sFlat, sChosen>>
TreeSelectorNext == Move \/ FoldOrUp \/ UnfoldOrDown \/ Confirm \/ Escape \/ Backspace \/ TypeSearch
                    \/ SetFilter \/ EditLabel \/ LabelInput \/ SaveLabel
----
(* The rows: an entry that passes filter and search is shown, or hidden behind a fold the
   user can see and open (or whose own label was just changed: folds outlive that); the
   selection is one of the rows drawn; and the guide lines lead somewhere: each stands under
   the branch sign of an ancestor, is drawn exactly when that ancestor has a sibling below,
   and never covers the row's own sign (tree_selector.rs, rebuild and
   recalculate_visual_structure). *)
TreeShown ==
    /\ \A n \in Entries : ApplyFilterAndSearch(n, sFilter, sQuery, sLabel) =>
         n \in Range(sVisible) \/ Ancestors(n) \cap sFolded \cap (Range(sVisible) \cup sRelabelled) # {}
    /\ sVisible # <<>> => sSelected \in RowsShown /\ sLast = Selected
    /\ LET rows == VisualStructure IN
       \A n \in Range(sVisible) : \A g \in rows[n].gutters :
         /\ \E a \in Ancestors(n) \cap Range(sVisible) :
              /\ HasSign(rows, a) /\ SignPosition(rows[a]) = g.position
              /\ g.show <=> \E s \in Range(sVisible) : sUp[s] = sUp[a] /\ Position(sVisible, s) > Position(sVisible, n)
         /\ ~(HasSign(rows, n) /\ g.position = SignPosition(rows[n]))

(* The selection stays on its entry while filters, searches, folds and labels change the
   rows: it only leaves for the nearest visible ancestor, or when no ancestor is visible,
   and it comes back to the entry after the rows had been empty (tree_selector.rs,
   rebuild's last_selected_id). *)
SelectionStays ==
    [][sVisible' # sVisible =>
         /\ sVisible' = <<>> => sLast' = sLast
         /\ sVisible' # <<>> /\ sLast # 0 =>
              LET near == FindNearestVisible(sVisible', sLast)
              IN /\ near # 0 => sVisible'[sSelected' + 1] = near
                 /\ sLast' = sVisible'[sSelected' + 1]]_sVars

\* The tree shows what passes the filter and keeps the selection (tree_selector.rs), for
\* every order of moves, folds, searches, filters and label changes.
TreeSound == []TreeShown /\ SelectionStays
====
