------------------------------ MODULE TreeView ------------------------------
(***************************************************************************)
(* pkg/ui/tree.go with its keys, clicks and callers: the issues as a tree  *)
(* of parents and children, folded by the user, with a cursor over the     *)
(* visible rows and a window that follows it.  What is folded is kept in   *)
(* .beads/tree-state.json.  The tree outlives the view: entering it again  *)
(* builds it only if its hash says so.                                     *)
(*                                                                         *)
(* A node is the path of issues from its root.  Issues are numbered in the *)
(* order in which they are listed and sorted.                              *)
(***************************************************************************)
EXTENDS Integers, Sequences, FiniteSets, SequencesExt, Listing

CONSTANTS
  TreeLoads,    \* what the source may hold, in a row: issues, and pairs of a child and a parent
  Here,         \* issues of the project the filter may select
  Heights,      \* rows the tree may be given, few enough to scroll
  MaxChanges    \* changes of the source

ASSUME TreeAssumption ==
  /\ TreeLoads \in Seq([issues : SUBSET Nat, parents : SUBSET (Nat \X Nat)])
  /\ \A d \in Range(TreeLoads) : IsFiniteSet(d.issues)
  /\ Heights \subseteq Nat \ {0}
  /\ MaxChanges \in Nat

VARIABLES
  t,          \* the TreeModel
  treeFile,   \* tree-state.json: the issues folded otherwise than by default
  treeUI,     \* what the Model knows: data, projects, rows, whether the tree is shown; and
              \* ghosts: moved, if a key or click in the tree came last; missed, if the tree
              \* was shown but not rebuilt when a snapshot came
  peeked      \* issues opened on the way to the one the tree was entered for, and not saved

treeVars == <<t, treeFile, treeUI, peeked>>

-----------------------------------------------------------------------------
(* The tree of some data.                                                  *)

\* The loads, what the project has of each, and nothing.
Loads == 1..Len(TreeLoads)
OfProject(d) == IF d \in Loads THEN d + Len(TreeLoads) ELSE d
NoData == 2 * Len(TreeLoads) + 1
Data ==
  TreeLoads \o [d \in Loads |-> [TreeLoads[d] EXCEPT !.issues = @ \cap Here]]
            \o <<[issues |-> {}, parents |-> {}]>>
issues(d) == Data[d].issues

Children(d, i) == {c \in issues(d) : <<c, i>> \in Data[d].parents}

\* Issues whose parents are all missing are roots too; a cycle without a way in has none.
Roots(d) == {i \in issues(d) : ~\E p \in issues(d) : i \in Children(d, p)}

\* An issue met again below itself is shown once more, without children.
Parental(d, p) == IsInjective(p) /\ Children(d, Last(p)) # {}

\* Only the last issue of a path may be one met before.
Paths(d) == UNION {[1..n -> issues(d)] : n \in 1..(Cardinality(issues(d)) + 1)}
NodesFrom(d) ==
  {p \in Paths(d) :
     /\ p[1] \in Roots(d)
     /\ \A k \in 1..(Len(p) - 1) : p[k + 1] \in Children(d, p[k])
     /\ IsInjective(Front(p))}

\* The order of the rows.
Before(p, q) ==
  \E k \in DOMAIN q :
    /\ \A j \in 1..(k - 1) : j \in DOMAIN p /\ p[j] = q[j]
    /\ k \in DOMAIN p => p[k] < q[k]

Preorder ==
  Table([d \in DOMAIN Data |->
     LET S == NodesFrom(d)
     IN Table(InOrder(S, {pair \in S \X S : Before(pair[1], pair[2])}))])
Nodes(d) == Range(Preorder[d])

\* The last in the order of rows.
LastOf(d, S) == Preorder[d][Max({k \in DOMAIN Preorder[d] : Preorder[d][k] \in S})]

\* issueMap: the node of an issue that was built last; an issue may have several parents.
NodesOf(d, i) == {p \in Nodes(d) : Last(p) = i}
Known(d) == {Last(p) : p \in Nodes(d)}
issueMap ==
  Table([d \in DOMAIN Data |->
     Table([i \in Known(d) |-> LastOf(d, {p \in NodesOf(d, i) : IsInjective(p)})])])

OpenByDefault(p) == Len(p) <= 2 /\ IsInjective(p)
Above(p) == {SubSeq(p, 1, k) : k \in 1..(Len(p) - 1)}

Rows(d, open) ==
  Thinned(Preorder[d], {k \in DOMAIN Preorder[d] : Above(Preorder[d][k]) \subseteq open})
SelectedNode(u) == u.flat[u.cursor + 1]
HasRows(u) == u.flat # <<>>
Window(h) == IF h = 0 THEN 20 ELSE h
Within(k, low, high) == IF k > high THEN IF high < low THEN low ELSE high ELSE IF k < low THEN low ELSE k

\* visibleRange: the first row shown in a window of h rows.
FirstShown(u, h) == Within(u.top, 0, Len(u.flat) - h)

-----------------------------------------------------------------------------
(* Operations of the TreeModel.                                            *)

ensureCursorVisible(u) ==
  LET h == Window(u.height)
  IN IF ~HasRows(u) THEN u
     ELSE [u EXCEPT !.top = Within(Within(@, u.cursor - h + 1, u.cursor), 0, Len(u.flat) - h)]

\* rebuildFlatList keeps the cursor in bounds, and leaves the window alone.
rebuildFlatList(u) ==
  LET rows == Rows(u.built, u.open)
  IN [u EXCEPT !.flat = rows, !.cursor = Within(@, 0, Len(rows) - 1)]

\* saveState records what is not the default; of several nodes of an issue the last one does.
Saved(u) ==
  LET odd == {p \in Nodes(u.built) : (p \in u.open) # (Len(p) <= 2)}
  IN [i \in {Last(p) : p \in odd} |-> LastOf(u.built, {p \in odd : Last(p) = i}) \in u.open]

\* loadState: an entry of the file is for the node in issueMap.
Loaded(d) ==
  {p \in Nodes(d) :
     IF Last(p) \in DOMAIN treeFile /\ p = issueMap[d][Last(p)]
     THEN treeFile[Last(p)] ELSE OpenByDefault(p)}

BuildKeepingRow(u, d) == rebuildFlatList([u EXCEPT !.built = d, !.open = Loaded(d)])
Build(u, d) == BuildKeepingRow([u EXCEPT !.cursor = 0], d)

SelectByID(u, i) ==
  LET found == {k \in DOMAIN u.flat : Last(u.flat[k]) = i}
  IN IF found = {} THEN u ELSE ensureCursorVisible([u EXCEPT !.cursor = Min(found) - 1])

\* Variant: the row is kept, whatever issue is there now.
BuildFromSnapshotByRow(u, d) ==
  IF u.hash = d THEN u
  ELSE IF Roots(d) = {} THEN [Build(u, d) EXCEPT !.hash = d]
  ELSE BuildKeepingRow([u EXCEPT !.hash = d], d)
BuildFromSnapshot(u, d) ==
  IF u.hash = d THEN u
  ELSE IF Roots(d) = {} THEN [Build(u, d) EXCEPT !.hash = d]
  ELSE LET v == BuildKeepingRow([u EXCEPT !.hash = d], d)
       IN IF HasRows(u) THEN SelectByID(v, Last(SelectedNode(u))) ELSE v

-----------------------------------------------------------------------------
(* The Model around it.                                                    *)

Filtered(ui) == IF ui.here THEN OfProject(ui.data) ELSE ui.data

\* rebuildTreeForCurrentFilter.  Only the tree of a snapshot has a hash.
Rebuilt(u, ui) ==
  IF ~ui.shown THEN u
  ELSE IF ui.here \/ ~ui.worker THEN Build(u, Filtered(ui))
  ELSE BuildFromSnapshot(u, ui.data)

TreeInit ==
  /\ t = [built |-> NoData, open |-> {}, flat |-> <<>>, cursor |-> 0, top |-> 0, height |-> 0,
          hash |-> NoData]
  /\ treeFile = <<>>
  /\ \E d \in Loads, h \in Heights, w \in BOOLEAN :
       treeUI = [data |-> d, here |-> FALSE, worker |-> w, rows |-> h,
                 shown |-> FALSE, focus |-> FALSE, moved |-> FALSE, missed |-> FALSE,
                 left |-> MaxChanges]
  /\ peeked = {}

\* What a rebuild that was not skipped forgets.
StillPeeked(u) == IF u.hash = t.hash /\ u.built = t.built /\ u.open = t.open THEN peeked ELSE {}

\* The global key.  The tree opens at the issue selected in the list, if it knows it.
EnterTree ==
  /\ ~treeUI.shown
  /\ treeUI' = [treeUI EXCEPT !.shown = TRUE, !.focus = TRUE, !.moved = FALSE, !.missed = FALSE]
  /\ \E u \in {[Rebuilt(t, treeUI') EXCEPT !.height = treeUI.rows]} :
       \/ t' = u /\ peeked' = StillPeeked(u)
       \/ \E i \in issues(Filtered(treeUI)) \cap Known(u.built) :
            \E path \in {Above(issueMap[u.built][i]) \cup {issueMap[u.built][i]}} :
              /\ t' = SelectByID(rebuildFlatList([u EXCEPT !.open = @ \cup path]), i)
              /\ peeked' = StillPeeked(u) \cup {Last(p) : p \in path \ u.open}
  /\ UNCHANGED treeFile

LeaveTree ==
  /\ treeUI.shown
  /\ treeUI' = [treeUI EXCEPT !.shown = FALSE, !.focus = FALSE, !.moved = FALSE]
  /\ UNCHANGED <<t, treeFile, peeked>>

\* esc, and tab or a double click that goes on to the detail pane.
LoseFocus ==
  /\ treeUI.focus
  /\ treeUI' = [treeUI EXCEPT !.focus = FALSE]
  /\ UNCHANGED <<t, treeFile, peeked>>

\* The window is laid out for the list; the tree is drawn in the new size.
TreeResize ==
  /\ \E h \in Heights \ {treeUI.rows} : treeUI' = [treeUI EXCEPT !.rows = h, !.moved = FALSE]
  /\ UNCHANGED <<t, treeFile, peeked>>

\* A filter or project is chosen, in a picker or by a key.
Refilter ==
  /\ \E h, f \in BOOLEAN :
       treeUI' = [treeUI EXCEPT !.here = h, !.focus = @ /\ f, !.moved = FALSE,
                                !.missed = @ /\ ~treeUI.shown]
  /\ t' = Rebuilt(t, treeUI')
  /\ peeked' = StillPeeked(t')
  /\ UNCHANGED treeFile

\* A snapshot rebuilds the tree only if it has the focus; a reload without a worker always does.
TreeReload ==
  /\ treeUI.left > 0
  /\ \E d \in Loads \ {treeUI.data} :
       treeUI' = [treeUI EXCEPT !.data = d, !.left = @ - 1, !.moved = FALSE,
                                !.missed = treeUI.worker /\ treeUI.shown /\ ~treeUI.focus]
  /\ t' = IF ~treeUI.worker THEN Rebuilt(t, treeUI')
          ELSE IF treeUI.focus THEN [Rebuilt(t, treeUI') EXCEPT !.height = treeUI.rows]
          ELSE t
  /\ peeked' = StillPeeked(t')
  /\ UNCHANGED treeFile

-----------------------------------------------------------------------------
(* Keys and the mouse.                                                     *)

Moved == treeUI' = [treeUI EXCEPT !.moved = TRUE]
Moves(u) == t' = ensureCursorVisible(u) /\ UNCHANGED <<treeFile, peeked>>

At(k) == [t EXCEPT !.cursor = k]
RowOf(p) == (CHOOSE k \in DOMAIN t.flat : t.flat[k] = p) - 1
LastRow == Len(t.flat) - 1
HalfPage == IF t.height < 2 THEN 5 ELSE t.height \div 2

TreeDown == t.cursor < LastRow /\ Moves(At(t.cursor + 1))
TreeUp == t.cursor > 0 /\ Moves(At(t.cursor - 1))
JumpToTop == Moves(At(0))
JumpToBottom == HasRows(t) /\ Moves(At(LastRow))
TreePageDown == Moves(At(Within(t.cursor + HalfPage, 0, LastRow)))
TreePageUp == Moves(At(Within(t.cursor - HalfPage, 0, LastRow)))
JumpToParent == Len(SelectedNode(t)) > 1 /\ Moves(At(RowOf(Front(SelectedNode(t)))))

\* Folding shows the new rows, saves, and follows the cursor.
FoldingUnsaved(u, open) ==
  /\ t' = ensureCursorVisible(rebuildFlatList([u EXCEPT !.open = open]))
  /\ UNCHANGED <<treeFile, peeked>>
Folding(u, open) ==
  /\ t' = ensureCursorVisible(rebuildFlatList([u EXCEPT !.open = open]))
  /\ treeFile' = Saved(t')
  /\ peeked' = {}

Toggled(u) ==
  LET p == SelectedNode(u) IN IF p \in u.open THEN u.open \ {p} ELSE u.open \cup {p}

TreeToggle ==
  /\ HasRows(t) /\ Parental(t.built, SelectedNode(t))
  /\ Folding(t, Toggled(t))

FoldAll == \E open \in {Nodes(t.built), {}} : Folding(t, open)

ExpandOrMoveToChild ==
  LET p == SelectedNode(t)
      first == Append(p, Min(Children(t.built, Last(p))))
  IN /\ HasRows(t) /\ Parental(t.built, p)
     /\ IF p \in t.open THEN Moves(At(RowOf(first)))
        ELSE Folding(t, t.open \cup {p})

CollapseOrJumpToParent ==
  /\ HasRows(t)
  /\ IF Parental(t.built, SelectedNode(t)) /\ SelectedNode(t) \in t.open
     THEN Folding(t, Toggled(t))
     ELSE JumpToParent

\* MoveCursorBy; a fast wheel moves by several rows.
MoveTo(k) == ensureCursorVisible(At(Within(k, 0, LastRow)))

TreeWheel ==
  /\ HasRows(t)
  /\ \E by \in {-2, -1, 1, 2} : t' = MoveTo(t.cursor + by)
  /\ UNCHANGED <<treeFile, peeked>>

\* ClickAt takes rows from the window's own offset and the height the tree was given.
Hit(y) == t.top + y
TreeClick ==
  /\ treeUI.shown
  /\ \E y \in 0..(t.height - 1) :
       /\ Hit(y) <= LastRow
       /\ \E u \in {MoveTo(Hit(y))} :
          \/ t' = u /\ UNCHANGED <<treeFile, peeked>>
          \/ Parental(u.built, SelectedNode(u)) /\ Folding(u, Toggled(u))
  /\ treeUI' = [treeUI EXCEPT !.focus = TRUE, !.moved = TRUE]

TreeKeys ==
  \/ TreeDown \/ TreeUp \/ JumpToTop \/ JumpToBottom \/ TreePageDown \/ TreePageUp
  \/ TreeToggle \/ FoldAll \/ ExpandOrMoveToChild \/ CollapseOrJumpToParent
  \/ TreeWheel

TreeNext ==
  \/ treeUI.focus /\ TreeKeys /\ Moved
  \/ TreeClick \/ EnterTree \/ LeaveTree \/ LoseFocus \/ TreeResize \/ Refilter \/ TreeReload

TreeSpec == TreeInit /\ [][TreeNext]_treeVars

-----------------------------------------------------------------------------
(* Properties.                                                             *)

TreeTypes ==
  /\ t.cursor \in 0..Max({0, Len(t.flat) - 1}) /\ t.top \in Nat
  /\ t.open \subseteq Nodes(t.built)
  /\ peeked \subseteq issues(t.built)

\* Whether the next build of a snapshot is skipped although a project's tree is in its place.
Overlooked == ~treeUI.here /\ t.hash = treeUI.data /\ issues(t.built) \subseteq Here

\* While the tree has the focus it has the issues and parents of the data and the project of
\* now, whatever reloads and filters came while it was shown or away.  (After the tree of a
\* project, that of all projects is taken to be built already when the data are those of its
\* hash: a project's issues stay.)
TreeIsCurrent == treeUI.focus => t.built = Filtered(treeUI) \/ Overlooked \/ treeUI.missed

\* What tree-state.json says is what is folded on the screen (saveState and loadState): a bt that
\* is started again shows the tree as it was left, but for what was opened to show an issue.
\* An issue in several places has one entry.
FoldingSaved ==
  \A p \in Nodes(t.built) :
    NodesOf(t.built, Last(p)) = {p} /\ Last(p) \notin peeked =>
      (p \in t.open) = (IF Last(p) \in DOMAIN treeFile THEN treeFile[Last(p)] ELSE Len(p) <= 2)

\* Where View draws the cursor, in all rows of the body.
OnScreen(u, ui) ==
  LET h == ui.rows + 1 IN u.cursor - FirstShown(u, h) \in 0..(h - 1)

\* Whichever way the user moves or folds, the selected row is drawn, unless the window has
\* become smaller since the tree was given its size.
CursorFollows ==
  treeUI.moved => treeUI.rows < t.height \/ ~HasRows(t) \/ OnScreen(t, treeUI)

\* handleSnapshotReady "rebuild[s] it from the new snapshot while preserving user state (selection
\* + persisted expand/collapse)": if the selected issue still has a row it stays selected, in
\* the view of all projects.
TreeKeepsSelection ==
  [][treeUI'.data # treeUI.data /\ treeUI.worker /\ ~treeUI.here /\ HasRows(t)
       /\ (\E k \in DOMAIN t'.flat : Last(t'.flat[k]) = Last(SelectedNode(t)))
     => Last(SelectedNode(t')) = Last(SelectedNode(t))]_treeVars

\* A click selects the row drawn at its line.
ClickHits ==
  treeUI.shown => \A y \in 0..(t.height - 1) :
    Hit(y) <= LastRow => Hit(y) = FirstShown(t, treeUI.rows + 1) + y
=============================================================================
