--------------------------------- MODULE Views ---------------------------------
(***************************************************************************)
(* The views that keep a selection of their own over data that change      *)
(* under them: the tree (TreeView), the history (HistoryView) and the      *)
(* board (BoardView).  Their models share nothing but the data, so a       *)
(* session is followed in one of them.                                     *)
(***************************************************************************)
EXTENDS TreeView, HistoryView, BoardView

VARIABLE mode   \* the view that is followed

vars == <<mode, treeVars, historyVars, boardVars>>

Init ==
  /\ mode \in {"tree", "history", "board"}
  /\ TreeInit /\ HistoryInit /\ BoardInit
  \* A view that is not followed need not start in all ways.
  /\ mode # "tree" => treeUI.worker /\ treeUI.data = 1 /\ treeUI.rows = Min(Heights)
  /\ mode # "history" => hist.panes = Min(Panes) /\ \A load \in loads : load.project = 1
  /\ mode # "board" => boardUI.worker /\ boardUI.load = 1

InTree(A) == mode = "tree" /\ A /\ UNCHANGED <<mode, historyVars, boardVars>>
InHistory(A) == mode = "history" /\ A /\ UNCHANGED <<mode, treeVars, boardVars>>
OnBoard(A) == mode = "board" /\ A /\ UNCHANGED <<mode, treeVars, historyVars>>

Next == InTree(TreeNext) \/ InHistory(HistoryNext) \/ OnBoard(BoardNext)

Spec == Init /\ [][Next]_vars

-----------------------------------------------------------------------------
(* Properties of the three together.                                       *)

\* What is listed is what the data of now and the choices in force say: the tree, the list of
\* the history once a search has ended, and the cards a search of the board has found.
ShowsCurrent == TreeIsCurrent /\ HistoryListed /\ MatchesHonest

\* A cursor is on something that is there and drawn, whatever is taken away under it.
CursorsFit == CursorFollows /\ HistoryCursors /\ BoardCursorFits

\* What is selected stays selected when a snapshot or another filter replaces the rows and it
\* is still among them.
SelectionKept == TreeKeepsSelection /\ HistoryKeepsBead /\ BoardKeepsSelection
=============================================================================
