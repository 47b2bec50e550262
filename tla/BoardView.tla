------------------------------ MODULE BoardView ------------------------------
(***************************************************************************)
(* pkg/ui/board.go with its keys and callers: the issues as cards in four  *)
(* columns, by status, priority or type.  Empty columns may be hidden; the *)
(* focus is an index into the columns that are shown, each column has a    *)
(* row of its own, and a search keeps the places of the cards it found.    *)
(* Filters and snapshots replace the cards under all of these.             *)
(*                                                                         *)
(* Issues are numbered in the order of their cards.  The expanded card and *)
(* the pane of details are left out.                                       *)
(***************************************************************************)
EXTENDS Integers, Sequences, FiniteSets, SequencesExt, Listing

CONSTANTS
  Cards,           \* what the source may hold, in a row: for each issue its column by status,
                   \* by priority and by type, of 1 to 4
  CardFilters,     \* sets of issues that filters may leave
  CardQueries,     \* sets of issues that a query may match
  PageRows,        \* how far a page goes
  MaxCardLoads     \* changes of the source

ASSUME BoardAssumption ==
  /\ \A d \in Range(Cards) :
       /\ IsFiniteSet(DOMAIN d) /\ DOMAIN d \subseteq Nat
       /\ \A i \in DOMAIN d : \A s \in 1..3 : d[i][s] \in 1..4
  /\ PageRows \in Nat /\ MaxCardLoads \in Nat

VARIABLES
  board,      \* the BoardModel; columns, rows and focusedCol are counted from 1
  boardUI     \* the Model around it: the load and the filter, whether there is a worker,
              \* whether the board has the focus, and the changes left

boardVars == <<board, boardUI>>

-----------------------------------------------------------------------------
(* Columns.                                                                *)

Columns == 1..4
SwimLanes == 1..3   \* by status, by priority, by type
NoQuery == {}

\* groupIssuesByMode; a snapshot brings the same columns, made before.
groupIssuesByMode(d, f, lane) ==
  [c \in Columns |->
     Ascending({i \in DOMAIN Cards[d] \cap f : Cards[d][i][lane] = c})]

shouldShowEmptyColumns(b) == b.empty = "shown" \/ (b.empty = "auto" /\ b.lane = 1)

ActiveColumns(b) ==
  LET some == Ascending({c \in Columns : b.columns[c] # <<>> \/ shouldShowEmptyColumns(b)})
  IN IF some = <<>> THEN <<1, 2, 3, 4>> ELSE some

\* Variant: the focus is left alone.
ActiveUnclamped(b) == [b EXCEPT !.active = ActiveColumns(b)]
updateActiveColumns(b) ==
  LET active == ActiveColumns(b)
  IN [b EXCEPT !.active = active, !.focused = IF @ > Len(active) THEN Len(active) ELSE @]

CancelBoardSearch(b) ==
  [b EXCEPT !.searching = FALSE, !.query = NoQuery, !.matches = <<>>, !.match = 1]

ClampedRow(row, column) ==
  IF row <= Len(column) THEN row ELSE IF column = <<>> THEN 1 ELSE Len(column)

\* Variant: what was found is kept.
RegroupedSearching(b, columns) ==
  updateActiveColumns([b EXCEPT !.columns = columns,
                                !.row = [c \in Columns |-> ClampedRow(@[c], columns[c])]])
\* The end of SetIssues, SetSnapshot and regroupIssues.
Regrouped(b, columns) ==
  updateActiveColumns([CancelBoardSearch(b) EXCEPT
    !.columns = columns, !.row = [c \in Columns |-> ClampedRow(@[c], columns[c])]])

SetIssues(b, d, f) == Regrouped(b, groupIssuesByMode(d, f, b.lane))

-----------------------------------------------------------------------------
(* The selection.                                                          *)

actualFocusedCol(b) == b.active[b.focused]
FocusedColumn(b) == b.columns[actualFocusedCol(b)]
HasCard(b) == b.row[actualFocusedCol(b)] <= Len(FocusedColumn(b))
SelectedCard(b) == FocusedColumn(b)[b.row[actualFocusedCol(b)]]

AtRow(b, row) == [b EXCEPT !.row[actualFocusedCol(b)] = row]

\* A match and an issue are looked for in all columns, shown or not.
AtPlace(b, c, row) ==
  LET shown == {k \in DOMAIN b.active : b.active[k] = c}
  IN [b EXCEPT !.focused = IF shown = {} THEN @ ELSE Min(shown), !.row[c] = row]

Places(b) == UNION {{c} \X DOMAIN b.columns[c] : c \in Columns}
PlacesOf(b, S) == {p \in Places(b) : b.columns[p[1]][p[2]] \in S}

SelectIssueByID(b, i) ==
  IF PlacesOf(b, {i}) = {} THEN b
  ELSE LET p == CHOOSE p \in PlacesOf(b, {i}) : TRUE IN AtPlace(b, p[1], p[2])

-----------------------------------------------------------------------------
(* Search.                                                                 *)

jumpToMatch(b, k) == AtPlace([b EXCEPT !.match = k], b.matches[k][1], b.matches[k][2])

Before2(p, q) == p[1] < q[1] \/ (p[1] = q[1] /\ p[2] < q[2])

updateSearchMatches(b) ==
  LET places == PlacesOf(b, b.query)
      found == InOrder(places, {pair \in places \X places : Before2(pair[1], pair[2])})
      u == [b EXCEPT !.matches = found, !.match = 1]
  IN IF found = <<>> THEN u ELSE jumpToMatch(u, 1)

StartBoardSearch ==
  /\ ~board.searching
  /\ board' = [CancelBoardSearch(board) EXCEPT !.searching = TRUE]

\* A letter, or one less.
TypeBoardQuery ==
  /\ board.searching
  /\ \E q \in (CardQueries \cup {NoQuery}) \ {board.query} :
       board' = updateSearchMatches([board EXCEPT !.query = q])

\* enter keeps what was found for n and N, esc does not.
EndBoardSearch ==
  /\ board.searching
  /\ board' \in {[board EXCEPT !.searching = FALSE], CancelBoardSearch(board)}

\* n and N, while searching and after.
NextMatch ==
  /\ board.matches # <<>>
  /\ \E by \in {1, Len(board.matches) - 1} :
       board' = jumpToMatch(board, ((board.match - 1 + by) % Len(board.matches)) + 1)

-----------------------------------------------------------------------------
(* Keys.                                                                   *)

\* j and k, and the wheel, which moves while searching too.
BoardMove ==
  \/ /\ board.row[actualFocusedCol(board)] < Len(FocusedColumn(board))
     /\ board' = AtRow(board, board.row[actualFocusedCol(board)] + 1)
  \/ /\ board.row[actualFocusedCol(board)] > 1
     /\ board' = AtRow(board, board.row[actualFocusedCol(board)] - 1)

MoveColumn ==
  \/ board.focused < Len(board.active) /\ board' = [board EXCEPT !.focused = @ + 1]
  \/ board.focused > 1 /\ board' = [board EXCEPT !.focused = @ - 1]

MoveToTop == board' = AtRow(board, 1)
MoveToBottom == FocusedColumn(board) # <<>> /\ board' = AtRow(board, Len(FocusedColumn(board)))

BoardPageDown ==
  LET n == Len(FocusedColumn(board))
      row == board.row[actualFocusedCol(board)] + PageRows
  IN FocusedColumn(board) # <<>> /\ board' = AtRow(board, IF row > n THEN n ELSE row)
BoardPageUp ==
  LET row == board.row[actualFocusedCol(board)] - PageRows
  IN board' = AtRow(board, IF row < 1 THEN 1 ELSE row)

\* The column, or else the first of the nearest that are shown.
JumpToColumn ==
  \E c \in Columns :
    LET Far(k) == IF board.active[k] < c THEN c - board.active[k] ELSE board.active[k] - c
        near == {k \in DOMAIN board.active : \A j \in DOMAIN board.active : Far(k) <= Far(j)}
    IN board' = [board EXCEPT !.focused = Min(near)]

JumpToEdge == \E k \in {1, Len(board.active)} : board' = [board EXCEPT !.focused = k]

CycleSwimLaneMode ==
  LET lane == (board.lane % 3) + 1
  IN board' = Regrouped([board EXCEPT !.lane = lane],
                        groupIssuesByMode(boardUI.load, boardUI.filter, lane))

NextEmpty == [auto |-> "shown", shown |-> "hidden", hidden |-> "auto"]
ToggleEmptyColumns == board' = updateActiveColumns([board EXCEPT !.empty = NextEmpty[@]])

\* While searching keys are text.
BoardKey ==
  /\ ~board.searching
  /\ \/ MoveColumn \/ MoveToTop \/ MoveToBottom \/ BoardPageDown \/ BoardPageUp
     \/ JumpToColumn \/ JumpToEdge \/ CycleSwimLaneMode \/ ToggleEmptyColumns

-----------------------------------------------------------------------------
(* The Model around it.                                                    *)

BoardInit ==
  \E d \in DOMAIN Cards, w \in BOOLEAN :
    /\ boardUI = [load |-> d, filter |-> DOMAIN Cards[d], worker |-> w, focus |-> FALSE,
                  left |-> MaxCardLoads]
    /\ board = SetIssues([columns |-> <<>>, active |-> <<>>, focused |-> 1,
                          row |-> [c \in Columns |-> 1], lane |-> 1, empty |-> "auto",
                          searching |-> FALSE, query |-> NoQuery, matches |-> <<>>, match |-> 1],
                         d, DOMAIN Cards[d])

\* Entering the board fills it again; so do filters and the end of Phase 2, on the board or not.
RefreshBoard ==
  \E f \in CardFilters, focus \in BOOLEAN :
    /\ boardUI' = [boardUI EXCEPT !.filter = f, !.focus = focus]
    /\ board' = SetIssues(board, boardUI.load, f)

\* Another view, or a modal over this one; while searching their keys are text.
LeaveBoard ==
  /\ boardUI.focus /\ ~board.searching
  /\ boardUI' = [boardUI EXCEPT !.focus = FALSE]
  /\ UNCHANGED board

\* A modal is closed.
ReturnToBoard ==
  /\ ~boardUI.focus
  /\ boardUI' = [boardUI EXCEPT !.focus = TRUE]
  /\ UNCHANGED board

\* Variant: the rows stay, whatever cards are there now.
ReloadedByRow(d) == SetIssues(board, d, boardUI.filter)
\* handleSnapshotReady selects the issue again if the board has the focus; the reloads without
\* a worker do not.
Reloaded(d) ==
  IF boardUI.worker /\ boardUI.focus /\ HasCard(board)
  THEN SelectIssueByID(SetIssues(board, d, boardUI.filter), SelectedCard(board))
  ELSE SetIssues(board, d, boardUI.filter)

BoardReload ==
  /\ boardUI.left > 0
  /\ \E d \in DOMAIN Cards \ {boardUI.load} :
       /\ boardUI' = [boardUI EXCEPT !.load = d, !.left = @ - 1]
       /\ board' = Reloaded(d)

BoardSearch == StartBoardSearch \/ TypeBoardQuery \/ EndBoardSearch \/ NextMatch

BoardNext ==
  \/ boardUI.focus /\ (BoardKey \/ BoardSearch \/ BoardMove) /\ UNCHANGED boardUI
  \/ RefreshBoard \/ LeaveBoard \/ ReturnToBoard \/ BoardReload

BoardSpec == BoardInit /\ [][BoardNext]_boardVars

-----------------------------------------------------------------------------
(* Properties.                                                             *)

\* Whatever hides columns, regroups the cards or takes them away, the focus is on a column that
\* is shown, and no row is below the last card of its column: SelectedIssue finds a card
\* wherever there is one.
BoardCursorFits ==
  /\ board.focused \in DOMAIN board.active
  /\ \A c \in Columns : board.row[c] \in 1..Max({1, Len(board.columns[c])})

\* The places a search has kept are those of the cards it matches, so n and N go to all of
\* them and nowhere else ("stale matches could reference invalid positions").
MatchesHonest == Range(board.matches) = PlacesOf(board, board.query)

\* handleSnapshotReady: "Preserve board selection by issue ID": on the board a card that is
\* selected when a snapshot comes and still has a place stays selected.
BoardKeepsSelection ==
  [][boardUI'.load # boardUI.load /\ boardUI.worker /\ boardUI.focus /\ HasCard(board)
       /\ PlacesOf(board', {SelectedCard(board)}) # {}
     => HasCard(board') /\ SelectedCard(board') = SelectedCard(board)]_boardVars

\* "typed letters reach board.AppendSearchChar instead of firing global hotkeys": a reload
\* does not end a search under the user's fingers.
TypingGoesOn ==
  [][boardUI'.load # boardUI.load /\ board.searching => board'.searching]_boardVars
=============================================================================
