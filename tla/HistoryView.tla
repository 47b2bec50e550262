---------------------------- MODULE HistoryView ----------------------------
(***************************************************************************)
(* pkg/ui/history.go with its keys, clicks and loads: the beads of a       *)
(* project with the commits correlated to each (bead mode), or the commits *)
(* with their beads (git mode); a confidence threshold, a file chosen in a *)
(* tree of files, and a search narrow the lists.  A report is loaded off   *)
(* the event loop each time the view is entered, and once at the start.    *)
(*                                                                         *)
(* Beads and commits are numbered: a smaller bead sorts first, a larger    *)
(* commit is more recent.  Scroll offsets are left out.                    *)
(***************************************************************************)
EXTENDS Integers, Sequences, FiniteSets, SequencesExt, FiniteSetsExt, Listing

CONSTANTS
  Reports,        \* the report of each project: for each bead its commits with a level of
                  \* confidence, in a row, and its number of events
  Touches,        \* the files each commit touches
  Thresholds,     \* levels of confidence to cycle through, from 0
  Folders,        \* the files of each report: a row of directories, each a row of files
  Queries,        \* what a query matches: sets of beads, and of commits
  Panes,          \* numbers of panes a window may have room for: 2 or 3
  MaxLoads        \* loads that are started

\* No report, bead, file and query.
Nil == 0
None == "none"
Everything == [beads |-> {}, commits |-> {}]

Files == UNION Range(Touches)
Commits == [sha : Nat, conf : Nat]

ASSUME HistoryAssumption ==
  /\ DOMAIN Reports \subseteq Nat \ {Nil}
  /\ \A r \in DOMAIN Reports :
       /\ DOMAIN Reports[r] \in SUBSET Nat /\ IsFiniteSet(DOMAIN Reports[r])
       /\ \A b \in DOMAIN Reports[r] : Reports[r][b] \in [commits : Seq(Commits), events : Nat]
       /\ Folders[r] \in Seq(Seq(Files))
  /\ Thresholds \in Seq(Nat) /\ Thresholds # <<>>
  /\ Panes \subseteq {2, 3}
  /\ MaxLoads \in Nat
  /\ \A q \in Queries : q.beads \cup q.commits # {}

VARIABLES
  hist,       \* the HistoryModel
  histUI,     \* the Model around it: shown, loading, failed, doltOnly, the width and loads left
  loads       \* loads that run, each with the project it was asked for

historyVars == <<hist, histUI, loads>>

-----------------------------------------------------------------------------
(* The lists.                                                              *)

Beads(r) == DOMAIN Reports[r]

Passes(c, h) ==
  /\ c.conf >= Thresholds[h.conf]
  /\ h.file = None \/ h.file \in Touches[c.sha]

\* What the filters leave of a bead; they say nothing of one without commits.
Kept(h, b) ==
  LET all == Reports[h.report][b].commits
  IN Thinned(all, {k \in DOMAIN all : Passes(all[k], h)})
Listed(h) ==
  {b \in Beads(h.report) :
     LET all == Reports[h.report][b].commits
     IN IF all = <<>> THEN Reports[h.report][b].events > 0 ELSE Kept(h, b) # <<>>}

\* Most commits first, then most events, then by name.
Ahead(h, a, b) ==
  LET m == Len(Kept(h, a))  n == Len(Kept(h, b))
      e == Reports[h.report][a].events  f == Reports[h.report][b].events
  IN m > n \/ (m = n /\ (e > f \/ (e = f /\ a < b)))

SortedBy(h) ==
  LET S == Listed(h)
      beads == InOrder(S, {pair \in S \X S : Ahead(h, pair[1], pair[2])})
  IN [k \in DOMAIN beads |-> [bead |-> beads[k], commits |-> Kept(h, beads[k])]]

Lists ==
  Table([r \in DOMAIN Reports |->
     Table([k \in DOMAIN Thresholds |->
       Table([f \in {None} \cup Files |->
         Table(SortedBy([report |-> r, conf |-> k, file |-> f]))])])])
Sorted(h) == Lists[h.report][h.conf][h.file]

SelectedBeadID(h) == IF h.bead < Len(h.list) THEN h.list[h.bead + 1].bead ELSE Nil
IndexOf(list, b) == {k \in 0..(Len(list) - 1) : list[k + 1].bead = b}

\* Variant: the row of the commit is left as it is.
WithListUnclamped(h, list, keep) ==
  LET at == IndexOf(list, keep)
  IN IF at = {} THEN [h EXCEPT !.list = list, !.bead = 0, !.commit = 0]
     ELSE [h EXCEPT !.list = list, !.bead = Min(at)]

\* rebuildFilteredList: the selected bead stays selected if it is still listed.
WithList(h, list, keep) ==
  LET at == IndexOf(list, keep)
      n == Len(list[Min(at) + 1].commits)
  IN IF at = {} THEN [h EXCEPT !.list = list, !.bead = 0, !.commit = 0]
     ELSE [h EXCEPT !.list = list, !.bead = Min(at),
                    !.commit = IF @ < n THEN @ ELSE IF n > 0 THEN n - 1 ELSE 0]

\* Variant: the row stays selected, whatever bead is there now.
rebuildKeepingRow(h) ==
  IF h.report = Nil THEN [h EXCEPT !.list = <<>>]
  ELSE LET list == Sorted(h)
       IN IF h.bead < Len(list) THEN [h EXCEPT !.list = list, !.commit = 0]
          ELSE [h EXCEPT !.list = list, !.bead = 0, !.commit = 0]

rebuildFilteredList(h) ==
  IF h.report = Nil THEN [h EXCEPT !.list = <<>>]
  ELSE WithList(h, Sorted(h), SelectedBeadID(h))

\* buildCommitList goes through the beads in the order of a map, which is any order.
Shas(r) == UNION {{c.sha : c \in Range(Reports[r][b].commits)} : b \in Beads(r)}
BeadsOf(r, sha) == {b \in Beads(r) : \E c \in Range(Reports[r][b].commits) : c.sha = sha}
ByRecency(r) == InOrder(Shas(r), {pair \in Shas(r) \X Shas(r) : pair[1] > pair[2]})
Orders(r) == {f \in [1..Cardinality(Beads(r)) -> Beads(r)] : Range(f) = Beads(r)}
CommitLists ==
  Table([r \in {Nil} \cup DOMAIN Reports |->
     IF r = Nil THEN {<<>>}
     ELSE {[k \in DOMAIN ByRecency(r) |->
              [sha |-> ByRecency(r)[k],
               beads |-> Thinned(order, {j \in DOMAIN order : order[j] \in BeadsOf(r, ByRecency(r)[k])})]] :
             order \in Orders(r)}])

\* GetFilteredCommitList: no list of matches means all commits.
GetFilteredCommitList(h) == IF h.found = <<>> THEN h.commits ELSE h.found
SelectedGitCommit(h) == GetFilteredCommitList(h)[h.gitCommit + 1]
HasGitCommit(h) == h.gitCommit < Len(GetFilteredCommitList(h))
RelatedOf(h) == IF HasGitCommit(h) THEN Len(SelectedGitCommit(h).beads) ELSE 0
CommitsOf(h) == IF h.bead < Len(h.list) THEN Len(h.list[h.bead + 1].commits) ELSE 0

-----------------------------------------------------------------------------
(* Search.                                                                 *)

commitMatchesQuery(c, q) == c.sha \in q.commits \/ Range(c.beads) \cap q.beads # {}
beadMatchesQuery(b, r, q) ==
  b \in q.beads \/ \E c \in Range(Reports[r][b].commits) : c.sha \in q.commits

\* The list of matches is nil if there are none.
filterCommitList(h, q) ==
  LET matches == Thinned(h.commits, {k \in DOMAIN h.commits : commitMatchesQuery(h.commits[k], q)})
      fits == h.gitCommit < Len(matches)
  IN [h EXCEPT !.found = matches,
               !.gitCommit = IF h.commits = <<>> \/ fits THEN @ ELSE 0,
               !.related = IF h.commits = <<>> \/ fits THEN @ ELSE 0]

\* A bead that matches comes with all its commits, those the filters drop too.
filterBeadList(h, q) ==
  LET hits == Thinned(h.list, {k \in DOMAIN h.list : beadMatchesQuery(h.list[k].bead, h.report, q)})
      list == [k \in DOMAIN hits |-> [hits[k] EXCEPT !.commits = Reports[h.report][hits[k].bead].commits]]
      fits == h.bead < Len(list)
  IN IF h.report = Nil THEN h
     ELSE [h EXCEPT !.list = list, !.bead = IF fits THEN @ ELSE 0, !.commit = IF fits THEN @ ELSE 0]

\* applySearchFilter: first the whole lists again, then what the query leaves of them.
Searched(h, commits) ==
  LET base == [rebuildFilteredList(h) EXCEPT !.commits = IF h.git THEN commits ELSE @]
  IN CASE h.query = Everything -> [base EXCEPT !.found = <<>>]
       [] h.query # Everything /\ h.git -> filterCommitList(base, h.query)
       [] OTHER -> filterBeadList(base, h.query)

applySearchFilter(h) == \E commits \in CommitLists[h.report] : hist' = Searched(h, commits)

-----------------------------------------------------------------------------
(* Loading.                                                                *)

NewHistoryModel(r, panes) ==
  rebuildFilteredList(
    [report |-> r, list |-> <<>>, bead |-> 0, commit |-> 0, focus |-> "list", git |-> FALSE,
     commits |-> <<>>, found |-> <<>>, gitCommit |-> 0, related |-> 0, conf |-> 1,
     file |-> None, tree |-> FALSE, treeFocus |-> FALSE, row |-> 0, open |-> {},
     searching |-> FALSE, query |-> Everything, panes |-> panes])

\* Init asks for the report of the project at hand.
HistoryInit ==
  /\ \E p \in Panes :
       /\ hist = NewHistoryModel(Nil, p)
       /\ histUI = [shown |-> FALSE, loading |-> TRUE, failed |-> FALSE, doltOnly |-> FALSE,
                    panes |-> p, left |-> MaxLoads]
  /\ \E r \in DOMAIN Reports : loads = {[nr |-> 0, project |-> r]}

\* enterHistoryView, for the project of the bead under the cursor.
EnterHistory ==
  /\ ~histUI.shown
  /\ hist' = NewHistoryModel(Nil, histUI.panes)
  /\ \/ /\ histUI.left > 0
        /\ histUI' = [histUI EXCEPT !.shown = TRUE, !.loading = TRUE, !.failed = FALSE,
                                    !.doltOnly = FALSE, !.left = @ - 1]
        /\ \E r \in DOMAIN Reports : loads' = loads \cup {[nr |-> histUI.left, project |-> r]}
     \/ /\ histUI' = [histUI EXCEPT !.shown = TRUE, !.loading = FALSE, !.failed = FALSE,
                                    !.doltOnly = TRUE]
        /\ UNCHANGED loads

\* handleHistoryLoaded takes whichever load ends, whatever was asked for since.
HistoryLoaded ==
  \E load \in loads, ok \in BOOLEAN :
    /\ loads' = loads \ {load}
    /\ histUI' = [histUI EXCEPT !.loading = FALSE, !.failed = @ \/ ~ok]
    /\ hist' = IF ok THEN NewHistoryModel(load.project, histUI.panes) ELSE hist

\* Its key, esc, or a jump to the selected bead in the list or the graph.
LeaveHistory ==
  /\ ~hist.searching /\ ~hist.treeFocus
  /\ histUI' = [histUI EXCEPT !.shown = FALSE, !.doltOnly = FALSE]
  /\ UNCHANGED <<hist, loads>>

\* View lays out a copy: the model keeps the size it was made with.
HistoryResize ==
  /\ \E p \in Panes \ {histUI.panes} : histUI' = [histUI EXCEPT !.panes = p]
  /\ UNCHANGED <<hist, loads>>

-----------------------------------------------------------------------------
(* Keys: while searching, in the tree of files, otherwise.                 *)

StartSearch == ~hist.searching /\ ~hist.treeFocus /\ hist' = [hist EXCEPT !.searching = TRUE]

\* A letter, or one less: UpdateSearchInput.
TypeQuery ==
  /\ hist.searching
  /\ \E q \in (Queries \cup {Everything}) \ {hist.query} : applySearchFilter([hist EXCEPT !.query = q])

\* Variant: the input goes, the lists stay narrowed.
CancelSearchOnly ==
  /\ hist.searching
  /\ hist' = [hist EXCEPT !.searching = FALSE, !.query = Everything]

\* Both enter and esc.
CancelSearch ==
  /\ hist.searching
  /\ applySearchFilter([hist EXCEPT !.searching = FALSE, !.query = Everything])

\* The rows of the tree of files: of each directory <<d, 0>>, and, if it is open, <<d, k>> for its
\* k-th file.
FileRows(dirs, open) ==
  UNION {{<<d, k>> : k \in 0..(IF d \in open THEN Len(dirs[d]) ELSE 0)} : d \in DOMAIN dirs}
Over(x, y) == x[1] < y[1] \/ (x[1] = y[1] /\ x[2] < y[2])
FlatFiles ==
  LET dirs == Folders[hist.report]
      S == FileRows(dirs, hist.open)
      rows == InOrder(S, {pair \in S \X S : Over(pair[1], pair[2])})
  IN [n \in DOMAIN rows |->
        LET d == rows[n][1]  k == rows[n][2]
        IN [dir |-> d, file |-> IF k = 0 THEN None ELSE dirs[d][k]]]
SelectedFileNode == FlatFiles[hist.row + 1]

HasFileNode == hist.row < Len(FlatFiles)

\* The tree is built when it is first shown, and is empty without a report.
ToggleFileTree ==
  /\ ~hist.searching /\ ~hist.treeFocus
  /\ hist' = [hist EXCEPT !.tree = ~@]

\* ToggleExpandFile or SelectFile, and CollapseFileNode.
ChooseFile ==
  /\ HasFileNode
  /\ LET n == SelectedFileNode
     IN IF n.file = None
        THEN hist' = [hist EXCEPT !.open = IF n.dir \in @ THEN @ \ {n.dir} ELSE @ \cup {n.dir}]
        ELSE hist' = rebuildFilteredList([hist EXCEPT !.file = IF @ = n.file THEN None ELSE n.file])
CollapseFileNode ==
  /\ HasFileNode /\ SelectedFileNode.file = None
  /\ hist' = [hist EXCEPT !.open = @ \ {SelectedFileNode.dir}]

TreeKey ==
  /\ hist.treeFocus /\ ~hist.searching
  /\ \/ /\ hist.report # Nil
        /\ \/ hist.row < Len(FlatFiles) - 1 /\ hist' = [hist EXCEPT !.row = @ + 1]
           \/ hist.row > 0 /\ hist' = [hist EXCEPT !.row = @ - 1]
           \/ ChooseFile
           \/ CollapseFileNode
     \/ hist' = IF hist.file # None THEN rebuildFilteredList([hist EXCEPT !.file = None])
                ELSE [hist EXCEPT !.treeFocus = FALSE]
     \/ hist' = [hist EXCEPT !.treeFocus = FALSE]

ToggleFocus(h) ==
  IF h.focus = "list" THEN IF h.panes = 3 THEN "middle" ELSE "detail"
  ELSE IF h.focus = "middle" /\ h.panes = 3 THEN "detail" ELSE "list"

FocusCycle ==
  hist' = IF hist.tree /\ hist.focus = "detail" THEN [hist EXCEPT !.treeFocus = TRUE]
          ELSE [hist EXCEPT !.focus = ToggleFocus(hist)]

ToggleViewMode ==
  IF hist.git
  THEN hist' = [hist EXCEPT !.git = FALSE, !.bead = 0, !.commit = 0]
  ELSE \E commits \in CommitLists[hist.report] :
         hist' = [hist EXCEPT !.git = TRUE, !.commits = commits, !.gitCommit = 0, !.related = 0]

\* MoveUp, MoveDown and their counterparts for commits: the focus says what moves.
Steps(k, by, n) == (IF k + by \in 0..(n - 1) THEN k + by ELSE k)

MovedBead(h, by) ==
  IF h.focus # "list" THEN [h EXCEPT !.commit = Steps(@, by, CommitsOf(h))]
  ELSE IF Steps(h.bead, by, Len(h.list)) = h.bead THEN h
       ELSE [h EXCEPT !.bead = @ + by, !.commit = 0]

MovedGit(h, by) ==
  IF h.focus # "list" THEN [h EXCEPT !.related = Steps(@, by, RelatedOf(h))]
  ELSE IF Steps(h.gitCommit, by, Len(GetFilteredCommitList(h))) = h.gitCommit THEN h
       ELSE [h EXCEPT !.gitCommit = @ + by, !.related = 0]

HistoryMove ==
  \E by \in {-1, 1} : hist' = IF hist.git THEN MovedGit(hist, by) ELSE MovedBead(hist, by)

MovedSecond(h, by) ==
  IF h.git THEN [h EXCEPT !.related = Steps(@, by, RelatedOf(h))]
  ELSE [h EXCEPT !.commit = Steps(@, by, CommitsOf(h))]

NextRelated == \E by \in {-1, 1} : hist' = MovedSecond(hist, by)

CycleConfidence ==
  /\ ~hist.git
  /\ hist' = rebuildFilteredList([hist EXCEPT !.conf = (@ % Len(Thresholds)) + 1])

NormalKey ==
  /\ ~hist.searching /\ ~hist.treeFocus
  /\ FocusCycle \/ ToggleViewMode \/ HistoryMove \/ NextRelated \/ CycleConfidence

-----------------------------------------------------------------------------
(* The mouse.  Its first pane is that of the beads, in git mode too.       *)

SelectBead(h, k) == IF h.bead = k THEN h ELSE [h EXCEPT !.bead = k, !.commit = 0]

HistoryClick ==
  \/ \E k \in 0..(Len(hist.list) - 1) : hist' = SelectBead([hist EXCEPT !.focus = "list"], k)
  \/ /\ hist.panes = 3 /\ hist.git
     /\ \E k \in 0..(RelatedOf(hist) - 1) : hist' = [hist EXCEPT !.focus = "middle", !.related = k]
  \/ /\ hist.panes = 3 /\ ~hist.git
     /\ \E k \in 0..(CommitsOf(hist) - 1) : hist' = [hist EXCEPT !.focus = "middle", !.commit = k]
  \/ \E f \in {"list", "detail"} \cup (IF hist.panes = 3 THEN {"middle"} ELSE {}) :
       hist' = [hist EXCEPT !.focus = f]

\* ScrollAtX; the detail pane scrolls its text.
HistoryWheel ==
  \E by \in {-1, 1} :
    \/ hist' = MovedBead(hist, by)
    \/ hist.panes = 3 /\ hist' = MovedSecond(hist, by)

HistoryKeys ==
  \/ StartSearch \/ TypeQuery \/ CancelSearch \/ ToggleFileTree \/ TreeKey \/ NormalKey
  \/ HistoryClick \/ HistoryWheel

HistoryNext ==
  \/ histUI.shown /\ HistoryKeys /\ UNCHANGED <<histUI, loads>>
  \/ histUI.shown /\ LeaveHistory
  \/ EnterHistory \/ HistoryLoaded \/ HistoryResize

HistorySpec == HistoryInit /\ [][HistoryNext]_historyVars

-----------------------------------------------------------------------------
(* Properties.                                                             *)

\* Once a search has ended nothing of it is left: the list is what the threshold and the file
\* leave, each bead with the commits that pass, and all commits are back (applySearchFilter:
\* "always filter from the complete set").
HistoryListed ==
  hist.report # Nil /\ ~hist.searching =>
    hist.list = Sorted(hist) /\ hist.found = <<>>

\* Outside a search a cursor is on something whenever there is something: the keys that copy,
\* open and jump act on it.
HistoryCursors ==
  hist.report # Nil /\ ~hist.searching =>
    /\ hist.bead < Len(hist.list) \/ hist.bead = 0
    /\ hist.commit < CommitsOf(hist) \/ hist.commit = 0
    /\ hist.git => HasGitCommit(hist) \/ hist.gitCommit = 0

\* Another threshold or file keeps the selected bead, if it is still listed.
HistoryKeepsBead ==
  [][loads' = loads /\ hist'.report = hist.report /\ <<hist'.conf, hist'.file>> # <<hist.conf, hist.file>>
       /\ IndexOf(hist'.list, SelectedBeadID(hist)) # {}
     => SelectedBeadID(hist') = SelectedBeadID(hist)]_historyVars

\* In git mode a search lists commits that match.
SearchNarrows ==
  hist.git /\ hist.query # Everything =>
    \A c \in Range(GetFilteredCommitList(hist)) : commitMatchesQuery(c, hist.query)

\* The related bead too is one of the selected commit.
RelatedFits == hist.git => hist.related < RelatedOf(hist) \/ hist.related = 0

\* In bead mode a search keeps to the commits the filters leave.
SearchKeepsFilters ==
  hist.report # Nil => \A e \in Range(hist.list) : \A c \in Range(e.commits) : Passes(c, hist)
=============================================================================
