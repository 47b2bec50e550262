------------------------------ MODULE Filters ------------------------------
(***************************************************************************)
(* pkg/ui/model_filter.go and its callers: what the list and the view of   *)
(* the current mode show.  A status filter, a label, a recipe, a query,    *)
(* the project filter and the visibility of wisps select issues; keys and  *)
(* pickers change them, snapshots of the background worker, reloads        *)
(* without a worker and the end of Phase 2 fill the views again.           *)
(*                                                                         *)
(* Every view is filled when it is entered, so only that of the current    *)
(* mode is kept; the tree, which is not, has a module of its own.  What is *)
(* shown is a set of issues, each with the status it had when it was       *)
(* taken; their order is left out.  Keys may come in any mode: Navigation  *)
(* has who takes them.                                                     *)
(***************************************************************************)
EXTENDS Naturals, Sequences

CONSTANTS
  Id,           \* issues
  Statuses,     \* their statuses
  Loads,        \* what the source may hold: the status of each issue
  Repo,         \* projects
  RepoOf,       \* the project of each issue
  Home,         \* currentProjectDB
  Wisp,         \* ephemeral issues
  Labelled,     \* those that have the label the pickers offer
  Blocks,       \* pairs of a blocker and an issue it blocks
  Recipes,      \* recipes, by the name of their filter ("recipe:" and their own)
  Wanted,       \* the statuses each of them asks for
  Queried,      \* the statuses the query asks for
  MaxReloads    \* changes of the source

statusFilterCycle == <<"all", "open", "in_progress", "blocked", "closed", "deferred">>
StatusFilters == {"all", "open", "in_progress", "blocked", "closed", "deferred", "ready"}
NoRecipe == "none"
Query == "bql"
AllRepos == {}

ASSUME LoadsAssumption == Loads \subseteq [Id -> Statuses] /\ Loads # {}
ASSUME RepoAssumption == RepoOf \in [Id -> Repo] /\ Home \in Repo
ASSUME RecipesAssumption ==
  /\ Wanted \in [Recipes -> SUBSET Statuses] /\ "triage" \in Recipes
  /\ Recipes \cap (StatusFilters \cup {NoRecipe, Query}) = {}
ASSUME ReloadsAssumption == MaxReloads \in Nat

VARIABLES
  m,        \* the Model: data, filters, and what the views hold
  source,   \* what the source holds, and how often it may still change
  worker    \* the background worker, if there is one

filterVars == <<m, source, worker>>

-----------------------------------------------------------------------------
(* What the filters select.                                                *)

Shows(u, S) == {<<i, u.issues[i]>> : i \in S}

InScope(u) == {i \in Id : u.repos = AllRepos \/ RepoOf[i] \in u.repos}
Visible(u) == {i \in Id : u.wisps \/ i \notin Wisp}
WithLabel(u) == {i \in Id : u.label => i \in Labelled}

\* The switch of matchesCurrentFilter, which knows no recipe and no query.
WithStatus(u) ==
  {i \in Id :
     \/ u.current = "all"
     \/ u.current = "open" /\ u.issues[i] # "closed"
     \/ u.current \in {"in_progress", "blocked", "deferred", "closed"} /\ u.issues[i] = u.current
     \/ /\ u.current = "ready" /\ u.issues[i] \notin {"closed", "blocked"}
        /\ \A b \in Id : <<b, i>> \in Blocks => u.issues[b] = "closed"}

matchesCurrentFilter(u) == InScope(u) \cap WithStatus(u) \cap WithLabel(u)
InRecipe(u, r) == {i \in Id : r # NoRecipe => u.issues[i] \in Wanted[r]}
InQuery(u) == {i \in Id : u.issues[i] \in Queried}

\* filteredIssuesForActiveView: the code's own account of what the filters say.
Active(u) ==
  IF u.bql /\ u.current = Query THEN InScope(u) \cap Visible(u) \cap InQuery(u)
  ELSE IF u.recipe # NoRecipe /\ u.current \in Recipes
  THEN InScope(u) \cap Visible(u) \cap InRecipe(u, u.recipe)
  ELSE Visible(u) \cap matchesCurrentFilter(u)

-----------------------------------------------------------------------------
(* The ways to fill the views.                                             *)

\* List, board and graph; setListItems looks at the project filter once more.
Filled(u, S, how) ==
  [u EXCEPT !.list = Shows(u, S \cap InScope(u)), !.by = how,
            !.view = IF u.mode \in {"board", "graph"} THEN Shows(u, S) ELSE @,
            !.viewBy = IF u.mode \in {"board", "graph"} THEN how ELSE @]

refreshEpics(u) ==
  IF u.mode = "epics"
  THEN [u EXCEPT !.view = Shows(u, InScope(u) \cap Visible(u) \cap WithLabel(u)), !.viewBy = "scope"]
  ELSE u

applyFilter(u) ==
  refreshEpics(Filled(u, Visible(u) \cap matchesCurrentFilter(u), "filter"))

\* Variant: the project filter is left to setListItems.
applyRecipeAllRepos(u) ==
  [refreshEpics(Filled(u, InRecipe(u, u.recipe), "recipe")) EXCEPT !.current = u.recipe]
applyRecipe(u) ==
  [refreshEpics(Filled(u, InScope(u) \cap InRecipe(u, u.recipe), "recipe"))
     EXCEPT !.current = u.recipe]

applyBQL(u) == [Filled(u, InScope(u) \cap InQuery(u), "bql") EXCEPT !.current = Query]

reapplyActiveFilter(u) ==
  IF u.recipe # NoRecipe THEN applyRecipe(u)
  ELSE IF u.bql /\ u.current = Query THEN applyBQL(u)
  ELSE applyFilter(u)

refreshBoardAndGraph(u) ==
  IF u.mode \in {"board", "graph"}
  THEN [u EXCEPT !.view = Shows(u, Active(u)), !.viewBy = "active"] ELSE u

-----------------------------------------------------------------------------
(* Data that arrive.                                                       *)

NoBuild == [issues |-> <<>>, recipe |-> NoRecipe]
NoWorker == [on |-> FALSE, recipe |-> NoRecipe, wanted |-> FALSE, build |-> NoBuild]
NewWorker == [NoWorker EXCEPT !.on = TRUE, !.wanted = TRUE]

FilterInit ==
  \E d \in Loads :
    /\ source = [issues |-> d, left |-> MaxReloads]
    /\ m = [issues |-> d, snapshot |-> FALSE, phase2 |-> TRUE,
            current |-> "all", label |-> FALSE, recipe |-> NoRecipe, bql |-> FALSE,
            repos |-> AllRepos, wisps |-> FALSE, mode |-> "list",
            list |-> {<<i, d[i]>> : i \in Id}, by |-> "start", view |-> {}, viewBy |-> "scope"]
    /\ worker \in {NoWorker, NewWorker}

SourceChanges ==
  /\ source.left > 0
  /\ \E d \in Loads \ {source.issues} : source' = [issues |-> d, left |-> source.left - 1]
  /\ worker' = [worker EXCEPT !.wanted = worker.on]
  /\ UNCHANGED m

\* The worker loads the source and takes the recipe it was given last; one build at a time.
WorkerBuilds ==
  /\ worker.wanted /\ worker.build = NoBuild
  /\ worker' = [worker EXCEPT !.wanted = FALSE,
                              !.build = [issues |-> source.issues, recipe |-> worker.recipe]]
  /\ UNCHANGED <<m, source>>

\* Variant: the label is forgotten.
SnapshotItemsAnyLabel(u, r) ==
  InRecipe(u, r) \cap InScope(u)
    \cap (IF u.current \in {"all", "open", "closed", "ready"} THEN WithStatus(u) ELSE {})
\* The list items of a snapshot are those of its recipe.  The switch over the status filter is
\* one of its own, of four cases.
SnapshotItems(u, r) ==
  InRecipe(u, r) \cap InScope(u) \cap WithLabel(u)
    \cap (IF u.current \in {"all", "open", "closed", "ready"} THEN WithStatus(u) ELSE {})

Swapped(b) ==
  LET u == [m EXCEPT !.issues = b.issues, !.snapshot = TRUE, !.phase2 = TRUE] IN
  IF u.recipe = NoRecipe THEN Filled(u, SnapshotItems(u, b.recipe), "snapshot")
  ELSE IF u.recipe = b.recipe
  THEN [Filled(u, InRecipe(u, b.recipe) \cap InScope(u), "snapshot") EXCEPT !.current = u.recipe]
  ELSE applyRecipe(u)

\* handleSnapshotReady.
SnapshotReady ==
  /\ worker.build # NoBuild
  /\ worker' = [worker EXCEPT !.build = NoBuild]
  /\ m' = refreshEpics(Swapped(worker.build))
  /\ UNCHANGED source

\* A message of the worker has marked the snapshot already, and the announcement of the
\* analysis is ignored.
Phase2Update ==
  /\ m.phase2 /\ m.snapshot
  /\ m' = [m EXCEPT !.phase2 = FALSE]
  /\ UNCHANGED <<source, worker>>

\* handlePhase2Ready gives the graph all issues, and fills it again unless the filter is "all".
Phase2Ready ==
  /\ m.phase2
  /\ LET u == [m EXCEPT !.phase2 = FALSE,
                        !.view = IF m.mode = "graph" THEN Shows(m, Id) ELSE @,
                        !.viewBy = IF m.mode = "graph" THEN "phase2" ELSE @] IN
     m' = IF u.current = "all" THEN u ELSE reapplyActiveFilter(u)
  /\ UNCHANGED <<source, worker>>

Replaced == [m EXCEPT !.issues = source.issues, !.phase2 = TRUE]

\* handleFileChanged, without a worker.  A slow reload starts one, which is told no recipe.
FileChanged ==
  /\ ~worker.on /\ m.issues # source.issues
  /\ m' = refreshEpics(reapplyActiveFilter(refreshBoardAndGraph(Replaced)))
  /\ worker' \in {worker, NewWorker}
  /\ UNCHANGED source

\* handleDataSourceReload, without a worker.
DataSourceReload ==
  /\ ~worker.on /\ m.issues # source.issues
  /\ m' = reapplyActiveFilter(Replaced)
  /\ UNCHANGED <<source, worker>>

-----------------------------------------------------------------------------
(* Keys.                                                                   *)

\* setActiveRecipe tells the worker, which builds again when the recipe is another.
setActiveRecipe(r) ==
  worker' = IF worker.on /\ worker.recipe # r
            THEN [worker EXCEPT !.recipe = r, !.wanted = TRUE] ELSE worker

\* o, c, r.
StatusKey(f) ==
  /\ f \in {"open", "closed", "ready"}
  /\ m' = applyFilter([m EXCEPT !.bql = FALSE, !.current = IF @ = f THEN "all" ELSE f])
  /\ UNCHANGED <<source, worker>>

\* A filter outside the cycle is followed by its first member.
NextStatus ==
  IF \E k \in DOMAIN statusFilterCycle : statusFilterCycle[k] = m.current
  THEN LET k == CHOOSE k \in DOMAIN statusFilterCycle : statusFilterCycle[k] = m.current
       IN statusFilterCycle[(k % Len(statusFilterCycle)) + 1]
  ELSE "all"

cycleStatusFilter ==
  /\ m' = applyFilter([m EXCEPT !.bql = FALSE, !.recipe = NoRecipe, !.current = NextStatus])
  /\ setActiveRecipe(NoRecipe) /\ UNCHANGED source

\* The order itself is left out.
cycleSortMode ==
  /\ m' = applyFilter(m)
  /\ UNCHANGED <<source, worker>>

PickRecipe(r) ==
  /\ m' = applyRecipe([m EXCEPT !.recipe = r])
  /\ setActiveRecipe(r) /\ UNCHANGED source

\* R: the triage recipe, or none when it is the active one.
RecipeTriage ==
  /\ IF m.recipe = "triage"
     THEN m' = applyFilter([m EXCEPT !.recipe = NoRecipe]) /\ setActiveRecipe(NoRecipe)
     ELSE m' = applyRecipe([m EXCEPT !.recipe = "triage"]) /\ setActiveRecipe("triage")
  /\ UNCHANGED source

EnterQuery ==
  /\ m' = applyBQL([m EXCEPT !.recipe = NoRecipe, !.bql = TRUE])
  /\ setActiveRecipe(NoRecipe) /\ UNCHANGED source

ClearQuery ==
  /\ m' = applyFilter([m EXCEPT !.bql = FALSE, !.current = "all"])
  /\ UNCHANGED <<source, worker>>

\* The picker, the drilldown, the dashboard and the attention view set a label; the picker
\* clears it as well.
PickLabel ==
  /\ \E l \in BOOLEAN : m' = applyFilter([m EXCEPT !.label = l])
  /\ UNCHANGED <<source, worker>>

\* The project picker and W look at recipes only.
InRepos(u) == IF u.recipe # NoRecipe THEN applyRecipe(u) ELSE applyFilter(u)

PickRepos ==
  /\ \E S \in SUBSET Repo \ {{}} :
       m' = InRepos([m EXCEPT !.repos = IF S = Repo THEN AllRepos ELSE S])
  /\ UNCHANGED <<source, worker>>

WorkspaceHomeAll ==
  /\ m' = InRepos([m EXCEPT !.repos = IF @ = AllRepos THEN {Home} ELSE AllRepos])
  /\ UNCHANGED <<source, worker>>

\* A jump from an alert or notification adds the project of its issue.  Whether the list now
\* has the issue decides if the list comes up.
revealBeadIfHidden ==
  /\ \E i \in Id \ InScope(m) :
       LET u == applyFilter([m EXCEPT !.repos = @ \cup {RepoOf[i]}]) IN
       m' = IF \E s \in Statuses : <<i, s>> \in u.list
            THEN [u EXCEPT !.mode = "list", !.view = {}, !.viewBy = "scope"]
            ELSE u
  /\ UNCHANGED <<source, worker>>

toggleWisps ==
  /\ m' = applyFilter([m EXCEPT !.wisps = ~@])
  /\ UNCHANGED <<source, worker>>

\* Esc in the list, when a filter is set or the order is not the default one.
clearAllFilters ==
  /\ m.mode = "list"
  /\ m' = applyFilter([m EXCEPT !.current = "all", !.label = FALSE, !.recipe = NoRecipe,
                                !.bql = FALSE])
  /\ setActiveRecipe(NoRecipe) /\ UNCHANGED source

\* Entering or leaving time travel.
rebuildListWithDiffInfo ==
  /\ m' = reapplyActiveFilter(m)
  /\ UNCHANGED <<source, worker>>

Enter(mode) ==
  /\ m.mode # mode
  /\ m' = refreshEpics(refreshBoardAndGraph([m EXCEPT !.mode = mode]))
  /\ UNCHANGED <<source, worker>>

Leave ==
  /\ m.mode # "list"
  /\ m' = [m EXCEPT !.mode = "list", !.view = {}, !.viewBy = "scope"]
  /\ UNCHANGED <<source, worker>>

Key ==
  \/ \E f \in StatusFilters : StatusKey(f)
  \/ cycleStatusFilter \/ cycleSortMode \/ RecipeTriage
  \/ \E r \in Recipes : PickRecipe(r)
  \/ EnterQuery \/ ClearQuery \/ PickLabel \/ PickRepos \/ WorkspaceHomeAll
  \/ revealBeadIfHidden \/ toggleWisps \/ clearAllFilters \/ rebuildListWithDiffInfo
  \/ \E mode \in {"board", "graph", "epics"} : Enter(mode)
  \/ Leave

Arrival ==
  SourceChanges \/ WorkerBuilds \/ SnapshotReady \/ Phase2Update \/ Phase2Ready
    \/ FileChanged \/ DataSourceReload

FilterNext == Key \/ Arrival
FilterSpec == FilterInit /\ [][FilterNext]_filterVars

-----------------------------------------------------------------------------
(* Properties.                                                             *)

\* Whether who filled the rows last had the means to do what the filters say.  applyFilter
\* takes the name of a recipe or of the query for a status no issue has, and so it is after R,
\* t, a label or another project; the snapshots' switch knows three filters beside "all".  The
\* snapshot of a recipe that was dropped is replaced by the next one, which is under way.
Capable(by) ==
  /\ by = "filter" => m.current \in StatusFilters
  /\ by = "snapshot" => /\ m.current \in {"all", "open", "closed", "ready"} \cup Recipes
                        /\ ~worker.wanted /\ worker.build = NoBuild
  /\ by # "phase2"

\* Recipes, queries and snapshots do not look at wisps: those that are to be hidden are put aside.
Honest(rows, by) ==
  Capable(by) => {p \in rows : p[1] \in Visible(m)} = Shows(m, Active(m))

\* Whatever keys are pressed while snapshots, reloads and Phase 2 come in between, the list and
\* the board, graph or epics on screen show the issues that the filters in force select
\* in the data of now (filteredIssuesForActiveView), no row of earlier data among them.  The
\* epics do not follow a query.
ViewsHonest ==
  /\ Honest(m.list, m.by)
  /\ m.mode \in {"board", "graph"} => Honest(m.view, m.viewBy)
  /\ m.mode = "epics" /\ ~m.bql => m.view = Shows(m, InScope(m) \cap Visible(m) \cap WithLabel(m))

\* No path fills the list or a view with issues of a project that is not selected; only the
\* graph shows all of them once Phase 2 has ended.
ScopeKept ==
  /\ \A p \in m.list : p[1] \in InScope(m)
  /\ m.viewBy # "phase2" => \A p \in m.view : p[1] \in InScope(m)

\* What filter_preservation_test.go:455 asks ("an active BQL filter ... must survive a Dolt poll
\* reload"), of the snapshots that the reload of a worker ends in: the list is still the one
\* that the filters select.
FilterSurvivesReload ==
  m.by = "snapshot" /\ ~worker.wanted /\ worker.build = NoBuild
    => {p \in m.list : p[1] \in Visible(m)} = Shows(m, Active(m))
=============================================================================
