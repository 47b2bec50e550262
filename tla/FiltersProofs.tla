--------------------------- MODULE FiltersProofs ---------------------------
(***************************************************************************)
(* What the list and the views show, for all issues, projects, statuses,   *)
(* recipes, queries and contents of the source.  The invariant tells, for  *)
(* each way to fill the rows, which issues they are (Given): a row set is  *)
(* what its way makes of the filters and the data of now, because nothing  *)
(* changes those without filling again.  That this is what the filters     *)
(* select needs a fact about the worker: a snapshot of a recipe that is no *)
(* longer in force comes only while another build is owed (WorkerKept).    *)
(***************************************************************************)
EXTENDS Filters, TLAPS

USE LoadsAssumption, RepoAssumption, RecipesAssumption, ReloadsAssumption

Names == Recipes \cup {NoRecipe}
Rows == SUBSET (Id \X Statuses)
Ways == {"start", "filter", "recipe", "bql", "snapshot", "active", "phase2", "scope"}
Build == [issues : [Id -> Statuses], recipe : Names]
Model ==
  [issues : [Id -> Statuses], snapshot : BOOLEAN, phase2 : BOOLEAN,
   current : StatusFilters \cup {Query} \cup Recipes, label : BOOLEAN, recipe : Names,
   bql : BOOLEAN, repos : SUBSET Repo, wisps : BOOLEAN,
   mode : {"list", "board", "graph", "epics"},
   list : Rows, by : Ways, view : Rows, viewBy : Ways]

FilterTypes ==
  /\ m \in Model
  /\ source \in [issues : [Id -> Statuses], left : Nat]
  /\ worker \in [on : BOOLEAN, recipe : Names, wanted : BOOLEAN, build : {NoBuild} \cup Build]

\* Another snapshot is under way.
Owed == worker.wanted \/ worker.build # NoBuild \/ Id = {}

InRecipeScope(u) == InScope(u) \cap InRecipe(u, u.recipe)
InEpics(u) == InScope(u) \cap Visible(u) \cap WithLabel(u)

\* The issues that each way to fill puts into the rows.
Given(u, owed, rows, by) ==
  \/ /\ by = "start" /\ rows = Shows(u, Id)
     /\ u.current = "all" /\ ~u.label /\ u.repos = AllRepos /\ u.recipe = NoRecipe
  \/ by = "filter" /\ rows = Shows(u, Visible(u) \cap matchesCurrentFilter(u))
  \/ /\ by \in {"recipe", "snapshot"} /\ u.recipe # NoRecipe /\ u.current = u.recipe
     /\ rows = Shows(u, InRecipeScope(u))
  \/ by = "bql" /\ u.bql /\ u.current = Query /\ rows = Shows(u, InScope(u) \cap InQuery(u))
  \/ /\ by = "snapshot" /\ u.recipe = NoRecipe
     /\ \E r \in Names : rows = Shows(u, SnapshotItems(u, r)) /\ (r # NoRecipe => owed)
  \/ by = "active" /\ rows = Shows(u, Active(u))
  \/ by = "phase2"

\* Phase 2 never fills the list.
ListKept(u, owed) == Given(u, owed, u.list, u.by) /\ u.by # "phase2"

\* A view holds the rows of its own way of filling, and the list has none.
ViewKept(u, owed) ==
  /\ u.mode \notin {"board", "graph"} => u.viewBy = "scope"
  /\ u.mode = "list" => u.view = {}
  /\ u.mode \in {"board", "graph"} => Given(u, owed, u.view, u.viewBy)
  /\ u.mode = "epics" /\ ~u.bql => u.view = Shows(u, InEpics(u))

\* Rows of the selected projects.
Scoped(u, rows) == \A p \in rows : p[1] \in InScope(u)
ScopeOf(u) == Scoped(u, u.list) /\ (u.viewBy # "phase2" => Scoped(u, u.view))

Kept(u, owed) == ListKept(u, owed) /\ ViewKept(u, owed) /\ ScopeOf(u)

\* A build for a recipe that is not the worker's is followed by another.
WorkerKept ==
  /\ worker.on => worker.recipe \in {m.recipe, NoRecipe}
  /\ ~worker.on => worker = NoWorker
  /\ worker.build # NoBuild /\ worker.build.recipe # worker.recipe => worker.wanted

FilterInv == FilterTypes /\ WorkerKept /\ Kept(m, Owed)

-----------------------------------------------------------------------------
(* What the filters select depends on the filters and the data.            *)
Alike(u, v) ==
  /\ v.issues = u.issues /\ v.label = u.label
  /\ v.recipe = u.recipe /\ v.bql = u.bql /\ v.repos = u.repos /\ v.wisps = u.wisps

Same(u, v) == Alike(u, v) /\ v.current = u.current

\* What is selected by scope, wisps, label, query and recipe is read from those alone.
LEMMA AlikeSelection ==
  ASSUME NEW u, NEW v, Alike(u, v)
  PROVE  /\ InScope(v) = InScope(u) /\ Visible(v) = Visible(u) /\ WithLabel(v) = WithLabel(u)
         /\ InQuery(v) = InQuery(u) /\ InEpics(v) = InEpics(u)
         /\ InRecipeScope(v) = InRecipeScope(u)
         /\ \A S : Shows(v, S) = Shows(u, S)
         /\ \A r : InRecipe(v, r) = InRecipe(u, r)
<1>1. InScope(v) = InScope(u)
  BY DEF InScope, Alike
<1>2. Visible(v) = Visible(u)
  BY DEF Visible, Alike
<1>3. WithLabel(v) = WithLabel(u)
  BY DEF WithLabel, Alike
<1>4. InQuery(v) = InQuery(u)
  BY DEF InQuery, Alike
<1>5. ASSUME NEW r PROVE InRecipe(v, r) = InRecipe(u, r)
  BY DEF InRecipe, Alike
<1>6. ASSUME NEW S PROVE Shows(v, S) = Shows(u, S)
  BY DEF Shows, Alike
<1>7. InRecipeScope(v) = InRecipeScope(u)
  <2>1. v.recipe = u.recipe
    BY DEF Alike
  <2> QED
    BY <1>1, <1>5, <2>1 DEF InRecipeScope
<1>8. InEpics(v) = InEpics(u)
  BY <1>1, <1>2, <1>3 DEF InEpics
<1> QED
  BY <1>1, <1>2, <1>3, <1>4, <1>5, <1>6, <1>7, <1>8

\* With the same current filter, so is what that filter selects.
LEMMA SameSelection ==
  ASSUME NEW u, NEW v, Same(u, v)
  PROVE  /\ Alike(u, v)
         /\ matchesCurrentFilter(v) = matchesCurrentFilter(u) /\ Active(v) = Active(u)
         /\ \A r : SnapshotItems(v, r) = SnapshotItems(u, r)
<1>1. Alike(u, v)
  BY DEF Same
<1>2. WithStatus(v) = WithStatus(u)
  BY DEF WithStatus, Same, Alike
<1>3. matchesCurrentFilter(v) = matchesCurrentFilter(u)
  BY <1>1, <1>2, AlikeSelection DEF matchesCurrentFilter
<1>4. /\ v.current = u.current /\ v.recipe = u.recipe /\ v.bql = u.bql
      /\ InRecipe(v, v.recipe) = InRecipe(u, u.recipe)
  BY <1>1, AlikeSelection DEF Same, Alike
<1>5. Active(v) = Active(u)
  BY <1>1, <1>3, <1>4, AlikeSelection DEF Active
<1>6. ASSUME NEW r PROVE SnapshotItems(v, r) = SnapshotItems(u, r)
  <2>1. InRecipe(v, r) = InRecipe(u, r)
    BY <1>1, AlikeSelection
  <2> QED
    BY <1>1, <1>2, <1>4, <2>1, AlikeSelection DEF SnapshotItems
<1> QED
  BY <1>1, <1>3, <1>5, <1>6

\* Rows filled in one way remain so in a model with the same filters and data.
LEMMA SameGiven ==
  ASSUME NEW u, NEW v, Same(u, v), NEW owed \in BOOLEAN, NEW rows, NEW by,
         Given(u, owed, rows, by)
  PROVE  Given(v, owed, rows, by)
<1>1. /\ v.current = u.current /\ v.label = u.label /\ v.recipe = u.recipe
      /\ v.bql = u.bql /\ v.repos = u.repos /\ Alike(u, v)
  BY DEF Same, Alike
<1>2. ASSUME NEW r \in Names, rows = Shows(u, SnapshotItems(u, r))
      PROVE  rows = Shows(v, SnapshotItems(v, r))
  BY <1>1, <1>2, SameSelection, AlikeSelection
<1>3. ASSUME NEW S, rows = Shows(u, S) PROVE rows = Shows(v, S)
  BY <1>1, <1>3, AlikeSelection
<1> QED
  BY <1>1, <1>2, <1>3, SameSelection, AlikeSelection DEF Given

\* Every selection is a set of known issues, and those that heed the scope stay in it.
LEMMA SelectionTypes ==
  ASSUME NEW u \in Model
  PROVE  /\ InScope(u) \subseteq Id /\ Visible(u) \subseteq Id
         /\ matchesCurrentFilter(u) \subseteq InScope(u)
         /\ Active(u) \subseteq InScope(u) /\ InRecipeScope(u) \subseteq InScope(u)
         /\ InEpics(u) \subseteq InScope(u)
         /\ \A S \in SUBSET Id : Shows(u, S) \in Rows
         /\ \A S \in SUBSET InScope(u) : Scoped(u, Shows(u, S))
         /\ \A r : SnapshotItems(u, r) \subseteq InScope(u)
<1>1. InScope(u) \subseteq Id /\ Visible(u) \subseteq Id
  BY DEF InScope, Visible
<1>2. matchesCurrentFilter(u) \subseteq InScope(u)
  BY DEF matchesCurrentFilter
<1>3. Active(u) \subseteq InScope(u)
  BY <1>2 DEF Active
<1>4. InRecipeScope(u) \subseteq InScope(u) /\ InEpics(u) \subseteq InScope(u)
  BY DEF InRecipeScope, InEpics
<1>5. ASSUME NEW S \in SUBSET Id PROVE Shows(u, S) \in Rows
  <2>1. u.issues \in [Id -> Statuses]
    BY DEF Model
  <2> QED
    BY <2>1 DEF Shows, Rows
<1>6. ASSUME NEW S \in SUBSET InScope(u) PROVE Scoped(u, Shows(u, S))
  BY DEF Shows, Scoped
<1>7. ASSUME NEW r PROVE SnapshotItems(u, r) \subseteq InScope(u)
  BY DEF SnapshotItems
<1> QED
  BY <1>1, <1>2, <1>3, <1>4, <1>5, <1>6, <1>7

-----------------------------------------------------------------------------
(* The ways to fill, field by field.                                       *)

\* What a fill leaves alone.
Aside(u, v) ==
  v \in Model /\ v.mode = u.mode /\ v.phase2 = u.phase2 /\ v.snapshot = u.snapshot

\* What setListItems and the refresh of board or graph assign, and what they leave alone.
LEMMA FilledFields ==
  ASSUME NEW u \in Model, NEW S \in SUBSET Id, NEW how \in Ways
  PROVE  LET v == Filled(u, S, how) IN
           /\ Aside(u, v) /\ Same(u, v)
           /\ v.list = Shows(u, S \cap InScope(u)) /\ v.by = how
           /\ v.mode \in {"board", "graph"} => v.view = Shows(u, S) /\ v.viewBy = how
           /\ v.mode \notin {"board", "graph"} => v.view = u.view /\ v.viewBy = u.viewBy
<1>1. Shows(u, S) \in Rows /\ Shows(u, S \cap InScope(u)) \in Rows
  BY SelectionTypes
<1> QED
  BY <1>1 DEF Filled, Model, Aside, Same, Alike

\* The epics are refreshed only while they are on the screen.
LEMMA EpicsFields ==
  ASSUME NEW u \in Model
  PROVE  LET v == refreshEpics(u) IN
           /\ Aside(u, v) /\ Same(u, v) /\ v.list = u.list /\ v.by = u.by
           /\ v.mode = "epics" => v.view = Shows(u, InEpics(u)) /\ v.viewBy = "scope"
           /\ v.mode # "epics" => v.view = u.view /\ v.viewBy = u.viewBy
<1>1. InEpics(u) \in SUBSET Id
  BY SelectionTypes
<1>2. Shows(u, InEpics(u)) \in Rows
  BY <1>1, SelectionTypes
<1>3. CASE u.mode = "epics"
  <2>1. refreshEpics(u) = [u EXCEPT !.view = Shows(u, InEpics(u)), !.viewBy = "scope"]
    BY <1>3 DEF refreshEpics, InEpics
  <2> QED
    BY <1>2, <1>3, <2>1 DEF Model, Aside, Same, Alike, Ways
<1>4. CASE u.mode # "epics"
  BY <1>4 DEF refreshEpics, Aside, Same, Alike
<1> QED
  BY <1>3, <1>4

\* Naming another current filter moves no row.
LEMMA CurrentFields ==
  ASSUME NEW u \in Model, NEW c \in StatusFilters \cup {Query} \cup Recipes
  PROVE  LET v == [u EXCEPT !.current = c] IN
           /\ Aside(u, v) /\ Alike(u, v) /\ v.list = u.list /\ v.by = u.by
           /\ v.view = u.view /\ v.viewBy = u.viewBy /\ v.current = c
BY DEF Model, Aside, Alike

\* Where no view of its own is shown, none is held.
Placed(u) ==
  /\ u.mode \notin {"board", "graph"} => u.viewBy = "scope"
  /\ u.mode = "list" => u.view = {}

\* Rows of a way that keeps its word, put where it puts them.
LEMMA FillKept ==
  ASSUME NEW u \in Model, NEW v \in Model, NEW owed \in BOOLEAN, Placed(u), Alike(u, v),
         v.mode = u.mode, NEW S \in SUBSET InScope(u), NEW how, how # "phase2",
         v.list = Shows(u, S), v.by = how, Given(v, owed, Shows(u, S), how),
         v.mode \in {"board", "graph"} => v.view = Shows(u, S) /\ v.viewBy = how,
         v.mode = "list" => v.view = u.view /\ v.viewBy = u.viewBy,
         v.mode = "epics" => /\ v.viewBy = "scope" /\ Scoped(v, v.view)
                             /\ ~v.bql => v.view = Shows(v, InEpics(v))
  PROVE  Kept(v, owed)
<1>1. ListKept(v, owed)
  BY DEF ListKept
<1>2. v.mode \in {"list", "board", "graph", "epics"}
  BY DEF Model
<1>3. ViewKept(v, owed)
  BY <1>2 DEF ViewKept, Placed
<1>4. Scoped(v, Shows(u, S)) /\ Scoped(v, {})
  <2>1. InScope(v) = InScope(u)
    BY AlikeSelection
  <2> QED
    BY <2>1, SelectionTypes DEF Scoped
<1>5. Scoped(v, v.list) /\ Scoped(v, v.view)
  BY <1>2, <1>4 DEF Placed
<1> QED
  BY <1>1, <1>3, <1>5 DEF Kept, ScopeOf

\* The rows of S in the list and in the board or graph, if that is shown.
HasRows(u, S, how, w) ==
  /\ Aside(u, w) /\ Same(u, w) /\ w.list = Shows(u, S) /\ w.by = how
  /\ w.mode \in {"board", "graph"} => w.view = Shows(u, S) /\ w.viewBy = how
  /\ w.mode \notin {"board", "graph"} => w.view = u.view /\ w.viewBy = u.viewBy

\* A fill from issues in scope gives the list, and the board or graph, exactly those.
LEMMA FilledIn ==
  ASSUME NEW u \in Model, NEW S, S \subseteq InScope(u), NEW how \in Ways
  PROVE  HasRows(u, S, how, Filled(u, S, how))
<1>1. S \in SUBSET Id /\ S \cap InScope(u) = S
  BY SelectionTypes
<1> QED
  BY <1>1, FilledFields DEF HasRows

\* A fill with the epics after it.
LEMMA FilledWithEpics ==
  ASSUME NEW u \in Model, NEW S \in SUBSET InScope(u), NEW how \in Ways
  PROVE  LET v == refreshEpics(Filled(u, S, how)) IN
           /\ Aside(u, v) /\ Same(u, v) /\ v.list = Shows(u, S) /\ v.by = how
           /\ v.mode \in {"board", "graph"} => v.view = Shows(u, S) /\ v.viewBy = how
           /\ v.mode = "list" => v.view = u.view /\ v.viewBy = u.viewBy
           /\ v.mode = "epics" => v.view = Shows(u, InEpics(u)) /\ v.viewBy = "scope"
<1> DEFINE w == Filled(u, S, how)
           v == refreshEpics(w)
<1>1. HasRows(u, S, how, w)
  BY FilledIn
<1>2. w \in Model
  BY <1>1 DEF HasRows, Aside
<1>3. /\ Aside(w, v) /\ Same(w, v) /\ v.list = w.list /\ v.by = w.by
      /\ v.mode = "epics" => v.view = Shows(w, InEpics(w)) /\ v.viewBy = "scope"
      /\ v.mode # "epics" => v.view = w.view /\ v.viewBy = w.viewBy
  BY <1>2, EpicsFields
<1>4. Aside(u, v) /\ Same(u, v) /\ v.mode = w.mode
  BY <1>1, <1>3 DEF HasRows, Aside, Same, Alike
<1>5. Shows(w, InEpics(w)) = Shows(u, InEpics(u))
  BY <1>1, SameSelection, AlikeSelection DEF HasRows
<1> QED
  BY <1>1, <1>3, <1>4, <1>5 DEF HasRows

\* What the epics show is of the selected projects.
LEMMA EpicsScoped ==
  ASSUME NEW u \in Model, NEW v, Alike(u, v)
  PROVE  /\ Scoped(v, Shows(u, InEpics(u))) /\ Scoped(v, Shows(v, InEpics(v)))
         /\ Shows(u, InEpics(u)) = Shows(v, InEpics(v))
<1>1. InScope(v) = InScope(u) /\ Shows(u, InEpics(u)) = Shows(v, InEpics(v))
  BY AlikeSelection
<1>2. Scoped(u, Shows(u, InEpics(u)))
  BY SelectionTypes
<1> QED
  BY <1>1, <1>2 DEF Scoped

\* applyFilter leaves a list and a view of the current filter.
LEMMA FilterKept ==
  ASSUME NEW u \in Model, Placed(u), NEW owed \in BOOLEAN
  PROVE  LET v == applyFilter(u) IN Aside(u, v) /\ Same(u, v) /\ Kept(v, owed)
<1> DEFINE S == Visible(u) \cap matchesCurrentFilter(u)
           v == applyFilter(u)
<1>1. S \in SUBSET InScope(u)
  BY SelectionTypes
<1>2. /\ Aside(u, v) /\ Same(u, v) /\ v.list = Shows(u, S) /\ v.by = "filter"
      /\ v.mode \in {"board", "graph"} => v.view = Shows(u, S) /\ v.viewBy = "filter"
      /\ v.mode = "list" => v.view = u.view /\ v.viewBy = u.viewBy
      /\ v.mode = "epics" => v.view = Shows(u, InEpics(u)) /\ v.viewBy = "scope"
  BY <1>1, FilledWithEpics DEF applyFilter, Ways
<1>3. Alike(u, v) /\ v \in Model /\ v.mode = u.mode
  BY <1>2 DEF Same, Aside
<1>4. Given(v, owed, Shows(u, S), "filter")
  <2>1. Visible(v) \cap matchesCurrentFilter(v) = S
    BY <1>2, <1>3, SameSelection, AlikeSelection
  <2>2. Shows(v, S) = Shows(u, S)
    BY <1>3, AlikeSelection
  <2> QED
    BY <2>1, <2>2 DEF Given
<1>5. Kept(v, owed)
  BY <1>1, <1>2, <1>3, <1>4, EpicsScoped, FillKept
<1> QED
  BY <1>2, <1>5

\* applyRecipe leaves those of the recipe, and names it the current filter.
LEMMA RecipeKept ==
  ASSUME NEW u \in Model, u.recipe # NoRecipe, Placed(u), NEW owed \in BOOLEAN
  PROVE  LET v == applyRecipe(u) IN
           Aside(u, v) /\ Alike(u, v) /\ v.current = u.recipe /\ Kept(v, owed)
<1> DEFINE S == InRecipeScope(u)
           w == refreshEpics(Filled(u, S, "recipe"))
           v == [w EXCEPT !.current = u.recipe]
<1>1. S \in SUBSET InScope(u)
  BY SelectionTypes
<1>2. /\ Aside(u, w) /\ Same(u, w) /\ w.list = Shows(u, S) /\ w.by = "recipe"
      /\ w.mode \in {"board", "graph"} => w.view = Shows(u, S) /\ w.viewBy = "recipe"
      /\ w.mode = "list" => w.view = u.view /\ w.viewBy = u.viewBy
      /\ w.mode = "epics" => w.view = Shows(u, InEpics(u)) /\ w.viewBy = "scope"
  BY <1>1, FilledWithEpics DEF Ways
<1>3. u.recipe \in Recipes /\ w \in Model
  BY <1>2 DEF Model, Names, Aside
<1>4. /\ Aside(w, v) /\ Alike(w, v) /\ v.list = w.list /\ v.by = w.by
      /\ v.view = w.view /\ v.viewBy = w.viewBy /\ v.current = u.recipe
  BY <1>3, CurrentFields
<1>5. Aside(u, v) /\ Alike(u, v) /\ v.mode = w.mode /\ v.mode = u.mode /\ v \in Model
  BY <1>2, <1>4 DEF Aside, Same, Alike
<1>6. Given(v, owed, Shows(u, S), "recipe")
  <2>1. v.recipe = u.recipe
    BY <1>5 DEF Alike
  <2>2. InRecipeScope(v) = S /\ Shows(v, S) = Shows(u, S)
    BY <1>5, AlikeSelection
  <2> QED
    BY <1>4, <2>1, <2>2 DEF Given
<1>7. Kept(v, owed)
  <2>1. /\ v.list = Shows(u, S) /\ v.by = "recipe"
        /\ v.mode \in {"board", "graph"} => v.view = Shows(u, S) /\ v.viewBy = "recipe"
        /\ v.mode = "list" => v.view = u.view /\ v.viewBy = u.viewBy
        /\ v.mode = "epics" => v.view = Shows(u, InEpics(u)) /\ v.viewBy = "scope"
    BY <1>2, <1>4, <1>5
  <2>2. /\ Scoped(v, Shows(u, InEpics(u)))
        /\ Shows(u, InEpics(u)) = Shows(v, InEpics(v))
    BY <1>5, EpicsScoped
  <2> HIDE DEF S, v
  <2> QED
    BY <1>1, <1>5, <1>6, <2>1, <2>2, FillKept
<1>8. applyRecipe(u) = v
  BY DEF applyRecipe, InRecipeScope
<1> QED
  BY <1>4, <1>5, <1>7, <1>8

\* applyBQL leaves those of the query; it does not refresh the epics.
LEMMA BQLKept ==
  ASSUME NEW u \in Model, u.bql, Placed(u), u.mode = "epics" => Scoped(u, u.view),
         NEW owed \in BOOLEAN
  PROVE  LET v == applyBQL(u) IN
           Aside(u, v) /\ Alike(u, v) /\ v.current = Query /\ Kept(v, owed)
<1> DEFINE S == InScope(u) \cap InQuery(u)
           w == Filled(u, S, "bql")
           v == [w EXCEPT !.current = Query]
<1>1. S \in SUBSET InScope(u) /\ S \in SUBSET Id /\ S \cap InScope(u) = S
  BY SelectionTypes
<1>2. HasRows(u, S, "bql", w)
  <2>1. "bql" \in Ways
    BY DEF Ways
  <2> QED
    BY <1>1, <2>1, FilledIn
<1>3. w \in Model
  BY <1>2 DEF HasRows, Aside
<1>4. /\ Aside(w, v) /\ Alike(w, v) /\ v.list = w.list /\ v.by = w.by
      /\ v.view = w.view /\ v.viewBy = w.viewBy /\ v.current = Query
  BY <1>3, CurrentFields
<1>5. /\ Aside(u, v) /\ Alike(u, v) /\ v.mode = w.mode /\ v.mode = u.mode /\ v \in Model
      /\ v.bql = u.bql
  BY <1>2, <1>4 DEF HasRows, Aside, Same, Alike
<1>6. InScope(v) = InScope(u) /\ InScope(v) \cap InQuery(v) = S /\ Shows(v, S) = Shows(u, S)
  BY <1>5, AlikeSelection
<1>7. Given(v, owed, Shows(u, S), "bql")
  BY <1>4, <1>5, <1>6 DEF Given
<1>8. v.mode = "epics" => v.viewBy = "scope" /\ Scoped(v, v.view)
  BY <1>2, <1>4, <1>5, <1>6 DEF HasRows, Placed, Scoped
<1>9. Kept(v, owed)
  <2>1. /\ v.list = Shows(u, S) /\ v.by = "bql"
        /\ v.mode \in {"board", "graph"} => v.view = Shows(u, S) /\ v.viewBy = "bql"
        /\ v.mode = "list" => v.view = u.view /\ v.viewBy = u.viewBy
    BY <1>2, <1>4, <1>5 DEF HasRows
  <2>2. /\ S \in SUBSET InScope(u) /\ v \in Model /\ Alike(u, v) /\ v.mode = u.mode
        /\ v.mode = "epics" => v.viewBy = "scope" /\ Scoped(v, v.view)
        /\ v.bql /\ "bql" # "phase2"
    BY <1>1, <1>5, <1>8
  <2> HIDE DEF S, w, v
  <2> QED
    BY <1>7, <2>1, <2>2, FillKept
<1>10. applyBQL(u) = v
  BY DEF applyBQL
<1> QED
  BY <1>4, <1>5, <1>9, <1>10

\* reapplyActiveFilter takes one of the three ways, and each of them keeps the invariant.
LEMMA ReapplyKept ==
  ASSUME NEW u \in Model, Placed(u), u.mode = "epics" => Scoped(u, u.view),
         NEW owed \in BOOLEAN
  PROVE  LET v == reapplyActiveFilter(u) IN Aside(u, v) /\ Alike(u, v) /\ Kept(v, owed)
<1>1. CASE u.recipe # NoRecipe
  BY <1>1, RecipeKept DEF reapplyActiveFilter
<1>2. CASE u.recipe = NoRecipe /\ u.bql /\ u.current = Query
  BY <1>2, BQLKept DEF reapplyActiveFilter
<1>3. CASE u.recipe = NoRecipe /\ ~(u.bql /\ u.current = Query)
  BY <1>3, FilterKept DEF reapplyActiveFilter, Same
<1> QED
  BY <1>1, <1>2, <1>3

\* The epics are filled again.
LEMMA EpicsKept ==
  ASSUME NEW u \in Model, NEW owed \in BOOLEAN, ListKept(u, owed), Scoped(u, u.list),
         u.mode # "epics" => ViewKept(u, owed) /\ ScopeOf(u)
  PROVE  LET v == refreshEpics(u) IN Aside(u, v) /\ Same(u, v) /\ Kept(v, owed)
<1> DEFINE v == refreshEpics(u)
<1>1. /\ Aside(u, v) /\ Same(u, v) /\ v.list = u.list /\ v.by = u.by
      /\ v.mode = "epics" => v.view = Shows(u, InEpics(u)) /\ v.viewBy = "scope"
      /\ v.mode # "epics" => v.view = u.view /\ v.viewBy = u.viewBy
  BY EpicsFields
<1>2. v.mode = u.mode /\ Alike(u, v) /\ InScope(v) = InScope(u)
  BY <1>1, AlikeSelection DEF Aside, Same
<1>3. ListKept(v, owed) /\ Scoped(v, v.list)
  BY <1>1, <1>2, SameGiven DEF ListKept, Scoped
<1>4. CASE u.mode = "epics"
  <2>1. Scoped(v, v.view) /\ v.view = Shows(v, InEpics(v)) /\ v.viewBy = "scope"
    BY <1>1, <1>2, <1>4, EpicsScoped
  <2>2. ViewKept(v, owed)
    BY <1>2, <1>4, <2>1 DEF ViewKept
  <2> QED
    BY <1>1, <1>3, <2>1, <2>2 DEF Kept, ScopeOf
<1>5. CASE u.mode # "epics"
  <2>1. v.view = u.view /\ v.viewBy = u.viewBy
    BY <1>1, <1>2, <1>5
  <2>2. ViewKept(v, owed)
    BY <1>1, <1>2, <1>5, <2>1, SameGiven DEF ViewKept
  <2>3. ScopeOf(v)
    BY <1>2, <1>3, <1>5, <2>1 DEF ScopeOf, Scoped
  <2> QED
    BY <1>1, <1>3, <2>2, <2>3 DEF Kept
<1> QED
  BY <1>4, <1>5

\* So are the board and the graph, by what the filters say.
LEMMA BoardFields ==
  ASSUME NEW u \in Model
  PROVE  LET v == refreshBoardAndGraph(u) IN
           /\ Aside(u, v) /\ Same(u, v) /\ v.list = u.list /\ v.by = u.by
           /\ v.mode \in {"board", "graph"} => v.view = Shows(u, Active(u)) /\ v.viewBy = "active"
           /\ v.mode \notin {"board", "graph"} => v.view = u.view /\ v.viewBy = u.viewBy
<1>1. Active(u) \in SUBSET Id
  BY SelectionTypes
<1>2. Shows(u, Active(u)) \in Rows
  BY <1>1, SelectionTypes
<1>3. CASE u.mode \in {"board", "graph"}
  BY <1>2, <1>3 DEF refreshBoardAndGraph, Model, Aside, Same, Alike, Ways
<1>4. CASE u.mode \notin {"board", "graph"}
  BY <1>4 DEF refreshBoardAndGraph, Aside, Same, Alike
<1> QED
  BY <1>3, <1>4

-----------------------------------------------------------------------------
(* Steps.                                                                  *)

\* The invariant says where rows of a view are held.
LEMMA KeptPlaced ==
  ASSUME NEW u, NEW owed \in BOOLEAN, Kept(u, owed)
  PROVE  Placed(u) /\ (u.mode = "epics" => Scoped(u, u.view))
BY DEF Kept, ViewKept, ScopeOf, Placed

\* Only the position: a model that differs elsewhere is placed as well.
LEMMA PlacedAlike ==
  ASSUME NEW u, NEW v, Placed(u), v.mode = u.mode, v.view = u.view, v.viewBy = u.viewBy
  PROVE  Placed(v)
BY DEF Placed

\* A worker told of the recipe in force owes a build of it.
LEMMA TellKept ==
  ASSUME FilterInv, NEW r \in Names, setActiveRecipe(r), m'.recipe = r
  PROVE  /\ WorkerKept'
         /\ worker' \in [on : BOOLEAN, recipe : Names, wanted : BOOLEAN,
                         build : {NoBuild} \cup Build]
<1>1. CASE worker.on /\ worker.recipe # r
  <2>1. worker' = [worker EXCEPT !.recipe = r, !.wanted = TRUE]
    BY <1>1 DEF setActiveRecipe
  <2> QED
    BY <1>1, <2>1 DEF FilterInv, FilterTypes, WorkerKept
<1>2. CASE ~(worker.on /\ worker.recipe # r)
  <2>1. worker' = worker
    BY <1>2 DEF setActiveRecipe
  <2> QED
    BY <1>2, <2>1 DEF FilterInv, FilterTypes, WorkerKept
<1> QED
  BY <1>1, <1>2

\* A step that touches neither the worker nor the recipe keeps what is said of them.
LEMMA WorkerAside ==
  ASSUME FilterInv, worker' = worker, m'.recipe = m.recipe
  PROVE  /\ WorkerKept'
         /\ worker' \in [on : BOOLEAN, recipe : Names, wanted : BOOLEAN,
                         build : {NoBuild} \cup Build]
BY DEF FilterInv, FilterTypes, WorkerKept

\* A key changes what the filters are, and fills by them.
LEMMA FilterStep ==
  ASSUME FilterInv, NEW u \in Model, u.mode = m.mode, u.view = m.view, u.viewBy = m.viewBy,
         m' = applyFilter(u)
  PROVE  m' \in Model /\ m'.recipe = u.recipe /\ m'.mode = u.mode /\ Kept(m', Owed')
<1>1. Placed(u)
  BY KeptPlaced DEF FilterInv, Placed, Owed
<1>2. Owed' \in BOOLEAN
  BY DEF Owed
<1> QED
  BY <1>1, <1>2, FilterKept DEF Aside, Same, Alike

\* A key that puts a recipe in force fills by it.
LEMMA RecipeStep ==
  ASSUME FilterInv, NEW u \in Model, u.mode = m.mode, u.view = m.view, u.viewBy = m.viewBy,
         u.recipe # NoRecipe, m' = applyRecipe(u)
  PROVE  m' \in Model /\ m'.recipe = u.recipe /\ Kept(m', Owed')
<1>1. Placed(u)
  BY KeptPlaced DEF FilterInv, Placed, Owed
<1>2. Owed' \in BOOLEAN
  BY DEF Owed
<1> QED
  BY <1>1, <1>2, RecipeKept DEF Aside, Alike

\* A fill by what is in force; the filters are those of now.
LEMMA ReapplyStep ==
  ASSUME FilterInv, NEW u \in Model, u.mode = m.mode, u.repos = m.repos, u.recipe = m.recipe,
         u.mode = "epics" => u.view = m.view,
         u.mode \notin {"board", "graph"} => u.viewBy = m.viewBy /\ u.view = m.view,
         NEW v, v = reapplyActiveFilter(u)
  PROVE  v \in Model /\ v.recipe = m.recipe /\ v.mode = m.mode /\ Kept(v, Owed')
<1>1. Placed(m) /\ (m.mode = "epics" => Scoped(m, m.view))
  BY KeptPlaced DEF FilterInv, Owed
<1>2. Placed(u)
  BY <1>1 DEF Placed
<1>3. u.mode = "epics" => Scoped(u, u.view)
  BY <1>1 DEF Scoped, InScope
<1>4. Owed' \in BOOLEAN
  BY DEF Owed
<1> QED
  BY <1>2, <1>3, <1>4, ReapplyKept DEF Aside, Alike

\* Nothing the list depends on changes.
LEMMA ListAside ==
  ASSUME FilterInv, NEW v, Same(m, v), v.list = m.list, v.by = m.by, Owed' = Owed
  PROVE  ListKept(v, Owed') /\ Scoped(v, v.list)
<1>1. Owed \in BOOLEAN /\ ListKept(m, Owed) /\ Scoped(m, m.list)
  BY DEF FilterInv, Kept, ScopeOf, Owed
<1>2. Alike(m, v)
  BY DEF Same
<1>3. InScope(v) = InScope(m)
  BY <1>2, AlikeSelection
<1> QED
  BY <1>1, <1>3, SameGiven DEF ListKept, Scoped

Kept3 == m' \in Model /\ WorkerKept' /\ Kept(m', Owed')
   /\ worker' \in [on : BOOLEAN, recipe : Names, wanted : BOOLEAN, build : {NoBuild} \cup Build]

\* The keys o, c and r drop the query, not the recipe.
LEMMA StatusKeyKept == FilterInv /\ (\E f \in StatusFilters : StatusKey(f)) => Kept3
<1> SUFFICES ASSUME FilterInv, NEW f \in StatusFilters, StatusKey(f) PROVE Kept3
  OBVIOUS
<1> DEFINE c == IF m.current = f THEN "all" ELSE f
           u == [m EXCEPT !.bql = FALSE, !.current = c]
<1>1. m \in Model /\ m' = applyFilter(u) /\ worker' = worker
  BY DEF StatusKey, FilterInv, FilterTypes
<1>2. /\ u \in Model /\ u.recipe = m.recipe
      /\ u.mode = m.mode /\ u.view = m.view /\ u.viewBy = m.viewBy
  <2>1. c \in StatusFilters
    BY DEF StatusFilters
  <2> HIDE DEF c
  <2> QED
    BY <1>1, <2>1 DEF Model
<1> QED
  BY <1>1, <1>2, FilterStep, WorkerAside DEF Kept3

\* The key that goes round the status filters.
LEMMA CycleKept == FilterInv /\ cycleStatusFilter => Kept3
<1> SUFFICES ASSUME FilterInv, cycleStatusFilter PROVE Kept3
  OBVIOUS
<1> DEFINE u == [m EXCEPT !.bql = FALSE, !.recipe = NoRecipe, !.current = NextStatus]
<1>1. m \in Model /\ m' = applyFilter(u) /\ setActiveRecipe(NoRecipe)
  BY DEF cycleStatusFilter, FilterInv, FilterTypes
<1>2. NextStatus \in StatusFilters
  <2>1. CASE \E k \in DOMAIN statusFilterCycle : statusFilterCycle[k] = m.current
    <3> DEFINE k == CHOOSE k \in DOMAIN statusFilterCycle : statusFilterCycle[k] = m.current
    <3>1. k \in 1..6 /\ NextStatus = statusFilterCycle[(k % 6) + 1]
      BY <2>1 DEF statusFilterCycle, NextStatus
    <3> HIDE DEF k
    <3>2. (k % 6) + 1 \in 1..6
      BY <3>1
    <3>3. \A j \in 1..6 : statusFilterCycle[j] \in StatusFilters
      BY DEF statusFilterCycle, StatusFilters
    <3> QED
      BY <3>1, <3>2, <3>3
  <2>2. CASE ~\E k \in DOMAIN statusFilterCycle : statusFilterCycle[k] = m.current
    BY <2>2 DEF NextStatus, StatusFilters
  <2> QED
    BY <2>1, <2>2
<1>3. /\ u \in Model /\ u.recipe = NoRecipe
      /\ u.mode = m.mode /\ u.view = m.view /\ u.viewBy = m.viewBy
  BY <1>1, <1>2 DEF Model, Names
<1>4. NoRecipe \in Names
  BY DEF Names
<1> QED
  BY <1>1, <1>3, <1>4, FilterStep, TellKept DEF Kept3

\* The keys that change one filter and fill again by the filter in force.
LEMMA PlainKeysKept == FilterInv /\ (cycleSortMode \/ ClearQuery \/ PickLabel \/ toggleWisps) => Kept3
<1> SUFFICES ASSUME FilterInv PROVE cycleSortMode \/ ClearQuery \/ PickLabel \/ toggleWisps => Kept3
  OBVIOUS
<1> DEFINE Moved(u) == /\ u \in Model /\ u.recipe = m.recipe
                       /\ u.mode = m.mode /\ u.view = m.view /\ u.viewBy = m.viewBy
<1>1. m \in Model
  BY DEF FilterInv, FilterTypes
<1>2. ASSUME NEW u, Moved(u), m' = applyFilter(u), worker' = worker PROVE Kept3
  BY <1>2, FilterStep, WorkerAside DEF Kept3
<1>3. CASE cycleSortMode
  BY <1>1, <1>2, <1>3 DEF cycleSortMode
<1>4. CASE ClearQuery
  <2>1. Moved([m EXCEPT !.bql = FALSE, !.current = "all"])
    BY <1>1 DEF Model, StatusFilters
  <2> QED
    BY <1>2, <1>4, <2>1 DEF ClearQuery
<1>5. CASE PickLabel
  <2>1. PICK l \in BOOLEAN : m' = applyFilter([m EXCEPT !.label = l]) /\ worker' = worker
    BY <1>5 DEF PickLabel
  <2>2. Moved([m EXCEPT !.label = l])
    BY <1>1 DEF Model
  <2> QED
    BY <1>2, <2>1, <2>2
<1>6. CASE toggleWisps
  <2>1. Moved([m EXCEPT !.wisps = ~m.wisps])
    BY <1>1 DEF Model
  <2> QED
    BY <1>2, <1>6, <2>1 DEF toggleWisps
<1> QED
  BY <1>3, <1>4, <1>5, <1>6

\* The recipe picker and the triage key.
LEMMA RecipeKeysKept == FilterInv /\ ((\E r \in Recipes : PickRecipe(r)) \/ RecipeTriage) => Kept3
<1> SUFFICES ASSUME FilterInv PROVE (\E r \in Recipes : PickRecipe(r)) \/ RecipeTriage => Kept3
  OBVIOUS
<1>1. m \in Model /\ NoRecipe \notin Recipes /\ Recipes \subseteq Names /\ NoRecipe \in Names
  BY DEF FilterInv, FilterTypes, Names
<1>2. \A r \in Names : LET u == [m EXCEPT !.recipe = r] IN
        /\ u \in Model /\ u.recipe = r
        /\ u.mode = m.mode /\ u.view = m.view /\ u.viewBy = m.viewBy
  BY <1>1 DEF Model
<1>3. ASSUME NEW r \in Recipes, m' = applyRecipe([m EXCEPT !.recipe = r]), setActiveRecipe(r)
      PROVE  Kept3
  <2> DEFINE u == [m EXCEPT !.recipe = r]
  <2>1. /\ u \in Model /\ u.recipe = r /\ u.recipe # NoRecipe
        /\ u.mode = m.mode /\ u.view = m.view /\ u.viewBy = m.viewBy
    BY <1>1, <1>2
  <2>2. m' = applyRecipe(u)
    BY <1>3
  <2> HIDE DEF u
  <2>3. m' \in Model /\ m'.recipe = r /\ Kept(m', Owed')
    BY <2>1, <2>2, RecipeStep
  <2> QED
    BY <1>1, <1>3, <2>3, TellKept DEF Kept3
<1>4. ASSUME NEW r \in Recipes, PickRecipe(r) PROVE Kept3
  BY <1>3, <1>4 DEF PickRecipe
<1>5. CASE RecipeTriage /\ m.recipe = "triage"
  BY <1>1, <1>2, <1>5, FilterStep, TellKept DEF RecipeTriage, Kept3
<1>6. CASE RecipeTriage /\ m.recipe # "triage"
  BY <1>3, <1>6 DEF RecipeTriage
<1> QED
  BY <1>4, <1>5, <1>6

\* A query is entered, and drops the recipe.
LEMMA EnterQueryKept == FilterInv /\ EnterQuery => Kept3
<1> SUFFICES ASSUME FilterInv, EnterQuery PROVE Kept3
  OBVIOUS
<1> DEFINE u == [m EXCEPT !.recipe = NoRecipe, !.bql = TRUE]
<1>1. m \in Model /\ m' = applyBQL(u) /\ setActiveRecipe(NoRecipe) /\ NoRecipe \in Names
  BY DEF EnterQuery, FilterInv, FilterTypes, Names
<1>2. /\ u \in Model /\ u.recipe = NoRecipe /\ u.bql /\ u.repos = m.repos
      /\ u.mode = m.mode /\ u.view = m.view /\ u.viewBy = m.viewBy
  BY <1>1 DEF Model
<1>3. Placed(m) /\ (m.mode = "epics" => Scoped(m, m.view)) /\ Owed' \in BOOLEAN
  BY KeptPlaced DEF FilterInv, Owed
<1>4. Placed(u) /\ (u.mode = "epics" => Scoped(u, u.view))
  BY <1>2, <1>3 DEF Placed, Scoped, InScope
<1>5. Aside(u, m') /\ Alike(u, m') /\ Kept(m', Owed')
  BY <1>1, <1>2, <1>3, <1>4, BQLKept
<1>6. m' \in Model /\ m'.recipe = NoRecipe
  BY <1>2, <1>5 DEF Aside, Alike
<1> QED
  BY <1>1, <1>5, <1>6, TellKept DEF Kept3

\* The project picker, and the key that goes back to all projects or the home one.
LEMMA ReposKept == FilterInv /\ (PickRepos \/ WorkspaceHomeAll) => Kept3
<1> SUFFICES ASSUME FilterInv, NEW R \in SUBSET Repo, worker' = worker,
                    m' = InRepos([m EXCEPT !.repos = R])
             PROVE  Kept3
  <2>1. ASSUME FilterInv, PickRepos PROVE Kept3
    <3>1. PICK S \in SUBSET Repo \ {{}} :
            m' = InRepos([m EXCEPT !.repos = IF S = Repo THEN AllRepos ELSE S])
      BY <2>1 DEF PickRepos
    <3>2. (IF S = Repo THEN AllRepos ELSE S) \in SUBSET Repo
      BY DEF AllRepos
    <3> QED
      BY <2>1, <3>1, <3>2 DEF PickRepos
  <2>2. ASSUME FilterInv, WorkspaceHomeAll PROVE Kept3
    <3>1. m' = InRepos([m EXCEPT !.repos = IF m.repos = AllRepos THEN {Home} ELSE AllRepos])
      BY <2>2 DEF WorkspaceHomeAll
    <3>2. (IF m.repos = AllRepos THEN {Home} ELSE AllRepos) \in SUBSET Repo
      BY DEF AllRepos
    <3> QED
      BY <2>2, <3>1, <3>2 DEF WorkspaceHomeAll
  <2> QED
    BY <2>1, <2>2
<1> DEFINE u == [m EXCEPT !.repos = R]
<1>1. m \in Model
  BY DEF FilterInv, FilterTypes
<1>2. /\ u \in Model /\ u.recipe = m.recipe
      /\ u.mode = m.mode /\ u.view = m.view /\ u.viewBy = m.viewBy
  BY <1>1 DEF Model
<1>3. CASE u.recipe # NoRecipe
  BY <1>2, <1>3, RecipeStep, WorkerAside DEF InRepos, Kept3
<1>4. CASE u.recipe = NoRecipe
  BY <1>2, <1>4, FilterStep, WorkerAside DEF InRepos, Kept3
<1> QED
  BY <1>3, <1>4

\* All filters cleared at once; the worker hears of it.
LEMMA ClearAllKept == FilterInv /\ clearAllFilters => Kept3
<1> SUFFICES ASSUME FilterInv, clearAllFilters PROVE Kept3
  OBVIOUS
<1> DEFINE u == [m EXCEPT !.current = "all", !.label = FALSE, !.recipe = NoRecipe, !.bql = FALSE]
<1>1. m \in Model /\ m' = applyFilter(u) /\ setActiveRecipe(NoRecipe) /\ NoRecipe \in Names
  BY DEF clearAllFilters, FilterInv, FilterTypes, Names
<1>2. /\ u \in Model /\ u.recipe = NoRecipe
      /\ u.mode = m.mode /\ u.view = m.view /\ u.viewBy = m.viewBy
  BY <1>1 DEF Model, StatusFilters
<1> QED
  BY <1>1, <1>2, FilterStep, TellKept DEF Kept3

\* The list comes up in the place of a view.
LEMMA ListedKept ==
  ASSUME NEW u \in Model, NEW owed \in BOOLEAN, ListKept(u, owed), Scoped(u, u.list)
  PROVE  LET v == [u EXCEPT !.mode = "list", !.view = {}, !.viewBy = "scope"] IN
           v \in Model /\ v.recipe = u.recipe /\ Kept(v, owed)
<1> DEFINE v == [u EXCEPT !.mode = "list", !.view = {}, !.viewBy = "scope"]
<1>1. {} \in Rows
  BY DEF Rows
<1>2. /\ v \in Model /\ Same(u, v) /\ v.list = u.list /\ v.by = u.by
      /\ v.mode = "list" /\ v.view = {} /\ v.viewBy = "scope"
  BY <1>1 DEF Model, Same, Alike, Ways
<1>3. InScope(v) = InScope(u)
  BY <1>2, SameSelection, AlikeSelection
<1>4. ListKept(v, owed) /\ Scoped(v, v.list)
  BY <1>2, <1>3, SameGiven DEF ListKept, Scoped
<1>5. ViewKept(v, owed) /\ Scoped(v, v.view)
  BY <1>2 DEF ViewKept, Scoped
<1>6. Kept(v, owed)
  BY <1>4, <1>5 DEF Kept, ScopeOf
<1> QED
  BY <1>2, <1>6 DEF Same, Alike

\* A created issue outside the projects selected brings its project in.
LEMMA RevealKept == FilterInv /\ revealBeadIfHidden => Kept3
<1> SUFFICES ASSUME FilterInv, revealBeadIfHidden PROVE Kept3
  OBVIOUS
<1>1. m \in Model /\ worker' = worker
  BY DEF revealBeadIfHidden, FilterInv, FilterTypes
<1>2. PICK i \in Id \ InScope(m) :
        LET u == applyFilter([m EXCEPT !.repos = @ \cup {RepoOf[i]}]) IN
        m' = IF \E s \in Statuses : <<i, s>> \in u.list
             THEN [u EXCEPT !.mode = "list", !.view = {}, !.viewBy = "scope"]
             ELSE u
  BY DEF revealBeadIfHidden
<1> DEFINE w == [m EXCEPT !.repos = m.repos \cup {RepoOf[i]}]
           u == applyFilter(w)
<1>3. /\ w \in Model /\ w.recipe = m.recipe
      /\ w.mode = m.mode /\ w.view = m.view /\ w.viewBy = m.viewBy
  BY <1>1 DEF Model
<1>4. Placed(w) /\ Owed' \in BOOLEAN
  BY <1>3, KeptPlaced DEF FilterInv, Placed, Owed
<1>5. u \in Model /\ u.recipe = m.recipe /\ Kept(u, Owed')
  BY <1>3, <1>4, FilterKept DEF Aside, Same, Alike
<1>6. m' = u \/ m' = [u EXCEPT !.mode = "list", !.view = {}, !.viewBy = "scope"]
  BY <1>2
<1> HIDE DEF u
<1>7. m' \in Model /\ m'.recipe = m.recipe /\ Kept(m', Owed')
  BY <1>4, <1>5, <1>6, ListedKept, ZenonT(40) DEF Kept, ScopeOf
<1> HIDE DEF w
<1>8. worker' = worker
  BY <1>1
<1> QED
  BY <1>7, <1>8, WorkerAside DEF Kept3

\* Entering or leaving time travel fills again by the filter in force.
LEMMA RebuildKept == FilterInv /\ rebuildListWithDiffInfo => Kept3
<1> SUFFICES ASSUME FilterInv, rebuildListWithDiffInfo PROVE Kept3
  OBVIOUS
<1>1. m \in Model /\ m' = reapplyActiveFilter(m) /\ worker' = worker
  BY DEF rebuildListWithDiffInfo, FilterInv, FilterTypes
<1>2. m' \in Model /\ m'.recipe = m.recipe /\ Kept(m', Owed')
  BY <1>1, ReapplyStep
<1> QED
  BY <1>1, <1>2, WorkerAside DEF Kept3

\* The rows of the board and the graph are those the filters select.
LEMMA BoardKept ==
  ASSUME NEW u \in Model, NEW owed \in BOOLEAN
  PROVE  LET v == refreshBoardAndGraph(u) IN
           v.mode \in {"board", "graph"} => /\ Given(v, owed, v.view, v.viewBy)
                                            /\ Scoped(v, v.view)
<1> DEFINE v == refreshBoardAndGraph(u)
<1>1. /\ Same(u, v)
      /\ v.mode \in {"board", "graph"} => v.view = Shows(u, Active(u)) /\ v.viewBy = "active"
  BY BoardFields
<1>2. Active(v) = Active(u) /\ InScope(v) = InScope(u) /\ Shows(u, Active(u)) = Shows(v, Active(v))
  BY <1>1, SameSelection, AlikeSelection
<1>3. Scoped(u, Shows(u, Active(u)))
  BY SelectionTypes
<1> QED
  BY <1>1, <1>2, <1>3 DEF Given, Scoped

\* The board, the graph and the epics are filled as they open.
LEMMA EnterKept == FilterInv /\ (\E mode \in {"board", "graph", "epics"} : Enter(mode)) => Kept3
<1> SUFFICES ASSUME FilterInv, NEW mode \in {"board", "graph", "epics"}, Enter(mode) PROVE Kept3
  OBVIOUS
<1> DEFINE u == [m EXCEPT !.mode = mode]
           w == refreshBoardAndGraph(u)
<1>1. m \in Model /\ m' = refreshEpics(w) /\ worker' = worker
  BY DEF Enter, FilterInv, FilterTypes
<1>2. u \in Model /\ Same(m, u) /\ u.list = m.list /\ u.by = m.by /\ u.mode = mode
  BY <1>1 DEF Model, Same, Alike
<1>3. Owed' = Owed /\ Owed' \in BOOLEAN
  BY <1>1 DEF Owed
<1>4. /\ Aside(u, w) /\ Same(u, w) /\ w.list = m.list /\ w.by = m.by
      /\ w.mode = mode /\ w \in Model
      /\ w.mode \in {"board", "graph"} => w.viewBy = "active"
  BY <1>2, BoardFields DEF Aside
<1>5. Same(m, w)
  BY <1>2, <1>4 DEF Same, Alike
<1>6. ListKept(w, Owed') /\ Scoped(w, w.list)
  BY <1>3, <1>4, <1>5, ListAside
<1>7. w.mode # "epics" => ViewKept(w, Owed') /\ ScopeOf(w)
  <2>1. w.mode \in {"board", "graph"} => Given(w, Owed', w.view, w.viewBy) /\ Scoped(w, w.view)
    BY <1>2, <1>3, BoardKept
  <2> QED
    BY <1>4, <1>6, <2>1 DEF ViewKept, ScopeOf
<1>8. Aside(w, m') /\ Same(w, m') /\ Kept(m', Owed')
  <2> HIDE DEF w
  <2> QED
    BY <1>1, <1>3, <1>4, <1>6, <1>7, EpicsKept
<1>9. m' \in Model /\ m'.recipe = m.recipe
  BY <1>5, <1>8 DEF Aside, Same, Alike
<1> QED
  BY <1>1, <1>8, <1>9, WorkerAside DEF Kept3

\* Back to the list: its rows were filled with the view's.
LEMMA LeaveKept == FilterInv /\ Leave => Kept3
<1> SUFFICES ASSUME FilterInv, Leave PROVE Kept3
  OBVIOUS
<1>1. /\ m \in Model /\ worker' = worker
      /\ m' = [m EXCEPT !.mode = "list", !.view = {}, !.viewBy = "scope"]
  BY DEF Leave, FilterInv, FilterTypes
<1>2. Owed' = Owed /\ Owed \in BOOLEAN /\ ListKept(m, Owed) /\ Scoped(m, m.list)
  BY <1>1 DEF Owed, FilterInv, Kept, ScopeOf
<1>3. m' \in Model /\ m'.recipe = m.recipe /\ Kept(m', Owed)
  BY <1>1, <1>2, ListedKept
<1> QED
  BY <1>1, <1>2, <1>3, WorkerAside DEF Kept3

\* All keys together.
LEMMA KeyKept == FilterInv /\ Key => Kept3
BY StatusKeyKept, CycleKept, PlainKeysKept, RecipeKeysKept, EnterQueryKept, ReposKept,
   RevealKept, ClearAllKept, RebuildKept, EnterKept, LeaveKept DEF Key

-----------------------------------------------------------------------------
(* Arrivals.                                                               *)

\* What was owed stays owed.
LEMMA OwedMore ==
  ASSUME NEW u, NEW owed \in BOOLEAN, NEW owed2 \in BOOLEAN, owed => owed2, Kept(u, owed)
  PROVE  Kept(u, owed2)
BY DEF Kept, ListKept, ViewKept, Given

\* The source changes: no row does.
LEMMA SourceKept == FilterInv /\ SourceChanges => Kept3 /\ source' \in [issues : [Id -> Statuses], left : Nat]
<1> SUFFICES ASSUME FilterInv, SourceChanges
             PROVE  Kept3 /\ source' \in [issues : [Id -> Statuses], left : Nat]
  OBVIOUS
<1>1. /\ FilterTypes /\ WorkerKept /\ Kept(m, Owed) /\ m' = m
      /\ worker' = [worker EXCEPT !.wanted = worker.on]
  BY DEF SourceChanges, FilterInv
<1>2. /\ WorkerKept'
      /\ worker' \in [on : BOOLEAN, recipe : Names, wanted : BOOLEAN, build : {NoBuild} \cup Build]
  <2>1. /\ worker'.on = worker.on /\ worker'.recipe = worker.recipe
        /\ worker'.wanted = worker.on /\ worker'.build = worker.build
        /\ worker' \in [on : BOOLEAN, recipe : Names, wanted : BOOLEAN, build : {NoBuild} \cup Build]
    BY <1>1 DEF FilterTypes
  <2>2. CASE worker.on
    BY <1>1, <2>1, <2>2 DEF WorkerKept
  <2>3. CASE ~worker.on
    <3>1. worker = NoWorker /\ worker.on = FALSE
      BY <1>1, <2>3 DEF WorkerKept, NoWorker
    <3>2. worker' = worker
      <4>1. worker.wanted = FALSE
        BY <3>1 DEF NoWorker
      <4>2. worker' = [worker EXCEPT !.wanted = worker.wanted]
        BY <1>1, <3>1, <4>1
      <4> QED
        BY <1>1, <4>2 DEF FilterTypes
    <3> QED
      BY <1>1, <2>1, <3>2 DEF WorkerKept
  <2> QED
    BY <2>2, <2>3
<1>3. Owed => Owed'
  BY <1>1 DEF FilterTypes, WorkerKept, NoWorker, Owed
<1>4. Owed \in BOOLEAN /\ Owed' \in BOOLEAN
  BY DEF Owed
<1>5. Kept(m, Owed')
  BY <1>1, <1>3, <1>4, OwedMore
<1>6. source' \in [issues : [Id -> Statuses], left : Nat]
  <2>1. PICK d \in Loads : source' = [issues |-> d, left |-> source.left - 1]
    BY DEF SourceChanges
  <2>2. source.left > 0 /\ source.left \in Nat
    BY <1>1 DEF SourceChanges, FilterTypes
  <2> QED
    BY <2>1, <2>2
<1> QED
  BY <1>1, <1>2, <1>5, <1>6 DEF FilterTypes, Kept3

\* The worker begins a build or hands over its snapshot: WorkerKept is what it can spoil.
LEMMA BuildsKept == FilterInv /\ WorkerBuilds => Kept3
<1> SUFFICES ASSUME FilterInv, WorkerBuilds PROVE Kept3
  OBVIOUS
<1> DEFINE b == [issues |-> source.issues, recipe |-> worker.recipe]
<1>1. /\ FilterTypes /\ WorkerKept /\ Kept(m, Owed) /\ m' = m
      /\ worker' = [worker EXCEPT !.wanted = FALSE, !.build = b]
  BY DEF WorkerBuilds, FilterInv
<1>2. b \in Build
  BY <1>1 DEF FilterTypes, Build
<1>3. /\ worker'.on = worker.on /\ worker'.recipe = worker.recipe /\ worker'.build = b
      /\ worker' \in [on : BOOLEAN, recipe : Names, wanted : BOOLEAN, build : {NoBuild} \cup Build]
  BY <1>1, <1>2 DEF FilterTypes
<1>4. worker.on
  BY DEF WorkerBuilds, FilterInv, WorkerKept, NoWorker
<1>5. WorkerKept'
  BY <1>1, <1>3, <1>4 DEF WorkerKept
<1>6. Owed'
  <2>1. CASE Id = {}
    BY <2>1 DEF Owed
  <2>2. CASE Id # {}
    <3>1. b.issues \in [Id -> Statuses] /\ NoBuild.issues = <<>>
      BY <1>2 DEF Build, NoBuild
    <3>2. DOMAIN b.issues # DOMAIN NoBuild.issues
      BY <2>2, <3>1
    <3> QED
      BY <1>3, <3>2 DEF Owed
  <2> QED
    BY <2>1, <2>2
<1>7. Owed \in BOOLEAN /\ Owed' \in BOOLEAN
  BY DEF Owed
<1>8. Kept(m, Owed')
  BY <1>1, <1>6, <1>7, OwedMore
<1> QED
  BY <1>1, <1>3, <1>5, <1>8 DEF FilterTypes, Kept3

\* The rows of a snapshot of a recipe that is not in force any more.
LEMMA SnapshotKept ==
  ASSUME NEW u \in Model, Placed(u), NEW owed \in BOOLEAN, u.recipe = NoRecipe,
         NEW r \in Names, r # NoRecipe => owed
  PROVE  LET v == refreshEpics(Filled(u, SnapshotItems(u, r), "snapshot")) IN
           Aside(u, v) /\ Alike(u, v) /\ Kept(v, owed)
<1> DEFINE S == SnapshotItems(u, r)
           v == refreshEpics(Filled(u, S, "snapshot"))
<1>1. S \in SUBSET InScope(u)
  BY SelectionTypes
<1>2. /\ Aside(u, v) /\ Same(u, v) /\ v.list = Shows(u, S) /\ v.by = "snapshot"
      /\ v.mode \in {"board", "graph"} => v.view = Shows(u, S) /\ v.viewBy = "snapshot"
      /\ v.mode = "list" => v.view = u.view /\ v.viewBy = u.viewBy
      /\ v.mode = "epics" => v.view = Shows(u, InEpics(u)) /\ v.viewBy = "scope"
  BY <1>1, FilledWithEpics DEF Ways
<1>3. Alike(u, v) /\ v \in Model /\ v.mode = u.mode /\ v.recipe = NoRecipe
  BY <1>2 DEF Same, Alike, Aside
<1>4. Given(v, owed, Shows(u, S), "snapshot")
  <2>1. SnapshotItems(v, r) = S /\ Shows(v, S) = Shows(u, S)
    BY <1>2, <1>3, SameSelection, AlikeSelection
  <2> QED
    BY <1>3, <2>1 DEF Given
<1>5. /\ Scoped(v, Shows(u, InEpics(u)))
      /\ Shows(u, InEpics(u)) = Shows(v, InEpics(v))
  BY <1>3, EpicsScoped
<1> HIDE DEF S, v
<1>6. Kept(v, owed)
  BY <1>1, <1>2, <1>3, <1>4, <1>5, FillKept
<1> QED
  BY <1>2, <1>3, <1>6 DEF v, S

\* Those of a snapshot of the recipe in force.
LEMMA SnapshotOfRecipeKept ==
  ASSUME NEW u \in Model, Placed(u), NEW owed \in BOOLEAN, u.recipe # NoRecipe
  PROVE  LET v == refreshEpics([Filled(u, InRecipeScope(u), "snapshot") EXCEPT !.current = u.recipe])
         IN  Aside(u, v) /\ Alike(u, v) /\ Kept(v, owed)
<1> DEFINE S == InRecipeScope(u)
           w == Filled(u, S, "snapshot")
           x == [w EXCEPT !.current = u.recipe]
           v == refreshEpics(x)
<1>1. S \in SUBSET InScope(u) /\ S \in SUBSET Id /\ S \cap InScope(u) = S
  BY SelectionTypes
<1>2. HasRows(u, S, "snapshot", w)
  <2>1. "snapshot" \in Ways
    BY DEF Ways
  <2> QED
    BY <1>1, <2>1, FilledIn
<1>3. u.recipe \in Recipes /\ w \in Model
  BY <1>2 DEF HasRows, Model, Names, Aside
<1>4. /\ Aside(w, x) /\ Alike(w, x) /\ x.list = w.list /\ x.by = w.by
      /\ x.view = w.view /\ x.viewBy = w.viewBy /\ x.current = u.recipe
  BY <1>3, CurrentFields
<1>5. /\ Aside(u, x) /\ Alike(u, x) /\ x.mode = w.mode /\ x \in Model
      /\ x.recipe = u.recipe /\ x.mode = u.mode
  BY <1>2, <1>4 DEF HasRows, Aside, Same, Alike
<1>6. Given(x, owed, Shows(u, S), "snapshot")
  <2>1. InRecipeScope(x) = S /\ Shows(x, S) = Shows(u, S)
    BY <1>5, AlikeSelection
  <2> QED
    BY <1>4, <1>5, <2>1 DEF Given
<1>7. ListKept(x, owed) /\ Scoped(x, x.list)
  <2>1. Scoped(u, Shows(u, S)) /\ InScope(x) = InScope(u)
    BY <1>1, <1>5, SelectionTypes, AlikeSelection
  <2> QED
    BY <1>2, <1>4, <1>6, <2>1 DEF HasRows, ListKept, Scoped
<1>8. x.mode # "epics" => ViewKept(x, owed) /\ ScopeOf(x)
  <2>1. x.mode \in {"list", "board", "graph", "epics"}
    BY <1>5 DEF Model
  <2>2. CASE x.mode \in {"board", "graph"}
    BY <1>2, <1>4, <1>5, <1>6, <1>7, <2>2 DEF HasRows, ViewKept, ScopeOf, Scoped
  <2>3. CASE x.mode = "list"
    <3>1. x.view = {} /\ x.viewBy = "scope"
      BY <1>2, <1>4, <1>5, <2>3 DEF HasRows, Placed
    <3> QED
      BY <1>7, <2>3, <3>1 DEF ViewKept, ScopeOf, Scoped
  <2> QED
    BY <2>1, <2>2, <2>3
<1> HIDE DEF x, w, S
<1>9. Aside(x, v) /\ Same(x, v) /\ Kept(v, owed)
  BY <1>5, <1>7, <1>8, EpicsKept
<1>10. Aside(u, v) /\ Alike(u, v)
  BY <1>5, <1>9 DEF Aside, Same, Alike
<1> QED
  BY <1>9, <1>10 DEF v, x, w, S

\* A snapshot fills by the recipe it was built with, and a newer one is owed if that is old.
LEMMA SnapshotReadyKept == FilterInv /\ SnapshotReady => Kept3
<1> SUFFICES ASSUME FilterInv, SnapshotReady PROVE Kept3
  OBVIOUS
<1> DEFINE b == worker.build
           u == [m EXCEPT !.issues = b.issues, !.snapshot = TRUE, !.phase2 = TRUE]
<1>1. /\ FilterTypes /\ WorkerKept /\ b # NoBuild /\ worker' = [worker EXCEPT !.build = NoBuild]
      /\ m' = refreshEpics(Swapped(b)) /\ m \in Model
  BY DEF SnapshotReady, FilterInv, FilterTypes
<1>2. b.issues \in [Id -> Statuses] /\ b.recipe \in Names
  BY <1>1 DEF FilterTypes, Build
<1>3. /\ u \in Model /\ u.recipe = m.recipe /\ u.mode = m.mode
      /\ u.view = m.view /\ u.viewBy = m.viewBy
  BY <1>1, <1>2 DEF Model
<1>4. Placed(u) /\ Owed' \in BOOLEAN
  BY <1>3, KeptPlaced DEF FilterInv, Placed, Owed
<1>5. /\ worker' \in [on : BOOLEAN, recipe : Names, wanted : BOOLEAN, build : {NoBuild} \cup Build]
      /\ worker'.on = worker.on /\ worker'.recipe = worker.recipe
      /\ worker'.wanted = worker.wanted /\ worker'.build = NoBuild
  BY <1>1 DEF FilterTypes
<1>6. worker.on
  BY <1>1 DEF WorkerKept, NoWorker
<1>7. m' \in Model /\ m'.recipe = m.recipe /\ Kept(m', Owed')
  <2>1. CASE u.recipe = NoRecipe
    <3>1. m' = refreshEpics(Filled(u, SnapshotItems(u, b.recipe), "snapshot"))
      BY <1>1, <2>1 DEF Swapped
    <3>2. b.recipe # NoRecipe => Owed'
      BY <1>1, <1>3, <1>5, <1>6, <2>1 DEF WorkerKept, Owed
    <3> HIDE DEF u, b
    <3>3. Aside(u, m') /\ Alike(u, m') /\ Kept(m', Owed')
      BY <1>2, <1>3, <1>4, <2>1, <3>1, <3>2, SnapshotKept
    <3> QED
      BY <1>3, <3>3 DEF Aside, Alike
  <2>2. CASE u.recipe # NoRecipe /\ u.recipe = b.recipe
    <3>1. m' = refreshEpics([Filled(u, InRecipe(u, b.recipe) \cap InScope(u), "snapshot")
                               EXCEPT !.current = u.recipe])
      BY <1>1, <2>2 DEF Swapped
    <3>2. InRecipe(u, b.recipe) \cap InScope(u) = InRecipeScope(u)
      BY <2>2 DEF InRecipeScope
    <3> HIDE DEF u, b
    <3>3. Aside(u, m') /\ Alike(u, m') /\ Kept(m', Owed')
      BY <1>3, <1>4, <2>2, <3>1, <3>2, SnapshotOfRecipeKept
    <3> QED
      BY <1>3, <3>3 DEF Aside, Alike
  <2>3. CASE u.recipe # NoRecipe /\ u.recipe # b.recipe
    <3> DEFINE w == applyRecipe(u)
    <3>1. m' = refreshEpics(w)
      BY <1>1, <2>3 DEF Swapped
    <3>2. Aside(u, w) /\ Alike(u, w) /\ Kept(w, Owed') /\ w \in Model
      BY <1>3, <1>4, <2>3, RecipeKept DEF Aside
    <3> HIDE DEF w
    <3>3. Aside(w, m') /\ Same(w, m') /\ Kept(m', Owed')
      BY <1>4, <3>1, <3>2, EpicsKept DEF Kept, ScopeOf
    <3> QED
      BY <1>3, <3>2, <3>3 DEF Aside, Alike, Same
  <2> QED
    BY <2>1, <2>2, <2>3
<1>8. WorkerKept'
  BY <1>1, <1>5, <1>6, <1>7 DEF WorkerKept
<1> QED
  BY <1>5, <1>7, <1>8 DEF Kept3

\* The news of Phase 2 for a snapshot fills nothing.
LEMMA Phase2UpdateKept == FilterInv /\ Phase2Update => Kept3
<1> SUFFICES ASSUME FilterInv, Phase2Update PROVE Kept3
  OBVIOUS
<1>1. m \in Model /\ m' = [m EXCEPT !.phase2 = FALSE] /\ worker' = worker
  BY DEF Phase2Update, FilterInv, FilterTypes
<1>2. /\ m' \in Model /\ Same(m, m') /\ m'.list = m.list /\ m'.by = m.by /\ m'.mode = m.mode
      /\ m'.view = m.view /\ m'.viewBy = m.viewBy /\ m'.recipe = m.recipe
  BY <1>1 DEF Model, Same, Alike
<1>3. Owed' = Owed /\ Owed \in BOOLEAN /\ Kept(m, Owed)
  BY <1>1 DEF Owed, FilterInv
<1>4. ListKept(m', Owed') /\ Scoped(m', m'.list)
  BY <1>2, <1>3, ListAside
<1>5. /\ InEpics(m') = InEpics(m) /\ InScope(m') = InScope(m) /\ m'.bql = m.bql
      /\ \A S : Shows(m', S) = Shows(m, S)
  BY <1>2, SameSelection, AlikeSelection DEF Alike
<1>6. ViewKept(m', Owed') /\ ScopeOf(m')
  BY <1>2, <1>3, <1>4, <1>5, SameGiven DEF Kept, ViewKept, ScopeOf, Scoped
<1> QED
  BY <1>1, <1>2, <1>4, <1>6, WorkerAside DEF Kept3, Kept

\* Phase 2 of another analysis gives the graph all issues, the rows called phase2.
LEMMA Phase2ReadyKept == FilterInv /\ Phase2Ready => Kept3
<1> SUFFICES ASSUME FilterInv, Phase2Ready PROVE Kept3
  OBVIOUS
<1> DEFINE u == [m EXCEPT !.phase2 = FALSE,
                          !.view = IF m.mode = "graph" THEN Shows(m, Id) ELSE @,
                          !.viewBy = IF m.mode = "graph" THEN "phase2" ELSE @]
<1>1. /\ m \in Model /\ worker' = worker
      /\ m' = IF u.current = "all" THEN u ELSE reapplyActiveFilter(u)
  BY DEF Phase2Ready, FilterInv, FilterTypes
<1>2. /\ u \in Model /\ Same(m, u) /\ u.list = m.list /\ u.by = m.by
      /\ u.mode = m.mode /\ u.recipe = m.recipe /\ u.repos = m.repos
      /\ u.mode = "graph" => u.viewBy = "phase2"
      /\ u.mode # "graph" => u.view = m.view /\ u.viewBy = m.viewBy
  <2>1. Shows(m, Id) \in Rows /\ "phase2" \in Ways
    BY <1>1, SelectionTypes DEF Ways
  <2>2. CASE m.mode = "graph"
    <3>1. u = [m EXCEPT !.phase2 = FALSE, !.view = Shows(m, Id), !.viewBy = "phase2"]
      BY <1>1, <2>2 DEF Model
    <3> HIDE DEF u
    <3> QED
      BY <1>1, <2>1, <2>2, <3>1 DEF Model, Same, Alike
  <2>3. CASE m.mode # "graph"
    <3>1. u = [m EXCEPT !.phase2 = FALSE]
      BY <1>1, <2>3 DEF Model
    <3> HIDE DEF u
    <3> QED
      BY <1>1, <2>3, <3>1 DEF Model, Same, Alike
  <2> QED
    BY <2>2, <2>3
<1> HIDE DEF u
<1>3. Owed' = Owed /\ Owed \in BOOLEAN /\ Kept(m, Owed)
  BY <1>1 DEF Owed, FilterInv
<1>4. CASE u.current # "all"
  <2>1. m' \in Model /\ m'.recipe = m.recipe /\ Kept(m', Owed')
    BY <1>1, <1>2, <1>4, ReapplyStep
  <2> QED
    BY <1>1, <2>1, WorkerAside DEF Kept3
<1>5. CASE u.current = "all"
  <2>1. ListKept(u, Owed') /\ Scoped(u, u.list)
    BY <1>2, <1>3, ListAside
  <2>2. /\ InEpics(u) = InEpics(m) /\ InScope(u) = InScope(m) /\ u.bql = m.bql
        /\ \A S : Shows(u, S) = Shows(m, S)
    BY <1>2, SameSelection, AlikeSelection DEF Alike
  <2>3. ASSUME u.mode = "graph" PROVE Kept(u, Owed')
    BY <1>2, <2>1, <2>3 DEF ViewKept, ScopeOf, Given, Kept
  <2>4. ASSUME u.mode # "graph" PROVE Kept(u, Owed')
    <3>1. u.view = m.view /\ u.viewBy = m.viewBy /\ u.mode = m.mode
      BY <1>2, <2>4
    <3>2. ViewKept(u, Owed')
      BY <1>2, <1>3, <2>2, <3>1, SameGiven DEF Kept, ViewKept
    <3>3. ScopeOf(u)
      BY <1>3, <2>1, <2>2, <3>1 DEF Kept, ScopeOf, Scoped
    <3> QED
      BY <2>1, <3>2, <3>3 DEF Kept
  <2>5. m' = u /\ Kept(u, Owed')
    BY <1>1, <1>5, <2>3, <2>4
  <2> QED
    BY <1>1, <1>2, <2>5, WorkerAside DEF Kept3
<1> QED
  BY <1>4, <1>5

\* New data, and nothing filled yet.
LEMMA ReplacedFields ==
  ASSUME FilterInv
  PROVE  /\ Replaced \in Model /\ Replaced.mode = m.mode /\ Replaced.repos = m.repos
         /\ Replaced.recipe = m.recipe /\ Replaced.view = m.view /\ Replaced.viewBy = m.viewBy
BY DEF FilterInv, FilterTypes, Model, Replaced

\* A reload from another data source, with the filters applied to the new issues.
LEMMA DataSourceKept == FilterInv /\ DataSourceReload => Kept3
<1> SUFFICES ASSUME FilterInv, DataSourceReload PROVE Kept3
  OBVIOUS
<1>1. m' = reapplyActiveFilter(Replaced) /\ worker' = worker
  BY DEF DataSourceReload
<1>2. m' \in Model /\ m'.recipe = m.recipe /\ Kept(m', Owed')
  BY <1>1, ReplacedFields, ReapplyStep
<1> QED
  BY <1>1, <1>2, WorkerAside DEF Kept3

\* A reload without a worker.
LEMMA FileChangedKept == FilterInv /\ FileChanged => Kept3
<1> SUFFICES ASSUME FilterInv, FileChanged PROVE Kept3
  OBVIOUS
<1> DEFINE u == refreshBoardAndGraph(Replaced)
           v == reapplyActiveFilter(u)
<1>1. m' = refreshEpics(v) /\ worker' \in {worker, NewWorker} /\ ~worker.on
  BY DEF FileChanged
<1>2. /\ u \in Model /\ u.mode = m.mode /\ u.repos = m.repos /\ u.recipe = m.recipe
      /\ u.mode \notin {"board", "graph"} => u.view = m.view /\ u.viewBy = m.viewBy
  BY ReplacedFields, BoardFields DEF Aside, Same, Alike
<1> HIDE DEF u
<1>3. v \in Model /\ v.recipe = m.recipe /\ v.mode = m.mode /\ Kept(v, Owed')
  BY <1>2, ReapplyStep
<1>4. Owed' \in BOOLEAN
  BY DEF Owed
<1> HIDE DEF v
<1>5. Aside(v, m') /\ Same(v, m') /\ Kept(m', Owed')
  BY <1>1, <1>3, <1>4, EpicsKept DEF Kept, ScopeOf
<1>6. m' \in Model /\ m'.recipe = m.recipe
  BY <1>3, <1>5 DEF Aside, Same, Alike
<1>7. CASE worker' = worker
  BY <1>5, <1>6, <1>7, WorkerAside DEF Kept3
<1>8. CASE worker' = NewWorker
  <2>1. /\ worker' = [on |-> TRUE, recipe |-> NoRecipe, wanted |-> TRUE, build |-> NoBuild]
        /\ NoRecipe \in Names
    BY <1>8 DEF NewWorker, NoWorker, Names
  <2>2. WorkerKept'
    BY <2>1 DEF WorkerKept
  <2> QED
    BY <1>5, <1>6, <2>1, <2>2 DEF Kept3
<1> QED
  BY <1>1, <1>7, <1>8

-----------------------------------------------------------------------------
(* The specification.                                                      *)

\* At the start all issues are shown, and nothing is filtered.
LEMMA FilterInitInv == FilterInit => FilterInv
<1> SUFFICES ASSUME FilterInit PROVE FilterInv
  OBVIOUS
<1>1. PICK d \in Loads :
        /\ source = [issues |-> d, left |-> MaxReloads]
        /\ m = [issues |-> d, snapshot |-> FALSE, phase2 |-> TRUE,
                current |-> "all", label |-> FALSE, recipe |-> NoRecipe, bql |-> FALSE,
                repos |-> AllRepos, wisps |-> FALSE, mode |-> "list",
                list |-> {<<i, d[i]>> : i \in Id}, by |-> "start", view |-> {}, viewBy |-> "scope"]
        /\ worker \in {NoWorker, NewWorker}
  BY DEF FilterInit
<1>2. d \in [Id -> Statuses]
  OBVIOUS
<1>3. worker \in {[on |-> FALSE, recipe |-> NoRecipe, wanted |-> FALSE, build |-> NoBuild],
                  [on |-> TRUE, recipe |-> NoRecipe, wanted |-> TRUE, build |-> NoBuild]}
  BY <1>1 DEF NoWorker, NewWorker
<1>4. worker \in [on : BOOLEAN, recipe : Names, wanted : BOOLEAN, build : {NoBuild} \cup Build]
  <2>1. NoRecipe \in Names
    BY DEF Names
  <2>2. ASSUME NEW b \in BOOLEAN,
               worker = [on |-> b, recipe |-> NoRecipe, wanted |-> b, build |-> NoBuild]
        PROVE  worker \in [on : BOOLEAN, recipe : Names, wanted : BOOLEAN, build : {NoBuild} \cup Build]
    BY <2>1, <2>2
  <2> QED
    BY <1>3, <2>2, Zenon
<1>5. m \in Model
  <2>1. {<<i, d[i]>> : i \in Id} \in Rows /\ {} \in Rows
    BY <1>2 DEF Rows
  <2>2. /\ "all" \in StatusFilters /\ NoRecipe \in Names /\ AllRepos \in SUBSET Repo
        /\ "start" \in Ways /\ "scope" \in Ways
    BY DEF StatusFilters, Names, AllRepos, Ways
  <2> QED
    BY <1>1, <1>2, <2>1, <2>2 DEF Model
<1>6. FilterTypes
  BY <1>1, <1>2, <1>4, <1>5 DEF FilterTypes
<1>7. WorkerKept
  BY <1>3 DEF WorkerKept, NoWorker
<1>8. ListKept(m, Owed)
  BY <1>1 DEF ListKept, Given, Shows
<1>9. ViewKept(m, Owed)
  BY <1>1 DEF ViewKept
<1>10. ScopeOf(m)
  BY <1>1 DEF ScopeOf, Scoped, InScope
<1> QED
  BY <1>6, <1>7, <1>8, <1>9, <1>10 DEF FilterInv, Kept

\* One step of each handler keeps the invariant.
LEMMA FilterNextInv == FilterInv /\ [FilterNext]_filterVars => FilterInv'
<1> SUFFICES ASSUME FilterInv, [FilterNext]_filterVars PROVE FilterInv'
  OBVIOUS
<1>1. ASSUME Kept3, source' \in [issues : [Id -> Statuses], left : Nat] PROVE FilterInv'
  BY <1>1 DEF Kept3, FilterInv, FilterTypes
<1>2. source \in [issues : [Id -> Statuses], left : Nat]
  BY DEF FilterInv, FilterTypes
<1>3. CASE Key
  <2>1. source' = source
    BY <1>3 DEF Key, StatusKey, cycleStatusFilter, cycleSortMode, RecipeTriage, PickRecipe,
       EnterQuery, ClearQuery, PickLabel, PickRepos, WorkspaceHomeAll, revealBeadIfHidden,
       toggleWisps, clearAllFilters, rebuildListWithDiffInfo, Enter, Leave
  <2> QED
    BY <1>1, <1>2, <1>3, <2>1, KeyKept
<1>4. CASE SourceChanges
  BY <1>1, <1>4, SourceKept
<1>5. CASE WorkerBuilds \/ SnapshotReady \/ Phase2Update \/ Phase2Ready \/ FileChanged
             \/ DataSourceReload
  <2>1. source' = source
    BY <1>5 DEF WorkerBuilds, SnapshotReady, Phase2Update, Phase2Ready, FileChanged,
       DataSourceReload
  <2> QED
    BY <1>1, <1>2, <1>5, <2>1, BuildsKept, SnapshotReadyKept, Phase2UpdateKept, Phase2ReadyKept,
       FileChangedKept, DataSourceKept
<1>6. CASE UNCHANGED filterVars
  BY <1>6 DEF filterVars, FilterInv, FilterTypes, WorkerKept, Owed
<1> QED
  BY <1>3, <1>4, <1>5, <1>6 DEF FilterNext, Arrival

\* So it holds throughout.
LEMMA FilterInvariant == FilterSpec => []FilterInv
<1>1. FilterInit => FilterInv
  BY FilterInitInv
<1>2. FilterInv /\ [FilterNext]_filterVars => FilterInv'
  BY FilterNextInv
<1> QED
  BY <1>1, <1>2, PTL DEF FilterSpec

(* Whatever keys are pressed while snapshots, reloads and Phase 2 come in  *)
(* between, no path of model_filter.go and its callers fills the list or a *)
(* view with issues of a project that is not selected.                     *)
THEOREM ScopeIsKept == FilterSpec => []ScopeKept
<1>1. FilterInv => ScopeKept
  BY DEF FilterInv, Kept, ScopeOf, Scoped, ScopeKept
<1> QED
  BY <1>1, FilterInvariant, PTL

\* Rows with hidden wisps put aside.
LEMMA ShownVisible ==
  ASSUME NEW u, NEW S \in SUBSET Id
  PROVE  {p \in Shows(u, S) : p[1] \in Visible(u)} = Shows(u, S \cap Visible(u))
BY DEF Shows

\* The four tests of filteredIssuesForActiveView.
LEMMA ActiveFilters ==
  /\ m.current \in StatusFilters => Active(m) = Visible(m) \cap matchesCurrentFilter(m)
  /\ m.recipe # NoRecipe /\ m.current \in Recipes => Active(m) = Visible(m) \cap InRecipeScope(m)
  /\ m.recipe = NoRecipe /\ m.current \in Recipes => Active(m) = {}
  /\ m.bql /\ m.current = Query => Active(m) = Visible(m) \cap (InScope(m) \cap InQuery(m))
<1>1. Query \notin StatusFilters
  BY DEF Query, StatusFilters
<1>2. ASSUME m.current \in StatusFilters PROVE m.current \notin Recipes /\ m.current # Query
  BY <1>1, <1>2
<1>3. ASSUME m.current \in Recipes PROVE m.current \notin StatusFilters /\ m.current # Query
  BY <1>3
<1>4. ASSUME m.current \in Recipes PROVE WithStatus(m) = {}
  BY <1>3, <1>4 DEF WithStatus, StatusFilters
<1>5. ASSUME m.recipe = NoRecipe, m.current \in Recipes PROVE Active(m) = {}
  BY <1>3, <1>4, <1>5 DEF Active, matchesCurrentFilter
<1> QED
  BY <1>2, <1>3, <1>5 DEF Active, InRecipeScope

\* Each way that Capable admits shows what the filters in force select.
LEMMA GivenHonest ==
  ASSUME FilterInv, NEW rows, NEW by, Given(m, Owed, rows, by), Capable(by)
  PROVE  {p \in rows : p[1] \in Visible(m)} = Shows(m, Active(m))
<1>1. m \in Model
  BY DEF FilterInv, FilterTypes
<1>2. ASSUME NEW S \in SUBSET Id, rows = Shows(m, S), S \cap Visible(m) = Active(m)
      PROVE  {p \in rows : p[1] \in Visible(m)} = Shows(m, Active(m))
  BY <1>2, ShownVisible
<1>3. InScope(m) \subseteq Id
  BY <1>1, SelectionTypes
<1>4. CASE by = "start"
  <2>1. m.current \in StatusFilters /\ rows = Shows(m, Id) /\ Visible(m) \subseteq Id
    BY <1>1, <1>4, SelectionTypes DEF Given, StatusFilters
  <2>2. matchesCurrentFilter(m) = Id
    BY <1>4 DEF Given, matchesCurrentFilter, InScope, WithStatus, WithLabel
  <2> QED
    BY <1>2, <2>1, <2>2, ActiveFilters
<1>5. CASE by = "filter"
  <2>1. m.current \in StatusFilters /\ rows = Shows(m, Visible(m) \cap matchesCurrentFilter(m))
    BY <1>5 DEF Given, Capable
  <2>2. Visible(m) \cap matchesCurrentFilter(m) \in SUBSET Id
    BY <1>1, SelectionTypes
  <2> QED
    BY <1>2, <2>1, <2>2, ActiveFilters
<1>6. CASE by \in {"recipe", "snapshot"} /\ m.recipe # NoRecipe
  <2>1. m.current \in Recipes /\ rows = Shows(m, InRecipeScope(m))
    BY <1>1, <1>6 DEF Given, Model, Names
  <2>2. InRecipeScope(m) \in SUBSET Id
    BY <1>1, SelectionTypes
  <2> QED
    BY <1>2, <1>6, <2>1, <2>2, ActiveFilters
<1>7. CASE by = "bql"
  <2>1. m.bql /\ m.current = Query /\ rows = Shows(m, InScope(m) \cap InQuery(m))
    BY <1>7 DEF Given
  <2>2. InScope(m) \cap InQuery(m) \in SUBSET Id
    BY <1>3
  <2>3. Active(m) = Visible(m) \cap (InScope(m) \cap InQuery(m))
    BY <2>1, ActiveFilters
  <2>4. (InScope(m) \cap InQuery(m)) \cap Visible(m) = Active(m)
    BY <2>3
  <2> QED
    BY <1>2, <2>1, <2>2, <2>4
<1>8. CASE by = "snapshot" /\ m.recipe = NoRecipe
  <2>1. PICK r \in Names : rows = Shows(m, SnapshotItems(m, r)) /\ (r # NoRecipe => Owed)
    BY <1>8 DEF Given
  <2>2. SnapshotItems(m, r) \in SUBSET Id
    BY <1>1, SelectionTypes
  <2>3. CASE Id = {}
    <3>1. SnapshotItems(m, r) = {} /\ Active(m) = {}
      BY <1>1, <1>3, <2>2, <2>3, SelectionTypes
    <3> QED
      BY <1>2, <2>1, <2>2, <3>1
  <2>4. CASE Id # {}
    <3>1. /\ m.current \in {"all", "open", "closed", "ready"} \cup Recipes
          /\ ~worker.wanted /\ worker.build = NoBuild
      BY <1>8 DEF Capable
    <3>2. r = NoRecipe
      BY <2>1, <2>4, <3>1 DEF Owed
    <3>3. InRecipe(m, r) = Id
      BY <3>2 DEF InRecipe
    <3>4. CASE m.current \in {"all", "open", "closed", "ready"}
      <4>1. m.current \in StatusFilters
        BY <3>4 DEF StatusFilters
      <4>2. SnapshotItems(m, r) = matchesCurrentFilter(m)
        BY <1>3, <3>3, <3>4 DEF SnapshotItems, matchesCurrentFilter
      <4> QED
        BY <1>2, <2>1, <2>2, <4>1, <4>2, ActiveFilters
    <3>5. CASE m.current \in Recipes
      <4>1. Active(m) = {} /\ m.current \notin StatusFilters
        BY <1>8, <3>5, ActiveFilters
      <4>2. SnapshotItems(m, r) = {}
        BY <4>1 DEF SnapshotItems, StatusFilters
      <4> QED
        BY <1>2, <2>1, <4>1, <4>2
    <3> QED
      BY <3>1, <3>4, <3>5
  <2> QED
    BY <2>3, <2>4
<1>9. CASE by = "active"
  <2>1. rows = Shows(m, Active(m)) /\ Active(m) \in SUBSET Id
    BY <1>1, <1>9, SelectionTypes DEF Given
  <2>2. Active(m) \subseteq Visible(m)
    BY DEF Active
  <2> QED
    BY <1>2, <2>1, <2>2
<1> QED
  BY <1>4, <1>5, <1>6, <1>7, <1>8, <1>9 DEF Given, Capable

(* Whatever keys are pressed while snapshots, reloads and Phase 2 come in  *)
(* between, the list and the view on screen show what                      *)
(* filteredIssuesForActiveView says of the filters in force and the data   *)
(* of now, provided who filled them last had the means to (Capable): for   *)
(* every set of issues, projects, recipes, labels and contents.            *)
THEOREM ViewsAreHonest == FilterSpec => []ViewsHonest
<1>1. FilterInv => ViewsHonest
  <2> SUFFICES ASSUME FilterInv PROVE ViewsHonest
    OBVIOUS
  <2>1. ListKept(m, Owed) /\ ViewKept(m, Owed)
    BY DEF FilterInv, Kept
  <2>2. Honest(m.list, m.by)
    BY <2>1, GivenHonest DEF ListKept, Honest
  <2>3. m.mode \in {"board", "graph"} => Honest(m.view, m.viewBy)
    BY <2>1, GivenHonest DEF ViewKept, Honest
  <2> QED
    BY <2>1, <2>2, <2>3 DEF ViewsHonest, ViewKept, InEpics
<1> QED
  BY <1>1, FilterInvariant, PTL

=============================================================================
