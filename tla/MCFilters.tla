----------------------------- MODULE MCFilters -----------------------------
(* Three issues: one that blocks another, and a wisp, over two projects.   *)
EXTENDS Filters

MCStatuses == {"open", "in_progress", "closed"}
MCId == 1..3
MCLoads == {<<"open", "open", "in_progress">>, <<"closed", "in_progress", "open">>}
MCRepo == {1, 2}
MCRepoOf == <<1, 2, 1>>
MCWisp == {3}
MCLabelled == {2, 3}
MCBlocks == {<<1, 2>>}
MCRecipes == {"triage"}
MCWanted == [r \in MCRecipes |-> {"open", "in_progress"}]
MCQueried == {"open", "closed"}
=============================================================================
