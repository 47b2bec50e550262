SPECIFICATION FilterSpec
CONSTANTS
  Id <- MCId
  Statuses <- MCStatuses
  Loads <- MCLoads
  Repo <- MCRepo
  RepoOf <- MCRepoOf
  Home = 1
  Wisp <- MCWisp
  Labelled <- MCLabelled
  Blocks <- MCBlocks
  Recipes <- MCRecipes
  Wanted <- MCWanted
  Queried <- MCQueried
  MaxReloads = 1
CHECK_DEADLOCK FALSE
INVARIANT ViewsHonest ScopeKept
