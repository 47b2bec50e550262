SPECIFICATION Spec
CONSTANTS
  TreeLoads <- MCTreeLoads
  Here <- MCHere
  Heights <- MCHeights
  MaxChanges = 1
  Reports <- MCReports
  Touches <- MCTouches
  Thresholds <- MCThresholds
  Folders <- MCFolders
  Queries <- MCQueries
  Panes <- MCPanes
  MaxLoads = 1
  Cards <- MCCards
  CardFilters <- MCCardFilters
  CardQueries <- MCCardQueries
  PageRows = 2
  MaxCardLoads = 1
CHECK_DEADLOCK FALSE
INVARIANTS ShowsCurrent FoldingSaved CursorsFit
PROPERTY SelectionKept
