SPECIFICATION FairSpec
CONSTANTS
  Loops <- MCTwo
  Callbacks <- MCTwo
  MaxChanges = 2
  MaxStarts = 2
INVARIANTS NothingLost
PROPERTIES EventuallySeen
CHECK_DEADLOCK FALSE
