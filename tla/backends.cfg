SPECIFICATION FairSpec
CONSTANTS
  Instance <- MCTwo
  Ports <- MCTwo
  MaxFaults = 2
  Reader <- MCTwo
  Attempts = 2
  MaxCommits = 3
  MaxTroubles = 2
  MaxSnapshots = 3
  HistoryDays = 3
  MaxDays = 5
INVARIANTS NoServerLeft LoadsPresent RecentDaysKept
PROPERTIES StopsOnlyOwn EventuallyServed
CHECK_DEADLOCK FALSE
