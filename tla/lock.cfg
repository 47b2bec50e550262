SPECIFICATION Spec
CONSTANTS
  Instance <- MCInstance
  MaxFaults = 2
INVARIANTS OneFirstUnlessLate HolderKeepsLock AloneIsFirst
CHECK_DEADLOCK FALSE
