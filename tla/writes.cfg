SPECIFICATION WriteSpec
CONSTANTS
  Issue = {i1, i2}
  Short <- MCShort
  Longform <- MCLongform
  Tempfile <- MCTempfile
  Additive <- MCAdditive
  Contested <- MCContested
  Write = {w1, w2}
  MaxEdits = 2
  MaxOthers = 1
  Feeds = {"file"}
SYMMETRY MCSymmetry
INVARIANTS CommittedKept WritesCommitted SettledWhenQuiet
CHECK_DEADLOCK FALSE
