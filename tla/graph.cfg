CONSTANTS
  Ids = {1, 2, 3, 4, 5}
  Missing = 0
  MaxDepth = 3
  Inputs <- MCInputs
SPECIFICATION GraphSpec
INVARIANTS ActionableIsFree ChainExplains CascadeComplete AlgorithmsAgree
CHECK_DEADLOCK FALSE
