SPECIFICATION Spec
CONSTANTS
  Proc <- MCProc
  Recipes <- MCTwoRecipes
  DefaultRecipe <- MCDefaultRecipe
  Kinds <- MCNoKinds
  ChanCap = 1
  MaxRecoveries = 1
  MaxContent = 2
  MaxStimuli = 1
  MaxFaults = 0
INVARIANTS SingleBuilder FreshWhenQuiet HashIsShown LoopOwned
PROPERTIES KeepsPromise
CHECK_DEADLOCK FALSE
