SPECIFICATION UISpec
CONSTANTS
  Proc <- MCProc
  Recipes <- MCTwoRecipes
  DefaultRecipe <- MCDefaultRecipe
  Kinds <- MCDeliveryKinds
  Chains <- MCChains
  Followed <- MCNothing
  ChanCap = 2
  MaxRecoveries = 1
  MaxContent = 2
  MaxStimuli = 1
  MaxFaults = 1
INVARIANTS ChangesShown Delivered ConnectionHonest PoolSafe
PROPERTIES UINeverRegresses
CHECK_DEADLOCK FALSE
