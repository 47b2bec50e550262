SPECIFICATION FairUISpec
CONSTANTS
  Proc <- MCProc
  Recipes <- MCOneRecipe
  DefaultRecipe <- MCDefaultRecipe
  Kinds <- MCPhase2Kinds
  Chains <- MCChains
  Followed <- MCEverything
  ChanCap = 2
  MaxRecoveries = 1
  MaxContent = 2
  MaxStimuli = 0
  MaxFaults = 0
INVARIANTS AppliedOwn
PROPERTIES EventuallyReady
CHECK_DEADLOCK FALSE
