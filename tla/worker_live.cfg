SPECIFICATION FairSpec
CONSTANTS
  Proc <- MCOneProc
  Recipes <- MCOneRecipe
  DefaultRecipe <- MCDefaultRecipe
  Kinds <- MCPhase2Kind
  ChanCap = 1
  MaxRecoveries = 1
  MaxContent = 2
  MaxStimuli = 0
  MaxFaults = 1
PROPERTIES EventuallyFresh StopSettles
CHECK_DEADLOCK FALSE
