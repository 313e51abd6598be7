SPECIFICATION Spec
CONSTANTS
  t1 = t1
  t2 = t2
  c1 = c1
  c2 = c2
  Free = Free
  None = None
  Threads <- MCThreads
  Configs <- MCConfigs
  DefaultConfig = c1
  MaxTokens = 2
  MaxCalls = 3
CHECK_DEADLOCK FALSE
INVARIANTS HandleHasRuntime CachesOfThisEpoch
PROPERTIES ConfigFrozen 
