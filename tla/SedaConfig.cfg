SPECIFICATION Spec
CONSTANTS
  Names = {1, 2}
  PoolNames = {0, 1, 2}
  Default = 0
  MaxThreads = 2
  MaxInits = 2
  MaxObjects = 6
  MaxEvents = 3
  Configs <- ConfigsMC
INVARIANTS NoUseAfterDelete OnlyRepeatsLeak
PROPERTY CallsReturn
CHECK_DEADLOCK FALSE
