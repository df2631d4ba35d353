CONSTANTS
  NumTasks = 1
  Limits = {1}
  Priorities = {0}
  RetryLimit = 2
  MaxRequeues = 1
  MaxOutages = 2
  MaxDamage = 0
SPECIFICATION FairSpec
PROPERTIES
  StopCompletes
  FaultDrains
  ShutdownEnds
  RecoveryEnds
