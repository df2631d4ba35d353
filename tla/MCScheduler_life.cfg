CONSTANTS
  NumTasks = 1
  Limits = {1}
  Priorities = {0}
  RetryLimit = 3
  MaxRequeues = 1
  MaxOutages = 3
  MaxDamage = 1
SPECIFICATION Spec
INVARIANTS
  ProcessIsOwned
  DescriptorNamesProcess
  MemoryMatchesDisk
  ReloadAccepts
  RetryBudget
PROPERTIES
  
  StopIsNoFailure
  
  Contract
  AttemptsInTurn
