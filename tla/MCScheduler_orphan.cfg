CONSTANTS
  NumTasks = 2
  Limits = {1}
  Priorities = {0}
  RetryLimit = 1
  MaxRequeues = 0
  MaxOutages = 1
  MaxDamage = 0
SPECIFICATION Spec
INVARIANTS
  OneRunsAtATime
