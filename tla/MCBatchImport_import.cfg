CONSTANTS
  ImportBatches = {i}
  Singles = {s}
  Clients = {c}
  Tasks = {1, 2}
  TasksOf <- Shared
  Good = {x, y}
  Bad = {z}
  MaxImports = 2
  MaxSubmits = 1
  MaxOutages = 2
  MaxDamage = 1
SPECIFICATION FairSpec
INVARIANTS
  CommitComplete
  VisibleIsCommitted
  Recoverable
PROPERTIES
  CommittedIsFinal
  AtomicImport
  
CHECK_DEADLOCK FALSE
