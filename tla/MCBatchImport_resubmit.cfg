CONSTANTS
  ImportBatches = {}
  Singles = {s}
  Clients = {c}
  Tasks = {1}
  TasksOf <- Shared
  Good = {x}
  Bad = {z}
  MaxImports = 0
  MaxSubmits = 2
  MaxOutages = 1
  MaxDamage = 0
SPECIFICATION Spec
PROPERTIES
  CommittedIsFinal
CHECK_DEADLOCK FALSE
