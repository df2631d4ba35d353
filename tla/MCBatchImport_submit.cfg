CONSTANTS
  ImportBatches = {i, j}
  Singles = {s}
  Clients = {c, d}
  Tasks = {1, 2}
  TasksOf <- Split
  Good = {x}
  Bad = {z}
  MaxImports = 3
  MaxSubmits = 3
  MaxOutages = 0
  MaxDamage = 0
SPECIFICATION Spec
INVARIANTS
  OneBatchPerTask
PROPERTIES
  HistoryKept
CHECK_DEADLOCK FALSE
