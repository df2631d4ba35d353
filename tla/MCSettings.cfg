CONSTANTS
  Clients = {c, d}
  Slots = {s, t}
  Maxes = {0, 1, 2}
  Budgets = {0, 1, 3}
  Default <- Initial
  None = none
  Torn = torn
  MaxUpdates = 3
  MaxOutages = 2
SPECIFICATION Spec
INVARIANTS
  SharesWithinBudget
PROPERTIES
  DocumentAtomic
  NoLostUpdate
SYMMETRY Symmetry
CHECK_DEADLOCK FALSE
