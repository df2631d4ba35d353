CONSTANTS
  Good = {a, b}
  Bad = {z}
  Inodes = {i, j}
  NoFile = none
  MaxObjects = 2
  MaxBytes = 3
  MaxLines = 4
  MaxEdits = 2
  MaxClock = 1
  MaxErrors = 2
SPECIFICATION Spec
INVARIANTS
  VerdictIsOfTheCopy
  
PROPERTIES
  AcceptedIsCurrent
SYMMETRY Symmetry
CHECK_DEADLOCK FALSE
