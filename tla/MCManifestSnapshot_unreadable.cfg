CONSTANTS
  Good = {a}
  Bad = {}
  Inodes = {i, j}
  NoFile = none
  MaxObjects = 2
  MaxBytes = 3
  MaxLines = 2
  MaxEdits = 1
  MaxClock = 1
  MaxErrors = 2
SPECIFICATION Spec
INVARIANTS
  BadManifestIsAnIssue
CHECK_DEADLOCK FALSE
