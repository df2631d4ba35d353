CONSTANTS
  Objects = {o}
  Stranger = stranger
  MaxAttempts = 2
  MaxLines = 2
  MaxTrouble = 3
SPECIFICATION Spec
INVARIANTS
  EventsExact
  VerdictsFollowEvidence
  SuccessProved
  DocNeverAhead
  ClosedIsSettled
PROPERTIES
  CompletedKept
SYMMETRY Symmetry
CHECK_DEADLOCK FALSE
