CONSTANTS
  Stoppers = {s}
  Closer = c
  MaxAttempts = 2
  MaxCrashes = 2
SPECIFICATION FairSpec

  
PROPERTIES
  AttemptsInTurn
  
  StopReturns
CHECK_DEADLOCK FALSE
