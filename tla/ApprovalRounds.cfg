CONSTANTS
  m1 = m1
  m2 = m2
  Managers = {m1, m2}
  Rounds = 2
  MaxApprovals = 3
  MaxCrashes = 1
  MaxRetries = 1
  Expires = TRUE
  Overtakes = FALSE
  None = None
SYMMETRY Symmetric
SPECIFICATION Spec
INVARIANT TypeOK OwnDecision RejectionStops 
CHECK_DEADLOCK FALSE
