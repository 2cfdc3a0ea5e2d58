CONSTANTS
  Execs = {e1, e2}
  Managers = {m1}
  Workers = {w1}
  Clients = {c1}
  Cancellers = {}
  Resumers = {c1}
  None = None
  Isolated = Isolated
  Async = TRUE
  MaxRetries = 1
  MaxFaults = 0
SPECIFICATION Spec
SYMMETRY Symm
INVARIANT TypeOK
INVARIANT FencedCompletion
PROPERTY LockRespectsHolder
CHECK_DEADLOCK FALSE
