CONSTANTS
  Execs = {e1, e2, e3}
  Managers = {m1}
  Workers = {}
  Clients = {c1}
  Cancellers = {}
  Resumers = {c1}
  None = None
  Isolated = Isolated
  Async = FALSE
  MaxRetries = 0
  MaxFaults = 1
SPECIFICATION Spec
SYMMETRY Symm
INVARIANT SoleExecution
PROPERTY NotDisowned
CHECK_DEADLOCK FALSE
