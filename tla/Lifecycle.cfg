CONSTANTS
  Execs = {e1, e2}
  Managers = {m1}
  Workers = {}
  Clients = {c1}
  Cancellers = {c1}
  Resumers = {c1}
  None = None
  Isolated = Isolated
  Async = FALSE
  MaxRetries = 1
  MaxFaults = 2
SPECIFICATION Spec
SYMMETRY Symm
PROPERTY ImplementsLifecycle
CHECK_DEADLOCK FALSE
