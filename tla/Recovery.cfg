CONSTANTS
  Execs = {e1, e2, e3}
  Managers = {m1, m2}
  Workers = {}
  Clients = {c1}
  Cancellers = {}
  Resumers = {}
  None = None
  Isolated = Isolated
  Async = FALSE
  MaxRetries = 0
  MaxFaults = 1
SPECIFICATION LiveSpec
PROPERTY RunSettles
PROPERTY LockComesFree
CHECK_DEADLOCK FALSE
