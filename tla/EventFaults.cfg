CONSTANTS
  Nodes = {n1}
  Delays = {}
  Timed = {n1}
  Publishers = {e1, e2}
  Capacity = 1
  MaxRetries = 1
  None = None
  Procs = {p1}
  Keepers = {k1}
  Async = TRUE
  Churn = TRUE
  Endings = {"fail"}
  MaxFaults = 1
  MaxCrashes = 0
SPECIFICATION Spec
INVARIANTS TypeOK 
 
SYMMETRY Symm
CHECK_DEADLOCK FALSE
