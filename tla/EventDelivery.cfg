CONSTANTS
  Nodes = {n1, n2}
  Delays = {}
  Timed = {}
  Publishers = {e1, e2}
  Capacity = 2
  MaxRetries = 0
  None = None
  Procs = {p1, p2}
  Keepers = {k1}
  Async = FALSE
  Churn = FALSE
  Endings = {"fail", "cancel"}
  MaxFaults = 0
  MaxCrashes = 1
SPECIFICATION Spec
SYMMETRY Symm
INVARIANTS   MailInOrder
CHECK_DEADLOCK FALSE
