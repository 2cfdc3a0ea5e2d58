CONSTANTS
  Nodes = {n1, n2}
  Delays = {n2}
  Timed = {n1, n2}
  Publishers = {e1}
  Capacity = 2
  MaxRetries = 0
  None = None
  Procs = {p1, p2}
  Keepers = {k1}
  Async = FALSE
  Churn = FALSE
  Endings = {}
  MaxFaults = 0
  MaxCrashes = 1
SPECIFICATION LiveSpec
PROPERTIES EventLands DeadlineApplies
INVARIANT DeliveredTruthfully
CHECK_DEADLOCK FALSE
