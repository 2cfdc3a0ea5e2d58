CONSTANTS
  w1 = w1
  w2 = w2
  w3 = w3
  s1 = s1
  s2 = s2
  Waits = {w1, w2}
  Steps = {s1, s2}
  Deps <- Behind
  Checkpointed = {s2}
  Starter = Starter
  Worker = Worker
  Client = Client
  MaxInstances = 1
  MaxCrashes = 2
  Cancels = TRUE
  None = None
SPECIFICATION Spec
INVARIANT TypeOK CausallyClosed OneGraph
PROPERTY OutcomeKept
CHECK_DEADLOCK FALSE
