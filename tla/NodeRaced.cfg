CONSTANTS
  w1 = w1
  w2 = w2
  w3 = w3
  s1 = s1
  s2 = s2
  Waits = {w1, w2, w3}
  Steps = {}
  Deps <- Relay
  Checkpointed = {}
  Starter = Starter
  Worker = Worker
  Client = Client
  MaxInstances = 1
  MaxCrashes = 0
  Cancels = FALSE
  None = None
SPECIFICATION Spec
PROPERTY DeliveryNeverDestroyed
CHECK_DEADLOCK FALSE
