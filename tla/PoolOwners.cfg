CONSTANTS
  r1 = r1
  r2 = r2
  r3 = r3
  i1 = i1
  i2 = i2
  Requests = {r1, r2, r3}
  Ids = {i1, i2}
  MaxGenerations = 2
  MaxRenders = 2
  MaxPerGeneration = 1
  MaxRetires = 1
  MaxFailures = 2
  None = None
SPECIFICATION LiveSpec
INVARIANT TypeOK OwnersBounded CountsExact ArtifactsOutliveRenders ClosedClean
PROPERTY CloseCleans
CHECK_DEADLOCK FALSE
