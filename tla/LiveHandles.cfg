CONSTANTS
  Sends = {s1, s2}
  MaxId = 2
  MaxHandles = 1
  OtherHandles = 1
  Writes = {w}
  Calls = {c}
  MaxCopies = 2
  MaxRepeated = 1
  MaxOperations = 2
  OtherOperations = 1
SPECIFICATION FairSpec
CHECK_DEADLOCK FALSE
INVARIANTS
  ObjectFollowsProxies
  OperationFindsItsObject
PROPERTIES
  WritesComeFirst
  OperationsSettle
