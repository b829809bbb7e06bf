CONSTANTS
  i1 = i1
  i2 = i2
  k1 = k1
  s1 = s1
  s2 = s2
  s3 = s3
  s4 = s4
  None = None
  Sockets = {s1, s2, s3, s4}
  Ids = {i1, i2}
  IdOf <- TwoServers
  Keys = {k1}
  KeyOf <- OneKey
  MaxConnections = 3
  MaxAttempts = 2
  MaxTrackedKeys = 1
  Orderly = {i1}
SPECIFICATION ClientFairSpec
INVARIANTS
  StopReachesEverySocket
PROPERTIES
  LiveServerKeepsItsPlace
CHECK_DEADLOCK FALSE
