CONSTANTS
  i1 = i1
  i2 = i2
  k1 = k1
  k2 = k2
  s1 = s1
  s2 = s2
  s3 = s3
  s4 = s4
  None = None
  Sockets = {s1, s2, s3, s4}
  Ids = {i1, i2}
  IdOf <- TwoClients
  Keys = {k1, k2}
  KeyOf <- AddressOfClient
  MaxConnections = 3
  MaxAttempts = 2
  MaxTrackedKeys = 1
  Orderly = {i1}
SPECIFICATION ServerFairSpec
INVARIANTS
  CountIsExact
  StopReachesEverySocket
  RegistryIsExact
  GuessesAreBounded
PROPERTIES
  HandshakesEnd
CHECK_DEADLOCK FALSE
