CONSTANTS
  None = None
  Clients = {c1, c2}
  RequestIds = {r1}
  Sockets = {s1, s2}
SPECIFICATION Spec
SYMMETRY Symmetry
CHECK_DEADLOCK FALSE
INVARIANTS
  LookupIsExact
  GoodbyeReleases
  UnregisteredHoldsNothing
PROPERTIES
  CloseNotices
