CONSTANTS
  None = None
  Clients = {c1, c2}
  RequestIds = {r1}
  Sockets = {s1}
SPECIFICATION Spec
CHECK_DEADLOCK FALSE
PROPERTIES
  VanishedPeerIsDropped
  ReconnectGoesOn
