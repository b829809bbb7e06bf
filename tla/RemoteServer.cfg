CONSTANTS
  None = None
  a1 = a1
  a2 = a2
  h1 = h1
  h2 = h2
  Attachments = {a1, a2}
  Hosts = {h1, h2}
  HostOf <- OwnHosts
  MaxTries = 3
  Reconnects = TRUE
  SameTurn = TRUE
SPECIFICATION FairSpec
CHECK_DEADLOCK FALSE
INVARIANTS
  ServedIsListed
  UnregisteredIsClosed
  CallsReachServer
PROPERTY AttachmentIsServed
