CONSTANTS
  MaxSocket = 3
  Fallible = {1,2}
  LateDelivery = TRUE
  CallerAborts = TRUE
  Deadlines = {"server"}
  ReconnectTimeouts = TRUE
  MaxRestarts = 1
  SendAttempts = 2
  MaxChunks = 1
SPECIFICATION Spec
INVARIANTS
  HandledOnce
  RetryIsKept
  StreamIsIntact
PROPERTIES
  WorkingSocketIsKept
CHECK_DEADLOCK FALSE
