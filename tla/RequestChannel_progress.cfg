CONSTANTS
  MaxSocket = 3
  Fallible = {1, 2}
  LateDelivery = FALSE
  CallerAborts = FALSE
  Deadlines = {"caller"}
  ReconnectTimeouts = FALSE
  MaxRestarts = 1
  SendAttempts = 3
  MaxChunks = 1
SPECIFICATION FairSpec
INVARIANTS
  OneLossIsInvisible
PROPERTIES
  EveryRequestSettles
  ChannelsAreReleased
CHECK_DEADLOCK FALSE
