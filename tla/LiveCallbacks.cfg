CONSTANTS
  Requester = "holder"
  Sends = {s1, s2}
  MaxId = 2
  Calls = {c1}
  MaxCopies = 2
  MaxOperations = 1
  MaxOthers = 1
SPECIFICATION FairSpec
CHECK_DEADLOCK FALSE
INVARIANTS
  FunctionFollowsWrappers
  CallRunsOnce
PROPERTIES
  ReleaseCutsNothing
  ChannelIsReleased
