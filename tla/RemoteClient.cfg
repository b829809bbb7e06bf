CONSTANTS
  MaxTries = 3
  Reconnects = TRUE
  SameTurn = TRUE
SPECIFICATION FairSpec
CHECK_DEADLOCK FALSE
INVARIANTS
  HandedOverIsServed
PROPERTY ClientIsServed
