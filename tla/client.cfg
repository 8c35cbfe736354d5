SPECIFICATION FairSpec
CONSTANTS
  User = {u1, u2}
  MaxSocket = 3
  Reconnect = TRUE
  Limited = TRUE
  Limit = 1
INVARIANTS OneConnection IInv
PROPERTIES LostIsReplaced DisconnectReturns PollerStops
CHECK_DEADLOCK FALSE
