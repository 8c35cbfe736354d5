SPECIFICATION Spec
CONSTANTS
  User = {u1}
  MaxSocket = 2
  Reconnect = TRUE
  Limited = FALSE
  Limit = 0
INVARIANTS DisconnectIsFinal
CHECK_DEADLOCK FALSE
