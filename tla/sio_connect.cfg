SPECIFICATION FairSpec
CONSTANTS
  Esid = {e1}
  Nsp = {na, nb}
  On = {na}
  Room = {r1}
  EmitBy = {}
  Faults = {"close", "timeout", "bad"}
  None = None
PROPERTIES ConnectedOrClosed
CHECK_DEADLOCK FALSE
