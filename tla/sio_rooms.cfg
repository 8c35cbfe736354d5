SPECIFICATION Spec
CONSTANTS
  Esid = {e1, e2}
  Nsp = {na, nb}
  On = {na, nb}
  Room = {r1}
  EmitBy = {"room", "sid"}
  Faults = {"timeout"}
  None = None
SYMMETRY Sessions
INVARIANTS NamespaceIsolation OneClientPerSession IInv
PROPERTIES RoomsKeepMembers
CHECK_DEADLOCK FALSE
