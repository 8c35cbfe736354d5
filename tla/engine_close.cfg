SPECIFICATION Spec
CONSTANTS
  s1 = s1
  s2 = s2
  Sid = {s1}
  EventSize = 1
  PollingBuffer = 1
  MissLimit = 1
  Shard <- OneShard
  Transports <- Websocket
  ClientSends <- MsgClose
  Polls = {}
  AppSends <- ByeMulti
  Upgrading = {}
INVARIANTS Watched SingleCloser ClosedUnregistered IInv
PROPERTIES MultiAtomic LifecycleSpec
CHECK_DEADLOCK FALSE
