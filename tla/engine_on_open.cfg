SPECIFICATION Spec
CONSTANTS
  s1 = s1
  s2 = s2
  Sid = {s1}
  EventSize = 1
  PollingBuffer = 1
  MissLimit = 2
  Shard <- OneShard
  Transports <- Polling
  ClientSends <- Nothing
  Polls = {s1}
  AppSends <- Nothing
  Upgrading = {}
PROPERTIES OpenFindsSocket
CHECK_DEADLOCK FALSE
