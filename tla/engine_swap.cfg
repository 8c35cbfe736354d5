SPECIFICATION SharedSpec
CONSTANTS
  s1 = s1
  s2 = s2
  Sid = {s1, s2}
  EventSize = 1
  PollingBuffer = 1
  MissLimit = 1
  Shard <- OneShard
  Transports <- FirstPolling
  ClientSends <- Nothing
  Polls = {s1}
  AppSends <- Nothing
  Upgrading = {s1}
PROPERTIES DeadClientReaped UnreadIsReaped
CHECK_DEADLOCK FALSE
