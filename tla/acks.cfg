SPECIFICATION FairSpec
CONSTANTS
  Caller = {c1, c2}
  MaxId = 2
  MaxInbox = 1
  Nested = TRUE
  Sends = {"Event"}
  Named = {"Message"}
  Handled = {"Message", "Error"}
  Shard <- MCShard
  Workers = 2
INVARIANTS CalledOnce RemovesItsAck AckInv OneCallbackPerShard
PROPERTIES CallbackReturnsAgain AckSettled
CHECK_DEADLOCK FALSE
