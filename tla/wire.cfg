SPECIFICATION FairSpec
CONSTANTS
  Packets <- MCPackets
  Paths = {"post", "get", "ws"}
  PollingBuffer = 2
  HeadSize = 2
  ReadSize = 5
  ChunkSize = 9
  MaxSent = 3
INVARIANTS TypeOK ArrivesAsSent NeverChokes
PROPERTIES AcceptedArrives
CHECK_DEADLOCK FALSE
