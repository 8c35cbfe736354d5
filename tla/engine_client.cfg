SPECIFICATION FairSpec
CONSTANTS
  Builds = {"build", "fallback", "upgrade", "websocket", "polling"}
  Offers = {TRUE, FALSE}
  MissLimit = 2
  PollingBuffer = 3
  MaxEmit = 2
INVARIANTS OneSessionPerBuild FallbackSurvivesWebsocket IInv
PROPERTIES ServedStays ServedOrReaped
CHECK_DEADLOCK FALSE
