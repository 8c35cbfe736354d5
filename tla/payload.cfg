SPECIFICATION FairSpec
CONSTANTS
    None = None
    U8 = 4
    Nsp = "/admin"
    MaxSent = 2
    MaxPing = 1
    Message <- MCMessage
INVARIANTS
    TypeOK
    DeliveredAsSent
    StreamSurvives
PROPERTIES
    AllDelivered
CHECK_DEADLOCK FALSE
