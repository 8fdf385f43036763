SPECIFICATION DeliveryFairSpec

CONSTANTS
    Ids = {1, 2, 3}
    RecvLimit = 2
    OpsLimit = 3
    Topics = {1, 2}
    Subscribed = {1}
    MaxRecvAlias = 1
    MaxMsgs = 2

INVARIANTS
    RecvTypeOK
    OneOpPerId
    ReceiveLimitKept

PROPERTIES
    ImplementsDelivery
    ConformingNotRefused
    ReportedUnderItsTopic
    ExchangeEnds

CHECK_DEADLOCK FALSE
