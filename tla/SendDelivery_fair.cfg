SPECIFICATION DeliveryFairSpec
CONSTANTS
    MaxPacketId = 3
    PacketIdsLimit = 10
    MaxOps = 2
    MaxAttempts = 2
    Qoses = {1, 2}
    Orderings = {FALSE}
    SendLimits = {1, 2}
    Expiries = {"finite"}
    SessionReplies = {TRUE, FALSE}
    Oversize = {}
    NoCallback = {}
    SendsLate = FALSE
    CallbacksPublish = FALSE
    TicksInSend = TRUE
INVARIANT WithinBrokerWindow
PROPERTIES
    ImplementsDelivery
    ConformingNotTerminated
    Answered
CHECK_DEADLOCK FALSE
