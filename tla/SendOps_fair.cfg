SPECIFICATION FairSpec
CONSTANTS
    MaxPacketId = 5
    PacketIdsLimit = 10
    MaxOps = 3
    MaxAttempts = 2
    Qoses = {0, 1, 2}
    Orderings = {TRUE, FALSE}
    SendLimits = {1, 2}
    Expiries = {"zero", "finite"}
    SessionReplies = {TRUE, FALSE}
    Oversize = {2}
    NoCallback = {}
    SendsLate = FALSE
    CallbacksPublish = TRUE
    TicksInSend = TRUE
INVARIANTS
    TypeOK
    InFlightExact
    PacketIdsExact
    AwaitsAnswer
    OrderKept
    NoneStranded
PROPERTIES
    WithinReceiveMaximum
    PublishNotAfterPubrec
    EndsUnlessSuspended
CHECK_DEADLOCK FALSE
