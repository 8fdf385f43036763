SPECIFICATION Spec
CONSTANTS
    MaxPacketId = 5
    PacketIdsLimit = 10
    MaxOps = 2
    MaxAttempts = 2
    Qoses = {0, 1}
    Orderings = {TRUE, FALSE}
    SendLimits = {1, 2}
    Expiries = {"zero", "finite"}
    SessionReplies = {TRUE, FALSE}
    Oversize = {}
    NoCallback = {}
    SendsLate = FALSE
    CallbacksPublish = FALSE
    TicksInSend = FALSE
INVARIANT LoopsSafe
CHECK_DEADLOCK FALSE
