SPECIFICATION Spec

CONSTANTS
    MaxOwners = 4
    TimersLimit = 3
    Timeouts = {2}
    MaxSince = 3
    Ping = {1}
    Resp = {2}

INVARIANTS
    TypeOK
    CountExact
    TimeLeftExact
    TickProgrammed

CHECK_DEADLOCK FALSE
