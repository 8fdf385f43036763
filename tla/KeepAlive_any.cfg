SPECIFICATION Spec

CONSTANTS
    KeepAlives = {0, 2, 3}
    ResponseTimeouts = {1, 2, 4}
    MaxAge = 8

INVARIANTS
    PingInTime
    SilenceBounded

PROPERTIES
    TimeoutOnlyUnanswered
