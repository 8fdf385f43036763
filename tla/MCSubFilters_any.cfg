SPECIFICATION Spec

CONSTANTS
    Text <- MCText
    Topics <- MCTopics
    FiltersLimit = 2
    MaxRequests = 3
    MaxQueue = 2
    Symbols = {"a", "b", "/", "+", "#", "$share"}
    MaxFilter = 5
    MaxTopic = 4

INVARIANTS
    InSync
    FilterAccepted
    MatchExact

PROPERTIES
    LegitReported
