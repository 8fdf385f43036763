SPECIFICATION Spec

CONSTANTS
    Topics = {1, 2}
    AliasMaxes = {0, 1, 2}
    SendLimit = 2
    Preferences = {"available", "aliasOnly", "topicOnly", "both"}
    Reconnects = 1
    MaxPublishes = 3

INVARIANTS
    TypeOK
    MeantTopic
    AliasWithinMaximum

PROPERTIES
    NoAliasCarriedOver

CHECK_DEADLOCK FALSE
