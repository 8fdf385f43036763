SPECIFICATION Spec

CONSTANTS
    Topics = {1, 2}
    AliasMaxes = {2}
    SendLimit = 1
    Preferences = {"available"}
    Reconnects = 0
    MaxPublishes = 2

INVARIANTS
    AliasUnique
