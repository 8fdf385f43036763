SPECIFICATION Spec

CONSTANTS
    UintRange = 32
    MsPerSec = 6
    Intervals = {31}
    MaxElapsed = 30

PROPERTIES
    KeptForInterval
