SPECIFICATION FairSpec

CONSTANT
    MaxOps = 4

INVARIANTS
    TypeOK
    ReportedOnce
    ConnectionReported
    OneAtATime

PROPERTIES
    SentOperationEnds

CHECK_DEADLOCK FALSE
