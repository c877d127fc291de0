SPECIFICATION FairSpec
CONSTANTS
    HeaderLen = 3
    MaxLen = 2
    MaxAhead = 3
    MaxMessages = 2
INVARIANTS
    TypeOK
    InSync
PROPERTIES
    ImplementsContract
    StreamEnds
CHECK_DEADLOCK FALSE
