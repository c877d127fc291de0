CONSTANTS
    None = None  Torn = Torn  Prior = Prior  New = New
    NoPath = NoPath
    Machines <- AllMachines
    UpdatedRoots <- Updated
SPECIFICATION CommandSpec
INVARIANTS
    CommandTypeOK
    RolledBack
    InstalledIsWhole
    PriorSurvives
    NoGuessing
    HomeIsHonoured
    NothingUnapproved
    StartsAsPlanned
CHECK_DEADLOCK FALSE
