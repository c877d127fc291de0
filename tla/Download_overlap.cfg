CONSTANTS
    d1 = d1  d2 = d2  d3 = d3
    Downloads = {d1, d2, d3}
    None = None  Torn = Torn  Old = Old
SPECIFICATION Spec
SYMMETRY DownloadSymmetry
INVARIANTS
    TypeOK
    ManagedIsWhole
    MissingIsHeld
    FailureChangesNothing
CHECK_DEADLOCK FALSE
