CONSTANTS
    l1 = l1  l2 = l2  l3 = l3
    Logins = {l1, l2, l3}
    Forced = {l1, l2}
    Overlap = FALSE
    None = None  Old = Old
    MaxAttempts = 6
    MaxErrors = 3
SPECIFICATION LoginSpec
INVARIANTS
    LoginTypeOK
    StoreIsWhole
    NewestIsStored
    MissingIsRemembered
    GivesUpForAReason
CHECK_DEADLOCK FALSE
