CONSTANTS
    l1 = l1  l2 = l2  l3 = l3
    Logins = {l1, l2}
    Forced = {}
    Overlap = TRUE
    None = None  Old = Old
SPECIFICATION Spec
INVARIANTS
    LoginCovers
CHECK_DEADLOCK FALSE
