CONSTANTS
    None = None  Torn = Torn  Prior = Prior  New = New
SPECIFICATION Spec
INVARIANTS
    ConfigComesBack
CHECK_DEADLOCK FALSE
