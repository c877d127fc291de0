SPECIFICATION Spec
INVARIANTS
    TypeOK
    BusyIsApplying
    HookInPlace
    MachineryIsTemporary
    MainUsesWrapper
CHECK_DEADLOCK FALSE
