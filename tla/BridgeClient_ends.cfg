CONSTANTS
    r1 = r1  r2 = r2  c1 = c1  c2 = c2  k1 = k1
    Requests = {r1, r2}
    Listers = {r2}
    Calls = {c1}
    Declared = {c1}
    Closers = {k1}
    ToolMode = "harness"
    RpcFaults = FALSE
    None = None
SPECIFICATION FairSpec
INVARIANTS
    RunBySideOnce
PROPERTIES
    RequestsEnd
    CloseEnds
CHECK_DEADLOCK FALSE
