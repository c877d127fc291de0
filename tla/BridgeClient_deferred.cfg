CONSTANTS
    r1 = r1  r2 = r2  c1 = c1  c2 = c2  k1 = k1
    Requests = {r1}
    Listers = {}
    Calls = {c1, c2}
    Declared = {c1, c2}
    Closers = {}
    ToolMode = "loop"
    RpcFaults = FALSE
    None = None
SPECIFICATION Spec
INVARIANTS
    DeferredIsReturned
CHECK_DEADLOCK FALSE
