SPECIFICATION Spec
CONSTANTS
    f1 = f1
    f2 = f2
    f3 = f3
    f4 = f4
    s1 = s1
    s2 = s2
    p1 = p1
    p2 = p2
    Flow = {f1, f2, f3, f4}
    McpServer = {s1, s2}
    State = {f1, f2, f3}
    Address = {p1, p2}
    Port = {p1, p2}
    Path <- MCPath
    ServerOf <- MCServerOf
    StateOf <- MCStateOf
    AddressOf <- MCAddressOf
    PortOf <- MCPortOf
    PathOf <- MCPathOf
    Closer = {c1}
    c1 = c1
    None = None
CHECK_DEADLOCK FALSE
INVARIANTS
    TypeOK
    PendingFlowsWait
    WaitIsPending
    WaitHasListener
    CancelFindsWait
