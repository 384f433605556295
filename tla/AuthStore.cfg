SPECIFICATION FairSpec
CONSTANTS
    a = a
    b = b
    save = save
    remove = remove
    client = client
    clear = clear
    read = read
    f1 = f1
    f2 = f2
    s = s
    v = v
    Process = {a, b}
    Writer = {save, remove, client}
    Reader = {read}
    Fence = {f1, f2}
    McpServer = {s}
    Field = {"tokens", "clientInfo"}
    Value = {v}
    None = None
    Keep = Keep
    ProcOf <- MCProcOf
    ServerOf <- MCServerOf
    ChangeOf <- MCChangeOf
    FenceOf <- MCFenceOf
    HomeOf <- MCHomeOf
    ReadsFail = FALSE
CHECK_DEADLOCK FALSE
INVARIANTS
    TypeOK
PROPERTIES
    Atomic
    LateCallsChangeNothing
    CallsEnd
