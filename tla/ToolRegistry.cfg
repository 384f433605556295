SPECIFICATION FairSpec
CONSTANTS
    Load = {start, r1}
    Start = start
    Config = {direct, eager, proxy}
    Proxied = {proxy}
    Eager = {eager}
    McpTool = {t1, t2}
    ProxyTool = mcp
CHECK_DEADLOCK FALSE
INVARIANTS
    TypeOK
    ActiveIsAccounted
    RegistryMatches
PROPERTIES
    RegistryCatchesUp
