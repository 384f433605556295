SPECIFICATION Spec
CONSTANTS
    a = a
    b = b
    t1 = t1
    t2 = t2
    k1 = k1
    k2 = k2
    c1 = c1
    g1 = g1
    Server = {a, b}
    Remote = {a}
    Modern = {b}
    Tool = {t2}
    Key = {k1, k2}
    ToolKey <- MCToolKey
    Configs <- BothOn
    Sweep = {}
    Signal = {}
    NoSignal = NoSignal
    NotifyMayFail = FALSE
    MaxAttempts = 2
    MaxStarted <- OnceForA
    MaxRevision = 1
    MaxRefresh = 1
INVARIANTS
    NoToolKeyCollision
    LiveClientsAreOwned
CHECK_DEADLOCK FALSE
