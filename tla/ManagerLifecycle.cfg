SPECIFICATION FairSpec
CONSTANTS
    a = a
    b = b
    t1 = t1
    t2 = t2
    k1 = k1
    k2 = k2
    c1 = c1
    g1 = g1
    Server = {b}
    Remote = {}
    Modern = {}
    Tool = {t2}
    Key = {k1, k2}
    ToolKey <- MCToolKey
    Configs <- AnyConfig
    Sweep = {c1}
    Signal = {g1}
    NoSignal = NoSignal
    NotifyMayFail = TRUE
    MaxAttempts = 2
    MaxStarted <- Twice
    MaxRevision = 2
    MaxRefresh = 0
INVARIANTS
    TypeOK
    OneRegisteredAttempt
    DisconnectedStaysOut
    ClosedManagerHoldsNoClients
    StoredClientsAreCurrent
PROPERTIES
    KeepsClientMap
    SweepReturns
    AttemptsEnd
CHECK_DEADLOCK FALSE
