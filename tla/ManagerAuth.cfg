SPECIFICATION Spec
CONSTANTS
    l1 = l1
    l2 = l2
    c1 = c1
    Login = {l1, l2}
    Attempt = {c1}
    Old = Old
    None = None
    User = User
    Part <- Scenarios
INVARIANTS
    TypeOK
    UndisturbedLoginsKeepTheirGrant
    RemovedStaysRemoved
PROPERTY
    LoginsStoreOverNothing
SYMMETRY Symmetry
CHECK_DEADLOCK FALSE
