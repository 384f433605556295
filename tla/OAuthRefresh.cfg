SPECIFICATION FairSpec
CONSTANTS
    a = a
    b = b
    p1 = p1
    p2 = p2
    q = q
    f1 = f1
    f2 = f2
    g = g
    Process = {a, b}
    Provider = {p1, p2, q}
    Flow = {f1, f2, g}
    HomeOf <- MCHomeOf
    ProviderOf <- MCProviderOf
    None = None
    MaxToken = 2
INVARIANTS
    TypeOK
    NoReuse
    StoredIsUsable
PROPERTY
    LeaseIsReturned
