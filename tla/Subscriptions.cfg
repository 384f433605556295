SPECIFICATION Spec
CONSTANTS
    s1 = s1
    s2 = s2
    s3 = s3
    u1 = u1
    u2 = u2
    Subscribe = {s1, s2, s3}
    Unsubscribe = {u1, u2}
    MaxClient = 3
    None = None
INVARIANTS
    TypeOK
    RecordsAgree
    LiveIsKnown
SYMMETRY Symmetry
CHECK_DEADLOCK FALSE
