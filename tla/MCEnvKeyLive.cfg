SPECIFICATION LiveSpec
CONSTANTS
    Mints = {m1}
    Ids = {k1}
    NoId = NoId
    FreshIds = TRUE
    MaxKeys = 2
    MintLimit = 0
    QueryLimit = 1
    AgeFloor = 1
    OtherKeys = FALSE
    MaxRevoke = 1
    DrainCap = 2
    None = None
    l1 = l1
    l2 = l2
    admin = admin
    t = t
    x = x
    u1 = u1
    u2 = u2
PROPERTY NothingLingers
CHECK_DEADLOCK FALSE
