SPECIFICATION MCSpec
CONSTANTS
    Handlers = {p1, p2}
    Sids = {s1}
    NoSid = NoSid
    RefreshTTL = 2
    RotatingTTL = 1
    MaxGen = 1
    None = None
    b1 = b1
    b2 = b2
    laptop = laptop
    f1 = f1
    f2 = f2
    tv = tv
    l1 = l1
    l2 = l2
SYMMETRY Symmetry
CONSTRAINT Bounds
INVARIANTS EndedStaysEnded EndNotUndone RedeemedByTheStarter
PROPERTY VerifiersTellTheTruth
CHECK_DEADLOCK FALSE
