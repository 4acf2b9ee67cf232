SPECIFICATION MCSpec
CONSTANTS
    Models = {m1}
    Servers = {s1, s2}
    Tagged = {s2}
    Humans = {t1, t2}
    EnvShell = envshell
    UserShell = usershell
    Guard = guard
    Specs <- MCSpecs
    MaxMoves = 2
    MaxGen = 2
    None = None
    Parts = {"reader", "watch", "grants", "connection", "policies"}
INVARIANTS NothingStaleIsHeld ExchangeKeysGoverned
PROPERTIES ImplementsStaleView EventuallyAgree
CHECK_DEADLOCK FALSE
