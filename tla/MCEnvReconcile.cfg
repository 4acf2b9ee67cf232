SPECIFICATION MCSpec
CONSTANTS
    Models = {m1}
    Servers = {s1, s2}
    Tagged = {s2}
    Humans = {t1, t2}
    EnvShell = envshell
    UserShell = usershell
    Guard = guard
    Specs <- MCSpecs
    MaxMoves = 2
    MaxGen = 2
    None = None
    Parts = {"env", "drafts", "reads", "signers", "mounted"}
INVARIANTS   NothingStaleIsRead SignaturesKnown
PROPERTIES WantedAccessNeverBlinks RowsChangeForCause WritesStop EventuallyAgree
CHECK_DEADLOCK FALSE
