SPECIFICATION MCSpec
CONSTANTS
    NPlugins = 2
    MaxVer = 2
    Kinds <- BlockOnly
    Commands <- FullCommands
    Departures = FALSE
    Aborts = FALSE
    None = None
    User = User
    Parts = {"full"}
INVARIANT DriftIsAnEdit
CHECK_DEADLOCK FALSE
