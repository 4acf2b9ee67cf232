SPECIFICATION MCSpec
CONSTANTS
    NPlugins = 2
    MaxVer = 2
    Kinds <- BlockOnly
    Commands <- FullCommands
    Departures = TRUE
    Aborts = TRUE
    None = None
    User = User
    Parts = {"full", "item", "shared", "projection", "delivery"}
ACTION_CONSTRAINT UpstreamMovesWhenRead
INVARIANTS LedgerHonest OneOwnerPerFile
PROPERTIES TrackedEditsKept OnlyTouchesItsItem 
CHECK_DEADLOCK FALSE
