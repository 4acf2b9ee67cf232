SPECIFICATION MCSpec
CONSTANTS
    Specs = {p1, p2}
    MaxRev = 3
    Interval = 1
    MaxStale = 2
    FetchTime = 1
    MaxMoves = 3
    None = None
    Parts = {"content", "marketplace", "fetchers"}
INVARIANTS RowNeverAheadOfFile NothingLeftBehind
PROPERTIES ServedRevisionRecent MirrorKept NewRevisionLands
CHECK_DEADLOCK FALSE
