SPECIFICATION MCSpec
CONSTANTS
    Specs = {p1, p2}
    MaxRev = 2
    Interval = 1
    MaxStale = 2
    FetchTime = 1
    MaxMoves = 2
    None = None
    Parts = {"content"}
PROPERTY SpecChangeLands
CHECK_DEADLOCK FALSE
