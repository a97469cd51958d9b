SPECIFICATION FairSpec
CONSTANTS
    None = None
    Clients = {c1, c2}
    Sites = {s1, s2}
    Home = s1
    RemoteIds = {r1, r2}
    OwnId = r1
    MaxUsage = 1
    MaxTemplates = 3
    MaxMoves = 1
INVARIANTS TypeOK UsageWithinReported UsageIsOwn
PROPERTIES GoesBackOnlyOvertaken RefreshEnds
CHECK_DEADLOCK FALSE
