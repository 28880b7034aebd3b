SPECIFICATION Spec
CONSTANTS
    r1 = r1
    nothing = nothing
    Requests = {r1}
    Networks <- AllTrips
    Replies = {"plan", "unreachable", "null leg"}
    TTL = 2
    CacheTime = 1
    QueryTime = 1
    SnapTime = 1
    CacheFails = FALSE
    Nothing = nothing
    MaxClock = 3
PROPERTY FailureDegrades
