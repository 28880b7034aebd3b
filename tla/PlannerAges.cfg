SPECIFICATION FairSpec
CONSTANTS
    r1 = r1
    nothing = nothing
    Requests = {r1}
    Networks <- AllTrips
    Replies = {"plan", "unreachable", "null leg"}
    TTL = 1
    CacheTime = 1
    QueryTime = 1
    SnapTime = 1
    CacheFails = TRUE
    Nothing = nothing
    MaxClock = 7
INVARIANT PlanInv
PROPERTIES PlanAge FlawsFade EmptyNotPinned AlwaysAnswers
