SPECIFICATION FairSpec
CONSTANTS
    r1 = r1
    r2 = r2
    nothing = nothing
    degraded = degraded
    absurd = absurd
    Requests = {r1, r2}
    Fresh = 1
    Retention = 2
    CacheTime = 1
    FetchTime = 1
    Nothing = nothing
    Degraded = degraded
    Absurd = absurd
    CacheFails = TRUE
    MaxClock = 6
PROPERTIES FreshAge AnswerAge NeverFarBack AlwaysAnswers
