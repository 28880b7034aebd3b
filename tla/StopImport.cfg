SPECIFICATION FairSpec
CONSTANTS
    nothing = nothing
    torn = torn
    none = none
    unplaced = unplaced
    Nothing = nothing
    Torn = torn
    NoParent = none
    NoPlace = unplaced
    Feeds <- MCFeeds
    RushWindows <- MCRushWindows
    Day = 48
    MaxRows = 2
INVARIANTS OutputIntact OffPeakOnly
PROPERTIES Idempotent ClosureEnds StopsArrive
