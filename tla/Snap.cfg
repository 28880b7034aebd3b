SPECIFICATION FairSpec
CONSTANTS
    nobike = nobike
    NoBike = nobike
    Rings <- SmallRings
    Deadline = 2
CHECK_DEADLOCK FALSE
PROPERTIES ImplementsSearch Returns
