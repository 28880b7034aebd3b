SPECIFICATION Spec
CONSTANTS
    r1 = r1
    r2 = r2
    ann = ann
    bob = bob
    nobody = nobody
    noValue = noValue
    Requests = {r1, r2}
    Callers = {r1, r2}
    People = {ann, bob}
    Spellings = {"ann@x", "Ann@x"}
    Canonical <- Lower
    Nobody = nobody
    MaxUsers = 2
    Values = {"dam", "Dam", "oost", "west", "52,4", "nowhere"}
    Coordinates = {"52,4"}
    Key <- Lower
    Known = {"dam", "oost", "west"}
    MaxEntries = 2
    NoValue = noValue
    Trips <- MCTrips
    MaxAlerts = 1
SYMMETRY PeopleRequests
INVARIANTS OwnAccountOnly OneAccount NoOrphans
PROPERTIES OnlyOwnerRemoves CacheMovesOn
