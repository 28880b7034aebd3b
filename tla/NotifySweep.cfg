SPECIFICATION FairSpec
CONSTANTS
    owl = owl
    lark = lark
    both = both
    j1 = j1
    j2 = j2
    redeliver = redeliver
    nobody = nobody
    DayLen = 3
    Lead = 1
    Jobs = {j1}
    Alerts = {owl, lark}
    Departure <- MCDeparture
    Recurs <- MCRecurs
    Permits = 2
    RetryLimit = 1
    Redeliver = redeliver
    Nobody = nobody
    MaxClock = 3
    MaxFaults = 1
INVARIANTS IInv SessionExclusive RightDay NoStaleDay DuplicateNeedsCause AbortNeedsCause
PROPERTIES Durable RecordedIsDelivered TickEnds
