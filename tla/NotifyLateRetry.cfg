SPECIFICATION Spec
CONSTANTS
    owl = owl
    lark = lark
    both = both
    j1 = j1
    j2 = j2
    redeliver = redeliver
    nobody = nobody
    DayLen = 3
    Lead = 1
    Jobs = {j1}
    Alerts = {lark, both}
    Departure <- MCDeparture
    Recurs <- MCRecurs
    Permits = 2
    RetryLimit = 1
    Redeliver = redeliver
    Nobody = nobody
    MaxClock = 4
    MaxFaults = 0
INVARIANT NoLateRetry
