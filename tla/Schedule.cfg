SPECIFICATION Spec
CONSTANTS
    midnight = midnight
    early = early
    noon = noon
    late = late
    Trips = {midnight, early, noon, late}
    Departure <- MCDeparture
    Recurs <- MCRecurs
    DayLen = 24
    Lead = 12
    HourLen = 12
    MinuteLen = 60
    SchedulerSeconds = 300
    MaxDelay = 2
    MaxLost = 1
    MaxClock = 90
INVARIANT EveryDepartureSeen
PROPERTY SeenInTime
CHECK_DEADLOCK FALSE
