----------------------------- MODULE DueWindow -----------------------------
(***************************************************************************)
(* The calendar arithmetic of app/services/notify.py: which trip alerts    *)
(* are due when a sweep looks at the clock, and which departure day such   *)
(* an alert refers to.  A moment is a number of clock units since the      *)
(* start of day 0, a Monday; a day has DayLen units.  A trip alert is read *)
(* as its local departure time and the ISO weekdays it recurs on.          *)
(***************************************************************************)
EXTENDS Integers

CONSTANTS DayLen,   \* clock units in one day
          Lead      \* settings.notify_lead_minutes, in clock units

\* The sweep splits its window into at most two parts, so the lead time has
\* to be shorter than a day (15 minutes in app/core/config.py).
ASSUME WindowAssumption == /\ DayLen \in Nat \ {0}
                           /\ Lead \in 0..(DayLen - 1)

Weekdays == 1..7
Times == 0..(DayLen - 1)

Day(t) == t \div DayLen          \* now.date()
TimeOfDay(t) == t % DayLen       \* now.time()
Weekday(day) == (day % 7) + 1    \* date.isoweekday()
Moment(day, dep) == day * DayLen + dep   \* datetime.combine(date, time)

-----------------------------------------------------------------------------

DueUnsplit(days, dep, now) ==
    /\ Weekday(Day(now)) \in days
    /\ TimeOfDay(now) <= dep /\ dep <= TimeOfDay(now + Lead)

\* The WHERE clause of due_trip_alerts: is an alert that departs at `dep' on
\* `days' selected by a sweep stamped `now'?
Due(days, dep, now) ==
    LET start == TimeOfDay(now)
        end   == TimeOfDay(now + Lead)
        today == Weekday(Day(now))
        tomorrow == Weekday(Day(now) + 1)
    IN  IF end < start
        THEN \/ today \in days /\ dep >= start
             \/ tomorrow \in days /\ dep <= end
        ELSE today \in days /\ start <= dep /\ dep <= end

DepartureDayToday(dep, now) == Day(now)

DepartureDayBefore(dep, now) ==
    IF dep < TimeOfDay(now) THEN Day(now) ELSE Day(now) - 1

\* _next_departure(alert, now).date(): today, or tomorrow once today's
\* departure time has gone by.
NextDepartureDay(dep, now) ==
    IF dep < TimeOfDay(now) THEN Day(now) + 1 ELSE Day(now)

-----------------------------------------------------------------------------

\* What the two functions are for, said without the case split: some moment
\* of the lead window is a departure of the alert on a day it recurs.
DepartsWithin(days, dep, now) ==
    \E t \in now..(now + Lead) : TimeOfDay(t) = dep /\ Weekday(Day(t)) \in days

=============================================================================
