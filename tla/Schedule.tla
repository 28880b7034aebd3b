------------------------------ MODULE Schedule ------------------------------
(***************************************************************************)
(* When the worker of app/workers/main.py sweeps.  arq fires the cron job  *)
(* on a set of minutes of the hour derived from a setting in seconds; the  *)
(* job starts some time later and only then stamps `now', and a tick that  *)
(* comes round while the worker is down is not made up for.  The question  *)
(* is whether every departure of every trip is inside the lead window of   *)
(* some sweep.  The clock counts minutes.                                  *)
(***************************************************************************)
EXTENDS DueWindow, FiniteSets

CONSTANTS
    Trips,              \* trip_alerts rows, all there from the start
    Departure,          \* Departure[a]: departure_time
    Recurs,             \* Recurs[a]: days
    HourLen,            \* minutes in an hour
    MinuteLen,          \* seconds in a minute
    SchedulerSeconds,   \* settings.notify_scheduler_seconds
    MaxDelay,           \* minutes between a cron time and its job's stamp
    MaxLost,            \* ticks in a row that a worker outage may swallow
    MaxClock            \* bound: the last minute considered

\* _SWEEP_STEP_MINUTES = max(1, notify_scheduler_seconds // 60)
SweepStep == IF SchedulerSeconds \div MinuteLen < 1 THEN 1
             ELSE SchedulerSeconds \div MinuteLen

\* minute=set(range(0, 60, _SWEEP_STEP_MINUTES))
CronMinutes == {m \in 0..(HourLen - 1) : m % SweepStep = 0}

\* The longest wait from one cron time to the next: the step, or an hour when
\* only minute 0 is left in the set.
Gap == IF SweepStep <= HourLen THEN SweepStep ELSE HourLen

ASSUME ScheduleAssumption == /\ Departure \in [Trips -> Times]
                             /\ Recurs \in [Trips -> SUBSET Weekdays]
                             /\ HourLen \in Nat \ {0}
                             /\ MinuteLen \in Nat \ {0}
                             /\ SchedulerSeconds \in Nat
                             /\ MaxDelay \in Nat
                             /\ MaxLost \in Nat
                             /\ MaxClock \in Nat

\* What the settings have to satisfy; nothing in app/core/config.py checks it.
LeadCoversTicks == (MaxLost + 1) * Gap + MaxDelay <= Lead

VARIABLES clock,     \* minutes since the worker was first started
          fired,     \* has the cron time of this minute been dealt with?
          waiting,   \* cron times whose job has not started yet
          missed,    \* ticks lost since the last one that was queued
          seen       \* (trip, departure day) pairs some sweep found due

vars == <<clock, fired, waiting, missed, seen>>

Days == 0..(Day(MaxClock) + 1)

TypeOK == /\ clock \in 0..MaxClock
          /\ fired \in BOOLEAN
          /\ waiting \subseteq 0..MaxClock
          /\ missed \in 0..MaxLost
          /\ seen \subseteq Trips \X Days

Init == /\ clock = 0
        /\ fired = FALSE
        /\ waiting = {}
        /\ missed = 0
        /\ seen = {}

CronTime == (clock % HourLen) \in CronMinutes

\* arq puts the job of this cron time on its queue.
Fire == /\ CronTime
        /\ ~fired
        /\ fired' = TRUE
        /\ waiting' = waiting \cup {clock}
        /\ missed' = 0
        /\ UNCHANGED <<clock, seen>>

\* The worker is down at this cron time.
Lose == /\ CronTime
        /\ ~fired
        /\ missed < MaxLost
        /\ fired' = TRUE
        /\ missed' = missed + 1
        /\ UNCHANGED <<clock, waiting, seen>>

\* check_trip_alerts starts, stamps `now' and selects the due alerts.
Sweep(t) == /\ t \in waiting
            /\ waiting' = waiting \ {t}
            /\ seen' = seen \cup
                 {<<a, NextDepartureDay(Departure[a], clock)>> :
                     a \in {b \in Trips : Due(Recurs[b], Departure[b], clock)}}
            /\ UNCHANGED <<clock, fired, missed>>

Advance == /\ clock < MaxClock
           /\ CronTime => fired
           /\ \A t \in waiting : clock - t < MaxDelay
           /\ clock' = clock + 1
           /\ fired' = FALSE
           /\ UNCHANGED <<waiting, missed, seen>>

Next == Fire \/ Lose \/ Advance \/ \E t \in waiting : Sweep(t)

Spec == Init /\ [][Next]_vars

-----------------------------------------------------------------------------

\* No departure slips through between two sweeps, across midnight, across the
\* end of an hour that the step does not divide, or across an outage of
\* MaxLost ticks: by the time it is over it has been in some lead window.
EveryDepartureSeen ==
    LeadCoversTicks =>
        \A a \in Trips, d \in Days :
            /\ Weekday(d) \in Recurs[a]
            /\ Lead <= Moment(d, Departure[a])
            /\ Moment(d, Departure[a]) < clock
            => <<a, d>> \in seen

\* A sweep only picks a trip for a departure that still lies ahead, at most the
\* lead time ahead, on a day the trip recurs.
SeenInTime ==
    [][\A x \in seen' \ seen :
          /\ Weekday(x[2]) \in Recurs[x[1]]
          /\ clock <= Moment(x[2], Departure[x[1]])
          /\ Moment(x[2], Departure[x[1]]) <= clock + Lead]_vars
-----------------------------------------------------------------------------
(* Why no departure is missed.                                             *)

\* The cron time of this minute, or the last one before it.
LastCron == clock - ((clock % HourLen) % SweepStep)

Pending(t, m) == t + MaxDelay <= m /\ m <= t + Lead

\* Every departure up to h was found, or will be by a job that is waiting.
CoveredTo(h) ==
    \A a \in Trips, d \in Days :
        LET m == Moment(d, Departure[a])
        IN  Weekday(d) \in Recurs[a] /\ Lead <= m /\ m <= h
                => <<a, d>> \in seen \/ \E t \in waiting : Pending(t, m)

WaitInv == \A t \in waiting : t <= clock /\ clock - t <= MaxDelay

\* Ticks that came round since the last one that was queued.
Skipped == IF fired \/ ~ CronTime THEN missed ELSE missed + 1

\* There is a tick, the last one queued, up to whose lead window all departures are
\* covered, and it is no further back than the ticks that were lost.
CoverInv == LeadCoversTicks =>
                \E q \in (-Gap)..clock : LastCron - q <= Skipped * Gap /\ CoveredTo(q + Lead)
=============================================================================
