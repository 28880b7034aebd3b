--------------------------- MODULE ScheduleProofs ---------------------------
(***************************************************************************)
(* Proofs about the sweep schedule for any settings, delays and outages.   *)
(* First the lead-window arithmetic: a sweep selects exactly the alerts    *)
(* that depart within the window, and files them under the day they really *)
(* depart.  Then the schedule: no departure is picked too late, and none   *)
(* slips through between two sweeps.                                       *)
(***************************************************************************)
EXTENDS Schedule, TLAPS

\* A moment is its day and its time of day.
LEMMA Split ==
    ASSUME NEW t \in Nat
    PROVE  /\ Day(t) \in Nat
           /\ TimeOfDay(t) \in Times
           /\ t = Moment(Day(t), TimeOfDay(t))
  BY WindowAssumption, SMTT(30) DEF Day, TimeOfDay, Moment, Times

\* A later day starts at least a whole day later.
LEMMA LaterDay ==
    ASSUME NEW d \in Nat, NEW e \in Nat, d < e
    PROVE  d * DayLen + DayLen <= e * DayLen
<1> DEFINE gap == e - d - 1
<1>1. gap \in Nat /\ e = d + 1 + gap
  OBVIOUS
<1>2. gap * DayLen \in Nat
  BY <1>1, WindowAssumption
<1>3. (d + 1 + gap) * DayLen = d * DayLen + DayLen + gap * DayLen
  BY <1>1, WindowAssumption
<1>4. d * DayLen \in Nat
  BY WindowAssumption
<1> HIDE DEF gap
<1> QED
  BY <1>1, <1>2, <1>3, <1>4, WindowAssumption

\* No two pairs of a day and a time of day are the same moment.
LEMMA Unique ==
    ASSUME NEW d \in Nat, NEW e \in Nat, NEW r \in Times, NEW s \in Times,
           Moment(d, r) = Moment(e, s)
    PROVE  d = e /\ r = s
<1> USE WindowAssumption DEF Times, Moment
<1>1. d * DayLen \in Nat /\ e * DayLen \in Nat
  OBVIOUS
<1>2. CASE d < e
  BY <1>1, <1>2, LaterDay
<1>3. CASE e < d
  BY <1>1, <1>3, LaterDay
<1>4. CASE d = e
  BY <1>1, <1>4
<1> QED
  BY <1>2, <1>3, <1>4

\* Splitting a moment gives back the day and the time it was built from.
LEMMA Join ==
    ASSUME NEW d \in Nat, NEW s \in Times
    PROVE  /\ Moment(d, s) \in Nat
           /\ Day(Moment(d, s)) = d
           /\ TimeOfDay(Moment(d, s)) = s
<1>1. Moment(d, s) \in Nat
  BY WindowAssumption DEF Moment, Times
<1> QED
  BY <1>1, Split, Unique

\* Later moments are on the same day or on a later one.
LEMMA DayMonotonic ==
    ASSUME NEW t \in Nat, NEW u \in Nat, t <= u
    PROVE  Day(t) <= Day(u)
<1> DEFINE d == Day(t)
           e == Day(u)
           r == TimeOfDay(t)
           s == TimeOfDay(u)
<1>1. /\ d \in Nat /\ r \in Times /\ t = d * DayLen + r
      /\ e \in Nat /\ s \in Times /\ u = e * DayLen + s
  BY Split DEF Moment
<1>2. e < d => e * DayLen + DayLen <= d * DayLen
  BY <1>1, LaterDay
<1>3. d * DayLen \in Nat /\ e * DayLen \in Nat
  BY <1>1, WindowAssumption
<1> HIDE DEF d, e, r, s
<1>4. d <= e
  BY <1>1, <1>2, <1>3, WindowAssumption DEF Times
<1> QED
  BY <1>4 DEF d, e

\* The end of the lead window: the same day, or the early part of the next.
LEMMA WindowEnd ==
    ASSUME NEW now \in Nat
    PROVE  \/ /\ TimeOfDay(now) + Lead < DayLen
              /\ Day(now + Lead) = Day(now)
              /\ TimeOfDay(now + Lead) = TimeOfDay(now) + Lead
           \/ /\ TimeOfDay(now) + Lead >= DayLen
              /\ Day(now + Lead) = Day(now) + 1
              /\ TimeOfDay(now + Lead) = TimeOfDay(now) + Lead - DayLen
<1> DEFINE d == Day(now)
           s == TimeOfDay(now)
<1>1. d \in Nat /\ s \in Times /\ now = Moment(d, s)
  BY Split
<1>2. d * DayLen \in Nat /\ (d + 1) * DayLen = d * DayLen + DayLen
  BY <1>1, WindowAssumption
<1> HIDE DEF d, s
<1>3. CASE s + Lead < DayLen
  <2>1. s + Lead \in Times /\ now + Lead = Moment(d, s + Lead)
    BY <1>1, <1>2, <1>3, WindowAssumption DEF Times, Moment
  <2> QED
    BY <1>1, <1>3, <2>1, Join DEF d, s
<1>4. CASE s + Lead >= DayLen
  <2>1. s + Lead - DayLen \in Times /\ now + Lead = Moment(d + 1, s + Lead - DayLen)
    BY <1>1, <1>2, <1>4, WindowAssumption DEF Times, Moment
  <2> QED
    BY <1>1, <1>4, <2>1, Join DEF d, s
<1> QED
  BY <1>1, <1>3, <1>4, WindowAssumption DEF d, s, Times

-----------------------------------------------------------------------------

\* An alert that is selected departs on the day it is filed under, on a day it
\* recurs, and inside the lead window: no Monday-only alert fires for Sunday
\* night, and none for a departure 23h50m in the past (due_trip_alerts,
\* _next_departure).
THEOREM DueDeparture ==
    ASSUME NEW days, NEW dep \in Times, NEW now \in Nat, Due(days, dep, now)
    PROVE  LET day == NextDepartureDay(dep, now)
           IN  /\ Weekday(day) \in days
               /\ now <= Moment(day, dep)
               /\ Moment(day, dep) <= now + Lead
<1> DEFINE d == Day(now)
           s == TimeOfDay(now)
           w == Weekday(d)
           v == Weekday(d + 1)
<1>1. d \in Nat /\ s \in Times /\ now = Moment(d, s)
  BY Split
<1>2. d * DayLen \in Nat /\ (d + 1) * DayLen = d * DayLen + DayLen
  BY <1>1, WindowAssumption
<1>3. NextDepartureDay(dep, now) = IF dep < s THEN d + 1 ELSE d
  BY DEF NextDepartureDay
<1>4. CASE s + Lead < DayLen
  <2>1. w \in days /\ s <= dep /\ dep <= s + Lead
    BY <1>1, <1>4, WindowEnd, WindowAssumption DEF Due, Times
  <2> HIDE DEF d, s, w
  <2> QED
    BY <1>1, <1>2, <1>3, <2>1, WindowAssumption DEF w, Times, Moment
<1>5. CASE s + Lead >= DayLen
  <2>1. \/ w \in days /\ dep >= s
        \/ v \in days /\ dep <= s + Lead - DayLen
    BY <1>1, <1>5, WindowEnd, WindowAssumption DEF Due, Times
  <2> HIDE DEF d, s, w, v
  <2> QED
    BY <1>1, <1>2, <1>3, <1>5, <2>1, WindowAssumption DEF w, v, Times, Moment
<1> QED
  BY <1>1, <1>4, <1>5, WindowAssumption DEF Times

\* due_trip_alerts selects an alert exactly when some moment of the lead window
\* is one of its departures, midnight or not.
THEOREM DueIsDepartsWithin ==
    ASSUME NEW days, NEW dep \in Times, NEW now \in Nat
    PROVE  Due(days, dep, now) <=> DepartsWithin(days, dep, now)
<1> DEFINE d == Day(now)
           s == TimeOfDay(now)
           w == Weekday(d)
           v == Weekday(d + 1)
<1>1. d \in Nat /\ s \in Times /\ now = Moment(d, s)
  BY Split
<1>2. d * DayLen \in Nat /\ (d + 1) * DayLen = d * DayLen + DayLen
  BY <1>1, WindowAssumption
<1>3. ASSUME Due(days, dep, now)
      PROVE  DepartsWithin(days, dep, now)
  <2> DEFINE day == NextDepartureDay(dep, now)
             t == Moment(day, dep)
  <2>1. day \in Nat /\ Weekday(day) \in days /\ now <= t /\ t <= now + Lead
    BY <1>1, <1>3, DueDeparture DEF NextDepartureDay
  <2>2. t \in Nat /\ Day(t) = day /\ TimeOfDay(t) = dep
    BY <2>1, Join
  <2>3. t \in now..(now + Lead)
    BY <2>1, <2>2, WindowAssumption
  <2> QED
    BY <2>1, <2>2, <2>3 DEF DepartsWithin
<1>4. ASSUME DepartsWithin(days, dep, now)
      PROVE  Due(days, dep, now)
  <2>1. PICK t \in now..(now + Lead) : TimeOfDay(t) = dep /\ Weekday(Day(t)) \in days
    BY <1>4 DEF DepartsWithin
  <2>2. t \in Nat
    BY WindowAssumption
  <2>3. PICK l \in 0..Lead : t = now + l
    <3>1. t - now \in 0..Lead /\ t = now + (t - now)
      BY WindowAssumption
    <3> QED
      BY <3>1
  <2>4. \/ s + l < DayLen /\ Day(t) = d /\ dep = s + l
        \/ s + l >= DayLen /\ Day(t) = d + 1 /\ dep = s + l - DayLen
    <3> HIDE DEF d, s, w, v
    <3>1. CASE s + l < DayLen
      <4>1. s + l \in Times /\ t = Moment(d, s + l)
        BY <1>1, <1>2, <2>3, <3>1, WindowAssumption DEF Times, Moment
      <4> QED
        BY <1>1, <2>1, <3>1, <4>1, Join
    <3>2. CASE s + l >= DayLen
      <4>1. s + l - DayLen \in Times /\ t = Moment(d + 1, s + l - DayLen)
        BY <1>1, <1>2, <2>3, <3>2, WindowAssumption DEF Times, Moment
      <4> QED
        BY <1>1, <2>1, <3>2, <4>1, Join
    <3> QED
      BY <1>1, <3>1, <3>2, WindowAssumption DEF Times
  <2>5. CASE s + Lead < DayLen
    <3>1. w \in days /\ s <= dep /\ dep <= s + Lead
      <4> HIDE DEF d, s
      <4> QED
        BY <1>1, <2>1, <2>3, <2>4, <2>5, WindowAssumption DEF Times
    <3> QED
      BY <1>1, <2>5, <3>1, WindowEnd, WindowAssumption DEF Due, Times
  <2>6. CASE s + Lead >= DayLen
    <3>1. \/ w \in days /\ dep >= s
          \/ v \in days /\ dep <= s + Lead - DayLen
      <4> HIDE DEF d, s
      <4> QED
        BY <1>1, <2>1, <2>3, <2>4, <2>6, WindowAssumption DEF Times
    <3> QED
      BY <1>1, <2>6, <3>1, WindowEnd, WindowAssumption DEF Due, Times
  <2> QED
    BY <1>1, <2>5, <2>6, WindowAssumption DEF Times
<1> QED
  BY <1>3, <1>4

-----------------------------------------------------------------------------

\* A sweep at moment `clock' of the model files trips under days of the model.
LEMMA SweepDays ==
    ASSUME TypeOK, NEW a \in Trips
    PROVE  NextDepartureDay(Departure[a], clock) \in Days
<1>1. clock \in Nat /\ clock <= MaxClock /\ MaxClock \in Nat
  BY ScheduleAssumption DEF TypeOK
<1>2. Day(clock) \in Nat /\ Day(clock) <= Day(MaxClock) /\ Day(MaxClock) \in Nat
  BY <1>1, DayMonotonic, Split
<1> QED
  BY <1>2 DEF NextDepartureDay, Days

\* Every variable keeps its type.
THEOREM ScheduleTyped == Spec => []TypeOK
<1>1. Init => TypeOK
  <2>1. 0 \in 0..MaxClock /\ 0 \in 0..MaxLost
    BY ScheduleAssumption
  <2> QED
    BY <2>1 DEF Init, TypeOK
<1>2. TypeOK /\ [Next]_vars => TypeOK'
  <2> SUFFICES ASSUME TypeOK, [Next]_vars
               PROVE  TypeOK'
    OBVIOUS
  <2>1. CASE Fire
    BY <2>1, ScheduleAssumption DEF Fire, TypeOK
  <2>2. CASE Lose
    BY <2>2, ScheduleAssumption DEF Lose, TypeOK
  <2>3. CASE Advance
    <3>1. clock' \in 0..MaxClock
      BY <2>3, ScheduleAssumption DEF Advance, TypeOK
    <3> QED
      BY <2>3, <3>1 DEF Advance, TypeOK
  <2>4. ASSUME NEW t \in waiting, Sweep(t) PROVE TypeOK'
    BY <2>4, SweepDays DEF Sweep, TypeOK
  <2>5. CASE UNCHANGED vars
    BY <2>5 DEF vars, TypeOK
  <2> QED
    BY <2>1, <2>2, <2>3, <2>4, <2>5 DEF Next
<1> QED
  BY <1>1, <1>2, PTL DEF Spec

\* No sweep, whatever its delay, picks a trip for a departure that is over, or
\* further ahead than the lead time, or on a day the trip does not recur.
THEOREM PicksInTime == Spec => SeenInTime
<1>1. TypeOK /\ [Next]_vars =>
        [\A x \in seen' \ seen :
            /\ Weekday(x[2]) \in Recurs[x[1]]
            /\ clock <= Moment(x[2], Departure[x[1]])
            /\ Moment(x[2], Departure[x[1]]) <= clock + Lead]_vars
  <2> SUFFICES ASSUME TypeOK, [Next]_vars, NEW x \in seen' \ seen
               PROVE  /\ Weekday(x[2]) \in Recurs[x[1]]
                      /\ clock <= Moment(x[2], Departure[x[1]])
                      /\ Moment(x[2], Departure[x[1]]) <= clock + Lead
    OBVIOUS
  <2>1. PICK t \in waiting : Sweep(t)
    BY DEF Next, Fire, Lose, Advance, vars
  <2>2. PICK a \in Trips : /\ Due(Recurs[a], Departure[a], clock)
                           /\ x = <<a, NextDepartureDay(Departure[a], clock)>>
    BY <2>1 DEF Sweep
  <2>3. Departure[a] \in Times /\ clock \in Nat
    BY ScheduleAssumption DEF TypeOK
  <2> QED
    BY <2>2, <2>3, DueDeparture
<1> QED
  BY <1>1, ScheduleTyped, PTL DEF Spec, SeenInTime

-----------------------------------------------------------------------------
(* Cron minutes (workers/main.py's _SWEEP_MINUTES).                        *)

\* A remainder counts up or starts again.
LEMMA NextRemainder ==
    ASSUME NEW n \in Nat \ {0}, NEW c \in Nat
    PROVE  (c + 1) % n = 0 \/ (c + 1) % n = (c % n) + 1
<1> DEFINE q == c \div n
           r == c % n
           x == (c + 1) \div n
           y == (c + 1) % n
<1>1. q \in Nat /\ r \in 0..(n - 1) /\ c = n * q + r
  BY SMTT(30)
<1>2. x \in Nat /\ y \in 0..(n - 1) /\ c + 1 = n * x + y
  BY SMTT(30)
<1> HIDE DEF q, r, x, y
<1>3. n * q + r + 1 = n * x + y
  BY <1>1, <1>2
<1>4. CASE x = q
  BY <1>1, <1>2, <1>3, <1>4 DEF r, y
<1>5. CASE x < q
  <2>1. PICK g \in Nat : q = x + 1 + g
    <3>1. q - x - 1 \in Nat /\ q = x + 1 + (q - x - 1)
      BY <1>1, <1>2, <1>5
    <3> QED  BY <3>1
  <2>2. n * q = n * x + n + n * g /\ n * g \in Nat /\ n * x \in Nat
    BY <1>1, <1>2, <2>1, SMTT(30)
  <2> QED  BY <1>1, <1>2, <1>3, <2>2
<1>6. CASE q < x
  <2>1. PICK g \in Nat : x = q + 1 + g
    <3>1. x - q - 1 \in Nat /\ x = q + 1 + (x - q - 1)
      BY <1>1, <1>2, <1>6
    <3> QED  BY <3>1
  <2>2. n * x = n * q + n + n * g /\ n * g \in Nat /\ n * q \in Nat
    BY <1>1, <1>2, <2>1, SMTT(30)
  <2>3. y = 0
    BY <1>1, <1>2, <1>3, <2>2
  <2> QED  BY <2>3 DEF y
<1> QED
  BY <1>1, <1>2, <1>4, <1>5, <1>6

\* The settings give a step and a gap of at least a minute.
LEMMA StepTyped ==
    /\ SweepStep \in Nat \ {0} /\ Gap \in Nat \ {0}
    /\ Gap <= SweepStep /\ Gap <= HourLen
    /\ HourLen \in Nat \ {0} /\ MaxDelay \in Nat /\ MaxLost \in Nat
<1>1. SchedulerSeconds \div MinuteLen \in Int
  BY ScheduleAssumption
<1> QED
  BY <1>1, ScheduleAssumption DEF SweepStep, Gap

Since(c) == (c % HourLen) % SweepStep

\* It is never a whole gap since the last cron time, and none at a cron time.
LEMMA SinceTyped ==
    ASSUME NEW c \in Nat
    PROVE  /\ Since(c) \in 0..(Gap - 1)
           /\ Since(c) <= c
           /\ Since(c) = 0 <=> (c % HourLen) \in CronMinutes
<1>1. c % HourLen \in 0..(HourLen - 1) /\ c % HourLen <= c
  BY StepTyped, SMTT(30)
<1>2. /\ (c % HourLen) % SweepStep \in 0..(SweepStep - 1)
      /\ (c % HourLen) % SweepStep <= c % HourLen
  <2> DEFINE m == c % HourLen
  <2>1. m \in Nat
    BY <1>1, StepTyped
  <2> HIDE DEF m
  <2>2. m % SweepStep \in 0..(SweepStep - 1) /\ m % SweepStep <= m
    BY <2>1, StepTyped, SMTT(30)
  <2> QED  BY <2>2 DEF m
<1>3. Gap = SweepStep \/ Gap = HourLen
  BY DEF Gap
<1> QED
  BY <1>1, <1>2, <1>3, StepTyped DEF Since, CronMinutes

\* The next minute is a cron time, or one minute further from the last one.
LEMMA NextSince ==
    ASSUME NEW c \in Nat
    PROVE  Since(c + 1) = 0 \/ Since(c + 1) = Since(c) + 1
<1>1. (c + 1) % HourLen = 0 \/ (c + 1) % HourLen = (c % HourLen) + 1
  BY NextRemainder, StepTyped
<1>2. c % HourLen \in Nat
  BY StepTyped, SMTT(30)
<1>3. CASE (c + 1) % HourLen = 0
  <2>1. 0 % SweepStep = 0
    BY StepTyped, SMTT(30)
  <2> QED  BY <1>3, <2>1 DEF Since
<1>4. CASE (c + 1) % HourLen = (c % HourLen) + 1
  BY <1>2, <1>4, NextRemainder, StepTyped DEF Since
<1> QED
  BY <1>1, <1>3, <1>4

-----------------------------------------------------------------------------
(* No departure slips through.                                             *)

\* A sweep files a departure inside its window under the day of that departure.
LEMMA FiledUnderItsDay ==
    ASSUME NEW days, NEW dep \in Times, NEW now \in Nat, NEW d \in Nat,
           Weekday(d) \in days, now <= Moment(d, dep), Moment(d, dep) <= now + Lead
    PROVE  Due(days, dep, now) /\ NextDepartureDay(dep, now) = d
<1> DEFINE m == Moment(d, dep)
           e == NextDepartureDay(dep, now)
<1>1. m \in Nat /\ Day(m) = d /\ TimeOfDay(m) = dep
  BY Join
<1>2. m \in now..(now + Lead)
  BY <1>1, WindowAssumption
<1>3. Due(days, dep, now)
  BY <1>1, <1>2, DueIsDepartsWithin DEF DepartsWithin
<1>4. now <= Moment(e, dep) /\ Moment(e, dep) <= now + Lead
  BY <1>3, DueDeparture
<1>5. e \in Nat
  BY Split DEF NextDepartureDay
<1>6. d * DayLen \in Nat /\ e * DayLen \in Nat
  BY <1>5, WindowAssumption
<1> HIDE DEF e
<1>7. ~ (d < e) /\ ~ (e < d)
  BY <1>2, <1>4, <1>5, <1>6, LaterDay, WindowAssumption DEF Moment, Times
<1>8. d = e
  BY <1>5, <1>7
<1> QED
  BY <1>3, <1>8 DEF e

\* Gaps add up.
LEMMA Gaps ==
    ASSUME NEW k \in Nat, NEW n \in Nat, k <= n
    PROVE  /\ k * Gap \in Nat /\ n * Gap \in Nat
           /\ (k + 1) * Gap = k * Gap + Gap
           /\ k * Gap <= n * Gap
<1>1. PICK g \in Nat : n = k + g
  <2>1. n - k \in Nat /\ n = k + (n - k)
    OBVIOUS
  <2> QED  BY <2>1
<1>2. k * Gap \in Nat /\ g * Gap \in Nat
  BY StepTyped
<1>3. (k + g) * Gap = k * Gap + g * Gap /\ (k + 1) * Gap = k * Gap + Gap
  BY StepTyped
<1> QED
  BY <1>1, <1>2, <1>3

\* What the definitions say of the last cron time.
LEMMA LastCronTyped ==
    ASSUME clock \in Nat
    PROVE  /\ LastCron \in Nat /\ LastCron <= clock /\ clock - LastCron < Gap
           /\ LastCron = clock - Since(clock)
           /\ CronTime <=> LastCron = clock
<1>1. LastCron = clock - Since(clock)
  BY DEF LastCron, Since
<1>2. Since(clock) \in 0..(Gap - 1) /\ Since(clock) <= clock
      /\ (Since(clock) = 0 <=> CronTime)
  BY SinceTyped DEF CronTime
<1>3. LastCron \in Nat /\ LastCron <= clock /\ clock - LastCron < Gap
  BY <1>1, <1>2, StepTyped
<1>4. CronTime <=> LastCron = clock
  BY <1>1, <1>2, StepTyped
<1> QED
  BY <1>1, <1>3, <1>4

\* A departure is a moment.
LEMMA DepartureTyped ==
    ASSUME NEW a \in Trips, NEW d \in Days
    PROVE  d \in Nat /\ Departure[a] \in Times /\ Moment(d, Departure[a]) \in Nat
<1>1. d \in Nat
  BY DEF Days
<1> QED
  BY <1>1, Join, ScheduleAssumption

\* Nothing is lost while jobs wait and what was seen stays.
LEMMA CoverageStays ==
    ASSUME NEW h, CoveredTo(h), waiting \subseteq waiting', seen \subseteq seen'
    PROVE  CoveredTo(h)'
  BY DEF CoveredTo

\* At the start nothing that leaves later than the lead time is behind (worker start).
LEMMA CoverInit == Init => WaitInv /\ CoverInv
<1> SUFFICES ASSUME Init, LeadCoversTicks
             PROVE  \E q \in (-Gap)..clock : LastCron - q <= Skipped * Gap /\ CoveredTo(q + Lead)
  BY DEF Init, WaitInv, CoverInv
<1>1. clock = 0 /\ LastCron = 0 /\ CronTime /\ Skipped = 1
  BY LastCronTyped DEF Init, Skipped
<1>2. -Gap \in (-Gap)..clock /\ LastCron - (-Gap) <= Skipped * Gap
  BY <1>1, StepTyped
<1>3. CoveredTo(-Gap + Lead)
  <2> SUFFICES ASSUME NEW a \in Trips, NEW d \in Days,
                      Lead <= Moment(d, Departure[a]), Moment(d, Departure[a]) <= -Gap + Lead
               PROVE  FALSE
    BY DEF CoveredTo
  <2> QED  BY DepartureTyped, StepTyped, WindowAssumption
<1> QED
  BY <1>2, <1>3

\* Jobs only wait for as long as a start may be delayed.
LEMMA WaitStep == TypeOK /\ WaitInv /\ [Next]_vars => WaitInv'
<1> SUFFICES ASSUME TypeOK, WaitInv, [Next]_vars PROVE WaitInv'
  OBVIOUS
<1> USE StepTyped, ScheduleAssumption DEF WaitInv
<1>1. CASE Fire
  BY <1>1 DEF Fire, TypeOK
<1>2. CASE Lose
  BY <1>2 DEF Lose
<1>3. CASE Advance
  <2>1. ASSUME NEW t \in waiting PROVE t <= clock' /\ clock' - t <= MaxDelay
    BY <1>3 DEF Advance, TypeOK
  <2> QED  BY <1>3, <2>1 DEF Advance
<1>4. ASSUME NEW t \in waiting, Sweep(t) PROVE WaitInv'
  BY <1>4 DEF Sweep
<1>5. CASE UNCHANGED vars
  BY <1>5 DEF vars
<1> QED
  BY <1>1, <1>2, <1>3, <1>4, <1>5 DEF Next

\* A new tick takes over where the window of the last one ends (arq's cron job).
LEMMA FireCovers ==
    ASSUME TypeOK, CoverInv, LeadCoversTicks, Fire
    PROVE  CoverInv'
<1> USE StepTyped, WindowAssumption
<1>1. PICK q \in (-Gap)..clock : LastCron - q <= Skipped * Gap /\ CoveredTo(q + Lead)
  BY DEF CoverInv
<1>2. /\ clock \in Nat /\ missed \in Nat /\ missed <= MaxLost /\ LastCron = clock
      /\ Skipped = missed + 1
  BY ScheduleAssumption, LastCronTyped DEF TypeOK, Fire, Skipped
<1>3. clock - q + MaxDelay <= Lead
  <2>1. missed + 1 <= MaxLost + 1 /\ missed + 1 \in Nat /\ MaxLost + 1 \in Nat
    BY <1>2
  <2>2. (missed + 1) * Gap <= (MaxLost + 1) * Gap /\ (MaxLost + 1) * Gap \in Nat
        /\ (missed + 1) * Gap \in Nat
    BY <2>1, Gaps
  <2> QED  BY <1>1, <1>2, <2>2 DEF LeadCoversTicks
<1>4. CoveredTo(clock + Lead)'
  <2> SUFFICES ASSUME NEW a \in Trips, NEW d \in Days,
                      Weekday(d) \in Recurs[a], Lead <= Moment(d, Departure[a]),
                      Moment(d, Departure[a]) <= clock + Lead
               PROVE  \/ <<a, d>> \in seen'
                      \/ \E t \in waiting' : Pending(t, Moment(d, Departure[a]))
    BY DEF CoveredTo, Fire
  <2> DEFINE m == Moment(d, Departure[a])
  <2>1. m \in Nat
    BY DepartureTyped
  <2>2. CASE m <= q + Lead
    BY <1>1, <2>2 DEF CoveredTo, Fire
  <2>3. CASE m > q + Lead
    <3>1. clock + MaxDelay <= m /\ m <= clock + Lead
      BY <1>1, <1>2, <1>3, <2>1, <2>3
    <3> QED  BY <3>1 DEF Pending, Fire
  <2> HIDE DEF m
  <2>4. m <= q + Lead \/ m > q + Lead
    BY <1>1, <2>1
  <2> QED  BY <2>2, <2>3, <2>4
<1>5. LastCron' = clock /\ clock' = clock /\ Skipped' = 0
  BY <1>2 DEF LastCron, Skipped, Fire
<1>6. clock \in (-Gap)..clock /\ clock - clock <= 0 * Gap
  BY <1>2
<1> QED
  BY <1>4, <1>5, <1>6 DEF CoverInv

\* A lost tick is a gap more to make up for.
LEMMA LoseCovers ==
    ASSUME TypeOK, CoverInv, LeadCoversTicks, Lose
    PROVE  CoverInv'
<1>1. PICK q \in (-Gap)..clock : LastCron - q <= Skipped * Gap /\ CoveredTo(q + Lead)
  BY DEF CoverInv
<1>2. Skipped = missed + 1 /\ Skipped' = missed + 1
  BY DEF Skipped, Lose
<1>3. LastCron' = LastCron /\ clock' = clock
  BY DEF Lose, LastCron
<1>4. CoveredTo(q + Lead)'
  BY <1>1, CoverageStays DEF Lose
<1> QED
  BY <1>1, <1>2, <1>3, <1>4 DEF CoverInv

\* A minute later the last cron time is the same or one more tick is to be made up for.
LEMMA AdvanceCovers ==
    ASSUME TypeOK, CoverInv, LeadCoversTicks, Advance
    PROVE  CoverInv'
<1> USE StepTyped
<1>1. PICK q \in (-Gap)..clock : LastCron - q <= Skipped * Gap /\ CoveredTo(q + Lead)
  BY DEF CoverInv
<1>2. /\ clock \in Nat /\ clock' = clock + 1 /\ missed \in Nat
      /\ missed' = missed /\ Skipped = missed
  BY ScheduleAssumption DEF TypeOK, Advance, Skipped
<1>3. CoveredTo(q + Lead)' /\ q \in (-Gap)..clock'
  BY <1>1, <1>2, CoverageStays DEF Advance
<1>4. /\ LastCron \in Nat /\ LastCron = clock - Since(clock)
      /\ Since(clock) \in 0..(Gap - 1)
  BY <1>2, LastCronTyped, SinceTyped
<1>5. LastCron' = clock + 1 - Since(clock + 1)
  BY <1>2 DEF LastCron, Since
<1>6. /\ missed * Gap \in Nat /\ (missed + 1) * Gap = missed * Gap + Gap
  BY <1>2, Gaps
<1>7. CASE Since(clock + 1) = 0
  <2>1. CronTime' /\ Skipped' = missed + 1
    BY <1>2, <1>7, SinceTyped DEF CronTime, Skipped, Advance
  <2>2. LastCron' - q <= (missed + 1) * Gap
    BY <1>1, <1>2, <1>4, <1>5, <1>6, <1>7
  <2> QED  BY <1>3, <2>1, <2>2 DEF CoverInv
<1>8. CASE Since(clock + 1) = Since(clock) + 1
  <2>1. Since(clock + 1) # 0
    BY <1>4, <1>8
  <2>2. ~ CronTime' /\ Skipped' = missed
    BY <1>2, <2>1, SinceTyped DEF CronTime, Skipped, Advance
  <2>3. LastCron' = LastCron
    BY <1>2, <1>4, <1>5, <1>8
  <2> QED  BY <1>1, <1>2, <1>3, <2>2, <2>3 DEF CoverInv
<1> QED
  BY <1>2, <1>7, <1>8, NextSince

\* A job finds all that it was waited for, however late it starts (due_trip_alerts).
LEMMA SweepCovers ==
    ASSUME TypeOK, WaitInv, CoverInv, LeadCoversTicks, NEW t \in waiting, Sweep(t)
    PROVE  CoverInv'
<1>1. PICK q \in (-Gap)..clock : LastCron - q <= Skipped * Gap /\ CoveredTo(q + Lead)
  BY DEF CoverInv
<1>2. /\ clock \in Nat /\ t \in Nat /\ t <= clock /\ clock - t <= MaxDelay
  BY ScheduleAssumption DEF TypeOK, WaitInv
<1>3. LastCron' = LastCron /\ Skipped' = Skipped /\ clock' = clock
  BY DEF Sweep, LastCron, Skipped, CronTime
<1>4. CoveredTo(q + Lead)'
  <2> SUFFICES ASSUME NEW a \in Trips, NEW d \in Days,
                      Weekday(d) \in Recurs[a], Lead <= Moment(d, Departure[a]),
                      Moment(d, Departure[a]) <= q + Lead
               PROVE  \/ <<a, d>> \in seen'
                      \/ \E u \in waiting' : Pending(u, Moment(d, Departure[a]))
    BY DEF CoveredTo
  <2> DEFINE m == Moment(d, Departure[a])
  <2>1. m \in Nat /\ d \in Nat /\ Departure[a] \in Times
    BY DepartureTyped
  <2>2. \/ <<a, d>> \in seen
        \/ \E u \in waiting : Pending(u, m)
    BY <1>1 DEF CoveredTo
  <2> HIDE DEF m
  <2>3. CASE <<a, d>> \in seen
    BY <2>3 DEF Sweep
  <2>4. CASE Pending(t, m)
    <3>1. clock <= m /\ m <= clock + Lead
      BY <1>2, <2>1, <2>4, StepTyped, WindowAssumption DEF Pending
    <3>2. Due(Recurs[a], Departure[a], clock) /\ NextDepartureDay(Departure[a], clock) = d
      BY <1>2, <2>1, <3>1, FiledUnderItsDay DEF m
    <3> QED  BY <3>2 DEF Sweep
  <2>5. ASSUME NEW u \in waiting, u # t, Pending(u, m)
        PROVE  \E w \in waiting' : Pending(w, m)
    BY <2>5 DEF Sweep
  <2> QED  BY <2>2, <2>3, <2>4, <2>5 DEF m
<1> QED
  BY <1>1, <1>3, <1>4 DEF CoverInv

\* Sweeps whose windows overlap leave no departure out.
LEMMA CoverStep == TypeOK /\ WaitInv /\ CoverInv /\ [Next]_vars => CoverInv'
<1> SUFFICES ASSUME TypeOK, WaitInv, CoverInv, [Next]_vars, LeadCoversTicks
             PROVE  CoverInv'
  BY DEF CoverInv, LeadCoversTicks
<1>1. ASSUME UNCHANGED vars PROVE CoverInv'
  BY <1>1, CoverageStays DEF vars, CoverInv, LastCron, Skipped, CronTime
<1> QED
  BY <1>1, FireCovers, LoseCovers, AdvanceCovers, SweepCovers DEF Next

\* The lead windows of the sweeps that run, with those that are still to run, cover
\* every departure up to the lead time after the last queued tick.
THEOREM CoverageInvariant == Spec => [](WaitInv /\ CoverInv)
<1>1. TypeOK /\ (WaitInv /\ CoverInv) /\ [Next]_vars => (WaitInv /\ CoverInv)'
  BY WaitStep, CoverStep
<1> QED
  BY <1>1, CoverInit, ScheduleTyped, PTL DEF Spec

\* No departure slips through, whatever the step, the delays, the outages and the time
\* of day, as long as the lead time covers them (run_due_checks' cadence).
THEOREM NoneUnseen == Spec => []EveryDepartureSeen
<1>1. TypeOK /\ WaitInv /\ CoverInv => EveryDepartureSeen
  <2> SUFFICES ASSUME TypeOK, WaitInv, CoverInv, LeadCoversTicks,
                      NEW a \in Trips, NEW d \in Days,
                      Weekday(d) \in Recurs[a], Lead <= Moment(d, Departure[a]),
                      Moment(d, Departure[a]) < clock
               PROVE  <<a, d>> \in seen
    BY DEF EveryDepartureSeen
  <2> DEFINE m == Moment(d, Departure[a])
  <2> USE StepTyped
  <2>1. PICK q \in (-Gap)..clock : LastCron - q <= Skipped * Gap /\ CoveredTo(q + Lead)
    BY DEF CoverInv
  <2>2. /\ clock \in Nat /\ missed \in Nat /\ missed <= MaxLost /\ m \in Nat
        /\ LastCron \in Nat /\ clock - LastCron < Gap
        /\ CronTime <=> LastCron = clock
    BY ScheduleAssumption, LastCronTyped, DepartureTyped DEF TypeOK
  <2>3. /\ missed * Gap \in Nat /\ (missed + 1) * Gap = missed * Gap + Gap
        /\ missed * Gap <= MaxLost * Gap
        /\ MaxLost * Gap \in Nat /\ (MaxLost + 1) * Gap = MaxLost * Gap + Gap
    BY <2>2, Gaps
  <2> HIDE DEF m
  <2>4. clock - q <= (MaxLost + 1) * Gap
    <3>1. CASE Skipped = missed
      BY <2>1, <2>2, <2>3, <3>1
    <3>2. CASE Skipped = missed + 1 /\ CronTime
      BY <2>1, <2>2, <2>3, <3>2
    <3> QED  BY <3>1, <3>2 DEF Skipped
  <2>5. m <= q + Lead
    BY <2>1, <2>2, <2>3, <2>4, WindowAssumption DEF LeadCoversTicks, m
  <2>6. \A t \in waiting : ~ Pending(t, m)
    <3> SUFFICES ASSUME NEW t \in waiting, t + MaxDelay <= m PROVE FALSE
      BY DEF Pending
    <3>1. t \in Nat /\ clock - t <= MaxDelay
      BY ScheduleAssumption DEF TypeOK, WaitInv
    <3> QED  BY <2>2, <3>1 DEF m
  <2> QED  BY <2>1, <2>5, <2>6 DEF CoveredTo, m
<1> QED
  BY <1>1, CoverageInvariant, ScheduleTyped, PTL
=============================================================================
