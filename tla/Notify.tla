------------------------------- MODULE Notify -------------------------------
(***************************************************************************)
(* The rain-alert sweep of app/services/notify.py as the worker of         *)
(* app/workers/main.py runs it, against the trip_alerts and notifications  *)
(* tables and a delivery channel.                                          *)
(*                                                                         *)
(* A job is one run of check_trip_alerts with its own database session: it *)
(* retries undelivered rows one after the other, selects the due alerts    *)
(* and handles each in a task of its own, at most Permits at a time.  The  *)
(* tasks share the session, so their database work goes through one lock.  *)
(* Steps are cut where the code awaits or where another job, a request or  *)
(* a crash can get in between.                                             *)
(***************************************************************************)
EXTENDS DueWindow, FiniteSets

CONSTANTS
    Alerts,        \* trip_alerts rows that may come to exist
    Jobs,          \* runs of check_trip_alerts that may overlap
    Departure,     \* Departure[a]: departure_time of alert a
    Recurs,        \* Recurs[a]: its `days'
    Permits,       \* asyncio.Semaphore(4)
    RetryLimit,    \* MAX_REDELIVERIES_PER_TICK
    Redeliver,     \* the retry pass, as one more activity of a job
    Nobody,        \* no task, no row
    MaxClock,      \* bound: the last moment considered
    MaxFaults      \* bound: crashes and database errors considered

ASSUME NotifyAssumption == /\ Departure \in [Alerts -> Times]
                           /\ Recurs \in [Alerts -> SUBSET Weekdays]
                           /\ Permits \in Nat \ {0}
                           /\ RetryLimit \in Nat \ {0}
                           /\ MaxClock \in Nat
                           /\ MaxFaults \in Nat
                           /\ Redeliver \notin Alerts
                           /\ Nobody \notin Alerts \cup {Redeliver}
                           /\ Nobody \notin Alerts \X (0..(Day(MaxClock) + 1))

VARIABLES
    clock,         \* wall clock, Europe/Amsterdam
    alerts,        \* alerts[a]: the trip_alerts row is absent, active or deleted
    row,           \* row[k]: the notifications row, as in Outbox
    created,       \* created[k]: its created_at
    logged,        \* history: keys for which a row was ever committed
    accepted,      \* history: keys the channel accepted
    resent,        \* history: keys it accepted more than once
    phase,         \* phase[j]: how far run_due_checks has come
    now,           \* now[j]: the moment the job was stamped with
    pending,       \* pending[j]: rows the retry pass still has to try
    current,       \* current[j]: the row it is trying
    pc,            \* pc[j][s]: how far a task, or that row, has come
    holder,        \* holder[j]: the task inside db_lock
    expired,       \* expired[j]: a rollback expired the loaded TripAlerts
    lost,          \* lost[j]: tasks whose Notification it expired
    faults         \* crashes and database errors so far

tables  == <<alerts, row, created, logged>>
channel == <<accepted, resent>>
session == <<holder, expired, lost>>
pass    == <<pending, current>>
vars    == <<clock, tables, channel, phase, now, pass, pc, session, faults>>

Keys    == Alerts \X (0..(Day(MaxClock) + 1))
Slots   == Alerts \cup {Redeliver}
Phases  == {"idle", "opening", "retrying", "loading", "sweeping", "aborted"}
Steps   == {"idle", "queued", "planning", "forecast", "recording", "inserted",
            "sending", "sent", "stamping", "done"}

TypeOK == /\ clock \in 0..MaxClock
          /\ alerts \in [Alerts -> {"absent", "active", "deleted"}]
          /\ row \in [Keys -> {"none", "recorded", "delivered"}]
          /\ created \in [Keys -> 0..MaxClock]
          /\ logged \subseteq Keys
          /\ accepted \subseteq Keys
          /\ resent \subseteq Keys
          /\ phase \in [Jobs -> Phases]
          /\ now \in [Jobs -> 0..MaxClock]
          /\ pending \in [Jobs -> SUBSET Keys]
          /\ current \in [Jobs -> Keys \cup {Nobody}]
          /\ pc \in [Jobs -> [Slots -> Steps]]
          /\ holder \in [Jobs -> Alerts \cup {Nobody}]
          /\ expired \in [Jobs -> BOOLEAN]
          /\ lost \in [Jobs -> SUBSET Alerts]
          /\ faults \in 0..MaxFaults

Init == /\ clock = 0
        /\ alerts \in [Alerts -> {"absent", "active"}]
        /\ row = [k \in Keys |-> "none"]
        /\ created = [k \in Keys |-> 0]
        /\ logged = {}
        /\ accepted = {}
        /\ resent = {}
        /\ phase = [j \in Jobs |-> "idle"]
        /\ now = [j \in Jobs |-> 0]
        /\ pending = [j \in Jobs |-> {}]
        /\ current = [j \in Jobs |-> Nobody]
        /\ pc = [j \in Jobs |-> [s \in Slots |-> "idle"]]
        /\ holder = [j \in Jobs |-> Nobody]
        /\ expired = [j \in Jobs |-> FALSE]
        /\ lost = [j \in Jobs |-> {}]
        /\ faults = 0

-----------------------------------------------------------------------------
(* The pieces the actions are made of.                                     *)

\* The outbox row that a task, or the retry pass, of job j is about.
Key(j, s) == IF s = Redeliver THEN current[j]
             ELSE <<s, NextDepartureDay(Departure[s], now[j])>>

IsDue(a, t) == alerts[a] = "active" /\ Due(Recurs[a], Departure[a], t)

RetriableAnyDay(t)    == {k \in Keys : row[k] = "recorded"}
RetriableTomorrow(t)  == {k \in Keys : row[k] = "recorded" /\ k[2] > Day(t)}
RetriableDelivered(t) == {k \in Keys : row[k] # "none" /\ k[2] >= Day(t)}

\* redeliver_pending's WHERE: undelivered, departing today or later.
Retriable(t) == {k \in Keys : row[k] = "recorded" /\ k[2] >= Day(t)}

\* Its ORDER BY created_at LIMIT: the rows that may come out of the SELECT.
OldestFirst(P, R) == \A k \in P, l \in R \ P : created[k] <= created[l]

Running(j) == {a \in Alerts : pc[j][a] \notin {"idle", "queued", "done"}}

LockIgnored(j, s) == TRUE

\* A task enters db_lock; the retry pass owns the session and takes no lock.
LockFree(j, s) == s = Redeliver \/ holder[j] = Nobody

RowIgnored(j, k) == TRUE

\* A row lock or an uncommitted insert of another session makes a statement wait.
RowFree(j, k) ==
    \A i \in Jobs \ {j}, s \in Slots :
        pc[i][s] \in {"inserted", "stamping"} => Key(i, s) # k

Goto(j, s, step) == pc' = [pc EXCEPT ![j][s] = step]

\* The task returns; the retry pass turns to its next row.
Finish(j, s) == Goto(j, s, IF s = Redeliver THEN "idle" ELSE "done")

EnterAlways(j, s) == holder' = [holder EXCEPT ![j] = s]

Enter(j, s) == holder' = IF s = Redeliver THEN holder ELSE [holder EXCEPT ![j] = s]

LeaveNever(j, s) == UNCHANGED holder

Leave(j, s) == holder' = IF s = Redeliver THEN holder ELSE [holder EXCEPT ![j] = Nobody]

\* An exception leaves the task or the retry pass.  _process logs alert.id in
\* its handler: on an expired instance that raises again, now outside any
\* handler, and gather gives the tick up.  run_due_checks catches what comes
\* out of the retry pass and goes on.
Raise(j, s, broken) ==
    /\ Finish(j, s)
    /\ phase' = [phase EXCEPT ![j] = IF s = Redeliver THEN "loading"
                                     ELSE IF broken THEN "aborted" ELSE @]
    /\ pending' = IF s = Redeliver THEN [pending EXCEPT ![j] = {}] ELSE pending
    /\ UNCHANGED current

\* session.rollback(): every instance loaded in the session expires, whatever
\* expire_on_commit says; the exception then leaves the task.
RollbackAndRaise(j, s) ==
    /\ expired' = [expired EXCEPT ![j] = TRUE]
    /\ lost' = [lost EXCEPT ![j] = Alerts]
    /\ Leave(j, s)
    /\ Raise(j, s, TRUE)

Fault == faults < MaxFaults /\ faults' = faults + 1

\* A statement or commit fails: a fault, or, once the tick was given up, the
\* session that check_trip_alerts closes under the tasks that still run on it.
StatementFails(j) == Fault \/ (phase[j] = "aborted" /\ UNCHANGED faults)

-----------------------------------------------------------------------------
(* check_trip_alerts and run_due_checks: the retry pass.                   *)

\* arq starts the cron job; `now' is stamped before the session is opened.
StartTick(j) ==
    /\ phase[j] = "idle"
    /\ phase' = [phase EXCEPT ![j] = "opening"]
    /\ now' = [now EXCEPT ![j] = clock]
    /\ UNCHANGED <<clock, tables, channel, pass, pc, session, faults>>

SelectPending(j) ==
    /\ phase[j] = "opening"
    /\ \E P \in SUBSET Retriable(now[j]) :
         /\ \/ P = Retriable(now[j]) /\ Cardinality(P) <= RetryLimit
            \/ Cardinality(P) = RetryLimit
         /\ OldestFirst(P, Retriable(now[j]))
         /\ pending' = [pending EXCEPT ![j] = P]
    /\ phase' = [phase EXCEPT ![j] = "retrying"]
    /\ UNCHANGED <<clock, tables, channel, now, current, pc, session, faults>>

\* The SELECT fails: the pass is skipped, the sweep still happens.
SelectPendingFails(j) ==
    /\ phase[j] = "opening"
    /\ Fault
    /\ phase' = [phase EXCEPT ![j] = "loading"]
    /\ UNCHANGED <<clock, tables, channel, now, pass, pc, session>>

\* `for notification in pending: await deliver(...)'
NextRetry(j) ==
    /\ phase[j] = "retrying"
    /\ pc[j][Redeliver] = "idle"
    /\ \E k \in pending[j] :
         /\ OldestFirst({k}, pending[j])
         /\ pending' = [pending EXCEPT ![j] = @ \ {k}]
         /\ current' = [current EXCEPT ![j] = k]
    /\ Goto(j, Redeliver, "sending")
    /\ UNCHANGED <<clock, tables, channel, phase, now, session, faults>>

RetryPassEnds(j) ==
    /\ phase[j] = "retrying"
    /\ pc[j][Redeliver] = "idle"
    /\ pending[j] = {}
    /\ phase' = [phase EXCEPT ![j] = "loading"]
    /\ current' = [current EXCEPT ![j] = Nobody]
    /\ UNCHANGED <<clock, tables, channel, now, pending, pc, session, faults>>

-----------------------------------------------------------------------------
(* The sweep: due_trip_alerts, then one task per alert.                    *)

\* The due alerts are loaded, fresh, and a task is created for each.
LoadDue(j) ==
    /\ phase[j] = "loading"
    /\ pc' = [pc EXCEPT ![j] = [s \in Slots |->
                IF s \in Alerts /\ IsDue(s, now[j]) THEN "queued" ELSE "idle"]]
    /\ expired' = [expired EXCEPT ![j] = FALSE]
    /\ lost' = [lost EXCEPT ![j] = {}]
    /\ current' = [current EXCEPT ![j] = Nobody]
    /\ phase' = [phase EXCEPT ![j] = "sweeping"]
    /\ UNCHANGED <<clock, tables, channel, now, pending, holder, faults>>

\* Nothing catches a failure of this SELECT: the job ends.
LoadDueFails(j) ==
    /\ phase[j] = "loading"
    /\ Fault
    /\ phase' = [phase EXCEPT ![j] = "idle"]
    /\ current' = [current EXCEPT ![j] = Nobody]
    /\ UNCHANGED <<clock, tables, channel, now, pending, pc, session>>

\* A task gets past the semaphore.  It starts by reading the alert's times and
\* places, which raises when the instance has expired.
StartTask(j, a) ==
    /\ pc[j][a] = "queued"
    /\ Cardinality(Running(j)) < Permits
    /\ IF expired[j]
       THEN Raise(j, a, expired[j])
       ELSE Goto(j, a, "planning") /\ UNCHANGED <<phase, pass>>
    /\ UNCHANGED <<clock, tables, channel, now, session, faults>>

\* gather_candidates answers: no bike route (or OTPError) ends the task; with
\* one, the alert's coordinates are read again to ask for the rain.
PlanReturns(j, a) ==
    /\ pc[j][a] = "planning"
    /\ \/ Finish(j, a) /\ UNCHANGED <<phase, pass>>
       \/ expired[j] /\ Raise(j, a, expired[j])
       \/ ~expired[j] /\ Goto(j, a, "forecast") /\ UNCHANGED <<phase, pass>>
    /\ UNCHANGED <<clock, tables, channel, now, session, faults>>

\* The forecast: dry ends the task.  A degraded one is logged with alert.id and
\* a wet one is turned into an INSERT, so both read the alert.
ForecastReturns(j, a) ==
    /\ pc[j][a] = "forecast"
    /\ \/ Finish(j, a) /\ UNCHANGED <<phase, pass>>
       \/ expired[j] /\ Raise(j, a, expired[j])
       \/ ~expired[j] /\ Goto(j, a, "recording") /\ UNCHANGED <<phase, pass>>
    /\ UNCHANGED <<clock, tables, channel, now, session, faults>>

EvaluationEscapes(j, a) ==
    /\ pc[j][a] \in {"planning", "forecast"}
    /\ Raise(j, a, TRUE)
    /\ UNCHANGED <<clock, tables, channel, now, session, faults>>

\* Anything else the evaluation raises is caught by _process.
EvaluationRaises(j, a) ==
    /\ pc[j][a] \in {"planning", "forecast"}
    /\ Raise(j, a, expired[j])
    /\ UNCHANGED <<clock, tables, channel, now, session, faults>>

InsertUnchecked(j, a) ==
    /\ pc[j][a] = "recording"
    /\ LockFree(j, a)
    /\ RowFree(j, Key(j, a))
    /\ alerts[a] = "active"
    /\ Goto(j, a, "inserted")
    /\ Enter(j, a)
    /\ lost' = [lost EXCEPT ![j] = @ \ {a}]
    /\ UNCHANGED <<clock, tables, channel, phase, now, pass, expired, faults>>

\* INSERT ... ON CONFLICT DO NOTHING RETURNING writes a row, not yet committed.
InsertRow(j, a) ==
    /\ pc[j][a] = "recording"
    /\ LockFree(j, a)
    /\ RowFree(j, Key(j, a))
    /\ alerts[a] = "active"
    /\ row[Key(j, a)] = "none"
    /\ Goto(j, a, "inserted")
    /\ Enter(j, a)
    /\ lost' = [lost EXCEPT ![j] = @ \ {a}]
    /\ UNCHANGED <<clock, tables, channel, phase, now, pass, expired, faults>>

ConflictRewrites(j, a) ==
    /\ pc[j][a] = "recording"
    /\ LockFree(j, a)
    /\ row[Key(j, a)] # "none"
    /\ row' = [row EXCEPT ![Key(j, a)] = "recorded"]
    /\ Finish(j, a)
    /\ UNCHANGED <<clock, alerts, created, logged, channel, phase, now, pass,
                   session, faults>>

\* The row is there already: nothing is returned and nothing is sent.
InsertConflicts(j, a) ==
    /\ pc[j][a] = "recording"
    /\ LockFree(j, a)
    /\ row[Key(j, a)] # "none"
    /\ Finish(j, a)
    /\ UNCHANGED <<clock, tables, channel, phase, now, pass, session, faults>>

\* The user deleted the alert while it was being assessed: ON CONFLICT does not
\* cover the foreign key, so the statement fails.
InsertViolatesKey(j, a) ==
    /\ pc[j][a] = "recording"
    /\ LockFree(j, a)
    /\ alerts[a] = "deleted"
    /\ RollbackAndRaise(j, a)
    /\ UNCHANGED <<clock, tables, channel, now, faults>>

\* The commit makes the row visible; `created_at' is the moment its
\* transaction began, which may be as early as the sweep's first SELECT.
Recorded(j, a) ==
    /\ row' = [row EXCEPT ![Key(j, a)] = "recorded"]
    /\ \E t \in now[j]..clock : created' = [created EXCEPT ![Key(j, a)] = t]
    /\ logged' = logged \cup {Key(j, a)}
    /\ UNCHANGED alerts

CommitInsert(j, a) ==
    /\ pc[j][a] = "inserted"
    /\ Recorded(j, a)
    /\ Leave(j, a)
    /\ Goto(j, a, "sending")
    /\ UNCHANGED <<clock, channel, phase, now, pass, expired, lost, faults>>

\* The statement or the commit fails.  A commit that fails may still have
\* reached the database.
InsertFails(j, a) ==
    /\ StatementFails(j)
    /\ \/ pc[j][a] = "recording" /\ LockFree(j, a) /\ UNCHANGED tables
       \/ pc[j][a] = "inserted" /\ UNCHANGED tables
       \/ pc[j][a] = "inserted" /\ Recorded(j, a)
    /\ RollbackAndRaise(j, a)
    /\ UNCHANGED <<clock, channel, now>>

-----------------------------------------------------------------------------
(* deliver: shared by the tasks and the retry pass.                        *)

SendAccepted(j, s) ==
    /\ pc[j][s] = "sending"
    /\ resent' = IF Key(j, s) \in accepted THEN resent \cup {Key(j, s)} ELSE resent
    /\ accepted' = accepted \cup {Key(j, s)}
    /\ Goto(j, s, "sent")
    /\ UNCHANGED <<clock, tables, phase, now, pass, session, faults>>

RejectedCountsAsSent(j, s) ==
    /\ pc[j][s] = "sending"
    /\ Goto(j, s, "sent")
    /\ UNCHANGED <<clock, tables, channel, phase, now, pass, session, faults>>

\* The channel raises.  The log line reads the notification: if that expired
\* while the send was under way, the handler raises itself.
SendRejected(j, s) ==
    /\ pc[j][s] = "sending"
    /\ IF s \in lost[j] THEN Raise(j, s, expired[j])
       ELSE Finish(j, s) /\ UNCHANGED <<phase, pass>>
    /\ UNCHANGED <<clock, tables, channel, now, session, faults>>

\* UPDATE ... SET delivered_at = now() WHERE id = notification.id
Stamp(j, s) ==
    /\ pc[j][s] = "sent"
    /\ LockFree(j, s)
    /\ s \notin lost[j]
    /\ RowFree(j, Key(j, s))
    /\ Goto(j, s, "stamping")
    /\ Enter(j, s)
    /\ UNCHANGED <<clock, tables, channel, phase, now, pass, expired, lost, faults>>

Stamped(j, s) ==
    /\ row' = [row EXCEPT ![Key(j, s)] = IF @ = "none" THEN "none" ELSE "delivered"]
    /\ UNCHANGED <<alerts, created, logged>>

CommitStamp(j, s) ==
    /\ pc[j][s] = "stamping"
    /\ Stamped(j, s)
    /\ Leave(j, s)
    /\ Finish(j, s)
    /\ UNCHANGED <<clock, channel, phase, now, pass, expired, lost, faults>>

\* Reading notification.id of an expired instance raises inside the lock.
StampUnreadable(j, s) ==
    /\ pc[j][s] = "sent"
    /\ LockFree(j, s)
    /\ s \in lost[j]
    /\ RollbackAndRaise(j, s)
    /\ UNCHANGED <<clock, tables, channel, now, faults>>

\* The UPDATE or its commit fails.  The warning that follows the rollback reads
\* notification.id, so the exception leaves deliver after all.
StampFails(j, s) ==
    /\ StatementFails(j)
    /\ \/ pc[j][s] = "sent" /\ LockFree(j, s) /\ UNCHANGED tables
       \/ pc[j][s] = "stamping" /\ UNCHANGED tables
       \/ pc[j][s] = "stamping" /\ Stamped(j, s)
    /\ RollbackAndRaise(j, s)
    /\ UNCHANGED <<clock, channel, now>>

-----------------------------------------------------------------------------
(* The end of a tick, and what happens around it.                          *)

AllDone(j) == \A a \in Alerts : pc[j][a] \in {"idle", "done"}

Reset(j) ==
    /\ phase' = [phase EXCEPT ![j] = "idle"]
    /\ pending' = [pending EXCEPT ![j] = {}]
    /\ current' = [current EXCEPT ![j] = Nobody]
    /\ pc' = [pc EXCEPT ![j] = [s \in Slots |-> "idle"]]
    /\ holder' = [holder EXCEPT ![j] = Nobody]
    /\ expired' = [expired EXCEPT ![j] = FALSE]
    /\ lost' = [lost EXCEPT ![j] = {}]

\* gather returns.  After an abort the tasks it no longer waits for run on; the
\* job counts as over when the last of them has ended.
SweepEnds(j) ==
    /\ phase[j] \in {"sweeping", "aborted"}
    /\ AllDone(j)
    /\ Reset(j)
    /\ UNCHANGED <<clock, tables, channel, now, faults>>

\* The worker dies or arq's job timeout cancels the job: what is not committed
\* is rolled back, and CancelledError passes every `except Exception'.
Crash(j) ==
    /\ phase[j] # "idle"
    /\ Fault
    /\ Reset(j)
    /\ UNCHANGED <<clock, tables, channel, now>>

\* POST /v1/trip-alerts
CreateAlert(a) ==
    /\ alerts[a] = "absent"
    /\ alerts' = [alerts EXCEPT ![a] = "active"]
    /\ UNCHANGED <<clock, row, created, logged, channel, phase, now, pass, pc,
                   session, faults>>

\* DELETE /v1/trip-alerts/{id}: the rows go with it.  It waits for a
\* transaction that has written one of them.
DeleteAlert(a) ==
    /\ alerts[a] = "active"
    /\ \A j \in Jobs, s \in Slots :
         pc[j][s] \in {"inserted", "stamping"} => Key(j, s)[1] # a
    /\ alerts' = [alerts EXCEPT ![a] = "deleted"]
    /\ row' = [k \in Keys |-> IF k[1] = a THEN "none" ELSE row[k]]
    /\ UNCHANGED <<clock, created, logged, channel, phase, now, pass, pc,
                   session, faults>>

Advance ==
    /\ clock < MaxClock
    /\ clock' = clock + 1
    /\ UNCHANGED <<tables, channel, phase, now, pass, pc, session, faults>>

-----------------------------------------------------------------------------

Tick(j) == \/ StartTick(j) \/ SelectPending(j) \/ NextRetry(j) \/ RetryPassEnds(j)
           \/ LoadDue(j) \/ SweepEnds(j)

Task(j, a) == \/ StartTask(j, a) \/ PlanReturns(j, a) \/ ForecastReturns(j, a)
              \/ InsertRow(j, a) \/ InsertConflicts(j, a) \/ InsertViolatesKey(j, a)
              \/ CommitInsert(j, a)

Deliver(j, s) == \/ SendAccepted(j, s) \/ SendRejected(j, s) \/ Stamp(j, s)
                 \/ CommitStamp(j, s) \/ StampUnreadable(j, s)

Failure(j) == \/ SelectPendingFails(j) \/ LoadDueFails(j) \/ Crash(j)
              \/ \E a \in Alerts : EvaluationRaises(j, a) \/ InsertFails(j, a)
              \/ \E s \in Slots : StampFails(j, s)

Next == \/ \E j \in Jobs : \/ Tick(j)
                           \/ \E a \in Alerts : Task(j, a)
                           \/ \E s \in Slots : Deliver(j, s)
                           \/ Failure(j)
        \/ \E a \in Alerts : CreateAlert(a) \/ DeleteAlert(a)
        \/ Advance

Spec == Init /\ [][Next]_vars

\* The worker keeps running its jobs, every call returns, and no alert is
\* rejected by the channel for ever.  Nothing is assumed of the clock, of
\* users or of failures.
Fairness ==
    /\ \A j \in Jobs :
         /\ WF_vars(Tick(j))
         /\ \A a \in Alerts : WF_vars(Task(j, a))
         /\ \A s \in Slots : WF_vars(Deliver(j, s))
    /\ \A k \in Keys :
         SF_vars(\E j \in Jobs, s \in Slots : Key(j, s) = k /\ SendAccepted(j, s))

FairSpec == Spec /\ Fairness

-----------------------------------------------------------------------------
(* Safety.                                                                 *)

\* The outbox row comes first: nothing reaches the channel that was not
\* committed before, and nothing is stamped that did not (process_trip_alert).
OutboxHonest == /\ accepted \subseteq logged
                /\ \A k \in Keys : row[k] # "none" => k \in logged
                /\ \A k \in Keys : row[k] = "delivered" => k \in accepted

\* A session never runs two statements at once: at most one task, or the retry
\* pass, of a job is between its statement and its commit (db_lock).
SessionExclusive ==
    \A j \in Jobs : \A s, t \in Slots :
        /\ pc[j][s] \in {"inserted", "stamping"}
        /\ pc[j][t] \in {"inserted", "stamping"}
        => s = t

\* Two overlapping jobs never both get to record the same trip and day: the
\* unique constraint picks one, also while the other has not committed.
OneRecorder ==
    \A i, j \in Jobs, a \in Alerts :
        /\ pc[i][a] = "inserted"
        /\ pc[j][a] = "inserted"
        /\ Key(i, a) = Key(j, a)
        => i = j /\ row[Key(j, a)] = "none" /\ Key(j, a) \notin logged

\* An alert is only filed under a day on which its trip recurs, also when it
\* was seen from before midnight (due_trip_alerts with _next_departure).
RightDay == \A k \in logged : Weekday(k[2]) \in Recurs[k[1]]

\* A sweep does not send for a day that was over when its tick was stamped.
NoStaleDay ==
    \A j \in Jobs, s \in Slots :
        pc[j][s] = "sending" => Key(j, s)[2] >= Day(now[j])

\* Without failures, without deletions and without overlapping jobs the rider
\* gets an alert once (one job).
DuplicateNeedsCause ==
    resent # {} => faults > 0 \/ \E a \in Alerts : alerts[a] = "deleted"

\* A tick is only given up because of a database error: a failure, or the
\* foreign key of an alert its owner deleted.
AbortNeedsCause ==
    (\E j \in Jobs : phase[j] = "aborted")
        => faults > 0 \/ \E a \in Alerts : alerts[a] = "deleted"

\* A committed row is never withdrawn or un-stamped by a sweep, a failure or a
\* crash; it only goes when its alert does.
Durable ==
    [][\A k \in Keys :
         /\ row[k] = "recorded" => row'[k] # "none" \/ alerts'[k[1]] = "deleted"
         /\ row[k] = "delivered" => row'[k] = "delivered" \/ alerts'[k[1]] = "deleted"
      ]_vars

-----------------------------------------------------------------------------
(* Liveness.                                                               *)

\* At-least-once: a recorded alert is delivered, unless its departure day goes
\* by or its owner deletes it, whatever failed on the way.
RecordedIsDelivered ==
    \A k \in Keys :
        row[k] = "recorded" ~> row[k] # "recorded" \/ k[2] < Day(clock)

\* Every tick comes to an end, whatever its tasks ran into.
TickEnds == \A j \in Jobs : phase[j] # "idle" ~> phase[j] = "idle"

-----------------------------------------------------------------------------
(* Why all of this holds: an invariant that every single step preserves.   *)

\* The tasks and the retry pass of a job take turns.
PhaseInv ==
    \A j \in Jobs :
        /\ phase[j] \notin {"sweeping", "aborted"} =>
               \A a \in Alerts : pc[j][a] = "idle"
        /\ phase[j] # "retrying" => pc[j][Redeliver] = "idle" /\ pending[j] = {}
        /\ pc[j][Redeliver] \in {"idle", "sending", "sent", "stamping"}

\* Whoever has uncommitted work holds db_lock.
LockInv ==
    \A j \in Jobs, a \in Alerts :
        pc[j][a] \in {"inserted", "stamping"} => holder[j] = a

\* The retry pass works on recorded rows of days that are not over.
RetryInv ==
    \A j \in Jobs :
        /\ pending[j] \subseteq {k \in logged : k[2] >= Day(now[j])}
        /\ pc[j][Redeliver] # "idle" => /\ current[j] \in logged
                                        /\ current[j][2] >= Day(now[j])

\* A task is about a due alert, and past its commit about a recorded key.
TaskInv ==
    \A j \in Jobs, a \in Alerts :
        /\ pc[j][a] # "idle" => Due(Recurs[a], Departure[a], now[j])
        /\ pc[j][a] \in {"sending", "sent", "stamping"} => Key(j, a) \in logged

\* Whoever is about to stamp a row has sent its alert.
SentInv ==
    \A j \in Jobs, s \in Slots :
        pc[j][s] \in {"sent", "stamping"} => Key(j, s) \in accepted

\* An uncommitted row is new, and the only one for its key.
InsertInv ==
    \A j \in Jobs, a \in Alerts :
        pc[j][a] = "inserted" =>
            /\ alerts[a] = "active"
            /\ row[Key(j, a)] = "none"
            /\ \A i \in Jobs \ {j} : pc[i][a] = "inserted" => Key(i, a) # Key(j, a)

\* A key that was recorded and has no row lost it with its alert.
PurgeInv == \A k \in logged : row[k] = "none" => alerts[k[1]] = "deleted"

\* An expired session goes back to a failure or a deletion.
CauseInv ==
    (\E j \in Jobs : phase[j] = "aborted" \/ expired[j] \/ lost[j] # {})
        => faults > 0 \/ \E a \in Alerts : alerts[a] = "deleted"

\* Nothing failed, nobody deleted anything, and ticks do not overlap.
Calm == faults = 0 /\ \A a \in Alerts : alerts[a] # "deleted"
OneJob == \A i, j \in Jobs : i = j

\* What is about to be sent, or waits for its retry, was not sent yet.
Unsent ==
    \A j \in Jobs :
        /\ \A s \in Slots : pc[j][s] = "sending" => Key(j, s) \notin accepted
        /\ pending[j] \cap accepted = {}
        /\ pc[j][Redeliver] # "idle" => current[j] \notin pending[j]

\* What was sent is stamped, or the task that sent it is about to stamp it.
Settled ==
    \A k \in accepted :
        \/ row[k] = "delivered"
        \/ \E j \in Jobs, s \in Slots : pc[j][s] \in {"sent", "stamping"} /\ Key(j, s) = k

OnceInv == OneJob /\ Calm => resent = {} /\ Unsent /\ Settled

IInv == /\ TypeOK /\ OutboxHonest /\ RightDay
        /\ PhaseInv /\ LockInv /\ RetryInv /\ TaskInv /\ SentInv
        /\ InsertInv /\ PurgeInv /\ CauseInv /\ OnceInv

-----------------------------------------------------------------------------
(* What comments and tests say and the code does not keep.                 *)

\* notify.py:382: "one bad alert is logged and skipped, never aborting the
\* rest of the tick".  An alert whose owner did nothing is never left waiting
\* in a tick that was given up.
ErrorIsolation ==
    \A j \in Jobs, a \in Alerts :
        phase[j] = "aborted" /\ pc[j][a] = "queued" => alerts[a] # "active"

\* test_notify.py:565: "redelivery ignores alerts for a departure that has
\* passed".
NoLateRetry ==
    \A j \in Jobs : \A k \in pending[j] :
        now[j] <= Moment(k[2], Departure[k[1]])

-----------------------------------------------------------------------------

Box == INSTANCE Outbox

\* The sweep implements the outbox, failures and overlapping jobs included.
ImplementsOutbox == Box!Spec
=============================================================================
