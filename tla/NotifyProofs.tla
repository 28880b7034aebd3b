---------------------------- MODULE NotifyProofs ----------------------------
(***************************************************************************)
(* Proofs about the rain-alert sweep for any set of alerts, any number of  *)
(* overlapping jobs, any lead time and any number of failures.             *)
(***************************************************************************)
EXTENDS Notify, TLAPS

\* The calendar never runs backwards.
LEMMA DayOrder ==
    ASSUME NEW t \in Nat, NEW u \in Nat, t <= u
    PROVE  Day(t) \in Nat /\ Day(u) \in Nat /\ Day(t) <= Day(u)
<1> DEFINE m == Day(t)
           n == Day(u)
           r == TimeOfDay(t)
           s == TimeOfDay(u)
<1>1. m \in Nat /\ r \in Times /\ t = DayLen * m + r
  BY WindowAssumption, SMTT(30) DEF Day, TimeOfDay, Times
<1>2. n \in Nat /\ s \in Times /\ u = DayLen * n + s
  BY WindowAssumption, SMTT(30) DEF Day, TimeOfDay, Times
<1> HIDE DEF m, n, r, s
<1>3. CASE n < m
  <2>1. PICK g \in Nat : m = n + 1 + g
    <3>1. m - n - 1 \in Nat /\ m = n + 1 + (m - n - 1)
      BY <1>1, <1>2, <1>3
    <3> QED  BY <3>1
  <2>2. /\ DayLen * m = DayLen * n + DayLen + DayLen * g
        /\ DayLen * g \in Nat /\ DayLen * n \in Nat
    BY <1>2, <2>1, WindowAssumption, SMTT(30)
  <2> QED  BY <1>1, <1>2, <2>2, WindowAssumption DEF Times
<1> QED
  BY <1>1, <1>2, <1>3 DEF m, n

\* An alert that is due recurs on the day it is filed under.
LEMMA DueRecurs ==
    ASSUME NEW days, NEW dep \in Times, NEW t \in Nat, Due(days, dep, t)
    PROVE  Weekday(NextDepartureDay(dep, t)) \in days
<1>1. TimeOfDay(t) \in Int /\ TimeOfDay(t + Lead) \in Int /\ dep \in Int
  BY WindowAssumption DEF TimeOfDay, Times
<1> QED
  BY <1>1 DEF Due, NextDepartureDay

\* What a task is about is a key of the outbox, on the day of its tick or later.
LEMMA TaskKey ==
    ASSUME TypeOK, NEW j \in Jobs, NEW a \in Alerts
    PROVE  /\ Key(j, a) \in Keys
           /\ Key(j, a)[1] = a
           /\ Key(j, a)[2] >= Day(now[j])
           /\ Key(j, a)[2] = NextDepartureDay(Departure[a], now[j])
<1>1. now[j] \in Nat /\ now[j] <= MaxClock /\ Departure[a] \in Times
  BY NotifyAssumption DEF TypeOK
<1>2. Day(now[j]) \in Nat /\ Day(now[j]) <= Day(MaxClock) /\ Day(MaxClock) \in Nat
  BY <1>1, DayOrder, NotifyAssumption
<1>3. NextDepartureDay(Departure[a], now[j]) \in {Day(now[j]), Day(now[j]) + 1}
  BY DEF NextDepartureDay
<1> QED
  BY <1>2, <1>3, NotifyAssumption DEF Key, Keys

\* What the retry pass is about.
LEMMA RetryKey ==
    ASSUME NEW j
    PROVE  Key(j, Redeliver) = current[j]
  BY DEF Key

\* No action looks at a key of a job whose stamp and current row stay.
LEMMA KeyStable ==
    ASSUME NEW j, NEW s, now'[j] = now[j], current'[j] = current[j]
    PROVE  Key(j, s)' = Key(j, s)
  BY DEF Key

-----------------------------------------------------------------------------

\* The worker starts in a well-typed state.
LEMMA TypeInit == Init => TypeOK
  BY NotifyAssumption DEF Init, TypeOK, Slots, Phases, Steps

\* The pieces of an action keep their variables in their types.
LEMMA FaultType == TypeOK /\ Fault => faults' \in 0..MaxFaults
  BY NotifyAssumption DEF TypeOK, Fault

\* So does a failing statement.
LEMMA StatementFailsType ==
    ASSUME TypeOK, NEW j, StatementFails(j) PROVE faults' \in 0..MaxFaults
  BY FaultType DEF StatementFails, TypeOK

\* A step of a task or of the retry pass keeps the program counters typed.
LEMMA GotoType ==
    ASSUME TypeOK, NEW j \in Jobs, NEW s \in Slots, NEW step \in Steps, Goto(j, s, step)
    PROVE  pc' \in [Jobs -> [Slots -> Steps]]
  BY DEF TypeOK, Goto

\* So does its end (_process returning, the retry pass turning to its next row).
LEMMA FinishType ==
    ASSUME TypeOK, NEW j \in Jobs, NEW s \in Slots, Finish(j, s)
    PROVE  pc' \in [Jobs -> [Slots -> Steps]]
<1>1. CASE s = Redeliver
  BY <1>1, GotoType DEF Finish, Steps
<1>2. CASE s # Redeliver
  BY <1>2, GotoType DEF Finish, Steps
<1> QED
  BY <1>1, <1>2

\* So does an exception that leaves it, also when it ends the tick.
LEMMA RaiseType ==
    ASSUME TypeOK, NEW j \in Jobs, NEW s \in Slots, NEW broken,
           Raise(j, s, broken)
    PROVE  /\ pc' \in [Jobs -> [Slots -> Steps]]
           /\ phase' \in [Jobs -> Phases]
           /\ pending' \in [Jobs -> SUBSET Keys]
           /\ current' \in [Jobs -> Keys \cup {Nobody}]
  BY FinishType DEF TypeOK, Raise, Phases

\* Entering and leaving db_lock keeps the holder a task.
LEMMA LeaveType ==
    ASSUME TypeOK, NEW j \in Jobs, NEW s \in Slots, Leave(j, s) \/ Enter(j, s)
    PROVE  holder' \in [Jobs -> Alerts \cup {Nobody}]
  BY DEF TypeOK, Leave, Enter, Slots

\* A rollback followed by its exception keeps the session typed.
LEMMA RollbackType ==
    ASSUME TypeOK, NEW j \in Jobs, NEW s \in Slots, RollbackAndRaise(j, s)
    PROVE  /\ pc' \in [Jobs -> [Slots -> Steps]]
           /\ phase' \in [Jobs -> Phases]
           /\ pending' \in [Jobs -> SUBSET Keys]
           /\ current' \in [Jobs -> Keys \cup {Nobody}]
           /\ holder' \in [Jobs -> Alerts \cup {Nobody}]
           /\ expired' \in [Jobs -> BOOLEAN]
           /\ lost' \in [Jobs -> SUBSET Alerts]
<1>1. Leave(j, s) /\ Raise(j, s, TRUE)
  BY DEF RollbackAndRaise
<1>2. expired' \in [Jobs -> BOOLEAN] /\ lost' \in [Jobs -> SUBSET Alerts]
  BY DEF RollbackAndRaise, TypeOK
<1> QED
  BY <1>1, <1>2, RaiseType, LeaveType

\* Committing an insert keeps the tables typed.
LEMMA RecordedType ==
    ASSUME TypeOK, NEW j \in Jobs, NEW a \in Alerts, Recorded(j, a)
    PROVE  /\ row' \in [Keys -> {"none", "recorded", "delivered"}]
           /\ created' \in [Keys -> 0..MaxClock]
           /\ logged' \subseteq Keys
           /\ alerts' \in [Alerts -> {"absent", "active", "deleted"}]
<1>1. Key(j, a) \in Keys
  BY TaskKey
<1>2. PICK t \in now[j]..clock : created' = [created EXCEPT ![Key(j, a)] = t]
  BY DEF Recorded
<1>3. t \in 0..MaxClock
  BY <1>2, NotifyAssumption DEF TypeOK
<1> QED
  BY <1>1, <1>2, <1>3 DEF TypeOK, Recorded

\* Committing a stamp keeps the tables typed.
LEMMA StampedType ==
    ASSUME TypeOK, NEW j \in Jobs, NEW s \in Slots, Stamped(j, s)
    PROVE  /\ row' \in [Keys -> {"none", "recorded", "delivered"}]
           /\ created' \in [Keys -> 0..MaxClock]
           /\ logged' \subseteq Keys
           /\ alerts' \in [Alerts -> {"absent", "active", "deleted"}]
  BY DEF TypeOK, Stamped

\* A delivery is about a key of the outbox.
LEMMA BusyKey ==
    ASSUME TypeOK, RetryInv, NEW j \in Jobs, NEW s \in Slots, pc[j][s] # "idle"
    PROVE  Key(j, s) \in Keys
<1>1. CASE s = Redeliver
  BY <1>1, RetryKey DEF RetryInv, TypeOK
<1>2. CASE s \in Alerts
  BY <1>2, TaskKey
<1> QED
  BY <1>1, <1>2 DEF Slots

\* Every step of the system keeps every variable in its type.
LEMMA TypeStep ==
    ASSUME TypeOK, RetryInv, [Next]_vars
    PROVE  TypeOK'
<1> USE DEF vars, tables, channel, session, pass
<1>1. ASSUME NEW j \in Jobs, StartTick(j) PROVE TypeOK'
  BY <1>1 DEF StartTick, TypeOK, Phases
<1>2. ASSUME NEW j \in Jobs, SelectPending(j) PROVE TypeOK'
  BY <1>2 DEF SelectPending, TypeOK, Phases, Retriable
<1>3. ASSUME NEW j \in Jobs, SelectPendingFails(j) PROVE TypeOK'
  BY <1>3, FaultType DEF SelectPendingFails, TypeOK, Phases
<1>4. ASSUME NEW j \in Jobs, NextRetry(j) PROVE TypeOK'
  <2>1. PICK k \in pending[j] : /\ pending' = [pending EXCEPT ![j] = @ \ {k}]
                                /\ current' = [current EXCEPT ![j] = k]
    BY <1>4 DEF NextRetry
  <2>2. pc' \in [Jobs -> [Slots -> Steps]]
    BY <1>4, GotoType DEF NextRetry, Slots, Steps
  <2> QED
    BY <1>4, <2>1, <2>2 DEF NextRetry, TypeOK
<1>5. ASSUME NEW j \in Jobs, RetryPassEnds(j) PROVE TypeOK'
  BY <1>5 DEF RetryPassEnds, TypeOK, Phases
<1>6. ASSUME NEW j \in Jobs, LoadDue(j) PROVE TypeOK'
  BY <1>6 DEF LoadDue, TypeOK, Phases, Steps
<1>7. ASSUME NEW j \in Jobs, LoadDueFails(j) PROVE TypeOK'
  BY <1>7, FaultType DEF LoadDueFails, TypeOK, Phases
<1>8. ASSUME NEW j \in Jobs, SweepEnds(j) PROVE TypeOK'
  BY <1>8 DEF SweepEnds, TypeOK, Reset, Phases, Steps
<1>9. ASSUME NEW j \in Jobs, Crash(j) PROVE TypeOK'
  BY <1>9, FaultType DEF Crash, TypeOK, Reset, Phases, Steps
<1>10. ASSUME NEW j \in Jobs, NEW a \in Alerts, StartTask(j, a) PROVE TypeOK'
  BY <1>10, GotoType, RaiseType DEF StartTask, TypeOK, Slots, Steps
<1>11. ASSUME NEW j \in Jobs, NEW a \in Alerts, PlanReturns(j, a) PROVE TypeOK'
  BY <1>11, GotoType, FinishType, RaiseType DEF PlanReturns, TypeOK, Slots, Steps
<1>12. ASSUME NEW j \in Jobs, NEW a \in Alerts, ForecastReturns(j, a) PROVE TypeOK'
  BY <1>12, GotoType, FinishType, RaiseType DEF ForecastReturns, TypeOK, Slots, Steps
<1>13. ASSUME NEW j \in Jobs, NEW a \in Alerts, EvaluationRaises(j, a) PROVE TypeOK'
  BY <1>13, RaiseType DEF EvaluationRaises, TypeOK, Slots
<1>14. ASSUME NEW j \in Jobs, NEW a \in Alerts, InsertRow(j, a) PROVE TypeOK'
  BY <1>14, GotoType, LeaveType DEF InsertRow, TypeOK, Slots, Steps
<1>15. ASSUME NEW j \in Jobs, NEW a \in Alerts, InsertConflicts(j, a) PROVE TypeOK'
  BY <1>15, FinishType DEF InsertConflicts, TypeOK, Slots
<1>16. ASSUME NEW j \in Jobs, NEW a \in Alerts, InsertViolatesKey(j, a) PROVE TypeOK'
  BY <1>16, RollbackType DEF InsertViolatesKey, TypeOK, Slots
<1>17. ASSUME NEW j \in Jobs, NEW a \in Alerts, CommitInsert(j, a) PROVE TypeOK'
  BY <1>17, GotoType, LeaveType, RecordedType DEF CommitInsert, TypeOK, Slots, Steps
<1>18. ASSUME NEW j \in Jobs, NEW a \in Alerts, InsertFails(j, a) PROVE TypeOK'
  BY <1>18, StatementFailsType, RollbackType, RecordedType DEF InsertFails, TypeOK, Slots
<1>19. ASSUME NEW j \in Jobs, NEW s \in Slots, SendAccepted(j, s) PROVE TypeOK'
  BY <1>19, GotoType, BusyKey DEF SendAccepted, TypeOK, Steps
<1>20. ASSUME NEW j \in Jobs, NEW s \in Slots, SendRejected(j, s) PROVE TypeOK'
  BY <1>20, FinishType, RaiseType DEF SendRejected, TypeOK
<1>21. ASSUME NEW j \in Jobs, NEW s \in Slots, Stamp(j, s) PROVE TypeOK'
  BY <1>21, GotoType, LeaveType DEF Stamp, TypeOK, Steps
<1>22. ASSUME NEW j \in Jobs, NEW s \in Slots, CommitStamp(j, s) PROVE TypeOK'
  BY <1>22, FinishType, LeaveType, StampedType DEF CommitStamp, TypeOK
<1>23. ASSUME NEW j \in Jobs, NEW s \in Slots, StampUnreadable(j, s) PROVE TypeOK'
  BY <1>23, RollbackType DEF StampUnreadable, TypeOK
<1>24. ASSUME NEW j \in Jobs, NEW s \in Slots, StampFails(j, s) PROVE TypeOK'
  BY <1>24, StatementFailsType, RollbackType, StampedType DEF StampFails, TypeOK
<1>25. ASSUME NEW a \in Alerts, CreateAlert(a) PROVE TypeOK'
  BY <1>25 DEF CreateAlert, TypeOK
<1>26. ASSUME NEW a \in Alerts, DeleteAlert(a) PROVE TypeOK'
  BY <1>26 DEF DeleteAlert, TypeOK
<1>27. CASE Advance
  BY <1>27, NotifyAssumption DEF Advance, TypeOK
<1>28. CASE UNCHANGED vars
  BY <1>28 DEF TypeOK
<1> QED
  BY <1>1, <1>2, <1>3, <1>4, <1>5, <1>6, <1>7, <1>8, <1>9, <1>10, <1>11,
     <1>12, <1>13, <1>14, <1>15, <1>16, <1>17, <1>18, <1>19, <1>20, <1>21,
     <1>22, <1>23, <1>24, <1>25, <1>26, <1>27, <1>28 DEF Next, Tick, Task,
     Deliver, Failure

-----------------------------------------------------------------------------
(* The inductive invariant.                                                *)

\* An action of one task moves that task and no other.
LEMMA GotoMoves ==
    ASSUME TypeOK, NEW j \in Jobs, NEW s \in Slots, NEW step, Goto(j, s, step)
    PROVE  /\ pc'[j][s] = step
           /\ \A i \in Jobs, t \in Slots : i # j \/ t # s => pc'[i][t] = pc[i][t]
  BY DEF TypeOK, Goto

\* The end of a task, or of one retry, moves nobody else.
LEMMA FinishMoves ==
    ASSUME TypeOK, NEW j \in Jobs, NEW s \in Slots, Finish(j, s)
    PROVE  /\ pc'[j][s] = IF s = Redeliver THEN "idle" ELSE "done"
           /\ \A i \in Jobs, t \in Slots : i # j \/ t # s => pc'[i][t] = pc[i][t]
  BY DEF TypeOK, Finish, Goto

\* An exception stays with its task, or ends the tick, or the retry pass.
LEMMA RaiseMoves ==
    ASSUME TypeOK, NEW j \in Jobs, NEW s \in Slots, NEW broken, Raise(j, s, broken)
    PROVE  /\ pc'[j][s] = IF s = Redeliver THEN "idle" ELSE "done"
           /\ \A i \in Jobs, t \in Slots : i # j \/ t # s => pc'[i][t] = pc[i][t]
           /\ \A i \in Jobs : i # j => phase'[i] = phase[i]
           /\ phase'[j] = IF s = Redeliver THEN "loading"
                          ELSE IF broken THEN "aborted" ELSE phase[j]
           /\ s = Redeliver => pending'[j] = {}
           /\ \A i \in Jobs : pending'[i] \subseteq pending[i]
           /\ UNCHANGED current
  BY FinishMoves DEF TypeOK, Raise

\* What the steps of an assessment have in common: they touch no table, no
\* lock and no channel.
AssessmentMove(j, a) ==
    /\ pc[j][a] \in {"queued", "planning", "forecast"}
    /\ pc'[j][a] \in {"planning", "forecast", "recording", "done"}
    /\ \A i \in Jobs, t \in Slots : i # j \/ t # a => pc'[i][t] = pc[i][t]
    /\ \A i \in Jobs : phase'[i] = phase[i] \/ (phase'[i] = "aborted" /\ i = j)
    /\ phase'[j] # phase[j] => expired[j]
    /\ \A i \in Jobs : pending'[i] \subseteq pending[i]
    /\ UNCHANGED <<clock, tables, channel, now, current, session, faults>>

\* Planning and forecasting are such steps, whatever they return or raise.
LEMMA AssessmentMoves ==
    ASSUME TypeOK, NEW j \in Jobs, NEW a \in Alerts,
           \/ StartTask(j, a) \/ PlanReturns(j, a)
           \/ ForecastReturns(j, a) \/ EvaluationRaises(j, a)
    PROVE  AssessmentMove(j, a)
<1> USE DEF Slots, pass, AssessmentMove
<1>1. a \in Slots /\ a # Redeliver
  BY NotifyAssumption
<1>2. /\ pc[j][a] \in {"queued", "planning", "forecast"}
      /\ UNCHANGED <<clock, tables, channel, now, session, faults>>
  BY DEF StartTask, PlanReturns, ForecastReturns, EvaluationRaises
<1>3. \/ Finish(j, a) /\ UNCHANGED <<phase, pass>>
      \/ Raise(j, a, expired[j])
      \/ \E step \in {"planning", "forecast", "recording"} :
            Goto(j, a, step) /\ UNCHANGED <<phase, pass>>
  BY DEF StartTask, PlanReturns, ForecastReturns, EvaluationRaises
<1>4. CASE Finish(j, a) /\ UNCHANGED <<phase, pass>>
  BY <1>1, <1>2, <1>4, FinishMoves
<1>5. CASE Raise(j, a, expired[j])
  BY <1>1, <1>2, <1>5, RaiseMoves
<1>6. ASSUME NEW step \in {"planning", "forecast", "recording"},
             Goto(j, a, step) /\ UNCHANGED <<phase, pass>>
      PROVE  AssessmentMove(j, a)
  BY <1>1, <1>2, <1>6, GotoMoves
<1> QED
  BY <1>3, <1>4, <1>5, <1>6

\* A rejected send ends the task or the attempt, and touches nothing else.
RejectionMove(j, s) ==
    /\ pc[j][s] = "sending"
    /\ pc'[j][s] = IF s = Redeliver THEN "idle" ELSE "done"
    /\ \A i \in Jobs, t \in Slots : i # j \/ t # s => pc'[i][t] = pc[i][t]
    /\ \A i \in Jobs : i # j => phase'[i] = phase[i]
    /\ \/ phase'[j] = phase[j]
       \/ s = Redeliver /\ phase'[j] = "loading" /\ pending'[j] = {}
       \/ s # Redeliver /\ expired[j] /\ phase'[j] = "aborted"
    /\ \A i \in Jobs : pending'[i] \subseteq pending[i]
    /\ UNCHANGED <<clock, tables, channel, now, current, session, faults>>

\* A send that the channel rejects is such a step, also on an expired row.
LEMMA RejectionMoves ==
    ASSUME TypeOK, NEW j \in Jobs, NEW s \in Slots, SendRejected(j, s)
    PROVE  RejectionMove(j, s)
<1> USE DEF pass, RejectionMove
<1>1. CASE s \in lost[j]
  <2>1. Raise(j, s, expired[j])
    BY <1>1 DEF SendRejected
  <2> QED
    BY <2>1, RaiseMoves DEF SendRejected
<1>2. CASE s \notin lost[j]
  <2>1. Finish(j, s) /\ UNCHANGED <<phase, pass>>
    BY <1>2 DEF SendRejected
  <2> QED
    BY <2>1, FinishMoves DEF SendRejected
<1> QED
  BY <1>1, <1>2

\* The retry pass and the tasks of the sweep keep taking turns.
LEMMA PhaseStep ==
    ASSUME IInv, [Next]_vars
    PROVE  PhaseInv'
<1> USE NotifyAssumption DEF vars, tables, channel, session, pass, Slots,
     IInv, PhaseInv, TypeOK, Goto, Finish, Enter, Leave, Raise,
     RollbackAndRaise, Reset, Steps, Phases
<1>1. ASSUME NEW j \in Jobs, StartTick(j) PROVE PhaseInv'
  BY <1>1 DEF StartTick
<1>2. ASSUME NEW j \in Jobs, SelectPending(j) PROVE PhaseInv'
  BY <1>2 DEF SelectPending
<1>3. ASSUME NEW j \in Jobs, SelectPendingFails(j) PROVE PhaseInv'
  BY <1>3 DEF SelectPendingFails
<1>4. ASSUME NEW j \in Jobs, NextRetry(j) PROVE PhaseInv'
  BY <1>4 DEF NextRetry
<1>5. ASSUME NEW j \in Jobs, RetryPassEnds(j) PROVE PhaseInv'
  BY <1>5 DEF RetryPassEnds
<1>6. ASSUME NEW j \in Jobs, LoadDue(j) PROVE PhaseInv'
  BY <1>6 DEF LoadDue
<1>7. ASSUME NEW j \in Jobs, LoadDueFails(j) PROVE PhaseInv'
  BY <1>7 DEF LoadDueFails
<1>8. ASSUME NEW j \in Jobs, SweepEnds(j) PROVE PhaseInv'
  BY <1>8 DEF SweepEnds
<1>9. ASSUME NEW j \in Jobs, Crash(j) PROVE PhaseInv'
  BY <1>9 DEF Crash
<1>10. ASSUME NEW j \in Jobs, NEW a \in Alerts,
             \/ StartTask(j, a) \/ PlanReturns(j, a)
             \/ ForecastReturns(j, a) \/ EvaluationRaises(j, a)
      PROVE  PhaseInv'
  <2>1. AssessmentMove(j, a)
    BY <1>10, AssessmentMoves
  <2>2. /\ a \in Slots /\ Redeliver \in Slots /\ a # Redeliver
        /\ phase[j] \in {"sweeping", "aborted"}
    BY <2>1 DEF AssessmentMove
  <2> SUFFICES ASSUME NEW i \in Jobs
               PROVE  /\ phase'[i] \notin {"sweeping", "aborted"} =>
                             \A b \in Alerts : pc'[i][b] = "idle"
                      /\ phase'[i] # "retrying" => pc'[i][Redeliver] = "idle" /\ pending'[i] = {}
                      /\ pc'[i][Redeliver] \in {"idle", "sending", "sent", "stamping"}
    OBVIOUS
  <2>3. CASE i = j
    BY <2>1, <2>2, <2>3 DEF AssessmentMove
  <2>4. CASE i # j
    BY <2>1, <2>2, <2>4 DEF AssessmentMove
  <2> QED
    BY <2>3, <2>4
<1>11. ASSUME NEW j \in Jobs, NEW a \in Alerts, InsertRow(j, a) PROVE PhaseInv'
  BY <1>11 DEF InsertRow
<1>12. ASSUME NEW j \in Jobs, NEW a \in Alerts, InsertConflicts(j, a) PROVE PhaseInv'
  BY <1>12 DEF InsertConflicts
<1>13. ASSUME NEW j \in Jobs, NEW a \in Alerts, InsertViolatesKey(j, a) PROVE PhaseInv'
  BY <1>13 DEF InsertViolatesKey
<1>14. ASSUME NEW j \in Jobs, NEW a \in Alerts, CommitInsert(j, a) PROVE PhaseInv'
  BY <1>14 DEF CommitInsert
<1>15. ASSUME NEW j \in Jobs, NEW a \in Alerts, InsertFails(j, a) PROVE PhaseInv'
  BY <1>15 DEF InsertFails
<1>16. ASSUME NEW j \in Jobs, NEW s \in Slots, SendAccepted(j, s) PROVE PhaseInv'
  BY <1>16 DEF SendAccepted
<1>17. ASSUME NEW j \in Jobs, NEW s \in Slots, SendRejected(j, s) PROVE PhaseInv'
  <2>1. RejectionMove(j, s)
    BY <1>17, RejectionMoves
  <2>2. Redeliver \in Slots /\ \A b \in Alerts : b \in Slots /\ b # Redeliver
    OBVIOUS
  <2> SUFFICES ASSUME NEW i \in Jobs
               PROVE  /\ phase'[i] \notin {"sweeping", "aborted"} =>
                             \A b \in Alerts : pc'[i][b] = "idle"
                      /\ phase'[i] # "retrying" => pc'[i][Redeliver] = "idle" /\ pending'[i] = {}
                      /\ pc'[i][Redeliver] \in {"idle", "sending", "sent", "stamping"}
    OBVIOUS
  <2>3. CASE i = j /\ s = Redeliver
    <3>1. phase[j] = "retrying" /\ \A b \in Alerts : pc[j][b] = "idle"
      BY <2>1, <2>3 DEF RejectionMove
    <3> QED
      BY <2>1, <2>2, <2>3, <3>1 DEF RejectionMove
  <2>4. CASE i = j /\ s # Redeliver
    <3>1. phase[j] \in {"sweeping", "aborted"}
      BY <2>1, <2>4 DEF RejectionMove
    <3> QED
      BY <2>1, <2>2, <2>4, <3>1 DEF RejectionMove
  <2>5. CASE i # j
    BY <2>1, <2>2, <2>5 DEF RejectionMove
  <2> QED
    BY <2>3, <2>4, <2>5
<1>18. ASSUME NEW j \in Jobs, NEW s \in Slots, Stamp(j, s) PROVE PhaseInv'
  BY <1>18 DEF Stamp
<1>19. ASSUME NEW j \in Jobs, NEW s \in Slots, CommitStamp(j, s) PROVE PhaseInv'
  BY <1>19 DEF CommitStamp
<1>20. ASSUME NEW j \in Jobs, NEW s \in Slots, StampUnreadable(j, s) PROVE PhaseInv'
  BY <1>20 DEF StampUnreadable
<1>21. ASSUME NEW j \in Jobs, NEW s \in Slots, StampFails(j, s) PROVE PhaseInv'
  BY <1>21 DEF StampFails
<1>22. ASSUME NEW a \in Alerts, CreateAlert(a) PROVE PhaseInv'
  BY <1>22 DEF CreateAlert
<1>23. ASSUME NEW a \in Alerts, DeleteAlert(a) PROVE PhaseInv'
  BY <1>23 DEF DeleteAlert
<1>24. CASE Advance
  BY <1>24 DEF Advance
<1>25. CASE UNCHANGED vars
  BY <1>25
<1> QED
  BY <1>1, <1>2, <1>3, <1>4, <1>5, <1>6, <1>7, <1>8, <1>9, <1>10, <1>11,
     <1>12, <1>13, <1>14, <1>15, <1>16, <1>17, <1>18, <1>19, <1>20, <1>21,
     <1>22, <1>23, <1>24, <1>25 DEF Next, Tick, Task, Deliver, Failure

\* Uncommitted work keeps holding the lock.
LEMMA LockStep ==
    ASSUME IInv, [Next]_vars
    PROVE  LockInv'
<1> USE NotifyAssumption DEF vars, tables, channel, session, pass, Slots,
     IInv, PhaseInv, LockInv, LockFree, TypeOK, Goto, Finish, Enter, Leave,
     Raise, RollbackAndRaise, Reset, Steps, Phases
<1>1. ASSUME NEW j \in Jobs, StartTick(j) PROVE LockInv'
  BY <1>1 DEF StartTick
<1>2. ASSUME NEW j \in Jobs, SelectPending(j) PROVE LockInv'
  BY <1>2 DEF SelectPending
<1>3. ASSUME NEW j \in Jobs, SelectPendingFails(j) PROVE LockInv'
  BY <1>3 DEF SelectPendingFails
<1>4. ASSUME NEW j \in Jobs, NextRetry(j) PROVE LockInv'
  BY <1>4 DEF NextRetry
<1>5. ASSUME NEW j \in Jobs, RetryPassEnds(j) PROVE LockInv'
  BY <1>5 DEF RetryPassEnds
<1>6. ASSUME NEW j \in Jobs, LoadDue(j) PROVE LockInv'
  BY <1>6 DEF LoadDue
<1>7. ASSUME NEW j \in Jobs, LoadDueFails(j) PROVE LockInv'
  BY <1>7 DEF LoadDueFails
<1>8. ASSUME NEW j \in Jobs, SweepEnds(j) PROVE LockInv'
  BY <1>8 DEF SweepEnds
<1>9. ASSUME NEW j \in Jobs, Crash(j) PROVE LockInv'
  BY <1>9 DEF Crash
<1>10. ASSUME NEW j \in Jobs, NEW a \in Alerts,
             \/ StartTask(j, a) \/ PlanReturns(j, a)
             \/ ForecastReturns(j, a) \/ EvaluationRaises(j, a)
      PROVE  LockInv'
  <2>1. AssessmentMove(j, a)
    BY <1>10, AssessmentMoves
  <2> SUFFICES ASSUME NEW i \in Jobs, NEW b \in Alerts,
                      pc'[i][b] \in {"inserted", "stamping"}
               PROVE  holder'[i] = b
    OBVIOUS
  <2>2. pc'[i][b] = pc[i][b]
    BY <2>1 DEF AssessmentMove
  <2> QED
    BY <2>1, <2>2 DEF AssessmentMove
<1>11. ASSUME NEW j \in Jobs, NEW a \in Alerts, InsertRow(j, a) PROVE LockInv'
  BY <1>11 DEF InsertRow
<1>12. ASSUME NEW j \in Jobs, NEW a \in Alerts, InsertConflicts(j, a) PROVE LockInv'
  BY <1>12 DEF InsertConflicts
<1>13. ASSUME NEW j \in Jobs, NEW a \in Alerts, InsertViolatesKey(j, a) PROVE LockInv'
  BY <1>13 DEF InsertViolatesKey
<1>14. ASSUME NEW j \in Jobs, NEW a \in Alerts, CommitInsert(j, a) PROVE LockInv'
  BY <1>14 DEF CommitInsert
<1>15. ASSUME NEW j \in Jobs, NEW a \in Alerts, InsertFails(j, a) PROVE LockInv'
  BY <1>15 DEF InsertFails
<1>16. ASSUME NEW j \in Jobs, NEW s \in Slots, SendAccepted(j, s) PROVE LockInv'
  BY <1>16 DEF SendAccepted
<1>17. ASSUME NEW j \in Jobs, NEW s \in Slots, SendRejected(j, s) PROVE LockInv'
  <2>1. RejectionMove(j, s)
    BY <1>17, RejectionMoves
  <2> SUFFICES ASSUME NEW i \in Jobs, NEW b \in Alerts,
                      pc'[i][b] \in {"inserted", "stamping"}
               PROVE  holder'[i] = b
    OBVIOUS
  <2>2. i # j \/ b # s
    BY <2>1 DEF RejectionMove
  <2>3. pc'[i][b] = pc[i][b]
    BY <2>1, <2>2 DEF RejectionMove
  <2> QED
    BY <2>1, <2>3 DEF RejectionMove
<1>18. ASSUME NEW j \in Jobs, NEW s \in Slots, Stamp(j, s) PROVE LockInv'
  BY <1>18 DEF Stamp
<1>19. ASSUME NEW j \in Jobs, NEW s \in Slots, CommitStamp(j, s) PROVE LockInv'
  BY <1>19 DEF CommitStamp
<1>20. ASSUME NEW j \in Jobs, NEW s \in Slots, StampUnreadable(j, s) PROVE LockInv'
  BY <1>20 DEF StampUnreadable
<1>21. ASSUME NEW j \in Jobs, NEW s \in Slots, StampFails(j, s) PROVE LockInv'
  BY <1>21 DEF StampFails
<1>22. ASSUME NEW a \in Alerts, CreateAlert(a) PROVE LockInv'
  BY <1>22 DEF CreateAlert
<1>23. ASSUME NEW a \in Alerts, DeleteAlert(a) PROVE LockInv'
  BY <1>23 DEF DeleteAlert
<1>24. CASE Advance
  BY <1>24 DEF Advance
<1>25. CASE UNCHANGED vars
  BY <1>25
<1> QED
  BY <1>1, <1>2, <1>3, <1>4, <1>5, <1>6, <1>7, <1>8, <1>9, <1>10, <1>11,
     <1>12, <1>13, <1>14, <1>15, <1>16, <1>17, <1>18, <1>19, <1>20, <1>21,
     <1>22, <1>23, <1>24, <1>25 DEF Next, Tick, Task, Deliver, Failure

\* A session only expires for a reason that stays on record.
LEMMA CauseStep ==
    ASSUME IInv, [Next]_vars
    PROVE  CauseInv'
<1> USE NotifyAssumption DEF vars, tables, channel, session, pass, Slots,
     IInv, CauseInv, Raise, RollbackAndRaise, Reset, Fault, StatementFails,
     TypeOK
<1>1. ASSUME NEW j \in Jobs, StartTick(j) PROVE CauseInv'
  BY <1>1 DEF StartTick
<1>2. ASSUME NEW j \in Jobs, SelectPending(j) PROVE CauseInv'
  BY <1>2 DEF SelectPending
<1>3. ASSUME NEW j \in Jobs, SelectPendingFails(j) PROVE CauseInv'
  BY <1>3 DEF SelectPendingFails
<1>4. ASSUME NEW j \in Jobs, NextRetry(j) PROVE CauseInv'
  BY <1>4 DEF NextRetry
<1>5. ASSUME NEW j \in Jobs, RetryPassEnds(j) PROVE CauseInv'
  BY <1>5 DEF RetryPassEnds
<1>6. ASSUME NEW j \in Jobs, LoadDue(j) PROVE CauseInv'
  BY <1>6 DEF LoadDue
<1>7. ASSUME NEW j \in Jobs, LoadDueFails(j) PROVE CauseInv'
  BY <1>7 DEF LoadDueFails
<1>8. ASSUME NEW j \in Jobs, SweepEnds(j) PROVE CauseInv'
  BY <1>8 DEF SweepEnds
<1>9. ASSUME NEW j \in Jobs, Crash(j) PROVE CauseInv'
  BY <1>9 DEF Crash
<1>10. ASSUME NEW j \in Jobs, NEW a \in Alerts,
             \/ StartTask(j, a) \/ PlanReturns(j, a)
             \/ ForecastReturns(j, a) \/ EvaluationRaises(j, a)
      PROVE  CauseInv'
  <2>1. AssessmentMove(j, a)
    BY <1>10, AssessmentMoves
  <2> QED
    BY <2>1 DEF AssessmentMove
<1>11. ASSUME NEW j \in Jobs, NEW a \in Alerts, InsertRow(j, a) PROVE CauseInv'
  BY <1>11 DEF InsertRow
<1>12. ASSUME NEW j \in Jobs, NEW a \in Alerts, InsertConflicts(j, a) PROVE CauseInv'
  BY <1>12 DEF InsertConflicts
<1>13. ASSUME NEW j \in Jobs, NEW a \in Alerts, InsertViolatesKey(j, a) PROVE CauseInv'
  BY <1>13 DEF InsertViolatesKey
<1>14. ASSUME NEW j \in Jobs, NEW a \in Alerts, CommitInsert(j, a) PROVE CauseInv'
  BY <1>14 DEF CommitInsert, Recorded
<1>15. ASSUME NEW j \in Jobs, NEW a \in Alerts, InsertFails(j, a) PROVE CauseInv'
  BY <1>15 DEF InsertFails, Recorded
<1>16. ASSUME NEW j \in Jobs, NEW s \in Slots, SendAccepted(j, s) PROVE CauseInv'
  BY <1>16 DEF SendAccepted
<1>17. ASSUME NEW j \in Jobs, NEW s \in Slots, SendRejected(j, s) PROVE CauseInv'
  <2>1. RejectionMove(j, s)
    BY <1>17, RejectionMoves
  <2> QED
    BY <2>1 DEF RejectionMove
<1>18. ASSUME NEW j \in Jobs, NEW s \in Slots, Stamp(j, s) PROVE CauseInv'
  BY <1>18 DEF Stamp
<1>19. ASSUME NEW j \in Jobs, NEW s \in Slots, CommitStamp(j, s) PROVE CauseInv'
  BY <1>19 DEF CommitStamp, Stamped
<1>20. ASSUME NEW j \in Jobs, NEW s \in Slots, StampUnreadable(j, s) PROVE CauseInv'
  BY <1>20 DEF StampUnreadable
<1>21. ASSUME NEW j \in Jobs, NEW s \in Slots, StampFails(j, s) PROVE CauseInv'
  BY <1>21 DEF StampFails, Stamped
<1>22. ASSUME NEW a \in Alerts, CreateAlert(a) PROVE CauseInv'
  BY <1>22 DEF CreateAlert
<1>23. ASSUME NEW a \in Alerts, DeleteAlert(a) PROVE CauseInv'
  BY <1>23 DEF DeleteAlert
<1>24. CASE Advance
  BY <1>24 DEF Advance
<1>25. CASE UNCHANGED vars
  BY <1>25
<1> QED
  BY <1>1, <1>2, <1>3, <1>4, <1>5, <1>6, <1>7, <1>8, <1>9, <1>10, <1>11,
     <1>12, <1>13, <1>14, <1>15, <1>16, <1>17, <1>18, <1>19, <1>20, <1>21,
     <1>22, <1>23, <1>24, <1>25 DEF Next, Tick, Task, Deliver, Failure

\* A task that is under way is about a day on which its alert recurs.
LEMMA TaskDay ==
    ASSUME TypeOK, TaskInv, NEW j \in Jobs, NEW a \in Alerts, pc[j][a] # "idle"
    PROVE  Weekday(Key(j, a)[2]) \in Recurs[a]
<1>1. Due(Recurs[a], Departure[a], now[j])
  BY DEF TaskInv
<1>2. Departure[a] \in Times /\ now[j] \in Nat
  BY NotifyAssumption DEF TypeOK
<1>3. Weekday(NextDepartureDay(Departure[a], now[j])) \in Recurs[a]
  BY <1>1, <1>2, DueRecurs
<1> QED
  BY <1>3, TaskKey

\* Rows and history: recorded on a right day, sent when recorded, stamped when
\* sent, and gone only with the alert.
LEMMA TableStep ==
    ASSUME IInv, [Next]_vars
    PROVE  (OutboxHonest /\ RightDay /\ PurgeInv)'
<1> USE NotifyAssumption DEF vars, tables, channel, session, pass, Slots,
     IInv, OutboxHonest, RightDay, PurgeInv, TypeOK
<1>1. ASSUME NEW j \in Jobs, StartTick(j) PROVE (OutboxHonest /\ RightDay /\ PurgeInv)'
  BY <1>1 DEF StartTick
<1>2. ASSUME NEW j \in Jobs, SelectPending(j) PROVE (OutboxHonest /\ RightDay /\ PurgeInv)'
  BY <1>2 DEF SelectPending
<1>3. ASSUME NEW j \in Jobs, SelectPendingFails(j) PROVE (OutboxHonest /\ RightDay /\ PurgeInv)'
  BY <1>3 DEF SelectPendingFails
<1>4. ASSUME NEW j \in Jobs, NextRetry(j) PROVE (OutboxHonest /\ RightDay /\ PurgeInv)'
  BY <1>4 DEF NextRetry
<1>5. ASSUME NEW j \in Jobs, RetryPassEnds(j) PROVE (OutboxHonest /\ RightDay /\ PurgeInv)'
  BY <1>5 DEF RetryPassEnds
<1>6. ASSUME NEW j \in Jobs, LoadDue(j) PROVE (OutboxHonest /\ RightDay /\ PurgeInv)'
  BY <1>6 DEF LoadDue
<1>7. ASSUME NEW j \in Jobs, LoadDueFails(j) PROVE (OutboxHonest /\ RightDay /\ PurgeInv)'
  BY <1>7 DEF LoadDueFails
<1>8. ASSUME NEW j \in Jobs, SweepEnds(j) PROVE (OutboxHonest /\ RightDay /\ PurgeInv)'
  BY <1>8 DEF SweepEnds
<1>9. ASSUME NEW j \in Jobs, Crash(j) PROVE (OutboxHonest /\ RightDay /\ PurgeInv)'
  BY <1>9 DEF Crash
<1>10. ASSUME NEW j \in Jobs, NEW a \in Alerts,
             \/ StartTask(j, a) \/ PlanReturns(j, a)
             \/ ForecastReturns(j, a) \/ EvaluationRaises(j, a)
      PROVE  (OutboxHonest /\ RightDay /\ PurgeInv)'
  <2>1. AssessmentMove(j, a)
    BY <1>10, AssessmentMoves
  <2> QED
    BY <2>1 DEF AssessmentMove
<1>11. ASSUME NEW j \in Jobs, NEW a \in Alerts, InsertRow(j, a) PROVE (OutboxHonest /\ RightDay /\ PurgeInv)'
  BY <1>11 DEF InsertRow
<1>12. ASSUME NEW j \in Jobs, NEW a \in Alerts, InsertConflicts(j, a) PROVE (OutboxHonest /\ RightDay /\ PurgeInv)'
  BY <1>12 DEF InsertConflicts
<1>13. ASSUME NEW j \in Jobs, NEW a \in Alerts, InsertViolatesKey(j, a) PROVE (OutboxHonest /\ RightDay /\ PurgeInv)'
  BY <1>13 DEF InsertViolatesKey
<1>14. ASSUME NEW j \in Jobs, NEW a \in Alerts, CommitInsert(j, a) PROVE (OutboxHonest /\ RightDay /\ PurgeInv)'
  <2>1. /\ Key(j, a) \in Keys /\ Key(j, a)[1] = a /\ pc[j][a] # "idle"
        /\ Weekday(Key(j, a)[2]) \in Recurs[a]
    BY <1>14, TaskKey, TaskDay DEF CommitInsert, InsertFails
  <2> QED
    BY <1>14, <2>1 DEF CommitInsert, InsertFails, Recorded
<1>15. ASSUME NEW j \in Jobs, NEW a \in Alerts, InsertFails(j, a) PROVE (OutboxHonest /\ RightDay /\ PurgeInv)'
  <2>1. /\ Key(j, a) \in Keys /\ Key(j, a)[1] = a /\ pc[j][a] # "idle"
        /\ Weekday(Key(j, a)[2]) \in Recurs[a]
    BY <1>15, TaskKey, TaskDay DEF CommitInsert, InsertFails
  <2> QED
    BY <1>15, <2>1 DEF CommitInsert, InsertFails, Recorded
<1>16. ASSUME NEW j \in Jobs, NEW s \in Slots, SendAccepted(j, s) PROVE (OutboxHonest /\ RightDay /\ PurgeInv)'
  BY <1>16, BusyKey, RetryKey DEF SendAccepted, RetryInv, TaskInv
<1>17. ASSUME NEW j \in Jobs, NEW s \in Slots, SendRejected(j, s) PROVE (OutboxHonest /\ RightDay /\ PurgeInv)'
  <2>1. RejectionMove(j, s)
    BY <1>17, RejectionMoves
  <2> QED
    BY <2>1 DEF RejectionMove
<1>18. ASSUME NEW j \in Jobs, NEW s \in Slots, Stamp(j, s) PROVE (OutboxHonest /\ RightDay /\ PurgeInv)'
  BY <1>18 DEF Stamp
<1>19. ASSUME NEW j \in Jobs, NEW s \in Slots, CommitStamp(j, s) PROVE (OutboxHonest /\ RightDay /\ PurgeInv)'
  BY <1>19, BusyKey DEF CommitStamp, Stamped, SentInv
<1>20. ASSUME NEW j \in Jobs, NEW s \in Slots, StampUnreadable(j, s) PROVE (OutboxHonest /\ RightDay /\ PurgeInv)'
  BY <1>20 DEF StampUnreadable
<1>21. ASSUME NEW j \in Jobs, NEW s \in Slots, StampFails(j, s) PROVE (OutboxHonest /\ RightDay /\ PurgeInv)'
  BY <1>21, BusyKey DEF StampFails, Stamped, SentInv
<1>22. ASSUME NEW a \in Alerts, CreateAlert(a) PROVE (OutboxHonest /\ RightDay /\ PurgeInv)'
  BY <1>22 DEF CreateAlert
<1>23. ASSUME NEW a \in Alerts, DeleteAlert(a) PROVE (OutboxHonest /\ RightDay /\ PurgeInv)'
  BY <1>23 DEF DeleteAlert
<1>24. CASE Advance
  BY <1>24 DEF Advance
<1>25. CASE UNCHANGED vars
  BY <1>25
<1> QED
  BY <1>1, <1>2, <1>3, <1>4, <1>5, <1>6, <1>7, <1>8, <1>9, <1>10, <1>11,
     <1>12, <1>13, <1>14, <1>15, <1>16, <1>17, <1>18, <1>19, <1>20, <1>21,
     <1>22, <1>23, <1>24, <1>25 DEF Next, Tick, Task, Deliver, Failure

\* A step leaves the uncommitted rows of all tasks as it found them.
InsertsKept ==
    \A i \in Jobs, b \in Alerts :
        pc'[i][b] = "inserted" => /\ pc[i][b] = "inserted"
                                  /\ now'[i] = now[i]
                                  /\ alerts'[b] = "active"
                                  /\ row'[Key(i, b)] = "none"

\* Only a new INSERT adds to the uncommitted rows.
LEMMA InsertsKeptStep ==
    ASSUME IInv, [Next]_vars
    PROVE  InsertsKept \/ \E i \in Jobs, b \in Alerts : InsertRow(i, b)
<1> USE NotifyAssumption DEF vars, tables, channel, session, pass, Slots,
     IInv, TypeOK, InsertsKept, InsertInv, Goto, Finish, Raise,
     RollbackAndRaise, Reset
<1>1. ASSUME NEW j \in Jobs, StartTick(j) PROVE InsertsKept \/ \E i \in Jobs, b \in Alerts : InsertRow(i, b)
  <2> SUFFICES ASSUME NEW i \in Jobs, NEW b \in Alerts, pc'[i][b] = "inserted"
               PROVE  /\ pc[i][b] = "inserted" /\ now'[i] = now[i]
                      /\ alerts'[b] = "active" /\ row'[Key(i, b)] = "none"
    BY DEF InsertsKept
  <2>1. pc[i][b] = "inserted" /\ i # j
    BY <1>1 DEF StartTick, PhaseInv
  <2> QED
    BY <1>1, <2>1 DEF StartTick
<1>2. ASSUME NEW j \in Jobs, SelectPending(j) PROVE InsertsKept \/ \E i \in Jobs, b \in Alerts : InsertRow(i, b)
  BY <1>2 DEF SelectPending
<1>3. ASSUME NEW j \in Jobs, SelectPendingFails(j) PROVE InsertsKept \/ \E i \in Jobs, b \in Alerts : InsertRow(i, b)
  BY <1>3 DEF SelectPendingFails
<1>4. ASSUME NEW j \in Jobs, NextRetry(j) PROVE InsertsKept \/ \E i \in Jobs, b \in Alerts : InsertRow(i, b)
  BY <1>4 DEF NextRetry
<1>5. ASSUME NEW j \in Jobs, RetryPassEnds(j) PROVE InsertsKept \/ \E i \in Jobs, b \in Alerts : InsertRow(i, b)
  BY <1>5 DEF RetryPassEnds
<1>6. ASSUME NEW j \in Jobs, LoadDue(j) PROVE InsertsKept \/ \E i \in Jobs, b \in Alerts : InsertRow(i, b)
  BY <1>6 DEF LoadDue
<1>7. ASSUME NEW j \in Jobs, LoadDueFails(j) PROVE InsertsKept \/ \E i \in Jobs, b \in Alerts : InsertRow(i, b)
  BY <1>7 DEF LoadDueFails
<1>8. ASSUME NEW j \in Jobs, SweepEnds(j) PROVE InsertsKept \/ \E i \in Jobs, b \in Alerts : InsertRow(i, b)
  BY <1>8 DEF SweepEnds
<1>9. ASSUME NEW j \in Jobs, Crash(j) PROVE InsertsKept \/ \E i \in Jobs, b \in Alerts : InsertRow(i, b)
  BY <1>9 DEF Crash
<1>10. ASSUME NEW j \in Jobs, NEW a \in Alerts,
             \/ StartTask(j, a) \/ PlanReturns(j, a)
             \/ ForecastReturns(j, a) \/ EvaluationRaises(j, a)
      PROVE  InsertsKept \/ \E i \in Jobs, b \in Alerts : InsertRow(i, b)
  <2>1. AssessmentMove(j, a)
    BY <1>10, AssessmentMoves
  <2> SUFFICES ASSUME NEW i \in Jobs, NEW b \in Alerts, pc'[i][b] = "inserted"
               PROVE  /\ pc[i][b] = "inserted" /\ now'[i] = now[i]
                      /\ alerts'[b] = "active" /\ row'[Key(i, b)] = "none"
    BY DEF InsertsKept
  <2>2. pc[i][b] = "inserted"
    <3>1. b \in Slots /\ (i # j \/ b # a)
      BY <2>1 DEF AssessmentMove
    <3> QED
      BY <2>1, <3>1 DEF AssessmentMove
  <2> QED
    BY <2>1, <2>2 DEF AssessmentMove
<1>11. ASSUME NEW j \in Jobs, NEW a \in Alerts, InsertRow(j, a) PROVE InsertsKept \/ \E i \in Jobs, b \in Alerts : InsertRow(i, b)
  BY <1>11 DEF InsertRow
<1>12. ASSUME NEW j \in Jobs, NEW a \in Alerts, InsertConflicts(j, a) PROVE InsertsKept \/ \E i \in Jobs, b \in Alerts : InsertRow(i, b)
  BY <1>12 DEF InsertConflicts
<1>13. ASSUME NEW j \in Jobs, NEW a \in Alerts, InsertViolatesKey(j, a) PROVE InsertsKept \/ \E i \in Jobs, b \in Alerts : InsertRow(i, b)
  BY <1>13 DEF InsertViolatesKey
<1>14. ASSUME NEW j \in Jobs, NEW a \in Alerts, CommitInsert(j, a) PROVE InsertsKept \/ \E i \in Jobs, b \in Alerts : InsertRow(i, b)
  <2>1. /\ Key(j, a) \in Keys /\ Key(j, a)[1] = a /\ a \in Slots /\ a # Redeliver
        /\ pc'[j][a] # "inserted"
        /\ \A i \in Jobs, t \in Slots : i # j \/ t # a => pc'[i][t] = pc[i][t]
        /\ UNCHANGED <<now, alerts>>
        /\ row' = row \/ (pc[j][a] = "inserted" /\ row' = [row EXCEPT ![Key(j, a)] = "recorded"])
    <3>1. Key(j, a) \in Keys /\ Key(j, a)[1] = a /\ a \in Slots /\ a # Redeliver
      BY TaskKey
    <3>2. Goto(j, a, "sending") \/ Raise(j, a, TRUE)
      BY <1>14 DEF CommitInsert, InsertFails, RollbackAndRaise
    <3>3. /\ pc'[j][a] # "inserted"
          /\ \A i \in Jobs, t \in Slots : i # j \/ t # a => pc'[i][t] = pc[i][t]
      BY <3>1, <3>2, GotoMoves, RaiseMoves
    <3> QED
      BY <1>14, <3>1, <3>3 DEF CommitInsert, InsertFails, Recorded
  <2> SUFFICES ASSUME NEW i \in Jobs, NEW b \in Alerts, pc'[i][b] = "inserted"
               PROVE  /\ pc[i][b] = "inserted" /\ now'[i] = now[i]
                      /\ alerts'[b] = "active" /\ row'[Key(i, b)] = "none"
    BY DEF InsertsKept
  <2>2. /\ i # j \/ b # a
        /\ pc[i][b] = "inserted" /\ now'[i] = now[i] /\ alerts'[b] = "active"
        /\ row[Key(i, b)] = "none"
    BY <2>1 DEF InsertInv
  <2>3. Key(i, b) \in Keys /\ Key(i, b)[1] = b
    BY TaskKey
  <2>4. row' = row \/ Key(i, b) # Key(j, a)
    BY <2>1, <2>2, <2>3 DEF InsertInv
  <2> QED
    BY <2>1, <2>2, <2>3, <2>4
<1>15. ASSUME NEW j \in Jobs, NEW a \in Alerts, InsertFails(j, a) PROVE InsertsKept \/ \E i \in Jobs, b \in Alerts : InsertRow(i, b)
  <2>1. /\ Key(j, a) \in Keys /\ Key(j, a)[1] = a /\ a \in Slots /\ a # Redeliver
        /\ pc'[j][a] # "inserted"
        /\ \A i \in Jobs, t \in Slots : i # j \/ t # a => pc'[i][t] = pc[i][t]
        /\ UNCHANGED <<now, alerts>>
        /\ row' = row \/ (pc[j][a] = "inserted" /\ row' = [row EXCEPT ![Key(j, a)] = "recorded"])
    <3>1. Key(j, a) \in Keys /\ Key(j, a)[1] = a /\ a \in Slots /\ a # Redeliver
      BY TaskKey
    <3>2. Goto(j, a, "sending") \/ Raise(j, a, TRUE)
      BY <1>15 DEF CommitInsert, InsertFails, RollbackAndRaise
    <3>3. /\ pc'[j][a] # "inserted"
          /\ \A i \in Jobs, t \in Slots : i # j \/ t # a => pc'[i][t] = pc[i][t]
      BY <3>1, <3>2, GotoMoves, RaiseMoves
    <3> QED
      BY <1>15, <3>1, <3>3 DEF CommitInsert, InsertFails, Recorded
  <2> SUFFICES ASSUME NEW i \in Jobs, NEW b \in Alerts, pc'[i][b] = "inserted"
               PROVE  /\ pc[i][b] = "inserted" /\ now'[i] = now[i]
                      /\ alerts'[b] = "active" /\ row'[Key(i, b)] = "none"
    BY DEF InsertsKept
  <2>2. /\ i # j \/ b # a
        /\ pc[i][b] = "inserted" /\ now'[i] = now[i] /\ alerts'[b] = "active"
        /\ row[Key(i, b)] = "none"
    BY <2>1 DEF InsertInv
  <2>3. Key(i, b) \in Keys /\ Key(i, b)[1] = b
    BY TaskKey
  <2>4. row' = row \/ Key(i, b) # Key(j, a)
    BY <2>1, <2>2, <2>3 DEF InsertInv
  <2> QED
    BY <2>1, <2>2, <2>3, <2>4
<1>16. ASSUME NEW j \in Jobs, NEW s \in Slots, SendAccepted(j, s) PROVE InsertsKept \/ \E i \in Jobs, b \in Alerts : InsertRow(i, b)
  BY <1>16 DEF SendAccepted
<1>17. ASSUME NEW j \in Jobs, NEW s \in Slots, SendRejected(j, s) PROVE InsertsKept \/ \E i \in Jobs, b \in Alerts : InsertRow(i, b)
  <2>1. RejectionMove(j, s)
    BY <1>17, RejectionMoves
  <2> SUFFICES ASSUME NEW i \in Jobs, NEW b \in Alerts, pc'[i][b] = "inserted"
               PROVE  /\ pc[i][b] = "inserted" /\ now'[i] = now[i]
                      /\ alerts'[b] = "active" /\ row'[Key(i, b)] = "none"
    BY DEF InsertsKept
  <2>2. pc[i][b] = "inserted"
    <3>1. b \in Slots /\ (i # j \/ b # s)
      BY <2>1 DEF RejectionMove
    <3> QED
      BY <2>1, <3>1 DEF RejectionMove
  <2> QED
    BY <2>1, <2>2 DEF RejectionMove
<1>18. ASSUME NEW j \in Jobs, NEW s \in Slots, Stamp(j, s) PROVE InsertsKept \/ \E i \in Jobs, b \in Alerts : InsertRow(i, b)
  BY <1>18 DEF Stamp
<1>19. ASSUME NEW j \in Jobs, NEW s \in Slots, CommitStamp(j, s) PROVE InsertsKept \/ \E i \in Jobs, b \in Alerts : InsertRow(i, b)
  BY <1>19 DEF CommitStamp, Stamped
<1>20. ASSUME NEW j \in Jobs, NEW s \in Slots, StampUnreadable(j, s) PROVE InsertsKept \/ \E i \in Jobs, b \in Alerts : InsertRow(i, b)
  BY <1>20 DEF StampUnreadable
<1>21. ASSUME NEW j \in Jobs, NEW s \in Slots, StampFails(j, s) PROVE InsertsKept \/ \E i \in Jobs, b \in Alerts : InsertRow(i, b)
  <2> SUFFICES ASSUME NEW i \in Jobs, NEW b \in Alerts, pc'[i][b] = "inserted"
               PROVE  /\ pc[i][b] = "inserted" /\ now'[i] = now[i]
                      /\ alerts'[b] = "active" /\ row'[Key(i, b)] = "none"
    BY DEF InsertsKept
  <2>1. Raise(j, s, TRUE)
    BY <1>21 DEF StampFails
  <2>2. pc[i][b] = "inserted"
    BY <2>1, RaiseMoves
  <2>3. alerts[b] = "active" /\ row[Key(i, b)] = "none" /\ UNCHANGED <<alerts, now>>
    BY <1>21, <2>2 DEF StampFails, Stamped
  <2>4. row' = row \/ row' = [row EXCEPT ![Key(j, s)] = IF @ = "none" THEN "none" ELSE "delivered"]
    BY <1>21 DEF StampFails, Stamped
  <2>5. Key(i, b) \in Keys
    BY TaskKey
  <2> QED
    BY <2>2, <2>3, <2>4, <2>5
<1>22. ASSUME NEW a \in Alerts, CreateAlert(a) PROVE InsertsKept \/ \E i \in Jobs, b \in Alerts : InsertRow(i, b)
  BY <1>22 DEF CreateAlert
<1>23. ASSUME NEW a \in Alerts, DeleteAlert(a) PROVE InsertsKept \/ \E i \in Jobs, b \in Alerts : InsertRow(i, b)
  <2> SUFFICES ASSUME NEW i \in Jobs, NEW b \in Alerts, pc'[i][b] = "inserted"
               PROVE  /\ pc[i][b] = "inserted" /\ now'[i] = now[i]
                      /\ alerts'[b] = "active" /\ row'[Key(i, b)] = "none"
    BY DEF InsertsKept
  <2>1. /\ pc[i][b] = "inserted" /\ Key(i, b)[1] # a /\ UNCHANGED now
        /\ alerts[b] = "active" /\ row[Key(i, b)] = "none"
    BY <1>23 DEF DeleteAlert
  <2>2. Key(i, b) \in Keys /\ Key(i, b)[1] = b
    BY TaskKey
  <2> QED
    BY <1>23, <2>1, <2>2 DEF DeleteAlert
<1>24. CASE Advance
  BY <1>24 DEF Advance
<1>25. CASE UNCHANGED vars
  BY <1>25
<1> QED
  BY <1>1, <1>2, <1>3, <1>4, <1>5, <1>6, <1>7, <1>8, <1>9, <1>10, <1>11,
     <1>12, <1>13, <1>14, <1>15, <1>16, <1>17, <1>18, <1>19, <1>20, <1>21,
     <1>22, <1>23, <1>24, <1>25 DEF Next, Tick, Task, Deliver, Failure

\* An uncommitted row stays the only one for its key: nobody else inserts that
\* key, stamps it or deletes its alert meanwhile (RowFree, DeleteAlert).
LEMMA InsertStep ==
    ASSUME IInv, [Next]_vars
    PROVE  InsertInv'
<1> USE DEF IInv
<1>1. CASE InsertsKept
  <2> SUFFICES ASSUME NEW j \in Jobs, NEW a \in Alerts, pc'[j][a] = "inserted"
               PROVE  /\ alerts'[a] = "active" /\ row'[Key(j, a)'] = "none"
                      /\ \A i \in Jobs \ {j} :
                           pc'[i][a] = "inserted" => Key(i, a)' # Key(j, a)'
    BY DEF InsertInv
  <2>1. \A i \in Jobs : pc'[i][a] = "inserted" => Key(i, a)' = Key(i, a)
    BY <1>1, NotifyAssumption DEF InsertsKept, Key
  <2> QED
    BY <1>1, <2>1 DEF InsertsKept, InsertInv
<1>2. ASSUME NEW j \in Jobs, NEW a \in Alerts, InsertRow(j, a) PROVE InsertInv'
  <2>1. /\ a \in Slots /\ alerts[a] = "active" /\ row[Key(j, a)] = "none"
        /\ RowFree(j, Key(j, a))
        /\ UNCHANGED <<alerts, row, now>>
        /\ Goto(j, a, "inserted")
    BY <1>2 DEF InsertRow, tables, Slots
  <2>2. \A i \in Jobs, t \in Slots : i # j \/ t # a => pc'[i][t] = pc[i][t]
    BY <2>1, GotoMoves
  <2>3. \A i \in Jobs, b \in Alerts : Key(i, b)' = Key(i, b)
    BY <2>1, NotifyAssumption DEF Key
  <2> SUFFICES ASSUME NEW i \in Jobs, NEW b \in Alerts, pc'[i][b] = "inserted"
               PROVE  /\ alerts[b] = "active" /\ row[Key(i, b)] = "none"
                      /\ \A h \in Jobs \ {i} :
                           pc'[h][b] = "inserted" => Key(h, b) # Key(i, b)
    BY <2>1, <2>3 DEF InsertInv
  <2>4. CASE i = j /\ b = a
    BY <2>1, <2>2, <2>4 DEF RowFree, Slots
  <2>5. CASE i # j \/ b # a
    BY <2>1, <2>2, <2>5 DEF RowFree, Slots, InsertInv
  <2> QED
    BY <2>4, <2>5
<1> QED
  BY <1>1, <1>2, InsertsKeptStep

\* The steps of one task, or of the retry pass with the row it is trying.
SlotAction(j, s) ==
    \/ s \in Alerts /\ (Task(j, s) \/ EvaluationRaises(j, s) \/ InsertFails(j, s))
    \/ Deliver(j, s) \/ StampFails(j, s)

\* What they have in common.
SlotMove(j, s) ==
    /\ pc[j][s] # "idle"
    /\ \A i \in Jobs, t \in Slots : i # j \/ t # s => pc'[i][t] = pc[i][t]
    /\ pc'[j][s] = "sending" => Key(j, s) \in logged'
    /\ pc'[j][s] = "sent" => Key(j, s) \in accepted'
    /\ pc'[j][s] = "stamping" => pc[j][s] = "sent"
    /\ pc'[j][s] \in {"sent", "stamping"} => pc[j][s] \in {"sending", "sent"}
    /\ \A i \in Jobs : pending'[i] \subseteq pending[i]
    /\ logged \subseteq logged' /\ accepted \subseteq accepted'
    /\ UNCHANGED <<now, current>>

\* Every step of a task, and of the retry pass with its row, is such a step.
LEMMA SlotMoves ==
    ASSUME TypeOK, NEW j \in Jobs, NEW s \in Slots, SlotAction(j, s)
    PROVE  SlotMove(j, s)
<1> USE DEF SlotMove, tables, channel, pass
<1>1. ASSUME s \in Alerts,
             \/ StartTask(j, s) \/ PlanReturns(j, s)
             \/ ForecastReturns(j, s) \/ EvaluationRaises(j, s)
      PROVE  SlotMove(j, s)
  <2>1. AssessmentMove(j, s)
    BY <1>1, AssessmentMoves
  <2> QED
    BY <2>1 DEF AssessmentMove
<1>2. CASE InsertRow(j, s)
  BY <1>2, GotoMoves DEF InsertRow
<1>3. CASE InsertConflicts(j, s)
  BY <1>3, FinishMoves DEF InsertConflicts
<1>4. CASE InsertViolatesKey(j, s)
  BY <1>4, RaiseMoves DEF InsertViolatesKey, RollbackAndRaise
<1>5. CASE CommitInsert(j, s)
  BY <1>5, GotoMoves DEF CommitInsert, Recorded
<1>6. CASE InsertFails(j, s)
  BY <1>6, RaiseMoves DEF InsertFails, RollbackAndRaise, Recorded
<1>7. CASE SendAccepted(j, s)
  BY <1>7, GotoMoves DEF SendAccepted
<1>8. CASE SendRejected(j, s)
  <2>1. RejectionMove(j, s)
    BY <1>8, RejectionMoves
  <2> QED
    BY <2>1 DEF RejectionMove
<1>9. CASE Stamp(j, s)
  BY <1>9, GotoMoves DEF Stamp
<1>10. CASE CommitStamp(j, s)
  BY <1>10, FinishMoves DEF CommitStamp, Stamped
<1>11. CASE StampUnreadable(j, s)
  BY <1>11, RaiseMoves DEF StampUnreadable, RollbackAndRaise
<1>12. CASE StampFails(j, s)
  BY <1>12, RaiseMoves DEF StampFails, RollbackAndRaise, Stamped
<1> QED
  BY <1>1, <1>2, <1>3, <1>4, <1>5, <1>6, <1>7, <1>8,
     <1>9, <1>10, <1>11, <1>12 DEF SlotAction, Task, Deliver

\* Every other step: of a job as a whole, or from outside the jobs.
LEMMA StepKinds ==
    ASSUME [Next]_vars
    PROVE  \/ \E j \in Jobs : \/ Tick(j) \/ SelectPendingFails(j)
                              \/ LoadDueFails(j) \/ Crash(j)
           \/ \E j \in Jobs, s \in Slots : SlotAction(j, s)
           \/ UNCHANGED <<logged, channel, phase, now, pass, pc, session>>
<1>1. CASE \E a \in Alerts : CreateAlert(a) \/ DeleteAlert(a)
  BY <1>1 DEF CreateAlert, DeleteAlert
<1>2. CASE Advance
  BY <1>2 DEF Advance, tables
<1>3. CASE UNCHANGED vars
  BY <1>3 DEF vars, tables
<1>4. CASE \E j \in Jobs : \/ Tick(j) \/ Failure(j)
                           \/ \E a \in Alerts : Task(j, a)
                           \/ \E s \in Slots : Deliver(j, s)
  BY <1>4 DEF Failure, SlotAction, Slots
<1> QED
  BY <1>1, <1>2, <1>3, <1>4 DEF Next

\* A key does not change while the job's stamp and current row do not.
LEMMA TaskKeyStable ==
    ASSUME NEW i, NEW b \in Alerts, now'[i] = now[i]
    PROVE  Key(i, b)' = Key(i, b)
  BY NotifyAssumption DEF Key

\* The retry pass keeps to recorded rows of days that are not over.
LEMMA RetryStep ==
    ASSUME IInv, [Next]_vars
    PROVE  RetryInv'
<1> USE DEF IInv
<1>1. ASSUME NEW j \in Jobs, StartTick(j) PROVE RetryInv'
  BY <1>1 DEF StartTick, TypeOK, RetryInv, PhaseInv, Reset, Goto, Slots, tables, pass
<1>2. ASSUME NEW j \in Jobs, SelectPending(j) PROVE RetryInv'
  BY <1>2 DEF SelectPending, TypeOK, RetryInv, PhaseInv, Retriable, OutboxHonest, tables
<1>3. ASSUME NEW j \in Jobs, SelectPendingFails(j) PROVE RetryInv'
  BY <1>3 DEF SelectPendingFails, TypeOK, RetryInv, PhaseInv, Reset, Goto, Slots, tables, pass
<1>4. ASSUME NEW j \in Jobs, NextRetry(j) PROVE RetryInv'
  BY <1>4 DEF NextRetry, TypeOK, RetryInv, PhaseInv, Reset, Goto, Slots, tables, pass
<1>5. ASSUME NEW j \in Jobs, RetryPassEnds(j) PROVE RetryInv'
  BY <1>5 DEF RetryPassEnds, TypeOK, RetryInv, PhaseInv, Reset, Goto, Slots, tables, pass
<1>6. ASSUME NEW j \in Jobs, LoadDue(j) PROVE RetryInv'
  BY <1>6, NotifyAssumption DEF LoadDue, TypeOK, RetryInv, PhaseInv, Reset, Goto, Slots, tables, pass
<1>7. ASSUME NEW j \in Jobs, LoadDueFails(j) PROVE RetryInv'
  BY <1>7 DEF LoadDueFails, TypeOK, RetryInv, PhaseInv, Reset, Goto, Slots, tables, pass
<1>8. ASSUME NEW j \in Jobs, SweepEnds(j) PROVE RetryInv'
  BY <1>8 DEF SweepEnds, TypeOK, RetryInv, PhaseInv, Reset, Goto, Slots, tables, pass
<1>9. ASSUME NEW j \in Jobs, Crash(j) PROVE RetryInv'
  BY <1>9 DEF Crash, TypeOK, RetryInv, PhaseInv, Reset, Goto, Slots, tables, pass
<1>10. ASSUME NEW j \in Jobs, NEW s \in Slots, SlotAction(j, s) PROVE RetryInv'
  <2>1. SlotMove(j, s)
    BY <1>10, SlotMoves
  <2>2. Redeliver \in Slots
    BY DEF Slots
  <2> SUFFICES ASSUME NEW i \in Jobs
               PROVE  /\ pending'[i] \subseteq {k \in logged' : k[2] >= Day(now'[i])}
                      /\ pc'[i][Redeliver] # "idle" => /\ current'[i] \in logged'
                                                       /\ current'[i][2] >= Day(now'[i])
    BY DEF RetryInv
  <2>3. /\ pending[i] \subseteq {k \in logged : k[2] >= Day(now[i])}
        /\ pc[i][Redeliver] # "idle" => current[i] \in logged /\ current[i][2] >= Day(now[i])
    BY DEF RetryInv
  <2>4. pc'[i][Redeliver] # "idle" => pc[i][Redeliver] # "idle"
    BY <2>1, <2>2 DEF SlotMove
  <2> QED
    BY <2>1, <2>3, <2>4 DEF SlotMove
<1>11. CASE UNCHANGED <<logged, channel, phase, now, pass, pc, session>>
  BY <1>11 DEF pass, RetryInv
<1> QED
  BY StepKinds, <1>1, <1>2, <1>3, <1>4, <1>5, <1>6, <1>7,
     <1>8, <1>9, <1>10, <1>11 DEF Tick

\* What the steps of a job as a whole have in common.
JobMove(j) ==
    /\ \A i \in Jobs, t \in Slots :
        \/ /\ pc'[i][t] = pc[i][t]
           /\ pc[i][t] # "idle" => now'[i] = now[i] /\ current'[i] = current[i]
        \/ pc'[i][t] = "idle"
        \/ t = Redeliver /\ pc'[i][t] = "sending"
        \/ t \in Alerts /\ pc'[i][t] = "queued" /\ IsDue(t, now'[i])
    /\ UNCHANGED <<logged, channel>>

\* Starting, selecting, loading, ending and crashing are such steps.
LEMMA JobMoves ==
    ASSUME TypeOK, PhaseInv, NEW j \in Jobs,
           Tick(j) \/ SelectPendingFails(j) \/ LoadDueFails(j) \/ Crash(j)
    PROVE  JobMove(j)
<1> USE DEF JobMove, tables, pass, TypeOK, PhaseInv, Slots
<1>1. CASE StartTick(j)
  BY <1>1 DEF StartTick
<1>2. CASE SelectPending(j)
  BY <1>2 DEF SelectPending
<1>3. CASE SelectPendingFails(j)
  BY <1>3 DEF SelectPendingFails
<1>4. CASE NextRetry(j)
  BY <1>4, SMTT(30) DEF NextRetry, Goto
<1>5. CASE RetryPassEnds(j)
  BY <1>5 DEF RetryPassEnds
<1>6. CASE LoadDue(j)
  BY <1>6 DEF LoadDue
<1>7. CASE LoadDueFails(j)
  BY <1>7 DEF LoadDueFails
<1>8. CASE SweepEnds(j)
  BY <1>8 DEF SweepEnds, Reset
<1>9. CASE Crash(j)
  BY <1>9 DEF Crash, Reset
<1> QED
  BY <1>1, <1>2, <1>3, <1>4, <1>5, <1>6, <1>7, <1>8, <1>9 DEF Tick

\* Tasks keep to due alerts, and send what is recorded.
LEMMA TaskStep ==
    ASSUME IInv, [Next]_vars
    PROVE  TaskInv'
<1> USE DEF IInv
<1>1. ASSUME NEW j \in Jobs,
             Tick(j) \/ SelectPendingFails(j) \/ LoadDueFails(j) \/ Crash(j)
      PROVE  TaskInv'
  <2> SUFFICES ASSUME NEW i \in Jobs, NEW b \in Alerts, pc'[i][b] # "idle"
               PROVE  /\ Due(Recurs[b], Departure[b], now'[i])
                      /\ pc'[i][b] \in {"sending", "sent", "stamping"} => Key(i, b)' \in logged'
    BY DEF TaskInv
  <2>1. JobMove(j) /\ b \in Slots /\ b # Redeliver
    BY <1>1, JobMoves, NotifyAssumption DEF Slots
  <2>2. CASE pc'[i][b] = pc[i][b] /\ now'[i] = now[i]
    <3>1. Key(i, b)' = Key(i, b) /\ logged' = logged
      BY <2>1, <2>2, TaskKeyStable DEF JobMove
    <3> QED
      BY <2>2, <3>1 DEF TaskInv
  <2>3. CASE pc'[i][b] = "queued" /\ IsDue(b, now'[i])
    BY <2>3 DEF IsDue
  <2> QED
    BY <2>1, <2>2, <2>3 DEF JobMove
<1>2. ASSUME NEW j \in Jobs, NEW s \in Slots, SlotAction(j, s) PROVE TaskInv'
  <2> SUFFICES ASSUME NEW i \in Jobs, NEW b \in Alerts, pc'[i][b] # "idle"
               PROVE  /\ Due(Recurs[b], Departure[b], now'[i])
                      /\ pc'[i][b] \in {"sending", "sent", "stamping"} => Key(i, b)' \in logged'
    BY DEF TaskInv
  <2>1. SlotMove(j, s) /\ b \in Slots
    BY <1>2, SlotMoves DEF Slots
  <2>2. Key(i, b)' = Key(i, b) /\ now'[i] = now[i] /\ logged \subseteq logged'
    BY <2>1, TaskKeyStable DEF SlotMove
  <2>3. CASE i = j /\ b = s
    <3>1. pc[i][b] # "idle" /\ pc'[i][b] \in {"sent", "stamping"} => pc[i][b] \in {"sending", "sent"}
      BY <2>1, <2>3 DEF SlotMove
    <3> QED
      BY <2>1, <2>2, <2>3, <3>1 DEF SlotMove, TaskInv
  <2>4. CASE i # j \/ b # s
    <3>1. pc'[i][b] = pc[i][b]
      BY <2>1, <2>4 DEF SlotMove
    <3> QED
      BY <2>2, <3>1 DEF TaskInv
  <2> QED
    BY <2>3, <2>4
<1>3. CASE UNCHANGED <<logged, channel, phase, now, pass, pc, session>>
  <2> SUFFICES ASSUME NEW i \in Jobs, NEW b \in Alerts, pc'[i][b] # "idle"
               PROVE  /\ Due(Recurs[b], Departure[b], now'[i])
                      /\ pc'[i][b] \in {"sending", "sent", "stamping"} => Key(i, b)' \in logged'
    BY DEF TaskInv
  <2>1. Key(i, b)' = Key(i, b) /\ now'[i] = now[i] /\ pc'[i] = pc[i] /\ logged' = logged
    BY <1>3, TaskKeyStable
  <2> QED
    BY <2>1 DEF TaskInv
<1> QED
  BY StepKinds, <1>1, <1>2, <1>3

\* Nothing gets stamped without being sent.
LEMMA SentStep ==
    ASSUME IInv, [Next]_vars
    PROVE  SentInv'
<1> USE DEF IInv
<1>1. ASSUME NEW j \in Jobs,
             Tick(j) \/ SelectPendingFails(j) \/ LoadDueFails(j) \/ Crash(j)
      PROVE  SentInv'
  <2> SUFFICES ASSUME NEW i \in Jobs, NEW t \in Slots, pc'[i][t] \in {"sent", "stamping"}
               PROVE  Key(i, t)' \in accepted'
    BY DEF SentInv
  <2>1. JobMove(j)
    BY <1>1, JobMoves
  <2>2. pc'[i][t] = pc[i][t] /\ now'[i] = now[i] /\ current'[i] = current[i]
    BY <2>1 DEF JobMove
  <2>3. Key(i, t)' = Key(i, t) /\ accepted' = accepted
    BY <2>1, <2>2, KeyStable DEF JobMove, channel
  <2> QED
    BY <2>2, <2>3 DEF SentInv
<1>2. ASSUME NEW j \in Jobs, NEW s \in Slots, SlotAction(j, s) PROVE SentInv'
  <2> SUFFICES ASSUME NEW i \in Jobs, NEW t \in Slots, pc'[i][t] \in {"sent", "stamping"}
               PROVE  Key(i, t)' \in accepted'
    BY DEF SentInv
  <2>1. SlotMove(j, s)
    BY <1>2, SlotMoves
  <2>2. Key(i, t)' = Key(i, t) /\ accepted \subseteq accepted'
    BY <2>1, KeyStable DEF SlotMove
  <2>3. CASE i = j /\ t = s
    <3>1. Key(i, t) \in accepted' \/ pc[i][t] = "sent"
      BY <2>1, <2>3 DEF SlotMove
    <3> QED
      BY <2>2, <3>1 DEF SentInv
  <2>4. CASE i # j \/ t # s
    <3>1. pc'[i][t] = pc[i][t]
      BY <2>1, <2>4 DEF SlotMove
    <3> QED
      BY <2>2, <3>1 DEF SentInv
  <2> QED
    BY <2>3, <2>4
<1>3. CASE UNCHANGED <<logged, channel, phase, now, pass, pc, session>>
  <2> SUFFICES ASSUME NEW i \in Jobs, NEW t \in Slots, pc'[i][t] \in {"sent", "stamping"}
               PROVE  Key(i, t)' \in accepted'
    BY DEF SentInv
  <2>1. Key(i, t)' = Key(i, t) /\ pc'[i] = pc[i] /\ accepted' = accepted
    BY <1>3, KeyStable DEF pass, channel
  <2> QED
    BY <2>1 DEF SentInv
<1> QED
  BY StepKinds, <1>1, <1>2, <1>3

\* A step of a task, or of the retry pass, that neither begins a send nor
\* ends one, nor writes a row.
QuietMove(j, s) ==
    /\ \A i \in Jobs, t \in Slots : i # j \/ t # s => pc'[i][t] = pc[i][t]
    /\ pc[j][s] # "idle" /\ pc'[j][s] # "sending"
    /\ pc[j][s] \in {"sent", "stamping"} => pc'[j][s] = "stamping"
    /\ \A i \in Jobs : pending'[i] \subseteq pending[i]
    /\ UNCHANGED <<row, channel, now, current>>

\* Assessing, inserting, being rejected and writing the stamp.
QuietAction(j, s) ==
    \/ s \in Alerts /\ \/ StartTask(j, s) \/ PlanReturns(j, s)
                       \/ ForecastReturns(j, s) \/ EvaluationRaises(j, s)
                       \/ InsertRow(j, s) \/ InsertConflicts(j, s)
    \/ SendRejected(j, s) \/ Stamp(j, s)

\* All of these are such steps.
LEMMA QuietMoves ==
    ASSUME TypeOK, NEW j \in Jobs, NEW s \in Slots, QuietAction(j, s)
    PROVE  QuietMove(j, s)
<1> USE DEF QuietMove, tables, pass
<1>1. CASE s \in Alerts /\ \/ StartTask(j, s) \/ PlanReturns(j, s)
                           \/ ForecastReturns(j, s) \/ EvaluationRaises(j, s)
  <2>1. AssessmentMove(j, s)
    BY <1>1, AssessmentMoves
  <2> QED
    BY <2>1 DEF AssessmentMove
<1>2. CASE InsertRow(j, s)
  BY <1>2, GotoMoves DEF InsertRow
<1>3. CASE InsertConflicts(j, s)
  BY <1>3, FinishMoves DEF InsertConflicts
<1>4. CASE SendRejected(j, s)
  <2>1. RejectionMove(j, s)
    BY <1>4, RejectionMoves
  <2> QED
    BY <2>1 DEF RejectionMove
<1>5. CASE Stamp(j, s)
  BY <1>5, GotoMoves DEF Stamp
<1> QED
  BY <1>1, <1>2, <1>3, <1>4, <1>5 DEF QuietAction

\* Such a step leaves what was sent, and what was not, as it was.
LEMMA QuietStep ==
    ASSUME NEW j \in Jobs, NEW s \in Slots, QuietMove(j, s), Unsent, Settled
    PROVE  Unsent' /\ Settled'
<1>1. \A i \in Jobs, t \in Slots : Key(i, t)' = Key(i, t)
  BY KeyStable DEF QuietMove
<1>2. Unsent'
  <2> SUFFICES ASSUME NEW i \in Jobs
               PROVE  /\ \A t \in Slots : pc'[i][t] = "sending" => Key(i, t)' \notin accepted'
                      /\ pending'[i] \cap accepted' = {}
                      /\ pc'[i][Redeliver] # "idle" => current'[i] \notin pending'[i]
    BY DEF Unsent
  <2>1. Redeliver \in Slots
    BY DEF Slots
  <2>2. \A t \in Slots : pc'[i][t] = "sending" => pc[i][t] = "sending"
    BY DEF QuietMove
  <2>3. pc'[i][Redeliver] # "idle" => pc[i][Redeliver] # "idle"
    BY <2>1 DEF QuietMove
  <2> QED
    BY <1>1, <2>2, <2>3 DEF Unsent, QuietMove, channel
<1>3. Settled'
  <2> SUFFICES ASSUME NEW k \in accepted
               PROVE  \/ row'[k] = "delivered"
                      \/ \E i \in Jobs, t \in Slots :
                            pc'[i][t] \in {"sent", "stamping"} /\ Key(i, t)' = k
    BY DEF Settled, QuietMove, channel
  <2>1. \A i \in Jobs, t \in Slots :
           pc[i][t] \in {"sent", "stamping"} => pc'[i][t] \in {"sent", "stamping"}
    BY DEF QuietMove
  <2> QED
    BY <1>1, <2>1 DEF Settled, QuietMove
<1> QED
  BY <1>2, <1>3

\* Two tasks of a job are about different trips, and the retry pass only runs
\* while there are no tasks.
LEMMA KeysApart ==
    ASSUME IInv, NEW j \in Jobs, NEW s \in Slots, NEW t \in Slots,
           pc[j][s] \in {"sending", "sent", "stamping"},
           pc[j][t] \in {"sending", "sent", "stamping"}, Key(j, s) = Key(j, t)
    PROVE  s = t
<1>1. (s = Redeliver <=> phase[j] = "retrying") /\ (t = Redeliver <=> phase[j] = "retrying")
  BY DEF IInv, PhaseInv, Slots
<1>2. CASE s \in Alerts /\ t \in Alerts
  <2>1. Key(j, s)[1] = s /\ Key(j, t)[1] = t
    BY <1>2, TaskKey DEF IInv
  <2> QED
    BY <2>1
<1> QED
  BY <1>1, <1>2 DEF Slots

\* A failure, a deletion, and what only happens after one, end the calm.
LEMMA Storms ==
    ASSUME IInv, NEW j \in Jobs,
           \/ SelectPendingFails(j) \/ LoadDueFails(j) \/ Crash(j)
           \/ \E a \in Alerts : InsertFails(j, a) \/ InsertViolatesKey(j, a)
           \/ \E s \in Slots : StampFails(j, s) \/ StampUnreadable(j, s)
    PROVE  ~ Calm'
<1> USE DEF tables
<1>1. faults \in Nat /\ lost \in [Jobs -> SUBSET Alerts]
  BY NotifyAssumption DEF IInv, TypeOK
<1>2. CASE Fault
  BY <1>1, <1>2 DEF Fault, Calm
<1>3. CASE ~ Calm /\ UNCHANGED <<alerts, faults>>
  BY <1>3 DEF Calm
<1>4. (phase[j] = "aborted" \/ lost[j] # {}) => ~ Calm
  BY <1>1 DEF IInv, CauseInv, Calm
<1>5. CASE SelectPendingFails(j) \/ LoadDueFails(j) \/ Crash(j)
  BY <1>2, <1>5 DEF SelectPendingFails, LoadDueFails, Crash
<1>6. CASE \E a \in Alerts : InsertFails(j, a)
  BY <1>2, <1>3, <1>4, <1>6 DEF InsertFails, StatementFails, Recorded
<1>7. CASE \E a \in Alerts : InsertViolatesKey(j, a)
  BY <1>3, <1>7 DEF InsertViolatesKey, Calm
<1>8. CASE \E s \in Slots : StampFails(j, s)
  BY <1>2, <1>3, <1>4, <1>8 DEF StampFails, StatementFails, Stamped
<1>9. CASE \E s \in Slots : StampUnreadable(j, s)
  BY <1>3, <1>4, <1>9 DEF StampUnreadable
<1> QED
  BY <1>5, <1>6, <1>7, <1>8, <1>9

\* What a step may do that leaves everything calm: it was calm before.
LEMMA CalmSteps ==
    ASSUME IInv, [Next]_vars, Calm'
    PROVE  /\ Calm
           /\ \/ \E j \in Jobs : Tick(j)
              \/ \E j \in Jobs, a \in Alerts : CommitInsert(j, a)
              \/ \E j \in Jobs, s \in Slots :
                    QuietAction(j, s) \/ SendAccepted(j, s) \/ CommitStamp(j, s)
              \/ UNCHANGED <<row, channel, now, pass, pc>>
<1> USE DEF tables
<1>1. CASE \E j \in Jobs : Tick(j)
  BY <1>1 DEF Tick, StartTick, SelectPending, NextRetry, RetryPassEnds, LoadDue,
              SweepEnds, Calm
<1>2. CASE \E j \in Jobs, a \in Alerts : CommitInsert(j, a)
  BY <1>2 DEF CommitInsert, Recorded, Calm
<1>3. ASSUME NEW j \in Jobs, NEW s \in Slots,
             QuietAction(j, s) \/ SendAccepted(j, s) \/ CommitStamp(j, s)
      PROVE  Calm
  BY <1>3 DEF QuietAction, StartTask, PlanReturns, ForecastReturns, EvaluationRaises,
              InsertRow, InsertConflicts, SendRejected, Stamp, SendAccepted,
              CommitStamp, Stamped, Calm
<1>4. ASSUME NEW a \in Alerts, DeleteAlert(a)
      PROVE  FALSE
  BY <1>4 DEF DeleteAlert, IInv, TypeOK, Calm
<1>5. ASSUME NEW a \in Alerts, CreateAlert(a)
      PROVE  Calm /\ UNCHANGED <<row, channel, now, pass, pc>>
  <2>1. alerts \in [Alerts -> {"absent", "active", "deleted"}]
    BY DEF IInv, TypeOK
  <2>2. \A b \in Alerts : alerts[b] = "deleted" => alerts'[b] = "deleted"
    BY <1>5, <2>1 DEF CreateAlert
  <2> QED
    BY <1>5, <2>2 DEF CreateAlert, Calm
<1>6. CASE Advance \/ UNCHANGED vars
  BY <1>6 DEF Advance, vars, Calm
<1>7. CASE \E j \in Jobs : \/ SelectPendingFails(j) \/ LoadDueFails(j) \/ Crash(j)
                           \/ \E a \in Alerts : InsertFails(j, a) \/ InsertViolatesKey(j, a)
                           \/ \E s \in Slots : StampFails(j, s) \/ StampUnreadable(j, s)
  BY <1>7, Storms
<1>8. ASSUME NEW j \in Jobs, NEW a \in Alerts, Task(j, a) \/ EvaluationRaises(j, a)
      PROVE  QuietAction(j, a) \/ CommitInsert(j, a) \/ InsertViolatesKey(j, a)
  BY <1>8 DEF Task, QuietAction
<1>9. ASSUME NEW j \in Jobs, NEW s \in Slots, Deliver(j, s)
      PROVE  \/ QuietAction(j, s) \/ SendAccepted(j, s) \/ CommitStamp(j, s)
             \/ StampUnreadable(j, s)
  BY <1>9 DEF Deliver, QuietAction
<1>10. Alerts \subseteq Slots
  BY DEF Slots
<1>11. CASE \E j \in Jobs, a \in Alerts : Task(j, a) \/ EvaluationRaises(j, a)
  BY <1>2, <1>3, <1>7, <1>8, <1>10, <1>11
<1>12. CASE \E j \in Jobs, s \in Slots : Deliver(j, s)
  BY <1>3, <1>7, <1>9, <1>12
<1> QED
  BY <1>1, <1>4, <1>5, <1>6, <1>7, <1>11, <1>12 DEF Next, Failure

\* With one job and nothing going wrong, nothing is sent twice.
LEMMA OnceStep ==
    ASSUME IInv, [Next]_vars
    PROVE  OnceInv'
<1> SUFFICES ASSUME OneJob, Calm'
             PROVE  resent' = {} /\ Unsent' /\ Settled'
  BY DEF OnceInv, OneJob
<1>1. resent = {} /\ Unsent /\ Settled
  BY CalmSteps DEF IInv, OnceInv
<1>2. /\ row \in [Keys -> {"none", "recorded", "delivered"}] /\ accepted \subseteq Keys
      /\ pc \in [Jobs -> [Slots -> Steps]] /\ pending \in [Jobs -> SUBSET Keys]
      /\ current \in [Jobs -> Keys \cup {Nobody}]
  BY DEF IInv, TypeOK
<1>3. \A k \in accepted : row[k] # "none"
  BY <1>2, CalmSteps DEF IInv, PurgeInv, OutboxHonest, Keys, Calm
<1>4. Redeliver \in Slots /\ Alerts \subseteq Slots /\ Redeliver \notin Alerts
  BY NotifyAssumption DEF Slots
<1>5. ASSUME NEW j \in Jobs, Tick(j)
      PROVE  resent' = {} /\ Unsent' /\ Settled'
  <2>1. row' = row /\ accepted' = accepted /\ resent' = resent
    BY <1>5 DEF Tick, StartTick, SelectPending, NextRetry, RetryPassEnds, LoadDue,
                SweepEnds, tables, channel
  <2>2. \A i \in Jobs : i = j
    BY DEF OneJob
  <2>3. CASE NextRetry(j)
    <3>1. PICK k \in pending[j] : /\ pending' = [pending EXCEPT ![j] = @ \ {k}]
                                  /\ current' = [current EXCEPT ![j] = k]
      BY <2>3 DEF NextRetry
    <3>2. /\ k \notin accepted
          /\ pending'[j] = pending[j] \ {k} /\ current'[j] = k /\ now' = now
      BY <1>1, <1>2, <2>3, <3>1 DEF Unsent, NextRetry
    <3>3. pc'[j][Redeliver] = "sending" /\ \A a \in Alerts : pc'[j][a] = "idle"
      BY <1>2, <1>4, <2>3 DEF NextRetry, Goto, IInv, PhaseInv
    <3>4. Unsent'
      BY <1>4, <2>1, <2>2, <3>2, <3>3, <1>1 DEF Unsent, Key, Slots
    <3>5. \A t \in Slots : pc[j][t] \notin {"sent", "stamping"}
      BY <1>4, <2>3 DEF NextRetry, IInv, PhaseInv, Slots
    <3>6. \A l \in accepted : row[l] = "delivered"
      BY <1>1, <2>2, <3>5 DEF Settled
    <3> QED
      BY <1>1, <2>1, <3>4, <3>6 DEF Settled
  <2>4. CASE ~ NextRetry(j)
    <3>1. \A t \in Slots : pc[j][t] \notin {"sent", "stamping"}
      BY <1>4, <1>5, <2>4 DEF Tick, StartTick, SelectPending, RetryPassEnds, LoadDue,
                SweepEnds, AllDone, IInv, PhaseInv, Slots
    <3>2. pc'[j][Redeliver] = "idle" /\ \A t \in Slots : pc'[j][t] # "sending"
      BY <1>2, <1>4, <1>5, <2>4 DEF Tick, StartTick, SelectPending, RetryPassEnds, LoadDue,
                SweepEnds, Reset, IInv, PhaseInv, Slots
    <3>3. \A l \in accepted : row[l] = "delivered"
      BY <1>1, <2>2, <3>1 DEF Settled
    <3>4. pending'[j] \subseteq pending[j] \/ pending'[j] \subseteq Retriable(now[j])
      BY <1>2, <1>5, <2>4 DEF Tick, StartTick, SelectPending, RetryPassEnds, LoadDue,
                SweepEnds, Reset, pass
    <3>5. pending'[j] \cap accepted = {}
      BY <1>1, <3>3, <3>4 DEF Retriable, Unsent
    <3>6. Settled'
      BY <2>1, <3>3 DEF Settled
    <3>7. Unsent'
      BY <1>4, <2>1, <2>2, <3>2, <3>5 DEF Unsent
    <3> QED
      BY <1>1, <2>1, <3>6, <3>7
  <2> QED
    BY <2>3, <2>4
<1>6. ASSUME NEW j \in Jobs, NEW s \in Slots, QuietAction(j, s)
      PROVE  resent' = {} /\ Unsent' /\ Settled'
  <2>1. QuietMove(j, s)
    BY <1>6, QuietMoves DEF IInv
  <2> QED
    BY <1>1, <2>1, QuietStep DEF QuietMove, channel
<1>7. ASSUME NEW j \in Jobs, NEW a \in Alerts, CommitInsert(j, a)
      PROVE  resent' = {} /\ Unsent' /\ Settled'
  <2>1. /\ \A i \in Jobs, t \in Slots : Key(i, t)' = Key(i, t)
        /\ UNCHANGED <<accepted, resent, pending, current>>
    BY <1>7, KeyStable DEF CommitInsert, channel, pass
  <2>2. /\ pc'[j][a] = "sending" /\ pc[j][a] = "inserted"
        /\ \A i \in Jobs, t \in Slots : i # j \/ t # a => pc'[i][t] = pc[i][t]
    BY <1>4, <1>7, GotoMoves DEF CommitInsert, IInv
  <2>3. row[Key(j, a)] = "none" /\ Key(j, a) \notin accepted
    BY <1>3, <2>2 DEF IInv, InsertInv
  <2>4. \A k \in accepted : row'[k] = row[k]
    BY <1>2, <1>7, <2>3 DEF CommitInsert, Recorded
  <2>5. Unsent'
    BY <1>1, <1>4, <2>1, <2>2, <2>3 DEF Unsent
  <2>6. Settled'
    BY <1>1, <1>4, <2>1, <2>2, <2>4 DEF Settled
  <2> QED
    BY <1>1, <2>1, <2>5, <2>6
<1>8. ASSUME NEW j \in Jobs, NEW s \in Slots, SendAccepted(j, s)
      PROVE  resent' = {} /\ Unsent' /\ Settled'
  <2>1. /\ \A i \in Jobs, t \in Slots : Key(i, t)' = Key(i, t)
        /\ accepted' = accepted \cup {Key(j, s)} /\ UNCHANGED <<row, pending, current>>
    BY <1>8, KeyStable DEF SendAccepted, tables, pass
  <2>2. /\ pc'[j][s] = "sent" /\ pc[j][s] = "sending"
        /\ \A i \in Jobs, t \in Slots : i # j \/ t # s => pc'[i][t] = pc[i][t]
    BY <1>8, GotoMoves DEF SendAccepted, IInv
  <2>3. resent' = {}
    BY <1>1, <1>8, <2>2 DEF SendAccepted, Unsent
  <2>4. \A i \in Jobs : i = j
    BY DEF OneJob
  <2>5. \A t \in Slots : pc'[j][t] = "sending" => Key(j, t) # Key(j, s)
    BY <2>2, KeysApart
  <2>6. Key(j, s) \notin pending[j]
    <3>1. CASE s = Redeliver
      BY <1>1, <2>2, <3>1, RetryKey DEF Unsent
    <3>2. CASE s \in Alerts
      BY <2>2, <3>2 DEF IInv, PhaseInv
    <3> QED
      BY <3>1, <3>2 DEF Slots
  <2>7. pc'[j][Redeliver] # "idle" => pc[j][Redeliver] # "idle"
    BY <1>4, <2>2
  <2>8. Unsent'
    BY <1>1, <2>1, <2>2, <2>4, <2>5, <2>6, <2>7 DEF Unsent
  <2>9. Settled'
    BY <1>1, <2>1, <2>2 DEF Settled
  <2> QED
    BY <2>3, <2>8, <2>9
<1>9. ASSUME NEW j \in Jobs, NEW s \in Slots, CommitStamp(j, s)
      PROVE  resent' = {} /\ Unsent' /\ Settled'
  <2>1. /\ \A i \in Jobs, t \in Slots : Key(i, t)' = Key(i, t)
        /\ UNCHANGED <<accepted, resent, pending, current>>
    BY <1>9, KeyStable DEF CommitStamp, channel, pass
  <2>2. /\ pc'[j][s] \in {"idle", "done"} /\ pc[j][s] # "idle"
        /\ \A i \in Jobs, t \in Slots : i # j \/ t # s => pc'[i][t] = pc[i][t]
    BY <1>9, FinishMoves DEF CommitStamp, IInv
  <2>3. \A k \in accepted : row[k] = "delivered" \/ k = Key(j, s) => row'[k] = "delivered"
    BY <1>2, <1>3, <1>9 DEF CommitStamp, Stamped
  <2>4. Unsent'
    BY <1>1, <1>4, <2>1, <2>2 DEF Unsent
  <2>5. Settled'
    BY <1>1, <2>1, <2>2, <2>3 DEF Settled
  <2> QED
    BY <1>1, <2>1, <2>4, <2>5
<1>10. CASE UNCHANGED <<row, channel, now, pass, pc>>
  <2>1. \A i \in Jobs, t \in Slots : Key(i, t)' = Key(i, t)
    BY <1>10, KeyStable DEF pass
  <2> QED
    BY <1>1, <1>10, <2>1 DEF Unsent, Settled, channel, pass
<1> QED
  BY CalmSteps, <1>5, <1>6, <1>7, <1>8, <1>9, <1>10

-----------------------------------------------------------------------------
(* The results.                                                            *)

\* The invariant holds before the first tick.
LEMMA InvInit == Init => IInv
<1> SUFFICES ASSUME Init
             PROVE  IInv
  OBVIOUS
<1>1. TypeOK
  BY TypeInit
<1>2. OutboxHonest /\ RightDay /\ InsertInv /\ PurgeInv
  BY NotifyAssumption DEF Init, OutboxHonest, RightDay, InsertInv, PurgeInv, Slots
<1>4. OnceInv
  BY NotifyAssumption DEF Init, OnceInv, Unsent, Settled, Slots
<1>3. PhaseInv /\ LockInv /\ RetryInv /\ TaskInv /\ SentInv /\ CauseInv
  BY NotifyAssumption DEF Init, PhaseInv, LockInv, RetryInv, TaskInv, SentInv, CauseInv, Slots
<1> QED
  BY <1>1, <1>2, <1>3, <1>4 DEF IInv

\* Every step of the sweep, the riders and the clock preserves the invariant.
LEMMA InvNext == IInv /\ [Next]_vars => IInv'
<1> SUFFICES ASSUME IInv, [Next]_vars
             PROVE  IInv'
  OBVIOUS
<1>1. TypeOK'
  BY TypeStep DEF IInv
<1> QED
  BY <1>1, PhaseStep, LockStep, CauseStep, TableStep, RetryStep, TaskStep, SentStep,
     InsertStep, OnceStep DEF IInv

\* The invariant, for any number of alerts, jobs and failures.
THEOREM Invariance == Spec => []IInv
  BY InvInit, InvNext, PTL DEF Spec

\* Every variable keeps its type.
THEOREM TypeCorrect == Spec => []TypeOK
<1>1. IInv => TypeOK
  BY DEF IInv
<1> QED
  BY <1>1, Invariance, PTL

\* Nothing is sent that was not recorded first, and nothing is stamped that
\* was not sent (process_trip_alert, deliver).
THEOREM HonestOutbox == Spec => []OutboxHonest
<1>1. IInv => OutboxHonest
  BY DEF IInv
<1> QED
  BY <1>1, Invariance, PTL

\* Alerts are only filed under a day their trip recurs on, for every day
\* length and lead time (due_trip_alerts, _next_departure).
THEOREM FiledRight == Spec => []RightDay
<1>1. IInv => RightDay
  BY DEF IInv
<1> QED
  BY <1>1, Invariance, PTL

\* db_lock and the order of the two passes keep a session to one statement at
\* a time, however many tasks run (run_due_checks).
THEOREM Exclusion == Spec => []SessionExclusive
<1>1. IInv => SessionExclusive
  <2> SUFFICES ASSUME IInv, NEW j \in Jobs, NEW s \in Slots, NEW t \in Slots,
                      pc[j][s] \in {"inserted", "stamping"},
                      pc[j][t] \in {"inserted", "stamping"}
               PROVE  s = t
    BY DEF SessionExclusive
  <2>1. \A a \in Alerts : pc[j][a] \in {"inserted", "stamping"} =>
            holder[j] = a /\ phase[j] \in {"sweeping", "aborted"}
    BY DEF IInv, LockInv, PhaseInv
  <2>2. pc[j][Redeliver] # "idle" => phase[j] = "retrying"
    BY DEF IInv, PhaseInv
  <2> QED
    BY <2>1, <2>2 DEF Slots
<1> QED
  BY <1>1, Invariance, PTL

\* The unique constraint lets one of any number of overlapping jobs record a
\* trip and day.
THEOREM SingleRecorder == Spec => []OneRecorder
<1>1. IInv => OneRecorder
  <2> SUFFICES ASSUME IInv, NEW i \in Jobs, NEW j \in Jobs, NEW a \in Alerts,
                      pc[i][a] = "inserted", pc[j][a] = "inserted",
                      Key(i, a) = Key(j, a)
               PROVE  i = j /\ row[Key(j, a)] = "none" /\ Key(j, a) \notin logged
    BY DEF OneRecorder
  <2>1. i = j /\ row[Key(j, a)] = "none" /\ alerts[a] = "active"
    BY DEF IInv, InsertInv
  <2>2. Key(j, a)[1] = a
    BY TaskKey DEF IInv
  <2> QED
    BY <2>1, <2>2 DEF IInv, PurgeInv
<1> QED
  BY <1>1, Invariance, PTL

\* No alert goes out for a day that was over when its tick was stamped.
THEOREM NoStaleSend == Spec => []NoStaleDay
<1>1. IInv => NoStaleDay
  <2> SUFFICES ASSUME IInv, NEW j \in Jobs, NEW s \in Slots, pc[j][s] = "sending"
               PROVE  Key(j, s)[2] >= Day(now[j])
    BY DEF NoStaleDay
  <2>1. CASE s = Redeliver
    BY <2>1, RetryKey DEF IInv, RetryInv
  <2>2. CASE s \in Alerts
    BY <2>2, TaskKey DEF IInv
  <2> QED
    BY <2>1, <2>2 DEF Slots
<1> QED
  BY <1>1, Invariance, PTL

\* A tick is only given up over a database error.
THEOREM AbortsExplained == Spec => []AbortNeedsCause
<1>1. IInv => AbortNeedsCause
  BY DEF IInv, CauseInv, AbortNeedsCause
<1> QED
  BY <1>1, Invariance, PTL

\* As long as ticks do not overlap, the rider gets an alert twice only after a
\* failure or a deletion (redeliver_pending against process_trip_alert).
THEOREM SentOnce ==
    ASSUME OneJob
    PROVE  Spec => []DuplicateNeedsCause
<1>1. IInv => DuplicateNeedsCause
  BY NotifyAssumption DEF IInv, TypeOK, OnceInv, Calm, DuplicateNeedsCause
<1> QED
  BY <1>1, Invariance, PTL

-----------------------------------------------------------------------------
(* The sweep implements the outbox.                                        *)

\* What any step does to the rows and to their history.
OutboxMove ==
    \/ UNCHANGED <<row, logged, accepted>>
    \/ \E k \in Keys : Box!Record(k) \/ Box!Send(k) \/ Box!Stamp(k)
    \/ \E a \in Alerts : alerts'[a] = "deleted" /\ Box!Purge({k \in Keys : k[1] = a})

\* A commit of the INSERT records a key that was never recorded before.
LEMMA RecordMoves ==
    ASSUME IInv, NEW j \in Jobs, NEW a \in Alerts, pc[j][a] = "inserted",
           Recorded(j, a), UNCHANGED channel
    PROVE  OutboxMove
<1>1. Key(j, a) \in Keys /\ Key(j, a)[1] = a
  BY TaskKey DEF IInv
<1>2. row[Key(j, a)] = "none" /\ alerts[a] = "active"
  BY DEF IInv, InsertInv
<1>3. Key(j, a) \notin logged
  BY <1>1, <1>2 DEF IInv, PurgeInv
<1>4. Box!Record(Key(j, a))
  BY <1>2, <1>3 DEF Recorded, channel, Box!Record
<1> QED
  BY <1>1, <1>4 DEF OutboxMove

\* A commit of the UPDATE stamps a row whose alert was sent, if it is there and
\* not stamped yet.
LEMMA StampMoves ==
    ASSUME IInv, NEW j \in Jobs, NEW s \in Slots, pc[j][s] = "stamping",
           Stamped(j, s), UNCHANGED channel
    PROVE  OutboxMove
<1>1. Key(j, s) \in Keys /\ Key(j, s) \in accepted
  BY BusyKey DEF IInv, SentInv
<1>2. CASE row[Key(j, s)] = "recorded"
  <2>1. Box!Stamp(Key(j, s))
    BY <1>1, <1>2 DEF Stamped, channel, Box!Stamp
  <2> QED
    BY <1>1, <2>1 DEF OutboxMove
<1>3. CASE row[Key(j, s)] # "recorded"
  <2>1. row[Key(j, s)] \in {"none", "delivered"} /\ row \in [Keys -> {"none", "recorded", "delivered"}]
    BY <1>1, <1>3 DEF IInv, TypeOK
  <2>2. row' = row
    BY <1>1, <2>1 DEF Stamped
  <2> QED
    BY <2>2 DEF Stamped, channel, OutboxMove
<1> QED
  BY <1>2, <1>3

\* Every step of the sweep is a step of the outbox or leaves it alone.
LEMMA OutboxMoves ==
    ASSUME IInv, [Next]_vars
    PROVE  OutboxMove
<1> USE DEF tables, channel
<1>1. ASSUME NEW j \in Jobs,
             Tick(j) \/ SelectPendingFails(j) \/ LoadDueFails(j) \/ Crash(j)
      PROVE  UNCHANGED <<tables, channel>>
  BY <1>1 DEF Tick, StartTick, SelectPending, NextRetry, RetryPassEnds, LoadDue,
              SweepEnds, SelectPendingFails, LoadDueFails, Crash
<1>2. ASSUME NEW j \in Jobs, NEW a \in Alerts, Task(j, a) \/ EvaluationRaises(j, a)
      PROVE  UNCHANGED <<tables, channel>> \/ CommitInsert(j, a)
  BY <1>2 DEF Task, StartTask, PlanReturns, ForecastReturns, EvaluationRaises,
              InsertRow, InsertConflicts, InsertViolatesKey
<1>3. ASSUME NEW j \in Jobs, NEW a \in Alerts, CommitInsert(j, a) \/ InsertFails(j, a)
      PROVE  OutboxMove
  <2>1. \/ UNCHANGED <<tables, channel>>
        \/ pc[j][a] = "inserted" /\ Recorded(j, a) /\ UNCHANGED channel
    BY <1>3 DEF CommitInsert, InsertFails
  <2> QED
    BY <2>1, RecordMoves DEF OutboxMove
<1>4. ASSUME NEW j \in Jobs, NEW s \in Slots, Deliver(j, s)
      PROVE  UNCHANGED <<tables, channel>> \/ SendAccepted(j, s) \/ CommitStamp(j, s)
  BY <1>4 DEF Deliver, SendRejected, Stamp, StampUnreadable
<1>5. ASSUME NEW j \in Jobs, NEW s \in Slots, CommitStamp(j, s) \/ StampFails(j, s)
      PROVE  OutboxMove
  <2>1. \/ UNCHANGED <<tables, channel>>
        \/ pc[j][s] = "stamping" /\ Stamped(j, s) /\ UNCHANGED channel
    BY <1>5 DEF CommitStamp, StampFails
  <2> QED
    BY <2>1, StampMoves DEF OutboxMove
<1>6. ASSUME NEW j \in Jobs, NEW s \in Slots, SendAccepted(j, s)
      PROVE  OutboxMove
  <2>1. Key(j, s) \in Keys /\ Key(j, s) \in logged
    <3>1. CASE s = Redeliver
      BY <1>6, <3>1, RetryKey DEF SendAccepted, IInv, RetryInv, OutboxHonest, TypeOK
    <3>2. CASE s \in Alerts
      BY <1>6, <3>2 DEF SendAccepted, IInv, TaskInv, OutboxHonest, TypeOK
    <3> QED
      BY <3>1, <3>2 DEF Slots
  <2>2. Box!Send(Key(j, s))
    BY <1>6, <2>1 DEF SendAccepted, Box!Send
  <2> QED
    BY <2>1, <2>2 DEF OutboxMove
<1>7. ASSUME NEW a \in Alerts, DeleteAlert(a)
      PROVE  OutboxMove
  <2>1. alerts'[a] = "deleted"
    BY <1>7 DEF DeleteAlert, IInv, TypeOK
  <2>2. row' = [k \in Keys |-> IF k \in {l \in Keys : l[1] = a} THEN "none" ELSE row[k]]
    BY <1>7 DEF DeleteAlert
  <2>3. Box!Purge({k \in Keys : k[1] = a})
    BY <1>7, <2>2 DEF DeleteAlert, Box!Purge
  <2> QED
    BY <2>1, <2>3 DEF OutboxMove
<1>8. CASE (\E a \in Alerts : CreateAlert(a)) \/ Advance \/ UNCHANGED vars
  BY <1>8 DEF CreateAlert, Advance, vars, OutboxMove
<1>9. UNCHANGED <<tables, channel>> => OutboxMove
  BY DEF OutboxMove
<1> QED
  BY <1>1, <1>2, <1>3, <1>4, <1>5, <1>6, <1>7, <1>8, <1>9 DEF Next, Failure

\* Every sweep, with its failures, crashes and overlaps, is a behaviour of the
\* outbox: recorded once, sent after that, stamped after that.
THEOREM Implementation == Spec => ImplementsOutbox
<1>1. Init => Box!Init
  BY DEF Init, Box!Init
<1>2. IInv /\ [Next]_vars => [Box!Next]_(Box!vars)
  <2> SUFFICES ASSUME IInv, [Next]_vars
               PROVE  [Box!Next]_(Box!vars)
    OBVIOUS
  <2>1. OutboxMove
    BY OutboxMoves
  <2>2. ASSUME NEW a \in Alerts, Box!Purge({k \in Keys : k[1] = a})
        PROVE  Box!Next
    BY <2>2 DEF Box!Next
  <2> QED
    BY <2>1, <2>2 DEF OutboxMove, Box!Next, Box!vars
<1> QED
  BY <1>1, <1>2, Invariance, PTL DEF Spec, ImplementsOutbox, Box!Spec

\* A committed row is only ever withdrawn by deleting its alert.
THEOREM Durability == Spec => Durable
<1>1. IInv /\ [Next]_vars =>
        [\A k \in Keys :
           /\ row[k] = "recorded" => row'[k] # "none" \/ alerts'[k[1]] = "deleted"
           /\ row[k] = "delivered" => row'[k] = "delivered" \/ alerts'[k[1]] = "deleted"
        ]_vars
  <2> SUFFICES ASSUME IInv, [Next]_vars, NEW k \in Keys
               PROVE  /\ row[k] = "recorded" => row'[k] # "none" \/ alerts'[k[1]] = "deleted"
                      /\ row[k] = "delivered" => row'[k] = "delivered" \/ alerts'[k[1]] = "deleted"
    OBVIOUS
  <2>1. OutboxMove /\ row \in [Keys -> {"none", "recorded", "delivered"}]
    BY OutboxMoves DEF IInv, TypeOK
  <2>2. CASE UNCHANGED <<row, logged, accepted>>
    BY <2>2
  <2>3. ASSUME NEW l \in Keys, Box!Record(l) \/ Box!Send(l) \/ Box!Stamp(l)
        PROVE  /\ row[k] = "recorded" => row'[k] # "none"
               /\ row[k] = "delivered" => row'[k] = "delivered"
    BY <2>1, <2>3 DEF Box!Record, Box!Send, Box!Stamp
  <2>4. ASSUME NEW a \in Alerts, alerts'[a] = "deleted", Box!Purge({l \in Keys : l[1] = a})
        PROVE  row'[k] = row[k] \/ alerts'[k[1]] = "deleted"
    BY <2>4 DEF Box!Purge
  <2> QED
    BY <2>1, <2>2, <2>3, <2>4 DEF OutboxMove
<1> QED
  BY <1>1, Invariance, PTL DEF Spec, Durable

=============================================================================
