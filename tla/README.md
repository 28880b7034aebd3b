# Verification of fiets-of-ov

TLA+ specifications of fiets-of-ov, the model checking of their small instances with TLC,
and machine-checked proofs of their main properties with TLAPS. Line numbers below refer to
the files under `src/`; `PROJECT.json` maps every definition to the lines it models.

## 1. The system

fiets-of-ov tells an Amsterdam rider whether to cycle or to take public transport, and warns
about rain before a saved trip. Two processes share a Postgres database and a Redis cache:
the HTTP API (`app/main.py`) and the worker (`app/workers/main.py`).

| Component | State it keeps | Operations | Talks to | What is hard about it | What makes it correct |
|---|---|---|---|---|---|
| Worker schedule (`workers/main.py`) | none; arq's queue | cron tick, `check_trip_alerts` | sweep | ticks delayed, lost, uneven | every departure falls in some sweep's lead window |
| Due window (`services/notify.py:55-116`) | none | `due_trip_alerts`, `_next_departure` | `trip_alerts` | wrap at midnight | selects exactly the departures ahead, files them under the right day |
| Sweep (`services/notify.py`) | session, lock, tasks | `run_due_checks`, `redeliver_pending`, `process_trip_alert`, `deliver` | planner, rain service, outbox, channel | concurrent tasks on one session, failures of every call, overlapping ticks, crashes | record before send, send before stamp; at least once; one bad alert does not stop others |
| Outbox (`models/notification.py`) | `notifications` rows | insert, stamp, cascade | sweep, trip alerts | concurrent inserts, ambiguous commits | one row per trip and day, never withdrawn |
| Trip alerts API (`api/trip_alerts.py`) | `trip_alerts` rows | create, list, delete | geocoder, sweep | the account or the row goes between two awaits of a request, or in the middle of a sweep | only the owner's word removes an alert; no alert without its account |
| Rain service (`services/rain.py`, `core/cache.py`) | Redis entries | `get_forecast` | Buienradar, Redis | concurrent misses, slow answers, outages of both | bounded age; an answer whatever fails |
| Planner (`services/planner.py`) | Redis entries | `gather_candidates`, `gather_candidates_cached` | OTP, snapping, Redis | partial failure of the fan-out, stale plans | a failure is not pinned; plans are recent |
| Snapping (`services/snap.py`) | none | `bike_with_snapping` | OTP | deadline, order of concurrent probes | the nearest bikeable offset wins |
| Scoring, advice (`services/scoring.py`, `advice.py`, `amsterdam.py`, `geo.py`) | none | `classify_kind`, `rank`, `recommend` | - | windows past midnight, ties, waits | cheapest per kind; deterministic order |
| OTP, Buienradar clients (`clients/`) | lazy HTTP client | one request each | upstreams | malformed answers | every failure is the documented exception |
| Geocoder, places (`clients/geocoder.py`, `services/places.py`) | in-process cache | `geocode`, `resolve_place` | Nominatim | concurrent misses of one name at the limit of the cache | never more than its limit, no name twice, only the oldest makes room |
| Accounts (`api/auth.py`, `core/security.py`, `api/deps.py`) | `users` rows | register, login, authenticate | - | concurrent registration, tokens of deleted accounts | one account per address; a token opens its holder's account or none |
| Stops (`api/stops.py`, `services/stops.py`, `db/import_stops.py`) | `stops` rows | import, nearby | the feed, filtered or not | duplicates in the feed, one statement for all rows | every stop of ours arrives as the feed has it, none is lost |
| GTFS filter (`otp/scripts/filter_gtfs_gvb.py`) | the output file | filter | - | closure over parent stations, rush hours, reading what a run wrote that may have been stopped | no reference is lost, nothing idle is kept, bikes off-peak only |
| Configuration, wiring, migrations, routing benchmark | none | start-up | - | - | - |

How they interact: arq calls the worker; the worker opens one database session per tick and
hands it to the sweep; each task of the sweep calls the planner and the rain service over
the network and then the outbox over the shared session; the channel gets what was
committed. The API writes `trip_alerts` at any moment, and API and worker use the same Redis
keys; nothing else is shared between them. Within the API process, requests share the name
cache of the geocoder. The filter and the import are scripts that an operator runs; the filter
writes the feed that OTP reads.

The hazards this gives rise to are listed in `PROJECT.json` at their lines.

## 2. The modules

    DueWindow ----+--> Schedule --> MCSchedule, ScheduleProofs
                  `--> Notify ----> MCNotify, NotifyProofs
                          `- Box == INSTANCE Outbox     Outbox
    RainCache --> MCRainCache, RainCacheProofs
    Snap ----> MCSnap, SnapProofs                       NearestSearch
       `- Search == INSTANCE NearestSearch
    Planner ----> MCPlanner, PlannerProofs
    Scoring, Ranking --> Advice --> MCAdvice, AdviceProofs
    Accounts, Geocoder --> TripAlerts --> MCTripAlerts, TripAlertsProofs
    GtfsFilter --> StopImport --> MCStopImport, StopImportProofs

**DueWindow** is the calendar arithmetic: `Due` is the WHERE clause of `due_trip_alerts`,
split at midnight as the code splits it, `NextDepartureDay` is `_next_departure(...).date()`.
`DepartsWithin` says what both are for, without the split: there is a moment in the lead
window at which the trip departs on a day it recurs.

**Schedule** is when sweeps happen. `Fire` is arq queueing a cron minute, `Lose` a cron
minute during an outage of the worker, `Sweep` the job that stamps `now` and selects. The
delay between cron minute and stamp is bounded by `MaxDelay`, an outage by `MaxLost` ticks.
`LeadCoversTicks` is the relation between settings that the code needs and does not check;
with the defaults (step 5, lead 15) it tolerates one lost tick and five minutes of delay.

**Outbox** is the abstract specification: a key (trip, departure day) is recorded at most
once, sent only after it was recorded, stamped only after it was accepted, and purged only
with its trip. Sending again is allowed: the code promises at-least-once delivery.

**Notify** is the detailed specification. A job is one run of `check_trip_alerts`; several
may overlap.

| State | Code |
|---|---|
| `alerts` | rows of `trip_alerts` |
| `row`, `created` | `notifications`: no row / `delivered_at` NULL / stamped; `created_at` |
| `logged`, `accepted`, `resent` | history, to state properties with: ever committed, ever accepted, accepted twice |
| `phase[j]`, `now[j]` | where `run_due_checks` is; the tick's `now` |
| `pending[j]`, `current[j]` | `redeliver_pending`'s list and loop variable |
| `pc[j][a]` | where the task of alert `a` awaits; `pc[j][Redeliver]` the retry pass |
| `holder[j]` | who is inside `db_lock` |
| `expired[j]`, `lost[j]` | a rollback expired the loaded alerts, the tasks' notifications |

One action stands for the code between two awaits. `InsertRow` is the INSERT, `CommitInsert`
its commit, and a crash, a deletion, another job or a failure may come between them.
`Raise` is what an exception does once it leaves `process_trip_alert` or the retry pass, and
`RollbackAndRaise` what it does when it went through `session.rollback()`: SQLAlchemy
expires every instance of the session then, `expire_on_commit=False` notwithstanding, and a
later read of a plain attribute raises (asyncio has no implicit IO). So `StartTask`,
`PlanReturns`, `ForecastReturns`, `SendRejected` and `StampUnreadable` all ask whether what
they read has expired.

**RainCache** is `get_forecast` for one cache key, called by several requests at once. A
forecast is the moment at which Buienradar made it, which is what lets a property speak about
its real age; the envelope adds `fetched_at` and the end of Redis' TTL. The GET, the decision,
the fetch, the moment upstream answers, the stamp and the SET are separate steps, because
time passes and other requests run between them. Every await has a deadline that time may
not pass. What Buienradar sends may be `Absurd`, an intensity that overflows the formula of
the client. `FetchFails` is the except clause with the two kinds of exception it names;
`FetchEscapes` is the one it does not name, which leaves `get_forecast` (`pc = "raised"`).

**NearestSearch** is the abstract specification of the snapping fallback: points are refused
until the first in the listed order that is not refused wins, none is left, or the time is
over. **Snap** is `bike_with_snapping` as it is written:

| State | Code |
|---|---|
| `stage` | the ring the two nested loops have got to: the destination's rings, then the origin's |
| `probe` | the slim queries of the ring's `gather`, one answer per offset |
| `chosen`, `pc = "planning"` | the offset whose full plan is awaited |
| `elapsed` | `asyncio.timeout(snap_timeout_seconds)` |
| `refused` | history: the points OTP answered without a bike route |

Probes answer in any order (`ProbeAnswers`); a full plan without a bike falls through to the
next offset (`PlanMissing`); the deadline may fall between any two of these (`Expire`).

**Planner** is `gather_candidates` behind `gather_candidates_cached`, for one trip and so one
cache key, called by several requests at once.

| State | Code |
|---|---|
| `network` | external: which kinds each query finds, and whether snapping finds a bike route; fixed while the model runs |
| `entry` | the Redis value: kinds of its candidates, the end of its TTL, and when its queries left |
| `pc`, `deadline` | the await a request is in, and when that has ended at the latest |
| `cached` | what `_read_cached_candidates` returned |
| `asked`, `failed`, `broken` | queries without an answer yet, those that raised, whether one raised no `OTPError` |
| `snapped` | the result of the fallback |
| `lastFault` | history: when a query or the fallback failed last |
| `answer` | what `/v1/plan` answers in the present step |

The fallback is one call here that finds a bike route or does not, within `SnapTime`; `Snap`
shows (`ImplementsSearch`, `Returns`) that this is what it does. `since` is the moment the
queries leave, since OTP plans from then on, and so gives the real age of what is served.

**Scoring** has the cost of an itinerary and the rain in it as operators, **Ranking** is the
loop of `rank` as a state machine whose cost function is a parameter, and **Advice** puts the
two together as `recommend` does. `position` is the loop variable, `best[k]` the entry of the
dictionary `best`, `options` the sorted winners. Units are chosen so that nothing is rounded:
whole minutes, tenths of a millimetre per hour, half minutes of cost.

**Accounts**, **Geocoder** and **TripAlerts** are the API process. `TripAlerts` composes the
other two: its requests register, log in, authenticate, resolve names and work on alerts, and
any number of them run at a time.

| State | Code |
|---|---|
| `users`, `alerts` | the committed rows of `users` and `trip_alerts`; a person (`owner`) stands for the password that only this person knows |
| `lastUser`, `lastAlert` | the sequences behind the ids |
| `tokens` | issued tokens that have not expired, each with the account in `sub` and who got it |
| `req[r]` | `stage`: the await a request is in; `then`: the endpoint that follows authentication; what it was sent and has read (`email`, `account`, `token`, `alert`) |
| `cache` | `_cache` of the geocoder: its keys, in the order of the dict |
| `lookup[r][e]` | how far a request is with either end of its trip |

One action is the code between two awaits again. `InsertUser` is the flush, `CommitUser` the
commit: between them the unique index makes another INSERT of the address wait (`Contended`).
`Authenticate` reads the account, `StoreAlert` and `RemoveAlert` use what it read, and
`DeleteAccount` may come between. `Resolve` answers a hit and coordinates at once and sends a
miss to Nominatim, whoever else has missed the name; `Found` fills the cache. `Fail` is a
statement that raises, `Restart` a crash of the process, which loses the name cache.

**GtfsFilter** is the script that cuts the national feed down to one operator, with every
member of the feed as a relation, and **StopImport** is the import of the stops of either feed.

| State | Code |
|---|---|
| `national`, `dst` | the national feed and the output file: none, torn (begun and not closed) or a feed |
| `members`, `damaged` of a feed | the members its zip file has, and those of them that cannot be read to their end |
| `input` | the feed that is read: the national one, or an earlier output |
| `keep`, `frontier` | the stops to be kept, and those whose parents the loop has still to look up |
| `table` | the rows of `stops` |

`Begin` is `main` up to the closure, `Climb` one turn of its loop, and `Write` the rest with the
repair of `bikes_allowed`. The output is written inside `with zipfile.ZipFile(dst, "w")`
(`filter_gtfs_gvb.py:118`), which any exception leaves through `close()`. So a run that fails at
a member (`Raise`: it is required and absent, or damaged) or is stopped (`Interrupt`: Ctrl-C,
or an exception from anywhere) leaves a zip file that reads like any other, with the members it
had written (`Part`, in the order of `Order`). The last of these may be damaged:
`writestr` enters a member also when it is stopped while it compresses the data. Only `Kill`
leaves a torn file. The next run, and an import, may read what any of these left.
`RowOf` is the last row of an id, as a Python dict keeps it. `Import` is `_read_stops` and the
upsert; it takes the last row that can be placed.

## 3. What the runs check

Bounds are in the `.cfg` files. In `Notify` a day has three units and the lead window one,
so that midnight, a tick before it and a tick after it are all within four units.

| Run | Instance | Shows |
|---|---|---|
| `schedule` | hours of 12 and days of 24 minutes, a step of 5 (which does not divide the hour), one lost tick, clock to 90 (almost four days), four trips around midnight | `EveryDepartureSeen`, `SeenInTime` |
| `sweep` | one job at a time, two trips that are due together around midnight, two permits, a retry limit of one, clock to 3, one failure | the safety of the sweep and its inductive invariant, `RecordedIsDelivered`, `TickEnds` with tasks contending for `db_lock` |
| `overlap` | two overlapping jobs, one trip, one failure | one recorder per key, refinement of the outbox under overlap, `TickEnds` with jobs contending for a row |
| `rain` | two requests, calls of one unit, fresh window one, retention two, every answer of Buienradar possibly absurd, clock to 6 (past the largest possible age) | the three age bounds, `AlwaysAnswers` |
| `snap` | rings of three and two offsets around either endpoint, deadline two | the fallback implements `NearestSearch` and returns by its deadline |
| `plan` | one request after the other, four trips, every outcome of Redis, queries and snapping, clock to 7 (past the horizon of five) | age and flaws of what is served, nothing empty is pinned, `AlwaysAnswers` |
| `advice` | a day of twelve minutes, up to three of six itineraries around midnight, nineteen forecasts | selection and order of `rank`; score and reported rain agree |
| `alerts` | two requests at a time of two people, one address in two spellings, two registrations, one alert, trips over six names (one in two spellings, one unknown, one given as coordinates), a name cache of two | `OwnAccountOnly`, `OneAccount`, `NoOrphans`, `OnlyOwnerRemoves`, `CacheMovesOn` |
| `feed` | every parent relation of three stops and a station that no row lists (125) plain, with a stop listed twice and with a row that cannot be placed; a metro trip with its first and last times on either side of every rush hour, in half hours with the real windows, also past midnight; runs over each other's output that fail, are stopped or killed at any member; two rows per statement | `OutputIntact`, `OffPeakOnly`, `Idempotent`, `ClosureEnds`, `StopsArrive` |
| `isolation`, `late_retry`, `degrades` | as small as possible | each violates one statement of the documentation, a comment or a test; see section 5 |

Why these are enough: the hazards are about two actors and one key, one session or one row,
so two trips on one session and two jobs or requests on one key show every conflict. In
`sweep`, the one failure may be that of any statement or commit or a crash; deletions, raising
planners and forecasts and rejected sends are not counted and may come on top; the proofs
put no bound on any of these. In `snap`, three offsets leave one before and
one after the winner, and a second ring one that must not be asked. In `plan`, TTL and every
call take one unit, so that expiry falls between and into every pair of awaits; that
concurrent writers of one plan entry do no harm is proved for any number of requests
(`PlannerProofs`). In `advice`, three candidates suffice for a tie, a late departure and
another kind at once, and the slots lie before, at and after midnight. In `alerts`, the second
registration may be of the address of an account that was deleted, which is what could make a
token name somebody else's account; a cache of two overflows with the third name, and the two
requests may miss one name together. In `feed`, three rows have cycles of every length up
to three, chains, dangling parents and stops without need of them; with the duplicate row the
last one decides whether a station is kept; `MaxRows` lets two rows through, so that the
import of three fails. The proofs remove the bounds for most of the properties.

Deadlock is not checked in `schedule`, whose clock ends at `MaxClock`, and in `snap` and
`advice`, which model one call that returns. The other models never stop.

The safety properties in words:

- `SessionExclusive`: a session never has two statements in flight.
- `OneRecorder`: overlapping jobs never both insert one key.
- `RightDay`, `NoStaleDay`: filed under a day the trip recurs on; not sent for a day that
  was over when the tick began.
- `DuplicateNeedsCause`, `AbortNeedsCause`: with one job at a time, an alert is sent twice,
  or a tick given up, only after a failure or a deletion.
- `Durable`: a committed row is neither withdrawn nor un-stamped, except with its trip.
- `ImplementsOutbox`: every step of the sweep is a step of `Outbox` or leaves it alone: record,
  then send, then stamp.
- `FreshAge`, `AnswerAge`, `NeverFarBack`: a fresh hit is younger than the fresh window plus
  one fetch; any forecast is younger than its retention plus two cache calls and two
  fetches; a concurrent writer sets the cache back by one fetch and one write at most. With
  the defaults (300 s, 2700 s, 2 s, 10 s): 310 s, 2724 s and 12 s.
- `AlwaysAnswers`, in `rain`: no failure of Redis costs the answer, and of Buienradar's only an
  absurd body does (section 5); in `plan`: every combination of
  outcomes ends the request.
- `ImplementsSearch`: however the probes interleave, the nearest offset that is not refused
  wins, the destination's rings before the origin's, and nothing wins after the deadline.
- `PlanAge`: a served plan is younger than the horizon, `TTL + QueryTime + SnapTime +
  2 * CacheTime`. With 45 s, 10 s, 8 s and 2 s that is 67 s, where planner.py:36-37 speaks
  of 45 s.
- `FlawsFade`: an answer has every kind the network offers unless something failed within
  the last horizon, also when the answer comes from the cache and another request failed;
  and it has no kind that the network does not offer.
- `EmptyNotPinned`: an answer from the cache has an option.
- `EveryKindStays`, `FirstCheapest`, `InOrder`: a kind that was offered keeps a candidate,
  the first of the cheapest that leave soon enough, and the winners come in order.
- `RainIsReported`: no leg whose cost counts rain is part of a trip that is reported as dry,
  although the score and the report use windows of their own, either side of midnight.
- `RainOnlyCosts`: more rain never makes a trip cheaper, and no forecast counts as dry.
- `OwnAccountOnly`: whoever gets past `get_current_user` registered the account, also after
  the account was deleted and its address registered anew by somebody else.
- `OneAccount`: one account per address, in whatever spelling, however registrations race.
- `NoOrphans`: no alert without its account, although the account may go while the names of a
  new alert are being looked up.
- `OnlyOwnerRemoves`: an alert goes by a delete of its owner or with the account, and an
  account never changes its address, password or id, whatever the requests of others do
  between the SELECT and the DELETE.
- `CacheMovesOn`: the name cache is never over its limit, holds no name twice, drops only its
  first entry and only when it is full, and has in it what was just looked up. A restart,
  which empties it, is exempt.
- `OutputIntact`: in an output that has its members, every reference of the national feed that
  starts at a trip of ours can be followed, stations at any height above a stop included, and
  no stop is kept that these do not need; also when the script has read its own output, or that
  of a run that was stopped. It says nothing of an output without, say, its stops or shapes,
  which is what a stopped run leaves; nothing tells such an output from a whole one but its
  members.
- `OffPeakOnly`: no trip that was given its bikes runs at any moment of any rush hour, also in
  an output of which members are missing.
- `Idempotent`: a run over an earlier output that gets to its end leaves the same output, the
  repaired flags included, also one without its optional members; without a required
  member it does not get to its end.
- `ClosureEnds`: the closure ends, also if stations are each other's parents.
- `StopsArrive`: an import that changes the table leaves one row per stop, loses none, and
  brings in every stop our trips call at, and its station, as the national feed has it,
  whether it read the national feed, the filtered one or what a stopped run has left: that
  file either has `stops.txt`, and then all of it, or the import ends before it asks the
  database.

### Fairness

`Notify!FairSpec` assumes weak fairness of each job, each task and each delivery: arq keeps
running the cron job, and every await returns. For the HTTP calls and for Redis that is what
their timeouts are there for. The engine of `app/db/session.py:25` sets no timeout on a
Postgres statement: a claim waits only for the row lock of another claim, whose holder never
waits for a second lock and lets go at its commit or rollback, so that a statement returns
as long as Postgres answers at all; this is an assumption about the database.
It assumes strong fairness of acceptance per key: a channel
that is tried again and again accepts in the end; without it nothing can be delivered. No
fairness is assumed of the clock, of riders, of failures or crashes; their number is bounded by `MaxFaults`, that is, they stop at some
time. `RainCache!FairSpec` assumes that every await of a request returns, which the socket
timeout of Redis and the HTTP timeout of Buienradar are there for. `Planner!FairSpec` assumes
the same of Redis and OTP; a request that is never made breaks nothing. `Snap!FairSpec`
assumes only that time passes and that a timer that is over fires, not that OTP ever answers:
the deadline alone has to end the fallback.
A request that raised may be made again; nobody has to.
`StopImport!FairSpec` assumes that a filter that was started goes on (`Climb`, `Write`, `Raise`);
nobody has to start it, stop it or import anything. `alerts` states no liveness: its awaits end as
those of the other components do, and no step of it waits for another request but the unique
index, whose holder ends without waiting.

## 4. What is proved

All theorems hold for every value of the constants: any number of trips, jobs and requests,
any day length, lead time, retention and so on.

- `ScheduleProofs`: `DueIsDepartsWithin` (the split WHERE clause selects exactly the trips
  with a departure in the lead window) and `DueDeparture` (the day key is the day of that
  departure). The argument is division with remainder: the window ends on this day or on
  the next, and the decomposition of a moment into day and time is unique. From them
  `ScheduleTyped`, `PicksInTime`, `CoverageInvariant` and `NoneUnseen`, the property
  `EveryDepartureSeen`, which has `LeadCoversTicks` as its condition.
- `NotifyProofs`: `Invariance`, that is `Spec => []IInv`, and from it `TypeCorrect`,
  `HonestOutbox` (record, then send, then stamp, in every state), `FiledRight`, `Exclusion`,
  `SingleRecorder`, `NoStaleSend`, `AbortsExplained`, `Durability` and the refinement
  `Implementation`; `SentOnce`, the property `DuplicateNeedsCause`, for one job at a time.
- `RainCacheProofs`: `AgesBounded`, that is `Spec => []AgeInv`, and from it `AgeOfAnswers`,
  `AgeOfFreshHits` and `CacheMovesOn`.
- `SnapProofs`: `SnapInvariant`, and from it the refinement `SnapImplementsSearch`, for any
  rings and any deadline.
- `PlannerProofs`: `PlansSound`, that is `Spec => []PlanInv`, and from it `AgeOfPlans`,
  `FlawsDoFade`, `NoEmptyHit` and `CacheMovesOn`, for any number of requests.
- `AdviceProofs`: `RankInvariant` and from it `KeepsFirstCheapest`, `KeepsEveryKind` and
  `WinnersInOrder`, for any candidates and any costs; `WindowHoldsTrip` and
  `WindowHoldsNoMore` (the window of a trip shorter than a day holds the times of day of its
  moments and no others); from them `RainOnLegIsReported` and `RainReported`, the property
  `RainIsReported`; and `WetterCostsMore`, the property `RainOnlyCosts`, for trips of any
  number of legs.
- `TripAlertsProofs`: `Invariance` of the API process, and from it `TokensOpenOwnAccount`,
  `AddressesUnique`, `AlertsOwned`, `RemovedByOwner` and `CacheBounded`, for any number of
  requests, people, accounts, alerts and names and any size of the cache.
- `StopImportProofs`: `FilterInvariant`, that is `Spec => []FilterInv`, and from it
  `WholeOutput`, `BikesOffPeak` and `FilterIdempotent`, for any national feeds and rush hours and
  wherever runs fail or are stopped, and `ClosureAdvances` (each turn of the closure loop ends
  it or leaves fewer ids that it could keep); `OneRowPerStop` and `ImportsArrive`, for any limit on a statement.

Assumptions: the named `ASSUME`s of the modules, which TLC evaluates in every run. What they
say beyond types:

- `WindowAssumption`: `Lead < DayLen`, since the code splits its window once.
- `CostAssumption`, `AdviceAssumption`: what `Ranking` takes as a cost is the score of
  `Scoring`; legs lie within their trip, a trip has finitely many and takes less than a day;
  a forecast has one slot for a time of day (`clients/buienradar.py:5`: five-minute slots of
  the next two hours).
- `FeedsAssumption`: a feed is finite, the ids of its trips are keys and no stop's id is
  empty, as GTFS requires. `RushAssumption`: what the comment on `RUSH_WINDOWS` relies on (section 6).

`LeadCoversTicks` is no assumption but a condition within `EveryDepartureSeen`; `OneJob`, that
ticks do not overlap, is the hypothesis of `SentOnce`, as the property fails without it.

The cover of the schedule (`CoverInv`) says that there is a tick up to whose lead window every
departure was found, or will be by a job that waits, and that this tick lies no further back
than the ticks that were lost since. It is inductive because two cron minutes in a row are
never more than a step apart, across the end of an hour too (`CronTime` by remainders), and
because a job that waits still sees whatever lies between its latest start and the end of its
lead (`Pending`).

The inductive invariant `IInv` of the sweep is needed because none of its properties is
inductive alone. That a stamped row was accepted needs to know that whoever is about to stamp
has sent (`SentInv`), which needs that the row a retry works on was recorded (`RetryInv`) and
that a task past its commit is about a recorded key (`TaskInv`). That there is one recorder
needs that an uncommitted row is new and unrivalled (`InsertInv`), which in turn needs that
a recorded key without a row belongs to a deleted trip (`PurgeInv`), so that the unique key
and the foreign key together keep a key from being recorded twice. `LockInv` ties uncommitted
work to the holder of `db_lock`; `PhaseInv` keeps tasks and retry pass apart, which is why the
retry pass needs no lock; `CauseInv` traces an expired session to a failure or a deletion.
`OnceInv` says that without either, and with one job, what was sent is stamped or about to be
by the task that sent it (`Settled`), and what is about to be sent or waits for its retry was
not sent (`Unsent`); each needs the other.

`AgeInv` bounds stamps by fetches, expiries by stamps and deadlines by what was read; the
ages follow by adding up. `PlanInv` does the same for plans and adds what flaws need: an
entry that lacks a kind has a fault no older than its queries (`Sound`), which needs that a
request remembers its failures until it has served (`PlanningOk`) and that what it is about
to write lacks a kind only after such a failure (`ReadyOk`).

`SnapInv` says which points have been refused: every one of the earlier stages, none of the
later ones, and in the present ring exactly those without a bike route and those behind the
scan. That is what makes a winner the first that was not refused.

`RankInv` says that the candidate kept is the first of the cheapest among those considered.
That no kind is lost rests on the minimum over a non-empty set of departure times: the
candidate that leaves first always competes. The order of the winners rests on their places:
`Before` is a strict order of them, so their places are the numbers below their count, each
taken once. The windows are division with remainder once
more: a trip of less than a day ends on its day, or on the next at an earlier time of day.
That rain only costs holds leg by leg first: a wetter forecast has no fewer wet slots in a
window, since its slots map one to one, and no lower peak, and the bands go up. The sum over
legs is a recursive function on sets; that it exists (`SumsExist`) and goes up with what is
summed (`SumsOrdered`) is shown by a smallest set for which it fails.

The invariant of the API process has a part per kind of thing. `Identity` is the heart of it:
among the accounts that are committed or in the hands of some request (`Rows`), an id names
one account, no id lies beyond the sequence, and a token, in circulation or in a request
(`Tickets`), has the holder that owns the account it names, if that exists. It is needed
because a request works with what it read before its awaits. Since an id is never used twice,
what it read is either still so or gone, and never somebody else's. `RequestsInv` says what
each stage has read, `Addresses` that the unique index holds for rows that are not committed
yet, `Ownership` that a delete under way names an alert of its requester or none, and
`CacheInv` bounds the name cache.

`FilterInv` says that whatever a run leaves is a part of a cut of the national feed (`IsOutput`,
`CutOf`), and if it has the stops, of the cut to the closure of the stops called at, the
smallest set that holds these and the parents of its members. It is inductive because of
`ClimbInv`: the loop has looked up the parents of all it keeps but the frontier, and every
closed set contains what it keeps, so that an empty frontier means the closure. Four members
come before the closure and do not depend on it (`TablesFixed`); every later member depends only
on these, on itself and on the closure (`AgreeCuts`). A run over an earlier output that gets past
`trips.txt` has read all four (`RunAgrees`), finds the same trips and calls in them
(`CutTables`) and repairs nothing further (`CutRepaired`); if it gets past `stops.txt`, it finds
the same rows (`CutStops`) and so the same closure (`ClosureAgain`). Wherever it stops, it
leaves a part of the same cut (`StoppedRun`), and at its end what it has read (`SecondRun`),
which is `Idempotent`. An output with all of its members is no smaller part than the cut
itself (`WholeIsCut`). `NoStopIdle` is the minimality of the closure, to which a smaller set
is lifted by adding the ids that no row lists. The times of a repaired trip lie on one side of
each window, and in the night after it before the next morning's, so that no moment between
them falls within one. An import finds the rows of our stops in either feed (`NeededRow`), the
last of their ids, and therefore among those it upserts.

Only model-checked: the liveness properties (`RecordedIsDelivered`, `TickEnds`,
`AlwaysAnswers`, `Returns`, `ClosureEnds`), which TLAPS cannot prove under fairness; of
`ClosureEnds`, `ClosureAdvances` is the part that needs none. Every other property of the
passing runs is a theorem.

## 5. Where the code and its documentation disagree

1. `isolation`: one bad alert can abort the tick (`notify.py:428` against `notify.py:382`).
   A deletion during the assessment is enough: the INSERT violates the foreign key, the
   rollback expires all alerts, the handler's `alert.id` raises, `gather` passes it on.
2. `late_retry`: the retry pass goes by the day, not by the departure (`notify.py:343`
   against `tests/integration/test_notify.py:565`).
3. `degrades`: JSON of an unexpected type fails the request although other queries have
   answered (`otp.py:327` against `otp.py:313` and `planner.py:66`).

Met while modelling, without a run of their own:

- A rollback by one task makes the stamp of another one fail, and the alert is sent twice
  without any failing call (`notify.py:295` against `workers/main.py:40`, "at most one
  alert"). `DuplicateNeedsCause` states what does hold.
- `get_forecast` answers "no data" from a miss it read before the fetch, although the cache
  has been filled since (`rain.py:77` against `rain.py:17`).
- A cached plan may be older than its TTL by the time it took to make (`planner.py:145`
  against `planner.py:36-37`); `PlanAge` states the bound that does hold.
- When some queries fail and the others find nothing, the endpoint answers 404, as for a trip
  that nothing makes (`planner.py:77` against `api/plan.py:104-106`).
- A leg that lies between two slots of the forecast counts as dry in steady rain, and so does
  a trip (`scoring.py:147` against `scoring.py:4-5`).
- A repeated lookup does hit Nominatim again once the name was evicted, and so do lookups that
  miss together (`geocoder.py:122` against `geocoder.py:12`, "repeat lookups never re-hit
  the API").
- Two deletes of one alert at a time: the second one matches no row, which SQLAlchemy warns
  of, and answers 204, where one after the other would have answered 404
  (`trip_alerts.py:101`).
- An account that is deleted while the ends of its new alert are looked up: the foreign key
  refuses the INSERT, and the answer is 500 (`trip_alerts.py:57`).
- The filter keeps the last row of a stop that is listed twice, the import the last row that
  can be placed: a stop whose last row is malformed is lost to an import of the filtered feed
  but not to one of the national feed.
- An intensity that Buienradar could only send by mistake overflows the formula
  (`buienradar.py:50`). `OverflowError` is neither of the two exceptions that the client documents
  (`buienradar.py:112-114`) nor caught by the service (`rain.py:72`), so `get_forecast` raises,
  also with a stale forecast at hand, against `rain.py:4-5` ("never crash on a flaky
  upstream"). `FetchEscapes` is this case, and `AlwaysAnswers` makes an exception of it.
- A filter run that is stopped leaves a zip file that reads like a feed (section 2). Neither the
  next run over it, nor the import, nor OTP is told that it lacks members.

## 6. Abstractions

- What a plan or a forecast says is a choice: no bike, dry, degraded, wet, or an exception.
- A rejected send means that the rider did not get the alert. A channel that delivers and then
  reports a failure adds duplicates, which the at-least-once promise allows.
- After an aborted `gather`, the tasks it no longer waits for run on while the session is
  closed under them: `StatementFails` lets any of their statements fail. The job counts as
  running until they have ended; overlapping runs are modelled by several jobs. One moment of
  this is left out: `session.close()` takes no lock, and between the result of an INSERT and
  its task going on it would turn the commit into one of nothing, so that the alert goes out
  unrecorded. `Durable` and `ImplementsOutbox` say nothing of that moment.
- A sweep selects at the moment it stamps `now` (`workers/main.py:54`); how far the clock moves
  on before it sends is not bounded by anything but arq's job timeout, and `SeenInTime` and
  `NoStaleDay` are meant relative to that stamp.
- `created_at` is any moment between the tick's stamp and the commit: it is the start of the
  transaction, whose moment depends on earlier statements of the session.
- Deleting an account is a deletion of its trips. No endpoint changes a trip.
- The clocks of API, worker, Redis and Postgres agree. Daylight saving is left out: the code
  does wall-clock arithmetic, which on the two days of change repeats or skips an hour.
- `CacheTime` and `FetchTime` are the longest that a call takes in fact. The client libraries
  bound each phase of a call, so a call may take a small multiple of the setting.
- `Planner` has one trip whose network does not change, and a plan is the set of its kinds.
- Where points lie is left out: `Snap` knows offsets by their number, `Scoring` a place as
  near a hub or not. The costs of `Scoring` are integers, the code rounds to four decimals.
- A trip of a day or longer is outside `Advice`: its window would not tell its days apart.
- In `Accounts`, bcrypt and the token's signature do what they promise: only the owner's
  password verifies, only issued tokens decode. Ids that a sequence skips are left out.
- No endpoint deletes an account; `DeleteAccount` is somebody working on the database.
- What an alert says beyond its owner, and that a request may hold a connection of the pool
  while it waits for Nominatim, are left out. Both ends of a plan are asked for at once; when
  one fails, the lookup of the other runs on to its end.
- In `GtfsFilter`, an earlier output is read from where it was moved to: with input and output
  in one place the script would empty what it is about to read. A torn file is not read at all.
  When no agency matches, the script exits before it touches the output, as it does when it
  cannot read the agencies, routes or trips. The two calendars count as one member and
  `feed_info.txt` is left out; a member that the national feed lacks is as one without rows.
  A member without a header is as one that is absent, which is how the script treats it.
- The repair of `bikes_allowed` takes the times of `stop_times.txt` that parse and does not know
  of `frequencies.txt`. `RushAssumption` is what the comment on `RUSH_WINDOWS` relies on: a
  late-night run has ended before the first rush hour of the next day.
- `MaxRows` stands for the number of parameters Postgres takes in one statement. An import
  leaves the rows of earlier feeds alone, as the code does.
- `MaxUsers` and `MaxAlerts` bound `alerts`; `MaxClock` and `MaxFaults` bound the other models, `Days`/`Keys` follow from `MaxClock`.

## 7. Not modelled, and the plan

What is left, in the order planned:

1. The DST changes of Europe/Amsterdam in `DueWindow`, as a map from wall-clock to moments.
2. The parsing in the OTP and Buienradar clients, as far as it decides which exception is raised.
3. Proofs of what the other liveness properties need beside fairness: what each step of a tick,
   of a request and of the snapping fallback brings closer to its end.

Not modelled, for lack of state or of anything a model would add: configuration (checked at
start-up, its values are the CONSTANTS here), the wiring of the HTTP application and its lazily
created clients, Alembic migrations, Docker files, `golden_trips.py` (prints the answers to a
fixed list of queries), the nearby search for stops (one query over distances).

Left out of what is modelled: HTTP serialisation, string parsing, bcrypt and JWT internals,
distances and other floating-point arithmetic.

Four hazards have no property. What `rain.py:77` and `planner.py:77` lead to is what the code does,
and a property would forbid it (section 5); the stale `now` of a sweep (`workers/main.py:54`)
is not bounded by the code (section 6); and overlapping writers of a plan are covered by the
theorem `PlannerProofs!CacheMovesOn` rather than by a run (`planner.py:173`).
