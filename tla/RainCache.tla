------------------------------ MODULE RainCache ------------------------------
(***************************************************************************)
(* The rain service of app/services/rain.py: get_forecast behind a cache   *)
(* that several requests, of the API and of the worker, share, for one     *)
(* rounded location.  A forecast is represented by the moment Buienradar   *)
(* made it.  Steps are cut at the awaits, where other requests run and     *)
(* time passes; a call that is under way has a deadline.                   *)
(***************************************************************************)
EXTENDS Integers

CONSTANTS
    Requests,      \* calls of get_forecast that may be under way together
    Fresh,         \* rain_cache_fresh_seconds
    Retention,     \* rain_cache_retention_seconds
    CacheTime,     \* the longest a Redis call takes (redis_timeout_seconds)
    FetchTime,     \* the longest a fetch takes (request_timeout_seconds)
    Nothing,       \* no cache entry
    Degraded,      \* the answer None
    Absurd,        \* a body with an intensity beyond what the formula can turn into mm/h
    CacheFails,    \* may a Redis call fail?
    MaxClock       \* bound: the last moment considered

ASSUME RainAssumption == /\ Fresh \in Nat
                         /\ Retention \in Nat
                         /\ CacheTime \in Nat
                         /\ FetchTime \in Nat
                         /\ CacheFails \in BOOLEAN
                         /\ MaxClock \in Nat
                         /\ Degraded \notin Int
                         /\ Absurd \notin Int

\* The JSON envelope (its forecast and fetched_at) and the end of its Redis TTL.
Envelope == [taken : Nat, at : Nat, expires : Nat]

ASSUME NothingAssumption == Nothing \notin Envelope

VARIABLES
    clock,
    entry,         \* the Redis value under the location's key
    pc,            \* pc[r]: where request r awaits
    deadline,      \* deadline[r]: when the call it awaits has timed out
    cached,        \* cached[r]: what _read_cache returned
    forecast,      \* forecast[r]: the forecast, or the body, that it fetched
    stamp,         \* stamp[r]: the fetched_at it is about to write
    answer         \* what get_forecast returns in the present step, to whichever request

calls == <<pc, deadline, cached, forecast, stamp, answer>>
vars  == <<clock, entry, calls>>

Places == {"idle", "reading", "assessing", "fetching", "answered", "writing",
           "written", "raised"}

TypeOK == /\ clock \in 0..MaxClock
          /\ entry \in Envelope \cup {Nothing}
          /\ pc \in [Requests -> Places]
          /\ deadline \in [Requests -> Nat]
          /\ cached \in [Requests -> Envelope \cup {Nothing}]
          /\ forecast \in [Requests -> Nat \cup {Absurd}]
          /\ stamp \in [Requests -> Nat]
          /\ answer \in Nat \cup {Degraded}

Init == /\ clock = 0
        /\ entry = Nothing
        /\ pc = [r \in Requests |-> "idle"]
        /\ deadline = [r \in Requests |-> 0]
        /\ cached = [r \in Requests |-> Nothing]
        /\ forecast = [r \in Requests |-> 0]
        /\ stamp = [r \in Requests |-> 0]
        /\ answer = Degraded

-----------------------------------------------------------------------------

Goto(r, place) == pc' = [pc EXCEPT ![r] = place]

\* A step in which no call returns.
Silent == answer' = Degraded

\* An await begins that ends, one way or the other, within `time'.
Await(r, time) == deadline' = [deadline EXCEPT ![r] = clock + time]

\* get_forecast returns `result'; its locals are gone.
Return(r, result) == /\ Goto(r, "idle")
                     /\ answer' = result
                     /\ deadline' = [deadline EXCEPT ![r] = 0]
                     /\ cached' = [cached EXCEPT ![r] = Nothing]
                     /\ forecast' = [forecast EXCEPT ![r] = 0]
                     /\ stamp' = [stamp EXCEPT ![r] = 0]
                     /\ UNCHANGED <<clock, entry>>

LiveForever == entry # Nothing

\* Redis drops an entry when its TTL is over.
Live == entry # Nothing /\ clock < entry.expires

\* get_forecast is called: the cache is asked first.
Request(r) == /\ pc[r] \in {"idle", "raised"}
              /\ Goto(r, "reading")
              /\ Await(r, CacheTime)
              /\ forecast' = [forecast EXCEPT ![r] = 0]
              /\ UNCHANGED <<clock, entry, cached, stamp>>
              /\ Silent

\* The GET reaches Redis.
ReadCache(r) == /\ pc[r] = "reading"
                /\ cached' = [cached EXCEPT ![r] = IF Live THEN entry ELSE Nothing]
                /\ Goto(r, "assessing")
                /\ UNCHANGED <<clock, entry, deadline, forecast, stamp>>
                /\ Silent

ReadEscapes(r) == /\ CacheFails
                  /\ pc[r] \in {"reading", "assessing"}
                  /\ Goto(r, "raised")
                  /\ UNCHANGED <<clock, entry, deadline, cached, forecast, stamp>>
                  /\ Silent

\* Redis is out, slow, or holds what no longer validates: a miss.
ReadFails(r) == /\ CacheFails
                /\ pc[r] = "reading" \/ (pc[r] = "assessing" /\ cached[r] # Nothing)
                /\ cached' = [cached EXCEPT ![r] = Nothing]
                /\ Goto(r, "assessing")
                /\ UNCHANGED <<clock, entry, deadline, forecast, stamp>>
                /\ Silent

FreshYoungEnough(r) == cached[r] # Nothing /\ clock - cached[r].at <= Fresh

\* The age counts from fetched_at to the moment the GET came back.
IsFresh(r) == cached[r] # Nothing /\ clock - cached[r].at < Fresh

ServeFresh(r) == /\ pc[r] = "assessing"
                 /\ IsFresh(r)
                 /\ Return(r, cached[r].taken)

Fetch(r) == /\ pc[r] = "assessing"
            /\ ~IsFresh(r)
            /\ Goto(r, "fetching")
            /\ Await(r, FetchTime)
            /\ UNCHANGED <<clock, entry, cached, forecast, stamp>>
            /\ Silent

\* Buienradar makes its answer, which may be absurd; it still has to arrive.
Upstream(r) == /\ pc[r] = "fetching"
               /\ \E body \in {clock, Absurd} : forecast' = [forecast EXCEPT ![r] = body]
               /\ Goto(r, "answered")
               /\ UNCHANGED <<clock, entry, deadline, cached, stamp>>
               /\ Silent

\* HTTPError (an outage, a timeout, an error status) or ValueError (a body that does
\* not parse): the forecast read before the fetch is served, however old; without
\* one, None.
FetchFails(r) == /\ pc[r] \in {"fetching", "answered"}
                 /\ Return(r, IF cached[r] = Nothing THEN Degraded ELSE cached[r].taken)

\* OverflowError, which the except clause does not name: get_forecast is left without
\* an answer, whatever was read from the cache.
FetchEscapes(r) == /\ pc[r] = "answered"
                   /\ forecast[r] = Absurd
                   /\ Goto(r, "raised")
                   /\ deadline' = [deadline EXCEPT ![r] = 0]
                   /\ cached' = [cached EXCEPT ![r] = Nothing]
                   /\ UNCHANGED <<clock, entry, forecast, stamp>>
                   /\ Silent

StampUntimed(r) == /\ pc[r] = "answered"
                   /\ forecast[r] # Absurd
                   /\ stamp' = [stamp EXCEPT ![r] = clock]
                   /\ Goto(r, "writing")
                   /\ Await(r, CacheTime + Fresh)
                   /\ UNCHANGED <<clock, entry, cached, forecast>>
                   /\ Silent

\* The forecast arrived; _write_cache stamps it and sends the SET.
StampForecast(r) == /\ pc[r] = "answered"
                    /\ forecast[r] # Absurd
                    /\ stamp' = [stamp EXCEPT ![r] = clock]
                    /\ Goto(r, "writing")
                    /\ Await(r, CacheTime)
                    /\ UNCHANGED <<clock, entry, cached, forecast>>
                    /\ Silent

\* The SET reaches Redis, which starts the TTL.  It asks nothing of what is there.
WriteCache(r) == /\ pc[r] = "writing"
                 /\ entry' = [taken |-> forecast[r], at |-> stamp[r],
                              expires |-> clock + Retention]
                 /\ Goto(r, "written")
                 /\ UNCHANGED <<clock, deadline, cached, forecast, stamp>>
                 /\ Silent

\* The SET returns, or failed with or without effect: the forecast is served.
ServeFetched(r) == /\ pc[r] = "written" \/ (CacheFails /\ pc[r] = "writing")
                   /\ Return(r, forecast[r])

Advance == /\ clock < MaxClock
           /\ \A r \in Requests : pc[r] \notin {"idle", "raised"} => clock < deadline[r]
           /\ clock' = clock + 1
           /\ UNCHANGED <<entry, pc, deadline, cached, forecast, stamp>>
           /\ Silent

Step(r) == \/ ReadCache(r) \/ ReadFails(r) \/ ServeFresh(r) \/ Fetch(r)
           \/ Upstream(r) \/ FetchFails(r) \/ FetchEscapes(r) \/ StampForecast(r)
           \/ WriteCache(r) \/ ServeFetched(r)

Next == Advance \/ \E r \in Requests : Request(r) \/ Step(r)

Spec == Init /\ [][Next]_vars

\* Every call of get_forecast gets its answers, or its timeouts.
FairSpec == Spec /\ \A r \in Requests : WF_vars(Step(r))

-----------------------------------------------------------------------------

\* A forecast served without a network call is fresh as of Buienradar, not only
\* as of its stamp: the stamp is set when the fetch ends, so the fetch itself
\* comes on top of the fresh window, and nothing else does (get_forecast).
FreshAge ==
    [][\A r \in Requests :
          pc[r] = "assessing" /\ pc'[r] = "idle"
              => clock - answer' < Fresh + FetchTime]_vars

\* No forecast outlives its retention by more than the calls around it: what is
\* served was fetched by this request or lived in the cache when it was asked.
AnswerAge ==
    [][\A r \in Requests :
          pc[r] # "idle" /\ pc'[r] = "idle" =>
              \/ answer' = Degraded
              \/ clock - answer' <= FetchTime + CacheTime
              \/ clock - answer' < Retention + 2 * (FetchTime + CacheTime)]_vars

\* Requests that miss together overwrite each other in any order, yet the cache
\* never falls back by more than one fetch and one write (_write_cache).
NeverFarBack ==
    [][entry # Nothing /\ entry' # entry
          => entry'.taken >= entry.taken - (FetchTime + CacheTime)]_vars

\* A failing Redis never costs the answer, and a failing Buienradar only in one way:
\* get_forecast returns, unless what Buienradar sent it is absurd.  That exception is
\* the code's: "never crash on a flaky upstream" (rain.py:4-5) promises more.
AlwaysAnswers ==
    \A r \in Requests : pc[r] # "idle" ~> pc[r] = "idle" \/ forecast[r] = Absurd

-----------------------------------------------------------------------------
(* Why the ages are bounded: an invariant that every step preserves.       *)

\* An envelope understates its forecast's age by at most one fetch, and Redis
\* keeps it for its retention from a write that was prompt.
Sound(e) == /\ e.taken <= e.at /\ e.at <= e.taken + FetchTime
            /\ e.at <= clock
            /\ e.expires <= e.at + CacheTime + Retention

EntryInv == entry # Nothing => Sound(entry)

\* Nobody waits past a deadline, and deadlines are near.
DeadlineInv ==
    \A r \in Requests :
        /\ pc[r] \notin {"idle", "raised"} => clock <= deadline[r]
        /\ pc[r] \in {"reading", "assessing"} => deadline[r] <= clock + CacheTime
        /\ pc[r] \in {"fetching", "answered"} => deadline[r] <= clock + FetchTime

\* What was read was alive then, and the request has not waited long since.
CachedInv ==
    \A r \in Requests :
        cached[r] # Nothing =>
            /\ Sound(cached[r])
            /\ pc[r] = "assessing" => deadline[r] < cached[r].expires + CacheTime
            /\ pc[r] \in {"fetching", "answered"} =>
                   deadline[r] < cached[r].expires + CacheTime + FetchTime

\* What was fetched is as old as the calls it took.
ForecastInv ==
    \A r \in Requests :
        /\ pc[r] = "answered" /\ forecast[r] # Absurd =>
               /\ forecast[r] <= clock
               /\ deadline[r] <= forecast[r] + FetchTime
        /\ pc[r] \in {"writing", "written"} =>
               /\ forecast[r] \in Nat
               /\ forecast[r] <= stamp[r] /\ stamp[r] <= forecast[r] + FetchTime
               /\ stamp[r] <= clock
               /\ deadline[r] = stamp[r] + CacheTime

AgeInv == TypeOK /\ EntryInv /\ DeadlineInv /\ CachedInv /\ ForecastInv
=============================================================================
