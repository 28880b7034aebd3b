------------------------------- MODULE Planner -------------------------------
(***************************************************************************)
(* Candidate generation of app/services/planner.py behind the plan cache   *)
(* that /v1/plan and /v1/advice share, for one trip: three OTP queries at  *)
(* once, what each failure does to the answer, and the snapping fallback   *)
(* (module Snap; here it finds a bike route or not).  A plan is the set of *)
(* the kinds of its itineraries.  Steps are cut at the awaits; a call that *)
(* is under way has a deadline.                                            *)
(***************************************************************************)
EXTENDS Integers

CONSTANTS
    Requests,      \* requests for the trip that may be under way together
    Networks,      \* what the transport network may offer for the trip
    Replies,       \* what OTP may answer
    TTL,           \* _PLAN_CACHE_TTL_SECONDS
    CacheTime,     \* the longest a Redis call takes
    QueryTime,     \* the longest an OTP query takes
    SnapTime,      \* snap_timeout_seconds
    CacheFails,    \* may a Redis call fail?
    Nothing,       \* no cache entry
    MaxClock       \* bound: the last moment considered

ModeSets == {"BICYCLE,FERRY", "TRANSIT,WALK", "BICYCLE,TRANSIT,WALK"}

\* classify_kind; a walk has no kind and counts for nothing.
Kinds == {"bike", "transit", "bike_and_ride"}

\* The kinds that the modes of a query allow.
Allowed(m) == CASE m = "BICYCLE,FERRY"        -> {"bike", "transit"}
                [] m = "TRANSIT,WALK"         -> {"transit"}
                [] m = "BICYCLE,TRANSIT,WALK" -> Kinds

\* The kinds of each query's itineraries, and whether some point near a stuck
\* endpoint can be cycled to or from.
Network == [direct : [ModeSets -> SUBSET Kinds], snaps : BOOLEAN]

\* All that fails in OTPClient.plan and is turned into OTPError there.
OTPErrors == {"unreachable", "error status", "not json", "graphql errors",
              "no plan", "missing field"}

\* JSON of an unexpected type: an AttributeError that plan does not catch.
Escapes == {"null leg", "not an object"}

ASSUME PlannerAssumption == /\ \A n \in Networks : /\ n \in Network
                                                   /\ \A m \in ModeSets :
                                                         n.direct[m] \subseteq Allowed(m)
                            /\ Replies \subseteq {"plan"} \cup OTPErrors \cup Escapes
                            /\ TTL \in Nat \ {0}
                            /\ CacheTime \in Nat
                            /\ QueryTime \in Nat
                            /\ SnapTime \in Nat
                            /\ CacheFails \in BOOLEAN
                            /\ MaxClock \in Nat

\* The cached JSON, when its queries left, and the end of its Redis TTL.
Entry == [kinds : SUBSET Kinds, since : Nat, expires : Nat]

ASSUME NothingAssumption == Nothing \notin Entry

VARIABLES
    clock,
    network,       \* what the trip has to offer
    entry,         \* the Redis value under the trip's key
    lastFault,     \* history: when a query or the fallback failed last, or -1
    pc,            \* pc[r]: where request r awaits
    deadline,      \* deadline[r]: when the call it awaits has ended
    cached,        \* cached[r]: what _read_cached_candidates returned
    since,         \* since[r]: when its queries left; OTP plans from then on
    asked,         \* asked[r]: the mode sets that are not answered yet
    failed,        \* failed[r]: those that raised
    broken,        \* broken[r]: did one raise what is no OTPError?
    snapped,       \* snapped[r]: did the fallback find a bike route?
    answer         \* what the endpoint answers in this step, if it does

request == <<pc, deadline, cached, since, asked, failed, broken, snapped>>
vars    == <<clock, network, entry, lastFault, request, answer>>

Places == {"idle", "reading", "deciding", "asking", "snapping", "writing", "written"}

\* 200 with options, 404 no route, 502 routing upstream unavailable, 500; 0 for
\* a step that answers nobody.
Answer == [status : {0, 200, 404, 500, 502}, kinds : SUBSET Kinds, since : Nat]

NoAnswer == [status |-> 0, kinds |-> {}, since |-> 0]

TypeOK == /\ clock \in 0..MaxClock
          /\ network \in Networks
          /\ entry \in Entry \cup {Nothing}
          /\ lastFault \in Nat \cup {-1}
          /\ pc \in [Requests -> Places]
          /\ deadline \in [Requests -> Nat]
          /\ cached \in [Requests -> Entry \cup {Nothing}]
          /\ since \in [Requests -> Nat]
          /\ asked \in [Requests -> SUBSET ModeSets]
          /\ failed \in [Requests -> SUBSET ModeSets]
          /\ broken \in [Requests -> BOOLEAN]
          /\ snapped \in [Requests -> BOOLEAN]
          /\ answer \in Answer

Init == /\ clock = 0
        /\ network \in Networks
        /\ entry = Nothing
        /\ lastFault = -1
        /\ pc = [r \in Requests |-> "idle"]
        /\ deadline = [r \in Requests |-> 0]
        /\ cached = [r \in Requests |-> Nothing]
        /\ since = [r \in Requests |-> 0]
        /\ asked = [r \in Requests |-> {}]
        /\ failed = [r \in Requests |-> {}]
        /\ broken = [r \in Requests |-> FALSE]
        /\ snapped = [r \in Requests |-> FALSE]
        /\ answer = NoAnswer

-----------------------------------------------------------------------------

\* The kinds among the itineraries of the plans that came back.
Pooled(r) == UNION {network.direct[m] : m \in ModeSets \ (asked[r] \cup failed[r])}

\* The candidates: with the one that the fallback appends.
Candidates(r) == Pooled(r) \cup (IF snapped[r] THEN {"bike"} ELSE {})

Silent == answer' = NoAnswer

Goto(r, place, time) == /\ pc' = [pc EXCEPT ![r] = place]
                        /\ deadline' = [deadline EXCEPT ![r] = clock + time]

\* The request is answered and its locals are gone.
Respond(r, status, kinds, when) ==
    /\ answer' = [status |-> status, kinds |-> kinds, since |-> when]
    /\ pc' = [pc EXCEPT ![r] = "idle"]
    /\ deadline' = [deadline EXCEPT ![r] = 0]
    /\ cached' = [cached EXCEPT ![r] = Nothing]
    /\ since' = [since EXCEPT ![r] = 0]
    /\ asked' = [asked EXCEPT ![r] = {}]
    /\ failed' = [failed EXCEPT ![r] = {}]
    /\ broken' = [broken EXCEPT ![r] = FALSE]
    /\ snapped' = [snapped EXCEPT ![r] = FALSE]
    /\ UNCHANGED <<clock, network, entry, lastFault>>

\* gather_candidates_cached is called: the cache is asked first.
Request(r) == /\ pc[r] = "idle"
              /\ Goto(r, "reading", CacheTime)
              /\ Silent
              /\ UNCHANGED <<clock, network, entry, lastFault, cached, since, asked,
                             failed, broken, snapped>>

LiveForever == entry # Nothing

\* Freshness is delegated to the TTL of Redis.
Live == entry # Nothing /\ clock < entry.expires

\* The GET reaches Redis.
ReadCache(r) == /\ pc[r] = "reading"
                /\ cached' = [cached EXCEPT ![r] = IF Live THEN entry ELSE Nothing]
                /\ pc' = [pc EXCEPT ![r] = "deciding"]
                /\ Silent
                /\ UNCHANGED <<clock, network, entry, lastFault, deadline, since,
                               asked, failed, broken, snapped>>

\* Redis is out or slow, or the entry does not validate: a miss.
ReadFails(r) == /\ CacheFails
                /\ pc[r] = "reading" \/ (pc[r] = "deciding" /\ cached[r] # Nothing)
                /\ cached' = [cached EXCEPT ![r] = Nothing]
                /\ pc' = [pc EXCEPT ![r] = "deciding"]
                /\ Silent
                /\ UNCHANGED <<clock, network, entry, lastFault, deadline, since,
                               asked, failed, broken, snapped>>

ServeCached(r) == /\ pc[r] = "deciding"
                  /\ cached[r] # Nothing
                  /\ Respond(r, 200, cached[r].kinds, cached[r].since)

\* gather_candidates: the three queries leave together.
FanOut(r) == /\ pc[r] = "deciding"
             /\ cached[r] = Nothing
             /\ Goto(r, "asking", QueryTime)
             /\ since' = [since EXCEPT ![r] = clock]
             /\ asked' = [asked EXCEPT ![r] = ModeSets]
             /\ Silent
             /\ UNCHANGED <<clock, network, entry, lastFault, cached, failed, broken,
                            snapped>>

\* One query ends, in whatever order.
QueryEnds(r, m) == /\ pc[r] = "asking"
                   /\ m \in asked[r]
                   /\ asked' = [asked EXCEPT ![r] = @ \ {m}]
                   /\ Silent
                   /\ UNCHANGED <<clock, network, entry, pc, deadline, cached, since,
                                  snapped>>

QueryPlans(r, m) == /\ "plan" \in Replies
                    /\ QueryEnds(r, m)
                    /\ UNCHANGED <<lastFault, failed, broken>>

\* OTPClient.plan raises OTPError, or lets another exception through; gather
\* keeps either until the last query has ended.
QueryFails(r, m) == /\ QueryEnds(r, m)
                    /\ \E reply \in Replies \ {"plan"} :
                          broken' = [broken EXCEPT ![r] = @ \/ reply \in Escapes]
                    /\ failed' = [failed EXCEPT ![r] = @ \cup {m}]
                    /\ lastFault' = clock

GatheredFirst(r) == pc[r] = "asking" /\ asked[r] # ModeSets

Gathered(r) == pc[r] = "asking" /\ asked[r] = {}

\* What is no OTPError is raised again, whatever else came back.
GatherRaises(r) == /\ Gathered(r)
                   /\ broken[r]
                   /\ Respond(r, 500, {}, since[r])

\* No plan at all: OTPError.
AllFail(r) == /\ Gathered(r)
              /\ ~ broken[r] /\ failed[r] = ModeSets
              /\ Respond(r, 502, {}, since[r])

AnsweredFully(r) == Gathered(r) /\ failed[r] = {}

Answered(r) == Gathered(r) /\ ~ broken[r] /\ failed[r] # ModeSets

NoRouteCached(r) == /\ Answered(r)
                    /\ Pooled(r) = {}
                    /\ Goto(r, "writing", CacheTime)
                    /\ Silent
                    /\ UNCHANGED <<clock, network, entry, lastFault, cached, since,
                                   asked, failed, broken, snapped>>

\* Plans, but none with an itinerary of a kind: nothing to rank.
NoRoute(r) == /\ Answered(r)
              /\ Pooled(r) = {}
              /\ Respond(r, 404, {}, since[r])

BikeMissingUntimed(r) == /\ Answered(r)
                         /\ Pooled(r) # {} /\ "bike" \notin Pooled(r)
                         /\ Goto(r, "snapping", SnapTime + TTL)
                         /\ Silent
                         /\ UNCHANGED <<clock, network, entry, lastFault, cached,
                                        since, asked, failed, broken, snapped>>

\* A way, but none by bike: the fallback is tried.
BikeMissing(r) == /\ Answered(r)
                  /\ Pooled(r) # {} /\ "bike" \notin Pooled(r)
                  /\ Goto(r, "snapping", SnapTime)
                  /\ Silent
                  /\ UNCHANGED <<clock, network, entry, lastFault, cached, since,
                                 asked, failed, broken, snapped>>

\* A bike route came back: the candidates are ready and the SET is sent.
BikePresent(r) == /\ Answered(r)
                  /\ "bike" \in Pooled(r)
                  /\ Goto(r, "writing", CacheTime)
                  /\ Silent
                  /\ UNCHANGED <<clock, network, entry, lastFault, cached, since,
                                 asked, failed, broken, snapped>>

SnapFinds(r) == /\ pc[r] = "snapping"
                /\ network.snaps
                /\ snapped' = [snapped EXCEPT ![r] = TRUE]
                /\ Goto(r, "writing", CacheTime)
                /\ Silent
                /\ UNCHANGED <<clock, network, entry, lastFault, cached, since,
                               asked, failed, broken>>

\* No point with a bike route, or none within the deadline; if there is one,
\* its queries failed or were too slow.
SnapFindsNone(r) == /\ pc[r] = "snapping"
                    /\ Goto(r, "writing", CacheTime)
                    /\ lastFault' = IF network.snaps THEN clock ELSE lastFault
                    /\ Silent
                    /\ UNCHANGED <<clock, network, entry, cached, since, asked,
                                   failed, broken, snapped>>

\* A query of the fallback raises what is no OTPError.
SnapBreaks(r) == /\ pc[r] = "snapping"
                 /\ Replies \cap Escapes # {}
                 /\ Respond(r, 500, {}, since[r])

\* The SET reaches Redis and starts the TTL.
WriteCache(r) == /\ pc[r] = "writing"
                 /\ entry' = [kinds |-> Candidates(r), since |-> since[r],
                              expires |-> clock + TTL]
                 /\ pc' = [pc EXCEPT ![r] = "written"]
                 /\ Silent
                 /\ UNCHANGED <<clock, network, lastFault, deadline, cached, since,
                                asked, failed, broken, snapped>>

\* The SET returns, or failed with or without effect: the candidates are served.
ServePlanned(r) == /\ pc[r] = "written" \/ (CacheFails /\ pc[r] = "writing")
                   /\ Respond(r, 200, Candidates(r), since[r])

Advance == /\ clock < MaxClock
           /\ \A r \in Requests : pc[r] # "idle" => clock < deadline[r]
           /\ clock' = clock + 1
           /\ Silent
           /\ UNCHANGED <<network, entry, lastFault, request>>

Step(r) == \/ ReadCache(r) \/ ReadFails(r) \/ ServeCached(r) \/ FanOut(r)
           \/ \E m \in ModeSets : QueryPlans(r, m) \/ QueryFails(r, m)
           \/ GatherRaises(r) \/ AllFail(r) \/ NoRoute(r)
           \/ BikeMissing(r) \/ BikePresent(r)
           \/ SnapFinds(r) \/ SnapFindsNone(r) \/ SnapBreaks(r)
           \/ WriteCache(r) \/ ServePlanned(r)

Next == Advance \/ \E r \in Requests : Request(r) \/ Step(r)

Spec == Init /\ [][Next]_vars

\* Every call of a request gets its answers, or its timeouts.
FairSpec == Spec /\ \A r \in Requests : WF_vars(Step(r))

-----------------------------------------------------------------------------

\* All that the trip has to offer.
Full == LET direct == UNION {network.direct[m] : m \in ModeSets}
        IN  direct \cup (IF network.snaps /\ direct # {} THEN {"bike"} ELSE {})

\* How far a served answer can be behind: its time in the cache, the making of
\* it, the write, and the read.
Horizon == TTL + QueryTime + SnapTime + 2 * CacheTime

Answers(r) == pc[r] # "idle" /\ pc'[r] = "idle"

\* However requests, queries and cache calls interleave, no plan is served that
\* OTP made longer ago than the horizon (gather_candidates_cached).
PlanAge ==
    [][\A r \in Requests :
          Answers(r) /\ answer'.status = 200 => clock - answer'.since < Horizon]_vars

\* A failed query or fallback costs at most its kind, and not for longer than the
\* horizon, the answers from the cache included; no kind is ever made up.
FlawsFade ==
    [][\A r \in Requests :
          Answers(r) /\ answer'.status = 200 =>
              /\ answer'.kinds \subseteq Full
              /\ \/ answer'.kinds = Full
                 \/ lastFault >= 0 /\ clock - lastFault < Horizon]_vars

\* No-route and failed answers are not pinned: what comes out of the cache always
\* has an option, so the next request asks OTP again (gather_candidates_cached).
EmptyNotPinned ==
    [][\A r \in Requests :
          pc[r] = "deciding" /\ pc'[r] = "idle"
              => answer'.status = 200 /\ answer'.kinds # {}]_vars

\* Requests that miss together overwrite each other in any order, yet the cache
\* never falls back by more than the making of one plan (_write_cached_candidates).
NeverFarBack ==
    [][entry # Nothing /\ entry' # entry
          => entry'.since >= entry.since - (QueryTime + SnapTime + CacheTime)]_vars

\* Whatever Redis and OTP do, no request waits for ever: each outcome of the
\* three queries is dealt with (gather_candidates).
AlwaysAnswers == \A r \in Requests : pc[r] # "idle" ~> pc[r] = "idle"

\* planner.py:66: "An upstream failure on one mode set degrades that kind, not
\* the request".
FailureDegrades ==
    [][\A r \in Requests :
          pc[r] = "asking" /\ pc'[r] = "idle" /\ answer'.status \in {500, 502}
              => failed[r] = ModeSets]_vars

-----------------------------------------------------------------------------
(* Why flaws fade: an invariant that every step preserves.                 *)

\* Something failed at or after moment t.
FaultSince(t) == lastFault >= t

\* A cached plan is real, its flaws have a cause, and it will be gone in time.
Sound(e) == /\ e.kinds # {} /\ e.kinds \subseteq Full
            /\ e.kinds # Full => FaultSince(e.since)
            /\ e.since <= clock
            /\ e.expires <= e.since + QueryTime + SnapTime + CacheTime + TTL

EntryInv == entry # Nothing => Sound(entry)

\* No fault lies ahead.
FaultInv == lastFault <= clock

\* A request does not wait past its deadline; what it read was alive then.
ReadOk(r) ==
    /\ pc[r] # "idle" => clock <= deadline[r]
    /\ pc[r] \in {"reading", "deciding"} => deadline[r] <= clock + CacheTime
    /\ cached[r] # Nothing => Sound(cached[r])
    /\ pc[r] = "deciding" /\ cached[r] # Nothing
          => deadline[r] < cached[r].expires + CacheTime

Planning(r) == pc[r] \in {"asking", "snapping", "writing", "written"}

\* It is as old as the calls it made, and knows of its faults.
PlanningOk(r) ==
    /\ Planning(r) => since[r] <= clock
    /\ Planning(r) /\ failed[r] # {} => FaultSince(since[r])
    /\ pc[r] = "asking" => deadline[r] <= since[r] + QueryTime
    /\ pc[r] = "snapping" => deadline[r] <= since[r] + QueryTime + SnapTime
    /\ pc[r] \in {"writing", "written"}
          => deadline[r] <= since[r] + QueryTime + SnapTime + CacheTime
    /\ pc[r] \in {"snapping", "writing", "written"} => asked[r] = {} /\ Pooled(r) # {}
    /\ Planning(r) => cached[r] = Nothing
    /\ ~ Planning(r) => failed[r] = {}
    /\ snapped[r] => pc[r] \in {"writing", "written"} /\ network.snaps

\* The candidates it is about to serve are real, and what they lack has a cause.
ReadyOk(r) ==
    pc[r] \in {"writing", "written"} =>
        /\ Candidates(r) \subseteq Full
        /\ Candidates(r) = Full \/ FaultSince(since[r])

PlanInv == /\ TypeOK
           /\ EntryInv
           /\ FaultInv
           /\ \A r \in Requests : ReadOk(r) /\ PlanningOk(r) /\ ReadyOk(r)
=============================================================================
