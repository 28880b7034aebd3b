---------------------------- MODULE PlannerProofs ----------------------------
(***************************************************************************)
(* Why a served plan is never older than the horizon and a failed query    *)
(* costs its kind for no longer than that: PlanInv is an invariant of      *)
(* Planner, for every number of requests, every network and every setting. *)
(***************************************************************************)
EXTENDS Planner, TLAPS

\* The pooled kinds are on offer; all of them are pooled if no query failed.
LEMMA PooledIsReal ==
    ASSUME TypeOK, NEW r \in Requests
    PROVE  /\ Pooled(r) \subseteq Full
           /\ Pooled(r) \subseteq Kinds
           /\ Full \subseteq Kinds
           /\ asked[r] = {} /\ failed[r] = {} =>
                 Full = Pooled(r) \cup (IF network.snaps /\ Pooled(r) # {}
                                        THEN {"bike"} ELSE {})
<1>1. \A m \in ModeSets : network.direct[m] \subseteq Kinds
  BY PlannerAssumption DEF TypeOK, Network
<1> QED
  BY <1>1 DEF Pooled, Full, Kinds

\* Candidates with the fallback's bike route are on offer, too.
LEMMA CandidatesAreReal ==
    ASSUME TypeOK, NEW r \in Requests, snapped[r] => network.snaps, Pooled(r) # {}
    PROVE  Candidates(r) \subseteq Full /\ Candidates(r) \subseteq Kinds
<1>1. network.snaps => "bike" \in Full
  <2>1. Pooled(r) \subseteq UNION {network.direct[m] : m \in ModeSets}
    BY DEF Pooled
  <2> QED
    BY <2>1 DEF Full
<1> QED
  BY <1>1, PooledIsReal DEF Candidates, Kinds

\* What the candidates are computed from is left alone by most steps.
LEMMA SameCandidates ==
    ASSUME NEW r \in Requests, network' = network, asked'[r] = asked[r],
           failed'[r] = failed[r], snapped'[r] = snapped[r]
    PROVE  Pooled(r)' = Pooled(r) /\ Candidates(r)' = Candidates(r)
  BY DEF Pooled, Candidates

\* The trip's offer does not change.
LEMMA SameFull == network' = network => Full' = Full
  BY DEF Full

-----------------------------------------------------------------------------

\* The service starts with an empty cache and nobody waiting.
LEMMA PlanInit == Init => PlanInv
  BY PlannerAssumption, NothingAssumption
  DEF Init, PlanInv, TypeOK, Places, Entry, Answer, NoAnswer, EntryInv,
      FaultInv, ReadOk,
      Planning, PlanningOk, ReadyOk

\* Time that passes and faults that happen do not make a cached plan unsound.
LEMMA SoundStays ==
    ASSUME TypeOK, TypeOK', NEW e \in Entry, Sound(e), network' = network,
           clock' >= clock, lastFault' >= lastFault
    PROVE  /\ e.kinds # {} /\ e.kinds \subseteq Full'
           /\ e.kinds # Full' => lastFault' >= e.since
           /\ e.since <= clock'
           /\ e.expires <= e.since + QueryTime + SnapTime + CacheTime + TTL
  BY SameFull, PlannerAssumption DEF Sound, FaultSince, TypeOK, Entry

\* A step of one request leaves the others as they are.
LEMMA OthersStay ==
    ASSUME PlanInv, TypeOK', NEW q \in Requests, network' = network, clock' = clock,
           lastFault' >= lastFault, pc'[q] = pc[q], deadline'[q] = deadline[q],
           cached'[q] = cached[q], since'[q] = since[q], asked'[q] = asked[q],
           failed'[q] = failed[q], snapped'[q] = snapped[q]
    PROVE  (ReadOk(q) /\ PlanningOk(q) /\ ReadyOk(q))'
<1> USE PlannerAssumption, NothingAssumption DEF PlanInv, TypeOK
<1>1. ReadOk(q)'
  BY SameFull DEF ReadOk, Sound, FaultSince, Entry
<1>2. PlanningOk(q)'
  BY SameCandidates DEF PlanningOk, Planning, FaultSince
<1>3. ReadyOk(q)'
  BY SameCandidates, SameFull DEF ReadyOk, FaultSince
<1> QED
  BY <1>1, <1>2, <1>3

\* The entry stays sound while nobody writes it.
LEMMA EntryStays ==
    ASSUME PlanInv, TypeOK', network' = network, clock' >= clock,
           lastFault' >= lastFault, entry' = entry
    PROVE  EntryInv'
  BY SoundStays DEF PlanInv, TypeOK, EntryInv, Sound, FaultSince

\* The new answer and the locals of an answered request are well-typed, and
\* nothing is left to be said of a request that is answered.
LEMMA RespondKeeps ==
    ASSUME PlanInv, NEW r \in Requests, NEW status \in {200, 404, 500, 502},
           NEW kinds \in SUBSET Kinds, NEW when \in Nat,
           Respond(r, status, kinds, when)
    PROVE  PlanInv'
<1> USE PlannerAssumption, NothingAssumption
<1>1. TypeOK'
  BY DEF PlanInv, TypeOK, Respond, Places, Answer
<1>2. EntryInv'
  BY <1>1, EntryStays DEF Respond, PlanInv, TypeOK
<1>3. (ReadOk(r) /\ PlanningOk(r) /\ ReadyOk(r))'
  BY DEF PlanInv, TypeOK, Respond, ReadOk, PlanningOk, Planning, ReadyOk
<1>4. ASSUME NEW q \in Requests, q # r PROVE (ReadOk(q) /\ PlanningOk(q) /\ ReadyOk(q))'
  <2>1. /\ pc'[q] = pc[q] /\ deadline'[q] = deadline[q] /\ cached'[q] = cached[q]
        /\ since'[q] = since[q] /\ asked'[q] = asked[q] /\ failed'[q] = failed[q]
        /\ snapped'[q] = snapped[q]
    BY <1>4 DEF Respond, PlanInv, TypeOK
  <2>2. network' = network /\ clock' = clock /\ lastFault' = lastFault
    BY DEF Respond
  <2> QED
    BY <1>1, <2>1, <2>2, OthersStay DEF PlanInv, TypeOK
<1>5. FaultInv'
  BY DEF Respond, PlanInv, FaultInv
<1> QED
  BY <1>1, <1>2, <1>3, <1>4, <1>5 DEF PlanInv

-----------------------------------------------------------------------------

\* Asking the cache keeps the invariant.
LEMMA CacheStepsKeep ==
    ASSUME PlanInv, NEW r \in Requests,
           Request(r) \/ ReadCache(r) \/ ReadFails(r) \/ FanOut(r)
    PROVE  PlanInv'
<1> USE PlannerAssumption, NothingAssumption
        DEF Request, ReadCache, ReadFails, FanOut, Goto, Silent, Live
<1>1. TypeOK'
  BY DEF PlanInv, TypeOK, Places, Answer, NoAnswer
<1>2. /\ network' = network /\ clock' = clock /\ entry' = entry
      /\ lastFault' = lastFault /\ FaultInv'
  BY DEF PlanInv, FaultInv
<1>3. EntryInv'
  BY <1>1, <1>2, EntryStays DEF PlanInv, TypeOK
<1>4. ASSUME NEW q \in Requests, q # r PROVE (ReadOk(q) /\ PlanningOk(q) /\ ReadyOk(q))'
  BY <1>1, <1>2, <1>4, OthersStay DEF PlanInv, TypeOK
<1>5. ReadOk(r)'
  BY <1>2, SameFull
  DEF PlanInv, TypeOK, ReadOk, EntryInv, Sound, FaultSince, Entry, Planning
<1>6. PlanningOk(r)'
  BY DEF PlanInv, TypeOK, PlanningOk, Planning, FaultSince
<1>7. ReadyOk(r)'
  BY DEF PlanInv, TypeOK, ReadyOk
<1> QED
  BY <1>1, <1>2, <1>3, <1>4, <1>5, <1>6, <1>7 DEF PlanInv

\* An answer of OTP keeps the invariant: a failure is noted.
LEMMA QueryKeeps ==
    ASSUME PlanInv, NEW r \in Requests, NEW m \in ModeSets,
           QueryPlans(r, m) \/ QueryFails(r, m)
    PROVE  PlanInv'
<1> USE PlannerAssumption, NothingAssumption
        DEF QueryPlans, QueryFails, QueryEnds, Silent
<1>1. TypeOK'
  <2>1. broken' \in [Requests -> BOOLEAN]
    BY DEF PlanInv, TypeOK
  <2>2. /\ asked' \in [Requests -> SUBSET ModeSets]
        /\ failed' \in [Requests -> SUBSET ModeSets]
        /\ lastFault' \in Nat \cup {-1}
    BY DEF PlanInv, TypeOK
  <2> QED
    BY <2>1, <2>2 DEF PlanInv, TypeOK, Answer, NoAnswer
<1>2. /\ network' = network /\ clock' = clock /\ entry' = entry
      /\ lastFault' >= lastFault /\ FaultInv'
  BY DEF PlanInv, TypeOK, FaultInv
<1>3. EntryInv'
  BY <1>1, <1>2, EntryStays DEF PlanInv, TypeOK
<1>4. ASSUME NEW q \in Requests, q # r PROVE (ReadOk(q) /\ PlanningOk(q) /\ ReadyOk(q))'
  BY <1>1, <1>2, <1>4, OthersStay DEF PlanInv, TypeOK
<1>5. ReadOk(r)'
  BY DEF PlanInv, TypeOK, ReadOk, PlanningOk, Planning
<1>6. PlanningOk(r)'
  BY DEF PlanInv, TypeOK, PlanningOk, Planning, FaultSince
<1>7. ReadyOk(r)'
  BY DEF PlanInv, TypeOK, ReadyOk
<1> QED
  BY <1>1, <1>2, <1>3, <1>4, <1>5, <1>6, <1>7 DEF PlanInv

\* So does the way from the plans to the candidates: what the candidates lack was
\* not on offer, or a query or the fallback failed.
LEMMA CandidatesKeep ==
    ASSUME PlanInv, NEW r \in Requests,
           BikeMissing(r) \/ BikePresent(r) \/ SnapFinds(r) \/ SnapFindsNone(r)
    PROVE  PlanInv'
<1> USE PlannerAssumption, NothingAssumption
        DEF BikeMissing, BikePresent, SnapFinds, SnapFindsNone, Answered, Gathered,
            Goto, Silent
<1>1. TypeOK'
  <2> USE DEF PlanInv, TypeOK
  <2>1. pc' \in [Requests -> Places] /\ deadline' \in [Requests -> Nat]
    BY DEF Places
  <2>2. snapped' \in [Requests -> BOOLEAN]
    <3>1. snapped' = snapped \/ snapped' = [snapped EXCEPT ![r] = TRUE]
      OBVIOUS
    <3> QED
      BY <3>1
  <2>3. lastFault' = lastFault \/ lastFault' = clock
    OBVIOUS
  <2> QED
    BY <2>1, <2>2, <2>3 DEF Answer, NoAnswer
<1>2. /\ network' = network /\ clock' = clock /\ entry' = entry
      /\ lastFault' >= lastFault /\ FaultInv'
  BY DEF PlanInv, TypeOK, FaultInv
<1>3. EntryInv'
  BY <1>1, <1>2, EntryStays DEF PlanInv, TypeOK
<1>4. ASSUME NEW q \in Requests, q # r PROVE (ReadOk(q) /\ PlanningOk(q) /\ ReadyOk(q))'
  BY <1>1, <1>2, <1>4, OthersStay DEF PlanInv, TypeOK
<1>5. ReadOk(r)'
  BY DEF PlanInv, TypeOK, ReadOk, PlanningOk, Planning
<1>6. Pooled(r)' = Pooled(r) /\ Pooled(r) # {} /\ asked[r] = {}
  BY DEF PlanInv, PlanningOk, Pooled
<1>7. PlanningOk(r)'
  <2>1. clock <= deadline[r] /\ since[r] <= clock /\ cached[r] = Nothing
    BY DEF PlanInv, TypeOK, ReadOk, PlanningOk, Planning
  <2>2. /\ pc[r] = "asking" => clock <= since[r] + QueryTime
        /\ pc[r] = "snapping" => clock <= since[r] + QueryTime + SnapTime
    BY <2>1 DEF PlanInv, TypeOK, PlanningOk
  <2>3. pc'[r] \in {"snapping", "writing"} /\ since'[r] = since[r]
    BY DEF PlanInv, TypeOK
  <2>4. /\ pc'[r] = "snapping" => deadline'[r] <= since[r] + QueryTime + SnapTime
        /\ pc'[r] = "writing"
              => deadline'[r] <= since[r] + QueryTime + SnapTime + CacheTime
    BY <2>2 DEF PlanInv, TypeOK
  <2>5. failed'[r] = failed[r] /\ (failed[r] # {} => lastFault' >= since[r])
    BY <1>2 DEF PlanInv, TypeOK, PlanningOk, Planning, FaultSince
  <2>6. asked'[r] = {} /\ Pooled(r)' # {} /\ cached'[r] = Nothing
    BY <1>6, <2>1
  <2>7. snapped'[r] => pc'[r] = "writing" /\ network'.snaps
    BY DEF PlanInv, TypeOK, PlanningOk
  <2> QED
    BY <1>2, <2>1, <2>3, <2>4, <2>5, <2>6, <2>7 DEF PlanningOk, Planning, FaultSince
<1>8. ReadyOk(r)'
  <2> SUFFICES ASSUME pc'[r] \in {"writing", "written"}
               PROVE  /\ Candidates(r)' \subseteq Full'
                      /\ Candidates(r)' = Full' \/ lastFault' >= since'[r]
    BY DEF ReadyOk, FaultSince
  <2>1. Full' = Full
    BY <1>2, SameFull
  <2>2. Candidates(r)' = Pooled(r) \cup (IF snapped'[r] THEN {"bike"} ELSE {})
    BY <1>6 DEF Candidates
  <2>3. snapped'[r] => network.snaps
    BY DEF PlanInv, TypeOK, PlanningOk
  <2>4. network.snaps => "bike" \in Full
    BY <1>6 DEF Pooled, Full
  <2>5. failed[r] # {} => lastFault' >= since'[r]
    BY <1>2 DEF PlanInv, TypeOK, PlanningOk, Planning, FaultSince
  <2>6. Pooled(r) \subseteq Full
    BY PooledIsReal DEF PlanInv
  <2>7. ASSUME failed[r] = {} PROVE Candidates(r)' = Full \/ lastFault' >= since'[r]
    <3>1. Full = Pooled(r) \cup (IF network.snaps THEN {"bike"} ELSE {})
      BY <1>6, <2>7, PooledIsReal DEF PlanInv
    <3>2. CASE BikePresent(r)
      BY <3>1, <3>2, <2>2, <2>3
    <3>3. CASE SnapFinds(r)
      BY <3>1, <3>3, <2>2 DEF PlanInv, TypeOK
    <3>4. CASE SnapFindsNone(r)
      BY <3>1, <3>4, <2>2, <2>3 DEF PlanInv, TypeOK, PlanningOk, Planning
    <3>5. ~ BikeMissing(r)
      BY DEF PlanInv, TypeOK
    <3> QED
      BY <3>2, <3>3, <3>4, <3>5
  <2> QED
    BY <2>1, <2>2, <2>3, <2>4, <2>5, <2>6, <2>7
<1> QED
  BY <1>1, <1>2, <1>3, <1>4, <1>5, <1>7, <1>8 DEF PlanInv

\* A written plan is sound and expires in time.
LEMMA WriteKeeps ==
    ASSUME PlanInv, NEW r \in Requests, WriteCache(r) PROVE PlanInv'
<1> USE PlannerAssumption, NothingAssumption DEF WriteCache, Silent
<1>1. /\ Candidates(r) \in SUBSET Kinds /\ Candidates(r) \subseteq Full
      /\ Candidates(r) # {}
  BY CandidatesAreReal DEF PlanInv, PlanningOk, Candidates
<1>2. TypeOK'
  BY <1>1 DEF PlanInv, TypeOK, Places, Answer, NoAnswer, Entry
<1>3. network' = network /\ clock' = clock /\ lastFault' = lastFault /\ FaultInv'
  BY DEF PlanInv, FaultInv
<1>4. EntryInv'
  BY <1>1, <1>3, SameFull
  DEF PlanInv, TypeOK, EntryInv, Sound, FaultSince, ReadOk, PlanningOk, Planning,
      ReadyOk
<1>5. ASSUME NEW q \in Requests, q # r PROVE (ReadOk(q) /\ PlanningOk(q) /\ ReadyOk(q))'
  BY <1>2, <1>3, <1>5, OthersStay DEF PlanInv, TypeOK
<1>6. ReadOk(r)'
  BY DEF PlanInv, TypeOK, ReadOk, PlanningOk, Planning
<1>7. PlanningOk(r)'
  BY SameCandidates DEF PlanInv, TypeOK, PlanningOk, Planning, FaultSince
<1>8. ReadyOk(r)'
  BY SameCandidates, SameFull DEF PlanInv, TypeOK, ReadyOk, FaultSince
<1> QED
  BY <1>2, <1>3, <1>4, <1>5, <1>6, <1>7, <1>8 DEF PlanInv

\* Answering keeps the invariant, whatever the answer is made from.
LEMMA AnswersKeep ==
    ASSUME PlanInv, NEW r \in Requests,
           \/ ServeCached(r) \/ GatherRaises(r) \/ AllFail(r) \/ NoRoute(r)
           \/ SnapBreaks(r) \/ ServePlanned(r)
    PROVE  PlanInv'
<1>1. CASE ServeCached(r)
  <2>1. cached[r].kinds \in SUBSET Kinds /\ cached[r].since \in Nat
    BY <1>1 DEF ServeCached, PlanInv, TypeOK, Entry
  <2> QED
    BY <1>1, <2>1, RespondKeeps DEF ServeCached
<1>2. CASE GatherRaises(r) \/ AllFail(r) \/ NoRoute(r) \/ SnapBreaks(r)
  <2>1. since[r] \in Nat
    BY DEF PlanInv, TypeOK
  <2> QED
    BY <1>2, <2>1, RespondKeeps DEF GatherRaises, AllFail, NoRoute, SnapBreaks
<1>3. CASE ServePlanned(r)
  <2>1. since[r] \in Nat
    BY DEF PlanInv, TypeOK
  <2>2. Candidates(r) \in SUBSET Kinds
    BY <1>3, CandidatesAreReal DEF PlanInv, PlanningOk, ServePlanned
  <2> QED
    BY <1>3, <2>1, <2>2, RespondKeeps DEF ServePlanned
<1> QED
  BY <1>1, <1>2, <1>3

\* Time only passes while nobody is past a deadline.
LEMMA AdvanceKeeps == ASSUME PlanInv, Advance PROVE PlanInv'
<1> USE PlannerAssumption, NothingAssumption DEF Advance, Silent, request
<1>1. TypeOK'
  BY DEF PlanInv, TypeOK, Answer, NoAnswer
<1>2. network' = network /\ clock' = clock + 1 /\ lastFault' = lastFault
  OBVIOUS
<1>3. EntryInv' /\ FaultInv'
  BY <1>1, <1>2, EntryStays DEF PlanInv, TypeOK, FaultInv
<1>4. ASSUME NEW q \in Requests PROVE (ReadOk(q) /\ PlanningOk(q) /\ ReadyOk(q))'
  <2>1. ReadOk(q)'
    BY <1>2, SameFull DEF PlanInv, TypeOK, ReadOk, Sound, FaultSince, Entry
  <2>2. PlanningOk(q)'
    BY <1>2, SameCandidates DEF PlanInv, TypeOK, PlanningOk, Planning, FaultSince
  <2>3. ReadyOk(q)'
    BY <1>2, SameCandidates, SameFull DEF PlanInv, TypeOK, ReadyOk, FaultSince
  <2> QED
    BY <2>1, <2>2, <2>3
<1> QED
  BY <1>1, <1>3, <1>4 DEF PlanInv

\* Nothing happens to the invariant while nothing happens.
LEMMA StutterKeeps == ASSUME PlanInv, UNCHANGED vars PROVE PlanInv'
<1>1. TypeOK' /\ EntryInv' /\ FaultInv'
  BY SameFull DEF PlanInv, TypeOK, vars, request, EntryInv, FaultInv, Sound, FaultSince
<1>2. ASSUME NEW q \in Requests PROVE (ReadOk(q) /\ PlanningOk(q) /\ ReadyOk(q))'
  BY <1>1, OthersStay DEF PlanInv, TypeOK, vars, request
<1> QED
  BY <1>1, <1>2 DEF PlanInv

\* Every step keeps the invariant.
LEMMA NextKeeps == ASSUME PlanInv, [Next]_vars PROVE PlanInv'
  BY CacheStepsKeep, QueryKeeps, CandidatesKeep, WriteKeeps, AnswersKeep,
     AdvanceKeeps, StutterKeeps DEF Next, Step

\* In every reachable state of the planner, deadlines, expiries and the moments
\* the queries left bound each other, and what a plan lacks has a cause, however
\* many requests share the trip (gather_candidates, gather_candidates_cached).
THEOREM PlansSound == Spec => []PlanInv
<1>1. PlanInv /\ [Next]_vars => PlanInv'
  BY NextKeeps
<1> QED
  BY <1>1, PlanInit, PTL DEF Spec

-----------------------------------------------------------------------------

\* A request leaves by one of six doors.
LEMMA Doors ==
    ASSUME PlanInv, Next, NEW r \in Requests, pc[r] # "idle", pc'[r] = "idle"
    PROVE  \/ ServeCached(r) \/ GatherRaises(r) \/ AllFail(r) \/ NoRoute(r)
           \/ SnapBreaks(r) \/ ServePlanned(r)
  BY DEF Next, Step, Advance, request, Request, ReadCache, ReadFails, ServeCached,
         FanOut, QueryPlans, QueryFails, QueryEnds, GatherRaises, AllFail, NoRoute,
         BikeMissing, BikePresent, SnapFinds, SnapFindsNone, SnapBreaks, WriteCache,
         ServePlanned, Respond, Goto, PlanInv, TypeOK

\* What is served with 200 is young, real, and lacks nothing without a cause.
LEMMA ServedWell ==
    ASSUME PlanInv, Next, NEW r \in Requests, Answers(r), answer'.status = 200
    PROVE  /\ clock - answer'.since < Horizon
           /\ answer'.kinds \subseteq Full
           /\ answer'.kinds = Full \/ lastFault >= answer'.since
<1> USE PlannerAssumption, NothingAssumption
<1>1. ServeCached(r) \/ ServePlanned(r)
  BY Doors DEF Answers, GatherRaises, AllFail, NoRoute, SnapBreaks, Respond
<1>2. CASE ServeCached(r)
  <2>1. answer'.kinds = cached[r].kinds /\ answer'.since = cached[r].since
    BY <1>2 DEF ServeCached, Respond
  <2>2. /\ Sound(cached[r]) /\ cached[r] \in Entry
        /\ clock <= deadline[r] /\ deadline[r] < cached[r].expires + CacheTime
    BY <1>2 DEF ServeCached, PlanInv, TypeOK, ReadOk
  <2> QED
    BY <2>1, <2>2 DEF Sound, FaultSince, Entry, Horizon, PlanInv, TypeOK
<1>3. CASE ServePlanned(r)
  <2>1. answer'.kinds = Candidates(r) /\ answer'.since = since[r]
    BY <1>3 DEF ServePlanned, Respond
  <2>2. /\ clock <= deadline[r]
        /\ deadline[r] <= since[r] + QueryTime + SnapTime + CacheTime
    BY <1>3 DEF ServePlanned, PlanInv, TypeOK, ReadOk, PlanningOk
  <2>3. Candidates(r) \subseteq Full /\ (Candidates(r) = Full \/ lastFault >= since[r])
    BY <1>3 DEF ServePlanned, PlanInv, ReadyOk, FaultSince
  <2> QED
    BY <2>1, <2>2, <2>3 DEF Horizon, PlanInv, TypeOK
<1> QED
  BY <1>1, <1>2, <1>3

\* No plan is served that OTP made longer ago than the horizon, whether it was
\* cached or planned (gather_candidates_cached).
THEOREM AgeOfPlans == Spec => PlanAge
<1> DEFINE Young == \A r \in Requests :
          Answers(r) /\ answer'.status = 200 => clock - answer'.since < Horizon
<1>1. PlanInv /\ [Next]_vars => [Young]_vars
  BY ServedWell
<1> QED
  BY <1>1, PlansSound, PTL DEF Spec, PlanAge, Young

\* A kind that is missing from an answer was lost to a failure not longer ago
\* than the horizon, and no answer has a kind that is not on offer.
THEOREM FlawsDoFade == Spec => FlawsFade
<1> DEFINE Honest == \A r \in Requests :
          Answers(r) /\ answer'.status = 200 =>
              /\ answer'.kinds \subseteq Full
              /\ \/ answer'.kinds = Full
                 \/ lastFault >= 0 /\ clock - lastFault < Horizon
<1>1. PlanInv /\ Next => Honest
  <2> SUFFICES ASSUME PlanInv, Next, NEW r \in Requests,
                      Answers(r), answer'.status = 200
               PROVE  /\ answer'.kinds \subseteq Full
                      /\ \/ answer'.kinds = Full
                         \/ lastFault >= 0 /\ clock - lastFault < Horizon
    OBVIOUS
  <2>1. answer'.since \in Nat
    <3>1. PlanInv'
      BY NextKeeps
    <3> QED
      BY <3>1 DEF PlanInv, TypeOK, Answer
  <2> QED
    BY <2>1, ServedWell, PlannerAssumption DEF PlanInv, TypeOK, Horizon
<1>2. PlanInv /\ [Next]_vars => [Honest]_vars
  BY <1>1
<1> QED
  BY <1>2, PlansSound, PTL DEF Spec, FlawsFade, Honest

\* Only answers with an option come out of the cache.
THEOREM NoEmptyHit == Spec => EmptyNotPinned
<1> DEFINE Option == \A r \in Requests :
          pc[r] = "deciding" /\ pc'[r] = "idle"
              => answer'.status = 200 /\ answer'.kinds # {}
<1>1. PlanInv /\ Next => Option
  <2> SUFFICES ASSUME PlanInv, Next, NEW r \in Requests,
                      pc[r] = "deciding", pc'[r] = "idle"
               PROVE  answer'.status = 200 /\ answer'.kinds # {}
    OBVIOUS
  <2>1. ServeCached(r)
    BY Doors DEF GatherRaises, AllFail, NoRoute, Answered, Gathered, SnapBreaks,
                 ServePlanned
  <2> QED
    BY <2>1 DEF ServeCached, Respond, PlanInv, ReadOk, Sound
<1>2. PlanInv /\ [Next]_vars => [Option]_vars
  BY <1>1
<1> QED
  BY <1>2, PlansSound, PTL DEF Spec, EmptyNotPinned, Option

\* An overwritten plan is newer than the one that takes its place by the making
\* of one plan at most, whoever wrote it (_write_cached_candidates).
THEOREM CacheMovesOn == Spec => NeverFarBack
<1> DEFINE Back == entry # Nothing /\ entry' # entry
                      => entry'.since >= entry.since - (QueryTime + SnapTime + CacheTime)
<1>1. PlanInv /\ Next => Back
  <2> SUFFICES ASSUME PlanInv, Next, entry # Nothing, entry' # entry PROVE Back
    OBVIOUS
  <2>1. PICK r \in Requests : WriteCache(r)
    BY DEF Next, Step, Advance, Request, ReadCache, ReadFails, ServeCached, FanOut,
           QueryPlans, QueryFails, QueryEnds, GatherRaises, AllFail, NoRoute,
           BikeMissing, BikePresent, SnapFinds, SnapFindsNone, SnapBreaks,
           ServePlanned, Respond
  <2>2. entry'.since = since[r] /\ entry.since <= clock
    BY <2>1 DEF WriteCache, PlanInv, EntryInv, Sound
  <2>3. /\ clock <= deadline[r]
        /\ deadline[r] <= since[r] + QueryTime + SnapTime + CacheTime
    BY <2>1 DEF WriteCache, PlanInv, ReadOk, PlanningOk
  <2> QED
    BY <2>2, <2>3, PlannerAssumption DEF PlanInv, TypeOK, Entry
<1>2. PlanInv /\ [Next]_vars => [Back]_vars
  BY <1>1 DEF vars
<1> QED
  BY <1>2, PlansSound, PTL DEF Spec, NeverFarBack, Back
=============================================================================
