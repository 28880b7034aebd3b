--------------------------- MODULE RainCacheProofs ---------------------------
(***************************************************************************)
(* Why a rain forecast is never older than its retention and the calls     *)
(* around it: AgeInv is an invariant of RainCache, for every number of     *)
(* requests and every setting, and the ages follow from it.                *)
(***************************************************************************)
EXTENDS RainCache, TLAPS

\* The service starts with an empty cache and nobody waiting.
LEMMA AgeInit == Init => AgeInv
  BY RainAssumption, NothingAssumption
  DEF Init, AgeInv, TypeOK, Places, Envelope, EntryInv, DeadlineInv, CachedInv,
      ForecastInv

\* A request that returns takes its locals with it, and disturbs nobody else.
LEMMA ReturnKeeps ==
    ASSUME AgeInv, NEW r \in Requests, NEW result \in Nat \cup {Degraded},
           Return(r, result)
    PROVE  AgeInv'
  BY RainAssumption, NothingAssumption
  DEF AgeInv, Return, Goto, TypeOK, Places, Envelope, EntryInv, DeadlineInv,
      CachedInv, ForecastInv, Sound

\* A call of a request keeps the invariant.
LEMMA StepKeeps ==
    ASSUME AgeInv, NEW r \in Requests, Request(r) \/ Step(r)
    PROVE  AgeInv'
<1> USE RainAssumption, NothingAssumption DEF AgeInv, Goto, Await, Silent, TypeOK, Places,
     Envelope, EntryInv, DeadlineInv, CachedInv, ForecastInv, Sound
<1>1. CASE Request(r)
  BY <1>1 DEF Request
<1>2. CASE ReadCache(r)
  BY <1>2 DEF ReadCache, Live
<1>3. CASE ReadFails(r)
  BY <1>3 DEF ReadFails
<1>4. CASE ServeFresh(r)
  BY <1>4, ReturnKeeps DEF ServeFresh, IsFresh
<1>5. CASE Fetch(r)
  BY <1>5 DEF Fetch
<1>6. CASE Upstream(r)
  BY <1>6 DEF Upstream
<1>7. CASE FetchFails(r)
  BY <1>7, ReturnKeeps DEF FetchFails
<1>8. CASE StampForecast(r)
  BY <1>8 DEF StampForecast
<1>9. CASE WriteCache(r)
  BY <1>9 DEF WriteCache
<1>10. CASE ServeFetched(r)
  BY <1>10, ReturnKeeps DEF ServeFetched
<1>11. CASE FetchEscapes(r)
  BY <1>11 DEF FetchEscapes
<1> QED
  BY <1>1, <1>2, <1>3, <1>4, <1>5, <1>6, <1>7, <1>8, <1>9, <1>10, <1>11 DEF Step

\* Time only passes while nobody is past a deadline.
LEMMA AdvanceKeeps == AgeInv /\ Advance => AgeInv'
  BY RainAssumption, NothingAssumption
  DEF AgeInv, Advance, Silent, TypeOK, Places, Envelope, EntryInv, DeadlineInv,
      CachedInv, ForecastInv, Sound

\* Stamps, expiries and deadlines bound each other in every reachable state of
\* the rain service, however many requests share the location (get_forecast).
THEOREM AgesBounded == Spec => []AgeInv
<1>1. AgeInv /\ UNCHANGED vars => AgeInv'
  BY DEF AgeInv, vars, calls, TypeOK, EntryInv, DeadlineInv, CachedInv, ForecastInv,
         Sound
<1>2. AgeInv /\ [Next]_vars => AgeInv'
  BY <1>1, StepKeeps, AdvanceKeeps DEF Next
<1> QED
  BY <1>2, AgeInit, PTL DEF Spec

-----------------------------------------------------------------------------

\* A served forecast lived when it was read, so its age is bounded then, and
\* the request has waited for two calls at most since (get_forecast).
THEOREM AgeOfAnswers == Spec => AnswerAge
<1> DEFINE Aged == \A r \in Requests :
          pc[r] # "idle" /\ pc'[r] = "idle" =>
              \/ answer' = Degraded
              \/ clock - answer' <= FetchTime + CacheTime
              \/ clock - answer' < Retention + 2 * (FetchTime + CacheTime)
<1>1. AgeInv /\ Next => Aged
  <2> SUFFICES ASSUME AgeInv, Next, NEW r \in Requests,
                      pc[r] # "idle", pc'[r] = "idle"
               PROVE  \/ answer' = Degraded
                      \/ clock - answer' <= FetchTime + CacheTime
                      \/ clock - answer' < Retention + 2 * (FetchTime + CacheTime)
    OBVIOUS
  <2>1. ServeFresh(r) \/ FetchFails(r) \/ ServeFetched(r)
    BY DEF Next, Step, Advance, Request, ReadCache, ReadFails, ServeFresh,
           Fetch, Upstream, FetchFails, FetchEscapes, StampForecast, WriteCache,
           ServeFetched, Return, Goto, AgeInv, TypeOK
  <2> USE RainAssumption, NothingAssumption DEF AgeInv, TypeOK, Envelope, Return,
       Sound, DeadlineInv
  <2>2. CASE ServeFresh(r)
    BY <2>2 DEF ServeFresh, IsFresh, CachedInv
  <2>3. CASE FetchFails(r)
    BY <2>3 DEF FetchFails, CachedInv
  <2>4. CASE ServeFetched(r)
    <3>1. /\ forecast[r] \in Nat /\ stamp[r] \in Nat /\ clock \in Nat
          /\ deadline[r] \in Nat
      BY <2>4 DEF ServeFetched, ForecastInv
    <3>2. /\ clock <= deadline[r] /\ deadline[r] = stamp[r] + CacheTime
          /\ stamp[r] <= forecast[r] + FetchTime
      BY <2>4 DEF ServeFetched, ForecastInv
    <3>3. answer' = forecast[r]
      BY <2>4 DEF ServeFetched
    <3> QED
      BY <3>1, <3>2, <3>3
  <2> QED
    BY <2>1, <2>2, <2>3, <2>4
<1>2. AgeInv /\ [Next]_vars => [Aged]_vars
  BY <1>1
<1> QED
  BY <1>2, AgesBounded, PTL DEF Spec, AnswerAge, Aged

\* A fresh hit is at most the fresh window and one fetch behind Buienradar.
THEOREM AgeOfFreshHits == Spec => FreshAge
<1> DEFINE Young == \A r \in Requests :
          pc[r] = "assessing" /\ pc'[r] = "idle" => clock - answer' < Fresh + FetchTime
<1>1. AgeInv /\ Next => Young
  <2> SUFFICES ASSUME AgeInv, Next, NEW r \in Requests,
                      pc[r] = "assessing", pc'[r] = "idle"
               PROVE  clock - answer' < Fresh + FetchTime
    OBVIOUS
  <2>1. ServeFresh(r)
    BY DEF Next, Step, Advance, Request, ReadCache, ReadFails, ServeFresh,
           Fetch, Upstream, FetchFails, FetchEscapes, StampForecast, WriteCache,
           ServeFetched, Return, Goto, AgeInv, TypeOK
  <2> QED
    BY <2>1, RainAssumption, NothingAssumption
    DEF AgeInv, TypeOK, Envelope, Return, Sound, ServeFresh, IsFresh, CachedInv
<1>2. AgeInv /\ [Next]_vars => [Young]_vars
  BY <1>1
<1> QED
  BY <1>2, AgesBounded, PTL DEF Spec, FreshAge, Young

\* An overwritten forecast is at most one fetch and one write newer than the
\* one that takes its place, whoever wrote it (_write_cache).
THEOREM CacheMovesOn == Spec => NeverFarBack
<1> DEFINE Back == entry # Nothing /\ entry' # entry
                      => entry'.taken >= entry.taken - (FetchTime + CacheTime)
<1>1. AgeInv /\ Next => Back
  <2> SUFFICES ASSUME AgeInv, Next, entry # Nothing, entry' # entry PROVE Back
    OBVIOUS
  <2>1. PICK r \in Requests : WriteCache(r)
    BY DEF Next, Step, Advance, Request, ReadCache, ReadFails, ServeFresh,
           Fetch, Upstream, FetchFails, FetchEscapes, StampForecast, WriteCache,
           ServeFetched, Return
  <2> QED
    BY <2>1, RainAssumption, NothingAssumption
    DEF AgeInv, TypeOK, Envelope, Sound, WriteCache, EntryInv, DeadlineInv,
        ForecastInv
<1>2. AgeInv /\ [Next]_vars => [Back]_vars
  BY <1>1 DEF vars
<1> QED
  BY <1>2, AgesBounded, PTL DEF Spec, NeverFarBack, Back
=============================================================================
