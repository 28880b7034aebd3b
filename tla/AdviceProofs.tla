---------------------------- MODULE AdviceProofs ----------------------------
(***************************************************************************)
(* The parts of recommend.  The loop of rank keeps the first of the        *)
(* cheapest candidates of each kind and loses none of the kinds, whatever  *)
(* candidates cost.  A window of the clock holds the moments of its trip   *)
(* and no others, so that what rains on a leg rains on the trip; and a sum *)
(* over legs goes up with each of them, so that rain only ever costs.      *)
(***************************************************************************)
EXTENDS Advice, FiniteSetTheorems, WellFoundedInduction, TLAPS

\* A set of departure times has a first one: what min() returns (rank).
LEMMA LeastOf ==
    ASSUME NEW S \in SUBSET Nat, S # {}
    PROVE  Min(S) \in S /\ \A y \in S : Min(S) <= y
<1>1. PICK x \in S : \A y \in S : ~ (<<y, x>> \in OpToRel(<, Nat))
  <2>1. IsWellFoundedOn(OpToRel(<, Nat), Nat)
    BY NatLessThanWellFounded
  <2> QED  BY <2>1, WFMin
<1>2. \A a \in Nat, b \in Nat : a < b => <<a, b>> \in OpToRel(<, Nat)
  BY DEF OpToRel
<1>3. \A y \in S : ~ (y < x)
  BY <1>1, <1>2, Zenon
<1>4. \A y \in S : x <= y
  BY <1>3
<1> QED  BY <1>4 DEF Min

\* Every candidate has one of the kinds of OptionKind (classify_kind).
LEMMA SomeKind ==
    ASSUME TypeOK, NEW i \in DOMAIN candidates
    PROVE  \E k \in DOMAIN Kinds : i \in OfKind(k)
BY RankingAssumption DEF TypeOK, OfKind

\* ... and no other one.
LEMMA OneKind ==
    ASSUME NEW j \in DOMAIN Kinds, NEW k \in DOMAIN Kinds, NEW i,
           i \in OfKind(j), i \in OfKind(k)
    PROVE  j = k
<1>1. /\ DOMAIN Kinds = 1..3
      /\ Kinds[1] = "bike" /\ Kinds[2] = "bike_and_ride" /\ Kinds[3] = "transit"
  BY DEF Kinds
<1>2. Kinds[j] = Kinds[k] /\ j \in 1..3 /\ k \in 1..3
  BY <1>1 DEF OfKind
<1> QED  BY <1>1, <1>2

\* The first departure of a kind is that of one of its candidates, and none waits
\* less than it (earliest_ms in rank).
LEMMA FirstLeaves ==
    ASSUME TypeOK, NEW k \in DOMAIN Kinds, OfKind(k) # {}
    PROVE  /\ Earliest(k) \in Nat
           /\ \E i \in OfKind(k) : Wait(k, i) = 0
           /\ \A i \in OfKind(k) : Wait(k, i) \in Nat /\ i \in Nat \ {0}
<1> DEFINE starts == {candidates[i].start : i \in OfKind(k)}
<1>1. \A i \in OfKind(k) : candidates[i].start \in Nat /\ i \in Nat \ {0}
  BY RankingAssumption DEF TypeOK, OfKind
<1>2. starts \in SUBSET Nat /\ starts # {}
  BY <1>1
<1>3. Earliest(k) \in starts /\ \A y \in starts : Earliest(k) <= y
  BY <1>2, LeastOf DEF Earliest
<1>4. PICK i \in OfKind(k) : candidates[i].start = Earliest(k)
  BY <1>3
<1>5. Earliest(k) \in Nat
  BY <1>2, <1>3
<1>6. \A j \in OfKind(k) : Earliest(k) <= candidates[j].start
  BY <1>3
<1> QED  BY <1>1, <1>4, <1>5, <1>6 DEF Wait

\* What a candidate costs with its wait is a number (rank).
LEMMA PriceTyped ==
    ASSUME TypeOK, NEW k \in DOMAIN Kinds, NEW i \in OfKind(k)
    PROVE  Price(k, i) \in Int
<1>1. Cost(candidates[i], forecast) \in Int
  BY RankingAssumption DEF TypeOK, OfKind
<1> QED  BY <1>1, FirstLeaves DEF Price

\* The empty loop has kept nothing and considered nothing (rank).
LEMMA RankStarts == Init => RankInv
<1> SUFFICES ASSUME Init PROVE RankInv
  OBVIOUS
<1>1. TypeOK
  BY DEF Init, TypeOK
<1>2. LoopInv
  <2> SUFFICES ASSUME NEW k \in DOMAIN Kinds
               PROVE  best[k] = 0 /\ \A i \in OfKind(k) : ~ (i < position)
    BY DEF LoopInv
  <2> QED  BY <1>1, FirstLeaves DEF Init
<1>3. OrderInv
  BY DEF Init, OrderInv, Ranked
<1> QED  BY <1>1, <1>2, <1>3 DEF RankInv

\* What the loop has kept stays right with one more candidate (rank).
LEMMA RankSteps == RankInv /\ [Next]_vars => RankInv'
<1> SUFFICES ASSUME RankInv, [Next]_vars PROVE RankInv'
  OBVIOUS
<1> USE DEF RankInv
<1>1. CASE Consider
  <2>1. PICK j \in DOMAIN Kinds : position \in OfKind(j) /\ (Keep(j) \/ Pass(j))
    BY <1>1 DEF Consider
  <2>2. /\ candidates' = candidates /\ forecast' = forecast
        /\ position' = position + 1 /\ position \in Nat \ {0}
    BY <1>1 DEF Consider, TypeOK
  <2>3. \A k \in DOMAIN Kinds :
           /\ OfKind(k)' = OfKind(k)
           /\ \A i : Wait(k, i)' = Wait(k, i) /\ Price(k, i)' = Price(k, i)
    BY <2>2 DEF OfKind, Wait, Earliest, Price
  <2>4. TypeOK'
    BY <2>1, <2>2 DEF TypeOK, Keep, Pass
  <2>5. \A k \in DOMAIN Kinds \ {j} : best'[k] = best[k]
    BY <2>1 DEF Keep, Pass, TypeOK
  <2>6. ASSUME NEW k \in DOMAIN Kinds,
               best'[k] # 0
        PROVE  /\ best'[k] \in OfKind(k) /\ best'[k] < position + 1
               /\ Wait(k, best'[k]) <= MaxWait
    <3>1. CASE best'[k] = best[k]
      BY <2>2, <2>6, <3>1, FirstLeaves DEF LoopInv
    <3>2. CASE k = j /\ Keep(j)
      BY <2>1, <2>2, <3>2 DEF Keep, TypeOK
    <3> QED  BY <2>1, <2>5, <3>1, <3>2 DEF Pass
  <2>7. ASSUME NEW k \in DOMAIN Kinds, NEW i \in OfKind(k),
               i < position + 1, Wait(k, i) <= MaxWait
        PROVE  /\ best'[k] # 0
               /\ \/ Price(k, best'[k]) < Price(k, i)
                  \/ Price(k, best'[k]) = Price(k, i) /\ best'[k] <= i
    <3>1. i \in Nat \ {0}
      BY FirstLeaves
    <3>2. CASE k # j
      <4>1. i # position
        BY <2>1, <3>2, OneKind
      <4> QED  BY <2>2, <2>5, <2>7, <3>1, <3>2, <4>1 DEF LoopInv
    <3>3. CASE k = j /\ Keep(j)
      <4>1. best'[k] = position
        BY <3>3 DEF Keep, TypeOK
      <4>2. CASE i = position
        BY <2>2, <2>7, <4>1, <4>2, PriceTyped
      <4>3. CASE i < position
        <5>1. best[k] # 0 /\ Price(k, best[k]) <= Price(k, i) /\ best[k] \in OfKind(k)
          BY <2>7, <4>3, PriceTyped DEF LoopInv
        <5>2. Price(k, position) < Price(k, best[k])
          BY <3>3, <5>1 DEF Keep, Cheaper
        <5>3. /\ Price(k, i) \in Int /\ Price(k, best[k]) \in Int
              /\ Price(k, position) \in Int
          BY <2>1, <3>3, <5>1, PriceTyped
        <5> QED  BY <4>1, <5>1, <5>2, <5>3, <2>2
      <4> QED  BY <2>2, <2>7, <3>1, <4>2, <4>3
    <3>4. CASE k = j /\ Pass(j)
      <4>1. best'[k] = best[k]
        BY <3>4 DEF Pass
      <4>2. CASE i < position
        BY <2>7, <4>1, <4>2 DEF LoopInv
      <4>3. CASE i = position
        <5>1. best[k] # 0 /\ ~ (Price(k, i) < Price(k, best[k]))
          BY <2>7, <3>4, <4>3, FirstLeaves, RankingAssumption DEF Pass, Cheaper
        <5>2. best[k] \in OfKind(k) /\ best[k] < position
          BY <5>1 DEF LoopInv
        <5>3. Price(k, i) \in Int /\ Price(k, best[k]) \in Int /\ best[k] \in Nat
          BY <5>2, PriceTyped, FirstLeaves
        <5> QED  BY <2>2, <4>1, <4>3, <5>1, <5>2, <5>3
      <4> QED  BY <2>2, <2>7, <3>1, <4>2, <4>3
    <3> QED  BY <2>1, <3>2, <3>3, <3>4
  <2>8. LoopInv'
    BY <2>2, <2>3, <2>6, <2>7 DEF LoopInv
  <2>9. OrderInv'
    BY <1>1 DEF Consider, OrderInv, Ranked, LoopEnds
  <2> QED  BY <2>4, <2>8, <2>9
<1>2. CASE Order \/ UNCHANGED vars
  <2>1. UNCHANGED <<candidates, forecast, position, best>>
    BY <1>2 DEF Order, vars
  <2>2. \A k \in DOMAIN Kinds :
           /\ OfKind(k)' = OfKind(k)
           /\ \A i : Wait(k, i)' = Wait(k, i) /\ Price(k, i)' = Price(k, i)
    BY <2>1 DEF OfKind, Wait, Earliest, Price
  <2>3. TypeOK'
    BY <2>1 DEF TypeOK
  <2>4. LoopInv'
    BY <2>1, <2>2 DEF LoopInv
  <2>5. InKeyOrder' = InKeyOrder
    <3>1. Winners' = Winners
      BY <2>1 DEF Winners
    <3>2. \A j, k \in Winners : Before(j, k)' = Before(j, k)
      BY <2>1, <2>2 DEF Before, Length, Winners
    <3>3. \A k \in Winners : Place(k)' = Place(k)
      BY <3>1, <3>2 DEF Place
    <3> QED  BY <3>1, <3>3 DEF InKeyOrder
  <2>6. OrderInv'
    BY <1>2, <2>1, <2>5 DEF Order, OrderInv, Ranked, LoopEnds, vars
  <2> QED  BY <2>3, <2>4, <2>6
<1> QED  BY <1>1, <1>2 DEF Next

\* The inductive invariant of rank's loop, whatever the candidates cost.
THEOREM RankInvariant == Spec => []RankInv
<1> QED  BY RankStarts, RankSteps, PTL DEF Spec

\* A loop that has ended has considered every candidate (rank).
LEMMA AllConsidered ==
    ASSUME RankInv, LoopEnds, NEW k, NEW i \in OfKind(k)
    PROVE  i < position
BY DEF RankInv, TypeOK, LoopEnds, OfKind

\* Each winner is the first of the cheapest candidates of its kind that leave soon
\* enough, for any number of candidates and any costs (rank).
THEOREM KeepsFirstCheapest == Spec => []FirstCheapest
<1>1. RankInv => FirstCheapest
  BY AllConsidered DEF RankInv, LoopInv, FirstCheapest, Winners
<1> QED  BY <1>1, RankInvariant, PTL

\* No kind that is offered is lost, so recommend always has a first option (rank).
THEOREM KeepsEveryKind == Spec => []EveryKindStays
<1>1. RankInv => EveryKindStays
  <2> SUFFICES ASSUME RankInv, LoopEnds, NEW k \in DOMAIN Kinds, OfKind(k) # {}
               PROVE  best[k] \in OfKind(k)
    BY DEF EveryKindStays
  <2>1. PICK i \in OfKind(k) : Wait(k, i) = 0
    BY FirstLeaves DEF RankInv
  <2>2. i < position /\ Wait(k, i) <= MaxWait
    BY <2>1, AllConsidered, RankingAssumption
  <2> QED  BY <2>2 DEF RankInv, LoopInv
<1> QED  BY <1>1, RankInvariant, PTL
\* A winner is one of the candidates, and its cost and length are numbers (rank).
LEMMA WinnerTyped ==
    ASSUME RankInv, NEW k \in Winners
    PROVE  /\ k \in Nat /\ candidates[best[k]] \in Options
           /\ Price(k, best[k]) \in Int /\ Length(best[k]) \in Int
<1>1. k \in DOMAIN Kinds /\ k \in Nat /\ best[k] \in OfKind(k)
  BY DEF Winners, Kinds, RankInv, LoopInv
<1>2. PICK n \in 1..MaxCandidates : candidates \in [1..n -> Options]
  BY DEF RankInv, TypeOK
<1>3. candidates[best[k]] \in Options
  BY <1>1, <1>2 DEF OfKind
<1> QED  BY <1>1, <1>3, PriceTyped, RankingAssumption DEF RankInv, Length

\* The keys of the winners are a strict order in which no two are level (rank).
LEMMA StrictOrder ==
    ASSUME RankInv
    PROVE  /\ \A j, k \in Winners : j # k => Before(j, k) \/ Before(k, j)
           /\ \A j, k \in Winners : Before(j, k) => ~ Before(k, j)
           /\ \A i, j, k \in Winners : Before(i, j) /\ Before(j, k) => Before(i, k)
<1> DEFINE p(k) == Price(k, best[k])
           m(k) == Length(best[k])
<1>1. \A k \in Winners : k \in Nat /\ p(k) \in Int /\ m(k) \in Int
  BY WinnerTyped
<1> HIDE DEF p, m
<1>2. \A j, k \in Winners :
        Before(j, k) <=> \/ p(j) < p(k) \/ (p(j) = p(k) /\ m(j) < m(k))
                         \/ (p(j) = p(k) /\ m(j) = m(k) /\ j < k)
  BY DEF Before, p, m
<1>3. \A j, k \in Winners : j # k => Before(j, k) \/ Before(k, j)
  BY <1>1, <1>2
<1>4. \A j, k \in Winners : Before(j, k) => ~ Before(k, j)
  BY <1>1, <1>2
<1>5. \A i, j, k \in Winners : Before(i, j) /\ Before(j, k) => Before(i, k)
  BY <1>1, <1>2
<1> QED  BY <1>3, <1>4, <1>5

\* A winner that comes first has fewer before it, and none has all (rank).
LEMMA PlacesOrdered ==
    ASSUME RankInv
    PROVE  /\ IsFiniteSet(Winners) /\ Cardinality(Winners) \in Nat
           /\ \A k \in Winners : Place(k) \in 0..(Cardinality(Winners) - 1)
           /\ \A j, k \in Winners : Before(j, k) => Place(j) < Place(k)
<1> DEFINE Ahead(k) == {j \in Winners : Before(j, k)}
<1>1. IsFiniteSet(Winners)
  <2>1. Winners \in SUBSET Nat /\ \A k \in Winners : k <= 3
    BY DEF Winners, Kinds
  <2> QED  BY <2>1, FS_BoundedSetOfNaturals
<1>2. Cardinality(Winners) \in Nat
  BY <1>1, FS_CardinalityType
<1>3. \A k \in Winners : /\ IsFiniteSet(Ahead(k)) /\ Cardinality(Ahead(k)) \in Nat
                         /\ Place(k) = Cardinality(Ahead(k))
                         /\ k \notin Ahead(k)
  <2> SUFFICES ASSUME NEW k \in Winners
               PROVE  /\ IsFiniteSet(Ahead(k)) /\ Cardinality(Ahead(k)) \in Nat
                      /\ Place(k) = Cardinality(Ahead(k))
                      /\ k \notin Ahead(k)
    OBVIOUS
  <2>1. Ahead(k) \subseteq Winners /\ k \notin Ahead(k)
    BY StrictOrder
  <2>2. IsFiniteSet(Ahead(k)) /\ Cardinality(Ahead(k)) \in Nat
    BY <1>1, <2>1, FS_Subset, FS_CardinalityType
  <2> QED  BY <2>1, <2>2 DEF Place
<1>4. ASSUME NEW k \in Winners
      PROVE  Place(k) \in 0..(Cardinality(Winners) - 1)
  <2>1. Ahead(k) \subseteq Winners /\ Ahead(k) # Winners
    BY <1>3, <1>4
  <2>2. /\ Cardinality(Ahead(k)) <= Cardinality(Winners)
        /\ Cardinality(Ahead(k)) # Cardinality(Winners)
    BY <1>1, <2>1, FS_Subset
  <2> QED  BY <1>2, <1>3, <1>4, <2>2
<1>5. ASSUME NEW j \in Winners, NEW k \in Winners, Before(j, k)
      PROVE  Place(j) < Place(k)
  <2>1. Ahead(j) \subseteq Ahead(k)
    BY <1>5, StrictOrder
  <2>2. j \in Ahead(k) /\ j \notin Ahead(j)
    BY <1>3, <1>5
  <2>3. Ahead(j) # Ahead(k)
    BY <2>2
  <2>4. IsFiniteSet(Ahead(k))
    BY <1>3
  <2> HIDE DEF Ahead
  <2>5. /\ Cardinality(Ahead(j)) <= Cardinality(Ahead(k))
        /\ Cardinality(Ahead(j)) # Cardinality(Ahead(k))
    BY <2>1, <2>3, <2>4, FS_Subset
  <2> QED  BY <1>3, <1>5, <2>5
<1> QED  BY <1>1, <1>2, <1>4, <1>5

\* Every place is taken, by one winner (rank).
LEMMA PlacesTaken ==
    ASSUME RankInv
    PROVE  /\ InKeyOrder \in [1..Cardinality(Winners) -> Winners]
           /\ \A n \in 1..Cardinality(Winners) : Place(InKeyOrder[n]) = n - 1
           /\ \A k \in Winners : \E n \in 1..Cardinality(Winners) : InKeyOrder[n] = k
<1> DEFINE W == Winners
           c == Cardinality(Winners)
           f == [k \in W |-> Place(k)]
<1>1. IsFiniteSet(W) /\ c \in Nat /\ \A k \in W : Place(k) \in 0..(c - 1)
  BY PlacesOrdered
<1>2. \A j, k \in W : Place(j) = Place(k) => j = k
  <2> SUFFICES ASSUME NEW j \in W, NEW k \in W, Place(j) = Place(k), j # k
               PROVE  FALSE
    OBVIOUS
  <2>1. Place(j) < Place(k) \/ Place(k) < Place(j)
    BY StrictOrder, PlacesOrdered
  <2> QED  BY <1>1, <2>1
<1>3. f \in Injection(W, 0..(c - 1))
  BY <1>1, <1>2 DEF Injection, IsInjective
<1>4. IsFiniteSet(0..(c - 1)) /\ Cardinality(0..(c - 1)) = c
  BY <1>1, FS_Interval
<1>5. f \in Surjection(W, 0..(c - 1))
  BY <1>1, <1>3, <1>4, FS_Injection
<1>6. \A n \in 1..c : \E k \in W : Place(k) = n - 1
  <2> SUFFICES ASSUME NEW n \in 1..c
               PROVE  \E k \in W : Place(k) = n - 1
    OBVIOUS
  <2>1. n - 1 \in 0..(c - 1)
    BY <1>1
  <2> QED  BY <1>5, <2>1 DEF Surjection
<1>7. \A n \in 1..c : InKeyOrder[n] \in W /\ Place(InKeyOrder[n]) = n - 1
  BY <1>6 DEF InKeyOrder
<1>8. InKeyOrder \in [1..c -> W]
  BY <1>7 DEF InKeyOrder
<1>9. \A k \in W : Place(k) + 1 \in 1..c /\ InKeyOrder[Place(k) + 1] = k
  BY <1>1, <1>2, <1>7
<1> QED  BY <1>7, <1>8, <1>9

\* The winners come out once each, cheapest first, whatever they cost and however
\* often they tie (rank).
THEOREM WinnersInOrder == Spec => []InOrder
<1>1. RankInv => InOrder
  <2> SUFFICES ASSUME RankInv, Ranked
               PROVE  /\ {options[i] : i \in DOMAIN options} = Winners
                      /\ Len(options) = Cardinality(Winners)
                      /\ \A i, j \in DOMAIN options : i < j =>
                           LET p == Price(options[i], best[options[i]])
                               q == Price(options[j], best[options[j]])
                           IN  p < q \/ (p = q /\ Length(best[options[i]]) <= Length(best[options[j]]))
    BY DEF InOrder
  <2> DEFINE c == Cardinality(Winners)
  <2>1. /\ options \in [1..c -> Winners] /\ c \in Nat
        /\ \A n \in 1..c : Place(options[n]) = n - 1
        /\ \A k \in Winners : \E n \in 1..c : options[n] = k
    BY PlacesTaken, PlacesOrdered DEF RankInv, OrderInv
  <2>2. {options[i] : i \in DOMAIN options} = Winners
    BY <2>1
  <2>3. Len(options) = c
    BY <2>1
  <2>4. ASSUME NEW i \in DOMAIN options, NEW j \in DOMAIN options, i < j
        PROVE  Before(options[i], options[j])
    <3>1. options[i] \in Winners /\ options[j] \in Winners
      BY <2>1
    <3>2. /\ Place(options[i]) < Place(options[j])
          /\ Place(options[i]) \in Int /\ Place(options[j]) \in Int
      BY <2>1, <2>4
    <3>3. options[i] # options[j] /\ ~ Before(options[j], options[i])
      BY <3>1, <3>2, PlacesOrdered
    <3> QED  BY <3>1, <3>3, StrictOrder
  <2>5. \A k \in Winners : Length(best[k]) \in Int
    BY WinnerTyped
  <2> QED  BY <2>1, <2>2, <2>3, <2>4, <2>5 DEF Before
<1> QED  BY <1>1, RankInvariant, PTL

-----------------------------------------------------------------------------
(* Windows of the clock (scoring.py's in_time_window).                     *)

\* A moment is so many days and a time of day (local_time).
LEMMA Clock ==
    ASSUME NEW t \in Nat
    PROVE  /\ TimeOfDay(t) \in 0..(DayLen - 1)
           /\ t \div DayLen \in Nat
           /\ t = (t \div DayLen) * DayLen + TimeOfDay(t)
BY ScoringAssumption, SMTT(30) DEF TimeOfDay

\* A later day begins after an earlier one has ended.
LEMMA NextDay ==
    ASSUME NEW d \in Nat, NEW e \in Nat, d < e
    PROVE  /\ d * DayLen \in Nat /\ e * DayLen \in Nat
           /\ d * DayLen + DayLen <= e * DayLen
           /\ e > d + 1 => d * DayLen + 2 * DayLen <= e * DayLen
<1> DEFINE gap == e - d - 1
<1>1. gap \in Nat /\ e = d + 1 + gap
  OBVIOUS
<1>2. gap * DayLen \in Nat /\ gap > 0 => gap * DayLen >= DayLen
  BY <1>1, ScoringAssumption, SMTT(30)
<1>3. e * DayLen = d * DayLen + DayLen + gap * DayLen
  BY <1>1, ScoringAssumption, SMTT(30)
<1> QED  BY <1>2, <1>3, ScoringAssumption

\* A moment is made up of its day and its time of day (local_time).
LEMMA MomentOf ==
    ASSUME NEW d \in Nat, NEW x \in 0..(DayLen - 1)
    PROVE  /\ d * DayLen + x \in Nat
           /\ TimeOfDay(d * DayLen + x) = x
<1> DEFINE t == d * DayLen + x
           e == t \div DayLen
<1>1. d * DayLen \in Nat /\ t \in Nat
  BY ScoringAssumption, SMTT(30)
<1>2. e \in Nat /\ TimeOfDay(t) \in 0..(DayLen - 1) /\ t = e * DayLen + TimeOfDay(t)
  BY <1>1, Clock
<1>3. t = d * DayLen + x /\ x \in Nat /\ x < DayLen
  BY ScoringAssumption
<1> HIDE DEF t, e
<1>4. ~ (d < e) /\ ~ (e < d)
  BY <1>1, <1>2, <1>3, NextDay, ScoringAssumption
<1>5. d = e
  BY <1>2, <1>4
<1>6. TimeOfDay(t) = x
  BY <1>1, <1>2, <1>3, <1>5, ScoringAssumption
<1> QED  BY <1>1, <1>6 DEF t

\* A trip of less than a day ends on its day or on the next, and in that case at
\* an earlier time of day (in_time_window's two branches).
LEMMA TripDays ==
    ASSUME NEW s \in Nat, NEW e \in Nat, s <= e, e - s < DayLen
    PROVE  LET d == s \div DayLen
               f == e \div DayLen
           IN  \/ d = f /\ TimeOfDay(s) <= TimeOfDay(e)
               \/ f = d + 1 /\ TimeOfDay(s) > TimeOfDay(e) /\ f * DayLen = d * DayLen + DayLen
<1> DEFINE d == s \div DayLen
           f == e \div DayLen
           x == TimeOfDay(s)
           y == TimeOfDay(e)
<1>1. /\ d \in Nat /\ x \in 0..(DayLen - 1) /\ s = d * DayLen + x
      /\ f \in Nat /\ y \in 0..(DayLen - 1) /\ e = f * DayLen + y
  BY Clock
<1> HIDE DEF d, f, x, y
<1>2. d * DayLen \in Nat /\ f * DayLen \in Nat
  BY <1>1, ScoringAssumption, SMTT(30)
<1>3. ~ (f < d)
  BY <1>1, <1>2, NextDay, ScoringAssumption
<1>4. CASE d = f
  BY <1>1, <1>2, <1>4, ScoringAssumption DEF d, f, x, y
<1>5. CASE d < f
  <2>1. f = d + 1
    BY <1>1, <1>2, <1>5, NextDay, ScoringAssumption
  <2>2. (d + 1) * DayLen = d * DayLen + DayLen
    BY <1>1, ScoringAssumption, SMTT(30)
  <2>3. f * DayLen = d * DayLen + DayLen
    BY <2>1, <2>2
  <2>4. x > y
    BY <1>1, <1>2, <2>3, ScoringAssumption
  <2> QED  BY <2>1, <2>3, <2>4 DEF d, f, x, y
<1> QED  BY <1>1, <1>3, <1>4, <1>5

\* Every moment of a trip of less than a day falls into its window, on either side
\* of midnight, for every length of day (in_time_window).
THEOREM WindowHoldsTrip ==
    ASSUME NEW s \in Nat, NEW e \in Nat, NEW t \in Nat,
           s <= t, t <= e, e - s < DayLen
    PROVE  InTimeWindow(TimeOfDay(t), TimeOfDay(s), TimeOfDay(e))
<1> DEFINE d(u) == u \div DayLen
<1>1. \A u \in {s, t, e} : /\ d(u) \in Nat /\ TimeOfDay(u) \in 0..(DayLen - 1)
                          /\ u = d(u) * DayLen + TimeOfDay(u)
  BY Clock
<1>2. t - s < DayLen /\ e - t < DayLen
  BY ScoringAssumption
<1>3. \/ d(s) = d(t) /\ TimeOfDay(s) <= TimeOfDay(t)
      \/ d(t) = d(s) + 1 /\ TimeOfDay(s) > TimeOfDay(t)
  BY <1>2, TripDays
<1>4. \/ d(t) = d(e) /\ TimeOfDay(t) <= TimeOfDay(e)
      \/ d(e) = d(t) + 1 /\ TimeOfDay(t) > TimeOfDay(e)
  BY <1>2, TripDays
<1>5. \/ d(s) = d(e) /\ TimeOfDay(s) <= TimeOfDay(e)
      \/ d(e) = d(s) + 1 /\ TimeOfDay(s) > TimeOfDay(e)
  BY TripDays
<1>6. /\ d(s) \in Nat /\ d(t) \in Nat /\ d(e) \in Nat
      /\ TimeOfDay(s) \in Int /\ TimeOfDay(t) \in Int /\ TimeOfDay(e) \in Int
  BY <1>1
<1> HIDE DEF d
<1> QED  BY <1>3, <1>4, <1>5, <1>6 DEF InTimeWindow

\* A time of day in the window is that of a moment of the trip: nothing that rains
\* before or after it counts (in_time_window).
THEOREM WindowHoldsNoMore ==
    ASSUME NEW s \in Nat, NEW e \in Nat, s <= e, e - s < DayLen,
           NEW x \in 0..(DayLen - 1),
           InTimeWindow(x, TimeOfDay(s), TimeOfDay(e))
    PROVE  \E t \in Nat : s <= t /\ t <= e /\ TimeOfDay(t) = x
<1> DEFINE d == s \div DayLen
           f == e \div DayLen
           y == TimeOfDay(s)
           z == TimeOfDay(e)
<1>1. /\ d \in Nat /\ y \in 0..(DayLen - 1) /\ s = d * DayLen + y
      /\ f \in Nat /\ z \in 0..(DayLen - 1) /\ e = f * DayLen + z
  BY Clock
<1>2. \/ d = f /\ y <= z
      \/ y > z /\ f * DayLen = d * DayLen + DayLen
  BY TripDays
<1>3. \/ y <= z /\ y <= x /\ x <= z
      \/ y > z /\ (x >= y \/ x <= z)
  BY DEF InTimeWindow
<1>4. /\ d * DayLen + x \in Nat /\ TimeOfDay(d * DayLen + x) = x
      /\ f * DayLen + x \in Nat /\ TimeOfDay(f * DayLen + x) = x
  BY <1>1, MomentOf
<1>5. d * DayLen \in Nat /\ f * DayLen \in Nat
  BY <1>1, ScoringAssumption, SMTT(30)
<1> HIDE DEF d, f, y, z
<1>6. CASE y <= z
  <2>1. s <= d * DayLen + x /\ d * DayLen + x <= e
    BY <1>1, <1>2, <1>3, <1>5, <1>6
  <2> QED  BY <1>4, <2>1
<1>7. CASE y > z /\ x >= y
  <2>1. s <= d * DayLen + x /\ d * DayLen + x <= e
    BY <1>1, <1>2, <1>5, <1>7, ScoringAssumption
  <2> QED  BY <1>4, <2>1
<1>8. CASE y > z /\ x <= z
  <2>1. s <= f * DayLen + x /\ f * DayLen + x <= e
    BY <1>1, <1>2, <1>5, <1>8, ScoringAssumption
  <2> QED  BY <1>4, <2>1
<1> QED  BY <1>1, <1>3, <1>6, <1>7, <1>8

\* A leg whose cost counts rain is part of a trip that is reported as rainy: the
\* summary never calls a ride dry that the score calls wet (_leg_rain, _rain_summary).
THEOREM RainOnLegIsReported ==
    ASSUME NEW itin, NEW leg, NEW rain,
           itin.start \in Nat, itin.end \in Nat, itin.end - itin.start < DayLen,
           leg.start \in Nat, leg.end \in Nat,
           itin.start <= leg.start, leg.start <= leg.end, leg.end <= itin.end,
           \A slot \in rain : slot.time \in 0..(DayLen - 1),
           rain # NoForecast,
           ExposedMinutes(leg, rain) > 0
    PROVE  RainExpected(itin, rain) = TRUE
<1>1. WetDuring(leg, rain) # {}
  <2>1. SUFFICES ASSUME WetDuring(leg, rain) = {} PROVE FALSE
    OBVIOUS
  <2>2. Cardinality(WetDuring(leg, rain)) = 0
    BY <2>1, FS_EmptySet
  <2>3. ExposedMinutes(leg, rain) = Min({leg.end - leg.start, 0})
    <3>1. SlotLen * 0 = 0
      BY ScoringAssumption
    <3>2. SlotLen * Cardinality(WetDuring(leg, rain)) = 0
      BY <2>2, <3>1
    <3> QED  BY <3>2 DEF ExposedMinutes
  <2>4. {leg.end - leg.start, 0} \in SUBSET Nat
    OBVIOUS
  <2>5. Min({leg.end - leg.start, 0}) <= 0
    BY <2>4, LeastOf
  <2>6. Min({leg.end - leg.start, 0}) \in Nat
    BY <2>4, LeastOf
  <2> QED  BY <2>3, <2>5, <2>6
<1>2. PICK slot \in rain : /\ IsWet(slot)
                          /\ InTimeWindow(slot.time, TimeOfDay(leg.start), TimeOfDay(leg.end))
  BY <1>1 DEF WetDuring, SlotsDuring
<1>3. PICK t \in Nat : leg.start <= t /\ t <= leg.end /\ TimeOfDay(t) = slot.time
  <2>1. leg.end - leg.start < DayLen
    BY ScoringAssumption
  <2> QED  BY <1>2, <2>1, WindowHoldsNoMore
<1>4. InTimeWindow(slot.time, TimeOfDay(itin.start), TimeOfDay(itin.end))
  <2>1. itin.start <= t /\ t <= itin.end
    BY <1>3
  <2> QED  BY <1>3, <2>1, WindowHoldsTrip
<1> QED  BY <1>2, <1>4 DEF RainExpected, SlotsDuring

-----------------------------------------------------------------------------

\* recommend ranks as rank does, and returns once that is over.
LEMMA AdviceRanks == AdviceSpec => Spec
<1>1. AdviceInit => Init
  BY DEF AdviceInit
<1>2. [AdviceNext]_adviceVars => [Next]_vars
  BY DEF AdviceNext, adviceVars, Rank, Recommend
<1> QED  BY <1>1, <1>2, PTL DEF AdviceSpec, Spec

\* The advice goes by the winners of a ranking that is over.
LEMMA AdviceStands == AdviceSpec => []AdviceInv
<1>1. AdviceInit => AdviceInv
  BY DEF AdviceInit, Init, AdviceInv, Ranked
<1>2. RankInv /\ AdviceInv /\ [AdviceNext]_adviceVars => AdviceInv'
  <2> SUFFICES ASSUME OrderInv, AdviceInv, [AdviceNext]_adviceVars PROVE AdviceInv'
    BY DEF RankInv
  <2>1. CASE Consider /\ UNCHANGED advice
    BY <2>1 DEF AdviceInv, OrderInv, Consider, Ranked, LoopEnds
  <2>2. CASE Order /\ UNCHANGED advice
    BY <2>2 DEF AdviceInv, Order, Ranked
  <2>3. CASE Recommend
    BY <2>3 DEF AdviceInv, Recommend, vars, Ranked, SummaryOf
  <2>4. CASE UNCHANGED adviceVars
    BY <2>4 DEF AdviceInv, adviceVars, vars, Ranked, SummaryOf
  <2> QED  BY <2>1, <2>2, <2>3, <2>4 DEF AdviceNext, Rank, Next
<1> QED  BY <1>1, <1>2, AdviceRanks, RankInvariant, PTL DEF AdviceSpec

\* The itinerary the rain is reported for is one of the candidates (recommend).
LEMMA SummaryIsOffered ==
    ASSUME RankInv, Ranked
    PROVE  SummaryOf \in Options
<1>1. CASE best[1] # 0
  <2>1. 1 \in Winners
    BY <1>1 DEF Winners, Kinds
  <2> QED  BY <1>1, <2>1, WinnerTyped DEF SummaryOf
<1>2. CASE best[1] = 0
  <2>1. options \in [1..Cardinality(Winners) -> Winners] /\ Cardinality(Winners) \in Nat
    BY PlacesTaken, PlacesOrdered DEF RankInv, OrderInv
  <2>2. Cardinality(Winners) # 0
    BY <2>1 DEF Ranked
  <2>3. options[1] \in Winners
    BY <2>1, <2>2
  <2> QED  BY <1>2, <2>3, WinnerTyped DEF SummaryOf
<1> QED  BY <1>1, <1>2

\* Rain that the cost counts is reported, whatever the trips, the forecasts and the
\* length of a day, for the ride or for the recommendation (recommend).
THEOREM RainReported == AdviceSpec => []RainIsReported
<1>1. RankInv /\ AdviceInv => RainIsReported
  <2> SUFFICES ASSUME RankInv, AdviceInv,
                      advice # NoAdvice, forecast # NoForecast,
                      NEW i \in Legs(SummaryOf),
                      ExposedMinutes(SummaryOf.legs[i], forecast) > 0
               PROVE  advice.rainExpected = TRUE
    BY DEF RainIsReported
  <2>1. SummaryOf \in Options
    BY SummaryIsOffered DEF AdviceInv
  <2>2. \A slot \in forecast : slot.time \in 0..(DayLen - 1)
    BY AdviceAssumption DEF RankInv, TypeOK
  <2> DEFINE itin == SummaryOf
             leg  == SummaryOf.legs[i]
  <2>3. /\ itin.start \in Nat /\ itin.end \in Nat /\ itin.end - itin.start < DayLen
        /\ leg.start \in Nat /\ leg.end \in Nat
        /\ itin.start <= leg.start /\ leg.start <= leg.end /\ leg.end <= itin.end
    BY <2>1, AdviceAssumption
  <2> HIDE DEF itin, leg
  <2>4. RainExpected(itin, forecast) = TRUE
    <3>1. ExposedMinutes(leg, forecast) > 0
      BY DEF leg
    <3> QED  BY <2>2, <2>3, <3>1, RainOnLegIsReported
  <2> QED  BY <2>4 DEF AdviceInv, itin
<1> QED  BY <1>1, AdviceRanks, RankInvariant, AdviceStands, PTL

-----------------------------------------------------------------------------
(* A sum over legs.                                                        *)

\* The member that a sum over s adds first.
Pick(s) == CHOOSE x \in s : TRUE

\* g maps every part of T to the sum of a over it: what MapThenSumSet chooses.
Sums(T, g, a) ==
    g = [s \in SUBSET T |-> IF s = {} THEN 0 ELSE a[Pick(s)] + g[s \ {Pick(s)}]]

\* What is left of a finite set has one member less.
LEMMA PickOne ==
    ASSUME NEW s, IsFiniteSet(s), s # {}
    PROVE  /\ Pick(s) \in s /\ IsFiniteSet(s \ {Pick(s)})
           /\ Cardinality(s) \in Nat \ {0}
           /\ Cardinality(s \ {Pick(s)}) = Cardinality(s) - 1
<1>1. Pick(s) \in s
  BY DEF Pick
<1>2. Cardinality(s) \in Nat /\ Cardinality(s) # 0
  BY FS_CardinalityType, FS_EmptySet
<1> QED  BY <1>1, <1>2, FS_RemoveElement

\* Sums over the parts of at most n members.
SumsUpTo(T, n, g, a) ==
    /\ g \in [{s \in SUBSET T : Cardinality(s) <= n} -> Int]
    /\ \A s \in SUBSET T : Cardinality(s) <= n =>
          g[s] = IF s = {} THEN 0 ELSE a[Pick(s)] + g[s \ {Pick(s)}]

\* There are sums over the parts of any number of members: they can be added up
\* from those over fewer.
LEMMA SumsStepwise ==
    ASSUME NEW T, IsFiniteSet(T), NEW a \in [T -> Int], NEW n \in Nat
    PROVE  \E g : SumsUpTo(T, n, g, a)
<1> DEFINE Short == {m \in Nat : ~ \E g : SumsUpTo(T, m, g, a)}
<1>1. \A s \in SUBSET T : IsFiniteSet(s) /\ Cardinality(s) \in Nat
  BY FS_Subset, FS_CardinalityType
<1>2. 0 \notin Short
  <2> DEFINE g == [s \in {s \in SUBSET T : Cardinality(s) <= 0} |-> 0]
  <2>1. \A s \in SUBSET T : Cardinality(s) <= 0 => s = {}
    BY <1>1, FS_EmptySet
  <2>2. SumsUpTo(T, 0, g, a)
    BY <2>1 DEF SumsUpTo
  <2> QED  BY <2>2
<1>3. ASSUME NEW m \in Nat \ {0}, m - 1 \notin Short
      PROVE  m \notin Short
  <2>1. PICK g : SumsUpTo(T, m - 1, g, a)
    BY <1>3
  <2> DEFINE D == {s \in SUBSET T : Cardinality(s) <= m}
             h == [s \in D |-> IF s = {} THEN 0 ELSE a[Pick(s)] + g[s \ {Pick(s)}]]
  <2>2. ASSUME NEW s \in SUBSET T, Cardinality(s) <= m, s # {}
        PROVE  /\ Pick(s) \in T /\ s \ {Pick(s)} \in SUBSET T
               /\ Cardinality(s \ {Pick(s)}) <= m - 1
    BY <1>1, <2>2, PickOne
  <2>3. h \in [D -> Int]
    <3>1. ASSUME NEW s \in D
          PROVE  (IF s = {} THEN 0 ELSE a[Pick(s)] + g[s \ {Pick(s)}]) \in Int
      <4>1. CASE s = {}
        BY <4>1
      <4>2. CASE s # {}
        <5>1. a[Pick(s)] \in Int /\ g[s \ {Pick(s)}] \in Int
          BY <2>1, <2>2, <4>2 DEF SumsUpTo
        <5> QED  BY <4>2, <5>1
      <4> QED  BY <4>1, <4>2
    <3> QED  BY <3>1
  <2>4. ASSUME NEW s \in SUBSET T, Cardinality(s) <= m - 1
        PROVE  h[s] = g[s]
    <3>1. Cardinality(s) <= m
      BY <1>1, <2>4
    <3> QED  BY <2>1, <2>4, <3>1 DEF SumsUpTo
  <2>5. \A s \in SUBSET T : Cardinality(s) <= m =>
            h[s] = IF s = {} THEN 0 ELSE a[Pick(s)] + h[s \ {Pick(s)}]
    BY <2>2, <2>4
  <2>6. SumsUpTo(T, m, h, a)
    <3> HIDE DEF h
    <3> QED  BY <2>3, <2>5 DEF SumsUpTo
  <2> QED  BY <2>6
<1>4. Short = {}
  <2> SUFFICES ASSUME Short # {} PROVE FALSE
    OBVIOUS
  <2> DEFINE m == Min(Short)
  <2>1. m \in Short /\ \A k \in Short : m <= k
    <3>1. Short \in SUBSET Nat
      OBVIOUS
    <3> HIDE DEF Short
    <3> QED  BY <3>1, LeastOf
  <2>2. m \in Nat \ {0}
    BY <1>2, <2>1
  <2> HIDE DEF m
  <2>3. m - 1 \in Nat /\ m - 1 \notin Short
    <3> HIDE DEF Short
    <3> QED  BY <2>1, <2>2
  <2> QED  BY <1>3, <2>1, <2>2, <2>3
<1> QED  BY <1>4

\* So there are sums over all of its parts.
LEMMA SumsExist ==
    ASSUME NEW T, IsFiniteSet(T), NEW a \in [T -> Int]
    PROVE  \E g : Sums(T, g, a)
<1> DEFINE n == Cardinality(T)
<1>1. n \in Nat /\ \A s \in SUBSET T : Cardinality(s) <= n
  BY FS_CardinalityType, FS_Subset
<1> HIDE DEF n
<1>2. PICK g : SumsUpTo(T, n, g, a)
  BY <1>1, SumsStepwise
<1>3. {s \in SUBSET T : Cardinality(s) <= n} = SUBSET T
  BY <1>1
<1>4. g \in [SUBSET T -> Int]
  BY <1>2, <1>3 DEF SumsUpTo
<1>5. \A s \in SUBSET T : g[s] = IF s = {} THEN 0 ELSE a[Pick(s)] + g[s \ {Pick(s)}]
  BY <1>1, <1>2 DEF SumsUpTo
<1>6. Sums(T, g, a)
  BY <1>4, <1>5 DEF Sums
<1> QED  BY <1>6

\* Where every member counts for no less, the sum is no less.
LEMMA SumsOrdered ==
    ASSUME NEW T, IsFiniteSet(T), NEW a \in [T -> Int], NEW b \in [T -> Int],
           \A x \in T : a[x] <= b[x],
           NEW g, Sums(T, g, a), NEW h, Sums(T, h, b)
    PROVE  g[T] \in Int /\ h[T] \in Int /\ g[T] <= h[T]
<1> DEFINE Fine(s) == g[s] \in Int /\ h[s] \in Int /\ g[s] <= h[s]
           Sizes == {Cardinality(s) : s \in {s \in SUBSET T : ~ Fine(s)}}
<1>1. \A s \in SUBSET T : IsFiniteSet(s) /\ Cardinality(s) \in Nat
  BY FS_Subset, FS_CardinalityType
<1>2. \A s \in SUBSET T :
         /\ g[s] = IF s = {} THEN 0 ELSE a[Pick(s)] + g[s \ {Pick(s)}]
         /\ h[s] = IF s = {} THEN 0 ELSE b[Pick(s)] + h[s \ {Pick(s)}]
  <2>1. \A s \in SUBSET T : g[s] = IF s = {} THEN 0 ELSE a[Pick(s)] + g[s \ {Pick(s)}]
    BY DEF Sums
  <2>2. \A s \in SUBSET T : h[s] = IF s = {} THEN 0 ELSE b[Pick(s)] + h[s \ {Pick(s)}]
    BY DEF Sums
  <2> QED  BY <2>1, <2>2
<1>3. Sizes \in SUBSET Nat
  BY <1>1
<1>4. SUFFICES ASSUME Sizes # {} PROVE FALSE
  BY <1>1
<1>5. Min(Sizes) \in Sizes /\ \A k \in Sizes : Min(Sizes) <= k
  <2> HIDE DEF Sizes
  <2> QED  BY <1>3, <1>4, LeastOf
<1>6. PICK s \in SUBSET T : ~ Fine(s) /\ Cardinality(s) = Min(Sizes)
  BY <1>5
<1>7. s # {}
  <2>1. SUFFICES ASSUME s = {} PROVE Fine(s)
    BY <1>6
  <2>2. g[s] = 0 /\ h[s] = 0
    BY <1>2, <2>1
  <2> QED  BY <2>2
<1>8. /\ Pick(s) \in T /\ s \ {Pick(s)} \in SUBSET T
      /\ Cardinality(s \ {Pick(s)}) = Cardinality(s) - 1
      /\ Cardinality(s) \in Nat
  BY <1>1, <1>7, PickOne
<1>9. Fine(s \ {Pick(s)})
  <2>1. SUFFICES ASSUME ~ Fine(s \ {Pick(s)}) PROVE FALSE
    OBVIOUS
  <2>2. Cardinality(s \ {Pick(s)}) \in Sizes
    BY <1>8, <2>1
  <2> HIDE DEF Sizes
  <2> QED  BY <1>5, <1>6, <1>8, <2>2
<1>10. Fine(s)
  <2>1. a[Pick(s)] \in Int /\ b[Pick(s)] \in Int /\ a[Pick(s)] <= b[Pick(s)]
    BY <1>8
  <2>2. g[s] = a[Pick(s)] + g[s \ {Pick(s)}] /\ h[s] = b[Pick(s)] + h[s \ {Pick(s)}]
    BY <1>2, <1>7
  <2> QED  BY <1>9, <2>1, <2>2
<1> QED  BY <1>6, <1>10

-----------------------------------------------------------------------------
(* More rain.                                                              *)

\* A finite set of rates has a highest one.
LEMMA GreatestOf ==
    ASSUME NEW S \in SUBSET Nat, IsFiniteSet(S), S # {}
    PROVE  Max(S) \in S /\ \A y \in S : y <= Max(S)
<1> DEFINE Topped(s) == \E x \in s : \A y \in s : y <= x
           Sizes == {Cardinality(s) : s \in {s \in SUBSET S : s # {} /\ ~ Topped(s)}}
<1>1. \A s \in SUBSET S : IsFiniteSet(s) /\ Cardinality(s) \in Nat
  BY FS_Subset, FS_CardinalityType
<1>2. Topped(S)
  <2>1. SUFFICES ASSUME ~ Topped(S) PROVE FALSE
    OBVIOUS
  <2>2. Sizes \in SUBSET Nat /\ Sizes # {}
    BY <1>1, <2>1
  <2>3. Min(Sizes) \in Sizes /\ \A k \in Sizes : Min(Sizes) <= k
    <3> HIDE DEF Sizes
    <3> QED  BY <2>2, LeastOf
  <2>4. PICK s \in SUBSET S : s # {} /\ ~ Topped(s) /\ Cardinality(s) = Min(Sizes)
    BY <2>3
  <2>5. /\ Pick(s) \in s /\ Cardinality(s) \in Nat
        /\ Cardinality(s \ {Pick(s)}) = Cardinality(s) - 1
    BY <1>1, <2>4, PickOne
  <2>6. s \ {Pick(s)} # {}
    <3>1. SUFFICES ASSUME s \ {Pick(s)} = {} PROVE Topped(s)
      BY <2>4
    <3>2. \A y \in s : y = Pick(s)
      BY <3>1
    <3>3. Pick(s) \in Nat
      BY <2>5
    <3>4. Pick(s) <= Pick(s)
      BY <3>3
    <3> QED  BY <2>5, <3>2, <3>4
  <2>7. Topped(s \ {Pick(s)})
    <3>1. SUFFICES ASSUME ~ Topped(s \ {Pick(s)}) PROVE FALSE
      OBVIOUS
    <3>2. Cardinality(s \ {Pick(s)}) \in Sizes
      BY <2>6, <3>1
    <3> HIDE DEF Sizes
    <3> QED  BY <2>3, <2>4, <2>5, <3>2
  <2>8. PICK x \in s \ {Pick(s)} : \A y \in s \ {Pick(s)} : y <= x
    BY <2>7
  <2>9. x \in Nat /\ Pick(s) \in Nat
    BY <2>4, <2>5, <2>8
  <2>10. CASE Pick(s) <= x
    <3>1. \A y \in s : y <= x
      BY <2>8, <2>10
    <3> QED  BY <2>4, <2>8, <3>1
  <2>11. CASE x <= Pick(s)
    <3>1. \A y \in s : y <= Pick(s)
      BY <2>4, <2>5, <2>8, <2>9, <2>11
    <3> QED  BY <2>4, <2>5, <3>1
  <2> QED  BY <2>9, <2>10, <2>11
<1>3. \E x \in S : \A y \in S : x >= y
  BY <1>2
<1>4. Max(S) \in S /\ \A y \in S : Max(S) >= y
  BY <1>3 DEF Max
<1> QED  BY <1>4

\* A leg has no fewer wet slots and no lower peak when the forecast gets wetter.
LEMMA WetterLeg ==
    ASSUME NEW leg, NEW dry \in Forecasts \ {NoForecast}, NEW wet \in Forecasts \ {NoForecast},
           Wetter(wet, dry)
    PROVE  LET A == WetDuring(leg, dry)
               B == WetDuring(leg, wet)
           IN  /\ Cardinality(A) \in Nat /\ Cardinality(B) \in Nat
               /\ Cardinality(A) <= Cardinality(B)
               /\ Peak(A) \in Nat /\ Peak(B) \in Nat /\ Peak(A) <= Peak(B)
<1> DEFINE A == WetDuring(leg, dry)
           B == WetDuring(leg, wet)
           over(s) == CHOOSE t \in B : t.time = s.time /\ t.rate >= s.rate
           j == [s \in A |-> over(s)]
<1>1. A \subseteq dry /\ B \subseteq wet
  BY DEF WetDuring, SlotsDuring
<1>2. \A s \in dry \cup wet : s.rate \in Nat
  BY AdviceAssumption
<1>3. IsFiniteSet(A) /\ IsFiniteSet(B)
  <2>1. IsFiniteSet(dry) /\ IsFiniteSet(wet)
    BY AdviceAssumption
  <2> HIDE DEF A, B
  <2> QED  BY <1>1, <2>1, FS_Subset
<1>4. ASSUME NEW s \in A
      PROVE  \E t \in B : t.time = s.time /\ t.rate >= s.rate
  <2>1. PICK t \in wet : t.time = s.time /\ t.rate >= s.rate
    BY <1>1 DEF Wetter
  <2>2. IsWet(s) /\ InTimeWindow(s.time, TimeOfDay(leg.start), TimeOfDay(leg.end))
    BY DEF WetDuring, SlotsDuring
  <2>3. t.rate \in Nat /\ s.rate \in Nat
    BY <1>1, <1>2
  <2>4. t \in B
    BY <2>1, <2>2, <2>3 DEF WetDuring, SlotsDuring, IsWet
  <2> QED  BY <2>1, <2>4
<1> HIDE DEF A, B
<1>5. \A s \in A : over(s) \in B /\ over(s).time = s.time /\ over(s).rate >= s.rate
  BY <1>4
<1>6. \A s, t \in A : s.time = t.time => s = t
  BY <1>1, AdviceAssumption
<1>7. j \in Injection(A, B)
  <2>1. \A s, t \in A : over(s) = over(t) => s = t
    BY <1>5, <1>6
  <2> HIDE DEF over
  <2> QED  BY <1>5, <2>1 DEF Injection, IsInjective
<1>8. /\ Cardinality(A) \in Nat /\ Cardinality(B) \in Nat
      /\ Cardinality(A) <= Cardinality(B)
  <2> HIDE DEF j
  <2> QED  BY <1>3, <1>7, FS_Injection, FS_CardinalityType
<1>9. ASSUME NEW S, IsFiniteSet(S), \A s \in S : s.rate \in Nat
      PROVE  /\ Peak(S) \in {s.rate : s \in S} \cup {0}
             /\ \A y \in {s.rate : s \in S} \cup {0} : y <= Peak(S)
  <2> DEFINE rates == {s.rate : s \in S}
             g == [s \in S |-> s.rate]
  <2>1. g \in Surjection(S, rates)
    BY DEF Surjection
  <2>2. IsFiniteSet(rates)
    <3> HIDE DEF g, rates
    <3> QED  BY <1>9, <2>1, FS_Surjection
  <2>3. rates \in SUBSET Nat
    BY <1>9
  <2> HIDE DEF rates
  <2>4. IsFiniteSet(rates \cup {0})
    BY <2>2, FS_AddElement
  <2>5. /\ Max(rates \cup {0}) \in rates \cup {0}
        /\ \A y \in rates \cup {0} : y <= Max(rates \cup {0})
    BY <2>3, <2>4, GreatestOf
  <2> QED  BY <2>5 DEF Peak, rates
<1>10. (\A s \in A : s.rate \in Nat) /\ (\A s \in B : s.rate \in Nat)
  BY <1>1, <1>2
<1>11. Peak(A) \in {s.rate : s \in A} \cup {0} /\ Peak(A) \in Nat
  BY <1>3, <1>9, <1>10
<1>12. /\ Peak(B) \in Nat
       /\ \A y \in {s.rate : s \in B} \cup {0} : y <= Peak(B)
  BY <1>3, <1>9, <1>10
<1>13. Peak(A) <= Peak(B)
  <2>1. CASE Peak(A) = 0
    BY <1>12, <2>1
  <2>2. ASSUME NEW s \in A, Peak(A) = s.rate
        PROVE  Peak(A) <= Peak(B)
    <3>1. over(s) \in B /\ over(s).rate >= s.rate
      BY <1>5
    <3>2. over(s).rate <= Peak(B) /\ over(s).rate \in Nat
      BY <1>10, <1>12, <3>1
    <3> QED  BY <1>11, <1>12, <2>2, <3>1, <3>2
  <2> QED  BY <1>11, <2>1, <2>2
<1> QED  BY <1>8, <1>11, <1>12, <1>13 DEF A, B

\* The bands go up with the rate.
LEMMA BandsGoUp ==
    ASSUME NEW p \in Nat, NEW q \in Nat, p <= q
    PROVE  RainPenalty(p) \in Nat /\ RainPenalty(q) \in Nat /\ RainPenalty(p) <= RainPenalty(q)
<1>1. ASSUME NEW r \in Nat
      PROVE  RainPenalty(r) = IF r < 1 THEN 0 ELSE IF r < 5 THEN 1 ELSE IF r < 15 THEN 3
                              ELSE IF r < 40 THEN 6 ELSE 12
  <2> DEFINE fits == {i \in DOMAIN RainBands : r < RainBands[i].below}
  <2>1. DOMAIN RainBands = 1..4 /\ fits = {i \in 1..4 : r < RainBands[i].below}
    BY DEF RainBands
  <2>2. /\ RainBands[1].below = 1 /\ RainBands[2].below = 5
        /\ RainBands[3].below = 15 /\ RainBands[4].below = 40
        /\ RainBands[1].penalty = 0 /\ RainBands[2].penalty = 1
        /\ RainBands[3].penalty = 3 /\ RainBands[4].penalty = 6
    BY DEF RainBands
  <2>3. RainPenalty(r) = IF fits = {} THEN 12 ELSE RainBands[Min(fits)].penalty
    BY DEF RainPenalty, HeavyPenalty
  <2>4. \A i : i \in fits <=> i \in 1..4 /\ r < RainBands[i].below
    BY <2>1
  <2>5. fits # {} => Min(fits) \in fits /\ \A i \in fits : Min(fits) <= i
    <3>1. fits \in SUBSET Nat
      BY <2>1
    <3> HIDE DEF fits
    <3> QED  BY <3>1, LeastOf
  <2> HIDE DEF fits
  <2>6. CASE r >= 40
    <3>1. fits = {}
      BY <2>2, <2>4, <2>6
    <3> QED  BY <2>3, <2>6, <3>1
  <2>7. CASE r < 40
    <3>1. /\ 4 \in fits /\ (r < 1 <=> 1 \in fits)
          /\ (r < 5 <=> 2 \in fits) /\ (r < 15 <=> 3 \in fits)
      BY <2>2, <2>4, <2>7
    <3>2. Min(fits) \in 1..4 /\ Min(fits) \in fits /\ \A i \in fits : Min(fits) <= i
      BY <2>4, <2>5, <3>1
    <3>3. Min(fits) = IF r < 1 THEN 1 ELSE IF r < 5 THEN 2 ELSE IF r < 15 THEN 3 ELSE 4
      BY <3>1, <3>2
    <3> QED  BY <2>2, <2>3, <2>7, <3>1, <3>3
  <2> QED  BY <2>6, <2>7
<1> QED  BY <1>1

\* Both factors of what a leg counts for go up.
LEMMA ProductGoesUp ==
    ASSUME NEW m \in Nat, NEW n \in Nat, NEW p \in Nat, NEW q \in Nat, m <= n, p <= q
    PROVE  m * p \in Nat /\ n * q \in Nat /\ m * p <= n * q
<1>1. PICK c \in Nat : n = m + c
  <2>1. n - m \in Nat /\ n = m + (n - m)
    OBVIOUS
  <2> QED  BY <2>1
<1>2. PICK d \in Nat : q = p + d
  <2>1. q - p \in Nat /\ q = p + (q - p)
    OBVIOUS
  <2> QED  BY <2>1
<1>3. n * q = m * p + m * d + c * p + c * d
  BY <1>1, <1>2, SMTT(30)
<1>4. m * p \in Nat /\ m * d \in Nat /\ c * p \in Nat /\ c * d \in Nat
  BY SMTT(30)
<1> QED  BY <1>3, <1>4

\* What the rain on a leg costs.
LegCost(leg, rain) == ExposedMinutes(leg, rain) * RainPenalty(Peak(WetDuring(leg, rain)))

\* Wetter forecasts cost a leg no less.
LEMMA WetterLegCosts ==
    ASSUME NEW leg, leg.start \in Nat, leg.end \in Nat, leg.start <= leg.end,
           NEW dry \in Forecasts \ {NoForecast}, NEW wet \in Forecasts \ {NoForecast},
           Wetter(wet, dry)
    PROVE  /\ LegCost(leg, dry) \in Nat /\ LegCost(leg, wet) \in Nat
           /\ LegCost(leg, dry) <= LegCost(leg, wet)
<1> DEFINE c == Cardinality(WetDuring(leg, dry))
           d == Cardinality(WetDuring(leg, wet))
           p == Peak(WetDuring(leg, dry))
           q == Peak(WetDuring(leg, wet))
           m == leg.end - leg.start
<1>1. c \in Nat /\ d \in Nat /\ c <= d /\ p \in Nat /\ q \in Nat /\ p <= q /\ m \in Nat
  BY WetterLeg
<1>2. /\ ExposedMinutes(leg, dry) = Min({m, SlotLen * c})
      /\ ExposedMinutes(leg, wet) = Min({m, SlotLen * d})
  BY DEF ExposedMinutes
<1>3. LegCost(leg, dry) = ExposedMinutes(leg, dry) * RainPenalty(p)
  BY DEF LegCost
<1>4. LegCost(leg, wet) = ExposedMinutes(leg, wet) * RainPenalty(q)
  BY DEF LegCost
<1> HIDE DEF c, d, p, q, m
<1>5. SlotLen * c \in Nat /\ SlotLen * d \in Nat /\ SlotLen * c <= SlotLen * d
  BY <1>1, ScoringAssumption, ProductGoesUp
<1>6. ASSUME NEW n \in Nat
      PROVE  Min({m, n}) \in {m, n} /\ Min({m, n}) <= m /\ Min({m, n}) <= n
  BY <1>1, LeastOf
<1>7. /\ ExposedMinutes(leg, dry) \in Nat /\ ExposedMinutes(leg, wet) \in Nat
      /\ ExposedMinutes(leg, dry) <= ExposedMinutes(leg, wet)
  BY <1>1, <1>2, <1>5, <1>6
<1>8. RainPenalty(p) \in Nat /\ RainPenalty(q) \in Nat /\ RainPenalty(p) <= RainPenalty(q)
  BY <1>1, BandsGoUp
<1> QED  BY <1>3, <1>4, <1>7, <1>8, ProductGoesUp

\* A forecast is as wet as itself.
LEMMA WetterItself ==
    ASSUME NEW rain \in Forecasts \ {NoForecast}
    PROVE  Wetter(rain, rain)
BY AdviceAssumption DEF Wetter

ExposedLegs(itin) == {i \in Legs(itin) : itin.legs[i].mode \in Exposed}

\* RainCost is the sum over the exposed legs.
LEMMA RainCostSums ==
    ASSUME NEW itin \in Options, NEW rain \in Forecasts \ {NoForecast}
    PROVE  LET T == ExposedLegs(itin)
               a == [i \in T |-> LegCost(itin.legs[i], rain)]
           IN  /\ IsFiniteSet(T) /\ a \in [T -> Nat]
               /\ \E g : Sums(T, g, a) /\ RainCost(itin, rain) = g[T]
<1> DEFINE T == ExposedLegs(itin)
           cost(i) == LegCost(itin.legs[i], rain)
           a == [i \in T |-> cost(i)]
           Adds(g) == g = [s \in SUBSET T |-> IF s = {} THEN 0
                               ELSE cost(CHOOSE x \in s : TRUE)
                                        + g[s \ {CHOOSE x \in s : TRUE}]]
<1>1. T \in SUBSET Legs(itin) /\ IsFiniteSet(Legs(itin))
  BY AdviceAssumption DEF ExposedLegs
<1>2. IsFiniteSet(T)
  BY <1>1, FS_Subset
<1>3. \A i \in T : cost(i) \in Nat
  BY <1>1, AdviceAssumption, WetterItself, WetterLegCosts
<1>4. a \in [T -> Nat] /\ a \in [T -> Int]
  BY <1>3
<1>5. RainCost(itin, rain) = (CHOOSE g : Adds(g))[T]
  BY DEF RainCost, MapThenSumSet, MapThenFoldSet, LegCost, ExposedLegs
<1>6. ASSUME NEW g
      PROVE  Adds(g) <=> Sums(T, g, a)
  <2> DEFINE m(s) == IF s = {} THEN 0 ELSE cost(Pick(s)) + g[s \ {Pick(s)}]
             n(s) == IF s = {} THEN 0 ELSE a[Pick(s)] + g[s \ {Pick(s)}]
  <2>1. Adds(g) <=> g = [s \in SUBSET T |-> m(s)]
    BY DEF Pick
  <2>2. Sums(T, g, a) <=> g = [s \in SUBSET T |-> n(s)]
    BY DEF Sums
  <2>3. ASSUME NEW s \in SUBSET T, s # {}
        PROVE  a[Pick(s)] = cost(Pick(s))
    BY <2>3 DEF Pick
  <2> HIDE DEF cost, a
  <2>4. \A s \in SUBSET T : m(s) = n(s)
    BY <2>3
  <2> HIDE DEF Adds, m, n
  <2> QED  BY <2>1, <2>2, <2>4
<1> HIDE DEF T, cost, a, Adds
<1>7. \E g : Adds(g)
  BY <1>2, <1>4, <1>6, SumsExist
<1>8. Adds(CHOOSE g : Adds(g))
  BY <1>7
<1> QED  BY <1>2, <1>4, <1>5, <1>6, <1>8 DEF T, cost, a

\* Without rain the sum is nothing.
LEMMA NothingSums ==
    ASSUME NEW T, IsFiniteSet(T)
    PROVE  Sums(T, [s \in SUBSET T |-> 0], [i \in T |-> 0])
<1>1. \A s \in SUBSET T : s # {} => Pick(s) \in T /\ s \ {Pick(s)} \in SUBSET T
  BY DEF Pick
<1> QED  BY <1>1 DEF Sums

\* TransferCost is a number.
LEMMA TransferCostTyped ==
    ASSUME NEW itin \in Options
    PROVE  TransferCost(itin) \in Int
<1> DEFINE T == Transfers(itin)
           cost(i) == IF itin.legs[i].from = "hub" THEN 4 ELSE 10
           a == [i \in T |-> cost(i)]
           Adds(g) == g = [s \in SUBSET T |-> IF s = {} THEN 0
                               ELSE cost(CHOOSE x \in s : TRUE)
                                        + g[s \ {CHOOSE x \in s : TRUE}]]
<1>1. T \in SUBSET Legs(itin) /\ IsFiniteSet(Legs(itin))
  BY AdviceAssumption DEF Transfers
<1>2. IsFiniteSet(T)
  BY <1>1, FS_Subset
<1>3. a \in [T -> Int]
  OBVIOUS
<1>4. TransferCost(itin) = (CHOOSE g : Adds(g))[T]
  BY DEF TransferCost, MapThenSumSet, MapThenFoldSet
<1>5. ASSUME NEW g
      PROVE  Adds(g) <=> Sums(T, g, a)
  <2> DEFINE m(s) == IF s = {} THEN 0 ELSE cost(Pick(s)) + g[s \ {Pick(s)}]
             n(s) == IF s = {} THEN 0 ELSE a[Pick(s)] + g[s \ {Pick(s)}]
  <2>1. Adds(g) <=> g = [s \in SUBSET T |-> m(s)]
    BY DEF Pick
  <2>2. Sums(T, g, a) <=> g = [s \in SUBSET T |-> n(s)]
    BY DEF Sums
  <2>3. ASSUME NEW s \in SUBSET T, s # {}
        PROVE  a[Pick(s)] = cost(Pick(s))
    BY <2>3 DEF Pick
  <2> HIDE DEF cost, a
  <2>4. \A s \in SUBSET T : m(s) = n(s)
    BY <2>3
  <2> HIDE DEF Adds, m, n
  <2> QED  BY <2>1, <2>2, <2>4
<1> HIDE DEF T, cost, a, Adds
<1>6. \E g : Adds(g)
  BY <1>2, <1>3, <1>5, SumsExist
<1>7. Adds(CHOOSE g : Adds(g))
  BY <1>6
<1>8. \A x \in T : a[x] <= a[x]
  BY <1>3
<1>9. (CHOOSE g : Adds(g))[T] \in Int
  BY <1>2, <1>3, <1>5, <1>7, <1>8, SumsOrdered
<1> QED  BY <1>4, <1>9

\* More rain never makes a trip cheaper, and no forecast counts as dry, for any trip
\* and any forecasts with one slot for a time of day (score).
THEOREM WetterCostsMore == AdviceSpec => []RainOnlyCosts
<1>1. ASSUME NEW trip \in Options,
             NEW dry \in Forecasts \ {NoForecast}, NEW wet \in Forecasts \ {NoForecast},
             Wetter(wet, dry)
      PROVE  /\ RainCost(trip, dry) \in Int /\ RainCost(trip, wet) \in Int
             /\ 0 <= RainCost(trip, dry) /\ RainCost(trip, dry) <= RainCost(trip, wet)
  <2> DEFINE T == ExposedLegs(trip)
             a == [i \in T |-> LegCost(trip.legs[i], dry)]
             b == [i \in T |-> LegCost(trip.legs[i], wet)]
             z == [i \in T |-> 0]
             n == [s \in SUBSET T |-> 0]
  <2>1. /\ IsFiniteSet(T) /\ a \in [T -> Nat]
        /\ \E g : Sums(T, g, a) /\ RainCost(trip, dry) = g[T]
    BY RainCostSums
  <2>2. b \in [T -> Nat] /\ \E h : Sums(T, h, b) /\ RainCost(trip, wet) = h[T]
    BY RainCostSums
  <2>3. PICK g : Sums(T, g, a) /\ RainCost(trip, dry) = g[T]
    BY <2>1
  <2>4. PICK h : Sums(T, h, b) /\ RainCost(trip, wet) = h[T]
    BY <2>2
  <2>5. \A i \in T : a[i] <= b[i]
    BY <1>1, AdviceAssumption, WetterLegCosts DEF ExposedLegs
  <2>6. \A i \in T : z[i] <= a[i]
    BY <2>1
  <2>7. Sums(T, n, z) /\ n[T] = 0 /\ z \in [T -> Int]
    BY <2>1, NothingSums
  <2>8. a \in [T -> Int] /\ b \in [T -> Int]
    BY <2>1, <2>2
  <2> HIDE DEF T, a, b, z, n
  <2>9. g[T] \in Int /\ h[T] \in Int /\ g[T] <= h[T]
    BY <2>1, <2>3, <2>4, <2>5, <2>8, SumsOrdered
  <2>10. n[T] <= g[T]
    BY <2>1, <2>3, <2>6, <2>7, <2>8, SumsOrdered
  <2> QED  BY <2>3, <2>4, <2>7, <2>9, <2>10
<1>2. ASSUME NEW trip \in Options
      PROVE  \E rest \in Int :
                \A f : RainCost(trip, f) \in Int => Score(trip, f) = rest + RainCost(trip, f)
  <2> DEFINE rest == 2 * (trip.end - trip.start) + TransferCost(trip) + TransitBias(trip)
                        - FerryBonus(trip) - StationBonus(trip)
  <2>1. /\ trip.end - trip.start \in Int /\ TransferCost(trip) \in Int
        /\ TransitBias(trip) \in Int /\ FerryBonus(trip) \in Int /\ StationBonus(trip) \in Int
    BY AdviceAssumption, TransferCostTyped DEF TransitBias, FerryBonus, StationBonus
  <2>2. rest \in Int
    BY <2>1
  <2>3. \A f : RainCost(trip, f) \in Int => Score(trip, f) = rest + RainCost(trip, f)
    BY <2>1 DEF Score
  <2> QED  BY <2>2, <2>3
<1>3. RankInv => RainOnlyCosts
  <2> SUFFICES ASSUME RankInv, position = 1, forecast # NoForecast
               PROVE  /\ Score(candidates[1], NoForecast) <= Score(candidates[1], forecast)
                      /\ \A wetter \in Forecasts \ {NoForecast} :
                            Wetter(wetter, forecast)
                                => Score(candidates[1], forecast) <= Score(candidates[1], wetter)
    BY DEF RainOnlyCosts
  <2>1. candidates[1] \in Options /\ forecast \in Forecasts \ {NoForecast}
    BY DEF RankInv, TypeOK
  <2>2. PICK rest \in Int : \A f : RainCost(candidates[1], f) \in Int
                => Score(candidates[1], f) = rest + RainCost(candidates[1], f)
    BY <1>2, <2>1
  <2>3. RainCost(candidates[1], NoForecast) = 0
    BY DEF RainCost
  <2>4. RainCost(candidates[1], forecast) \in Int /\ 0 <= RainCost(candidates[1], forecast)
    BY <1>1, <2>1, WetterItself
  <2> QED  BY <1>1, <2>1, <2>2, <2>3, <2>4
<1> QED  BY <1>3, AdviceRanks, RankInvariant, PTL

=============================================================================
