------------------------------ MODULE SnapProofs ------------------------------
(***************************************************************************)
(* Whatever the rings, the deadline and the order of OTP's answers, the    *)
(* snapping fallback returns the first point in the listed order that was  *)
(* not refused: Snap implements NearestSearch.                             *)
(***************************************************************************)
EXTENDS Snap, TLAPS

\* A ring is an interval of offsets, and the number of rings a number.
LEMMA RingsAre ==
    /\ Len(Rings) \in Nat /\ Len(Rings) > 0
    /\ \A s \in Stages : /\ s \in Nat
                         /\ Ring(s) \subseteq Nat
                         /\ \A k \in Ring(s) : k > 0 /\ \A j \in 1..k : j \in Ring(s)
    /\ 1 \in Stages
<1>1. Len(Rings) \in Nat /\ Len(Rings) > 0
  BY SnapAssumption
<1>2. 1 \in Stages
  BY <1>1 DEF Stages
<1>3. ASSUME NEW s \in Stages
      PROVE  /\ s \in Nat
             /\ Ring(s) \subseteq Nat
             /\ \A k \in Ring(s) : k > 0 /\ \A j \in 1..k : j \in Ring(s)
  <2>1. s \in Nat /\ s >= 1 /\ s <= 2 * Len(Rings)
    BY <1>1 DEF Stages
  <2>2. PICK n \in Nat : Ring(s) = 1..n
    <3>1. CASE s <= Len(Rings)
      <4>1. Rings[s] \in Nat
        BY <3>1, <2>1, SnapAssumption
      <4> QED
        BY <4>1, <3>1 DEF Ring
    <3>2. CASE ~(s <= Len(Rings))
      <4>1. s - Len(Rings) \in 1..Len(Rings)
        BY <3>2, <2>1, <1>1
      <4>2. Rings[s - Len(Rings)] \in Nat
        BY <4>1, SnapAssumption
      <4> QED
        BY <4>2, <3>2 DEF Ring
    <3> QED
      BY <3>1, <3>2
  <2> QED
    BY <2>1, <2>2
<1> QED
  BY <1>1, <1>2, <1>3

\* A point is a stage and an offset of its ring.
LEMMA PointsAre ==
    /\ \A p \in Points : p[1] \in Stages /\ p[2] \in Ring(p[1]) /\ p = <<p[1], p[2]>>
    /\ \A s \in Stages : \A k \in Ring(s) : <<s, k>> \in Points
<1>1. ASSUME NEW p \in Points
      PROVE  p[1] \in Stages /\ p[2] \in Ring(p[1]) /\ p = <<p[1], p[2]>>
  <2>1. PICK s \in Stages : p \in {s} \X Ring(s)
    BY DEF Points
  <2> QED
    BY <2>1
<1>2. ASSUME NEW s \in Stages, NEW k \in Ring(s) PROVE <<s, k>> \in Points
  <2>1. <<s, k>> \in {s} \X Ring(s)
    OBVIOUS
  <2> QED
    BY <2>1 DEF Points
<1> QED
  BY <1>1, <1>2

-----------------------------------------------------------------------------

\* The fallback starts at the destination's first ring with nothing answered.
LEMMA SnapInit == Init => SnapInv
<1> SUFFICES ASSUME Init PROVE SnapInv
  OBVIOUS
<1> USE RingsAre, PointsAre, SnapAssumption
<1>1. TypeOK
  BY DEF Init, TypeOK, Asked, Answers
<1>2. BehindInv
  <2>1. ASSUME NEW p \in Points PROVE ~(p[1] < stage)
    BY DEF Init, Stages
  <2> QED
    BY <2>1 DEF Init, BehindInv
<1>3. RingInv
  BY DEF Init, RingInv, Asked
<1>4. result = NoBike
  BY DEF Init
<1> QED
  BY <1>1, <1>2, <1>3, <1>4 DEF SnapInv

\* An answered probe is counted as refused exactly if it shows no route.
LEMMA ProbeKeeps ==
    ASSUME SnapInv, NEW k \in Ring(stage), ProbeAnswers(k) PROVE SnapInv'
<1> USE RingsAre, PointsAre DEF SnapInv, TypeOK
<1>1. /\ pc = "probing" /\ probe[k] = "asked" /\ chosen = 0
      /\ UNCHANGED <<elapsed, pc, stage, chosen, result>>
      /\ <<stage, k>> \in Points
  BY DEF ProbeAnswers, RingInv, Searching
<1>2. TypeOK'
  BY <1>1 DEF ProbeAnswers, Refused, Answers
<1>3. BehindInv'
  BY <1>1 DEF ProbeAnswers, Refused, BehindInv
<1>4. RingInv'
  <2>1. CASE probe' = [probe EXCEPT ![k] = "bike"] /\ UNCHANGED refused
    BY <1>1, <2>1 DEF RingInv, Searching, Answers
  <2>2. CASE probe' = [probe EXCEPT ![k] = "none"] /\ Refused(k)
    BY <1>1, <2>2 DEF RingInv, Searching, Answers, Refused
  <2> QED
    BY <2>1, <2>2 DEF ProbeAnswers
<1> QED
  BY <1>1, <1>2, <1>3, <1>4 DEF Searching

\* The scan moves on to the next point with a route.
LEMMA ReplanKeeps ==
    ASSUME SnapInv, NEW k \in Ring(stage), Replan(k) PROVE SnapInv'
<1> USE RingsAre, PointsAre DEF SnapInv, TypeOK
<1>1. TypeOK'
  BY DEF Replan, FirstHit
<1>2. BehindInv'
  BY DEF Replan, BehindInv
<1>3. RingInv'
  BY DEF Replan, FirstHit, RingInv, Searching
<1> QED
  BY <1>1, <1>2, <1>3 DEF Replan, FirstHit, Searching

\* A point whose full plan has no route is behind the scan.
LEMMA MissingKeeps == ASSUME SnapInv, PlanMissing PROVE SnapInv'
<1> USE RingsAre, PointsAre DEF SnapInv, TypeOK
<1>1. chosen \in Ring(stage) /\ <<stage, chosen>> \in Points
  BY DEF PlanMissing
<1>2. TypeOK'
  BY <1>1 DEF PlanMissing, Refused
<1>3. BehindInv'
  BY DEF PlanMissing, Refused, BehindInv
<1>4. RingInv'
  BY <1>1 DEF PlanMissing, Refused, RingInv, Searching
<1> QED
  BY <1>2, <1>3, <1>4 DEF PlanMissing, Searching

\* A ring that is exhausted was refused as a whole.
LEMMA ExhaustedRing ==
    ASSUME SnapInv, Exhausted, NEW p \in Points, p[1] <= stage PROVE p \in refused
<1> USE RingsAre, PointsAre DEF SnapInv, TypeOK
<1>1. CASE p[1] < stage
  BY <1>1 DEF BehindInv
<1>2. CASE p[1] = stage
  BY <1>2 DEF Exhausted, RingInv, Searching
<1> QED
  BY <1>1, <1>2

\* The next ring starts with nothing answered.
LEMMA NextRingKeeps == ASSUME SnapInv, NextRing PROVE SnapInv'
<1> USE RingsAre, PointsAre DEF SnapInv, TypeOK
<1>1. TypeOK'
  BY DEF NextRing, Exhausted, Asked, Answers
<1>2. BehindInv'
  <2>1. ASSUME NEW p \in Points
        PROVE  /\ p[1] < stage + 1 => p \in refused
               /\ p[1] > stage + 1 => p \notin refused
    BY <2>1, ExhaustedRing DEF NextRing, BehindInv
  <2> QED
    BY <2>1 DEF NextRing, BehindInv
<1>3. RingInv'
  <2>1. /\ pc = "probing" /\ pc' = pc /\ stage' = stage + 1 /\ chosen' = 0
        /\ probe' = Asked(stage') /\ refused' = refused
        /\ stage' \in Stages
    BY DEF NextRing, Exhausted
  <2>2. ASSUME NEW k \in Ring(stage') PROVE <<stage', k>> \notin refused
    BY <2>1 DEF BehindInv
  <2> QED
    BY <2>1, <2>2 DEF RingInv, Searching, Asked
<1> QED
  BY <1>1, <1>2, <1>3 DEF NextRing, Searching

\* Every step of the fallback keeps the invariant.
LEMMA SnapNext == ASSUME SnapInv, Next PROVE SnapInv'
<1>1. CASE \E k \in Ring(stage) : ProbeAnswers(k) \/ Replan(k)
  BY <1>1, ProbeKeeps, ReplanKeeps
<1>2. CASE PlanMissing
  BY <1>2, MissingKeeps
<1>3. CASE NextRing
  BY <1>3, NextRingKeeps
<1>4. CASE PlanFound
  <2>1. <<stage, chosen>> \in Points
    BY <1>4, PointsAre DEF PlanFound, SnapInv, TypeOK
  <2> QED
    BY <1>4, <2>1 DEF PlanFound, SnapInv, TypeOK, BehindInv, RingInv, Searching
<1>5. CASE NothingBikeable \/ Expire \/ QueryBreaks
  BY <1>5
  DEF NothingBikeable, Expire, QueryBreaks, SnapInv, TypeOK, BehindInv, RingInv,
      Searching
<1>6. CASE Advance
  BY <1>6, SnapAssumption
  DEF Advance, SnapInv, TypeOK, BehindInv, RingInv, Searching
<1> QED
  BY <1>1, <1>2, <1>3, <1>4, <1>5, <1>6 DEF Next

\* What is refused, scanned and awaited agree in every reachable state of the
\* fallback (bike_with_snapping, _snap_one_endpoint).
THEOREM SnapInvariant == Spec => []SnapInv
<1>1. SnapInv /\ UNCHANGED vars => SnapInv'
  BY DEF SnapInv, vars, TypeOK, BehindInv, RingInv, Searching
<1>2. SnapInv /\ [Next]_vars => SnapInv'
  BY <1>1, SnapNext
<1> QED
  BY <1>2, SnapInit, PTL DEF Spec

-----------------------------------------------------------------------------

\* Each step of the fallback is a step of the abstract search or none at all.
LEMMA StepRefines == ASSUME SnapInv, Next PROVE [Search!Next]_(Search!vars)
<1> USE RingsAre, PointsAre DEF SnapInv, TypeOK, Search!vars
<1>1. CASE \E k \in Ring(stage) : ProbeAnswers(k)
  <2>1. PICK k \in Ring(stage) : ProbeAnswers(k)
    BY <1>1
  <2>2. <<stage, k>> \in Points
    OBVIOUS
  <2> QED
    BY <2>1, <2>2 DEF ProbeAnswers, Refused, Search!Next, Search!Refuse
<1>2. CASE PlanMissing
  <2>1. <<stage, chosen>> \in Points
    BY <1>2 DEF PlanMissing
  <2> QED
    BY <1>2, <2>1 DEF PlanMissing, Refused, Search!Next, Search!Refuse
<1>3. CASE PlanFound
  <2> DEFINE p == <<stage, chosen>>
  <2>1. p \in Points /\ p \notin refused
    BY <1>3 DEF PlanFound, RingInv, Searching
  <2>2. ASSUME NEW q \in Points, Nearer(q, p) PROVE q \in refused
    <3>1. CASE q[1] < stage
      BY <3>1 DEF BehindInv
    <3>2. CASE q[1] = stage /\ q[2] < chosen
      <4>1. probe[q[2]] \in {"bike", "none"}
        BY <3>2, <1>3 DEF PlanFound, RingInv, Searching, Answers
      <4> QED
        BY <4>1, <3>2, <1>3 DEF PlanFound, RingInv, Searching
    <3> QED
      BY <3>1, <3>2, <2>2 DEF Nearer
  <2> QED
    BY <1>3, <2>1, <2>2 DEF PlanFound, Search!Next, Search!Find
<1>4. CASE NothingBikeable
  <2>1. ASSUME NEW p \in Points PROVE p[1] <= stage
    BY <1>4 DEF NothingBikeable, Stages
  <2>2. refused = Points
    BY <1>4, <2>1, ExhaustedRing DEF NothingBikeable
  <2> QED
    BY <1>4, <2>2
    DEF NothingBikeable, Exhausted, Search!Next, Search!GiveUp
<1>5. CASE Expire
  BY <1>5 DEF Expire, Searching, Search!Next, Search!GiveUp
<1>6. CASE Advance
  BY <1>6 DEF Advance, Searching, Search!Next, Search!Advance
<1>7. CASE NextRing \/ QueryBreaks \/ \E k \in Ring(stage) : Replan(k)
  BY <1>7 DEF NextRing, Exhausted, QueryBreaks, Replan, FirstHit, Searching
<1> QED
  BY <1>1, <1>2, <1>3, <1>4, <1>5, <1>6, <1>7 DEF Next

\* The ring scan, with its concurrent probes, second plans and deadline, returns
\* the first point in the listed order that was not refused, or gives up only
\* when all were or the time is over (bike_with_snapping).
THEOREM SnapImplementsSearch == Spec => ImplementsSearch
<1>1. Init => Search!Init
  BY DEF Init, Search!Init
<1>2. SnapInv /\ [Next]_vars => [Search!Next]_(Search!vars)
  <2>1. UNCHANGED vars => UNCHANGED Search!vars
    BY DEF vars, Search!vars
  <2> QED
    BY <2>1, StepRefines
<1> QED
  BY <1>1, <1>2, SnapInvariant, PTL DEF Spec, ImplementsSearch, Search!Spec
=============================================================================
