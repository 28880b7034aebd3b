--------------------------------- MODULE Snap ---------------------------------
(***************************************************************************)
(* bike_with_snapping of app/services/snap.py: one run of the fallback for *)
(* an endpoint on a pedestrian deck.  The rings around the destination and *)
(* then those around the origin are probed one after the other, the points *)
(* of one ring all at once; a point whose probe shows a bike route is      *)
(* planned again in full.  Each answer of OTP is a step of its own.        *)
(***************************************************************************)
EXTENDS Integers, Sequences

CONSTANTS
    Rings,          \* _SNAP_RINGS: how many offsets each ring has
    NoBike,         \* the answer None
    Deadline        \* snap_timeout_seconds

ASSUME SnapAssumption == /\ Rings \in Seq(Nat)
                         /\ Rings # <<>>
                         /\ Deadline \in Nat

\* One stage per ring, the destination's before the origin's.
Stages == 1..(2 * Len(Rings))

Ring(s) == 1..(IF s <= Len(Rings) THEN Rings[s] ELSE Rings[s - Len(Rings)])

\* The point of stage s under the ring's k-th offset.
Points == UNION {{s} \X Ring(s) : s \in Stages}

Nearer(p, q) == p[1] < q[1] \/ (p[1] = q[1] /\ p[2] < q[2])

ASSUME NoBikeAssumption == NoBike \notin Points

VARIABLES
    elapsed,        \* the time since the call
    pc,             \* what bike_with_snapping awaits
    stage,          \* the ring it has got to
    probe,          \* probe[k]: the answer to the ring's k-th slim query
    chosen,         \* the offset that is planned in full
    result,         \* the point whose full plan is returned
    refused         \* history: the points OTP answered without a bike route

vars == <<elapsed, pc, stage, probe, chosen, result, refused>>

\* A failed query (OTPError) is an answer without a bike route.
Answers == {"asked", "bike", "none"}

TypeOK == /\ elapsed \in 0..Deadline
          /\ pc \in {"probing", "planning", "returned", "raised"}
          /\ stage \in Stages
          /\ probe \in [Ring(stage) -> Answers]
          /\ chosen \in Nat
          /\ pc = "planning" => chosen \in Ring(stage)
          /\ result \in Points \cup {NoBike}
          /\ refused \in SUBSET Points

Asked(s) == [k \in Ring(s) |-> "asked"]

Init == /\ elapsed = 0
        /\ pc = "probing"
        /\ stage = 1
        /\ probe = Asked(1)
        /\ chosen = 0
        /\ result = NoBike
        /\ refused = {}

-----------------------------------------------------------------------------

Searching == pc \in {"probing", "planning"}

Refused(k) == refused' = refused \cup {<<stage, k>>}

\* One slim query of the ring is answered, in whatever order OTP answers.
ProbeAnswers(k) == /\ pc = "probing"
                   /\ probe[k] = "asked"
                   /\ \/ /\ probe' = [probe EXCEPT ![k] = "bike"]
                         /\ UNCHANGED refused
                      \/ /\ probe' = [probe EXCEPT ![k] = "none"]
                         /\ Refused(k)
                   /\ UNCHANGED <<elapsed, pc, stage, chosen, result>>

FirstAnswered(k) == pc = "probing" /\ probe[k] = "bike"

\* gather returns when all are answered, in the ring's order; a point that was
\* passed over or whose full plan failed is behind the scan for good.
FirstHit(k) == /\ pc = "probing"
               /\ \A j \in Ring(stage) : probe[j] # "asked"
               /\ probe[k] = "bike" /\ k > chosen
               /\ \A j \in Ring(stage) : probe[j] = "bike" /\ j > chosen => k <= j

Replan(k) == /\ FirstHit(k)
             /\ pc' = "planning"
             /\ chosen' = k
             /\ UNCHANGED <<elapsed, stage, probe, result, refused>>

\* The full plan has a bike route and is returned.
PlanFound == /\ pc = "planning"
             /\ result' = <<stage, chosen>>
             /\ pc' = "returned"
             /\ UNCHANGED <<elapsed, stage, probe, chosen, refused>>

\* The full plan has none after all, or fails: the scan goes on.
PlanMissing == /\ pc = "planning"
               /\ Refused(chosen)
               /\ pc' = "probing"
               /\ UNCHANGED <<elapsed, stage, probe, chosen, result>>

ExhaustedEarly == /\ pc = "probing"
                  /\ \A j \in Ring(stage) :
                        probe[j] = "none" \/ (probe[j] = "bike" /\ chosen > 0)

\* Nothing in this ring, or nothing that survived its full plan.
Exhausted == /\ pc = "probing"
             /\ \A j \in Ring(stage) :
                   probe[j] = "none" \/ (probe[j] = "bike" /\ j <= chosen)

NextRing == /\ Exhausted /\ stage + 1 \in Stages
            /\ stage' = stage + 1
            /\ probe' = Asked(stage + 1)
            /\ chosen' = 0
            /\ UNCHANGED <<elapsed, pc, result, refused>>

\* Both endpoints were tried in vain.
NothingBikeable == /\ Exhausted /\ stage + 1 \notin Stages
                   /\ pc' = "returned"
                   /\ UNCHANGED <<elapsed, stage, probe, chosen, result, refused>>

ExpireNever == FALSE /\ UNCHANGED vars

\* asyncio.timeout cancels whatever is under way, a query or a found point that
\* was about to be returned.
Expire == /\ Searching /\ elapsed = Deadline
          /\ pc' = "returned"
          /\ UNCHANGED <<elapsed, stage, probe, chosen, result, refused>>

\* An answer that is no OTPError but an exception of another kind leaves gather,
\* and the fallback, at once.
QueryBreaks == /\ Searching
               /\ pc' = "raised"
               /\ UNCHANGED <<elapsed, stage, probe, chosen, result, refused>>

Advance == /\ Searching /\ elapsed < Deadline
           /\ elapsed' = elapsed + 1
           /\ UNCHANGED <<pc, stage, probe, chosen, result, refused>>

Next == \/ \E k \in Ring(stage) : ProbeAnswers(k) \/ Replan(k)
        \/ PlanFound \/ PlanMissing \/ NextRing \/ NothingBikeable
        \/ QueryBreaks \/ Expire \/ Advance

Spec == Init /\ [][Next]_vars

\* Time passes and the timer of asyncio.timeout fires; nothing is asked of OTP.
FairSpec == Spec /\ WF_vars(Advance) /\ WF_vars(Expire)

-----------------------------------------------------------------------------

Search == INSTANCE NearestSearch WITH ended <- pc = "returned"

\* However the answers come in, the point that wins is the first in the listed
\* order that was not refused, and "no bike" means that all were refused or that
\* the deadline has passed (bike_with_snapping, _snap_one_endpoint).
ImplementsSearch == Search!Spec

\* Whatever OTP does or fails to do, the request is held up no longer than the
\* deadline (asyncio.timeout in bike_with_snapping).
Returns == <>(~ Searching)

-----------------------------------------------------------------------------
(* What every step preserves.                                              *)

\* All earlier rings were refused as a whole, of the later ones nothing is known.
BehindInv == \A p \in Points : /\ p[1] < stage => p \in refused
                               /\ p[1] > stage => p \notin refused

\* In the present ring, a point without a bike route or behind the scan was
\* refused, and no point was that is not.
RingInv ==
    Searching =>
        /\ \A k \in Ring(stage) :
              <<stage, k>> \in refused <=>
                  \/ probe[k] = "none"
                  \/ probe[k] = "bike" /\ (k < chosen \/ (k = chosen /\ pc = "probing"))
        /\ pc = "planning" => probe[chosen] = "bike"
        /\ chosen > 0 => \A k \in Ring(stage) : probe[k] # "asked"

SnapInv == TypeOK /\ BehindInv /\ RingInv /\ (Searching => result = NoBike)
=============================================================================
