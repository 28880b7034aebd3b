------------------------------ MODULE MCPlanner ------------------------------
(***************************************************************************)
(* Small instances of Planner: trips of four kinds, calls of one unit.     *)
(***************************************************************************)
EXTENDS Planner

CONSTANTS r1, nothing

\* What the queries of a trip find, in the order of the planner's mode sets.
Trip(bike, transit, mixed, snaps) ==
    [direct |-> [m \in ModeSets |-> CASE m = "BICYCLE,FERRY" -> bike
                                      [] m = "TRANSIT,WALK"  -> transit
                                      [] OTHER               -> mixed],
     snaps  |-> snaps]

\* A trip with every kind, one that starts on a pedestrian deck, one that only
\* transit makes, and one that nothing makes.
Everything  == Trip({"bike"}, {"transit"}, {"bike_and_ride"}, TRUE)
Deck        == Trip({}, {"transit"}, {"transit"}, TRUE)
TransitOnly == Trip({}, {"transit"}, {}, FALSE)
NoWay       == Trip({}, {}, {}, FALSE)

AllTrips == {Everything, Deck, TransitOnly, NoWay}
=============================================================================
