---------------------------- MODULE MCTripAlerts ----------------------------
(***************************************************************************)
(* A small instance of TripAlerts: two people and one address in two       *)
(* spellings, one place in two spellings, another one, a made-up one and   *)
(* coordinates.                                                            *)
(***************************************************************************)
EXTENDS TripAlerts, TLC

CONSTANTS r1, r2, ann, bob, nobody, noValue

Lower(s) == CASE s = "Ann@x"  -> "ann@x"
              [] s = "Dam"    -> "dam"
              [] OTHER        -> s

PeopleRequests == Permutations(People) \cup Permutations(Requests)

MCTrips == {<<"dam", "oost">>, <<"Dam", "52,4">>, <<"nowhere", "west">>}
=============================================================================
