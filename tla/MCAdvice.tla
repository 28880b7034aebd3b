------------------------------- MODULE MCAdvice -------------------------------
(***************************************************************************)
(* A small instance of Advice: a day of twelve minutes with a slot every   *)
(* other one, trips around midnight, forecasts of three slots around it.   *)
(***************************************************************************)
EXTENDS Advice

CONSTANTS noForecast, noAdvice

Leg(mode, start, end, from, to) ==
    [mode |-> mode, start |-> start, end |-> end, from |-> from, to |-> to]

Trip(legs) == [start |-> legs[1].start, end |-> legs[Len(legs)].end, legs |-> legs]

Ride     == Trip(<<Leg("BICYCLE", 9, 11, "away", "away"), Leg("WALK", 11, 14, "away", "away")>>)
SameRide == Trip(<<Leg("BICYCLE", 9, 14, "away", "away")>>)
Crossing == Trip(<<Leg("BICYCLE", 10, 11, "away", "away"), Leg("FERRY", 11, 13, "away", "away"),
                   Leg("BICYCLE", 13, 14, "away", "away")>>)
Metro    == Trip(<<Leg("WALK", 9, 10, "away", "hub"), Leg("SUBWAY", 10, 12, "hub", "away")>>)
TwoTrams == Trip(<<Leg("TRAM", 12, 14, "away", "hub"), Leg("TRAM", 14, 15, "hub", "away"),
                   Leg("TRAM", 15, 16, "unknown", "away")>>)
Mixed    == Trip(<<Leg("BICYCLE", 11, 13, "away", "hub"), Leg("TRAIN", 13, 14, "hub", "hub")>>)

MCItineraries == {Ride, SameRide, Crossing, Metro, TwoTrams, Mixed}

\* Dry, drizzle and more than the last band.
MCForecasts ==
    {noForecast} \cup
    {{[time |-> 10, rate |-> a], [time |-> 0, rate |-> b], [time |-> 2, rate |-> c]} :
        a \in {0, 3, 50}, b \in {0, 3, 50}, c \in {0, 50}}
=============================================================================
