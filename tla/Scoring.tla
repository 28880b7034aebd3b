------------------------------- MODULE Scoring -------------------------------
(***************************************************************************)
(* What an itinerary costs, and what the rain does to that: scoring.py and *)
(* amsterdam.py of app/services, with the rain summary of advice.py.       *)
(* Moments are whole minutes, rates tenths of mm/h rounded down, costs     *)
(* half minutes.  OTP's duration is taken to be the time between start and *)
(* end.  A forecast is a set of slots or NoForecast.                       *)
(***************************************************************************)
EXTENDS Integers, Sequences, FiniteSetsExt

CONSTANTS
    DayLen,        \* minutes of a day
    SlotLen,       \* minutes from one forecast slot to the next
    NoForecast     \* the forecast None

ASSUME ScoringAssumption == DayLen \in Nat \ {0} /\ SlotLen \in Nat \ {0}

\* A leg runs from one place to another: near a hub, elsewhere, or not known.
Places == {"hub", "away", "unknown"}

Exposed == {"BICYCLE", "WALK"}

Legs(itin)  == DOMAIN itin.legs
Modes(itin) == {itin.legs[i].mode : i \in Legs(itin)}

\* classify_kind: a bike that rolls onto a ferry is still a bike.
Kind(itin) == LET cycles  == "BICYCLE" \in Modes(itin)
                  transit == Modes(itin) \ Exposed
              IN  CASE cycles /\ transit \subseteq {"FERRY"}     -> "bike"
                    [] cycles /\ ~ (transit \subseteq {"FERRY"}) -> "bike_and_ride"
                    [] ~ cycles /\ transit # {}                  -> "transit"
                    [] OTHER                                     -> "none"

-----------------------------------------------------------------------------
(* Rain: a slot has a time of day and a rate.                              *)

\* local_time
TimeOfDay(t) == t % DayLen

InTimeWindowUnwrapped(t, start, end) == start <= t /\ t <= end

\* A window whose start is after its end contains midnight.
InTimeWindow(t, start, end) == \/ start <= end /\ start <= t /\ t <= end
                               \/ start > end /\ (t >= start \/ t <= end)

\* The slots that fall into a stretch of time, of whatever day.
SlotsDuring(forecast, start, end) ==
    {s \in forecast : InTimeWindow(s.time, TimeOfDay(start), TimeOfDay(end))}

\* DEFAULT_RAIN_THRESHOLD_MM_H
IsWet(slot) == slot.rate >= 1

Peak(slots) == Max({s.rate : s \in slots} \cup {0})

\* Weights.rain_bands, and the heavy_penalty beyond them, per exposed minute.
RainBands == <<[below |-> 1,  penalty |-> 0], [below |-> 5,  penalty |-> 1],
               [below |-> 15, penalty |-> 3], [below |-> 40, penalty |-> 6]>>

HeavyPenalty == 12

RainPenaltyOpenEnded(rate) ==
    LET fits == {i \in DOMAIN RainBands : rate < RainBands[i].below}
    IN  IF fits = {} THEN 0 ELSE RainBands[Min(fits)].penalty

\* The first band that the rate is below.
RainPenalty(rate) ==
    LET fits == {i \in DOMAIN RainBands : rate < RainBands[i].below}
    IN  IF fits = {} THEN HeavyPenalty ELSE RainBands[Min(fits)].penalty

WetDuring(leg, forecast) == {s \in SlotsDuring(forecast, leg.start, leg.end) : IsWet(s)}

\* The minutes of an exposed leg that count as rain: one slot's for each wet slot,
\* and never more than the leg has.
ExposedMinutes(leg, forecast) ==
    Min({leg.end - leg.start, SlotLen * Cardinality(WetDuring(leg, forecast))})

RainCost(itin, forecast) ==
    LET cost(i) == ExposedMinutes(itin.legs[i], forecast)
                     * RainPenalty(Peak(WetDuring(itin.legs[i], forecast)))
    IN  IF forecast = NoForecast
        THEN 0
        ELSE MapThenSumSet(cost, {i \in Legs(itin) : itin.legs[i].mode \in Exposed})

-----------------------------------------------------------------------------
(* Local knowledge: hubs, ferries, and where the bike is left.             *)

\* Each boarding after the first, where its place is known.
Transfers(itin) == LET boardings == {i \in Legs(itin) : itin.legs[i].mode \notin Exposed}
                   IN  {i \in boardings : /\ \E j \in boardings : j < i
                                          /\ itin.legs[i].from # "unknown"}

TransferCost(itin) == LET cost(i) == IF itin.legs[i].from = "hub" THEN 4 ELSE 10
                      IN  MapThenSumSet(cost, Transfers(itin))

FerryBonus(itin) == IF "FERRY" \in Modes(itin) THEN 6 ELSE 0

\* bike_handoff_point: the end of the first leg that is cycled.
LeavesBikeAtHub(itin) ==
    \E i \in Legs(itin) :
        /\ itin.legs[i].mode = "BICYCLE" /\ itin.legs[i].to = "hub"
        /\ \A j \in Legs(itin) : itin.legs[j].mode = "BICYCLE" => i <= j

StationBonus(itin) == IF Kind(itin) = "bike_and_ride" /\ LeavesBikeAtHub(itin)
                      THEN 4 ELSE 0

TransitBias(itin) == IF Kind(itin) = "bike" THEN 0 ELSE 20

Score(itin, forecast) == 2 * (itin.end - itin.start) + RainCost(itin, forecast)
                            + TransferCost(itin) + TransitBias(itin)
                            - FerryBonus(itin) - StationBonus(itin)

-----------------------------------------------------------------------------
(* The rain summary of advice.py, over the whole itinerary.                *)

\* TRUE, FALSE, or "unknown" without a forecast.
RainExpected(itin, forecast) ==
    IF forecast = NoForecast
    THEN "unknown"
    ELSE \E s \in SlotsDuring(forecast, itin.start, itin.end) : IsWet(s)

\* A forecast that is at least as wet in each of its slots.
Wetter(wet, dry) == \A s \in dry : \E t \in wet : t.time = s.time /\ t.rate >= s.rate
=============================================================================
