-------------------------------- MODULE Advice --------------------------------
(***************************************************************************)
(* recommend of app/services/advice.py: the candidates are ranked by their *)
(* rain-aware cost (modules Ranking and Scoring), the first option is the  *)
(* recommendation, and the rain that is reported is that of the bike ride. *)
(***************************************************************************)
EXTENDS Scoring, Ranking

CONSTANTS NoAdvice   \* recommend has not returned

\* Ranking goes by the kinds and costs of Scoring.
ASSUME CostAssumption ==
    \A itin \in Options : /\ KindOf(itin) = Kind(itin)
                          /\ \A f \in Forecasts : Cost(itin, f) = Score(itin, f)

\* Legs follow each other, nobody travels for a day; Buienradar gives a rate for each
\* five minutes of the next two hours, so that no two slots have one time of day.
ASSUME AdviceAssumption ==
    /\ \A itin \in Options :
          /\ itin.start \in Nat /\ itin.end \in Nat /\ itin.end - itin.start < DayLen
          /\ IsFiniteSet(Legs(itin))
          /\ \A i \in Legs(itin) :
                LET leg == itin.legs[i]
                IN  /\ leg.start \in Nat /\ leg.end \in Nat
                    /\ itin.start <= leg.start /\ leg.start <= leg.end /\ leg.end <= itin.end
                    /\ {leg.from, leg.to} \subseteq Places
    /\ \A f \in Forecasts \ {NoForecast} :
          /\ IsFiniteSet(f)
          /\ \A slot \in f : /\ slot.time \in 0..(DayLen - 1) /\ slot.rate \in Nat
                             /\ \A other \in f : other.time = slot.time => other = slot

VARIABLE advice      \* what recommend returns

adviceVars == <<vars, advice>>

AdviceInit == Init /\ advice = NoAdvice

Rank == Next /\ UNCHANGED advice

\* The rain is reported for the bike ride if there is one.
SummaryOf == IF best[1] # 0 THEN candidates[best[1]] ELSE candidates[best[options[1]]]

\* ordered[0] is the recommendation.
Recommend == /\ Ranked /\ advice = NoAdvice
             /\ advice' = [recommendation |-> Kinds[options[1]],
                           rainExpected   |-> RainExpected(SummaryOf, forecast),
                           degraded       |-> forecast = NoForecast]
             /\ UNCHANGED vars

AdviceNext == Rank \/ Recommend

AdviceSpec == AdviceInit /\ [][AdviceNext]_adviceVars

-----------------------------------------------------------------------------

\* No ride is called dry, and no rider left without a warning, whose cost counts
\* rain: the summary of advice.py goes by the whole trip and scoring.py by the leg,
\* each with windows of its own, before, over and after midnight (recommend).
RainIsReported ==
    advice # NoAdvice /\ forecast # NoForecast =>
        \A i \in Legs(SummaryOf) :
            LET leg == SummaryOf.legs[i]
            IN  leg.mode \in Exposed /\ ExposedMinutes(leg, forecast) > 0
                    => advice.rainExpected = TRUE

\* More rain never makes a trip cheaper, and no forecast counts as dry: what gets
\* wetter cannot win for it (score).
RainOnlyCosts ==
    position = 1 /\ forecast # NoForecast =>
        LET trip == candidates[1]
        IN  /\ Score(trip, NoForecast) <= Score(trip, forecast)
            /\ \A wetter \in Forecasts \ {NoForecast} :
                  Wetter(wetter, forecast) => Score(trip, forecast) <= Score(trip, wetter)

\* What recommend returns goes by the winners, which no longer change then.
AdviceInv ==
    advice # NoAdvice => /\ Ranked
                         /\ advice.rainExpected = RainExpected(SummaryOf, forecast)
=============================================================================
