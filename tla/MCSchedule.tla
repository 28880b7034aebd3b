----------------------------- MODULE MCSchedule -----------------------------
(***************************************************************************)
(* Days of 24 minutes and hours of 12, so that a step of five minutes does *)
(* not divide the hour; trips leave on both sides of midnight.             *)
(***************************************************************************)
EXTENDS Schedule

CONSTANTS midnight, early, noon, late

MCDeparture == [a \in Trips |-> CASE a = midnight -> 0
                                  [] a = early    -> 3
                                  [] a = noon     -> 12
                                  [] a = late     -> 23]

MCRecurs == [a \in Trips |-> CASE a = midnight -> {2, 4}
                               [] a = early    -> {1, 2, 3}
                               [] a = noon     -> {1, 3}
                               [] a = late     -> {2}]
=============================================================================
