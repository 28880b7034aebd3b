------------------------------- MODULE Ranking -------------------------------
(***************************************************************************)
(* rank of app/services/scoring.py: a loop over the candidates that keeps  *)
(* the cheapest of each kind, among those that leave soon enough after the *)
(* first of their kind, and then puts the winners in order.  What a        *)
(* candidate costs is a parameter.                                         *)
(***************************************************************************)
EXTENDS Integers, Sequences, FiniteSetsExt

CONSTANTS
    Options,       \* the itineraries that may be candidates
    Forecasts,     \* the forecasts there may be
    KindOf(_),     \* the kind of a candidate
    Cost(_, _),    \* its cost under a forecast, in half minutes
    MaxWait,       \* max_depart_wait_min
    MaxCandidates  \* bound: the most candidates

\* OptionKind, in alphabetical order.
Kinds == <<"bike", "bike_and_ride", "transit">>

ASSUME RankingAssumption ==
    /\ \A o \in Options : /\ KindOf(o) \in {Kinds[i] : i \in DOMAIN Kinds}
                          /\ o.start \in Nat /\ o.end \in Nat
                          /\ \A f \in Forecasts : Cost(o, f) \in Int
    /\ MaxWait \in Nat
    /\ MaxCandidates \in Nat

VARIABLES
    candidates,
    forecast,
    position,      \* the candidate the loop has got to
    best,          \* best[k]: the candidate kept for the k-th kind, or 0
    options        \* the winners in order, once the loop is over

vars == <<candidates, forecast, position, best, options>>

Init == /\ \E n \in 1..MaxCandidates : candidates \in [1..n -> Options]
        /\ forecast \in Forecasts
        /\ position = 1
        /\ best = [k \in DOMAIN Kinds |-> 0]
        /\ options = <<>>

-----------------------------------------------------------------------------

OfKind(k) == {i \in DOMAIN candidates : KindOf(candidates[i]) = Kinds[k]}

EarliestOfAll(k) == Min({candidates[i].start : i \in DOMAIN candidates})

\* When the first candidate of a kind leaves.
Earliest(k) == Min({candidates[i].start : i \in OfKind(k)})

Wait(k, i) == candidates[i].start - Earliest(k)

\* depart_delay_factor: a minute of waiting costs as much as one of riding.
Price(k, i) == Cost(candidates[i], forecast) + 2 * Wait(k, i)

CheaperOrEqual(k, i) == best[k] # 0 => Price(k, i) <= Price(k, best[k])

\* A tie leaves the kept candidate where it is.
Cheaper(k, i) == best[k] # 0 => Price(k, i) < Price(k, best[k])

Keep(k) == /\ Wait(k, position) <= MaxWait
           /\ Cheaper(k, position)
           /\ best' = [best EXCEPT ![k] = position]

\* It leaves too late, or costs as much as the one that is kept.
Pass(k) == /\ Wait(k, position) > MaxWait \/ ~ Cheaper(k, position)
           /\ UNCHANGED best

Consider == /\ position \in DOMAIN candidates
            /\ \E k \in DOMAIN Kinds : position \in OfKind(k) /\ (Keep(k) \/ Pass(k))
            /\ position' = position + 1
            /\ UNCHANGED <<candidates, forecast, options>>

Winners == {k \in DOMAIN Kinds : best[k] # 0}

Length(i) == candidates[i].end - candidates[i].start

ShorterFirst(j, k) ==
    LET p == Price(j, best[j])
        q == Price(k, best[k])
        m == Length(best[j])
        n == Length(best[k])
    IN  m < n \/ (m = n /\ p < q) \/ (p = q /\ m = n /\ j < k)

\* The sort key: cost, duration, name of the kind.
Before(j, k) ==
    LET p == Price(j, best[j])
        q == Price(k, best[k])
        m == Length(best[j])
        n == Length(best[k])
    IN  p < q \/ (p = q /\ m < n) \/ (p = q /\ m = n /\ j < k)

\* How many winners come before this one.
Place(k) == Cardinality({j \in Winners : Before(j, k)})

\* No two winners have the same key, so each has a place of its own.
InKeyOrder == [n \in 1..Cardinality(Winners) |-> CHOOSE k \in Winners : Place(k) = n - 1]

Order == /\ position \notin DOMAIN candidates
         /\ options = <<>>
         /\ options' = InKeyOrder
         /\ UNCHANGED <<candidates, forecast, position, best>>

Next == Consider \/ Order

Spec == Init /\ [][Next]_vars

-----------------------------------------------------------------------------

Ranked == options # <<>>

LoopEnds == position \notin DOMAIN candidates

\* Every kind that was offered keeps a candidate, whatever leaves when, so that
\* there is always a first option to recommend (rank; recommend's ordered[0]).
EveryKindStays ==
    LoopEnds => \A k \in DOMAIN Kinds : OfKind(k) # {} => best[k] \in OfKind(k)

\* Each kept candidate leaves soon enough, none that does is cheaper, and of
\* those that cost the same it was the first (rank).
FirstCheapest ==
    LoopEnds =>
        \A k \in Winners :
            /\ best[k] \in OfKind(k) /\ Wait(k, best[k]) <= MaxWait
            /\ \A i \in OfKind(k) : Wait(k, i) <= MaxWait
                   => \/ Price(k, best[k]) < Price(k, i)
                      \/ Price(k, best[k]) = Price(k, i) /\ best[k] <= i

\* The winners come out once each, none cheaper than one before it, and on a tie
\* none shorter: the first option is the recommendation (rank's sort).
InOrder ==
    Ranked =>
        /\ {options[i] : i \in DOMAIN options} = Winners
        /\ Len(options) = Cardinality(Winners)
        /\ \A i, j \in DOMAIN options : i < j =>
              LET p == Price(options[i], best[options[i]])
                  q == Price(options[j], best[options[j]])
              IN  p < q \/ (p = q /\ Length(best[options[i]]) <= Length(best[options[j]]))

-----------------------------------------------------------------------------
(* What the loop preserves.                                                *)

TypeOK == /\ \E n \in 1..MaxCandidates : candidates \in [1..n -> Options]
          /\ forecast \in Forecasts
          /\ position \in Nat \ {0}
          /\ best \in [DOMAIN Kinds -> Nat]

\* The candidate kept is the first of the cheapest that were considered.
LoopInv ==
    \A k \in DOMAIN Kinds :
        /\ best[k] # 0 => /\ best[k] \in OfKind(k) /\ best[k] < position
                          /\ Wait(k, best[k]) <= MaxWait
        /\ \A i \in OfKind(k) : i < position /\ Wait(k, i) <= MaxWait =>
              /\ best[k] # 0
              /\ \/ Price(k, best[k]) < Price(k, i)
                 \/ Price(k, best[k]) = Price(k, i) /\ best[k] <= i

\* There are options once the loop is over, and they are its winners.
OrderInv == Ranked => LoopEnds /\ options = InKeyOrder

RankInv == TypeOK /\ LoopInv /\ OrderInv
=============================================================================
