---------------------------- MODULE NearestSearch ----------------------------
(***************************************************************************)
(* What bike_with_snapping of app/services/snap.py promises: the points    *)
(* around the endpoints are tried until the first of them, in the order    *)
(* they are listed, that has a bike route is found, none is left, or the   *)
(* time is over.  In which order and how often OTP is asked is left open.  *)
(***************************************************************************)
EXTENDS Integers

CONSTANTS
    Points,         \* where the ride may start or end instead
    Nearer(_, _),   \* the order in which the points are preferred
    NoBike,         \* no point has been found
    Deadline        \* snap_timeout_seconds

VARIABLES
    elapsed,        \* the time since the fallback began
    refused,        \* the points OTP has no bike route for, as far as asked
    ended,          \* has the fallback returned?
    result          \* the point that won

vars == <<elapsed, refused, ended, result>>

Init == /\ elapsed = 0
        /\ refused = {}
        /\ ended = FALSE
        /\ result = NoBike

Refuse == /\ ~ended
          /\ \E p \in Points : refused' = refused \cup {p}
          /\ UNCHANGED <<elapsed, ended, result>>

\* A point only wins when everything that is preferred to it was refused.
Find == /\ ~ended
        /\ \E p \in Points \ refused :
              /\ \A q \in Points : Nearer(q, p) => q \in refused
              /\ result' = p
        /\ ended' = TRUE
        /\ UNCHANGED <<elapsed, refused>>

\* "No bike option": every point was refused, or the time is over.
GiveUp == /\ ~ended
          /\ refused = Points \/ elapsed = Deadline
          /\ ended' = TRUE
          /\ UNCHANGED <<elapsed, refused, result>>

\* Time that is over ends the search.
Advance == /\ ~ended /\ elapsed < Deadline
           /\ elapsed' = elapsed + 1
           /\ UNCHANGED <<refused, ended, result>>

Next == Refuse \/ Find \/ GiveUp \/ Advance

Spec == Init /\ [][Next]_vars
=============================================================================
