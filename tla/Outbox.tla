------------------------------- MODULE Outbox -------------------------------
(***************************************************************************)
(* What the notifications outbox promises (app/models/notification.py and  *)
(* app/services/notifier.py), without sessions, locks or sweeps: a trip    *)
(* and a departure day is recorded at most once, an alert is only sent     *)
(* after it was recorded, and is only stamped delivered after the channel  *)
(* took it.  Sending may be repeated: delivery is at least once.           *)
(***************************************************************************)
EXTENDS FiniteSets

CONSTANT Keys     \* (trip alert, departure day): what an outbox row is about

VARIABLES
    row,          \* row[k]: is there a row, and does it carry delivered_at?
    logged,       \* the keys for which a row was ever committed
    accepted      \* the keys the channel has accepted

vars == <<row, logged, accepted>>

RowStatus == {"none", "recorded", "delivered"}

Init == /\ row = [k \in Keys |-> "none"]
        /\ logged = {}
        /\ accepted = {}

\* A sweep commits the row for k: the one time k is recorded.
Record(k) == /\ row[k] = "none"
             /\ k \notin logged
             /\ row' = [row EXCEPT ![k] = "recorded"]
             /\ logged' = logged \cup {k}
             /\ UNCHANGED accepted

\* The channel accepts the alert for k, for the first time or again.
Send(k) == /\ k \in logged
           /\ accepted' = accepted \cup {k}
           /\ UNCHANGED <<row, logged>>

\* The row is stamped; stamping it twice changes nothing.
Stamp(k) == /\ row[k] = "recorded"
            /\ k \in accepted
            /\ row' = [row EXCEPT ![k] = "delivered"]
            /\ UNCHANGED <<logged, accepted>>

\* Deleting a trip alert or an account drops its rows.
Purge(K) == /\ row' = [k \in Keys |-> IF k \in K THEN "none" ELSE row[k]]
            /\ UNCHANGED <<logged, accepted>>

Next == \/ \E k \in Keys : Record(k) \/ Send(k) \/ Stamp(k)
        \/ \E K \in SUBSET Keys : Purge(K)

Spec == Init /\ [][Next]_vars

\* What a delivered_at stamp and a row are worth to somebody auditing them.
Honest == /\ accepted \subseteq logged
          /\ \A k \in Keys : row[k] # "none" => k \in logged
          /\ \A k \in Keys : row[k] = "delivered" => k \in accepted
=============================================================================
