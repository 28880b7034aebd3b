----------------------------- MODULE TripAlerts -----------------------------
(***************************************************************************)
(* The API process: registration, login, the trip-alert endpoints of       *)
(* app/api/trip_alerts.py and the geocoding of /v1/plan and /v1/advice,    *)
(* over one database and one name cache.  A person sends requests with the *)
(* tokens that this person was issued.                                     *)
(***************************************************************************)
EXTENDS Accounts, Geocoder

CONSTANTS
    Trips,         \* the pairs of ends a client may ask for
    MaxAlerts      \* bound: the alerts that are ever created

ASSUME TripAlertsAssumption == /\ Callers = Requests
                               /\ Trips \subseteq Values \X Values
                               /\ MaxAlerts \in Nat

VARIABLES
    alerts,        \* the trip_alerts rows, as far as who owns which
    lastAlert      \* the last id their sequence has given out

vars == <<accounts, geocoder, alerts, lastAlert>>

Alert == [id : Nat, user : Nat]

Stages == {"idle", "hashing", "inserted", "finding", "verifying", "authenticating",
           "resolving", "listing", "selecting", "deleting", "planning"}

Init == /\ AccountsInit
        /\ GeocoderInit
        /\ alerts = {}
        /\ lastAlert = 0

-----------------------------------------------------------------------------

Creating == {r \in Requests : At(r, "resolving") \/ req[r].then = "resolving"}

SetTrip(r, trip) == lookup' = [lookup EXCEPT ![r] = [origin |-> Ask(trip[1]),
                                                     destination |-> Ask(trip[2])]]

DropTrip(r) == lookup' = [lookup EXCEPT ![r] = [e \in Ends |-> NoLookup]]

\* A call of an endpoint that requires a token; what it does comes then.
Call(r, t, then, alert) ==
    /\ Begin(r, [NoRequest EXCEPT !.stage = "authenticating", !.then = then,
                                  !.who = t.holder, !.token = t, !.alert = alert])
    /\ UNCHANGED <<users, lastUser, tokens, cache, alerts, lastAlert>>

CallCreate(r, t) == /\ lastAlert + Cardinality(Creating) < MaxAlerts
                    /\ Call(r, t, "resolving", 0)
                    /\ \E trip \in Trips : SetTrip(r, trip)

CallList(r, t) == Call(r, t, "listing", 0) /\ UNCHANGED lookup

CallDelete(r, t) == /\ \E a \in 1..MaxAlerts : Call(r, t, "selecting", a)
                    /\ UNCHANGED lookup

\* GET /v1/plan and /v1/advice ask for both ends at once and need no token.
CallPlan(r) == /\ Begin(r, [NoRequest EXCEPT !.stage = "planning"])
               /\ \E trip \in Trips : SetTrip(r, trip)
               /\ UNCHANGED <<users, lastUser, tokens, cache, alerts, lastAlert>>

\* create_trip_alert resolves one end after the other; plan and advice gather.
Geocode(r) == /\ \/ At(r, "planning") /\ LookupStep(r)
                 \/ /\ At(r, "resolving")
                    /\ \/ Resolve(r, "origin") \/ Found(r, "origin")
                       \/ NotFound(r, "origin")
                       \/ /\ Resolved(r, "origin")
                          /\ \/ Resolve(r, "destination") \/ Found(r, "destination")
                             \/ NotFound(r, "destination")
              /\ UNCHANGED <<accounts, alerts, lastAlert>>

\* One end has failed: 400 or 502, and the handler of create is left; that of
\* plan has been left then, too, but the sibling's lookup runs to its end.
GiveUp(r) == /\ \/ At(r, "resolving") /\ \E e \in Ends : lookup[r][e].status = "failed"
                \/ At(r, "planning") /\ Settled(r)
             /\ End(r)
             /\ DropTrip(r)
             /\ UNCHANGED <<users, lastUser, tokens, cache, alerts, lastAlert>>

Owner(r) == req[r].account.id

OwnerWasLoaded(r) == TRUE

\* The foreign key: is the account still there?
OwnerExists(r) == \E u \in users : u.id = Owner(r)

\* The INSERT and the commit.  The account may have gone during the geocoding:
\* the foreign key refuses the row, which is a 500.
StoreAlert(r) ==
    /\ At(r, "resolving") /\ \A e \in Ends : Resolved(r, e)
    /\ \/ /\ OwnerExists(r)
          /\ alerts' = alerts \cup {[id |-> lastAlert + 1, user |-> Owner(r)]}
          /\ lastAlert' = lastAlert + 1
       \/ ~ OwnerExists(r) /\ UNCHANGED <<alerts, lastAlert>>
    /\ End(r)
    /\ DropTrip(r)
    /\ UNCHANGED <<users, lastUser, tokens, cache>>

\* The SELECT by owner; nothing is left behind.
ListAlerts(r) == /\ At(r, "listing")
                 /\ End(r)
                 /\ UNCHANGED <<users, lastUser, tokens, geocoder, alerts, lastAlert>>

AnyRow(r) == {x \in alerts : x.id = req[r].alert}

\* The row a delete may touch: by id and by owner.
OwnRow(r) == {x \in alerts : x.id = req[r].alert /\ x.user = Owner(r)}

\* No such row, or somebody else's: 404.
FindAlert(r) == /\ At(r, "selecting")
                /\ \/ OwnRow(r) # {} /\ Goto(r, "deleting")
                   \/ OwnRow(r) = {} /\ End(r)
                /\ UNCHANGED <<users, lastUser, tokens, geocoder, alerts, lastAlert>>

\* DELETE by primary key, and commit.  If the row went meanwhile, it matches none,
\* which is a warning and a 204.
RemoveAlert(r) == /\ At(r, "deleting")
                  /\ alerts' = {x \in alerts : x.id # req[r].alert}
                  /\ End(r)
                  /\ UNCHANGED <<users, lastUser, tokens, geocoder, lastAlert>>

Step(r) == \/ AccountStep(r) /\ UNCHANGED <<geocoder, alerts, lastAlert>>
           \/ Geocode(r) \/ GiveUp(r) \/ StoreAlert(r)
           \/ ListAlerts(r) \/ FindAlert(r) \/ RemoveAlert(r)

\* A statement fails: the session rolls back and the response is a 500.
Fail(r) == /\ ~ At(r, "idle") /\ ~ At(r, "planning")
           /\ End(r)
           /\ DropTrip(r)
           /\ UNCHANGED <<users, lastUser, tokens, cache, alerts, lastAlert>>

\* The process dies and starts again: what was not committed is gone, and so is
\* the name cache.
Restart == /\ req' = [r \in Requests |-> NoRequest]
           /\ cache' = <<>>
           /\ lookup' = [r \in Callers |-> [e \in Ends |-> NoLookup]]
           /\ UNCHANGED <<users, lastUser, tokens, alerts, lastAlert>>

\* An account is deleted in the database, and its alerts with it.
DeleteAccount(u) == /\ users' = users \ {u}
                    /\ alerts' = {x \in alerts : x.user # u.id}
                    /\ UNCHANGED <<lastUser, tokens, req, geocoder, lastAlert>>

Arrive(r) == \/ AccountRequest(r) /\ UNCHANGED <<geocoder, alerts, lastAlert>>
             \/ \E t \in tokens : CallCreate(r, t) \/ CallList(r, t) \/ CallDelete(r, t)
             \/ CallPlan(r)

Next == \/ \E r \in Requests : Arrive(r) \/ Step(r) \/ Fail(r)
        \/ \E u \in users : DeleteAccount(u)
        \/ Restart
        \/ \E t \in tokens : Expire(t) /\ UNCHANGED <<geocoder, alerts, lastAlert>>

Spec == Init /\ [][Next]_vars

-----------------------------------------------------------------------------

\* Whoever gets past get_current_user is the person who registered the account,
\* with the password this person gave: also when the account was deleted since
\* and somebody else has registered its address.
OwnAccountOnly ==
    \A r \in Requests : req[r].token # Nobody /\ req[r].account # Nobody
                            => req[r].account.owner = req[r].who

\* One account per address, however it is written and whoever else is registering
\* it at the same time (register).
OneAccount == \A u, v \in users : Canonical(u.email) = Canonical(v.email) => u = v

\* An alert never outlives its account, nor is it created for one that is gone.
NoOrphans == \A x \in alerts : \E u \in users : u.id = x.user

\* A step takes an account away altogether or not at all, and an alert only with its
\* account or by a request of its owner.
OwnerRemoves ==
    /\ \A u \in users : u \in users' \/ \A v \in users' : v.id # u.id
    /\ \A x \in alerts \ alerts' :
          \/ \A u \in users' : u.id # x.user
          \/ \E r \in Requests, u \in users :
                /\ At(r, "deleting") /\ u.id = x.user /\ u.owner = req[r].who

\* What a person has stored goes by that person's own request or with the account,
\* whoever else deletes or lists what, and an account keeps its address and password
\* for as long as it exists (delete_trip_alert).
OnlyOwnerRemoves == [][OwnerRemoves]_vars
=============================================================================
