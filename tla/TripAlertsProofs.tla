-------------------------- MODULE TripAlertsProofs --------------------------
(***************************************************************************)
(* Proofs about the API process for any number of requests, people,        *)
(* accounts, alerts and names, and any size of the name cache.             *)
(***************************************************************************)
EXTENDS TripAlerts, TLAPS

Authenticated == {"resolving", "listing", "selecting", "deleting"}

Request == [stage : Stages, then : Stages, who : People \cup {Nobody},
            email : Spellings \cup {Nobody}, account : Row \cup {Nobody},
            token : Token \cup {Nobody}, alert : Nat]

\* What a request knows of itself, whatever the others do.
Sound(q) ==
    /\ q \in Request
    /\ q.stage \in {"hashing", "finding"} => /\ q.who \in People
                                             /\ q.email \in Spellings
                                             /\ Canonical(q.email) = q.email
    /\ q.stage \in {"hashing", "finding", "authenticating"} => q.account = Nobody
    /\ q.stage \in {"hashing", "inserted", "finding", "verifying"} => q.token = Nobody
    /\ q.stage = "inserted" => /\ q.account \in Row
                               /\ Canonical(q.account.email) = q.account.email
    /\ q.stage = "verifying" => q.who \in People
    /\ q.stage = "authenticating" => /\ q.token \in Token
                                     /\ q.who = q.token.holder
                                     /\ q.then \in Authenticated \ {"deleting"}
    /\ q.stage \in Authenticated => q.account \in Row /\ q.account.owner = q.who
    /\ q.token # Nobody /\ q.account # Nobody => q.account.owner = q.who

\* The rows that are committed or in somebody's hands, and the tokens likewise.
Rows == users \cup {req[r].account : r \in {q \in Requests : req[q].account # Nobody}}

Tickets == tokens \cup {req[r].token : r \in {q \in Requests : At(q, "authenticating")}}

\* An id is given to one account only, once and for all, and a token that names an
\* account is held by its owner.
Identity ==
    /\ users \subseteq Row
    /\ tokens \subseteq Token
    /\ lastUser \in Nat
    /\ \A x \in Rows : x.id <= lastUser
    /\ \A x, y \in Rows : x.id = y.id => x = y
    /\ \A t \in Tickets : t.sub <= lastUser
    /\ \A t \in Tickets, x \in Rows : x.id = t.sub => x.owner = t.holder

\* No two accounts share an address, those that are not committed included.
Addresses ==
    /\ \A u \in users : Canonical(u.email) = u.email
    /\ \A u, v \in users : u.email = v.email => u = v
    /\ \A r \in Requests, u \in users : At(r, "inserted") => u.email # req[r].account.email
    /\ \A r, q \in Requests : At(r, "inserted") /\ At(q, "inserted")
                              /\ req[r].account.email = req[q].account.email => r = q

\* An alert has an owner, and a delete under way has the right one.
Ownership ==
    /\ alerts \subseteq Alert
    /\ lastAlert \in Nat
    /\ \A x \in alerts : x.id <= lastAlert
    /\ \A x, y \in alerts : x.id = y.id => x = y
    /\ NoOrphans
    /\ \A r \in Requests : At(r, "deleting") =>
          /\ req[r].alert <= lastAlert
          /\ \A x \in alerts : x.id = req[r].alert => x.user = Owner(r)

\* The name cache is typed, bounded and without duplicates.
Bounded(c) == /\ c \in Seq({Key(v) : v \in Values})
              /\ Len(c) <= MaxEntries
              /\ \A i, j \in DOMAIN c : c[i] = c[j] => i = j

\* A lookup that is under way has something to look up.
Asked == {l \in Lookups : l.status # "none" => l.value \in Values}

CacheInv == Bounded(cache) /\ lookup \in [Callers -> [Ends -> Asked]]

RequestsInv == req \in [Requests -> Request] /\ \A r \in Requests : Sound(req[r])

IInv == RequestsInv /\ Identity /\ Addresses /\ Ownership /\ CacheInv

-----------------------------------------------------------------------------
(* Steps that hand out no new account and no new token.                    *)

\* What r may become in such a step.
Calm(q) == /\ Sound(q)
           /\ q.stage # "inserted"
           /\ q.account = Nobody \/ q.account \in Rows
           /\ q.stage = "authenticating" => q.token \in Tickets

\* Requests only become what is sound.
LEMMA SoundStep ==
    ASSUME RequestsInv, NEW r \in Requests, NEW q, Sound(q), req' = [req EXCEPT ![r] = q]
    PROVE  RequestsInv'
<1>1. req' \in [Requests -> Request]
  BY DEF RequestsInv, Sound
<1>2. ASSUME NEW s \in Requests PROVE Sound(req'[s])
  BY DEF RequestsInv
<1> QED
  BY <1>1, <1>2 DEF RequestsInv, Sound

\* No row and no token comes into being.
LEMMA NothingNew ==
    ASSUME RequestsInv, NEW r \in Requests, NEW q, Calm(q),
           req' = [req EXCEPT ![r] = q], users' \subseteq users, tokens' \subseteq tokens
    PROVE  Rows' \subseteq Rows /\ Tickets' \subseteq Tickets
<1>1. \A s \in Requests : req'[s] = IF s = r THEN q ELSE req[s]
  BY DEF RequestsInv
<1>2. Rows' \subseteq Rows
  BY <1>1 DEF Rows, Calm
<1>3. Tickets' \subseteq Tickets
  BY <1>1 DEF Tickets, At, Calm
<1> QED
  BY <1>2, <1>3

\* Fewer rows and tokens are no danger to their identity.
LEMMA FewerKnown ==
    ASSUME Identity, Rows' \subseteq Rows, Tickets' \subseteq Tickets,
           users' \subseteq Row, tokens' \subseteq tokens, lastUser' = lastUser
    PROVE  Identity'
  BY DEF Identity

\* Nor are fewer accounts to the addresses.
LEMMA FewerAddresses ==
    ASSUME RequestsInv, Addresses, NEW r \in Requests, NEW q, q.stage # "inserted",
           req' = [req EXCEPT ![r] = q], users' \subseteq users
    PROVE  Addresses'
<1>1. \A s \in Requests : req'[s] = IF s = r THEN q ELSE req[s]
  BY DEF RequestsInv
<1> QED
  BY <1>1 DEF Addresses, At

\* All of it at once.
LEMMA CalmStep ==
    ASSUME RequestsInv, Identity, Addresses, NEW r \in Requests, NEW q, Calm(q),
           req' = [req EXCEPT ![r] = q], users' \subseteq users,
           tokens' \subseteq tokens, lastUser' = lastUser
    PROVE  RequestsInv' /\ Identity' /\ Addresses'
<1>1. users' \subseteq Row
  BY DEF Identity
<1> QED
  BY <1>1, SoundStep, NothingNew, FewerKnown, FewerAddresses DEF Calm

\* An idle request is sound.
LEMMA IdleCalm == Calm(NoRequest) /\ NoRequest.stage # "deleting"
  BY DEF Calm, Sound, NoRequest, Request, Stages, Authenticated

\* Ownership only looks at the requests that delete.
LEMMA OwnershipStep ==
    ASSUME RequestsInv, Ownership, NEW r \in Requests, NEW q, q.stage # "deleting",
           req' = [req EXCEPT ![r] = q], users \subseteq users',
           alerts' \subseteq alerts, lastAlert' = lastAlert
    PROVE  Ownership'
<1>1. \A s \in Requests : req'[s] = IF s = r THEN q ELSE req[s]
  BY DEF RequestsInv
<1> QED
  BY <1>1 DEF Ownership, NoOrphans, At, Owner

\* The next stage of a request leaves the rest of it as it was.
LEMMA GotoFields ==
    ASSUME RequestsInv, NEW r \in Requests, NEW st \in Stages, Goto(r, st)
    PROVE  \E q \in Request :
              /\ req' = [req EXCEPT ![r] = q]
              /\ q.stage = st /\ q.then = req[r].then /\ q.who = req[r].who
              /\ q.email = req[r].email /\ q.account = req[r].account
              /\ q.token = req[r].token /\ q.alert = req[r].alert
<1> DEFINE q == [req[r] EXCEPT !.stage = st]
<1>1. req[r] \in Request
  BY DEF RequestsInv
<1>2. q \in Request
  BY <1>1 DEF Request
<1>3. /\ q.stage = st /\ q.then = req[r].then /\ q.who = req[r].who
      /\ q.email = req[r].email /\ q.account = req[r].account
      /\ q.token = req[r].token /\ q.alert = req[r].alert
  BY <1>1 DEF Request
<1>4. req' = [req EXCEPT ![r] = q]
  BY DEF Goto, RequestsInv
<1> HIDE DEF q
<1> QED
  BY <1>2, <1>3, <1>4

\* So does the row that it reads on the way.
LEMMA LoadFields ==
    ASSUME RequestsInv, NEW r \in Requests, NEW st \in Stages, NEW u \in Row,
           Load(r, st, u)
    PROVE  \E q \in Request :
              /\ req' = [req EXCEPT ![r] = q]
              /\ q.stage = st /\ q.then = req[r].then /\ q.who = req[r].who
              /\ q.email = req[r].email /\ q.account = u
              /\ q.token = req[r].token /\ q.alert = req[r].alert
<1> DEFINE p == [req[r] EXCEPT !.stage = st]
           q == [p EXCEPT !.account = u]
<1>1. req[r] \in Request /\ req \in [Requests -> Request]
  BY DEF RequestsInv
<1>2. p \in Request
  BY <1>1 DEF Request
<1>3. /\ p.stage = st /\ p.then = req[r].then /\ p.who = req[r].who
      /\ p.email = req[r].email /\ p.account = req[r].account
      /\ p.token = req[r].token /\ p.alert = req[r].alert
  BY <1>1 DEF Request
<1>4. req' = [req EXCEPT ![r] = q]
  BY <1>1 DEF Load
<1> HIDE DEF p
<1>5. q \in Request
  BY <1>2 DEF Request
<1>6. /\ q.stage = p.stage /\ q.then = p.then /\ q.who = p.who
      /\ q.email = p.email /\ q.account = u
      /\ q.token = p.token /\ q.alert = p.alert
  BY <1>2 DEF Request
<1> HIDE DEF q
<1> QED
  BY <1>3, <1>4, <1>5, <1>6

-----------------------------------------------------------------------------
(* The steps of registration, login and authentication.                    *)

\* What follows a step of r that leaves the alerts alone.
Kept(r) == /\ RequestsInv' /\ Identity' /\ Addresses'
           /\ \E q : req' = [req EXCEPT ![r] = q] /\ q.stage # "deleting"

\* A registration or a login comes in.
LEMMA RequestKept ==
    ASSUME IInv, NEW r \in Requests, AccountRequest(r)
    PROVE  Kept(r) /\ users' = users
<1>1. PICK p \in People, s \in Spellings : Register(r, p, s) \/ Login(r, p, s)
  BY DEF AccountRequest
<1>2. Canonical(s) \in Spellings /\ Canonical(Canonical(s)) = Canonical(s)
  BY AccountsAssumption
<1>3. CASE Register(r, p, s)
  <2> DEFINE q == [NoRequest EXCEPT !.stage = "hashing", !.who = p, !.email = Canonical(s)]
  <2>1. Calm(q) /\ q.stage # "deleting"
    BY <1>2 DEF Calm, Sound, NoRequest, Request, Stages, Authenticated
  <2>2. req' = [req EXCEPT ![r] = q] /\ UNCHANGED <<users, lastUser, tokens>>
    BY <1>3 DEF Register, Begin
  <2> QED
    BY <2>1, <2>2, CalmStep DEF IInv, Kept
<1>4. CASE Login(r, p, s)
  <2> DEFINE q == [NoRequest EXCEPT !.stage = "finding", !.who = p, !.email = Canonical(s)]
  <2>1. Calm(q) /\ q.stage # "deleting"
    BY <1>2 DEF Calm, Sound, NoRequest, Request, Stages, Authenticated
  <2>2. req' = [req EXCEPT ![r] = q] /\ UNCHANGED <<users, lastUser, tokens>>
    BY <1>4 DEF Login, Begin
  <2> QED
    BY <2>1, <2>2, CalmStep DEF IInv, Kept
<1> QED
  BY <1>1, <1>3, <1>4

\* The end of a request, for whatever reason, with the database as it was.
LEMMA EndKept ==
    ASSUME IInv, NEW r \in Requests, End(r), users' \subseteq users,
           tokens' \subseteq tokens, lastUser' = lastUser
    PROVE  Kept(r)
<1>1. req' = [req EXCEPT ![r] = NoRequest]
  BY DEF End
<1> QED
  BY <1>1, IdleCalm, CalmStep DEF IInv, Kept

\* A new row has an id that no row and no token has had.
LEMMA InsertKept ==
    ASSUME IInv, NEW r \in Requests, InsertUser(r)
    PROVE  Kept(r)
<1> DEFINE u == [id |-> FreshUser, email |-> req[r].email, owner |-> req[r].who]
<1>1. /\ req \in [Requests -> Request] /\ req[r] \in Request /\ Sound(req[r])
      /\ req[r].stage = "hashing"
  BY DEF IInv, RequestsInv, InsertUser, At
<1>2. req[r].account = Nobody /\ req[r].token = Nobody
      /\ req[r].email \in Spellings /\ Canonical(req[r].email) = req[r].email
  BY <1>1 DEF Sound
<1>3. u \in Row /\ u.id = lastUser + 1 /\ u.email = req[r].email /\ lastUser \in Nat
  BY <1>1, <1>2 DEF IInv, Identity, FreshUser, Row, Sound
<1> HIDE DEF u
<1>4. PICK q \in Request : /\ req' = [req EXCEPT ![r] = q]
                           /\ q.stage = "inserted" /\ q.account = u /\ q.token = Nobody
  <2>1. Load(r, "inserted", u) /\ "inserted" \in Stages
    BY DEF InsertUser, u, Stages
  <2> QED
    BY <1>2, <1>3, <2>1, LoadFields DEF IInv
<1>5. Sound(q)
  BY <1>2, <1>3, <1>4 DEF Sound, Authenticated
<1>6. RequestsInv'
  BY <1>4, <1>5, SoundStep DEF IInv
<1>7. users' = users /\ tokens' = tokens /\ lastUser' = lastUser + 1
  BY DEF InsertUser, FreshUser
<1>8. \A s \in Requests : req'[s] = IF s = r THEN q ELSE req[s]
  BY <1>1, <1>4
<1>9. Rows' \subseteq Rows \cup {u} /\ Tickets' \subseteq Tickets
  BY <1>4, <1>7, <1>8 DEF Rows, Tickets, At
<1>10. Identity'
  <2>1. \A x \in Rows : x.id \in Nat /\ x.id <= lastUser
    BY <1>1 DEF IInv, Identity, Rows, RequestsInv, Request, Row
  <2>2. \A t \in Tickets : t.sub \in Nat /\ t.sub <= lastUser
    BY DEF IInv, Identity, Tickets, RequestsInv, Sound, Token, At
  <2>3. \A x \in Rows' : x.id <= lastUser'
    BY <1>3, <1>7, <1>9, <2>1
  <2>4. \A x, y \in Rows' : x.id = y.id => x = y
    BY <1>3, <1>9, <2>1 DEF IInv, Identity
  <2>5. \A t \in Tickets' : t.sub <= lastUser'
    BY <1>3, <1>7, <1>9, <2>2
  <2>6. \A t \in Tickets', x \in Rows' : x.id = t.sub => x.owner = t.holder
    BY <1>3, <1>9, <2>2 DEF IInv, Identity
  <2> QED
    BY <1>3, <1>7, <2>3, <2>4, <2>5, <2>6 DEF IInv, Identity
<1>11. Addresses'
  <2>1. \A v \in users : v.email # u.email
    BY <1>3 DEF InsertUser, Taken
  <2>2. \A s \in Requests \ {r} : At(s, "inserted") => req[s].account.email # u.email
    BY <1>3 DEF InsertUser, Contended
  <2> QED
    BY <1>4, <1>7, <1>8, <2>1, <2>2 DEF IInv, Addresses, At
<1> QED
  BY <1>4, <1>6, <1>10, <1>11 DEF Kept

\* The commit shows the row to everybody.
LEMMA CommitKept ==
    ASSUME IInv, NEW r \in Requests, CommitUser(r)
    PROVE  Kept(r) /\ users \subseteq users'
<1>1. req' = [req EXCEPT ![r] = NoRequest] /\ users' = users \cup {req[r].account}
      /\ tokens' = tokens /\ lastUser' = lastUser /\ req[r].stage = "inserted"
  BY DEF CommitUser, End, At
<1>2. req \in [Requests -> Request] /\ Sound(req[r])
  BY DEF IInv, RequestsInv
<1>3. \A s \in Requests : req'[s] = IF s = r THEN NoRequest ELSE req[s]
  BY <1>1, <1>2
<1>4. req[r].account \in Row /\ req[r].account # Nobody
  BY <1>1, <1>2, NobodyAssumption DEF Sound
<1>5. RequestsInv'
  BY <1>1, IdleCalm, SoundStep DEF IInv, Calm
<1>6. Rows' \subseteq Rows
  BY <1>1, <1>3, <1>4 DEF Rows, NoRequest
<1>7. Tickets' \subseteq Tickets
  BY <1>1, <1>3 DEF Tickets, At, NoRequest
<1>8. Identity'
  BY <1>1, <1>4, <1>6, <1>7, FewerKnown DEF IInv, Identity
<1>9. Addresses'
  BY <1>1, <1>2, <1>3 DEF IInv, Addresses, At, NoRequest, Sound
<1> QED
  BY <1>1, <1>5, <1>8, <1>9, IdleCalm DEF Kept

\* The row that login reads is a committed one.
LEMMA FindKept ==
    ASSUME IInv, NEW r \in Requests, FindUser(r)
    PROVE  Kept(r)
<1>1. req[r] \in Request /\ Sound(req[r]) /\ req[r].stage = "finding"
  BY DEF IInv, RequestsInv, FindUser, At
<1>2. UNCHANGED <<users, lastUser, tokens>>
  BY DEF FindUser
<1>3. CASE \E u \in users : Load(r, "verifying", u)
  <2>1. PICK u \in users : Load(r, "verifying", u)
    BY <1>3
  <2>2. u \in Row /\ u \in Rows /\ "verifying" \in Stages
    BY DEF IInv, Identity, Rows, Stages
  <2>3. PICK q \in Request : /\ req' = [req EXCEPT ![r] = q]
                             /\ q.stage = "verifying" /\ q.account = u
                             /\ q.who = req[r].who /\ q.token = req[r].token
    BY <2>1, <2>2, LoadFields DEF IInv
  <2>4. Calm(q) /\ q.stage # "deleting"
    BY <1>1, <2>2, <2>3 DEF Calm, Sound, Authenticated
  <2> QED
    BY <1>2, <2>3, <2>4, CalmStep DEF IInv, Kept
<1>4. CASE Goto(r, "verifying")
  <2>1. PICK q \in Request : /\ req' = [req EXCEPT ![r] = q]
                             /\ q.stage = "verifying" /\ q.account = req[r].account
                             /\ q.who = req[r].who /\ q.token = req[r].token
    BY <1>4, GotoFields DEF IInv, Stages
  <2>2. Calm(q) /\ q.stage # "deleting"
    BY <1>1, <2>1 DEF Calm, Sound, Authenticated
  <2> QED
    BY <1>2, <2>1, <2>2, CalmStep DEF IInv, Kept
<1> QED
  BY <1>3, <1>4 DEF FindUser

\* A token goes to the owner of the account that it names.
LEMMA VerifyKept ==
    ASSUME IInv, NEW r \in Requests, VerifyPassword(r)
    PROVE  Kept(r)
<1>1. End(r) /\ users' = users /\ lastUser' = lastUser
  BY DEF VerifyPassword
<1>2. CASE tokens' = tokens
  BY <1>1, <1>2, EndKept
<1>3. CASE Verified(r) /\ Issue(r)
  <2> DEFINE t == [sub |-> req[r].account.id, holder |-> req[r].who]
  <2>1. /\ req \in [Requests -> Request] /\ req[r] \in Request /\ Sound(req[r])
        /\ req[r].stage = "verifying"
    BY DEF IInv, RequestsInv, VerifyPassword, At
  <2>2. req[r].account \in Row /\ req[r].account \in Rows
        /\ req[r].account.owner = req[r].who
    BY <1>3, <2>1 DEF Verified, Request, Rows
  <2>3. t \in Token /\ t.sub = req[r].account.id /\ t.holder = req[r].who
    BY <2>1, <2>2 DEF Token, Row, Sound
  <2>4. tokens' = tokens \cup {t}
    BY <1>3 DEF Issue
  <2> HIDE DEF t
  <2>5. req' = [req EXCEPT ![r] = NoRequest]
    BY <1>1 DEF End
  <2>6. \A s \in Requests : req'[s] = IF s = r THEN NoRequest ELSE req[s]
    BY <2>1, <2>5
  <2>7. Rows' \subseteq Rows /\ Tickets' \subseteq Tickets \cup {t}
    BY <1>1, <2>4, <2>6 DEF Rows, Tickets, NoRequest, At
  <2>8. Identity'
    BY <1>1, <2>2, <2>3, <2>4, <2>7 DEF IInv, Identity
  <2>9. RequestsInv' /\ Addresses'
    BY <1>1, <2>5, IdleCalm, SoundStep, FewerAddresses DEF IInv, Calm
  <2> QED
    BY <2>5, <2>8, <2>9, IdleCalm DEF Kept
<1> QED
  BY <1>2, <1>3 DEF VerifyPassword

\* Whoever is let in is the owner of the account that was loaded.
LEMMA AuthenticateKept ==
    ASSUME IInv, NEW r \in Requests, Authenticate(r)
    PROVE  Kept(r)
<1>1. req[r] \in Request /\ Sound(req[r]) /\ req[r].stage = "authenticating"
  BY DEF IInv, RequestsInv, Authenticate, At
<1>2. PICK u \in users : u.id = req[r].token.sub /\ Load(r, req[r].then, u)
  BY DEF Authenticate, Subject
<1>3. u \in Row /\ u \in Rows /\ req[r].token \in Tickets
  BY <1>1 DEF IInv, Identity, Rows, Tickets, At
<1>4. u.owner = req[r].who
  BY <1>1, <1>2, <1>3 DEF IInv, Identity, Sound
<1>5. req[r].then \in Authenticated \ {"deleting"} /\ req[r].then \in Stages
  BY <1>1 DEF Sound, Request
<1>6. PICK q \in Request : /\ req' = [req EXCEPT ![r] = q]
                           /\ q.stage = req[r].then /\ q.account = u
                           /\ q.who = req[r].who /\ q.token = req[r].token
  BY <1>2, <1>3, <1>5, LoadFields DEF IInv
<1>7. Calm(q) /\ q.stage # "deleting"
  BY <1>3, <1>4, <1>5, <1>6 DEF Calm, Sound, Authenticated
<1> QED
  BY <1>6, <1>7, CalmStep DEF IInv, Kept, Authenticate

\* Each step of an account keeps what it has to.
LEMMA AccountKept ==
    ASSUME IInv, NEW r \in Requests, AccountStep(r)
    PROVE  Kept(r) /\ users \subseteq users'
<1>1. CASE RefuseUser(r)
  BY <1>1, EndKept DEF RefuseUser
<1>2. CASE Unauthorized(r)
  BY <1>2, EndKept DEF Unauthorized
<1>3. CASE InsertUser(r)
  BY <1>3, InsertKept DEF InsertUser
<1>4. CASE FindUser(r)
  BY <1>4, FindKept DEF FindUser
<1>5. CASE VerifyPassword(r)
  BY <1>5, VerifyKept DEF VerifyPassword
<1>6. CASE Authenticate(r)
  BY <1>6, AuthenticateKept DEF Authenticate
<1> QED
  BY <1>1, <1>2, <1>3, <1>4, <1>5, <1>6, CommitKept DEF AccountStep

-----------------------------------------------------------------------------
(* The name cache.                                                         *)

\* Filling in a name keeps the cache within its bounds and forgets one name at most.
LEMMA RememberBounds ==
    ASSUME Bounded(cache), NEW v \in Values, Remember(Key(v))
    PROVE  /\ Bounded(cache')
           /\ In(cache', Key(v))
           /\ \A i \in DOMAIN cache :
                 (i = 1 /\ Len(cache) = MaxEntries) \/ In(cache', cache[i])
<1> DEFINE k == Key(v)
           filled == Append(cache, k)
<1>1. k \in {Key(w) : w \in Values}
  OBVIOUS
<1> HIDE DEF k
<1>2. CASE Cached(k)
  BY <1>2 DEF Remember, Cached, In, Bounded, k
<1>3. CASE ~ Cached(k)
  <2>1. /\ filled \in Seq({Key(w) : w \in Values}) /\ Len(filled) = Len(cache) + 1
        /\ \A i \in 1..Len(cache) : filled[i] = cache[i]
        /\ filled[Len(cache) + 1] = k
        /\ Len(cache) \in Nat /\ Len(cache) <= MaxEntries
    BY <1>1 DEF Bounded
  <2>2. \A i, j \in 1..(Len(cache) + 1) : filled[i] = filled[j] => i = j
    BY <1>3, <2>1 DEF Bounded, Cached, In
  <2>3. cache' = IF Len(filled) > MaxEntries THEN Tail(filled) ELSE filled
    BY <1>3 DEF Remember, k
  <2> HIDE DEF filled
  <2>4. CASE Len(cache) < MaxEntries
    <3>1. cache' = filled
      BY <2>1, <2>3, <2>4, GeocoderAssumption
    <3>2. DOMAIN filled = 1..(Len(cache) + 1) /\ DOMAIN cache = 1..Len(cache)
      BY <2>1 DEF Bounded
    <3>3. Bounded(cache')
      BY <2>1, <2>2, <2>4, <3>1, <3>2, GeocoderAssumption DEF Bounded
    <3>4. In(cache', k)
      <4>1. cache'[Len(cache) + 1] = k /\ Len(cache) + 1 \in DOMAIN cache'
        BY <2>1, <3>1, <3>2
      <4> QED
        BY <4>1 DEF In
    <3>5. \A i \in DOMAIN cache : In(cache', cache[i])
      <4>1. \A i \in DOMAIN cache : cache'[i] = cache[i] /\ i \in DOMAIN cache'
        BY <2>1, <3>1, <3>2
      <4> QED
        BY <4>1 DEF In
    <3> QED
      BY <3>3, <3>4, <3>5 DEF k
  <2>5. CASE Len(cache) = MaxEntries
    <3>1. cache' = Tail(filled)
      BY <2>1, <2>3, <2>5, GeocoderAssumption
    <3>2. /\ cache' \in Seq({Key(w) : w \in Values}) /\ Len(cache') = Len(cache)
          /\ \A i \in 1..Len(cache) : cache'[i] = filled[i + 1]
      BY <2>1, <2>5, <3>1, GeocoderAssumption
    <3>3. DOMAIN cache' = 1..Len(cache) /\ DOMAIN cache = 1..Len(cache)
      BY <2>1, <3>2 DEF Bounded
    <3>4. \A i, j \in DOMAIN cache' : cache'[i] = cache'[j] => i = j
      BY <2>1, <2>2, <3>2, <3>3
    <3>5. In(cache', k)
      <4>1. cache'[Len(cache)] = k /\ Len(cache) \in DOMAIN cache'
        BY <2>1, <2>5, <3>2, <3>3, GeocoderAssumption
      <4> QED
        BY <4>1 DEF In
    <3>6. \A i \in DOMAIN cache : i # 1 => In(cache', cache[i])
      <4>1. \A i \in DOMAIN cache : i # 1 => cache'[i - 1] = cache[i] /\ i - 1 \in DOMAIN cache'
        BY <2>1, <3>2, <3>3
      <4> QED
        BY <4>1 DEF In
    <3> QED
      BY <2>1, <2>5, <3>2, <3>4, <3>5, <3>6 DEF Bounded, k
  <2> QED
    BY <2>1, <2>4, <2>5, GeocoderAssumption
<1> QED
  BY <1>2, <1>3

\* Nothing is looked up and nothing changes.
LEMMA CacheStays ==
    ASSUME CacheInv, cache' = cache, lookup' \in [Callers -> [Ends -> Asked]],
           \A r \in Callers, e \in Ends :
               lookup'[r][e].status = "resolved" => lookup[r][e].status # "fetching"
    PROVE  CacheInv' /\ CacheMoves
  BY DEF CacheInv, CacheMoves, Bounded, In

\* In most steps nobody looks anything up.
LEMMA GeocoderStays ==
    ASSUME CacheInv, UNCHANGED geocoder
    PROVE  CacheInv' /\ CacheMoves
  BY CacheStays DEF CacheInv, geocoder

\* A new lookup.
LEMMA SetTripKept ==
    ASSUME CacheInv, cache' = cache, NEW r \in Requests,
           (\E trip \in Trips : SetTrip(r, trip)) \/ DropTrip(r)
    PROVE  CacheInv' /\ CacheMoves
<1>1. \A trip \in Trips : trip[1] \in Values /\ trip[2] \in Values
  BY TripAlertsAssumption
<1>2. PICK ends \in [Ends -> Asked] : /\ lookup' = [lookup EXCEPT ![r] = ends]
                                        /\ \A e \in Ends : ends[e].status # "resolved"
  <2>1. CASE \E trip \in Trips : SetTrip(r, trip)
    <3>1. PICK trip \in Trips : SetTrip(r, trip)
      BY <2>1
    <3> DEFINE ends == [origin |-> Ask(trip[1]), destination |-> Ask(trip[2])]
    <3>2. Ask(trip[1]) \in Asked /\ Ask(trip[2]) \in Asked
          /\ Ask(trip[1]).status = "asked" /\ Ask(trip[2]).status = "asked"
      BY <1>1 DEF Ask, Asked, Lookups
    <3>3. ends \in [Ends -> Asked] /\ \A e \in Ends : ends[e].status # "resolved"
      BY <3>2 DEF Ends
    <3> QED
      BY <3>1, <3>3 DEF SetTrip
  <2>2. CASE DropTrip(r)
    <3> DEFINE ends == [e \in Ends |-> NoLookup]
    <3>1. ends \in [Ends -> Asked] /\ \A e \in Ends : ends[e].status # "resolved"
      BY DEF NoLookup, Asked, Lookups
    <3> QED
      BY <2>2, <3>1 DEF DropTrip
  <2> QED
    BY <2>1, <2>2
<1>3. r \in Callers
  BY TripAlertsAssumption
<1>4. \A s \in Callers : lookup'[s] = IF s = r THEN ends ELSE lookup[s]
  BY <1>2, <1>3 DEF CacheInv
<1> QED
  BY <1>2, <1>3, <1>4, CacheStays DEF CacheInv

\* An end of a trip that is looked up.
LEMMA LookupKept ==
    ASSUME CacheInv, NEW r \in Requests, LookupStep(r)
    PROVE  CacheInv' /\ CacheMoves
<1>1. PICK e \in Ends : Resolve(r, e) \/ Found(r, e) \/ NotFound(r, e)
  BY DEF LookupStep
<1>2. r \in Callers /\ lookup[r][e] \in Asked
  BY <1>1, TripAlertsAssumption DEF CacheInv
<1>3. PICK st \in {"fetching", "resolved", "failed"} :
         /\ SetStatus(r, e, st)
         /\ lookup[r][e].status # "none"
         /\ ~ Found(r, e) /\ st = "resolved" => lookup[r][e].status # "fetching"
  BY <1>1 DEF Resolve, Found, NotFound
<1> DEFINE x == [lookup[r][e] EXCEPT !.status = st]
<1>4. x \in Asked /\ x.status = st
  BY <1>2, <1>3 DEF Asked, Lookups
<1>5. lookup' = [lookup EXCEPT ![r] = [lookup[r] EXCEPT ![e] = x]]
  BY <1>2, <1>3 DEF SetStatus, CacheInv
<1> HIDE DEF x
<1>6. lookup' \in [Callers -> [Ends -> Asked]]
  BY <1>1, <1>2, <1>4, <1>5 DEF CacheInv
<1>7. \A s \in Callers, f \in Ends :
         lookup'[s][f] = IF s = r /\ f = e THEN x ELSE lookup[s][f]
  BY <1>1, <1>2, <1>4, <1>5 DEF CacheInv
<1>8. CASE Found(r, e)
  <2>1. Remember(Key(lookup[r][e].value))
    BY <1>8 DEF Found
  <2>2. lookup[r][e].value \in Values
    BY <1>2, <1>3 DEF Asked
  <2> QED
    BY <1>6, <1>7, <2>1, <2>2, RememberBounds DEF CacheInv, CacheMoves, Bounded
<1>9. CASE ~ Found(r, e)
  <2>1. cache' = cache
    BY <1>1, <1>9 DEF Resolve, NotFound
  <2> QED
    BY <1>3, <1>4, <1>6, <1>7, <1>9, <2>1, CacheStays
<1> QED
  BY <1>8, <1>9

-----------------------------------------------------------------------------
(* The steps of the endpoints.                                             *)

\* What every step comes to.
Good == IInv' /\ OwnerRemoves /\ CacheMoves

\* A step that leaves the alerts alone, and the rows of the accounts or more.
LEMMA KeptOwnership ==
    ASSUME IInv, NEW r \in Requests, Kept(r), users \subseteq users',
           alerts' = alerts, lastAlert' = lastAlert
    PROVE  Ownership' /\ OwnerRemoves
<1>1. Ownership'
  BY OwnershipStep DEF IInv, Kept
<1> QED
  BY <1>1 DEF OwnerRemoves

\* A step of an account, with everything else as it was.
LEMMA AccountGood ==
    ASSUME IInv, NEW r \in Requests, AccountStep(r) \/ AccountRequest(r),
           UNCHANGED <<geocoder, alerts, lastAlert>>
    PROVE  Good
<1>1. Kept(r) /\ users \subseteq users'
  BY AccountKept, RequestKept
<1>2. UNCHANGED geocoder /\ alerts' = alerts /\ lastAlert' = lastAlert
  OBVIOUS
<1> QED
  BY <1>1, <1>2, KeptOwnership, GeocoderStays DEF IInv, Good, Kept

\* A call with a token.
LEMMA CallKept ==
    ASSUME IInv, NEW r \in Requests, NEW t \in tokens, NEW alert \in Nat,
           NEW then \in Authenticated \ {"deleting"}, Call(r, t, then, alert)
    PROVE  Kept(r) /\ UNCHANGED <<users, cache, alerts, lastAlert>>
<1> DEFINE q == [NoRequest EXCEPT !.stage = "authenticating", !.then = then,
                                  !.who = t.holder, !.token = t, !.alert = alert]
<1>1. t \in Token /\ t.holder \in People /\ t \in Tickets
  BY DEF IInv, Identity, Token, Tickets
<1>2. Calm(q) /\ q.stage # "deleting"
  BY <1>1 DEF Calm, Sound, NoRequest, Request, Stages, Authenticated
<1>3. req' = [req EXCEPT ![r] = q] /\ UNCHANGED <<users, lastUser, tokens, cache, alerts, lastAlert>>
  BY DEF Call, Begin
<1> HIDE DEF q
<1> QED
  BY <1>2, <1>3, CalmStep DEF IInv, Kept

\* Each request that comes in.
LEMMA ArriveGood ==
    ASSUME IInv, NEW r \in Requests, Arrive(r)
    PROVE  Good
<1>1. CASE AccountRequest(r) /\ UNCHANGED <<geocoder, alerts, lastAlert>>
  BY <1>1, AccountGood
<1>2. ASSUME NEW t \in tokens, CallCreate(r, t) PROVE Good
  <2>1. Call(r, t, "resolving", 0) /\ \E trip \in Trips : SetTrip(r, trip)
    BY <1>2 DEF CallCreate
  <2>2. Kept(r) /\ UNCHANGED <<users, cache, alerts, lastAlert>>
    BY <2>1, CallKept DEF Authenticated
  <2> QED
    BY <2>1, <2>2, KeptOwnership, SetTripKept DEF IInv, Good, Kept
<1>3. ASSUME NEW t \in tokens, CallList(r, t) \/ CallDelete(r, t) PROVE Good
  <2>1. /\ \E alert \in Nat, then \in {"listing", "selecting"} : Call(r, t, then, alert)
        /\ lookup' = lookup
    BY <1>3 DEF CallList, CallDelete
  <2>2. Kept(r) /\ UNCHANGED <<users, cache, alerts, lastAlert>>
    BY <2>1, CallKept DEF Authenticated
  <2> QED
    BY <2>1, <2>2, KeptOwnership, GeocoderStays DEF IInv, Good, Kept, geocoder
<1>4. CASE CallPlan(r)
  <2> DEFINE q == [NoRequest EXCEPT !.stage = "planning"]
  <2>1. Calm(q) /\ q.stage # "deleting"
    BY DEF Calm, Sound, NoRequest, Request, Stages, Authenticated
  <2>2. /\ req' = [req EXCEPT ![r] = q]
        /\ UNCHANGED <<users, lastUser, tokens, cache, alerts, lastAlert>>
        /\ \E trip \in Trips : SetTrip(r, trip)
    BY <1>4 DEF CallPlan, Begin
  <2> HIDE DEF q
  <2>3. Kept(r)
    BY <2>1, <2>2, CalmStep DEF IInv, Kept
  <2> QED
    BY <2>2, <2>3, KeptOwnership, SetTripKept DEF IInv, Good, Kept
<1> QED
  BY <1>1, <1>2, <1>3, <1>4 DEF Arrive

\* A lookup touches nothing but the cache.
LEMMA GeocodeGood ==
    ASSUME IInv, NEW r \in Requests, Geocode(r)
    PROVE  Good
<1>1. CASE LookupStep(r)
  <2>1. UNCHANGED <<accounts, alerts, lastAlert>>
    BY DEF Geocode
  <2>2. RequestsInv' /\ Identity' /\ Addresses' /\ Ownership'
    BY <2>1 DEF IInv, RequestsInv, Identity, Addresses, Ownership, NoOrphans, Rows,
                Tickets, At, Owner, accounts
  <2>3. OwnerRemoves
    BY <2>1 DEF OwnerRemoves, accounts
  <2> QED
    BY <1>1, <2>2, <2>3, LookupKept DEF IInv, Good
<1>2. LookupStep(r)
  BY DEF Geocode, LookupStep, Ends
<1> QED
  BY <1>1, <1>2

\* The end of a request that has changed nothing.
LEMMA EndGood ==
    ASSUME IInv, NEW r \in Requests, End(r),
           UNCHANGED <<users, lastUser, tokens, cache, alerts, lastAlert>>,
           DropTrip(r) \/ lookup' = lookup
    PROVE  Good
<1>1. Kept(r)
  BY EndKept
<1>2. CacheInv' /\ CacheMoves
  BY SetTripKept, GeocoderStays DEF IInv, geocoder
<1> QED
  BY <1>1, <1>2, KeptOwnership DEF IInv, Good, Kept

\* A new alert has an owner, and an id that nobody is about to delete.
LEMMA StoreGood ==
    ASSUME IInv, NEW r \in Requests, StoreAlert(r)
    PROVE  Good
<1>1. End(r) /\ DropTrip(r) /\ UNCHANGED <<users, lastUser, tokens, cache>>
  BY DEF StoreAlert
<1>2. CASE UNCHANGED <<alerts, lastAlert>>
  BY <1>1, <1>2, EndGood
<1>3. CASE /\ OwnerExists(r)
           /\ alerts' = alerts \cup {[id |-> lastAlert + 1, user |-> Owner(r)]}
           /\ lastAlert' = lastAlert + 1
  <2> DEFINE x == [id |-> lastAlert + 1, user |-> Owner(r)]
  <2>1. Kept(r) /\ CacheInv' /\ CacheMoves
    BY <1>1, EndKept, SetTripKept DEF IInv
  <2>2. PICK u \in users : u.id = Owner(r)
    BY <1>3 DEF OwnerExists
  <2>3. u.id \in Nat /\ lastAlert \in Nat
    BY DEF IInv, Identity, Ownership, Row
  <2>4. x \in Alert /\ x.id = lastAlert + 1 /\ x.user = u.id /\ alerts' = alerts \cup {x}
    BY <1>3, <2>2, <2>3 DEF Alert
  <2> HIDE DEF x
  <2>5. \A y \in alerts : y \in Alert /\ y.id \in Nat /\ y.id <= lastAlert
    BY DEF IInv, Ownership, Alert
  <2>6. alerts' \subseteq Alert /\ lastAlert' \in Nat /\ \A y \in alerts' : y.id <= lastAlert'
    BY <1>3, <2>3, <2>4, <2>5
  <2>7. \A y, z \in alerts' : y.id = z.id => y = z
    BY <2>3, <2>4, <2>5 DEF IInv, Ownership
  <2>8. NoOrphans'
    BY <1>1, <2>2, <2>4 DEF IInv, Ownership, NoOrphans
  <2>9. \A s \in Requests : req'[s] = IF s = r THEN NoRequest ELSE req[s]
    BY <1>1 DEF IInv, RequestsInv, End
  <2>10. ASSUME NEW s \in Requests, At(s, "deleting")'
         PROVE  /\ req'[s].alert <= lastAlert'
                /\ \A y \in alerts' : y.id = req'[s].alert => y.user = Owner(s)'
    <3>1. s # r /\ req'[s] = req[s] /\ At(s, "deleting")
      BY <2>9, <2>10, IdleCalm DEF At
    <3>2. req[s].alert \in Nat /\ req[s].alert <= lastAlert
      BY <3>1 DEF IInv, RequestsInv, Request, Ownership
    <3>3. \A y \in alerts : y.id = req[s].alert => y.user = Owner(s)
      BY <3>1 DEF IInv, Ownership
    <3> QED
      BY <1>3, <2>3, <2>4, <3>1, <3>2, <3>3 DEF Owner
  <2>11. Ownership'
    BY <2>6, <2>7, <2>8, <2>10 DEF Ownership
  <2>12. OwnerRemoves
    BY <1>1, <2>4 DEF OwnerRemoves
  <2> QED
    BY <2>1, <2>11, <2>12 DEF IInv, Good, Kept
<1> QED
  BY <1>2, <1>3 DEF StoreAlert

\* The row that is found belongs to whoever is about to delete it.
LEMMA FindAlertGood ==
    ASSUME IInv, NEW r \in Requests, FindAlert(r)
    PROVE  Good
<1>1. UNCHANGED <<users, lastUser, tokens, geocoder, alerts, lastAlert>>
  BY DEF FindAlert
<1>2. CASE End(r)
  BY <1>1, <1>2, EndGood DEF geocoder
<1>3. CASE OwnRow(r) # {} /\ Goto(r, "deleting")
  <2>1. req[r] \in Request /\ Sound(req[r]) /\ req[r].stage = "selecting"
    BY DEF IInv, RequestsInv, FindAlert, At
  <2>2. PICK q \in Request : /\ req' = [req EXCEPT ![r] = q]
                             /\ q.stage = "deleting" /\ q.who = req[r].who
                             /\ q.account = req[r].account /\ q.token = req[r].token
                             /\ q.alert = req[r].alert
    BY <1>3, GotoFields DEF IInv, Stages
  <2>3. req[r].account \in Row /\ req[r].account.owner = req[r].who
    BY <2>1 DEF Sound, Authenticated
  <2>4. req[r].account \in Rows
    BY <2>3, NobodyAssumption DEF Rows
  <2>5. Calm(q)
    BY <2>1, <2>2, <2>3, <2>4 DEF Calm, Sound, Authenticated
  <2>6. RequestsInv' /\ Identity' /\ Addresses'
    BY <1>1, <2>2, <2>5, CalmStep DEF IInv
  <2>7. PICK x \in alerts : x.id = req[r].alert /\ x.user = Owner(r)
    BY <1>3 DEF OwnRow
  <2>8. \A s \in Requests : req'[s] = IF s = r THEN q ELSE req[s]
    BY <2>2 DEF IInv, RequestsInv
  <2>9. Ownership'
    BY <1>1, <2>2, <2>7, <2>8 DEF IInv, Ownership, NoOrphans, At, Owner
  <2> QED
    BY <1>1, <2>6, <2>9, GeocoderStays DEF IInv, Good, OwnerRemoves
<1> QED
  BY <1>2, <1>3 DEF FindAlert

\* So it goes by its owner's request.
LEMMA RemoveGood ==
    ASSUME IInv, NEW r \in Requests, RemoveAlert(r)
    PROVE  Good
<1>1. /\ End(r) /\ UNCHANGED <<users, lastUser, tokens, geocoder, lastAlert>>
      /\ alerts' = {x \in alerts : x.id # req[r].alert} /\ At(r, "deleting")
  BY DEF RemoveAlert
<1>2. Kept(r)
  BY <1>1, EndKept
<1>3. Ownership'
  BY <1>1, <1>2, OwnershipStep DEF IInv, Kept
<1>4. OwnerRemoves
  <2>1. req[r].account \in Row /\ req[r].account.owner = req[r].who
    BY <1>1 DEF IInv, RequestsInv, Sound, Authenticated, At
  <2>2. req[r].account \in Rows
    BY <2>1, NobodyAssumption DEF Rows
  <2>3. ASSUME NEW x \in alerts \ alerts'
        PROVE  \E u \in users : u.id = x.user /\ u.owner = req[r].who
    <3>1. x.user = req[r].account.id
      BY <1>1 DEF IInv, Ownership, Owner
    <3>2. PICK u \in users : u.id = x.user
      BY DEF IInv, Ownership, NoOrphans
    <3>3. u = req[r].account
      BY <2>2, <3>1, <3>2 DEF IInv, Identity, Rows
    <3> QED
      BY <2>1, <3>2, <3>3
  <2> QED
    BY <1>1, <2>3 DEF OwnerRemoves
<1> QED
  BY <1>1, <1>2, <1>3, <1>4, GeocoderStays DEF IInv, Good, Kept

\* An account takes its alerts with it, and nobody else's.
LEMMA DeleteAccountGood ==
    ASSUME IInv, NEW u \in users, DeleteAccount(u)
    PROVE  Good
<1>1. /\ users' = users \ {u} /\ alerts' = {x \in alerts : x.user # u.id}
      /\ UNCHANGED <<lastUser, tokens, req, geocoder, lastAlert>>
  BY DEF DeleteAccount
<1>2. \A v \in users' : v.id # u.id
  BY <1>1 DEF IInv, Identity, Rows
<1>3. Rows' \subseteq Rows /\ Tickets' \subseteq Tickets
  BY <1>1 DEF Rows, Tickets, At
<1>4. users' \subseteq Row
  BY <1>1 DEF IInv, Identity
<1>5. Identity'
  BY <1>1, <1>3, <1>4, FewerKnown DEF IInv
<1>6. RequestsInv' /\ Addresses'
  BY <1>1 DEF IInv, RequestsInv, Addresses, At
<1>7. Ownership'
  BY <1>1 DEF IInv, Ownership, NoOrphans, At, Owner
<1>8. OwnerRemoves
  BY <1>1, <1>2 DEF OwnerRemoves
<1> QED
  BY <1>1, <1>5, <1>6, <1>7, <1>8, GeocoderStays DEF IInv, Good

\* A restart forgets the requests and the cache, and nothing else.
LEMMA RestartGood ==
    ASSUME IInv, Restart
    PROVE  IInv' /\ OwnerRemoves /\ cache' = <<>>
<1>1. /\ req' = [r \in Requests |-> NoRequest]
      /\ cache' = <<>>
      /\ lookup' = [r \in Callers |-> [e \in Ends |-> NoLookup]]
      /\ UNCHANGED <<users, lastUser, tokens, alerts, lastAlert>>
  BY DEF Restart
<1>2. Sound(NoRequest) /\ NoRequest.stage = "idle" /\ NoRequest.account = Nobody
  BY IdleCalm DEF Calm, NoRequest
<1>3. RequestsInv'
  BY <1>1, <1>2 DEF RequestsInv, Sound
<1>4. Rows' \subseteq Rows /\ Tickets' \subseteq Tickets
  BY <1>1, <1>2 DEF Rows, Tickets, At
<1>5. Identity'
  BY <1>1, <1>4, FewerKnown DEF IInv, Identity
<1>6. Addresses' /\ Ownership'
  BY <1>1, <1>2 DEF IInv, Addresses, Ownership, NoOrphans, At
<1>7. CacheInv'
  BY <1>1, GeocoderAssumption DEF CacheInv, Bounded, NoLookup, Asked, Lookups
<1>8. OwnerRemoves
  BY <1>1 DEF OwnerRemoves
<1> QED
  BY <1>1, <1>3, <1>5, <1>6, <1>7, <1>8 DEF IInv

\* A token that expires is one less.
LEMMA ExpireGood ==
    ASSUME IInv, NEW t \in tokens, Expire(t), UNCHANGED <<geocoder, alerts, lastAlert>>
    PROVE  Good
<1>1. tokens' = tokens \ {t} /\ UNCHANGED <<users, lastUser, req>>
  BY DEF Expire
<1>2. UNCHANGED <<alerts, lastAlert>> /\ UNCHANGED geocoder
  OBVIOUS
<1>3. Rows' \subseteq Rows /\ Tickets' \subseteq Tickets
  BY <1>1 DEF Rows, Tickets, At
<1>4. Identity'
  BY <1>1, <1>3, FewerKnown DEF IInv, Identity
<1>5. RequestsInv' /\ Addresses' /\ Ownership' /\ OwnerRemoves
  BY <1>1, <1>2 DEF IInv, RequestsInv, Addresses, Ownership, NoOrphans, At, Owner,
                    OwnerRemoves
<1> QED
  BY <1>2, <1>4, <1>5, GeocoderStays DEF IInv, Good

-----------------------------------------------------------------------------

\* The API starts with an empty database and an empty cache.
LEMMA InitGood == Init => IInv
<1> SUFFICES ASSUME Init PROVE IInv
  OBVIOUS
<1>1. /\ users = {} /\ tokens = {} /\ lastUser = 0 /\ alerts = {} /\ lastAlert = 0
      /\ cache = <<>> /\ req = [r \in Requests |-> NoRequest]
      /\ lookup = [r \in Callers |-> [e \in Ends |-> NoLookup]]
  BY DEF Init, AccountsInit, GeocoderInit
<1>2. Sound(NoRequest) /\ NoRequest.stage = "idle" /\ NoRequest.account = Nobody
  BY IdleCalm DEF Calm, NoRequest
<1>3. RequestsInv
  BY <1>1, <1>2 DEF RequestsInv, Sound
<1>4. Rows = {} /\ Tickets = {}
  BY <1>1, <1>2 DEF Rows, Tickets, At
<1>5. Identity
  BY <1>1, <1>4 DEF Identity
<1>6. Addresses /\ Ownership
  BY <1>1, <1>2 DEF Addresses, Ownership, NoOrphans, At
<1>7. CacheInv
  BY <1>1, GeocoderAssumption DEF CacheInv, Bounded, NoLookup, Asked, Lookups
<1> QED
  BY <1>3, <1>5, <1>6, <1>7 DEF IInv

\* What a step of the API does.
LEMMA StepGood ==
    ASSUME IInv, [Next]_vars
    PROVE  IInv' /\ OwnerRemoves /\ (cache' # <<>> => CacheMoves)
<1>1. ASSUME NEW r \in Requests, Step(r) PROVE Good
  <2>1. CASE AccountStep(r) /\ UNCHANGED <<geocoder, alerts, lastAlert>>
    BY <2>1, AccountGood
  <2>2. CASE GiveUp(r)
    BY <2>2, EndGood DEF GiveUp
  <2>3. CASE ListAlerts(r)
    BY <2>3, EndGood DEF ListAlerts, geocoder
  <2> QED
    BY <1>1, <2>1, <2>2, <2>3, GeocodeGood, StoreGood, FindAlertGood, RemoveGood DEF Step
<1>2. ASSUME NEW r \in Requests, Fail(r) PROVE Good
  BY <1>2, EndGood DEF Fail
<1>3. CASE Restart
  BY <1>3, RestartGood
<1>4. CASE UNCHANGED vars
  <2>1. UNCHANGED <<geocoder, accounts, alerts, lastAlert>>
    BY <1>4 DEF vars
  <2>2. RequestsInv' /\ Identity' /\ Addresses' /\ Ownership'
    BY <2>1 DEF IInv, RequestsInv, Identity, Addresses, Ownership, NoOrphans, Rows,
                Tickets, At, Owner, accounts
  <2>3. OwnerRemoves
    BY <2>1 DEF OwnerRemoves, accounts
  <2> QED
    BY <2>1, <2>2, <2>3, GeocoderStays DEF IInv
<1> QED
  BY <1>1, <1>2, <1>3, <1>4, ArriveGood, DeleteAccountGood, ExpireGood DEF Next, Good

\* The inductive invariant of the API process, whatever its requests do to each other.
THEOREM Invariance == Spec => []IInv
<1>1. IInv /\ [Next]_vars => IInv'
  BY StepGood
<1> QED
  BY <1>1, InitGood, PTL DEF Spec

\* No token opens an account of somebody else, however often accounts are deleted and
\* addresses registered anew (get_current_user).
THEOREM TokensOpenOwnAccount == Spec => []OwnAccountOnly
<1>1. IInv => OwnAccountOnly
  BY DEF IInv, RequestsInv, Sound, OwnAccountOnly
<1> QED
  BY <1>1, Invariance, PTL

\* One account per address, for any number of registrations at once (register).
THEOREM AddressesUnique == Spec => []OneAccount
<1>1. IInv => OneAccount
  BY DEF IInv, Addresses, OneAccount
<1> QED
  BY <1>1, Invariance, PTL

\* An alert always has an owner (create_trip_alert, the foreign key).
THEOREM AlertsOwned == Spec => []NoOrphans
<1>1. IInv => NoOrphans
  BY DEF IInv, Ownership
<1> QED
  BY <1>1, Invariance, PTL

\* Alerts go by their owner or with the account (delete_trip_alert).
THEOREM RemovedByOwner == Spec => OnlyOwnerRemoves
<1>1. IInv /\ [Next]_vars => [OwnerRemoves]_vars
  BY StepGood
<1> QED
  BY <1>1, Invariance, PTL DEF Spec, OnlyOwnerRemoves

\* The name cache stays bounded, without duplicates, and forgets in order (geocode).
THEOREM CacheBounded == Spec => CacheMovesOn
<1>1. IInv /\ [Next]_vars => [cache' # <<>> => CacheMoves]_geocoder
  BY StepGood
<1> QED
  BY <1>1, Invariance, PTL DEF Spec, CacheMovesOn
=============================================================================
