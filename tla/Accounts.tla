------------------------------ MODULE Accounts ------------------------------
(***************************************************************************)
(* Registration, login and bearer tokens (app/api/auth.py,                 *)
(* app/core/security.py, get_current_user of app/api/deps.py).  A person   *)
(* stands for the password that only this person knows.  Each action ends  *)
(* where the handler awaits: the bcrypt thread, a statement, the commit.   *)
(***************************************************************************)
EXTENDS Integers, FiniteSets

CONSTANTS
    Requests,      \* the requests there may be at a time
    People,        \* who may send them
    Spellings,     \* how an email address may be written
    Canonical(_),  \* stripped and in lower case
    Nobody,        \* no account loaded
    MaxUsers       \* bound: registrations that get to insert a row

ASSUME AccountsAssumption ==
    /\ \A s \in Spellings : Canonical(s) \in Spellings
                            /\ Canonical(Canonical(s)) = Canonical(s)
    /\ MaxUsers \in Nat

Row == [id : Nat, email : Spellings, owner : People]

ASSUME NobodyAssumption == Nobody \notin Row

VARIABLES
    users,         \* the committed rows; owner stands for the password hash
    lastUser,      \* the last id the sequence has given out
    tokens,        \* the tokens that have not expired, each with who got it
    req            \* req[r]: where request r is and what it has read

accounts == <<users, lastUser, tokens, req>>

Token == [sub : Nat, holder : People]

NoRequest == [stage |-> "idle", then |-> "idle", who |-> Nobody, email |-> Nobody,
              account |-> Nobody, token |-> Nobody, alert |-> 0]

At(r, stage) == req[r].stage = stage

Begin(r, request) == At(r, "idle") /\ req' = [req EXCEPT ![r] = request]

Goto(r, stage) == req' = [req EXCEPT ![r].stage = stage]

Load(r, stage, row) == req' = [req EXCEPT ![r].stage = stage, ![r].account = row]

\* The response leaves and the session is closed; what was not committed is
\* rolled back.
End(r) == req' = [req EXCEPT ![r] = NoRequest]

AccountsInit == /\ users = {}
                /\ lastUser = 0
                /\ tokens = {}
                /\ req = [r \in Requests |-> NoRequest]

-----------------------------------------------------------------------------
(* Registration.                                                           *)

Registering == {r \in Requests : At(r, "hashing")}

\* The body is validated and normalised, and hashing starts on a thread.
Register(r, p, s) ==
    /\ lastUser + Cardinality(Registering) < MaxUsers
    /\ Begin(r, [NoRequest EXCEPT !.stage = "hashing", !.who = p, !.email = Canonical(s)])
    /\ UNCHANGED <<users, lastUser, tokens>>

\* The unique index: a row with this address is there.
Taken(email) == \E u \in users : u.email = email

Unwatched(r) == FALSE

\* Another transaction has inserted the address and not ended: the index makes
\* this INSERT wait for it.
Contended(r) == \E q \in Requests \ {r} : At(q, "inserted")
                                          /\ req[q].account.email = req[r].email

ReusedUser == Cardinality(users) + 1

FreshUser == lastUser + 1

\* flush: the row is there, to be seen by nobody else before the commit.
InsertUser(r) ==
    /\ At(r, "hashing")
    /\ ~ Contended(r) /\ ~ Taken(req[r].email)
    /\ Load(r, "inserted", [id |-> FreshUser, email |-> req[r].email,
                            owner |-> req[r].who])
    /\ lastUser' = FreshUser
    /\ UNCHANGED <<users, tokens>>

\* IntegrityError: 409.
RefuseUser(r) == /\ At(r, "hashing")
                 /\ ~ Contended(r) /\ Taken(req[r].email)
                 /\ End(r)
                 /\ UNCHANGED <<users, lastUser, tokens>>

CommitUser(r) == /\ At(r, "inserted")
                 /\ users' = users \cup {req[r].account}
                 /\ End(r)
                 /\ UNCHANGED <<lastUser, tokens>>

-----------------------------------------------------------------------------
(* Login.                                                                  *)

Login(r, p, s) ==
    /\ Begin(r, [NoRequest EXCEPT !.stage = "finding", !.who = p, !.email = Canonical(s)])
    /\ UNCHANGED <<users, lastUser, tokens>>

\* The SELECT by address; bcrypt then runs on a thread, against the hash that
\* was read or against the dummy.
FindUser(r) ==
    /\ At(r, "finding")
    /\ \/ \E u \in users : u.email = req[r].email /\ Load(r, "verifying", u)
       \/ ~ Taken(req[r].email) /\ Goto(r, "verifying")
    /\ UNCHANGED <<users, lastUser, tokens>>

\* verify_password against the hash as it was read.
Verified(r) == req[r].account # Nobody /\ req[r].account.owner = req[r].who

\* create_access_token: the subject is the id of the account.
Issue(r) == tokens' = tokens \cup {[sub |-> req[r].account.id, holder |-> req[r].who]}

VerifyPassword(r) == /\ At(r, "verifying")
                     /\ \/ Verified(r) /\ Issue(r)
                        \/ ~ Verified(r) /\ UNCHANGED tokens
                     /\ End(r)
                     /\ UNCHANGED <<users, lastUser>>

-----------------------------------------------------------------------------
(* Bearer tokens.                                                          *)

\* decode_token: signature and exp; only issued tokens carry the signature.
Decodes(t) == t \in tokens

\* session.get of the subject.
Subject(t) == {u \in users : u.id = t.sub}

\* The account is loaded and the endpoint, req[r].then, goes on with it.
Authenticate(r) == /\ At(r, "authenticating")
                   /\ Decodes(req[r].token)
                   /\ \E u \in Subject(req[r].token) : Load(r, req[r].then, u)
                   /\ UNCHANGED <<users, lastUser, tokens>>

\* 401, for an expired token as for an account that is gone.
Unauthorized(r) == /\ At(r, "authenticating")
                   /\ ~ Decodes(req[r].token) \/ Subject(req[r].token) = {}
                   /\ End(r)
                   /\ UNCHANGED <<users, lastUser, tokens>>

AccountStep(r) == \/ InsertUser(r) \/ RefuseUser(r) \/ CommitUser(r)
                  \/ FindUser(r) \/ VerifyPassword(r)
                  \/ Authenticate(r) \/ Unauthorized(r)

AccountRequest(r) == \E p \in People, s \in Spellings : Register(r, p, s) \/ Login(r, p, s)

\* access_token_expire_minutes have passed since t was issued.
Expire(t) == /\ tokens' = tokens \ {t}
             /\ UNCHANGED <<users, lastUser, req>>
=============================================================================
