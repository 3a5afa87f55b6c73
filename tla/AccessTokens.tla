---------------------------- MODULE AccessTokens ----------------------------
(***************************************************************************)
(* Access tokens: JWTs that the server signs and never stores.             *)
(*                                                                         *)
(* A client buys one for itself with its secret                            *)
(* (handleClientCredentialsGrant) or with an assertion that it signed and  *)
(* whose key the server fetches from the client's JWKS URL                 *)
(* (handleJWTBearerGrant); the grants of a user also sign ID tokens.  The  *)
(* server verifies tokens at userinfo and introspection.  A resource       *)
(* server verifies them with the key set it fetched from jwks.json, where  *)
(* the key has an identifier that each start of the process draws anew.    *)
(*                                                                         *)
(* Clients and users may change or disappear while a request runs.         *)
(***************************************************************************)
EXTENDS Naturals, FiniteSets

CONSTANTS
    Clients, Users, Scopes,
    Registrations, \* documents that administrators give to clients
    Keys,          \* keys a client may publish under its JWKS URL
    Asked,         \* sets of scopes that requests ask for
    Assertions,    \* what clients sign
    Requests,
    Lifespan,      \* JWT_ACCESS_TOKEN_LIFESPAN, in ticks
    MaxAge,        \* max-age of the answer of jwks.json, in ticks
    None,
    MaxTime,       \* bound: ticks of the clock
    MaxRuns,       \* bound: starts of the process
    MaxChanges,    \* bound: changes of clients, users and published keys
    MaxFaults      \* bound: failed store or HTTP operations

Grants == {"client_credentials", "jwt_bearer"}

\* models.Client, without the secret, which no update changes.
Client == [grants : SUBSET Grants, scopes : SUBSET Scopes, jwks : BOOLEAN]

\* The claims of an assertion that are looked at, and the key that signed it.
Assertion == [key : Keys, forUs : BOOLEAN, exp : (0 .. MaxTime) \cup {None}]

ASSUME InputAssumption ==
    /\ Registrations \subseteq Client /\ Assertions \subseteq Assertion
    /\ Asked \subseteq SUBSET Scopes
ASSUME NoneAssumption == None \notin Client /\ None \notin Nat \cup Requests
ASSUME LifespanAssumption == Lifespan \in Nat \ {0} /\ MaxAge \in Nat \ {0}
ASSUME SubjectAssumption == Users \cap Clients = {}
ASSUME BoundAssumption ==
    MaxTime \in Nat /\ MaxRuns \in Nat /\ MaxChanges \in Nat /\ MaxFaults \in Nat

VARIABLES
    now, faults, changes,
    run, started, \* which start of the process this is, and since when
    clients,      \* Clients -> document
    published,    \* Clients -> keys under the JWKS URL
    users,        \* users in MongoDB
    jwts,         \* tokens signed
    pc,           \* Requests -> next operation or the answer
    req,          \* Requests -> input, when it came, who was missing then
    copy,         \* Requests -> the client document it read
    seen,         \* Requests -> client documents stored while it ran
    keys,         \* Requests -> keys published while it ran
    cache         \* the resource server's key set

worldVars   == <<clients, published, users, changes>>
requestVars == <<pc, req, copy, seen, keys>>
serverVars  == <<run, started>>
vars == <<now, faults, worldVars, serverVars, jwts, requestVars, cache>>

\* CustomClaims and IDTokenClaims: an ID token has no scopes and no nbf.
JWT == [kind : {"access", "id"}, sub : Users \cup Clients, scopes : SUBSET Scopes,
        exp : Nat, kid : Nat, by : Requests \cup {None}]

Task == [do : {"credentials"}, client : Clients, secret : BOOLEAN, scopes : SUBSET Scopes]
        \cup [do : {"bearer"}, client : Clients, assertion : Assertions]
        \cup [do : {"userinfo"}, token : JWT]
        \cup [do : {"introspect"}, client : Clients, secret : BOOLEAN, token : JWT]

Request == [task : Task, began : Nat, gone : SUBSET Users]

Running == {"client", "fetch", "sign", "verify", "user"}
Errors  == {"invalid_client", "unauthorized_client", "invalid_scope",
            "invalid_grant", "invalid_token"}
Ended   == Errors \cup {"issued", "info", "active", "inactive", "panic", "crashed"}

TypeOK ==
    /\ now \in Nat /\ faults \in Nat /\ changes \in Nat
    /\ run \in Nat /\ started \in Nat
    /\ clients \in [Clients -> Client \cup {None}]
    /\ published \in [Clients -> SUBSET Keys]
    /\ users \subseteq Users /\ jwts \subseteq JWT
    /\ pc \in [Requests -> {"idle"} \cup Running \cup Ended]
    /\ req \in [Requests -> Request \cup {None}]
    /\ \A r \in Requests : pc[r] # "idle" => req[r] \in Request
    /\ copy \in [Requests -> Client \cup {None}]
    /\ seen \in [Requests -> SUBSET (Client \cup {None})]
    /\ keys \in [Requests -> SUBSET Keys]
    /\ cache \in {None} \cup [kid : Nat, at : Nat]

Init ==
    /\ now = 0 /\ faults = 0 /\ changes = 0
    /\ run = 1 /\ started = 0
    /\ clients \in [Clients -> Registrations]
    /\ published = [c \in Clients |-> Keys]
    /\ users = Users
    /\ jwts = {}
    /\ pc = [r \in Requests |-> "idle"]
    /\ req = [r \in Requests |-> None]
    /\ copy = [r \in Requests |-> None]
    /\ seen = [r \in Requests |-> {}]
    /\ keys = [r \in Requests |-> {}]
    /\ cache = None

Succeeds == faults' = faults
Fails    == faults < MaxFaults /\ faults' = faults + 1

TaskOf(r)    == req[r].task
Do(r)        == TaskOf(r).do
Go(r, where) == pc' = [pc EXCEPT ![r] = where]

-----------------------------------------------------------------------------
(***************************************************************************)
(* JWTManager.                                                             *)
(***************************************************************************)

\* GenerateAccessToken, and GenerateIDToken, which lives as long.
Signed(kind, sub, scopes, by) ==
    [kind |-> kind, sub |-> sub, scopes |-> scopes, exp |-> now + Lifespan,
     kid |-> run, by |-> by]

\* Mutant: the key is looked up by the kid of this start.
OnlyThisRun(token) == now < token.exp /\ token.kid = run

\* VerifyToken: the signature is right whatever the kid says, since every
\* start loads the same key; the library compares exp.
Verifies(token) == now < token.exp

-----------------------------------------------------------------------------
(***************************************************************************)
(* Tokens for users come from the other grants, here in one step; with the *)
(* scope openid there is an ID token as well.                              *)
(***************************************************************************)
IssueForUser(u, scopes) ==
    /\ u \in users
    /\ \A t \in jwts : t.sub \notin Users
    /\ jwts' = jwts \cup
         ({Signed("access", u, scopes, None)} \cup
          IF "openid" \in scopes THEN {Signed("id", u, {}, None)} ELSE {})
    /\ UNCHANGED <<now, faults, worldVars, serverVars, requestVars, cache>>

-----------------------------------------------------------------------------
(***************************************************************************)
(* Requests.                                                               *)
(***************************************************************************)
Begin(r, task) ==
    /\ pc[r] = "idle"
    /\ Go(r, IF task.do = "userinfo" THEN "verify" ELSE "client")
    /\ req' = [req EXCEPT ![r] =
                 [task |-> task, began |-> now, gone |-> IF task.do = "userinfo" THEN Users \ users ELSE {}]]
    /\ LET c == IF task.do = "userinfo" THEN {} ELSE {task.client} IN
       /\ seen' = [seen EXCEPT ![r] = {clients[x] : x \in c}]
       /\ keys' = [keys EXCEPT ![r] = UNION {published[x] : x \in c}]
    /\ UNCHANGED <<now, faults, worldVars, serverVars, jwts, copy, cache>>

\* Mutant: a requested scope is not compared.
AnyScopes(doc, scopes) == TRUE

\* Each requested scope is one of the client's.
Allowed(doc, scopes) == scopes \subseteq doc.scopes

\* The scopes that are asked for, or else all of the client's.
Granted(doc, scopes) == IF scopes = {} THEN doc.scopes ELSE scopes

\* ValidateClientCredentials.
Authentic(r) == clients[TaskOf(r).client] # None /\ TaskOf(r).secret

\* handleClientCredentialsGrant up to its checks.
CheckCredentials(r) ==
    LET doc == clients[TaskOf(r).client]
        May == "client_credentials" \in doc.grants
        Answer(a) == Go(r, a) /\ UNCHANGED copy
    IN
    /\ pc[r] = "client" /\ Do(r) = "credentials"
    /\ \/ Fails /\ Answer("invalid_client")
       \/ Succeeds /\ ~Authentic(r) /\ Answer("invalid_client")
       \/ Succeeds /\ Authentic(r) /\ ~May /\ Answer("unauthorized_client")
       \/ /\ Succeeds /\ Authentic(r) /\ May
          /\ ~Allowed(doc, TaskOf(r).scopes) /\ Answer("invalid_scope")
       \/ /\ Succeeds /\ Authentic(r) /\ May
          /\ Allowed(doc, TaskOf(r).scopes)
          /\ Go(r, "sign") /\ copy' = [copy EXCEPT ![r] = doc]
    /\ UNCHANGED <<now, worldVars, serverVars, jwts, req, seen, keys, cache>>

\* handleJWTBearerGrant up to the fetch: the client that the assertion names,
\* before its signature is looked at.
ReadAssertion(r) ==
    LET doc == clients[TaskOf(r).client]
        May == "jwt_bearer" \in doc.grants /\ doc.jwks
        Answer(a) == Go(r, a) /\ UNCHANGED copy
    IN
    /\ pc[r] = "client" /\ Do(r) = "bearer"
    /\ \/ Fails /\ Answer("invalid_client")
       \/ Succeeds /\ doc = None /\ Answer("invalid_client")
       \/ Succeeds /\ doc # None /\ ~May /\ Answer("unauthorized_client")
       \/ /\ Succeeds /\ doc # None /\ May
          /\ Go(r, "fetch") /\ copy' = [copy EXCEPT ![r] = doc]
    /\ UNCHANGED <<now, worldVars, serverVars, jwts, req, seen, keys, cache>>

\* jwk.Fetch, at each request.
FetchedKeys(r) == published[TaskOf(r).client]

\* The checks of the assertion: its key, by kid; exp, when there is one; aud.
Proves(r) ==
    LET a == TaskOf(r).assertion IN
    /\ a.key \in FetchedKeys(r)
    /\ a.exp # None => now < a.exp
    /\ a.forUs

FetchKeys(r) ==
    /\ pc[r] = "fetch"
    /\ \/ Succeeds /\ Proves(r) /\ Go(r, "sign")
       \/ Succeeds /\ ~Proves(r) /\ Go(r, "invalid_grant")
       \/ Fails /\ Go(r, "invalid_grant")
    /\ UNCHANGED <<now, worldVars, serverVars, jwts, req, copy, seen, keys, cache>>

\* The signature and the answer: the client is its own subject, and an
\* assertion buys all its scopes.
Sign(r) ==
    LET scopes == IF Do(r) = "bearer" THEN copy[r].scopes
                  ELSE Granted(copy[r], TaskOf(r).scopes)
    IN
    /\ pc[r] = "sign"
    /\ jwts' = jwts \cup {Signed("access", TaskOf(r).client, scopes, r)}
    /\ Go(r, "issued")
    /\ UNCHANGED <<now, faults, worldVars, serverVars, req, copy, seen, keys, cache>>

\* GetUserInfo, the token; its subject must be a user's identifier.
VerifyForUserInfo(r) ==
    LET token == TaskOf(r).token IN
    /\ pc[r] = "verify" /\ Do(r) = "userinfo"
    /\ Go(r, IF Verifies(token) /\ token.sub \in Users THEN "user"
                                                       ELSE "invalid_token")
    /\ UNCHANGED <<now, faults, worldVars, serverVars, jwts, req, copy, seen, keys,
                   cache>>

\* Mutant: the token alone says who the user is.
TrustsToken(u) == TRUE

\* UserStore.GetByID finds a document.
Exists(u) == u \in users

\* GetUserInfo, the user, and the answer.
ReadUser(r) ==
    LET u == TaskOf(r).token.sub IN
    /\ pc[r] = "user"
    /\ \/ Succeeds /\ Exists(u) /\ Go(r, "info")
       \/ Succeeds /\ ~Exists(u) /\ Go(r, "invalid_token")
       \/ Fails /\ Go(r, "invalid_token")
    /\ UNCHANGED <<now, worldVars, serverVars, jwts, req, copy, seen, keys, cache>>

\* Introspect, the caller's credentials.
AuthenticateCaller(r) ==
    /\ pc[r] = "client" /\ Do(r) = "introspect"
    /\ \/ Succeeds /\ Authentic(r) /\ Go(r, "verify")
       \/ Succeeds /\ ~Authentic(r) /\ Go(r, "inactive")
       \/ Fails /\ Go(r, "inactive")
    /\ UNCHANGED <<now, worldVars, serverVars, jwts, req, copy, seen, keys, cache>>

\* Introspect, a JWT.  The answer has an nbf, which an ID token lacks: the
\* handler panics, and net/http ends the connection.  What does not verify is
\* looked up as a refresh token, and no JWT is one.
VerifyForIntrospect(r) ==
    LET token == TaskOf(r).token IN
    /\ pc[r] = "verify" /\ Do(r) = "introspect"
    /\ Go(r, IF ~Verifies(token) THEN "inactive"
             ELSE IF token.kind = "id" THEN "panic" ELSE "active")
    /\ UNCHANGED <<now, faults, worldVars, serverVars, jwts, req, copy, seen, keys,
                   cache>>

-----------------------------------------------------------------------------
(***************************************************************************)
(* A resource server that verifies tokens itself.                          *)
(***************************************************************************)

\* Mutant: the answer may be cached twice as long.
LongAge == 2 * MaxAge

\* ServeJWKS: Cache-Control: max-age.
CacheAge == MaxAge

\* ServeJWKS: the one key, under the identifier of this start.
KeySet == [kid |-> run, at |-> now]

\* A cache of HTTP answers gives back one that is younger than its max-age.
Fresh == cache # None /\ now < cache.at + CacheAge

\* What the resource server works with, after a fetch if need be.
Current == IF Fresh THEN cache ELSE KeySet

FetchKeySet ==
    /\ ~Fresh /\ jwts # {}
    /\ cache' = KeySet
    /\ UNCHANGED <<now, faults, worldVars, serverVars, jwts, requestVars>>

\* It looks the key up by the kid of the token.
AcceptedAtResource(token) == now < token.exp /\ token.kid = Current.kid

-----------------------------------------------------------------------------
Tick ==
    /\ now < MaxTime
    /\ now' = now + 1
    /\ UNCHANGED <<faults, worldVars, serverVars, jwts, requestVars, cache>>

\* History: what was stored while each request ran.
Witness ==
    LET Of(r) == IF pc[r] \in Running /\ Do(r) # "userinfo"
                 THEN {TaskOf(r).client} ELSE {}
    IN
    /\ seen' = [r \in Requests |-> seen[r] \cup {clients'[c] : c \in Of(r)}]
    /\ keys' = [r \in Requests |->
                  keys[r] \cup UNION {published'[c] : c \in Of(r)}]

\* An administrator updates or deletes a client or deletes a user, or a client
\* withdraws a key.
Change ==
    /\ changes < MaxChanges
    /\ changes' = changes + 1
    /\ \/ /\ \E c \in Clients, doc \in Registrations \cup {None} :
                /\ clients[c] \notin {None, doc}
                /\ clients' = [clients EXCEPT ![c] = doc]
          /\ UNCHANGED <<published, users>>
       \/ /\ \E c \in Clients, k \in Keys :
                published' = [published EXCEPT ![c] = @ \ {k}]
          /\ UNCHANGED <<clients, users>>
       \/ \E u \in users : users' = users \ {u} /\ UNCHANGED <<clients, published>>
    /\ Witness
    /\ UNCHANGED <<now, faults, serverVars, jwts, pc, req, copy, cache>>

\* The process stops, with the requests it serves, and starts again:
\* NewJWTManager loads the same key and draws another identifier.
Restart ==
    /\ run < MaxRuns
    /\ run' = run + 1 /\ started' = now
    /\ pc' = [r \in Requests |-> IF pc[r] \in Running THEN "crashed" ELSE pc[r]]
    /\ UNCHANGED <<now, faults, worldVars, jwts, req, copy, seen, keys, cache>>

Tasks ==
    [do : {"credentials"}, client : Clients, secret : BOOLEAN, scopes : Asked]
    \cup [do : {"bearer"}, client : Clients, assertion : Assertions]
    \cup [do : {"userinfo"}, token : jwts]
    \cup [do : {"introspect"}, client : Clients, secret : BOOLEAN, token : jwts]

Step(r) ==
    \/ CheckCredentials(r)
    \/ ReadAssertion(r)
    \/ FetchKeys(r)
    \/ Sign(r)
    \/ VerifyForUserInfo(r)
    \/ ReadUser(r)
    \/ AuthenticateCaller(r)
    \/ VerifyForIntrospect(r)

Next ==
    \/ \E u \in Users : IssueForUser(u, Scopes)
    \/ \E r \in Requests : Step(r) \/ \E task \in Tasks : Begin(r, task)
    \/ FetchKeySet \/ Tick \/ Change \/ Restart

Spec == Init /\ [][Next]_vars

-----------------------------------------------------------------------------
(***************************************************************************)
(* Properties.                                                             *)
(***************************************************************************)

\* What a client buys for itself is covered by one document that was stored
\* for it while the request ran, with that grant and all those scopes, never
\* by a mixture of two; it showed its secret, or an assertion under a key that
\* it published at some moment of the request.  (The handlers read the client
\* once; they fetch the keys after that, when the client may be gone.)
IssuedAsRegistered ==
    \A t \in jwts : t.by \in Requests =>
        LET task == TaskOf(t.by) IN
        /\ t.sub = task.client
        /\ \E doc \in seen[t.by] \ {None} :
              /\ t.scopes \subseteq doc.scopes
              /\ IF task.do = "credentials"
                 THEN task.secret /\ "client_credentials" \in doc.grants
                 ELSE /\ "jwt_bearer" \in doc.grants /\ doc.jwks
                      /\ task.assertion.key \in keys[t.by]

\* Userinfo speaks only of a user who was there when the request came, and
\* userinfo and introspection take no token that had expired then;
\* introspection calls nothing but an access token active.
AnswersAreTrue ==
    \A r \in Requests : pc[r] \in {"info", "active"} =>
        LET token == TaskOf(r).token IN
        /\ req[r].began < token.exp
        /\ pc[r] = "info" => token.sub \notin req[r].gone
        /\ pc[r] = "active" => token.kind = "access"

\* A token that is valid is not refused without a reason, also when the
\* process was started again since: nothing failed, the user is there, the
\* caller's secret was right and its client was there throughout.  (VerifyToken
\* ignores the kid.)
LiveTokenAccepted ==
    \A r \in Requests :
        /\ pc[r] \in {"invalid_token", "inactive"}
        /\ faults = 0 /\ now < TaskOf(r).token.exp
        => IF Do(r) = "userinfo" THEN TaskOf(r).token.sub \notin users
           ELSE ~TaskOf(r).secret \/ None \in seen[r]

\* A resource server that follows Cache-Control refuses a valid token of the
\* present run only in the first max-age after its start: its key set has the
\* kid of an earlier one.  (keyID is drawn at each start.)
RefusalEndsWithMaxAge ==
    \A t \in jwts :
        /\ t.kind = "access" /\ t.kid = run /\ now < t.exp
        /\ ~AcceptedAtResource(t)
        => now < started + MaxAge

=============================================================================
