--------------------------- MODULE RefreshTokens ---------------------------
(***************************************************************************)
(* The life of a refresh token after a grant has stored it: it buys access *)
(* tokens (handleRefreshTokenGrant), is looked at by resource servers      *)
(* (Introspect) and taken back by its client (Revoke), all by requests     *)
(* that run concurrently, each a few store operations long.                *)
(*                                                                         *)
(* A refresh does not use the token up and does not replace it: the same   *)
(* document serves until it expires or is revoked.  The three handlers     *)
(* begin alike, with the client's credentials, and differ in what they say *)
(* when these are wrong.                                                   *)
(***************************************************************************)
EXTENDS Naturals, FiniteSets

CONSTANTS
    Tokens,          \* refresh tokens
    Requests,
    Clients, Users,
    RefreshLifespan, \* services.RefreshTokenLifespan, in ticks
    AccessLifespan,  \* JWT_ACCESS_TOKEN_LIFESPAN, in ticks
    NoDoc,
    MaxTime,         \* bound: ticks of the clock
    MaxFaults        \* bound: failed store operations and crashes

ASSUME LifespanAssumption ==
    RefreshLifespan \in Nat \ {0} /\ AccessLifespan \in Nat \ {0}
ASSUME NonemptyAssumption == Tokens # {} /\ Clients # {}
ASSUME BoundAssumption == MaxTime \in Nat /\ MaxFaults \in Nat

Doc == [client : Clients, user : Users, expiresAt : Nat]

ASSUME NoneAssumption == NoDoc \notin Doc

VARIABLES
    now, faults,
    registered, \* clients in MongoDB
    tokens,     \* Tokens -> document
    minted,     \* Tokens -> the document that was stored first
    access,     \* access tokens signed
    pc,         \* Requests -> next operation or the answer
    req,        \* Requests -> input, when it came, what had been answered
    lost        \* revocations whose delete returned an error

requestVars == <<access, pc, req, lost>>
vars == <<now, faults, registered, tokens, minted, requestVars>>

Kinds   == {"refresh", "revoke", "introspect"}
Running == {"credentials", "read", "sign", "drop", "delete"}
Ended   == {"issued", "invalid_client", "invalid_grant", "revoked", "ignored",
            "active", "inactive", "crashed"}

Input == [kind : Kinds, token : Tokens, client : Clients, secret : BOOLEAN]

AccessToken == [by : Requests, from : Tokens, client : Clients, user : Users,
                expiresAt : Nat]

TypeOK ==
    /\ now \in Nat /\ faults \in Nat /\ registered \subseteq Clients
    /\ tokens \in [Tokens -> Doc \cup {NoDoc}]
    /\ minted \in [Tokens -> Doc \cup {NoDoc}]
    /\ access \subseteq AccessToken
    /\ pc \in [Requests -> {"idle"} \cup Running \cup Ended]
    /\ req \in [Requests -> [in : Input, began : Nat, known : SUBSET Clients,
                             before : SUBSET Requests]]
    /\ lost \subseteq Requests

Init ==
    /\ now = 0 /\ faults = 0 /\ registered = Clients
    /\ tokens = [t \in Tokens |-> NoDoc]
    /\ minted = [t \in Tokens |-> NoDoc]
    /\ access = {} /\ lost = {}
    /\ pc = [r \in Requests |-> "idle"]
    /\ req = [r \in Requests |->
                [in |-> CHOOSE in \in Input : TRUE, began |-> 0,
                 known |-> {}, before |-> {}]]

Succeeds == faults' = faults
Fails    == faults < MaxFaults /\ faults' = faults + 1

Kind(r)   == req[r].in.kind
Token(r)  == req[r].in.token
Client(r) == req[r].in.client
Go(r, where) == pc' = [pc EXCEPT ![r] = where]

-----------------------------------------------------------------------------
\* GenerateAndStoreRefreshToken, at the end of a code or device grant.
Issue(t, client, user) ==
    LET new == [client |-> client, user |-> user,
                expiresAt |-> now + RefreshLifespan]
    IN
    /\ minted[t] = NoDoc
    /\ minted' = [minted EXCEPT ![t] = new]
    /\ tokens' = [tokens EXCEPT ![t] = new]
    /\ UNCHANGED <<now, faults, registered, requestVars>>

\* A request for a token that somebody holds.
Begin(r, in) ==
    /\ pc[r] = "idle"
    /\ minted[in.token] # NoDoc
    /\ Go(r, "credentials")
    /\ req' = [req EXCEPT ![r] =
                 [in |-> in, began |-> now, known |-> registered,
                  before |-> {s \in Requests : pc[s] \in Ended}]]
    /\ UNCHANGED <<now, faults, registered, tokens, minted, access, lost>>

\* What a client is told whose credentials are wrong.
Unauthenticated(r) ==
    CASE Kind(r) = "refresh"    -> "invalid_client"
      [] Kind(r) = "revoke"     -> "ignored"
      [] Kind(r) = "introspect" -> "inactive"

\* Mutant: the secret is not compared.
AnySecret(r) == Client(r) \in registered

Authentic(r) == Client(r) \in registered /\ req[r].in.secret

\* ValidateClientCredentials.  A failed read counts as wrong credentials.
CheckCredentials(r) ==
    /\ pc[r] = "credentials"
    /\ \/ Succeeds /\ Authentic(r) /\ Go(r, "read")
       \/ Succeeds /\ ~Authentic(r) /\ Go(r, Unauthenticated(r))
       \/ Fails /\ Go(r, Unauthenticated(r))
    /\ UNCHANGED <<now, registered, tokens, minted, access, req, lost>>

Found(r) == tokens[Token(r)] # NoDoc

\* Mutant: an expired token is as good as a valid one.
NeverExpired(doc) == FALSE
\* Mutant: whoever holds the token owns it.
AnyOwner(r) == Found(r)
\* Mutant: the token is used up.
UsedUp(r) == [tokens EXCEPT ![Token(r)] = NoDoc]

Expired(doc) == now > doc.expiresAt
Owned(r)     == Found(r) /\ tokens[Token(r)].client = Client(r)
AfterUse(r)  == tokens

\* ValidateAndConsumeRefreshToken, the read, and the client comparison.
ReadForRefresh(r) ==
    /\ pc[r] = "read" /\ Kind(r) = "refresh"
    /\ \/ Fails /\ Go(r, "invalid_grant") /\ UNCHANGED tokens
       \/ /\ Succeeds /\ ~Found(r)
          /\ Go(r, "invalid_grant") /\ UNCHANGED tokens
       \/ /\ Succeeds /\ Found(r) /\ Expired(tokens[Token(r)])
          /\ Go(r, "drop") /\ UNCHANGED tokens
       \/ /\ Succeeds /\ Found(r) /\ ~Expired(tokens[Token(r)])
          /\ Go(r, IF Owned(r) THEN "sign" ELSE "invalid_grant")
          /\ tokens' = AfterUse(r)
    /\ UNCHANGED <<now, registered, minted, access, req, lost>>

\* The delete of an expired token; its error is dropped.
DropExpired(r) ==
    /\ pc[r] = "drop"
    /\ \/ Succeeds /\ tokens' = [tokens EXCEPT ![Token(r)] = NoDoc]
       \/ Fails /\ tokens' \in {tokens, [tokens EXCEPT ![Token(r)] = NoDoc]}
    /\ Go(r, "invalid_grant")
    /\ UNCHANGED <<now, registered, minted, access, req, lost>>

\* GenerateAccessToken, and the answer.  Its contents are those of the
\* document read before, which never change.
Sign(r) ==
    /\ pc[r] = "sign"
    /\ access' = access \cup
         {[by |-> r, from |-> Token(r), client |-> Client(r),
           user |-> minted[Token(r)].user, expiresAt |-> now + AccessLifespan]}
    /\ Go(r, "issued")
    /\ UNCHANGED <<now, faults, registered, tokens, minted, req, lost>>

\* Introspect, the part that reads the store; valid until the expiry, where a
\* refresh is still possible in that very instant.
ReadForIntrospect(r) ==
    LET active == Found(r) /\ now < tokens[Token(r)].expiresAt IN
    /\ pc[r] = "read" /\ Kind(r) = "introspect"
    /\ \/ Succeeds /\ active /\ Go(r, "active")
       \/ Succeeds /\ ~active /\ Go(r, "inactive")
       \/ Fails /\ Go(r, "inactive")
    /\ UNCHANGED <<now, registered, tokens, minted, access, req, lost>>

\* Revoke, the read and the client comparison; the expiry is not looked at.
ReadForRevoke(r) ==
    /\ pc[r] = "read" /\ Kind(r) = "revoke"
    /\ \/ Succeeds /\ Owned(r) /\ Go(r, "delete")
       \/ Succeeds /\ ~Owned(r) /\ Go(r, "ignored")
       \/ Fails /\ Go(r, "ignored")
    /\ UNCHANGED <<now, registered, tokens, minted, access, req, lost>>

\* Mutant: the revocation deletes by the token, not by its signature.
DeletesNothing(r) == tokens

WithoutToken(r) == [tokens EXCEPT ![Token(r)] = NoDoc]

\* Revoke, the delete; an error is logged and the answer is the same.
Delete(r) ==
    /\ pc[r] = "delete"
    /\ \/ Succeeds /\ tokens' = WithoutToken(r) /\ UNCHANGED lost
       \/ /\ Fails
          /\ tokens' \in {tokens, WithoutToken(r)}
          /\ lost' = lost \cup {r}
    /\ Go(r, "revoked")
    /\ UNCHANGED <<now, registered, minted, access, req>>

-----------------------------------------------------------------------------
Tick ==
    /\ now < MaxTime
    /\ now' = now + 1
    /\ UNCHANGED <<faults, registered, tokens, minted, requestVars>>

\* The TTL index, where it exists.
RemoveExpired(t) ==
    /\ tokens[t] # NoDoc /\ tokens[t].expiresAt <= now
    /\ tokens' = [tokens EXCEPT ![t] = NoDoc]
    /\ UNCHANGED <<now, faults, registered, minted, requestVars>>

\* An administrator deletes a client; its refresh tokens stay.
DeleteClient(client) ==
    /\ client \in registered
    /\ registered' = registered \ {client}
    /\ UNCHANGED <<now, faults, tokens, minted, requestVars>>

Crash ==
    /\ Fails
    /\ \E r \in Requests : pc[r] \in Running
    /\ pc' = [r \in Requests |-> IF pc[r] \in Running THEN "crashed" ELSE pc[r]]
    /\ UNCHANGED <<now, registered, tokens, minted, access, req, lost>>

Step(r) ==
    \/ CheckCredentials(r)
    \/ ReadForRefresh(r)
    \/ DropExpired(r)
    \/ Sign(r)
    \/ ReadForIntrospect(r)
    \/ ReadForRevoke(r)
    \/ Delete(r)

Next ==
    \/ \E t \in Tokens, client \in Clients, user \in Users :
          Issue(t, client, user)
    \/ \E r \in Requests : Step(r) \/ \E in \in Input : Begin(r, in)
    \/ Tick
    \/ \E t \in Tokens : RemoveExpired(t)
    \/ \E client \in Clients : DeleteClient(client)
    \/ Crash

Spec == Init /\ [][Next]_vars

-----------------------------------------------------------------------------
(***************************************************************************)
(* Properties.                                                             *)
(***************************************************************************)

\* Once a revocation is answered as done, and its delete was not lost, no
\* request that begins later buys an access token with the refresh token or
\* is told that it is active.  (Revoke's delete, and reads that always go to
\* the store.)
RevokedForGood ==
    \A r, v \in Requests :
        /\ v \in req[r].before
        /\ pc[v] = "revoked" /\ v \notin lost
        /\ Token(r) = Token(v)
        => pc[r] \notin {"issued", "active"}

\* An access token bought with a refresh token is for the client and the user
\* the refresh token was made for, and that client gave its secret and still
\* existed when it asked.
BoughtByItsClient ==
    \A a \in access :
        /\ a.client = minted[a.from].client /\ a.user = minted[a.from].user
        /\ a.client \in req[a.by].known
        /\ req[a.by].in.secret

\* A request that begins after the expiry gets no token, and one that begins
\* at the expiry or after it no "active", although nothing may ever remove the
\* document.  (The two handlers draw the boundary differently.)
ExpiredIsDead ==
    \A r \in Requests :
        /\ pc[r] = "issued" => req[r].began <= minted[Token(r)].expiresAt
        /\ pc[r] = "active" => req[r].began < minted[Token(r)].expiresAt

\* A refresh token works as often as its client likes: with nothing failing,
\* no client deleted and no revocation by the owner begun, every refresh of
\* the owner and every introspection up to the expiry succeeds, however many
\* other requests run at the same time.
LiveTokenWorks ==
    \A r \in Requests :
        /\ faults = 0 /\ registered = Clients
        /\ req[r].in.secret
        /\ now < minted[Token(r)].expiresAt
        /\ ~ \E v \in Requests :
                /\ pc[v] # "idle" /\ Kind(v) = "revoke" /\ Token(v) = Token(r)
                /\ Client(v) = minted[Token(r)].client
        => /\ pc[r] # "inactive"
           /\ Client(r) = minted[Token(r)].client =>
                 pc[r] \notin {"invalid_client", "invalid_grant"}

\* A refresh token that is still valid disappears only in a revocation by an
\* authenticated request of the client it was made for.
OnlyOwnerRevokes ==
    [][\A t \in Tokens :
          tokens[t] # NoDoc /\ tokens'[t] = NoDoc
          => \/ tokens[t].expiresAt <= now
             \/ \E v \in Requests :
                   /\ pc[v] = "delete" /\ pc'[v] = "revoked"
                   /\ Token(v) = t /\ Client(v) = minted[t].client
                   /\ req[v].in.secret]_vars

=============================================================================
