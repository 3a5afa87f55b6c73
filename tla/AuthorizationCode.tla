------------------------- MODULE AuthorizationCode -------------------------
(***************************************************************************)
(* The authorization code grant of authexa: the consent handler that       *)
(* creates a code (internal/handlers/auth.go, AuthorizeFlow) and the       *)
(* token handler that exchanges it (handleAuthorizationCodeGrant).         *)
(*                                                                         *)
(* Every HTTP request runs in a goroutine of its own and shares nothing    *)
(* with the others but the stores: MongoDB ("tokens", "clients") and       *)
(* Redis ("pkce:<code>", with a TTL).  A handler is a sequence of store    *)
(* operations, each atomic by itself, so each is one action here; what a   *)
(* handler computes between two operations is part of the second's or the  *)
(* first's action.  Any operation may fail, and one that fails may have    *)
(* been applied all the same (a timeout, a cancelled request context).     *)
(* The process may stop between any two operations.                        *)
(*                                                                         *)
(* A code is 32 random characters and is stored under its SHA-256, so two  *)
(* consents never share one: the model names a consent by its code, and    *)
(* looks the document up by the code.                                      *)
(***************************************************************************)
EXTENDS Naturals, FiniteSets

CONSTANTS
    Codes,        \* the authorization codes, one for each consent that is posted
    Requests,     \* the POST /oauth2/token requests with this grant type
    Clients,      \* the client identifiers
    Users,        \* the users who may consent
    Uris,         \* redirect URIs
    Scopes,       \* scope strings
    Verifiers,    \* PKCE verifiers
    RedirectURIs, \* RedirectURIs[c]: what client c registered at first
    UriSets,      \* what an update of a client may register instead
    CodeLifespan, \* services.AuthCodeLifespan, in ticks
    PKCELifespan, \* services.PKCEChallengeLifespan, in ticks
    NoDoc,        \* no such document in MongoDB
    NoChallenge,  \* no challenge in the form, no such key in Redis
    NoVerifier,   \* the token request has no code_verifier
    MaxTime,      \* bound: ticks of the clock
    MaxChanged,   \* bound: clients that are changed or deleted
    MaxFaults     \* bound: failed store operations and crashes

ASSUME RedirectAssumption ==
    /\ RedirectURIs \in [Clients -> SUBSET Uris]
    /\ UriSets \subseteq SUBSET Uris

ASSUME LifespanAssumption ==
    /\ CodeLifespan \in Nat \ {0}
    /\ PKCELifespan \in Nat \ {0}
    /\ CodeLifespan <= PKCELifespan

ASSUME NonemptyAssumption ==
    {} \notin {Codes, Clients, Users, Uris, Scopes}

ASSUME BoundAssumption == {MaxTime, MaxChanged, MaxFaults} \subseteq Nat

(***************************************************************************)
(* GeneratePKCEChallengeS256.  SHA-256 is taken as one-to-one: a tagged    *)
(* record, never equal to the verifier and different for each of them.     *)
(***************************************************************************)
S256(verifier) == [s256 |-> verifier]

Challenges == {S256(v) : v \in Verifiers}

\* models.Token, the fields an authorization code uses.
Doc == [client : Clients, user : Users, scope : Scopes, expiresAt : Nat]

\* The value of a "pkce:<code>" key, with the instant its TTL runs out.
Entry == [challenge : Challenges \cup {NoChallenge}, deadline : Nat]

\* The form that is posted to the authorization endpoint.
Form == [client : Clients, redirect : Uris, scope : Scopes,
         challenge : Challenges \cup {NoChallenge}]

\* What the client posts to the token endpoint.
Input == [code : Codes, client : Clients, redirect : Uris,
          verifier : Verifiers \cup {NoVerifier}]

ASSUME NoneAssumption ==
    /\ NoDoc \notin Doc
    /\ NoChallenge \notin Challenges \cup Entry
    /\ NoVerifier \notin Verifiers

VARIABLES
    now,        \* the clock
    faults,     \* faults so far
    registered, \* client documents that exist
    uris,       \* Clients -> the redirect URIs in its document, if it has one
    revoked,    \* the codes whose document a revocation deleted
    tokens,     \* Codes -> the code's document in MongoDB
    pkce,       \* Codes -> its challenge in Redis
    refresh,    \* refresh token documents, with the request that saved each
    page,       \* Codes -> progress of the consent that makes the code
    grant,      \* Codes -> what the form asked for, and its user
    pc,         \* Requests -> the next store operation of the handler
    req,        \* Requests -> its input, the registered URIs that it read, when
                \* it began and what had ended
    seen,       \* Requests -> the challenge it read
    got,        \* Requests -> the code document it read
    lost        \* Requests -> its deletes that returned an error

consentVars  == <<page, grant>>
exchangeVars == <<pc, req, seen, got, lost>>
vars == <<now, faults, registered, uris, revoked, tokens, pkce, refresh,
          consentVars, exchangeVars>>

-----------------------------------------------------------------------------
(***************************************************************************)
(* Types.                                                                  *)
(***************************************************************************)
PageStates ==
    {"none",          \* nothing posted yet
     "saveChallenge", \* the code is stored, its challenge is not
     "redirected",    \* the browser was sent back with the code
     "denied", "failed"}

Running == {"getChallenge", "deleteChallenge", "getCode", "deleteCode",
            "saveRefresh"}
Ended   == {"issued", "rejected", "crashed"}

Grant == [client : Clients, redirect : Uris, scope : Scopes,
          challenge : Challenges \cup {NoChallenge},
          user : Users, expiresAt : Nat]

Request == [in : Input, uris : SUBSET Uris, began : Nat,
            before : SUBSET Requests]

\* Every variable has its type.
TypeOK ==
    /\ now \in Nat
    /\ faults \in Nat
    /\ registered \subseteq Clients
    /\ uris \in [Clients -> SUBSET Uris]
    /\ revoked \subseteq Codes
    /\ tokens \in [Codes -> Doc \cup {NoDoc}]
    /\ pkce \in [Codes -> Entry \cup {NoChallenge}]
    /\ refresh \subseteq [by : Requests, client : Clients, user : Users,
                          scope : Scopes]
    /\ page \in [Codes -> PageStates]
    /\ grant \in [Codes -> Grant]
    /\ pc \in [Requests -> {"idle"} \cup Running \cup Ended]
    /\ req \in [Requests -> Request]
    /\ seen \in [Requests -> Challenges \cup {NoChallenge}]
    /\ got \in [Requests -> Doc \cup {NoDoc}]
    /\ lost \in [Requests -> SUBSET {"challenge", "code"}]

\* What a field holds before the form is posted or the request arrives: no
\* action reads it.
Unset(S) == CHOOSE x \in S : TRUE

Init ==
    /\ now = 0
    /\ faults = 0
    /\ registered = Clients
    /\ uris = RedirectURIs
    /\ revoked = {}
    /\ tokens = [c \in Codes |-> NoDoc]
    /\ pkce = [c \in Codes |-> NoChallenge]
    /\ refresh = {}
    /\ page = [c \in Codes |-> "none"]
    /\ grant = [c \in Codes |->
                  [client |-> Unset(Clients), redirect |-> Unset(Uris),
                   scope |-> Unset(Scopes), challenge |-> NoChallenge,
                   user |-> Unset(Users), expiresAt |-> 0]]
    /\ pc = [r \in Requests |-> "idle"]
    /\ req = [r \in Requests |->
                [in |-> [code |-> Unset(Codes), client |-> Unset(Clients),
                         redirect |-> Unset(Uris), verifier |-> NoVerifier],
                 uris |-> {}, began |-> 0, before |-> {}]]
    /\ seen = [r \in Requests |-> NoChallenge]
    /\ got = [r \in Requests |-> NoDoc]
    /\ lost = [r \in Requests |-> {}]

-----------------------------------------------------------------------------
(***************************************************************************)
(* Faults.  A store operation of a handler is `ok', or uses up one fault.  *)
(***************************************************************************)
Succeeds == faults' = faults
Fails    == faults < MaxFaults /\ faults' = faults + 1

-----------------------------------------------------------------------------
(***************************************************************************)
(* The consent: the POST of a user who is logged in.  The GET before it    *)
(* looks at the client, its URI and the scopes, and keeps nothing: what    *)
(* counts is the form alone, and no field of it is checked again.          *)
(***************************************************************************)

\* handleConsent without consent=allow.  Only the first value of that field
\* counts, and the page repeats the query of its own URL before its buttons: if
\* that query holds consent=allow, the Deny button posts what SaveCode is for.
DenyConsent(c) ==
    /\ page[c] = "none"
    /\ page' = [page EXCEPT ![c] = "denied"]
    /\ UNCHANGED <<now, faults, registered, uris, revoked, tokens, pkce,
                   refresh, grant, exchangeVars>>

\* The document GenerateAndStoreAuthorizationCode makes for this form.
NewDoc(user, form) ==
    [client |-> form.client, user |-> user, scope |-> form.scope,
     expiresAt |-> now + CodeLifespan]

\* handleConsent with consent=allow, up to the insert of the code.  The client
\* need not exist, nor the URI be one of its own.
SaveCode(c, user, form) ==
    LET saved == [tokens EXCEPT ![c] = NewDoc(user, form)] IN
    /\ page[c] = "none"
    /\ grant' = [grant EXCEPT ![c] =
                    [client |-> form.client, redirect |-> form.redirect,
                     scope |-> form.scope, challenge |-> form.challenge,
                     user |-> user, expiresAt |-> now + CodeLifespan]]
    /\ \/ /\ Succeeds
          /\ tokens' = saved
          /\ page' = [page EXCEPT ![c] = IF form.challenge = NoChallenge
                                        THEN "redirected" ELSE "saveChallenge"]
       \/ /\ Fails
          /\ tokens' \in {tokens, saved}
          /\ page' = [page EXCEPT ![c] = "failed"]
    /\ UNCHANGED <<now, registered, uris, revoked, pkce, refresh, exchangeVars>>

\* Mutant: the TTL is taken in a smaller unit than the lifespan.
NewEntryShort(c) == [challenge |-> grant[c].challenge, deadline |-> now]

NewEntry(c) == [challenge |-> grant[c].challenge,
                deadline |-> now + PKCELifespan]

\* handleConsent from StorePKCEChallenge to the redirect.
SaveChallenge(c) ==
    /\ page[c] = "saveChallenge"
    /\ \/ /\ Succeeds
          /\ pkce' = [pkce EXCEPT ![c] = NewEntry(c)]
          /\ page' = [page EXCEPT ![c] = "redirected"]
       \/ /\ Fails
          /\ pkce' \in {pkce, [pkce EXCEPT ![c] = NewEntry(c)]}
          /\ page' = [page EXCEPT ![c] = "failed"]
    /\ UNCHANGED <<now, registered, uris, revoked, tokens, refresh, grant,
                   exchangeVars>>

-----------------------------------------------------------------------------
(***************************************************************************)
(* The exchange.                                                           *)
(***************************************************************************)
Reject(r) == pc' = [pc EXCEPT ![r] = "rejected"]

\* The request arrives, ValidateClientCredentials reads the client, and the
\* URI must be one the client has registered by now.  A wrong secret, an
\* unknown client and a failed read get the same answer.
BeginExchange(r, in) ==
    /\ pc[r] = "idle"
    /\ page[in.code] = "redirected"
    /\ req' = [req EXCEPT ![r] =
                 [in |-> in, uris |-> uris[in.client], began |-> now,
                  before |-> {s \in Requests : pc[s] \in Ended}]]
    /\ \/ /\ Succeeds
          /\ in.redirect \in uris[in.client]
          /\ pc' = [pc EXCEPT ![r] = "getChallenge"]
       \/ Succeeds /\ in.redirect \notin uris[in.client] /\ Reject(r)
       \/ Fails /\ Reject(r)
    /\ UNCHANGED <<now, registered, uris, revoked, tokens, pkce, refresh,
                   consentVars, seen, got, lost>>

\* Redis answers nil for a key whose TTL ran out.
HasChallenge(c) == pkce[c] # NoChallenge /\ now <= pkce[c].deadline

\* ValidatePKCE, the read of the challenge.
GetChallenge(r) ==
    LET c == req[r].in.code IN
    /\ pc[r] = "getChallenge"
    /\ \/ /\ Succeeds
          /\ HasChallenge(c)
          /\ seen' = [seen EXCEPT ![r] = pkce[c].challenge]
          /\ pc' = [pc EXCEPT ![r] = "deleteChallenge"]
       \/ Succeeds /\ ~HasChallenge(c) /\ Reject(r) /\ UNCHANGED seen
       \/ Fails /\ Reject(r) /\ UNCHANGED seen
    /\ UNCHANGED <<now, registered, uris, revoked, tokens, pkce, refresh,
                   consentVars, req, got, lost>>

\* Mutant: the key to delete is built differently from the key that was set.
ChallengeLeft(c) == pkce

\* The store after PKCERepository.Delete.
WithoutChallenge(c) == [pkce EXCEPT ![c] = NoChallenge]

\* Mutant: any verifier will do.
AnyVerifier(r) == req[r].in.verifier # NoVerifier

\* Mutant: the challenge is compared with the verifier itself.
PlainVerifier(r) == seen[r] = req[r].in.verifier

\* A verifier was sent, and it hashes to the challenge that was read.
VerifierMatches(r) ==
    /\ req[r].in.verifier # NoVerifier
    /\ seen[r] = S256(req[r].in.verifier)

\* ValidatePKCE, the deferred delete: it runs whether or not the verifier is
\* right, and its error is dropped.
DeleteChallenge(r) ==
    LET c == req[r].in.code IN
    /\ pc[r] = "deleteChallenge"
    /\ \/ /\ Succeeds
          /\ pkce' = WithoutChallenge(c)
          /\ UNCHANGED lost
       \/ /\ Fails
          /\ pkce' \in {pkce, WithoutChallenge(c)}
          /\ lost' = [lost EXCEPT ![r] = @ \cup {"challenge"}]
    /\ \/ VerifierMatches(r) /\ pc' = [pc EXCEPT ![r] = "getCode"]
       \/ ~VerifierMatches(r) /\ Reject(r)
    /\ UNCHANGED <<now, registered, uris, revoked, tokens, refresh, consentVars,
                   req, seen, got>>

\* ValidateAndConsumeAuthCode, the read of the document.
GetCode(r) ==
    LET c == req[r].in.code IN
    /\ pc[r] = "getCode"
    /\ \/ /\ Succeeds
          /\ tokens[c] # NoDoc
          /\ got' = [got EXCEPT ![r] = tokens[c]]
          /\ pc' = [pc EXCEPT ![r] = "deleteCode"]
       \/ Succeeds /\ tokens[c] = NoDoc /\ Reject(r) /\ UNCHANGED got
       \/ Fails /\ Reject(r) /\ UNCHANGED got
    /\ UNCHANGED <<now, registered, uris, revoked, tokens, pkce, refresh,
                   consentVars, req, seen, lost>>

\* Mutant: the filter of the delete matches no document.
CodeLeft(c) == tokens

\* The collection after TokenRepository.DeleteBySignature.
WithoutCode(c) == [tokens EXCEPT ![c] = NoDoc]

\* Mutant: the expiry is left to the TTL index.
AcceptedAtAnyTime(r) == got[r].client = req[r].in.client

\* Mutant: the code is not tied to the client it was issued to.
AcceptedFromAnyone(r) == now <= got[r].expiresAt

\* The code has not expired and was issued to the client that presents it.
Accepted(r) ==
    /\ now <= got[r].expiresAt
    /\ got[r].client = req[r].in.client

\* ValidateAndConsumeAuthCode, the delete (an error is only a warning), and
\* then the checks: not expired, and issued to this client.
DeleteCode(r) ==
    LET c == req[r].in.code IN
    /\ pc[r] = "deleteCode"
    /\ \/ /\ Succeeds
          /\ tokens' = WithoutCode(c)
          /\ UNCHANGED lost
       \/ /\ Fails
          /\ tokens' \in {tokens, WithoutCode(c)}
          /\ lost' = [lost EXCEPT ![r] = @ \cup {"code"}]
    /\ \/ Accepted(r) /\ pc' = [pc EXCEPT ![r] = "saveRefresh"]
       \/ ~Accepted(r) /\ Reject(r)
    /\ UNCHANGED <<now, registered, uris, revoked, pkce, refresh, consentVars,
                   req, seen, got>>

\* The access token is signed, the refresh token is inserted, and both are
\* returned.
SaveRefresh(r) ==
    LET new == [by |-> r, client |-> req[r].in.client, user |-> got[r].user,
                scope |-> got[r].scope]
    IN
    /\ pc[r] = "saveRefresh"
    /\ \/ /\ Succeeds
          /\ refresh' = refresh \cup {new}
          /\ pc' = [pc EXCEPT ![r] = "issued"]
       \/ /\ Fails
          /\ refresh' \in {refresh, refresh \cup {new}}
          /\ Reject(r)
    /\ UNCHANGED <<now, registered, uris, revoked, tokens, pkce, consentVars, req,
                   seen, got, lost>>

-----------------------------------------------------------------------------
(***************************************************************************)
(* The environment.                                                        *)
(***************************************************************************)

\* Ticks are counted from the first consent; nobody looks at the clock before.
Tick ==
    /\ now < MaxTime
    /\ \E c \in Codes : page[c] # "none"
    /\ now' = now + 1
    /\ UNCHANGED <<faults, registered, uris, revoked, tokens, pkce, refresh,
                   consentVars, exchangeVars>>

\* The TTL index of migrations/mongodb/indexes.js.  It may or may not remove
\* an expired document: the script fills another database than the server
\* opens, and MongoDB's sweep runs when it pleases.
RemoveExpired(c) ==
    /\ tokens[c] # NoDoc
    /\ tokens[c].expiresAt <= now
    /\ tokens' = [tokens EXCEPT ![c] = NoDoc]
    /\ UNCHANGED <<now, faults, registered, uris, revoked, pkce, refresh,
                   consentVars, exchangeVars>>

\* The client a code was issued to posts the code itself to /oauth2/revoke,
\* which deletes a document of any type.
RevokeCode(c) ==
    /\ page[c] = "redirected"
    /\ tokens[c] # NoDoc
    /\ tokens' = [tokens EXCEPT ![c] = NoDoc]
    /\ revoked' = revoked \cup {c}
    /\ UNCHANGED <<now, faults, registered, uris, pkce, refresh, consentVars,
                   exchangeVars>>

MayChange(client) ==
    LET changed == {c \in Clients :
                       c \notin registered \/ uris[c] # RedirectURIs[c]}
    IN Cardinality(changed \cup {client}) <= MaxChanged

\* An administrator changes the URIs of a client; its codes stay.
UpdateClient(client, new) ==
    /\ MayChange(client)
    /\ client \in registered /\ new # uris[client]
    /\ uris' = [uris EXCEPT ![client] = new]
    /\ UNCHANGED <<now, faults, registered, revoked, tokens, pkce, refresh,
                   consentVars, exchangeVars>>

\* An administrator deletes a client; its codes stay.
DeleteClient(client) ==
    /\ MayChange(client)
    /\ client \in registered
    /\ registered' = registered \ {client}
    /\ uris' = [uris EXCEPT ![client] = {}]
    /\ UNCHANGED <<now, faults, revoked, tokens, pkce, refresh, consentVars,
                   exchangeVars>>

\* The process stops: the requests it was serving get no answer, the stores
\* keep what was written.
Crash ==
    /\ faults < MaxFaults
    /\ faults' = faults + 1
    /\ \/ \E r \in Requests : pc[r] \in Running
       \/ \E c \in Codes : page[c] = "saveChallenge"
    /\ pc' = [r \in Requests |-> IF pc[r] \in Running THEN "crashed"
                                                      ELSE pc[r]]
    /\ page' = [c \in Codes |-> IF page[c] = "saveChallenge" THEN "failed"
                                                             ELSE page[c]]
    /\ UNCHANGED <<now, registered, uris, revoked, tokens, pkce, refresh, grant,
                   req, seen, got, lost>>

-----------------------------------------------------------------------------
Consent ==
    \E c \in Codes :
        \/ DenyConsent(c)
        \/ \E user \in Users, form \in Form : SaveCode(c, user, form)
        \/ SaveChallenge(c)

Step(r) ==
    \/ GetChallenge(r)
    \/ DeleteChallenge(r)
    \/ GetCode(r)
    \/ DeleteCode(r)
    \/ SaveRefresh(r)

Exchange == \E r \in Requests : Step(r) \/ \E in \in Input : BeginExchange(r, in)

Environment ==
    \/ Tick
    \/ Crash
    \/ \E c \in Codes : RemoveExpired(c) \/ RevokeCode(c)
    \/ \E client \in Clients :
          DeleteClient(client) \/ \E new \in UriSets : UpdateClient(client, new)

Next == Consent \/ Exchange \/ Environment

Spec == Init /\ [][Next]_vars

-----------------------------------------------------------------------------
(***************************************************************************)
(* Properties.                                                             *)
(***************************************************************************)
Code(r) == req[r].in.code

\* The request proved that it comes from the client that the form named: by
\* its identifier, and by the verifier of the challenge in the form.
Proved(r) ==
    /\ req[r].in.client = grant[Code(r)].client
    /\ grant[Code(r)].challenge # NoChallenge
    /\ req[r].in.verifier # NoVerifier
    /\ S256(req[r].in.verifier) = grant[Code(r)].challenge

\* A refresh token that the exchange stores, answered or not, is for the
\* client and the scopes of a form that was posted with consent=allow, and for
\* the user who was logged in as it was posted, whatever other forms are
\* posted and codes exchanged; its code went back to that browser, and the
\* request that made it held the verifier; a request that is answered with
\* tokens has stored one.  (handleAuthorizationCodeGrant takes the user and
\* scopes from a document it read several operations before, and has
\* meanwhile checked another request's view of the stores.  Whether the form
\* repeats what a page showed is not the server's to know.)
IssuedAsPosted ==
    /\ \A t \in refresh :
          LET g == grant[Code(t.by)] IN
          /\ page[Code(t.by)] = "redirected"
          /\ Proved(t.by)
          /\ t.client = g.client /\ t.user = g.user /\ t.scope = g.scope
    /\ \A r \in Requests : pc[r] = "issued" => \E t \in refresh : t.by = r

\* A request that arrives after the code expired gets no tokens, even while
\* the challenge, which is stored later and lives as long, is still there
\* and although nothing removes the expired document.
\* (ValidateAndConsumeAuthCode's expiry check.)
ExpiredNeverRedeemed ==
    \A r \in Requests :
        pc[r] = "issued" => req[r].began <= grant[Code(r)].expiresAt

\* Two exchanges of one code that do not overlap both get tokens only if the
\* first one failed to delete the challenge and also failed to delete the
\* code.  (Both errors are dropped in internal/services/token.go.)
ReuseNeedsTwoLostDeletes ==
    \A r, s \in Requests :
        /\ pc[r] = "issued" /\ pc[s] = "issued"
        /\ Code(r) = Code(s)
        /\ s \in req[r].before
        => lost[s] = {"challenge", "code"}

\* An exchange that found the challenge uses it up, with the right verifier
\* or a wrong one: once it has answered, no later exchange of the code gets
\* tokens unless that delete was lost.  (The deferred delete of ValidatePKCE.)
AttemptBurnsCode ==
    \A r, s \in Requests :
        /\ pc[r] = "issued" /\ Code(r) = Code(s)
        /\ s \in req[r].before
        /\ pc[s] # "crashed" /\ seen[s] # NoChallenge
        => "challenge" \in lost[s]

\* A code that reached the browser and that no request has looked at is
\* backed by its challenge for as long as its document is valid: consent
\* stores the challenge after the code and gives it the same lifespan.
\* (handleConsent's order of the two saves, the lifespans of token.go:19-24.)
ChallengeOutlivesCode ==
    \A c \in Codes :
        /\ page[c] = "redirected"
        /\ grant[c].challenge # NoChallenge
        /\ \A r \in Requests : Code(r) = c => seen[r] = NoChallenge
        => /\ pkce[c] # NoChallenge
           /\ pkce[c].challenge = grant[c].challenge
           /\ grant[c].expiresAt <= pkce[c].deadline

\* Nobody but r has presented r's code.
Sole(r) == \A s \in Requests \ {r} : pc[s] # "idle" => Code(s) # Code(r)

\* The request is refused although its client exists and had registered its
\* URI when it was looked up, nothing failed, nobody else tried the code, its
\* own client did not revoke it and it is still valid.
RefusedForNoReason(r) ==
    /\ pc[r] = "rejected"
    /\ faults = 0
    /\ req[r].in.client = grant[Code(r)].client
    /\ req[r].in.redirect \in req[r].uris
    /\ Sole(r)
    /\ Code(r) \notin revoked
    /\ now < grant[Code(r)].expiresAt

\* A client that shows the right verifier is never refused without a reason,
\* also when it is changed or deleted while its request runs.
HonestExchangeSucceeds ==
    \A r \in Requests : Proved(r) => ~RefusedForNoReason(r)

\* The document of a code that is still valid disappears only in an exchange
\* of its verifier, or in a revocation by its client: a wrong verifier or a
\* crash leave it in the store.
OnlyProofConsumes ==
    [][\A c \in Codes :
          tokens[c] # NoDoc /\ tokens'[c] = NoDoc
          => \/ tokens[c].expiresAt <= now
             \/ c \in revoked'
             \/ \E r \in Requests :
                   /\ Code(r) = c
                   /\ S256(req[r].in.verifier) = grant[c].challenge]_vars

-----------------------------------------------------------------------------
(***************************************************************************)
(* What the documentation promises and the code does not do.               *)
(***************************************************************************)

\* docs/FLOWS.md calls the code one-time: two requests never both get tokens
\* for it.  The handler reads the challenge and the code before it deletes
\* either, and never looks at how many documents its delete removed.
OneTimeCode ==
    \A r, s \in Requests :
        pc[r] = "issued" /\ pc[s] = "issued" /\ Code(r) = Code(s) => r = s

\* docs/API.md: the redirect_uri of the token request must be the one of the
\* authorization request.  The code checks only that the client has registered
\* it at the time of the token request.
RedirectMatches ==
    \A r \in Requests :
        pc[r] = "issued" => req[r].in.redirect = grant[Code(r)].redirect

=============================================================================
