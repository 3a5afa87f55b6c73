# Verification of authexa, an OAuth 2.0 / OpenID Connect provider

TLA+ models of the provider in `src/`, the TLC configurations that check them on
small instances, and TLAPS proofs of the safety of each of them for every value of
their constants. `PROJECT.json` ties each definition to the source lines it stands
for, each run to its properties, and each property to a plausible bug that it
notices.

## 1. The system

The server is one Go process behind a load balancer, possibly several. Every
HTTP request runs in a goroutine of its own. What requests share is MongoDB
(`users`, `clients`, `tokens`, `audit_events`), Redis (`session:<id>`, `pkce:<code>`,
the budgets of the rate limiters) and, in memory, one error value
(`utils/errors.go:45`). **A handler is a sequence of store operations,
each atomic by itself, with nothing around the sequence: no transaction, no lock,
no compare-and-set.** That is where the correctness of this program is decided,
and it is what the models keep: one action per store operation, the computation
between two operations folded into one of them.

| Component | State | Operations | Interacts with | Hard behaviour | Correct when |
|---|---|---|---|---|---|
| Authorization code grant (`handlers/auth.go`, `services/token.go`, `redis/pkce.go`) | a document per code, a challenge per code | consent POST, exchange | clients, sessions, refresh tokens | read and delete are two operations in two stores; delete errors are dropped; two expiries | tokens are what the posted form asked for; one attempt uses a code up; an honest client is never refused without a reason |
| Device grant (`handlers/auth.go`, `handlers/frontend.go`) | one document per device code, found by two keys | device authorization, code entry, consent page, approval, poll | clients, sessions, refresh tokens | browser and device race on one document; approval replaces the whole document; user codes are not unique | tokens are for the approving user and the asking client; a used code does not come back; approval is seen |
| Refresh tokens (`auth.go`, `revocation.go`, `introspection.go`) | one document per token | refresh, revoke, introspect | clients | read first, act later; failed deletes reported as done | revoked and expired tokens buy nothing; nobody else can take a token away |
| Access tokens: client credentials, JWT bearer, userinfo, introspection, JWKS (`auth.go`, `userinfo.go`, `introspection.go`, `utils/jwt.go`, `jwks.go`) | none stored: signed tokens, a key identifier per start | buy, verify, publish keys | clients, users, resource servers | the client is read once and acted on later; the key identifier changes with each start, caches do not | a token is covered by one registration; userinfo tells of living users; a restart costs at most the cache's age |
| Login, sessions, access control (`frontend.go`, `middleware/auth.go`) | session in Redis, user in MongoDB | login, logout, RequireAuth, RequireAdmin | users | session outlives user, role or logout | no session beyond logout, deadline, user; only admins administer |
| User administration (`services/user.go`, `admin.go`) | user documents | create, update, delete | sessions | read-modify-replace | deleted users stay deleted; passwords are kept |
| Client registry and audit (`services/client.go`, `services/audit.go`) | client documents, audit events | create, update, delete | every grant | read-modify-replace; two stores of one creation | secret survives; updates do not mix |
| Startup, shutdown (`cmd/server/main.go`) | listener, goroutine, stores, deferred calls | start, signal, drain, exit | everything | any step of startup may fail; order of the exit; a send nobody receives | stores outlive requests; nothing stays open; a signal ends the process; a clean exit served everybody |
| Health check (`services/health.go`) | goroutines, channel, wait group | check | the stores, while the process closes them | sends while nobody receives, close after send | always answers, and truly |
| Router, CSRF, rate limiter, error responses (`server/router.go`, `middleware/ratelimit.go`, `utils/errors.go`) | budgets in Redis, the shared error value | limit, protect, answer | every handler | Redis fails while it counts; requests write one error value | limits hold; no answer tells another request's error |
| Discovery, scopes, metrics, logging, CORS, templates, validation, crypto, statistics | none of their own | around a handler | all | | not modelled, section 8 |

`PROJECT.json` lists every component with its status, and the hazards of this
code, each at its line.

## 2. The modules

| Module | What it is |
|---|---|
| `OneTimeGrant` | abstract specification: a thing handed out once, redeemed by whoever found it open |
| `AuthorizationCode` | consent and exchange, one action per store operation |
| `AuthorizationCodeGrant` | the refinement mapping of `AuthorizationCode` to `OneTimeGrant` |
| `AuthorizationCodeInvariant`, `AuthorizationCodeProofs` | its inductive invariant, in named parts, and its theorems |
| `DeviceFlow`, `DeviceGrant` | the device grant, and its mapping to the same `OneTimeGrant` |
| `DeviceFlowInvariant`, `DeviceFlowProofs` | its inductive invariant and its theorems |
| `Lease` | abstract specification: a thing used again and again until it is over, for good |
| `RefreshTokens`, `RefreshLease` | refresh, revocation, introspection; the mapping to `Lease` |
| `RefreshTokensInvariant`, `RefreshTokensProofs` | its inductive invariant and its theorems |
| `AccessTokens`, `AccessTokensProofs` | client credentials, assertions, userinfo, introspection of JWTs, key set and restarts; invariant and theorems |
| `AtomicRegistry` | abstract specification: documents whose creations, updates and deletions are atomic |
| `Sessions`, `SessionsProofs` | login, logout, the two guards, creation, update and deletion of users; invariant and theorems |
| `UserRegistry`, `SessionLease` | the mappings of `Sessions` to `AtomicRegistry` (its users) and to `Lease` (its sessions) |
| `ClientRegistry`, `ClientRegistryProofs` | creation, update, deletion of clients; the audit event; invariant and theorems |
| `ClientRegistryAtomic` | the mapping of `ClientRegistry` to `AtomicRegistry` |
| `ServerProcess`, `ServerProcessProofs` | the life of the process with its requests; invariant and theorems |
| `HealthCheck` | the goroutines of `/healthz`, instantiated by `ServerProcess` |
| `RequestPipeline`, `RequestPipelineProofs` | limiters, CSRF check, routes, error helpers; invariant and theorems |
| `MC*` | instances of these for TLC (symmetry, functions a cfg cannot write) |

The grants meet in the stores and nowhere else, so a module models the part of
another component that touches its documents as an action of its environment: the
deletion of a client (`DeleteClient`), a change of its redirect URIs
(`UpdateClient`), the revocation of a code or device code
(`RevokeCode`, `RevokeDeviceCode`: `/oauth2/revoke` does not ask what kind of token
it deletes), the TTL index (`RemoveExpired`), the end of the process (`Crash`).
`RefreshTokens` takes over where the two grants end: its `Issue` is their last
insert; `IssueForUser` of `AccessTokens` is their signature. `ServerProcess` and
`HealthCheck` are composed: a health check is one of the requests of the process,
`CheckStep` is a step of `HealthCheck` in which a ping succeeds only while the
process has that store open, and `Accept` is the beginning of one.

### Conventions of all models

*Faults.* A store operation succeeds (`Succeeds`), or uses up one of `MaxFaults`
(`Fails`). One that fails may have been applied all the same, as with a timeout or
a cancelled request context; both outcomes are explored. `Crash` ends all running
requests; the stores keep what was written. `ServerProcess` has no bound on faults:
each of its steps fails at most once.

*History.* Some variables record what no store keeps, so that properties can speak
of it: when a request came and which requests had ended by then (`began`,
`before`), what was asked for (`grant`, `asked`, `minted`, `opened`), which
deletes were lost (`lost`), which documents were stored while a request ran
(`seen`, `keys`). No guard of a handler reads them, with one exception: the
name of a consent, device or session is its secret, so looking up the record of a
secret looks up the record of its owner.

*Data.* Codes, tokens and session identifiers are random and long; two draws are
never equal in the models. User codes of the device flow are short, and two may be
equal. A signature or hash is a one-to-one function of its input; a scope string is
one opaque value, except in `AccessTokens`, where it is a set; a secret is right or
wrong.

*Time* is `now`, in ticks, up to `MaxTime`. The TTL index may or may not remove an
expired document: the migration script fills the database `oauth2_provider`
(`migrations/mongodb/indexes.js:6`) while the server opens `authexa`, and MongoDB's
sweep is late by design. Redis, in contrast, never returns an expired key.

### How state and actions correspond to the code

**AuthorizationCode.** `tokens[c]` is the MongoDB document, `pkce[c]` the Redis
entry, `page[c]` the progress of the consent, `uris[client]` the redirect URIs in the
client's document, `pc[r]` the next store operation of token request `r`; `seen[r]` and
`got[r]` are its locals. The consent is the POST alone: the GET validates what it shows
and keeps nothing, and the handler of the POST takes client, redirect URI, scope and
challenge from the form without another check (`handlers/auth.go:124-150`). So
`SaveCode` stores a code for *any* form, `SaveChallenge` its challenge (the code is
stored first, its challenge later), and `DenyConsent` is a POST without `consent=allow`.
An exchange is `BeginExchange` (client, secret, and a redirect URI that the client has
registered *now*), `GetChallenge`, `DeleteChallenge`
(the deferred delete of `ValidatePKCE`, right verifier or not), `GetCode`,
`DeleteCode` (with the expiry and client checks that follow it) and `SaveRefresh`.

**DeviceFlow.** `codes[d]` is the document, `device[d]` the device, `browser[u]`
the user, `poll[p]` the token request. The browser looks the user code up three
times: `EnterCode`, `ShowDevicePage`, `ReadForApproval`; `WriteApproval` replaces
the document that the last look-up copied. A poll is `ReadForPoll`,
`DeleteForPoll`, `SaveForPoll`.

**RefreshTokens.** One `CheckCredentials`, then by the kind of the request
`ReadForRefresh`, `DropExpired`, `Sign`; `ReadForIntrospect`; `ReadForRevoke`,
`Delete`. A refresh does not use the token up, so `AfterUse` changes nothing.

**AccessTokens.** `jwts` is every token signed so far, each with the start of the
process whose key identifier it carries (`kid`). Client credentials are
`CheckCredentials` and `Sign`; an assertion is `ReadAssertion` (the client that it
names, before any signature is looked at), `FetchKeys`, `Sign`; userinfo is
`VerifyForUserInfo`, `ReadUser`; introspection is `AuthenticateCaller`,
`VerifyForIntrospect`. `Change` is an administrator or the client's owner,
`Restart` the end and the next start, `cache` and `FetchKeySet` a resource server
that honours `Cache-Control`.

**Sessions.** `Authenticate`, `SaveSession`, `RecordLogin` are the login; `ReadSession` and
`ReadUser` are `RequireAuth`, `CheckRole` is `RequireAdmin`, which looks at the copy
`ReadUser` made; `InsertUser`, `ReadForUpdate` / `WriteUpdate` and `DeleteUser` are the
calls behind both. Users are named by their `_id`, as in a session; usernames are not
modelled.

**ClientRegistry.** `Insert` and `Record` are a creation, `Read` and `Write` an
update, `Remove` a deletion.

**ServerProcess.** `main` is where `run()` is, `waiter` the goroutine that waits for
the signal, `store[s]` the client of a store. `StartupStep` and `StartupFails` take
`run()` through configuration, MongoDB, Redis, the JWT manager and the templates;
`StartupFatal` is the `log.Fatal` after a failed test of Redis. `Signal` is
`http.Server.Shutdown` closing the listener, `Drained` or `DrainTimeout` its return,
`StopServing` the return of `ListenAndServe`, `Report` the send and the receive on
the unbuffered channel, `CloseStore` a deferred call.

**HealthCheck.** `main[c]` is the request (`check` in `ServerProcess`), `probe[c][s]`
a goroutine, `results[c]` the buffered channel, `waiting[c]` the wait group.

**RequestPipeline.** `pc[r]` is the layer a request is in: `GlobalLimit`, `Protect`
(CSRF and the mux), `ClientLimit`, `Handle`. `bucket` holds what the limiter, a
library, would still let pass for a key. The key of the first limiter is the address that
the headers `X-Forwarded-For` and `X-Real-Ip` name, and the connection's only if they
name none (`CountedIp`, `middleware/util.go:31-43`); that of the second is the `client_id`
in the body, which nobody has authenticated yet. `bodies` is what was written to the
client, and whether it tells of the request's own `Mistake` or of a `Fault` that the
server met while serving it. An error that is no `AppError` goes through
the shared `ErrInternal`, whose field `Err` is an interface and so two words in
memory; Go does not make their assignment atomic, so writing and reading are two
steps each (`SetType`, `SetData`, `ReadType`, `ReadData`), and `Torn` is what
calling a method of a mixture may do.

## 3. The abstract specifications

Three specifications say what the provider promises in the words of no store. Each is
implemented by two components, through a mapping module of its own.

`OneTimeGrant`, of a code: a request *enters* while the grant is open, *wins* only after
it has been closed, and a closed grant is closed for good, unless the store lost the
closing (`leaked`). Several may have entered before the closing, and each of them may
win; the specification allows that because the code does. Its consequence
`NobodyEntersAfterAWin`: after the first win the set of those that entered never grows.
For an authorization code the door is the *challenge in Redis*: open while it is
stored, entered by reading it. For a device code the door is the *document*.

`AtomicRegistry`, of the documents that an administrator keeps: a call takes effect at
most once and all at once, between its invocation and its answer; a call that is
answered as done did take effect; an id is used once (`GoneForGood`) and a document
keeps its key (`KeysStay`). It is the linearizability of the two services, which lock
nothing. An update reads a document in one operation and replaces it in another, so
the moment at which it takes effect is its *write*: everything that others wrote in
between is either a field that this update sets as well or the key, which nobody sets.
A failed call may have taken effect or not, and can not do so later. For a client the
key is its secret and the fields are what an update sets. For a user the field is the
role, and *the password is left out*: an update without one writes back what it has
read, and is not atomic in it (`SessionsLostPassword`, section 7).

`Lease`, of what is used again and again until it is over, a refresh token or a
session: a use is let in only if at some moment after it asked the lease was live, and
what is over never becomes live again. A use that is in when the lease ends goes on. A
token is live while its document is stored and its time is not over, whether or not the
TTL index has come; a session while Redis answers with it. Its consequence is
`OverForGood`. One step may end several leases and several uses: a crash in the middle
of a login does, and so does the clock.

`ImplementsOneTimeGrant` and `ImplementsAtomicRegistry` are properties of runs and
theorems; `ImplementsLease` is a theorem for both of its components.

## 4. The runs

Run with `tlc -workers 2 -config <run>.cfg <module>`. Deadlock checking is off in all
of them: every model has finitely many requests, and a state in which all of them are
answered and the clock is at its bound has no successor and is no error.

| Run | Instance | What it shows |
|---|---|---|
| `AuthorizationCode` | 1 code, any form, 2 exchanges, 2 clients, one of which is changed or deleted, 1 user, 2 verifiers, lifespans of 1 tick, 2 ticks, 2 faults | tokens are what the posted form asked for; expiry; the challenge does not run out before the code; an honest client succeeds; a code is used again by a later exchange only if *both* deletes of the earlier one were lost; an attempt burns the code; only a proof or a revocation consumes it; refinement |
| `DeviceFlow` | 1 device, 2 users, 2 polls, 2 ticks, 2 faults | approval is seen, expired codes buy nothing, reuse needs a lost delete, refinement |
| `DeviceFlowCollision` | 2 devices, 2 user codes, 2 users, 2 clients, 1 poll, 1 fault | tokens go to the client that asked, for a user who approved that code, although user codes may collide |
| `RefreshTokens` | 1 token, 2 requests, 2 clients, 2 ticks, 1 fault | a revocation is final, expiry, a live token works, only the owner buys or revokes |
| `AccessTokens` | 1 client with two possible registrations, 1 user, 2 requests, 3 assertions, 1 tick, 2 starts, 1 change, 1 fault | tokens are covered by one registration; userinfo and introspection tell the truth; a live token is accepted after a restart; a resource server's refusals end with the age of its cache |
| `Sessions` | an administrator, a user, a user to be created, 1 session, 2 requests, 2 ticks, 1 fault | deleted user, logout, session age, roles; changes of users are atomic but for the password, and nobody deleted comes back |
| `ClientRegistry` | 1 client, 3 requests, 2 secrets, 2 faults | the secret stays and updates do not mix, every call is atomic, a deleted client does not come back, audit |
| `ServerProcess` | 2 requests and a health check, any failure of startup, signals at any time | stores outlive requests, nothing stays open, a clean exit served everybody, a signal ends the process; no send on a closed channel, true answers, every check answers |
| `RequestPipeline` | 3 requests: of every kind of route from one address, and token requests of one client from two addresses, each naming the other; budgets 2 and 1, a tick, a failure of Redis; a production server and two development ones | answers tell nobody else's error and a 500 tells none, log lines only those of concurrent requests, limits are kept for each address and client that requests name |
| `AuthorizationCodeOneTimeCode` | violation | two overlapping exchanges of a code both get tokens |
| `AuthorizationCodeRedirectMatches` | violation | a redirect URI other than the form's is accepted, if the client has registered it |
| `SessionsLostPassword` | violation | an update without a password puts an old one back |

*Why the bounds are enough.* The properties of a code, token, user or client relate
at most two of its requests, and their adversary is the clock, the faults or a third
actor that the modules have as an action of its own (a revocation, a deletion, the
TTL index, an administrator). Two faults let both deletes of one exchange be lost. In
`AuthorizationCode` an administrator changes at most one client (`MaxChanged`), since an
exchange looks at one, and ticks are counted from the first consent: nobody looks at the
clock before.
Lifespans of one tick with a clock that passes them give every order of "before, at,
after the expiry" for the reads and writes of a request. Documents of different codes
are never compared except by user code, so one code suffices everywhere but in
`DeviceFlowCollision`, where two devices may have one or two user codes.
`AccessTokens` needs two starts, since a key identifier is only compared with the
present one, and a cache that was filled before. In `RequestPipeline` three requests
let two of them mix the words of the shared error under the eyes of a third, and
exceed both budgets. Where a theorem exists (section 6) it removes the bounds on
requests, time and faults altogether.

*Symmetry* is over requests (polls), users of `DeviceFlow`, and verifiers: no `CHOOSE`
and no constant of the model tells their elements apart, and the runs that use it check
only invariants and action properties. The run with liveness, `ServerProcess`, uses none.

*Type invariants.* Every module has one, `TypeOK`. No run lists it: it is proved, as a
theorem of its own or as a conjunct of the inductive invariant.

*Mutants.* For each property of a passing run `PROJECT.json` names an operator, defined
next to the definition it replaces and marked "Mutant", that is a plausible bug in the
code (a forgotten delete, an upsert for a replacement, a TTL in the wrong unit, one
place too few in a channel); with it the run fails.

## 5. Fairness

The safety models assume none. `ServerProcess` assumes that `run()` goes on when it
can (`Main`; the Go scheduler is fair), that the goroutine's `Shutdown` call ends, by
itself or because its context does after thirty seconds (`cmd/server/main.go:220`;
`Drained \/ DrainTimeout`), and that the goroutines of a health check run and its
pings end: they have a timeout of two seconds (`services/health.go:32,48`).
`HealthCheck` has no specification of its own. No fairness is assumed for requests:
`SignalEndsProcess` holds although a request may run forever. None is assumed for
signals, clients, users or devices anywhere.

## 6. What is proved

For any number of codes, tokens, clients, users, requests, ticks, starts and faults.
Every module's constants have named assumptions, evaluated by its run, and the proofs
use no others.

| Module | Theorems (the property of a run it states, if it has another name) |
|---|---|
| `AuthorizationCodeProofs` | `TypeCorrect` (`TypeOK` and `ReadBeforeUse`), `InvariantHolds`, `PostedFormRespected` (`IssuedAsPosted`), `ExpiryRespected` (`ExpiredNeverRedeemed`), `SingleUse` (`ReuseNeedsTwoLostDeletes`), `AttemptsBurn` (`AttemptBurnsCode`), `ChallengeOutlives` (`ChallengeOutlivesCode`), `ProofConsumes` (`OnlyProofConsumes`), `HonestAreServed` (`HonestExchangeSucceeds`), `Refinement` (`ImplementsOneTimeGrant`), `NoLateEntry` (`NobodyEntersAfterAWin` through the mapping), `OneTimeInTurn` (`OneTimeCode`, under a condition) |
| `DeviceFlowProofs` | `InvariantHolds`, `TokensAreAllowed` (`IssuedAsAllowed`), `ExpiryRespected` (`ExpiredNeverIssues`), `ApprovalSeen` (`ApprovalIsSeen`), `SingleUse` (`ReuseNeedsLostDelete`), `Refinement` (`ImplementsOneTimeGrant`), `NoLateEntry` |
| `RefreshTokensProofs` | `InvariantHolds`, `RevocationIsFinal` (`RevokedForGood`), `ExpiryIsRespected` (`ExpiredIsDead`), `OnlyItsClientBuys` (`BoughtByItsClient`), `OnlyTheOwnerRevokes` (`OnlyOwnerRevokes`), `LiveTokensWork` (`LiveTokenWorks`), `TokenIsLease` (`ImplementsLease`), `TokenOverForGood` (`OverForGood`) |
| `AccessTokensProofs` | `InvariantHolds`, `IssuedCovered` (`IssuedAsRegistered`), `AnswersTrue` (`AnswersAreTrue`), `LiveAccepted` (`LiveTokenAccepted`), `RefusalsEnd` (`RefusalEndsWithMaxAge`) |
| `SessionsProofs` | `InvariantHolds`, `DeletedStayOut` (`DeletedUserIsOut`), `LogoutIsFinal` (`LoggedOutIsOut`), `SessionsEnd` (`OldSessionIsOut`), `AdminsOnly` (`OnlyAdminsChangeUsers`), `DeletionIsFinal` (`DeletedForGood`), `RegistryIsAtomic` (`ImplementsAtomicRegistry`), `SessionIsLease` (`ImplementsLease`), `SessionOverForGood` (`OverForGood`), `PasswordLostByOverlapOnly` (`PasswordKeptUnlessGiven`, under a condition) |
| `ClientRegistryProofs` | `InvariantHolds`, `StoredWhole` (`StoredAsAsked`), `DeletionIsFinal` (`DeletedForGood`), `CreationsLogged` (`CreationsAreLogged`), `RegistryIsAtomic` (`ImplementsAtomicRegistry`), `GoneAndKept` (`GoneForGood`, `KeysStay`) |
| `ServerProcessProofs` | `InvariantHolds`, `StoresOutlive` (`StoresOutliveRequests`), `ExitReleases` (`ExitReleasesStores`), `CleanExit` (`CleanExitServedAll`), `HealthInvariant`, `NobodySendsAfterClose` (`NoSendAfterClose`), `AnswersAreTrue` (`AnswerIsTrue`), `TypeCorrect` (`TypeOK`), `ShutdownNeverStuck`, `ShutdownIsShort`, `CheckNeverStuck`, `ChecksAreShort` |
| `RequestPipelineProofs` | `TypeCorrect` (`TypeOK`), `AnswersTellOwn` (`AnswersAreOwn`), `LogLinesAreConcurrent` (`LoggedErrorIsConcurrent`), `LimitsKept` (`LimitsAreKept`) |

### Why an invariant is needed, and which

Hardly any of the properties is inductive: each speaks of an answer, and whether the
answer is right was decided by what a handler read some steps before. The invariants
say, point by point of a handler, what its locals still have to do with the stores.

**AuthorizationCode** (`AuthorizationCodeInvariant`). That a later exchange gets nothing
depends on what an earlier one left in the stores, and that on how far it came:

- `ReadBeforeUse`: a request past `GetCode` holds a document, without which even the
  types of the next step do not hold;
- `StoresRepeatConsent`: document and challenge repeat the consent, and the challenge's
  deadline is no earlier than the document's expiry. It needs the instant between the
  two saves: while the challenge is not yet saved, the expiry is at most `now +
  CodeLifespan`;
- `PresentedWasRedirected`: a presented code reached the browser, so its consent does not
  change any more;
- `ReadsRepeatConsent`: what a request has read, point by point of its handler;
- `RefreshRepeatsConsent`: a stored refresh token repeats the consent of its request;
- `DeletesAreFinal`: a delete that was tried and not lost has emptied its store, and
  nothing fills it again;
- `LaterFindsNothing`: a request that began after another had ended finds only what that
  one left. `SingleUse` and `AttemptsBurn` are corollaries of the last two;
- `ChallengeKept`: the challenge is there until somebody reads it.

`HonestAreServed` adds one part, stated with its proof: `DocumentWaits`, by which a valid
code that its client has not revoked is in the store until a request comes to its delete.
No reason to refuse then applies to a request that is alone with its code. One reason is
that its redirect URI was not registered when the request looked its client up, whatever
was registered before.

For the refinement, `StepRefines` shows that a step is a step or a stutter of
`OneTimeGrant`: most actions stutter, `SaveChallenge` opens, `GetChallenge` enters,
`DeleteChallenge` closes or leaks, `SaveRefresh` wins. *Assumptions*: lifespans
are positive and `CodeLifespan <= PKCELifespan`, which in the code are two equal constants
(`services/token.go:19-24`); S256 is one-to-one by construction.

**DeviceFlow** (`DeviceFlowInvariant`). Documents are copied, by pages, approvals and
polls, and a copy comes back whole. `StoresRepeat`, `PagesRepeat` and `ReadsRepeat` say
that each copy is the document that the device asked for, but for its user, and that the
user, if any, allowed it; `ApprovalsStay` that a confirmed approval is in the document as
long as there is one; `UsedUp` and `LaterFindsNothing` are as above. No assumption says
that user codes differ.

**RefreshTokens** (`RefreshTokensInvariant`). `DocumentsAreAsMinted`,
`RequestsAreEntitled` (secret, client and expiry as they were checked),
`RevocationsAreFinal`, `LaterFindsNothing` (a later request never reaches the signing),
`AccessIsIssued` (an access token points to a request that has ended, whose record is
therefore fixed). `LiveTokensWork` adds `LiveIsThere`: while nothing fails and no
revocation by the owner has begun, the document of a token that has not expired is the
one that was minted.

**AccessTokens.** `PresentIsSeen`: while a request runs, what is stored of its client is
among what it has `seen`, so that a document read at any moment is; `CopyEntitles`: the
copy it acts on entitles it, and an assertion was proved with a key it has seen;
`SignersAreDone`; `TokenWasLive`; `CacheIsOld`: the key set in a cache is of this start
or was fetched before it.

**Sessions.** `SessionsAreOpened` and `LogoutsAreFinal` tie a stored session to its login
and logout; `BeginningStays`: who was deleted when a request came is deleted still;
`SessionWasLive`: what `RequireAuth` found; `AdminsAreSeen`: the admins of this moment are
among those that a running request has seen, so that the copy that `RequireAdmin` looks
at, however old, is of one of them.

**ClientRegistry.** `OneCreation` and `InsertComesFirst`: an insert finds no document and
no deletion comes before it; `CopiesRepeat`: the copy of an update has the secret of the
creation; `StoredOrDeleted`.

**ServerProcess.** `StartupOpens`, `ListenerIsServed`, `DrainedOrGaveUp` (a goroutine past
`Shutdown` leaves no request, or gave up), `VerdictIsReceived`, `RequestsAreServed`.
For the health checks: `WaitersCounted` (the `WaitGroup` holds the number of goroutines
that are not done), `ProbesFollow`, and `ToldOnce`, by which what the handler has received
together with what waits in the channel names each store that has sent, once.

**RequestPipeline.** `AnswersTellOwn` needs that only a request that has begun was
answered, and that its route stays what it was. `LogLinesAreConcurrent` needs that the words of `ErrInternal` a
request reads after having written them are of requests that had not ended when it began. `LimitsKept` counts both ways: what a
limiter has let through is what has run and what is still on its way to a handler, and
what it has counted is at most the requests that have begun under that key. Only finitely many have, at
any time, so that `Requests` itself may be infinite.

### The refinements

*Atomic registry.* Each store operation is one step of `AtomicRegistry` or a stutter:
the read of an update stutters, its write is `Effect`, an insert that is followed by the
audit event is `Effect` and its record is `Answer`, a failed operation is an `Effect`
that ends in "over" or a `GiveUp`, and a crash is a `GiveUp` of everybody. That the write
is atomic needs the invariant: what it writes back has the key that is stored
(`CopiesRepeat`), and the document it replaces is of the same creation, since an id is
inserted once (`OneCreation`, `InsertComesFirst`; for users `born`).

*Lease.* `StepRefines` of `RefreshTokensProofs` and `LeaseStep` of `SessionsProofs` have
one case per kind of step: one that lets requests in or go, one that grants, one that
ends. That a lease is granted once needs, of tokens, that a document is stored only when
it is minted (`MintedStays`, `StateMoves`), and of sessions, that Redis has none before
the login has saved it (`SavedByLogin`, an invariant stated with the proof), so that a
session the TTL removed is not taken for one that is still to come.

*From the abstract specification to the code.* `NoLateEntry`, `GoneAndKept`,
`TokenOverForGood` and `SessionOverForGood` are the consequences of the abstract
specifications, stated of the stores of the code through the mapping.

### How far two of the disagreements of section 7 go

A counterexample says that a promise is broken, a theorem how far:

- `OneTimeInTurn`: a code is one-time unless two exchanges that got tokens overlapped, or
  one exchange lost both its deletes.
- `PasswordLostByOverlapOnly`: in every behaviour in which no two updates of one user are
  between their read and their write at the same time, a password changes only if one
  was given, whatever deletions, creations, logins and crashes run.

About `redirect_uri` there is no such theorem: the form's URI is not checked and the
client's URIs change, so nothing ties the two together, however few a client has.

### What is proved about progress

`SignalEndsProcess` and `EveryCheckAnswers` say that something eventually happens. The
argument has a part without fairness, which is proved for any number of requests and
checks: as long as the process has been told to end and has not
(`ShutdownNeverStuck`), one of the steps that lead to the end can be taken
(`ShutdownGoesOn` lists their guards) and `ShutdownLeft`, the number of steps left, is at
most eight; every step of the process makes it smaller, and no step of a request
changes it (`ShutdownIsShort`). The same holds of a health check with at most ten steps
(`CheckNeverStuck`, `ChecksAreShort`): the goroutines never wait for room in the channel,
because it has a place for each, and the wait group is at zero when they are gone. What
is left to TLC is that a scheduler which is fair takes these steps.

### How the proofs are laid out

The proofs have one lemma per part of an invariant. In the larger modules the parts do
not go through the actions one by one: *change lemmas* (`RequestChange`, `ClientsChange`,
`LoginsChange`, ...) say once what any step may do to one document, session or
request, with one case per action, and the parts follow from these.

*What TLAPS cannot do here.* Liveness under fairness and `ENABLED` stay with TLC
(`SignalEndsProcess`, `EveryCheckAnswers`); the guards in `ShutdownGoesOn` and
`CheckGoesOn` are written out for that reason. Induction over data and `RECURSIVE`
definitions are not needed: no model has a recursive definition.

*Only model-checked*: the two liveness properties. Every invariant and action property of
a run that must pass is a theorem.

## 7. Where code, documents and comments disagree

With a run (listed as findings):

- **One-time code.** `docs/FLOWS.md:38` calls the code one-time. The challenge and the code
  are read and then deleted, and no delete's count is looked at: overlapping exchanges
  both succeed (`AuthorizationCodeOneTimeCode`). `ReuseNeedsTwoLostDeletes` shows that
  overlap is the only way while the stores work.
- **redirect_uri.** `docs/API.md:45` says "Must exactly match"; the exchange asks only
  whether the URI is registered at the time of the token request
  (`AuthorizationCodeRedirectMatches`).
- **Password.** `services/user.go:87` says a password changes only if one is given; an
  overlapping update puts the old hash back (`SessionsLostPassword`).

Met while reading, without a run:

- The consent POST repeats none of the checks of the page: client, redirect URI, scope and
  challenge are what the form says (`handlers/auth.go:124-150`). `IssuedAsPosted` therefore
  speaks of the form that was posted and not of what a page showed.
- `web/templates/auth/consent.html:27-31` repeats every query parameter of the page's URL
  before its two buttons, and `handlers/auth.go:139` reads the first value of `consent`. If
  the URL has `consent=allow`, the button Deny posts what counts as Allow.
- `handlers/auth.go:427` answers `invalid_grant`, status 400, with the text of any error of
  `ValidatePKCE`, also that of a failure of Redis (`services/token.go:215`), and `/healthz`
  tells the errors of its pings; every other failure of a store is answered with a fixed
  sentence (`AnswersAreOwn`).
- The limits of `middleware/ratelimit.go` are per *named* address and per *named* client:
  `middleware/util.go:31-43` believes `X-Forwarded-For` and `X-Real-Ip` from anybody, and the
  `client_id` is read before it is authenticated. Behind a proxy that sets these headers
  the address is the sender's; without one the budget of an address is no bound for a
  sender, and may be used up by others (`LimitsAreKept` says what is left).
- `handlers/auth.go:115` and `:245` pass `ErrInternal` itself, with whatever `Err` an earlier
  request left in it. Both are behind `RequireAuth`, which has set the user they miss, so
  neither is reached, and the model leaves them out.
- A code requested without `code_challenge` can never be exchanged: `ValidatePKCE` refuses a
  missing challenge (`services/token.go:210`), while `docs/API.md:48` makes
  `code_verifier` required only "If PKCE".
- A pending device poll is answered 428 (`handlers/auth.go:647-650`); `docs/FLOWS.md:139` and
  `docs/API.md:153` say 400.
- `revocation.go:58` says that revoking a refresh token "prevents new access tokens from being
  issued". A refresh that has read the token before still signs one. `RevokedForGood`
  therefore speaks of requests that begin after the revocation.
- `revocation.go:75-82` answers, and logs, "revoked" although the delete failed.
- `.env.example` sets a refresh lifespan of 168 h; `services/token.go:21` has 30 days and reads no
  setting.
- `introspection.go:72` reads `NotBefore` of any verified JWT; an ID token has none, and the
  handler panics (the outcome `panic` of `AccessTokens`).
- `utils/crypto.go:53` speaks of 43 characters, the value has 44.
- `utils/errors.go:45-49` shares one `ErrInternal` whose `Err` concurrent requests set: the log
  line of an internal error may carry another request's (`LoggedErrorIsConcurrent` says how
  far this can go).
- `utils/jwt.go:41,56` speak of a newly generated RSA key pair; the key comes from the
  configuration, and only its identifier is new at each start.
- `cmd/server/main.go:59` says that `run()` exists so that deferred calls are executed before
  `os.Exit`, but `log.Fatal` at lines 103 and 111 ends the process without them
  (`StartupFatal`).
- `server/router.go:185` says that a 404 "means no route was matched" and answers it; a handler
  that found nothing has answered already, and its client gets two bodies.
- `server/router.go:147-161` puts the CSRF check before all routes outside of development, also
  `/oauth2/token` and the other endpoints that programs post to, which have no token to show
  and are refused; `docs/API.md:52` calls them with curl, `docs/DEPLOYMENT.md:23` deploys with
  `APP_ENV=production`.
- The structured log's user is always anonymous: it is read from a request that the guards do
  not pass back.
- `storage/mongodb/token.go:40` looks a token up by signature. The callers compare the type
  afterwards, except for the device poll and the revocation.
- A device code of a deleted client still buys tokens: the poll never looks the client up.

## 8. Not modelled, and why

- *Discovery, scopes, dashboard*: constants, or reads that nothing depends on.
- *RSA, random tokens, password hashes*: cryptography; taken as one-to-one functions
  or as fresh values.
- *Metrics, logging, CORS, security headers, templates*: presentation and headers around a
  handler; they neither read nor write what the models keep.
- *The algorithm of the rate limiter* is that of an external library: a budget that is used
  up by requests and grows with time.
- *The validation of requests*: which inputs a handler refuses as malformed is left out, since
  such a request changes nothing; settings are constants here, and loading them is one step of
  startup that may fail.
- *`services/pkce.go`*: no handler uses it.
- *Usernames and the unique indexes*: two creations with one username are both accepted unless
  an index refuses the second, and the indexes are made in another database than the server's.
  A model of it would show an assumption about the deployment, not about the code.
- *The consent pages' GET*: it validates and shows, and keeps nothing. For the device grant
  the pages are in the model, and an approval is posted from a page that was shown;
  `HandleDeviceConsent` would take a POST without one, of which `IssuedAsAllowed` would say
  the same but for the page.
- *A crash between the insert of a client and its audit event*: the client stays without an
  event. The model has it, and `CreationsAreLogged` speaks of answered creations only.
- *The type of a document*: each model gives a handler documents of its own kind only, except
  for revocation.

## 9. Plan

Done: every stateful component, the three abstract specifications with two refinements
each, and the proofs of section 6. Left, most important first:

1. A composition of the grants over one `tokens` collection that keeps the kind of each
   document, in place of the environment actions `RevokeCode` and `RevokeDeviceCode`.
2. Usernames, with and without the unique index.
