--------------------------- MODULE RequestPipeline ---------------------------
(***************************************************************************)
(* What surrounds a handler (NewRouter): two routes that bypass it all,    *)
(* the rate limiter by address, the CSRF check outside of development, the *)
(* routes, the rate limiter by client before the token endpoint, and the   *)
(* error helpers that turn an error into a log line and an answer.         *)
(*                                                                         *)
(* Requests meet in two places.  The limiters keep a budget for each key   *)
(* in Redis.  And every error that is no AppError is put into one shared   *)
(* value, ErrInternal, to be read from there a moment later: nothing       *)
(* guards it, and its field is an interface, two words in memory.          *)
(***************************************************************************)
EXTENDS Naturals, Sequences, FiniteSets

CONSTANTS
    Requests, Ips, Clients,
    Inputs,                  \* requests that are sent
    Configs,                 \* settings of deployments
    GlobalBurst, GlobalRate, \* RATE_LIMIT_GLOBAL_*, the rate in ticks
    TokenBurst, TokenRate,   \* RATE_LIMIT_TOKEN_*
    None,
    MaxTime,                 \* bound: ticks of the clock
    MaxFaults                \* bound: failures of Redis

\* Kinds of routes: /metrics and /healthz; pages, files and the admin API, and
\* what pages post; what programs post; the token endpoint; no route.
Routes == {"probe", "page", "program", "token", "unknown"}

\* Whoever sends a request, or a proxy on its way, may name an address in
\* X-Forwarded-For or X-Real-Ip, and a client_id in the body.
Input == [route : Routes, ip : Ips, named : Ips \cup {None},
          client : Clients \cup {None}]

\* APP_ENV, RATE_LIMIT_GLOBAL_ENABLED, RATE_LIMIT_TOKEN_ENABLED
Config == [production : BOOLEAN, global : BOOLEAN, perClient : BOOLEAN]

\* The keys of the two limiters.
Keys == ({"global"} \X Ips) \cup ({"client"} \X Clients)

ASSUME InputAssumption == Inputs \subseteq Input /\ Configs \subseteq Config
\* What an answer may tell of a request: what is wrong with it, or the text
\* of an error that the server met as it served it.
Mistake(r) == [of |-> r, what |-> "mistake"]
Fault(r)   == [of |-> r, what |-> "fault"]

Told == {None} \cup [of : Requests, what : {"mistake", "fault"}]

ASSUME NoneAssumption ==
    None \notin Requests \cup Ips \cup Clients \cup Input
                \cup [of : Requests, what : {"mistake", "fault"}]
ASSUME LimitAssumption ==
    /\ GlobalBurst \in Nat \ {0} /\ TokenBurst \in Nat \ {0}
    /\ GlobalRate \in Nat /\ TokenRate \in Nat
ASSUME BoundAssumption == MaxTime \in Nat /\ MaxFaults \in Nat

VARIABLES
    now, faults,
    config,      \* the settings that NewRouter reads
    bucket,      \* Keys -> requests that the limiter would let pass now
    errInternal, \* the two words of ErrInternal.Err: whose error they are of
    pc,          \* Requests -> next step, or how it ended
    req,         \* Requests -> input
    read,        \* Requests -> the first word it read of ErrInternal.Err
    line,        \* Requests -> whose error its log line tells
    bodies,      \* Requests -> what was written to the client
    ran,         \* requests whose handler ran
    before       \* Requests -> the requests that had ended when it began

requestVars == <<pc, req, read, line, bodies, ran, before>>
vars == <<now, faults, config, bucket, errInternal, requestVars>>

Running == {"limit", "csrf", "client", "handle", "setType", "setData",
            "readType", "readData"}
Ended == {"done", "panicked", "crashed"}
Words == [type : Requests \cup {None}, data : Requests \cup {None}]

TypeOK ==
    /\ now \in Nat /\ faults \in Nat /\ config \in Configs
    /\ bucket \in [Keys -> Nat]
    /\ errInternal \in Words
    /\ pc \in [Requests -> {"idle"} \cup Running \cup Ended]
    /\ req \in [Requests -> Input \cup {None}]
    /\ \A r \in Requests : pc[r] # "idle" => req[r] \in Input
    /\ read \in [Requests -> Requests \cup {None}]
    /\ line \in [Requests -> Words \cup {None}]
    /\ bodies \in [Requests -> Seq([status : Nat, tells : Told])]
    /\ ran \subseteq Requests
    /\ before \in [Requests -> SUBSET Requests]

BurstOf(key) == IF key[1] = "global" THEN GlobalBurst ELSE TokenBurst
RateOf(key)  == IF key[1] = "global" THEN GlobalRate ELSE TokenRate

Nothing == [type |-> None, data |-> None]

Init ==
    /\ now = 0 /\ faults = 0
    /\ config \in Configs
    /\ bucket = [key \in Keys |-> BurstOf(key)]
    /\ errInternal = Nothing
    /\ pc = [r \in Requests |-> "idle"]
    /\ req = [r \in Requests |-> None]
    /\ read = [r \in Requests |-> None]
    /\ line = [r \in Requests |-> None]
    /\ bodies = [r \in Requests |-> <<>>]
    /\ ran = {}
    /\ before = [r \in Requests |-> {}]

Succeeds == faults' = faults
Fails    == faults < MaxFaults /\ faults' = faults + 1

Go(r, where) == pc' = [pc EXCEPT ![r] = where]

\* An answer is written.  finalHandler has a second one follow each 404,
\* whoever wrote it.
Write(r, status, tells) ==
    LET first  == [status |-> status, tells |-> tells]
        second == [status |-> 404, tells |-> None]
    IN
    /\ bodies' = [bodies EXCEPT ![r] =
                    IF status = 404 THEN <<first, second>> ELSE <<first>>]
    /\ Go(r, "done")

\* No answer yet.
GoOn(r, where) == Go(r, where) /\ UNCHANGED bodies

-----------------------------------------------------------------------------
\* topLevelMux.
Begin(r, in) ==
    /\ pc[r] = "idle"
    /\ Go(r, IF in.route = "probe" THEN "handle" ELSE "limit")
    /\ req' = [req EXCEPT ![r] = in]
    /\ before' = [before EXCEPT ![r] = {s \in Requests : pc[s] \in Ended}]
    /\ UNCHANGED <<now, faults, config, bucket, errInternal, read, line, bodies, ran>>

-----------------------------------------------------------------------------
(***************************************************************************)
(* The limiters.                                                           *)
(***************************************************************************)
Taken(key) == [bucket EXCEPT ![key] = @ - 1]

\* Mutant: when the limiter fails, the request passes.
FailsOpen(r, next) == Go(r, next) /\ UNCHANGED bodies

\* The limiter itself fails.
WhenItFails(r, next) == Write(r, 500, None)

\* limiter.Allow, and what is done with its answer.
Limit(r, key, next) ==
    \/ /\ Succeeds /\ bucket[key] > 0
       /\ bucket' = Taken(key)
       /\ GoOn(r, next)
    \/ /\ Succeeds /\ bucket[key] = 0
       /\ Write(r, 429, None)
       /\ UNCHANGED bucket
    \/ /\ Fails
       /\ \/ UNCHANGED bucket
          \/ bucket[key] > 0 /\ bucket' = Taken(key)
       /\ WhenItFails(r, next)

\* Mutant: one budget for all addresses.
SharedKey(r) == <<"global", CHOOSE ip \in Ips : TRUE>>

\* GetClientIP: the address that the headers name, and the sender's only if
\* they name none.
CountedIp(r) == IF req[r].named # None THEN req[r].named ELSE req[r].ip

GlobalKey(r) == <<"global", CountedIp(r)>>

\* Global: by address.
GlobalLimit(r) ==
    /\ pc[r] = "limit"
    /\ \/ config.global /\ Limit(r, GlobalKey(r), "csrf")
       \/ ~config.global /\ Succeeds /\ GoOn(r, "csrf") /\ UNCHANGED bucket
    /\ UNCHANGED <<now, config, errInternal, req, read, line, ran, before>>

\* csrf.Protect refuses what is posted without the token of a page; only
\* the pages have it.  Then the mux.
Protect(r) ==
    LET route   == req[r].route
        refused == config.production /\ route \in {"program", "token"}
    IN
    /\ pc[r] = "csrf"
    /\ \/ refused /\ Write(r, 403, None)
       \/ route = "unknown" /\ Write(r, 404, None)
       \/ ~refused /\ route = "token" /\ GoOn(r, "client")
       \/ ~refused /\ route \in {"page", "program"} /\ GoOn(r, "handle")
    /\ UNCHANGED <<now, faults, config, bucket, errInternal, req, read, line, ran,
                   before>>

\* PerClient: by the client_id in the body, if there is one; nobody has
\* authenticated it yet.  A body that cannot be parsed ends here.
ClientLimit(r) ==
    LET limited == config.perClient /\ req[r].client # None IN
    /\ pc[r] = "client"
    /\ \/ limited /\ Limit(r, <<"client", req[r].client>>, "handle")
       \/ ~limited /\ Succeeds /\ GoOn(r, "handle") /\ UNCHANGED bucket
       \/ /\ config.perClient /\ req[r].client = None
          /\ Succeeds /\ Write(r, 400, Mistake(r)) /\ UNCHANGED bucket
    /\ UNCHANGED <<now, config, errInternal, req, read, line, ran, before>>

-----------------------------------------------------------------------------
(***************************************************************************)
(* The handler and the error helpers.                                      *)
(***************************************************************************)

\* A handler answers, or refuses in words about the request (an AppError of
\* its own, writeTokenError), or finds nothing (ErrNotFound), or has an error
\* of another kind, or panics.  Two tell a failure of a store in its own words:
\* /healthz, and the token endpoint, which passes on what ValidatePKCE
\* returned; else that endpoint has a fixed sentence for a server_error.
Handle(r) ==
    LET route == req[r].route IN
    /\ pc[r] = "handle"
    /\ \/ Write(r, 200, None)
       \/ route = "probe" /\ Write(r, 503, Fault(r))
       \/ route # "probe" /\ Write(r, 400, Mistake(r))
       \/ route = "token" /\ \E tells \in {None, Fault(r)} : Write(r, 400, tells)
       \/ route = "page" /\ Write(r, 404, None)
       \/ route # "probe" /\ GoOn(r, "setType")
       \/ route = "program" /\ GoOn(r, "panicked")
    /\ ran' = ran \cup {r}
    /\ UNCHANGED <<now, faults, config, bucket, errInternal, req, read, line, before>>

\* Mutant: the first error stays.
KeepsFirst(old, new) == IF old = None THEN new ELSE old

\* appErr.Err = err, one word.
Assigned(old, new) == new

\* HandleError, HandleAPIError: ErrInternal.Err = err.
SetType(r) ==
    /\ pc[r] = "setType"
    /\ errInternal' = [errInternal EXCEPT !.type = Assigned(@, r)]
    /\ GoOn(r, "setData")
    /\ UNCHANGED <<now, faults, config, bucket, req, read, line, ran, before>>

SetData(r) ==
    /\ pc[r] = "setData"
    /\ errInternal' = [errInternal EXCEPT !.data = Assigned(@, r)]
    /\ GoOn(r, "readType")
    /\ UNCHANGED <<now, faults, config, bucket, req, read, line, ran, before>>

\* The log line: appErr.Err.Error().
ReadType(r) ==
    /\ pc[r] = "readType"
    /\ read' = [read EXCEPT ![r] = errInternal.type]
    /\ GoOn(r, "readData")
    /\ UNCHANGED <<now, faults, config, bucket, errInternal, req, line, ran, before>>

\* Mutant: the answer tells the error.
ErrorText == Fault(errInternal.data)

\* WriteJSONError and renderErrorPage: a fixed sentence.
InternalText == None

\* The second word, and the answer.
ReadData(r) ==
    /\ pc[r] = "readData"
    /\ line' = [line EXCEPT ![r] = [type |-> read[r], data |-> errInternal.data]]
    /\ Write(r, 500, InternalText)
    /\ UNCHANGED <<now, faults, config, bucket, errInternal, req, read, ran, before>>

\* The two words are of two errors: the call of Error goes wrong.  It panics,
\* or ends the process (or, above, makes some text of them).
Torn(r) ==
    /\ pc[r] = "readData" /\ read[r] # errInternal.data
    /\ \/ Go(r, "panicked") /\ UNCHANGED errInternal
       \/ /\ pc' = [s \in Requests |-> IF pc[s] \in Running THEN "crashed" ELSE pc[s]]
          /\ errInternal' = Nothing
    /\ UNCHANGED <<now, faults, config, bucket, req, read, line, bodies, ran, before>>

\* The budgets grow again.
Tick ==
    /\ now < MaxTime
    /\ now' = now + 1
    /\ bucket' = [key \in Keys |->
                    IF bucket[key] + RateOf(key) <= BurstOf(key)
                    THEN bucket[key] + RateOf(key) ELSE BurstOf(key)]
    /\ UNCHANGED <<faults, config, errInternal, requestVars>>

Step(r) ==
    \/ GlobalLimit(r) \/ Protect(r) \/ ClientLimit(r) \/ Handle(r)
    \/ SetType(r) \/ SetData(r) \/ ReadType(r) \/ ReadData(r) \/ Torn(r)

Next ==
    \/ \E r \in Requests : Step(r) \/ \E in \in Inputs : Begin(r, in)
    \/ Tick

Spec == Init /\ [][Next]_vars

-----------------------------------------------------------------------------
(***************************************************************************)
(* Properties.                                                             *)
(***************************************************************************)
Begun == {r \in Requests : pc[r] # "idle"}

\* An answer tells at most an error of its own request, never one that went
\* through the shared ErrInternal, whoever else is using that: who gets a 500
\* is told nothing.  A failure of a store is told only where the code hands it
\* to the client on purpose: by /healthz, and as the reason of an invalid_grant
\* (internal/handlers/auth.go:427, which passes on Redis's error too).
AnswersAreOwn ==
    \A r \in Requests : \A i \in 1 .. Len(bodies[r]) :
        LET body == bodies[r][i] IN
        /\ body.tells \in {None, Mistake(r), Fault(r)}
        /\ body.status = 500 => body.tells = None
        /\ body.tells = Fault(r) =>
              \/ req[r].route = "probe" /\ body.status = 503
              \/ req[r].route = "token" /\ body.status = 400

\* A log line of an internal error may be another request's, or made of two
\* errors, but only of requests that had not ended when this one began: what
\* earlier requests left in ErrInternal is overwritten first.
LoggedErrorIsConcurrent ==
    \A r \in Requests : line[r] # None =>
        {line[r].type, line[r].data} \subseteq Requests \ before[r]

\* The requests that are counted under an address, and under a client.
OfIp(ip, S) == {r \in S : CountedIp(r) = ip /\ req[r].route # "probe"}
OfClient(client, S) ==
    {r \in S : req[r].client = client /\ req[r].route = "token"}

\* The handlers that run for requests counted under one address, or under one
\* client_id, stay within its budget, also while Redis fails and whatever
\* comes under other keys; and "Too Many Requests" is said only if more
\* requests than the burst have come under the very address or client_id that
\* this one is counted under.  Both are what the request says: the address is
\* the one its headers name, if they do (GetClientIP), so this is no bound for
\* a sender, and the requests that used up a budget may be somebody else's.
LimitsAreKept ==
    /\ config.global => \A ip \in Ips :
          Cardinality(OfIp(ip, ran)) <= GlobalBurst + GlobalRate * now
    /\ config.perClient => \A client \in Clients :
          Cardinality(OfClient(client, ran)) <= TokenBurst + TokenRate * now
    /\ \A r \in Requests :
          bodies[r] # <<>> /\ bodies[r][1].status = 429 =>
             \/ Cardinality(OfIp(CountedIp(r), Begun)) > GlobalBurst
             \/ /\ req[r].client # None
                /\ Cardinality(OfClient(req[r].client, Begun)) > TokenBurst

=============================================================================
