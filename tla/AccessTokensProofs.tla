------------------------- MODULE AccessTokensProofs -------------------------
(***************************************************************************)
(* What tokens and answers about them promise, for any number of clients,  *)
(* users, requests, starts of the process, ticks and faults.               *)
(***************************************************************************)
EXTENDS AccessTokens, TLAPS

\* A request is where its task leads.
TasksAreFollowed ==
    \A r \in Requests :
        /\ pc[r] = "client" => Do(r) \in {"credentials", "bearer", "introspect"}
        /\ pc[r] = "fetch" => Do(r) = "bearer"
        /\ pc[r] \in {"sign", "issued"} => Do(r) \in {"credentials", "bearer"}
        /\ pc[r] \in {"verify", "active", "inactive"} => Do(r) \in {"userinfo", "introspect"}
        /\ pc[r] \in {"user", "info", "invalid_token"} => Do(r) = "userinfo"
        /\ pc[r] \in {"active", "inactive"} => Do(r) = "introspect"

\* While a request runs it sees what is stored and published, and who was
\* missing when it came is missing still.
PresentIsSeen ==
    \A r \in Requests :
        /\ pc[r] \in Running /\ Do(r) # "userinfo" =>
              /\ clients[TaskOf(r).client] \in seen[r]
              /\ published[TaskOf(r).client] \subseteq keys[r]
        /\ pc[r] # "idle" => req[r].began <= now /\ req[r].gone \cap users = {}

\* The document entitles the request.
Entitles(doc, r) ==
    IF Do(r) = "credentials"
    THEN /\ TaskOf(r).secret /\ "client_credentials" \in doc.grants
         /\ TaskOf(r).scopes \subseteq doc.scopes
    ELSE "jwt_bearer" \in doc.grants /\ doc.jwks

\* What a request read of its client was stored, and entitles it; before the
\* signature an assertion was proved with a published key.
CopyEntitles ==
    \A r \in Requests : pc[r] \in {"fetch", "sign"} =>
        /\ copy[r] \in seen[r] \ {None}
        /\ Entitles(copy[r], r)
        /\ pc[r] = "sign" /\ Do(r) = "bearer" => TaskOf(r).assertion.key \in keys[r]

\* A token is signed by a request that ends with it.
SignersAreDone == \A t \in jwts : t.by \in Requests => pc[t.by] = "issued"

\* What a request found in its token.
TokenWasLive ==
    \A r \in Requests : pc[r] \in {"user", "info", "active"} =>
        req[r].began < TaskOf(r).token.exp

\* The key set in the cache is of this start, or not younger than it.
CacheIsOld ==
    /\ started <= now
    /\ cache # None => cache.at <= now /\ (cache.kid = run \/ cache.at <= started)

IInv ==
    /\ TypeOK
    /\ TasksAreFollowed
    /\ PresentIsSeen
    /\ CopyEntitles
    /\ SignersAreDone
    /\ TokenWasLive
    /\ CacheIsOld
    /\ IssuedAsRegistered
    /\ AnswersAreTrue
    /\ LiveTokenAccepted

-----------------------------------------------------------------------------
(***************************************************************************)
(* What a step may change.                                                 *)
(***************************************************************************)

\* The parts of a request's record.
LEMMA RequestType ==
    ASSUME TypeOK, NEW r \in Requests, pc[r] # "idle"
    PROVE  /\ req[r].began \in Nat /\ req[r].gone \subseteq Users
           /\ Do(r) \in {"credentials", "bearer", "userinfo", "introspect"}
           /\ Do(r) # "userinfo" => TaskOf(r).client \in Clients
           /\ Do(r) = "credentials" => TaskOf(r).scopes \subseteq Scopes
           /\ Do(r) \in {"credentials", "introspect"} => TaskOf(r).secret \in BOOLEAN
           /\ Do(r) = "bearer" => TaskOf(r).assertion \in Assertion
           /\ Do(r) \in {"userinfo", "introspect"} => TaskOf(r).token \in JWT
<1>1. /\ req[r].began \in Nat /\ req[r].gone \subseteq Users
      /\ TaskOf(r) \in Task
  BY DEF TypeOK, TaskOf, Request
<1> QED
  BY <1>1, InputAssumption DEF Task, Do

\* Clocks and counters only grow, users only go.
LEMMA WorldMoves ==
    ASSUME TypeOK, [Next]_vars
    PROVE  /\ now' \in Nat /\ now <= now'
           /\ faults' \in Nat /\ faults <= faults'
           /\ users' \subseteq users
           /\ run' \in Nat /\ started' \in Nat /\ changes' \in Nat
           /\ \/ run' = run /\ started' = started
              \/ run' = run + 1 /\ started' = now /\ now' = now
                 /\ cache' = cache /\ jwts' = jwts
           /\ \/ cache' = cache
              \/ cache' = KeySet /\ UNCHANGED <<now, run, started, jwts>>
<1> USE DEF Succeeds, Fails
<1>1. CASE Change
  BY <1>1 DEF Change, serverVars, TypeOK
<1>2. CASE Restart
  BY <1>2 DEF Restart, worldVars, TypeOK
<1>3. CASE FetchKeySet \/ Tick
  BY <1>3 DEF FetchKeySet, Tick, worldVars, serverVars, TypeOK
<1>4. ASSUME NEW r \in Requests, Step(r)
      PROVE  /\ faults' \in Nat /\ faults <= faults'
             /\ UNCHANGED <<now, worldVars, serverVars, cache>>
  BY <1>4 DEF Step, CheckCredentials, ReadAssertion, FetchKeys, Sign, VerifyForUserInfo,
              ReadUser, AuthenticateCaller, VerifyForIntrospect, TypeOK
<1>5. ASSUME NEW r \in Requests, NEW task \in Tasks, Begin(r, task)
      PROVE  UNCHANGED <<now, faults, worldVars, serverVars, cache>>
  BY <1>5 DEF Begin
<1>6. ASSUME NEW u \in Users, IssueForUser(u, Scopes)
      PROVE  UNCHANGED <<now, faults, worldVars, serverVars, cache>>
  BY <1>6 DEF IssueForUser
<1> QED
  BY <1>1, <1>2, <1>3, <1>4, <1>5, <1>6 DEF Next, vars, worldVars, serverVars, TypeOK

\* A request begins.
Begins(r) ==
    /\ pc[r] = "idle"
    /\ \/ pc'[r] = "verify" /\ req'[r].task.do = "userinfo"
       \/ /\ pc'[r] = "client"
          /\ req'[r].task.do \in {"credentials", "bearer", "introspect"}
          /\ clients'[req'[r].task.client] \in seen'[r]
          /\ published'[req'[r].task.client] \subseteq keys'[r]
    /\ req'[r].began = now' /\ req'[r].gone \cap users' = {}

\* How a request goes on.
Moves(r) ==
    \/ pc'[r] = pc[r] /\ copy'[r] = copy[r]
    \/ /\ pc[r] \in Running
       /\ pc'[r] \in {"invalid_client", "unauthorized_client", "invalid_scope",
                      "invalid_grant", "panic", "crashed"}
    \/ /\ pc[r] = "client" /\ Do(r) = "credentials" /\ pc'[r] = "sign"
       /\ clients[TaskOf(r).client] # None
       /\ copy'[r] = clients[TaskOf(r).client] /\ Entitles(copy'[r], r)
    \/ /\ pc[r] = "client" /\ Do(r) = "bearer" /\ pc'[r] = "fetch"
       /\ clients[TaskOf(r).client] # None
       /\ copy'[r] = clients[TaskOf(r).client] /\ Entitles(copy'[r], r)
    \/ /\ pc[r] = "fetch" /\ pc'[r] = "sign" /\ copy'[r] = copy[r]
       /\ TaskOf(r).assertion.key \in published[TaskOf(r).client]
    \/ pc[r] = "sign" /\ pc'[r] = "issued"
    \/ /\ pc[r] = "verify" /\ Do(r) = "userinfo"
       /\ \/ Verifies(TaskOf(r).token) /\ pc'[r] = "user"
          \/ /\ ~Verifies(TaskOf(r).token) \/ TaskOf(r).token.sub \notin Users
             /\ pc'[r] = "invalid_token"
    \/ /\ pc[r] = "user"
       /\ \/ Exists(TaskOf(r).token.sub) /\ pc'[r] = "info"
          \/ (~Exists(TaskOf(r).token.sub) \/ faults' > 0) /\ pc'[r] = "invalid_token"
    \/ /\ pc[r] = "client" /\ Do(r) = "introspect"
       /\ \/ pc'[r] = "verify"
          \/ (~Authentic(r) \/ faults' > 0) /\ pc'[r] = "inactive"
    \/ /\ pc[r] = "verify" /\ Do(r) = "introspect"
       /\ \/ /\ Verifies(TaskOf(r).token) /\ TaskOf(r).token.kind # "id"
             /\ pc'[r] = "active"
          \/ ~Verifies(TaskOf(r).token) /\ pc'[r] = "inactive"

\* A request goes on, and remembers what it saw.
GoesOn(r) ==
    /\ req'[r] = req[r]
    /\ seen[r] \subseteq seen'[r] /\ keys[r] \subseteq keys'[r]
    /\ pc'[r] \in Running /\ Do(r) # "userinfo" =>
          /\ clients'[TaskOf(r).client] \in seen'[r]
             \/ clients'[TaskOf(r).client] = clients[TaskOf(r).client]
          /\ published'[TaskOf(r).client] \subseteq keys'[r]
             \/ published'[TaskOf(r).client] = published[TaskOf(r).client]
    /\ Moves(r)

\* The steps of the requests, by their effect on a request.
LEMMA StepMoves ==
    ASSUME TypeOK, TasksAreFollowed, NEW q \in Requests, Step(q), NEW r \in Requests
    PROVE  Moves(r)
<1>1. CASE r # q
  <2>1. pc'[r] = pc[r] /\ copy'[r] = copy[r]
    BY <1>1 DEF Step, CheckCredentials, ReadAssertion, FetchKeys, Sign, VerifyForUserInfo,
                ReadUser, AuthenticateCaller, VerifyForIntrospect, Go, TypeOK
  <2> QED
    BY <2>1 DEF Moves
<1>2. CASE r = q
  <2> USE <1>2 DEF Go, TypeOK, Succeeds, Fails
  <2>1. CASE CheckCredentials(r)
    BY <2>1 DEF CheckCredentials, Authentic, Allowed, Moves, Entitles, Running
  <2>2. CASE ReadAssertion(r)
    BY <2>2 DEF ReadAssertion, Moves, Entitles, Running
  <2>3. CASE FetchKeys(r)
    BY <2>3 DEF FetchKeys, Proves, FetchedKeys, Moves, Running
  <2>4. CASE Sign(r)
    BY <2>4 DEF Sign, Moves
  <2>5. CASE VerifyForUserInfo(r)
    BY <2>5 DEF VerifyForUserInfo, Moves
  <2>6. CASE ReadUser(r)
    BY <2>6 DEF ReadUser, Moves
  <2>7. CASE AuthenticateCaller(r)
    BY <2>7 DEF AuthenticateCaller, Moves
  <2>8. CASE VerifyForIntrospect(r)
    BY <2>8 DEF VerifyForIntrospect, Moves, Running
  <2> QED
    BY <2>1, <2>2, <2>3, <2>4, <2>5, <2>6, <2>7, <2>8 DEF Step
<1> QED
  BY <1>1, <1>2

\* Every step, by its effect on a request.
LEMMA RequestChange ==
    ASSUME TypeOK, TasksAreFollowed, [Next]_vars, NEW r \in Requests
    PROVE  Begins(r) \/ (GoesOn(r) /\ (pc[r] = "idle" => pc'[r] = "idle"))
<1>1. ASSUME NEW q \in Requests, NEW task \in Tasks, Begin(q, task)
      PROVE  Begins(r) \/ (GoesOn(r) /\ (pc[r] = "idle" => pc'[r] = "idle"))
  <2>1. CASE r = q
    <3>1. task.do \in {"credentials", "bearer", "userinfo", "introspect"}
      BY DEF Tasks
    <3>2. /\ pc[r] = "idle" /\ UNCHANGED <<now, clients, published, users>>
          /\ req'[r].task = task /\ req'[r].began = now
          /\ req'[r].gone \cap users = {}
          /\ pc'[r] = IF task.do = "userinfo" THEN "verify" ELSE "client"
      BY <1>1, <2>1 DEF Begin, Go, TypeOK, worldVars
    <3>3. task.do # "userinfo" =>
             clients[task.client] \in seen'[r] /\ published[task.client] \subseteq keys'[r]
      BY <1>1, <2>1 DEF Begin, TypeOK
    <3> QED
      BY <3>1, <3>2, <3>3 DEF Begins
  <2>2. CASE r # q
    BY <1>1, <2>2 DEF Begin, Go, GoesOn, Moves, TypeOK, worldVars
  <2> QED
    BY <2>1, <2>2
<1>2. ASSUME NEW q \in Requests, Step(q)
      PROVE  GoesOn(r) /\ (pc[r] = "idle" => pc'[r] = "idle")
  <2>1. UNCHANGED <<req, seen, keys, clients, published>>
    BY <1>2 DEF Step, CheckCredentials, ReadAssertion, FetchKeys, Sign, VerifyForUserInfo,
                ReadUser, AuthenticateCaller, VerifyForIntrospect, worldVars
  <2>2. Moves(r)
    BY <1>2, StepMoves
  <2> QED
    BY <2>1, <2>2 DEF GoesOn, Moves, Running
<1>3. CASE Change
  BY <1>3 DEF Change, Witness, GoesOn, Moves, TypeOK
<1>4. CASE Restart
  BY <1>4 DEF Restart, GoesOn, Moves, TypeOK, worldVars, Running
<1>5. CASE UNCHANGED <<requestVars, clients, published>>
  BY <1>5 DEF requestVars, GoesOn, Moves
<1>6. \/ UNCHANGED <<requestVars, clients, published>> \/ Change \/ Restart
      \/ \E q \in Requests : Step(q) \/ \E task \in Tasks : Begin(q, task)
  BY DEF Next, IssueForUser, FetchKeySet, Tick, vars, worldVars
<1> QED
  BY <1>1, <1>2, <1>3, <1>4, <1>5, <1>6

\* A token that is new was signed for a user, or by a request that ends with it.
LEMMA TokensChange ==
    ASSUME TypeOK, [Next]_vars, NEW t \in jwts', t \notin jwts
    PROVE  /\ run' = run /\ started' = started
           /\ \/ t.by = None /\ t \in JWT
              \/ \E r \in Requests :
                    /\ pc[r] = "sign" /\ pc'[r] = "issued" /\ t.by = r
                    /\ t = Signed("access", TaskOf(r).client,
                                  IF Do(r) = "bearer" THEN copy[r].scopes
                                  ELSE Granted(copy[r], TaskOf(r).scopes), r)
<1>1. \/ \E u \in Users : IssueForUser(u, Scopes)
      \/ \E r \in Requests : Sign(r)
  BY DEF Next, Step, CheckCredentials, ReadAssertion, FetchKeys, VerifyForUserInfo,
         ReadUser, AuthenticateCaller, VerifyForIntrospect, Begin, FetchKeySet, Tick,
         Change, Restart, vars
<1>2. ASSUME NEW u \in Users, IssueForUser(u, Scopes)
      PROVE  t.by = None /\ t \in JWT /\ run' = run /\ started' = started
  BY <1>2, LifespanAssumption DEF IssueForUser, Signed, JWT, TypeOK, serverVars
<1>3. ASSUME NEW r \in Requests, Sign(r)
      PROVE  /\ run' = run /\ started' = started
             /\ pc[r] = "sign" /\ pc'[r] = "issued"
             /\ t = Signed("access", TaskOf(r).client,
                           IF Do(r) = "bearer" THEN copy[r].scopes
                           ELSE Granted(copy[r], TaskOf(r).scopes), r)
  BY <1>3 DEF Sign, Go, TypeOK, serverVars
<1>4. ASSUME NEW r \in Requests, NEW c, NEW S, t = Signed("access", c, S, r)
      PROVE  t.by = r
  BY <1>4 DEF Signed
<1> QED
  BY <1>1, <1>2, <1>3, <1>4

-----------------------------------------------------------------------------
(***************************************************************************)
(* The invariant holds at the start, and every step keeps it.              *)
(***************************************************************************)

\* TypeOK at the start.
LEMMA TypeInit == Init => TypeOK
BY InputAssumption, NoneAssumption DEF Init, TypeOK

\* What a request signs is a token.
LEMMA SignedType ==
    ASSUME TypeOK, TasksAreFollowed, CopyEntitles, NEW r \in Requests, pc[r] = "sign"
    PROVE  /\ (IF Do(r) = "bearer" THEN copy[r].scopes
               ELSE Granted(copy[r], TaskOf(r).scopes)) \subseteq copy[r].scopes
           /\ Signed("access", TaskOf(r).client,
                     IF Do(r) = "bearer" THEN copy[r].scopes
                     ELSE Granted(copy[r], TaskOf(r).scopes), r) \in JWT
<1> DEFINE scopes == IF Do(r) = "bearer" THEN copy[r].scopes
                     ELSE Granted(copy[r], TaskOf(r).scopes)
<1>1. Do(r) \in {"credentials", "bearer"} /\ TaskOf(r).client \in Clients
  BY RequestType DEF TasksAreFollowed
<1>2. copy[r] \in Client /\ Entitles(copy[r], r)
  BY DEF CopyEntitles, TypeOK
<1>3. copy[r].scopes \subseteq Scopes
  BY <1>2 DEF Client
<1>4. scopes \subseteq copy[r].scopes
  BY <1>1, <1>2 DEF Granted, Entitles
<1> HIDE DEF scopes
<1>5. Signed("access", TaskOf(r).client, scopes, r) \in JWT
  BY <1>1, <1>3, <1>4, LifespanAssumption DEF Signed, JWT, TypeOK
<1> QED
  BY <1>4, <1>5 DEF scopes

\* TypeOK, by a step.
LEMMA TypeStep ==
    ASSUME TypeOK, TasksAreFollowed, CopyEntitles, [Next]_vars PROVE TypeOK'
<1>1. /\ now' \in Nat /\ faults' \in Nat /\ changes' \in Nat
      /\ run' \in Nat /\ started' \in Nat /\ users' \subseteq Users
  BY WorldMoves DEF TypeOK
<1>2. clients' \in [Clients -> Client \cup {None}] /\ published' \in [Clients -> SUBSET Keys]
  <2>1. CASE Change
    BY <2>1, InputAssumption DEF Change, TypeOK
  <2>2. CASE UNCHANGED <<clients, published>>
    BY <2>2 DEF TypeOK
  <2> QED
    BY <2>1, <2>2
       DEF Next, Step, CheckCredentials, ReadAssertion, FetchKeys, Sign, VerifyForUserInfo,
           ReadUser, AuthenticateCaller, VerifyForIntrospect, Begin, IssueForUser,
           FetchKeySet, Tick, Restart, vars, worldVars
<1>3. jwts' \subseteq JWT
  BY TokensChange, SignedType DEF TypeOK
<1>4. cache' \in {None} \cup [kid : Nat, at : Nat]
  BY WorldMoves DEF KeySet, TypeOK
<1>5. /\ pc' \in [Requests -> {"idle"} \cup Running \cup Ended]
      /\ copy' \in [Requests -> Client \cup {None}]
      /\ req' \in [Requests -> Request \cup {None}]
      /\ seen' \in [Requests -> SUBSET (Client \cup {None})]
      /\ keys' \in [Requests -> SUBSET Keys]
  <2>1. ASSUME NEW r \in Requests, NEW task \in Tasks, Begin(r, task)
        PROVE  /\ pc' \in [Requests -> {"idle"} \cup Running \cup Ended]
               /\ copy' \in [Requests -> Client \cup {None}]
               /\ req' \in [Requests -> Request \cup {None}]
               /\ seen' \in [Requests -> SUBSET (Client \cup {None})]
               /\ keys' \in [Requests -> SUBSET Keys]
    <3>1. task \in Task
      BY InputAssumption DEF Tasks, Task, TypeOK
    <3>2. [task |-> task, began |-> now,
           gone |-> IF task.do = "userinfo" THEN Users \ users ELSE {}] \in Request
      BY <3>1 DEF Request, TypeOK
    <3>3. task.do # "userinfo" => task.client \in Clients
      BY DEF Tasks
    <3>4. DEFINE c == IF task.do = "userinfo" THEN {} ELSE {task.client}
    <3>5. {clients[x] : x \in c} \subseteq Client \cup {None}
          /\ UNION {published[x] : x \in c} \subseteq Keys
      BY <3>3 DEF TypeOK
    <3>6. pc' \in [Requests -> {"idle"} \cup Running \cup Ended]
      BY <2>1 DEF Begin, Go, Running, TypeOK
    <3>7. req' \in [Requests -> Request \cup {None}] /\ copy' = copy
      BY <2>1, <3>2 DEF Begin, TypeOK
    <3>8. /\ seen' \in [Requests -> SUBSET (Client \cup {None})]
          /\ keys' \in [Requests -> SUBSET Keys]
      BY <2>1, <3>5 DEF Begin, TypeOK
    <3> QED
      BY <3>6, <3>7, <3>8 DEF TypeOK
  <2>2. ASSUME NEW r \in Requests, Step(r)
        PROVE  /\ pc' \in [Requests -> {"idle"} \cup Running \cup Ended]
               /\ copy' \in [Requests -> Client \cup {None}]
               /\ UNCHANGED <<req, seen, keys>>
    <3>1. pc' \in [Requests -> {"idle"} \cup Running \cup Ended]
      BY <2>2 DEF Step, CheckCredentials, ReadAssertion, FetchKeys, Sign, VerifyForUserInfo,
                  ReadUser, AuthenticateCaller, VerifyForIntrospect, Go, Running, Ended,
                  Errors, TypeOK
    <3>2. CASE CheckCredentials(r) \/ ReadAssertion(r)
      <4>1. TaskOf(r).client \in Clients
        BY <3>2, RequestType DEF CheckCredentials, ReadAssertion
      <4>2. clients[TaskOf(r).client] \in Client \cup {None}
        BY <4>1 DEF TypeOK
      <4>3. copy' = copy \/ copy' = [copy EXCEPT ![r] = clients[TaskOf(r).client]]
        BY <3>2 DEF CheckCredentials, ReadAssertion
      <4>4. UNCHANGED <<req, seen, keys>>
        BY <3>2 DEF CheckCredentials, ReadAssertion
      <4> QED
        BY <3>1, <4>2, <4>3, <4>4 DEF TypeOK
    <3> QED
      BY <2>2, <3>1, <3>2 DEF Step, FetchKeys, Sign, VerifyForUserInfo, ReadUser,
                              AuthenticateCaller, VerifyForIntrospect, TypeOK
  <2>3. CASE Change
    <3>1. clients' \in [Clients -> Client \cup {None}] /\ published' \in [Clients -> SUBSET Keys]
      BY <1>2
    <3>2. ASSUME NEW r \in Requests, pc[r] \in Running, Do(r) # "userinfo"
          PROVE  TaskOf(r).client \in Clients
      BY <3>2, RequestType DEF Running
    <3>3. DEFINE Of(r) == IF pc[r] \in Running /\ Do(r) # "userinfo"
                          THEN {TaskOf(r).client} ELSE {}
    <3>4. ASSUME NEW r \in Requests
          PROVE  /\ {clients'[c] : c \in Of(r)} \subseteq Client \cup {None}
                 /\ UNION {published'[c] : c \in Of(r)} \subseteq Keys
      BY <3>1, <3>2
    <3> HIDE DEF Of
    <3>5. /\ seen' = [r \in Requests |-> seen[r] \cup {clients'[c] : c \in Of(r)}]
          /\ keys' = [r \in Requests |-> keys[r] \cup UNION {published'[c] : c \in Of(r)}]
      BY <2>3 DEF Change, Witness, Of
    <3>6. /\ seen' \in [Requests -> SUBSET (Client \cup {None})]
          /\ keys' \in [Requests -> SUBSET Keys]
      BY <3>4, <3>5 DEF TypeOK
    <3> QED
      BY <2>3, <3>6 DEF Change, TypeOK
  <2>4. CASE Restart
    BY <2>4 DEF Restart, Running, Ended, TypeOK
  <2>5. CASE UNCHANGED requestVars
    BY <2>5 DEF requestVars, TypeOK
  <2> QED
    BY <2>1, <2>2, <2>3, <2>4, <2>5 DEF Next, IssueForUser, FetchKeySet, Tick, vars, TypeOK
<1>6. ASSUME NEW r \in Requests, pc'[r] # "idle" PROVE req'[r] \in Request
  <2>1. CASE pc[r] # "idle"
    BY <2>1, RequestChange DEF Begins, GoesOn, TypeOK
  <2>2. CASE pc[r] = "idle"
    <3>1. \E task \in Tasks : Begin(r, task)
      <4>1. ASSUME NEW q \in Requests, Step(q) PROVE pc'[r] = "idle"
        BY <2>2, <4>1 DEF Step, CheckCredentials, ReadAssertion, FetchKeys, Sign,
             VerifyForUserInfo, ReadUser, AuthenticateCaller, VerifyForIntrospect, Go, TypeOK
      <4>2. ASSUME NEW q \in Requests, NEW task \in Tasks, Begin(q, task), q # r
            PROVE  pc'[r] = "idle"
        BY <2>2, <4>2 DEF Begin, Go, TypeOK
      <4>3. CASE Change \/ Restart \/ UNCHANGED requestVars
        BY <1>6, <2>2, <4>3 DEF Change, Restart, requestVars, Running, TypeOK
      <4> QED
        BY <1>6, <4>1, <4>2, <4>3 DEF Next, IssueForUser, FetchKeySet, Tick, vars
    <3>2. PICK task \in Tasks : Begin(r, task)
      BY <3>1
    <3>3. task \in Task
      BY InputAssumption DEF Tasks, Task, TypeOK
    <3>4. [task |-> task, began |-> now,
           gone |-> IF task.do = "userinfo" THEN Users \ users ELSE {}] \in Request
      BY <3>3 DEF Request, TypeOK
    <3> QED
      BY <3>2, <3>4 DEF Begin, TypeOK
  <2> QED
    BY <2>1, <2>2
<1> QED
  BY <1>1, <1>2, <1>3, <1>4, <1>5, <1>6 DEF TypeOK

\* TasksAreFollowed, by a step.
LEMMA TasksStep ==
    ASSUME TypeOK, TasksAreFollowed, [Next]_vars PROVE TasksAreFollowed'
<1> SUFFICES ASSUME NEW r \in Requests
      PROVE  /\ pc'[r] = "client" => Do(r)' \in {"credentials", "bearer", "introspect"}
             /\ pc'[r] = "fetch" => Do(r)' = "bearer"
             /\ pc'[r] \in {"sign", "issued"} => Do(r)' \in {"credentials", "bearer"}
             /\ pc'[r] \in {"verify", "active", "inactive"} =>
                   Do(r)' \in {"userinfo", "introspect"}
             /\ pc'[r] \in {"user", "info", "invalid_token"} => Do(r)' = "userinfo"
             /\ pc'[r] \in {"active", "inactive"} => Do(r)' = "introspect"
  BY DEF TasksAreFollowed
<1>1. CASE Begins(r)
  BY <1>1 DEF Begins, Do, TaskOf
<1>2. CASE GoesOn(r)
  <2>1. Do(r)' = Do(r)
    BY <1>2 DEF GoesOn, Do, TaskOf
  <2> QED
    BY <1>2, <2>1 DEF GoesOn, Moves, TasksAreFollowed, Running
<1> QED
  BY <1>1, <1>2, RequestChange

\* PresentIsSeen, by a step.
LEMMA PresentStep ==
    ASSUME TypeOK, TypeOK', TasksAreFollowed, PresentIsSeen, [Next]_vars
    PROVE  PresentIsSeen'
<1> SUFFICES ASSUME NEW r \in Requests
             PROVE  /\ pc'[r] \in Running /\ Do(r)' # "userinfo" =>
                          /\ clients'[TaskOf(r)'.client] \in seen'[r]
                          /\ published'[TaskOf(r)'.client] \subseteq keys'[r]
                    /\ pc'[r] # "idle" =>
                          req'[r].began <= now' /\ req'[r].gone \cap users' = {}
  BY DEF PresentIsSeen
<1>1. CASE Begins(r)
  BY <1>1 DEF Begins, Do, TaskOf, TypeOK, Running
<1>2. CASE GoesOn(r) /\ pc[r] # "idle"
  <2>1. Do(r)' = Do(r) /\ TaskOf(r)' = TaskOf(r)
    BY <1>2 DEF GoesOn, Do, TaskOf
  <2>2. pc'[r] \in Running => pc[r] \in Running
    BY <1>2 DEF GoesOn, Moves, Running
  <2>3. req'[r].began <= now' /\ req'[r].gone \cap users' = {}
    BY <1>2, RequestType, WorldMoves DEF GoesOn, PresentIsSeen, TypeOK
  <2> QED
    BY <1>2, <2>1, <2>2, <2>3 DEF GoesOn, PresentIsSeen
<1>3. CASE pc'[r] = "idle"
  BY <1>3 DEF Running
<1> QED
  BY <1>1, <1>2, <1>3, RequestChange

\* CopyEntitles, by a step.
LEMMA CopyStep ==
    ASSUME TypeOK, TasksAreFollowed, PresentIsSeen, CopyEntitles, [Next]_vars
    PROVE  CopyEntitles'
<1> SUFFICES ASSUME NEW r \in Requests, pc'[r] \in {"fetch", "sign"}
             PROVE  /\ copy'[r] \in seen'[r] \ {None}
                    /\ Entitles(copy[r], r)'
                    /\ pc'[r] = "sign" /\ Do(r)' = "bearer" =>
                          TaskOf(r)'.assertion.key \in keys'[r]
  BY DEF CopyEntitles
<1>1. GoesOn(r)
  BY RequestChange DEF Begins
<1>2. TaskOf(r)' = TaskOf(r) /\ Do(r)' = Do(r)
  BY <1>1 DEF GoesOn, TaskOf, Do
<1>3. Entitles(copy'[r], r) => Entitles(copy[r], r)'
  BY <1>2 DEF Entitles
<1>4. CASE pc'[r] = pc[r] /\ copy'[r] = copy[r]
  BY <1>1, <1>2, <1>3, <1>4 DEF GoesOn, CopyEntitles
<1>5. CASE pc[r] = "client" /\ clients[TaskOf(r).client] # None
           /\ copy'[r] = clients[TaskOf(r).client] /\ Entitles(copy'[r], r)
           /\ (pc'[r] = "sign" => Do(r) = "credentials")
  <2>1. copy'[r] \in seen[r]
    BY <1>5 DEF PresentIsSeen, TasksAreFollowed, Running
  <2> QED
    BY <1>1, <1>2, <1>3, <1>5, <2>1 DEF GoesOn
<1>6. CASE pc[r] = "fetch" /\ copy'[r] = copy[r]
           /\ TaskOf(r).assertion.key \in published[TaskOf(r).client]
  <2>1. Do(r) = "bearer" /\ TaskOf(r).assertion.key \in keys[r]
    BY <1>6 DEF PresentIsSeen, TasksAreFollowed, Running
  <2> QED
    BY <1>1, <1>2, <1>3, <1>6, <2>1 DEF GoesOn, CopyEntitles
<1> QED
  BY <1>1, <1>4, <1>5, <1>6 DEF GoesOn, Moves, Running

\* SignersAreDone and IssuedAsRegistered, by a step.
LEMMA IssuedStep ==
    ASSUME TypeOK, TypeOK', TasksAreFollowed, CopyEntitles, SignersAreDone,
           IssuedAsRegistered, [Next]_vars
    PROVE  SignersAreDone' /\ IssuedAsRegistered'
<1> DEFINE Covered(t, doc) ==
       /\ t.scopes \subseteq doc.scopes
       /\ IF Do(t.by) = "credentials"
          THEN TaskOf(t.by).secret /\ "client_credentials" \in doc.grants
          ELSE /\ "jwt_bearer" \in doc.grants /\ doc.jwks
               /\ TaskOf(t.by).assertion.key \in keys[t.by]
<1> SUFFICES ASSUME NEW t \in jwts', t.by \in Requests
             PROVE  /\ pc'[t.by] = "issued"
                    /\ t.sub = TaskOf(t.by)'.client
                    /\ \E doc \in seen'[t.by] \ {None} : Covered(t, doc)'
  BY DEF SignersAreDone, IssuedAsRegistered, Do
<1>1. ASSUME pc[t.by] \in {"issued", "sign"}
      PROVE  /\ TaskOf(t.by)' = TaskOf(t.by) /\ Do(t.by)' = Do(t.by)
             /\ seen[t.by] \subseteq seen'[t.by] /\ keys[t.by] \subseteq keys'[t.by]
             /\ pc[t.by] = "issued" => pc'[t.by] = "issued"
  BY <1>1, RequestChange DEF Begins, GoesOn, Moves, TaskOf, Do, Running
<1>2. ASSUME NEW doc \in seen[t.by] \ {None}, Covered(t, doc), pc[t.by] \in {"issued", "sign"}
      PROVE  \E d \in seen'[t.by] \ {None} : Covered(t, d)'
  BY <1>1, <1>2
<1>3. CASE t \in jwts
  <2>1. pc[t.by] = "issued"
    BY <1>3 DEF SignersAreDone
  <2>2. PICK doc \in seen[t.by] \ {None} : Covered(t, doc)
    BY <1>3 DEF IssuedAsRegistered, Do
  <2>3. t.sub = TaskOf(t.by).client
    BY <1>3 DEF IssuedAsRegistered
  <2> QED
    BY <1>1, <1>2, <2>1, <2>2, <2>3
<1>4. CASE t \notin jwts
  <2> DEFINE r == t.by
             scopes == IF Do(r) = "bearer" THEN copy[r].scopes
                       ELSE Granted(copy[r], TaskOf(r).scopes)
  <2>1. pc[r] = "sign" /\ pc'[r] = "issued"
        /\ t = Signed("access", TaskOf(r).client, scopes, r)
    BY <1>4, TokensChange, NoneAssumption
  <2>2. t.sub = TaskOf(r).client /\ t.scopes = scopes
    <3> HIDE DEF scopes
    <3> QED
      BY <2>1 DEF Signed
  <2>3. scopes \subseteq copy[r].scopes
    BY <2>1, SignedType
  <2>4. copy[r] \in seen[r] \ {None} /\ Entitles(copy[r], r)
        /\ (Do(r) = "bearer" => TaskOf(r).assertion.key \in keys[r])
        /\ Do(r) \in {"credentials", "bearer"}
    BY <2>1 DEF CopyEntitles, TasksAreFollowed
  <2>5. Covered(t, copy[r])
    <3> HIDE DEF scopes
    <3> QED
      BY <2>2, <2>3, <2>4 DEF Entitles
  <2> QED
    BY <1>1, <1>2, <2>1, <2>2, <2>4, <2>5
<1> QED
  BY <1>3, <1>4

\* TokenWasLive and AnswersAreTrue, by a step.
LEMMA AnswersStep ==
    ASSUME TypeOK, TypeOK', TasksAreFollowed, PresentIsSeen, TokenWasLive,
           AnswersAreTrue, [Next]_vars
    PROVE  TokenWasLive' /\ AnswersAreTrue'
<1> SUFFICES ASSUME NEW r \in Requests, pc'[r] \in {"user", "info", "active"}
             PROVE  /\ req'[r].began < TaskOf(r)'.token.exp
                    /\ pc'[r] = "info" => TaskOf(r)'.token.sub \notin req'[r].gone
                    /\ pc'[r] = "active" => TaskOf(r)'.token.kind = "access"
  BY DEF TokenWasLive, AnswersAreTrue
<1>1. GoesOn(r) /\ pc[r] # "idle"
  BY RequestChange DEF Begins
<1>2. TaskOf(r)' = TaskOf(r) /\ req'[r] = req[r]
  BY <1>1 DEF GoesOn, TaskOf
<1>3. CASE pc[r] = pc'[r]
  BY <1>2, <1>3 DEF TokenWasLive, AnswersAreTrue
<1>4. CASE pc[r] = "verify" /\ Verifies(TaskOf(r).token)
           /\ (pc'[r] = "active" => TaskOf(r).token.kind # "id") /\ pc'[r] # "info"
  <2>1. TaskOf(r).token \in JWT /\ req[r].began \in Nat /\ req[r].began <= now
    BY <1>1, <1>4, RequestType DEF TasksAreFollowed, PresentIsSeen
  <2> QED
    BY <1>2, <1>4, <2>1 DEF Verifies, JWT, TypeOK
<1>5. CASE pc[r] = "user" /\ pc'[r] = "info" /\ Exists(TaskOf(r).token.sub)
  BY <1>1, <1>2, <1>5 DEF TokenWasLive, PresentIsSeen, Exists
<1> QED
  BY <1>1, <1>3, <1>4, <1>5 DEF GoesOn, Moves, Running

\* LiveTokenAccepted, by a step.
LEMMA AcceptedStep ==
    ASSUME TypeOK, TypeOK', TasksAreFollowed, PresentIsSeen, LiveTokenAccepted, [Next]_vars
    PROVE  LiveTokenAccepted'
<1> SUFFICES ASSUME NEW r \in Requests, pc'[r] \in {"invalid_token", "inactive"},
                    faults' = 0, now' < TaskOf(r)'.token.exp
             PROVE  IF Do(r)' = "userinfo" THEN TaskOf(r)'.token.sub \notin users'
                    ELSE ~TaskOf(r)'.secret \/ None \in seen'[r]
  BY DEF LiveTokenAccepted
<1>1. GoesOn(r) /\ pc[r] # "idle"
  BY RequestChange DEF Begins
<1>2. /\ TaskOf(r)' = TaskOf(r) /\ Do(r)' = Do(r)
      /\ seen[r] \subseteq seen'[r] /\ users' \subseteq users
  BY <1>1, WorldMoves DEF GoesOn, TaskOf, Do
<1>3. faults = 0 /\ (Do(r) \in {"userinfo", "introspect"} => now < TaskOf(r).token.exp)
  <2>1. Do(r) \in {"userinfo", "introspect"} => TaskOf(r).token.exp \in Nat
    BY <1>1, RequestType DEF JWT
  <2> QED
    BY <1>2, <2>1, WorldMoves DEF TypeOK
<1>4. CASE pc[r] = pc'[r]
  BY <1>2, <1>3, <1>4 DEF LiveTokenAccepted, TasksAreFollowed
<1>5. CASE pc[r] = "verify"
  BY <1>1, <1>2, <1>3, <1>5 DEF GoesOn, Moves, Verifies, Running, TypeOK
<1>6. CASE pc[r] = "user"
  BY <1>1, <1>2, <1>6 DEF GoesOn, Moves, Exists, Running, TasksAreFollowed
<1>7. CASE pc[r] = "client"
  <2>1. Do(r) = "introspect" /\ ~Authentic(r)
    BY <1>1, <1>7 DEF GoesOn, Moves, Running
  <2>2. clients[TaskOf(r).client] \in seen[r]
    BY <1>7, <2>1 DEF PresentIsSeen, Running
  <2> QED
    BY <1>2, <2>1, <2>2 DEF Authentic
<1> QED
  BY <1>1, <1>4, <1>5, <1>6, <1>7 DEF GoesOn, Moves, Running

\* CacheIsOld, by a step.
LEMMA CacheStep ==
    ASSUME TypeOK, CacheIsOld, [Next]_vars PROVE CacheIsOld'
<1>1. CASE cache' = KeySet /\ UNCHANGED <<now, run, started, jwts>>
  BY <1>1 DEF CacheIsOld, KeySet, TypeOK
<1>2. CASE cache' = cache /\ run' = run /\ started' = started
  BY <1>2, WorldMoves DEF CacheIsOld, TypeOK
<1>3. CASE cache' = cache /\ started' = now /\ now' = now
  BY <1>3 DEF CacheIsOld, TypeOK
<1> QED
  BY <1>1, <1>2, <1>3, WorldMoves

\* IInv is inductive.
LEMMA Inductive ==
    /\ Init => IInv
    /\ IInv /\ [Next]_vars => IInv'
<1>1. ASSUME Init PROVE IInv
  <2>1. TasksAreFollowed /\ PresentIsSeen /\ CopyEntitles /\ TokenWasLive
        /\ AnswersAreTrue /\ LiveTokenAccepted
    BY <1>1 DEF Init, TasksAreFollowed, PresentIsSeen, CopyEntitles, TokenWasLive,
                AnswersAreTrue, LiveTokenAccepted, Running
  <2>2. SignersAreDone /\ IssuedAsRegistered /\ CacheIsOld
    BY <1>1 DEF Init, SignersAreDone, IssuedAsRegistered, CacheIsOld
  <2> QED
    BY <1>1, <2>1, <2>2, TypeInit DEF IInv
<1>2. ASSUME IInv, [Next]_vars PROVE IInv'
  <2> USE DEF IInv
  <2>1. TypeOK'
    BY <1>2, TypeStep
  <2>2. TasksAreFollowed' /\ PresentIsSeen' /\ CopyEntitles'
    BY <1>2, <2>1, TasksStep, PresentStep, CopyStep
  <2>3. SignersAreDone' /\ IssuedAsRegistered'
    BY <1>2, <2>1, IssuedStep
  <2>4. TokenWasLive' /\ AnswersAreTrue'
    BY <1>2, <2>1, AnswersStep
  <2>5. LiveTokenAccepted' /\ CacheIsOld'
    BY <1>2, <2>1, AcceptedStep, CacheStep
  <2> QED
    BY <2>1, <2>2, <2>3, <2>4, <2>5
<1> QED
  BY <1>1, <1>2

-----------------------------------------------------------------------------
\* The invariant holds in every behaviour: types, and what ties a request to
\* the client, the keys and the token that it looked at.
THEOREM InvariantHolds == Spec => []IInv
BY Inductive, PTL DEF Spec

\* A client's own token is covered by one of its registrations, whole, though
\* the client is read once and changes at any time
\* (handleClientCredentialsGrant, handleJWTBearerGrant).
THEOREM IssuedCovered == Spec => []IssuedAsRegistered
<1>1. IInv => IssuedAsRegistered
  BY DEF IInv
<1> QED
  BY <1>1, InvariantHolds, PTL

\* Userinfo and introspection tell nothing of users who were gone, of expired
\* tokens or of ID tokens.
THEOREM AnswersTrue == Spec => []AnswersAreTrue
<1>1. IInv => AnswersAreTrue
  BY DEF IInv
<1> QED
  BY <1>1, InvariantHolds, PTL

\* A valid token is refused for a reason only, however often the process was
\* started since it was signed.
THEOREM LiveAccepted == Spec => []LiveTokenAccepted
<1>1. IInv => LiveTokenAccepted
  BY DEF IInv
<1> QED
  BY <1>1, InvariantHolds, PTL

\* A restart, with its new key identifier, makes resource servers refuse the
\* new tokens for at most the age of their cache.
THEOREM RefusalsEnd == Spec => []RefusalEndsWithMaxAge
<1>1. ASSUME IInv PROVE RefusalEndsWithMaxAge
  <2> SUFFICES ASSUME NEW t \in jwts, t.kid = run, now < t.exp, ~AcceptedAtResource(t)
               PROVE  now < started + MaxAge
    BY DEF RefusalEndsWithMaxAge
  <2>1. Fresh /\ cache.kid # run
    BY DEF AcceptedAtResource, Current, KeySet
  <2>2. cache \in [kid : Nat, at : Nat] /\ cache.at <= started
    BY <1>1, <2>1 DEF IInv, CacheIsOld, TypeOK, Fresh
  <2> QED
    BY <1>1, <2>1, <2>2, LifespanAssumption DEF Fresh, CacheAge, IInv, TypeOK
<1> QED
  BY <1>1, InvariantHolds, PTL

=============================================================================
