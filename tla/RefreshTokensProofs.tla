------------------------ MODULE RefreshTokensProofs ------------------------
(***************************************************************************)
(* Theorems about RefreshTokens for any number of tokens, requests and     *)
(* clients, any lifespans and any number of faults.                        *)
(***************************************************************************)
EXTENDS RefreshLease, TLAPS

\* Abbreviations that every proof below may expand.
USE DEF Kind, Token, Client, Go, WithoutToken, AfterUse

\* The initial state satisfies the invariant: nothing has been asked.
LEMMA InitInvariant == Init => IInv
<1> SUFFICES ASSUME Init PROVE IInv
  OBVIOUS
<1>1. \E in \in Input : TRUE
  <2>1. PICK t \in Tokens, client \in Clients : TRUE
    BY NonemptyAssumption
  <2>2. [kind |-> "refresh", token |-> t, client |-> client, secret |-> TRUE]
          \in Input
    BY DEF Input, Kinds
  <2> QED
    BY <2>2
<1>2. (CHOOSE in \in Input : TRUE) \in Input
  BY <1>1
<1> DEFINE unset == CHOOSE in \in Input : TRUE
<1> HIDE DEF unset
<1>3. \A r \in Requests :
        req[r] = [in |-> unset, began |-> 0, known |-> {}, before |-> {}]
  BY DEF Init, unset
<1>4. unset \in Input
  BY <1>2 DEF unset
<1>5. TypeOK
  BY <1>4 DEF Init, TypeOK, Running, Ended, unset
<1>6. DocumentsAreAsMinted /\ AccessIsIssued /\ BoughtByItsClient
  BY DEF Init, DocumentsAreAsMinted, AccessIsIssued, BoughtByItsClient
<1>7. RequestsAreEntitled /\ RevocationsAreFinal /\ LaterFindsNothing
  BY <1>3 DEF Init, RequestsAreEntitled, Entitled, RevocationsAreFinal,
              LaterFindsNothing
<1> QED
  BY <1>5, <1>6, <1>7 DEF IInv

\* A store operation, failed or not, leaves the fault counter a number.
LEMMA FaultType == faults \in Nat /\ (Succeeds \/ Fails) => faults' \in Nat
BY BoundAssumption DEF Succeeds, Fails

\* The parts of the record a request keeps.
LEMMA RequestType ==
    ASSUME TypeOK, NEW r \in Requests
    PROVE  /\ req[r].in \in Input
           /\ Token(r) \in Tokens /\ Client(r) \in Clients
           /\ req[r].began \in Nat
           /\ req[r].known \subseteq Clients /\ req[r].before \subseteq Requests
BY DEF TypeOK, Input

(***************************************************************************)
(* What a step may change, one lemma for each kind of step.  The proofs of *)
(* the invariant use these and never look into the actions again.          *)
(***************************************************************************)

\* A step of a request's handler moves that request, never the others, and
\* leaves the client, the clock and what was minted alone.
LEMMA StepFrame ==
    ASSUME TypeOK, NEW r \in Requests, Step(r)
    PROVE  /\ pc' = [pc EXCEPT ![r] = pc'[r]]
           /\ pc[r] \in Running /\ pc'[r] \in Running \cup Ended
           /\ UNCHANGED <<now, registered, minted, req>>
           /\ \/ tokens' = tokens
              \/ tokens' = [tokens EXCEPT ![Token(r)] = NoDoc]
<1>1. CASE CheckCredentials(r)
  <2>1. Unauthenticated(r) \in Ended
    BY RequestType DEF Unauthenticated, Input, Kinds, Ended
  <2> QED
    BY <1>1, <2>1 DEF CheckCredentials, TypeOK, Running
<1>2. CASE ReadForRefresh(r)
  BY <1>2 DEF ReadForRefresh, TypeOK, Running, Ended
<1>3. CASE DropExpired(r)
  BY <1>3 DEF DropExpired, TypeOK, Running, Ended
<1>4. CASE Sign(r)
  BY <1>4 DEF Sign, TypeOK, Running, Ended
<1>5. CASE ReadForIntrospect(r)
  BY <1>5 DEF ReadForIntrospect, TypeOK, Running, Ended
<1>6. CASE ReadForRevoke(r)
  BY <1>6 DEF ReadForRevoke, TypeOK, Running, Ended
<1>7. CASE Delete(r)
  BY <1>7 DEF Delete, TypeOK, Running, Ended
<1> QED
  BY <1>1, <1>2, <1>3, <1>4, <1>5, <1>6, <1>7 DEF Step
\* Where a request gets only from a certain point, and what it knew there.
LEMMA StepReaches ==
    ASSUME TypeOK, NEW r \in Requests, Step(r)
    PROVE  /\ pc'[r] \notin {"idle", "credentials"}
           /\ pc'[r] = "read" => pc[r] = "credentials" /\ Authentic(r)
           /\ pc'[r] \in {"sign", "drop", "delete", "active"} =>
                 pc[r] = "read" /\ Found(r) /\ tokens' = tokens
           /\ pc'[r] = "sign" => Owned(r) /\ ~Expired(tokens[Token(r)])
           /\ pc'[r] = "drop" => Expired(tokens[Token(r)])
           /\ pc'[r] = "delete" => Owned(r)
           /\ pc'[r] = "active" => now < tokens[Token(r)].expiresAt
           /\ pc'[r] = "issued" => pc[r] = "sign"
           /\ pc'[r] = "revoked" => pc[r] = "delete"
<1>1. CASE CheckCredentials(r)
  <2>1. Unauthenticated(r) \in {"invalid_client", "ignored", "inactive"}
    BY RequestType DEF Unauthenticated, Input, Kinds
  <2> QED
    BY <1>1, <2>1 DEF CheckCredentials, TypeOK
<1>2. CASE ReadForRefresh(r)
  BY <1>2 DEF ReadForRefresh, TypeOK
<1>3. CASE DropExpired(r)
  BY <1>3 DEF DropExpired, TypeOK
<1>4. CASE Sign(r)
  BY <1>4 DEF Sign, TypeOK
<1>5. CASE ReadForIntrospect(r)
  BY <1>5 DEF ReadForIntrospect, TypeOK
<1>6. CASE ReadForRevoke(r)
  <2>1. /\ pc[r] = "read" /\ tokens' = tokens
        /\ \/ Owned(r) /\ pc'[r] = "delete"
           \/ pc'[r] = "ignored"
    BY <1>6 DEF ReadForRevoke, TypeOK
  <2> QED
    BY <2>1 DEF Owned
<1>7. CASE Delete(r)
  BY <1>7 DEF Delete, TypeOK
<1> QED
  BY <1>1, <1>2, <1>3, <1>4, <1>5, <1>6, <1>7 DEF Step

\* Only Delete loses or completes a revocation, and one it does not lose
\* leaves no document.
LEMMA StepRevokes ==
    ASSUME TypeOK, NEW r \in Requests, Step(r)
    PROVE  /\ lost' \in {lost, lost \cup {r}}
           /\ pc'[r] = "revoked" /\ r \notin lost' => tokens'[Token(r)] = NoDoc
           /\ tokens' # tokens => pc[r] = "drop" \/ (pc[r] = "delete" /\ pc'[r] = "revoked")
<1>1. CASE Delete(r)
  BY <1>1, RequestType DEF Delete, TypeOK
<1>2. CASE DropExpired(r)
  BY <1>2 DEF DropExpired, TypeOK
<1>3. CASE ~Delete(r) /\ ~DropExpired(r)
  <2>1. lost' = lost /\ tokens' = tokens
    BY <1>3 DEF Step, CheckCredentials, ReadForRefresh, Sign, ReadForIntrospect,
                ReadForRevoke
  <2>2. pc[r] # "delete"
    BY <1>3 DEF Step, CheckCredentials, ReadForRefresh, Sign, ReadForIntrospect,
                ReadForRevoke
  <2> QED
    BY <2>1, <2>2, StepReaches
<1> QED
  BY <1>1, <1>2, <1>3

\* Only Sign makes an access token, with the contents of the refresh token.
LEMMA StepSigns ==
    ASSUME NEW r \in Requests, Step(r)
    PROVE  \/ access' = access
           \/ /\ pc[r] = "sign" /\ pc' = [pc EXCEPT ![r] = "issued"]
              /\ access' = access \cup
                   {[by |-> r, from |-> Token(r), client |-> Client(r),
                     user |-> minted[Token(r)].user,
                     expiresAt |-> now + AccessLifespan]}
BY DEF Step, CheckCredentials, ReadForRefresh, DropExpired, Sign,
       ReadForIntrospect, ReadForRevoke, Delete

\* What the clock, the sweep, an administrator and a crash may do between
\* them: they take documents and clients away and stop requests.
TakesAway ==
    /\ \A r \in Requests :
          pc'[r] = pc[r] \/ (pc[r] \in Running /\ pc'[r] = "crashed")
    /\ pc' \in [Requests -> {"idle"} \cup Running \cup Ended]
    /\ now' \in Nat /\ now <= now' /\ faults' \in Nat
    /\ registered' \subseteq registered
    /\ UNCHANGED <<minted, access, req, lost>>
    /\ \/ tokens' = tokens
       \/ \E t \in Tokens : /\ tokens[t].expiresAt <= now
                           /\ tokens' = [tokens EXCEPT ![t] = NoDoc]

\* Every step of Next is one of four kinds: a handler's step, the start of a
\* request, a grant's new token, or one that takes things away.
LEMMA KindsOfStep ==
    ASSUME TypeOK, [Next]_vars
    PROVE  \/ \E r \in Requests : Step(r)
           \/ \E r \in Requests, in \in Input : Begin(r, in)
           \/ \E t \in Tokens, client \in Clients, user \in Users :
                 Issue(t, client, user)
           \/ TakesAway
<1>1. CASE UNCHANGED vars
  BY <1>1 DEF vars, requestVars, TypeOK, TakesAway
<1>2. CASE Tick
  BY <1>2 DEF Tick, requestVars, TypeOK, TakesAway
<1>3. ASSUME NEW t \in Tokens, RemoveExpired(t) PROVE TakesAway
  <2>1. /\ UNCHANGED <<now, faults, registered, minted, access, pc, req, lost>>
        /\ tokens[t].expiresAt <= now
        /\ tokens' = [tokens EXCEPT ![t] = NoDoc]
    BY <1>3 DEF RemoveExpired, requestVars
  <2>2. /\ now' \in Nat /\ now <= now' /\ faults' \in Nat
        /\ registered' \subseteq registered
        /\ pc' \in [Requests -> {"idle"} \cup Running \cup Ended]
    BY <2>1 DEF TypeOK
  <2> QED
    BY <2>1, <2>2 DEF TakesAway
<1>4. ASSUME NEW client \in Clients, DeleteClient(client) PROVE TakesAway
  BY <1>4 DEF DeleteClient, requestVars, TypeOK, TakesAway
<1>5. CASE Crash
  <2>1. faults' \in Nat
    BY <1>5, FaultType DEF Crash, TypeOK
  <2>2. pc' \in [Requests -> {"idle"} \cup Running \cup Ended]
    BY <1>5 DEF Crash, TypeOK, Ended
  <2> QED
    BY <1>5, <2>1, <2>2 DEF Crash, TypeOK, TakesAway
<1> QED
  BY <1>1, <1>2, <1>3, <1>4, <1>5 DEF Next

\* Where a handler's step leads keeps every variable in its type.
LEMMA StepType ==
    ASSUME TypeOK, RequestsAreEntitled, NEW r \in Requests, Step(r)
    PROVE  TypeOK'
<1>1. /\ pc' = [pc EXCEPT ![r] = pc'[r]] /\ pc'[r] \in Running \cup Ended
      /\ UNCHANGED <<now, registered, minted, req>>
      /\ tokens' \in {tokens, [tokens EXCEPT ![Token(r)] = NoDoc]}
  BY StepFrame
<1>2. pc' \in [Requests -> {"idle"} \cup Running \cup Ended]
  BY <1>1 DEF TypeOK
<1>3. tokens' \in [Tokens -> Doc \cup {NoDoc}]
  BY <1>1, RequestType DEF TypeOK
<1>4. lost' \subseteq Requests
  BY StepRevokes DEF TypeOK
<1>5. faults' \in Nat
  <2>1. Succeeds \/ Fails \/ UNCHANGED faults
    BY DEF Step, CheckCredentials, ReadForRefresh, DropExpired, Sign,
           ReadForIntrospect, ReadForRevoke, Delete
  <2> QED
    BY <2>1, FaultType DEF TypeOK
<1>6. access' \subseteq AccessToken
  <2>1. pc[r] = "sign" => minted[Token(r)] \in Doc
    BY RequestType DEF TypeOK, RequestsAreEntitled, Entitled
  <2>2. pc[r] = "sign" => minted[Token(r)].user \in Users
    BY <2>1 DEF Doc
  <2>3. now + AccessLifespan \in Nat
    BY LifespanAssumption DEF TypeOK
  <2> QED
    BY <2>2, <2>3, StepSigns, RequestType DEF TypeOK, AccessToken
<1> QED
  BY <1>1, <1>2, <1>3, <1>4, <1>5, <1>6 DEF TypeOK

\* Every step keeps every variable in its type.
LEMMA NextType == TypeOK /\ RequestsAreEntitled /\ [Next]_vars => TypeOK'
<1> SUFFICES ASSUME TypeOK, RequestsAreEntitled, [Next]_vars PROVE TypeOK'
  OBVIOUS
<1>1. ASSUME NEW r \in Requests, NEW in \in Input, Begin(r, in) PROVE TypeOK'
  <2>1. [in |-> in, began |-> now, known |-> registered,
         before |-> {s \in Requests : pc[s] \in Ended}]
          \in [in : Input, began : Nat, known : SUBSET Clients,
               before : SUBSET Requests]
    BY DEF TypeOK
  <2> QED
    BY <1>1, <2>1 DEF Begin, TypeOK, Running
<1>2. ASSUME NEW t \in Tokens, NEW client \in Clients, NEW user \in Users,
             Issue(t, client, user)
      PROVE  TypeOK'
  <2>1. [client |-> client, user |-> user, expiresAt |-> now + RefreshLifespan]
          \in Doc
    BY LifespanAssumption DEF TypeOK, Doc
  <2> QED
    BY <1>2, <2>1 DEF Issue, TypeOK, requestVars
<1>3. CASE TakesAway
  BY <1>3 DEF TakesAway, TypeOK
<1> QED
  BY <1>1, <1>2, <1>3, StepType, KindsOfStep

-----------------------------------------------------------------------------
\* What was minted stays: documents are only taken away, and a token is made
\* once.
LEMMA MintedStays ==
    ASSUME TypeOK, [Next]_vars
    PROVE  /\ \A t \in Tokens : minted[t] # NoDoc => minted'[t] = minted[t]
           /\ \A t \in Tokens : \/ tokens'[t] = tokens[t] \/ tokens'[t] = NoDoc
                                \/ minted[t] = NoDoc /\ tokens'[t] = minted'[t]
<1>1. ASSUME NEW r \in Requests, Step(r)
      PROVE  /\ minted' = minted
             /\ tokens' \in {tokens, [tokens EXCEPT ![Token(r)] = NoDoc]}
  BY <1>1, StepFrame
<1>2. ASSUME NEW r \in Requests, NEW in \in Input, Begin(r, in)
      PROVE  minted' = minted /\ tokens' = tokens
  BY <1>2 DEF Begin
<1>3. ASSUME NEW t \in Tokens, NEW client \in Clients, NEW user \in Users,
             Issue(t, client, user)
      PROVE  /\ minted[t] = NoDoc
             /\ \E d : /\ minted' = [minted EXCEPT ![t] = d]
                      /\ tokens' = [tokens EXCEPT ![t] = d]
  BY <1>3 DEF Issue
<1>4. CASE TakesAway
  BY <1>4 DEF TakesAway, TypeOK
<1> QED
  BY <1>1, <1>2, <1>3, <1>4, KindsOfStep DEF TypeOK

\* A document never changes while it is there.
LEMMA DocumentsStep ==
    TypeOK /\ DocumentsAreAsMinted /\ [Next]_vars => DocumentsAreAsMinted'
<1> SUFFICES ASSUME TypeOK, DocumentsAreAsMinted, [Next]_vars,
                    NEW t \in Tokens, tokens'[t] # NoDoc
             PROVE  tokens'[t] = minted'[t]
  BY DEF DocumentsAreAsMinted
<1>1. tokens[t] # NoDoc => tokens[t] = minted[t]
  BY DEF DocumentsAreAsMinted
<1> QED
  BY <1>1, MintedStays

\* A request keeps what entitled it, and gains it where it goes on.
LEMMA EntitledStep ==
    /\ TypeOK /\ DocumentsAreAsMinted /\ RequestsAreEntitled /\ [Next]_vars
    => RequestsAreEntitled'
<1> SUFFICES ASSUME TypeOK, DocumentsAreAsMinted, RequestsAreEntitled,
                    [Next]_vars, NEW r \in Requests
             PROVE  Entitled(r)'
  BY DEF RequestsAreEntitled
<1>0. Entitled(r) /\ Token(r) \in Tokens
  BY RequestType DEF RequestsAreEntitled
<1>a. minted[Token(r)] # NoDoc =>
        minted'[Token(r)] = minted[Token(r)] /\ minted[Token(r)] \in Doc
  BY <1>0, MintedStays DEF TypeOK
\* A request that stands still, or is stopped, where nothing is registered.
<1>1. ASSUME pc'[r] = pc[r] \/ (pc[r] # "idle" /\ pc'[r] = "crashed"),
             req'[r] = req[r], now <= now', now' \in Nat,
             registered' \subseteq registered
      PROVE  Entitled(r)'
  <2>1. now \in Nat /\ req[r].began \in Nat
    BY RequestType DEF TypeOK
  <2>2. req[r].began <= now => req[r].began <= now'
    BY <1>1, <2>1
  <2>3. minted[Token(r)] # NoDoc => minted[Token(r)].expiresAt \in Nat
    BY <1>a DEF Doc
  <2>4. pc[r] = "drop" => now' > minted[Token(r)].expiresAt
    BY <1>0, <1>1, <2>1, <2>3 DEF Entitled
  <2> QED
    BY <1>0, <1>a, <1>1, <2>2, <2>4 DEF Entitled
<1>2. CASE Step(r)
  <2>1. UNCHANGED <<now, registered, minted, req>> /\ pc[r] \in Running
    BY <1>2, StepFrame
  <2>2. /\ pc[r] # "idle"
        /\ Found(r) => tokens[Token(r)] = minted[Token(r)]
    BY <1>0, <2>1 DEF Found, DocumentsAreAsMinted, Running
  <2>3. /\ now \in Nat /\ req[r].began \in Nat
        /\ minted[Token(r)].expiresAt \in Nat
        /\ req[r].began <= now
    BY <1>0, <1>a, <2>2, RequestType DEF Entitled, TypeOK, Doc
  <2>4. pc'[r] = "sign" => /\ Client(r) = minted[Token(r)].client
                           /\ ~ (now > minted[Token(r)].expiresAt)
    BY <1>2, <2>2, StepReaches DEF Owned, Expired
  <2>5. pc'[r] = "delete" => Client(r) = minted[Token(r)].client
    BY <1>2, <2>2, StepReaches DEF Owned
  <2>6. pc'[r] = "drop" => now > minted[Token(r)].expiresAt
    BY <1>2, <2>2, StepReaches DEF Expired
  <2>7. pc'[r] = "active" => now < minted[Token(r)].expiresAt
    BY <1>2, <2>2, StepReaches
  <2>8. pc'[r] \in {"sign", "issued", "active"} =>
          req[r].began <= minted[Token(r)].expiresAt
    <3>1. pc'[r] = "issued" => req[r].began <= minted[Token(r)].expiresAt
      BY <1>0, <1>2, StepReaches DEF Entitled
    <3> QED
      BY <2>3, <2>4, <2>7, <3>1
  <2>12. pc'[r] = "active" => req[r].began < minted[Token(r)].expiresAt
    BY <2>3, <2>7
  <2>9. pc'[r] \in {"read", "sign", "delete", "issued", "active", "revoked"} =>
          req[r].in.secret /\ Client(r) \in req[r].known
    <3>1. pc'[r] = "read" => req[r].in.secret /\ Client(r) \in req[r].known
      BY <1>0, <1>2, StepReaches DEF Entitled, Authentic
    <3>2. pc'[r] \in {"sign", "delete", "issued", "active", "revoked"} =>
            pc[r] \in {"read", "sign", "delete"}
      BY <1>2, StepReaches
    <3> QED
      BY <1>0, <3>1, <3>2 DEF Entitled
  <2>10. pc'[r] \notin {"idle", "credentials"}
    BY <1>2, StepReaches
  <2>11. minted[Token(r)] # NoDoc
    BY <1>0, <2>2 DEF Entitled
  <2> QED
    BY <2>1, <2>3, <2>4, <2>5, <2>6, <2>8, <2>9, <2>10, <2>11, <2>12 DEF Entitled
<1>3. ASSUME NEW s \in Requests, Step(s), s # r PROVE Entitled(r)'
  <2>1. pc'[r] = pc[r] /\ UNCHANGED <<now, registered, req>>
    BY <1>3, StepFrame DEF TypeOK
  <2> QED
    BY <1>1, <2>1 DEF TypeOK
<1>4. ASSUME NEW s \in Requests, NEW in \in Input, Begin(s, in)
      PROVE  Entitled(r)'
  <2>1. CASE s = r
    <3>1. /\ pc'[r] = "credentials"
          /\ req'[r].in = in /\ req'[r].began = now
          /\ req'[r].known = registered
          /\ minted[in.token] # NoDoc
          /\ UNCHANGED <<now, registered, minted>>
      BY <1>4, <2>1 DEF Begin, TypeOK
    <3> QED
      BY <3>1 DEF Entitled, TypeOK
  <2>2. CASE s # r
    <3>1. pc'[r] = pc[r] /\ req'[r] = req[r] /\ UNCHANGED <<now, registered>>
      BY <1>4, <2>2 DEF Begin, TypeOK
    <3> QED
      BY <1>1, <3>1 DEF TypeOK
  <2> QED
    BY <2>1, <2>2
<1>5. ASSUME NEW t \in Tokens, NEW client \in Clients, NEW user \in Users,
             Issue(t, client, user)
      PROVE  Entitled(r)'
  <2>1. UNCHANGED <<pc, req, now, registered>>
    BY <1>5 DEF Issue, requestVars
  <2> QED
    BY <1>1, <2>1 DEF TypeOK
<1>6. CASE TakesAway
  BY <1>1, <1>6 DEF TakesAway, Running
<1> QED
  BY <1>2, <1>3, <1>4, <1>5, <1>6, KindsOfStep

\* An answered request is settled: its answer, its record and whether its
\* delete was lost no longer change.
LEMMA AnswersStay ==
    ASSUME TypeOK, [Next]_vars, NEW r \in Requests, pc[r] \in Ended
    PROVE  /\ pc'[r] = pc[r] /\ req'[r] = req[r]
           /\ r \in lost' <=> r \in lost
<1>1. ASSUME NEW s \in Requests, Step(s)
      PROVE  /\ pc'[r] = pc[r] /\ req'[r] = req[r]
             /\ r \in lost' <=> r \in lost
  <2>1. s # r
    BY <1>1, StepFrame DEF Running, Ended
  <2> QED
    BY <1>1, <2>1, StepFrame, StepRevokes DEF TypeOK
<1>2. ASSUME NEW s \in Requests, NEW in \in Input, Begin(s, in)
      PROVE  pc'[r] = pc[r] /\ req'[r] = req[r] /\ lost' = lost
  BY <1>2 DEF Begin, TypeOK, Ended
<1>3. ASSUME NEW t \in Tokens, NEW client \in Clients, NEW user \in Users,
             Issue(t, client, user)
      PROVE  pc' = pc /\ req' = req /\ lost' = lost
  BY <1>3 DEF Issue, requestVars
<1>4. CASE TakesAway
  BY <1>4 DEF TakesAway, Running, Ended
<1> QED
  BY <1>1, <1>2, <1>3, <1>4, KindsOfStep

\* A request is answered, or gets on, only by a step of its own handler.
LEMMA OnlyByItsHandler ==
    ASSUME TypeOK, [Next]_vars, NEW r \in Requests, pc'[r] # pc[r],
           pc'[r] \notin {"credentials", "crashed"}
    PROVE  Step(r)
<1>1. ASSUME NEW s \in Requests, Step(s), s # r PROVE pc'[r] = pc[r]
  BY <1>1, StepFrame DEF TypeOK
<1>2. ASSUME NEW s \in Requests, NEW in \in Input, Begin(s, in)
      PROVE  pc'[r] \in {pc[r], "credentials"}
  BY <1>2 DEF Begin, TypeOK
<1>3. ASSUME NEW t \in Tokens, NEW client \in Clients, NEW user \in Users,
             Issue(t, client, user)
      PROVE  pc' = pc
  BY <1>3 DEF Issue, requestVars
<1>4. CASE TakesAway
  BY <1>4 DEF TakesAway
<1> QED
  BY <1>1, <1>2, <1>3, <1>4, KindsOfStep

\* A revocation that was not lost leaves no document, and no second one is
\* ever made.
LEMMA RevocationsStep ==
    TypeOK /\ RequestsAreEntitled /\ RevocationsAreFinal /\ [Next]_vars
    => RevocationsAreFinal'
<1> SUFFICES ASSUME TypeOK, RequestsAreEntitled, RevocationsAreFinal,
                    [Next]_vars, NEW v \in Requests,
                    pc'[v] = "revoked", v \notin lost'
             PROVE  tokens'[req'[v].in.token] = NoDoc
  BY DEF RevocationsAreFinal
<1>1. CASE pc[v] = "revoked"
  <2>1. req'[v] = req[v] /\ v \notin lost
    BY <1>1, AnswersStay DEF Ended
  <2>2. minted[Token(v)] # NoDoc
    BY <1>1 DEF RequestsAreEntitled, Entitled
  <2>3. tokens[Token(v)] = NoDoc
    BY <1>1, <2>1 DEF RevocationsAreFinal
  <2>4. Token(v) \in Tokens
    BY RequestType
  <2> QED
    BY <2>1, <2>2, <2>3, <2>4, MintedStays
<1>2. CASE pc[v] # "revoked"
  <2>1. Step(v)
    BY <1>2, OnlyByItsHandler
  <2> QED
    BY <2>1, StepFrame, StepRevokes
<1> QED
  BY <1>1, <1>2

\* A request that begins after a revocation was answered never finds the
\* document again.
LEMMA LaterStep ==
    /\ TypeOK /\ RequestsAreEntitled /\ RevocationsAreFinal /\ LaterFindsNothing
    /\ [Next]_vars
    => LaterFindsNothing'
<1> SUFFICES ASSUME TypeOK, RequestsAreEntitled, RevocationsAreFinal,
                    LaterFindsNothing, [Next]_vars,
                    NEW r \in Requests, NEW v \in Requests,
                    v \in req'[r].before
             PROVE  /\ pc'[v] \in Ended
                    /\ pc'[v] = "revoked" /\ v \notin lost'
                       /\ req'[r].in.token = req'[v].in.token =>
                          pc'[r] \notin {"sign", "issued", "active"}
  BY DEF LaterFindsNothing
<1>1. CASE req'[r] # req[r]
  <2>1. PICK in \in Input : Begin(r, in)
    <3>1. ASSUME NEW s \in Requests, Step(s) PROVE FALSE
      BY <1>1, <3>1, StepFrame
    <3>2. ASSUME NEW s \in Requests, NEW i \in Input, Begin(s, i), s # r
          PROVE  FALSE
      BY <1>1, <3>2 DEF Begin, TypeOK
    <3>3. ASSUME NEW t \in Tokens, NEW client \in Clients, NEW user \in Users,
                 Issue(t, client, user)
          PROVE  FALSE
      BY <1>1, <3>3 DEF Issue, requestVars
    <3>4. ~TakesAway
      BY <1>1 DEF TakesAway
    <3> QED
      BY <3>1, <3>2, <3>3, <3>4, KindsOfStep
  <2>2. pc'[r] = "credentials" /\ req'[r].before = {s \in Requests : pc[s] \in Ended}
    BY <2>1 DEF Begin, TypeOK
  <2>3. pc[v] \in Ended
    BY <2>2
  <2> QED
    BY <2>2, <2>3, AnswersStay
<1>2. CASE req'[r] = req[r]
  <2>1. /\ pc[v] \in Ended
        /\ pc[v] = "revoked" /\ v \notin lost /\ Token(r) = Token(v) =>
              pc[r] \notin {"sign", "issued", "active"}
    BY <1>2 DEF LaterFindsNothing
  <2>2. pc'[v] = pc[v] /\ req'[v] = req[v] /\ (v \in lost' <=> v \in lost)
    BY <2>1, AnswersStay
  <2> SUFFICES ASSUME pc[v] = "revoked", v \notin lost, Token(r) = Token(v),
                      pc'[r] \in {"sign", "issued", "active"}
               PROVE  FALSE
    BY <1>2, <2>1, <2>2
  <2>3. Step(r)
    BY <2>1, OnlyByItsHandler
  <2>4. Found(r)
    BY <2>1, <2>3, StepReaches
  <2> QED
    BY <2>4 DEF Found, RevocationsAreFinal
<1> QED
  BY <1>1, <1>2

\* An access token is signed by its own request, which then has ended.
LEMMA AccessStep ==
    TypeOK /\ AccessIsIssued /\ [Next]_vars => AccessIsIssued'
<1> SUFFICES ASSUME TypeOK, AccessIsIssued, [Next]_vars,
                    NEW a \in access'
             PROVE  pc'[a.by] = "issued" /\ a.from = req'[a.by].in.token
  BY DEF AccessIsIssued
<1>1. CASE a \in access
  <2>1. a.by \in Requests /\ pc[a.by] \in Ended
    BY <1>1 DEF TypeOK, AccessToken, AccessIsIssued, Ended
  <2> QED
    BY <1>1, <2>1, AnswersStay DEF AccessIsIssued
<1>2. CASE a \notin access
  <2>1. PICK r \in Requests : Step(r)
    BY <1>2, KindsOfStep DEF Begin, Issue, requestVars, TakesAway
  <2>2. /\ pc' = [pc EXCEPT ![r] = "issued"]
        /\ a.by = r /\ a.from = Token(r)
    BY <1>2, <2>1, StepSigns
  <2> QED
    BY <2>1, <2>2, StepFrame DEF TypeOK
<1> QED
  BY <1>1, <1>2

\* An access token is bought by the client of the refresh token.
LEMMA BoughtStep ==
    /\ TypeOK /\ RequestsAreEntitled /\ AccessIsIssued /\ BoughtByItsClient
    /\ [Next]_vars
    => BoughtByItsClient'
<1> SUFFICES ASSUME TypeOK, RequestsAreEntitled, AccessIsIssued,
                    BoughtByItsClient, [Next]_vars, NEW a \in access'
             PROVE  /\ a.client = minted'[a.from].client
                    /\ a.user = minted'[a.from].user
                    /\ a.client \in req'[a.by].known
                    /\ req'[a.by].in.secret
  BY DEF BoughtByItsClient
<1>1. CASE a \in access
  <2>1. a.by \in Requests /\ pc[a.by] = "issued" /\ a.from = Token(a.by)
    BY <1>1 DEF TypeOK, AccessToken, AccessIsIssued
  <2>2. minted[a.from] # NoDoc /\ a.from \in Tokens
    BY <2>1, RequestType DEF RequestsAreEntitled, Entitled
  <2>3. minted'[a.from] = minted[a.from] /\ req'[a.by] = req[a.by]
    BY <2>1, <2>2, MintedStays, AnswersStay DEF Ended
  <2> QED
    BY <1>1, <2>3 DEF BoughtByItsClient
<1>2. CASE a \notin access
  <2>1. PICK r \in Requests : Step(r)
    BY <1>2, KindsOfStep DEF Begin, Issue, requestVars, TakesAway
  <2>2. /\ pc[r] = "sign" /\ a.by = r /\ a.from = Token(r)
        /\ a.client = Client(r) /\ a.user = minted[Token(r)].user
    BY <1>2, <2>1, StepSigns
  <2>3. /\ req[r].in.secret /\ Client(r) \in req[r].known
        /\ Client(r) = minted[Token(r)].client
    BY <2>2 DEF RequestsAreEntitled, Entitled
  <2>4. UNCHANGED <<minted, req>>
    BY <2>1, StepFrame
  <2> QED
    BY <2>2, <2>3, <2>4
<1> QED
  BY <1>1, <1>2

-----------------------------------------------------------------------------
\* Every step keeps the invariant.
LEMMA NextInvariant == IInv /\ [Next]_vars => IInv'
BY NextType, DocumentsStep, EntitledStep, RevocationsStep, LaterStep,
   AccessStep, BoughtStep DEF IInv

\* In every behaviour each request has what entitles it to the point it has
\* reached, and each revocation stays done.
THEOREM InvariantHolds == Spec => []IInv
<1>1. Init => IInv
  BY InitInvariant
<1>2. IInv /\ [Next]_vars => IInv'
  BY NextInvariant
<1> QED
  BY <1>1, <1>2, PTL DEF Spec

\* A refresh token whose revocation was answered, and not lost, serves nobody
\* who asks later, whatever else runs, fails or restarts in between.
THEOREM RevocationIsFinal == Spec => []RevokedForGood
<1>1. IInv => RevokedForGood
  BY DEF IInv, LaterFindsNothing, RevokedForGood
<1> QED
  BY <1>1, InvariantHolds, PTL

\* A request that begins after the expiry is served no token, and one that
\* begins at the expiry or after it no "active", whether or not the document is
\* still stored.
THEOREM ExpiryIsRespected == Spec => []ExpiredIsDead
<1>1. IInv => ExpiredIsDead
  BY DEF IInv, RequestsAreEntitled, Entitled, ExpiredIsDead
<1> QED
  BY <1>1, InvariantHolds, PTL

\* Access tokens go to the client and the user the refresh token was made
\* for, and to a client that showed its secret.
THEOREM OnlyItsClientBuys == Spec => []BoughtByItsClient
<1>1. IInv => BoughtByItsClient
  BY DEF IInv
<1> QED
  BY <1>1, InvariantHolds, PTL

\* A document that has not expired is taken away only by a revocation of its
\* client.
LEMMA ValidDisappears ==
    ASSUME IInv, [Next]_vars, NEW t \in Tokens,
           tokens[t] # NoDoc, tokens'[t] = NoDoc,
           ~(tokens[t].expiresAt <= now)
    PROVE  \E v \in Requests :
              /\ pc[v] = "delete" /\ pc'[v] = "revoked"
              /\ Token(v) = t /\ Client(v) = minted[t].client
              /\ req[v].in.secret
<1> USE DEF IInv
<1>0. tokens[t] = minted[t] /\ tokens[t] \in Doc
  BY DEF DocumentsAreAsMinted, TypeOK
<1>1. PICK v \in Requests : Step(v)
  <2>1. ASSUME NEW r \in Requests, NEW in \in Input, Begin(r, in) PROVE FALSE
    BY <2>1 DEF Begin
  <2>2. ASSUME NEW s \in Tokens, NEW client \in Clients, NEW user \in Users,
               Issue(s, client, user)
        PROVE  FALSE
    <3>1. [client |-> client, user |-> user,
           expiresAt |-> now + RefreshLifespan] \in Doc
      BY LifespanAssumption DEF TypeOK, Doc
    <3> QED
      BY <2>2, <3>1, NoneAssumption DEF Issue, TypeOK
  <2>3. ASSUME TakesAway PROVE FALSE
    BY <2>3 DEF TakesAway, TypeOK
  <2> QED
    BY <2>1, <2>2, <2>3, KindsOfStep
<1>2. tokens' = [tokens EXCEPT ![Token(v)] = NoDoc] /\ Token(v) = t
  BY <1>1, StepFrame DEF TypeOK
<1>3. pc[v] = "drop" \/ (pc[v] = "delete" /\ pc'[v] = "revoked")
  BY <1>1, <1>2, StepRevokes
<1>4. pc[v] # "drop"
  <2>1. pc[v] = "drop" => now > minted[t].expiresAt
    BY <1>2 DEF RequestsAreEntitled, Entitled
  <2>2. now \in Nat /\ minted[t].expiresAt \in Nat
    BY <1>0 DEF TypeOK, Doc
  <2> QED
    BY <1>0, <2>1, <2>2
<1> QED
  BY <1>2, <1>3, <1>4 DEF RequestsAreEntitled, Entitled

\* A refresh token that is still valid disappears only in a revocation by the
\* client it was made for: no other client's revocation, no failure and no
\* refresh takes it away.
THEOREM OnlyTheOwnerRevokes == Spec => OnlyOwnerRevokes
<1>1. IInv /\ [Next]_vars =>
        [\A t \in Tokens :
          tokens[t] # NoDoc /\ tokens'[t] = NoDoc
          => \/ tokens[t].expiresAt <= now
             \/ \E v \in Requests :
                   /\ pc[v] = "delete" /\ pc'[v] = "revoked"
                   /\ Token(v) = t /\ Client(v) = minted[t].client
                   /\ req[v].in.secret]_vars
  BY ValidDisappears
<1> QED
  BY <1>1, InvariantHolds, PTL DEF Spec, OnlyOwnerRevokes

-----------------------------------------------------------------------------
(***************************************************************************)
(* A live token works.                                                     *)
(***************************************************************************)

\* Only a revocation comes to the delete.
DeleteRevokes == \A r \in Requests : pc[r] = "delete" => Kind(r) = "revoke"

\* Nothing failed, no client was deleted, and the token's own client has not
\* asked for its revocation before it expires.
Undisturbed(t) ==
    /\ faults = 0 /\ registered = Clients
    /\ now < minted[t].expiresAt
    /\ ~ \E v \in Requests :
            /\ pc[v] # "idle" /\ Kind(v) = "revoke" /\ Token(v) = t
            /\ Client(v) = minted[t].client

\* Then its document is there.
LiveIsThere ==
    \A t \in Tokens : minted[t] # NoDoc /\ Undisturbed(t) => tokens[t] = minted[t]

LiveInv == IInv /\ DeleteRevokes /\ LiveIsThere /\ LiveTokenWorks

\* Faults are only added, clients only taken away, requests stay begun.
LEMMA DisturbanceStays ==
    ASSUME TypeOK, [Next]_vars
    PROVE  /\ faults' = 0 => faults = 0
           /\ registered' \subseteq registered /\ now <= now'
           /\ \A r \in Requests : pc[r] # "idle" => pc'[r] # "idle" /\ req'[r] = req[r]
<1>0. faults \in Nat /\ now \in Nat
  BY DEF TypeOK
<1>1. faults' = 0 => faults = 0
  <2>1. Succeeds \/ Fails \/ faults' = faults
    BY DEF Next, Step, CheckCredentials, ReadForRefresh, DropExpired, Sign, ReadForIntrospect,
           ReadForRevoke, Delete, Issue, Begin, Tick, RemoveExpired, DeleteClient, Crash,
           Succeeds, vars
  <2> QED
    BY <1>0, <2>1 DEF Succeeds, Fails
<1>2. ASSUME NEW s \in Requests, Step(s)
      PROVE  /\ registered' \subseteq registered /\ now <= now'
             /\ \A r \in Requests : pc[r] # "idle" => pc'[r] # "idle" /\ req'[r] = req[r]
  BY <1>0, <1>2, StepFrame DEF TypeOK, Running, Ended
<1>3. ASSUME NEW s \in Requests, NEW in \in Input, Begin(s, in)
      PROVE  /\ registered' \subseteq registered /\ now <= now'
             /\ \A r \in Requests : pc[r] # "idle" => pc'[r] # "idle" /\ req'[r] = req[r]
  BY <1>0, <1>3 DEF Begin, TypeOK
<1>4. ASSUME NEW t \in Tokens, NEW client \in Clients, NEW user \in Users,
             Issue(t, client, user)
      PROVE  /\ registered' \subseteq registered /\ now <= now'
             /\ \A r \in Requests : pc[r] # "idle" => pc'[r] # "idle" /\ req'[r] = req[r]
  <2>1. UNCHANGED <<now, registered, pc, req>>
    BY <1>4 DEF Issue, requestVars
  <2> QED
    BY <1>0, <2>1
<1>5. CASE TakesAway
  BY <1>1, <1>5 DEF TakesAway, Running
<1> QED
  BY <1>1, <1>2, <1>3, <1>4, <1>5, KindsOfStep

\* What is undisturbed was so before.
LEMMA WasUndisturbed ==
    ASSUME TypeOK, [Next]_vars, NEW t \in Tokens, minted[t] # NoDoc, Undisturbed(t)'
    PROVE  Undisturbed(t) /\ minted'[t] = minted[t]
<1>1. minted'[t] = minted[t]
  BY MintedStays
<1>2. now \in Nat /\ now' \in Nat /\ minted[t].expiresAt \in Nat
      /\ registered \subseteq Clients
  <2>1. minted[t] \in Doc
    BY DEF TypeOK
  <2>2. now' \in Nat
    <3>1. \A r \in Requests : Step(r) => now' = now
      BY StepFrame
    <3>2. \A r \in Requests, in \in Input : Begin(r, in) => now' = now
      BY DEF Begin
    <3>3. \A s \in Tokens, client \in Clients, user \in Users :
             Issue(s, client, user) => now' = now
      BY DEF Issue
    <3> QED
      BY <3>1, <3>2, <3>3, KindsOfStep DEF TypeOK, TakesAway
  <2> QED
    BY <2>1, <2>2 DEF TypeOK, Doc
<1>3. now < minted[t].expiresAt /\ faults = 0 /\ registered = Clients
  BY <1>1, <1>2, DisturbanceStays DEF Undisturbed
<1>4. ASSUME NEW v \in Requests, pc[v] # "idle", Kind(v) = "revoke", Token(v) = t,
             Client(v) = minted[t].client
      PROVE  FALSE
  BY <1>1, <1>4, DisturbanceStays DEF Undisturbed
<1> QED
  BY <1>1, <1>3, <1>4 DEF Undisturbed

\* Why a handler's step ends in one of the refusals.
LEMMA StepRefuses ==
    ASSUME TypeOK, NEW r \in Requests, Step(r),
           pc'[r] \in {"inactive", "invalid_client", "invalid_grant"}
    PROVE  \/ Fails
           \/ pc[r] = "credentials" /\ ~Authentic(r)
           \/ pc[r] = "drop"
           \/ /\ pc[r] = "read" /\ Kind(r) = "introspect"
              /\ ~(Found(r) /\ now < tokens[Token(r)].expiresAt)
           \/ /\ pc[r] = "read" /\ ~Owned(r) /\ pc'[r] = "invalid_grant"
<1>1. CASE CheckCredentials(r)
  <2>1. Unauthenticated(r) \in {"invalid_client", "ignored", "inactive"}
    BY RequestType DEF Unauthenticated, Input, Kinds
  <2> QED
    BY <1>1, <2>1 DEF CheckCredentials, TypeOK
<1>2. CASE ReadForRefresh(r)
  BY <1>2 DEF ReadForRefresh, TypeOK, Owned
<1>3. CASE DropExpired(r)
  BY <1>3 DEF DropExpired, TypeOK
<1>4. CASE Sign(r)
  BY <1>4 DEF Sign, TypeOK
<1>5. CASE ReadForIntrospect(r)
  BY <1>5 DEF ReadForIntrospect, TypeOK
<1>6. CASE ReadForRevoke(r)
  BY <1>6 DEF ReadForRevoke, TypeOK
<1>7. CASE Delete(r)
  BY <1>7 DEF Delete, TypeOK
<1> QED
  BY <1>1, <1>2, <1>3, <1>4, <1>5, <1>6, <1>7 DEF Step

\* Only ReadForRevoke comes to the delete.
LEMMA DeleteStep == TypeOK /\ DeleteRevokes /\ [Next]_vars => DeleteRevokes'
<1> SUFFICES ASSUME TypeOK, DeleteRevokes, [Next]_vars, NEW r \in Requests, pc'[r] = "delete"
             PROVE  req'[r].in.kind = "revoke"
  BY DEF DeleteRevokes
<1>1. CASE pc'[r] = pc[r]
  BY <1>1, DisturbanceStays DEF DeleteRevokes
<1>2. CASE pc'[r] # pc[r]
  <2>1. Step(r)
    BY <1>2, OnlyByItsHandler
  <2>2. ReadForRevoke(r)
    <3>1. ~CheckCredentials(r)
      BY <2>1, RequestType DEF CheckCredentials, Unauthenticated, Input, Kinds, TypeOK
    <3>2. ~ReadForRefresh(r) /\ ~DropExpired(r) /\ ~Sign(r) /\ ~ReadForIntrospect(r)
          /\ ~Delete(r)
      BY DEF ReadForRefresh, DropExpired, Sign, ReadForIntrospect, Delete, TypeOK
    <3> QED
      BY <2>1, <3>1, <3>2 DEF Step
  <2> QED
    BY <2>2 DEF ReadForRevoke
<1> QED
  BY <1>1, <1>2

\* The document of a live token stays.
LEMMA LiveStep ==
    IInv /\ DeleteRevokes /\ LiveIsThere /\ [Next]_vars => LiveIsThere'
<1> SUFFICES ASSUME IInv, DeleteRevokes, LiveIsThere, [Next]_vars,
                    NEW t \in Tokens, minted'[t] # NoDoc, Undisturbed(t)'
             PROVE  tokens'[t] = minted'[t]
  BY DEF LiveIsThere
<1>0. TypeOK
  BY DEF IInv
<1>1. CASE minted[t] = NoDoc
  <2>1. PICK s \in Tokens, client \in Clients, user \in Users : Issue(s, client, user)
    <3>1. \A r \in Requests : Step(r) => minted' = minted
      BY <1>0, StepFrame
    <3>2. \A r \in Requests, in \in Input : Begin(r, in) => minted' = minted
      BY DEF Begin
    <3> QED
      BY <1>0, <1>1, <3>1, <3>2, KindsOfStep DEF TakesAway
  <2> QED
    BY <1>0, <1>1, <2>1 DEF Issue, TypeOK
<1>2. CASE minted[t] # NoDoc
  <2>1. Undisturbed(t) /\ minted'[t] = minted[t] /\ tokens[t] = minted[t]
    BY <1>0, <1>2, WasUndisturbed DEF LiveIsThere
  <2>2. CASE tokens'[t] = NoDoc
    <3>1. ~(tokens[t].expiresAt <= now)
      <4>1. minted[t] \in Doc
        BY <1>0, <1>2 DEF TypeOK
      <4> QED
        BY <1>0, <2>1, <4>1 DEF Undisturbed, TypeOK, Doc
    <3>2. PICK v \in Requests : pc[v] = "delete" /\ Token(v) = t /\ Client(v) = minted[t].client
      BY <1>2, <2>1, <2>2, <3>1, ValidDisappears
    <3> QED
      BY <2>1, <3>2 DEF DeleteRevokes, Undisturbed
  <2>3. CASE tokens'[t] # NoDoc
    BY <1>0, <1>2, <2>1, <2>3, MintedStays
  <2> QED
    BY <2>2, <2>3
<1> QED
  BY <1>1, <1>2

\* And nobody is refused it.
LEMMA WorksStep == LiveInv /\ [Next]_vars => LiveTokenWorks'
<1> SUFFICES ASSUME LiveInv, [Next]_vars, NEW r \in Requests,
                    faults' = 0, registered' = Clients, req'[r].in.secret,
                    now' < minted'[req'[r].in.token].expiresAt,
                    ~ \E v \in Requests :
                         /\ pc'[v] # "idle" /\ req'[v].in.kind = "revoke"
                         /\ req'[v].in.token = req'[r].in.token
                         /\ req'[v].in.client = minted'[req'[r].in.token].client,
                    pc'[r] \in {"inactive", "invalid_client", "invalid_grant"},
                    \/ pc'[r] = "inactive"
                    \/ req'[r].in.client = minted'[req'[r].in.token].client
             PROVE  FALSE
  BY DEF LiveTokenWorks
<1>0. TypeOK /\ IInv
  BY DEF LiveInv, IInv
<1>1. pc[r] # "idle"
  <2>1. CASE pc'[r] = pc[r]
    BY <2>1
  <2>2. CASE pc'[r] # pc[r]
    BY <1>0, <2>2, OnlyByItsHandler, StepFrame DEF Running
  <2> QED
    BY <2>1, <2>2
<1>2. req'[r] = req[r]
  BY <1>0, <1>1, DisturbanceStays
<1>3. PICK t \in Tokens : t = Token(r)
  BY <1>0, RequestType
<1>4. minted[t] # NoDoc
  BY <1>0, <1>1, <1>3 DEF IInv, RequestsAreEntitled, Entitled
<1>5. Undisturbed(t)'
  BY <1>2, <1>3 DEF Undisturbed
<1>6. Undisturbed(t) /\ minted'[t] = minted[t]
  BY <1>0, <1>4, <1>5, WasUndisturbed
<1>7. tokens[t] = minted[t] /\ minted[t] \in Doc
  BY <1>0, <1>4, <1>6 DEF LiveInv, LiveIsThere, TypeOK
<1>8. CASE pc'[r] = pc[r]
  BY <1>2, <1>3, <1>6, <1>8 DEF LiveInv, LiveTokenWorks, Undisturbed
<1>9. CASE pc'[r] # pc[r]
  <2>1. Step(r)
    BY <1>0, <1>9, OnlyByItsHandler
  <2>2. ~Fails
    BY <1>6 DEF Fails, Undisturbed
  <2>3. ~(pc[r] = "credentials" /\ ~Authentic(r))
    BY <1>0, <1>2, <1>6, RequestType DEF Authentic, Undisturbed
  <2>4. pc[r] # "drop"
    <3>1. pc[r] = "drop" => now > minted[t].expiresAt
      BY <1>0, <1>3 DEF IInv, RequestsAreEntitled, Entitled
    <3> QED
      BY <1>0, <1>6, <1>7, <3>1 DEF Undisturbed, TypeOK, Doc
  <2>5. Found(r) /\ now < tokens[t].expiresAt
    BY <1>3, <1>6, <1>7, <1>4 DEF Found, Undisturbed
  <2>6. pc'[r] = "invalid_grant" => Owned(r)
    BY <1>2, <1>3, <1>6, <1>7, <2>5 DEF Owned
  <2> QED
    BY <1>0, <1>3, <2>1, <2>2, <2>3, <2>4, <2>5, <2>6, StepRefuses
<1> QED
  BY <1>8, <1>9

\* A live refresh token works as often as its client likes.
THEOREM LiveTokensWork == Spec => []LiveTokenWorks
<1>1. Init => LiveInv
  <2> SUFFICES ASSUME Init PROVE LiveInv
    OBVIOUS
  <2>1. IInv
    BY InitInvariant
  <2> QED
    BY <2>1 DEF Init, LiveInv, DeleteRevokes, LiveIsThere, LiveTokenWorks
<1>2. LiveInv /\ [Next]_vars => LiveInv'
  BY NextInvariant, DeleteStep, LiveStep, WorksStep DEF LiveInv, IInv
<1>3. LiveInv => LiveTokenWorks
  BY DEF LiveInv
<1> QED
  BY <1>1, <1>2, <1>3, PTL DEF Spec

-----------------------------------------------------------------------------
(***************************************************************************)
(* A refresh token is a lease.                                             *)
(***************************************************************************)

Places == {"idle"} \cup Running \cup Ended

LEMMA UseIs ==
    ASSUME NEW w \in Places
    PROVE  /\ UseOf(w) = "none" <=> w = "idle"
           /\ UseOf(w) = "asked" <=> w \in {"credentials", "read"}
           /\ UseOf(w) = "in" <=> w \in {"sign", "issued", "active"}
           /\ UseOf(w) \in {"none", "asked", "in", "left"}
BY DEF UseOf, Places, Running, Ended

\* A token that is there ends or stays as it is.
LEMMA StateMoves ==
    ASSUME IInv, [Next]_vars, minted' = minted
    PROVE  \A t \in Tokens : TokenState'[t] \in {TokenState[t], "over"}
<1> SUFFICES ASSUME NEW t \in Tokens PROVE TokenState'[t] \in {TokenState[t], "over"}
  OBVIOUS
<1>1. tokens'[t] \in {tokens[t], NoDoc} \/ minted[t] = NoDoc
  BY MintedStays DEF IInv
<1>2. now \in Nat /\ now' \in Nat /\ now <= now'
  <2>1. ASSUME NEW r \in Requests, Step(r) PROVE now' = now
    BY <2>1, StepFrame DEF IInv
  <2>2. now' = now \/ TakesAway
    BY <2>1, KindsOfStep DEF IInv, Begin, Issue
  <2> QED
    BY <2>2 DEF IInv, TypeOK, TakesAway
<1>3. tokens[t] # NoDoc => tokens[t].expiresAt \in Nat
  BY DEF IInv, TypeOK, Doc
<1> QED
  BY <1>1, <1>2, <1>3 DEF TokenState, Expired

\* The step of a handler: it goes on, is let in by a valid document, leaves,
\* or takes the document away.
LEMMA StepIsOfLease ==
    ASSUME IInv, NEW r \in Requests, Step(r)
    PROVE  [Abstract!Next]_(Abstract!vars)
<1> USE DEF IInv
<1>1. /\ pc' = [pc EXCEPT ![r] = pc'[r]]
      /\ pc[r] \in Running /\ pc'[r] \in Running \cup Ended
      /\ UNCHANGED <<now, registered, minted, req>>
  BY StepFrame
<1>2. TokenOf' = TokenOf
  BY <1>1 DEF TokenOf, Token
<1>3. TokenUse' = [TokenUse EXCEPT ![r] = UseOf(pc'[r])]
  BY <1>1 DEF TokenUse, TypeOK
<1>4. CASE tokens' # tokens
  <2>1. pc[r] = "drop" \/ (pc[r] = "delete" /\ pc'[r] = "revoked")
    BY <1>4, StepRevokes
  <2>2. UseOf(pc[r]) = "left" /\ UseOf(pc'[r]) = "left"
    <3>1. pc[r] \in Places /\ pc'[r] \in Places
      BY <1>1 DEF Places
    <3>2. pc'[r] \notin {"idle", "credentials", "read", "sign", "issued", "active"}
      BY <2>1, StepReaches
    <3> QED
      BY <2>1, <3>1, <3>2, UseIs
  <2>3. TokenUse' = TokenUse
    BY <1>3, <2>2 DEF TokenUse
  <2> DEFINE L == {t \in Tokens : TokenState'[t] = "over"}
  <2>4. \A t \in Tokens : TokenState'[t] \in {TokenState[t], "over"}
    BY <1>1, StateMoves DEF Next
  <2>5. TokenState' = [t \in Tokens |-> IF t \in L THEN "over" ELSE TokenState[t]]
    BY <2>4 DEF TokenState
  <2>6. Abstract!End(L, {})
    BY <1>2, <2>3, <2>5 DEF Abstract!End, TokenUse
  <2> HIDE DEF L
  <2>7. L \in SUBSET Tokens
    BY DEF L
  <2> QED
    BY <2>6, <2>7 DEF Abstract!Next
<1>5. CASE tokens' = tokens
  <2>1. TokenState' = TokenState
    BY <1>1, <1>5 DEF TokenState, Expired
  <2>2. pc[r] \in Places /\ pc'[r] \in Places /\ TokenUse[r] = UseOf(pc[r])
    BY <1>1 DEF Places, TokenUse
  <2>3. CASE UseOf(pc'[r]) = UseOf(pc[r])
    <3>1. TokenUse' = TokenUse
      BY <1>3, <2>2, <2>3 DEF TokenUse
    <3> QED
      BY <1>2, <2>1, <3>1 DEF Abstract!vars
  <2>4. CASE UseOf(pc'[r]) = "left"
    <3>1. TokenUse' = [u \in Requests |-> IF u \in {r} THEN "left" ELSE TokenUse[u]]
      BY <1>3, <2>4 DEF TokenUse
    <3>2. TokenUse[r] # "none"
      BY <1>1, <2>2, UseIs DEF Running
    <3>3. Abstract!End({}, {r})
      BY <1>2, <2>1, <3>1, <3>2 DEF Abstract!End, TokenState
    <3> QED
      BY <3>3 DEF Abstract!Next
  <2>5. CASE UseOf(pc'[r]) = "in" /\ UseOf(pc[r]) # "in"
    <3>1. pc'[r] \in {"sign", "active"} /\ pc[r] = "read" /\ Found(r)
          /\ ~Expired(tokens[Token(r)])
      <4>1. pc'[r] \in {"sign", "issued", "active"} /\ pc[r] \notin {"sign", "issued", "active"}
        BY <2>2, <2>5, UseIs
      <4>2. pc'[r] \in {"sign", "active"} /\ pc[r] = "read" /\ Found(r)
        BY <4>1, StepReaches
      <4>3. pc'[r] = "active" => now < tokens[Token(r)].expiresAt
        BY StepReaches
      <4>4. tokens[Token(r)].expiresAt \in Nat /\ now \in Nat
        BY <4>2, RequestType DEF Found, TypeOK, Doc
      <4>5. pc'[r] = "sign" => ~Expired(tokens[Token(r)])
        BY StepReaches
      <4> QED
        BY <4>2, <4>3, <4>4, <4>5 DEF Expired
    <3>2. minted[Token(r)] # NoDoc
      BY <1>1 DEF RequestsAreEntitled, Entitled, Running
    <3>3. TokenState[TokenOf[r]] = "live"
      BY <3>1, <3>2, RequestType DEF TokenState, TokenOf, Found
    <3>4. TokenUse[r] = "asked"
      BY <2>2, <3>1, UseIs
    <3>5. Abstract!Enter(r)
      BY <1>2, <1>3, <2>1, <2>5, <3>3, <3>4 DEF Abstract!Enter
    <3> QED
      BY <3>5 DEF Abstract!Next
  <2>6. UseOf(pc'[r]) = "asked" => UseOf(pc[r]) = "asked"
    BY <2>2, UseIs, StepReaches
  <2>7. UseOf(pc'[r]) # "none"
    BY <2>2, UseIs, StepReaches
  <2> QED
    BY <2>2, <2>3, <2>4, <2>5, <2>6, <2>7, UseIs
<1> QED
  BY <1>4, <1>5

\* A new token is a new lease.
LEMMA IssueGrants ==
    ASSUME IInv, NEW t \in Tokens, NEW client \in Clients, NEW user \in Users,
           Issue(t, client, user)
    PROVE  Abstract!Grant(t)
<1> DEFINE new == [client |-> client, user |-> user, expiresAt |-> now + RefreshLifespan]
<1>1. /\ minted[t] = NoDoc
      /\ minted' = [minted EXCEPT ![t] = new]
      /\ tokens' = [tokens EXCEPT ![t] = new]
      /\ UNCHANGED <<now, pc, req>>
  BY DEF Issue, requestVars
<1>2. now \in Nat /\ now + RefreshLifespan \in Nat /\ ~(now > now + RefreshLifespan)
  BY LifespanAssumption DEF IInv, TypeOK
<1>3. new # NoDoc
  BY <1>2, NoneAssumption DEF Doc
<1>4. ~Expired(new)'
  BY <1>1, <1>2 DEF Expired
<1>5. TokenState'[t] = "live"
  BY <1>1, <1>3, <1>4 DEF TokenState, IInv, TypeOK, Expired
<1>6. TokenState[t] = "none"
  BY <1>1 DEF TokenState
<1>7. \A u \in Tokens \ {t} : TokenState'[u] = TokenState[u]
  BY <1>1 DEF TokenState, IInv, TypeOK, Expired
<1>8. TokenState' = [TokenState EXCEPT ![t] = "live"]
  BY <1>5, <1>7 DEF TokenState
<1>9. UNCHANGED <<TokenUse, TokenOf>>
  BY <1>1 DEF TokenUse, TokenOf, Token
<1> QED
  BY <1>6, <1>8, <1>9 DEF Abstract!Grant

\* Every step of RefreshTokens is one of Lease or none.
LEMMA StepRefines == IInv /\ [Next]_vars => [Abstract!Next]_(Abstract!vars)
<1> SUFFICES ASSUME IInv, [Next]_vars PROVE [Abstract!Next]_(Abstract!vars)
  OBVIOUS
<1> USE DEF IInv
<1>1. ASSUME NEW r \in Requests, NEW in \in Input, Begin(r, in)
      PROVE  Abstract!Next
  <2>1. /\ pc[r] = "idle" /\ pc' = [pc EXCEPT ![r] = "credentials"]
        /\ UNCHANGED <<now, tokens, minted>>
        /\ \A s \in Requests \ {r} : req'[s] = req[s]
        /\ req'[r].in = in
    BY <1>1 DEF Begin, Go, TypeOK
  <2>2. TokenState' = TokenState
    BY <2>1 DEF TokenState, Expired
  <2>3. TokenUse[r] = "none" /\ TokenUse' = [TokenUse EXCEPT ![r] = "asked"]
    BY <2>1 DEF TokenUse, UseOf, TypeOK
  <2>4. TokenOf' = [TokenOf EXCEPT ![r] = in.token]
    BY <2>1 DEF TokenOf, Token
  <2>5. in.token \in Tokens
    BY DEF Input
  <2>6. Abstract!Ask(r, in.token)
    BY <2>2, <2>3, <2>4 DEF Abstract!Ask
  <2> QED
    BY <2>5, <2>6 DEF Abstract!Next
<1>2. ASSUME minted' = minted, UNCHANGED <<pc, req>>
      PROVE  [Abstract!Next]_(Abstract!vars)
  <2> DEFINE L == {t \in Tokens : TokenState'[t] = "over"}
  <2>1. \A t \in Tokens : TokenState'[t] \in {TokenState[t], "over"}
    BY <1>2, StateMoves
  <2>2. TokenState' = [t \in Tokens |-> IF t \in L THEN "over" ELSE TokenState[t]]
    BY <2>1 DEF TokenState
  <2>3. UNCHANGED <<TokenUse, TokenOf>>
    BY <1>2 DEF TokenUse, TokenOf, Token
  <2>4. Abstract!End(L, {})
    BY <2>2, <2>3 DEF Abstract!End, TokenUse
  <2> HIDE DEF L
  <2>5. L \in SUBSET Tokens
    BY DEF L
  <2> QED
    BY <2>4, <2>5 DEF Abstract!Next
<1>3. CASE Tick \/ (\E t \in Tokens : RemoveExpired(t))
           \/ (\E client \in Clients : DeleteClient(client)) \/ UNCHANGED vars
  BY <1>2, <1>3 DEF Tick, RemoveExpired, DeleteClient, vars, requestVars
<1>4. CASE Crash
  <2> DEFINE U == {r \in Requests : pc[r] \in Running}
  <2>1. /\ pc' = [r \in Requests |-> IF r \in U THEN "crashed" ELSE pc[r]]
        /\ UNCHANGED <<now, tokens, minted, req>>
    BY <1>4 DEF Crash
  <2>2. TokenState' = TokenState /\ TokenOf' = TokenOf
    BY <2>1 DEF TokenState, Expired, TokenOf, Token
  <2>3. TokenUse' = [r \in Requests |-> IF r \in U THEN "left" ELSE TokenUse[r]]
    BY <2>1 DEF TokenUse, UseOf
  <2>4. \A r \in U : TokenUse[r] # "none"
    BY UseIs DEF TokenUse, Places, Running
  <2>5. Abstract!End({}, U)
    BY <2>2, <2>3, <2>4 DEF Abstract!End, TokenState
  <2> HIDE DEF U
  <2>6. U \in SUBSET Requests
    BY DEF U
  <2> QED
    BY <2>5, <2>6 DEF Abstract!Next
<1> QED
  BY <1>1, <1>3, <1>4, StepIsOfLease, IssueGrants DEF Next, Abstract!Next

\* A refresh token is a lease: every refresh and introspection that succeeds
\* is explained by one moment after it came at which the token was valid.
THEOREM TokenIsLease == Spec => ImplementsLease
<1>1. Init => Abstract!Init
  <2> SUFFICES ASSUME Init PROVE Abstract!Init
    OBVIOUS
  <2>1. TypeOK
    BY InitInvariant DEF IInv
  <2>2. TokenOf \in [Requests -> Tokens]
    BY <2>1, RequestType DEF TokenOf
  <2> QED
    BY <2>2 DEF Init, Abstract!Init, TokenState, TokenUse, UseOf
<1> QED
  BY <1>1, StepRefines, InvariantHolds, PTL DEF Spec, ImplementsLease, Abstract!Spec

\* A token that was revoked or has expired stays so, whatever is stored or
\* removed afterwards, and nobody gets in with it any more.
THEOREM TokenOverForGood == Spec => Abstract!OverForGood
<1> DEFINE A == Abstract!StaysOver /\ Abstract!NobodyEntersLate
<1>1. IInv /\ [Next]_vars => [A]_(Abstract!vars)
  <2> SUFFICES ASSUME Abstract!Next, TokenState \in [Tokens -> {"none", "live", "over"}],
                      TokenUse \in [Requests -> {"none", "asked", "in", "left"}],
                      TokenOf \in [Requests -> Tokens]
               PROVE  A
    <3>1. TokenState \in [Tokens -> {"none", "live", "over"}]
      BY DEF TokenState
    <3>2. IInv => TokenUse \in [Requests -> {"none", "asked", "in", "left"}]
      BY UseIs DEF TokenUse, IInv, TypeOK, Places
    <3>3. IInv => TokenOf \in [Requests -> Tokens]
      BY RequestType DEF TokenOf, IInv
    <3> QED
      BY <3>1, <3>2, <3>3, StepRefines
  <2>1. ASSUME NEW t \in Tokens, Abstract!Grant(t) PROVE A
    BY <2>1 DEF Abstract!Grant, Abstract!StaysOver, Abstract!NobodyEntersLate
  <2>2. ASSUME NEW L \in SUBSET Tokens, NEW U \in SUBSET Requests, Abstract!End(L, U) PROVE A
    BY <2>2 DEF Abstract!End, Abstract!StaysOver, Abstract!NobodyEntersLate
  <2>3. ASSUME NEW r \in Requests, Abstract!Enter(r) PROVE A
    BY <2>3 DEF Abstract!Enter, Abstract!StaysOver, Abstract!NobodyEntersLate
  <2>4. ASSUME NEW r \in Requests, NEW t \in Tokens, Abstract!Ask(r, t) PROVE A
    BY <2>4 DEF Abstract!Ask, Abstract!StaysOver, Abstract!NobodyEntersLate
  <2> QED
    BY <2>1, <2>2, <2>3, <2>4 DEF Abstract!Next
<1> QED
  BY <1>1, InvariantHolds, PTL DEF Spec, Abstract!OverForGood

=============================================================================
