---------------------- MODULE AuthorizationCodeProofs ----------------------
(***************************************************************************)
(* Theorems about AuthorizationCode for any number of codes, requests,     *)
(* clients and faults.                                                     *)
(***************************************************************************)
EXTENDS AuthorizationCodeInvariant, AuthorizationCodeGrant, TLAPS

\* What an administrator does to a client.
AdminStep(client) ==
    DeleteClient(client) \/ \E new \in UriSets : UpdateClient(client, new)

\* Abbreviations that every proof below may expand.
USE DEF WithoutChallenge, WithoutCode, VerifierMatches, Accepted, AdminStep

\* The initial state is well typed.
LEMMA InitType == Init => TypeOK
<1> SUFFICES ASSUME Init PROVE TypeOK
  OBVIOUS
<1>1. /\ Unset(Codes) \in Codes /\ Unset(Clients) \in Clients
      /\ Unset(Users) \in Users /\ Unset(Uris) \in Uris
      /\ Unset(Scopes) \in Scopes
  BY NonemptyAssumption DEF Unset
<1>2. grant \in [Codes -> Grant]
  BY <1>1 DEF Init, Grant
<1>3. req \in [Requests -> Request]
  BY <1>1 DEF Init, Request, Input
<1> QED
  BY <1>2, <1>3, RedirectAssumption DEF Init, TypeOK, PageStates, Running, Ended

\* A store operation, failed or not, leaves the fault counter a number.
LEMMA FaultType == faults \in Nat /\ (Succeeds \/ Fails) => faults' \in Nat
BY BoundAssumption DEF Succeeds, Fails

\* A consent step keeps every variable in its type.
LEMMA ConsentType == TypeOK /\ Consent => TypeOK'
<1> SUFFICES ASSUME TypeOK, NEW c \in Codes,
                    \/ DenyConsent(c)
                    \/ \E user \in Users, form \in Form : SaveCode(c, user, form)
                    \/ SaveChallenge(c)
             PROVE  TypeOK'
  BY DEF Consent
<1> USE DEF TypeOK
<1>2. CASE DenyConsent(c)
  BY <1>2 DEF DenyConsent, exchangeVars, PageStates
<1>3. ASSUME NEW user \in Users, NEW form \in Form,
             SaveCode(c, user, form) PROVE TypeOK'
  <2>1. now + CodeLifespan \in Nat
    BY LifespanAssumption
  <2>2. NewDoc(user, form) \in Doc
    BY <2>1 DEF NewDoc, Doc, Form
  <2>3. tokens' \in [Codes -> Doc \cup {NoDoc}]
    BY <1>3, <2>2 DEF SaveCode
  <2>4. [client |-> form.client, redirect |-> form.redirect,
         scope |-> form.scope, challenge |-> form.challenge,
         user |-> user, expiresAt |-> now + CodeLifespan] \in Grant
    BY <2>1 DEF Grant, Form
  <2>5. grant' \in [Codes -> Grant]
    BY <1>3, <2>4 DEF SaveCode
  <2>6. page' \in [Codes -> PageStates]
    BY <1>3 DEF SaveCode, PageStates
  <2>7. Succeeds \/ Fails
    BY <1>3 DEF SaveCode
  <2> QED
    BY <1>3, <2>3, <2>5, <2>6, <2>7, FaultType DEF SaveCode, exchangeVars
<1>4. CASE SaveChallenge(c)
  <2>1. now + PKCELifespan \in Nat
    BY LifespanAssumption
  <2>2. pkce' \in [Codes -> Entry \cup {NoChallenge}]
    BY <1>4, <2>1 DEF SaveChallenge, NewEntry, Entry, Grant
  <2>3. page' \in [Codes -> PageStates] /\ faults' \in Nat
    BY <1>4 DEF SaveChallenge, PageStates, Succeeds, Fails
  <2> QED
    BY <1>4, <2>2, <2>3 DEF SaveChallenge, exchangeVars
<1> QED
  BY <1>2, <1>3, <1>4

\* An exchange step keeps every variable in its type.
LEMMA ExchangeType == TypeOK /\ ReadBeforeUse /\ Exchange => TypeOK'
<1> SUFFICES ASSUME TypeOK, ReadBeforeUse, NEW r \in Requests,
                    Step(r) \/ \E in \in Input : BeginExchange(r, in)
             PROVE  TypeOK'
  BY DEF Exchange
<1> USE DEF TypeOK
<1>a. /\ Code(r) \in Codes
      /\ req[r].in.client \in Clients
  BY DEF Request, Input, Code
<1>1. ASSUME NEW in \in Input, BeginExchange(r, in) PROVE TypeOK'
  <2>1. [in |-> in, uris |-> uris[in.client], began |-> now,
         before |-> {s \in Requests : pc[s] \in Ended}] \in Request
    BY DEF Request, Input
  <2>2. req' \in [Requests -> Request]
    BY <1>1, <2>1 DEF BeginExchange
  <2>3. pc' \in [Requests -> {"idle"} \cup Running \cup Ended]
    BY <1>1 DEF BeginExchange, Reject, Running, Ended
  <2>4. Succeeds \/ Fails
    BY <1>1 DEF BeginExchange
  <2> QED
    BY <1>1, <2>2, <2>3, <2>4, FaultType DEF BeginExchange, consentVars
<1>2. CASE GetChallenge(r)
  <2>1. pc' \in [Requests -> {"idle"} \cup Running \cup Ended]
    BY <1>2 DEF GetChallenge, Reject, Running, Ended
  <2>2. HasChallenge(Code(r)) => pkce[Code(r)].challenge
                                   \in Challenges \cup {NoChallenge}
    BY <1>a DEF HasChallenge, Entry
  <2>3. seen' \in [Requests -> Challenges \cup {NoChallenge}]
    BY <1>2, <2>2 DEF GetChallenge, Code
  <2>4. Succeeds \/ Fails
    BY <1>2 DEF GetChallenge
  <2> QED
    BY <1>2, <2>1, <2>3, <2>4, FaultType DEF GetChallenge, consentVars
<1>3. CASE DeleteChallenge(r)
  <2>1. pc' \in [Requests -> {"idle"} \cup Running \cup Ended]
    BY <1>3 DEF DeleteChallenge, Reject, Running, Ended
  <2>2. pkce' \in [Codes -> Entry \cup {NoChallenge}]
    BY <1>3, <1>a DEF DeleteChallenge, Code
  <2>3. lost' \in [Requests -> SUBSET {"challenge", "code"}]
    BY <1>3 DEF DeleteChallenge
  <2>4. Succeeds \/ Fails
    BY <1>3 DEF DeleteChallenge
  <2> QED
    BY <1>3, <2>1, <2>2, <2>3, <2>4, FaultType DEF DeleteChallenge, consentVars
<1>4. CASE GetCode(r)
  <2>1. pc' \in [Requests -> {"idle"} \cup Running \cup Ended]
    BY <1>4 DEF GetCode, Reject, Running, Ended
  <2>2. got' \in [Requests -> Doc \cup {NoDoc}]
    BY <1>4, <1>a DEF GetCode, Code
  <2>3. Succeeds \/ Fails
    BY <1>4 DEF GetCode
  <2> QED
    BY <1>4, <2>1, <2>2, <2>3, FaultType DEF GetCode, consentVars
<1>5. CASE DeleteCode(r)
  <2>1. pc' \in [Requests -> {"idle"} \cup Running \cup Ended]
    BY <1>5 DEF DeleteCode, Reject, Running, Ended
  <2>2. tokens' \in [Codes -> Doc \cup {NoDoc}]
    BY <1>5, <1>a DEF DeleteCode, Code
  <2>3. lost' \in [Requests -> SUBSET {"challenge", "code"}]
    BY <1>5 DEF DeleteCode
  <2>4. Succeeds \/ Fails
    BY <1>5 DEF DeleteCode
  <2> QED
    BY <1>5, <2>1, <2>2, <2>3, <2>4, FaultType DEF DeleteCode, consentVars
<1>6. CASE SaveRefresh(r)
  <2>1. pc' \in [Requests -> {"idle"} \cup Running \cup Ended]
    BY <1>6 DEF SaveRefresh, Reject, Running, Ended
  <2>2. Succeeds \/ Fails
    BY <1>6 DEF SaveRefresh
  <2>3. refresh' \subseteq [by : Requests, client : Clients, user : Users,
                            scope : Scopes]
    BY <1>6, <1>a DEF SaveRefresh, Doc, ReadBeforeUse
  <2> QED
    BY <1>6, <2>1, <2>2, <2>3, FaultType DEF SaveRefresh, consentVars
<1> QED
  BY <1>1, <1>2, <1>3, <1>4, <1>5, <1>6 DEF Step

\* The clock, the TTL sweep, an administrator and a crash keep every variable
\* in its type.
LEMMA EnvironmentType == TypeOK /\ Environment => TypeOK'
<1> SUFFICES ASSUME TypeOK, Environment PROVE TypeOK'
  OBVIOUS
<1> USE DEF TypeOK
<1>1. CASE Tick
  BY <1>1 DEF Tick, consentVars, exchangeVars
<1>2. CASE Crash
  <2>1. pc' \in [Requests -> {"idle"} \cup Running \cup Ended]
    BY <1>2 DEF Crash, Ended
  <2>2. page' \in [Codes -> PageStates]
    BY <1>2 DEF Crash, PageStates
  <2> QED
    BY <1>2, <2>1, <2>2 DEF Crash
<1>3. ASSUME NEW c \in Codes, RemoveExpired(c) PROVE TypeOK'
  BY <1>3 DEF RemoveExpired, consentVars, exchangeVars
<1>4. ASSUME NEW client \in Clients, AdminStep(client) PROVE TypeOK'
  <2>1. registered' \subseteq Clients
    BY <1>4 DEF DeleteClient, UpdateClient
  <2>2. uris' \in [Clients -> SUBSET Uris]
    BY <1>4, RedirectAssumption DEF DeleteClient, UpdateClient
  <2> QED
    BY <1>4, <2>1, <2>2 DEF DeleteClient, UpdateClient, consentVars, exchangeVars
<1>5. ASSUME NEW c \in Codes, RevokeCode(c) PROVE TypeOK'
  BY <1>5 DEF RevokeCode, consentVars, exchangeVars
<1> QED
  BY <1>1, <1>2, <1>3, <1>4, <1>5 DEF Environment

\* Only the exchange touches what ReadBeforeUse is about; a crash only stops
\* requests.
LEMMA ReadBeforeUseStep == TypeOK /\ ReadBeforeUse /\ [Next]_vars => ReadBeforeUse'
<1> SUFFICES ASSUME TypeOK, ReadBeforeUse, [Next]_vars PROVE ReadBeforeUse'
  OBVIOUS
<1> USE DEF TypeOK, ReadBeforeUse
<1>1. CASE UNCHANGED exchangeVars
  BY <1>1 DEF exchangeVars
<1>2. CASE Crash
  BY <1>2 DEF Crash, Running
<1>3. ASSUME NEW r \in Requests, Step(r) PROVE ReadBeforeUse'
  <2>1. CASE GetChallenge(r)
    BY <2>1 DEF GetChallenge, Reject
  <2>2. CASE DeleteChallenge(r)
    BY <2>2 DEF DeleteChallenge, Reject
  <2>3. CASE GetCode(r)
    BY <2>3 DEF GetCode, Reject
  <2>4. CASE DeleteCode(r)
    BY <2>4 DEF DeleteCode, Reject
  <2>5. CASE SaveRefresh(r)
    BY <2>5 DEF SaveRefresh, Reject
  <2> QED
    BY <1>3, <2>1, <2>2, <2>3, <2>4, <2>5 DEF Step
<1>4. ASSUME NEW r \in Requests, NEW in \in Input, BeginExchange(r, in)
      PROVE  ReadBeforeUse'
  BY <1>4 DEF BeginExchange, Reject
<1>5. CASE Consent
  BY <1>5, <1>1 DEF Consent, DenyConsent, SaveCode,
                    SaveChallenge, exchangeVars
<1>6. CASE UNCHANGED vars
  BY <1>6, <1>1 DEF vars
<1>7. CASE Environment
  BY <1>7, <1>1, <1>2 DEF Environment, Tick, RemoveExpired, RevokeCode, DeleteClient, UpdateClient
<1> QED
  BY <1>3, <1>4, <1>5, <1>6, <1>7 DEF Next, Exchange

\* In every reachable state every variable has its type, and a handler that
\* stores a refresh token has read the code's document.
THEOREM TypeCorrect == Spec => [](TypeOK /\ ReadBeforeUse)
<1>1. Init => TypeOK /\ ReadBeforeUse
  BY InitType DEF Init, ReadBeforeUse
<1>2. TypeOK /\ ReadBeforeUse /\ [Next]_vars => TypeOK' /\ ReadBeforeUse'
  <2> SUFFICES ASSUME TypeOK, ReadBeforeUse, [Next]_vars PROVE TypeOK'
    BY ReadBeforeUseStep
  <2>1. CASE UNCHANGED vars
    BY <2>1 DEF vars, consentVars, exchangeVars, TypeOK
  <2> QED
    BY <2>1, ConsentType, ExchangeType, EnvironmentType DEF Next
<1> QED
  BY <1>1, <1>2, PTL DEF Spec

-----------------------------------------------------------------------------
(***************************************************************************)
(* The inductive invariant, part by part.                                  *)
(***************************************************************************)

\* Where a request's code points.
LEMMA CodeType == TypeOK => \A r \in Requests : /\ Code(r) \in Codes
                                                /\ req[r].in \in Input
                                                /\ req[r].began \in Nat
                                                /\ req[r].before \subseteq Requests
BY DEF TypeOK, Request, Input, Code

\* A consent that went back to the browser, and the input of a request that
\* has begun, never change.
LEMMA Frozen ==
    ASSUME TypeOK, PresentedWasRedirected, [Next]_vars
    PROVE  /\ \A c \in Codes : page[c] = "redirected" =>
                 page'[c] = "redirected" /\ grant'[c] = grant[c]
           /\ \A r \in Requests : pc[r] # "idle" =>
                 /\ req'[r] = req[r]
                 /\ Code(r)' = Code(r)
                 /\ page'[Code(r)] = "redirected"
                 /\ grant'[Code(r)] = grant[Code(r)]
<1> USE DEF TypeOK
<1>1. \A c \in Codes : page[c] = "redirected" =>
         page'[c] = "redirected" /\ grant'[c] = grant[c]
  <2> SUFFICES ASSUME NEW c \in Codes, page[c] = "redirected"
               PROVE  page'[c] = "redirected" /\ grant'[c] = grant[c]
    OBVIOUS
  <2>1. CASE UNCHANGED consentVars
    BY <2>1 DEF consentVars
  <2>2. CASE Crash
    BY <2>2 DEF Crash
  <2>3. CASE Consent
    BY <2>3 DEF Consent, DenyConsent, SaveCode, SaveChallenge
  <2>4. CASE Exchange
    BY <2>4, <2>1 DEF Exchange, BeginExchange, Step, GetChallenge,
                      DeleteChallenge, GetCode, DeleteCode, SaveRefresh
  <2>5. CASE UNCHANGED vars
    BY <2>5, <2>1 DEF vars
  <2>6. CASE Environment
    BY <2>6, <2>1, <2>2 DEF Environment, Tick, RemoveExpired, RevokeCode, DeleteClient, UpdateClient
  <2> QED
    BY <2>3, <2>4, <2>5, <2>6 DEF Next
<1>2. \A r \in Requests : pc[r] # "idle" => req'[r] = req[r]
  <2>1. CASE UNCHANGED req
    BY <2>1
  <2>2. ASSUME NEW s \in Requests, NEW in \in Input, BeginExchange(s, in)
        PROVE  \A r \in Requests : pc[r] # "idle" => req'[r] = req[r]
    BY <2>2 DEF BeginExchange
  <2>3. CASE Consent
    BY <2>3, <2>1 DEF Consent, DenyConsent, SaveCode,
                      SaveChallenge, exchangeVars
  <2>4. ASSUME NEW s \in Requests, Step(s) PROVE UNCHANGED req
    BY <2>4 DEF Step, GetChallenge, DeleteChallenge, GetCode, DeleteCode,
                SaveRefresh
  <2>5. CASE UNCHANGED vars
    BY <2>5, <2>1 DEF vars, exchangeVars
  <2>6. CASE Environment
    BY <2>6, <2>1 DEF Environment, Tick, Crash, RemoveExpired, RevokeCode, DeleteClient, UpdateClient,
                      exchangeVars
  <2> QED
    BY <2>1, <2>2, <2>3, <2>4, <2>5, <2>6 DEF Next, Exchange
<1>3. \A r \in Requests : pc[r] # "idle" => page[Code(r)] = "redirected"
  BY DEF PresentedWasRedirected
<1> QED
  BY <1>1, <1>2, <1>3, CodeType DEF Code

\* PresentedWasRedirected is preserved: a request begins with a code whose
\* page was redirected, and such a page stays.
LEMMA PresentedStep ==
    TypeOK /\ PresentedWasRedirected /\ [Next]_vars => PresentedWasRedirected'
<1> SUFFICES ASSUME TypeOK, PresentedWasRedirected, [Next]_vars,
                    NEW r \in Requests, pc'[r] # "idle"
             PROVE  page'[Code(r)'] = "redirected"
  BY DEF PresentedWasRedirected
<1>1. CASE pc[r] # "idle"
  BY <1>1, Frozen
<1>2. CASE pc[r] = "idle"
  <2>1. PICK in \in Input : BeginExchange(r, in)
    <3>1. ASSUME UNCHANGED pc PROVE FALSE
      BY <3>1, <1>2
    <3>2. ASSUME Crash PROVE FALSE
      BY <3>2, <1>2 DEF Crash, Running, TypeOK
    <3>3. ASSUME NEW s \in Requests, Step(s) PROVE FALSE
      BY <3>3, <1>2 DEF Step, GetChallenge, DeleteChallenge, GetCode,
                        DeleteCode, SaveRefresh, Reject, TypeOK
    <3>4. ASSUME Consent PROVE FALSE
      BY <3>4, <3>1 DEF Consent, DenyConsent, SaveCode,
                        SaveChallenge, exchangeVars
    <3>5. ASSUME Environment PROVE FALSE
      BY <3>5, <3>1, <3>2 DEF Environment, Tick, RemoveExpired, RevokeCode, DeleteClient, UpdateClient,
                              exchangeVars
    <3>6. ASSUME NEW s \in Requests, s # r, NEW in \in Input,
                 BeginExchange(s, in)
          PROVE  FALSE
      BY <3>6, <1>2 DEF BeginExchange, Reject, TypeOK
    <3> QED
      BY <3>1, <3>3, <3>4, <3>5, <3>6 DEF Next, Exchange, vars, exchangeVars
  <2> QED
    BY <2>1 DEF BeginExchange, consentVars, Code, TypeOK
<1> QED
  BY <1>1, <1>2

\* StoresRepeatConsent is preserved: the two saves of handleConsent write the
\* consent, everything else only removes.
LEMMA StoresStep ==
    TypeOK /\ StoresRepeatConsent /\ [Next]_vars => StoresRepeatConsent'
<1> SUFFICES ASSUME TypeOK, StoresRepeatConsent, [Next]_vars
             PROVE  StoresRepeatConsent'
  OBVIOUS
<1> USE DEF TypeOK, StoresRepeatConsent, DocOf
<1>1. ASSUME UNCHANGED consentVars, now' \in Nat, now' >= now,
             \A d \in Codes : tokens'[d] \in {tokens[d], NoDoc},
             \A d \in Codes : pkce'[d] \in {pkce[d], NoChallenge}
      PROVE  StoresRepeatConsent'
  BY <1>1, LifespanAssumption DEF consentVars, Grant
<1>3. ASSUME NEW c \in Codes, DenyConsent(c) PROVE StoresRepeatConsent'
  BY <1>3 DEF DenyConsent
<1>4. ASSUME NEW c \in Codes, NEW user \in Users, NEW form \in Form,
             SaveCode(c, user, form)
      PROVE  StoresRepeatConsent'
  <2>1. /\ tokens[c] = NoDoc /\ pkce[c] = NoChallenge
        /\ pkce' = pkce /\ now' = now
    BY <1>4 DEF SaveCode
  <2>2. /\ grant'[c].client = form.client
        /\ grant'[c].scope = form.scope
        /\ grant'[c].challenge = form.challenge
        /\ grant'[c].user = user
        /\ grant'[c].expiresAt = now + CodeLifespan
    BY <1>4 DEF SaveCode, Grant
  <2>3. \A d \in Codes \ {c} : /\ tokens'[d] = tokens[d] /\ page'[d] = page[d]
                               /\ grant'[d] = grant[d]
    BY <1>4 DEF SaveCode
  <2>4. tokens'[c] \in {NoDoc, NewDoc(user, form)}
    BY <1>4, <2>1 DEF SaveCode
  <2>5. /\ page'[c] \in {"saveChallenge", "redirected", "failed"}
        /\ page'[c] = "saveChallenge" => form.challenge # NoChallenge
    BY <1>4 DEF SaveCode
  <2>6. now + CodeLifespan \in Nat /\ now + CodeLifespan <= now + CodeLifespan
    BY LifespanAssumption
  <2> QED
    BY <2>1, <2>2, <2>3, <2>4, <2>5, <2>6 DEF NewDoc
<1>5. ASSUME NEW c \in Codes, SaveChallenge(c) PROVE StoresRepeatConsent'
  <2>1. grant[c].expiresAt <= NewEntry(c).deadline
    BY <1>5, LifespanAssumption DEF NewEntry, SaveChallenge, Grant
  <2>2. pkce'[c] \in {pkce[c], NewEntry(c)}
    BY <1>5 DEF SaveChallenge
  <2>3. \A d \in Codes \ {c} : pkce'[d] = pkce[d] /\ page'[d] = page[d]
    BY <1>5 DEF SaveChallenge
  <2>4. page'[c] \in {"redirected", "failed"} /\ grant[c].challenge # NoChallenge
    BY <1>5 DEF SaveChallenge
  <2>5. NewEntry(c).challenge = grant[c].challenge
    BY DEF NewEntry
  <2> QED
    BY <1>5, <2>1, <2>2, <2>3, <2>4, <2>5 DEF SaveChallenge
<1>6. CASE Crash
  BY <1>6 DEF Crash
<1>7. CASE Tick
  BY <1>7, <1>1 DEF Tick
<1>8. ASSUME NEW c \in Codes, RemoveExpired(c) PROVE StoresRepeatConsent'
  BY <1>8, <1>1 DEF RemoveExpired
<1>13. ASSUME NEW c \in Codes, RevokeCode(c) PROVE StoresRepeatConsent'
  BY <1>13, <1>1 DEF RevokeCode
<1>9. ASSUME NEW client \in Clients, AdminStep(client)
      PROVE  StoresRepeatConsent'
  <2>1. UNCHANGED <<now, tokens, pkce, consentVars>>
    BY <1>9 DEF DeleteClient, UpdateClient
  <2> HIDE DEF StoresRepeatConsent
  <2> QED
    BY <1>1, <2>1
<1>10. ASSUME NEW r \in Requests, NEW in \in Input, BeginExchange(r, in)
       PROVE  StoresRepeatConsent'
  BY <1>10, <1>1 DEF BeginExchange
<1>11. ASSUME NEW r \in Requests, Step(r) PROVE StoresRepeatConsent'
  <2>1. Code(r) \in Codes
    BY CodeType
  <2>2. UNCHANGED consentVars /\ now' = now
    BY <1>11 DEF Step, GetChallenge, DeleteChallenge, GetCode, DeleteCode,
                 SaveRefresh
  <2>3. CASE DeleteChallenge(r)
    <3>1. pkce' \in {pkce, [pkce EXCEPT ![Code(r)] = NoChallenge]}
      BY <2>3 DEF DeleteChallenge, Code
    <3>2. tokens' = tokens
      BY <2>3 DEF DeleteChallenge
    <3> QED
      BY <2>1, <2>2, <3>1, <3>2, <1>1
  <2>4. CASE DeleteCode(r)
    <3>1. tokens' \in {tokens, [tokens EXCEPT ![Code(r)] = NoDoc]}
      BY <2>4 DEF DeleteCode, Code
    <3>2. pkce' = pkce
      BY <2>4 DEF DeleteCode
    <3>3. \A d \in Codes : tokens'[d] \in {tokens[d], NoDoc}
      BY <2>1, <3>1
    <3>4. \A d \in Codes : pkce'[d] \in {pkce[d], NoChallenge}
      BY <3>2
    <3>5. now' \in Nat /\ now' >= now
      BY <2>2
    <3> HIDE DEF StoresRepeatConsent
    <3> QED
      BY <2>2, <3>3, <3>4, <3>5, <1>1
  <2>5. CASE tokens' = tokens /\ pkce' = pkce
    <3> HIDE DEF StoresRepeatConsent
    <3> QED
      BY <2>2, <2>5, <1>1
  <2> HIDE DEF StoresRepeatConsent, TypeOK
  <2> QED
    BY <1>11, <2>3, <2>4, <2>5 DEF Step, GetChallenge, GetCode, SaveRefresh
<1>12. CASE UNCHANGED vars
  BY <1>12, <1>1 DEF vars
<1> HIDE DEF StoresRepeatConsent, TypeOK
<1> QED
  BY <1>3, <1>4, <1>5, <1>6, <1>7, <1>8, <1>9, <1>10, <1>11, <1>12,
     <1>13 DEF Next, Consent, Exchange, Environment

\* A step of r is a step of r alone: the other requests keep their place and
\* everything they know.
LEMMA OneRequest ==
    ASSUME TypeOK, NEW r \in Requests,
           Step(r) \/ \E in \in Input : BeginExchange(r, in)
    PROVE  /\ UNCHANGED <<now, registered, consentVars>>
           /\ \A s \in Requests \ {r} :
                 /\ pc'[s] = pc[s] /\ req'[s] = req[s] /\ seen'[s] = seen[s]
                 /\ got'[s] = got[s] /\ lost'[s] = lost[s]
<1> USE DEF TypeOK, Reject
<1>1. CASE \E in \in Input : BeginExchange(r, in)
  BY <1>1 DEF BeginExchange
<1>2. CASE GetChallenge(r)
  BY <1>2 DEF GetChallenge
<1>3. CASE DeleteChallenge(r)
  BY <1>3 DEF DeleteChallenge
<1>4. CASE GetCode(r)
  BY <1>4 DEF GetCode
<1>5. CASE DeleteCode(r)
  BY <1>5 DEF DeleteCode
<1>6. CASE SaveRefresh(r)
  BY <1>6 DEF SaveRefresh
<1> QED
  BY <1>1, <1>2, <1>3, <1>4, <1>5, <1>6 DEF Step

\* Any other step leaves the requests alone, except that a crash stops those
\* that run.
LEMMA OtherSteps ==
    ASSUME TypeOK, Consent \/ Environment \/ UNCHANGED vars
    PROVE  /\ UNCHANGED <<req, seen, got, lost, refresh>>
           /\ now' \in Nat /\ now' >= now
           /\ \/ UNCHANGED pc
              \/ pc' = [r \in Requests |-> IF pc[r] \in Running THEN "crashed"
                                                               ELSE pc[r]]
<1> USE DEF TypeOK, exchangeVars
<1>1. ASSUME Consent PROVE UNCHANGED <<now, refresh, exchangeVars>>
  <2>1. PICK c \in Codes :
          \/ DenyConsent(c)
          \/ \E user \in Users, form \in Form : SaveCode(c, user, form)
          \/ SaveChallenge(c)
    BY <1>1 DEF Consent
  <2>3. CASE DenyConsent(c)
    BY <2>3 DEF DenyConsent
  <2>4. CASE \E user \in Users, form \in Form : SaveCode(c, user, form)
    BY <2>4 DEF SaveCode
  <2>5. CASE SaveChallenge(c)
    BY <2>5 DEF SaveChallenge
  <2> QED
    BY <2>1, <2>3, <2>4, <2>5
<1>2. CASE Crash
  BY <1>2 DEF Crash
<1>3. CASE Tick
  BY <1>3 DEF Tick
<1>4. ASSUME NEW c \in Codes, RemoveExpired(c) \/ RevokeCode(c)
      PROVE  UNCHANGED <<now, refresh, exchangeVars>>
  BY <1>4 DEF RemoveExpired, RevokeCode
<1>5. ASSUME NEW client \in Clients, AdminStep(client)
      PROVE  UNCHANGED <<now, refresh, exchangeVars>>
  BY <1>5 DEF DeleteClient, UpdateClient
<1>6. CASE UNCHANGED <<now, refresh, exchangeVars>>
  BY <1>6
<1>7. CASE UNCHANGED vars
  BY <1>7 DEF vars
<1> QED
  BY <1>1, <1>2, <1>3, <1>4, <1>5, <1>6, <1>7 DEF Environment

\* What r knows stays right when r does not move, and when it crashes.
LEMMA ReadStays ==
    ASSUME TypeOK, PresentedWasRedirected, [Next]_vars,
           NEW r \in Requests, ReadOK(r), now' \in Nat, now' >= now,
           req'[r] = req[r], seen'[r] = seen[r], got'[r] = got[r],
           lost'[r] = lost[r],
           \/ pc'[r] = pc[r]
           \/ pc[r] \in Running /\ pc'[r] = "crashed"
    PROVE  ReadOK(r)'
<1>1. req[r].began \in Nat
  BY CodeType
<1>2. CASE pc[r] = "idle"
  BY <1>1, <1>2 DEF ReadOK, TypeOK, Running
<1>3. CASE pc[r] # "idle"
  <2>1. /\ Code(r)' = Code(r) /\ grant'[Code(r)] = grant[Code(r)]
    BY <1>3, Frozen
  <2>2. DocOf(Code(r))' = DocOf(Code(r))
    BY <2>1 DEF DocOf
  <2> QED
    BY <1>1, <1>3, <2>1, <2>2 DEF ReadOK, TypeOK, Running
<1> QED
  BY <1>2, <1>3

\* ReadsRepeatConsent is preserved: what a store answers is the consent, and
\* a check that fails ends the request.
LEMMA ReadsStep ==
    /\ TypeOK /\ ReadBeforeUse /\ StoresRepeatConsent
    /\ PresentedWasRedirected /\ ReadsRepeatConsent /\ [Next]_vars
    => ReadsRepeatConsent'
<1> SUFFICES ASSUME TypeOK, ReadBeforeUse, StoresRepeatConsent,
                    PresentedWasRedirected, ReadsRepeatConsent, [Next]_vars
             PROVE  ReadsRepeatConsent'
  OBVIOUS
<1>1. CASE Consent \/ Environment \/ UNCHANGED vars
  BY <1>1, OtherSteps, ReadStays DEF ReadsRepeatConsent, TypeOK
<1>2. ASSUME NEW r \in Requests,
             Step(r) \/ \E in \in Input : BeginExchange(r, in)
      PROVE  ReadsRepeatConsent'
  <2>1. now' = now /\ now \in Nat
    BY <1>2, OneRequest DEF TypeOK
  <2>2. \A s \in Requests \ {r} : ReadOK(s)'
    BY <1>2, <2>1, OneRequest, ReadStays DEF ReadsRepeatConsent, TypeOK
  <2>3. ReadOK(r) /\ Code(r) \in Codes
    BY CodeType DEF ReadsRepeatConsent
  <2>4. ASSUME Step(r)
        PROVE  /\ Code(r)' = Code(r) /\ req' = req
               /\ grant' = grant /\ DocOf(Code(r))' = DocOf(Code(r))
    BY <2>4 DEF Step, GetChallenge, DeleteChallenge, GetCode, DeleteCode,
                SaveRefresh, Code, DocOf, consentVars
  <2>5. ASSUME \E in \in Input : BeginExchange(r, in) PROVE ReadOK(r)'
    <3>1. /\ pc[r] = "idle" /\ pc'[r] \in {"getChallenge", "rejected"}
          /\ seen'[r] = seen[r] /\ got'[r] = got[r] /\ lost'[r] = lost[r]
          /\ req'[r].began = now
      BY <2>5 DEF BeginExchange, Reject, TypeOK
    <3> QED
      BY <2>1, <2>3, <3>1 DEF ReadOK
  <2>6. ASSUME GetChallenge(r) PROVE ReadOK(r)'
    <3>1. /\ pc[r] = "getChallenge"
          /\ got'[r] = got[r] /\ lost'[r] = lost[r]
          /\ \/ pc'[r] = "rejected" /\ seen'[r] = seen[r]
             \/ /\ pc'[r] = "deleteChallenge" /\ HasChallenge(Code(r))
                /\ seen'[r] = pkce[Code(r)].challenge
      BY <2>6 DEF GetChallenge, Reject, TypeOK, Code
    <3>2. HasChallenge(Code(r)) =>
             /\ pkce[Code(r)].challenge = grant[Code(r)].challenge
             /\ grant[Code(r)].challenge # NoChallenge
      BY <2>3 DEF HasChallenge, StoresRepeatConsent
    <3>3. Step(r)
      BY <2>6 DEF Step
    <3> QED
      BY <2>1, <2>3, <2>4, <3>1, <3>2, <3>3 DEF ReadOK
  <2>7. ASSUME DeleteChallenge(r) PROVE ReadOK(r)'
    <3>1. /\ pc[r] = "deleteChallenge"
          /\ seen'[r] = seen[r] /\ got'[r] = got[r]
          /\ \/ pc'[r] = "rejected"
             \/ /\ pc'[r] = "getCode"
                /\ req[r].in.verifier # NoVerifier
                /\ seen[r] = S256(req[r].in.verifier)
      BY <2>7 DEF DeleteChallenge, Reject, TypeOK
    <3>2. Step(r)
      BY <2>7 DEF Step
    <3> QED
      BY <2>1, <2>3, <2>4, <3>1, <3>2 DEF ReadOK
  <2>8. ASSUME GetCode(r) PROVE ReadOK(r)'
    <3>1. /\ pc[r] = "getCode"
          /\ seen'[r] = seen[r] /\ lost'[r] = lost[r]
          /\ \/ pc'[r] = "rejected" /\ got'[r] = got[r]
             \/ /\ pc'[r] = "deleteCode" /\ tokens[Code(r)] # NoDoc
                /\ got'[r] = tokens[Code(r)]
      BY <2>8 DEF GetCode, Reject, TypeOK, Code
    <3>2. tokens[Code(r)] # NoDoc => tokens[Code(r)] = DocOf(Code(r))
      BY <2>3 DEF StoresRepeatConsent
    <3>3. Step(r)
      BY <2>8 DEF Step
    <3> QED
      BY <2>1, <2>3, <2>4, <3>1, <3>2, <3>3 DEF ReadOK
  <2>9. ASSUME DeleteCode(r) PROVE ReadOK(r)'
    <3>1. /\ pc[r] = "deleteCode"
          /\ seen'[r] = seen[r] /\ got'[r] = got[r]
          /\ \/ pc'[r] = "rejected"
             \/ /\ pc'[r] = "saveRefresh"
                /\ now <= got[r].expiresAt
                /\ got[r].client = req[r].in.client
      BY <2>9 DEF DeleteCode, Reject, TypeOK
    <3>2. got[r] \in Doc
      BY <3>1 DEF ReadBeforeUse, TypeOK
    <3>3. req[r].began <= now /\ req[r].began \in Nat /\ got[r].expiresAt \in Nat
      BY <2>3, <3>2, CodeType DEF ReadOK, Doc
    <3>4. Step(r)
      BY <2>9 DEF Step
    <3>5. now <= got[r].expiresAt => req[r].began <= got[r].expiresAt
      BY <2>1, <3>3
    <3> QED
      BY <2>1, <2>3, <2>4, <3>1, <3>3, <3>4, <3>5 DEF ReadOK
  <2>10. ASSUME SaveRefresh(r) PROVE ReadOK(r)'
    <3>1. /\ pc[r] = "saveRefresh"
          /\ seen'[r] = seen[r] /\ got'[r] = got[r] /\ lost'[r] = lost[r]
          /\ pc'[r] \in {"issued", "rejected"}
      BY <2>10 DEF SaveRefresh, Reject, TypeOK
    <3>2. Step(r)
      BY <2>10 DEF Step
    <3> QED
      BY <2>1, <2>3, <2>4, <3>1, <3>2 DEF ReadOK
  <2>11. ReadOK(r)'
    BY <1>2, <2>5, <2>6, <2>7, <2>8, <2>9, <2>10 DEF Step
  <2> QED
    BY <2>2, <2>11 DEF ReadsRepeatConsent
<1> QED
  BY <1>1, <1>2 DEF Next, Exchange

\* What the stores hold for a code that is in the browser only disappears.
LEMMA RedirectedShrinks ==
    ASSUME TypeOK, [Next]_vars, NEW c \in Codes, page[c] = "redirected"
    PROVE  pkce'[c] \in {pkce[c], NoChallenge} /\ tokens'[c] \in {tokens[c], NoDoc}
<1> USE DEF TypeOK
<1>1. ASSUME NEW d \in Codes,
             \/ DenyConsent(d)
             \/ \E user \in Users, form \in Form : SaveCode(d, user, form)
             \/ SaveChallenge(d)
      PROVE  pkce'[c] = pkce[c] /\ tokens'[c] = tokens[c]
  <2>1. CASE SaveChallenge(d)
    BY <2>1 DEF SaveChallenge
  <2>2. CASE \E user \in Users, form \in Form : SaveCode(d, user, form)
    BY <2>2 DEF SaveCode
  <2> QED
    BY <1>1, <2>1, <2>2 DEF DenyConsent
<1>2. ASSUME NEW r \in Requests, DeleteChallenge(r)
      PROVE  pkce'[c] \in {pkce[c], NoChallenge} /\ tokens'[c] \in {tokens[c], NoDoc}
  BY <1>2, CodeType DEF DeleteChallenge, Code
<1>3. ASSUME NEW r \in Requests, DeleteCode(r)
      PROVE  pkce'[c] \in {pkce[c], NoChallenge} /\ tokens'[c] \in {tokens[c], NoDoc}
  <2>1. tokens' \in {tokens, [tokens EXCEPT ![Code(r)] = NoDoc]} /\ pkce' = pkce
    BY <1>3 DEF DeleteCode, Code
  <2> QED
    BY <2>1, CodeType
<1>4. ASSUME NEW r \in Requests,
             \/ \E in \in Input : BeginExchange(r, in)
             \/ GetChallenge(r) \/ GetCode(r) \/ SaveRefresh(r)
      PROVE  tokens' = tokens /\ pkce' = pkce
  BY <1>4 DEF BeginExchange, GetChallenge, GetCode, SaveRefresh
<1>5. ASSUME Tick \/ Crash \/ UNCHANGED vars
      PROVE  tokens' = tokens /\ pkce' = pkce
  BY <1>5 DEF Tick, Crash, vars
<1>6. ASSUME NEW d \in Codes, RemoveExpired(d) \/ RevokeCode(d)
      PROVE  pkce'[c] = pkce[c] /\ tokens'[c] \in {tokens[c], NoDoc}
  BY <1>6 DEF RemoveExpired, RevokeCode
<1>7. ASSUME NEW client \in Clients, AdminStep(client)
      PROVE  tokens' = tokens /\ pkce' = pkce
  BY <1>7 DEF DeleteClient, UpdateClient
<1> QED
  BY <1>1, <1>2, <1>3, <1>4, <1>5, <1>6, <1>7
     DEF Next, Consent, Exchange, Step, Environment

\* DeletesAreFinal is preserved: a request that has begun has a code in the
\* browser, whose entries nobody writes again.
LEMMA DeletesStep ==
    /\ TypeOK /\ PresentedWasRedirected /\ ReadsRepeatConsent
    /\ DeletesAreFinal /\ [Next]_vars
    => DeletesAreFinal'
<1> SUFFICES ASSUME TypeOK, PresentedWasRedirected, ReadsRepeatConsent,
                    DeletesAreFinal, [Next]_vars, NEW r \in Requests
             PROVE  Emptied(r)'
  BY DEF DeletesAreFinal
<1>1. Code(r) \in Codes /\ Emptied(r)
  BY CodeType DEF DeletesAreFinal
<1>2. pc[r] # "idle" => /\ pkce'[Code(r)] \in {pkce[Code(r)], NoChallenge}
                        /\ tokens'[Code(r)] \in {tokens[Code(r)], NoDoc}
                        /\ Code(r)' = Code(r)
  BY <1>1, RedirectedShrinks, Frozen DEF PresentedWasRedirected
<1>3. ASSUME seen'[r] = seen[r], lost'[r] = lost[r],
             pc'[r] \in {pc[r], "crashed"}, pc[r] = "idle" => pc'[r] = "idle"
      PROVE  Emptied(r)'
  BY <1>1, <1>2, <1>3 DEF Emptied, TriedChallenge
<1>4. CASE Consent \/ Environment \/ UNCHANGED vars
  BY <1>3, <1>4, OtherSteps DEF TypeOK, Running
<1>5. ASSUME NEW s \in Requests \ {r},
             Step(s) \/ \E in \in Input : BeginExchange(s, in)
      PROVE  Emptied(r)'
  BY <1>3, <1>5, OneRequest
<1>6. ASSUME Step(r) \/ \E in \in Input : BeginExchange(r, in)
      PROVE  Emptied(r)'
  <2>1. CASE \E in \in Input : BeginExchange(r, in)
    <3>1. pc'[r] \in {"getChallenge", "rejected"} /\ seen'[r] = seen[r]
          /\ pc[r] = "idle"
      BY <2>1 DEF BeginExchange, Reject, TypeOK
    <3>2. seen[r] = NoChallenge
      BY <3>1 DEF ReadOK, ReadsRepeatConsent
    <3> QED
      BY <3>1, <3>2 DEF Emptied, TriedChallenge
  <2>2. ASSUME GetChallenge(r) PROVE Emptied(r)'
    <3>1. /\ pc[r] = "getChallenge" /\ pc'[r] \in {"deleteChallenge", "rejected"}
          /\ pc'[r] = "rejected" => seen'[r] = seen[r]
      BY <2>2 DEF GetChallenge, Reject, TypeOK
    <3>2. seen[r] = NoChallenge
      BY <3>1 DEF ReadOK, ReadsRepeatConsent
    <3> QED
      BY <3>1, <3>2 DEF Emptied, TriedChallenge
  <2>3. ASSUME DeleteChallenge(r) PROVE Emptied(r)'
    <3>1. /\ pc[r] = "deleteChallenge" /\ pc'[r] \in {"getCode", "rejected"}
          /\ \/ pkce'[Code(r)] = NoChallenge
             \/ "challenge" \in lost'[r]
      BY <1>1, <2>3 DEF DeleteChallenge, Reject, TypeOK, Code
    <3> QED
      BY <1>2, <3>1 DEF Emptied
  <2>4. ASSUME GetCode(r) PROVE Emptied(r)'
    <3>1. /\ pc[r] = "getCode" /\ pc'[r] \in {"deleteCode", "rejected"}
          /\ seen'[r] = seen[r] /\ lost'[r] = lost[r]
      BY <2>4 DEF GetCode, Reject, TypeOK
    <3> QED
      BY <1>1, <1>2, <3>1 DEF Emptied, TriedChallenge
  <2>5. ASSUME DeleteCode(r) PROVE Emptied(r)'
    <3>1. /\ pc[r] = "deleteCode" /\ pc'[r] \in {"saveRefresh", "rejected"}
          /\ seen'[r] = seen[r]
          /\ \/ tokens'[Code(r)] = NoDoc /\ lost'[r] = lost[r]
             \/ lost'[r] = lost[r] \cup {"code"}
      <4>1. \/ /\ tokens' = [tokens EXCEPT ![Code(r)] = NoDoc]
               /\ lost' = lost
            \/ lost' = [lost EXCEPT ![r] = @ \cup {"code"}]
        BY <2>5 DEF DeleteCode, Code
      <4>2. /\ pc[r] = "deleteCode" /\ pc'[r] \in {"saveRefresh", "rejected"}
            /\ seen' = seen
        BY <2>5 DEF DeleteCode, Reject, TypeOK
      <4> QED
        BY <1>1, <4>1, <4>2 DEF TypeOK
    <3> QED
      BY <1>1, <1>2, <3>1 DEF Emptied, TriedChallenge
  <2>6. ASSUME SaveRefresh(r) PROVE Emptied(r)'
    <3>1. /\ pc[r] = "saveRefresh" /\ pc'[r] \in {"issued", "rejected"}
          /\ seen'[r] = seen[r] /\ lost'[r] = lost[r]
      BY <2>6 DEF SaveRefresh, Reject, TypeOK
    <3> QED
      BY <1>1, <1>2, <3>1 DEF Emptied, TriedChallenge
  <2> QED
    BY <1>6, <2>1, <2>2, <2>3, <2>4, <2>5, <2>6 DEF Step
<1> QED
  BY <1>4, <1>5, <1>6 DEF Next, Exchange

\* A step of a request starts from a state in which it has not ended.
LEMMA StepRuns ==
    ASSUME TypeOK, NEW r \in Requests,
           Step(r) \/ \E in \in Input : BeginExchange(r, in)
    PROVE  pc[r] \notin Ended
BY DEF Step, BeginExchange, GetChallenge, DeleteChallenge, GetCode, DeleteCode,
       SaveRefresh, Ended

\* LaterFindsNothing is preserved: at its two reads a request sees the
\* stores as the ended one left them, or emptier.
LEMMA LaterStep ==
    /\ TypeOK /\ PresentedWasRedirected /\ ReadsRepeatConsent
    /\ DeletesAreFinal /\ LaterFindsNothing /\ [Next]_vars
    => LaterFindsNothing'
<1> SUFFICES ASSUME TypeOK, PresentedWasRedirected, ReadsRepeatConsent,
                    DeletesAreFinal, LaterFindsNothing, [Next]_vars,
                    NEW r \in Requests, NEW s \in Requests,
                    s \in req'[r].before
             PROVE  FindsWhatIsLeft(r, s)'
  BY DEF LaterFindsNothing
<1>1. ASSUME s \in req[r].before, req'[r] = req[r], req'[s] = req[s],
             seen'[r] = seen[r], got'[r] = got[r],
             pc'[s] = pc[s], seen'[s] = seen[s], lost'[s] = lost[s]
      PROVE  FindsWhatIsLeft(r, s)'
  BY <1>1 DEF LaterFindsNothing, FindsWhatIsLeft, TriedChallenge, Code
<1>2. s \in req[r].before => pc[s] \in Ended
  BY DEF LaterFindsNothing, FindsWhatIsLeft
<1>3. CASE Consent \/ Environment \/ UNCHANGED vars
  BY <1>1, <1>2, <1>3, OtherSteps DEF Running, Ended
<1>4. ASSUME NEW q \in Requests \ {r, s},
             Step(q) \/ \E in \in Input : BeginExchange(q, in)
      PROVE  FindsWhatIsLeft(r, s)'
  BY <1>1, <1>4, OneRequest
<1>5. ASSUME s # r, Step(s) \/ \E in \in Input : BeginExchange(s, in)
      PROVE  FALSE
  BY <1>2, <1>5, OneRequest, StepRuns
<1>6. CASE \E in \in Input : BeginExchange(r, in)
  <2>1. /\ pc[r] = "idle" /\ pc[s] \in Ended
        /\ seen'[r] = NoChallenge /\ got'[r] = NoDoc
    BY <1>6 DEF BeginExchange, ReadsRepeatConsent, ReadOK, TypeOK
  <2>2. pc'[s] = pc[s]
    BY <1>6, <2>1, OneRequest DEF Ended
  <2> QED
    BY <2>1, <2>2 DEF FindsWhatIsLeft
<1>7. CASE Step(r)
  <2>1. req' = req /\ s # r /\ s \in req[r].before
    BY <1>2, <1>7, StepRuns DEF Step, GetChallenge, DeleteChallenge, GetCode,
                                DeleteCode, SaveRefresh
  <2>2. /\ pc'[s] = pc[s] /\ seen'[s] = seen[s] /\ lost'[s] = lost[s]
        /\ Code(r)' = Code(r) /\ Code(s)' = Code(s)
    BY <1>7, <2>1, OneRequest DEF Code
  <2>3. TriedChallenge(s)' = TriedChallenge(s)
    BY <2>2 DEF TriedChallenge
  <2>4. FindsWhatIsLeft(r, s) /\ Emptied(s)
    BY <2>1 DEF LaterFindsNothing, DeletesAreFinal
  <2>5. ASSUME GetChallenge(r) PROVE FindsWhatIsLeft(r, s)'
    <3>1. /\ got' = got
          /\ seen' = seen \/ HasChallenge(Code(r))
      BY <2>5 DEF GetChallenge, Code
    <3>2. HasChallenge(Code(r)) => pkce[Code(r)] # NoChallenge
      BY DEF HasChallenge
    <3> QED
      BY <2>2, <2>3, <2>4, <3>1, <3>2 DEF FindsWhatIsLeft, Emptied
  <2>6. ASSUME GetCode(r) PROVE FindsWhatIsLeft(r, s)'
    <3>1. /\ seen' = seen
          /\ got' = got \/ tokens[Code(r)] # NoDoc
      BY <2>6 DEF GetCode, Code
    <3> QED
      BY <2>2, <2>3, <2>4, <3>1 DEF FindsWhatIsLeft, Emptied
  <2>7. ASSUME DeleteChallenge(r) \/ DeleteCode(r) \/ SaveRefresh(r)
        PROVE  FindsWhatIsLeft(r, s)'
    <3>1. seen' = seen /\ got' = got
      BY <2>7 DEF DeleteChallenge, DeleteCode, SaveRefresh
    <3> QED
      BY <2>1, <2>2, <3>1, <1>1
  <2> QED
    BY <1>7, <2>5, <2>6, <2>7 DEF Step
<1> QED
  BY <1>3, <1>4, <1>5, <1>6, <1>7 DEF Next, Exchange

\* RefreshRepeatsConsent is preserved: the token is stored from a document
\* that repeats the consent, which never changes after that.
LEMMA RefreshStep ==
    /\ TypeOK /\ ReadBeforeUse /\ PresentedWasRedirected /\ ReadsRepeatConsent
    /\ RefreshRepeatsConsent /\ [Next]_vars
    => RefreshRepeatsConsent'
<1> SUFFICES ASSUME TypeOK, ReadBeforeUse, PresentedWasRedirected,
                    ReadsRepeatConsent, RefreshRepeatsConsent, [Next]_vars
             PROVE  RefreshRepeatsConsent'
  OBVIOUS
<1> DEFINE Good(t) == /\ pc[t.by] \in {"issued", "rejected"}
                      /\ Proved(t.by)
                      /\ t.client = grant[Code(t.by)].client
                      /\ t.user = grant[Code(t.by)].user
                      /\ t.scope = grant[Code(t.by)].scope
<1>1. \A t \in refresh : t.by \in Requests /\ Good(t)
  BY DEF RefreshRepeatsConsent, TypeOK
<1>2. ASSUME NEW t \in refresh PROVE Good(t)'
  <2>1. t.by \in Requests /\ Good(t)
    BY <1>1
  <2>2. /\ Code(t.by)' = Code(t.by) /\ req'[t.by] = req[t.by]
        /\ grant'[Code(t.by)] = grant[Code(t.by)]
    BY <2>1, Frozen
  <2>3. Proved(t.by)'
    BY <2>1, <2>2 DEF Proved
  <2>4. pc'[t.by] = pc[t.by]
    <3>1. CASE Consent \/ Environment \/ UNCHANGED vars
      BY <2>1, <3>1, OtherSteps DEF Running
    <3>2. ASSUME NEW r \in Requests,
                 Step(r) \/ \E in \in Input : BeginExchange(r, in)
          PROVE  pc'[t.by] = pc[t.by]
      BY <2>1, <3>2, StepRuns, OneRequest DEF Ended
    <3> QED
      BY <3>1, <3>2 DEF Next, Exchange
  <2> QED
    BY <2>1, <2>2, <2>3, <2>4
<1>3. ASSUME refresh' = refresh,
             \A r \in Requests : pc'[r] = "issued" => pc[r] = "issued"
      PROVE  RefreshRepeatsConsent'
  BY <1>2, <1>3 DEF RefreshRepeatsConsent
<1>4. CASE Consent \/ Environment \/ UNCHANGED vars
  BY <1>3, <1>4, OtherSteps DEF TypeOK
<1>5. ASSUME NEW r \in Requests,
             \/ \E in \in Input : BeginExchange(r, in)
             \/ GetChallenge(r) \/ DeleteChallenge(r)
             \/ GetCode(r) \/ DeleteCode(r)
      PROVE  RefreshRepeatsConsent'
  <2>1. refresh' = refresh
    BY <1>5 DEF BeginExchange, GetChallenge, DeleteChallenge, GetCode, DeleteCode
  <2>2. pc'[r] # "issued"
    BY <1>5 DEF BeginExchange, GetChallenge, DeleteChallenge, GetCode,
                DeleteCode, Reject, TypeOK
  <2>3. \A s \in Requests \ {r} : pc'[s] = pc[s]
    BY <1>5, OneRequest DEF Step
  <2> QED
    BY <1>3, <2>1, <2>2, <2>3
<1>6. ASSUME NEW r \in Requests, SaveRefresh(r) PROVE RefreshRepeatsConsent'
  <2> DEFINE new == [by |-> r, client |-> req[r].in.client,
                     user |-> got[r].user, scope |-> got[r].scope]
  <2>1. /\ refresh' \in {refresh, refresh \cup {new}}
        /\ pc[r] = "saveRefresh" /\ pc'[r] \in {"issued", "rejected"}
        /\ pc'[r] = "issued" => refresh' = refresh \cup {new}
        /\ req' = req /\ grant' = grant
    BY <1>6 DEF SaveRefresh, Reject, TypeOK, consentVars
  <2>2. /\ got[r] = DocOf(Code(r))
        /\ got[r].client = req[r].in.client
        /\ Proved(r)
    BY <2>1 DEF ReadsRepeatConsent, ReadOK, ReadBeforeUse, Proved, DocOf
  <2>3. ASSUME NEW t, t = new PROVE Good(t)'
    <3>1. /\ t.by = r /\ t.client = req[r].in.client
          /\ t.user = got[r].user /\ t.scope = got[r].scope
      BY <2>3
    <3>2. Proved(r)' /\ Code(r)' = Code(r)
      BY <2>1, <2>2 DEF Proved, Code
    <3>3. req[r].in.client = grant[Code(r)].client
      BY <2>2 DEF Proved
    <3> QED
      BY <2>1, <2>2, <3>1, <3>2, <3>3 DEF DocOf
  <2>4. \A s \in Requests \ {r} : pc'[s] = pc[s]
    BY <1>6, OneRequest DEF Step
  <2>5. \A t \in refresh' : Good(t)'
    <3> SUFFICES ASSUME NEW t \in refresh' PROVE Good(t)'
      OBVIOUS
    <3>1. t \in refresh \/ t = new
      BY <2>1
    <3> QED
      BY <1>2, <2>3, <3>1
  <2>6. \A q \in Requests : pc'[q] = "issued" => \E t \in refresh' : t.by = q
    <3>1. new.by = r
      OBVIOUS
    <3> HIDE DEF new
    <3> QED
      BY <2>1, <2>4, <3>1 DEF RefreshRepeatsConsent
  <2> QED
    BY <2>5, <2>6 DEF RefreshRepeatsConsent
<1> QED
  BY <1>4, <1>5, <1>6 DEF Next, Exchange, Step

\* ChallengeKept is preserved: SaveChallenge precedes the redirect, and the
\* only delete comes after a read.
LEMMA KeptStep ==
    /\ TypeOK /\ PresentedWasRedirected /\ ReadsRepeatConsent
    /\ ChallengeKept /\ [Next]_vars
    => ChallengeKept'
<1> SUFFICES ASSUME TypeOK, PresentedWasRedirected, ReadsRepeatConsent,
                    ChallengeKept, [Next]_vars,
                    NEW c \in Codes, page'[c] = "redirected",
                    grant'[c].challenge # NoChallenge, pkce'[c] = NoChallenge
             PROVE  \E r \in Requests : Code(r)' = c /\ seen'[r] # NoChallenge
  BY DEF ChallengeKept
<1>1. ASSUME NEW r \in Requests, Code(r) = c, seen[r] # NoChallenge,
             Consent \/ Environment \/ UNCHANGED vars
      PROVE  Code(r)' = c /\ seen'[r] # NoChallenge
  BY <1>1, OtherSteps DEF Code
<1>2. ASSUME NEW r \in Requests, Code(r) = c, seen[r] # NoChallenge,
             Exchange
      PROVE  Code(r)' = c /\ seen'[r] # NoChallenge
  <2>1. pc[r] # "idle" /\ pc[r] # "getChallenge"
    BY <1>2 DEF ReadsRepeatConsent, ReadOK
  <2>2. seen'[r] = seen[r]
    BY <1>2, <2>1 DEF Exchange, Step, BeginExchange, GetChallenge,
       DeleteChallenge, GetCode, DeleteCode, SaveRefresh, TypeOK
  <2> QED
    BY <1>2, <2>1, <2>2, Frozen
<1>3. CASE /\ page[c] = "redirected" /\ grant[c].challenge # NoChallenge
           /\ pkce[c] = NoChallenge
  BY <1>1, <1>2, <1>3 DEF ChallengeKept, Next
<1>4. ASSUME page[c] # "redirected" PROVE FALSE
  <2>1. PICK d \in Codes :
          \/ DenyConsent(d)
          \/ \E user \in Users, form \in Form : SaveCode(d, user, form)
          \/ SaveChallenge(d)
    <3>1. ASSUME Exchange \/ Environment \/ UNCHANGED vars PROVE FALSE
      <4>1. CASE Exchange
        BY <1>4, <4>1, OneRequest DEF Exchange, consentVars
      <4>2. CASE Crash
        BY <1>4, <4>2 DEF Crash, TypeOK
      <4>3. CASE UNCHANGED page
        BY <1>4, <4>3
      <4> QED
        BY <3>1, <4>1, <4>2, <4>3 DEF Environment, Tick, RemoveExpired,
           RevokeCode, DeleteClient, UpdateClient, consentVars, vars
    <3> QED
      BY <3>1 DEF Next, Consent
  <2>3. CASE DenyConsent(d)
    BY <1>4, <2>3 DEF DenyConsent, TypeOK
  <2>4. ASSUME NEW user \in Users, NEW form \in Form,
             SaveCode(d, user, form) PROVE FALSE
    <3>1. d = c /\ page'[c] = "redirected" => form.challenge = NoChallenge
      BY <2>4 DEF SaveCode, TypeOK
    <3>2. d = c => grant'[c].challenge = form.challenge
      BY <2>4 DEF SaveCode, TypeOK
    <3>3. d # c => page'[c] = page[c]
      BY <2>4 DEF SaveCode, TypeOK
    <3> QED
      BY <1>4, <3>1, <3>2, <3>3
  <2>5. CASE SaveChallenge(d)
    BY <1>4, <2>5, LifespanAssumption, NoneAssumption
       DEF SaveChallenge, NewEntry, TypeOK, Entry, Grant
  <2> QED
    BY <2>1, <2>3, <2>4, <2>5
<1>5. ASSUME page[c] = "redirected", grant[c].challenge # NoChallenge,
             pkce[c] # NoChallenge
      PROVE  \E r \in Requests : Code(r)' = c /\ seen'[r] # NoChallenge
  <2>1. ASSUME pkce'[c] = pkce[c] PROVE FALSE
    BY <1>5, <2>1
  <2>2. PICK r \in Requests : DeleteChallenge(r) /\ Code(r) = c
    <3>1. ASSUME Consent PROVE FALSE
      BY <1>5, <2>1, <3>1 DEF Consent, DenyConsent, SaveCode,
         SaveChallenge, TypeOK
    <3>2. ASSUME Environment \/ UNCHANGED vars PROVE FALSE
      BY <2>1, <3>2 DEF Environment, Tick, Crash, RemoveExpired, RevokeCode, DeleteClient, UpdateClient,
         vars
    <3>3. ASSUME NEW r \in Requests,
                 \/ \E in \in Input : BeginExchange(r, in)
                 \/ GetChallenge(r) \/ GetCode(r) \/ DeleteCode(r)
                 \/ SaveRefresh(r)
          PROVE  FALSE
      BY <2>1, <3>3 DEF BeginExchange, GetChallenge, GetCode, DeleteCode,
         SaveRefresh
    <3>4. ASSUME NEW r \in Requests, DeleteChallenge(r), Code(r) # c
          PROVE  FALSE
      BY <2>1, <3>4, CodeType DEF DeleteChallenge, Code, TypeOK
    <3> QED
      BY <3>1, <3>2, <3>3, <3>4 DEF Next, Exchange, Step
  <2>3. seen[r] # NoChallenge /\ seen' = seen
    BY <2>2 DEF DeleteChallenge, ReadsRepeatConsent, ReadOK
  <2>4. Code(r)' = c
    BY <2>2 DEF DeleteChallenge, Code
  <2> QED
    BY <2>3, <2>4
<1>6. page[c] = "redirected" => grant[c].challenge # NoChallenge
  BY Frozen
<1> QED
  BY <1>3, <1>4, <1>5, <1>6

\* IInv holds in every reachable state.
THEOREM InvariantHolds == Spec => []IInv
<1>1. Init => IInv
  <2> SUFFICES ASSUME Init PROVE IInv
    OBVIOUS
  <2>1. TypeOK
    BY InitType
  <2>2. ReadBeforeUse /\ StoresRepeatConsent /\ PresentedWasRedirected
        /\ RefreshRepeatsConsent /\ DeletesAreFinal /\ ChallengeKept
    BY DEF Init, ReadBeforeUse, StoresRepeatConsent, PresentedWasRedirected,
           RefreshRepeatsConsent, DeletesAreFinal, Emptied, TriedChallenge,
           ChallengeKept
  <2>3. ReadsRepeatConsent
    BY DEF Init, ReadsRepeatConsent, ReadOK
  <2>4. LaterFindsNothing
    BY DEF Init, LaterFindsNothing
  <2> QED
    BY <2>1, <2>2, <2>3, <2>4 DEF IInv
<1>2. IInv /\ [Next]_vars => IInv'
  <2> SUFFICES ASSUME IInv, [Next]_vars PROVE IInv'
    OBVIOUS
  <2>1. TypeOK'
    <3>1. CASE UNCHANGED vars
      BY <3>1 DEF vars, consentVars, exchangeVars, TypeOK, IInv
    <3> QED
      BY <3>1, ConsentType, ExchangeType, EnvironmentType DEF Next, IInv
  <2> QED
    BY <2>1, ReadBeforeUseStep, StoresStep, PresentedStep, ReadsStep,
       RefreshStep, DeletesStep, LaterStep, KeptStep DEF IInv
<1> QED
  BY <1>1, <1>2, PTL DEF Spec

-----------------------------------------------------------------------------
(***************************************************************************)
(* What follows from the invariant.                                        *)
(***************************************************************************)

\* Tokens go only to the client that the posted form named and that holds the
\* verifier of its challenge, for the scopes in the form and the user who was
\* logged in as it was posted.
THEOREM PostedFormRespected == Spec => []IssuedAsPosted
<1>1. IInv => IssuedAsPosted
  <2> SUFFICES ASSUME IInv PROVE IssuedAsPosted
    OBVIOUS
  <2>1. ASSUME NEW t \in refresh PROVE page[Code(t.by)] = "redirected"
    <3>1. t.by \in Requests /\ pc[t.by] # "idle"
      BY DEF IInv, TypeOK, RefreshRepeatsConsent
    <3> QED
      BY <3>1 DEF IInv, PresentedWasRedirected
  <2> QED
    BY <2>1 DEF IInv, RefreshRepeatsConsent, IssuedAsPosted
<1> QED
  BY <1>1, InvariantHolds, PTL

\* A request that arrives after the code expired gets no tokens.
THEOREM ExpiryRespected == Spec => []ExpiredNeverRedeemed
<1>1. IInv => ExpiredNeverRedeemed
  <2> SUFFICES ASSUME IInv, NEW r \in Requests, pc[r] = "issued"
               PROVE  req[r].began <= grant[Code(r)].expiresAt
    BY DEF ExpiredNeverRedeemed
  <2>1. got[r] = DocOf(Code(r)) /\ req[r].began <= got[r].expiresAt
    BY DEF IInv, ReadBeforeUse, ReadsRepeatConsent, ReadOK
  <2> QED
    BY <2>1 DEF DocOf
<1> QED
  BY <1>1, InvariantHolds, PTL

\* A code is redeemed a second time by a later request only if the first
\* exchange lost both of its deletes, for any number of requests and faults.
THEOREM SingleUse == Spec => []ReuseNeedsTwoLostDeletes
<1>1. IInv => ReuseNeedsTwoLostDeletes
  <2> SUFFICES ASSUME IInv, NEW r \in Requests, NEW s \in Requests,
                      pc[r] = "issued", pc[s] = "issued", Code(r) = Code(s),
                      s \in req[r].before
               PROVE  lost[s] = {"challenge", "code"}
    BY DEF ReuseNeedsTwoLostDeletes
  <2>1. seen[r] # NoChallenge /\ got[r] # NoDoc /\ seen[s] # NoChallenge
    BY DEF IInv, ReadBeforeUse, ReadsRepeatConsent, ReadOK
  <2>2. TriedChallenge(s)
    BY <2>1 DEF TriedChallenge
  <2>3. "challenge" \in lost[s] /\ "code" \in lost[s]
    BY <2>1, <2>2 DEF IInv, LaterFindsNothing, FindsWhatIsLeft
  <2>4. lost[s] \subseteq {"challenge", "code"}
    BY DEF IInv, TypeOK
  <2> QED
    BY <2>3, <2>4
<1> QED
  BY <1>1, InvariantHolds, PTL

\* An exchange that found the challenge uses up the code, right or wrong.
THEOREM AttemptsBurn == Spec => []AttemptBurnsCode
<1>1. IInv => AttemptBurnsCode
  <2> SUFFICES ASSUME IInv, NEW r \in Requests, NEW s \in Requests,
                      pc[r] = "issued", Code(r) = Code(s), s \in req[r].before,
                      pc[s] # "crashed", seen[s] # NoChallenge
               PROVE  "challenge" \in lost[s]
    BY DEF AttemptBurnsCode
  <2>1. seen[r] # NoChallenge
    BY DEF IInv, ReadsRepeatConsent, ReadOK
  <2>2. FindsWhatIsLeft(r, s)
    BY DEF IInv, LaterFindsNothing
  <2>3. TriedChallenge(s)
    BY <2>2 DEF TriedChallenge, FindsWhatIsLeft, Ended
  <2> QED
    BY <2>1, <2>2, <2>3 DEF FindsWhatIsLeft
<1> QED
  BY <1>1, InvariantHolds, PTL

\* A code in the browser has its challenge until somebody reads it, and the
\* challenge lives at least as long as the code.
THEOREM ChallengeOutlives == Spec => []ChallengeOutlivesCode
<1>1. IInv => ChallengeOutlivesCode
  BY DEF IInv, ChallengeKept, StoresRepeatConsent, ChallengeOutlivesCode
<1> QED
  BY <1>1, InvariantHolds, PTL

\* Only expiry or a request with the right verifier removes a valid code.
THEOREM ProofConsumes == Spec => OnlyProofConsumes
<1> DEFINE A == \A c \in Codes :
          tokens[c] # NoDoc /\ tokens'[c] = NoDoc
          => \/ tokens[c].expiresAt <= now
             \/ c \in revoked'
             \/ \E r \in Requests :
                   /\ Code(r) = c
                   /\ S256(req[r].in.verifier) = grant[c].challenge
<1>1. IInv /\ [Next]_vars => [A]_vars
  <2> SUFFICES ASSUME IInv, [Next]_vars, NEW c \in Codes,
                      tokens[c] # NoDoc, tokens'[c] = NoDoc
               PROVE  \/ tokens[c].expiresAt <= now
                      \/ c \in revoked'
                      \/ \E r \in Requests :
                            /\ Code(r) = c
                            /\ S256(req[r].in.verifier) = grant[c].challenge
    OBVIOUS
  <2> USE DEF IInv, TypeOK
  <2>1. ASSUME UNCHANGED tokens PROVE FALSE
    BY <2>1
  <2>2. ASSUME Consent PROVE FALSE
    <3>1. ASSUME NEW d \in Codes, NEW user \in Users, NEW form \in Form,
             SaveCode(d, user, form)
          PROVE  FALSE
      <4>1. tokens[d] = NoDoc
        BY <3>1 DEF SaveCode, StoresRepeatConsent
      <4>2. tokens' \in {tokens, [tokens EXCEPT ![d] = NewDoc(user, form)]}
        BY <3>1 DEF SaveCode
      <4> QED
        BY <4>1, <4>2
    <3> QED
      BY <2>1, <2>2, <3>1 DEF Consent, DenyConsent,
                              SaveChallenge
  <2>3. ASSUME NEW d \in Codes, RemoveExpired(d)
        PROVE  tokens[c].expiresAt <= now
    BY <2>3 DEF RemoveExpired
  <2>7. ASSUME NEW d \in Codes, RevokeCode(d) PROVE c \in revoked'
    BY <2>7 DEF RevokeCode
  <2>4. ASSUME NEW r \in Requests, DeleteCode(r)
        PROVE  \E q \in Requests :
                  /\ Code(q) = c
                  /\ S256(req[q].in.verifier) = grant[c].challenge
    <3>1. tokens' \in {tokens, [tokens EXCEPT ![Code(r)] = NoDoc]}
      BY <2>4 DEF DeleteCode, Code
    <3>2. Code(r) = c
      BY <3>1, CodeType
    <3>3. pc[r] = "deleteCode"
      BY <2>4 DEF DeleteCode
    <3>4. S256(req[r].in.verifier) = grant[Code(r)].challenge
      BY <3>3 DEF ReadsRepeatConsent, ReadOK
    <3> QED
      BY <3>2, <3>4
  <2>5. ASSUME NEW r \in Requests,
               \/ \E in \in Input : BeginExchange(r, in)
               \/ GetChallenge(r) \/ DeleteChallenge(r)
               \/ GetCode(r) \/ SaveRefresh(r)
        PROVE  FALSE
    BY <2>1, <2>5 DEF BeginExchange, GetChallenge, DeleteChallenge, GetCode,
                      SaveRefresh
  <2>6. ASSUME Tick \/ Crash \/ (\E client \in Clients : AdminStep(client))
               \/ UNCHANGED vars
        PROVE  FALSE
    BY <2>1, <2>6 DEF Tick, Crash, DeleteClient, UpdateClient, vars
  <2> QED
    BY <2>2, <2>3, <2>4, <2>5, <2>6, <2>7
       DEF Next, Exchange, Step, Environment
<1> QED
  BY <1>1, InvariantHolds, PTL DEF Spec, OnlyProofConsumes

-----------------------------------------------------------------------------
(***************************************************************************)
(* AuthorizationCode implements OneTimeGrant.                              *)
(***************************************************************************)

\* A step that keeps who read, who got tokens and which deletes were lost,
\* and the state of every grant, is a stutter of the abstract specification.
LEMMA StutterStep ==
    ASSUME \A c \in Codes : GrantState'[c] = GrantState[c],
           \A r \in Requests :
              /\ seen'[r] = seen[r] /\ lost'[r] = lost[r]
              /\ (pc'[r] = "issued") = (pc[r] = "issued")
              /\ Code(r)' = Code(r) \/ /\ seen[r] = NoChallenge
                                       /\ lost[r] = {} /\ pc[r] # "issued"
    PROVE  UNCHANGED Abstract!vars
<1>1. GrantState' = GrantState
  BY DEF GrantState
<1>2. Entered' = Entered
  BY DEF Entered
<1>3. Won' = Won
  BY DEF Won
<1>4. Leaked' = Leaked
  BY DEF Leaked
<1> QED
  BY <1>1, <1>2, <1>3, <1>4 DEF Abstract!vars

\* A consent step opens the grant of its code when it stores the challenge.
LEMMA ConsentRefines ==
    IInv /\ Consent => [Abstract!Next]_(Abstract!vars)
<1> SUFFICES ASSUME IInv, NEW c \in Codes,
                    \/ DenyConsent(c)
                    \/ \E user \in Users, form \in Form : SaveCode(c, user, form)
                    \/ SaveChallenge(c)
             PROVE  [Abstract!Next]_(Abstract!vars)
  BY DEF Consent
<1> USE DEF IInv, TypeOK
<1>1. /\ pkce[c] # NoChallenge => page[c] \in {"redirected", "failed"}
      /\ UNCHANGED exchangeVars
  BY DEF StoresRepeatConsent, DenyConsent, SaveCode,
         SaveChallenge
<1>2. Entered' = Entered /\ Won' = Won /\ Leaked' = Leaked
  BY <1>1 DEF Entered, Won, Leaked, exchangeVars, Code
<1>3. CASE \A d \in Codes : GrantState'[d] = GrantState[d]
  <2>1. GrantState' = GrantState
    BY <1>3 DEF GrantState
  <2> QED
    BY <1>2, <2>1 DEF Abstract!vars
<1>5. ASSUME DenyConsent(c)
      PROVE  \A d \in Codes : GrantState'[d] = GrantState[d]
  BY <1>5 DEF DenyConsent, GrantState
<1>6. ASSUME NEW user \in Users, NEW form \in Form,
             SaveCode(c, user, form)
      PROVE  \A d \in Codes : GrantState'[d] = GrantState[d]
  <2>1. /\ pkce' = pkce /\ pkce[c] = NoChallenge /\ page[c] = "none"
        /\ page'[c] = "redirected" => form.challenge = NoChallenge
    BY <1>1, <1>6 DEF SaveCode
  <2>2. grant'[c].challenge = form.challenge
    BY <1>6 DEF SaveCode
  <2>3. \A d \in Codes \ {c} : page'[d] = page[d] /\ grant'[d] = grant[d]
    BY <1>6 DEF SaveCode
  <2>4. GrantState'[c] = GrantState[c]
    BY <2>1, <2>2 DEF GrantState
  <2>5. \A d \in Codes \ {c} : GrantState'[d] = GrantState[d]
    BY <2>1, <2>3 DEF GrantState
  <2> QED
    BY <2>4, <2>5
<1>7. ASSUME SaveChallenge(c)
      PROVE  \/ \A d \in Codes : GrantState'[d] = GrantState[d]
             \/ Abstract!Next
  <2>1. /\ page[c] = "saveChallenge" /\ pkce[c] = NoChallenge
        /\ NewEntry(c) # NoChallenge /\ grant' = grant
    <3>1. page[c] = "saveChallenge" /\ grant' = grant
      BY <1>7 DEF SaveChallenge
    <3>2. NewEntry(c) \in Entry
      BY LifespanAssumption DEF NewEntry, Entry, Grant
    <3> QED
      BY <1>1, <3>1, <3>2, NoneAssumption
  <2>2. \A d \in Codes \ {c} : page'[d] = page[d] /\ pkce'[d] = pkce[d]
    BY <1>7 DEF SaveChallenge
  <2>3. \/ pkce'[c] = NewEntry(c)
        \/ pkce'[c] = NoChallenge /\ page'[c] = "failed"
    BY <1>7, <2>1 DEF SaveChallenge
  <2>4. CASE pkce'[c] = NewEntry(c)
    <3>1. /\ GrantState[c] = "none" /\ GrantState'[c] = "open"
          /\ \A d \in Codes \ {c} : GrantState'[d] = GrantState[d]
      BY <2>1, <2>2, <2>4 DEF GrantState
    <3>2. GrantState' = [GrantState EXCEPT ![c] = "open"]
      BY <3>1 DEF GrantState
    <3>3. Abstract!Open(c)
      BY <1>2, <3>1, <3>2 DEF Abstract!Open
    <3> QED
      BY <3>3 DEF Abstract!Next
  <2>5. CASE pkce'[c] = NoChallenge /\ page'[c] = "failed"
    BY <2>1, <2>2, <2>5 DEF GrantState
  <2> QED
    BY <2>3, <2>4, <2>5
<1> QED
  BY <1>3, <1>5, <1>6, <1>7

\* An exchange step enters a grant at its read, closes it at its delete and
\* wins at its last save; the rest is invisible.
LEMMA ExchangeRefines ==
    IInv /\ Exchange /\ [Next]_vars => [Abstract!Next]_(Abstract!vars)
<1> SUFFICES ASSUME IInv, [Next]_vars, NEW r \in Requests,
                    Step(r) \/ \E in \in Input : BeginExchange(r, in)
             PROVE  [Abstract!Next]_(Abstract!vars)
  BY DEF Exchange
<1> USE DEF IInv, TypeOK
<1>1. /\ page' = page /\ grant' = grant
      /\ \A s \in Requests \ {r} :
            /\ pc'[s] = pc[s] /\ seen'[s] = seen[s] /\ lost'[s] = lost[s]
            /\ Code(s)' = Code(s)
  BY OneRequest DEF consentVars, Code
<1>2. pkce' = pkce => \A c \in Codes : GrantState'[c] = GrantState[c]
  BY <1>1 DEF GrantState
<1>3. Code(r) \in Codes /\ ReadOK(r) /\ Emptied(r)
  BY CodeType DEF ReadsRepeatConsent, DeletesAreFinal
<1>4. ASSUME Step(r) PROVE /\ pc[r] # "idle" /\ Code(r)' = Code(r)
                           /\ page[Code(r)] = "redirected"
  BY <1>4, Frozen DEF Step, GetChallenge, DeleteChallenge, GetCode, DeleteCode,
                      SaveRefresh, PresentedWasRedirected
<1>5. ASSUME pkce' = pkce, seen'[r] = seen[r], lost'[r] = lost[r],
             (pc'[r] = "issued") = (pc[r] = "issued"),
             Code(r)' = Code(r) \/ /\ seen[r] = NoChallenge
                                   /\ lost[r] = {} /\ pc[r] # "issued"
      PROVE  UNCHANGED Abstract!vars
  BY <1>1, <1>2, <1>5, StutterStep
<1>6. ASSUME \E in \in Input : BeginExchange(r, in)
      PROVE  UNCHANGED Abstract!vars
  <2>1. /\ pkce' = pkce /\ seen' = seen /\ lost' = lost
        /\ pc[r] = "idle" /\ pc'[r] \in {"getChallenge", "rejected"}
    BY <1>6 DEF BeginExchange, Reject
  <2>2. seen[r] = NoChallenge /\ lost[r] = {}
    BY <1>3, <2>1 DEF ReadOK
  <2> QED
    BY <1>5, <2>1, <2>2
<1>7. ASSUME GetChallenge(r) PROVE [Abstract!Next]_(Abstract!vars)
  <2>1. /\ pkce' = pkce /\ lost' = lost
        /\ pc[r] = "getChallenge" /\ pc'[r] \in {"deleteChallenge", "rejected"}
        /\ \/ seen' = seen
           \/ /\ HasChallenge(Code(r))
              /\ seen'[r] = pkce[Code(r)].challenge
    BY <1>7 DEF GetChallenge, Reject, Code
  <2>2. Code(r)' = Code(r)
    BY <1>4, <1>7 DEF Step
  <2>3. CASE seen' = seen
    BY <1>5, <2>1, <2>2, <2>3
  <2>4. CASE HasChallenge(Code(r)) /\ seen'[r] = pkce[Code(r)].challenge
    <3>1. seen'[r] # NoChallenge /\ pkce[Code(r)] # NoChallenge
      BY <1>3, <2>4 DEF HasChallenge, StoresRepeatConsent
    <3>2. GrantState[Code(r)] = "open"
      BY <1>3, <3>1 DEF GrantState
    <3>3. GrantState' = GrantState
      BY <1>2, <2>1 DEF GrantState
    <3>4. Entered' = [Entered EXCEPT ![Code(r)] = @ \cup {r}]
      <4>1. Entered'[Code(r)] = Entered[Code(r)] \cup {r}
        BY <1>1, <1>3, <2>2, <3>1 DEF Entered
      <4>2. \A c \in Codes \ {Code(r)} : Entered'[c] = Entered[c]
        BY <1>1, <1>3, <2>2 DEF Entered
      <4> QED
        BY <4>1, <4>2 DEF Entered
    <3>5. Won' = Won
      BY <1>1, <2>1 DEF Won
    <3>6. Leaked' = Leaked
      BY <1>1, <2>1, <2>2 DEF Leaked
    <3>7. Abstract!Enter(r, Code(r))
      BY <3>2, <3>3, <3>4, <3>5, <3>6 DEF Abstract!Enter
    <3> QED
      BY <1>3, <3>7 DEF Abstract!Next
  <2> QED
    BY <2>1, <2>3, <2>4
<1>8. ASSUME DeleteChallenge(r) PROVE [Abstract!Next]_(Abstract!vars)
  <2>1. /\ seen' = seen
        /\ pc[r] = "deleteChallenge" /\ pc'[r] \in {"getCode", "rejected"}
        /\ \/ /\ pkce' = [pkce EXCEPT ![Code(r)] = NoChallenge]
              /\ lost' = lost
           \/ /\ pkce' \in {pkce, [pkce EXCEPT ![Code(r)] = NoChallenge]}
              /\ lost' = [lost EXCEPT ![r] = @ \cup {"challenge"}]
    BY <1>8 DEF DeleteChallenge, Reject, Code
  <2>2. Code(r)' = Code(r) /\ page[Code(r)] = "redirected"
    BY <1>4, <1>8 DEF Step
  <2>3. seen[r] # NoChallenge /\ grant[Code(r)].challenge # NoChallenge
    BY <1>3, <2>1 DEF ReadOK
  <2>4. r \in Entered[Code(r)]
    BY <1>3, <2>3 DEF Entered
  <2>5. Entered' = Entered /\ Won' = Won
    BY <1>1, <2>1, <2>2 DEF Entered, Won
  <2>6. GrantState[Code(r)] \in {"open", "closed"}
    BY <1>3, <2>2, <2>3 DEF GrantState
  <2>7. ASSUME pkce' = [pkce EXCEPT ![Code(r)] = NoChallenge]
        PROVE  GrantState' = [GrantState EXCEPT ![Code(r)] = "closed"]
    <3>1. GrantState'[Code(r)] = "closed"
      BY <1>1, <1>3, <2>2, <2>3, <2>7 DEF GrantState
    <3>2. \A c \in Codes \ {Code(r)} : GrantState'[c] = GrantState[c]
      BY <1>1, <1>3, <2>7 DEF GrantState
    <3> QED
      BY <3>1, <3>2 DEF GrantState
  <2>8. CASE /\ pkce' = [pkce EXCEPT ![Code(r)] = NoChallenge]
             /\ lost' = lost
    <3>1. Leaked' = Leaked
      BY <1>1, <2>2, <2>8 DEF Leaked
    <3>2. GrantState[Code(r)] = "closed" => GrantState' = GrantState
      BY <1>3, <2>7, <2>8 DEF GrantState
    <3>3. GrantState[Code(r)] = "open" => Abstract!Close(Code(r))
      BY <2>4, <2>5, <2>7, <2>8, <3>1 DEF Abstract!Close
    <3> QED
      BY <1>3, <2>5, <2>6, <3>1, <3>2, <3>3 DEF Abstract!Next, Abstract!vars
  <2>9. CASE /\ pkce' \in {pkce, [pkce EXCEPT ![Code(r)] = NoChallenge]}
             /\ lost' = [lost EXCEPT ![r] = @ \cup {"challenge"}]
    <3>1. Leaked' = Leaked \cup {Code(r)}
      <4>1. "challenge" \in lost'[r]
        BY <2>9
      <4> QED
        BY <1>1, <1>3, <2>2, <4>1 DEF Leaked
    <3>2. pkce' = pkce => GrantState' = GrantState
      BY <1>2 DEF GrantState
    <3>3. GrantState' \in {GrantState, [GrantState EXCEPT ![Code(r)] = "closed"]}
      BY <2>7, <2>9, <3>2
    <3>4. Abstract!LoseClose(Code(r))
      BY <2>4, <2>5, <3>1, <3>3 DEF Abstract!LoseClose
    <3> QED
      BY <1>3, <3>4 DEF Abstract!Next
  <2> QED
    BY <2>1, <2>8, <2>9
<1>9. ASSUME GetCode(r) PROVE UNCHANGED Abstract!vars
  <2>1. /\ pkce' = pkce /\ seen' = seen /\ lost' = lost
        /\ pc[r] = "getCode" /\ pc'[r] \in {"deleteCode", "rejected"}
    BY <1>9 DEF GetCode, Reject
  <2> QED
    BY <1>4, <1>5, <1>9, <2>1 DEF Step
<1>10. ASSUME DeleteCode(r) PROVE UNCHANGED Abstract!vars
  <2>1. /\ pkce' = pkce /\ seen' = seen
        /\ pc[r] = "deleteCode" /\ pc'[r] \in {"saveRefresh", "rejected"}
        /\ lost' = lost \/ lost' = [lost EXCEPT ![r] = @ \cup {"code"}]
    BY <1>10 DEF DeleteCode, Reject
  <2>2. Code(r)' = Code(r)
    BY <1>4, <1>10 DEF Step
  <2>3. GrantState' = GrantState
    BY <1>2, <2>1 DEF GrantState
  <2>4. Entered' = Entered /\ Won' = Won
    BY <1>1, <2>1, <2>2 DEF Entered, Won
  <2>5. ("challenge" \in lost'[r]) = ("challenge" \in lost[r])
    BY <2>1
  <2>6. Leaked' = Leaked
    BY <1>1, <2>2, <2>5 DEF Leaked
  <2> QED
    BY <2>3, <2>4, <2>6 DEF Abstract!vars
<1>11. ASSUME SaveRefresh(r) PROVE [Abstract!Next]_(Abstract!vars)
  <2>1. /\ pkce' = pkce /\ seen' = seen /\ lost' = lost
        /\ pc[r] = "saveRefresh" /\ pc'[r] \in {"issued", "rejected"}
    BY <1>11 DEF SaveRefresh, Reject
  <2>2. Code(r)' = Code(r) /\ page[Code(r)] = "redirected"
    BY <1>4, <1>11 DEF Step
  <2>3. CASE pc'[r] = "rejected"
    BY <1>5, <2>1, <2>2, <2>3
  <2>4. CASE pc'[r] = "issued"
    <3>1. seen[r] # NoChallenge /\ grant[Code(r)].challenge # NoChallenge
      BY <1>3, <2>1 DEF ReadOK
    <3>2. r \in Entered[Code(r)]
      BY <1>3, <3>1 DEF Entered
    <3>3. "challenge" \in lost[r] \/ pkce[Code(r)] = NoChallenge
      BY <1>3, <2>1, <3>1 DEF Emptied, TriedChallenge
    <3>4. GrantState[Code(r)] = "closed" \/ Code(r) \in Leaked
      BY <1>3, <2>2, <3>1, <3>3 DEF GrantState, Leaked
    <3>5. GrantState' = GrantState /\ Entered' = Entered /\ Leaked' = Leaked
      BY <1>1, <1>2, <2>1, <2>2 DEF GrantState, Entered, Leaked
    <3>6. Won' = [Won EXCEPT ![Code(r)] = @ \cup {r}]
      <4>1. Won'[Code(r)] = Won[Code(r)] \cup {r}
        BY <1>1, <1>3, <2>2, <2>4 DEF Won
      <4>2. \A c \in Codes \ {Code(r)} : Won'[c] = Won[c]
        BY <1>1, <1>3, <2>2 DEF Won
      <4> QED
        BY <4>1, <4>2 DEF Won
    <3>7. Abstract!Win(r, Code(r))
      BY <3>2, <3>4, <3>5, <3>6 DEF Abstract!Win
    <3> QED
      BY <1>3, <3>7 DEF Abstract!Next
  <2> QED
    BY <2>1, <2>3, <2>4
<1> QED
  BY <1>6, <1>7, <1>8, <1>9, <1>10, <1>11 DEF Step

\* The environment is invisible to the abstract specification.
LEMMA EnvironmentRefines ==
    IInv /\ (Environment \/ UNCHANGED vars) => UNCHANGED Abstract!vars
<1> SUFFICES ASSUME IInv, Environment \/ UNCHANGED vars
             PROVE  UNCHANGED Abstract!vars
  OBVIOUS
<1> USE DEF IInv, TypeOK
<1>1. /\ \A c \in Codes : (page'[c] = "redirected") = (page[c] = "redirected")
      /\ pkce' = pkce /\ grant' = grant
  <2>1. CASE Crash
    BY <2>1 DEF Crash
  <2>2. CASE UNCHANGED <<pkce, consentVars>>
    BY <2>2 DEF consentVars
  <2> QED
    BY <2>1, <2>2 DEF Environment, Tick, RemoveExpired, RevokeCode, DeleteClient, UpdateClient, vars
<1>2. \A c \in Codes : GrantState'[c] = GrantState[c]
  BY <1>1 DEF GrantState
<1>3. /\ req' = req /\ seen' = seen /\ lost' = lost
      /\ \A r \in Requests : (pc'[r] = "issued") = (pc[r] = "issued")
  BY OtherSteps DEF Running
<1> QED
  BY <1>2, <1>3, StutterStep DEF Code

\* Every step of the handlers is a step of OneTimeGrant, or none.
LEMMA StepRefines == IInv /\ [Next]_vars => [Abstract!Next]_(Abstract!vars)
BY ConsentRefines, ExchangeRefines, EnvironmentRefines DEF Next

\* Every behaviour of the handlers is one of OneTimeGrant: whoever gets
\* tokens for a code had entered before the code was closed, unless a delete
\* of its challenge was lost.
THEOREM Refinement == Spec => ImplementsOneTimeGrant
<1>1. Init => Abstract!Init
  BY DEF Init, Abstract!Init, GrantState, Entered, Won, Leaked
<1> QED
  BY <1>1, StepRefines, InvariantHolds, PTL DEF Spec, ImplementsOneTimeGrant, Abstract!Spec

\* Once an exchange got tokens no later request reads the challenge of that
\* code, if no delete of the challenge was lost.
THEOREM NoLateEntry == Spec => NoEntryAfterAWin
<1>1. IInv => \A c \in Codes :
                 Won[c] # {} => GrantState[c] # "open" \/ c \in Leaked
  <2> SUFFICES ASSUME IInv, NEW c \in Codes, NEW r \in Requests,
                      Code(r) = c, pc[r] = "issued", pkce[c] # NoChallenge
               PROVE  c \in Leaked
    BY DEF Won, GrantState
  <2>1. TriedChallenge(r)
    BY DEF IInv, ReadsRepeatConsent, ReadOK, TriedChallenge
  <2> QED
    BY <2>1 DEF IInv, DeletesAreFinal, Emptied, Leaked
<1>2. IInv /\ [Next]_vars => [Abstract!NobodyEnters]_(Abstract!vars)
  <2> SUFFICES ASSUME [Abstract!Next]_(Abstract!vars), NEW c \in Codes,
                      Won[c] # {} => GrantState[c] # "open" \/ c \in Leaked,
                      Won[c] # {}, c \notin Leaked'
               PROVE  Entered'[c] = Entered[c]
    BY <1>1, StepRefines DEF Abstract!NobodyEnters
  <2>1. CASE Abstract!Next
    <3>1. PICK d \in Codes :
            \/ Abstract!Open(d) \/ Abstract!Close(d) \/ Abstract!LoseClose(d)
            \/ \E r \in Requests : Abstract!Enter(r, d) \/ Abstract!Win(r, d)
      BY <2>1 DEF Abstract!Next
    <3>2. ASSUME NEW r \in Requests, Abstract!Enter(r, d)
          PROVE  Entered'[c] = Entered[c]
      <4>1. d # c
        BY <3>2 DEF Abstract!Enter
      <4>2. Entered' = [Entered EXCEPT ![d] = @ \cup {r}]
        BY <3>2 DEF Abstract!Enter
      <4> QED
        BY <4>1, <4>2 DEF Entered
    <3>3. CASE Entered' = Entered
      BY <3>3
    <3> QED
      BY <3>1, <3>2, <3>3 DEF Abstract!Open, Abstract!Close,
         Abstract!LoseClose, Abstract!Win
  <2>2. CASE UNCHANGED Abstract!vars
    BY <2>2 DEF Abstract!vars
  <2> QED
    BY <2>1, <2>2
<1> QED
  BY <1>2, InvariantHolds, PTL
     DEF Spec, NoEntryAfterAWin, Abstract!NobodyEntersAfterAWin

-----------------------------------------------------------------------------
(***************************************************************************)
(* An honest exchange succeeds.                                            *)
(***************************************************************************)

\* Where a request is until it deletes the code.
Early == {"idle", "getChallenge", "deleteChallenge", "getCode", "deleteCode"}

\* A valid code that its client has not revoked is in the store until a
\* request comes to delete it.
DocumentWaits ==
    \A c \in Codes :
        /\ page[c] \in {"saveChallenge", "redirected"}
        /\ c \notin revoked
        /\ now < grant[c].expiresAt
        /\ \A r \in Requests : Code(r) = c => pc[r] \in Early
        => tokens[c] = DocOf(c)

HonestInv == IInv /\ DocumentWaits /\ HonestExchangeSucceeds

\* Faults and revocations are only added, and the clock only advances.
LEMMA OnlyWorse ==
    ASSUME TypeOK, [Next]_vars
    PROVE  /\ faults' = 0 => faults = 0
           /\ revoked \subseteq revoked'
           /\ now' \in Nat /\ now <= now'
<1>1. faults' = 0 => faults = 0
  <2>1. CASE faults' = faults
    BY <2>1
  <2>2. CASE Succeeds \/ Fails
    BY <2>2 DEF Succeeds, Fails, TypeOK
  <2>3. CASE Crash
    BY <2>3 DEF Crash, TypeOK
  <2>4. CASE Consent
    BY <2>1, <2>2, <2>4 DEF Consent, DenyConsent, SaveCode, SaveChallenge
  <2>5. CASE Exchange
    BY <2>2, <2>5 DEF Exchange, Step, BeginExchange, GetChallenge, DeleteChallenge,
                      GetCode, DeleteCode, SaveRefresh
  <2>6. CASE Environment
    BY <2>1, <2>3, <2>6 DEF Environment, Tick, RemoveExpired, RevokeCode, DeleteClient, UpdateClient
  <2> QED
    BY <2>1, <2>4, <2>5, <2>6 DEF Next, vars
<1>2. revoked \subseteq revoked'
  <2>1. CASE UNCHANGED revoked
    BY <2>1
  <2>2. CASE Exchange
    BY <2>1, <2>2 DEF Exchange, Step, BeginExchange, GetChallenge, DeleteChallenge,
                      GetCode, DeleteCode, SaveRefresh
  <2>3. CASE Consent
    BY <2>1, <2>3 DEF Consent, DenyConsent, SaveCode, SaveChallenge
  <2>4. CASE Environment
    BY <2>4 DEF Environment, Tick, RemoveExpired, RevokeCode, DeleteClient, UpdateClient, Crash
  <2> QED
    BY <2>1, <2>2, <2>3, <2>4 DEF Next, vars
<1>3. now' \in Nat /\ now <= now'
  <2>1. CASE Exchange
    BY <2>1, OneRequest DEF Exchange, TypeOK
  <2> QED
    BY <2>1, OtherSteps DEF Next, TypeOK
<1> QED
  BY <1>1, <1>2, <1>3

\* A request that has come past the delete of the code does not come back.
LEMMA LateStays ==
    ASSUME TypeOK, [Next]_vars, NEW r \in Requests, pc[r] \notin Early
    PROVE  pc'[r] \notin Early
<1>1. CASE Consent \/ Environment \/ UNCHANGED vars
  BY <1>1, OtherSteps DEF Early
<1>2. ASSUME NEW s \in Requests, s # r,
             Step(s) \/ \E in \in Input : BeginExchange(s, in)
      PROVE  pc'[r] \notin Early
  BY <1>2, OneRequest
<1>3. CASE Step(r) \/ \E in \in Input : BeginExchange(r, in)
  <2>1. SaveRefresh(r)
    BY <1>3 DEF Step, BeginExchange, GetChallenge, DeleteChallenge, GetCode,
                DeleteCode, Early
  <2> QED
    BY <2>1 DEF SaveRefresh, Reject, TypeOK, Early
<1> QED
  BY <1>1, <1>2, <1>3 DEF Next, Exchange

\* DocumentWaits is preserved: a document that waits repeats the consent, so
\* it has not expired, and only a revocation could remove it.
LEMMA WaitsStep ==
    /\ TypeOK /\ StoresRepeatConsent /\ PresentedWasRedirected /\ DocumentWaits
    /\ StoresRepeatConsent' /\ [Next]_vars
    => DocumentWaits'
<1> SUFFICES ASSUME TypeOK, StoresRepeatConsent, PresentedWasRedirected, DocumentWaits,
                    StoresRepeatConsent', [Next]_vars,
                    NEW c \in Codes, page'[c] \in {"saveChallenge", "redirected"},
                    c \notin revoked', now' < grant'[c].expiresAt,
                    \A r \in Requests : Code(r)' = c => pc'[r] \in Early
             PROVE  tokens'[c] # NoDoc
  BY DEF DocumentWaits, StoresRepeatConsent
<1>1. \A r \in Requests : Code(r) = c => pc[r] \in Early
  <2> SUFFICES ASSUME NEW r \in Requests, Code(r) = c, pc[r] \notin Early PROVE FALSE
    OBVIOUS
  <2>1. Code(r)' = c
    BY Frozen DEF Early
  <2> QED
    BY <2>1, LateStays
<1>2. ASSUME page[c] \in {"saveChallenge", "redirected"}, grant'[c] = grant[c]
      PROVE  /\ tokens[c] # NoDoc /\ tokens[c].expiresAt = grant[c].expiresAt
             /\ now < grant[c].expiresAt
  <2>1. now \in Nat /\ grant[c].expiresAt \in Nat
    BY DEF TypeOK, Grant
  <2>2. now < grant[c].expiresAt /\ c \notin revoked
    BY <1>2, <2>1, OnlyWorse
  <2>3. tokens[c] = DocOf(c)
    BY <1>1, <1>2, <2>2 DEF DocumentWaits
  <2>4. DocOf(c) \in Doc
    BY DEF DocOf, Doc, TypeOK, Grant
  <2> QED
    BY <2>2, <2>3, <2>4, NoneAssumption DEF DocOf
<1>4. ASSUME NEW d \in Codes, DenyConsent(d) PROVE tokens'[c] # NoDoc
  BY <1>2, <1>4 DEF DenyConsent, TypeOK
<1>5. ASSUME NEW d \in Codes, NEW user \in Users, NEW form \in Form,
             SaveCode(d, user, form)
      PROVE  tokens'[c] # NoDoc
  <2>1. CASE d = c
    <3>1. tokens' = [tokens EXCEPT ![c] = NewDoc(user, form)]
      BY <1>5, <2>1 DEF SaveCode, TypeOK
    <3>2. NewDoc(user, form) \in Doc
      <4>1. now + CodeLifespan \in Nat
        BY LifespanAssumption DEF TypeOK
      <4> QED
        BY <4>1 DEF NewDoc, Doc, Form
    <3> QED
      BY <3>1, <3>2, NoneAssumption DEF TypeOK
  <2>2. CASE d # c
    <3>1. page'[c] = page[c] /\ grant'[c] = grant[c] /\ tokens'[c] = tokens[c]
      BY <1>5, <2>2 DEF SaveCode, TypeOK
    <3> QED
      BY <1>2, <3>1
  <2> QED
    BY <2>1, <2>2
<1>6. ASSUME NEW d \in Codes, SaveChallenge(d) PROVE tokens'[c] # NoDoc
  <2>1. page[c] \in {"saveChallenge", "redirected"}
    BY <1>6 DEF SaveChallenge, TypeOK
  <2> QED
    BY <1>2, <1>6, <2>1 DEF SaveChallenge
<1>7. CASE Exchange
  <2>1. UNCHANGED consentVars
    BY <1>7, OneRequest DEF Exchange
  <2>2. tokens[c] # NoDoc
    BY <1>2, <2>1 DEF consentVars
  <2>3. ASSUME NEW r \in Requests, DeleteCode(r) PROVE Code(r) # c
    <3>1. pc'[r] \in {"saveRefresh", "rejected"} /\ Code(r)' = Code(r)
      BY <2>3 DEF DeleteCode, Reject, TypeOK, Code
    <3> QED
      BY <3>1 DEF Early
  <2>4. ASSUME NEW r \in Requests, DeleteCode(r) PROVE tokens'[c] = tokens[c]
    <3>1. tokens' \in {tokens, [tokens EXCEPT ![Code(r)] = NoDoc]}
      BY <2>4 DEF DeleteCode, Code
    <3> QED
      BY <2>3, <2>4, <3>1, CodeType DEF TypeOK
  <2>5. ASSUME NEW r \in Requests,
               \/ \E in \in Input : BeginExchange(r, in)
               \/ GetChallenge(r) \/ DeleteChallenge(r)
               \/ GetCode(r) \/ SaveRefresh(r)
        PROVE  tokens' = tokens
    BY <2>5 DEF BeginExchange, GetChallenge, DeleteChallenge, GetCode, SaveRefresh
  <2> QED
    BY <1>7, <2>2, <2>4, <2>5 DEF Exchange, Step
<1>8. ASSUME NEW d \in Codes, RemoveExpired(d) PROVE tokens'[c] # NoDoc
  <2>1. page[c] = page'[c] /\ grant'[c] = grant[c]
    BY <1>8 DEF RemoveExpired, consentVars
  <2>2. now \in Nat /\ grant[c].expiresAt \in Nat
    BY DEF TypeOK, Grant
  <2>3. d # c
    BY <1>2, <1>8, <2>1, <2>2 DEF RemoveExpired
  <2> QED
    BY <1>2, <1>8, <2>1, <2>3 DEF RemoveExpired, TypeOK
<1>9. ASSUME NEW d \in Codes, RevokeCode(d) PROVE tokens'[c] # NoDoc
  BY <1>2, <1>9 DEF RevokeCode, TypeOK, consentVars
<1>10. CASE Crash
  BY <1>2, <1>10 DEF Crash, TypeOK
<1>11. CASE Tick \/ (\E client \in Clients : AdminStep(client)) \/ UNCHANGED vars
  BY <1>2, <1>11 DEF Tick, DeleteClient, UpdateClient, vars, consentVars
<1> QED
  BY <1>4, <1>5, <1>6, <1>7, <1>8, <1>9, <1>10, <1>11
     DEF Next, Consent, Environment

\* Where a refusal comes from.
LEMMA RefusalComes ==
    ASSUME TypeOK, [Next]_vars, NEW r \in Requests,
           pc[r] # "rejected", pc'[r] = "rejected"
    PROVE  Step(r) \/ \E in \in Input : BeginExchange(r, in)
<1>1. CASE Consent \/ Environment \/ UNCHANGED vars
  BY <1>1, OtherSteps DEF TypeOK, Running
<1>2. ASSUME NEW s \in Requests, s # r,
             Step(s) \/ \E in \in Input : BeginExchange(s, in)
      PROVE  FALSE
  BY <1>2, OneRequest
<1> QED
  BY <1>1, <1>2 DEF Next, Exchange

\* HonestExchangeSucceeds is preserved: none of the reasons to refuse a
\* request applies to one that is honest and alone.
LEMMA HonestStep == HonestInv /\ [Next]_vars => HonestExchangeSucceeds'
<1> SUFFICES ASSUME HonestInv, [Next]_vars, NEW r \in Requests,
                    Proved(r)', RefusedForNoReason(r)'
             PROVE  FALSE
  BY DEF HonestExchangeSucceeds
<1> USE DEF HonestInv
<1>1. TypeOK /\ ReadsRepeatConsent /\ StoresRepeatConsent /\ PresentedWasRedirected
      /\ ChallengeKept /\ ReadBeforeUse
  BY DEF IInv
<1>2. /\ pc'[r] = "rejected" /\ faults' = 0
      /\ Code(r)' \notin revoked' /\ now' < grant'[Code(r)'].expiresAt
      /\ req'[r].in.client = grant'[Code(r)'].client
      /\ req'[r].in.redirect \in req'[r].uris
      /\ grant'[Code(r)'].challenge # NoChallenge
      /\ req'[r].in.verifier # NoVerifier
      /\ S256(req'[r].in.verifier) = grant'[Code(r)'].challenge
  BY DEF RefusedForNoReason, Proved
<1>3. faults = 0 /\ Succeeds
  <2>1. faults = 0
    BY <1>1, <1>2, OnlyWorse DEF TypeOK
  <2> QED
    BY <1>2, <2>1 DEF Succeeds
<1>4. ~Fails
  BY <1>2, <1>3 DEF Fails
<1>5. ASSUME pc[r] = "idle" PROVE FALSE
  <2>1. PICK in \in Input : BeginExchange(r, in)
    BY <1>1, <1>2, <1>5, RefusalComes DEF Step, GetChallenge, DeleteChallenge,
       GetCode, DeleteCode, SaveRefresh
  <2>2. req'[r].in = in /\ req'[r].uris = uris[in.client]
    BY <1>1, <2>1 DEF BeginExchange, TypeOK
  <2>3. in.redirect \in uris[in.client]
    BY <1>2, <2>2
  <2>4. pc'[r] # "rejected"
    BY <1>1, <1>4, <2>1, <2>3 DEF BeginExchange, TypeOK
  <2> QED
    BY <1>2, <2>4
<1>6. ASSUME pc[r] # "idle" PROVE FALSE
  <2>1. PICK c \in Codes : c = Code(r)
    BY <1>1, CodeType
  <2>2. /\ req'[r] = req[r] /\ Code(r)' = c /\ page[c] = "redirected"
        /\ grant'[c] = grant[c]
    BY <1>1, <1>6, <2>1, Frozen DEF PresentedWasRedirected
  <2>3. now < grant[c].expiresAt /\ c \notin revoked
    <3>1. now \in Nat /\ grant[c].expiresAt \in Nat
      BY <1>1 DEF TypeOK, Grant
    <3> QED
      BY <1>1, <1>2, <2>2, <3>1, OnlyWorse
  <2>4. Proved(r) /\ req[r].in.redirect \in req[r].uris
    BY <1>2, <2>1, <2>2 DEF Proved
  <2>5. \A s \in Requests \ {r} : pc[s] # "idle" => Code(s) # c
    <3> SUFFICES ASSUME NEW s \in Requests \ {r}, pc[s] # "idle", Code(s) = c PROVE FALSE
      OBVIOUS
    <3>1. Code(s)' = c
      BY <1>1, Frozen
    <3>2. pc'[s] # "idle"
      <4>1. CASE Consent \/ Environment \/ UNCHANGED vars
        BY <1>1, <4>1, OtherSteps
      <4>2. ASSUME NEW q \in Requests,
                   Step(q) \/ \E in \in Input : BeginExchange(q, in)
            PROVE  pc'[s] # "idle"
        <5>1. CASE q # s
          BY <1>1, <4>2, <5>1, OneRequest
        <5>2. CASE q = s
          BY <1>1, <4>2, <5>2 DEF Step, BeginExchange, GetChallenge, DeleteChallenge,
             GetCode, DeleteCode, SaveRefresh, Reject, TypeOK
        <5> QED
          BY <5>1, <5>2
      <4> QED
        BY <4>1, <4>2 DEF Next, Exchange
    <3>3. \A q \in Requests \ {r} : pc'[q] # "idle" => Code(q)' # Code(r)'
      BY DEF RefusedForNoReason, Sole
    <3> QED
      BY <2>2, <3>1, <3>2, <3>3
  <2>6. pc[r] # "rejected"
    BY <1>3, <2>1, <2>3, <2>4, <2>5
       DEF HonestExchangeSucceeds, RefusedForNoReason, Sole, Proved
  <2>7. Step(r)
    BY <1>1, <1>2, <1>6, <2>6, RefusalComes DEF BeginExchange
  <2>8. pc[r] = "getChallenge" => HasChallenge(c)
    <3> SUFFICES ASSUME pc[r] = "getChallenge" PROVE HasChallenge(c)
      OBVIOUS
    <3>1. \A s \in Requests : Code(s) = c => seen[s] = NoChallenge
      BY <1>1, <2>5 DEF ReadsRepeatConsent, ReadOK
    <3>2. pkce[c] # NoChallenge
      BY <1>1, <2>1, <2>2, <2>4, <3>1 DEF ChallengeKept, Proved
    <3>3. grant[c].expiresAt <= pkce[c].deadline
      BY <1>1, <3>2 DEF StoresRepeatConsent
    <3>4. now \in Nat /\ grant[c].expiresAt \in Nat /\ pkce[c].deadline \in Nat
      BY <1>1, <3>2 DEF TypeOK, Grant, Entry
    <3> QED
      BY <2>3, <3>2, <3>3, <3>4 DEF HasChallenge
  <2>9. pc[r] = "deleteChallenge" => VerifierMatches(r)
    BY <1>1, <2>1, <2>4 DEF ReadsRepeatConsent, ReadOK, Proved
  <2>10. pc[r] = "getCode" => tokens[c] # NoDoc
    <3> SUFFICES ASSUME pc[r] = "getCode" PROVE tokens[c] # NoDoc
      OBVIOUS
    <3>1. \A s \in Requests : Code(s) = c => pc[s] \in Early
      BY <2>5 DEF Early
    <3>2. tokens[c] = DocOf(c)
      BY <2>2, <2>3, <3>1 DEF DocumentWaits
    <3>3. DocOf(c) \in Doc
      BY <1>1 DEF DocOf, Doc, TypeOK, Grant
    <3> QED
      BY <3>2, <3>3, NoneAssumption
  <2>11. pc[r] = "deleteCode" => Accepted(r)
    <3> SUFFICES ASSUME pc[r] = "deleteCode" PROVE Accepted(r)
      OBVIOUS
    <3>1. got[r] = DocOf(c)
      BY <1>1, <2>1 DEF ReadsRepeatConsent, ReadOK, ReadBeforeUse
    <3>2. now \in Nat /\ grant[c].expiresAt \in Nat
      BY <1>1 DEF TypeOK, Grant
    <3> QED
      BY <2>1, <2>3, <2>4, <3>1, <3>2 DEF DocOf, Proved
  <2>12. CASE GetChallenge(r)
    BY <1>1, <1>2, <1>4, <2>1, <2>8, <2>12 DEF GetChallenge, Code, TypeOK
  <2>13. CASE DeleteChallenge(r)
    BY <1>1, <1>2, <2>9, <2>13 DEF DeleteChallenge, TypeOK
  <2>14. CASE GetCode(r)
    BY <1>1, <1>2, <1>4, <2>1, <2>10, <2>14 DEF GetCode, Code, TypeOK
  <2>15. CASE DeleteCode(r)
    BY <1>1, <1>2, <2>11, <2>15 DEF DeleteCode, TypeOK
  <2>16. CASE SaveRefresh(r)
    BY <1>1, <1>2, <1>4, <2>16 DEF SaveRefresh, TypeOK
  <2> QED
    BY <2>7, <2>12, <2>13, <2>14, <2>15, <2>16 DEF Step
<1> QED
  BY <1>5, <1>6

\* A client that shows the right verifier is never refused without a reason.
THEOREM HonestAreServed == Spec => []HonestExchangeSucceeds
<1>1. Init => DocumentWaits /\ HonestExchangeSucceeds
  BY DEF Init, DocumentWaits, HonestExchangeSucceeds,
         RefusedForNoReason
<1>2. IInv /\ IInv' /\ HonestInv /\ [Next]_vars => HonestInv'
  BY WaitsStep, HonestStep DEF HonestInv, IInv
<1>3. HonestInv => HonestExchangeSucceeds
  BY DEF HonestInv
<1>4. Init /\ IInv => HonestInv
  BY <1>1 DEF HonestInv
<1> QED
  BY <1>2, <1>3, <1>4, InvariantHolds, PTL DEF Spec

-----------------------------------------------------------------------------
(***************************************************************************)
(* Under which condition a code is one-time, as the documentation says.    *)
(***************************************************************************)

\* The exchanges of a code that end with tokens have not overlapped.
TokensInTurn ==
    \A r, s \in Requests :
        /\ pc[r] = "issued" /\ pc[s] = "issued" /\ Code(r) = Code(s) /\ r # s
        => r \in req[s].before \/ s \in req[r].before

\* No exchange lost both of its deletes.
OneDeleteWorks == \A r \in Requests : lost[r] # {"challenge", "code"}

\* A code is one-time, as docs/FLOWS.md calls it, wherever its exchanges come
\* one after the other and each deletes the code or the challenge: a second
\* redemption needs two requests that overlap, or two failures of one.
THEOREM OneTimeInTurn == Spec => [](TokensInTurn /\ OneDeleteWorks => OneTimeCode)
<1>1. ReuseNeedsTwoLostDeletes => (TokensInTurn /\ OneDeleteWorks => OneTimeCode)
  BY DEF ReuseNeedsTwoLostDeletes, TokensInTurn, OneDeleteWorks, OneTimeCode
<1> QED
  BY <1>1, SingleUse, PTL

=============================================================================
