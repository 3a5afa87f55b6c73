----------------------- MODULE RefreshTokensInvariant -----------------------
(***************************************************************************)
(* The inductive invariant of RefreshTokens: what a document says, what a  *)
(* request is entitled to at each point of its handler, and what a         *)
(* revocation leaves for the requests that come after it.                  *)
(***************************************************************************)
EXTENDS RefreshTokens

\* A document never changes while it is there.
DocumentsAreAsMinted ==
    \A t \in Tokens : tokens[t] # NoDoc => tokens[t] = minted[t]

\* A request past the check of its credentials had the right ones.
Entitled(r) ==
    /\ pc[r] # "idle" =>
          /\ minted[Token(r)] # NoDoc
          /\ req[r].began <= now
    /\ pc[r] \in {"read", "sign", "delete", "issued", "active", "revoked"} =>
          /\ req[r].in.secret
          /\ Client(r) \in req[r].known
    /\ pc[r] \in {"sign", "delete"} => Client(r) = minted[Token(r)].client
    /\ pc[r] \in {"sign", "issued", "active"} =>
          req[r].began <= minted[Token(r)].expiresAt
    /\ pc[r] = "active" => req[r].began < minted[Token(r)].expiresAt
    /\ pc[r] = "drop" => now > minted[Token(r)].expiresAt
    /\ pc[r] = "idle" => req[r].before = {}
    /\ pc[r] = "credentials" => registered \subseteq req[r].known

RequestsAreEntitled == \A r \in Requests : Entitled(r)

\* A revocation that was not lost leaves no document, and nothing makes a
\* second one.
RevocationsAreFinal ==
    \A v \in Requests :
        pc[v] = "revoked" /\ v \notin lost => tokens[Token(v)] = NoDoc

\* A request that began after a revocation was answered finds no document.
LaterFindsNothing ==
    \A r, v \in Requests :
        v \in req[r].before =>
            /\ pc[v] \in Ended
            /\ pc[v] = "revoked" /\ v \notin lost /\ Token(r) = Token(v) =>
                  pc[r] \notin {"sign", "issued", "active"}

\* An access token was signed by a request that has ended, from the refresh
\* token it named.
AccessIsIssued ==
    \A a \in access : pc[a.by] = "issued" /\ a.from = Token(a.by)

IInv ==
    /\ TypeOK
    /\ DocumentsAreAsMinted
    /\ RequestsAreEntitled
    /\ RevocationsAreFinal
    /\ LaterFindsNothing
    /\ AccessIsIssued
    /\ BoughtByItsClient

=============================================================================
