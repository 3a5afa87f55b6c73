--------------------- MODULE AuthorizationCodeInvariant ---------------------
(***************************************************************************)
(* The inductive invariant of AuthorizationCode, in named parts: what the  *)
(* stores hold about a consent, what a request knows at each point of its  *)
(* handler, and what an exchange leaves for those that come after it.      *)
(***************************************************************************)
EXTENDS AuthorizationCode

\* A request that stores a refresh token has read the code's document.
ReadBeforeUse ==
    \A r \in Requests :
        pc[r] \in {"deleteCode", "saveRefresh", "issued"} => got[r] # NoDoc

\* The document of a code repeats the consent.
DocOf(c) == [client |-> grant[c].client, user |-> grant[c].user,
             scope |-> grant[c].scope, expiresAt |-> grant[c].expiresAt]

StoresRepeatConsent ==
    \A c \in Codes :
        /\ tokens[c] # NoDoc =>
              /\ page[c] \in {"saveChallenge", "redirected", "failed"}
              /\ tokens[c] = DocOf(c)
        /\ pkce[c] # NoChallenge =>
              /\ page[c] \in {"redirected", "failed"}
              /\ grant[c].challenge # NoChallenge
              /\ pkce[c].challenge = grant[c].challenge
              /\ grant[c].expiresAt <= pkce[c].deadline
        /\ page[c] = "saveChallenge" =>
              /\ grant[c].challenge # NoChallenge
              /\ grant[c].expiresAt <= now + CodeLifespan

\* Only a code that reached the browser is presented.
PresentedWasRedirected ==
    \A r \in Requests : pc[r] # "idle" => page[Code(r)] = "redirected"

\* What a request has read is the consent, and it got past ValidatePKCE only
\* with the verifier.
ReadOK(r) ==
    /\ pc[r] \in {"idle", "getChallenge"} => seen[r] = NoChallenge
    /\ seen[r] = NoChallenge => lost[r] = {}
    /\ pc[r] \notin {"idle", "getChallenge", "rejected", "crashed"} =>
          seen[r] # NoChallenge
    /\ seen[r] # NoChallenge => seen[r] = grant[Code(r)].challenge
    /\ pc[r] \in {"getCode", "deleteCode", "saveRefresh", "issued"} =>
          /\ req[r].in.verifier # NoVerifier
          /\ seen[r] = S256(req[r].in.verifier)
    /\ pc[r] \in {"idle", "getChallenge", "deleteChallenge", "getCode"} =>
          got[r] = NoDoc
    /\ got[r] # NoDoc => got[r] = DocOf(Code(r)) /\ seen[r] # NoChallenge
    /\ pc[r] \in {"saveRefresh", "issued"} =>
          /\ got[r].client = req[r].in.client
          /\ req[r].began <= got[r].expiresAt
    /\ req[r].began <= now

ReadsRepeatConsent == \A r \in Requests : ReadOK(r)

\* A refresh token repeats the consent of the request that stored it.
RefreshRepeatsConsent ==
    /\ \A t \in refresh :
          LET g == grant[Code(t.by)] IN
          /\ pc[t.by] \in {"issued", "rejected"}
          /\ Proved(t.by)
          /\ t.client = g.client /\ t.user = g.user /\ t.scope = g.scope
    /\ \A r \in Requests : pc[r] = "issued" => \E t \in refresh : t.by = r

\* The request ran the deferred delete of the challenge.
TriedChallenge(r) ==
    /\ seen[r] # NoChallenge
    /\ pc[r] \in {"getCode", "deleteCode", "saveRefresh", "issued", "rejected"}

\* A delete that was tried and not lost has emptied its store for good.
Emptied(r) ==
    /\ TriedChallenge(r) /\ "challenge" \notin lost[r] =>
          pkce[Code(r)] = NoChallenge
    /\ pc[r] \in {"saveRefresh", "issued"} /\ "code" \notin lost[r] =>
          tokens[Code(r)] = NoDoc

DeletesAreFinal == \A r \in Requests : Emptied(r)

\* A request that began after another had ended finds what that one left.
FindsWhatIsLeft(r, s) ==
    /\ pc[s] \in Ended
    /\ Code(r) = Code(s) =>
          /\ seen[r] # NoChallenge /\ TriedChallenge(s) => "challenge" \in lost[s]
          /\ got[r] # NoDoc /\ pc[s] = "issued" => "code" \in lost[s]

LaterFindsNothing ==
    \A r, s \in Requests : s \in req[r].before => FindsWhatIsLeft(r, s)

\* The challenge of a code in the browser is there until a request reads it.
ChallengeKept ==
    \A c \in Codes :
        /\ page[c] = "redirected"
        /\ grant[c].challenge # NoChallenge
        /\ pkce[c] = NoChallenge
        => \E r \in Requests : Code(r) = c /\ seen[r] # NoChallenge

IInv ==
    /\ TypeOK
    /\ ReadBeforeUse
    /\ StoresRepeatConsent
    /\ PresentedWasRedirected
    /\ ReadsRepeatConsent
    /\ RefreshRepeatsConsent
    /\ DeletesAreFinal
    /\ LaterFindsNothing
    /\ ChallengeKept

=============================================================================
