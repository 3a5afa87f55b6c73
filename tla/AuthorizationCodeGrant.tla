----------------------- MODULE AuthorizationCodeGrant -----------------------
(***************************************************************************)
(* AuthorizationCode implements OneTimeGrant: the challenge in Redis is    *)
(* the door.  A code is open while its challenge is stored, a request      *)
(* enters when it reads the challenge, and wins when it gets its tokens.   *)
(***************************************************************************)
EXTENDS AuthorizationCode

GrantState == [c \in Codes |->
    IF pkce[c] # NoChallenge THEN "open"
    ELSE IF page[c] = "redirected" /\ grant[c].challenge # NoChallenge
         THEN "closed"
         ELSE "none"]

Entered == [c \in Codes |->
    {r \in Requests : Code(r) = c /\ seen[r] # NoChallenge}]

Won == [c \in Codes |-> {r \in Requests : Code(r) = c /\ pc[r] = "issued"}]

Leaked == {c \in Codes :
              \E r \in Requests : Code(r) = c /\ "challenge" \in lost[r]}

Abstract == INSTANCE OneTimeGrant
                WITH state <- GrantState, entered <- Entered, won <- Won,
                     leaked <- Leaked

\* Every behaviour of the handlers, with every failure of the stores, is one
\* of OneTimeGrant.
ImplementsOneTimeGrant == Abstract!Spec

\* Once an exchange got tokens, no later request gets as far as reading the
\* challenge of that code, if no delete of the challenge was lost.
NoEntryAfterAWin == Abstract!NobodyEntersAfterAWin

=============================================================================
