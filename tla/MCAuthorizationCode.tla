------------------------ MODULE MCAuthorizationCode ------------------------
(***************************************************************************)
(* Instances of AuthorizationCode for TLC.                                 *)
(***************************************************************************)
EXTENDS AuthorizationCodeGrant, AuthorizationCodeInvariant, TLC

\* A client that has registered every URI and one that has none until it is
\* updated.
CONSTANTS app1
MCRedirectURIs == [c \in Clients |-> IF c = app1 THEN Uris ELSE {}]
MCUriSets == {Uris}

\* Requests are interchangeable, and so are verifiers: no CHOOSE and no
\* constant tells them apart.
MCSymmetry == Permutations(Requests) \cup Permutations(Verifiers)

=============================================================================
