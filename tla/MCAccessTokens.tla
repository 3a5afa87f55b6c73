--------------------------- MODULE MCAccessTokens ---------------------------
(***************************************************************************)
(* An instance of AccessTokens for TLC.                                    *)
(***************************************************************************)
EXTENDS AccessTokens, TLC

\* A client with both grants, and one with a scope and a grant less that also
\* lacks the URL of its keys.
MCRegistrations ==
    {[grants |-> Grants, scopes |-> Scopes, jwks |-> TRUE],
     [grants |-> {"client_credentials"}, scopes |-> {"openid"}, jwks |-> FALSE]}

MCAsked == {{}, {"email"}}

CONSTANT k1

\* Assertions for this server, with and without an expiry.
MCAssertions ==
    {[key |-> k1, forUs |-> TRUE, exp |-> None],
     [key |-> k1, forUs |-> FALSE, exp |-> None],
     [key |-> k1, forUs |-> TRUE, exp |-> 1]}

\* No CHOOSE and no constant tells two requests apart.
MCSymmetry == Permutations(Requests)

=============================================================================
