---------------------------- MODULE RefreshLease ----------------------------
(***************************************************************************)
(* A refresh token as a Lease, live while its document is stored and its   *)
(* time is not over.  A refresh or an introspection is in when it has read *)
(* such a document; a revocation only ever leaves.                         *)
(***************************************************************************)
EXTENDS RefreshTokensInvariant

TokenState == [t \in Tokens |->
    IF minted[t] = NoDoc THEN "none"
    ELSE IF tokens[t] # NoDoc /\ ~Expired(tokens[t]) THEN "live" ELSE "over"]

UseOf(where) ==
    CASE where = "idle"                       -> "none"
      [] where \in {"credentials", "read"}     -> "asked"
      [] where \in {"sign", "issued", "active"} -> "in"
      [] OTHER                                -> "left"

TokenUse == [r \in Requests |-> UseOf(pc[r])]

TokenOf == [r \in Requests |-> Token(r)]

Abstract == INSTANCE Lease WITH
    Leases <- Tokens, Uses <- Requests,
    state <- TokenState, use <- TokenUse, of <- TokenOf

\* Every refresh and every introspection that succeeds is explained by one
\* moment after it came at which the token was valid, whatever revocations,
\* expiries, failures and crashes happen around it; a token that is over
\* stays over (handleRefreshTokenGrant, Introspect and Revoke).
ImplementsLease == Abstract!Spec

=============================================================================
