-------------------------- MODULE MCRefreshTokens --------------------------
(***************************************************************************)
(* Instances of RefreshTokens for TLC.                                     *)
(***************************************************************************)
EXTENDS RefreshLease, TLC

\* No CHOOSE and no constant tells two requests apart.
MCSymmetry == Permutations(Requests)

=============================================================================
