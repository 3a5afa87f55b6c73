----------------------------- MODULE MCSessions -----------------------------
(***************************************************************************)
(* Instances of Sessions for TLC.                                          *)
(***************************************************************************)
EXTENDS SessionLease, TLC

CONSTANTS root, carol, old, new

\* An administrator and a user; carol does not exist yet.
MCFirstUsers == [u \in Users |->
    IF u = carol THEN NoUser
    ELSE [role |-> IF u = root THEN "admin" ELSE "user", password |-> old]]

\* No CHOOSE and no constant tells two requests apart.
MCSymmetry == Permutations(Requests)

=============================================================================
