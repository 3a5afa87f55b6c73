-------------------------- MODULE MCClientRegistry --------------------------
(***************************************************************************)
(* Instances of ClientRegistry for TLC.                                    *)
(***************************************************************************)
EXTENDS ClientRegistryAtomic, TLC

\* No CHOOSE and no constant tells two requests apart.
MCSymmetry == Permutations(Requests)

=============================================================================
