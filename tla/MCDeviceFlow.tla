---------------------------- MODULE MCDeviceFlow ----------------------------
(***************************************************************************)
(* Instances of DeviceFlow for TLC.                                        *)
(***************************************************************************)
EXTENDS DeviceFlowInvariant, TLC

\* No CHOOSE and no constant tells two polls or two users apart.
MCSymmetry == Permutations(Polls) \cup Permutations(Users)

=============================================================================
