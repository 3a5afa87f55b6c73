--------------------------- MODULE MCServerProcess ---------------------------
(***************************************************************************)
(* An instance of ServerProcess for TLC.                                   *)
(***************************************************************************)
EXTENDS ServerProcess

=============================================================================
