-------------------------- MODULE MCRequestPipeline --------------------------
(***************************************************************************)
(* An instance of RequestPipeline for TLC.                                 *)
(***************************************************************************)
EXTENDS RequestPipeline, TLC

CONSTANTS a1, a2, c1

\* One of each kind of route from one address that the headers do not name,
\* and token requests with a client_id from two addresses, each of which names
\* the other one.
MCInputs ==
    [route : Routes, ip : {a1}, named : {None}, client : {None}]
    \cup {[route |-> "token", ip |-> a1, named |-> a2, client |-> c1],
          [route |-> "token", ip |-> a2, named |-> a1, client |-> c1]}

\* A production server, and a developer's with and without limits.
MCConfigs ==
    {[production |-> TRUE, global |-> TRUE, perClient |-> TRUE],
     [production |-> FALSE, global |-> TRUE, perClient |-> TRUE],
     [production |-> FALSE, global |-> FALSE, perClient |-> FALSE]}

\* No CHOOSE and no constant tells two requests apart.
MCSymmetry == Permutations(Requests)

=============================================================================
