------------------------------- MODULE Lease -------------------------------
(***************************************************************************)
(* What the server promises about something that is used again and again   *)
(* until it is over: a refresh token, a login session.  A use is let in    *)
(* only if, at some moment after it has asked, the lease was live; many    *)
(* uses may be in at the same time.  A lease ends for whatever reason, its *)
(* time, its owner or a lost grant, and never becomes live again.          *)
(*                                                                         *)
(* A use that was let in before the end may still go on after it.          *)
(***************************************************************************)
CONSTANTS Leases, Uses

VARIABLES
    state, \* Leases -> "none", "live" or "over"
    use,   \* Uses -> "none", "asked", "in" or "left"
    of     \* Uses -> the lease it names

vars == <<state, use, of>>

Init ==
    /\ state = [l \in Leases |-> "none"]
    /\ use = [u \in Uses |-> "none"]
    /\ of \in [Uses -> Leases]

Grant(l) ==
    /\ state[l] = "none"
    /\ state' = [state EXCEPT ![l] = "live"]
    /\ UNCHANGED <<use, of>>

\* Leases end and uses leave, several at once when their time has come or the
\* process dies.
End(L, U) ==
    /\ \A u \in U : use[u] # "none"
    /\ state' = [l \in Leases |-> IF l \in L THEN "over" ELSE state[l]]
    /\ use' = [u \in Uses |-> IF u \in U THEN "left" ELSE use[u]]
    /\ UNCHANGED of

Ask(u, l) ==
    /\ use[u] = "none"
    /\ use' = [use EXCEPT ![u] = "asked"]
    /\ of' = [of EXCEPT ![u] = l]
    /\ UNCHANGED state

Enter(u) ==
    /\ use[u] = "asked" /\ state[of[u]] = "live"
    /\ use' = [use EXCEPT ![u] = "in"]
    /\ UNCHANGED <<state, of>>

Next ==
    \/ \E l \in Leases : Grant(l)
    \/ \E L \in SUBSET Leases, U \in SUBSET Uses : End(L, U)
    \/ \E u \in Uses : Enter(u) \/ \E l \in Leases : Ask(u, l)

Spec == Init /\ [][Next]_vars

\* What is over stays over, and from then on nobody is let in.
StaysOver == \A l \in Leases : state[l] = "over" => state'[l] = "over"

NobodyEntersLate ==
    \A u \in Uses : state[of[u]] = "over" /\ use[u] # "in" => use'[u] # "in"

OverForGood == [][StaysOver /\ NobodyEntersLate]_vars

=============================================================================
