---------------------------- MODULE OneTimeGrant ----------------------------
(***************************************************************************)
(* What the server promises about something that is handed out once, and   *)
(* redeemed by whoever presents it: an authorization code, a device code.  *)
(* A request enters while the grant is open, and wins only when the grant  *)
(* has been closed; several may have entered by then.                      *)
(*                                                                         *)
(* A store may lose the operation that closes a grant.  Such a grant is    *)
(* marked, and the promise does not cover it any more.                     *)
(***************************************************************************)
CONSTANTS Codes, Requests

VARIABLES
    state,   \* Codes -> "none", "open" or "closed"
    entered, \* Codes -> the requests that found it open
    won,     \* Codes -> the requests that got tokens for it
    leaked   \* the codes whose closing was lost

vars == <<state, entered, won, leaked>>

Init ==
    /\ state = [c \in Codes |-> "none"]
    /\ entered = [c \in Codes |-> {}]
    /\ won = [c \in Codes |-> {}]
    /\ leaked = {}

Open(c) ==
    /\ state[c] = "none"
    /\ state' = [state EXCEPT ![c] = "open"]
    /\ UNCHANGED <<entered, won, leaked>>

Enter(r, c) ==
    /\ state[c] = "open"
    /\ entered' = [entered EXCEPT ![c] = @ \cup {r}]
    /\ UNCHANGED <<state, won, leaked>>

\* It is used up, or it lapses before anyone came.
Close(c) ==
    /\ state[c] = "open"
    /\ state' = [state EXCEPT ![c] = "closed"]
    /\ UNCHANGED <<entered, won, leaked>>

\* The store answers with an error, and may have closed the grant.
LoseClose(c) ==
    /\ entered[c] # {}
    /\ state' \in {state, [state EXCEPT ![c] = "closed"]}
    /\ leaked' = leaked \cup {c}
    /\ UNCHANGED <<entered, won>>

Win(r, c) ==
    /\ r \in entered[c]
    /\ state[c] = "closed" \/ c \in leaked
    /\ won' = [won EXCEPT ![c] = @ \cup {r}]
    /\ UNCHANGED <<state, entered, leaked>>

Next ==
    \E c \in Codes :
        \/ Open(c)
        \/ Close(c)
        \/ LoseClose(c)
        \/ \E r \in Requests : Enter(r, c) \/ Win(r, c)

Spec == Init /\ [][Next]_vars

\* The winners of a grant that did not leak were all in before it closed:
\* from the first win on nobody enters, and a grant never opens again.
NobodyEnters ==
    \A c \in Codes :
        won[c] # {} /\ c \notin leaked' => entered'[c] = entered[c]

NobodyEntersAfterAWin == [][NobodyEnters]_vars

=============================================================================
