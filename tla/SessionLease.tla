---------------------------- MODULE SessionLease ----------------------------
(***************************************************************************)
(* A login session as a Lease, live while Redis answers with it.  A        *)
(* request is in when RequireAuth has read its session, and leaves when it *)
(* is sent to the login page or is forbidden what it asks for.             *)
(***************************************************************************)
EXTENDS UserRegistry

SessionState == [s \in Sessions |->
    IF Live(s) THEN "live"
    ELSE IF login[s] \in {"none", "save"} THEN "none" ELSE "over"]

UseOf(where) ==
    CASE where = "idle"    -> "none"
      [] where = "session" -> "asked"
      [] where \in {"user", "role", "insert", "read", "write", "delete",
                    "served", "done"} -> "in"
      [] OTHER -> "left"

SessionUse == [r \in Requests |-> UseOf(pc[r])]

SessionOf == [r \in Requests |-> req[r].session]

Abstract == INSTANCE Lease WITH
    Leases <- Sessions, Uses <- Requests,
    state <- SessionState, use <- SessionUse, of <- SessionOf

\* Every request that gets past the session check is explained by one moment
\* after it came at which Redis held its session and the session was not a
\* day old, whatever logins, logouts and failures happen around it; a session
\* that is over stays over (CreateSession, Logout and RequireAuth).
ImplementsLease == Abstract!Spec

=============================================================================
