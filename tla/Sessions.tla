------------------------------ MODULE Sessions ------------------------------
(***************************************************************************)
(* Login sessions and the users behind them: a login writes a session to   *)
(* Redis (FrontendHandler.Login), every protected request reads it and     *)
(* then its user (RequireAuth), the administration also asks for the role  *)
(* (RequireAdmin), and the admin calls on users (CreateUser, UpdateUser,   *)
(* DeleteUser) run behind that check while sessions are in use.            *)
(*                                                                         *)
(* A session names its user and nothing else: the role and the password    *)
(* are those of the user document, read when they are needed and, in       *)
(* UpdateUser, written back whole.                                         *)
(***************************************************************************)
EXTENDS Naturals, FiniteSets

CONSTANTS
    Users,           \* user documents, by _id; bounds the creations
    FirstUsers,      \* [user -> document, or none yet] at the start
    Sessions,        \* session ids, one for each login
    Requests,        \* requests behind RequireAuth
    Passwords,
    SessionLifespan, \* services.SessionLifespan, in ticks
    NoUser, NoSession, NoPassword,
    MaxTime,         \* bound: ticks of the clock
    MaxFaults        \* bound: failed store operations and crashes

Roles == {"admin", "user"}
User  == [role : Roles, password : Passwords]

ASSUME NoneAssumption == NoUser \notin User /\ NoPassword \notin Passwords
ASSUME UsersAssumption == FirstUsers \in [Users -> User \cup {NoUser}]
ASSUME NonEmptyAssumption == Sessions # {}
ASSUME LifespanAssumption == SessionLifespan \in Nat \ {0}
ASSUME BoundAssumption == MaxTime \in Nat /\ MaxFaults \in Nat

VARIABLES
    now, faults,
    users,    \* Users -> document
    born,     \* ids that MongoDB has given out
    sessions, \* Sessions -> session
    opened,   \* Sessions -> the session as the login stored it
    login,    \* Sessions -> what became of the login
    audit,    \* logins with a USER_LOGIN_SUCCESS event
    logout,   \* sessions whose logout was answered
    lost,     \* sessions whose logout failed in Redis
    pc,       \* Requests -> next operation or the answer
    req,      \* Requests -> input and when it came
    copy,     \* Requests -> the document the handler works on
    admins,   \* Requests -> users that were admins since the request came
    changed   \* users whose document an update request changed, and how

userVars    == <<users, born>>
sessionVars == <<sessions, opened, login, audit, logout, lost>>
requestVars == <<pc, req, copy>>
vars == <<now, faults, userVars, sessionVars, requestVars, admins, changed>>

Session == [user : Users, deadline : Nat]

\* What a request behind RequireAuth does: anything that stores no user, the
\* creation of a user, an update, with or without a new password, or a delete.
Task == [do : {"page"}]
        \cup [do : {"create"}, role : Roles, password : Passwords]
        \cup [do : {"update"}, target : Users, role : Roles,
              password : Passwords \cup {NoPassword}]
        \cup [do : {"delete"}, target : Users]

Running == {"session", "user", "role", "insert", "read", "write", "delete"}
Ended   == {"served", "login", "forbidden", "failed", "done", "crashed"}

TypeOK ==
    /\ now \in Nat /\ faults \in Nat
    /\ users \in [Users -> User \cup {NoUser}] /\ born \subseteq Users
    /\ sessions \in [Sessions -> Session \cup {NoSession}]
    /\ opened \in [Sessions -> Session \cup {NoSession}]
    /\ login \in [Sessions -> {"none", "save", "record", "answered", "failed"}]
    /\ audit \subseteq Sessions
    /\ logout \subseteq Sessions /\ lost \subseteq Sessions
    /\ pc \in [Requests -> {"idle"} \cup Running \cup Ended]
    /\ req \in [Requests -> [session : Sessions, task : Task, began : Nat,
                             gone : SUBSET Users, out : SUBSET Sessions]]
    /\ copy \in [Requests -> User \cup {NoUser}]
    /\ admins \in [Requests -> SUBSET Users]
    /\ changed \subseteq [by : Requests, user : Users, was : User, is : User]

Init ==
    /\ now = 0 /\ faults = 0
    /\ users = FirstUsers
    /\ born = {u \in Users : FirstUsers[u] # NoUser}
    /\ sessions = [s \in Sessions |-> NoSession]
    /\ opened = [s \in Sessions |-> NoSession]
    /\ login = [s \in Sessions |-> "none"]
    /\ audit = {} /\ logout = {} /\ lost = {} /\ changed = {}
    /\ pc = [r \in Requests |-> "idle"]
    /\ req = [r \in Requests |->
                [session |-> CHOOSE s \in Sessions : TRUE,
                 task |-> [do |-> "page"],
                 began |-> 0, gone |-> {}, out |-> {}]]
    /\ copy = [r \in Requests |-> NoUser]
    /\ admins = [r \in Requests |-> {}]

Succeeds == faults' = faults
Fails    == faults < MaxFaults /\ faults' = faults + 1

Admins == {u \in Users : users[u] # NoUser /\ users[u].role = "admin"}

\* History: who was an admin at some moment since each request came.
Witness == admins' = [r \in Requests |->
    IF pc'[r] \in Running THEN admins[r] \cup Admins' ELSE admins[r]]

-----------------------------------------------------------------------------
(***************************************************************************)
(* Login and logout.                                                       *)
(***************************************************************************)

\* The session CreateSession makes.
NewSession(u) == [user |-> u, deadline |-> now + SessionLifespan]

\* AuthenticateUser: the document is read once and its hash compared.
Authenticate(s, u, password) ==
    /\ login[s] = "none"
    /\ users[u] # NoUser
    /\ users[u].password = password
    /\ login' = [login EXCEPT ![s] = "save"]
    /\ opened' = [opened EXCEPT ![s] = NewSession(u)]
    /\ UNCHANGED <<now, faults, userVars, sessions, audit, logout, lost,
                   requestVars, changed, admins>>

\* Mutant: the key is set with no expiration.
WithoutTTL(s) == [opened[s] EXCEPT !.deadline = now + MaxTime + 1]

\* SessionRepository.Save: the TTL is what is left of the lifespan.
Stored(s) == opened[s]

\* CreateSession, the save.
SaveSession(s) ==
    /\ login[s] = "save"
    /\ now < opened[s].deadline
    /\ \/ /\ Succeeds
          /\ login' = [login EXCEPT ![s] = "record"]
          /\ sessions' = [sessions EXCEPT ![s] = Stored(s)]
       \/ /\ Fails
          /\ login' = [login EXCEPT ![s] = "failed"]
          /\ sessions' \in {sessions, [sessions EXCEPT ![s] = Stored(s)]}
    /\ UNCHANGED <<now, userVars, opened, audit, logout, lost, requestVars,
                   changed, admins>>

\* Save refuses a session that is over already.
SaveTooLate(s) ==
    /\ login[s] = "save"
    /\ now >= opened[s].deadline
    /\ login' = [login EXCEPT ![s] = "failed"]
    /\ UNCHANGED <<now, faults, userVars, sessions, opened, audit, logout,
                   lost, requestVars, changed, admins>>

\* The audit event, whose error is dropped, and the answer with the cookie.
RecordLogin(s) ==
    /\ login[s] = "record"
    /\ \/ Succeeds /\ audit' = audit \cup {s}
       \/ Fails /\ audit' \in {audit, audit \cup {s}}
    /\ login' = [login EXCEPT ![s] = "answered"]
    /\ UNCHANGED <<now, userVars, sessions, opened, logout, lost, requestVars,
                   changed, admins>>

\* Mutant: only the cookie is cleared.
CookieOnly(s) == sessions

Closed(s) == [sessions EXCEPT ![s] = NoSession]

\* Logout: an error of the delete is dropped, the cookie is cleared.
Logout(s) ==
    /\ login[s] = "answered" /\ s \notin logout
    /\ logout' = logout \cup {s}
    /\ \/ Succeeds /\ sessions' = Closed(s) /\ UNCHANGED lost
       \/ /\ Fails
          /\ sessions' \in {sessions, Closed(s)}
          /\ lost' = lost \cup {s}
    /\ UNCHANGED <<now, userVars, opened, login, audit, requestVars, changed,
                   admins>>

-----------------------------------------------------------------------------
(***************************************************************************)
(* A request with a session cookie.                                        *)
(***************************************************************************)
Go(r, where) == pc' = [pc EXCEPT ![r] = where]
TaskOf(r)    == req[r].task

Begin(r, s, task) ==
    /\ pc[r] = "idle"
    /\ login[s] = "answered"
    /\ Go(r, "session")
    /\ req' = [req EXCEPT ![r] =
                 [session |-> s, task |-> task, began |-> now,
                  gone |-> {u \in Users : users[u] = NoUser}, out |-> logout]]
    /\ UNCHANGED <<now, faults, userVars, sessionVars, copy, changed>>
    /\ Witness

\* SessionRepository.Get: Redis forgets a session at its deadline.
Live(s) == sessions[s] # NoSession /\ now < sessions[s].deadline

\* RequireAuth, the session.
ReadSession(r) ==
    /\ pc[r] = "session"
    /\ \/ Succeeds /\ Live(req[r].session) /\ Go(r, "user")
       \/ Succeeds /\ ~Live(req[r].session) /\ Go(r, "login")
       \/ Fails /\ Go(r, "login")
    /\ UNCHANGED <<now, userVars, sessionVars, req, copy, changed, admins>>

\* Mutant: the user comes from the session alone.
TrustsSession(u) == TRUE

Exists(u) == users[u] # NoUser

\* RequireAuth, the user, who is put into the context of the request.
ReadUser(r) ==
    LET u == opened[req[r].session].user IN
    /\ pc[r] = "user"
    /\ \/ /\ Succeeds /\ Exists(u)
          /\ copy' = [copy EXCEPT ![r] = users[u]]
          /\ Go(r, IF TaskOf(r).do = "page" THEN "served" ELSE "role")
       \/ Succeeds /\ ~Exists(u) /\ Go(r, "login") /\ UNCHANGED copy
       \/ Fails /\ Go(r, "login") /\ UNCHANGED copy
    /\ UNCHANGED <<now, userVars, sessionVars, req, changed, admins>>

\* Mutant: the route is mounted without RequireAdmin.
Anybody(user) == TRUE

IsAdmin(user) == user.role = "admin"

\* RequireAdmin looks at the context, not at the store.
CheckRole(r) ==
    /\ pc[r] = "role"
    /\ Go(r, IF ~IsAdmin(copy[r]) THEN "forbidden"
             ELSE [create |-> "insert", update |-> "read",
                   delete |-> "delete"][TaskOf(r).do])
    /\ UNCHANGED <<now, faults, userVars, sessionVars, req, copy, changed,
                   admins>>

\* The document CreateUser makes.
NewUser(r) == [role |-> TaskOf(r).role, password |-> TaskOf(r).password]

\* CreateUser: the insert, under a new id.  Nothing asks whether the username
\* is taken.
InsertUser(r) ==
    /\ pc[r] = "insert"
    /\ \E u \in Users \ born :
          LET Inserted == /\ users' = [users EXCEPT ![u] = NewUser(r)]
                          /\ born' = born \cup {u}
          IN \/ Succeeds /\ Inserted /\ Go(r, "done")
             \/ Fails /\ (Inserted \/ UNCHANGED userVars) /\ Go(r, "failed")
    /\ Witness
    /\ UNCHANGED <<now, sessionVars, req, copy, changed>>

\* UpdateUser, the read.
ReadForUpdate(r) ==
    LET u == TaskOf(r).target IN
    /\ pc[r] = "read"
    /\ \/ /\ Succeeds /\ users[u] # NoUser
          /\ copy' = [copy EXCEPT ![r] = users[u]]
          /\ Go(r, "write")
       \/ Succeeds /\ users[u] = NoUser /\ Go(r, "failed") /\ UNCHANGED copy
       \/ Fails /\ Go(r, "failed") /\ UNCHANGED copy
    /\ UNCHANGED <<now, userVars, sessionVars, req, changed, admins>>

\* The document UpdateUser writes: what it read, with the fields of the call.
Updated(r) ==
    [role |-> TaskOf(r).role,
     password |-> IF TaskOf(r).password = NoPassword THEN copy[r].password
                                                    ELSE TaskOf(r).password]

\* Mutant: ReplaceOne inserts what it does not find.
Upserts(u) == TRUE

Matches(u) == users[u] # NoUser

\* UpdateUser, the write: the whole document is replaced.
WriteUpdate(r) ==
    LET u == TaskOf(r).target
        Replaced ==
            /\ users' = [users EXCEPT ![u] = Updated(r)]
            /\ changed' = changed \cup
                 (IF users[u] = NoUser THEN {}
                  ELSE {[by |-> r, user |-> u, was |-> users[u],
                         is |-> Updated(r)]})
    IN
    /\ pc[r] = "write"
    /\ \/ Succeeds /\ Matches(u) /\ Replaced /\ Go(r, "done")
       \/ Fails /\ Matches(u) /\ Replaced /\ Go(r, "failed")
       \/ /\ Succeeds /\ ~Matches(u)
          /\ Go(r, "failed") /\ UNCHANGED <<users, changed>>
       \/ Fails /\ Go(r, "failed") /\ UNCHANGED <<users, changed>>
    /\ Witness
    /\ UNCHANGED <<now, born, sessionVars, req, copy>>

WithoutUser(u) == [users EXCEPT ![u] = NoUser]

\* DeleteUser: the document goes, its sessions and tokens stay.
DeleteUser(r) ==
    LET u == TaskOf(r).target IN
    /\ pc[r] = "delete"
    /\ \/ /\ Succeeds /\ users[u] # NoUser
          /\ users' = WithoutUser(u) /\ Go(r, "done")
       \/ Succeeds /\ users[u] = NoUser /\ UNCHANGED users /\ Go(r, "failed")
       \/ Fails /\ users' \in {users, WithoutUser(u)} /\ Go(r, "failed")
    /\ Witness
    /\ UNCHANGED <<now, born, sessionVars, req, copy, changed>>

-----------------------------------------------------------------------------
Tick ==
    /\ now < MaxTime
    /\ now' = now + 1
    /\ UNCHANGED <<faults, userVars, sessionVars, requestVars, admins, changed>>

Crash ==
    /\ Fails
    /\ \/ \E r \in Requests : pc[r] \in Running
       \/ \E s \in Sessions : login[s] \in {"save", "record"}
    /\ pc' = [r \in Requests |-> IF pc[r] \in Running THEN "crashed" ELSE pc[r]]
    /\ login' = [s \in Sessions |->
                   IF login[s] \in {"save", "record"} THEN "failed"
                                                      ELSE login[s]]
    /\ UNCHANGED <<now, userVars, sessions, opened, audit, logout, lost, req,
                   copy, admins, changed>>

Step(r) ==
    \/ ReadSession(r)
    \/ ReadUser(r)
    \/ CheckRole(r)
    \/ InsertUser(r)
    \/ ReadForUpdate(r)
    \/ WriteUpdate(r)
    \/ DeleteUser(r)

Next ==
    \/ \E s \in Sessions :
          \/ \E u \in Users, password \in Passwords : Authenticate(s, u, password)
          \/ SaveSession(s)
          \/ SaveTooLate(s)
          \/ RecordLogin(s)
          \/ Logout(s)
    \/ \E r \in Requests :
          \/ Step(r)
          \/ \E s \in Sessions, task \in Task : Begin(r, s, task)
    \/ Tick
    \/ Crash

Spec == Init /\ [][Next]_vars

-----------------------------------------------------------------------------
(***************************************************************************)
(* Properties.                                                             *)
(***************************************************************************)
Owner(r) == opened[req[r].session].user
Passed(r) == pc[r] \in {"served", "role", "insert", "read", "write", "delete",
                        "done"}

\* A user who was deleted when the request came gets no further than the
\* login page, although the session of that user is still in Redis.
\* (RequireAuth reads the user on every request.)
DeletedUserIsOut == \A r \in Requests : Passed(r) => Owner(r) \notin req[r].gone

\* A request that comes after the logout of its session was answered is not
\* served, unless Redis failed to delete the session.  (Logout drops that
\* error.)
LoggedOutIsOut ==
    \A r \in Requests :
        Passed(r) => req[r].session \notin (req[r].out \ lost)

\* A session that is a day old opens nothing, also when its login was slow.
OldSessionIsOut ==
    \A r \in Requests : Passed(r) => req[r].began < opened[req[r].session].deadline

\* Whoever creates, changes or deletes a user was an admin at some moment
\* since the request came, also when roles change while the request is
\* checked.
\* (RequireAdmin looks at a copy of the user that RequireAuth read.)
OnlyAdminsChangeUsers ==
    \A r \in Requests :
        pc[r] \in {"insert", "read", "write", "delete", "done"} => Owner(r) \in admins[r]

\* A deleted user stays deleted: the write of a slow update that read the
\* document before does not bring it back.  (ReplaceOne does not insert.)
DeletedForGood ==
    [][\A u \in born : users[u] = NoUser => users'[u] = NoUser]_vars

-----------------------------------------------------------------------------
\* internal/services/user.go: "Only update the password if a new one was
\* provided."  UpdateUser writes back the hash it read, so an update without
\* a password undoes one that another request stored in between.
PasswordKeptUnlessGiven ==
    \A c \in changed :
        TaskOf(c.by).password = NoPassword => c.is.password = c.was.password

=============================================================================
