--------------------------- MODULE SessionsProofs ---------------------------
(***************************************************************************)
(* Who gets past the two guards, for any number of users, sessions,        *)
(* requests, ticks and faults.                                             *)
(***************************************************************************)
EXTENDS SessionLease, TLAPS

\* A request is where its task leads.
TasksAreFollowed ==
    \A r \in Requests :
        /\ pc[r] \in {"role", "done"} => TaskOf(r).do \in {"create", "update", "delete"}
        /\ pc[r] = "insert" => TaskOf(r).do = "create"
        /\ pc[r] \in {"read", "write"} => TaskOf(r).do = "update"
        /\ pc[r] = "delete" => TaskOf(r).do = "delete"
        /\ pc[r] \in {"role", "write"} => copy[r] # NoUser

\* Whoever is stored has an id that was given out.
StoredAreBorn == \A u \in Users : users[u] # NoUser => u \in born

\* A session is of a user who was there, and is stored as it was opened.
SessionsAreOpened ==
    \A s \in Sessions :
        /\ login[s] # "none" => opened[s] \in Session /\ opened[s].user \in born
        /\ sessions[s] # NoSession => sessions[s] = opened[s] /\ login[s] # "none"

\* Whose logout was answered and not lost, has no session any more.
LogoutsAreFinal ==
    \A s \in logout :
        /\ login[s] = "answered"
        /\ s \notin lost => sessions[s] = NoSession

\* What a request remembers of its beginning stays so.
BeginningStays ==
    \A r \in Requests : pc[r] # "idle" =>
        /\ login[req[r].session] = "answered"
        /\ req[r].began <= now
        /\ req[r].out \subseteq logout
        /\ Owner(r) \in req[r].gone => users[Owner(r)] = NoUser

\* What RequireAuth found in the session.
SessionWasLive ==
    \A r \in Requests : pc[r] = "user" \/ Passed(r) =>
        /\ req[r].session \notin req[r].out \ lost
        /\ req[r].began < opened[req[r].session].deadline

\* The admins of this moment are among those that a request has seen, and an
\* admin's copy is of one of them.
AdminsAreSeen ==
    \A r \in Requests :
        /\ pc[r] \in Running => Admins \subseteq admins[r]
        /\ pc[r] = "role" /\ copy[r].role = "admin" => Owner(r) \in admins[r]

IInv ==
    /\ TypeOK
    /\ TasksAreFollowed
    /\ StoredAreBorn
    /\ SessionsAreOpened
    /\ LogoutsAreFinal
    /\ BeginningStays
    /\ SessionWasLive
    /\ AdminsAreSeen
    /\ DeletedUserIsOut
    /\ OnlyAdminsChangeUsers

-----------------------------------------------------------------------------
(***************************************************************************)
(* What a step may change.                                                 *)
(***************************************************************************)

\* The parts of a request's record.
LEMMA RequestType ==
    ASSUME TypeOK, NEW r \in Requests
    PROVE  /\ req[r].session \in Sessions /\ req[r].began \in Nat
           /\ TaskOf(r) \in Task
           /\ req[r].gone \subseteq Users /\ req[r].out \subseteq Sessions
           /\ TaskOf(r).do \in {"page", "create", "update", "delete"}
           /\ TaskOf(r).do \in {"create", "update"} => TaskOf(r).role \in Roles
           /\ TaskOf(r).do = "create" => TaskOf(r).password \in Passwords
           /\ TaskOf(r).do = "update" =>
                 TaskOf(r).password \in Passwords \cup {NoPassword}
           /\ TaskOf(r).do \in {"update", "delete"} => TaskOf(r).target \in Users
<1>1. /\ req[r].session \in Sessions /\ req[r].began \in Nat
      /\ TaskOf(r) \in Task
      /\ req[r].gone \subseteq Users /\ req[r].out \subseteq Sessions
  BY DEF TypeOK, TaskOf
<1> QED
  BY <1>1 DEF Task

\* Users: one is created under a new id, or goes, or is replaced by an update.
UserChange(u) ==
    \/ users'[u] = users[u]
    \/ users'[u] = NoUser
    \/ u \notin born /\ u \in born'
    \/ users[u] # NoUser

\* A login goes on.
LoginChange(s) ==
    /\ \/ login'[s] = login[s] /\ opened'[s] = opened[s]
       \/ login[s] = "none" /\ login'[s] = "save"
          /\ \E u \in Users : users[u] # NoUser /\ opened'[s] = NewSession(u)
       \/ login[s] \in {"save", "record"} /\ opened'[s] = opened[s]
          /\ login'[s] \in {"record", "answered", "failed"}
    /\ \/ sessions'[s] = sessions[s]
       \/ sessions'[s] = NoSession
       \/ sessions'[s] = opened[s] /\ login[s] = "save" /\ login'[s] \in {"record", "failed"}
    /\ \/ s \in logout' <=> s \in logout
       \/ s \notin logout /\ login[s] = "answered"
          /\ (s \in lost' \/ sessions'[s] = NoSession)
    /\ s \in logout => s \in logout'
    /\ s \in lost => s \in lost'
    /\ s \in logout /\ s \in lost' => s \in lost

\* A request begins.
Begins(r) ==
    /\ pc[r] = "idle" /\ pc'[r] = "session"
    /\ login[req'[r].session] = "answered"
    /\ req'[r].began = now /\ now' = now
    /\ req'[r].gone = {u \in Users : users[u] = NoUser} /\ req'[r].out = logout
    /\ users' = users /\ born' = born /\ opened' = opened /\ login' = login
    /\ logout' = logout

\* A request goes on.
GoesOn(r) ==
    LET s == req[r].session IN
    /\ req'[r] = req[r]
    /\ \/ pc'[r] = pc[r] /\ copy'[r] = copy[r]
       \/ pc[r] \in Running /\ pc'[r] \in {"login", "forbidden", "failed", "crashed"}
       \/ pc[r] = "session" /\ pc'[r] = "user" /\ Live(s)
       \/ /\ pc[r] = "user" /\ pc'[r] = "served"
          /\ users[Owner(r)] # NoUser
       \/ /\ pc[r] = "user" /\ pc'[r] = "role" /\ TaskOf(r).do # "page"
          /\ users[Owner(r)] # NoUser /\ copy'[r] = users[Owner(r)]
       \/ /\ pc[r] = "role" /\ copy[r].role = "admin" /\ copy'[r] = copy[r]
          /\ \/ TaskOf(r).do = "create" /\ pc'[r] = "insert"
             \/ TaskOf(r).do = "update" /\ pc'[r] = "read"
             \/ TaskOf(r).do = "delete" /\ pc'[r] = "delete"
       \/ pc[r] = "read" /\ pc'[r] = "write" /\ copy'[r] # NoUser
       \/ pc[r] \in {"insert", "write", "delete"} /\ pc'[r] = "done"

\* The steps by their effect on users.
LEMMA UsersChange ==
    ASSUME TypeOK, [Next]_vars, NEW u \in Users
    PROVE  UserChange(u) /\ born \subseteq born'
<1>1. ASSUME NEW r \in Requests, InsertUser(r)
      PROVE  UserChange(u) /\ born \subseteq born'
  BY <1>1 DEF InsertUser, UserChange, userVars, TypeOK
<1>2. ASSUME NEW r \in Requests, WriteUpdate(r)
      PROVE  UserChange(u) /\ born \subseteq born'
  BY <1>2 DEF WriteUpdate, Matches, UserChange, TypeOK
<1>3. ASSUME NEW r \in Requests, DeleteUser(r)
      PROVE  UserChange(u) /\ born \subseteq born'
  BY <1>3 DEF DeleteUser, WithoutUser, UserChange, TypeOK
<1>4. \/ UNCHANGED userVars
      \/ \E r \in Requests : InsertUser(r) \/ WriteUpdate(r) \/ DeleteUser(r)
  BY DEF Next, Step, Authenticate, SaveSession, SaveTooLate, RecordLogin, Logout,
         Begin, ReadSession, ReadUser, CheckRole, ReadForUpdate, Tick, Crash, vars
<1> QED
  BY <1>1, <1>2, <1>3, <1>4 DEF UserChange, userVars

\* The steps by their effect on a login.
LEMMA LoginsChange ==
    ASSUME TypeOK, [Next]_vars, NEW s \in Sessions
    PROVE  LoginChange(s)
<1>1. ASSUME NEW t \in Sessions, NEW u \in Users, NEW password \in Passwords,
             Authenticate(t, u, password)
      PROVE  LoginChange(s)
  BY <1>1 DEF Authenticate, LoginChange, TypeOK
<1>2. ASSUME NEW t \in Sessions, SaveSession(t) PROVE LoginChange(s)
  BY <1>2 DEF SaveSession, Stored, LoginChange, TypeOK
<1>3. ASSUME NEW t \in Sessions, SaveTooLate(t) PROVE LoginChange(s)
  BY <1>3 DEF SaveTooLate, LoginChange, TypeOK
<1>4. ASSUME NEW t \in Sessions, RecordLogin(t) PROVE LoginChange(s)
  BY <1>4 DEF RecordLogin, LoginChange, TypeOK
<1>5. ASSUME NEW t \in Sessions, Logout(t) PROVE LoginChange(s)
  BY <1>5 DEF Logout, Closed, LoginChange, TypeOK
<1>6. CASE Crash
  BY <1>6 DEF Crash, LoginChange, TypeOK
<1>7. CASE UNCHANGED sessionVars
  BY <1>7 DEF sessionVars, LoginChange
<1>8. \/ UNCHANGED sessionVars \/ Crash
      \/ \E t \in Sessions :
            \/ \E u \in Users, password \in Passwords : Authenticate(t, u, password)
            \/ SaveSession(t) \/ SaveTooLate(t) \/ RecordLogin(t) \/ Logout(t)
  BY DEF Next, Step, Begin, ReadSession, ReadUser, CheckRole, InsertUser,
         ReadForUpdate, WriteUpdate, DeleteUser, Tick, vars
<1> QED
  BY <1>1, <1>2, <1>3, <1>4, <1>5, <1>6, <1>7, <1>8

\* The steps by their effect on a request.
LEMMA RequestChange ==
    ASSUME TypeOK, TasksAreFollowed, [Next]_vars, NEW r \in Requests
    PROVE  Begins(r) \/ GoesOn(r)
<1>1. ASSUME NEW q \in Requests, NEW s \in Sessions, NEW task \in Task, Begin(q, s, task)
      PROVE  Begins(r) \/ GoesOn(r)
  BY <1>1 DEF Begin, Go, Begins, GoesOn, TypeOK, userVars, sessionVars
<1>2. ASSUME NEW q \in Requests, ReadSession(q) PROVE GoesOn(r)
  BY <1>2 DEF ReadSession, Go, GoesOn, TypeOK, Running
<1>3. ASSUME NEW q \in Requests, ReadUser(q) PROVE GoesOn(r)
  BY <1>3 DEF ReadUser, Exists, Owner, Go, GoesOn, TypeOK, Running
<1>4. ASSUME NEW q \in Requests, CheckRole(q) PROVE GoesOn(r)
  <2>1. TaskOf(q).do \in {"create", "update", "delete"}
    BY <1>4 DEF CheckRole, TasksAreFollowed
  <2>2. LET to == [create |-> "insert", update |-> "read",
                   delete |-> "delete"][TaskOf(q).do]
        IN  \/ TaskOf(q).do = "create" /\ to = "insert"
            \/ TaskOf(q).do = "update" /\ to = "read"
            \/ TaskOf(q).do = "delete" /\ to = "delete"
    BY <2>1
  <2>3. \/ IsAdmin(copy[q])
           /\ \/ TaskOf(q).do = "create" /\ pc' = [pc EXCEPT ![q] = "insert"]
              \/ TaskOf(q).do = "update" /\ pc' = [pc EXCEPT ![q] = "read"]
              \/ TaskOf(q).do = "delete" /\ pc' = [pc EXCEPT ![q] = "delete"]
        \/ pc' = [pc EXCEPT ![q] = "forbidden"]
    BY <1>4, <2>2 DEF CheckRole, Go
  <2> QED
    BY <1>4, <2>3 DEF CheckRole, IsAdmin, GoesOn, TypeOK, Running
<1>5. ASSUME NEW q \in Requests, InsertUser(q) PROVE GoesOn(r)
  BY <1>5 DEF InsertUser, Go, GoesOn, TypeOK, Running
<1>6. ASSUME NEW q \in Requests, ReadForUpdate(q) PROVE GoesOn(r)
  BY <1>6 DEF ReadForUpdate, Go, GoesOn, TypeOK, Running
<1>7. ASSUME NEW q \in Requests, WriteUpdate(q) PROVE GoesOn(r)
  BY <1>7 DEF WriteUpdate, Go, GoesOn, TypeOK, Running
<1>8. ASSUME NEW q \in Requests, DeleteUser(q) PROVE GoesOn(r)
  BY <1>8 DEF DeleteUser, Go, GoesOn, TypeOK, Running
<1>9. CASE Crash
  BY <1>9 DEF Crash, GoesOn, TypeOK
<1>10. CASE UNCHANGED requestVars
  BY <1>10 DEF requestVars, GoesOn
<1>11. \/ UNCHANGED requestVars \/ Crash
       \/ \E q \in Requests : Step(q) \/ \E s \in Sessions, task \in Task : Begin(q, s, task)
  BY DEF Next, Authenticate, SaveSession, SaveTooLate, RecordLogin, Logout, Tick, vars
<1> QED
  BY <1>1, <1>2, <1>3, <1>4, <1>5, <1>6, <1>7, <1>8, <1>9, <1>10, <1>11 DEF Step

\* A step either changes no user and may end requests, or all running requests
\* see the admins after it; what they have seen they remember.
LEMMA AdminsChange ==
    ASSUME TypeOK, [Next]_vars, NEW r \in Requests
    PROVE  /\ admins[r] \subseteq admins'[r]
           /\ pc'[r] \in Running =>
                 Admins' \subseteq admins'[r] \/ (pc[r] \in Running /\ users' = users)
<1>1. CASE Witness
  BY <1>1 DEF Witness, TypeOK
<1>2. CASE UNCHANGED <<users, pc, admins>>
  BY <1>2
<1>3. CASE Crash
  BY <1>3 DEF Crash, Running, TypeOK, userVars
<1>4. ASSUME NEW q \in Requests, ReadSession(q) \/ ReadUser(q) \/ CheckRole(q) \/ ReadForUpdate(q)
      PROVE  /\ admins' = admins /\ users' = users
             /\ pc'[r] \in Running => pc[r] \in Running
  BY <1>4 DEF ReadSession, ReadUser, CheckRole, ReadForUpdate, Go, TypeOK, userVars, Running
<1> QED
  BY <1>1, <1>2, <1>3, <1>4
     DEF Next, Step, Authenticate, SaveSession, SaveTooLate, RecordLogin, Logout, Begin,
         InsertUser, WriteUpdate, DeleteUser, Tick, vars, userVars, requestVars, sessionVars

-----------------------------------------------------------------------------
(***************************************************************************)
(* The invariant holds at the start, and every step keeps it.              *)
(***************************************************************************)

\* TypeOK at the start.
LEMMA TypeInit == Init => TypeOK
<1> SUFFICES ASSUME Init PROVE TypeOK
  OBVIOUS
<1>1. (CHOOSE s \in Sessions : TRUE) \in Sessions
  BY NonEmptyAssumption
<1>2. [do |-> "page"] \in Task
  BY DEF Task
<1>3. req \in [Requests -> [session : Sessions, task : Task, began : Nat,
                            gone : SUBSET Users, out : SUBSET Sessions]]
  BY <1>1, <1>2 DEF Init
<1> QED
  BY <1>3, UsersAssumption DEF Init, TypeOK

\* The documents that requests write are documents.
LEMMA DocumentsAreUsers ==
    ASSUME TypeOK, TasksAreFollowed, NEW r \in Requests
    PROVE  /\ pc[r] = "insert" => NewUser(r) \in User
           /\ pc[r] = "write" => Updated(r) \in User /\ TaskOf(r).target \in Users
<1>1. ASSUME pc[r] = "insert" PROVE NewUser(r) \in User
  BY <1>1, RequestType DEF TasksAreFollowed, NewUser, User
<1>2. ASSUME pc[r] = "write" PROVE Updated(r) \in User /\ TaskOf(r).target \in Users
  <2>1. copy[r] \in User
    BY <1>2 DEF TasksAreFollowed, TypeOK
  <2> QED
    BY <1>2, <2>1, RequestType DEF TasksAreFollowed, Updated, User
<1> QED
  BY <1>1, <1>2

\* The user of a request is a user.
LEMMA OwnerType ==
    ASSUME TypeOK, SessionsAreOpened, BeginningStays, NEW r \in Requests, pc[r] # "idle"
    PROVE  /\ Owner(r) \in Users /\ Owner(r) \in born
           /\ opened[req[r].session] \in Session
           /\ req[r].session \in Sessions
BY RequestType DEF BeginningStays, SessionsAreOpened, Owner, TypeOK, Session

\* TypeOK, by a step.
LEMMA TypeStep ==
    ASSUME TypeOK, TasksAreFollowed, SessionsAreOpened, BeginningStays, [Next]_vars
    PROVE  TypeOK'
<1> USE DEF Succeeds, Fails
<1>1. ASSUME NEW s \in Sessions, NEW u \in Users, NEW password \in Passwords,
             Authenticate(s, u, password)
      PROVE  TypeOK'
  <2>1. NewSession(u) \in Session
    BY LifespanAssumption DEF NewSession, Session, TypeOK
  <2> QED
    BY <1>1, <2>1 DEF Authenticate, TypeOK, userVars, requestVars
<1>2. ASSUME NEW s \in Sessions, SaveSession(s) PROVE TypeOK'
  BY <1>2 DEF SaveSession, Stored, TypeOK, userVars, requestVars
<1>3. ASSUME NEW s \in Sessions, SaveTooLate(s) \/ RecordLogin(s) \/ Logout(s)
      PROVE  TypeOK'
  BY <1>3 DEF SaveTooLate, RecordLogin, Logout, Closed, TypeOK, userVars, requestVars
<1>4. ASSUME Witness PROVE admins' \in [Requests -> SUBSET Users]
  BY <1>4 DEF Witness, Admins, TypeOK
<1>5. ASSUME NEW r \in Requests, NEW s \in Sessions, NEW task \in Task, Begin(r, s, task)
      PROVE  TypeOK'
  <2>1. pc' \in [Requests -> {"idle"} \cup Running \cup Ended]
    BY <1>5 DEF Begin, Go, TypeOK, Running
  <2>2. [session |-> s, task |-> task, began |-> now,
         gone |-> {u \in Users : users[u] = NoUser}, out |-> logout]
        \in [session : Sessions, task : Task, began : Nat,
             gone : SUBSET Users, out : SUBSET Sessions]
    BY DEF TypeOK
  <2>3. req' \in [Requests -> [session : Sessions, task : Task, began : Nat,
                               gone : SUBSET Users, out : SUBSET Sessions]]
    BY <1>5, <2>2 DEF Begin, TypeOK
  <2> QED
    BY <1>4, <1>5, <2>1, <2>3 DEF Begin, TypeOK, userVars, sessionVars
<1>6. ASSUME NEW r \in Requests, Step(r)
      PROVE  pc' \in [Requests -> {"idle"} \cup Running \cup Ended] /\ faults' \in Nat
  <2>1. pc' \in [Requests -> {"idle"} \cup Running \cup Ended]
    <3>1. CASE CheckRole(r)
      <4>1. TaskOf(r).do \in {"create", "update", "delete"}
        BY <3>1 DEF CheckRole, TasksAreFollowed
      <4>2. [create |-> "insert", update |-> "read",
             delete |-> "delete"][TaskOf(r).do] \in Running
        BY <4>1 DEF Running
      <4> QED
        BY <3>1, <4>2 DEF CheckRole, Go, TypeOK, Ended
    <3> QED
      BY <1>6, <3>1 DEF Step, ReadSession, ReadUser, InsertUser, ReadForUpdate, WriteUpdate,
                        DeleteUser, Go, TypeOK, Running, Ended
  <2>2. faults' \in Nat
    BY <1>6 DEF Step, ReadSession, ReadUser, CheckRole, InsertUser, ReadForUpdate,
                WriteUpdate, DeleteUser, TypeOK
  <2> QED
    BY <2>1, <2>2
<1>7. ASSUME NEW r \in Requests, ReadSession(r) \/ CheckRole(r) PROVE TypeOK'
  BY <1>6, <1>7 DEF ReadSession, CheckRole, Step, TypeOK, userVars, sessionVars
<1>8. ASSUME NEW r \in Requests, ReadUser(r) PROVE TypeOK'
  <2>1. copy' \in [Requests -> User \cup {NoUser}]
    BY <1>8, OwnerType DEF ReadUser, Owner, TypeOK
  <2> QED
    BY <1>6, <1>8, <2>1 DEF ReadUser, Step, TypeOK, userVars, sessionVars
<1>9. ASSUME NEW r \in Requests, ReadForUpdate(r) PROVE TypeOK'
  <2>1. copy' \in [Requests -> User \cup {NoUser}]
    BY <1>9, RequestType DEF ReadForUpdate, TasksAreFollowed, TypeOK
  <2> QED
    BY <1>6, <1>9, <2>1 DEF ReadForUpdate, Step, TypeOK, userVars, sessionVars
<1>10. ASSUME NEW r \in Requests, InsertUser(r) PROVE TypeOK'
  <2>1. users' \in [Users -> User \cup {NoUser}] /\ born' \subseteq Users
    BY <1>10, DocumentsAreUsers DEF InsertUser, TypeOK, userVars
  <2> QED
    BY <1>4, <1>6, <1>10, <2>1 DEF InsertUser, Step, TypeOK, sessionVars
<1>11. ASSUME NEW r \in Requests, WriteUpdate(r) PROVE TypeOK'
  <2>1. users' \in [Users -> User \cup {NoUser}]
    BY <1>11, DocumentsAreUsers DEF WriteUpdate, TypeOK
  <2>2. changed' \subseteq [by : Requests, user : Users, was : User, is : User]
    <3>1. Updated(r) \in User /\ TaskOf(r).target \in Users
      BY <1>11, DocumentsAreUsers DEF WriteUpdate
    <3>2. users[TaskOf(r).target] \in User \cup {NoUser}
      BY <3>1 DEF TypeOK
    <3> QED
      BY <1>11, <3>1, <3>2 DEF WriteUpdate, TypeOK
  <2> QED
    BY <1>4, <1>6, <1>11, <2>1, <2>2 DEF WriteUpdate, Step, TypeOK, sessionVars
<1>12. ASSUME NEW r \in Requests, DeleteUser(r) PROVE TypeOK'
  <2>1. users' \in [Users -> User \cup {NoUser}]
    BY <1>12 DEF DeleteUser, WithoutUser, TypeOK
  <2> QED
    BY <1>4, <1>6, <1>12, <2>1 DEF DeleteUser, Step, TypeOK, sessionVars
<1>13. CASE Tick
  BY <1>13 DEF Tick, TypeOK, userVars, sessionVars, requestVars
<1>14. CASE Crash
  BY <1>14 DEF Crash, TypeOK, userVars, Running, Ended
<1>15. CASE UNCHANGED vars
  BY <1>15 DEF vars, TypeOK, userVars, sessionVars, requestVars
<1> QED
  BY <1>1, <1>2, <1>3, <1>5, <1>7, <1>8, <1>9, <1>10, <1>11, <1>12, <1>13, <1>14, <1>15
     DEF Next, Step

\* TasksAreFollowed, by a step.
LEMMA TasksStep ==
    ASSUME TypeOK, TasksAreFollowed, [Next]_vars PROVE TasksAreFollowed'
<1> SUFFICES ASSUME NEW r \in Requests
             PROVE  /\ pc'[r] \in {"role", "done"} =>
                          TaskOf(r)'.do \in {"create", "update", "delete"}
                    /\ pc'[r] = "insert" => TaskOf(r)'.do = "create"
                    /\ pc'[r] \in {"read", "write"} => TaskOf(r)'.do = "update"
                    /\ pc'[r] = "delete" => TaskOf(r)'.do = "delete"
                    /\ pc'[r] \in {"role", "write"} => copy'[r] # NoUser
  BY DEF TasksAreFollowed
<1>1. CASE Begins(r)
  BY <1>1 DEF Begins
<1>2. CASE GoesOn(r)
  BY <1>2, RequestType DEF GoesOn, TaskOf, TasksAreFollowed, Running
<1> QED
  BY <1>1, <1>2, RequestChange

\* StoredAreBorn, by a step.
LEMMA BornStep ==
    ASSUME TypeOK, StoredAreBorn, [Next]_vars PROVE StoredAreBorn'
BY UsersChange DEF UserChange, StoredAreBorn

\* SessionsAreOpened, by a step.
LEMMA SessionsStep ==
    ASSUME TypeOK, StoredAreBorn, SessionsAreOpened, [Next]_vars
    PROVE  SessionsAreOpened'
<1> SUFFICES ASSUME NEW s \in Sessions
             PROVE  /\ login'[s] # "none" => opened'[s] \in Session /\ opened'[s].user \in born'
                    /\ sessions'[s] # NoSession =>
                          sessions'[s] = opened'[s] /\ login'[s] # "none"
  BY DEF SessionsAreOpened
<1>1. ASSUME NEW u \in Users, users[u] # NoUser
      PROVE  NewSession(u) \in Session /\ NewSession(u).user \in born
  BY <1>1, LifespanAssumption DEF NewSession, Session, StoredAreBorn, TypeOK
<1>2. born \subseteq born'
  <2>1. CASE Users = {}
    BY <2>1 DEF TypeOK
  <2> QED
    BY <2>1, UsersChange
<1>3. LoginChange(s)
  BY LoginsChange
<1> QED
  BY <1>1, <1>2, <1>3 DEF LoginChange, SessionsAreOpened

\* LogoutsAreFinal, by a step.
LEMMA LogoutStep ==
    ASSUME TypeOK, TypeOK', LogoutsAreFinal, [Next]_vars PROVE LogoutsAreFinal'
<1> SUFFICES ASSUME NEW s \in logout'
             PROVE  login'[s] = "answered" /\ (s \notin lost' => sessions'[s] = NoSession)
  BY DEF LogoutsAreFinal
<1>1. s \in Sessions
  BY DEF TypeOK
<1> QED
  BY <1>1, LoginsChange DEF LoginChange, LogoutsAreFinal

\* Nobody gets the session of a begun request away from it.
LEMMA LoginStays ==
    ASSUME TypeOK, [Next]_vars, NEW s \in Sessions, login[s] = "answered"
    PROVE  login'[s] = "answered" /\ opened'[s] = opened[s]
BY LoginsChange DEF LoginChange

\* Deleted users stay deleted.
LEMMA GoneStay ==
    ASSUME TypeOK, [Next]_vars, NEW u \in born, users[u] = NoUser
    PROVE  users'[u] = NoUser
BY UsersChange DEF UserChange, TypeOK

\* BeginningStays, by a step.
LEMMA BeginningStep ==
    ASSUME TypeOK, TypeOK', TasksAreFollowed, SessionsAreOpened, BeginningStays, [Next]_vars
    PROVE  BeginningStays'
<1> SUFFICES ASSUME NEW r \in Requests, pc'[r] # "idle"
             PROVE  /\ login'[req'[r].session] = "answered"
                    /\ req'[r].began <= now'
                    /\ req'[r].out \subseteq logout'
                    /\ Owner(r)' \in req'[r].gone => users'[Owner(r)'] = NoUser
  BY DEF BeginningStays
<1>1. now <= now'
  BY DEF Next, Step, Authenticate, SaveSession, SaveTooLate, RecordLogin, Logout, Begin,
         ReadSession, ReadUser, CheckRole, InsertUser, ReadForUpdate, WriteUpdate,
         DeleteUser, Tick, Crash, vars, TypeOK
<1>2. logout \subseteq logout'
  BY LoginsChange DEF LoginChange, TypeOK
<1>3. CASE Begins(r)
  BY <1>3, RequestType DEF Begins, Owner, TypeOK
<1>4. CASE GoesOn(r)
  <2>1. pc[r] # "idle" /\ req'[r] = req[r]
    BY <1>4 DEF GoesOn, Running
  <2>2. /\ login'[req'[r].session] = "answered"
        /\ Owner(r)' = Owner(r)
    BY <2>1, LoginStays, OwnerType DEF BeginningStays, Owner
  <2>3. req'[r].began <= now' /\ req'[r].out \subseteq logout'
    BY <1>1, <1>2, <2>1, RequestType DEF BeginningStays, TypeOK
  <2>4. Owner(r)' \in req'[r].gone => users'[Owner(r)'] = NoUser
    BY <2>1, <2>2, OwnerType, GoneStay DEF BeginningStays
  <2> QED
    BY <2>2, <2>3, <2>4
<1> QED
  BY <1>3, <1>4, RequestChange

\* SessionWasLive, by a step.
LEMMA LiveStep ==
    ASSUME TypeOK, TypeOK', TasksAreFollowed, SessionsAreOpened, LogoutsAreFinal,
           BeginningStays, SessionWasLive, [Next]_vars
    PROVE  SessionWasLive'
<1> SUFFICES ASSUME NEW r \in Requests, pc'[r] = "user" \/ Passed(r)'
             PROVE  /\ req'[r].session \notin req'[r].out \ lost'
                    /\ req'[r].began < opened'[req'[r].session].deadline
  BY DEF SessionWasLive
<1>1. GoesOn(r) /\ pc[r] # "idle"
  BY RequestChange DEF Begins, GoesOn, Passed, Running
<1>2. /\ req'[r] = req[r] /\ req[r].session \in Sessions
      /\ opened'[req[r].session] = opened[req[r].session]
  BY <1>1, LoginStays, OwnerType DEF GoesOn, BeginningStays
<1>3. /\ req[r].session \notin req[r].out \ lost
      /\ req[r].began < opened[req[r].session].deadline
  <2>1. CASE pc[r] = "user" \/ Passed(r)
    BY <2>1 DEF SessionWasLive
  <2>2. CASE ~(pc[r] = "user" \/ Passed(r))
    <3>1. Live(req[r].session)
      BY <1>1, <2>2 DEF GoesOn, Passed, Running
    <3>2. sessions[req[r].session] = opened[req[r].session]
      BY <1>2, <3>1 DEF Live, SessionsAreOpened
    <3>3. req[r].session \notin req[r].out \ lost
      BY <1>1, <3>1 DEF Live, BeginningStays, LogoutsAreFinal
    <3>4. req[r].began < opened[req[r].session].deadline
      BY <1>1, <3>1, <3>2, OwnerType, RequestType
         DEF Live, BeginningStays, TypeOK, Session
    <3> QED
      BY <3>3, <3>4
  <2> QED
    BY <2>1, <2>2
<1>4. req[r].session \in lost => req[r].session \in lost'
  BY <1>2, LoginsChange DEF LoginChange
<1> QED
  BY <1>2, <1>3, <1>4

\* AdminsAreSeen, by a step.
LEMMA AdminsStep ==
    ASSUME TypeOK, TasksAreFollowed, SessionsAreOpened, BeginningStays, AdminsAreSeen,
           [Next]_vars
    PROVE  AdminsAreSeen'
<1> SUFFICES ASSUME NEW r \in Requests
             PROVE  /\ pc'[r] \in Running => Admins' \subseteq admins'[r]
                    /\ pc'[r] = "role" /\ copy'[r].role = "admin" => Owner(r)' \in admins'[r]
  BY DEF AdminsAreSeen
<1>1. ASSUME pc'[r] \in Running PROVE Admins' \subseteq admins'[r]
  <2>1. CASE pc[r] \in Running /\ users' = users
    <3>1. Admins' = Admins
      BY <2>1 DEF Admins
    <3> QED
      BY <2>1, <3>1, AdminsChange DEF AdminsAreSeen
  <2> QED
    BY <1>1, <2>1, AdminsChange
<1>2. ASSUME pc'[r] = "role", copy'[r].role = "admin" PROVE Owner(r)' \in admins'[r]
  <2>1. GoesOn(r) /\ pc[r] # "idle"
    BY <1>2, RequestChange DEF Begins, GoesOn, Running
  <2>2. Owner(r)' = Owner(r) /\ Owner(r) \in Users
    BY <2>1, LoginStays, OwnerType DEF GoesOn, BeginningStays, Owner
  <2>3. CASE pc[r] = "role" /\ copy'[r] = copy[r]
    BY <1>2, <2>2, <2>3, AdminsChange DEF AdminsAreSeen
  <2>4. CASE pc[r] = "user" /\ users[Owner(r)] # NoUser /\ copy'[r] = users[Owner(r)]
    <3>1. Owner(r) \in Admins
      BY <1>2, <2>2, <2>4 DEF Admins
    <3>2. Owner(r) \in admins[r]
      BY <2>4, <3>1 DEF AdminsAreSeen, Running
    <3> QED
      BY <2>2, <3>2, AdminsChange
  <2> QED
    BY <1>2, <2>1, <2>3, <2>4 DEF GoesOn, Running
<1> QED
  BY <1>1, <1>2

\* DeletedUserIsOut, by a step.
LEMMA DeletedStep ==
    ASSUME TypeOK, TasksAreFollowed, SessionsAreOpened, BeginningStays, DeletedUserIsOut,
           [Next]_vars
    PROVE  DeletedUserIsOut'
<1> SUFFICES ASSUME NEW r \in Requests, Passed(r)' PROVE Owner(r)' \notin req'[r].gone
  BY DEF DeletedUserIsOut
<1>1. GoesOn(r) /\ pc[r] # "idle"
  BY RequestChange DEF Begins, GoesOn, Passed, Running
<1>2. Owner(r)' = Owner(r) /\ req'[r] = req[r]
  BY <1>1, LoginStays, OwnerType DEF GoesOn, BeginningStays, Owner
<1>3. CASE Passed(r)
  BY <1>2, <1>3 DEF DeletedUserIsOut
<1>4. CASE users[Owner(r)] # NoUser
  BY <1>1, <1>2, <1>4 DEF BeginningStays
<1> QED
  BY <1>1, <1>3, <1>4 DEF GoesOn, Passed, Running

\* OnlyAdminsChangeUsers, by a step.
LEMMA OnlyAdminsStep ==
    ASSUME TypeOK, TasksAreFollowed, SessionsAreOpened, BeginningStays, AdminsAreSeen,
           OnlyAdminsChangeUsers, [Next]_vars
    PROVE  OnlyAdminsChangeUsers'
<1> SUFFICES ASSUME NEW r \in Requests,
                    pc'[r] \in {"insert", "read", "write", "delete", "done"}
             PROVE  Owner(r)' \in admins'[r]
  BY DEF OnlyAdminsChangeUsers
<1>1. GoesOn(r) /\ pc[r] # "idle"
  BY RequestChange DEF Begins, GoesOn, Running
<1>2. Owner(r)' = Owner(r)
  BY <1>1, LoginStays, OwnerType DEF GoesOn, BeginningStays, Owner
<1>3. Owner(r) \in admins[r]
  BY <1>1 DEF GoesOn, OnlyAdminsChangeUsers, AdminsAreSeen, Running
<1> QED
  BY <1>2, <1>3, AdminsChange

\* IInv is inductive.
LEMMA Inductive ==
    /\ Init => IInv
    /\ IInv /\ [Next]_vars => IInv'
<1>1. ASSUME Init PROVE IInv
  <2>1. StoredAreBorn
    BY <1>1 DEF Init, StoredAreBorn
  <2>2. TasksAreFollowed /\ BeginningStays /\ SessionWasLive /\ AdminsAreSeen
        /\ DeletedUserIsOut /\ OnlyAdminsChangeUsers
    BY <1>1 DEF Init, TasksAreFollowed, BeginningStays, SessionWasLive, AdminsAreSeen,
                DeletedUserIsOut, OnlyAdminsChangeUsers, Passed, Running
  <2>3. SessionsAreOpened /\ LogoutsAreFinal
    BY <1>1 DEF Init, SessionsAreOpened, LogoutsAreFinal
  <2> QED
    BY <1>1, <2>1, <2>2, <2>3, TypeInit DEF IInv
<1>2. ASSUME IInv, [Next]_vars PROVE IInv'
  <2> USE DEF IInv
  <2>1. TypeOK'
    BY <1>2, TypeStep
  <2>2. TasksAreFollowed' /\ StoredAreBorn' /\ SessionsAreOpened' /\ LogoutsAreFinal'
    BY <1>2, <2>1, TasksStep, BornStep, SessionsStep, LogoutStep
  <2>3. BeginningStays' /\ SessionWasLive'
    BY <1>2, <2>1, BeginningStep, LiveStep
  <2>4. AdminsAreSeen' /\ DeletedUserIsOut' /\ OnlyAdminsChangeUsers'
    BY <1>2, AdminsStep, DeletedStep, OnlyAdminsStep
  <2> QED
    BY <2>1, <2>2, <2>3, <2>4
<1> QED
  BY <1>1, <1>2

-----------------------------------------------------------------------------
\* The invariant of the sessions holds in every behaviour: types, and what ties
\* a request to the session, the user and the role that the guards read.
THEOREM InvariantHolds == Spec => []IInv
BY Inductive, PTL DEF Spec

\* RequireAuth lets no deleted user in, whose session is still stored.
THEOREM DeletedStayOut == Spec => []DeletedUserIsOut
<1>1. IInv => DeletedUserIsOut
  BY DEF IInv
<1> QED
  BY <1>1, InvariantHolds, PTL

\* Nobody is served after an answered logout that Redis did not refuse.
THEOREM LogoutIsFinal == Spec => []LoggedOutIsOut
<1>1. IInv => LoggedOutIsOut
  BY DEF IInv, SessionWasLive, LoggedOutIsOut
<1> QED
  BY <1>1, InvariantHolds, PTL

\* Nobody is served who came after the deadline of the session.
THEOREM SessionsEnd == Spec => []OldSessionIsOut
<1>1. IInv => OldSessionIsOut
  BY DEF IInv, SessionWasLive, OldSessionIsOut
<1> QED
  BY <1>1, InvariantHolds, PTL

\* RequireAdmin looks at a copy, but at one that was true since the request
\* came.
THEOREM AdminsOnly == Spec => []OnlyAdminsChangeUsers
<1>1. IInv => OnlyAdminsChangeUsers
  BY DEF IInv
<1> QED
  BY <1>1, InvariantHolds, PTL

\* No update, however slow, brings a deleted user back.
THEOREM DeletionIsFinal == Spec => DeletedForGood
<1>1. IInv /\ [Next]_vars => [\A u \in born : users[u] = NoUser => users'[u] = NoUser]_vars
  BY GoneStay DEF IInv
<1> QED
  BY <1>1, InvariantHolds, PTL DEF Spec, DeletedForGood

-----------------------------------------------------------------------------
(***************************************************************************)
(* The users are an atomic registry: every step is a step of               *)
(* AtomicRegistry, or one that AtomicRegistry does not see.                *)
(***************************************************************************)

\* A request that was begun keeps its operation.
LEMMA OpsStay ==
    ASSUME req' = req, \A r \in Requests : pc[r] = "idle" <=> pc'[r] = "idle"
    PROVE  RegistryOp' = RegistryOp
BY DEF RegistryOp, OpOf, TaskOf, NewUser, UserDoc

\* A request that goes on moves to the stage of its next operation.
LEMMA StageMoves ==
    ASSUME TypeOK, NEW r \in Requests, NEW where, Go(r, where)
    PROVE  RegistryAt' = [RegistryAt EXCEPT ![r] = StageOf(where)]
BY DEF TypeOK, Go, RegistryAt

\* Documents move with the users.
LEMMA DocsMove ==
    ASSUME TypeOK, NEW u \in Users, NEW user \in User \cup {NoUser},
           users' = [users EXCEPT ![u] = user]
    PROVE  RegistryDoc' = [RegistryDoc EXCEPT ![u] =
                             IF user = NoUser THEN Gone ELSE UserDoc(user)]
BY DEF TypeOK, RegistryDoc

\* A user who is there has a document.
LEMMA DocsExist ==
    ASSUME NEW u \in Users
    PROVE  /\ RegistryDoc[u] # Gone <=> users[u] # NoUser
           /\ users[u] # NoUser => RegistryDoc[u] = UserDoc(users[u])
BY DEF RegistryDoc, UserDoc, Gone

\* The operation of a request that was begun.
LEMMA OpIs ==
    ASSUME TypeOK, NEW r \in Requests, pc[r] # "idle"
    PROVE  /\ RegistryOp[r] = OpOf(r)
           /\ TaskOf(r).do = "create" =>
                 /\ OpOf(r).do = "create" /\ OpOf(r).ids = Users
                 /\ OpOf(r).doc = UserDoc(NewUser(r))
           /\ TaskOf(r).do = "update" =>
                 /\ OpOf(r).do = "update" /\ OpOf(r).id = TaskOf(r).target
                 /\ OpOf(r).fields = TaskOf(r).role
           /\ TaskOf(r).do = "delete" =>
                 OpOf(r).do = "delete" /\ OpOf(r).id = TaskOf(r).target
BY DEF RegistryOp, OpOf

\* A request begins: a call is invoked.
LEMMA BeginInvokes ==
    ASSUME TypeOK, TypeOK', NEW r \in Requests, NEW s \in Sessions,
           NEW task \in Task, Begin(r, s, task)
    PROVE  Registry!Invoke(r)
<1>1. /\ pc[r] = "idle" /\ Go(r, "session") /\ users' = users /\ born' = born
      /\ \A q \in Requests : q # r => req'[q] = req[q] /\ pc'[q] = pc[q]
      /\ TaskOf(r)' = task /\ pc'[r] = "session"
  BY DEF Begin, Go, TypeOK, TaskOf, userVars
<1>2. RegistryAt[r] = "none" /\ RegistryAt' = [RegistryAt EXCEPT ![r] = "open"]
  <2>1. StageOf("idle") = "none" /\ StageOf("session") = "open"
    BY DEF StageOf, Running
  <2> QED
    BY <1>1, <2>1, StageMoves DEF RegistryAt
<1>3. RegistryDoc' = RegistryDoc
  BY <1>1 DEF RegistryDoc
<1>4. OpOf(r)' \in Registry!Ops
  <2>1. CASE task.do = "create"
    <3>1. OpOf(r)' = [do |-> "create", ids |-> Users,
                      doc |-> [key |-> "user", fields |-> task.role]]
      BY <1>1, <2>1 DEF OpOf, UserDoc, NewUser
    <3>2. task.role \in Roles
      BY <2>1 DEF Task
    <3> QED
      BY <3>1, <3>2 DEF Registry!Ops, Registry!Docs
  <2>2. CASE task.do = "update"
    <3>1. OpOf(r)' = [do |-> "update", id |-> task.target, fields |-> task.role]
      BY <1>1, <2>2 DEF OpOf
    <3>2. task.role \in Roles /\ task.target \in Users
      BY <2>2 DEF Task
    <3> QED
      BY <3>1, <3>2 DEF Registry!Ops
  <2>3. CASE task.do = "delete"
    <3>1. OpOf(r)' = [do |-> "delete", id |-> task.target]
      BY <1>1, <2>3 DEF OpOf
    <3>2. task.target \in Users
      BY <2>3 DEF Task
    <3> QED
      BY <3>1, <3>2 DEF Registry!Ops
  <2>4. CASE task.do = "page"
    BY <1>1, <2>4 DEF OpOf, Registry!Ops
  <2>5. task.do \in {"page", "create", "update", "delete"}
    BY DEF Task
  <2> QED
    BY <2>1, <2>2, <2>3, <2>4, <2>5
<1>5. RegistryOp' = [RegistryOp EXCEPT ![r] = OpOf(r)']
  <2>1. \A q \in Requests : q # r => OpOf(q)' = OpOf(q)
    BY <1>1 DEF OpOf, TaskOf, NewUser, UserDoc
  <2> QED
    BY <1>1, <2>1 DEF RegistryOp
<1> QED
  BY <1>1, <1>2, <1>3, <1>4, <1>5 DEF Registry!Invoke

\* A request goes on with no user changed: its call is given up, or goes on
\* unseen.
LEMMA GoingOn ==
    ASSUME TypeOK, NEW r \in Requests, pc[r] \in Running,
           NEW where \in Running \cup {"served", "login", "forbidden", "failed"},
           Go(r, where), UNCHANGED <<users, born, req>>
    PROVE  [Registry!Next]_(Registry!vars)
<1>1. RegistryDoc' = RegistryDoc
  BY DEF RegistryDoc
<1>2. RegistryOp' = RegistryOp
  BY OpsStay DEF Go, TypeOK, Running
<1>3. RegistryAt' = [RegistryAt EXCEPT ![r] = StageOf(where)]
  BY StageMoves
<1>4. RegistryAt[r] = "open"
  BY DEF RegistryAt, StageOf, Running
<1>5. CASE where \in Running
  <2>1. StageOf(where) = "open"
    BY <1>5 DEF StageOf, Running
  <2>2. RegistryAt' = RegistryAt
    BY <1>3, <1>4, <2>1 DEF RegistryAt
  <2> QED
    BY <1>1, <1>2, <2>2 DEF Registry!vars
<1>6. CASE where \notin Running
  <2>1. StageOf(where) = "over"
    BY <1>6 DEF StageOf, Running
  <2>2. RegistryAt' = [q \in Requests |-> IF q \in {r} THEN "over" ELSE RegistryAt[q]]
    BY <1>3, <2>1 DEF RegistryAt
  <2>3. Registry!GiveUp({r})
    BY <1>1, <1>2, <2>2 DEF Registry!GiveUp, TypeOK
  <2> QED
    BY <1>4, <2>3 DEF Registry!Next
<1> QED
  BY <1>5, <1>6

\* A request writes a user: its call takes effect.
LEMMA TakesEffect ==
    ASSUME TypeOK, TasksAreFollowed, StoredAreBorn, NEW r \in Requests,
           NEW where \in {"done", "failed"}, Go(r, where), req' = req,
           \/ /\ pc[r] = "insert"
              /\ \E u \in Users \ born : /\ users' = [users EXCEPT ![u] = NewUser(r)]
                                         /\ born' = born \cup {u}
           \/ /\ pc[r] = "write" /\ born' = born
              /\ users[TaskOf(r).target] # NoUser
              /\ users' = [users EXCEPT ![TaskOf(r).target] = Updated(r)]
           \/ /\ pc[r] = "delete" /\ born' = born
              /\ users[TaskOf(r).target] # NoUser
              /\ users' = [users EXCEPT ![TaskOf(r).target] = NoUser]
    PROVE  Registry!Effect(r)
<1>1. pc[r] \in {"insert", "write", "delete"}
  OBVIOUS
<1>2. RegistryOp' = RegistryOp
  BY <1>1, OpsStay DEF Go, TypeOK
<1>3. RegistryAt[r] = "open"
  BY <1>1 DEF RegistryAt, StageOf, Running
<1>4. \E after \in {"applied", "ok", "over"} : RegistryAt' = [RegistryAt EXCEPT ![r] = after]
  <2>1. StageOf(where) \in {"applied", "ok", "over"}
    BY DEF StageOf, Running
  <2> QED
    BY <2>1, StageMoves
<1>5. CASE pc[r] = "insert"
  <2>1. PICK u \in Users \ born : /\ users' = [users EXCEPT ![u] = NewUser(r)]
                                  /\ born' = born \cup {u}
    BY <1>5
  <2>2. NewUser(r) \in User /\ NewUser(r) # NoUser
    BY <1>5, DocumentsAreUsers, NoneAssumption
  <2>3. RegistryDoc' = [RegistryDoc EXCEPT ![u] = UserDoc(NewUser(r))]
    BY <2>1, <2>2, DocsMove
  <2>4. /\ RegistryOp[r].do = "create" /\ RegistryOp[r].ids = Users
        /\ RegistryOp[r].doc = UserDoc(NewUser(r))
    BY <1>5, OpIs DEF TasksAreFollowed
  <2>5. Registry!Create(r)
    BY <2>1, <2>3, <2>4 DEF Registry!Create
  <2> QED
    BY <1>2, <1>3, <1>4, <2>5 DEF Registry!Effect
<1>6. CASE pc[r] = "write"
  <2> DEFINE u == TaskOf(r).target
  <2>1. /\ u \in Users /\ users[u] # NoUser /\ born' = born
        /\ users' = [users EXCEPT ![u] = Updated(r)]
        /\ Updated(r) \in User /\ Updated(r) # NoUser
    BY <1>6, DocumentsAreUsers, NoneAssumption
  <2>2. RegistryDoc' = [RegistryDoc EXCEPT ![u] = UserDoc(Updated(r))]
    BY <2>1, DocsMove
  <2>3. RegistryDoc[u] # Gone /\ RegistryDoc[u] = UserDoc(users[u])
    BY <2>1, DocsExist
  <2>4. /\ RegistryOp[r].do = "update" /\ RegistryOp[r].id = u
        /\ RegistryOp[r].fields = TaskOf(r).role
    BY <1>6, OpIs DEF TasksAreFollowed
  <2>5. UserDoc(Updated(r)) = [RegistryDoc[u] EXCEPT !.fields = RegistryOp[r].fields]
    BY <2>3, <2>4 DEF UserDoc, Updated
  <2>6. Registry!Update(r)
    BY <2>1, <2>2, <2>3, <2>4, <2>5 DEF Registry!Update
  <2> QED
    BY <1>2, <1>3, <1>4, <2>6 DEF Registry!Effect
<1>7. CASE pc[r] = "delete"
  <2> DEFINE u == TaskOf(r).target
  <2>1. TaskOf(r).do = "delete" /\ pc[r] # "idle"
    BY <1>7 DEF TasksAreFollowed
  <2>2. /\ u \in Users /\ users[u] # NoUser /\ born' = born
        /\ users' = [users EXCEPT ![u] = NoUser]
    BY <1>7, <2>1, RequestType
  <2>3. RegistryDoc' = [RegistryDoc EXCEPT ![u] = Gone] /\ RegistryDoc[u] # Gone
    BY <2>2, DocsMove, DocsExist
  <2>4. RegistryOp[r].do = "delete" /\ RegistryOp[r].id = u
    BY <2>1, OpIs
  <2>5. Registry!Delete(r)
    BY <2>2, <2>3, <2>4 DEF Registry!Delete
  <2> QED
    BY <1>2, <1>3, <1>4, <2>5 DEF Registry!Effect
<1> QED
  BY <1>1, <1>5, <1>6, <1>7

\* The process ends: every call that is under way is given up.
LEMMA CrashGivesUp ==
    ASSUME TypeOK, Crash PROVE Registry!Next
<1> DEFINE C == {r \in Requests : pc[r] \in Running}
<1>1. /\ pc' = [r \in Requests |-> IF pc[r] \in Running THEN "crashed" ELSE pc[r]]
      /\ users' = users /\ born' = born /\ req' = req
  BY DEF Crash, userVars
<1>2. RegistryDoc' = RegistryDoc /\ RegistryOp' = RegistryOp
  BY <1>1, OpsStay DEF RegistryDoc, Running
<1>3. RegistryAt' = [r \in Requests |-> IF r \in C THEN "over" ELSE RegistryAt[r]]
  BY <1>1 DEF RegistryAt, StageOf, Running
<1>4. C \in SUBSET {r \in Requests : RegistryAt[r] \in {"open", "applied"}}
  BY DEF RegistryAt, StageOf, Running
<1> QED
  BY <1>1, <1>2, <1>3, <1>4 DEF Registry!Next, Registry!GiveUp, TypeOK

\* Every step of the sessions is a step of the atomic registry, or none.
LEMMA StepIsAtomic ==
    ASSUME IInv, IInv', [Next]_vars PROVE [Registry!Next]_(Registry!vars)
<1>0. TypeOK /\ TypeOK' /\ TasksAreFollowed /\ StoredAreBorn
  BY DEF IInv
<1> USE <1>0
<1>1. ASSUME NEW r \in Requests, NEW s \in Sessions, NEW task \in Task, Begin(r, s, task)
      PROVE  Registry!Next
  BY <1>1, BeginInvokes DEF Registry!Next
<1>2. ASSUME NEW r \in Requests, ReadSession(r) \/ ReadUser(r) \/ ReadForUpdate(r)
      PROVE  [Registry!Next]_(Registry!vars)
  <2>1. /\ pc[r] \in Running /\ UNCHANGED <<users, born, req>>
        /\ \E where \in Running \cup {"served", "login", "forbidden", "failed"} : Go(r, where)
    BY <1>2 DEF ReadSession, ReadUser, ReadForUpdate, Running, userVars
  <2> QED
    BY <2>1, GoingOn
<1>3. ASSUME NEW r \in Requests, CheckRole(r) PROVE [Registry!Next]_(Registry!vars)
  <2>1. TaskOf(r).do \in {"create", "update", "delete"}
    BY <1>3 DEF CheckRole, TasksAreFollowed
  <2>2. [create |-> "insert", update |-> "read", delete |-> "delete"][TaskOf(r).do]
        \in Running
    BY <2>1 DEF Running
  <2>3. /\ pc[r] \in Running /\ UNCHANGED <<users, born, req>>
        /\ \E where \in Running \cup {"served", "login", "forbidden", "failed"} : Go(r, where)
    BY <1>3, <2>2 DEF CheckRole, Running, userVars
  <2> QED
    BY <2>3, GoingOn
<1>4. ASSUME NEW r \in Requests, InsertUser(r) PROVE [Registry!Next]_(Registry!vars)
  <2>1. pc[r] = "insert" /\ pc[r] \in Running /\ req' = req
    BY <1>4 DEF InsertUser, Running
  <2>2. PICK u \in Users \ born :
          \/ Go(r, "done") /\ users' = [users EXCEPT ![u] = NewUser(r)]
             /\ born' = born \cup {u}
          \/ Go(r, "failed") /\ users' = [users EXCEPT ![u] = NewUser(r)]
             /\ born' = born \cup {u}
          \/ Go(r, "failed") /\ users' = users /\ born' = born
    BY <1>4 DEF InsertUser, userVars
  <2>3. CASE Go(r, "failed") /\ users' = users /\ born' = born
    BY <2>1, <2>3, GoingOn
  <2>4. ASSUME NEW where \in {"done", "failed"}, Go(r, where),
               users' = [users EXCEPT ![u] = NewUser(r)], born' = born \cup {u}
        PROVE  Registry!Effect(r)
    BY <2>1, <2>4, TakesEffect
  <2> QED
    BY <2>2, <2>3, <2>4 DEF Registry!Next
<1>5. ASSUME NEW r \in Requests, WriteUpdate(r) PROVE [Registry!Next]_(Registry!vars)
  <2>1. pc[r] = "write" /\ pc[r] \in Running /\ req' = req /\ born' = born
    BY <1>5 DEF WriteUpdate, Running
  <2>2. CASE Go(r, "failed") /\ users' = users
    BY <2>1, <2>2, GoingOn
  <2>3. ASSUME NEW where \in {"done", "failed"}, Go(r, where),
               users[TaskOf(r).target] # NoUser,
               users' = [users EXCEPT ![TaskOf(r).target] = Updated(r)]
        PROVE  Registry!Effect(r)
    BY <2>1, <2>3, TakesEffect
  <2> QED
    BY <1>5, <2>2, <2>3 DEF WriteUpdate, Matches, Registry!Next
<1>6. ASSUME NEW r \in Requests, DeleteUser(r) PROVE [Registry!Next]_(Registry!vars)
  <2>1. pc[r] = "delete" /\ pc[r] \in Running /\ req' = req /\ born' = born
    BY <1>6 DEF DeleteUser, Running
  <2>2. CASE Go(r, "failed") /\ users' = users
    BY <2>1, <2>2, GoingOn
  <2>3. ASSUME NEW where \in {"done", "failed"}, Go(r, where),
               users[TaskOf(r).target] # NoUser,
               users' = [users EXCEPT ![TaskOf(r).target] = NoUser]
        PROVE  Registry!Effect(r)
    BY <2>1, <2>3, TakesEffect
  <2>4. users[TaskOf(r).target] = NoUser
           => [users EXCEPT ![TaskOf(r).target] = NoUser] = users
    BY DEF TypeOK
  <2> QED
    BY <1>6, <2>2, <2>3, <2>4 DEF DeleteUser, WithoutUser, Registry!Next
<1>7. CASE Crash
  BY <1>7, CrashGivesUp
<1>8. CASE UNCHANGED <<users, born, pc, req>>
  BY <1>8 DEF Registry!vars, RegistryDoc, RegistryOp, RegistryAt, OpOf, TaskOf, NewUser
<1>9. ASSUME NEW s \in Sessions,
             \/ \E u \in Users, password \in Passwords : Authenticate(s, u, password)
             \/ SaveSession(s) \/ SaveTooLate(s) \/ RecordLogin(s) \/ Logout(s)
      PROVE  UNCHANGED <<users, born, pc, req>>
  BY <1>9 DEF Authenticate, SaveSession, SaveTooLate, RecordLogin, Logout, userVars,
              requestVars
<1>10. Tick \/ UNCHANGED vars => UNCHANGED <<users, born, pc, req>>
  BY DEF Tick, vars, userVars, requestVars
<1> QED
  BY <1>1, <1>2, <1>3, <1>4, <1>5, <1>6, <1>7, <1>8, <1>9, <1>10 DEF Next, Step

\* Every admin call on a user takes effect on existence and role at one moment
\* between its invocation and its answer, or not at all, for any number of
\* users, requests, faults and crashes: the reads and writes of
\* services/user.go have an order that explains every answer.
THEOREM RegistryIsAtomic == Spec => ImplementsAtomicRegistry
<1>1. ASSUME Init PROVE Registry!Init
  <2>1. /\ pc = [r \in Requests |-> "idle"] /\ users = FirstUsers
        /\ born = {u \in Users : FirstUsers[u] # NoUser}
    BY <1>1 DEF Init
  <2>2. RegistryDoc \in [Users -> Registry!Docs \cup {Gone}]
    <3>1. ASSUME NEW u \in Users, users[u] # NoUser PROVE UserDoc(users[u]) \in Registry!Docs
      <4>1. users[u].role \in Roles
        BY <2>1, <3>1, UsersAssumption DEF User
      <4> QED
        BY <4>1 DEF UserDoc, Registry!Docs
    <3> QED
      BY <3>1 DEF RegistryDoc
  <2>3. born = {u \in Users : RegistryDoc[u] # Gone}
    BY <2>1, DocsExist
  <2>4. RegistryOp = [r \in Requests |-> Registry!NoOp]
    BY <2>1 DEF RegistryOp, Registry!NoOp
  <2>5. RegistryAt = [r \in Requests |-> "none"]
    <3>1. StageOf("idle") = "none"
      BY DEF StageOf, Running
    <3> QED
      BY <2>1, <3>1 DEF RegistryAt
  <2> QED
    BY <2>2, <2>3, <2>4, <2>5 DEF Registry!Init
<1>2. ASSUME IInv, IInv', [Next]_vars PROVE [Registry!Next]_(Registry!vars)
  BY <1>2, StepIsAtomic
<1> QED
  BY <1>1, <1>2, InvariantHolds, PTL DEF Spec, ImplementsAtomicRegistry, Registry!Spec

-----------------------------------------------------------------------------
(***************************************************************************)
(* When an update loses a password.  UpdateUser writes back the hash it    *)
(* read, so a password can be lost only to an update that runs between     *)
(* another's read and write of the same user.                              *)
(***************************************************************************)

\* No two updates of one user are between their read and their write.
UpdatesApart ==
    \A q, r \in Requests :
        pc[q] = "write" /\ pc[r] = "write" /\ TaskOf(q).target = TaskOf(r).target
            => q = r

\* As long as that is so, the hash an update has read is the stored one.
CopiesAreCurrent ==
    \A r \in Requests : pc[r] = "write" =>
        LET u == TaskOf(r).target IN
        u \in born /\ (users[u] # NoUser => copy[r].password = users[u].password)

\* What a change says is about a request that has begun.
ChangesAreBegun == \A c \in changed : pc[c.by] # "idle"

\* What an update without a password writes, while its copy is current.
LEMMA PasswordWritten ==
    ASSUME CopiesAreCurrent, NEW r \in Requests, pc[r] = "write",
           users[TaskOf(r).target] # NoUser, TaskOf(r).password = NoPassword
    PROVE  Updated(r).password = users[TaskOf(r).target].password
BY DEF CopiesAreCurrent, Updated

\* The copies stay current, if no update overlaps another.
LEMMA CopiesStep ==
    ASSUME IInv, UpdatesApart, CopiesAreCurrent, [Next]_vars
    PROVE  CopiesAreCurrent'
<1> SUFFICES ASSUME NEW r \in Requests, pc'[r] = "write"
             PROVE  /\ TaskOf(r)'.target \in born'
                    /\ users'[TaskOf(r)'.target] # NoUser =>
                          copy'[r].password = users'[TaskOf(r)'.target].password
  BY DEF CopiesAreCurrent
<1> DEFINE u == TaskOf(r).target
<1>1. GoesOn(r) /\ TypeOK /\ TasksAreFollowed
  BY RequestChange DEF IInv, Begins
<1>2. TaskOf(r)' = TaskOf(r) /\ pc[r] \in {"read", "write"}
  BY <1>1 DEF GoesOn, TaskOf, Running
<1>3. u \in Users
  BY <1>1, <1>2, RequestType DEF TasksAreFollowed
<1>4. born \subseteq born'
  BY <1>1, <1>3, UsersChange
<1>5. CASE pc[r] = "read"
  <2>1. ASSUME NEW q \in Requests,
               ReadSession(q) \/ ReadUser(q) \/ CheckRole(q) \/ InsertUser(q)
                 \/ WriteUpdate(q) \/ DeleteUser(q)
        PROVE  FALSE
    <3>1. CASE q = r
      BY <1>5, <2>1, <3>1 DEF ReadSession, ReadUser, CheckRole, InsertUser, WriteUpdate,
                              DeleteUser
    <3>2. CASE q # r
      BY <1>1, <1>5, <2>1, <3>2 DEF ReadSession, ReadUser, CheckRole, InsertUser,
                                    WriteUpdate, DeleteUser, Go, TypeOK
    <3> QED
      BY <3>1, <3>2
  <2>2. \E q \in Requests : ReadForUpdate(q)
    BY <1>1, <1>5, <2>1
       DEF Next, Step, Authenticate, SaveSession, SaveTooLate, RecordLogin, Logout, Begin,
           Go, Tick, Crash, vars, requestVars, TypeOK
  <2>3. ReadForUpdate(r)
    BY <1>1, <1>5, <2>2 DEF ReadForUpdate, Go, TypeOK
  <2>4. users[u] # NoUser /\ copy'[r] = users[u] /\ users' = users
    BY <1>1, <1>5, <2>3 DEF ReadForUpdate, Go, TypeOK, userVars
  <2>5. u \in born
    BY <1>3, <2>4 DEF IInv, StoredAreBorn
  <2> QED
    BY <1>2, <1>4, <2>4, <2>5
<1>6. CASE pc[r] = "write"
  <2>1. u \in born /\ (users[u] # NoUser => copy[r].password = users[u].password)
    BY <1>6 DEF CopiesAreCurrent
  <2>2. copy'[r] = copy[r]
    BY <1>1, <1>6 DEF GoesOn, Running
  <2>3. users'[u] \in {users[u], NoUser}
    <3>1. ASSUME NEW q \in Requests, InsertUser(q) PROVE users'[u] = users[u]
      BY <1>1, <1>3, <2>1, <3>1 DEF InsertUser, TypeOK, userVars
    <3>2. ASSUME NEW q \in Requests, WriteUpdate(q) PROVE users'[u] = users[u]
      <4>1. pc[q] = "write" /\ q # r
        BY <1>1, <1>6, <3>2 DEF WriteUpdate, Go, TypeOK
      <4>2. TaskOf(q).target # u
        BY <1>6, <4>1 DEF UpdatesApart
      <4> QED
        BY <1>1, <1>3, <3>2, <4>2 DEF WriteUpdate, TypeOK
    <3>3. ASSUME NEW q \in Requests, DeleteUser(q) PROVE users'[u] \in {users[u], NoUser}
      BY <1>1, <1>3, <3>3 DEF DeleteUser, WithoutUser, TypeOK
    <3>4. \/ UNCHANGED users
          \/ \E q \in Requests : InsertUser(q) \/ WriteUpdate(q) \/ DeleteUser(q)
      BY DEF Next, Step, Authenticate, SaveSession, SaveTooLate, RecordLogin, Logout,
             Begin, ReadSession, ReadUser, CheckRole, ReadForUpdate, Tick, Crash, vars,
             userVars
    <3> QED
      BY <3>1, <3>2, <3>3, <3>4
  <2> QED
    BY <1>2, <1>4, <2>1, <2>2, <2>3
<1> QED
  BY <1>2, <1>5, <1>6

\* A step keeps what is known of the changes.
LEMMA ChangesStep ==
    ASSUME IInv, IInv', CopiesAreCurrent, ChangesAreBegun, PasswordKeptUnlessGiven,
           [Next]_vars
    PROVE  ChangesAreBegun' /\ PasswordKeptUnlessGiven'
<1>1. TypeOK /\ TypeOK' /\ TasksAreFollowed
  BY DEF IInv
<1>2. ASSUME NEW r \in Requests, pc[r] # "idle" PROVE pc'[r] # "idle" /\ TaskOf(r)' = TaskOf(r)
  BY <1>1, <1>2, RequestChange DEF Begins, GoesOn, Running, TaskOf
<1>3. ASSUME NEW c \in changed', c \notin changed
      PROVE  /\ c.by \in Requests /\ pc[c.by] # "idle"
             /\ TaskOf(c.by).password = NoPassword => c.is.password = c.was.password
  <2>1. PICK r \in Requests : WriteUpdate(r)
    BY <1>3
       DEF Next, Step, Authenticate, SaveSession, SaveTooLate, RecordLogin, Logout, Begin,
           ReadSession, ReadUser, CheckRole, InsertUser, ReadForUpdate, DeleteUser, Tick,
           Crash, vars
  <2>2. /\ pc[r] = "write" /\ users[TaskOf(r).target] # NoUser
        /\ c = [by |-> r, user |-> TaskOf(r).target, was |-> users[TaskOf(r).target],
                is |-> Updated(r)]
    BY <1>3, <2>1 DEF WriteUpdate
  <2> QED
    BY <2>2, PasswordWritten
<1>4. ASSUME NEW c \in changed
      PROVE  /\ c.by \in Requests /\ pc[c.by] # "idle"
             /\ TaskOf(c.by).password = NoPassword => c.is.password = c.was.password
  BY <1>1 DEF TypeOK, ChangesAreBegun, PasswordKeptUnlessGiven
<1>5. ASSUME NEW c \in changed'
      PROVE  /\ pc'[c.by] # "idle"
             /\ TaskOf(c.by)'.password = NoPassword => c.is.password = c.was.password
  <2>1. /\ c.by \in Requests /\ pc[c.by] # "idle"
        /\ TaskOf(c.by).password = NoPassword => c.is.password = c.was.password
    BY <1>3, <1>4
  <2>2. pc'[c.by] # "idle" /\ req'[c.by].task = TaskOf(c.by)
    BY <1>2, <2>1 DEF TaskOf
  <2> QED
    BY <2>1, <2>2 DEF TaskOf
<1> QED
  BY <1>5 DEF ChangesAreBegun, PasswordKeptUnlessGiven, TaskOf

\* "Only update the password if a new one was provided" (services/user.go) is
\* true as long as no two updates of one user are between their read and
\* their write: whatever else runs, deletions, creations, logins or crashes,
\* the overlap of two updates is the only way to lose a password.
THEOREM PasswordLostByOverlapOnly == Spec /\ []UpdatesApart => []PasswordKeptUnlessGiven
<1> DEFINE PInv == CopiesAreCurrent /\ ChangesAreBegun /\ PasswordKeptUnlessGiven
<1>1. ASSUME Init PROVE PInv
  BY <1>1 DEF Init, CopiesAreCurrent, ChangesAreBegun, PasswordKeptUnlessGiven
<1>2. ASSUME IInv, IInv', UpdatesApart, PInv, [Next]_vars PROVE PInv'
  BY <1>2, CopiesStep, ChangesStep
<1>3. PInv => PasswordKeptUnlessGiven
  OBVIOUS
<1> HIDE DEF PInv
<1> QED
  BY <1>1, <1>2, <1>3, InvariantHolds, PTL DEF Spec

-----------------------------------------------------------------------------
(***************************************************************************)
(* A session is a lease.                                                   *)
(***************************************************************************)

\* Redis has no session before its login has saved it.
SavedByLogin ==
    \A s \in Sessions : login[s] \in {"none", "save"} => sessions[s] = NoSession

LEMMA SavedByLoginHolds == Spec => []SavedByLogin
<1>1. Init => SavedByLogin
  BY DEF Init, SavedByLogin
<1>2. IInv /\ SavedByLogin /\ [Next]_vars => SavedByLogin'
  <2> SUFFICES ASSUME IInv, SavedByLogin, [Next]_vars, NEW s \in Sessions,
                      login'[s] \in {"none", "save"}
               PROVE  sessions'[s] = NoSession
    BY DEF SavedByLogin
  <2>1. LoginChange(s)
    BY LoginsChange DEF IInv
  <2> QED
    BY <2>1 DEF LoginChange, SavedByLogin
<1> QED
  BY <1>1, <1>2, InvariantHolds, PTL DEF Spec

LEMMA UseIs ==
    ASSUME NEW w \in {"idle"} \cup Running \cup Ended
    PROVE  /\ UseOf(w) = "none" <=> w = "idle"
           /\ UseOf(w) = "asked" <=> w = "session"
           /\ UseOf(w) = "in" <=> w \in {"user", "role", "insert", "read", "write",
                                         "delete", "served", "done"}
           /\ UseOf(w) \in {"none", "asked", "in", "left"}
BY DEF UseOf, Running, Ended

\* What a handler's step leaves alone.
LEMMA HandlerFrame ==
    ASSUME TypeOK, NEW r \in Requests, Step(r)
    PROVE  /\ pc' = [pc EXCEPT ![r] = pc'[r]]
           /\ pc[r] \in Running
           /\ UNCHANGED <<now, sessionVars, req>>
<1>1. CASE ReadSession(r)
  BY <1>1 DEF ReadSession, Go, TypeOK, Running
<1>2. CASE ReadUser(r)
  BY <1>2 DEF ReadUser, Go, TypeOK, Running
<1>3. CASE CheckRole(r)
  BY <1>3 DEF CheckRole, Go, TypeOK, Running
<1>4. CASE InsertUser(r)
  BY <1>4 DEF InsertUser, Go, TypeOK, Running
<1>5. CASE ReadForUpdate(r)
  BY <1>5 DEF ReadForUpdate, Go, TypeOK, Running
<1>6. CASE WriteUpdate(r)
  BY <1>6 DEF WriteUpdate, Go, TypeOK, Running
<1>7. CASE DeleteUser(r)
  BY <1>7 DEF DeleteUser, Go, TypeOK, Running
<1> QED
  BY <1>1, <1>2, <1>3, <1>4, <1>5, <1>6, <1>7 DEF Step

\* A session that nothing saves ends or stays as it is.
LEMMA SessionMoves ==
    ASSUME IInv, SavedByLogin, [Next]_vars, NEW s \in Sessions,
           sessions'[s] \in {sessions[s], NoSession}, now' \in Nat, now <= now'
    PROVE  SessionState'[s] \in {SessionState[s], "over"}
<1>1. LoginChange(s)
  BY LoginsChange DEF IInv
<1>2. login[s] \in {"none", "save"} => sessions[s] = NoSession
  BY DEF SavedByLogin
<1>3. login[s] \notin {"none", "save"} => login'[s] \notin {"none", "save"}
  BY <1>1 DEF LoginChange
<1>4. sessions[s] # NoSession => sessions[s].deadline \in Nat
  BY DEF IInv, TypeOK, Session
<1>5. now \in Nat
  BY DEF IInv, TypeOK
<1> QED
  BY <1>2, <1>3, <1>4, <1>5 DEF SessionState, Live

\* The step of a handler: it goes on, is let in by a live session, or leaves.
LEMMA HandlerIsOfLease ==
    ASSUME IInv, NEW r \in Requests, Step(r)
    PROVE  [Abstract!Next]_(Abstract!vars)
<1>1. /\ pc' = [pc EXCEPT ![r] = pc'[r]] /\ pc[r] \in Running
      /\ UNCHANGED <<now, sessionVars, req>>
  BY HandlerFrame DEF IInv
<1>2. SessionState' = SessionState /\ SessionOf' = SessionOf
  BY <1>1 DEF SessionState, SessionOf, Live, sessionVars
<1>3. TypeOK'
  BY TypeStep DEF Next, IInv
<1>4. pc[r] \in {"idle"} \cup Running \cup Ended /\ pc'[r] \in {"idle"} \cup Running \cup Ended
  BY <1>3 DEF TypeOK, IInv
<1>5. SessionUse[r] = UseOf(pc[r]) /\ SessionUse' = [SessionUse EXCEPT ![r] = UseOf(pc'[r])]
  BY <1>1 DEF SessionUse, IInv, TypeOK
<1>6. SessionUse[r] \in {"asked", "in"}
  BY <1>1, <1>4, <1>5, UseIs DEF Running
<1>7. GoesOn(r)
  <2>1. Begins(r) \/ GoesOn(r)
    BY RequestChange DEF Next, IInv
  <2> QED
    BY <2>1, <1>1 DEF Begins, Running
<1>8. CASE UseOf(pc'[r]) = SessionUse[r]
  <2>1. SessionUse' = SessionUse
    BY <1>5, <1>8 DEF SessionUse
  <2> QED
    BY <1>2, <2>1 DEF Abstract!vars
<1>9. CASE UseOf(pc'[r]) = "left"
  <2>1. SessionUse' = [u \in Requests |-> IF u \in {r} THEN "left" ELSE SessionUse[u]]
    BY <1>5, <1>9 DEF SessionUse
  <2>2. Abstract!End({}, {r})
    BY <1>2, <1>6, <2>1 DEF Abstract!End, SessionState
  <2> QED
    BY <2>2 DEF Abstract!Next
<1>10. CASE UseOf(pc'[r]) = "in" /\ SessionUse[r] = "asked"
  <2>1. pc[r] = "session" /\ pc'[r] = "user" /\ Live(req[r].session)
    BY <1>4, <1>5, <1>7, <1>10, UseIs DEF GoesOn
  <2>2. SessionState[SessionOf[r]] = "live"
    BY <2>1, RequestType DEF SessionState, SessionOf, IInv
  <2>3. Abstract!Enter(r)
    BY <1>2, <1>5, <1>10, <2>2 DEF Abstract!Enter
  <2> QED
    BY <2>3 DEF Abstract!Next
<1>11. \/ UseOf(pc'[r]) = SessionUse[r] \/ UseOf(pc'[r]) = "left"
       \/ UseOf(pc'[r]) = "in" /\ SessionUse[r] = "asked"
  BY <1>1, <1>4, <1>5, <1>7, UseIs DEF GoesOn, Running
<1> QED
  BY <1>8, <1>9, <1>10, <1>11

\* The save of a login grants the lease, or ends it when Redis did not store
\* the session.
LEMMA SaveGrants ==
    ASSUME IInv, SavedByLogin, NEW s \in Sessions, SaveSession(s)
    PROVE  [Abstract!Next]_(Abstract!vars)
<1>1. /\ login[s] = "save" /\ login'[s] \in {"record", "failed"}
      /\ now < opened[s].deadline /\ opened[s] \in Session
      /\ sessions'[s] \in {sessions[s], opened[s]}
      /\ \A t \in Sessions \ {s} : login'[t] = login[t] /\ sessions'[t] = sessions[t]
      /\ UNCHANGED <<now, pc, req>>
  BY DEF SaveSession, Stored, IInv, TypeOK, SessionsAreOpened, requestVars
<1>2. UNCHANGED <<SessionUse, SessionOf>>
  BY <1>1 DEF SessionUse, SessionOf
<1>3. SessionState[s] = "none"
  BY <1>1 DEF SessionState, Live, SavedByLogin
<1>4. \A t \in Sessions \ {s} : SessionState'[t] = SessionState[t]
  BY <1>1 DEF SessionState, Live
<1>5. SessionState'[s] \in {"live", "over"}
  BY <1>1 DEF SessionState
<1>6. CASE SessionState'[s] = "live"
  <2>1. SessionState' = [SessionState EXCEPT ![s] = "live"]
    BY <1>4, <1>6 DEF SessionState
  <2>2. Abstract!Grant(s)
    BY <1>2, <1>3, <2>1 DEF Abstract!Grant
  <2> QED
    BY <2>2 DEF Abstract!Next
<1>7. CASE SessionState'[s] = "over"
  <2>1. SessionState' = [t \in Sessions |-> IF t \in {s} THEN "over" ELSE SessionState[t]]
    BY <1>4, <1>7 DEF SessionState
  <2>2. Abstract!End({s}, {})
    BY <1>2, <2>1 DEF Abstract!End, SessionUse
  <2> QED
    BY <2>2 DEF Abstract!Next
<1> QED
  BY <1>5, <1>6, <1>7

\* Every other step but that of a request: sessions end, and requests with the
\* process.
LEMMA OthersEnd ==
    ASSUME IInv, SavedByLogin, [Next]_vars, NEW U \in SUBSET Requests,
           \A s \in Sessions : sessions'[s] \in {sessions[s], NoSession},
           now' \in Nat, now <= now', req' = req,
           \A r \in U : pc[r] \in Running,
           pc' = [r \in Requests |-> IF r \in U THEN "crashed" ELSE pc[r]]
    PROVE  Abstract!Next
<1> DEFINE L == {s \in Sessions : SessionState'[s] = "over"}
<1>1. \A s \in Sessions : SessionState'[s] \in {SessionState[s], "over"}
  BY SessionMoves
<1>2. SessionState' = [s \in Sessions |-> IF s \in L THEN "over" ELSE SessionState[s]]
  BY <1>1 DEF SessionState
<1>3. SessionUse' = [r \in Requests |-> IF r \in U THEN "left" ELSE SessionUse[r]]
  BY DEF SessionUse, UseOf
<1>4. \A r \in U : SessionUse[r] # "none"
  BY UseIs DEF SessionUse, Running
<1>5. SessionOf' = SessionOf
  BY DEF SessionOf
<1>6. Abstract!End(L, U)
  BY <1>2, <1>3, <1>4, <1>5 DEF Abstract!End
<1> HIDE DEF L
<1>7. L \in SUBSET Sessions
  BY DEF L
<1> QED
  BY <1>6, <1>7 DEF Abstract!Next

\* Every step of Sessions is one of Lease or none.
LEMMA LeaseStep == IInv /\ SavedByLogin /\ [Next]_vars => [Abstract!Next]_(Abstract!vars)
<1> SUFFICES ASSUME IInv, SavedByLogin, [Next]_vars PROVE [Abstract!Next]_(Abstract!vars)
  OBVIOUS
<1>0. now \in Nat /\ pc \in [Requests -> {"idle"} \cup Running \cup Ended]
      /\ sessions \in [Sessions -> Session \cup {NoSession}]
  BY DEF IInv, TypeOK
<1>1. ASSUME NEW r \in Requests, NEW s \in Sessions, NEW task \in Task, Begin(r, s, task)
      PROVE  Abstract!Next
  <2>1. /\ pc[r] = "idle" /\ pc' = [pc EXCEPT ![r] = "session"]
        /\ UNCHANGED <<now, login, sessions>>
        /\ \A q \in Requests \ {r} : req'[q] = req[q]
        /\ req'[r].session = s
    BY <1>1 DEF Begin, Go, sessionVars, IInv, TypeOK
  <2>2. SessionState' = SessionState
    BY <2>1 DEF SessionState, Live
  <2>3. SessionUse[r] = "none" /\ SessionUse' = [SessionUse EXCEPT ![r] = "asked"]
    BY <1>0, <2>1 DEF SessionUse, UseOf
  <2>4. SessionOf' = [SessionOf EXCEPT ![r] = s]
    BY <2>1 DEF SessionOf
  <2>5. Abstract!Ask(r, s)
    BY <2>2, <2>3, <2>4 DEF Abstract!Ask
  <2> QED
    BY <2>5 DEF Abstract!Next
<1>2. ASSUME \A s \in Sessions : sessions'[s] \in {sessions[s], NoSession},
             now' \in Nat, now <= now', UNCHANGED <<pc, req>>
      PROVE  Abstract!Next
  <2>1. pc' = [r \in Requests |-> IF r \in {} THEN "crashed" ELSE pc[r]]
    BY <1>0, <1>2
  <2>2. {} \in SUBSET Requests /\ req' = req /\ \A r \in {} : pc[r] \in Running
    BY <1>2
  <2> QED
    BY <1>2, <2>1, <2>2, OthersEnd
<1>3. ASSUME NEW s \in Sessions,
             \/ \E u \in Users, password \in Passwords : Authenticate(s, u, password)
             \/ SaveTooLate(s) \/ RecordLogin(s)
      PROVE  Abstract!Next
  BY <1>0, <1>2, <1>3 DEF Authenticate, SaveTooLate, RecordLogin, requestVars
<1>4. ASSUME NEW s \in Sessions, Logout(s) PROVE Abstract!Next
  <2>1. \A t \in Sessions : sessions'[t] \in {sessions[t], NoSession}
    BY <1>0, <1>4 DEF Logout, Closed
  <2> QED
    BY <1>0, <1>2, <1>4, <2>1 DEF Logout, requestVars
<1>5. CASE Tick
  BY <1>0, <1>2, <1>5 DEF Tick, sessionVars, requestVars
<1>6. CASE UNCHANGED vars
  BY <1>0, <1>2, <1>6 DEF vars, sessionVars, requestVars
<1>7. CASE Crash
  <2> DEFINE U == {r \in Requests : pc[r] \in Running}
  <2>1. pc' = [r \in Requests |-> IF r \in U THEN "crashed" ELSE pc[r]]
        /\ UNCHANGED <<now, sessions, req>>
    BY <1>7 DEF Crash
  <2>2. U \in SUBSET Requests /\ \A r \in U : pc[r] \in Running
    OBVIOUS
  <2> HIDE DEF U
  <2> QED
    BY <1>0, <2>1, <2>2, OthersEnd
<1> QED
  BY <1>1, <1>3, <1>4, <1>5, <1>6, <1>7, SaveGrants, HandlerIsOfLease DEF Next

\* A session is a lease: every request past RequireAuth's first read is
\* explained by one moment after it came at which its session was live.
THEOREM SessionIsLease == Spec => ImplementsLease
<1>1. Init => Abstract!Init
  <2> SUFFICES ASSUME Init PROVE Abstract!Init
    OBVIOUS
  <2>1. SessionOf \in [Requests -> Sessions]
    BY TypeInit, RequestType DEF SessionOf
  <2> QED
    BY <2>1 DEF Init, Abstract!Init, SessionState, Live, SessionUse, UseOf
<1> QED
  BY <1>1, LeaseStep, InvariantHolds, SavedByLoginHolds, PTL
     DEF Spec, ImplementsLease, Abstract!Spec

\* A session that is over, by its logout or its age, opens nothing any more.
THEOREM SessionOverForGood == Spec => Abstract!OverForGood
<1> DEFINE A == Abstract!StaysOver /\ Abstract!NobodyEntersLate
<1>1. IInv /\ SavedByLogin /\ [Next]_vars => [A]_(Abstract!vars)
  <2> SUFFICES ASSUME Abstract!Next,
                      SessionState \in [Sessions -> {"none", "live", "over"}],
                      SessionUse \in [Requests -> {"none", "asked", "in", "left"}],
                      SessionOf \in [Requests -> Sessions]
               PROVE  A
    <3>1. SessionState \in [Sessions -> {"none", "live", "over"}]
      BY DEF SessionState
    <3>2. IInv => \A r \in Requests : pc[r] \in {"idle"} \cup Running \cup Ended
      BY DEF IInv, TypeOK
    <3>3. IInv => SessionUse \in [Requests -> {"none", "asked", "in", "left"}]
      BY <3>2, UseIs DEF SessionUse
    <3>4. IInv => SessionOf \in [Requests -> Sessions]
      BY RequestType DEF SessionOf, IInv
    <3> QED
      BY <3>1, <3>3, <3>4, LeaseStep
  <2>1. ASSUME NEW s \in Sessions, Abstract!Grant(s) PROVE A
    BY <2>1 DEF Abstract!Grant, Abstract!StaysOver, Abstract!NobodyEntersLate
  <2>2. ASSUME NEW L \in SUBSET Sessions, NEW U \in SUBSET Requests, Abstract!End(L, U) PROVE A
    BY <2>2 DEF Abstract!End, Abstract!StaysOver, Abstract!NobodyEntersLate
  <2>3. ASSUME NEW r \in Requests, Abstract!Enter(r) PROVE A
    BY <2>3 DEF Abstract!Enter, Abstract!StaysOver, Abstract!NobodyEntersLate
  <2>4. ASSUME NEW r \in Requests, NEW s \in Sessions, Abstract!Ask(r, s) PROVE A
    BY <2>4 DEF Abstract!Ask, Abstract!StaysOver, Abstract!NobodyEntersLate
  <2> QED
    BY <2>1, <2>2, <2>3, <2>4 DEF Abstract!Next
<1> QED
  BY <1>1, InvariantHolds, SavedByLoginHolds, PTL DEF Spec, Abstract!OverForGood

=============================================================================
