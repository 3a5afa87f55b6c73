---------------------------- MODULE UserRegistry ----------------------------
(***************************************************************************)
(* The admin calls on users as an AtomicRegistry, behind the checks of the *)
(* session, the user and the role: whatever those checks end in is a call  *)
(* that is given up.  A user is its role here.  The password is left out   *)
(* on purpose: an update without one writes back the hash it read, and is  *)
(* not atomic in it (PasswordKeptUnlessGiven).                             *)
(***************************************************************************)
EXTENDS Sessions

UserDoc(user) == [key |-> "user", fields |-> user.role]

OpOf(r) ==
    CASE TaskOf(r).do = "create" -> [do |-> "create", ids |-> Users,
                                     doc |-> UserDoc(NewUser(r))]
      [] TaskOf(r).do = "update" -> [do |-> "update", id |-> TaskOf(r).target,
                                     fields |-> TaskOf(r).role]
      [] TaskOf(r).do = "delete" -> [do |-> "delete", id |-> TaskOf(r).target]
      [] OTHER                   -> [do |-> "look"]

StageOf(where) ==
    CASE where = "idle"      -> "none"
      [] where \in Running   -> "open"
      [] where = "done"      -> "ok"
      [] OTHER               -> "over"

Gone == [key |-> "none"]

RegistryDoc ==
    [u \in Users |-> IF users[u] = NoUser THEN Gone ELSE UserDoc(users[u])]

RegistryOp ==
    [r \in Requests |-> IF pc[r] = "idle" THEN [do |-> "none"] ELSE OpOf(r)]

RegistryAt == [r \in Requests |-> StageOf(pc[r])]

Registry == INSTANCE AtomicRegistry WITH
    Ids <- Users, Calls <- Requests, Keys <- {"user"}, Fields <- Roles,
    NoDoc <- Gone,
    doc <- RegistryDoc, used <- born, op <- RegistryOp, at <- RegistryAt

\* Every admin call on a user takes effect on existence and role at one
\* moment, whatever other calls run at the same time and whatever fails: the
\* reads and writes of CreateUser, UpdateUser and DeleteUser
\* (services/user.go) can be put in one order that explains every answer, and
\* a deleted user never comes back.
ImplementsAtomicRegistry == Registry!Spec

=============================================================================
