--------------------------- MODULE ClientRegistry ---------------------------
(***************************************************************************)
(* The clients, as the admin API keeps them: CreateClient inserts one and  *)
(* shows its secret once, UpdateClient reads a document, sets the fields   *)
(* of the call and writes the whole document back, DeleteClient removes    *)
(* it.  A creation is also recorded in the audit log, after the insert.    *)
(*                                                                         *)
(* The requests of several administrators run at the same time.  Nothing   *)
(* locks a document between the read and the write of an update, and       *)
(* nothing ties the audit log to the insert.                               *)
(***************************************************************************)
EXTENDS Naturals, FiniteSets

CONSTANTS
    Clients,    \* client_ids, one for each creation
    Requests,   \* requests that passed RequireAdmin
    Secrets,    \* one for each creation
    Uris, Scopes,
    NoClient, NoSecret,
    MaxFaults   \* bound: failed store operations and crashes

\* models.Client: the secret (by its hash), and two of the fields an update
\* sets.
Fields == [uri : Uris, scope : Scopes]
Client == [secret : Secrets, fields : Fields]

ASSUME NoneAssumption == NoClient \notin Client /\ NoSecret \notin Secrets
ASSUME NonEmptyAssumption == Clients # {} /\ Uris # {} /\ Scopes # {}
ASSUME BoundAssumption == MaxFaults \in Nat

VARIABLES
    faults,
    clients, \* Clients -> document
    audit,   \* clients with a CLIENT_CREATED event
    pc,      \* Requests -> next operation or the answer
    req,     \* Requests -> task, and the secret a creation draws
    copy,    \* Requests -> the document an update read
    lost     \* creations whose audit record failed

vars == <<faults, clients, audit, pc, req, copy, lost>>

Task == [do : {"create", "update"}, client : Clients, fields : Fields]
        \cup [do : {"delete"}, client : Clients]

Running == {"insert", "record", "read", "write", "remove"}
Ended   == {"created", "updated", "deleted", "failed", "crashed"}

TypeOK ==
    /\ faults \in Nat
    /\ clients \in [Clients -> Client \cup {NoClient}]
    /\ audit \subseteq Clients /\ lost \subseteq Requests
    /\ pc \in [Requests -> {"idle"} \cup Running \cup Ended]
    /\ req \in [Requests -> [task : Task, secret : Secrets \cup {NoSecret}]]
    /\ copy \in [Requests -> Client \cup {NoClient}]

Init ==
    /\ faults = 0
    /\ clients = [c \in Clients |-> NoClient]
    /\ audit = {} /\ lost = {}
    /\ pc = [r \in Requests |-> "idle"]
    /\ req = [r \in Requests |->
                [task |-> CHOOSE task \in Task : TRUE, secret |-> NoSecret]]
    /\ copy = [r \in Requests |-> NoClient]

Succeeds == faults' = faults
Fails    == faults < MaxFaults /\ faults' = faults + 1

Do(r)     == req[r].task.do
Target(r) == req[r].task.client
Go(r, where) == pc' = [pc EXCEPT ![r] = where]

\* Mutant: the creation is recorded before it is stored, and then answered.
RecordsFirst(do) ==
    [create |-> "record", update |-> "read", delete |-> "remove"][do]

\* A task and its first operation.
First(do) == [create |-> "insert", update |-> "read", delete |-> "remove"][do]

\* Ids and secrets are random: no two creations draw the same ones, and the
\* other tasks name a client that somebody created.
Begin(r, task) ==
    /\ pc[r] = "idle"
    /\ LET creations == {s \in Requests : pc[s] # "idle" /\ Do(s) = "create"}
           known == {Target(s) : s \in creations}
       IN /\ task.do = "create" <=> task.client \notin known
          /\ \E secret \in Secrets \ {req[s].secret : s \in creations} :
                req' = [req EXCEPT ![r] =
                          [task |-> task,
                           secret |-> IF task.do = "create" THEN secret
                                                            ELSE NoSecret]]
    /\ Go(r, First(task.do))
    /\ UNCHANGED <<faults, clients, audit, copy, lost>>

\* The document CreateClient makes.
NewClient(r) == [secret |-> req[r].secret, fields |-> req[r].task.fields]

Inserted(r) == [clients EXCEPT ![Target(r)] = NewClient(r)]

\* CreateClient: the insert.
Insert(r) ==
    /\ pc[r] = "insert"
    /\ \/ Succeeds /\ clients' = Inserted(r) /\ Go(r, "record")
       \/ Fails /\ clients' \in {clients, Inserted(r)} /\ Go(r, "failed")
    /\ UNCHANGED <<audit, req, copy, lost>>

\* AuditService.Record: one event more.
Recorded(r) == audit \cup {Target(r)}

\* AdminHandler.CreateClient: the audit record, whose error is dropped, and
\* the answer with the secret.
Record(r) ==
    /\ pc[r] = "record"
    /\ \/ Succeeds /\ audit' = Recorded(r) /\ UNCHANGED lost
       \/ /\ Fails
          /\ audit' \in {audit, Recorded(r)}
          /\ lost' = lost \cup {r}
    /\ Go(r, "created")
    /\ UNCHANGED <<clients, req, copy>>

\* GetByClientID finds a document.
Exists(c) == clients[c] # NoClient

\* UpdateClient: the read.
Read(r) ==
    /\ pc[r] = "read"
    /\ \/ /\ Succeeds /\ Exists(Target(r))
          /\ copy' = [copy EXCEPT ![r] = clients[Target(r)]]
          /\ Go(r, "write")
       \/ /\ Succeeds /\ ~Exists(Target(r))
          /\ Go(r, "failed") /\ UNCHANGED copy
       \/ Fails /\ Go(r, "failed") /\ UNCHANGED copy
    /\ UNCHANGED <<clients, audit, req, lost>>

\* Mutant: the scopes of the call are ignored.
ScopeKept(r) == [copy[r] EXCEPT !.fields.uri = req[r].task.fields.uri]

\* The document an update writes: what it read, with the fields of the call.
Updated(r) == [copy[r] EXCEPT !.fields = req[r].task.fields]

\* Mutant: ReplaceOne inserts what it does not find.
Upserts(c) == TRUE

Matches(c) == clients[c] # NoClient

\* UpdateClient: the write, matched by client_id.
Write(r) ==
    LET c == Target(r)
        replaced == [clients EXCEPT ![c] = Updated(r)]
    IN
    /\ pc[r] = "write"
    /\ \/ Succeeds /\ Matches(c) /\ clients' = replaced /\ Go(r, "updated")
       \/ Fails /\ Matches(c) /\ clients' = replaced /\ Go(r, "failed")
       \/ Succeeds /\ ~Matches(c) /\ UNCHANGED clients /\ Go(r, "failed")
       \/ Fails /\ UNCHANGED clients /\ Go(r, "failed")
    /\ UNCHANGED <<audit, req, copy, lost>>

Removed(c) == [clients EXCEPT ![c] = NoClient]

\* DeleteClient.
Remove(r) ==
    LET c == Target(r) IN
    /\ pc[r] = "remove"
    /\ \/ Succeeds /\ Exists(c) /\ clients' = Removed(c) /\ Go(r, "deleted")
       \/ Succeeds /\ ~Exists(c) /\ UNCHANGED clients /\ Go(r, "failed")
       \/ Fails /\ clients' \in {clients, Removed(c)} /\ Go(r, "failed")
    /\ UNCHANGED <<audit, req, copy, lost>>

Crash ==
    /\ Fails
    /\ \E r \in Requests : pc[r] \in Running
    /\ pc' = [r \in Requests |-> IF pc[r] \in Running THEN "crashed" ELSE pc[r]]
    /\ UNCHANGED <<clients, audit, req, copy, lost>>

Next ==
    \/ \E r \in Requests :
          \/ \E task \in Task : Begin(r, task)
          \/ Insert(r) \/ Record(r)
          \/ Read(r) \/ Write(r)
          \/ Remove(r)
    \/ Crash

Spec == Init /\ [][Next]_vars

-----------------------------------------------------------------------------
(***************************************************************************)
(* Properties.                                                             *)
(***************************************************************************)
Creation(c) == {r \in Requests : pc[r] # "idle" /\ Do(r) = "create" /\ Target(r) = c}

\* What is stored of a client is the secret that was shown at its creation
\* and, in all its fields, what one request asked for: overlapping updates
\* overwrite each other, but they neither mix nor touch the secret.
\* (UpdateClient reads a document and later writes all of it.)
StoredAsAsked ==
    \A c \in Clients : clients[c] # NoClient =>
        /\ \E r \in Creation(c) : clients[c].secret = req[r].secret
        /\ \E r \in Requests :
              /\ pc[r] # "idle" /\ Do(r) # "delete" /\ Target(r) = c
              /\ req[r].task.fields = clients[c].fields

\* Once a deletion was answered as done the client is gone for good, also when
\* an update that read its document before is still to write.  (Update does
\* not insert.)
DeletedForGood ==
    \A r \in Requests : pc[r] = "deleted" => clients[Target(r)] = NoClient

\* An administrator who is shown a secret has a client in the store, or one
\* that somebody deletes, and finds the creation in the audit log unless the
\* record was refused.
CreationsAreLogged ==
    \A r \in Requests : pc[r] = "created" =>
        /\ r \in lost \/ Target(r) \in audit
        /\ \/ clients[Target(r)] # NoClient
           \/ \E s \in Requests :
                 pc[s] # "idle" /\ Do(s) = "delete" /\ Target(s) = Target(r)

=============================================================================
