------------------------ MODULE ClientRegistryProofs ------------------------
(***************************************************************************)
(* What the registry promises, for any number of clients, requests and     *)
(* faults.                                                                 *)
(***************************************************************************)
EXTENDS ClientRegistryAtomic, TLAPS

\* A request is where its task leads, and a creation has a secret.
TasksAreFollowed ==
    \A r \in Requests :
        /\ pc[r] # "idle" /\ Do(r) = "create" => req[r].secret \in Secrets
        /\ pc[r] \in {"insert", "record", "created"} => Do(r) = "create"
        /\ pc[r] \in {"read", "write", "updated"} => Do(r) = "update"
        /\ pc[r] \in {"remove", "deleted"} => Do(r) = "delete"

\* Every client that is asked for, or stored, was created by one request.
OneCreation ==
    /\ \A r \in Requests : pc[r] # "idle" => Creation(Target(r)) # {}
    /\ \A c \in Clients : clients[c] # NoClient => Creation(c) # {}
    /\ \A c \in Clients : \A r, s \in Creation(c) : r = s

\* Before its insert a client is not there, and nobody has deleted it.
InsertComesFirst ==
    \A r \in Requests : pc[r] = "insert" =>
        /\ clients[Target(r)] = NoClient
        /\ \A s \in Requests : pc[s] = "deleted" => Target(s) # Target(r)

\* The copy of an update has the secret of the creation.
CopiesRepeat ==
    \A r \in Requests : pc[r] = "write" =>
        /\ copy[r] # NoClient
        /\ \E s \in Creation(Target(r)) : copy[r].secret = req[s].secret

\* After its insert a client is there, or somebody deletes it.
StoredOrDeleted ==
    \A r \in Requests : pc[r] \in {"record", "created"} =>
        \/ clients[Target(r)] # NoClient
        \/ \E s \in Requests :
              pc[s] # "idle" /\ Do(s) = "delete" /\ Target(s) = Target(r)

IInv ==
    /\ TypeOK
    /\ TasksAreFollowed
    /\ OneCreation
    /\ InsertComesFirst
    /\ CopiesRepeat
    /\ StoredOrDeleted
    /\ StoredAsAsked
    /\ DeletedForGood
    /\ CreationsAreLogged

-----------------------------------------------------------------------------
(***************************************************************************)
(* What a step may change.                                                 *)
(***************************************************************************)

\* The document of a client stays, or goes with a deletion, or comes with its
\* creation, or is replaced by an update of it.
ClientChange(c) ==
    \/ clients'[c] = clients[c]
    \/ /\ clients'[c] = NoClient
       /\ \E r \in Requests : pc[r] = "remove" /\ Target(r) = c
    \/ \E r \in Requests :
          /\ pc[r] = "insert" /\ Target(r) = c /\ pc'[r] # "insert"
          /\ clients'[c] = NewClient(r)
    \/ \E r \in Requests :
          /\ pc[r] = "write" /\ Target(r) = c
          /\ clients[c] # NoClient /\ clients'[c] = Updated(r)

\* A request begins: of a client that somebody creates, or to create one.
Begins(r) ==
    /\ pc[r] = "idle" /\ copy'[r] = copy[r]
    /\ \/ req'[r].task.do = "create" /\ pc'[r] = "insert"
       \/ req'[r].task.do = "update" /\ pc'[r] = "read"
       \/ req'[r].task.do = "delete" /\ pc'[r] = "remove"
    /\ req'[r].task.do = "create" => req'[r].secret \in Secrets
    /\ req'[r].task.do = "create" <=> Creation(req'[r].task.client) = {}

\* A request goes on.
GoesOn(r) ==
    /\ req'[r] = req[r]
    /\ \/ pc'[r] = pc[r] /\ copy'[r] = copy[r]
       \/ pc[r] \in Running /\ pc'[r] \in {"failed", "crashed"}
       \/ pc[r] = "insert" /\ pc'[r] = "record" /\ clients'[Target(r)] = NewClient(r)
       \/ pc[r] = "record" /\ pc'[r] = "created" /\ (r \in lost' \/ Target(r) \in audit')
       \/ /\ pc[r] = "read" /\ pc'[r] = "write"
          /\ copy'[r] = clients[Target(r)] /\ copy'[r] # NoClient
       \/ pc[r] = "write" /\ pc'[r] = "updated"
       \/ /\ pc[r] = "remove" /\ pc'[r] = "deleted"
          /\ clients[Target(r)] # NoClient /\ clients'[Target(r)] = NoClient

\* The parts of a request's record.
LEMMA RequestType ==
    ASSUME TypeOK, NEW r \in Requests
    PROVE  /\ Target(r) \in Clients /\ req[r].secret \in Secrets \cup {NoSecret}
           /\ Do(r) \in {"create", "update", "delete"}
           /\ Do(r) # "delete" => req[r].task.fields \in Fields
BY DEF TypeOK, Task, Target, Do

\* The steps by their effect on documents.
LEMMA ClientsChange ==
    ASSUME TypeOK, [Next]_vars, NEW c \in Clients
    PROVE  ClientChange(c)
<1>1. ASSUME NEW r \in Requests, Insert(r) PROVE ClientChange(c)
  BY <1>1, RequestType DEF Insert, Inserted, Go, ClientChange, TypeOK
<1>2. ASSUME NEW r \in Requests, Write(r) PROVE ClientChange(c)
  BY <1>2, RequestType DEF Write, Matches, ClientChange, TypeOK
<1>3. ASSUME NEW r \in Requests, Remove(r) PROVE ClientChange(c)
  BY <1>3, RequestType DEF Remove, Removed, ClientChange, TypeOK
<1>4. \/ UNCHANGED clients
      \/ \E r \in Requests : Insert(r) \/ Write(r) \/ Remove(r)
  BY DEF Next, Begin, Record, Read, Crash, vars
<1> QED
  BY <1>1, <1>2, <1>3, <1>4 DEF ClientChange

\* The steps by their effect on a request.
LEMMA RequestChange ==
    ASSUME TypeOK, [Next]_vars, NEW r \in Requests
    PROVE  Begins(r) \/ GoesOn(r)
<1>1. ASSUME NEW s \in Requests, NEW task \in Task, Begin(s, task)
      PROVE  Begins(r) \/ GoesOn(r)
  <2>1. CASE r # s
    BY <1>1, <2>1 DEF Begin, Go, GoesOn, TypeOK
  <2>2. CASE r = s
    <3>1. /\ pc[r] = "idle" /\ copy' = copy
          /\ pc'[r] = First(task.do) /\ req'[r].task = task
          /\ task.do = "create" => req'[r].secret \in Secrets
      BY <1>1, <2>2 DEF Begin, Go, TypeOK
    <3>2. task.do = "create" <=> Creation(task.client) = {}
      BY <1>1 DEF Begin, Creation
    <3>3. \/ task.do = "create" /\ First(task.do) = "insert"
          \/ task.do = "update" /\ First(task.do) = "read"
          \/ task.do = "delete" /\ First(task.do) = "remove"
      BY DEF Task, First
    <3> QED
      BY <3>1, <3>2, <3>3 DEF Begins
  <2> QED
    BY <2>1, <2>2
<1>2. ASSUME NEW s \in Requests, Insert(s) PROVE GoesOn(r)
  BY <1>2, RequestType DEF Insert, Inserted, Go, GoesOn, TypeOK, Running
<1>3. ASSUME NEW s \in Requests, Record(s) PROVE GoesOn(r)
  BY <1>3 DEF Record, Recorded, Go, GoesOn, TypeOK
<1>4. ASSUME NEW s \in Requests, Read(s) PROVE GoesOn(r)
  BY <1>4 DEF Read, Exists, Go, GoesOn, TypeOK, Running
<1>5. ASSUME NEW s \in Requests, Write(s) PROVE GoesOn(r)
  BY <1>5 DEF Write, Go, GoesOn, TypeOK, Running
<1>6. ASSUME NEW s \in Requests, Remove(s) PROVE GoesOn(r)
  BY <1>6, RequestType DEF Remove, Removed, Exists, Go, GoesOn, TypeOK, Running
<1>7. CASE Crash
  BY <1>7 DEF Crash, GoesOn, TypeOK
<1>8. CASE UNCHANGED vars
  BY <1>8 DEF vars, GoesOn
<1> QED
  BY <1>1, <1>2, <1>3, <1>4, <1>5, <1>6, <1>7, <1>8 DEF Next

\* One request begins at a time, with a task and no secret but for a creation.
LEMMA OneBegins ==
    ASSUME TypeOK, [Next]_vars, NEW r \in Requests, NEW s \in Requests,
           pc[r] = "idle", pc'[r] # "idle", pc[s] = "idle", pc'[s] # "idle"
    PROVE  r = s
<1>1. ASSUME NEW q \in Requests, NEW task \in Task, Begin(q, task)
      PROVE  r = q /\ s = q
  BY <1>1 DEF Begin, Go, TypeOK
<1>2. \E q \in Requests, task \in Task : Begin(q, task)
  <2>1. ASSUME NEW q \in Requests, Insert(q) \/ Record(q) \/ Read(q) \/ Write(q) \/ Remove(q)
        PROVE  pc'[r] = pc[r]
    BY <2>1 DEF Insert, Record, Read, Write, Remove, Go, TypeOK
  <2>2. CASE Crash
    BY <2>2 DEF Crash, Running, TypeOK
  <2> QED
    BY <2>1, <2>2 DEF Next, vars
<1> QED
  BY <1>1, <1>2

\* The audit log and the lost records only grow.
LEMMA LogGrows == [Next]_vars => audit \subseteq audit' /\ lost \subseteq lost'
BY DEF Next, Begin, Insert, Record, Recorded, Read, Write, Remove, Crash, vars

-----------------------------------------------------------------------------
(***************************************************************************)
(* The invariant holds at the start, and every step keeps it.              *)
(***************************************************************************)

\* A request that was begun stays what it is.
LEMMA RequestsStay ==
    ASSUME TypeOK, [Next]_vars, NEW r \in Requests, pc[r] # "idle"
    PROVE  req'[r] = req[r] /\ pc'[r] # "idle"
BY RequestChange DEF Begins, GoesOn, Running

\* A creation stays one.
LEMMA CreationsStay ==
    ASSUME TypeOK, [Next]_vars, NEW c \in Clients, NEW r \in Creation(c)
    PROVE  r \in Creation(c)' /\ req'[r] = req[r]
BY RequestsStay DEF Creation, Do, Target

\* The documents a request writes are documents.
LEMMA DocumentsAreClients ==
    ASSUME TypeOK, TasksAreFollowed, CopiesRepeat, NEW r \in Requests
    PROVE  /\ pc[r] = "insert" => NewClient(r) \in Client
           /\ pc[r] = "write" =>
                 /\ Updated(r) \in Client
                 /\ Updated(r).secret = copy[r].secret
                 /\ Updated(r).fields = req[r].task.fields
<1>1. ASSUME pc[r] = "insert" PROVE NewClient(r) \in Client
  BY <1>1, RequestType DEF TasksAreFollowed, NewClient, Client
<1>2. ASSUME pc[r] = "write"
      PROVE  copy[r] \in Client /\ req[r].task.fields \in Fields
  BY <1>2, RequestType DEF CopiesRepeat, TasksAreFollowed, TypeOK
<1>3. ASSUME pc[r] = "write"
      PROVE  /\ Updated(r) \in Client
             /\ Updated(r).secret = copy[r].secret
             /\ Updated(r).fields = req[r].task.fields
  BY <1>2, <1>3 DEF Updated, Client
<1> QED
  BY <1>1, <1>3

\* TypeOK at the start.
LEMMA TypeInit == Init => TypeOK
<1> SUFFICES ASSUME Init PROVE TypeOK
  OBVIOUS
<1>1. Task # {}
  <2>1. PICK c \in Clients : TRUE
    BY NonEmptyAssumption
  <2>2. [do |-> "delete", client |-> c] \in Task
    BY DEF Task
  <2> QED
    BY <2>2
<1>2. (CHOOSE task \in Task : TRUE) \in Task
  BY <1>1
<1> QED
  BY <1>2, BoundAssumption DEF Init, TypeOK

\* TypeOK, by a step.
LEMMA TypeStep ==
    ASSUME TypeOK, TasksAreFollowed, CopiesRepeat, [Next]_vars
    PROVE  TypeOK'
<1>1. ASSUME NEW r \in Requests, NEW task \in Task, Begin(r, task) PROVE TypeOK'
  <2>1. First(task.do) \in Running
    BY DEF Task, First, Running
  <2>2. \E secret \in Secrets \cup {NoSecret} :
           req' = [req EXCEPT ![r] = [task |-> task, secret |-> secret]]
    BY <1>1 DEF Begin
  <2> QED
    BY <1>1, <2>1, <2>2 DEF Begin, Go, TypeOK
<1>2. ASSUME NEW r \in Requests, Insert(r) PROVE TypeOK'
  <2>1. NewClient(r) \in Client
    BY <1>2, DocumentsAreClients DEF Insert
  <2>2. clients' \in [Clients -> Client \cup {NoClient}]
    BY <1>2, <2>1 DEF Insert, Inserted, TypeOK
  <2>3. faults' \in Nat /\ pc' \in [Requests -> {"idle"} \cup Running \cup Ended]
    BY <1>2 DEF Insert, Go, TypeOK, Succeeds, Fails, Running, Ended
  <2> QED
    BY <1>2, <2>2, <2>3 DEF Insert, TypeOK
<1>3. ASSUME NEW r \in Requests, Record(r) PROVE TypeOK'
  BY <1>3, RequestType
     DEF Record, Recorded, Go, TypeOK, Succeeds, Fails, Running, Ended
<1>4. ASSUME NEW r \in Requests, Read(r) PROVE TypeOK'
  <2>1. copy' \in [Requests -> Client \cup {NoClient}]
    BY <1>4, RequestType DEF Read, TypeOK
  <2>2. faults' \in Nat /\ pc' \in [Requests -> {"idle"} \cup Running \cup Ended]
    BY <1>4 DEF Read, Go, TypeOK, Succeeds, Fails, Running, Ended
  <2> QED
    BY <1>4, <2>1, <2>2 DEF Read, TypeOK
<1>5. ASSUME NEW r \in Requests, Write(r) PROVE TypeOK'
  BY <1>5, DocumentsAreClients
     DEF Write, Go, TypeOK, Succeeds, Fails, Running, Ended
<1>6. ASSUME NEW r \in Requests, Remove(r) PROVE TypeOK'
  BY <1>6 DEF Remove, Removed, Go, TypeOK, Succeeds, Fails, Running, Ended
<1>7. CASE Crash
  BY <1>7 DEF Crash, TypeOK, Fails, Running, Ended
<1>8. CASE UNCHANGED vars
  BY <1>8 DEF vars, TypeOK
<1> QED
  BY <1>1, <1>2, <1>3, <1>4, <1>5, <1>6, <1>7, <1>8 DEF Next

\* TasksAreFollowed, by a step.
LEMMA TasksStep ==
    ASSUME TypeOK, TasksAreFollowed, [Next]_vars PROVE TasksAreFollowed'
<1> SUFFICES ASSUME NEW r \in Requests
             PROVE  /\ pc'[r] # "idle" /\ Do(r)' = "create" => req'[r].secret \in Secrets
                    /\ pc'[r] \in {"insert", "record", "created"} => Do(r)' = "create"
                    /\ pc'[r] \in {"read", "write", "updated"} => Do(r)' = "update"
                    /\ pc'[r] \in {"remove", "deleted"} => Do(r)' = "delete"
  BY DEF TasksAreFollowed
<1>1. CASE Begins(r)
  BY <1>1 DEF Begins, Do
<1>2. CASE GoesOn(r)
  BY <1>2 DEF GoesOn, Do, TasksAreFollowed, Running
<1> QED
  BY <1>1, <1>2, RequestChange

\* OneCreation, by a step.
LEMMA CreationStep ==
    ASSUME TypeOK, TypeOK', TasksAreFollowed, OneCreation, [Next]_vars
    PROVE  OneCreation'
<1>1. ASSUME NEW r \in Requests, pc'[r] # "idle" PROVE Creation(Target(r))' # {}
  <2>1. CASE pc[r] # "idle"
    BY <2>1, <1>1, RequestsStay, RequestType, CreationsStay DEF OneCreation, Target
  <2>2. CASE pc[r] = "idle"
    <3>1. Begins(r)
      BY <2>2, <1>1, RequestChange DEF GoesOn, Running
    <3>2. CASE req'[r].task.do = "create"
      BY <3>2, <1>1 DEF Creation, Do, Target
    <3>3. CASE req'[r].task.do # "create"
      <4>1. PICK s \in Creation(req'[r].task.client) : TRUE
        BY <3>1, <3>3 DEF Begins
      <4>2. req'[r].task.client \in Clients
        BY DEF TypeOK, Task
      <4> QED
        BY <4>1, <4>2, CreationsStay DEF Target
    <3> QED
      BY <3>2, <3>3
  <2> QED
    BY <2>1, <2>2
<1>2. ASSUME NEW c \in Clients, clients'[c] # NoClient PROVE Creation(c)' # {}
  <2>1. Creation(c) # {}
    BY <1>2, ClientsChange DEF ClientChange, OneCreation
  <2> QED
    BY <2>1, CreationsStay
<1>3. ASSUME NEW c \in Clients, NEW r \in Creation(c)', NEW s \in Creation(c)'
      PROVE  r = s
  <2>1. r \in Requests /\ s \in Requests /\ pc'[r] # "idle" /\ pc'[s] # "idle"
        /\ req'[r].task.client = c /\ req'[s].task.client = c
        /\ req'[r].task.do = "create" /\ req'[s].task.do = "create"
    BY DEF Creation, Do, Target
  <2>2. CASE pc[r] # "idle" /\ pc[s] # "idle"
    BY <2>1, <2>2, RequestsStay DEF Creation, Do, Target, OneCreation
  <2>3. CASE pc[r] = "idle" /\ pc[s] = "idle"
    BY <2>1, <2>3, OneBegins
  <2>4. ASSUME NEW q \in Requests, NEW p \in Requests, pc[q] = "idle", pc'[q] # "idle",
               pc[p] # "idle", req'[q].task.client = req'[p].task.client,
               Do(q)' = "create", Do(p)' = "create"
        PROVE  FALSE
    <3>1. Begins(q)
      BY <2>4, RequestChange DEF GoesOn, Running
    <3>2. Creation(req'[q].task.client) = {}
      BY <2>4, <3>1 DEF Begins, Do
    <3>3. p \in Creation(req'[q].task.client)
      BY <2>4, RequestsStay DEF Creation, Do, Target
    <3> QED
      BY <3>2, <3>3
  <2> QED
    BY <2>1, <2>2, <2>3, <2>4 DEF Do
<1> QED
  BY <1>1, <1>2, <1>3 DEF OneCreation

\* InsertComesFirst, by a step.
LEMMA InsertStep ==
    ASSUME TypeOK, TypeOK', TasksAreFollowed, OneCreation, InsertComesFirst, [Next]_vars
    PROVE  InsertComesFirst'
<1> SUFFICES ASSUME NEW r \in Requests, pc'[r] = "insert"
             PROVE  /\ clients'[Target(r)'] = NoClient
                    /\ \A s \in Requests : pc'[s] = "deleted" => Target(s)' # Target(r)'
  BY DEF InsertComesFirst
<1>1. CASE pc[r] = "insert"
  <2>1. Target(r)' = Target(r) /\ Target(r) \in Clients /\ r \in Creation(Target(r))
    BY <1>1, RequestsStay, RequestType DEF Target, Creation, TasksAreFollowed
  <2>2. ASSUME NEW s \in Requests, pc[s] = "insert", pc'[s] # "insert"
        PROVE  Target(s) # Target(r)
    BY <2>1, <2>2, RequestType DEF Creation, TasksAreFollowed, OneCreation
  <2>3. clients'[Target(r)] = NoClient
    BY <1>1, <2>1, <2>2, ClientsChange DEF ClientChange, InsertComesFirst
  <2>4. ASSUME NEW s \in Requests, pc'[s] = "deleted" PROVE Target(s)' # Target(r)'
    BY <1>1, <2>1, <2>4, RequestChange DEF Begins, GoesOn, InsertComesFirst, Target, Running
  <2> QED
    BY <2>1, <2>3, <2>4
<1>2. CASE pc[r] # "insert"
  <2>1. Begins(r) /\ req'[r].task.do = "create"
    BY <1>2, RequestChange DEF Begins, GoesOn, Running
  <2>2. Creation(Target(r)') = {} /\ Target(r)' \in Clients
    <3>1. Creation(req'[r].task.client) = {}
      BY <2>1 DEF Begins
    <3>2. req'[r].task.client \in Clients
      BY DEF TypeOK, Task
    <3> QED
      BY <3>1, <3>2 DEF Target
  <2>3. clients[Target(r)'] = NoClient
    BY <2>2 DEF OneCreation
  <2>4. ASSUME NEW s \in Requests, pc[s] # "idle" PROVE Target(s) # Target(r)'
    BY <2>2, <2>4 DEF OneCreation
  <2>5. clients'[Target(r)'] = NoClient
    BY <2>2, <2>3, <2>4, ClientsChange DEF ClientChange
  <2>6. ASSUME NEW s \in Requests, pc'[s] = "deleted" PROVE Target(s)' # Target(r)'
    BY <2>4, <2>6, RequestChange DEF Begins, GoesOn, Target, Running
  <2> QED
    BY <2>5, <2>6
<1> QED
  BY <1>1, <1>2

\* CopiesRepeat, by a step.
LEMMA CopiesStep ==
    ASSUME TypeOK, TasksAreFollowed, OneCreation, CopiesRepeat, StoredAsAsked, [Next]_vars
    PROVE  CopiesRepeat'
<1> SUFFICES ASSUME NEW r \in Requests, pc'[r] = "write"
             PROVE  /\ copy'[r] # NoClient
                    /\ \E s \in Creation(Target(r))' : copy'[r].secret = req'[s].secret
  BY DEF CopiesRepeat
<1>1. pc[r] # "idle"
  BY RequestChange DEF Begins, GoesOn, Running
<1>2. Target(r)' = Target(r) /\ Target(r) \in Clients
  BY <1>1, RequestsStay, RequestType DEF Target
<1>3. /\ copy'[r] # NoClient
      /\ \E s \in Creation(Target(r)) : copy'[r].secret = req[s].secret
  BY <1>1, <1>2, RequestChange
     DEF Begins, GoesOn, Running, CopiesRepeat, StoredAsAsked
<1>4. PICK s \in Creation(Target(r)) : copy'[r].secret = req[s].secret
  BY <1>3
<1>5. s \in Creation(Target(r))' /\ req'[s] = req[s]
  BY <1>2, <1>4, CreationsStay DEF Creation
<1> QED
  BY <1>3, <1>4, <1>5

\* StoredOrDeleted, by a step.
LEMMA StoredOrDeletedStep ==
    ASSUME TypeOK, TasksAreFollowed, CopiesRepeat, StoredOrDeleted, [Next]_vars
    PROVE  StoredOrDeleted'
<1> SUFFICES ASSUME NEW r \in Requests, pc'[r] \in {"record", "created"}
             PROVE  \/ clients'[Target(r)'] # NoClient
                    \/ \E s \in Requests :
                          /\ pc'[s] # "idle" /\ Do(s)' = "delete"
                          /\ Target(s)' = Target(r)'
  BY DEF StoredOrDeleted
<1>1. pc[r] # "idle" /\ Target(r)' = Target(r) /\ Target(r) \in Clients
  BY RequestChange, RequestsStay, RequestType DEF Begins, GoesOn, Running, Target
<1>2. CASE pc[r] \in {"record", "created"}
  <2>1. CASE clients[Target(r)] # NoClient /\ clients'[Target(r)] = NoClient
    <3>1. PICK s \in Requests : pc[s] = "remove" /\ Target(s) = Target(r)
      <4>1. ASSUME NEW s \in Requests, pc[s] = "insert" \/ pc[s] = "write"
            PROVE  /\ pc[s] = "insert" => NewClient(s) # NoClient
                   /\ pc[s] = "write" => Updated(s) # NoClient
        BY <4>1, DocumentsAreClients, NoneAssumption
      <4> QED
        BY <1>1, <2>1, <4>1, ClientsChange DEF ClientChange
    <3>2. pc'[s] # "idle" /\ Do(s)' = "delete" /\ Target(s)' = Target(r)
      BY <3>1, RequestsStay DEF TasksAreFollowed, Do, Target
    <3> QED
      BY <1>1, <3>2
  <2>2. CASE clients[Target(r)] = NoClient
    <3>1. PICK s \in Requests :
              pc[s] # "idle" /\ Do(s) = "delete" /\ Target(s) = Target(r)
      BY <1>2, <2>2 DEF StoredOrDeleted
    <3>2. pc'[s] # "idle" /\ Do(s)' = "delete" /\ Target(s)' = Target(r)
      BY <3>1, RequestsStay DEF Do, Target
    <3> QED
      BY <1>1, <3>2
  <2> QED
    BY <1>1, <2>1, <2>2
<1>3. CASE pc[r] \notin {"record", "created"}
  <2>1. pc[r] = "insert" /\ clients'[Target(r)] = NewClient(r)
    BY <1>1, <1>3, RequestChange DEF Begins, GoesOn, Running
  <2> QED
    BY <1>1, <2>1, DocumentsAreClients, NoneAssumption
<1> QED
  BY <1>2, <1>3

\* StoredAsAsked, by a step.
LEMMA StoredStep ==
    ASSUME TypeOK, TasksAreFollowed, CopiesRepeat, StoredAsAsked, [Next]_vars
    PROVE  StoredAsAsked'
<1> SUFFICES ASSUME NEW c \in Clients, clients'[c] # NoClient
             PROVE  /\ \E r \in Creation(c)' : clients'[c].secret = req'[r].secret
                    /\ \E r \in Requests :
                          /\ pc'[r] # "idle" /\ Do(r)' # "delete" /\ Target(r)' = c
                          /\ req'[r].task.fields = clients'[c].fields
  BY DEF StoredAsAsked
<1>1. ASSUME NEW r \in Requests, pc[r] # "idle", Do(r) # "delete", Target(r) = c,
             req[r].task.fields = clients'[c].fields,
             NEW s \in Creation(c), clients'[c].secret = req[s].secret
      PROVE  /\ \E q \in Creation(c)' : clients'[c].secret = req'[q].secret
             /\ \E q \in Requests :
                   /\ pc'[q] # "idle" /\ Do(q)' # "delete" /\ Target(q)' = c
                   /\ req'[q].task.fields = clients'[c].fields
  <2>1. s \in Creation(c)' /\ clients'[c].secret = req'[s].secret
    BY <1>1, CreationsStay
  <2>2. /\ pc'[r] # "idle" /\ Do(r)' # "delete" /\ Target(r)' = c
        /\ req'[r].task.fields = clients'[c].fields
    BY <1>1, RequestsStay DEF Do, Target
  <2> QED
    BY <2>1, <2>2
<1>2. CASE clients'[c] = clients[c]
  BY <1>1, <1>2 DEF StoredAsAsked
<1>3. ASSUME NEW r \in Requests, pc[r] = "insert", Target(r) = c,
             clients'[c] = NewClient(r)
      PROVE  /\ \E q \in Creation(c)' : clients'[c].secret = req'[q].secret
             /\ \E q \in Requests :
                   /\ pc'[q] # "idle" /\ Do(q)' # "delete" /\ Target(q)' = c
                   /\ req'[q].task.fields = clients'[c].fields
  <2>1. r \in Creation(c) /\ Do(r) = "create"
    BY <1>3 DEF Creation, TasksAreFollowed
  <2>2. /\ clients'[c].secret = req[r].secret
        /\ clients'[c].fields = req[r].task.fields
    BY <1>3 DEF NewClient
  <2> QED
    BY <1>1, <1>3, <2>1, <2>2
<1>4. ASSUME NEW r \in Requests, pc[r] = "write", Target(r) = c,
             clients'[c] = Updated(r)
      PROVE  /\ \E q \in Creation(c)' : clients'[c].secret = req'[q].secret
             /\ \E q \in Requests :
                   /\ pc'[q] # "idle" /\ Do(q)' # "delete" /\ Target(q)' = c
                   /\ req'[q].task.fields = clients'[c].fields
  <2>1. PICK s \in Creation(c) : copy[r].secret = req[s].secret
    BY <1>4 DEF CopiesRepeat
  <2>2. /\ clients'[c].secret = req[s].secret
        /\ clients'[c].fields = req[r].task.fields
    BY <1>4, <2>1, DocumentsAreClients
  <2>3. Do(r) = "update"
    BY <1>4 DEF TasksAreFollowed
  <2> QED
    BY <1>1, <1>4, <2>1, <2>2, <2>3
<1> QED
  BY <1>2, <1>3, <1>4, ClientsChange DEF ClientChange

\* DeletedForGood, by a step.
LEMMA DeletedStep ==
    ASSUME TypeOK, InsertComesFirst, DeletedForGood, [Next]_vars PROVE DeletedForGood'
<1> SUFFICES ASSUME NEW r \in Requests, pc'[r] = "deleted"
             PROVE  clients'[Target(r)'] = NoClient
  BY DEF DeletedForGood
<1>1. Target(r)' = Target(r) /\ Target(r) \in Clients
  BY RequestChange, RequestType DEF Begins, GoesOn, Target
<1>2. CASE pc[r] = "deleted"
  BY <1>1, <1>2, ClientsChange DEF ClientChange, DeletedForGood, InsertComesFirst
<1>3. CASE pc[r] # "deleted"
  BY <1>1, <1>3, RequestChange DEF Begins, GoesOn
<1> QED
  BY <1>2, <1>3

\* CreationsAreLogged, by a step.
LEMMA LoggedStep ==
    ASSUME TypeOK, CreationsAreLogged, StoredOrDeleted', [Next]_vars
    PROVE  CreationsAreLogged'
<1>1. ASSUME NEW r \in Requests, pc'[r] = "created"
      PROVE  r \in lost' \/ Target(r)' \in audit'
  <2>1. Target(r)' = Target(r)
    BY <1>1, RequestChange DEF Begins, GoesOn, Target
  <2>2. CASE pc[r] = "created"
    BY <2>1, <2>2, LogGrows DEF CreationsAreLogged
  <2>3. CASE pc[r] # "created"
    BY <1>1, <2>1, <2>3, RequestChange DEF Begins, GoesOn
  <2> QED
    BY <2>2, <2>3
<1> QED
  BY <1>1 DEF CreationsAreLogged, StoredOrDeleted

\* IInv is inductive.
LEMMA Inductive ==
    /\ Init => IInv
    /\ IInv /\ [Next]_vars => IInv'
<1>1. ASSUME Init PROVE IInv
  BY <1>1, TypeInit
     DEF Init, IInv, TasksAreFollowed, OneCreation, Creation, InsertComesFirst,
         CopiesRepeat, StoredOrDeleted, StoredAsAsked, DeletedForGood, CreationsAreLogged
<1>2. ASSUME IInv, [Next]_vars PROVE IInv'
  <2>1. TypeOK'
    BY <1>2, TypeStep DEF IInv
  <2>2. TasksAreFollowed' /\ OneCreation' /\ InsertComesFirst'
    BY <1>2, <2>1, TasksStep, CreationStep, InsertStep DEF IInv
  <2>3. CopiesRepeat' /\ StoredOrDeleted' /\ StoredAsAsked'
    BY <1>2, CopiesStep, StoredOrDeletedStep, StoredStep DEF IInv
  <2>4. DeletedForGood'
    BY <1>2, DeletedStep DEF IInv
  <2>5. CreationsAreLogged'
    BY <1>2, <2>3, LoggedStep DEF IInv
  <2> QED
    BY <2>1, <2>2, <2>3, <2>4, <2>5 DEF IInv
<1> QED
  BY <1>1, <1>2

\* The invariant of the registry holds in every behaviour: types, and what
\* ties a request, the document it read and the document stored together.
THEOREM InvariantHolds == Spec => []IInv
BY Inductive, PTL DEF Spec

\* What is stored of a client is the secret shown at its creation and the
\* fields of one request, however updates overlap (AdminHandler.UpdateClient
\* reads and writes whole documents).
THEOREM StoredWhole == Spec => []StoredAsAsked
<1>1. IInv => StoredAsAsked
  BY DEF IInv
<1> QED
  BY <1>1, InvariantHolds, PTL

\* No update that was under way brings a deleted client back.
THEOREM DeletionIsFinal == Spec => []DeletedForGood
<1>1. IInv => DeletedForGood
  BY DEF IInv
<1> QED
  BY <1>1, InvariantHolds, PTL

\* A shown secret has a client and an audit event, but for a refused record
\* and a deletion.
THEOREM CreationsLogged == Spec => []CreationsAreLogged
<1>1. IInv => CreationsAreLogged
  BY DEF IInv
<1> QED
  BY <1>1, InvariantHolds, PTL

-----------------------------------------------------------------------------
(***************************************************************************)
(* The registry is atomic: every step is a step of AtomicRegistry, or one  *)
(* that AtomicRegistry does not see.                                       *)
(***************************************************************************)

\* A request that was begun keeps its operation.
LEMMA OpsStay ==
    ASSUME req' = req, \A r \in Requests : pc[r] = "idle" <=> pc'[r] = "idle"
    PROVE  RegistryOp' = RegistryOp
BY DEF RegistryOp, OpOf, Do, Target, NewClient, DocOf

\* A request that goes on moves to the stage of its next operation.
LEMMA StageMoves ==
    ASSUME TypeOK, NEW r \in Requests, NEW where, Go(r, where)
    PROVE  RegistryAt' = [RegistryAt EXCEPT ![r] = StageOf(where)]
BY DEF TypeOK, Go, RegistryAt

\* Only a creation that is about to insert has an id that is not used yet, and
\* a request that does not pass its insert uses none.
LEMMA UsedMoves ==
    ASSUME TypeOK, TasksAreFollowed, NEW r \in Requests, NEW where \in Running \cup Ended,
           Go(r, where), req' = req, pc[r] \in Running, where # "insert"
    PROVE  RegistryUsed' = IF pc[r] = "insert" THEN RegistryUsed \cup {Target(r)}
                                               ELSE RegistryUsed
<1>1. /\ pc'[r] = where
      /\ \A s \in Requests : s # r => pc'[s] = pc[s]
      /\ \A s \in Requests : Do(s)' = Do(s) /\ Target(s)' = Target(s)
  BY DEF TypeOK, Go, Do, Target
<1>2. where # "idle" /\ pc[r] # "idle" /\ (pc[r] = "insert" => Do(r) = "create")
  BY DEF Running, Ended, TasksAreFollowed
<1> QED
  BY <1>1, <1>2 DEF RegistryUsed

\* Documents move with the clients.
LEMMA DocsMove ==
    ASSUME TypeOK, NEW c \in Clients, NEW client \in Client \cup {NoClient},
           clients' = [clients EXCEPT ![c] = client]
    PROVE  RegistryDoc' = [RegistryDoc EXCEPT ![c] =
                             IF client = NoClient THEN Gone ELSE DocOf(client)]
BY DEF TypeOK, RegistryDoc

\* A client that is there has a document.
LEMMA DocsExist ==
    ASSUME TypeOK, NEW c \in Clients
    PROVE  /\ RegistryDoc[c] # Gone <=> clients[c] # NoClient
           /\ clients[c] # NoClient => RegistryDoc[c] = DocOf(clients[c])
BY NoneAssumption DEF TypeOK, RegistryDoc, DocOf, Gone, Client

\* The id of a creation is not used before its insert.
LEMMA InsertIsFresh ==
    ASSUME TypeOK, TasksAreFollowed, OneCreation, NEW r \in Requests, pc[r] = "insert"
    PROVE  Target(r) \in Clients \ RegistryUsed
<1>1. Target(r) \in Clients /\ r \in Creation(Target(r))
  BY RequestType DEF TasksAreFollowed, Creation
<1>2. ASSUME NEW s \in Requests, pc[s] \notin {"idle", "insert"}, Do(s) = "create",
             Target(s) = Target(r)
      PROVE  FALSE
  BY <1>1, <1>2 DEF OneCreation, Creation
<1> QED
  BY <1>1, <1>2 DEF RegistryUsed

\* What an update writes is what is stored, with the fields of the call: the
\* secret it read is that of the creation, and so is the stored one.
LEMMA UpdateKeepsSecret ==
    ASSUME IInv, NEW r \in Requests, pc[r] = "write", clients[Target(r)] # NoClient
    PROVE  Updated(r).secret = clients[Target(r)].secret
<1>1. Target(r) \in Clients
  BY RequestType DEF IInv
<1>2. PICK s \in Creation(Target(r)) : copy[r].secret = req[s].secret
  BY DEF IInv, CopiesRepeat
<1>3. PICK q \in Creation(Target(r)) : clients[Target(r)].secret = req[q].secret
  BY <1>1 DEF IInv, StoredAsAsked
<1>4. s = q
  BY <1>1, <1>2, <1>3 DEF IInv, OneCreation
<1> QED
  BY <1>2, <1>3, <1>4, DocumentsAreClients DEF IInv

\* A request begins: a call is invoked.
LEMMA BeginInvokes ==
    ASSUME TypeOK, TypeOK', TasksAreFollowed', NEW r \in Requests,
           NEW task \in Task, Begin(r, task)
    PROVE  Registry!Invoke(r)
<1>1. /\ pc[r] = "idle" /\ pc' = [pc EXCEPT ![r] = First(task.do)]
      /\ clients' = clients /\ Go(r, First(task.do))
      /\ \A s \in Requests : s # r => req'[s] = req[s]
      /\ pc' \in [Requests -> {"idle"} \cup Running \cup Ended]
      /\ req'[r].task = task
  BY DEF Begin, Go, TypeOK
<1>2. \/ task.do = "create" /\ First(task.do) = "insert" /\ task.fields \in Fields
      \/ task.do = "update" /\ First(task.do) = "read" /\ task.fields \in Fields
      \/ task.do = "delete" /\ First(task.do) = "remove"
  BY DEF Task, First
<1>3. RegistryAt[r] = "none" /\ RegistryAt' = [RegistryAt EXCEPT ![r] = "open"]
  <2>1. StageOf("idle") = "none" /\ StageOf(First(task.do)) = "open"
    BY <1>2 DEF StageOf
  <2> QED
    BY <1>1, <2>1, StageMoves DEF RegistryAt
<1>4. RegistryDoc' = RegistryDoc
  BY <1>1 DEF RegistryDoc
<1>5. RegistryUsed' = RegistryUsed
  <2>1. pc'[r] = First(task.do) /\ \A s \in Requests : s # r => pc'[s] = pc[s]
    BY <1>1 DEF TypeOK
  <2>2. \A s \in Requests : s # r => Do(s)' = Do(s) /\ Target(s)' = Target(s)
    BY <1>1 DEF Do, Target
  <2>3. Do(r)' = task.do
    BY <1>1 DEF Do
  <2>4. ASSUME NEW s \in Requests
        PROVE  (pc'[s] \notin {"idle", "insert"} /\ Do(s)' = "create")
               <=> (pc[s] \notin {"idle", "insert"} /\ Do(s) = "create")
    BY <1>1, <1>2, <2>1, <2>2, <2>3
  <2>5. ASSUME NEW s \in Requests, pc[s] \notin {"idle", "insert"}
        PROVE  Target(s)' = Target(s)
    BY <1>1, <2>2, <2>5
  <2> QED
    BY <2>4, <2>5 DEF RegistryUsed
<1>6. OpOf(r)' \in Registry!Ops
  <2>1. Do(r)' = task.do /\ Target(r)' = task.client /\ task.client \in Clients
    BY <1>1 DEF Do, Target, Task
  <2>2. CASE task.do = "create"
    <3>1. req'[r].secret \in Secrets
      BY <1>1, <1>2, <2>1, <2>2 DEF TasksAreFollowed, TypeOK
    <3>2. DocOf(NewClient(r))' \in Registry!Docs
      BY <1>1, <1>2, <2>2, <3>1 DEF DocOf, NewClient, Registry!Docs
    <3>3. OpOf(r)' = [do |-> "create", ids |-> {task.client},
                      doc |-> DocOf(NewClient(r))']
      BY <2>1, <2>2 DEF OpOf
    <3> QED
      BY <2>1, <3>2, <3>3 DEF Registry!Ops
  <2>3. CASE task.do = "update"
    <3>1. OpOf(r)' = [do |-> "update", id |-> task.client, fields |-> task.fields]
      BY <1>1, <2>1, <2>3 DEF OpOf
    <3> QED
      BY <1>2, <2>1, <2>3, <3>1 DEF Registry!Ops
  <2>4. CASE task.do = "delete"
    <3>1. OpOf(r)' = [do |-> "delete", id |-> task.client]
      BY <1>1, <2>1, <2>4 DEF OpOf
    <3> QED
      BY <2>1, <3>1 DEF Registry!Ops
  <2> QED
    BY <1>2, <2>2, <2>3, <2>4
<1>7. RegistryOp' = [RegistryOp EXCEPT ![r] = OpOf(r)']
  <2>1. pc'[r] # "idle" /\ \A s \in Requests : s # r => pc'[s] = pc[s]
    BY <1>1, <1>2 DEF TypeOK
  <2>2. \A s \in Requests : s # r => OpOf(s)' = OpOf(s)
    BY <1>1 DEF OpOf, Do, Target, NewClient, DocOf
  <2> QED
    BY <2>1, <2>2 DEF RegistryOp
<1> QED
  BY <1>3, <1>4, <1>5, <1>6, <1>7 DEF Registry!Invoke

\* The operation of a request that was begun.
LEMMA OpIs ==
    ASSUME TypeOK, NEW r \in Requests, pc[r] # "idle"
    PROVE  /\ RegistryOp[r] = OpOf(r)
           /\ Do(r) = "create" => /\ OpOf(r).do = "create" /\ OpOf(r).ids = {Target(r)}
                                  /\ OpOf(r).doc = DocOf(NewClient(r))
           /\ Do(r) = "update" => /\ OpOf(r).do = "update" /\ OpOf(r).id = Target(r)
                                  /\ OpOf(r).fields = req[r].task.fields
           /\ Do(r) = "delete" => OpOf(r).do = "delete" /\ OpOf(r).id = Target(r)
BY DEF RegistryOp, OpOf

\* A request goes on, with its document unchanged: a call is given up, is
\* answered, or goes on unseen.
LEMMA GoingOn ==
    ASSUME TypeOK, TasksAreFollowed, NEW r \in Requests, NEW where \in Running \cup Ended,
           Go(r, where), pc[r] \in Running, UNCHANGED <<clients, req>>,
           \/ where = "failed"
           \/ pc[r] = "record" /\ where = "created"
           \/ pc[r] = "read" /\ where = "write"
    PROVE  [Registry!Next]_(Registry!vars)
<1>1. RegistryDoc' = RegistryDoc
  BY DEF RegistryDoc
<1>2. RegistryOp' = RegistryOp
  BY OpsStay DEF Go, TypeOK, Running, Ended
<1>3. RegistryAt' = [RegistryAt EXCEPT ![r] = StageOf(where)]
  BY StageMoves
<1>4. where # "insert"
  OBVIOUS
<1>5. RegistryUsed' = IF pc[r] = "insert" THEN RegistryUsed \cup {Target(r)}
                                         ELSE RegistryUsed
  BY <1>4, UsedMoves
<1>6. RegistryAt[r] = StageOf(pc[r])
  BY DEF RegistryAt
<1>7. CASE where = "failed"
  <2>1. RegistryAt[r] \in {"open", "applied"} /\ StageOf(where) = "over"
    BY <1>6, <1>7 DEF Running, StageOf
  <2>2. RegistryAt' = [s \in Requests |-> IF s \in {r} THEN "over" ELSE RegistryAt[s]]
    BY <1>3, <2>1 DEF RegistryAt
  <2>3. RegistryUsed' \in SUBSET Clients /\ RegistryUsed \subseteq RegistryUsed'
    BY <1>5, RequestType DEF RegistryUsed
  <2>4. Registry!GiveUp({r})
    BY <1>1, <1>2, <2>2, <2>3 DEF Registry!GiveUp
  <2> QED
    BY <2>1, <2>4 DEF Registry!Next
<1>8. CASE pc[r] = "record" /\ where = "created"
  <2>1. RegistryAt[r] = "applied" /\ StageOf(where) = "ok"
    BY <1>6, <1>8 DEF StageOf
  <2> QED
    BY <1>1, <1>2, <1>3, <1>5, <1>8, <2>1 DEF Registry!Next, Registry!Answer
<1>9. CASE pc[r] = "read" /\ where = "write"
  <2>1. RegistryAt[r] = "open" /\ StageOf(where) = "open"
    BY <1>6, <1>9 DEF StageOf
  <2>2. RegistryAt' = RegistryAt
    BY <1>3, <2>1 DEF RegistryAt
  <2> QED
    BY <1>1, <1>2, <1>5, <1>9, <2>2 DEF Registry!vars
<1> QED
  BY <1>7, <1>8, <1>9

\* A request writes its client: its call takes effect.
LEMMA TakesEffect ==
    ASSUME IInv, NEW r \in Requests, NEW where \in Running \cup Ended,
           Go(r, where), req' = req,
           \/ /\ pc[r] = "insert" /\ where \in {"record", "failed"}
              /\ clients' = [clients EXCEPT ![Target(r)] = NewClient(r)]
           \/ /\ pc[r] = "write" /\ where \in {"updated", "failed"}
              /\ clients[Target(r)] # NoClient
              /\ clients' = [clients EXCEPT ![Target(r)] = Updated(r)]
           \/ /\ pc[r] = "remove" /\ where \in {"deleted", "failed"}
              /\ clients[Target(r)] # NoClient
              /\ clients' = [clients EXCEPT ![Target(r)] = NoClient]
    PROVE  Registry!Effect(r)
<1> DEFINE c == Target(r)
<1>1. TypeOK /\ TasksAreFollowed /\ c \in Clients
  BY RequestType DEF IInv
<1>2. RegistryOp' = RegistryOp
  BY <1>1, OpsStay DEF Go, TypeOK, Running, Ended
<1>3. RegistryAt[r] = "open"
  BY DEF RegistryAt, StageOf
<1>4. \E after \in {"applied", "ok", "over"} : RegistryAt' = [RegistryAt EXCEPT ![r] = after]
  <2>1. StageOf(where) \in {"applied", "ok", "over"}
    BY DEF StageOf
  <2> QED
    BY <1>1, <2>1, StageMoves
<1>5. RegistryUsed' = IF pc[r] = "insert" THEN RegistryUsed \cup {c} ELSE RegistryUsed
  <2>1. pc[r] \in Running /\ where # "insert"
    BY DEF Running
  <2> QED
    BY <1>1, <2>1, UsedMoves
<1>6. CASE pc[r] = "insert"
  <2>1. NewClient(r) \in Client /\ NewClient(r) # NoClient
    BY <1>1, <1>6, DocumentsAreClients, NoneAssumption DEF IInv
  <2>2. clients' = [clients EXCEPT ![c] = NewClient(r)]
    BY <1>6
  <2>3. RegistryDoc' = [RegistryDoc EXCEPT ![c] = DocOf(NewClient(r))]
    BY <1>1, <2>1, <2>2, DocsMove
  <2>4. c \notin RegistryUsed
    BY <1>1, <1>6, InsertIsFresh DEF IInv
  <2>5. Do(r) = "create" /\ pc[r] # "idle"
    BY <1>1, <1>6 DEF TasksAreFollowed
  <2>6. /\ RegistryOp[r].do = "create" /\ RegistryOp[r].ids = {c}
        /\ RegistryOp[r].doc = DocOf(NewClient(r))
    BY <1>1, <2>5, OpIs
  <2>7. Registry!Create(r)
    BY <1>5, <1>6, <2>3, <2>4, <2>6 DEF Registry!Create
  <2> QED
    BY <1>2, <1>3, <1>4, <2>7 DEF Registry!Effect
<1>7. CASE pc[r] = "write"
  <2>1. /\ Updated(r) \in Client /\ Updated(r) # NoClient
        /\ Updated(r).secret = clients[c].secret
        /\ Updated(r).fields = req[r].task.fields
    BY <1>1, <1>7, DocumentsAreClients, UpdateKeepsSecret, NoneAssumption DEF IInv
  <2>2. clients' = [clients EXCEPT ![c] = Updated(r)] /\ clients[c] # NoClient
    BY <1>7
  <2>3. RegistryDoc' = [RegistryDoc EXCEPT ![c] = DocOf(Updated(r))]
    BY <1>1, <2>1, <2>2, DocsMove
  <2>4. RegistryDoc[c] # Gone /\ RegistryDoc[c] = DocOf(clients[c])
    BY <1>1, <2>2, DocsExist
  <2>5. Do(r) = "update" /\ pc[r] # "idle"
    BY <1>1, <1>7 DEF TasksAreFollowed
  <2>6. /\ RegistryOp[r].do = "update" /\ RegistryOp[r].id = c
        /\ RegistryOp[r].fields = req[r].task.fields
    BY <1>1, <2>5, OpIs
  <2>7. DocOf(Updated(r)) = [RegistryDoc[c] EXCEPT !.fields = RegistryOp[r].fields]
    BY <2>1, <2>4, <2>6 DEF DocOf
  <2>8. Registry!Update(r)
    BY <1>5, <1>7, <2>3, <2>4, <2>6, <2>7 DEF Registry!Update
  <2> QED
    BY <1>2, <1>3, <1>4, <2>8 DEF Registry!Effect
<1>8. CASE pc[r] = "remove"
  <2>1. clients' = [clients EXCEPT ![c] = NoClient] /\ clients[c] # NoClient
    BY <1>8
  <2>2. RegistryDoc' = [RegistryDoc EXCEPT ![c] = Gone] /\ RegistryDoc[c] # Gone
    BY <1>1, <2>1, DocsMove, DocsExist
  <2>3. Do(r) = "delete" /\ pc[r] # "idle"
    BY <1>1, <1>8 DEF TasksAreFollowed
  <2>4. RegistryOp[r].do = "delete" /\ RegistryOp[r].id = c
    BY <1>1, <2>3, OpIs
  <2>5. Registry!Delete(r)
    BY <1>5, <1>8, <2>2, <2>4 DEF Registry!Delete
  <2> QED
    BY <1>2, <1>3, <1>4, <2>5 DEF Registry!Effect
<1> QED
  BY <1>6, <1>7, <1>8

\* The process ends: every call that is under way is given up.
LEMMA CrashGivesUp ==
    ASSUME TypeOK, TasksAreFollowed, Crash PROVE Registry!Next
<1> DEFINE C == {r \in Requests : pc[r] \in Running}
<1>1. /\ pc' = [r \in Requests |-> IF pc[r] \in Running THEN "crashed" ELSE pc[r]]
      /\ clients' = clients /\ req' = req
  BY DEF Crash
<1>2. RegistryDoc' = RegistryDoc /\ RegistryOp' = RegistryOp
  BY <1>1, OpsStay DEF RegistryDoc, Running
<1>3. RegistryAt' = [r \in Requests |-> IF r \in C THEN "over" ELSE RegistryAt[r]]
  BY <1>1 DEF RegistryAt, StageOf
<1>4. C \in SUBSET {r \in Requests : RegistryAt[r] \in {"open", "applied"}}
  BY DEF RegistryAt, StageOf, Running
<1>5. RegistryUsed \subseteq RegistryUsed' /\ RegistryUsed' \in SUBSET Clients
  <2>1. \A r \in Requests : Target(r)' = Target(r) /\ Do(r)' = Do(r) /\ Target(r) \in Clients
    BY <1>1, RequestType DEF Target, Do
  <2>2. \A r \in Requests : pc[r] \notin {"idle", "insert"} => pc'[r] \notin {"idle", "insert"}
    BY <1>1
  <2> QED
    BY <2>1, <2>2 DEF RegistryUsed
<1> QED
  BY <1>2, <1>3, <1>4, <1>5 DEF Registry!Next, Registry!GiveUp

\* Every step of the clients is a step of the atomic registry, or none.
LEMMA StepIsAtomic ==
    ASSUME IInv, IInv', [Next]_vars PROVE [Registry!Next]_(Registry!vars)
<1>0. TypeOK /\ TypeOK' /\ TasksAreFollowed /\ TasksAreFollowed'
  BY DEF IInv
<1> USE <1>0
<1>1. ASSUME NEW r \in Requests, NEW task \in Task, Begin(r, task)
      PROVE  Registry!Next
  BY <1>1, BeginInvokes DEF Registry!Next
<1>2. ASSUME NEW r \in Requests, Insert(r) PROVE [Registry!Next]_(Registry!vars)
  <2>1. pc[r] \in Running /\ {"record", "failed"} \subseteq Running \cup Ended
    BY <1>2 DEF Insert, Running, Ended
  <2>2. CASE clients' = clients /\ Go(r, "failed")
    BY <1>2, <2>1, <2>2, GoingOn DEF Insert
  <2>3. ASSUME clients' = [clients EXCEPT ![Target(r)] = NewClient(r)],
               NEW where \in {"record", "failed"}, Go(r, where)
        PROVE  Registry!Next
    BY <1>2, <2>1, <2>3, TakesEffect DEF Insert, Registry!Next
  <2> QED
    BY <1>2, <2>2, <2>3 DEF Insert, Inserted
<1>3. ASSUME NEW r \in Requests, Record(r) PROVE [Registry!Next]_(Registry!vars)
  BY <1>3, GoingOn DEF Record, Running, Ended
<1>4. ASSUME NEW r \in Requests, Read(r) PROVE [Registry!Next]_(Registry!vars)
  BY <1>4, GoingOn DEF Read, Running, Ended
<1>5. ASSUME NEW r \in Requests, Write(r) PROVE [Registry!Next]_(Registry!vars)
  <2>1. pc[r] \in Running /\ {"updated", "failed"} \subseteq Running \cup Ended
    BY <1>5 DEF Write, Running, Ended
  <2>2. CASE clients' = clients /\ Go(r, "failed")
    BY <1>5, <2>1, <2>2, GoingOn DEF Write
  <2>3. ASSUME clients' = [clients EXCEPT ![Target(r)] = Updated(r)],
               clients[Target(r)] # NoClient,
               NEW where \in {"updated", "failed"}, Go(r, where)
        PROVE  Registry!Next
    BY <1>5, <2>1, <2>3, TakesEffect DEF Write, Registry!Next
  <2> QED
    BY <1>5, <2>2, <2>3 DEF Write, Matches
<1>6. ASSUME NEW r \in Requests, Remove(r) PROVE [Registry!Next]_(Registry!vars)
  <2>1. pc[r] \in Running /\ {"deleted", "failed"} \subseteq Running \cup Ended
    BY <1>6 DEF Remove, Running, Ended
  <2>2. CASE clients' = clients /\ Go(r, "failed")
    BY <1>6, <2>1, <2>2, GoingOn DEF Remove
  <2>3. ASSUME clients' = [clients EXCEPT ![Target(r)] = NoClient],
               clients[Target(r)] # NoClient,
               NEW where \in {"deleted", "failed"}, Go(r, where)
        PROVE  Registry!Next
    BY <1>6, <2>1, <2>3, TakesEffect DEF Remove, Registry!Next
  <2>4. clients[Target(r)] = NoClient => [clients EXCEPT ![Target(r)] = NoClient] = clients
    BY RequestType DEF TypeOK
  <2> QED
    BY <1>6, <2>2, <2>3, <2>4 DEF Remove, Removed, Exists
<1>7. CASE Crash
  BY <1>7, CrashGivesUp
<1>8. CASE UNCHANGED vars
  BY <1>8 DEF vars, Registry!vars, RegistryDoc, RegistryUsed, RegistryOp, RegistryAt,
              OpOf, Do, Target, NewClient
<1> QED
  BY <1>1, <1>2, <1>3, <1>4, <1>5, <1>6, <1>7, <1>8 DEF Next

\* Every admin call on a client takes effect at one moment between its
\* invocation and its answer, or not at all, for any number of clients,
\* requests, faults and crashes: the reads and writes of services/client.go
\* have an order that explains every answer.
THEOREM RegistryIsAtomic == Spec => ImplementsAtomicRegistry
<1>1. ASSUME Init PROVE Registry!Init
  <2>1. /\ pc = [r \in Requests |-> "idle"]
        /\ clients = [c \in Clients |-> NoClient]
    BY <1>1 DEF Init
  <2>2. RegistryDoc = [c \in Clients |-> Gone]
    BY <2>1 DEF RegistryDoc
  <2>3. RegistryUsed = {}
    BY <2>1 DEF RegistryUsed
  <2>4. RegistryOp = [r \in Requests |-> Registry!NoOp]
    BY <2>1 DEF RegistryOp, Registry!NoOp
  <2>5. RegistryAt = [r \in Requests |-> "none"]
    BY <2>1 DEF RegistryAt, StageOf
  <2> QED
    BY <2>2, <2>3, <2>4, <2>5 DEF Registry!Init
<1>2. ASSUME IInv, IInv', [Next]_vars PROVE [Registry!Next]_(Registry!vars)
  BY <1>2, StepIsAtomic
<1> QED
  BY <1>1, <1>2, InvariantHolds, PTL DEF Spec, ImplementsAtomicRegistry, Registry!Spec

\* A client that is stored was inserted, and its id is used.
LEMMA StoredAreUsed ==
    ASSUME IInv, NEW c \in Clients, clients[c] # NoClient PROVE c \in RegistryUsed
<1>1. PICK r \in Creation(c) : TRUE
  BY DEF IInv, OneCreation
<1>2. pc[r] # "idle" /\ Do(r) = "create" /\ Target(r) = c /\ r \in Requests
  BY DEF Creation
<1>3. pc[r] # "insert"
  BY <1>2 DEF IInv, InsertComesFirst
<1> QED
  BY <1>2, <1>3 DEF RegistryUsed

\* A client that is gone does not come back, whatever calls were under way
\* when it was deleted, and the secret of a client that stays is the one it
\* was created with: no update changes it.
THEOREM GoneAndKept == Spec => Registry!GoneForGood /\ Registry!KeysStay
<1>1. ASSUME IInv, IInv', [Next]_vars
      PROVE  [Registry!StaysGone /\ Registry!KeepsKey]_(Registry!vars)
  <2>1. [Registry!Next]_(Registry!vars) /\ TypeOK
    BY <1>1, StepIsAtomic DEF IInv
  <2>2. \A c \in Clients : RegistryDoc[c] # Gone =>
           c \in RegistryUsed /\ RegistryDoc[c] = DocOf(clients[c])
    BY <1>1, <2>1, StoredAreUsed, DocsExist
  <2>3. RegistryUsed \subseteq Clients
    BY <2>1, RequestType DEF RegistryUsed
  <2>4. RegistryDoc = [c \in Clients |-> RegistryDoc[c]]
    BY DEF RegistryDoc
  <2>5. CASE RegistryDoc' = RegistryDoc
    BY <2>5 DEF Registry!StaysGone, Registry!KeepsKey
  <2>6. ASSUME NEW r \in Requests, Registry!Create(r)
        PROVE  Registry!StaysGone /\ Registry!KeepsKey
    BY <2>2, <2>4, <2>6 DEF Registry!Create, Registry!StaysGone, Registry!KeepsKey
  <2>7. ASSUME NEW r \in Requests, Registry!Update(r)
        PROVE  Registry!StaysGone /\ Registry!KeepsKey
    <3>1. \A d : [DocOf(d) EXCEPT !.fields = RegistryOp[r].fields].key = DocOf(d).key
      BY DEF DocOf
    <3> QED
      BY <2>2, <2>3, <2>4, <2>7, <3>1
         DEF Registry!Update, Registry!StaysGone, Registry!KeepsKey
  <2>8. ASSUME NEW r \in Requests, Registry!Delete(r)
        PROVE  Registry!StaysGone /\ Registry!KeepsKey
    BY <2>3, <2>4, <2>8 DEF Registry!Delete, Registry!StaysGone, Registry!KeepsKey
  <2> QED
    BY <2>1, <2>5, <2>6, <2>7, <2>8
       DEF Registry!Next, Registry!Invoke, Registry!Effect, Registry!Answer,
           Registry!GiveUp, Registry!vars
<1> QED
  BY <1>1, InvariantHolds, PTL DEF Spec, Registry!GoneForGood, Registry!KeysStay

=============================================================================
