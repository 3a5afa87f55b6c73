------------------------ MODULE ClientRegistryAtomic ------------------------
(***************************************************************************)
(* The admin calls on clients as an AtomicRegistry.  An update takes two   *)
(* operations on the store and nothing locks the document in between, yet  *)
(* to whoever reads it the update happens at its write: it sets every      *)
(* field it read, and the secret it writes back is one nobody changes.     *)
(***************************************************************************)
EXTENDS ClientRegistry

\* The document of a client, and the operation a request asks for.
DocOf(client) == [key |-> client.secret, fields |-> client.fields]

OpOf(r) ==
    CASE Do(r) = "create" -> [do |-> "create", ids |-> {Target(r)},
                              doc |-> DocOf(NewClient(r))]
      [] Do(r) = "update" -> [do |-> "update", id |-> Target(r),
                              fields |-> req[r].task.fields]
      [] OTHER            -> [do |-> "delete", id |-> Target(r)]

StageOf(where) ==
    CASE where = "idle"   -> "none"
      [] where \in {"insert", "read", "write", "remove"} -> "open"
      [] where = "record" -> "applied"
      [] where \in {"created", "updated", "deleted"} -> "ok"
      [] OTHER            -> "over"

Gone == [key |-> NoSecret]

RegistryDoc ==
    [c \in Clients |-> IF clients[c] = NoClient THEN Gone ELSE DocOf(clients[c])]

\* The ids of the creations that got as far as their insert.
RegistryUsed ==
    {Target(r) : r \in {s \in Requests :
                          pc[s] \notin {"idle", "insert"} /\ Do(s) = "create"}}

RegistryOp ==
    [r \in Requests |-> IF pc[r] = "idle" THEN [do |-> "none"] ELSE OpOf(r)]

RegistryAt == [r \in Requests |-> StageOf(pc[r])]

Registry == INSTANCE AtomicRegistry WITH
    Ids <- Clients, Calls <- Requests, Keys <- Secrets, NoDoc <- Gone,
    doc <- RegistryDoc, used <- RegistryUsed, op <- RegistryOp, at <- RegistryAt

\* Every admin call on a client takes effect at one moment, whatever other
\* calls run at the same time and whatever fails: the reads and writes of
\* CreateClient, UpdateClient and DeleteClient (services/client.go) can be put
\* in one order that explains every answer, an id never comes back, and the
\* secret never changes.
ImplementsAtomicRegistry == Registry!Spec

=============================================================================
