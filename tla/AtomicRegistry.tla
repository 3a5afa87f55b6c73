--------------------------- MODULE AtomicRegistry ---------------------------
(***************************************************************************)
(* What the administration promises about the documents it keeps, clients  *)
(* or users: every call takes effect at most once and all at once, at some *)
(* moment between its invocation and its answer, and a call that is        *)
(* answered as done did take effect.  A call that fails may have taken     *)
(* effect or not; afterwards it can not.                                   *)
(*                                                                         *)
(* A document has a key, set at its creation, and fields that an update    *)
(* sets.  An id is used once: what was deleted does not come back.         *)
(***************************************************************************)
CONSTANTS
    Ids, Calls, Keys, Fields,
    NoDoc

Docs == [key : Keys, fields : Fields]

\* A creation may choose its id among some; "look" is any call that changes
\* no document.
Ops == [do : {"create"}, ids : SUBSET Ids, doc : Docs]
       \cup [do : {"update"}, id : Ids, fields : Fields]
       \cup [do : {"delete"}, id : Ids]
       \cup [do : {"look"}]
NoOp == [do |-> "none"]

VARIABLES
    doc,  \* Ids -> document
    used, \* ids that are given out, or that a failed creation has burnt
    op,   \* Calls -> what it asks for
    at    \* Calls -> "none", "open", "applied", "ok" or "over"

vars == <<doc, used, op, at>>

Init ==
    /\ doc \in [Ids -> Docs \cup {NoDoc}]
    /\ used = {id \in Ids : doc[id] # NoDoc}
    /\ op = [c \in Calls |-> NoOp]
    /\ at = [c \in Calls |-> "none"]

Invoke(c) ==
    /\ at[c] = "none"
    /\ at' = [at EXCEPT ![c] = "open"]
    /\ \E o \in Ops : op' = [op EXCEPT ![c] = o]
    /\ UNCHANGED <<doc, used>>

Create(c) ==
    /\ op[c].do = "create"
    /\ \E id \in op[c].ids \ used :
          /\ doc' = [doc EXCEPT ![id] = op[c].doc]
          /\ used' = used \cup {id}

Update(c) ==
    /\ op[c].do = "update"
    /\ doc[op[c].id] # NoDoc
    /\ doc' = [doc EXCEPT ![op[c].id].fields = op[c].fields]
    /\ UNCHANGED used

Delete(c) ==
    /\ op[c].do = "delete"
    /\ doc[op[c].id] # NoDoc
    /\ doc' = [doc EXCEPT ![op[c].id] = NoDoc]
    /\ UNCHANGED used

\* The one moment at which a call changes a document.  It is answered then,
\* or later, or not at all.
Effect(c) ==
    /\ at[c] = "open"
    /\ \E after \in {"applied", "ok", "over"} : at' = [at EXCEPT ![c] = after]
    /\ Create(c) \/ Update(c) \/ Delete(c)
    /\ UNCHANGED op

Answer(c) ==
    /\ at[c] = "applied"
    /\ at' = [at EXCEPT ![c] = "ok"]
    /\ UNCHANGED <<doc, used, op>>

\* Calls fail, or end with the process.
GiveUp(C) ==
    /\ at' = [c \in Calls |-> IF c \in C THEN "over" ELSE at[c]]
    /\ used' \in SUBSET Ids /\ used \subseteq used'
    /\ UNCHANGED <<doc, op>>

Next ==
    \/ \E c \in Calls : Invoke(c) \/ Effect(c) \/ Answer(c)
    \/ \E C \in SUBSET {c \in Calls : at[c] \in {"open", "applied"}} : GiveUp(C)

Spec == Init /\ [][Next]_vars

\* What is gone stays gone, and a document that stays keeps its key.
StaysGone == \A id \in used : doc[id] = NoDoc => doc'[id] = NoDoc

KeepsKey ==
    \A id \in Ids : doc[id] # NoDoc /\ doc'[id] # NoDoc
                       => doc'[id].key = doc[id].key

GoneForGood == [][StaysGone]_vars
KeysStay    == [][KeepsKey]_vars

=============================================================================
