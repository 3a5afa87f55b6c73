------------------------- MODULE DeviceFlowInvariant -------------------------
(***************************************************************************)
(* Why DeviceFlow keeps its promises: an invariant that every step         *)
(* preserves.  Its parts follow the document, from the request that asked  *)
(* for it through the copies that browsers and polls make of it.           *)
(***************************************************************************)
EXTENDS DeviceGrant

\* A document is the one that the device asked for, but for its user.
Repeats(doc, d) ==
    /\ device[d] \in {"answered", "orphan"}
    /\ asked[d] # NoDoc
    /\ doc.client = asked[d].client
    /\ doc.userCode = asked[d].userCode
    /\ doc.expiresAt = asked[d].expiresAt

\* The user has approved the code of the device, having seen its client.
Allows(u, d) ==
    /\ u \in Users
    /\ browser[u] \in {"approved", "error"}
    /\ target[u] = d
    /\ shown[u] = d \/ Collision(d, shown[u])

\* A device asks once.
AskedOnce == \A d \in Devices : device[d] = "none" => asked[d] = NoDoc

\* What is stored is what was asked for, and approved by nobody or by a user
\* who allowed it.
StoresRepeat ==
    \A d \in Devices : codes[d] # NoDoc =>
        /\ Repeats(codes[d], d)
        /\ codes[d].user = NoUser \/ Allows(codes[d].user, d)

\* The page and the copy of a browser are of documents with the code that the
\* user typed.
PagesRepeat ==
    \A u \in Users :
        /\ browser[u] \in {"shown", "write"} =>
              asked[shown[u]] # NoDoc /\ asked[shown[u]].userCode = typed[u]
        /\ browser[u] = "write" =>
              /\ copy[u] # NoDoc
              /\ Repeats(copy[u], target[u])
              /\ copy[u].userCode = typed[u]

\* An approval that was confirmed is in the document as long as there is one.
ApprovalsStay ==
    \A u \in Users : browser[u] = "approved" =>
        /\ device[target[u]] # "none"
        /\ codes[target[u]] # NoDoc => codes[target[u]].user # NoUser

\* What a poll found.
Found(p) ==
    LET d == args[p].device IN
    /\ Repeats(got[p], d)
    /\ Allows(got[p].user, d)
    /\ got[p].client = args[p].client
    /\ args[p].began <= got[p].expiresAt

ReadsRepeat ==
    \A p \in Polls :
        /\ poll[p] = "idle" => got[p] = NoDoc
        /\ poll[p] \in {"delete", "save", "issued"} \/ p \in lost => got[p] # NoDoc
        /\ got[p] # NoDoc => Found(p)

\* A refresh token repeats what its poll had found.
RefreshRepeats ==
    \A t \in refresh :
        /\ got[t.by] # NoDoc
        /\ t.client = got[t.by].client /\ t.user = got[t.by].user

\* A delete that was not lost is final.
UsedUp ==
    \A p \in Polls :
        poll[p] \in {"save", "issued"} /\ p \notin lost
            => codes[args[p].device] = NoDoc

\* What a poll remembers of its beginning stays so, and it finds nothing of a
\* code that an earlier poll had used up.
LaterFindsNothing ==
    \A p \in Polls :
        /\ \A u \in args[p].approved : browser[u] = "approved"
        /\ \A q \in args[p].polled :
              /\ poll[q] \in Ended
              /\ poll[q] = "issued" /\ q \notin lost
                 /\ args[p].device = args[q].device => got[p] = NoDoc

IInv ==
    /\ TypeOK
    /\ AskedOnce
    /\ StoresRepeat
    /\ PagesRepeat
    /\ ApprovalsStay
    /\ ReadsRepeat
    /\ RefreshRepeats
    /\ UsedUp
    /\ LaterFindsNothing
    /\ ApprovalIsSeen

=============================================================================
