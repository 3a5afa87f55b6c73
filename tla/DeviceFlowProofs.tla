-------------------------- MODULE DeviceFlowProofs --------------------------
(***************************************************************************)
(* What DeviceFlow promises, for any number of devices, users, polls,      *)
(* clients, user codes, ticks and faults, whether or not user codes        *)
(* collide.                                                                *)
(***************************************************************************)
EXTENDS DeviceFlowInvariant, TLAPS

-----------------------------------------------------------------------------
(***************************************************************************)
(* Types.                                                                  *)
(***************************************************************************)

\* The types hold initially.
LEMMA TypeInit == Init => TypeOK
<1> SUFFICES ASSUME Init PROVE TypeOK
  OBVIOUS
<1>1. Unset(Devices) \in Devices /\ Unset(Clients) \in Clients
      /\ Unset(UserCodes) \in UserCodes
  BY NonEmptyAssumption DEF Unset
<1> QED BY <1>1 DEF Init, TypeOK

\* The counter of faults keeps its type.
LEMMA FaultType == faults \in Nat /\ (Succeeds \/ Fails) => faults' \in Nat
BY DEF Succeeds, Fails

\* A device's request keeps the types.
LEMMA AuthorizationType ==
    ASSUME TypeOK, NEW d \in Devices, NEW client \in Clients,
           NEW userCode \in UserCodes, DeviceAuthorization(d, client, userCode)
    PROVE  TypeOK'
<1>1. NewCode(client, userCode) \in Doc
  BY LifespanAssumption DEF NewCode, Doc, TypeOK
<1>2. faults' \in Nat
  BY FaultType DEF DeviceAuthorization, TypeOK
<1>3. codes' \in [Devices -> Doc \cup {NoDoc}] /\ asked' \in [Devices -> Doc \cup {NoDoc}]
  BY <1>1 DEF DeviceAuthorization, Inserted, TypeOK
<1>4. device' \in [Devices -> {"none", "answered", "orphan", "failed"}]
  BY DEF DeviceAuthorization, TypeOK
<1> QED
  BY <1>2, <1>3, <1>4 DEF DeviceAuthorization, TypeOK, browserVars, pollVars

\* A browser keeps the types: what an approval writes it has read before.
LEMMA BrowseType ==
    ASSUME TypeOK, PagesRepeat, NEW u \in Users, Browse(u) PROVE TypeOK'
<1>1. ASSUME NEW userCode \in UserCodes, EnterCode(u, userCode) PROVE TypeOK'
  BY <1>1 DEF EnterCode, GoTo, TypeOK, deviceVars, pollVars
<1>2. CASE ShowDevicePage(u)
  <2>1. faults' \in Nat
    BY <1>2, FaultType DEF ShowDevicePage, TypeOK
  <2>2. shown' \in [Users -> Devices]
    BY <1>2 DEF ShowDevicePage, FindByUserCode, TypeOK
  <2>3. browser' \in [Users -> {"start", "entered", "shown", "write", "approved",
                                "denied", "error"}]
    BY <1>2 DEF ShowDevicePage, GoTo, TypeOK
  <2> QED
    BY <1>2, <2>1, <2>2, <2>3 DEF ShowDevicePage, TypeOK, deviceVars, pollVars
<1>3. CASE DenyDevice(u)
  BY <1>3 DEF DenyDevice, GoTo, TypeOK, deviceVars, pollVars
<1>4. CASE ReadForApproval(u)
  <2>1. faults' \in Nat
    BY <1>4, FaultType DEF ReadForApproval, TypeOK
  <2>2. target' \in [Users -> Devices] /\ copy' \in [Users -> Doc \cup {NoDoc}]
    <3>1. \/ UNCHANGED <<target, copy>>
          \/ \E d \in Devices : /\ target' = [target EXCEPT ![u] = d]
                                /\ copy' = [copy EXCEPT ![u] = codes[d]]
      BY <1>4 DEF ReadForApproval, FindByUserCode
    <3> QED
      BY <3>1 DEF TypeOK
  <2>3. browser' \in [Users -> {"start", "entered", "shown", "write", "approved",
                                "denied", "error"}]
    BY <1>4 DEF ReadForApproval, GoTo, TypeOK
  <2> QED
    BY <1>4, <2>1, <2>2, <2>3 DEF ReadForApproval, TypeOK, deviceVars, pollVars
<1>5. CASE WriteApproval(u)
  <2>1. faults' \in Nat
    BY <1>5, FaultType DEF WriteApproval, TypeOK
  <2>2. copy[u] \in Doc
    BY <1>5 DEF WriteApproval, PagesRepeat, TypeOK
  <2>3. ApprovedDoc(u) \in Doc
    BY <2>2 DEF ApprovedDoc, Doc
  <2>4. codes' \in [Devices -> Doc \cup {NoDoc}]
    BY <1>5, <2>3 DEF WriteApproval, TypeOK
  <2>5. browser' \in [Users -> {"start", "entered", "shown", "write", "approved",
                                "denied", "error"}]
    BY <1>5 DEF WriteApproval, GoTo, TypeOK
  <2> QED
    BY <1>5, <2>1, <2>4, <2>5 DEF WriteApproval, TypeOK, deviceVars, pollVars
<1> QED BY <1>1, <1>2, <1>3, <1>4, <1>5 DEF Browse

\* A poll keeps the types: it stores a token only of a document it has read.
LEMMA PollType ==
    ASSUME TypeOK, ReadsRepeat, NEW p \in Polls, PollStep(p) PROVE TypeOK'
<1>1. ASSUME NEW d \in Devices, NEW client \in Clients, ReadForPoll(p, d, client)
      PROVE  TypeOK'
  <2>1. faults' \in Nat
    BY <1>1, FaultType DEF ReadForPoll, TypeOK
  <2>2. args' \in [Polls -> [device : Devices, client : Clients, began : Nat,
                             polled : SUBSET Polls, approved : SUBSET Users]]
    BY <1>1 DEF ReadForPoll, TypeOK
  <2>3. /\ poll' \in [Polls -> {"idle", "delete", "save"} \cup Ended]
        /\ got' \in [Polls -> Doc \cup {NoDoc}]
    BY <1>1 DEF ReadForPoll, TypeOK, Ended, Errors
  <2> QED
    BY <1>1, <2>1, <2>2, <2>3 DEF ReadForPoll, TypeOK, deviceVars, browserVars
<1>2. CASE DeleteForPoll(p)
  <2>1. faults' \in Nat
    BY <1>2, FaultType DEF DeleteForPoll, TypeOK
  <2>2. codes' \in [Devices -> Doc \cup {NoDoc}]
    BY <1>2 DEF DeleteForPoll, Removed, TypeOK
  <2>3. /\ poll' \in [Polls -> {"idle", "delete", "save"} \cup Ended]
        /\ lost' \subseteq Polls
    BY <1>2 DEF DeleteForPoll, TypeOK
  <2> QED
    BY <1>2, <2>1, <2>2, <2>3 DEF DeleteForPoll, TypeOK, deviceVars, browserVars
<1>3. CASE SaveForPoll(p)
  <2>1. faults' \in Nat
    BY <1>3, FaultType DEF SaveForPoll, TypeOK
  <2>2. got[p] \in Doc /\ got[p].user \in Users
    BY <1>3 DEF SaveForPoll, ReadsRepeat, Found, Allows, TypeOK
  <2>3. [by |-> p, client |-> got[p].client, user |-> got[p].user]
          \in [by : Polls, client : Clients, user : Users]
    BY <2>2 DEF Doc
  <2>4. refresh' \subseteq [by : Polls, client : Clients, user : Users]
    BY <1>3, <2>3 DEF SaveForPoll, TypeOK
  <2>5. poll' \in [Polls -> {"idle", "delete", "save"} \cup Ended]
    BY <1>3 DEF SaveForPoll, TypeOK, Ended, Errors
  <2> QED
    BY <1>3, <2>1, <2>4, <2>5 DEF SaveForPoll, TypeOK, deviceVars, browserVars
<1> QED BY <1>1, <1>2, <1>3 DEF PollStep

\* Every step keeps the types.
LEMMA TypeStep ==
    TypeOK /\ PagesRepeat /\ ReadsRepeat /\ [Next]_vars => TypeOK'
<1> SUFFICES ASSUME TypeOK, PagesRepeat, ReadsRepeat, [Next]_vars PROVE TypeOK'
  OBVIOUS
<1>1. CASE Tick
  BY <1>1 DEF Tick, TypeOK, deviceVars, browserVars, pollVars
<1>2. ASSUME NEW d \in Devices, RemoveExpired(d) \/ RevokeDeviceCode(d)
      PROVE  TypeOK'
  BY <1>2 DEF RemoveExpired, RevokeDeviceCode, TypeOK, deviceVars, browserVars,
              pollVars
<1>3. ASSUME NEW client \in Clients, DeleteClient(client) PROVE TypeOK'
  BY <1>3 DEF DeleteClient, TypeOK, deviceVars, browserVars, pollVars
<1>4. CASE Crash
  <2>1. faults' \in Nat
    BY <1>4, FaultType DEF Crash, TypeOK
  <2>2. /\ poll' \in [Polls -> {"idle", "delete", "save"} \cup Ended]
        /\ browser' \in [Users -> {"start", "entered", "shown", "write",
                                   "approved", "denied", "error"}]
    BY <1>4 DEF Crash, TypeOK, Ended
  <2> QED
    BY <1>4, <2>1, <2>2 DEF Crash, TypeOK, deviceVars
<1>5. CASE UNCHANGED vars
  BY <1>5 DEF vars, TypeOK, deviceVars, browserVars, pollVars
<1> QED
  BY <1>1, <1>2, <1>3, <1>4, <1>5, AuthorizationType, BrowseType, PollType DEF Next

-----------------------------------------------------------------------------
(***************************************************************************)
(* What a step may change: one lemma for the documents, one for a browser, *)
(* one for a poll, and what never changes.  The invariant follows from     *)
(* these and never looks into the actions again.                           *)
(***************************************************************************)

\* What was asked for does not change once it was, and nothing is noted for a
\* device that did not ask.
LEMMA Frozen ==
    ASSUME TypeOK, [Next]_vars, NEW d \in Devices
    PROVE  /\ device[d] # "none" => device'[d] = device[d] /\ asked'[d] = asked[d]
           /\ device'[d] = "none" => device[d] = "none" /\ asked'[d] = asked[d]
<1>1. CASE \E e \in Devices, client \in Clients, userCode \in UserCodes :
              DeviceAuthorization(e, client, userCode)
  BY <1>1 DEF DeviceAuthorization, TypeOK
<1>2. CASE UNCHANGED deviceVars
  BY <1>2 DEF deviceVars
<1>3. \/ UNCHANGED deviceVars
      \/ \E e \in Devices, client \in Clients, userCode \in UserCodes :
            DeviceAuthorization(e, client, userCode)
  BY DEF Next, Browse, PollStep, EnterCode, ShowDevicePage, DenyDevice,
         ReadForApproval, WriteApproval, ReadForPoll, DeleteForPoll, SaveForPoll,
         Tick, RemoveExpired, RevokeDeviceCode, DeleteClient, Crash, vars, deviceVars
<1> QED
  BY <1>1, <1>2, <1>3

\* A device asks for a new document, or for none.
Asks(d) ==
    /\ device[d] = "none"
    /\ device'[d] \in {"answered", "orphan"}
    /\ asked'[d] # NoDoc /\ codes'[d] = asked'[d]
    /\ asked'[d].user = NoUser

\* An approval replaces a document by the copy it made before.
Approves(u, d) ==
    /\ browser[u] = "write" /\ target[u] = d
    /\ codes[d] # NoDoc
    /\ codes'[d] = ApprovedDoc(u)
    /\ browser'[u] \in {"approved", "error"}

\* A document stays, goes, comes with the request of its device, or is
\* approved.
LEMMA CodesChange ==
    ASSUME TypeOK, [Next]_vars, NEW d \in Devices
    PROVE  \/ codes'[d] = codes[d]
           \/ codes'[d] = NoDoc
           \/ Asks(d)
           \/ \E u \in Users : Approves(u, d)
<1>1. ASSUME NEW e \in Devices, NEW client \in Clients, NEW userCode \in UserCodes,
             DeviceAuthorization(e, client, userCode), codes'[d] # codes[d]
      PROVE  Asks(d)
  <2>1. NewCode(client, userCode) \in Doc
        /\ NewCode(client, userCode).user = NoUser
    BY LifespanAssumption DEF NewCode, Doc, TypeOK
  <2>2. NewCode(client, userCode) # NoDoc
    BY <2>1, NoneAssumption
  <2>3. /\ device[e] = "none"
        /\ asked' = [asked EXCEPT ![e] = NewCode(client, userCode)]
        /\ \/ codes' = codes
           \/ /\ codes' = [codes EXCEPT ![e] = NewCode(client, userCode)]
              /\ \E a \in {"answered", "orphan"} : device' = [device EXCEPT ![e] = a]
    BY <1>1 DEF DeviceAuthorization, Inserted
  <2>4. e = d
    BY <1>1, <2>3 DEF TypeOK
  <2> QED
    BY <1>1, <2>1, <2>2, <2>3, <2>4 DEF Asks, TypeOK
<1>2. ASSUME NEW u \in Users, WriteApproval(u), codes'[d] # codes[d]
      PROVE  Approves(u, d)
  <2>1. target[u] = d
    BY <1>2 DEF WriteApproval, TypeOK
  <2> QED
    BY <1>2, <2>1 DEF WriteApproval, Approves, Matches, GoTo, TypeOK
<1>3. ASSUME NEW p \in Polls, DeleteForPoll(p)
      PROVE  codes'[d] \in {codes[d], NoDoc}
  BY <1>3 DEF DeleteForPoll, Removed, TypeOK
<1>4. ASSUME NEW e \in Devices, RemoveExpired(e) \/ RevokeDeviceCode(e)
      PROVE  codes'[d] \in {codes[d], NoDoc}
  BY <1>4 DEF RemoveExpired, RevokeDeviceCode, TypeOK
<1>5. \/ UNCHANGED codes
      \/ \E e \in Devices, client \in Clients, userCode \in UserCodes :
            DeviceAuthorization(e, client, userCode)
      \/ \E u \in Users : WriteApproval(u)
      \/ \E p \in Polls : DeleteForPoll(p)
      \/ \E e \in Devices : RemoveExpired(e) \/ RevokeDeviceCode(e)
  BY DEF Next, Browse, PollStep, EnterCode, ShowDevicePage, DenyDevice,
         ReadForApproval, ReadForPoll, SaveForPoll, Tick, DeleteClient, Crash, vars
<1> QED
  BY <1>1, <1>2, <1>3, <1>4, <1>5

\* The next page of a browser: of a document with the code typed in.
Shows(u) ==
    /\ browser[u] = "entered" /\ browser'[u] = "shown"
    /\ typed'[u] = typed[u]
    /\ codes[shown'[u]] # NoDoc /\ codes[shown'[u]].userCode = typed[u]

\* An approval's read.
Copies(u) ==
    /\ browser[u] = "shown" /\ browser'[u] = "write"
    /\ typed'[u] = typed[u] /\ shown'[u] = shown[u]
    /\ codes[target'[u]] # NoDoc /\ copy'[u] = codes[target'[u]]
    /\ copy'[u].userCode = typed[u]

\* An approval's write is confirmed.
Confirms(u) ==
    /\ browser[u] = "write" /\ browser'[u] = "approved"
    /\ Approves(u, target[u])

Rests(u) ==
    /\ browser'[u] = browser[u] /\ typed'[u] = typed[u] /\ shown'[u] = shown[u]
    /\ target'[u] = target[u] /\ copy'[u] = copy[u]

\* A browser that is done, or that wrote, does not look anything up again.
Leaves(u) ==
    /\ browser[u] \in {"start", "entered", "shown", "write"}
    /\ browser'[u] \in {"entered", "denied", "error"}
    /\ browser[u] = "write" => /\ browser'[u] = "error"
                               /\ shown'[u] = shown[u] /\ target'[u] = target[u]

\* What a step does to a browser.
LEMMA BrowserChange ==
    ASSUME TypeOK, [Next]_vars, NEW u \in Users
    PROVE  /\ Rests(u) \/ Shows(u) \/ Copies(u) \/ Confirms(u) \/ Leaves(u)
           /\ browser[u] = "write" => shown'[u] = shown[u] /\ target'[u] = target[u]
<1> DEFINE Goal == /\ Rests(u) \/ Shows(u) \/ Copies(u) \/ Confirms(u) \/ Leaves(u)
                   /\ browser[u] = "write" =>
                         shown'[u] = shown[u] /\ target'[u] = target[u]
<1>1. ASSUME NEW v \in Users, NEW userCode \in UserCodes, EnterCode(v, userCode)
      PROVE  Goal
  BY <1>1 DEF EnterCode, GoTo, Rests, Leaves, TypeOK
<1>2. ASSUME NEW v \in Users, ShowDevicePage(v) PROVE Goal
  <2>1. CASE u # v
    BY <1>2, <2>1 DEF ShowDevicePage, GoTo, Rests, TypeOK
  <2>2. CASE u = v
    <3>1. \/ browser'[u] = "error"
          \/ \E d \in Devices :
                /\ codes[d] # NoDoc /\ codes[d].userCode = typed[u]
                /\ shown'[u] = d /\ browser'[u] = "shown"
      BY <1>2, <2>2 DEF ShowDevicePage, GoTo, FindByUserCode, TypeOK
    <3>2. browser[u] = "entered" /\ typed' = typed
      BY <1>2, <2>2 DEF ShowDevicePage
    <3> QED
      BY <3>1, <3>2 DEF Shows, Leaves
  <2> QED
    BY <2>1, <2>2
<1>3. ASSUME NEW v \in Users, DenyDevice(v) PROVE Goal
  BY <1>3 DEF DenyDevice, GoTo, Rests, Leaves, TypeOK
<1>4. ASSUME NEW v \in Users, ReadForApproval(v) PROVE Goal
  <2>1. CASE u # v
    BY <1>4, <2>1 DEF ReadForApproval, GoTo, Rests, TypeOK
  <2>2. CASE u = v
    <3>1. \/ browser'[u] = "error"
          \/ \E d \in Devices :
                /\ codes[d] # NoDoc /\ codes[d].userCode = typed[u]
                /\ target'[u] = d /\ copy'[u] = codes[d] /\ browser'[u] = "write"
      BY <1>4, <2>2 DEF ReadForApproval, GoTo, FindByUserCode, TypeOK
    <3>2. browser[u] = "shown" /\ typed' = typed /\ shown' = shown
      BY <1>4, <2>2 DEF ReadForApproval
    <3> QED
      BY <3>1, <3>2 DEF Copies, Leaves
  <2> QED
    BY <2>1, <2>2
<1>5. ASSUME NEW v \in Users, WriteApproval(v) PROVE Goal
  <2>1. CASE u # v
    BY <1>5, <2>1 DEF WriteApproval, GoTo, Rests, TypeOK
  <2>2. CASE u = v
    <3>1. /\ browser[u] = "write" /\ shown' = shown /\ target' = target
          /\ \/ browser'[u] = "error"
             \/ /\ browser'[u] = "approved" /\ codes[target[u]] # NoDoc
                /\ codes'[target[u]] = ApprovedDoc(u)
      BY <1>5, <2>2 DEF WriteApproval, Matches, GoTo, TypeOK
    <3> QED
      BY <3>1 DEF Confirms, Approves, Leaves
  <2> QED
    BY <2>1, <2>2
<1>6. CASE Crash
  BY <1>6 DEF Crash, Rests, Leaves, TypeOK
<1>7. CASE UNCHANGED browserVars
  BY <1>7 DEF browserVars, Rests
<1>8. \/ UNCHANGED browserVars
      \/ \E v \in Users : Browse(v)
      \/ Crash
  BY DEF Next, PollStep, DeviceAuthorization, ReadForPoll, DeleteForPoll,
         SaveForPoll, Tick, RemoveExpired, RevokeDeviceCode, DeleteClient, vars
<1> QED
  BY <1>1, <1>2, <1>3, <1>4, <1>5, <1>6, <1>7, <1>8 DEF Browse

\* What a poll finds when it reads.
Reads(p, d, client) ==
    /\ poll[p] = "idle" /\ device[d] = "answered"
    /\ args'[p] = [device |-> d, client |-> client, began |-> now,
                   polled |-> {q \in Polls : poll[q] \in Ended},
                   approved |-> {u \in Users : browser[u] = "approved"}]
    /\ \/ /\ poll'[p] \in Errors /\ got'[p] = got[p]
          /\ poll'[p] = "authorization_pending" =>
                codes[d] # NoDoc /\ codes[d].user = NoUser
       \/ /\ poll'[p] = "delete" /\ got'[p] = codes[d] /\ codes[d] # NoDoc
          /\ codes[d].client = client /\ codes[d].user # NoUser
          /\ now <= codes[d].expiresAt

\* A poll goes on, with what it has.
GoesOn(p) ==
    /\ args'[p] = args[p] /\ got'[p] = got[p]
    /\ \/ poll'[p] = poll[p]
       \/ /\ poll[p] = "delete" /\ poll'[p] = "save"
          /\ p \notin lost' => codes'[args[p].device] = NoDoc
       \/ poll[p] = "save" /\ poll'[p] \in {"issued", "server_error"}
       \/ poll[p] \in {"delete", "save"} /\ poll'[p] = "crashed"

\* What a step does to a poll.
LEMMA PollChange ==
    ASSUME TypeOK, [Next]_vars, NEW p \in Polls
    PROVE  GoesOn(p) \/ \E d \in Devices, client \in Clients : Reads(p, d, client)
<1>1. ASSUME NEW q \in Polls, NEW d \in Devices, NEW client \in Clients,
             ReadForPoll(q, d, client)
      PROVE  GoesOn(p) \/ Reads(p, d, client)
  <2>1. CASE p # q
    BY <1>1, <2>1 DEF ReadForPoll, GoesOn, TypeOK
  <2>2. CASE p = q
    <3>1. /\ poll[p] = "idle" /\ device[d] = "answered"
          /\ args'[p] = [device |-> d, client |-> client, began |-> now,
                         polled |-> {r \in Polls : poll[r] \in Ended},
                         approved |-> {u \in Users : browser[u] = "approved"}]
      BY <1>1, <2>2 DEF ReadForPoll, TypeOK
    <3>2. \/ /\ poll'[p] \in Errors /\ got'[p] = got[p]
             /\ poll'[p] = "authorization_pending" =>
                   codes[d] # NoDoc /\ ~Approved(codes[d])
          \/ /\ poll'[p] = "delete" /\ got'[p] = codes[d] /\ codes[d] # NoDoc
             /\ ForClient(codes[d], client) /\ Approved(codes[d])
             /\ ~Expired(codes[d])
      BY <1>1, <2>2 DEF ReadForPoll, TypeOK, Errors
    <3>3. ~Expired(codes[d]) /\ codes[d] # NoDoc => now <= codes[d].expiresAt
      BY DEF Expired, TypeOK, Doc
    <3> QED
      BY <3>1, <3>2, <3>3 DEF Reads, ForClient, Approved
  <2> QED
    BY <2>1, <2>2
<1>2. ASSUME NEW q \in Polls, DeleteForPoll(q) PROVE GoesOn(p)
  BY <1>2 DEF DeleteForPoll, Removed, GoesOn, TypeOK
<1>3. ASSUME NEW q \in Polls, SaveForPoll(q) PROVE GoesOn(p)
  BY <1>3 DEF SaveForPoll, GoesOn, TypeOK
<1>4. CASE Crash
  BY <1>4 DEF Crash, GoesOn, TypeOK
<1>5. CASE UNCHANGED pollVars
  BY <1>5 DEF pollVars, GoesOn
<1>6. \/ UNCHANGED pollVars
      \/ \E q \in Polls : PollStep(q)
      \/ Crash
  BY DEF Next, Browse, DeviceAuthorization, EnterCode, ShowDevicePage, DenyDevice,
         ReadForApproval, WriteApproval, Tick, RemoveExpired, RevokeDeviceCode,
         DeleteClient, vars
<1> QED
  BY <1>1, <1>2, <1>3, <1>4, <1>5, <1>6 DEF PollStep

\* A refresh token comes from a poll that saves it; a delete is lost by a poll
\* that deletes, and stays lost.
LEMMA RefreshChange ==
    ASSUME TypeOK, [Next]_vars
    PROVE  /\ lost \subseteq lost'
           /\ \A p \in lost' \ lost : p \in Polls /\ poll[p] = "delete"
           /\ \A t \in refresh' \ refresh :
                 /\ t.by \in Polls /\ poll[t.by] = "save"
                 /\ t.client = got[t.by].client /\ t.user = got[t.by].user
<1>1. ASSUME NEW q \in Polls, SaveForPoll(q), NEW t \in refresh' \ refresh
      PROVE  /\ t.by \in Polls /\ poll[t.by] = "save"
             /\ t.client = got[t.by].client /\ t.user = got[t.by].user
  <2>1. poll[q] = "save"
        /\ t = [by |-> q, client |-> got[q].client, user |-> got[q].user]
    BY <1>1 DEF SaveForPoll
  <2> QED
    BY <2>1
<1>2. UNCHANGED refresh \/ \E q \in Polls : SaveForPoll(q)
  BY DEF Next, Browse, PollStep, DeviceAuthorization, EnterCode, ShowDevicePage,
         DenyDevice, ReadForApproval, WriteApproval, ReadForPoll, DeleteForPoll,
         Tick, RemoveExpired, RevokeDeviceCode, DeleteClient, Crash, vars, pollVars
<1>3. UNCHANGED lost \/ \E q \in Polls : DeleteForPoll(q)
  BY DEF Next, Browse, PollStep, DeviceAuthorization, EnterCode, ShowDevicePage,
         DenyDevice, ReadForApproval, WriteApproval, ReadForPoll, SaveForPoll,
         Tick, RemoveExpired, RevokeDeviceCode, DeleteClient, Crash, vars, pollVars
<1>4. /\ lost \subseteq lost'
      /\ \A p \in lost' \ lost : p \in Polls /\ poll[p] = "delete"
  BY <1>3 DEF DeleteForPoll
<1> QED
  BY <1>1, <1>2, <1>4

-----------------------------------------------------------------------------
(***************************************************************************)
(* The parts of the invariant.                                             *)
(***************************************************************************)

\* Nothing has been asked for in the initial state.
LEMMA InitInvariant == Init => IInv
<1> SUFFICES ASSUME Init PROVE IInv
  OBVIOUS
<1>1. TypeOK
  BY TypeInit
<1>2. \A p \in Polls : args[p].approved = {} /\ args[p].polled = {}
  BY DEF Init
<1> QED
  BY <1>1, <1>2 DEF Init, IInv, AskedOnce, StoresRepeat, PagesRepeat, ApprovalsStay,
     ReadsRepeat, RefreshRepeats, UsedUp, LaterFindsNothing, ApprovalIsSeen

\* A browser that is done stays where it is.
LEMMA BrowserDone ==
    ASSUME TypeOK, [Next]_vars, NEW u \in Users, browser[u] \in {"approved", "error"}
    PROVE  Rests(u)
BY BrowserChange DEF Shows, Copies, Confirms, Leaves

\* A poll that was answered or cut off stays so.
LEMMA PollDone ==
    ASSUME TypeOK, [Next]_vars, NEW p \in Polls, poll[p] \in Ended
    PROVE  poll'[p] = poll[p] /\ args'[p] = args[p] /\ got'[p] = got[p]
BY PollChange DEF Reads, GoesOn, Ended, Errors

\* An approval that was given is not taken back.
LEMMA AllowsStays ==
    ASSUME TypeOK, AskedOnce, [Next]_vars, NEW u, NEW d \in Devices, Allows(u, d)
    PROVE  Allows(u, d)'
<1>1. Rests(u) /\ shown[u] \in Devices
  BY BrowserDone DEF Allows, TypeOK
<1>2. Collision(d, shown[u]) => asked'[d] = asked[d] /\ asked'[shown[u]] = asked[shown[u]]
  BY <1>1, Frozen DEF Collision, AskedOnce
<1> QED
  BY <1>1, <1>2 DEF Allows, Collision, Rests

\* A document with the code that the user typed is of the device whose client
\* the page showed, or of one with the same user code.
LEMMA PageMatches ==
    ASSUME PagesRepeat, NEW u \in Users, browser[u] = "write"
    PROVE  shown[u] = target[u] \/ Collision(target[u], shown[u])
BY DEF PagesRepeat, Repeats, Collision

\* An approved document is the copy, for the user.
LEMMA ApprovedFields ==
    ASSUME TypeOK, PagesRepeat, NEW u \in Users, browser[u] = "write"
    PROVE  /\ ApprovedDoc(u).user = u /\ ApprovedDoc(u).user # NoUser
           /\ ApprovedDoc(u).client = copy[u].client
           /\ ApprovedDoc(u).userCode = copy[u].userCode
           /\ ApprovedDoc(u).expiresAt = copy[u].expiresAt
           /\ Repeats(copy[u], target[u])
<1>1. copy[u] \in Doc /\ Repeats(copy[u], target[u])
  BY DEF PagesRepeat, TypeOK
<1> QED
  BY <1>1, NoneAssumption DEF ApprovedDoc, Doc

\* The stores keep what was asked for and allowed.
LEMMA StoresStep ==
    TypeOK /\ AskedOnce /\ StoresRepeat /\ PagesRepeat /\ [Next]_vars => StoresRepeat'
<1> SUFFICES ASSUME TypeOK, AskedOnce, StoresRepeat, PagesRepeat, [Next]_vars,
                    NEW d \in Devices, codes'[d] # NoDoc
             PROVE  /\ Repeats(codes[d], d)'
                    /\ codes'[d].user = NoUser \/ Allows(codes[d].user, d)'
  BY DEF StoresRepeat
<1>1. CASE codes'[d] = codes[d]
  <2>1. Repeats(codes[d], d)'
    BY <1>1, Frozen DEF StoresRepeat, Repeats
  <2>2. codes[d].user = NoUser \/ Allows(codes[d].user, d)
    BY <1>1 DEF StoresRepeat
  <2>3. ASSUME NEW u, u = codes[d].user, Allows(u, d) PROVE Allows(codes[d].user, d)'
    <3>1. Allows(u, d)'
      BY <2>3, AllowsStays
    <3> QED
      BY <1>1, <2>3, <3>1 DEF Allows
  <2> QED
    BY <1>1, <2>1, <2>2, <2>3
<1>2. CASE Asks(d)
  BY <1>2 DEF Asks, Repeats
<1>3. ASSUME NEW u \in Users, Approves(u, d)
      PROVE  Repeats(codes[d], d)' /\ Allows(codes[d].user, d)'
  <2>1. Repeats(codes[d], d)'
    BY <1>3, ApprovedFields, Frozen DEF Approves, Repeats
  <2>2. shown[u] \in Devices /\ shown'[u] = shown[u] /\ target'[u] = d
    BY <1>3, BrowserChange DEF Approves, TypeOK
  <2>3. shown[u] = d \/ Collision(d, shown[u])
    BY <1>3, PageMatches DEF Approves
  <2>4. Collision(d, shown[u]) => Collision(d, shown[u])'
    BY <2>2, Frozen DEF Collision, AskedOnce
  <2>5. codes'[d].user = u
    BY <1>3, ApprovedFields DEF Approves
  <2> QED
    BY <1>3, <2>1, <2>2, <2>3, <2>4, <2>5 DEF Approves, Allows
<1> QED
  BY <1>1, <1>2, <1>3, CodesChange DEF Asks

\* A device asks once.
LEMMA AskedStep == TypeOK /\ AskedOnce /\ [Next]_vars => AskedOnce'
BY Frozen DEF AskedOnce

\* Pages and copies are of the code typed in: a look-up finds it, and what
\* was asked for does not change.
LEMMA PagesStep ==
    TypeOK /\ TypeOK' /\ AskedOnce /\ StoresRepeat /\ PagesRepeat /\ [Next]_vars
        => PagesRepeat'
<1> SUFFICES ASSUME TypeOK, TypeOK', AskedOnce, StoresRepeat, PagesRepeat,
                    [Next]_vars, NEW u \in Users
             PROVE  /\ browser'[u] \in {"shown", "write"} =>
                          /\ asked'[shown'[u]] # NoDoc
                          /\ asked'[shown'[u]].userCode = typed'[u]
                    /\ browser'[u] = "write" =>
                          /\ copy'[u] # NoDoc
                          /\ Repeats(copy[u], target[u])'
                          /\ copy'[u].userCode = typed'[u]
  BY DEF PagesRepeat
<1>0. /\ shown[u] \in Devices /\ target[u] \in Devices
      /\ shown'[u] \in Devices /\ target'[u] \in Devices
  BY DEF TypeOK
<1>1. CASE Rests(u)
  BY <1>0, <1>1, Frozen DEF Rests, PagesRepeat, AskedOnce, Repeats
<1>2. CASE Shows(u)
  BY <1>0, <1>2, Frozen DEF Shows, StoresRepeat, Repeats
<1>3. CASE Copies(u)
  <2>1. asked'[shown[u]] = asked[shown[u]] /\ asked[shown[u]] # NoDoc
        /\ asked[shown[u]].userCode = typed[u]
    BY <1>0, <1>3, Frozen DEF Copies, PagesRepeat, AskedOnce
  <2>2. Repeats(codes[target'[u]], target'[u])
    BY <1>0, <1>3 DEF Copies, StoresRepeat
  <2>3. Repeats(copy[u], target[u])'
    BY <1>0, <1>3, <2>2, Frozen DEF Copies, Repeats
  <2> QED
    BY <1>3, <2>1, <2>3 DEF Copies
<1> QED
  BY <1>1, <1>2, <1>3, BrowserChange DEF Confirms, Leaves

\* A confirmed approval stays: every write of a document approves it.
LEMMA ApprovalsStep ==
    TypeOK /\ StoresRepeat /\ PagesRepeat /\ ApprovalsStay /\ [Next]_vars
        => ApprovalsStay'
<1> SUFFICES ASSUME TypeOK, StoresRepeat, PagesRepeat, ApprovalsStay, [Next]_vars,
                    NEW u \in Users, browser'[u] = "approved"
             PROVE  /\ device'[target'[u]] # "none"
                    /\ codes'[target'[u]] # NoDoc => codes'[target'[u]].user # NoUser
  BY DEF ApprovalsStay
<1>1. target[u] \in Devices /\ (Rests(u) \/ Confirms(u))
  BY BrowserChange DEF Shows, Copies, Leaves, TypeOK
<1>2. target'[u] = target[u] /\ device[target[u]] # "none"
  BY <1>1, BrowserChange DEF Rests, Confirms, Approves, ApprovalsStay, StoresRepeat,
                             Repeats
<1>3. CASE Confirms(u)
  BY <1>1, <1>2, <1>3, Frozen, ApprovedFields DEF Confirms, Approves
<1>4. CASE Rests(u)
  <2>1. codes[target[u]] # NoDoc => codes[target[u]].user # NoUser
    BY <1>4 DEF Rests, ApprovalsStay
  <2>2. ASSUME NEW v \in Users, Approves(v, target[u])
        PROVE  codes'[target[u]].user # NoUser
    BY <2>2, ApprovedFields DEF Approves
  <2> QED
    BY <1>1, <1>2, <2>1, <2>2, Frozen, CodesChange DEF Asks
<1> QED
  BY <1>1, <1>3, <1>4

\* A poll keeps what it found, and finds what the stores repeat.
LEMMA ReadsStep ==
    TypeOK /\ AskedOnce /\ StoresRepeat /\ ReadsRepeat /\ [Next]_vars => ReadsRepeat'
<1> SUFFICES ASSUME TypeOK, AskedOnce, StoresRepeat, ReadsRepeat, [Next]_vars,
                    NEW p \in Polls
             PROVE  /\ poll'[p] = "idle" => got'[p] = NoDoc
                    /\ poll'[p] \in {"delete", "save", "issued"} \/ p \in lost'
                          => got'[p] # NoDoc
                    /\ got'[p] # NoDoc => Found(p)'
  BY DEF ReadsRepeat
<1>1. CASE GoesOn(p)
  <2>1. got'[p] # NoDoc => Found(p)'
    <3> SUFFICES ASSUME got'[p] # NoDoc PROVE Found(p)'
      OBVIOUS
    <3> DEFINE d == args[p].device
               u == got[p].user
    <3>1. d \in Devices /\ Found(p)
      BY <1>1 DEF GoesOn, ReadsRepeat, TypeOK
    <3>2. Repeats(got[p], d)'
      BY <1>1, <3>1, Frozen DEF GoesOn, Found, Repeats
    <3>3. Allows(u, d)'
      <4>1. ASSUME NEW v, Allows(v, d), v = u, NEW e \in Devices, e = d
            PROVE  Allows(u, d)'
        <5>1. Allows(v, e)'
          BY <4>1, AllowsStays
        <5> QED
          BY <1>1, <4>1, <5>1 DEF Allows, GoesOn
      <4> QED
        BY <3>1, <4>1 DEF Found
    <3> QED
      BY <1>1, <3>1, <3>2, <3>3 DEF GoesOn, Found
  <2> QED
    BY <1>1, <2>1, RefreshChange DEF GoesOn, ReadsRepeat
<1>2. ASSUME NEW d \in Devices, NEW client \in Clients, Reads(p, d, client)
      PROVE  /\ poll'[p] # "idle"
             /\ poll'[p] \in {"delete", "save", "issued"} \/ p \in lost'
                   => got'[p] # NoDoc
             /\ got'[p] # NoDoc => Found(p)'
  <2>1. CASE poll'[p] \in Errors
    BY <1>2, <2>1, RefreshChange DEF Reads, ReadsRepeat, Errors
  <2>2. CASE poll'[p] = "delete"
    <3>1. /\ got'[p] = codes[d] /\ codes[d] # NoDoc /\ codes[d].client = client
          /\ codes[d].user # NoUser /\ now <= codes[d].expiresAt
          /\ args'[p].device = d /\ args'[p].client = client /\ args'[p].began = now
      BY <1>2, <2>2 DEF Reads, Errors
    <3>2. Repeats(codes[d], d) /\ Allows(codes[d].user, d)
      BY <3>1 DEF StoresRepeat
    <3>3. Repeats(got[p], args[p].device)'
      BY <3>1, <3>2, Frozen DEF Repeats
    <3>4. ASSUME NEW v, v = codes[d].user PROVE Allows(got[p].user, args[p].device)'
      <4>1. Allows(v, d)'
        BY <3>2, <3>4, AllowsStays
      <4> QED
        BY <3>1, <3>4, <4>1 DEF Allows
    <3> QED
      BY <2>2, <3>1, <3>3, <3>4 DEF Found
  <2> QED
    BY <1>2, <2>1, <2>2 DEF Reads
<1> QED
  BY <1>1, <1>2, PollChange

\* A poll that has read something is past its beginning, and goes on.
LEMMA HasRead ==
    ASSUME TypeOK, ReadsRepeat, [Next]_vars, NEW p \in Polls, got[p] # NoDoc
    PROVE  GoesOn(p)
BY PollChange DEF Reads, ReadsRepeat

\* A refresh token keeps the document it came from.
LEMMA RefreshStep ==
    TypeOK /\ ReadsRepeat /\ RefreshRepeats /\ [Next]_vars => RefreshRepeats'
<1> SUFFICES ASSUME TypeOK, ReadsRepeat, RefreshRepeats, [Next]_vars,
                    NEW t \in refresh'
             PROVE  /\ got'[t.by] # NoDoc
                    /\ t.client = got'[t.by].client /\ t.user = got'[t.by].user
  BY DEF RefreshRepeats
<1>1. /\ t.by \in Polls /\ got[t.by] # NoDoc
      /\ t.client = got[t.by].client /\ t.user = got[t.by].user
  BY RefreshChange DEF TypeOK, RefreshRepeats, ReadsRepeat
<1> QED
  BY <1>1, HasRead DEF GoesOn

\* No step brings a document back that a poll had read.
LEMMA GoneForGood ==
    ASSUME TypeOK, ReadsRepeat, [Next]_vars, NEW p \in Polls, got[p] # NoDoc,
           codes[args[p].device] = NoDoc
    PROVE  codes'[args[p].device] = NoDoc
<1>1. args[p].device \in Devices /\ device[args[p].device] # "none"
  BY DEF ReadsRepeat, Found, Repeats, TypeOK
<1> QED
  BY <1>1, CodesChange DEF Asks, Approves

\* A delete that was not lost stays final.
LEMMA UsedUpStep == TypeOK /\ ReadsRepeat /\ UsedUp /\ [Next]_vars => UsedUp'
<1> SUFFICES ASSUME TypeOK, ReadsRepeat, UsedUp, [Next]_vars, NEW p \in Polls,
                    poll'[p] \in {"save", "issued"}, p \notin lost'
             PROVE  codes'[args'[p].device] = NoDoc
  BY DEF UsedUp
<1>1. GoesOn(p)
  BY PollChange DEF Reads, Errors
<1>2. p \notin lost
  BY RefreshChange
<1>3. poll[p] \in {"delete", "save", "issued"}
  BY <1>1 DEF GoesOn
<1>4. CASE poll[p] = "delete"
  BY <1>1, <1>4 DEF GoesOn
<1>5. CASE poll[p] \in {"save", "issued"}
  BY <1>1, <1>2, <1>5, GoneForGood DEF GoesOn, UsedUp, ReadsRepeat
<1> QED
  BY <1>3, <1>4, <1>5

\* What a poll saw of others when it began is as final as they were, and a
\* code that had been used up then has no document to find.
LEMMA LaterStep ==
    TypeOK /\ ReadsRepeat /\ UsedUp /\ LaterFindsNothing /\ [Next]_vars
        => LaterFindsNothing'
<1> SUFFICES ASSUME TypeOK, ReadsRepeat, UsedUp, LaterFindsNothing, [Next]_vars,
                    NEW p \in Polls
             PROVE  /\ \A u \in args'[p].approved : browser'[u] = "approved"
                    /\ \A q \in args'[p].polled :
                          /\ poll'[q] \in Ended
                          /\ poll'[q] = "issued" /\ q \notin lost'
                             /\ args'[p].device = args'[q].device
                                => got'[p] = NoDoc
  BY DEF LaterFindsNothing
<1>1. lost \subseteq lost'
  BY RefreshChange
<1>2. CASE GoesOn(p)
  <2>1. args'[p] = args[p] /\ got'[p] = got[p]
    BY <1>2 DEF GoesOn
  <2>2. args[p].approved \subseteq Users /\ args[p].polled \subseteq Polls
    BY DEF TypeOK
  <2>3. \A u \in args[p].approved : browser'[u] = "approved"
    BY <2>2, BrowserDone DEF LaterFindsNothing, Rests
  <2>4. \A q \in args[p].polled :
           poll[q] \in Ended /\ poll'[q] = poll[q] /\ args'[q] = args[q]
    BY <2>2, PollDone DEF LaterFindsNothing
  <2> QED
    BY <1>1, <2>1, <2>3, <2>4 DEF LaterFindsNothing
<1>3. ASSUME NEW d \in Devices, NEW client \in Clients, Reads(p, d, client)
      PROVE  /\ \A u \in args'[p].approved : browser'[u] = "approved"
             /\ \A q \in args'[p].polled :
                   /\ poll'[q] \in Ended
                   /\ poll'[q] = "issued" /\ q \notin lost'
                      /\ args'[p].device = args'[q].device
                         => got'[p] = NoDoc
  <2>1. /\ args'[p].device = d
        /\ args'[p].polled = {q \in Polls : poll[q] \in Ended}
        /\ args'[p].approved = {u \in Users : browser[u] = "approved"}
    BY <1>3 DEF Reads
  <2>2. \A u \in args'[p].approved : browser'[u] = "approved"
    BY <2>1, BrowserDone DEF Rests
  <2>3. \A q \in args'[p].polled :
           q \in Polls /\ poll'[q] = poll[q] /\ poll[q] \in Ended /\ args'[q] = args[q]
    BY <2>1, PollDone
  <2>4. ASSUME NEW q \in args'[p].polled, poll'[q] = "issued", q \notin lost',
               args'[q].device = d
        PROVE  got'[p] = NoDoc
    <3>1. codes[d] = NoDoc
      BY <1>1, <2>3, <2>4 DEF UsedUp
    <3> QED
      BY <1>3, <3>1 DEF Reads, ReadsRepeat
  <2> QED
    BY <2>1, <2>2, <2>3, <2>4
<1> QED
  BY <1>2, <1>3, PollChange

\* A poll that begins after a confirmed approval is not told to wait.
LEMMA SeenStep ==
    TypeOK /\ ApprovalsStay /\ LaterFindsNothing /\ ApprovalIsSeen /\ [Next]_vars
        => ApprovalIsSeen'
<1> SUFFICES ASSUME TypeOK, ApprovalsStay, LaterFindsNothing, ApprovalIsSeen,
                    [Next]_vars, NEW p \in Polls, NEW u \in args'[p].approved,
                    target'[u] = args'[p].device
             PROVE  poll'[p] # "authorization_pending"
  BY DEF ApprovalIsSeen
<1>1. CASE GoesOn(p)
  <2>1. args'[p] = args[p] /\ u \in Users /\ browser[u] = "approved"
    BY <1>1 DEF GoesOn, LaterFindsNothing, TypeOK
  <2>2. target'[u] = target[u]
    BY <2>1, BrowserDone DEF Rests
  <2> QED
    BY <1>1, <2>1, <2>2 DEF GoesOn, ApprovalIsSeen
<1>2. ASSUME NEW d \in Devices, NEW client \in Clients, Reads(p, d, client)
      PROVE  poll'[p] # "authorization_pending"
  <2>1. args'[p].device = d /\ u \in Users /\ browser[u] = "approved"
    BY <1>2 DEF Reads
  <2>2. target[u] = d
    BY <2>1, BrowserDone DEF Rests
  <2> QED
    BY <1>2, <2>1, <2>2 DEF Reads, ApprovalsStay
<1> QED
  BY <1>1, <1>2, PollChange

-----------------------------------------------------------------------------
(***************************************************************************)
(* Theorems.                                                               *)
(***************************************************************************)

\* The inductive invariant holds in every reachable state.
THEOREM InvariantHolds == Spec => []IInv
<1>1. IInv /\ [Next]_vars => IInv'
  BY TypeStep, AskedStep, StoresStep, PagesStep, ApprovalsStep, ReadsStep,
     RefreshStep, UsedUpStep, LaterStep, SeenStep DEF IInv
<1> QED
  BY <1>1, InitInvariant, PTL DEF Spec

\* Tokens of the device grant are for the client that asked and for a user who
\* allowed that very code, whoever else had the page or the user code.
THEOREM TokensAreAllowed == Spec => []IssuedAsAllowed
<1>1. IInv => IssuedAsAllowed
  <2> SUFFICES ASSUME IInv, NEW t \in refresh
               PROVE  /\ t.client = asked[args[t.by].device].client
                      /\ t.client = args[t.by].client
                      /\ Allows(t.user, args[t.by].device)
    BY DEF IssuedAsAllowed, Allows
  <2>1. t.by \in Polls /\ Found(t.by)
    BY DEF IInv, TypeOK, RefreshRepeats, ReadsRepeat
  <2> QED
    BY <2>1 DEF IInv, RefreshRepeats, Found, Repeats
<1> QED
  BY <1>1, InvariantHolds, PTL

\* A poll that comes after the expiry gets no token, whenever the approval was
\* written.
THEOREM ExpiryRespected == Spec => []ExpiredNeverIssues
<1>1. IInv => ExpiredNeverIssues
  BY DEF IInv, ReadsRepeat, Found, Repeats, ExpiredNeverIssues
<1> QED
  BY <1>1, InvariantHolds, PTL

\* No poll that begins after a confirmed approval is told to wait.
THEOREM ApprovalSeen == Spec => []ApprovalIsSeen
<1>1. IInv => ApprovalIsSeen
  BY DEF IInv
<1> QED
  BY <1>1, InvariantHolds, PTL

\* Two polls that do not overlap both get tokens only if the first one's
\* delete was lost.
THEOREM SingleUse == Spec => []ReuseNeedsLostDelete
<1>1. IInv => ReuseNeedsLostDelete
  BY DEF IInv, LaterFindsNothing, ReadsRepeat, ReuseNeedsLostDelete
<1> QED
  BY <1>1, InvariantHolds, PTL

-----------------------------------------------------------------------------
(***************************************************************************)
(* The refinement of OneTimeGrant.                                         *)
(***************************************************************************)

\* A step that concerns no poll leaves the abstract requests alone.
LEMMA PollsStutter ==
    ASSUME UNCHANGED <<args, got, lost>>,
           \A p \in Polls : (poll'[p] = "issued") = (poll[p] = "issued")
    PROVE  Entered' = Entered /\ Won' = Won /\ Leaked' = Leaked
BY DEF Entered, Won, Leaked

\* The abstract state follows the documents.
LEMMA GrantStutters ==
    ASSUME \A d \in Devices : GrantState'[d] = GrantState[d]
    PROVE  GrantState' = GrantState
BY DEF GrantState

\* A device that gets its code opens the grant; one that gets none opens
\* nothing.
LEMMA AuthorizationRefines ==
    ASSUME IInv, [Next]_vars, NEW d \in Devices, NEW client \in Clients,
           NEW userCode \in UserCodes, DeviceAuthorization(d, client, userCode)
    PROVE  [Abstract!Next]_(Abstract!vars)
<1>1. Entered' = Entered /\ Won' = Won /\ Leaked' = Leaked
  BY PollsStutter DEF DeviceAuthorization, pollVars
<1>2. device[d] = "none" /\ codes[d] = NoDoc
  BY DEF DeviceAuthorization, IInv, StoresRepeat, Repeats
<1>3. GrantState[d] = "none"
  BY <1>2 DEF GrantState
<1>4. \A e \in Devices \ {d} : device'[e] = device[e] /\ codes'[e] = codes[e]
  BY DEF DeviceAuthorization, Inserted, IInv, TypeOK
<1>5. \A e \in Devices \ {d} : GrantState'[e] = GrantState[e]
  BY <1>4 DEF GrantState
<1>6. CASE codes'[d] = codes[d]
  <2>1. device'[d] = "failed" \/ device'[d] = "none"
    <3>1. NewCode(client, userCode) \in Doc
      BY LifespanAssumption DEF NewCode, Doc, IInv, TypeOK
    <3> QED
      BY <1>2, <1>6, <3>1, NoneAssumption DEF DeviceAuthorization, Inserted, IInv, TypeOK
  <2>2. GrantState'[d] = GrantState[d]
    BY <1>2, <1>3, <1>6, <2>1 DEF GrantState
  <2> QED
    BY <1>1, <1>5, <2>2, GrantStutters DEF Abstract!vars
<1>7. CASE codes'[d] # codes[d]
  <2>1. GrantState'[d] = "open"
    BY <1>2, <1>7 DEF GrantState
  <2>2. GrantState' = [GrantState EXCEPT ![d] = "open"]
    BY <1>5, <2>1 DEF GrantState
  <2> QED
    BY <1>1, <1>3, <2>2 DEF Abstract!Next, Abstract!Open
<1> QED
  BY <1>6, <1>7

\* A browser changes documents, and neither makes nor removes one.
LEMMA BrowseRefines ==
    ASSUME IInv, NEW u \in Users, Browse(u)
    PROVE  UNCHANGED Abstract!vars
<1>1. Entered' = Entered /\ Won' = Won /\ Leaked' = Leaked
  <2>1. UNCHANGED pollVars
    BY DEF Browse, EnterCode, ShowDevicePage, DenyDevice, ReadForApproval,
           WriteApproval
  <2> QED
    BY <2>1, PollsStutter DEF pollVars
<1>2. device' = device
  BY DEF Browse, EnterCode, ShowDevicePage, DenyDevice, ReadForApproval,
         WriteApproval, deviceVars
<1>3. codes' = codes \/ WriteApproval(u)
  BY DEF Browse, EnterCode, ShowDevicePage, DenyDevice, ReadForApproval
<1>4. ASSUME WriteApproval(u), NEW d \in Devices
      PROVE  (codes'[d] = NoDoc) = (codes[d] = NoDoc)
  <2>1. copy[u] \in Doc
    BY <1>4 DEF WriteApproval, IInv, PagesRepeat, TypeOK
  <2>2. ApprovedDoc(u) # NoDoc
    <3>1. ApprovedDoc(u) \in Doc
      BY <2>1 DEF ApprovedDoc, Doc
    <3> QED
      BY <3>1, NoneAssumption
  <2> QED
    BY <1>4, <2>2 DEF WriteApproval, Matches, IInv, TypeOK
<1>5. \A d \in Devices : GrantState'[d] = GrantState[d]
  BY <1>2, <1>3, <1>4 DEF GrantState
<1> QED
  BY <1>1, <1>5, GrantStutters DEF Abstract!vars

\* A removed document closes the grant.
LEMMA RemovalCloses ==
    ASSUME IInv, NEW d \in Devices, codes[d] # NoDoc, device' = device,
           codes' = [codes EXCEPT ![d] = NoDoc]
    PROVE  GrantState[d] = "open" /\ GrantState' = [GrantState EXCEPT ![d] = "closed"]
<1>1. device[d] \in {"answered", "orphan"}
  BY DEF IInv, StoresRepeat, Repeats
<1>2. codes'[d] = NoDoc /\ \A e \in Devices \ {d} : codes'[e] = codes[e]
  BY DEF IInv, TypeOK
<1> QED
  BY <1>1, <1>2 DEF GrantState

\* A poll enters when it finds an approved document.
LEMMA ReadRefines ==
    ASSUME IInv, NEW p \in Polls, NEW d \in Devices, NEW client \in Clients,
           ReadForPoll(p, d, client)
    PROVE  [Abstract!Next]_(Abstract!vars)
<1>1. /\ codes' = codes /\ device' = device /\ lost' = lost
      /\ poll[p] = "idle" /\ poll'[p] \in Errors \cup {"delete"}
      /\ args'[p].device = d
      /\ \/ got' = got
         \/ codes[d] # NoDoc /\ got' = [got EXCEPT ![p] = codes[d]]
      /\ \A q \in Polls \ {p} : poll'[q] = poll[q] /\ args'[q] = args[q]
  BY DEF ReadForPoll, deviceVars, IInv, TypeOK, Errors
<1>2. got[p] = NoDoc /\ p \notin lost
  BY <1>1 DEF IInv, ReadsRepeat
<1>3. GrantState' = GrantState
  BY <1>1 DEF GrantState
<1>4. Won' = Won
  BY <1>1 DEF Won, Errors
<1>5. Leaked' = Leaked
  BY <1>1, <1>2 DEF Leaked, IInv, TypeOK
<1>6. CASE got' = got
  <2>1. Entered' = Entered
    BY <1>1, <1>2, <1>6 DEF Entered
  <2> QED
    BY <1>3, <1>4, <1>5, <2>1 DEF Abstract!vars
<1>7. CASE codes[d] # NoDoc /\ got' = [got EXCEPT ![p] = codes[d]]
  <2>1. got'[p] # NoDoc /\ \A q \in Polls \ {p} : got'[q] = got[q]
    BY <1>7 DEF IInv, TypeOK
  <2>2. Entered'[d] = Entered[d] \cup {p}
    BY <1>1, <2>1 DEF Entered
  <2>3. \A e \in Devices \ {d} : Entered'[e] = Entered[e]
    BY <1>1, <1>2, <2>1 DEF Entered
  <2>4. Entered' = [Entered EXCEPT ![d] = @ \cup {p}]
    BY <2>2, <2>3 DEF Entered
  <2>5. GrantState[d] = "open"
    BY <1>7 DEF GrantState
  <2> QED
    BY <1>3, <1>4, <1>5, <2>4, <2>5 DEF Abstract!Next, Abstract!Enter
<1> QED
  BY <1>1, <1>6, <1>7

\* A poll's delete closes the grant, or leaks it.
LEMMA DeleteRefines ==
    ASSUME IInv, NEW p \in Polls, DeleteForPoll(p)
    PROVE  [Abstract!Next]_(Abstract!vars)
<1> DEFINE d == args[p].device
<1>1. /\ d \in Devices /\ got[p] # NoDoc
      /\ UNCHANGED <<args, got>> /\ device' = device
  BY DEF DeleteForPoll, deviceVars, IInv, ReadsRepeat, TypeOK
<1>2. Entered' = Entered /\ Entered[d] # {}
  BY <1>1 DEF Entered
<1>3. Won' = Won
  <2>1. \A q \in Polls : (poll'[q] = "issued") = (poll[q] = "issued")
    BY DEF DeleteForPoll, IInv, TypeOK
  <2> QED
    BY <1>1, <2>1 DEF Won
<1>4. ASSUME codes' = codes \/ codes' = Removed(d)
      PROVE  \/ GrantState' = GrantState
             \/ /\ GrantState[d] = "open"
                /\ GrantState' = [GrantState EXCEPT ![d] = "closed"]
  <2>1. CASE codes' = codes
    BY <1>1, <2>1 DEF GrantState
  <2>2. CASE codes' = Removed(d) /\ codes[d] = NoDoc
    <3>1. codes' = codes
      BY <1>1, <2>2 DEF Removed, IInv, TypeOK
    <3> QED
      BY <1>1, <3>1 DEF GrantState
  <2>3. CASE codes' = Removed(d) /\ codes[d] # NoDoc
    BY <1>1, <2>3, RemovalCloses DEF Removed
  <2> QED
    BY <1>4, <2>1, <2>2, <2>3
<1>5. CASE lost' = lost
  <2>1. Leaked' = Leaked
    BY <1>1, <1>5 DEF Leaked
  <2>2. codes' = codes \/ codes' = Removed(d)
    BY DEF DeleteForPoll
  <2> QED
    BY <1>1, <1>2, <1>3, <1>4, <2>1, <2>2
       DEF Abstract!Next, Abstract!Close, Abstract!vars
<1>6. CASE lost' = lost \cup {p}
  <2>1. Leaked' = Leaked \cup {d}
    BY <1>1, <1>6 DEF Leaked
  <2>2. codes' = codes \/ codes' = Removed(d)
    BY DEF DeleteForPoll
  <2> QED
    BY <1>1, <1>2, <1>3, <1>4, <2>1, <2>2 DEF Abstract!Next, Abstract!LoseClose
<1> QED
  BY <1>5, <1>6 DEF DeleteForPoll

\* A poll wins when it is answered with tokens.
LEMMA SaveRefines ==
    ASSUME IInv, NEW p \in Polls, SaveForPoll(p)
    PROVE  [Abstract!Next]_(Abstract!vars)
<1> DEFINE d == args[p].device
<1>1. /\ d \in Devices /\ got[p] # NoDoc /\ poll[p] = "save"
      /\ UNCHANGED <<args, got, lost, codes>> /\ device' = device
      /\ \A q \in Polls \ {p} : poll'[q] = poll[q]
  BY DEF SaveForPoll, deviceVars, IInv, ReadsRepeat, TypeOK
<1>2. Entered' = Entered /\ Leaked' = Leaked /\ GrantState' = GrantState
  BY <1>1 DEF Entered, Leaked, GrantState
<1>3. CASE poll'[p] = "issued"
  <2>1. Won'[d] = Won[d] \cup {p} /\ \A e \in Devices \ {d} : Won'[e] = Won[e]
    BY <1>1, <1>3 DEF Won
  <2>2. Won' = [Won EXCEPT ![d] = @ \cup {p}]
    BY <2>1 DEF Won
  <2>3. p \in Entered[d]
    BY <1>1 DEF Entered
  <2>4. GrantState[d] = "closed" \/ d \in Leaked
    <3>1. CASE p \in lost
      BY <1>1, <3>1 DEF Leaked
    <3>2. CASE p \notin lost
      BY <1>1, <3>2 DEF IInv, UsedUp, ReadsRepeat, Found, Repeats, GrantState
    <3> QED
      BY <3>1, <3>2
  <2> QED
    BY <1>1, <1>2, <2>2, <2>3, <2>4 DEF Abstract!Next, Abstract!Win
<1>4. CASE poll'[p] # "issued"
  <2>1. Won' = Won
    BY <1>1, <1>4 DEF Won
  <2> QED
    BY <1>2, <2>1 DEF Abstract!vars
<1> QED
  BY <1>3, <1>4

\* Every step is a step of OneTimeGrant, or none.
LEMMA StepRefines == IInv /\ [Next]_vars => [Abstract!Next]_(Abstract!vars)
<1> SUFFICES ASSUME IInv, [Next]_vars PROVE [Abstract!Next]_(Abstract!vars)
  OBVIOUS
<1>1. ASSUME NEW d \in Devices, RemoveExpired(d) \/ RevokeDeviceCode(d)
      PROVE  [Abstract!Next]_(Abstract!vars)
  <2>1. /\ codes[d] # NoDoc /\ codes' = [codes EXCEPT ![d] = NoDoc]
        /\ device' = device /\ UNCHANGED pollVars
    BY <1>1 DEF RemoveExpired, RevokeDeviceCode, deviceVars
  <2>2. Entered' = Entered /\ Won' = Won /\ Leaked' = Leaked
    BY <2>1, PollsStutter DEF pollVars
  <2> QED
    BY <2>1, <2>2, RemovalCloses DEF Abstract!Next, Abstract!Close
<1>2. CASE Tick \/ Crash \/ UNCHANGED vars \/ \E client \in Clients : DeleteClient(client)
  <2>1. /\ codes' = codes /\ device' = device /\ UNCHANGED <<args, got, lost>>
        /\ \A p \in Polls : (poll'[p] = "issued") = (poll[p] = "issued")
    BY <1>2 DEF Tick, Crash, DeleteClient, vars, deviceVars, pollVars
  <2>2. Entered' = Entered /\ Won' = Won /\ Leaked' = Leaked
    BY <2>1, PollsStutter
  <2> QED
    BY <2>1, <2>2 DEF GrantState, Abstract!vars
<1> QED
  BY <1>1, <1>2, AuthorizationRefines, BrowseRefines, ReadRefines, DeleteRefines,
     SaveRefines DEF Next, PollStep

\* Every behaviour of devices, browsers and polls is one of OneTimeGrant:
\* whoever gets tokens had found the code before it was used up, unless its
\* delete was lost, and a used code never comes back.
THEOREM Refinement == Spec => ImplementsOneTimeGrant
<1>1. Init => Abstract!Init
  BY DEF Init, Abstract!Init, GrantState, Entered, Won, Leaked
<1> QED
  BY <1>1, StepRefines, InvariantHolds, PTL
     DEF Spec, ImplementsOneTimeGrant, Abstract!Spec

\* Once a poll got tokens no later poll finds the document of that code, if no
\* delete of it was lost: what an approval writes back late opens nothing.
THEOREM NoLateEntry == Spec => NoEntryAfterAWin
<1>1. IInv => \A d \in Devices : Won[d] # {} => GrantState[d] # "open" \/ d \in Leaked
  BY DEF IInv, UsedUp, Won, GrantState, Leaked
<1>2. IInv /\ [Next]_vars => [Abstract!NobodyEnters]_(Abstract!vars)
  <2> SUFFICES ASSUME Abstract!Next, NEW d \in Devices,
                      Won[d] # {} => GrantState[d] # "open" \/ d \in Leaked,
                      Won[d] # {}, d \notin Leaked'
               PROVE  Entered'[d] = Entered[d]
    BY <1>1, StepRefines DEF Abstract!NobodyEnters
  <2>1. PICK e \in Devices :
          \/ Abstract!Open(e) \/ Abstract!Close(e) \/ Abstract!LoseClose(e)
          \/ \E p \in Polls : Abstract!Enter(p, e) \/ Abstract!Win(p, e)
    BY DEF Abstract!Next
  <2>2. ASSUME NEW p \in Polls, Abstract!Enter(p, e)
        PROVE  Entered'[d] = Entered[d]
    <3>1. GrantState[e] = "open" /\ Leaked' = Leaked
      BY <2>2 DEF Abstract!Enter
    <3>2. Entered' = [Entered EXCEPT ![e] = @ \cup {p}]
      BY <2>2 DEF Abstract!Enter
    <3> QED
      BY <3>1, <3>2 DEF Entered
  <2>3. CASE Entered' = Entered
    BY <2>3
  <2> QED
    BY <2>1, <2>2, <2>3 DEF Abstract!Open, Abstract!Close, Abstract!LoseClose, Abstract!Win
<1> QED
  BY <1>2, InvariantHolds, PTL DEF Spec, NoEntryAfterAWin, Abstract!NobodyEntersAfterAWin

=============================================================================
