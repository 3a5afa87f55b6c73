----------------------------- MODULE DeviceFlow -----------------------------
(***************************************************************************)
(* The device grant: a device asks for a device code and a user code       *)
(* (DeviceAuthorization), a user types the user code into a browser and    *)
(* allows it (DeviceFlow, DeviceConsentFlow, HandleDeviceConsent), and the *)
(* device polls the token endpoint (handleDeviceCodeGrant).                *)
(*                                                                         *)
(* Both sides meet in one MongoDB document.  The device finds it by the    *)
(* signature of the device code, the browser by the user code: ten         *)
(* characters in upper case that nothing keeps unique.  Approval is a read *)
(* of the document followed by a write of the whole document, the poll a   *)
(* read followed by a delete and an insert.                                *)
(***************************************************************************)
EXTENDS Naturals, FiniteSets

CONSTANTS
    Devices,        \* device codes, one for each device_authorization request
    Users,          \* logged-in users, each at one device page
    Polls,          \* POST /oauth2/token requests with this grant type
    Clients,
    UserCodes,      \* user codes the generator may return
    DeviceLifespan, \* services.DeviceCodeLifespan, in ticks
    NoDoc, NoUser,
    MaxTime,        \* bound: ticks of the clock
    MaxFaults       \* bound: failed store operations and crashes

ASSUME LifespanAssumption == DeviceLifespan \in Nat \ {0}
ASSUME BoundAssumption == MaxTime \in Nat /\ MaxFaults \in Nat
ASSUME NonEmptyAssumption == Devices # {} /\ Clients # {} /\ UserCodes # {}

\* models.Token, the fields of a device code; approved and UserID are set
\* together, so a user stands for Approved = true.
Doc == [client : Clients, userCode : UserCodes, user : Users \cup {NoUser},
        expiresAt : Nat]

ASSUME NoneAssumption == NoDoc \notin Doc /\ NoUser \notin Users

VARIABLES
    now, faults,
    registered, \* clients in MongoDB
    codes,   \* Devices -> document
    device,  \* Devices -> what became of the device_authorization request
    asked,   \* Devices -> the document as the device asked for it
    browser, \* Users -> where the user is
    typed,   \* Users -> the user code typed in
    shown,   \* Users -> the device whose client the page shows
    target,  \* Users -> the device whose document the approval read
    copy,    \* Users -> that document
    poll,    \* Polls -> next operation or the answer
    args,    \* Polls -> input, when it came, the approvals and polls done then
    got,     \* Polls -> the approved document it found
    lost,    \* polls whose delete returned an error
    refresh  \* refresh tokens stored, with the poll that did

deviceVars  == <<device, asked>>
browserVars == <<browser, typed, shown, target, copy>>
pollVars    == <<poll, args, got, lost, refresh>>
vars == <<now, faults, registered, codes, deviceVars, browserVars, pollVars>>

Errors == {"invalid_grant", "expired_token", "authorization_pending",
           "server_error"}
Ended  == Errors \cup {"issued", "crashed"}

TypeOK ==
    /\ now \in Nat /\ faults \in Nat /\ registered \subseteq Clients
    /\ codes \in [Devices -> Doc \cup {NoDoc}]
    /\ device \in [Devices -> {"none", "answered", "orphan", "failed"}]
    /\ asked \in [Devices -> Doc \cup {NoDoc}]
    /\ browser \in [Users -> {"start", "entered", "shown", "write", "approved",
                              "denied", "error"}]
    /\ typed \in [Users -> UserCodes]
    /\ shown \in [Users -> Devices]
    /\ target \in [Users -> Devices]
    /\ copy \in [Users -> Doc \cup {NoDoc}]
    /\ poll \in [Polls -> {"idle", "delete", "save"} \cup Ended]
    /\ args \in [Polls -> [device : Devices, client : Clients, began : Nat,
                           polled : SUBSET Polls, approved : SUBSET Users]]
    /\ got \in [Polls -> Doc \cup {NoDoc}]
    /\ lost \subseteq Polls
    /\ refresh \subseteq [by : Polls, client : Clients, user : Users]

Unset(S) == CHOOSE x \in S : TRUE

Init ==
    /\ now = 0 /\ faults = 0 /\ registered = Clients
    /\ codes = [d \in Devices |-> NoDoc]
    /\ device = [d \in Devices |-> "none"]
    /\ asked = [d \in Devices |-> NoDoc]
    /\ browser = [u \in Users |-> "start"]
    /\ typed = [u \in Users |-> Unset(UserCodes)]
    /\ shown = [u \in Users |-> Unset(Devices)]
    /\ target = [u \in Users |-> Unset(Devices)]
    /\ copy = [u \in Users |-> NoDoc]
    /\ poll = [p \in Polls |-> "idle"]
    /\ args = [p \in Polls |->
                 [device |-> Unset(Devices), client |-> Unset(Clients),
                  began |-> 0, polled |-> {}, approved |-> {}]]
    /\ got = [p \in Polls |-> NoDoc]
    /\ lost = {} /\ refresh = {}

Succeeds == faults' = faults
Fails    == faults < MaxFaults /\ faults' = faults + 1

-----------------------------------------------------------------------------
(***************************************************************************)
(* The device asks for its codes.                                          *)
(***************************************************************************)

\* The document of GenerateAndStoreDeviceCode.
NewCode(client, userCode) ==
    [client |-> client, userCode |-> userCode, user |-> NoUser,
     expiresAt |-> now + DeviceLifespan]

\* ClientRepository.GetByClientID finds a document.
Known(client) == client \in registered

\* TokenRepository.Save, of a new document.
Inserted(d, new) == [codes EXCEPT ![d] = new]

\* DeviceAuthorization: the client is looked up and one document inserted.
\* The user code is random, and nothing looks for another that has it.
DeviceAuthorization(d, client, userCode) ==
    LET new == NewCode(client, userCode)
        Answer(a) == device' = [device EXCEPT ![d] = a]
    IN
    /\ device[d] = "none"
    /\ asked' = [asked EXCEPT ![d] = new]
    /\ \/ /\ Known(client) /\ Succeeds
          /\ Answer("answered")
          /\ codes' = Inserted(d, new)
       \/ /\ Known(client) /\ Fails
          /\ Answer("orphan")
          /\ codes' = Inserted(d, new)
       \/ /\ ~Known(client) /\ Succeeds
          /\ Answer("failed") /\ UNCHANGED codes
       \/ /\ Fails
          /\ Answer("failed") /\ UNCHANGED codes
    /\ UNCHANGED <<now, registered, browserVars, pollVars>>

-----------------------------------------------------------------------------
(***************************************************************************)
(* The user's browser.  A failed read shows the page of an unknown code.   *)
(* An approval is posted from the page; HandleDeviceConsent itself does    *)
(* not know whether one was shown.                                         *)
(***************************************************************************)

\* Mutant: the filter on user_code is forgotten.
FindAny(userCode) == {d \in Devices : codes[d] # NoDoc}

\* TokenRepository.GetByUserCode: some document that has the code.
FindByUserCode(userCode) ==
    {d \in Devices : codes[d] # NoDoc /\ codes[d].userCode = userCode}

GoTo(u, where) == browser' = [browser EXCEPT ![u] = where]

\* FrontendHandler.DeviceFlow, POST: the code must be known and not expired.
EnterCode(u, userCode) ==
    /\ browser[u] = "start"
    /\ \E d \in FindByUserCode(userCode) : now <= codes[d].expiresAt
    /\ GoTo(u, "entered")
    /\ typed' = [typed EXCEPT ![u] = userCode]
    /\ UNCHANGED <<now, faults, registered, codes, deviceVars, shown, target,
                   copy, pollVars>>

\* DeviceConsentFlow: the page names the client of the document found now.
ShowDevicePage(u) ==
    /\ browser[u] = "entered"
    /\ \/ \E d \in FindByUserCode(typed[u]) :
             /\ Succeeds /\ Known(codes[d].client)
             /\ shown' = [shown EXCEPT ![u] = d]
             /\ GoTo(u, "shown")
       \/ /\ \/ Fails
             \/ Succeeds /\ FindByUserCode(typed[u]) = {}
             \/ /\ Succeeds
                /\ \E d \in FindByUserCode(typed[u]) : ~Known(codes[d].client)
          /\ GoTo(u, "error") /\ UNCHANGED shown
    /\ UNCHANGED <<now, registered, codes, deviceVars, typed, target, copy,
                   pollVars>>

\* HandleDeviceConsent without consent=allow: nothing is stored.
DenyDevice(u) ==
    /\ browser[u] = "shown"
    /\ GoTo(u, "denied")
    /\ UNCHANGED <<now, faults, registered, codes, deviceVars, typed, shown,
                   target, copy, pollVars>>

\* ApproveDeviceCode, the read: the code is looked up again.
ReadForApproval(u) ==
    /\ browser[u] = "shown"
    /\ \/ \E d \in FindByUserCode(typed[u]) :
             /\ Succeeds /\ now <= codes[d].expiresAt
             /\ target' = [target EXCEPT ![u] = d]
             /\ copy' = [copy EXCEPT ![u] = codes[d]]
             /\ GoTo(u, "write")
       \/ /\ \/ Fails
             \/ Succeeds /\ FindByUserCode(typed[u]) = {}
             \/ /\ Succeeds
                /\ \E d \in FindByUserCode(typed[u]) : now > codes[d].expiresAt
          /\ GoTo(u, "error") /\ UNCHANGED <<target, copy>>
    /\ UNCHANGED <<now, registered, codes, deviceVars, typed, shown, pollVars>>

\* Mutant: Approved is toggled instead of set.
Toggled(u) == [copy[u] EXCEPT !.user = IF @ = NoUser THEN u ELSE NoUser]

\* The document an approval writes.
ApprovedDoc(u) == [copy[u] EXCEPT !.user = u]

\* Mutant: Update is an upsert.
Upserts(d) == TRUE

\* Update matches by _id and does not insert.
Matches(d) == codes[d] # NoDoc

\* ApproveDeviceCode, the write of the whole document.
WriteApproval(u) ==
    LET d == target[u]
        Stored == codes' = [codes EXCEPT ![d] = ApprovedDoc(u)]
    IN
    /\ browser[u] = "write"
    /\ \/ Succeeds /\ Matches(d) /\ Stored /\ GoTo(u, "approved")
       \/ Fails /\ Matches(d) /\ Stored /\ GoTo(u, "error")
       \/ Succeeds /\ ~Matches(d) /\ UNCHANGED codes /\ GoTo(u, "error")
       \/ Fails /\ UNCHANGED codes /\ GoTo(u, "error")
    /\ UNCHANGED <<now, registered, deviceVars, typed, shown, target, copy,
                   pollVars>>

-----------------------------------------------------------------------------
(***************************************************************************)
(* The device polls.                                                       *)
(***************************************************************************)

\* Mutant: the expiry of the document is not compared.
NeverExpired(doc) == FALSE

ForClient(doc, client) == doc.client = client
Expired(doc)  == now > doc.expiresAt
Approved(doc) == doc.user # NoUser

\* handleDeviceCodeGrant up to its checks.  The client is neither looked up
\* nor authenticated.
ReadForPoll(p, d, client) ==
    LET doc == codes[d]
        Answer(a) == poll' = [poll EXCEPT ![p] = a] /\ UNCHANGED got
    IN
    /\ poll[p] = "idle"
    /\ device[d] = "answered"
    /\ args' = [args EXCEPT ![p] =
                  [device |-> d, client |-> client, began |-> now,
                   polled |-> {q \in Polls : poll[q] \in Ended},
                   approved |-> {u \in Users : browser[u] = "approved"}]]
    /\ \/ Fails /\ Answer("invalid_grant")
       \/ Succeeds /\ doc = NoDoc /\ Answer("invalid_grant")
       \/ /\ Succeeds /\ doc # NoDoc
          /\ \/ ~ForClient(doc, client) /\ Answer("invalid_grant")
             \/ /\ ForClient(doc, client) /\ Expired(doc)
                /\ Answer("expired_token")
             \/ /\ ForClient(doc, client) /\ ~Expired(doc) /\ ~Approved(doc)
                /\ Answer("authorization_pending")
             \/ /\ ForClient(doc, client) /\ ~Expired(doc) /\ Approved(doc)
                /\ poll' = [poll EXCEPT ![p] = "delete"]
                /\ got' = [got EXCEPT ![p] = doc]
    /\ UNCHANGED <<now, registered, codes, deviceVars, browserVars, lost,
                   refresh>>

\* Mutant: the delete is forgotten.
Kept(d) == codes

Removed(d) == [codes EXCEPT ![d] = NoDoc]

\* The delete of the code; its error is dropped.
DeleteForPoll(p) ==
    LET d == args[p].device IN
    /\ poll[p] = "delete"
    /\ poll' = [poll EXCEPT ![p] = "save"]
    /\ \/ Succeeds /\ codes' = Removed(d) /\ UNCHANGED lost
       \/ /\ Fails
          /\ codes' \in {codes, Removed(d)}
          /\ lost' = lost \cup {p}
    /\ UNCHANGED <<now, registered, deviceVars, browserVars, args, got, refresh>>

\* The insert of the refresh token, and the answer.
SaveForPoll(p) ==
    LET new == [by |-> p, client |-> got[p].client, user |-> got[p].user] IN
    /\ poll[p] = "save"
    /\ \/ /\ Succeeds
          /\ refresh' = refresh \cup {new}
          /\ poll' = [poll EXCEPT ![p] = "issued"]
       \/ /\ Fails
          /\ refresh' \in {refresh, refresh \cup {new}}
          /\ poll' = [poll EXCEPT ![p] = "server_error"]
    /\ UNCHANGED <<now, registered, codes, deviceVars, browserVars, args, got,
                   lost>>

-----------------------------------------------------------------------------
Tick ==
    /\ now < MaxTime
    /\ now' = now + 1
    /\ UNCHANGED <<faults, registered, codes, deviceVars, browserVars, pollVars>>

\* The TTL index, where it exists.
RemoveExpired(d) ==
    /\ codes[d] # NoDoc /\ codes[d].expiresAt <= now
    /\ codes' = [codes EXCEPT ![d] = NoDoc]
    /\ UNCHANGED <<now, faults, registered, deviceVars, browserVars, pollVars>>

\* The device's client posts the device code itself to /oauth2/revoke, which
\* deletes a document of any type.
RevokeDeviceCode(d) ==
    /\ device[d] = "answered" /\ codes[d] # NoDoc
    /\ codes' = [codes EXCEPT ![d] = NoDoc]
    /\ UNCHANGED <<now, faults, registered, deviceVars, browserVars, pollVars>>

\* An administrator deletes a client; its device codes stay.
DeleteClient(client) ==
    /\ client \in registered
    /\ registered' = registered \ {client}
    /\ UNCHANGED <<now, faults, codes, deviceVars, browserVars, pollVars>>

\* The process stops; the approvals and polls it was serving end there.
Crash ==
    /\ Fails
    /\ \/ \E p \in Polls : poll[p] \in {"delete", "save"}
       \/ \E u \in Users : browser[u] = "write"
    /\ poll' = [p \in Polls |-> IF poll[p] \in {"delete", "save"} THEN "crashed"
                                                                 ELSE poll[p]]
    /\ browser' = [u \in Users |-> IF browser[u] = "write" THEN "error"
                                                           ELSE browser[u]]
    /\ UNCHANGED <<now, registered, codes, deviceVars, typed, shown, target,
                   copy, args, got, lost, refresh>>

Browse(u) ==
    \/ \E userCode \in UserCodes : EnterCode(u, userCode)
    \/ ShowDevicePage(u)
    \/ DenyDevice(u)
    \/ ReadForApproval(u)
    \/ WriteApproval(u)

PollStep(p) ==
    \/ \E d \in Devices, client \in Clients : ReadForPoll(p, d, client)
    \/ DeleteForPoll(p)
    \/ SaveForPoll(p)

Next ==
    \/ \E d \in Devices, client \in Clients, userCode \in UserCodes :
          DeviceAuthorization(d, client, userCode)
    \/ \E u \in Users : Browse(u)
    \/ \E p \in Polls : PollStep(p)
    \/ Tick
    \/ \E d \in Devices : RemoveExpired(d) \/ RevokeDeviceCode(d)
    \/ \E client \in Clients : DeleteClient(client)
    \/ Crash

Spec == Init /\ [][Next]_vars

-----------------------------------------------------------------------------
(***************************************************************************)
(* Properties.                                                             *)
(***************************************************************************)

\* Two user codes were equal: the generator drew the same one twice.
Collision(d, e) == d # e /\ asked[d] # NoDoc /\ asked[e] # NoDoc
                   /\ asked[d].userCode = asked[e].userCode

\* Tokens go to the client that asked for the device code, for a user who
\* allowed that very code, and the client the user saw on the page was that
\* one, unless two devices were given one user code.  (The page and the
\* approval each look the code up again; the poll uses the copy it read.  Of
\* an approval that is posted without a page only the first part would hold.)
IssuedAsAllowed ==
    \A t \in refresh :
        LET d == args[t.by].device IN
        /\ t.client = asked[d].client
        /\ t.client = args[t.by].client
        /\ target[t.user] = d
        /\ browser[t.user] \in {"approved", "error"}
        /\ shown[t.user] = d \/ Collision(d, shown[t.user])

\* No token comes from a poll that arrives after the device was told the code
\* is over, even when the approval was written after that time.
\* (ApproveDeviceCode checks the expiry before it writes.)
ExpiredNeverIssues ==
    \A p \in Polls :
        poll[p] = "issued" =>
            args[p].began <= asked[args[p].device].expiresAt

\* Once a user was told that the device is allowed, no poll that begins later
\* is told to wait: approvals only ever write an approved document, however
\* many users approve the same code at the same time.
ApprovalIsSeen ==
    \A p \in Polls : \A u \in args[p].approved :
        target[u] = args[p].device => poll[p] # "authorization_pending"

\* Two polls of one code that do not overlap both get tokens only if the
\* first one's delete was lost.  (handleDeviceCodeGrant drops its error.)
ReuseNeedsLostDelete ==
    \A p, q \in Polls :
        /\ poll[p] = "issued" /\ poll[q] = "issued"
        /\ args[p].device = args[q].device
        /\ q \in args[p].polled
        => q \in lost

=============================================================================
