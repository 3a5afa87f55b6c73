---------------------------- MODULE DeviceGrant ----------------------------
(***************************************************************************)
(* DeviceFlow implements OneTimeGrant: the document is the door.  A device *)
(* code is open while its document is stored, a poll enters when it finds  *)
(* the document approved, and wins when it gets its tokens.                *)
(***************************************************************************)
EXTENDS DeviceFlow

GrantState == [d \in Devices |->
    IF codes[d] # NoDoc THEN "open"
    ELSE IF device[d] \in {"answered", "orphan"} THEN "closed" ELSE "none"]

Entered == [d \in Devices |->
    {p \in Polls : args[p].device = d /\ got[p] # NoDoc}]

Won == [d \in Devices |->
    {p \in Polls : args[p].device = d /\ poll[p] = "issued"}]

Leaked == {d \in Devices : \E p \in lost : args[p].device = d}

Abstract == INSTANCE OneTimeGrant
                WITH Codes <- Devices, Requests <- Polls,
                     state <- GrantState, entered <- Entered, won <- Won,
                     leaked <- Leaked

\* Every behaviour of the device and of the browsers, with every failure of
\* the store, is one of OneTimeGrant.  In particular a code that is used up
\* stays used up: the write of a slow approval that read the document before
\* does not bring it back, since Update does not insert.
ImplementsOneTimeGrant == Abstract!Spec

\* Once a poll got tokens, no later poll finds the document of that code, if
\* no delete of it was lost.
NoEntryAfterAWin == Abstract!NobodyEntersAfterAWin

=============================================================================
