------------------------------- MODULE Contacts -------------------------------
(***************************************************************************)
(* contacts.service.ts: asking for a contact, answering, and starting a     *)
(* direct conversation (direct-conversations.service.ts, create).          *)
(***************************************************************************)
EXTENDS Social

Status(from, to) == contactRequest[<<from, to>>].status

\* By the id read earlier: the update or delete of a row that is gone throws.
\* Ids of two pairs may be equal here: a method compares those of one pair.
SameRow(p, id) == contactRequest[p].id = id
SetStatus(p, status) == contactRequest' = [contactRequest EXCEPT ![p].status = status]

\* A uuid: any id that no method in flight has read.
FreshId == CHOOSE id \in Ids : \A r \in Requests : request[r] = Idle \/ request[r].id # id
UpsertPending(p) ==
    contactRequest' = [contactRequest EXCEPT ![p] =
        IF @.status = "NONE" THEN [id |-> FreshId, status |-> "PENDING"]
                             ELSE [@ EXCEPT !.status = "PENDING"]]
DeleteSoftly(p) == SetStatus(p, "CANCELLED")
Delete(p) == contactRequest' = [contactRequest EXCEPT ![p] = [id |-> NoId, status |-> "NONE"]]

-----------------------------------------------------------------------------
(***************************************************************************)
(* create: the setting is read with the user, before the block is.          *)
(***************************************************************************)
AddContactCalled(r) ==
    /\ \E p \in Pairs : Accepted(r, [Call("addContact", "block", p[1], p[2])
                                        EXCEPT !.seen = privacy[p[2]]])
    /\ UNCHANGED tables

AddContactBlock(r) ==
    /\ At(r, "addContact", "block")
    /\ Check(r, /\ ~HasBlockInEitherDirection(request[r].by, request[r].whom)
                /\ request[r].seen # "NOBODY", "existing")

AddContactExisting(r) ==
    /\ At(r, "addContact", "existing")
    /\ Check(r, <<request[r].by, request[r].whom>> \notin contact,
             IF request[r].seen = "EVERYONE" THEN "add" ELSE "incoming")

AddContactAdd(r) ==
    /\ At(r, "addContact", "add")
    /\ contact' = contact \cup {<<request[r].by, request[r].whom>>}
    /\ Finish(r)
    /\ UNCHANGED <<people, contactRequest, conversation, circle>>

\* A request that comes the other way is accepted.
AddContactIncomingIgnored(r) ==
    /\ At(r, "addContact", "incoming")
    /\ Check(r, TRUE, "outgoing")
AddContactIncoming(r) ==
    /\ At(r, "addContact", "incoming")
    /\ Check(r, TRUE, IF Status(request[r].whom, request[r].by) = "PENDING"
                      THEN "between" ELSE "outgoing")

AddContactOutgoing(r) ==
    /\ At(r, "addContact", "outgoing")
    /\ Check(r, Status(request[r].by, request[r].whom) # "PENDING", "ask")

AddContactAsk(r) ==
    LET p == <<request[r].by, request[r].whom>> IN
    /\ At(r, "addContact", "ask")
    /\ UpsertPending(p)
    /\ Finish(r)
    /\ UNCHANGED <<people, contact, conversation, circle>>

-----------------------------------------------------------------------------
(***************************************************************************)
(* acceptRequest, and acceptRequestByUsers, to which addContact comes too.  *)
(* The row is read again, whatever its status is by then.                   *)
(***************************************************************************)
AcceptCalled(r) ==
    /\ \E p \in Pairs : /\ Status(p[1], p[2]) = "PENDING"
                        /\ Accepted(r, Call("accept", "between", p[2], p[1]))
    /\ UNCHANGED tables

Incoming(r) == <<request[r].whom, request[r].by>>
Answering(r, at) == At(r, "accept", at) \/ At(r, "addContact", at)

AcceptBetween(r) ==
    /\ Answering(r, "between")
    /\ request' = [request EXCEPT ![r] =
           IF contactRequest[Incoming(r)].status = "NONE" THEN Idle
           ELSE [@ EXCEPT !.at = "unblocked", !.id = contactRequest[Incoming(r)].id]]
    /\ UNCHANGED tables

AcceptUnblocked(r) ==
    /\ Answering(r, "unblocked")
    /\ Check(r, ~HasBlockInEitherDirection(request[r].by, request[r].whom), "tx")

\* One transaction; the update by id comes first, and throws if the row is gone.
Befriend(p) ==
    /\ SetStatus(p, "ACCEPTED")
    /\ contact' = contact \cup {p, <<p[2], p[1]>>}
AcceptTxUnchecked(r) ==
    /\ Answering(r, "tx")
    /\ IF SameRow(Incoming(r), request[r].id) THEN SetStatus(Incoming(r), "ACCEPTED")
       ELSE UNCHANGED contactRequest
    /\ contact' = contact \cup {Incoming(r), <<request[r].by, request[r].whom>>}
    /\ Finish(r)
    /\ UNCHANGED <<people, conversation, circle>>
AcceptTx(r) ==
    /\ Answering(r, "tx")
    /\ IF SameRow(Incoming(r), request[r].id) THEN Befriend(Incoming(r))
       ELSE UNCHANGED <<contactRequest, contact>>
    /\ Finish(r)
    /\ UNCHANGED <<people, conversation, circle>>

AddContact(r) ==
    \/ AddContactCalled(r) \/ AddContactBlock(r) \/ AddContactExisting(r) \/ AddContactAdd(r)
    \/ AddContactIncoming(r) \/ AddContactOutgoing(r) \/ AddContactAsk(r)
AcceptRequest(r) == AcceptCalled(r) \/ AcceptBetween(r) \/ AcceptUnblocked(r) \/ AcceptTx(r)

\* declineRequest, by the recipient, and cancelRequest, by the sender: found
\* while PENDING, written by id.
DeclineCalled(r) ==
    /\ \E p \in Pairs : /\ Status(p[1], p[2]) = "PENDING"
                        /\ Accepted(r, [Call("decline", "write", p[2], p[1])
                                            EXCEPT !.id = contactRequest[p].id])
    /\ UNCHANGED tables

DeclineWrite(r) ==
    /\ At(r, "decline", "write")
    /\ IF SameRow(Incoming(r), request[r].id) THEN SetStatus(Incoming(r), "DECLINED")
       ELSE UNCHANGED contactRequest
    /\ Finish(r)
    /\ UNCHANGED <<people, contact, conversation, circle>>

CancelCalled(r) ==
    /\ \E p \in Pairs : /\ Status(p[1], p[2]) = "PENDING"
                        /\ Accepted(r, [Call("cancel", "write", p[1], p[2])
                                            EXCEPT !.id = contactRequest[p].id])
    /\ UNCHANGED tables

CancelWrite(r) ==
    LET p == <<request[r].by, request[r].whom>> IN
    /\ At(r, "cancel", "write")
    /\ IF SameRow(p, request[r].id) THEN Delete(p) ELSE UNCHANGED contactRequest
    /\ Finish(r)
    /\ UNCHANGED <<people, contact, conversation, circle>>

RemoveContact(r) ==
    /\ AtOnce(r)
    /\ \E p \in contact : contact' = contact \ {p}
    /\ UNCHANGED <<people, contactRequest, conversation, circle>>

\* startDirectConversation asks for a contact first, the direct create does not.
\* The unique key makes the second of two racing creations return the first's.
DirectCalled(r) ==
    /\ \E p \in Pairs : Accepted(r, Call("direct", "block", p[1], p[2]))
    /\ UNCHANGED tables

DirectBlock(r) ==
    /\ At(r, "direct", "block")
    /\ Check(r, ~HasBlockInEitherDirection(request[r].by, request[r].whom), "write")

DirectWrite(r) ==
    /\ At(r, "direct", "write")
    /\ conversation' = conversation \cup {{request[r].by, request[r].whom}}
    /\ Finish(r)
    /\ UNCHANGED <<people, contactRequest, contact, circle>>

ContactsMethod(r) ==
    \/ Block(r) \/ Unblock(r) \/ UpdateContactPrivacy(r)
    \/ AddContact(r) \/ AcceptRequest(r)
    \/ DeclineCalled(r) \/ DeclineWrite(r) \/ CancelCalled(r) \/ CancelWrite(r)
    \/ RemoveContact(r)
    \/ DirectCalled(r) \/ DirectBlock(r) \/ DirectWrite(r)
=============================================================================
