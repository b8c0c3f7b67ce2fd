----------------------------- MODULE GroupMessages -----------------------------
(***************************************************************************)
(* groups.service.ts: the calls on the messages of a group, whose messages  *)
(* can be sent and pinned, and neither edited, deleted nor reacted to.      *)
(***************************************************************************)
EXTENDS DirectMessages

Group(r, op, at) == kind = "group" /\ Handling(r, op, at)

(* createMessage *)
GroupCreateWrite(r) ==
    /\ Group(r, "create", "called")
    /\ \E m \in Msgs \ Committed :
        /\ CreateMessage(m, Caller(r), request[r].arg)
        /\ request' = [request EXCEPT
               ![r].at = "written", ![r].msg = m,
               ![r].reply = [id |-> m, author |-> Caller(r), content |-> request[r].arg,
                             pinned |-> FALSE, reactions |-> NoReactions]]
    /\ UNCHANGED <<kind, reaction>> /\ Silent
GroupCreateBroadcast(r) ==
    /\ Group(r, "create", "written")
    /\ Broadcast([type |-> "created", msg |-> request[r].msg, entry |-> request[r].reply])
    /\ Answer(r, request[r].reply)
    /\ UNCHANGED <<server, joined>>

(* pinMessage, unpinMessage: by the owner *)
GroupPinCheck(r) ==
    /\ \E op \in {"pinMessage", "unpinMessage"} : Group(r, op, "called")
    /\ CheckMessage(r, Caller(r) \in Managers /\ Live(request[r].msg))
GroupPinWrite(r) ==
    /\ Group(r, "pinMessage", "checked")
    /\ PinMessage(request[r].msg)
    /\ Proceed(r, "written")
    /\ UNCHANGED <<kind, reaction>> /\ Silent
GroupPinBroadcast(r) ==
    /\ Group(r, "pinMessage", "written")
    /\ Broadcast([type |-> "pinned", msg |-> request[r].msg])
    /\ Answer(r, None)
    /\ UNCHANGED <<server, joined>>
GroupUnpinWrite(r) ==
    /\ Group(r, "unpinMessage", "checked")
    /\ UnpinMessage(request[r].msg)
    /\ Proceed(r, "written")
    /\ UNCHANGED <<kind, reaction>> /\ Silent
GroupUnpinBroadcast(r) ==
    /\ Group(r, "unpinMessage", "written")
    /\ Broadcast([type |-> "unpinned", msg |-> request[r].msg])
    /\ Answer(r, None)
    /\ UNCHANGED <<server, joined>>

(* listMessages, listPinnedMessages *)
ListGroupMessages(r) ==
    /\ \E op \in {"load", "older"} : Group(r, op, "called")
    /\ LET page == PageOf(request[r].arg) IN
       Answer(r, [items |-> [i \in DOMAIN page.ids |-> Entry(page.ids[i], NoReactions)],
                  nextCursor |-> NextCursor(page)])
    /\ Reading
ListGroupPins(r) ==
    /\ Group(r, "pins", "called")
    /\ Answer(r, Pinned)
    /\ Reading

GroupService(r) ==
    \/ GroupCreateWrite(r) \/ GroupCreateBroadcast(r)
    \/ GroupPinCheck(r) \/ GroupPinWrite(r) \/ GroupPinBroadcast(r)
    \/ GroupUnpinWrite(r) \/ GroupUnpinBroadcast(r)
    \/ ListGroupMessages(r) \/ ListGroupPins(r)
=============================================================================
