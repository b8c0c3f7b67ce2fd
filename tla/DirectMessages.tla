---------------------------- MODULE DirectMessages ----------------------------
(***************************************************************************)
(* direct-conversations.service.ts: the calls on the messages of a direct   *)
(* conversation.  The callers are its two participants and neither has      *)
(* blocked the other (module Contacts has the blocks).  Unlike a channel's, *)
(* a reaction row is deleted for good and is unique by message, user and    *)
(* emoji, reactions are read by a query of their own, and deleting what is  *)
(* already deleted succeeds.                                               *)
(***************************************************************************)
EXTENDS ChannelMessages

Direct(r, op, at) == kind = "direct" /\ Handling(r, op, at)

-----------------------------------------------------------------------------
(* createMessage *)
DirectCreateWrite(r) ==
    /\ Direct(r, "create", "called")
    /\ \E m \in Msgs \ Committed :
        /\ CreateMessage(m, Caller(r), request[r].arg)
        /\ request' = [request EXCEPT
               ![r].at = "written", ![r].msg = m,
               ![r].reply = [id |-> m, author |-> Caller(r), content |-> request[r].arg,
                             pinned |-> FALSE, reactions |-> NoReactions]]
    /\ UNCHANGED <<kind, reaction>> /\ Silent
\* After the conversation's updatedAt is set.
DirectCreateBroadcast(r) ==
    /\ Direct(r, "create", "written")
    /\ Broadcast([type |-> "created", msg |-> request[r].msg, entry |-> request[r].reply])
    /\ Answer(r, request[r].reply)
    /\ UNCHANGED <<server, joined>>

(* updateMessage *)
DirectUpdateCheck(r) ==
    /\ Direct(r, "update", "called")
    /\ LET m == request[r].msg IN CheckMessage(r, Live(m) /\ row[m].author = Caller(r))
DirectUpdateWrite(r) ==
    /\ Direct(r, "update", "checked")
    /\ UpdateMessage(request[r].msg, request[r].arg)
    /\ LET m == request[r].msg IN
       Keep(r, "written", [Entry(m, NoReactions) EXCEPT !.content = request[r].arg])
    /\ UNCHANGED <<kind, reaction>> /\ Silent
DirectUpdateReactions(r) ==
    /\ Direct(r, "update", "written")
    /\ Keep(r, "counted", [request[r].reply EXCEPT
                               !.reactions = Summary(request[r].msg, Caller(r))])
    /\ Reading
DirectUpdateBroadcast(r) ==
    /\ Direct(r, "update", "counted")
    /\ Broadcast([type |-> "updated", msg |-> request[r].msg, entry |-> request[r].reply])
    /\ Answer(r, request[r].reply)
    /\ UNCHANGED <<server, joined>>

(* deleteMessage *)
DirectDeleteCheck(r) ==
    /\ Direct(r, "remove", "called")
    /\ LET m == request[r].msg IN
       IF m \notin Committed \/ row[m].author # Caller(r) THEN Refuse(r)
       ELSE IF row[m].deleted THEN Answer(r, None)
       ELSE Proceed(r, "checked")
    /\ Reading
DirectDeleteWrite(r) ==
    /\ Direct(r, "remove", "checked")
    /\ SoftDeleteMessage(request[r].msg)
    /\ Proceed(r, "written")
    /\ UNCHANGED <<kind, reaction>> /\ Silent
DirectDeleteBroadcast(r) ==
    /\ Direct(r, "remove", "written")
    /\ Broadcast([type |-> "deleted", msg |-> request[r].msg])
    /\ Answer(r, None)
    /\ UNCHANGED <<server, joined>>

DirectWriting(r) ==
    \/ DirectCreateWrite(r) \/ DirectCreateBroadcast(r)
    \/ DirectUpdateCheck(r) \/ DirectUpdateWrite(r)
    \/ DirectUpdateReactions(r) \/ DirectUpdateBroadcast(r)
    \/ DirectDeleteCheck(r) \/ DirectDeleteWrite(r) \/ DirectDeleteBroadcast(r)

-----------------------------------------------------------------------------
(* pinMessage, unpinMessage: by either participant *)
DirectPinCheck(r) ==
    /\ \E op \in {"pinMessage", "unpinMessage"} : Direct(r, op, "called")
    /\ CheckMessage(r, Live(request[r].msg))
DirectPinWrite(r) ==
    /\ Direct(r, "pinMessage", "checked")
    /\ PinMessage(request[r].msg)
    /\ Proceed(r, "written")
    /\ UNCHANGED <<kind, reaction>> /\ Silent
DirectPinBroadcast(r) ==
    /\ Direct(r, "pinMessage", "written")
    /\ Broadcast([type |-> "pinned", msg |-> request[r].msg])
    /\ Answer(r, None)
    /\ UNCHANGED <<server, joined>>
DirectUnpinWrite(r) ==
    /\ Direct(r, "unpinMessage", "checked")
    /\ UnpinMessage(request[r].msg)
    /\ Proceed(r, "written")
    /\ UNCHANGED <<kind, reaction>> /\ Silent
DirectUnpinBroadcast(r) ==
    /\ Direct(r, "unpinMessage", "written")
    /\ Broadcast([type |-> "unpinned", msg |-> request[r].msg])
    /\ Answer(r, None)
    /\ UNCHANGED <<server, joined>>
DirectPin(r) == \/ DirectPinCheck(r) \/ DirectPinWrite(r) \/ DirectPinBroadcast(r)
                \/ DirectUnpinWrite(r) \/ DirectUnpinBroadcast(r)

-----------------------------------------------------------------------------
(* addReaction, removeReaction *)
DirectReactionCheck(r) ==
    /\ \E op \in {"addReaction", "removeReaction"} : Direct(r, op, "called")
    /\ CheckMessage(r, Live(request[r].msg))
FindDirectReaction(r) ==
    /\ \E op \in {"addReaction", "removeReaction"} : Direct(r, op, "checked")
    /\ LET same == Active(request[r].msg, Caller(r), request[r].arg)
       IN IF same # {} THEN Find(r, "dropping", same)
          ELSE Proceed(r, IF request[r].op = "addReaction" THEN "replacing" ELSE "changed")
    /\ Reading
\* delete fails when the row has gone.
DeleteDirectReaction(r) ==
    /\ \E op \in {"addReaction", "removeReaction"} : Direct(r, op, "dropping")
    /\ IF \A i \in request[r].found : reaction[i].active
       THEN DropReactions(request[r].found) /\ Proceed(r, "changed")
       ELSE Refuse(r) /\ UNCHANGED reaction
    /\ UNCHANGED <<kind, row>> /\ Silent
DeleteDirectReactionsForUser(r) ==
    /\ Direct(r, "addReaction", "replacing")
    /\ DropReactions(ByUser(request[r].msg, Caller(r)))
    /\ Proceed(r, "creating")
    /\ UNCHANGED <<kind, row>> /\ Silent
\* A conflict (P2002) is passed over: the reaction is told as if it had been created.
CreateDirectReaction(r) ==
    /\ Direct(r, "addReaction", "creating")
    /\ LET m == request[r].msg  u == Caller(r)  e == request[r].arg IN
       IF Active(m, u, e) = {} THEN CreateReaction(m, u, e) ELSE UNCHANGED reaction
    /\ Proceed(r, "changed")
    /\ UNCHANGED <<kind, row>> /\ Silent
GetDirectMessageReactions(r) ==
    /\ \E op \in {"addReaction", "removeReaction"} : Direct(r, op, "changed")
    /\ Keep(r, "counted", Summary(request[r].msg, Caller(r)))
    /\ Reading
BroadcastDirectReaction(r) ==
    /\ \E op \in {"addReaction", "removeReaction"} : Direct(r, op, "counted")
    /\ Broadcast([type |-> "reacted", msg |-> request[r].msg, user |-> Caller(r),
                  reactions |-> request[r].reply])
    /\ Answer(r, request[r].reply)
    /\ UNCHANGED <<server, joined>>
DirectReact(r) == \/ DirectReactionCheck(r) \/ FindDirectReaction(r)
                  \/ DeleteDirectReaction(r) \/ DeleteDirectReactionsForUser(r)
                  \/ CreateDirectReaction(r)
                  \/ GetDirectMessageReactions(r) \/ BroadcastDirectReaction(r)

-----------------------------------------------------------------------------
(* listMessages: the rows, and then their reactions; listPinnedMessages *)
ListMessagesForConversation(r) ==
    /\ \E op \in {"load", "older"} : Direct(r, op, "called")
    /\ LET page == PageOf(request[r].arg) IN
       Keep(r, "listed", [items |-> [i \in DOMAIN page.ids |->
                                         Entry(page.ids[i], NoReactions)],
                          nextCursor |-> NextCursor(page)])
    /\ Reading
ListDirectReactions(r) ==
    /\ \E op \in {"load", "older"} : Direct(r, op, "listed")
    /\ LET list == request[r].reply IN
       Answer(r, [list EXCEPT !.items =
           [i \in DOMAIN list.items |->
               [list.items[i] EXCEPT !.reactions = Summary(list.items[i].id, Caller(r))]]])
    /\ Reading
ListDirectPins(r) ==
    /\ Direct(r, "pins", "called")
    /\ Answer(r, Pinned)
    /\ Reading

DirectService(r) == \/ DirectWriting(r) \/ DirectPin(r) \/ DirectReact(r)
                    \/ ListMessagesForConversation(r) \/ ListDirectReactions(r)
                    \/ ListDirectPins(r)
=============================================================================
