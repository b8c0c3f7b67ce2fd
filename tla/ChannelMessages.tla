---------------------------- MODULE ChannelMessages ----------------------------
(***************************************************************************)
(* messages.service.ts, reactions.service.ts: the calls on the messages of  *)
(* a channel.  Membership is as in module Channels and does not change      *)
(* here; what is sent is text, and who may do what is Managers (channel     *)
(* OWNER or ADMIN) or being the author.                                    *)
(***************************************************************************)
EXTENDS Messages

Channel(r, op, at) == kind = "channel" /\ Handling(r, op, at)

\* The handler has read the message: it goes on, or refuses the call.
CheckMessage(r, ok) == /\ IF ok THEN Proceed(r, "checked") ELSE Refuse(r)
                       /\ Reading

-----------------------------------------------------------------------------
(* create *)
CreateWrite(r) ==
    /\ Channel(r, "create", "called")
    /\ \E m \in Msgs \ Committed :
        /\ CreateMessage(m, Caller(r), request[r].arg)
        /\ request' = [request EXCEPT
               ![r].at = "written", ![r].msg = m,
               ![r].reply = [id |-> m, author |-> Caller(r), content |-> request[r].arg,
                             pinned |-> FALSE, reactions |-> NoReactions]]
    /\ UNCHANGED <<kind, reaction>> /\ Silent
CreateBroadcast(r) ==
    /\ Channel(r, "create", "written")
    /\ Broadcast([type |-> "created", msg |-> request[r].msg, entry |-> request[r].reply])
    /\ Answer(r, request[r].reply)
    /\ UNCHANGED <<server, joined>>
Create(r) == CreateWrite(r) \/ CreateBroadcast(r)

(* update: by the author, and within 15 minutes, which may have passed *)
UpdateCheck(r) ==
    /\ Channel(r, "update", "called")
    /\ LET m == request[r].msg IN
       \/ CheckMessage(r, Live(m) /\ row[m].author = Caller(r))
       \/ Refuse(r) /\ Reading
UpdateWrite(r) ==
    /\ Channel(r, "update", "checked")
    /\ UpdateMessage(request[r].msg, request[r].arg)
    /\ LET m == request[r].msg IN
       Keep(r, "written", [Entry(m, Summary(m, Caller(r))) EXCEPT !.content = request[r].arg])
    /\ UNCHANGED <<kind, reaction>> /\ Silent
UpdateBroadcast(r) ==
    /\ Channel(r, "update", "written")
    /\ Broadcast([type |-> "updated", msg |-> request[r].msg, entry |-> request[r].reply])
    /\ Answer(r, request[r].reply)
    /\ UNCHANGED <<server, joined>>
Update(r) == UpdateCheck(r) \/ UpdateWrite(r) \/ UpdateBroadcast(r)

(* remove: by the author or a manager *)
RemoveCheck(r) ==
    /\ Channel(r, "remove", "called")
    /\ LET m == request[r].msg IN
       CheckMessage(r, Live(m) /\ (row[m].author = Caller(r) \/ Caller(r) \in Managers))
RemoveWrite(r) ==
    /\ Channel(r, "remove", "checked")
    /\ SoftDeleteMessage(request[r].msg)
    /\ Proceed(r, "written")
    /\ UNCHANGED <<kind, reaction>> /\ Silent
RemoveUntold(r) == Channel(r, "remove", "written") /\ Answer(r, None) /\ Reading
RemoveBroadcast(r) ==
    /\ Channel(r, "remove", "written")
    /\ Broadcast([type |-> "deleted", msg |-> request[r].msg])
    /\ Answer(r, None)
    /\ UNCHANGED <<server, joined>>
Remove(r) == RemoveCheck(r) \/ RemoveWrite(r) \/ RemoveBroadcast(r)

-----------------------------------------------------------------------------
(* pinMessage, unpinMessage: by a manager *)
PinCheck(r) ==
    /\ \E op \in {"pinMessage", "unpinMessage"} : Channel(r, op, "called")
    /\ CheckMessage(r, Caller(r) \in Managers /\ Live(request[r].msg))
PinWrite(r) ==
    /\ Channel(r, "pinMessage", "checked")
    /\ PinMessage(request[r].msg)
    /\ Proceed(r, "written")
    /\ UNCHANGED <<kind, reaction>> /\ Silent
PinBroadcast(r) ==
    /\ Channel(r, "pinMessage", "written")
    /\ Broadcast([type |-> "pinned", msg |-> request[r].msg])
    /\ Answer(r, None)
    /\ UNCHANGED <<server, joined>>
UnpinWrite(r) ==
    /\ Channel(r, "unpinMessage", "checked")
    /\ UnpinMessage(request[r].msg)
    /\ Proceed(r, "written")
    /\ UNCHANGED <<kind, reaction>> /\ Silent
UnpinBroadcast(r) ==
    /\ Channel(r, "unpinMessage", "written")
    /\ Broadcast([type |-> "unpinned", msg |-> request[r].msg])
    /\ Answer(r, None)
    /\ UNCHANGED <<server, joined>>
Pin(r) == PinCheck(r) \/ PinWrite(r) \/ PinBroadcast(r) \/ UnpinWrite(r) \/ UnpinBroadcast(r)

-----------------------------------------------------------------------------
(* addReaction, removeReaction *)
ReactionCheck(r) ==
    /\ \E op \in {"addReaction", "removeReaction"} : Channel(r, op, "called")
    /\ CheckMessage(r, Live(request[r].msg))

FindSameOnly(r) ==
    /\ Channel(r, "addReaction", "checked")
    /\ LET same == Active(request[r].msg, Caller(r), request[r].arg) IN
       IF same # {} THEN Find(r, "dropping", same) ELSE Proceed(r, "creating")
    /\ Reading
\* The caller's reactions are read; the same emoji is taken back, others are replaced.
FindActiveByUser(r) ==
    /\ Channel(r, "addReaction", "checked")
    /\ LET m == request[r].msg
           same == Active(m, Caller(r), request[r].arg)
           others == ByUser(m, Caller(r))
       IN IF same # {} THEN Find(r, "dropping", same)
          ELSE IF others # {} THEN Find(r, "replacing", others)
          ELSE Proceed(r, "creating")
    /\ Reading
SoftDelete(r) ==
    /\ Channel(r, "addReaction", request[r].at) /\ request[r].at \in {"dropping", "replacing"}
    /\ DropReactions(request[r].found)
    /\ Proceed(r, IF request[r].at = "dropping" THEN "changed" ELSE "creating")
    /\ UNCHANGED <<kind, row>> /\ Silent
\* Created, or (P2002) somebody created the same one meanwhile: nothing is told then.
AddReactionWrite(r) ==
    /\ Channel(r, "addReaction", "creating")
    /\ LET m == request[r].msg  u == Caller(r)  e == request[r].arg IN
       IF Active(m, u, e) = {}
       THEN CreateReaction(m, u, e) /\ Proceed(r, "changed")
       ELSE Keep(r, "conflicted", None) /\ UNCHANGED reaction
    /\ UNCHANGED <<kind, row>> /\ Silent
AddReactionConflicted(r) ==
    /\ Channel(r, "addReaction", "conflicted")
    /\ Answer(r, Summary(request[r].msg, Caller(r)))
    /\ Reading
FindActive(r) ==
    /\ Channel(r, "removeReaction", "checked")
    /\ LET found == Active(request[r].msg, Caller(r), request[r].arg)
       IN IF found = {} THEN Refuse(r) ELSE Find(r, "removing", found)
    /\ Reading
RemoveReactionWrite(r) ==
    /\ Channel(r, "removeReaction", "removing")
    /\ DropReactions(request[r].found)
    /\ Proceed(r, "changed")
    /\ UNCHANGED <<kind, row>> /\ Silent
ListWithCounts(r) ==
    /\ \E op \in {"addReaction", "removeReaction"} : Channel(r, op, "changed")
    /\ Keep(r, "counted", Summary(request[r].msg, Caller(r)))
    /\ Reading
BroadcastReaction(r) ==
    /\ \E op \in {"addReaction", "removeReaction"} : Channel(r, op, "counted")
    /\ Broadcast([type |-> "reacted", msg |-> request[r].msg, user |-> Caller(r),
                  reactions |-> request[r].reply])
    /\ Answer(r, request[r].reply)
    /\ UNCHANGED <<server, joined>>
React(r) == \/ ReactionCheck(r) \/ FindActiveByUser(r) \/ SoftDelete(r)
            \/ AddReactionWrite(r) \/ AddReactionConflicted(r)
            \/ FindActive(r) \/ RemoveReactionWrite(r)
            \/ ListWithCounts(r) \/ BroadcastReaction(r)

-----------------------------------------------------------------------------
(* list, listPinnedMessages *)
List(r) ==
    /\ \E op \in {"load", "older"} : Channel(r, op, "called")
    /\ LET page == PageOf(request[r].arg) IN
       Answer(r, [items |-> [i \in DOMAIN page.ids |->
                                Entry(page.ids[i], Summary(page.ids[i], Caller(r)))],
                  nextCursor |-> NextCursor(page)])
    /\ Reading
ListPinnedMessages(r) ==
    /\ Channel(r, "pins", "called")
    /\ Answer(r, Pinned)
    /\ Reading

ChannelService(r) == \/ Create(r) \/ Update(r) \/ Remove(r) \/ Pin(r) \/ React(r)
                     \/ List(r) \/ ListPinnedMessages(r)
=============================================================================
