--------------------------------- MODULE Pages ---------------------------------
(***************************************************************************)
(* The pages that show a conversation: the channel page                     *)
(* (channels/[channelId]/page.tsx), the direct page                         *)
(* (direct/[conversationId]/page.tsx) and the group page                    *)
(* (groups/[groupId]/page.tsx).  A page loads the newest messages and the   *)
(* pins, joins the conversation's room, and then keeps what it shows up to  *)
(* date from the answers to its own calls and from the events of its        *)
(* socket.  It never asks for the messages again unless its effects run     *)
(* anew.  The three pages differ in what they make of an event.             *)
(*                                                                         *)
(* A slot has one call at a time: the form or menu of the user, the first   *)
(* page, the older pages, each load of the pins.  Loads of the pins are not *)
(* kept apart: each is started as its cause arises, and each answer shown as *)
(* it comes.                                                               *)
(***************************************************************************)
EXTENDS GroupMessages

VARIABLE page       \* tab -> what its page shows

vars == <<server, request, joined, stream, page>>

ClosedPage == [kind |-> "closed", list |-> <<>>, cursor |-> None, pins |-> {}]

Shows(p, m) == \E i \in DOMAIN p.list : p.list[i].id = m
EntryShown(p, m) == p.list[CHOOSE i \in DOMAIN p.list : p.list[i].id = m]

-----------------------------------------------------------------------------
(***************************************************************************)
(* The setters of a page: the list is empty unless it is loaded.            *)
(***************************************************************************)
AppendMessage(p, e) == IF p.kind # "success" \/ Shows(p, e.id) THEN p
                       ELSE [p EXCEPT !.list = Append(@, e)]
PrependMessages(p, items) ==
    IF p.kind # "success" THEN p
    ELSE [p EXCEPT !.list = KeepAt(items, {i \in DOMAIN items : ~Shows(p, items[i].id)}) \o @]
UpdateMessageInState(p, e) ==
    [p EXCEPT !.list = [i \in DOMAIN @ |-> IF @[i].id = e.id THEN e ELSE @[i]]]
RemoveMessageFromState(p, m) ==
    [p EXCEPT !.list = KeepAt(@, {i \in DOMAIN @ : @[i].id # m})]
UpdateMessagePinState(p, m, isPinned) ==
    [p EXCEPT !.list = [i \in DOMAIN @ |->
        IF @[i].id = m THEN [@[i] EXCEPT !.pinned = isPinned] ELSE @[i]]]
RemovePinFromState(p, m) == [p EXCEPT !.pins = @ \ {m}]
UpdateMessageReactions(p, m, reactions) ==
    [p EXCEPT !.list = [i \in DOMAIN @ |->
        IF @[i].id = m THEN [@[i] EXCEPT !.reactions = reactions] ELSE @[i]]]

MergeActorsSummary(previous, incoming, byViewer) == incoming
\* Of an event of another user only the counts are taken, and an emoji of one's
\* own stays when the event does not mention it.
MergeReactionSummaryForViewer(previous, incoming, byViewer) ==
    [e \in Emojis |->
        IF incoming[e].count > 0
        THEN [count |-> incoming[e].count,
              mine |-> IF byViewer THEN incoming[e].mine ELSE previous[e].mine]
        ELSE IF previous[e].mine /\ ~byViewer THEN [count |-> 1, mine |-> TRUE]
        ELSE NoReactions[e]]
UpdateMessageReactionsFromEvent(p, m, incoming, byViewer) ==
    [p EXCEPT !.list = [i \in DOMAIN @ |->
        IF @[i].id = m
        THEN [@[i] EXCEPT !.reactions = MergeReactionSummaryForViewer(p.list[i].reactions,
                                                                      incoming, byViewer)]
        ELSE @[i]]]

-----------------------------------------------------------------------------
(***************************************************************************)
(* Loading                                                                 *)
(***************************************************************************)
Called(op, m, arg) == [IdleCall EXCEPT !.op = op, !.at = "called", !.msg = m, !.arg = arg]
IsFree(r) == request[r] = IdleCall
Answered(r, op) == Handling(r, op, "answered")
Settle(r) == request' = [request EXCEPT ![r] = IdleCall]
SetPage(t, p) == page' = [page EXCEPT ![t] = p]
MayLoadPins(t) == \E i \in PinLoads : IsFree(<<t, i>>)
NextPins(t) == <<t, CHOOSE i \in PinLoads : IsFree(<<t, i>>)>>
LoadPins(t) == /\ MayLoadPins(t)
               /\ request' = [request EXCEPT ![NextPins(t)] = Called("pins", NoMsg, None)]

\* The effects run: first when the page opens, and again when a refresh has given
\* the tab another access token.  The old socket goes; what was shown as well.
Open(t) ==
    /\ IsFree(<<t, "page">>)
    /\ SetPage(t, [page[t] EXCEPT !.kind = "loading", !.list = <<>>])
    /\ request' = [request EXCEPT ![<<t, "page">>] = Called("load", NoMsg, None)]
    /\ joined' = joined \ {t} /\ stream' = [stream EXCEPT ![t] = <<>>]
    /\ UNCHANGED server
Loaded(t) ==
    /\ Answered(<<t, "page">>, "load")
    /\ LET answer == request[<<t, "page">>].reply IN
       IF answer = Refused
       THEN /\ SetPage(t, [page[t] EXCEPT !.kind = "error"])
            /\ Settle(<<t, "page">>)
       ELSE /\ SetPage(t, [page[t] EXCEPT !.kind = "success", !.list = answer.items,
                                          !.cursor = answer.nextCursor])
            /\ MayLoadPins(t)
            /\ request' = [request EXCEPT ![<<t, "page">>] = IdleCall,
                                          ![NextPins(t)] = Called("pins", NoMsg, None)]
    /\ UNCHANGED server /\ Silent
PinsLoaded(t, i) ==
    /\ Answered(<<t, i>>, "pins")
    /\ LET answer == request[<<t, i>>].reply IN
       IF answer = Refused THEN UNCHANGED page
       ELSE SetPage(t, [page[t] EXCEPT !.pins = answer])
    /\ Settle(<<t, i>>)
    /\ UNCHANGED server /\ Silent

LoadOlderMessages(t) ==
    /\ page[t].kind = "success" /\ page[t].cursor # None
    /\ IsFree(<<t, "older">>)
    /\ request' = [request EXCEPT ![<<t, "older">>] = Called("older", NoMsg, page[t].cursor)]
    /\ UNCHANGED <<server, page>> /\ Silent
OlderLoaded(t) ==
    /\ Answered(<<t, "older">>, "older")
    /\ LET answer == request[<<t, "older">>].reply IN
       IF answer = Refused THEN UNCHANGED page
       ELSE SetPage(t, [PrependMessages(page[t], answer.items)
                            EXCEPT !.cursor = answer.nextCursor])
    /\ Settle(<<t, "older">>)
    /\ UNCHANGED server /\ Silent

-----------------------------------------------------------------------------
(***************************************************************************)
(* The socket.  It reconnects by itself, and then only joins the room again. *)
(***************************************************************************)
Join(t) ==
    /\ page[t].kind # "closed" /\ t \notin joined
    /\ joined' = joined \cup {t}
    /\ UNCHANGED <<server, request, page, stream>>
Disconnect(t) ==
    /\ t \in joined
    /\ joined' = joined \ {t} /\ stream' = [stream EXCEPT ![t] = <<>>]
    /\ UNCHANGED <<server, request, page>>

Arrives(t, type) == stream[t] # <<>> /\ Head(stream[t]).type = type
Taken(t) == stream' = [stream EXCEPT ![t] = Tail(@)]
Receive(t, p) == SetPage(t, p) /\ Taken(t) /\ UNCHANGED <<server, request, joined>>

\* The group page leaves the messages of its own user to handleSendMessage.
HandleMessageCreated(t) ==
    /\ Arrives(t, "created")
    /\ LET e == Head(stream[t]).entry IN
       Receive(t, IF kind = "group" /\ e.author = UserOf[t] THEN page[t]
                  ELSE AppendMessage(page[t], e))
HandleMessageUpdated(t) ==
    /\ Arrives(t, "updated")
    /\ Receive(t, UpdateMessageInState(page[t], Head(stream[t]).entry))
HandleMessageDeleted(t) ==
    /\ Arrives(t, "deleted")
    /\ LET m == Head(stream[t]).msg IN
       Receive(t, RemovePinFromState(RemoveMessageFromState(page[t], m), m))
\* The direct and the group page look for the message under a name that the event
\* does not have, and so find none.
HandleMessagePinned(t) ==
    /\ Arrives(t, "pinned")
    /\ LET m == Head(stream[t]).msg IN
       SetPage(t, IF kind = "channel" THEN UpdateMessagePinState(page[t], m, TRUE) ELSE page[t])
    /\ LoadPins(t)
    /\ Taken(t) /\ UNCHANGED <<server, joined>>
HandleMessageUnpinned(t) ==
    /\ Arrives(t, "unpinned")
    /\ LET m == Head(stream[t]).msg IN
       Receive(t, IF kind = "channel"
                  THEN RemovePinFromState(UpdateMessagePinState(page[t], m, FALSE), m)
                  ELSE page[t])
HandleReaction(t) ==
    /\ Arrives(t, "reacted")
    /\ LET e == Head(stream[t]) IN
       Receive(t, UpdateMessageReactionsFromEvent(page[t], e.msg, e.reactions,
                                                  e.user = UserOf[t]))
Event(t) == \/ HandleMessageCreated(t) \/ HandleMessageUpdated(t) \/ HandleMessageDeleted(t)
            \/ HandleMessagePinned(t) \/ HandleMessageUnpinned(t) \/ HandleReaction(t)

-----------------------------------------------------------------------------
(***************************************************************************)
(* What the user does with the messages he sees, and what the page makes of *)
(* the answer.  A call is accepted while ids last for all calls in flight.   *)
(***************************************************************************)
Asking(op) == {t \in Tabs : request[<<t, "user">>].op = op}
Ask(t, op, m, arg) ==
    /\ page[t].kind = "success" /\ IsFree(<<t, "user">>)
    /\ request' = [request EXCEPT ![<<t, "user">>] = Called(op, m, arg)]
    /\ UNCHANGED <<server, page>> /\ Silent
Told(t, op) == Answered(<<t, "user">>, op)
Reply(t) == request[<<t, "user">>].reply
Subject(t) == request[<<t, "user">>].msg
Answering(t, p) ==
    /\ SetPage(t, IF Reply(t) = Refused THEN page[t] ELSE p)
    /\ Settle(<<t, "user">>)
    /\ UNCHANGED server /\ Silent

Own(t, e) == e.author = UserOf[t]
CanPin(t) == kind = "direct" \/ UserOf[t] \in Managers

Submit(t, c) == /\ Cardinality(Msgs \ Committed) > Cardinality(Asking("create"))
                /\ Ask(t, "create", NoMsg, c)
Submitted(t) == Told(t, "create") /\ Answering(t, AppendMessage(page[t], Reply(t)))

EditSubmit(t, e, c) == kind # "group" /\ Own(t, e) /\ Ask(t, "update", e.id, c)
Edited(t) == Told(t, "update") /\ Answering(t, UpdateMessageInState(page[t], Reply(t)))

Delete(t, e) == kind # "group" /\ Own(t, e) /\ Ask(t, "remove", e.id, None)
Deleted(t) == Told(t, "remove") /\ Answering(t, RemoveMessageFromState(page[t], Subject(t)))

ClickPin(t, e) == CanPin(t) /\ ~e.pinned /\ Ask(t, "pinMessage", e.id, None)
PinAnswered(t) ==
    /\ Told(t, "pinMessage")
    /\ Answering(t, [UpdateMessagePinState(page[t], Subject(t), TRUE)
                      EXCEPT !.pins = @ \cup {Subject(t)}])
\* In the menu of a message, or in the list of pins.
ClickUnpin(t, m) ==
    /\ CanPin(t)
    /\ \/ m \in page[t].pins
       \/ Shows(page[t], m) /\ EntryShown(page[t], m).pinned
    /\ Ask(t, "unpinMessage", m, None)
UnpinAnswered(t) ==
    /\ Told(t, "unpinMessage")
    /\ Answering(t, RemovePinFromState(UpdateMessagePinState(page[t], Subject(t), FALSE),
                                    Subject(t)))

ReactionClick(t, e, emoji) ==
    /\ kind # "group"
    /\ Cardinality(FreshRids) > Cardinality(Asking("addReaction"))
    /\ Ask(t, IF e.reactions[emoji].mine THEN "removeReaction" ELSE "addReaction",
           e.id, emoji)
ReactionAnswered(t) ==
    /\ \E op \in {"addReaction", "removeReaction"} : Told(t, op)
    /\ Answering(t, UpdateMessageReactions(page[t], Subject(t), Reply(t)))

Clicks(t) ==
    \/ \E c \in Contents : Submit(t, c)
    \/ \E i \in DOMAIN page[t].list :
        LET e == page[t].list[i] IN
        \/ \E c \in Contents \ {e.content} : EditSubmit(t, e, c)
        \/ Delete(t, e)
        \/ ClickPin(t, e)
        \/ \E emoji \in Emojis : ReactionClick(t, e, emoji)
    \/ \E m \in Msgs : ClickUnpin(t, m)
Answers(t) ==
    \/ Submitted(t) \/ Edited(t) \/ Deleted(t) \/ PinAnswered(t) \/ UnpinAnswered(t)
    \/ ReactionAnswered(t) \/ Loaded(t) \/ OlderLoaded(t)
    \/ \E i \in PinLoads : PinsLoaded(t, i)

-----------------------------------------------------------------------------
(***************************************************************************)
(* A conversation with some messages, and nobody looking at it yet.         *)
(***************************************************************************)
NoRow == [used |-> FALSE, createdAt |-> CHOOSE t \in Times : TRUE,
          author |-> CHOOSE u \in Users : TRUE,
          content |-> CHOOSE c \in Contents : TRUE, deleted |-> FALSE, pinned |-> FALSE]
NoReaction == [active |-> FALSE, used |-> FALSE, msg |-> CHOOSE m \in Msgs : TRUE,
               user |-> CHOOSE u \in Users : TRUE, emoji |-> CHOOSE e \in Emojis : TRUE]
Kept(author, createdAt) ==
    [m \in Msgs |-> IF m \in DOMAIN author
                    THEN [NoRow EXCEPT !.used = TRUE, !.author = author[m],
                                       !.createdAt = createdAt[m]]
                    ELSE NoRow]
Init ==
    /\ kind \in Kinds
    /\ \E S \in SUBSET Msgs : \E author \in [S -> Users] : \E createdAt \in [S -> Times] :
           row = Kept(author, createdAt)
    /\ reaction = [i \in Rids |-> NoReaction]
    /\ request = [r \in Slots |-> IdleCall]
    /\ joined = {}
    /\ stream = [t \in Tabs |-> <<>>]
    /\ page = [t \in Tabs |-> ClosedPage]

Service(r) ==
    /\ ~IsFree(r)
    /\ CASE kind = "channel" -> ChannelService(r)
         [] kind = "direct" -> DirectService(r)
         [] kind = "group" -> GroupService(r)
    /\ UNCHANGED page
Fails(r) == Fault(r) /\ UNCHANGED page
Show(t) == Open(t) \/ LoadOlderMessages(t)
Next == \/ \E r \in Slots : Service(r) \/ Fails(r)
        \/ \E t \in Tabs : \/ Show(t) \/ Join(t) \/ Disconnect(t)
                           \/ Event(t)
                           \/ Clicks(t) \/ Answers(t)
Spec == Init /\ [][Next]_vars

\* The API goes on with what it has begun, and the pages with what they get.
Goes == \/ \E r \in Slots : Service(r)
        \/ \E t \in Tabs : Event(t) \/ Answers(t)
Fairness == WF_vars(Goes)
=============================================================================
