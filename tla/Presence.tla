-------------------------------- MODULE Presence --------------------------------
(***************************************************************************)
(* The websocket gateway and its presence service, for one user's sockets.  *)
(* A handler runs until it awaits, so an action is what runs between two    *)
(* awaits.  An await of the in-memory store is over before any other        *)
(* callback runs (Turn); one of the Redis store, or of the database, is not.*)
(*                                                                         *)
(* The others are represented by what they were told last: the viewers of a *)
(* room by roomView, the partner in a direct conversation, who hears it     *)
(* wherever he is, by partnerView.  userRooms is written and never read.    *)
(***************************************************************************)
EXTENDS Naturals, FiniteSets

CONSTANTS
    Sockets,     \* ids of the connections the user may open (a bound)
    Channels,    \* channel rooms; a group room is one in which nobody types
    Directs,     \* direct conversation rooms
    Lanes,       \* messages of a socket that may be in flight at once (a bound)
    NoRoom,
    Faults       \* whether a query may reject and the process may die

ASSUME PresenceAssumption ==
    /\ Channels \cap Directs = {}
    /\ NoRoom \notin Channels \cup Directs
    /\ {"connection", "disconnect"} \cap Lanes = {}
    /\ Faults \in BOOLEAN

Rooms == Channels \cup Directs
Handlers == Sockets \X ({"connection", "disconnect"} \cup Lanes)

VARIABLES
    store,        \* "memory" or "redis": PRESENCE_REDIS_URL at start-up
    conn,         \* socket -> "new", "open" or "closed"
    known,        \* sockets whose data.user is set
    tracked,      \* the user's sockets in the presence store
    socketRooms,  \* PresenceService.socketRooms
    joined,       \* socket.io's own rooms of each socket
    access,       \* the channels channelsService.findById finds for the user
    roomView,     \* room -> what its other viewers were told last
    partnerView,  \* conversation -> what the partner was told last
    task          \* handler -> where it stands

connections == <<conn, known, joined, socketRooms>>
views == <<roomView, partnerView>>
vars == <<store, connections, tracked, access, views, task>>

Told == {"unknown", "online", "offline"}
Task == [at: {"token", "track", "list", "tell", "untrack", "rooms", "room", "partner",
              "tracked", "access", "enter", "typing"},
         room: Rooms \cup {NoRoom}, rooms: SUBSET Rooms, todo: SUBSET Directs,
         ids: SUBSET Sockets, says: Told]

Idle == [at |-> "idle"]
Start(at) == [at |-> at, room |-> NoRoom, rooms |-> {}, todo |-> {}, ids |-> {},
              says |-> "unknown"]

\* Awaiting the in-memory store yields to nothing but the handler itself.
AwaitsStore(h) == task[h].at \in {"track", "untrack", "rooms", "room", "tracked"}
Turn(h) == store = "redis" \/ \A g \in Handlers \ {h} : ~AwaitsStore(g)
Quiet == store = "redis" \/ \A g \in Handlers : ~AwaitsStore(g)

At(h, at) == task[h].at = at /\ Turn(h)
Goto(h, t) == task' = [task EXCEPT ![h] = t]
Finish(h) == Goto(h, Idle)

-----------------------------------------------------------------------------
NoOtherSocketInRoom(ids, s, room) == FALSE
HasOtherSocketInRoom(ids, s, room) ==
    \E t \in ids \ {s} : room \in socketRooms[t]

AddSocketRoom(s, room) == socketRooms' = [socketRooms EXCEPT ![s] = @ \cup {room}]
RemoveSocketRoom(s, room) == socketRooms' = [socketRooms EXCEPT ![s] = @ \ {room}]
Leave(s, room) == joined' = [joined EXCEPT ![s] = @ \ {room}]
TellRoom(room, what) == roomView' = [roomView EXCEPT ![room] = what]
TellPartner(c, what) == partnerView' = [partnerView EXCEPT ![c] = what]

\* The transport is gone: socket.io empties its rooms, and handleDisconnect
\* takes what the service knows of the socket before it awaits anything.
CloseAfterClearing(s, tasks) ==
    /\ conn' = [conn EXCEPT ![s] = "closed"]
    /\ joined' = [joined EXCEPT ![s] = {}]
    /\ socketRooms' = [socketRooms EXCEPT ![s] = {}]
    /\ task' = [tasks EXCEPT ![<<s, "disconnect">>] =
                    IF s \in known THEN [Start("untrack") EXCEPT !.rooms = socketRooms'[s]]
                    ELSE Idle]
Close(s, tasks) ==
    /\ conn' = [conn EXCEPT ![s] = "closed"]
    /\ joined' = [joined EXCEPT ![s] = {}]
    /\ socketRooms' = [socketRooms EXCEPT ![s] = {}]
    /\ task' = [tasks EXCEPT ![<<s, "disconnect">>] =
                    IF s \in known THEN [Start("untrack") EXCEPT !.rooms = socketRooms[s]]
                    ELSE Idle]

-----------------------------------------------------------------------------
(***************************************************************************)
(* handleConnection                                                        *)
(***************************************************************************)
Opened(s) ==
    /\ Quiet /\ conn[s] = "new"
    /\ conn' = [conn EXCEPT ![s] = "open"]
    /\ Goto(<<s, "connection">>, Start("token"))
    /\ UNCHANGED <<store, known, joined, socketRooms, tracked, access, views>>

\* The token is valid and its user exists.
Authenticated(s) ==
    /\ At(<<s, "connection">>, "token")
    /\ known' = known \cup {s}
    /\ Goto(<<s, "connection">>, Start("track"))
    /\ UNCHANGED <<store, conn, joined, socketRooms, tracked, access, views>>

TrackSocket(s) ==
    /\ At(<<s, "connection">>, "track")
    /\ tracked' = tracked \cup {s}
    /\ Goto(<<s, "connection">>, Start("list"))
    /\ UNCHANGED <<store, connections, access, views>>

\* The conversations of the user, to tell each partner; also for a disconnect.
ListConversations(h, what) ==
    /\ At(h, "list")
    /\ Goto(h, [Start("tell") EXCEPT !.todo = Directs, !.says = what])
    /\ UNCHANGED <<store, connections, tracked, access, views>>

TellPartners(h) ==
    /\ At(h, "tell")
    /\ \E c \in task[h].todo :
           /\ TellPartner(c, task[h].says)
           /\ Goto(h, IF task[h].todo = {c} THEN Idle
                      ELSE [task[h] EXCEPT !.todo = @ \ {c}])
    /\ UNCHANGED <<store, connections, tracked, access, roomView>>

Connection(s) ==
    \/ Opened(s) \/ Authenticated(s) \/ TrackSocket(s)
    \/ ListConversations(<<s, "connection">>, "online") \/ TellPartners(<<s, "connection">>)

-----------------------------------------------------------------------------
(***************************************************************************)
(* handleDisconnect, and what it shares with leaving a room: asking for the *)
(* user's sockets, and telling the room unless another of them is in it.    *)
(***************************************************************************)
Disconnected(s) ==
    /\ Quiet /\ conn[s] = "open"
    /\ Close(s, task)
    /\ UNCHANGED <<store, known, tracked, access, views>>

UntrackUser(s) == tracked' = {}
UntrackSocket(s) == tracked' = tracked \ {s}

Untrack(s) ==
    LET h == <<s, "disconnect">> IN
    /\ At(h, "untrack")
    /\ UntrackSocket(s)
    /\ Goto(h, [task[h] EXCEPT !.at = IF task[h].rooms = {} THEN "tracked" ELSE "rooms"])
    /\ UNCHANGED <<store, connections, access, views>>

GetUserSocketIds(h) ==
    /\ At(h, "rooms")
    /\ \E room \in task[h].rooms :
           Goto(h, [task[h] EXCEPT !.at = "room", !.room = room, !.ids = tracked])
    /\ UNCHANGED <<store, connections, tracked, access, views>>

\* The next room of a disconnect; the end of a leave, which leaves the room.
Done(h) ==
    LET rest == task[h].rooms \ {task[h].room} IN
    IF h[2] = "disconnect"
    THEN /\ Goto(h, [Start(IF rest = {} THEN "tracked" ELSE "rooms") EXCEPT !.rooms = rest])
         /\ UNCHANGED joined
    ELSE Finish(h) /\ Leave(h[1], task[h].room)

LeaveRoom(h) ==
    LET room == task[h].room
        last == ~HasOtherSocketInRoom(task[h].ids, h[1], room) IN
    /\ At(h, "room")
    /\ IF last THEN TellRoom(room, "offline") ELSE UNCHANGED roomView
    /\ IF last /\ room \in Directs
       THEN Goto(h, [task[h] EXCEPT !.at = "partner", !.says = "offline"]) /\ UNCHANGED joined
       ELSE Done(h)
    /\ UNCHANGED <<store, conn, known, socketRooms, tracked, access, partnerView>>

\* broadcastPresenceToOtherParticipant, for the room just left, or joined.
InformPartner(h) ==
    /\ At(h, "partner")
    /\ TellPartner(task[h].room, task[h].says)
    /\ IF task[h].says = "online" THEN Finish(h) /\ UNCHANGED joined ELSE Done(h)
    /\ UNCHANGED <<store, conn, known, socketRooms, tracked, access, roomView>>

IsUserTracked(s) ==
    /\ At(<<s, "disconnect">>, "tracked")
    /\ Goto(<<s, "disconnect">>, IF tracked = {} THEN Start("list") ELSE Idle)
    /\ UNCHANGED <<store, connections, tracked, access, views>>

Disconnect(s) ==
    LET h == <<s, "disconnect">> IN
    \/ Disconnected(s) \/ Untrack(s) \/ GetUserSocketIds(h) \/ LeaveRoom(h)
    \/ InformPartner(h) \/ IsUserTracked(s)
    \/ ListConversations(h, "offline") \/ TellPartners(h)

-----------------------------------------------------------------------------
(***************************************************************************)
(* Messages of an authenticated socket: channel:join, direct:join and      *)
(* group:join, the three leaves, and typing:start and typing:stop.         *)
(***************************************************************************)
Free(s, lane) == Quiet /\ conn[s] = "open" /\ s \in known /\ task[<<s, lane>>] = Idle

JoinCalled(s, lane, room) ==
    /\ Free(s, lane)
    /\ Goto(<<s, lane>>, [Start("access") EXCEPT !.room = room])
    /\ UNCHANGED <<store, connections, tracked, access, views>>

\* findById of the channel; a participant of a conversation stays one.
JoinCheckedForgetful(h) ==
    /\ At(h, "access")
    /\ Goto(h, IF task[h].room \in access \cup Directs THEN Start("enter") ELSE Idle)
    /\ UNCHANGED <<store, connections, tracked, access, views>>
JoinChecked(h) ==
    /\ At(h, "access")
    /\ IF task[h].room \in access \cup Directs
       THEN Goto(h, [task[h] EXCEPT !.at = "enter"])
       ELSE Finish(h)
    /\ UNCHANGED <<store, connections, tracked, access, views>>

\* socket.join does nothing once the socket is closed; the rest goes ahead.
Enter(h) ==
    LET s == h[1]
        room == task[h].room IN
    /\ At(h, "enter")
    /\ joined' = IF conn[s] = "open" THEN [joined EXCEPT ![s] = @ \cup {room}] ELSE joined
    /\ AddSocketRoom(s, room)
    /\ TellRoom(room, "online")
    /\ IF room \in Directs
       THEN Goto(h, [task[h] EXCEPT !.at = "partner", !.says = "online"])
       ELSE Finish(h)
    /\ UNCHANGED <<store, conn, known, tracked, access, partnerView>>

\* The socket gives up the room: the rest is LeaveRoom.
GiveUp(h, room) ==
    /\ RemoveSocketRoom(h[1], room)
    /\ Goto(h, [Start("rooms") EXCEPT !.room = room, !.rooms = {room}])

LeaveCalled(s, lane, room) ==
    /\ Free(s, lane) /\ room \in joined[s]
    /\ GiveUp(<<s, lane>>, room)
    /\ UNCHANGED <<store, conn, known, joined, tracked, access, views>>

TypingCalled(s, lane, room) ==
    /\ Free(s, lane) /\ room \in joined[s] \cap Channels
    /\ Goto(<<s, lane>>, [Start("typing") EXCEPT !.room = room])
    /\ UNCHANGED <<store, connections, tracked, access, views>>

\* Who has lost access is put out of the room.
TypingChecked(h) ==
    /\ At(h, "typing")
    /\ IF task[h].room \in access THEN Finish(h) /\ UNCHANGED socketRooms
                                  ELSE GiveUp(h, task[h].room)
    /\ UNCHANGED <<store, conn, known, joined, tracked, access, views>>

Message(s, lane) ==
    LET h == <<s, lane>> IN
    \/ \E room \in Rooms : JoinCalled(s, lane, room) \/ LeaveCalled(s, lane, room)
                           \/ TypingCalled(s, lane, room)
    \/ JoinChecked(h) \/ Enter(h) \/ TypingChecked(h)
    \/ GetUserSocketIds(h) \/ LeaveRoom(h) \/ InformPartner(h)

-----------------------------------------------------------------------------
\* The user is given access to a channel, or loses it.
AccessChanges(c) ==
    /\ Quiet
    /\ access' \in {access \cup {c}, access \ {c}} \ {access}
    /\ UNCHANGED <<store, connections, tracked, views, task>>

\* A token that is refused, or a query that rejects before the socket is
\* tracked: the gateway disconnects it.
Refused(s) ==
    LET h == <<s, "connection">> IN
    /\ \/ task[h].at = "token"
       \/ Faults /\ store = "redis" /\ task[h].at = "track"
    /\ Turn(h)
    /\ IF conn[s] = "open" THEN Close(s, [task EXCEPT ![h] = Idle])
       ELSE Finish(h) /\ UNCHANGED <<conn, joined, socketRooms>>
    /\ UNCHANGED <<store, known, tracked, access, views>>

\* A rejected query ends a handler where it is; not that of a disconnect, whose
\* rejection nobody catches: it ends the process (Crash).
QueryFails(h) ==
    /\ Faults /\ Turn(h)
    /\ \/ task[h].at \in {"list", "tell"}
       \/ h[2] \in Lanes /\ task[h].at \in {"access", "typing", "partner"}
       \/ h[2] \in Lanes /\ task[h].at = "rooms" /\ store = "redis"
    /\ Finish(h)
    /\ UNCHANGED <<store, connections, tracked, access, views>>

\* The process ends and starts again: what it kept in memory is gone, and
\* everybody's client connects again and asks who is online.
Crash ==
    /\ Faults
    /\ conn' = [s \in Sockets |-> IF conn[s] = "new" THEN "new" ELSE "closed"]
    /\ known' = {}
    /\ tracked' = IF store = "redis" THEN tracked ELSE {}
    /\ socketRooms' = [s \in Sockets |-> {}]
    /\ joined' = [s \in Sockets |-> {}]
    /\ roomView' = [room \in Rooms |-> "unknown"]
    /\ partnerView' = [c \in Directs |-> "unknown"]
    /\ task' = [h \in Handlers |-> Idle]
    /\ UNCHANGED <<store, access>>

Init ==
    /\ store \in {"memory", "redis"}
    /\ conn = [s \in Sockets |-> "new"]
    /\ known = {}
    /\ tracked = {}
    /\ socketRooms = [s \in Sockets |-> {}]
    /\ joined = [s \in Sockets |-> {}]
    /\ access = Channels
    /\ roomView = [room \in Rooms |-> "unknown"]
    /\ partnerView = [c \in Directs |-> "unknown"]
    /\ task = [h \in Handlers |-> Idle]

Answered ==
    \/ \E s \in Sockets : Connection(s) \/ Refused(s) \/ Disconnect(s)
                          \/ \E lane \in Lanes : Message(s, lane)
    \/ \E c \in Channels : AccessChanges(c)
Next == Answered \/ (\E h \in Handlers : QueryFails(h)) \/ Crash

Spec == Init /\ [][Next]_vars

-----------------------------------------------------------------------------
\* Sockets, rooms, views and handlers stay within their types.
TypeOK ==
    /\ store \in {"memory", "redis"}
    /\ conn \in [Sockets -> {"new", "open", "closed"}]
    /\ known \subseteq Sockets /\ tracked \subseteq Sockets
    /\ socketRooms \in [Sockets -> SUBSET Rooms]
    /\ joined \in [Sockets -> SUBSET Rooms]
    /\ access \subseteq Channels
    /\ roomView \in [Rooms -> Told]
    /\ partnerView \in [Directs -> Told]
    /\ task \in [Handlers -> Task \cup {Idle}]

AtRest == \A h \in Handlers : task[h] = Idle
Live(s) == conn[s] = "open" /\ s \in known

\* A user with a live socket is never taken for offline, whichever other
\* sockets of the user come, go or fail meanwhile: a disconnect untracks its
\* own socket only, and a socket is not untracked before it is tracked.
LiveSocketsTracked ==
    \A s \in Sockets : Live(s) /\ task[<<s, "connection">>].at # "track" => s \in tracked

\* With the in-memory store, the viewers of a room are not left with `offline'
\* while a socket of the user that is connected counts as in the room.
NoFalseOffline ==
    store = "memory" =>
        \A room \in Rooms, s \in Sockets :
            roomView[room] = "offline" /\ conn[s] = "open" => room \notin socketRooms[s]

\* With nothing in flight the store, the service's rooms, socket.io's rooms and
\* what viewers were told agree.
ViewsAgree ==
    AtRest =>
        /\ tracked = {s \in Sockets : Live(s)}
        /\ socketRooms = joined
        /\ \A room \in Rooms :
               roomView[room] = "online" <=> \E s \in Sockets : room \in joined[s]

\* docs/dev-checklist.md: "closing one tab does not emit `offline` if another tab
\* (socket) remains connected": a partner told offline has no live socket to tell of.
ConnectedIsNotOffline ==
    AtRest => \A c \in Directs : partnerView[c] = "offline" => \A s \in Sockets : ~Live(s)
=============================================================================
