---------------------------- MODULE PresenceProofs ----------------------------
(***************************************************************************)
(* Proofs about Presence, for any sockets, rooms and messages in flight,    *)
(* with either store, failures, haste and restarts: a live socket is        *)
(* tracked, and a room is not told `offline' of a user who is in it.  Under  *)
(* the workloads of MCPresence the views agree once all is answered.  Those  *)
(* of MCUnread run in MCPresence too, and so the last two sections are about *)
(* Unread, for any messages, time and reads of the sidebar: what counts as   *)
(* read was seen, and the badge is the count.                               *)
(***************************************************************************)
EXTENDS MCPresence, FiniteSetTheorems, SequenceTheorems, TLAPS

InMemory == store = "memory"
Connecting(s) == task[<<s, "connection">>]

\* What a handler knows of its socket and its rooms, and no other can make untrue.
Knows(h) ==
    LET t == task[h]
        s == h[1] IN
    /\ t # Idle => conn[s] # "new"
    /\ t.at \in {"access", "enter", "typing", "room", "partner"} => t.room \in Rooms
    /\ h[2] = "connection" => t.at \in {"idle", "token", "track", "list", "tell"}
    /\ h[2] = "disconnect" /\ t # Idle => conn[s] = "closed"
    /\ h[2] \in Lanes /\ t # Idle /\ conn[s] = "open"
          => s \in known /\ (InMemory => Connecting(s).at # "track")
    /\ InMemory /\ t.at = "room" => t.ids = tracked
    /\ InMemory /\ t.at = "rooms" /\ conn[s] = "open" => t.rooms \cap socketRooms[s] = {}
    /\ InMemory /\ t.at = "room" /\ conn[s] = "open" => t.room \notin socketRooms[s]

SocketSound(s) ==
    /\ conn[s] = "new" => s \notin known /\ socketRooms[s] = {}
    /\ Connecting(s).at = "token" => s \notin known
    /\ InMemory /\ conn[s] = "open" /\ socketRooms[s] # {}
          => s \in known /\ Connecting(s).at # "track"

\* Of the handlers that await the in-memory store there is one.
Alone == InMemory => \A g, h \in Handlers : AwaitsStore(g) /\ AwaitsStore(h) => g = h

PInv == /\ TypeOK /\ LiveSocketsTracked /\ NoFalseOffline /\ Alone
        /\ \A h \in Handlers : Knows(h)
        /\ \A s \in Sockets : SocketSound(s)

-----------------------------------------------------------------------------
(***************************************************************************)
(* Handlers and their tasks                                                *)
(***************************************************************************)
LEMMA HandlerParts ==
    ASSUME NEW h \in Handlers
    PROVE  /\ h[1] \in Sockets /\ h = <<h[1], h[2]>>
           /\ h[2] = "connection" \/ h[2] = "disconnect" \/ h[2] \in Lanes
BY DEF Handlers

LEMMA HandlerOf ==
    ASSUME NEW s \in Sockets, NEW l \in {"connection", "disconnect"} \cup Lanes
    PROVE  <<s, l>> \in Handlers
BY DEF Handlers

LEMMA TaskAt ==
    /\ Idle \notin Task /\ Idle.at = "idle"
    /\ \A t \in Task : t.at # "idle" /\ t # Idle
BY DEF Idle, Task

LEMMA StartIsTask ==
    ASSUME NEW at \in {"token", "track", "list", "tell", "untrack", "rooms", "room", "partner",
                       "tracked", "access", "enter", "typing"}
    PROVE  /\ Start(at) \in Task /\ Start(at).at = at
           /\ Start(at).room = NoRoom /\ Start(at).rooms = {} /\ Start(at).todo = {}
BY DEF Start, Task, Told

LEMMA Goes ==
    ASSUME TypeOK, NEW h \in Handlers, NEW t \in Task \cup {Idle}, Goto(h, t)
    PROVE  /\ task' \in [Handlers -> Task \cup {Idle}] /\ task'[h] = t
           /\ \A g \in Handlers \ {h} : task'[g] = task[g]
BY DEF TypeOK, Goto

LEMMA AtTask ==
    ASSUME TypeOK, NEW h \in Handlers, NEW at, At(h, at), at # "idle"
    PROVE  task[h] \in Task /\ task[h].at = at /\ Turn(h)
BY TaskAt DEF TypeOK, At

-----------------------------------------------------------------------------
(***************************************************************************)
(* Types                                                                   *)
(***************************************************************************)
\* What one step may write of the views and of the service's rooms.
LEMMA ViewsTyped ==
    ASSUME TypeOK, NEW room, NEW what \in Told
    PROVE  /\ TellRoom(room, what) => roomView' \in [Rooms -> Told]
           /\ TellPartner(room, what) => partnerView' \in [Directs -> Told]
BY DEF TypeOK, TellRoom, TellPartner

LEMMA ListTypes ==
    ASSUME TypeOK, NEW h \in Handlers, NEW what \in Told, ListConversations(h, what)
    PROVE  TypeOK'
<1>1. [Start("tell") EXCEPT !.todo = Directs, !.says = what] \in Task
  BY DEF Start, Task
<1>2. task' \in [Handlers -> Task \cup {Idle}]
  BY <1>1, Goes DEF ListConversations
<1> QED BY <1>2 DEF ListConversations, TypeOK, views, connections

LEMMA TellTypes ==
    ASSUME TypeOK, NEW h \in Handlers, TellPartners(h)
    PROVE  TypeOK'
<1>1. task[h] \in Task
  BY AtTask DEF TellPartners
<1>2. PICK c \in task[h].todo :
           /\ TellPartner(c, task[h].says)
           /\ Goto(h, IF task[h].todo = {c} THEN Idle ELSE [task[h] EXCEPT !.todo = @ \ {c}])
  BY DEF TellPartners
<1>3. task[h].says \in Told /\ [task[h] EXCEPT !.todo = @ \ {c}] \in Task
  BY <1>1 DEF Task
<1>4. partnerView' \in [Directs -> Told]
  BY <1>2, <1>3, ViewsTyped
<1>5. task' \in [Handlers -> Task \cup {Idle}]
  BY <1>2, <1>3, Goes
<1> QED BY <1>4, <1>5 DEF TellPartners, TypeOK, connections

LEMMA ConnectionTypes ==
    ASSUME PInv, NEW s \in Sockets, Connection(s)
    PROVE  TypeOK'
<1> DEFINE h == <<s, "connection">>
<1>h. h \in Handlers
  BY HandlerOf
<1>i. TypeOK /\ PresenceAssumption
  BY PresenceAssumption DEF PInv
<1>1. CASE Opened(s)
  <2>1. task' \in [Handlers -> Task \cup {Idle}]
    BY <1>1, <1>h, <1>i, Goes, StartIsTask DEF Opened
  <2> QED BY <1>1, <2>1, <1>i DEF Opened, TypeOK, views
<1>2. CASE Authenticated(s)
  <2>1. task' \in [Handlers -> Task \cup {Idle}]
    BY <1>2, <1>h, <1>i, Goes, StartIsTask DEF Authenticated
  <2> QED BY <1>2, <2>1, <1>i DEF Authenticated, TypeOK, views
<1>3. CASE TrackSocket(s)
  <2>1. task' \in [Handlers -> Task \cup {Idle}]
    BY <1>3, <1>h, <1>i, Goes, StartIsTask DEF TrackSocket
  <2> QED BY <1>3, <2>1, <1>i DEF TrackSocket, TypeOK, views, connections
<1>4. CASE ListConversations(h, "online")
  BY <1>4, <1>h, <1>i, ListTypes DEF Told
<1>5. CASE TellPartners(h)
  BY <1>5, <1>h, <1>i, TellTypes
<1> QED BY <1>1, <1>2, <1>3, <1>4, <1>5 DEF Connection

LEMMA CloseTypes ==
    ASSUME TypeOK, NEW s \in Sockets, NEW ts \in [Handlers -> Task \cup {Idle}], Close(s, ts)
    PROVE  /\ conn' \in [Sockets -> {"new", "open", "closed"}]
           /\ joined' \in [Sockets -> SUBSET Rooms] /\ socketRooms' \in [Sockets -> SUBSET Rooms]
           /\ task' \in [Handlers -> Task \cup {Idle}]
<1>1. [Start("untrack") EXCEPT !.rooms = socketRooms[s]] \in Task
  <2>1. socketRooms[s] \in SUBSET Rooms
    BY DEF TypeOK
  <2> QED BY <2>1 DEF Start, Task, Told
<1>2. task' \in [Handlers -> Task \cup {Idle}]
  BY <1>1, HandlerOf DEF Close
<1> QED BY <1>2 DEF Close, TypeOK

\* Leaving a room, and what follows it.
LEMMA DoneTypes ==
    ASSUME TypeOK, NEW h \in Handlers, task[h] \in Task, Done(h)
    PROVE  task' \in [Handlers -> Task \cup {Idle}] /\ joined' \in [Sockets -> SUBSET Rooms]
<1> DEFINE rest == task[h].rooms \ {task[h].room}
<1>1. CASE h[2] = "disconnect"
  <2>1. [Start(IF rest = {} THEN "tracked" ELSE "rooms") EXCEPT !.rooms = rest] \in Task
    BY DEF Start, Task, Told
  <2>2. task' \in [Handlers -> Task \cup {Idle}]
    BY <1>1, <2>1, Goes DEF Done
  <2> QED BY <1>1, <2>2 DEF Done, TypeOK
<1>2. CASE h[2] # "disconnect"
  <2>1. task' \in [Handlers -> Task \cup {Idle}]
    BY <1>2, Goes DEF Done, Finish
  <2> QED BY <1>2, <2>1 DEF Done, Leave, TypeOK
<1> QED BY <1>1, <1>2

LEMMA RoomTypes ==
    ASSUME PInv, NEW h \in Handlers, GetUserSocketIds(h) \/ LeaveRoom(h) \/ InformPartner(h)
    PROVE  TypeOK'
<1>i. TypeOK
  BY DEF PInv
<1>t. task[h] \in Task
  BY <1>i, AtTask DEF GetUserSocketIds, LeaveRoom, InformPartner
<1>1. CASE GetUserSocketIds(h)
  <2>1. PICK room \in task[h].rooms :
             Goto(h, [task[h] EXCEPT !.at = "room", !.room = room, !.ids = tracked])
    BY <1>1 DEF GetUserSocketIds
  <2>2. [task[h] EXCEPT !.at = "room", !.room = room, !.ids = tracked] \in Task
    BY <1>t, <1>i DEF Task, TypeOK
  <2>3. task' \in [Handlers -> Task \cup {Idle}]
    BY <2>1, <2>2, <1>i, Goes
  <2> QED BY <1>1, <2>3, <1>i DEF GetUserSocketIds, TypeOK, connections, views
<1>2. CASE LeaveRoom(h)
  <2>1. roomView' \in [Rooms -> Told]
    BY <1>2, <1>i, ViewsTyped DEF LeaveRoom, TypeOK, Told
  <2>2. [task[h] EXCEPT !.at = "partner", !.says = "offline"] \in Task
    BY <1>t DEF Task, Told
  <2>3. task' \in [Handlers -> Task \cup {Idle}] /\ joined' \in [Sockets -> SUBSET Rooms]
    <3>1. CASE Done(h)
      BY <3>1, <1>i, <1>t, DoneTypes
    <3>2. CASE ~Done(h)
      <4>1. Goto(h, [task[h] EXCEPT !.at = "partner", !.says = "offline"]) /\ UNCHANGED joined
        BY <1>2, <3>2 DEF LeaveRoom
      <4> QED BY <4>1, <2>2, <1>i, Goes DEF TypeOK
    <3> QED BY <3>1, <3>2
  <2> QED BY <1>2, <2>1, <2>3, <1>i DEF LeaveRoom, TypeOK
<1>3. CASE InformPartner(h)
  <2>1. partnerView' \in [Directs -> Told]
    <3>1. task[h].says \in Told
      BY <1>t DEF Task
    <3> QED BY <1>3, <1>i, <3>1, ViewsTyped DEF InformPartner
  <2>2. task' \in [Handlers -> Task \cup {Idle}] /\ joined' \in [Sockets -> SUBSET Rooms]
    <3>1. CASE Done(h)
      BY <3>1, <1>i, <1>t, DoneTypes
    <3>2. CASE ~Done(h)
      BY <1>3, <3>2, <1>i, Goes DEF InformPartner, Finish, TypeOK
    <3> QED BY <3>1, <3>2
  <2> QED BY <1>3, <2>1, <2>2, <1>i DEF InformPartner, TypeOK
<1> QED BY <1>1, <1>2, <1>3

LEMMA DisconnectTypes ==
    ASSUME PInv, NEW s \in Sockets, Disconnect(s)
    PROVE  TypeOK'
<1> DEFINE h == <<s, "disconnect">>
<1>h. h \in Handlers
  BY HandlerOf
<1>i. TypeOK
  BY DEF PInv
<1>1. CASE Disconnected(s)
  BY <1>1, <1>i, CloseTypes DEF Disconnected, TypeOK, views
<1>2. CASE Untrack(s)
  <2>1. task[h] \in Task
    BY <1>2, <1>h, <1>i, AtTask DEF Untrack
  <2>2. [task[h] EXCEPT !.at = IF task[h].rooms = {} THEN "tracked" ELSE "rooms"] \in Task
    BY <2>1 DEF Task
  <2>3. task' \in [Handlers -> Task \cup {Idle}]
    BY <1>2, <2>2, <1>h, <1>i, Goes DEF Untrack
  <2> QED BY <1>2, <2>3, <1>i DEF Untrack, UntrackSocket, TypeOK, connections, views
<1>3. CASE GetUserSocketIds(h) \/ LeaveRoom(h) \/ InformPartner(h)
  BY <1>3, <1>h, RoomTypes
<1>4. CASE IsUserTracked(s)
  <2>1. task' \in [Handlers -> Task \cup {Idle}]
    BY <1>4, <1>h, <1>i, Goes, StartIsTask DEF IsUserTracked
  <2> QED BY <1>4, <2>1, <1>i DEF IsUserTracked, TypeOK, connections, views
<1>5. CASE ListConversations(h, "offline")
  BY <1>5, <1>h, <1>i, ListTypes DEF Told
<1>6. CASE TellPartners(h)
  BY <1>6, <1>h, <1>i, TellTypes
<1> QED BY <1>1, <1>2, <1>3, <1>4, <1>5, <1>6 DEF Disconnect

LEMMA GiveUpTypes ==
    ASSUME TypeOK, NEW h \in Handlers, NEW room \in Rooms, GiveUp(h, room)
    PROVE  /\ task' \in [Handlers -> Task \cup {Idle}]
           /\ socketRooms' \in [Sockets -> SUBSET Rooms]
<1>1. [Start("rooms") EXCEPT !.room = room, !.rooms = {room}] \in Task
  BY DEF Start, Task, Told
<1>2. task' \in [Handlers -> Task \cup {Idle}]
  BY <1>1, Goes DEF GiveUp
<1> QED BY <1>2, HandlerParts DEF GiveUp, RemoveSocketRoom, TypeOK

LEMMA MessageTypes ==
    ASSUME PInv, NEW s \in Sockets, NEW lane \in Lanes, Message(s, lane)
    PROVE  TypeOK'
<1> DEFINE h == <<s, lane>>
<1>h. h \in Handlers
  BY HandlerOf
<1>i. TypeOK
  BY DEF PInv
<1>k. task[h].at \in {"enter", "typing"} => task[h].room \in Rooms
  BY <1>h DEF PInv, Knows
<1>1. CASE \E room \in Rooms : JoinCalled(s, lane, room) \/ TypingCalled(s, lane, room)
  <2>1. PICK room \in Rooms : JoinCalled(s, lane, room) \/ TypingCalled(s, lane, room)
    BY <1>1
  <2>2. /\ [Start("access") EXCEPT !.room = room] \in Task
        /\ [Start("typing") EXCEPT !.room = room] \in Task
    BY DEF Start, Task, Told
  <2>3. task' \in [Handlers -> Task \cup {Idle}]
    BY <2>1, <2>2, <1>h, <1>i, Goes DEF JoinCalled, TypingCalled
  <2> QED BY <2>1, <2>3, <1>i DEF JoinCalled, TypingCalled, TypeOK, connections, views
<1>2. CASE \E room \in Rooms : LeaveCalled(s, lane, room)
  <2>1. PICK room \in Rooms : LeaveCalled(s, lane, room)
    BY <1>2
  <2> QED BY <2>1, <1>h, <1>i, GiveUpTypes DEF LeaveCalled, TypeOK, views
<1>3. CASE JoinChecked(h)
  <2>1. task[h] \in Task
    BY <1>3, <1>h, <1>i, AtTask DEF JoinChecked
  <2>2. [task[h] EXCEPT !.at = "enter"] \in Task
    BY <2>1 DEF Task
  <2>3. task' \in [Handlers -> Task \cup {Idle}]
    BY <1>3, <2>2, <1>h, <1>i, Goes DEF JoinChecked, Finish
  <2> QED BY <1>3, <2>3, <1>i DEF JoinChecked, TypeOK, connections, views
<1>4. CASE Enter(h)
  <2>1. task[h] \in Task /\ task[h].room \in Rooms
    BY <1>4, <1>h, <1>i, <1>k, AtTask DEF Enter
  <2>2. [task[h] EXCEPT !.at = "partner", !.says = "online"] \in Task
    BY <2>1 DEF Task, Told
  <2>3. task' \in [Handlers -> Task \cup {Idle}]
    BY <1>4, <2>2, <1>h, <1>i, Goes DEF Enter, Finish
  <2>4. joined' \in [Sockets -> SUBSET Rooms] /\ socketRooms' \in [Sockets -> SUBSET Rooms]
    BY <1>4, <2>1, <1>i DEF Enter, AddSocketRoom, TypeOK
  <2>5. roomView' \in [Rooms -> Told]
    BY <1>4, <1>i, ViewsTyped DEF Enter, Told
  <2> QED BY <1>4, <2>3, <2>4, <2>5, <1>i DEF Enter, TypeOK
<1>5. CASE TypingChecked(h)
  <2>1. /\ task' \in [Handlers -> Task \cup {Idle}]
        /\ socketRooms' \in [Sockets -> SUBSET Rooms]
    <3>1. CASE task[h].room \in access
      BY <1>5, <3>1, <1>h, <1>i, Goes DEF TypingChecked, Finish, TypeOK
    <3>2. CASE task[h].room \notin access
      BY <1>5, <3>2, <1>h, <1>i, <1>k, GiveUpTypes DEF TypingChecked, At
    <3> QED BY <3>1, <3>2
  <2> QED BY <1>5, <2>1, <1>i DEF TypingChecked, TypeOK, views
<1>6. CASE GetUserSocketIds(h) \/ LeaveRoom(h) \/ InformPartner(h)
  BY <1>6, <1>h, RoomTypes
<1> QED BY <1>1, <1>2, <1>3, <1>4, <1>5, <1>6 DEF Message

LEMMA OtherTypes ==
    ASSUME PInv,
           \/ \E c \in Channels : AccessChanges(c)
           \/ \E s \in Sockets : Refused(s)
           \/ \E h \in Handlers : QueryFails(h)
           \/ Crash
    PROVE  TypeOK'
<1>i. TypeOK
  BY DEF PInv
<1>1. CASE \E c \in Channels : AccessChanges(c)
  BY <1>1, <1>i DEF AccessChanges, TypeOK, connections, views
<1>2. ASSUME NEW s \in Sockets, Refused(s)
      PROVE  TypeOK'
  <2>1. [task EXCEPT ![<<s, "connection">>] = Idle] \in [Handlers -> Task \cup {Idle}]
    BY <1>i DEF TypeOK
  <2>2. CASE conn[s] = "open"
    BY <1>2, <1>i, <2>1, <2>2, CloseTypes DEF Refused, TypeOK, views
  <2>3. CASE conn[s] # "open"
    BY <1>2, <1>i, <2>1, <2>3 DEF Refused, Finish, Goto, TypeOK, views
  <2> QED BY <2>2, <2>3
<1>3. ASSUME NEW h \in Handlers, QueryFails(h)
      PROVE  TypeOK'
  <2>1. task' \in [Handlers -> Task \cup {Idle}]
    BY <1>3, <1>i, Goes DEF QueryFails, Finish
  <2> QED BY <1>3, <2>1, <1>i DEF QueryFails, TypeOK, connections, views
<1>4. CASE Crash
  BY <1>4, <1>i DEF Crash, TypeOK, Told
<1> QED BY <1>1, <1>2, <1>3, <1>4

-----------------------------------------------------------------------------
(***************************************************************************)
(* What a step of one handler leaves of the others                         *)
(***************************************************************************)
\* Of the handlers none but h awaits the in-memory store.
LEMMA TurnMeans ==
    ASSUME PInv, NEW h \in Handlers, Turn(h), InMemory
    PROVE  \A g \in Handlers \ {h} :
               task[g].at \notin {"track", "untrack", "rooms", "room", "tracked"}
BY DEF Turn, InMemory, AwaitsStore

Moves(h) == \A g \in Handlers \ {h} : task'[g] = task[g]

LEMMA OthersKnow ==
    ASSUME PInv, NEW h \in Handlers, Turn(h), Moves(h), UNCHANGED <<store, conn, known>>,
           \A s \in Sockets \ {h[1]} : socketRooms'[s] = socketRooms[s],
           h[2] = "connection" => task'[h].at # "track",
           NEW g \in Handlers, g # h
    PROVE  Knows(g)'
<1>1. task'[g] = task[g] /\ Knows(g)
  BY DEF PInv, Moves
<1>2. g[1] \in Sockets /\ <<g[1], "connection">> \in Handlers
  BY HandlerParts, HandlerOf
<1>3. InMemory => task[g].at \notin {"rooms", "room"}
  BY TurnMeans
<1>4. Connecting(g[1])'.at = "track" => Connecting(g[1]).at = "track"
  <2>1. CASE h = <<g[1], "connection">>
    BY <2>1 DEF Connecting
  <2>2. CASE h # <<g[1], "connection">>
    BY <2>2, <1>2 DEF Moves, Connecting
  <2> QED BY <2>1, <2>2
<1> QED BY <1>1, <1>3, <1>4 DEF Knows, InMemory

LEMMA OthersSound ==
    ASSUME PInv, NEW h \in Handlers, Moves(h), UNCHANGED <<store, conn, known>>,
           NEW s \in Sockets \ {h[1]}, socketRooms'[s] = socketRooms[s]
    PROVE  SocketSound(s)'
<1>1. <<s, "connection">> \in Handlers /\ h # <<s, "connection">>
  BY HandlerParts, HandlerOf
<1>2. Connecting(s)' = Connecting(s)
  BY <1>1 DEF Moves, Connecting
<1>3. SocketSound(s)
  BY DEF PInv
<1> QED BY <1>2, <1>3 DEF SocketSound, InMemory

LEMMA AloneStays ==
    ASSUME PInv, NEW h \in Handlers, Turn(h), Moves(h), UNCHANGED store
    PROVE  Alone'
<1> SUFFICES ASSUME InMemory', NEW f \in Handlers, NEW g \in Handlers,
                    AwaitsStore(f)', AwaitsStore(g)', f # g
             PROVE  FALSE
  BY DEF Alone
<1>1. InMemory
  BY DEF InMemory
<1>2. \A k \in Handlers \ {h} : ~AwaitsStore(k)'
  BY <1>1, TurnMeans DEF Moves, AwaitsStore
<1> QED BY <1>2

\* A step of one handler: what is left to show is what it does to its own socket.
LEMMA HandlerStep ==
    ASSUME PInv, TypeOK', NEW h \in Handlers, Turn(h), Moves(h),
           UNCHANGED <<store, conn, known>>,
           \A s \in Sockets \ {h[1]} : socketRooms'[s] = socketRooms[s],
           h[2] = "connection" => task'[h].at # "track",
           Knows(h)', SocketSound(h[1])', LiveSocketsTracked', NoFalseOffline'
    PROVE  PInv'
<1>1. \A g \in Handlers : Knows(g)'
  BY OthersKnow
<1>2. \A s \in Sockets : SocketSound(s)'
  BY OthersSound
<1>3. Alone'
  BY AloneStays
<1> QED BY <1>1, <1>2, <1>3 DEF PInv

-----------------------------------------------------------------------------
(***************************************************************************)
(* Steps that keep the invariant                                           *)
(***************************************************************************)
\* A step that touches no socket and tells no room.
Inert(h) == /\ Turn(h) /\ Moves(h)
            /\ UNCHANGED <<store, conn, known, socketRooms, tracked, roomView>>

LEMMA LiveStays ==
    ASSUME PInv, NEW h \in Handlers, Moves(h), UNCHANGED <<conn, known>>,
           tracked \subseteq tracked',
           h[2] = "connection" => task[h].at # "track"
    PROVE  LiveSocketsTracked'
<1> SUFFICES ASSUME NEW s \in Sockets, Live(s)', Connecting(s)'.at # "track"
             PROVE  s \in tracked
  BY DEF LiveSocketsTracked, Connecting
<1>1. Live(s)
  BY DEF Live
<1>2. Connecting(s).at # "track"
  <2>1. CASE h = <<s, "connection">>
    BY <2>1 DEF Connecting
  <2>2. CASE h # <<s, "connection">>
    BY <2>2, HandlerOf DEF Connecting, Moves
  <2> QED BY <2>1, <2>2
<1> QED BY <1>1, <1>2 DEF PInv, LiveSocketsTracked, Connecting

LEMMA SoundStays ==
    ASSUME PInv, NEW h \in Handlers, Moves(h), UNCHANGED <<store, conn, known>>,
           h[2] = "connection" => task'[h].at \notin {"token", "track"},
           socketRooms'[h[1]] \subseteq socketRooms[h[1]]
    PROVE  SocketSound(h[1])'
<1> DEFINE s == h[1]
<1>1. s \in Sockets /\ SocketSound(s)
  BY HandlerParts DEF PInv
<1>2. \/ Connecting(s)'.at \notin {"token", "track"}
      \/ Connecting(s)' = Connecting(s)
  <2>1. CASE h[2] = "connection"
    BY <2>1, HandlerParts DEF Connecting
  <2>2. CASE h[2] # "connection"
    BY <1>1, <2>2, HandlerOf DEF Connecting, Moves
  <2> QED BY <2>1, <2>2
<1> QED BY <1>1, <1>2 DEF SocketSound, InMemory

LEMMA InertKeeps ==
    ASSUME PInv, TypeOK', NEW h \in Handlers, Inert(h), Knows(h)',
           h[2] = "connection" => task[h].at # "track" /\ task'[h].at \notin {"token", "track"}
    PROVE  PInv'
<1>1. SocketSound(h[1])' /\ LiveSocketsTracked'
  BY SoundStays, LiveStays DEF Inert
<1>2. NoFalseOffline'
  BY DEF Inert, PInv, NoFalseOffline
<1> QED BY <1>1, <1>2, HandlerStep DEF Inert

LEMMA FreshGoes ==
    ASSUME PInv, NEW h \in Handlers, NEW t \in Task \cup {Idle}, Goto(h, t)
    PROVE  /\ Moves(h) /\ task'[h] = t
BY Goes DEF PInv, Moves

\* Telling the partners.
LEMMA Talks ==
    ASSUME PInv, NEW h \in Handlers, NEW what, ListConversations(h, what) \/ TellPartners(h)
    PROVE  /\ Moves(h) /\ task[h] \in Task /\ task[h] # Idle /\ task[h].at \in {"list", "tell"}
           /\ Turn(h) /\ task'[h].at \in {"idle", "tell"} /\ (task'[h] = Idle \/ task'[h].at = "tell")
<1>i. TypeOK
  BY DEF PInv
<1>1. task[h] \in Task /\ task[h].at \in {"list", "tell"} /\ Turn(h)
  BY <1>i, AtTask DEF ListConversations, TellPartners
<1>2. Moves(h) /\ (task'[h] = Idle \/ task'[h].at = "tell")
  <2>1. CASE ListConversations(h, what)
    BY <2>1, <1>i DEF ListConversations, Goto, Moves, Start, TypeOK
  <2>2. CASE TellPartners(h)
    <3>1. PICK c \in task[h].todo :
               Goto(h, IF task[h].todo = {c} THEN Idle ELSE [task[h] EXCEPT !.todo = @ \ {c}])
      BY <2>2 DEF TellPartners
    <3>2. task[h].at = "tell" /\ [task[h] EXCEPT !.todo = @ \ {c}] \in Task
      BY <2>2, <1>1 DEF TellPartners, At, Task
    <3>3. [task[h] EXCEPT !.todo = @ \ {c}].at = "tell"
      BY <1>1, <3>2 DEF Task
    <3> QED BY <3>1, <3>2, <3>3, FreshGoes
  <2> QED BY <2>1, <2>2
<1> QED BY <1>1, <1>2, TaskAt

LEMMA ListKeeps ==
    ASSUME PInv, TypeOK', NEW h \in Handlers, NEW what,
           ListConversations(h, what) \/ TellPartners(h)
    PROVE  PInv'
<1>1. /\ task[h] \in Task /\ task[h].at \in {"list", "tell"} /\ Turn(h)
      /\ Moves(h) /\ (task'[h] = Idle \/ task'[h].at = "tell")
  BY Talks
<1>2. Inert(h)
  BY <1>1 DEF ListConversations, TellPartners, Inert, connections, views
<1>3. task'[h].at \in {"idle", "tell"} /\ task[h] # Idle
  BY <1>1, TaskAt
<1>4. Knows(h)'
  <2>1. Knows(h)
    BY DEF PInv
  <2>2. h[2] \in Lanes => Connecting(h[1])' = Connecting(h[1])
    BY <1>1, HandlerOf, HandlerParts, PresenceAssumption DEF Connecting, Moves
  <2> QED BY <1>1, <1>2, <1>3, <2>1, <2>2 DEF Knows, Inert, InMemory
<1> QED BY <1>1, <1>2, <1>3, <1>4, InertKeeps

\* The handler of the connection stays what it is when another of its socket moves.
LEMMA ConnectingStays ==
    ASSUME NEW h \in Handlers, h[2] # "connection", Moves(h)
    PROVE  Connecting(h[1])' = Connecting(h[1])
BY HandlerParts, HandlerOf DEF Connecting, Moves

LEMMA OpenedKeeps ==
    ASSUME PInv, TypeOK', NEW s \in Sockets, Opened(s)
    PROVE  PInv'
<1> DEFINE h == <<s, "connection">>
<1>1. h \in Handlers /\ h[1] = s /\ conn[s] = "new" /\ Quiet /\ SocketSound(s)
  BY HandlerOf DEF Opened, PInv
<1>2. Moves(h) /\ task'[h] = Start("token") /\ task'[h].at = "token"
  BY <1>1, FreshGoes, StartIsTask DEF Opened
<1>3. /\ UNCHANGED <<store, known, socketRooms, tracked, roomView>>
      /\ conn'[s] = "open" /\ \A u \in Sockets \ {s} : conn'[u] = conn[u]
  BY DEF Opened, views, PInv, TypeOK
<1>4. \A g \in Handlers : g[1] = s => task[g] = Idle
  BY <1>1 DEF PInv, Knows
<1>5. ASSUME NEW g \in Handlers
      PROVE  Knows(g)'
  <2>1. CASE g[1] = s
    <3>1. g = h \/ task'[g] = Idle
      BY <1>2, <1>4, <2>1 DEF Moves
    <3>2. h[2] = "connection" /\ h[2] \notin Lanes
      BY PresenceAssumption
    <3> QED BY <3>1, <3>2, <1>2, <1>3, <2>1, TaskAt DEF Knows
  <2>2. CASE g[1] # s
    <3>1. task'[g] = task[g] /\ Connecting(g[1])' = Connecting(g[1])
      BY <1>2, <2>2, HandlerParts, HandlerOf DEF Moves, Connecting
    <3> QED BY <3>1, <1>3, <2>2, HandlerParts DEF PInv, Knows, InMemory
  <2> QED BY <2>1, <2>2
<1>6. ASSUME NEW u \in Sockets
      PROVE  SocketSound(u)'
  <2>1. CASE u = s
    BY <2>1, <1>1, <1>2, <1>3 DEF SocketSound, InMemory
  <2>2. CASE u # s
    <3>1. Connecting(u)' = Connecting(u)
      BY <1>2, <2>2, HandlerOf DEF Moves, Connecting
    <3> QED BY <3>1, <1>3, <2>2 DEF PInv, SocketSound, InMemory
  <2> QED BY <2>1, <2>2
<1>7. LiveSocketsTracked'
  <2> SUFFICES ASSUME NEW u \in Sockets, Live(u)', Connecting(u)'.at # "track"
               PROVE  u \in tracked
    BY <1>3 DEF LiveSocketsTracked, Connecting
  <2>1. u # s
    BY <1>1, <1>3 DEF Live, SocketSound
  <2>2. Connecting(u)' = Connecting(u) /\ Live(u)
    BY <1>2, <1>3, <2>1, HandlerOf DEF Moves, Connecting, Live
  <2> QED BY <2>2 DEF PInv, LiveSocketsTracked, Connecting
<1>8. NoFalseOffline'
  BY <1>1, <1>3 DEF PInv, NoFalseOffline, SocketSound
<1>9. Alone'
  <2>1. Turn(h)
    BY <1>1 DEF Turn, Quiet
  <2> QED BY <1>1, <1>2, <1>3, <2>1, AloneStays
<1> QED BY <1>5, <1>6, <1>7, <1>8, <1>9 DEF PInv

LEMMA AuthenticatedKeeps ==
    ASSUME PInv, TypeOK', NEW s \in Sockets, Authenticated(s)
    PROVE  PInv'
<1> DEFINE h == <<s, "connection">>
<1>1. h \in Handlers /\ h[1] = s /\ h[2] = "connection" /\ SocketSound(s) /\ Knows(h)
  BY HandlerOf DEF PInv
<1>2. task[h].at = "token" /\ task[h] # Idle /\ Turn(h)
  BY <1>1, AtTask, TaskAt DEF Authenticated, PInv
<1>3. Moves(h) /\ task'[h].at = "track" /\ task'[h] # Idle
  BY <1>1, FreshGoes, StartIsTask, TaskAt DEF Authenticated
<1>4. UNCHANGED <<store, conn, socketRooms, tracked, roomView>> /\ known' = known \cup {s}
  BY DEF Authenticated, views
<1>5. s \notin known /\ conn[s] # "new"
  BY <1>1, <1>2 DEF SocketSound, Knows, Connecting
<1>6. ASSUME NEW g \in Handlers
      PROVE  Knows(g)'
  <2>1. Knows(g) /\ g[1] \in Sockets
    BY HandlerParts DEF PInv
  <2>2. CASE g = h
    <3>1. h[2] \notin Lanes
      BY PresenceAssumption
    <3> QED BY <3>1, <2>2, <1>1, <1>3, <1>4, <1>5 DEF Knows
  <2>3. CASE g # h /\ g[1] = s
    <3>1. task'[g] = task[g]
      BY <1>3, <2>3 DEF Moves
    <3>2. g[2] \in Lanes /\ task[g] # Idle => conn[s] # "open"
      BY <2>1, <2>3, <1>5 DEF Knows
    <3> QED BY <3>1, <3>2, <2>1, <2>3, <1>4 DEF Knows, InMemory
  <2>4. CASE g[1] # s
    <3>1. task'[g] = task[g] /\ Connecting(g[1])' = Connecting(g[1])
      BY <1>3, <2>1, <2>4, HandlerOf DEF Moves, Connecting
    <3> QED BY <3>1, <2>1, <2>4, <1>4 DEF Knows, InMemory
  <2> QED BY <2>2, <2>3, <2>4
<1>7. ASSUME NEW u \in Sockets
      PROVE  SocketSound(u)'
  <2>1. CASE u = s
    BY <2>1, <1>1, <1>3, <1>4, <1>5 DEF SocketSound, InMemory, Connecting
  <2>2. CASE u # s
    <3>1. Connecting(u)' = Connecting(u)
      BY <1>3, <2>2, HandlerOf DEF Moves, Connecting
    <3> QED BY <3>1, <1>4, <2>2 DEF PInv, SocketSound, InMemory
  <2> QED BY <2>1, <2>2
<1>8. LiveSocketsTracked'
  <2> SUFFICES ASSUME NEW u \in Sockets, Live(u)', Connecting(u)'.at # "track"
               PROVE  u \in tracked
    BY <1>4 DEF LiveSocketsTracked, Connecting
  <2>1. u # s
    BY <1>3 DEF Connecting
  <2>2. Connecting(u)' = Connecting(u) /\ Live(u)
    BY <1>3, <1>4, <2>1, HandlerOf DEF Moves, Connecting, Live
  <2> QED BY <2>2 DEF PInv, LiveSocketsTracked, Connecting
<1>9. NoFalseOffline'
  BY <1>4 DEF PInv, NoFalseOffline
<1>10. Alone'
  BY <1>1, <1>2, <1>3, <1>4, AloneStays
<1> QED BY <1>6, <1>7, <1>8, <1>9, <1>10 DEF PInv

LEMMA TrackKeeps ==
    ASSUME PInv, TypeOK', NEW s \in Sockets, TrackSocket(s)
    PROVE  PInv'
<1> DEFINE h == <<s, "connection">>
<1>1. h \in Handlers /\ h[1] = s /\ h[2] = "connection" /\ Knows(h)
  BY HandlerOf DEF PInv
<1>2. task[h].at = "track" /\ task[h] # Idle /\ Turn(h)
  BY <1>1, AtTask, TaskAt DEF TrackSocket, PInv
<1>3. Moves(h) /\ task'[h].at = "list"
  BY <1>1, FreshGoes, StartIsTask DEF TrackSocket
<1>4. /\ UNCHANGED <<store, conn, known, socketRooms, roomView>>
      /\ tracked' = tracked \cup {s}
  BY DEF TrackSocket, views, connections
<1>5. Knows(h)'
  BY <1>1, <1>2, <1>3, <1>4, PresenceAssumption DEF Knows
<1>6. SocketSound(h[1])'
  BY <1>1, <1>3, <1>4, SoundStays
<1>7. LiveSocketsTracked'
  <2> SUFFICES ASSUME NEW u \in Sockets \ {s}, Live(u)', Connecting(u)'.at # "track"
               PROVE  u \in tracked
    BY <1>4 DEF LiveSocketsTracked, Connecting
  <2>1. Connecting(u)' = Connecting(u) /\ Live(u)
    BY <1>3, <1>4, HandlerOf DEF Moves, Connecting, Live
  <2> QED BY <2>1 DEF PInv, LiveSocketsTracked, Connecting
<1>8. NoFalseOffline'
  BY <1>4 DEF PInv, NoFalseOffline
<1> QED BY <1>1, <1>2, <1>3, <1>4, <1>5, <1>6, <1>7, <1>8, HandlerStep

LEMMA CloseKeeps ==
    ASSUME PInv, TypeOK', NEW s \in Sockets, Disconnected(s) \/ Refused(s)
    PROVE  PInv'
<1> DEFINE h == <<s, "connection">>
           d == <<s, "disconnect">>
<1>1. /\ h \in Handlers /\ h[1] = s /\ h[2] = "connection" /\ h[2] \notin Lanes
      /\ d \in Handlers /\ d[1] = s /\ d[2] = "disconnect" /\ d[2] \notin Lanes
  BY HandlerOf, PresenceAssumption
<1>2. UNCHANGED <<store, known, tracked, roomView>>
  BY DEF Disconnected, Refused, views
<1>3. CASE Refused(s) /\ conn[s] # "open"
  <2>1. Turn(h) /\ Finish(h) /\ UNCHANGED <<conn, socketRooms>>
    BY <1>3 DEF Refused
  <2>2. Moves(h) /\ task'[h] = Idle
    BY <2>1, <1>1, FreshGoes DEF Finish
  <2>3. Knows(h)'
    BY <1>1, <2>2, TaskAt DEF Knows
  <2>4. SocketSound(h[1])'
    BY <1>1, <1>2, <2>1, <2>2, TaskAt, SoundStays
  <2>5. LiveSocketsTracked'
    <3> SUFFICES ASSUME NEW u \in Sockets, Live(u)', Connecting(u)'.at # "track"
                 PROVE  u \in tracked
      BY <1>2 DEF LiveSocketsTracked, Connecting
    <3>1. Live(u) /\ u # s
      BY <1>2, <1>3, <2>1 DEF Live
    <3>2. Connecting(u)' = Connecting(u)
      BY <3>1, <2>2, HandlerOf DEF Moves, Connecting
    <3> QED BY <3>1, <3>2 DEF PInv, LiveSocketsTracked, Connecting
  <2>6. NoFalseOffline'
    BY <1>2, <2>1 DEF PInv, NoFalseOffline
  <2>7. /\ UNCHANGED <<store, conn, known>>
        /\ \A u \in Sockets \ {h[1]} : socketRooms'[u] = socketRooms[u]
    BY <1>2, <2>1
  <2>8. task'[h].at # "track"
    BY <2>2, TaskAt
  <2> QED BY <1>1, <2>1, <2>2, <2>3, <2>4, <2>5, <2>6, <2>7, <2>8, HandlerStep
<1>4. CASE conn[s] = "open"
  <2>1. PICK ts : /\ ts \in {task, [task EXCEPT ![h] = Idle]} /\ Close(s, ts)
                  /\ InMemory => \A g \in Handlers \ {h} : ~AwaitsStore(g)
                  /\ InMemory => ~AwaitsStore(h)
    <3>1. CASE Disconnected(s)
      BY <3>1, <1>1 DEF Disconnected, Quiet, InMemory
    <3>2. CASE Refused(s)
      <4>1. InMemory => ~AwaitsStore(h)
        BY <3>2, <1>1 DEF Refused, InMemory, AwaitsStore
      <4>2. Close(s, [task EXCEPT ![h] = Idle]) /\ Turn(h)
        BY <3>2, <1>4 DEF Refused
      <4> QED BY <4>1, <4>2 DEF Turn, InMemory
    <3> QED BY <3>1, <3>2
  <2>2. /\ conn'[s] = "closed" /\ \A u \in Sockets \ {s} : conn'[u] = conn[u]
        /\ socketRooms'[s] = {} /\ \A u \in Sockets \ {s} : socketRooms'[u] = socketRooms[u]
    BY <2>1 DEF Close, PInv, TypeOK
  <2>3. /\ \A g \in Handlers \ {h, d} : task'[g] = task[g]
        /\ task'[h] \in {task[h], Idle}
        /\ InMemory => ~AwaitsStore(h)'
        /\ task'[d] = Idle \/ task'[d].at = "untrack"
    <3>1. [Start("untrack") EXCEPT !.rooms = socketRooms[s]].at = "untrack"
      BY DEF Start
    <3>2. ts \in [Handlers -> Task \cup {Idle}] /\ d # h
      BY <1>1, <2>1 DEF PInv, TypeOK
    <3>3. task'[h] = ts[h] /\ (task'[d] = Idle \/ task'[d].at = "untrack")
      BY <1>1, <2>1, <3>1, <3>2 DEF Close
    <3>4. \A g \in Handlers \ {h, d} : task'[g] = task[g]
      BY <1>1, <2>1, <3>2 DEF Close, PInv, TypeOK
    <3>5. /\ ts[h] \in {task[h], Idle}
          /\ InMemory => ts[h].at \notin {"track", "untrack", "rooms", "room", "tracked"}
      BY <1>1, <2>1, TaskAt DEF PInv, TypeOK, AwaitsStore
    <3> QED BY <3>3, <3>4, <3>5 DEF AwaitsStore
  <2>4. ASSUME NEW g \in Handlers
        PROVE  Knows(g)'
    <3>1. Knows(g) /\ g[1] \in Sockets
      BY HandlerParts DEF PInv
    <3>2. CASE g = d
      BY <3>2, <1>1, <2>2, <2>3, TaskAt DEF Knows
    <3>3. CASE g = h
      BY <3>1, <3>3, <1>1, <1>2, <2>2, <2>3, TaskAt DEF Knows, InMemory
    <3>4. CASE g \notin {h, d} /\ g[1] = s
      BY <3>1, <3>4, <1>2, <2>2, <2>3 DEF Knows, InMemory
    <3>5. CASE g[1] # s
      <4>1. task'[g] = task[g] /\ Connecting(g[1])' = Connecting(g[1])
        BY <3>1, <3>5, <1>1, <2>3, HandlerOf DEF Connecting
      <4> QED BY <3>1, <3>5, <4>1, <1>2, <2>2 DEF Knows, InMemory
    <3> QED BY <3>2, <3>3, <3>4, <3>5
  <2>5. ASSUME NEW u \in Sockets
        PROVE  SocketSound(u)'
    <3>1. CASE u = s
      BY <3>1, <1>1, <1>2, <2>2, <2>3, TaskAt DEF SocketSound, PInv, Connecting
    <3>2. CASE u # s
      <4>1. Connecting(u)' = Connecting(u)
        BY <3>2, <1>1, <2>3, HandlerOf DEF Connecting
      <4> QED BY <4>1, <3>2, <1>2, <2>2 DEF SocketSound, PInv, InMemory
    <3> QED BY <3>1, <3>2
  <2>6. LiveSocketsTracked'
    <3> SUFFICES ASSUME NEW u \in Sockets, Live(u)', Connecting(u)'.at # "track"
                 PROVE  u \in tracked
      BY <1>2 DEF LiveSocketsTracked, Connecting
    <3>1. Live(u) /\ u # s
      BY <1>2, <2>2 DEF Live
    <3>2. Connecting(u)' = Connecting(u)
      BY <3>1, <1>1, <2>3, HandlerOf DEF Connecting
    <3> QED BY <3>1, <3>2 DEF PInv, LiveSocketsTracked, Connecting
  <2>7. NoFalseOffline'
    BY <1>2, <2>2 DEF PInv, NoFalseOffline
  <2>8. Alone'
    <3>1. InMemory => \A g \in Handlers \ {d} : ~AwaitsStore(g)'
      BY <1>1, <2>1, <2>3 DEF AwaitsStore
    <3> QED BY <3>1, <1>2 DEF Alone, InMemory
  <2> QED BY <2>4, <2>5, <2>6, <2>7, <2>8 DEF PInv
<1> QED BY <1>3, <1>4 DEF Disconnected

LEMMA UntrackKeeps ==
    ASSUME PInv, TypeOK', NEW s \in Sockets, Untrack(s) \/ IsUserTracked(s)
    PROVE  PInv'
<1> DEFINE h == <<s, "disconnect">>
<1>1. /\ h \in Handlers /\ h[1] = s /\ h[2] = "disconnect" /\ h[2] \notin Lanes
      /\ Knows(h) /\ TypeOK
  BY HandlerOf, PresenceAssumption DEF PInv
<1>2. task[h] \in Task /\ task[h] # Idle /\ task[h].at \in {"untrack", "tracked"} /\ Turn(h)
  BY <1>1, AtTask, TaskAt DEF Untrack, IsUserTracked
<1>3. conn[s] = "closed"
  BY <1>1, <1>2 DEF Knows
<1>4. Moves(h) /\ task'[h].at \in {"tracked", "rooms", "list", "idle"}
  <2>1. CASE Untrack(s)
    <3> DEFINE t == [task[h] EXCEPT !.at = IF task[h].rooms = {} THEN "tracked" ELSE "rooms"]
    <3>1. t \in Task /\ t.at \in {"tracked", "rooms"}
      BY <1>2 DEF Task
    <3> QED BY <2>1, <3>1, <1>1, FreshGoes DEF Untrack
  <2>2. CASE IsUserTracked(s)
    BY <2>2, <1>1, FreshGoes, StartIsTask, TaskAt DEF IsUserTracked
  <2> QED BY <2>1, <2>2
<1>5. /\ UNCHANGED <<store, conn, known, socketRooms, roomView>>
      /\ tracked \ {s} \subseteq tracked'
  BY DEF Untrack, IsUserTracked, UntrackSocket, views, connections
<1>6. Knows(h)'
  BY <1>1, <1>3, <1>4, <1>5 DEF Knows
<1>7. SocketSound(h[1])'
  BY <1>1, <1>4, <1>5, SoundStays
<1>8. LiveSocketsTracked'
  <2> SUFFICES ASSUME NEW u \in Sockets, Live(u)', Connecting(u)'.at # "track"
               PROVE  u \in tracked'
    BY DEF LiveSocketsTracked, Connecting
  <2>1. Connecting(u)' = Connecting(u) /\ Live(u) /\ u # s
    BY <1>1, <1>3, <1>4, <1>5, HandlerOf DEF Moves, Connecting, Live
  <2> QED BY <2>1, <1>5 DEF PInv, LiveSocketsTracked, Connecting
<1>9. NoFalseOffline'
  BY <1>5 DEF PInv, NoFalseOffline
<1> QED BY <1>1, <1>2, <1>4, <1>5, <1>6, <1>7, <1>8, <1>9, HandlerStep

\* What Done leaves: a handler that ends, or goes on with the rooms of a closed socket.
LEMMA DoneLeaves ==
    ASSUME PInv, NEW h \in Handlers, task[h] \in Task, Done(h)
    PROVE  /\ Moves(h)
           /\ IF h[2] = "disconnect" THEN task'[h].at \in {"rooms", "tracked"} ELSE task'[h] = Idle
<1>1. CASE h[2] = "disconnect"
  <2> DEFINE rest == task[h].rooms \ {task[h].room}
             t == [Start(IF rest = {} THEN "tracked" ELSE "rooms") EXCEPT !.rooms = rest]
  <2>1. t \in Task /\ t.at \in {"rooms", "tracked"}
    BY DEF Start, Task, Told
  <2>2. Moves(h) /\ task'[h] = t
    BY <1>1, <2>1, FreshGoes DEF Done
  <2> QED BY <1>1, <2>1, <2>2
<1>2. CASE h[2] # "disconnect"
  BY <1>2, FreshGoes DEF Done, Finish
<1> QED BY <1>1, <1>2

LEMMA SocketIdsKeep ==
    ASSUME PInv, TypeOK', NEW h \in Handlers, GetUserSocketIds(h)
    PROVE  PInv'
<1>1. task[h] \in Task /\ task[h] # Idle /\ task[h].at = "rooms" /\ Turn(h) /\ Knows(h)
  BY AtTask, TaskAt DEF GetUserSocketIds, PInv
<1>2. PICK room \in task[h].rooms :
           Goto(h, [task[h] EXCEPT !.at = "room", !.room = room, !.ids = tracked])
  BY DEF GetUserSocketIds
<1> DEFINE t == [task[h] EXCEPT !.at = "room", !.room = room, !.ids = tracked]
<1>3. t \in Task /\ t.at = "room" /\ t.room = room /\ t.ids = tracked /\ room \in Rooms
  BY <1>1 DEF Task, PInv, TypeOK
<1>4. Moves(h) /\ task'[h] = t
  BY <1>2, <1>3, FreshGoes
<1>5. Inert(h)
  BY <1>1, <1>4 DEF GetUserSocketIds, Inert, connections, views
<1>6. h[2] # "connection"
  BY <1>1 DEF Knows
<1>7. Knows(h)'
  <2>1. Connecting(h[1])' = Connecting(h[1])
    BY <1>4, <1>6, ConnectingStays
  <2> QED BY <1>1, <1>3, <1>4, <1>5, <1>6, <2>1 DEF Knows, Inert, InMemory
<1> QED BY <1>5, <1>6, <1>7, InertKeeps

LEMMA InformKeeps ==
    ASSUME PInv, TypeOK', NEW h \in Handlers, InformPartner(h)
    PROVE  PInv'
<1>1. task[h] \in Task /\ task[h] # Idle /\ task[h].at = "partner" /\ Turn(h) /\ Knows(h)
  BY AtTask, TaskAt DEF InformPartner, PInv
<1>2. h[2] # "connection"
  BY <1>1 DEF Knows
<1>3. /\ Moves(h)
      /\ IF h[2] = "disconnect" THEN task'[h] = Idle \/ task'[h].at \in {"rooms", "tracked"}
                                ELSE task'[h] = Idle
  <2>1. CASE Done(h)
    BY <2>1, <1>1, DoneLeaves
  <2>2. CASE ~Done(h)
    BY <2>2, FreshGoes DEF InformPartner, Finish
  <2> QED BY <2>1, <2>2
<1>4. Inert(h)
  BY <1>1, <1>3 DEF InformPartner, Inert
<1>5. Knows(h)'
  BY <1>1, <1>2, <1>3, <1>4, HandlerParts, PresenceAssumption, TaskAt DEF Knows, Inert
<1> QED BY <1>2, <1>4, <1>5, InertKeeps

\* A room is told `offline' when no other socket of the user counts as in it; with
\* the in-memory store the sockets asked for are those that are tracked now.
LEMMA LeaveRoomKeeps ==
    ASSUME PInv, TypeOK', NEW h \in Handlers, LeaveRoom(h)
    PROVE  PInv'
<1> DEFINE room == task[h].room
           last == ~HasOtherSocketInRoom(task[h].ids, h[1], room)
<1>1. task[h] \in Task /\ task[h] # Idle /\ task[h].at = "room" /\ Turn(h) /\ Knows(h)
  BY AtTask, TaskAt DEF LeaveRoom, PInv
<1>2. h[2] # "connection"
  BY <1>1 DEF Knows
<1>3. /\ Moves(h)
      /\ IF h[2] = "disconnect" THEN task'[h].at \in {"rooms", "tracked", "partner"}
         ELSE task'[h] = Idle \/ task'[h].at = "partner"
      /\ task'[h].at = "partner" => task'[h].room \in Rooms
  <2>1. CASE Done(h)
    BY <2>1, <1>1, DoneLeaves, TaskAt
  <2>2. CASE ~Done(h)
    <3>1. Goto(h, [task[h] EXCEPT !.at = "partner", !.says = "offline"]) /\ room \in Rooms
      BY <2>2, <1>1 DEF LeaveRoom, Knows
    <3> DEFINE t == [task[h] EXCEPT !.at = "partner", !.says = "offline"]
    <3>2. t \in Task /\ t.at = "partner" /\ t.room = room
      BY <1>1 DEF Task, Told
    <3> QED BY <3>1, <3>2, FreshGoes
  <2> QED BY <2>1, <2>2
<1>4. UNCHANGED <<store, conn, known, socketRooms, tracked>>
  BY DEF LeaveRoom
<1>5. Knows(h)'
  <2>1. Connecting(h[1])' = Connecting(h[1])
    BY <1>2, <1>3, ConnectingStays
  <2>2. task'[h].at # "room"
    BY <1>3, TaskAt
  <2>3. CASE h[2] = "disconnect"
    <3>1. conn[h[1]] = "closed"
      BY <1>1, <2>3 DEF Knows
    <3> QED BY <1>3, <1>4, <2>2, <2>3, <3>1, PresenceAssumption DEF Knows
  <2>4. CASE h[2] # "disconnect"
    <3>1. task'[h].at \in {"idle", "partner"}
      BY <1>3, <2>4, TaskAt
    <3> QED BY <1>1, <1>2, <1>3, <1>4, <2>1, <2>4, <3>1, TaskAt DEF Knows, InMemory
  <2> QED BY <2>3, <2>4
<1>6. SocketSound(h[1])' /\ LiveSocketsTracked'
  BY <1>2, <1>3, <1>4, SoundStays, LiveStays
<1>7. NoFalseOffline'
  <2> SUFFICES ASSUME InMemory, NEW r \in Rooms, NEW s \in Sockets,
                      roomView'[r] = "offline", conn[s] = "open", r \in socketRooms[s]
               PROVE  FALSE
    BY <1>4 DEF NoFalseOffline, InMemory
  <2>1. roomView[r] # "offline"
    BY DEF PInv, NoFalseOffline, InMemory
  <2>2. last /\ r = room
    BY <2>1 DEF LeaveRoom, TellRoom, PInv, TypeOK
  <2>3. s # h[1]
    BY <1>1, <2>2 DEF Knows
  <2>4. SocketSound(s)
    BY DEF PInv
  <2>5. s \in tracked
    BY <2>4 DEF SocketSound, PInv, LiveSocketsTracked, Live, Connecting
  <2>6. task[h].ids = tracked
    BY <1>1 DEF Knows
  <2> QED BY <2>2, <2>3, <2>5, <2>6 DEF HasOtherSocketInRoom
<1> QED BY <1>1, <1>2, <1>3, <1>4, <1>5, <1>6, <1>7, TaskAt, HandlerStep

\* A socket that may send is known, and with the in-memory store is tracked already.
LEMMA FreeMeans ==
    ASSUME PInv, NEW s \in Sockets, NEW lane \in Lanes, Free(s, lane)
    PROVE  /\ <<s, lane>> \in Handlers /\ Turn(<<s, lane>>)
           /\ conn[s] = "open" /\ s \in known
           /\ InMemory => Connecting(s).at # "track"
<1>1. <<s, lane>> \in Handlers /\ <<s, "connection">> \in Handlers
  BY HandlerOf
<1> QED BY <1>1 DEF Free, Quiet, Turn, InMemory, AwaitsStore, Connecting

LEMMA CalledKeeps ==
    ASSUME PInv, TypeOK', NEW s \in Sockets, NEW lane \in Lanes, NEW room \in Rooms,
           JoinCalled(s, lane, room) \/ TypingCalled(s, lane, room)
    PROVE  PInv'
<1> DEFINE h == <<s, lane>>
<1>1. /\ h \in Handlers /\ h[1] = s /\ h[2] = lane /\ Turn(h)
      /\ lane # "connection" /\ lane # "disconnect"
      /\ conn[s] = "open" /\ s \in known /\ (InMemory => Connecting(s).at # "track")
  BY FreeMeans, PresenceAssumption DEF JoinCalled, TypingCalled
<1>2. PICK at \in {"access", "typing"} : Goto(h, [Start(at) EXCEPT !.room = room])
  BY DEF JoinCalled, TypingCalled
<1> DEFINE t == [Start(at) EXCEPT !.room = room]
<1>3. t \in Task /\ t.at = at /\ t.room = room
  BY DEF Start, Task, Told
<1>4. Moves(h) /\ task'[h] = t
  BY <1>1, <1>2, <1>3, FreshGoes
<1>5. Inert(h)
  BY <1>1, <1>4 DEF JoinCalled, TypingCalled, Inert, connections, views
<1>6. Knows(h)'
  <2>1. Connecting(s)' = Connecting(s)
    BY <1>1, <1>4, ConnectingStays
  <2> QED BY <1>1, <1>3, <1>4, <1>5, <2>1 DEF Knows, Inert, InMemory
<1> QED BY <1>1, <1>5, <1>6, InertKeeps

\* The room is given up before anything is awaited.
LEMMA GiveUpKeeps ==
    ASSUME PInv, TypeOK', NEW h \in Handlers, h[2] \in Lanes, NEW room \in Rooms, GiveUp(h, room),
           Turn(h), UNCHANGED <<store, conn, known, tracked, roomView>>,
           conn[h[1]] # "new",
           conn[h[1]] = "open" => h[1] \in known /\ (InMemory => Connecting(h[1]).at # "track")
    PROVE  PInv'
<1> DEFINE t == [Start("rooms") EXCEPT !.room = room, !.rooms = {room}]
<1>1. t \in Task /\ t.at = "rooms" /\ t.rooms = {room} /\ h[2] # "connection" /\ h[2] # "disconnect"
  BY PresenceAssumption DEF Start, Task, Told
<1>2. Moves(h) /\ task'[h] = t
  BY <1>1, FreshGoes DEF GiveUp
<1>3. /\ socketRooms'[h[1]] = socketRooms[h[1]] \ {room}
      /\ \A s \in Sockets \ {h[1]} : socketRooms'[s] = socketRooms[s]
  BY HandlerParts DEF GiveUp, RemoveSocketRoom, PInv, TypeOK
<1>4. Knows(h)'
  <2>1. Connecting(h[1])' = Connecting(h[1])
    BY <1>1, <1>2, ConnectingStays
  <2> QED BY <1>1, <1>2, <1>3, <2>1 DEF Knows, InMemory
<1>5. SocketSound(h[1])' /\ LiveSocketsTracked'
  BY <1>1, <1>2, <1>3, SoundStays, LiveStays
<1>6. NoFalseOffline'
  <2>1. \A s \in Sockets : socketRooms'[s] \subseteq socketRooms[s]
    BY <1>3
  <2> QED BY <2>1 DEF PInv, NoFalseOffline
<1> QED BY <1>1, <1>2, <1>3, <1>4, <1>5, <1>6, HandlerStep

LEMMA CheckedKeeps ==
    ASSUME PInv, TypeOK', NEW h \in Handlers, h[2] \in Lanes, JoinChecked(h) \/ TypingChecked(h)
    PROVE  PInv'
<1>1. /\ task[h] \in Task /\ task[h] # Idle /\ task[h].at \in {"access", "typing"}
      /\ Turn(h) /\ Knows(h)
  BY AtTask, TaskAt DEF JoinChecked, TypingChecked, PInv
<1>2. h[2] # "connection" /\ h[2] # "disconnect"
  BY PresenceAssumption
<1>3. CASE TypingChecked(h) /\ GiveUp(h, task[h].room)
  <2>1. /\ task[h].room \in Rooms /\ conn[h[1]] # "new"
        /\ conn[h[1]] = "open" => h[1] \in known /\ (InMemory => Connecting(h[1]).at # "track")
    BY <1>1 DEF Knows
  <2>2. UNCHANGED <<store, conn, known, tracked, roomView>>
    BY <1>3 DEF TypingChecked, views
  <2> QED BY <1>1, <1>3, <2>1, <2>2, GiveUpKeeps
<1>4. CASE ~(TypingChecked(h) /\ GiveUp(h, task[h].room))
  <2> DEFINE t == [task[h] EXCEPT !.at = "enter"]
  <2>1. t \in Task /\ t.at = "enter" /\ t.room = task[h].room
    BY <1>1 DEF Task
  <2>2. Moves(h) /\ task'[h] \in {t, Idle}
    <3>1. Goto(h, t) \/ Goto(h, Idle)
      BY <1>4 DEF JoinChecked, TypingChecked, Finish
    <3> QED BY <3>1, <2>1, FreshGoes
  <2>3. Inert(h)
    BY <1>1, <1>4, <2>2 DEF JoinChecked, TypingChecked, Inert, connections, views
  <2>4. Knows(h)'
    <3>1. Connecting(h[1])' = Connecting(h[1])
      BY <1>2, <2>2, ConnectingStays
    <3>2. CASE task'[h] = Idle
      BY <3>2, <1>2, TaskAt DEF Knows
    <3>3. CASE task'[h] = t
      BY <3>1, <3>3, <1>1, <1>2, <2>1, <2>3 DEF Knows, Inert, InMemory
    <3> QED BY <2>2, <3>2, <3>3
  <2> QED BY <1>2, <2>3, <2>4, InertKeeps
<1> QED BY <1>3, <1>4

LEMMA EnterKeeps ==
    ASSUME PInv, TypeOK', NEW h \in Handlers, h[2] \in Lanes, Enter(h)
    PROVE  PInv'
<1> DEFINE s == h[1]
           room == task[h].room
           t == [task[h] EXCEPT !.at = "partner", !.says = "online"]
<1>1. task[h] \in Task /\ task[h] # Idle /\ task[h].at = "enter" /\ Turn(h) /\ Knows(h)
  BY AtTask, TaskAt DEF Enter, PInv
<1>2. s \in Sockets /\ h[2] # "connection" /\ h[2] # "disconnect"
  BY PresenceAssumption, HandlerParts
<1>3. t \in Task /\ t.at = "partner" /\ t.room = room /\ room \in Rooms
  BY <1>1 DEF Task, Told, Knows
<1>4. Moves(h) /\ task'[h] \in {t, Idle}
  <2>1. Goto(h, t) \/ Goto(h, Idle)
    BY DEF Enter, Finish
  <2> QED BY <2>1, <1>3, FreshGoes
<1>5. /\ UNCHANGED <<store, conn, known, tracked>>
      /\ socketRooms'[s] = socketRooms[s] \cup {room}
      /\ \A u \in Sockets \ {s} : socketRooms'[u] = socketRooms[u]
      /\ roomView'[room] = "online"
      /\ \A r \in Rooms \ {room} : roomView'[r] = roomView[r]
  BY <1>2, <1>3 DEF Enter, AddSocketRoom, TellRoom, PInv, TypeOK
<1>6. Connecting(s)' = Connecting(s)
  BY <1>2, <1>4, ConnectingStays
<1>7. Knows(h)'
  <2>1. CASE task'[h] = Idle
    BY <2>1, <1>2, TaskAt DEF Knows
  <2>2. CASE task'[h] = t
    BY <2>2, <1>1, <1>2, <1>3, <1>5, <1>6 DEF Knows, InMemory
  <2> QED BY <1>4, <2>1, <2>2
<1>8. SocketSound(s)'
  <2>1. SocketSound(s)
    BY <1>2 DEF PInv
  <2> QED BY <2>1, <1>1, <1>5, <1>6 DEF Knows, SocketSound, InMemory
<1>9. LiveSocketsTracked'
  BY <1>2, <1>4, <1>5, LiveStays
<1>10. NoFalseOffline'
  <2> SUFFICES ASSUME InMemory, NEW r \in Rooms, NEW u \in Sockets,
                      roomView'[r] = "offline", conn[u] = "open", r \in socketRooms'[u]
               PROVE  FALSE
    BY <1>5 DEF NoFalseOffline, InMemory
  <2>1. r # room /\ roomView[r] = "offline"
    BY <1>5
  <2>2. r \in socketRooms[u]
    BY <1>5, <2>1
  <2> QED BY <2>1, <2>2 DEF PInv, NoFalseOffline, InMemory
<1> QED BY <1>1, <1>2, <1>4, <1>5, <1>7, <1>8, <1>9, <1>10, HandlerStep

LEMMA MessageKeeps ==
    ASSUME PInv, TypeOK', NEW s \in Sockets, NEW lane \in Lanes, Message(s, lane)
    PROVE  PInv'
<1> DEFINE h == <<s, lane>>
<1>1. h \in Handlers /\ h[2] \in Lanes /\ h[1] = s
  BY HandlerOf
<1>2. ASSUME NEW room \in Rooms, LeaveCalled(s, lane, room)
      PROVE  PInv'
  <2>1. /\ Turn(h) /\ conn[s] = "open" /\ s \in known
        /\ InMemory => Connecting(s).at # "track"
    BY <1>2, FreeMeans DEF LeaveCalled
  <2>2. GiveUp(h, room) /\ UNCHANGED <<store, conn, known, tracked, roomView>>
    BY <1>2 DEF LeaveCalled, views
  <2> QED BY <1>1, <2>1, <2>2, GiveUpKeeps
<1>3. ASSUME NEW room \in Rooms, JoinCalled(s, lane, room) \/ TypingCalled(s, lane, room)
      PROVE  PInv'
  BY <1>3, CalledKeeps
<1>4. CASE JoinChecked(h) \/ TypingChecked(h)
  BY <1>4, <1>1, CheckedKeeps
<1>5. CASE Enter(h)
  BY <1>5, <1>1, EnterKeeps
<1>6. CASE GetUserSocketIds(h) \/ LeaveRoom(h) \/ InformPartner(h)
  BY <1>6, <1>1, SocketIdsKeep, LeaveRoomKeeps, InformKeeps
<1> QED BY <1>2, <1>3, <1>4, <1>5, <1>6 DEF Message

LEMMA FailsKeeps ==
    ASSUME PInv, TypeOK', NEW h \in Handlers, QueryFails(h)
    PROVE  PInv'
<1>1. Turn(h) /\ UNCHANGED <<store, conn, known, socketRooms, tracked, roomView>>
  BY DEF QueryFails, connections, views
<1>2. Moves(h) /\ task'[h] = Idle
  BY FreshGoes DEF QueryFails, Finish
<1>3. h[2] = "connection" => task[h].at # "track"
  BY PresenceAssumption DEF QueryFails
<1>4. Knows(h)'
  BY <1>2, TaskAt DEF Knows
<1> QED BY <1>1, <1>2, <1>3, <1>4, TaskAt, InertKeeps DEF Inert

LEMMA AccessKeeps ==
    ASSUME PInv, TypeOK', UNCHANGED <<store, conn, known, socketRooms, tracked, roomView, task>>
    PROVE  PInv'
<1>1. \A h \in Handlers : Knows(h)'
  BY DEF PInv, Knows, InMemory, Connecting
<1>2. \A s \in Sockets : SocketSound(s)'
  BY DEF PInv, SocketSound, InMemory, Connecting
<1>3. LiveSocketsTracked' /\ NoFalseOffline' /\ Alone'
  BY DEF PInv, LiveSocketsTracked, Live, NoFalseOffline, Alone, InMemory, AwaitsStore
<1> QED BY <1>1, <1>2, <1>3 DEF PInv

LEMMA CrashKeeps ==
    ASSUME PInv, TypeOK', Crash
    PROVE  PInv'
<1>1. /\ \A h \in Handlers : task'[h] = Idle
      /\ known' = {} /\ \A s \in Sockets : socketRooms'[s] = {}
  BY DEF Crash
<1>2. \A h \in Handlers : Knows(h)'
  BY <1>1, TaskAt DEF Knows
<1>3. \A s \in Sockets : SocketSound(s)'
  BY <1>1 DEF SocketSound
<1>4. LiveSocketsTracked' /\ NoFalseOffline'
  BY <1>1 DEF LiveSocketsTracked, Live, NoFalseOffline
<1>5. Alone'
  BY <1>1, TaskAt DEF Alone, AwaitsStore
<1> QED BY <1>2, <1>3, <1>4, <1>5 DEF PInv

-----------------------------------------------------------------------------
LEMMA InitIsSound == Init => PInv
<1> SUFFICES ASSUME Init PROVE PInv
  OBVIOUS
<1>1. TypeOK
  BY DEF Init, TypeOK, Told
<1>2. \A h \in Handlers : task[h] = Idle /\ Knows(h)
  BY TaskAt DEF Init, Knows
<1>3. \A s \in Sockets : SocketSound(s)
  BY DEF Init, SocketSound
<1>4. LiveSocketsTracked /\ NoFalseOffline
  BY DEF Init, LiveSocketsTracked, Live, NoFalseOffline
<1>5. Alone
  BY <1>2, TaskAt DEF Alone, AwaitsStore
<1> QED BY <1>1, <1>2, <1>3, <1>4, <1>5 DEF PInv

LEMMA NextIsSound == PInv /\ [Next]_vars => PInv'
<1> SUFFICES ASSUME PInv, [Next]_vars PROVE PInv'
  OBVIOUS
<1>1. ASSUME NEW s \in Sockets, Connection(s)
      PROVE  PInv'
  <2>1. TypeOK'
    BY <1>1, ConnectionTypes
  <2>2. <<s, "connection">> \in Handlers
    BY HandlerOf
  <2> QED BY <1>1, <2>1, <2>2, OpenedKeeps, AuthenticatedKeeps, TrackKeeps, ListKeeps DEF Connection
<1>2. ASSUME NEW s \in Sockets, Disconnect(s)
      PROVE  PInv'
  <2>1. TypeOK'
    BY <1>2, DisconnectTypes
  <2>2. <<s, "disconnect">> \in Handlers
    BY HandlerOf
  <2> QED BY <1>2, <2>1, <2>2, CloseKeeps, UntrackKeeps, SocketIdsKeep, LeaveRoomKeeps,
             InformKeeps, ListKeeps DEF Disconnect
<1>3. ASSUME NEW s \in Sockets, NEW lane \in Lanes, Message(s, lane)
      PROVE  PInv'
  BY <1>3, MessageTypes, MessageKeeps
<1>4. ASSUME NEW s \in Sockets, Refused(s)
      PROVE  PInv'
  BY <1>4, OtherTypes, CloseKeeps
<1>5. ASSUME NEW h \in Handlers, QueryFails(h)
      PROVE  PInv'
  BY <1>5, OtherTypes, FailsKeeps
<1>6. CASE Crash
  BY <1>6, OtherTypes, CrashKeeps
<1>7. ASSUME NEW c \in Channels, AccessChanges(c)
      PROVE  PInv'
  <2>1. TypeOK'
    BY <1>7, OtherTypes
  <2> QED BY <1>7, <2>1, AccessKeeps DEF AccessChanges, connections, views
<1>8. CASE UNCHANGED vars
  <2>1. TypeOK'
    BY <1>8 DEF PInv, TypeOK, vars, connections, views
  <2> QED BY <1>8, <2>1, AccessKeeps DEF vars, connections, views
<1> QED BY <1>1, <1>2, <1>3, <1>4, <1>5, <1>6, <1>7, <1>8 DEF Next, Answered

-----------------------------------------------------------------------------
\* Sockets, rooms, views and handlers stay within their types, for any number of
\* sockets, rooms and messages in flight.
THEOREM PresenceTypes == Spec => []TypeOK
<1>1. PInv => TypeOK
  BY DEF PInv
<1> QED BY <1>1, InitIsSound, NextIsSound, PTL DEF Spec

\* A user with a live socket is never taken for offline: trackSocket and the untracking
\* of other sockets interleave, with either store, and handlers fail or the process
\* ends between their awaits.
THEOREM LiveIsTracked == Spec => []LiveSocketsTracked
<1>1. PInv => LiveSocketsTracked
  BY DEF PInv
<1> QED BY <1>1, InitIsSound, NextIsSound, PTL DEF Spec

\* With the in-memory store no room is left with `offline' while a connected socket of
\* the user counts as in it: between getUserSocketIds and the broadcast nobody joins.
THEOREM OfflineIsTrue == Spec => []NoFalseOffline
<1>1. PInv => NoFalseOffline
  BY DEF PInv
<1> QED BY <1>1, InitIsSound, NextIsSound, PTL DEF Spec

-----------------------------------------------------------------------------
(***************************************************************************)
(* The views under the workloads of MCPresence                             *)
(***************************************************************************)
\* A lane that has given up a room and not yet left it.
Leaving(h, room) ==
    /\ h[2] \in Lanes /\ task[h].at \in {"rooms", "room", "partner"}
    /\ task[h].room = room
    /\ task[h].at = "partner" => task[h].says # "online"
\* Whoever gave up a room, and has yet to tell it.
Pending(h, room) ==
    /\ task[h].at \in {"untrack", "rooms", "room", "partner"} /\ room \in task[h].rooms
    /\ task[h].at = "partner" => room # task[h].room
Untracking(s) == task[<<s, "disconnect">>].at = "untrack"
Occupied(room) == \E s \in Sockets : room \in socketRooms[s]

\* A message is answered while its socket is open.
Handles(h) ==
    /\ task[h] # Idle /\ h[2] # "disconnect" => conn[h[1]] = "open"
    /\ task[h] # Idle /\ h[2] \in Lanes => task[h].rooms \subseteq {task[h].room}
    /\ h[2] = "disconnect" /\ task[h].at = "partner" => task[h].says # "online"
\* The presence store has the sockets that are live, and no other.
Present(s) ==
    /\ conn[s] = "open" /\ s \notin known => Connecting(s).at = "token"
    /\ conn[s] # "open" => joined[s] = {}
    /\ s \in tracked <=> \/ Live(s) /\ Connecting(s).at # "track"
                         \/ Untracking(s)
\* The service's rooms are socket.io's, but for the one that is being left.
RoomsMatch(s) ==
    \A room \in Rooms : room \in socketRooms[s] <=> /\ room \in joined[s]
                                                    /\ \A h \in InFlight(s) : ~Leaving(h, room)
OneAtATime(s) == \A g, h \in InFlight(s) : g = h
\* Who watches a room takes the user for present while a socket counts as in it, and
\* until he is told otherwise.
ToldRight(room) ==
    /\ Occupied(room) => roomView[room] = "online"
    /\ roomView[room] = "online" => Occupied(room) \/ \E h \in Handlers : Pending(h, room)

AInv == /\ InMemory
        /\ \A h \in Handlers : Handles(h)
        /\ \A s \in Sockets : Present(s) /\ RoomsMatch(s) /\ OneAtATime(s)
        /\ \A room \in Rooms : ToldRight(room)

\* Patience leaves each socket one handler in flight.
LEMMA PatientIsOne ==
    ASSUME PInv, AInv, Patient, NEW h \in Handlers, Moves(h), NEW s \in Sockets
    PROVE  OneAtATime(s)'
<1>1. IsFiniteSet(InFlight(s))
  <2>1. CASE InFlight(s) = {}
    BY <2>1, FS_EmptySet
  <2>2. ASSUME NEW g \in InFlight(s)
        PROVE  IsFiniteSet(InFlight(s))
    <3>1. InFlight(s) = {g}
      BY <2>2 DEF AInv, OneAtATime
    <3> QED BY <3>1, FS_Singleton
  <2> QED BY <2>1, <2>2
<1>2. InFlight(s)' \subseteq InFlight(s) \cup {h}
  BY DEF InFlight, Moves
<1>3. IsFiniteSet(InFlight(s) \cup {h})
  BY <1>1, FS_AddElement
<1>4. IsFiniteSet(InFlight(s)')
  BY <1>2, <1>3, FS_Subset
<1>5. Cardinality(InFlight(s)') <= 1
  BY DEF Patient
<1> SUFFICES ASSUME NEW f \in InFlight(s)', NEW g \in InFlight(s)', f # g
             PROVE  FALSE
  BY DEF OneAtATime
<1>6. /\ IsFiniteSet({f, g}) /\ Cardinality({f, g}) = 2
      /\ Cardinality({f, g}) <= Cardinality(InFlight(s)')
  <2>1. Cardinality({f}) = 1 /\ IsFiniteSet({f})
    BY FS_Singleton
  <2>2. {f, g} = {f} \cup {g} /\ g \notin {f}
    OBVIOUS
  <2>3. IsFiniteSet({f, g}) /\ Cardinality({f, g}) = 2
    BY <2>1, <2>2, FS_AddElement
  <2>4. {f, g} \subseteq InFlight(s)'
    OBVIOUS
  <2> QED BY <1>4, <2>3, <2>4, FS_Subset
<1>7. Cardinality(InFlight(s)') \in Nat
  BY <1>4, FS_CardinalityType
<1> QED BY <1>5, <1>6, <1>7

\* The other handlers of a socket are idle when one of them moves.
LEMMA TheOnlyOne ==
    ASSUME AInv, NEW h \in Handlers, Moves(h), task[h] # Idle \/ task'[h] # Idle,
           OneAtATime(h[1])', NEW g \in Handlers \ {h}, g[1] = h[1]
    PROVE  task[g] = Idle /\ task'[g] = Idle
<1>1. h[1] \in Sockets
  BY HandlerParts
<1>2. task'[g] = task[g]
  BY DEF Moves
<1>3. task[h] # Idle => task[g] = Idle
  BY <1>1 DEF AInv, OneAtATime, InFlight
<1>4. task'[h] # Idle => task'[g] = Idle
  BY DEF OneAtATime, InFlight
<1> QED BY <1>2, <1>3, <1>4

\* So the rooms of its socket depend on what that one is about.
LEMMA MatchOfOne ==
    ASSUME AInv, NEW h \in Handlers, Moves(h), task[h] # Idle \/ task'[h] # Idle,
           OneAtATime(h[1])'
    PROVE  /\ \A room \in Rooms : room \in socketRooms[h[1]]
                                  <=> room \in joined[h[1]] /\ ~Leaving(h, room)
           /\ RoomsMatch(h[1])' <=> \A room \in Rooms :
                  room \in socketRooms'[h[1]] <=> room \in joined'[h[1]] /\ ~Leaving(h, room)'
<1> DEFINE s == h[1]
<1>1. s \in Sockets /\ RoomsMatch(s)
  BY HandlerParts DEF AInv
<1>2. InFlight(s) = (IF task[h] = Idle THEN {} ELSE {h})
  BY TheOnlyOne DEF InFlight
<1>3. InFlight(s)' = (IF task'[h] = Idle THEN {} ELSE {h})
  BY TheOnlyOne DEF InFlight
<1>4. \A room : task[h] = Idle => ~Leaving(h, room)
  BY TaskAt DEF Leaving
<1>5. \A room : task'[h] = Idle => ~Leaving(h, room)'
  BY TaskAt DEF Leaving
<1>6. \A room : (\A g \in InFlight(s) : ~Leaving(g, room)) <=> ~Leaving(h, room)
  BY <1>2, <1>4
<1>7. \A room : (\A g \in InFlight(s)' : ~Leaving(g, room)') <=> ~Leaving(h, room)'
  BY <1>3, <1>5
<1>8. \A room \in Rooms : room \in socketRooms[h[1]]
                          <=> room \in joined[h[1]] /\ ~Leaving(h, room)
  BY <1>1, <1>6 DEF RoomsMatch
<1>9. RoomsMatch(h[1])' <=> \A room \in Rooms :
          room \in socketRooms'[h[1]] <=> room \in joined'[h[1]] /\ ~Leaving(h, room)'
  BY <1>7 DEF RoomsMatch
<1> QED BY <1>8, <1>9

\* A step of one handler: what is left to show is of its socket, and of rooms.
LEMMA AgreeStep ==
    ASSUME PInv, AInv, Patient, NEW h \in Handlers, Moves(h), task[h] # Idle \/ task'[h] # Idle,
           UNCHANGED store,
           \A u \in Sockets \ {h[1]} :
               /\ conn'[u] = conn[u] /\ (u \in known' <=> u \in known)
               /\ (u \in tracked' <=> u \in tracked)
               /\ socketRooms'[u] = socketRooms[u] /\ joined'[u] = joined[u],
           Handles(h)', Present(h[1])',
           \A room \in Rooms : room \in socketRooms'[h[1]]
                               <=> room \in joined'[h[1]] /\ ~Leaving(h, room)',
           \A room \in Rooms : ToldRight(room)'
    PROVE  AInv'
<1>1. \A s \in Sockets : OneAtATime(s)'
  BY PatientIsOne
<1>2. h[1] \in Sockets
  BY HandlerParts
<1>3. ASSUME NEW g \in Handlers
      PROVE  Handles(g)'
  <2>1. CASE g = h
    BY <2>1
  <2>2. CASE g # h /\ g[1] = h[1]
    <3>1. task'[g] = Idle
      BY <1>1, <1>2, <2>2, TheOnlyOne
    <3> QED BY <3>1, TaskAt DEF Handles
  <2>3. CASE g[1] # h[1]
    <3>1. task'[g] = task[g] /\ conn'[g[1]] = conn[g[1]] /\ Handles(g)
      BY <2>3, HandlerParts DEF Moves, AInv
    <3> QED BY <3>1 DEF Handles
  <2> QED BY <2>1, <2>2, <2>3
<1>4. ASSUME NEW u \in Sockets \ {h[1]}
      PROVE  Present(u)' /\ RoomsMatch(u)'
  <2>1. Present(u) /\ RoomsMatch(u)
    BY DEF AInv
  <2>2. Connecting(u)' = Connecting(u) /\ Untracking(u)' = Untracking(u)
    BY HandlerOf DEF Moves, Connecting, Untracking
  <2>3. InFlight(u)' = InFlight(u) /\ \A g \in InFlight(u) : task'[g] = task[g]
    BY DEF InFlight, Moves
  <2>4. Present(u)'
    BY <2>1, <2>2 DEF Present, Live
  <2>5. \A g \in InFlight(u), room \in Rooms : Leaving(g, room)' = Leaving(g, room)
    BY <2>3 DEF Leaving
  <2> QED BY <2>1, <2>3, <2>4, <2>5 DEF RoomsMatch
<1>5. RoomsMatch(h[1])'
  BY <1>1, <1>2, MatchOfOne
<1>6. InMemory'
  BY DEF AInv, InMemory
<1> QED BY <1>1, <1>3, <1>4, <1>5, <1>6 DEF AInv

\* What is told of rooms stays right when none is told, entered or given up.
LEMMA ToldStays ==
    ASSUME AInv, NEW h \in Handlers, Moves(h), UNCHANGED <<socketRooms, roomView>>,
           \A room \in Rooms : Pending(h, room) => Pending(h, room)'
    PROVE  \A room \in Rooms : ToldRight(room)'
<1> SUFFICES ASSUME NEW room \in Rooms PROVE ToldRight(room)'
  OBVIOUS
<1>1. ToldRight(room)
  BY DEF AInv
<1>2. Occupied(room)' = Occupied(room)
  BY DEF Occupied
<1>3. \A g \in Handlers : Pending(g, room) => Pending(g, room)'
  BY DEF Moves, Pending
<1> QED BY <1>1, <1>2, <1>3 DEF ToldRight

\* A socket counts as it did when a message of it moves, or the end of its disconnect.
LEMMA PresentStays ==
    ASSUME AInv, NEW h \in Handlers, h[2] # "connection", Moves(h),
           UNCHANGED <<conn, known, tracked>>,
           h[2] = "disconnect" => task[h].at # "untrack" /\ task'[h].at # "untrack",
           conn[h[1]] # "open" => joined'[h[1]] \subseteq joined[h[1]]
    PROVE  Present(h[1])'
<1> DEFINE s == h[1]
<1>1. s \in Sockets /\ Present(s) /\ h = <<s, h[2]>>
  BY HandlerParts DEF AInv
<1>2. Connecting(s)' = Connecting(s)
  BY ConnectingStays
<1>3. Untracking(s)' = Untracking(s)
  BY <1>1, HandlerOf DEF Untracking, Moves
<1> QED BY <1>1, <1>2, <1>3 DEF Present, Live

-----------------------------------------------------------------------------
\* The handlers of connections and disconnects are in no room.
LEMMA NoLeaving ==
    ASSUME NEW h \in Handlers, h[2] \notin Lanes, NEW room
    PROVE  ~Leaving(h, room) /\ ~Leaving(h, room)'
BY DEF Leaving

\* No such handler changes what its socket counts as in.
LEMMA MatchStays ==
    ASSUME AInv, NEW h \in Handlers, Moves(h), task[h] # Idle \/ task'[h] # Idle,
           OneAtATime(h[1])', UNCHANGED <<socketRooms, joined>>,
           \A room \in Rooms : Leaving(h, room)' <=> Leaving(h, room)
    PROVE  \A room \in Rooms : room \in socketRooms'[h[1]]
                               <=> room \in joined'[h[1]] /\ ~Leaving(h, room)'
BY MatchOfOne

LEMMA ConnectionAgrees ==
    ASSUME PInv, AInv, Patient, NEW s \in Sockets, Connection(s)
    PROVE  AInv'
<1> DEFINE h == <<s, "connection">>
           d == <<s, "disconnect">>
<1>1. /\ h \in Handlers /\ h[1] = s /\ h[2] = "connection" /\ h[2] \notin Lanes
      /\ d \in Handlers /\ d[1] = s /\ d[2] = "disconnect" /\ d # h
      /\ Knows(h) /\ Knows(d) /\ SocketSound(s) /\ Handles(h) /\ Present(s)
  BY HandlerOf, PresenceAssumption DEF PInv, AInv
<1>2. /\ Moves(h) /\ (task[h] # Idle \/ task'[h] # Idle)
      /\ UNCHANGED <<store, socketRooms, joined, roomView>>
      /\ \A u \in Sockets \ {s} : /\ conn'[u] = conn[u] /\ (u \in known' <=> u \in known)
                                  /\ (u \in tracked' <=> u \in tracked)
      /\ conn'[s] = "open"
      /\ Present(s)'
  <2>1. CASE Opened(s)
    <3>1. Moves(h) /\ task'[h] = Start("token") /\ task'[h].at = "token" /\ task'[h] # Idle
      BY <2>1, <1>1, FreshGoes, StartIsTask, TaskAt DEF Opened
    <3>2. /\ UNCHANGED <<store, known, joined, socketRooms, tracked, roomView>>
          /\ conn'[s] = "open" /\ \A u \in Sockets \ {s} : conn'[u] = conn[u]
      BY <2>1 DEF Opened, views, PInv, TypeOK
    <3>3. s \notin known /\ task[d] = Idle /\ task'[d] = Idle
      BY <1>1, <2>1, <3>1 DEF Opened, SocketSound, Knows, Moves
    <3>4. Present(s)'
      BY <1>1, <2>1, <3>1, <3>2, <3>3, TaskAt DEF Opened, Present, Live, Untracking, Connecting
    <3> QED BY <3>1, <3>2, <3>4
  <2>2. CASE Authenticated(s)
    <3>1. task[h].at = "token" /\ task[h] # Idle
      BY <2>2, <1>1, AtTask, TaskAt DEF Authenticated, PInv
    <3>2. Moves(h) /\ task'[h].at = "track"
      BY <2>2, <1>1, FreshGoes, StartIsTask DEF Authenticated
    <3>3. UNCHANGED <<store, conn, joined, socketRooms, tracked, roomView>> /\ known' = known \cup {s}
      BY <2>2 DEF Authenticated, views
    <3>4. conn[s] = "open" /\ s \notin known /\ task'[d] = task[d]
      BY <1>1, <3>1, <3>2 DEF Handles, SocketSound, Connecting, Moves
    <3>5. Present(s)'
      BY <1>1, <3>2, <3>3, <3>4 DEF Present, Live, Untracking, Connecting
    <3> QED BY <3>1, <3>2, <3>3, <3>4, <3>5
  <2>3. CASE TrackSocket(s)
    <3>1. task[h].at = "track" /\ task[h] # Idle
      BY <2>3, <1>1, AtTask, TaskAt DEF TrackSocket, PInv
    <3>2. Moves(h) /\ task'[h].at = "list"
      BY <2>3, <1>1, FreshGoes, StartIsTask DEF TrackSocket
    <3>3. UNCHANGED <<store, conn, known, joined, socketRooms, roomView>> /\ tracked' = tracked \cup {s}
      BY <2>3 DEF TrackSocket, views, connections
    <3>4. conn[s] = "open" /\ s \in known
      BY <1>1, <3>1 DEF Handles, Present, Connecting
    <3>5. Present(s)'
      BY <1>1, <3>2, <3>3, <3>4 DEF Present, Live, Connecting
    <3> QED BY <3>1, <3>2, <3>3, <3>4, <3>5
  <2>4. CASE ListConversations(h, "online") \/ TellPartners(h)
    <3>1. Moves(h) /\ task[h].at \in {"list", "tell"} /\ task'[h].at \in {"idle", "tell"}
          /\ task[h] # Idle
      BY <2>4, <1>1, Talks
    <3>2. UNCHANGED <<store, conn, known, joined, socketRooms, tracked, roomView>>
      BY <2>4 DEF ListConversations, TellPartners, views, connections
    <3>3. conn[s] = "open" /\ s \in known /\ task'[d] = task[d]
      BY <1>1, <3>1 DEF Handles, Present, Connecting, Moves
    <3>4. Present(s)'
      BY <1>1, <3>1, <3>2, <3>3 DEF Present, Live, Untracking, Connecting
    <3> QED BY <3>1, <3>2, <3>3, <3>4
  <2> QED BY <2>1, <2>2, <2>3, <2>4 DEF Connection
<1>3. \A room : ~Pending(h, room)
  BY <1>1 DEF Knows, Pending
<1>4. \A room \in Rooms : ToldRight(room)'
  BY <1>1, <1>2, <1>3, ToldStays
<1>5. \A room \in Rooms : room \in socketRooms'[h[1]]
                          <=> room \in joined'[h[1]] /\ ~Leaving(h, room)'
  <2>1. OneAtATime(h[1])'
    BY <1>1, <1>2, PatientIsOne
  <2>2. \A room \in Rooms : Leaving(h, room)' <=> Leaving(h, room)
    BY <1>1, NoLeaving
  <2> QED BY <1>1, <1>2, <2>1, <2>2, MatchStays
<1>6. Handles(h)'
  BY <1>1, <1>2 DEF Handles
<1>7. /\ UNCHANGED store /\ Present(h[1])'
      /\ \A u \in Sockets \ {h[1]} :
            /\ conn'[u] = conn[u] /\ (u \in known' <=> u \in known)
            /\ (u \in tracked' <=> u \in tracked)
            /\ socketRooms'[u] = socketRooms[u] /\ joined'[u] = joined[u]
  BY <1>1, <1>2
<1> QED BY <1>1, <1>2, <1>4, <1>5, <1>6, <1>7, AgreeStep

\* A disconnect, once its socket is closed.
LEMMA DisconnectAgrees ==
    ASSUME PInv, AInv, Patient, NEW s \in Sockets,
           LET h == <<s, "disconnect">> IN
           Untrack(s) \/ IsUserTracked(s) \/ ListConversations(h, "offline") \/ TellPartners(h)
    PROVE  AInv'
<1> DEFINE h == <<s, "disconnect">>
<1>1. /\ h \in Handlers /\ h[1] = s /\ h[2] = "disconnect" /\ h[2] \notin Lanes
      /\ h[2] # "connection" /\ Knows(h) /\ Present(s) /\ TypeOK
  BY HandlerOf, PresenceAssumption DEF PInv, AInv
<1>2. /\ Moves(h) /\ task[h] # Idle
      /\ UNCHANGED <<store, conn, known, socketRooms, joined, roomView>>
      /\ \A u \in Sockets \ {s} : u \in tracked' <=> u \in tracked
      /\ task'[h].at \in {"tracked", "rooms", "list", "tell", "idle"}
      /\ \A room \in Rooms : Pending(h, room) => Pending(h, room)'
      /\ Present(s)'
  <2>1. CASE Untrack(s)
    <3> DEFINE t == [task[h] EXCEPT !.at = IF task[h].rooms = {} THEN "tracked" ELSE "rooms"]
    <3>1. task[h] \in Task /\ task[h] # Idle /\ task[h].at = "untrack"
      BY <2>1, <1>1, AtTask, TaskAt DEF Untrack
    <3>2. /\ t \in Task /\ t.at \in {"tracked", "rooms"} /\ t.rooms = task[h].rooms
          /\ t.rooms # {} => t.at = "rooms"
      BY <3>1 DEF Task
    <3>3. Moves(h) /\ task'[h] = t
      BY <2>1, <3>2, <1>1, FreshGoes DEF Untrack
    <3>4. /\ UNCHANGED <<store, conn, known, socketRooms, joined, roomView>>
          /\ tracked' = tracked \ {s}
      BY <2>1 DEF Untrack, UntrackSocket, views, connections
    <3>5. \A room \in Rooms : Pending(h, room) => Pending(h, room)'
      BY <3>2, <3>3 DEF Pending
    <3>6. conn[s] = "closed"
      BY <1>1, <3>1 DEF Knows
    <3>7. Present(s)'
      BY <1>1, <3>2, <3>3, <3>4, <3>6 DEF Present, Live, Untracking
    <3> QED BY <3>1, <3>2, <3>3, <3>4, <3>5, <3>7
  <2>2. CASE ~Untrack(s)
    <3>1. /\ Moves(h) /\ task[h] # Idle /\ task[h].at \in {"tracked", "list", "tell"}
          /\ task'[h].at \in {"list", "tell", "idle"}
      <4>1. CASE IsUserTracked(s)
        BY <4>1, <1>1, AtTask, FreshGoes, StartIsTask, TaskAt DEF IsUserTracked
      <4>2. CASE ~IsUserTracked(s)
        BY <2>2, <4>2, <1>1, Talks
      <4> QED BY <4>1, <4>2
    <3>2. UNCHANGED <<store, conn, known, tracked, socketRooms, joined, roomView>>
      BY <2>2 DEF IsUserTracked, ListConversations, TellPartners, views, connections
    <3>3. Present(s)'
      BY <1>1, <3>1, <3>2, PresentStays
    <3> QED BY <3>1, <3>2, <3>3 DEF Pending
  <2> QED BY <2>1, <2>2
<1>3. \A room \in Rooms : ToldRight(room)'
  BY <1>1, <1>2, ToldStays
<1>4. \A room \in Rooms : room \in socketRooms'[h[1]]
                          <=> room \in joined'[h[1]] /\ ~Leaving(h, room)'
  <2>1. OneAtATime(h[1])'
    BY <1>1, <1>2, PatientIsOne
  <2>2. \A room \in Rooms : Leaving(h, room)' <=> Leaving(h, room)
    BY <1>1, NoLeaving
  <2> QED BY <1>1, <1>2, <2>1, <2>2, MatchStays
<1>5. Handles(h)'
  BY <1>1, <1>2 DEF Handles
<1>6. /\ UNCHANGED store /\ Present(h[1])'
      /\ \A u \in Sockets \ {h[1]} :
            /\ conn'[u] = conn[u] /\ (u \in known' <=> u \in known)
            /\ (u \in tracked' <=> u \in tracked)
            /\ socketRooms'[u] = socketRooms[u] /\ joined'[u] = joined[u]
  BY <1>1, <1>2
<1> QED BY <1>1, <1>2, <1>3, <1>4, <1>5, <1>6, AgreeStep

-----------------------------------------------------------------------------
\* Asking who else is in the room.
LEMMA AskingAgrees ==
    ASSUME PInv, AInv, Patient, NEW h \in Handlers, GetUserSocketIds(h)
    PROVE  AInv'
<1>1. /\ task[h] \in Task /\ task[h] # Idle /\ task[h].at = "rooms" /\ Knows(h) /\ Handles(h)
      /\ h[1] \in Sockets
  BY AtTask, TaskAt, HandlerParts DEF GetUserSocketIds, PInv, AInv
<1>2. PICK room \in task[h].rooms :
           Goto(h, [task[h] EXCEPT !.at = "room", !.room = room, !.ids = tracked])
  BY DEF GetUserSocketIds
<1> DEFINE t == [task[h] EXCEPT !.at = "room", !.room = room, !.ids = tracked]
<1>3. t \in Task /\ t.at = "room" /\ t.room = room /\ t.rooms = task[h].rooms
  BY <1>1 DEF Task, PInv, TypeOK
<1>4. Moves(h) /\ task'[h] = t
  BY <1>2, <1>3, FreshGoes
<1>5. UNCHANGED <<store, conn, known, tracked, socketRooms, joined, roomView>>
  BY DEF GetUserSocketIds, connections, views
<1>6. h[2] # "connection" /\ (h[2] \in Lanes => room = task[h].room)
  BY <1>1 DEF Knows, Handles
<1>7. Present(h[1])'
  BY <1>1, <1>3, <1>4, <1>5, <1>6, PresentStays
<1>8. \A r \in Rooms : ToldRight(r)'
  <2>1. \A r \in Rooms : Pending(h, r) => Pending(h, r)'
    BY <1>1, <1>3, <1>4 DEF Pending
  <2> QED BY <1>4, <1>5, <2>1, ToldStays
<1>9. \A r \in Rooms : r \in socketRooms'[h[1]] <=> r \in joined'[h[1]] /\ ~Leaving(h, r)'
  <2>1. OneAtATime(h[1])'
    BY <1>1, <1>4, PatientIsOne
  <2>2. \A r \in Rooms : Leaving(h, r)' <=> Leaving(h, r)
    BY <1>1, <1>3, <1>4, <1>6 DEF Leaving
  <2> QED BY <1>1, <1>4, <1>5, <2>1, <2>2, MatchStays
<1>10. Handles(h)'
  BY <1>1, <1>3, <1>4, <1>5, <1>6 DEF Handles
<1> QED BY <1>1, <1>4, <1>5, <1>7, <1>8, <1>9, <1>10, AgreeStep

\* A step that leaves a room, or tells the partner so.
Quits(h) ==
    /\ Moves(h) /\ Handles(h)' /\ task'[h].at # "untrack"
    /\ \A u \in Sockets \ {h[1]} : joined'[u] = joined[u]
    /\ joined'[h[1]] \subseteq joined[h[1]]
    /\ \A room \in Rooms : room \in socketRooms'[h[1]]
                           <=> room \in joined'[h[1]] /\ ~Leaving(h, room)'
    /\ \A room \in Rooms \ {task[h].room} : Pending(h, room) => Pending(h, room)'

\* The end of a leave, or the next room of a disconnect.
LEMMA DoneAgrees ==
    ASSUME PInv, AInv, Patient, NEW h \in Handlers, task[h] \in Task, task[h].at \in {"room", "partner"},
           task[h].at = "partner" => task[h].says # "online",
           UNCHANGED <<conn, socketRooms>>, Done(h)
    PROVE  Quits(h)
<1> DEFINE rest == task[h].rooms \ {task[h].room}
           t == [Start(IF rest = {} THEN "tracked" ELSE "rooms") EXCEPT !.rooms = rest]
<1>1. /\ Knows(h) /\ Handles(h) /\ task[h] # Idle /\ h[1] \in Sockets
      /\ h[2] # "connection" /\ (h[2] = "disconnect" \/ h[2] \in Lanes)
  BY HandlerParts, TaskAt DEF PInv, AInv, Knows
<1>2. /\ t \in Task /\ t.rooms = rest /\ t.at \in {"tracked", "rooms"}
      /\ rest # {} => t.at = "rooms"
  BY DEF Start, Task, Told
<1>3. Moves(h) /\ task'[h] = IF h[2] = "disconnect" THEN t ELSE Idle
  BY <1>2, FreshGoes DEF Done, Finish
<1>4. OneAtATime(h[1])'
  BY <1>1, <1>3, PatientIsOne
<1>5. \A room \in Rooms : room \in socketRooms[h[1]] <=> room \in joined[h[1]] /\ ~Leaving(h, room)
  BY <1>1, <1>3, <1>4, MatchOfOne
<1>6. CASE h[2] = "disconnect"
  <2>1. h[2] \notin Lanes /\ UNCHANGED joined
    BY <1>6, PresenceAssumption DEF Done
  <2>2. \A room : ~Leaving(h, room) /\ ~Leaving(h, room)'
    BY <2>1, NoLeaving
  <2>3. Handles(h)' /\ task'[h].at # "untrack"
    BY <1>2, <1>3, <1>6, <2>1 DEF Handles
  <2>4. \A room \in Rooms \ {task[h].room} : Pending(h, room) => Pending(h, room)'
    BY <1>2, <1>3, <1>6 DEF Pending
  <2> QED BY <1>3, <1>5, <2>1, <2>2, <2>3, <2>4 DEF Quits
<1>7. CASE h[2] # "disconnect"
  <2>1. h[2] \in Lanes /\ task'[h] = Idle /\ task'[h].at = "idle"
    BY <1>1, <1>3, <1>7, TaskAt
  <2>2. /\ joined'[h[1]] = joined[h[1]] \ {task[h].room}
        /\ \A u \in Sockets \ {h[1]} : joined'[u] = joined[u]
    BY <1>1, <1>7 DEF Done, Leave, PInv, TypeOK
  <2>3. \A room : ~Leaving(h, room)' /\ (Leaving(h, room) <=> room = task[h].room)
    BY <2>1 DEF Leaving
  <2>4. Handles(h)' /\ task'[h].at # "untrack"
    BY <1>7, <2>1 DEF Handles
  <2>5. \A room \in Rooms \ {task[h].room} : ~Pending(h, room)
    BY <1>1, <2>1 DEF Handles, Pending
  <2> QED BY <1>3, <1>5, <2>2, <2>3, <2>4, <2>5 DEF Quits
<1> QED BY <1>6, <1>7

LEMMA QuitsAgree ==
    ASSUME PInv, AInv, Patient, NEW h \in Handlers, task[h].at \in {"room", "partner"}, Quits(h),
           UNCHANGED <<store, conn, known, tracked, socketRooms>>,
           \A room \in Rooms : ToldRight(room)'
    PROVE  AInv'
<1>1. Knows(h) /\ h[2] # "connection" /\ task[h] # Idle
  BY TaskAt DEF PInv, Knows
<1>2. Present(h[1])'
  BY <1>1, PresentStays DEF Quits
<1> QED BY <1>1, <1>2, AgreeStep DEF Quits

LEMMA LeaveRoomAgrees ==
    ASSUME PInv, AInv, Patient, NEW h \in Handlers, LeaveRoom(h)
    PROVE  AInv'
<1> DEFINE room == task[h].room
           last == ~HasOtherSocketInRoom(task[h].ids, h[1], room)
           t == [task[h] EXCEPT !.at = "partner", !.says = "offline"]
<1>1. /\ task[h] \in Task /\ task[h] # Idle /\ task[h].at = "room" /\ Knows(h) /\ Handles(h)
      /\ h[1] \in Sockets
  BY AtTask, TaskAt, HandlerParts DEF LeaveRoom, PInv, AInv
<1>2. UNCHANGED <<store, conn, known, tracked, socketRooms>>
  BY DEF LeaveRoom
<1>3. Quits(h)
  <2>1. CASE Done(h)
    BY <2>1, <1>1, <1>2, DoneAgrees
  <2>2. CASE ~Done(h)
    <3>1. Goto(h, t) /\ UNCHANGED joined
      BY <2>2 DEF LeaveRoom
    <3>2. /\ t \in Task /\ t.at = "partner" /\ t.says = "offline" /\ t.room = room
          /\ t.rooms = task[h].rooms
      BY <1>1 DEF Task, Told
    <3>3. Moves(h) /\ task'[h] = t
      BY <3>1, <3>2, FreshGoes
    <3>4. Handles(h)'
      BY <1>1, <1>2, <3>2, <3>3 DEF Handles
    <3>5. \A r \in Rooms : Leaving(h, r)' <=> Leaving(h, r)
      BY <1>1, <3>2, <3>3 DEF Leaving
    <3>6. OneAtATime(h[1])'
      BY <1>1, <3>3, PatientIsOne
    <3>7. \A r \in Rooms : r \in socketRooms'[h[1]] <=> r \in joined'[h[1]] /\ ~Leaving(h, r)'
      BY <1>1, <1>2, <3>1, <3>3, <3>5, <3>6, MatchStays
    <3>8. \A r \in Rooms \ {room} : Pending(h, r) => Pending(h, r)'
      BY <1>1, <3>2, <3>3 DEF Pending
    <3> QED BY <3>1, <3>2, <3>3, <3>4, <3>7, <3>8 DEF Quits
  <2> QED BY <2>1, <2>2
<1>4. last => ~Occupied(room)
  <2> SUFFICES ASSUME last, NEW u \in Sockets, room \in socketRooms[u]
               PROVE  FALSE
    BY DEF Occupied
  <2>1. room \in Rooms /\ Present(u) /\ RoomsMatch(u) /\ SocketSound(u) /\ InMemory
    BY <1>1 DEF Knows, AInv, PInv
  <2>2. conn[u] = "open"
    BY <2>1 DEF Present, RoomsMatch
  <2>3. u \in tracked
    BY <2>1, <2>2 DEF SocketSound, Present, Live
  <2>4. u # h[1]
    BY <1>1, <2>1, <2>2 DEF Knows
  <2>5. task[h].ids = tracked
    BY <1>1, <2>1 DEF Knows
  <2> QED BY <2>3, <2>4, <2>5 DEF HasOtherSocketInRoom
<1>5. ~last => Occupied(room)
  <2>1. tracked \subseteq Sockets /\ task[h].ids \subseteq Sockets
    BY <1>1 DEF PInv, TypeOK, Task
  <2> QED BY <2>1 DEF HasOtherSocketInRoom, Occupied
<1>6. ASSUME NEW r \in Rooms
      PROVE  ToldRight(r)'
  <2>1. ToldRight(r) /\ (Occupied(r)' <=> Occupied(r)) /\ room \in Rooms
    BY <1>1, <1>2 DEF AInv, Occupied, Knows
  <2>2. CASE r # room
    <3>1. roomView'[r] = roomView[r]
      BY <2>2 DEF LeaveRoom, TellRoom, PInv, TypeOK
    <3>2. \A g \in Handlers : Pending(g, r) => Pending(g, r)'
      <4>1. \A g \in Handlers \ {h} : Pending(g, r) => Pending(g, r)'
        BY <1>3 DEF Quits, Moves, Pending
      <4> QED BY <1>3, <2>2, <4>1 DEF Quits
    <3> QED BY <2>1, <3>1, <3>2 DEF ToldRight
  <2>3. CASE r = room /\ last
    <3>1. roomView'[r] = "offline"
      BY <2>1, <2>3 DEF LeaveRoom, TellRoom, PInv, TypeOK
    <3> QED BY <2>1, <2>3, <3>1, <1>4 DEF ToldRight
  <2>4. CASE r = room /\ ~last
    <3>1. roomView' = roomView
      BY <2>4 DEF LeaveRoom
    <3> QED BY <2>1, <2>4, <3>1, <1>5 DEF ToldRight
  <2> QED BY <2>2, <2>3, <2>4
<1> QED BY <1>1, <1>2, <1>3, <1>6, QuitsAgree

LEMMA InformAgrees ==
    ASSUME PInv, AInv, Patient, NEW h \in Handlers, InformPartner(h)
    PROVE  AInv'
<1>1. /\ task[h] \in Task /\ task[h] # Idle /\ task[h].at = "partner" /\ Knows(h) /\ Handles(h)
      /\ h[1] \in Sockets /\ h[2] # "connection" /\ (h[2] = "disconnect" \/ h[2] \in Lanes)
  BY AtTask, TaskAt, HandlerParts DEF InformPartner, PInv, AInv, Knows
<1>2. UNCHANGED <<store, conn, known, tracked, socketRooms, roomView>>
  BY DEF InformPartner
<1>3. Quits(h)
  <2>1. CASE task[h].says # "online"
    <3>1. Done(h)
      BY <2>1 DEF InformPartner
    <3> QED BY <3>1, <2>1, <1>1, <1>2, DoneAgrees
  <2>2. CASE task[h].says = "online"
    <3>1. Finish(h) /\ UNCHANGED joined /\ h[2] \in Lanes
      BY <1>1, <2>2 DEF InformPartner, Handles
    <3>2. Moves(h) /\ task'[h] = Idle /\ task'[h].at = "idle"
      BY <3>1, FreshGoes, TaskAt DEF Finish
    <3>3. Handles(h)'
      BY <3>1, <3>2, PresenceAssumption DEF Handles
    <3>4. \A r \in Rooms : Leaving(h, r)' <=> Leaving(h, r)
      BY <1>1, <2>2, <3>2 DEF Leaving
    <3>5. OneAtATime(h[1])'
      BY <1>1, <3>2, PatientIsOne
    <3>6. \A r \in Rooms : r \in socketRooms'[h[1]] <=> r \in joined'[h[1]] /\ ~Leaving(h, r)'
      BY <1>1, <1>2, <3>1, <3>2, <3>4, <3>5, MatchStays
    <3>7. \A r \in Rooms : ~Pending(h, r)
      BY <1>1, <3>1 DEF Handles, Pending
    <3> QED BY <3>1, <3>2, <3>3, <3>6, <3>7 DEF Quits
  <2> QED BY <2>1, <2>2
<1>4. \A r \in Rooms : Pending(h, r) => Pending(h, r)'
  BY <1>1, <1>3 DEF Quits, Pending
<1>5. \A r \in Rooms : ToldRight(r)'
  BY <1>2, <1>3, <1>4, ToldStays DEF Quits
<1> QED BY <1>1, <1>2, <1>3, <1>5, QuitsAgree

\* What a message leaves alone that neither enters nor leaves a room.
LEMMA PlainAgrees ==
    ASSUME PInv, AInv, Patient, NEW h \in Handlers, h[2] \in Lanes, Moves(h),
           task[h].at \in {"idle", "access", "typing"}, task'[h].at \in {"idle", "access", "enter", "typing"},
           task[h] # Idle \/ task'[h] # Idle, conn[h[1]] = "open",
           task'[h] # Idle => task'[h].rooms \subseteq {task'[h].room},
           UNCHANGED <<store, conn, known, tracked, socketRooms, joined, roomView>>
    PROVE  AInv'
<1>1. h[1] \in Sockets /\ h[2] # "connection" /\ h[2] # "disconnect"
  BY HandlerParts, PresenceAssumption
<1>2. Present(h[1])'
  BY <1>1, PresentStays
<1>3. \A room \in Rooms : ToldRight(room)'
  <2>1. \A room \in Rooms : Pending(h, room) => Pending(h, room)'
    BY DEF Pending
  <2> QED BY <2>1, ToldStays
<1>4. \A room \in Rooms : room \in socketRooms'[h[1]] <=> room \in joined'[h[1]] /\ ~Leaving(h, room)'
  <2>1. OneAtATime(h[1])'
    BY <1>1, PatientIsOne
  <2>2. \A room \in Rooms : Leaving(h, room)' <=> Leaving(h, room)
    BY DEF Leaving
  <2> QED BY <2>1, <2>2, MatchStays
<1>5. Handles(h)'
  BY <1>1 DEF Handles
<1> QED BY <1>2, <1>3, <1>4, <1>5, AgreeStep

LEMMA GiveUpAgrees ==
    ASSUME PInv, AInv, Patient, NEW h \in Handlers, h[2] \in Lanes, NEW room \in Rooms, GiveUp(h, room),
           task[h].at \in {"idle", "typing"}, conn[h[1]] = "open",
           UNCHANGED <<store, conn, known, tracked, joined, roomView>>
    PROVE  AInv'
<1> DEFINE s == h[1]
           t == [Start("rooms") EXCEPT !.room = room, !.rooms = {room}]
<1>1. s \in Sockets /\ h[2] # "connection" /\ h[2] # "disconnect"
  BY HandlerParts, PresenceAssumption
<1>2. /\ t \in Task /\ t.at = "rooms" /\ t.room = room /\ t.rooms = {room}
      /\ t # Idle
  BY TaskAt DEF Start, Task, Told
<1>3. Moves(h) /\ task'[h] = t
  BY <1>2, FreshGoes DEF GiveUp
<1>4. /\ socketRooms'[s] = socketRooms[s] \ {room}
      /\ \A u \in Sockets \ {s} : socketRooms'[u] = socketRooms[u]
  BY <1>1 DEF GiveUp, RemoveSocketRoom, PInv, TypeOK
<1>5. Present(s)'
  BY <1>1, <1>3, PresentStays
<1>6. \A r \in Rooms : ~Leaving(h, r) /\ (Leaving(h, r)' <=> r = room)
  BY <1>2, <1>3 DEF Leaving
<1>7. \A r \in Rooms : r \in socketRooms'[s] <=> r \in joined'[s] /\ ~Leaving(h, r)'
  <2>1. OneAtATime(s)'
    BY <1>1, <1>3, PatientIsOne
  <2>2. \A r \in Rooms : r \in socketRooms[s] <=> r \in joined[s] /\ ~Leaving(h, r)
    BY <1>2, <1>3, <2>1, MatchOfOne
  <2> QED BY <1>4, <1>6, <2>2
<1>8. ASSUME NEW r \in Rooms
      PROVE  ToldRight(r)'
  <2>1. ToldRight(r)
    BY DEF AInv
  <2>2. Occupied(r)' => Occupied(r)
    BY <1>4 DEF Occupied
  <2>3. Occupied(r) => Occupied(r)' \/ r = room
    BY <1>4 DEF Occupied
  <2>4. Pending(h, room)'
    BY <1>2, <1>3 DEF Pending
  <2>5. \A g \in Handlers : Pending(g, r) => Pending(g, r)'
    <3>1. ~Pending(h, r)
      BY DEF Pending
    <3> QED BY <1>3, <3>1 DEF Moves, Pending
  <2> QED BY <2>1, <2>2, <2>3, <2>4, <2>5 DEF ToldRight
<1>9. Handles(h)'
  BY <1>1, <1>2, <1>3 DEF Handles
<1> QED BY <1>2, <1>3, <1>4, <1>5, <1>7, <1>8, <1>9, AgreeStep

LEMMA EnterAgrees ==
    ASSUME PInv, AInv, Patient, NEW h \in Handlers, h[2] \in Lanes, Enter(h)
    PROVE  AInv'
<1> DEFINE s == h[1]
           room == task[h].room
           t == [task[h] EXCEPT !.at = "partner", !.says = "online"]
<1>1. /\ task[h] \in Task /\ task[h] # Idle /\ task[h].at = "enter" /\ Knows(h) /\ Handles(h)
      /\ s \in Sockets /\ h[2] # "connection" /\ h[2] # "disconnect"
  BY AtTask, TaskAt, HandlerParts, PresenceAssumption DEF Enter, PInv, AInv
<1>2. /\ t \in Task /\ t.at = "partner" /\ t.room = room /\ t.says = "online" /\ t.rooms = task[h].rooms
      /\ room \in Rooms /\ conn[s] = "open"
  BY <1>1 DEF Task, Told, Knows, Handles
<1>3. Moves(h) /\ task'[h] \in {t, Idle}
  <2>1. Goto(h, t) \/ Goto(h, Idle)
    BY DEF Enter, Finish
  <2> QED BY <2>1, <1>2, FreshGoes
<1>4. /\ UNCHANGED <<store, conn, known, tracked>>
      /\ socketRooms'[s] = socketRooms[s] \cup {room} /\ joined'[s] = joined[s] \cup {room}
      /\ \A u \in Sockets \ {s} : socketRooms'[u] = socketRooms[u] /\ joined'[u] = joined[u]
      /\ roomView'[room] = "online"
      /\ \A r \in Rooms \ {room} : roomView'[r] = roomView[r]
  BY <1>1, <1>2 DEF Enter, AddSocketRoom, TellRoom, PInv, TypeOK
<1>5. Present(s)'
  BY <1>1, <1>2, <1>3, <1>4, PresentStays
<1>6. \A r : ~Leaving(h, r) /\ ~Leaving(h, r)'
  BY <1>1, <1>2, <1>3, TaskAt DEF Leaving
<1>7. \A r \in Rooms : r \in socketRooms'[s] <=> r \in joined'[s] /\ ~Leaving(h, r)'
  <2>1. OneAtATime(s)'
    BY <1>1, <1>3, PatientIsOne
  <2>2. \A r \in Rooms : r \in socketRooms[s] <=> r \in joined[s] /\ ~Leaving(h, r)
    BY <1>1, <1>3, <2>1, MatchOfOne
  <2> QED BY <1>4, <1>6, <2>2
<1>8. ASSUME NEW r \in Rooms
      PROVE  ToldRight(r)'
  <2>1. CASE r = room
    <3>1. Occupied(r)'
      BY <1>1, <1>4, <2>1 DEF Occupied
    <3> QED BY <1>4, <2>1, <3>1 DEF ToldRight
  <2>2. CASE r # room
    <3>1. ToldRight(r) /\ (Occupied(r)' <=> Occupied(r)) /\ roomView'[r] = roomView[r]
      BY <1>1, <1>4, <2>2 DEF AInv, Occupied
    <3>2. \A g \in Handlers : Pending(g, r) => Pending(g, r)'
      <4>1. ~Pending(h, r)
        BY <1>1 DEF Pending
      <4> QED BY <1>3, <4>1 DEF Moves, Pending
    <3> QED BY <3>1, <3>2 DEF ToldRight
  <2> QED BY <2>1, <2>2
<1>9. Handles(h)'
  BY <1>1, <1>2, <1>3, <1>4 DEF Handles
<1> QED BY <1>1, <1>3, <1>4, <1>5, <1>7, <1>8, <1>9, AgreeStep

LEMMA MessageAgrees ==
    ASSUME PInv, AInv, Patient, NEW s \in Sockets, NEW lane \in Lanes, Message(s, lane)
    PROVE  AInv'
<1> DEFINE h == <<s, lane>>
<1>1. h \in Handlers /\ h[2] \in Lanes /\ h[1] = s /\ Knows(h) /\ Handles(h) /\ h[2] # "disconnect"
  BY HandlerOf, PresenceAssumption DEF PInv, AInv
<1>2. ASSUME NEW room \in Rooms, LeaveCalled(s, lane, room)
      PROVE  AInv'
  <2>1. GiveUp(h, room) /\ UNCHANGED <<store, conn, known, joined, tracked, roomView>>
    BY <1>2 DEF LeaveCalled, views
  <2>2. conn[s] = "open" /\ task[h].at = "idle"
    BY <1>2, TaskAt DEF LeaveCalled, Free
  <2> QED BY <1>1, <2>1, <2>2, GiveUpAgrees
<1>3. ASSUME NEW room \in Rooms, JoinCalled(s, lane, room) \/ TypingCalled(s, lane, room)
      PROVE  AInv'
  <2>1. PICK at \in {"access", "typing"} : Goto(h, [Start(at) EXCEPT !.room = room])
    BY <1>3 DEF JoinCalled, TypingCalled
  <2> DEFINE t == [Start(at) EXCEPT !.room = room]
  <2>2. t \in Task /\ t.at = at /\ t.rooms = {}
    BY DEF Start, Task, Told
  <2>3. Moves(h) /\ task'[h] = t /\ task'[h] # Idle
    BY <1>1, <2>1, <2>2, FreshGoes, TaskAt
  <2>4. conn[s] = "open" /\ task[h].at = "idle"
    BY <1>3, TaskAt DEF JoinCalled, TypingCalled, Free
  <2>5. UNCHANGED <<store, conn, known, tracked, socketRooms, joined, roomView>>
    BY <1>3 DEF JoinCalled, TypingCalled, connections, views
  <2> QED BY <1>1, <2>2, <2>3, <2>4, <2>5, PlainAgrees
<1>4. CASE JoinChecked(h) \/ TypingChecked(h)
  <2>1. task[h] \in Task /\ task[h] # Idle /\ task[h].at \in {"access", "typing"} /\ conn[s] = "open"
    BY <1>1, <1>4, AtTask, TaskAt DEF JoinChecked, TypingChecked, PInv, Handles
  <2>2. CASE TypingChecked(h) /\ GiveUp(h, task[h].room)
    <3>1. task[h].room \in Rooms /\ task[h].at = "typing"
      BY <1>1, <2>1, <2>2 DEF Knows, TypingChecked, At
    <3>2. UNCHANGED <<store, conn, known, joined, tracked, roomView>>
      BY <2>2 DEF TypingChecked, views
    <3> QED BY <1>1, <2>1, <2>2, <3>1, <3>2, GiveUpAgrees
  <2>3. CASE ~(TypingChecked(h) /\ GiveUp(h, task[h].room))
    <3> DEFINE t == [task[h] EXCEPT !.at = "enter"]
    <3>1. t \in Task /\ t.at = "enter" /\ t.room = task[h].room /\ t.rooms = task[h].rooms
      BY <2>1 DEF Task
    <3>2. Goto(h, t) \/ Goto(h, Idle)
      BY <1>4, <2>3 DEF JoinChecked, TypingChecked, Finish
    <3>3. Moves(h) /\ task'[h] \in {t, Idle} /\ task'[h].at \in {"idle", "enter"}
      BY <1>1, <3>1, <3>2, FreshGoes, TaskAt
    <3>4. UNCHANGED <<store, conn, known, tracked, socketRooms, joined, roomView>>
      BY <1>4, <2>3 DEF JoinChecked, TypingChecked, connections, views
    <3>5. task'[h] # Idle => task'[h].rooms \subseteq {task'[h].room}
      BY <1>1, <2>1, <3>1, <3>3 DEF Handles
    <3> QED BY <1>1, <2>1, <3>3, <3>4, <3>5, PlainAgrees
  <2> QED BY <2>2, <2>3
<1>5. CASE Enter(h)
  BY <1>1, <1>5, EnterAgrees
<1>6. CASE GetUserSocketIds(h) \/ LeaveRoom(h) \/ InformPartner(h)
  BY <1>1, <1>6, AskingAgrees, LeaveRoomAgrees, InformAgrees
<1> QED BY <1>2, <1>3, <1>4, <1>5, <1>6 DEF Message

\* A socket that closes has been answered: its disconnect takes all its rooms along.
LEMMA DisconnectedAgrees ==
    ASSUME PInv, AInv, Patient, NEW s \in Sockets, Disconnected(s)
    PROVE  AInv'
<1> DEFINE h == <<s, "connection">>
           d == <<s, "disconnect">>
           t == [Start("untrack") EXCEPT !.rooms = socketRooms[s]]
<1>1. /\ h \in Handlers /\ d \in Handlers /\ d[1] = s /\ d[2] = "disconnect" /\ d # h
      /\ d[2] \notin Lanes /\ Knows(d) /\ Present(s) /\ TypeOK
      /\ h[1] = s
  BY HandlerOf, PresenceAssumption DEF PInv, AInv
<1>2. /\ conn[s] = "open" /\ Close(s, task)
      /\ UNCHANGED <<store, known, tracked, roomView>>
  BY DEF Disconnected, views
<1>3. /\ conn'[s] = "closed" /\ joined'[s] = {} /\ socketRooms'[s] = {}
      /\ \A u \in Sockets \ {s} : /\ conn'[u] = conn[u] /\ joined'[u] = joined[u]
                                  /\ socketRooms'[u] = socketRooms[u]
  BY <1>1, <1>2 DEF Close, TypeOK
<1>4. /\ \A g \in Handlers \ {d} : task'[g] = task[g]
      /\ task'[d] = IF s \in known THEN t ELSE Idle
  BY <1>1, <1>2 DEF Close, TypeOK
<1>5. task[h] = Idle
  <2>1. s \in Closing
    BY <1>2, <1>3 DEF Closing
  <2>2. InFlight(s)' \subseteq {d}
    BY <2>1 DEF Patient
  <2>3. task'[h] = task[h]
    BY <1>1, <1>4
  <2> QED BY <1>1, <2>2, <2>3 DEF InFlight
<1>6. s \in known /\ Connecting(s).at = "idle"
  BY <1>1, <1>2, <1>5, TaskAt DEF Present, Connecting
<1>7. /\ Moves(d) /\ task'[d] = t /\ task[d] = Idle
      /\ t.at = "untrack" /\ t.rooms = socketRooms[s] /\ t # Idle
  BY <1>1, <1>2, <1>4, <1>6, TaskAt DEF Moves, Knows, Start
<1>8. Present(s)'
  <2>1. s \in tracked
    BY <1>1, <1>2, <1>6 DEF Present, Live
  <2> QED BY <1>2, <1>3, <1>7, <2>1 DEF Present, Untracking
<1>9. Handles(d)'
  BY <1>1, <1>7 DEF Handles
<1>10. ASSUME NEW r \in Rooms
       PROVE  ToldRight(r)'
  <2>1. ToldRight(r)
    BY DEF AInv
  <2>2. Occupied(r)' => Occupied(r)
    BY <1>3 DEF Occupied
  <2>3. Occupied(r) => Occupied(r)' \/ Pending(d, r)'
    BY <1>3, <1>7 DEF Occupied, Pending
  <2>4. \A g \in Handlers : Pending(g, r) => Pending(g, r)'
    <3>1. ~Pending(d, r)
      BY <1>7, TaskAt DEF Pending
    <3> QED BY <1>7, <3>1 DEF Moves, Pending
  <2> QED BY <1>1, <1>2, <2>1, <2>2, <2>3, <2>4 DEF ToldRight
<1>11. \A r \in Rooms : r \in socketRooms'[s] <=> r \in joined'[s] /\ ~Leaving(d, r)'
  BY <1>3
<1> QED BY <1>1, <1>2, <1>3, <1>7, <1>8, <1>9, <1>10, <1>11, AgreeStep

\* Nor has a socket whose token is refused entered any room.
LEMMA RefusedAgrees ==
    ASSUME PInv, AInv, Patient, NEW s \in Sockets, Refused(s)
    PROVE  AInv'
<1> DEFINE h == <<s, "connection">>
           d == <<s, "disconnect">>
<1>1. /\ h \in Handlers /\ h[1] = s /\ h[2] = "connection" /\ h[2] \notin Lanes /\ d # h
      /\ d \in Handlers /\ d[1] = s /\ d[2] = "disconnect"
      /\ Knows(h) /\ Knows(d) /\ SocketSound(s) /\ Handles(h) /\ Present(s) /\ TypeOK /\ InMemory
  BY HandlerOf, PresenceAssumption DEF PInv, AInv
<1>2. /\ task[h].at = "token" /\ task[h] # Idle /\ UNCHANGED <<store, known, tracked, roomView>>
  BY <1>1, TaskAt DEF Refused, InMemory, views
<1>3. conn[s] = "open" /\ s \notin known /\ socketRooms[s] = {} /\ task[d] = Idle
  BY <1>1, <1>2 DEF Handles, SocketSound, Knows, Connecting
<1>4. Close(s, [task EXCEPT ![h] = Idle])
  BY <1>3 DEF Refused
<1>5. /\ conn'[s] = "closed" /\ joined'[s] = {} /\ socketRooms' = socketRooms
      /\ \A u \in Sockets \ {s} : conn'[u] = conn[u] /\ joined'[u] = joined[u]
  BY <1>1, <1>3, <1>4 DEF Close, TypeOK
<1>6. Moves(h) /\ task'[h] = Idle /\ task'[d] = Idle
  BY <1>1, <1>3, <1>4 DEF Close, TypeOK, Moves
<1>7. Present(s)'
  BY <1>1, <1>2, <1>3, <1>5, <1>6, TaskAt DEF Present, Live, Untracking
<1>8. Handles(h)'
  BY <1>1, <1>6 DEF Handles
<1>9. \A r \in Rooms : ToldRight(r)'
  <2>1. \A r \in Rooms : Pending(h, r) => Pending(h, r)'
    BY <1>2 DEF Pending
  <2> QED BY <1>1, <1>2, <1>5, <1>6, <2>1, ToldStays
<1>10. \A r \in Rooms : r \in socketRooms'[s] <=> r \in joined'[s] /\ ~Leaving(h, r)'
  BY <1>3, <1>5
<1> QED BY <1>1, <1>2, <1>5, <1>6, <1>7, <1>8, <1>9, <1>10, AgreeStep

LEMMA StillAgrees ==
    ASSUME AInv, UNCHANGED <<store, conn, known, tracked, socketRooms, joined, roomView, task>>
    PROVE  AInv'
<1>1. \A h \in Handlers : Handles(h)'
  BY DEF AInv, Handles
<1>2. ASSUME NEW s \in Sockets
      PROVE  Present(s)' /\ RoomsMatch(s)' /\ OneAtATime(s)'
  <2>1. Present(s) /\ RoomsMatch(s) /\ OneAtATime(s)
    BY DEF AInv
  <2>2. Present(s)'
    BY <2>1 DEF Present, Live, Connecting, Untracking
  <2>3. InFlight(s)' = InFlight(s) /\ \A h, room : Leaving(h, room)' <=> Leaving(h, room)
    BY DEF InFlight, Leaving
  <2>4. RoomsMatch(s)'
    BY <2>1, <2>3 DEF RoomsMatch
  <2> QED BY <2>1, <2>2, <2>3, <2>4 DEF OneAtATime
<1>3. \A room \in Rooms : ToldRight(room)'
  BY DEF AInv, ToldRight, Occupied, Pending
<1> QED BY <1>1, <1>2, <1>3 DEF AInv, InMemory

LEMMA AnsweredAgrees ==
    ASSUME PInv, AInv, Patient, Answered
    PROVE  AInv'
<1>1. ASSUME NEW s \in Sockets, Connection(s) \/ Refused(s)
      PROVE  AInv'
  BY <1>1, ConnectionAgrees, RefusedAgrees
<1>2. ASSUME NEW s \in Sockets, Disconnect(s)
      PROVE  AInv'
  <2>1. <<s, "disconnect">> \in Handlers
    BY HandlerOf
  <2> QED BY <1>2, <2>1, DisconnectedAgrees, DisconnectAgrees, AskingAgrees, LeaveRoomAgrees,
             InformAgrees DEF Disconnect
<1>3. ASSUME NEW s \in Sockets, NEW lane \in Lanes, Message(s, lane)
      PROVE  AInv'
  BY <1>3, MessageAgrees
<1>4. ASSUME NEW c \in Channels, AccessChanges(c)
      PROVE  AInv'
  BY <1>4, StillAgrees DEF AccessChanges, connections, views
<1> QED BY <1>1, <1>2, <1>3, <1>4 DEF Answered

-----------------------------------------------------------------------------
VInv == PInv /\ (Hasty \/ (AInv /\ "failures" \notin workload.happens))
\* Without haste the in-memory store is asked, and no query fails.
Reliable(load) == load.stores \subseteq {"memory"} /\ "failures" \notin load.happens

LEMMA InitAgrees ==
    ASSUME \A load \in Workloads : "haste" \in load.happens \/ Reliable(load), MCInit
    PROVE  VInv
<1>1. Init
  BY DEF MCInit
<1>2. Hasty \/ (InMemory /\ "failures" \notin workload.happens)
  BY DEF MCInit, PresenceInit, NoWorkload, Workload, Hasty, Reliable, InMemory
<1>3. \A h \in Handlers : task[h] = Idle
  BY <1>1 DEF Init
<1>4. \A h \in Handlers : Handles(h)
  BY <1>3, TaskAt DEF Handles
<1>5. ASSUME NEW s \in Sockets
      PROVE  Present(s) /\ RoomsMatch(s) /\ OneAtATime(s)
  <2>1. InFlight(s) = {} /\ ~Untracking(s)
    BY <1>3, HandlerOf, TaskAt DEF InFlight, Untracking
  <2> QED BY <1>1, <2>1 DEF Init, Present, Live, RoomsMatch, OneAtATime
<1>6. \A room \in Rooms : ToldRight(room)
  BY <1>1 DEF Init, ToldRight, Occupied
<1> QED BY <1>1, <1>2, <1>4, <1>5, <1>6, InitIsSound DEF VInv, AInv

LEMMA MCNextAgrees == VInv /\ [MCNext]_<<vars, workload, unreadVars, readingVars>> => VInv'
<1> SUFFICES ASSUME VInv, [MCNext]_<<vars, workload, unreadVars, readingVars>>
             PROVE  VInv'
  OBVIOUS
<1>1. UNCHANGED workload /\ (UNCHANGED vars \/ PresenceNext)
  BY DEF MCNext
<1>2. PInv'
  <2>1. [Next]_vars
    BY <1>1 DEF PresenceNext, Next
  <2> QED BY <2>1, NextIsSound DEF VInv
<1>3. Hasty' <=> Hasty
  BY <1>1 DEF Hasty
<1>4. ASSUME ~Hasty
      PROVE  AInv' /\ "failures" \notin workload'.happens
  <2>1. PInv /\ AInv /\ "failures" \notin workload.happens
    BY <1>4 DEF VInv
  <2>2. CASE UNCHANGED vars
    BY <1>1, <2>1, <2>2, StillAgrees DEF vars, connections, views
  <2>3. CASE PresenceNext
    <3>1. Answered /\ Patient
      BY <1>4, <2>1, <2>3 DEF PresenceNext, Within
    <3> QED BY <1>1, <2>1, <3>1, AnsweredAgrees
  <2> QED BY <1>1, <2>2, <2>3
<1> QED BY <1>2, <1>3, <1>4 DEF VInv

\* Once all is answered the store has the sockets that are live, the service's rooms are
\* socket.io's, and who watches a room was told the truth: a leave, a disconnect and another
\* socket's join of one room interleave, but of each socket one handler is in flight.
THEOREM ViewsAgreeAtRest ==
    ASSUME \A load \in Workloads : "haste" \in load.happens \/ Reliable(load)
    PROVE  MCSpec => []PatientViewsAgree
<1>1. MCInit => VInv
  BY InitAgrees
<1>2. VInv => PatientViewsAgree
  <2> SUFFICES ASSUME PInv, AInv, AtRest PROVE ViewsAgree
    BY DEF VInv, PatientViewsAgree, ViewsAgree
  <2>1. TypeOK /\ \A h \in Handlers : task[h] = Idle
    BY DEF PInv, AtRest
  <2>2. ASSUME NEW s \in Sockets
        PROVE  (s \in tracked <=> Live(s)) /\ socketRooms[s] = joined[s]
    <3>1. Connecting(s).at = "idle" /\ ~Untracking(s) /\ InFlight(s) = {}
      BY <2>1, HandlerOf, TaskAt DEF Connecting, Untracking, InFlight
    <3>2. Present(s) /\ RoomsMatch(s)
      BY DEF AInv
    <3>3. socketRooms[s] \subseteq Rooms /\ joined[s] \subseteq Rooms
      BY <2>1 DEF TypeOK
    <3> QED BY <3>1, <3>2, <3>3 DEF Present, RoomsMatch
  <2>3. tracked = {s \in Sockets : Live(s)}
    BY <2>1, <2>2 DEF TypeOK
  <2>4. socketRooms = joined
    BY <2>1, <2>2 DEF TypeOK
  <2>5. ASSUME NEW room \in Rooms
        PROVE  roomView[room] = "online" <=> \E s \in Sockets : room \in joined[s]
    <3>1. ToldRight(room)
      BY DEF AInv
    <3>2. \A h \in Handlers : ~Pending(h, room)
      BY <2>1, TaskAt DEF Pending
    <3> QED BY <2>4, <3>1, <3>2 DEF ToldRight, Occupied
  <2> QED BY <2>3, <2>4, <2>5 DEF ViewsAgree
<1> QED BY <1>1, <1>2, MCNextAgrees, PTL DEF MCSpec

-----------------------------------------------------------------------------
(***************************************************************************)
(* The page and the read mark.  Of every message that is kept and that the   *)
(* mark counts as read, or that a loaded page ought to show, it is known     *)
(* where it is: shown, on the way to the page, or told in vain.             *)
(***************************************************************************)
CallStates == {"none", "asked", "served", "failed"}
MailRow == [at : {"none", "begun", "kept"}, createdAt : Nat, mine : BOOLEAN, deleted : {FALSE}]
PageRow == [kind : {"closed", "loading", "success", "error"}, shows : SUBSET Mails,
            call : CallStates, found : SUBSET Mails]

ReadingTyped ==
    /\ place \in {"channel", "direct"}
    /\ clock \in Nat /\ lastReadAt \in Nat /\ lastReadAt <= clock
    /\ mail \in [Mails -> MailRow]
    /\ announce \subseteq Mails /\ toThread \subseteq Mails
    /\ thread \in PageRow
    /\ mark \in [Pages -> CallStates]

Accounted(m) == m \in seen \cup missed \cup announce \cup toThread
ReadAccounted == \A m \in Mails : Lives(m) /\ mail[m].createdAt < lastReadAt => Accounted(m)

\* What a page has loaded, or will load, together with what is on the way to it.
LoadedAccounted ==
    /\ thread.call # "none" => thread.kind = "loading"
    /\ thread.call = "served" => \A m \in Mails : Lives(m) => m \in thread.found \/ Accounted(m)
    /\ thread.kind = "success" => \A m \in Mails : Lives(m) => Accounted(m)

\* No call to mark outlives its page, and of the channel page none precedes its load.
ClosedAccounted ==
    /\ thread.kind = "closed" =>
           /\ thread = Closed /\ ~inThread /\ toThread = {} /\ ~Marking
           /\ \A m \in Unannounced : mail[m].createdAt < lastReadAt => m \in missed
    /\ place = "channel" /\ Marking => thread.kind = "success"

ReadSound == /\ ReadingTyped /\ ReadAccounted
             /\ LoadedAccounted /\ ClosedAccounted

HistoryGrows == seen \subseteq seen' /\ missed \subseteq missed'

LEMMA HistoryOnlyGrows ==
    ASSUME History
    PROVE  HistoryGrows /\ thread'.shows \subseteq seen'
BY DEF History, HistoryGrows

\* A step that leaves the messages and the page alone, and asks for no mark.
LEMMA ReadQuiet ==
    ASSUME ReadSound, HistoryGrows,
           UNCHANGED <<place, mail, announce, lastReadAt, thread, inThread, toThread>>,
           clock' \in Nat, clock <= clock',
           mark' \in [Pages -> CallStates], Marking' => Marking
    PROVE  ReadSound'
<1> USE DEF HistoryGrows
<1>1. ReadingTyped'
  BY DEF ReadSound, ReadingTyped
<1>2. \A m : Lives(m)' <=> Lives(m)
  BY DEF Lives, Written
<1>3. \A m : Accounted(m) => Accounted(m)'
  BY DEF Accounted
<1>4. ReadAccounted' /\ LoadedAccounted'
  BY <1>2, <1>3 DEF ReadSound, ReadAccounted, LoadedAccounted
<1>5. Unannounced' = Unannounced
  BY DEF Unannounced
<1>6. ClosedAccounted'
  BY <1>5 DEF ReadSound, ClosedAccounted, Closed
<1> QED BY <1>1, <1>4, <1>6 DEF ReadSound

LEMMA MarkingMeans ==
    ASSUME NEW p \in Pages, mark[p] # "none"
    PROVE  Marking
BY DEF Marking

\* An answer to a call to mark as read, or its failure.
LEMMA MarkEnds ==
    ASSUME ReadSound, HistoryGrows, NEW p \in Pages, NEW answer \in CallStates, mark[p] # "none",
           UNCHANGED <<place, clock, mail, announce, lastReadAt, thread, inThread, toThread>>,
           mark' = [mark EXCEPT ![p] = answer]
    PROVE  ReadSound'
<1>1. mark \in [Pages -> CallStates] /\ clock \in Nat
  BY DEF ReadSound, ReadingTyped
<1>2. mark' \in [Pages -> CallStates] /\ Marking
  BY <1>1, MarkingMeans
<1> QED BY <1>1, <1>2, ReadQuiet

LEMMA MarkReadTypes ==
    ASSUME ReadSound, MarkRead
    PROVE  mark' \in [Pages -> CallStates]
<1>1. mark \in [Pages -> CallStates] /\ "asked" \in CallStates
  BY DEF ReadSound, ReadingTyped, CallStates
<1> QED BY <1>1 DEF MarkRead

-----------------------------------------------------------------------------
LEMMA WriteBeginsAccounts ==
    ASSUME ReadSound, HistoryGrows, NEW m \in Mails, WriteBegins(m)
    PROVE  ReadSound'
<1> USE DEF HistoryGrows
<1>1. PICK mine \in BOOLEAN :
          mail' = [mail EXCEPT ![m] = [at |-> "begun", createdAt |-> clock,
                                       mine |-> mine, deleted |-> FALSE]]
  BY DEF WriteBegins
<1>2. /\ mail[m].at = "none"
      /\ UNCHANGED <<place, clock, announce, lastReadAt, thread, inThread, toThread, mark>>
  BY DEF WriteBegins, threadVars
<1>3. mail \in [Mails -> MailRow] /\ clock \in Nat /\ lastReadAt <= clock /\ lastReadAt \in Nat
  BY DEF ReadSound, ReadingTyped
<1>4. mail' \in [Mails -> MailRow]
  <2>1. [at |-> "begun", createdAt |-> clock, mine |-> mine, deleted |-> FALSE] \in MailRow
    BY <1>3 DEF MailRow
  <2> QED BY <1>1, <1>3, <2>1
<1>5. ReadingTyped'
  BY <1>2, <1>4 DEF ReadSound, ReadingTyped
<1>6. mail'[m].at = "begun" /\ mail'[m].createdAt = clock
  BY <1>1, <1>3
<1>7. \A n \in Mails \ {m} : mail'[n] = mail[n]
  BY <1>1, <1>3
<1>8. \A n \in Mails : Lives(n)' => Lives(n) /\ mail'[n] = mail[n]
  BY <1>6, <1>7 DEF Lives, Written
<1>9. \A n : Accounted(n) => Accounted(n)'
  BY <1>2 DEF Accounted
<1>10. ReadAccounted' /\ LoadedAccounted'
  BY <1>2, <1>8, <1>9 DEF ReadSound, ReadAccounted, LoadedAccounted
<1>11. \A n \in Unannounced' : n = m \/ (n \in Unannounced /\ mail'[n] = mail[n])
  <2>1. announce \subseteq Mails
    BY DEF ReadSound, ReadingTyped
  <2> QED BY <1>2, <1>7, <2>1 DEF Unannounced
<1>12. ClosedAccounted'
  <2>1. Marking' <=> Marking
    BY <1>2 DEF Marking
  <2>2. ~(mail'[m].createdAt < lastReadAt')
    BY <1>2, <1>3, <1>6
  <2> QED BY <1>2, <1>11, <2>1, <2>2 DEF ReadSound, ClosedAccounted, Closed
<1> QED BY <1>5, <1>10, <1>12 DEF ReadSound

LEMMA WriteKeptAccounts ==
    ASSUME ReadSound, HistoryGrows, NEW m \in Mails, WriteKept(m)
    PROVE  ReadSound'
<1> USE DEF HistoryGrows
<1>1. /\ mail[m].at = "begun" /\ mail' = [mail EXCEPT ![m].at = "kept"]
      /\ announce' = announce \cup {m}
      /\ UNCHANGED <<place, clock, lastReadAt, thread, inThread, toThread, mark>>
  BY DEF WriteKept, threadVars
<1>2. mail \in [Mails -> MailRow] /\ announce \subseteq Mails
  BY DEF ReadSound, ReadingTyped
<1>3. mail' \in [Mails -> MailRow] /\ \A n \in Mails : mail'[n].createdAt = mail[n].createdAt
  BY <1>1, <1>2 DEF MailRow
<1>4. ReadingTyped'
  BY <1>1, <1>2, <1>3 DEF ReadSound, ReadingTyped
<1>5. \A n \in Mails \ {m} : mail'[n] = mail[n]
  BY <1>1, <1>2
<1>6. \A n : Accounted(n) => Accounted(n)'
  BY <1>1 DEF Accounted
<1>7. \A n \in Mails : Lives(n)' => Accounted(n)' \/ Lives(n)
  <2>1. Accounted(m)'
    BY <1>1 DEF Accounted
  <2>2. \A n \in Mails \ {m} : Lives(n)' => Lives(n)
    BY <1>5 DEF Lives, Written
  <2> QED BY <2>1, <2>2
<1>8. ReadAccounted' /\ LoadedAccounted'
  BY <1>1, <1>3, <1>6, <1>7 DEF ReadSound, ReadAccounted, LoadedAccounted
<1>9. Unannounced' \subseteq Unannounced /\ Unannounced \subseteq Mails
  BY <1>1, <1>2, <1>5 DEF Unannounced
<1>10. Marking' <=> Marking
  BY <1>1 DEF Marking
<1>11. ClosedAccounted'
  BY <1>1, <1>3, <1>9, <1>10 DEF ReadSound, ClosedAccounted, Closed
<1> QED BY <1>4, <1>8, <1>11 DEF ReadSound

\* Who is told of a message has the page open, or has it open in vain, or has read before.
LEMMA AnnounceAccounts ==
    ASSUME ReadSound, History, NEW m \in Mails, Announce(m)
    PROVE  ReadSound'
<1>0. HistoryGrows
  BY HistoryOnlyGrows
<1>1. /\ m \in announce /\ announce' = announce \ {m} /\ place # "group"
      /\ TellThread(m)
      /\ UNCHANGED <<place, clock, mail, lastReadAt, thread, inThread, mark>>
  BY DEF Announce, ReadSound, ReadingTyped
<1>2. mail \in [Mails -> MailRow] /\ announce \subseteq Mails /\ toThread \subseteq Mails
  BY DEF ReadSound, ReadingTyped
<1>3. toThread' = IF inThread THEN toThread \cup {m} ELSE toThread
  <2>1. mail[m].deleted = FALSE
    BY <1>2 DEF MailRow
  <2> QED BY <1>1, <2>1 DEF TellThread
<1>4. ReadingTyped'
  BY <1>1, <1>2, <1>3 DEF ReadSound, ReadingTyped
<1>5. \A n : Lives(n)' <=> Lives(n)
  BY <1>1 DEF Lives, Written
<1>6. \A n : Accounted(n) => n = m \/ Accounted(n)'
  BY <1>0, <1>1, <1>3 DEF Accounted, HistoryGrows
<1>7. thread.kind # "closed" => Accounted(m)'
  <2>1. m \in ToldNow
    BY <1>1 DEF ToldNow
  <2>2. thread.kind # "closed" /\ ~inThread => m \in missed'
    BY <2>1, <1>2 DEF History
  <2> QED BY <1>3, <2>2 DEF Accounted
<1>8. thread.kind = "closed" /\ mail[m].createdAt < lastReadAt => Accounted(m)'
  <2>1. m \in Unannounced
    BY <1>1 DEF Unannounced
  <2> QED BY <1>0, <2>1 DEF ReadSound, ClosedAccounted, Accounted, HistoryGrows
<1>9. ReadAccounted'
  BY <1>1, <1>5, <1>6, <1>7, <1>8 DEF ReadSound, ReadAccounted
<1>10. LoadedAccounted'
  <2>1. thread.kind = "closed" => thread.call = "none"
    BY DEF ReadSound, ClosedAccounted, Closed
  <2> QED BY <1>1, <1>5, <1>6, <1>7, <2>1 DEF ReadSound, LoadedAccounted
<1>11. ClosedAccounted'
  <2>1. Unannounced' \subseteq Unannounced
    BY <1>1 DEF Unannounced
  <2>2. Marking' <=> Marking
    BY <1>1 DEF Marking
  <2> QED BY <1>0, <1>1, <1>3, <2>1, <2>2 DEF ReadSound, ClosedAccounted, Closed, HistoryGrows
<1> QED BY <1>4, <1>9, <1>10, <1>11 DEF ReadSound

-----------------------------------------------------------------------------
\* The parts that the page's steps leave alone.
MailStays == UNCHANGED <<place, clock, mail, announce, lastReadAt>>

\* A step of the page by which nothing that was accounted for is lost, and that leaves the
\* page open.
LEMMA PageAccounts ==
    ASSUME ReadSound, HistoryGrows, MailStays,
           thread' \in PageRow, toThread' \subseteq Mails, mark' \in [Pages -> CallStates],
           \A m \in Mails : Accounted(m) => Accounted(m)',
           thread'.kind # "closed", LoadedAccounted',
           place = "channel" /\ Marking' => thread'.kind = "success"
    PROVE  ReadSound'
<1>1. ReadingTyped'
  BY DEF ReadSound, ReadingTyped, MailStays
<1>2. \A m : Lives(m)' <=> Lives(m)
  BY DEF Lives, Written, MailStays
<1>3. ReadAccounted'
  BY <1>2 DEF ReadSound, ReadAccounted, MailStays
<1>4. ClosedAccounted'
  BY DEF ClosedAccounted, MailStays
<1> QED BY <1>1, <1>3, <1>4 DEF ReadSound

LEMMA StaysAccounted ==
    ASSUME HistoryGrows, MailStays, UNCHANGED toThread
    PROVE  /\ \A m : Accounted(m) => Accounted(m)'
           /\ \A m : Lives(m)' <=> Lives(m)
BY DEF HistoryGrows, MailStays, Accounted, Lives, Written

LEMMA OpenThreadAccounts ==
    ASSUME ReadSound, HistoryGrows, OpenThread
    PROVE  ReadSound'
<1>1. /\ thread = Closed /\ MailStays /\ UNCHANGED <<inThread, toThread, mark>>
      /\ thread' = [Closed EXCEPT !.kind = "loading", !.call = "asked"]
  BY DEF OpenThread, MailStays, mailVars
<1>2. thread' = [kind |-> "loading", shows |-> {}, call |-> "asked", found |-> {}]
  BY <1>1 DEF Closed
<1>3. ReadingTyped
  BY DEF ReadSound
<1>4. thread' \in PageRow
  BY <1>2 DEF PageRow, CallStates
<1>5. \A m \in Mails : Accounted(m) => Accounted(m)'
  BY <1>1, StaysAccounted
<1>6. LoadedAccounted'
  BY <1>2 DEF LoadedAccounted
<1>7. ~Marking'
  <2>1. ~Marking
    BY <1>1 DEF ReadSound, ClosedAccounted, Closed
  <2> QED BY <1>1, <2>1 DEF Marking
<1> QED BY <1>1, <1>2, <1>3, <1>4, <1>5, <1>6, <1>7, PageAccounts DEF ReadingTyped

LEMMA ServeThreadAccounts ==
    ASSUME ReadSound, HistoryGrows, ServeThread
    PROVE  ReadSound'
<1>1. /\ thread.call = "asked" /\ MailStays /\ UNCHANGED <<inThread, toThread, mark>>
      /\ thread' = [thread EXCEPT !.call = "served", !.found = {m \in Mails : Lives(m)}]
  BY DEF ServeThread, MailStays, mailVars
<1>2. ReadingTyped /\ thread \in PageRow
  BY DEF ReadSound, ReadingTyped
<1>3. thread.kind = "loading"
  BY <1>1 DEF ReadSound, LoadedAccounted
<1>4. /\ thread' \in PageRow /\ thread'.kind = "loading" /\ thread'.call = "served"
      /\ thread'.found = {m \in Mails : Lives(m)}
  BY <1>1, <1>2, <1>3 DEF PageRow, CallStates
<1>5. \A m : (Accounted(m) => Accounted(m)') /\ (Lives(m)' <=> Lives(m))
  BY <1>1, StaysAccounted
<1>6. LoadedAccounted'
  BY <1>4, <1>5 DEF LoadedAccounted
<1>7. place = "channel" => ~Marking'
  BY <1>1, <1>3 DEF ReadSound, ClosedAccounted, Marking
<1> QED BY <1>1, <1>2, <1>4, <1>5, <1>6, <1>7, PageAccounts DEF ReadingTyped

LEMMA ThreadFailsAccounts ==
    ASSUME ReadSound, HistoryGrows, ThreadFails
    PROVE  ReadSound'
<1>1. /\ thread.call = "asked" /\ MailStays /\ UNCHANGED <<inThread, toThread, mark>>
      /\ thread' = [thread EXCEPT !.call = "failed"]
  BY DEF ThreadFails, MailStays, mailVars
<1>2. ReadingTyped /\ thread \in PageRow
  BY DEF ReadSound, ReadingTyped
<1>3. thread.kind = "loading"
  BY <1>1 DEF ReadSound, LoadedAccounted
<1>4. thread' \in PageRow /\ thread'.kind = "loading" /\ thread'.call = "failed"
  BY <1>1, <1>2, <1>3 DEF PageRow, CallStates
<1>5. \A m : Accounted(m) => Accounted(m)'
  BY <1>1, StaysAccounted
<1>6. LoadedAccounted'
  BY <1>4 DEF LoadedAccounted
<1>7. place = "channel" => ~Marking'
  BY <1>1, <1>3 DEF ReadSound, ClosedAccounted, Marking
<1> QED BY <1>1, <1>2, <1>4, <1>5, <1>6, <1>7, PageAccounts DEF ReadingTyped

\* What the page shows now was found by its read, or is on the way to it.
LEMMA ThreadLoadedAccounts ==
    ASSUME ReadSound, History, ThreadLoaded
    PROVE  ReadSound'
<1>1. /\ thread.call = "served" /\ MailStays /\ UNCHANGED <<inThread, toThread>> /\ MarkRead
      /\ thread' = [Closed EXCEPT !.kind = "success", !.shows = thread.found]
  BY DEF ThreadLoaded, MailStays, mailVars
<1>2. ReadingTyped /\ thread \in PageRow
  BY DEF ReadSound, ReadingTyped
<1>3. thread' = [kind |-> "success", shows |-> thread.found, call |-> "none", found |-> {}]
  BY <1>1 DEF Closed
<1>4. thread' \in PageRow
  BY <1>2, <1>3 DEF PageRow, CallStates
<1>5. HistoryGrows /\ thread.found \subseteq seen'
  BY <1>3, HistoryOnlyGrows
<1>6. \A m : (Accounted(m) => Accounted(m)') /\ (Lives(m)' <=> Lives(m))
  BY <1>1, <1>5, StaysAccounted
<1>7. LoadedAccounted'
  <2>1. \A m \in Mails : Lives(m) => m \in thread.found \/ Accounted(m)
    BY <1>1 DEF ReadSound, LoadedAccounted
  <2>2. \A m \in thread.found : Accounted(m)'
    BY <1>5 DEF Accounted
  <2> QED BY <1>3, <1>6, <2>1, <2>2 DEF LoadedAccounted
<1>8. mark' \in [Pages -> CallStates]
  BY <1>1, MarkReadTypes
<1> QED BY <1>1, <1>2, <1>3, <1>4, <1>5, <1>6, <1>7, <1>8, PageAccounts DEF ReadingTyped

LEMMA ThreadRefusedAccounts ==
    ASSUME ReadSound, HistoryGrows, ThreadRefused
    PROVE  ReadSound'
<1>1. /\ thread.call = "failed" /\ MailStays /\ UNCHANGED <<inThread, toThread>>
      /\ MarksUnlessFailed /\ thread' = [Closed EXCEPT !.kind = "error"]
  BY DEF ThreadRefused, MailStays, mailVars
<1>2. ReadingTyped
  BY DEF ReadSound
<1>3. thread' = [kind |-> "error", shows |-> {}, call |-> "none", found |-> {}]
  BY <1>1 DEF Closed
<1>4. thread' \in PageRow
  BY <1>3 DEF PageRow, CallStates
<1>5. \A m : Accounted(m) => Accounted(m)'
  BY <1>1, StaysAccounted
<1>6. LoadedAccounted'
  BY <1>3 DEF LoadedAccounted
<1>7. mark' \in [Pages -> CallStates]
  BY <1>1, <1>2, MarkReadTypes DEF MarksUnlessFailed, ReadingTyped
<1>8. place = "channel" => ~Marking'
  <2> SUFFICES ASSUME place = "channel" PROVE ~Marking'
    OBVIOUS
  <2>1. mark' = mark
    BY <1>1 DEF MarksUnlessFailed
  <2>2. thread.kind = "loading"
    BY <1>1 DEF ReadSound, LoadedAccounted
  <2> QED BY <2>1, <2>2 DEF ReadSound, ClosedAccounted, Marking
<1> QED BY <1>1, <1>2, <1>3, <1>4, <1>5, <1>6, <1>7, <1>8, PageAccounts DEF ReadingTyped

LEMMA JoinThreadAccounts ==
    ASSUME ReadSound, HistoryGrows, JoinThread
    PROVE  ReadSound'
<1>1. thread.kind # "closed" /\ MailStays /\ UNCHANGED <<thread, toThread, mark>>
  BY DEF JoinThread, MailStays, mailVars
<1>2. ReadingTyped
  BY DEF ReadSound
<1>3. \A m : (Accounted(m) => Accounted(m)') /\ (Lives(m)' <=> Lives(m))
  BY <1>1, StaysAccounted
<1>4. LoadedAccounted'
  BY <1>1, <1>3 DEF ReadSound, LoadedAccounted
<1>5. place = "channel" /\ Marking' => thread'.kind = "success"
  BY <1>1 DEF ReadSound, ClosedAccounted, Marking
<1> QED BY <1>1, <1>2, <1>3, <1>4, <1>5, PageAccounts DEF ReadingTyped

\* A loaded page shows what it hears; another hears it in vain.
LEMMA ThreadHearsAccounts ==
    ASSUME ReadSound, History, NEW m \in Mails, ThreadHears(m)
    PROVE  ReadSound'
<1>1. /\ m \in toThread /\ toThread' = toThread \ {m} /\ MailStays
      /\ thread' = IF thread.kind = "success" THEN [thread EXCEPT !.shows = @ \cup {m}]
                                              ELSE thread
      /\ IF place = "channel" \/ mail[m].mine THEN UNCHANGED mark ELSE MarkRead
  BY DEF ThreadHears, MailStays, mailVars
<1>2. ReadingTyped /\ thread \in PageRow /\ toThread \subseteq Mails
  BY DEF ReadSound, ReadingTyped
<1>3. thread.kind # "closed"
  BY <1>1 DEF ReadSound, ClosedAccounted
<1>4. /\ thread' \in PageRow /\ thread'.kind = thread.kind /\ thread'.call = thread.call
      /\ thread'.found = thread.found
      /\ thread.kind = "success" => m \in thread'.shows
  BY <1>1, <1>2 DEF PageRow
<1>5. HistoryGrows /\ thread'.shows \subseteq seen'
  BY HistoryOnlyGrows
<1>6. Accounted(m)'
  <2>1. m \in HeardNow
    BY <1>1 DEF HeardNow
  <2>2. thread.kind # "success" => m \in missed'
    BY <2>1 DEF History
  <2> QED BY <1>4, <1>5, <2>2 DEF Accounted
<1>7. \A n : (Accounted(n) => Accounted(n)') /\ (Lives(n)' <=> Lives(n))
  <2>1. \A n : n # m /\ Accounted(n) => Accounted(n)'
    BY <1>1, <1>5 DEF Accounted, HistoryGrows, MailStays
  <2>2. \A n : Lives(n)' <=> Lives(n)
    BY <1>1 DEF MailStays, Lives, Written
  <2> QED BY <1>6, <2>1, <2>2
<1>8. LoadedAccounted'
  BY <1>4, <1>7 DEF ReadSound, LoadedAccounted
<1>9. mark' \in [Pages -> CallStates]
  BY <1>1, <1>2, MarkReadTypes DEF ReadingTyped
<1>10. place = "channel" /\ Marking' => thread'.kind = "success"
  BY <1>1, <1>4 DEF ReadSound, ClosedAccounted, Marking
<1>11. toThread' \subseteq Mails /\ thread'.kind # "closed"
  BY <1>1, <1>2, <1>3, <1>4
<1> QED BY <1>1, <1>4, <1>5, <1>7, <1>8, <1>9, <1>10, <1>11, PageAccounts

\* The page goes when no call of it is in flight; what it was to be told of it misses.
LEMMA LeaveThreadAccounts ==
    ASSUME ReadSound, Careful, History, LeaveThread
    PROVE  ReadSound'
<1>1. /\ thread.kind # "closed" /\ thread' = Closed /\ ~inThread' /\ toThread' = {} /\ MailStays
      /\ mark' = [mark EXCEPT !["open"] = "none", !["left"] = mark["open"]]
  BY DEF LeaveThread, MailStays, mailVars
<1>2. thread'.kind = "closed" /\ thread'.call = "none" /\ Leaves
  BY <1>1 DEF Leaves, Closed
<1>3. ReadingTyped
  BY DEF ReadSound
<1>4. ~Marking
  BY <1>2 DEF Careful
<1>5. mark' \in [Pages -> CallStates] /\ ~Marking'
  BY <1>1, <1>3, <1>4 DEF ReadingTyped, Marking, Pages
<1>6. thread' \in PageRow
  BY <1>1 DEF PageRow, CallStates, Closed
<1>7. ReadingTyped'
  BY <1>1, <1>3, <1>5, <1>6 DEF ReadingTyped, MailStays
<1>8. HistoryGrows /\ Unannounced \subseteq missed' /\ HeardNow \subseteq missed'
  BY <1>2, HistoryOnlyGrows DEF History
<1>9. toThread \subseteq missed'
  BY <1>1, <1>8 DEF HeardNow
<1>10. \A n : (Accounted(n) => Accounted(n)') /\ (Lives(n)' <=> Lives(n))
  BY <1>1, <1>8, <1>9 DEF Accounted, HistoryGrows, Unannounced, MailStays, Lives, Written
<1>11. ReadAccounted'
  BY <1>1, <1>10 DEF ReadSound, ReadAccounted, MailStays
<1>12. LoadedAccounted'
  BY <1>2 DEF LoadedAccounted
<1>13. Unannounced' = Unannounced
  BY <1>1 DEF Unannounced, MailStays
<1>14. ClosedAccounted'
  BY <1>1, <1>5, <1>8, <1>13 DEF ClosedAccounted, Closed
<1> QED BY <1>7, <1>11, <1>12, <1>14 DEF ReadSound

\* The mark is kept of a page that has loaded: all there is counts as read, and is
\* accounted for.
LEMMA ServeMarkAccounts ==
    ASSUME ReadSound, Careful, HistoryGrows, NEW p \in Pages, ServeMark(p)
    PROVE  ReadSound'
<1>1. /\ mark[p] = "asked" /\ mark' = [mark EXCEPT ![p] = "served"] /\ lastReadAt' = clock
      /\ UNCHANGED <<place, clock, mail, announce, thread, inThread, toThread>>
  BY DEF ServeMark
<1>2. ReadingTyped
  BY DEF ReadSound
<1>3. Marking /\ KeepsMark
  BY <1>1, <1>2 DEF Marking, KeepsMark, ReadingTyped
<1>4. thread.kind = "success"
  BY <1>3 DEF Careful, ReadSound, ClosedAccounted
<1>5. ReadingTyped'
  BY <1>1, <1>2 DEF ReadingTyped, CallStates
<1>6. \A m : (Accounted(m) => Accounted(m)') /\ (Lives(m)' <=> Lives(m))
  BY <1>1 DEF Accounted, HistoryGrows, Lives, Written
<1>7. \A m \in Mails : Lives(m) => Accounted(m)
  BY <1>4 DEF ReadSound, LoadedAccounted
<1>8. ReadAccounted'
  BY <1>6, <1>7 DEF ReadAccounted
<1>9. LoadedAccounted'
  BY <1>1, <1>6 DEF ReadSound, LoadedAccounted
<1>10. ClosedAccounted'
  BY <1>1, <1>4 DEF ClosedAccounted
<1> QED BY <1>5, <1>8, <1>9, <1>10 DEF ReadSound

-----------------------------------------------------------------------------
LEMMA ApiAccounts ==
    ASSUME ReadSound, Careful, History, Api
    PROVE  ReadSound'
<1>1. ReadingTyped /\ HistoryGrows
  BY HistoryOnlyGrows DEF ReadSound
<1>2. CASE Tick
  <2>1. /\ clock' = clock + 1
        /\ UNCHANGED <<place, mail, announce, lastReadAt, thread, inThread, toThread, mark>>
    BY <1>2 DEF Tick, threadVars
  <2>2. Marking' => Marking
    BY <2>1 DEF Marking
  <2>3. clock' \in Nat /\ clock <= clock' /\ mark' \in [Pages -> CallStates]
    BY <1>1, <2>1 DEF ReadingTyped
  <2> QED BY <1>1, <2>1, <2>2, <2>3, ReadQuiet
<1>3. ASSUME NEW m \in Mails, WriteBegins(m) \/ WriteKept(m)
      PROVE  ReadSound'
  BY <1>1, <1>3, WriteBeginsAccounts, WriteKeptAccounts
<1>4. ASSUME NEW m \in Mails PROVE ~TellRoomFirst(m)
  BY <1>1 DEF ReadingTyped, TellRoomFirst
<1>5. ASSUME NEW m \in Mails, RemoveRead(m) PROVE FALSE
  <2>1. mail \in [Mails -> MailRow] /\ Lives(m)
    BY <1>1, <1>5 DEF ReadingTyped, RemoveRead
  <2>2. mail'[m].at \in {"last", "notLast"} /\ ~mail'[m].deleted
    BY <1>5, <2>1 DEF RemoveRead, Lives, MailRow
  <2>3. m \in Removing'
    BY <2>2 DEF Removing, Lives, Written
  <2> QED BY <2>3 DEF Careful
<1>6. ASSUME NEW m \in Mails PROVE ~RemoveKept(m)
  BY <1>1 DEF ReadingTyped, RemoveKept, MailRow
<1> QED BY <1>2, <1>3, <1>4, <1>5, <1>6, AnnounceAccounts DEF Api

LEMMA SidebarAccounts ==
    ASSUME ReadSound, History, Sidebar
    PROVE  ReadSound'
<1>1. ReadingTyped /\ HistoryGrows
  BY HistoryOnlyGrows DEF ReadSound
<1>2. UNCHANGED <<mailVars, threadVars>>
  BY Zenon DEF Sidebar, Resync, Connect, LineAdvances, JoinChannel, LineDrops, BarHears,
               ServeList, ListFails, ListTaken, ListRefused
<1>3. UNCHANGED <<place, clock, mail, announce, lastReadAt, thread, inThread, toThread, mark>>
  BY <1>2 DEF mailVars, threadVars
<1>4. Marking' => Marking
  BY <1>3 DEF Marking
<1>5. clock' \in Nat /\ clock <= clock' /\ mark' \in [Pages -> CallStates]
  BY <1>1, <1>3 DEF ReadingTyped
<1> QED BY <1>1, <1>3, <1>4, <1>5, ReadQuiet

LEMMA ThreadAccounts ==
    ASSUME ReadSound, Careful, History, Thread
    PROVE  ReadSound'
<1>1. HistoryGrows
  BY HistoryOnlyGrows
<1>2. ASSUME NEW p \in Pages, MarkFails(p) \/ MarkTaken(p) \/ MarkRefused(p)
      PROVE  ReadSound'
  <2>1. /\ mark[p] # "none"
        /\ mark' = [mark EXCEPT ![p] = "failed"] \/ mark' = [mark EXCEPT ![p] = "none"]
        /\ UNCHANGED <<place, clock, mail, announce, lastReadAt, thread, inThread, toThread>>
    BY <1>2 DEF MarkFails, MarkTaken, MarkRefused, mailVars
  <2>2. "failed" \in CallStates /\ "none" \in CallStates
    BY DEF CallStates
  <2> QED BY <1>1, <2>1, <2>2, MarkEnds
<1>3. ASSUME NEW p \in Pages, ServeMark(p)
      PROVE  ReadSound'
  BY <1>1, <1>3, ServeMarkAccounts
<1>4. ASSUME NEW m \in Mails, ThreadHears(m)
      PROVE  ReadSound'
  BY <1>4, ThreadHearsAccounts
<1> QED BY <1>1, <1>2, <1>3, <1>4, OpenThreadAccounts, ServeThreadAccounts,
           ThreadFailsAccounts, ThreadLoadedAccounts, ThreadRefusedAccounts,
           JoinThreadAccounts, LeaveThreadAccounts DEF Thread

LEMMA InitAccounts ==
    ASSUME MCInit, reading = "reading"
    PROVE  ReadSound
<1>1. UnreadInit /\ place \in {"channel", "direct"}
  BY DEF MCInit, ReadingInit, PlacesOf
<1>2. mail \in [Mails -> MailRow] /\ \A m \in Mails : mail[m].at = "none"
  BY <1>1 DEF UnreadInit, MailRow
<1>3. ReadingTyped
  BY <1>1, <1>2 DEF ReadingTyped, UnreadInit, PageRow, CallStates, Closed
<1>4. ReadAccounted /\ LoadedAccounted
  BY <1>1, <1>2 DEF ReadAccounted, LoadedAccounted, UnreadInit, Closed, Lives, Written
<1>5. ClosedAccounted
  BY <1>1, <1>2 DEF ClosedAccounted, UnreadInit, Marking, Unannounced
<1> QED BY <1>3, <1>4, <1>5 DEF ReadSound

\* What counts as read was seen, for any number of messages and any time: what another wrote
\* before the mark was shown by a page, or an open page is to be told of it or was in vain.
\* That needs two facts no page keeps by itself: a page that has loaded has all that is kept
\* (or will hear of it), and a mark is only kept of such a page.
THEOREM WhatIsReadWasSeen == MCSpec => []ReadIsSeen
<1> DEFINE Sound == reading = "reading" => ReadSound
<1>1. MCInit => Sound
  BY InitAccounts
<1>2. Sound /\ [MCNext]_<<vars, workload, unreadVars, readingVars>> => Sound'
  <2> SUFFICES ASSUME reading' = "reading", Sound,
                      [MCNext]_<<vars, workload, unreadVars, readingVars>>
               PROVE  ReadSound'
    OBVIOUS
  <2>1. reading' = reading
    BY DEF MCNext, ReadingNext, readingVars
  <2>2. ReadSound /\ ReadingTyped
    BY <2>1 DEF ReadSound
  <2>3. CASE UNCHANGED <<unreadVars, readingVars>>
    <3>1. UNCHANGED <<place, clock, mail, announce, lastReadAt, thread, inThread, toThread, mark>>
          /\ HistoryGrows
      BY <2>3 DEF unreadVars, readingVars, mailVars, threadVars, HistoryGrows
    <3>2. Marking' => Marking
      BY <3>1 DEF Marking
    <3>3. clock' \in Nat /\ clock <= clock' /\ mark' \in [Pages -> CallStates]
      BY <2>2, <3>1 DEF ReadingTyped
    <3> QED BY <2>2, <3>1, <3>2, <3>3, ReadQuiet
  <2>4. CASE ReadingNext
    <3>1. UnreadNext /\ Careful /\ History
      BY <2>1, <2>4 DEF ReadingNext
    <3> QED BY <2>2, <3>1, ApiAccounts, SidebarAccounts, ThreadAccounts DEF UnreadNext
  <2> QED BY <2>3, <2>4 DEF MCNext
<1>3. Sound => ReadIsSeen
  BY DEF ReadSound, ReadAccounted, ReadIsSeen, Accounted
<1> QED BY <1>1, <1>2, <1>3, PTL DEF MCSpec

-----------------------------------------------------------------------------
(***************************************************************************)
(* The badge.  A count that is not the API's is one that will be replaced:   *)
(* of a direct conversation or a group by a read that is forced, or that an  *)
(* event is yet to force; of a channel by the events that are on the way,   *)
(* each of which is told once and counts one message.                       *)
(***************************************************************************)
MailState == [at : {"none", "begun", "kept", "told", "last", "notLast"}, createdAt : Nat,
              mine : BOOLEAN, deleted : BOOLEAN]
ReadRow == [at : {"asked", "served", "failed"}, count : Nat, forced : BOOLEAN]
BarRow == [kind : {"loading", "success", "error"}, count : Nat]

BadgeTyped ==
    /\ place \in {"channel", "direct", "group"}
    /\ clock \in Nat /\ lastReadAt \in Nat
    /\ mail \in [Mails -> MailState]
    /\ \A m \in Mails : mail[m].createdAt <= clock
    /\ announce \subseteq Mails
    /\ mark \in [Pages -> CallStates]
    /\ bar \in BarRow
    /\ lists \in Seq(ReadRow)
    /\ toBar \in Seq(Mails)

UnreadMails == {m \in Mails : Counted(m)}
MarkKept == \E p \in Pages : mark[p] = "served"
Queued == {toBar[i] : i \in DOMAIN toBar}
Coming == announce \cup Queued

\* A read that was asked later and is not to fail unseen.
Overridden(i) == \E j \in DOMAIN lists : j > i /\ lists[j].forced
ToBeRead == \/ announce # {} \/ toBar # <<>> \/ MarkKept
            \/ place = "direct" /\ line = "down"
FreshBar == bar.kind = "success" => bar.count = CountUnread \/ Overridden(0)
FreshRead(i) == lists[i].at = "served" => lists[i].count = CountUnread \/ Overridden(i)
ReadAgain == ~ToBeRead => FreshBar /\ \A i \in DOMAIN lists : FreshRead(i)

ToldOnce ==
    /\ \A i, j \in DOMAIN toBar : toBar[i] = toBar[j] => i = j
    /\ Queued \cap Unannounced = {}
    /\ \A m \in Coming : Written(m)
    /\ \A m \in OnTheWay : mail[m].createdAt > lastReadAt
    /\ \A m \in Mails : mail[m].at # "last" /\ (~mail[m].mine => ~mail[m].deleted)
NothingCrosses ==
    /\ OnTheWay # {} => lists = <<>> /\ ~Marking /\ thread.kind = "closed"
    /\ Marking => lists = <<>>
CountedUp ==
    /\ MarkKept => UnreadMails = {}
    /\ \A i \in DOMAIN lists : lists[i].at = "served" => lists[i].count = CountUnread
    /\ bar.kind = "success" /\ line # "down" /\ ~MarkKept
          => bar.count = Cardinality(UnreadMails \ Coming)

BadgeSound ==
    /\ BadgeTyped
    /\ place # "channel" => ReadAgain
    /\ place = "channel" => ToldOnce /\ NothingCrosses /\ CountedUp

LEMMA CountIsNat == CountUnread \in Nat
<1>1. IsFiniteSet(UnreadMails)
  BY UnreadAssumption, FS_Subset DEF UnreadMails
<1> QED BY <1>1, FS_CardinalityType DEF CountUnread, UnreadMails

LEMMA CountOf == CountUnread = Cardinality(UnreadMails)
BY DEF CountUnread, UnreadMails

LEMMA CountStays ==
    ASSUME \A m \in Mails : Counted(m)' <=> Counted(m)
    PROVE  UnreadMails' = UnreadMails /\ CountUnread' = CountUnread
BY DEF UnreadMails, CountUnread

LEMMA CountAlike ==
    ASSUME UNCHANGED <<mail, lastReadAt>>
    PROVE  UnreadMails' = UnreadMails /\ CountUnread' = CountUnread
BY DEF UnreadMails, CountUnread, Counted, Lives, Written

\* What is left of the reads when one of them is over.
LEMMA WithoutIs ==
    ASSUME lists \in Seq(ReadRow), NEW i \in DOMAIN lists
    PROVE  /\ Without(i) \in Seq(ReadRow)
           /\ Len(Without(i)) = Len(lists) - 1
           /\ \A k \in 1 .. i - 1 : Without(i)[k] = lists[k]
           /\ \A k \in i .. Len(lists) - 1 : Without(i)[k] = lists[k + 1]
<1> DEFINE before == SubSeq(lists, 1, i - 1)
           after == SubSeq(lists, i + 1, Len(lists))
<1>1. i \in 1 .. Len(lists) /\ Len(lists) \in Nat
  OBVIOUS
<1>2. /\ before \in Seq(ReadRow) /\ Len(before) = i - 1
      /\ \A k \in 1 .. i - 1 : before[k] = lists[k]
  BY <1>1
<1>3. /\ after \in Seq(ReadRow) /\ Len(after) = Len(lists) - i
      /\ \A k \in 1 .. Len(lists) - i : after[k] = lists[k + i]
  BY <1>1
<1> HIDE DEF before, after
<1>4. PICK w : w = before \o after
  OBVIOUS
<1>5. w \in Seq(ReadRow) /\ Len(w) = Len(lists) - 1
  BY <1>1, <1>2, <1>3, <1>4
<1>6. ASSUME NEW k \in 1 .. i - 1
      PROVE  w[k] = lists[k]
  BY <1>1, <1>2, <1>3, <1>4
<1>7. ASSUME NEW k \in i .. Len(lists) - 1
      PROVE  w[k] = lists[k + 1]
  <2>1. k - (i - 1) \in 1 .. Len(lists) - i /\ k \in Nat
    BY <1>1
  <2>2. k \in 1 .. Len(before) + Len(after) /\ ~(k <= Len(before)) /\ k - Len(before) = k - (i - 1)
    BY <1>1, <1>2, <1>3, <2>1
  <2>3. w[k] = after[k - (i - 1)]
    BY <1>2, <1>3, <1>4, <2>2, ConcatProperties
  <2>4. after[k - (i - 1)] = lists[(k - (i - 1)) + i]
    BY <1>3, <2>1
  <2>5. (k - (i - 1)) + i = k + 1
    BY <1>1, <2>1
  <2> QED BY <2>3, <2>4, <2>5
<1>8. w = Without(i)
  BY <1>4 DEF Without, before, after
<1> QED BY <1>5, <1>6, <1>7, <1>8

LEMMA WithoutHas ==
    ASSUME lists \in Seq(ReadRow), NEW i \in DOMAIN lists, NEW j \in DOMAIN lists, j # i
    PROVE  \E k \in DOMAIN Without(i) : Without(i)[k] = lists[j]
<1>1. /\ Len(Without(i)) = Len(lists) - 1
      /\ \A k \in 1 .. i - 1 : Without(i)[k] = lists[k]
      /\ \A k \in i .. Len(lists) - 1 : Without(i)[k] = lists[k + 1]
      /\ Without(i) \in Seq(ReadRow)
  BY WithoutIs
<1>2. CASE j < i
  <2>1. j \in DOMAIN Without(i) /\ Without(i)[j] = lists[j]
    BY <1>1, <1>2
  <2> QED BY <2>1
<1>3. CASE j > i
  <2>1. j - 1 \in i .. Len(lists) - 1 /\ (j - 1) + 1 = j /\ j - 1 \in 1 .. Len(lists) - 1
    BY <1>3
  <2>2. Without(i)[j - 1] = lists[(j - 1) + 1]
    BY <1>1, <2>1
  <2>3. j - 1 \in DOMAIN Without(i)
    BY <1>1, <2>1
  <2> QED BY <2>1, <2>2, <2>3
<1> QED BY <1>2, <1>3

LEMMA WithoutOf ==
    ASSUME lists \in Seq(ReadRow), NEW i \in DOMAIN lists, NEW k \in DOMAIN Without(i)
    PROVE  \E j \in DOMAIN lists : Without(i)[k] = lists[j]
<1>1. /\ Len(Without(i)) = Len(lists) - 1
      /\ \A n \in 1 .. i - 1 : Without(i)[n] = lists[n]
      /\ \A n \in i .. Len(lists) - 1 : Without(i)[n] = lists[n + 1]
      /\ Without(i) \in Seq(ReadRow)
  BY WithoutIs
<1>2. k \in 1 .. Len(lists) - 1
  BY <1>1
<1>3. CASE k < i
  <2>1. k \in DOMAIN lists /\ Without(i)[k] = lists[k]
    BY <1>1, <1>2, <1>3
  <2> QED BY <2>1
<1>4. CASE k >= i
  <2>1. k + 1 \in DOMAIN lists /\ Without(i)[k] = lists[k + 1]
    BY <1>1, <1>2, <1>4
  <2> QED BY <2>1
<1> QED BY <1>2, <1>3, <1>4

LEMMA AskTypes ==
    ASSUME BadgeTyped, NEW forced \in BOOLEAN, AskList(forced)
    PROVE  /\ bar' \in BarRow /\ lists' \in Seq(ReadRow)
           /\ Len(lists') = Len(lists) + 1 /\ lists'[Len(lists) + 1] = Read(forced)
           /\ \A i \in DOMAIN lists : i \in DOMAIN lists' /\ lists'[i] = lists[i]
<1>1. Read(forced) \in ReadRow
  BY DEF Read, ReadRow
<1>2. lists \in Seq(ReadRow) /\ lists' = Append(lists, Read(forced)) /\ bar \in BarRow
  BY DEF BadgeTyped, AskList
<1>3. bar' \in BarRow
  BY <1>2 DEF AskList, BarRow
<1> QED BY <1>1, <1>2, <1>3

-----------------------------------------------------------------------------
\* Types.
LEMMA MarkReadBadge ==
    ASSUME BadgeTyped, MarkRead
    PROVE  mark' \in [Pages -> CallStates] /\ (MarkKept' <=> MarkKept)
<1>1. mark \in [Pages -> CallStates] /\ "asked" \in CallStates
  BY DEF BadgeTyped, CallStates
<1> QED BY <1>1 DEF MarkRead, MarkKept

LEMMA RowTypes ==
    ASSUME BadgeTyped, UNCHANGED clock, NEW m \in Mails, NEW row \in MailState,
           row.createdAt <= clock, mail' = [mail EXCEPT ![m] = row]
    PROVE  mail' \in [Mails -> MailState] /\ \A n \in Mails : mail'[n].createdAt <= clock'
BY DEF BadgeTyped

LEMMA ApiTypes ==
    ASSUME BadgeTyped, Api
    PROVE  BadgeTyped'
<1>1. CASE Tick
  <2>1. /\ clock' = clock + 1 /\ UNCHANGED <<place, mail, announce, lastReadAt, mark, bar, lists, toBar>>
    BY <1>1 DEF Tick, threadVars, barVars, lineVars
  <2>2. \A m \in Mails : mail[m].createdAt \in Nat
    BY DEF BadgeTyped, MailState
  <2> QED BY <2>1, <2>2 DEF BadgeTyped
<1>2. ASSUME NEW m \in Mails, Announce(m)
      PROVE  BadgeTyped'
  <2>1. /\ announce' = announce \ {m} /\ TellBar(m)
        /\ UNCHANGED <<place, clock, mail, lastReadAt, mark, bar, lists>>
    BY <1>2 DEF Announce
  <2>2. toBar' \in Seq(Mails)
    BY <2>1 DEF BadgeTyped, TellBar
  <2> QED BY <2>1, <2>2 DEF BadgeTyped
<1>3. ASSUME NEW m \in Mails, WriteBegins(m) \/ WriteKept(m) \/ TellRoomFirst(m)
                                \/ RemoveRead(m) \/ RemoveKept(m)
      PROVE  BadgeTyped'
  <2>1. UNCHANGED <<place, clock, lastReadAt, mark, bar, lists, toBar>> /\ announce' \subseteq Mails
    BY <1>3 DEF WriteBegins, WriteKept, TellRoomFirst, RemoveRead, RemoveKept, threadVars,
                barVars, lineVars, BadgeTyped
  <2>2. mail[m] \in MailState /\ mail[m].createdAt <= clock /\ clock \in Nat
    BY DEF BadgeTyped
  <2>3. \E row \in MailState : mail' = [mail EXCEPT ![m] = row] /\ row.createdAt <= clock
    <3>1. CASE WriteBegins(m)
      <4>1. PICK mine \in BOOLEAN :
                mail' = [mail EXCEPT ![m] = [at |-> "begun", createdAt |-> clock,
                                             mine |-> mine, deleted |-> FALSE]]
        BY <3>1 DEF WriteBegins
      <4>2. PICK row : row = [at |-> "begun", createdAt |-> clock, mine |-> mine, deleted |-> FALSE]
        OBVIOUS
      <4>3. row \in MailState /\ row.createdAt <= clock
        BY <2>2, <4>2 DEF MailState
      <4> QED BY <4>1, <4>2, <4>3
    <3>2. ASSUME NEW at \in {"kept", "told", "last", "notLast"}, mail' = [mail EXCEPT ![m].at = at]
          PROVE  \E row \in MailState : mail' = [mail EXCEPT ![m] = row] /\ row.createdAt <= clock
      <4>1. PICK row : row = [mail[m] EXCEPT !.at = at]
        OBVIOUS
      <4>2. row \in MailState /\ row.createdAt <= clock
        BY <2>2, <4>1 DEF MailState
      <4> QED BY <3>2, <4>1, <4>2
    <3>3. CASE RemoveKept(m)
      <4>1. mail' = [mail EXCEPT ![m].deleted = TRUE]
        BY <3>3 DEF RemoveKept
      <4>2. PICK row : row = [mail[m] EXCEPT !.deleted = TRUE]
        OBVIOUS
      <4>3. row \in MailState /\ row.createdAt <= clock
        BY <2>2, <4>2 DEF MailState
      <4> QED BY <4>1, <4>2, <4>3
    <3>4. CASE WriteKept(m) \/ TellRoomFirst(m) \/ RemoveRead(m)
      BY <3>2, <3>4 DEF WriteKept, TellRoomFirst, RemoveRead
    <3> QED BY <1>3, <3>1, <3>3, <3>4
  <2>4. mail' \in [Mails -> MailState] /\ \A n \in Mails : mail'[n].createdAt <= clock'
    BY <2>1, <2>3, RowTypes
  <2> QED BY <2>1, <2>4 DEF BadgeTyped
<1> QED BY <1>1, <1>2, <1>3 DEF Api

LEMMA SidebarTypes ==
    ASSUME BadgeTyped, Sidebar
    PROVE  BadgeTyped'
<1>1. UNCHANGED <<place, clock, mail, announce, lastReadAt, mark>>
  <2>1. UNCHANGED <<mailVars, threadVars>>
    BY Zenon DEF Sidebar, Resync, Connect, LineAdvances, JoinChannel, LineDrops, BarHears,
                 ServeList, ListFails, ListTaken, ListRefused
  <2> QED BY <2>1 DEF mailVars, threadVars
<1> SUFFICES bar' \in BarRow /\ lists' \in Seq(ReadRow) /\ toBar' \in Seq(Mails)
  BY <1>1 DEF BadgeTyped
<1>2. bar \in BarRow /\ lists \in Seq(ReadRow) /\ toBar \in Seq(Mails)
  BY DEF BadgeTyped
<1>3. CASE Resync
  BY <1>2, <1>3, AskTypes DEF Resync, lineVars
<1>4. CASE Connect
  <2>1. TRUE \in BOOLEAN
    OBVIOUS
  <2> QED BY <1>2, <1>4, <2>1, AskTypes DEF Connect
<1>5. CASE LineAdvances \/ JoinChannel \/ LineDrops
  <2>1. UNCHANGED <<bar, lists>> /\ (UNCHANGED toBar \/ toBar' = <<>>)
    BY <1>5 DEF LineAdvances, JoinChannel, LineDrops
  <2>2. <<>> \in Seq(Mails)
    OBVIOUS
  <2> QED BY <1>2, <2>1, <2>2
<1>6. CASE BarHears
  <2>1. toBar' \in Seq(Mails)
    BY <1>2, <1>6 DEF BarHears
  <2>2. bar' \in BarRow /\ lists' \in Seq(ReadRow)
    <3>1. CASE place = "channel"
      BY <1>2, <1>6, <3>1 DEF BarHears, HearCreated, Add, BarRow
    <3>2. CASE place # "channel"
      BY <1>6, <3>2, AskTypes DEF BarHears
    <3> QED BY <3>1, <3>2
  <2> QED BY <2>1, <2>2
<1>7. ASSUME NEW i \in DOMAIN lists, ServeList(i) \/ ListFails(i)
      PROVE  bar' \in BarRow /\ lists' \in Seq(ReadRow) /\ toBar' \in Seq(Mails)
  <2>1. lists[i] \in ReadRow /\ UNCHANGED <<bar, toBar>>
    BY <1>2, <1>7 DEF ServeList, ListFails, lineVars
  <2>2. CASE ServeList(i)
    <3>1. lists' = [lists EXCEPT ![i] = [[lists[i] EXCEPT !.at = "served"] EXCEPT !.count = CountUnread]]
      BY <1>2, <2>2 DEF ServeList
    <3>2. [[lists[i] EXCEPT !.at = "served"] EXCEPT !.count = CountUnread] \in ReadRow
      BY <2>1, CountIsNat DEF ReadRow
    <3> QED BY <1>2, <2>1, <3>1, <3>2
  <2>3. CASE ListFails(i)
    <3>1. lists' = [lists EXCEPT ![i] = [lists[i] EXCEPT !.at = "failed"]]
      BY <2>3 DEF ListFails
    <3>2. [lists[i] EXCEPT !.at = "failed"] \in ReadRow
      BY <2>1 DEF ReadRow
    <3> QED BY <1>2, <2>1, <3>1, <3>2
  <2> QED BY <1>7, <2>2, <2>3
<1>8. ASSUME NEW i \in DOMAIN lists, ListTaken(i) \/ ListRefused(i)
      PROVE  bar' \in BarRow /\ lists' \in Seq(ReadRow) /\ toBar' \in Seq(Mails)
  <2>1. lists[i] \in ReadRow
    BY <1>2
  <2>2. lists' \in Seq(ReadRow) /\ UNCHANGED toBar
    BY <1>2, <1>8, WithoutIs DEF ListTaken, ListRefused, lineVars
  <2>3. bar' \in BarRow
    BY <1>2, <1>8, <2>1 DEF ListTaken, ListRefused, BarRow, ReadRow
  <2> QED BY <1>2, <2>2, <2>3
<1> QED BY <1>3, <1>4, <1>5, <1>6, <1>7, <1>8 DEF Sidebar

\* The page's steps: of the calls to mark one can be kept, and else none appears to be.
PageStill == UNCHANGED <<place, clock, mail, announce, lastReadAt, bar, lists, line, toBar>>

LEMMA PageMarks ==
    ASSUME BadgeTyped,
           \/ OpenThread \/ ServeThread \/ ThreadFails \/ ThreadLoaded \/ ThreadRefused
           \/ JoinThread \/ LeaveThread \/ \E m \in Mails : ThreadHears(m)
           \/ \E p \in Pages : MarkFails(p) \/ MarkRefused(p)
    PROVE  PageStill /\ mark' \in [Pages -> CallStates] /\ (MarkKept' <=> MarkKept)
<1>1. mark \in [Pages -> CallStates] /\ \A state \in {"none", "failed"} : state \in CallStates
  BY DEF BadgeTyped, CallStates
<1>2. CASE OpenThread \/ ServeThread \/ ThreadFails \/ JoinThread
  BY <1>1, <1>2 DEF OpenThread, ServeThread, ThreadFails, JoinThread, PageStill, MarkKept,
                    mailVars, barVars, lineVars
<1>3. CASE ThreadLoaded
  BY <1>1, <1>3, MarkReadBadge DEF ThreadLoaded, PageStill, mailVars, barVars, lineVars
<1>4. CASE ThreadRefused
  BY <1>1, <1>4, MarkReadBadge DEF ThreadRefused, MarksUnlessFailed, PageStill, MarkKept,
                                   mailVars, barVars, lineVars
<1>5. CASE LeaveThread
  <2>1. /\ mark["left"] = "none" /\ PageStill
        /\ mark' = [mark EXCEPT !["open"] = "none", !["left"] = mark["open"]]
    BY <1>5 DEF LeaveThread, PageStill, mailVars, barVars, lineVars
  <2>2. mark'["open"] = "none" /\ mark'["left"] = mark["open"] /\ mark' \in [Pages -> CallStates]
    BY <1>1, <2>1 DEF Pages
  <2> QED BY <2>1, <2>2 DEF MarkKept, Pages
<1>6. ASSUME NEW m \in Mails, ThreadHears(m)
      PROVE  PageStill /\ mark' \in [Pages -> CallStates] /\ (MarkKept' <=> MarkKept)
  BY <1>1, <1>6, MarkReadBadge DEF ThreadHears, PageStill, MarkKept, mailVars, barVars, lineVars
<1>7. ASSUME NEW p \in Pages, MarkFails(p) \/ MarkRefused(p)
      PROVE  PageStill /\ mark' \in [Pages -> CallStates] /\ (MarkKept' <=> MarkKept)
  BY <1>1, <1>7 DEF MarkFails, MarkRefused, PageStill, MarkKept, mailVars, barVars, lineVars
<1> QED BY <1>2, <1>3, <1>4, <1>5, <1>6, <1>7

LEMMA ThreadTypes ==
    ASSUME BadgeTyped, Thread
    PROVE  BadgeTyped'
<1>1. ASSUME PageStill, mark' \in [Pages -> CallStates]
      PROVE  BadgeTyped'
  BY <1>1 DEF BadgeTyped, PageStill
<1>2. ASSUME NEW p \in Pages, ServeMark(p)
      PROVE  BadgeTyped'
  <2>1. UNCHANGED <<place, clock, mail, announce, bar, lists, toBar>> /\ lastReadAt' = clock
        /\ mark' = [mark EXCEPT ![p] = "served"]
    BY <1>2 DEF ServeMark, barVars, lineVars
  <2> QED BY <2>1 DEF BadgeTyped, CallStates
<1>3. ASSUME NEW p \in Pages, MarkTaken(p)
      PROVE  BadgeTyped'
  <2>1. UNCHANGED <<place, clock, mail, announce, lastReadAt, toBar>>
        /\ mark' = [mark EXCEPT ![p] = "none"]
    BY <1>3 DEF MarkTaken, mailVars, lineVars
  <2>2. bar' \in BarRow /\ lists' \in Seq(ReadRow)
    <3>1. CASE place = "channel"
      BY <1>3, <3>1 DEF MarkTaken, BadgeTyped, BarRow
    <3>2. CASE place # "channel"
      BY <1>3, <3>2, AskTypes DEF MarkTaken
    <3> QED BY <3>1, <3>2
  <2> QED BY <2>1, <2>2 DEF BadgeTyped, CallStates
<1> QED BY <1>1, <1>2, <1>3, PageMarks DEF Thread

-----------------------------------------------------------------------------
\* Of a direct conversation or a group the badge is read again.
LEMMA ReadAgainStays ==
    ASSUME ReadAgain, UNCHANGED <<bar, lists>>, CountUnread' = CountUnread,
           ToBeRead => ToBeRead'
    PROVE  ReadAgain'
BY DEF ReadAgain, FreshBar, FreshRead, Overridden

LEMMA ToBeReadSuffices ==
    ASSUME ToBeRead'
    PROVE  ReadAgain'
BY DEF ReadAgain

\* A forced read outdates what is shown and what the earlier ones bring.
LEMMA AskedAgain ==
    ASSUME BadgeTyped, AskList(TRUE)
    PROVE  ReadAgain'
<1>0. TRUE \in BOOLEAN
  OBVIOUS
<1>1. /\ lists' \in Seq(ReadRow) /\ Len(lists') = Len(lists) + 1
      /\ lists'[Len(lists) + 1] = Read(TRUE)
  BY <1>0, AskTypes
<1>2. lists \in Seq(ReadRow) /\ bar'.kind = "loading"
  BY DEF BadgeTyped, AskList
<1>3. FreshBar'
  BY <1>2 DEF FreshBar
<1>4. ASSUME NEW i \in DOMAIN lists'
      PROVE  FreshRead(i)'
  <2>1. CASE i = Len(lists) + 1
    <3>1. lists'[i].at = "asked"
      BY <1>1, <2>1 DEF Read
    <3> QED BY <3>1 DEF FreshRead
  <2>2. CASE i # Len(lists) + 1
    <3>1. Len(lists) + 1 \in DOMAIN lists' /\ Len(lists) + 1 > i /\ lists'[Len(lists) + 1].forced
      BY <1>1, <1>2, <2>2 DEF Read
    <3> QED BY <3>1 DEF FreshRead, Overridden
  <2> QED BY <2>1, <2>2
<1> QED BY <1>3, <1>4 DEF ReadAgain

\* One that is not forced outdates nothing.
LEMMA AskedQuietly ==
    ASSUME BadgeTyped, ReadAgain, AskList(FALSE), UNCHANGED <<mail, lastReadAt>>,
           ToBeRead => ToBeRead'
    PROVE  ReadAgain'
<1>0. FALSE \in BOOLEAN
  OBVIOUS
<1>1. /\ lists' \in Seq(ReadRow) /\ Len(lists') = Len(lists) + 1
      /\ lists'[Len(lists) + 1] = Read(FALSE)
      /\ \A i \in DOMAIN lists : i \in DOMAIN lists' /\ lists'[i] = lists[i]
  BY <1>0, AskTypes
<1>2. lists \in Seq(ReadRow) /\ bar' = bar /\ CountUnread' = CountUnread
  BY CountAlike DEF BadgeTyped, AskList
<1>3. \A i : Overridden(i) => Overridden(i)'
  BY <1>1 DEF Overridden
<1>4. FreshBar => FreshBar'
  BY <1>2, <1>3 DEF FreshBar
<1>5. ASSUME \A i \in DOMAIN lists : FreshRead(i), NEW i \in DOMAIN lists'
      PROVE  FreshRead(i)'
  <2>1. CASE i = Len(lists) + 1
    <3>1. lists'[i].at = "asked"
      BY <1>1, <2>1 DEF Read
    <3> QED BY <3>1 DEF FreshRead
  <2>2. CASE i # Len(lists) + 1
    <3>1. i \in DOMAIN lists /\ lists'[i] = lists[i]
      BY <1>1, <1>2, <2>2
    <3> QED BY <1>2, <1>3, <1>5, <3>1 DEF FreshRead
  <2> QED BY <2>1, <2>2
<1> QED BY <1>4, <1>5 DEF ReadAgain

\* An answer or a failure that has come, and is not yet taken.
LEMMA AnswerComes ==
    ASSUME BadgeTyped, ReadAgain, NEW i \in DOMAIN lists, ServeList(i) \/ ListFails(i)
    PROVE  ReadAgain'
<1>1. UNCHANGED <<place, mail, announce, lastReadAt, mark, bar, toBar, line>>
  BY DEF ServeList, ListFails, mailVars, lineVars, threadVars
<1>2. lists \in Seq(ReadRow) /\ CountUnread' = CountUnread
  BY <1>1, CountAlike DEF BadgeTyped
<1>3. lists[i] \in ReadRow
  BY <1>2
<1>4. PICK row : row = lists'[i]
  OBVIOUS
<1>5. /\ row.forced = lists[i].forced
      /\ row.at = "served" => row.count = CountUnread
      /\ lists' = [lists EXCEPT ![i] = row]
  <2>1. CASE ServeList(i)
    <3>1. PICK r : r = [[lists[i] EXCEPT !.at = "served"] EXCEPT !.count = CountUnread]
      OBVIOUS
    <3>2. lists' = [lists EXCEPT ![i] = r]
      BY <1>2, <2>1, <3>1 DEF ServeList
    <3>3. r.forced = lists[i].forced /\ r.count = CountUnread
      BY <1>3, <3>1, CountIsNat DEF ReadRow
    <3> QED BY <1>2, <1>4, <3>2, <3>3
  <2>2. CASE ListFails(i)
    <3>1. PICK r : r = [lists[i] EXCEPT !.at = "failed"]
      OBVIOUS
    <3>2. lists' = [lists EXCEPT ![i] = r]
      BY <2>2, <3>1 DEF ListFails
    <3>3. r.forced = lists[i].forced /\ r.at = "failed"
      BY <1>3, <3>1 DEF ReadRow
    <3> QED BY <1>2, <1>4, <3>2, <3>3
  <2> QED BY <2>1, <2>2
<1>6. /\ DOMAIN lists' = DOMAIN lists /\ lists'[i] = row
      /\ \A j \in DOMAIN lists : lists'[j].forced = lists[j].forced
      /\ \A j \in DOMAIN lists \ {i} : lists'[j] = lists[j]
  BY <1>2, <1>5
<1>7. \A j : Overridden(j)' <=> Overridden(j)
  BY <1>6 DEF Overridden
<1>8. FreshBar => FreshBar'
  BY <1>1, <1>2, <1>7 DEF FreshBar
<1>9. ASSUME NEW j \in DOMAIN lists, FreshRead(j) PROVE FreshRead(j)'
  BY <1>2, <1>5, <1>6, <1>7, <1>9 DEF FreshRead
<1>10. ToBeRead' <=> ToBeRead
  BY <1>1 DEF ToBeRead, MarkKept
<1> QED BY <1>6, <1>8, <1>9, <1>10 DEF ReadAgain

\* The first of the reads is over: none overtakes another.
LEMMA ReadIsOver ==
    ASSUME BadgeTyped, Calm, NEW i \in DOMAIN lists, lists' = Without(i)
    PROVE  /\ Len(lists') = Len(lists) - 1
           /\ \A k \in 1 .. Len(lists) - 1 : lists'[k] = lists[k + 1]
           /\ lists \in Seq(ReadRow) /\ lists' \in Seq(ReadRow)
<1>1. lists \in Seq(ReadRow) /\ lists' \in Seq(ReadRow) /\ Len(lists') = Len(lists) - 1
  BY WithoutIs DEF BadgeTyped
<1>2. lists' = Tail(lists)
  BY <1>1 DEF Calm, Overtakes
<1>3. lists # <<>>
  BY <1>1
<1> QED BY <1>1, <1>2, <1>3

LEMMA ReadEnds ==
    ASSUME BadgeTyped, ReadAgain, Calm, NEW i \in DOMAIN lists, ListTaken(i) \/ ListRefused(i)
    PROVE  ReadAgain'
<1>1. /\ UNCHANGED <<place, mail, announce, lastReadAt, mark, toBar, line>>
      /\ lists' = Without(i)
  BY DEF ListTaken, ListRefused, mailVars, lineVars, threadVars
<1>2. CountUnread' = CountUnread
  BY <1>1, CountAlike
<1>3. /\ Len(lists') = Len(lists) - 1
      /\ \A k \in 1 .. Len(lists) - 1 : lists'[k] = lists[k + 1]
      /\ lists \in Seq(ReadRow) /\ lists' \in Seq(ReadRow)
  BY <1>1, ReadIsOver
<1>4. \A j \in DOMAIN lists : lists[j].forced /\ j # i => Overridden(0)'
  <2> SUFFICES ASSUME NEW j \in DOMAIN lists, lists[j].forced, j # i
               PROVE  Overridden(0)'
    OBVIOUS
  <2>1. PICK k \in DOMAIN lists' : lists'[k] = lists[j]
    BY <1>1, <1>3, WithoutHas
  <2>2. k > 0
    BY <1>3
  <2> QED BY <2>1, <2>2 DEF Overridden
<1>5. (ToBeRead' <=> ToBeRead) /\ i \in 1 .. Len(lists)
  BY <1>1, <1>3 DEF ToBeRead, MarkKept
<1> SUFFICES ASSUME FreshBar, \A k \in DOMAIN lists : FreshRead(k)
             PROVE  FreshBar' /\ \A k \in DOMAIN lists' : FreshRead(k)'
  BY <1>5 DEF ReadAgain
<1>6. FreshBar'
  <2>1. CASE ListTaken(i)
    <3>1. lists[i].at = "served" /\ bar' = [kind |-> "success", count |-> lists[i].count]
      BY <2>1 DEF ListTaken
    <3>2. bar'.count = CountUnread \/ Overridden(i)
      BY <3>1 DEF FreshRead
    <3>3. Overridden(i) => Overridden(0)'
      BY <1>3, <1>4, <1>5 DEF Overridden
    <3> QED BY <1>2, <3>2, <3>3 DEF FreshBar
  <2>2. CASE ListRefused(i)
    <3>1. bar' = IF lists[i].forced THEN [kind |-> "error", count |-> 0] ELSE bar
      BY <2>2 DEF ListRefused
    <3>2. CASE lists[i].forced
      <4>1. bar'.kind = "error"
        BY <3>1, <3>2
      <4> QED BY <4>1 DEF FreshBar
    <3>3. CASE ~lists[i].forced
      <4>1. bar' = bar
        BY <3>1, <3>3
      <4>2. Overridden(0) => Overridden(0)'
        BY <1>4, <3>3 DEF Overridden
      <4> QED BY <1>2, <4>1, <4>2 DEF FreshBar
    <3> QED BY <3>2, <3>3
  <2> QED BY <2>1, <2>2
<1>7. ASSUME NEW k \in DOMAIN lists'
      PROVE  FreshRead(k)'
  <2>1. k \in 1 .. Len(lists) - 1 /\ k + 1 \in DOMAIN lists /\ lists'[k] = lists[k + 1]
    BY <1>3
  <2>2. Overridden(k + 1) => Overridden(k)'
    <3> SUFFICES ASSUME NEW j \in DOMAIN lists, j > k + 1, lists[j].forced
                 PROVE  Overridden(k)'
      BY DEF Overridden
    <3>1. j - 1 \in 1 .. Len(lists) - 1 /\ (j - 1) + 1 = j /\ j - 1 > k
      BY <1>3, <2>1
    <3>2. j - 1 \in DOMAIN lists' /\ lists'[j - 1] = lists[j]
      BY <1>3, <3>1
    <3> QED BY <3>1, <3>2 DEF Overridden
  <2>3. FreshRead(k + 1)
    BY <2>1
  <2> QED BY <1>2, <2>1, <2>2, <2>3 DEF FreshRead
<1> QED BY <1>6, <1>7

\* What is not counted before or after.
LEMMA NotCounted ==
    ASSUME BadgeTyped, NEW m \in Mails,
           \/ WriteBegins(m) \/ TellRoomFirst(m) \/ RemoveRead(m)
           \/ RemoveKept(m) /\ mail[m].mine
    PROVE  UnreadMails' = UnreadMails /\ CountUnread' = CountUnread
<1>1. mail \in [Mails -> MailState] /\ mail[m] \in MailState /\ lastReadAt' = lastReadAt
  BY DEF BadgeTyped, WriteBegins, TellRoomFirst, RemoveRead, RemoveKept
<1>2. \A n \in Mails \ {m} : mail'[n] = mail[n]
  BY <1>1 DEF WriteBegins, TellRoomFirst, RemoveRead, RemoveKept
<1>3. \A n \in Mails \ {m} : Counted(n)' <=> Counted(n)
  BY <1>1, <1>2 DEF Counted, Lives, Written
<1>4. Counted(m)' <=> Counted(m)
  <2>1. CASE WriteBegins(m)
    <3>1. mail[m].at = "none" /\ mail'[m].at = "begun"
      BY <1>1, <2>1 DEF WriteBegins
    <3> QED BY <3>1 DEF Counted, Lives, Written
  <2>2. CASE TellRoomFirst(m)
    <3>1. /\ mail[m].at = "kept" /\ mail'[m].at = "told" /\ mail'[m].createdAt = mail[m].createdAt
          /\ mail'[m].mine = mail[m].mine /\ mail'[m].deleted = mail[m].deleted
      BY <1>1, <2>2 DEF TellRoomFirst, MailState
    <3> QED BY <1>1, <3>1 DEF Counted, Lives, Written
  <2>3. CASE RemoveRead(m)
    <3>1. /\ mail[m].at = "kept" /\ mail'[m].at \in {"last", "notLast"}
          /\ mail'[m].createdAt = mail[m].createdAt
          /\ mail'[m].mine = mail[m].mine /\ mail'[m].deleted = mail[m].deleted
      BY <1>1, <2>3 DEF RemoveRead, MailState
    <3> QED BY <1>1, <3>1 DEF Counted, Lives, Written
  <2>4. CASE RemoveKept(m) /\ mail[m].mine
    <3>1. mail'[m].mine
      BY <1>1, <2>4 DEF RemoveKept, MailState
    <3> QED BY <2>4, <3>1 DEF Counted
  <2> QED BY <2>1, <2>2, <2>3, <2>4
<1> QED BY <1>3, <1>4, CountStays

\* A message of another that is deleted unsaid is left out (Calm).
LEMMA RemovedIsMine ==
    ASSUME BadgeTyped, Calm, NEW m \in Mails, RemoveKept(m)
    PROVE  mail[m].at = "last" \/ mail[m].mine
<1>1. /\ mail[m].at \in {"last", "notLast"} /\ Lives(m)
      /\ mail' = [mail EXCEPT ![m].deleted = TRUE]
  BY DEF RemoveKept
<1>2. mail'[m].deleted /\ m \in Removing
  BY <1>1 DEF Removing, BadgeTyped, MailState
<1> QED BY <1>1, <1>2 DEF Calm, Untold

LEMMA ApiReadsAgain ==
    ASSUME BadgeTyped, ReadAgain, place # "channel", Calm, Api
    PROVE  ReadAgain'
<1>1. CASE Tick
  <2>1. UNCHANGED <<place, mail, announce, lastReadAt, mark, bar, lists, toBar, line>>
    BY <1>1 DEF Tick, threadVars, barVars, lineVars
  <2>2. ToBeRead => ToBeRead'
    BY <2>1 DEF ToBeRead, MarkKept
  <2> QED BY <2>1, <2>2, CountAlike, ReadAgainStays
<1>2. ASSUME NEW m \in Mails,
             WriteBegins(m) \/ RemoveRead(m) \/ (RemoveKept(m) /\ mail[m].at # "last")
      PROVE  ReadAgain'
  <2>1. UNCHANGED <<place, announce, mark, bar, lists, toBar, line>>
    BY <1>2 DEF WriteBegins, RemoveRead, RemoveKept, threadVars, barVars, lineVars
  <2>2. ToBeRead => ToBeRead'
    BY <2>1 DEF ToBeRead, MarkKept
  <2>3. CountUnread' = CountUnread
    BY <1>2, RemovedIsMine, NotCounted
  <2> QED BY <2>1, <2>2, <2>3, ReadAgainStays
<1>3. ASSUME NEW m \in Mails,
             WriteKept(m) \/ TellRoomFirst(m) \/ (RemoveKept(m) /\ mail[m].at = "last")
      PROVE  ReadAgain'
  <2>1. announce' # {}
    BY <1>3 DEF WriteKept, TellRoomFirst, RemoveKept
  <2> QED BY <2>1, ToBeReadSuffices DEF ToBeRead
<1>4. ASSUME NEW m \in Mails, Announce(m)
      PROVE  ReadAgain'
  <2>1. m \in ToldNow /\ UNCHANGED <<place, line>> /\ TellBar(m)
    BY <1>4 DEF Announce, ToldNow
  <2>2. Heard /\ toBar \in Seq(Mails)
    BY <2>1 DEF Calm, BadgeTyped
  <2>3. CASE Hears
    <3>1. toBar' # <<>>
      BY <2>1, <2>2, <2>3 DEF TellBar
    <3> QED BY <3>1, ToBeReadSuffices DEF ToBeRead
  <2>4. CASE line = "down" /\ place # "group"
    <3>1. ToBeRead'
      BY <2>1, <2>4 DEF ToBeRead, BadgeTyped
    <3> QED BY <3>1, ToBeReadSuffices
  <2> QED BY <2>2, <2>3, <2>4 DEF Heard
<1> QED BY <1>1, <1>2, <1>3, <1>4 DEF Api

LEMMA SidebarReadsAgain ==
    ASSUME BadgeTyped, ReadAgain, place # "channel", Calm, Sidebar
    PROVE  ReadAgain'
<1>1. UNCHANGED <<place, mail, announce, lastReadAt, mark>>
  <2>1. UNCHANGED <<mailVars, threadVars>>
    BY Zenon DEF Sidebar, Resync, Connect, LineAdvances, JoinChannel, LineDrops, BarHears,
                 ServeList, ListFails, ListTaken, ListRefused
  <2> QED BY <2>1 DEF mailVars, threadVars
<1>2. CountUnread' = CountUnread
  BY <1>1, CountAlike
<1>3. CASE Resync
  <2>1. AskList(TRUE) \/ AskList(FALSE)
    BY <1>3 DEF Resync
  <2>2. UNCHANGED <<toBar, line>>
    BY <1>3 DEF Resync, lineVars
  <2>3. ToBeRead => ToBeRead'
    BY <1>1, <2>2 DEF ToBeRead, MarkKept
  <2> QED BY <1>1, <2>1, <2>3, AskedAgain, AskedQuietly
<1>4. CASE Connect
  <2>1. CASE place = "group"
    <3>1. UNCHANGED <<bar, lists, toBar>>
      BY <1>4, <2>1 DEF Connect
    <3>2. ToBeRead => ToBeRead'
      BY <1>1, <2>1, <3>1 DEF ToBeRead, MarkKept
    <3> QED BY <1>2, <3>1, <3>2, ReadAgainStays
  <2>2. CASE place # "group"
    BY <1>4, <2>2, AskedAgain DEF Connect
  <2> QED BY <2>1, <2>2
<1>5. CASE LineAdvances \/ JoinChannel
  <2>1. UNCHANGED <<bar, lists, toBar>> /\ line # "down"
    BY <1>5 DEF LineAdvances, JoinChannel
  <2>2. ToBeRead => ToBeRead'
    BY <1>1, <2>1 DEF ToBeRead, MarkKept
  <2> QED BY <1>2, <2>1, <2>2, ReadAgainStays
<1>6. CASE LineDrops
  <2>1. line # "down" /\ line' = "down" /\ UNCHANGED <<bar, lists>>
    BY <1>6 DEF LineDrops
  <2>2. OnTheWay = {} /\ toBar \in Seq(Mails)
    BY <2>1 DEF Calm, Drops, BadgeTyped
  <2>3. announce = {} /\ toBar = <<>>
    <3>1. DOMAIN toBar = {}
      BY <2>2 DEF OnTheWay
    <3> QED BY <2>2, <3>1 DEF OnTheWay, Unannounced
  <2>4. ToBeRead => ToBeRead'
    BY <1>1, <2>1, <2>3 DEF ToBeRead, MarkKept
  <2> QED BY <1>2, <2>1, <2>4, ReadAgainStays
<1>7. CASE BarHears
  BY <1>7, AskedAgain DEF BarHears
<1> QED BY <1>3, <1>4, <1>5, <1>6, <1>7, AnswerComes, ReadEnds DEF Sidebar

LEMMA ThreadReadsAgain ==
    ASSUME BadgeTyped, ReadAgain, place # "channel", Thread
    PROVE  ReadAgain'
<1>1. ASSUME PageStill, MarkKept' <=> MarkKept
      PROVE  ReadAgain'
  <2>1. ToBeRead => ToBeRead'
    BY <1>1 DEF PageStill, ToBeRead
  <2> QED BY <1>1, <2>1, CountAlike, ReadAgainStays DEF PageStill
<1>2. ASSUME NEW p \in Pages, ServeMark(p)
      PROVE  ReadAgain'
  <2>1. MarkKept'
    BY <1>2 DEF ServeMark, MarkKept, BadgeTyped
  <2> QED BY <2>1, ToBeReadSuffices DEF ToBeRead
<1>3. ASSUME NEW p \in Pages, MarkTaken(p)
      PROVE  ReadAgain'
  BY <1>3, AskedAgain DEF MarkTaken
<1> QED BY <1>1, <1>2, <1>3, PageMarks DEF Thread

-----------------------------------------------------------------------------
\* Of a channel the badge is counted up.
ChannelSound == ToldOnce /\ NothingCrosses /\ CountedUp

LEMMA NothingCrossesStays ==
    ASSUME Uncrossed
    PROVE  NothingCrosses'
BY DEF Uncrossed, NothingCrosses, Marking, OnTheWay, Unannounced

LEMMA ToldOnceStays ==
    ASSUME ToldOnce, UNCHANGED <<mail, announce, toBar, lastReadAt>>
    PROVE  ToldOnce' /\ Coming' = Coming
BY DEF ToldOnce, Coming, Queued, Unannounced, OnTheWay, Written

LEMMA CountedUpStays ==
    ASSUME CountedUp, UNCHANGED <<bar, lists, line>>, UnreadMails' = UnreadMails,
           UnreadMails \cap Coming' = UnreadMails \cap Coming, MarkKept' <=> MarkKept
    PROVE  CountedUp'
<1>1. CountUnread' = CountUnread
  BY DEF CountUnread, UnreadMails
<1>2. UnreadMails' \ Coming' = UnreadMails \ Coming
  OBVIOUS
<1> QED BY <1>1, <1>2 DEF CountedUp

LEMMA WayIs ==
    /\ OnTheWay = Unannounced \cup Queued /\ announce \subseteq Unannounced
    /\ Coming \subseteq OnTheWay
BY DEF OnTheWay, Queued, Coming, Unannounced

LEMMA ReadsAreFree ==
    ASSUME NothingCrosses, lists # <<>>
    PROVE  OnTheWay = {} /\ Coming = {} /\ ~Marking /\ ~MarkKept
BY WayIs DEF NothingCrosses, Marking, MarkKept

LEMMA MailIs ==
    ASSUME BadgeTyped, NEW m \in Mails, NEW at \in {"kept", "told", "last", "notLast"},
           mail' = [mail EXCEPT ![m].at = at]
    PROVE  /\ mail'[m].at = at /\ mail'[m].createdAt = mail[m].createdAt
           /\ mail'[m].mine = mail[m].mine /\ mail'[m].deleted = mail[m].deleted
           /\ \A n \in Mails \ {m} : mail'[n] = mail[n]
BY DEF BadgeTyped, MailState

LEMMA WriteBeginsCounts ==
    ASSUME BadgeTyped, ChannelSound, Uncrossed, NEW m \in Mails, WriteBegins(m)
    PROVE  ToldOnce' /\ CountedUp'
<1>1. PICK mine \in BOOLEAN :
          mail' = [mail EXCEPT ![m] = [at |-> "begun", createdAt |-> clock,
                                       mine |-> mine, deleted |-> FALSE]]
  BY DEF WriteBegins
<1>2. mail[m].at = "none" /\ UNCHANGED <<announce, toBar, lastReadAt, bar, lists, line, mark>>
  BY DEF WriteBegins, threadVars, barVars, lineVars
<1>3. /\ mail'[m].at = "begun" /\ mail'[m].deleted = FALSE
      /\ \A n \in Mails \ {m} : mail'[n] = mail[n]
  BY <1>1 DEF BadgeTyped
<1>4. mail'[m].createdAt > lastReadAt
  BY <1>2, <1>3 DEF Uncrossed
<1>5. /\ Queued' = Queued /\ Coming' = Coming /\ Coming \subseteq Mails
      /\ Unannounced' = Unannounced \cup {m}
  BY <1>2, <1>3 DEF Coming, Queued, Unannounced, BadgeTyped
<1>6. m \notin Coming
  BY <1>2 DEF ChannelSound, ToldOnce, Written
<1>7. OnTheWay' = OnTheWay \cup {m} /\ OnTheWay \subseteq Mails
  BY <1>5, WayIs DEF OnTheWay, Coming, Unannounced, Queued
<1>8. ToldOnce'
  <2>1. \A n \in Coming : Written(n)'
    BY <1>3, <1>5, <1>6 DEF ChannelSound, ToldOnce, Written
  <2>2. \A n \in OnTheWay' : mail'[n].createdAt > lastReadAt'
    BY <1>2, <1>3, <1>4, <1>7 DEF ChannelSound, ToldOnce
  <2>3. Queued' \cap Unannounced' = {}
    BY <1>5, <1>6 DEF ChannelSound, ToldOnce, Coming
  <2>4. \A n \in Mails : mail'[n].at # "last" /\ (~mail'[n].mine => ~mail'[n].deleted)
    BY <1>3 DEF ChannelSound, ToldOnce
  <2>5. \A i, j \in DOMAIN toBar' : toBar'[i] = toBar'[j] => i = j
    BY <1>2 DEF ChannelSound, ToldOnce
  <2> QED BY <1>5, <2>1, <2>2, <2>3, <2>4, <2>5 DEF ToldOnce
<1>9. CountedUp'
  <2>1. UnreadMails' = UnreadMails /\ (MarkKept' <=> MarkKept)
    BY <1>2, NotCounted DEF MarkKept
  <2> QED BY <1>2, <1>5, <2>1, CountedUpStays DEF ChannelSound
<1> QED BY <1>8, <1>9

\* It is unread, and it is on the way.
LEMMA WriteKeptCounts ==
    ASSUME BadgeTyped, ChannelSound, NEW m \in Mails, WriteKept(m)
    PROVE  ToldOnce' /\ CountedUp'
<1>1. /\ mail[m].at = "begun" /\ mail' = [mail EXCEPT ![m].at = "kept"]
      /\ announce' = announce \cup {m}
      /\ UNCHANGED <<toBar, lastReadAt, bar, lists, line, mark>>
  BY DEF WriteKept, threadVars, barVars, lineVars
<1>2. /\ mail'[m].at = "kept" /\ mail'[m].createdAt = mail[m].createdAt
      /\ mail'[m].mine = mail[m].mine /\ mail'[m].deleted = mail[m].deleted
      /\ \A n \in Mails \ {m} : mail'[n] = mail[n]
  <2>1. "kept" \in {"kept", "told", "last", "notLast"}
    OBVIOUS
  <2> QED BY <1>1, <2>1, MailIs
<1>3. /\ Queued' = Queued /\ Coming' = Coming \cup {m} /\ Unannounced' = Unannounced
      /\ m \in Unannounced /\ Coming \subseteq Mails
  BY <1>1, <1>2 DEF Coming, Queued, Unannounced, BadgeTyped
<1>4. OnTheWay' = OnTheWay /\ m \in OnTheWay /\ OnTheWay \subseteq Mails
  BY <1>3, WayIs DEF OnTheWay, Coming, Unannounced, Queued
<1>5. /\ m \notin Queued /\ ~Marking /\ lists = <<>> /\ mail[m].createdAt > lastReadAt
      /\ ~mail[m].mine => ~mail[m].deleted
  BY <1>3, <1>4 DEF ChannelSound, ToldOnce, NothingCrosses
<1>6. ToldOnce'
  <2>1. \A n \in Coming' : Written(n)'
    BY <1>2, <1>3 DEF ChannelSound, ToldOnce, Written
  <2>2. \A n \in OnTheWay' : mail'[n].createdAt > lastReadAt'
    BY <1>1, <1>2, <1>4 DEF ChannelSound, ToldOnce
  <2>3. Queued' \cap Unannounced' = {}
    BY <1>3 DEF ChannelSound, ToldOnce
  <2>4. \A n \in Mails : mail'[n].at # "last" /\ (~mail'[n].mine => ~mail'[n].deleted)
    BY <1>2 DEF ChannelSound, ToldOnce
  <2>5. \A i, j \in DOMAIN toBar' : toBar'[i] = toBar'[j] => i = j
    BY <1>1 DEF ChannelSound, ToldOnce
  <2> QED BY <2>1, <2>2, <2>3, <2>4, <2>5 DEF ToldOnce
<1>7. CountedUp'
  <2>1. \A n \in Mails \ {m} : Counted(n)' <=> Counted(n)
    BY <1>1, <1>2 DEF Counted, Lives, Written
  <2>2. ~Counted(m)
    BY <1>1 DEF Counted, Lives, Written
  <2>3. UnreadMails' \ Coming' = UnreadMails \ Coming
    BY <1>3, <2>1, <2>2 DEF UnreadMails
  <2>4. ~MarkKept'
    BY <1>1, <1>5 DEF MarkKept, Marking
  <2>5. ~MarkKept
    BY <1>5 DEF MarkKept, Marking
  <2>6. DOMAIN lists' = {}
    BY <1>1, <1>5
  <2>7. bar.kind = "success" /\ line # "down" => bar.count = Cardinality(UnreadMails \ Coming)
    BY <2>5 DEF ChannelSound, CountedUp
  <2>8. bar'.kind = "success" /\ line' # "down" => bar'.count = Cardinality(UnreadMails' \ Coming')
    BY <1>1, <2>3, <2>7
  <2> QED BY <2>4, <2>6, <2>8 DEF CountedUp
<1> QED BY <1>6, <1>7

\* Queued to a socket that is in the room, or to none at all.
LEMMA AnnounceCounts ==
    ASSUME BadgeTyped, ChannelSound, Calm, place = "channel", NEW m \in Mails, Announce(m)
    PROVE  ToldOnce' /\ CountedUp'
<1>1. /\ m \in announce /\ announce' = announce \ {m}
      /\ toBar' = IF inRoom THEN Append(toBar, m) ELSE toBar
      /\ UNCHANGED <<mail, lastReadAt, bar, lists, line, mark>>
  BY DEF Announce, TellBar, Hears
<1>2. inRoom \/ line = "down"
  <2>1. m \in ToldNow
    BY <1>1 DEF ToldNow
  <2> QED BY <2>1 DEF Calm, Heard, Hears
<1>3. toBar \in Seq(Mails) /\ announce \subseteq Mails
  BY DEF BadgeTyped
<1>4. m \notin Queued /\ Written(m)
  BY <1>1, WayIs DEF ChannelSound, ToldOnce, Coming
<1>5. Unannounced' = Unannounced \ {m}
  <2>1. mail[m].at # "begun"
    BY <1>4 DEF Written
  <2> QED BY <1>1, <2>1 DEF Unannounced
<1>6. UnreadMails' = UnreadMails /\ (MarkKept' <=> MarkKept)
      /\ \A n : Written(n)' <=> Written(n)
  BY <1>1, CountAlike DEF MarkKept, Written
<1>7. CASE inRoom
  <2>1. toBar' = Append(toBar, m)
    BY <1>1, <1>7
  <2>2. /\ DOMAIN toBar' = DOMAIN toBar \cup {Len(toBar) + 1} /\ toBar'[Len(toBar) + 1] = m
        /\ \A i \in DOMAIN toBar : toBar'[i] = toBar[i]
    BY <1>3, <2>1
  <2>3. Queued' = Queued \cup {m}
    BY <2>2 DEF Queued
  <2>4. Coming' = Coming /\ OnTheWay' = OnTheWay
    BY <1>1, <1>5, <2>3, WayIs DEF Coming, OnTheWay, Unannounced, Queued
  <2>5. \A i, j \in DOMAIN toBar' : toBar'[i] = toBar'[j] => i = j
    BY <1>4, <2>2 DEF ChannelSound, ToldOnce, Queued
  <2>6. Queued' \cap Unannounced' = {}
    BY <1>5, <2>3 DEF ChannelSound, ToldOnce
  <2>7. ToldOnce'
    <3>1. \A n \in Coming' : Written(n)'
      BY <1>6, <2>4 DEF ChannelSound, ToldOnce
    <3>2. \A n \in OnTheWay' : mail'[n].createdAt > lastReadAt'
      BY <1>1, <2>4 DEF ChannelSound, ToldOnce
    <3>3. \A n \in Mails : mail'[n].at # "last" /\ (~mail'[n].mine => ~mail'[n].deleted)
      BY <1>1 DEF ChannelSound, ToldOnce
    <3> QED BY <2>5, <2>6, <3>1, <3>2, <3>3 DEF ToldOnce
  <2> QED BY <1>1, <1>6, <2>4, <2>7, CountedUpStays DEF ChannelSound
<1>8. CASE ~inRoom
  <2>1. line = "down" /\ Queued' = Queued /\ UNCHANGED toBar
    BY <1>1, <1>2, <1>8 DEF Queued
  <2>2. Coming' \subseteq Coming /\ OnTheWay' \subseteq OnTheWay
    BY <1>1, <1>5, <2>1, WayIs DEF Coming, OnTheWay, Unannounced, Queued
  <2>3. Queued' \cap Unannounced' = {}
    BY <1>5, <2>1 DEF ChannelSound, ToldOnce
  <2>4. ToldOnce'
    BY <1>1, <1>6, <2>1, <2>2, <2>3 DEF ChannelSound, ToldOnce
  <2>5. CountUnread' = CountUnread /\ line' = "down"
    BY <1>1, <2>1, CountAlike
  <2>6. CountedUp'
    BY <1>1, <1>6, <2>5 DEF ChannelSound, CountedUp
  <2> QED BY <2>4, <2>6
<1> QED BY <1>7, <1>8

LEMMA RemoveCounts ==
    ASSUME BadgeTyped, ChannelSound, Calm, place = "channel",
           NEW m \in Mails, RemoveRead(m) \/ RemoveKept(m)
    PROVE  ToldOnce' /\ CountedUp'
<1>1. mail[m].at # "last"
  BY DEF ChannelSound, ToldOnce
<1>2. RemoveKept(m) => mail[m].mine
  BY <1>1, RemovedIsMine
<1>3. UNCHANGED <<announce, toBar, lastReadAt, bar, lists, line, mark>>
  BY <1>1 DEF RemoveRead, RemoveKept, threadVars, barVars, lineVars
<1>4. UnreadMails' = UnreadMails
  BY <1>2, NotCounted
<1>5. /\ mail'[m].at \in {"kept", "told", "notLast"} /\ mail[m].at \in {"kept", "notLast"}
      /\ mail'[m].createdAt = mail[m].createdAt
      /\ ~mail'[m].mine => ~mail'[m].deleted
      /\ \A n \in Mails \ {m} : mail'[n] = mail[n]
  <2>1. CASE RemoveRead(m)
    <3>1. mail[m].at = "kept" /\ mail' = [mail EXCEPT ![m].at = "notLast"]
      BY <2>1 DEF RemoveRead
    <3>2. "notLast" \in {"kept", "told", "last", "notLast"}
      OBVIOUS
    <3>3. ~mail[m].mine => ~mail[m].deleted
      BY DEF ChannelSound, ToldOnce
    <3> QED BY <3>1, <3>2, <3>3, MailIs
  <2>2. CASE RemoveKept(m)
    <3>1. mail[m].at = "notLast" /\ mail' = [mail EXCEPT ![m].deleted = TRUE]
      BY <1>1, <2>2 DEF RemoveKept
    <3> QED BY <1>2, <2>2, <3>1 DEF BadgeTyped, MailState
  <2> QED BY <2>1, <2>2
<1>6. \A n \in Mails : Written(n)' <=> Written(n)
  BY <1>5 DEF Written
<1>7. Unannounced' = Unannounced /\ Queued' = Queued /\ Coming' = Coming /\ OnTheWay' = OnTheWay
  BY <1>3, <1>5 DEF Unannounced, Queued, Coming, OnTheWay
<1>8. Coming \subseteq Mails /\ OnTheWay \subseteq Mails
  BY DEF Coming, Queued, OnTheWay, Unannounced, BadgeTyped
<1>9. ToldOnce'
  <2>1. \A n \in OnTheWay : mail'[n].createdAt > lastReadAt'
    BY <1>3, <1>5, <1>8 DEF ChannelSound, ToldOnce
  <2>2. \A n \in Mails : mail'[n].at # "last" /\ (~mail'[n].mine => ~mail'[n].deleted)
    BY <1>5 DEF ChannelSound, ToldOnce
  <2>3. \A n \in Coming : Written(n)'
    BY <1>6, <1>8 DEF ChannelSound, ToldOnce
  <2> QED BY <1>3, <1>7, <2>1, <2>2, <2>3 DEF ChannelSound, ToldOnce
<1>10. CountedUp'
  <2>1. MarkKept' <=> MarkKept
    BY <1>3 DEF MarkKept
  <2> QED BY <1>3, <1>4, <1>7, <2>1, CountedUpStays DEF ChannelSound
<1> QED BY <1>9, <1>10

LEMMA AskCounts ==
    ASSUME BadgeTyped, CountedUp, AskList(TRUE), UNCHANGED <<mail, lastReadAt, mark>>
    PROVE  CountedUp'
<1>0. TRUE \in BOOLEAN
  OBVIOUS
<1>1. /\ lists' \in Seq(ReadRow) /\ Len(lists') = Len(lists) + 1
      /\ lists'[Len(lists) + 1] = Read(TRUE)
      /\ \A i \in DOMAIN lists : i \in DOMAIN lists' /\ lists'[i] = lists[i]
  BY <1>0, AskTypes
<1>2. lists \in Seq(ReadRow) /\ bar'.kind = "loading"
  BY DEF BadgeTyped, AskList
<1>3. UnreadMails' = UnreadMails /\ CountUnread' = CountUnread /\ (MarkKept' <=> MarkKept)
  BY CountAlike DEF MarkKept
<1>4. ASSUME NEW i \in DOMAIN lists', lists'[i].at = "served"
      PROVE  lists'[i].count = CountUnread
  <2>1. i # Len(lists) + 1
    BY <1>1, <1>4 DEF Read
  <2>2. i \in DOMAIN lists /\ lists'[i] = lists[i]
    BY <1>1, <1>2, <2>1
  <2> QED BY <1>4, <2>2 DEF CountedUp
<1> QED BY <1>2, <1>3, <1>4 DEF CountedUp

\* A read is served, or is over, while nothing is on the way.
LEMMA ReadsCount ==
    ASSUME BadgeTyped, ChannelSound, NEW i \in DOMAIN lists,
           ServeList(i) \/ ListFails(i) \/ ListTaken(i) \/ ListRefused(i)
    PROVE  CountedUp'
<1>1. UNCHANGED <<mail, announce, lastReadAt, mark, toBar, line>>
  BY DEF ServeList, ListFails, ListTaken, ListRefused, mailVars, lineVars, threadVars
<1>2. UnreadMails' = UnreadMails /\ CountUnread' = CountUnread /\ (MarkKept' <=> MarkKept)
  BY <1>1, CountAlike DEF MarkKept
<1>3. lists # <<>> /\ lists \in Seq(ReadRow) /\ lists[i] \in ReadRow
  BY DEF BadgeTyped
<1>4. Coming = {} /\ ~MarkKept /\ Coming' = Coming
  BY <1>1, <1>3, ReadsAreFree DEF ChannelSound, Coming, Queued
<1>5. UnreadMails' \ Coming' = UnreadMails /\ UnreadMails \ Coming = UnreadMails
  BY <1>2, <1>4
<1>6. CountUnread = Cardinality(UnreadMails)
  BY CountOf
<1>7. /\ \A k \in DOMAIN lists : lists[k].at = "served" => lists[k].count = CountUnread
      /\ bar.kind = "success" /\ line # "down" => bar.count = CountUnread
  BY <1>4, <1>5, <1>6 DEF ChannelSound, CountedUp
<1>8. \A k \in DOMAIN lists' : lists'[k].at = "served" => lists'[k].count = CountUnread
  <2>1. CASE ServeList(i)
    <3>1. PICK r : r = [[lists[i] EXCEPT !.at = "served"] EXCEPT !.count = CountUnread]
      OBVIOUS
    <3>2. lists' = [lists EXCEPT ![i] = r]
      BY <1>3, <2>1, <3>1 DEF ServeList
    <3>3. r.count = CountUnread
      BY <1>3, <3>1, CountIsNat DEF ReadRow
    <3> QED BY <1>3, <1>7, <3>2, <3>3
  <2>2. CASE ListFails(i)
    <3>1. PICK r : r = [lists[i] EXCEPT !.at = "failed"]
      OBVIOUS
    <3>2. lists' = [lists EXCEPT ![i] = r]
      BY <2>2, <3>1 DEF ListFails
    <3>3. r.at = "failed"
      BY <1>3, <3>1 DEF ReadRow
    <3> QED BY <1>3, <1>7, <3>2, <3>3
  <2>3. CASE ListTaken(i) \/ ListRefused(i)
    <3>1. lists' = Without(i)
      BY <2>3 DEF ListTaken, ListRefused
    <3> QED BY <1>3, <1>7, <3>1, WithoutOf
  <2> QED BY <2>1, <2>2, <2>3
<1>9. bar'.kind = "success" /\ line' # "down" => bar'.count = CountUnread
  <2>1. CASE ServeList(i) \/ ListFails(i)
    BY <1>1, <1>7, <2>1 DEF ServeList, ListFails
  <2>2. CASE ListTaken(i)
    <3>1. lists[i].at = "served" /\ bar' = [kind |-> "success", count |-> lists[i].count]
      BY <2>2 DEF ListTaken
    <3> QED BY <1>7, <3>1
  <2>3. CASE ListRefused(i)
    <3>1. bar' = IF lists[i].forced THEN [kind |-> "error", count |-> 0] ELSE bar
      BY <2>3 DEF ListRefused
    <3>2. bar' = bar \/ bar'.kind = "error"
      BY <3>1
    <3> QED BY <1>1, <1>7, <3>2
  <2> QED BY <2>1, <2>2, <2>3
<1> QED BY <1>2, <1>4, <1>5, <1>6, <1>8, <1>9 DEF CountedUp

\* What is heard is counted, once.
LEMMA BarHearsCounts ==
    ASSUME BadgeTyped, ChannelSound, place = "channel", BarHears
    PROVE  ToldOnce' /\ CountedUp'
<1>1. /\ toBar # <<>> /\ toBar' = Tail(toBar) /\ HearCreated(Head(toBar))
      /\ UNCHANGED <<mail, announce, lastReadAt, mark, lists, line>>
  BY DEF BarHears, mailVars, threadVars
<1>2. toBar \in Seq(Mails) /\ bar \in BarRow
  BY DEF BadgeTyped
<1>3. PICK m : m = Head(toBar)
  OBVIOUS
<1>4. /\ 1 \in DOMAIN toBar /\ toBar[1] = m /\ m \in Mails /\ toBar' \in Seq(Mails)
      /\ \A i \in DOMAIN toBar' : i + 1 \in DOMAIN toBar /\ toBar'[i] = toBar[i + 1] /\ i + 1 # 1
      /\ \A i \in DOMAIN toBar : i # 1 => i - 1 \in DOMAIN toBar' /\ toBar'[i - 1] = toBar[i]
  BY <1>1, <1>2, <1>3
<1>5. \A i, j \in DOMAIN toBar : toBar[i] = toBar[j] => i = j
  BY DEF ChannelSound, ToldOnce
<1>6. Queued' = Queued \ {m} /\ m \in Queued
  <2>1. \A i \in DOMAIN toBar' : toBar'[i] \in Queued \ {m}
    BY <1>4, <1>5 DEF Queued
  <2>2. \A i \in DOMAIN toBar : toBar[i] # m => toBar[i] \in Queued'
    BY <1>4 DEF Queued
  <2> QED BY <1>4, <2>1, <2>2 DEF Queued
<1>7. Unannounced' = Unannounced /\ m \notin Unannounced
  BY <1>1, <1>6 DEF Unannounced, ChannelSound, ToldOnce
<1>8. /\ Coming' = Coming \ {m} /\ m \in Coming
      /\ OnTheWay' \subseteq OnTheWay /\ m \in OnTheWay
  BY <1>1, <1>6, <1>7, WayIs DEF Coming, OnTheWay, Queued, Unannounced
<1>9. ToldOnce'
  <2>1. \A i, j \in DOMAIN toBar' : toBar'[i] = toBar'[j] => i = j
    <3> SUFFICES ASSUME NEW i \in DOMAIN toBar', NEW j \in DOMAIN toBar', toBar'[i] = toBar'[j]
                 PROVE  i = j
      OBVIOUS
    <3>1. i + 1 = j + 1
      BY <1>4, <1>5
    <3> QED BY <1>4, <3>1
  <2>2. Queued' \cap Unannounced' = {}
    BY <1>6, <1>7 DEF ChannelSound, ToldOnce
  <2>3. \A n \in Coming' : Written(n)'
    BY <1>1, <1>8 DEF ChannelSound, ToldOnce, Written
  <2>4. \A n \in OnTheWay' : mail'[n].createdAt > lastReadAt'
    BY <1>1, <1>8 DEF ChannelSound, ToldOnce
  <2>5. \A n \in Mails : mail'[n].at # "last" /\ (~mail'[n].mine => ~mail'[n].deleted)
    BY <1>1 DEF ChannelSound, ToldOnce
  <2> QED BY <2>1, <2>2, <2>3, <2>4, <2>5 DEF ToldOnce
<1>10. thread.kind = "closed" /\ lists = <<>> /\ ~MarkKept
  BY <1>8 DEF ChannelSound, NothingCrosses, MarkKept, Marking
<1>11. /\ UnreadMails' = UnreadMails /\ CountUnread' = CountUnread /\ ~MarkKept'
       /\ DOMAIN lists' = {}
  BY <1>1, <1>10, CountAlike DEF MarkKept
<1>12. Counted(m) <=> ~mail[m].mine
  BY <1>4, <1>8 DEF ChannelSound, ToldOnce, Counted, Lives
<1>13. bar'.kind = bar.kind
       /\ (bar.kind = "success" => bar'.count = bar.count + (IF mail[m].mine THEN 0 ELSE 1))
  BY <1>1, <1>2, <1>3, <1>10 DEF HearCreated, Add, BarRow
<1>14. ASSUME bar.kind = "success", line # "down"
       PROVE  bar'.count = Cardinality(UnreadMails' \ Coming')
  <2>1. bar.count = Cardinality(UnreadMails \ Coming)
    BY <1>10, <1>14 DEF ChannelSound, CountedUp
  <2>2. IsFiniteSet(UnreadMails \ Coming)
    BY UnreadAssumption, FS_Subset DEF UnreadMails
  <2>3. CASE mail[m].mine
    <3>1. m \notin UnreadMails
      BY <1>12, <2>3 DEF UnreadMails
    <3>2. UnreadMails' \ Coming' = UnreadMails \ Coming
      BY <1>8, <1>11, <3>1
    <3>3. bar.count \in Nat
      BY <1>2 DEF BarRow
    <3>4. bar'.count = bar.count
      BY <1>13, <1>14, <2>3, <3>3
    <3> QED BY <2>1, <3>2, <3>4
  <2>4. CASE ~mail[m].mine
    <3>1. m \in UnreadMails
      BY <1>4, <1>12, <2>4 DEF UnreadMails
    <3>2. UnreadMails' \ Coming' = (UnreadMails \ Coming) \cup {m}
      BY <1>8, <1>11, <3>1
    <3>3. m \notin UnreadMails \ Coming
      BY <1>8
    <3>4. Cardinality((UnreadMails \ Coming) \cup {m}) = Cardinality(UnreadMails \ Coming) + 1
      BY <2>2, <3>3, FS_AddElement
    <3> QED BY <1>13, <1>14, <2>1, <2>4, <3>2, <3>4
  <2> QED BY <2>3, <2>4
<1>15. CountedUp'
  BY <1>1, <1>11, <1>13, <1>14 DEF CountedUp
<1> QED BY <1>9, <1>15

LEMMA SidebarCounts ==
    ASSUME BadgeTyped, ChannelSound, Calm, place = "channel", Sidebar
    PROVE  ToldOnce' /\ CountedUp'
<1>1. UNCHANGED <<mail, announce, lastReadAt, mark>>
  <2>1. UNCHANGED <<mailVars, threadVars>>
    BY Zenon DEF Sidebar, Resync, Connect, LineAdvances, JoinChannel, LineDrops, BarHears,
                 ServeList, ListFails, ListTaken, ListRefused
  <2> QED BY <2>1 DEF mailVars, threadVars
<1>2. UnreadMails' = UnreadMails /\ CountUnread' = CountUnread /\ (MarkKept' <=> MarkKept)
  BY <1>1, CountAlike DEF MarkKept
<1>3. CASE Resync \/ Connect
  <2>1. AskList(TRUE) /\ UNCHANGED toBar
    BY <1>3 DEF Resync, Connect, lineVars
  <2> QED BY <1>1, <2>1, AskCounts, ToldOnceStays DEF ChannelSound
<1>4. CASE LineAdvances \/ JoinChannel
  <2>1. UNCHANGED <<bar, lists, toBar>> /\ line # "down"
    BY <1>4 DEF LineAdvances, JoinChannel
  <2>2. ToldOnce' /\ Coming' = Coming
    BY <1>1, <2>1, ToldOnceStays DEF ChannelSound
  <2>3. CountedUp'
    BY <1>2, <2>1, <2>2 DEF ChannelSound, CountedUp
  <2> QED BY <2>2, <2>3
<1>5. CASE LineDrops
  <2>1. line # "down" /\ line' = "down" /\ UNCHANGED <<bar, lists>> /\ toBar' = <<>>
    BY <1>5 DEF LineDrops
  <2>2. Queued' = {} /\ DOMAIN toBar' = {}
    BY <2>1 DEF Queued
  <2>3. Coming' \subseteq Coming /\ OnTheWay' \subseteq OnTheWay
    BY <1>1, <2>2, WayIs DEF Coming, OnTheWay, Queued, Unannounced
  <2>4. ToldOnce'
    <3>1. \A n \in Coming' : Written(n)'
      BY <1>1, <2>3 DEF ChannelSound, ToldOnce, Written
    <3>2. \A n \in OnTheWay' : mail'[n].createdAt > lastReadAt'
      BY <1>1, <2>3 DEF ChannelSound, ToldOnce
    <3>3. \A n \in Mails : mail'[n].at # "last" /\ (~mail'[n].mine => ~mail'[n].deleted)
      BY <1>1 DEF ChannelSound, ToldOnce
    <3> QED BY <2>2, <3>1, <3>2, <3>3 DEF ToldOnce
  <2>5. CountedUp'
    BY <1>2, <2>1 DEF ChannelSound, CountedUp
  <2> QED BY <2>4, <2>5
<1>6. ASSUME NEW i \in DOMAIN lists,
             ServeList(i) \/ ListFails(i) \/ ListTaken(i) \/ ListRefused(i)
      PROVE  ToldOnce' /\ CountedUp'
  <2>1. UNCHANGED toBar
    BY <1>6 DEF ServeList, ListFails, ListTaken, ListRefused, lineVars
  <2> QED BY <1>1, <1>6, <2>1, ReadsCount, ToldOnceStays DEF ChannelSound
<1> QED BY <1>3, <1>4, <1>5, <1>6, BarHearsCounts DEF Sidebar

\* A mark makes all read, while nothing is on the way.
LEMMA ThreadCounts ==
    ASSUME BadgeTyped, ChannelSound, place = "channel", Thread
    PROVE  ToldOnce' /\ CountedUp'
<1>1. ASSUME PageStill, MarkKept' <=> MarkKept
      PROVE  ToldOnce' /\ CountedUp'
  <2>1. UnreadMails' = UnreadMails
    BY <1>1, CountAlike DEF PageStill
  <2>2. ToldOnce' /\ Coming' = Coming
    BY <1>1, ToldOnceStays DEF ChannelSound, PageStill
  <2>3. UNCHANGED <<bar, lists, line>>
    BY <1>1 DEF PageStill
  <2> QED BY <1>1, <2>1, <2>2, <2>3, CountedUpStays DEF ChannelSound
<1>2. ASSUME NEW p \in Pages, ServeMark(p)
      PROVE  ToldOnce' /\ CountedUp'
  <2>1. /\ mark[p] = "asked" /\ mark' = [mark EXCEPT ![p] = "served"] /\ lastReadAt' = clock
        /\ UNCHANGED <<clock, mail, announce, bar, lists, line, toBar>>
    BY <1>2 DEF ServeMark, barVars, lineVars
  <2>2. Marking /\ MarkKept'
    BY <2>1 DEF Marking, MarkKept, BadgeTyped
  <2>3. OnTheWay = {} /\ lists = <<>>
    BY <2>2 DEF ChannelSound, NothingCrosses
  <2>4. OnTheWay' = {} /\ Coming' = {} /\ Queued' = {} /\ Unannounced' = {}
    BY <2>1, <2>3, WayIs DEF OnTheWay, Coming, Queued, Unannounced
  <2>5. UnreadMails' = {}
    <3>1. \A m \in Mails : mail[m].createdAt \in Nat /\ mail[m].createdAt <= clock /\ clock \in Nat
      BY DEF BadgeTyped, MailState
    <3>2. \A m \in Mails : ~Counted(m)'
      BY <2>1, <3>1 DEF Counted
    <3> QED BY <3>2 DEF UnreadMails
  <2>6. ToldOnce'
    BY <2>1, <2>4 DEF ChannelSound, ToldOnce
  <2>7. DOMAIN lists' = {}
    BY <2>1, <2>3
  <2>8. CountedUp'
    BY <2>2, <2>5, <2>7 DEF CountedUp
  <2> QED BY <2>6, <2>8
<1>3. ASSUME NEW p \in Pages, MarkTaken(p)
      PROVE  ToldOnce' /\ CountedUp'
  <2>1. /\ mark[p] = "served" /\ bar' = [bar EXCEPT !.count = 0]
        /\ UNCHANGED <<mail, announce, lastReadAt, lists, line, toBar>>
    BY <1>3 DEF MarkTaken, mailVars, lineVars
  <2>2. MarkKept /\ Marking
    BY <2>1 DEF MarkKept, Marking
  <2>3. UnreadMails' = {} /\ DOMAIN lists' = {}
    BY <2>1, <2>2, CountAlike DEF ChannelSound, CountedUp, NothingCrosses
  <2>4. ToldOnce'
    BY <2>1, ToldOnceStays DEF ChannelSound
  <2>5. bar'.count = 0
    BY <2>1 DEF BadgeTyped, BarRow
  <2>6. Cardinality(UnreadMails' \ Coming') = 0
    BY <2>3, FS_EmptySet
  <2> QED BY <2>3, <2>4, <2>5, <2>6 DEF CountedUp
<1> QED BY <1>1, <1>2, <1>3, PageMarks DEF Thread

LEMMA ApiCounts ==
    ASSUME BadgeTyped, ChannelSound, Calm, Uncrossed, place = "channel", Api
    PROVE  ToldOnce' /\ CountedUp'
<1>1. CASE Tick
  <2>1. UNCHANGED <<mail, announce, lastReadAt, mark, bar, lists, toBar, line>>
    BY <1>1 DEF Tick, threadVars, barVars, lineVars
  <2>2. ToldOnce' /\ Coming' = Coming
    BY <2>1, ToldOnceStays DEF ChannelSound
  <2>3. UnreadMails' = UnreadMails /\ (MarkKept' <=> MarkKept)
    BY <2>1, CountAlike DEF MarkKept
  <2> QED BY <2>1, <2>2, <2>3, CountedUpStays DEF ChannelSound
<1>2. \A m \in Mails : ~TellRoomFirst(m)
  BY DEF TellRoomFirst
<1> QED BY <1>1, <1>2, WriteBeginsCounts, WriteKeptCounts, AnnounceCounts, RemoveCounts DEF Api

-----------------------------------------------------------------------------
BadgeLoad == reading \in {"line", "page"}

LEMMA InitBadge ==
    ASSUME MCInit
    PROVE  BadgeSound
<1>1. UnreadInit
  BY DEF MCInit, ReadingInit
<1>2. /\ lists = <<Read(TRUE)>> /\ toBar = <<>> /\ bar = [kind |-> "loading", count |-> 0]
      /\ announce = {} /\ lastReadAt = 0 /\ clock = 1 /\ mark = [p \in Pages |-> "none"]
      /\ mail = [m \in Mails |-> [at |-> "none", createdAt |-> 0, mine |-> FALSE,
                                 deleted |-> FALSE]]
      /\ place \in {"channel", "direct", "group"}
  BY <1>1 DEF UnreadInit
<1>3. /\ Read(TRUE) \in ReadRow /\ Read(TRUE).at = "asked"
      /\ bar \in BarRow
  BY <1>2 DEF Read, ReadRow, BarRow
<1>4. /\ lists \in Seq(ReadRow) /\ toBar \in Seq(Mails)
      /\ \A i \in DOMAIN lists : lists[i] = Read(TRUE)
      /\ DOMAIN toBar = {}
  <2>1. PICK asked : asked = Read(TRUE)
    OBVIOUS
  <2>2. lists = <<asked>> /\ toBar = <<>> /\ asked \in ReadRow
    BY <1>2, <1>3, <2>1
  <2>3. lists \in Seq(ReadRow) /\ \A i \in DOMAIN lists : lists[i] = asked
    BY <2>2
  <2>4. toBar \in Seq(Mails) /\ DOMAIN toBar = {}
    BY <2>2
  <2> QED BY <2>1, <2>3, <2>4
<1>5. BadgeTyped
  <2>1. mail \in [Mails -> MailState] /\ \A m \in Mails : mail[m].createdAt = 0
    BY <1>2 DEF MailState
  <2>2. mark \in [Pages -> CallStates] /\ announce \subseteq Mails
    BY <1>2 DEF CallStates
  <2>3. clock \in Nat /\ lastReadAt \in Nat /\ \A m \in Mails : mail[m].createdAt <= clock
    BY <1>2, <2>1
  <2>4. place \in {"channel", "direct", "group"}
    BY <1>2
  <2> QED BY <1>3, <1>4, <2>1, <2>2, <2>3, <2>4 DEF BadgeTyped
<1>6. ReadAgain
  <2>1. bar.kind = "loading"
    BY <1>2
  <2>2. \A i \in DOMAIN lists : lists[i].at = "asked"
    BY <1>3, <1>4
  <2> QED BY <2>1, <2>2 DEF ReadAgain, FreshBar, FreshRead
<1>7. Queued = {} /\ Unannounced = {} /\ Coming = {} /\ OnTheWay = {} /\ ~MarkKept /\ ~Marking
  BY <1>2, <1>4, WayIs DEF Queued, Unannounced, Coming, OnTheWay, MarkKept, Marking
<1>8. ToldOnce
  BY <1>2, <1>4, <1>7 DEF ToldOnce
<1>9. NothingCrosses /\ CountedUp
  BY <1>2, <1>3, <1>4, <1>7 DEF NothingCrosses, CountedUp
<1> QED BY <1>5, <1>6, <1>8, <1>9 DEF BadgeSound

LEMMA StepBadge ==
    ASSUME BadgeSound, UnreadNext, Calm, place = "channel" => Uncrossed
    PROVE  BadgeSound'
<1>1. BadgeTyped /\ BadgeTyped' /\ place' = place
  <2>1. BadgeTyped
    BY DEF BadgeSound
  <2>2. BadgeTyped'
    BY <2>1, ApiTypes, SidebarTypes, ThreadTypes DEF UnreadNext
  <2>3. place' = place
    <3>1. CASE Api
      BY <3>1 DEF Api, Tick, WriteBegins, WriteKept, TellRoomFirst, Announce, RemoveRead, RemoveKept
    <3>2. CASE Sidebar
      BY <3>2 DEF Sidebar, Resync, Connect, LineAdvances, JoinChannel, LineDrops, BarHears,
                  ServeList, ListFails, ListTaken, ListRefused, mailVars
    <3>3. CASE Thread
      <4>1. CASE \E p \in Pages : ServeMark(p) \/ MarkTaken(p)
        BY <4>1 DEF ServeMark, MarkTaken, mailVars
      <4> QED BY <2>1, <3>3, <4>1, PageMarks DEF Thread, PageStill
    <3> QED BY <3>1, <3>2, <3>3 DEF UnreadNext
  <2> QED BY <2>1, <2>2, <2>3
<1>2. CASE place # "channel"
  <2>1. ReadAgain'
    BY <1>1, <1>2, ApiReadsAgain, SidebarReadsAgain, ThreadReadsAgain DEF BadgeSound, UnreadNext
  <2> QED BY <1>1, <1>2, <2>1 DEF BadgeSound
<1>3. CASE place = "channel"
  <2>1. ChannelSound
    BY <1>3 DEF BadgeSound, ChannelSound
  <2>2. ToldOnce' /\ CountedUp'
    BY <1>1, <1>3, <2>1, ApiCounts, SidebarCounts, ThreadCounts DEF UnreadNext
  <2>3. NothingCrosses'
    BY <1>3, NothingCrossesStays
  <2> QED BY <1>1, <1>3, <2>2, <2>3 DEF BadgeSound
<1> QED BY <1>2, <1>3

\* The sidebar's badge is the API's count whenever nothing is in flight, for any number of
\* messages, reads and reconnections: of a conversation whose badge is read again, because
\* whatever changes the count leads to a read that is forced and none overtakes another; of
\* a channel, because each message is told once and none crosses a read or a mark.
THEOREM BadgeCountsRight == MCSpec => []BadgeIsTheCount
<1> DEFINE Sound == BadgeLoad => BadgeSound
<1>1. MCInit => Sound
  BY InitBadge
<1>2. Sound /\ [MCNext]_<<vars, workload, unreadVars, readingVars>> => Sound'
  <2> SUFFICES ASSUME BadgeLoad', Sound,
                      [MCNext]_<<vars, workload, unreadVars, readingVars>>
               PROVE  BadgeSound'
    OBVIOUS
  <2>1. reading' = reading
    BY DEF MCNext, ReadingNext, readingVars
  <2>2. BadgeSound
    BY <2>1 DEF BadgeLoad
  <2>3. CASE UNCHANGED unreadVars
    <3>1. UNCHANGED <<place, clock, mail, announce, lastReadAt, bar, lists, line, toBar, thread,
                      mark>>
      BY <2>3 DEF unreadVars, mailVars, barVars, lineVars, threadVars
    <3>2. BadgeTyped'
      BY <2>2, <3>1 DEF BadgeSound, BadgeTyped
    <3>3. /\ UnreadMails' = UnreadMails /\ CountUnread' = CountUnread
          /\ (MarkKept' <=> MarkKept) /\ (Marking' <=> Marking)
      BY <3>1, CountAlike DEF MarkKept, Marking
    <3>4. CASE place # "channel"
      <4>1. ToBeRead => ToBeRead'
        BY <3>1, <3>3 DEF ToBeRead
      <4>2. ReadAgain'
        BY <2>2, <3>1, <3>3, <3>4, <4>1, ReadAgainStays DEF BadgeSound
      <4> QED BY <3>1, <3>2, <3>4, <4>2 DEF BadgeSound
    <3>5. CASE place = "channel"
      <4>1. ToldOnce' /\ Coming' = Coming
        BY <2>2, <3>1, <3>5, ToldOnceStays DEF BadgeSound
      <4>2. CountedUp'
        BY <2>2, <3>1, <3>3, <3>5, <4>1, CountedUpStays DEF BadgeSound
      <4>3. OnTheWay' = OnTheWay
        BY <3>1 DEF OnTheWay, Unannounced
      <4>4. NothingCrosses'
        BY <2>2, <3>1, <3>3, <3>5, <4>3 DEF BadgeSound, NothingCrosses
      <4> QED BY <3>1, <3>2, <3>5, <4>1, <4>2, <4>4 DEF BadgeSound
    <3> QED BY <3>4, <3>5
  <2>4. CASE ReadingNext
    <3>1. UnreadNext /\ Calm /\ (place = "channel" => Uncrossed)
      BY <2>1, <2>4 DEF ReadingNext, BadgeLoad
    <3> QED BY <2>2, <3>1, StepBadge
  <2> QED BY <2>3, <2>4 DEF MCNext
<1>3. Sound => BadgeIsTheCount
  <2> SUFFICES ASSUME BadgeSound, NothingInFlight, line = "ready", bar.kind = "success"
               PROVE  bar.count = CountUnread
    BY DEF BadgeIsTheCount, BadgeLoad
  <2>1. lists = <<>> /\ OnTheWay = {} /\ ~Marking
    BY DEF NothingInFlight
  <2>2. ~MarkKept /\ announce = {} /\ Coming = {} /\ Queued = {} /\ DOMAIN lists = {}
    BY <2>1, WayIs DEF MarkKept, Marking, Coming
  <2>3. toBar = <<>>
    <3>1. toBar \in Seq(Mails) /\ DOMAIN toBar = {}
      BY <2>2 DEF BadgeSound, BadgeTyped, Queued
    <3> QED BY <3>1
  <2>4. CASE place # "channel"
    BY <2>2, <2>3, <2>4 DEF BadgeSound, ReadAgain, ToBeRead, FreshBar, Overridden
  <2>5. CASE place = "channel"
    <3>1. UnreadMails \ Coming = UnreadMails
      BY <2>2
    <3> QED BY <2>2, <2>5, <3>1, CountOf DEF BadgeSound, CountedUp
  <2> QED BY <2>4, <2>5
<1> QED BY <1>1, <1>2, <1>3, PTL DEF MCSpec
=============================================================================
