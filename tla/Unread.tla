-------------------------------- MODULE Unread --------------------------------
(***************************************************************************)
(* What a user has not read of a conversation: the read mark and the count  *)
(* the API keeps (channels/, direct-conversations/, groups/), the badge the *)
(* sidebar shows (components/Sidebar.tsx), and the page of the conversation *)
(* that moves the mark.  The badge is a cache: of a channel it is counted   *)
(* up and cleared by events between two reads, of a direct conversation or  *)
(* a group it is read again whenever something is heard.                    *)
(*                                                                         *)
(* There is one user, in one browser tab, and one conversation; the others, *)
(* and he himself on another device, write and delete messages.  The        *)
(* sidebar's socket and the page's are two: what one hears says nothing of  *)
(* what the other has heard.  A page shows all messages (Pages has its      *)
(* older ones).  The date of a mark is taken in the step that keeps it, and *)
(* a call that wrote a message does not fail before it has told of it.      *)
(***************************************************************************)
EXTENDS Integers, FiniteSets, Sequences

CONSTANTS
    Mails,      \* messages that may be written (a bound)
    MaxClock,   \* milliseconds that pass (a bound)
    MaxLists    \* reads of the sidebar in flight at once (a bound)

ASSUME UnreadAssumption ==
    /\ IsFiniteSet(Mails)
    /\ MaxClock \in Nat \ {0} /\ MaxLists \in Nat \ {0}

VARIABLES
    place,      \* "channel", "direct" or "group"
    clock,
    mail,       \* message -> its row, and how far its author's call is
    announce,   \* changes that are kept and of which nobody has been told yet
    lastReadAt, \* the user's read mark; 0 is none
    bar,        \* the sidebar's entry of the conversation
    lists,      \* the sidebar's reads in flight, in the order they were asked
    line,       \* the sidebar's socket: "down", "open", "known" or "ready"
    knock,      \* its channel:join is on the way
    sought,     \* joinedChannelRoomsRef has the channel
    inRoom,     \* its socket is in the channel's room
    toBar,      \* messages of which an event is on the way to it
    thread,     \* the conversation's page, and its read in flight
    inThread,   \* the page's socket is in the conversation's room
    toThread,   \* messages of which an event is on the way to the page
    mark        \* the calls to mark as read, of the open page and of one he has left

mailVars == <<place, clock, mail, announce, lastReadAt>>
lineVars == <<line, knock, sought, inRoom, toBar>>
barVars == <<bar, lists, lineVars>>
threadVars == <<thread, inThread, toThread, mark>>
unreadVars == <<mailVars, barVars, threadVars>>

Closed == [kind |-> "closed", shows |-> {}, call |-> "none", found |-> {}]
Pages == {"open", "left"}   \* whose calls mark has

-----------------------------------------------------------------------------
(***************************************************************************)
(* The API                                                                 *)
(***************************************************************************)
Written(m) == mail[m].at \in {"kept", "told", "last", "notLast"}
Lives(m) == Written(m) /\ ~mail[m].deleted
CountedAnyAuthor(m) == Lives(m) /\ mail[m].createdAt > lastReadAt
Counted(m) == Lives(m) /\ ~mail[m].mine /\ mail[m].createdAt > lastReadAt
CountUnread == Cardinality({m \in Mails : Counted(m)})

Later(m, n) == mail[m].createdAt > mail[n].createdAt
Newest(m) == \A n \in Mails \ {m} : Lives(n) => ~Later(n, m)

Hears == IF place = "channel" THEN inRoom ELSE line = "ready"
TellBar(m) == toBar' = IF Hears THEN Append(toBar, m) ELSE toBar

Tick ==
    /\ clock < MaxClock /\ clock' = clock + 1
    /\ UNCHANGED <<place, mail, announce, lastReadAt, barVars, threadVars>>

\* createdAt is set when the insert begins, and the row is seen when it is over.
WriteBegins(m) ==
    /\ mail[m].at = "none"
    /\ \E mine \in BOOLEAN :
           mail' = [mail EXCEPT ![m] = [at |-> "begun", createdAt |-> clock,
                                        mine |-> mine, deleted |-> FALSE]]
    /\ UNCHANGED <<place, clock, announce, lastReadAt, barVars, threadVars>>
WriteKept(m) ==
    /\ mail[m].at = "begun"
    /\ mail' = [mail EXCEPT ![m].at = "kept"]
    /\ announce' = announce \cup {m}
    /\ UNCHANGED <<place, clock, lastReadAt, barVars, threadVars>>

TellThread(m) ==
    toThread' = IF inThread /\ ~mail[m].deleted THEN toThread \cup {m} ELSE toThread

\* Of a message in a group its room is told, and the members two queries later;
\* of one in a direct conversation its room and the participants, of one in a
\* channel its room, at once.
TellRoomFirst(m) ==
    /\ place = "group" /\ m \in announce /\ mail[m].at = "kept"
    /\ mail' = [mail EXCEPT ![m].at = "told"]
    /\ TellThread(m)
    /\ UNCHANGED <<place, clock, announce, lastReadAt, barVars, thread, inThread, mark>>
Announce(m) ==
    /\ m \in announce /\ (place = "group" => mail[m].at = "told")
    /\ announce' = announce \ {m}
    /\ TellBar(m)
    /\ IF place = "group" THEN UNCHANGED toThread ELSE TellThread(m)
    /\ UNCHANGED <<place, clock, mail, lastReadAt, bar, lists, line, knock, sought, inRoom,
                   thread, inThread, mark>>

\* Participants are told of a deletion only if the message was the last one when
\* the handler read it; of a channel the sidebar does not listen to deletions.
RemoveRead(m) ==
    /\ place # "group" /\ mail[m].at = "kept" /\ Lives(m) /\ m \notin announce
    /\ mail' = [mail EXCEPT ![m].at = IF place = "direct" /\ Newest(m) THEN "last" ELSE "notLast"]
    /\ UNCHANGED <<place, clock, announce, lastReadAt, barVars, threadVars>>
RemoveKept(m) ==
    /\ mail[m].at \in {"last", "notLast"} /\ Lives(m)
    /\ mail' = [mail EXCEPT ![m].deleted = TRUE]
    /\ announce' = IF mail[m].at = "last" THEN announce \cup {m} ELSE announce
    /\ UNCHANGED <<place, clock, lastReadAt, barVars, threadVars>>

Api == Tick \/ \E m \in Mails : \/ WriteBegins(m) \/ WriteKept(m)
                                \/ TellRoomFirst(m) \/ Announce(m)
                                \/ RemoveRead(m) \/ RemoveKept(m)

-----------------------------------------------------------------------------
(***************************************************************************)
(* The sidebar.  A read that is forced shows that it is loading and fails    *)
(* for all to see; one on regained focus, of the direct conversations and   *)
(* groups, does neither.                                                   *)
(***************************************************************************)
Read(forced) == [at |-> "asked", count |-> 0, forced |-> forced]
AskList(forced) ==
    /\ Len(lists) < MaxLists
    /\ lists' = Append(lists, Read(forced))
    /\ bar' = IF forced THEN [kind |-> "loading", count |-> 0] ELSE bar

\* Regained focus (visibilitychange), or channels:changed and its likes.
Resync ==
    /\ \E forced \in BOOLEAN : AskList(forced) /\ (place = "channel" => forced)
    /\ UNCHANGED <<mailVars, lineVars, threadVars>>

ServeList(i) ==
    /\ lists[i].at = "asked"
    /\ lists' = [lists EXCEPT ![i].at = "served", ![i].count = CountUnread]
    /\ UNCHANGED <<mailVars, bar, lineVars, threadVars>>
ListFails(i) ==
    /\ lists[i].at = "asked"
    /\ lists' = [lists EXCEPT ![i].at = "failed"]
    /\ UNCHANGED <<mailVars, bar, lineVars, threadVars>>

\* syncChannelRooms: the channel is joined unless it was before, on whatever socket.
SyncChannelRooms ==
    IF place = "channel" /\ ~sought
    THEN sought' = TRUE /\ knock' = TRUE
    ELSE UNCHANGED <<sought, knock>>
Without(i) == SubSeq(lists, 1, i - 1) \o SubSeq(lists, i + 1, Len(lists))
ListTaken(i) ==
    /\ lists[i].at = "served"
    /\ bar' = [kind |-> "success", count |-> lists[i].count]
    /\ lists' = Without(i)
    /\ SyncChannelRooms
    /\ UNCHANGED <<mailVars, line, inRoom, toBar, threadVars>>
ListRefused(i) ==
    /\ lists[i].at = "failed"
    /\ bar' = IF lists[i].forced THEN [kind |-> "error", count |-> 0] ELSE bar
    /\ lists' = Without(i)
    /\ UNCHANGED <<mailVars, lineVars, threadVars>>

\* The socket: open, then known to the gateway, then in the room of its user.  What
\* is emitted while it is down is sent as soon as it is open.
Connect ==
    /\ line = "down" /\ line' = "open"
    /\ IF place = "group" THEN UNCHANGED <<bar, lists>> ELSE AskList(TRUE)
    /\ UNCHANGED <<mailVars, knock, sought, inRoom, toBar, threadVars>>
LineAdvances ==
    /\ \/ line = "open" /\ line' = "known"
       \/ line = "known" /\ line' = "ready"
    /\ UNCHANGED <<mailVars, bar, lists, knock, sought, inRoom, toBar, threadVars>>
\* handleChannelJoin refuses a socket that is not known yet; the sidebar ignores it.
JoinChannel ==
    /\ knock /\ line # "down" /\ knock' = FALSE
    /\ inRoom' = (inRoom \/ line # "open")
    /\ UNCHANGED <<mailVars, bar, lists, line, sought, toBar, threadVars>>
LineDrops ==
    /\ line # "down" /\ line' = "down"
    /\ knock' = FALSE /\ inRoom' = FALSE /\ toBar' = <<>>
    /\ UNCHANGED <<mailVars, bar, lists, sought, threadVars>>

\* handleMessageCreated: another's message, in a channel that is not the one open.
Add(n) == bar' = IF bar.kind = "success" THEN [bar EXCEPT !.count = @ + n] ELSE bar
HearOfAny(m) == Add(IF thread.kind = "closed" THEN 1 ELSE 0)
HearCreated(m) == Add(IF ~mail[m].mine /\ thread.kind = "closed" THEN 1 ELSE 0)
BarHears ==
    /\ toBar # <<>> /\ toBar' = Tail(toBar)
    /\ IF place = "channel" THEN HearCreated(Head(toBar)) /\ UNCHANGED lists
                            ELSE AskList(TRUE)
    /\ UNCHANGED <<mailVars, line, knock, sought, inRoom, threadVars>>

Sidebar == \/ Resync \/ Connect \/ LineAdvances \/ JoinChannel \/ LineDrops \/ BarHears
           \/ \E i \in DOMAIN lists : \/ ServeList(i) \/ ListFails(i)
                                      \/ ListTaken(i) \/ ListRefused(i)

-----------------------------------------------------------------------------
(***************************************************************************)
(* The page.  It has one call to mark as read at a time: one that is to be   *)
(* made while another is in flight is not made at all.                      *)
(***************************************************************************)
MarkRead == mark' = IF mark["open"] = "none" THEN [mark EXCEPT !["open"] = "asked"] ELSE mark

OpenThread ==
    /\ thread = Closed
    /\ thread' = [Closed EXCEPT !.kind = "loading", !.call = "asked"]
    /\ UNCHANGED <<mailVars, barVars, inThread, toThread, mark>>
ServeThread ==
    /\ thread.call = "asked"
    /\ thread' = [thread EXCEPT !.call = "served", !.found = {m \in Mails : Lives(m)}]
    /\ UNCHANGED <<mailVars, barVars, inThread, toThread, mark>>
ThreadFails ==
    /\ thread.call = "asked"
    /\ thread' = [thread EXCEPT !.call = "failed"]
    /\ UNCHANGED <<mailVars, barVars, inThread, toThread, mark>>
ThreadLoaded ==
    /\ thread.call = "served"
    /\ thread' = [Closed EXCEPT !.kind = "success", !.shows = thread.found]
    /\ MarkRead
    /\ UNCHANGED <<mailVars, barVars, inThread, toThread>>
\* load() of the direct and the group page catches what fails, and what follows it
\* marks the conversation all the same; the channel page does not.
MarksAnyway == MarkRead
MarksUnlessFailed == IF place = "channel" THEN UNCHANGED mark ELSE MarkRead
ThreadRefused ==
    /\ thread.call = "failed"
    /\ thread' = [Closed EXCEPT !.kind = "error"]
    /\ MarksUnlessFailed
    /\ UNCHANGED <<mailVars, barVars, inThread, toThread>>

\* The page waits for `connected' before it joins.
JoinThread ==
    /\ thread.kind # "closed" /\ ~inThread /\ inThread' = TRUE
    /\ UNCHANGED <<mailVars, barVars, thread, toThread, mark>>
\* A message of another marks the direct and the group page as read.
ThreadHears(m) ==
    /\ m \in toThread /\ toThread' = toThread \ {m}
    /\ thread' = IF thread.kind = "success" THEN [thread EXCEPT !.shows = @ \cup {m}] ELSE thread
    /\ IF place = "channel" \/ mail[m].mine THEN UNCHANGED mark ELSE MarkRead
    /\ UNCHANGED <<mailVars, barVars, inThread>>
\* The page goes, its call does not; at most one such call is in flight (a bound).
LeaveThread ==
    /\ thread.kind # "closed" /\ mark["left"] = "none"
    /\ thread' = Closed /\ inThread' = FALSE /\ toThread' = {}
    /\ mark' = [mark EXCEPT !["open"] = "none", !["left"] = mark["open"]]
    /\ UNCHANGED <<mailVars, barVars>>

ServeMark(p) ==
    /\ mark[p] = "asked" /\ mark' = [mark EXCEPT ![p] = "served"]
    /\ lastReadAt' = clock
    /\ UNCHANGED <<place, clock, mail, announce, barVars, thread, inThread, toThread>>
MarkFails(p) ==
    /\ mark[p] = "asked" /\ mark' = [mark EXCEPT ![p] = "failed"]
    /\ UNCHANGED <<mailVars, barVars, thread, inThread, toThread>>
\* channel:read clears the badge; direct-conversations:changed and groups:changed
\* have it read again.
MarkTaken(p) ==
    /\ mark[p] = "served" /\ mark' = [mark EXCEPT ![p] = "none"]
    /\ IF place = "channel"
       THEN bar' = [bar EXCEPT !.count = 0] /\ UNCHANGED lists
       ELSE AskList(TRUE)
    /\ UNCHANGED <<mailVars, lineVars, thread, inThread, toThread>>
MarkRefused(p) ==
    /\ mark[p] = "failed" /\ mark' = [mark EXCEPT ![p] = "none"]
    /\ UNCHANGED <<mailVars, barVars, thread, inThread, toThread>>

Thread == \/ OpenThread \/ ServeThread \/ ThreadFails \/ ThreadLoaded \/ ThreadRefused
          \/ JoinThread \/ LeaveThread \/ \E m \in Mails : ThreadHears(m)
          \/ \E p \in Pages : ServeMark(p) \/ MarkFails(p) \/ MarkTaken(p) \/ MarkRefused(p)

-----------------------------------------------------------------------------
UnreadInit ==
    /\ place \in {"channel", "direct", "group"}
    /\ clock = 1
    /\ mail = [m \in Mails |-> [at |-> "none", createdAt |-> 0, mine |-> FALSE,
                                deleted |-> FALSE]]
    /\ announce = {} /\ lastReadAt = 0
    /\ bar = [kind |-> "loading", count |-> 0] /\ lists = <<Read(TRUE)>>
    /\ line = "down" /\ knock = FALSE /\ sought = FALSE /\ inRoom = FALSE /\ toBar = <<>>
    /\ thread = Closed /\ inThread = FALSE /\ toThread = {}
    /\ mark = [p \in Pages |-> "none"]
UnreadNext == Api \/ Sidebar \/ Thread
=============================================================================
