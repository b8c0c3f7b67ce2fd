------------------------------- MODULE Messages -------------------------------
(***************************************************************************)
(* The messages of one conversation as the API keeps them: a channel        *)
(* (messages/), a direct conversation (direct-conversations/) or a group    *)
(* (groups/).  The three services keep the same kinds of rows with the same *)
(* queries; what they do with them differs and is in ChannelMessages,       *)
(* DirectMessages and GroupMessages, which share the state declared here.   *)
(*                                                                         *)
(* A request is a call of a page (module Pages) and belongs to one of the   *)
(* page's slots.  Its handler runs from one await to the next as one step,  *)
(* so the steps of several handlers interleave, and what a handler read     *)
(* before an await may be stale when it writes after it.                    *)
(*                                                                         *)
(* Message ids are random UUIDs: they are compared when timestamps are      *)
(* equal, and a new message may get any unused one.                        *)
(***************************************************************************)
EXTENDS Integers, FiniteSets, Sequences

CONSTANTS
    Users,
    Tabs,       \* open pages of the conversation
    UserOf,     \* tab -> the user who is signed in
    Managers,   \* users who may pin, and delete others' messages, in a channel or group
    Msgs,       \* message ids
    NoMsg,
    Emojis,
    Rids,       \* ids of reaction rows
    Contents,   \* texts a message may have
    Times,      \* values of createdAt
    PageSize,   \* messages per page
    PinLoads,   \* loads of its pins that a page may have in flight (a bound)
    Kinds,      \* which kinds of conversation are looked at
    None,       \* an absent argument, cursor or answer
    Refused,    \* an answer that is not ok
    Faults      \* whether queries may fail

ASSUME MessagesAssumption ==
    /\ UserOf \in [Tabs -> Users] /\ Managers \subseteq Users
    /\ Users # {} /\ Emojis # {} /\ Contents # {} /\ Times # {} /\ Msgs # {}
    /\ Msgs \subseteq Nat /\ IsFiniteSet(Msgs) /\ NoMsg \in Nat \ Msgs
    /\ Rids \subseteq Nat /\ IsFiniteSet(Rids) /\ Times \subseteq Nat \ {0}
    /\ None \notin [createdAt: Times, id: Msgs]
    /\ PageSize \in Nat \ {0}
    /\ Kinds \subseteq {"channel", "direct", "group"}
    /\ Faults \in BOOLEAN
    /\ PinLoads \cap {"user", "page", "older"} = {}

VARIABLES
    kind,       \* what the conversation is
    row,        \* message id -> the message's row
    reaction,   \* reaction id -> the reaction's row
    request,    \* slot -> the call it is used for
    joined,     \* tabs whose socket is in the conversation's room
    stream      \* tab -> the events on their way to its socket, in order

server == <<kind, row, reaction>>

Slots == Tabs \X ({"user", "page", "older"} \cup PinLoads)
Caller(r) == UserOf[r[1]]

MessageRow == [used: BOOLEAN, createdAt: Times, author: Users, content: Contents,
               deleted: BOOLEAN, pinned: BOOLEAN]
ReactionRow == [active: BOOLEAN, used: BOOLEAN, msg: Msgs, user: Users, emoji: Emojis]

\* What is called, how far it is, and what its handler has read and will answer.
IdleCall == [op |-> "none", at |-> "idle", msg |-> NoMsg, arg |-> None,
             found |-> {}, reply |-> None]

-----------------------------------------------------------------------------
(***************************************************************************)
(* Queries                                                                 *)
(***************************************************************************)
Committed == {m \in Msgs : row[m].used}
Live(m) == m \in Msgs /\ row[m].used /\ ~row[m].deleted
Pinned == {m \in Committed : row[m].pinned}

\* The position of a message in its conversation, and the order of positions.
KeyOf(m) == [createdAt |-> row[m].createdAt, id |-> m]
Before(k, l) == \/ k.createdAt < l.createdAt
                \/ k.createdAt = l.createdAt /\ k.id < l.id
Older(m, n) == Before(KeyOf(m), KeyOf(n))

Active(m, u, e) == {i \in Rids : reaction[i].active /\ reaction[i].msg = m
                                 /\ reaction[i].user = u /\ reaction[i].emoji = e}
ByUser(m, u) == UNION {Active(m, u, e) : e \in Emojis}

\* listWithCounts: how often each emoji was given, and whether the asker did.
NoReactions == [e \in Emojis |-> [count |-> 0, mine |-> FALSE]]
Summary(m, u) ==
    [e \in Emojis |-> [count |-> Cardinality(UNION {Active(m, v, e) : v \in Users}),
                       mine |-> Active(m, u, e) # {}]]

\* A message as a response or an event shows it, with the asker's reactions.
Entry(m, reactions) == [id |-> m, author |-> row[m].author, content |-> row[m].content,
                        pinned |-> row[m].pinned, reactions |-> reactions]

\* buildMessageCursorWhereClause
WithinTime(k, cursor) == cursor = None \/ k.createdAt < cursor.createdAt
WithinCursor(k, cursor) == cursor = None \/ Before(k, cursor)

\* The members of a set in the order of a relation.
Arranged(S, R) ==
    [i \in 1..Cardinality(S) |->
        CHOOSE x \in S : Cardinality({y \in S : <<y, x>> \in R}) = i - 1]
\* filter: what a sequence has at the positions I.
KeepAt(s, I) ==
    LET at == Arranged(I, {p \in I \X I : p[1] < p[2]})
    IN [i \in DOMAIN at |-> s[at[i]]]

\* The newest messages before the cursor, oldest first.
Newest(S) == {m \in S : Cardinality({n \in S : Older(m, n)}) < PageSize}
OldestFirst(S) == Arranged(S, {p \in S \X S : Older(p[1], p[2])})
PageOf(cursor) ==
    LET rows == {m \in Msgs : Live(m) /\ WithinCursor(KeyOf(m), cursor)}
    IN [ids |-> OldestFirst(Newest(rows)), hasMore |-> Newest(rows) # rows]
NextCursor(page) == IF page.hasMore THEN KeyOf(page.ids[1]) ELSE None

-----------------------------------------------------------------------------
(***************************************************************************)
(* Updates                                                                 *)
(***************************************************************************)
CreateMessage(m, u, c) ==
    \E t \in Times :
        \* createdAt is when the transaction began: it may lag behind.
        /\ \A n \in Committed : row[n].createdAt <= t + 1
        /\ \A s \in Times : s < t => \E n \in Committed : row[n].createdAt >= s
        /\ row' = [row EXCEPT ![m] = [used |-> TRUE, createdAt |-> t, author |-> u,
                                      content |-> c, deleted |-> FALSE, pinned |-> FALSE]]
UpdateMessage(m, c) == row' = [row EXCEPT ![m].content = c]
SoftDeleteKeepingPin(m) == row' = [row EXCEPT ![m].deleted = TRUE]
SoftDeleteBlanking(m) == row' = [row EXCEPT ![m].deleted = TRUE, ![m].pinned = FALSE,
                                            ![m].content = None]
SoftDeleteMessage(m) == row' = [row EXCEPT ![m].deleted = TRUE, ![m].pinned = FALSE]
PinMessage(m) == row' = [row EXCEPT ![m].pinned = TRUE]
UnpinMessage(m) == row' = [row EXCEPT ![m].pinned = FALSE]

FreshRids == {i \in Rids : ~reaction[i].used}
CreateReaction(m, u, e) ==
    reaction' = [reaction EXCEPT ![CHOOSE i \in FreshRids : \A j \in FreshRids : i <= j] =
                    [active |-> TRUE, used |-> TRUE, msg |-> m, user |-> u, emoji |-> e]]
DropReactions(I) ==
    reaction' = [i \in Rids |-> [reaction[i] EXCEPT !.active = @ /\ i \notin I]]

-----------------------------------------------------------------------------
(***************************************************************************)
(* Requests and broadcasts                                                 *)
(***************************************************************************)
Handling(r, op, at) == request[r].op = op /\ request[r].at = at
Proceed(r, at) == request' = [request EXCEPT ![r].at = at]
Keep(r, at, a) == request' = [request EXCEPT ![r].at = at, ![r].reply = a]
Find(r, at, S) == request' = [request EXCEPT ![r].at = at, ![r].found = S]
Answer(r, a) == request' = [request EXCEPT ![r].at = "answered", ![r].found = {},
                                           ![r].reply = a]
Refuse(r) == Answer(r, Refused)

\* broadcastToRoom: to the sockets in the room now; the sender's is one of them.
Broadcast(e) == stream' = [t \in Tabs |-> IF t \in joined THEN Append(stream[t], e)
                                                          ELSE stream[t]]
Silent == UNCHANGED <<joined, stream>>
Reading == UNCHANGED server /\ Silent

\* A query of a handler fails before the handler is done.
Fault(r) ==
    /\ Faults /\ request[r].at \notin {"idle", "answered"}
    /\ Refuse(r) /\ Reading
=============================================================================
