------------------------------- MODULE Tenancy -------------------------------
(***************************************************************************)
(* The tenancy tables of the API's database -- one workspace, its members,  *)
(* its channels, their members and their invitations -- and the repository  *)
(* queries the services run against them.                                   *)
(*                                                                         *)
(* A service method awaits its queries one after the other, PostgreSQL runs *)
(* at READ COMMITTED and no method opens a transaction around its checks,   *)
(* so the requests in flight interleave between any two awaits.  Here every *)
(* await is one step, and `request' holds what each method has read so far. *)
(*                                                                         *)
(* A slug is unique in a workspace whatever became of its channel (the      *)
(* index covers archived and deleted rows), so a channel IS its slug.       *)
(***************************************************************************)
EXTENDS Naturals, FiniteSets

CONSTANTS
    Users,       \* the registered users
    Founder,     \* the user who created the workspace
    Joined,      \* users who have joined since, each as MEMBER
    Channels,    \* the channel slugs clients ask for
    Rows,        \* the ids a membership or invitation row may get (a bound)
    RowOf,       \* the ids of the membership rows of these users
    NoRow,       \* no row id
    Requests,    \* the slots of concurrently served requests (a bound)
    Ops,         \* the operations clients call in this instance
    Faults       \* whether an awaited query may reject (lost connection, crash)

AllOps == {"leaveWorkspace", "updateMemberRole", "removeMember",
           "transferOwnership", "addMember", "archiveWorkspace",
           "deleteWorkspace", "restoreWorkspace",
           "createChannel", "addChannelMember", "removeChannelMember",
           "leaveChannel", "archiveChannel", "deleteChannel",
           "restoreChannel", "createInvite", "acceptInvite", "declineInvite"}

ASSUME TenancyAssumption ==
    /\ Founder \in Users
    /\ Joined \subseteq Users \ {Founder}
    /\ RowOf \in [Joined \cup {Founder} -> Rows]
    /\ \A u, v \in Joined \cup {Founder} : RowOf[u] = RowOf[v] => u = v
    /\ NoRow \notin Rows
    /\ Channels # {} /\ IsFiniteSet(Requests)
    /\ Ops \subseteq AllOps
    /\ Faults \in BOOLEAN

Roles == {"OWNER", "ADMIN", "MEMBER"}
Managers == {"OWNER", "ADMIN"}
Grantable == {"ADMIN", "MEMBER"}
None == "NONE"

VARIABLES
    workspace,      \* the Workspace row
    member,         \* WorkspaceMember: row id -> row
    channel,        \* Channel: slug -> row
    channelMember,  \* ChannelMember: row id -> row
    invite,         \* ChannelInvitation: row id -> row
    request         \* slot -> the method being served and what it has read

tables == <<workspace, member, channel, channelMember, invite>>
vars == <<tables, request>>

(***************************************************************************)
(* Rows.  `used' records whether the id was inserted, `deletedAt' whether    *)
(* the soft-delete column is set.                                          *)
(***************************************************************************)
MemberRow == [used: BOOLEAN, user: Users, role: Roles, deletedAt: BOOLEAN]
ChannelRow == [used: BOOLEAN, deletedAt: BOOLEAN, permanentlyDeletedAt: BOOLEAN]
ChannelMemberRow == [used: BOOLEAN, channel: Channels, user: Users,
                     role: Roles, deletedAt: BOOLEAN]
InviteRow == [used: BOOLEAN, channel: Channels, email: Users,
              role: Grantable, deletedAt: BOOLEAN, usedById: BOOLEAN,
              expired: BOOLEAN]

Live(row) == row.used /\ ~row.deletedAt
Pending(row) == Live(row) /\ ~row.usedById
Open(row) == Pending(row) /\ ~row.expired

(***************************************************************************)
(* Repository queries.                                                     *)
(***************************************************************************)
WorkspaceActive == ~workspace.deletedAt /\ ~workspace.permanentlyDeletedAt

ActiveMembers(u) == {m \in Rows : Live(member[m]) /\ member[m].user = u}

FindMemberRole(u) ==
    IF ActiveMembers(u) = {} THEN None
    ELSE member[CHOOSE m \in ActiveMembers(u) : TRUE].role

ActiveChannelMembers(c, u) ==
    {m \in Rows : /\ Live(channelMember[m])
                  /\ channelMember[m].channel = c
                  /\ channelMember[m].user = u}

FindChannelMemberRole(c, u) ==
    IF ActiveChannelMembers(c, u) = {} THEN None
    ELSE channelMember[CHOOSE m \in ActiveChannelMembers(c, u) : TRUE].role

FindChannelIncludingArchived(c) ==
    /\ channel[c].used
    /\ ~channel[c].permanentlyDeletedAt
    /\ ~workspace.permanentlyDeletedAt

FindActiveChannel(c) == FindChannelIncludingArchived(c) /\ ~channel[c].deletedAt

\* The partial unique indexes on active (workspace, user) and (channel, user).
MemberConflict(u) == ActiveMembers(u) # {}
ChannelMemberConflict(c, u) == ActiveChannelMembers(c, u) # {}

\* Ids are fresh uuids; which of the unused ones a row gets does not matter.
Inserted(table) == {i \in Rows : table[i].used}
UnusedRows(table) == Rows \ Inserted(table)

FreshRow(table) == CHOOSE i \in UnusedRows(table) : TRUE

InsertMember(u, role) ==
    /\ UnusedRows(member) # {}
    /\ member' = [member EXCEPT ![FreshRow(member)] =
           [used |-> TRUE, user |-> u, role |-> role, deletedAt |-> FALSE]]

InsertChannelMember(c, u, role) ==
    /\ UnusedRows(channelMember) # {}
    /\ channelMember' = [channelMember EXCEPT ![FreshRow(channelMember)] =
           [used |-> TRUE, channel |-> c, user |-> u, role |-> role,
            deletedAt |-> FALSE]]

\* Rows of channels that are neither archived nor deleted: an archived
\* channel keeps its members.
SoftDeleteChannelMembersByWorkspaceAndUserId(u) ==
    channelMember' = [m \in Rows |->
        IF /\ channelMember[m].user = u
           /\ ~channel[channelMember[m].channel].deletedAt
           /\ ~channel[channelMember[m].channel].permanentlyDeletedAt
        THEN [channelMember[m] EXCEPT !.deletedAt = channelMember[m].used]
        ELSE channelMember[m]]

SoftDeletePendingInvitesForgotten(u) == invite' = invite
SoftDeletePendingInvitesByWorkspaceAndEmail(u) ==
    invite' = [i \in Rows |->
        IF Pending(invite[i]) /\ invite[i].email = u
        THEN [invite[i] EXCEPT !.deletedAt = TRUE]
        ELSE invite[i]]

(***************************************************************************)
(* The request machinery.  An idle slot accepts a call; the first query of  *)
(* the method runs in the step that accepts it, every later one in a step   *)
(* of its own.  A failed check throws: the slot is idle again and the       *)
(* tables are as the method left them.                                     *)
(***************************************************************************)
Steps == {"role", "target", "own", "write", "channels", "invites", "channel",
          "chRole", "wsMember", "existing", "pending", "workspace"}

Request == [op: AllOps, at: Steps, by: Users, whom: Users, row: Rows \cup {NoRow},
            ch: Channels, role: Grantable, seen: Roles \cup {None},
            own: Rows \cup {NoRow}]

AnyChannel == CHOOSE c \in Channels : TRUE

Idle == [op |-> "idle"]

Call(op, by) ==
    [op |-> op, at |-> "role", by |-> by, whom |-> by, row |-> NoRow,
     ch |-> AnyChannel, role |-> "MEMBER", seen |-> None, own |-> NoRow]

At(r, op, at) == request[r] # Idle /\ request[r].op = op /\ request[r].at = at

Accept(r, call) ==
    /\ request[r] = Idle
    /\ call.op \in Ops
    /\ request' = [request EXCEPT ![r] = call]

Finish(r) == request' = [request EXCEPT ![r] = Idle]

\* A check on what was just read: go on at the next await, or throw.
Check(r, ok, then) ==
    /\ request' = [request EXCEPT ![r] = IF ok THEN then ELSE Idle]
    /\ UNCHANGED tables

Inserting == {"addMember", "createChannel", "addChannelMember", "createInvite",
              "acceptInvite"}

\* The bound on inserted rows: a method that inserts is accepted only while
\* every such method in flight can still get an id of its own.
RowsLeft(table) ==
    Cardinality({r \in Requests : request[r] # Idle /\ request[r].op \in Inserting})
        < Cardinality(UnusedRows(table))

\* A query rejects, or the process dies: what was written stays written.
Fault(r) ==
    /\ Faults
    /\ request[r] # Idle
    /\ Finish(r)
    /\ UNCHANGED tables

\* createWorkspaceWithOwner has run, and addMember for those who joined.
Init ==
    /\ workspace = [deletedAt |-> FALSE, permanentlyDeletedAt |-> FALSE,
                    ownerId |-> Founder]
    /\ member = [m \in Rows |->
           [used |-> \E u \in Joined \cup {Founder} : m = RowOf[u],
            user |-> IF \E u \in Joined : m = RowOf[u]
                     THEN CHOOSE u \in Joined : m = RowOf[u] ELSE Founder,
            role |-> IF m = RowOf[Founder] THEN "OWNER" ELSE "MEMBER",
            deletedAt |-> FALSE]]
    /\ channel = [c \in Channels |->
           [used |-> FALSE, deletedAt |-> FALSE, permanentlyDeletedAt |-> FALSE]]
    /\ channelMember = [m \in Rows |->
           [used |-> FALSE, channel |-> AnyChannel, user |-> Founder,
            role |-> "MEMBER", deletedAt |-> FALSE]]
    /\ invite = [i \in Rows |->
           [used |-> FALSE, channel |-> AnyChannel, email |-> Founder,
            role |-> "MEMBER", deletedAt |-> FALSE, usedById |-> FALSE,
            expired |-> FALSE]]
    /\ request = [r \in Requests |-> Idle]

TypeOK ==
    /\ workspace \in [deletedAt: BOOLEAN, permanentlyDeletedAt: BOOLEAN,
                      ownerId: Users]
    /\ member \in [Rows -> MemberRow]
    /\ channel \in [Channels -> ChannelRow]
    /\ channelMember \in [Rows -> ChannelMemberRow]
    /\ invite \in [Rows -> InviteRow]
    /\ request \in [Requests -> Request \cup {Idle}]
=============================================================================
