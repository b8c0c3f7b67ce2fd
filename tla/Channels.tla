------------------------------- MODULE Channels -------------------------------
(***************************************************************************)
(* channels.service.ts and channel-invites.service.ts: the channels of the  *)
(* workspace, their explicit members and the invitations to join them.      *)
(***************************************************************************)
EXTENDS Tenancy

\* Most channel methods begin with the requester's workspace role; they do
\* not ask whether the workspace is archived.
AcceptFromMember(r, call) ==
    /\ FindMemberRole(call.by) # None
    /\ Accept(r, call)
    /\ UNCHANGED tables

CheckChannel(r, op, found, next) ==
    /\ At(r, op, "channel")
    /\ Check(r, found, [request[r] EXCEPT !.at = next])

CheckChannelRole(r, op, allowed, next) ==
    /\ At(r, op, "chRole")
    /\ Check(r, FindChannelMemberRole(request[r].ch, request[r].by) \in allowed,
             [request[r] EXCEPT !.at = next])

CheckWorkspaceMember(r, op, next) ==
    /\ At(r, op, "wsMember")
    /\ Check(r, FindMemberRole(request[r].whom) # None,
             [request[r] EXCEPT !.at = next])

CheckNotChannelMember(r, op, next) ==
    /\ At(r, op, "existing")
    /\ Check(r, ActiveChannelMembers(request[r].ch, request[r].whom) = {},
             [request[r] EXCEPT !.at = next])

\* An ADMIN of the channel may neither add nor invite another ADMIN.
Granters(role) == IF role = "ADMIN" THEN {"OWNER"} ELSE Managers

\* findBySlug overlooks archived and deleted channels, the unique index on
\* (workspace, slug) does not: either way the caller gets 409.
SlugTaken(c) == channel[c].used

CreateChannelWrite(r) ==
    /\ At(r, "createChannel", "write")
    /\ LET c == request[r].ch IN
           IF SlugTaken(c)
           THEN UNCHANGED <<channel, channelMember>>
           ELSE /\ channel' = [channel EXCEPT ![c].used = TRUE]
                /\ InsertChannelMember(c, request[r].by, "OWNER")
    /\ Finish(r)
    /\ UNCHANGED <<workspace, member, invite>>

CreateChannel(r) ==
    \/ /\ RowsLeft(channelMember)
       /\ \E u \in Users, c \in Channels :
              AcceptFromMember(r, [Call("createChannel", u) EXCEPT !.ch = c, !.at = "channel"])
    \/ CheckChannel(r, "createChannel", ~FindActiveChannel(request[r].ch), "write")
    \/ CreateChannelWrite(r)

AddChannelMemberWrite(r) ==
    /\ At(r, "addChannelMember", "write")
    /\ LET q == request[r] IN
           IF ChannelMemberConflict(q.ch, q.whom)
           THEN UNCHANGED channelMember
           ELSE InsertChannelMember(q.ch, q.whom, q.role)
    /\ Finish(r)
    /\ UNCHANGED <<workspace, member, channel, invite>>

AddChannelMember(r) ==
    \/ /\ RowsLeft(channelMember)
       /\ \E u, v \in Users, c \in Channels, role \in Grantable :
              AcceptFromMember(r, [Call("addChannelMember", u) EXCEPT
                                   !.ch = c, !.whom = v, !.role = role, !.at = "channel"])
    \/ CheckChannel(r, "addChannelMember", FindActiveChannel(request[r].ch), "chRole")
    \/ CheckChannelRole(r, "addChannelMember", Granters(request[r].role), "wsMember")
    \/ CheckWorkspaceMember(r, "addChannelMember", "existing")
    \/ CheckNotChannelMember(r, "addChannelMember", "write")
    \/ AddChannelMemberWrite(r)

\* softDeleteChannelMember: by row id, if the row is still active.
SoftDeleteChannelMember(m) ==
    channelMember' = [channelMember EXCEPT ![m].deletedAt = channelMember[m].used]

\* findActiveChannelMemberById: the row belongs to the channel and is active.
TargetRow(r) == channelMember[request[r].row]
IsTarget(r) == Live(TargetRow(r)) /\ TargetRow(r).channel = request[r].ch

RemoveChannelMemberWrite(r) ==
    /\ At(r, "removeChannelMember", "write")
    /\ SoftDeleteChannelMember(request[r].row)
    /\ Finish(r)
    /\ UNCHANGED <<workspace, member, channel, invite>>

RemoveChannelMember(r) ==
    \/ \E u \in Users, c \in Channels, m \in Inserted(channelMember) :
           AcceptFromMember(r, [Call("removeChannelMember", u) EXCEPT
                                !.ch = c, !.row = m, !.at = "channel"])
    \/ CheckChannel(r, "removeChannelMember", FindActiveChannel(request[r].ch), "chRole")
    \/ /\ At(r, "removeChannelMember", "chRole")
       /\ LET role == FindChannelMemberRole(request[r].ch, request[r].by) IN
              Check(r, role \in Managers,
                    [request[r] EXCEPT !.at = "target", !.seen = role])
    \/ /\ At(r, "removeChannelMember", "target")
       /\ Check(r, /\ IsTarget(r)
                   /\ TargetRow(r).role # "OWNER"
                   /\ request[r].seen = "ADMIN" => TargetRow(r).role = "MEMBER",
                [request[r] EXCEPT !.at = "write"])
    \/ RemoveChannelMemberWrite(r)

LeaveChannelWrite(r) ==
    /\ At(r, "leaveChannel", "write")
    /\ SoftDeleteChannelMember(request[r].row)
    /\ Finish(r)
    /\ UNCHANGED <<workspace, member, channel, invite>>

LeaveChannel(r) ==
    \/ \E u \in Users, c \in Channels :
           AcceptFromMember(r, [Call("leaveChannel", u) EXCEPT !.ch = c, !.at = "channel"])
    \/ CheckChannel(r, "leaveChannel", FindActiveChannel(request[r].ch), "own")
    \/ /\ At(r, "leaveChannel", "own")
       /\ LET mine == ActiveChannelMembers(request[r].ch, request[r].by)
              m == CHOOSE i \in mine : TRUE
          IN  Check(r, mine # {} /\ channelMember[m].role # "OWNER",
                    [request[r] EXCEPT !.at = "write", !.row = m])
    \/ LeaveChannelWrite(r)

ArchiveChannelWrite(r) ==
    /\ At(r, "archiveChannel", "write")
    /\ channel' = [channel EXCEPT ![request[r].ch].deletedAt = TRUE]
    /\ Finish(r)
    /\ UNCHANGED <<workspace, member, channelMember, invite>>

ArchiveChannel(r) ==
    \/ \E u \in Users, c \in Channels :
           AcceptFromMember(r, [Call("archiveChannel", u) EXCEPT !.ch = c, !.at = "channel"])
    \/ CheckChannel(r, "archiveChannel", FindActiveChannel(request[r].ch), "chRole")
    \/ CheckChannelRole(r, "archiveChannel", {"OWNER"}, "write")
    \/ ArchiveChannelWrite(r)

\* Deleting asks for the WORKSPACE owner and for no role in the channel.
DeleteChannelWrite(r) ==
    /\ At(r, "deleteChannel", "write")
    /\ channel' = [channel EXCEPT ![request[r].ch].deletedAt = TRUE,
                                  ![request[r].ch].permanentlyDeletedAt = TRUE]
    /\ Finish(r)
    /\ UNCHANGED <<workspace, member, channelMember, invite>>

DeleteChannel(r) ==
    \/ \E u \in Users, c \in Channels :
           /\ FindMemberRole(u) = "OWNER"
           /\ AcceptFromMember(r, [Call("deleteChannel", u) EXCEPT !.ch = c, !.at = "channel"])
    \/ CheckChannel(r, "deleteChannel", FindChannelIncludingArchived(request[r].ch), "write")
    \/ DeleteChannelWrite(r)

\* `Channel is not archived' is decided on the row read before the role, and
\* the update clears deletedAt by the channel's id alone.
RestoreChannelWrite(r) ==
    /\ At(r, "restoreChannel", "write")
    /\ channel' = [channel EXCEPT ![request[r].ch].deletedAt = FALSE]
    /\ Finish(r)
    /\ UNCHANGED <<workspace, member, channelMember, invite>>

RestoreChannel(r) ==
    \/ \E u \in Users, c \in Channels :
           AcceptFromMember(r, [Call("restoreChannel", u) EXCEPT !.ch = c, !.at = "channel"])
    \/ CheckChannel(r, "restoreChannel",
                    /\ FindChannelIncludingArchived(request[r].ch)
                    /\ channel[request[r].ch].deletedAt, "chRole")
    \/ CheckChannelRole(r, "restoreChannel", {"OWNER"}, "write")
    \/ RestoreChannelWrite(r)

(***************************************************************************)
(* Invitations to a channel.                                               *)
(***************************************************************************)
CreateInviteWrite(r) ==
    /\ At(r, "createInvite", "write")
    /\ UnusedRows(invite) # {}
    /\ invite' = [invite EXCEPT ![FreshRow(invite)] =
           [used |-> TRUE, channel |-> request[r].ch, email |-> request[r].whom,
            role |-> request[r].role, deletedAt |-> FALSE, usedById |-> FALSE,
            expired |-> FALSE]]
    /\ Finish(r)
    /\ UNCHANGED <<workspace, member, channel, channelMember>>

CreateInvite(r) ==
    \/ /\ RowsLeft(invite)
       /\ WorkspaceActive
       /\ \E u, v \in Users, c \in Channels, role \in Grantable :
              Accept(r, [Call("createInvite", u) EXCEPT
                         !.ch = c, !.whom = v, !.role = role])
       /\ UNCHANGED tables
    \/ /\ At(r, "createInvite", "role")
       /\ Check(r, FindMemberRole(request[r].by) # None,
                [request[r] EXCEPT !.at = "channel"])
    \/ CheckChannel(r, "createInvite", FindActiveChannel(request[r].ch), "chRole")
    \/ CheckChannelRole(r, "createInvite", Granters(request[r].role), "wsMember")
    \/ CheckWorkspaceMember(r, "createInvite", "existing")
    \/ CheckNotChannelMember(r, "createInvite", "pending")
    \/ /\ At(r, "createInvite", "pending")
       /\ Check(r, \A i \in Rows : ~(/\ Open(invite[i])
                                     /\ invite[i].channel = request[r].ch
                                     /\ invite[i].email = request[r].whom),
                [request[r] EXCEPT !.at = "write"])
    \/ CreateInviteWrite(r)

\* findPendingById and the checks on the invitation acceptById and decline share.
AcceptOnInvite(r, op, at) ==
    \E i \in Rows :
        /\ Open(invite[i])
        /\ Accept(r, [Call(op, invite[i].email) EXCEPT
                      !.row = i, !.ch = invite[i].channel, !.role = invite[i].role, !.at = at])
        /\ UNCHANGED tables

\* The transaction: mark the invitation used if it is still pending, insert
\* the member; a conflict on the member rolls the mark back.
AcceptInviteTxKeptMark(i, c, u, role) ==
    IF Pending(invite[i])
    THEN /\ invite' = [invite EXCEPT ![i].usedById = TRUE]
         /\ IF ChannelMemberConflict(c, u) THEN UNCHANGED channelMember
            ELSE InsertChannelMember(c, u, role)
    ELSE UNCHANGED <<invite, channelMember>>

AcceptInviteTxUnchecked(i, c, u, role) ==
    IF ~ChannelMemberConflict(c, u)
    THEN /\ invite' = [invite EXCEPT ![i].usedById = TRUE]
         /\ InsertChannelMember(c, u, role)
    ELSE UNCHANGED <<invite, channelMember>>

AcceptInviteTx(i, c, u, role) ==
    IF Pending(invite[i]) /\ ~ChannelMemberConflict(c, u)
    THEN /\ invite' = [invite EXCEPT ![i].usedById = TRUE]
         /\ InsertChannelMember(c, u, role)
    ELSE UNCHANGED <<invite, channelMember>>

AcceptInviteWrite(r) ==
    /\ At(r, "acceptInvite", "write")
    /\ AcceptInviteTx(request[r].row, request[r].ch, request[r].by, request[r].role)
    /\ Finish(r)
    /\ UNCHANGED <<workspace, member, channel>>

AcceptInvite(r) ==
    \/ RowsLeft(channelMember) /\ AcceptOnInvite(r, "acceptInvite", "workspace")
    \/ /\ At(r, "acceptInvite", "workspace")
       /\ Check(r, WorkspaceActive, [request[r] EXCEPT !.at = "wsMember"])
    \/ CheckWorkspaceMember(r, "acceptInvite", "channel")
    \/ CheckChannel(r, "acceptInvite", FindActiveChannel(request[r].ch), "existing")
    \/ CheckNotChannelMember(r, "acceptInvite", "write")
    \/ AcceptInviteWrite(r)

DeclineInviteWrite(r) ==
    /\ At(r, "declineInvite", "write")
    /\ invite' = [invite EXCEPT ![request[r].row].deletedAt = @ \/ Pending(invite[request[r].row])]
    /\ Finish(r)
    /\ UNCHANGED <<workspace, member, channel, channelMember>>

DeclineInvite(r) ==
    \/ AcceptOnInvite(r, "declineInvite", "write")
    \/ DeclineInviteWrite(r)

\* Seven days pass: no query is involved, the row merely stops being open.
InviteExpires(i) ==
    /\ Open(invite[i])
    /\ invite' = [invite EXCEPT ![i].expired = TRUE]
    /\ UNCHANGED <<workspace, member, channel, channelMember, request>>

ChannelMethod(r) ==
    \/ CreateChannel(r) \/ AddChannelMember(r) \/ RemoveChannelMember(r)
    \/ LeaveChannel(r) \/ ArchiveChannel(r) \/ DeleteChannel(r)
    \/ RestoreChannel(r) \/ CreateInvite(r) \/ AcceptInvite(r) \/ DeclineInvite(r)
=============================================================================
