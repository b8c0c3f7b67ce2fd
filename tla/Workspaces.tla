------------------------------ MODULE Workspaces ------------------------------
(***************************************************************************)
(* workspaces.service.ts: who belongs to the workspace, with which role, and *)
(* who owns it.  One operator per method; its disjuncts are the awaits of   *)
(* the method in their order.                                              *)
(***************************************************************************)
EXTENDS Tenancy

\* Every method but restore begins with findActiveById; a request on an
\* inactive workspace is answered 404 and changes nothing.
AcceptOnActive(r, call) ==
    /\ WorkspaceActive
    /\ Accept(r, call)
    /\ UNCHANGED tables

\* The second await of most methods: the requester's role.
CheckRole(r, op, allowed, next) ==
    /\ At(r, op, "role")
    /\ Check(r, FindMemberRole(request[r].by) \in allowed,
             [request[r] EXCEPT !.at = next])

\* findActiveMemberById, then the method's own condition on the row.
Target(r) == member[request[r].row]

CheckTarget(r, op, allowed, next) ==
    /\ At(r, op, "target")
    /\ Check(r, Live(Target(r)) /\ allowed,
             [request[r] EXCEPT !.at = next, !.whom = Target(r).user])

\* The cascade leaveWorkspace and removeMember share after the membership row.
CascadeChannels(r, op) ==
    /\ At(r, op, "channels")
    /\ SoftDeleteChannelMembersByWorkspaceAndUserId(request[r].whom)
    /\ request' = [request EXCEPT ![r].at = "invites"]
    /\ UNCHANGED <<workspace, member, channel, invite>>

CascadeInvites(r, op) ==
    /\ At(r, op, "invites")
    /\ SoftDeletePendingInvitesByWorkspaceAndEmail(request[r].whom)
    /\ Finish(r)
    /\ UNCHANGED <<workspace, member, channel, channelMember>>

\* `Workspace owner cannot leave'.
MayLeaveAnyRole(role) == role \in Roles
MayLeave(role) == role \in Grantable

LeaveWorkspaceWrite(r) ==
    /\ At(r, "leaveWorkspace", "write")
    /\ LET mine == ActiveMembers(request[r].by) IN
           /\ member' = [m \in Rows |->
                  [member[m] EXCEPT !.deletedAt = @ \/ m \in mine]]
           /\ request' = [request EXCEPT ![r] =
                  IF mine = {} THEN Idle ELSE [@ EXCEPT !.at = "channels"]]
    /\ UNCHANGED <<workspace, channel, channelMember, invite>>

LeaveWorkspace(r) ==
    \/ \E u \in Users : AcceptOnActive(r, [Call("leaveWorkspace", u) EXCEPT !.at = "own"])
    \/ /\ At(r, "leaveWorkspace", "own")
       /\ Check(r, MayLeave(FindMemberRole(request[r].by)),
                [request[r] EXCEPT !.at = "write"])
    \/ LeaveWorkspaceWrite(r)
    \/ CascadeChannels(r, "leaveWorkspace")
    \/ CascadeInvites(r, "leaveWorkspace")

\* The row is updated by its id alone, whatever its role is by then.
UpdateMemberRoleWrite(r) ==
    /\ At(r, "updateMemberRole", "write")
    /\ member' = [member EXCEPT ![request[r].row].role = request[r].role]
    /\ Finish(r)
    /\ UNCHANGED <<workspace, channel, channelMember, invite>>

UpdateMemberRole(r) ==
    \/ \E u \in Users, m \in Inserted(member), role \in Grantable :
           AcceptOnActive(r, [Call("updateMemberRole", u) EXCEPT !.row = m, !.role = role])
    \/ CheckRole(r, "updateMemberRole", {"OWNER"}, "target")
    \/ CheckTarget(r, "updateMemberRole", Target(r).role # "OWNER", "write")
    \/ UpdateMemberRoleWrite(r)

\* What removeMember asks of the row it is to remove.
Removable(row, by, seen) ==
    /\ row.role # "OWNER"
    /\ row.user # by
    /\ seen = "ADMIN" => row.role = "MEMBER"

RemoveMemberWrite(r) ==
    /\ At(r, "removeMember", "write")
    /\ LET m == request[r].row IN
           IF Live(member[m])
           THEN /\ member' = [member EXCEPT ![m].deletedAt = TRUE]
                /\ request' = [request EXCEPT ![r].at = "channels"]
           ELSE Finish(r) /\ UNCHANGED member
    /\ UNCHANGED <<workspace, channel, channelMember, invite>>

RemoveMember(r) ==
    \/ \E u \in Users, m \in Inserted(member) :
           AcceptOnActive(r, [Call("removeMember", u) EXCEPT !.row = m])
    \/ /\ At(r, "removeMember", "role")
       /\ LET role == FindMemberRole(request[r].by) IN
              Check(r, role \in Managers,
                    [request[r] EXCEPT !.at = "target", !.seen = role])
    \/ CheckTarget(r, "removeMember",
                   Removable(Target(r), request[r].by, request[r].seen), "write")
    \/ RemoveMemberWrite(r)
    \/ CascadeChannels(r, "removeMember")
    \/ CascadeInvites(r, "removeMember")

\* The transaction: demote the owner's row, promote the target's, move
\* workspace.ownerId.  Each update is conditional and a count of 0 rolls
\* back all three; the lock on the owner's row keeps it in one piece.
TransferOwnershipTxOfRow(own, target, user) ==
    IF /\ Live(member[own]) /\ member[own].role = "OWNER"
       /\ Live(member[target]) /\ member[target].role \in Grantable
       /\ WorkspaceActive
    THEN /\ member' = [member EXCEPT ![own].role = "ADMIN", ![target].role = "OWNER"]
         /\ workspace' = [workspace EXCEPT !.ownerId = target]
    ELSE UNCHANGED <<member, workspace>>

TransferOwnershipTxUndemoted(own, target, user) ==
    IF Live(member[target]) /\ member[target].role \in Grantable /\ WorkspaceActive
    THEN /\ member' = [member EXCEPT ![target].role = "OWNER"]
         /\ workspace' = [workspace EXCEPT !.ownerId = user]
    ELSE UNCHANGED <<member, workspace>>

TransferOwnershipTxUnmoved(own, target, user) ==
    /\ IF /\ Live(member[own]) /\ member[own].role = "OWNER"
          /\ Live(member[target]) /\ member[target].role \in Grantable
       THEN member' = [member EXCEPT ![own].role = "ADMIN", ![target].role = "OWNER"]
       ELSE UNCHANGED member
    /\ UNCHANGED workspace

TransferOwnershipTxArchived(own, target, user) ==
    IF /\ Live(member[own]) /\ member[own].role = "OWNER"
       /\ Live(member[target]) /\ member[target].role \in Grantable
    THEN /\ member' = [member EXCEPT ![own].role = "ADMIN", ![target].role = "OWNER"]
         /\ workspace' = [workspace EXCEPT !.ownerId = user]
    ELSE UNCHANGED <<member, workspace>>

TransferOwnershipTx(own, target, user) ==
    IF /\ Live(member[own]) /\ member[own].role = "OWNER"
       /\ Live(member[target]) /\ member[target].role \in Grantable
       /\ WorkspaceActive
    THEN /\ member' = [member EXCEPT ![own].role = "ADMIN", ![target].role = "OWNER"]
         /\ workspace' = [workspace EXCEPT !.ownerId = user]
    ELSE UNCHANGED <<member, workspace>>

TransferOwnershipWrite(r) ==
    /\ At(r, "transferOwnership", "write")
    /\ TransferOwnershipTx(request[r].own, request[r].row, request[r].whom)
    /\ Finish(r)
    /\ UNCHANGED <<channel, channelMember, invite>>

TransferOwnership(r) ==
    \/ \E u \in Users, m \in Inserted(member) :
           AcceptOnActive(r, [Call("transferOwnership", u) EXCEPT !.row = m])
    \/ CheckRole(r, "transferOwnership", {"OWNER"}, "target")
    \/ CheckTarget(r, "transferOwnership",
                   Target(r).role # "OWNER" /\ Target(r).user # request[r].by, "own")
    \/ /\ At(r, "transferOwnership", "own")
       /\ LET mine == ActiveMembers(request[r].by) IN
              Check(r, mine # {},
                    [request[r] EXCEPT !.at = "write",
                                       !.own = CHOOSE m \in mine : TRUE])
    \/ TransferOwnershipWrite(r)

AddMemberWrite(r) ==
    /\ At(r, "addMember", "write")
    /\ IF MemberConflict(request[r].whom)
       THEN UNCHANGED member
       ELSE InsertMember(request[r].whom, request[r].role)
    /\ Finish(r)
    /\ UNCHANGED <<workspace, channel, channelMember, invite>>

AddMember(r) ==
    \/ /\ RowsLeft(member)
       /\ \E u, v \in Users, role \in Grantable :
              AcceptOnActive(r, [Call("addMember", u) EXCEPT !.whom = v, !.role = role])
    \/ CheckRole(r, "addMember", Managers, "existing")
    \/ /\ At(r, "addMember", "existing")
       /\ Check(r, ActiveMembers(request[r].whom) = {},
                [request[r] EXCEPT !.at = "write"])
    \/ AddMemberWrite(r)

ArchiveWorkspaceWrite(r) ==
    /\ At(r, "archiveWorkspace", "write")
    /\ workspace' = [workspace EXCEPT !.deletedAt = TRUE]
    /\ Finish(r)
    /\ UNCHANGED <<member, channel, channelMember, invite>>

ArchiveWorkspace(r) ==
    \/ \E u \in Users : AcceptOnActive(r, Call("archiveWorkspace", u))
    \/ CheckRole(r, "archiveWorkspace", {"OWNER"}, "write")
    \/ ArchiveWorkspaceWrite(r)

DeleteWorkspaceWrite(r) ==
    /\ At(r, "deleteWorkspace", "write")
    /\ workspace' = [workspace EXCEPT !.deletedAt = TRUE,
                                      !.permanentlyDeletedAt = TRUE]
    /\ Finish(r)
    /\ UNCHANGED <<member, channel, channelMember, invite>>

DeleteWorkspace(r) ==
    \/ \E u \in Users : AcceptOnActive(r, Call("deleteWorkspace", u))
    \/ CheckRole(r, "deleteWorkspace", {"OWNER"}, "write")
    \/ DeleteWorkspaceWrite(r)

\* findByIdIncludingArchived also returns a deleted workspace; the update is
\* conditional on the workspace being archived and not deleted.
RestoreWorkspaceWrite(r) ==
    /\ At(r, "restoreWorkspace", "write")
    /\ workspace' = IF workspace.permanentlyDeletedAt THEN workspace
                    ELSE [workspace EXCEPT !.deletedAt = FALSE]
    /\ Finish(r)
    /\ UNCHANGED <<member, channel, channelMember, invite>>

RestoreWorkspace(r) ==
    \/ \E u \in Users :
           /\ workspace.ownerId = u
           /\ workspace.deletedAt
           /\ Accept(r, [Call("restoreWorkspace", u) EXCEPT !.at = "write"])
           /\ UNCHANGED tables
    \/ RestoreWorkspaceWrite(r)

\* Any other call on an inactive workspace is answered 404.
WorkspaceNotFound(r) ==
    /\ request[r] = Idle
    /\ ~WorkspaceActive
    /\ UNCHANGED vars

WorkspaceMethod(r) ==
    \/ WorkspaceNotFound(r) \/ LeaveWorkspace(r) \/ UpdateMemberRole(r) \/ RemoveMember(r)
    \/ TransferOwnership(r) \/ AddMember(r)
    \/ ArchiveWorkspace(r) \/ DeleteWorkspace(r) \/ RestoreWorkspace(r)
=============================================================================
