-------------------------------- MODULE Groups --------------------------------
(***************************************************************************)
(* groups.service.ts and group-invites.service.ts for one group: who is in  *)
(* it, who owns it, and the links by which one joins.  Names and messages   *)
(* are left out.                                                           *)
(***************************************************************************)
EXTENDS Social

GroupOwners == {u \in Users : groupMember[u] = "OWNER"}
GroupFound == group = "active"

\* create: the creator and at least one other, at once.  Blocks are not asked.
CreateGroup(r) ==
    /\ AtOnce(r) /\ group = "none"
    /\ group' = "active"
    /\ \E u \in Users, others \in (SUBSET Users) \ {{}} :
           /\ u \notin others
           /\ groupMember' = [v \in Users |-> IF v = u THEN "OWNER"
                                              ELSE IF v \in others THEN "MEMBER" ELSE NoRole]
    /\ UNCHANGED <<people, acquaintances, link>>

\* requireOwner, with which the owner's methods begin.
CalledByOwner(r, op, at) ==
    /\ \E u \in GroupOwners, whom \in Users : Accepted(r, Call(op, at, u, whom))
    /\ UNCHANGED tables

CheckGroupArchivedToo(r, op, at) == At(r, op, "group") /\ Check(r, group # "none", at)
CheckGroup(r, op, at) == At(r, op, "group") /\ Check(r, GroupFound, at)

\* addMember of the repository: an upsert that makes a MEMBER of whoever it is.
AddMember(u) == groupMember' = [groupMember EXCEPT ![u] = "MEMBER"]
RemoveMember(u) == groupMember' = [groupMember EXCEPT ![u] = NoRole]

AddGroupMemberBlock(r) ==
    /\ At(r, "addMember", "block")
    /\ Check(r, ~HasBlockInEitherDirection(request[r].by, request[r].whom), "write")

AddGroupMemberWrite(r) ==
    /\ At(r, "addMember", "write")
    /\ AddMember(request[r].whom)
    /\ Finish(r)
    /\ UNCHANGED <<people, acquaintances, group, link>>

AddGroupMember(r) ==
    \/ CalledByOwner(r, "addMember", "group") \/ CheckGroup(r, "addMember", "block")
    \/ AddGroupMemberBlock(r) \/ AddGroupMemberWrite(r)

RemoveGroupMemberTarget(r) ==
    /\ At(r, "removeMember", "target")
    /\ Check(r, groupMember[request[r].whom] # NoRole, "write")

LeftGroup(r, op) ==
    /\ At(r, op, "write")
    /\ RemoveMember(request[r].whom)
    /\ Finish(r)
    /\ UNCHANGED <<people, acquaintances, group, link>>

RemoveGroupMember(r) ==
    \/ CalledByOwner(r, "removeMember", "group") /\ request'[r].by # request'[r].whom
    \/ CheckGroup(r, "removeMember", "target")
    \/ RemoveGroupMemberTarget(r) \/ LeftGroup(r, "removeMember")

\* An archived group can be left, too.
LeaveGroupCalled(r) ==
    /\ \E u \in Users :
           /\ groupMember[u] # NoRole
           /\ Accepted(r, Call("leave", IF groupMember[u] = "OWNER" THEN "count" ELSE "write",
                               u, u))
    /\ UNCHANGED tables

SeveralOwners == Cardinality(GroupOwners) > 1
LeaveGroupCount(r) ==
    /\ At(r, "leave", "count")
    /\ Check(r, SeveralOwners, "write")

LeaveGroup(r) == LeaveGroupCalled(r) \/ LeaveGroupCount(r) \/ LeftGroup(r, "leave")

ArchiveGroupWrite(r) ==
    /\ At(r, "archive", "write")
    /\ group' = "archived"
    /\ Finish(r)
    /\ UNCHANGED <<people, acquaintances, groupMember, link>>

ArchiveGroup(r) == CalledByOwner(r, "archive", "write") \/ ArchiveGroupWrite(r)

-----------------------------------------------------------------------------
(***************************************************************************)
(* group-invites.service.ts                                                *)
(***************************************************************************)
Unissued == {l \in Links : ~link[l].used}
ValidUncounted(l) == link[l].used /\ ~link[l].revoked /\ ~link[l].expired
Valid(l) == /\ link[l].used /\ ~link[l].revoked /\ ~link[l].expired
            /\ link[l].useCount < link[l].maxUses

\* The bound on links: a create is accepted while each in flight can insert.
LinksLeft == Cardinality({r \in Requests : request[r] # Idle /\ request[r].op = "createInvite"})
             < Cardinality(Unissued)

CreateInviteInsert(r) ==
    /\ At(r, "createInvite", "write")
    /\ \E max \in MaxUses :
           link' = [link EXCEPT ![CHOOSE l \in Unissued : TRUE] =
                       [@ EXCEPT !.used = TRUE, !.maxUses = max]]
    /\ Finish(r)
    /\ UNCHANGED <<people, acquaintances, group, groupMember>>

CreateInvite(r) ==
    \/ LinksLeft /\ CalledByOwner(r, "createInvite", "group")
    \/ CheckGroup(r, "createInvite", "write") \/ CreateInviteInsert(r)

RevokeInviteCalled(r) ==
    /\ \E u \in GroupOwners, l \in Links \ Unissued :
           Accepted(r, [Call("revokeInvite", "write", u, u) EXCEPT !.link = l])
    /\ UNCHANGED tables

RevokeInviteWrite(r) ==
    /\ At(r, "revokeInvite", "write")
    /\ link' = [link EXCEPT ![request[r].link].revoked = TRUE]
    /\ Finish(r)
    /\ UNCHANGED <<people, acquaintances, group, groupMember>>

\* accept: the link is checked when it is read, and never again.
AcceptInviteCalled(r) ==
    /\ \E u \in Users, l \in Links :
           Valid(l) /\ Accepted(r, [Call("acceptInvite", "group", u, u) EXCEPT !.link = l])
    /\ UNCHANGED tables

AcceptInviteMemberForgotten(r) ==
    /\ At(r, "acceptInvite", "member")
    /\ Check(r, TRUE, "write")
AcceptInviteMember(r) ==
    /\ At(r, "acceptInvite", "member")
    /\ Check(r, groupMember[request[r].by] = NoRole, "write")

AcceptInviteWrite(r) ==
    /\ At(r, "acceptInvite", "write")
    /\ AddMember(request[r].by)
    /\ MoveOn(r, "increment")
    /\ UNCHANGED <<people, acquaintances, group, link>>

AcceptInviteIncrement(r) ==
    /\ At(r, "acceptInvite", "increment")
    /\ link' = [link EXCEPT ![request[r].link].useCount = @ + 1]
    /\ Finish(r)
    /\ UNCHANGED <<people, acquaintances, group, groupMember>>

AcceptInvite(r) ==
    \/ AcceptInviteCalled(r) \/ CheckGroup(r, "acceptInvite", "member")
    \/ AcceptInviteMember(r) \/ AcceptInviteWrite(r) \/ AcceptInviteIncrement(r)

LinkExpires(l) ==
    /\ link[l].used /\ ~link[l].expired
    /\ link' = [link EXCEPT ![l].expired = TRUE]
    /\ UNCHANGED <<people, acquaintances, group, groupMember, request>>

GroupsMethod(r) ==
    \/ CreateGroup(r) \/ AddGroupMember(r) \/ RemoveGroupMember(r) \/ LeaveGroup(r)
    \/ ArchiveGroup(r)
    \/ CreateInvite(r) \/ RevokeInviteCalled(r) \/ RevokeInviteWrite(r) \/ AcceptInvite(r)
=============================================================================
