------------------------------ MODULE Memberships ------------------------------
(***************************************************************************)
(* Workspaces and Channels over the same tables: every method of both       *)
(* services may be in flight at once, in as many requests as there are      *)
(* slots.                                                                  *)
(***************************************************************************)
EXTENDS Workspaces, Channels

Next ==
    \/ \E r \in Requests : WorkspaceMethod(r) \/ ChannelMethod(r) \/ Fault(r)
    \/ \E i \in Rows : InviteExpires(i)

Spec == Init /\ [][Next]_vars

-----------------------------------------------------------------------------
Owners == {m \in Rows : Live(member[m]) /\ member[m].role = "OWNER"}
Quiescent == \A r \in Requests : request[r] = Idle

\* Whatever interleaves, no two members are OWNER at once, and the OWNER is
\* the user workspace.ownerId names: transferOwnership writes both rows and
\* the workspace in one conditional transaction, and nothing else makes an
\* OWNER.
SoundOwnership ==
    /\ \A m, n \in Owners : m = n
    /\ \A m \in Owners : member[m].user = workspace.ownerId

\* The workspace has an OWNER at all times (docs/permissions.md, Last Admin
\* Protection: "A workspace must retain at least one OWNER").
AlwaysOwned == Owners # {}

\* A user is a member once, and a member of a channel once, although every
\* method that inserts checks first and inserts an await later.
OneMembershipPerUser ==
    /\ \A m, n \in Rows : Live(member[m]) /\ Live(member[n])
                             /\ member[m].user = member[n].user => m = n
    /\ \A m, n \in Rows : Live(channelMember[m]) /\ Live(channelMember[n])
                             /\ channelMember[m].user = channelMember[n].user
                             /\ channelMember[m].channel = channelMember[n].channel => m = n

\* A channel never gets a second explicit OWNER: only createChannel writes
\* one, and of two racing creations of a slug one is refused.
OneChannelOwner ==
    \A m, n \in Inserted(channelMember) :
        channelMember[m].role = "OWNER" /\ channelMember[n].role = "OWNER"
        /\ channelMember[m].channel = channelMember[n].channel => m = n

\* An invitation ends in one way only: used, or withdrawn (declined, or
\* removed when the invitee left the workspace) -- never both, however accept,
\* decline and the cascade of a leave race.
InviteSettledOnce == \A i \in Rows : ~(invite[i].usedById /\ invite[i].deletedAt)

\* OWNER passes from hand to hand: a row becomes OWNER only in the step in
\* which the row that was OWNER becomes ADMIN and ownerId moves along.
HandOver ==
    \A m \in Owners' \ Owners :
        /\ \E n \in Owners : member'[n].role = "ADMIN" /\ ~member'[n].deletedAt
        /\ workspace'.ownerId = member[m].user
OwnershipHandedOver == [][HandOver]_vars

\* Ownership of an archived workspace stands still, also for a transfer that
\* passed its checks before the archive; and a deleted workspace stays deleted,
\* also for a restore that did.
FrozenWhenInactive ==
    /\ ~WorkspaceActive => workspace'.ownerId = workspace.ownerId
    /\ workspace.permanentlyDeletedAt => ~WorkspaceActive'
InactiveIsFrozen == [][FrozenWhenInactive]_vars

\* An invitation marked used admits its invitee in the same step, with the
\* role it carries; a member conflict leaves it unused.
Admits ==
    \A i \in Rows : ~invite[i].usedById /\ invite'[i].usedById =>
        \E m \in Rows : /\ ~channelMember[m].used
                        /\ Live(channelMember'[m])
                        /\ channelMember'[m].user = invite[i].email
                        /\ channelMember'[m].channel = invite[i].channel
                        /\ channelMember'[m].role = invite[i].role
UsedInviteAdmits == [][Admits]_vars

\* Once nothing is in flight, a live channel has no member and no pending
\* invitee from outside the workspace: the cascade of leaving is complete.
NothingStranded ==
    Quiescent =>
        /\ \A m \in Rows :
               Live(channelMember[m]) /\ FindActiveChannel(channelMember[m].channel) =>
                   ActiveMembers(channelMember[m].user) # {}
        /\ \A i \in Rows : Pending(invite[i]) => ActiveMembers(invite[i].email) # {}
=============================================================================
