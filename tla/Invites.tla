-------------------------------- MODULE Invites --------------------------------
(***************************************************************************)
(* invites.service.ts for one workspace: personal invitations, addressed to *)
(* a user's e-mail and good for one use, and public links, good for maxUses *)
(* users.  As in Tenancy every await is a step.  accept (by token) and      *)
(* acceptById read the row by another key and are the same from there on.   *)
(*                                                                         *)
(* Of the workspace only what the service reads is kept: whether it is      *)
(* active and which role a user has; Move and ArchiveOrRestore stand for    *)
(* the methods of Workspaces and Memberships that change them.             *)
(***************************************************************************)
EXTENDS Naturals, FiniteSets

CONSTANTS
    Users, NoUser,
    Founder,             \* the OWNER, who stays (ownership is Memberships')
    Invitations,         \* ids an invitation may get (a bound)
    NoInvitation,
    MaxUses,             \* what public links ask for; a personal one has 0
    Requests,            \* slots of concurrently served requests (a bound)
    Faults               \* whether an awaited query may reject

ASSUME InvitesAssumption ==
    /\ Founder \in Users
    /\ NoUser \notin Users
    /\ NoInvitation \notin Invitations
    /\ MaxUses \subseteq Nat \ {0}
    /\ Faults \in BOOLEAN

Managers == {"OWNER", "ADMIN"}
Grantable == {"ADMIN", "MEMBER"}
NoRole == "NONE"

VARIABLES
    role,        \* user -> active WorkspaceMember role, or NoRole
    active,      \* the workspace is neither archived nor deleted
    invite,      \* Invitation: id -> row
    admissions,  \* history: invitation -> how many members it has made
    request      \* slot -> the method being served and what it has read

tables == <<role, active, invite, admissions>>
vars == <<tables, request>>

InviteRow == [used: BOOLEAN, email: Users \cup {NoUser}, role: Grantable,
              maxUses: MaxUses \cup {0}, usesCount: Nat, usedById: Users \cup {NoUser},
              deletedAt: BOOLEAN, expired: BOOLEAN]
Request == [op: {"create", "accept", "revoke", "decline"},
            at: {"role", "pending", "member", "insert", "workspace",
                 "mark", "count", "join", "invite", "write"},
            by: Users, id: Invitations \cup {NoInvitation},
            email: Users \cup {NoUser}, grant: Grantable, maxUses: MaxUses \cup {0}]

Idle == [op |-> "idle"]
Call(op, at, u) == [op |-> op, at |-> at, by |-> u, id |-> NoInvitation,
                    email |-> NoUser, grant |-> "MEMBER", maxUses |-> 0]

At(r, op, at) == request[r] # Idle /\ request[r].op = op /\ request[r].at = at
Accepted(r, call) == request[r] = Idle /\ request' = [request EXCEPT ![r] = call]
MoveOn(r, at) == request' = [request EXCEPT ![r].at = at]
Finish(r) == request' = [request EXCEPT ![r] = Idle]
\* A check: go on, or answer with an error (or with what already is).
Check(r, passed, at) == (IF passed THEN MoveOn(r, at) ELSE Finish(r)) /\ UNCHANGED tables

-----------------------------------------------------------------------------
(***************************************************************************)
(* invites.repository.ts                                                   *)
(***************************************************************************)
Existing(i) == invite[i].used /\ ~invite[i].deletedAt
Unused(i) == Existing(i) /\ invite[i].usedById = NoUser
IsLink(i) == invite[i].maxUses # 0
LinkUsedUp(i) == invite[i].usesCount >= invite[i].maxUses
Addressed(i, u) == invite[i].email \in {NoUser, u}
PendingFor(u) ==
    {i \in Invitations : Unused(i) /\ ~invite[i].expired /\ invite[i].email = u}

Unissued == {i \in Invitations : ~invite[i].used}
Fresh == CHOOSE i \in Unissued : TRUE

CreateInviteAsInviter(row) ==
    /\ Unissued # {}
    /\ invite' = [invite EXCEPT ![Fresh] =
           [used |-> TRUE, email |-> row.email, role |-> role[row.by],
            maxUses |-> row.maxUses, usesCount |-> 0, usedById |-> NoUser,
            deletedAt |-> FALSE, expired |-> FALSE]]
CreateInvite(row) ==
    /\ Unissued # {}
    /\ invite' = [invite EXCEPT ![Fresh] =
           [used |-> TRUE, email |-> row.email, role |-> row.grant,
            maxUses |-> row.maxUses, usesCount |-> 0, usedById |-> NoUser,
            deletedAt |-> FALSE, expired |-> FALSE]]

\* The insert into WorkspaceMember hits the partial unique index when the user
\* is a member by now, and takes the mark or the count back with it.
Join(i, u) ==
    /\ role' = [role EXCEPT ![u] = invite[i].role]
    /\ admissions' = [admissions EXCEPT ![i] = @ + 1]

AcceptInviteUnconditional(i, u) ==
    IF role[u] = NoRole
    THEN invite' = [invite EXCEPT ![i].usedById = u] /\ Join(i, u)
    ELSE UNCHANGED <<invite, role, admissions>>
AcceptInvite(i, u) ==
    IF Unused(i) /\ role[u] = NoRole
    THEN invite' = [invite EXCEPT ![i].usedById = u] /\ Join(i, u)
    ELSE UNCHANGED <<invite, role, admissions>>

\* Inside the transaction, but by id only: usesCount was read an await earlier.
AcceptInviteLinkCounted(i, u) ==
    /\ invite' = [invite EXCEPT ![i].usesCount = @ + 1]
    /\ IF role[u] = NoRole THEN Join(i, u) ELSE UNCHANGED <<role, admissions>>
AcceptInviteLink(i, u) ==
    IF role[u] = NoRole
    THEN invite' = [invite EXCEPT ![i].usesCount = @ + 1] /\ Join(i, u)
    ELSE UNCHANGED <<invite, role, admissions>>

SoftDelete(i) == invite' = [invite EXCEPT ![i].deletedAt = TRUE]
SoftDeleteIfUnused(i) == IF Unused(i) THEN SoftDelete(i) ELSE UNCHANGED invite
SoftDeleteInviteLink(i) == IF Existing(i) THEN SoftDelete(i) ELSE UNCHANGED invite

-----------------------------------------------------------------------------
\* The bound on issued invitations: every create in flight can insert.
IdsLeft == Cardinality({r \in Requests : request[r] # Idle /\ request[r].op = "create"})
           < Cardinality(Unissued)

\* The workspace is active; a personal invitation names a user, a link maxUses.
CreateCalled(r) ==
    /\ active /\ IdsLeft
    /\ \E u \in Users, to \in Users \cup {NoUser}, max \in MaxUses \cup {0}, g \in Grantable :
           /\ (to = NoUser) = (max > 0)
           /\ Accepted(r, [Call("create", "role", u) EXCEPT !.email = to, !.maxUses = max,
                                                            !.grant = g])
    /\ UNCHANGED tables

CreateRole(r) ==
    /\ At(r, "create", "role")
    /\ Check(r, \/ role[request[r].by] = "OWNER"
                \/ role[request[r].by] = "ADMIN" /\ request[r].grant # "ADMIN",
             IF request[r].email = NoUser THEN "insert" ELSE "pending")

CreatePending(r) ==
    /\ At(r, "create", "pending")
    /\ Check(r, PendingFor(request[r].email) = {}, "member")

CreateMember(r) ==
    /\ At(r, "create", "member")
    /\ Check(r, role[request[r].email] = NoRole, "insert")

CreateInsert(r) ==
    /\ At(r, "create", "insert")
    /\ CreateInvite(request[r])
    /\ Finish(r)
    /\ UNCHANGED <<role, active, admissions>>

Create(r) == CreateCalled(r) \/ CreateRole(r) \/ CreatePending(r) \/ CreateMember(r)
             \/ CreateInsert(r)

\* What is read of the invitation is checked again by the transaction, except
\* expiry.
AcceptCalled(r) ==
    /\ \E u \in Users, i \in Invitations :
           /\ Existing(i) /\ ~invite[i].expired /\ Addressed(i, u)
           /\ IF IsLink(i) THEN ~LinkUsedUp(i) ELSE Unused(i)
           /\ Accepted(r, [Call("accept", "workspace", u) EXCEPT !.id = i])
    /\ UNCHANGED tables

AcceptWorkspace(r) ==
    /\ At(r, "accept", "workspace")
    /\ Check(r, active, "member")

AcceptMember(r) ==
    /\ At(r, "accept", "member")
    /\ Check(r, role[request[r].by] = NoRole,
             IF IsLink(request[r].id) THEN "count" ELSE "mark")

AcceptMark(r) ==
    /\ At(r, "accept", "mark")
    /\ AcceptInvite(request[r].id, request[r].by)
    /\ Finish(r)
    /\ UNCHANGED active

AcceptCount(r) ==
    /\ At(r, "accept", "count")
    /\ Check(r, Existing(request[r].id) /\ ~LinkUsedUp(request[r].id), "join")

AcceptJoin(r) ==
    /\ At(r, "accept", "join")
    /\ AcceptInviteLink(request[r].id, request[r].by)
    /\ Finish(r)
    /\ UNCHANGED active

Accept(r) == AcceptCalled(r) \/ AcceptWorkspace(r) \/ AcceptMember(r) \/ AcceptMark(r)
             \/ AcceptCount(r) \/ AcceptJoin(r)

RevokeCalled(r) ==
    /\ active
    /\ \E u \in Users, i \in Invitations \ Unissued :
           Accepted(r, [Call("revoke", "role", u) EXCEPT !.id = i])
    /\ UNCHANGED tables

RevokeRole(r) ==
    /\ At(r, "revoke", "role")
    /\ Check(r, role[request[r].by] \in Managers, "invite")

RevokeInvite(r) ==
    /\ At(r, "revoke", "invite")
    /\ Check(r, IF IsLink(request[r].id) THEN Existing(request[r].id)
                                         ELSE Unused(request[r].id), "write")

RevokeWrite(r) ==
    /\ At(r, "revoke", "write")
    /\ IF IsLink(request[r].id) THEN SoftDeleteInviteLink(request[r].id)
                                ELSE SoftDeleteIfUnused(request[r].id)
    /\ Finish(r)
    /\ UNCHANGED <<role, active, admissions>>

Revoke(r) == RevokeCalled(r) \/ RevokeRole(r) \/ RevokeInvite(r) \/ RevokeWrite(r)

\* The addressee declines; nobody is the addressee of a link, so anybody may.
DeclineCalled(r) ==
    /\ \E u \in Users, i \in Invitations :
           /\ Existing(i) /\ ~invite[i].expired /\ Addressed(i, u)
           /\ Accepted(r, [Call("decline", "write", u) EXCEPT !.id = i])
    /\ UNCHANGED tables

DeclineWrite(r) ==
    /\ At(r, "decline", "write")
    /\ SoftDeleteIfUnused(request[r].id)
    /\ Finish(r)
    /\ UNCHANGED <<role, active, admissions>>

Decline(r) == DeclineCalled(r) \/ DeclineWrite(r)

Fault(r) ==
    /\ Faults
    /\ request[r] # Idle
    /\ Finish(r)
    /\ UNCHANGED tables

InviteExpires(i) ==
    /\ Existing(i) /\ ~invite[i].expired
    /\ invite' = [invite EXCEPT ![i].expired = TRUE]
    /\ UNCHANGED <<role, active, admissions, request>>

\* addMember, leaveWorkspace, removeMember and updateMemberRole.
Move(u) ==
    /\ u # Founder
    /\ \E to \in Grantable \cup {NoRole} :
           to # role[u] /\ role' = [role EXCEPT ![u] = to]
    /\ UNCHANGED <<active, invite, admissions, request>>

\* archive, restore and delete.
ArchiveOrRestore ==
    /\ active' = ~active
    /\ UNCHANGED <<role, invite, admissions, request>>

Init ==
    /\ role = [u \in Users |-> IF u = Founder THEN "OWNER" ELSE NoRole]
    /\ active = TRUE
    /\ invite = [i \in Invitations |->
           [used |-> FALSE, email |-> NoUser, role |-> "MEMBER", maxUses |-> 0,
            usesCount |-> 0, usedById |-> NoUser, deletedAt |-> FALSE, expired |-> FALSE]]
    /\ admissions = [i \in Invitations |-> 0]
    /\ request = [r \in Requests |-> Idle]

Next ==
    \/ \E r \in Requests : Create(r) \/ Accept(r) \/ Revoke(r) \/ Decline(r) \/ Fault(r)
    \/ \E i \in Invitations : InviteExpires(i)
    \/ \E u \in Users : Move(u)
    \/ ArchiveOrRestore

Spec == Init /\ [][Next]_vars

-----------------------------------------------------------------------------
\* Rows and requests stay within their types.
TypeOK ==
    /\ role \in [Users -> {"OWNER"} \cup Grantable \cup {NoRole}]
    /\ active \in BOOLEAN
    /\ invite \in [Invitations -> InviteRow]
    /\ admissions \in [Invitations -> Nat]
    /\ request \in [Requests -> Request \cup {Idle}]

\* A personal invitation is a ticket; a link is one that nobody ever holds or
\* withdraws, and whose admissions are moves.
Personal(i) == invite[i].used /\ invite[i].maxUses = 0

TicketState(i) ==
    CASE ~Personal(i) -> "unissued"
      [] Personal(i) /\ invite[i].usedById # NoUser -> "used"
      [] Personal(i) /\ invite[i].usedById = NoUser /\ invite[i].deletedAt -> "withdrawn"
      [] OTHER -> "open"

Ticket == INSTANCE Tickets WITH
    Tickets <- Invitations, People <- Users, Nobody <- NoUser,
    state <- [i \in Invitations |-> TicketState(i)],
    holder <- [i \in Invitations |-> invite[i].usedById],
    members <- {u \in Users : role[u] # NoRole}

\* However create, accept, decline and revoke of a personal invitation race, and
\* whatever fails, it behaves as a ticket: used once, by one new member, in the
\* step that marks it; or withdrawn unused.
PersonalInvitesAreTickets == Ticket!TicketSpec

\* A link's usesCount is the number of members it made, and a personal
\* invitation makes one at most: a conflict on the member row takes the count, or
\* the mark, back with it.
UsesAreAdmissions ==
    \A i \in Invitations :
        admissions[i] = IF IsLink(i) THEN invite[i].usesCount
                        ELSE IF invite[i].usedById = NoUser THEN 0 ELSE 1

\* docs/project-status.md of workspace invite links: "Expired, revoked, or
\* max-uses-reached links are rejected": a link admits maxUses users and no more.
LinkWithinMaxUses ==
    \A i \in Invitations : IsLink(i) => invite[i].usesCount <= invite[i].maxUses
=============================================================================
