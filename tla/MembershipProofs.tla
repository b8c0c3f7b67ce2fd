--------------------------- MODULE MembershipProofs ---------------------------
(***************************************************************************)
(* Proofs about Memberships, for any users, channels, rows, request slots   *)
(* and operations: the tables stay well typed, ownership is sound and moves *)
(* only by a hand-over, nobody is a member twice, a channel has one owner,  *)
(* an invitation ends in one way; and for the workloads of MCMemberships    *)
(* that serve one request at a time, there always is an OWNER and nobody is *)
(* left behind in a channel.                                               *)
(*                                                                         *)
(* Most steps only read: they move one request on and leave the tables      *)
(* alone.  `Reads' says what such a step does, one lemma per method shows   *)
(* that its steps are reads or one of its named writes, and the invariants  *)
(* are then shown of reads once and of every write by itself.               *)
(***************************************************************************)
EXTENDS MCMemberships, FiniteSetTheorems, TLAPS

USE TenancyAssumption

\* The operations that name a row, that fill a channel they have looked up, and
\* that settle an invitation they have looked up.
Targeting == {"updateMemberRole", "removeMember", "transferOwnership"}
Filling == {"addChannelMember", "createInvite"}
Settling == {"acceptInvite", "declineInvite"}
Learning == Targeting \cup Filling \cup Settling
PastChannel == {"chRole", "wsMember", "existing", "pending", "write"}

\* What a method has learnt, and nothing that runs beside it can make untrue.
Knows(q) ==
    /\ q.op \in Targeting => q.row \in Rows
    /\ q.op = "transferOwnership" /\ q.at \in {"own", "write"} =>
           member[q.row].used /\ member[q.row].user = q.whom
    /\ q.op = "transferOwnership" /\ q.at = "write" => q.own \in Rows
    /\ q.op \in Filling /\ q.at \in PastChannel => channel[q.ch].used
    /\ q.op \in Settling =>
           /\ q.row \in Rows /\ invite[q.row].used
           /\ invite[q.row].channel = q.ch
           /\ invite[q.row].email = q.by
           /\ invite[q.row].role = q.role
RequestsKnow == \A r \in Requests : request[r] # Idle => Knows(request[r])

\* Rows refer to channels that exist.
RowsRefer ==
    /\ \A m \in Rows : channelMember[m].used => channel[channelMember[m].channel].used
    /\ \A i \in Rows : invite[i].used => channel[invite[i].channel].used

IInv == TypeOK /\ SoundOwnership /\ RequestsKnow /\ RowsRefer

Reads(r) ==
    /\ UNCHANGED tables
    /\ request' = [request EXCEPT ![r] = request'[r]]
    /\ request'[r] # Idle => request'[r] \in Request /\ Knows(request'[r])

LEMMA ReadsKeepIInv ==
    ASSUME IInv, NEW r \in Requests, Reads(r)
    PROVE  IInv'
<1>1. TypeOK'
  BY DEF IInv, TypeOK, Reads, tables
<1>2. SoundOwnership'
  BY DEF IInv, SoundOwnership, Owners, Reads, tables
<1>3. RequestsKnow'
  BY DEF IInv, TypeOK, RequestsKnow, Knows, Reads, tables
<1>4. RowsRefer'
  BY DEF IInv, RowsRefer, Reads, tables
<1> QED BY <1>1, <1>2, <1>3, <1>4 DEF IInv

LEMMA NothingToKnow ==
    ASSUME NEW q, q.op \notin Learning
    PROVE  Knows(q)
BY DEF Knows, Learning, Targeting

LEMMA CallIsRequest ==
    ASSUME NEW op \in AllOps, NEW u \in Users
    PROVE  Call(op, u) \in Request
BY DEF Call, Request, AnyChannel, Grantable, None, Steps

LEMMA AcceptReads ==
    ASSUME IInv, NEW r \in Requests, NEW q \in Request, Accept(r, q), UNCHANGED tables,
           \/ q.op \notin Learning
           \/ q.op \in Targeting /\ q.row \in Rows /\ q.at = "role"
           \/ q.op \in Filling /\ q.at \notin PastChannel
           \/ Knows(q)
    PROVE  Reads(r)
<1>1. Knows(q)
  BY NothingToKnow DEF Knows, Targeting, Filling, Settling
<1> QED BY <1>1 DEF IInv, TypeOK, Accept, Reads

LEMMA CheckReads ==
    ASSUME IInv, NEW r \in Requests, NEW ok, NEW q, Check(r, ok, q),
           ok => q \in Request /\ Knows(q)
    PROVE  Reads(r)
BY DEF IInv, TypeOK, Check, Reads

LEMMA CheckRoleReads ==
    ASSUME IInv, NEW r \in Requests, NEW op, NEW allowed, NEW next \in Steps,
           CheckRole(r, op, allowed, next),
           next \notin {"own", "write"} \/ op # "transferOwnership",
           op \notin Filling \cup Settling
    PROVE  Reads(r)
BY CheckReads DEF IInv, TypeOK, RequestsKnow, CheckRole, At, Request, Steps, Knows

LEMMA CheckTargetReads ==
    ASSUME IInv, NEW r \in Requests, NEW op \in Targeting, NEW allowed,
           NEW next \in {"own", "write"}, CheckTarget(r, op, allowed, next),
           op = "transferOwnership" => next = "own"
    PROVE  Reads(r)
<1> DEFINE q == [request[r] EXCEPT !.at = next, !.whom = Target(r).user]
<1>1. request[r] \in Request /\ request[r].op = op /\ request[r].row \in Rows
  BY DEF IInv, TypeOK, RequestsKnow, Knows, CheckTarget, At
<1>2. q \in Request
  BY <1>1 DEF IInv, TypeOK, Request, Steps, Target, MemberRow
<1>3. Live(Target(r)) => Knows(q)
  BY <1>1 DEF Knows, Target, Live, Request, Targeting, Filling, Settling
<1>4. Check(r, Live(Target(r)) /\ allowed, q)
  BY DEF CheckTarget
<1> QED BY <1>2, <1>3, <1>4, CheckReads

LEMMA LeaveWorkspaceSteps ==
    ASSUME IInv, NEW r \in Requests, LeaveWorkspace(r)
    PROVE  \/ Reads(r) \/ LeaveWorkspaceWrite(r)
           \/ CascadeChannels(r, "leaveWorkspace") \/ CascadeInvites(r, "leaveWorkspace")
<1>1. ASSUME NEW u \in Users,
             AcceptOnActive(r, [Call("leaveWorkspace", u) EXCEPT !.at = "own"])
      PROVE  Reads(r)
  <2> DEFINE q == [Call("leaveWorkspace", u) EXCEPT !.at = "own"]
  <2>1. q \in Request /\ q.op \notin Learning
    BY CallIsRequest DEF Call, Request, AllOps, Steps, Learning, Targeting, Filling, Settling
  <2>2. AcceptOnActive(r, q)
    BY <1>1
  <2> HIDE DEF q
  <2> QED BY <2>1, <2>2, AcceptReads DEF AcceptOnActive
<1>2. CASE /\ At(r, "leaveWorkspace", "own")
           /\ Check(r, MayLeave(FindMemberRole(request[r].by)),
                    [request[r] EXCEPT !.at = "write"])
  BY <1>2, CheckReads, NothingToKnow
     DEF IInv, TypeOK, At, Request, Steps, Learning, Targeting, Filling, Settling
<1> QED BY <1>1, <1>2 DEF LeaveWorkspace

LEMMA UpdateMemberRoleSteps ==
    ASSUME IInv, NEW r \in Requests, UpdateMemberRole(r)
    PROVE  Reads(r) \/ UpdateMemberRoleWrite(r)
<1>1. ASSUME NEW u \in Users, NEW m \in Inserted(member), NEW role \in Grantable,
             AcceptOnActive(r, [Call("updateMemberRole", u) EXCEPT !.row = m, !.role = role])
      PROVE  Reads(r)
  <2> DEFINE c == Call("updateMemberRole", u)
         q == [c EXCEPT !.row = m, !.role = role]
  <2>0. c \in Request /\ c.op = "updateMemberRole" /\ c.at = "role"
    BY CallIsRequest DEF AllOps, Call
  <2>1. q \in Request /\ q.op \in Targeting /\ q.row \in Rows /\ q.at = "role"
    BY <2>0 DEF Request, Inserted, Targeting
  <2>2. AcceptOnActive(r, q)
    BY <1>1
  <2> HIDE DEF q
  <2> QED BY <2>1, <2>2, AcceptReads DEF AcceptOnActive
<1>2. CASE CheckRole(r, "updateMemberRole", {"OWNER"}, "target")
  BY <1>2, CheckRoleReads DEF Steps, Filling, Settling
<1>3. CASE CheckTarget(r, "updateMemberRole", Target(r).role # "OWNER", "write")
  BY <1>3, CheckTargetReads DEF Targeting
<1> QED BY <1>1, <1>2, <1>3 DEF UpdateMemberRole

LEMMA RemoveMemberSteps ==
    ASSUME IInv, NEW r \in Requests, RemoveMember(r)
    PROVE  \/ Reads(r) \/ RemoveMemberWrite(r)
           \/ CascadeChannels(r, "removeMember") \/ CascadeInvites(r, "removeMember")
<1>1. ASSUME NEW u \in Users, NEW m \in Inserted(member),
             AcceptOnActive(r, [Call("removeMember", u) EXCEPT !.row = m])
      PROVE  Reads(r)
  <2> DEFINE q == [Call("removeMember", u) EXCEPT !.row = m]
  <2>1. q \in Request /\ q.op \in Targeting /\ q.row \in Rows /\ q.at = "role"
    BY CallIsRequest DEF Call, Request, AllOps, Inserted, Targeting
  <2>2. AcceptOnActive(r, q)
    BY <1>1
  <2> HIDE DEF q
  <2> QED BY <2>1, <2>2, AcceptReads DEF AcceptOnActive
<1>2. ASSUME At(r, "removeMember", "role"), NEW role,
             Check(r, role \in Managers, [request[r] EXCEPT !.at = "target", !.seen = role])
      PROVE  Reads(r)
  <2> DEFINE q == [request[r] EXCEPT !.at = "target", !.seen = role]
  <2>1. request[r] \in Request /\ request[r].op = "removeMember" /\ Knows(request[r])
    BY <1>2 DEF IInv, TypeOK, RequestsKnow, At
  <2>2. role \in Managers => q \in Request
    BY <2>1 DEF Request, Steps, Roles, Managers
  <2>3. Knows(q)
    BY <2>1 DEF Knows, Request, Targeting, Filling, Settling
  <2>4. Check(r, role \in Managers, q)
    BY <1>2
  <2> HIDE DEF q
  <2> QED BY <2>2, <2>3, <2>4, CheckReads
<1>3. CASE CheckTarget(r, "removeMember",
                       Removable(Target(r), request[r].by, request[r].seen), "write")
  BY <1>3, CheckTargetReads DEF Targeting
<1> QED BY <1>1, <1>2, <1>3 DEF RemoveMember

LEMMA TransferOwnershipSteps ==
    ASSUME IInv, NEW r \in Requests, TransferOwnership(r)
    PROVE  Reads(r) \/ TransferOwnershipWrite(r)
<1>1. ASSUME NEW u \in Users, NEW m \in Inserted(member),
             AcceptOnActive(r, [Call("transferOwnership", u) EXCEPT !.row = m])
      PROVE  Reads(r)
  <2> DEFINE q == [Call("transferOwnership", u) EXCEPT !.row = m]
  <2>1. q \in Request /\ q.op \in Targeting /\ q.row \in Rows /\ q.at = "role"
    BY CallIsRequest DEF Call, Request, AllOps, Inserted, Targeting
  <2>2. AcceptOnActive(r, q)
    BY <1>1
  <2> HIDE DEF q
  <2> QED BY <2>1, <2>2, AcceptReads DEF AcceptOnActive
<1>2. CASE CheckRole(r, "transferOwnership", {"OWNER"}, "target")
  BY <1>2, CheckRoleReads DEF Steps, Filling, Settling
<1>3. CASE CheckTarget(r, "transferOwnership",
                       Target(r).role # "OWNER" /\ Target(r).user # request[r].by, "own")
  BY <1>3, CheckTargetReads DEF Targeting
<1>4. ASSUME At(r, "transferOwnership", "own"), NEW mine, mine \subseteq Rows,
             Check(r, mine # {}, [request[r] EXCEPT !.at = "write",
                                                    !.own = CHOOSE m \in mine : TRUE])
      PROVE  Reads(r)
  <2> DEFINE q == [request[r] EXCEPT !.at = "write", !.own = CHOOSE m \in mine : TRUE]
  <2>1. mine # {} => (CHOOSE m \in mine : TRUE) \in Rows
    BY <1>4
  <2>2. request[r] \in Request /\ request[r].op = "transferOwnership"
        /\ request[r].at = "own" /\ Knows(request[r])
    BY <1>4 DEF IInv, TypeOK, RequestsKnow, At
  <2>3. mine # {} => q \in Request
    BY <2>1, <2>2 DEF Request, Steps
  <2>4. mine # {} => Knows(q)
    BY <2>1, <2>2 DEF Knows, Request, Targeting, Filling, Settling
  <2>5. Check(r, mine # {}, q)
    BY <1>4
  <2> HIDE DEF q
  <2> QED BY <2>3, <2>4, <2>5, CheckReads
<1>5. ActiveMembers(request[r].by) \subseteq Rows
  BY DEF ActiveMembers
<1> QED BY <1>1, <1>2, <1>3, <1>4, <1>5 DEF TransferOwnership

LEMMA AddMemberSteps ==
    ASSUME IInv, NEW r \in Requests, AddMember(r)
    PROVE  Reads(r) \/ AddMemberWrite(r)
<1>1. ASSUME NEW u \in Users, NEW v \in Users, NEW role \in Grantable,
             AcceptOnActive(r, [Call("addMember", u) EXCEPT !.whom = v, !.role = role])
      PROVE  Reads(r)
  <2> DEFINE c == Call("addMember", u)
         q == [c EXCEPT !.whom = v, !.role = role]
  <2>0. c \in Request /\ c.op = "addMember" /\ c.at = "role"
    BY CallIsRequest DEF AllOps, Call
  <2>1. q \in Request /\ q.op \notin Learning
    BY <2>0 DEF Request, Learning, Targeting, Filling, Settling
  <2>2. AcceptOnActive(r, q)
    BY <1>1
  <2> HIDE DEF q
  <2> QED BY <2>1, <2>2, AcceptReads DEF AcceptOnActive
<1>2. CASE CheckRole(r, "addMember", Managers, "existing")
  BY <1>2, CheckRoleReads DEF Steps, Filling, Settling
<1>3. CASE /\ At(r, "addMember", "existing")
           /\ Check(r, ActiveMembers(request[r].whom) = {},
                    [request[r] EXCEPT !.at = "write"])
  BY <1>3, CheckReads, NothingToKnow
     DEF IInv, TypeOK, At, Request, Steps, Learning, Targeting, Filling, Settling
<1> QED BY <1>1, <1>2, <1>3 DEF AddMember

LEMMA ArchiveWorkspaceSteps ==
    ASSUME IInv, NEW r \in Requests, ArchiveWorkspace(r)
    PROVE  Reads(r) \/ ArchiveWorkspaceWrite(r)
<1>1. ASSUME NEW u \in Users, AcceptOnActive(r, Call("archiveWorkspace", u))
      PROVE  Reads(r)
  BY <1>1, CallIsRequest, AcceptReads
     DEF AcceptOnActive, Call, AllOps, Learning, Targeting, Filling, Settling
<1>2. CASE CheckRole(r, "archiveWorkspace", {"OWNER"}, "write")
  BY <1>2, CheckRoleReads DEF Steps, Filling, Settling
<1> QED BY <1>1, <1>2 DEF ArchiveWorkspace

LEMMA DeleteWorkspaceSteps ==
    ASSUME IInv, NEW r \in Requests, DeleteWorkspace(r)
    PROVE  Reads(r) \/ DeleteWorkspaceWrite(r)
<1>1. ASSUME NEW u \in Users, AcceptOnActive(r, Call("deleteWorkspace", u))
      PROVE  Reads(r)
  BY <1>1, CallIsRequest, AcceptReads
     DEF AcceptOnActive, Call, AllOps, Learning, Targeting, Filling, Settling
<1>2. CASE CheckRole(r, "deleteWorkspace", {"OWNER"}, "write")
  BY <1>2, CheckRoleReads DEF Steps, Filling, Settling
<1> QED BY <1>1, <1>2 DEF DeleteWorkspace

LEMMA RestoreWorkspaceSteps ==
    ASSUME IInv, NEW r \in Requests, RestoreWorkspace(r)
    PROVE  Reads(r) \/ RestoreWorkspaceWrite(r)
<1>1. ASSUME NEW u \in Users, UNCHANGED tables,
             Accept(r, [Call("restoreWorkspace", u) EXCEPT !.at = "write"])
      PROVE  Reads(r)
  <2> DEFINE q == [Call("restoreWorkspace", u) EXCEPT !.at = "write"]
  <2>1. q \in Request /\ q.op \notin Learning
    BY CallIsRequest DEF Call, Request, AllOps, Steps, Learning, Targeting, Filling, Settling
  <2>2. Accept(r, q)
    BY <1>1
  <2> HIDE DEF q
  <2> QED BY <1>1, <2>1, <2>2, AcceptReads
<1> QED BY <1>1 DEF RestoreWorkspace

-----------------------------------------------------------------------------
(***************************************************************************)
(* The methods of the channels: none of them names a WorkspaceMember row.   *)
(***************************************************************************)
LEMMA UnlearnedCheck ==
    ASSUME IInv, NEW r \in Requests, NEW ok, NEW q, Check(r, ok, q),
           ok => q \in Request, q.op \notin Learning
    PROVE  Reads(r)
BY CheckReads, NothingToKnow

\* A check that only moves on: a method that fills a channel gets past the
\* look-up of the channel only if the channel is there.
LEMMA MoveOn ==
    ASSUME IInv, NEW r \in Requests, NEW op, NEW at, At(r, op, at), op \notin Targeting,
           NEW ok, NEW next \in Steps, Check(r, ok, [request[r] EXCEPT !.at = next]),
           \/ op \notin Filling \/ at \in PastChannel \/ next \notin PastChannel
           \/ ok => channel[request[r].ch].used
    PROVE  Reads(r)
<1> DEFINE q == [request[r] EXCEPT !.at = next]
<1>1. request[r] \in Request /\ request[r].op = op /\ request[r].at = at /\ Knows(request[r])
  BY DEF IInv, TypeOK, At, RequestsKnow
<1>2. /\ q \in Request /\ q.op = op /\ q.at = next
      /\ q.row = request[r].row /\ q.ch = request[r].ch
      /\ q.by = request[r].by /\ q.role = request[r].role
  BY <1>1 DEF Request
<1>3. Check(r, ok, q)
  OBVIOUS
<1> HIDE DEF q
<1>4. ok => Knows(q)
  BY <1>1, <1>2 DEF Knows, Targeting
<1> QED BY <1>2, <1>3, <1>4, CheckReads

LEMMA MoveOnUnfilling ==
    ASSUME IInv, NEW r \in Requests, NEW op, NEW at, At(r, op, at),
           op \notin Targeting, op \notin Filling,
           NEW ok, NEW next \in Steps, Check(r, ok, [request[r] EXCEPT !.at = next])
    PROVE  Reads(r)
BY MoveOn

LEMMA FillingChecks ==
    ASSUME IInv, NEW r \in Requests, NEW op, op \notin Targeting,
           NEW x, NEW next \in Steps,
           \/ CheckChannelRole(r, op, x, next)
           \/ CheckWorkspaceMember(r, op, next) \/ CheckNotChannelMember(r, op, next)
    PROVE  Reads(r)
BY MoveOn DEF CheckChannelRole, CheckWorkspaceMember, CheckNotChannelMember, PastChannel

LEMMA ChannelChecks ==
    ASSUME IInv, NEW r \in Requests, NEW op, op \notin Targeting, op \notin Filling,
           NEW x, NEW next \in Steps,
           \/ CheckChannel(r, op, x, next) \/ CheckChannelRole(r, op, x, next)
           \/ CheckWorkspaceMember(r, op, next) \/ CheckNotChannelMember(r, op, next)
    PROVE  Reads(r)
BY MoveOnUnfilling DEF CheckChannel, CheckChannelRole, CheckWorkspaceMember,
                       CheckNotChannelMember

LEMMA FindChannelReads ==
    ASSUME IInv, NEW r \in Requests, NEW op, op \notin Targeting, NEW next \in Steps,
           CheckChannel(r, op, FindActiveChannel(request[r].ch), next)
    PROVE  Reads(r)
<1>1. FindActiveChannel(request[r].ch) => channel[request[r].ch].used
  BY DEF FindActiveChannel, FindChannelIncludingArchived
<1> QED BY <1>1, MoveOn DEF CheckChannel

LEMMA AcceptFromMemberReads ==
    ASSUME IInv, NEW r \in Requests, NEW q \in Request, AcceptFromMember(r, q),
           q.op \notin Learning \/ (q.op \in Filling /\ q.at \notin PastChannel)
    PROVE  Reads(r)
BY AcceptReads DEF AcceptFromMember

LEMMA CreateChannelSteps ==
    ASSUME IInv, NEW r \in Requests, CreateChannel(r)
    PROVE  Reads(r) \/ CreateChannelWrite(r)
<1>1. ASSUME NEW u \in Users, NEW c \in Channels,
             AcceptFromMember(r, [Call("createChannel", u) EXCEPT !.ch = c, !.at = "channel"])
      PROVE  Reads(r)
  <2> DEFINE k == Call("createChannel", u)
             q == [k EXCEPT !.ch = c, !.at = "channel"]
  <2>1. k \in Request /\ k.op = "createChannel"
    BY CallIsRequest DEF AllOps, Call
  <2>2. q \in Request /\ q.op \notin Learning
    BY <2>1 DEF Request, Steps, Learning, Targeting, Filling, Settling
  <2>3. AcceptFromMember(r, q)
    BY <1>1
  <2> HIDE DEF q
  <2> QED BY <2>2, <2>3, AcceptFromMemberReads
<1>2. CASE CheckChannel(r, "createChannel", ~FindActiveChannel(request[r].ch), "write")
  BY <1>2, ChannelChecks DEF Steps, Targeting, Filling
<1> QED BY <1>1, <1>2 DEF CreateChannel

LEMMA AddChannelMemberSteps ==
    ASSUME IInv, NEW r \in Requests, AddChannelMember(r)
    PROVE  Reads(r) \/ AddChannelMemberWrite(r)
<1>1. ASSUME NEW u \in Users, NEW v \in Users, NEW c \in Channels, NEW role \in Grantable,
             AcceptFromMember(r, [Call("addChannelMember", u) EXCEPT !.ch = c, !.whom = v, !.role = role, !.at = "channel"])
      PROVE  Reads(r)
  <2> DEFINE k == Call("addChannelMember", u)
             q == [k EXCEPT !.ch = c, !.whom = v, !.role = role, !.at = "channel"]
  <2>1. k \in Request /\ k.op = "addChannelMember" /\ k.at = "role"
    BY CallIsRequest DEF AllOps, Call
  <2>2. q \in Request /\ q.op \in Filling /\ q.at \notin PastChannel
    BY <2>1 DEF Request, Steps, Filling, PastChannel
  <2>3. AcceptFromMember(r, q)
    BY <1>1
  <2> HIDE DEF q
  <2> QED BY <2>2, <2>3, AcceptFromMemberReads
<1>2. CASE CheckChannel(r, "addChannelMember", FindActiveChannel(request[r].ch), "chRole")
  BY <1>2, FindChannelReads DEF Steps, Targeting
<1>3. CASE CheckChannelRole(r, "addChannelMember", Granters(request[r].role), "wsMember")
  BY <1>3, FillingChecks DEF Steps, Targeting
<1>4. CASE CheckWorkspaceMember(r, "addChannelMember", "existing")
  BY <1>4, FillingChecks DEF Steps, Targeting
<1>5. CASE CheckNotChannelMember(r, "addChannelMember", "write")
  BY <1>5, FillingChecks DEF Steps, Targeting
<1> QED BY <1>1, <1>2, <1>3, <1>4, <1>5 DEF AddChannelMember

LEMMA RemoveChannelMemberSteps ==
    ASSUME IInv, NEW r \in Requests, RemoveChannelMember(r)
    PROVE  Reads(r) \/ RemoveChannelMemberWrite(r)
<1>1. ASSUME NEW u \in Users, NEW c \in Channels, NEW m \in Inserted(channelMember),
             AcceptFromMember(r, [Call("removeChannelMember", u) EXCEPT !.ch = c, !.row = m, !.at = "channel"])
      PROVE  Reads(r)
  <2> DEFINE k == Call("removeChannelMember", u)
             q == [k EXCEPT !.ch = c, !.row = m, !.at = "channel"]
  <2>1. k \in Request /\ k.op = "removeChannelMember"
    BY CallIsRequest DEF AllOps, Call
  <2>2. q \in Request /\ q.op \notin Learning
    BY <2>1 DEF Request, Steps, Learning, Targeting, Filling, Settling, Inserted
  <2>3. AcceptFromMember(r, q)
    BY <1>1
  <2> HIDE DEF q
  <2> QED BY <2>2, <2>3, AcceptFromMemberReads
<1>2. CASE CheckChannel(r, "removeChannelMember", FindActiveChannel(request[r].ch), "chRole")
  BY <1>2, ChannelChecks DEF Steps, Targeting, Filling
<1>3. ASSUME At(r, "removeChannelMember", "chRole"), NEW role,
             Check(r, role \in Managers, [request[r] EXCEPT !.at = "target", !.seen = role])
      PROVE  Reads(r)
  <2> DEFINE q == [request[r] EXCEPT !.at = "target", !.seen = role]
  <2>1. request[r] \in Request /\ request[r].op = "removeChannelMember"
    BY <1>3 DEF IInv, TypeOK, At
  <2>2. (role \in Managers => q \in Request) /\ q.op \notin Learning
    BY <2>1 DEF Request, Steps, Roles, Managers, Learning, Targeting, Filling, Settling
  <2>3. Check(r, role \in Managers, q)
    BY <1>3
  <2> HIDE DEF q
  <2> QED BY <2>2, <2>3, UnlearnedCheck
<1>4. ASSUME At(r, "removeChannelMember", "target"), NEW ok,
             Check(r, ok, [request[r] EXCEPT !.at = "write"])
      PROVE  Reads(r)
  BY <1>4, MoveOnUnfilling DEF Steps, Targeting, Filling
<1> QED BY <1>1, <1>2, <1>3, <1>4 DEF RemoveChannelMember

LEMMA LeaveChannelSteps ==
    ASSUME IInv, NEW r \in Requests, LeaveChannel(r)
    PROVE  Reads(r) \/ LeaveChannelWrite(r)
<1>1. ASSUME NEW u \in Users, NEW c \in Channels,
             AcceptFromMember(r, [Call("leaveChannel", u) EXCEPT !.ch = c, !.at = "channel"])
      PROVE  Reads(r)
  <2> DEFINE k == Call("leaveChannel", u)
             q == [k EXCEPT !.ch = c, !.at = "channel"]
  <2>1. k \in Request /\ k.op = "leaveChannel"
    BY CallIsRequest DEF AllOps, Call
  <2>2. q \in Request /\ q.op \notin Learning
    BY <2>1 DEF Request, Steps, Learning, Targeting, Filling, Settling
  <2>3. AcceptFromMember(r, q)
    BY <1>1
  <2> HIDE DEF q
  <2> QED BY <2>2, <2>3, AcceptFromMemberReads
<1>2. CASE CheckChannel(r, "leaveChannel", FindActiveChannel(request[r].ch), "own")
  BY <1>2, ChannelChecks DEF Steps, Targeting, Filling
<1> DEFINE mine == ActiveChannelMembers(request[r].ch, request[r].by)
           m == CHOOSE i \in mine : TRUE
<1>3. ASSUME At(r, "leaveChannel", "own"),
             Check(r, mine # {} /\ channelMember[m].role # "OWNER",
                   [request[r] EXCEPT !.at = "write", !.row = m])
      PROVE  Reads(r)
  <2> DEFINE q == [request[r] EXCEPT !.at = "write", !.row = m]
  <2>1. request[r] \in Request /\ request[r].op = "leaveChannel"
    BY <1>3 DEF IInv, TypeOK, At
  <2>2. mine # {} => m \in Rows
    BY DEF ActiveChannelMembers
  <2>3. (mine # {} => q \in Request) /\ q.op \notin Learning
    BY <2>1, <2>2 DEF Request, Steps, Learning, Targeting, Filling, Settling
  <2>4. Check(r, mine # {} /\ channelMember[m].role # "OWNER", q)
    BY <1>3
  <2> HIDE DEF q, mine, m
  <2> QED BY <2>3, <2>4, UnlearnedCheck
<1> QED BY <1>1, <1>2, <1>3 DEF LeaveChannel

LEMMA ArchiveChannelSteps ==
    ASSUME IInv, NEW r \in Requests, ArchiveChannel(r)
    PROVE  Reads(r) \/ ArchiveChannelWrite(r)
<1>1. ASSUME NEW u \in Users, NEW c \in Channels,
             AcceptFromMember(r, [Call("archiveChannel", u) EXCEPT !.ch = c, !.at = "channel"])
      PROVE  Reads(r)
  <2> DEFINE k == Call("archiveChannel", u)
             q == [k EXCEPT !.ch = c, !.at = "channel"]
  <2>1. k \in Request /\ k.op = "archiveChannel"
    BY CallIsRequest DEF AllOps, Call
  <2>2. q \in Request /\ q.op \notin Learning
    BY <2>1 DEF Request, Steps, Learning, Targeting, Filling, Settling
  <2>3. AcceptFromMember(r, q)
    BY <1>1
  <2> HIDE DEF q
  <2> QED BY <2>2, <2>3, AcceptFromMemberReads
<1>2. CASE CheckChannel(r, "archiveChannel", FindActiveChannel(request[r].ch), "chRole")
  BY <1>2, ChannelChecks DEF Steps, Targeting, Filling
<1>3. CASE CheckChannelRole(r, "archiveChannel", {"OWNER"}, "write")
  BY <1>3, ChannelChecks DEF Steps, Targeting, Filling
<1> QED BY <1>1, <1>2, <1>3 DEF ArchiveChannel

LEMMA DeleteChannelSteps ==
    ASSUME IInv, NEW r \in Requests, DeleteChannel(r)
    PROVE  Reads(r) \/ DeleteChannelWrite(r)
<1>1. ASSUME NEW u \in Users, NEW c \in Channels,
             AcceptFromMember(r, [Call("deleteChannel", u) EXCEPT !.ch = c, !.at = "channel"])
      PROVE  Reads(r)
  <2> DEFINE k == Call("deleteChannel", u)
             q == [k EXCEPT !.ch = c, !.at = "channel"]
  <2>1. k \in Request /\ k.op = "deleteChannel"
    BY CallIsRequest DEF AllOps, Call
  <2>2. q \in Request /\ q.op \notin Learning
    BY <2>1 DEF Request, Steps, Learning, Targeting, Filling, Settling
  <2>3. AcceptFromMember(r, q)
    BY <1>1
  <2> HIDE DEF q
  <2> QED BY <2>2, <2>3, AcceptFromMemberReads
<1>2. CASE CheckChannel(r, "deleteChannel", FindChannelIncludingArchived(request[r].ch), "write")
  BY <1>2, ChannelChecks DEF Steps, Targeting, Filling
<1> QED BY <1>1, <1>2 DEF DeleteChannel

LEMMA RestoreChannelSteps ==
    ASSUME IInv, NEW r \in Requests, RestoreChannel(r)
    PROVE  Reads(r) \/ RestoreChannelWrite(r)
<1>1. ASSUME NEW u \in Users, NEW c \in Channels,
             AcceptFromMember(r, [Call("restoreChannel", u) EXCEPT !.ch = c, !.at = "channel"])
      PROVE  Reads(r)
  <2> DEFINE k == Call("restoreChannel", u)
             q == [k EXCEPT !.ch = c, !.at = "channel"]
  <2>1. k \in Request /\ k.op = "restoreChannel"
    BY CallIsRequest DEF AllOps, Call
  <2>2. q \in Request /\ q.op \notin Learning
    BY <2>1 DEF Request, Steps, Learning, Targeting, Filling, Settling
  <2>3. AcceptFromMember(r, q)
    BY <1>1
  <2> HIDE DEF q
  <2> QED BY <2>2, <2>3, AcceptFromMemberReads
<1>2. CASE CheckChannel(r, "restoreChannel", FindChannelIncludingArchived(request[r].ch) /\ channel[request[r].ch].deletedAt, "chRole")
  BY <1>2, ChannelChecks DEF Steps, Targeting, Filling
<1>3. CASE CheckChannelRole(r, "restoreChannel", {"OWNER"}, "write")
  BY <1>3, ChannelChecks DEF Steps, Targeting, Filling
<1> QED BY <1>1, <1>2, <1>3 DEF RestoreChannel

LEMMA CreateInviteSteps ==
    ASSUME IInv, NEW r \in Requests, CreateInvite(r)
    PROVE  Reads(r) \/ CreateInviteWrite(r)
<1>1. ASSUME NEW u \in Users, NEW v \in Users, NEW c \in Channels, NEW role \in Grantable,
             UNCHANGED tables, Accept(r, [Call("createInvite", u) EXCEPT !.ch = c, !.whom = v, !.role = role])
      PROVE  Reads(r)
  <2> DEFINE k == Call("createInvite", u)
             q == [k EXCEPT !.ch = c, !.whom = v, !.role = role]
  <2>1. k \in Request /\ k.op = "createInvite" /\ k.at = "role"
    BY CallIsRequest DEF AllOps, Call
  <2>2. q \in Request /\ q.op \in Filling /\ q.at \notin PastChannel
    BY <2>1 DEF Request, Steps, Filling, PastChannel
  <2>3. Accept(r, q)
    BY <1>1
  <2> HIDE DEF q
  <2> QED BY <1>1, <2>2, <2>3, AcceptReads
<1>2. ASSUME NEW ok, NEW at, NEW next \in Steps, At(r, "createInvite", at),
             at \in PastChannel \/ next \notin PastChannel,
             Check(r, ok, [request[r] EXCEPT !.at = next])
      PROVE  Reads(r)
  BY <1>2, MoveOn DEF Targeting
<1>3. CASE CheckChannel(r, "createInvite", FindActiveChannel(request[r].ch), "chRole")
  BY <1>3, FindChannelReads DEF Steps, Targeting
<1>4. CASE CheckChannelRole(r, "createInvite", Granters(request[r].role), "wsMember")
  BY <1>4, FillingChecks DEF Steps, Targeting
<1>5. CASE CheckWorkspaceMember(r, "createInvite", "existing")
  BY <1>5, FillingChecks DEF Steps, Targeting
<1>6. CASE CheckNotChannelMember(r, "createInvite", "pending")
  BY <1>6, FillingChecks DEF Steps, Targeting
<1> QED BY <1>1, <1>2, <1>3, <1>4, <1>5, <1>6 DEF CreateInvite, Steps, PastChannel

LEMMA AcceptOnInviteReads ==
    ASSUME IInv, NEW r \in Requests, NEW op \in {"acceptInvite", "declineInvite"},
           NEW at \in {"workspace", "write"}, AcceptOnInvite(r, op, at)
    PROVE  Reads(r)
<1>1. PICK i \in Rows :
          /\ Open(invite[i])
          /\ Accept(r, [Call(op, invite[i].email) EXCEPT
                        !.row = i, !.ch = invite[i].channel, !.role = invite[i].role, !.at = at])
          /\ UNCHANGED tables
  BY DEF AcceptOnInvite
<1> DEFINE k == Call(op, invite[i].email)
           q == [k EXCEPT !.row = i, !.ch = invite[i].channel, !.role = invite[i].role, !.at = at]
<1>2. invite[i] \in InviteRow
  BY DEF IInv, TypeOK
<1>3. k \in Request /\ k.op = op /\ k.by = invite[i].email
  BY <1>2, CallIsRequest DEF AllOps, Call, InviteRow
<1>4. /\ q \in Request /\ q.op = op
      /\ q.row = i /\ q.ch = invite[i].channel
      /\ q.by = invite[i].email /\ q.role = invite[i].role
  BY <1>2, <1>3 DEF Request, Steps, InviteRow
<1>5. Accept(r, q)
  BY <1>1
<1> HIDE DEF q
<1>6. invite[i].used
  BY <1>1 DEF Open, Pending, Live
<1>7. Knows(q)
  BY <1>4, <1>6 DEF Knows, Targeting, Filling
<1> QED BY <1>1, <1>4, <1>5, <1>7, AcceptReads

LEMMA AcceptInviteSteps ==
    ASSUME IInv, NEW r \in Requests, AcceptInvite(r)
    PROVE  Reads(r) \/ AcceptInviteWrite(r)
<1>1. CASE AcceptOnInvite(r, "acceptInvite", "workspace")
  BY <1>1, AcceptOnInviteReads
<1>2. CASE /\ At(r, "acceptInvite", "workspace")
           /\ Check(r, WorkspaceActive, [request[r] EXCEPT !.at = "wsMember"])
  BY <1>2, MoveOnUnfilling DEF Steps, Targeting, Filling
<1>3. CASE CheckWorkspaceMember(r, "acceptInvite", "channel")
  BY <1>3, ChannelChecks DEF Steps, Targeting, Filling
<1>4. CASE CheckChannel(r, "acceptInvite", FindActiveChannel(request[r].ch), "existing")
  BY <1>4, ChannelChecks DEF Steps, Targeting, Filling
<1>5. CASE CheckNotChannelMember(r, "acceptInvite", "write")
  BY <1>5, ChannelChecks DEF Steps, Targeting, Filling
<1> QED BY <1>1, <1>2, <1>3, <1>4, <1>5 DEF AcceptInvite

LEMMA DeclineInviteSteps ==
    ASSUME IInv, NEW r \in Requests, DeclineInvite(r)
    PROVE  Reads(r) \/ DeclineInviteWrite(r)
<1>1. CASE AcceptOnInvite(r, "declineInvite", "write")
  BY <1>1, AcceptOnInviteReads
<1> QED BY <1>1 DEF DeclineInvite

-----------------------------------------------------------------------------
(***************************************************************************)
(* The writes.                                                             *)
(***************************************************************************)
\* A write that makes no owner and leaves ownerId alone keeps ownership sound.
LEMMA NoNewOwner ==
    ASSUME SoundOwnership, workspace'.ownerId = workspace.ownerId,
           \A m \in Rows : Live(member'[m]) /\ member'[m].role = "OWNER" =>
               /\ Live(member[m]) /\ member[m].role = "OWNER"
               /\ member'[m].user = member[m].user
    PROVE  SoundOwnership'
BY DEF SoundOwnership, Owners, Live

\* No write takes back an inserted row or changes what requests know of it.
RowsStay ==
    /\ \A m \in Rows : member[m].used =>
           member'[m].used /\ member'[m].user = member[m].user
    /\ \A c \in Channels : channel[c].used => channel'[c].used
    /\ \A i \in Rows : invite[i].used =>
           /\ invite'[i].used
           /\ invite'[i].channel = invite[i].channel
           /\ invite'[i].email = invite[i].email
           /\ invite'[i].role = invite[i].role

LEMMA KnowledgeSurvives ==
    ASSUME IInv, NEW r \in Requests, RowsStay,
           \A s \in Requests : s # r => request'[s] = request[s],
           request'[r] # Idle => request'[r].op \notin Learning
               \/ (request'[r].op = "removeMember" /\ request'[r].row \in Rows)
    PROVE  RequestsKnow'
<1> SUFFICES ASSUME NEW s \in Requests, request'[s] # Idle
             PROVE  Knows(request[s])'
  BY DEF RequestsKnow
<1>1. CASE s = r
  BY <1>1 DEF Knows, Learning, Targeting, Filling, Settling
<1>2. CASE s # r
  <2>1. request'[s] = request[s] /\ request[s] \in Request /\ Knows(request[s])
    BY <1>2 DEF IInv, TypeOK, RequestsKnow
  <2>2. request[s].ch \in Channels
    BY <2>1 DEF Request
  <2> QED BY <2>1, <2>2 DEF RowsStay, Knows, Targeting
<1> QED BY <1>1, <1>2

LEMMA DoneKeepsIInv ==
    ASSUME IInv, NEW r \in Requests, TypeOK', Finish(r), RowsStay, RowsRefer',
           workspace'.ownerId = workspace.ownerId, UNCHANGED member
    PROVE  IInv'
<1>1. SoundOwnership'
  BY NoNewOwner DEF IInv
<1>2. RequestsKnow'
  BY KnowledgeSurvives DEF Finish, IInv, TypeOK
<1> QED BY <1>1, <1>2 DEF IInv

LEMMA CascadeKeepsIInv ==
    ASSUME IInv, NEW r \in Requests, NEW op \in {"leaveWorkspace", "removeMember"},
           CascadeChannels(r, op) \/ CascadeInvites(r, op)
    PROVE  IInv'
<1>0. request[r] \in Request /\ request[r].op = op /\ Knows(request[r])
  BY DEF IInv, TypeOK, RequestsKnow, CascadeChannels, CascadeInvites, At
<1>1. CASE CascadeChannels(r, op)
  <2>1. channelMember' \in [Rows -> ChannelMemberRow]
    <3> SUFFICES ASSUME NEW m \in Rows
                 PROVE  channelMember'[m] \in ChannelMemberRow
      BY <1>1 DEF CascadeChannels, SoftDeleteChannelMembersByWorkspaceAndUserId
    <3>1. channelMember[m] \in ChannelMemberRow
      BY DEF IInv, TypeOK
    <3>2. [channelMember[m] EXCEPT !.deletedAt = channelMember[m].used] \in ChannelMemberRow
      BY <3>1 DEF ChannelMemberRow
    <3> QED BY <1>1, <3>1, <3>2
         DEF CascadeChannels, SoftDeleteChannelMembersByWorkspaceAndUserId
  <2>2. TypeOK'
    BY <1>0, <1>1, <2>1 DEF IInv, TypeOK, CascadeChannels, Request, Steps
  <2>3. request'[r].op = op /\ request'[r].row = request[r].row
    BY <1>0, <1>1 DEF CascadeChannels, IInv, TypeOK, Request
  <2>4. \A s \in Requests : s # r => request'[s] = request[s]
    BY <1>1 DEF CascadeChannels, IInv, TypeOK
  <2>5. op = "removeMember" => request'[r].row \in Rows
    BY <1>0, <2>3 DEF Knows, Targeting
  <2>6. UNCHANGED member
    BY <1>1 DEF CascadeChannels
  <2>7. RequestsKnow'
    <3>1. RowsStay
      BY <1>1 DEF CascadeChannels, RowsStay
    <3>2. request'[r] # Idle => request'[r].op \notin Learning
              \/ (request'[r].op = "removeMember" /\ request'[r].row \in Rows)
      BY <2>3, <2>5 DEF Learning, Targeting, Filling, Settling
    <3> QED BY <2>4, <3>1, <3>2, KnowledgeSurvives
  <2>8. SoundOwnership'
    BY <1>1, NoNewOwner DEF CascadeChannels, IInv
  <2>9. RowsRefer'
    <3>1. \A m \in Rows : /\ channelMember'[m].used = channelMember[m].used
                          /\ channelMember'[m].channel = channelMember[m].channel
      BY <1>1 DEF CascadeChannels, SoftDeleteChannelMembersByWorkspaceAndUserId,
                  IInv, TypeOK, ChannelMemberRow
    <3> QED BY <1>1, <3>1 DEF CascadeChannels, IInv, RowsRefer
  <2> QED BY <2>2, <2>7, <2>8, <2>9 DEF IInv
<1>2. CASE CascadeInvites(r, op)
  <2>1. invite' \in [Rows -> InviteRow]
    <3> SUFFICES ASSUME NEW i \in Rows
                 PROVE  invite'[i] \in InviteRow
      BY <1>2 DEF CascadeInvites, SoftDeletePendingInvitesByWorkspaceAndEmail
    <3>1. invite[i] \in InviteRow
      BY DEF IInv, TypeOK
    <3>2. [invite[i] EXCEPT !.deletedAt = TRUE] \in InviteRow
      BY <3>1 DEF InviteRow
    <3> QED BY <1>2, <3>1, <3>2
         DEF CascadeInvites, SoftDeletePendingInvitesByWorkspaceAndEmail
  <2>2. TypeOK'
    BY <1>2, <2>1 DEF IInv, TypeOK, CascadeInvites, Finish
  <2>3. \A i \in Rows : /\ invite'[i].used = invite[i].used
                        /\ invite'[i].channel = invite[i].channel
                        /\ invite'[i].email = invite[i].email
                        /\ invite'[i].role = invite[i].role
    BY <1>2 DEF CascadeInvites, SoftDeletePendingInvitesByWorkspaceAndEmail,
                IInv, TypeOK, InviteRow
  <2>4. RowsStay /\ RowsRefer'
    BY <1>2, <2>3 DEF CascadeInvites, RowsStay, RowsRefer, IInv
  <2> QED BY <1>2, <2>2, <2>4, DoneKeepsIInv DEF CascadeInvites
<1> QED BY <1>1, <1>2

LEMMA LeaveWorkspaceWriteKeepsIInv ==
    ASSUME IInv, NEW r \in Requests, LeaveWorkspaceWrite(r)
    PROVE  IInv'
<1>0. request[r] \in Request /\ request[r].op = "leaveWorkspace"
  BY DEF IInv, TypeOK, LeaveWorkspaceWrite, At
<1>1. \A m \in Rows : /\ member'[m] \in MemberRow
                      /\ member'[m].used = member[m].used
                      /\ member'[m].user = member[m].user
                      /\ member'[m].role = member[m].role
                      /\ ~member'[m].deletedAt => ~member[m].deletedAt
  <2> SUFFICES ASSUME NEW m \in Rows
               PROVE  /\ member'[m] \in MemberRow
                      /\ member'[m].used = member[m].used
                      /\ member'[m].user = member[m].user
                      /\ member'[m].role = member[m].role
                      /\ ~member'[m].deletedAt => ~member[m].deletedAt
    OBVIOUS
  <2> DEFINE gone == member[m].deletedAt \/ m \in ActiveMembers(request[r].by)
  <2>1. member[m] \in MemberRow
    BY DEF IInv, TypeOK
  <2>2. member'[m] = [member[m] EXCEPT !.deletedAt = gone]
    BY DEF LeaveWorkspaceWrite
  <2>3. gone \in BOOLEAN /\ (~gone => ~member[m].deletedAt)
    OBVIOUS
  <2> HIDE DEF gone
  <2> QED BY <2>1, <2>2, <2>3 DEF MemberRow
<1>2. TypeOK'
  BY <1>0, <1>1 DEF IInv, TypeOK, LeaveWorkspaceWrite, Request, Steps
<1>3. SoundOwnership'
  BY <1>1, NoNewOwner DEF IInv, LeaveWorkspaceWrite, Live
<1>4. request'[r] # Idle => request'[r].op = "leaveWorkspace"
  BY <1>0 DEF LeaveWorkspaceWrite, IInv, TypeOK, Request
<1>5. RequestsKnow'
  <2>1. \A s \in Requests : s # r => request'[s] = request[s]
    BY DEF LeaveWorkspaceWrite, IInv, TypeOK
  <2>2. RowsStay
    BY <1>1 DEF LeaveWorkspaceWrite, RowsStay
  <2>3. request'[r] # Idle => request'[r].op \notin Learning
    BY <1>4 DEF Learning, Targeting, Filling, Settling
  <2> QED BY <2>1, <2>2, <2>3, KnowledgeSurvives
<1>6. RowsRefer'
  BY DEF LeaveWorkspaceWrite, IInv, RowsRefer
<1> QED BY <1>2, <1>3, <1>5, <1>6 DEF IInv

LEMMA UpdateMemberRoleWriteKeepsIInv ==
    ASSUME IInv, NEW r \in Requests, UpdateMemberRoleWrite(r)
    PROVE  IInv'
<1>0. request[r] \in Request
  BY DEF IInv, TypeOK, UpdateMemberRoleWrite, At
<1>1. \A m \in Rows : /\ member'[m] \in MemberRow
                      /\ member'[m].used = member[m].used
                      /\ member'[m].user = member[m].user
                      /\ member'[m].deletedAt = member[m].deletedAt
                      /\ member'[m].role \in {member[m].role, "ADMIN", "MEMBER"}
  BY <1>0 DEF IInv, TypeOK, UpdateMemberRoleWrite, MemberRow, Request, Grantable, Roles
<1>2. TypeOK'
  BY <1>1 DEF IInv, TypeOK, UpdateMemberRoleWrite, Finish
<1>3. SoundOwnership'
  BY <1>1, NoNewOwner DEF IInv, UpdateMemberRoleWrite, Live
<1>4. RequestsKnow'
  <2>1. RowsStay
    BY <1>1 DEF UpdateMemberRoleWrite, RowsStay
  <2> QED BY <2>1, KnowledgeSurvives DEF UpdateMemberRoleWrite, Finish, IInv, TypeOK
<1>5. RowsRefer'
  BY DEF UpdateMemberRoleWrite, IInv, RowsRefer
<1> QED BY <1>2, <1>3, <1>4, <1>5 DEF IInv

LEMMA RemoveMemberWriteKeepsIInv ==
    ASSUME IInv, NEW r \in Requests, RemoveMemberWrite(r)
    PROVE  IInv'
<1>0. request[r] \in Request /\ request[r].op = "removeMember" /\ request[r].row \in Rows
  BY DEF IInv, TypeOK, RemoveMemberWrite, At, RequestsKnow, Knows, Targeting
<1>1. \A m \in Rows : /\ member'[m] \in MemberRow
                      /\ member'[m].used = member[m].used
                      /\ member'[m].user = member[m].user
                      /\ member'[m].role = member[m].role
                      /\ ~member'[m].deletedAt => ~member[m].deletedAt
  <2>1. CASE UNCHANGED member
    BY <2>1 DEF IInv, TypeOK
  <2>2. CASE member' = [member EXCEPT ![request[r].row].deletedAt = TRUE]
    <3> SUFFICES ASSUME NEW m \in Rows
                 PROVE  /\ member'[m] \in MemberRow
                        /\ member'[m].used = member[m].used
                        /\ member'[m].user = member[m].user
                        /\ member'[m].role = member[m].role
                        /\ ~member'[m].deletedAt => ~member[m].deletedAt
      OBVIOUS
    <3>1. member[m] \in MemberRow
      BY DEF IInv, TypeOK
    <3>2. member'[m] = member[m] \/ member'[m] = [member[m] EXCEPT !.deletedAt = TRUE]
      BY <2>2 DEF IInv, TypeOK
    <3> QED BY <3>1, <3>2 DEF MemberRow
  <2> QED BY <2>1, <2>2 DEF RemoveMemberWrite
<1>2. TypeOK'
  BY <1>0, <1>1 DEF IInv, TypeOK, RemoveMemberWrite, Finish, Request, Steps
<1>3. SoundOwnership'
  BY <1>1, NoNewOwner DEF IInv, RemoveMemberWrite, Live
<1>4. request'[r] # Idle => request'[r].op = "removeMember" /\ request'[r].row \in Rows
  BY <1>0 DEF RemoveMemberWrite, Finish, IInv, TypeOK, Request
<1>5. RequestsKnow'
  <2>1. RowsStay
    BY <1>1 DEF RemoveMemberWrite, RowsStay
  <2> QED BY <1>4, <2>1, KnowledgeSurvives DEF RemoveMemberWrite, Finish, IInv, TypeOK
<1>6. RowsRefer'
  BY DEF RemoveMemberWrite, IInv, RowsRefer
<1> QED BY <1>2, <1>3, <1>5, <1>6 DEF IInv

LEMMA TransferOwnershipWriteKeepsIInv ==
    ASSUME IInv, NEW r \in Requests, TransferOwnershipWrite(r)
    PROVE  IInv'
<1> DEFINE q == request[r]
<1>0. /\ q \in Request /\ q.row \in Rows /\ q.own \in Rows
      /\ member[q.row].used /\ member[q.row].user = q.whom
  BY DEF IInv, TypeOK, TransferOwnershipWrite, At, RequestsKnow, Knows, Targeting
<1>1. \A m \in Rows : /\ member'[m] \in MemberRow
                      /\ member'[m].used = member[m].used
                      /\ member'[m].user = member[m].user
                      /\ member'[m].deletedAt = member[m].deletedAt
  BY <1>0 DEF IInv, TypeOK, TransferOwnershipWrite, TransferOwnershipTx, MemberRow, Roles
<1>2. TypeOK'
  BY <1>0, <1>1 DEF IInv, TypeOK, TransferOwnershipWrite, TransferOwnershipTx, Finish, Request
<1>3. SoundOwnership'
  <2>1. CASE UNCHANGED <<member, workspace>>
    BY <2>1, NoNewOwner DEF IInv
  <2>2. CASE /\ q.own \in Owners /\ member[q.row].role \in Grantable
             /\ member' = [member EXCEPT ![q.own].role = "ADMIN", ![q.row].role = "OWNER"]
             /\ workspace' = [workspace EXCEPT !.ownerId = q.whom]
    <3>1. \A m \in Owners : m = q.own
      BY <2>2 DEF IInv, SoundOwnership
    <3>2. q.own # q.row
      BY <2>2 DEF Owners, Grantable
    <3>3. \A m \in Rows : Live(member'[m]) /\ member'[m].role = "OWNER" => m = q.row
      BY <1>0, <1>1, <2>2, <3>1, <3>2 DEF Owners, Live, IInv, TypeOK, MemberRow
    <3>4. workspace'.ownerId = member'[q.row].user
      BY <1>0, <1>1, <2>2 DEF IInv, TypeOK
    <3> QED BY <3>3, <3>4 DEF SoundOwnership, Owners
  <2> QED BY <1>0, <2>1, <2>2 DEF TransferOwnershipWrite, TransferOwnershipTx, Owners
<1>4. RequestsKnow'
  <2>1. RowsStay
    BY <1>1 DEF TransferOwnershipWrite, RowsStay
  <2> QED BY <2>1, KnowledgeSurvives DEF TransferOwnershipWrite, Finish, IInv, TypeOK
<1>5. RowsRefer'
  BY DEF TransferOwnershipWrite, IInv, RowsRefer
<1> QED BY <1>2, <1>3, <1>4, <1>5 DEF IInv

LEMMA AddMemberWriteKeepsIInv ==
    ASSUME IInv, NEW r \in Requests, AddMemberWrite(r)
    PROVE  IInv'
<1>0. request[r] \in Request
  BY DEF IInv, TypeOK, AddMemberWrite, At
<1>0a. RowsRefer'
  BY DEF AddMemberWrite, IInv, RowsRefer
<1>1. CASE UNCHANGED member
  <2>1. TypeOK'
    BY <1>1 DEF IInv, TypeOK, AddMemberWrite, Finish
  <2>2. RowsStay
    BY <1>1 DEF AddMemberWrite, RowsStay
  <2> QED BY <1>1, <1>0a, <2>1, <2>2, DoneKeepsIInv DEF AddMemberWrite
<1>2. CASE InsertMember(request[r].whom, request[r].role)
  <2> DEFINE f == FreshRow(member)
  <2>1. f \in Rows /\ ~member[f].used
    BY <1>2 DEF InsertMember, FreshRow, UnusedRows, Inserted
  <2>2. member' = [member EXCEPT ![f] = [used |-> TRUE, user |-> request[r].whom,
                                         role |-> request[r].role, deletedAt |-> FALSE]]
    BY <1>2 DEF InsertMember
  <2> HIDE DEF f
  <2>3. TypeOK'
    BY <1>0, <2>1, <2>2 DEF IInv, TypeOK, AddMemberWrite, Finish, MemberRow, Request,
                             Grantable, Roles
  <2>4. SoundOwnership'
    BY <1>0, <2>1, <2>2, NoNewOwner
       DEF IInv, TypeOK, AddMemberWrite, Live, Request, Grantable
  <2>5. RequestsKnow'
    <3>1. RowsStay
      BY <2>1, <2>2 DEF AddMemberWrite, RowsStay, IInv, TypeOK
    <3> QED BY <3>1, KnowledgeSurvives DEF AddMemberWrite, Finish, IInv, TypeOK
  <2> QED BY <1>0a, <2>3, <2>4, <2>5 DEF IInv
<1> QED BY <1>1, <1>2 DEF AddMemberWrite

LEMMA WorkspaceRowWritesKeepIInv ==
    ASSUME IInv, NEW r \in Requests,
           \/ ArchiveWorkspaceWrite(r) \/ DeleteWorkspaceWrite(r)
           \/ RestoreWorkspaceWrite(r)
    PROVE  IInv'
<1>1. /\ workspace' \in [deletedAt: BOOLEAN, permanentlyDeletedAt: BOOLEAN,
                         ownerId: Users]
      /\ workspace'.ownerId = workspace.ownerId
  BY DEF IInv, TypeOK, ArchiveWorkspaceWrite, DeleteWorkspaceWrite, RestoreWorkspaceWrite
<1>2. Finish(r) /\ UNCHANGED <<member, channel, channelMember, invite>>
  BY DEF ArchiveWorkspaceWrite, DeleteWorkspaceWrite, RestoreWorkspaceWrite
<1>3. TypeOK'
  BY <1>1, <1>2 DEF IInv, TypeOK, Finish
<1>4. RowsStay /\ RowsRefer'
  BY <1>2 DEF RowsStay, RowsRefer, IInv
<1> QED BY <1>1, <1>2, <1>3, <1>4, DoneKeepsIInv

\* A request that is done with the channel tables leaves ownership alone.
LEMMA ChannelTablesKeepIInv ==
    ASSUME IInv, NEW r \in Requests, Finish(r), UNCHANGED <<workspace, member>>,
           channel' \in [Channels -> ChannelRow],
           channelMember' \in [Rows -> ChannelMemberRow],
           invite' \in [Rows -> InviteRow],
           RowsStay, RowsRefer'
    PROVE  IInv'
<1>1. TypeOK'
  BY DEF IInv, TypeOK, Finish
<1> QED BY <1>1, DoneKeepsIInv

LEMMA InsertChannelMemberType ==
    ASSUME TypeOK, NEW c \in Channels, NEW u \in Users, NEW role \in Roles,
           InsertChannelMember(c, u, role)
    PROVE  channelMember' \in [Rows -> ChannelMemberRow]
<1> DEFINE row == [used |-> TRUE, channel |-> c, user |-> u, role |-> role,
                   deletedAt |-> FALSE]
<1>1. row \in ChannelMemberRow
  BY DEF ChannelMemberRow
<1>2. channelMember' = [channelMember EXCEPT ![FreshRow(channelMember)] = row]
  BY DEF InsertChannelMember
<1> HIDE DEF row
<1> QED BY <1>1, <1>2 DEF TypeOK

LEMMA InsertsFreshRow ==
    ASSUME TypeOK, NEW c, NEW u, NEW role, InsertChannelMember(c, u, role)
    PROVE  \E f \in Rows :
               /\ ~channelMember[f].used
               /\ channelMember'[f] = [used |-> TRUE, channel |-> c, user |-> u, role |-> role,
                                       deletedAt |-> FALSE]
               /\ \A m \in Rows : m # f => channelMember'[m] = channelMember[m]
<1> DEFINE f == FreshRow(channelMember)
           row == [used |-> TRUE, channel |-> c, user |-> u, role |-> role,
                   deletedAt |-> FALSE]
<1>1. f \in Rows /\ ~channelMember[f].used
  BY DEF InsertChannelMember, FreshRow, UnusedRows, Inserted
<1>2. channelMember' = [channelMember EXCEPT ![f] = row]
  BY DEF InsertChannelMember
<1> HIDE DEF f, row
<1>3. channelMember'[f] = row /\ \A m \in Rows : m # f => channelMember'[m] = channelMember[m]
  BY <1>1, <1>2 DEF TypeOK
<1> QED BY <1>1, <1>3 DEF row

LEMMA SoftDeleteChannelMemberType ==
    ASSUME TypeOK, NEW m, SoftDeleteChannelMember(m)
    PROVE  channelMember' \in [Rows -> ChannelMemberRow]
<1> SUFFICES ASSUME NEW n \in Rows
             PROVE  channelMember'[n] \in ChannelMemberRow
  BY DEF SoftDeleteChannelMember, TypeOK
<1>1. channelMember[n] \in ChannelMemberRow
  BY DEF TypeOK
<1>2. [channelMember[n] EXCEPT !.deletedAt = channelMember[n].used] \in ChannelMemberRow
  BY <1>1 DEF ChannelMemberRow
<1> QED BY <1>1, <1>2 DEF SoftDeleteChannelMember, TypeOK

LEMMA InviteFieldType ==
    ASSUME TypeOK, NEW i, NEW b \in BOOLEAN,
           \/ invite' = [invite EXCEPT ![i].usedById = b]
           \/ invite' = [invite EXCEPT ![i].deletedAt = b]
           \/ invite' = [invite EXCEPT ![i].expired = b]
    PROVE  invite' \in [Rows -> InviteRow]
<1> SUFFICES ASSUME NEW j \in Rows
             PROVE  invite'[j] \in InviteRow
  BY DEF TypeOK
<1>1. invite[j] \in InviteRow
  BY DEF TypeOK
<1>2. /\ [invite[j] EXCEPT !.usedById = b] \in InviteRow
      /\ [invite[j] EXCEPT !.deletedAt = b] \in InviteRow
      /\ [invite[j] EXCEPT !.expired = b] \in InviteRow
  BY <1>1 DEF InviteRow
<1>3. \/ invite'[j] = invite[j]
      \/ invite'[j] = [invite[j] EXCEPT !.usedById = b]
      \/ invite'[j] = [invite[j] EXCEPT !.deletedAt = b]
      \/ invite'[j] = [invite[j] EXCEPT !.expired = b]
  BY DEF TypeOK
<1> QED BY <1>1, <1>2, <1>3

LEMMA ChannelFieldType ==
    ASSUME TypeOK, NEW c, NEW b \in BOOLEAN,
           \/ channel' = [channel EXCEPT ![c].used = TRUE]
           \/ channel' = [channel EXCEPT ![c].deletedAt = b]
           \/ channel' = [channel EXCEPT ![c].deletedAt = TRUE, ![c].permanentlyDeletedAt = TRUE]
    PROVE  channel' \in [Channels -> ChannelRow]
<1> SUFFICES ASSUME NEW d \in Channels
             PROVE  channel'[d] \in ChannelRow
  BY DEF TypeOK
<1>1. channel[d] \in ChannelRow
  BY DEF TypeOK
<1>2. /\ [channel[d] EXCEPT !.used = TRUE] \in ChannelRow
      /\ [channel[d] EXCEPT !.deletedAt = b] \in ChannelRow
      /\ [channel[d] EXCEPT !.deletedAt = TRUE, !.permanentlyDeletedAt = TRUE] \in ChannelRow
  BY <1>1 DEF ChannelRow
<1>3. \/ channel'[d] = channel[d]
      \/ channel'[d] = [channel[d] EXCEPT !.used = TRUE]
      \/ channel'[d] = [channel[d] EXCEPT !.deletedAt = b]
      \/ channel'[d] = [channel[d] EXCEPT !.deletedAt = TRUE, !.permanentlyDeletedAt = TRUE]
  <2>1. CASE d = c
    BY <1>1, <2>1 DEF TypeOK, ChannelRow
  <2>2. CASE d # c
    BY <2>2 DEF TypeOK
  <2> QED BY <2>1, <2>2
<1> QED BY <1>1, <1>2, <1>3

LEMMA ChannelMemberWritesKeepIInv ==
    ASSUME IInv, NEW r \in Requests,
           \/ CreateChannelWrite(r) \/ AddChannelMemberWrite(r)
           \/ RemoveChannelMemberWrite(r) \/ LeaveChannelWrite(r)
    PROVE  IInv'
<1>0. TypeOK
  BY DEF IInv
<1>1. request[r] \in Request
  BY <1>0 DEF TypeOK, CreateChannelWrite, AddChannelMemberWrite,
              RemoveChannelMemberWrite, LeaveChannelWrite, At
<1>2. request[r].by \in Users /\ request[r].whom \in Users /\ request[r].ch \in Channels
      /\ request[r].role \in Roles
  BY <1>1 DEF Request, Grantable, Roles
<1>3. Finish(r) /\ UNCHANGED <<workspace, member, invite>>
  BY DEF CreateChannelWrite, AddChannelMemberWrite, RemoveChannelMemberWrite,
         LeaveChannelWrite
<1>4. channel' \in [Channels -> ChannelRow]
  <2>1. UNCHANGED channel \/ channel' = [channel EXCEPT ![request[r].ch].used = TRUE]
    BY DEF CreateChannelWrite, AddChannelMemberWrite, RemoveChannelMemberWrite,
           LeaveChannelWrite
  <2> QED BY <1>0, <2>1, ChannelFieldType DEF TypeOK
<1>5. channelMember' \in [Rows -> ChannelMemberRow]
  <2>1. CASE UNCHANGED channelMember
    BY <1>0, <2>1 DEF TypeOK
  <2>2. CASE InsertChannelMember(request[r].ch, request[r].by, "OWNER")
    BY <1>0, <1>2, <2>2, InsertChannelMemberType DEF Roles
  <2>3. CASE InsertChannelMember(request[r].ch, request[r].whom, request[r].role)
    BY <1>0, <1>2, <2>3, InsertChannelMemberType
  <2>4. CASE SoftDeleteChannelMember(request[r].row)
    BY <1>0, <2>4, SoftDeleteChannelMemberType
  <2> QED BY <2>1, <2>2, <2>3, <2>4 DEF CreateChannelWrite, AddChannelMemberWrite,
                                        RemoveChannelMemberWrite, LeaveChannelWrite
<1>6. invite' \in [Rows -> InviteRow]
  BY <1>0, <1>3 DEF TypeOK
<1>7. RowsStay
  <2>1. UNCHANGED channel \/ channel' = [channel EXCEPT ![request[r].ch].used = TRUE]
    BY DEF CreateChannelWrite, AddChannelMemberWrite, RemoveChannelMemberWrite,
           LeaveChannelWrite
  <2>2. \A c \in Channels : channel[c].used => channel'[c].used
    BY <1>0, <2>1 DEF TypeOK, ChannelRow
  <2> QED BY <1>3, <2>2 DEF RowsStay
<1>8. RowsRefer'
  <2>1. \A c \in Channels : channel[c].used => channel'[c].used
    BY <1>7 DEF RowsStay
  <2>2. \/ UNCHANGED channelMember
        \/ SoftDeleteChannelMember(request[r].row)
        \/ /\ channel'[request[r].ch].used
           /\ \E u, role : InsertChannelMember(request[r].ch, u, role)
    <3>1. CASE AddChannelMemberWrite(r)
      <4>1. Knows(request[r]) /\ request[r].op = "addChannelMember" /\ request[r].at = "write"
        BY <3>1 DEF IInv, RequestsKnow, AddChannelMemberWrite, At
      <4>2. channel'[request[r].ch].used
        BY <1>2, <2>1, <4>1 DEF Knows, Filling, PastChannel
      <4> QED BY <3>1, <4>2 DEF AddChannelMemberWrite
    <3>2. CASE CreateChannelWrite(r)
      <4>1. UNCHANGED channel \/ channel'[request[r].ch].used
        BY <1>0, <1>2, <3>2 DEF CreateChannelWrite, TypeOK, ChannelRow
      <4>2. SlugTaken(request[r].ch) => channel[request[r].ch].used
        BY DEF SlugTaken
      <4> QED BY <1>0, <1>2, <3>2, <4>1, <4>2 DEF CreateChannelWrite, TypeOK, ChannelRow
    <3> QED BY <3>1, <3>2 DEF RemoveChannelMemberWrite, LeaveChannelWrite
  <2>3. \A m \in Rows : channelMember'[m].used =>
            \/ channelMember[m].used /\ channelMember'[m].channel = channelMember[m].channel
            \/ channelMember'[m].channel = request[r].ch /\ channel'[request[r].ch].used
    <3>1. CASE SoftDeleteChannelMember(request[r].row)
      BY <1>0, <3>1 DEF SoftDeleteChannelMember, TypeOK, ChannelMemberRow
    <3>2. CASE /\ channel'[request[r].ch].used
               /\ \E u, role : InsertChannelMember(request[r].ch, u, role)
      <4>1. PICK u, role : InsertChannelMember(request[r].ch, u, role)
        BY <3>2
      <4>2. \A m \in Rows : \/ channelMember'[m] = channelMember[m]
                            \/ channelMember'[m].channel = request[r].ch
        <5>1. PICK f \in Rows :
                  /\ channelMember'[f] = [used |-> TRUE, channel |-> request[r].ch, user |-> u,
                                          role |-> role, deletedAt |-> FALSE]
                  /\ \A m \in Rows : m # f => channelMember'[m] = channelMember[m]
          BY <1>0, <4>1, InsertsFreshRow
        <5> QED BY <5>1
      <4> QED BY <3>2, <4>2
    <3>3. CASE UNCHANGED channelMember
      BY <3>3
    <3> QED BY <2>2, <3>1, <3>2, <3>3
  <2>4. \A m \in Rows : channelMember[m].channel \in Channels
    BY <1>0 DEF TypeOK, ChannelMemberRow
  <2>5. \A i \in Rows : invite[i].channel \in Channels
    BY <1>0 DEF TypeOK, InviteRow
  <2> QED BY <1>3, <2>1, <2>3, <2>4, <2>5 DEF IInv, RowsRefer
<1> QED BY <1>3, <1>4, <1>5, <1>6, <1>7, <1>8, ChannelTablesKeepIInv

LEMMA ChannelRowWritesKeepIInv ==
    ASSUME IInv, NEW r \in Requests,
           \/ ArchiveChannelWrite(r) \/ DeleteChannelWrite(r)
           \/ RestoreChannelWrite(r)
    PROVE  IInv'
<1>1. Finish(r) /\ UNCHANGED <<workspace, member, channelMember, invite>>
  BY DEF ArchiveChannelWrite, DeleteChannelWrite, RestoreChannelWrite
<1>2. channel' \in [Channels -> ChannelRow]
  BY ChannelFieldType DEF IInv, ArchiveChannelWrite, DeleteChannelWrite,
                          RestoreChannelWrite
<1>3. channelMember' \in [Rows -> ChannelMemberRow] /\ invite' \in [Rows -> InviteRow]
  BY <1>1 DEF IInv, TypeOK
<1>4. \A c \in Channels : channel'[c].used = channel[c].used
  BY DEF IInv, TypeOK, ChannelRow, ArchiveChannelWrite, DeleteChannelWrite,
         RestoreChannelWrite
<1>5. RowsStay
  BY <1>1, <1>4 DEF RowsStay
<1>6. RowsRefer'
  <2>1. \A m \in Rows : channelMember[m].channel \in Channels /\ invite[m].channel \in Channels
    BY DEF IInv, TypeOK, ChannelMemberRow, InviteRow
  <2> QED BY <1>1, <1>4, <2>1 DEF IInv, RowsRefer
<1> QED BY <1>1, <1>2, <1>3, <1>5, <1>6, ChannelTablesKeepIInv

LEMMA InviteWritesKeepIInv ==
    ASSUME IInv, NEW r \in Requests,
           \/ CreateInviteWrite(r) \/ AcceptInviteWrite(r) \/ DeclineInviteWrite(r)
    PROVE  IInv'
<1>0. TypeOK
  BY DEF IInv
<1>1. request[r] \in Request
  BY <1>0 DEF TypeOK, CreateInviteWrite, AcceptInviteWrite, DeclineInviteWrite, At
<1>2. request[r].by \in Users /\ request[r].whom \in Users /\ request[r].ch \in Channels
      /\ request[r].role \in Grantable /\ request[r].role \in Roles
  BY <1>1 DEF Request, Grantable, Roles
<1>3. Finish(r) /\ UNCHANGED <<workspace, member, channel>>
  BY DEF CreateInviteWrite, AcceptInviteWrite, DeclineInviteWrite
<1>4. channel' \in [Channels -> ChannelRow]
  BY <1>0, <1>3 DEF TypeOK
<1>5. channelMember' \in [Rows -> ChannelMemberRow]
  <2>1. CASE UNCHANGED channelMember
    BY <1>0, <2>1 DEF TypeOK
  <2>2. CASE InsertChannelMember(request[r].ch, request[r].by, request[r].role)
    BY <1>0, <1>2, <2>2, InsertChannelMemberType
  <2> QED BY <2>1, <2>2 DEF CreateInviteWrite, AcceptInviteWrite, AcceptInviteTx,
                            DeclineInviteWrite
<1>6. invite' \in [Rows -> InviteRow]
  <2>1. CASE CreateInviteWrite(r)
    <3> DEFINE row == [used |-> TRUE, channel |-> request[r].ch, email |-> request[r].whom,
                       role |-> request[r].role, deletedAt |-> FALSE, usedById |-> FALSE,
                       expired |-> FALSE]
    <3>1. row \in InviteRow
      BY <1>2 DEF InviteRow
    <3>2. invite' = [invite EXCEPT ![FreshRow(invite)] = row]
      BY <2>1 DEF CreateInviteWrite
    <3> HIDE DEF row
    <3> QED BY <1>0, <3>1, <3>2 DEF TypeOK
  <2>2. CASE AcceptInviteWrite(r)
    <3>1. UNCHANGED invite \/ invite' = [invite EXCEPT ![request[r].row].usedById = TRUE]
      BY <2>2 DEF AcceptInviteWrite, AcceptInviteTx
    <3> QED BY <1>0, <3>1, InviteFieldType DEF TypeOK
  <2>3. CASE DeclineInviteWrite(r)
    <3> DEFINE i == request[r].row
               gone == invite[i].deletedAt \/ Pending(invite[i])
    <3>1. gone \in BOOLEAN
      OBVIOUS
    <3>2. invite' = [invite EXCEPT ![i].deletedAt = gone]
      BY <2>3 DEF DeclineInviteWrite
    <3> HIDE DEF gone
    <3> QED BY <1>0, <3>1, <3>2, InviteFieldType
  <2> QED BY <2>1, <2>2, <2>3
<1>7. Knows(request[r])
  BY DEF IInv, RequestsKnow, CreateInviteWrite, AcceptInviteWrite, DeclineInviteWrite, At
<1>8. \A i \in Rows : invite'[i].used =>
          \/ /\ invite[i].used
             /\ invite'[i].channel = invite[i].channel
             /\ invite'[i].email = invite[i].email
             /\ invite'[i].role = invite[i].role
          \/ ~invite[i].used /\ channel[invite'[i].channel].used
  <2>1. CASE CreateInviteWrite(r)
    <3>1. channel[request[r].ch].used
      BY <1>7, <2>1 DEF CreateInviteWrite, At, Knows, Filling, PastChannel
    <3>2. FreshRow(invite) \in Rows /\ ~invite[FreshRow(invite)].used
      BY <2>1 DEF CreateInviteWrite, FreshRow, UnusedRows, Inserted
    <3> QED BY <1>0, <2>1, <3>1, <3>2 DEF CreateInviteWrite, TypeOK, InviteRow
  <2>2. CASE AcceptInviteWrite(r)
    BY <1>0, <2>2 DEF AcceptInviteWrite, AcceptInviteTx, TypeOK, InviteRow
  <2>3. CASE DeclineInviteWrite(r)
    BY <1>0, <2>3 DEF DeclineInviteWrite, TypeOK, InviteRow
  <2> QED BY <2>1, <2>2, <2>3
<1>9. \A i \in Rows : invite[i].used => invite'[i].used
  <2>0. \A i \in Rows : invite[i] \in InviteRow
    BY <1>0 DEF TypeOK
  <2>1. CASE CreateInviteWrite(r)
    <3> DEFINE f == FreshRow(invite)
    <3>1. \A i \in Rows : i # f => invite'[i] = invite[i]
      BY <1>0, <2>1 DEF CreateInviteWrite, TypeOK
    <3>2. f \in Rows /\ ~invite[f].used
      BY <2>1 DEF CreateInviteWrite, FreshRow, UnusedRows, Inserted
    <3> QED BY <3>1, <3>2
  <2>2. CASE AcceptInviteWrite(r)
    <3>1. UNCHANGED invite \/ invite' = [invite EXCEPT ![request[r].row].usedById = TRUE]
      BY <2>2 DEF AcceptInviteWrite, AcceptInviteTx
    <3>2. ASSUME NEW i \in Rows, invite[i].used
          PROVE  invite'[i].used
      <4>1. invite'[i] = invite[i] \/ invite'[i] = [invite[i] EXCEPT !.usedById = TRUE]
        BY <1>0, <3>1 DEF TypeOK
      <4> QED BY <2>0, <3>2, <4>1 DEF InviteRow
    <3> QED BY <3>2
  <2>3. CASE DeclineInviteWrite(r)
    BY <1>0, <2>3 DEF DeclineInviteWrite, TypeOK, InviteRow
  <2> QED BY <2>1, <2>2, <2>3
<1>10. RowsStay
  BY <1>3, <1>8, <1>9 DEF RowsStay
<1>11. RowsRefer'
  <2>1. \A m \in Rows : channelMember'[m].used =>
            \/ channelMember[m].used /\ channelMember'[m].channel = channelMember[m].channel
            \/ channel[channelMember'[m].channel].used
    <3>1. CASE UNCHANGED channelMember
      BY <3>1
    <3>2. CASE /\ InsertChannelMember(request[r].ch, request[r].by, request[r].role)
               /\ request[r].op = "acceptInvite"
      <4>1. channel[request[r].ch].used
        BY <1>7, <3>2 DEF Knows, Settling, IInv, RowsRefer
      <4> QED BY <1>0, <3>2, <4>1 DEF InsertChannelMember, TypeOK, ChannelMemberRow
    <3> QED BY <3>1, <3>2 DEF CreateInviteWrite, AcceptInviteWrite, AcceptInviteTx,
                              DeclineInviteWrite, At
  <2> QED BY <1>3, <1>8, <2>1 DEF IInv, RowsRefer
<1> QED BY <1>3, <1>4, <1>5, <1>6, <1>10, <1>11, ChannelTablesKeepIInv

LEMMA InviteExpiresKeepsIInv ==
    ASSUME IInv, NEW i \in Rows, InviteExpires(i)
    PROVE  IInv'
<1>1. invite' \in [Rows -> InviteRow]
  BY InviteFieldType DEF InviteExpires, IInv
<1>2. TypeOK'
  BY <1>1 DEF IInv, TypeOK, InviteExpires
<1>3. SoundOwnership'
  BY DEF IInv, SoundOwnership, Owners, InviteExpires
<1>4. \A j \in Rows : /\ invite'[j].used = invite[j].used
                      /\ invite'[j].channel = invite[j].channel
                      /\ invite'[j].email = invite[j].email
                      /\ invite'[j].role = invite[j].role
  BY DEF IInv, TypeOK, InviteExpires, InviteRow
<1>5. RequestsKnow'
  BY <1>4 DEF IInv, RequestsKnow, Knows, InviteExpires
<1>6. RowsRefer'
  BY <1>4 DEF IInv, RowsRefer, InviteExpires
<1> QED BY <1>2, <1>3, <1>5, <1>6 DEF IInv

LEMMA FaultReads ==
    ASSUME IInv, NEW r \in Requests, Fault(r)
    PROVE  Reads(r)
BY DEF IInv, TypeOK, Fault, Finish, Reads

-----------------------------------------------------------------------------
LEMMA WorkspaceMethodKeepsIInv ==
    ASSUME IInv, NEW r \in Requests, WorkspaceMethod(r)
    PROVE  IInv'
<1>1. CASE WorkspaceNotFound(r)
  BY <1>1 DEF WorkspaceNotFound, vars, tables, IInv, TypeOK, SoundOwnership, Owners,
              RequestsKnow, Knows, RowsRefer
<1>2. CASE LeaveWorkspace(r)
  BY <1>2, LeaveWorkspaceSteps, ReadsKeepIInv, LeaveWorkspaceWriteKeepsIInv,
     CascadeKeepsIInv
<1>3. CASE UpdateMemberRole(r)
  BY <1>3, UpdateMemberRoleSteps, ReadsKeepIInv, UpdateMemberRoleWriteKeepsIInv
<1>4. CASE RemoveMember(r)
  BY <1>4, RemoveMemberSteps, ReadsKeepIInv, RemoveMemberWriteKeepsIInv, CascadeKeepsIInv
<1>5. CASE TransferOwnership(r)
  BY <1>5, TransferOwnershipSteps, ReadsKeepIInv, TransferOwnershipWriteKeepsIInv
<1>6. CASE AddMember(r)
  BY <1>6, AddMemberSteps, ReadsKeepIInv, AddMemberWriteKeepsIInv
<1>7. CASE ArchiveWorkspace(r)
  BY <1>7, ArchiveWorkspaceSteps, ReadsKeepIInv, WorkspaceRowWritesKeepIInv
<1>8. CASE DeleteWorkspace(r)
  BY <1>8, DeleteWorkspaceSteps, ReadsKeepIInv, WorkspaceRowWritesKeepIInv
<1>9. CASE RestoreWorkspace(r)
  BY <1>9, RestoreWorkspaceSteps, ReadsKeepIInv, WorkspaceRowWritesKeepIInv
<1> QED BY <1>1, <1>2, <1>3, <1>4, <1>5, <1>6, <1>7, <1>8, <1>9 DEF WorkspaceMethod

LEMMA ChannelMethodKeepsIInv ==
    ASSUME IInv, NEW r \in Requests, ChannelMethod(r)
    PROVE  IInv'
<1>1. CASE CreateChannel(r)
  BY <1>1, CreateChannelSteps, ReadsKeepIInv, ChannelMemberWritesKeepIInv
<1>2. CASE AddChannelMember(r)
  BY <1>2, AddChannelMemberSteps, ReadsKeepIInv, ChannelMemberWritesKeepIInv
<1>3. CASE RemoveChannelMember(r)
  BY <1>3, RemoveChannelMemberSteps, ReadsKeepIInv, ChannelMemberWritesKeepIInv
<1>4. CASE LeaveChannel(r)
  BY <1>4, LeaveChannelSteps, ReadsKeepIInv, ChannelMemberWritesKeepIInv
<1>5. CASE ArchiveChannel(r)
  BY <1>5, ArchiveChannelSteps, ReadsKeepIInv, ChannelRowWritesKeepIInv
<1>6. CASE DeleteChannel(r)
  BY <1>6, DeleteChannelSteps, ReadsKeepIInv, ChannelRowWritesKeepIInv
<1>7. CASE RestoreChannel(r)
  BY <1>7, RestoreChannelSteps, ReadsKeepIInv, ChannelRowWritesKeepIInv
<1>8. CASE CreateInvite(r)
  BY <1>8, CreateInviteSteps, ReadsKeepIInv, InviteWritesKeepIInv
<1>9. CASE AcceptInvite(r)
  BY <1>9, AcceptInviteSteps, ReadsKeepIInv, InviteWritesKeepIInv
<1>10. CASE DeclineInvite(r)
  BY <1>10, DeclineInviteSteps, ReadsKeepIInv, InviteWritesKeepIInv
<1> QED BY <1>1, <1>2, <1>3, <1>4, <1>5, <1>6, <1>7, <1>8, <1>9, <1>10 DEF ChannelMethod

LEMMA InitIInv == Init => IInv
<1> SUFFICES ASSUME Init PROVE IInv
  OBVIOUS
<1>1. member \in [Rows -> MemberRow]
  <2> SUFFICES ASSUME NEW m \in Rows PROVE member[m] \in MemberRow
    BY DEF Init
  <2> DEFINE who == IF \E u \in Joined : m = RowOf[u]
                    THEN CHOOSE u \in Joined : m = RowOf[u] ELSE Founder
             here == \E u \in Joined \cup {Founder} : m = RowOf[u]
             role == IF m = RowOf[Founder] THEN "OWNER" ELSE "MEMBER"
  <2>1. who \in Users
    OBVIOUS
  <2>2. here \in BOOLEAN
    OBVIOUS
  <2>3. role \in Roles
    BY DEF Roles
  <2>4. member[m] = [used |-> here, user |-> who, role |-> role, deletedAt |-> FALSE]
    BY DEF Init
  <2> HIDE DEF who, here, role
  <2> QED BY <2>1, <2>2, <2>3, <2>4 DEF MemberRow
<1>2. AnyChannel \in Channels
  BY DEF AnyChannel
<1>3. TypeOK
  BY <1>1, <1>2 DEF Init, TypeOK, ChannelRow, ChannelMemberRow, InviteRow, Roles, Grantable
<1>4. SoundOwnership
  <2>1. \A m \in Owners : m = RowOf[Founder]
    BY DEF Owners, Init
  <2>2. RowOf[Founder] \in Rows /\ ~\E u \in Joined : RowOf[Founder] = RowOf[u]
    OBVIOUS
  <2>3. member[RowOf[Founder]].user = Founder /\ workspace.ownerId = Founder
    BY <2>2 DEF Init
  <2> QED BY <2>1, <2>3 DEF SoundOwnership
<1>5. RequestsKnow
  BY DEF Init, RequestsKnow
<1>6. RowsRefer
  BY DEF Init, RowsRefer
<1> QED BY <1>3, <1>4, <1>5, <1>6 DEF IInv

LEMMA NextKeepsIInv == IInv /\ [Next]_vars => IInv'
<1> SUFFICES ASSUME IInv, [Next]_vars PROVE IInv'
  OBVIOUS
<1>1. CASE UNCHANGED vars
  BY <1>1 DEF vars, tables, IInv, TypeOK, SoundOwnership, Owners, RequestsKnow, Knows,
              RowsRefer
<1>2. ASSUME NEW r \in Requests, WorkspaceMethod(r) PROVE IInv'
  BY <1>2, WorkspaceMethodKeepsIInv
<1>3. ASSUME NEW r \in Requests, ChannelMethod(r) PROVE IInv'
  BY <1>3, ChannelMethodKeepsIInv
<1>4. ASSUME NEW r \in Requests, Fault(r) PROVE IInv'
  BY <1>4, FaultReads, ReadsKeepIInv
<1>5. ASSUME NEW i \in Rows, InviteExpires(i) PROVE IInv'
  BY <1>5, InviteExpiresKeepsIInv
<1> QED BY <1>1, <1>2, <1>3, <1>4, <1>5 DEF Next

THEOREM Invariance == Spec => []IInv
BY InitIInv, NextKeepsIInv, PTL DEF Spec

\* The tables and what requests remember of them stay well typed: a role a
\* request grants is never OWNER, and ownerId is always a user.
THEOREM TypeCorrectness == Spec => []TypeOK
<1>1. IInv => TypeOK
  BY DEF IInv
<1> QED BY <1>1, Invariance, PTL

\* At most one member is OWNER and it is the user ownerId names, for any
\* number of concurrent requests of every method.
THEOREM OwnershipIsSound == Spec => []SoundOwnership
<1>1. IInv => SoundOwnership
  BY DEF IInv
<1> QED BY <1>1, Invariance, PTL

-----------------------------------------------------------------------------
(***************************************************************************)
(* From here on IInv is assumed: what a request knows when it writes is     *)
(* part of it.  A step reads or is one of the named writes; of those, each  *)
(* lemma looks at the ones that write one table.                           *)
(***************************************************************************)
WorkspaceWrite(r) ==
    ArchiveWorkspaceWrite(r) \/ DeleteWorkspaceWrite(r) \/ RestoreWorkspaceWrite(r)

MemberWrite(r) ==
    \/ LeaveWorkspaceWrite(r) \/ UpdateMemberRoleWrite(r) \/ RemoveMemberWrite(r)
    \/ TransferOwnershipWrite(r) \/ AddMemberWrite(r)

Cascade(r) ==
    \E op \in {"leaveWorkspace", "removeMember"} :
        CascadeChannels(r, op) \/ CascadeInvites(r, op)

ChannelWrite(r) == ArchiveChannelWrite(r) \/ DeleteChannelWrite(r) \/ RestoreChannelWrite(r)

ChannelMemberWrite(r) ==
    \/ CreateChannelWrite(r) \/ AddChannelMemberWrite(r)
    \/ RemoveChannelMemberWrite(r) \/ LeaveChannelWrite(r)

InviteWrite(r) == CreateInviteWrite(r) \/ AcceptInviteWrite(r) \/ DeclineInviteWrite(r)

Write(r) ==
    \/ WorkspaceWrite(r) \/ MemberWrite(r) \/ Cascade(r)
    \/ ChannelWrite(r) \/ ChannelMemberWrite(r) \/ InviteWrite(r)

LEMMA WorkspaceMethodReadsOrWrites ==
    ASSUME IInv, NEW r \in Requests, WorkspaceMethod(r)
    PROVE  UNCHANGED tables \/ Write(r)
<1>1. CASE WorkspaceNotFound(r)
  BY <1>1 DEF WorkspaceNotFound, vars
<1>2. CASE LeaveWorkspace(r)
  BY <1>2, LeaveWorkspaceSteps DEF Reads, Write, MemberWrite, Cascade
<1>3. CASE UpdateMemberRole(r)
  BY <1>3, UpdateMemberRoleSteps DEF Reads, Write, MemberWrite
<1>4. CASE RemoveMember(r)
  BY <1>4, RemoveMemberSteps DEF Reads, Write, MemberWrite, Cascade
<1>5. CASE TransferOwnership(r)
  BY <1>5, TransferOwnershipSteps DEF Reads, Write, MemberWrite
<1>6. CASE AddMember(r)
  BY <1>6, AddMemberSteps DEF Reads, Write, MemberWrite
<1>7. CASE ArchiveWorkspace(r)
  BY <1>7, ArchiveWorkspaceSteps DEF Reads, Write, WorkspaceWrite
<1>8. CASE DeleteWorkspace(r)
  BY <1>8, DeleteWorkspaceSteps DEF Reads, Write, WorkspaceWrite
<1>9. CASE RestoreWorkspace(r)
  BY <1>9, RestoreWorkspaceSteps DEF Reads, Write, WorkspaceWrite
<1> QED BY <1>1, <1>2, <1>3, <1>4, <1>5, <1>6, <1>7, <1>8, <1>9 DEF WorkspaceMethod

LEMMA ChannelMethodReadsOrWrites ==
    ASSUME IInv, NEW r \in Requests, ChannelMethod(r)
    PROVE  UNCHANGED tables \/ Write(r)
<1>1. CASE CreateChannel(r)
  BY <1>1, CreateChannelSteps DEF Reads, Write, ChannelMemberWrite
<1>2. CASE AddChannelMember(r)
  BY <1>2, AddChannelMemberSteps DEF Reads, Write, ChannelMemberWrite
<1>3. CASE RemoveChannelMember(r)
  BY <1>3, RemoveChannelMemberSteps DEF Reads, Write, ChannelMemberWrite
<1>4. CASE LeaveChannel(r)
  BY <1>4, LeaveChannelSteps DEF Reads, Write, ChannelMemberWrite
<1>5. CASE ArchiveChannel(r)
  BY <1>5, ArchiveChannelSteps DEF Reads, Write, ChannelWrite
<1>6. CASE DeleteChannel(r)
  BY <1>6, DeleteChannelSteps DEF Reads, Write, ChannelWrite
<1>7. CASE RestoreChannel(r)
  BY <1>7, RestoreChannelSteps DEF Reads, Write, ChannelWrite
<1>8. CASE CreateInvite(r)
  BY <1>8, CreateInviteSteps DEF Reads, Write, InviteWrite
<1>9. CASE AcceptInvite(r)
  BY <1>9, AcceptInviteSteps DEF Reads, Write, InviteWrite
<1>10. CASE DeclineInvite(r)
  BY <1>10, DeclineInviteSteps DEF Reads, Write, InviteWrite
<1> QED BY <1>1, <1>2, <1>3, <1>4, <1>5, <1>6, <1>7, <1>8, <1>9, <1>10 DEF ChannelMethod

LEMMA NextReadsOrWrites ==
    ASSUME IInv, [Next]_vars
    PROVE  \/ UNCHANGED tables
           \/ \E r \in Requests : Write(r)
           \/ \E i \in Rows : InviteExpires(i)
<1>1. CASE UNCHANGED vars
  BY <1>1 DEF vars
<1>2. ASSUME NEW r \in Requests, Fault(r) PROVE UNCHANGED tables
  BY <1>2 DEF Fault
<1> QED BY <1>1, <1>2, WorkspaceMethodReadsOrWrites, ChannelMethodReadsOrWrites DEF Next

-----------------------------------------------------------------------------
(***************************************************************************)
(* WorkspaceMember rows: all but one write leave a row as it was, delete it *)
(* or change a role below OWNER; transferOwnership hands OWNER over.        *)
(***************************************************************************)
KeepsMember(m) ==
    /\ Live(member'[m]) => Live(member[m])
    /\ member'[m].user = member[m].user
    /\ member'[m].role = "OWNER" => member[m].role = "OWNER"

LEMMA LeavingKeepsMembers ==
    ASSUME IInv, NEW r \in Requests,
           LeaveWorkspaceWrite(r) \/ UpdateMemberRoleWrite(r) \/ RemoveMemberWrite(r)
    PROVE  \A m \in Rows : KeepsMember(m)
<1> SUFFICES ASSUME NEW m \in Rows PROVE KeepsMember(m)
  OBVIOUS
<1>1. member[m] \in MemberRow
  BY DEF IInv, TypeOK
<1>2. CASE LeaveWorkspaceWrite(r)
  <2> DEFINE gone == member[m].deletedAt \/ m \in ActiveMembers(request[r].by)
  <2>1. member'[m] = [member[m] EXCEPT !.deletedAt = gone]
    BY <1>2 DEF LeaveWorkspaceWrite
  <2>2. ~gone => ~member[m].deletedAt
    OBVIOUS
  <2> HIDE DEF gone
  <2> QED BY <1>1, <2>1, <2>2 DEF KeepsMember, Live, MemberRow
<1>3. CASE UpdateMemberRoleWrite(r)
  <2>1. request[r].role \in Grantable
    BY <1>3 DEF IInv, TypeOK, UpdateMemberRoleWrite, At, Request
  <2>2. member'[m] = member[m] \/ member'[m] = [member[m] EXCEPT !.role = request[r].role]
    BY <1>3 DEF UpdateMemberRoleWrite, IInv, TypeOK
  <2> QED BY <1>1, <2>1, <2>2 DEF KeepsMember, Live, MemberRow, Grantable
<1>4. CASE RemoveMemberWrite(r)
  <2>1. \/ member' = member
        \/ member' = [member EXCEPT ![request[r].row].deletedAt = TRUE]
    BY <1>4 DEF RemoveMemberWrite
  <2>2. member \in [Rows -> MemberRow]
    BY DEF IInv, TypeOK
  <2>3. member'[m] = member[m] \/ member'[m] = [member[m] EXCEPT !.deletedAt = TRUE]
    BY <2>1, <2>2
  <2> QED BY <1>1, <2>3 DEF KeepsMember, Live, MemberRow
<1> QED BY <1>2, <1>3, <1>4

LEMMA TransferringHandsOver ==
    ASSUME IInv, NEW r \in Requests, TransferOwnershipWrite(r)
    PROVE  /\ HandOver /\ FrozenWhenInactive
           /\ \A m \in Rows : /\ Live(member'[m]) => Live(member[m])
                              /\ member'[m].user = member[m].user
<1> DEFINE q == request[r]
<1>0. /\ q \in Request /\ q.row \in Rows /\ q.own \in Rows
      /\ member[q.row].used /\ member[q.row].user = q.whom
  BY DEF IInv, TypeOK, TransferOwnershipWrite, At, RequestsKnow, Knows, Targeting
<1> HIDE DEF q
<1>1. CASE UNCHANGED <<member, workspace>>
  BY <1>1 DEF HandOver, FrozenWhenInactive, Owners, WorkspaceActive
<1>2. CASE /\ q.own \in Owners /\ member[q.row].role \in Grantable /\ WorkspaceActive
           /\ member' = [member EXCEPT ![q.own].role = "ADMIN", ![q.row].role = "OWNER"]
           /\ workspace' = [workspace EXCEPT !.ownerId = q.whom]
  <2>1. q.own # q.row
    BY <1>2 DEF Owners, Grantable
  <2>2. /\ member'[q.own] = [member[q.own] EXCEPT !.role = "ADMIN"]
        /\ member'[q.row] = [member[q.row] EXCEPT !.role = "OWNER"]
        /\ \A m \in Rows \ {q.own, q.row} : member'[m] = member[m]
    BY <1>0, <1>2, <2>1 DEF IInv, TypeOK
  <2>3. \A m \in Rows : member[m] \in MemberRow
    BY DEF IInv, TypeOK
  <2>4. Owners' \ Owners \subseteq {q.row}
    BY <1>0, <2>2, <2>3 DEF Owners, Live, MemberRow
  <2>5. workspace'.ownerId = q.whom
    BY <1>2 DEF IInv, TypeOK
  <2>6. q.own \in Owners /\ member'[q.own].role = "ADMIN" /\ ~member'[q.own].deletedAt
    BY <1>0, <1>2, <2>2, <2>3 DEF Owners, Live, MemberRow
  <2>7. HandOver
    BY <1>0, <2>4, <2>5, <2>6 DEF HandOver
  <2>8. FrozenWhenInactive
    BY <1>2 DEF FrozenWhenInactive, WorkspaceActive
  <2> QED BY <1>0, <2>2, <2>3, <2>7, <2>8 DEF Live, MemberRow
<1> QED BY <1>0, <1>1, <1>2 DEF TransferOwnershipWrite, TransferOwnershipTx, Owners, q

LEMMA AddingAddsOneMember ==
    ASSUME IInv, NEW r \in Requests, AddMemberWrite(r)
    PROVE  \E f \in Rows : /\ \A m \in Rows \ {f} : KeepsMember(m)
                           /\ \/ KeepsMember(f)
                              \/ /\ ActiveMembers(member'[f].user) = {}
                                 /\ member'[f].role # "OWNER"
<1>1. CASE UNCHANGED member
  <2>1. RowOf[Founder] \in Rows
    BY TenancyAssumption
  <2> QED BY <1>1, <2>1 DEF KeepsMember
<1>2. CASE /\ ~MemberConflict(request[r].whom)
           /\ InsertMember(request[r].whom, request[r].role)
  <2> DEFINE f == FreshRow(member)
  <2>1. f \in Rows /\ ~member[f].used
    BY <1>2 DEF InsertMember, FreshRow, UnusedRows, Inserted
  <2>2. member' = [member EXCEPT ![f] = [used |-> TRUE, user |-> request[r].whom,
                                         role |-> request[r].role, deletedAt |-> FALSE]]
    BY <1>2 DEF InsertMember
  <2> HIDE DEF f
  <2>3. /\ member'[f].user = request[r].whom /\ member'[f].role = request[r].role
        /\ \A m \in Rows \ {f} : member'[m] = member[m]
    BY <2>1, <2>2 DEF IInv, TypeOK
  <2>4. request[r].role # "OWNER"
    BY DEF IInv, TypeOK, AddMemberWrite, At, Request, Grantable
  <2> QED BY <1>2, <2>1, <2>3, <2>4 DEF KeepsMember, MemberConflict
<1> QED BY <1>1, <1>2 DEF AddMemberWrite

\* All a step may do to members.
LEMMA MembersStep ==
    ASSUME IInv, [Next]_vars
    PROVE  \/ UNCHANGED member
           \/ \A m \in Rows : KeepsMember(m)
           \/ \E r \in Requests : TransferOwnershipWrite(r)
           \/ \E r \in Requests : AddMemberWrite(r)
<1>1. ASSUME NEW r \in Requests, Write(r), ~MemberWrite(r)
      PROVE  UNCHANGED member
  BY <1>1 DEF Write, WorkspaceWrite, ArchiveWorkspaceWrite, DeleteWorkspaceWrite,
      RestoreWorkspaceWrite, Cascade, CascadeChannels, CascadeInvites,
      ChannelWrite, ArchiveChannelWrite, DeleteChannelWrite, RestoreChannelWrite,
      ChannelMemberWrite, CreateChannelWrite, AddChannelMemberWrite,
      RemoveChannelMemberWrite, LeaveChannelWrite,
      InviteWrite, CreateInviteWrite, AcceptInviteWrite, DeclineInviteWrite
<1>2. ASSUME NEW i \in Rows, InviteExpires(i) PROVE UNCHANGED member
  BY <1>2 DEF InviteExpires
<1>3. UNCHANGED tables => UNCHANGED member
  BY DEF tables
<1> QED BY <1>1, <1>2, <1>3, NextReadsOrWrites, LeavingKeepsMembers DEF MemberWrite

LEMMA StepHandsOver ==
    ASSUME IInv, [Next]_vars
    PROVE  HandOver
<1>1. CASE UNCHANGED member
  BY <1>1 DEF HandOver, Owners
<1>2. CASE \A m \in Rows : KeepsMember(m)
  BY <1>2 DEF HandOver, Owners, KeepsMember
<1>3. ASSUME NEW r \in Requests, AddMemberWrite(r)
      PROVE  HandOver
  <2>1. Owners' \subseteq Owners
    BY <1>3, AddingAddsOneMember DEF Owners, KeepsMember
  <2> QED BY <2>1 DEF HandOver
<1> QED BY <1>1, <1>2, <1>3, MembersStep, TransferringHandsOver

\* OWNER passes from hand to hand: whoever becomes OWNER takes over, in the same
\* step, from the OWNER who becomes ADMIN, and ownerId moves along -- whatever
\* archives, removals, role changes and other transfers run beside it.
THEOREM OwnershipMovesByHandOver == Spec => OwnershipHandedOver
<1>1. IInv /\ [Next]_vars => [HandOver]_vars
  BY StepHandsOver
<1> QED BY <1>1, Invariance, PTL DEF Spec, OwnershipHandedOver

LEMMA StepFreezes ==
    ASSUME IInv, [Next]_vars
    PROVE  FrozenWhenInactive
<1>1. CASE UNCHANGED workspace
  BY <1>1 DEF FrozenWhenInactive, WorkspaceActive
<1>2. ASSUME NEW r \in Requests, WorkspaceWrite(r)
      PROVE  FrozenWhenInactive
  BY <1>2 DEF WorkspaceWrite, ArchiveWorkspaceWrite, DeleteWorkspaceWrite,
      RestoreWorkspaceWrite, FrozenWhenInactive, WorkspaceActive, IInv, TypeOK
<1>3. ASSUME NEW r \in Requests, Write(r), ~WorkspaceWrite(r), ~TransferOwnershipWrite(r)
      PROVE  UNCHANGED workspace
  BY <1>3 DEF Write, Cascade, CascadeChannels, CascadeInvites,
      MemberWrite, LeaveWorkspaceWrite, UpdateMemberRoleWrite, RemoveMemberWrite,
      AddMemberWrite,
      ChannelWrite, ArchiveChannelWrite, DeleteChannelWrite, RestoreChannelWrite,
      ChannelMemberWrite, CreateChannelWrite, AddChannelMemberWrite,
      RemoveChannelMemberWrite, LeaveChannelWrite,
      InviteWrite, CreateInviteWrite, AcceptInviteWrite, DeclineInviteWrite
<1>4. ASSUME NEW i \in Rows, InviteExpires(i) PROVE UNCHANGED workspace
  BY <1>4 DEF InviteExpires
<1>5. UNCHANGED tables => UNCHANGED workspace
  BY DEF tables
<1> QED BY <1>1, <1>2, <1>3, <1>4, <1>5, NextReadsOrWrites, TransferringHandsOver

\* A transfer that passed its checks before an archive does not move ownership
\* after it, and no restore that passed its checks brings back a workspace
\* deleted meanwhile.
THEOREM InactiveStaysFrozen == Spec => InactiveIsFrozen
<1>1. IInv /\ [Next]_vars => [FrozenWhenInactive]_vars
  BY StepFreezes
<1> QED BY <1>1, Invariance, PTL DEF Spec, InactiveIsFrozen

-----------------------------------------------------------------------------
(***************************************************************************)
(* ChannelMember rows: at most one of them is inserted in a step, and then  *)
(* for a user who has none in the channel; the others keep their user,      *)
(* channel and role, and do not come back to life.                         *)
(***************************************************************************)
KeepsChannelMember(m) ==
    /\ Live(channelMember'[m]) => Live(channelMember[m])
    /\ channelMember'[m].used = channelMember[m].used
    /\ channelMember'[m].user = channelMember[m].user
    /\ channelMember'[m].channel = channelMember[m].channel
    /\ channelMember'[m].role = channelMember[m].role

\* A new row is its user's only one, and an OWNER's is the channel's first.
Enters(f) ==
    /\ ~channelMember[f].used
    /\ ActiveChannelMembers(channelMember'[f].channel, channelMember'[f].user) = {}
    /\ channelMember'[f].role = "OWNER" =>
           \A m \in Rows : channelMember[m].used =>
               channelMember[m].channel # channelMember'[f].channel

AtMostOneEnters ==
    \E f \in Rows : /\ \A m \in Rows \ {f} : KeepsChannelMember(m)
                    /\ KeepsChannelMember(f) \/ Enters(f)

LEMMA NoneEnters ==
    ASSUME \A m \in Rows : KeepsChannelMember(m)
    PROVE  AtMostOneEnters
<1>1. RowOf[Founder] \in Rows
  BY TenancyAssumption
<1> QED BY <1>1 DEF AtMostOneEnters

LEMMA InsertingEnters ==
    ASSUME IInv, NEW c, NEW u, NEW role, InsertChannelMember(c, u, role),
           ActiveChannelMembers(c, u) = {},
           role = "OWNER" => \A m \in Rows : channelMember[m].used => channelMember[m].channel # c
    PROVE  AtMostOneEnters
<1>1. PICK f \in Rows :
          /\ ~channelMember[f].used
          /\ channelMember'[f] = [used |-> TRUE, channel |-> c, user |-> u, role |-> role,
                                  deletedAt |-> FALSE]
          /\ \A m \in Rows : m # f => channelMember'[m] = channelMember[m]
  BY InsertsFreshRow DEF IInv
<1>2. \A m \in Rows \ {f} : KeepsChannelMember(m)
  BY <1>1 DEF KeepsChannelMember
<1>3. Enters(f)
  BY <1>1 DEF Enters
<1> QED BY <1>2, <1>3 DEF AtMostOneEnters

LEMMA ChannelMemberWriteEnters ==
    ASSUME IInv, NEW r \in Requests, ChannelMemberWrite(r)
    PROVE  AtMostOneEnters
<1>0. \A m \in Rows : channelMember[m] \in ChannelMemberRow
  BY DEF IInv, TypeOK
<1>1. CASE UNCHANGED channelMember
  BY <1>1, NoneEnters DEF KeepsChannelMember
<1>2. CASE SoftDeleteChannelMember(request[r].row)
  <2> SUFFICES ASSUME NEW m \in Rows PROVE KeepsChannelMember(m)
    BY NoneEnters
  <2>1. \/ channelMember'[m] = channelMember[m]
        \/ channelMember'[m] = [channelMember[m] EXCEPT !.deletedAt = channelMember[m].used]
    BY <1>2 DEF SoftDeleteChannelMember, IInv, TypeOK
  <2> QED BY <1>0, <2>1 DEF KeepsChannelMember, Live, ChannelMemberRow
<1>3. CASE /\ CreateChannelWrite(r) /\ ~SlugTaken(request[r].ch)
           /\ InsertChannelMember(request[r].ch, request[r].by, "OWNER")
  <2>1. \A m \in Rows : channelMember[m].used => channelMember[m].channel # request[r].ch
    BY <1>3 DEF SlugTaken, IInv, RowsRefer
  <2>2. ActiveChannelMembers(request[r].ch, request[r].by) = {}
    BY <2>1 DEF ActiveChannelMembers, Live
  <2> QED BY <1>3, <2>1, <2>2, InsertingEnters
<1>4. CASE /\ AddChannelMemberWrite(r) /\ ~ChannelMemberConflict(request[r].ch, request[r].whom)
           /\ InsertChannelMember(request[r].ch, request[r].whom, request[r].role)
  <2>1. request[r].role # "OWNER"
    BY <1>4 DEF IInv, TypeOK, AddChannelMemberWrite, At, Request, Grantable
  <2> QED BY <1>4, <2>1, InsertingEnters DEF ChannelMemberConflict
<1> QED BY <1>1, <1>2, <1>3, <1>4 DEF ChannelMemberWrite, CreateChannelWrite,
           AddChannelMemberWrite, RemoveChannelMemberWrite, LeaveChannelWrite

LEMMA AcceptInviteWriteEnters ==
    ASSUME IInv, NEW r \in Requests, AcceptInviteWrite(r)
    PROVE  AtMostOneEnters
<1>1. CASE UNCHANGED channelMember
  BY <1>1, NoneEnters DEF KeepsChannelMember
<1>2. CASE /\ ~ChannelMemberConflict(request[r].ch, request[r].by)
           /\ InsertChannelMember(request[r].ch, request[r].by, request[r].role)
  <2>1. request[r].role # "OWNER"
    BY DEF IInv, TypeOK, AcceptInviteWrite, At, Request, Grantable
  <2> QED BY <1>2, <2>1, InsertingEnters DEF ChannelMemberConflict
<1> QED BY <1>1, <1>2 DEF AcceptInviteWrite, AcceptInviteTx

LEMMA CascadeEnters ==
    ASSUME IInv, NEW r \in Requests, Cascade(r)
    PROVE  AtMostOneEnters
<1>1. CASE UNCHANGED channelMember
  BY <1>1, NoneEnters DEF KeepsChannelMember
<1>2. CASE SoftDeleteChannelMembersByWorkspaceAndUserId(request[r].whom)
  <2> SUFFICES ASSUME NEW m \in Rows PROVE KeepsChannelMember(m)
    BY NoneEnters
  <2>1. \/ channelMember'[m] = channelMember[m]
        \/ channelMember'[m] = [channelMember[m] EXCEPT !.deletedAt = channelMember[m].used]
    BY <1>2 DEF SoftDeleteChannelMembersByWorkspaceAndUserId
  <2>2. channelMember[m] \in ChannelMemberRow
    BY DEF IInv, TypeOK
  <2> QED BY <2>1, <2>2 DEF KeepsChannelMember, Live, ChannelMemberRow
<1> QED BY <1>1, <1>2 DEF Cascade, CascadeChannels, CascadeInvites

LEMMA StepEnters ==
    ASSUME IInv, [Next]_vars
    PROVE  AtMostOneEnters
<1>1. CASE UNCHANGED channelMember
  BY <1>1, NoneEnters DEF KeepsChannelMember
<1>2. ASSUME NEW r \in Requests, Write(r), ~Cascade(r), ~ChannelMemberWrite(r),
             ~AcceptInviteWrite(r)
      PROVE  UNCHANGED channelMember
  BY <1>2 DEF Write, WorkspaceWrite, ArchiveWorkspaceWrite, DeleteWorkspaceWrite,
      RestoreWorkspaceWrite, MemberWrite, LeaveWorkspaceWrite, UpdateMemberRoleWrite,
      RemoveMemberWrite, TransferOwnershipWrite, AddMemberWrite,
      ChannelWrite, ArchiveChannelWrite, DeleteChannelWrite, RestoreChannelWrite,
      InviteWrite, CreateInviteWrite, DeclineInviteWrite
<1>3. ASSUME NEW i \in Rows, InviteExpires(i) PROVE UNCHANGED channelMember
  BY <1>3 DEF InviteExpires
<1>4. UNCHANGED tables => UNCHANGED channelMember
  BY DEF tables
<1> QED BY <1>1, <1>2, <1>3, <1>4, NextReadsOrWrites, ChannelMemberWriteEnters,
           AcceptInviteWriteEnters, CascadeEnters

LEMMA StepKeepsOneMembership ==
    ASSUME IInv, [Next]_vars, OneMembershipPerUser
    PROVE  OneMembershipPerUser'
<1>1. \A m, n \in Rows : Live(member'[m]) /\ Live(member'[n])
                            /\ member'[m].user = member'[n].user => m = n
  <2>1. CASE \A m \in Rows : /\ Live(member'[m]) => Live(member[m])
                             /\ member'[m].user = member[m].user
    BY <2>1 DEF OneMembershipPerUser
  <2>2. CASE UNCHANGED member
    BY <2>2 DEF OneMembershipPerUser
  <2>3. ASSUME NEW r \in Requests, AddMemberWrite(r)
        PROVE  \A m, n \in Rows : Live(member'[m]) /\ Live(member'[n])
                                  /\ member'[m].user = member'[n].user => m = n
    <3>1. PICK f \in Rows : /\ \A m \in Rows \ {f} : KeepsMember(m)
                            /\ KeepsMember(f) \/ ActiveMembers(member'[f].user) = {}
      BY <2>3, AddingAddsOneMember
    <3> SUFFICES ASSUME NEW m \in Rows, NEW n \in Rows, Live(member'[m]), Live(member'[n]),
                        member'[m].user = member'[n].user
                 PROVE  m = n
      OBVIOUS
    <3>2. CASE KeepsMember(m) /\ KeepsMember(n)
      BY <3>2 DEF KeepsMember, OneMembershipPerUser
    <3>3. CASE ~KeepsMember(f) /\ m = f /\ n # f
      <4>1. n \in ActiveMembers(member'[f].user)
        BY <3>1, <3>3 DEF KeepsMember, ActiveMembers
      <4> QED BY <3>1, <3>3, <4>1
    <3>4. CASE ~KeepsMember(f) /\ n = f /\ m # f
      <4>1. m \in ActiveMembers(member'[f].user)
        BY <3>1, <3>4 DEF KeepsMember, ActiveMembers
      <4> QED BY <3>1, <3>4, <4>1
    <3> QED BY <3>1, <3>2, <3>3, <3>4
  <2>4. (\A m \in Rows : KeepsMember(m)) =>
            \A m \in Rows : /\ Live(member'[m]) => Live(member[m])
                            /\ member'[m].user = member[m].user
    BY DEF KeepsMember
  <2> QED BY <2>1, <2>2, <2>3, <2>4, MembersStep, TransferringHandsOver
<1>2. \A m, n \in Rows : Live(channelMember'[m]) /\ Live(channelMember'[n])
                            /\ channelMember'[m].user = channelMember'[n].user
                            /\ channelMember'[m].channel = channelMember'[n].channel => m = n
  <2>1. PICK f \in Rows : /\ \A m \in Rows \ {f} : KeepsChannelMember(m)
                          /\ KeepsChannelMember(f) \/ Enters(f)
    BY StepEnters DEF AtMostOneEnters
  <2> SUFFICES ASSUME NEW m \in Rows, NEW n \in Rows,
                      Live(channelMember'[m]), Live(channelMember'[n]),
                      channelMember'[m].user = channelMember'[n].user,
                      channelMember'[m].channel = channelMember'[n].channel
               PROVE  m = n
    OBVIOUS
  <2> DEFINE same == ActiveChannelMembers(channelMember'[f].channel, channelMember'[f].user)
  <2>2. CASE KeepsChannelMember(m) /\ KeepsChannelMember(n)
    BY <2>2 DEF KeepsChannelMember, OneMembershipPerUser
  <2>3. CASE Enters(f) /\ m = f /\ n # f
    <3>1. n \in same
      BY <2>1, <2>3 DEF KeepsChannelMember, ActiveChannelMembers
    <3> QED BY <2>3, <3>1 DEF Enters
  <2>4. CASE Enters(f) /\ n = f /\ m # f
    <3>1. m \in same
      BY <2>1, <2>4 DEF KeepsChannelMember, ActiveChannelMembers
    <3> QED BY <2>4, <3>1 DEF Enters
  <2> QED BY <2>1, <2>2, <2>3, <2>4
<1> QED BY <1>1, <1>2 DEF OneMembershipPerUser, Live

LEMMA StepKeepsOneChannelOwner ==
    ASSUME IInv, [Next]_vars, OneChannelOwner
    PROVE  OneChannelOwner'
<1>1. PICK f \in Rows : /\ \A m \in Rows \ {f} : KeepsChannelMember(m)
                        /\ KeepsChannelMember(f) \/ Enters(f)
  BY StepEnters DEF AtMostOneEnters
<1> SUFFICES ASSUME NEW m \in Rows, NEW n \in Rows,
                    channelMember'[m].used, channelMember'[n].used,
                    channelMember'[m].role = "OWNER", channelMember'[n].role = "OWNER",
                    channelMember'[m].channel = channelMember'[n].channel
             PROVE  m = n
  BY DEF OneChannelOwner, Inserted
<1>2. CASE KeepsChannelMember(m) /\ KeepsChannelMember(n)
  BY <1>2 DEF KeepsChannelMember, OneChannelOwner, Inserted
<1>3. CASE Enters(f) /\ m = f /\ n # f
  BY <1>1, <1>3 DEF KeepsChannelMember, Enters
<1>4. CASE Enters(f) /\ n = f /\ m # f
  BY <1>1, <1>4 DEF KeepsChannelMember, Enters
<1> QED BY <1>1, <1>2, <1>3, <1>4

LEMMA InitOneMembership == Init => OneMembershipPerUser
<1>1. ASSUME Init, NEW m \in Rows, NEW n \in Rows, member[m].used, member[n].used,
             member[m].user = member[n].user
      PROVE  m = n
  <2>1. PICK u \in Joined \cup {Founder} : m = RowOf[u]
    BY <1>1, TenancyAssumption DEF Init
  <2>2. PICK v \in Joined \cup {Founder} : n = RowOf[v]
    BY <1>1, TenancyAssumption DEF Init
  <2>3. member[m].user = u
    BY <1>1, <2>1, TenancyAssumption DEF Init
  <2>4. member[n].user = v
    BY <1>1, <2>2, TenancyAssumption DEF Init
  <2> QED BY <1>1, <2>1, <2>2, <2>3, <2>4
<1>2. Init => \A m \in Rows : ~channelMember[m].used
  BY DEF Init
<1> QED BY <1>1, <1>2 DEF OneMembershipPerUser, Live

\* Nobody is a member of the workspace twice, or of a channel twice, however
\* many requests check first and insert an await later.
THEOREM NobodyIsAMemberTwice == Spec => []OneMembershipPerUser
<1>1. IInv /\ OneMembershipPerUser /\ [Next]_vars => OneMembershipPerUser'
  BY StepKeepsOneMembership
<1> QED BY <1>1, InitOneMembership, Invariance, PTL DEF Spec

\* A channel never has two explicit OWNER rows, also when creations of the same
\* slug race.
THEOREM AChannelHasOneOwner == Spec => []OneChannelOwner
<1>1. Init => OneChannelOwner
  BY DEF Init, OneChannelOwner, Inserted
<1>2. IInv /\ OneChannelOwner /\ [Next]_vars => OneChannelOwner'
  BY StepKeepsOneChannelOwner
<1> QED BY <1>1, <1>2, Invariance, PTL DEF Spec

-----------------------------------------------------------------------------
(***************************************************************************)
(* ChannelInvitation rows: only acceptInvite marks one used, in the step    *)
(* that admits the invitee, and only a pending one is settled at all.       *)
(***************************************************************************)
KeepsInvite(i) ==
    /\ invite'[i].usedById = invite[i].usedById
    /\ invite'[i].deletedAt => invite[i].deletedAt \/ Pending(invite[i])

LEMMA CreatingOrDeclining ==
    ASSUME IInv, NEW r \in Requests, CreateInviteWrite(r) \/ DeclineInviteWrite(r)
    PROVE  \A i \in Rows : KeepsInvite(i) \/ ~invite'[i].usedById
<1> SUFFICES ASSUME NEW i \in Rows PROVE KeepsInvite(i) \/ ~invite'[i].usedById
  OBVIOUS
<1>1. invite[i] \in InviteRow
  BY DEF IInv, TypeOK
<1>2. CASE CreateInviteWrite(r)
  <2>1. invite'[i] = invite[i] \/ ~invite'[i].usedById
    BY <1>2 DEF CreateInviteWrite, IInv, TypeOK
  <2> QED BY <2>1 DEF KeepsInvite
<1>3. CASE DeclineInviteWrite(r)
  <2> DEFINE j == request[r].row
             gone == invite[j].deletedAt \/ Pending(invite[j])
  <2>1. invite'[i] = invite[i] \/ (i = j /\ invite'[i] = [invite[i] EXCEPT !.deletedAt = gone])
    BY <1>3 DEF DeclineInviteWrite, IInv, TypeOK
  <2>2. i = j /\ gone => invite[i].deletedAt \/ Pending(invite[i])
    OBVIOUS
  <2> HIDE DEF j, gone
  <2> QED BY <1>1, <2>1, <2>2 DEF KeepsInvite, InviteRow
<1> QED BY <1>2, <1>3

LEMMA CascadingKeepsInvites ==
    ASSUME IInv, NEW r \in Requests, Cascade(r)
    PROVE  \A i \in Rows : KeepsInvite(i)
<1> SUFFICES ASSUME NEW i \in Rows PROVE KeepsInvite(i)
  OBVIOUS
<1>1. invite[i] \in InviteRow
  BY DEF IInv, TypeOK
<1>2. CASE UNCHANGED invite
  BY <1>2 DEF KeepsInvite
<1>3. CASE SoftDeletePendingInvitesByWorkspaceAndEmail(request[r].whom)
  <2>1. \/ invite'[i] = invite[i]
        \/ Pending(invite[i]) /\ invite'[i] = [invite[i] EXCEPT !.deletedAt = TRUE]
    BY <1>3 DEF SoftDeletePendingInvitesByWorkspaceAndEmail
  <2> QED BY <1>1, <2>1 DEF KeepsInvite, InviteRow
<1> QED BY <1>2, <1>3 DEF Cascade, CascadeChannels, CascadeInvites

LEMMA ExpiringKeepsInvites ==
    ASSUME IInv, NEW j \in Rows, InviteExpires(j)
    PROVE  \A i \in Rows : KeepsInvite(i)
<1> SUFFICES ASSUME NEW i \in Rows PROVE KeepsInvite(i)
  OBVIOUS
<1>1. invite[i] \in InviteRow
  BY DEF IInv, TypeOK
<1>2. invite'[i] = invite[i] \/ invite'[i] = [invite[i] EXCEPT !.expired = TRUE]
  BY DEF InviteExpires, IInv, TypeOK
<1> QED BY <1>1, <1>2 DEF KeepsInvite, InviteRow

\* All a step may do to invitations.
LEMMA InvitesStep ==
    ASSUME IInv, [Next]_vars
    PROVE  \/ \A i \in Rows : KeepsInvite(i) \/ ~invite'[i].usedById
           \/ \E r \in Requests : AcceptInviteWrite(r)
<1>1. UNCHANGED invite => \A i \in Rows : KeepsInvite(i)
  BY DEF KeepsInvite
<1>2. ASSUME NEW r \in Requests, Write(r), ~Cascade(r), ~InviteWrite(r)
      PROVE  UNCHANGED invite
  BY <1>2 DEF Write, WorkspaceWrite, ArchiveWorkspaceWrite, DeleteWorkspaceWrite,
      RestoreWorkspaceWrite, MemberWrite, LeaveWorkspaceWrite, UpdateMemberRoleWrite,
      RemoveMemberWrite, TransferOwnershipWrite, AddMemberWrite,
      ChannelWrite, ArchiveChannelWrite, DeleteChannelWrite, RestoreChannelWrite,
      ChannelMemberWrite, CreateChannelWrite, AddChannelMemberWrite,
      RemoveChannelMemberWrite, LeaveChannelWrite
<1>3. UNCHANGED tables => UNCHANGED invite
  BY DEF tables
<1> QED BY <1>1, <1>2, <1>3, NextReadsOrWrites, CreatingOrDeclining, CascadingKeepsInvites,
           ExpiringKeepsInvites DEF InviteWrite

LEMMA AcceptingAdmits ==
    ASSUME IInv, NEW r \in Requests, AcceptInviteWrite(r)
    PROVE  /\ Admits
           /\ \A i \in Rows : KeepsInvite(i) \/ ~invite'[i].deletedAt
<1> DEFINE q == request[r]
<1>0. /\ q.row \in Rows
      /\ invite[q.row].channel = q.ch /\ invite[q.row].email = q.by
      /\ invite[q.row].role = q.role
  BY DEF IInv, TypeOK, AcceptInviteWrite, At, RequestsKnow, Knows, Settling
<1> HIDE DEF q
<1>1. CASE UNCHANGED <<invite, channelMember>>
  BY <1>1 DEF Admits, KeepsInvite
<1>2. CASE /\ Pending(invite[q.row])
           /\ invite' = [invite EXCEPT ![q.row].usedById = TRUE]
           /\ InsertChannelMember(q.ch, q.by, q.role)
  <2>1. PICK f \in Rows :
            /\ ~channelMember[f].used
            /\ channelMember'[f] = [used |-> TRUE, channel |-> q.ch, user |-> q.by,
                                    role |-> q.role, deletedAt |-> FALSE]
    BY <1>2, InsertsFreshRow DEF IInv
  <2>2. \A i \in Rows \ {q.row} : invite'[i] = invite[i]
    BY <1>2 DEF IInv, TypeOK
  <2>3. Admits
    BY <1>0, <2>1, <2>2 DEF Admits, Live
  <2>4. invite'[q.row].deletedAt = invite[q.row].deletedAt /\ ~invite[q.row].deletedAt
    BY <1>0, <1>2 DEF IInv, TypeOK, InviteRow, Pending, Live
  <2> QED BY <2>2, <2>3, <2>4 DEF KeepsInvite
<1> QED BY <1>1, <1>2 DEF AcceptInviteWrite, AcceptInviteTx, q

LEMMA StepSettlesOnce ==
    ASSUME IInv, [Next]_vars, InviteSettledOnce
    PROVE  InviteSettledOnce'
<1> SUFFICES ASSUME NEW i \in Rows PROVE ~(invite'[i].usedById /\ invite'[i].deletedAt)
  BY DEF InviteSettledOnce
<1>1. \/ KeepsInvite(i) \/ ~invite'[i].usedById \/ ~invite'[i].deletedAt
  BY InvitesStep, AcceptingAdmits
<1> QED BY <1>1 DEF KeepsInvite, InviteSettledOnce, Pending

LEMMA StepAdmits ==
    ASSUME IInv, [Next]_vars
    PROVE  Admits
<1>1. CASE \A i \in Rows : KeepsInvite(i) \/ ~invite'[i].usedById
  BY <1>1 DEF KeepsInvite, Admits
<1> QED BY <1>1, InvitesStep, AcceptingAdmits

\* An invitation is used or withdrawn, never both, however its acceptance, its
\* refusal and the cascade of its invitee's leaving race.
THEOREM InvitationsSettleOnce == Spec => []InviteSettledOnce
<1>1. Init => InviteSettledOnce
  BY DEF Init, InviteSettledOnce
<1>2. IInv /\ InviteSettledOnce /\ [Next]_vars => InviteSettledOnce'
  BY StepSettlesOnce
<1> QED BY <1>1, <1>2, Invariance, PTL DEF Spec

\* An invitation is marked used only in the step that makes its invitee a
\* member of its channel, with the role it carries.
THEOREM UsedInvitationsAdmit == Spec => UsedInviteAdmits
<1>1. IInv /\ [Next]_vars => [Admits]_vars
  BY StepAdmits
<1> QED BY <1>1, Invariance, PTL DEF Spec, UsedInviteAdmits

-----------------------------------------------------------------------------
(***************************************************************************)
(* One request at a time                                                    *)
(***************************************************************************)
Removal == {"leaveWorkspace", "removeMember"}
\* Past the query that asks whether the user is a member of the workspace.
PastWorkspaceMember(q) ==
    \/ q.op \in Filling /\ q.at \in {"existing", "pending", "write"}
    \/ q.op = "acceptInvite" /\ q.at \in {"channel", "existing", "write"}

\* What a request has read, and what only another request could make untrue.
KnowsAlone(q) ==
    /\ q.op \in {"leaveWorkspace", "acceptInvite"} => q.whom = q.by
    /\ q.op = "leaveWorkspace" /\ q.at = "write" => MayLeave(FindMemberRole(q.by))
    /\ q.op \in {"updateMemberRole", "removeMember"} /\ q.at = "write" =>
           /\ Live(member[q.row]) /\ member[q.row].role # "OWNER"
           /\ member[q.row].user = q.whom
    /\ q.op = "createChannel" => FindMemberRole(q.by) # None
    /\ PastWorkspaceMember(q) => FindMemberRole(q.whom) # None

StepOf(r) == WorkspaceMethod(r) \/ ChannelMethod(r) \/ Fault(r)

\* The step is of r, which is in the same method afterwards and knows what it has read.
GoesOn(r) ==
    /\ \A s \in Requests \ {r} : request'[s] = request[s]
    /\ request'[r] # Idle =>
           /\ request[r] # Idle => request'[r].op = request[r].op
           /\ KnowsAlone(request'[r])

LEMMA Beginning ==
    ASSUME TypeOK, NEW r \in Requests, NEW q, Accept(r, q), KnowsAlone(q)
    PROVE  GoesOn(r)
BY DEF TypeOK, Accept, GoesOn

LEMMA Advancing ==
    ASSUME TypeOK, NEW r \in Requests, NEW op, NEW at, At(r, op, at), NEW next \in Steps,
           NEW ok, Check(r, ok, [request[r] EXCEPT !.at = next]),
           \A q \in Request :
               /\ ok /\ q.op = op /\ q.at = next /\ q.by = request[r].by
               /\ q.whom = request[r].whom /\ q.row = request[r].row
               => KnowsAlone(q)
    PROVE  GoesOn(r)
<1> DEFINE q == [request[r] EXCEPT !.at = next]
<1>1. request[r] \in Request /\ request[r].op = op
  BY DEF At, TypeOK
<1>2. /\ q \in Request /\ q.op = op /\ q.at = next /\ q.by = request[r].by
      /\ q.whom = request[r].whom /\ q.row = request[r].row
  BY <1>1 DEF Request
<1>3. Check(r, ok, q)
  OBVIOUS
<1> HIDE DEF q
<1>4. /\ \A s \in Requests \ {r} : request'[s] = request[s]
      /\ request'[r] = Idle \/ (ok /\ request'[r] = q)
  BY <1>3 DEF Check, TypeOK
<1> QED BY <1>1, <1>2, <1>4 DEF GoesOn

LEMMA Ending ==
    ASSUME TypeOK, NEW r \in Requests, Finish(r)
    PROVE  GoesOn(r) /\ request'[r] = Idle
BY DEF TypeOK, Finish, GoesOn

LEMMA CallFields ==
    ASSUME NEW op \in AllOps, NEW u \in Users
    PROVE  /\ Call(op, u) \in Request /\ Call(op, u).op = op /\ Call(op, u).at = "role"
           /\ Call(op, u).by = u /\ Call(op, u).whom = u
BY TenancyAssumption DEF Call, Request, AnyChannel, Grantable, None, Steps

\* The operations of which nothing is kept.
Plain == AllOps \ (Removal \cup Filling \cup {"updateMemberRole", "acceptInvite", "createChannel"})
LEMMA PlainKnows ==
    ASSUME NEW q, \/ q.op \in Plain
                  \/ q.op \in {"removeMember", "updateMemberRole"} /\ q.at # "write"
    PROVE  KnowsAlone(q)
BY DEF KnowsAlone, Plain, Removal, PastWorkspaceMember, Filling

LEMMA PlainAdvances ==
    ASSUME TypeOK, NEW r \in Requests, NEW op \in Plain, NEW at, At(r, op, at), NEW next \in Steps,
           NEW ok, Check(r, ok, [request[r] EXCEPT !.at = next])
    PROVE  GoesOn(r)
<1>1. \A q \in Request : q.op = op => KnowsAlone(q)
  BY PlainKnows
<1> QED BY <1>1, Advancing

LEMMA LeaveWorkspaceGoesOn ==
    ASSUME IInv, NEW r \in Requests, request[r] # Idle => KnowsAlone(request[r]), LeaveWorkspace(r)
    PROVE  GoesOn(r)
<1>i. TypeOK
  BY DEF IInv
<1>1. ASSUME NEW u \in Users,
             AcceptOnActive(r, [Call("leaveWorkspace", u) EXCEPT !.at = "own"])
      PROVE  GoesOn(r)
  <2>1. KnowsAlone([Call("leaveWorkspace", u) EXCEPT !.at = "own"])
    BY DEF Call, KnowsAlone, PastWorkspaceMember, Filling
  <2> QED BY <1>i, <1>1, <2>1, Beginning DEF AcceptOnActive
<1>2. CASE /\ At(r, "leaveWorkspace", "own")
           /\ Check(r, MayLeave(FindMemberRole(request[r].by)),
                    [request[r] EXCEPT !.at = "write"])
  <2> DEFINE ok == MayLeave(FindMemberRole(request[r].by))
  <2>1. request[r].whom = request[r].by
    BY <1>2 DEF KnowsAlone, At
  <2>2. \A q \in Request : /\ ok /\ q.op = "leaveWorkspace" /\ q.at = "write"
                           /\ q.by = request[r].by /\ q.whom = request[r].whom
                           /\ q.row = request[r].row
                           => KnowsAlone(q)
    BY <2>1 DEF KnowsAlone, PastWorkspaceMember, Filling
  <2>3. At(r, "leaveWorkspace", "own") /\ Check(r, ok, [request[r] EXCEPT !.at = "write"])
        /\ "write" \in Steps
    BY <1>2 DEF Steps
  <2> HIDE DEF ok
  <2> QED BY <1>i, <2>2, <2>3, Advancing
<1>3. CASE LeaveWorkspaceWrite(r)
  <2>1. \/ request' = [request EXCEPT ![r] = Idle]
        \/ request' = [request EXCEPT ![r] = [@ EXCEPT !.at = "channels"]]
    BY <1>3 DEF LeaveWorkspaceWrite
  <2>2. request[r] \in Request /\ request[r].op = "leaveWorkspace"
        /\ request[r].whom = request[r].by
    BY <1>i, <1>3 DEF LeaveWorkspaceWrite, At, TypeOK, KnowsAlone
  <2> DEFINE q == [request[r] EXCEPT !.at = "channels"]
  <2>3. q.op = "leaveWorkspace" /\ q.whom = q.by /\ q.at = "channels"
    BY <2>2 DEF Request
  <2>4. KnowsAlone(q)
    BY <2>3 DEF KnowsAlone, PastWorkspaceMember, Filling
  <2> QED BY <1>i, <2>1, <2>2, <2>3, <2>4 DEF GoesOn, TypeOK
<1>4. CASE CascadeChannels(r, "leaveWorkspace")
  <2>1. request' = [request EXCEPT ![r] = [@ EXCEPT !.at = "invites"]]
    BY <1>4 DEF CascadeChannels
  <2>2. request[r] \in Request /\ request[r].op = "leaveWorkspace"
        /\ request[r].whom = request[r].by
    BY <1>i, <1>4 DEF CascadeChannels, At, TypeOK, KnowsAlone
  <2> DEFINE q == [request[r] EXCEPT !.at = "invites"]
  <2>3. q.op = "leaveWorkspace" /\ q.whom = q.by /\ q.at = "invites"
    BY <2>2 DEF Request
  <2>4. KnowsAlone(q)
    BY <2>3 DEF KnowsAlone, PastWorkspaceMember, Filling
  <2> QED BY <1>i, <2>1, <2>2, <2>3, <2>4 DEF GoesOn, TypeOK
<1>5. CASE CascadeInvites(r, "leaveWorkspace")
  BY <1>i, <1>5, Ending DEF CascadeInvites
<1> QED BY <1>1, <1>2, <1>3, <1>4, <1>5 DEF LeaveWorkspace

LEMMA CheckTargetGoesOn ==
    ASSUME IInv, NEW r \in Requests, NEW op \in Targeting, NEW allowed,
           NEW next \in {"own", "write"}, CheckTarget(r, op, allowed, next),
           allowed => member[request[r].row].role # "OWNER",
           op = "transferOwnership" \/ next = "write"
    PROVE  GoesOn(r)
<1> DEFINE q == [request[r] EXCEPT !.at = next, !.whom = Target(r).user]
           ok == Live(Target(r)) /\ allowed
<1>1. request[r] \in Request /\ request[r].op = op
  BY DEF IInv, TypeOK, CheckTarget, At
<1>2. q.op = op /\ q.at = next /\ q.whom = Target(r).user /\ q.row = request[r].row
  BY <1>1 DEF Request
<1>3. Check(r, ok, q)
  BY DEF CheckTarget
<1>4. /\ \A s \in Requests \ {r} : request'[s] = request[s]
      /\ request'[r] = Idle \/ (ok /\ request'[r] = q)
  BY <1>3 DEF Check, IInv, TypeOK
<1>5. ok => /\ Live(member[request[r].row]) /\ member[request[r].row].role # "OWNER"
            /\ Target(r) = member[request[r].row]
  BY DEF Target
<1> HIDE DEF q, ok
<1>6. ok => KnowsAlone(q)
  BY <1>2, <1>5 DEF KnowsAlone, PastWorkspaceMember, Filling, Targeting
<1> QED BY <1>1, <1>2, <1>4, <1>6 DEF GoesOn

LEMMA TargetingGoesOn ==
    ASSUME IInv, NEW r \in Requests, request[r] # Idle => KnowsAlone(request[r]),
           UpdateMemberRole(r) \/ RemoveMember(r) \/ TransferOwnership(r)
    PROVE  GoesOn(r)
<1>i. TypeOK
  BY DEF IInv
<1>1. ASSUME NEW u \in Users, NEW m, NEW role, NEW op \in Targeting,
             NEW q, q.op = op, q.at = "role", AcceptOnActive(r, q)
      PROVE  GoesOn(r)
  <2>1. KnowsAlone(q)
    BY <1>1, PlainKnows DEF Targeting, Plain, AllOps, Removal, Filling
  <2> QED BY <1>i, <1>1, <2>1, Beginning DEF AcceptOnActive
<1>2. CASE UpdateMemberRole(r)
  <2>1. ASSUME NEW u \in Users, NEW m \in Inserted(member), NEW role \in Grantable,
               AcceptOnActive(r, [Call("updateMemberRole", u) EXCEPT !.row = m, !.role = role])
        PROVE  GoesOn(r)
    <3> DEFINE q == [Call("updateMemberRole", u) EXCEPT !.row = m, !.role = role]
    <3>1. q.op = "updateMemberRole" /\ q.at = "role" /\ q.op \in Targeting
      BY DEF Call, Targeting
    <3>2. AcceptOnActive(r, q)
      BY <2>1
    <3> HIDE DEF q
    <3> QED BY <1>1, <3>1, <3>2
  <2>2. CASE CheckRole(r, "updateMemberRole", {"OWNER"}, "target")
    <3> DEFINE ok == FindMemberRole(request[r].by) \in {"OWNER"}
    <3>1. \A q \in Request : q.op = "updateMemberRole" /\ q.at = "target" => KnowsAlone(q)
      BY PlainKnows
    <3>2. /\ At(r, "updateMemberRole", "role") /\ "target" \in Steps
          /\ Check(r, ok, [request[r] EXCEPT !.at = "target"])
      BY <2>2 DEF CheckRole, Steps
    <3> HIDE DEF ok
    <3> QED BY <1>i, <3>1, <3>2, Advancing
  <2>3. CASE CheckTarget(r, "updateMemberRole", Target(r).role # "OWNER", "write")
    BY <2>3, CheckTargetGoesOn DEF Targeting, Target
  <2>4. CASE UpdateMemberRoleWrite(r)
    BY <1>i, <2>4, Ending DEF UpdateMemberRoleWrite
  <2> QED BY <1>2, <2>1, <2>2, <2>3, <2>4 DEF UpdateMemberRole
<1>3. CASE RemoveMember(r)
  <2>1. ASSUME NEW u \in Users, NEW m \in Inserted(member),
               AcceptOnActive(r, [Call("removeMember", u) EXCEPT !.row = m])
        PROVE  GoesOn(r)
    <3> DEFINE q == [Call("removeMember", u) EXCEPT !.row = m]
    <3>1. q.op = "removeMember" /\ q.at = "role" /\ q.op \in Targeting
      BY DEF Call, Targeting
    <3>2. AcceptOnActive(r, q)
      BY <2>1
    <3> HIDE DEF q
    <3> QED BY <1>1, <3>1, <3>2
  <2>2. ASSUME At(r, "removeMember", "role"), NEW role,
               Check(r, role \in Managers, [request[r] EXCEPT !.at = "target", !.seen = role])
        PROVE  GoesOn(r)
    <3> DEFINE q == [request[r] EXCEPT !.at = "target", !.seen = role]
    <3>1. q.op = "removeMember" /\ q.at = "target" /\ request[r].op = "removeMember"
      BY <1>i, <2>2 DEF At, TypeOK, Request
    <3>2. KnowsAlone(q)
      BY <3>1, PlainKnows
    <3>3. /\ \A s \in Requests \ {r} : request'[s] = request[s]
          /\ request'[r] = Idle \/ request'[r] = q
      BY <1>i, <2>2 DEF Check, TypeOK
    <3> QED BY <3>1, <3>2, <3>3 DEF GoesOn
  <2>3. CASE CheckTarget(r, "removeMember",
                         Removable(Target(r), request[r].by, request[r].seen), "write")
    BY <2>3, CheckTargetGoesOn DEF Targeting, Target, Removable
  <2>4. CASE RemoveMemberWrite(r) \/ CascadeChannels(r, "removeMember")
    <3>1. PICK next \in {"channels", "invites"} :
              \/ request' = [request EXCEPT ![r] = Idle]
              \/ request' = [request EXCEPT ![r] = [@ EXCEPT !.at = next]]
      BY <2>4 DEF RemoveMemberWrite, CascadeChannels, Finish
    <3>2. request[r] \in Request /\ request[r].op = "removeMember"
      BY <1>i, <2>4 DEF RemoveMemberWrite, CascadeChannels, At, TypeOK
    <3> DEFINE q == [request[r] EXCEPT !.at = next]
    <3>3. q.op = "removeMember" /\ q.at = next
      BY <3>2 DEF Request
    <3>4. KnowsAlone(q)
      BY <3>1, <3>3, PlainKnows
    <3> QED BY <1>i, <3>1, <3>2, <3>3, <3>4 DEF GoesOn, TypeOK
  <2>5. CASE CascadeInvites(r, "removeMember")
    BY <1>i, <2>5, Ending DEF CascadeInvites
  <2> QED BY <1>3, <2>1, <2>2, <2>3, <2>4, <2>5 DEF RemoveMember
<1>4. CASE TransferOwnership(r)
  <2>1. ASSUME NEW u \in Users, NEW m \in Inserted(member),
               AcceptOnActive(r, [Call("transferOwnership", u) EXCEPT !.row = m])
        PROVE  GoesOn(r)
    <3> DEFINE q == [Call("transferOwnership", u) EXCEPT !.row = m]
    <3>1. q.op = "transferOwnership" /\ q.at = "role" /\ q.op \in Targeting
      BY DEF Call, Targeting
    <3>2. AcceptOnActive(r, q)
      BY <2>1
    <3> HIDE DEF q
    <3> QED BY <1>1, <3>1, <3>2
  <2>2. CASE CheckRole(r, "transferOwnership", {"OWNER"}, "target")
    BY <1>i, <2>2, PlainAdvances DEF CheckRole, Steps, Plain, AllOps, Removal, Filling
  <2>3. CASE CheckTarget(r, "transferOwnership",
                         Target(r).role # "OWNER" /\ Target(r).user # request[r].by, "own")
    BY <2>3, CheckTargetGoesOn DEF Targeting, Target
  <2>4. ASSUME At(r, "transferOwnership", "own"), NEW mine,
               Check(r, mine # {}, [request[r] EXCEPT !.at = "write",
                                                      !.own = CHOOSE m \in mine : TRUE])
        PROVE  GoesOn(r)
    <3> DEFINE q == [request[r] EXCEPT !.at = "write", !.own = CHOOSE m \in mine : TRUE]
    <3>1. q.op = "transferOwnership" /\ request[r].op = "transferOwnership"
      BY <1>i, <2>4 DEF At, TypeOK, Request
    <3>2. KnowsAlone(q)
      <4>1. q.op \in Plain
        BY <3>1 DEF Plain, AllOps, Removal, Filling
      <4> HIDE DEF q
      <4> QED BY <4>1, PlainKnows
    <3>3. /\ \A s \in Requests \ {r} : request'[s] = request[s]
          /\ request'[r] = Idle \/ request'[r] = q
      BY <1>i, <2>4 DEF Check, TypeOK
    <3> QED BY <3>1, <3>2, <3>3 DEF GoesOn
  <2>5. CASE TransferOwnershipWrite(r)
    BY <1>i, <2>5, Ending DEF TransferOwnershipWrite
  <2> QED BY <1>4, <2>1, <2>2, <2>3, <2>4, <2>5 DEF TransferOwnership
<1> QED BY <1>2, <1>3, <1>4

LEMMA PlainWorkspaceGoesOn ==
    ASSUME IInv, NEW r \in Requests,
           AddMember(r) \/ ArchiveWorkspace(r) \/ DeleteWorkspace(r) \/ RestoreWorkspace(r)
    PROVE  GoesOn(r)
<1>i. TypeOK /\ {"addMember", "archiveWorkspace", "deleteWorkspace", "restoreWorkspace"} \subseteq Plain
  BY DEF IInv, Plain, AllOps, Removal, Filling
<1>1. ASSUME NEW q, q.op \in Plain, Accept(r, q)
      PROVE  GoesOn(r)
  BY <1>i, <1>1, PlainKnows, Beginning
<1>2. CASE AddMember(r)
  <2>1. ASSUME NEW u \in Users, NEW v \in Users, NEW role \in Grantable,
               Accept(r, [Call("addMember", u) EXCEPT !.whom = v, !.role = role])
        PROVE  GoesOn(r)
    <3>1. [Call("addMember", u) EXCEPT !.whom = v, !.role = role].op = "addMember"
      BY DEF Call
    <3> QED BY <1>1, <1>i, <2>1, <3>1
  <2>2. CASE CheckRole(r, "addMember", Managers, "existing")
    BY <1>i, <2>2, PlainAdvances DEF CheckRole, Steps
  <2>3. CASE /\ At(r, "addMember", "existing")
             /\ Check(r, ActiveMembers(request[r].whom) = {}, [request[r] EXCEPT !.at = "write"])
    BY <1>i, <2>3, PlainAdvances DEF Steps
  <2>4. CASE AddMemberWrite(r)
    BY <1>i, <2>4, Ending DEF AddMemberWrite
  <2> QED BY <1>2, <2>1, <2>2, <2>3, <2>4 DEF AddMember, AcceptOnActive
<1>3. CASE ArchiveWorkspace(r)
  <2>1. CASE \E u \in Users : Accept(r, Call("archiveWorkspace", u))
    BY <1>1, <1>i, <2>1 DEF Call
  <2>2. CASE CheckRole(r, "archiveWorkspace", {"OWNER"}, "write")
    BY <1>i, <2>2, PlainAdvances DEF CheckRole, Steps
  <2> QED BY <1>i, <1>3, <2>1, <2>2, Ending DEF ArchiveWorkspace, ArchiveWorkspaceWrite, AcceptOnActive
<1>4. CASE DeleteWorkspace(r)
  <2>1. CASE \E u \in Users : Accept(r, Call("deleteWorkspace", u))
    BY <1>1, <1>i, <2>1 DEF Call
  <2>2. CASE CheckRole(r, "deleteWorkspace", {"OWNER"}, "write")
    BY <1>i, <2>2, PlainAdvances DEF CheckRole, Steps
  <2> QED BY <1>i, <1>4, <2>1, <2>2, Ending DEF DeleteWorkspace, DeleteWorkspaceWrite, AcceptOnActive
<1>5. CASE RestoreWorkspace(r)
  <2>1. ASSUME NEW u \in Users, Accept(r, [Call("restoreWorkspace", u) EXCEPT !.at = "write"])
        PROVE  GoesOn(r)
    <3>1. [Call("restoreWorkspace", u) EXCEPT !.at = "write"].op = "restoreWorkspace"
      BY DEF Call
    <3> QED BY <1>1, <1>i, <2>1, <3>1
  <2> QED BY <1>i, <1>5, <2>1, Ending DEF RestoreWorkspace, RestoreWorkspaceWrite
<1> QED BY <1>2, <1>3, <1>4, <1>5

LEMMA PlainChannelGoesOn ==
    ASSUME IInv, NEW r \in Requests,
           \/ RemoveChannelMember(r) \/ LeaveChannel(r) \/ ArchiveChannel(r) \/ DeleteChannel(r)
           \/ RestoreChannel(r) \/ DeclineInvite(r)
    PROVE  GoesOn(r)
<1>i. TypeOK /\ {"removeChannelMember", "leaveChannel", "archiveChannel", "deleteChannel",
                 "restoreChannel", "declineInvite"} \subseteq Plain
  BY DEF IInv, Plain, AllOps, Removal, Filling
<1>1. ASSUME NEW q, q.op \in Plain, Accept(r, q) \/ AcceptFromMember(r, q)
      PROVE  GoesOn(r)
  BY <1>i, <1>1, PlainKnows, Beginning DEF AcceptFromMember
<1>2. ASSUME NEW op \in Plain, NEW found, NEW next \in Steps,
             CheckChannel(r, op, found, next) \/ CheckChannelRole(r, op, found, next)
      PROVE  GoesOn(r)
  <2>1. CASE CheckChannel(r, op, found, next)
    BY <1>i, <2>1, PlainAdvances DEF CheckChannel
  <2>2. CASE CheckChannelRole(r, op, found, next)
    BY <1>i, <2>2, PlainAdvances DEF CheckChannelRole
  <2> QED BY <1>2, <2>1, <2>2
<1>3. ASSUME NEW op \in Plain, NEW u, NEW c,
             AcceptFromMember(r, [Call(op, u) EXCEPT !.ch = c, !.at = "channel"])
      PROVE  GoesOn(r)
  <2> DEFINE q == [Call(op, u) EXCEPT !.ch = c, !.at = "channel"]
  <2>1. q.op = op
    BY DEF Call
  <2>2. AcceptFromMember(r, q)
    BY <1>3
  <2> HIDE DEF q
  <2> QED BY <1>1, <2>1, <2>2
<1>4. CASE RemoveChannelMember(r)
  <2>1. ASSUME NEW u, NEW c, NEW m,
               AcceptFromMember(r, [Call("removeChannelMember", u) EXCEPT
                                    !.ch = c, !.row = m, !.at = "channel"])
        PROVE  GoesOn(r)
    <3> DEFINE q == [Call("removeChannelMember", u) EXCEPT
                     !.ch = c, !.row = m, !.at = "channel"]
    <3>1. q.op = "removeChannelMember"
      BY DEF Call
    <3>2. AcceptFromMember(r, q)
      BY <2>1
    <3> HIDE DEF q
    <3> QED BY <1>1, <1>i, <3>1, <3>2
  <2>2. ASSUME At(r, "removeChannelMember", "chRole"), NEW role,
               Check(r, role \in Managers, [request[r] EXCEPT !.at = "target", !.seen = role])
        PROVE  GoesOn(r)
    <3> DEFINE q == [request[r] EXCEPT !.at = "target", !.seen = role]
    <3>1. q.op = "removeChannelMember" /\ request[r].op = "removeChannelMember"
      BY <1>i, <2>2 DEF At, TypeOK, Request
    <3>3. /\ \A s \in Requests \ {r} : request'[s] = request[s]
          /\ request'[r] = Idle \/ request'[r] = q
      BY <1>i, <2>2 DEF Check, TypeOK
    <3> HIDE DEF q
    <3>4. KnowsAlone(q)
      BY <1>i, <3>1, PlainKnows
    <3> QED BY <3>1, <3>3, <3>4 DEF GoesOn
  <2>3. ASSUME At(r, "removeChannelMember", "target"), NEW ok,
               Check(r, ok, [request[r] EXCEPT !.at = "write"])
        PROVE  GoesOn(r)
    BY <1>i, <2>3, PlainAdvances DEF Steps
  <2>4. CASE RemoveChannelMemberWrite(r)
    BY <1>i, <2>4, Ending DEF RemoveChannelMemberWrite
  <2> QED BY <1>i, <1>2, <1>4, <2>1, <2>2, <2>3, <2>4 DEF RemoveChannelMember, Steps
<1>5. CASE LeaveChannel(r)
  <2>1. ASSUME At(r, "leaveChannel", "own"), NEW ok, NEW m,
               Check(r, ok, [request[r] EXCEPT !.at = "write", !.row = m])
        PROVE  GoesOn(r)
    <3> DEFINE q == [request[r] EXCEPT !.at = "write", !.row = m]
    <3>1. q.op = "leaveChannel" /\ request[r].op = "leaveChannel"
      BY <1>i, <2>1 DEF At, TypeOK, Request
    <3>3. /\ \A s \in Requests \ {r} : request'[s] = request[s]
          /\ request'[r] = Idle \/ request'[r] = q
      BY <1>i, <2>1 DEF Check, TypeOK
    <3> HIDE DEF q
    <3>4. KnowsAlone(q)
      BY <1>i, <3>1, PlainKnows
    <3> QED BY <3>1, <3>3, <3>4 DEF GoesOn
  <2>2. CASE LeaveChannelWrite(r)
    BY <1>i, <2>2, Ending DEF LeaveChannelWrite
  <2>3. CASE CheckChannel(r, "leaveChannel", FindActiveChannel(request[r].ch), "own")
    BY <1>i, <1>2, <2>3 DEF Steps
  <2>4. ASSUME NEW u, NEW c,
               AcceptFromMember(r, [Call("leaveChannel", u) EXCEPT !.ch = c, !.at = "channel"])
        PROVE  GoesOn(r)
    BY <1>i, <1>3, <2>4
  <2> QED BY <1>5, <2>1, <2>2, <2>3, <2>4 DEF LeaveChannel
<1>6. CASE ArchiveChannel(r) \/ DeleteChannel(r) \/ RestoreChannel(r)
  <2>1. ASSUME NEW op \in {"archiveChannel", "deleteChannel", "restoreChannel"}, NEW u, NEW c,
               AcceptFromMember(r, [Call(op, u) EXCEPT !.ch = c, !.at = "channel"])
        PROVE  GoesOn(r)
    BY <1>i, <1>3, <2>1
  <2>2. CASE ArchiveChannelWrite(r) \/ DeleteChannelWrite(r) \/ RestoreChannelWrite(r)
    BY <1>i, <2>2, Ending DEF ArchiveChannelWrite, DeleteChannelWrite, RestoreChannelWrite
  <2>3. CASE ArchiveChannel(r)
    BY <1>i, <1>2, <2>1, <2>2, <2>3 DEF ArchiveChannel, Steps
  <2>4. CASE DeleteChannel(r)
    BY <1>i, <1>2, <2>1, <2>2, <2>4 DEF DeleteChannel, Steps
  <2>5. CASE RestoreChannel(r)
    BY <1>i, <1>2, <2>1, <2>2, <2>5 DEF RestoreChannel, Steps
  <2> QED BY <1>6, <2>3, <2>4, <2>5
<1>7. CASE DeclineInvite(r)
  <2>1. ASSUME NEW i \in Rows,
               Accept(r, [Call("declineInvite", invite[i].email) EXCEPT
                          !.row = i, !.ch = invite[i].channel, !.role = invite[i].role,
                          !.at = "write"])
        PROVE  GoesOn(r)
    <3> DEFINE q == [Call("declineInvite", invite[i].email) EXCEPT
                     !.row = i, !.ch = invite[i].channel, !.role = invite[i].role,
                     !.at = "write"]
    <3>1. q.op = "declineInvite"
      BY DEF Call
    <3>2. Accept(r, q)
      BY <2>1
    <3> HIDE DEF q
    <3> QED BY <1>1, <1>i, <3>1, <3>2
  <2> QED BY <1>i, <1>7, <2>1, Ending DEF DeclineInvite, AcceptOnInvite, DeclineInviteWrite
<1> QED BY <1>4, <1>5, <1>6, <1>7

\* The checks after which nothing more is known, or was before.
Unasked(op, at, next) ==
    \/ op = "createChannel"
    \/ op \in Filling /\ (next \notin {"existing", "pending", "write"} \/ at \in {"existing", "pending"})
    \/ op = "acceptInvite" /\ (next \in {"wsMember"} \/ at \in {"channel", "existing"})

LEMMA FillingAdvances ==
    ASSUME IInv, NEW r \in Requests, request[r] # Idle => KnowsAlone(request[r]),
           NEW op, op \in Filling \cup {"createChannel", "acceptInvite"},
           NEW at, At(r, op, at), NEW next \in Steps, NEW ok,
           Check(r, ok, [request[r] EXCEPT !.at = next]),
           Unasked(op, at, next) \/ (ok => FindMemberRole(request[r].whom) # None)
    PROVE  GoesOn(r)
<1>1. request[r] \in Request /\ KnowsAlone(request[r]) /\ request[r].op = op /\ request[r].at = at
  BY DEF At, IInv, TypeOK
<1>2. ASSUME NEW q \in Request, ok, q.op = op, q.at = next, q.by = request[r].by,
             q.whom = request[r].whom
      PROVE  KnowsAlone(q)
  <2>1. PastWorkspaceMember(q) => FindMemberRole(q.whom) # None
    BY <1>1, <1>2 DEF PastWorkspaceMember, KnowsAlone, Filling, Unasked
  <2> QED BY <1>1, <1>2, <2>1 DEF KnowsAlone, Filling
<1> QED BY <1>2, Advancing DEF IInv

LEMMA FillingChecksGoOn ==
    ASSUME IInv, NEW r \in Requests, request[r] # Idle => KnowsAlone(request[r]),
           NEW op, op \in Filling \cup {"createChannel", "acceptInvite"},
           NEW x, NEW next \in Steps,
           \/ CheckChannel(r, op, x, next) /\ Unasked(op, "channel", next)
           \/ CheckChannelRole(r, op, x, next) /\ Unasked(op, "chRole", next)
           \/ CheckWorkspaceMember(r, op, next)
           \/ CheckNotChannelMember(r, op, next) /\ Unasked(op, "existing", next)
    PROVE  GoesOn(r)
<1>1. CASE CheckChannel(r, op, x, next) /\ Unasked(op, "channel", next)
  BY <1>1, FillingAdvances DEF CheckChannel
<1>2. CASE CheckChannelRole(r, op, x, next) /\ Unasked(op, "chRole", next)
  <2> DEFINE ok == FindChannelMemberRole(request[r].ch, request[r].by) \in x
  <2>1. At(r, op, "chRole") /\ Check(r, ok, [request[r] EXCEPT !.at = next])
    BY <1>2 DEF CheckChannelRole
  <2> HIDE DEF ok
  <2> QED BY <1>2, <2>1, FillingAdvances
<1>3. CASE CheckWorkspaceMember(r, op, next)
  <2> DEFINE ok == FindMemberRole(request[r].whom) # None
  <2>1. At(r, op, "wsMember") /\ Check(r, ok, [request[r] EXCEPT !.at = next])
    BY <1>3 DEF CheckWorkspaceMember
  <2>2. ok => FindMemberRole(request[r].whom) # None
    OBVIOUS
  <2> HIDE DEF ok
  <2> QED BY <2>1, <2>2, FillingAdvances
<1>4. CASE CheckNotChannelMember(r, op, next) /\ Unasked(op, "existing", next)
  <2> DEFINE ok == ActiveChannelMembers(request[r].ch, request[r].whom) = {}
  <2>1. At(r, op, "existing") /\ Check(r, ok, [request[r] EXCEPT !.at = next])
    BY <1>4 DEF CheckNotChannelMember
  <2> HIDE DEF ok
  <2> QED BY <1>4, <2>1, FillingAdvances
<1> QED BY <1>1, <1>2, <1>3, <1>4

LEMMA FillingGoesOn ==
    ASSUME IInv, NEW r \in Requests, request[r] # Idle => KnowsAlone(request[r]),
           CreateChannel(r) \/ AddChannelMember(r) \/ CreateInvite(r) \/ AcceptInvite(r)
    PROVE  GoesOn(r)
<1>i. TypeOK
  BY DEF IInv
<1>2. CASE CreateChannel(r)
  <2>1. ASSUME NEW u \in Users, NEW c \in Channels,
               AcceptFromMember(r, [Call("createChannel", u) EXCEPT !.ch = c, !.at = "channel"])
        PROVE  GoesOn(r)
    <3> DEFINE q == [Call("createChannel", u) EXCEPT !.ch = c, !.at = "channel"]
    <3>1. q.op = "createChannel" /\ q.by = u
      BY DEF Call
    <3>2. AcceptFromMember(r, q)
      BY <2>1
    <3> HIDE DEF q
    <3>3. KnowsAlone(q) /\ Accept(r, q)
      BY <3>1, <3>2 DEF AcceptFromMember, KnowsAlone, PastWorkspaceMember, Filling
    <3> QED BY <1>i, <3>3, Beginning
  <2>2. CASE CheckChannel(r, "createChannel", ~FindActiveChannel(request[r].ch), "write")
    BY <2>2, FillingChecksGoOn DEF Unasked, Steps, Filling
  <2>3. CASE CreateChannelWrite(r)
    BY <1>i, <2>3, Ending DEF CreateChannelWrite
  <2> QED BY <1>2, <2>1, <2>2, <2>3 DEF CreateChannel
<1>3. CASE AddChannelMember(r)
  <2>1. ASSUME NEW u \in Users, NEW v, NEW c \in Channels, NEW role,
               AcceptFromMember(r, [Call("addChannelMember", u) EXCEPT
                                    !.ch = c, !.whom = v, !.role = role, !.at = "channel"])
        PROVE  GoesOn(r)
    <3> DEFINE q == [Call("addChannelMember", u) EXCEPT
                     !.ch = c, !.whom = v, !.role = role, !.at = "channel"]
    <3>1. q.op = "addChannelMember" /\ q.at = "channel"
      BY DEF Call
    <3>2. AcceptFromMember(r, q)
      BY <2>1
    <3> HIDE DEF q
    <3>3. KnowsAlone(q) /\ Accept(r, q)
      BY <3>1, <3>2 DEF AcceptFromMember, KnowsAlone, PastWorkspaceMember, Filling
    <3> QED BY <1>i, <3>3, Beginning
  <2>2. CASE CheckChannel(r, "addChannelMember", FindActiveChannel(request[r].ch), "chRole")
    BY <2>2, FillingChecksGoOn DEF Unasked, Steps, Filling
  <2>3. CASE CheckChannelRole(r, "addChannelMember", Granters(request[r].role), "wsMember")
    BY <2>3, FillingChecksGoOn DEF Unasked, Steps, Filling
  <2>4. CASE CheckWorkspaceMember(r, "addChannelMember", "existing")
    BY <2>4, FillingChecksGoOn DEF Unasked, Steps, Filling
  <2>5. CASE CheckNotChannelMember(r, "addChannelMember", "write")
    BY <2>5, FillingChecksGoOn DEF Unasked, Steps, Filling
  <2>6. CASE AddChannelMemberWrite(r)
    BY <1>i, <2>6, Ending DEF AddChannelMemberWrite
  <2> QED BY <1>3, <2>1, <2>2, <2>3, <2>4, <2>5, <2>6 DEF AddChannelMember
<1>4. CASE CreateInvite(r)
  <2>1. ASSUME NEW u \in Users, NEW v, NEW c \in Channels, NEW role,
               Accept(r, [Call("createInvite", u) EXCEPT !.ch = c, !.whom = v, !.role = role])
        PROVE  GoesOn(r)
    <3> DEFINE q == [Call("createInvite", u) EXCEPT !.ch = c, !.whom = v, !.role = role]
    <3>1. q.op = "createInvite" /\ q.at = "role"
      BY DEF Call
    <3>2. Accept(r, q)
      BY <2>1
    <3> HIDE DEF q
    <3>3. KnowsAlone(q)
      BY <3>1 DEF KnowsAlone, PastWorkspaceMember, Filling
    <3> QED BY <1>i, <3>2, <3>3, Beginning
  <2>2. ASSUME At(r, "createInvite", "role"), NEW ok,
               Check(r, ok, [request[r] EXCEPT !.at = "channel"])
        PROVE  GoesOn(r)
    BY <2>2, FillingAdvances DEF Unasked, Steps, Filling
  <2>3. CASE CheckChannel(r, "createInvite", FindActiveChannel(request[r].ch), "chRole")
    BY <2>3, FillingChecksGoOn DEF Unasked, Steps, Filling
  <2>4. CASE CheckChannelRole(r, "createInvite", Granters(request[r].role), "wsMember")
    BY <2>4, FillingChecksGoOn DEF Unasked, Steps, Filling
  <2>5. CASE CheckWorkspaceMember(r, "createInvite", "existing")
    BY <2>5, FillingChecksGoOn DEF Unasked, Steps, Filling
  <2>6. CASE CheckNotChannelMember(r, "createInvite", "pending")
    BY <2>6, FillingChecksGoOn DEF Unasked, Steps, Filling
  <2>7. ASSUME At(r, "createInvite", "pending"), NEW ok,
               Check(r, ok, [request[r] EXCEPT !.at = "write"])
        PROVE  GoesOn(r)
    BY <2>7, FillingAdvances DEF Unasked, Steps, Filling
  <2>8. CASE CreateInviteWrite(r)
    BY <1>i, <2>8, Ending DEF CreateInviteWrite
  <2> QED BY <1>4, <2>1, <2>2, <2>3, <2>4, <2>5, <2>6, <2>7, <2>8 DEF CreateInvite
<1>5. CASE AcceptInvite(r)
  <2>1. ASSUME NEW i \in Rows,
               Accept(r, [Call("acceptInvite", invite[i].email) EXCEPT
                          !.row = i, !.ch = invite[i].channel, !.role = invite[i].role,
                          !.at = "workspace"])
        PROVE  GoesOn(r)
    <3> DEFINE q == [Call("acceptInvite", invite[i].email) EXCEPT
                     !.row = i, !.ch = invite[i].channel, !.role = invite[i].role,
                     !.at = "workspace"]
    <3>1. q.op = "acceptInvite" /\ q.at = "workspace" /\ q.by = q.whom
      BY DEF Call
    <3>2. Accept(r, q)
      BY <2>1
    <3> HIDE DEF q
    <3>3. KnowsAlone(q)
      BY <3>1 DEF KnowsAlone, PastWorkspaceMember, Filling
    <3> QED BY <1>i, <3>2, <3>3, Beginning
  <2>2. CASE /\ At(r, "acceptInvite", "workspace")
             /\ Check(r, WorkspaceActive, [request[r] EXCEPT !.at = "wsMember"])
    BY <2>2, FillingAdvances DEF Unasked, Steps, Filling
  <2>3. CASE CheckWorkspaceMember(r, "acceptInvite", "channel")
    BY <2>3, FillingChecksGoOn DEF Unasked, Steps, Filling
  <2>4. CASE CheckChannel(r, "acceptInvite", FindActiveChannel(request[r].ch), "existing")
    BY <2>4, FillingChecksGoOn DEF Unasked, Steps, Filling
  <2>5. CASE CheckNotChannelMember(r, "acceptInvite", "write")
    BY <2>5, FillingChecksGoOn DEF Unasked, Steps, Filling
  <2>6. CASE AcceptInviteWrite(r)
    BY <1>i, <2>6, Ending DEF AcceptInviteWrite
  <2> QED BY <1>5, <2>1, <2>2, <2>3, <2>4, <2>5, <2>6 DEF AcceptInvite, AcceptOnInvite
<1> QED BY <1>2, <1>3, <1>4, <1>5

LEMMA StepGoesOn ==
    ASSUME IInv, NEW r \in Requests, request[r] # Idle => KnowsAlone(request[r]), StepOf(r)
    PROVE  GoesOn(r)
<1>1. CASE WorkspaceNotFound(r)
  BY <1>1 DEF WorkspaceNotFound, vars, GoesOn
<1>2. CASE Fault(r)
  BY <1>2, Ending DEF Fault, IInv
<1> QED BY <1>1, <1>2, LeaveWorkspaceGoesOn, TargetingGoesOn, PlainWorkspaceGoesOn,
           PlainChannelGoesOn, FillingGoesOn DEF StepOf, WorkspaceMethod, ChannelMethod
-----------------------------------------------------------------------------
\* Owners stay.
AtMostOne == \A r, s \in Requests : request[r] # Idle /\ request[s] # Idle => r = s
AloneInv == Serial => /\ AlwaysOwned /\ AtMostOne
                      /\ \A r \in Requests : request[r] # Idle => KnowsAlone(request[r])
SerialInv == IInv /\ OneMembershipPerUser /\ AloneInv

\* What requests know alone is of members only.
LEMMA SameMembers ==
    ASSUME UNCHANGED member, NEW q
    PROVE  KnowsAlone(q)' <=> KnowsAlone(q)
BY DEF KnowsAlone, FindMemberRole, ActiveMembers, MayLeave, PastWorkspaceMember

LEMMA WritersOfMembersEnd ==
    ASSUME TypeOK, NEW r \in Requests, MemberWrite(r)
    PROVE  \/ request'[r] = Idle
           \/ request'[r].op \in Removal /\ request'[r].at = "channels"
<1>1. CASE UpdateMemberRoleWrite(r) \/ TransferOwnershipWrite(r) \/ AddMemberWrite(r)
  BY <1>1, Ending DEF UpdateMemberRoleWrite, TransferOwnershipWrite, AddMemberWrite
<1>2. CASE LeaveWorkspaceWrite(r) \/ RemoveMemberWrite(r)
  <2>1. request[r] \in Request /\ request[r].op \in Removal
    BY <1>2 DEF LeaveWorkspaceWrite, RemoveMemberWrite, At, TypeOK, Removal
  <2>2. \/ request' = [request EXCEPT ![r] = Idle]
        \/ request' = [request EXCEPT ![r] = [@ EXCEPT !.at = "channels"]]
    BY <1>2 DEF LeaveWorkspaceWrite, RemoveMemberWrite, Finish
  <2> QED BY <2>1, <2>2 DEF TypeOK, Request
<1> QED BY <1>1, <1>2 DEF MemberWrite

LEMMA OwnerStays ==
    ASSUME SerialInv, NEW r \in Requests, MemberWrite(r), Serial
    PROVE  Owners' # {}
<1>i. /\ \A m \in Rows : member[m] \in MemberRow
      /\ KnowsAlone(request[r]) /\ request[r] \in Request /\ Knows(request[r])
      /\ member \in [Rows -> MemberRow]
  BY DEF SerialInv, IInv, TypeOK, AloneInv, RequestsKnow, MemberWrite, LeaveWorkspaceWrite,
         UpdateMemberRoleWrite, RemoveMemberWrite, TransferOwnershipWrite, AddMemberWrite, At
<1>o. PICK o \in Rows : Live(member[o]) /\ member[o].role = "OWNER"
  BY DEF SerialInv, AloneInv, AlwaysOwned, Owners
<1>1. ASSUME member'[o] = member[o]
      PROVE  Owners' # {}
  BY <1>o, <1>1 DEF Owners
<1>2. CASE LeaveWorkspaceWrite(r)
  <2> DEFINE mine == ActiveMembers(request[r].by)
  <2>1. FindMemberRole(request[r].by) \in Grantable
    BY <1>i, <1>2 DEF LeaveWorkspaceWrite, At, KnowsAlone, MayLeave
  <2>2. o \notin mine
    <3> SUFFICES ASSUME o \in mine PROVE FALSE
      OBVIOUS
    <3>1. \A m \in mine : m = o
      BY <1>o DEF SerialInv, OneMembershipPerUser, ActiveMembers
    <3>2. FindMemberRole(request[r].by) = member[o].role
      BY <3>1 DEF FindMemberRole
    <3> QED BY <1>o, <2>1, <3>2 DEF Grantable
  <2>3. member'[o] = [member[o] EXCEPT !.deletedAt = member[o].deletedAt \/ o \in mine]
    BY <1>2 DEF LeaveWorkspaceWrite
  <2>4. (member[o].deletedAt \/ o \in mine) = FALSE
    BY <1>o, <2>2 DEF Live
  <2>5. member'[o] = [member[o] EXCEPT !.deletedAt = FALSE]
    BY <2>3, <2>4
  <2>6. Live(member'[o]) /\ member'[o].role = "OWNER"
    BY <1>i, <1>o, <2>5 DEF Live, MemberRow
  <2> QED BY <2>6 DEF Owners
<1>3. CASE UpdateMemberRoleWrite(r) \/ RemoveMemberWrite(r)
  <2>1. request[r].row # o
    BY <1>i, <1>o, <1>3 DEF UpdateMemberRoleWrite, RemoveMemberWrite, At, KnowsAlone
  <2>2. member'[o] = member[o]
    BY <1>i, <1>3, <2>1 DEF UpdateMemberRoleWrite, RemoveMemberWrite
  <2> QED BY <1>1, <2>2
<1>4. CASE TransferOwnershipWrite(r)
  <2> DEFINE own == request[r].own  row == request[r].row
  <2>1. CASE UNCHANGED member
    BY <1>1, <2>1
  <2>2. CASE /\ Live(member[row])
             /\ member' = [member EXCEPT ![own].role = "ADMIN", ![row].role = "OWNER"]
    <3>1. row \in Rows
      BY <1>i, <1>4 DEF Knows, Targeting, TransferOwnershipWrite, At
    <3> DEFINE demoted == [member EXCEPT ![own].role = "ADMIN"]
    <3>2. demoted[row] \in [used: BOOLEAN, user: Users, role: Roles, deletedAt: BOOLEAN]
          /\ Live(demoted[row])
      BY <1>i, <2>2, <3>1 DEF MemberRow, Roles, Live
    <3>3. member'[row] = [demoted[row] EXCEPT !.role = "OWNER"]
      BY <1>i, <2>2, <3>1
    <3>4. Live(member'[row]) /\ member'[row].role = "OWNER"
      BY <3>2, <3>3 DEF Live
    <3> QED BY <3>1, <3>4 DEF Owners
  <2> QED BY <1>4, <2>1, <2>2 DEF TransferOwnershipWrite, TransferOwnershipTx
<1>5. CASE AddMemberWrite(r)
  <2>1. CASE UNCHANGED member
    BY <1>1, <2>1
  <2>2. CASE InsertMember(request[r].whom, request[r].role)
    <3>1. FreshRow(member) # o
      BY <1>o, <2>2 DEF InsertMember, FreshRow, UnusedRows, Inserted, Live
    <3>2. member'[o] = member[o]
      BY <1>i, <2>2, <3>1 DEF InsertMember
    <3> QED BY <1>1, <3>2
  <2> QED BY <1>5, <2>1, <2>2 DEF AddMemberWrite
<1> QED BY <1>2, <1>3, <1>4, <1>5 DEF MemberWrite

\* A step of a workload is one of a request that goes on, and writes only what is known.
LEMMA StepOfOne ==
    ASSUME SerialInv, MCNext, Serial
    PROVE  \/ \E r \in Requests : /\ StepOf(r) /\ GoesOn(r)
                                  /\ UNCHANGED tables \/ Write(r)
           \/ \E i \in Rows : InviteExpires(i)
<1>1. \A r \in Requests : StepOf(r) => GoesOn(r)
  BY StepGoesOn DEF SerialInv, AloneInv
<1>2. \A r \in Requests : StepOf(r) => UNCHANGED tables \/ Write(r)
  BY WorkspaceMethodReadsOrWrites, ChannelMethodReadsOrWrites DEF SerialInv, StepOf, Fault
<1> QED BY <1>1, <1>2 DEF MCNext, StepOf

LEMMA OneStays ==
    ASSUME SerialInv, MCNext, Serial
    PROVE  AtMostOne'
<1>1. IsFiniteSet(InFlight)
  BY TenancyAssumption, FS_Subset DEF InFlight
<1>2. \A r \in InFlight' \ InFlight : InFlight = {}
  <2>1. ASSUME Cardinality(InFlight) < 1 PROVE InFlight = {}
    <3>1. Cardinality(InFlight) \in Nat
      BY <1>1, FS_CardinalityType
    <3>2. Cardinality(InFlight) = 0
      BY <2>1, <3>1
    <3> QED BY <1>1, <3>2, FS_EmptySet
  <2> QED BY <2>1 DEF MCNext, Within, Serial
<1>3. CASE UNCHANGED request
  BY <1>3 DEF SerialInv, AloneInv, AtMostOne
<1>4. ASSUME NEW r \in Requests, GoesOn(r)
      PROVE  AtMostOne'
  <2>1. CASE r \in InFlight' \ InFlight
    BY <1>2, <1>4, <2>1 DEF GoesOn, AtMostOne, InFlight
  <2>2. CASE r \notin InFlight' \ InFlight
    <3>1. InFlight' \subseteq InFlight
      BY <1>4, <2>2 DEF GoesOn, InFlight
    <3>2. \A s, t \in InFlight : s = t
      BY DEF SerialInv, AloneInv, AtMostOne, InFlight
    <3>3. \A s, t \in InFlight' : s = t
      BY <3>1, <3>2
    <3> QED BY <3>3 DEF AtMostOne, InFlight
  <2> QED BY <2>1, <2>2
<1> QED BY <1>3, <1>4, StepOfOne DEF InviteExpires

LEMMA WritersAreInFlight ==
    ASSUME NEW r \in Requests, Write(r)
    PROVE  request[r] # Idle
BY DEF Write, WorkspaceWrite, ArchiveWorkspaceWrite, DeleteWorkspaceWrite,
      RestoreWorkspaceWrite, MemberWrite, LeaveWorkspaceWrite, UpdateMemberRoleWrite,
      RemoveMemberWrite, TransferOwnershipWrite, AddMemberWrite,
      Cascade, CascadeChannels, CascadeInvites,
      ChannelWrite, ArchiveChannelWrite, DeleteChannelWrite, RestoreChannelWrite,
      ChannelMemberWrite, CreateChannelWrite, AddChannelMemberWrite,
      RemoveChannelMemberWrite, LeaveChannelWrite,
      InviteWrite, CreateInviteWrite, AcceptInviteWrite, DeclineInviteWrite, At

LEMMA OthersKeepMembers ==
    ASSUME NEW r \in Requests, Write(r), ~MemberWrite(r)
    PROVE  UNCHANGED member
BY DEF Write, WorkspaceWrite, ArchiveWorkspaceWrite, DeleteWorkspaceWrite,
      RestoreWorkspaceWrite, Cascade, CascadeChannels, CascadeInvites,
      ChannelWrite, ArchiveChannelWrite, DeleteChannelWrite, RestoreChannelWrite,
      ChannelMemberWrite, CreateChannelWrite, AddChannelMemberWrite,
      RemoveChannelMemberWrite, LeaveChannelWrite,
      InviteWrite, CreateInviteWrite, AcceptInviteWrite, DeclineInviteWrite

LEMMA AloneStays ==
    ASSUME SerialInv, MCNext
    PROVE  AloneInv'
<1>s. SUFFICES ASSUME Serial
              PROVE  /\ AlwaysOwned' /\ AtMostOne'
                     /\ \A r \in Requests : request'[r] # Idle => KnowsAlone(request[r])'
  BY DEF AloneInv, MCNext, Serial
<1>a. AloneInv
  BY DEF SerialInv
<1>1. AtMostOne'
  BY <1>s, OneStays
<1>2. ASSUME UNCHANGED member
      PROVE  AlwaysOwned' /\ \A r \in Requests : request'[r] # Idle => KnowsAlone(request[r])'
  <2>1. AlwaysOwned'
    BY <1>s, <1>a, <1>2 DEF AloneInv, AlwaysOwned, Owners
  <2>2. ASSUME NEW r \in Requests, request'[r] # Idle
        PROVE  KnowsAlone(request'[r])
    BY <1>s, <1>a, <2>2, StepOfOne DEF AloneInv, GoesOn, InviteExpires
  <2>3. ASSUME NEW r \in Requests, request'[r] # Idle
        PROVE  KnowsAlone(request[r])'
    BY <1>2, <2>2, <2>3 DEF KnowsAlone, FindMemberRole, ActiveMembers
  <2> QED BY <2>1, <2>3
<1>3. ASSUME NEW r \in Requests, MemberWrite(r), GoesOn(r)
      PROVE  AlwaysOwned' /\ \A s \in Requests : request'[s] # Idle => KnowsAlone(request[s])'
  <2>1. AlwaysOwned'
    BY <1>s, <1>3, OwnerStays DEF AlwaysOwned
  <2>2. ASSUME NEW s \in Requests \ {r} PROVE request'[s] = Idle
    BY <1>s, <1>a, <1>3, WritersAreInFlight DEF AloneInv, AtMostOne, GoesOn, Write
  <2>3. request'[r] # Idle =>
            /\ request'[r].op \in Removal /\ request'[r].at = "channels"
            /\ request'[r].op = "leaveWorkspace" => request'[r].whom = request'[r].by
    BY <1>s, <1>a, <1>3, WritersOfMembersEnd DEF SerialInv, IInv, GoesOn, KnowsAlone
  <2>4. request'[r] # Idle => KnowsAlone(request[r])'
    BY <2>3 DEF KnowsAlone, Removal, PastWorkspaceMember, Filling
  <2> QED BY <2>1, <2>2, <2>4
<1>4. UNCHANGED member \/ \E r \in Requests : MemberWrite(r) /\ GoesOn(r)
  BY <1>s, StepOfOne, OthersKeepMembers DEF tables, InviteExpires
<1> QED BY <1>1, <1>2, <1>3, <1>4

mcvars == <<vars, workload>>
LEMMA MCNextIsNext == [MCNext]_mcvars => [Next]_vars
BY DEF MCNext, Next, mcvars

LEMMA SerialInit == MCInit => SerialInv
<1> SUFFICES ASSUME MCInit PROVE SerialInv
  OBVIOUS
<1>1. Init /\ IInv /\ OneMembershipPerUser
  BY InitIInv, InitOneMembership DEF MCInit
<1>2. RowOf[Founder] \in Owners
  BY <1>1, TenancyAssumption DEF Init, Owners, Live
<1>3. \A r \in Requests : request[r] = Idle
  BY <1>1 DEF Init
<1> QED BY <1>1, <1>2, <1>3 DEF SerialInv, AloneInv, AlwaysOwned, AtMostOne

LEMMA SerialNext == SerialInv /\ [MCNext]_mcvars => SerialInv'
<1> SUFFICES ASSUME SerialInv, [MCNext]_mcvars PROVE SerialInv'
  OBVIOUS
<1>1. IInv' /\ OneMembershipPerUser'
  BY MCNextIsNext, NextKeepsIInv, StepKeepsOneMembership DEF SerialInv
<1>2. CASE MCNext
  BY <1>1, <1>2, AloneStays DEF SerialInv
<1>3. CASE UNCHANGED mcvars
  <2>1. UNCHANGED <<member, request, workload>>
    BY <1>3 DEF mcvars, vars, tables
  <2>2. AloneInv'
    BY <2>1, SameMembers DEF SerialInv, AloneInv, AlwaysOwned, Owners, AtMostOne, Serial
  <2> QED BY <1>1, <2>2 DEF SerialInv
<1> QED BY <1>2, <1>3

\* Served one at a time, requests leave the workspace an OWNER at all times
\* (docs/permissions.md, Last Admin Protection).
THEOREM SerialKeepsAnOwner == MCSpec => []OwnedWhenSerial
<1>1. SerialInv => OwnedWhenSerial
  BY DEF SerialInv, AloneInv, OwnedWhenSerial
<1> QED BY <1>1, SerialInit, SerialNext, PTL DEF MCSpec, mcvars

-----------------------------------------------------------------------------
(***************************************************************************)
(* A member of a channel, and an invitee, is a member of the workspace, or  *)
(* the one request in flight is that user's removal and will get to the row. *)
(***************************************************************************)
Leaving(u, ats) ==
    \E r \in Requests : /\ request[r] # Idle
                        /\ request[r].op \in Removal
                        /\ request[r].at \in ats
                        /\ request[r].whom = u
Belongs(u, ats) == ActiveMembers(u) # {} \/ Leaving(u, ats)

MembersBelong ==
    \A m \in Rows : Live(channelMember[m]) /\ FindActiveChannel(channelMember[m].channel)
                        => Belongs(channelMember[m].user, {"channels"})
InviteesBelong ==
    \A i \in Rows : Pending(invite[i]) => Belongs(invite[i].email, {"channels", "invites"})
NoneRestores == \A r \in Requests : request[r] # Idle => request[r].op # "restoreChannel"
Contained == MembersBelong /\ InviteesBelong /\ NoneRestores

ContainedInv == Serial /\ Uninterrupted => Contained

\* Only the cascade moves a removal on once the membership is gone.
Removing(r) == /\ request[r] # Idle /\ request[r].op \in Removal
               /\ request[r].at \in {"channels", "invites"}

LEMMA OnlyCascades ==
    ASSUME NEW r \in Requests, Removing(r), WorkspaceMethod(r) \/ ChannelMethod(r)
    PROVE  Cascade(r)
<1>1. CASE LeaveWorkspace(r)
  BY <1>1 DEF Removing, LeaveWorkspace, AcceptOnActive, Accept, At, LeaveWorkspaceWrite, Cascade
<1>2. CASE RemoveMember(r)
  BY <1>2 DEF Removing, RemoveMember, AcceptOnActive, Accept, At, CheckTarget,
              RemoveMemberWrite, Cascade
<1>3. ~WorkspaceNotFound(r) /\ ~UpdateMemberRole(r)
  BY DEF Removing, Removal, WorkspaceNotFound, UpdateMemberRole, AcceptOnActive, Accept,
         CheckRole, CheckTarget, UpdateMemberRoleWrite, At
<1>4. ~TransferOwnership(r) /\ ~AddMember(r)
  BY DEF Removing, Removal, TransferOwnership, AddMember, AcceptOnActive, Accept,
         CheckRole, CheckTarget, TransferOwnershipWrite, AddMemberWrite, At
<1>5. ~ArchiveWorkspace(r) /\ ~DeleteWorkspace(r) /\ ~RestoreWorkspace(r)
  BY DEF Removing, Removal, ArchiveWorkspace, DeleteWorkspace, RestoreWorkspace,
         AcceptOnActive, Accept, CheckRole, ArchiveWorkspaceWrite, DeleteWorkspaceWrite,
         RestoreWorkspaceWrite, At
<1>6. ~CreateChannel(r) /\ ~AddChannelMember(r) /\ ~RemoveChannelMember(r)
  BY DEF Removing, Removal, CreateChannel, AddChannelMember, RemoveChannelMember,
         AcceptFromMember, Accept, CheckChannel, CheckChannelRole, CheckWorkspaceMember,
         CheckNotChannelMember, CreateChannelWrite, AddChannelMemberWrite,
         RemoveChannelMemberWrite, At
<1>7. ~LeaveChannel(r) /\ ~ArchiveChannel(r) /\ ~DeleteChannel(r) /\ ~RestoreChannel(r)
  BY DEF Removing, Removal, LeaveChannel, ArchiveChannel, DeleteChannel, RestoreChannel,
         AcceptFromMember, Accept, CheckChannel, CheckChannelRole, LeaveChannelWrite,
         ArchiveChannelWrite, DeleteChannelWrite, RestoreChannelWrite, At
<1>8. ~CreateInvite(r) /\ ~AcceptInvite(r) /\ ~DeclineInvite(r)
  BY DEF Removing, Removal, CreateInvite, AcceptInvite, DeclineInvite, AcceptOnInvite,
         Accept, CheckChannel, CheckChannelRole, CheckWorkspaceMember,
         CheckNotChannelMember, CreateInviteWrite, AcceptInviteWrite, DeclineInviteWrite, At
<1> QED BY <1>1, <1>2, <1>3, <1>4, <1>5, <1>6, <1>7, <1>8 DEF WorkspaceMethod, ChannelMethod

LEMMA LeavingGoesOn ==
    ASSUME NEW r \in Requests, GoesOn(r), ~Removing(r), NEW u, NEW ats,
           ats \subseteq {"channels", "invites"}, Leaving(u, ats)
    PROVE  Leaving(u, ats)'
<1>1. PICK s \in Requests : /\ request[s] # Idle /\ request[s].op \in Removal
                            /\ request[s].at \in ats /\ request[s].whom = u
  BY DEF Leaving
<1>2. s # r
  BY <1>1 DEF Removing
<1>3. request'[s] = request[s]
  BY <1>2 DEF GoesOn
<1> QED BY <1>1, <1>3 DEF Leaving

\* A membership ends when its request goes on to the channels.
LEMMA MembersStayOrLeave ==
    ASSUME SerialInv, Serial, NEW r \in Requests, GoesOn(r), UNCHANGED tables \/ Write(r),
           NEW u, ActiveMembers(u) # {}
    PROVE  ActiveMembers(u)' # {} \/ Leaving(u, {"channels"})'
<1>i. /\ \A m \in Rows : member[m] \in MemberRow
      /\ request[r] # Idle => KnowsAlone(request[r]) /\ request[r] \in Request
      /\ member \in [Rows -> MemberRow] /\ request \in [Requests -> Request \cup {Idle}]
  BY DEF SerialInv, IInv, TypeOK, AloneInv
<1>m. PICK m \in Rows : Live(member[m]) /\ member[m].user = u
  BY DEF ActiveMembers
<1>1. ASSUME Live(member'[m]) /\ member'[m].user = u
      PROVE  ActiveMembers(u)' # {}
  BY <1>1 DEF ActiveMembers
<1>2. CASE UNCHANGED member
  BY <1>m, <1>1, <1>2
<1>3. CASE LeaveWorkspaceWrite(r)
  <2> DEFINE mine == ActiveMembers(request[r].by)
  <2>1. CASE request[r].by = u
    <3>1. /\ mine # {} /\ request[r] \in Request /\ request[r].whom = u
          /\ request[r].op = "leaveWorkspace"
      BY <1>i, <1>3, <2>1 DEF LeaveWorkspaceWrite, At, KnowsAlone
    <3>2. request'[r] = [request[r] EXCEPT !.at = "channels"]
      BY <1>i, <1>3, <3>1 DEF LeaveWorkspaceWrite
    <3>3. request'[r] # Idle /\ request'[r].op \in Removal /\ request'[r].at = "channels"
          /\ request'[r].whom = u
      BY <3>1, <3>2 DEF Request, Removal, Idle, AllOps
    <3> QED BY <3>3 DEF Leaving
  <2>2. CASE request[r].by # u
    <3>1. m \notin mine
      BY <1>m, <2>2 DEF ActiveMembers
    <3>2. member'[m] = [member[m] EXCEPT !.deletedAt = member[m].deletedAt \/ m \in mine]
      BY <1>3 DEF LeaveWorkspaceWrite
    <3>3. (member[m].deletedAt \/ m \in mine) = FALSE
      BY <1>m, <3>1 DEF Live
    <3>4. member'[m] = [member[m] EXCEPT !.deletedAt = FALSE]
      BY <3>2, <3>3
    <3> QED BY <1>i, <1>m, <1>1, <3>4 DEF Live, MemberRow
  <2> QED BY <2>1, <2>2
<1>4. CASE RemoveMemberWrite(r)
  <2>1. CASE request[r].row = m
    <3>1. /\ request[r] \in Request /\ request[r].whom = u /\ request[r].op = "removeMember"
      BY <1>i, <1>m, <1>4, <2>1 DEF RemoveMemberWrite, At, KnowsAlone
    <3>2. request'[r] = [request[r] EXCEPT !.at = "channels"]
      BY <1>i, <1>m, <1>4, <2>1 DEF RemoveMemberWrite
    <3>3. request'[r] # Idle /\ request'[r].op \in Removal /\ request'[r].at = "channels"
          /\ request'[r].whom = u
      BY <3>1, <3>2 DEF Request, Removal, Idle, AllOps
    <3> QED BY <3>3 DEF Leaving
  <2>2. CASE request[r].row # m
    <3>1. member'[m] = member[m]
      BY <1>i, <1>4, <2>2 DEF RemoveMemberWrite
    <3> QED BY <1>m, <1>1, <3>1
  <2> QED BY <2>1, <2>2
<1>5. CASE UpdateMemberRoleWrite(r)
  <2>1. member'[m] = member[m] \/ member'[m] = [member[m] EXCEPT !.role = request[r].role]
    BY <1>i, <1>5 DEF UpdateMemberRoleWrite
  <2> QED BY <1>i, <1>m, <1>1, <2>1 DEF Live, MemberRow
<1>6. CASE TransferOwnershipWrite(r)
  <2> DEFINE own == request[r].own  row == request[r].row
  <2>1. CASE UNCHANGED member
    BY <1>2, <2>1
  <2>2. CASE member' = [member EXCEPT ![own].role = "ADMIN", ![row].role = "OWNER"]
    <3>1. \/ member'[m] = member[m]
          \/ \E role \in Roles : member'[m] = [member[m] EXCEPT !.role = role]
      <4> DEFINE demoted == [member EXCEPT ![own].role = "ADMIN"]
      <4>1. demoted[m] = member[m] \/ demoted[m] = [member[m] EXCEPT !.role = "ADMIN"]
        BY <1>i
      <4>2. member'[m] = demoted[m] \/ member'[m] = [demoted[m] EXCEPT !.role = "OWNER"]
        BY <1>i, <2>2
      <4> HIDE DEF demoted
      <4> QED BY <1>i, <4>1, <4>2 DEF MemberRow, Roles
    <3> QED BY <1>i, <1>m, <1>1, <3>1 DEF Live, MemberRow
  <2> QED BY <1>6, <2>1, <2>2 DEF TransferOwnershipWrite, TransferOwnershipTx
<1>7. CASE AddMemberWrite(r)
  <2>1. CASE UNCHANGED member
    BY <1>2, <2>1
  <2>2. CASE InsertMember(request[r].whom, request[r].role)
    <3>1. FreshRow(member) # m
      BY <1>m, <2>2 DEF InsertMember, FreshRow, UnusedRows, Inserted, Live
    <3>2. member'[m] = member[m]
      BY <1>i, <2>2, <3>1 DEF InsertMember
    <3> QED BY <1>m, <1>1, <3>2
  <2> QED BY <1>7, <2>1, <2>2 DEF AddMemberWrite
<1> QED BY <1>2, <1>3, <1>4, <1>5, <1>6, <1>7, OthersKeepMembers DEF tables, MemberWrite

\* A row of channelMember that is live was, or its user has been found a member.
LEMMA ChannelMembersEnter ==
    ASSUME SerialInv, Serial, NEW r \in Requests, UNCHANGED tables \/ Write(r),
           NEW m \in Rows, Live(channelMember'[m])
    PROVE  \/ KeepsChannelMember(m)
           \/ UNCHANGED member /\ ActiveMembers(channelMember'[m].user) # {}
<1>i. /\ IInv /\ TypeOK /\ (\A n \in Rows : channelMember[n] \in ChannelMemberRow)
      /\ request[r] # Idle => KnowsAlone(request[r]) /\ request[r] \in Request
  BY DEF SerialInv, IInv, TypeOK, AloneInv
<1>1. CASE channelMember'[m] = channelMember[m]
  BY <1>1 DEF KeepsChannelMember
<1>2. ASSUME NEW c, NEW u, NEW role, InsertChannelMember(c, u, role), UNCHANGED member,
             ActiveMembers(u) # {}
      PROVE  \/ KeepsChannelMember(m)
             \/ UNCHANGED member /\ ActiveMembers(channelMember'[m].user) # {}
  <2>1. PICK f \in Rows :
            /\ channelMember'[f] = [used |-> TRUE, channel |-> c, user |-> u, role |-> role,
                                    deletedAt |-> FALSE]
            /\ \A n \in Rows : n # f => channelMember'[n] = channelMember[n]
    BY <1>i, <1>2, InsertsFreshRow
  <2>2. CASE m = f
    BY <1>2, <2>1, <2>2
  <2> QED BY <1>1, <2>1, <2>2
<1>3. CASE SoftDeleteChannelMember(request[r].row)
  <2>1. \/ channelMember'[m] = channelMember[m]
        \/ channelMember'[m] = [channelMember[m] EXCEPT !.deletedAt = channelMember[m].used]
    BY <1>i, <1>3 DEF SoftDeleteChannelMember, TypeOK
  <2> QED BY <1>i, <2>1, <1>1 DEF KeepsChannelMember, ChannelMemberRow, Live
<1>4. CASE CreateChannelWrite(r)
  <2>1. ActiveMembers(request[r].by) # {}
    BY <1>i, <1>4 DEF CreateChannelWrite, At, KnowsAlone, FindMemberRole
  <2> QED BY <1>1, <1>2, <1>4, <2>1 DEF CreateChannelWrite
<1>5. CASE AddChannelMemberWrite(r)
  <2>1. ActiveMembers(request[r].whom) # {}
    BY <1>i, <1>5 DEF AddChannelMemberWrite, At, KnowsAlone, FindMemberRole,
                      PastWorkspaceMember, Filling
  <2> QED BY <1>1, <1>2, <1>5, <2>1 DEF AddChannelMemberWrite
<1>6. CASE AcceptInviteWrite(r)
  <2>1. ActiveMembers(request[r].by) # {}
    BY <1>i, <1>6 DEF AcceptInviteWrite, At, KnowsAlone, FindMemberRole,
                      PastWorkspaceMember, Filling
  <2> QED BY <1>1, <1>2, <1>6, <2>1 DEF AcceptInviteWrite, AcceptInviteTx
<1>7. ASSUME NEW op, CascadeChannels(r, op)
      PROVE  KeepsChannelMember(m)
  <2>1. \/ channelMember'[m] = channelMember[m]
        \/ channelMember'[m] = [channelMember[m] EXCEPT !.deletedAt = channelMember[m].used]
    BY <1>7 DEF CascadeChannels, SoftDeleteChannelMembersByWorkspaceAndUserId
  <2> QED BY <1>i, <2>1, <1>1 DEF KeepsChannelMember, ChannelMemberRow, Live
<1>8. CASE UNCHANGED channelMember
  BY <1>1, <1>8
<1>9. Write(r) =>
        \/ UNCHANGED channelMember \/ SoftDeleteChannelMember(request[r].row)
        \/ CreateChannelWrite(r) \/ AddChannelMemberWrite(r) \/ AcceptInviteWrite(r)
        \/ \E op \in {"leaveWorkspace", "removeMember"} : CascadeChannels(r, op)
  BY DEF Write, WorkspaceWrite, ArchiveWorkspaceWrite, DeleteWorkspaceWrite,
         RestoreWorkspaceWrite, MemberWrite, LeaveWorkspaceWrite, UpdateMemberRoleWrite,
         RemoveMemberWrite, TransferOwnershipWrite, AddMemberWrite, Cascade, CascadeInvites,
         ChannelWrite, ArchiveChannelWrite, DeleteChannelWrite, RestoreChannelWrite,
         ChannelMemberWrite, RemoveChannelMemberWrite, LeaveChannelWrite,
         InviteWrite, CreateInviteWrite, DeclineInviteWrite
<1> QED BY <1>3, <1>4, <1>5, <1>6, <1>7, <1>8, <1>9 DEF tables

\* A channel that is found was found before, or nobody has been in it.
LEMMA ChannelsStay ==
    ASSUME SerialInv, NEW r \in Requests, UNCHANGED tables \/ Write(r),
           request[r] # Idle => request[r].op # "restoreChannel",
           NEW c \in Channels, FindActiveChannel(c)', channel[c].used
    PROVE  FindActiveChannel(c)
<1>i. /\ channel \in [Channels -> ChannelRow] /\ channel[c] \in ChannelRow
      /\ request[r] # Idle => request[r] \in Request
  BY DEF SerialInv, IInv, TypeOK
<1>w. ~workspace.permanentlyDeletedAt \/ workspace' = workspace \/ WorkspaceWrite(r)
  BY DEF Write, Cascade, CascadeChannels, CascadeInvites, tables,
      MemberWrite, LeaveWorkspaceWrite, UpdateMemberRoleWrite, RemoveMemberWrite,
      TransferOwnershipWrite, TransferOwnershipTx, AddMemberWrite, WorkspaceActive,
      ChannelWrite, ArchiveChannelWrite, DeleteChannelWrite, RestoreChannelWrite,
      ChannelMemberWrite, CreateChannelWrite, AddChannelMemberWrite,
      RemoveChannelMemberWrite, LeaveChannelWrite,
      InviteWrite, CreateInviteWrite, AcceptInviteWrite, DeclineInviteWrite
<1>1. ~workspace'.permanentlyDeletedAt => ~workspace.permanentlyDeletedAt
  BY <1>w DEF SerialInv, IInv, TypeOK, WorkspaceWrite, ArchiveWorkspaceWrite, DeleteWorkspaceWrite,
              RestoreWorkspaceWrite
<1>2. CASE UNCHANGED channel
  BY <1>1, <1>2 DEF FindActiveChannel, FindChannelIncludingArchived
<1>3. CASE ChannelWrite(r)
  <2>1. ~RestoreChannelWrite(r)
    BY DEF RestoreChannelWrite, At
  <2> DEFINE gone == [channel EXCEPT ![request[r].ch].deletedAt = TRUE]
  <2>2. \/ channel' = gone
        \/ channel' = [gone EXCEPT ![request[r].ch].permanentlyDeletedAt = TRUE]
    BY <1>3, <2>1 DEF ChannelWrite, ArchiveChannelWrite, DeleteChannelWrite
  <2>3. gone \in [Channels -> ChannelRow]
    BY <1>i DEF ChannelRow
  <2>4. gone[c] = channel[c] \/ gone[c].deletedAt
    BY <1>i DEF ChannelRow
  <2>5. channel'[c] = gone[c] \/ channel'[c] = [gone[c] EXCEPT !.permanentlyDeletedAt = TRUE]
    BY <2>2, <2>3
  <2>6. gone[c] \in ChannelRow
    BY <2>3
  <2> HIDE DEF gone
  <2>7. /\ channel'[c].deletedAt = gone[c].deletedAt
        /\ channel'[c].used = gone[c].used
        /\ ~channel'[c].permanentlyDeletedAt => ~gone[c].permanentlyDeletedAt
    BY <2>5, <2>6 DEF ChannelRow
  <2> QED BY <1>1, <1>i, <2>4, <2>7 DEF FindActiveChannel, FindChannelIncludingArchived
<1>4. CASE CreateChannelWrite(r)
  <2>1. CASE ~channel[request[r].ch].used /\ channel' = [channel EXCEPT ![request[r].ch].used = TRUE]
    <3>0. c # request[r].ch
      BY <2>1
    <3>1. channel'[c] = channel[c]
      BY <1>i, <2>1, <3>0
    <3> QED BY <1>1, <3>1 DEF FindActiveChannel, FindChannelIncludingArchived
  <2> QED BY <1>2, <1>4, <2>1 DEF CreateChannelWrite, SlugTaken
<1>5. Write(r) => UNCHANGED channel \/ ChannelWrite(r) \/ CreateChannelWrite(r)
  BY DEF Write, WorkspaceWrite, ArchiveWorkspaceWrite, DeleteWorkspaceWrite,
         RestoreWorkspaceWrite, MemberWrite, LeaveWorkspaceWrite, UpdateMemberRoleWrite,
         RemoveMemberWrite, TransferOwnershipWrite, AddMemberWrite, Cascade, CascadeChannels,
         CascadeInvites, ChannelMemberWrite, AddChannelMemberWrite, RemoveChannelMemberWrite,
         LeaveChannelWrite, InviteWrite, CreateInviteWrite, AcceptInviteWrite, DeclineInviteWrite
<1> QED BY <1>2, <1>3, <1>4, <1>5 DEF tables

\* An invitation that is pending was, or its addressee has been found a member.
LEMMA InviteesEnter ==
    ASSUME SerialInv, Serial, NEW r \in Requests, UNCHANGED tables \/ Write(r),
           NEW i \in Rows, Pending(invite'[i])
    PROVE  \/ Pending(invite[i]) /\ invite[i].email = invite'[i].email
           \/ UNCHANGED member /\ ActiveMembers(invite'[i].email) # {}
<1>i. /\ IInv /\ invite \in [Rows -> InviteRow] /\ invite[i] \in InviteRow
      /\ request[r] # Idle => KnowsAlone(request[r]) /\ request[r] \in Request
  BY DEF SerialInv, IInv, TypeOK, AloneInv
<1>1. CASE invite'[i] = invite[i]
  BY <1>1
<1>2. CASE CreateInviteWrite(r)
  <2>1. ActiveMembers(request[r].whom) # {}
    BY <1>i, <1>2 DEF CreateInviteWrite, At, KnowsAlone, FindMemberRole,
                      PastWorkspaceMember, Filling
  <2>2. invite'[i] = invite[i] \/ invite'[i].email = request[r].whom
    BY <1>i, <1>2 DEF CreateInviteWrite
  <2> QED BY <1>1, <1>2, <2>1, <2>2 DEF CreateInviteWrite
<1>3. ASSUME NEW b \in BOOLEAN, invite[i].deletedAt => b,
             invite'[i] = [invite[i] EXCEPT !.deletedAt = b]
      PROVE  Pending(invite[i]) /\ invite[i].email = invite'[i].email
  BY <1>i, <1>3 DEF Pending, Live, InviteRow
<1>4. CASE DeclineInviteWrite(r)
  <2> DEFINE j == request[r].row
             gone == invite[j].deletedAt \/ Pending(invite[j])
  <2>1. invite'[i] = invite[i] \/ (i = j /\ invite'[i] = [invite[i] EXCEPT !.deletedAt = gone])
    BY <1>i, <1>4 DEF DeclineInviteWrite
  <2>2. i = j /\ invite[i].deletedAt => gone
    OBVIOUS
  <2>3. gone \in BOOLEAN
    BY <1>i, <1>4 DEF Pending, Live
  <2> HIDE DEF j, gone
  <2> QED BY <1>1, <1>3, <2>1, <2>2, <2>3
<1>5. CASE SoftDeletePendingInvitesByWorkspaceAndEmail(request[r].whom)
  <2>1. invite'[i] = invite[i] \/ invite'[i] = [invite[i] EXCEPT !.deletedAt = TRUE]
    BY <1>5 DEF SoftDeletePendingInvitesByWorkspaceAndEmail
  <2> QED BY <1>1, <1>3, <2>1
<1>6. CASE AcceptInviteWrite(r)
  <2>1. invite'[i] = invite[i] \/ invite'[i] = [invite[i] EXCEPT !.usedById = TRUE]
    BY <1>i, <1>6 DEF AcceptInviteWrite, AcceptInviteTx
  <2> QED BY <1>i, <1>1, <2>1 DEF Pending, InviteRow
<1>7. Write(r) =>
          \/ UNCHANGED invite \/ CreateInviteWrite(r) \/ DeclineInviteWrite(r)
          \/ AcceptInviteWrite(r)
          \/ SoftDeletePendingInvitesByWorkspaceAndEmail(request[r].whom)
  BY DEF Write, WorkspaceWrite, ArchiveWorkspaceWrite, DeleteWorkspaceWrite,
         RestoreWorkspaceWrite, MemberWrite, LeaveWorkspaceWrite, UpdateMemberRoleWrite,
         RemoveMemberWrite, TransferOwnershipWrite, AddMemberWrite, Cascade, CascadeChannels,
         CascadeInvites, ChannelWrite, ArchiveChannelWrite, DeleteChannelWrite,
         RestoreChannelWrite, ChannelMemberWrite, CreateChannelWrite, AddChannelMemberWrite,
         RemoveChannelMemberWrite, LeaveChannelWrite, InviteWrite
<1> QED BY <1>1, <1>2, <1>4, <1>5, <1>6, <1>7 DEF tables

LEMMA ExpiringEntersNobody ==
    ASSUME IInv, NEW j \in Rows, InviteExpires(j), NEW i \in Rows, Pending(invite'[i])
    PROVE  Pending(invite[i]) /\ invite[i].email = invite'[i].email
<1>1. invite[i] \in InviteRow
  BY DEF IInv, TypeOK
<1>2. invite'[i] = invite[i] \/ invite'[i] = [invite[i] EXCEPT !.expired = TRUE]
  BY DEF InviteExpires, IInv, TypeOK
<1> QED BY <1>1, <1>2 DEF Pending, Live, InviteRow

\* Steps of requests that are not in the cascade.
LEMMA ContainedStays ==
    ASSUME SerialInv, Serial, Contained, NEW r \in Requests, GoesOn(r),
           UNCHANGED tables \/ Write(r), ~Removing(r)
    PROVE  MembersBelong' /\ InviteesBelong'
<1>i. IInv
  BY DEF SerialInv
<1>1. ASSUME NEW u, NEW ats, {"channels"} \subseteq ats, ats \subseteq {"channels", "invites"},
             Belongs(u, ats)
      PROVE  Belongs(u, ats)'
  <2>1. CASE ActiveMembers(u) # {}
    <3>1. Leaving(u, {"channels"})' => Leaving(u, ats)'
      BY <1>1 DEF Leaving
    <3> QED BY <2>1, <3>1, MembersStayOrLeave DEF Belongs
  <2>2. CASE Leaving(u, ats)
    BY <1>1, <2>2, LeavingGoesOn DEF Belongs
  <2> QED BY <1>1, <2>1, <2>2 DEF Belongs
<1>2. MembersBelong'
  <2> SUFFICES ASSUME NEW m \in Rows, NEW u, NEW c, Live(channelMember'[m]),
                      u = channelMember'[m].user, c = channelMember'[m].channel,
                      FindActiveChannel(c)'
               PROVE  Belongs(u, {"channels"})'
    BY DEF MembersBelong, Belongs, Leaving, ActiveMembers, FindActiveChannel,
           FindChannelIncludingArchived
  <2>1. CASE KeepsChannelMember(m)
    <3>1. Live(channelMember[m]) /\ c = channelMember[m].channel /\ u = channelMember[m].user
      BY <2>1 DEF KeepsChannelMember
    <3>2. c \in Channels /\ channel[c].used
      BY <1>i, <3>1 DEF IInv, TypeOK, RowsRefer, ChannelMemberRow, Live
    <3>3. FindActiveChannel(c)
      BY <3>2, ChannelsStay DEF Contained, NoneRestores
    <3> QED BY <1>1, <3>1, <3>3 DEF Contained, MembersBelong
  <2>2. CASE UNCHANGED member /\ ActiveMembers(u) # {}
    BY <2>2 DEF Belongs, ActiveMembers
  <2> QED BY <2>1, <2>2, ChannelMembersEnter
<1>3. InviteesBelong'
  <2> SUFFICES ASSUME NEW i \in Rows, NEW u, Pending(invite'[i]), u = invite'[i].email
               PROVE  Belongs(u, {"channels", "invites"})'
    BY DEF InviteesBelong, Belongs, Leaving, ActiveMembers
  <2>1. CASE Pending(invite[i]) /\ invite[i].email = u
    BY <1>1, <2>1 DEF Contained, InviteesBelong
  <2>2. CASE UNCHANGED member /\ ActiveMembers(u) # {}
    BY <2>2 DEF Belongs, ActiveMembers
  <2> QED BY <2>1, <2>2, InviteesEnter
<1> QED BY <1>2, <1>3

\* The cascade takes the user out of the channels, then the invitations back.
LEMMA CascadeContains ==
    ASSUME SerialInv, Serial, Contained, NEW r \in Requests, GoesOn(r), Cascade(r)
    PROVE  MembersBelong' /\ InviteesBelong'
<1> DEFINE q == request[r]
<1>i. /\ IInv /\ (\A m \in Rows : channelMember[m] \in ChannelMemberRow)
      /\ (\A i \in Rows : invite[i] \in InviteRow)
      /\ q # Idle /\ q \in Request /\ q.op \in Removal
  BY DEF SerialInv, IInv, TypeOK, Cascade, CascadeChannels, CascadeInvites, At, Removal
<1>1. ASSUME NEW u, NEW ats, Leaving(u, ats)
      PROVE  u = q.whom /\ q.at \in ats
  BY <1>i, <1>1 DEF Leaving, SerialInv, AloneInv, AtMostOne
<1>2. CASE \E op \in Removal : CascadeChannels(r, op)
  <2>1. /\ q.at = "channels" /\ SoftDeleteChannelMembersByWorkspaceAndUserId(q.whom)
        /\ request' = [request EXCEPT ![r].at = "invites"]
        /\ UNCHANGED <<workspace, member, channel, invite>>
    BY <1>2 DEF CascadeChannels, At
  <2>2. request'[r] = [q EXCEPT !.at = "invites"]
    BY <2>1 DEF SerialInv, IInv, TypeOK
  <2>3. request'[r] # Idle /\ request'[r].op \in Removal /\ request'[r].at = "invites"
        /\ request'[r].whom = q.whom
    BY <1>i, <2>2 DEF Request, Idle, Removal, AllOps
  <2>4. MembersBelong'
    <3> SUFFICES ASSUME NEW m \in Rows, NEW u, NEW c, Live(channelMember'[m]),
                        u = channelMember'[m].user, c = channelMember'[m].channel,
                        FindActiveChannel(c)'
                 PROVE  Belongs(u, {"channels"})'
      BY DEF MembersBelong, Belongs, Leaving, ActiveMembers, FindActiveChannel,
             FindChannelIncludingArchived
    <3>1. FindActiveChannel(c)
      BY <2>1 DEF FindActiveChannel, FindChannelIncludingArchived
    <3>2. CASE channelMember'[m] = channelMember[m] /\ u # q.whom
      <4>1. Belongs(u, {"channels"})
        BY <3>1, <3>2 DEF Contained, MembersBelong
      <4> QED BY <1>1, <2>1, <3>2, <4>1 DEF Belongs, ActiveMembers
    <3>3. channelMember'[m] = channelMember[m] /\ u # q.whom
      <4> DEFINE mine == /\ channelMember[m].user = q.whom
                         /\ ~channel[channelMember[m].channel].deletedAt
                         /\ ~channel[channelMember[m].channel].permanentlyDeletedAt
      <4>1. channelMember'[m] = IF mine
                THEN [channelMember[m] EXCEPT !.deletedAt = channelMember[m].used]
                ELSE channelMember[m]
        BY <2>1 DEF SoftDeleteChannelMembersByWorkspaceAndUserId
      <4>2. ~mine
        BY <1>i, <4>1 DEF Live, ChannelMemberRow
      <4>3. channelMember'[m] = channelMember[m]
        BY <4>1, <4>2
      <4> QED BY <3>1, <4>2, <4>3 DEF FindActiveChannel, FindChannelIncludingArchived
    <3> QED BY <3>2, <3>3
  <2>5. InviteesBelong'
    <3> SUFFICES ASSUME NEW i \in Rows, NEW u, Pending(invite'[i]), u = invite'[i].email
                 PROVE  Belongs(u, {"channels", "invites"})'
      BY DEF InviteesBelong, Belongs, Leaving, ActiveMembers
    <3>1. Belongs(u, {"channels", "invites"})
      BY <2>1 DEF Contained, InviteesBelong
    <3>2. CASE u = q.whom
      BY <2>3, <3>2 DEF Belongs, Leaving
    <3> QED BY <1>1, <2>1, <3>1, <3>2 DEF Belongs, ActiveMembers
  <2> QED BY <2>4, <2>5
<1>3. CASE \E op \in Removal : CascadeInvites(r, op)
  <2>1. /\ q.at = "invites" /\ SoftDeletePendingInvitesByWorkspaceAndEmail(q.whom)
        /\ UNCHANGED <<workspace, member, channel, channelMember>>
    BY <1>3 DEF CascadeInvites, At
  <2>2. MembersBelong'
    <3> SUFFICES ASSUME NEW m \in Rows, NEW u, NEW c, Live(channelMember'[m]),
                        u = channelMember'[m].user, c = channelMember'[m].channel,
                        FindActiveChannel(c)'
                 PROVE  Belongs(u, {"channels"})'
      BY DEF MembersBelong, Belongs, Leaving, ActiveMembers, FindActiveChannel,
             FindChannelIncludingArchived
    <3>1. FindActiveChannel(c)
      BY <2>1 DEF FindActiveChannel, FindChannelIncludingArchived
    <3>2. Belongs(u, {"channels"})
      BY <2>1, <3>1 DEF Contained, MembersBelong
    <3> QED BY <1>1, <2>1, <3>2 DEF Belongs, ActiveMembers
  <2>3. InviteesBelong'
    <3> SUFFICES ASSUME NEW i \in Rows, NEW u, Pending(invite'[i]), u = invite'[i].email
                 PROVE  Belongs(u, {"channels", "invites"})'
      BY DEF InviteesBelong, Belongs, Leaving, ActiveMembers
    <3>1. Pending(invite[i]) /\ invite[i].email = u /\ u # q.whom
      BY <1>i, <2>1 DEF SoftDeletePendingInvitesByWorkspaceAndEmail, Pending, Live, InviteRow
    <3>2. Belongs(u, {"channels", "invites"})
      BY <3>1 DEF Contained, InviteesBelong
    <3> QED BY <1>1, <2>1, <3>1, <3>2 DEF Belongs, ActiveMembers
  <2> QED BY <2>2, <2>3
<1> QED BY <1>2, <1>3 DEF Cascade, Removal

LEMMA WhenExpiring ==
    ASSUME SerialInv, Contained, NEW j \in Rows, InviteExpires(j)
    PROVE  Contained'
<1>1. \A u, ats : Belongs(u, ats) => Belongs(u, ats)'
  BY DEF Belongs, Leaving, ActiveMembers, InviteExpires
<1>2. MembersBelong'
  BY DEF InviteExpires, Contained, MembersBelong, Belongs, Leaving, ActiveMembers,
         FindActiveChannel, FindChannelIncludingArchived
<1>3. InviteesBelong'
  <2> SUFFICES ASSUME NEW i \in Rows, NEW u, Pending(invite'[i]), u = invite'[i].email
               PROVE  Belongs(u, {"channels", "invites"})'
    BY DEF InviteesBelong, Belongs, Leaving, ActiveMembers
  <2>1. Pending(invite[i]) /\ invite[i].email = u
    BY ExpiringEntersNobody DEF SerialInv
  <2> QED BY <1>1, <2>1 DEF Contained, InviteesBelong
<1>4. NoneRestores'
  BY DEF InviteExpires, Contained, NoneRestores
<1> QED BY <1>2, <1>3, <1>4 DEF Contained

LEMMA ContainedNext ==
    ASSUME SerialInv, ContainedInv, [MCNext]_mcvars
    PROVE  ContainedInv'
<1>1. CASE UNCHANGED mcvars
  BY <1>1 DEF mcvars, vars, tables, ContainedInv, Serial, Uninterrupted, Contained,
      MembersBelong, InviteesBelong, NoneRestores, Belongs, Leaving, ActiveMembers,
      FindActiveChannel, FindChannelIncludingArchived
<1>2. CASE MCNext
  <2>1. SUFFICES ASSUME Serial, Uninterrupted, Contained PROVE Contained'
    BY <1>2 DEF MCNext, ContainedInv, Serial, Uninterrupted
  <2>2. ASSUME NEW r \in Requests, WorkspaceMethod(r) \/ ChannelMethod(r), GoesOn(r),
               UNCHANGED tables \/ Write(r)
        PROVE  Contained'
    <3>1. NoneRestores'
      <4> SUFFICES ASSUME NEW s \in Requests, request'[s] # Idle
                   PROVE  request'[s].op # "restoreChannel"
        BY DEF NoneRestores
      <4>1. CASE request[s] # Idle
        BY <2>1, <2>2, <4>1 DEF GoesOn, Contained, NoneRestores
      <4>2. CASE request[s] = Idle
        BY <1>2, <2>1, <4>2 DEF MCNext, Within, InFlight, Uninterrupted
      <4> QED BY <4>1, <4>2
    <3>2. MembersBelong' /\ InviteesBelong'
      BY <2>1, <2>2, OnlyCascades, CascadeContains, ContainedStays
    <3> QED BY <3>1, <3>2 DEF Contained
  <2>3. ASSUME NEW r \in Requests, WorkspaceMethod(r) \/ ChannelMethod(r)
        PROVE  GoesOn(r) /\ (UNCHANGED tables \/ Write(r))
    BY <2>1, <2>3, StepGoesOn, WorkspaceMethodReadsOrWrites, ChannelMethodReadsOrWrites
       DEF SerialInv, AloneInv, StepOf
  <2> QED BY <1>2, <2>1, <2>2, <2>3, WhenExpiring DEF MCNext, Uninterrupted
<1> QED BY <1>1, <1>2

LEMMA ContainedInit == MCInit => ContainedInv
BY TenancyAssumption DEF MCInit, Init, ContainedInv, Contained, MembersBelong, InviteesBelong,
    NoneRestores, Live, Pending

\* Served one at a time and without a failure between two queries, requests leave
\* nobody in a channel, or invited to one, who is not a member of the workspace --
\* unless a channel is restored, whose members were kept while they left.
THEOREM SerialStrandsNobody == MCSpec => []NothingStrandedWhenSerial
<1>1. SerialInv /\ ContainedInv => NothingStrandedWhenSerial
  BY DEF ContainedInv, NothingStrandedWhenSerial, NothingStranded, Quiescent, Contained,
         MembersBelong, InviteesBelong, Belongs, Leaving
<1>2. SerialInv /\ ContainedInv /\ [MCNext]_mcvars => SerialInv' /\ ContainedInv'
  BY SerialNext, ContainedNext
<1>3. MCInit => SerialInv /\ ContainedInv
  BY SerialInit, ContainedInit
<1> QED BY <1>1, <1>2, <1>3, PTL DEF MCSpec, mcvars
=============================================================================
