---------------------------- MODULE MCMemberships ----------------------------
(***************************************************************************)
(* Instances of Memberships for TLC.  A run names the operations its        *)
(* clients call, so that each question gets the interleavings it is about.  *)
(***************************************************************************)
EXTENDS Memberships, TLC

CONSTANTS u1, u2, u3
Solo == [u \in {u1} |-> 1]
Pair == [u \in {u1, u2} |-> IF u = u1 THEN 1 ELSE 2]
Trio == [u \in {u1, u2, u3} |-> CASE u = u1 -> 1 [] u = u2 -> 2 [] u = u3 -> 3]

Slots == Permutations(Requests)

OwnershipOps == {"leaveWorkspace", "updateMemberRole", "removeMember",
                 "transferOwnership", "addMember"}
LifecycleOps == {"transferOwnership", "archiveWorkspace", "deleteWorkspace",
                 "restoreWorkspace", "addMember"}
ChannelOps == {"createChannel", "addChannelMember", "removeChannelMember",
               "leaveChannel", "archiveChannel", "deleteChannel", "restoreChannel"}
AdmissionOps == {"createChannel", "createInvite", "acceptInvite"}
InviteOps == {"createChannel", "createInvite", "acceptInvite", "declineInvite",
              "leaveWorkspace"}
RoleOps == OwnershipOps \cup LifecycleOps \cup {"createChannel", "addChannelMember"}
\* Not archiving a channel: it keeps its members while they leave.
MovingOps == AllOps \ {"transferOwnership", "updateMemberRole",
                       "archiveWorkspace", "restoreWorkspace",
                       "archiveChannel", "restoreChannel", "deleteChannel"}

\* The clients of a behaviour call the operations of one workload, so that each
\* question gets the interleavings, and the rows, it is about.
CONSTANT Workloads
VARIABLE workload

Workload(ops, rows, slots, faults) ==
    [ops |-> ops, rows |-> rows, slots |-> slots, faults |-> faults]
OwnershipWorkloads ==
    {Workload(OwnershipOps, 2, 2, TRUE),
     Workload(OwnershipOps \ {"updateMemberRole"}, 3, 2, TRUE),
     Workload(LifecycleOps, 3, 2, TRUE),
     Workload({"addMember", "leaveWorkspace"}, 4, 2, FALSE)}
ChannelWorkloads ==
    {Workload(ChannelOps, 3, 2, FALSE), Workload(InviteOps, 2, 2, FALSE),
     Workload(AdmissionOps, 3, 2, FALSE),
     Workload(RoleOps, 2, 1, FALSE), Workload(MovingOps, 2, 1, FALSE)}
AllWorkloads == OwnershipWorkloads \cup ChannelWorkloads

\* RowsLeft with the workload's bound: a call is accepted while every call in
\* flight can insert.
Table(op) == CASE op = "addMember" -> member
               [] op = "createInvite" -> invite
               [] OTHER -> channelMember
InFlight == {r \in Requests : request[r] # Idle}
RowsLeftIn(load, op) ==
    Cardinality({r \in InFlight : request[r].op \in Inserting})
        < load.rows - Cardinality(Inserted(Table(op)))

Within(load) ==
    \A r \in InFlight' \ InFlight :
        /\ request'[r].op \in load.ops
        /\ request'[r].op \in Inserting => RowsLeftIn(load, request'[r].op)
        /\ Cardinality(InFlight) < load.slots

MCInit == Init /\ workload \in Workloads
MCNext ==
    /\ \/ \E r \in Requests : WorkspaceMethod(r) \/ ChannelMethod(r)
       \/ \E i \in Rows : InviteExpires(i)
       \/ workload.faults /\ \E r \in Requests : Fault(r)
    /\ Within(workload)
    /\ UNCHANGED workload
MCSpec == MCInit /\ [][MCNext]_<<vars, workload>>

\* What holds when requests are served one at a time, and does not otherwise.
Serial == workload.slots = 1
OwnedWhenSerial == Serial => AlwaysOwned
\* Nor when leaveWorkspace fails between two of its queries, or a channel is restored
\* whose members, kept while it was archived, have left the workspace.
Uninterrupted == ~workload.faults /\ "restoreChannel" \notin workload.ops
NothingStrandedWhenSerial == Serial /\ Uninterrupted => NothingStranded
=============================================================================
