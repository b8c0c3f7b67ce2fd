----------------------------- MODULE InviteProofs -----------------------------
(***************************************************************************)
(* Proofs about Invites, for any users, invitations and request slots: uses *)
(* are counted right, and a personal invitation is a ticket (Tickets) how-  *)
(* ever the requests about it interleave and fail.                         *)
(*                                                                         *)
(* The argument: a row never changes its kind, so what a request learnt of  *)
(* it (RequestsKnow) holds until its transaction; and every transaction     *)
(* either changes one row and at most one role, or nothing.                *)
(***************************************************************************)
EXTENDS Invites, TLAPS

USE InvitesAssumption

OnRow == {"accept", "revoke", "decline"}
Knows(q) ==
    /\ q.op \in OnRow => q.id \in Invitations /\ invite[q.id].used
    /\ q.op = "accept" /\ q.at = "mark" => ~IsLink(q.id)
    /\ q.op = "accept" /\ q.at \in {"count", "join"} => IsLink(q.id)
RequestsKnow == \A r \in Requests : request[r] # Idle => Knows(request[r])

\* A row that is not issued is blank, and a link is not used by anybody.
RowsSound ==
    \A i \in Invitations :
        /\ ~invite[i].used => /\ invite[i].maxUses = 0
                              /\ invite[i].usesCount = 0
                              /\ invite[i].usedById = NoUser
        /\ IsLink(i) => invite[i].usedById = NoUser

IInv == TypeOK /\ UsesAreAdmissions /\ RowsSound /\ RequestsKnow

-----------------------------------------------------------------------------
(***************************************************************************)
(* Steps that only read                                                    *)
(***************************************************************************)
Reads(r) ==
    /\ UNCHANGED tables
    /\ request' = [request EXCEPT ![r] = request'[r]]
    /\ request'[r] # Idle => request'[r] \in Request /\ Knows(request'[r])

LEMMA ReadsKeepIInv ==
    ASSUME IInv, NEW r \in Requests, Reads(r)
    PROVE  IInv'
<1>1. TypeOK'
  BY DEF IInv, TypeOK, Reads, tables
<1>2. UsesAreAdmissions' /\ RowsSound'
  BY DEF IInv, UsesAreAdmissions, RowsSound, IsLink, Reads, tables
<1>3. RequestsKnow'
  BY DEF IInv, TypeOK, RequestsKnow, Knows, OnRow, IsLink, Reads, tables
<1> QED BY <1>1, <1>2, <1>3 DEF IInv

LEMMA CallIsRequest ==
    ASSUME NEW op \in {"create"} \cup OnRow,
           NEW at \in {"role", "workspace", "write"}, NEW u \in Users
    PROVE  Call(op, at, u) \in Request
BY DEF Call, Request, Grantable, OnRow

LEMMA AcceptedReads ==
    ASSUME IInv, NEW r \in Requests, NEW q \in Request, Accepted(r, q), UNCHANGED tables,
           q.op \in OnRow => q.id \in Invitations /\ invite[q.id].used,
           q.at \notin {"mark", "count", "join"}
    PROVE  Reads(r)
BY DEF IInv, TypeOK, Accepted, Reads, Knows

LEMMA CheckReads ==
    ASSUME IInv, NEW r \in Requests, request[r] # Idle, NEW passed,
           NEW at \in {"pending", "member", "insert", "mark", "count", "join",
                       "invite", "write"},
           Check(r, passed, at),
           passed /\ request[r].op = "accept" =>
               /\ at = "mark" => ~IsLink(request[r].id)
               /\ at \in {"count", "join"} => IsLink(request[r].id)
    PROVE  Reads(r)
<1> DEFINE q == [request[r] EXCEPT !.at = at]
<1>1. request[r] \in Request /\ Knows(request[r])
  BY DEF IInv, TypeOK, RequestsKnow
<1>2. q \in Request /\ q.op = request[r].op /\ q.id = request[r].id /\ q.at = at
  BY <1>1 DEF Request
<1>3. passed => Knows(q)
  BY <1>1, <1>2 DEF Knows
<1>4. (passed /\ request' = [request EXCEPT ![r] = q])
      \/ (~passed /\ request' = [request EXCEPT ![r] = Idle])
  BY DEF Check, MoveOn, Finish
<1>5. UNCHANGED tables
  BY DEF Check
<1> HIDE DEF q
<1> QED BY <1>2, <1>3, <1>4, <1>5 DEF Reads, IInv, TypeOK

LEMMA CreateSteps ==
    ASSUME IInv, NEW r \in Requests, Create(r)
    PROVE  Reads(r) \/ CreateInsert(r)
<1>1. ASSUME CreateCalled(r) PROVE Reads(r)
  <2>1. PICK u \in Users, to \in Users \cup {NoUser}, max \in MaxUses \cup {0},
             g \in Grantable :
             Accepted(r, [Call("create", "role", u) EXCEPT !.email = to, !.maxUses = max,
                                                           !.grant = g])
    BY <1>1 DEF CreateCalled
  <2> DEFINE c == Call("create", "role", u)
         q == [c EXCEPT !.email = to, !.maxUses = max, !.grant = g]
  <2>2. c \in Request /\ c.op = "create" /\ c.at = "role"
    BY CallIsRequest DEF Call
  <2>3. q \in Request /\ q.op = "create" /\ q.at = "role"
    BY <2>2 DEF Request
  <2>4. Accepted(r, q)
    BY <2>1
  <2>5. UNCHANGED tables
    BY <1>1 DEF CreateCalled
  <2> HIDE DEF q
  <2> QED BY <2>3, <2>4, <2>5, AcceptedReads DEF OnRow
<1>2. CreateRole(r) => Reads(r)
  BY CheckReads DEF CreateRole, At
<1>3. CreatePending(r) => Reads(r)
  BY CheckReads DEF CreatePending, At
<1>4. CreateMember(r) => Reads(r)
  BY CheckReads DEF CreateMember, At
<1> QED BY <1>1, <1>2, <1>3, <1>4 DEF Create

LEMMA RowCallReads ==
    ASSUME IInv, NEW r \in Requests, NEW op \in OnRow,
           NEW at \in {"role", "workspace", "write"}, NEW u \in Users,
           NEW i \in Invitations, invite[i].used,
           Accepted(r, [Call(op, at, u) EXCEPT !.id = i]), UNCHANGED tables
    PROVE  Reads(r)
<1> DEFINE c == Call(op, at, u)
       q == [c EXCEPT !.id = i]
<1>1. c \in Request /\ c.op = op /\ c.at = at
  BY CallIsRequest DEF Call
<1>2. q \in Request /\ q.id = i /\ q.at = at
  BY <1>1 DEF Request
<1>3. Accepted(r, q)
  OBVIOUS
<1> HIDE DEF q
<1> QED BY <1>2, <1>3, AcceptedReads

LEMMA AcceptSteps ==
    ASSUME IInv, NEW r \in Requests, Accept(r)
    PROVE  Reads(r) \/ AcceptMark(r) \/ AcceptJoin(r)
<1>1. AcceptCalled(r) => Reads(r)
  BY RowCallReads DEF AcceptCalled, Existing, OnRow
<1>2. AcceptWorkspace(r) => Reads(r)
  BY CheckReads DEF AcceptWorkspace, At
<1>3. AcceptMember(r) => Reads(r)
  BY CheckReads DEF AcceptMember, At
<1>4. AcceptCount(r) => Reads(r)
  BY CheckReads DEF AcceptCount, At, IInv, RequestsKnow, Knows
<1> QED BY <1>1, <1>2, <1>3, <1>4 DEF Accept

LEMMA RevokeSteps ==
    ASSUME IInv, NEW r \in Requests, Revoke(r)
    PROVE  Reads(r) \/ RevokeWrite(r)
<1>1. RevokeCalled(r) => Reads(r)
  BY RowCallReads DEF RevokeCalled, Unissued, OnRow
<1>2. RevokeRole(r) => Reads(r)
  BY CheckReads DEF RevokeRole, At
<1>3. RevokeInvite(r) => Reads(r)
  BY CheckReads DEF RevokeInvite, At
<1> QED BY <1>1, <1>2, <1>3 DEF Revoke

LEMMA DeclineSteps ==
    ASSUME IInv, NEW r \in Requests, Decline(r)
    PROVE  Reads(r) \/ DeclineWrite(r)
BY RowCallReads DEF Decline, DeclineCalled, Existing, OnRow

LEMMA FaultReads ==
    ASSUME IInv, NEW r \in Requests, Fault(r)
    PROVE  Reads(r)
BY DEF IInv, TypeOK, Fault, Finish, Reads

-----------------------------------------------------------------------------
(***************************************************************************)
(* Steps that write.  Each has one of six effects on the tables; none      *)
(* changes the kind of a row.                                              *)
(***************************************************************************)
Settles(r) == request' = [request EXCEPT ![r] = Idle]
Served == UNCHANGED request \/ \E r \in Requests : Settles(r)

Issues(i, row) ==
    /\ ~invite[i].used
    /\ row.used /\ row.usesCount = 0 /\ row.usedById = NoUser /\ ~row.deletedAt
    /\ invite' = [invite EXCEPT ![i] = row]
    /\ UNCHANGED <<role, active, admissions>>

Marks(i, u) ==
    /\ Unused(i) /\ ~IsLink(i) /\ role[u] = NoRole
    /\ invite' = [invite EXCEPT ![i].usedById = u] /\ Join(i, u)
    /\ UNCHANGED active

Counts(i, u) ==
    /\ IsLink(i) /\ invite[i].used /\ role[u] = NoRole
    /\ invite' = [invite EXCEPT ![i].usesCount = @ + 1] /\ Join(i, u)
    /\ UNCHANGED active

\* Deletion and expiry: nothing that is counted changes.
Flags(i, row) ==
    /\ row.used = invite[i].used /\ row.maxUses = invite[i].maxUses
    /\ row.usesCount = invite[i].usesCount /\ row.usedById = invite[i].usedById
    /\ row.deletedAt = invite[i].deletedAt \/ Unused(i) \/ IsLink(i)
    /\ invite' = [invite EXCEPT ![i] = row]
    /\ UNCHANGED <<role, active, admissions>>

Grants(u, to) ==
    /\ role' = [role EXCEPT ![u] = to]
    /\ UNCHANGED <<active, invite, admissions>>

Freezes ==
    /\ active' \in BOOLEAN
    /\ UNCHANGED <<role, invite, admissions>>

Writes ==
    \/ \E i \in Invitations, row \in InviteRow : Issues(i, row) \/ Flags(i, row)
    \/ \E i \in Invitations, u \in Users : Marks(i, u) \/ Counts(i, u)
    \/ \E u \in Users, to \in Grantable \cup {NoRole} : Grants(u, to)
    \/ Freezes

LEMMA FreshIsUnissued ==
    ASSUME Unissued # {}
    PROVE  Fresh \in Invitations /\ ~invite[Fresh].used
BY DEF Unissued, Fresh

LEMMA CreateInsertIssues ==
    ASSUME IInv, NEW r \in Requests, CreateInsert(r)
    PROVE  Writes /\ Settles(r)
<1> DEFINE row == [used |-> TRUE, email |-> request[r].email, role |-> request[r].grant,
                   maxUses |-> request[r].maxUses, usesCount |-> 0, usedById |-> NoUser,
                   deletedAt |-> FALSE, expired |-> FALSE]
<1>1. request[r] \in Request
  BY DEF IInv, TypeOK, CreateInsert, At
<1>2. row \in InviteRow
  BY <1>1 DEF InviteRow, Request
<1>3. Fresh \in Invitations /\ Issues(Fresh, row)
  BY FreshIsUnissued DEF CreateInsert, CreateInvite, Issues
<1>4. Settles(r)
  BY DEF CreateInsert, Finish, Settles
<1> HIDE DEF row
<1> QED BY <1>2, <1>3, <1>4 DEF Writes

LEMMA AcceptMarkWrites ==
    ASSUME IInv, NEW r \in Requests, AcceptMark(r)
    PROVE  (Writes \/ UNCHANGED tables) /\ Settles(r)
<1>1. /\ request[r] \in Request /\ request[r].op = "accept"
      /\ request[r].id \in Invitations /\ ~IsLink(request[r].id) /\ request[r].by \in Users
  BY DEF IInv, TypeOK, RequestsKnow, Knows, OnRow, AcceptMark, At, Request
<1>2. Marks(request[r].id, request[r].by) \/ UNCHANGED tables
  BY <1>1 DEF AcceptMark, AcceptInvite, Marks, tables
<1> QED BY <1>1, <1>2 DEF AcceptMark, Finish, Settles, Writes

LEMMA AcceptJoinWrites ==
    ASSUME IInv, NEW r \in Requests, AcceptJoin(r)
    PROVE  (Writes \/ UNCHANGED tables) /\ Settles(r)
<1>1. /\ request[r] \in Request /\ request[r].op = "accept"
      /\ request[r].id \in Invitations /\ IsLink(request[r].id)
      /\ invite[request[r].id].used /\ request[r].by \in Users
  BY DEF IInv, TypeOK, RequestsKnow, Knows, OnRow, AcceptJoin, At, Request
<1>2. Counts(request[r].id, request[r].by) \/ UNCHANGED tables
  BY <1>1 DEF AcceptJoin, AcceptInviteLink, Counts, tables
<1> QED BY <1>1, <1>2 DEF AcceptJoin, Finish, Settles, Writes

LEMMA SoftDeleteFlags ==
    ASSUME IInv, NEW i \in Invitations, SoftDelete(i), Unused(i) \/ IsLink(i),
           UNCHANGED <<role, active, admissions>>
    PROVE  Writes
<1> DEFINE row == [invite[i] EXCEPT !.deletedAt = TRUE]
<1>1. invite[i] \in InviteRow
  BY DEF IInv, TypeOK
<1>2. row \in InviteRow
  BY <1>1 DEF InviteRow
<1>3. Flags(i, row)
  BY <1>1 DEF Flags, SoftDelete, InviteRow
<1> HIDE DEF row
<1> QED BY <1>2, <1>3 DEF Writes

LEMMA RevokeWriteWrites ==
    ASSUME IInv, NEW r \in Requests, RevokeWrite(r)
    PROVE  (Writes \/ UNCHANGED tables) /\ Settles(r)
<1>1. request[r].id \in Invitations
  BY DEF IInv, RequestsKnow, Knows, OnRow, RevokeWrite, At
<1>2. Writes \/ UNCHANGED tables
  BY <1>1, SoftDeleteFlags
     DEF RevokeWrite, SoftDeleteInviteLink, SoftDeleteIfUnused, tables
<1> QED BY <1>2 DEF RevokeWrite, Finish, Settles

LEMMA DeclineWriteWrites ==
    ASSUME IInv, NEW r \in Requests, DeclineWrite(r)
    PROVE  (Writes \/ UNCHANGED tables) /\ Settles(r)
<1>1. request[r].id \in Invitations
  BY DEF IInv, RequestsKnow, Knows, OnRow, DeclineWrite, At
<1>2. Writes \/ UNCHANGED tables
  BY <1>1, SoftDeleteFlags DEF DeclineWrite, SoftDeleteIfUnused, tables
<1> QED BY <1>2 DEF DeclineWrite, Finish, Settles

LEMMA InviteExpiresWrites ==
    ASSUME IInv, NEW i \in Invitations, InviteExpires(i)
    PROVE  Writes /\ UNCHANGED request
<1> DEFINE row == [invite[i] EXCEPT !.expired = TRUE]
<1>1. invite[i] \in InviteRow
  BY DEF IInv, TypeOK
<1>2. row \in InviteRow
  BY <1>1 DEF InviteRow
<1>3. Flags(i, row)
  BY <1>1 DEF Flags, InviteExpires, InviteRow
<1> HIDE DEF row
<1> QED BY <1>2, <1>3 DEF Writes, InviteExpires

\* A request that finishes without a write has read.
LEMMA SettlesReads ==
    ASSUME IInv, NEW r \in Requests, Settles(r), UNCHANGED tables
    PROVE  Reads(r)
BY DEF IInv, TypeOK, Settles, Reads

LEMMA StepsReadOrWrite ==
    ASSUME IInv, Next
    PROVE  (\E r \in Requests : Reads(r)) \/ (Writes /\ Served)
<1>1. ASSUME NEW r \in Requests, Create(r)
      PROVE  Reads(r) \/ (Writes /\ Served)
  BY <1>1, CreateSteps, CreateInsertIssues DEF Served
<1>2. ASSUME NEW r \in Requests, Accept(r)
      PROVE  Reads(r) \/ (Writes /\ Served)
  BY <1>2, AcceptSteps, AcceptMarkWrites, AcceptJoinWrites, SettlesReads DEF Served
<1>3. ASSUME NEW r \in Requests, Revoke(r)
      PROVE  Reads(r) \/ (Writes /\ Served)
  BY <1>3, RevokeSteps, RevokeWriteWrites, SettlesReads DEF Served
<1>4. ASSUME NEW r \in Requests, Decline(r)
      PROVE  Reads(r) \/ (Writes /\ Served)
  BY <1>4, DeclineSteps, DeclineWriteWrites, SettlesReads DEF Served
<1>5. ASSUME NEW u \in Users, Move(u)
      PROVE  Writes /\ Served
  BY <1>5 DEF Move, Grants, Writes, Served
<1>6. ASSUME ArchiveOrRestore
      PROVE  Writes /\ Served
  BY <1>6 DEF IInv, TypeOK, ArchiveOrRestore, Freezes, Writes, Served
<1> QED BY <1>1, <1>2, <1>3, <1>4, <1>5, <1>6, FaultReads, InviteExpiresWrites
        DEF Next, Served

-----------------------------------------------------------------------------
(***************************************************************************)
(* Every effect keeps the invariant                                        *)
(***************************************************************************)
KindsKept ==
    \A i \in Invitations :
        invite[i].used => invite'[i].used /\ invite'[i].maxUses = invite[i].maxUses

LEMMA RequestsKeep ==
    ASSUME IInv, KindsKept, Served
    PROVE  request' \in [Requests -> Request \cup {Idle}] /\ RequestsKnow'
<1>1. request' \in [Requests -> Request \cup {Idle}]
  BY DEF IInv, TypeOK, Served, Settles
<1>2. ASSUME NEW r \in Requests, request'[r] # Idle
      PROVE  request'[r] = request[r] /\ Knows(request[r])
  BY <1>2 DEF IInv, TypeOK, RequestsKnow, Served, Settles
<1>3. ASSUME NEW r \in Requests, request'[r] # Idle
      PROVE  Knows(request[r])'
  BY <1>2, <1>3 DEF Knows, KindsKept, OnRow, IsLink
<1> QED BY <1>1, <1>3 DEF RequestsKnow

LEMMA IssueKeepsIInv ==
    ASSUME IInv, NEW i \in Invitations, NEW row \in InviteRow, Issues(i, row), Served
    PROVE  IInv'
<1>1. KindsKept
  BY DEF KindsKept, IInv, TypeOK, Issues
<1>2. TypeOK'
  BY <1>1, RequestsKeep DEF IInv, TypeOK, Issues
<1>3. UsesAreAdmissions'
  BY DEF IInv, TypeOK, UsesAreAdmissions, RowsSound, IsLink, Issues
<1>4. RowsSound'
  BY DEF IInv, TypeOK, RowsSound, IsLink, Issues
<1> QED BY <1>1, <1>2, <1>3, <1>4, RequestsKeep DEF IInv

LEMMA MarkKeepsIInv ==
    ASSUME IInv, NEW i \in Invitations, NEW u \in Users,
           Marks(i, u), Served
    PROVE  IInv'
<1>0. /\ invite[i] \in InviteRow
      /\ invite'[i] = [invite[i] EXCEPT !.usedById = u]
      /\ \A j \in Invitations \ {i} : invite'[j] = invite[j]
  BY DEF IInv, TypeOK, Marks
<1>1. KindsKept
  BY <1>0 DEF KindsKept, InviteRow, Marks
<1>2. invite' \in [Invitations -> InviteRow]
  BY <1>0 DEF IInv, TypeOK, InviteRow, Marks
<1>3. role' \in [Users -> {"OWNER"} \cup Grantable \cup {NoRole}]
  BY <1>0 DEF Join, IInv, TypeOK, InviteRow, Marks
<1>4. TypeOK'
  BY <1>1, <1>2, <1>3, RequestsKeep DEF IInv, TypeOK, Join, Marks
<1>5. admissions[i] = 0
  BY DEF IInv, UsesAreAdmissions, Unused, Marks
<1>6. UsesAreAdmissions'
  BY <1>0, <1>5 DEF IInv, TypeOK, UsesAreAdmissions, IsLink, Join, InviteRow, Marks
<1>7. RowsSound'
  BY <1>0 DEF IInv, RowsSound, IsLink, InviteRow, Unused, Existing, Marks
<1> QED BY <1>1, <1>4, <1>6, <1>7, RequestsKeep DEF IInv

LEMMA CountKeepsIInv ==
    ASSUME IInv, NEW i \in Invitations, NEW u \in Users,
           Counts(i, u), Served
    PROVE  IInv'
<1>0. /\ invite[i] \in InviteRow
      /\ invite'[i] = [invite[i] EXCEPT !.usesCount = @ + 1]
      /\ \A j \in Invitations \ {i} : invite'[j] = invite[j]
  BY DEF IInv, TypeOK, Counts
<1>1. KindsKept
  BY <1>0 DEF KindsKept, InviteRow, Counts
<1>2. invite' \in [Invitations -> InviteRow]
  BY <1>0 DEF IInv, TypeOK, InviteRow, Counts
<1>3. role' \in [Users -> {"OWNER"} \cup Grantable \cup {NoRole}]
  BY <1>0 DEF Join, IInv, TypeOK, InviteRow, Counts
<1>4. TypeOK'
  BY <1>1, <1>2, <1>3, RequestsKeep DEF IInv, TypeOK, Join, Counts
<1>6. UsesAreAdmissions'
  BY <1>0 DEF IInv, TypeOK, UsesAreAdmissions, IsLink, Join, InviteRow, Counts
<1>7. RowsSound'
  BY <1>0 DEF IInv, RowsSound, IsLink, InviteRow, Counts
<1> QED BY <1>1, <1>4, <1>6, <1>7, RequestsKeep DEF IInv

LEMMA FlagKeepsIInv ==
    ASSUME IInv, NEW i \in Invitations, NEW row \in InviteRow,
           Flags(i, row), Served
    PROVE  IInv'
<1>1. KindsKept
  BY DEF KindsKept, IInv, TypeOK, Flags
<1>2. TypeOK'
  BY <1>1, RequestsKeep DEF IInv, TypeOK, Flags
<1>3. UsesAreAdmissions'
  BY DEF IInv, TypeOK, UsesAreAdmissions, IsLink, Flags
<1>4. RowsSound'
  BY DEF IInv, TypeOK, RowsSound, IsLink, Flags
<1> QED BY <1>1, <1>2, <1>3, <1>4, RequestsKeep DEF IInv

LEMMA WorkspaceKeepsIInv ==
    ASSUME IInv, Served,
           \/ Freezes
           \/ \E u \in Users, to \in Grantable \cup {NoRole} : Grants(u, to)
    PROVE  IInv'
<1>1. KindsKept
  BY DEF KindsKept, Freezes, Grants
<1>2. TypeOK'
  BY <1>1, RequestsKeep DEF IInv, TypeOK, Freezes, Grants
<1>3. UsesAreAdmissions' /\ RowsSound'
  BY DEF IInv, UsesAreAdmissions, RowsSound, IsLink, Freezes, Grants
<1> QED BY <1>1, <1>2, <1>3, RequestsKeep DEF IInv

LEMMA NextKeepsIInv ==
    ASSUME IInv, Next
    PROVE  IInv'
BY StepsReadOrWrite, ReadsKeepIInv, IssueKeepsIInv, FlagKeepsIInv, MarkKeepsIInv,
   CountKeepsIInv, WorkspaceKeepsIInv DEF Writes

LEMMA InitIsIInv == Init => IInv
<1> SUFFICES ASSUME Init PROVE IInv
  OBVIOUS
<1>1. TypeOK
  BY DEF Init, TypeOK, InviteRow, Grantable, NoRole
<1>2. UsesAreAdmissions /\ RowsSound
  BY DEF Init, UsesAreAdmissions, RowsSound, IsLink
<1>3. RequestsKnow
  BY DEF Init, RequestsKnow
<1> QED BY <1>1, <1>2, <1>3 DEF IInv

\* IInv is inductive.
THEOREM InviteInvariance == Spec => []IInv
<1>1. UNCHANGED vars /\ IInv => IInv'
  BY DEF vars, tables, IInv, TypeOK, UsesAreAdmissions, RowsSound, RequestsKnow, Knows,
         IsLink
<1> QED BY <1>1, InitIsIInv, NextKeepsIInv, PTL DEF Spec

\* Every row and every request stays within its type.
THEOREM InviteTypes == Spec => []TypeOK
BY InviteInvariance, PTL DEF IInv

\* A link's usesCount is exactly the number of members it made, and a personal
\* invitation that is marked made one, whichever requests were concurrent.
THEOREM UsesCounted == Spec => []UsesAreAdmissions
BY InviteInvariance, PTL DEF IInv

-----------------------------------------------------------------------------
(***************************************************************************)
(* Invites implements Tickets: what each effect is to the tickets.         *)
(***************************************************************************)
TicketStates == [i \in Invitations |-> TicketState(i)]
Holders == [i \in Invitations |-> invite[i].usedById]
Members == {u \in Users : role[u] # NoRole}
ticketVars == <<TicketStates, Holders, Members>>

LEMMA TicketStateByCase ==
    ASSUME NEW i
    PROVE  /\ TicketState(i) = "unissued" <=> ~Personal(i)
           /\ TicketState(i) = "used" <=> Personal(i) /\ invite[i].usedById # NoUser
           /\ TicketState(i) = "withdrawn" <=> /\ Personal(i) /\ invite[i].deletedAt
                                               /\ invite[i].usedById = NoUser
           /\ TicketState(i) = "open" <=> Personal(i) /\ Unused(i)
BY DEF TicketState, Unused, Existing, Personal

LEMMA IssueOfTicket ==
    ASSUME IInv, NEW i \in Invitations, NEW row \in InviteRow, Issues(i, row)
    PROVE  Ticket!Issue(i) \/ UNCHANGED ticketVars
<1>1. /\ invite'[i] = row
      /\ \A j \in Invitations \ {i} : invite'[j] = invite[j]
  BY DEF Issues, IInv, TypeOK
<1>2. \A j \in Invitations \ {i} : TicketState(j)' = TicketState(j)
  BY <1>1 DEF TicketState, Personal
<1>3. TicketState(i) = "unissued"
  BY DEF Issues, TicketState, Personal
<1>4. TicketState(i)' = IF row.maxUses = 0 THEN "open" ELSE "unissued"
  BY <1>1 DEF Issues, TicketState, Personal
<1>5. Holders' = Holders
  BY <1>1 DEF Holders, Issues, IInv, RowsSound
<1>6. Members' = Members
  BY DEF Members, Issues
<1>7. CASE row.maxUses = 0
  <2>1. TicketStates' = [TicketStates EXCEPT ![i] = "open"]
    BY <1>2, <1>4, <1>7 DEF TicketStates
  <2> QED BY <2>1, <1>3, <1>5, <1>6 DEF Ticket!Issue, TicketStates, Holders, Members
<1>8. CASE row.maxUses # 0
  BY <1>2, <1>3, <1>4, <1>5, <1>6, <1>8 DEF TicketStates, ticketVars
<1> QED BY <1>7, <1>8

LEMMA MarkOfTicket ==
    ASSUME IInv, NEW i \in Invitations, NEW u \in Users, Marks(i, u)
    PROVE  Ticket!Admit(i, u)
<1>1. /\ invite[i] \in InviteRow
      /\ invite'[i] = [invite[i] EXCEPT !.usedById = u]
      /\ \A j \in Invitations \ {i} : invite'[j] = invite[j]
      /\ u # NoUser
  BY DEF Marks, IInv, TypeOK
<1>2. \A j \in Invitations \ {i} : TicketState(j)' = TicketState(j)
  BY <1>1 DEF TicketState, Personal
<1>3. Personal(i) /\ TicketState(i) = "open"
  BY TicketStateByCase DEF Marks, Personal, IsLink, Unused, Existing
<1>4. TicketState(i)' = "used"
  BY <1>1, <1>3 DEF TicketState, Personal, InviteRow
<1>5. TicketStates' = [TicketStates EXCEPT ![i] = "used"]
  BY <1>2, <1>4 DEF TicketStates
<1>6. Holders' = [Holders EXCEPT ![i] = u]
  BY <1>1 DEF Holders, InviteRow
<1>7. u \notin Members
  BY DEF Marks, Members
<1>8. Members' = Members \cup {u}
  <2>1. role' = [role EXCEPT ![u] = invite[i].role] /\ invite[i].role # NoRole
    BY <1>1 DEF Marks, Join, InviteRow, Grantable, NoRole
  <2> QED BY <2>1 DEF Members, IInv, TypeOK
<1> QED BY <1>3, <1>5, <1>6, <1>7, <1>8 DEF Ticket!Admit, TicketStates, Holders, Members

\* The use of a link is no event of a ticket's life, but a person moving in.
LEMMA CountOfTicket ==
    ASSUME IInv, NEW i \in Invitations, NEW u \in Users, Counts(i, u)
    PROVE  Ticket!Move(u)
<1>1. /\ invite[i] \in InviteRow
      /\ invite'[i] = [invite[i] EXCEPT !.usesCount = @ + 1]
      /\ \A j \in Invitations \ {i} : invite'[j] = invite[j]
  BY DEF Counts, IInv, TypeOK
<1>2. TicketStates' = TicketStates
  BY <1>1 DEF TicketStates, TicketState, Personal, InviteRow
<1>3. Holders' = Holders
  BY <1>1 DEF Holders, InviteRow
<1>4. role' = [role EXCEPT ![u] = invite[i].role] /\ invite[i].role # NoRole
  BY <1>1 DEF Counts, Join, InviteRow, Grantable, NoRole
<1>5. Members' = Members \cup {u}
  BY <1>4 DEF Members, IInv, TypeOK
<1> QED BY <1>2, <1>3, <1>5 DEF Ticket!Move, TicketStates, Holders, Members

LEMMA FlagOfTicket ==
    ASSUME IInv, NEW i \in Invitations, NEW row \in InviteRow, Flags(i, row)
    PROVE  Ticket!Withdraw(i) \/ UNCHANGED ticketVars
<1>1. /\ invite'[i] = row /\ invite[i] \in InviteRow
      /\ \A j \in Invitations \ {i} : invite'[j] = invite[j]
  BY DEF Flags, IInv, TypeOK
<1>2. \A j \in Invitations \ {i} : TicketState(j)' = TicketState(j)
  BY <1>1 DEF TicketState, Personal
<1>3. Holders' = Holders
  BY <1>1 DEF Holders, Flags
<1>4. Members' = Members
  BY DEF Members, Flags
<1>5. CASE Unused(i) /\ Personal(i) /\ row.deletedAt
  <2>1. TicketState(i) = "open"
    BY <1>5, TicketStateByCase
  <2>2. TicketState(i)' = "withdrawn"
    BY <1>1, <1>5 DEF Flags, TicketState, Personal, Unused
  <2>3. TicketStates' = [TicketStates EXCEPT ![i] = "withdrawn"]
    BY <1>2, <2>2 DEF TicketStates
  <2> QED BY <2>1, <2>3, <1>3, <1>4 DEF Ticket!Withdraw, TicketStates, Holders, Members
<1>6. CASE ~(Unused(i) /\ Personal(i) /\ row.deletedAt)
  <2>1. TicketState(i)' = TicketState(i)
    BY <1>1, <1>6 DEF Flags, TicketState, Personal, Unused, Existing, IsLink, InviteRow
  <2> QED BY <2>1, <1>2, <1>3, <1>4 DEF TicketStates, ticketVars
<1> QED BY <1>5, <1>6

LEMMA GrantOfTicket ==
    ASSUME IInv, NEW u \in Users, NEW to, Grants(u, to)
    PROVE  Ticket!Move(u)
<1>1. TicketStates' = TicketStates /\ Holders' = Holders
  BY DEF TicketStates, TicketState, Personal, Holders, Grants
<1>2. Members' \in {Members \cup {u}, Members \ {u}}
  BY DEF Members, Grants, IInv, TypeOK
<1> QED BY <1>1, <1>2 DEF Ticket!Move, TicketStates, Holders, Members

LEMMA NextOfTickets ==
    ASSUME IInv, Next
    PROVE  Ticket!TicketNext \/ UNCHANGED ticketVars
<1>1. ASSUME UNCHANGED <<role, invite>> PROVE UNCHANGED ticketVars
  BY <1>1 DEF ticketVars, TicketStates, TicketState, Personal, Holders, Members
<1>2. ASSUME NEW r \in Requests, Reads(r) PROVE UNCHANGED ticketVars
  BY <1>1, <1>2 DEF Reads, tables
<1>3. Freezes => UNCHANGED ticketVars
  BY <1>1 DEF Freezes
<1> QED BY <1>2, <1>3, StepsReadOrWrite, IssueOfTicket, MarkOfTicket, CountOfTicket,
           FlagOfTicket, GrantOfTicket DEF Writes, Ticket!TicketNext

LEMMA InitOfTickets == Init => Ticket!TicketInit
BY DEF Init, Ticket!TicketInit, TicketState, Personal

\* Every behaviour of the service, with all its interleavings and failures, is a
\* behaviour of tickets: a personal invitation admits one person, in the step
\* that marks it used, or is withdrawn and admits nobody.
THEOREM InvitesAreTickets == Spec => PersonalInvitesAreTickets
<1>1. ASSUME IInv, [Next]_vars PROVE [Ticket!TicketNext]_(Ticket!ticketVars)
  <2>1. CASE Next
    BY <1>1, <2>1, NextOfTickets
       DEF Ticket!ticketVars, ticketVars, TicketStates, Holders, Members
  <2>2. CASE UNCHANGED vars
    BY <2>2 DEF vars, tables, Ticket!ticketVars, TicketState, Personal
  <2> QED BY <1>1, <2>1, <2>2
<1> QED BY <1>1, InitOfTickets, InviteInvariance, PTL
        DEF Spec, PersonalInvitesAreTickets, Ticket!TicketSpec
=============================================================================
