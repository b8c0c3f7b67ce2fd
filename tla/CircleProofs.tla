----------------------------- MODULE CircleProofs -----------------------------
(***************************************************************************)
(* Proofs about Circles, for any users, links and requests in flight: how   *)
(* a group may lose its OWNER; and about MCSpec, for any workloads: what     *)
(* blocks prevent, whose contacts are wanted, how many a link admits, and    *)
(* what holds of requests served one at a time.                             *)
(***************************************************************************)
EXTENDS MCCircles, FiniteSetTheorems, TLAPS

IsOwner(u) == groupMember[u] = "OWNER"
GroupOps == {"addMember", "removeMember", "leave", "archive",
             "createInvite", "revokeInvite", "acceptInvite"}

OneOwner == \A u, v \in Users : IsOwner(u) /\ IsOwner(v) => u = v
\* Before the group is created there is nobody in it, and no link to it.
Unborn == group = "none" => /\ \A u \in Users : groupMember[u] = NoRole
                            /\ \A l \in Links : ~link[l].used
\* What a method of the group has read that no other can make untrue: ownership
\* does not pass from one user to another.
Knows(r) ==
    LET q == request[r] IN
    q # Idle =>
        /\ q.op \notin GroupOps => q.by # q.whom
        /\ q.op \in GroupOps => group # "none"
        /\ \/ q.op \in {"addMember", "removeMember"}
           \/ q.op = "leave" /\ q.at = "count"
           => \A u \in Users : IsOwner(u) => u = q.by
        /\ q.op = "removeMember" => q.by # q.whom
        /\ q.op = "leave" /\ q.at = "write" => ~IsOwner(q.whom)
        /\ q.op = "acceptInvite" /\ q.at = "write" => ~IsOwner(q.by)

CInv == /\ TypeOK /\ OneOwner /\ Unborn
        /\ \A r \in Requests : Knows(r)

-----------------------------------------------------------------------------
(***************************************************************************)
(* Requests                                                                *)
(***************************************************************************)
Ops == {"addContact", "accept", "decline", "cancel", "direct",
        "addMember", "removeMember", "leave", "archive",
        "createInvite", "revokeInvite", "acceptInvite"}
Ats == {"block", "existing", "add", "incoming", "outgoing", "ask", "between",
        "unblocked", "tx", "write", "group", "target", "count", "member", "increment"}

\* The step of slot r is the only one, of a request that is well typed.
Moves(r) == /\ request' \in [Requests -> Request \cup {Idle}]
            /\ \A q \in Requests \ {r} : request'[q] = request[q]

LEMMA IdleIsNone ==
    /\ Idle \notin Request /\ Idle.op = "idle"
    /\ \A q \in Request : q # Idle /\ q.op \in Ops /\ q.at \in Ats
BY DEF Idle, Request, Ops, Ats

LEMMA CallIsRequest ==
    ASSUME NEW op \in Ops, NEW at \in Ats, NEW u \in Users, NEW whom \in Users
    PROVE  /\ Call(op, at, u, whom) \in Request
           /\ Call(op, at, u, whom).op = op /\ Call(op, at, u, whom).at = at
           /\ Call(op, at, u, whom).by = u /\ Call(op, at, u, whom).whom = whom
BY DEF Call, Request, Ops, Ats, Privacy

LEMMA Accepting ==
    ASSUME TypeOK, NEW r \in Requests, NEW call \in Request, Accepted(r, call)
    PROVE  Moves(r) /\ request'[r] = call
BY DEF TypeOK, Accepted, Moves

LEMMA Finishing ==
    ASSUME TypeOK, NEW r \in Requests, Finish(r)
    PROVE  Moves(r) /\ request'[r] = Idle
BY DEF TypeOK, Finish, Moves

LEMMA MovingOn ==
    ASSUME TypeOK, NEW r \in Requests, request[r] # Idle, NEW at \in Ats, MoveOn(r, at)
    PROVE  /\ Moves(r) /\ request'[r] \in Request /\ request'[r].at = at
           /\ request'[r].op = request[r].op /\ request'[r].by = request[r].by
           /\ request'[r].whom = request[r].whom /\ request'[r].id = request[r].id
           /\ request'[r].link = request[r].link /\ request'[r].seen = request[r].seen
<1>1. request[r] \in Request
  BY DEF TypeOK
<1> DEFINE q == [request[r] EXCEPT !.at = at]
<1>2. /\ q \in Request /\ q.at = at /\ q.op = request[r].op /\ q.by = request[r].by
      /\ q.whom = request[r].whom /\ q.id = request[r].id /\ q.link = request[r].link
      /\ q.seen = request[r].seen
  BY <1>1 DEF Request, Ats
<1>3. Moves(r) /\ request'[r] = q
  BY <1>2 DEF MoveOn, Moves, TypeOK
<1> QED BY <1>2, <1>3

LEMMA Checking ==
    ASSUME TypeOK, NEW r \in Requests, request[r] # Idle, NEW at \in Ats,
           NEW passed, Check(r, passed, at)
    PROVE  /\ Moves(r) /\ UNCHANGED tables
           /\ \/ request'[r] = Idle
              \/ /\ passed /\ request'[r].at = at /\ request'[r].op = request[r].op
                 /\ request'[r].by = request[r].by /\ request'[r].whom = request[r].whom
                 /\ request'[r].link = request[r].link /\ request'[r].id = request[r].id
                 /\ request'[r].seen = request[r].seen
<1>1. CASE passed
  BY <1>1, MovingOn DEF Check
<1>2. CASE ~passed
  BY <1>2, Finishing DEF Check
<1> QED BY <1>1, <1>2 DEF Check

LEMMA AtMeans ==
    ASSUME TypeOK, NEW r \in Requests, NEW op, NEW at, At(r, op, at)
    PROVE  /\ request[r] \in Request /\ request[r] # Idle
           /\ request[r].op = op /\ request[r].at = at
           /\ request[r].by \in Users /\ request[r].whom \in Users
BY DEF TypeOK, At, Request

\* The ids that requests hold are fewer than the ids: a new row finds one.
LEMMA FreshIdIsAnId == FreshId \in Ids
<1> DEFINE Busy == {r \in Requests : request[r] # Idle}
           Held == {request[r].id : r \in Busy}
<1>1. IsFiniteSet(Requests) /\ IsFiniteSet(Ids) /\ Cardinality(Ids) > Cardinality(Requests)
  BY SocialAssumption
<1>2. IsFiniteSet(Busy) /\ Cardinality(Busy) <= Cardinality(Requests)
  BY <1>1, FS_Subset
<1>3. IsFiniteSet(Held) /\ Cardinality(Held) <= Cardinality(Busy)
  <2> DEFINE f == [r \in Busy |-> request[r].id]
  <2>1. f \in Surjection(Busy, Held)
    BY DEF Surjection
  <2> QED BY <1>2, <2>1, FS_Surjection
<1>4. \E id \in Ids : id \notin Held
  <2> SUFFICES ASSUME Ids \subseteq Held PROVE FALSE
    OBVIOUS
  <2>1. Cardinality(Ids) <= Cardinality(Held)
    BY <1>3, FS_Subset
  <2>2. /\ Cardinality(Ids) \in Nat /\ Cardinality(Held) \in Nat
        /\ Cardinality(Busy) \in Nat /\ Cardinality(Requests) \in Nat
    BY <1>1, <1>2, <1>3, FS_CardinalityType
  <2> QED BY <1>1, <1>2, <1>3, <2>1, <2>2
<1>5. \E id \in Ids : \A r \in Requests : request[r] = Idle \/ request[r].id # id
  BY <1>4
<1> QED BY <1>5 DEF FreshId

-----------------------------------------------------------------------------
(***************************************************************************)
(* Contacts: none of its steps touches the group                           *)
(***************************************************************************)
Apart(r) == /\ UNCHANGED circle /\ Moves(r)
            /\ \/ request'[r] = Idle
               \/ request'[r].op \notin GroupOps /\ request'[r].by # request'[r].whom

LEMMA CheckApart ==
    ASSUME CInv, NEW r \in Requests, NEW op \in Ops \ GroupOps, NEW at, At(r, op, at),
           NEW next \in Ats, NEW passed, Check(r, passed, next)
    PROVE  TypeOK' /\ Apart(r)
<1>1. request[r] # Idle /\ request[r].op = op /\ request[r].by # request[r].whom /\ TypeOK
  BY AtMeans DEF CInv, Knows
<1>2. /\ Moves(r) /\ UNCHANGED tables
      /\ \/ request'[r] = Idle
         \/ request'[r].op = op /\ request'[r].by # request'[r].whom
  BY <1>1, Checking
<1> QED BY <1>1, <1>2 DEF Moves, Apart, TypeOK, tables, people, acquaintances, circle

LEMMA CallApart ==
    ASSUME TypeOK, NEW r \in Requests, NEW call \in Request, call.op \notin GroupOps,
           call.by # call.whom, Accepted(r, call), UNCHANGED tables
    PROVE  TypeOK' /\ Apart(r)
<1>1. Moves(r) /\ request'[r] = call
  BY Accepting
<1> QED BY <1>1 DEF Moves, Apart, TypeOK, tables, people, acquaintances, circle

\* A write of Contacts that ends its request.
LEMMA WriteApart ==
    ASSUME TypeOK, NEW r \in Requests, Finish(r) \/ (request[r] = Idle /\ UNCHANGED request),
           UNCHANGED circle,
           block' \subseteq Pairs, privacy' \in [Users -> Privacy],
           contactRequest' \in [Pairs -> ContactRequestRow], contact' \subseteq Pairs,
           conversation' \subseteq {{p[1], p[2]} : p \in Pairs}
    PROVE  TypeOK' /\ Apart(r)
<1>1. Moves(r) /\ request'[r] = Idle
  <2>1. CASE Finish(r)
    BY <2>1, Finishing
  <2>2. CASE UNCHANGED request
    BY <2>2 DEF Moves, TypeOK, Finish
  <2> QED BY <2>1, <2>2
<1> QED BY <1>1 DEF Moves, Apart, TypeOK, circle

LEMMA PairOf ==
    ASSUME NEW p \in Pairs
    PROVE  p[1] \in Users /\ p[2] \in Users /\ p = <<p[1], p[2]>> /\ <<p[2], p[1]>> \in Pairs
BY DEF Pairs

\* The pair a request is about, either way round.
LEMMA AboutPair ==
    ASSUME CInv, NEW r \in Requests, NEW op \in Ops \ GroupOps, NEW at, At(r, op, at)
    PROVE  /\ <<request[r].by, request[r].whom>> \in Pairs /\ Incoming(r) \in Pairs
           /\ TypeOK /\ request[r].op = op
<1>1. request[r] # Idle /\ request[r].op = op /\ request[r].by # request[r].whom /\ TypeOK
      /\ request[r].by \in Users /\ request[r].whom \in Users
  BY AtMeans DEF CInv, Knows
<1> QED BY <1>1 DEF Pairs, Incoming

LEMMA AddContactApart ==
    ASSUME CInv, NEW r \in Requests, AddContact(r)
    PROVE  TypeOK' /\ Apart(r)
<1>i. TypeOK /\ "addContact" \in Ops \ GroupOps
  BY DEF CInv, Ops, GroupOps
<1>1. CASE AddContactCalled(r)
  <2>1. PICK p \in Pairs : Accepted(r, [Call("addContact", "block", p[1], p[2])
                                          EXCEPT !.seen = privacy[p[2]]])
    BY <1>1 DEF AddContactCalled
  <2> DEFINE q == [Call("addContact", "block", p[1], p[2]) EXCEPT !.seen = privacy[p[2]]]
  <2>2. p[1] \in Users /\ p[2] \in Users /\ p[1] # p[2] /\ privacy[p[2]] \in Privacy
    BY <1>i DEF Pairs, TypeOK
  <2>3. q \in Request /\ q.op = "addContact" /\ q.by # q.whom
    BY <2>2 DEF Call, Request
  <2> QED BY <1>1, <1>i, <2>1, <2>3, CallApart DEF AddContactCalled
<1>2. CASE AddContactBlock(r)
  <2>1. "existing" \in Ats
    BY DEF Ats
  <2> QED BY <1>2, <1>i, <2>1, CheckApart DEF AddContactBlock
<1>3. CASE AddContactExisting(r)
  <2>1. (IF request[r].seen = "EVERYONE" THEN "add" ELSE "incoming") \in Ats
    BY DEF Ats
  <2> QED BY <1>3, <1>i, <2>1, CheckApart DEF AddContactExisting
<1>4. CASE AddContactAdd(r)
  <2>1. <<request[r].by, request[r].whom>> \in Pairs
    BY <1>4, <1>i, AboutPair DEF AddContactAdd
  <2> QED BY <1>4, <1>i, <2>1, WriteApart DEF AddContactAdd, people, TypeOK
<1>5. CASE AddContactIncoming(r)
  <2>1. (IF Status(request[r].whom, request[r].by) = "PENDING"
         THEN "between" ELSE "outgoing") \in Ats
    BY DEF Ats
  <2> QED BY <1>5, <1>i, <2>1, CheckApart DEF AddContactIncoming
<1>6. CASE AddContactOutgoing(r)
  <2>1. "ask" \in Ats
    BY DEF Ats
  <2> QED BY <1>6, <1>i, <2>1, CheckApart DEF AddContactOutgoing
<1>7. CASE AddContactAsk(r)
  <2> DEFINE p == <<request[r].by, request[r].whom>>
  <2>1. contactRequest' \in [Pairs -> ContactRequestRow]
    <3>1. PICK id \in Ids : id = FreshId
      BY FreshIdIsAnId
    <3>2. contactRequest' = [contactRequest EXCEPT ![p] =
              IF @.status = "NONE" THEN [id |-> id, status |-> "PENDING"]
                                   ELSE [@ EXCEPT !.status = "PENDING"]]
      BY <1>7, <3>1 DEF AddContactAsk, UpsertPending
    <3>3. p \in Pairs
      BY <1>7, <1>i, AboutPair DEF AddContactAsk
    <3>4. contactRequest[p] \in ContactRequestRow
      BY <3>3, <1>i DEF TypeOK
    <3> DEFINE new == [id |-> id, status |-> "PENDING"]
               old == [contactRequest[p] EXCEPT !.status = "PENDING"]
    <3>5. new \in ContactRequestRow /\ old \in ContactRequestRow
      BY <3>1, <3>4 DEF ContactRequestRow
    <3> QED BY <3>2, <3>5, <1>i DEF TypeOK
  <2> QED BY <1>7, <1>i, <2>1, WriteApart DEF AddContactAsk, people, TypeOK
<1> QED BY <1>1, <1>2, <1>3, <1>4, <1>5, <1>6, <1>7 DEF AddContact

LEMMA AcceptApart ==
    ASSUME CInv, NEW r \in Requests, AcceptRequest(r)
    PROVE  TypeOK' /\ Apart(r)
<1>i. TypeOK /\ "addContact" \in Ops \ GroupOps /\ "accept" \in Ops \ GroupOps
  BY DEF CInv, Ops, GroupOps
<1>1. CASE AcceptCalled(r)
  <2>1. PICK p \in Pairs : Accepted(r, Call("accept", "between", p[2], p[1]))
    BY <1>1 DEF AcceptCalled
  <2> DEFINE q == Call("accept", "between", p[2], p[1])
  <2>2. q \in Request /\ q.op = "accept" /\ q.by # q.whom
    BY DEF Call, Request, Pairs, Privacy
  <2> QED BY <1>1, <1>i, <2>1, <2>2, CallApart DEF AcceptCalled
<1>2. CASE AcceptBetween(r)
  <2>1. PICK op \in {"accept", "addContact"} : At(r, op, "between")
    BY <1>2 DEF AcceptBetween, Answering
  <2> DEFINE q == [request[r] EXCEPT !.at = "unblocked", !.id = contactRequest[Incoming(r)].id]
  <2>2. request[r] \in Request /\ request[r].op = op /\ request[r].by # request[r].whom
        /\ Incoming(r) \in Pairs
    BY <1>i, <2>1, AtMeans, AboutPair DEF CInv, Knows, At
  <2>3. contactRequest[Incoming(r)].id \in Ids \cup {NoId}
    BY <1>i, <2>2 DEF TypeOK, ContactRequestRow
  <2>4. q \in Request /\ q.op = op /\ q.by # q.whom
    BY <2>2, <2>3 DEF Request
  <2>5. Moves(r) /\ request'[r] \in {q, Idle}
    BY <1>2, <1>i, <2>4 DEF AcceptBetween, Moves, TypeOK
  <2> QED BY <1>2, <1>i, <2>1, <2>4, <2>5
          DEF AcceptBetween, Apart, Moves, TypeOK, tables, people, acquaintances, circle
<1>3. CASE AcceptUnblocked(r)
  <2>1. "tx" \in Ats
    BY DEF Ats
  <2> QED BY <1>3, <1>i, <2>1, CheckApart DEF AcceptUnblocked, Answering
<1>4. CASE AcceptTx(r)
  <2>1. Incoming(r) \in Pairs
    BY <1>4, <1>i, AboutPair DEF AcceptTx, Answering
  <2>2. contactRequest' \in [Pairs -> ContactRequestRow] /\ contact' \subseteq Pairs
    <3>1. CASE Befriend(Incoming(r))
      BY <3>1, <2>1, <1>i, PairOf DEF Befriend, SetStatus, TypeOK, ContactRequestRow
    <3>2. CASE UNCHANGED <<contactRequest, contact>>
      BY <3>2, <1>i DEF TypeOK
    <3> QED BY <1>4, <3>1, <3>2 DEF AcceptTx
  <2> QED BY <1>4, <1>i, <2>2, WriteApart DEF AcceptTx, people, TypeOK
<1> QED BY <1>1, <1>2, <1>3, <1>4 DEF AcceptRequest

LEMMA RowWritten ==
    ASSUME TypeOK, NEW p
    PROVE  /\ SetStatus(p, "DECLINED") => contactRequest' \in [Pairs -> ContactRequestRow]
           /\ Delete(p) => contactRequest' \in [Pairs -> ContactRequestRow]
<1> DEFINE set == [contactRequest[p] EXCEPT !.status = "DECLINED"]
           none == [id |-> NoId, status |-> "NONE"]
<1>1. none \in ContactRequestRow /\ (p \in Pairs => set \in ContactRequestRow)
  BY DEF TypeOK, ContactRequestRow
<1> QED BY <1>1 DEF TypeOK, SetStatus, Delete

LEMMA ContactsApart ==
    ASSUME CInv, NEW r \in Requests, ContactsMethod(r)
    PROVE  TypeOK' /\ Apart(r)
<1>i. TypeOK
  BY DEF CInv
<1>o. \A op \in {"decline", "cancel", "direct"} : op \in Ops \ GroupOps
  BY DEF Ops, GroupOps
<1>1. CASE Block(r) \/ Unblock(r)
  <2>1. block' \subseteq Pairs
    BY <1>1, <1>i DEF Block, Unblock, TypeOK
  <2> QED BY <1>1, <1>i, <2>1, WriteApart DEF Block, Unblock, AtOnce, acquaintances, TypeOK
<1>2. CASE UpdateContactPrivacy(r)
  <2>1. privacy' \in [Users -> Privacy]
    BY <1>2, <1>i DEF UpdateContactPrivacy, TypeOK
  <2> QED BY <1>2, <1>i, <2>1, WriteApart DEF UpdateContactPrivacy, AtOnce, acquaintances, TypeOK
<1>3. CASE AddContact(r)
  BY <1>3, AddContactApart
<1>4. CASE AcceptRequest(r)
  BY <1>4, AcceptApart
<1>5. CASE DeclineCalled(r) \/ CancelCalled(r)
  <2>1. PICK p \in Pairs : \/ Accepted(r, [Call("decline", "write", p[2], p[1])
                                             EXCEPT !.id = contactRequest[p].id])
                           \/ Accepted(r, [Call("cancel", "write", p[1], p[2])
                                             EXCEPT !.id = contactRequest[p].id])
    BY <1>5 DEF DeclineCalled, CancelCalled
  <2> DEFINE d == [Call("decline", "write", p[2], p[1]) EXCEPT !.id = contactRequest[p].id]
             c == [Call("cancel", "write", p[1], p[2]) EXCEPT !.id = contactRequest[p].id]
  <2>2. contactRequest[p].id \in Ids \cup {NoId}
    BY <1>i DEF TypeOK, ContactRequestRow
  <2>3. /\ d \in Request /\ d.op = "decline" /\ d.by # d.whom
        /\ c \in Request /\ c.op = "cancel" /\ c.by # c.whom
    BY <2>2 DEF Call, Request, Pairs, Privacy
  <2> QED BY <1>5, <1>i, <1>o, <2>1, <2>3, CallApart DEF DeclineCalled, CancelCalled
<1>6. CASE DeclineWrite(r) \/ CancelWrite(r)
  <2>1. contactRequest' \in [Pairs -> ContactRequestRow]
    <3>1. CASE DeclineWrite(r)
      <4>1. SetStatus(Incoming(r), "DECLINED") \/ UNCHANGED contactRequest
        BY <3>1 DEF DeclineWrite
      <4> QED BY <4>1, <1>i, RowWritten DEF TypeOK
    <3>2. CASE CancelWrite(r)
      <4>1. Delete(<<request[r].by, request[r].whom>>) \/ UNCHANGED contactRequest
        BY <3>2 DEF CancelWrite
      <4> QED BY <4>1, <1>i, RowWritten DEF TypeOK
    <3> QED BY <1>6, <3>1, <3>2
  <2> QED BY <1>6, <1>i, <2>1, WriteApart DEF DeclineWrite, CancelWrite, people, TypeOK
<1>7. CASE RemoveContact(r)
  BY <1>7, <1>i, WriteApart DEF RemoveContact, AtOnce, people, TypeOK
<1>8. CASE DirectCalled(r)
  <2>1. PICK p \in Pairs : Accepted(r, Call("direct", "block", p[1], p[2]))
    BY <1>8 DEF DirectCalled
  <2> DEFINE q == Call("direct", "block", p[1], p[2])
  <2>2. q \in Request /\ q.op = "direct" /\ q.by # q.whom
    BY DEF Call, Request, Pairs, Privacy
  <2> QED BY <1>8, <1>i, <1>o, <2>1, <2>2, CallApart DEF DirectCalled
<1>9. CASE DirectBlock(r)
  <2>1. "write" \in Ats
    BY DEF Ats
  <2> QED BY <1>9, <1>o, <2>1, CheckApart DEF DirectBlock
<1>10. CASE DirectWrite(r)
  <2>1. PICK p \in Pairs : {p[1], p[2]} = {request[r].by, request[r].whom}
    BY <1>10, <1>o, AboutPair DEF DirectWrite
  <2>2. conversation' \subseteq {{p2[1], p2[2]} : p2 \in Pairs}
    BY <1>10, <1>i, <2>1 DEF DirectWrite, TypeOK
  <2> QED BY <1>10, <1>i, <2>2, WriteApart DEF DirectWrite, people, TypeOK
<1> QED BY <1>1, <1>2, <1>3, <1>4, <1>5, <1>6, <1>7, <1>8, <1>9, <1>10 DEF ContactsMethod

-----------------------------------------------------------------------------
(***************************************************************************)
(* Groups: most steps neither make nor unmake an owner                     *)
(***************************************************************************)
LEMMA OthersKnow ==
    ASSUME CInv, NEW r \in Requests, Moves(r), group # "none" => group' # "none",
           \A u \in Users : IsOwner(u)' => IsOwner(u),
           NEW q \in Requests \ {r}
    PROVE  Knows(q)'
<1>1. request'[q] = request[q] /\ Knows(q)
  BY DEF CInv, Moves
<1>2. request[q] # Idle => request[q].by \in Users /\ request[q].whom \in Users
  BY DEF CInv, TypeOK, Request
<1> QED BY <1>1, <1>2 DEF Knows

Harmless(r) == /\ Moves(r)
               /\ \A u \in Users : IsOwner(u)' = IsOwner(u)
               /\ IF group = "none" THEN UNCHANGED circle ELSE group' # "none"

LEMMA HarmlessKeeps ==
    ASSUME CInv, TypeOK', NEW r \in Requests, Harmless(r), Knows(r)'
    PROVE  CInv' /\ KeepsOwner
<1>1. \A q \in Requests : Knows(q)'
  <2>1. group # "none" => group' # "none"
    BY DEF Harmless
  <2> QED BY <2>1, OthersKnow DEF Harmless
<1>2. OneOwner' /\ Unborn'
  BY DEF CInv, OneOwner, Unborn, Harmless, circle
<1>3. KeepsOwner
  BY DEF KeepsOwner, GroupOwners, Harmless, IsOwner
<1> QED BY <1>1, <1>2, <1>3 DEF CInv

LEMMA ApartKeeps ==
    ASSUME CInv, TypeOK', NEW r \in Requests, Apart(r)
    PROVE  CInv' /\ KeepsOwner
<1>1. Harmless(r)
  BY DEF Apart, Harmless, circle, IsOwner
<1>2. Knows(r)'
  BY DEF Apart, Knows, GroupOps
<1> QED BY <1>1, <1>2, HarmlessKeeps

\* A check of a method of the group.
LEMMA CheckKeeps ==
    ASSUME CInv, NEW r \in Requests, NEW op \in GroupOps, NEW at, At(r, op, at),
           NEW next \in Ats, NEW passed, Check(r, passed, next),
           op = "leave" => next = "write",
           passed /\ op = "leave" => ~IsOwner(request[r].whom),
           passed /\ op = "acceptInvite" /\ next = "write" => ~IsOwner(request[r].by)
    PROVE  CInv' /\ KeepsOwner
<1>1. request[r] # Idle /\ request[r].op = op /\ Knows(r) /\ TypeOK
  BY AtMeans DEF CInv
<1>2. /\ Moves(r) /\ UNCHANGED tables
      /\ \/ request'[r] = Idle
         \/ /\ passed /\ request'[r].at = next /\ request'[r].op = op
            /\ request'[r].by = request[r].by /\ request'[r].whom = request[r].whom
  BY <1>1, Checking
<1>3. TypeOK'
  BY <1>1, <1>2 DEF Moves, TypeOK, tables, people, acquaintances, circle
<1>4. Harmless(r)
  BY <1>2 DEF Harmless, tables, circle, IsOwner
<1>5. Knows(r)'
  BY <1>1, <1>2 DEF Knows, tables, circle, IsOwner
<1> QED BY <1>3, <1>4, <1>5, HarmlessKeeps

\* A method of the group is called.
LEMMA CallKeeps ==
    ASSUME CInv, NEW r \in Requests, NEW q \in Request, Accepted(r, q), UNCHANGED tables,
           q.op \in GroupOps, group # "none",
           q.op \in {"addMember", "removeMember"} \/ (q.op = "leave" /\ q.at = "count")
               => \A u \in Users : IsOwner(u) => u = q.by,
           q.op = "removeMember" => q.by # q.whom,
           q.op = "leave" /\ q.at = "write" => ~IsOwner(q.whom),
           q.op = "acceptInvite" => q.at # "write"
    PROVE  CInv' /\ KeepsOwner
<1>1. Moves(r) /\ request'[r] = q
  BY Accepting DEF CInv
<1>2. TypeOK'
  BY <1>1 DEF CInv, Moves, TypeOK, tables, people, acquaintances, circle
<1>3. Harmless(r)
  BY <1>1 DEF Harmless, tables, circle, IsOwner
<1>4. Knows(r)'
  BY <1>1 DEF Knows, tables, circle, IsOwner
<1> QED BY <1>2, <1>3, <1>4, HarmlessKeeps

LEMMA OwnerCallKeeps ==
    ASSUME CInv, NEW r \in Requests, NEW op \in GroupOps \ {"leave", "acceptInvite"},
           NEW at \in Ats, CalledByOwner(r, op, at),
           op = "removeMember" => request'[r].by # request'[r].whom
    PROVE  CInv' /\ KeepsOwner
<1>1. PICK u \in GroupOwners, whom \in Users : Accepted(r, Call(op, at, u, whom))
  BY DEF CalledByOwner
<1> DEFINE q == Call(op, at, u, whom)
<1>2. u \in Users /\ IsOwner(u) /\ op \in Ops
  BY DEF GroupOwners, IsOwner, GroupOps, Ops
<1>3. q \in Request /\ q.op = op /\ q.at = at /\ q.by = u /\ q.whom = whom
  BY <1>2, CallIsRequest
<1>4. request'[r] = q
  BY <1>1, <1>3, Accepting DEF CInv
<1>5. group # "none" /\ \A v \in Users : IsOwner(v) => v = u
  BY <1>2 DEF CInv, Unborn, OneOwner, IsOwner, NoRole
<1> QED BY <1>1, <1>3, <1>4, <1>5, CallKeeps DEF CalledByOwner

\* A write to the circle that ends its request, or leaves an admission to be counted.
Writes(r) == \/ Finish(r)
             \/ At(r, "acceptInvite", "write") /\ MoveOn(r, "increment")
CircleTyped == /\ group' \in {"none", "active", "archived"}
               /\ groupMember' \in [Users -> {"OWNER", "MEMBER", NoRole}]
               /\ link' \in [Links -> LinkRow]

LEMMA WriteMoves ==
    ASSUME CInv, NEW r \in Requests, request[r] # Idle, request[r].op \in GroupOps,
           Writes(r), UNCHANGED <<people, acquaintances>>, CircleTyped
    PROVE  /\ TypeOK' /\ Moves(r) /\ group # "none"
           /\ group' # "none" => Knows(r)'
<1>1. CASE Finish(r)
  <2>1. Moves(r) /\ request'[r] = Idle
    BY <1>1, Finishing DEF CInv
  <2> QED BY <2>1 DEF CInv, Knows, Moves, TypeOK, CircleTyped, people, acquaintances
<1>2. CASE At(r, "acceptInvite", "write") /\ MoveOn(r, "increment")
  <2>1. /\ Moves(r) /\ request'[r].at = "increment" /\ request'[r].op = "acceptInvite"
    BY <1>2, MovingOn, AtMeans DEF CInv, Ats
  <2> QED BY <2>1 DEF CInv, Knows, Moves, TypeOK, CircleTyped, people, acquaintances, GroupOps
<1> QED BY <1>1, <1>2 DEF Writes

LEMMA WriteKeeps ==
    ASSUME CInv, NEW r \in Requests, request[r] # Idle, request[r].op \in GroupOps,
           Writes(r), UNCHANGED <<people, acquaintances>>, CircleTyped, group' # "none",
           \A u \in Users : IsOwner(u)' = IsOwner(u)
    PROVE  CInv' /\ KeepsOwner
<1>1. TypeOK' /\ Moves(r) /\ group # "none" /\ Knows(r)'
  BY WriteMoves
<1>2. Harmless(r)
  BY <1>1 DEF Harmless
<1> QED BY <1>1, <1>2, HarmlessKeeps

\* What the repository writes of one member.
LEMMA MemberWritten ==
    ASSUME TypeOK, NEW u \in Users, AddMember(u) \/ RemoveMember(u)
    PROVE  /\ groupMember' \in [Users -> {"OWNER", "MEMBER", NoRole}]
           /\ ~IsOwner(u)' /\ \A v \in Users \ {u} : groupMember'[v] = groupMember[v]
BY DEF TypeOK, AddMember, RemoveMember, NoRole, IsOwner

LEMMA GroupStrings ==
    /\ \A op \in {"addMember", "removeMember", "leave", "archive", "createInvite",
                   "revokeInvite", "acceptInvite"} : op \in GroupOps /\ op \in Ops
    /\ \A at \in {"block", "write", "group", "target", "count", "member", "increment"} : at \in Ats
BY DEF GroupOps, Ops, Ats

LEMMA CreateGroupKeeps ==
    ASSUME CInv, NEW r \in Requests, CreateGroup(r)
    PROVE  CInv' /\ KeepsOwner
<1>1. PICK u \in Users, others \in SUBSET Users :
           /\ u \notin others
           /\ groupMember' = [v \in Users |-> IF v = u THEN "OWNER"
                                              ELSE IF v \in others THEN "MEMBER" ELSE NoRole]
  BY DEF CreateGroup
<1>2. group = "none" /\ group' = "active" /\ UNCHANGED <<people, acquaintances, link, request>>
  BY DEF CreateGroup, AtOnce
<1>3. TypeOK'
  BY <1>1, <1>2 DEF CInv, TypeOK, people, acquaintances, NoRole
<1>4. OneOwner'
  BY <1>1 DEF OneOwner, IsOwner, NoRole
<1>5. Unborn' /\ KeepsOwner
  BY <1>2 DEF Unborn, KeepsOwner, GroupOwners, CInv, NoRole
<1>6. ASSUME NEW q \in Requests
      PROVE  Knows(q)'
  <2>1. request[q] # Idle => request[q].op \notin GroupOps
    BY <1>2 DEF CInv, Knows
  <2> QED BY <2>1, <1>2 DEF CInv, Knows, GroupOps
<1> QED BY <1>3, <1>4, <1>5, <1>6 DEF CInv

LEMMA AddMemberKeeps ==
    ASSUME CInv, NEW r \in Requests, AddGroupMember(r)
    PROVE  CInv' /\ KeepsOwner
<1>1. CASE CalledByOwner(r, "addMember", "group")
  BY <1>1, GroupStrings, OwnerCallKeeps
<1>2. CASE CheckGroup(r, "addMember", "block")
  BY <1>2, GroupStrings, CheckKeeps DEF CheckGroup
<1>3. CASE AddGroupMemberBlock(r)
  BY <1>3, GroupStrings, CheckKeeps DEF AddGroupMemberBlock
<1>4. CASE AddGroupMemberWrite(r)
  <2>1. /\ request[r] # Idle /\ request[r].op = "addMember" /\ request[r].whom \in Users
        /\ request[r].by \in Users
    BY <1>4, AtMeans DEF CInv, AddGroupMemberWrite
  <2> PICK u \in Users : u = request[r].whom
    BY <2>1
  <2>2. /\ groupMember' \in [Users -> {"OWNER", "MEMBER", NoRole}]
        /\ ~IsOwner(u)' /\ \A v \in Users \ {u} : groupMember'[v] = groupMember[v]
    BY <1>4, <2>1, MemberWritten DEF CInv, AddGroupMemberWrite
  <2>3. UNCHANGED <<people, acquaintances, group, link>> /\ Finish(r) /\ CircleTyped
    BY <1>4, <2>2 DEF AddGroupMemberWrite, CircleTyped, CInv, TypeOK
  <2>4. TypeOK' /\ Moves(r) /\ group # "none" /\ (group' # "none" => Knows(r)')
    BY <2>1, <2>3, GroupStrings, WriteMoves DEF Writes
  <2>5. \A v \in Users : IsOwner(v)' => IsOwner(v)
    BY <2>2 DEF IsOwner
  <2>6. \A q \in Requests : Knows(q)'
    BY <2>3, <2>4, <2>5, OthersKnow
  <2>7. OneOwner' /\ Unborn'
    BY <2>3, <2>4, <2>5 DEF CInv, OneOwner, Unborn
  <2>8. KeepsOwner
    <3>1. CASE IsOwner(u)
      <4>1. u = request[r].by
        BY <2>1, <3>1 DEF CInv, Knows
      <4>2. LosesOwner(r)
        BY <1>4, <3>1, <4>1 DEF LosesOwner, AddGroupMemberWrite, IsOwner
      <4> QED BY <4>2 DEF KeepsOwner
    <3>2. CASE ~IsOwner(u)
      BY <2>2, <3>2 DEF KeepsOwner, GroupOwners, IsOwner
    <3> QED BY <3>1, <3>2
  <2> QED BY <2>4, <2>6, <2>7, <2>8 DEF CInv
<1> QED BY <1>1, <1>2, <1>3, <1>4 DEF AddGroupMember

\* Who is removed, or leaves, is not the owner when his row is written.
LEMMA LeftKeeps ==
    ASSUME CInv, NEW r \in Requests, NEW op \in {"leave", "removeMember"}, LeftGroup(r, op)
    PROVE  CInv' /\ KeepsOwner
<1>1. /\ request[r] # Idle /\ request[r].op = op /\ request[r].at = "write"
      /\ request[r].whom \in Users /\ request[r].by \in Users /\ op \in GroupOps
  BY AtMeans, GroupStrings DEF CInv, LeftGroup
<1> PICK u \in Users : u = request[r].whom
  BY <1>1
<1>2. ~IsOwner(u)
  BY <1>1 DEF CInv, Knows
<1>3. /\ groupMember' \in [Users -> {"OWNER", "MEMBER", NoRole}]
      /\ ~IsOwner(u)' /\ \A v \in Users \ {u} : groupMember'[v] = groupMember[v]
  BY <1>1, MemberWritten DEF CInv, LeftGroup
<1>4. /\ UNCHANGED <<people, acquaintances, group>> /\ Finish(r) /\ CircleTyped
      /\ group # "none"
  BY <1>1, <1>3 DEF LeftGroup, CircleTyped, CInv, TypeOK, Knows
<1>5. \A v \in Users : IsOwner(v)' = IsOwner(v)
  BY <1>2, <1>3 DEF IsOwner
<1> QED BY <1>1, <1>4, <1>5, WriteKeeps DEF Writes

LEMMA RemoveMemberKeeps ==
    ASSUME CInv, NEW r \in Requests, RemoveGroupMember(r)
    PROVE  CInv' /\ KeepsOwner
<1>1. CASE CalledByOwner(r, "removeMember", "group") /\ request'[r].by # request'[r].whom
  BY <1>1, GroupStrings, OwnerCallKeeps
<1>2. CASE CheckGroup(r, "removeMember", "target")
  BY <1>2, GroupStrings, CheckKeeps DEF CheckGroup
<1>3. CASE RemoveGroupMemberTarget(r)
  BY <1>3, GroupStrings, CheckKeeps DEF RemoveGroupMemberTarget
<1>4. CASE LeftGroup(r, "removeMember")
  BY <1>4, LeftKeeps
<1> QED BY <1>1, <1>2, <1>3, <1>4 DEF RemoveGroupMember

\* There is one owner, so an owner who would leave never finds another.
LEMMA NeverSeveral ==
    ASSUME CInv
    PROVE  ~SeveralOwners
<1>1. CASE GroupOwners = {}
  BY <1>1, FS_EmptySet DEF SeveralOwners
<1>2. ASSUME NEW u \in GroupOwners
      PROVE  ~SeveralOwners
  <2>1. GroupOwners = {u}
    BY DEF CInv, OneOwner, GroupOwners, IsOwner
  <2>2. Cardinality({u}) = 1
    BY FS_Singleton
  <2> QED BY <2>1, <2>2 DEF SeveralOwners
<1> QED BY <1>1, <1>2

LEMMA LeaveKeeps ==
    ASSUME CInv, NEW r \in Requests, LeaveGroup(r)
    PROVE  CInv' /\ KeepsOwner
<1>1. CASE LeaveGroupCalled(r)
  <2>1. PICK u \in Users :
             /\ groupMember[u] # NoRole
             /\ Accepted(r, Call("leave", IF groupMember[u] = "OWNER" THEN "count" ELSE "write",
                                 u, u))
    BY <1>1 DEF LeaveGroupCalled
  <2> DEFINE at == IF IsOwner(u) THEN "count" ELSE "write"
             q == Call("leave", at, u, u)
  <2>2. q \in Request /\ q.op = "leave" /\ q.at = at /\ q.by = u /\ q.whom = u
    BY GroupStrings, CallIsRequest
  <2>3. group # "none" /\ Accepted(r, q)
    BY <2>1 DEF CInv, Unborn, IsOwner
  <2>4. q.at = "count" => \A v \in Users : IsOwner(v) => v = u
    BY <2>2 DEF CInv, OneOwner
  <2> QED BY <1>1, <2>2, <2>3, <2>4, GroupStrings, CallKeeps DEF LeaveGroupCalled
<1>2. CASE LeaveGroupCount(r)
  BY <1>2, NeverSeveral, GroupStrings, CheckKeeps DEF LeaveGroupCount
<1>3. CASE LeftGroup(r, "leave")
  BY <1>3, LeftKeeps
<1> QED BY <1>1, <1>2, <1>3 DEF LeaveGroup

LEMMA ArchiveKeeps ==
    ASSUME CInv, NEW r \in Requests, ArchiveGroup(r)
    PROVE  CInv' /\ KeepsOwner
<1>1. CASE CalledByOwner(r, "archive", "write")
  BY <1>1, GroupStrings, OwnerCallKeeps
<1>2. CASE ArchiveGroupWrite(r)
  <2>1. request[r] # Idle /\ request[r].op \in GroupOps
    BY <1>2, AtMeans, GroupStrings DEF CInv, ArchiveGroupWrite
  <2>2. /\ Finish(r) /\ UNCHANGED <<people, acquaintances>> /\ CircleTyped /\ group' # "none"
        /\ \A u \in Users : IsOwner(u)' = IsOwner(u)
    BY <1>2 DEF ArchiveGroupWrite, CircleTyped, CInv, TypeOK, IsOwner
  <2> QED BY <2>1, <2>2, WriteKeeps DEF Writes
<1> QED BY <1>1, <1>2 DEF ArchiveGroup

-----------------------------------------------------------------------------
(***************************************************************************)
(* Links                                                                   *)
(***************************************************************************)
\* A write of one link.
LEMMA LinkWritten ==
    ASSUME TypeOK, NEW l, NEW row, l \in Links => row \in LinkRow,
           link' = [link EXCEPT ![l] = row]
    PROVE  link' \in [Links -> LinkRow]
BY DEF TypeOK

LEMMA LinkKeeps ==
    ASSUME CInv, NEW r \in Requests, request[r] # Idle, request[r].op \in GroupOps,
           Finish(r), link' \in [Links -> LinkRow],
           UNCHANGED <<people, acquaintances, group, groupMember>>
    PROVE  CInv' /\ KeepsOwner
<1>1. CircleTyped /\ \A u \in Users : IsOwner(u)' = IsOwner(u)
  BY DEF CircleTyped, CInv, TypeOK, IsOwner
<1>2. group' # "none"
  BY DEF CInv, Knows
<1> QED BY <1>1, <1>2, WriteKeeps DEF Writes

LEMMA InviteKeeps ==
    ASSUME CInv, NEW r \in Requests,
           CreateInvite(r) \/ RevokeInviteCalled(r) \/ RevokeInviteWrite(r)
    PROVE  CInv' /\ KeepsOwner
<1>i. TypeOK
  BY DEF CInv
<1>1. CASE CalledByOwner(r, "createInvite", "group")
  BY <1>1, GroupStrings, OwnerCallKeeps
<1>2. CASE CheckGroup(r, "createInvite", "write")
  BY <1>2, GroupStrings, CheckKeeps DEF CheckGroup
<1>3. CASE CreateInviteInsert(r)
  <2>1. request[r] # Idle /\ request[r].op \in GroupOps
    BY <1>3, <1>i, AtMeans, GroupStrings DEF CreateInviteInsert
  <2>2. PICK max \in MaxUses : \E l :
             link' = [link EXCEPT ![l] = [@ EXCEPT !.used = TRUE, !.maxUses = max]]
    BY <1>3 DEF CreateInviteInsert
  <2> PICK l : link' = [link EXCEPT ![l] = [@ EXCEPT !.used = TRUE, !.maxUses = max]]
    BY <2>2
  <2>3. l \in Links => [link[l] EXCEPT !.used = TRUE, !.maxUses = max] \in LinkRow
    BY <1>i DEF TypeOK, LinkRow
  <2>4. link' \in [Links -> LinkRow]
    BY <1>i, <2>3, LinkWritten
  <2> QED BY <1>3, <2>1, <2>4, LinkKeeps DEF CreateInviteInsert
<1>4. CASE RevokeInviteCalled(r)
  <2>1. PICK u \in GroupOwners, l \in Links :
             Accepted(r, [Call("revokeInvite", "write", u, u) EXCEPT !.link = l])
    BY <1>4 DEF RevokeInviteCalled
  <2> DEFINE q == [Call("revokeInvite", "write", u, u) EXCEPT !.link = l]
  <2>2. u \in Users /\ group # "none"
    BY DEF CInv, Unborn, GroupOwners, NoRole
  <2>3. q \in Request /\ q.op = "revokeInvite"
    BY <2>2 DEF Call, Request, Privacy
  <2> QED BY <1>4, <2>1, <2>2, <2>3, GroupStrings, CallKeeps DEF RevokeInviteCalled
<1>5. CASE RevokeInviteWrite(r)
  <2>1. request[r] # Idle /\ request[r].op \in GroupOps
    BY <1>5, <1>i, AtMeans, GroupStrings DEF RevokeInviteWrite
  <2>2. PICK l : link' = [link EXCEPT ![l] = [@ EXCEPT !.revoked = TRUE]]
    BY <1>5 DEF RevokeInviteWrite
  <2>3. l \in Links => [link[l] EXCEPT !.revoked = TRUE] \in LinkRow
    BY <1>i DEF TypeOK, LinkRow
  <2>4. link' \in [Links -> LinkRow]
    BY <1>i, <2>2, <2>3, LinkWritten
  <2> QED BY <1>5, <2>1, <2>4, LinkKeeps DEF RevokeInviteWrite
<1> QED BY <1>1, <1>2, <1>3, <1>4, <1>5 DEF CreateInvite

LEMMA AcceptInviteKeeps ==
    ASSUME CInv, NEW r \in Requests, AcceptInvite(r)
    PROVE  CInv' /\ KeepsOwner
<1>i. TypeOK
  BY DEF CInv
<1>1. CASE AcceptInviteCalled(r)
  <2>1. PICK u \in Users, l \in Links :
             Valid(l) /\ Accepted(r, [Call("acceptInvite", "group", u, u) EXCEPT !.link = l])
    BY <1>1 DEF AcceptInviteCalled
  <2> DEFINE q == [Call("acceptInvite", "group", u, u) EXCEPT !.link = l]
  <2>2. group # "none"
    BY <2>1 DEF CInv, Unborn, Valid
  <2>3. q \in Request /\ q.op = "acceptInvite" /\ q.at = "group"
    BY DEF Call, Request, Privacy
  <2> QED BY <1>1, <2>1, <2>2, <2>3, GroupStrings, CallKeeps DEF AcceptInviteCalled
<1>2. CASE CheckGroup(r, "acceptInvite", "member")
  BY <1>2, GroupStrings, CheckKeeps DEF CheckGroup
<1>3. CASE AcceptInviteMember(r)
  <2>1. groupMember[request[r].by] = NoRole => ~IsOwner(request[r].by)
    BY DEF IsOwner, NoRole
  <2> QED BY <1>3, <2>1, GroupStrings, CheckKeeps DEF AcceptInviteMember
<1>4. CASE AcceptInviteWrite(r)
  <2>1. /\ request[r] # Idle /\ request[r].op = "acceptInvite" /\ request[r].at = "write"
        /\ request[r].by \in Users
    BY <1>4, <1>i, AtMeans DEF AcceptInviteWrite
  <2> PICK u \in Users : u = request[r].by
    BY <2>1
  <2>2. ~IsOwner(u) /\ group # "none"
    BY <2>1, GroupStrings DEF CInv, Knows
  <2>3. /\ groupMember' \in [Users -> {"OWNER", "MEMBER", NoRole}]
        /\ ~IsOwner(u)' /\ \A v \in Users \ {u} : groupMember'[v] = groupMember[v]
    BY <1>4, <1>i, MemberWritten DEF AcceptInviteWrite
  <2>4. /\ UNCHANGED <<people, acquaintances, group>> /\ Writes(r) /\ CircleTyped
    BY <1>4, <1>i, <2>3 DEF AcceptInviteWrite, Writes, CircleTyped, TypeOK
  <2>5. \A v \in Users : IsOwner(v)' = IsOwner(v)
    BY <2>2, <2>3 DEF IsOwner
  <2> QED BY <2>1, <2>2, <2>4, <2>5, GroupStrings, WriteKeeps
<1>5. CASE AcceptInviteIncrement(r)
  <2>1. request[r] # Idle /\ request[r].op \in GroupOps
    BY <1>5, <1>i, AtMeans, GroupStrings DEF AcceptInviteIncrement
  <2>2. PICK l : link' = [link EXCEPT ![l] = [@ EXCEPT !.useCount = link[l].useCount + 1]]
    BY <1>5 DEF AcceptInviteIncrement
  <2>3. ASSUME l \in Links
        PROVE  [link[l] EXCEPT !.useCount = link[l].useCount + 1] \in LinkRow
    <3>1. link[l] \in LinkRow
      BY <1>i, <2>3 DEF TypeOK
    <3>2. link[l].useCount + 1 \in Nat
      BY <3>1 DEF LinkRow
    <3> QED BY <3>1, <3>2 DEF LinkRow
  <2>4. link' \in [Links -> LinkRow]
    BY <1>i, <2>2, <2>3, LinkWritten
  <2> QED BY <1>5, <2>1, <2>4, LinkKeeps DEF AcceptInviteIncrement
<1> QED BY <1>1, <1>2, <1>3, <1>4, <1>5 DEF AcceptInvite

\* Nobody's request moves.
LEMMA RestKeeps ==
    ASSUME CInv, TypeOK', UNCHANGED <<group, groupMember, request>>,
           \A l \in Links : link'[l].used = link[l].used
    PROVE  CInv' /\ KeepsOwner
<1>1. \A r \in Requests : Knows(r)'
  BY DEF CInv, Knows, IsOwner
<1>2. OneOwner' /\ Unborn' /\ KeepsOwner
  BY DEF CInv, OneOwner, Unborn, KeepsOwner, GroupOwners, IsOwner
<1> QED BY <1>1, <1>2 DEF CInv

LEMMA ExpiryKeeps ==
    ASSUME CInv, NEW l \in Links, LinkExpires(l)
    PROVE  CInv' /\ KeepsOwner
<1>1. [link[l] EXCEPT !.expired = TRUE] \in LinkRow
  BY DEF CInv, TypeOK, LinkRow
<1>2. link' \in [Links -> LinkRow] /\ \A k \in Links : link'[k].used = link[k].used
  <2>1. link' = [link EXCEPT ![l] = [@ EXCEPT !.expired = TRUE]]
    BY DEF LinkExpires
  <2>2. [link[l] EXCEPT !.expired = TRUE].used = link[l].used
    BY DEF CInv, TypeOK, LinkRow
  <2> QED BY <1>1, <2>1, <2>2 DEF CInv, TypeOK
<1>3. TypeOK'
  BY <1>2 DEF CInv, TypeOK, LinkExpires, people, acquaintances
<1> QED BY <1>2, <1>3, RestKeeps DEF LinkExpires

LEMMA FaultKeeps ==
    ASSUME CInv, NEW r \in Requests, Fault(r)
    PROVE  CInv' /\ KeepsOwner
<1>1. Moves(r) /\ request'[r] = Idle
  BY Finishing DEF Fault, CInv
<1>2. TypeOK'
  BY <1>1 DEF Fault, Moves, CInv, TypeOK, tables, people, acquaintances, circle
<1>3. Apart(r)
  BY <1>1 DEF Fault, Apart, tables
<1> QED BY <1>2, <1>3, ApartKeeps

-----------------------------------------------------------------------------
LEMMA InitIsSound == Init => CInv
<1> SUFFICES ASSUME Init PROVE CInv
  OBVIOUS
<1>1. TypeOK
  BY DEF Init, TypeOK, ContactRequestRow, LinkRow, Privacy, NoRole
<1>2. OneOwner /\ Unborn
  BY DEF Init, OneOwner, Unborn, IsOwner, NoRole
<1>3. \A r \in Requests : Knows(r)
  BY DEF Init, Knows
<1> QED BY <1>1, <1>2, <1>3 DEF CInv

LEMMA NextIsSound == CInv /\ [Next]_vars => CInv' /\ (Next => KeepsOwner)
<1> SUFFICES ASSUME CInv, [Next]_vars PROVE CInv' /\ (Next => KeepsOwner)
  OBVIOUS
<1>1. ASSUME NEW r \in Requests, ContactsMethod(r)
      PROVE  CInv' /\ KeepsOwner
  BY <1>1, ContactsApart, ApartKeeps
<1>2. ASSUME NEW r \in Requests, GroupsMethod(r)
      PROVE  CInv' /\ KeepsOwner
  BY <1>2, CreateGroupKeeps, AddMemberKeeps, RemoveMemberKeeps, LeaveKeeps, ArchiveKeeps,
     InviteKeeps, AcceptInviteKeeps DEF GroupsMethod
<1>3. ASSUME NEW r \in Requests, Fault(r)
      PROVE  CInv' /\ KeepsOwner
  BY <1>3, FaultKeeps
<1>4. ASSUME NEW l \in Links, LinkExpires(l)
      PROVE  CInv' /\ KeepsOwner
  BY <1>4, ExpiryKeeps
<1>5. CASE UNCHANGED vars
  <2>1. TypeOK'
    BY <1>5 DEF CInv, TypeOK, vars, tables, people, acquaintances, circle
  <2> QED BY <1>5, <2>1, RestKeeps DEF vars, tables, circle
<1> QED BY <1>1, <1>2, <1>3, <1>4, <1>5 DEF Next

-----------------------------------------------------------------------------
(***************************************************************************)
(* What a step does to contacts                                            *)
(***************************************************************************)
LEMMA GroupsKeepAcquaintances ==
    ASSUME NEW r \in Requests, GroupsMethod(r)
    PROVE  UNCHANGED <<people, acquaintances>>
<1>1. AddGroupMember(r) \/ RemoveGroupMember(r) \/ CreateGroup(r) => UNCHANGED <<people, acquaintances>>
  BY DEF AddGroupMember, RemoveGroupMember, CreateGroup, CalledByOwner, CheckGroup, Check,
         AddGroupMemberBlock, AddGroupMemberWrite, RemoveGroupMemberTarget, LeftGroup, tables
<1>2. LeaveGroup(r) \/ ArchiveGroup(r) => UNCHANGED <<people, acquaintances>>
  BY DEF LeaveGroup, LeaveGroupCalled, LeaveGroupCount, LeftGroup, ArchiveGroup,
         ArchiveGroupWrite, CalledByOwner, Check, tables
<1>3. CreateInvite(r) \/ RevokeInviteCalled(r) \/ RevokeInviteWrite(r)
      => UNCHANGED <<people, acquaintances>>
  BY DEF CreateInvite, CreateInviteInsert, CheckGroup, CalledByOwner, RevokeInviteCalled,
         RevokeInviteWrite, Check, tables
<1>4. AcceptInvite(r) => UNCHANGED <<people, acquaintances>>
  BY DEF AcceptInvite, AcceptInviteCalled, CheckGroup, AcceptInviteMember, AcceptInviteWrite,
         AcceptInviteIncrement, Check, tables
<1> QED BY <1>1, <1>2, <1>3, <1>4 DEF GroupsMethod

-----------------------------------------------------------------------------
\* Blocks, contact requests, contacts, the group and its links stay within their types;
\* a new contact request always finds an id.
THEOREM CircleTypes == Spec => []TypeOK
<1>1. CInv => TypeOK
  BY DEF CInv
<1> QED BY <1>1, InitIsSound, NextIsSound, PTL DEF Spec

\* A group loses its OWNER in one way only, addMember of the owner by himself: no race
\* of leaving, removals, links and additions, of any number of requests, does it.
THEOREM OwnerKept == Spec => OwnedUnlessSelfAdded
<1>1. CInv /\ [Next]_vars => [KeepsOwner]_vars
  BY NextIsSound
<1> QED BY <1>1, InitIsSound, NextIsSound, PTL DEF Spec, OwnedUnlessSelfAdded

-----------------------------------------------------------------------------
(***************************************************************************)
(* How a request goes on: what it has been told on its way                  *)
(***************************************************************************)
\* Past the query that asks for a block between the two users.
PastBlock(q) == \/ q.op = "addContact" /\ q.at # "block"
                \/ q.op \in {"direct", "addMember"} /\ q.at = "write"
                \/ q.op = "accept" /\ q.at = "tx"
\* Past the query that asks whether the other user has asked already.
PastIncoming(q) == q.op = "addContact" /\ q.at \in {"outgoing", "ask"}
\* Past the query that asks whether the group is active.
PastGroup(q) == \/ q.op = "addMember" /\ q.at \in {"block", "write"}
                \/ q.op = "acceptInvite" /\ q.at # "group"
                \/ q.op = "createInvite" /\ q.at = "write"

Begun(q) == /\ q \in Request /\ ~PastBlock(q) /\ ~PastIncoming(q) /\ ~PastGroup(q)
            /\ q.op = "acceptInvite" => Valid(q.link)
            /\ q.op = "createInvite" => LinksLeft
Advanced(q, next) ==
    /\ next \in Request
    /\ next.op = q.op /\ next.by = q.by /\ next.whom = q.whom /\ next.link = q.link
    /\ PastBlock(next) => PastBlock(q) \/ ~HasBlockInEitherDirection(q.by, q.whom)
    /\ PastIncoming(next) => PastIncoming(q) \/ Status(q.whom, q.by) # "PENDING"
    /\ PastGroup(next) => PastGroup(q) \/ group = "active"

StepOf(r) == ContactsMethod(r) \/ GroupsMethod(r) \/ Fault(r)
GoesOnAs(r) ==
    /\ Moves(r)
    /\ \/ request'[r] = Idle
       \/ request[r] = Idle /\ Begun(request'[r]) /\ UNCHANGED tables
       \/ request[r] # Idle /\ Advanced(request[r], request'[r])

LEMMA Ending ==
    ASSUME TypeOK, NEW r \in Requests, Finish(r) \/ AtOnce(r)
    PROVE  GoesOnAs(r) /\ request'[r] = Idle
<1>1. CASE Finish(r)
  BY <1>1, Finishing DEF GoesOnAs
<1>2. CASE AtOnce(r)
  BY <1>2 DEF AtOnce, GoesOnAs, Moves, TypeOK
<1> QED BY <1>1, <1>2

LEMMA Beginning ==
    ASSUME TypeOK, NEW r \in Requests, NEW call \in Request, Begun(call),
           Accepted(r, call), UNCHANGED tables
    PROVE  GoesOnAs(r)
<1>1. Moves(r) /\ request'[r] = call /\ request[r] = Idle
  BY Accepting DEF Accepted
<1> QED BY <1>1 DEF GoesOnAs

LEMMA Advancing ==
    ASSUME TypeOK, NEW r \in Requests, NEW op, NEW at, At(r, op, at),
           NEW next \in Ats, NEW passed, Check(r, passed, next),
           \A q \in Request :
               /\ passed /\ q.op = op /\ q.at = next /\ q.by = request[r].by
               /\ q.whom = request[r].whom /\ q.link = request[r].link
               => Advanced(request[r], q)
    PROVE  GoesOnAs(r)
<1>1. request[r] # Idle /\ request[r].op = op
  BY DEF At
<1>2. /\ Moves(r)
      /\ \/ request'[r] = Idle
         \/ /\ passed /\ request'[r].at = next /\ request'[r].op = op
            /\ request'[r].by = request[r].by /\ request'[r].whom = request[r].whom
            /\ request'[r].link = request[r].link
  BY <1>1, Checking
<1>3. request'[r] \in Request \cup {Idle}
  BY <1>2 DEF Moves
<1> QED BY <1>1, <1>2, <1>3 DEF GoesOnAs

LEMMA AddContactGoesOn ==
    ASSUME CInv, NEW r \in Requests, AddContact(r)
    PROVE  GoesOnAs(r)
<1>i. TypeOK
  BY DEF CInv
<1>1. CASE AddContactCalled(r)
  <2>1. PICK p \in Pairs : Accepted(r, [Call("addContact", "block", p[1], p[2])
                                          EXCEPT !.seen = privacy[p[2]]])
    BY <1>1 DEF AddContactCalled
  <2> DEFINE q == [Call("addContact", "block", p[1], p[2]) EXCEPT !.seen = privacy[p[2]]]
  <2>2. p[1] \in Users /\ p[2] \in Users /\ privacy[p[2]] \in Privacy
    BY <1>i DEF Pairs, TypeOK
  <2>3. q \in Request /\ q.op = "addContact" /\ q.at = "block"
    BY <2>2 DEF Call, Request
  <2>4. Begun(q)
    BY <2>3 DEF Begun, PastBlock, PastIncoming, PastGroup
  <2> QED BY <1>1, <1>i, <2>1, <2>3, <2>4, Beginning DEF AddContactCalled
<1>2. CASE AddContactBlock(r)
  <2> DEFINE ok == /\ ~HasBlockInEitherDirection(request[r].by, request[r].whom)
                   /\ request[r].seen # "NOBODY"
  <2>1. At(r, "addContact", "block") /\ Check(r, ok, "existing") /\ "existing" \in Ats
    BY <1>2 DEF AddContactBlock, Ats
  <2>2. \A q \in Request : /\ ok /\ q.op = "addContact" /\ q.at = "existing"
                           /\ q.by = request[r].by /\ q.whom = request[r].whom
                           /\ q.link = request[r].link
                           => Advanced(request[r], q)
    BY <2>1 DEF At, Advanced, PastBlock, PastIncoming, PastGroup
  <2> HIDE DEF ok
  <2> QED BY <1>i, <2>1, <2>2, Advancing
<1>3. CASE AddContactExisting(r)
  <2> DEFINE next == IF request[r].seen = "EVERYONE" THEN "add" ELSE "incoming"
  <2>1. next \in Ats /\ next \in {"add", "incoming"}
    BY DEF Ats
  <2>2. At(r, "addContact", "existing") /\ request[r].op = "addContact" /\ request[r].at = "existing"
    BY <1>3 DEF AddContactExisting, At
  <2>3. \A q \in Request : /\ q.op = "addContact" /\ q.at = next /\ q.by = request[r].by
                           /\ q.whom = request[r].whom /\ q.link = request[r].link
                           => Advanced(request[r], q)
    BY <2>1, <2>2 DEF Advanced, PastBlock, PastIncoming, PastGroup
  <2> HIDE DEF next
  <2> QED BY <1>3, <1>i, <2>1, <2>2, <2>3, Advancing DEF AddContactExisting, next
<1>4. CASE AddContactAdd(r) \/ AddContactAsk(r)
  BY <1>4, <1>i, Ending DEF AddContactAdd, AddContactAsk
<1>5. CASE AddContactIncoming(r)
  <2> DEFINE ok == TRUE
             crossed == Status(request[r].whom, request[r].by) = "PENDING"
             next == IF crossed THEN "between" ELSE "outgoing"
  <2>1. At(r, "addContact", "incoming") /\ Check(r, ok, next) /\ next \in Ats
    BY <1>5 DEF AddContactIncoming, Ats
  <2>2. \A q \in Request : /\ ok /\ q.op = "addContact" /\ q.at = next
                           /\ q.by = request[r].by /\ q.whom = request[r].whom
                           /\ q.link = request[r].link
                           => Advanced(request[r], q)
    BY <2>1 DEF At, Advanced, PastBlock, PastIncoming, PastGroup
  <2> HIDE DEF ok, next
  <2> QED BY <1>i, <2>1, <2>2, Advancing
<1>6. CASE AddContactOutgoing(r)
  <2> DEFINE ok == Status(request[r].by, request[r].whom) # "PENDING"
  <2>1. At(r, "addContact", "outgoing") /\ Check(r, ok, "ask") /\ "ask" \in Ats
    BY <1>6 DEF AddContactOutgoing, Ats
  <2>2. \A q \in Request : /\ ok /\ q.op = "addContact" /\ q.at = "ask"
                           /\ q.by = request[r].by /\ q.whom = request[r].whom
                           /\ q.link = request[r].link
                           => Advanced(request[r], q)
    BY <2>1 DEF At, Advanced, PastBlock, PastIncoming, PastGroup
  <2> HIDE DEF ok
  <2> QED BY <1>i, <2>1, <2>2, Advancing
<1> QED BY <1>1, <1>2, <1>3, <1>4, <1>5, <1>6 DEF AddContact

LEMMA AcceptGoesOn ==
    ASSUME CInv, NEW r \in Requests, AcceptRequest(r)
    PROVE  GoesOnAs(r)
<1>i. TypeOK
  BY DEF CInv
<1>1. CASE AcceptCalled(r)
  <2>1. PICK p \in Pairs : Accepted(r, Call("accept", "between", p[2], p[1]))
    BY <1>1 DEF AcceptCalled
  <2> DEFINE q == Call("accept", "between", p[2], p[1])
  <2>2. q \in Request /\ q.op = "accept" /\ q.at = "between"
    BY DEF Call, Request, Pairs, Privacy
  <2>3. Begun(q)
    BY <2>2 DEF Begun, PastBlock, PastIncoming, PastGroup
  <2> QED BY <1>1, <1>i, <2>1, <2>2, <2>3, Beginning DEF AcceptCalled
<1>2. CASE AcceptBetween(r)
  <2>1. PICK op \in {"accept", "addContact"} : At(r, op, "between")
    BY <1>2 DEF AcceptBetween, Answering
  <2> DEFINE q == [request[r] EXCEPT !.at = "unblocked", !.id = contactRequest[Incoming(r)].id]
  <2>2. request[r] \in Request /\ request[r].op = op /\ Incoming(r) \in Pairs
        /\ request[r] # Idle /\ request[r].at = "between"
    <3>1. op \in Ops \ GroupOps
      BY DEF Ops, GroupOps
    <3> QED BY <1>i, <2>1, <3>1, AtMeans, AboutPair
  <2>3. contactRequest[Incoming(r)].id \in Ids \cup {NoId}
    BY <1>i, <2>2 DEF TypeOK, ContactRequestRow
  <2>4. /\ q \in Request /\ q.op = op /\ q.at = "unblocked" /\ q.by = request[r].by
        /\ q.whom = request[r].whom /\ q.link = request[r].link
    BY <2>2, <2>3 DEF Request
  <2>5. Moves(r) /\ request'[r] \in {q, Idle}
    BY <1>2, <1>i, <2>4 DEF AcceptBetween, Moves, TypeOK
  <2>6. Advanced(request[r], q)
    BY <2>2, <2>4 DEF Advanced, PastBlock, PastIncoming, PastGroup
  <2> QED BY <2>2, <2>5, <2>6 DEF GoesOnAs
<1>3. CASE AcceptUnblocked(r)
  <2>1. PICK op \in {"accept", "addContact"} : At(r, op, "unblocked")
    BY <1>3 DEF AcceptUnblocked, Answering
  <2> DEFINE ok == ~HasBlockInEitherDirection(request[r].by, request[r].whom)
  <2>2. Check(r, ok, "tx") /\ "tx" \in Ats
    BY <1>3 DEF AcceptUnblocked, Ats
  <2>3. \A q \in Request : /\ ok /\ q.op = op /\ q.at = "tx"
                           /\ q.by = request[r].by /\ q.whom = request[r].whom
                           /\ q.link = request[r].link
                           => Advanced(request[r], q)
    BY <2>1 DEF At, Advanced, PastBlock, PastIncoming, PastGroup
  <2> HIDE DEF ok
  <2> QED BY <1>i, <2>1, <2>2, <2>3, Advancing
<1>4. CASE AcceptTx(r)
  BY <1>4, <1>i, Ending DEF AcceptTx
<1> QED BY <1>1, <1>2, <1>3, <1>4 DEF AcceptRequest

LEMMA ContactsGoOn ==
    ASSUME CInv, NEW r \in Requests, ContactsMethod(r)
    PROVE  GoesOnAs(r)
<1>i. TypeOK
  BY DEF CInv
<1>1. CASE Block(r) \/ Unblock(r) \/ UpdateContactPrivacy(r) \/ RemoveContact(r)
  BY <1>1, <1>i, Ending DEF Block, Unblock, UpdateContactPrivacy, RemoveContact
<1>2. CASE AddContact(r) \/ AcceptRequest(r)
  BY <1>2, AddContactGoesOn, AcceptGoesOn
<1>3. CASE DeclineCalled(r) \/ CancelCalled(r)
  <2>1. PICK p \in Pairs : \/ Accepted(r, [Call("decline", "write", p[2], p[1])
                                             EXCEPT !.id = contactRequest[p].id])
                           \/ Accepted(r, [Call("cancel", "write", p[1], p[2])
                                             EXCEPT !.id = contactRequest[p].id])
    BY <1>3 DEF DeclineCalled, CancelCalled
  <2> DEFINE d == [Call("decline", "write", p[2], p[1]) EXCEPT !.id = contactRequest[p].id]
             c == [Call("cancel", "write", p[1], p[2]) EXCEPT !.id = contactRequest[p].id]
  <2>2. contactRequest[p].id \in Ids \cup {NoId}
    BY <1>i DEF TypeOK, ContactRequestRow
  <2>3. d \in Request /\ d.op = "decline" /\ c \in Request /\ c.op = "cancel"
    BY <2>2 DEF Call, Request, Pairs, Privacy
  <2>4. Begun(d) /\ Begun(c)
    BY <2>3 DEF Begun, PastBlock, PastIncoming, PastGroup
  <2> QED BY <1>3, <1>i, <2>1, <2>3, <2>4, Beginning DEF DeclineCalled, CancelCalled
<1>4. CASE DeclineWrite(r) \/ CancelWrite(r) \/ DirectWrite(r)
  BY <1>4, <1>i, Ending DEF DeclineWrite, CancelWrite, DirectWrite
<1>5. CASE DirectCalled(r)
  <2>1. PICK p \in Pairs : Accepted(r, Call("direct", "block", p[1], p[2]))
    BY <1>5 DEF DirectCalled
  <2> DEFINE q == Call("direct", "block", p[1], p[2])
  <2>2. q \in Request /\ q.op = "direct" /\ q.at = "block"
    BY DEF Call, Request, Pairs, Privacy
  <2>3. Begun(q)
    BY <2>2 DEF Begun, PastBlock, PastIncoming, PastGroup
  <2> QED BY <1>5, <1>i, <2>1, <2>2, <2>3, Beginning DEF DirectCalled
<1>6. CASE DirectBlock(r)
  <2> DEFINE ok == ~HasBlockInEitherDirection(request[r].by, request[r].whom)
  <2>1. At(r, "direct", "block") /\ Check(r, ok, "write") /\ "write" \in Ats
    BY <1>6 DEF DirectBlock, Ats
  <2>2. \A q \in Request : /\ ok /\ q.op = "direct" /\ q.at = "write"
                           /\ q.by = request[r].by /\ q.whom = request[r].whom
                           /\ q.link = request[r].link
                           => Advanced(request[r], q)
    BY <2>1 DEF At, Advanced, PastBlock, PastIncoming, PastGroup
  <2> HIDE DEF ok
  <2> QED BY <1>i, <2>1, <2>2, Advancing
<1> QED BY <1>1, <1>2, <1>3, <1>4, <1>5, <1>6 DEF ContactsMethod

LEMMA OwnerCallBegins ==
    ASSUME TypeOK, NEW r \in Requests, NEW op \in GroupOps \ {"acceptInvite"}, NEW at \in Ats,
           CalledByOwner(r, op, at), op \in {"addMember", "createInvite"} => at = "group",
           op = "createInvite" => LinksLeft
    PROVE  GoesOnAs(r)
<1>1. PICK u \in GroupOwners, whom \in Users : Accepted(r, Call(op, at, u, whom))
  BY DEF CalledByOwner
<1>2. u \in Users /\ op \in Ops
  BY DEF GroupOwners, GroupOps, Ops
<1> DEFINE q == Call(op, at, u, whom)
<1>3. q \in Request /\ q.op = op /\ q.at = at
  BY <1>2, CallIsRequest
<1>4. Begun(q)
  BY <1>3 DEF Begun, PastBlock, PastIncoming, PastGroup, GroupOps
<1> QED BY <1>1, <1>3, <1>4, Beginning DEF CalledByOwner

LEMMA GroupCheckGoesOn ==
    ASSUME TypeOK, NEW r \in Requests, NEW op \in GroupOps, NEW at \in Ats,
           CheckGroup(r, op, at), op = "addMember" => at # "write"
    PROVE  GoesOnAs(r)
<1>1. \A q \in Request : /\ GroupFound /\ q.op = op /\ q.at = at /\ q.by = request[r].by
                         /\ q.whom = request[r].whom /\ q.link = request[r].link
                         => Advanced(request[r], q)
  BY DEF CheckGroup, At, Advanced, PastBlock, PastIncoming, GroupFound, GroupOps
<1> QED BY <1>1, Advancing DEF CheckGroup, Ats

LEMMA GroupsGoOn ==
    ASSUME CInv, NEW r \in Requests, GroupsMethod(r)
    PROVE  GoesOnAs(r)
<1>i. TypeOK
  BY DEF CInv
<1>1. CASE CreateGroup(r)
  BY <1>1, <1>i, Ending DEF CreateGroup
<1>2. CASE AddGroupMember(r)
  <2>1. CASE AddGroupMemberBlock(r)
    <3> DEFINE ok == ~HasBlockInEitherDirection(request[r].by, request[r].whom)
    <3>1. At(r, "addMember", "block") /\ Check(r, ok, "write") /\ "write" \in Ats
      BY <2>1 DEF AddGroupMemberBlock, Ats
    <3>2. \A q \in Request : /\ ok /\ q.op = "addMember" /\ q.at = "write"
                             /\ q.by = request[r].by /\ q.whom = request[r].whom
                             /\ q.link = request[r].link
                             => Advanced(request[r], q)
      BY <3>1 DEF At, Advanced, PastBlock, PastIncoming, PastGroup
    <3> HIDE DEF ok
    <3> QED BY <1>i, <3>1, <3>2, Advancing
  <2>2. CASE AddGroupMemberWrite(r)
    BY <2>2, <1>i, Ending DEF AddGroupMemberWrite
  <2> QED BY <1>2, <1>i, <2>1, <2>2, OwnerCallBegins, GroupCheckGoesOn, GroupStrings
          DEF AddGroupMember
<1>3. CASE RemoveGroupMember(r)
  <2>1. CASE RemoveGroupMemberTarget(r)
    BY <2>1, <1>i, Advancing
       DEF RemoveGroupMemberTarget, Ats, Advanced, PastBlock, PastIncoming, PastGroup, At
  <2>2. CASE LeftGroup(r, "removeMember")
    BY <2>2, <1>i, Ending DEF LeftGroup
  <2> QED BY <1>3, <1>i, <2>1, <2>2, OwnerCallBegins, GroupCheckGoesOn, GroupStrings
          DEF RemoveGroupMember
<1>4. CASE LeaveGroup(r)
  <2>1. CASE LeaveGroupCalled(r)
    <3>1. PICK u \in Users, at \in {"count", "write"} : Accepted(r, Call("leave", at, u, u))
      BY <2>1 DEF LeaveGroupCalled
    <3> DEFINE q == Call("leave", at, u, u)
    <3>2. q \in Request /\ q.op = "leave"
      BY <3>1, GroupStrings, CallIsRequest
    <3>3. Begun(q)
      BY <3>2 DEF Begun, PastBlock, PastIncoming, PastGroup
    <3> QED BY <2>1, <1>i, <3>1, <3>2, <3>3, Beginning DEF LeaveGroupCalled
  <2>2. CASE LeaveGroupCount(r)
    BY <2>2, <1>i, Advancing
       DEF LeaveGroupCount, Ats, Advanced, PastBlock, PastIncoming, PastGroup, At
  <2>3. CASE LeftGroup(r, "leave")
    BY <2>3, <1>i, Ending DEF LeftGroup
  <2> QED BY <1>4, <2>1, <2>2, <2>3 DEF LeaveGroup
<1>5. CASE ArchiveGroup(r)
  <2>1. CASE ArchiveGroupWrite(r)
    BY <2>1, <1>i, Ending DEF ArchiveGroupWrite
  <2> QED BY <1>5, <1>i, <2>1, OwnerCallBegins, GroupStrings DEF ArchiveGroup
<1>6. CASE CreateInvite(r) \/ RevokeInviteCalled(r) \/ RevokeInviteWrite(r)
  <2>1. CASE RevokeInviteCalled(r)
    <3>1. PICK u \in GroupOwners, l \in Links :
               Accepted(r, [Call("revokeInvite", "write", u, u) EXCEPT !.link = l])
      BY <2>1 DEF RevokeInviteCalled
    <3> DEFINE q == [Call("revokeInvite", "write", u, u) EXCEPT !.link = l]
    <3>2. q \in Request /\ q.op = "revokeInvite"
      BY DEF Call, Request, Privacy, GroupOwners
    <3>3. Begun(q)
      BY <3>2 DEF Begun, PastBlock, PastIncoming, PastGroup
    <3> QED BY <2>1, <1>i, <3>1, <3>2, <3>3, Beginning DEF RevokeInviteCalled
  <2>2. CASE CreateInviteInsert(r) \/ RevokeInviteWrite(r)
    BY <2>2, <1>i, Ending DEF CreateInviteInsert, RevokeInviteWrite
  <2>3. CASE LinksLeft /\ CalledByOwner(r, "createInvite", "group")
    BY <2>3, <1>i, OwnerCallBegins, GroupStrings
  <2>4. CASE CheckGroup(r, "createInvite", "write")
    BY <2>4, <1>i, GroupCheckGoesOn, GroupStrings
  <2> QED BY <1>6, <2>1, <2>2, <2>3, <2>4 DEF CreateInvite
<1>7. CASE AcceptInvite(r)
  <2>1. CASE AcceptInviteCalled(r)
    <3>1. PICK u \in Users, l \in Links :
               Valid(l) /\ Accepted(r, [Call("acceptInvite", "group", u, u) EXCEPT !.link = l])
      BY <2>1 DEF AcceptInviteCalled
    <3> DEFINE q == [Call("acceptInvite", "group", u, u) EXCEPT !.link = l]
    <3>2. q \in Request /\ q.op = "acceptInvite" /\ q.at = "group" /\ q.link = l
      BY DEF Call, Request, Privacy
    <3>3. Begun(q)
      BY <3>1, <3>2 DEF Begun, PastBlock, PastIncoming, PastGroup
    <3> QED BY <2>1, <1>i, <3>1, <3>2, <3>3, Beginning DEF AcceptInviteCalled
  <2>2. CASE AcceptInviteMember(r)
    BY <2>2, <1>i, Advancing
       DEF AcceptInviteMember, Ats, Advanced, PastBlock, PastIncoming, PastGroup, At
  <2>3. CASE AcceptInviteWrite(r)
    <3>1. At(r, "acceptInvite", "write") /\ request[r] # Idle /\ request[r].op = "acceptInvite"
          /\ request[r].at = "write"
      BY <2>3 DEF AcceptInviteWrite, At
    <3>2. /\ Moves(r) /\ request'[r] \in Request /\ request'[r].op = request[r].op
          /\ request'[r].by = request[r].by /\ request'[r].whom = request[r].whom
          /\ request'[r].link = request[r].link
      BY <2>3, <1>i, <3>1, GroupStrings, MovingOn DEF AcceptInviteWrite
    <3> QED BY <3>1, <3>2 DEF GoesOnAs, Advanced, PastBlock, PastIncoming, PastGroup
  <2>4. CASE AcceptInviteIncrement(r)
    BY <2>4, <1>i, Ending DEF AcceptInviteIncrement
  <2> QED BY <1>7, <1>i, <2>1, <2>2, <2>3, <2>4, GroupCheckGoesOn, GroupStrings
          DEF AcceptInvite
<1> QED BY <1>1, <1>2, <1>3, <1>4, <1>5, <1>6, <1>7 DEF GroupsMethod

LEMMA StepGoesOn ==
    ASSUME CInv, NEW r \in Requests, StepOf(r)
    PROVE  GoesOnAs(r)
<1>1. CASE Fault(r)
  BY <1>1, Ending DEF Fault, CInv
<1> QED BY <1>1, ContactsGoOn, GroupsGoOn DEF StepOf

\* A step of the system is one of a request, or a link expires.
LEMMA StepsAre ==
    ASSUME CInv, [Next]_vars
    PROVE  \/ \E r \in Requests : StepOf(r) /\ GoesOnAs(r)
           \/ \E l \in Links : LinkExpires(l)
           \/ UNCHANGED vars
BY StepGoesOn DEF Next, StepOf

-----------------------------------------------------------------------------
(***************************************************************************)
(* What ties two users, and what lets somebody into the group               *)
(***************************************************************************)
\* The pair of users a request is about.
About(r, p) == \/ p = <<request[r].by, request[r].whom>>
               \/ p = <<request[r].whom, request[r].by>>

\* A request becomes PENDING in one way: its sender asks.
LEMMA PendingIsAsked ==
    ASSUME CInv, NEW r \in Requests, StepOf(r), NEW p \in Pairs,
           contactRequest[p].status # "PENDING", contactRequest'[p].status = "PENDING"
    PROVE  AddContactAsk(r) /\ p = <<request[r].by, request[r].whom>>
<1>r. contactRequest \in [Pairs -> ContactRequestRow]
  BY DEF CInv, TypeOK
<1>u. contactRequest' # contactRequest
  OBVIOUS
<1>1. ASSUME NEW status \in {"ACCEPTED", "DECLINED"}, NEW q, SetStatus(q, status)
      PROVE  FALSE
  <2>1. \A o \in Pairs : [contactRequest[o] EXCEPT !.status = status].status = status
    BY <1>r DEF ContactRequestRow
  <2> QED BY <1>1, <1>r, <2>1 DEF SetStatus
<1>2. ASSUME NEW q, Delete(q)
      PROVE  FALSE
  BY <1>2, <1>r DEF Delete
<1>3. CASE AddContactAsk(r)
  <2> DEFINE a == <<request[r].by, request[r].whom>>
  <2>1. \A q \in Pairs : q # a => contactRequest'[q] = contactRequest[q]
    BY <1>3, <1>r DEF AddContactAsk, UpsertPending
  <2> QED BY <1>3, <2>1
<1>4. CASE ContactsMethod(r)
  <2>1. AcceptTx(r) \/ DeclineWrite(r) => FALSE
    BY <1>1, <1>u DEF AcceptTx, Befriend, DeclineWrite
  <2>2. CancelWrite(r) => FALSE
    BY <1>2, <1>u DEF CancelWrite
  <2> QED BY <1>3, <1>4, <1>u, <2>1, <2>2
        DEF ContactsMethod, Block, Unblock, UpdateContactPrivacy, RemoveContact, AddContact,
            AcceptRequest, AddContactCalled, AddContactBlock, AddContactExisting, AddContactAdd,
            AddContactIncoming, AddContactOutgoing, AcceptCalled, AcceptBetween,
            AcceptUnblocked, DeclineCalled, CancelCalled, DirectCalled, DirectBlock, DirectWrite,
            Check, tables, acquaintances
<1> QED BY <1>4, <1>u, GroupsKeepAcquaintances DEF StepOf, Fault, tables, acquaintances

\* Who writes into the tables of acquaintances: a request past the query for a
\* block, about its own pair; the setting EVERYONE, too, comes after that query.
LEMMA ContactsTie ==
    ASSUME CInv, NEW r \in Requests, ContactsMethod(r), request[r] # Idle, NEW p \in Pairs,
           TiesNew(p)
    PROVE  PastBlock(request[r]) /\ About(r, p)
<1>i. TypeOK /\ UNCHANGED groupMember
  BY ContactsApart DEF CInv, Apart, circle
<1>1. CASE contactRequest[p].status # "PENDING" /\ contactRequest'[p].status = "PENDING"
  BY <1>1, PendingIsAsked DEF StepOf, AddContactAsk, At, PastBlock, About
<1>2. CASE p \in contact' \ contact
  <2>1. CASE AddContactAdd(r)
    BY <1>2, <2>1 DEF AddContactAdd, At, PastBlock, About
  <2>2. CASE AcceptTx(r)
    <3>1. PastBlock(request[r])
      BY <2>2 DEF AcceptTx, Answering, At, PastBlock
    <3>2. p \in {Incoming(r), <<Incoming(r)[2], Incoming(r)[1]>>}
      BY <1>2, <2>2 DEF AcceptTx, Befriend
    <3> QED BY <3>1, <3>2 DEF About, Incoming
  <2> QED BY <1>2, <2>1, <2>2
          DEF ContactsMethod, Block, Unblock, UpdateContactPrivacy, RemoveContact, AddContact,
              AcceptRequest, AddContactCalled, AddContactBlock, AddContactExisting,
              AddContactIncoming, AddContactOutgoing, AddContactAsk, AcceptCalled, AcceptBetween,
              AcceptUnblocked, DeclineCalled, DeclineWrite, CancelCalled, CancelWrite,
              DirectCalled, DirectBlock, DirectWrite, Check, tables, acquaintances
<1>3. CASE {p[1], p[2]} \in conversation' \ conversation
  <2>1. DirectWrite(r)
    BY <1>3
       DEF ContactsMethod, Block, Unblock, UpdateContactPrivacy, RemoveContact, AddContact,
           AcceptRequest, AddContactCalled, AddContactBlock, AddContactExisting, AddContactAdd,
           AddContactIncoming, AddContactOutgoing, AddContactAsk, AcceptCalled, AcceptBetween,
           AcceptUnblocked, AcceptTx, DeclineCalled, DeclineWrite, CancelCalled, CancelWrite,
           DirectCalled, DirectBlock, Check, tables, acquaintances
  <2>2. {p[1], p[2]} = {request[r].by, request[r].whom} /\ p = <<p[1], p[2]>>
    BY <1>3, <2>1 DEF DirectWrite, Pairs
  <2> QED BY <2>1, <2>2 DEF DirectWrite, At, PastBlock, About
<1> QED BY <1>i, <1>1, <1>2, <1>3 DEF TiesNew

LEMMA GroupsTie ==
    ASSUME CInv, NEW r \in Requests, GroupsMethod(r), request[r] # Idle, NEW p \in Pairs,
           TiesNew(p)
    PROVE  PastBlock(request[r]) /\ About(r, p)
<1>1. UNCHANGED acquaintances
  BY GroupsKeepAcquaintances
<1>2. PICK q \in Requests : At(q, "addMember", "write") /\ request'[q] = Idle
                            /\ p = <<request[q].by, request[q].whom>>
  BY <1>1 DEF TiesNew, acquaintances
<1>3. q = r
  <2>1. Moves(r)
    BY GroupsGoOn DEF GoesOnAs
  <2> QED BY <1>2, <2>1 DEF Moves, At
<1> QED BY <1>2, <1>3 DEF At, PastBlock, About

-----------------------------------------------------------------------------
(***************************************************************************)
(* Blocks that stand, and requests in flight, in any workload               *)
(***************************************************************************)
Stood(r) ==
    request[r] # Idle =>
        /\ standing[r] \subseteq block
        /\ PastBlock(request[r]) =>
               ~BlockedWith(<<request[r].by, request[r].whom>>, standing[r])
\* No more requests are in flight than the workload has slots.
WithinSlots == workload \in Workloads /\ Cardinality(InFlight) <= workload.slots

WInv == /\ CInv /\ WithinSlots
        /\ \A r \in Requests : Stood(r)

LEMMA InFlightIsFinite == IsFiniteSet(InFlight) /\ Cardinality(InFlight) \in Nat
                          /\ IsFiniteSet(InFlight') /\ Cardinality(InFlight') \in Nat
BY SocialAssumption, FS_Subset, FS_CardinalityType DEF InFlight

LEMMA StandingStands ==
    ASSUME CInv, MCNext, NEW r \in Requests, Stood(r)
    PROVE  Stood(r)'
<1>1. standing'[r] = Standing(r)
  BY DEF MCNext
<1>2. CASE request'[r] = request[r]
  BY <1>1, <1>2 DEF Stood, Standing, BlockedWith
<1>3. ASSUME request'[r] # request[r]
      PROVE  GoesOnAs(r)
  <2>1. PICK q \in Requests : GoesOnAs(q)
    BY <1>3, StepsAre DEF MCNext, LinkExpires, vars
  <2>2. q = r
    BY <1>3, <2>1 DEF GoesOnAs, Moves
  <2> QED BY <2>1, <2>2
<1>4. ASSUME request[r] = Idle, Begun(request'[r]), UNCHANGED tables
      PROVE  Stood(r)'
  BY <1>1, <1>4, IdleIsNone DEF Stood, Standing, Begun, tables, people
<1>5. ASSUME request[r] # Idle, Advanced(request[r], request'[r])
      PROVE  Stood(r)'
  <2>1. request'[r] # Idle
    BY <1>5, IdleIsNone DEF Advanced
  <2>2. standing'[r] \subseteq standing[r] /\ standing'[r] \subseteq block'
    BY <1>1, <1>5, <2>1 DEF Standing
  <2>3. ASSUME PastBlock(request'[r])
        PROVE  ~BlockedWith(<<request[r].by, request[r].whom>>, standing[r])
    <3>1. CASE PastBlock(request[r])
      BY <1>5, <3>1 DEF Stood
    <3>2. CASE ~HasBlockInEitherDirection(request[r].by, request[r].whom)
      BY <1>5, <3>2 DEF Stood, BlockedWith, HasBlockInEitherDirection
    <3> QED BY <1>5, <2>3, <3>1, <3>2 DEF Advanced
  <2>4. request'[r].by = request[r].by /\ request'[r].whom = request[r].whom
    BY <1>5 DEF Advanced
  <2> QED BY <2>2, <2>3, <2>4 DEF Stood, BlockedWith
<1>6. request'[r] = Idle => Stood(r)'
  BY DEF Stood
<1> QED BY <1>2, <1>3, <1>4, <1>5, <1>6 DEF GoesOnAs

LEMMA SlotsKept ==
    ASSUME CInv, WithinSlots, MCNext
    PROVE  WithinSlots'
<1>1. workload' = workload /\ Within(workload)
  BY DEF MCNext
<1>2. CASE InFlight' \subseteq InFlight
  <2>1. Cardinality(InFlight') <= Cardinality(InFlight)
    BY <1>2, InFlightIsFinite, FS_Subset
  <2> QED BY <1>1, <2>1, InFlightIsFinite, WorkloadsAssumption DEF WithinSlots
<1>3. ASSUME NEW r \in InFlight' \ InFlight
      PROVE  WithinSlots'
  <2>1. Cardinality(InFlight) < workload.slots
    BY <1>1, <1>3 DEF Within
  <2>2. request'[r] # request[r] /\ r \in Requests
    BY <1>3 DEF InFlight
  <2>3. Moves(r)
    <3>1. PICK q \in Requests : Moves(q)
      BY <2>2, StepsAre DEF MCNext, LinkExpires, vars, GoesOnAs
    <3> QED BY <2>2, <3>1 DEF Moves
  <2>4. InFlight' \subseteq InFlight \cup {r}
    BY <2>2, <2>3 DEF InFlight, Moves
  <2>5. Cardinality(InFlight \cup {r}) = Cardinality(InFlight) + 1
    BY <1>3, InFlightIsFinite, FS_AddElement
  <2>6. Cardinality(InFlight') <= Cardinality(InFlight) + 1
    BY <2>4, <2>5, InFlightIsFinite, FS_AddElement, FS_Subset
  <2> QED BY <1>1, <2>1, <2>6, InFlightIsFinite, WorkloadsAssumption DEF WithinSlots
<1> QED BY <1>2, <1>3

LEMMA WInit == MCInit => WInv
<1> SUFFICES ASSUME MCInit PROVE WInv
  OBVIOUS
<1>1. CInv
  BY InitIsSound DEF MCInit
<1>2. InFlight = {}
  BY DEF MCInit, Init, InFlight
<1>3. WithinSlots
  BY <1>2, FS_EmptySet, WorkloadsAssumption DEF MCInit, WithinSlots
<1>4. \A r \in Requests : Stood(r)
  BY DEF MCInit, Init, Stood
<1> QED BY <1>1, <1>3, <1>4 DEF WInv

LEMMA WNext == WInv /\ [MCNext]_mcvars => WInv'
<1> SUFFICES ASSUME WInv, [MCNext]_mcvars PROVE WInv'
  OBVIOUS
<1>1. CInv'
  BY NextIsSound DEF WInv, MCNext, mcvars
<1>2. CASE MCNext
  BY <1>1, <1>2, StandingStands, SlotsKept DEF WInv
<1>3. CASE UNCHANGED mcvars
  BY <1>1, <1>3 DEF WInv, mcvars, history, vars, tables, people, WithinSlots, InFlight, Stood, BlockedWith
<1> QED BY <1>2, <1>3

\* No more requests are in flight than a workload has slots, and what a request past its
\* check for blocks ties is tied by no block that stood all along (blocks.service.ts).
THEOREM WorkloadsAreSound == MCSpec => []WInv
BY WInit, WNext, PTL DEF MCSpec

LEMMA TiesRespectBlocks ==
    ASSUME WInv, MCNext, NEW r \in Requests, request'[r] # request[r], request[r] # Idle
    PROVE  Respected(r)
<1> SUFFICES ASSUME NEW p \in Pairs, TiesNew(p)
             PROVE  ~BlockedWith(p, standing[r])
  BY DEF Respected
<1>1. PICK q \in Requests : StepOf(q) /\ GoesOnAs(q)
  BY StepsAre DEF WInv, MCNext, LinkExpires, vars
<1>2. q = r
  BY <1>1 DEF GoesOnAs, Moves
<1>3. CASE ContactsMethod(r) \/ GroupsMethod(r)
  <2>1. PastBlock(request[r]) /\ About(r, p)
    BY <1>3, ContactsTie, GroupsTie DEF WInv
  <2>2. ~BlockedWith(<<request[r].by, request[r].whom>>, standing[r])
    BY <2>1 DEF WInv, Stood
  <2> QED BY <2>1, <2>2 DEF About, BlockedWith
<1>4. CASE Fault(r)
  BY <1>4 DEF Fault, TiesNew, tables, acquaintances, circle
<1> QED BY <1>1, <1>2, <1>3, <1>4 DEF StepOf

\* A block in either direction that stands from the first query of a request to its last
\* lets it make no direct conversation, contact, request or member, in any interleaving.
THEOREM BlocksPreventTies == MCSpec => BlocksRespected
<1> DEFINE Kept == \A r \in Requests : request'[r] # request[r] /\ request[r] # Idle => Respected(r)
<1>1. WInv /\ [MCNext]_mcvars => [Kept]_vars
  BY TiesRespectBlocks DEF mcvars
<1> QED BY <1>1, WInit, WNext, PTL DEF MCSpec, BlocksRespected

-----------------------------------------------------------------------------
(***************************************************************************)
(* Who has asked, and what an acceptance answers                            *)
(***************************************************************************)
\* A row there is has an id, and whoever has one has asked.
RowsAreAsked ==
    \A p \in Pairs : /\ contactRequest[p].status # "NONE" => contactRequest[p].id # NoId
                     /\ contactRequest[p].id # NoId => p \in asked
\* An answer or a withdrawal that has read a row holds its id.
HoldsRow(q) == \/ q.op \in {"accept", "addContact"} /\ q.at \in {"unblocked", "tx"}
               \/ q.op \in {"decline", "cancel"}
Knowing(q) == /\ HoldsRow(q) => q.id # NoId
              /\ q.op = "addContact" /\ q.at = "add" => q.seen = "EVERYONE"
Holds(r) == request[r] # Idle => Knowing(request[r])
AInv == /\ CInv /\ RowsAreAsked
        /\ \A r \in Requests : Holds(r)

\* The steps that write a contact request.
LEMMA RowWriters ==
    ASSUME NEW r \in Requests, StepOf(r), contactRequest' # contactRequest
    PROVE  AddContactAsk(r) \/ AcceptTx(r) \/ DeclineWrite(r) \/ CancelWrite(r)
BY GroupsKeepAcquaintances
   DEF StepOf, Fault, ContactsMethod, Block, Unblock, UpdateContactPrivacy, RemoveContact,
       AddContact, AddContactCalled, AddContactBlock, AddContactExisting, AddContactAdd,
       AddContactIncoming, AddContactOutgoing, AcceptRequest, AcceptCalled, AcceptBetween,
       AcceptUnblocked, DeclineCalled, CancelCalled, DirectCalled, DirectBlock, DirectWrite,
       Check, tables, acquaintances

\* The steps that add a contact.
LEMMA ContactWriters ==
    ASSUME NEW r \in Requests, StepOf(r), NEW p \in contact' \ contact
    PROVE  AddContactAdd(r) \/ AcceptTx(r)
BY GroupsKeepAcquaintances
   DEF StepOf, Fault, ContactsMethod, Block, Unblock, UpdateContactPrivacy, RemoveContact,
       AddContact, AddContactCalled, AddContactBlock, AddContactExisting, AddContactAsk,
       AddContactIncoming, AddContactOutgoing, AcceptRequest, AcceptCalled, AcceptBetween,
       AcceptUnblocked, DeclineCalled, DeclineWrite, CancelCalled, CancelWrite,
       DirectCalled, DirectBlock, DirectWrite, Check, tables, acquaintances

LEMMA OnlyItWrites ==
    ASSUME NEW r \in Requests, GoesOnAs(r), NEW op, NEW at, NEW p \in Writing(op, at)
    PROVE  At(r, op, at) /\ p = <<request[r].by, request[r].whom>>
BY DEF Writing, GoesOnAs, Moves

\* A row is marked only by those who hold its id.
LEMMA MarkKeepsRows ==
    ASSUME AInv, NEW p \in Pairs, NEW status, NEW id, id # NoId, SameRow(p, id),
           SetStatus(p, status), asked' = asked
    PROVE  RowsAreAsked'
<1>1. contactRequest \in [Pairs -> ContactRequestRow]
  BY DEF AInv, CInv, TypeOK
<1> DEFINE new == [contactRequest[p] EXCEPT !.status = status]
<1>2. new.id = contactRequest[p].id
  BY <1>1 DEF ContactRequestRow
<1>3. contactRequest'[p] = new /\ \A q \in Pairs : q # p => contactRequest'[q] = contactRequest[q]
  BY <1>1 DEF SetStatus
<1> HIDE DEF new
<1> QED BY <1>2, <1>3 DEF AInv, RowsAreAsked, SameRow

LEMMA AskKeepsRows ==
    ASSUME AInv, NEW r \in Requests, AddContactAsk(r), GoesOnAs(r), asked' = Asked
    PROVE  RowsAreAsked'
<1>1. contactRequest \in [Pairs -> ContactRequestRow]
  BY DEF AInv, CInv, TypeOK
<1>2. "addContact" \in Ops \ GroupOps
  BY DEF Ops, GroupOps
<1>3. PICK p \in Pairs : p = <<request[r].by, request[r].whom>>
  BY <1>2, AboutPair DEF AddContactAsk, AInv
<1>4. PICK id \in Ids : id = FreshId
  BY FreshIdIsAnId
<1> DEFINE fresh == [id |-> id, status |-> "PENDING"]
           again == [contactRequest[p] EXCEPT !.status = "PENDING"]
<1>5. contactRequest' = [contactRequest EXCEPT ![p] =
                            IF @.status = "NONE" THEN fresh ELSE again]
  BY <1>3, <1>4 DEF AddContactAsk, UpsertPending
<1>6. fresh.id # NoId /\ again.id = contactRequest[p].id
  BY <1>1, <1>4, SocialAssumption DEF ContactRequestRow
<1> HIDE DEF fresh, again
<1>7. contactRequest'[p].id # NoId
  <2>1. contactRequest'[p] = IF contactRequest[p].status = "NONE" THEN fresh ELSE again
    BY <1>1, <1>5
  <2>2. contactRequest[p].status # "NONE" => contactRequest[p].id # NoId
    BY DEF AInv, RowsAreAsked
  <2> QED BY <1>6, <2>1, <2>2
<1>8. \A q \in Pairs : q # p => contactRequest'[q] = contactRequest[q]
  BY <1>1, <1>5
<1>9. Writing("cancel", "write") = {}
  BY OnlyItWrites DEF AddContactAsk, At
<1>10. p \in asked' /\ asked \subseteq asked'
  <2>1. CASE contactRequest' = contactRequest
    BY <1>7, <1>9, <2>1 DEF Asked, AInv, RowsAreAsked
  <2>2. CASE contactRequest' # contactRequest
    <3>1. request'[r] # request[r]
      BY Ending DEF AddContactAsk, At, AInv, CInv
    <3>2. p \in Writing("addContact", "ask")
      BY <1>3, <2>2, <3>1 DEF Writing, AddContactAsk
    <3> QED BY <1>9, <3>2 DEF Asked
  <2> QED BY <2>1, <2>2
<1> QED BY <1>7, <1>8, <1>10 DEF AInv, RowsAreAsked

LEMMA CancelKeepsRows ==
    ASSUME AInv, NEW r \in Requests, CancelWrite(r), GoesOnAs(r), asked' = Asked
    PROVE  RowsAreAsked'
<1>1. contactRequest \in [Pairs -> ContactRequestRow]
  BY DEF AInv, CInv, TypeOK
<1>2. "cancel" \in Ops \ GroupOps
  BY DEF Ops, GroupOps
<1>3. PICK p \in Pairs : p = <<request[r].by, request[r].whom>>
  BY <1>2, AboutPair DEF CancelWrite, AInv
<1>4. CASE Delete(p)
  <2>1. contactRequest'[p].id = NoId /\ contactRequest'[p].status = "NONE"
    BY <1>1, <1>4 DEF Delete
  <2>2. \A q \in Pairs : q # p => contactRequest'[q] = contactRequest[q]
    BY <1>1, <1>4 DEF Delete
  <2>3. \A q \in Pairs : q # p /\ q \in asked => q \in asked'
    BY <1>3, OnlyItWrites DEF Asked
  <2> QED BY <2>1, <2>2, <2>3 DEF AInv, RowsAreAsked
<1>5. CASE UNCHANGED contactRequest
  BY <1>5 DEF AInv, RowsAreAsked, Asked, Writing
<1> QED BY <1>3, <1>4, <1>5 DEF CancelWrite

LEMMA RowsKept ==
    ASSUME AInv, NEW r \in Requests, StepOf(r), GoesOnAs(r), asked' = Asked
    PROVE  RowsAreAsked'
<1>1. CASE UNCHANGED contactRequest
  BY <1>1 DEF AInv, RowsAreAsked, Asked, Writing
<1>2. ASSUME AcceptTx(r) \/ DeclineWrite(r), contactRequest' # contactRequest
      PROVE  RowsAreAsked'
  <2>o. \A op \in {"accept", "addContact", "decline"} : op \in Ops \ GroupOps
    BY DEF Ops, GroupOps
  <2>1. Incoming(r) \in Pairs
    BY <1>2, <2>o, AboutPair DEF AcceptTx, DeclineWrite, Answering, AInv
  <2>2. request[r].id # NoId
    BY <1>2 DEF AcceptTx, DeclineWrite, Answering, At, AInv, Holds, Knowing, HoldsRow
  <2>3. PICK status : SameRow(Incoming(r), request[r].id) /\ SetStatus(Incoming(r), status)
    BY <1>2 DEF AcceptTx, DeclineWrite, Befriend
  <2>4. asked' = asked
    BY <1>2, OnlyItWrites DEF Asked, AcceptTx, DeclineWrite, Answering, At
  <2> QED BY <2>1, <2>2, <2>3, <2>4, MarkKeepsRows
<1> QED BY <1>1, <1>2, RowWriters, AskKeepsRows, CancelKeepsRows

\* The methods of the group hold no row of Contacts.
LEMMA GroupsHoldNothing ==
    ASSUME CInv, NEW r \in Requests, GroupsMethod(r), GoesOnAs(r)
    PROVE  Holds(r)'
<1> DEFINE Own(q) == q = Idle \/ q.op \in GroupOps
<1>1. Own(request'[r]) => Holds(r)'
  BY DEF Holds, Knowing, HoldsRow, GroupOps
<1>2. CASE request[r] # Idle
  <2>1. request[r].op \in GroupOps
    BY <1>2
       DEF GroupsMethod, CreateGroup, AtOnce, AddGroupMember, AddGroupMemberBlock,
           AddGroupMemberWrite, RemoveGroupMember, RemoveGroupMemberTarget, LeftGroup, LeaveGroup,
           LeaveGroupCalled, LeaveGroupCount, ArchiveGroup, ArchiveGroupWrite, CreateInvite,
           CreateInviteInsert, RevokeInviteCalled, RevokeInviteWrite, AcceptInvite,
           AcceptInviteCalled, AcceptInviteMember, AcceptInviteWrite, AcceptInviteIncrement,
           CalledByOwner, CheckGroup, Accepted, At, GroupOps
  <2> QED BY <1>1, <1>2, <2>1 DEF GoesOnAs, Advanced
<1>3. ASSUME request[r] = Idle, NEW op \in GroupOps, NEW call \in Request, call.op = op,
             Accepted(r, call)
      PROVE  Holds(r)'
  <2>1. request'[r] = call
    BY <1>3, Accepting DEF CInv
  <2> QED BY <1>1, <1>3, <2>1
<1>4. ASSUME request[r] = Idle, NEW op \in GroupOps, NEW at \in Ats, CalledByOwner(r, op, at)
      PROVE  Holds(r)'
  <2>1. PICK u \in Users, whom \in Users : Accepted(r, Call(op, at, u, whom))
    BY <1>4 DEF CalledByOwner, GroupOwners
  <2>2. Call(op, at, u, whom) \in Request /\ Call(op, at, u, whom).op = op
    BY CallIsRequest DEF Ops, GroupOps
  <2> QED BY <1>3, <1>4, <2>1, <2>2
<1>o. /\ {"addMember", "removeMember", "leave", "archive", "createInvite", "revokeInvite",
          "acceptInvite"} = GroupOps /\ GroupOps \subseteq Ops
      /\ {"group", "write", "count"} \subseteq Ats
  BY DEF GroupOps, Ops, Ats
<1>5. CASE request[r] = Idle /\ LeaveGroupCalled(r)
  <2>1. PICK u \in Users, at \in {"count", "write"} : Accepted(r, Call("leave", at, u, u))
    BY <1>5 DEF LeaveGroupCalled
  <2>2. "leave" \in Ops /\ at \in Ats
    BY DEF Ops, Ats
  <2>3. Call("leave", at, u, u) \in Request /\ Call("leave", at, u, u).op = "leave"
    BY <2>2, CallIsRequest
  <2> QED BY <1>3, <1>5, <1>o, <2>1, <2>3
<1>6. CASE request[r] = Idle /\ (RevokeInviteCalled(r) \/ AcceptInviteCalled(r))
  <2>1. PICK op \in {"revokeInvite", "acceptInvite"}, at \in {"write", "group"}, u \in Users,
             l \in Links : Accepted(r, [Call(op, at, u, u) EXCEPT !.link = l])
    BY <1>6 DEF RevokeInviteCalled, AcceptInviteCalled, GroupOwners
  <2> DEFINE q == [Call(op, at, u, u) EXCEPT !.link = l]
  <2>2. q \in Request /\ q.op = op
    BY DEF Call, Request, Privacy
  <2> QED BY <1>3, <1>6, <1>o, <2>1, <2>2
<1>7. CASE request[r] = Idle /\ CreateGroup(r)
  BY <1>1, <1>7 DEF CreateGroup, AtOnce
<1> QED BY <1>2, <1>4, <1>5, <1>6, <1>7, <1>o
        DEF GroupsMethod, AddGroupMember, AddGroupMemberBlock, AddGroupMemberWrite,
            RemoveGroupMember, RemoveGroupMemberTarget, LeftGroup, LeaveGroup, LeaveGroupCount,
            ArchiveGroup, ArchiveGroupWrite, CreateInvite, CreateInviteInsert, RevokeInviteWrite,
            AcceptInvite, AcceptInviteMember, AcceptInviteWrite, AcceptInviteIncrement,
            CheckGroup, At

LEMMA CheckHolds ==
    ASSUME AInv, NEW r \in Requests, NEW op \in Ops, NEW at, At(r, op, at), NEW next \in Ats,
           NEW passed, Check(r, passed, next),
           op \notin {"decline", "cancel"}, next # "unblocked", next = "tx" => at = "unblocked",
           next = "add" => request[r].seen = "EVERYONE"
    PROVE  Holds(r)'
<1>1. TypeOK /\ request[r] # Idle /\ request[r].op = op /\ request[r].at = at
  BY DEF AInv, CInv, At
<1>2. \/ request'[r] = Idle
      \/ request'[r].at = next /\ request'[r].op = op
         /\ request'[r].id = request[r].id /\ request'[r].seen = request[r].seen
  BY <1>1, Checking
<1> QED BY <1>1, <1>2 DEF Holds, Knowing, HoldsRow, AInv

LEMMA ContactsHold ==
    ASSUME AInv, NEW r \in Requests, ContactsMethod(r)
    PROVE  Holds(r)'
<1>i. TypeOK /\ {"addContact", "accept", "decline", "cancel", "direct"} \subseteq Ops
  BY DEF AInv, CInv, Ops
<1>a. {"existing", "add", "incoming", "between", "outgoing", "ask", "write", "tx"} \subseteq Ats
  BY DEF Ats
<1>1. ASSUME Finish(r) \/ AtOnce(r)
      PROVE  Holds(r)'
  BY <1>1, <1>i, Ending DEF Holds
<1>2. ASSUME NEW call \in Request, Accepted(r, call), Knowing(call)
      PROVE  Holds(r)'
  <2>1. request'[r] = call
    BY <1>2, <1>i, Accepting
  <2> QED BY <1>2, <2>1 DEF Holds
<1>3. CASE AddContactCalled(r)
  <2>1. PICK p \in Pairs : Accepted(r, [Call("addContact", "block", p[1], p[2])
                                          EXCEPT !.seen = privacy[p[2]]])
    BY <1>3 DEF AddContactCalled
  <2> DEFINE q == [Call("addContact", "block", p[1], p[2]) EXCEPT !.seen = privacy[p[2]]]
  <2>2. p[1] \in Users /\ p[2] \in Users /\ privacy[p[2]] \in Privacy
    BY <1>i DEF Pairs, TypeOK
  <2>3. q \in Request /\ Knowing(q)
    BY <2>2 DEF Call, Request, Knowing, HoldsRow
  <2> HIDE DEF q
  <2> QED BY <1>2, <2>1, <2>3 DEF q
<1>4. CASE AcceptCalled(r) \/ DirectCalled(r)
  <2>1. PICK p \in Pairs : \E q \in {Call("accept", "between", p[2], p[1]),
                                     Call("direct", "block", p[1], p[2])} : Accepted(r, q)
    BY <1>4 DEF AcceptCalled, DirectCalled
  <2>a. PICK q \in {Call("accept", "between", p[2], p[1]),
                    Call("direct", "block", p[1], p[2])} : Accepted(r, q)
    BY <2>1
  <2>2. q \in Request /\ Knowing(q)
    BY DEF Call, Request, Pairs, Privacy, Knowing, HoldsRow
  <2> QED BY <1>2, <2>a, <2>2
<1>5. CASE DeclineCalled(r) \/ CancelCalled(r)
  <2>a. PICK p \in Pairs : /\ contactRequest[p].status = "PENDING"
                           /\ \E q \in {Call("decline", "write", p[2], p[1]),
                                        Call("cancel", "write", p[1], p[2])} :
                                  Accepted(r, [q EXCEPT !.id = contactRequest[p].id])
    BY <1>5, PairOf DEF DeclineCalled, CancelCalled, Status
  <2>b. contactRequest[p] \in ContactRequestRow /\ contactRequest[p].id # NoId
    BY <1>i, <2>a DEF TypeOK, AInv, RowsAreAsked
  <2>1. PICK q \in {Call("decline", "write", p[2], p[1]), Call("cancel", "write", p[1], p[2])} :
            Accepted(r, [q EXCEPT !.id = contactRequest[p].id])
    BY <2>a
  <2> DEFINE call == [q EXCEPT !.id = contactRequest[p].id]
  <2>2. contactRequest[p].id \in Ids /\ contactRequest[p].id # NoId
    BY <2>b DEF ContactRequestRow
  <2>3. q \in Request
    BY DEF Call, Request, Pairs, Privacy
  <2>4. call \in Request /\ call.id = contactRequest[p].id /\ call.op = q.op
    BY <2>2, <2>3 DEF Request
  <2>5. q.op # "addContact"
    BY DEF Call
  <2> HIDE DEF call
  <2> QED BY <1>2, <2>1, <2>2, <2>4, <2>5 DEF call, Knowing
<1>6. CASE AcceptBetween(r)
  <2>1. PICK op \in {"accept", "addContact"} : At(r, op, "between")
    BY <1>6 DEF AcceptBetween, Answering
  <2>2. request[r] \in Request /\ Incoming(r) \in Pairs
    BY <1>i, <2>1, AtMeans, AboutPair DEF AInv, Ops, GroupOps
  <2> DEFINE q == [request[r] EXCEPT !.at = "unblocked", !.id = contactRequest[Incoming(r)].id]
  <2>3. q.id = contactRequest[Incoming(r)].id /\ q.at = "unblocked"
    BY <2>2 DEF Request
  <2>4. \/ request'[r] = Idle
        \/ request'[r] = q /\ contactRequest[Incoming(r)].status # "NONE"
    BY <1>6, <1>i DEF AcceptBetween, TypeOK
  <2>5. contactRequest[Incoming(r)].status # "NONE" => q.id # NoId
    BY <2>2, <2>3 DEF AInv, RowsAreAsked
  <2> HIDE DEF q
  <2> QED BY <2>3, <2>4, <2>5 DEF Holds, Knowing
<1>7. CASE AcceptUnblocked(r)
  <2>1. PICK op \in {"accept", "addContact"} : At(r, op, "unblocked")
    BY <1>7 DEF AcceptUnblocked, Answering
  <2> QED BY <1>7, <1>i, <1>a, <2>1, CheckHolds DEF AcceptUnblocked
<1>8. AddContactBlock(r) => Holds(r)'
  BY <1>i, <1>a, CheckHolds DEF AddContactBlock
<1>9. CASE AddContactExisting(r)
  <2> DEFINE next == IF request[r].seen = "EVERYONE" THEN "add" ELSE "incoming"
  <2>1. /\ next \in Ats /\ next \notin {"unblocked", "tx"}
        /\ next = "add" => request[r].seen = "EVERYONE"
    BY <1>a
  <2>2. /\ At(r, "addContact", "existing")
        /\ Check(r, <<request[r].by, request[r].whom>> \notin contact, next)
    BY <1>9 DEF AddContactExisting
  <2> HIDE DEF next
  <2> QED BY <1>i, <2>1, <2>2, CheckHolds
<1>10. CASE AddContactIncoming(r)
  <2> DEFINE next == IF Status(request[r].whom, request[r].by) = "PENDING"
                     THEN "between" ELSE "outgoing"
  <2>1. next \in Ats /\ next \notin {"unblocked", "tx", "add"}
    BY <1>a
  <2>2. At(r, "addContact", "incoming") /\ Check(r, TRUE, next)
    BY <1>10 DEF AddContactIncoming
  <2> HIDE DEF next
  <2> QED BY <1>i, <2>1, <2>2, CheckHolds
<1>11. AddContactOutgoing(r) \/ DirectBlock(r) => Holds(r)'
  BY <1>i, <1>a, CheckHolds DEF AddContactOutgoing, DirectBlock
<1> QED BY <1>1, <1>3, <1>4, <1>5, <1>6, <1>7, <1>8, <1>9, <1>10, <1>11
        DEF ContactsMethod, Block, Unblock, UpdateContactPrivacy, AddContact, AddContactAdd,
            AddContactAsk, AcceptRequest, AcceptTx, DeclineWrite, CancelWrite, RemoveContact,
            DirectWrite

LEMMA AskInit == MCInit => AInv
<1> SUFFICES ASSUME MCInit PROVE AInv
  OBVIOUS
<1>1. CInv
  BY InitIsSound DEF MCInit
<1> QED BY <1>1 DEF AInv, RowsAreAsked, Holds, MCInit, Init

LEMMA AskNext == AInv /\ [MCNext]_mcvars => AInv'
<1> SUFFICES ASSUME AInv, [MCNext]_mcvars PROVE AInv'
  OBVIOUS
<1>1. CInv'
  BY NextIsSound DEF AInv, MCNext, mcvars
<1>2. ASSUME NEW r \in Requests, StepOf(r), GoesOnAs(r), MCNext
      PROVE  AInv'
  <2>1. RowsAreAsked'
    BY <1>2, RowsKept DEF MCNext
  <2>2. Holds(r)'
    <3>1. CASE Fault(r)
      BY <3>1, Ending DEF Fault, Holds, AInv, CInv
    <3> QED BY <1>2, <3>1, ContactsHold, GroupsHoldNothing DEF StepOf, AInv
  <2>3. \A q \in Requests \ {r} : Holds(q)'
    BY <1>2 DEF GoesOnAs, Moves, AInv, Holds
  <2> QED BY <1>1, <2>1, <2>2, <2>3 DEF AInv
<1>3. ASSUME NEW l \in Links, LinkExpires(l), MCNext
      PROVE  AInv'
  BY <1>1, <1>3 DEF AInv, RowsAreAsked, Holds, LinkExpires, acquaintances, MCNext, Asked, Writing
<1>4. CASE UNCHANGED <<vars, asked>>
  BY <1>1, <1>4 DEF AInv, RowsAreAsked, Holds, vars, tables, acquaintances
<1>5. CASE MCNext
  BY <1>2, <1>3, <1>5, StepGoesOn DEF MCNext, Next, StepOf, AInv
<1> QED BY <1>4, <1>5 DEF mcvars, history

LEMMA StepsAreWanted ==
    ASSUME AInv, NEW r \in Requests, StepOf(r), NEW p \in contact' \ contact
    PROVE  Wanted(p)
<1>1. CASE AcceptTx(r)
  <2>1. SameRow(Incoming(r), request[r].id)
        /\ p \in {Incoming(r), <<Incoming(r)[2], Incoming(r)[1]>>}
    BY <1>1 DEF AcceptTx, Befriend
  <2>2. request[r].id # NoId
    BY <1>1 DEF AcceptTx, Answering, At, AInv, Holds, Knowing, HoldsRow
  <2>3. Incoming(r) \in Pairs
    <3>1. \A op \in {"accept", "addContact"} : op \in Ops \ GroupOps
      BY DEF Ops, GroupOps
    <3> QED BY <1>1, <3>1, AboutPair DEF AcceptTx, Answering, AInv
  <2>4. Incoming(r) \in asked
    BY <2>1, <2>2, <2>3 DEF SameRow, AInv, RowsAreAsked
  <2> QED BY <2>1, <2>4 DEF Wanted, Incoming
<1>2. CASE AddContactAdd(r)
  <2>1. p = <<request[r].by, request[r].whom>>
    BY <1>2 DEF AddContactAdd
  <2> QED BY <1>2, <2>1 
          DEF Wanted, Adding, AddContactAdd, At, AInv, Holds, Knowing
<1> QED BY <1>1, <1>2, ContactWriters

\* Nobody becomes the contact of another unless one of them wants it when the row is
\* written: a request withdrawn at any point of its acceptance makes no contact.
THEOREM ContactsWanted == MCSpec => ContactsAreWanted
<1> DEFINE New == \A p \in contact' \ contact : Wanted(p)
<1>1. AInv /\ [MCNext]_mcvars => [New]_mcvars
  <2> SUFFICES ASSUME AInv, MCNext, NEW p \in contact' \ contact
               PROVE  Wanted(p)
    BY DEF mcvars
  <2> QED BY StepsAreWanted DEF MCNext, Next, StepOf, LinkExpires, acquaintances
<1> QED BY <1>1, AskInit, AskNext, PTL DEF MCSpec, ContactsAreWanted

-----------------------------------------------------------------------------
(***************************************************************************)
(* One request at a time                                                    *)
(***************************************************************************)
\* What a request knows of the row of the other's request, and of the group, while it
\* is the only one.
KnowsAlone(r) ==
    request[r] # Idle =>
        /\ PastIncoming(request[r]) => Status(request[r].whom, request[r].by) # "PENDING"
        /\ PastGroup(request[r]) => group = "active"
SerialInv == WInv /\ (Serial => NoCrossedRequests /\ \A r \in Requests : KnowsAlone(r))

LEMMA Alone ==
    ASSUME WithinSlots, Serial, NEW r \in Requests, request[r] # Idle,
           NEW q \in Requests, request[q] # Idle
    PROVE  q = r
<1>1. Cardinality(InFlight) <= 1 /\ r \in InFlight /\ q \in InFlight
  BY DEF WithinSlots, Serial, InFlight
<1>2. Cardinality({r}) = 1 /\ IsFiniteSet({r})
  BY FS_Singleton
<1>3. {r} = InFlight
  BY <1>1, <1>2, InFlightIsFinite, FS_Subset
<1> QED BY <1>1, <1>3

\* Rows of requests, and the group, are only written by a request that then ends, or
\* by the creation of the group.
LEMMA WritersEnd ==
    ASSUME CInv, NEW r \in Requests, StepOf(r), request[r] # Idle, request'[r] # Idle
    PROVE  UNCHANGED <<contactRequest, group>>
<1>1. ~Finish(r) /\ ~AtOnce(r)
  BY Finishing DEF CInv, AtOnce
<1>2. ~Fault(r)
  BY <1>1 DEF Fault
<1>3. CASE ContactsMethod(r)
  BY <1>1, <1>3
     DEF ContactsMethod, Block, Unblock, UpdateContactPrivacy, RemoveContact, AddContact,
         AddContactCalled, AddContactBlock, AddContactExisting, AddContactAdd, AddContactIncoming,
         AddContactOutgoing, AddContactAsk, AcceptRequest, AcceptCalled, AcceptBetween,
         AcceptUnblocked, AcceptTx, DeclineCalled, DeclineWrite, CancelCalled, CancelWrite,
         DirectCalled, DirectBlock, DirectWrite, Check, tables, acquaintances, circle
<1>4. CASE GroupsMethod(r)
  BY <1>1, <1>4
     DEF GroupsMethod, CreateGroup, AddGroupMember, RemoveGroupMember, CalledByOwner, CheckGroup,
         Check, AddGroupMemberBlock, AddGroupMemberWrite, RemoveGroupMemberTarget, LeftGroup,
         LeaveGroup, LeaveGroupCalled, LeaveGroupCount, ArchiveGroup, ArchiveGroupWrite,
         CreateInvite, CreateInviteInsert, RevokeInviteCalled, RevokeInviteWrite,
         AcceptInvite, AcceptInviteCalled, AcceptInviteMember, AcceptInviteWrite,
         AcceptInviteIncrement, tables, acquaintances, circle
<1> QED BY <1>2, <1>3, <1>4 DEF StepOf

\* A method of one query that runs beside a request.
LEMMA AtOnceKeepsRows ==
    ASSUME CInv, NEW r \in Requests, StepOf(r), request[r] = Idle
    PROVE  UNCHANGED contactRequest /\ (group # "none" => UNCHANGED group)
<1>1. \A op, at : ~At(r, op, at)
  BY DEF At
<1>2. CASE ContactsMethod(r)
  BY <1>1, <1>2
     DEF ContactsMethod, Block, Unblock, UpdateContactPrivacy, RemoveContact, AddContact,
         AddContactCalled, AddContactBlock, AddContactExisting, AddContactAdd, AddContactIncoming,
         AddContactOutgoing, AddContactAsk, AcceptRequest, AcceptCalled, AcceptBetween,
         AcceptUnblocked, AcceptTx, DeclineCalled, DeclineWrite, CancelCalled, CancelWrite,
         DirectCalled, DirectBlock, DirectWrite, Check, Answering, tables, acquaintances, circle
<1>3. CASE GroupsMethod(r)
  BY <1>1, <1>3
     DEF GroupsMethod, CreateGroup, AddGroupMember, RemoveGroupMember, CalledByOwner, CheckGroup,
         Check, AddGroupMemberBlock, AddGroupMemberWrite, RemoveGroupMemberTarget, LeftGroup,
         LeaveGroup, LeaveGroupCalled, LeaveGroupCount, ArchiveGroup, ArchiveGroupWrite,
         CreateInvite, CreateInviteInsert, RevokeInviteCalled, RevokeInviteWrite,
         AcceptInvite, AcceptInviteCalled, AcceptInviteMember, AcceptInviteWrite,
         AcceptInviteIncrement, tables, acquaintances, circle
<1>4. ~Fault(r)
  BY DEF Fault
<1> QED BY <1>2, <1>3, <1>4 DEF StepOf

LEMMA KnowsAloneKept ==
    ASSUME CInv, WithinSlots, Serial, Next, NEW r \in Requests, KnowsAlone(r)
    PROVE  KnowsAlone(r)'
<1>1. CASE \E l \in Links : LinkExpires(l)
  BY <1>1 DEF LinkExpires, acquaintances, KnowsAlone, Status
<1>2. ASSUME NEW q \in Requests, StepOf(q), GoesOnAs(q)
      PROVE  KnowsAlone(r)'
  <2>1. CASE q = r
    <3>1. CASE request[r] = Idle /\ Begun(request'[r])
      BY <3>1 DEF KnowsAlone, Begun
    <3>2. CASE request[r] # Idle /\ Advanced(request[r], request'[r])
      <4>1. request'[r] # Idle
        BY <3>2, IdleIsNone DEF Advanced
      <4>2. UNCHANGED <<contactRequest, group>>
        BY <1>2, <2>1, <3>2, <4>1, WritersEnd
      <4> QED BY <3>2, <4>2 DEF KnowsAlone, Advanced, Status
    <3>3. CASE request'[r] = Idle
      BY <3>3 DEF KnowsAlone
    <3> QED BY <1>2, <2>1, <3>1, <3>2, <3>3 DEF GoesOnAs
  <2>2. CASE q # r /\ request[r] # Idle
    <3>1. request[q] = Idle /\ request'[r] = request[r]
      BY <1>2, <2>2, Alone DEF GoesOnAs, Moves
    <3>2. UNCHANGED contactRequest /\ (group # "none" => UNCHANGED group)
      BY <1>2, <3>1, AtOnceKeepsRows
    <3> QED BY <2>2, <3>1, <3>2 DEF KnowsAlone, Status
  <2>3. CASE q # r /\ request[r] = Idle
    BY <1>2, <2>3 DEF GoesOnAs, Moves, KnowsAlone
  <2> QED BY <2>1, <2>2, <2>3
<1> QED BY <1>1, <1>2, StepGoesOn DEF Next, StepOf

LEMMA UncrossedKept ==
    ASSUME CInv, Next, NoCrossedRequests, \A r \in Requests : KnowsAlone(r)
    PROVE  NoCrossedRequests'
<1> DEFINE New(p) == contactRequest[p].status # "PENDING" /\ contactRequest'[p].status = "PENDING"
<1>1. ASSUME NEW p \in Pairs, New(p)
      PROVE  contactRequest'[<<p[2], p[1]>>].status # "PENDING"
  <2>1. PICK r \in Requests : StepOf(r)
    BY <1>1 DEF Next, StepOf, LinkExpires, acquaintances
  <2>2. AddContactAsk(r) /\ p = <<request[r].by, request[r].whom>>
    BY <1>1, <2>1, PendingIsAsked
  <2>3. contactRequest[<<p[2], p[1]>>].status # "PENDING"
    BY <2>2 DEF KnowsAlone, AddContactAsk, At, PastIncoming, Status
  <2>4. <<p[2], p[1]>> \in Pairs /\ <<p[2], p[1]>> # p
    BY DEF Pairs
  <2> QED BY <2>1, <2>2, <2>3, <2>4, PendingIsAsked
<1>2. ASSUME NEW p \in Pairs, Status(p[1], p[2])' = "PENDING", Status(p[2], p[1])' = "PENDING"
      PROVE  FALSE
  <2>1. p = <<p[1], p[2]>> /\ <<p[2], p[1]>> \in Pairs
    BY PairOf
  <2>2. ~New(p) /\ ~New(<<p[2], p[1]>>)
    BY <1>1, <1>2, <2>1 DEF Status
  <2> QED BY <1>2, <2>1, <2>2 DEF NoCrossedRequests, Status
<1> QED BY <1>2 DEF NoCrossedRequests

LEMMA SerialInit == MCInit => SerialInv
<1> SUFFICES ASSUME MCInit PROVE SerialInv
  OBVIOUS
<1>1. NoCrossedRequests
  BY PairOf DEF MCInit, Init, NoCrossedRequests, Status
<1>2. \A r \in Requests : KnowsAlone(r)
  BY DEF MCInit, Init, KnowsAlone
<1> QED BY <1>1, <1>2, WInit DEF SerialInv

LEMMA SerialNext == SerialInv /\ [MCNext]_mcvars => SerialInv'
<1> SUFFICES ASSUME SerialInv, [MCNext]_mcvars PROVE SerialInv'
  OBVIOUS
<1>1. WInv'
  BY WNext DEF SerialInv
<1>2. Serial' => Serial
  BY DEF Serial, MCNext, mcvars
<1>3. CASE MCNext
  BY <1>1, <1>2, <1>3, KnowsAloneKept, UncrossedKept DEF SerialInv, WInv, MCNext
<1>4. CASE UNCHANGED mcvars
  BY <1>1, <1>2, <1>4
     DEF SerialInv, NoCrossedRequests, KnowsAlone, Status, mcvars, vars, tables, acquaintances, circle
<1> QED BY <1>3, <1>4

\* Served one at a time, two users never have requests to each other PENDING at once:
\* addContact accepts the one it finds (contacts.service.ts).
THEOREM SerialAsksUncrossed == MCSpec => []UncrossedWhenSerial
<1>1. SerialInv => UncrossedWhenSerial
  BY DEF SerialInv, UncrossedWhenSerial
<1> QED BY <1>1, SerialInit, SerialNext, PTL DEF MCSpec

\* Who comes into the group, or is given a link to it, was let in by the query for an
\* active group, or there was no group yet.
LEMMA LetIn ==
    ASSUME CInv, NEW r \in Requests, StepOf(r),
           \/ \E u \in Users : groupMember[u] = NoRole /\ groupMember'[u] # NoRole
           \/ \E l \in Links : ~link[l].used /\ link'[l].used
    PROVE  group = "none" \/ (request[r] # Idle /\ PastGroup(request[r]))
<1>i. TypeOK
  BY DEF CInv
<1>1. ~UNCHANGED <<groupMember, link>>
  OBVIOUS
<1>2. CASE ContactsMethod(r) \/ Fault(r)
  BY <1>1, <1>2, ContactsApart DEF Apart, Fault, tables, circle
<1>3. CASE CreateGroup(r)
  BY <1>3 DEF CreateGroup
<1>4. CASE AddGroupMemberWrite(r)
  BY <1>4 DEF AddGroupMemberWrite, At, PastGroup
<1>5. CASE AcceptInviteWrite(r)
  BY <1>5 DEF AcceptInviteWrite, At, PastGroup
<1>6. CASE CreateInviteInsert(r)
  BY <1>6 DEF CreateInviteInsert, At, PastGroup
<1>7. ASSUME NEW op \in {"removeMember", "leave"}, LeftGroup(r, op)
      PROVE  FALSE
  <2>1. UNCHANGED link /\ \A u \in Users : groupMember'[u] \in {groupMember[u], NoRole}
    BY <1>7, <1>i DEF LeftGroup, RemoveMember, TypeOK
  <2> QED BY <2>1
<1>8. ASSUME RevokeInviteWrite(r) \/ AcceptInviteIncrement(r)
      PROVE  FALSE
  <2>1. \A l \in Links : link'[l].used = link[l].used
    <3>1. \A l \in Links : /\ [link[l] EXCEPT !.revoked = TRUE].used = link[l].used
                           /\ [link[l] EXCEPT !.useCount = link[l].useCount + 1].used = link[l].used
      BY <1>i DEF TypeOK, LinkRow
    <3>2. CASE RevokeInviteWrite(r)
      <4>1. PICK l : link' = [link EXCEPT ![l] = [@ EXCEPT !.revoked = TRUE]]
        BY <3>2 DEF RevokeInviteWrite
      <4> QED BY <3>1, <4>1, <1>i DEF TypeOK
    <3>3. CASE AcceptInviteIncrement(r)
      <4>1. PICK l : link' = [link EXCEPT ![l] = [@ EXCEPT !.useCount = link[l].useCount + 1]]
        BY <3>3 DEF AcceptInviteIncrement
      <4> QED BY <3>1, <4>1, <1>i DEF TypeOK
    <3> QED BY <1>8, <3>2, <3>3
  <2> QED BY <1>8, <2>1 DEF RevokeInviteWrite, AcceptInviteIncrement
<1>9. CASE GroupsMethod(r)
  <2>1. CASE CreateGroup(r) \/ AddGroupMember(r) \/ RemoveGroupMember(r)
    BY <1>1, <1>3, <1>4, <1>7, <2>1
       DEF AddGroupMember, RemoveGroupMember, CalledByOwner, CheckGroup, AddGroupMemberBlock,
           RemoveGroupMemberTarget, Check, tables, circle
  <2>2. CASE LeaveGroup(r) \/ ArchiveGroup(r)
    BY <1>1, <1>7, <2>2
       DEF LeaveGroup, LeaveGroupCalled, LeaveGroupCount, ArchiveGroup, ArchiveGroupWrite,
           CalledByOwner, Check, tables, circle
  <2>3. CASE CreateInvite(r) \/ RevokeInviteCalled(r) \/ RevokeInviteWrite(r) \/ AcceptInvite(r)
    BY <1>1, <1>5, <1>6, <1>8, <2>3
       DEF CreateInvite, CalledByOwner, CheckGroup, RevokeInviteCalled, AcceptInvite,
           AcceptInviteCalled, AcceptInviteMember, Check, tables, circle
  <2> QED BY <1>9, <2>1, <2>2, <2>3 DEF GroupsMethod
<1> QED BY <1>2, <1>9 DEF StepOf

LEMMA ArchivedStands ==
    ASSUME SerialInv, MCNext, Serial
    PROVE  ArchivedDoesNotGrow
<1> SUFFICES ASSUME group = "archived",
                    \/ \E u \in Users : groupMember[u] = NoRole /\ groupMember'[u] # NoRole
                    \/ \E l \in Links : ~link[l].used /\ link'[l].used
             PROVE  FALSE
  BY DEF ArchivedDoesNotGrow, Unissued
<1>1. CInv /\ Next /\ \A r \in Requests : KnowsAlone(r)
  BY DEF SerialInv, WInv, MCNext
<1>2. CASE \E r \in Requests : StepOf(r)
  BY <1>1, <1>2, LetIn DEF KnowsAlone
<1>3. ASSUME NEW l \in Links, LinkExpires(l)
      PROVE  FALSE
  <2>1. \A k \in Links : link'[k].used = link[k].used
    <3>1. \A k \in Links : [link[k] EXCEPT !.expired = TRUE].used = link[k].used
      BY <1>1 DEF CInv, TypeOK, LinkRow
    <3> QED BY <1>1, <1>3, <3>1 DEF LinkExpires, CInv, TypeOK
  <2> QED BY <1>3, <2>1 DEF LinkExpires
<1> QED BY <1>1, <1>2, <1>3 DEF Next, StepOf

\* Served one at a time, nobody joins an archived group and no link to it is made
\* (groups.service.ts, group-invites.service.ts).
THEOREM SerialArchivedStands == MCSpec => ArchivedWhenSerial
<1>1. SerialInv /\ [MCNext]_mcvars => [Serial => ArchivedDoesNotGrow]_vars
  BY ArchivedStands DEF mcvars
<1> QED BY <1>1, SerialInit, SerialNext, PTL DEF MCSpec, ArchivedWhenSerial

-----------------------------------------------------------------------------
(***************************************************************************)
(* Uses of a link                                                          *)
(***************************************************************************)
\* The acceptances in flight that have found the link valid and have not yet been counted.
Uncounted(l) == {r \in InFlight : request[r].op = "acceptInvite" /\ request[r].link = l}
UsesBounded(l) ==
    IF link[l].used
    THEN link[l].useCount + Cardinality(Uncounted(l)) < link[l].maxUses + workload.slots
    ELSE link[l].useCount = 0 /\ Uncounted(l) = {}

LEMMA UncountedIsFinite ==
    ASSUME NEW l \in Links
    PROVE  /\ IsFiniteSet(Uncounted(l)) /\ Cardinality(Uncounted(l)) \in Nat
           /\ IsFiniteSet(Uncounted(l)') /\ Cardinality(Uncounted(l)') \in Nat
           /\ Cardinality(Uncounted(l)) <= Cardinality(InFlight)
           /\ Cardinality(Uncounted(l)') <= Cardinality(InFlight')
<1>1. Uncounted(l) \subseteq InFlight /\ Uncounted(l)' \subseteq InFlight'
  BY DEF Uncounted
<1> QED BY <1>1, InFlightIsFinite, FS_Subset, FS_CardinalityType

SameUses(l) == link'[l].used = link[l].used /\ link'[l].maxUses = link[l].maxUses
               /\ link'[l].useCount = link[l].useCount

\* What a step may do to a link and the acceptances that are under way.
LinkStep(l) ==
    \/ SameUses(l) /\ Uncounted(l)' \subseteq Uncounted(l)
    \/ SameUses(l) /\ Valid(l)
    \/ /\ ~link[l].used /\ link'[l].used /\ link'[l].useCount = link[l].useCount
       /\ link'[l].maxUses \in MaxUses /\ Uncounted(l)' \subseteq Uncounted(l)
    \/ /\ link'[l].used = link[l].used /\ link'[l].maxUses = link[l].maxUses
       /\ link'[l].useCount = link[l].useCount + 1
       /\ \E r \in Uncounted(l) : Uncounted(l)' \subseteq Uncounted(l) \ {r}

LEMMA LinkNumbers ==
    ASSUME TypeOK, WithinSlots, NEW l \in Links
    PROVE  link[l].useCount \in Nat /\ link[l].maxUses \in Nat /\ workload.slots \in Nat
<1>1. link[l] \in LinkRow
  BY DEF TypeOK
<1>2. link[l].useCount \in Nat /\ link[l].maxUses \in MaxUses \cup {0}
  BY <1>1 DEF LinkRow
<1>3. MaxUses \cup {0} \subseteq Nat
  BY SocialAssumption
<1> QED BY <1>2, <1>3, WorkloadsAssumption DEF WithinSlots

LEMMA UsesKept ==
    ASSUME CInv, WithinSlots, WithinSlots', UNCHANGED workload, NEW l \in Links,
           UsesBounded(l), LinkStep(l)
    PROVE  UsesBounded(l)'
<1>1. /\ link[l].useCount \in Nat /\ link[l].maxUses \in Nat
      /\ workload.slots \in Nat /\ MaxUses \subseteq Nat \ {0}
  BY LinkNumbers, SocialAssumption DEF CInv
<1>2. ASSUME Uncounted(l)' \subseteq Uncounted(l)
      PROVE  Cardinality(Uncounted(l)') <= Cardinality(Uncounted(l))
  BY <1>2, UncountedIsFinite, FS_Subset
<1>3. CASE SameUses(l) /\ Uncounted(l)' \subseteq Uncounted(l)
  BY <1>1, <1>2, <1>3, UncountedIsFinite DEF UsesBounded, SameUses
<1>4. CASE SameUses(l) /\ Valid(l)
  <2>1. Cardinality(Uncounted(l)') <= workload.slots
    BY <1>1, UncountedIsFinite, InFlightIsFinite DEF WithinSlots
  <2> QED BY <1>1, <1>4, <2>1, UncountedIsFinite DEF UsesBounded, SameUses, Valid
<1>5. CASE /\ ~link[l].used /\ link'[l].used /\ link'[l].useCount = link[l].useCount
           /\ link'[l].maxUses \in MaxUses /\ Uncounted(l)' \subseteq Uncounted(l)
  <2>1. Uncounted(l)' = {} /\ link'[l].useCount = 0
    BY <1>5 DEF UsesBounded
  <2>2. Cardinality(Uncounted(l)') = 0
    BY <2>1, FS_EmptySet
  <2>3. link'[l].maxUses \in Nat \ {0}
    BY <1>1, <1>5
  <2> QED BY <1>1, <1>5, <2>1, <2>2, <2>3 DEF UsesBounded
<1>6. ASSUME link'[l].used = link[l].used, link'[l].maxUses = link[l].maxUses,
             link'[l].useCount = link[l].useCount + 1,
             NEW r \in Uncounted(l), Uncounted(l)' \subseteq Uncounted(l) \ {r}
      PROVE  UsesBounded(l)'
  <2>1. Cardinality(Uncounted(l) \ {r}) = Cardinality(Uncounted(l)) - 1
        /\ IsFiniteSet(Uncounted(l) \ {r})
    BY UncountedIsFinite, FS_RemoveElement
  <2>2. Cardinality(Uncounted(l)') <= Cardinality(Uncounted(l)) - 1
    BY <1>6, <2>1, FS_Subset
  <2>3. link[l].used
    BY DEF UsesBounded
  <2> QED BY <1>1, <1>6, <2>2, <2>3, UncountedIsFinite DEF UsesBounded
<1> QED BY <1>3, <1>4, <1>5, <1>6 DEF LinkStep

LEMMA AcceptancesGoOn ==
    ASSUME CInv, NEW r \in Requests, GoesOnAs(r), NEW l \in Links
    PROVE  /\ Uncounted(l)' \subseteq Uncounted(l) \/ (Valid(l) /\ UNCHANGED tables)
           /\ request'[r] = Idle => Uncounted(l)' \subseteq Uncounted(l) \ {r}
<1>1. \A q \in Requests \ {r} : q \in Uncounted(l)' => q \in Uncounted(l)
  BY DEF GoesOnAs, Moves, Uncounted, InFlight
<1>2. CASE request'[r] = Idle
  <2>1. r \notin Uncounted(l)'
    BY <1>2 DEF Uncounted, InFlight
  <2> QED BY <1>1, <1>2, <2>1 DEF Uncounted, InFlight
<1>3. CASE request[r] = Idle /\ Begun(request'[r]) /\ UNCHANGED tables
  <2>1. r \in Uncounted(l)' => Valid(l)
    BY <1>3 DEF Uncounted, InFlight, Begun
  <2> QED BY <1>1, <1>3, <2>1, IdleIsNone DEF Uncounted, InFlight, Begun
<1>4. CASE request[r] # Idle /\ Advanced(request[r], request'[r])
  <2>1. r \in Uncounted(l)' => r \in Uncounted(l)
    BY <1>4 DEF Uncounted, InFlight, Advanced
  <2>2. request'[r] # Idle
    BY <1>4, IdleIsNone DEF Advanced
  <2> QED BY <1>1, <2>1, <2>2 DEF Uncounted, InFlight
<1> QED BY <1>2, <1>3, <1>4 DEF GoesOnAs

\* The steps that write a link end their request.
LEMMA LinkWriters ==
    ASSUME CInv, NEW r \in Requests, StepOf(r), link' # link
    PROVE  CreateInviteInsert(r) \/ RevokeInviteWrite(r) \/ AcceptInviteIncrement(r)
<1>1. CASE ContactsMethod(r) \/ Fault(r)
  BY <1>1, ContactsApart DEF Apart, Fault, tables, circle
<1>2. CASE GroupsMethod(r)
  BY <1>2
     DEF GroupsMethod, CreateGroup, AddGroupMember, RemoveGroupMember, CalledByOwner, CheckGroup,
         Check, AddGroupMemberBlock, AddGroupMemberWrite, RemoveGroupMemberTarget, LeftGroup,
         LeaveGroup, LeaveGroupCalled, LeaveGroupCount, ArchiveGroup, ArchiveGroupWrite,
         CreateInvite, RevokeInviteCalled, AcceptInvite, AcceptInviteCalled, AcceptInviteMember,
         AcceptInviteWrite, tables, circle
<1> QED BY <1>1, <1>2 DEF StepOf

\* A request that will insert a link finds one, however many are in flight.
Inserting == {r \in Requests : request[r] # Idle /\ request[r].op = "createInvite"}
LinksLast == Cardinality(Inserting) <= Cardinality(Unissued)

LEMMA InsertingIsFinite ==
    /\ IsFiniteSet(Inserting) /\ Cardinality(Inserting) \in Nat
    /\ IsFiniteSet(Inserting') /\ Cardinality(Inserting') \in Nat
    /\ IsFiniteSet(Unissued) /\ Cardinality(Unissued) \in Nat
    /\ IsFiniteSet(Unissued') /\ Cardinality(Unissued') \in Nat
BY SocialAssumption, FS_Subset, FS_CardinalityType DEF Inserting, Unissued

LEMMA InsertFindsALink ==
    ASSUME LinksLast, NEW r \in Requests, CreateInviteInsert(r)
    PROVE  r \in Inserting /\ Unissued # {}
<1>1. r \in Inserting
  BY DEF CreateInviteInsert, At, Inserting
<1>2. Cardinality(Inserting) # 0
  BY <1>1, InsertingIsFinite, FS_EmptySet
<1>3. Cardinality(Unissued) # 0
  BY <1>2, InsertingIsFinite DEF LinksLast
<1> QED BY <1>1, <1>3, FS_EmptySet

LEMMA IssuedStays ==
    ASSUME TypeOK,
           UNCHANGED link \/ (\E r \in Requests : RevokeInviteWrite(r) \/ AcceptInviteIncrement(r))
           \/ (\E l \in Links : LinkExpires(l))
    PROVE  \A l \in Links : link'[l].used = link[l].used
<1>1. \A l \in Links : /\ [link[l] EXCEPT !.revoked = TRUE].used = link[l].used
                       /\ [link[l] EXCEPT !.expired = TRUE].used = link[l].used
                       /\ [link[l] EXCEPT !.useCount = link[l].useCount + 1].used = link[l].used
  BY DEF TypeOK, LinkRow
<1>2. ASSUME NEW r \in Requests, RevokeInviteWrite(r)
      PROVE  \A l \in Links : link'[l].used = link[l].used
  <2>1. PICK l : link' = [link EXCEPT ![l] = [@ EXCEPT !.revoked = TRUE]]
    BY <1>2 DEF RevokeInviteWrite
  <2> QED BY <1>1, <2>1 DEF TypeOK
<1>3. ASSUME NEW r \in Requests, AcceptInviteIncrement(r)
      PROVE  \A l \in Links : link'[l].used = link[l].used
  <2>1. PICK l : link' = [link EXCEPT ![l] = [@ EXCEPT !.useCount = link[l].useCount + 1]]
    BY <1>3 DEF AcceptInviteIncrement
  <2> QED BY <1>1, <2>1 DEF TypeOK
<1>4. ASSUME NEW l \in Links, LinkExpires(l)
      PROVE  \A k \in Links : link'[k].used = link[k].used
  BY <1>1, <1>4 DEF LinkExpires, TypeOK
<1> QED BY <1>2, <1>3, <1>4

LEMMA LinksLastOn ==
    ASSUME CInv, LinksLast, [Next]_vars
    PROVE  LinksLast'
<1>i. TypeOK
  BY DEF CInv
<1>1. ASSUME Inserting' \subseteq Inserting, Unissued' = Unissued
      PROVE  LinksLast'
  <2>1. Cardinality(Inserting') <= Cardinality(Inserting)
    BY <1>1, InsertingIsFinite, FS_Subset
  <2> QED BY <1>1, <2>1, InsertingIsFinite DEF LinksLast
<1>2. ASSUME NEW r \in Requests, StepOf(r), GoesOnAs(r)
      PROVE  LinksLast'
  <2>1. \A q \in Requests \ {r} : q \in Inserting' => q \in Inserting
    BY <1>2 DEF GoesOnAs, Moves, Inserting
  <2>2. CASE CreateInviteInsert(r)
    <3>1. PICK max \in MaxUses : link' = [link EXCEPT ![CHOOSE k \in Unissued : TRUE] =
                                             [@ EXCEPT !.used = TRUE, !.maxUses = max]]
      BY <2>2 DEF CreateInviteInsert
    <3>2. PICK k \in Unissued : k = CHOOSE j \in Unissued : TRUE
      BY <2>2, InsertFindsALink
    <3>3. link' = [link EXCEPT ![k] = [link[k] EXCEPT !.used = TRUE, !.maxUses = max]]
      BY <3>1, <3>2
    <3>4. [link[k] EXCEPT !.used = TRUE, !.maxUses = max].used /\ k \in Links
      BY <1>i DEF TypeOK, LinkRow, Unissued
    <3>5. Unissued' = Unissued \ {k}
      BY <1>i, <3>3, <3>4 DEF TypeOK, Unissued
    <3>6. request'[r] = Idle /\ r \in Inserting
      BY <2>2, <1>i, Ending, InsertFindsALink DEF CreateInviteInsert
    <3>7. Inserting' \subseteq Inserting \ {r}
      BY <2>1, <3>6 DEF Inserting
    <3>8. /\ Cardinality(Unissued') = Cardinality(Unissued) - 1
          /\ Cardinality(Inserting \ {r}) = Cardinality(Inserting) - 1
          /\ IsFiniteSet(Inserting \ {r})
      BY <3>2, <3>5, <3>6, InsertingIsFinite, FS_RemoveElement
    <3>9. Cardinality(Inserting') <= Cardinality(Inserting) - 1
      BY <3>7, <3>8, FS_Subset
    <3> QED BY <3>8, <3>9, InsertingIsFinite DEF LinksLast
  <2>3. CASE ~CreateInviteInsert(r)
    <3>1. \A l \in Links : link'[l].used = link[l].used
      BY <1>2, <1>i, <2>3, LinkWriters, IssuedStays
    <3>2. Unissued' = Unissued
      BY <3>1 DEF Unissued
    <3>3. CASE r \notin Inserting' \/ r \in Inserting
      <4>1. Inserting' \subseteq Inserting
        BY <2>1, <3>3 DEF Inserting
      <4> QED BY <1>1, <3>2, <4>1
    <3>4. CASE r \in Inserting' /\ r \notin Inserting
      <4>1. request[r] = Idle /\ LinksLeft
        BY <1>2, <3>4 DEF GoesOnAs, Inserting, Begun, Advanced
      <4>2. Cardinality(Inserting \cup {r}) = Cardinality(Inserting) + 1
            /\ IsFiniteSet(Inserting \cup {r})
        BY <3>4, InsertingIsFinite, FS_AddElement
      <4>3. Inserting' \subseteq Inserting \cup {r}
        BY <2>1 DEF Inserting
      <4>4. Cardinality(Inserting') <= Cardinality(Inserting) + 1
        BY <4>2, <4>3, FS_Subset
      <4>5. Cardinality(Inserting) < Cardinality(Unissued)
        BY <4>1 DEF LinksLeft, Inserting
      <4> QED BY <3>2, <4>4, <4>5, InsertingIsFinite DEF LinksLast
    <3> QED BY <3>3, <3>4
  <2> QED BY <2>2, <2>3
<1>3. ASSUME NEW l \in Links, LinkExpires(l)
      PROVE  LinksLast'
  <2>1. \A k \in Links : link'[k].used = link[k].used
    BY <1>i, <1>3, IssuedStays
  <2>2. Unissued' = Unissued /\ Inserting' = Inserting
    BY <1>3, <2>1 DEF Unissued, Inserting, LinkExpires
  <2> QED BY <1>1, <2>2
<1>4. CASE UNCHANGED vars
  <2>1. Unissued' = Unissued /\ Inserting' = Inserting
    BY <1>4 DEF Unissued, Inserting, vars, tables, circle
  <2> QED BY <1>1, <2>1
<1> QED BY <1>2, <1>3, <1>4, StepsAre

LEMMA LinkStepTaken ==
    ASSUME CInv, LinksLast, Next, NEW l \in Links
    PROVE  LinkStep(l)
<1>i. link \in [Links -> LinkRow] /\ request \in [Requests -> Request \cup {Idle}] /\ link[l] \in LinkRow
  BY DEF CInv, TypeOK
<1>f. /\ [link[l] EXCEPT !.revoked = TRUE].used = link[l].used
      /\ [link[l] EXCEPT !.revoked = TRUE].maxUses = link[l].maxUses
      /\ [link[l] EXCEPT !.revoked = TRUE].useCount = link[l].useCount
      /\ [link[l] EXCEPT !.expired = TRUE].used = link[l].used
      /\ [link[l] EXCEPT !.expired = TRUE].maxUses = link[l].maxUses
      /\ [link[l] EXCEPT !.expired = TRUE].useCount = link[l].useCount
  BY <1>i DEF LinkRow
<1>1. ASSUME NEW k \in Links, LinkExpires(k)
      PROVE  LinkStep(l)
  <2>1. link' = [link EXCEPT ![k] = [@ EXCEPT !.expired = TRUE]] /\ UNCHANGED request
    BY <1>1 DEF LinkExpires
  <2>2. SameUses(l)
    BY <1>i, <1>f, <2>1 DEF SameUses
  <2> QED BY <2>1, <2>2 DEF LinkStep, Uncounted, InFlight
<1>2. ASSUME NEW r \in Requests, StepOf(r), GoesOnAs(r)
      PROVE  LinkStep(l)
  <2>0. /\ Uncounted(l)' \subseteq Uncounted(l) \/ (Valid(l) /\ UNCHANGED tables)
        /\ request'[r] = Idle => Uncounted(l)' \subseteq Uncounted(l) \ {r}
    BY <1>2, AcceptancesGoOn
  <2>1. CASE UNCHANGED link
    BY <2>0, <2>1 DEF LinkStep, SameUses
  <2>2. CASE RevokeInviteWrite(r)
    <3>1. PICK k : link' = [link EXCEPT ![k] = [@ EXCEPT !.revoked = TRUE]]
      BY <2>2 DEF RevokeInviteWrite
    <3>2. SameUses(l)
      BY <1>i, <1>f, <3>1 DEF SameUses
    <3>3. request'[r] = Idle
      BY <2>2, Ending DEF CInv, RevokeInviteWrite
    <3> QED BY <2>0, <3>2, <3>3 DEF LinkStep
  <2>3. CASE CreateInviteInsert(r)
    <3>1. PICK max \in MaxUses : link' = [link EXCEPT ![CHOOSE k \in Unissued : TRUE] =
                                             [@ EXCEPT !.used = TRUE, !.maxUses = max]]
      BY <2>3 DEF CreateInviteInsert
    <3>2. PICK k : k = CHOOSE j \in Unissued : TRUE
      OBVIOUS
    <3>3. link' = [link EXCEPT ![k] = [@ EXCEPT !.used = TRUE, !.maxUses = max]]
      BY <3>1, <3>2
    <3>4. request'[r] = Idle
      BY <2>3, Ending DEF CInv, CreateInviteInsert
    <3>5. CASE k = l
      <4>1. ~link[l].used
        BY <2>3, <3>2, <3>5, InsertFindsALink DEF Unissued
      <4> DEFINE new == [link[l] EXCEPT !.used = TRUE, !.maxUses = max]
      <4>2. new.used /\ new.maxUses = max /\ new.useCount = link[l].useCount
        BY <1>i DEF LinkRow
      <4>3. link'[l] = new
        BY <1>i, <3>3, <3>5
      <4> HIDE DEF new
      <4> QED BY <2>0, <3>1, <3>4, <4>1, <4>2, <4>3 DEF LinkStep
    <3>6. CASE k # l
      <4>1. SameUses(l)
        BY <1>i, <3>3, <3>6 DEF SameUses
      <4> QED BY <2>0, <3>4, <4>1 DEF LinkStep
    <3> QED BY <3>5, <3>6
  <2>4. CASE AcceptInviteIncrement(r)
    <3>1. /\ link' = [link EXCEPT ![request[r].link] =
                         [@ EXCEPT !.useCount = link[request[r].link].useCount + 1]]
          /\ request[r] # Idle /\ request[r].op = "acceptInvite"
      BY <2>4 DEF AcceptInviteIncrement, At
    <3>2. request'[r] = Idle
      BY <2>4, Ending DEF CInv, AcceptInviteIncrement
    <3>3. CASE request[r].link = l
      <4> DEFINE new == [link[l] EXCEPT !.useCount = link[l].useCount + 1]
      <4>1. new.used = link[l].used /\ new.maxUses = link[l].maxUses
            /\ new.useCount = link[l].useCount + 1
        BY <1>i DEF LinkRow
      <4>2. link'[l] = new
        BY <1>i, <3>1, <3>3
      <4>3. r \in Uncounted(l)
        BY <3>1, <3>3 DEF Uncounted, InFlight
      <4> QED BY <2>0, <3>2, <4>1, <4>2, <4>3 DEF LinkStep
    <3>4. CASE request[r].link # l
      <4>1. SameUses(l)
        BY <1>i, <3>1, <3>4 DEF SameUses
      <4> QED BY <2>0, <3>2, <4>1 DEF LinkStep
    <3> QED BY <3>3, <3>4
  <2> QED BY <1>2, <2>1, <2>2, <2>3, <2>4, LinkWriters
<1> QED BY <1>1, <1>2, StepGoesOn DEF Next, StepOf

\* The uses of a link, with those under way.
UInv == WInv /\ LinksLast /\ \A l \in Links : UsesBounded(l)

LEMMA UInit == MCInit => UInv
<1> SUFFICES ASSUME MCInit PROVE UInv
  OBVIOUS
<1>1. Inserting = {} /\ InFlight = {} /\ \A l \in Links : ~link[l].used /\ link[l].useCount = 0
  BY DEF MCInit, Init, Inserting, InFlight
<1>2. LinksLast
  BY <1>1, FS_EmptySet, InsertingIsFinite DEF LinksLast
<1>3. \A l \in Links : UsesBounded(l)
  BY <1>1 DEF UsesBounded, Uncounted
<1> QED BY <1>2, <1>3, WInit DEF UInv

LEMMA UNext == UInv /\ [MCNext]_mcvars => UInv'
<1> SUFFICES ASSUME UInv, [MCNext]_mcvars PROVE UInv'
  OBVIOUS
<1>1. WInv' /\ LinksLast'
  BY WNext, LinksLastOn DEF UInv, WInv, MCNext, mcvars
<1>2. CASE MCNext
  <2>1. \A l \in Links : LinkStep(l)
    BY <1>2, LinkStepTaken DEF UInv, WInv, MCNext
  <2>2. UNCHANGED workload
    BY <1>2 DEF MCNext
  <2>3. \A l \in Links : UsesBounded(l)'
    BY <1>1, <2>1, <2>2, UsesKept DEF UInv, WInv
  <2> QED BY <1>1, <2>3 DEF UInv
<1>3. CASE UNCHANGED mcvars
  BY <1>1, <1>3 DEF UInv, mcvars, vars, tables, circle, UsesBounded, Uncounted, InFlight
<1> QED BY <1>2, <1>3

-----------------------------------------------------------------------------
(***************************************************************************)
(* Admissions by a link: counted, about to be, or lost                      *)
(***************************************************************************)
Counting(l) == {r \in Uncounted(l) : request[r].at = "increment"}
Admissions(l) ==
    /\ admitted[l] \in Nat /\ lost[l] \in Nat
    /\ admitted[l] = link[l].useCount + Cardinality(Counting(l)) + lost[l]

LEMMA CountingIsFinite ==
    ASSUME NEW l \in Links
    PROVE  /\ IsFiniteSet(Counting(l)) /\ Cardinality(Counting(l)) \in Nat
           /\ Cardinality(Counting(l)) <= Cardinality(Uncounted(l))
<1>1. Counting(l) \subseteq Uncounted(l)
  BY DEF Counting
<1> QED BY <1>1, UncountedIsFinite, FS_Subset, FS_CardinalityType

LEMMA CountKept ==
    ASSUME TypeOK,
           \/ UNCHANGED link
           \/ \E r \in Requests : RevokeInviteWrite(r) \/ CreateInviteInsert(r)
           \/ \E l \in Links : LinkExpires(l)
    PROVE  \A l \in Links : link'[l].useCount = link[l].useCount
<1>1. \A l \in Links :
          /\ [link[l] EXCEPT !.revoked = TRUE].useCount = link[l].useCount
          /\ [link[l] EXCEPT !.expired = TRUE].useCount = link[l].useCount
          /\ \A max : [link[l] EXCEPT !.used = TRUE, !.maxUses = max].useCount = link[l].useCount
  BY DEF TypeOK, LinkRow
<1>2. ASSUME NEW r \in Requests, RevokeInviteWrite(r)
      PROVE  \A l \in Links : link'[l].useCount = link[l].useCount
  <2>1. PICK l : link' = [link EXCEPT ![l] = [@ EXCEPT !.revoked = TRUE]]
    BY <1>2 DEF RevokeInviteWrite
  <2> QED BY <1>1, <2>1 DEF TypeOK
<1>3. ASSUME NEW r \in Requests, CreateInviteInsert(r)
      PROVE  \A l \in Links : link'[l].useCount = link[l].useCount
  <2>1. PICK l, max : link' = [link EXCEPT ![l] = [@ EXCEPT !.used = TRUE, !.maxUses = max]]
    BY <1>3 DEF CreateInviteInsert
  <2> QED BY <1>1, <2>1 DEF TypeOK
<1>4. ASSUME NEW l \in Links, LinkExpires(l)
      PROVE  \A k \in Links : link'[k].useCount = link[k].useCount
  BY <1>1, <1>4 DEF LinkExpires, TypeOK
<1> QED BY <1>2, <1>3, <1>4

\* An acceptance waits for its count until it is counted or fails.
LEMMA AtIncrement ==
    ASSUME NEW r \in Requests, StepOf(r), At(r, "acceptInvite", "increment")
    PROVE  AcceptInviteIncrement(r) \/ Fault(r)
<1>1. request[r] # Idle /\ request[r].op = "acceptInvite" /\ request[r].at = "increment"
  BY DEF At
<1>2. ~ContactsMethod(r)
  BY <1>1
     DEF ContactsMethod, Block, Unblock, UpdateContactPrivacy, RemoveContact, AddContact,
         AddContactCalled, AddContactBlock, AddContactExisting, AddContactAdd, AddContactAsk,
         AddContactIncoming, AddContactOutgoing, AcceptRequest, AcceptCalled, AcceptBetween,
         AcceptUnblocked, AcceptTx, DeclineCalled, DeclineWrite, CancelCalled, CancelWrite,
         DirectCalled, DirectBlock, DirectWrite, AtOnce, Accepted, Answering, At
<1>3. GroupsMethod(r) => AcceptInviteIncrement(r)
  BY <1>1
     DEF GroupsMethod, CreateGroup, AtOnce, AddGroupMember, AddGroupMemberBlock,
         AddGroupMemberWrite, RemoveGroupMember, RemoveGroupMemberTarget, LeftGroup, LeaveGroup,
         LeaveGroupCalled, LeaveGroupCount, ArchiveGroup, ArchiveGroupWrite, CreateInvite,
         CreateInviteInsert, RevokeInviteCalled, RevokeInviteWrite, AcceptInvite,
         AcceptInviteCalled, AcceptInviteMember, AcceptInviteWrite,
         CalledByOwner, CheckGroup, Accepted, At
<1> QED BY <1>2, <1>3 DEF StepOf

\* It comes there by adding a member.
LEMMA ToIncrement ==
    ASSUME CInv, NEW r \in Requests, StepOf(r), GoesOnAs(r),
           At(r, "acceptInvite", "increment")', ~At(r, "acceptInvite", "increment")
    PROVE  /\ At(r, "acceptInvite", "write") /\ UNCHANGED link
           /\ request'[r].link = request[r].link
<1>1. request'[r] # Idle /\ request'[r].op = "acceptInvite" /\ request'[r].at = "increment"
  BY DEF At
<1>2. request[r] # Idle /\ Advanced(request[r], request'[r])
  BY <1>1 DEF GoesOnAs, Begun, PastGroup
<1>3. TypeOK /\ request[r].op = "acceptInvite" /\ request'[r].link = request[r].link
  BY <1>1, <1>2 DEF Advanced, CInv
<1>4. ASSUME NEW at, NEW next \in Ats \ {"increment"}, NEW passed, At(r, "acceptInvite", at),
             Check(r, passed, next)
      PROVE  FALSE
  BY <1>1, <1>2, <1>3, <1>4, Checking
<1>a. "member" \in Ats \ {"increment"} /\ "write" \in Ats \ {"increment"}
  BY DEF Ats
<1>5. ~CheckGroup(r, "acceptInvite", "member") /\ ~AcceptInviteMember(r)
  BY <1>4, <1>a DEF CheckGroup, AcceptInviteMember
<1>6. ~Fault(r) /\ ~AcceptInviteIncrement(r)
  BY <1>1, <1>3, Ending DEF Fault, AcceptInviteIncrement
<1>7. ~ContactsMethod(r)
  BY <1>2, <1>3
     DEF ContactsMethod, Block, Unblock, UpdateContactPrivacy, RemoveContact, AddContact,
         AddContactCalled, AddContactBlock, AddContactExisting, AddContactAdd, AddContactAsk,
         AddContactIncoming, AddContactOutgoing, AcceptRequest, AcceptCalled, AcceptBetween,
         AcceptUnblocked, AcceptTx, DeclineCalled, DeclineWrite, CancelCalled, CancelWrite,
         DirectCalled, DirectBlock, DirectWrite, AtOnce, Accepted, Answering, At
<1>8. GroupsMethod(r) => AcceptInviteWrite(r)
  BY <1>2, <1>3, <1>5, <1>6
     DEF GroupsMethod, CreateGroup, AtOnce, AddGroupMember, AddGroupMemberBlock,
         AddGroupMemberWrite, RemoveGroupMember, RemoveGroupMemberTarget, LeftGroup, LeaveGroup,
         LeaveGroupCalled, LeaveGroupCount, ArchiveGroup, ArchiveGroupWrite, CreateInvite,
         CreateInviteInsert, RevokeInviteCalled, RevokeInviteWrite, AcceptInvite,
         AcceptInviteCalled, CalledByOwner, CheckGroup, Accepted, At
<1> QED BY <1>3, <1>6, <1>7, <1>8 DEF StepOf, AcceptInviteWrite

LEMMA AdmissionsKept ==
    ASSUME CInv, NEW r \in Requests, StepOf(r), GoesOnAs(r), NEW l \in Links, Admissions(l),
           admitted' = Counted(admitted, Admitting), lost' = Counted(lost, Losing)
    PROVE  Admissions(l)'
<1> DEFINE Here == At(r, "acceptInvite", "increment") /\ request[r].link = l
           Arrives == At(r, "acceptInvite", "write") /\ request[r].link = l
           There == At(r, "acceptInvite", "increment")' /\ request'[r].link = l
<1>1. (r \in Counting(l) <=> Here) /\ (r \in Counting(l)' <=> There)
  BY DEF Counting, Uncounted, InFlight, At
<1>2. \A q \in Requests \ {r} : q \in Counting(l)' <=> q \in Counting(l)
  BY DEF GoesOnAs, Moves, Counting, Uncounted, InFlight
<1>3. Counting(l) \subseteq Requests /\ Counting(l)' \subseteq Requests
  BY DEF Counting, Uncounted, InFlight
<1>4. l \in Admitting <=> Arrives /\ At(r, "acceptInvite", "increment")'
  BY DEF Admitting, GoesOnAs, Moves, At
<1>5. l \in Losing <=> Here /\ request'[r] = Idle /\ UNCHANGED link
  BY DEF Losing, GoesOnAs, Moves, At
<1>6. /\ admitted'[l] = IF l \in Admitting THEN admitted[l] + 1 ELSE admitted[l]
      /\ lost'[l] = IF l \in Losing THEN lost[l] + 1 ELSE lost[l]
  BY DEF Counted
<1>7. /\ admitted[l] \in Nat /\ lost[l] \in Nat
      /\ admitted[l] = link[l].useCount + Cardinality(Counting(l)) + lost[l]
  BY DEF Admissions
<1>8. link[l] \in LinkRow /\ link[l].useCount \in Nat /\ TypeOK
      /\ link \in [Links -> LinkRow]
  BY DEF CInv, TypeOK, LinkRow
<1>9. CASE Here
  <2>1. (AcceptInviteIncrement(r) \/ Fault(r)) /\ l \notin Admitting
    BY <1>4, <1>9, AtIncrement DEF At
  <2>2. request'[r] = Idle
    BY <1>8, <2>1, Ending DEF AcceptInviteIncrement, Fault
  <2>3. Counting(l)' = Counting(l) \ {r} /\ r \in Counting(l)
    BY <1>1, <1>2, <1>3, <1>9, <2>2 DEF At
  <2>4. Cardinality(Counting(l)') = Cardinality(Counting(l)) - 1
    BY <2>3, CountingIsFinite, FS_RemoveElement
  <2>5. CASE AcceptInviteIncrement(r)
    <3> DEFINE new == [link[l] EXCEPT !.useCount = link[l].useCount + 1]
    <3>1. new.useCount = link[l].useCount + 1
      BY <1>8 DEF LinkRow
    <3>2. link'[l] = new
      BY <1>8, <1>9, <2>5 DEF AcceptInviteIncrement
    <3>3. link'[l].useCount = link[l].useCount + 1
      BY <3>1, <3>2
    <3>4. l \notin Losing
      BY <1>5, <1>8, <3>3
    <3> HIDE DEF new
    <3> QED BY <1>6, <1>7, <1>8, <2>1, <2>4, <3>3, <3>4, CountingIsFinite DEF Admissions
  <2>6. CASE Fault(r)
    <3>1. link' = link
      BY <2>6 DEF Fault, tables, circle
    <3>2. l \in Losing
      BY <1>5, <1>9, <2>2, <3>1
    <3> QED BY <1>6, <1>7, <1>8, <2>1, <2>4, <3>1, <3>2, CountingIsFinite DEF Admissions
  <2> QED BY <2>1, <2>5, <2>6
<1>10. CASE ~Here /\ There
  <2>1. ~At(r, "acceptInvite", "increment")
    BY <1>10 DEF At, GoesOnAs, Advanced
  <2>2. Arrives /\ UNCHANGED link
    BY <1>10, <2>1, ToIncrement
  <2>3. l \in Admitting /\ l \notin Losing
    BY <1>4, <1>5, <1>10, <2>2
  <2>4. Counting(l)' = Counting(l) \cup {r} /\ r \notin Counting(l)
    BY <1>1, <1>2, <1>3, <1>10
  <2>5. Cardinality(Counting(l)') = Cardinality(Counting(l)) + 1
    BY <2>4, CountingIsFinite, FS_AddElement
  <2> QED BY <1>6, <1>7, <1>8, <2>2, <2>3, <2>5, CountingIsFinite DEF Admissions
<1>11. CASE ~Here /\ ~There
  <2>1. l \notin Losing
    BY <1>5, <1>11
  <2>2. l \notin Admitting
    <3> SUFFICES ASSUME Arrives, At(r, "acceptInvite", "increment")' PROVE FALSE
      BY <1>4
    <3>1. ~At(r, "acceptInvite", "increment")
      BY DEF At
    <3> QED BY <1>11, <3>1, ToIncrement
  <2>3. Counting(l)' = Counting(l)
    BY <1>1, <1>2, <1>3, <1>11
  <2>4. link'[l].useCount = link[l].useCount
    <3>1. CASE AcceptInviteIncrement(r)
      <4>1. request[r].link # l
        BY <1>11, <3>1 DEF AcceptInviteIncrement
      <4>2. PICK row : link' = [link EXCEPT ![request[r].link] = row]
        BY <3>1 DEF AcceptInviteIncrement
      <4>3. link'[l] = link[l]
        BY <1>8, <4>1, <4>2
      <4> QED BY <4>3
    <3>2. CASE ~AcceptInviteIncrement(r)
      BY <1>8, <3>2, CountKept, LinkWriters
    <3> QED BY <3>1, <3>2
  <2> QED BY <1>6, <1>7, <2>1, <2>2, <2>3, <2>4 DEF Admissions
<1> QED BY <1>9, <1>10, <1>11

LInv == UInv /\ \A l \in Links : Admissions(l)

LEMMA AdmissionsInit == MCInit => LInv
<1> SUFFICES ASSUME MCInit, NEW l \in Links PROVE Admissions(l)
  BY UInit DEF LInv
<1>1. Counting(l) = {}
  BY DEF MCInit, Init, Counting, Uncounted, InFlight
<1>2. Cardinality(Counting(l)) = 0
  BY <1>1, FS_EmptySet
<1> QED BY <1>2 DEF Admissions, MCInit, Init

LEMMA AdmissionsNext == LInv /\ [MCNext]_mcvars => LInv'
<1> SUFFICES ASSUME LInv, [MCNext]_mcvars, NEW l \in Links PROVE Admissions(l)'
  BY UNext DEF LInv
<1>1. CInv
  BY DEF LInv, UInv, WInv
<1>2. ASSUME NEW r \in Requests, StepOf(r), GoesOnAs(r), MCNext
      PROVE  Admissions(l)'
  BY <1>1, <1>2, AdmissionsKept DEF LInv, MCNext
<1>3. ASSUME NEW k \in Links, LinkExpires(k), MCNext
      PROVE  Admissions(l)'
  <2>1. request' = request
    BY <1>3 DEF LinkExpires
  <2>2. Counting(l)' = Counting(l)
    BY <2>1 DEF Counting, Uncounted, InFlight
  <2>3. Admitting = {} /\ Losing = {}
    BY <2>1 DEF Admitting, Losing, At
  <2>4. admitted'[l] = admitted[l] /\ lost'[l] = lost[l]
    BY <1>3, <2>3 DEF MCNext, Counted
  <2>5. link'[l].useCount = link[l].useCount
    BY <1>1, <1>3, CountKept DEF CInv
  <2> QED BY <2>2, <2>4, <2>5 DEF LInv, Admissions
<1>4. CASE UNCHANGED mcvars
  BY <1>4 DEF LInv, Admissions, mcvars, history, vars, tables, circle, Counting, Uncounted, InFlight
<1>5. CASE MCNext
  BY <1>1, <1>2, <1>3, <1>5, StepGoesOn DEF MCNext, Next, StepOf
<1> QED BY <1>4, <1>5

\* In whatever order a link is accepted, its members removed and come again, it admits
\* fewer than maxUses, the requests served at once and the failures between the addition
\* of a member and the count of his use (accept of group-invites) together.
THEOREM LinksAdmitTheirUses == MCSpec => []AdmissionsBounded
<1>1. LInv => AdmissionsBounded
  <2> SUFFICES ASSUME LInv, NEW l \in Links, link[l].used
               PROVE  admitted[l] < link[l].maxUses + workload.slots + lost[l]
    BY DEF AdmissionsBounded
  <2>1. link[l].useCount + Cardinality(Uncounted(l)) < link[l].maxUses + workload.slots
    BY DEF LInv, UInv, UsesBounded
  <2>2. /\ link[l].useCount \in Nat /\ link[l].maxUses \in Nat /\ workload.slots \in Nat
        /\ Cardinality(Uncounted(l)) \in Nat
    BY LinkNumbers, UncountedIsFinite DEF LInv, UInv, WInv, CInv
  <2>3. /\ admitted[l] \in Nat /\ lost[l] \in Nat
        /\ admitted[l] = link[l].useCount + Cardinality(Counting(l)) + lost[l]
    BY DEF LInv, Admissions
  <2> QED BY <2>1, <2>2, <2>3, CountingIsFinite
<1> QED BY <1>1, AdmissionsInit, AdmissionsNext, PTL DEF MCSpec
=============================================================================
