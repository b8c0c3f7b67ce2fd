----------------------------- MODULE SessionProofs -----------------------------
(***************************************************************************)
(* Proofs about Sessions, for any session ids, passwords, links, request    *)
(* slots and operations: type correctness, and that a login has one live    *)
(* heir at most, however refreshes, logouts and revocations race and fail;  *)
(* about Accounts, for any accounts, addresses, letters and request slots,  *)
(* with lost mails and failing queries: a verified address has had its own  *)
(* link followed, and no two accounts have one address; and about Sessions  *)
(* under the workloads of MCSessions: old passwords are out, and a link     *)
(* sets the password once.                                                  *)
(***************************************************************************)
EXTENDS MCSessions, FiniteSetTheorems, TLAPS

\* Whoever was issued descends from a session that was issued.
Rooted == \A s \in Sids : session[s].used => Root(s) \in Sids /\ session[Root(s)].used
\* A refresh was sent with a token that was issued.
NamesRow(r) == request[r] # Idle /\ request[r].op = "refresh"
               => request[r].sid \in Sids /\ session[request[r].sid].used
SInv == /\ TypeOK /\ OneHeirPerLogin /\ Rooted
        /\ \A r \in Requests : NamesRow(r)

-----------------------------------------------------------------------------
(***************************************************************************)
(* What steps do: to a request, and to the sessions                        *)
(***************************************************************************)
RestTyped == /\ password' \in Passwords /\ resetLink' \in Links \cup {NoLink}
             /\ link' \in [Links -> LinkRow]
AloneMoves(r) == /\ request' \in [Requests -> Request \cup {Idle}]
                 /\ \A q \in Requests \ {r} : request'[q] = request[q]
\* Sessions are revoked or expire; none is issued.
Lessens == /\ session' \in [Sids -> Row]
           /\ \A s \in Sids : /\ session'[s].used = session[s].used
                              /\ session'[s].root = session[s].root
                              /\ Unrevoked(s)' => Unrevoked(s)

LEMMA RestStays ==
    ASSUME TypeOK, UNCHANGED <<password, resetLink, link>>
    PROVE  RestTyped
BY DEF TypeOK, RestTyped

LEMMA SameSessionsLessen ==
    ASSUME TypeOK, UNCHANGED session
    PROVE  Lessens
BY DEF TypeOK, Lessens, Unrevoked

LEMMA LesserIsSound ==
    ASSUME SInv, RestTyped, Lessens, NEW r \in Requests, AloneMoves(r),
           ~Succeeding(r)', NamesRow(r)'
    PROVE  SInv'
<1>1. TypeOK'
  BY DEF TypeOK, RestTyped, Lessens, AloneMoves
<1>2. \A q \in Requests : Succeeding(q)' => Succeeding(q) /\ request'[q] = request[q]
  BY DEF AloneMoves, Succeeding, At
<1>3. \A q \in Requests : Succeeding(q) => request[q].sid \in Sids
  BY DEF SInv, NamesRow, Succeeding, At
<1>4. OneHeirPerLogin'
  <2>1. \A s, t \in Sids : Unrevoked(s)' /\ Unrevoked(t)' /\ Root(s)' = Root(t)' => s = t
    BY DEF SInv, OneHeirPerLogin, Lessens, Root
  <2>2. ASSUME NEW q \in Requests, Succeeding(q)', NEW s \in Sids, Unrevoked(s)'
        PROVE  session'[s].root # session'[request'[q].sid].root
    BY <1>2, <1>3, <2>2 DEF SInv, OneHeirPerLogin, Lessens, Root
  <2>3. ASSUME NEW p \in Requests, NEW q \in Requests, Succeeding(p)', Succeeding(q)',
               session'[request'[p].sid].root = session'[request'[q].sid].root
        PROVE  p = q
    BY <1>2, <1>3, <2>3 DEF SInv, OneHeirPerLogin, Lessens, Root
  <2> QED BY <2>1, <2>2, <2>3 DEF OneHeirPerLogin, Root
<1>5. Rooted'
  BY DEF SInv, Rooted, Lessens, Root
<1>6. \A q \in Requests : NamesRow(q)'
  BY DEF SInv, NamesRow, Lessens, AloneMoves
<1> QED BY <1>1, <1>4, <1>5, <1>6 DEF SInv

LEMMA FinishMoves ==
    ASSUME TypeOK, NEW r \in Requests, Finish(r)
    PROVE  AloneMoves(r) /\ request'[r] = Idle /\ ~Succeeding(r)' /\ NamesRow(r)'
BY DEF TypeOK, AloneMoves, Finish, Succeeding, At, NamesRow

LEMMA FinishIsSound ==
    ASSUME SInv, RestTyped, Lessens, NEW r \in Requests, Finish(r)
    PROVE  SInv'
BY FinishMoves, LesserIsSound DEF SInv

LEMMA AcceptIsSound ==
    ASSUME SInv, UNCHANGED rows, NEW r \in Requests, NEW c \in Request, Accept(r, c),
           c.at # "persist" \/ c.op # "refresh",
           c.op = "refresh" => c.sid \in Issued
    PROVE  SInv'
<1>1. request' = [request EXCEPT ![r] = c] /\ TypeOK
  BY DEF Accept, SInv
<1>2. AloneMoves(r) /\ request'[r] = c
  BY <1>1 DEF TypeOK, AloneMoves
<1>3. ~Succeeding(r)' /\ NamesRow(r)'
  BY <1>2 DEF Succeeding, At, NamesRow, Issued, rows
<1> QED BY <1>1, <1>2, <1>3, RestStays, SameSessionsLessen, LesserIsSound DEF rows

LEMMA MoveOnMoves ==
    ASSUME TypeOK, NEW r \in Requests, request[r] # Idle, NEW at \in Steps, MoveOn(r, at)
    PROVE  /\ AloneMoves(r) /\ request'[r] # Idle
           /\ request'[r].op = request[r].op /\ request'[r].at = at
           /\ request'[r].sid = request[r].sid
<1>1. request[r] \in Request
  BY DEF TypeOK
<1>2. PICK c : c = [request[r] EXCEPT !.at = at]
  OBVIOUS
<1>3. c \in Request /\ c.op = request[r].op /\ c.at = at /\ c.sid = request[r].sid
  BY <1>1, <1>2 DEF Request
<1>4. c # Idle
  BY <1>1, <1>3 DEF Request, AllOps, Idle
<1>5. request' = [request EXCEPT ![r] = c]
  BY <1>2 DEF MoveOn
<1> QED BY <1>3, <1>4, <1>5 DEF TypeOK, AloneMoves

LEMMA MoveOnIsSound ==
    ASSUME SInv, RestTyped, UNCHANGED session, NEW r \in Requests, request[r] # Idle,
           NEW at \in Steps \ {"persist"}, MoveOn(r, at)
    PROVE  SInv'
<1>1. TypeOK /\ NamesRow(r)
  BY DEF SInv
<1>2. /\ AloneMoves(r) /\ request'[r] # Idle
      /\ request'[r].op = request[r].op /\ request'[r].at = at
      /\ request'[r].sid = request[r].sid
  BY <1>1, MoveOnMoves
<1>3. ~Succeeding(r)' /\ NamesRow(r)'
  BY <1>1, <1>2 DEF Succeeding, At, NamesRow
<1> QED BY <1>1, <1>2, <1>3, SameSessionsLessen, LesserIsSound

LEMMA RevokingLessens ==
    ASSUME TypeOK, NEW kept, RevokeAllForUserExcept(kept)
    PROVE  Lessens
<1>1. ASSUME NEW s \in Sids
      PROVE  /\ session'[s] \in Row /\ session'[s].used = session[s].used
             /\ session'[s].root = session[s].root
             /\ session[s].revokedAt => session'[s].revokedAt
  <2>1. session[s] \in Row
    BY DEF TypeOK
  <2>2. CASE s \in kept
    BY <2>1, <2>2 DEF RevokeAllForUserExcept
  <2>3. CASE s \notin kept
    <3>1. session'[s] = [session[s] EXCEPT !.revokedAt = session[s].revokedAt \/ session[s].used]
      BY <2>1, <2>3 DEF RevokeAllForUserExcept
    <3>2. (session[s].revokedAt \/ session[s].used) \in BOOLEAN
      OBVIOUS
    <3> QED BY <2>1, <3>1, <3>2 DEF Row
  <2> QED BY <2>2, <2>3
<1>2. session' \in [Sids -> Row]
  BY <1>1 DEF RevokeAllForUserExcept
<1> QED BY <1>1, <1>2 DEF Lessens, Unrevoked

LEMMA RowLessens ==
    ASSUME TypeOK, NEW s \in Sids, NEW row \in Row, session' = [session EXCEPT ![s] = row],
           row.used = session[s].used, row.root = session[s].root,
           session[s].revokedAt => row.revokedAt
    PROVE  Lessens
BY DEF TypeOK, Lessens, Unrevoked

-----------------------------------------------------------------------------
(***************************************************************************)
(* The steps that issue a session, or are about to                         *)
(***************************************************************************)
LEMMA FreshIsFresh ==
    ASSUME TypeOK, Issued # Sids
    PROVE  FreshSid \in Sids /\ ~session[FreshSid].used
<1>1. \E s \in Sids : s \in Sids \ Issued
  BY DEF Issued
<1> QED BY <1>1 DEF FreshSid, Issued

\* Of a row that is inserted: its id was free, it is live, and it descends from root.
LEMMA Created ==
    ASSUME SInv, NEW root \in Sids \cup {NoSid}, NEW verified \in Passwords,
           CreateToken(root, verified)
    PROVE  \E f \in Sids :
             /\ ~session[f].used
             /\ session' \in [Sids -> Row]
             /\ session'[f].used
             /\ session'[f].root = (IF root = NoSid THEN f ELSE root)
             /\ \A s \in Sids \ {f} : session'[s] = session[s]
<1>1. PICK f : f = FreshSid
  OBVIOUS
<1>2. f \in Sids /\ ~session[f].used
  BY <1>1, FreshIsFresh DEF CreateToken, SInv
<1>3. PICK row : row = [used |-> TRUE, revokedAt |-> FALSE, expired |-> FALSE,
                        root |-> IF root = NoSid THEN f ELSE root,
                        verified |-> verified, rotated |-> FALSE]
  OBVIOUS
<1>4. row \in Row /\ row.used /\ row.root = (IF root = NoSid THEN f ELSE root)
  BY <1>2, <1>3 DEF Row
<1>5. session' = [session EXCEPT ![f] = row]
  BY <1>1, <1>3 DEF CreateToken
<1> QED BY <1>2, <1>4, <1>5 DEF SInv, TypeOK

\* A login is the root of a family of its own: nobody descends from an id that was
\* never issued.
LEMMA LoginWriteIsSound ==
    ASSUME SInv, NEW r \in Requests, LoginWrite(r)
    PROVE  SInv'
<1>1. TypeOK /\ request[r] \in Request
  BY DEF SInv, TypeOK, LoginWrite, At
<1>2. PICK f \in Sids :
         /\ ~session[f].used /\ session' \in [Sids -> Row]
         /\ session'[f].used /\ session'[f].root = f
         /\ \A s \in Sids \ {f} : session'[s] = session[s]
  BY <1>1, Created DEF LoginWrite, Request
<1>3. AloneMoves(r) /\ ~Succeeding(r)' /\ NamesRow(r)'
  BY <1>1, FinishMoves DEF LoginWrite
<1>4. TypeOK'
  BY <1>1, <1>2, <1>3, RestStays DEF LoginWrite, RestTyped, AloneMoves, TypeOK
<1>5. \A q \in Requests : Succeeding(q)' =>
         /\ Succeeding(q) /\ request'[q] = request[q]
         /\ request[q].sid \in Sids \ {f} /\ session[request[q].sid].used
  BY <1>2, <1>3 DEF AloneMoves, Succeeding, At, SInv, NamesRow
<1>6. \A s \in Sids : session[s].used => s # f /\ Root(s) # f
  BY <1>2 DEF SInv, Rooted
<1>7. OneHeirPerLogin'
  <2>1. \A s, t \in Sids : Unrevoked(s)' /\ Unrevoked(t)' /\ Root(s)' = Root(t)' => s = t
    BY <1>2, <1>6 DEF SInv, OneHeirPerLogin, Unrevoked, Root
  <2>2. ASSUME NEW q \in Requests, Succeeding(q)', NEW s \in Sids, Unrevoked(s)'
        PROVE  session'[s].root # session'[request'[q].sid].root
    BY <1>2, <1>5, <1>6, <2>2 DEF SInv, OneHeirPerLogin, Unrevoked, Root
  <2>3. ASSUME NEW p \in Requests, NEW q \in Requests, Succeeding(p)', Succeeding(q)',
               session'[request'[p].sid].root = session'[request'[q].sid].root
        PROVE  p = q
    BY <1>2, <1>5, <2>3 DEF SInv, OneHeirPerLogin, Root
  <2> QED BY <2>1, <2>2, <2>3 DEF OneHeirPerLogin, Root
<1>8. Rooted'
  BY <1>2, <1>6 DEF SInv, Rooted, Root
<1>9. \A q \in Requests : NamesRow(q)'
  BY <1>2, <1>3 DEF SInv, NamesRow, AloneMoves
<1> QED BY <1>4, <1>7, <1>8, <1>9 DEF SInv

\* The consumed token was the family's live session; now its successor counts.
LEMMA RefreshConsumeIsSound ==
    ASSUME SInv, NEW r \in Requests, RefreshConsume(r)
    PROVE  SInv'
<1>1. /\ TypeOK /\ request[r] # Idle /\ request[r].op = "refresh"
      /\ request[r].at = "consume" /\ UNCHANGED <<password, resetLink, link>>
  BY DEF SInv, RefreshConsume, At
<1>2. PICK o \in Sids : o = request[r].sid /\ session[o].used
  BY <1>1 DEF SInv, NamesRow
<1>3. CASE ~Active(o)
  BY <1>1, <1>2, <1>3, RestStays, SameSessionsLessen, FinishIsSound DEF RefreshConsume
<1>4. CASE Active(o)
  <2>1. ConsumeActiveToken(o) /\ MoveOn(r, "persist")
    BY <1>2, <1>4 DEF RefreshConsume
  <2>2. PICK row : row = [session[o] EXCEPT !.revokedAt = TRUE, !.rotated = TRUE]
    OBVIOUS
  <2>3. /\ row \in Row /\ row.used = session[o].used /\ row.root = session[o].root
        /\ row.revokedAt
    BY <1>1, <2>2 DEF Row, TypeOK
  <2>4. session' = [session EXCEPT ![o] = row]
    BY <1>1, <2>1, <2>2 DEF ConsumeActiveToken, TypeOK, Row
  <2>5. Lessens /\ ~Unrevoked(o)'
    BY <1>1, <2>3, <2>4, RowLessens DEF Unrevoked, TypeOK
  <2>6. /\ AloneMoves(r) /\ request'[r] # Idle /\ request'[r].op = "refresh"
        /\ request'[r].at = "persist" /\ request'[r].sid = o
    <3>1. "persist" \in Steps
      BY DEF Steps
    <3> QED BY <1>1, <1>2, <2>1, <3>1, MoveOnMoves
  <2>7. Unrevoked(o) /\ ~Succeeding(r)
    BY <1>1, <1>4 DEF Active, Succeeding, At
  <2>8. \A q \in Requests \ {r} : Succeeding(q)' =>
           /\ Succeeding(q) /\ request'[q] = request[q] /\ request[q].sid \in Sids
    BY <2>6 DEF AloneMoves, Succeeding, At, SInv, NamesRow
  <2>9. TypeOK'
    BY <1>1, <2>5, <2>6, RestStays DEF RestTyped, AloneMoves, TypeOK, Lessens
  <2>10. OneHeirPerLogin'
    <3>1. \A s, t \in Sids : Unrevoked(s)' /\ Unrevoked(t)' /\ Root(s)' = Root(t)' => s = t
      BY <2>5 DEF SInv, OneHeirPerLogin, Lessens, Root
    <3>2. ASSUME NEW q \in Requests, Succeeding(q)', NEW s \in Sids, Unrevoked(s)'
          PROVE  session'[s].root # session'[request'[q].sid].root
      <4>1. CASE q = r
        BY <2>5, <2>6, <2>7, <3>2, <4>1 DEF SInv, OneHeirPerLogin, Lessens, Root
      <4>2. CASE q # r
        BY <2>5, <2>8, <3>2, <4>2 DEF SInv, OneHeirPerLogin, Lessens, Root
      <4> QED BY <4>1, <4>2
    <3>3. ASSUME NEW q \in Requests \ {r}, Succeeding(q)'
          PROVE  session'[o].root # session'[request'[q].sid].root
      BY <2>5, <2>7, <2>8, <3>3 DEF SInv, OneHeirPerLogin, Lessens, Root
    <3>4. ASSUME NEW p \in Requests, NEW q \in Requests, Succeeding(p)', Succeeding(q)',
                 session'[request'[p].sid].root = session'[request'[q].sid].root
          PROVE  p = q
      <4>1. CASE p = r \/ q = r
        BY <2>6, <3>3, <3>4, <4>1
      <4>2. CASE p # r /\ q # r
        BY <2>5, <2>8, <3>4, <4>2 DEF SInv, OneHeirPerLogin, Lessens, Root
      <4> QED BY <4>1, <4>2
    <3> QED BY <3>1, <3>2, <3>4 DEF OneHeirPerLogin, Root
  <2>11. Rooted'
    BY <2>5 DEF SInv, Rooted, Lessens, Root
  <2>12. \A q \in Requests : NamesRow(q)'
    BY <1>2, <2>5, <2>6 DEF SInv, NamesRow, Lessens, AloneMoves
  <2> QED BY <2>9, <2>10, <2>11, <2>12 DEF SInv
<1> QED BY <1>3, <1>4

\* The successor takes the place that was kept for it.
LEMMA RefreshWriteIsSound ==
    ASSUME SInv, NEW r \in Requests, RefreshWrite(r)
    PROVE  SInv'
<1>1. TypeOK /\ Succeeding(r)
  BY DEF SInv, RefreshWrite, Succeeding
<1>2. PICK o \in Sids : o = request[r].sid /\ session[o].used
  BY <1>1 DEF SInv, NamesRow, Succeeding, At
<1>3. PICK root : root = session[o].root
  OBVIOUS
<1>4. root \in Sids /\ session[root].used /\ root # NoSid
  BY <1>2, <1>3, SessionsAssumption DEF SInv, Rooted, Root
<1>5. session[o].verified \in Passwords
  BY <1>1 DEF TypeOK, Row
<1>6. PICK f \in Sids :
         /\ ~session[f].used /\ session' \in [Sids -> Row]
         /\ session'[f].used /\ session'[f].root = root
         /\ \A s \in Sids \ {f} : session'[s] = session[s]
  <2>1. CreateToken(root, session[o].verified)
    BY <1>2, <1>3 DEF RefreshWrite
  <2> QED BY <1>4, <1>5, <2>1, Created
<1>7. AloneMoves(r) /\ ~Succeeding(r)' /\ NamesRow(r)'
  BY <1>1, FinishMoves DEF RefreshWrite
<1>8. TypeOK'
  BY <1>1, <1>6, <1>7, RestStays DEF RefreshWrite, RestTyped, AloneMoves, TypeOK
<1>9. \A q \in Requests : Succeeding(q)' =>
         /\ q # r /\ Succeeding(q) /\ request'[q] = request[q]
         /\ request[q].sid \in Sids \ {f}
         /\ session'[request[q].sid].root # root
  BY <1>1, <1>2, <1>3, <1>6, <1>7 DEF AloneMoves, Succeeding, At, SInv, NamesRow, OneHeirPerLogin, Root
<1>10. \A s \in Sids \ {f} : Unrevoked(s)' => Unrevoked(s) /\ session'[s].root # root
  BY <1>1, <1>2, <1>3, <1>6 DEF SInv, OneHeirPerLogin, Unrevoked, Root
<1>11. OneHeirPerLogin'
  <2>1. \A s, t \in Sids : Unrevoked(s)' /\ Unrevoked(t)' /\ Root(s)' = Root(t)' => s = t
    BY <1>6, <1>10 DEF SInv, OneHeirPerLogin, Root
  <2>2. ASSUME NEW q \in Requests, Succeeding(q)', NEW s \in Sids, Unrevoked(s)'
        PROVE  session'[s].root # session'[request'[q].sid].root
    BY <1>6, <1>9, <1>10, <2>2 DEF SInv, OneHeirPerLogin, Root
  <2>3. ASSUME NEW p \in Requests, NEW q \in Requests, Succeeding(p)', Succeeding(q)',
               session'[request'[p].sid].root = session'[request'[q].sid].root
        PROVE  p = q
    BY <1>6, <1>9, <2>3 DEF SInv, OneHeirPerLogin, Root
  <2> QED BY <2>1, <2>2, <2>3 DEF OneHeirPerLogin, Root
<1>12. Rooted'
  BY <1>4, <1>6 DEF SInv, Rooted, Root
<1>13. \A q \in Requests : NamesRow(q)'
  BY <1>6, <1>7 DEF SInv, NamesRow, AloneMoves
<1> QED BY <1>8, <1>11, <1>12, <1>13 DEF SInv

-----------------------------------------------------------------------------
(***************************************************************************)
(* The other steps                                                         *)
(***************************************************************************)
LEMMA CallTyped ==
    ASSUME NEW op \in AllOps, NEW at \in Steps, NEW sid \in Sids \cup {NoSid},
           NEW p \in Passwords, NEW l \in Links \cup {NoLink}
    PROVE  /\ Call(op, at) \in Request
           /\ [Call(op, at) EXCEPT !.sid = sid] \in Request
           /\ [Call(op, at) EXCEPT !.password = p] \in Request
           /\ [Call(op, at) EXCEPT !.link = l] \in Request
           /\ [Call(op, at) EXCEPT !.link = l, !.password = p] \in Request
BY SessionsAssumption DEF Call, Request

LEMMA AcceptsAreSound ==
    ASSUME SInv, UNCHANGED rows, NEW r \in Requests, NEW c \in Request, Accept(r, c),
           c.op # "refresh"
    PROVE  SInv'
BY AcceptIsSound

LEMMA LoginIsSound == ASSUME SInv, NEW r \in Requests, Login(r) PROVE SInv'
<1>1. CASE LoginWrite(r)
  BY <1>1, LoginWriteIsSound
<1>2. CASE /\ Accept(r, [Call("login", "persist") EXCEPT !.password = password])
           /\ UNCHANGED rows
  <2>1. PICK c : c = [Call("login", "persist") EXCEPT !.password = password]
    OBVIOUS
  <2>2. c \in Request /\ c.op = "login"
    <3>1. "login" \in AllOps /\ "persist" \in Steps /\ password \in Passwords
      BY DEF AllOps, Steps, SInv, TypeOK
    <3> QED BY <2>1, <3>1, CallTyped, SessionsAssumption DEF Call
  <2> QED BY <1>2, <2>1, <2>2, AcceptsAreSound
<1> QED BY <1>1, <1>2 DEF Login

LEMMA RefreshIsSound == ASSUME SInv, NEW r \in Requests, Refresh(r) PROVE SInv'
<1>1. CASE RefreshConsume(r)
  BY <1>1, RefreshConsumeIsSound
<1>2. CASE RefreshWrite(r)
  BY <1>2, RefreshWriteIsSound
<1>3. CASE /\ \E s \in Issued : Accept(r, [Call("refresh", "consume") EXCEPT !.sid = s])
           /\ UNCHANGED rows
  <2>1. PICK s \in Issued : Accept(r, [Call("refresh", "consume") EXCEPT !.sid = s])
    BY <1>3
  <2>2. PICK c : c = [Call("refresh", "consume") EXCEPT !.sid = s]
    OBVIOUS
  <2>3. c \in Request /\ c.at = "consume" /\ c.sid = s
    <3>1. "refresh" \in AllOps /\ "consume" \in Steps /\ s \in Sids
      BY DEF AllOps, Steps, Issued
    <3> QED BY <2>2, <3>1, CallTyped, SessionsAssumption DEF Call
  <2> QED BY <1>3, <2>1, <2>2, <2>3, AcceptIsSound
<1> QED BY <1>1, <1>2, <1>3 DEF Refresh

\* logout, revokeOtherSessions and revokeSession are called with an issued id.
LEMMA NamingIsSound ==
    ASSUME SInv, UNCHANGED rows, NEW r \in Requests, NEW op \in AllOps \ {"refresh"},
           NEW at \in Steps, NEW s \in Issued,
           Accept(r, [Call(op, at) EXCEPT !.sid = s])
    PROVE  SInv'
<1>1. PICK c : c = [Call(op, at) EXCEPT !.sid = s]
  OBVIOUS
<1>2. c \in Request /\ c.op = op
  BY <1>1, CallTyped, SessionsAssumption DEF Call, Issued
<1> QED BY <1>1, <1>2, AcceptsAreSound

LEMMA RevokeRequestSession ==
    ASSUME SInv, NEW r \in Requests, LogoutWrite(r) \/ RevokeSessionWrite(r)
    PROVE  SInv'
<1>1. TypeOK /\ RestTyped /\ Finish(r)
  BY RestStays DEF SInv, LogoutWrite, RevokeSessionWrite
<1>2. PICK s : s = request[r].sid
  OBVIOUS
<1>3. PICK gone \in BOOLEAN :
         /\ session' = [session EXCEPT ![s].revokedAt = gone]
         /\ s \in Sids /\ session[s].revokedAt => gone
  <2>1. CASE LogoutWrite(r)
    BY <1>2, <2>1 DEF LogoutWrite
  <2>2. CASE RevokeSessionWrite(r)
    <3>1. PICK gone \in BOOLEAN : gone = (session[s].revokedAt \/ Active(s))
      OBVIOUS
    <3>2. session' = [session EXCEPT ![s].revokedAt = gone]
      BY <1>1, <1>2, <2>2, <3>1 DEF RevokeSessionWrite
    <3> QED BY <3>1, <3>2
  <2> QED BY <2>1, <2>2
<1>4. Lessens
  <2>1. CASE s \notin Sids
    BY <1>1, <1>3, <2>1, SameSessionsLessen DEF TypeOK
  <2>2. CASE s \in Sids
    <3>1. PICK row : row = [session[s] EXCEPT !.revokedAt = gone]
      OBVIOUS
    <3>2. /\ row \in Row /\ row.used = session[s].used /\ row.root = session[s].root
          /\ row.revokedAt = gone
      BY <1>1, <1>3, <2>2, <3>1 DEF TypeOK, Row
    <3>3. session' = [session EXCEPT ![s] = row]
      BY <1>3, <3>1
    <3> QED BY <1>1, <1>3, <2>2, <3>2, <3>3, RowLessens
  <2> QED BY <2>1, <2>2
<1> QED BY <1>1, <1>4, FinishIsSound

LEMMA LogoutIsSound == ASSUME SInv, NEW r \in Requests, Logout(r) PROVE SInv'
<1>1. "logout" \in AllOps \ {"refresh"} /\ "write" \in Steps
  BY DEF AllOps, Steps
<1> QED BY <1>1, NamingIsSound, RevokeRequestSession DEF Logout

LEMMA RevokeSessionIsSound == ASSUME SInv, NEW r \in Requests, RevokeSession(r) PROVE SInv'
<1>1. "revokeSession" \in AllOps \ {"refresh"} /\ "write" \in Steps
  BY DEF AllOps, Steps
<1> QED BY <1>1, NamingIsSound, RevokeRequestSession DEF RevokeSession

LEMMA RevokeSessionsIsSound ==
    ASSUME SInv, NEW r \in Requests, NEW op, NEW kept, RevokeSessions(r, op, kept)
    PROVE  SInv'
BY RestStays, RevokingLessens, FinishIsSound DEF RevokeSessions, SInv

LEMMA RevokeOtherSessionsIsSound ==
    ASSUME SInv, NEW r \in Requests, RevokeOtherSessions(r) PROVE SInv'
<1>1. "revokeOtherSessions" \in AllOps \ {"refresh"} /\ "revoke" \in Steps
  BY DEF AllOps, Steps
<1> QED BY <1>1, NamingIsSound, RevokeSessionsIsSound DEF RevokeOtherSessions

LEMMA RevokeAllSessionsIsSound ==
    ASSUME SInv, NEW r \in Requests, RevokeAllSessions(r) PROVE SInv'
<1>1. PICK c : c = Call("revokeAllSessions", "revoke")
  OBVIOUS
<1>2. c \in Request /\ c.op = "revokeAllSessions"
  <2>1. "revokeAllSessions" \in AllOps /\ "revoke" \in Steps
    BY DEF AllOps, Steps
  <2> QED BY <1>1, <2>1, CallTyped, SessionsAssumption DEF Call
<1> QED BY <1>1, <1>2, AcceptsAreSound, RevokeSessionsIsSound DEF RevokeAllSessions

LEMMA UpdatePasswordIsSound ==
    ASSUME SInv, NEW r \in Requests, NEW op, NEW next \in Steps \ {"persist"},
           UpdatePassword(r, op, next)
    PROVE  SInv'
<1>1. TypeOK /\ request[r] # Idle /\ request[r] \in Request
  BY DEF SInv, TypeOK, UpdatePassword, At
<1>2. request[r].password \in Passwords
  BY <1>1 DEF Request
<1>3. link' \in [Links -> LinkRow]
  <2>1. ASSUME NEW l \in Links
        PROVE  link[l] \in LinkRow /\ [link[l] EXCEPT !.spent = TRUE] \in LinkRow
    BY <1>1 DEF TypeOK, LinkRow
  <2> QED BY <2>1 DEF UpdatePassword
<1>4. RestTyped /\ UNCHANGED session
  BY <1>1, <1>2, <1>3 DEF RestTyped, UpdatePassword, TypeOK
<1> QED BY <1>1, <1>4, MoveOnIsSound DEF UpdatePassword

LEMMA ChangePasswordIsSound ==
    ASSUME SInv, NEW r \in Requests, ChangePassword(r) PROVE SInv'
<1>1. CASE UpdatePassword(r, "changePassword", "revoke")
  <2>1. "revoke" \in Steps \ {"persist"}
    BY DEF Steps
  <2> QED BY <1>1, <2>1, UpdatePasswordIsSound
<1>2. CASE RevokeSessions(r, "changePassword", {})
  BY <1>2, RevokeSessionsIsSound
<1>3. ASSUME NEW p \in Passwords, UNCHANGED rows,
             Accept(r, [Call("changePassword", "update") EXCEPT !.password = p])
      PROVE  SInv'
  <2>1. PICK c : c = [Call("changePassword", "update") EXCEPT !.password = p]
    OBVIOUS
  <2>2. c \in Request /\ c.op = "changePassword"
    <3>1. "changePassword" \in AllOps /\ "update" \in Steps
      BY DEF AllOps, Steps
    <3> QED BY <2>1, <3>1, CallTyped, SessionsAssumption DEF Call
  <2> QED BY <1>3, <2>1, <2>2, AcceptsAreSound
<1> QED BY <1>1, <1>2, <1>3 DEF ChangePassword

LEMMA ResetPasswordIsSound ==
    ASSUME SInv, NEW r \in Requests, ResetPassword(r) PROVE SInv'
<1>1. CASE UpdatePassword(r, "resetPassword", "clear")
  <2>1. "clear" \in Steps \ {"persist"}
    BY DEF Steps
  <2> QED BY <1>1, <2>1, UpdatePasswordIsSound
<1>2. CASE ResetPasswordClear(r)
  <2>1. RestTyped /\ UNCHANGED session /\ request[r] # Idle
    BY <1>2 DEF ResetPasswordClear, ClearPasswordResetToken, RestTyped, SInv, TypeOK, At
  <2>2. "revoke" \in Steps \ {"persist"}
    BY DEF Steps
  <2> QED BY <1>2, <2>1, <2>2, MoveOnIsSound DEF ResetPasswordClear
<1>3. CASE RevokeSessions(r, "resetPassword", {})
  BY <1>3, RevokeSessionsIsSound
<1>4. ASSUME NEW p \in Passwords, NEW l \in Links, UNCHANGED rows,
             Accept(r, [Call("resetPassword", "update") EXCEPT !.link = l, !.password = p])
      PROVE  SInv'
  <2>1. PICK c : c = [Call("resetPassword", "update") EXCEPT !.link = l, !.password = p]
    OBVIOUS
  <2>2. c \in Request /\ c.op = "resetPassword"
    <3>1. "resetPassword" \in AllOps /\ "update" \in Steps
      BY DEF AllOps, Steps
    <3> QED BY <2>1, <3>1, CallTyped, SessionsAssumption DEF Call
  <2> QED BY <1>4, <2>1, <2>2, AcceptsAreSound
<1> QED BY <1>1, <1>2, <1>3, <1>4 DEF ResetPassword

LEMMA ForgotPasswordIsSound ==
    ASSUME SInv, NEW r \in Requests, ForgotPassword(r) PROVE SInv'
<1>0. TypeOK
  BY DEF SInv
<1>1. CASE ForgotPasswordWrite(r)
  <2>1. request[r] # Idle /\ request[r].link \in Links \cup {NoLink}
    BY <1>0, <1>1 DEF ForgotPasswordWrite, At, TypeOK, Request
  <2>2. RestTyped /\ UNCHANGED session
    BY <1>0, <1>1, <2>1 DEF ForgotPasswordWrite, RestTyped, TypeOK
  <2>3. "mail" \in Steps \ {"persist"}
    BY DEF Steps
  <2> QED BY <1>1, <2>1, <2>2, <2>3, MoveOnIsSound DEF ForgotPasswordWrite
<1>2. CASE ForgotPasswordMail(r)
  <2>1. PICK l : l = request[r].link
    OBVIOUS
  <2>2. ASSUME link' = [link EXCEPT ![l].mailed = TRUE]
        PROVE  link' \in [Links -> LinkRow]
    <3>1. l \in Links => [link[l] EXCEPT !.mailed = TRUE] \in LinkRow
      BY <1>0 DEF TypeOK, LinkRow
    <3> QED BY <1>0, <2>2, <3>1 DEF TypeOK
  <2>3. RestTyped /\ UNCHANGED session /\ Finish(r)
    BY <1>0, <1>2, <2>1, <2>2 DEF ForgotPasswordMail, RestTyped, TypeOK
  <2> QED BY <1>0, <2>3, SameSessionsLessen, FinishIsSound
<1>3. ASSUME NEW l \in Links, UNCHANGED rows,
             Accept(r, [Call("forgotPassword", "link") EXCEPT !.link = l])
      PROVE  SInv'
  <2>1. PICK c : c = [Call("forgotPassword", "link") EXCEPT !.link = l]
    OBVIOUS
  <2>2. c \in Request /\ c.op = "forgotPassword"
    <3>1. "forgotPassword" \in AllOps /\ "link" \in Steps
      BY DEF AllOps, Steps
    <3> QED BY <2>1, <3>1, CallTyped, SessionsAssumption DEF Call
  <2> QED BY <1>3, <2>1, <2>2, AcceptsAreSound
<1> QED BY <1>1, <1>2, <1>3 DEF ForgotPassword

LEMMA FaultIsSound == ASSUME SInv, NEW r \in Requests, Fault(r) PROVE SInv'
BY RestStays, SameSessionsLessen, FinishIsSound DEF Fault, rows, SInv

LEMMA QuietIsSound ==
    ASSUME SInv, RestTyped, Lessens, UNCHANGED request
    PROVE  SInv'
<1>1. TypeOK'
  BY DEF SInv, TypeOK, RestTyped, Lessens
<1>2. \A q \in Requests : Succeeding(q)' => Succeeding(q) /\ request[q].sid \in Sids
  BY DEF Succeeding, At, SInv, NamesRow
<1>3. OneHeirPerLogin'
  BY <1>2 DEF SInv, OneHeirPerLogin, Lessens, Root
<1>4. Rooted' /\ \A q \in Requests : NamesRow(q)'
  BY DEF SInv, Rooted, NamesRow, Lessens, Root
<1> QED BY <1>1, <1>3, <1>4 DEF SInv

LEMMA SessionExpiresIsSound == ASSUME SInv, NEW s \in Sids, SessionExpires(s) PROVE SInv'
<1>1. PICK row : row = [session[s] EXCEPT !.expired = TRUE]
  OBVIOUS
<1>2. TypeOK
  BY DEF SInv
<1>3. /\ row \in Row /\ row.used = session[s].used /\ row.root = session[s].root
      /\ row.revokedAt = session[s].revokedAt
  BY <1>1, <1>2 DEF TypeOK, Row
<1>4. session' = [session EXCEPT ![s] = row]
  BY <1>1 DEF SessionExpires
<1> QED BY <1>2, <1>3, <1>4, RowLessens, RestStays, QuietIsSound DEF SessionExpires

LEMMA LinkExpiresIsSound == ASSUME SInv, NEW l \in Links, LinkExpires(l) PROVE SInv'
<1>1. TypeOK
  BY DEF SInv
<1>2. [link[l] EXCEPT !.expired = TRUE] \in LinkRow
  BY <1>1 DEF TypeOK, LinkRow
<1>3. link' \in [Links -> LinkRow]
  BY <1>1, <1>2 DEF LinkExpires, TypeOK
<1> QED BY <1>1, <1>3, SameSessionsLessen, QuietIsSound DEF LinkExpires, RestTyped, TypeOK

-----------------------------------------------------------------------------
(***************************************************************************)
(* The theorems                                                            *)
(***************************************************************************)
LEMMA InitIsSound == Init => SInv
<1> SUFFICES ASSUME Init
             PROVE  SInv
  OBVIOUS
<1>1. TypeOK
  BY SessionsAssumption DEF Init, TypeOK, LinkRow, Row
<1>2. \A s \in Sids : ~session[s].used
  BY DEF Init
<1>3. \A r \in Requests : request[r] = Idle
  BY DEF Init
<1> QED BY <1>1, <1>2, <1>3
        DEF SInv, OneHeirPerLogin, Rooted, NamesRow, Unrevoked, Succeeding, At

LEMMA NextIsSound == SInv /\ [Next]_vars => SInv'
<1> SUFFICES ASSUME SInv, [Next]_vars
             PROVE  SInv'
  OBVIOUS
<1>1. CASE UNCHANGED vars
  BY <1>1, RestStays, SameSessionsLessen, QuietIsSound DEF vars, rows, SInv
<1>2. ASSUME NEW r \in Requests, AuthMethod(r)
      PROVE  SInv'
  BY <1>2, LoginIsSound, RefreshIsSound, LogoutIsSound, ForgotPasswordIsSound,
     ResetPasswordIsSound, ChangePasswordIsSound, RevokeAllSessionsIsSound,
     RevokeOtherSessionsIsSound, RevokeSessionIsSound DEF AuthMethod
<1> QED BY <1>1, <1>2, FaultIsSound, SessionExpiresIsSound, LinkExpiresIsSound DEF Next

\* The account's row, its links, sessions and requests stay well typed, for any
\* session ids, passwords, links, slots and operations.
THEOREM SessionTypes == Spec => []TypeOK
<1>1. SInv => TypeOK
  BY DEF SInv
<1> QED BY <1>1, InitIsSound, NextIsSound, PTL DEF Spec

\* A login leads to one live session at most: consumeActiveToken and create are two
\* statements, and whatever refreshes, logouts, revocations and failures come between
\* them, with any number of sessions and requests, rotation never forks a session.
THEOREM OneHeir == Spec => []OneHeirPerLogin
<1>1. SInv => OneHeirPerLogin
  BY DEF SInv
<1> QED BY <1>1, InitIsSound, NextIsSound, PTL DEF Spec

-----------------------------------------------------------------------------
(***************************************************************************)
(* Accounts.  A letter never changes its account or its address, and the    *)
(* address of an account that is not verified does not change; so what a    *)
(* link was when a method read it, it still is when the method writes.      *)
(***************************************************************************)

CallOps == {"none", "register", "resendVerification", "verifyEmail",
        "requestEmailChange", "confirmEmailChange"}
Ats == {"free", "create", "link", "mail", "cleanup", "update", "taken", "clear"}
CallRow == [op: CallOps, at: Ats, of: Accounts \cup {NoOne}, email: Emails \cup {NoEmail},
            link: Letters \cup {NoLetter}]
RowsTyped == /\ account \in [Accounts -> AccountRow]
             /\ letter \in [Letters -> LetterRow]
             /\ call \in [Calls -> CallRow]

\* The letter l was written for the account a and the address e.
Written(l, a, e) == /\ l \in Letters /\ letter[l].taken
                    /\ letter[l].of = a /\ letter[l].to = e
Opened(l) == letter[l].opened

\* The address e, if it is not known to be proven, is still that of the account.
StillOf(a, e) == Exists(a) /\ ~account[a].verified => account[a].email = e
StillVerified(a) == Exists(a) => account[a].verified
AccountSound(a) ==
    Exists(a) =>
      /\ account[a].used
      /\ account[a].verified => Proven(a)
      /\ account[a].verifyLink # NoLetter =>
           LET l == account[a].verifyLink IN Written(l, a, letter[l].to) /\ StillOf(a, letter[l].to)
      /\ account[a].changeLink # NoLetter =>
           StillVerified(a) /\ Written(account[a].changeLink, a, account[a].pending)

Creating(q) == q.op = "register" /\ q.at = "create"

\* What a method has read that no other method can make untrue.
CallKnows(q) ==
    /\ q.of \in Accounts /\ q.link \in Letters /\ letter[q.link].taken
    /\ Creating(q) => ~account[q.of].used /\ Written(q.link, q.of, q.email)
    /\ ~Creating(q) => account[q.of].used
    /\ q.op \in {"register", "resendVerification"} /\ q.at = "link"
          => Written(q.link, q.of, q.email) /\ StillOf(q.of, q.email)
    /\ q.op = "verifyEmail"
          => /\ Written(q.link, q.of, letter[q.link].to) /\ Opened(q.link)
             /\ StillOf(q.of, letter[q.link].to)
    /\ q.op = "requestEmailChange" /\ q.at \in {"taken", "update"}
          => Written(q.link, q.of, q.email) /\ StillVerified(q.of)
    /\ q.op = "confirmEmailChange" /\ q.at \in {"taken", "update"}
          => /\ Written(q.link, q.of, q.email) /\ Opened(q.link)
             /\ StillVerified(q.of)
CallsKnow == \A r \in Calls : call[r] # FreeCall => CallKnows(call[r])
\* Whoever is about to create an account is alone with it.
CreatesAlone == \A r, q \in Calls : r # q /\ Creating(call[r]) => call[q].of # call[r].of
LettersSound == \A l \in Letters : letter[l].sent \/ letter[l].opened => letter[l].taken

IInv == /\ RowsTyped /\ LettersSound
        /\ \A a \in Accounts : AccountSound(a)
        /\ CallsKnow /\ CreatesAlone

-----------------------------------------------------------------------------
(***************************************************************************)
(* What steps do to letters, to accounts and to calls                      *)
(***************************************************************************)
\* Letters that were written stay as they are, but for what happens to them.
Keeps == /\ letter' \in [Letters -> LetterRow]
         /\ \A l \in Letters :
               /\ letter'[l].sent \/ letter'[l].opened => letter'[l].taken
               /\ letter[l].taken => /\ letter'[l].taken
                                     /\ letter'[l].of = letter[l].of
                                     /\ letter'[l].to = letter[l].to
                                     /\ letter[l].opened => letter'[l].opened

LEMMA WrittenStays ==
    ASSUME Keeps, NEW l, NEW a, NEW e, Written(l, a, e)
    PROVE  Written(l, a, e)'
BY DEF Keeps, Written

LEMMA OpenedStays ==
    ASSUME Keeps, NEW l \in Letters, LettersSound, Opened(l)
    PROVE  Opened(l)'
BY DEF Keeps, Opened, LettersSound

LEMMA NoLettersKeep ==
    ASSUME IInv, UNCHANGED letter
    PROVE  Keeps
BY DEF IInv, RowsTyped, LettersSound, Keeps

LEMMA TakingKeeps ==
    ASSUME IInv, NEW l \in Letters, NEW a \in Accounts, NEW e \in Emails \cup {NoEmail},
           FreshLetter(l), TakeLetter(l, a, e)
    PROVE  Keeps /\ Written(l, a, e)'
<1> DEFINE new == [taken |-> TRUE, to |-> e, of |-> a, sent |-> FALSE,
                   expired |-> FALSE, opened |-> FALSE]
<1>1. new \in LetterRow
  BY DEF LetterRow
<1>2. letter' = [letter EXCEPT ![l] = new]
  BY DEF TakeLetter
<1>3. new.taken /\ new.of = a /\ new.to = e
  OBVIOUS
<1> HIDE DEF new
<1>4. ~letter[l].taken
  BY DEF FreshLetter
<1> QED BY <1>1, <1>2, <1>3, <1>4 DEF IInv, RowsTyped, LettersSound, Keeps, Written

\* What no step does to an account, but the one that creates it.
BenignTo(a) == /\ account'[a].used = account[a].used
               /\ account'[a].exists => account[a].exists
               /\ account'[a].exists /\ account[a].verified => account'[a].verified
               /\ account'[a].exists /\ ~account'[a].verified
                     => account'[a].email = account[a].email
Benign == /\ account' \in [Accounts -> AccountRow]
          /\ \A a \in Accounts : BenignTo(a)

LEMMA NoAccountsBenign ==
    ASSUME IInv, UNCHANGED account
    PROVE  Benign
BY DEF IInv, RowsTyped, Benign, BenignTo

LEMMA OthersSound ==
    ASSUME IInv, Keeps, NEW a \in Accounts, account'[a] = account[a]
    PROVE  AccountSound(a)'
<1> SUFFICES ASSUME Exists(a)
             PROVE  AccountSound(a)'
  BY DEF AccountSound, Exists
<1> DEFINE v == account[a].verifyLink  c == account[a].changeLink
<1>1. AccountSound(a)
  BY DEF IInv
<1>2. account[a].verified => Proven(a)'
  BY <1>1 DEF AccountSound, Proven, Keeps, IInv, LettersSound
<1>3. v # NoLetter => Written(v, a, letter[v].to)' /\ StillOf(a, letter[v].to)'
  <2> SUFFICES ASSUME v # NoLetter
               PROVE  Written(v, a, letter[v].to)' /\ StillOf(a, letter[v].to)'
    OBVIOUS
  <2>1. Written(v, a, letter[v].to) /\ StillOf(a, letter[v].to)
    BY <1>1 DEF AccountSound
  <2>2. v' = v
    OBVIOUS
  <2> HIDE DEF v
  <2> QED BY <2>1, <2>2 DEF Written, StillOf, Exists, Keeps
<1>4. c # NoLetter => StillVerified(a)' /\ Written(c, a, account[a].pending)'
  <2> SUFFICES ASSUME c # NoLetter
               PROVE  StillVerified(a)' /\ Written(c, a, account[a].pending)'
    OBVIOUS
  <2>1. StillVerified(a) /\ Written(c, a, account[a].pending)
    BY <1>1 DEF AccountSound
  <2>2. c' = c
    OBVIOUS
  <2> HIDE DEF c
  <2> QED BY <2>1, <2>2 DEF Written, StillVerified, Exists, Keeps
<1> QED BY <1>1, <1>2, <1>3, <1>4 DEF AccountSound, Exists

\* What a method has read stays true while others write.
LEMMA KnownStays ==
    ASSUME IInv, Keeps, NEW r \in Calls, call'[r] = call[r], call[r] # FreeCall,
           BenignTo(call[r].of)
    PROVE  CallKnows(call[r])'
<1> DEFINE l == call[r].link  a == call[r].of
<1>1. CallKnows(call[r])
  BY DEF IInv, CallsKnow
<1>3. \A e : StillOf(a, e) => StillOf(a, e)'
  BY DEF BenignTo, StillOf, Exists
<1>4. StillVerified(a) => StillVerified(a)'
  BY DEF BenignTo, StillVerified, Exists
<1>5. \A e : Written(l, a, e) => Written(l, a, e)' /\ letter'[l].to = letter[l].to
  BY DEF Keeps, Written
<1>6. letter'[l].taken /\ (Opened(l) => Opened(l)')
  BY <1>1 DEF CallKnows, Keeps, Opened
<1>7. account'[a].used = account[a].used
  BY DEF BenignTo
<1> QED
  BY <1>1, <1>3, <1>4, <1>5, <1>6, <1>7
  DEF CallKnows, Creating, Written, Opened, StillOf, StillVerified, Exists

LEMMA OthersKnow ==
    ASSUME IInv, Keeps, Benign, NEW r \in Calls, call'[r] = call[r], call[r] # FreeCall
    PROVE  CallKnows(call[r])'
<1>1. call[r].of \in Accounts
  BY DEF IInv, CallsKnow, CallKnows
<1> QED BY <1>1, KnownStays DEF Benign

-----------------------------------------------------------------------------
(***************************************************************************)
(* A method begins, goes on, or ends                                       *)
(***************************************************************************)
CallMoves(r) == /\ call' \in [Calls -> CallRow]
                /\ \A q \in Calls \ {r} : call'[q] = call[q]

LEMMA BeginCall ==
    ASSUME IInv, NEW r \in Calls, NEW op \in CallOps, NEW at \in Ats, NEW a \in Accounts,
           NEW e \in Emails \cup {NoEmail}, NEW l \in Letters, Begin(r, op, at, a, e, l)
    PROVE  /\ CallMoves(r)
           /\ call'[r] = [op |-> op, at |-> at, of |-> a, email |-> e, link |-> l]
           /\ call[r] = FreeCall
<1> DEFINE row == [op |-> op, at |-> at, of |-> a, email |-> e, link |-> l]
<1>1. row \in CallRow
  BY DEF CallRow
<1>2. call' = [call EXCEPT ![r] = row] /\ call[r] = FreeCall
  BY DEF Begin
<1> HIDE DEF row
<1>3. call' \in [Calls -> CallRow] /\ call'[r] = row
  BY <1>1, <1>2 DEF IInv, RowsTyped
<1>4. \A q \in Calls \ {r} : call'[q] = call[q]
  BY <1>2 DEF IInv, RowsTyped
<1> QED BY <1>2, <1>3, <1>4 DEF CallMoves, row

LEMMA MoveCall ==
    ASSUME IInv, NEW r \in Calls, NEW at \in Ats, MovesTo(r, at)
    PROVE  /\ CallMoves(r)
           /\ call'[r].op = call[r].op /\ call'[r].at = at /\ call'[r].of = call[r].of
           /\ call'[r].email = call[r].email /\ call'[r].link = call[r].link
<1>1. call[r] \in CallRow
  BY DEF IInv, RowsTyped
<1> DEFINE row == [call[r] EXCEPT !.at = at]
<1>2. row \in CallRow
  BY <1>1 DEF CallRow
<1>3. /\ row.op = call[r].op /\ row.at = at /\ row.of = call[r].of
      /\ row.email = call[r].email /\ row.link = call[r].link
  BY <1>1 DEF CallRow
<1>4. call' = [call EXCEPT ![r] = row]
  BY DEF MovesTo, IInv, RowsTyped
<1> HIDE DEF row
<1>5. CallMoves(r) /\ call'[r] = row
  BY <1>2, <1>4 DEF IInv, RowsTyped, CallMoves
<1> QED BY <1>3, <1>5

LEMMA EndCall ==
    ASSUME IInv, NEW r \in Calls, Done(r)
    PROVE  CallMoves(r) /\ call'[r] = FreeCall
<1>1. FreeCall \in CallRow
  BY DEF FreeCall, CallRow, CallOps, Ats
<1> QED BY <1>1 DEF IInv, RowsTyped, CallMoves, Done

LEMMA MoveKeepsIInv ==
    ASSUME IInv, Keeps, Benign, NEW r \in Calls, CallMoves(r),
           \A a \in Accounts : AccountSound(a)',
           \/ call'[r] = FreeCall
           \/ /\ call[r] # FreeCall /\ CallKnows(call[r])' /\ ~Creating(call[r])'
              /\ call'[r].of = call[r].of
           \/ CallKnows(call[r])' /\ ~Creating(call[r])' /\ account[call'[r].of].used
    PROVE  IInv'
<1>1. RowsTyped' /\ LettersSound'
  BY DEF RowsTyped, Keeps, Benign, CallMoves, LettersSound
<1>2. CallsKnow'
  BY OthersKnow DEF CallMoves, CallsKnow
<1>3. CreatesAlone'
  <2> SUFFICES ASSUME NEW p \in Calls, NEW q \in Calls, p # q, Creating(call[p])'
               PROVE  call'[q].of # call'[p].of
    BY DEF CreatesAlone
  <2>1. ~Creating(FreeCall)
    BY DEF Creating, FreeCall
  <2>2. p # r
    BY <2>1 DEF Creating
  <2>3. call'[p] = call[p] /\ Creating(call[p])
    BY <2>2 DEF CallMoves, Creating
  <2>4. call[p].of \in Accounts /\ ~account[call[p].of].used
    BY <2>1, <2>3 DEF IInv, CallsKnow, CallKnows
  <2>5. call[q].of # call[p].of
    BY <2>3 DEF IInv, CreatesAlone
  <2>6. CASE q # r
    BY <2>3, <2>5, <2>6 DEF CallMoves
  <2>7. CASE q = r
    BY <2>3, <2>4, <2>5, <2>7, AccountsAssumption DEF FreeCall
  <2> QED BY <2>6, <2>7
<1> QED BY <1>1, <1>2, <1>3 DEF IInv

LEMMA DoneKeepsIInv ==
    ASSUME IInv, Keeps, UNCHANGED account, NEW r \in Calls, Done(r)
    PROVE  IInv'
BY NoAccountsBenign, OthersSound, EndCall, MoveKeepsIInv

LEMMA FailureKeepsIInv ==
    ASSUME IInv, NEW r \in Calls, AccountFails(r)
    PROVE  IInv'
BY NoLettersKeep, DoneKeepsIInv DEF AccountFails

LEMMA ExpiryKeepsIInv ==
    ASSUME IInv, NEW l \in Letters, LetterExpires(l)
    PROVE  IInv'
<1>1. letter[l] \in LetterRow /\ letter[l].taken
  BY DEF IInv, RowsTyped, LettersSound, LetterExpires
<1>2. [letter[l] EXCEPT !.expired = TRUE] \in LetterRow
  BY <1>1 DEF LetterRow
<1>3. letter' = [letter EXCEPT ![l] = [letter[l] EXCEPT !.expired = TRUE]]
  BY DEF LetterExpires, IInv, RowsTyped
<1>4. letter' \in [Letters -> LetterRow]
  BY <1>2, <1>3 DEF IInv, RowsTyped
<1>5. \A k \in Letters : /\ letter'[k].sent = letter[k].sent /\ letter'[k].taken = letter[k].taken
                         /\ letter'[k].of = letter[k].of /\ letter'[k].to = letter[k].to
                         /\ letter'[k].opened = letter[k].opened
  BY <1>1, <1>3 DEF IInv, RowsTyped, LetterRow
<1>6. Keeps
  BY <1>4, <1>5 DEF Keeps, IInv, LettersSound
<1>7. UNCHANGED <<account, call>>
  BY DEF LetterExpires
<1>8. Benign /\ \A a \in Accounts : AccountSound(a)'
  BY <1>6, <1>7, NoAccountsBenign, OthersSound
<1>9. CallsKnow'
  BY <1>6, <1>7, <1>8, OthersKnow DEF CallsKnow
<1> QED BY <1>4, <1>6, <1>7, <1>8, <1>9
        DEF IInv, RowsTyped, LettersSound, Keeps, CreatesAlone, Creating

-----------------------------------------------------------------------------
(***************************************************************************)
(* Each action                                                             *)
(***************************************************************************)
LEMMA DeliverKeeps ==
    ASSUME IInv, NEW r \in Calls, call[r] # FreeCall, Deliver(r) \/ UNCHANGED letter
    PROVE  Keeps
<1> DEFINE l == call[r].link
<1>1. l \in Letters /\ letter[l].taken /\ letter[l] \in LetterRow
  BY DEF IInv, RowsTyped, CallsKnow, CallKnows
<1>2. CASE UNCHANGED letter
  BY <1>2, NoLettersKeep
<1>3. CASE Deliver(r)
  <2>1. [letter[l] EXCEPT !.sent = TRUE] \in LetterRow
    BY <1>1 DEF LetterRow
  <2>2. letter' = [letter EXCEPT ![l] = [letter[l] EXCEPT !.sent = TRUE]]
    BY <1>1, <1>3 DEF Deliver, IInv, RowsTyped
  <2> HIDE DEF l
  <2>3. letter' \in [Letters -> LetterRow]
    BY <2>1, <2>2 DEF IInv, RowsTyped
  <2>4. \A k \in Letters : /\ letter'[k].taken = letter[k].taken
                           /\ letter'[k].of = letter[k].of /\ letter'[k].to = letter[k].to
                           /\ letter'[k].opened = letter[k].opened
                           /\ letter'[k].sent => k = l \/ letter[k].sent
    BY <1>1, <2>2 DEF IInv, RowsTyped, LetterRow
  <2> QED BY <1>1, <2>3, <2>4 DEF Keeps, IInv, LettersSound
<1> QED BY <1>2, <1>3

LEMMA OpensKeeps ==
    ASSUME IInv, NEW l \in Letters, Opens(l)
    PROVE  Keeps /\ Opened(l)'
<1>1. letter[l] \in LetterRow /\ letter[l].taken
  BY DEF IInv, RowsTyped, LettersSound, Opens
<1>2. [letter[l] EXCEPT !.opened = TRUE] \in LetterRow
  BY <1>1 DEF LetterRow
<1>3. letter' = [letter EXCEPT ![l] = [letter[l] EXCEPT !.opened = TRUE]]
  BY DEF Opens, IInv, RowsTyped
<1>4. letter' \in [Letters -> LetterRow]
  BY <1>2, <1>3 DEF IInv, RowsTyped
<1>5. \A k \in Letters : /\ letter'[k].taken = letter[k].taken
                         /\ letter'[k].of = letter[k].of /\ letter'[k].to = letter[k].to
                         /\ letter'[k].sent = letter[k].sent
                         /\ letter[k].opened => letter'[k].opened
                         /\ letter'[k].opened => k = l \/ letter[k].opened
  BY <1>1, <1>3 DEF IInv, RowsTyped, LetterRow
<1>6. Opened(l)'
  BY <1>1, <1>3 DEF Opened, IInv, RowsTyped, LetterRow
<1> QED BY <1>1, <1>4, <1>5, <1>6 DEF Keeps, IInv, LettersSound

\* Whatever the mail server does, the method ends or goes to its cleanup.
LEMMA MailKeepsIInv ==
    ASSUME IInv, NEW r \in Calls,
           RegisterMail(r) \/ ResendVerificationMail(r) \/ RequestEmailChangeMail(r)
    PROVE  IInv'
<1>1. call[r] # FreeCall /\ UNCHANGED account
  BY DEF RegisterMail, ResendVerificationMail, RequestEmailChangeMail, Serving, FreeCall
<1>2. Deliver(r) \/ UNCHANGED letter
  BY DEF RegisterMail, ResendVerificationMail, RequestEmailChangeMail, Sending
<1>3. Keeps
  BY <1>1, <1>2, DeliverKeeps
<1>4. CASE Done(r)
  BY <1>1, <1>3, <1>4, DoneKeepsIInv
<1>5. CASE Serving(r, "register", "mail") /\ MovesTo(r, "cleanup")
  <2>1. CallMoves(r) /\ call'[r].op = "register" /\ call'[r].at = "cleanup"
        /\ call'[r].of = call[r].of /\ call'[r].link = call[r].link
    BY <1>5, MoveCall DEF Ats, Serving
  <2>2. CallKnows(call[r])
    BY <1>1 DEF IInv, CallsKnow
  <2>3. account[call[r].of].used
    BY <1>5, <2>2 DEF CallKnows, Creating, Serving
  <2>4. CallKnows(call[r])' /\ ~Creating(call[r])'
    BY <1>1, <1>3, <2>1, <2>2, <2>3 DEF CallKnows, Creating, Keeps
  <2> QED BY <1>1, <1>3, <2>1, <2>4, NoAccountsBenign, OthersSound, MoveKeepsIInv
<1> QED BY <1>4, <1>5
        DEF RegisterMail, ResendVerificationMail, RequestEmailChangeMail, Sending

LEMMA RegisterCheckKeepsIInv ==
    ASSUME IInv, NEW r \in Calls, RegisterCheck(r)
    PROVE  IInv'
<1>1. PICK a \in Accounts, e \in Emails, l \in Letters :
         /\ ~account[a].used /\ FreshLetter(l)
         /\ \A q \in Calls : call[q].of = a => call[q].op # "register"
         /\ Begin(r, "register", "create", a, e, l)
         /\ TakeLetter(l, a, e)
  BY DEF RegisterCheck
<1>2. UNCHANGED account
  BY DEF RegisterCheck
<1>3. Keeps /\ Written(l, a, e)'
  BY <1>1, TakingKeeps
<1>4. CallMoves(r) /\ call[r] = FreeCall
      /\ call'[r] = [op |-> "register", at |-> "create", of |-> a, email |-> e, link |-> l]
  <2>1. "register" \in CallOps /\ "create" \in Ats
    BY DEF CallOps, Ats
  <2> QED BY <2>1, <1>1, BeginCall
<1>5. Benign
  BY <1>2, NoAccountsBenign
<1>6. \A b \in Accounts : AccountSound(b)'
  BY <1>2, <1>3, OthersSound
<1>7. RowsTyped' /\ LettersSound'
  BY <1>3, <1>4, <1>5 DEF RowsTyped, Keeps, Benign, CallMoves, LettersSound
<1>8. CallKnows(call[r])'
  BY <1>1, <1>2, <1>3, <1>4 DEF CallKnows, Creating, Written
<1>9. CallsKnow'
  BY <1>3, <1>4, <1>5, <1>8, OthersKnow DEF CallMoves, CallsKnow
<1>10. \A q \in Calls \ {r} : call'[q].of # a
  <2> SUFFICES ASSUME NEW q \in Calls \ {r}, call[q].of = a
               PROVE  FALSE
    BY <1>4 DEF CallMoves
  <2>1. call[q] # FreeCall
    BY AccountsAssumption DEF FreeCall
  <2>2. CallKnows(call[q])
    BY <2>1 DEF IInv, CallsKnow
  <2> QED BY <1>1, <2>2 DEF CallKnows, Creating
<1>11. CreatesAlone'
  <2> SUFFICES ASSUME NEW p \in Calls, NEW q \in Calls, p # q, Creating(call[p])'
               PROVE  call'[q].of # call'[p].of
    BY DEF CreatesAlone
  <2>1. CASE p = r
    BY <2>1, <1>4, <1>10
  <2>2. CASE q = r
    BY <2>2, <1>4, <1>10
  <2>3. CASE p # r /\ q # r
    BY <2>3, <1>4 DEF CallMoves, IInv, CreatesAlone, Creating
  <2> QED BY <2>1, <2>2, <2>3
<1> QED BY <1>6, <1>7, <1>9, <1>11 DEF IInv

LEMMA ResendVerificationCheckKeepsIInv ==
    ASSUME IInv, NEW r \in Calls, ResendVerificationCheck(r)
    PROVE  IInv'
<1>1. PICK a \in Accounts, l \in Letters :
         /\ Exists(a) /\ ~account[a].verified /\ FreshLetter(l)
         /\ Begin(r, "resendVerification", "link", a, account[a].email, l)
         /\ TakeLetter(l, a, account[a].email)
  BY DEF ResendVerificationCheck
<1>2. UNCHANGED account
  BY DEF ResendVerificationCheck
<1>3. PICK e \in Emails \cup {NoEmail} : e = account[a].email
  BY DEF IInv, RowsTyped, AccountRow
<1>4. Keeps /\ Written(l, a, e)'
  BY <1>1, <1>3, TakingKeeps
<1>5. CallMoves(r)
      /\ call'[r] = [op |-> "resendVerification", at |-> "link", of |-> a, email |-> e, link |-> l]
  <2>1. "resendVerification" \in CallOps /\ "link" \in Ats
    BY DEF CallOps, Ats
  <2> QED BY <2>1, <1>1, <1>3, BeginCall
<1>6. account[a].used
  BY <1>1 DEF IInv, AccountSound
<1>7. StillOf(a, e)'
  BY <1>2, <1>3 DEF StillOf, Exists
<1>8. CallKnows(call[r])' /\ ~Creating(call[r])'
  BY <1>2, <1>4, <1>5, <1>6, <1>7 DEF CallKnows, Creating, Written
<1> QED BY <1>2, <1>4, <1>5, <1>6, <1>8, NoAccountsBenign, OthersSound, MoveKeepsIInv

LEMMA VerifyEmailCheckKeepsIInv ==
    ASSUME IInv, NEW r \in Calls, VerifyEmailCheck(r)
    PROVE  IInv'
<1>1. PICK a \in Accounts, l \in Letters :
         /\ Exists(a) /\ account[a].verifyLink = l
         /\ Opens(l)
         /\ Begin(r, "verifyEmail", "update", a, NoEmail, l)
  BY DEF VerifyEmailCheck
<1>2. UNCHANGED account
  BY DEF VerifyEmailCheck
<1>3. Keeps /\ Opened(l)'
  BY <1>1, OpensKeeps
<1>4. CallMoves(r)
      /\ call'[r] = [op |-> "verifyEmail", at |-> "update", of |-> a, email |-> NoEmail, link |-> l]
  <2>1. "verifyEmail" \in CallOps /\ "update" \in Ats
    BY DEF CallOps, Ats
  <2> QED BY <2>1, <1>1, BeginCall
<1>5. account[a].used /\ Written(l, a, letter[l].to) /\ StillOf(a, letter[l].to)
  BY <1>1, AccountsAssumption DEF IInv, AccountSound
<1>6. Written(l, a, letter[l].to)' /\ StillOf(a, letter[l].to)'
  BY <1>2, <1>3, <1>5 DEF Written, StillOf, Exists, Keeps
<1>7. CallKnows(call[r])' /\ ~Creating(call[r])'
  BY <1>2, <1>3, <1>4, <1>5, <1>6 DEF CallKnows, Creating, Written
<1> QED BY <1>2, <1>3, <1>4, <1>5, <1>7, NoAccountsBenign, OthersSound, MoveKeepsIInv

LEMMA RequestEmailChangeUserKeepsIInv ==
    ASSUME IInv, NEW r \in Calls, RequestEmailChangeUser(r)
    PROVE  IInv'
<1>1. PICK a \in Accounts, e \in Emails, l \in Letters :
         /\ Exists(a) /\ account[a].verified /\ FreshLetter(l)
         /\ Begin(r, "requestEmailChange", "taken", a, e, l)
         /\ TakeLetter(l, a, e)
  BY DEF RequestEmailChangeUser
<1>2. UNCHANGED account
  BY DEF RequestEmailChangeUser
<1>3. Keeps /\ Written(l, a, e)'
  BY <1>1, TakingKeeps
<1>4. CallMoves(r)
      /\ call'[r] = [op |-> "requestEmailChange", at |-> "taken", of |-> a, email |-> e, link |-> l]
  <2>1. "requestEmailChange" \in CallOps /\ "taken" \in Ats
    BY DEF CallOps, Ats
  <2> QED BY <2>1, <1>1, BeginCall
<1>5. account[a].used
  BY <1>1 DEF IInv, AccountSound
<1>6. StillVerified(a)'
  BY <1>1, <1>2 DEF StillVerified
<1>7. CallKnows(call[r])' /\ ~Creating(call[r])'
  BY <1>2, <1>3, <1>4, <1>5, <1>6 DEF CallKnows, Creating, Written
<1> QED BY <1>2, <1>3, <1>4, <1>5, <1>7, NoAccountsBenign, OthersSound, MoveKeepsIInv

LEMMA ConfirmEmailChangeCheckKeepsIInv ==
    ASSUME IInv, NEW r \in Calls, ConfirmEmailChangeCheck(r)
    PROVE  IInv'
<1>1. PICK a \in Accounts, l \in Letters :
         /\ Exists(a) /\ account[a].changeLink = l
         /\ Opens(l)
         /\ Begin(r, "confirmEmailChange", "taken", a, account[a].pending, l)
  BY DEF ConfirmEmailChangeCheck
<1>2. UNCHANGED account
  BY DEF ConfirmEmailChangeCheck
<1>3. PICK e \in Emails \cup {NoEmail} : e = account[a].pending
  BY DEF IInv, RowsTyped, AccountRow
<1>4. Keeps /\ Opened(l)'
  BY <1>1, OpensKeeps
<1>5. CallMoves(r)
      /\ call'[r] = [op |-> "confirmEmailChange", at |-> "taken", of |-> a, email |-> e, link |-> l]
  <2>1. "confirmEmailChange" \in CallOps /\ "taken" \in Ats
    BY DEF CallOps, Ats
  <2> QED BY <2>1, <1>1, <1>3, BeginCall
<1>6. account[a].used /\ Written(l, a, e) /\ StillVerified(a)
  BY <1>1, <1>3, AccountsAssumption DEF IInv, AccountSound
<1>7. Written(l, a, e)' /\ StillVerified(a)'
  BY <1>2, <1>4, <1>6 DEF Written, StillVerified, Exists, Keeps
<1>8. CallKnows(call[r])' /\ ~Creating(call[r])'
  BY <1>2, <1>4, <1>5, <1>6, <1>7 DEF CallKnows, Creating, Written
<1> QED BY <1>2, <1>4, <1>5, <1>6, <1>8, NoAccountsBenign, OthersSound, MoveKeepsIInv

\* One row is written: the account neither comes to be nor, while it is not
\* verified, changes its address.
LEMMA RowWritten ==
    ASSUME IInv, NEW a \in Accounts, NEW row \in AccountRow,
           account' = [account EXCEPT ![a] = row],
           row.used = account[a].used, row.exists => account[a].exists,
           row.exists /\ account[a].verified => row.verified,
           row.exists /\ ~row.verified => row.email = account[a].email
    PROVE  /\ account'[a] = row /\ Benign
           /\ \A b \in Accounts \ {a} : account'[b] = account[b]
<1>1. /\ account' \in [Accounts -> AccountRow] /\ account'[a] = row
      /\ \A b \in Accounts \ {a} : account'[b] = account[b]
  BY DEF IInv, RowsTyped
<1> QED BY <1>1 DEF Benign, BenignTo

\* What every write can rely on.
LEMMA CallFacts ==
    ASSUME IInv, NEW r \in Calls, call[r] # FreeCall
    PROVE  /\ CallKnows(call[r])
           /\ \E a \in Accounts, l \in Letters, e \in Emails \cup {NoEmail} :
                /\ call[r].of = a /\ call[r].link = l /\ call[r].email = e
                /\ account[a] \in AccountRow /\ AccountSound(a) /\ letter[l].taken
<1>1. CallKnows(call[r])
  BY DEF IInv, CallsKnow
<1>2. /\ call[r].of \in Accounts /\ call[r].link \in Letters /\ letter[call[r].link].taken
      /\ call[r].email \in Emails \cup {NoEmail}
  BY <1>1 DEF IInv, RowsTyped, CallKnows, CallRow
<1> QED BY <1>1, <1>2 DEF IInv, RowsTyped

\* The method goes on to a step where it relies on nothing it has read.
LEMMA MoveForgets ==
    ASSUME IInv, Keeps, Benign, NEW r \in Calls, call[r] # FreeCall, ~Creating(call[r]),
           NEW at \in {"mail", "clear"}, MovesTo(r, at), call[r].op # "verifyEmail",
           \A a \in Accounts : AccountSound(a)'
    PROVE  IInv'
<1>1. at \in Ats
  BY DEF Ats
<1>2. /\ CallMoves(r)
      /\ call'[r].op = call[r].op /\ call'[r].at = at /\ call'[r].of = call[r].of
      /\ call'[r].link = call[r].link
  BY <1>1, MoveCall
<1>3. CallKnows(call[r])
  BY CallFacts
<1>4. CallKnows(call[r])' /\ ~Creating(call[r])'
  BY <1>2, <1>3 DEF CallKnows, Creating, Keeps, Benign, BenignTo
<1> QED BY <1>2, <1>4, MoveKeepsIInv

LEMMA UpdateEmailVerificationTokenKeepsIInv ==
    ASSUME IInv, NEW r \in Calls, UpdateEmailVerificationToken(r)
    PROVE  IInv'
<1>1. /\ call[r] # FreeCall /\ ~Creating(call[r]) /\ call[r].op # "verifyEmail"
      /\ call[r].op \in {"register", "resendVerification"} /\ call[r].at = "link"
  BY DEF UpdateEmailVerificationToken, Serving, FreeCall, Creating
<1>2. PICK a \in Accounts, l \in Letters :
         /\ call[r].of = a /\ call[r].link = l
         /\ account[a] \in AccountRow /\ AccountSound(a)
  BY <1>1, CallFacts
<1>3. UNCHANGED letter /\ Keeps
  BY NoLettersKeep DEF UpdateEmailVerificationToken
<1>4. CASE ~Exists(a)
  BY <1>2, <1>3, <1>4, DoneKeepsIInv DEF UpdateEmailVerificationToken, UpdateUser
<1>5. CASE Exists(a)
  <2>1. PICK row : row = [account[a] EXCEPT !.verifyLink = l]
    OBVIOUS
  <2>2. account' = [account EXCEPT ![a] = row] /\ MovesTo(r, "mail")
    BY <1>2, <1>5, <2>1 DEF UpdateEmailVerificationToken, UpdateUser
  <2>3. /\ row \in AccountRow /\ row.exists = account[a].exists /\ row.used = account[a].used
        /\ row.verified = account[a].verified /\ row.email = account[a].email
        /\ row.verifyLink = l /\ row.pending = account[a].pending
        /\ row.changeLink = account[a].changeLink
    BY <1>2, <2>1 DEF AccountRow
  <2>4. /\ account'[a] = row /\ Benign
        /\ \A b \in Accounts \ {a} : account'[b] = account[b]
    BY <2>2, <2>3, RowWritten
  <2>5. Written(l, a, letter[l].to) /\ StillOf(a, letter[l].to)
    BY <1>1, <1>2, CallFacts DEF CallKnows, Written
  <2>6. AccountSound(a)'
    BY <1>2, <1>3, <1>5, <2>3, <2>4, <2>5
    DEF AccountSound, Exists, Proven, Written, StillOf, StillVerified
  <2>7. \A b \in Accounts : AccountSound(b)'
    BY <1>3, <2>4, <2>6, OthersSound
  <2> QED BY <1>1, <1>3, <2>2, <2>4, <2>7, MoveForgets
<1> QED BY <1>4, <1>5

LEMMA UpdateEmailChangeTokenKeepsIInv ==
    ASSUME IInv, NEW r \in Calls, UpdateEmailChangeToken(r)
    PROVE  IInv'
<1>1. /\ call[r] # FreeCall /\ ~Creating(call[r])
      /\ call[r].op = "requestEmailChange" /\ call[r].at = "update"
  BY DEF UpdateEmailChangeToken, Serving, FreeCall, Creating
<1>2. PICK a \in Accounts, l \in Letters, e \in Emails \cup {NoEmail} :
         /\ call[r].of = a /\ call[r].link = l /\ call[r].email = e
         /\ account[a] \in AccountRow /\ AccountSound(a)
  BY <1>1, CallFacts
<1>3. UNCHANGED letter /\ Keeps
  BY NoLettersKeep DEF UpdateEmailChangeToken
<1>4. CASE ~Exists(a)
  BY <1>2, <1>3, <1>4, DoneKeepsIInv DEF UpdateEmailChangeToken, UpdateUser
<1>5. CASE Exists(a)
  <2>1. PICK row : row = [account[a] EXCEPT !.pending = e, !.changeLink = l]
    OBVIOUS
  <2>2. account' = [account EXCEPT ![a] = row] /\ MovesTo(r, "mail")
    BY <1>2, <1>5, <2>1 DEF UpdateEmailChangeToken, UpdateUser
  <2>3. /\ row \in AccountRow /\ row.exists = account[a].exists /\ row.used = account[a].used
        /\ row.verified = account[a].verified /\ row.email = account[a].email
        /\ row.verifyLink = account[a].verifyLink /\ row.pending = e /\ row.changeLink = l
    BY <1>2, <2>1 DEF AccountRow
  <2>4. /\ account'[a] = row /\ Benign
        /\ \A b \in Accounts \ {a} : account'[b] = account[b]
    BY <2>2, <2>3, RowWritten
  <2>5. Written(l, a, e) /\ StillVerified(a)
    BY <1>1, <1>2, CallFacts DEF CallKnows
  <2>6. AccountSound(a)'
    BY <1>2, <1>3, <1>5, <2>3, <2>4, <2>5
    DEF AccountSound, Exists, Proven, Written, StillOf, StillVerified
  <2>7. \A b \in Accounts : AccountSound(b)'
    BY <1>3, <2>4, <2>6, OthersSound
  <2> QED BY <1>1, <1>3, <2>2, <2>4, <2>7, MoveForgets
<1> QED BY <1>4, <1>5

\* The link was followed, and the address of an account that is not verified is
\* still the one the link was sent to.
LEMMA MarkEmailVerifiedKeepsIInv ==
    ASSUME IInv, NEW r \in Calls, MarkEmailVerified(r)
    PROVE  IInv'
<1>1. /\ call[r] # FreeCall /\ call[r].op = "verifyEmail"
      /\ UNCHANGED letter /\ Done(r)
  BY DEF MarkEmailVerified, Serving, FreeCall
<1>2. PICK a \in Accounts, l \in Letters :
         /\ call[r].of = a /\ call[r].link = l
         /\ account[a] \in AccountRow /\ AccountSound(a)
  BY <1>1, CallFacts
<1>3. Keeps
  BY <1>1, NoLettersKeep
<1>4. CASE ~Exists(a)
  BY <1>1, <1>2, <1>3, <1>4, DoneKeepsIInv DEF MarkEmailVerified
<1>5. CASE Exists(a)
  <2>1. PICK row : row = [account[a] EXCEPT !.verified = TRUE, !.verifyLink = NoLetter]
    OBVIOUS
  <2>2. account' = [account EXCEPT ![a] = row]
    BY <1>2, <1>5, <2>1 DEF MarkEmailVerified, IInv, RowsTyped, AccountRow
  <2>3. /\ row \in AccountRow /\ row.exists = account[a].exists /\ row.used = account[a].used
        /\ row.verified /\ row.email = account[a].email
        /\ row.verifyLink = NoLetter /\ row.pending = account[a].pending
        /\ row.changeLink = account[a].changeLink
    BY <1>2, <2>1 DEF AccountRow
  <2>4. /\ account'[a] = row /\ Benign
        /\ \A b \in Accounts \ {a} : account'[b] = account[b]
    BY <2>2, <2>3, RowWritten
  <2>5. Written(l, a, letter[l].to) /\ Opened(l) /\ StillOf(a, letter[l].to)
    BY <1>1, <1>2, CallFacts DEF CallKnows
  <2>6. AccountSound(a)'
    BY <1>1, <1>2, <1>5, <2>3, <2>4, <2>5
    DEF AccountSound, Exists, Proven, Opened, Written, StillOf, StillVerified
  <2>7. \A b \in Accounts : AccountSound(b)'
    BY <1>3, <2>4, <2>6, OthersSound
  <2> QED BY <1>1, <1>3, <2>4, <2>7, EndCall, MoveKeepsIInv
<1> QED BY <1>4, <1>5

LEMMA CheckEmailFreeKeepsIInv ==
    ASSUME IInv, NEW r \in Calls, CheckEmailFree(r)
    PROVE  IInv'
<1>1. /\ call[r] # FreeCall /\ ~Creating(call[r]) /\ call[r].at = "taken"
      /\ call[r].op \in {"requestEmailChange", "confirmEmailChange"}
      /\ UNCHANGED <<account, letter>>
  BY DEF CheckEmailFree, Serving, FreeCall, Creating
<1>2. Keeps
  BY <1>1, NoLettersKeep
<1>3. CASE Done(r)
  BY <1>1, <1>2, <1>3, DoneKeepsIInv
<1>4. CASE MovesTo(r, "update")
  <2>1. "update" \in Ats
    BY DEF Ats
  <2>2. /\ CallMoves(r)
        /\ call'[r].op = call[r].op /\ call'[r].at = "update" /\ call'[r].of = call[r].of
        /\ call'[r].email = call[r].email /\ call'[r].link = call[r].link
    BY <1>4, <2>1, MoveCall
  <2>3. CallKnows(call[r])
    BY <1>1, CallFacts
  <2>4. CallKnows(call[r])' /\ ~Creating(call[r])'
    BY <1>1, <2>2, <2>3
    DEF CallKnows, Creating, Written, Opened, StillOf, StillVerified, Exists
  <2> QED BY <1>1, <1>2, <2>2, <2>4, NoAccountsBenign, OthersSound, MoveKeepsIInv
<1> QED BY <1>3, <1>4 DEF CheckEmailFree

\* The address is written together with the flag, and its link was followed.
LEMMA UpdateEmailKeepsIInv ==
    ASSUME IInv, NEW r \in Calls, UpdateEmail(r)
    PROVE  IInv'
<1>1. /\ call[r] # FreeCall /\ ~Creating(call[r]) /\ UNCHANGED letter
      /\ call[r].op = "confirmEmailChange" /\ call[r].at = "update"
  BY DEF UpdateEmail, Serving, FreeCall, Creating
<1>2. PICK a \in Accounts, l \in Letters, e \in Emails \cup {NoEmail} :
         /\ call[r].of = a /\ call[r].link = l /\ call[r].email = e
         /\ account[a] \in AccountRow /\ AccountSound(a)
  BY <1>1, CallFacts
<1>3. Keeps
  BY <1>1, NoLettersKeep
<1>4. CASE ~Exists(a) \/ EmailConflict(a, e)
  BY <1>1, <1>2, <1>3, <1>4, DoneKeepsIInv DEF UpdateEmail
<1>5. CASE Exists(a) /\ ~EmailConflict(a, e)
  <2>1. PICK row : row = [account[a] EXCEPT !.email = e, !.verified = TRUE]
    OBVIOUS
  <2>2. account' = [account EXCEPT ![a] = row] /\ MovesTo(r, "clear")
    BY <1>2, <1>5, <2>1 DEF UpdateEmail, IInv, RowsTyped, AccountRow
  <2>3. /\ row \in AccountRow /\ row.exists = account[a].exists /\ row.used = account[a].used
        /\ row.verified /\ row.email = e
        /\ row.verifyLink = account[a].verifyLink /\ row.pending = account[a].pending
        /\ row.changeLink = account[a].changeLink
    BY <1>2, <2>1 DEF AccountRow
  <2>4. /\ account'[a] = row /\ Benign
        /\ \A b \in Accounts \ {a} : account'[b] = account[b]
    BY <2>2, <2>3, RowWritten
  <2>5. Written(l, a, e) /\ Opened(l)
    BY <1>1, <1>2, CallFacts DEF CallKnows
  <2>6. AccountSound(a)'
    BY <1>1, <1>2, <1>5, <2>3, <2>4, <2>5
    DEF AccountSound, Exists, Proven, Opened, Written, StillOf, StillVerified
  <2>7. \A b \in Accounts : AccountSound(b)'
    BY <1>3, <2>4, <2>6, OthersSound
  <2> QED BY <1>1, <1>3, <2>2, <2>4, <2>7, MoveForgets
<1> QED BY <1>4, <1>5

LEMMA ClearEmailChangeTokenKeepsIInv ==
    ASSUME IInv, NEW r \in Calls, ClearEmailChangeToken(r)
    PROVE  IInv'
<1>1. call[r] # FreeCall /\ UNCHANGED letter /\ Done(r)
  BY DEF ClearEmailChangeToken, Serving, FreeCall
<1>2. PICK a \in Accounts :
         call[r].of = a /\ account[a] \in AccountRow /\ AccountSound(a)
  BY <1>1, CallFacts
<1>3. Keeps
  BY <1>1, NoLettersKeep
<1>4. CASE ~Exists(a)
  BY <1>1, <1>2, <1>3, <1>4, DoneKeepsIInv DEF ClearEmailChangeToken
<1>5. CASE Exists(a)
  <2>1. PICK row : row = [account[a] EXCEPT !.pending = NoEmail, !.changeLink = NoLetter]
    OBVIOUS
  <2>2. account' = [account EXCEPT ![a] = row]
    BY <1>2, <1>5, <2>1 DEF ClearEmailChangeToken, IInv, RowsTyped, AccountRow
  <2>3. /\ row \in AccountRow /\ row.exists = account[a].exists /\ row.used = account[a].used
        /\ row.verified = account[a].verified /\ row.email = account[a].email
        /\ row.verifyLink = account[a].verifyLink /\ row.changeLink = NoLetter
    BY <1>2, <2>1 DEF AccountRow
  <2>4. /\ account'[a] = row /\ Benign
        /\ \A b \in Accounts \ {a} : account'[b] = account[b]
    BY <2>2, <2>3, RowWritten
  <2>5. AccountSound(a)'
    BY <1>1, <1>2, <1>5, <2>3, <2>4
    DEF AccountSound, Exists, Proven, Written, StillOf, StillVerified
  <2>6. \A b \in Accounts : AccountSound(b)'
    BY <1>3, <2>4, <2>5, OthersSound
  <2> QED BY <1>1, <1>3, <2>4, <2>6, EndCall, MoveKeepsIInv
<1> QED BY <1>4, <1>5

\* Nobody else is about the account that comes to be.
LEMMA RegisterCreateKeepsIInv ==
    ASSUME IInv, NEW r \in Calls, RegisterCreate(r)
    PROVE  IInv'
<1>1. /\ call[r] # FreeCall /\ UNCHANGED letter /\ Creating(call[r])
      /\ call[r].op = "register" /\ call[r].at = "create"
  BY DEF RegisterCreate, Serving, FreeCall, Creating
<1>2. PICK a \in Accounts, l \in Letters, e \in Emails \cup {NoEmail} :
         /\ call[r].of = a /\ call[r].link = l /\ call[r].email = e
         /\ letter[l].taken
  BY <1>1, CallFacts
<1>3. Keeps
  BY <1>1, NoLettersKeep
<1>4. CASE EmailConflict(a, e)
  BY <1>1, <1>2, <1>3, <1>4, DoneKeepsIInv DEF RegisterCreate
<1>5. CASE ~EmailConflict(a, e)
  <2>1. PICK row : row = [NoAccount EXCEPT !.exists = TRUE, !.used = TRUE, !.email = e]
    OBVIOUS
  <2>2. account' = [account EXCEPT ![a] = row] /\ MovesTo(r, "link")
    BY <1>2, <1>5, <2>1 DEF RegisterCreate
  <2>3. /\ row \in AccountRow /\ row.exists /\ row.used /\ ~row.verified /\ row.email = e
        /\ row.verifyLink = NoLetter /\ row.changeLink = NoLetter
    BY <2>1 DEF AccountRow, NoAccount
  <2>4. /\ account' \in [Accounts -> AccountRow] /\ account'[a] = row
        /\ \A b \in Accounts \ {a} : account'[b] = account[b]
    BY <2>2, <2>3 DEF IInv, RowsTyped
  <2>5. Written(l, a, e)
    BY <1>1, <1>2, CallFacts DEF CallKnows
  <2>6. AccountSound(a)'
    BY <2>3, <2>4 DEF AccountSound, Exists
  <2>7. \A b \in Accounts : AccountSound(b)'
    BY <1>3, <2>4, <2>6, OthersSound
  <2>8. "link" \in Ats
    BY DEF Ats
  <2>9. /\ CallMoves(r)
        /\ call'[r].op = "register" /\ call'[r].at = "link" /\ call'[r].of = a
        /\ call'[r].email = e /\ call'[r].link = l
    BY <1>1, <1>2, <2>2, <2>8, MoveCall
  <2>10. CallKnows(call[r])'
    BY <1>1, <1>2, <2>3, <2>4, <2>5, <2>9 DEF CallKnows, Creating, Written, StillOf, Exists
  <2>11. ASSUME NEW q \in Calls \ {r}, call[q] # FreeCall
         PROVE  CallKnows(call[q])'
    <3>1. call[q].of \in Accounts \ {a}
      BY <1>1, <1>2, <2>11 DEF IInv, CallsKnow, CallKnows, CreatesAlone
    <3>2. BenignTo(call[q].of)
      BY <2>4, <3>1 DEF BenignTo
    <3> QED BY <1>3, <2>9, <2>11, <3>2, KnownStays DEF CallMoves
  <2>12. CallsKnow'
    BY <2>9, <2>10, <2>11 DEF CallsKnow, CallMoves
  <2>13. CreatesAlone'
    <3> SUFFICES ASSUME NEW p \in Calls, NEW q \in Calls, p # q, Creating(call[p])'
                 PROVE  call'[q].of # call'[p].of
      BY DEF CreatesAlone
    <3>1. p # r
      BY <2>9 DEF Creating
    <3>2. call'[p] = call[p] /\ Creating(call[p]) /\ call'[q].of = call[q].of
      BY <1>2, <2>9, <3>1 DEF CallMoves, Creating
    <3> QED BY <3>2 DEF IInv, CreatesAlone
  <2> QED BY <1>1, <2>4, <2>7, <2>9, <2>12, <2>13
          DEF IInv, RowsTyped, LettersSound, CallMoves
<1> QED BY <1>4, <1>5

LEMMA RegisterCleanupKeepsIInv ==
    ASSUME IInv, NEW r \in Calls, RegisterCleanup(r)
    PROVE  IInv'
<1>1. /\ call[r] # FreeCall /\ ~Creating(call[r]) /\ UNCHANGED letter /\ Done(r)
  BY DEF RegisterCleanup, Serving, FreeCall, Creating
<1>2. PICK a \in Accounts : call[r].of = a
  BY <1>1, CallFacts
<1>3. Keeps
  BY <1>1, NoLettersKeep
<1>4. CASE UNCHANGED account
  BY <1>1, <1>3, <1>4, DoneKeepsIInv
<1>5. CASE account' = [account EXCEPT ![a] = [NoAccount EXCEPT !.used = TRUE]]
  <2>1. PICK row : row = [NoAccount EXCEPT !.used = TRUE]
    OBVIOUS
  <2>2. row \in AccountRow /\ row.used /\ ~row.exists
    BY <2>1 DEF AccountRow, NoAccount
  <2>3. account[a].used
    BY <1>1, <1>2, CallFacts DEF CallKnows
  <2>4. account[a].used \in BOOLEAN /\ row.used \in BOOLEAN
    BY <2>2 DEF IInv, RowsTyped, AccountRow
  <2>5. /\ account'[a] = row /\ Benign
        /\ \A b \in Accounts \ {a} : account'[b] = account[b]
    BY <1>5, <2>1, <2>2, <2>3, <2>4, RowWritten
  <2>6. AccountSound(a)'
    BY <2>2, <2>5 DEF AccountSound, Exists
  <2>7. \A b \in Accounts : AccountSound(b)'
    BY <1>3, <2>5, <2>6, OthersSound
  <2> QED BY <1>1, <1>3, <2>5, <2>7, EndCall, MoveKeepsIInv
<1> QED BY <1>2, <1>4, <1>5 DEF RegisterCleanup

-----------------------------------------------------------------------------
(***************************************************************************)
(* The theorems                                                            *)
(***************************************************************************)
LEMMA AccountInitIInv == AccountInit => IInv
<1> SUFFICES ASSUME AccountInit
             PROVE  IInv
  OBVIOUS
<1>1. RowsTyped
  <2>1. NoAccount \in AccountRow
    BY DEF NoAccount, AccountRow
  <2>2. FreeCall \in CallRow
    BY DEF FreeCall, CallRow, CallOps, Ats
  <2>3. [taken |-> FALSE, to |-> NoEmail, of |-> NoOne,
         sent |-> FALSE, expired |-> FALSE, opened |-> FALSE] \in LetterRow
    BY DEF LetterRow
  <2> QED BY <2>1, <2>2, <2>3 DEF AccountInit, RowsTyped
<1>2. LettersSound
  BY DEF AccountInit, LettersSound
<1>3. \A a \in Accounts : ~Exists(a)
  BY DEF AccountInit, Exists, NoAccount
<1>4. \A r \in Calls : call[r] = FreeCall /\ ~Creating(call[r])
  BY DEF AccountInit, Creating, FreeCall
<1> QED BY <1>1, <1>2, <1>3, <1>4 DEF IInv, AccountSound, CallsKnow, CreatesAlone

LEMMA AccountNextIInv == IInv /\ [AccountNext]_accountVars => IInv'
<1> SUFFICES ASSUME IInv, [AccountNext]_accountVars
             PROVE  IInv'
  OBVIOUS
<1>1. CASE UNCHANGED accountVars
  BY <1>1
  DEF accountVars, IInv, RowsTyped, LettersSound, AccountSound, CallsKnow, CallKnows,
      CreatesAlone, Creating, Written, Opened, Proven, StillOf, StillVerified, Exists
<1>2. ASSUME NEW l \in Letters, LetterExpires(l)
      PROVE  IInv'
  BY <1>2, ExpiryKeepsIInv
<1>3. ASSUME NEW r \in Calls, AnsweredAtOnce(r)
      PROVE  IInv'
  BY <1>1, <1>3 DEF AnsweredAtOnce
<1>4. ASSUME NEW r \in Calls, AccountFails(r)
      PROVE  IInv'
  BY <1>4, FailureKeepsIInv
<1>5. ASSUME NEW r \in Calls, Register(r)
      PROVE  IInv'
  BY <1>5, RegisterCheckKeepsIInv, RegisterCreateKeepsIInv, MailKeepsIInv,
     RegisterCleanupKeepsIInv DEF Register
<1>6. ASSUME NEW r \in Calls, ResendVerification(r) \/ UpdateEmailVerificationToken(r)
      PROVE  IInv'
  BY <1>6, ResendVerificationCheckKeepsIInv, MailKeepsIInv,
     UpdateEmailVerificationTokenKeepsIInv DEF ResendVerification
<1>7. ASSUME NEW r \in Calls, VerifyEmail(r)
      PROVE  IInv'
  BY <1>7, VerifyEmailCheckKeepsIInv, MarkEmailVerifiedKeepsIInv DEF VerifyEmail
<1>8. ASSUME NEW r \in Calls, RequestEmailChange(r) \/ CheckEmailFree(r)
      PROVE  IInv'
  BY <1>8, RequestEmailChangeUserKeepsIInv, UpdateEmailChangeTokenKeepsIInv,
     MailKeepsIInv, CheckEmailFreeKeepsIInv DEF RequestEmailChange
<1>9. ASSUME NEW r \in Calls, ConfirmEmailChange(r)
      PROVE  IInv'
  BY <1>9, ConfirmEmailChangeCheckKeepsIInv, UpdateEmailKeepsIInv,
     ClearEmailChangeTokenKeepsIInv DEF ConfirmEmailChange
<1> QED BY <1>1, <1>2, <1>3, <1>4, <1>5, <1>6, <1>7, <1>8, <1>9
        DEF AccountNext, AccountMethod

\* Who has a verified account has followed a link that was mailed to its address:
\* with any accounts, addresses and links, however verifyEmail, resendVerification,
\* requestEmailChange and confirmEmailChange interleave, whatever the mail server
\* reports, and whichever queries fail.
THEOREM AccountsProven == AccountSpec => []ProvenEmails
<1>1. IInv => ProvenEmails
  BY DEF IInv, AccountSound, ProvenEmails
<1> QED BY <1>1, AccountInitIInv, AccountNextIInv, PTL DEF AccountSpec

\* An address is written under idx_user_email_lower only: by create and updateEmail.
LEMMA AddressWritten ==
    ASSUME IInv, [AccountNext]_accountVars, NEW a \in Accounts
    PROVE  \/ Exists(a)' => Exists(a) /\ account'[a].email = account[a].email
           \/ \E e : /\ account'[a].email = e /\ ~EmailConflict(a, e)
                     /\ \A b \in Accounts \ {a} : account'[b] = account[b]
<1>1. account[a] \in AccountRow
  BY DEF IInv, RowsTyped
<1> DEFINE Stays == Exists(a)' => Exists(a) /\ account'[a].email = account[a].email
<1>2. CASE UNCHANGED account
  BY <1>2 DEF Exists
<1>3. ASSUME NEW r \in Calls, RegisterCreate(r)
      PROVE  \/ Stays
             \/ \E e : /\ account'[a].email = e /\ ~EmailConflict(a, e)
                       /\ \A b \in Accounts \ {a} : account'[b] = account[b]
  BY <1>2, <1>3 DEF RegisterCreate, Exists, NoAccount, IInv, RowsTyped
<1>4. ASSUME NEW r \in Calls, UpdateEmail(r)
      PROVE  \/ Stays
             \/ \E e : /\ account'[a].email = e /\ ~EmailConflict(a, e)
                       /\ \A b \in Accounts \ {a} : account'[b] = account[b]
  BY <1>2, <1>4 DEF UpdateEmail, Exists, IInv, RowsTyped, AccountRow
<1>5. ASSUME NEW r \in Calls,
             \/ UpdateEmailVerificationToken(r) \/ UpdateEmailChangeToken(r)
             \/ MarkEmailVerified(r) \/ ClearEmailChangeToken(r)
      PROVE  Stays
  <2>1. CASE UpdateEmailVerificationToken(r)
    BY <1>1, <2>1 DEF UpdateEmailVerificationToken, UpdateUser, Exists, IInv, RowsTyped, AccountRow
  <2>2. CASE UpdateEmailChangeToken(r)
    <3>1. PICK row : /\ row = [account[call[r].of] EXCEPT !.pending = call[r].email,
                                                          !.changeLink = call[r].link]
                     /\ account' = [account EXCEPT ![call[r].of] = row] \/ UNCHANGED account
      BY <2>2 DEF UpdateEmailChangeToken, UpdateUser
    <3>2. CASE call[r].of = a
      <4>1. row.email = account[a].email /\ row.exists = account[a].exists
        BY <1>1, <3>1, <3>2 DEF AccountRow
      <4> QED BY <3>1, <3>2, <4>1 DEF Exists, IInv, RowsTyped
    <3>3. CASE call[r].of # a
      BY <3>1, <3>3 DEF Exists, IInv, RowsTyped
    <3> QED BY <3>2, <3>3
  <2>3. CASE MarkEmailVerified(r)
    BY <1>1, <2>3 DEF MarkEmailVerified, Exists, IInv, RowsTyped, AccountRow
  <2>4. CASE ClearEmailChangeToken(r)
    BY <1>1, <2>4 DEF ClearEmailChangeToken, Exists, IInv, RowsTyped, AccountRow
  <2> QED BY <1>5, <2>1, <2>2, <2>3, <2>4
<1>6. ASSUME NEW r \in Calls, RegisterCleanup(r)
      PROVE  Stays
  BY <1>6 DEF RegisterCleanup, Exists, NoAccount, IInv, RowsTyped
<1>7. \/ UNCHANGED account
      \/ \E r \in Calls : \/ RegisterCreate(r) \/ UpdateEmail(r) \/ RegisterCleanup(r)
                          \/ UpdateEmailVerificationToken(r) \/ UpdateEmailChangeToken(r)
                          \/ MarkEmailVerified(r) \/ ClearEmailChangeToken(r)
  BY DEF AccountNext, accountVars, AccountMethod, Register, RegisterCheck, RegisterMail,
         ResendVerification, ResendVerificationCheck, ResendVerificationMail,
         VerifyEmail, VerifyEmailCheck, RequestEmailChange, RequestEmailChangeUser,
         RequestEmailChangeMail, CheckEmailFree, ConfirmEmailChange,
         ConfirmEmailChangeCheck, AnsweredAtOnce, AccountFails, LetterExpires
<1> QED BY <1>2, <1>3, <1>4, <1>5, <1>6, <1>7

\* Two accounts never have one address, with any accounts and addresses and however
\* registrations and changes of address race after both found it free.
THEOREM EmailsUnique == AccountSpec => []OneAccountPerEmail
<1>1. AccountInit => OneAccountPerEmail
  BY DEF AccountInit, OneAccountPerEmail, Exists, NoAccount
<1>2. ASSUME IInv, OneAccountPerEmail, [AccountNext]_accountVars
      PROVE  OneAccountPerEmail'
  <2> SUFFICES ASSUME NEW a \in Accounts, NEW b \in Accounts, Exists(a)', Exists(b)',
                      account'[a].email = account'[b].email, a # b
               PROVE  FALSE
    BY DEF OneAccountPerEmail
  <2> DEFINE Keeps1(c) == Exists(c) /\ account'[c].email = account[c].email
             Writes(c) == /\ ~EmailConflict(c, account'[c].email)
                          /\ \A d \in Accounts \ {c} : account'[d] = account[d]
  <2>1. (Keeps1(a) \/ Writes(a)) /\ (Keeps1(b) \/ Writes(b))
    BY <1>2, AddressWritten
  <2>2. CASE Keeps1(a) /\ Keeps1(b)
    BY <1>2, <2>2 DEF OneAccountPerEmail
  <2>3. CASE Writes(a)
    BY <2>3 DEF EmailConflict, HasEmail, Exists
  <2>4. CASE Writes(b)
    BY <2>4 DEF EmailConflict, HasEmail, Exists
  <2> QED BY <2>1, <2>2, <2>3, <2>4
<1> QED BY <1>1, <1>2, AccountInitIInv, AccountNextIInv, PTL DEF AccountSpec
-----------------------------------------------------------------------------
(***************************************************************************)
(* Sessions and passwords under the workloads of MCSessions                *)
(***************************************************************************)
AtMostOne == \A r, s \in InFlight : r = s
\* The password is new, and the sessions are about to be revoked.
Revoking ==
    \E r \in Requests : \/ At(r, "resetPassword", "clear") \/ At(r, "resetPassword", "revoke")
                        \/ At(r, "changePassword", "revoke")
Current == \A s \in Sids : Active(s) => session[s].verified = password
\* A session about to be stored comes from the password of now.
Brings(r) ==
    /\ At(r, "login", "persist") => request[r].password = password
    /\ Succeeding(r) => session[request[r].sid].verified = password
SessionsCurrent == (Current \/ Revoking) /\ \A r \in Requests : Brings(r)
\* A link that was spent is the stored one only until its request clears it, and the link
\* of a request that sets or stores one was not spent.
LinkKnown(l) ==
    /\ link[l].spent => link[l].mailed
    /\ link[l].spent /\ resetLink = l => \E r \in Requests : At(r, "resetPassword", "clear")
    /\ \A r \in Requests : request[r] # Idle /\ request[r].link = l =>
           /\ At(r, "resetPassword", "update") => link[l].mailed /\ ~link[l].spent
           /\ At(r, "forgotPassword", "link") => ~link[l].mailed
           /\ ~At(r, "changePassword", "update")
LinksKnown == \A l \in Links : LinkKnown(l)
\* Where passwords are not changed every session was opened with the first.
Unchanging ==
    /\ password = FirstPassword
    /\ \A l \in Links : ~link[l].spent
    /\ \A s \in Sids : session[s].verified = FirstPassword
    /\ \A r \in InFlight : /\ request[r].op \in Rotating
                           /\ request[r].op = "login" => request[r].password = FirstPassword
AloneInv == AtMostOne /\ SessionsCurrent /\ LinksKnown
WInv == /\ SInv /\ IsFiniteSet(InFlight)
        /\ workload = "serial" => AloneInv
        /\ workload \in {"rotating", "accounts"} => Unchanging
\* Only the request r is served.
Only(r) == \A q \in Requests \ {r} : request[q] = Idle /\ request'[q] = Idle

LEMMA CallMovesAlone ==
    ASSUME TypeOK, NEW r \in Requests, AuthMethod(r) \/ Fault(r)
    PROVE  \A q \in Requests \ {r} : request'[q] = request[q]
<1>1. \/ \E c : Accept(r, c)
      \/ \E at : MoveOn(r, at)
      \/ Finish(r)
  BY DEF AuthMethod, Fault, Login, LoginWrite, Refresh, RefreshConsume, RefreshWrite, Logout, LogoutWrite,
     ForgotPassword, ForgotPasswordWrite, ForgotPasswordMail, ResetPassword, ResetPasswordClear,
     UpdatePassword, RevokeSessions, ChangePassword, RevokeAllSessions, RevokeOtherSessions,
     RevokeSession, RevokeSessionWrite
<1> QED BY <1>1 DEF Accept, MoveOn, Finish, TypeOK

\* What a request that has just been accepted must know.
KnowsItsRows(c) ==
    /\ c.op = "login" => c.password = password
    /\ c.op = "refresh" => c.at = "consume"
    /\ c.op = "resetPassword" => c.at = "update" /\ c.link = resetLink /\ link[c.link].mailed
    /\ c.op = "forgotPassword" => ~link[c.link].mailed
    /\ c.op = "changePassword" => c.link = NoLink

LEMMA AcceptKnows ==
    ASSUME TypeOK, AloneInv, NEW r \in Requests, Only(r), UNCHANGED rows,
           NEW c \in Request, Accept(r, c), KnowsItsRows(c)
    PROVE  SessionsCurrent' /\ LinksKnown'
<1>1. \A q \in Requests : request[q] = Idle
  BY DEF Only, Accept
<1>2. request'[r] = c
  BY DEF Accept, TypeOK
<1>3. ~Revoking /\ Current
  BY <1>1 DEF Revoking, At, AloneInv, SessionsCurrent
<1>4. SessionsCurrent'
  <2>1. Current'
    BY <1>3 DEF Current, rows, Active, Unrevoked
  <2>2. \A q \in Requests : Brings(q)'
    BY <1>2 DEF Brings, Only, At, Succeeding, KnowsItsRows, rows
  <2> QED BY <2>1, <2>2 DEF SessionsCurrent
<1>5. \A l \in Links : link[l].spent => link[l].mailed /\ resetLink # l
  BY <1>1 DEF AloneInv, LinksKnown, LinkKnown, At
<1>6. LinksKnown'
  BY <1>2, <1>5, SessionsAssumption DEF LinksKnown, LinkKnown, Only, At, KnowsItsRows, rows
<1> QED BY <1>4, <1>6

\* A request that issues no session and knows nothing of links may be accepted any time.
LEMMA PlainAcceptKnows ==
    ASSUME TypeOK, AloneInv, NEW r \in Requests, Only(r), UNCHANGED rows,
           NEW c \in Request, Accept(r, c),
           c.op \notin {"login", "refresh", "resetPassword", "forgotPassword", "changePassword"}
    PROVE  SessionsCurrent' /\ LinksKnown'
BY AcceptKnows DEF KnowsItsRows

\* Sessions are revoked, and the request is answered.
LEMMA LesserIsCurrent ==
    ASSUME TypeOK, AloneInv, NEW r \in Requests, Only(r), UNCHANGED <<password, resetLink, link>>,
           Finish(r), ~At(r, "resetPassword", "clear"),
           Revoking => \A s \in Sids : ~Active(s)',
           \A s \in Sids : Active(s)' => Active(s) /\ session'[s].verified = session[s].verified
    PROVE  SessionsCurrent' /\ LinksKnown'
<1>1. \A q \in Requests : request'[q] = Idle
  BY DEF Only, Finish, TypeOK
<1>2. Current'
  BY DEF Current, AloneInv, SessionsCurrent
<1>3. SessionsCurrent'
  BY <1>1, <1>2 DEF SessionsCurrent, Brings, At, Succeeding
<1>4. \A q \in Requests : ~At(q, "resetPassword", "clear")
  BY DEF Only, At
<1>5. LinksKnown'
  BY <1>1, <1>4 DEF AloneInv, LinksKnown, LinkKnown, At
<1> QED BY <1>3, <1>5
LEMMA SessionFields ==
    ASSUME TypeOK, NEW s \in Sids
    PROVE  session[s] \in Row
BY DEF TypeOK

\* A session opened with the password of now is stored.
LEMMA StoringIsCurrent ==
    ASSUME SInv, AloneInv, NEW r \in Requests, Only(r), UNCHANGED <<password, resetLink, link>>,
           Finish(r), At(r, "login", "persist") \/ Succeeding(r),
           NEW root, CreateToken(root, password)
    PROVE  SessionsCurrent' /\ LinksKnown'
<1>1. ~Revoking /\ Current /\ ~At(r, "resetPassword", "clear")
  BY DEF Only, Revoking, At, Succeeding, AloneInv, SessionsCurrent
<1>2. TypeOK
  BY DEF SInv
<1>3. \A q \in Requests : request'[q] = Idle
  BY <1>2 DEF Only, Finish, TypeOK
<1>4. PICK f \in Sids : f = FreshSid
  BY <1>2, FreshIsFresh DEF CreateToken
<1>5. /\ session'[f].verified = password
      /\ \A s \in Sids \ {f} : session'[s] = session[s]
  <2>1. PICK row : row = [used |-> TRUE, revokedAt |-> FALSE, expired |-> FALSE,
                          root |-> IF root = NoSid THEN f ELSE root,
                          verified |-> password, rotated |-> FALSE]
    OBVIOUS
  <2>2. row.verified = password
    BY <2>1
  <2>3. session' = [session EXCEPT ![f] = row]
    BY <1>4, <2>1 DEF CreateToken
  <2> QED BY <1>2, <2>2, <2>3 DEF TypeOK
<1>6. Current'
  BY <1>1, <1>5 DEF Current, Active, Unrevoked
<1>7. SessionsCurrent'
  BY <1>3, <1>6 DEF SessionsCurrent, Brings, At, Succeeding
<1>8. LinksKnown'
  BY <1>1, <1>3 DEF AloneInv, LinksKnown, LinkKnown, At, Only
<1> QED BY <1>7, <1>8

LEMMA LoginKnows ==
    ASSUME SInv, AloneInv, NEW r \in Requests, Only(r), Login(r)
    PROVE  SessionsCurrent' /\ LinksKnown'
<1>1. TypeOK
  BY DEF SInv
<1>2. CASE LoginWrite(r)
  <2>1. request[r].password = password
    BY <1>2 DEF LoginWrite, AloneInv, SessionsCurrent, Brings
  <2> QED BY <1>2, <2>1, StoringIsCurrent DEF LoginWrite
<1>3. CASE /\ Accept(r, [Call("login", "persist") EXCEPT !.password = password])
           /\ UNCHANGED rows
  <2>1. PICK c : c = [Call("login", "persist") EXCEPT !.password = password]
    OBVIOUS
  <2>2. c \in Request /\ c.op = "login" /\ c.password = password
    <3>1. "login" \in AllOps /\ "persist" \in Steps /\ password \in Passwords
      BY <1>1 DEF AllOps, Steps, TypeOK
    <3> QED BY <2>1, <3>1, CallTyped, SessionsAssumption DEF Call
  <2> QED BY <1>1, <1>3, <2>1, <2>2, AcceptKnows DEF KnowsItsRows
<1> QED BY <1>2, <1>3 DEF Login

LEMMA RefreshConsumeKnows ==
    ASSUME SInv, AloneInv, NEW r \in Requests, Only(r), RefreshConsume(r)
    PROVE  SessionsCurrent' /\ LinksKnown'
<1>1. /\ TypeOK /\ request[r] # Idle /\ request[r].op = "refresh"
      /\ request[r].at = "consume" /\ UNCHANGED <<password, resetLink, link>>
  BY DEF SInv, RefreshConsume, At
<1>2. PICK o \in Sids : o = request[r].sid
  BY <1>1 DEF SInv, NamesRow
<1>3. ~Revoking /\ Current
  BY <1>1 DEF Only, Revoking, At, AloneInv, SessionsCurrent
<1>4. CASE ~Active(o)
  <2>1. Finish(r) /\ UNCHANGED session
    BY <1>2, <1>4 DEF RefreshConsume
  <2> QED BY <1>1, <1>3, <2>1, LesserIsCurrent DEF At, Active, Unrevoked
<1>5. CASE Active(o)
  <2>1. ConsumeActiveToken(o) /\ MoveOn(r, "persist")
    BY <1>2, <1>5 DEF RefreshConsume
  <2>2. PICK row : row = [session[o] EXCEPT !.revokedAt = TRUE, !.rotated = TRUE]
    OBVIOUS
  <2>3. row.verified = session[o].verified /\ row.revokedAt
    BY <1>1, <2>2 DEF Row, TypeOK
  <2>4. session' = [session EXCEPT ![o] = row]
    BY <1>1, <2>1, <2>2 DEF ConsumeActiveToken, TypeOK, Row
  <2>5. session'[o] = row /\ \A s \in Sids \ {o} : session'[s] = session[s]
    BY <1>1, <2>4 DEF TypeOK
  <2>6. session[o].verified = password
    BY <1>3, <1>5 DEF Current
  <2>7. /\ request'[r] # Idle /\ request'[r].op = "refresh"
        /\ request'[r].at = "persist" /\ request'[r].sid = o
    <3>1. "persist" \in Steps
      BY DEF Steps
    <3> QED BY <1>1, <1>2, <2>1, <3>1, MoveOnMoves
  <2>8. Current'
    BY <1>1, <1>3, <2>3, <2>5 DEF Current, Active, Unrevoked
  <2>9. SessionsCurrent'
    BY <1>1, <2>3, <2>5, <2>6, <2>7, <2>8 DEF SessionsCurrent, Brings, At, Succeeding, Only
  <2>10. LinksKnown'
    BY <1>1, <2>7 DEF AloneInv, LinksKnown, LinkKnown, At, Only
  <2> QED BY <2>9, <2>10
<1> QED BY <1>4, <1>5

LEMMA RefreshKnows ==
    ASSUME SInv, AloneInv, NEW r \in Requests, Only(r), Refresh(r)
    PROVE  SessionsCurrent' /\ LinksKnown'
<1>1. TypeOK
  BY DEF SInv
<1>2. CASE RefreshConsume(r)
  BY <1>2, RefreshConsumeKnows
<1>3. CASE RefreshWrite(r)
  <2>1. session[request[r].sid].verified = password
    BY <1>3 DEF RefreshWrite, AloneInv, SessionsCurrent, Brings, Succeeding
  <2> QED BY <1>3, <2>1, StoringIsCurrent DEF RefreshWrite, Succeeding
<1>4. CASE /\ \E s \in Issued : Accept(r, [Call("refresh", "consume") EXCEPT !.sid = s])
           /\ UNCHANGED rows
  <2>1. PICK s \in Issued : Accept(r, [Call("refresh", "consume") EXCEPT !.sid = s])
    BY <1>4
  <2>2. PICK c : c = [Call("refresh", "consume") EXCEPT !.sid = s]
    OBVIOUS
  <2>3. c \in Request /\ c.op = "refresh" /\ c.at = "consume"
    <3>1. "refresh" \in AllOps /\ "consume" \in Steps /\ s \in Sids
      BY DEF AllOps, Steps, Issued
    <3> QED BY <2>2, <3>1, CallTyped, SessionsAssumption DEF Call
  <2> QED BY <1>1, <1>4, <2>1, <2>2, <2>3, AcceptKnows DEF KnowsItsRows
<1> QED BY <1>2, <1>3, <1>4 DEF Refresh

LEMMA NamingKnows ==
    ASSUME SInv, AloneInv, NEW r \in Requests, Only(r), UNCHANGED rows,
           NEW op \in {"logout", "revokeOtherSessions", "revokeSession"},
           NEW at \in Steps, NEW s \in Issued,
           Accept(r, [Call(op, at) EXCEPT !.sid = s])
    PROVE  SessionsCurrent' /\ LinksKnown'
<1>1. PICK c : c = [Call(op, at) EXCEPT !.sid = s]
  OBVIOUS
<1>2. op \in AllOps /\ s \in Sids
  BY DEF AllOps, Issued
<1>3. c \in Request /\ c.op = op
  BY <1>1, <1>2, CallTyped, SessionsAssumption DEF Call
<1> QED BY <1>1, <1>3, PlainAcceptKnows DEF SInv

LEMMA RevokeOneKnows ==
    ASSUME SInv, AloneInv, NEW r \in Requests, Only(r), LogoutWrite(r) \/ RevokeSessionWrite(r)
    PROVE  SessionsCurrent' /\ LinksKnown'
<1>1. TypeOK /\ Finish(r) /\ ~Revoking /\ ~At(r, "resetPassword", "clear")
      /\ UNCHANGED <<password, resetLink, link>>
  BY DEF SInv, LogoutWrite, RevokeSessionWrite, Only, Revoking, At
<1>2. PICK s : s = request[r].sid
  OBVIOUS
<1>3. PICK gone \in BOOLEAN :
         /\ session' = [session EXCEPT ![s].revokedAt = gone]
         /\ s \in Sids /\ session[s].revokedAt => gone
  <2>1. CASE LogoutWrite(r)
    BY <1>2, <2>1 DEF LogoutWrite
  <2>2. CASE RevokeSessionWrite(r)
    <3>1. PICK gone \in BOOLEAN : gone = (session[s].revokedAt \/ Active(s))
      OBVIOUS
    <3>2. session' = [session EXCEPT ![s].revokedAt = gone]
      BY <1>1, <1>2, <2>2, <3>1 DEF RevokeSessionWrite
    <3> QED BY <3>1, <3>2
  <2> QED BY <2>1, <2>2
<1>4. \A x \in Sids : Active(x)' => Active(x) /\ session'[x].verified = session[x].verified
  <2> SUFFICES ASSUME NEW x \in Sids, Active(x)'
               PROVE  Active(x) /\ session'[x].verified = session[x].verified
    OBVIOUS
  <2>1. CASE s # x
    BY <1>1, <1>3, <2>1 DEF TypeOK, Active, Unrevoked
  <2>2. CASE s = x
    <3>1. PICK row : row = [session[s] EXCEPT !.revokedAt = gone]
      OBVIOUS
    <3>2. /\ row.used = session[s].used /\ row.expired = session[s].expired
          /\ row.verified = session[s].verified /\ row.revokedAt = gone
      BY <1>1, <2>2, <3>1 DEF TypeOK, Row
    <3>3. session'[s] = row
      BY <1>1, <1>3, <2>2, <3>1 DEF TypeOK
    <3> QED BY <1>3, <2>2, <3>2, <3>3 DEF Active, Unrevoked
  <2> QED BY <2>1, <2>2
<1> QED BY <1>1, <1>4, LesserIsCurrent

\* Only a change of password revokes with the sessions still those of the old one, and it
\* keeps none.
LEMMA RevokingKnows ==
    ASSUME SInv, AloneInv, NEW r \in Requests, Only(r), NEW op, NEW kept,
           RevokeSessions(r, op, kept), kept = {} \/ op = "revokeOtherSessions"
    PROVE  SessionsCurrent' /\ LinksKnown'
<1>1. TypeOK /\ Finish(r) /\ ~At(r, "resetPassword", "clear")
      /\ UNCHANGED <<password, resetLink, link>>
  BY DEF SInv, RevokeSessions, At
<1>2. ASSUME NEW s \in Sids
      PROVE  /\ session'[s].used = session[s].used /\ session'[s].expired = session[s].expired
             /\ session'[s].verified = session[s].verified
             /\ session[s].revokedAt => session'[s].revokedAt
             /\ kept = {} /\ session[s].used => session'[s].revokedAt
  <2>1. session[s] \in Row
    BY <1>1, SessionFields
  <2>2. CASE s \in kept
    BY <2>1, <2>2 DEF RevokeSessions, RevokeAllForUserExcept
  <2>3. CASE s \notin kept
    <3>1. session'[s] = [session[s] EXCEPT !.revokedAt = session[s].revokedAt \/ session[s].used]
      BY <2>1, <2>3 DEF RevokeSessions, RevokeAllForUserExcept
    <3> QED BY <2>1, <3>1 DEF Row
  <2> QED BY <2>2, <2>3
<1>3. \A s \in Sids : Active(s)' => Active(s) /\ session'[s].verified = session[s].verified
  BY <1>2 DEF Active, Unrevoked
<1>4. kept = {} => \A s \in Sids : ~Active(s)'
  BY <1>2 DEF Active, Unrevoked
<1>5. op = "revokeOtherSessions" => ~Revoking
  BY DEF RevokeSessions, Only, Revoking, At
<1> QED BY <1>1, <1>3, <1>4, <1>5, LesserIsCurrent
\* From here on the sessions are of the old password, and the link is spent.
LEMMA UpdatePasswordKnows ==
    ASSUME SInv, AloneInv, NEW r \in Requests, Only(r), NEW op, NEW next,
           UpdatePassword(r, op, next),
           \/ op = "changePassword" /\ next = "revoke" /\ request[r].link = NoLink
           \/ op = "resetPassword" /\ next = "clear"
    PROVE  SessionsCurrent' /\ LinksKnown'
<1>1. TypeOK /\ request[r] # Idle /\ request[r].op = op /\ request[r].at = "update"
      /\ UNCHANGED <<resetLink, session>>
  BY DEF SInv, UpdatePassword, At
<1>2. /\ request'[r] # Idle /\ request'[r].op = op /\ request'[r].at = next
  <2>1. next \in Steps
    BY DEF Steps
  <2> QED BY <1>1, <2>1, MoveOnMoves DEF UpdatePassword
<1>3. Revoking'
  BY <1>2 DEF Revoking, At
<1>4. SessionsCurrent'
  BY <1>2, <1>3 DEF SessionsCurrent, Brings, At, Succeeding, Only
<1>5. ASSUME NEW l \in Links
      PROVE  /\ link'[l].mailed = link[l].mailed
             /\ link'[l].spent => link[l].spent \/ l = request[r].link
  <2>1. link[l] \in LinkRow
    BY <1>1 DEF TypeOK
  <2> QED BY <1>5, <2>1 DEF UpdatePassword, LinkRow
<1>6. LinksKnown'
  <2> SUFFICES ASSUME NEW l \in Links
               PROVE  LinkKnown(l)'
    BY DEF LinksKnown
  <2>1. LinkKnown(l) /\ \A q \in Requests : ~At(q, "resetPassword", "clear")
    BY <1>1 DEF AloneInv, LinksKnown, Only, At
  <2>2. CASE op = "changePassword"
    <3>1. link'[l].spent => link[l].spent
      BY <1>5, <2>2, SessionsAssumption
    <3> QED BY <1>1, <1>2, <1>5, <2>1, <2>2, <3>1 DEF LinkKnown, At, Only
  <2>3. CASE op = "resetPassword"
    <3>1. next = "clear"
      BY <2>3
    <3> QED BY <1>1, <1>2, <1>5, <2>1, <2>3, <3>1 DEF LinkKnown, At, Only
  <2> QED BY <2>2, <2>3
<1> QED BY <1>4, <1>6

LEMMA ChangePasswordKnows ==
    ASSUME SInv, AloneInv, NEW r \in Requests, Only(r), ChangePassword(r)
    PROVE  SessionsCurrent' /\ LinksKnown'
<1>1. CASE UpdatePassword(r, "changePassword", "revoke")
  <2>1. At(r, "changePassword", "update") /\ request[r] \in Request
    BY <1>1 DEF UpdatePassword, SInv, TypeOK, At
  <2>2. request[r].link = NoLink
    BY <2>1 DEF AloneInv, LinksKnown, LinkKnown, At, Request
  <2> QED BY <1>1, <2>2, UpdatePasswordKnows
<1>2. CASE RevokeSessions(r, "changePassword", {})
  BY <1>2, RevokingKnows
<1>3. ASSUME NEW p \in Passwords, UNCHANGED rows,
             Accept(r, [Call("changePassword", "update") EXCEPT !.password = p])
      PROVE  SessionsCurrent' /\ LinksKnown'
  <2>1. PICK c : c = [Call("changePassword", "update") EXCEPT !.password = p]
    OBVIOUS
  <2>2. c \in Request /\ c.op = "changePassword" /\ c.link = NoLink
    <3>1. "changePassword" \in AllOps /\ "update" \in Steps
      BY DEF AllOps, Steps
    <3> QED BY <2>1, <3>1, CallTyped, SessionsAssumption DEF Call
  <2> QED BY <1>3, <2>1, <2>2, AcceptKnows DEF KnowsItsRows, SInv
<1> QED BY <1>1, <1>2, <1>3 DEF ChangePassword

LEMMA ResetPasswordKnows ==
    ASSUME SInv, AloneInv, NEW r \in Requests, Only(r), ResetPassword(r)
    PROVE  SessionsCurrent' /\ LinksKnown'
<1>1. CASE UpdatePassword(r, "resetPassword", "clear")
  BY <1>1, UpdatePasswordKnows
<1>2. CASE ResetPasswordClear(r)
  <2>1. TypeOK /\ request[r] # Idle /\ request[r].op = "resetPassword"
        /\ UNCHANGED <<password, link, session>> /\ resetLink' = NoLink
    BY <1>2 DEF SInv, ResetPasswordClear, ClearPasswordResetToken, At
  <2>2. /\ request'[r] # Idle /\ request'[r].op = "resetPassword" /\ request'[r].at = "revoke"
    <3>1. "revoke" \in Steps
      BY DEF Steps
    <3> QED BY <1>2, <2>1, <3>1, MoveOnMoves DEF ResetPasswordClear
  <2>3. SessionsCurrent'
    BY <2>2 DEF SessionsCurrent, Revoking, Brings, At, Succeeding, Only
  <2>4. LinksKnown'
    BY <2>1, <2>2, SessionsAssumption DEF AloneInv, LinksKnown, LinkKnown, At, Only
  <2> QED BY <2>3, <2>4
<1>3. CASE RevokeSessions(r, "resetPassword", {})
  BY <1>3, RevokingKnows
<1>4. ASSUME NEW p \in Passwords, NEW l \in Links, UNCHANGED rows, link[l].mailed, resetLink = l,
             Accept(r, [Call("resetPassword", "update") EXCEPT !.link = l, !.password = p])
      PROVE  SessionsCurrent' /\ LinksKnown'
  <2>1. PICK c : c = [Call("resetPassword", "update") EXCEPT !.link = l, !.password = p]
    OBVIOUS
  <2>2. c \in Request /\ c.op = "resetPassword" /\ c.at = "update" /\ c.link = l
    <3>1. "resetPassword" \in AllOps /\ "update" \in Steps
      BY DEF AllOps, Steps
    <3> QED BY <2>1, <3>1, CallTyped, SessionsAssumption DEF Call
  <2> QED BY <1>4, <2>1, <2>2, AcceptKnows DEF KnowsItsRows, SInv
<1> QED BY <1>1, <1>2, <1>3, <1>4 DEF ResetPassword

LEMMA ForgotPasswordWriteKnows ==
    ASSUME SInv, AloneInv, NEW r \in Requests, Only(r), ForgotPasswordWrite(r)
    PROVE  SessionsCurrent' /\ LinksKnown'
<1>1. TypeOK /\ request[r] # Idle /\ request[r].op = "forgotPassword" /\ request[r].at = "link"
      /\ UNCHANGED <<password, link, session>> /\ resetLink' = request[r].link
  BY DEF SInv, ForgotPasswordWrite, At
<1>2. /\ request'[r] # Idle /\ request'[r].op = "forgotPassword" /\ request'[r].at = "mail"
  <2>1. "mail" \in Steps
    BY DEF Steps
  <2> QED BY <1>1, <2>1, MoveOnMoves DEF ForgotPasswordWrite
<1>3. ~Revoking /\ Current
  BY <1>1 DEF Only, Revoking, At, AloneInv, SessionsCurrent
<1>4. SessionsCurrent'
  BY <1>1, <1>2, <1>3 DEF SessionsCurrent, Current, Active, Unrevoked, Brings, At, Succeeding, Only
<1>5. LinksKnown'
  BY <1>1, <1>2 DEF AloneInv, LinksKnown, LinkKnown, At, Only
<1> QED BY <1>4, <1>5

LEMMA ForgotPasswordMailKnows ==
    ASSUME SInv, AloneInv, NEW r \in Requests, Only(r), ForgotPasswordMail(r)
    PROVE  SessionsCurrent' /\ LinksKnown'
<1>1. TypeOK /\ request[r] # Idle /\ request[r].op = "forgotPassword" /\ request[r].at = "mail"
      /\ UNCHANGED <<password, session>>
  BY DEF SInv, ForgotPasswordMail, At
<1>2. \A q \in Requests : request'[q] = Idle
  BY <1>1 DEF ForgotPasswordMail, Finish, Only, TypeOK
<1>3. ~Revoking /\ Current
  BY <1>1 DEF Only, Revoking, At, AloneInv, SessionsCurrent
<1>4. SessionsCurrent'
  BY <1>1, <1>2, <1>3 DEF SessionsCurrent, Current, Active, Unrevoked, Brings, At, Succeeding
<1>5. \A l \in Links : link[l].spent => link[l].mailed /\ resetLink # l
  BY <1>1 DEF AloneInv, LinksKnown, LinkKnown, Only, At
<1>6. \A l \in Links : link'[l].spent => link[l].spent /\ link'[l].mailed
  <2>1. CASE UNCHANGED link
    BY <1>5, <2>1
  <2>2. PICK k : k = request[r].link
    OBVIOUS
  <2>3. CASE link' = [link EXCEPT ![k].mailed = TRUE]
    <3>1. \A l \in Links : link[l] \in LinkRow
      BY <1>1 DEF TypeOK
    <3> QED BY <1>1, <1>5, <2>3, <3>1 DEF TypeOK, LinkRow
  <2> QED BY <2>1, <2>2, <2>3 DEF ForgotPasswordMail
<1>7. \A l \in Links : resetLink' = l => resetLink = l
  BY SessionsAssumption DEF ForgotPasswordMail
<1>8. LinksKnown'
  BY <1>2, <1>5, <1>6, <1>7 DEF LinksKnown, LinkKnown
<1> QED BY <1>4, <1>8

LEMMA ForgotPasswordKnows ==
    ASSUME SInv, AloneInv, NEW r \in Requests, Only(r), ForgotPassword(r)
    PROVE  SessionsCurrent' /\ LinksKnown'
<1>1. ASSUME NEW l \in Links, UNCHANGED rows, FreshLink(l),
             Accept(r, [Call("forgotPassword", "link") EXCEPT !.link = l])
      PROVE  SessionsCurrent' /\ LinksKnown'
  <2>1. PICK c : c = [Call("forgotPassword", "link") EXCEPT !.link = l]
    OBVIOUS
  <2>2. c \in Request /\ c.op = "forgotPassword" /\ c.link = l
    <3>1. "forgotPassword" \in AllOps /\ "link" \in Steps
      BY DEF AllOps, Steps
    <3> QED BY <2>1, <3>1, CallTyped, SessionsAssumption DEF Call
  <2> QED BY <1>1, <2>1, <2>2, AcceptKnows DEF KnowsItsRows, SInv, FreshLink
<1> QED BY <1>1, ForgotPasswordWriteKnows, ForgotPasswordMailKnows DEF ForgotPassword

LEMMA RevokeAllSessionsKnows ==
    ASSUME SInv, AloneInv, NEW r \in Requests, Only(r), RevokeAllSessions(r)
    PROVE  SessionsCurrent' /\ LinksKnown'
<1>1. CASE RevokeSessions(r, "revokeAllSessions", {})
  BY <1>1, RevokingKnows
<1>2. CASE Accept(r, Call("revokeAllSessions", "revoke")) /\ UNCHANGED rows
  <2>1. PICK c : c = Call("revokeAllSessions", "revoke")
    OBVIOUS
  <2>2. c \in Request /\ c.op = "revokeAllSessions"
    <3>1. "revokeAllSessions" \in AllOps /\ "revoke" \in Steps
      BY DEF AllOps, Steps
    <3> QED BY <2>1, <3>1, CallTyped, SessionsAssumption DEF Call
  <2> QED BY <1>2, <2>1, <2>2, PlainAcceptKnows DEF SInv
<1> QED BY <1>1, <1>2 DEF RevokeAllSessions

LEMMA MethodKnows ==
    ASSUME SInv, AloneInv, NEW r \in Requests, Only(r), AuthMethod(r)
    PROVE  SessionsCurrent' /\ LinksKnown'
<1>1. "write" \in Steps /\ "revoke" \in Steps
  BY DEF Steps
<1>2. CASE Logout(r)
  BY <1>1, <1>2, NamingKnows, RevokeOneKnows DEF Logout
<1>3. CASE RevokeSession(r)
  BY <1>1, <1>3, NamingKnows, RevokeOneKnows DEF RevokeSession
<1>4. CASE RevokeOtherSessions(r)
  BY <1>1, <1>4, NamingKnows, RevokingKnows DEF RevokeOtherSessions
<1> QED BY <1>2, <1>3, <1>4, LoginKnows, RefreshKnows, ForgotPasswordKnows, ResetPasswordKnows,
           ChangePasswordKnows, RevokeAllSessionsKnows DEF AuthMethod
\* Time passes: neither sessions nor links become any worse.
LEMMA ExpiryKnows ==
    ASSUME SInv, AloneInv, (\E s \in Sids : SessionExpires(s)) \/ (\E l \in Links : LinkExpires(l))
    PROVE  SessionsCurrent' /\ LinksKnown'
<1>1. TypeOK
  BY DEF SInv
<1>2. UNCHANGED <<password, resetLink, request>>
  BY DEF SessionExpires, LinkExpires
<1>3. ASSUME NEW s \in Sids
      PROVE  /\ session'[s].verified = session[s].verified
             /\ Active(s)' => Active(s)
  <2>1. session[s] \in Row
    BY <1>1 DEF TypeOK
  <2>2. CASE UNCHANGED session
    BY <2>2 DEF Active, Unrevoked
  <2>3. ASSUME NEW t \in Sids, session' = [session EXCEPT ![t].expired = TRUE]
        PROVE  /\ session'[s].verified = session[s].verified
               /\ Active(s)' => Active(s)
    <3>1. CASE s = t
      BY <1>1, <2>1, <2>3, <3>1 DEF TypeOK, Row, Active, Unrevoked
    <3>2. CASE s # t
      BY <1>1, <2>3, <3>2 DEF TypeOK, Active, Unrevoked
    <3> QED BY <3>1, <3>2
  <2> QED BY <2>2, <2>3 DEF SessionExpires, LinkExpires
<1>4. ASSUME NEW l \in Links
      PROVE  link'[l].mailed = link[l].mailed /\ link'[l].spent = link[l].spent
  <2>1. link[l] \in LinkRow
    BY <1>1 DEF TypeOK
  <2>2. CASE UNCHANGED link
    BY <2>2
  <2>3. ASSUME NEW k \in Links, link' = [link EXCEPT ![k].expired = TRUE]
        PROVE  link'[l].mailed = link[l].mailed /\ link'[l].spent = link[l].spent
    BY <1>1, <2>1, <2>3 DEF TypeOK, LinkRow
  <2> QED BY <2>2, <2>3 DEF SessionExpires, LinkExpires
<1>5. SessionsCurrent'
  <2>1. Revoking => Revoking'
    BY <1>2 DEF Revoking, At
  <2>2. Current => Current'
    BY <1>2, <1>3 DEF Current
  <2>3. \A r \in Requests : Brings(r)'
    BY <1>2, <1>3 DEF AloneInv, SessionsCurrent, Brings, At, Succeeding, SInv, NamesRow
  <2> QED BY <2>1, <2>2, <2>3 DEF AloneInv, SessionsCurrent
<1>6. LinksKnown'
  BY <1>2, <1>4 DEF AloneInv, LinksKnown, LinkKnown, At
<1> QED BY <1>5, <1>6

LEMMA InFlightStaysFinite ==
    ASSUME TypeOK, IsFiniteSet(InFlight),
           \/ \E r \in Requests : AuthMethod(r) \/ Fault(r)
           \/ UNCHANGED request
    PROVE  IsFiniteSet(InFlight')
<1>1. CASE UNCHANGED request
  BY <1>1 DEF InFlight
<1>2. ASSUME NEW r \in Requests, AuthMethod(r) \/ Fault(r)
      PROVE  IsFiniteSet(InFlight')
  <2>1. \A q \in Requests \ {r} : request'[q] = request[q]
    BY <1>2, CallMovesAlone
  <2>2. InFlight' \subseteq InFlight \cup {r}
    BY <2>1 DEF InFlight
  <2>3. IsFiniteSet(InFlight \cup {r})
    BY FS_AddElement
  <2> QED BY <2>2, <2>3, FS_Subset
<1> QED BY <1>1, <1>2

LEMMA AtMostOneOf ==
    ASSUME NEW S, IsFiniteSet(S), Cardinality(S) <= 1
    PROVE  \A x, y \in S : x = y
<1> SUFFICES ASSUME NEW x \in S, NEW y \in S, x # y
             PROVE  FALSE
  OBVIOUS
<1>1. Cardinality({x, y}) = 2
  <2>1. IsFiniteSet({x}) /\ Cardinality({x}) = 1
    BY FS_Singleton
  <2>2. Cardinality({x} \cup {y}) = Cardinality({x}) + 1
    BY <2>1, FS_AddElement
  <2>3. {x} \cup {y} = {x, y}
    OBVIOUS
  <2> QED BY <2>1, <2>2, <2>3
<1>2. Cardinality({x, y}) <= Cardinality(S)
  BY FS_Subset
<1>3. Cardinality(S) \in Nat
  BY FS_CardinalityType
<1> QED BY <1>1, <1>2, <1>3

LEMMA SerialKnows ==
    ASSUME WInv, workload = "serial", MCNext
    PROVE  AloneInv'
<1>0. SInv /\ TypeOK /\ AloneInv /\ IsFiniteSet(InFlight)
  BY DEF WInv, SInv
<1>1. Methods /\ Cardinality(InFlight') <= 1
  BY DEF MCNext
<1>2. IsFiniteSet(InFlight')
  BY <1>0, <1>1, InFlightStaysFinite DEF Methods, SessionExpires, LinkExpires
<1>3. AtMostOne'
  BY <1>1, <1>2, AtMostOneOf DEF AtMostOne
<1>4. ASSUME NEW r \in Requests, AuthMethod(r)
      PROVE  SessionsCurrent' /\ LinksKnown'
  <2>1. \A q \in Requests \ {r} : request'[q] = request[q]
    BY <1>0, <1>4, CallMovesAlone
  <2>2. request[r] # Idle \/ request'[r] # Idle
    <3>1. \/ request[r] # Idle
          \/ \E c : Accept(r, c) /\ c.op \in AllOps
      <4>1. \A op \in AllOps : \A at, sid, p, l :
              /\ Call(op, at).op \in AllOps
              /\ [Call(op, at) EXCEPT !.sid = sid].op \in AllOps
              /\ [Call(op, at) EXCEPT !.password = p].op \in AllOps
              /\ [Call(op, at) EXCEPT !.link = l].op \in AllOps
              /\ [Call(op, at) EXCEPT !.link = l, !.password = p].op \in AllOps
        BY DEF Call
      <4>2. {"login", "refresh", "logout", "forgotPassword", "resetPassword", "changePassword",
             "revokeAllSessions", "revokeOtherSessions", "revokeSession"} \subseteq AllOps
        BY DEF AllOps
      <4> QED BY <1>4, <4>1, <4>2 DEF AuthMethod, Login, LoginWrite, Refresh, RefreshConsume, RefreshWrite,
             Logout, LogoutWrite, ForgotPassword, ForgotPasswordWrite, ForgotPasswordMail,
             ResetPassword, ResetPasswordClear, UpdatePassword, RevokeSessions, ChangePassword,
             RevokeAllSessions, RevokeOtherSessions, RevokeSession, RevokeSessionWrite, At
    <3>2. "idle" \notin AllOps
      BY DEF AllOps
    <3>3. \A c : Accept(r, c) /\ c.op \in AllOps => request'[r] # Idle
      BY <1>0, <3>2 DEF Accept, TypeOK, Idle
    <3> QED BY <3>1, <3>3
  <2>3. Only(r)
    BY <1>0, <1>3, <2>1, <2>2 DEF Only, AloneInv, AtMostOne, InFlight
  <2> QED BY <1>0, <1>4, <2>3, MethodKnows
<1>5. SessionsCurrent' /\ LinksKnown'
  BY <1>0, <1>1, <1>4, ExpiryKnows DEF Methods
<1> QED BY <1>3, <1>5 DEF AloneInv
-----------------------------------------------------------------------------
\* Sessions rotate: of methods in flight none changes a password or sets a link.
LEMMA NoneChanges ==
    ASSUME TypeOK, Unchanging, Calling(Rotating), NEW r \in Requests,
           ForgotPassword(r) \/ ResetPassword(r) \/ ChangePassword(r)
    PROVE  FALSE
<1> DEFINE Other == {"forgotPassword", "resetPassword", "changePassword"}
<1>1. \/ request[r] # Idle /\ request[r].op \in Other
      \/ \E c : Accept(r, c) /\ c.op \in Other
  <2>1. ASSUME NEW op \in Other, NEW at, NEW p, NEW l,
               \/ Accept(r, [Call(op, at) EXCEPT !.password = p])
               \/ Accept(r, [Call(op, at) EXCEPT !.link = l])
               \/ Accept(r, [Call(op, at) EXCEPT !.link = l, !.password = p])
        PROVE  \E c : Accept(r, c) /\ c.op \in Other
    <3>1. PICK c : Accept(r, c) /\ \/ c = [Call(op, at) EXCEPT !.password = p]
                                   \/ c = [Call(op, at) EXCEPT !.link = l]
                                   \/ c = [Call(op, at) EXCEPT !.link = l, !.password = p]
      BY <2>1
    <3>2. c.op = op
      BY <3>1 DEF Call
    <3> QED BY <3>1, <3>2
  <2>2. CASE ForgotPassword(r)
    <3>1. \/ request[r] # Idle /\ request[r].op = "forgotPassword"
          \/ \E l : Accept(r, [Call("forgotPassword", "link") EXCEPT !.link = l])
      BY <2>2 DEF ForgotPassword, ForgotPasswordWrite, ForgotPasswordMail, At
    <3> QED BY <2>1, <3>1
  <2>3. CASE ResetPassword(r)
    <3>1. \/ request[r] # Idle /\ request[r].op = "resetPassword"
          \/ \E l, p : Accept(r, [Call("resetPassword", "update") EXCEPT !.link = l, !.password = p])
      BY <2>3 DEF ResetPassword, ResetPasswordClear, UpdatePassword, RevokeSessions, At
    <3> QED BY <2>1, <3>1
  <2>4. CASE ChangePassword(r)
    <3>1. \/ request[r] # Idle /\ request[r].op = "changePassword"
          \/ \E p : Accept(r, [Call("changePassword", "update") EXCEPT !.password = p])
      BY <2>4 DEF ChangePassword, UpdatePassword, RevokeSessions, At
    <3> QED BY <2>1, <3>1
  <2> QED BY <2>2, <2>3, <2>4
<1>2. Other \cap Rotating = {} /\ "idle" \notin Other
  BY DEF Rotating
<1>3. ~(request[r] # Idle /\ request[r].op \in Other)
  BY <1>2 DEF Unchanging, InFlight
<1>4. ASSUME NEW c, Accept(r, c), c.op \in Other
      PROVE  FALSE
  <2>1. request[r] = Idle /\ request'[r] = c
    BY <1>4 DEF Accept, TypeOK
  <2>2. c # Idle
    BY <1>2, <1>4 DEF Idle
  <2>3. r \in InFlight' \ InFlight
    BY <2>1, <2>2 DEF InFlight
  <2> QED BY <1>2, <1>4, <2>1, <2>3 DEF Calling
<1> QED BY <1>1, <1>3, <1>4

\* A step of a method leaves the operation of its request as it was, or ends or begins it.
LEMMA CallGoesOn ==
    ASSUME TypeOK, NEW r \in Requests, AuthMethod(r) \/ Fault(r), r \in InFlight, r \in InFlight'
    PROVE  request'[r].op = request[r].op /\ request'[r].password = request[r].password
<1>1. /\ request[r] # Idle /\ request[r] \in Request
      /\ request'[r] # Idle
  BY DEF InFlight, TypeOK
<1>2. \/ \E c : Accept(r, c)
      \/ \E at : MoveOn(r, at)
      \/ Finish(r)
  BY DEF AuthMethod, Fault, Login, LoginWrite, Refresh, RefreshConsume, RefreshWrite, Logout, LogoutWrite,
     ForgotPassword, ForgotPasswordWrite, ForgotPasswordMail, ResetPassword, ResetPasswordClear,
     UpdatePassword, RevokeSessions, ChangePassword, RevokeAllSessions, RevokeOtherSessions,
     RevokeSession, RevokeSessionWrite
<1>3. PICK at : MoveOn(r, at)
  BY <1>1, <1>2 DEF Accept, Finish, TypeOK
<1>4. PICK c : c = [request[r] EXCEPT !.at = at]
  OBVIOUS
<1>5. c.op = request[r].op /\ c.password = request[r].password
  BY <1>1, <1>4 DEF Request
<1>6. request'[r] = c
  BY <1>3, <1>4 DEF MoveOn, TypeOK
<1> QED BY <1>5, <1>6

LEMMA CreatedVerified ==
    ASSUME TypeOK, NEW root, NEW p, CreateToken(root, p), NEW s \in Sids
    PROVE  session'[s].verified \in {session[s].verified, p}
<1>1. PICK f \in Sids : f = FreshSid
  BY FreshIsFresh DEF CreateToken
<1>2. PICK row : row = [used |-> TRUE, revokedAt |-> FALSE, expired |-> FALSE,
                        root |-> IF root = NoSid THEN f ELSE root,
                        verified |-> p, rotated |-> FALSE]
  OBVIOUS
<1>3. row.verified = p
  BY <1>2
<1>4. session' = [session EXCEPT ![f] = row]
  BY <1>1, <1>2 DEF CreateToken
<1> QED BY <1>3, <1>4 DEF TypeOK

LEMMA RevokedVerified ==
    ASSUME TypeOK, NEW kept, RevokeAllForUserExcept(kept), NEW s \in Sids
    PROVE  session'[s].verified = session[s].verified
<1>1. session[s] \in Row
  BY DEF TypeOK
<1>2. CASE s \in kept
  BY <1>1, <1>2 DEF RevokeAllForUserExcept
<1>3. CASE s \notin kept
  <2>1. session'[s] = [session[s] EXCEPT !.revokedAt = session[s].revokedAt \/ session[s].used]
    BY <1>1, <1>3 DEF RevokeAllForUserExcept
  <2> QED BY <1>1, <2>1 DEF Row
<1> QED BY <1>2, <1>3

LEMMA RowVerified ==
    ASSUME TypeOK, NEW o, NEW v, NEW s \in Sids,
           \/ session' = [session EXCEPT ![o].revokedAt = v]
           \/ session' = [session EXCEPT ![o].expired = v]
           \/ ConsumeActiveToken(o)
    PROVE  session'[s].verified = session[s].verified
BY DEF TypeOK, Row, ConsumeActiveToken

\* The password a session is opened with is the first in every step.
LEMMA RotatingVerifies ==
    ASSUME SInv, Unchanging, NEW r \in Requests, NEW s \in Sids,
           \/ Login(r) \/ Refresh(r) \/ Logout(r) \/ RevokeAllSessions(r)
           \/ RevokeOtherSessions(r) \/ RevokeSession(r)
    PROVE  session'[s].verified = FirstPassword
<1>1. TypeOK /\ \A t \in Sids : session[t].verified = FirstPassword
  BY DEF SInv, Unchanging
<1>2. CASE UNCHANGED session
  BY <1>1, <1>2
<1>3. CASE LoginWrite(r)
  <2>1. request[r].password = FirstPassword
    BY <1>3 DEF LoginWrite, At, Unchanging, InFlight
  <2> QED BY <1>1, <1>3, <2>1, CreatedVerified DEF LoginWrite
<1>4. CASE RefreshWrite(r)
  <2>1. request[r].sid \in Sids
    BY <1>4 DEF RefreshWrite, At, SInv, NamesRow
  <2>2. session[request[r].sid].verified = FirstPassword
    BY <1>1, <2>1
  <2> QED BY <1>1, <1>4, <2>2, CreatedVerified DEF RefreshWrite
<1>5. CASE RefreshConsume(r)
  BY <1>1, <1>2, <1>5, RowVerified DEF RefreshConsume
<1>6. CASE LogoutWrite(r)
  BY <1>1, <1>6, RowVerified DEF LogoutWrite
<1>7. CASE RevokeSessionWrite(r)
  <2>1. PICK gone : gone = (session[request[r].sid].revokedAt \/ Active(request[r].sid))
    OBVIOUS
  <2>2. session' = [session EXCEPT ![request[r].sid].revokedAt = gone]
    BY <1>7, <2>1 DEF RevokeSessionWrite
  <2> QED BY <1>1, <2>2, RowVerified
<1>8. ASSUME NEW op, NEW kept, RevokeSessions(r, op, kept)
      PROVE  session'[s].verified = FirstPassword
  BY <1>1, <1>8, RevokedVerified DEF RevokeSessions
<1> QED BY <1>2, <1>3, <1>4, <1>5, <1>6, <1>7, <1>8 DEF Login, Refresh, Logout, RevokeAllSessions,
         RevokeOtherSessions, RevokeSession, rows

LEMMA RotatingLeaves ==
    ASSUME NEW r \in Requests,
           \/ Login(r) \/ Refresh(r) \/ Logout(r) \/ RevokeAllSessions(r)
           \/ RevokeOtherSessions(r) \/ RevokeSession(r) \/ Fault(r)
    PROVE  UNCHANGED <<password, link>>
BY DEF Login, LoginWrite, Refresh, RefreshConsume, RefreshWrite, Logout, LogoutWrite, RevokeSessions,
   RevokeAllSessions, RevokeOtherSessions, RevokeSession, RevokeSessionWrite, Fault, rows

LEMMA RotatingCallKnows ==
    ASSUME SInv, Unchanging, Calling(Rotating), NEW r \in Requests, AuthMethod(r) \/ Fault(r)
    PROVE  Unchanging'
<1>1. TypeOK
  BY DEF SInv
<1>2. \/ Login(r) \/ Refresh(r) \/ Logout(r) \/ RevokeAllSessions(r)
      \/ RevokeOtherSessions(r) \/ RevokeSession(r) \/ Fault(r)
  BY <1>1, NoneChanges DEF AuthMethod
<1>3. password' = FirstPassword /\ \A l \in Links : ~link'[l].spent
  BY <1>2, RotatingLeaves DEF Unchanging
<1>4. \A s \in Sids : session'[s].verified = FirstPassword
  BY <1>2, RotatingVerifies DEF Unchanging, Fault, rows
<1>5. \A q \in Requests \ {r} : request'[q] = request[q]
  BY <1>1, CallMovesAlone
<1>6. ASSUME r \in InFlight'
      PROVE  /\ request'[r].op \in Rotating
             /\ request'[r].op = "login" => request'[r].password = FirstPassword
  <2>1. CASE r \in InFlight
    BY <1>1, <1>6, <2>1, CallGoesOn DEF Unchanging
  <2>2. CASE r \notin InFlight
    <3>1. request'[r].op \in Rotating
      BY <1>6, <2>2 DEF Calling
    <3>2. ASSUME request'[r].op = "login"
          PROVE  request'[r].password = FirstPassword
      <4>1. request[r] = Idle
        BY <2>2 DEF InFlight
      <4>2. PICK op, at : /\ \/ Accept(r, [Call(op, at) EXCEPT !.password = password]) /\ op = "login"
                             \/ Accept(r, Call(op, at)) /\ op # "login"
                             \/ \E s \in Issued : Accept(r, [Call(op, at) EXCEPT !.sid = s]) /\ op # "login"
        BY <1>2, <4>1 DEF Login, LoginWrite, Refresh, RefreshConsume, RefreshWrite, Logout, LogoutWrite,
           RevokeSessions, RevokeAllSessions, RevokeOtherSessions, RevokeSession, RevokeSessionWrite,
           Fault, At
      <4>3. \A c : Accept(r, c) => request'[r] = c
        BY <1>1 DEF Accept, TypeOK
      <4>4. \A s : [Call(op, at) EXCEPT !.sid = s].op = op /\ Call(op, at).op = op
        BY DEF Call
      <4>5. [Call(op, at) EXCEPT !.password = password].password = password
        BY DEF Call
      <4> QED BY <3>2, <4>2, <4>3, <4>4, <4>5 DEF Unchanging
    <3> QED BY <3>1, <3>2
  <2> QED BY <2>1, <2>2
<1>7. \A q \in InFlight' : /\ request'[q].op \in Rotating
                           /\ request'[q].op = "login" => request'[q].password = FirstPassword
  BY <1>5, <1>6 DEF Unchanging, InFlight
<1> QED BY <1>3, <1>4, <1>7 DEF Unchanging, InFlight

LEMMA RotatingKnows ==
    ASSUME SInv, Unchanging, Next, Calling(Rotating)
    PROVE  Unchanging'
<1>1. ASSUME NEW t \in Sids, SessionExpires(t)
      PROVE  Unchanging'
  <2>1. session' = [session EXCEPT ![t].expired = TRUE] /\ UNCHANGED <<password, link, request>>
    BY <1>1 DEF SessionExpires
  <2>2. \A s \in Sids : session'[s].verified = session[s].verified
    BY <2>1, RowVerified DEF SInv
  <2> QED BY <2>1, <2>2 DEF Unchanging, InFlight
<1>2. ASSUME NEW k \in Links, LinkExpires(k)
      PROVE  Unchanging'
  <2>1. link' = [link EXCEPT ![k].expired = TRUE] /\ UNCHANGED <<password, session, request>>
    BY <1>2 DEF LinkExpires
  <2>2. \A l \in Links : link'[l].spent = link[l].spent
    BY <2>1 DEF SInv, TypeOK, LinkRow
  <2> QED BY <2>1, <2>2 DEF Unchanging, InFlight
<1> QED BY <1>1, <1>2, RotatingCallKnows DEF Next
-----------------------------------------------------------------------------
LEMMA MCInitKnows == MCInit => WInv
<1> SUFFICES ASSUME MCInit
             PROVE  WInv
  OBVIOUS
<1>1. SInv /\ \A r \in Requests : request[r] = Idle
  BY InitIsSound DEF MCInit, Init
<1>2. InFlight = {} /\ IsFiniteSet(InFlight)
  BY <1>1, FS_EmptySet DEF InFlight
<1>3. /\ password = FirstPassword
      /\ \A l \in Links : ~link[l].spent
      /\ \A s \in Sids : ~session[s].used /\ session[s].verified = FirstPassword
  BY DEF MCInit, Init
<1>4. AloneInv
  BY <1>1, <1>2, <1>3 DEF AloneInv, AtMostOne, SessionsCurrent, Current, Active, Unrevoked, Brings, At,
     Succeeding, LinksKnown, LinkKnown
<1>5. Unchanging
  BY <1>2, <1>3 DEF Unchanging
<1> QED BY <1>1, <1>2, <1>4, <1>5 DEF WInv

LEMMA MCNextKnows == WInv /\ [MCNext]_<<vars, accountVars, workload>> => WInv'
<1> SUFFICES ASSUME WInv, [MCNext]_<<vars, accountVars, workload>>
             PROVE  WInv'
  OBVIOUS
<1>0. SInv /\ TypeOK /\ IsFiniteSet(InFlight) /\ workload' = workload
  BY DEF WInv, SInv, MCNext
<1>1. CASE UNCHANGED vars
  <2>1. SInv'
    BY <1>0, <1>1, NextIsSound
  <2>2. UNCHANGED <<password, resetLink, link, session, request>>
    BY <1>1 DEF vars, rows
  <2>3. InFlight' = InFlight
    BY <2>2 DEF InFlight
  <2>4. AloneInv => AloneInv'
    BY <2>2, <2>3 DEF AloneInv, AtMostOne, SessionsCurrent, Current, Active, Unrevoked, Revoking, Brings,
       At, Succeeding, LinksKnown, LinkKnown
  <2>5. Unchanging => Unchanging'
    BY <2>2, <2>3 DEF Unchanging
  <2> QED BY <1>0, <2>1, <2>3, <2>4, <2>5 DEF WInv
<1>2. ASSUME MCNext, Next
      PROVE  WInv'
  <2>1. SInv'
    BY <1>0, <1>2, NextIsSound
  <2>2. IsFiniteSet(InFlight')
    BY <1>0, <1>2, InFlightStaysFinite DEF Next, SessionExpires, LinkExpires
  <2>3. workload = "serial" => AloneInv'
    BY <1>2, SerialKnows
  <2>4. workload = "rotating" => Unchanging'
    BY <1>0, <1>2, RotatingKnows DEF WInv, MCNext
  <2>5. CASE workload = "accounts"
    BY <1>1, <1>2, <2>5 DEF MCNext
  <2>6. CASE workload # "accounts"
    BY <1>0, <2>1, <2>2, <2>3, <2>4, <2>6 DEF WInv
  <2> QED BY <2>5, <2>6
<1>3. MCNext => Next \/ UNCHANGED vars
  BY DEF MCNext, Methods, Next
<1> QED BY <1>1, <1>2, <1>3

\* When every request is answered a live session was opened with the password the account
\* has, in any sequence of the methods served one at a time, and while sessions rotate in
\* concurrent requests; only a change of password that races is excluded, in which
\* auth.service.ts lets an old one live.
THEOREM OldPasswordsAreOut ==
    ASSUME Workloads \subseteq SoundWorkloads
    PROVE  MCSpec => []OldPasswordsOut
<1>1. MCInit => WInv /\ workload \in SoundWorkloads
  BY MCInitKnows DEF MCInit
<1>2. WInv /\ workload \in SoundWorkloads /\ [MCNext]_<<vars, accountVars, workload>>
      => (WInv /\ workload \in SoundWorkloads)'
  BY MCNextKnows DEF MCNext
<1>3. WInv /\ workload \in SoundWorkloads => OldPasswordsOut
  <2> SUFFICES ASSUME WInv, workload \in SoundWorkloads, \A r \in Requests : request[r] = Idle
               PROVE  Current
    BY DEF OldPasswordsOut, Current
  <2>1. CASE workload = "serial"
    BY <2>1 DEF WInv, AloneInv, SessionsCurrent, Revoking, At
  <2>2. CASE workload \in {"rotating", "accounts"}
    BY <2>2 DEF WInv, Unchanging, Current
  <2> QED BY <2>1, <2>2 DEF SoundWorkloads
<1> QED BY <1>1, <1>2, <1>3, PTL DEF MCSpec

\* A mailed link sets the password once, whatever newer links are asked for, mailed or lost
\* in between, when requests are served one at a time (resetPassword and
\* forgotPassword of auth.service.ts); and in the workloads that call neither.
THEOREM ALinkSetsOnce ==
    ASSUME Workloads \subseteq SoundWorkloads
    PROVE  MCSpec => []LinkSetsOnce
<1>1. MCInit => WInv /\ workload \in SoundWorkloads
  BY MCInitKnows DEF MCInit
<1>2. WInv /\ workload \in SoundWorkloads /\ [MCNext]_<<vars, accountVars, workload>>
      => (WInv /\ workload \in SoundWorkloads)'
  BY MCNextKnows DEF MCNext
<1>3. WInv /\ workload \in SoundWorkloads => LinkSetsOnce
  <2> SUFFICES ASSUME WInv, workload \in SoundWorkloads, NEW l \in Links, link[l].spent,
                      NEW r \in Requests, At(r, "resetPassword", "update"), request[r].link = l
               PROVE  FALSE
    BY DEF LinkSetsOnce
  <2>1. CASE workload = "serial"
    BY <2>1 DEF WInv, AloneInv, LinksKnown, LinkKnown, At
  <2>2. CASE workload \in {"rotating", "accounts"}
    BY <2>2 DEF WInv, Unchanging
  <2> QED BY <2>1, <2>2 DEF SoundWorkloads
<1> QED BY <1>1, <1>2, <1>3, PTL DEF MCSpec
===============================================================================
