------------------------------- MODULE TabProofs -------------------------------
(***************************************************************************)
(* Proofs about Tabs, for any tabs, calls, sessions and passwords, with     *)
(* lost answers, time-outs and failing queries: the tabs and the API are    *)
(* Sessions seen from the client, and a tab never holds or sends a refresh  *)
(* token that was exchanged already.  They rest on what SessionProofs shows *)
(* of Sessions (SInv), and on nothing of accounts.                          *)
(***************************************************************************)
EXTENDS Tabs, SessionProofs

\* The refresh token s is on its way to the API.
Sends(r, s) == request[r] # Idle /\ request[r].op = "refresh" /\ request[r].sid = s
\* A token that nobody has exchanged, nor is about to.
Live(s) == /\ s \in Sids /\ session[s].used /\ ~session[s].rotated
           /\ \A r \in Requests : ~Sends(r, s)

StoredLive == \A t \in Tabs : stored[t] # NoSid =>
                 /\ session[stored[t]].used
                 /\ ~Refreshing(t) => Live(stored[t])
AnswersLive == \A x \in Requests : answer[x] \in Sids => Live(answer[x])
\* Two tabs, or a tab and an answer, never have the same token.
PairsApart == /\ \A t, u \in Tabs : stored[t] # NoSid /\ stored[t] = stored[u] => t = u
              /\ \A t \in Tabs, x \in Requests : stored[t] # NoSid => answer[x] # stored[t]
              /\ \A x, y \in Requests : answer[x] \in Sids /\ answer[x] = answer[y] => x = y
RefreshesApart == \A r, q \in Requests, s \in Sids : Sends(r, s) /\ Sends(q, s) => r = q
Unspent == \A r \in Requests :
              At(r, "refresh", "consume") => ~session[request[r].sid].rotated

Held == StoredLive /\ AnswersLive /\ PairsApart /\ RefreshesApart /\ Unspent
\* A body that is read is one of an ok answer.
ReadsTokens == \A t \in Tabs : refreshing[t] = "reading" => answer[Slot(t, "refresh")] \in Sids
TInv == SInv /\ TabTypeOK /\ Held /\ ReadsTokens

-----------------------------------------------------------------------------
\* Tabs implements Sessions: what tabs do to the API are calls of its methods.
LEMMA TabsCallMethods == TInv /\ [TabNext]_tabVars => [Next]_vars
<1> SUFFICES ASSUME TInv, [TabNext]_tabVars
             PROVE  [Next]_vars
  OBVIOUS
<1>1. CASE UNCHANGED tabVars
  BY <1>1 DEF tabVars
<1>2. ASSUME NEW r \in Requests, Serve(r)
      PROVE  Next
  BY <1>2 DEF Serve, Next, AuthMethod, Refresh, Login, Logout
<1>3. ASSUME NEW s \in Sids, AccessExpires(s) \/ SessionExpires(s)
      PROVE  [Next]_vars
  BY <1>3 DEF AccessExpires, Next
<1>4. ASSUME NEW t \in Tabs, TabStep(t)
      PROVE  [Next]_vars
  <2>0. Slot(t, "refresh") \in Requests /\ Slot(t, "sign") \in Requests
    BY TabsAssumption DEF Slot
  <2>a. stored[t] # NoSid => stored[t] \in Issued
    BY DEF TInv, TabTypeOK, Held, StoredLive, Issued
  <2>1. ASSUME NEW c \in Fetches, Send(t, c) \/ Settle(t, c)
        PROVE  UNCHANGED vars
    BY <2>1 DEF Send, Settle
  <2>2. ASSUME NEW c \in Fetches, Unauthorized(t, c)
        PROVE  [Next]_vars
    <3>1. UNCHANGED rows
      BY <2>2 DEF Unauthorized
    <3>2. CASE UNCHANGED request
      BY <3>1, <3>2 DEF vars
    <3>3. CASE /\ SidsLeft /\ stored[t] # NoSid
               /\ Accept(Slot(t, "refresh"),
                         [Call("refresh", "consume") EXCEPT !.sid = stored[t]])
      BY <2>0, <2>a, <3>1, <3>3 DEF Next, AuthMethod, Refresh
    <3> QED BY <2>2, <3>2, <3>3 DEF Unauthorized
  <2>3. CASE RefreshRefused(t) \/ RefreshHeaders(t) \/ RefreshBody(t) \/ RefreshTimesOut(t) \/ SignAnswered(t)
    BY <2>3 DEF RefreshRefused, RefreshHeaders, RefreshBody, RefreshTimesOut, SignAnswered
  <2>4. CASE SignIn(t)
    BY <2>0, <2>4 DEF SignIn, Next, AuthMethod, Login, vars
  <2>5. CASE LogOut(t)
    BY <2>0, <2>a, <2>5 DEF LogOut, Next, AuthMethod, Logout
  <2> QED BY <1>4, <2>1, <2>2, <2>3, <2>4, <2>5 DEF TabStep
<1> QED BY <1>1, <1>2, <1>3, <1>4 DEF TabNext

-----------------------------------------------------------------------------
(***************************************************************************)
(* The API's steps                                                         *)
(***************************************************************************)
RefreshesSame == \A t \in Tabs : Refreshing(t)' <=> Refreshing(t)
TokensSame == \A s \in Sids : /\ session'[s].used = session[s].used
                              /\ session'[s].rotated = session[s].rotated

\* A request ends, or goes on as it was, and no token is issued or exchanged.
LEMMA QuietHeld ==
    ASSUME TInv, UNCHANGED stored, RefreshesSame, TokensSame,
           \A r \in Requests : request'[r] = request[r] \/ request'[r] = Idle,
           \A x \in Requests : answer'[x] = answer[x] \/ answer'[x] \notin Sids
    PROVE  Held'
<1>1. \A r \in Requests, s \in Sids : Sends(r, s)' => Sends(r, s)
  BY DEF Sends
<1>2. \A s \in Sids : Live(s) => Live(s)'
  BY <1>1 DEF Live, TokensSame
<1>3. StoredLive'
  BY <1>2 DEF TInv, TabTypeOK, Held, StoredLive, TokensSame, RefreshesSame
<1>4. AnswersLive'
  BY <1>2 DEF TInv, Held, AnswersLive
<1>5. PairsApart'
  BY DEF TInv, TabTypeOK, Held, PairsApart
<1>6. RefreshesApart'
  BY <1>1 DEF TInv, Held, RefreshesApart
<1>7. Unspent'
  BY DEF TInv, SInv, NamesRow, Held, Unspent, TokensSame, At
<1> QED BY <1>3, <1>4, <1>5, <1>6, <1>7 DEF Held

\* A session is issued, and its answer goes to who waits for it, if anybody does.
LEMMA IssuingHeld ==
    ASSUME TInv, UNCHANGED <<stored, refreshing>>, NEW r \in Requests, Finish(r),
           NEW f \in Sids, ~session[f].used, session'[f].used, ~session'[f].rotated,
           \A s \in Sids \ {f} : session'[s] = session[s],
           Answer(r, f)
    PROVE  Held'
<1>1. /\ request' = [request EXCEPT ![r] = Idle]
      /\ answer' = answer \/ answer' = [answer EXCEPT ![r] = f]
      /\ SInv /\ TabTypeOK /\ Held
  BY DEF Finish, Answer, TInv
<1>2. \A q \in Requests : request'[q] = request[q] \/ request'[q] = Idle
  BY <1>1 DEF SInv, TypeOK
<1>3. \A q \in Requests, s \in Sids : Sends(q, s)' => Sends(q, s) /\ session[s].used
  BY <1>1, <1>2 DEF Sends, SInv, NamesRow
<1>4. \A s \in Sids : Live(s) => s # f /\ Live(s)'
  BY <1>3 DEF Live
<1>5. Live(f)'
  BY <1>3 DEF Live
<1>6. \A q \in Requests \ {r} : answer'[q] = answer[q]
  BY <1>1 DEF TabTypeOK
<1>7. answer'[r] = answer[r] \/ answer'[r] = f
  BY <1>1 DEF TabTypeOK
<1>8. \A q \in Requests : answer[q] # f
  BY <1>1, <1>4 DEF Held, AnswersLive
<1>9. \A t \in Tabs : stored[t] # NoSid => stored[t] \in Sids /\ stored[t] # f
  BY <1>1 DEF Held, StoredLive, TabTypeOK
<1>10. StoredLive'
  BY <1>1, <1>4, <1>9 DEF Held, StoredLive, Refreshing
<1>11. AnswersLive'
  BY <1>1, <1>4, <1>5, <1>6, <1>7 DEF Held, AnswersLive
<1>12. PairsApart'
  BY <1>1, <1>6, <1>7, <1>8, <1>9 DEF Held, PairsApart
<1>13. RefreshesApart'
  BY <1>1, <1>3 DEF Held, RefreshesApart
<1>14. Unspent'
  BY <1>1, <1>2 DEF Held, Unspent, At, SInv, NamesRow
<1> QED BY <1>10, <1>11, <1>12, <1>13, <1>14 DEF Held

\* A token is exchanged: it is the one the request names, and nobody's else.
LEMMA ConsumingHeld ==
    ASSUME TInv, UNCHANGED <<stored, refreshing, answer>>, NEW r \in Requests,
           At(r, "refresh", "consume"), MoveOn(r, "persist"),
           ConsumeActiveToken(request[r].sid)
    PROVE  Held'
<1>1. SInv /\ TypeOK /\ TabTypeOK /\ Held
  BY DEF TInv, SInv
<1>2. PICK o \in Sids : o = request[r].sid /\ session[o].used /\ Sends(r, o)
  BY <1>1 DEF At, SInv, NamesRow, Sends
<1>3. "persist" \in Steps
  BY DEF Steps
<1>4. /\ AloneMoves(r) /\ request'[r] # Idle
      /\ request'[r].op = "refresh" /\ request'[r].at = "persist" /\ request'[r].sid = o
  BY <1>1, <1>2, <1>3, MoveOnMoves DEF At
<1>5. \A s \in Sids \ {o} : session'[s] = session[s]
  BY <1>1, <1>2 DEF ConsumeActiveToken, TypeOK
<1>6. session'[o].used = session[o].used
  BY <1>1, <1>2 DEF ConsumeActiveToken, TypeOK, Row
<1>7. \A q \in Requests, s \in Sids : Sends(q, s)' <=> Sends(q, s)
  BY <1>2, <1>4 DEF AloneMoves, Sends
<1>8. \A s \in Sids : Live(s) => s # o /\ Live(s)'
  BY <1>2, <1>5, <1>7 DEF Live
<1>9. StoredLive'
  BY <1>1, <1>5, <1>6, <1>8 DEF Held, StoredLive, TabTypeOK, Refreshing
<1>10. AnswersLive'
  BY <1>1, <1>8 DEF Held, AnswersLive
<1>11. PairsApart'
  BY <1>1 DEF Held, PairsApart
<1>12. RefreshesApart'
  BY <1>1, <1>7 DEF Held, RefreshesApart
<1>13. Unspent'
  <2> SUFFICES ASSUME NEW q \in Requests, At(q, "refresh", "consume")'
               PROVE  ~session'[request'[q].sid].rotated
    BY DEF Unspent
  <2>1. q # r /\ request'[q] = request[q] /\ At(q, "refresh", "consume")
    BY <1>4 DEF At, AloneMoves
  <2>2. request[q].sid \in Sids /\ Sends(q, request[q].sid)
    BY <1>1, <2>1 DEF At, SInv, NamesRow, Sends
  <2>3. request[q].sid # o
    BY <1>1, <1>2, <2>1, <2>2 DEF Held, RefreshesApart
  <2> QED BY <1>1, <1>5, <2>1, <2>2, <2>3 DEF Held, Unspent
<1> QED BY <1>9, <1>10, <1>11, <1>12, <1>13 DEF Held

LEMMA ServeHeld == ASSUME TInv, NEW r \in Requests, Serve(r) PROVE Held'
<1>1. SInv /\ TypeOK /\ UNCHANGED <<stored, refreshing>>
  BY DEF TInv, SInv, Serve, client
<1>2. Refused \notin Sids
  BY TabsAssumption
<1>3. ASSUME Finish(r), TokensSame, Answer(r, Refused) \/ UNCHANGED answer
      PROVE  Held'
  <2>1. \A q \in Requests : request'[q] = request[q] \/ request'[q] = Idle
    BY <1>1, <1>3 DEF Finish, TypeOK
  <2>2. \A x \in Requests : answer'[x] = answer[x] \/ answer'[x] \notin Sids
    BY <1>2, <1>3 DEF Answer, TInv, TabTypeOK
  <2> QED BY <1>1, <1>3, <2>1, <2>2, QuietHeld DEF RefreshesSame, Refreshing
<1>4. CASE RefreshConsume(r) /\ (IF Active(request[r].sid) THEN UNCHANGED answer
                                                          ELSE Answer(r, Refused))
  <2>1. CASE Active(request[r].sid)
    BY <1>1, <1>4, <2>1, ConsumingHeld DEF RefreshConsume
  <2>2. CASE ~Active(request[r].sid)
    BY <1>3, <1>4, <2>2 DEF RefreshConsume, TokensSame
  <2> QED BY <2>1, <2>2
<1>5. ASSUME NEW root, NEW verified, CreateToken(root, verified), Finish(r),
             Answer(r, FreshSid)
      PROVE  Held'
  <2>1. PICK f : f = FreshSid
    OBVIOUS
  <2>2. f \in Sids /\ ~session[f].used
    BY <1>1, <1>5, <2>1, FreshIsFresh DEF CreateToken
  <2>3. PICK row : row = [used |-> TRUE, revokedAt |-> FALSE, expired |-> FALSE,
                          root |-> IF root = NoSid THEN f ELSE root,
                          verified |-> verified, rotated |-> FALSE]
    OBVIOUS
  <2>4. row.used /\ ~row.rotated
    BY <2>3
  <2>5. session' = [session EXCEPT ![f] = row]
    BY <1>5, <2>1, <2>3 DEF CreateToken
  <2>6. session'[f] = row /\ \A s \in Sids \ {f} : session'[s] = session[s]
    BY <1>1, <2>2, <2>5 DEF TypeOK
  <2> QED BY <1>1, <1>5, <2>1, <2>2, <2>4, <2>6, IssuingHeld
<1>6. CASE RefreshWrite(r) /\ Answer(r, FreshSid)
  BY <1>5, <1>6 DEF RefreshWrite
<1>7. CASE LoginWrite(r) /\ Answer(r, FreshSid)
  BY <1>5, <1>7 DEF LoginWrite
<1>8. CASE LogoutWrite(r) /\ Answer(r, Refused)
  <2>1. TokensSame
    BY <1>1, <1>8 DEF LogoutWrite, TokensSame, TypeOK, Row
  <2> QED BY <1>3, <1>8, <2>1 DEF LogoutWrite
<1>9. CASE Fault(r) /\ Answer(r, Refused)
  BY <1>3, <1>9 DEF Fault, rows, TokensSame
<1> QED BY <1>4, <1>6, <1>7, <1>8, <1>9 DEF Serve

LEMMA ExpiryHeld ==
    ASSUME TInv, NEW s \in Sids,
           \/ AccessExpires(s)
           \/ SessionExpires(s) /\ UNCHANGED <<client, answer, accessExpired>>
    PROVE  Held'
<1>1. TypeOK /\ UNCHANGED <<stored, refreshing, answer, request>>
  BY DEF TInv, SInv, AccessExpires, SessionExpires, client, vars
<1>2. TokensSame
  BY <1>1 DEF AccessExpires, SessionExpires, vars, rows, TokensSame, TypeOK, Row
<1> QED BY <1>1, <1>2, QuietHeld DEF RefreshesSame, Refreshing

-----------------------------------------------------------------------------
(***************************************************************************)
(* The tabs' steps                                                         *)
(***************************************************************************)
LEMMA IdleStepHeld ==
    ASSUME TInv, UNCHANGED <<session, request, stored, refreshing>>,
           \A x \in Requests : answer'[x] = answer[x] \/ answer'[x] \notin Sids
    PROVE  Held'
BY QuietHeld DEF TokensSame, RefreshesSame, Refreshing

\* A request that is no refresh is sent.
LEMMA OtherCallHeld ==
    ASSUME TInv, UNCHANGED <<session, stored, refreshing, answer>>, NEW r \in Requests,
           NEW c, Accept(r, c), c.op # "refresh"
    PROVE  Held'
<1>1. /\ request[r] = Idle /\ request'[r] = c
      /\ \A q \in Requests \ {r} : request'[q] = request[q]
  BY DEF Accept, TInv, SInv, TypeOK
<1>2. \A q \in Requests, s \in Sids : Sends(q, s)' => Sends(q, s)
  BY <1>1 DEF Sends
<1>3. \A s \in Sids : Live(s) => Live(s)'
  BY <1>2 DEF Live
<1>4. \A q \in Requests : At(q, "refresh", "consume")' =>
         At(q, "refresh", "consume") /\ request'[q] = request[q]
  BY <1>1 DEF At
<1> QED BY <1>2, <1>3, <1>4
        DEF TInv, TabTypeOK, Held, StoredLive, AnswersLive, PairsApart, RefreshesApart, Unspent,
            Refreshing

\* The pair in sessionStorage is sent: until it is answered the tab is refreshing.
LEMMA UnauthorizedHeld ==
    ASSUME TInv, NEW t \in Tabs, NEW c \in Fetches, Unauthorized(t, c) PROVE Held'
<1>1. TypeOK /\ TabTypeOK /\ Held /\ SInv /\ UNCHANGED <<session, stored, answer>>
  BY DEF TInv, SInv, Unauthorized, rows
<1>2. CASE stored[t] = NoSid
  BY <1>1, <1>2, IdleStepHeld DEF Unauthorized
<1>3. CASE stored[t] # NoSid /\ Refreshing(t)
  <2>1. UNCHANGED request /\ refreshing' = refreshing
    BY <1>1, <1>3 DEF Unauthorized, JoinRefresh, TabTypeOK
  <2> QED BY <1>1, <2>1, IdleStepHeld
<1>4. CASE stored[t] # NoSid /\ ~Refreshing(t)
  <2>1. PICK r \in Requests : r = Slot(t, "refresh")
    BY TabsAssumption DEF Slot
  <2>2. PICK s \in Sids : s = stored[t] /\ Live(s)
    BY <1>1, <1>4 DEF Held, StoredLive, Live
  <2>3. PICK k : k = [Call("refresh", "consume") EXCEPT !.sid = s]
    OBVIOUS
  <2>4. k.op = "refresh" /\ k.sid = s
    BY <2>3 DEF Call
  <2>5. Accept(r, k) /\ refreshing' = [refreshing EXCEPT ![t] = "sent"]
    BY <1>4, <2>1, <2>2, <2>3 DEF Unauthorized, JoinRefresh
  <2>6. /\ request[r] = Idle /\ request'[r] = k
        /\ \A q \in Requests \ {r} : request'[q] = request[q]
    BY <1>1, <2>5 DEF Accept, TypeOK
  <2>7. \A q \in Requests, x \in Sids :
           Sends(q, x)' => (q # r /\ Sends(q, x)) \/ (q = r /\ x = s)
    BY <2>4, <2>6 DEF Sends
  <2>8. \A x \in Sids \ {s} : Live(x) => Live(x)'
    BY <1>1, <2>7 DEF Live
  <2>9. Refreshing(t)' /\ \A u \in Tabs \ {t} : Refreshing(u)' <=> Refreshing(u)
    BY <1>1, <2>5 DEF TabTypeOK, Refreshing
  <2>10. StoredLive'
    <3> SUFFICES ASSUME NEW u \in Tabs, stored[u] # NoSid
                 PROVE  session[stored[u]].used /\ (~Refreshing(u)' => Live(stored[u])')
      BY <1>1 DEF StoredLive
    <3>1. session[stored[u]].used
      BY <1>1 DEF Held, StoredLive
    <3>2. CASE u = t
      BY <2>9, <3>1, <3>2
    <3>3. CASE u # t
      <4>1. stored[u] \in Sids \ {s}
        BY <1>1, <2>2, <3>3 DEF TabTypeOK, Held, PairsApart
      <4>2. PICK x \in Sids \ {s} : x = stored[u]
        BY <4>1
      <4>3. ~Refreshing(u)' => Live(x)'
        BY <1>1, <2>8, <2>9, <3>3, <4>2 DEF Held, StoredLive
      <4> QED BY <1>1, <3>1, <4>2, <4>3
    <3> QED BY <3>2, <3>3
  <2>11. AnswersLive'
    BY <1>1, <1>4, <2>2, <2>8 DEF Held, AnswersLive, PairsApart
  <2>12. PairsApart'
    BY <1>1 DEF Held, PairsApart
  <2>13. RefreshesApart'
    <3>1. \A q \in Requests : ~Sends(q, s)
      BY <2>2 DEF Live
    <3> QED BY <1>1, <2>7, <3>1 DEF Held, RefreshesApart
  <2>14. Unspent'
    <3> SUFFICES ASSUME NEW q \in Requests, At(q, "refresh", "consume")'
                 PROVE  ~session[request'[q].sid].rotated
      BY <1>1 DEF Unspent
    <3>1. CASE q = r
      BY <2>2, <2>4, <2>6, <3>1 DEF Live
    <3>2. CASE q # r
      BY <1>1, <2>6, <3>2 DEF Held, Unspent, At
    <3> QED BY <3>1, <3>2
  <2> QED BY <2>10, <2>11, <2>12, <2>13, <2>14 DEF Held
<1> QED BY <1>2, <1>3, <1>4

\* The tab stores the answer to one of its requests, or nothing.
LEMMA StoreHeld ==
    ASSUME TInv, UNCHANGED <<session, request>>, NEW t \in Tabs, NEW x \in Requests,
           NEW s \in Sids \cup {NoSid}, s = NoSid \/ s = answer[x],
           stored' = [stored EXCEPT ![t] = s],
           answer' = [answer EXCEPT ![x] = NoAnswer],
           \A u \in Tabs \ {t} : refreshing'[u] = refreshing[u]
    PROVE  Held'
<1>1. TabTypeOK /\ Held
  BY DEF TInv
<1>2. /\ stored'[t] = s /\ \A u \in Tabs \ {t} : stored'[u] = stored[u]
      /\ answer'[x] = NoSid /\ \A y \in Requests \ {x} : answer'[y] = answer[y]
  BY <1>1 DEF TabTypeOK, NoAnswer
<1>3. \A q \in Sids : Live(q)' <=> Live(q)
  BY DEF Live, Sends
<1>4. NoSid \notin Sids
  BY SessionsAssumption
<1>5. s # NoSid => Live(s) /\ answer[x] = s
  BY <1>1 DEF Held, AnswersLive
<1>6. StoredLive'
  <2> SUFFICES ASSUME NEW u \in Tabs, stored'[u] # NoSid
               PROVE  session[stored'[u]].used /\ (~Refreshing(u)' => Live(stored[u])')
    BY DEF StoredLive
  <2>1. PICK q \in Sids : q = stored'[u]
    BY <1>1, <1>2 DEF TabTypeOK
  <2>2. session[q].used /\ (~Refreshing(u)' => Live(q))
    <3>1. CASE u = t
      BY <1>2, <1>5, <2>1, <3>1 DEF Live
    <3>2. CASE u # t
      BY <1>1, <1>2, <2>1, <3>2 DEF Held, StoredLive, Refreshing
    <3> QED BY <3>1, <3>2
  <2>3. Live(q) => Live(stored[u])'
    BY <2>1 DEF Live, Sends
  <2> QED BY <2>1, <2>2, <2>3
<1>7. AnswersLive'
  <2> SUFFICES ASSUME NEW y \in Requests, answer'[y] \in Sids
               PROVE  Live(answer[y])'
    BY DEF AnswersLive
  <2>1. y # x /\ answer'[y] = answer[y] /\ Live(answer[y])
    BY <1>1, <1>2, <1>4 DEF Held, AnswersLive
  <2> QED BY <2>1 DEF Live, Sends
<1>8. PairsApart'
  BY <1>1, <1>2, <1>4, <1>5 DEF Held, PairsApart, TabTypeOK
<1>9. RefreshesApart' /\ Unspent'
  BY <1>1 DEF Held, RefreshesApart, Unspent, Sends, At
<1> QED BY <1>6, <1>7, <1>8, <1>9 DEF Held

LEMMA TabStepHeld == ASSUME TInv, NEW t \in Tabs, TabStep(t) PROVE Held'
<1>0. Slot(t, "refresh") \in Requests /\ Slot(t, "sign") \in Requests
  BY TabsAssumption DEF Slot
<1>1. TypeOK /\ TabTypeOK /\ NoSid \notin Sids /\ Refused \notin Sids /\ Refused # NoSid
  BY TabsAssumption, SessionsAssumption DEF TInv, SInv
<1>2. ASSUME NEW c \in Fetches, Send(t, c) \/ Settle(t, c)
      PROVE  Held'
  BY <1>2, IdleStepHeld DEF Send, Settle, vars, rows
<1>3. ASSUME NEW c \in Fetches, Unauthorized(t, c)
      PROVE  Held'
  BY <1>3, UnauthorizedHeld
<1>4. ASSUME NEW s \in Sids \cup {NoSid}, s \in {answer[Slot(t, "refresh")], NoSid},
             SettleRefresh(t, s), UNCHANGED vars,
             answer' = [answer EXCEPT ![Slot(t, "refresh")] = NoAnswer]
      PROVE  Held'
  <2>1. PICK x \in Requests : x = Slot(t, "refresh")
    BY <1>0
  <2>2. /\ stored' = [stored EXCEPT ![t] = s] /\ answer' = [answer EXCEPT ![x] = NoAnswer]
        /\ refreshing' = [refreshing EXCEPT ![t] = "none"] /\ UNCHANGED <<session, request>>
    BY <1>4, <2>1 DEF SettleRefresh, vars, rows
  <2>3. \A u \in Tabs \ {t} : refreshing'[u] = refreshing[u]
    BY <1>1, <2>2 DEF TabTypeOK
  <2>4. s = NoSid \/ s = answer[x]
    BY <1>4, <2>1
  <2> QED BY <2>2, <2>3, <2>4, StoreHeld
<1>5. CASE RefreshRefused(t) \/ RefreshTimesOut(t)
  BY <1>4, <1>5 DEF RefreshRefused, RefreshTimesOut
<1>9. CASE RefreshBody(t)
  <2>1. PICK s \in {answer[Slot(t, "refresh")], NoSid} : SettleRefresh(t, s)
    BY <1>9 DEF RefreshBody
  <2>2. s \in Sids \cup {NoSid}
    BY <1>9, <2>1 DEF RefreshBody, TInv, ReadsTokens
  <2> QED BY <1>4, <1>9, <2>1, <2>2 DEF RefreshBody
<1>10. CASE RefreshHeaders(t)
  <2>1. UNCHANGED <<session, request, stored, answer>>
    BY <1>10 DEF RefreshHeaders, vars, rows
  <2>2. RefreshesSame
    BY <1>1, <1>10 DEF RefreshHeaders, Unread, TabTypeOK, Refreshing, RefreshesSame
  <2> QED BY <2>1, <2>2, QuietHeld DEF TokensSame
<1>6. CASE SignIn(t)
  <2>1. UNCHANGED <<session, stored, refreshing>>
    BY <1>6 DEF SignIn, rows
  <2>2. CASE /\ UNCHANGED request
             /\ answer' = [answer EXCEPT ![Slot(t, "sign")] = Refused]
    BY <1>1, <2>1, <2>2, IdleStepHeld DEF TabTypeOK
  <2>3. ASSUME Accept(Slot(t, "sign"), [Call("login", "persist") EXCEPT !.password = password]),
               UNCHANGED answer
        PROVE  Held'
    <3>1. PICK c : c = [Call("login", "persist") EXCEPT !.password = password]
      OBVIOUS
    <3>2. c.op # "refresh"
      BY <3>1 DEF Call
    <3> QED BY <1>0, <2>1, <2>3, <3>1, <3>2, OtherCallHeld
  <2> QED BY <1>6, <2>2, <2>3 DEF SignIn
<1>7. CASE LogOut(t)
  <2>1. PICK c : c = [Call("logout", "write") EXCEPT !.sid = stored[t]]
    OBVIOUS
  <2>2. c.op # "refresh"
    BY <2>1 DEF Call
  <2> QED BY <1>0, <1>7, <2>1, <2>2, OtherCallHeld DEF LogOut, rows
<1>8. CASE SignAnswered(t)
  <2>1. PICK x \in Requests : x = Slot(t, "sign")
    BY <1>0
  <2>2. /\ answer' = [answer EXCEPT ![x] = NoAnswer] /\ refreshing' = refreshing
        /\ UNCHANGED <<session, request>>
    BY <1>8, <2>1 DEF SignAnswered, vars, rows
  <2>3. CASE UNCHANGED stored
    BY <1>1, <2>2, <2>3, IdleStepHeld DEF TabTypeOK, NoAnswer
  <2>4. CASE stored' = [stored EXCEPT ![t] = NoSid]
    BY <2>2, <2>4, StoreHeld
  <2>5. CASE answer[x] \in Sids /\ stored' = [stored EXCEPT ![t] = answer[x]]
    <3>1. PICK s \in Sids : s = answer[x]
      BY <2>5
    <3> QED BY <2>2, <2>5, <3>1, StoreHeld
  <2> QED BY <1>8, <2>1, <2>3, <2>4, <2>5 DEF SignAnswered
<1> QED BY <1>2, <1>3, <1>5, <1>6, <1>7, <1>8, <1>9, <1>10 DEF TabStep

\* While a body is read no other answer takes its place.
LEMMA BodiesStay == ASSUME TInv, [TabNext]_tabVars PROVE ReadsTokens'
<1>1. TabTypeOK /\ ReadsTokens
  BY DEF TInv
<1> SUFFICES ASSUME NEW t \in Tabs, refreshing'[t] = "reading"
             PROVE  answer'[Slot(t, "refresh")] \in Sids
  BY DEF ReadsTokens
<1>2. PICK x \in Requests : x = Slot(t, "refresh")
  BY TabsAssumption DEF Slot
<1>3. \A u \in Tabs : u # t => Slot(u, "refresh") # x
  BY <1>2 DEF Slot
<1>4. \A u \in Tabs : Slot(u, "sign") # x
  BY <1>2 DEF Slot
<1>5. ASSUME refreshing[t] = "reading", answer'[x] = answer[x]
      PROVE  answer'[x] \in Sids
  BY <1>1, <1>2, <1>5 DEF ReadsTokens
<1>6. CASE UNCHANGED tabVars
  BY <1>2, <1>5, <1>6 DEF tabVars, client
<1>7. ASSUME NEW r \in Requests, Serve(r)
      PROVE  answer'[x] \in Sids
  <2>1. UNCHANGED refreshing /\ ~Awaited(x)
    BY <1>2, <1>7 DEF Serve, client, Awaited, Slot
  <2>2. \A a : Answer(r, a) => answer'[x] = answer[x]
    BY <1>1, <2>1 DEF Answer, TabTypeOK
  <2>3. answer'[x] = answer[x]
    BY <1>7, <2>2 DEF Serve
  <2> QED BY <1>5, <2>1, <2>3
<1>8. ASSUME NEW s \in Sids,
             \/ AccessExpires(s)
             \/ SessionExpires(s) /\ UNCHANGED <<client, answer, accessExpired>>
      PROVE  answer'[x] \in Sids
  BY <1>5, <1>8 DEF AccessExpires, client
<1>9. ASSUME NEW u \in Tabs, TabStep(u)
      PROVE  answer'[x] \in Sids
  <2>1. ASSUME NEW c \in Fetches, Send(u, c) \/ Settle(u, c) \/ Unauthorized(u, c)
        PROVE  answer'[x] \in Sids
    BY <1>1, <1>5, <2>1 DEF Send, Settle, Unauthorized, TabTypeOK
  <2>2. CASE RefreshRefused(u) \/ RefreshTimesOut(u) \/ RefreshBody(u)
    <3>1. u # t
      BY <1>1, <2>2 DEF RefreshRefused, RefreshTimesOut, RefreshBody, SettleRefresh, TabTypeOK
    <3>2. refreshing[t] = "reading" /\ answer'[x] = answer[x]
      BY <1>1, <1>3, <2>2, <3>1 DEF RefreshRefused, RefreshTimesOut, RefreshBody, SettleRefresh, TabTypeOK
    <3> QED BY <1>5, <3>2
  <2>3. CASE RefreshHeaders(u)
    <3>1. CASE u = t
      BY <1>1, <1>2, <2>3, <3>1 DEF RefreshHeaders, Unread, TabTypeOK, NoAnswer
    <3>2. CASE u # t
      BY <1>1, <1>5, <2>3, <3>2 DEF RefreshHeaders, TabTypeOK
    <3> QED BY <3>1, <3>2
  <2>4. CASE SignIn(u) \/ LogOut(u) \/ SignAnswered(u)
    <3>1. refreshing'[t] = refreshing[t]
      BY <2>4 DEF SignIn, LogOut, SignAnswered
    <3>2. PICK y : y = Slot(u, "sign") /\ y # x
      BY <1>4
    <3>3. \/ UNCHANGED answer
          \/ \E a : answer' = [answer EXCEPT ![y] = a]
      BY <2>4, <3>2 DEF SignIn, LogOut, SignAnswered
    <3>4. answer'[x] = answer[x]
      BY <1>1, <3>2, <3>3 DEF TabTypeOK
    <3> QED BY <1>5, <3>1, <3>4
  <2> QED BY <1>9, <2>1, <2>2, <2>3, <2>4 DEF TabStep
<1> QED BY <1>2, <1>6, <1>7, <1>8, <1>9 DEF TabNext

-----------------------------------------------------------------------------
(***************************************************************************)
(* Types                                                                   *)
(***************************************************************************)
\* A call that goes from one state to another.
LEMMA CallTypes ==
    ASSUME TabTypeOK, NEW t \in Tabs, NEW row \in [Fetches -> CallState],
           fetch' = [fetch EXCEPT ![t] = row]
    PROVE  fetch' \in [Tabs -> [Fetches -> CallState]]
BY DEF TabTypeOK

LEMMA ServeTypes == ASSUME TInv, NEW r \in Requests, Serve(r) PROVE TabTypeOK'
<1>1. TabTypeOK /\ TypeOK /\ UNCHANGED <<client, accessExpired>>
  BY DEF TInv, SInv, Serve
<1>2. \A a \in Sids \cup {Refused} : Answer(r, a) => answer' \in [Requests -> Sids \cup {NoAnswer, Refused}]
  BY <1>1 DEF Answer, TabTypeOK
<1>3. Issued # Sids => FreshSid \in Sids
  BY <1>1, FreshIsFresh
<1>4. answer' \in [Requests -> Sids \cup {NoAnswer, Refused}]
  <2>1. CASE UNCHANGED answer
    BY <1>1, <2>1 DEF TabTypeOK
  <2>2. CASE Answer(r, Refused)
    BY <1>2, <2>2
  <2>3. ASSUME NEW root, NEW verified, CreateToken(root, verified), Answer(r, FreshSid)
        PROVE  answer' \in [Requests -> Sids \cup {NoAnswer, Refused}]
    BY <1>2, <1>3, <2>3 DEF CreateToken
  <2> QED BY <2>1, <2>2, <2>3 DEF Serve, RefreshWrite, LoginWrite
<1> QED BY <1>1, <1>4 DEF TabTypeOK, client

LEMMA TabStepTypes == ASSUME TInv, NEW t \in Tabs, TabStep(t) PROVE TabTypeOK'
<1>0. Slot(t, "refresh") \in Requests /\ Slot(t, "sign") \in Requests
  BY TabsAssumption DEF Slot
<1>1. TabTypeOK
  BY DEF TInv
<1>2. Idling \in CallState
  BY DEF Idling, CallState
<1>3. ASSUME NEW c \in Fetches, NEW k \in CallState, fetch' = [fetch EXCEPT ![t][c] = k]
      PROVE  fetch' \in [Tabs -> [Fetches -> CallState]]
  BY <1>1, <1>3 DEF TabTypeOK
<1>4. ASSUME NEW c \in Fetches, Send(t, c) \/ Settle(t, c)
      PROVE  TabTypeOK'
  <2>1. [at |-> "sent", sid |-> stored[t]] \in CallState
    BY <1>1 DEF TabTypeOK, CallState
  <2>2. fetch' \in [Tabs -> [Fetches -> CallState]]
    BY <1>2, <1>3, <1>4, <2>1 DEF Send, Settle
  <2> QED BY <1>1, <1>4, <2>2 DEF Send, Settle, TabTypeOK
<1>5. ASSUME NEW c \in Fetches, Unauthorized(t, c)
      PROVE  TabTypeOK'
  <2>1. fetch[t][c] \in CallState
    BY <1>1 DEF TabTypeOK
  <2>2. PICK k : k = [fetch[t][c] EXCEPT !.at = "waiting"]
    OBVIOUS
  <2>3. k \in CallState
    BY <2>1, <2>2 DEF CallState
  <2>4. fetch' = [fetch EXCEPT ![t][c] = Idling] \/ fetch' = [fetch EXCEPT ![t][c] = k]
    BY <1>1, <1>5, <2>2 DEF Unauthorized, TabTypeOK
  <2>5. fetch' \in [Tabs -> [Fetches -> CallState]]
    BY <1>2, <1>3, <2>3, <2>4
  <2>6. refreshing' \in [Tabs -> {"none", "sent", "reading"}]
    BY <1>1, <1>5 DEF Unauthorized, TabTypeOK
  <2> QED BY <1>1, <1>5, <2>5, <2>6 DEF Unauthorized, TabTypeOK
<1>6. ASSUME NEW pair \in Sids \cup {NoSid}, SettleRefresh(t, pair)
      PROVE  /\ refreshing' \in [Tabs -> {"none", "sent", "reading"}]
             /\ stored' \in [Tabs -> Sids \cup {NoSid}]
             /\ fetch' \in [Tabs -> [Fetches -> CallState]]
  <2>1. PICK row : row = [c \in Fetches |-> IF fetch[t][c].at = "waiting" THEN Idling ELSE fetch[t][c]]
    OBVIOUS
  <2>2. row \in [Fetches -> CallState]
    BY <1>1, <1>2, <2>1 DEF TabTypeOK
  <2> QED BY <1>1, <1>6, <2>1, <2>2, CallTypes DEF SettleRefresh, TabTypeOK
<1>7. CASE RefreshRefused(t) \/ RefreshTimesOut(t)
  BY <1>0, <1>1, <1>6, <1>7 DEF RefreshRefused, RefreshTimesOut, TabTypeOK
<1>8. CASE RefreshBody(t)
  <2>1. PICK s \in {answer[Slot(t, "refresh")], NoSid} : SettleRefresh(t, s)
    BY <1>8 DEF RefreshBody
  <2>2. s \in Sids \cup {NoSid}
    BY <1>8, <2>1 DEF RefreshBody, TInv, ReadsTokens
  <2> QED BY <1>0, <1>1, <1>6, <1>8, <2>1, <2>2 DEF RefreshBody, TabTypeOK
<1>11. CASE RefreshHeaders(t)
  BY <1>1, <1>11 DEF RefreshHeaders, TabTypeOK
<1>9. CASE SignIn(t) \/ LogOut(t)
  BY <1>0, <1>1, <1>9 DEF SignIn, LogOut, TabTypeOK
<1>10. CASE SignAnswered(t)
  BY <1>0, <1>1, <1>10 DEF SignAnswered, TabTypeOK
<1> QED BY <1>4, <1>5, <1>7, <1>8, <1>9, <1>10, <1>11 DEF TabStep

-----------------------------------------------------------------------------
(***************************************************************************)
(* The theorems                                                            *)
(***************************************************************************)
LEMMA TabInitIsSound == TabInit => TInv
<1> SUFFICES ASSUME TabInit
             PROVE  TInv
  OBVIOUS
<1>1. SInv
  BY InitIsSound DEF TabInit
<1>2. TabTypeOK
  BY DEF TabInit, TabTypeOK, CallState, Idling
<1>3. \A r \in Requests : request[r] = Idle
  BY DEF TabInit, Init
<1>4. NoSid \notin Sids
  BY SessionsAssumption
<1>5. Held
  BY <1>3, <1>4
  DEF TabInit, NoAnswer, Held, StoredLive, AnswersLive, PairsApart, RefreshesApart, Unspent,
      Sends, At
<1>6. ReadsTokens
  BY DEF TabInit, ReadsTokens
<1> QED BY <1>1, <1>2, <1>5, <1>6 DEF TInv

LEMMA TabNextIsSound == TInv /\ [TabNext]_tabVars => TInv'
<1> SUFFICES ASSUME TInv, [TabNext]_tabVars
             PROVE  TInv'
  OBVIOUS
<1>1. SInv' /\ ReadsTokens'
  BY TabsCallMethods, NextIsSound, BodiesStay DEF TInv
<1>2. CASE UNCHANGED tabVars
  <2>1. Held'
    BY <1>2, IdleStepHeld DEF tabVars, vars, rows, client
  <2>2. TabTypeOK'
    BY <1>2 DEF TInv, TabTypeOK, tabVars, client
  <2> QED BY <1>1, <2>1, <2>2 DEF TInv
<1>3. ASSUME NEW r \in Requests, Serve(r)
      PROVE  TInv'
  BY <1>1, <1>3, ServeHeld, ServeTypes DEF TInv
<1>4. ASSUME NEW t \in Tabs, TabStep(t)
      PROVE  TInv'
  BY <1>1, <1>4, TabStepHeld, TabStepTypes DEF TInv
<1>5. ASSUME NEW s \in Sids,
             \/ AccessExpires(s)
             \/ SessionExpires(s) /\ UNCHANGED <<client, answer, accessExpired>>
      PROVE  TInv'
  <2>1. TabTypeOK'
    BY <1>5 DEF TInv, TabTypeOK, AccessExpires, client
  <2> QED BY <1>1, <1>5, <2>1, ExpiryHeld DEF TInv
<1> QED BY <1>2, <1>3, <1>4, <1>5 DEF TabNext

\* Tabs, calls and answers stay well typed, for any tabs, calls and sessions.
THEOREM TabTypes == TabSpec => []TabTypeOK
<1>1. TInv => TabTypeOK
  BY DEF TInv
<1> QED BY <1>1, TabInitIsSound, TabNextIsSound, PTL DEF TabSpec

\* Browser tabs and the API together are a behaviour of the API's sessions: whatever
\* authFetch and AuthProvider do, they call its methods as any client may.
THEOREM TabsAreSessions == TabSpec => Spec
<1>1. TabInit => Init
  BY DEF TabInit
<1> QED BY <1>1, TabInitIsSound, TabNextIsSound, TabsCallMethods, PTL DEF TabSpec, Spec

\* No tab sends a refresh token that was exchanged already, for any number of tabs
\* and of calls that meet a 401: refreshPromise makes one refresh serve them all.
THEOREM TokensUnspent == TabSpec => []UnspentTokens
<1>1. TInv => UnspentTokens
  BY TabsAssumption DEF TInv, Held, Unspent, UnspentTokens, Slot
<1> QED BY <1>1, TabInitIsSound, TabNextIsSound, PTL DEF TabSpec

\* Between refreshes no tab keeps a pair that was exchanged: an answer that is lost,
\* late or refused leaves no pair behind.
THEOREM KeptPairsUnspent == TabSpec => []NoSpentPairKept
<1>1. TInv => NoSpentPairKept
  BY DEF TInv, TabTypeOK, Held, StoredLive, Live, NoSpentPairKept
<1> QED BY <1>1, TabInitIsSound, TabNextIsSound, PTL DEF TabSpec
=============================================================================
