--------------------------------- MODULE Tabs ---------------------------------
(***************************************************************************)
(* The web client's side of a session: lib/auth-fetch.ts and                *)
(* lib/auth-context.tsx, one instance of each per browser tab, composed     *)
(* with the API's auth.service.ts (Sessions).                               *)
(*                                                                         *)
(* A tab keeps its token pair in sessionStorage; the pair is named by the   *)
(* session it belongs to.  Client code between two awaits is one step: the  *)
(* tab runs no other code in between.  A request of a tab occupies one of   *)
(* two slots: the API serves one refresh and one login or logout of a tab   *)
(* at a time (a bound).                                                    *)
(***************************************************************************)
EXTENDS Sessions

CONSTANTS
    Tabs,       \* browser tabs
    Fetches,    \* the API calls a tab has in flight at a time (a bound)
    Refused     \* an answer that is not ok

Slot(t, purpose) == <<t, purpose>>

ASSUME TabsAssumption ==
    /\ Requests = Tabs \X {"refresh", "sign"}
    /\ Refused \notin Sids \cup {NoSid}

VARIABLES
    stored,         \* tab -> the token pair in its sessionStorage
    refreshing,     \* tab -> how far refreshPromise is: not pending, or waiting for the
                    \* headers of its answer, or for its body
    doing,          \* tab -> what its user waits for: login(), logout() or nothing
    fetch,          \* tab -> call -> how far authFetch is with it
    answer,         \* slot -> the answer on its way to a tab that awaits it
    accessExpired   \* sessions whose access token (15 minutes) has expired

client == <<stored, refreshing, doing, fetch>>
tabVars == <<vars, client, answer, accessExpired>>

NoAnswer == NoSid
Refreshing(t) == refreshing[t] # "none"

Idling == [at |-> "idle", sid |-> NoSid]
CallState == [at: {"idle", "sent", "waiting"}, sid: Sids \cup {NoSid}]

-----------------------------------------------------------------------------
(***************************************************************************)
(* The API serves a request; its answer is lost when nobody awaits it.      *)
(***************************************************************************)
Awaited(r) == \/ r[2] = "refresh" /\ refreshing[r[1]] = "sent"
              \/ r[2] = "sign" /\ doing[r[1]] # "nothing"
Answer(r, a) == answer' = IF Awaited(r) THEN [answer EXCEPT ![r] = a] ELSE answer

Serve(r) ==
    /\ \/ RefreshConsume(r) /\ (IF Active(request[r].sid) THEN UNCHANGED answer
                                                          ELSE Answer(r, Refused))
       \/ RefreshWrite(r) /\ Answer(r, FreshSid)
       \/ LoginWrite(r) /\ Answer(r, FreshSid)
       \/ LogoutWrite(r) /\ Answer(r, Refused)
       \/ Fault(r) /\ Answer(r, Refused)
    /\ UNCHANGED <<client, accessExpired>>

AccessExpires(s) ==
    /\ session[s].used /\ s \notin accessExpired
    /\ accessExpired' = accessExpired \cup {s}
    /\ UNCHANGED <<vars, client, answer>>

-----------------------------------------------------------------------------
(***************************************************************************)
(* authFetch and performSilentRefresh                                      *)
(***************************************************************************)
Send(t, c) ==
    /\ fetch[t][c] = Idling
    /\ stored[t] # NoSid
    /\ fetch' = [fetch EXCEPT ![t][c] = [at |-> "sent", sid |-> stored[t]]]
    /\ UNCHANGED <<vars, stored, refreshing, doing, answer, accessExpired>>

\* The response is not a 401, or fetchWithTimeout gave up.
Settle(t, c) ==
    /\ fetch[t][c].at = "sent"
    /\ fetch' = [fetch EXCEPT ![t][c] = Idling]
    /\ UNCHANGED <<vars, stored, refreshing, doing, answer, accessExpired>>

\* The response is a 401: no token stored, a refresh to wait for, or one to send.
JoinRefreshNever(t) == FALSE
JoinRefresh(t) == Refreshing(t)

Unauthorized(t, c) ==
    /\ fetch[t][c].at = "sent"
    /\ fetch[t][c].sid \in accessExpired
    /\ IF stored[t] = NoSid
       THEN /\ fetch' = [fetch EXCEPT ![t][c] = Idling]
            /\ UNCHANGED <<request, refreshing>>
       ELSE /\ fetch' = [fetch EXCEPT ![t][c].at = "waiting"]
            /\ IF JoinRefresh(t)
               THEN UNCHANGED <<request, refreshing>>
               ELSE /\ SidsLeft
                    /\ refreshing' = [refreshing EXCEPT ![t] = "sent"]
                    /\ Accept(Slot(t, "refresh"),
                              [Call("refresh", "consume") EXCEPT !.sid = stored[t]])
    /\ UNCHANGED <<rows, stored, doing, answer, accessExpired>>

\* refreshPromise settles: it is forgotten, the tokens are stored or cleared,
\* and every call that waited is sent once more or fails, for good.
SettleRefreshKept(t, pair) ==
    /\ refreshing' = [refreshing EXCEPT ![t] = "none"]
    /\ stored' = [stored EXCEPT ![t] = IF pair = NoSid THEN @ ELSE pair]
    /\ fetch' = [fetch EXCEPT ![t] = [c \in Fetches |->
           IF fetch[t][c].at = "waiting" THEN Idling ELSE fetch[t][c]]]
SettleRefreshOne(t, pair) ==
    /\ refreshing' = [refreshing EXCEPT ![t] = "none"]
    /\ stored' = [stored EXCEPT ![t] = pair]
    /\ LET c == CHOOSE c \in Fetches : fetch[t][c].at = "waiting"
       IN fetch' = [fetch EXCEPT ![t][c] = Idling]
SettleRefresh(t, pair) ==
    /\ refreshing' = [refreshing EXCEPT ![t] = "none"]
    /\ stored' = [stored EXCEPT ![t] = pair]
    /\ fetch' = [fetch EXCEPT ![t] = [c \in Fetches |->
           IF fetch[t][c].at = "waiting" THEN Idling ELSE fetch[t][c]]]

\* An answer that is not ok settles the refresh by its headers.
Unread(t) == refreshing[t] = "sent" /\ answer[Slot(t, "refresh")] # NoAnswer
RefreshRefused(t) ==
    /\ Unread(t) /\ answer[Slot(t, "refresh")] = Refused
    /\ SettleRefresh(t, NoSid)
    /\ answer' = [answer EXCEPT ![Slot(t, "refresh")] = NoAnswer]
    /\ UNCHANGED <<vars, doing, accessExpired>>

\* The headers of an ok answer stop the timer; the tokens are in the body.
RefreshHeadersUnchecked(t) ==
    /\ Unread(t)
    /\ refreshing' = [refreshing EXCEPT ![t] = "reading"]
    /\ UNCHANGED <<vars, stored, doing, fetch, answer, accessExpired>>
RefreshHeaders(t) ==
    /\ Unread(t) /\ answer[Slot(t, "refresh")] # Refused
    /\ refreshing' = [refreshing EXCEPT ![t] = "reading"]
    /\ UNCHANGED <<vars, stored, doing, fetch, answer, accessExpired>>

\* The body is read, or breaks off; nothing bounds how long that takes.
RefreshBody(t) ==
    /\ refreshing[t] = "reading"
    /\ \E pair \in {answer[Slot(t, "refresh")], NoSid} : SettleRefresh(t, pair)
    /\ answer' = [answer EXCEPT ![Slot(t, "refresh")] = NoAnswer]
    /\ UNCHANGED <<vars, doing, accessExpired>>

\* No headers for fifteen seconds, or the connection fails: the client gives up,
\* while the API may still be serving.
RefreshTimesOut(t) ==
    /\ refreshing[t] = "sent"
    /\ SettleRefresh(t, NoSid)
    /\ answer' = [answer EXCEPT ![Slot(t, "refresh")] = NoAnswer]
    /\ UNCHANGED <<vars, doing, accessExpired>>

-----------------------------------------------------------------------------
(***************************************************************************)
(* AuthProvider: loginSuccess, logout and clearAuth.                        *)
(***************************************************************************)
\* validateUserCredentials refuses a wrong password.
SignIn(t) ==
    /\ doing[t] = "nothing" /\ stored[t] = NoSid
    /\ \/ /\ SidsLeft
          /\ Accept(Slot(t, "sign"), [Call("login", "persist") EXCEPT !.password = password])
          /\ UNCHANGED answer
       \/ /\ answer' = [answer EXCEPT ![Slot(t, "sign")] = Refused]
          /\ UNCHANGED request
    /\ doing' = [doing EXCEPT ![t] = "signingIn"]
    /\ UNCHANGED <<rows, stored, refreshing, fetch, accessExpired>>

LogOut(t) ==
    /\ doing[t] = "nothing" /\ stored[t] # NoSid
    /\ Accept(Slot(t, "sign"), [Call("logout", "write") EXCEPT !.sid = stored[t]])
    /\ doing' = [doing EXCEPT ![t] = "leaving"]
    /\ UNCHANGED <<rows, stored, refreshing, fetch, answer, accessExpired>>

\* logout is best effort: answered, failed or timed out, the tab forgets its
\* tokens; a login that fails leaves them as they are.
SignAnswered(t) ==
    LET a == answer[Slot(t, "sign")] IN
    /\ \/ doing[t] = "leaving" /\ stored' = [stored EXCEPT ![t] = NoSid]
       \/ doing[t] = "signingIn" /\ a = NoAnswer /\ UNCHANGED stored
       \/ doing[t] = "signingIn" /\ a = Refused /\ UNCHANGED stored
       \/ doing[t] = "signingIn" /\ a \in Sids /\ stored' = [stored EXCEPT ![t] = a]
    /\ doing' = [doing EXCEPT ![t] = "nothing"]
    /\ answer' = [answer EXCEPT ![Slot(t, "sign")] = NoAnswer]
    /\ UNCHANGED <<vars, refreshing, fetch, accessExpired>>

TabInit ==
    /\ Init
    /\ stored = [t \in Tabs |-> NoSid]
    /\ refreshing = [t \in Tabs |-> "none"]
    /\ doing = [t \in Tabs |-> "nothing"]
    /\ fetch = [t \in Tabs |-> [c \in Fetches |-> Idling]]
    /\ answer = [r \in Requests |-> NoAnswer]
    /\ accessExpired = {}

TabStep(t) ==
    \/ \E c \in Fetches : Send(t, c) \/ Settle(t, c) \/ Unauthorized(t, c)
    \/ RefreshRefused(t) \/ RefreshHeaders(t) \/ RefreshBody(t) \/ RefreshTimesOut(t)
    \/ SignIn(t) \/ LogOut(t) \/ SignAnswered(t)

TabNext ==
    \/ \E r \in Requests : Serve(r)
    \/ \E t \in Tabs : TabStep(t)
    \/ \E s \in Sids : AccessExpires(s)
    \/ \E s \in Sids : SessionExpires(s) /\ UNCHANGED <<client, answer, accessExpired>>

TabSpec == TabInit /\ [][TabNext]_tabVars

\* Timers fire: fetchWithTimeout bounds every request until its headers have come,
\* whatever the API does, and a call ends there.  The body of a refresh is not bounded.
Timers ==
    \A t \in Tabs : WF_tabVars(RefreshTimesOut(t))
                    /\ \A c \in Fetches : WF_tabVars(Settle(t, c))

FairTabSpec == TabSpec /\ Timers

-----------------------------------------------------------------------------
\* Tabs, calls and answers stay within their types.
TabTypeOK ==
    /\ stored \in [Tabs -> Sids \cup {NoSid}]
    /\ refreshing \in [Tabs -> {"none", "sent", "reading"}]
    /\ doing \in [Tabs -> {"nothing", "signingIn", "leaving"}]
    /\ fetch \in [Tabs -> [Fetches -> CallState]]
    /\ answer \in [Requests -> Sids \cup {NoAnswer, Refused}]
    /\ accessExpired \subseteq Sids

\* A tab never sends a refresh token that was already exchanged: however many of
\* its calls meet a 401, in whatever order, one refresh serves them all.
UnspentTokens ==
    \A t \in Tabs : At(Slot(t, "refresh"), "refresh", "consume")
                    => ~session[request[Slot(t, "refresh")].sid].rotated

\* Between refreshes the pair in sessionStorage is never one the API has already
\* exchanged: a lost or late answer to a refresh signs the tab out, and is not
\* left for the next call to trip over.
NoSpentPairKept ==
    \A t \in Tabs : stored[t] # NoSid /\ ~Refreshing(t) => ~session[stored[t]].rotated

\* Every call settles, and the refresh that others wait for does too, however often
\* it is refused, given up or answered late; unless the headers of a refresh have
\* come and its body never ends: then all that wait for it wait for ever.
BodyStalls(t) == <>[](refreshing[t] = "reading")
CallsSettle ==
    \A t \in Tabs, c \in Fetches :
        BodyStalls(t) \/ (fetch[t][c] # Idling ~> fetch[t][c] = Idling)

\* docs/project-status.md: "Logout (clears sessionStorage and revokes the
\* refresh-token session)": tokens come back to a tab by signing in only.
LoggedOutStaysOut ==
    [][\A t \in Tabs : stored[t] = NoSid /\ stored'[t] # NoSid
                       => doing[t] = "signingIn"]_tabVars
=============================================================================
