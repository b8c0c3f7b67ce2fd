------------------------------- MODULE Sessions -------------------------------
(***************************************************************************)
(* auth.service.ts for one account: its password, the link that resets it,  *)
(* and its refresh tokens.  A refresh token is a session: its row's id is   *)
(* the jti of the token pair, and refreshing replaces row and pair.         *)
(*                                                                         *)
(* As in Tenancy, every await of a method is a step and a request slot      *)
(* remembers what the method has read.  The columns `root', `verified' and  *)
(* `rotated' of a row and `spent' of a link are history: the session that   *)
(* was opened by login, the password that login verified, whether the token *)
(* was exchanged for a successor, and whether the link reset the password.  *)
(***************************************************************************)
EXTENDS Naturals, FiniteSets

CONSTANTS
    Sids, NoSid,         \* session ids (a bound) and none
    Passwords,           \* the passwords the user thinks of
    FirstPassword,       \* the one given at registration
    Links, NoLink,       \* reset links that may be mailed (a bound) and none
    Requests,            \* slots of concurrently served requests (a bound)
    Ops,                 \* the operations clients call in this instance
    Faults               \* whether an awaited query may reject

AllOps == {"login", "refresh", "logout", "forgotPassword", "resetPassword",
           "changePassword", "revokeAllSessions", "revokeOtherSessions", "revokeSession"}

ASSUME SessionsAssumption ==
    /\ NoSid \notin Sids
    /\ NoLink \notin Links
    /\ FirstPassword \in Passwords
    /\ Ops \subseteq AllOps
    /\ Faults \in BOOLEAN

VARIABLES
    password,    \* User.passwordHash
    resetLink,   \* the link User.passwordResetTokenHash is the hash of
    link,        \* link -> what became of it
    session,     \* RefreshToken: id -> row
    request      \* slot -> the method being served and what it has read

rows == <<password, resetLink, link, session>>
vars == <<rows, request>>

Row == [used: BOOLEAN, revokedAt: BOOLEAN, expired: BOOLEAN,
        root: Sids \cup {NoSid}, verified: Passwords, rotated: BOOLEAN]
LinkRow == [mailed: BOOLEAN, expired: BOOLEAN, spent: BOOLEAN]
Steps == {"consume", "persist", "update", "clear", "revoke", "link", "mail", "write"}
Request == [op: AllOps, at: Steps, sid: Sids \cup {NoSid}, password: Passwords,
            link: Links \cup {NoLink}]

Idle == [op |-> "idle"]
Call(op, at) ==
    [op |-> op, at |-> at, sid |-> NoSid, password |-> FirstPassword, link |-> NoLink]

At(r, op, at) == request[r] # Idle /\ request[r].op = op /\ request[r].at = at
Accept(r, call) ==
    /\ request[r] = Idle
    /\ call.op \in Ops
    /\ request' = [request EXCEPT ![r] = call]
MoveOn(r, at) == request' = [request EXCEPT ![r].at = at]
Finish(r) == request' = [request EXCEPT ![r] = Idle]

-----------------------------------------------------------------------------
(***************************************************************************)
(* refresh-tokens.repository.ts                                            *)
(***************************************************************************)
Unrevoked(s) == session[s].used /\ ~session[s].revokedAt
Active(s) == Unrevoked(s) /\ ~session[s].expired
Issued == {s \in Sids : session[s].used}
FreshSid == CHOOSE s \in Sids \ Issued : TRUE

\* The bound on issued sessions: every method in flight that issues one can.
Issuing == {r \in Requests : request[r] # Idle /\ request[r].op \in {"login", "refresh"}}
SidsLeft == Cardinality(Issuing) < Cardinality(Sids \ Issued)

CreateToken(root, verified) ==
    /\ Issued # Sids
    /\ session' = [session EXCEPT ![FreshSid] =
           [used |-> TRUE, revokedAt |-> FALSE, expired |-> FALSE,
            root |-> IF root = NoSid THEN FreshSid ELSE root,
            verified |-> verified, rotated |-> FALSE]]

\* One conditional update: of two refreshes with the same token one counts 1.
ConsumeActiveTokenRead(s) == session' = [session EXCEPT ![s].rotated = TRUE]
ConsumeActiveToken(s) ==
    session' = [session EXCEPT ![s].revokedAt = TRUE, ![s].rotated = TRUE]

RevokeNone(kept) == session' = session
RevokeAllForUserExcept(kept) ==
    session' = [s \in Sids |-> IF s \in kept THEN session[s]
                               ELSE [session[s] EXCEPT !.revokedAt = @ \/ session[s].used]]

-----------------------------------------------------------------------------
LoginWrite(r) ==
    /\ At(r, "login", "persist")
    /\ CreateToken(NoSid, request[r].password)
    /\ Finish(r)
    /\ UNCHANGED <<password, resetLink, link>>

Login(r) ==
    \/ /\ SidsLeft
       /\ Accept(r, [Call("login", "persist") EXCEPT !.password = password])
       /\ UNCHANGED rows
    \/ LoginWrite(r)

\* The JWT is verified, the token consumed, its successor stored.
RefreshConsume(r) ==
    /\ At(r, "refresh", "consume")
    /\ IF Active(request[r].sid)
       THEN ConsumeActiveToken(request[r].sid) /\ MoveOn(r, "persist")
       ELSE Finish(r) /\ UNCHANGED session
    /\ UNCHANGED <<password, resetLink, link>>

RefreshWrite(r) ==
    /\ At(r, "refresh", "persist")
    /\ CreateToken(session[request[r].sid].root, session[request[r].sid].verified)
    /\ Finish(r)
    /\ UNCHANGED <<password, resetLink, link>>

Refresh(r) ==
    \/ /\ SidsLeft
       /\ \E s \in Issued : Accept(r, [Call("refresh", "consume") EXCEPT !.sid = s])
       /\ UNCHANGED rows
    \/ RefreshConsume(r)
    \/ RefreshWrite(r)

\* revokeToken is unconditional, and its errors are ignored.
LogoutWrite(r) ==
    /\ At(r, "logout", "write")
    /\ session' = [session EXCEPT ![request[r].sid].revokedAt = TRUE]
    /\ Finish(r)
    /\ UNCHANGED <<password, resetLink, link>>

Logout(r) ==
    \/ /\ \E s \in Issued : Accept(r, [Call("logout", "write") EXCEPT !.sid = s])
       /\ UNCHANGED rows
    \/ LogoutWrite(r)

\* The new link replaces the old one before it is mailed; when the mail
\* fails, the user is left with none.
ForgotPasswordWrite(r) ==
    /\ At(r, "forgotPassword", "link")
    /\ resetLink' = request[r].link
    /\ MoveOn(r, "mail")
    /\ UNCHANGED <<password, link, session>>

ForgotPasswordMail(r) ==
    /\ At(r, "forgotPassword", "mail")
    /\ \/ link' = [link EXCEPT ![request[r].link].mailed = TRUE] /\ UNCHANGED resetLink
       \/ resetLink' = NoLink /\ UNCHANGED link
    /\ Finish(r)
    /\ UNCHANGED <<password, session>>

\* A link is fresh when it is stored, mailed and carried by no request.
FreshLink(l) ==
    /\ resetLink # l
    /\ ~link[l].mailed
    /\ \A r \in Requests : request[r] # Idle => request[r].link # l

ForgotPassword(r) ==
    \/ /\ \E l \in Links :
              FreshLink(l) /\ Accept(r, [Call("forgotPassword", "link") EXCEPT !.link = l])
       /\ UNCHANGED rows
    \/ ForgotPasswordWrite(r)
    \/ ForgotPasswordMail(r)

\* What resetPassword and changePassword do once their checks have passed.
UpdatePasswordSwapped(r, op, next) ==
    /\ At(r, op, "update")
    /\ password' = request[r].link
    /\ MoveOn(r, next)
    /\ UNCHANGED <<resetLink, link, session>>
UpdatePassword(r, op, next) ==
    /\ At(r, op, "update")
    /\ password' = request[r].password
    /\ link' = [l \in Links |-> IF l = request[r].link
                                THEN [link[l] EXCEPT !.spent = TRUE] ELSE link[l]]
    /\ MoveOn(r, next)
    /\ UNCHANGED <<resetLink, session>>

RevokeSessions(r, op, kept) ==
    /\ At(r, op, "revoke")
    /\ RevokeAllForUserExcept(kept)
    /\ Finish(r)
    /\ UNCHANGED <<password, resetLink, link>>

\* clearPasswordResetToken clears whatever link is stored by now.
ClearNothing(r) == resetLink' = resetLink
ClearPasswordResetToken(r) == resetLink' = NoLink

ResetPasswordClear(r) ==
    /\ At(r, "resetPassword", "clear")
    /\ ClearPasswordResetToken(r)
    /\ MoveOn(r, "revoke")
    /\ UNCHANGED <<password, link, session>>

ResetPassword(r) ==
    \/ /\ \E l \in Links, p \in Passwords \ {password} :
              /\ link[l].mailed /\ resetLink = l /\ ~link[l].expired
              /\ Accept(r, [Call("resetPassword", "update") EXCEPT !.link = l, !.password = p])
       /\ UNCHANGED rows
    \/ UpdatePassword(r, "resetPassword", "clear")
    \/ ResetPasswordClear(r)
    \/ RevokeSessions(r, "resetPassword", {})

ChangePassword(r) ==
    \/ /\ \E p \in Passwords \ {password} :
              Accept(r, [Call("changePassword", "update") EXCEPT !.password = p])
       /\ UNCHANGED rows
    \/ UpdatePassword(r, "changePassword", "revoke")
    \/ RevokeSessions(r, "changePassword", {})

\* The access token names the session it came with; the guard accepts it
\* until it expires, whatever became of the session.
RevokeAllSessions(r) ==
    \/ Accept(r, Call("revokeAllSessions", "revoke")) /\ UNCHANGED rows
    \/ RevokeSessions(r, "revokeAllSessions", {})

RevokeOtherSessions(r) ==
    \/ /\ \E s \in Issued :
              Accept(r, [Call("revokeOtherSessions", "revoke") EXCEPT !.sid = s])
       /\ UNCHANGED rows
    \/ RevokeSessions(r, "revokeOtherSessions", {request[r].sid})

RevokeSessionWrite(r) ==
    /\ At(r, "revokeSession", "write")
    /\ session' = [session EXCEPT ![request[r].sid].revokedAt = @ \/ Active(request[r].sid)]
    /\ Finish(r)
    /\ UNCHANGED <<password, resetLink, link>>

RevokeSession(r) ==
    \/ /\ \E s \in Issued : Accept(r, [Call("revokeSession", "write") EXCEPT !.sid = s])
       /\ UNCHANGED rows
    \/ RevokeSessionWrite(r)

Fault(r) ==
    /\ Faults
    /\ request[r] # Idle
    /\ Finish(r)
    /\ UNCHANGED rows

\* Seven days pass, or sixty minutes.
SessionExpires(s) ==
    /\ session[s].used /\ ~session[s].expired
    /\ session' = [session EXCEPT ![s].expired = TRUE]
    /\ UNCHANGED <<password, resetLink, link, request>>

LinkExpires(l) ==
    /\ link[l].mailed /\ ~link[l].expired
    /\ link' = [link EXCEPT ![l].expired = TRUE]
    /\ UNCHANGED <<password, resetLink, session, request>>

Init ==
    /\ password = FirstPassword
    /\ resetLink = NoLink
    /\ link = [l \in Links |-> [mailed |-> FALSE, expired |-> FALSE, spent |-> FALSE]]
    /\ session = [s \in Sids |->
           [used |-> FALSE, revokedAt |-> FALSE, expired |-> FALSE, root |-> NoSid,
            verified |-> FirstPassword, rotated |-> FALSE]]
    /\ request = [r \in Requests |-> Idle]

AuthMethod(r) ==
    \/ Login(r) \/ Refresh(r) \/ Logout(r) \/ ForgotPassword(r) \/ ResetPassword(r)
    \/ ChangePassword(r) \/ RevokeAllSessions(r) \/ RevokeOtherSessions(r)
    \/ RevokeSession(r)

Next ==
    \/ \E r \in Requests : AuthMethod(r) \/ Fault(r)
    \/ \E s \in Sids : SessionExpires(s)
    \/ \E l \in Links : LinkExpires(l)

Spec == Init /\ [][Next]_vars

-----------------------------------------------------------------------------
\* Passwords, links, rows and requests stay within their types.
TypeOK ==
    /\ password \in Passwords
    /\ resetLink \in Links \cup {NoLink}
    /\ link \in [Links -> LinkRow]
    /\ session \in [Sids -> Row]
    /\ request \in [Requests -> Request \cup {Idle}]

\* The session a refresh is about to issue counts as its family's.
Succeeding(r) == At(r, "refresh", "persist")
Root(s) == session[s].root

\* A login leads to one live session at most, however many refreshes and
\* logouts race: rotation never forks a session in two.
OneHeirPerLogin ==
    /\ \A s, t \in Sids : Unrevoked(s) /\ Unrevoked(t) /\ Root(s) = Root(t) => s = t
    /\ \A r \in Requests : Succeeding(r) =>
           \A s \in Sids : Unrevoked(s) => Root(s) # Root(request[r].sid)
    /\ \A r, q \in Requests :
           Succeeding(r) /\ Succeeding(q)
           /\ Root(request[r].sid) = Root(request[q].sid) => r = q

\* When every request is answered, a live session was opened with the password
\* the account has (docs/project-status.md: "Password reset and authenticated
\* password change revoke existing refresh sessions -- old devices must
\* re-login after password change").
OldPasswordsOut ==
    (\A r \in Requests : request[r] = Idle) =>
        \A s \in Sids : Active(s) => session[s].verified = password

\* Requests served one at a time: a mailed link sets the password once, whether
\* a newer link was asked for, mailed or lost in between.
LinkSetsOnce ==
    \A l \in Links : link[l].spent =>
        \A r \in Requests : ~(At(r, "resetPassword", "update") /\ request[r].link = l)
=============================================================================
