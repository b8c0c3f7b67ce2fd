------------------------------- MODULE Accounts -------------------------------
(***************************************************************************)
(* auth.service.ts for several people: how an account comes to be, how its  *)
(* e-mail address is verified, and how it is changed.  (Module Sessions has *)
(* the passwords and sessions of one account that is verified.)             *)
(*                                                                         *)
(* A letter is a mail with a link.  The random token in the link, its hash  *)
(* in a column of User, and the letter are one model value.  `to' and `of'  *)
(* say where it was sent and about whose account; `opened' is history: the  *)
(* link was followed, so whoever has the address knows of the account.      *)
(***************************************************************************)
EXTENDS Naturals, FiniteSets

CONSTANTS
    Accounts, NoOne,     \* ids of User rows (a bound), and none
    Emails, NoEmail,     \* addresses, and none
    Letters, NoLetter,   \* links that may be mailed (a bound), and none
    Calls,               \* slots of concurrently served requests (a bound)
    Failures             \* whether an awaited query may reject

ASSUME AccountsAssumption ==
    /\ NoOne \notin Accounts
    /\ NoEmail \notin Emails
    /\ NoLetter \notin Letters
    /\ Failures \in BOOLEAN

VARIABLES
    account,    \* id -> User row
    letter,     \* link -> what became of it
    call        \* slot -> the method being served and what it has read

accountVars == <<account, letter, call>>

AccountRow == [exists: BOOLEAN, used: BOOLEAN, email: Emails \cup {NoEmail},
               verified: BOOLEAN, verifyLink: Letters \cup {NoLetter},
               pending: Emails \cup {NoEmail}, changeLink: Letters \cup {NoLetter}]
LetterRow == [taken: BOOLEAN, to: Emails \cup {NoEmail}, of: Accounts \cup {NoOne},
              sent: BOOLEAN, expired: BOOLEAN, opened: BOOLEAN]
NoAccount == [exists |-> FALSE, used |-> FALSE, email |-> NoEmail, verified |-> FALSE,
              verifyLink |-> NoLetter, pending |-> NoEmail, changeLink |-> NoLetter]

FreeCall == [op |-> "none", at |-> "free", of |-> NoOne, email |-> NoEmail,
             link |-> NoLetter]
Serving(r, op, at) == call[r].op = op /\ call[r].at = at
MovesTo(r, at) == call' = [call EXCEPT ![r].at = at]
Done(r) == call' = [call EXCEPT ![r] = FreeCall]
\* A method begins: what it was called with, and what its first query found.
Begin(r, op, at, a, e, l) ==
    /\ call[r] = FreeCall
    /\ call' = [call EXCEPT ![r] = [op |-> op, at |-> at, email |-> e, link |-> l, of |-> a]]

-----------------------------------------------------------------------------
(***************************************************************************)
(* users.repository.ts                                                     *)
(***************************************************************************)
Exists(a) == account[a].exists
HasEmail(e) == {a \in Accounts : Exists(a) /\ account[a].email = e}

\* idx_user_email_lower: whose row keeps another from having the address.
EmailConflict(a, e) == HasEmail(e) \ {a} # {}

\* update: rejects when the row is gone.
UpdateUser(r, row, at) ==
    IF Exists(call[r].of)
    THEN /\ account' = [account EXCEPT ![call[r].of] = row]
         /\ MovesTo(r, at)
    ELSE Done(r) /\ UNCHANGED account

FreshLetter(l) == ~letter[l].taken
TakeLetter(l, a, e) ==
    letter' = [letter EXCEPT ![l] = [taken |-> TRUE, to |-> e, of |-> a, sent |-> FALSE,
                                     expired |-> FALSE, opened |-> FALSE]]

\* sendWithFallback: what it reports need not be what the mail server did.
Deliver(r) == letter' = [letter EXCEPT ![call[r].link].sent = TRUE]
Sending(r, sent, failed) ==
    \/ Deliver(r) /\ sent
    \/ (Deliver(r) \/ UNCHANGED letter) /\ failed

-----------------------------------------------------------------------------
(* register *)
RegisterCheck(r) ==
    /\ \E a \in Accounts, e \in Emails, l \in Letters :
        /\ ~account[a].used /\ FreshLetter(l)
        /\ \A q \in Calls : call[q].of = a => call[q].op # "register"
        /\ HasEmail(e) = {}
        /\ Begin(r, "register", "create", a, e, l)
        /\ TakeLetter(l, a, e)
    /\ UNCHANGED account
RegisterCreate(r) ==
    /\ Serving(r, "register", "create")
    /\ LET a == call[r].of  e == call[r].email IN
       IF EmailConflict(a, e)
       THEN Done(r) /\ UNCHANGED account
       ELSE /\ account' = [account EXCEPT ![a] =
                   [NoAccount EXCEPT !.exists = TRUE, !.used = TRUE, !.email = e]]
            /\ MovesTo(r, "link")
    /\ UNCHANGED letter
UpdateEmailVerificationToken(r) ==
    /\ \E op \in {"register", "resendVerification"} : Serving(r, op, "link")
    /\ UpdateUser(r, [account[call[r].of] EXCEPT !.verifyLink = call[r].link], "mail")
    /\ UNCHANGED letter
RegisterMail(r) ==
    /\ Serving(r, "register", "mail")
    /\ Sending(r, Done(r), MovesTo(r, "cleanup"))
    /\ UNCHANGED account
\* Rows of other tables, a session say, keep the account from being deleted.
RegisterCleanup(r) ==
    /\ Serving(r, "register", "cleanup")
    /\ \/ account' = [account EXCEPT ![call[r].of] = [NoAccount EXCEPT !.used = TRUE]]
       \/ account[call[r].of].verified /\ UNCHANGED account
    /\ Done(r)
    /\ UNCHANGED letter
Register(r) == \/ RegisterCheck(r) \/ RegisterCreate(r)
               \/ RegisterMail(r) \/ RegisterCleanup(r)

(* resendVerification: a minute may have passed *)
ResendVerificationCheck(r) ==
    /\ \E a \in Accounts, l \in Letters :
        /\ Exists(a) /\ ~account[a].verified /\ FreshLetter(l)
        /\ Begin(r, "resendVerification", "link", a, account[a].email, l)
        /\ TakeLetter(l, a, account[a].email)
    /\ UNCHANGED account
ResendVerificationMail(r) ==
    /\ Serving(r, "resendVerification", "mail")
    /\ Sending(r, Done(r), Done(r))
    /\ UNCHANGED account
ResendVerification(r) == ResendVerificationCheck(r) \/ ResendVerificationMail(r)

(* verifyEmail *)
Opens(l) == /\ letter[l].sent /\ ~letter[l].expired
            /\ letter' = [letter EXCEPT ![l].opened = TRUE]
VerifyEmailCheck(r) ==
    /\ \E a \in Accounts, l \in Letters :
        /\ Exists(a) /\ account[a].verifyLink = l
        /\ Opens(l)
        /\ Begin(r, "verifyEmail", "update", a, NoEmail, l)
    /\ UNCHANGED account
MarkEmailVerified(r) ==
    /\ Serving(r, "verifyEmail", "update")
    /\ IF Exists(call[r].of)
       THEN account' = [account EXCEPT ![call[r].of].verified = TRUE,
                                       ![call[r].of].verifyLink = NoLetter]
       ELSE UNCHANGED account
    /\ Done(r)
    /\ UNCHANGED letter
VerifyEmail(r) == VerifyEmailCheck(r) \/ MarkEmailVerified(r)

-----------------------------------------------------------------------------
(* requestEmailChange: by whoever is signed in to the account *)
RequestEmailChangeUser(r) ==
    /\ \E a \in Accounts, e \in Emails, l \in Letters :
        /\ Exists(a) /\ account[a].verified /\ account[a].email # e /\ FreshLetter(l)
        /\ Begin(r, "requestEmailChange", "taken", a, e, l)
        /\ TakeLetter(l, a, e)
    /\ UNCHANGED account
CheckEmailFree(r) ==
    /\ \E op \in {"requestEmailChange", "confirmEmailChange"} : Serving(r, op, "taken")
    /\ IF HasEmail(call[r].email) \subseteq {call[r].of} THEN MovesTo(r, "update") ELSE Done(r)
    /\ UNCHANGED <<account, letter>>
UpdateEmailChangeToken(r) ==
    /\ Serving(r, "requestEmailChange", "update")
    /\ UpdateUser(r, [account[call[r].of] EXCEPT !.pending = call[r].email,
                                                 !.changeLink = call[r].link], "mail")
    /\ UNCHANGED letter
RequestEmailChangeMail(r) ==
    /\ Serving(r, "requestEmailChange", "mail")
    /\ Sending(r, Done(r), Done(r))
    /\ UNCHANGED account
RequestEmailChange(r) == \/ RequestEmailChangeUser(r)
                         \/ UpdateEmailChangeToken(r) \/ RequestEmailChangeMail(r)

(* confirmEmailChange *)
ConfirmEmailChangeCheck(r) ==
    /\ \E a \in Accounts, l \in Letters :
        /\ Exists(a) /\ account[a].changeLink = l
        /\ Opens(l)
        /\ Begin(r, "confirmEmailChange", "taken", a, account[a].pending, l)
    /\ UNCHANGED account
\* As if the row were read once more.
UpdateEmailToPending(r) ==
    /\ Serving(r, "confirmEmailChange", "update")
    /\ LET a == call[r].of IN
       IF ~Exists(a) \/ account[a].pending = NoEmail \/ EmailConflict(a, account[a].pending)
       THEN Done(r) /\ UNCHANGED account
       ELSE /\ account' = [account EXCEPT ![a].email = account[a].pending, ![a].verified = TRUE]
            /\ MovesTo(r, "clear")
    /\ UNCHANGED letter
UpdateEmail(r) ==
    /\ Serving(r, "confirmEmailChange", "update")
    /\ LET a == call[r].of  e == call[r].email IN
       IF ~Exists(a) \/ EmailConflict(a, e)
       THEN Done(r) /\ UNCHANGED account
       ELSE /\ account' = [account EXCEPT ![a].email = e, ![a].verified = TRUE]
            /\ MovesTo(r, "clear")
    /\ UNCHANGED letter
ClearEmailChangeToken(r) ==
    /\ Serving(r, "confirmEmailChange", "clear")
    /\ IF Exists(call[r].of)
       THEN account' = [account EXCEPT ![call[r].of].pending = NoEmail,
                                       ![call[r].of].changeLink = NoLetter]
       ELSE UNCHANGED account
    /\ Done(r)
    /\ UNCHANGED letter
ConfirmEmailChange(r) == \/ ConfirmEmailChangeCheck(r)
                         \/ UpdateEmail(r) \/ ClearEmailChangeToken(r)

-----------------------------------------------------------------------------
\* The first query of register finds the address in use, or that of
\* resendVerification finds nobody to verify: nothing else happens.
AnsweredAtOnce(r) ==
    /\ call[r] = FreeCall
    /\ \E e \in Emails : \/ HasEmail(e) # {}
                         \/ \A a \in HasEmail(e) : account[a].verified
    /\ UNCHANGED accountVars
AccountFails(r) == /\ Failures /\ call[r] # FreeCall
                   /\ Done(r) /\ UNCHANGED <<account, letter>>
\* A day has passed.
LetterExpires(l) ==
    /\ letter[l].sent /\ ~letter[l].expired
    /\ letter' = [letter EXCEPT ![l].expired = TRUE]
    /\ UNCHANGED <<account, call>>

AccountInit ==
    /\ account = [a \in Accounts |-> NoAccount]
    /\ letter = [l \in Letters |-> [taken |-> FALSE, to |-> NoEmail, of |-> NoOne,
                                    sent |-> FALSE, expired |-> FALSE, opened |-> FALSE]]
    /\ call = [r \in Calls |-> FreeCall]
AccountMethod(r) ==
    \/ Register(r) \/ ResendVerification(r) \/ UpdateEmailVerificationToken(r)
    \/ VerifyEmail(r) \/ RequestEmailChange(r) \/ CheckEmailFree(r) \/ ConfirmEmailChange(r)
AccountNext == \/ \E r \in Calls : AccountMethod(r) \/ AnsweredAtOnce(r) \/ AccountFails(r)
               \/ \E l \in Letters : LetterExpires(l)
AccountSpec == AccountInit /\ [][AccountNext]_accountVars

-----------------------------------------------------------------------------
Proven(a) == \E l \in Letters : /\ letter[l].opened /\ letter[l].of = a
                                /\ letter[l].to = account[a].email

\* Who has a verified account has followed a link that was mailed to the account's
\* address (docs/email-deliverability.md), although verifyEmail and
\* confirmEmailChange write an await or two after they read the row, and newer links
\* and addresses are asked for meanwhile.
ProvenEmails == \A a \in Accounts : Exists(a) /\ account[a].verified => Proven(a)

\* Two accounts never have one address, however registrations and changes of address
\* race after both found it free.
OneAccountPerEmail ==
    \A a, b \in Accounts : Exists(a) /\ Exists(b) /\ account[a].email = account[b].email
                           => a = b
=============================================================================
