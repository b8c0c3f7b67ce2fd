# TLA+ models of Let's Chat

This directory is a verification development for the chat system in `src/`: a
NestJS API over PostgreSQL (`apps/api`), with a socket.io gateway, and a Next.js
web client (`apps/web`). It holds TLA+ modules translated from the code, TLC
configurations that check them on small instances, and proofs that TLAPS checks
for every value of the constants.

Run everything from this directory: `tlc -config MC_memberships.cfg MCMemberships`,
`tlapm MembershipProofs.tla`. `PROJECT.json` maps every definition to the source
lines it stands for, and lists the runs, the mutated definitions each property is
known to catch, the hazards and the findings.

Contents: [The system](#the-system) · [How the code is modelled](#how-the-code-is-modelled)
· [Modules](#modules) · [Runs](#runs) · [Fairness](#fairness) · [Proofs](#proofs)
· [Findings](#findings) · [Other divergences](#other-divergences-read-off-the-code)
· [Not modelled](#not-modelled) · [Plan](#plan)

## The system

One API process (several with the Redis adapter) serves HTTP requests and
websocket messages. All lasting state is in PostgreSQL, reached through Prisma;
presence is in memory or in Redis; tokens are in the tab's `sessionStorage`.
A service method awaits its queries one after the other. Almost no method opens a
transaction around its checks, and the database runs at READ COMMITTED, so
**two requests interleave at every await**, and what decides a race is a
conditional `updateMany`, a partial unique index, or nothing. That is the
recurring hazard, and the unit tests, which mock the repositories, cannot meet it.

| Component (under `apps/api/src` unless said) | State | Operations | Hard part | What makes it correct |
|---|---|---|---|---|
| Workspaces (`workspaces/`) | `Workspace` (owner, archived, deleted), `WorkspaceMember` (role, deleted) | leave, change role, remove, transfer ownership, add, archive, delete, restore | checks and write are awaits apart; leaving is three updates without a transaction | one OWNER at most, whom `ownerId` names; a user is a member once; ownership only handed over; archived and deleted workspaces do not change hands |
| Channels (`channels/`) | `Channel`, `ChannelMember` | create, add, remove, leave, archive, delete, restore | slug reuse; cascade from the workspace | one channel OWNER; membership once; none stranded without workspace membership |
| Channel invitations (`channel-invites/`) | `ChannelInvitation` | create, accept, decline | accept, decline and the leave cascade settle one row | settled once; used means admitted |
| Workspace invitations (`invites/`) | `Invitation`: personal, or a link with `maxUses` | create, accept, revoke, decline | mark and member insert must be one; count is read before it is incremented | a personal invitation is a ticket; uses are admissions; not more than `maxUses` |
| Sessions and passwords (`auth/`) | `User.passwordHash`, reset link, `RefreshToken` rows | login, refresh, logout, forgot, reset, change, three revocations | rotation is consume, await, persist | a login has one heir; old passwords' sessions end; a link works once |
| Accounts (`auth/`, `users/`, `mail/`) | `User`: address, verified, verification link, pending address and its link; mails | register, resend, verify, request and confirm a change of address | every method reads, awaits and writes; a mail is lost, or arrives though reported lost; register takes the account back | a verified address has had its own link followed; one account per address |
| Tab (`apps/web/src/lib/auth-*.ts`) | `sessionStorage`, `refreshPromise` | calls, shared silent refresh, login, logout | 401s in any order, timeouts, late answers | no spent token sent or kept; all calls settle; logged out stays out |
| Presence (`websocket/`) | store of sockets, `socketRooms`, socket.io rooms, what others were told | connect, disconnect, join, leave, typing's recheck | a socket closes inside another handler's await; crash with Redis | live sockets tracked; nobody told offline while present; all views agree at rest |
| Blocks (`safety/blocks*`) | `UserBlock` | block, unblock | asked in other methods, awaits before their writes | a standing block is respected |
| Contacts (`contacts/`) | `ContactRequest`, `UserContact` | add, accept, decline, cancel, remove | a row is deleted and created anew under a reader | an acceptance answers the request that was read, whole or not at all |
| Groups (`groups/`) | group, `GroupMember`, `GroupInviteLink` | create, add, remove, leave, archive, link create/revoke/accept | upsert; uses counted after the member is added | ownership kept; over-use bounded; an archived group does not grow |
| Channel, direct and group messages (`messages/`, `direct-conversations/`, `groups/`) | `Message`, `DirectMessage`, `GroupMessage`, reactions, pins | send, edit, delete, react, pin, list | pins and reactions race with deletion; order of broadcasts and answers | pins of live messages; one reaction per user |
| Conversation pages (`apps/web/src/app/.../page.tsx`) | list of messages, cursor, pins, one socket | open, join, load older, send, edit, delete, react, pin, take events, lose the connection | an answer and its event come in either order, before or after those of later changes | all pages show the conversation as it is once nothing is on its way |
| Attachments, forwarding, storage (`messages/forward.service.ts`, `storage/`, `scripts/cleanup-orphaned-attachments.mjs`) | objects in the bucket, `Attachment` rows | upload, send with files, forward (copies), clean up | object, row and message are written one after the other and each may fail; the script reads objects and rows at different times | a message keeps its files; a failed forward leaves nothing |
| Composer of a page (`page.tsx`, `ForwardDialog.tsx`) | files and how far each is, whether it is sending | pick, remove, upload, retry, submit, edit | submits what it reads after the uploads, and empties whatever is there after the answer | the files one saw are those one sent |
| Cursor pagination (`common/`) | none | page before a cursor | equal timestamps, inserts between pages | no message twice or missed |
| Push (`push/`) | subscriptions | subscribe, notify, expire | removal while notifying | blockers not notified, dead subscriptions go |
| Broadcasts, Redis adapter | none | fan-out | order across processes | — |
| Reports, demo accounts, mail, audit, users, configuration, health | rows written once, output | — | — | — |
| Read marks, unread counts, sidebar (`channels/`, `direct-conversations/`, `groups/`; `apps/web/src/components/Sidebar.tsx`) | `lastReadAt` of a user in a conversation; the sidebar's lists, socket and rooms it has joined | count, mark, read a list, connect, count up an event, clear; a page marks what it has loaded | events, reads and marks cross; the socket reconnects; marks are coalesced and take the time of the call | what counts as read was seen; the badge is the count |
| Other pages and components (profile, dashboard, search), shared packages, scripts | lists that are fetched and shown | — | — | — |

**Who talks to whom.** Controllers call services, services call repositories,
repositories run Prisma queries. Services share tables: leaving a workspace
(Workspaces) ends channel memberships and invitations (Channels); every method of
a channel asks for the workspace role first; invitations insert workspace members;
contacts, groups and direct conversations ask for blocks; the gateway asks the
channel, conversation and group services whether a socket may join a room. The web
client keeps a token pair per tab, which is a session row of the API.

## How the code is modelled

**An await is a step.** `request[r]` is a slot for one method in flight: its
`op`, how far it is (`at` names what it will do *next*) and the values it has read
into local variables. A check that fails ends the request. A transaction, or one
conditional query, is one step; code between two awaits belongs to the step before
the second. `Fault` is a query that rejects or a process that ends: the request
is gone and earlier writes stay.

**Tables are functions from row ids**, with `used` for a row that was inserted;
deleting is soft, as in the code, except for contact requests, which are deleted.
A partial unique index is a condition of the insert (`MemberConflict`,
`ChannelMemberConflict`); violating it takes the transaction back. Ids are
bounded, and a call is accepted only if every insert in flight still finds one,
so no method stops half way because of the bound.

**Abstracted data.** A user stands for his e-mail; a channel is its slug (unique
over archived and deleted rows too, by the index); a password, a reset link and a
token pair are model values; time appears as expiry, which may happen at any
moment. Texts, audit records, mails' contents and broadcasts are left out where
nothing reads them. A mail is a *letter*: its link, the hash in the database and the
mail are one model value. A message's text is one of two values; its `createdAt` is
one of two times, so that messages of one millisecond happen. A storage key is its
prefix and a number, drawn anew for each upload and each copy; a file's bytes are left
out.

**History variables** (`root`, `verified`, `rotated`, `spent` of Sessions, `opened` of
Accounts, `admissions` of Invites, `standing`, `asked`, `admitted` and `lost` of
MCCircles, `crossed`, `raced`, `known`, `pinLoad` and the variables of `fileHistory` of
MCPages) record what a property speaks about. No guard reads them.

## Modules

| Module | Models | Correspondence |
|---|---|---|
| `Tenancy` | the tables and repository queries of workspaces and channels | `member`, `channel`, `channelMember`, `invite`, `workspace`, `request`; operators carry the repository methods' names |
| `Workspaces` | `workspaces.service.ts` | one operator per method (`LeaveWorkspace`, `TransferOwnership`, ...), a disjunct per await, `...Write` or `...Tx` for what it writes |
| `Channels` | `channels.service.ts`, `channel-invites.service.ts` | likewise |
| `Memberships` | both over the same tables | `Next`, the invariants and action properties |
| `MCMemberships` | instances: a behaviour has a *workload* (which methods, how many rows, how many slots) | |
| `MembershipProofs` | TLAPS proofs about `Memberships`: its inductive invariant, types, ownership, transfers, memberships, channel owners, invitations; and about `MCMemberships`: what holds of requests served one at a time | |
| `Sessions` | session and password methods of `auth.service.ts`, `refresh-tokens.repository.ts`, for one account | `session[sid]` is a `RefreshToken` row, the sid its jti |
| `Accounts` | `register`, `resendVerification`, `verifyEmail`, `requestEmailChange`, `confirmEmailChange` of `auth.service.ts` with their queries and mails, for several accounts | `account[a]` is a `User` row, `letter[l]` a mailed link, `call[r]` a request |
| `SessionProofs` | TLAPS proofs about `Sessions`, about `Accounts`, and about `Sessions` under the workloads of `MCSessions` | |
| `MCSessions` | instances of both: a behaviour has the clients of one workload | |
| `Tabs` / `MCTabs` | `auth-fetch.ts`, `auth-context.tsx`, EXTENDS `Sessions` | a tab's request is a slot of `Sessions`; `answer` is the response on its way |
| `TabProofs` | TLAPS proofs about `Tabs`; that it implements `Sessions` is one | |
| `Tickets` | *abstract specification*: what a personal invitation promises | issue, admit, withdraw |
| `Invites` / `MCInvites` | `invites.service.ts` for one workspace | `Ticket == INSTANCE Tickets WITH ...` is the refinement mapping |
| `InviteProofs` | TLAPS proofs about `Invites`, the refinement among them | |
| `Presence` / `MCPresence` | `websocket.gateway.ts`, `presence.service.ts` and both stores, for one user's sockets | a handler is a task per socket and lane; `roomView` and `partnerView` are what others were told last |
| `Unread` / `MCUnread` | `Sidebar.tsx`, the read marks and counts of the three services, and when a conversation's page marks, for one user and one conversation | `bar` is the sidebar's entry, `lists` its reads in flight, `line`, `knock`, `sought`, `inRoom` its socket (`sought` is `joinedChannelRoomsRef`), `mark` the calls to mark as read |
| `Social` | tables of blocks, contacts, requests, conversations, one group; machinery of requests | |
| `Contacts`, `Groups` | `contacts.service.ts` and the creation of a direct conversation; `groups.service.ts`, `group-invites.service.ts` | one operator per method |
| `Circles` / `MCCircles` | both over the same tables | |
| `PresenceProofs`, `CircleProofs` | TLAPS proofs about `Presence` and `Unread` under the workloads of `MCPresence`, and about `Circles` and those of `MCCircles` | |
| `Messages` | tables and queries of messages, reactions and pins, paging by cursor, broadcasts into a room | `row`, `reaction`, `request`, `joined` (rooms), `stream` (events on their way to a tab); `PageOf` is a page of the list, `WithinCursor` its `where` |
| `ChannelMessages`, `DirectMessages`, `GroupMessages` | the three services: the same operations, with checks, awaits and broadcasts of their own | one operator per method, a disjunct per await |
| `Pages` / `MCPages` | the three conversation pages over the three services | `page[t]` is what the page of tab `t` keeps; a request slot per tab and purpose (the user's click, the page, older messages), and several for the loads of pins (`PinLoads`), which the pages do not keep apart |
| `Attachments` | objects, rows and messages with files; forwarding; the clean-up script | `object`, `aged` (older than the script's threshold), `fileRow` (key to message), `job` (a call to the API: its slot says whose), `script`; a forward takes back its work in `discard`, `undoRows`, `undoObjects` |
| `Composer` | the composer of a page and the forward dialog, over `Attachments` | `draft` (`composerAttachments`), `sendState`, `editing`, `submit` (a `submitMessage` between its awaits) |
| `PageProofs` | TLAPS proofs about `MCPages`: the files of messages (`Attachments`, `Composer`), reactions and pins (`Messages`, the three services) | |
| `ViewProofs` | TLAPS proofs about `MCPages`: what the pages show (`Pages`), and the types of all of it | |

An example of the correspondence. `workspaces.service.ts`, `updateMemberRole`:
the controller's call finds the workspace active (`AcceptOnActive`), awaits the
caller's role (`CheckRole`, `at = "role"`), awaits the target row (`CheckTarget`,
`at = "target"`) and updates the row *by id* (`UpdateMemberRoleWrite`,
`at = "write"`). Between the last two a transfer may have made the target OWNER.

## Runs

Twelve runs; each takes seconds to three minutes on two workers. The violation runs
check one sentence of the repository's documents and are listed again under
[Findings](#findings).

| Run | Instance | Shows |
|---|---|---|
| `memberships` | 2 users, nine workloads. 2 requests in flight, with faults: the membership methods with 2 rows, all but role updates with 3 (join, leave, join again), transfer against archive, delete, restore, and two who add the same user. Methods of channels, invitations with the leave cascade, admissions: 2 slots. Role and moving methods served one at a time | `SoundOwnership`, `OwnershipHandedOver` (the OWNER changes only to a member, the old one staying as ADMIN), `InactiveIsFrozen`, `InviteSettledOnce`, `UsedInviteAdmits`, `TypeOK`; served one at a time `OwnedWhenSerial`, `NothingStrandedWhenSerial` |
| `ownerless` | 2 users, 2 slots | *violated*: `AlwaysOwned` |
| `sessions` | 3 session ids, 2 passwords, 2 reset links. Two requests of login, refresh, logout and the revocations, with faults; every method one at a time. 2 accounts, 3 addresses, 3 letters, 2 calls, with faults and lost mails | `OneHeirPerLogin` (concurrent), `OldPasswordsOut` and `LinkSetsOnce` (serial), `TypeOK`; `ProvenEmails` |
| `oldpasswords` | login, refresh, change of password in 2 slots | *violated*: `OldPasswordsOut` |
| `tabs` | 1 tab, 2 calls, 3 sessions, faults, timeouts | `UnspentTokens`, `NoSpentPairKept`, and `CallsSettle`, under the timers' fairness and unless a refresh's body never ends |
| `loggedout` | 1 tab, 1 call | *violated*: `LoggedOutStaysOut` |
| `invites` | three users with one invitation; the founder and one user with one of any role and expiry, or with two; 2 slots, faults | `PersonalInvitesAreTickets` (refinement of `Tickets`), `UsesAreAdmissions`, `TypeOK` |
| `maxuses` | 3 users, a link for one use, 2 slots | *violated*: `LinkWithinMaxUses` |
| `presence` | 2 sockets, 1 channel, 1 conversation, up to 4 handlers in flight, either store, faults, crash. Three workloads of `MCUnread`: a channel, a direct conversation or a group, 2 messages, 2 milliseconds, 2 reads of a list in flight | `LiveSocketsTracked`, `NoFalseOffline`, `PatientViewsAgree`, `TypeOK`; `ReadIsSeen`, `BadgeIsTheCount` |
| `closedtab` | 2 sockets, one handler at a time | *violated*: `ConnectedIsNotOffline` |
| `circles` | 2–3 users, 1 link for one or two uses, of which failures leave two uncounted at most, 3 request ids used again, seven workloads of 1–2 slots | `OwnedUnlessSelfAdded`, `ContactsAreWanted`, `BlocksRespected`, `AdmissionsBounded`; served one at a time `UncrossedWhenSerial`, `ArchivedWhenSerial`; `TypeOK` |
| `messages` | 2 users, 3 tabs, 3 messages of 2 times, 2 emojis, pages of one message, 2 loads of pins of a page in flight; thirteen workloads of one to three clicks, for the three kinds of conversation. Seven workloads of two files: picked, removed, sent twice, an edit meanwhile, forwarded; up to two failures, a crash, a day passing and the script | `PagesSkipNothing`, `FeedsAgree`, `OneReactionPinsLive`, `MessagesKeepFiles`, `NothingLeftBehind`, `TypeOK`, and `PagesCatchUp` under fairness |

**Why these bounds are enough for the questions.** Every race in this code is
between two methods: a decision is made on what one query returned and one
other commit falls in between. Two slots give every pair of methods at every pair of
awaits, and a request that ends frees its slot, so behaviours of any number of
requests are explored, two at a time. Three rows let a user join, leave and join
again (the partial indexes count live rows only). Two users give an owner and his
successor; a third is there where two must meet a common object (a link, a group).
Two invitations are needed for one user to accept two. Three sessions are a login,
its successor and an unrelated or newer login. For presence, two sockets are what
*the last* and *another* need, and a third handler in flight is what a race of
a disconnect with a connection and a message needs. For Accounts, a pending address that is
neither the account's nor the one a link was sent to takes three addresses, and a
registration with two changes takes three letters. For messages, a page of one makes every
load of older messages cross a page's edge; two clicks are a change and the one it
races or follows; three tabs are two of one user (who must see his own reactions) and
another's. A tab has one click, one page and one load of older messages in flight at a
time: the pages' buttons are disabled meanwhile. Loads of pins overlap, as each is started by
an event or a list that came in, whatever is in flight, and their answers are shown as they
come; a page has at most two in flight (`PinLoads`), and no workload ever asks it for a third:
two are what an older answer after a newer one needs. For files, two are one whose upload fails
and one whose does not, and a copy made before one that cannot be; four steps of the budget are
a submission that fails after its message was written, its retry and a day between them.
For unread counts, two messages are one that is counted and one that crosses a mark or a
read, two milliseconds are before and after a mark, and two reads of a list are the one
an event or a connection asks for and the one before it. Most properties of
requests that race are besides proved without bounds ([Proofs](#proofs)).

**Workloads.** An instance with every method, row and slot at once is too large,
so a behaviour picks one workload at the start. Between them the workloads call
every method; which pairs run concurrently is what the definitions in the MC
modules list. Where a property is stated for requests served one at a time
(`...WhenSerial`, `sessions`' serial workload) the README and the hazards say
what the code does otherwise: it loses, by design or not.

**Patience.** `PatientViewsAgree` excludes a socket that closes, or sends again,
while one of its messages is being handled: in such haste the code does leave a
closed socket in the store and a room told `online`. The other two properties of
`presence` hold with haste, failures and crashes.

**What the badge promises.** `BadgeIsTheCount` and `ReadIsSeen` hold of behaviours from
which `MCUnread` leaves out, by name, the steps after which the code is wrong (`Careful`,
`Calm`, `Uncrossed`); each was put there because TLC found the property violated
without it, and they are listed under [Other divergences](#other-divergences-read-off-the-code).
What is left is much: the socket drops and comes back, reads fail, messages are written
while it is down, one's own messages come from another device, messages are
deleted, the page is opened and left while its mark is in flight.

**Deadlock** is checked in every run but `messages`, where clicks are bounded, and
`circles`, whose only group may become
empty: its owner adds himself, is a MEMBER then, and leaves, and the one group of
the instance is gone for good.

**Symmetry** of the slots, of the users but the founder, of sockets and lanes is
used in runs of invariants and action properties. `PersonalInvitesAreTickets`
is a safety formula (no fairness), so symmetry is sound there too; `tabs` and
`messages`, which check liveness properties, use none.
Accounts' letters are interchangeable too.

## Fairness

`CallsSettle` assumes no more than timers give:
`fetchWithTimeout` (`apps/web/src/lib/fetch-timeout.ts`) aborts a request whose headers
have not come after a fixed time, so a refresh is given up (`RefreshTimesOut`) and a call
settles (`Settle`) even if the API never answers. Both are weakly fair, per tab and
call. The API is assumed to do nothing. Once the headers of a refresh are there
(`RefreshHeaders`) its timer is cleared and `auth-fetch.ts:74` awaits the body without
one: `RefreshBody` has no fairness, and `CallsSettle` says what is true then. Either every
call settles, or the tab reads a body that never ends (`BodyStalls`).

`PagesCatchUp` assumes weak fairness of `Goes`, what is already under way, and of nothing a
user does: a method that has been called takes its next await (the event loop runs every
settled promise), an event in a socket's stream is handled (socket.io delivers in order
while the connection lasts), and an answer reaches the page that waits for it
(`Fairness` of `Pages`; since each of these steps uses something up, fairness of the
disjunction is enough). No click, connection, failure or second opening is assumed.

Everything else is a safety property and its specification states no fairness.

## Proofs

The proof modules are checked from nothing by `tlapm`, without assumptions other
than those the modules state of their constants (`TenancyAssumption`:
the founder and those who joined have distinct rows, there is a channel, requests are finite in
number; `InvitesAssumption`: `NoUser`
is no user, `MaxUses` are positive; `AccountsAssumption`, `SessionsAssumption`: no letter,
session or link is the value that says there is none; `TabsAssumption`: a tab has one slot
to refresh and one to sign in and out, `Refused` is no session; `PresenceAssumption`: the
kinds of rooms and of handlers are disjoint; `SocialAssumption`: links and the ids of contact requests
are finite in number, and the ids more than the requests in flight; `FilesAssumption`: there is a
message, and `NoPost` is none; `ComposerAssumption`: files, submissions and forward dialogs make
their calls in slots of their own; `MessagesAssumption`: the rows there may be of messages and
reactions are finite in number, there is a message, a user, an emoji, a text and a time, what stands for
no message and no cursor is none, a page has room for one message, and loads of
pins have slots of their own; `WorkloadsAssumption` of
`MCCircles` and of `MCPages`: what a workload bounds or selects is a number, a place, a tab, a dialog or a
kind of conversation; that `u1`, who has written what is there at the start, is a user; and that there are
channels where files are looked at).

A theorem about `Spec` holds of the component with no bound at all. One about `MCSpec` holds of
the component under *any* set of workloads: it speaks of a history variable the MC module
adds, or of requests served one at a time, which is what a workload with one slot is.

**`MembershipProofs`** — for any users, channels, rows, slots and operations.

- `TypeCorrectness`: `Spec => []TypeOK`.
- `OwnershipIsSound`: `Spec => []SoundOwnership`: however many requests race, two
  members are never OWNER at once, and an OWNER is the user `workspace.ownerId`
  names.

`SoundOwnership` is not inductive: that a transfer writes the row of the user it
will put into `ownerId` depends on what the request read of that row before.
The strengthening is `IInv == TypeOK /\ SoundOwnership /\ RequestsKnow /\ RowsRefer`.
`RequestsKnow` says what a request has read that no other request can make untrue: a
request that names a row names a row that was inserted; a transfer past its checks has
remembered the row's user; a method that fills a channel, once past the look-up, has
a channel whose slug is taken for good; and a method that settles an invitation
carries the channel, invitee and role of its row. `RowsRefer`: memberships and
invitations are of channels that were created. Most steps only read: `Reads` says
what such a step does, one lemma per method shows that its steps are reads or one of
its named writes, and the invariant is shown of reads once and of every write by itself.

From the same `IInv`:

- `OwnershipMovesByHandOver`: `Spec => OwnershipHandedOver`, and
  `InactiveStaysFrozen`: `Spec => InactiveIsFrozen`: what no step may do.
- `NobodyIsAMemberTwice`: `Spec => []OneMembershipPerUser`. Each step inserts at most
  one row, for a user who has no live one (`MembersStep`, `StepEnters`): the partial
  indexes decide when the row is written, not the check an await before. No run repeats it.
- `AChannelHasOneOwner`: `Spec => []OneChannelOwner` (no run checks it). `createChannel` writes the only
  OWNER row, and only for a slug never used; by `RowsRefer` no row is of such a channel.
- `InvitationsSettleOnce`: `Spec => []InviteSettledOnce`, and `UsedInvitationsAdmit`:
  `Spec => UsedInviteAdmits`: the row admitted is of the invitation's own invitee,
  channel and role because that is what the request knows.

Of requests served one at a time (`MCSpec`, workloads with one slot):

- `SerialKeepsAnOwner`: `MCSpec => []OwnedWhenSerial`, faults included. `AlwaysOwned` fails because
  what a request read is stale when it writes; `AloneInv` says that what the *one* request in
  flight has read still holds (`KnowsAlone`, stage by stage: the row it will demote or end is
  not the OWNER's, the one it will make OWNER is an active member's).
- `SerialStrandsNobody`: `MCSpec => []NothingStrandedWhenSerial`. `Contained` is what is true
  between the writes of a method too: whoever is in a channel, or invited to one, is a member of
  the workspace, or the request in flight is the one that takes him out and has yet to reach
  that row. It holds of `Uninterrupted` workloads: no query fails between two writes, and
  `restoreChannel`, which brings back the members a channel had when it was archived, is not called.

**`InviteProofs`** — for any users, invitations, `maxUses` and slots.

- `InviteTypes`: `Spec => []TypeOK`.
- `UsesCounted`: `Spec => []UsesAreAdmissions`: `usesCount` is exactly the number of
  members a link made.
- `InvitesAreTickets`: `Spec => PersonalInvitesAreTickets`: Invites implements
  Tickets.

The inductive invariant `IInv == TypeOK /\ UsesAreAdmissions /\ RowsSound /\
RequestsKnow`: rows not yet issued are blank, a link is marked used by nobody, and
a request past its check of `maxUses` still meets the kind of row it saw, because
no write changes the kind. Every step reads, or has one of six effects on the
tables (`Issues`, `Marks`, `Counts`, `Flags`, `Grants`, `Freezes`); each effect
keeps the invariant, and each is a step of a ticket, a person who moves, or a
stutter.

**`SessionProofs`** — for any sessions, passwords, links and slots; accounts, addresses, letters and
calls in flight.

- `SessionTypes`: `Spec => []TypeOK`, and `OneHeir`: `Spec => []OneHeirPerLogin`: a login
  leads to one live session at most, counting what a refresh between its two
  statements is about to insert.

`SInv` adds to both that a session's root was issued (`Rooted`), so that a new login starts
a family of its own, and that a refresh names an issued session (`NamesRow`). Most steps
issue nothing: `Lessens` says so, and one lemma covers them all; `consumeActiveToken`
and the two inserts are shown by themselves.

Of Accounts:

- `AccountsProven`: `AccountSpec => []ProvenEmails`: who is verified has followed a link
  that was mailed to the address he has.
- `EmailsUnique`: `AccountSpec => []OneAccountPerEmail` (no run checks it).

`ProvenEmails` needs what an account *would* prove if one of its links were followed
now: `AccountSound` says that a row's two links are letters written for this account,
the second one to its pending address; `CallKnows` says what a call has read and no other
call can make untrue, that the letter a confirmation is about to apply was opened and
is to the address it will write; `CreatesAlone`: of two calls only one is about to insert a
row, so what a registration has written for it is its own. Letters that were written
stay as they are (`Keeps`); a step is `Benign` to an account unless it is one of its
writes. `OneAccountPerEmail` follows because an address is written under the unique
index only (`AddressWritten`).

Of the workloads of `MCSessions` in which no change of password races a login or a refresh
(`SoundWorkloads`; where one does, the properties are false, finding 2):

- `OldPasswordsAreOut`: `MCSpec => []OldPasswordsOut`, and `ALinkSetsOnce`:
  `MCSpec => []LinkSetsOnce`. Both hold at rest only: between its two statements a reset has
  written the new password and not yet revoked, or not yet cleared its link.
  `AloneInv` of `WInv` says what is true there, of requests served one at a time: a live session, or
  one about to be inserted, is of the password that stands, unless the request
  in flight is the one that is about to revoke it (`Revoking`); a link whose letter was used is
  stored no more, unless that request is about to clear it (`LinkKnown`). While logins and refreshes
  interleave, no method of the workload writes a password (`Unchanging`).

**`TabProofs`** — for any tabs and calls, from `SInv`.

- `TabsAreSessions`: `TabSpec => Spec`: whatever the tabs do, the API takes a step of
  `Sessions` or none. So `OneHeir` holds of tabs and API together.
- `TokensUnspent`: `TabSpec => []UnspentTokens`, `KeptPairsUnspent`:
  `TabSpec => []NoSpentPairKept`, `TabTypes`: `TabSpec => []TabTypeOK`.

That no tab sends a spent token takes knowledge of every place a token can be: `Held` says
that a pair a tab keeps is unspent unless its refresh is under way (`StoredLive`), that an
answer on its way carries an unspent session (`AnswersLive`), that no two places hold
one session (`PairsApart`), and that two refreshes in flight never carry one
(`RefreshesApart`). `ReadsTokens`: the body a tab reads is of an answer that is a pair.

**`PresenceProofs`** — for any sockets, rooms and messages in flight, either store,
failures, haste and restarts.

- `PresenceTypes`: `Spec => []TypeOK`; `LiveIsTracked`: `Spec => []LiveSocketsTracked`;
  `OfflineIsTrue`: `Spec => []NoFalseOffline`.

`PInv` says what a handler may rely on after an await. `Alone`: of the handlers one at most
awaits the in-memory store, so the sockets it asked for are still those tracked when it
decides (`Knows`); the handler of a disconnect runs for a closed socket, and so never
untracks a live one; a handler of a message runs for a socket that is known, and with the
in-memory store tracked (`SocketSound`). `HandlerStep` reduces a step to what it does to
its own socket: the others are covered once, by `OthersKnow`. With the Redis store
`NoFalseOffline` is false, and `Alone` is what fails.

- `ViewsAgreeAtRest`: `MCSpec => []PatientViewsAgree`, for any workloads that are hasty, or use the
  in-memory store and have no failures. Nothing is at rest while a room is being left, so `AInv`
  says what holds meanwhile: the store has the live sockets and those about to be untracked
  (`Present`); a socket counts as in the rooms socket.io has it in, but for the one a
  message is `Leaving` (`RoomsMatch`); and who watches a room takes the user for present as
  long as a socket counts as in it or a handler has yet to tell him (`Pending`, `ToldRight`).
  `PatientIsOne` is where patience enters: of one socket one handler is in flight, so what a
  handler leaves was not joined again behind its back.
- `WhatIsReadWasSeen`: `MCSpec => []ReadIsSeen`, of `Unread`, whose workloads `MCPresence` runs too.
  The mark is kept long after it was asked for, so `ReadSound` says what holds whenever it may be:
  what a loaded page does not show it will hear of or was told in vain (`LoadedAccounted`), no call to
  mark is in flight without a page, nor one of a channel before its page has loaded, and what is not announced yet while no
  page is open is not older than the mark, or missed (`ClosedAccounted`).
- `BadgeCountsRight`: `MCSpec => []BadgeIsTheCount`. Of a direct conversation or a group `ReadAgain`
  says that a count that is not the API's, on display or in an answer in flight, is followed by a
  forced read, or by something that will force one (`ToBeRead`); that no answer overtakes another
  is what keeps it. Of a channel the badge is the number of unread messages of
  which no event is on the way (`CountedUp`), because each is told once (`ToldOnce`) and none
  crosses a read or a mark (`NothingCrosses`).

**`CircleProofs`** — for any users, links, ids and requests in flight.

- `CircleTypes`: `Spec => []TypeOK`, with a pigeonhole argument for `FreshId`.
- `OwnerKept`: `Spec => OwnedUnlessSelfAdded`. Nobody becomes OWNER after the group was
  created, so what a request learned of owners stays true (`Knows`): who leaves or is removed
  was no owner when he was checked and is none when his row is written. Of the steps only
  `addMember` can take the owner's role, and the `by` of such a request is the one owner.
- `ContactsWanted`: `MCSpec => ContactsAreWanted`. An acceptance asks who wants it in its first
  query, and writes three awaits later. `AInv` ties the history `asked` (who has asked whom and not
  withdrawn it) to the rows (`RowsAreAsked`): a row there is has an id and a sender who has asked. What
  an acceptance, a decline or a withdrawal has read is the id of a row (`HoldsRow`), so a row of that id
  at its write is one that is wanted, were it deleted and created anew in between or not.
- `BlocksPreventTies`: `MCSpec => BlocksRespected`. A request does not look at a block when it
  writes. `WInv` ties the history `standing` (the blocks that have stood since a request's
  first query) to the request's stage: past its question about blocks (`PastBlock`) none that
  would forbid it has stood throughout.
- `LinksAdmitTheirUses`: `MCSpec => []AdmissionsBounded`: a group link admits fewer than `maxUses`,
  the slots and the uses lost to failures together. `UInv`: the uses counted, and the acceptances
  that have read a count and not yet incremented it, are together less than `maxUses` plus the
  slots; the step that keeps it is a pigeonhole argument over requests in flight. `Admissions`:
  whom a link admitted was counted, is about to be (`Counting`), or was lost.
- `SerialAsksUncrossed` and `SerialArchivedStands`, of requests served one at a time:
  `MCSpec => []UncrossedWhenSerial` and `MCSpec => ArchivedWhenSerial`. As for Memberships, what
  the one request has read still holds when it writes (`SerialInv`).

Steps of Contacts leave the group alone (`Apart`), most of Groups leave its owners
(`Harmless`); the two that do not, creating the group and adding a member, are shown by
themselves.

**`PageProofs`** — for any files, submissions, dialogs, keys, users, tabs, messages and workloads.

- `FilesAreKnown`: `MCSpec => []FInv` (no run checks it): tables, calls and composer are well typed; a call is
  made only by its own file, submission or dialog and holds keys of the kind it draws
  (`FilesKnown`); no key is in the bucket or in a table before it was drawn (`KeysDrawn`).
- `ForwardsCleanUp`: `MCSpec => []NothingLeftBehind`. The undoing of a forward is three awaits long;
  `CopiesPlaced` says, for each stage, which copies the forward still has to account for:
  every object and row of a copy is of a message, or on the list of a forward in flight.
  `ScriptSpares`: the script deletes none of them, since a copy that is a day old is a message's.
- `SentFilesAreKept`: `MCSpec => []MessagesKeepFiles`: the largest of the proofs, because four
  actors touch a file: its upload, the submissions, a forward, and the clean-up script.
  `KeepInv` has five parts. `PageKnown`: what the page and its calls know of each other (which
  submission awaits which uploads, and that only a group's composer sends twice at once).
  `Holds`: the keys an upload or a forward holds are stored, not a day old and nobody else's.
  `SoundKeys`: a key the composer is about to send is stored, and, but for a channel, has a
  row and is not one the script is about to delete. `Unsent`: a direct or group message that
  is about to be written takes its files from no other, unless two are sent at once. `SentKept`: the property, message
  by message. A step of the page or of the API is first reduced to what it does to one call
  (`Served`) or to the composer (`PageMoves`); all but the step that writes the message then
  keep the invariant for common reasons (`Steady`, `Orderly`), and that one is shown by itself.
- `OneReactionAndLivePins`: `MCSpec => []OneReactionPinsLive`. Neither half is inductive: both
  are kept only because of what a handler read before its last await. `RInv` states that for
  each stage (`Claims`): a message about to be pinned is live (`PinStands`), the caller
  has no reaction to the message when one is created (`NoneLeft`), in a channel those about to be dropped are
  all he has (`AllFound`); unless `raced` says that another call about the message was on its way
  at once, which `Rivals` shows of whoever could have interfered. A step is reduced to what
  it does to the tables (`Settles`) and to its own call (`Turns`).

**`ViewProofs`** — for any tabs, users, messages, times, page sizes and workloads.

- `NothingIsSkipped`: `MCSpec => []PagesSkipNothing`: an open page shows, from its newest message down to
  where its list ends, every live message it knew of when it was read, and none twice, for every page size,
  with messages of one millisecond, and with inserts and deletes between two pages. The property looks at a page
  alone, and what makes it true is on its way from the server, so `VInv` says: the rows, the calls, the events
  and the pages have their forms (`Typed`); a call to delete past its write, and an event that tells of a
  deletion, are of a message that is deleted (`CallsGone`, `EventsGone`), so that nothing else ever leaves a
  list; an answer lists a message once (`ListsOnce`), and a page that waits for its first list is empty (`PagesOK`);
  the list on its way to a page reaches from its cursor down to its own end with every live message known
  (`FirstPage`); and older messages are asked for from where the page ends (`OlderPage`), so that the
  two lists meet. That the rows `PageOf` takes are the newest, in order and without a gap, are lemmas on finite
  sets (`ArrangedIs`, `KeepAtIs` and those after them). Steps are reduced to what they do to a page (`PageFrame`, `Updates`) or to a call
  (`Handles`): a row keeps its time for good, and a deleted one stays deleted (`RowsGrow`).
- `PagesTyped`: `MCSpec => []TypeOK`, from `FInv`, `RInv` and `VInv` together: what every list, event and answer
  holds are entries of messages, whatever was sorted, filtered or appended.

**Only model-checked**: of the invariants of the runs only `FeedsAgree` of Pages. It speaks of the moment when
nothing is on its way, and rests on everything that was: that the event of each change is in every
joined stream or was taken, in the order of the changes, and that each page's answer and event about
one change lead to the same entry in either order. An inductive invariant would have to say so of
each kind of event and answer in each kind of conversation, but for what the history `crossed`
leaves out. And liveness under fairness (no ENABLED in the
prover). The proofs do not cover `AlwaysOwned` and `LinkWithinMaxUses`, which are false.

## Findings

Each is a violation run: TLC's shortest counterexample is a legal interleaving of
the code.

1. **A workspace can lose its OWNER** (`ownerless`). `updateMemberRole` and
   `leaveWorkspace` check that the row is not the OWNER's, and write by id or by
   user an await later. A transfer that commits between the two has its new OWNER
   demoted or removed. `docs/permissions.md:205` promises that this is rejected.
2. **A session survives the change of its password** (`oldpasswords`). A refresh
   that consumed its token, or a login that verified the password, stores a session
   after `revokeAllForUser`. `docs/project-status.md:441` says existing sessions
   are revoked.
3. **A logged-out tab gets its tokens back** (`loggedout`). The answer to a refresh
   in flight is stored after `logout()` has cleared the tab; its session is not the
   one logout revoked. `docs/project-status.md:29`.
4. **A link admits more than `maxUses`** (`maxuses`). The count is read, and
   incremented by id without a condition. `docs/project-status.md:454` says such links are
   rejected.
5. **Closing a tab tells the partner offline** (`closedtab`) while another socket of
   the user is connected: the rule is "last socket in this conversation's room", the
   message is heard everywhere. `docs/dev-checklist.md:646`.

## Other divergences, read off the code

Met while translating, and not worth a run each, since they follow from one line:

- A workspace OWNER who is no channel member cannot archive a channel
  (`channels.service.ts:472`); `docs/permissions.md:192` lets him.
- A refresh with a revoked token is refused and nothing else happens
  (`auth.service.ts:208`); `docs/portfolio-summary.md:75` speaks of reuse detection.
- A refresh whose body never ends is never given up: the timer is cleared when the headers
  arrive (`fetch-timeout.ts:34`), and every call that waits for the refresh hangs
  (`auth-fetch.ts:74`); `docs/project-status.md:453` speaks of a 15-second timeout of all API requests.
- A 401 that arrives after a refresh has settled starts a second refresh
  (`auth-fetch.ts:86`); `docs/portfolio-summary.md:173` says one refresh.
- "Revoke other sessions" called with an access token from before a refresh keeps
  the session it names, which is gone, and revokes the caller's own
  (`refresh-tokens.repository.ts:77`; `docs/project-status.md:36`).
- A link revoked between the read of its count and the increment still admits
  (`invites.repository.ts:86`).
- A removed channel member stays in the socket room until he types
  (`websocket.gateway.ts`, typing); `docs/demo-script.md:124` says he is put out.
- The group owner who adds himself becomes a MEMBER, and the group has no owner
  (`groups.repository.ts:282`); and the repository's `transferOwnership` is called
  by nobody, though `docs/permissions.md:131` speaks of transferring.
- Creating a group does not ask for blocks; adding a member does.
- A group link, too, admits more than `maxUses`: `accept` checks the count when it reads the
  link, adds the member and counts the use in awaits of their own
  (`group-invites.service.ts:163`), and a failure after the second leaves the use uncounted;
  `docs/api-design.md:1669` promises 410. `AdmissionsBounded` says by how much.
- A contact request that is declined, or withdrawn, after its acceptance was written ends
  DECLINED or deleted, and the contacts stay (`contacts.service.ts:272`, `:286`).
- A page does not fetch what it missed while its socket was away: it joins the room
  again and goes on (`page.tsx:614` of the channel page); `docs/architecture.md:129`
  and `:177`, and `docs/websocket-events.md:681`, promise a refetch.
- An edit is broadcast with the reactions as its author sees them
  (`messages.service.ts`, `updateMessage`): other pages mark his reactions as their own.
- The direct and group pages look for `messageId` in the events of pins, and the server
  sends `id`; their tests send what the pages expect (`page.test.tsx:7863` of the direct
  page, `:257` of the group page). Only the channel page follows pins.
- A page shows the list of pins that was answered last, not the one asked for last
  (`loadPins`, `page.tsx:936` of the channel page): of two loads that overlap the older may
  replace the newer, and a message pinned between them stays out of the list until something
  loads the pins again. `FeedsAgree` speaks of the list only where the last load asked for was
  the last one shown (`pinLoad`).
- The author's other tabs leave out his new group messages: the group page takes them
  for the ones it appended itself.
- A message deleted while it is being pinned stays pinned.
- An `addReaction` that loses a race on the unique index returns without a broadcast.
- An answer to "older messages" that comes after the page has started anew, with another
  token, is put before the new list, which may leave a gap between them.
- An unattached file that two messages name at once belongs to the later one: the
  attachment row is updated by its id alone (`groups.repository.ts:414`). The group page
  lets it happen: Enter in its text field sends again while a message is being sent.
- After a message was written and its answer lost, the composer can neither send its files
  (they are in use, or their keys taken) nor let the user take them out: only files that
  are ready or failed can be removed (`page.tsx:2281` of the channel page).
- A file dropped on a page while a message is being sent is thrown away when the answer
  comes (`page.tsx:1284` of the channel page), and starting an edit on the direct page
  takes the files out of a message whose uploads are under way (`page.tsx:535`).
- A channel's file has no row until its message is written, so the clean-up script takes
  the files of a message that is sent a day after they were uploaded; the message is
  written all the same. Unattached rows of direct messages and groups stay for ever, and
  the script keeps their objects; `docs/dev-checklist.md:479` says the row is created
  before the upload.
- `markAsRead` takes the present time, so messages that were committed but not yet shown
  count as read; and of two marks on their way at once the earlier may be written last.
- The sidebar remembers the rooms it has joined and does not join them again when its
  socket reconnects (`Sidebar.tsx:189`), nor when the first join came before the gateway
  knew the socket and was refused (`websocket.gateway.ts:304`), so channel badges move
  only when a list is read again; `docs/project-status.md:90` speaks of real-time updates
  and `docs/websocket-events.md:105` of joining each channel again on reconnect.
- The channel page marks the channel read when it has loaded and never again: messages
  that come while it is open are unread to the next read of the list, although the sidebar
  does not count them (`docs/project-status.md:79`).
- The direct and the group page mark the conversation read also when loading its
  messages failed (`direct/[conversationId]/page.tsx:892`), and a mark already under way
  when a page is left covers what came after it.
- Of the answers to two reads of a list the sidebar keeps the one that comes last, not
  the one asked last. A message that crosses a read of the channel list, or a mark, is
  counted twice or not at all until the next read. Nobody tells the sidebar of the
  deletion of a message that was not the last of a direct conversation, or was in a channel.
- The sidebar's second socket, for groups, has no handler for `connect`: what was
  written while it was away is not counted until something else asks (`Sidebar.tsx:316`).
- `register` takes its account back when the mail was reported lost, even if the user
  has verified it meanwhile: by that mail, which arrived, or by one sent again.
- A confirmation of a change of address that was read before another change was asked
  for sets the older address and clears the newer link
  (`auth.service.ts:598`); `docs/project-status.md:444` says only the latest link works.
- Contact requests exist; `docs/permissions.md:141` says there is no such model.
- Blocking again reactivates the old row (`blocks.repository.ts:23`);
  `docs/safety-and-blocking.md` speaks of a fresh record.

## Not modelled

`PROJECT.json` lists every component with the reason. In short: push is planned (below). Reports, demo
seeding, mail, audit, users, health and configuration write rows that nothing
races for, or only output. Most of the web client renders: of its 30,000 lines, the
locale tables, forms and layouts have no state a property could be about. Scripts act
on the system from outside.

Within the modelled parts: presigned uploads and downloads, renaming, listing and previews (no state), a page reload,
several API processes, groups' links without a maximum, threads and replies, mentions,
search and the jump to a message in its context, and the cursor of pins; of the sidebar,
several conversations at once and the sums over them, and marks made on another
device. The page of `Unread` never loses its socket (that of `Pages` does), and the date
of a mark is taken in the step that keeps it.

## Plan

In the order of what matters most to the system's users.

1. *Done.* Memberships: `Tenancy`, `Workspaces`, `Channels`, `Memberships`, and their
   proofs.
2. *Done.* `Sessions`, `Tabs` composed with it, and `Accounts`. *Left:* reload and
   start-up of a tab; revoke-others from a tab.
3. *Done.* `Invites` implements `Tickets`, checked and proved.
4. *Done.* `Presence`. *Left:* two API processes with the Redis store.
5. *Done.* `Social`, `Contacts`, `Groups`, `Circles`.
6. *Done.* `Messages`, the three services, and `Pages`, with paging by cursor. `Unread`, the
   badge and the read marks. *Left:* threads.
7. *Done.* `Attachments` and `Composer`. *Left:* push and the demo rate limiter.
8. *Proofs*: *done* for Memberships, Invites, Accounts, Sessions, Tabs, Presence,
   Circles, Unread, the files of messages, reactions and pins, paging, and the types of all. *Left:* that
   pages agree at rest (`FeedsAgree`).

New modules join the existing runs as workloads where they share tables or clients, so
that the number of runs stays that of the questions.
