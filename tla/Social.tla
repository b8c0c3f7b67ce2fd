-------------------------------- MODULE Social --------------------------------
(***************************************************************************)
(* The tables by which people find each other -- blocks, contact requests,  *)
(* contacts, direct conversations, one group with its members and links --  *)
(* and the machinery of requests: as in Tenancy, every await is a step.     *)
(***************************************************************************)
EXTENDS Naturals, FiniteSets

CONSTANTS
    Users,
    Links, NoLink,   \* the ids of group invite links (a bound)
    MaxUses,         \* what links ask for
    Ids, NoId,       \* the ids of contact requests; those nobody holds are used again
    Requests,        \* slots of concurrently served requests (a bound)
    Faults           \* whether an awaited query may reject

ASSUME SocialAssumption ==
    /\ NoLink \notin Links /\ IsFiniteSet(Links)
    /\ MaxUses \subseteq Nat \ {0}
    /\ NoId \notin Ids /\ IsFiniteSet(Ids) /\ IsFiniteSet(Requests)
    /\ Cardinality(Ids) > Cardinality(Requests)
    /\ Faults \in BOOLEAN

Pairs == {p \in Users \X Users : p[1] # p[2]}
Privacy == {"EVERYONE", "REQUESTS_ONLY", "NOBODY"}
NoRole == "NONE"

VARIABLES
    block,           \* UserBlock: the active pairs <<blocker, blocked>>
    privacy,         \* User.contactPrivacySetting
    contactRequest,  \* ContactRequest: <<from, to>> -> its row
    contact,         \* UserContact: the active pairs <<owner, contact>>
    conversation,    \* DirectConversation: its key, the two participants
    group,           \* the group: "none", "active" or "archived"
    groupMember,     \* GroupMember: user -> role, or NoRole if he left or never was
    link,            \* GroupInviteLink: id -> row
    request          \* slot -> the method being served and what it has read

people == <<block, privacy>>
acquaintances == <<contactRequest, contact, conversation>>
circle == <<group, groupMember, link>>
tables == <<people, acquaintances, circle>>
vars == <<tables, request>>

\* A row deleted and created again has a new id.
ContactRequestRow == [id: Ids \cup {NoId}, status: {"NONE", "PENDING", "ACCEPTED", "DECLINED"}]
LinkRow == [used: BOOLEAN, maxUses: MaxUses \cup {0}, useCount: Nat,
            revoked: BOOLEAN, expired: BOOLEAN]
Request == [op: {"addContact", "accept", "decline", "cancel", "direct",
                 "addMember", "removeMember", "leave", "archive",
                 "createInvite", "revokeInvite", "acceptInvite"},
            at: {"block", "existing", "add", "incoming", "outgoing", "ask", "between",
                 "unblocked", "tx", "write", "group", "target", "count", "member",
                 "increment"},
            by: Users, whom: Users, seen: Privacy, id: Ids \cup {NoId},
            link: Links \cup {NoLink}]

Idle == [op |-> "idle"]
Call(op, at, u, whom) == [op |-> op, at |-> at, by |-> u, whom |-> whom,
                          seen |-> "NOBODY", id |-> NoId, link |-> NoLink]

At(r, op, at) == request[r] # Idle /\ request[r].op = op /\ request[r].at = at
Accepted(r, call) == request[r] = Idle /\ request' = [request EXCEPT ![r] = call]
MoveOn(r, at) == request' = [request EXCEPT ![r].at = at]
Finish(r) == request' = [request EXCEPT ![r] = Idle]
\* A check: go on, or answer with an error (or with what already is).
Check(r, passed, at) == (IF passed THEN MoveOn(r, at) ELSE Finish(r)) /\ UNCHANGED tables
\* A method of one query.
AtOnce(r) == request[r] = Idle /\ UNCHANGED request

Fault(r) ==
    /\ Faults
    /\ request[r] # Idle
    /\ Finish(r)
    /\ UNCHANGED tables

-----------------------------------------------------------------------------
(***************************************************************************)
(* blocks.service.ts and the privacy setting of users.controller.ts         *)
(***************************************************************************)
HasBlocked(u, v) == <<u, v>> \in block
HasBlockInEitherDirection(u, v) == <<u, v>> \in block \/ <<v, u>> \in block

Block(r) ==
    /\ AtOnce(r)
    /\ \E p \in Pairs \ block : block' = block \cup {p}
    /\ UNCHANGED <<privacy, acquaintances, circle>>

Unblock(r) ==
    /\ AtOnce(r)
    /\ \E p \in block : block' = block \ {p}
    /\ UNCHANGED <<privacy, acquaintances, circle>>

UpdateContactPrivacy(r) ==
    /\ AtOnce(r)
    /\ \E u \in Users, setting \in Privacy :
           /\ setting # privacy[u]
           /\ privacy' = [privacy EXCEPT ![u] = setting]
    /\ UNCHANGED <<block, acquaintances, circle>>

\* Registration: everybody takes requests, and nothing has happened yet.
Init ==
    /\ block = {}
    /\ privacy = [u \in Users |-> "REQUESTS_ONLY"]
    /\ contactRequest = [p \in Pairs |-> [id |-> NoId, status |-> "NONE"]]
    /\ contact = {}
    /\ conversation = {}
    /\ group = "none"
    /\ groupMember = [u \in Users |-> NoRole]
    /\ link = [l \in Links |-> [used |-> FALSE, maxUses |-> 0, useCount |-> 0,
                                revoked |-> FALSE, expired |-> FALSE]]
    /\ request = [r \in Requests |-> Idle]

TypeOK ==
    /\ block \subseteq Pairs
    /\ privacy \in [Users -> Privacy]
    /\ contactRequest \in [Pairs -> ContactRequestRow]
    /\ contact \subseteq Pairs
    /\ conversation \subseteq {{p[1], p[2]} : p \in Pairs}
    /\ group \in {"none", "active", "archived"}
    /\ groupMember \in [Users -> {"OWNER", "MEMBER", NoRole}]
    /\ link \in [Links -> LinkRow]
    /\ request \in [Requests -> Request \cup {Idle}]
=============================================================================
