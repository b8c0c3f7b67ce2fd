------------------------------- MODULE Circles -------------------------------
(***************************************************************************)
(* Contacts and Groups over the same tables: whom a user may ask, befriend, *)
(* write to or add to a group depends on blocks that come and go meanwhile. *)
(***************************************************************************)
EXTENDS Contacts, Groups

Next ==
    \/ \E r \in Requests : ContactsMethod(r) \/ GroupsMethod(r) \/ Fault(r)
    \/ \E l \in Links : LinkExpires(l)

Spec == Init /\ [][Next]_vars

-----------------------------------------------------------------------------
\* A group loses its OWNER in one way only: the owner adds himself, and the
\* upsert makes him a MEMBER.  No race of leaving, removals, links and additions
\* does it.
LosesOwner(r) ==
    /\ At(r, "addMember", "write")
    /\ groupMember[request[r].whom] = "OWNER" /\ request[r].by = request[r].whom
KeepsOwner == GroupOwners # {} /\ GroupOwners' = {} => \E r \in Requests : LosesOwner(r)
OwnedUnlessSelfAdded == [][KeepsOwner]_vars

\* Whom a step newly ties to whom: by a contact, a request, a conversation, or
\* the targeted addition to a group.
TiesNew(p) ==
    \/ p \in contact' \ contact \/ {p[1], p[2]} \in conversation' \ conversation
    \/ contactRequest[p].status # "PENDING" /\ contactRequest'[p].status = "PENDING"
    \/ \E r \in Requests : /\ At(r, "addMember", "write") /\ groupMember' # groupMember
                           /\ request'[r] = Idle /\ p = <<request[r].by, request[r].whom>>
BlockedWith(p, blocks) == p \in blocks \/ <<p[2], p[1]>> \in blocks

\* Of two users only one has asked the other: the second to ask accepts.
NoCrossedRequests ==
    \A p \in Pairs : ~(Status(p[1], p[2]) = "PENDING" /\ Status(p[2], p[1]) = "PENDING")

\* Nobody comes into a group that is archived, nor does it get a new link.
ArchivedDoesNotGrow ==
    group = "archived" =>
        /\ \A u \in Users : groupMember[u] = NoRole => groupMember'[u] = NoRole
        /\ \A l \in Unissued : ~link'[l].used
=============================================================================
