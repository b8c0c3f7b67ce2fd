------------------------------ MODULE MCCircles ------------------------------
(***************************************************************************)
(* Instances of Circles for TLC.  A behaviour has one workload: who acts,   *)
(* what is called, and how many requests are in flight.                     *)
(***************************************************************************)
EXTENDS Circles, TLC

CONSTANTS
    u1, u2, u3, Workloads,
    MaxLost    \* how many uses of a link failures may leave uncounted (a bound): those
               \* who so joined may be removed and come again
VARIABLES
    workload,
    \* history
    standing,  \* slot -> the blocks that stood all along its request
    asked,     \* the pairs <<from, to>> where from has asked to, and not withdrawn it since
    admitted,  \* link -> how many acceptances have made somebody a member
    lost       \* link -> how many of them ended in a failure before they were counted

history == <<standing, asked, admitted, lost>>
mcvars == <<vars, workload, history>>

ASSUME WorkloadsAssumption == \A load \in Workloads : load.slots \in Nat

Slots == Permutations(Requests)

Workload(users, methods, slots) == [users |-> users, methods |-> methods, slots |-> slots]

Asking == {"addContact", "accept", "decline", "cancel"}
Direct == {"direct", "block"}
Membership == {"group", "addMember", "removeMember", "leave", "archive"}
ByLink == {"group", "createInvite", "revokeInvite", "acceptInvite"}

AllWorkloads ==
    {Workload({u1, u2}, Asking, 2),
     Workload({u1, u2}, {"addContact", "accept", "direct", "block"}, 2),
     Workload({u1, u2}, Asking \cup Direct \cup {"privacy", "removeContact"}, 1),
     Workload({u1, u2}, {"block", "group", "addMember", "removeMember"}, 2),
     Workload({u1, u2, u3}, Membership, 2),
     Workload({u1, u2, u3}, ByLink \cup {"removeMember"}, 2),
     Workload({u1, u2}, Membership \cup ByLink \cup {"block"}, 1)}

InFlight == {r \in Requests : request[r] # Idle}

\* The methods of one query, by what they change.
AtOnceMethod ==
    CASE block' # block -> "block"
      [] privacy' # privacy -> "privacy"
      [] group = "none" /\ group' # group -> "group"
      [] contact' # contact -> "removeContact"
      [] OTHER -> "expiry"

Within(load) ==
    /\ \A l \in Links : lost'[l] <= MaxLost
    /\ \A r \in InFlight' \ InFlight :
           /\ request'[r].op \in load.methods
           /\ {request'[r].by, request'[r].whom} \subseteq load.users
           /\ Cardinality(InFlight) < load.slots
    /\ request' = request /\ AtOnceMethod # "expiry" =>
           /\ AtOnceMethod \in load.methods
           /\ Cardinality(InFlight) < load.slots
           /\ \A p \in block' : {p[1], p[2]} \subseteq load.users
           /\ \A u \in Users \ load.users : /\ groupMember'[u] = groupMember[u]
                                            /\ privacy'[u] = privacy[u]

\* standing, for a request that is accepted, goes on, or ends.
Standing(r) ==
    IF request'[r] = Idle THEN {}
    ELSE IF request[r] = Idle THEN block ELSE standing[r] \cap block'

\* The pairs of users whose requests at this point of their method write a row.
Writing(op, at) ==
    {p \in Pairs : \E r \in Requests :
        /\ At(r, op, at) /\ p = <<request[r].by, request[r].whom>>
        /\ request'[r] # request[r] /\ contactRequest' # contactRequest}
Asked == (asked \cup Writing("addContact", "ask")) \ Writing("cancel", "write")

Admitting == {l \in Links : \E r \in Requests :
    /\ At(r, "acceptInvite", "write") /\ request[r].link = l
    /\ At(r, "acceptInvite", "increment")'}
Losing == {l \in Links : \E r \in Requests :
    /\ At(r, "acceptInvite", "increment") /\ request[r].link = l
    /\ request'[r] = Idle /\ UNCHANGED link}
Counted(count, links) == [l \in Links |-> IF l \in links THEN count[l] + 1 ELSE count[l]]

MCInit ==
    /\ Init /\ workload \in Workloads
    /\ standing = [r \in Requests |-> {}]
    /\ asked = {}
    /\ admitted = [l \in Links |-> 0]
    /\ lost = [l \in Links |-> 0]
MCNext ==
    /\ Next
    /\ standing' = [r \in Requests |-> Standing(r)]
    /\ asked' = Asked
    /\ admitted' = Counted(admitted, Admitting)
    /\ lost' = Counted(lost, Losing)
    /\ Within(workload)
    /\ UNCHANGED workload
MCSpec == MCInit /\ [][MCNext]_mcvars

\* docs/safety-and-blocking.md: a block in either direction prevents a direct
\* conversation, a contact and a targeted addition to a group; here also for
\* contact requests.  One that stands from a request's first query to its last
\* does, whatever the other requests in flight do.
Respected(r) == \A p \in Pairs : TiesNew(p) => ~BlockedWith(p, standing[r])
BlocksRespected ==
    [][\A r \in Requests : request'[r] # request[r] /\ request[r] # Idle => Respected(r)]_vars

\* Two users become contacts only while one of them asks for it: he has asked, and
\* has not withdrawn it (cancelRequest) in any step before the acceptance writes;
\* or he adds somebody who lets everyone.  A request withdrawn and asked anew
\* while an acceptance is under way is accepted as the new one: it is wanted again.
Adding(p) == \E r \in Requests : /\ At(r, "addContact", "add") /\ request[r].seen = "EVERYONE"
                                 /\ p = <<request[r].by, request[r].whom>>
Wanted(p) == p \in asked \/ <<p[2], p[1]>> \in asked \/ Adding(p)
ContactsAreWanted == [][\A p \in contact' \ contact : Wanted(p)]_mcvars

\* A link admits maxUses users, one too many for every other acceptance in flight,
\* and one for every failure between the addition of a member and the count of
\* his use (accept): no other order of acceptances, removals and returns admits more.
\* This is less than docs/api-design.md:1669 promises.
AdmissionsBounded ==
    \A l \in Links : link[l].used => admitted[l] < link[l].maxUses + workload.slots + lost[l]

\* What holds when requests are served one at a time, and does not otherwise.
Serial == workload.slots = 1
UncrossedWhenSerial == Serial => NoCrossedRequests
ArchivedWhenSerial == [][Serial => ArchivedDoesNotGrow]_vars
=============================================================================
