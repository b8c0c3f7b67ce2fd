------------------------------ MODULE MCSessions ------------------------------
(***************************************************************************)
(* Instances of Sessions and Accounts for TLC.  As in MCMemberships, the    *)
(* clients of a behaviour call the operations of one workload: on the       *)
(* sessions of a verified account, or on accounts and their addresses.      *)
(***************************************************************************)
EXTENDS Sessions, Accounts, TLC

Slots == Permutations(Requests)
Alike == Slots \cup Permutations(Letters)

CONSTANT Workloads
VARIABLE workload

\* Sessions come and go in concurrent requests, and queries may fail.
Rotating == {"login", "refresh", "logout", "revokeAllSessions",
             "revokeOtherSessions", "revokeSession"}
\* Passwords change, in concurrent requests.
Changing == {"login", "refresh", "changePassword"}

\* Any operation, one request at a time and without failures; or sessions rotating;
\* or any operation on accounts.
SoundWorkloads == {"rotating", "serial", "accounts"}
ChangingWorkload == {"changing"}

InFlight == {r \in Requests : request[r] # Idle}
Calling(ops) == \A r \in InFlight' \ InFlight : request'[r].op \in ops

Methods == \/ \E r \in Requests : AuthMethod(r)
           \/ \E s \in Sids : SessionExpires(s)
           \/ \E l \in Links : LinkExpires(l)

MCInit == Init /\ AccountInit /\ workload \in Workloads
MCNext ==
    /\ \/ /\ \/ workload = "rotating" /\ Next /\ Calling(Rotating)
             \/ workload = "serial" /\ Methods /\ Cardinality(InFlight') <= 1
             \/ workload = "changing" /\ Methods /\ Calling(Changing)
          /\ UNCHANGED accountVars
       \/ workload = "accounts" /\ AccountNext /\ UNCHANGED vars
    /\ UNCHANGED workload
MCSpec == MCInit /\ [][MCNext]_<<vars, accountVars, workload>>
=============================================================================
