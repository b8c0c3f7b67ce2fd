------------------------------- MODULE MCInvites -------------------------------
(***************************************************************************)
(* Instances of Invites for TLC.  In a behaviour either all users meet one *)
(* invitation, or one besides the founder meets one of any role, or two of *)
(* them that do not expire.  Outside the second nobody becomes an ADMIN.   *)
(***************************************************************************)
EXTENDS Invites, TLC

\* Requests are alike, and so are the users but the founder.
Alike == Permutations(Requests) \cup Permutations(Users \ {Founder})

VARIABLE crowd      \* whose users take part, with how many invitations

Crowds == {[users |-> Users, invitations |-> 1, grants |-> {"MEMBER"},
             expiry |-> {TRUE, FALSE}]}
          \cup {[users |-> {Founder, u}, invitations |-> 1, grants |-> Grantable,
                 expiry |-> {TRUE, FALSE}]
                : u \in Users \ {Founder}}
          \cup {[users |-> {Founder, u}, invitations |-> 2, grants |-> {"MEMBER"},
                 expiry |-> {FALSE}]
                : u \in Users \ {Founder}}

Within ==
    /\ \A r \in Requests : request'[r] # Idle =>
           /\ request'[r].by \in crowd.users
           /\ request'[r].email \in crowd.users \cup {NoUser}
           /\ request'[r].grant \in crowd.grants
    /\ \A u \in Users \ {Founder} :
           role'[u] \in IF u \in crowd.users THEN crowd.grants \cup {NoRole} ELSE {NoRole}
    /\ \A i \in Invitations : invite'[i].expired \in crowd.expiry
    /\ Cardinality({i \in Invitations : invite'[i].used}) <= crowd.invitations

MCInit == Init /\ crowd \in Crowds
MCNext == Next /\ Within /\ UNCHANGED crowd
MCSpec == MCInit /\ [][MCNext]_<<vars, crowd>>
=============================================================================
