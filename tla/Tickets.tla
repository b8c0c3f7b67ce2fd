-------------------------------- MODULE Tickets --------------------------------
(***************************************************************************)
(* What a personal invitation promises: it admits one person, who was not a *)
(* member, and is then used up; or it is withdrawn and admits nobody.  The  *)
(* marking of the ticket and the admission are one step.                    *)
(***************************************************************************)
CONSTANTS
    Tickets,    \* the invitations that may be issued
    People,     \* the users
    Nobody      \* no user

VARIABLES
    state,      \* ticket -> how far its life has come
    holder,     \* ticket -> whom it admitted
    members     \* the members of the workspace

ticketVars == <<state, holder, members>>

TicketInit ==
    /\ state = [t \in Tickets |-> "unissued"]
    /\ holder = [t \in Tickets |-> Nobody]
    /\ members \subseteq People

Issue(t) ==
    /\ state[t] = "unissued"
    /\ state' = [state EXCEPT ![t] = "open"]
    /\ UNCHANGED <<holder, members>>

Admit(t, u) ==
    /\ state[t] = "open" /\ u \notin members
    /\ state' = [state EXCEPT ![t] = "used"]
    /\ holder' = [holder EXCEPT ![t] = u]
    /\ members' = members \cup {u}

Withdraw(t) ==
    /\ state[t] = "open"
    /\ state' = [state EXCEPT ![t] = "withdrawn"]
    /\ UNCHANGED <<holder, members>>

\* Members also come and go in other ways.
Move(u) ==
    /\ members' \in {members \cup {u}, members \ {u}}
    /\ UNCHANGED <<state, holder>>

TicketNext ==
    \/ \E t \in Tickets : Issue(t) \/ Withdraw(t) \/ \E u \in People : Admit(t, u)
    \/ \E u \in People : Move(u)

TicketSpec == TicketInit /\ [][TicketNext]_ticketVars
=============================================================================
