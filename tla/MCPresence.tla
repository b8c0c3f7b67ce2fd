------------------------------- MODULE MCPresence -------------------------------
(***************************************************************************)
(* Instances of Presence for TLC.  A behaviour has one workload: the store, *)
(* the rooms that are joined, how many handlers are in flight, and which of *)
(* three things happen: failures, leaving a room, and haste.  Or it is one   *)
(* of MCUnread, what events make of the sidebar, while no socket connects.   *)
(***************************************************************************)
EXTENDS Presence, MCUnread, TLC

Alike == Permutations(Sockets) \cup Permutations(Lanes) \cup Permutations(Mails)

CONSTANT Workloads
VARIABLE workload

Workload(stores, rooms, flights, happens) ==
    [stores |-> stores, rooms |-> rooms, flights |-> flights, happens |-> happens]

AllWorkloads ==
    {Workload({"memory", "redis"}, Directs, 2, {"failures", "leaving", "haste"}),
     Workload({"memory"}, Rooms, 2, {"leaving", "haste"}),
     Workload({"memory"}, Directs, 3, {"leaving", "haste"}),
     Workload({"memory"}, Rooms, 4, {"leaving"})}
\* One handler at a time: no race is needed.
ClosingTabs == {Workload({"memory"}, Directs, 1, {})}

InFlight(s) == {h \in Handlers : h[1] = s /\ task[h] # Idle}
AllInFlight == {h \in Handlers : task[h] # Idle}
Closing == {s \in Sockets : conn[s] = "open" /\ conn'[s] = "closed"}

\* Without haste a socket sends one message at a time, and closes when all is
\* answered, or as its token is refused.
Patient ==
    /\ \A s \in Closing : InFlight(s)' \subseteq {<<s, "disconnect">>}
    /\ \A s \in Sockets : Cardinality(InFlight(s)') <= 1
Hasty == "haste" \in workload.happens

Within(load) ==
    /\ Cardinality(AllInFlight') <= load.flights
    /\ \A h \in AllInFlight' : task'[h].at = "access" => task'[h].room \in load.rooms
    /\ Hasty \/ Patient
    /\ "leaving" \in load.happens
       \/ \A h \in AllInFlight' : task'[h].at = "rooms" => h[2] = "disconnect"

PresenceInit == workload \in Workloads /\ store \in workload.stores
PresenceNext ==
    /\ reading = "none"
    /\ IF "failures" \in workload.happens THEN Next ELSE Answered
    /\ Within(workload)
NoWorkload == store = "memory" /\ workload = Workload({store}, {}, 0, {})

MCInit ==
    /\ Init /\ ReadingInit
    /\ IF reading = "none" THEN PresenceInit ELSE NoWorkload
\* What a workload of MCUnread leaves out may be all that could come next.
MCNext ==
    /\ UNCHANGED workload
    /\ \/ PresenceNext /\ UNCHANGED <<unreadVars, readingVars>>
       \/ ReadingNext /\ UNCHANGED vars
       \/ reading # "none" /\ UNCHANGED <<vars, unreadVars, readingVars>>
MCSpec == MCInit /\ [][MCNext]_<<vars, workload, unreadVars, readingVars>>

\* Without haste, and without failures, the views agree at rest.
PatientViewsAgree == Hasty \/ ViewsAgree
=============================================================================
