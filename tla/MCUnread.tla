-------------------------------- MODULE MCUnread --------------------------------
(***************************************************************************)
(* Instances of Unread for TLC.  A behaviour has one of three workloads:    *)
(*   "reading"  what the page shows and marks, the sidebar's socket down;   *)
(*   "line"     what the sidebar shows while its socket comes and goes;      *)
(*   "page"     what it shows while the conversation is opened and left.     *)
(* Each leaves out, one by one, the steps after which the code promises      *)
(* nothing.                                                                *)
(***************************************************************************)
EXTENDS Unread

CONSTANT ReadingLoads
VARIABLES
    reading,   \* the workload, or "none"
    seen,      \* history: messages the page has shown
    missed     \* history: messages of which an open page was told in vain

readingVars == <<reading, seen, missed>>

AllReadingLoads == {"none", "reading", "line", "page"}
PlacesOf(load) == IF load = "line" THEN {"channel", "direct", "group"}
                  ELSE IF load = "none" THEN {"channel"} ELSE {"channel", "direct"}

Unannounced == announce \cup {m \in Mails : mail[m].at = "begun"}
OnTheWay == Unannounced \cup {toBar[i] : i \in DOMAIN toBar}
Removing == {m \in Mails : mail[m].at \in {"last", "notLast"} /\ Lives(m)}
Marking == \E p \in Pages : mark[p] # "none"

\* What a step does.
ToldNow == announce \ announce'
HeardNow == toThread \ toThread'
Leaves == thread.kind # "closed" /\ thread'.kind = "closed"
Drops == line # "down" /\ line' = "down"
Overtakes == Len(lists') < Len(lists) /\ lists' # Tail(lists)

-----------------------------------------------------------------------------
(***************************************************************************)
(* Reading.  The page is left out whose load failed and that marks all the   *)
(* same (direct and group), and the mark that is kept when its page is left. *)
(***************************************************************************)
KeepsMark == \E p \in Pages : mark[p] = "asked" /\ mark'[p] = "served"
Careful ==
    /\ KeepsMark /\ place # "channel" => thread.kind = "success"
    /\ Leaves => ~Marking /\ thread.call = "none"
    /\ Removing' = {} /\ Cardinality({m \in Mails : mail'[m].mine}) <= 1
    /\ line' = "down"
    /\ Len(lists') <= 1 /\ (lists # <<>> => lists' # lists)
    /\ \A i \in DOMAIN lists' : lists'[i].at # "served"

\* Told in vain: before the page is in the room, before it has loaded, or as it goes.
History ==
    /\ seen' = seen \cup thread'.shows
    /\ missed' = missed \cup {m \in ToldNow : thread.kind # "closed" /\ ~inThread}
                        \cup {m \in HeardNow : thread.kind # "success"}
                        \cup (IF Leaves THEN Unannounced \cup HeardNow ELSE {})

-----------------------------------------------------------------------------
(***************************************************************************)
(* The badge.  Left out are: an answer that overtakes an earlier one, a      *)
(* message told to a socket that is open and does not hear it, or to none    *)
(* at all when connecting reads nothing, one lost on the line, and one       *)
(* deleted of which nobody is told.                                        *)
(***************************************************************************)
Heard == Hears \/ (line = "down" /\ place # "group")
Untold(m) == mail'[m].deleted /\ mail[m].at = "notLast" /\ ~mail[m].mine
Calm ==
    /\ ~Overtakes
    /\ ToldNow # {} => Heard
    /\ Drops => OnTheWay = {}
    /\ \A m \in Removing : ~Untold(m)

\* Of a channel, counted up by events: messages that cross a read of the list or
\* a mark, or come while the page is open (which does not mark them), and one
\* of the same millisecond as a mark.
Uncrossed ==
    /\ OnTheWay' # {} => lists' = <<>> /\ ~Marking' /\ thread'.kind = "closed"
    /\ Marking' => lists' = <<>>
    /\ \A m \in Mails : mail'[m].at # mail[m].at => mail'[m].createdAt > lastReadAt

OnLine == thread' = Closed /\ clock' = clock
OnPage ==
    /\ ~Drops /\ Removing' = {} /\ Len(lists') <= 1
    /\ line # "ready" => UNCHANGED <<mailVars, threadVars>>
    /\ thread.call # "none" => thread' # thread
    /\ ~inThread' /\ thread'.call # "failed"
    /\ \A i \in DOMAIN lists' : lists'[i].at # "failed"

-----------------------------------------------------------------------------
ReadingInit ==
    /\ UnreadInit
    /\ reading \in ReadingLoads /\ place \in PlacesOf(reading)
    /\ seen = {} /\ missed = {}
ReadingNext ==
    /\ reading # "none" /\ UNCHANGED reading
    /\ UnreadNext
    /\ IF reading = "reading" THEN Careful /\ History
       ELSE /\ Calm /\ UNCHANGED <<seen, missed>>
            /\ place = "channel" => Uncrossed
            /\ IF reading = "line" THEN OnLine ELSE OnPage

\* What counts as read was seen.  A message of another that is older than the read
\* mark was shown by a page, or an open page is to be told of it or was told in
\* vain: a conversation's page (page.tsx) marks what it has loaded or heard,
\* although its calls are coalesced and a message may be dated before the mark
\* and kept after it.
ReadIsSeen ==
    reading = "reading" =>
        \A m \in Mails :
            Lives(m) /\ ~mail[m].mine /\ mail[m].createdAt < lastReadAt
                => m \in seen \cup missed \cup announce \cup toThread

\* The sidebar's badge (Sidebar.tsx) is the API's count whenever nothing is in
\* flight, through reconnections, failed reads, own messages, deletions and marks.
NothingInFlight ==
    /\ lists = <<>> /\ OnTheWay = {} /\ Removing = {} /\ ~Marking
BadgeIsTheCount ==
    reading \in {"line", "page"} /\ NothingInFlight /\ line = "ready" /\ bar.kind = "success"
        => bar.count = CountUnread
=============================================================================
