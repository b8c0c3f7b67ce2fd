-------------------------------- MODULE MCPages --------------------------------
(***************************************************************************)
(* Instances of Pages for TLC.  A behaviour has one workload: the kind of   *)
(* conversation, how many messages it has, which pages are shown already,   *)
(* what the users do and how often, and what else happens.                  *)
(*                                                                         *)
(* A workload is about pages or about the files of messages (Composer); in a  *)
(* behaviour of one the variables of the other stand still.  The history      *)
(* variables say where the code does not keep what the properties promise;    *)
(* nothing else reads them.                                                *)
(***************************************************************************)
EXTENDS Pages, Composer, TLC

CONSTANT Workloads
CONSTANTS u1, u2, t1, t2, t3, f1, f2, s1, s2, w1
TabUsers == [t \in {t1, t2, t3} |-> IF t = t2 THEN u2 ELSE u1]

VARIABLES
    workload,
    left,       \* how often a user may still do something
    crossed,    \* <<tab, message>>: the page may have missed, or misordered, a change
    raced,      \* <<message, the callers>> of two changes that were on their way at once
    known,      \* tab -> the messages there were when its page was read
    pinLoad,    \* tab -> the load of its pins asked for last, and the one shown last
    meant,      \* submission -> the files in the composer, less those its user took out
    crowded,    \* submissions of the group page under way with another
    sentWith,   \* message -> the keys of the files it was sent with
    moved,      \* keys a message was sent with while another had them
    late,       \* keys already old when a message in a channel was sent with them
    unlucky     \* the server died, an answer of the storage was lost, an undoing failed

pageHistory == <<crossed, raced, known, pinLoad>>
fileHistory == <<meant, crowded, sentWith, moved, late, unlucky>>
fileVars == <<files, composer, fileHistory>>
mcvars == <<vars, workload, left, pageHistory, fileVars>>

Workload(kinds, rows, shown, opening, ops, calls, happens) ==
    [about |-> "pages", kinds |-> kinds, rows |-> rows, shown |-> shown, opening |-> opening,
     ops |-> ops, calls |-> calls, happens |-> happens]

Both == {"channel", "direct"}
AllKinds == Both \cup {"group"}
PageWorkloads ==
    { \* changes of the same messages, by two users and by two tabs of one
      Workload(Both, 1, {t1, t2}, {}, {"create", "update", "remove"}, 2, {}),
      Workload(Both, 1, {t1, t2}, {}, {"addReaction", "removeReaction"}, 2, {}),
      Workload(Both, 1, {t1, t3}, {}, {"addReaction", "removeReaction"}, 2, {}),
      Workload({"group"}, 1, {t1, t2, t3}, {}, {"create"}, 1, {}),
      Workload(AllKinds, 1, {t1, t2}, {}, {"pinMessage", "unpinMessage"}, 2, {}),
      Workload({"channel"}, 2, {t1}, {}, {"pinMessage", "unpinMessage"}, 3, {"older"}),
      \* a page opens while messages come and go
      Workload(AllKinds, 1, {t2}, {t1}, {"create", "remove", "pinMessage"}, 1, {}),
      \* older messages, and a page that starts anew while it waits for them
      Workload({"channel"}, 3, {t1, t2}, {}, {"remove"}, 1, {"older"}),
      Workload({"direct"}, 2, {t1}, {}, {"create"}, 2, {"older", "refresh"}),
      \* connections and queries fail
      Workload(Both, 2, {t1, t2}, {}, {"create"}, 2, {"drops"}),
      Workload(AllKinds, 1, {t1, t2}, {}, {"update", "remove", "pinMessage"}, 2, {"faults"}),
      Workload({"channel"}, 2, {t2}, {t1}, {"update"}, 2, {"faults", "older"}),
      Workload(Both, 1, {t1, t2}, {}, {"addReaction", "remove"}, 2, {}) }

FileWorkload(places, picks, calls, happens) ==
    [about |-> "files", places |-> places, picks |-> picks, source |-> 0, taken |-> 0, at |-> "channel",
     forwarders |-> {}, calls |-> calls, happens |-> happens]
ForwardWorkload(source, taken, at, forwarders, calls, happens) ==
    [about |-> "files", places |-> {"channel"}, picks |-> {}, source |-> source, taken |-> taken, at |-> at,
     forwarders |-> forwarders, calls |-> calls, happens |-> happens]
FileWorkloads ==
    { \* two files, uploads that fail and are retried, files removed meanwhile
      FileWorkload({"direct", "group"}, {f1, f2}, 3, {"faults", "removals"}),
      FileWorkload({"direct"}, {f1, f2}, 2, {"edits"}),
      FileWorkload({"channel", "direct"}, {f1}, 4, {"faults", "days"}),
      FileWorkload({"channel"}, {f1}, 3, {"losses"}),
      ForwardWorkload(2, 0, "channel", {w1}, 4, {"faults", "losses"}),
      ForwardWorkload(2, 1, "channel", {w1}, 2, {"faults"}),
      ForwardWorkload(1, 0, "direct", {w1}, 3, {"faults", "days"}) }
TheWorkloads == PageWorkloads \cup FileWorkloads
ASSUME WorkloadsAssumption ==
    /\ u1 \in Users
    /\ \A w \in Workloads :
        /\ w.about \in {"pages", "files"}
        /\ w.about = "pages" => w.kinds \subseteq Kinds /\ w.shown \subseteq Tabs
        /\ w.about = "files" =>
            /\ "channel" \in Kinds
            /\ w.places \subseteq Places /\ w.at \in Places
            /\ w.source \in 0..MaxKeys /\ w.taken \in Nat
            /\ w.forwarders \subseteq Forwarders

-----------------------------------------------------------------------------
InFlight == {r \in Slots : ~IsFree(r)}
Starting == {r \in InFlight' \ InFlight : r[2] = "user"}
AsksFor(t) == \E what \in {"page", "older"} : ~IsFree(<<t, what>>)

\* A change of m is on its way: from its call until its caller has made something
\* of the answer.
Changing == {t \in Tabs : request[<<t, "user">>].msg # NoMsg}
Call(t) == request[<<t, "user">>]
Attentive(t, op) ==
    /\ t \in joined /\ page[t].kind = "success" /\ ~AsksFor(t)
    /\ op \in {"unpinMessage", "remove"} => \A i \in PinLoads : IsFree(<<t, i>>)
Crossing == {c \in Tabs \X {Call(t).msg : t \in Changing} :
                \E t \in Changing :
                    /\ Call(t).msg = c[2]
                    /\ \/ Call(t).reply = Refused
                       \/ ~Attentive(c[1], Call(t).op)
                       \/ \E u \in Changing \ {t} : Call(u).msg = c[2]}
Racing == {<<Call(c[1]).msg, {UserOf[c[1]], UserOf[c[2]]}>> : c \in
              {p \in Changing \X Changing : p[1] # p[2] /\ Call(p[1]).msg = Call(p[2]).msg}}
Lost == {c \in Tabs \X Msgs :
            /\ c[1] \in joined \ joined'
            /\ \E i \in DOMAIN stream[c[1]] : stream[c[1]][i].msg = c[2]}
Opened == {t \in Tabs : IsFree(<<t, "page">>) /\ ~IsFree(<<t, "page">>)'}
\* A page that is opened while older messages are on their way to it, or whose pins
\* could not be read.
Spoilt == {c \in Tabs \X {NoMsg} :
              \/ c[1] \in Opened /\ ~IsFree(<<c[1], "older">>)
              \/ \E i \in PinLoads : request[<<c[1], i>>].reply = Refused}
PinsAsked(t) == {i \in PinLoads : IsFree(<<t, i>>) /\ ~IsFree(<<t, i>>)'}
PinsShown(t) == {i \in PinLoads : /\ ~IsFree(<<t, i>>) /\ IsFree(<<t, i>>)'
                                  /\ request[<<t, i>>].reply # Refused}
Latest(S, before) == IF S = {} THEN before ELSE CHOOSE i \in S : TRUE
History ==
    \* Member by member: TLC would keep a union of unions, and search it each time.
    /\ crossed' = {c : c \in {c \in crossed : c[1] \notin Opened}
                              \cup (Lost \ (Opened \X Msgs)) \cup Crossing' \cup Spoilt}
    /\ raced' = raced \cup Racing'
    /\ known' = [t \in Tabs |->
           IF Handling(<<t, "page">>, "load", "called") /\ ~Handling(<<t, "page">>, "load", "called")'
           THEN Committed ELSE known[t]]
    /\ pinLoad' = [t \in Tabs |-> [asked |-> Latest(PinsAsked(t), pinLoad[t].asked),
                                   shown |-> Latest(PinsShown(t), pinLoad[t].shown)]]

NoLoad == [asked |-> None, shown |-> None]
ShownPage(t) ==
    LET p == PageOf(None) IN
    [kind |-> "success", cursor |-> NextCursor(p), pins |-> Pinned,
     list |-> [i \in DOMAIN p.ids |-> Entry(p.ids[i], NoReactions)]]
PagesInit ==
    /\ kind \in workload.kinds
    /\ \E createdAt \in [1..workload.rows -> Times] :
           row = Kept([m \in 1..workload.rows |-> u1], createdAt)
    /\ reaction = [i \in Rids |-> NoReaction]
    /\ request = [r \in Slots |-> IdleCall]
    /\ joined = workload.shown
    /\ stream = [t \in Tabs |-> <<>>]
    /\ page = [t \in Tabs |-> IF t \in workload.shown THEN ShownPage(t) ELSE ClosedPage]
    /\ left = workload.calls
    /\ crossed = {}
    /\ raced = {}
    /\ known = [t \in Tabs |-> IF t \in workload.shown THEN Committed ELSE {}]
    /\ pinLoad = [t \in Tabs |-> NoLoad]
NoPages ==
    /\ kind = "channel"
    /\ row = Kept(<<>>, <<>>)
    /\ reaction = [i \in Rids |-> NoReaction]
    /\ request = [r \in Slots |-> IdleCall]
    /\ joined = {}
    /\ stream = [t \in Tabs |-> <<>>]
    /\ page = [t \in Tabs |-> ClosedPage]
    /\ left = workload.calls
    /\ crossed = {} /\ raced = {} /\ known = [t \in Tabs |-> {}]
    /\ pinLoad = [t \in Tabs |-> NoLoad]
MCInit ==
    /\ workload \in Workloads
    /\ \/ workload.about = "pages" /\ PagesInit /\ FilesInit(0, "channel", 0) /\ ComposerInit({"channel"})
       \/ /\ workload.about = "files" /\ NoPages
          /\ FilesInit(workload.source, workload.at, workload.taken) /\ ComposerInit(workload.places)
    /\ meant = [s \in Submits |-> {}]
    /\ sentWith = [m \in DOMAIN post |-> FilesOf(m)]
    /\ crowded = {} /\ moved = {} /\ late = Rows \ object /\ unlucky = FALSE

Does(t) == t \in workload.shown \cup workload.opening
Budget == left > 0 /\ left' = left - 1
Step ==
    \/ \E r \in Slots : Service(r) /\ UNCHANGED left
    \/ "faults" \in workload.happens /\ Budget /\ \E r \in Slots : Fails(r)
    \/ \E t \in Tabs :
        /\ Does(t)
        /\ \/ (Join(t) \/ Event(t) \/ Answers(t)) /\ UNCHANGED left
           \/ "older" \in workload.happens /\ LoadOlderMessages(t) /\ UNCHANGED left
           \/ /\ Open(t)
              /\ \/ page[t].kind = "closed" /\ UNCHANGED left
                 \/ "refresh" \in workload.happens /\ page[t].kind # "closed" /\ Budget
           \/ "drops" \in workload.happens /\ Budget /\ Disconnect(t)
           \/ t \in workload.shown /\ Budget /\ Clicks(t) /\ \A r \in Starting : request'[r].op \in workload.ops

Happens(what) == what \in workload.happens
FilesMove ==
    \/ UNCHANGED composer /\ \E j \in JobSlots : FileService(j)
    \/ Composes
    \/ \E f \in workload.picks : AddFile(f)
    \/ Happens("removals") /\ \E f \in Files : RemoveAttachment(f)
    \/ Happens("days") /\ UNCHANGED composer /\ CleanUp
FilesTurn ==
    \/ \E f \in Files : RetryAttachment(f)
    \/ \E s \in Submits : SubmitMessage(s)
    \/ Happens("edits") /\ EditStart
    \/ \E w \in workload.forwarders, to \in Places : Forward(w, to)
    \/ Happens("faults") /\ UNCHANGED composer /\ \E j \in JobSlots : JobFails(j)
    \/ Happens("days") /\ UNCHANGED composer /\ ADayPasses
FilesSuffer ==
    /\ Happens("losses") /\ UNCHANGED composer
    /\ Crash \/ \E j \in JobSlots : StorageAnswerLost(j) \/ UndoFails(j)
FileStep ==
    \/ FilesMove /\ UNCHANGED <<left, unlucky>>
    \/ FilesTurn /\ Budget /\ UNCHANGED unlucky
    \/ FilesSuffer /\ Budget /\ unlucky' = TRUE
Submitting(s) == submit[s].at = "idle" /\ submit'[s].at # "idle"
Busy(s) == submit[s].at # "idle"
\* What the user takes out himself, or by starting an edit.
TakenOut == {f \in Files : draft[f].status # "gone" /\ draft'[f].status = "gone" /\ submit' = submit}
Wrote(j) == job[j].at = "write" /\ job'[j].at = "written"
FileHistory ==
    /\ meant' = [s \in Submits |-> IF Submitting(s) THEN InDraft(draft)
                                   ELSE IF submit[s].at = "uploads" THEN meant[s] \ TakenOut ELSE meant[s]]
    /\ crowded' = {s \in Submits : Busy(s)' /\
           (s \in crowded \/ (place = "group" /\ \E other \in Submits \ {s} : Busy(other)'))}
    /\ IF \E j \in JobSlots : Wrote(j)
       THEN LET j == CHOOSE j \in JobSlots : Wrote(j)
                keys == IF j \in Submits \ crowded THEN {draft[f].key : f \in meant[j]} ELSE job[j].keys IN
            /\ sentWith' = [m \in DOMAIN post' |-> IF m \in DOMAIN post THEN sentWith[m] ELSE keys]
            /\ moved' = moved \cup {k \in keys \cap Rows : fileRow[k] # NoPost}
            /\ late' = late \cup {k \in keys \cap aged : job[j].place = "channel"}
       ELSE UNCHANGED <<sentWith, moved, late>>

MCNext ==
    /\ UNCHANGED workload
    /\ \/ workload.about = "pages" /\ Step /\ History /\ UNCHANGED fileVars
       \/ workload.about = "files" /\ FileStep /\ FileHistory /\ UNCHANGED <<vars, pageHistory>>
MCSpec == MCInit /\ [][MCNext]_mcvars

FairSpec == MCSpec /\ Fairness

-----------------------------------------------------------------------------
EntryType == [id: Msgs, author: Users, content: Contents, pinned: BOOLEAN,
              reactions: [Emojis -> [count: Nat, mine: BOOLEAN]]]
Key == [createdAt: Times, id: Msgs]

\* What each variable holds.
TypeOK ==
    /\ kind \in Kinds
    /\ row \in [Msgs -> MessageRow]
    /\ reaction \in [Rids -> ReactionRow]
    /\ \A r \in Slots : request[r].msg \in Msgs \cup {NoMsg}
    /\ joined \subseteq Tabs
    /\ \A t \in Tabs :
        /\ page[t].kind \in {"closed", "loading", "success", "error"}
        /\ page[t].kind # "success" => page[t].list = <<>>
        /\ \A i \in DOMAIN page[t].list : page[t].list[i] \in EntryType
        /\ page[t].cursor = None \/ page[t].cursor \in Key
        /\ page[t].pins \subseteq Msgs
    /\ object \subseteq Keys /\ aged \subseteq Keys /\ Rows \subseteq Keys
    /\ \A k \in Rows : fileRow[k] \in DOMAIN post \cup {NoPost}
    /\ \A m \in DOMAIN post : post[m] \in Places
    /\ \A j \in JobSlots :
        /\ job[j].keys \subseteq Keys /\ job[j].reply \in {"none", "done", "refused"}
        /\ job[j].at = "answered" <=> job[j].reply # "none"
    /\ sendState \in {"idle", "loading", "error"}
    /\ \A f \in Files : draft[f].status \in {"new", "ready", "uploading", "uploaded", "failed", "gone"}

Whole(t) == <<t, NoMsg>> \notin crossed
Uncrossed(t, m) == <<t, m>> \notin crossed /\ Whole(t)
InView(t, m) == page[t].cursor = None \/ ~Before(KeyOf(m), page[t].cursor)

\* Paging by cursor (docs/b216-message-pagination.md: no duplicates and no gaps):
\* a page that goes back shows, down to its cursor, every live message there was
\* when it was loaded, and none twice, although messages with equal timestamps,
\* new ones, deletions and events come between its calls.
PagesSkipNothing ==
    \A t \in Tabs : page[t].kind = "success" =>
        /\ \A m \in known[t] : Live(m) /\ InView(t, m) /\ Whole(t) => Shows(page[t], m)
        /\ \A i, j \in DOMAIN page[t].list :
               i # j => page[t].list[i].id # page[t].list[j].id

\* A group page leaves out what its user sent from another of his tabs.
OwnElsewhere(t, m) == kind = "group" /\ row[m].author = UserOf[t]
\* Only the channel page understands what it is told of pins; an edit tells every
\* page the reactions as its author sees them.
Agrees(t, m, e) ==
    /\ e.content = row[m].content
    /\ kind = "channel" => e.pinned = row[m].pinned
    /\ \A emoji \in Emojis :
        LET is == Summary(m, UserOf[t])[emoji] IN
        /\ e.reactions[emoji].count = is.count
        /\ "update" \notin workload.ops => e.reactions[emoji].mine = is.mine
ShowsLatestPins(t) == pinLoad[t].shown = pinLoad[t].asked
Quiet == InFlight = {} /\ \A t \in Tabs : stream[t] = <<>>

\* Once nothing is on its way, all pages in the room show the conversation as it is
\* (docs/architecture.md: REST persists, WebSocket notifies), in whatever order
\* answers and events came: what is live and nothing else, the text, the counts and
\* one's own reactions, the pins.  Except where changes of one message overlapped,
\* or a page was away, loading, or a query failed, while a message changed; and the
\* list of pins only where the load asked for last was shown last: a page keeps the
\* answer that comes last, even to a load it asked for earlier.
FeedsAgree ==
    Quiet => \A t \in joined : \A m \in Committed :
        page[t].kind = "success" /\ Uncrossed(t, m) =>
            /\ Shows(page[t], m) => Live(m) /\ Agrees(t, m, EntryShown(page[t], m))
            /\ Live(m) /\ InView(t, m) /\ ~OwnElsewhere(t, m) => Shows(page[t], m)
            /\ m \in page[t].pins => Live(m)
            /\ kind = "channel" /\ ShowsLatestPins(t) => (m \in page[t].pins <=> m \in Pinned)

\* Two things the services keep although they read an await before they write,
\* unless two calls about the message overlapped: a user has one reaction to a
\* message (docs/project-status.md: one per user); what is pinned has not been
\* deleted (otherwise the pin is written after the deletion took the pins away, and
\* stays).
OneReactionPinsLive ==
    \A m \in Msgs :
        /\ \A u \in Users : <<m, {u}>> \notin raced =>
               Cardinality({e \in Emojis : Active(m, u, e) # {}}) <= 1
        /\ m \in Pinned => Live(m) \/ \E c \in raced : c[1] = m

\* A page in the room that does not show a message, or still shows a deleted one,
\* catches up without doing anything: the handlers finish and the events arrive.
Following(t, m) == t \in joined /\ page[t].kind = "success" /\ Uncrossed(t, m)
                   /\ ~OwnElsewhere(t, m)
Behind == \E t \in Tabs, m \in Committed :
             Following(t, m) /\ InView(t, m) /\ ~(Shows(page[t], m) <=> Live(m))
PagesCatchUp == Behind ~> ~Behind

-----------------------------------------------------------------------------
\* A message keeps the files its author saw in the composer when he submitted, less
\* those he took out himself, or that were copied for it: their rows stay with it and
\* their objects are stored, whatever fails, is retried, forwarded or cleaned up.
\* Except, in a channel, a file uploaded so long before that the clean-up script may
\* have taken it; and, in a group, when Enter was pressed again while a message was
\* being sent: that may send other files, and files sent twice go to the later one.
MessagesKeepFiles ==
    \A m \in DOMAIN post : \A k \in sentWith[m] :
        /\ k \in object \/ k \in late
        /\ k \in Rows /\ (fileRow[k] = m \/ (post[m] = "group" /\ k \in moved))

\* A forward that fails takes back what it has done (forward.service.spec.ts: deletes
\* copied objects, removes unattached rows, keeps what is still referenced): unless
\* the undoing itself failed, every copy stored and every row of one is part of a
\* message, or of a forward that is not finished.
Held(k) == \E w \in Forwarders : Running(w) /\ k \in job[w].keys
NothingLeftBehind ==
    ~unlucky => \A k \in object \cup Rows :
        k[1] = "forwarded" /\ ~Held(k) => k \in object /\ k \in Rows /\ fileRow[k] # NoPost
=============================================================================
