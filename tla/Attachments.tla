------------------------------ MODULE Attachments ------------------------------
(***************************************************************************)
(* Files of messages: the objects in the storage bucket, the rows of        *)
(* Attachment, and who writes them: the upload endpoints, the creation of    *)
(* a message with files, forwarding (forward.service.ts), which copies the   *)
(* objects first, and the operator's clean-up script                        *)
(* (scripts/cleanup-orphaned-attachments.mjs).  Nothing ties an object to    *)
(* its row but the order in which they are written and taken back.          *)
(*                                                                         *)
(* A storage key is drawn for every upload and every copy (randomUUID); its  *)
(* prefix says which.  A row is known by its key, which is unique.  An        *)
(* upload has its row at once for a direct message or a group, but only      *)
(* with the message for a channel.  A message always has a text too; what a  *)
(* call may refuse for other reasons (access, limits of size) is a fault.    *)
(***************************************************************************)
EXTENDS Naturals, FiniteSets, Functions

CONSTANTS
    JobSlots,   \* the calls a server may be at
    MaxKeys,    \* keys drawn in a behaviour, at most
    MaxPosts,   \* messages written in a behaviour, at most
    NoPost      \* of a row without a message

ASSUME FilesAssumption ==
    /\ MaxKeys \in Nat /\ MaxPosts \in Nat \ {0}
    /\ NoPost \notin 1..MaxPosts

Prefixes == {"attachments", "forwarded"}
Keys == Prefixes \X (1..MaxKeys)
Places == {"channel", "direct", "group"}

VARIABLES
    object,     \* the keys stored in the bucket
    aged,       \* keys whose object is, or was, older than the age the script cleans up at
    fileRow,    \* the rows of Attachment: key -> its message, or NoPost
    post,       \* the messages written: number -> where it is
    drawn,      \* how many keys have been drawn
    job,        \* slot -> the call and how far it is
    script      \* the clean-up script: how far, and the keys it is about to delete

files == <<object, aged, fileRow, post, drawn, job, script>>
storage == <<object, aged, drawn>>

Rows == DOMAIN fileRow
NextPost == Cardinality(DOMAIN post) + 1
FilesOf(m) == {k \in Rows : fileRow[k] = m}

IdleJob == [op |-> "none", at |-> "idle", place |-> "channel", todo |-> {},
            keys |-> {}, reply |-> "none"]
At(j, op, at) == job[j].op = op /\ job[j].at = at
Running(j) == job[j].at \notin {"idle", "answered"}
GoesOn(j, at) == job' = [job EXCEPT ![j].at = at]
Replies(j, reply) == job' = [job EXCEPT ![j].at = "answered", ![j].reply = reply]

\* A call of the page: todo are the keys sent along or, of a forward, what to copy.
CallsFor(op, place, todo) == [IdleJob EXCEPT !.op = op, !.at = "called", !.place = place, !.todo = todo]

\* A message with n files is there already, unless n is 0; the clean-up script has
\* taken the objects of some of them.
FilesInit(n, at, taken) ==
    LET keys == {<<"attachments", i>> : i \in 1..n} IN
    /\ object = {k \in keys : k[2] > taken}
    /\ aged = {}
    /\ fileRow = [k \in keys |-> 1]
    /\ post = [m \in {i \in {1} : n > 0} |-> at]
    /\ drawn = n
    /\ job = [j \in JobSlots |-> IdleJob]
    /\ script = [at |-> "idle", keys |-> {}]

-----------------------------------------------------------------------------
(***************************************************************************)
(* Uploads.                                                                *)
(***************************************************************************)
Stores(key) == drawn < MaxKeys /\ drawn' = drawn + 1 /\ object' = object \cup {key}
CreateRows(keys, m) == fileRow' = [k \in Rows \cup keys |-> IF k \in keys THEN m ELSE fileRow[k]]

PutObject(j) ==
    /\ At(j, "upload", "called")
    /\ LET key == <<"attachments", drawn + 1>> IN
       /\ Stores(key)
       /\ job' = [job EXCEPT ![j].at = "stored", ![j].keys = {key}]
    /\ UNCHANGED <<aged, fileRow, post, script>>
CreateUnattachedAttachment(j) ==
    /\ At(j, "upload", "stored")
    /\ IF job[j].place = "channel" THEN UNCHANGED fileRow ELSE CreateRows(job[j].keys, NoPost)
    /\ Replies(j, "done")
    /\ UNCHANGED <<storage, post, script>>

-----------------------------------------------------------------------------
(***************************************************************************)
(* A message with files, of a page or of a forward.  A direct message or    *)
(* one in a group looks for its rows first, and writes an await later,      *)
(* without looking again.  Between the transaction and the answer the        *)
(* service still awaits.                                                   *)
(***************************************************************************)
Sending(j, at) == job[j].op \in {"send", "forward"} /\ job[j].at = at
GivesUpRows(j) == IF job[j].op = "forward" THEN GoesOn(j, "undoObjects") ELSE Replies(j, "refused")
\* What a call does when it cannot go on: a forward takes back what it has done.
GivesUp(j) == IF job[j].op = "forward" THEN GoesOn(j, "undoRows") ELSE Replies(j, "refused")

StartsSending(j) ==
    /\ At(j, "send", "called")
    /\ job' = [job EXCEPT ![j].at = "check", ![j].keys = job[j].todo]
    /\ UNCHANGED <<storage, fileRow, post, script>>
FindUnattachedAttachments(j) ==
    /\ Sending(j, "check")
    /\ IF job[j].place # "channel" /\ \E k \in job[j].keys : k \notin Rows \/ fileRow[k] # NoPost
       THEN GivesUp(j) ELSE GoesOn(j, "write")
    /\ UNCHANGED <<storage, fileRow, post, script>>
Write(j, m) ==
    LET j0 == job[j] IN
    /\ post' = [i \in DOMAIN post \cup {m} |-> IF i = m THEN j0.place ELSE post[i]]
    /\ IF j0.place = "channel" THEN CreateRows(j0.keys, m)
       ELSE fileRow' = [k \in Rows |-> IF k \in j0.keys THEN m ELSE fileRow[k]]
CreateWithFiles(j) ==
    /\ Sending(j, "write")
    /\ IF job[j].place = "channel" /\ job[j].keys \cap Rows # {}
       THEN GivesUp(j) /\ UNCHANGED <<fileRow, post>>
       ELSE NextPost <= MaxPosts /\ Write(j, NextPost) /\ GoesOn(j, "written")
    /\ UNCHANGED <<storage, script>>
AnswersSent(j) ==
    /\ Sending(j, "written")
    /\ Replies(j, "done")
    /\ UNCHANGED <<storage, fileRow, post, script>>

-----------------------------------------------------------------------------
(***************************************************************************)
(* A forward: the objects one after the other, then rows for the copies      *)
(* (direct, group), then the message.  Whatever fails, the copies go again,  *)
(* unless a row refers to them.                                             *)
(***************************************************************************)
LoadSourceMessage(j, m) ==
    /\ At(j, "forward", "called")
    /\ job' = [job EXCEPT ![j].at = "copy", ![j].todo = FilesOf(m)]
    /\ UNCHANGED <<storage, fileRow, post, script>>
CopyObject(j, k) ==
    /\ At(j, "forward", "copy") /\ k \in job[j].todo
    /\ IF k \in object
       THEN LET copy == <<"forwarded", drawn + 1>> IN
            /\ Stores(copy)
            /\ job' = [job EXCEPT ![j].todo = @ \ {k}, ![j].keys = @ \cup {copy}]
       ELSE GoesOn(j, "discard") /\ UNCHANGED <<object, drawn>>
    /\ UNCHANGED <<aged, fileRow, post, script>>
AllCopied(j) == At(j, "forward", "copy") /\ job[j].todo = {}
CreateUnattachedAttachmentRecords(j) ==
    /\ AllCopied(j)
    /\ IF job[j].place = "channel" THEN UNCHANGED fileRow ELSE CreateRows(job[j].keys, NoPost)
    /\ GoesOn(j, "check")
    /\ UNCHANGED <<storage, post, script>>

DeleteCopiedObject(j, k) ==
    /\ At(j, "forward", "discard") /\ k \in job[j].keys
    /\ object' = object \ {k}
    /\ job' = [job EXCEPT ![j].keys = @ \ {k}]
    /\ UNCHANGED <<aged, drawn, fileRow, post, script>>
DeleteUnattachedRows(j) ==
    /\ At(j, "forward", "undoRows")
    /\ LET loose == {k \in job[j].keys \cap Rows : fileRow[k] = NoPost} IN
       fileRow' = Restrict(fileRow, Rows \ loose)
    /\ GoesOn(j, "undoObjects")
    /\ UNCHANGED <<storage, post, script>>
DeleteCopyUncounted(j, k) ==
    /\ At(j, "forward", "undoObjects") /\ k \in job[j].keys
    /\ object' = object \ {k}
    /\ job' = [job EXCEPT ![j].keys = @ \ {k}]
    /\ UNCHANGED <<aged, drawn, fileRow, post, script>>
\* The rows are counted and the object is deleted an await later; nobody else
\* knows the key.
DeleteUnreferencedCopy(j, k) ==
    /\ At(j, "forward", "undoObjects") /\ k \in job[j].keys
    /\ object' = IF k \in Rows THEN object ELSE object \ {k}
    /\ job' = [job EXCEPT ![j].keys = @ \ {k}]
    /\ UNCHANGED <<aged, drawn, fileRow, post, script>>
UndoneAll(j) ==
    /\ At(j, "forward", "discard") \/ At(j, "forward", "undoObjects")
    /\ job[j].keys = {}
    /\ Replies(j, "refused")
    /\ UNCHANGED <<storage, fileRow, post, script>>

-----------------------------------------------------------------------------
(***************************************************************************)
(* Failures: a call of the storage or the database rejects.                 *)
(***************************************************************************)
JobFails(j) ==
    /\ \/ job[j].op \in {"upload", "send"} /\ Running(j) /\ Replies(j, "refused")
       \/ At(j, "forward", "called") /\ Replies(j, "refused")
       \/ At(j, "forward", "copy") /\ ~AllCopied(j) /\ GoesOn(j, "discard")
       \/ (AllCopied(j) \/ \E at \in {"check", "write", "written"} : At(j, "forward", at)) /\ GivesUp(j)
    /\ UNCHANGED <<storage, fileRow, post, script>>
\* The storage has done what it was asked for, but its answer is lost.
StorageAnswerLost(j) ==
    /\ \/ /\ At(j, "upload", "called") /\ Stores(<<"attachments", drawn + 1>>) /\ Replies(j, "refused")
       \/ /\ At(j, "forward", "copy") /\ ~AllCopied(j)
          /\ Stores(<<"forwarded", drawn + 1>>) /\ GoesOn(j, "discard")
    /\ UNCHANGED <<aged, fileRow, post, script>>
\* A failure of the undoing is swallowed.
UndoFails(j) ==
    /\ \/ At(j, "forward", "undoRows") /\ GoesOn(j, "undoObjects")
       \/ /\ At(j, "forward", "discard") \/ At(j, "forward", "undoObjects")
          /\ \E k \in job[j].keys : job' = [job EXCEPT ![j].keys = @ \ {k}]
    /\ UNCHANGED <<storage, fileRow, post, script>>
\* The process dies: its callers see the connection fail.
Crash ==
    /\ \E j \in JobSlots : Running(j)
    /\ job' = [j \in JobSlots |->
                  IF Running(j) THEN [job[j] EXCEPT !.at = "answered", !.reply = "refused"] ELSE job[j]]
    /\ UNCHANGED <<storage, fileRow, post, script>>

-----------------------------------------------------------------------------
(***************************************************************************)
(* The clean-up script: the old objects, then the rows, then the objects      *)
(* without a row.  No call and no run of the script takes so long that        *)
(* objects grow old meanwhile; a page that is left open may.                 *)
(***************************************************************************)
ADayPasses ==
    /\ ~(object \subseteq aged) /\ script.at = "idle"
    /\ \A j \in JobSlots : job[j].at = "idle"
    /\ aged' = aged \cup object
    /\ UNCHANGED <<object, drawn, fileRow, post, job, script>>
ListAllObjects ==
    /\ script.at = "idle"
    /\ script' = [at |-> "listed", keys |-> object \cap aged]
    /\ UNCHANGED <<storage, fileRow, post, job>>
FetchDbKeys ==
    /\ script.at = "listed"
    /\ script' = [at |-> "deleting", keys |-> script.keys \ Rows]
    /\ UNCHANGED <<storage, fileRow, post, job>>
DeleteOrphan ==
    /\ script.at = "deleting"
    /\ \E k \in script.keys :
        /\ object' = object \ {k}
        /\ script' = [script EXCEPT !.keys = @ \ {k}]
    /\ UNCHANGED <<aged, drawn, fileRow, post, job>>
ScriptEnds ==
    /\ script.at = "deleting" /\ script.keys = {}
    /\ script' = [script EXCEPT !.at = "idle"]
    /\ UNCHANGED <<storage, fileRow, post, job>>
CleanUp == ListAllObjects \/ FetchDbKeys \/ DeleteOrphan \/ ScriptEnds

-----------------------------------------------------------------------------
Forwards(j) ==
    \/ \E m \in DOMAIN post : post[m] # job[j].place /\ LoadSourceMessage(j, m)
    \/ \E k \in Keys : CopyObject(j, k) \/ DeleteCopiedObject(j, k) \/ DeleteUnreferencedCopy(j, k)
    \/ CreateUnattachedAttachmentRecords(j) \/ DeleteUnattachedRows(j) \/ UndoneAll(j)
FileService(j) ==
    \/ PutObject(j) \/ CreateUnattachedAttachment(j)
    \/ StartsSending(j) \/ FindUnattachedAttachments(j) \/ CreateWithFiles(j) \/ AnswersSent(j)
    \/ Forwards(j)
=============================================================================
