------------------------------ MODULE PageProofs ------------------------------
(*****************************************************************************)
(* Proofs about MCPages, for any files, submissions, forward dialogs, users, *)
(* tabs, messages and workloads: who makes which calls with which keys; that *)
(* a forward that fails takes back what it has done; that a message keeps    *)
(* the files it was sent with; and, last, that a user has one reaction to a  *)
(* message and that what is pinned has not been deleted.                     *)
(*                                                                           *)
(* That messages keep their files rests on four invariants: what the page    *)
(* knows of its calls (PageKnown), what the calls hold in the storage and    *)
(* the table (Holds), that only files that are stored are sent (SoundKeys),  *)
(* and that a file is taken from a message only where the property says so   *)
(* (Unsent, SentKept).  The last section rests on RInv.                      *)
(*****************************************************************************)
EXTENDS MCPages, FiniteSetTheorems, TLAPS

USE FilesAssumption, ComposerAssumption
\* What a key may be; a file that is not uploaded yet has none.
KeySpace == Prefixes \X (Nat \ {0})
NoKey == <<"attachments", 0>>
Ops == {"none", "upload", "send", "forward"}
Stages == {"idle", "called", "stored", "check", "write", "written", "copy", "discard",
           "undoRows", "undoObjects", "answered"}
JobRecord == [op : Ops, at : Stages, place : Places, todo : SUBSET KeySpace,
              keys : SUBSET KeySpace, reply : {"none", "done", "refused"}]
ScriptRecord == [at : {"idle", "listed", "deleting"}, keys : SUBSET KeySpace]
DraftRecord == [status : {"new", "ready", "uploading", "uploaded", "failed", "gone"}, key : KeySpace]
               \cup [status : {"new", "ready", "uploading", "failed", "gone"}, key : {NoKey}]
SubmitRecord == [at : {"idle", "uploads", "sending"}, needs : SUBSET Files, ok : BOOLEAN]

\* What the bucket and the tables hold; no key is there before it is drawn.
TablesTyped ==
    /\ object \subseteq KeySpace /\ aged \subseteq KeySpace /\ Rows \subseteq KeySpace
    /\ drawn \in 0..MaxKeys
    /\ \A k \in object \cup Rows \cup aged : k[2] <= drawn
    /\ \E n \in 1..MaxPosts : DOMAIN post = 1..n \/ DOMAIN post = {}
    /\ \A m \in DOMAIN post : post[m] \in Places
    /\ \A k \in Rows : fileRow[k] \in DOMAIN post \cup {NoPost}
FilesTyped ==
    /\ TablesTyped
    /\ job \in [JobSlots -> JobRecord]
    /\ script \in ScriptRecord
ComposerTyped ==
    /\ place \in Places
    /\ draft \in [Files -> DraftRecord]
    /\ submit \in [Submits -> SubmitRecord]
    /\ editing \in BOOLEAN /\ sendState \in {"idle", "loading", "error"}

\* A key drawn so far, for an upload or for a copy.
Upload(k) == k[1] = "attachments" /\ k[2] <= drawn
Copy(k) == k[1] = "forwarded" /\ k[2] <= drawn

\* Who makes which calls, and with which keys.
KnownCall(j, q) ==
    /\ q.at = "idle" => q = IdleJob
    /\ q.at # "idle" =>
        \/ /\ j \in Files /\ q.op = "upload" /\ q.at \in {"called", "stored", "answered"}
           /\ q.at = "stored" \/ q.reply = "done" => q.keys # {}
        \/ /\ j \in Submits /\ q.op = "send"
           /\ q.at \in {"called", "check", "write", "written", "answered"}
        \/ /\ j \in Forwarders /\ q.op = "forward" /\ q.at # "stored"
    /\ q.at = "answered" <=> q.reply # "none"
    /\ q.op = "forward" => \A k \in q.keys : Copy(k)
    /\ q.op # "forward" => \A k \in q.keys \cup q.todo : Upload(k)
JobKnown(j) == KnownCall(j, job[j])
KeysDrawn ==
    /\ \A k \in script.keys : k[2] <= drawn
    /\ \A f \in Files : Upload(draft[f].key)
FilesKnown == \A j \in JobSlots : JobKnown(j)
FInv == FilesTyped /\ ComposerTyped /\ FilesKnown /\ KeysDrawn

-----------------------------------------------------------------------------
\* A call goes on: what becomes of it, and nothing of the others.
Moves(j, at, todo, keys, reply) ==
    /\ job' \in [JobSlots -> JobRecord]
    /\ job'[j].op = job[j].op /\ job'[j].place = job[j].place
    /\ job'[j].at = at /\ job'[j].todo = todo /\ job'[j].keys = keys /\ job'[j].reply = reply
    /\ \A i \in JobSlots \ {j} : job'[i] = job[i]

LEMMA MovesTo ==
    ASSUME FilesTyped, NEW j \in JobSlots, NEW q \in JobRecord,
           q.op = job[j].op, q.place = job[j].place, job' = [job EXCEPT ![j] = q]
    PROVE  Moves(j, q.at, q.todo, q.keys, q.reply)
BY DEF FilesTyped, Moves

LEMMA GoesOnMoves ==
    ASSUME FilesTyped, NEW j \in JobSlots, NEW at \in Stages, GoesOn(j, at)
    PROVE  Moves(j, at, job[j].todo, job[j].keys, job[j].reply)
<1> DEFINE q == [job[j] EXCEPT !.at = at]
<1>1. job[j] \in JobRecord
  BY DEF FilesTyped
<1>2. /\ q \in JobRecord /\ q.op = job[j].op /\ q.place = job[j].place
      /\ q.at = at /\ q.todo = job[j].todo /\ q.keys = job[j].keys /\ q.reply = job[j].reply
  BY <1>1 DEF JobRecord
<1>3. job' = [job EXCEPT ![j] = q]
  BY DEF GoesOn
<1> HIDE DEF q
<1> QED BY <1>2, <1>3, MovesTo

LEMMA RepliesMoves ==
    ASSUME FilesTyped, NEW j \in JobSlots, NEW reply \in {"done", "refused"}, Replies(j, reply)
    PROVE  Moves(j, "answered", job[j].todo, job[j].keys, reply)
<1> DEFINE q == [job[j] EXCEPT !.at = "answered", !.reply = reply]
<1>1. job[j] \in JobRecord
  BY DEF FilesTyped
<1>2. /\ q \in JobRecord /\ q.op = job[j].op /\ q.place = job[j].place
      /\ q.at = "answered" /\ q.todo = job[j].todo /\ q.keys = job[j].keys /\ q.reply = reply
  BY <1>1 DEF JobRecord, Stages
<1>3. job' = [job EXCEPT ![j] = q]
  BY DEF Replies
<1> HIDE DEF q
<1> QED BY <1>2, <1>3, MovesTo

\* The other calls are as they were, when no key they know is forgotten.
LEMMA OthersKnown ==
    ASSUME FInv, NEW j \in JobSlots, NEW at, NEW todo, NEW keys, NEW reply,
           Moves(j, at, todo, keys, reply), drawn' \in Nat, drawn <= drawn', JobKnown(j)'
    PROVE  FilesKnown'
<1> SUFFICES ASSUME NEW i \in JobSlots, i # j PROVE JobKnown(i)'
  BY DEF FilesKnown
<1>1. job'[i] = job[i]
  BY DEF Moves
<1>2. \A k \in KeySpace : k[2] \in Nat
  BY DEF KeySpace
<1>3. \A k \in KeySpace : (Copy(k) => Copy(k)') /\ (Upload(k) => Upload(k)')
  BY <1>2 DEF Copy, Upload, FInv, FilesTyped, TablesTyped
<1>4. job[i].keys \subseteq KeySpace /\ job[i].todo \subseteq KeySpace
  BY DEF FInv, FilesTyped, JobRecord
<1>5. JobKnown(i)
  BY DEF FInv, FilesKnown
<1> QED BY <1>1, <1>3, <1>4, <1>5 DEF JobKnown, KnownCall

LEMMA Drawing ==
    ASSUME FInv, drawn' \in Nat, drawn <= drawn', UNCHANGED <<composer, script>>
    PROVE  KeysDrawn'
<1>1. \A k \in KeySpace \cup {NoKey} : k[2] \in Nat
  BY DEF KeySpace, NoKey
<1>2. script.keys \subseteq KeySpace /\ \A f \in Files : draft[f].key \in KeySpace \cup {NoKey}
  BY DEF FInv, FilesTyped, ComposerTyped, ScriptRecord, DraftRecord
<1> QED BY <1>1, <1>2 DEF FInv, FilesTyped, TablesTyped, KeysDrawn, Upload, composer

\* What is left to show of a step of one call.
LEMMA MoveKeeps ==
    ASSUME FInv, UNCHANGED <<composer, script>>, NEW j \in JobSlots,
           NEW at, NEW todo, NEW keys, NEW reply, Moves(j, at, todo, keys, reply),
           TablesTyped', drawn <= drawn', JobKnown(j)'
    PROVE  FInv'
<1>1. drawn' \in Nat
  BY DEF TablesTyped
<1>2. FilesKnown' /\ KeysDrawn'
  BY <1>1, OthersKnown, Drawing
<1>3. FilesTyped'
  BY DEF FInv, FilesTyped, Moves
<1>4. ComposerTyped'
  BY DEF FInv, ComposerTyped, composer
<1> QED BY <1>2, <1>3, <1>4 DEF FInv

LEMMA TablesStay ==
    ASSUME TablesTyped, UNCHANGED <<storage, fileRow, post>>
    PROVE  TablesTyped' /\ drawn <= drawn'
BY DEF TablesTyped, storage, Rows

LEMMA KnownJob ==
    ASSUME FInv, NEW j \in JobSlots
    PROVE  JobKnown(j) /\ job[j] \in JobRecord /\ TablesTyped /\ FilesTyped /\ drawn \in Nat
           /\ job[j].keys \subseteq KeySpace /\ job[j].todo \subseteq KeySpace
BY DEF FInv, FilesKnown, FilesTyped, TablesTyped, JobRecord

\* A call that only goes on, with the keys it has.
LEMMA GoingOnKeeps ==
    ASSUME FInv, UNCHANGED <<composer, script, storage, fileRow, post>>, NEW j \in JobSlots,
           NEW at \in Stages, GoesOn(j, at), at \notin {"idle", "answered", "stored"},
           \/ job[j].op = "forward" /\ Running(j)
           \/ job[j].op = "send" /\ Running(j) /\ at \in {"check", "write", "written"}
    PROVE  FInv'
<1>1. Moves(j, at, job[j].todo, job[j].keys, job[j].reply)
  BY KnownJob, GoesOnMoves
<1>2. TablesTyped' /\ drawn' = drawn
  BY KnownJob, TablesStay DEF storage
<1>3. JobKnown(j)'
  BY <1>1, <1>2, KnownJob DEF JobKnown, KnownCall, Moves, Running, Upload, Copy
<1> QED BY <1>1, <1>2, <1>3, KnownJob, MoveKeeps

LEMMA ReplyingKeeps ==
    ASSUME FInv, UNCHANGED <<composer, script>>, TablesTyped', drawn' = drawn, NEW j \in JobSlots,
           NEW reply \in {"done", "refused"}, Replies(j, reply), Running(j),
           job[j].op = "upload" /\ reply = "done" => job[j].at = "stored"
    PROVE  FInv'
<1>1. Moves(j, "answered", job[j].todo, job[j].keys, reply)
  BY KnownJob, RepliesMoves
<1>3. JobKnown(j)'
  BY <1>1, KnownJob DEF JobKnown, KnownCall, Moves, Running, Upload, Copy
<1> QED BY <1>1, <1>3, KnownJob, MoveKeeps

LEMMA RowsCreated ==
    ASSUME TablesTyped, NEW keys, keys \subseteq KeySpace, \A k \in keys : k[2] <= drawn,
           NEW m \in DOMAIN post \cup {NoPost}, CreateRows(keys, m), UNCHANGED <<storage, post>>
    PROVE  TablesTyped' /\ Rows' = Rows \cup keys
BY DEF TablesTyped, CreateRows, Rows, storage

LEMMA NewKey ==
    ASSUME FInv, NEW p \in Prefixes, Stores(<<p, drawn + 1>>)
    PROVE  /\ <<p, drawn + 1>> \in KeySpace /\ <<p, drawn + 1>>[1] = p /\ <<p, drawn + 1>>[2] = drawn'
           /\ drawn' \in Nat /\ drawn' = drawn + 1
           /\ UNCHANGED <<aged, fileRow, post>> => TablesTyped'
<1>1. \A k \in KeySpace : k[2] \in Nat
  BY DEF KeySpace
<1> QED BY <1>1 DEF FInv, FilesTyped, TablesTyped, KeySpace, Prefixes, Stores, Rows

LEMMA PutObjectKeeps ==
    ASSUME FInv, UNCHANGED composer, NEW j \in JobSlots, PutObject(j) PROVE FInv'
<1> DEFINE key == <<"attachments", drawn + 1>>
           q == [job[j] EXCEPT !.at = "stored", !.keys = {key}]
<1>1. key \in KeySpace /\ key[1] = "attachments" /\ key[2] = drawn' /\ drawn' = drawn + 1 /\ TablesTyped'
  BY NewKey DEF PutObject, Prefixes
<1>2. job[j].op = "upload" /\ job[j].at = "called"
  BY DEF PutObject, At
<1> HIDE DEF key
<1>3. /\ q \in JobRecord /\ q.op = job[j].op /\ q.place = job[j].place
      /\ q.at = "stored" /\ q.todo = job[j].todo /\ q.keys = {key} /\ q.reply = job[j].reply
  BY <1>1, KnownJob DEF JobRecord, Stages
<1>4. job' = [job EXCEPT ![j] = q]
  <2>1. job' = [job EXCEPT ![j].at = "stored", ![j].keys = {key}]
    BY DEF PutObject, key
  <2> QED BY <2>1, KnownJob DEF FilesTyped
<1> HIDE DEF q
<1>5. Moves(j, "stored", job[j].todo, {key}, job[j].reply)
  BY <1>3, <1>4, KnownJob, MovesTo
<1>6. \A k \in KeySpace : k[2] \in Nat
  BY DEF KeySpace
<1>7. JobKnown(j)'
  BY <1>1, <1>2, <1>5, <1>6, KnownJob DEF JobKnown, KnownCall, Moves, Upload
<1> QED BY <1>1, <1>5, <1>7, KnownJob, MoveKeeps DEF PutObject

LEMMA CreateUnattachedAttachmentKeeps ==
    ASSUME FInv, UNCHANGED composer, NEW j \in JobSlots, CreateUnattachedAttachment(j) PROVE FInv'
<1>1. UNCHANGED <<storage, post, script>> /\ Running(j) /\ Replies(j, "done") /\ job[j].at = "stored"
  BY DEF CreateUnattachedAttachment, At, Running
<1>2. UNCHANGED fileRow \/ CreateRows(job[j].keys, NoPost)
  BY DEF CreateUnattachedAttachment
<1>3. \A k \in job[j].keys : k[2] <= drawn
  BY <1>1, KnownJob DEF CreateUnattachedAttachment, At, JobKnown, KnownCall, Upload
<1>4. TablesTyped' /\ drawn' = drawn
  BY <1>1, <1>2, <1>3, KnownJob, TablesStay, RowsCreated DEF storage
<1> QED BY <1>1, <1>4, ReplyingKeeps

LEMMA StartsSendingKeeps ==
    ASSUME FInv, UNCHANGED composer, NEW j \in JobSlots, StartsSending(j) PROVE FInv'
<1> DEFINE q == [job[j] EXCEPT !.at = "check", !.keys = job[j].todo]
<1>1. UNCHANGED <<storage, fileRow, post, script>> /\ job[j].op = "send" /\ job[j].at = "called"
  BY DEF StartsSending, At
<1>2. /\ q \in JobRecord /\ q.op = job[j].op /\ q.place = job[j].place
      /\ q.at = "check" /\ q.todo = job[j].todo /\ q.keys = job[j].todo /\ q.reply = job[j].reply
  BY KnownJob DEF JobRecord, Stages
<1>3. job' = [job EXCEPT ![j] = q]
  <2>1. job' = [job EXCEPT ![j].at = "check", ![j].keys = job[j].todo]
    BY DEF StartsSending
  <2> QED BY <2>1, KnownJob DEF FilesTyped
<1> HIDE DEF q
<1>4. Moves(j, "check", job[j].todo, job[j].todo, job[j].reply)
  BY <1>2, <1>3, KnownJob, MovesTo
<1>5. TablesTyped' /\ drawn' = drawn
  BY <1>1, KnownJob, TablesStay DEF storage
<1>6. JobKnown(j)'
  BY <1>1, <1>4, <1>5, KnownJob DEF JobKnown, KnownCall, Moves, Upload
<1> QED BY <1>1, <1>4, <1>5, <1>6, KnownJob, MoveKeeps

LEMMA GivingUpKeeps ==
    ASSUME FInv, UNCHANGED <<composer, script, storage, fileRow, post>>, NEW j \in JobSlots,
           Running(j), job[j].op \in {"send", "forward"}, GivesUp(j)
    PROVE  FInv'
<1>1. TablesTyped' /\ drawn' = drawn
  BY KnownJob, TablesStay DEF storage
<1>2. CASE job[j].op = "forward"
  BY <1>2, GoingOnKeeps DEF GivesUp, Stages
<1>3. CASE job[j].op = "send"
  BY <1>1, <1>3, ReplyingKeeps DEF GivesUp
<1> QED BY <1>2, <1>3

LEMMA FindUnattachedAttachmentsKeeps ==
    ASSUME FInv, UNCHANGED composer, NEW j \in JobSlots, FindUnattachedAttachments(j) PROVE FInv'
<1>1. /\ UNCHANGED <<storage, fileRow, post, script>>
      /\ Running(j) /\ job[j].op \in {"send", "forward"}
  BY DEF FindUnattachedAttachments, Sending, Running
<1>2. GivesUp(j) \/ GoesOn(j, "write")
  BY DEF FindUnattachedAttachments
<1>3. CASE GoesOn(j, "write")
  BY <1>1, <1>3, GoingOnKeeps DEF Stages
<1> QED BY <1>1, <1>2, <1>3, GivingUpKeeps

\* Messages are numbered as they are written.
LEMMA NextPostIsNew ==
    ASSUME TablesTyped, NextPost <= MaxPosts
    PROVE  /\ NextPost \in 1..MaxPosts /\ NextPost \notin DOMAIN post
           /\ DOMAIN post \cup {NextPost} = 1..NextPost
<1>1. CASE DOMAIN post = {}
  BY <1>1, FS_EmptySet DEF NextPost
<1>2. CASE \E n \in 1..MaxPosts : DOMAIN post = 1..n
  <2>1. PICK n \in 1..MaxPosts : DOMAIN post = 1..n
    BY <1>2
  <2>2. Cardinality(1..n) = n
    BY FS_Interval
  <2> QED BY <2>1, <2>2 DEF NextPost
<1> QED BY <1>1, <1>2 DEF TablesTyped

LEMMA WriteKeepsTables ==
    ASSUME TablesTyped, NEW j \in JobSlots, job[j] \in JobRecord, \A k \in job[j].keys : k[2] <= drawn,
           NextPost <= MaxPosts, Write(j, NextPost), UNCHANGED storage
    PROVE  /\ TablesTyped' /\ drawn' = drawn
           /\ DOMAIN post' = DOMAIN post \cup {NextPost} /\ post'[NextPost] = job[j].place
           /\ \A m \in DOMAIN post : post'[m] = post[m]
           /\ Rows' = IF job[j].place = "channel" THEN Rows \cup job[j].keys ELSE Rows
           /\ \A k \in Rows' : fileRow'[k] = IF k \in job[j].keys THEN NextPost ELSE fileRow[k]
<1> DEFINE m == NextPost
<1>1. m \in 1..MaxPosts /\ m \notin DOMAIN post /\ DOMAIN post \cup {m} = 1..m
  BY NextPostIsNew
<1> HIDE DEF m
<1>2. post' = [i \in DOMAIN post \cup {m} |-> IF i = m THEN job[j].place ELSE post[i]]
  BY DEF Write, m
<1>3. IF job[j].place = "channel" THEN CreateRows(job[j].keys, m)
      ELSE fileRow' = [k \in Rows |-> IF k \in job[j].keys THEN m ELSE fileRow[k]]
  BY DEF Write, m
<1>4. DOMAIN post' = 1..m /\ \A i \in DOMAIN post' : post'[i] \in Places
  BY <1>1, <1>2 DEF TablesTyped, JobRecord
<1>5. /\ Rows' = IF job[j].place = "channel" THEN Rows \cup job[j].keys ELSE Rows
      /\ \A k \in Rows' : fileRow'[k] = IF k \in job[j].keys THEN m ELSE fileRow[k]
  BY <1>3 DEF Rows, CreateRows
<1>6. job[j].keys \subseteq KeySpace
  BY DEF JobRecord
<1>7. Rows' \subseteq KeySpace /\ \A k \in Rows' : k[2] <= drawn
  BY <1>5, <1>6 DEF TablesTyped
<1>8. \A k \in Rows' : fileRow'[k] \in DOMAIN post' \cup {NoPost}
  BY <1>1, <1>2, <1>5 DEF TablesTyped
<1>9. TablesTyped'
  BY <1>1, <1>4, <1>7, <1>8 DEF TablesTyped, storage
<1> QED BY <1>1, <1>2, <1>5, <1>9 DEF storage, m

LEMMA CreateWithFilesKeeps ==
    ASSUME FInv, UNCHANGED composer, NEW j \in JobSlots, CreateWithFiles(j) PROVE FInv'
<1>1. /\ UNCHANGED <<storage, script>>
      /\ Running(j) /\ job[j].op \in {"send", "forward"}
  BY DEF CreateWithFiles, Sending, Running
<1>2. CASE GivesUp(j) /\ UNCHANGED <<fileRow, post>>
  BY <1>1, <1>2, GivingUpKeeps
<1>3. CASE NextPost <= MaxPosts /\ Write(j, NextPost) /\ GoesOn(j, "written")
  <2>1. \A k \in job[j].keys : k[2] <= drawn
    BY <1>1, KnownJob DEF JobKnown, KnownCall, Upload, Copy
  <2>2. TablesTyped' /\ drawn' = drawn
    BY <1>1, <1>3, <2>1, KnownJob, WriteKeepsTables
  <2>3. Moves(j, "written", job[j].todo, job[j].keys, job[j].reply)
    BY <1>3, KnownJob, GoesOnMoves DEF Stages
  <2>4. JobKnown(j)'
    BY <1>1, <2>2, <2>3, KnownJob DEF JobKnown, KnownCall, Moves, Running, Upload, Copy
  <2> QED BY <1>1, <2>2, <2>3, <2>4, KnownJob, MoveKeeps
<1> QED BY <1>2, <1>3 DEF CreateWithFiles

LEMMA AnswersSentKeeps ==
    ASSUME FInv, UNCHANGED composer, NEW j \in JobSlots, AnswersSent(j) PROVE FInv'
<1>1. /\ UNCHANGED <<storage, fileRow, post, script>> /\ Running(j) /\ Replies(j, "done")
      /\ job[j].op \in {"send", "forward"}
  BY DEF AnswersSent, Sending, Running
<1>2. TablesTyped' /\ drawn' = drawn
  BY <1>1, KnownJob, TablesStay DEF storage
<1> QED BY <1>1, <1>2, ReplyingKeeps

LEMMA ForwardKnown ==
    ASSUME FInv, NEW j \in JobSlots, job[j].op = "forward", Running(j),
           NEW at \in Stages, at \notin {"idle", "answered", "stored"}, NEW todo, NEW keys,
           Moves(j, at, todo, keys, job[j].reply),
           drawn' \in Nat, drawn <= drawn', \A k \in keys : k \in job[j].keys \/ Copy(k)'
    PROVE  JobKnown(j)'
<1>1. \A k \in job[j].keys : k[2] \in Nat
  BY KnownJob DEF KeySpace
<1>2. \A k \in job[j].keys : Copy(k)'
  BY <1>1, KnownJob DEF JobKnown, KnownCall, Copy
<1> QED BY <1>2, KnownJob DEF JobKnown, KnownCall, Moves, Running

LEMMA LoadSourceMessageMoves ==
    ASSUME FInv, NEW j \in JobSlots, NEW m, LoadSourceMessage(j, m)
    PROVE  Moves(j, "copy", FilesOf(m), job[j].keys, job[j].reply)
<1> DEFINE q == [job[j] EXCEPT !.at = "copy", !.todo = FilesOf(m)]
<1>1. FilesOf(m) \in SUBSET KeySpace
  BY KnownJob DEF FilesOf, TablesTyped
<1>2. /\ q \in JobRecord /\ q.op = job[j].op /\ q.place = job[j].place
      /\ q.at = "copy" /\ q.todo = FilesOf(m) /\ q.keys = job[j].keys /\ q.reply = job[j].reply
  BY <1>1, KnownJob DEF JobRecord, Stages
<1>3. job' = [job EXCEPT ![j] = q]
  <2>1. job' = [job EXCEPT ![j].at = "copy", ![j].todo = FilesOf(m)]
    BY DEF LoadSourceMessage
  <2> QED BY <2>1, KnownJob DEF FilesTyped
<1> HIDE DEF q
<1> QED BY <1>2, <1>3, KnownJob, MovesTo

LEMMA LoadSourceMessageKeeps ==
    ASSUME FInv, UNCHANGED composer, NEW j \in JobSlots, NEW m, LoadSourceMessage(j, m) PROVE FInv'
<1>1. /\ UNCHANGED <<storage, fileRow, post, script>> /\ Running(j) /\ job[j].op = "forward"
  BY DEF LoadSourceMessage, At, Running
<1>2. TablesTyped' /\ drawn' = drawn
  BY <1>1, KnownJob, TablesStay DEF storage
<1>3. JobKnown(j)'
  BY <1>1, <1>2, KnownJob, LoadSourceMessageMoves, ForwardKnown DEF Stages
<1> QED BY <1>1, <1>2, <1>3, KnownJob, LoadSourceMessageMoves, MoveKeeps

\* A copy that is made has a key of its own.
LEMMA CopyMade ==
    ASSUME FInv, NEW j \in JobSlots, NEW k, CopyObject(j, k), k \in object,
           NEW copy, copy = <<"forwarded", drawn + 1>>
    PROVE  /\ Moves(j, "copy", job[j].todo \ {k}, job[j].keys \cup {copy}, job[j].reply)
           /\ TablesTyped' /\ drawn' = drawn + 1 /\ Copy(copy)' /\ object' = object \cup {copy}
<1> DEFINE q == [job[j] EXCEPT !.todo = @ \ {k}, !.keys = @ \cup {copy}]
<1>1. /\ copy \in KeySpace /\ copy[1] = "forwarded" /\ copy[2] = drawn' /\ drawn' \in Nat
      /\ drawn' = drawn + 1 /\ TablesTyped'
  BY NewKey DEF CopyObject, Prefixes
<1>2. job[j].at = "copy"
  BY DEF CopyObject, At
<1>3. object' = object \cup {copy}
  BY DEF CopyObject, Stores
<1>4. job' = [job EXCEPT ![j].todo = @ \ {k}, ![j].keys = @ \cup {copy}]
  BY DEF CopyObject
<1>5. /\ q \in JobRecord /\ q.op = job[j].op /\ q.place = job[j].place
      /\ q.at = "copy" /\ q.todo = job[j].todo \ {k} /\ q.keys = job[j].keys \cup {copy}
      /\ q.reply = job[j].reply
  BY <1>1, <1>2, KnownJob DEF JobRecord
<1>6. job' = [job EXCEPT ![j] = q]
  BY <1>4, KnownJob DEF FilesTyped
<1> HIDE DEF q
<1>7. Moves(j, q.at, q.todo, q.keys, q.reply)
  BY <1>5, <1>6, KnownJob, MovesTo
<1>8. Copy(copy)'
  BY <1>1 DEF Copy
<1> QED BY <1>1, <1>3, <1>5, <1>7, <1>8

LEMMA CopyObjectKeeps ==
    ASSUME FInv, UNCHANGED composer, NEW j \in JobSlots, NEW k, CopyObject(j, k) PROVE FInv'
<1>1. /\ UNCHANGED <<aged, fileRow, post, script>> /\ Running(j) /\ job[j].op = "forward"
  BY DEF CopyObject, At, Running
<1>2. CASE k \in object
  <2> PICK copy : copy = <<"forwarded", drawn + 1>>
    OBVIOUS
  <2>1. /\ Moves(j, "copy", job[j].todo \ {k}, job[j].keys \cup {copy}, job[j].reply)
        /\ TablesTyped' /\ drawn' = drawn + 1 /\ Copy(copy)'
    BY <1>2, CopyMade
  <2>2. drawn' \in Nat /\ drawn <= drawn'
    BY <2>1, KnownJob
  <2>3. \A i \in job[j].keys \cup {copy} : i \in job[j].keys \/ Copy(i)'
    BY <2>1
  <2>4. JobKnown(j)'
    BY <1>1, <2>1, <2>2, <2>3, ForwardKnown DEF Stages
  <2> QED BY <1>1, <2>1, <2>2, <2>4, MoveKeeps
<1>3. CASE k \notin object
  BY <1>1, <1>3, GoingOnKeeps DEF CopyObject, Stages, storage
<1> QED BY <1>2, <1>3

LEMMA RecordsCreated ==
    ASSUME FInv, NEW j \in JobSlots, CreateUnattachedAttachmentRecords(j)
    PROVE  /\ Moves(j, "check", job[j].todo, job[j].keys, job[j].reply)
           /\ TablesTyped' /\ drawn' = drawn
           /\ job[j].place = "channel" => UNCHANGED fileRow
           /\ job[j].place # "channel" =>
                  CreateRows(job[j].keys, NoPost) /\ Rows' = Rows \cup job[j].keys
<1>1. /\ UNCHANGED <<storage, post, script>> /\ job[j].op = "forward" /\ GoesOn(j, "check")
      /\ IF job[j].place = "channel" THEN UNCHANGED fileRow ELSE CreateRows(job[j].keys, NoPost)
  BY DEF CreateUnattachedAttachmentRecords, AllCopied, At
<1>2. \A k \in job[j].keys : k[2] <= drawn
  BY <1>1, KnownJob DEF JobKnown, KnownCall, Copy
<1>3. TablesTyped' /\ drawn' = drawn
  BY <1>1, <1>2, KnownJob, TablesStay, RowsCreated DEF storage
<1>4. Moves(j, "check", job[j].todo, job[j].keys, job[j].reply)
  BY <1>1, KnownJob, GoesOnMoves DEF Stages
<1> QED BY <1>1, <1>2, <1>3, <1>4, KnownJob, RowsCreated

LEMMA CreateUnattachedAttachmentRecordsKeeps ==
    ASSUME FInv, UNCHANGED composer, NEW j \in JobSlots, CreateUnattachedAttachmentRecords(j)
    PROVE  FInv'
<1>1. /\ UNCHANGED script /\ job[j].op = "forward" /\ Running(j)
  BY DEF CreateUnattachedAttachmentRecords, AllCopied, At, Running
<1>2. Moves(j, "check", job[j].todo, job[j].keys, job[j].reply) /\ TablesTyped' /\ drawn' = drawn
  BY RecordsCreated
<1>3. JobKnown(j)'
  BY <1>1, <1>2, KnownJob, ForwardKnown DEF Stages
<1> QED BY <1>1, <1>2, <1>3, KnownJob, MoveKeeps

LEMMA KeyGiven ==
    ASSUME FInv, NEW j \in JobSlots, NEW k, job' = [job EXCEPT ![j].keys = @ \ {k}]
    PROVE  Moves(j, job[j].at, job[j].todo, job[j].keys \ {k}, job[j].reply)
<1> DEFINE q == [job[j] EXCEPT !.keys = @ \ {k}]
<1>1. /\ q \in JobRecord /\ q.op = job[j].op /\ q.place = job[j].place
      /\ q.at = job[j].at /\ q.todo = job[j].todo /\ q.keys = job[j].keys \ {k}
      /\ q.reply = job[j].reply
  BY KnownJob DEF JobRecord
<1>2. job' = [job EXCEPT ![j] = q]
  BY KnownJob DEF FilesTyped
<1> HIDE DEF q
<1>3. Moves(j, q.at, q.todo, q.keys, q.reply)
  BY <1>1, <1>2, KnownJob, MovesTo
<1> QED BY <1>1, <1>3

\* A copy is given up: what is stored becomes less, of the rows or of the objects.
LEMMA UndoingKeeps ==
    ASSUME FInv, UNCHANGED <<composer, script, aged, drawn, fileRow, post>>, NEW j \in JobSlots, NEW k,
           job[j].op = "forward", Running(j),
           job' = [job EXCEPT ![j].keys = @ \ {k}], object' \subseteq object
    PROVE  FInv'
<1>1. Moves(j, job[j].at, job[j].todo, job[j].keys \ {k}, job[j].reply)
  BY KeyGiven
<1>2. TablesTyped' /\ drawn' \in Nat /\ drawn <= drawn'
  BY KnownJob DEF TablesTyped, Rows
<1>3. JobKnown(j)'
  BY <1>1, KnownJob DEF JobKnown, KnownCall, Moves, Running, Copy
<1> QED BY <1>1, <1>2, <1>3, MoveKeeps

LEMMA DeleteCopyKeeps ==
    ASSUME FInv, UNCHANGED composer, NEW j \in JobSlots, NEW k,
           DeleteCopiedObject(j, k) \/ DeleteUnreferencedCopy(j, k)
    PROVE  FInv'
<1>1. /\ UNCHANGED <<aged, drawn, fileRow, post, script>> /\ job[j].op = "forward" /\ Running(j)
      /\ job' = [job EXCEPT ![j].keys = @ \ {k}] /\ object' \subseteq object
  BY DEF DeleteCopiedObject, DeleteUnreferencedCopy, At, Running
<1> QED BY <1>1, UndoingKeeps

LEMMA DeleteUnattachedRowsKeeps ==
    ASSUME FInv, UNCHANGED composer, NEW j \in JobSlots, DeleteUnattachedRows(j) PROVE FInv'
<1> DEFINE loose == {k \in job[j].keys \cap Rows : fileRow[k] = NoPost}
<1>1. /\ UNCHANGED <<storage, post, script>> /\ job[j].op = "forward" /\ Running(j)
      /\ GoesOn(j, "undoObjects") /\ fileRow' = Restrict(fileRow, Rows \ loose)
  BY DEF DeleteUnattachedRows, At, Running
<1> HIDE DEF loose
<1>2. Rows' = Rows \ loose /\ \A k \in Rows' : fileRow'[k] = fileRow[k]
  BY <1>1 DEF Rows, Restrict
<1>3. TablesTyped' /\ drawn' \in Nat /\ drawn' = drawn
  BY <1>1, <1>2, KnownJob DEF TablesTyped, storage
<1>4. Moves(j, "undoObjects", job[j].todo, job[j].keys, job[j].reply)
  BY <1>1, KnownJob, GoesOnMoves DEF Stages
<1>5. JobKnown(j)'
  BY <1>1, <1>3, <1>4, KnownJob, ForwardKnown DEF Stages
<1> QED BY <1>1, <1>3, <1>4, <1>5, MoveKeeps

LEMMA UndoneAllKeeps ==
    ASSUME FInv, UNCHANGED composer, NEW j \in JobSlots, UndoneAll(j) PROVE FInv'
<1>1. /\ UNCHANGED <<storage, fileRow, post, script>> /\ Running(j) /\ Replies(j, "refused")
      /\ job[j].op = "forward"
  BY DEF UndoneAll, At, Running
<1>2. TablesTyped' /\ drawn' = drawn
  BY <1>1, KnownJob, TablesStay DEF storage
<1> QED BY <1>1, <1>2, ReplyingKeeps

LEMMA JobFailsKeeps ==
    ASSUME FInv, UNCHANGED composer, NEW j \in JobSlots, JobFails(j) PROVE FInv'
<1>1. UNCHANGED <<storage, fileRow, post, script>>
  BY DEF JobFails
<1>2. TablesTyped' /\ drawn' = drawn
  BY <1>1, KnownJob, TablesStay DEF storage
<1>3. CASE Running(j) /\ Replies(j, "refused")
  BY <1>1, <1>2, <1>3, ReplyingKeeps
<1>4. CASE At(j, "forward", "copy") /\ GoesOn(j, "discard")
  BY <1>1, <1>4, GoingOnKeeps DEF At, Running, Stages
<1>5. CASE (AllCopied(j) \/ \E at \in {"check", "write", "written"} : At(j, "forward", at)) /\ GivesUp(j)
  BY <1>1, <1>5, GivingUpKeeps DEF AllCopied, At, Running
<1> QED BY <1>3, <1>4, <1>5 DEF JobFails, At, Running

LEMMA StorageAnswerLostKeeps ==
    ASSUME FInv, UNCHANGED composer, NEW j \in JobSlots, StorageAnswerLost(j) PROVE FInv'
<1>1. UNCHANGED <<aged, fileRow, post, script>>
  BY DEF StorageAnswerLost
<1>2. TablesTyped' /\ drawn' = drawn + 1
  BY <1>1, NewKey DEF StorageAnswerLost, Prefixes
<1>3. drawn' \in Nat /\ drawn <= drawn'
  BY <1>2, KnownJob
<1>4. \A k \in KeySpace : (Copy(k) => Copy(k)') /\ (Upload(k) => Upload(k)')
  <2>1. \A k \in KeySpace : k[2] \in Nat
    BY DEF KeySpace
  <2> QED BY <1>2, <2>1, KnownJob DEF Copy, Upload
<1>5. CASE At(j, "upload", "called") /\ Replies(j, "refused")
  <2>1. Moves(j, "answered", job[j].todo, job[j].keys, "refused")
    BY <1>5, KnownJob, RepliesMoves
  <2>2. JobKnown(j)'
    BY <1>4, <1>5, <2>1, KnownJob DEF JobKnown, KnownCall, Moves, At
  <2> QED BY <1>1, <1>2, <1>3, <2>1, <2>2, MoveKeeps
<1>6. CASE At(j, "forward", "copy") /\ GoesOn(j, "discard")
  <2>1. Moves(j, "discard", job[j].todo, job[j].keys, job[j].reply)
    BY <1>6, KnownJob, GoesOnMoves DEF Stages
  <2>2. JobKnown(j)'
    BY <1>3, <1>6, <2>1, ForwardKnown DEF Stages, At, Running
  <2> QED BY <1>1, <1>2, <1>3, <2>1, <2>2, MoveKeeps
<1> QED BY <1>5, <1>6 DEF StorageAnswerLost

LEMMA UndoFailsKeeps ==
    ASSUME FInv, UNCHANGED composer, NEW j \in JobSlots, UndoFails(j) PROVE FInv'
<1>1. UNCHANGED <<storage, fileRow, post, script>> /\ job[j].op = "forward" /\ Running(j)
  BY DEF UndoFails, At, Running
<1>2. CASE GoesOn(j, "undoObjects")
  BY <1>1, <1>2, GoingOnKeeps DEF Stages
<1>3. CASE \E k \in job[j].keys : job' = [job EXCEPT ![j].keys = @ \ {k}]
  BY <1>1, <1>3, UndoingKeeps DEF storage
<1> QED BY <1>2, <1>3 DEF UndoFails

LEMMA CrashKeeps ==
    ASSUME FInv, UNCHANGED composer, Crash PROVE FInv'
<1>1. UNCHANGED <<storage, fileRow, post, script>>
  BY DEF Crash
<1>2. TablesTyped' /\ drawn' = drawn
  BY <1>1, KnownJob, TablesStay DEF storage, FInv, FilesTyped
<1>3. ASSUME NEW j \in JobSlots
      PROVE  JobKnown(j)' /\ job'[j] \in JobRecord
  <2>1. CASE Running(j)
    <3> DEFINE q == [job[j] EXCEPT !.at = "answered", !.reply = "refused"]
    <3>1. /\ q \in JobRecord /\ q.op = job[j].op /\ q.place = job[j].place
          /\ q.at = "answered" /\ q.todo = job[j].todo /\ q.keys = job[j].keys /\ q.reply = "refused"
      BY KnownJob DEF JobRecord, Stages
    <3>2. job'[j] = q
      BY <2>1 DEF Crash
    <3> HIDE DEF q
    <3> QED BY <1>2, <2>1, <3>1, <3>2, KnownJob DEF JobKnown, KnownCall, Running, Copy, Upload
  <2>2. CASE ~Running(j)
    <3>1. job'[j] = job[j]
      BY <2>2 DEF Crash
    <3> QED BY <1>2, <3>1, KnownJob DEF JobKnown, KnownCall, Copy, Upload
  <2> QED BY <2>1, <2>2
<1>4. job' \in [JobSlots -> JobRecord]
  <2>1. job' = [j \in JobSlots |-> job'[j]]
    BY DEF Crash
  <2> QED BY <1>3, <2>1
<1>5. FilesTyped'
  BY <1>1, <1>2, <1>4 DEF FInv, FilesTyped
<1>6. ComposerTyped'
  BY DEF FInv, ComposerTyped, composer
<1>7. KeysDrawn'
  BY <1>1, <1>2 DEF FInv, KeysDrawn, Upload, composer
<1> QED BY <1>3, <1>5, <1>6, <1>7 DEF FInv, FilesKnown

\* Steps that leave the calls alone: a day passes, the script works.
LEMMA JobsStayKeeps ==
    ASSUME FInv, UNCHANGED <<composer, drawn, fileRow, post, job>>, object' \subseteq object,
           aged' \subseteq aged \cup object, script' \in ScriptRecord, \A k \in script'.keys : k[2] <= drawn
    PROVE  FInv'
<1>1. TablesTyped'
  BY DEF FInv, FilesTyped, TablesTyped, Rows
<1>2. FilesTyped' /\ ComposerTyped'
  BY <1>1 DEF FInv, FilesTyped, ComposerTyped, composer
<1>3. KeysDrawn'
  BY DEF FInv, KeysDrawn, Upload, composer
<1>4. FilesKnown'
  BY DEF FInv, FilesKnown, JobKnown, KnownCall, Copy, Upload
<1> QED BY <1>2, <1>3, <1>4 DEF FInv

LEMMA ADayPassesKeeps ==
    ASSUME FInv, UNCHANGED composer, ADayPasses PROVE FInv'
BY JobsStayKeeps DEF ADayPasses, FInv, FilesTyped, KeysDrawn

LEMMA CleanUpKeeps ==
    ASSUME FInv, UNCHANGED composer, CleanUp PROVE FInv'
<1>1. script \in ScriptRecord /\ \A k \in script.keys : k[2] <= drawn
  BY DEF FInv, FilesTyped, KeysDrawn
<1>2. CASE ListAllObjects
  <2>1. object \cap aged \in SUBSET KeySpace /\ \A k \in object : k[2] <= drawn
    BY DEF FInv, FilesTyped, TablesTyped
  <2> QED BY <1>2, <2>1, JobsStayKeeps DEF ListAllObjects, storage, ScriptRecord
<1>3. CASE FetchDbKeys
  BY <1>1, <1>3, JobsStayKeeps DEF FetchDbKeys, storage, ScriptRecord
<1>4. CASE DeleteOrphan
  <2>1. PICK k \in script.keys : object' = object \ {k} /\ script' = [script EXCEPT !.keys = @ \ {k}]
    BY <1>4 DEF DeleteOrphan
  <2>2. script' \in ScriptRecord /\ script'.keys = script.keys \ {k}
    BY <1>1, <2>1 DEF ScriptRecord
  <2> QED BY <1>1, <1>4, <2>1, <2>2, JobsStayKeeps DEF DeleteOrphan
<1>5. CASE ScriptEnds
  <2>1. script' \in ScriptRecord /\ script'.keys = script.keys
    BY <1>1, <1>5 DEF ScriptEnds, ScriptRecord
  <2> QED BY <1>1, <1>5, <2>1, JobsStayKeeps DEF ScriptEnds, storage
<1> QED BY <1>2, <1>3, <1>4, <1>5 DEF CleanUp

\* A step of the API, of a failure or of the script.
LEMMA FileServiceKeeps ==
    ASSUME FInv, UNCHANGED composer, NEW j \in JobSlots, FileService(j) PROVE FInv'
BY PutObjectKeeps, CreateUnattachedAttachmentKeeps, StartsSendingKeeps,
   FindUnattachedAttachmentsKeeps, CreateWithFilesKeeps, AnswersSentKeeps, LoadSourceMessageKeeps,
   CopyObjectKeeps, DeleteCopyKeeps, CreateUnattachedAttachmentRecordsKeeps,
   DeleteUnattachedRowsKeeps, UndoneAllKeeps DEF FileService, Forwards

-----------------------------------------------------------------------------
LEMMA CallRecord ==
    ASSUME NEW op \in Ops, NEW p \in Places, NEW todo \in SUBSET KeySpace, NEW c, c = CallsFor(op, p, todo)
    PROVE  /\ c \in JobRecord /\ c.op = op /\ c.at = "called" /\ c.place = p /\ c.todo = todo
           /\ c.keys = {} /\ c.reply = "none"
BY DEF CallsFor, IdleJob, JobRecord, Stages, Places

LEMMA IdleRecord ==
    /\ IdleJob \in JobRecord /\ IdleJob.op = "none" /\ IdleJob.at = "idle" /\ IdleJob.todo = {}
    /\ IdleJob.keys = {} /\ IdleJob.reply = "none"
BY DEF IdleJob, JobRecord, Stages, Places, Ops

\* Calls the composer makes or forgets.
LEMMA NewCallKnown ==
    ASSUME NEW j \in JobSlots, NEW q,
           \/ q = IdleJob
           \/ j \in Files /\ \E p \in Places : q = CallsFor("upload", p, {})
           \/ j \in Submits /\ \E p \in Places, todo \in SUBSET KeySpace :
                  (\A k \in todo : Upload(k)) /\ q = CallsFor("send", p, todo)
           \/ j \in Forwarders /\ \E p \in Places : q = CallsFor("forward", p, {})
    PROVE  q \in JobRecord /\ KnownCall(j, q)
<1>1. CASE q = IdleJob
  BY <1>1, IdleRecord DEF KnownCall
<1>2. CASE j \in Files /\ \E p \in Places : q = CallsFor("upload", p, {})
  BY <1>2, CallRecord DEF KnownCall, Ops
<1>3. CASE j \in Submits /\ \E p \in Places, todo \in SUBSET KeySpace :
                  (\A k \in todo : Upload(k)) /\ q = CallsFor("send", p, todo)
  BY <1>3, CallRecord DEF KnownCall, Ops
<1>4. CASE j \in Forwarders /\ \E p \in Places : q = CallsFor("forward", p, {})
  BY <1>4, CallRecord DEF KnownCall, Ops
<1> QED BY <1>1, <1>2, <1>3, <1>4

\* What is left to show of a step of the page.
LEMMA ComposingKeeps ==
    ASSUME FInv, UNCHANGED <<storage, fileRow, post, script>>, ComposerTyped',
           \A f \in Files : Upload(draft'[f].key),
           job' \in [JobSlots -> JobRecord],
           \A j \in JobSlots : job'[j] = job[j] \/ KnownCall(j, job'[j])
    PROVE  FInv'
<1>1. TablesTyped' /\ drawn' = drawn
  BY TablesStay DEF FInv, FilesTyped, storage
<1>2. FilesTyped'
  BY <1>1 DEF FInv, FilesTyped
<1>3. KeysDrawn'
  BY <1>1 DEF FInv, KeysDrawn, Upload
<1>4. \A j \in JobSlots : KnownCall(j, job'[j])
  BY DEF FInv, FilesKnown, JobKnown
<1>5. FilesKnown'
  BY <1>1, <1>4 DEF FilesKnown, JobKnown, KnownCall, Copy, Upload
<1> QED BY <1>2, <1>3, <1>5 DEF FInv

LEMMA WithStatusTyped ==
    ASSUME NEW d \in [Files -> DraftRecord], NEW F,
           NEW status \in {"new", "ready", "uploading", "failed", "gone"}
    PROVE  /\ WithStatus(d, F, status) \in [Files -> DraftRecord]
           /\ \A f \in Files : /\ WithStatus(d, F, status)[f].key = d[f].key
                               /\ WithStatus(d, F, status)[f].status = IF f \in F THEN status ELSE d[f].status
BY DEF WithStatus, DraftRecord

LEMMA EmptiedTyped ==
    ASSUME NEW d \in [Files -> DraftRecord]
    PROVE  /\ Emptied(d) \in [Files -> DraftRecord] /\ InDraft(Emptied(d)) = {}
           /\ \A f \in Files : Emptied(d)[f].key = d[f].key
<1> DEFINE e == WithStatus(d, InDraft(d), "gone")
<1>1. /\ e \in [Files -> DraftRecord]
      /\ \A f \in Files : e[f].key = d[f].key
                          /\ e[f].status = IF f \in InDraft(d) THEN "gone" ELSE d[f].status
  BY WithStatusTyped
<1>2. e = Emptied(d)
  BY DEF Emptied
<1> HIDE DEF e
<1>3. InDraft(e) = {}
  BY <1>1 DEF InDraft
<1> QED BY <1>1, <1>2, <1>3

LEMMA Composing ==
    ASSUME FInv
    PROVE  /\ place \in Places /\ draft \in [Files -> DraftRecord] /\ submit \in [Submits -> SubmitRecord]
           /\ editing \in BOOLEAN /\ sendState \in {"idle", "loading", "error"}
           /\ job \in [JobSlots -> JobRecord] /\ \A f \in Files : Upload(draft[f].key)
           /\ Files \subseteq JobSlots /\ Submits \subseteq JobSlots /\ Forwarders \subseteq JobSlots
BY DEF FInv, ComposerTyped, FilesTyped, KeysDrawn

LEMMA DraftingKeeps ==
    ASSUME FInv, UNCHANGED <<files, place, submit>>, editing' \in BOOLEAN,
           sendState' \in {"idle", "loading", "error"},
           draft' \in [Files -> DraftRecord], \A f \in Files : draft'[f].key = draft[f].key
    PROVE  FInv'
<1>1. ComposerTyped' /\ \A f \in Files : Upload(draft'[f].key)
  BY Composing DEF ComposerTyped
<1> QED BY <1>1, Composing, ComposingKeeps DEF files, storage

LEMMA AddFileKeeps ==
    ASSUME FInv, NEW f, AddFile(f) PROVE FInv'
BY Composing, WithStatusTyped, DraftingKeeps DEF AddFile, composing

LEMMA RemoveAttachmentKeeps ==
    ASSUME FInv, NEW f, RemoveAttachment(f) PROVE FInv'
BY Composing, WithStatusTyped, DraftingKeeps DEF RemoveAttachment, composing

LEMMA EditStartKeeps ==
    ASSUME FInv, EditStart PROVE FInv'
BY Composing, EmptiedTyped, DraftingKeeps DEF EditStart

LEMMA EditEndKeeps ==
    ASSUME FInv, EditEnd PROVE FInv'
BY Composing, DraftingKeeps DEF EditEnd

LEMMA IdleSubmitTyped == IdleSubmit \in SubmitRecord /\ IdleSubmit.at = "idle" /\ IdleSubmit.needs = {}
BY DEF IdleSubmit, SubmitRecord

LEMMA MessageSentKeeps ==
    ASSUME FInv, NEW s \in Submits, MessageSent(s) PROVE FInv'
<1>1. ComposerTyped' /\ \A f \in Files : Upload(draft'[f].key)
  BY Composing, EmptiedTyped, IdleSubmitTyped DEF MessageSent, ComposerTyped, composing
<1>2. job' = [job EXCEPT ![s] = IdleJob]
  BY DEF MessageSent
<1>3. job' \in [JobSlots -> JobRecord] /\ \A j \in JobSlots : job'[j] = job[j] \/ KnownCall(j, job'[j])
  BY <1>2, Composing, IdleRecord, NewCallKnown
<1> QED BY <1>1, <1>3, ComposingKeeps DEF MessageSent

LEMMA MessageRefusedKeeps ==
    ASSUME FInv, NEW s \in Submits, MessageRefused(s) PROVE FInv'
<1>1. ComposerTyped' /\ \A f \in Files : Upload(draft'[f].key)
  BY Composing, IdleSubmitTyped DEF MessageRefused, ComposerTyped, composing
<1>2. job' = [job EXCEPT ![s] = IdleJob]
  BY DEF MessageRefused
<1>3. job' \in [JobSlots -> JobRecord] /\ \A j \in JobSlots : job'[j] = job[j] \/ KnownCall(j, job'[j])
  BY <1>2, Composing, IdleRecord, NewCallKnown
<1> QED BY <1>1, <1>3, ComposingKeeps DEF MessageRefused

LEMMA ForwardKeeps ==
    ASSUME FInv, NEW w \in Forwarders, NEW to \in Places, Forward(w, to) PROVE FInv'
<1>1. ComposerTyped' /\ \A f \in Files : Upload(draft'[f].key)
  BY Composing DEF Forward, ComposerTyped, composer
<1>2. job' = [job EXCEPT ![w] = CallsFor("forward", to, {})]
  BY DEF Forward
<1>3. job' \in [JobSlots -> JobRecord] /\ \A j \in JobSlots : job'[j] = job[j] \/ KnownCall(j, job'[j])
  BY <1>2, Composing, NewCallKnown
<1> QED BY <1>1, <1>3, ComposingKeeps DEF Forward

LEMMA ForwardedKeeps ==
    ASSUME FInv, NEW w \in Forwarders, Forwarded(w) PROVE FInv'
<1>1. ComposerTyped' /\ \A f \in Files : Upload(draft'[f].key)
  BY Composing DEF Forwarded, ComposerTyped, composer
<1>2. job' = [job EXCEPT ![w] = IdleJob]
  BY DEF Forwarded
<1>3. job' \in [JobSlots -> JobRecord] /\ \A j \in JobSlots : job'[j] = job[j] \/ KnownCall(j, job'[j])
  BY <1>2, Composing, NewCallKnown
<1> QED BY <1>1, <1>3, ComposingKeeps DEF Forwarded

LEMMA ContinueKnown ==
    ASSUME FInv, NEW s \in Submits, NEW d \in [Files -> DraftRecord], \A f \in Files : Upload(d[f].key),
           NEW sub \in [Submits -> SubmitRecord], NEW jobs \in [JobSlots -> JobRecord],
           \A j \in JobSlots : jobs[j] = job[j] \/ KnownCall(j, jobs[j]), Continue(s, d, sub, jobs)
    PROVE  /\ job' \in [JobSlots -> JobRecord]
           /\ \A j \in JobSlots : job'[j] = job[j] \/ KnownCall(j, job'[j])
           /\ submit' \in [Submits -> SubmitRecord] /\ sendState' \in {"idle", "loading", "error"}
<1>1. CASE /\ \A f \in InDraft(d) : d[f].status = "uploaded"
           /\ job' = [jobs EXCEPT ![s] = CallsFor("send", place, KeysOf(d))]
           /\ submit' = [sub EXCEPT ![s].at = "sending"] /\ sendState' = "loading"
  <2> DEFINE c == CallsFor("send", place, KeysOf(d))
  <2>1. KeysOf(d) \in SUBSET KeySpace /\ \A k \in KeysOf(d) : Upload(k)
    BY <1>1 DEF KeysOf, InDraft, DraftRecord
  <2>2. c \in JobRecord /\ KnownCall(s, c)
    BY <2>1, Composing, NewCallKnown
  <2> HIDE DEF c
  <2>3. submit' \in [Submits -> SubmitRecord]
    BY <1>1 DEF SubmitRecord
  <2> QED BY <1>1, <2>2, <2>3, Composing DEF c
<1>2. CASE job' = jobs /\ submit' = [sub EXCEPT ![s] = IdleSubmit] /\ sendState' = "error"
  BY <1>2, IdleSubmitTyped
<1> QED BY <1>1, <1>2 DEF Continue

LEMMA UploadCalls ==
    ASSUME FInv, NEW F \in SUBSET Files, NEW jobs,
           jobs = [j \in JobSlots |-> IF j \in F THEN CallsFor("upload", place, {}) ELSE job[j]]
    PROVE  /\ jobs \in [JobSlots -> JobRecord]
           /\ \A j \in JobSlots : jobs[j] = job[j] \/ KnownCall(j, jobs[j])
<1>1. \A j \in F : CallsFor("upload", place, {}) \in JobRecord /\ KnownCall(j, CallsFor("upload", place, {}))
  BY Composing, NewCallKnown
<1> QED BY <1>1, Composing

LEMMA RetryAttachmentKeeps ==
    ASSUME FInv, NEW f \in Files, RetryAttachment(f) PROVE FInv'
<1>1. /\ draft' = WithStatus(draft, {f}, "uploading")
      /\ job' = [j \in JobSlots |-> IF j \in {f} THEN CallsFor("upload", place, {}) ELSE job[j]]
      /\ UNCHANGED <<storage, fileRow, post, script, composing, sendState, submit>>
  BY DEF RetryAttachment, UploadAll
<1>2. job' \in [JobSlots -> JobRecord] /\ \A j \in JobSlots : job'[j] = job[j] \/ KnownCall(j, job'[j])
  BY <1>1, UploadCalls
<1>3. ComposerTyped' /\ \A g \in Files : Upload(draft'[g].key)
  BY <1>1, Composing, WithStatusTyped DEF ComposerTyped, composing
<1> QED BY <1>1, <1>2, <1>3, ComposingKeeps

LEMMA SubmitMessageKeeps ==
    ASSUME FInv, NEW s \in Submits, SubmitMessage(s) PROVE FInv'
<1> DEFINE needs == {f \in Files : draft[f].status \in {"ready", "failed"}}
           sub == [submit EXCEPT ![s] = [at |-> "uploads", needs |-> needs, ok |-> TRUE]]
<1>1. UNCHANGED <<storage, fileRow, post, script, composing>>
  BY DEF SubmitMessage
<1>2. sub \in [Submits -> SubmitRecord] /\ needs \in SUBSET Files
  BY Composing DEF SubmitRecord
<1>3. \/ Continue(s, draft, sub, job) /\ UNCHANGED draft
      \/ UploadAll(needs) /\ submit' = sub /\ sendState' = "loading"
  BY DEF SubmitMessage
<1> HIDE DEF needs, sub
<1>4. CASE Continue(s, draft, sub, job) /\ UNCHANGED draft
  <2>1. /\ job' \in [JobSlots -> JobRecord] /\ \A j \in JobSlots : job'[j] = job[j] \/ KnownCall(j, job'[j])
        /\ submit' \in [Submits -> SubmitRecord] /\ sendState' \in {"idle", "loading", "error"}
    BY <1>2, <1>4, Composing, ContinueKnown
  <2>2. ComposerTyped' /\ \A f \in Files : Upload(draft'[f].key)
    BY <1>1, <1>4, <2>1, Composing DEF ComposerTyped, composing
  <2> QED BY <1>1, <2>1, <2>2, ComposingKeeps
<1>5. CASE UploadAll(needs) /\ submit' = sub /\ sendState' = "loading"
  <2>1. /\ draft' = WithStatus(draft, needs, "uploading")
        /\ job' = [j \in JobSlots |-> IF j \in needs THEN CallsFor("upload", place, {}) ELSE job[j]]
    BY <1>5 DEF UploadAll
  <2>2. job' \in [JobSlots -> JobRecord] /\ \A j \in JobSlots : job'[j] = job[j] \/ KnownCall(j, job'[j])
    BY <1>2, <2>1, UploadCalls
  <2>3. ComposerTyped' /\ \A f \in Files : Upload(draft'[f].key)
    BY <1>1, <1>2, <1>5, <2>1, Composing, WithStatusTyped DEF ComposerTyped, composing
  <2> QED BY <1>1, <2>2, <2>3, ComposingKeeps
<1> QED BY <1>3, <1>4, <1>5

\* What UploadAnswered makes of the composer and the submissions, before a
\* submission that waited for this upload goes on.
DraftAfter(f) ==
    LET ok == job[f].reply = "done" IN
    IF f \notin InDraft(draft) THEN draft
    ELSE IF ok THEN [draft EXCEPT ![f] = [status |-> "uploaded", key |-> CHOOSE k \in job[f].keys : TRUE]]
    ELSE WithStatus(draft, {f}, "failed")
Waiting(f) == {s \in Submits : f \in submit[s].needs}
Awaiting(f) == [s \in Submits |-> IF s \notin Waiting(f) THEN submit[s]
                    ELSE [submit[s] EXCEPT !.needs = @ \ {f}, !.ok = @ /\ job[f].reply = "done"]]

LEMMA UploadAnsweredIs ==
    ASSUME NEW f \in Files, UploadAnswered(f), NEW jobs, jobs = [job EXCEPT ![f] = IdleJob]
    PROVE  /\ job[f].at = "answered" /\ draft' = DraftAfter(f)
           /\ UNCHANGED <<storage, fileRow, post, script, composing>>
           /\ IF \E s \in Waiting(f) : Awaiting(f)[s].needs = {}
              THEN \E s \in Waiting(f) : Continue(s, DraftAfter(f), Awaiting(f), jobs)
              ELSE job' = jobs /\ submit' = Awaiting(f) /\ UNCHANGED sendState
<1>1. job[f].at = "answered" /\ UNCHANGED <<storage, fileRow, post, script, composing>>
  BY DEF UploadAnswered
<1>2. draft' = DraftAfter(f)
  BY Zenon DEF UploadAnswered, DraftAfter
<1>3. IF \E s \in Waiting(f) : Awaiting(f)[s].needs = {}
      THEN \E s \in Waiting(f) : Continue(s, DraftAfter(f), Awaiting(f), jobs)
      ELSE job' = jobs /\ submit' = Awaiting(f) /\ UNCHANGED sendState
  BY Zenon DEF UploadAnswered, DraftAfter, Waiting, Awaiting
<1> QED BY <1>1, <1>2, <1>3

LEMMA AnsweredTyped ==
    ASSUME FInv, NEW f \in Files, job[f].at = "answered"
    PROVE  /\ DraftAfter(f) \in [Files -> DraftRecord]
           /\ \A g \in Files : Upload(DraftAfter(f)[g].key)
           /\ \A g \in Files \ {f} : DraftAfter(f)[g] = draft[g]
           /\ f \in InDraft(draft) /\ job[f].reply = "done" =>
                  DraftAfter(f)[f].status = "uploaded" /\ DraftAfter(f)[f].key \in job[f].keys
           /\ f \in InDraft(draft) /\ job[f].reply # "done" =>
                  DraftAfter(f)[f].status = "failed" /\ DraftAfter(f)[f].key = draft[f].key
           /\ f \notin InDraft(draft) => DraftAfter(f)[f] = draft[f]
<1>1. CASE f \notin InDraft(draft)
  BY <1>1, Composing DEF DraftAfter
<1>2. CASE f \in InDraft(draft) /\ job[f].reply = "done"
  <2> DEFINE key == CHOOSE k \in job[f].keys : TRUE
             e == [status |-> "uploaded", key |-> key]
  <2>1. job[f] \in JobRecord /\ job[f].keys \subseteq KeySpace /\ KnownCall(f, job[f])
    BY Composing, KnownJob DEF JobKnown
  <2>2. job[f].op = "upload" /\ job[f].keys # {} /\ \A k \in job[f].keys : Upload(k)
    BY <1>2, <2>1 DEF KnownCall
  <2>3. key \in job[f].keys
    BY <2>2
  <2> HIDE DEF key
  <2>4. e \in DraftRecord /\ e.status = "uploaded" /\ e.key = key
    BY <2>1, <2>3 DEF DraftRecord
  <2>5. DraftAfter(f) = [draft EXCEPT ![f] = e]
    BY <1>2 DEF DraftAfter, key
  <2> HIDE DEF e
  <2> QED BY <1>2, <2>2, <2>3, <2>4, <2>5, Composing
<1>3. CASE f \in InDraft(draft) /\ job[f].reply # "done"
  <2>1. DraftAfter(f) = WithStatus(draft, {f}, "failed")
    BY <1>3 DEF DraftAfter
  <2>2. DraftAfter(f) \in [Files -> DraftRecord] /\ \A g \in Files : DraftAfter(f)[g].key = draft[g].key
        /\ DraftAfter(f)[g].status = IF g \in {f} THEN "failed" ELSE draft[g].status
    BY <2>1, Composing, WithStatusTyped
  <2>3. \A g \in Files \ {f} : DraftAfter(f)[g] = draft[g]
    BY <2>1 DEF WithStatus
  <2> QED BY <1>3, <2>2, <2>3, Composing
<1> QED BY <1>1, <1>2, <1>3

LEMMA AwaitingTyped ==
    ASSUME FInv, NEW f \in Files
    PROVE  /\ Awaiting(f) \in [Submits -> SubmitRecord]
           /\ \A s \in Submits : /\ Awaiting(f)[s].at = submit[s].at
                                 /\ Awaiting(f)[s].needs = submit[s].needs \ {f}
                                 /\ Awaiting(f)[s].ok => submit[s].ok
<1> SUFFICES ASSUME NEW s \in Submits
             PROVE  /\ Awaiting(f)[s] \in SubmitRecord /\ Awaiting(f)[s].at = submit[s].at
                    /\ Awaiting(f)[s].needs = submit[s].needs \ {f}
                    /\ Awaiting(f)[s].ok => submit[s].ok
  BY DEF Awaiting
<1>1. submit[s] \in SubmitRecord
  BY Composing
<1>2. CASE s \notin Waiting(f)
  <2>1. Awaiting(f)[s] = submit[s] /\ f \notin submit[s].needs
    BY <1>2 DEF Awaiting, Waiting
  <2> QED BY <1>1, <2>1
<1>3. CASE s \in Waiting(f)
  <2> DEFINE ok == job[f].reply = "done"
             both == submit[s].ok /\ ok
  <2>1. Awaiting(f)[s] = [submit[s] EXCEPT !.needs = submit[s].needs \ {f}, !.ok = both]
    BY <1>3 DEF Awaiting
  <2>2. both \in BOOLEAN /\ (both => submit[s].ok)
    BY <1>1 DEF SubmitRecord
  <2> HIDE DEF both
  <2> QED BY <1>1, <2>1, <2>2 DEF SubmitRecord
<1> QED BY <1>2, <1>3

LEMMA UploadAnsweredKeeps ==
    ASSUME FInv, NEW f \in Files, UploadAnswered(f) PROVE FInv'
<1> DEFINE jobs == [job EXCEPT ![f] = IdleJob]
<1>1. /\ job[f].at = "answered" /\ draft' = DraftAfter(f)
      /\ UNCHANGED <<storage, fileRow, post, script, composing>>
      /\ \/ \E s \in Waiting(f) : Continue(s, DraftAfter(f), Awaiting(f), jobs)
         \/ job' = jobs /\ submit' = Awaiting(f) /\ UNCHANGED sendState
  BY UploadAnsweredIs
<1>2. jobs \in [JobSlots -> JobRecord] /\ \A j \in JobSlots : jobs[j] = job[j] \/ KnownCall(j, jobs[j])
  BY Composing, IdleRecord, NewCallKnown
<1> HIDE DEF jobs
<1>3. /\ DraftAfter(f) \in [Files -> DraftRecord] /\ \A g \in Files : Upload(DraftAfter(f)[g].key)
      /\ Awaiting(f) \in [Submits -> SubmitRecord]
  BY <1>1, AnsweredTyped, AwaitingTyped
<1>4. /\ job' \in [JobSlots -> JobRecord] /\ \A j \in JobSlots : job'[j] = job[j] \/ KnownCall(j, job'[j])
      /\ submit' \in [Submits -> SubmitRecord] /\ sendState' \in {"idle", "loading", "error"}
  <2>1. CASE \E s \in Waiting(f) : Continue(s, DraftAfter(f), Awaiting(f), jobs)
    <3>1. PICK s \in Submits : Continue(s, DraftAfter(f), Awaiting(f), jobs)
      BY <2>1 DEF Waiting
    <3> QED BY <1>2, <1>3, <3>1, ContinueKnown
  <2>2. CASE job' = jobs /\ submit' = Awaiting(f) /\ UNCHANGED sendState
    BY <1>2, <1>3, <2>2, Composing
  <2> QED BY <1>1, <2>1, <2>2
<1>5. ComposerTyped' /\ \A g \in Files : Upload(draft'[g].key)
  BY <1>1, <1>3, <1>4, Composing DEF ComposerTyped, composing
<1> QED BY <1>1, <1>4, <1>5, ComposingKeeps

-----------------------------------------------------------------------------
WorkloadOK == workload \in Workloads

LEMMA FileStepKeeps ==
    ASSUME FInv, WorkloadOK, workload.about = "files", FileStep PROVE FInv'
<1> USE DEF FInv
<1>1. CASE FilesMove
  BY <1>1, FileServiceKeeps, UploadAnsweredKeeps, MessageSentKeeps, MessageRefusedKeeps, EditEndKeeps,
     ForwardedKeeps, AddFileKeeps, RemoveAttachmentKeeps, CleanUpKeeps DEF FilesMove, Composes
<1>2. CASE FilesTurn
  <2>1. workload.forwarders \subseteq Forwarders
    BY WorkloadsAssumption DEF WorkloadOK
  <2> QED BY <1>2, <2>1, RetryAttachmentKeeps, SubmitMessageKeeps, EditStartKeeps, ForwardKeeps,
             JobFailsKeeps, ADayPassesKeeps DEF FilesTurn
<1>3. CASE FilesSuffer
  BY <1>3, CrashKeeps, StorageAnswerLostKeeps, UndoFailsKeeps DEF FilesSuffer
<1> QED BY <1>1, <1>2, <1>3 DEF FileStep

LEMMA FilesStay ==
    ASSUME FInv, UNCHANGED fileVars PROVE FInv'
BY DEF FInv, fileVars, files, storage, composer, FilesTyped, ComposerTyped, FilesKnown, KeysDrawn,
       TablesTyped, Rows, JobKnown, KnownCall, Copy, Upload

LEMMA InitFiles ==
    ASSUME NEW n \in 0..MaxKeys, NEW at \in Places, NEW taken, NEW kinds, kinds \subseteq Places,
           FilesInit(n, at, taken), ComposerInit(kinds)
    PROVE  FInv
<1> DEFINE keys == {<<"attachments", i>> : i \in 1..n}
<1>1. \A k \in keys : k \in KeySpace /\ k[1] = "attachments" /\ k[2] \in 1..n
  BY DEF KeySpace, Prefixes
<1>2. /\ object \subseteq keys /\ aged = {} /\ fileRow = [k \in keys |-> 1]
      /\ post = [m \in {i \in {1} : n > 0} |-> at] /\ drawn = n
      /\ job = [j \in JobSlots |-> IdleJob] /\ script = [at |-> "idle", keys |-> {}]
  BY DEF FilesInit
<1>3. keys # {} => n > 0
  OBVIOUS
<1> HIDE DEF keys
<1>4. n > 0 => DOMAIN post = 1..1
  BY <1>2
<1>5. ~(n > 0) => DOMAIN post = {}
  BY <1>2
<1>6. TablesTyped
  <2>1. \E i \in 1..MaxPosts : DOMAIN post = 1..i \/ DOMAIN post = {}
    <3>1. 1 \in 1..MaxPosts
      OBVIOUS
    <3>2. DOMAIN post = 1..1 \/ DOMAIN post = {}
      BY <1>4, <1>5
    <3> QED BY <3>1, <3>2
  <2>2. \A k \in Rows : fileRow[k] \in DOMAIN post
    BY <1>2, <1>3, <1>4 DEF Rows
  <2>3. \A m \in DOMAIN post : post[m] \in Places
    BY <1>2
  <2> QED BY <1>1, <1>2, <2>1, <2>2, <2>3 DEF TablesTyped, Rows
<1>7. FilesTyped
  BY <1>2, <1>6, IdleRecord DEF FilesTyped, ScriptRecord
<1>8. ComposerTyped /\ \A f \in Files : draft[f].key = <<"attachments", 0>>
  BY IdleSubmitTyped DEF ComposerInit, ComposerTyped, DraftRecord, NoKey
<1>9. KeysDrawn
  BY <1>2, <1>8 DEF KeysDrawn, Upload
<1>10. FilesKnown
  BY <1>2, IdleRecord DEF FilesKnown, JobKnown, KnownCall
<1> QED BY <1>7, <1>8, <1>9, <1>10 DEF FInv

LEMMA InitFInv ==
    ASSUME MCInit PROVE FInv /\ WorkloadOK
<1>1. CASE FilesInit(0, "channel", 0) /\ ComposerInit({"channel"})
  BY <1>1, InitFiles DEF Places, MCInit, WorkloadOK
<1>2. CASE workload.about = "files" /\ FilesInit(workload.source, workload.at, workload.taken)
           /\ ComposerInit(workload.places)
  <2>1. workload.source \in 0..MaxKeys /\ workload.at \in Places /\ workload.places \subseteq Places
    BY <1>2, WorkloadsAssumption DEF MCInit
  <2> QED BY <1>2, <2>1, InitFiles DEF MCInit, WorkloadOK
<1> QED BY <1>1, <1>2 DEF MCInit

LEMMA StepKeepsFInv ==
    ASSUME FInv, WorkloadOK, [MCNext]_mcvars PROVE FInv' /\ WorkloadOK'
<1>1. WorkloadOK'
  BY DEF WorkloadOK, MCNext, mcvars
<1>2. CASE workload.about = "files" /\ FileStep
  BY <1>1, <1>2, FileStepKeeps
<1>3. CASE UNCHANGED fileVars
  BY <1>1, <1>3, FilesStay
<1> QED BY <1>1, <1>2, <1>3 DEF MCNext, mcvars

\* Who makes which calls, and with which keys, in every state.
THEOREM FilesAreKnown == MCSpec => []FInv
<1>1. MCInit => FInv /\ WorkloadOK
  BY InitFInv
<1>2. FInv /\ WorkloadOK /\ [MCNext]_mcvars => (FInv /\ WorkloadOK)'
  BY StepKeepsFInv
<1> QED BY <1>1, <1>2, PTL DEF MCSpec

-----------------------------------------------------------------------------
(*****************************************************************************)
(* The copies of forwards.                                                   *)
(*****************************************************************************)
IsCopy(k) == k[1] = "forwarded"
Posted(k) == k \in Rows /\ fileRow[k] # NoPost
\* What is true of the copies of a forward at each of its stages.
CopiesOf(w) ==
    LET q == job[w] IN
    /\ q.keys \subseteq object
    /\ q.at = "called" => q.keys = {}
    /\ q.at \in {"copy", "discard"} => q.keys \cap Rows = {}
    /\ q.at \in {"check", "write"} => IF q.place = "channel" THEN q.keys \cap Rows = {} ELSE q.keys \subseteq Rows
    /\ q.at \in {"written", "answered"} => \A k \in q.keys : Posted(k)
    /\ q.at = "undoObjects" => \A k \in q.keys \cap Rows : Posted(k)
CopiesPlaced ==
    /\ \A w \in Forwarders : CopiesOf(w)
    /\ \A v, w \in Forwarders : v # w => job[v].keys \cap job[w].keys = {}
    /\ \A k \in object \cup Rows : IsCopy(k) =>
           (k \in object /\ Posted(k)) \/ \E w \in Forwarders : k \in job[w].keys
    /\ \A k \in aged : IsCopy(k) => Posted(k)
ScriptSpares ==
    /\ script.keys \subseteq aged
    /\ script.at = "deleting" => \A k \in script.keys : ~IsCopy(k)
Copies == CopiesPlaced /\ ScriptSpares
CopiesUnlessUnlucky == ~unlucky => Copies

LEMMA CopiesSuffice ==
    ASSUME FInv, CopiesUnlessUnlucky PROVE NothingLeftBehind
<1> SUFFICES ASSUME ~unlucky, NEW k \in object \cup Rows, k[1] = "forwarded", ~Held(k)
             PROVE  k \in object /\ k \in Rows /\ fileRow[k] # NoPost
  BY DEF NothingLeftBehind
<1>1. CopiesPlaced
  BY DEF CopiesUnlessUnlucky, Copies
<1>2. CASE \E w \in Forwarders : k \in job[w].keys
  <2>1. PICK w \in Forwarders : k \in job[w].keys
    BY <1>2
  <2>2. ~Running(w) /\ CopiesOf(w) /\ job[w].at # "idle"
    BY <1>1, <2>1, KnownJob, IdleRecord DEF Held, CopiesPlaced, JobKnown, KnownCall
  <2> QED BY <2>1, <2>2 DEF Running, CopiesOf, Posted
<1> QED BY <1>1, <1>2 DEF CopiesPlaced, IsCopy, Posted

\* Steps that do nothing to copies or to the calls that make them.
LEMMA CopiesElsewhere ==
    ASSUME CopiesPlaced, FInv, \A w \in Forwarders : job'[w] = job[w], UNCHANGED aged,
           \A k : IsCopy(k) => /\ k \in object' <=> k \in object
                               /\ k \in Rows' <=> k \in Rows
                               /\ Posted(k) => Posted(k)'
    PROVE  CopiesPlaced'
<1>1. \A w \in Forwarders : \A k \in job[w].keys : IsCopy(k)
  BY KnownJob, IdleRecord DEF JobKnown, KnownCall, Copy, IsCopy
<1>2. \A w \in Forwarders : CopiesOf(w)'
  BY <1>1 DEF CopiesPlaced, CopiesOf
<1>3. \A k \in object' \cup Rows' : IsCopy(k) =>
           (k \in object' /\ Posted(k)') \/ \E w \in Forwarders : k \in job'[w].keys
  BY DEF CopiesPlaced
<1>4. \A k \in aged' : IsCopy(k) => Posted(k)'
  BY DEF CopiesPlaced
<1> QED BY <1>2, <1>3, <1>4 DEF CopiesPlaced, IsCopy

\* A step of one forward.
LEMMA CopiesStep ==
    ASSUME CopiesPlaced, FInv, NEW j \in Forwarders, \A i \in JobSlots \ {j} : job'[i] = job[i],
           UNCHANGED aged, CopiesOf(j)',
           \A k \in job'[j].keys \ job[j].keys : k[2] > drawn,
           \A k \in job[j].keys \ job'[j].keys : k \in object' \cup Rows' => k \in object' /\ Posted(k)',
           \A k : Posted(k) => Posted(k)',
           \A k : k \notin job[j].keys /\ k \notin job'[j].keys =>
                     (k \in object' <=> k \in object) /\ (k \in Rows' <=> k \in Rows)
    PROVE  CopiesPlaced'
<1>1. \A w \in Forwarders : \A k \in job[w].keys : k[2] <= drawn /\ k[2] \in Nat
  BY KnownJob, IdleRecord DEF JobKnown, KnownCall, Copy, KeySpace
<1>2. \A w \in Forwarders \ {j} : job'[w] = job[w]
  OBVIOUS
<1>3. \A w \in Forwarders \ {j} : job'[w].keys \cap job'[j].keys = {} /\ job[w].keys \cap job[j].keys = {}
  BY <1>1, <1>2, KnownJob DEF CopiesPlaced
<1>4. ASSUME NEW w \in Forwarders \ {j} PROVE CopiesOf(w)'
  <2>1. \A k \in job[w].keys : (k \in object' <=> k \in object) /\ (k \in Rows' <=> k \in Rows)
    BY <1>2, <1>3
  <2>2. CopiesOf(w) /\ job'[w] = job[w]
    BY <1>2 DEF CopiesPlaced
  <2> QED BY <2>1, <2>2 DEF CopiesOf
<1>5. ASSUME NEW k \in object' \cup Rows', IsCopy(k)
      PROVE  (k \in object' /\ Posted(k)') \/ \E w \in Forwarders : k \in job'[w].keys
  <2>1. CASE k \in job[j].keys \/ k \in job'[j].keys
    BY <2>1
  <2>2. CASE k \notin job[j].keys /\ k \notin job'[j].keys
    <3>1. (k \in object /\ Posted(k)) \/ \E w \in Forwarders : k \in job[w].keys
      BY <1>5, <2>2 DEF CopiesPlaced
    <3> QED BY <1>2, <2>2, <3>1
  <2> QED BY <2>1, <2>2
<1>6. \A k \in aged' : IsCopy(k) => Posted(k)'
  BY DEF CopiesPlaced
<1>7. \A v, w \in Forwarders : v # w => job'[v].keys \cap job'[w].keys = {}
  BY <1>2, <1>3 DEF CopiesPlaced
<1>8. \A w \in Forwarders : CopiesOf(w)'
  BY <1>4
<1> QED BY <1>5, <1>6, <1>7, <1>8 DEF CopiesPlaced, IsCopy

LEMMA ForwarderIs ==
    ASSUME FInv, NEW j \in JobSlots, job[j].op = "forward"
    PROVE  j \in Forwarders /\ \A k \in job[j].keys : IsCopy(k) /\ k[2] <= drawn
BY KnownJob, IdleRecord DEF JobKnown, KnownCall, Copy, IsCopy

LEMMA OtherIs ==
    ASSUME FInv, NEW j \in JobSlots, job[j].op \in {"upload", "send"}
    PROVE  j \notin Forwarders /\ \A k \in job[j].keys \cup job[j].todo : ~IsCopy(k)
BY KnownJob, IdleRecord DEF JobKnown, KnownCall, Upload, IsCopy

\* The tables are left alone.
LEMMA CopiesGoOn ==
    ASSUME CopiesPlaced, FInv, NEW j \in JobSlots, UNCHANGED <<storage, fileRow>>,
           NEW at, NEW todo, NEW reply, Moves(j, at, todo, job[j].keys, reply),
           job[j].op \in {"upload", "send"} \/ (job[j].op = "forward" /\ CopiesOf(j)')
    PROVE  CopiesPlaced'
<1>1. \A i \in JobSlots \ {j} : job'[i] = job[i]
  BY DEF Moves
<1>2. CASE job[j].op = "forward" /\ CopiesOf(j)'
  BY <1>1, <1>2, ForwarderIs, CopiesStep DEF Moves, storage, Rows, Posted
<1>3. CASE job[j].op \in {"upload", "send"}
  <2>1. \A w \in Forwarders : job'[w] = job[w]
    BY <1>1, <1>3, OtherIs
  <2> QED BY <2>1, CopiesElsewhere DEF storage, Rows, Posted
<1> QED BY <1>2, <1>3

LEMMA PutObjectCopies ==
    ASSUME CopiesPlaced, FInv, NEW j \in JobSlots, PutObject(j) PROVE CopiesPlaced'
<1>1. job[j].op = "upload" /\ UNCHANGED <<aged, fileRow>>
  BY DEF PutObject, At
<1>2. \A i \in JobSlots \ {j} : job'[i] = job[i]
  BY KnownJob DEF PutObject, FilesTyped
<1>3. \A w \in Forwarders : job'[w] = job[w]
  BY <1>1, <1>2, OtherIs
<1>4. \A k : IsCopy(k) => (k \in object' <=> k \in object)
  BY DEF PutObject, Stores, IsCopy
<1> QED BY <1>1, <1>3, <1>4, CopiesElsewhere DEF Rows, Posted

LEMMA RowsCreatedElsewhere ==
    ASSUME CopiesPlaced, FInv, NEW j \in JobSlots, job[j].op \in {"upload", "send"},
           \A i \in JobSlots \ {j} : job'[i] = job[i], UNCHANGED storage,
           \A k : IsCopy(k) => (k \in Rows' <=> k \in Rows) /\ (Posted(k) => Posted(k)')
    PROVE  CopiesPlaced'
<1>1. \A w \in Forwarders : job'[w] = job[w]
  BY OtherIs
<1> QED BY <1>1, CopiesElsewhere DEF storage

LEMMA CreateUnattachedAttachmentCopies ==
    ASSUME CopiesPlaced, FInv, NEW j \in JobSlots, CreateUnattachedAttachment(j) PROVE CopiesPlaced'
<1>1. job[j].op = "upload" /\ Replies(j, "done") /\ UNCHANGED storage
  BY DEF CreateUnattachedAttachment, At
<1>2. Moves(j, "answered", job[j].todo, job[j].keys, "done")
  BY <1>1, KnownJob, RepliesMoves
<1>3. \A i \in JobSlots \ {j} : job'[i] = job[i]
  BY <1>2 DEF Moves
<1>4. UNCHANGED fileRow \/ CreateRows(job[j].keys, NoPost)
  BY DEF CreateUnattachedAttachment
<1>5. \A k : IsCopy(k) => (k \in Rows' <=> k \in Rows) /\ (Posted(k) => Posted(k)')
  BY <1>1, <1>4, OtherIs DEF CreateRows, Rows, Posted
<1> QED BY <1>1, <1>3, <1>5, RowsCreatedElsewhere

LEMMA StartsSendingCopies ==
    ASSUME CopiesPlaced, FInv, NEW j \in JobSlots, StartsSending(j) PROVE CopiesPlaced'
<1>1. job[j].op = "send" /\ UNCHANGED <<storage, fileRow>>
  BY DEF StartsSending, At
<1>2. \A i \in JobSlots \ {j} : job'[i] = job[i]
  BY KnownJob DEF StartsSending, FilesTyped
<1> QED BY <1>1, <1>2, RowsCreatedElsewhere DEF Rows, Posted

LEMMA ForwardStage ==
    ASSUME CopiesPlaced, FInv, NEW j \in JobSlots, job[j].op = "forward"
    PROVE  CopiesOf(j)
BY ForwarderIs DEF CopiesPlaced

LEMMA GivesUpCopies ==
    ASSUME CopiesPlaced, FInv, NEW j \in JobSlots, UNCHANGED <<storage, fileRow>>,
           job[j].op \in {"send", "forward"}, GivesUp(j)
    PROVE  CopiesPlaced'
<1>1. CASE job[j].op = "send" /\ Replies(j, "refused")
  <2>1. Moves(j, "answered", job[j].todo, job[j].keys, "refused")
    BY <1>1, KnownJob, RepliesMoves
  <2> QED BY <1>1, <2>1, CopiesGoOn
<1>2. CASE job[j].op = "forward" /\ GoesOn(j, "undoRows")
  <2>1. Moves(j, "undoRows", job[j].todo, job[j].keys, job[j].reply)
    BY <1>2, KnownJob, GoesOnMoves DEF Stages
  <2>2. CopiesOf(j)'
    BY <1>2, <2>1, ForwardStage DEF CopiesOf, Moves, storage
  <2> QED BY <1>2, <2>1, <2>2, CopiesGoOn
<1> QED BY <1>1, <1>2 DEF GivesUp

LEMMA FindUnattachedAttachmentsCopies ==
    ASSUME CopiesPlaced, FInv, NEW j \in JobSlots, FindUnattachedAttachments(j) PROVE CopiesPlaced'
<1>1. job[j].op \in {"send", "forward"} /\ job[j].at = "check" /\ UNCHANGED <<storage, fileRow>>
  BY DEF FindUnattachedAttachments, Sending
<1>2. CASE GoesOn(j, "write")
  <2>1. Moves(j, "write", job[j].todo, job[j].keys, job[j].reply)
    BY <1>2, KnownJob, GoesOnMoves DEF Stages
  <2>2. job[j].op = "forward" => CopiesOf(j)'
    BY <1>1, <2>1, ForwardStage DEF CopiesOf, Moves, storage, Rows
  <2> QED BY <1>1, <2>1, <2>2, CopiesGoOn
<1> QED BY <1>1, <1>2, GivesUpCopies DEF FindUnattachedAttachments

LEMMA CreateWithFilesCopies ==
    ASSUME CopiesPlaced, FInv, NEW j \in JobSlots, CreateWithFiles(j) PROVE CopiesPlaced'
<1>1. job[j].op \in {"send", "forward"} /\ job[j].at = "write" /\ UNCHANGED storage
  BY DEF CreateWithFiles, Sending
<1>2. CASE GivesUp(j) /\ UNCHANGED fileRow
  BY <1>1, <1>2, GivesUpCopies
<1>3. CASE NextPost <= MaxPosts /\ Write(j, NextPost) /\ GoesOn(j, "written")
  <2>1. \A k \in job[j].keys : k[2] <= drawn
    BY <1>1, KnownJob DEF JobKnown, KnownCall, Upload, Copy
  <2>2. /\ Rows' = IF job[j].place = "channel" THEN Rows \cup job[j].keys ELSE Rows
        /\ \A k \in Rows' : fileRow'[k] = IF k \in job[j].keys THEN NextPost ELSE fileRow[k]
    BY <1>1, <1>3, <2>1, KnownJob, WriteKeepsTables
  <2>3. Moves(j, "written", job[j].todo, job[j].keys, job[j].reply)
    BY <1>3, KnownJob, GoesOnMoves DEF Stages
  <2>4. \A i \in JobSlots \ {j} : job'[i] = job[i]
    BY <2>3 DEF Moves
  <2>5. NextPost # NoPost
    BY <1>3, KnownJob, NextPostIsNew
  <2>6. \A k : Posted(k) => Posted(k)'
    BY <2>2, <2>5 DEF Posted
  <2>7. CASE job[j].op = "send"
    BY <1>1, <2>2, <2>4, <2>6, <2>7, OtherIs, RowsCreatedElsewhere
  <2>8. CASE job[j].op = "forward"
    <3>1. \A k \in job[j].keys : Posted(k)'
      BY <1>1, <2>2, <2>5, <2>8, ForwardStage DEF CopiesOf, Posted
    <3>2. CopiesOf(j)'
      BY <1>1, <2>3, <2>8, <3>1, ForwardStage DEF CopiesOf, Moves, storage
    <3>3. \A k : k \notin job[j].keys => (k \in Rows' <=> k \in Rows)
      BY <2>2
    <3> QED BY <1>1, <2>3, <2>4, <2>6, <2>8, <3>2, <3>3, ForwarderIs, CopiesStep DEF Moves, storage
  <2> QED BY <1>1, <2>7, <2>8
<1> QED BY <1>2, <1>3 DEF CreateWithFiles

LEMMA AnswersSentCopies ==
    ASSUME CopiesPlaced, FInv, NEW j \in JobSlots, AnswersSent(j) PROVE CopiesPlaced'
<1>1. /\ job[j].op \in {"send", "forward"} /\ job[j].at = "written" /\ UNCHANGED <<storage, fileRow>>
      /\ Replies(j, "done")
  BY DEF AnswersSent, Sending
<1>2. Moves(j, "answered", job[j].todo, job[j].keys, "done")
  BY <1>1, KnownJob, RepliesMoves
<1>3. job[j].op = "forward" => CopiesOf(j)'
  BY <1>1, <1>2, ForwardStage DEF CopiesOf, Moves, storage, Rows, Posted
<1> QED BY <1>1, <1>2, <1>3, CopiesGoOn

LEMMA LoadSourceMessageCopies ==
    ASSUME CopiesPlaced, FInv, NEW j \in JobSlots, NEW m, LoadSourceMessage(j, m) PROVE CopiesPlaced'
<1>1. job[j].op = "forward" /\ job[j].at = "called" /\ UNCHANGED <<storage, fileRow>>
  BY DEF LoadSourceMessage, At
<1>2. Moves(j, "copy", FilesOf(m), job[j].keys, job[j].reply)
  BY LoadSourceMessageMoves
<1>3. CopiesOf(j)'
  BY <1>1, <1>2, ForwardStage DEF CopiesOf, Moves, storage
<1> QED BY <1>1, <1>2, <1>3, CopiesGoOn

LEMMA CopyObjectCopies ==
    ASSUME CopiesPlaced, FInv, NEW j \in JobSlots, NEW k, CopyObject(j, k) PROVE CopiesPlaced'
<1>1. job[j].op = "forward" /\ job[j].at = "copy" /\ UNCHANGED <<aged, fileRow>>
  BY DEF CopyObject, At
<1>2. CASE k \in object
  <2> PICK copy : copy = <<"forwarded", drawn + 1>>
    OBVIOUS
  <2>1. /\ Moves(j, "copy", job[j].todo \ {k}, job[j].keys \cup {copy}, job[j].reply)
        /\ object' = object \cup {copy}
    BY <1>2, CopyMade
  <2>2. copy[2] > drawn
    BY KnownJob
  <2>3. copy \notin Rows
    BY <2>2, KnownJob DEF TablesTyped
  <2>4. CopiesOf(j)'
    BY <1>1, <2>1, <2>3, ForwardStage DEF CopiesOf, Moves, Rows
  <2>5. \A k2 : Posted(k2) => Posted(k2)'
    BY <1>1 DEF Posted, Rows
  <2> QED BY <1>1, <2>1, <2>2, <2>4, <2>5, ForwarderIs, CopiesStep DEF Moves, Rows
<1>3. CASE GoesOn(j, "discard") /\ UNCHANGED <<object, drawn>>
  <2>1. Moves(j, "discard", job[j].todo, job[j].keys, job[j].reply)
    BY <1>3, KnownJob, GoesOnMoves DEF Stages
  <2>2. CopiesOf(j)'
    BY <1>1, <1>3, <2>1, ForwardStage DEF CopiesOf, Moves, Rows
  <2> QED BY <1>1, <1>3, <2>1, <2>2, CopiesGoOn DEF storage
<1> QED BY <1>2, <1>3 DEF CopyObject

LEMMA RecordsCopies ==
    ASSUME CopiesPlaced, FInv, NEW j \in JobSlots, CreateUnattachedAttachmentRecords(j)
    PROVE  CopiesPlaced'
<1>1. job[j].op = "forward" /\ job[j].at = "copy" /\ UNCHANGED storage
  BY DEF CreateUnattachedAttachmentRecords, AllCopied, At
<1>2. /\ Moves(j, "check", job[j].todo, job[j].keys, job[j].reply)
      /\ job[j].place = "channel" => UNCHANGED fileRow
      /\ job[j].place # "channel" =>
             CreateRows(job[j].keys, NoPost) /\ Rows' = Rows \cup job[j].keys
  BY RecordsCreated
<1>3. CopiesOf(j)'
  BY <1>1, <1>2, ForwardStage DEF CopiesOf, Moves, storage, Rows
<1>4. \A k : Posted(k) => Posted(k)'
  <2>1. \A k : Posted(k) => k \notin job[j].keys
    BY <1>1, ForwardStage DEF CopiesOf, Posted
  <2> QED BY <1>2, <2>1 DEF Posted, Rows, CreateRows
<1>5. \A k : k \notin job[j].keys => (k \in Rows' <=> k \in Rows)
  BY <1>2 DEF Rows
<1> QED BY <1>1, <1>2, <1>3, <1>4, <1>5, ForwarderIs, CopiesStep DEF Moves, storage

LEMMA DeleteCopiedObjectCopies ==
    ASSUME CopiesPlaced, FInv, NEW j \in JobSlots, NEW k, DeleteCopiedObject(j, k) PROVE CopiesPlaced'
<1>1. /\ job[j].op = "forward" /\ job[j].at = "discard" /\ k \in job[j].keys
      /\ object' = object \ {k} /\ job' = [job EXCEPT ![j].keys = @ \ {k}]
      /\ UNCHANGED <<aged, fileRow>>
  BY DEF DeleteCopiedObject, At
<1>2. Moves(j, "discard", job[j].todo, job[j].keys \ {k}, job[j].reply)
  BY <1>1, KeyGiven
<1>3. CopiesOf(j)'
  BY <1>1, <1>2, ForwardStage DEF CopiesOf, Moves, Rows
<1>4. \A i \in job[j].keys \ job'[j].keys : i \notin object' \cup Rows'
  BY <1>1, <1>2, ForwardStage DEF CopiesOf, Moves, Rows
<1>5. \A i : Posted(i) => Posted(i)'
  BY <1>1 DEF Posted, Rows
<1>6. \A i : i \notin job[j].keys /\ i \notin job'[j].keys =>
                  (i \in object' <=> i \in object) /\ (i \in Rows' <=> i \in Rows)
  BY <1>1 DEF Rows
<1> QED BY <1>1, <1>2, <1>3, <1>4, <1>5, <1>6, ForwarderIs, CopiesStep DEF Moves

LEMMA DeleteUnreferencedCopyCopies ==
    ASSUME CopiesPlaced, FInv, NEW j \in JobSlots, NEW k, DeleteUnreferencedCopy(j, k) PROVE CopiesPlaced'
<1>1. /\ job[j].op = "forward" /\ job[j].at = "undoObjects" /\ k \in job[j].keys
      /\ job' = [job EXCEPT ![j].keys = @ \ {k}]
      /\ UNCHANGED <<aged, fileRow>>
  BY DEF DeleteUnreferencedCopy, At
<1>2. object' = IF k \in Rows THEN object ELSE object \ {k}
  BY DEF DeleteUnreferencedCopy
<1>3. Moves(j, "undoObjects", job[j].todo, job[j].keys \ {k}, job[j].reply)
  BY <1>1, KeyGiven
<1>4. CopiesOf(j)
  BY <1>1, ForwardStage
<1>5. CopiesOf(j)'
  BY <1>1, <1>2, <1>3, <1>4 DEF CopiesOf, Moves, Rows, Posted
<1>6. \A i \in job[j].keys \ job'[j].keys : i \in object' \cup Rows' => i \in object' /\ Posted(i)'
  BY <1>1, <1>2, <1>3, <1>4 DEF CopiesOf, Moves, Rows, Posted
<1>7. \A i : Posted(i) => Posted(i)'
  BY <1>1 DEF Posted, Rows
<1>8. \A i : i \notin job[j].keys /\ i \notin job'[j].keys =>
                  (i \in object' <=> i \in object) /\ (i \in Rows' <=> i \in Rows)
  BY <1>1, <1>2 DEF Rows
<1> QED BY <1>1, <1>3, <1>5, <1>6, <1>7, <1>8, ForwarderIs, CopiesStep DEF Moves

LEMMA DeleteUnattachedRowsCopies ==
    ASSUME CopiesPlaced, FInv, NEW j \in JobSlots, DeleteUnattachedRows(j) PROVE CopiesPlaced'
<1> DEFINE loose == {k \in job[j].keys \cap Rows : fileRow[k] = NoPost}
<1>1. /\ job[j].op = "forward" /\ job[j].at = "undoRows" /\ UNCHANGED storage
      /\ GoesOn(j, "undoObjects") /\ fileRow' = Restrict(fileRow, Rows \ loose)
  BY DEF DeleteUnattachedRows, At
<1>2. Rows' = Rows \ loose /\ \A k \in Rows' : fileRow'[k] = fileRow[k]
  BY <1>1 DEF Rows, Restrict
<1>3. Moves(j, "undoObjects", job[j].todo, job[j].keys, job[j].reply)
  BY <1>1, KnownJob, GoesOnMoves DEF Stages
<1>4. \A i : Posted(i) => Posted(i)'
  BY <1>2 DEF Posted
<1>5. \A k \in job[j].keys \cap Rows' : Posted(k)'
  BY <1>2 DEF Posted
<1>6. \A i : i \notin job[j].keys => (i \in Rows' <=> i \in Rows)
  BY <1>2
<1> HIDE DEF loose
<1>7. CopiesOf(j)'
  BY <1>1, <1>3, <1>5, ForwardStage DEF CopiesOf, Moves, storage
<1> QED BY <1>1, <1>3, <1>4, <1>6, <1>7, ForwarderIs, CopiesStep DEF Moves, storage

LEMMA UndoneAllCopies ==
    ASSUME CopiesPlaced, FInv, NEW j \in JobSlots, UndoneAll(j) PROVE CopiesPlaced'
<1>1. /\ job[j].op = "forward" /\ job[j].keys = {} /\ UNCHANGED <<storage, fileRow>> /\ Replies(j, "refused")
  BY DEF UndoneAll, At
<1>2. Moves(j, "answered", job[j].todo, job[j].keys, "refused")
  BY <1>1, KnownJob, RepliesMoves
<1>3. CopiesOf(j)'
  BY <1>1, <1>2 DEF CopiesOf, Moves
<1> QED BY <1>1, <1>2, <1>3, CopiesGoOn

LEMMA JobFailsCopies ==
    ASSUME CopiesPlaced, FInv, NEW j \in JobSlots, JobFails(j) PROVE CopiesPlaced'
<1>1. UNCHANGED <<storage, fileRow>>
  BY DEF JobFails
<1>2. CASE job[j].op \in {"upload", "send"} /\ Replies(j, "refused")
  <2>1. Moves(j, "answered", job[j].todo, job[j].keys, "refused")
    BY <1>2, KnownJob, RepliesMoves
  <2> QED BY <1>1, <1>2, <2>1, CopiesGoOn
<1>3. CASE At(j, "forward", "called") /\ Replies(j, "refused")
  <2>1. Moves(j, "answered", job[j].todo, job[j].keys, "refused")
    BY <1>3, KnownJob, RepliesMoves
  <2>2. CopiesOf(j)'
    BY <1>1, <1>3, <2>1, ForwardStage DEF CopiesOf, Moves, At
  <2> QED BY <1>1, <1>3, <2>1, <2>2, CopiesGoOn DEF At
<1>4. CASE At(j, "forward", "copy") /\ GoesOn(j, "discard")
  <2>1. Moves(j, "discard", job[j].todo, job[j].keys, job[j].reply)
    BY <1>4, KnownJob, GoesOnMoves DEF Stages
  <2>2. CopiesOf(j)'
    BY <1>1, <1>4, <2>1, ForwardStage DEF CopiesOf, Moves, At, storage, Rows
  <2> QED BY <1>1, <1>4, <2>1, <2>2, CopiesGoOn DEF At
<1>5. CASE (AllCopied(j) \/ \E at \in {"check", "write", "written"} : At(j, "forward", at)) /\ GivesUp(j)
  BY <1>1, <1>5, GivesUpCopies DEF AllCopied, At
<1> QED BY <1>2, <1>3, <1>4, <1>5 DEF JobFails

LEMMA FileServiceCopies ==
    ASSUME CopiesPlaced, FInv, NEW j \in JobSlots, FileService(j) PROVE CopiesPlaced'
BY PutObjectCopies, CreateUnattachedAttachmentCopies, StartsSendingCopies,
   FindUnattachedAttachmentsCopies, CreateWithFilesCopies, AnswersSentCopies, LoadSourceMessageCopies,
   CopyObjectCopies, DeleteCopiedObjectCopies, DeleteUnreferencedCopyCopies, RecordsCopies,
   DeleteUnattachedRowsCopies, UndoneAllCopies DEF FileService, Forwards

\* The composer makes and forgets calls of its own only.
LEMMA ComposerLeavesForwards ==
    ASSUME FInv,
           \/ \E f \in Files : UploadAnswered(f) \/ RetryAttachment(f)
           \/ \E s \in Submits : MessageSent(s) \/ MessageRefused(s) \/ SubmitMessage(s)
           \/ \E f : AddFile(f) \/ RemoveAttachment(f)
           \/ EditStart \/ EditEnd
    PROVE  UNCHANGED <<storage, fileRow, post, script>> /\ \A w \in Forwarders : job'[w] = job[w]
<1>0. job \in [JobSlots -> JobRecord]
  BY Composing
<1>1. ASSUME NEW f \in Files, UploadAnswered(f)
      PROVE  UNCHANGED <<storage, fileRow, post, script>> /\ \A w \in Forwarders : job'[w] = job[w]
  <2> DEFINE jobs == [job EXCEPT ![f] = IdleJob]
  <2>1. /\ UNCHANGED <<storage, fileRow, post, script>>
        /\ \/ \E s \in Waiting(f) : Continue(s, DraftAfter(f), Awaiting(f), jobs)
           \/ job' = jobs
    BY <1>1, UploadAnsweredIs
  <2>2. \A w \in Forwarders : jobs[w] = job[w]
    BY <1>0
  <2>3. jobs \in [JobSlots -> JobRecord]
    BY <1>0, IdleRecord
  <2> HIDE DEF jobs
  <2>4. ASSUME NEW s \in Submits, Continue(s, DraftAfter(f), Awaiting(f), jobs)
        PROVE  \A w \in Forwarders : job'[w] = jobs[w]
    BY <2>3, <2>4 DEF Continue
  <2> QED BY <2>1, <2>2, <2>4 DEF Waiting
<1>2. ASSUME NEW f \in Files, RetryAttachment(f)
      PROVE  UNCHANGED <<storage, fileRow, post, script>> /\ \A w \in Forwarders : job'[w] = job[w]
  BY <1>2 DEF RetryAttachment, UploadAll
<1>3. ASSUME NEW s \in Submits, MessageSent(s) \/ MessageRefused(s)
      PROVE  UNCHANGED <<storage, fileRow, post, script>> /\ \A w \in Forwarders : job'[w] = job[w]
  BY <1>0, <1>3 DEF MessageSent, MessageRefused
<1>4. ASSUME NEW s \in Submits, SubmitMessage(s)
      PROVE  UNCHANGED <<storage, fileRow, post, script>> /\ \A w \in Forwarders : job'[w] = job[w]
  <2> DEFINE needs == {f \in Files : draft[f].status \in {"ready", "failed"}}
             sub == [submit EXCEPT ![s] = [at |-> "uploads", needs |-> needs, ok |-> TRUE]]
  <2>1. /\ UNCHANGED <<storage, fileRow, post, script>>
        /\ Continue(s, draft, sub, job) \/ UploadAll(needs)
    BY <1>4 DEF SubmitMessage
  <2>2. needs \subseteq Files
    OBVIOUS
  <2> HIDE DEF sub, needs
  <2>3. Continue(s, draft, sub, job) => \A w \in Forwarders : job'[w] = job[w]
    BY <1>0 DEF Continue
  <2> QED BY <2>1, <2>2, <2>3 DEF UploadAll
<1>5. ASSUME \/ \E f : AddFile(f) \/ RemoveAttachment(f)
             \/ EditStart \/ EditEnd
      PROVE  UNCHANGED <<storage, fileRow, post, script>> /\ \A w \in Forwarders : job'[w] = job[w]
  BY <1>5 DEF AddFile, RemoveAttachment, EditStart, EditEnd, files, storage
<1> QED BY <1>1, <1>2, <1>3, <1>4, <1>5

LEMMA ForwardCopies ==
    ASSUME CopiesPlaced, FInv, NEW w \in Forwarders, NEW to \in Places, Forward(w, to) PROVE CopiesPlaced'
<1> DEFINE c == CallsFor("forward", to, {})
<1>1. c.at = "called" /\ c.keys = {} /\ c.op = "forward"
  BY CallRecord DEF Ops
<1>2. job' = [job EXCEPT ![w] = c] /\ UNCHANGED <<storage, fileRow>> /\ job[w].at = "idle"
  BY DEF Forward
<1>3. job[w] = IdleJob
  BY <1>2, KnownJob DEF JobKnown, KnownCall
<1> HIDE DEF c
<1>4. job'[w] = c /\ \A i \in JobSlots \ {w} : job'[i] = job[i]
  BY <1>2, Composing
<1>5. CopiesOf(w)'
  BY <1>1, <1>4 DEF CopiesOf
<1> QED BY <1>1, <1>2, <1>3, <1>4, <1>5, IdleRecord, CopiesStep DEF storage, Rows, Posted

LEMMA ForwardedCopies ==
    ASSUME CopiesPlaced, FInv, NEW w \in Forwarders, Forwarded(w) PROVE CopiesPlaced'
<1>1. job' = [job EXCEPT ![w] = IdleJob] /\ UNCHANGED <<storage, fileRow>> /\ job[w].at = "answered"
  BY DEF Forwarded
<1>2. job'[w] = IdleJob /\ \A i \in JobSlots \ {w} : job'[i] = job[i]
  BY <1>1, Composing
<1>3. CopiesOf(w)'
  BY <1>2, IdleRecord DEF CopiesOf
<1>4. \A k \in job[w].keys : k \in object /\ Posted(k)
  BY <1>1 DEF CopiesPlaced, CopiesOf
<1> QED BY <1>1, <1>2, <1>3, <1>4, IdleRecord, CopiesStep DEF storage, Rows, Posted

LEMMA ADayPassesCopies ==
    ASSUME Copies, FInv, ADayPasses PROVE Copies'
<1>1. \A w \in Forwarders : job[w].keys = {}
  BY KnownJob, IdleRecord DEF ADayPasses, JobKnown, KnownCall
<1>2. \A k \in object : IsCopy(k) => Posted(k)
  BY <1>1 DEF Copies, CopiesPlaced
<1>3. aged' = aged \cup object /\ UNCHANGED <<object, fileRow, job, script>>
  BY DEF ADayPasses
<1>4. CopiesPlaced'
  BY <1>2, <1>3 DEF Copies, CopiesPlaced, CopiesOf, Posted, Rows
<1> QED BY <1>3, <1>4 DEF Copies, ScriptSpares

LEMMA CleanUpCopies ==
    ASSUME Copies, FInv, CleanUp PROVE Copies'
<1>1. \A w \in Forwarders : job'[w] = job[w]
  BY DEF CleanUp, ListAllObjects, FetchDbKeys, DeleteOrphan, ScriptEnds
<1>2. UNCHANGED <<aged, fileRow>> /\ \A k : IsCopy(k) => (k \in object' <=> k \in object)
  BY DEF CleanUp, ListAllObjects, FetchDbKeys, DeleteOrphan, ScriptEnds, storage, Copies, ScriptSpares
<1>3. CopiesPlaced'
  BY <1>1, <1>2, CopiesElsewhere DEF Copies, Rows, Posted
<1>4. ScriptSpares'
  <2>1. \A k \in aged : IsCopy(k) => k \in Rows
    BY DEF Copies, CopiesPlaced, Posted
  <2>2. script \in ScriptRecord
    BY DEF FInv, FilesTyped
  <2>3. CASE ListAllObjects
    BY <2>3 DEF ListAllObjects, storage, ScriptSpares
  <2>4. CASE FetchDbKeys
    BY <2>1, <2>4 DEF FetchDbKeys, storage, Copies, ScriptSpares
  <2>5. CASE DeleteOrphan
    <3>1. PICK k \in script.keys : script' = [script EXCEPT !.keys = @ \ {k}]
      BY <2>5 DEF DeleteOrphan
    <3>2. script'.at = script.at /\ script'.keys = script.keys \ {k}
      BY <2>2, <3>1 DEF ScriptRecord
    <3> QED BY <1>2, <3>2 DEF Copies, ScriptSpares
  <2>6. CASE ScriptEnds
    <3>1. script'.at = "idle" /\ script'.keys = script.keys
      BY <2>2, <2>6 DEF ScriptEnds, ScriptRecord
    <3> QED BY <1>2, <3>1 DEF Copies, ScriptSpares
  <2> QED BY <2>3, <2>4, <2>5, <2>6 DEF CleanUp
<1> QED BY <1>3, <1>4 DEF Copies

LEMMA FileStepCopies ==
    ASSUME FInv, WorkloadOK, workload.about = "files", CopiesUnlessUnlucky, FileStep
    PROVE  CopiesUnlessUnlucky'
<1> SUFFICES ASSUME ~unlucky' PROVE Copies'
  BY DEF CopiesUnlessUnlucky
<1>1. ~unlucky /\ (FilesMove \/ FilesTurn)
  BY DEF FileStep
<1>2. Copies
  BY <1>1 DEF CopiesUnlessUnlucky
<1>3. ASSUME CopiesPlaced', UNCHANGED <<aged, script>> PROVE Copies'
  BY <1>2, <1>3 DEF Copies, ScriptSpares
<1>4. ASSUME NEW j \in JobSlots, FileService(j) PROVE Copies'
  <2>1. UNCHANGED <<aged, script>>
    BY <1>4 DEF FileService, Forwards, PutObject, CreateUnattachedAttachment, StartsSending,
       FindUnattachedAttachments, CreateWithFiles, AnswersSent, LoadSourceMessage, CopyObject,
       DeleteCopiedObject, DeleteUnreferencedCopy, CreateUnattachedAttachmentRecords,
       DeleteUnattachedRows, UndoneAll, storage
  <2> QED BY <1>2, <1>3, <1>4, <2>1, FileServiceCopies DEF Copies
<1>5. ASSUME NEW j \in JobSlots, JobFails(j) PROVE Copies'
  BY <1>2, <1>3, <1>5, JobFailsCopies DEF Copies, JobFails, storage
<1>6. ASSUME NEW w \in Forwarders, NEW to \in Places, Forward(w, to) PROVE Copies'
  BY <1>2, <1>3, <1>6, ForwardCopies DEF Copies, Forward, storage
<1>7. ASSUME NEW w \in Forwarders, Forwarded(w) PROVE Copies'
  BY <1>2, <1>3, <1>7, ForwardedCopies DEF Copies, Forwarded, storage
<1>8. ASSUME UNCHANGED <<storage, fileRow, post, script>>, \A w \in Forwarders : job'[w] = job[w]
      PROVE  Copies'
  <2>1. CopiesPlaced'
    BY <1>2, <1>8, CopiesElsewhere DEF Copies, storage, Rows, Posted
  <2> QED BY <1>3, <1>8, <2>1 DEF storage
<1>9. CASE FilesMove
  BY <1>2, <1>4, <1>7, <1>8, <1>9, ComposerLeavesForwards, CleanUpCopies DEF FilesMove, Composes
<1>10. CASE FilesTurn
  <2>1. workload.forwarders \subseteq Forwarders
    BY WorkloadsAssumption DEF WorkloadOK
  <2> QED BY <1>2, <1>5, <1>6, <1>8, <1>10, <2>1, ComposerLeavesForwards, ADayPassesCopies DEF FilesTurn
<1> QED BY <1>1, <1>9, <1>10

LEMMA InitCopies ==
    ASSUME MCInit PROVE CopiesUnlessUnlucky
<1>1. PICK n, at, taken : n \in Nat /\ FilesInit(n, at, taken)
  <2>1. CASE workload.about = "files" /\ FilesInit(workload.source, workload.at, workload.taken)
    <3>1. workload.source \in Nat
      BY <2>1, WorkloadsAssumption DEF MCInit
    <3> QED BY <2>1, <3>1
  <2>2. CASE FilesInit(0, "channel", 0)
    BY <2>2
  <2> QED BY <2>1, <2>2 DEF MCInit
<1> DEFINE keys == {<<"attachments", i>> : i \in 1..n}
<1>2. \A k \in keys : ~IsCopy(k)
  BY DEF IsCopy
<1>3. /\ object \subseteq keys /\ aged = {} /\ Rows = keys
      /\ job = [j \in JobSlots |-> IdleJob] /\ script = [at |-> "idle", keys |-> {}]
  BY <1>1 DEF FilesInit, Rows
<1> HIDE DEF keys
<1> QED BY <1>2, <1>3, IdleRecord DEF CopiesUnlessUnlucky, Copies, CopiesPlaced, CopiesOf, ScriptSpares

LEMMA StepKeepsCopies ==
    ASSUME FInv, WorkloadOK, CopiesUnlessUnlucky, [MCNext]_mcvars PROVE CopiesUnlessUnlucky'
<1>1. CASE workload.about = "files" /\ FileStep
  BY <1>1, FileStepCopies
<1>2. CASE UNCHANGED fileVars
  BY <1>2 DEF fileVars, files, storage, fileHistory, CopiesUnlessUnlucky, Copies, CopiesPlaced, CopiesOf,
     ScriptSpares, Posted, Rows
<1> QED BY <1>1, <1>2 DEF MCNext, mcvars

\* A forward that fails, or is refused, leaves no object and no row of a copy behind
\* (forward.service.ts), unless the server died or the undoing itself failed.
THEOREM ForwardsCleanUp == MCSpec => []NothingLeftBehind
<1>1. MCInit => FInv /\ WorkloadOK /\ CopiesUnlessUnlucky
  BY InitFInv, InitCopies
<1>2. FInv /\ WorkloadOK /\ CopiesUnlessUnlucky /\ [MCNext]_mcvars
          => (FInv /\ WorkloadOK /\ CopiesUnlessUnlucky)'
  BY StepKeepsFInv, StepKeepsCopies
<1>3. FInv /\ CopiesUnlessUnlucky => NothingLeftBehind
  BY CopiesSuffice
<1> QED BY <1>1, <1>2, <1>3, PTL DEF MCSpec

-----------------------------------------------------------------------------
(*****************************************************************************)
(* The page and the services: every step of a call, as its caller may rely   *)
(* on it, and what the page knows of the calls it has made.                  *)
(*****************************************************************************)
\* The stages of a call, as far as its caller can tell.
SendProtocol(j, at, todo, keys) ==
    /\ at = "check" => job[j].at = "called" /\ keys = job[j].todo
    /\ at = "write" => /\ job[j].at = "check" /\ keys = job[j].keys /\ UNCHANGED fileRow
                       /\ job[j].place # "channel" => \A k \in keys : fileRow[k] = NoPost
    /\ todo = job[j].todo
Writes(j) ==
    /\ job[j].at = "write" /\ NextPost <= MaxPosts /\ Write(j, NextPost) /\ UNCHANGED <<storage, script>>
    /\ job[j].place = "channel" => job[j].keys \cap Rows = {}
Protocol(j, at, todo, keys, reply) ==
    /\ Running(j) /\ at \notin {"idle", "called"}
    /\ job[j].op = "send" => SendProtocol(j, at, todo, keys)
    /\ job[j].op = "upload" => \A k \in keys : k \in job[j].keys \/ k[2] > drawn
    /\ at = "written" => Writes(j) /\ keys = job[j].keys
    /\ at # "written" => UNCHANGED post
Served(j) == \E at, todo, keys, reply : Moves(j, at, todo, keys, reply) /\ Protocol(j, at, todo, keys, reply)

LEMMA GoingOnServed ==
    ASSUME FInv, NEW j \in JobSlots, NEW at \in Stages, GoesOn(j, at), Running(j), UNCHANGED post,
           at \notin {"idle", "called", "written"}, job[j].op = "forward" \/ at = "write",
           at = "write" => /\ job[j].at = "check" /\ UNCHANGED fileRow
                           /\ job[j].place # "channel" => \A k \in job[j].keys : fileRow[k] = NoPost
    PROVE  Served(j)
<1>1. Moves(j, at, job[j].todo, job[j].keys, job[j].reply)
  BY KnownJob, GoesOnMoves
<1>2. Protocol(j, at, job[j].todo, job[j].keys, job[j].reply)
  BY DEF Protocol, SendProtocol
<1> QED BY <1>1, <1>2 DEF Served

LEMMA ReplyingServed ==
    ASSUME FInv, NEW j \in JobSlots, NEW reply \in {"done", "refused"}, Replies(j, reply), Running(j), UNCHANGED post
    PROVE  Served(j)
<1>1. Moves(j, "answered", job[j].todo, job[j].keys, reply)
  BY KnownJob, RepliesMoves
<1>2. Protocol(j, "answered", job[j].todo, job[j].keys, reply)
  BY DEF Protocol, SendProtocol
<1> QED BY <1>1, <1>2 DEF Served

LEMMA GivingUpServed ==
    ASSUME FInv, NEW j \in JobSlots, GivesUp(j), Running(j), UNCHANGED post
    PROVE  Served(j)
BY GoingOnServed, ReplyingServed DEF GivesUp, Stages

LEMMA PutObjectMoves ==
    ASSUME FInv, NEW j \in JobSlots, PutObject(j)
    PROVE  Moves(j, "stored", job[j].todo, {<<"attachments", drawn + 1>>}, job[j].reply)
<1> DEFINE key == <<"attachments", drawn + 1>>
           q == [job[j] EXCEPT !.at = "stored", !.keys = {key}]
<1>1. key \in KeySpace
  BY NewKey DEF PutObject, Prefixes
<1> HIDE DEF key
<1>2. /\ q \in JobRecord /\ q.op = job[j].op /\ q.place = job[j].place
      /\ q.at = "stored" /\ q.todo = job[j].todo /\ q.keys = {key} /\ q.reply = job[j].reply
  BY <1>1, KnownJob DEF JobRecord, Stages
<1>3. job' = [job EXCEPT ![j] = q]
  <2>1. job' = [job EXCEPT ![j].at = "stored", ![j].keys = {key}]
    BY DEF PutObject, key
  <2> QED BY <2>1, KnownJob DEF FilesTyped
<1> HIDE DEF q
<1>4. Moves(j, q.at, q.todo, q.keys, q.reply)
  BY <1>2, <1>3, KnownJob, MovesTo
<1> QED BY <1>2, <1>4 DEF key

LEMMA StartsSendingMoves ==
    ASSUME FInv, NEW j \in JobSlots, StartsSending(j)
    PROVE  Moves(j, "check", job[j].todo, job[j].todo, job[j].reply)
<1> DEFINE q == [job[j] EXCEPT !.at = "check", !.keys = job[j].todo]
<1>1. /\ q \in JobRecord /\ q.op = job[j].op /\ q.place = job[j].place
      /\ q.at = "check" /\ q.todo = job[j].todo /\ q.keys = job[j].todo /\ q.reply = job[j].reply
  BY KnownJob DEF JobRecord, Stages
<1>2. job' = [job EXCEPT ![j] = q]
  <2>1. job' = [job EXCEPT ![j].at = "check", ![j].keys = job[j].todo]
    BY DEF StartsSending
  <2> QED BY <2>1, KnownJob DEF FilesTyped
<1> HIDE DEF q
<1> QED BY <1>1, <1>2, KnownJob, MovesTo

LEMMA CopyingServed ==
    ASSUME FInv, NEW j \in JobSlots, job[j].op = "forward", Running(j), UNCHANGED post,
           NEW at, at \notin {"idle", "called", "written"}, NEW todo, NEW keys,
           Moves(j, at, todo, keys, job[j].reply)
    PROVE  Served(j)
<1>1. Protocol(j, at, todo, keys, job[j].reply)
  BY DEF Protocol
<1> QED BY <1>1 DEF Served

LEMMA FileServiceServed ==
    ASSUME FInv, NEW j \in JobSlots, FileService(j) PROVE Served(j)
<1>1. CASE PutObject(j)
  <2>1. Moves(j, "stored", job[j].todo, {<<"attachments", drawn + 1>>}, job[j].reply)
    BY <1>1, PutObjectMoves
  <2>2. Protocol(j, "stored", job[j].todo, {<<"attachments", drawn + 1>>}, job[j].reply)
    BY <1>1, KnownJob DEF PutObject, At, Running, Protocol
  <2> QED BY <2>1, <2>2 DEF Served
<1>2. CASE CreateUnattachedAttachment(j)
  BY <1>2, ReplyingServed DEF CreateUnattachedAttachment, At, Running
<1>3. CASE StartsSending(j)
  <2>1. Moves(j, "check", job[j].todo, job[j].todo, job[j].reply)
    BY <1>3, StartsSendingMoves
  <2>2. Protocol(j, "check", job[j].todo, job[j].todo, job[j].reply)
    BY <1>3 DEF StartsSending, At, Running, Protocol, SendProtocol
  <2> QED BY <2>1, <2>2 DEF Served
<1>4. CASE FindUnattachedAttachments(j)
  <2>1. Running(j) /\ job[j].at = "check" /\ UNCHANGED <<fileRow, post>>
    BY <1>4 DEF FindUnattachedAttachments, Sending, Running
  <2>2. CASE GivesUp(j)
    BY <2>1, <2>2, GivingUpServed
  <2>3. CASE GoesOn(j, "write") /\ (job[j].place # "channel" => \A k \in job[j].keys : fileRow[k] = NoPost)
    BY <2>1, <2>3, GoingOnServed DEF Stages
  <2> QED BY <1>4, <2>2, <2>3 DEF FindUnattachedAttachments
<1>5. CASE CreateWithFiles(j)
  <2>1. Running(j) /\ job[j].at = "write"
    BY <1>5 DEF CreateWithFiles, Sending, Running
  <2>2. CASE GivesUp(j) /\ UNCHANGED post
    BY <2>1, <2>2, GivingUpServed
  <2>3. CASE Writes(j) /\ GoesOn(j, "written")
    <3>1. Moves(j, "written", job[j].todo, job[j].keys, job[j].reply)
      BY <2>3, KnownJob, GoesOnMoves DEF Stages
    <3>2. Protocol(j, "written", job[j].todo, job[j].keys, job[j].reply)
      BY <2>1, <2>3 DEF Protocol, SendProtocol
    <3> QED BY <3>1, <3>2 DEF Served
  <2> QED BY <1>5, <2>1, <2>2, <2>3 DEF CreateWithFiles, Writes
<1>6. CASE AnswersSent(j)
  BY <1>6, ReplyingServed DEF AnswersSent, Sending, Running
<1>7. ASSUME NEW m, LoadSourceMessage(j, m) PROVE Served(j)
  BY <1>7, LoadSourceMessageMoves, CopyingServed DEF LoadSourceMessage, At, Running
<1>8. ASSUME NEW k, CopyObject(j, k) PROVE Served(j)
  <2>1. job[j].op = "forward" /\ Running(j) /\ UNCHANGED post
    BY <1>8 DEF CopyObject, At, Running
  <2>2. CASE k \in object
    BY <1>8, <2>1, <2>2, CopyMade, CopyingServed
  <2>3. CASE k \notin object
    BY <1>8, <2>1, <2>3, GoingOnServed DEF CopyObject, Stages
  <2> QED BY <2>2, <2>3
<1>9. ASSUME NEW k, DeleteCopiedObject(j, k) \/ DeleteUnreferencedCopy(j, k) PROVE Served(j)
  <2>1. /\ job[j].op = "forward" /\ Running(j) /\ UNCHANGED post
        /\ job[j].at \in {"discard", "undoObjects"} /\ job' = [job EXCEPT ![j].keys = @ \ {k}]
    BY <1>9 DEF DeleteCopiedObject, DeleteUnreferencedCopy, At, Running
  <2> QED BY <2>1, KeyGiven, CopyingServed
<1>10. CASE CreateUnattachedAttachmentRecords(j)
  BY <1>10, GoingOnServed DEF CreateUnattachedAttachmentRecords, AllCopied, At, Running, Stages
<1>11. CASE DeleteUnattachedRows(j)
  BY <1>11, GoingOnServed DEF DeleteUnattachedRows, At, Running, Stages
<1>12. CASE UndoneAll(j)
  BY <1>12, ReplyingServed DEF UndoneAll, At, Running
<1> QED BY <1>1, <1>2, <1>3, <1>4, <1>5, <1>6, <1>7, <1>8, <1>9, <1>10, <1>11, <1>12 DEF FileService, Forwards

LEMMA FailuresServed ==
    ASSUME FInv, NEW j \in JobSlots, JobFails(j) \/ StorageAnswerLost(j) \/ UndoFails(j) PROVE Served(j)
<1>1. UNCHANGED post
  BY DEF JobFails, StorageAnswerLost, UndoFails
<1>2. CASE JobFails(j)
  <2>1. CASE Running(j) /\ Replies(j, "refused")
    BY <1>1, <2>1, ReplyingServed
  <2>2. CASE At(j, "forward", "copy") /\ GoesOn(j, "discard")
    BY <1>1, <2>2, GoingOnServed DEF At, Running, Stages
  <2>3. CASE (AllCopied(j) \/ \E at \in {"check", "write", "written"} : At(j, "forward", at)) /\ GivesUp(j)
    BY <1>1, <2>3, GivingUpServed DEF AllCopied, At, Running
  <2> QED BY <1>2, <2>1, <2>2, <2>3 DEF JobFails, At, Running
<1>3. CASE StorageAnswerLost(j)
  BY <1>1, <1>3, ReplyingServed, GoingOnServed DEF StorageAnswerLost, At, Running, Stages
<1>4. CASE UndoFails(j)
  <2>1. job[j].op = "forward" /\ Running(j) /\ job[j].at \in {"undoRows", "discard", "undoObjects"}
    BY <1>4 DEF UndoFails, At, Running
  <2>2. CASE GoesOn(j, "undoObjects")
    BY <1>1, <2>1, <2>2, GoingOnServed DEF Stages
  <2>3. CASE \E k \in job[j].keys : job' = [job EXCEPT ![j].keys = @ \ {k}]
    BY <1>1, <1>4, <2>1, <2>3, KeyGiven, CopyingServed
  <2> QED BY <1>4, <2>2, <2>3 DEF UndoFails
<1> QED BY <1>2, <1>3, <1>4

-----------------------------------------------------------------------------
\* The calls of the page: who sends, and where.
Calling ==
    /\ \A s \in Submits : submit[s].at = "sending" <=> job[s].at # "idle"
    /\ \A f \in Files : job[f].at # "idle" => draft[f].status \in {"uploading", "gone"}
    /\ \A j \in Files \cup Submits : job[j].at # "idle" => job[j].place = place
\* An upload is awaited by one submission at most, and is under way.
Awaited ==
    /\ \A s \in Submits : submit[s].at # "uploads" => submit[s].needs = {}
    /\ \A s \in Submits : \A f \in submit[s].needs : job[f].at # "idle"
    /\ \A s, t \in Submits : s # t => submit[s].needs \cap submit[t].needs = {}
\* Only the group page submits while it sends.
Alone == place # "group" => \A s, t \in Submits : Busy(s) => sendState = "loading" /\ (Busy(t) => s = t)
Crowd ==
    /\ \A s \in crowded : s \in Submits /\ Busy(s) /\ place = "group"
    /\ place = "group" => \A s, t \in Submits : Busy(s) /\ Busy(t) /\ s # t => s \in crowded
\* What an uncrowded submission has sent, or is about to, are the files that were meant.
MeantBy(s) ==
    /\ submit[s].at = "uploads" => meant[s] \subseteq InDraft(draft)
    /\ submit[s].at = "sending" => \A f \in meant[s] :
        /\ f \in Files /\ draft[f].status \in {"uploaded", "gone"}
        /\ job[s].at = "called" => draft[f].key \in job[s].todo
        /\ job[s].at \in {"check", "write"} => draft[f].key \in job[s].keys
MeantKnown == \A s \in Submits \ crowded : MeantBy(s)
PageKnown == Calling /\ Awaited /\ Alone /\ Crowd /\ MeantKnown

LEMMA Crowding ==
    ASSUME PageKnown, FileHistory, UNCHANGED place
    PROVE  Crowd'
BY DEF PageKnown, Crowd, FileHistory, Busy

\* A submission that is alone has not been crowded before.
LEMMA Uncrowding ==
    ASSUME PageKnown, FileHistory, NEW s \in Submits \ crowded', Busy(s)'
    PROVE  s \notin crowded /\ (place = "group" => \A t \in Submits \ {s} : ~Busy(t)')
BY DEF FileHistory, Busy

LEMMA MeantStays ==
    ASSUME FileHistory, NEW s \in Submits, submit[s].at # "idle"
    PROVE  /\ meant'[s] \subseteq meant[s]
           /\ submit[s].at = "uploads" => meant'[s] = meant[s] \ TakenOut
BY DEF FileHistory, Submitting

\* The page does nothing, and its calls go on.
LEMMA CallsGoOn ==
    ASSUME FInv, PageKnown, FileHistory, UNCHANGED composer,
           \A j \in Files \cup Submits : (job'[j].at = "idle" <=> job[j].at = "idle")
                                         /\ job'[j].place = job[j].place,
           \A s \in Submits :
               /\ job'[s].at = "called" => job[s].at = "called" /\ job'[s].todo = job[s].todo
               /\ job'[s].at \in {"check", "write"} =>
                      \/ job[s].at = "called" /\ job'[s].keys = job[s].todo
                      \/ job[s].at \in {"check", "write"} /\ job'[s].keys = job[s].keys
    PROVE  PageKnown'
<1>1. Crowd'
  BY Crowding DEF composer
<1>2. Calling' /\ Awaited' /\ Alone'
  <2>1. Calling'
    BY DEF PageKnown, Calling, composer
  <2>2. Awaited'
    <3>1. \A s \in Submits : \A f \in submit[s].needs : f \in Files
      BY Composing DEF SubmitRecord
    <3> QED BY <3>1 DEF PageKnown, Awaited, composer
  <2>3. Alone'
    BY DEF PageKnown, Alone, composer, Busy
  <2> QED BY <2>1, <2>2, <2>3
<1>3. ASSUME NEW s \in Submits \ crowded' PROVE MeantBy(s)'
  <2>1. CASE submit[s].at = "idle"
    BY <2>1 DEF MeantBy, composer
  <2>2. CASE submit[s].at # "idle"
    <3>1. MeantBy(s)
      BY <1>3, <2>2, Uncrowding DEF PageKnown, MeantKnown, Busy, composer
    <3>2. meant'[s] \subseteq meant[s]
      BY <2>2, MeantStays
    <3> QED BY <3>1, <3>2 DEF MeantBy, composer
  <2> QED BY <2>1, <2>2
<1> QED BY <1>1, <1>2, <1>3 DEF PageKnown, MeantKnown

LEMMA ServedPage ==
    ASSUME FInv, PageKnown, FileHistory, UNCHANGED composer, NEW j \in JobSlots, Served(j)
    PROVE  PageKnown'
<1>1. PICK at, todo, keys, reply : Moves(j, at, todo, keys, reply) /\ Protocol(j, at, todo, keys, reply)
  BY DEF Served
<1>2. \A i \in Files \cup Submits : (job'[i].at = "idle" <=> job[i].at = "idle")
                                    /\ job'[i].place = job[i].place
  BY <1>1 DEF Moves, Protocol, Running
<1>3. ASSUME NEW s \in Submits
      PROVE  /\ job'[s].at = "called" => job[s].at = "called" /\ job'[s].todo = job[s].todo
             /\ job'[s].at \in {"check", "write"} =>
                    \/ job[s].at = "called" /\ job'[s].keys = job[s].todo
                    \/ job[s].at \in {"check", "write"} /\ job'[s].keys = job[s].keys
  <2>1. CASE s = j
    <3>1. job[s].op = "send"
      BY <1>1, <2>1, KnownJob DEF Protocol, Running, JobKnown, KnownCall
    <3> QED BY <1>1, <2>1, <3>1 DEF Moves, Protocol, SendProtocol
  <2>2. CASE s # j
    BY <1>1, <2>2 DEF Moves
  <2> QED BY <2>1, <2>2
<1> QED BY <1>2, <1>3, CallsGoOn

LEMMA CrashPage ==
    ASSUME FInv, PageKnown, FileHistory, UNCHANGED composer, Crash
    PROVE  PageKnown'
<1>1. ASSUME NEW j \in JobSlots
      PROVE  \/ job'[j] = job[j]
             \/ job'[j].at = "answered" /\ job[j].at # "idle" /\ job'[j].place = job[j].place
  <2>1. job[j] \in JobRecord
    BY KnownJob
  <2> QED BY <2>1 DEF Crash, Running, JobRecord
<1> QED BY <1>1, CallsGoOn

LEMMA OthersPage ==
    ASSUME FInv, PageKnown, FileHistory, UNCHANGED composer, \A j \in Files \cup Submits : job'[j] = job[j]
    PROVE  PageKnown'
BY CallsGoOn

LEMMA EmptiedStatus ==
    ASSUME NEW d \in [Files -> DraftRecord], NEW f \in Files
    PROVE  /\ Emptied(d)[f].key = d[f].key
           /\ Emptied(d)[f].status = IF f \in InDraft(d) THEN "gone" ELSE d[f].status
BY WithStatusTyped DEF Emptied

LEMMA DraftingPage ==
    ASSUME FInv, PageKnown, FileHistory, UNCHANGED <<job, place, submit, sendState>>,
           \A f \in Files : draft'[f].key = draft[f].key,
           \A f \in Files : draft[f].status \in {"uploading", "gone"} => draft'[f].status \in {"uploading", "gone"},
           \A f \in Files : draft[f].status \in {"uploaded", "gone"} => draft'[f].status \in {"uploaded", "gone"},
           \A f \in InDraft(draft) : f \in InDraft(draft') \/ draft'[f].status = "gone"
    PROVE  PageKnown'
<1>1. Crowd'
  BY Crowding
<1>2. Calling'
  BY DEF PageKnown, Calling
<1>3. Awaited'
  BY DEF PageKnown, Awaited
<1>4. Alone'
  BY DEF PageKnown, Alone, Busy
<1>5. ASSUME NEW s \in Submits \ crowded' PROVE MeantBy(s)'
  <2>1. CASE submit[s].at = "idle"
    BY <2>1 DEF MeantBy
  <2>2. CASE submit[s].at # "idle"
    <3>1. MeantBy(s)
      BY <1>5, <2>2, Uncrowding DEF PageKnown, MeantKnown, Busy
    <3>2. meant'[s] \subseteq meant[s]
      BY <2>2, MeantStays
    <3>3. submit[s].at = "uploads" => \A f \in meant'[s] : f \in InDraft(draft) /\ f \notin TakenOut
      BY <2>2, <3>1, MeantStays DEF MeantBy
    <3>4. \A f \in InDraft(draft) : f \notin TakenOut => f \in InDraft(draft')
      BY DEF TakenOut, InDraft
    <3> QED BY <3>1, <3>2, <3>3, <3>4 DEF MeantBy
  <2> QED BY <2>1, <2>2
<1> QED BY <1>1, <1>2, <1>3, <1>4, <1>5 DEF PageKnown, MeantKnown

LEMMA AddFilePage ==
    ASSUME FInv, PageKnown, FileHistory, NEW f, AddFile(f) PROVE PageKnown'
<1>1. \A g \in Files : /\ draft'[g].key = draft[g].key
                       /\ draft'[g].status = IF g \in {f} THEN "ready" ELSE draft[g].status
  BY Composing, WithStatusTyped DEF AddFile
<1>2. draft[f].status = "new" /\ UNCHANGED <<job, place, submit, sendState>>
  BY DEF AddFile, files, composing
<1> QED BY <1>1, <1>2, DraftingPage DEF InDraft

LEMMA RemoveAttachmentPage ==
    ASSUME FInv, PageKnown, FileHistory, NEW f, RemoveAttachment(f) PROVE PageKnown'
<1>1. \A g \in Files : /\ draft'[g].key = draft[g].key
                       /\ draft'[g].status = IF g \in {f} THEN "gone" ELSE draft[g].status
  BY Composing, WithStatusTyped DEF RemoveAttachment
<1>2. UNCHANGED <<job, place, submit, sendState>>
  BY DEF RemoveAttachment, files, composing
<1> QED BY <1>1, <1>2, DraftingPage DEF InDraft

LEMMA EditPage ==
    ASSUME FInv, PageKnown, FileHistory, EditStart \/ EditEnd PROVE PageKnown'
<1>1. UNCHANGED <<job, place, submit, sendState>>
  BY DEF EditStart, EditEnd, files
<1>2. CASE EditStart
  <2>1. draft' = Emptied(draft)
    BY <1>2 DEF EditStart
  <2>2. \A f \in Files : /\ draft'[f].key = draft[f].key
                         /\ draft'[f].status = IF f \in InDraft(draft) THEN "gone" ELSE draft[f].status
    BY <2>1, Composing, EmptiedStatus
  <2> QED BY <1>1, <2>2, DraftingPage DEF InDraft
<1>3. CASE EditEnd
  <2>1. draft' = draft
    BY <1>3 DEF EditEnd
  <2> QED BY <1>1, <2>1, DraftingPage DEF InDraft
<1> QED BY <1>2, <1>3

LEMMA RetryAttachmentPage ==
    ASSUME FInv, PageKnown, FileHistory, NEW f \in Files, RetryAttachment(f) PROVE PageKnown'
<1> DEFINE c == CallsFor("upload", place, {})
<1>1. /\ draft[f].status = "failed" /\ job[f].at = "idle" /\ UNCHANGED <<place, submit, sendState>>
      /\ job' = [j \in JobSlots |-> IF j \in {f} THEN c ELSE job[j]]
      /\ draft' = WithStatus(draft, {f}, "uploading")
  BY DEF RetryAttachment, UploadAll, composing
<1>2. \A g \in Files : /\ draft'[g].key = draft[g].key
                       /\ draft'[g].status = IF g \in {f} THEN "uploading" ELSE draft[g].status
  BY <1>1, Composing, WithStatusTyped
<1>3. c.at = "called" /\ c.place = place
  BY Composing, CallRecord DEF Ops
<1> HIDE DEF c
<1>4. job'[f] = c /\ \A j \in JobSlots \ {f} : job'[j] = job[j]
  BY <1>1, Composing
<1>5. \A s \in Submits : job'[s] = job[s]
  BY <1>4, Composing
<1>6. Crowd'
  BY <1>1, Crowding
<1>7. Calling'
  BY <1>1, <1>2, <1>3, <1>4, <1>5, Composing DEF PageKnown, Calling
<1>8. Awaited'
  <2>1. \A s \in Submits : submit[s].needs \subseteq Files
    BY Composing DEF SubmitRecord
  <2> QED BY <1>1, <1>3, <1>4, <2>1, Composing DEF PageKnown, Awaited
<1>9. Alone'
  BY <1>1 DEF PageKnown, Alone, Busy
<1>10. ASSUME NEW s \in Submits \ crowded' PROVE MeantBy(s)'
  <2>1. CASE submit[s].at = "idle"
    BY <1>1, <2>1 DEF MeantBy
  <2>2. CASE submit[s].at # "idle"
    <3>1. MeantBy(s)
      BY <1>1, <1>10, <2>2, Uncrowding DEF PageKnown, MeantKnown, Busy
    <3>2. meant'[s] \subseteq meant[s]
      BY <2>2, MeantStays
    <3>3. \A g \in InDraft(draft) : g \in InDraft(draft')
      BY <1>2 DEF InDraft
    <3> QED BY <1>1, <1>2, <1>5, <3>1, <3>2, <3>3 DEF MeantBy
  <2> QED BY <2>1, <2>2
<1> QED BY <1>6, <1>7, <1>8, <1>9, <1>10 DEF PageKnown, MeantKnown

\* A submission ends: with an answer, or because an upload has failed.
LEMMA SubmissionEnds ==
    ASSUME FInv, PageKnown, FileHistory, NEW s \in Submits, UNCHANGED place, Busy(s),
           job' = [job EXCEPT ![s] = IdleJob], submit' = [submit EXCEPT ![s] = IdleSubmit],
           \A f \in Files : draft'[f].key = draft[f].key,
           \A f \in Files : draft[f].status \in {"uploading", "gone"} => draft'[f].status \in {"uploading", "gone"}
    PROVE  PageKnown'
<1>1. job'[s] = IdleJob /\ submit'[s] = IdleSubmit
  BY Composing
<1>2. (\A j \in JobSlots \ {s} : job'[j] = job[j]) /\ \A t \in Submits \ {s} : submit'[t] = submit[t]
  BY Composing
<1>3. \A f \in Files : job'[f] = job[f]
  BY <1>2, Composing
<1>4. Crowd'
  BY Crowding
<1>5. Calling'
  BY <1>1, <1>2, <1>3, IdleRecord, IdleSubmitTyped, Composing DEF PageKnown, Calling
<1>6. Awaited'
  <2>1. \A t \in Submits : submit[t].needs \subseteq Files
    BY Composing DEF SubmitRecord
  <2> QED BY <1>1, <1>2, <1>3, <2>1, IdleSubmitTyped DEF PageKnown, Awaited
<1>7. place # "group" => \A t \in Submits : ~Busy(t)'
  BY <1>1, <1>2, IdleSubmitTyped DEF PageKnown, Alone, Busy
<1>8. Alone'
  BY <1>7 DEF Alone
<1>9. ASSUME NEW t \in Submits \ crowded', Busy(t)' PROVE FALSE
  <2>1. t # s /\ Busy(t) /\ t \notin crowded
    BY <1>1, <1>2, <1>9, IdleSubmitTyped, Uncrowding DEF Busy
  <2>2. place = "group"
    BY <1>7, <1>9
  <2> QED BY <2>1, <2>2 DEF PageKnown, Crowd
<1>10. \A t \in Submits \ crowded' : MeantBy(t)'
  BY <1>9 DEF MeantBy, Busy
<1> QED BY <1>4, <1>5, <1>6, <1>8, <1>10 DEF PageKnown, MeantKnown

LEMMA MessageAnsweredPage ==
    ASSUME FInv, PageKnown, FileHistory, NEW s \in Submits, MessageSent(s) \/ MessageRefused(s)
    PROVE  PageKnown'
<1>1. /\ job' = [job EXCEPT ![s] = IdleJob] /\ submit' = [submit EXCEPT ![s] = IdleSubmit]
      /\ UNCHANGED place /\ job[s].at = "answered" /\ (draft' = Emptied(draft) \/ draft' = draft)
  BY DEF MessageSent, MessageRefused, composing
<1>2. Busy(s)
  BY <1>1 DEF PageKnown, Calling, Busy
<1>3. \A f \in Files : /\ draft'[f].key = draft[f].key
                       /\ draft[f].status \in {"uploading", "gone"} => draft'[f].status \in {"uploading", "gone"}
  BY <1>1, Composing, EmptiedStatus
<1> QED BY <1>1, <1>2, <1>3, SubmissionEnds

\* A submission that only waits on, while the composer's files go on.
LEMMA MeantGoesOn ==
    ASSUME FInv, PageKnown, FileHistory, NEW t \in Submits \ crowded', UNCHANGED place,
           submit'[t].at = submit[t].at, job'[t] = job[t],
           \A f \in Files : draft[f].status \in {"uploaded", "gone"} =>
               draft'[f].status \in {"uploaded", "gone"} /\ draft'[f].key = draft[f].key,
           \A f \in InDraft(draft) : f \in InDraft(draft')
    PROVE  MeantBy(t)'
<1>1. CASE submit[t].at = "idle"
  BY <1>1 DEF MeantBy
<1>2. CASE submit[t].at # "idle"
  <2>1. MeantBy(t)
    BY <1>2, Uncrowding DEF PageKnown, MeantKnown, Busy
  <2>2. meant'[t] \subseteq meant[t]
    BY <1>2, MeantStays
  <2> QED BY <2>1, <2>2 DEF MeantBy
<1> QED BY <1>1, <1>2

LEMMA Submissions ==
    ASSUME FInv PROVE \A s \in Submits : submit[s] \in SubmitRecord /\ submit[s].needs \subseteq Files
BY Composing DEF SubmitRecord

\* What a submission does when its uploads are there.
Sends(s, d, needs) ==
    /\ \A f \in InDraft(d) : d[f].status = "uploaded"
    /\ job'[s].at = "called" /\ job'[s].place = place /\ job'[s].todo = KeysOf(d)
    /\ submit'[s].at = "sending" /\ submit'[s].needs = needs /\ sendState' = "loading"
Stops(s, q) == job'[s] = q /\ submit'[s] = IdleSubmit /\ sendState' = "error"
Continued(s, d, sub, jobs) ==
    /\ \A t \in Submits \ {s} : submit'[t] = sub[t]
    /\ \A j \in JobSlots \ {s} : job'[j] = jobs[j]
    /\ Sends(s, d, sub[s].needs) \/ Stops(s, jobs[s])
LEMMA ContinueIs ==
    ASSUME FInv, NEW s \in Submits, NEW d \in [Files -> DraftRecord],
           NEW sub \in [Submits -> SubmitRecord], NEW jobs \in [JobSlots -> JobRecord], Continue(s, d, sub, jobs)
    PROVE  Continued(s, d, sub, jobs)
<1>1. CASE /\ \A f \in InDraft(d) : d[f].status = "uploaded"
           /\ job' = [jobs EXCEPT ![s] = CallsFor("send", place, KeysOf(d))]
           /\ submit' = [sub EXCEPT ![s].at = "sending"] /\ sendState' = "loading"
  <2> DEFINE c == CallsFor("send", place, KeysOf(d))
  <2>1. c.at = "called" /\ c.place = place /\ c.todo = KeysOf(d)
    BY DEF CallsFor, IdleJob
  <2> HIDE DEF c
  <2>2. job'[s] = c /\ \A j \in JobSlots \ {s} : job'[j] = jobs[j]
    BY <1>1, Composing DEF c
  <2>3. /\ submit'[s].at = "sending" /\ submit'[s].needs = sub[s].needs
        /\ \A t \in Submits \ {s} : submit'[t] = sub[t]
    BY <1>1 DEF SubmitRecord
  <2> QED BY <1>1, <2>1, <2>2, <2>3 DEF Continued, Sends
<1>2. CASE job' = jobs /\ submit' = [sub EXCEPT ![s] = IdleSubmit] /\ sendState' = "error"
  BY <1>2, Composing DEF Continued, Stops
<1> QED BY <1>1, <1>2 DEF Continue

Begun(s, needs) == [submit EXCEPT ![s] = [at |-> "uploads", needs |-> needs, ok |-> TRUE]]
LEMMA SubmitMessageIs ==
    ASSUME FInv, NEW s \in Submits, SubmitMessage(s),
           NEW needs, needs = {f \in Files : draft[f].status \in {"ready", "failed"}}
    PROVE  /\ MaySubmit /\ submit[s].at = "idle" /\ job[s].at = "idle" /\ UNCHANGED place
           /\ \A f \in needs : job[f].at = "idle"
           /\ \/ needs = {} /\ Continued(s, draft, Begun(s, needs), job) /\ UNCHANGED draft
              \/ UploadAll(needs) /\ submit' = Begun(s, needs) /\ sendState' = "loading"
<1>1. MaySubmit /\ submit[s].at = "idle" /\ job[s].at = "idle" /\ UNCHANGED place
  BY DEF SubmitMessage, composing
<1>2. /\ \A f \in needs : job[f].at = "idle"
      /\ \/ needs = {} /\ Continue(s, draft, Begun(s, needs), job) /\ UNCHANGED draft
         \/ UploadAll(needs) /\ submit' = Begun(s, needs) /\ sendState' = "loading"
  BY Zenon DEF SubmitMessage, Begun
<1>3. Begun(s, needs) \in [Submits -> SubmitRecord]
  BY Composing DEF Begun, SubmitRecord
<1> QED BY <1>1, <1>2, <1>3, Composing, ContinueIs

LEMMA SubmitMessagePage ==
    ASSUME FInv, PageKnown, FileHistory, NEW s \in Submits, SubmitMessage(s) PROVE PageKnown'
<1> PICK needs : needs = {f \in Files : draft[f].status \in {"ready", "failed"}}
  OBVIOUS
<1> DEFINE sub == Begun(s, needs)
<1>1. /\ MaySubmit /\ submit[s].at = "idle" /\ job[s].at = "idle" /\ UNCHANGED place
      /\ \A f \in needs : job[f].at = "idle"
      /\ \/ needs = {} /\ Continued(s, draft, sub, job) /\ UNCHANGED draft
         \/ UploadAll(needs) /\ submit' = sub /\ sendState' = "loading"
  BY SubmitMessageIs
<1>2. /\ sub \in [Submits -> SubmitRecord] /\ needs \subseteq Files
      /\ sub[s].at = "uploads" /\ sub[s].needs = needs
      /\ \A t \in Submits \ {s} : sub[t] = submit[t]
  BY Composing DEF SubmitRecord, Begun
<1> HIDE DEF sub
<1>3. place # "group" => \A t \in Submits : ~Busy(t)
  BY <1>1 DEF MaySubmit, PageKnown, Alone
<1>4. Crowd'
  BY <1>1, Crowding
<1>5. \A t \in Submits : submit[t].needs \subseteq Files
  BY Submissions
<1>6. CASE needs = {} /\ Continued(s, draft, sub, job) /\ UNCHANGED draft
  <2>1. /\ \A t \in Submits \ {s} : submit'[t] = submit[t]
        /\ \A j \in JobSlots \ {s} : job'[j] = job[j]
    BY <1>2, <1>6 DEF Continued
  <2>2. \/ /\ \A f \in InDraft(draft) : draft[f].status = "uploaded"
           /\ job'[s].at = "called" /\ job'[s].place = place /\ job'[s].todo = KeysOf(draft)
           /\ submit'[s].at = "sending" /\ submit'[s].needs = {} /\ sendState' = "loading"
        \/ job'[s] = job[s] /\ submit'[s] = IdleSubmit
    BY <1>2, <1>6 DEF Continued, Sends, Stops
  <2>3. \A f \in Files : job'[f] = job[f]
    BY <2>1, Composing
  <2>4. Calling'
    BY <1>1, <1>6, <2>1, <2>2, <2>3, IdleSubmitTyped, Composing DEF PageKnown, Calling
  <2>5. Awaited'
    BY <1>5, <2>1, <2>2, <2>3, IdleSubmitTyped DEF PageKnown, Awaited
  <2>6. Alone'
    BY <1>1, <1>3, <2>1, <2>2, IdleSubmitTyped DEF Alone, Busy
  <2>7. ASSUME NEW t \in Submits \ crowded' PROVE MeantBy(t)'
    <3>1. CASE t # s
      BY <1>1, <1>6, <2>1, <3>1, Composing, MeantGoesOn
    <3>2. CASE t = s /\ submit'[s].at = "sending"
      <4>1. meant'[s] = InDraft(draft)
        BY <1>1, <3>2 DEF FileHistory, Submitting
      <4>2. \A f \in InDraft(draft) : draft[f].status = "uploaded" /\ draft[f].key \in job'[s].todo
        BY <2>2, <3>2, IdleSubmitTyped DEF KeysOf
      <4>3. job'[s].at = "called"
        BY <2>2, <3>2, IdleSubmitTyped
      <4> QED BY <1>6, <3>2, <4>1, <4>2, <4>3 DEF MeantBy, InDraft
    <3>3. CASE t = s /\ submit'[s].at = "idle"
      BY <3>3 DEF MeantBy
    <3> QED BY <2>2, <3>1, <3>2, <3>3, IdleSubmitTyped
  <2> QED BY <1>4, <2>4, <2>5, <2>6, <2>7 DEF PageKnown, MeantKnown
<1>7. CASE UploadAll(needs) /\ submit' = sub /\ sendState' = "loading"
  <2> DEFINE c == CallsFor("upload", place, {})
  <2>1. /\ draft' = WithStatus(draft, needs, "uploading")
        /\ job' = [j \in JobSlots |-> IF j \in needs THEN c ELSE job[j]]
    BY <1>7 DEF UploadAll
  <2>2. c.at = "called" /\ c.place = place
    BY DEF CallsFor, IdleJob
  <2> HIDE DEF c
  <2>3. \A f \in Files : /\ draft'[f].key = draft[f].key
                         /\ draft'[f].status = IF f \in needs THEN "uploading" ELSE draft[f].status
    BY <2>1, Composing, WithStatusTyped
  <2>4. /\ \A f \in needs : job'[f] = c
        /\ \A j \in JobSlots \ needs : job'[j] = job[j]
        /\ \A t \in Submits : job'[t] = job[t]
    BY <1>2, <2>1, Composing
  <2>5. Calling'
    BY <1>1, <1>2, <1>7, <2>2, <2>3, <2>4, Composing DEF PageKnown, Calling
  <2>6. Awaited'
    <3>1. \A t \in Submits : \A f \in submit[t].needs : job[f].at # "idle" /\ f \notin needs
      BY <1>1 DEF PageKnown, Awaited
    <3> QED BY <1>1, <1>2, <1>5, <1>7, <2>2, <2>4, <3>1, Composing DEF PageKnown, Awaited
  <2>7. Alone'
    BY <1>1, <1>2, <1>3, <1>7 DEF Alone, Busy
  <2>8. \A f \in InDraft(draft) : f \in InDraft(draft')
    BY <2>3 DEF InDraft
  <2>9. ASSUME NEW t \in Submits \ crowded' PROVE MeantBy(t)'
    <3>1. CASE t # s
      BY <1>1, <1>2, <1>7, <2>3, <2>4, <2>8, <3>1, MeantGoesOn
    <3>2. CASE t = s
      <4>1. meant'[s] = InDraft(draft)
        BY <1>1, <1>2, <1>7 DEF FileHistory, Submitting
      <4> QED BY <1>2, <1>7, <2>8, <3>2, <4>1 DEF MeantBy
    <3> QED BY <3>1, <3>2
  <2> QED BY <1>4, <2>5, <2>6, <2>7, <2>9 DEF PageKnown, MeantKnown
<1> QED BY <1>1, <1>6, <1>7

Forgetting(f) == [job EXCEPT ![f] = IdleJob]
LEMMA UploadGoesOn ==
    ASSUME FInv, NEW f \in Files, UploadAnswered(f)
    PROVE  /\ job[f].at = "answered" /\ draft' = DraftAfter(f) /\ UNCHANGED place
           /\ \/ /\ \E s \in Waiting(f) : Awaiting(f)[s].needs = {}
                 /\ \E s \in Waiting(f) : Continued(s, DraftAfter(f), Awaiting(f), Forgetting(f))
              \/ job' = Forgetting(f) /\ submit' = Awaiting(f) /\ UNCHANGED sendState
<1>1. PICK jobs : jobs = [job EXCEPT ![f] = IdleJob]
  OBVIOUS
<1>2. /\ job[f].at = "answered" /\ draft' = DraftAfter(f) /\ UNCHANGED composing
      /\ IF \E s \in Waiting(f) : Awaiting(f)[s].needs = {}
         THEN \E s \in Waiting(f) : Continue(s, DraftAfter(f), Awaiting(f), jobs)
         ELSE job' = jobs /\ submit' = Awaiting(f) /\ UNCHANGED sendState
  BY <1>1, UploadAnsweredIs
<1>3. jobs = Forgetting(f) /\ jobs \in [JobSlots -> JobRecord]
  BY <1>1, Composing, IdleRecord DEF Forgetting
<1>4. DraftAfter(f) \in [Files -> DraftRecord] /\ Awaiting(f) \in [Submits -> SubmitRecord]
  BY <1>2, AnsweredTyped, AwaitingTyped
<1>5. ASSUME NEW s \in Waiting(f), Continue(s, DraftAfter(f), Awaiting(f), Forgetting(f))
      PROVE  Continued(s, DraftAfter(f), Awaiting(f), Forgetting(f))
  <2>1. Forgetting(f) \in [JobSlots -> JobRecord] /\ s \in Submits
    BY <1>3 DEF Waiting
  <2> QED BY <1>4, <1>5, <2>1, ContinueIs
<1> QED BY <1>2, <1>3, <1>5 DEF composing

LEMMA UploadAnsweredPage ==
    ASSUME FInv, PageKnown, FileHistory, NEW f \in Files, UploadAnswered(f) PROVE PageKnown'
<1> DEFINE d == DraftAfter(f)
           sub == Awaiting(f)
           jobs == Forgetting(f)
<1>1. /\ job[f].at = "answered" /\ draft' = d /\ UNCHANGED place
      /\ \/ /\ \E s \in Waiting(f) : sub[s].needs = {}
            /\ \E s \in Waiting(f) : Continued(s, d, sub, jobs)
         \/ job' = jobs /\ submit' = sub /\ UNCHANGED sendState
  BY UploadGoesOn
<1>2. /\ jobs[f] = IdleJob /\ \A j \in JobSlots \ {f} : jobs[j] = job[j]
      /\ \A t \in Submits : jobs[t] = job[t]
  BY Composing DEF Forgetting
<1>3. draft[f].status \in {"uploading", "gone"}
  BY <1>1 DEF PageKnown, Calling
<1>4. /\ \A g \in Files \ {f} : d[g] = draft[g]
      /\ draft[f].status = "uploading" => d[f].status \in {"uploaded", "failed"}
      /\ draft[f].status = "gone" => d[f] = draft[f]
  BY <1>1, AnsweredTyped DEF InDraft
<1>5. /\ \A g \in Files : draft[g].status \in {"uploaded", "gone"} =>
             draft'[g].status \in {"uploaded", "gone"} /\ draft'[g].key = draft[g].key
      /\ \A g \in InDraft(draft) : g \in InDraft(draft')
      /\ \A g \in Files \ {f} : draft'[g].status = draft[g].status
  BY <1>1, <1>3, <1>4 DEF InDraft
<1>6. \A s \in Submits : sub[s].at = submit[s].at /\ sub[s].needs = submit[s].needs \ {f}
  BY AwaitingTyped
<1>7. \A s \in Submits : submit[s].needs \subseteq Files
  BY Submissions
<1>8. Crowd'
  BY <1>1, Crowding
<1> HIDE DEF d, sub, jobs
<1>9. CASE job' = jobs /\ submit' = sub /\ UNCHANGED sendState
  <2>1. Calling'
    BY <1>1, <1>2, <1>5, <1>6, <1>9, IdleRecord, Composing DEF PageKnown, Calling
  <2>2. Awaited'
    BY <1>2, <1>6, <1>7, <1>9, Composing DEF PageKnown, Awaited
  <2>3. Alone'
    BY <1>1, <1>6, <1>9 DEF PageKnown, Alone, Busy
  <2>4. ASSUME NEW t \in Submits \ crowded' PROVE MeantBy(t)'
    BY <1>1, <1>2, <1>5, <1>6, <1>9, MeantGoesOn
  <2> QED BY <1>8, <2>1, <2>2, <2>3, <2>4 DEF PageKnown, MeantKnown
<1>10. ASSUME NEW s0 \in Waiting(f), sub[s0].needs = {},
              NEW s \in Waiting(f), Continued(s, d, sub, jobs)
       PROVE  PageKnown'
  <2>1. s \in Submits /\ s = s0 /\ submit[s].at = "uploads" /\ f \in submit[s].needs
    BY DEF Waiting, PageKnown, Awaited
  <2>2. \A t \in Submits \ {s} : submit'[t] = sub[t] /\ job'[t] = job[t]
    BY <1>2, <1>10, Composing DEF Continued
  <2>3. job'[f].at = "idle" /\ \A g \in Files \ {f} : job'[g] = job[g]
    BY <1>2, <1>10, <2>1, IdleRecord, Composing DEF Continued
  <2>4. job[s].at = "idle"
    BY <2>1 DEF PageKnown, Calling
  <2>5. \/ /\ \A g \in InDraft(d) : d[g].status = "uploaded"
           /\ job'[s].at = "called" /\ job'[s].place = place /\ job'[s].todo = KeysOf(d)
           /\ submit'[s].at = "sending" /\ submit'[s].needs = {} /\ sendState' = "loading"
        \/ job'[s].at = "idle" /\ submit'[s] = IdleSubmit
    BY <1>2, <1>10, <2>1, <2>4 DEF Continued, Sends, Stops
  <2>6. Calling'
    BY <1>1, <1>5, <1>6, <2>1, <2>2, <2>3, <2>5, IdleSubmitTyped, Composing DEF PageKnown, Calling
  <2>7. Awaited'
    <3>1. \A t \in Submits \ {s} : f \notin submit[t].needs
      BY <2>1 DEF PageKnown, Awaited
    <3>2. submit'[s].needs = {}
      BY <2>5, IdleSubmitTyped
    <3>3. \A t \in Submits \ {s} : submit'[t].at = submit[t].at /\ submit'[t].needs = submit[t].needs
      <4>1. \A S : f \notin S => S \ {f} = S
        OBVIOUS
      <4> QED BY <1>6, <2>2, <3>1, <4>1
    <3>4. ASSUME NEW t \in Submits, submit'[t].at # "uploads" PROVE submit'[t].needs = {}
      <4>1. submit[t].at # "uploads" => submit[t].needs = {}
        BY DEF PageKnown, Awaited
      <4> QED BY <3>2, <3>3, <3>4, <4>1
    <3>5. \A t \in Submits : \A g \in submit'[t].needs : job'[g].at # "idle"
      BY <1>7, <2>3, <3>1, <3>2, <3>3 DEF PageKnown, Awaited
    <3>6. \A t, v \in Submits : t # v => submit'[t].needs \cap submit'[v].needs = {}
      BY <3>2, <3>3 DEF PageKnown, Awaited
    <3> QED BY <3>4, <3>5, <3>6 DEF Awaited
  <2>8. Alone'
    <3>1. place # "group" => \A t \in Submits \ {s} : ~Busy(t)
      BY <2>1 DEF PageKnown, Alone, Busy
    <3> QED BY <1>1, <1>6, <2>1, <2>2, <2>5, <3>1, IdleSubmitTyped DEF Alone, Busy
  <2>9. ASSUME NEW t \in Submits \ crowded' PROVE MeantBy(t)'
    <3>1. CASE t # s
      BY <1>1, <1>5, <1>6, <2>2, <3>1, MeantGoesOn
    <3>2. CASE t = s /\ submit'[s].at = "sending"
      <4>1. MeantBy(s)
        BY <1>1, <2>1, <2>9, <3>2, Uncrowding DEF PageKnown, MeantKnown, Busy
      <4>2. meant'[s] \subseteq InDraft(draft)
        BY <2>1, <4>1, MeantStays DEF MeantBy
      <4>3. \A g \in InDraft(d) : d[g].status = "uploaded" /\ d[g].key \in job'[s].todo
        BY <2>5, <3>2, IdleSubmitTyped DEF KeysOf
      <4>4. job'[s].at = "called"
        BY <2>5, <3>2, IdleSubmitTyped
      <4>5. \A g \in InDraft(draft) : g \in InDraft(d) /\ g \in Files
        BY <1>1, <1>5 DEF InDraft
      <4> QED BY <1>1, <3>2, <4>2, <4>3, <4>4, <4>5 DEF MeantBy
    <3>3. CASE t = s /\ submit'[s].at = "idle"
      BY <3>3 DEF MeantBy
    <3> QED BY <2>5, <3>1, <3>2, <3>3, IdleSubmitTyped
  <2> QED BY <1>8, <2>6, <2>7, <2>8, <2>9 DEF PageKnown, MeantKnown
<1> QED BY <1>1, <1>9, <1>10

LEMMA FileStepPage ==
    ASSUME FInv, WorkloadOK, workload.about = "files", PageKnown, FileStep, FileHistory
    PROVE  PageKnown'
<1>1. ASSUME UNCHANGED composer, UNCHANGED job PROVE PageKnown'
  BY <1>1, OthersPage
<1>2. CASE FilesMove
  <2>1. CleanUp => UNCHANGED job
    BY DEF CleanUp, ListAllObjects, FetchDbKeys, DeleteOrphan, ScriptEnds
  <2>2. ASSUME NEW w \in Forwarders, Forwarded(w) PROVE PageKnown'
    <3>1. UNCHANGED composer /\ \A j \in Files \cup Submits : job'[j] = job[j]
      BY <2>2, Composing DEF Forwarded
    <3> QED BY <3>1, OthersPage
  <2> QED BY <1>1, <1>2, <2>1, <2>2, FileServiceServed, ServedPage, UploadAnsweredPage, MessageAnsweredPage,
             EditPage, AddFilePage, RemoveAttachmentPage DEF FilesMove, Composes
<1>3. CASE FilesTurn
  <2>1. workload.forwarders \subseteq Forwarders
    BY WorkloadsAssumption DEF WorkloadOK
  <2>2. ADayPasses => UNCHANGED job
    BY DEF ADayPasses
  <2>3. ASSUME NEW w \in Forwarders, NEW to, Forward(w, to) PROVE PageKnown'
    <3>1. UNCHANGED composer /\ \A j \in Files \cup Submits : job'[j] = job[j]
      BY <2>3, Composing DEF Forward
    <3> QED BY <3>1, OthersPage
  <2> QED BY <1>1, <1>3, <2>1, <2>2, <2>3, FailuresServed, ServedPage, RetryAttachmentPage,
             SubmitMessagePage, EditPage DEF FilesTurn
<1>4. CASE FilesSuffer
  BY <1>4, CrashPage, FailuresServed, ServedPage DEF FilesSuffer
<1> QED BY <1>2, <1>3, <1>4 DEF FileStep

LEMMA InitPage ==
    ASSUME MCInit PROVE PageKnown
<1>1. /\ job = [j \in JobSlots |-> IdleJob] /\ submit = [s \in Submits |-> IdleSubmit]
      /\ crowded = {}
  BY DEF MCInit, FilesInit, ComposerInit
<1> QED BY <1>1, IdleRecord, IdleSubmitTyped
        DEF PageKnown, Calling, Awaited, Alone, Crowd, MeantKnown, MeantBy, Busy

LEMMA PageStays ==
    ASSUME PageKnown, UNCHANGED fileVars PROVE PageKnown'
BY DEF PageKnown, Calling, Awaited, Alone, Crowd, MeantKnown, MeantBy, Busy, InDraft,
       fileVars, files, composer, fileHistory

-----------------------------------------------------------------------------
(*****************************************************************************)
(* What the calls hold in the storage and the table, and what becomes of     *)
(* objects and rows.                                                         *)
(*****************************************************************************)
\* The keys of calls that are under way: stored, not old, and with rows or
\* without, as far as the call has come.
Holders == Files \cup Forwarders
UploadHolds(f) ==
    job[f].place # "channel" =>
        /\ job[f].at = "stored" => job[f].keys \cap Rows = {}
        /\ job[f].reply = "done" => job[f].keys \subseteq Rows
ForwardHolds(w) ==
    /\ job[w].at = "called" => job[w].keys = {}
    /\ job[w].at \in {"copy", "discard"} => job[w].keys \cap Rows = {}
    /\ job[w].at \in {"check", "write"} =>
        IF job[w].place = "channel" THEN job[w].keys \cap Rows = {}
        ELSE \A k \in job[w].keys : k \in Rows /\ fileRow[k] = NoPost
HoldsOf(j) ==
    /\ job[j].keys \subseteq object \ aged
    /\ j \in Files => UploadHolds(j)
    /\ j \in Forwarders => ForwardHolds(j)
Holds ==
    /\ \A j \in Holders : HoldsOf(j)
    /\ \A i, j \in Holders : i # j => job[i].keys \cap job[j].keys = {}
    /\ script.keys \subseteq aged

\* An object the script is about to delete.
Doomed(k) == script.at = "deleting" /\ k \in script.keys
\* What becomes of objects and rows: only those that belong to no message go, and
\* only a message that is written takes a row.
Orderly ==
    /\ \A k \in object : k \in object' \/ Doomed(k) \/ (IsCopy(k) /\ k \notin Rows)
    /\ \A k \in Rows : k \in Rows' \/ (IsCopy(k) /\ fileRow[k] = NoPost)
    /\ \A k \in Rows \cap Rows' : fileRow'[k] = fileRow[k] \/ \E j \in JobSlots : Wrote(j) /\ k \in job[j].keys
    /\ \A k : Doomed(k)' => Doomed(k) \/ k \notin Rows
    /\ script'.keys \subseteq script.keys \cup aged
    /\ aged \subseteq aged'

LEMMA OrderlyGrowing ==
    ASSUME object \subseteq object', UNCHANGED <<aged, fileRow, script>>
    PROVE  Orderly
BY DEF Orderly, Rows, Doomed

\* A call that holds keys and does nothing, while others do.
LEMMA HoldStays ==
    ASSUME Holds, NEW i \in Holders, job'[i] = job[i], \A k \in job[i].keys : k \in object' \ aged',
           i \in Files /\ job[i].place # "channel" => \A k \in job[i].keys : k \in Rows' <=> k \in Rows,
           i \in Forwarders => \A k \in job[i].keys : /\ k \in Rows' <=> k \in Rows
                                                      /\ k \in Rows => fileRow'[k] = fileRow[k]
    PROVE  HoldsOf(i)'
<1>1. HoldsOf(i)
  BY DEF Holds
<1>2. i \in Files => UploadHolds(i)'
  BY <1>1 DEF HoldsOf, UploadHolds
<1>3. i \in Forwarders => ForwardHolds(i)'
  BY <1>1 DEF HoldsOf, ForwardHolds
<1> QED BY <1>2, <1>3 DEF HoldsOf

LEMMA HoldsStep ==
    ASSUME Holds, FInv, NEW j \in Holders, \A i \in JobSlots \ {j} : job'[i] = job[i],
           UNCHANGED <<aged, script>>, HoldsOf(j)',
           \A k \in job'[j].keys \ job[j].keys : k[2] > drawn,
           \A k \in object : k \notin job[j].keys => k \in object',
           \A k : k \notin job[j].keys /\ k \notin job'[j].keys =>
                     (k \in Rows' <=> k \in Rows) /\ (k \in Rows => fileRow'[k] = fileRow[k])
    PROVE  Holds'
<1>1. \A i \in Holders \ {j} : job'[i] = job[i]
  BY DEF Holders
<1>2. ASSUME NEW i \in Holders \ {j} PROVE job[i].keys \cap job[j].keys = {} /\ job[i].keys \cap job'[j].keys = {}
  <2>1. job[i].keys \cap job[j].keys = {} /\ job[i].keys \subseteq object
    BY DEF Holds, HoldsOf
  <2>2. \A k \in object : ~(k[2] > drawn)
    <3>1. \A k \in KeySpace : k[2] \in Nat
      BY DEF KeySpace
    <3> QED BY <3>1 DEF FInv, FilesTyped, TablesTyped
  <2> QED BY <2>1, <2>2
<1>3. ASSUME NEW i \in Holders \ {j} PROVE HoldsOf(i)'
  <2>1. job[i].keys \subseteq object \ aged
    BY DEF Holds, HoldsOf
  <2> QED BY <1>1, <1>2, <2>1, HoldStays
<1>4. \A i, l \in Holders : i # l => job'[i].keys \cap job'[l].keys = {}
  BY <1>1, <1>2 DEF Holds
<1>5. \A i \in Holders : HoldsOf(i)'
  BY <1>3
<1> QED BY <1>4, <1>5 DEF Holds

LEMMA HolderIs ==
    ASSUME FInv, NEW j \in JobSlots, job[j].op \in {"upload", "forward"}
    PROVE  j \in Holders /\ (j \in Files <=> job[j].op = "upload") /\ (j \in Forwarders <=> job[j].op = "forward")
BY KnownJob, IdleRecord DEF JobKnown, KnownCall, Holders

LEMMA SenderIs ==
    ASSUME FInv, NEW j \in JobSlots, job[j].op = "send"
    PROVE  j \in Submits /\ j \notin Holders
BY KnownJob, IdleRecord DEF JobKnown, KnownCall, Holders

LEMMA HolderHolds ==
    ASSUME Holds, FInv, NEW j \in JobSlots, job[j].op \in {"upload", "forward"}
    PROVE  HoldsOf(j)
BY HolderIs DEF Holds

\* The tables are left alone, or grow by an object.
LEMMA HoldsGoOn ==
    ASSUME Holds, FInv, NEW j \in JobSlots, job[j].op \in {"upload", "forward"},
           object \subseteq object', UNCHANGED <<aged, fileRow, script>>,
           NEW at, NEW todo, NEW keys, NEW reply, Moves(j, at, todo, keys, reply), HoldsOf(j)',
           \A k \in keys \ job[j].keys : k[2] > drawn
    PROVE  Holds' /\ Orderly
<1>1. Holds'
  BY HolderIs, HoldsStep DEF Moves, Rows
<1> QED BY <1>1, OrderlyGrowing

\* A call of a submission holds no keys of its own.
LEMMA HoldsSending ==
    ASSUME Holds, FInv, Calling, NEW s \in JobSlots, job[s].op = "send", job[s].at # "idle",
           \A i \in JobSlots \ {s} : job'[i] = job[i], UNCHANGED <<storage, script>>,
           job[s].place = "channel" \/ Rows' = Rows, \A k \in Rows' \ Rows : k \in job[s].keys,
           Rows \subseteq Rows', \A k \in Rows : k \notin job[s].keys => fileRow'[k] = fileRow[k]
    PROVE  Holds'
<1>1. s \in Submits /\ \A j \in Holders : j \in JobSlots /\ job'[j] = job[j]
  BY SenderIs DEF Holders
<1>2. job[s].place = place
  BY <1>1 DEF Calling
<1>3. ASSUME NEW i \in Holders PROVE HoldsOf(i)'
  <2>1. job[i].keys \subseteq object' \ aged'
    BY DEF Holds, HoldsOf, storage
  <2>2. i \in Files /\ job[i].place # "channel" => \A k \in job[i].keys : k \in Rows' <=> k \in Rows
    <3>1. CASE i \in Files /\ job[i].at = "idle"
      BY <3>1, KnownJob, IdleRecord DEF JobKnown, KnownCall
    <3>2. CASE i \in Files /\ job[i].at # "idle"
      BY <1>2, <3>2 DEF Calling
    <3> QED BY <3>1, <3>2
  <2>3. i \in Forwarders => \A k \in job[i].keys : k \notin job[s].keys
    BY KnownJob, IdleRecord, OtherIs DEF JobKnown, KnownCall, Copy, IsCopy
  <2> QED BY <1>1, <2>1, <2>2, <2>3, HoldStays
<1> QED BY <1>1, <1>3 DEF Holds, Holders, storage

LEMMA HoldsSendingOn ==
    ASSUME Holds, FInv, Calling, NEW s \in JobSlots, job[s].op = "send", job[s].at # "idle",
           UNCHANGED <<storage, fileRow, script>>,
           NEW at, NEW todo, NEW keys, NEW reply, Moves(s, at, todo, keys, reply)
    PROVE  Holds' /\ Orderly
BY HoldsSending, OrderlyGrowing DEF Moves, storage, Rows

LEMMA NewIsNew ==
    ASSUME FInv, NEW k, k[2] > drawn PROVE k \notin Rows \cup aged
<1>1. \A i \in KeySpace : i[2] \in Nat
  BY DEF KeySpace
<1> QED BY <1>1 DEF FInv, FilesTyped, TablesTyped

LEMMA GivesUpHolds ==
    ASSUME Holds, FInv, Calling, NEW j \in JobSlots, UNCHANGED <<storage, fileRow, script>>,
           job[j].op \in {"send", "forward"}, job[j].at # "idle", GivesUp(j)
    PROVE  Holds' /\ Orderly
<1>1. CASE job[j].op = "send" /\ Replies(j, "refused")
  <2>1. Moves(j, "answered", job[j].todo, job[j].keys, "refused")
    BY <1>1, KnownJob, RepliesMoves
  <2> QED BY <1>1, <2>1, HoldsSendingOn
<1>2. CASE job[j].op = "forward" /\ GoesOn(j, "undoRows")
  <2>1. Moves(j, "undoRows", job[j].todo, job[j].keys, job[j].reply)
    BY <1>2, KnownJob, GoesOnMoves DEF Stages
  <2>2. HoldsOf(j)'
    BY <1>2, <2>1, HolderHolds, HolderIs DEF HoldsOf, ForwardHolds, Moves, storage
  <2> QED BY <1>2, <2>1, <2>2, HoldsGoOn DEF storage
<1> QED BY <1>1, <1>2 DEF GivesUp

LEMMA PutObjectHolds ==
    ASSUME Holds, FInv, NEW j \in JobSlots, PutObject(j) PROVE Holds' /\ Orderly
<1> PICK key : key = <<"attachments", drawn + 1>>
  OBVIOUS
<1>1. Moves(j, "stored", job[j].todo, {key}, job[j].reply)
  BY PutObjectMoves
<1>2. /\ job[j].op = "upload" /\ job[j].at = "called" /\ object' = object \cup {key}
      /\ UNCHANGED <<aged, fileRow, script>>
  BY DEF PutObject, At, Stores
<1>3. key[2] > drawn /\ job[j].reply = "none"
  BY <1>2, KnownJob DEF JobKnown, KnownCall
<1>4. key \notin Rows \cup aged
  BY <1>3, NewIsNew
<1>5. HoldsOf(j)'
  BY <1>1, <1>2, <1>3, <1>4, HolderIs DEF HoldsOf, UploadHolds, Moves, Rows
<1>6. object \subseteq object' /\ \A k \in {key} \ job[j].keys : k[2] > drawn
  BY <1>2, <1>3
<1> QED BY <1>1, <1>2, <1>5, <1>6, HoldsGoOn

LEMMA CreatedRows ==
    ASSUME NEW keys, NEW m, CreateRows(keys, m), keys \cap Rows = {}
    PROVE  /\ Rows' = Rows \cup keys /\ \A k \in Rows : fileRow'[k] = fileRow[k]
           /\ \A k \in keys : fileRow'[k] = m
BY DEF CreateRows, Rows

LEMMA OrderlyRows ==
    ASSUME UNCHANGED <<storage, script>>, Rows \subseteq Rows', \A k \in Rows : fileRow'[k] = fileRow[k]
    PROVE  Orderly
BY DEF Orderly, Doomed, storage

LEMMA CreateUnattachedAttachmentHolds ==
    ASSUME Holds, FInv, NEW j \in JobSlots, CreateUnattachedAttachment(j) PROVE Holds' /\ Orderly
<1>1. /\ job[j].op = "upload" /\ job[j].at = "stored" /\ UNCHANGED <<storage, script>> /\ Replies(j, "done")
      /\ IF job[j].place = "channel" THEN UNCHANGED fileRow ELSE CreateRows(job[j].keys, NoPost)
  BY DEF CreateUnattachedAttachment, At
<1>2. Moves(j, "answered", job[j].todo, job[j].keys, "done")
  BY <1>1, KnownJob, RepliesMoves
<1>3. HoldsOf(j) /\ j \in Holders /\ j \in Files /\ j \notin Forwarders
  BY <1>1, HolderHolds, HolderIs
<1>4. CASE job[j].place = "channel"
  <2>1. HoldsOf(j)'
    BY <1>1, <1>2, <1>3, <1>4 DEF HoldsOf, UploadHolds, Moves, storage
  <2> QED BY <1>1, <1>2, <1>4, <2>1, HoldsGoOn DEF storage
<1>5. CASE job[j].place # "channel"
  <2>1. Rows' = Rows \cup job[j].keys /\ \A k \in Rows : fileRow'[k] = fileRow[k]
    BY <1>1, <1>3, <1>5, CreatedRows DEF HoldsOf, UploadHolds
  <2>2. HoldsOf(j)'
    BY <1>1, <1>2, <1>3, <1>5, <2>1 DEF HoldsOf, UploadHolds, Moves, storage
  <2>3. Holds'
    BY <1>1, <1>2, <1>3, <2>1, <2>2, HoldsStep DEF Moves, storage
  <2> QED BY <1>1, <2>1, <2>3, OrderlyRows
<1> QED BY <1>4, <1>5

LEMMA StartsSendingHolds ==
    ASSUME Holds, FInv, Calling, NEW j \in JobSlots, StartsSending(j) PROVE Holds' /\ Orderly
<1>1. job[j].op = "send" /\ job[j].at # "idle" /\ UNCHANGED <<storage, fileRow, script>>
  BY DEF StartsSending, At
<1> QED BY <1>1, StartsSendingMoves, HoldsSendingOn

LEMMA FindUnattachedAttachmentsHolds ==
    ASSUME Holds, FInv, Calling, NEW j \in JobSlots, FindUnattachedAttachments(j) PROVE Holds' /\ Orderly
<1>1. /\ job[j].op \in {"send", "forward"} /\ job[j].at = "check" /\ UNCHANGED <<storage, fileRow, script>>
      /\ GivesUp(j) \/ GoesOn(j, "write")
  BY DEF FindUnattachedAttachments, Sending
<1>2. CASE GoesOn(j, "write")
  <2>1. Moves(j, "write", job[j].todo, job[j].keys, job[j].reply)
    BY <1>2, KnownJob, GoesOnMoves DEF Stages
  <2>2. CASE job[j].op = "send"
    BY <1>1, <2>1, <2>2, HoldsSendingOn
  <2>3. CASE job[j].op = "forward"
    <3>1. HoldsOf(j)'
      BY <1>1, <2>1, <2>3, HolderHolds, HolderIs DEF HoldsOf, ForwardHolds, Moves, storage, Rows
    <3> QED BY <1>1, <2>1, <2>3, <3>1, HoldsGoOn DEF storage
  <2> QED BY <1>1, <2>2, <2>3
<1> QED BY <1>1, <1>2, GivesUpHolds

LEMMA WritesHold ==
    ASSUME Holds, FInv, Calling, NEW j \in JobSlots, job[j].op \in {"send", "forward"}, job[j].at = "write",
           UNCHANGED <<storage, script>>, job[j].place = "channel" => job[j].keys \cap Rows = {},
           NextPost <= MaxPosts, Write(j, NextPost), GoesOn(j, "written")
    PROVE  Holds' /\ Orderly
<1>1. \A k \in job[j].keys : k[2] <= drawn
  BY KnownJob DEF JobKnown, KnownCall, Upload, Copy
<1>2. /\ Rows' = IF job[j].place = "channel" THEN Rows \cup job[j].keys ELSE Rows
      /\ \A k \in Rows' : fileRow'[k] = IF k \in job[j].keys THEN NextPost ELSE fileRow[k]
  BY <1>1, KnownJob, WriteKeepsTables
<1>3. Moves(j, "written", job[j].todo, job[j].keys, job[j].reply)
  BY KnownJob, GoesOnMoves DEF Stages
<1>4. Orderly
  BY <1>2, <1>3 DEF Orderly, Doomed, Wrote, Moves, storage
<1>5. CASE job[j].op = "send"
  <2>1. Holds'
    BY <1>2, <1>3, <1>5, HoldsSending DEF Moves
  <2> QED BY <1>4, <2>1
<1>6. CASE job[j].op = "forward"
  <2>1. HoldsOf(j)' /\ j \in Holders
    BY <1>3, <1>6, HolderHolds, HolderIs DEF HoldsOf, ForwardHolds, Moves, storage
  <2>2. \A k : k \notin job[j].keys => (k \in Rows' <=> k \in Rows) /\ (k \in Rows => fileRow'[k] = fileRow[k])
    BY <1>2
  <2>3. Holds'
    BY <1>3, <2>1, <2>2, HoldsStep DEF Moves, storage
  <2> QED BY <1>4, <2>3
<1> QED BY <1>5, <1>6

LEMMA CreateWithFilesHolds ==
    ASSUME Holds, FInv, Calling, NEW j \in JobSlots, CreateWithFiles(j) PROVE Holds' /\ Orderly
<1>1. job[j].op \in {"send", "forward"} /\ job[j].at = "write" /\ UNCHANGED <<storage, script>>
  BY DEF CreateWithFiles, Sending
<1>2. CASE GivesUp(j) /\ UNCHANGED fileRow
  BY <1>1, <1>2, GivesUpHolds
<1>3. CASE /\ job[j].place = "channel" => job[j].keys \cap Rows = {}
           /\ NextPost <= MaxPosts /\ Write(j, NextPost) /\ GoesOn(j, "written")
  BY <1>1, <1>3, WritesHold
<1> QED BY <1>2, <1>3 DEF CreateWithFiles

LEMMA AnswersSentHolds ==
    ASSUME Holds, FInv, Calling, NEW j \in JobSlots, AnswersSent(j) PROVE Holds' /\ Orderly
<1>1. /\ job[j].op \in {"send", "forward"} /\ job[j].at = "written" /\ UNCHANGED <<storage, fileRow, script>>
      /\ Replies(j, "done")
  BY DEF AnswersSent, Sending
<1>2. Moves(j, "answered", job[j].todo, job[j].keys, "done")
  BY <1>1, KnownJob, RepliesMoves
<1>3. CASE job[j].op = "send"
  BY <1>1, <1>2, <1>3, HoldsSendingOn
<1>4. CASE job[j].op = "forward"
  <2>1. HoldsOf(j)'
    BY <1>1, <1>2, <1>4, HolderHolds, HolderIs DEF HoldsOf, ForwardHolds, Moves, storage
  <2> QED BY <1>1, <1>2, <1>4, <2>1, HoldsGoOn DEF storage
<1> QED BY <1>1, <1>3, <1>4

LEMMA LoadSourceMessageHolds ==
    ASSUME Holds, FInv, NEW j \in JobSlots, NEW m, LoadSourceMessage(j, m) PROVE Holds' /\ Orderly
<1>1. job[j].op = "forward" /\ job[j].at = "called" /\ UNCHANGED <<storage, fileRow, script>>
  BY DEF LoadSourceMessage, At
<1>2. Moves(j, "copy", FilesOf(m), job[j].keys, job[j].reply)
  BY LoadSourceMessageMoves
<1>3. HoldsOf(j)'
  BY <1>1, <1>2, HolderHolds, HolderIs DEF HoldsOf, ForwardHolds, Moves, storage
<1> QED BY <1>1, <1>2, <1>3, HoldsGoOn DEF storage

LEMMA CopyObjectHolds ==
    ASSUME Holds, FInv, NEW j \in JobSlots, NEW k, CopyObject(j, k) PROVE Holds' /\ Orderly
<1>1. job[j].op = "forward" /\ job[j].at = "copy" /\ UNCHANGED <<aged, fileRow, script>>
  BY DEF CopyObject, At
<1>2. CASE k \in object
  <2> PICK copy : copy = <<"forwarded", drawn + 1>>
    OBVIOUS
  <2>1. /\ Moves(j, "copy", job[j].todo \ {k}, job[j].keys \cup {copy}, job[j].reply)
        /\ object' = object \cup {copy}
    BY <1>2, CopyMade
  <2>2. copy[2] > drawn
    BY KnownJob
  <2>3. copy \notin Rows \cup aged
    BY <2>2, NewIsNew
  <2>4. HoldsOf(j)'
    BY <1>1, <2>1, <2>3, HolderHolds, HolderIs DEF HoldsOf, ForwardHolds, Moves, Rows
  <2> QED BY <1>1, <2>1, <2>2, <2>4, HoldsGoOn
<1>3. CASE GoesOn(j, "discard") /\ UNCHANGED <<object, drawn>>
  <2>1. Moves(j, "discard", job[j].todo, job[j].keys, job[j].reply)
    BY <1>3, KnownJob, GoesOnMoves DEF Stages
  <2>2. HoldsOf(j)'
    BY <1>1, <1>3, <2>1, HolderHolds, HolderIs DEF HoldsOf, ForwardHolds, Moves, Rows
  <2> QED BY <1>1, <1>3, <2>1, <2>2, HoldsGoOn
<1> QED BY <1>2, <1>3 DEF CopyObject

LEMMA RecordsHold ==
    ASSUME Holds, FInv, NEW j \in JobSlots, CreateUnattachedAttachmentRecords(j) PROVE Holds' /\ Orderly
<1>1. job[j].op = "forward" /\ job[j].at = "copy" /\ UNCHANGED <<storage, script>>
  BY DEF CreateUnattachedAttachmentRecords, AllCopied, At
<1>2. /\ Moves(j, "check", job[j].todo, job[j].keys, job[j].reply)
      /\ job[j].place = "channel" => UNCHANGED fileRow
      /\ job[j].place # "channel" => CreateRows(job[j].keys, NoPost)
  BY RecordsCreated
<1>3. HoldsOf(j) /\ j \in Holders /\ j \notin Files
  BY <1>1, HolderHolds, HolderIs
<1>4. job[j].keys \cap Rows = {}
  BY <1>1, <1>3, HolderIs DEF HoldsOf, ForwardHolds
<1>5. CASE job[j].place = "channel"
  <2>1. HoldsOf(j)'
    BY <1>1, <1>2, <1>3, <1>4, <1>5 DEF HoldsOf, ForwardHolds, Moves, storage, Rows
  <2> QED BY <1>1, <1>2, <1>5, <2>1, HoldsGoOn DEF storage
<1>6. CASE job[j].place # "channel"
  <2>1. /\ Rows' = Rows \cup job[j].keys /\ \A k \in Rows : fileRow'[k] = fileRow[k]
        /\ \A k \in job[j].keys : fileRow'[k] = NoPost
    BY <1>2, <1>4, <1>6, CreatedRows
  <2>2. HoldsOf(j)'
    BY <1>1, <1>2, <1>3, <1>6, <2>1 DEF HoldsOf, ForwardHolds, Moves, storage
  <2>3. Holds'
    BY <1>1, <1>2, <1>3, <2>1, <2>2, HoldsStep DEF Moves, storage
  <2> QED BY <1>1, <2>1, <2>3, OrderlyRows
<1> QED BY <1>5, <1>6

LEMMA DeleteCopyHolds ==
    ASSUME Holds, FInv, NEW j \in JobSlots, NEW k, DeleteCopiedObject(j, k) \/ DeleteUnreferencedCopy(j, k)
    PROVE  Holds' /\ Orderly
<1>1. /\ job[j].op = "forward" /\ job[j].at \in {"discard", "undoObjects"} /\ k \in job[j].keys
      /\ job' = [job EXCEPT ![j].keys = @ \ {k}] /\ UNCHANGED <<aged, fileRow, script>>
  BY DEF DeleteCopiedObject, DeleteUnreferencedCopy, At
<1>2. Moves(j, job[j].at, job[j].todo, job[j].keys \ {k}, job[j].reply)
  BY <1>1, KeyGiven
<1>3. HoldsOf(j) /\ j \in Holders /\ j \in Forwarders /\ j \notin Files /\ IsCopy(k)
  BY <1>1, HolderHolds, HolderIs, ForwarderIs
<1>4. object' = object \/ (object' = object \ {k} /\ k \notin Rows)
  BY <1>3 DEF DeleteCopiedObject, DeleteUnreferencedCopy, At, HoldsOf, ForwardHolds
<1>5. HoldsOf(j)'
  BY <1>1, <1>2, <1>3, <1>4 DEF HoldsOf, ForwardHolds, Moves, Rows
<1>6. Holds'
  BY <1>1, <1>2, <1>3, <1>4, <1>5, HoldsStep DEF Moves, Rows
<1>7. Orderly
  BY <1>1, <1>3, <1>4 DEF Orderly, Doomed, Rows
<1> QED BY <1>6, <1>7

LEMMA DeleteUnattachedRowsHolds ==
    ASSUME Holds, FInv, NEW j \in JobSlots, DeleteUnattachedRows(j) PROVE Holds' /\ Orderly
<1> DEFINE loose == {k \in job[j].keys \cap Rows : fileRow[k] = NoPost}
<1>1. /\ job[j].op = "forward" /\ job[j].at = "undoRows" /\ UNCHANGED <<storage, script>>
      /\ GoesOn(j, "undoObjects") /\ fileRow' = Restrict(fileRow, Rows \ loose)
  BY DEF DeleteUnattachedRows, At
<1>2. Rows' = Rows \ loose /\ \A k \in Rows' : fileRow'[k] = fileRow[k]
  BY <1>1 DEF Rows, Restrict
<1>3. Moves(j, "undoObjects", job[j].todo, job[j].keys, job[j].reply)
  BY <1>1, KnownJob, GoesOnMoves DEF Stages
<1>4. HoldsOf(j) /\ j \in Holders /\ j \notin Files /\ \A k \in job[j].keys : IsCopy(k)
  BY <1>1, HolderHolds, HolderIs, ForwarderIs
<1>5. Orderly
  BY <1>1, <1>2, <1>4 DEF Orderly, Doomed, storage
<1>6. \A k : k \notin job[j].keys => (k \in Rows' <=> k \in Rows) /\ (k \in Rows => fileRow'[k] = fileRow[k])
  BY <1>2
<1> HIDE DEF loose
<1>7. HoldsOf(j)'
  BY <1>1, <1>3, <1>4 DEF HoldsOf, ForwardHolds, Moves, storage
<1>8. Holds'
  BY <1>1, <1>3, <1>4, <1>6, <1>7, HoldsStep DEF Moves, storage
<1> QED BY <1>5, <1>8

LEMMA UndoneAllHolds ==
    ASSUME Holds, FInv, NEW j \in JobSlots, UndoneAll(j) PROVE Holds' /\ Orderly
<1>1. /\ job[j].op = "forward" /\ UNCHANGED <<storage, fileRow, script>> /\ Replies(j, "refused")
  BY DEF UndoneAll, At
<1>2. Moves(j, "answered", job[j].todo, job[j].keys, "refused")
  BY <1>1, KnownJob, RepliesMoves
<1>3. HoldsOf(j)'
  BY <1>1, <1>2, HolderHolds, HolderIs DEF HoldsOf, ForwardHolds, Moves, storage
<1> QED BY <1>1, <1>2, <1>3, HoldsGoOn DEF storage

LEMMA FileServiceHolds ==
    ASSUME Holds, FInv, Calling, NEW j \in JobSlots, FileService(j) PROVE Holds' /\ Orderly
BY PutObjectHolds, CreateUnattachedAttachmentHolds, StartsSendingHolds, FindUnattachedAttachmentsHolds,
   CreateWithFilesHolds, AnswersSentHolds, LoadSourceMessageHolds, CopyObjectHolds, DeleteCopyHolds,
   RecordsHold, DeleteUnattachedRowsHolds, UndoneAllHolds DEF FileService, Forwards

LEMMA RefusedHolds ==
    ASSUME Holds, FInv, Calling, NEW j \in JobSlots, job[j].op # "none", job[j].at # "idle", Replies(j, "refused"),
           object \subseteq object', UNCHANGED <<aged, fileRow, script>>, job[j].op = "send" => UNCHANGED storage
    PROVE  Holds' /\ Orderly
<1>1. Moves(j, "answered", job[j].todo, job[j].keys, "refused")
  BY KnownJob, RepliesMoves
<1>2. CASE job[j].op = "send"
  BY <1>1, <1>2, HoldsSendingOn
<1>3. CASE job[j].op \in {"upload", "forward"}
  <2>1. HoldsOf(j)'
    BY <1>1, <1>3, HolderHolds, HolderIs DEF HoldsOf, UploadHolds, ForwardHolds, Moves
  <2> QED BY <1>1, <1>3, <2>1, HoldsGoOn
<1>4. job[j].op \in Ops
  BY KnownJob DEF JobRecord
<1> QED BY <1>2, <1>3, <1>4 DEF Ops

\* A forward that goes on with what it has, to a stage that asks nothing of it, or
\* to take the copies away before they have rows.
LEMMA UndoingHolds ==
    ASSUME Holds, FInv, NEW j \in JobSlots, job[j].op = "forward",
           object \subseteq object', UNCHANGED <<aged, fileRow, script>>, NEW at, GoesOn(j, at),
           at = "undoObjects" \/ (at = "discard" /\ job[j].at = "copy")
    PROVE  Holds' /\ Orderly
<1>1. Moves(j, at, job[j].todo, job[j].keys, job[j].reply)
  BY KnownJob, GoesOnMoves DEF Stages
<1>2. HoldsOf(j)'
  BY <1>1, HolderHolds, HolderIs DEF HoldsOf, ForwardHolds, Moves, Rows
<1> QED BY <1>1, <1>2, HoldsGoOn

LEMMA JobFailsHolds ==
    ASSUME Holds, FInv, Calling, NEW j \in JobSlots, JobFails(j) PROVE Holds' /\ Orderly
<1>1. UNCHANGED <<storage, object, aged, fileRow, script>>
  BY DEF JobFails, storage
<1>2. CASE ((job[j].op \in {"upload", "send"} /\ Running(j)) \/ At(j, "forward", "called")) /\ Replies(j, "refused")
  BY <1>1, <1>2, RefusedHolds DEF At, Running
<1>3. CASE At(j, "forward", "copy") /\ GoesOn(j, "discard")
  BY <1>1, <1>3, UndoingHolds DEF At
<1>4. CASE (AllCopied(j) \/ \E at \in {"check", "write", "written"} : At(j, "forward", at)) /\ GivesUp(j)
  BY <1>1, <1>4, GivesUpHolds DEF AllCopied, At
<1> QED BY <1>2, <1>3, <1>4 DEF JobFails

LEMMA StorageAnswerLostHolds ==
    ASSUME Holds, FInv, Calling, NEW j \in JobSlots, StorageAnswerLost(j) PROVE Holds' /\ Orderly
<1>1. object \subseteq object' /\ UNCHANGED <<aged, fileRow, script>>
  BY DEF StorageAnswerLost, Stores
<1>2. CASE At(j, "upload", "called") /\ Replies(j, "refused")
  BY <1>1, <1>2, RefusedHolds DEF At
<1>3. CASE At(j, "forward", "copy") /\ GoesOn(j, "discard")
  BY <1>1, <1>3, UndoingHolds DEF At
<1> QED BY <1>2, <1>3 DEF StorageAnswerLost

LEMMA UndoFailsHolds ==
    ASSUME Holds, FInv, NEW j \in JobSlots, UndoFails(j) PROVE Holds' /\ Orderly
<1>1. /\ UNCHANGED <<object, aged, fileRow, script>> /\ job[j].op = "forward"
      /\ job[j].at \in {"undoRows", "discard", "undoObjects"}
  BY DEF UndoFails, At, storage
<1>2. CASE GoesOn(j, "undoObjects")
  BY <1>1, <1>2, UndoingHolds
<1>3. ASSUME NEW k \in job[j].keys, job' = [job EXCEPT ![j].keys = @ \ {k}] PROVE Holds' /\ Orderly
  <2>1. Moves(j, job[j].at, job[j].todo, job[j].keys \ {k}, job[j].reply)
    BY <1>3, KeyGiven
  <2>2. HoldsOf(j)'
    BY <1>1, <2>1, HolderHolds, HolderIs DEF HoldsOf, ForwardHolds, Moves, Rows
  <2> QED BY <1>1, <2>1, <2>2, HoldsGoOn
<1> QED BY <1>2, <1>3 DEF UndoFails

LEMMA CrashHolds ==
    ASSUME Holds, FInv, Crash PROVE Holds' /\ Orderly
<1>1. UNCHANGED <<object, aged, fileRow, script>>
  BY DEF Crash, storage
<1>2. ASSUME NEW j \in JobSlots
      PROVE  /\ job'[j].keys = job[j].keys
             /\ job'[j] = job[j] \/ (job'[j].at = "answered" /\ job'[j].reply = "refused")
  <2>1. job[j] \in JobRecord
    BY KnownJob
  <2> QED BY <2>1 DEF Crash, JobRecord
<1>3. ASSUME NEW j \in Holders PROVE HoldsOf(j)'
  <2>1. HoldsOf(j) /\ j \in JobSlots
    BY DEF Holds, Holders
  <2> QED BY <1>1, <1>2, <2>1 DEF HoldsOf, UploadHolds, ForwardHolds, Rows
<1>4. Holds'
  BY <1>1, <1>2, <1>3 DEF Holds, Holders
<1> QED BY <1>1, <1>4, OrderlyGrowing

LEMMA ADayPassesHolds ==
    ASSUME Holds, FInv, ADayPasses PROVE Holds' /\ Orderly
<1>1. aged' = aged \cup object /\ UNCHANGED <<object, fileRow, job, script>>
  BY DEF ADayPasses
<1>2. ASSUME NEW j \in Holders PROVE HoldsOf(j)'
  <2>1. j \in JobSlots /\ job[j] = IdleJob
    BY KnownJob DEF ADayPasses, JobKnown, KnownCall, Holders
  <2> QED BY <1>1, <2>1, IdleRecord DEF HoldsOf, UploadHolds, ForwardHolds
<1>3. Holds'
  BY <1>1, <1>2 DEF Holds
<1>4. Orderly
  BY <1>1 DEF Orderly, Rows, Doomed
<1> QED BY <1>3, <1>4

LEMMA CleanUpHolds ==
    ASSUME Holds, FInv, CleanUp PROVE Holds' /\ Orderly
<1>1. UNCHANGED <<aged, fileRow, job>>
  BY DEF CleanUp, ListAllObjects, FetchDbKeys, DeleteOrphan, ScriptEnds, storage
<1>2. script \in ScriptRecord /\ script.keys \subseteq aged
  BY DEF FInv, FilesTyped, Holds
<1>3. ASSUME Orderly, script'.keys \subseteq aged, \A k \in object : k \in object' \/ k \in script.keys PROVE Holds'
  <2>1. ASSUME NEW j \in Holders PROVE HoldsOf(j)'
    <3>1. job[j].keys \subseteq object \ aged
      BY DEF Holds, HoldsOf
    <3> QED BY <1>1, <1>2, <1>3, <2>1, <3>1, HoldStays DEF Rows
  <2> QED BY <1>1, <1>3, <2>1 DEF Holds
<1>4. CASE ListAllObjects
  <2>1. script' = [at |-> "listed", keys |-> object \cap aged] /\ UNCHANGED object
    BY <1>4 DEF ListAllObjects, storage
  <2>2. Orderly
    BY <1>1, <2>1 DEF Orderly, Doomed, Rows
  <2> QED BY <1>3, <2>1, <2>2
<1>5. CASE FetchDbKeys
  <2>1. script' = [at |-> "deleting", keys |-> script.keys \ Rows] /\ UNCHANGED object
    BY <1>5 DEF FetchDbKeys, storage
  <2>2. Orderly
    BY <1>1, <1>2, <2>1 DEF Orderly, Doomed, Rows
  <2> QED BY <1>2, <1>3, <2>1, <2>2
<1>6. CASE DeleteOrphan
  <2>1. PICK k \in script.keys : object' = object \ {k} /\ script' = [script EXCEPT !.keys = @ \ {k}]
    BY <1>6 DEF DeleteOrphan
  <2>2. script'.at = "deleting" /\ script'.keys = script.keys \ {k} /\ script.at = "deleting"
    BY <1>2, <1>6, <2>1 DEF ScriptRecord, DeleteOrphan
  <2>3. Orderly
    BY <1>1, <2>1, <2>2 DEF Orderly, Doomed, Rows
  <2> QED BY <1>2, <1>3, <2>1, <2>2, <2>3
<1>7. CASE ScriptEnds
  <2>1. script'.at = "idle" /\ script'.keys = script.keys /\ UNCHANGED object
    BY <1>2, <1>7 DEF ScriptEnds, ScriptRecord, storage
  <2>2. Orderly
    BY <1>1, <2>1 DEF Orderly, Doomed, Rows
  <2> QED BY <1>2, <1>3, <2>1, <2>2
<1> QED BY <1>4, <1>5, <1>6, <1>7 DEF CleanUp

-----------------------------------------------------------------------------
(*****************************************************************************)
(* The files of messages.                                                    *)
(*****************************************************************************)
\* The keys of a message that is being sent, until it is written.
Sendable(s, k) ==
    \/ job[s].at = "called" /\ k \in job[s].todo
    \/ job[s].at \in {"check", "write"} /\ k \in job[s].keys
\* A file that was uploaded for this conversation and may be sent.
Sound(k) == IF place = "channel" THEN k \in object \cup aged ELSE k \in object /\ k \in Rows /\ ~Doomed(k)
SoundKeys ==
    /\ \A f \in Files : draft[f].status = "uploaded" => Sound(draft[f].key)
    /\ \A s \in Submits : \A k : Sendable(s, k) => Sound(k)
ComposerKey(k) ==
    \/ \E f \in Files : (draft[f].status = "uploaded" /\ k = draft[f].key) \/ k \in job[f].keys
    \/ \E s \in Submits : Sendable(s, k)
\* A direct message or one in a group that is about to be written takes no file from another.
Unsent ==
    \A s \in Submits \ crowded : job[s].at = "write" /\ place # "channel" =>
        \A k \in job[s].keys : fileRow[k] = NoPost
\* Message m was sent with k, and has it still.
KeptWith(m, k) ==
    /\ Posted(k)
    /\ k \in late \/ (k \in object /\ ~Doomed(k))
    /\ fileRow[k] = m \/ (post[m] = "group" /\ k \in moved)
    /\ ComposerKey(k) => post[m] = place
SentKept == DOMAIN sentWith = DOMAIN post /\ \A m \in DOMAIN post : \A k \in sentWith[m] : KeptWith(m, k)

-----------------------------------------------------------------------------
LEMMA NotCopies ==
    ASSUME FInv
    PROVE  /\ \A f \in Files : ~IsCopy(draft[f].key)
           /\ \A s \in Submits : \A k : Sendable(s, k) => ~IsCopy(k)
           /\ \A f \in Files : \A k \in job[f].keys : ~IsCopy(k)
<1>1. \A f \in Files : ~IsCopy(draft[f].key)
  BY Composing DEF Upload, IsCopy
<1>2. ASSUME NEW j \in Files \cup Submits, NEW k \in job[j].keys \cup job[j].todo PROVE ~IsCopy(k)
  BY KnownJob, IdleRecord DEF JobKnown, KnownCall, Upload, IsCopy
<1>3. ASSUME NEW s \in Submits, NEW k, Sendable(s, k) PROVE ~IsCopy(k)
  BY <1>2, <1>3 DEF Sendable
<1> QED BY <1>1, <1>2, <1>3

LEMMA SoundStays ==
    ASSUME FInv, Holds, Orderly, UNCHANGED place, NEW k, ~IsCopy(k), Sound(k)
    PROVE  Sound(k)'
<1>1. Doomed(k) => k \in aged
  BY DEF Doomed, Holds
<1>2. CASE place = "channel"
  BY <1>1, <1>2 DEF Sound, Orderly
<1>3. CASE place # "channel"
  BY <1>3 DEF Sound, Orderly
<1> QED BY <1>2, <1>3

\* A step of the page leaves the tables alone; what may be sent are files of the composer.
PageMoves ==
    /\ UNCHANGED <<storage, fileRow, post, script, place>>
    /\ \A f \in Files : draft'[f].status = "uploaded" =>
           \/ draft[f].status = "uploaded" /\ draft'[f].key = draft[f].key
           \/ job[f].reply = "done" /\ draft'[f].key \in job[f].keys /\ (job[f].at # "idle")
    /\ \A s \in Submits : \A k : Sendable(s, k)' =>
           Sendable(s, k) \/ \E f \in Files : draft'[f].status = "uploaded" /\ k = draft'[f].key
    /\ \A j \in Holders : job'[j] = job[j] \/ job'[j].keys = {}
    /\ \A j \in JobSlots : ~Wrote(j)
    /\ \A s \in Submits : job'[s].at = "write" => job'[s] = job[s]

LEMMA QuietMoves ==
    ASSUME UNCHANGED <<files, place>>,
           \A f \in Files : draft'[f].status = "uploaded" =>
               draft[f].status = "uploaded" /\ draft'[f].key = draft[f].key
    PROVE  PageMoves
BY DEF PageMoves, files, Sendable, Wrote, storage

LEMMA AddFileMoves ==
    ASSUME FInv, NEW f, AddFile(f) \/ RemoveAttachment(f) PROVE PageMoves
<1>1. PICK status \in {"ready", "gone"} : draft' = WithStatus(draft, {f}, status)
  BY DEF AddFile, RemoveAttachment
<1>2. \A g \in Files : /\ draft'[g].key = draft[g].key
                       /\ draft'[g].status = IF g \in {f} THEN status ELSE draft[g].status
  BY <1>1, Composing, WithStatusTyped
<1>3. UNCHANGED <<files, place>>
  BY DEF AddFile, RemoveAttachment, composing
<1> QED BY <1>2, <1>3, QuietMoves

LEMMA EditMoves ==
    ASSUME FInv, EditStart \/ EditEnd PROVE PageMoves
<1>1. UNCHANGED <<files, place>> /\ (draft' = draft \/ draft' = Emptied(draft))
  BY DEF EditStart, EditEnd
<1>2. \A f \in Files : draft'[f].status = "uploaded" =>
               draft[f].status = "uploaded" /\ draft'[f].key = draft[f].key
  BY <1>1, Composing, EmptiedStatus
<1> QED BY <1>1, <1>2, QuietMoves

\* New calls hold no keys, and forgotten ones neither.
LEMMA CallsMove ==
    ASSUME FInv, UNCHANGED <<storage, fileRow, post, script, place>>,
           \A f \in Files : draft'[f].status = "uploaded" =>
               draft[f].status = "uploaded" /\ draft'[f].key = draft[f].key,
           \A j \in JobSlots : \/ job'[j] = job[j]
                               \/ job'[j].at \in {"idle", "called"} /\ job'[j].keys = {} /\ job'[j].todo = {}
    PROVE  PageMoves
<1>1. \A s \in Submits : \A k : Sendable(s, k)' => Sendable(s, k)
  BY Composing DEF Sendable
<1>2. \A j \in JobSlots : ~Wrote(j)
  BY DEF Wrote
<1> QED BY <1>1, <1>2, Composing DEF PageMoves, Holders

LEMMA RetryAttachmentMoves ==
    ASSUME FInv, NEW f \in Files, RetryAttachment(f) PROVE PageMoves
<1> DEFINE c == CallsFor("upload", place, {})
<1>1. /\ UNCHANGED <<storage, fileRow, post, script, place>>
      /\ job' = [j \in JobSlots |-> IF j \in {f} THEN c ELSE job[j]]
      /\ draft' = WithStatus(draft, {f}, "uploading")
  BY DEF RetryAttachment, UploadAll, composing
<1>2. \A g \in Files : /\ draft'[g].key = draft[g].key
                       /\ draft'[g].status = IF g \in {f} THEN "uploading" ELSE draft[g].status
  BY <1>1, Composing, WithStatusTyped
<1>3. c.at = "called" /\ c.keys = {} /\ c.todo = {}
  BY Composing, CallRecord DEF Ops
<1> HIDE DEF c
<1> QED BY <1>1, <1>2, <1>3, CallsMove

LEMMA MessageAnsweredMoves ==
    ASSUME FInv, NEW s \in Submits, MessageSent(s) \/ MessageRefused(s) PROVE PageMoves
<1>1. /\ UNCHANGED <<storage, fileRow, post, script, place>>
      /\ job' = [job EXCEPT ![s] = IdleJob] /\ (draft' = Emptied(draft) \/ draft' = draft)
  BY DEF MessageSent, MessageRefused, composing
<1>2. \A f \in Files : draft'[f].status = "uploaded" =>
               draft[f].status = "uploaded" /\ draft'[f].key = draft[f].key
  BY <1>1, Composing, EmptiedStatus
<1> QED BY <1>1, <1>2, IdleRecord, Composing, CallsMove

LEMMA DialogMoves ==
    ASSUME FInv, NEW w \in Forwarders,
           Forwarded(w) \/ \E to \in Places : Forward(w, to)
    PROVE  PageMoves
<1>1. UNCHANGED <<storage, fileRow, post, script, composer>>
  BY DEF Forward, Forwarded
<1>2. CASE Forwarded(w)
  <2>1. job' = [job EXCEPT ![w] = IdleJob]
    BY <1>2 DEF Forwarded
  <2> QED BY <1>1, <2>1, IdleRecord, Composing, CallsMove DEF composer
<1>3. ASSUME NEW to \in Places, Forward(w, to) PROVE PageMoves
  <2> DEFINE c == CallsFor("forward", to, {})
  <2>1. job' = [job EXCEPT ![w] = c]
    BY <1>3 DEF Forward
  <2>2. c.at = "called" /\ c.keys = {} /\ c.todo = {}
    BY CallRecord DEF Ops
  <2> HIDE DEF c
  <2> QED BY <1>1, <2>1, <2>2, Composing, CallsMove DEF composer
<1> QED BY <1>2, <1>3

LEMMA SubmitMessageMoves ==
    ASSUME FInv, NEW s \in Submits, SubmitMessage(s) PROVE PageMoves
<1> PICK needs : needs = {f \in Files : draft[f].status \in {"ready", "failed"}}
  OBVIOUS
<1>0. UNCHANGED <<storage, fileRow, post, script, place>>
  BY DEF SubmitMessage, composing
<1>1. \/ needs = {} /\ Continued(s, draft, Begun(s, needs), job) /\ UNCHANGED draft
      \/ UploadAll(needs)
  BY SubmitMessageIs
<1>2. CASE Continued(s, draft, Begun(s, needs), job) /\ UNCHANGED draft
  <2>1. \A j \in JobSlots \ {s} : job'[j] = job[j]
    BY <1>2 DEF Continued
  <2>2. \/ job'[s] = job[s]
        \/ /\ job'[s].at = "called" /\ job'[s].todo = KeysOf(draft)
           /\ \A f \in InDraft(draft) : draft[f].status = "uploaded"
    BY <1>2 DEF Continued, Sends, Stops
  <2>3. \A t \in Submits : \A k : Sendable(t, k)' =>
           Sendable(t, k) \/ \E f \in Files : draft[f].status = "uploaded" /\ k = draft[f].key
    BY <2>1, <2>2, Composing DEF Sendable, KeysOf, InDraft
  <2>4. \A j \in JobSlots : ~Wrote(j)
    BY <2>1, <2>2 DEF Wrote
  <2>5. \A j \in Holders : job'[j] = job[j]
    BY <2>1 DEF Holders
  <2>6. \A t \in Submits : job'[t].at = "write" => job'[t] = job[t]
    BY <2>1, <2>2, Composing
  <2> QED BY <1>0, <1>2, <2>3, <2>4, <2>5, <2>6 DEF PageMoves
<1>3. CASE UploadAll(needs)
  <2> DEFINE c == CallsFor("upload", place, {})
  <2>1. /\ job' = [j \in JobSlots |-> IF j \in needs THEN c ELSE job[j]]
        /\ draft' = WithStatus(draft, needs, "uploading")
    BY <1>3 DEF UploadAll
  <2>2. \A g \in Files : /\ draft'[g].key = draft[g].key
                         /\ draft'[g].status = IF g \in needs THEN "uploading" ELSE draft[g].status
    BY <2>1, Composing, WithStatusTyped
  <2>3. c.at = "called" /\ c.keys = {} /\ c.todo = {}
    BY Composing, CallRecord DEF Ops
  <2> HIDE DEF c
  <2> QED BY <1>0, <2>1, <2>2, <2>3, CallsMove
<1> QED BY <1>1, <1>2, <1>3

LEMMA UploadAnsweredMoves ==
    ASSUME FInv, NEW f \in Files, UploadAnswered(f) PROVE PageMoves
<1>1. /\ job[f].at = "answered" /\ draft' = DraftAfter(f)
      /\ \/ \E s \in Waiting(f) : Continued(s, DraftAfter(f), Awaiting(f), Forgetting(f))
         \/ job' = Forgetting(f)
  BY UploadGoesOn
<1>2. UNCHANGED <<storage, fileRow, post, script, place>>
  BY DEF UploadAnswered, composing
<1>3. \A g \in Files : draft'[g].status = "uploaded" =>
           \/ draft[g].status = "uploaded" /\ draft'[g].key = draft[g].key
           \/ job[g].reply = "done" /\ draft'[g].key \in job[g].keys /\ job[g].at # "idle"
  BY <1>1, AnsweredTyped
<1>4. /\ Forgetting(f)[f] = IdleJob /\ \A j \in JobSlots \ {f} : Forgetting(f)[j] = job[j]
  BY Composing DEF Forgetting
<1>5. CASE job' = Forgetting(f)
  <2>1. job'[f] = IdleJob /\ \A j \in JobSlots \ {f} : job'[j] = job[j]
    BY <1>4, <1>5
  <2>2. \A t \in Submits : \A k : Sendable(t, k)' => Sendable(t, k)
    BY <2>1, Composing DEF Sendable
  <2>3. \A j \in JobSlots : ~Wrote(j)
    BY <2>1, IdleRecord DEF Wrote
  <2>4. \A j \in Holders : job'[j] = job[j] \/ job'[j].keys = {}
    BY <2>1, IdleRecord DEF Holders
  <2>5. \A t \in Submits : job'[t].at = "write" => job'[t] = job[t]
    BY <2>1, Composing
  <2> QED BY <1>2, <1>3, <2>2, <2>3, <2>4, <2>5 DEF PageMoves
<1>6. ASSUME NEW s \in Waiting(f), Continued(s, DraftAfter(f), Awaiting(f), Forgetting(f)) PROVE PageMoves
  <2>0. s \in Submits /\ s # f /\ s \notin Holders
    BY DEF Waiting, Holders
  <2>1. job'[f] = IdleJob /\ \A j \in JobSlots \ {f, s} : job'[j] = job[j]
    BY <1>4, <1>6, <2>0, Composing DEF Continued
  <2>2. \/ job'[s] = job[s]
        \/ /\ job'[s].at = "called" /\ job'[s].todo = KeysOf(draft')
           /\ \A g \in InDraft(draft') : draft'[g].status = "uploaded"
    BY <1>1, <1>4, <1>6, <2>0, Composing DEF Continued, Sends, Stops
  <2>3. \A t \in Submits : \A k : Sendable(t, k)' =>
           Sendable(t, k) \/ \E g \in Files : draft'[g].status = "uploaded" /\ k = draft'[g].key
    BY <2>0, <2>1, <2>2, Composing DEF Sendable, KeysOf, InDraft
  <2>4. \A j \in JobSlots : ~Wrote(j)
    BY <2>1, <2>2, IdleRecord DEF Wrote
  <2>5. \A j \in Holders : job'[j] = job[j] \/ job'[j].keys = {}
    BY <2>0, <2>1, IdleRecord DEF Holders
  <2>6. \A t \in Submits : job'[t].at = "write" => job'[t] = job[t]
    BY <2>1, <2>2, Composing
  <2> QED BY <1>2, <1>3, <2>3, <2>4, <2>5, <2>6 DEF PageMoves
<1> QED BY <1>1, <1>5, <1>6

LEMMA PageMovesHold ==
    ASSUME FInv, Holds, PageMoves PROVE Holds' /\ Orderly
<1>1. UNCHANGED <<object, aged, fileRow, script>> /\ \A j \in Holders : job'[j] = job[j] \/ job'[j].keys = {}
  BY DEF PageMoves, storage
<1>2. ASSUME NEW j \in Holders PROVE HoldsOf(j)'
  <2>1. HoldsOf(j)
    BY DEF Holds
  <2>2. CASE job'[j] = job[j]
    BY <1>1, <2>1, <2>2 DEF HoldsOf, UploadHolds, ForwardHolds, Rows
  <2>3. CASE job'[j].keys = {}
    BY <2>3 DEF HoldsOf, UploadHolds, ForwardHolds
  <2> QED BY <1>1, <2>2, <2>3
<1>3. \A i, j \in Holders : i # j => job'[i].keys \cap job'[j].keys = {}
  BY <1>1 DEF Holds
<1>4. Holds'
  BY <1>1, <1>2, <1>3 DEF Holds
<1> QED BY <1>1, <1>4, OrderlyGrowing

\* What each step of the files does to messages and to what may be sent.
AboutToWrite(s) ==
    job'[s].at = "write" =>
        \/ job[s].at = "write" /\ job'[s].keys = job[s].keys
        \/ place # "channel" => \A k \in job'[s].keys : fileRow'[k] = NoPost
Steady ==
    /\ Holds' /\ Orderly /\ SoundKeys' /\ UNCHANGED place
    /\ \A k : ComposerKey(k)' => ComposerKey(k) \/ k[2] > drawn
    /\ \A s \in Submits : AboutToWrite(s)
    /\ \/ UNCHANGED post /\ \A j \in JobSlots : ~Wrote(j)
       \/ \E j \in JobSlots : Wrote(j) /\ Writes(j) /\ \A i \in JobSlots \ {j} : job'[i] = job[i]

LEMMA PageMovesSteady ==
    ASSUME FInv, PageKnown, Holds, SoundKeys, PageMoves PROVE Steady
<1>1. UNCHANGED <<object, aged, fileRow, script, post, place>>
  BY DEF PageMoves, storage
<1>2. \A k : Sound(k)' <=> Sound(k)
  BY <1>1 DEF Sound, Doomed, Rows
<1>3. ASSUME NEW f \in Files, draft'[f].status = "uploaded" PROVE Sound(draft'[f].key)
  <2>1. CASE draft[f].status = "uploaded" /\ draft'[f].key = draft[f].key
    BY <2>1 DEF SoundKeys
  <2>2. CASE job[f].reply = "done" /\ draft'[f].key \in job[f].keys /\ job[f].at # "idle"
    <3>1. HoldsOf(f) /\ script.keys \subseteq aged
      BY DEF Holds, Holders
    <3>2. job[f].place = place
      BY <2>2 DEF PageKnown, Calling
    <3>3. draft'[f].key \in object \ aged /\ (place # "channel" => draft'[f].key \in Rows)
      BY <2>2, <3>1, <3>2 DEF HoldsOf, UploadHolds
    <3> QED BY <3>1, <3>3 DEF Sound, Doomed
  <2> QED BY <1>3, <2>1, <2>2 DEF PageMoves
<1>4. SoundKeys'
  <2>1. \A s \in Submits : \A k : Sendable(s, k)' => Sound(k)
    BY <1>3 DEF PageMoves, SoundKeys
  <2> QED BY <1>2, <1>3, <2>1 DEF SoundKeys
<1>5. \A k : ComposerKey(k)' => ComposerKey(k)
  <2>1. \A f \in Files : job'[f].keys = job[f].keys \/ job'[f].keys = {}
    BY DEF PageMoves, Holders
  <2>2. ASSUME NEW k, NEW f \in Files, draft'[f].status = "uploaded", k = draft'[f].key PROVE ComposerKey(k)
    BY <2>2 DEF PageMoves, ComposerKey
  <2>3. ASSUME NEW k, NEW s \in Submits, Sendable(s, k)' PROVE ComposerKey(k)
    BY <2>2, <2>3 DEF PageMoves, ComposerKey
  <2> QED BY <2>1, <2>2, <2>3 DEF ComposerKey
<1>6. \A s \in Submits : AboutToWrite(s)
  BY DEF PageMoves, AboutToWrite
<1>7. \A j \in JobSlots : ~Wrote(j)
  BY DEF PageMoves
<1> QED BY <1>1, <1>4, <1>5, <1>6, <1>7, PageMovesHold DEF Steady

\* A step of the services, seen from the page.
LEMMA ServiceSound ==
    ASSUME FInv, Holds, Orderly, SoundKeys, UNCHANGED composer,
           \A s \in Submits : \A k : Sendable(s, k)' => Sendable(s, k)
    PROVE  SoundKeys'
<1>1. UNCHANGED <<place, draft>>
  BY DEF composer
<1>2. ASSUME NEW f \in Files, draft[f].status = "uploaded" PROVE Sound(draft[f].key)'
  BY <1>1, <1>2, NotCopies, SoundStays DEF SoundKeys
<1>3. ASSUME NEW s \in Submits, NEW k, Sendable(s, k) PROVE Sound(k)'
  BY <1>1, <1>3, NotCopies, SoundStays DEF SoundKeys
<1> QED BY <1>1, <1>2, <1>3 DEF SoundKeys

LEMMA ServedSteady ==
    ASSUME FInv, PageKnown, Holds, SoundKeys, Holds', Orderly, UNCHANGED composer, NEW j \in JobSlots, Served(j)
    PROVE  Steady
<1>1. PICK at, todo, keys, reply : Moves(j, at, todo, keys, reply) /\ Protocol(j, at, todo, keys, reply)
  BY DEF Served
<1>2. /\ \A i \in JobSlots \ {j} : job'[i] = job[i]
      /\ job'[j].at = at /\ job'[j].todo = todo /\ job'[j].keys = keys
  BY <1>1 DEF Moves
<1>3. job[j].at # "idle" /\ at \notin {"idle", "called"}
  BY <1>1 DEF Protocol, Running
<1>4. ASSUME NEW s \in Submits, s = j PROVE job[s].op = "send"
  BY <1>3, <1>4, KnownJob DEF JobKnown, KnownCall
<1>5. ASSUME NEW s \in Submits, NEW k, Sendable(s, k)' PROVE Sendable(s, k)
  <2>1. CASE s # j
    BY <1>2, <1>5, <2>1, Composing DEF Sendable
  <2>2. CASE s = j
    BY <1>1, <1>2, <1>3, <1>4, <1>5, <2>2 DEF Sendable, Protocol, SendProtocol
  <2> QED BY <2>1, <2>2
<1>6. SoundKeys'
  BY <1>5, ServiceSound
<1>7. ASSUME NEW k, ComposerKey(k)' PROVE ComposerKey(k) \/ k[2] > drawn
  <2>1. ASSUME NEW f \in Files, k \in job'[f].keys PROVE k \in job[f].keys \/ k[2] > drawn
    <3>1. CASE f # j
      BY <1>2, <2>1, <3>1, Composing
    <3>2. CASE f = j
      <4>1. job[f].op = "upload"
        BY <1>3, <3>2, KnownJob DEF JobKnown, KnownCall
      <4> QED BY <1>1, <1>2, <2>1, <3>2, <4>1 DEF Protocol
    <3> QED BY <3>1, <3>2
  <2> QED BY <1>5, <1>7, <2>1 DEF ComposerKey, composer
<1>8. ASSUME NEW s \in Submits PROVE AboutToWrite(s)
  <2>1. CASE s # j
    BY <1>2, <2>1, Composing DEF AboutToWrite
  <2>2. CASE s = j
    <3>1. job[s].place = place
      BY <1>3, <2>2 DEF PageKnown, Calling
    <3> QED BY <1>1, <1>2, <1>4, <2>2, <3>1 DEF AboutToWrite, Protocol, SendProtocol
  <2> QED BY <2>1, <2>2
<1>9. \/ UNCHANGED post /\ \A i \in JobSlots : ~Wrote(i)
      \/ Wrote(j) /\ Writes(j)
  <2>1. \A i \in JobSlots \ {j} : ~Wrote(i)
    BY <1>2 DEF Wrote
  <2> QED BY <1>1, <1>2, <2>1 DEF Protocol, Wrote, Writes
<1> QED BY <1>2, <1>6, <1>7, <1>8, <1>9 DEF Steady, composer

\* Calls that are cut short, or stand still.
LEMMA QuietSteady ==
    ASSUME FInv, Holds, SoundKeys, Holds', Orderly, UNCHANGED <<composer, post>>,
           \A j \in JobSlots : \/ job'[j] = job[j]
                               \/ job'[j].at = "answered" /\ job'[j].keys = job[j].keys
    PROVE  Steady
<1>1. \A s \in Submits : \A k : Sendable(s, k)' => Sendable(s, k)
  BY Composing DEF Sendable
<1>2. SoundKeys'
  BY <1>1, ServiceSound
<1>3. \A k : ComposerKey(k)' => ComposerKey(k)
  <2>1. \A f \in Files : job'[f].keys = job[f].keys
    BY Composing
  <2> QED BY <1>1, <2>1 DEF ComposerKey, composer
<1>4. \A s \in Submits : AboutToWrite(s)
  BY Composing DEF AboutToWrite
<1>5. \A j \in JobSlots : ~Wrote(j)
  BY DEF Wrote
<1> QED BY <1>2, <1>3, <1>4, <1>5 DEF Steady, composer

LEMMA FileStepSteady ==
    ASSUME FInv, WorkloadOK, workload.about = "files", PageKnown, Holds, SoundKeys, FileStep
    PROVE  Steady
<1>1. Calling
  BY DEF PageKnown
<1>2. ASSUME NEW j \in JobSlots, UNCHANGED composer,
             FileService(j) \/ JobFails(j) \/ StorageAnswerLost(j) \/ UndoFails(j)
      PROVE  Steady
  <2>1. Holds' /\ Orderly
    BY <1>1, <1>2, FileServiceHolds, JobFailsHolds, StorageAnswerLostHolds, UndoFailsHolds
  <2>2. Served(j)
    BY <1>2, FileServiceServed, FailuresServed
  <2> QED BY <1>2, <2>1, <2>2, ServedSteady
<1>3. ASSUME UNCHANGED composer, CleanUp \/ ADayPasses PROVE Steady
  <2>1. Holds' /\ Orderly
    BY <1>3, CleanUpHolds, ADayPassesHolds
  <2>2. UNCHANGED <<job, post>>
    BY <1>3 DEF CleanUp, ListAllObjects, FetchDbKeys, DeleteOrphan, ScriptEnds, ADayPasses
  <2> QED BY <1>3, <2>1, <2>2, QuietSteady
<1>4. ASSUME UNCHANGED composer, Crash PROVE Steady
  <2>1. Holds' /\ Orderly
    BY <1>4, CrashHolds
  <2>2. ASSUME NEW j \in JobSlots
        PROVE  job'[j] = job[j] \/ (job'[j].at = "answered" /\ job'[j].keys = job[j].keys)
    <3>1. job[j] \in JobRecord
      BY KnownJob
    <3> QED BY <1>4, <3>1 DEF Crash, JobRecord
  <2>3. UNCHANGED post
    BY <1>4 DEF Crash
  <2> QED BY <1>4, <2>1, <2>2, <2>3, QuietSteady
<1>5. ASSUME NEW w \in Forwarders, Forwarded(w) \/ \E to \in Places : Forward(w, to) PROVE Steady
  BY <1>5, DialogMoves, PageMovesSteady
<1>6. CASE FilesMove
  <2>1. Composes => Steady
    BY <1>5, UploadAnsweredMoves, MessageAnsweredMoves, EditMoves, PageMovesSteady DEF Composes
  <2>2. ASSUME NEW f, AddFile(f) \/ RemoveAttachment(f) PROVE Steady
    BY <2>2, AddFileMoves, PageMovesSteady
  <2> QED BY <1>2, <1>3, <1>6, <2>1, <2>2 DEF FilesMove
<1>7. CASE FilesTurn
  <2>1. workload.forwarders \subseteq Forwarders
    BY WorkloadsAssumption DEF WorkloadOK
  <2>2. ASSUME NEW f \in Files, RetryAttachment(f) PROVE Steady
    BY <2>2, RetryAttachmentMoves, PageMovesSteady
  <2>3. ASSUME NEW s \in Submits, SubmitMessage(s) PROVE Steady
    BY <2>3, SubmitMessageMoves, PageMovesSteady
  <2>4. ASSUME EditStart PROVE Steady
    BY <2>4, EditMoves, PageMovesSteady
  <2> QED BY <1>2, <1>3, <1>5, <1>7, <2>1, <2>2, <2>3, <2>4 DEF FilesTurn
<1>8. CASE FilesSuffer
  BY <1>2, <1>4, <1>8 DEF FilesSuffer
<1> QED BY <1>6, <1>7, <1>8 DEF FileStep

-----------------------------------------------------------------------------
LEMMA WriterIs ==
    ASSUME FInv, PageKnown, PageKnown', UNCHANGED place, NEW j \in JobSlots, Wrote(j)
    PROVE  \/ j \in Forwarders /\ job[j].op = "forward" /\ \A k \in job[j].keys : IsCopy(k) /\ k[2] <= drawn
           \/ /\ j \in Submits /\ job[j].op = "send" /\ job[j].place = place
              /\ submit[j].at = "sending" /\ Busy(j)' /\ \A k \in job[j].keys : Sendable(j, k)
<1>1. job[j].at = "write" /\ job'[j].at = "written"
  BY DEF Wrote
<1>2. (j \in Forwarders /\ job[j].op = "forward") \/ (j \in Submits /\ job[j].op = "send")
  BY <1>1, KnownJob DEF JobKnown, KnownCall
<1>3. CASE j \in Forwarders /\ job[j].op = "forward"
  BY <1>3, ForwarderIs
<1>4. CASE j \in Submits /\ job[j].op = "send"
  <2>1. job[j].place = place /\ submit[j].at = "sending"
    BY <1>1, <1>4 DEF PageKnown, Calling
  <2>2. submit'[j].at = "sending"
    BY <1>1, <1>4 DEF PageKnown, Calling
  <2> QED BY <1>1, <1>4, <2>1, <2>2 DEF Busy, Sendable
<1> QED BY <1>2, <1>3, <1>4

LEMMA UnsentStays ==
    ASSUME FInv, PageKnown, PageKnown', FileHistory, SoundKeys, Unsent, Steady
    PROVE  Unsent'
<1> SUFFICES ASSUME NEW s \in Submits, s \notin crowded', job'[s].at = "write", place # "channel",
                    NEW k \in job'[s].keys
             PROVE  fileRow'[k] = NoPost
  BY DEF Unsent, Steady
<1>1. UNCHANGED place /\ Busy(s)'
  BY DEF PageKnown, Calling, Busy, Steady
<1>2. s \notin crowded /\ (place = "group" => \A t \in Submits \ {s} : ~Busy(t)')
  BY <1>1, Uncrowding
<1>3. CASE job[s].at = "write" /\ job'[s].keys = job[s].keys
  <2>1. Sendable(s, k) /\ fileRow[k] = NoPost
    BY <1>2, <1>3 DEF Sendable, Unsent
  <2>2. k \in Rows /\ ~IsCopy(k)
    BY <2>1, NotCopies DEF SoundKeys, Sound
  <2>3. \A j \in JobSlots : Wrote(j) => k \notin job[j].keys
    <3> SUFFICES ASSUME NEW j \in JobSlots, Wrote(j), k \in job[j].keys PROVE FALSE
      OBVIOUS
    <3>1. j \in Submits /\ Busy(j)' /\ j # s
      BY <1>1, <2>2, WriterIs DEF Wrote
    <3>2. place = "group"
      BY <1>1, <3>1 DEF PageKnown, Alone
    <3> QED BY <1>2, <3>1, <3>2
  <2>4. k \in Rows' /\ fileRow'[k] = fileRow[k]
    BY <2>2, <2>3 DEF Steady, Orderly
  <2> QED BY <2>1, <2>4
<1> QED BY <1>3 DEF Steady, AboutToWrite

\* A message keeps a file that is not sent again.
LEMMA KeptStays ==
    ASSUME FInv, Holds, Steady, NEW m, NEW k, KeptWith(m, k),
           \A j \in JobSlots : Wrote(j) => k \notin job[j].keys,
           moved \subseteq moved', late \subseteq late', post'[m] = post[m]
    PROVE  KeptWith(m, k)'
<1>1. k \in Rows /\ fileRow[k] # NoPost
  BY DEF KeptWith, Posted
<1>2. k \in Rows' /\ fileRow'[k] = fileRow[k]
  BY <1>1 DEF Steady, Orderly
<1>3. k \in late' \/ (k \in object' /\ ~Doomed(k)')
  BY <1>1 DEF KeptWith, Steady, Orderly
<1>4. ComposerKey(k)' => post'[m] = place'
  <2>1. ~(k[2] > drawn)
    BY <1>1, NewIsNew
  <2> QED BY <2>1 DEF KeptWith, Steady
<1> QED BY <1>1, <1>2, <1>3, <1>4 DEF KeptWith, Posted

LEMMA SentGoesOn ==
    ASSUME FInv, Holds, SentKept, FileHistory, Steady, UNCHANGED post, \A j \in JobSlots : ~Wrote(j)
    PROVE  SentKept'
<1>1. UNCHANGED <<sentWith, moved, late>>
  BY DEF FileHistory
<1>2. ASSUME NEW m \in DOMAIN post, NEW k \in sentWith[m] PROVE KeptWith(m, k)'
  BY <1>1, <1>2, KeptStays DEF SentKept
<1> QED BY <1>1, <1>2 DEF SentKept

\* The keys a message that is written was meant to have.
MeantKeys(j) == IF j \in Submits \ crowded THEN {draft[f].key : f \in meant[j]} ELSE job[j].keys
LEMMA WritingHistory ==
    ASSUME FileHistory, NEW j \in JobSlots, Wrote(j), \A i \in JobSlots \ {j} : job'[i] = job[i]
    PROVE  /\ sentWith' = [m \in DOMAIN post' |-> IF m \in DOMAIN post THEN sentWith[m] ELSE MeantKeys(j)]
           /\ moved' = moved \cup {k \in MeantKeys(j) \cap Rows : fileRow[k] # NoPost}
           /\ late' = late \cup {k \in MeantKeys(j) \cap aged : job[j].place = "channel"}
<1>1. \A i \in JobSlots : Wrote(i) <=> i = j
  BY DEF Wrote
<1>2. (CHOOSE i \in JobSlots : Wrote(i)) = j
  BY <1>1
<1> QED BY <1>1, <1>2, Zenon DEF FileHistory, MeantKeys

LEMMA MeantIsSent ==
    ASSUME FInv, PageKnown, PageKnown', UNCHANGED place, NEW j \in JobSlots, Wrote(j)
    PROVE  MeantKeys(j) \subseteq job[j].keys
<1>1. CASE j \in Submits \ crowded
  <2>1. j \notin Forwarders /\ submit[j].at = "sending" /\ job[j].at = "write"
    BY <1>1, WriterIs DEF Wrote
  <2>2. \A f \in meant[j] : draft[f].key \in job[j].keys
    BY <1>1, <2>1 DEF PageKnown, MeantKnown, MeantBy
  <2> QED BY <1>1, <2>2 DEF MeantKeys
<1>2. CASE j \notin Submits \ crowded
  BY <1>2 DEF MeantKeys
<1> QED BY <1>1, <1>2

\* An earlier message, when its file is sent again.
LEMMA OlderKeeps ==
    ASSUME FInv, PageKnown, PageKnown', Holds, Unsent, Steady,
           NEW j \in JobSlots, Wrote(j), Writes(j), moved \subseteq moved', late \subseteq late',
           moved' = moved \cup {k \in MeantKeys(j) \cap Rows : fileRow[k] # NoPost},
           NEW m \in DOMAIN post, NEW k \in job[j].keys, KeptWith(m, k),
           post'[m] = post[m], Rows \subseteq Rows', fileRow'[k] = NextPost
    PROVE  KeptWith(m, k)'
<1>1. k \in Rows /\ fileRow[k] # NoPost /\ job[j].at = "write" /\ UNCHANGED place
  BY DEF KeptWith, Posted, Wrote, Steady
<1>2. NextPost \in 1..MaxPosts
  BY NextPostIsNew, KnownJob DEF Writes
<1>3. j \in Submits
  <2> SUFFICES ASSUME j \in Forwarders, job[j].op = "forward" PROVE FALSE
    BY <1>1, WriterIs
  <2>1. ForwardHolds(j)
    BY DEF Holds, HoldsOf, Holders
  <2> QED BY <1>1, <2>1 DEF ForwardHolds
<1>4. job[j].place = place /\ Sendable(j, k)
  BY <1>1, <1>3, WriterIs, ComposerAssumption
<1>5. post[m] = place
  BY <1>3, <1>4 DEF KeptWith, ComposerKey
<1>6. place # "channel"
  BY <1>1, <1>4 DEF Writes
<1>7. j \in crowded
  BY <1>1, <1>3, <1>6 DEF Unsent
<1>8. place = "group"
  BY <1>7 DEF PageKnown, Crowd
<1>9. k \in moved'
  BY <1>1, <1>7 DEF MeantKeys
<1>10. k \in late' \/ (k \in object' /\ ~Doomed(k)')
  BY <1>1 DEF KeptWith, Steady, Orderly
<1>11. Posted(k)'
  BY <1>1, <1>2 DEF Posted
<1> QED BY <1>1, <1>5, <1>8, <1>9, <1>10, <1>11 DEF KeptWith

\* The new message.
LEMMA NewKeeps ==
    ASSUME FInv, PageKnown, PageKnown', Holds, SoundKeys, Steady,
           NEW j \in JobSlots, Wrote(j), Writes(j),
           late' = late \cup {k \in MeantKeys(j) \cap aged : job[j].place = "channel"},
           NEW k \in MeantKeys(j), NEW m, m = NextPost, post'[m] = job[j].place,
           Rows' = IF job[j].place = "channel" THEN Rows \cup job[j].keys ELSE Rows,
           \A i \in job[j].keys \cap Rows' : fileRow'[i] = m
    PROVE  KeptWith(m, k)'
<1>0. UNCHANGED <<place, storage, object, aged, script>> /\ job[j].at = "write"
  BY DEF Steady, Writes, Wrote, storage
<1>1. m \in 1..MaxPosts
  BY NextPostIsNew, KnownJob DEF Writes
<1>2. k \in job[j].keys
  BY <1>0, MeantIsSent
<1>3. CASE j \in Forwarders /\ job[j].op = "forward"
  <2>1. /\ k \in object \ aged /\ script.keys \subseteq aged
        /\ job[j].place # "channel" => k \in Rows
    BY <1>0, <1>2, <1>3 DEF Holds, HoldsOf, Holders, ForwardHolds
  <2>2. IsCopy(k) /\ k[2] <= drawn
    BY <1>2, <1>3, ForwarderIs
  <2>3. ~ComposerKey(k)'
    <3>1. ~ComposerKey(k)
      BY <2>2, NotCopies DEF ComposerKey
    <3>2. k[2] \in Nat
      <4>1. \A i \in KeySpace : i[2] \in Nat
        BY DEF KeySpace
      <4> QED BY <1>2, <4>1, KnownJob
    <3> QED BY <2>2, <3>1, <3>2, KnownJob DEF Steady
  <2>4. k \in Rows' /\ fileRow'[k] = m
    BY <1>2, <2>1
  <2>5. k \in object' /\ ~Doomed(k)'
    BY <1>0, <2>1 DEF Doomed
  <2> QED BY <1>1, <2>3, <2>4, <2>5 DEF KeptWith, Posted
<1>4. CASE j \in Submits /\ job[j].place = place /\ Sendable(j, k)
  <2>1. Sound(k) /\ script.keys \subseteq aged
    BY <1>4 DEF SoundKeys, Holds
  <2>2. k \in Rows' /\ fileRow'[k] = m
    BY <1>2, <1>4, <2>1 DEF Sound
  <2>3. k \in late' \/ (k \in object' /\ ~Doomed(k)')
    <3>1. CASE place = "channel" /\ k \in aged
      BY <1>4, <3>1
    <3>2. CASE place = "channel" /\ k \notin aged
      BY <1>0, <2>1, <3>2 DEF Sound, Doomed
    <3>3. CASE place # "channel"
      BY <1>0, <2>1, <3>3 DEF Sound, Doomed
    <3> QED BY <3>1, <3>2, <3>3
  <2> QED BY <1>0, <1>1, <1>4, <2>2, <2>3 DEF KeptWith, Posted
<1> QED BY <1>0, <1>2, <1>3, <1>4, WriterIs

LEMMA WritingKeeps ==
    ASSUME FInv, PageKnown, PageKnown', Holds, SoundKeys, Unsent, SentKept, FileHistory, Steady,
           NEW j \in JobSlots, Wrote(j), Writes(j), \A i \in JobSlots \ {j} : job'[i] = job[i]
    PROVE  SentKept'
<1>1. \A k \in job[j].keys : k[2] <= drawn
  BY KnownJob DEF JobKnown, KnownCall, Upload, Copy, Wrote
<1>2. /\ DOMAIN post' = DOMAIN post \cup {NextPost} /\ post'[NextPost] = job[j].place
      /\ \A m \in DOMAIN post : post'[m] = post[m]
      /\ Rows' = IF job[j].place = "channel" THEN Rows \cup job[j].keys ELSE Rows
      /\ \A k \in Rows' : fileRow'[k] = IF k \in job[j].keys THEN NextPost ELSE fileRow[k]
  BY <1>1, KnownJob, WriteKeepsTables DEF Writes
<1>3. NextPost \notin DOMAIN post
  BY NextPostIsNew, KnownJob DEF Writes
<1>4. /\ sentWith' = [m \in DOMAIN post' |-> IF m \in DOMAIN post THEN sentWith[m] ELSE MeantKeys(j)]
      /\ moved' = moved \cup {k \in MeantKeys(j) \cap Rows : fileRow[k] # NoPost}
      /\ late' = late \cup {k \in MeantKeys(j) \cap aged : job[j].place = "channel"}
  BY WritingHistory
<1>5. ASSUME NEW m \in DOMAIN post, NEW k \in sentWith[m] PROVE KeptWith(m, k)'
  <2>1. KeptWith(m, k) /\ k \in Rows
    BY <1>5 DEF SentKept, KeptWith, Posted
  <2>2. CASE k \in job[j].keys
    <3>1. Rows \subseteq Rows' /\ fileRow'[k] = NextPost
      BY <1>2, <2>1, <2>2
    <3> QED BY <1>2, <1>4, <2>1, <2>2, <3>1, OlderKeeps
  <2>3. CASE k \notin job[j].keys
    <3>1. \A i \in JobSlots : Wrote(i) => i = j
      BY DEF Wrote
    <3> QED BY <1>2, <1>4, <2>1, <2>3, <3>1, KeptStays
  <2> QED BY <2>2, <2>3
<1>6. ASSUME NEW k \in MeantKeys(j), NEW m, m = NextPost PROVE KeptWith(m, k)'
  BY <1>2, <1>4, <1>6, NewKeeps
<1>7. ASSUME NEW m \in DOMAIN post', NEW k \in sentWith'[m] PROVE KeptWith(m, k)'
  <2>1. CASE m \in DOMAIN post
    BY <1>4, <1>5, <1>7, <2>1
  <2>2. CASE m = NextPost
    BY <1>3, <1>4, <1>6, <1>7, <2>2
  <2> QED BY <1>2, <2>1, <2>2
<1>8. DOMAIN sentWith' = DOMAIN post'
  BY <1>4
<1> QED BY <1>7, <1>8 DEF SentKept

-----------------------------------------------------------------------------
\* The inductive invariant, beside FInv.
KeepInv == PageKnown /\ Holds /\ SoundKeys /\ Unsent /\ SentKept

LEMMA KeptSuffices ==
    ASSUME KeepInv PROVE MessagesKeepFiles
BY DEF KeepInv, SentKept, KeptWith, Posted, MessagesKeepFiles

LEMMA InitKeep ==
    ASSUME MCInit PROVE KeepInv
<1>1. PICK n, at, taken : FilesInit(n, at, taken)
  BY DEF MCInit
<1> DEFINE keys == {<<"attachments", i>> : i \in 1..n}
<1>2. /\ object \subseteq keys /\ Rows = keys /\ \A k \in keys : fileRow[k] = 1
      /\ job = [j \in JobSlots |-> IdleJob] /\ script = [at |-> "idle", keys |-> {}]
  BY <1>1 DEF FilesInit, Rows
<1>3. /\ \A f \in Files : draft[f].status = "new"
      /\ sentWith = [m \in DOMAIN post |-> FilesOf(m)] /\ late = Rows \ object
  BY DEF MCInit, ComposerInit
<1> HIDE DEF keys
<1>4. \A j \in JobSlots : job[j].keys = {} /\ job[j].at = "idle"
  BY <1>2, IdleRecord
<1>5. \A s \in Submits : \A k : ~Sendable(s, k)
  BY <1>4, ComposerAssumption DEF Sendable
<1>6. Holds
  BY <1>2, <1>4, ComposerAssumption DEF Holds, Holders, HoldsOf, UploadHolds, ForwardHolds
<1>7. SoundKeys
  BY <1>3, <1>5 DEF SoundKeys
<1>8. Unsent
  BY <1>4, ComposerAssumption DEF Unsent
<1>9. \A k : ~ComposerKey(k)
  BY <1>3, <1>4, <1>5, ComposerAssumption DEF ComposerKey
<1>10. SentKept
  <2> SUFFICES ASSUME NEW m \in DOMAIN post, NEW k \in sentWith[m] PROVE KeptWith(m, k)
    BY <1>3 DEF SentKept
  <2>1. k \in Rows /\ fileRow[k] = m
    BY <1>3 DEF FilesOf
  <2>2. fileRow[k] # NoPost
    BY <1>2, <2>1, FilesAssumption
  <2>3. ~Doomed(k)
    BY <1>2 DEF Doomed
  <2> QED BY <1>3, <1>9, <2>1, <2>2, <2>3 DEF KeptWith, Posted
<1> QED BY <1>6, <1>7, <1>8, <1>10, InitPage DEF KeepInv

LEMMA KeepStays ==
    ASSUME KeepInv, UNCHANGED fileVars PROVE KeepInv'
<1>1. UNCHANGED <<object, aged, fileRow, post, drawn, job, script, place, draft, crowded, sentWith, moved, late>>
  BY DEF fileVars, files, composer, fileHistory
<1>2. Holds'
  BY <1>1 DEF KeepInv, Holds, HoldsOf, UploadHolds, ForwardHolds, Rows
<1>3. (\A k : Sound(k)' <=> Sound(k)) /\ \A s \in Submits : \A k : Sendable(s, k)' <=> Sendable(s, k)
  BY <1>1 DEF Sound, Sendable, Doomed, Rows
<1>4. SoundKeys' /\ Unsent'
  BY <1>1, <1>3 DEF KeepInv, SoundKeys, Unsent
<1>5. \A k : ComposerKey(k)' <=> ComposerKey(k)
  BY <1>1, <1>3 DEF ComposerKey
<1>6. SentKept'
  BY <1>1, <1>5 DEF KeepInv, SentKept, KeptWith, Posted, Doomed, Rows
<1> QED BY <1>2, <1>4, <1>6, PageStays DEF KeepInv

LEMMA StepKeepsKeep ==
    ASSUME FInv, FInv', WorkloadOK, KeepInv, [MCNext]_mcvars PROVE KeepInv'
<1>1. CASE workload.about = "files" /\ FileStep /\ FileHistory
  <2> USE DEF KeepInv
  <2>1. PageKnown' /\ Steady
    BY <1>1, FileStepPage, FileStepSteady
  <2>2. Unsent'
    BY <1>1, <2>1, UnsentStays
  <2>3. SentKept'
    BY <1>1, <2>1, SentGoesOn, WritingKeeps DEF Steady
  <2> QED BY <2>1, <2>2, <2>3 DEF Steady
<1>2. CASE UNCHANGED fileVars
  BY <1>2, KeepStays
<1> QED BY <1>1, <1>2 DEF MCNext, mcvars

\* A message keeps the files it was sent with, whatever fails, is retried, forwarded
\* or cleaned up (with the exceptions MessagesKeepFiles names).
THEOREM SentFilesAreKept == MCSpec => []MessagesKeepFiles
<1>1. MCInit => FInv /\ WorkloadOK /\ KeepInv
  BY InitFInv, InitKeep
<1>2. FInv /\ WorkloadOK /\ KeepInv /\ [MCNext]_mcvars => (FInv /\ WorkloadOK /\ KeepInv)'
  BY StepKeepsFInv, StepKeepsKeep
<1>3. KeepInv => MessagesKeepFiles
  BY KeptSuffices
<1> QED BY <1>1, <1>2, <1>3, PTL DEF MCSpec

-----------------------------------------------------------------------------
(*****************************************************************************)
(* One reaction for each user, and pins of live messages only.  A handler    *)
(* reads before an await what it relies on when it writes after it; what it  *)
(* read still holds (Claims), unless another call about the message has been *)
(* on its way since, which raced then tells.                                 *)
(*****************************************************************************)
\* Calls and rows have their fields, whatever the values.
CallOf(q) == [op |-> q.op, at |-> q.at, msg |-> q.msg, arg |-> q.arg,
              found |-> q.found, reply |-> q.reply]
RowOf(x) == [used |-> x.used, createdAt |-> x.createdAt, author |-> x.author,
             content |-> x.content, deleted |-> x.deleted, pinned |-> x.pinned]
GivenOf(x) == [active |-> x.active, used |-> x.used, msg |-> x.msg,
               user |-> x.user, emoji |-> x.emoji]
RowsShaped ==
    /\ row = [m \in Msgs |-> row[m]]
    /\ \A m \in Msgs : /\ row[m] = RowOf(row[m])
                       /\ row[m].used \in BOOLEAN /\ row[m].deleted \in BOOLEAN
                       /\ row[m].pinned \in BOOLEAN
ReactionsShaped ==
    /\ reaction = [i \in Rids |-> reaction[i]]
    /\ \A i \in Rids : reaction[i] = GivenOf(reaction[i]) /\ reaction[i].active \in BOOLEAN
CallsShaped ==
    /\ request = [r \in Slots |-> request[r]]
    /\ \A r \in Slots : request[r] = CallOf(request[r])

\* Two calls about the message, or two of the same user, were on their way at once.
Disputed(m) == \E c \in raced : c[1] = m
Twice(m, u) == <<m, {u}>> \in raced

PinsLive == \A m \in Pinned : Live(m) \/ Disputed(m)
OneEmoji ==
    \A m \in Msgs : \A u \in Users :
        Twice(m, u) \/ \A i, j \in ByUser(m, u) : reaction[i].emoji = reaction[j].emoji

\* What a handler relies on when it writes.
ByItsForm(r) == r[2] # "user" => request[r].op \in {"none", "load", "older", "pins"}
PinStands(r) ==
    Handling(r, "pinMessage", "checked") /\ request[r].msg \in Msgs =>
        Live(request[r].msg) \/ Disputed(request[r].msg)
NoneLeft(r) ==
    Handling(r, "addReaction", "creating") /\ request[r].msg \in Msgs =>
        Twice(request[r].msg, Caller(r)) \/ ByUser(request[r].msg, Caller(r)) = {}
AllFound(r) ==
    kind = "channel" /\ Handling(r, "addReaction", "replacing") /\ request[r].msg \in Msgs =>
        \/ Twice(request[r].msg, Caller(r))
        \/ ByUser(request[r].msg, Caller(r)) \subseteq request[r].found
Claims(r) == ByItsForm(r) /\ PinStands(r) /\ NoneLeft(r) /\ AllFound(r)

RInv ==
    /\ kind \in {"channel", "direct", "group"}
    /\ RowsShaped /\ ReactionsShaped /\ CallsShaped
    /\ Racing \subseteq raced
    /\ PinsLive /\ OneEmoji
    /\ \A r \in Slots : Claims(r)

-----------------------------------------------------------------------------
\* The calls move: one of them, to the call q.
TurnsTo(r, q) ==
    /\ CallsShaped' /\ request'[r] = q
    /\ \A s \in Slots \ {r} : request'[s] = request[s]

LEMMA CallTurns ==
    ASSUME CallsShaped, NEW r \in Slots, NEW q, q = CallOf(q), request' = [request EXCEPT ![r] = q]
    PROVE  TurnsTo(r, q)
<1>1. request = [s \in Slots |-> request[s]]
  BY DEF CallsShaped
<1>2. request' = [s \in Slots |-> IF s = r THEN q ELSE request[s]]
  BY <1>1
<1>3. request'[r] = q /\ \A s \in Slots \ {r} : request'[s] = request[s]
  BY <1>2
<1>4. request' = [s \in Slots |-> request'[s]]
  BY <1>2
<1>5. \A s \in Slots : request'[s] = CallOf(request'[s])
  <2> SUFFICES ASSUME NEW s \in Slots PROVE request'[s] = CallOf(request'[s])
    OBVIOUS
  <2>1. CASE s = r
    BY <1>3, <2>1
  <2>2. CASE s # r
    <3>1. request[s] = CallOf(request[s])
      BY DEF CallsShaped
    <3>2. request'[s] = request[s]
      BY <1>3, <2>2
    <3> QED BY <3>1, <3>2
  <2> QED BY <2>1, <2>2
<1> QED BY <1>3, <1>4, <1>5 DEF TurnsTo, CallsShaped

\* A handler goes on with its call.
Turns(r, at, found) ==
    /\ CallsShaped' /\ \A s \in Slots \ {r} : request'[s] = request[s]
    /\ request'[r].op = request[r].op /\ request'[r].msg = request[r].msg
    /\ request'[r].at = at /\ request'[r].found = found

LEMMA HandlerTurns ==
    ASSUME CallsShaped, NEW r \in Slots, NEW at, NEW found, NEW reply, NEW q,
           q = [op |-> request[r].op, at |-> at, msg |-> request[r].msg,
                arg |-> request[r].arg, found |-> found, reply |-> reply],
           request' = [request EXCEPT ![r] = q]
    PROVE  Turns(r, at, found)
<1>1. /\ q.op = request[r].op /\ q.at = at /\ q.msg = request[r].msg /\ q.arg = request[r].arg
      /\ q.found = found /\ q.reply = reply
  OBVIOUS
<1>2. q = CallOf(q)
  BY <1>1 DEF CallOf
<1>3. TurnsTo(r, q)
  BY <1>2, CallTurns
<1> QED BY <1>1, <1>3 DEF TurnsTo, Turns

\* What the helpers of Messages make of a call.
LEMMA StageSet ==
    ASSUME NEW o, NEW b, NEW m, NEW g, NEW f, NEW p, NEW at, NEW found, NEW reply, NEW x, NEW y,
           x = [op |-> o, at |-> b, msg |-> m, arg |-> g, found |-> f, reply |-> p],
           y = [x EXCEPT !.at = at]
    PROVE  y = [op |-> o, at |-> at, msg |-> m, arg |-> g, found |-> f, reply |-> p]
OBVIOUS

LEMMA ReplySet ==
    ASSUME NEW o, NEW b, NEW m, NEW g, NEW f, NEW p, NEW at, NEW found, NEW reply, NEW x, NEW y,
           x = [op |-> o, at |-> b, msg |-> m, arg |-> g, found |-> f, reply |-> p],
           y = [x EXCEPT !.at = at, !.reply = reply]
    PROVE  y = [op |-> o, at |-> at, msg |-> m, arg |-> g, found |-> f, reply |-> reply]
OBVIOUS

LEMMA FoundSet ==
    ASSUME NEW o, NEW b, NEW m, NEW g, NEW f, NEW p, NEW at, NEW found, NEW reply, NEW x, NEW y,
           x = [op |-> o, at |-> b, msg |-> m, arg |-> g, found |-> f, reply |-> p],
           y = [x EXCEPT !.at = at, !.found = found]
    PROVE  y = [op |-> o, at |-> at, msg |-> m, arg |-> g, found |-> found, reply |-> p]
OBVIOUS

LEMMA AnswerSet ==
    ASSUME NEW o, NEW b, NEW m, NEW g, NEW f, NEW p, NEW at, NEW found, NEW reply, NEW x, NEW y,
           x = [op |-> o, at |-> b, msg |-> m, arg |-> g, found |-> f, reply |-> p],
           y = [x EXCEPT !.at = at, !.found = found, !.reply = reply]
    PROVE  y = [op |-> o, at |-> at, msg |-> m, arg |-> g, found |-> found, reply |-> reply]
OBVIOUS

LEMMA CallFields ==
    ASSUME CallsShaped, NEW r \in Slots
    PROVE  request[r] = [op |-> request[r].op, at |-> request[r].at, msg |-> request[r].msg,
                         arg |-> request[r].arg, found |-> request[r].found, reply |-> request[r].reply]
BY DEF CallsShaped, CallOf

LEMMA ProceedTurns ==
    ASSUME CallsShaped, NEW r \in Slots, NEW at, Proceed(r, at)
    PROVE  Turns(r, at, request[r].found)
<1>1. PICK x : x = request[r]
  OBVIOUS
<1>2. PICK y : y = [x EXCEPT !.at = at]
  OBVIOUS
<1>3. x = [op |-> request[r].op, at |-> request[r].at, msg |-> request[r].msg,
           arg |-> request[r].arg, found |-> request[r].found, reply |-> request[r].reply]
  BY <1>1, CallFields
<1>4. y = [op |-> request[r].op, at |-> at, msg |-> request[r].msg,
           arg |-> request[r].arg, found |-> request[r].found, reply |-> request[r].reply]
  BY <1>2, <1>3, StageSet
<1>5. request' = [request EXCEPT ![r] = y]
  BY <1>1, <1>2 DEF Proceed
<1> QED BY <1>4, <1>5, HandlerTurns

LEMMA KeepTurns ==
    ASSUME CallsShaped, NEW r \in Slots, NEW at, NEW a, Keep(r, at, a)
    PROVE  Turns(r, at, request[r].found)
<1>1. PICK x : x = request[r]
  OBVIOUS
<1>2. PICK y : y = [x EXCEPT !.at = at, !.reply = a]
  OBVIOUS
<1>3. x = [op |-> request[r].op, at |-> request[r].at, msg |-> request[r].msg,
           arg |-> request[r].arg, found |-> request[r].found, reply |-> request[r].reply]
  BY <1>1, CallFields
<1>4. y = [op |-> request[r].op, at |-> at, msg |-> request[r].msg,
           arg |-> request[r].arg, found |-> request[r].found, reply |-> a]
  BY <1>2, <1>3, ReplySet
<1>5. request' = [request EXCEPT ![r] = y]
  BY <1>1, <1>2 DEF Keep
<1> QED BY <1>4, <1>5, HandlerTurns

LEMMA FindTurns ==
    ASSUME CallsShaped, NEW r \in Slots, NEW at, NEW S, Find(r, at, S)
    PROVE  Turns(r, at, S)
<1>1. PICK x : x = request[r]
  OBVIOUS
<1>2. PICK y : y = [x EXCEPT !.at = at, !.found = S]
  OBVIOUS
<1>3. x = [op |-> request[r].op, at |-> request[r].at, msg |-> request[r].msg,
           arg |-> request[r].arg, found |-> request[r].found, reply |-> request[r].reply]
  BY <1>1, CallFields
<1>4. y = [op |-> request[r].op, at |-> at, msg |-> request[r].msg,
           arg |-> request[r].arg, found |-> S, reply |-> request[r].reply]
  BY <1>2, <1>3, FoundSet
<1>5. request' = [request EXCEPT ![r] = y]
  BY <1>1, <1>2 DEF Find
<1> QED BY <1>4, <1>5, HandlerTurns

LEMMA AnswerTurns ==
    ASSUME CallsShaped, NEW r \in Slots, NEW a, Answer(r, a)
    PROVE  Turns(r, "answered", {})
<1>1. PICK x : x = request[r]
  OBVIOUS
<1>2. PICK y : y = [x EXCEPT !.at = "answered", !.found = {}, !.reply = a]
  OBVIOUS
<1>3. x = [op |-> request[r].op, at |-> request[r].at, msg |-> request[r].msg,
           arg |-> request[r].arg, found |-> request[r].found, reply |-> request[r].reply]
  BY <1>1, CallFields
<1>4. y = [op |-> request[r].op, at |-> "answered", msg |-> request[r].msg,
           arg |-> request[r].arg, found |-> {}, reply |-> a]
  BY <1>2, <1>3, AnswerSet
<1>5. request' = [request EXCEPT ![r] = y]
  BY <1>1, <1>2 DEF Answer
<1> QED BY <1>4, <1>5, HandlerTurns

-----------------------------------------------------------------------------
\* What raced remembers.
Remembers == raced \subseteq raced' /\ Racing' \subseteq raced'
NotUsers == {"none", "load", "older", "pins"}

LEMMA HistoryRemembers ==
    ASSUME History \/ (UNCHANGED <<vars, raced>> /\ Racing \subseteq raced) PROVE Remembers
<1>1. CASE History
  <2>1. raced' = raced \cup Racing'
    BY <1>1 DEF History
  <2> QED BY <2>1 DEF Remembers
<1>2. CASE UNCHANGED <<vars, raced>> /\ Racing \subseteq raced
  <2>1. Racing' = Racing
    BY <1>2 DEF Racing, Changing, Call, vars
  <2> QED BY <1>2, <2>1 DEF Remembers
<1> QED BY <1>1, <1>2

\* The loads of a page's pins have slots of their own.
LEMMA PinSlots ==
    ASSUME NEW t \in Tabs, NEW i \in PinLoads
    PROVE  <<t, i>> \in Slots /\ i \notin {"user", "page", "older"}
BY MessagesAssumption DEF Slots

LEMMA PinsNext ==
    ASSUME NEW t \in Tabs, MayLoadPins(t)
    PROVE  \E i \in PinLoads : NextPins(t) = <<t, i>>
BY DEF MayLoadPins, NextPins

LEMMA SlotIs ==
    ASSUME NEW r \in Slots
    PROVE  r[1] \in Tabs /\ r = <<r[1], r[2]>> /\ Caller(r) \in Users
BY MessagesAssumption DEF Slots, Caller

LEMMA Rivals ==
    ASSUME Racing \subseteq raced, NEW r \in Slots, NEW s \in Slots, r # s,
           r[2] = "user", s[2] = "user", request[r].msg = request[s].msg, request[r].msg \in Msgs
    PROVE  /\ Disputed(request[r].msg)
           /\ Caller(r) = Caller(s) => Twice(request[r].msg, Caller(r))
<1> DEFINE t == r[1]
           w == s[1]
<1>1. t \in Tabs /\ w \in Tabs /\ r = <<t, "user">> /\ s = <<w, "user">>
  BY SlotIs
<1>2. t # w
  BY <1>1
<1>3. Call(t) = request[r] /\ Call(w) = request[s]
  BY <1>1 DEF Call
<1> HIDE DEF t, w
<1>4. request[r].msg # NoMsg
  BY MessagesAssumption
<1>5. t \in Changing /\ w \in Changing
  BY <1>1, <1>4 DEF Changing
<1> DEFINE c == <<t, w>>
<1>6. c \in {p \in Changing \X Changing : p[1] # p[2] /\ Call(p[1]).msg = Call(p[2]).msg}
  BY <1>2, <1>3, <1>5
<1>7. <<Call(c[1]).msg, {UserOf[c[1]], UserOf[c[2]]}>> \in Racing
  BY <1>6 DEF Racing
<1>8. <<request[r].msg, {Caller(r), Caller(s)}>> \in raced
  <2>1. UserOf[t] = Caller(r) /\ UserOf[w] = Caller(s)
    BY DEF Caller, t, w
  <2>2. c[1] = t /\ c[2] = w
    OBVIOUS
  <2> QED BY <1>3, <1>7, <2>1, <2>2
<1>9. Disputed(request[r].msg)
  <2> DEFINE d == <<request[r].msg, {Caller(r), Caller(s)}>>
  <2>1. d \in raced /\ d[1] = request[r].msg
    BY <1>8
  <2> QED BY <2>1 DEF Disputed
<1>10. ASSUME Caller(r) = Caller(s) PROVE Twice(request[r].msg, Caller(r))
  <2>1. {Caller(r), Caller(s)} = {Caller(r)}
    BY <1>10
  <2> QED BY <1>8, <2>1 DEF Twice
<1> QED BY <1>9, <1>10

LEMMA StillRaced ==
    ASSUME raced \subseteq raced', NEW m, NEW u
    PROVE  (Disputed(m) => Disputed(m)') /\ (Twice(m, u) => Twice(m, u)')
BY DEF Disputed, Twice

\* What another call claims still holds.
LEMMA ClaimsStay ==
    ASSUME Remembers, kind' = kind, NEW s \in Slots, Claims(s), request'[s] = request[s],
           PinStands(s) => PinStands(s)',
           request[s].msg \in Msgs /\ request[s].op = "addReaction" =>
               \/ Twice(request[s].msg, Caller(s))
               \/ ByUser(request[s].msg, Caller(s))' \subseteq ByUser(request[s].msg, Caller(s))
    PROVE  Claims(s)'
<1>1. (Handling(s, "addReaction", "creating"))' <=> Handling(s, "addReaction", "creating")
  BY DEF Handling
<1>2. (Handling(s, "addReaction", "replacing"))' <=> Handling(s, "addReaction", "replacing")
  BY DEF Handling
<1> DEFINE m == request[s].msg
           u == Caller(s)
<1>3. Twice(m, u) => Twice(m, u)'
  BY DEF Remembers, Twice
<1>4. (Twice(request[s].msg, Caller(s)))' <=> Twice(m, u)'
  BY DEF Twice, Caller
<1>5. (ByUser(request[s].msg, Caller(s)))' = ByUser(m, u)'
  BY DEF ByUser, Active, Caller
<1>6. Handling(s, "addReaction", "creating") \/ Handling(s, "addReaction", "replacing")
        => request[s].op = "addReaction"
  BY DEF Handling
<1>7. NoneLeft(s)'
  BY <1>1, <1>3, <1>4, <1>5, <1>6 DEF Claims, NoneLeft
<1>8. AllFound(s)'
  BY <1>2, <1>3, <1>4, <1>5, <1>6 DEF Claims, AllFound
<1>9. ByItsForm(s)' /\ PinStands(s)'
  BY DEF Claims, ByItsForm
<1> QED BY <1>7, <1>8, <1>9 DEF Claims

-----------------------------------------------------------------------------
\* A step of the handler of r keeps what is stored right, and what others claim.
Settles(r) ==
    /\ RowsShaped' /\ ReactionsShaped' /\ PinsLive' /\ OneEmoji' /\ kind' = kind
    /\ \A s \in Slots \ {r} : request'[s] = request[s] => Claims(s)'

LEMMA EmojisStay ==
    ASSUME RInv, Remembers,
           \A m \in Msgs : \A u \in Users : \A i \in ByUser(m, u)' :
               Twice(m, u) \/ (i \in ByUser(m, u) /\ reaction'[i].emoji = reaction[i].emoji)
    PROVE  OneEmoji'
<1> SUFFICES ASSUME NEW m \in Msgs, NEW u \in Users, ~Twice(m, u)',
                    NEW i \in ByUser(m, u)', NEW j \in ByUser(m, u)'
             PROVE  reaction'[i].emoji = reaction'[j].emoji
  BY DEF OneEmoji
<1>1. ~Twice(m, u)
  BY DEF Remembers, Twice
<1>2. i \in ByUser(m, u) /\ j \in ByUser(m, u)
      /\ reaction'[i].emoji = reaction[i].emoji /\ reaction'[j].emoji = reaction[j].emoji
  BY <1>1
<1>3. reaction[i].emoji = reaction[j].emoji
  BY <1>1, <1>2 DEF RInv, OneEmoji
<1> QED BY <1>2, <1>3

\* The handler of r writes at most the row of its message.
LEMMA RowSettles ==
    ASSUME RInv, Remembers, NEW r \in Slots, UNCHANGED <<kind, reaction>>, RowsShaped',
           \A m \in Pinned' : (m \in Pinned /\ ~Live(m)) \/ Live(m)' \/ Disputed(m),
           \A m \in Msgs : Live(m) => \/ Live(m)'
                                      \/ m = request[r].msg /\ request[r].op \notin NotUsers
    PROVE  Settles(r)
<1>1. raced \subseteq raced' /\ Racing \subseteq raced
  BY DEF Remembers, RInv
<1>2. PinsLive'
  <2> SUFFICES ASSUME NEW m \in Pinned' PROVE Live(m)' \/ Disputed(m)'
    BY DEF PinsLive
  <2>1. m \in Pinned => Live(m) \/ Disputed(m)
    BY DEF RInv, PinsLive
  <2>2. Disputed(m) => Disputed(m)'
    BY <1>1, StillRaced
  <2> QED BY <2>1, <2>2
<1>3. \A m, u : ByUser(m, u)' = ByUser(m, u)
  BY DEF ByUser, Active
<1>4. ReactionsShaped'
  BY DEF RInv, ReactionsShaped
<1>5. OneEmoji'
  <2>1. \A m \in Msgs : \A u \in Users : \A i \in ByUser(m, u)' :
            i \in ByUser(m, u) /\ reaction'[i].emoji = reaction[i].emoji
    BY <1>3
  <2> QED BY <2>1, EmojisStay
<1>6. ASSUME NEW s \in Slots \ {r}, request'[s] = request[s] PROVE Claims(s)'
  <2>1. Claims(s) /\ Claims(r)
    BY DEF RInv
  <2>2. PinStands(s)'
    <3>0. PICK m : m = request[s].msg
      OBVIOUS
    <3> SUFFICES ASSUME Handling(s, "pinMessage", "checked")', m \in Msgs
                 PROVE  Live(m)' \/ Disputed(m)'
      <4>1. (Live(request[s].msg))' <=> Live(m)'
        BY <3>0, <1>6 DEF Live
      <4>2. (Disputed(request[s].msg))' <=> Disputed(m)'
        BY <3>0, <1>6 DEF Disputed
      <4> QED BY <3>0, <1>6, <4>1, <4>2 DEF PinStands
    <3>1. Handling(s, "pinMessage", "checked")
      BY <1>6 DEF Handling
    <3>2. Live(m) \/ Disputed(m)
      BY <3>0, <2>1, <3>1 DEF Claims, PinStands
    <3>3. ASSUME m = request[r].msg, request[r].op \notin NotUsers PROVE Disputed(m)
      <4>1. r[2] = "user" /\ s[2] = "user"
        BY <2>1, <3>1, <3>3 DEF Claims, ByItsForm, NotUsers, Handling
      <4> QED BY <3>0, <1>1, <3>3, <4>1, Rivals
    <3>4. Disputed(m) => Disputed(m)'
      BY <1>1, StillRaced
    <3> QED BY <3>2, <3>3, <3>4
  <2>3. (ByUser(request[s].msg, Caller(s)))' = ByUser(request[s].msg, Caller(s))
    BY <1>6 DEF ByUser, Active, Caller
  <2> QED BY <1>6, <2>1, <2>2, <2>3, ClaimsStay
<1> QED BY <1>2, <1>4, <1>5, <1>6 DEF Settles

LEMMA ReadSettles ==
    ASSUME RInv, Remembers, NEW r \in Slots, UNCHANGED server PROVE Settles(r)
<1>1. UNCHANGED <<kind, row, reaction>>
  BY DEF server
<1>2. RowsShaped'
  BY <1>1 DEF RInv, RowsShaped
<1>3. Pinned' = Pinned /\ \A m : Live(m)' <=> Live(m)
  BY <1>1 DEF Pinned, Committed, Live
<1> QED BY <1>1, <1>2, <1>3, RowSettles

\* The handler of r writes at most reactions of its user to its message.
LEMMA ReactionSettles ==
    ASSUME RInv, Remembers, NEW r \in Slots, UNCHANGED <<kind, row>>, ReactionsShaped', OneEmoji',
           \A m \in Msgs : \A u \in Users :
               \/ ByUser(m, u)' \subseteq ByUser(m, u)
               \/ m = request[r].msg /\ u = Caller(r) /\ request[r].op \notin NotUsers
    PROVE  Settles(r)
<1>1. raced \subseteq raced' /\ Racing \subseteq raced
  BY DEF Remembers, RInv
<1>2. Pinned' = Pinned /\ \A m : Live(m)' <=> Live(m)
  BY DEF Pinned, Committed, Live
<1>3. PinsLive'
  <2> SUFFICES ASSUME NEW m \in Pinned PROVE Live(m)' \/ Disputed(m)'
    BY <1>2 DEF PinsLive
  <2>1. Live(m) \/ Disputed(m)
    BY DEF RInv, PinsLive
  <2>2. Disputed(m) => Disputed(m)'
    BY <1>1, StillRaced
  <2> QED BY <1>2, <2>1, <2>2
<1>4. RowsShaped'
  BY DEF RInv, RowsShaped
<1>5. ASSUME NEW s \in Slots \ {r}, request'[s] = request[s] PROVE Claims(s)'
  <2>1. Claims(s) /\ Claims(r)
    BY DEF RInv
  <2>0. PICK m : m = request[s].msg
    OBVIOUS
  <2>4. PICK u : u = Caller(s)
    OBVIOUS
  <2>2. PinStands(s) => PinStands(s)'
    <3>1. (Live(request[s].msg))' <=> Live(m)
      BY <2>0, <1>5 DEF Live
    <3>2. Disputed(m) => (Disputed(request[s].msg))'
      BY <2>0, <1>1, <1>5 DEF Disputed
    <3> QED BY <2>0, <1>5, <3>1, <3>2 DEF PinStands, Handling
  <2>3. ASSUME m \in Msgs, request[s].op = "addReaction"
        PROVE  Twice(m, u) \/ (ByUser(request[s].msg, Caller(s)))' \subseteq ByUser(m, u)
    <3>1. (ByUser(request[s].msg, Caller(s)))' = ByUser(m, u)'
      BY <2>0, <2>4, <1>5 DEF ByUser, Active, Caller
    <3>2. u \in Users
      BY <2>4, SlotIs
    <3>3. ASSUME m = request[r].msg, u = Caller(r), request[r].op \notin NotUsers PROVE Twice(m, u)
      <4>1. r[2] = "user" /\ s[2] = "user"
        BY <2>0, <2>1, <2>3, <3>3 DEF Claims, ByItsForm, NotUsers
      <4> QED BY <2>0, <2>4, <1>1, <2>3, <3>3, <4>1, Rivals
    <3> QED BY <2>3, <3>1, <3>2, <3>3
  <2> QED BY <2>0, <2>4, <1>5, <2>1, <2>2, <2>3, ClaimsStay
<1> QED BY <1>3, <1>4, <1>5 DEF Settles

-----------------------------------------------------------------------------
Shaped(y) == y = RowOf(y) /\ y.used \in BOOLEAN /\ y.deleted \in BOOLEAN /\ y.pinned \in BOOLEAN
Sets(m, y) == row' = [row EXCEPT ![m] = y]

LEMMA RowTurns ==
    ASSUME RowsShaped, NEW m, NEW y, Sets(m, y), m \in Msgs => Shaped(y)
    PROVE  /\ RowsShaped'
           /\ \A n \in Msgs : row'[n] = IF n = m THEN y ELSE row[n]
<1>1. row = [n \in Msgs |-> row[n]]
  BY DEF RowsShaped
<1>2. row' = [n \in Msgs |-> IF n = m THEN y ELSE row[n]]
  BY <1>1 DEF Sets
<1>3. \A n \in Msgs : row'[n] = IF n = m THEN y ELSE row[n]
  BY <1>2
<1>4. row' = [n \in Msgs |-> row'[n]]
  BY <1>2
<1>5. ASSUME NEW n \in Msgs
      PROVE  /\ row'[n] = RowOf(row'[n]) /\ row'[n].used \in BOOLEAN
             /\ row'[n].deleted \in BOOLEAN /\ row'[n].pinned \in BOOLEAN
  <2>1. CASE n = m
    BY <1>3, <2>1 DEF Shaped
  <2>2. CASE n # m
    <3>1. row'[n] = row[n]
      BY <1>3, <2>2
    <3>2. /\ row[n] = RowOf(row[n]) /\ row[n].used \in BOOLEAN
          /\ row[n].deleted \in BOOLEAN /\ row[n].pinned \in BOOLEAN
      BY DEF RowsShaped
    <3> QED BY <3>1, <3>2
  <2> QED BY <2>1, <2>2
<1> QED BY <1>3, <1>4, <1>5 DEF RowsShaped

LEMMA ContentSet ==
    ASSUME NEW us, NEW cr, NEW au, NEW co, NEW de, NEW pi, NEW new, NEW x, NEW y,
           x = [used |-> us, createdAt |-> cr, author |-> au, content |-> co, deleted |-> de, pinned |-> pi],
           y = [x EXCEPT !.content = new]
    PROVE  y = [used |-> us, createdAt |-> cr, author |-> au, content |-> new, deleted |-> de, pinned |-> pi]
OBVIOUS
LEMMA PinSet ==
    ASSUME NEW us, NEW cr, NEW au, NEW co, NEW de, NEW pi, NEW new, NEW x, NEW y,
           x = [used |-> us, createdAt |-> cr, author |-> au, content |-> co, deleted |-> de, pinned |-> pi],
           y = [x EXCEPT !.pinned = new]
    PROVE  y = [used |-> us, createdAt |-> cr, author |-> au, content |-> co, deleted |-> de, pinned |-> new]
OBVIOUS
LEMMA DeletedSet ==
    ASSUME NEW us, NEW cr, NEW au, NEW co, NEW de, NEW pi, NEW x, NEW y,
           x = [used |-> us, createdAt |-> cr, author |-> au, content |-> co, deleted |-> de, pinned |-> pi],
           y = [x EXCEPT !.deleted = TRUE, !.pinned = FALSE]
    PROVE  y = [used |-> us, createdAt |-> cr, author |-> au, content |-> co, deleted |-> TRUE, pinned |-> FALSE]
OBVIOUS

\* What a write makes of the row of m, and nothing of the others.
Written(m, deleted, pinned) ==
    /\ RowsShaped'
    /\ \A n \in Msgs :
        /\ n # m => row'[n] = row[n]
        /\ n = m => /\ row'[n].used = row[n].used
                    /\ row'[n].deleted = deleted /\ row'[n].pinned = pinned

LEMMA RowWritten ==
    ASSUME RowsShaped, NEW m, NEW y, NEW content, NEW deleted, NEW pinned,
           Sets(m, y),
           m \in Msgs =>
               /\ y = [used |-> row[m].used, createdAt |-> row[m].createdAt, author |-> row[m].author,
                       content |-> content, deleted |-> deleted, pinned |-> pinned]
               /\ deleted \in BOOLEAN /\ pinned \in BOOLEAN
    PROVE  Written(m, deleted, pinned)
<1>1. ASSUME m \in Msgs
      PROVE  /\ y.used = row[m].used /\ y.createdAt = row[m].createdAt /\ y.author = row[m].author
             /\ y.content = content /\ y.deleted = deleted /\ y.pinned = pinned
             /\ row[m].used \in BOOLEAN
  BY <1>1 DEF RowsShaped
<1>2. m \in Msgs => Shaped(y)
  BY <1>1 DEF RowOf, Shaped
<1>3. RowsShaped' /\ \A n \in Msgs : row'[n] = IF n = m THEN y ELSE row[n]
  BY <1>2, RowTurns
<1> QED BY <1>1, <1>3 DEF Written

LEMMA RowFields ==
    ASSUME RowsShaped, NEW m \in Msgs
    PROVE  /\ row[m] = [used |-> row[m].used, createdAt |-> row[m].createdAt, author |-> row[m].author,
                        content |-> row[m].content, deleted |-> row[m].deleted, pinned |-> row[m].pinned]
           /\ row[m].used \in BOOLEAN /\ row[m].deleted \in BOOLEAN /\ row[m].pinned \in BOOLEAN
BY DEF RowsShaped, RowOf

LEMMA UpdateWrites ==
    ASSUME RowsShaped, NEW m, NEW c, UpdateMessage(m, c)
    PROVE  Written(m, row[m].deleted, row[m].pinned)
<1>1. PICK x : x = row[m]
  OBVIOUS
<1>2. PICK y : y = [x EXCEPT !.content = c]
  OBVIOUS
<1>3. Sets(m, y)
  BY <1>1, <1>2 DEF UpdateMessage, Sets
<1>4. ASSUME m \in Msgs
      PROVE  /\ y = [used |-> row[m].used, createdAt |-> row[m].createdAt, author |-> row[m].author,
                     content |-> c, deleted |-> row[m].deleted, pinned |-> row[m].pinned]
             /\ row[m].deleted \in BOOLEAN /\ row[m].pinned \in BOOLEAN
  <2>1. x = [used |-> row[m].used, createdAt |-> row[m].createdAt, author |-> row[m].author,
             content |-> row[m].content, deleted |-> row[m].deleted, pinned |-> row[m].pinned]
    BY <1>1, <1>4, RowFields, Zenon
  <2>2. row[m].deleted \in BOOLEAN /\ row[m].pinned \in BOOLEAN
    BY <1>4, RowFields, Zenon
  <2> QED BY <1>2, <2>1, <2>2, ContentSet, Zenon
<1> QED BY <1>3, <1>4, RowWritten

LEMMA PinWrites ==
    ASSUME RowsShaped, NEW m, PinMessage(m) PROVE Written(m, row[m].deleted, TRUE)
<1>1. PICK x : x = row[m]
  OBVIOUS
<1>2. PICK y : y = [x EXCEPT !.pinned = TRUE]
  OBVIOUS
<1>3. Sets(m, y)
  BY <1>1, <1>2 DEF PinMessage, Sets
<1>4. ASSUME m \in Msgs
      PROVE  /\ y = [used |-> row[m].used, createdAt |-> row[m].createdAt, author |-> row[m].author,
                     content |-> row[m].content, deleted |-> row[m].deleted, pinned |-> TRUE]
             /\ row[m].deleted \in BOOLEAN
  <2>1. x = [used |-> row[m].used, createdAt |-> row[m].createdAt, author |-> row[m].author,
             content |-> row[m].content, deleted |-> row[m].deleted, pinned |-> row[m].pinned]
    BY <1>1, <1>4, RowFields, Zenon
  <2>2. row[m].deleted \in BOOLEAN /\ row[m].pinned \in BOOLEAN
    BY <1>4, RowFields, Zenon
  <2> QED BY <1>2, <2>1, <2>2, PinSet, Zenon
<1> QED BY <1>3, <1>4, RowWritten

LEMMA UnpinWrites ==
    ASSUME RowsShaped, NEW m, UnpinMessage(m) PROVE Written(m, row[m].deleted, FALSE)
<1>1. PICK x : x = row[m]
  OBVIOUS
<1>2. PICK y : y = [x EXCEPT !.pinned = FALSE]
  OBVIOUS
<1>3. Sets(m, y)
  BY <1>1, <1>2 DEF UnpinMessage, Sets
<1>4. ASSUME m \in Msgs
      PROVE  /\ y = [used |-> row[m].used, createdAt |-> row[m].createdAt, author |-> row[m].author,
                     content |-> row[m].content, deleted |-> row[m].deleted, pinned |-> FALSE]
             /\ row[m].deleted \in BOOLEAN
  <2>1. x = [used |-> row[m].used, createdAt |-> row[m].createdAt, author |-> row[m].author,
             content |-> row[m].content, deleted |-> row[m].deleted, pinned |-> row[m].pinned]
    BY <1>1, <1>4, RowFields, Zenon
  <2>2. row[m].deleted \in BOOLEAN /\ row[m].pinned \in BOOLEAN
    BY <1>4, RowFields, Zenon
  <2> QED BY <1>2, <2>1, <2>2, PinSet, Zenon
<1> QED BY <1>3, <1>4, RowWritten

LEMMA DeletionWrites ==
    ASSUME RowsShaped, NEW m, SoftDeleteMessage(m) PROVE Written(m, TRUE, FALSE)
<1>1. PICK x : x = row[m]
  OBVIOUS
<1>2. PICK y : y = [x EXCEPT !.deleted = TRUE, !.pinned = FALSE]
  OBVIOUS
<1>3. Sets(m, y)
  BY <1>1, <1>2 DEF SoftDeleteMessage, Sets
<1>4. ASSUME m \in Msgs
      PROVE  y = [used |-> row[m].used, createdAt |-> row[m].createdAt, author |-> row[m].author,
                  content |-> row[m].content, deleted |-> TRUE, pinned |-> FALSE]
  <2>1. x = [used |-> row[m].used, createdAt |-> row[m].createdAt, author |-> row[m].author,
             content |-> row[m].content, deleted |-> row[m].deleted, pinned |-> row[m].pinned]
    BY <1>1, <1>4, RowFields, Zenon
  <2>2. row[m].deleted \in BOOLEAN /\ row[m].pinned \in BOOLEAN
    BY <1>4, RowFields, Zenon
  <2> QED BY <1>2, <2>1, <2>2, DeletedSet, Zenon
<1> QED BY <1>3, <1>4, RowWritten

\* What is written of a message keeps pins and claims.
LEMMA WrittenSettles ==
    ASSUME RInv, Remembers, NEW r \in Slots, UNCHANGED <<kind, reaction>>, NEW m, NEW deleted, NEW pinned,
           Written(m, deleted, pinned), m = request[r].msg, request[r].op \notin NotUsers,
           m \in Msgs => \/ deleted = row[m].deleted /\ pinned = row[m].pinned
                         \/ pinned = FALSE
                         \/ deleted = row[m].deleted /\ (Live(m) \/ Disputed(m))
    PROVE  Settles(r)
<1>1. RowsShaped'
  BY DEF Written
<1>2. \A n \in Msgs : n # m => (Live(n)' <=> Live(n)) /\ (n \in Pinned' <=> n \in Pinned)
  BY DEF Written, Live, Pinned, Committed
<1>3. \A n \in Msgs : Live(n) => Live(n)' \/ n = m
  BY <1>2
<1>4. ASSUME NEW n \in Pinned' PROVE (n \in Pinned /\ ~Live(n)) \/ Live(n)' \/ Disputed(n)
  <2>1. n \in Msgs
    BY DEF Pinned, Committed
  <2>2. CASE n # m
    <3>1. Live(n) \/ ~Live(n)
      OBVIOUS
    <3> QED BY <1>2, <2>1, <2>2, <3>1
  <2>3. CASE n = m
    <3>1. row'[m].used = row[m].used /\ row'[m].deleted = deleted /\ row'[m].pinned = pinned
      BY <2>1, <2>3 DEF Written
    <3>2. row'[m].pinned
      BY <2>3 DEF Pinned
    <3>3. row'[m].used
      BY <2>3 DEF Pinned, Committed
    <3>4. deleted = row[m].deleted => (Live(m)' <=> Live(m))
      BY <2>1, <2>3, <3>1 DEF Live
    <3>5. pinned = row[m].pinned => m \in Pinned
      BY <2>1, <2>3, <3>1, <3>2, <3>3 DEF Pinned, Committed
    <3> QED BY <2>1, <2>3, <3>1, <3>2, <3>4, <3>5
  <2> QED BY <2>2, <2>3
<1> QED BY <1>1, <1>3, <1>4, RowSettles

\* A new message is live, and was no message before.
LEMMA CreateSettles ==
    ASSUME RInv, Remembers, NEW r \in Slots, UNCHANGED <<kind, reaction>>,
           NEW m \in Msgs \ Committed, NEW u, NEW c, CreateMessage(m, u, c)
    PROVE  Settles(r)
<1>1. PICK t \in Times :
          row' = [row EXCEPT ![m] = [used |-> TRUE, createdAt |-> t, author |-> u,
                                     content |-> c, deleted |-> FALSE, pinned |-> FALSE]]
  BY DEF CreateMessage
<1>2. PICK y : y = [used |-> TRUE, createdAt |-> t, author |-> u,
                    content |-> c, deleted |-> FALSE, pinned |-> FALSE]
  OBVIOUS
<1>3. /\ y.used = TRUE /\ y.createdAt = t /\ y.author = u
      /\ y.content = c /\ y.deleted = FALSE /\ y.pinned = FALSE
  BY <1>2
<1>4. y = RowOf(y)
  BY <1>2, <1>3 DEF RowOf
<1>5. RowsShaped' /\ \A n \in Msgs : row'[n] = IF n = m THEN y ELSE row[n]
  <2>1. Sets(m, y)
    BY <1>1, <1>2 DEF Sets
  <2>2. Shaped(y)
    BY <1>3, <1>4 DEF Shaped
  <2>3. RowsShaped
    BY DEF RInv
  <2> QED BY <2>1, <2>2, <2>3, RowTurns
<1>6. \A n \in Msgs : n # m => (Live(n)' <=> Live(n)) /\ (n \in Pinned' <=> n \in Pinned)
  BY <1>5 DEF Live, Pinned, Committed
<1>7. Live(m)'
  BY <1>3, <1>5 DEF Live
<1>8. \A n \in Msgs : Live(n) => Live(n)'
  BY <1>6, <1>7
<1>9. \A n \in Pinned' : n \in Msgs
  BY DEF Pinned, Committed
<1>10. \A n \in Pinned' : (n \in Pinned /\ ~Live(n)) \/ Live(n)' \/ Disputed(n)
  BY <1>6, <1>7, <1>8, <1>9
<1> QED BY <1>5, <1>8, <1>10, RowSettles

-----------------------------------------------------------------------------
LEMMA ActiveSet ==
    ASSUME NEW ac, NEW us, NEW m, NEW u, NEW e, NEW new, NEW x, NEW y,
           x = [active |-> ac, used |-> us, msg |-> m, user |-> u, emoji |-> e],
           y = [x EXCEPT !.active = new]
    PROVE  y = [active |-> new, used |-> us, msg |-> m, user |-> u, emoji |-> e]
OBVIOUS

LEMMA DropOne ==
    ASSUME ReactionsShaped, NEW I, DropReactions(I), NEW i \in Rids
    PROVE  /\ reaction'[i] = GivenOf(reaction'[i]) /\ reaction'[i].active \in BOOLEAN
           /\ reaction'[i].active => reaction[i].active /\ i \notin I
           /\ reaction'[i].msg = reaction[i].msg /\ reaction'[i].user = reaction[i].user
           /\ reaction'[i].emoji = reaction[i].emoji
<1>1. PICK x : x = reaction[i]
  OBVIOUS
<1>2. PICK b \in BOOLEAN : b <=> (x.active /\ i \notin I)
  OBVIOUS
<1>3. x = GivenOf(x) /\ x.active \in BOOLEAN
  BY <1>1 DEF ReactionsShaped
<1>4. b = (x.active /\ i \notin I)
  BY <1>2, <1>3
<1>5. reaction'[i] = [reaction[i] EXCEPT !.active = reaction[i].active /\ i \notin I]
  BY DEF DropReactions
<1>6. PICK y : y = [x EXCEPT !.active = b]
  OBVIOUS
<1>7. reaction'[i] = y
  BY <1>1, <1>4, <1>5, <1>6
<1>8. x = [active |-> x.active, used |-> x.used, msg |-> x.msg, user |-> x.user, emoji |-> x.emoji]
  BY <1>3 DEF GivenOf
<1>9. y = [active |-> b, used |-> x.used, msg |-> x.msg, user |-> x.user, emoji |-> x.emoji]
  BY <1>6, <1>8, ActiveSet
<1>10. y.active = b /\ y.used = x.used /\ y.msg = x.msg /\ y.user = x.user /\ y.emoji = x.emoji
  BY <1>9
<1>11. y = GivenOf(y)
  BY <1>9, <1>10 DEF GivenOf
<1>12. y.active \in BOOLEAN /\ (y.active => x.active /\ i \notin I)
  BY <1>2, <1>10
<1> QED BY <1>1, <1>7, <1>10, <1>11, <1>12

LEMMA DropTakes ==
    ASSUME ReactionsShaped, NEW I, DropReactions(I)
    PROVE  /\ ReactionsShaped'
           /\ \A m, u : ByUser(m, u)' \subseteq ByUser(m, u) \ I
           /\ \A i \in Rids : reaction'[i].emoji = reaction[i].emoji
<1>1. \A i \in Rids : reaction'[i] = GivenOf(reaction'[i]) /\ reaction'[i].active \in BOOLEAN
  BY DropOne
<1>2. reaction' = [i \in Rids |-> reaction'[i]]
  BY DEF DropReactions
<1>3. \A i \in Rids : reaction'[i].emoji = reaction[i].emoji
  BY DropOne
<1>4. ASSUME NEW m, NEW u, NEW i \in ByUser(m, u)' PROVE i \in ByUser(m, u) \ I
  <2>1. PICK e \in Emojis : i \in Active(m, u, e)'
    BY <1>4 DEF ByUser
  <2>2. i \in Rids /\ reaction'[i].active /\ reaction'[i].msg = m /\ reaction'[i].user = u
        /\ reaction'[i].emoji = e
    BY <2>1 DEF Active
  <2>3. i \in Active(m, u, e) /\ i \notin I
    BY <2>2, DropOne DEF Active
  <2> QED BY <2>3 DEF ByUser
<1> QED BY <1>1, <1>2, <1>3, <1>4 DEF ReactionsShaped

LEMMA ByUserIs ==
    ASSUME NEW m, NEW u, NEW i
    PROVE  /\ i \in ByUser(m, u) <=>
                  /\ i \in Rids /\ reaction[i].active /\ reaction[i].msg = m
                  /\ reaction[i].user = u /\ reaction[i].emoji \in Emojis
           /\ i \in ByUser(m, u)' <=>
                  /\ i \in Rids /\ reaction'[i].active /\ reaction'[i].msg = m
                  /\ reaction'[i].user = u /\ reaction'[i].emoji \in Emojis
BY DEF ByUser, Active

LEMMA CreateGives ==
    ASSUME ReactionsShaped, NEW m, NEW u, NEW e, CreateReaction(m, u, e)
    PROVE  /\ ReactionsShaped'
           /\ \E k : /\ \A i \in Rids \ {k} : reaction'[i] = reaction[i]
                     /\ k \in Rids => reaction'[k].msg = m /\ reaction'[k].user = u
<1>1. PICK k : k = CHOOSE i \in FreshRids : \A j \in FreshRids : i <= j
  OBVIOUS
<1>2. PICK y : y = [active |-> TRUE, used |-> TRUE, msg |-> m, user |-> u, emoji |-> e]
  OBVIOUS
<1>3. reaction' = [reaction EXCEPT ![k] = y]
  BY <1>1, <1>2 DEF CreateReaction
<1>4. y.active = TRUE /\ y.used = TRUE /\ y.msg = m /\ y.user = u /\ y.emoji = e
  BY <1>2
<1>5. y = GivenOf(y)
  BY <1>2, <1>4 DEF GivenOf
<1>6. reaction = [i \in Rids |-> reaction[i]]
  BY DEF ReactionsShaped
<1>7. reaction' = [i \in Rids |-> IF i = k THEN y ELSE reaction[i]]
  BY <1>3, <1>6
<1>8. reaction' = [i \in Rids |-> reaction'[i]]
  BY <1>7
<1>9. \A i \in Rids : reaction'[i] = IF i = k THEN y ELSE reaction[i]
  BY <1>7
<1>10. ASSUME NEW i \in Rids PROVE reaction'[i] = GivenOf(reaction'[i]) /\ reaction'[i].active \in BOOLEAN
  <2>1. CASE i = k
    BY <1>4, <1>5, <1>9, <2>1
  <2>2. CASE i # k
    <3>1. reaction'[i] = reaction[i]
      BY <1>9, <2>2
    <3>2. reaction[i] = GivenOf(reaction[i]) /\ reaction[i].active \in BOOLEAN
      BY DEF ReactionsShaped
    <3> QED BY <3>1, <3>2
  <2> QED BY <2>1, <2>2
<1>11. ReactionsShaped'
  BY <1>8, <1>10 DEF ReactionsShaped
<1>12. \A i \in Rids \ {k} : reaction'[i] = reaction[i]
  BY <1>9
<1>13. k \in Rids => reaction'[k].msg = m /\ reaction'[k].user = u
  BY <1>4, <1>9
<1> QED BY <1>11, <1>12, <1>13

LEMMA DropSettles ==
    ASSUME RInv, Remembers, NEW r \in Slots, UNCHANGED <<kind, row>>, NEW I, DropReactions(I)
    PROVE  Settles(r)
<1>1. /\ ReactionsShaped'
      /\ \A m, u : ByUser(m, u)' \subseteq ByUser(m, u) \ I
      /\ \A i \in Rids : reaction'[i].emoji = reaction[i].emoji
  BY DropTakes DEF RInv
<1>2. \A m, u : \A i \in ByUser(m, u) : i \in Rids
  BY ByUserIs
<1>3. OneEmoji'
  BY <1>1, <1>2, EmojisStay
<1> QED BY <1>1, <1>3, ReactionSettles

\* A reaction is created when there is none, unless two of the user's calls met.
LEMMA GivenSettles ==
    ASSUME RInv, Remembers, NEW r \in Slots, UNCHANGED <<kind, row>>,
           Handling(r, "addReaction", "creating"), NEW e,
           CreateReaction(request[r].msg, Caller(r), e)
    PROVE  Settles(r)
<1>0. PICK m : m = request[r].msg
  OBVIOUS
<1>1. PICK u : u = Caller(r)
  OBVIOUS
<1>2. ReactionsShaped'
      /\ \E k : /\ \A i \in Rids \ {k} : reaction'[i] = reaction[i]
                /\ k \in Rids => reaction'[k].msg = m /\ reaction'[k].user = u
  BY <1>0, <1>1, CreateGives DEF RInv
<1>3. PICK k : /\ \A i \in Rids \ {k} : reaction'[i] = reaction[i]
               /\ k \in Rids => reaction'[k].msg = m /\ reaction'[k].user = u
  BY <1>2
<1>4. \A n, v : \A i \in ByUser(n, v)' : i # k => i \in ByUser(n, v) /\ reaction'[i] = reaction[i]
  BY <1>3, ByUserIs
<1>5. \A n, v : k \in ByUser(n, v)' => n = m /\ v = u
  BY <1>3, ByUserIs
<1>6. m \in Msgs => Twice(m, u) \/ ByUser(m, u) = {}
  BY <1>0, <1>1 DEF RInv, Claims, NoneLeft
<1>7. OneEmoji'
  <2> SUFFICES ASSUME NEW n \in Msgs, NEW v \in Users, ~Twice(n, v)',
                      NEW i \in ByUser(n, v)', NEW j \in ByUser(n, v)'
               PROVE  reaction'[i].emoji = reaction'[j].emoji
    BY DEF OneEmoji
  <2>1. ~Twice(n, v)
    BY DEF Remembers, Twice
  <2>2. CASE i = k \/ j = k
    <3>1. n = m /\ v = u
      BY <1>5, <2>2
    <3>2. ByUser(n, v) = {}
      BY <1>6, <2>1, <3>1
    <3> QED BY <1>4, <3>2
  <2>3. CASE i # k /\ j # k
    <3>1. i \in ByUser(n, v) /\ j \in ByUser(n, v) /\ reaction'[i] = reaction[i] /\ reaction'[j] = reaction[j]
      BY <1>4, <2>3
    <3>2. reaction[i].emoji = reaction[j].emoji
      BY <2>1, <3>1 DEF RInv, OneEmoji
    <3> QED BY <3>1, <3>2
  <2> QED BY <2>2, <2>3
<1>8. request[r].op \notin NotUsers
  BY DEF Handling, NotUsers
<1>9. ASSUME NEW n \in Msgs, NEW v \in Users
      PROVE  \/ ByUser(n, v)' \subseteq ByUser(n, v)
             \/ n = request[r].msg /\ v = Caller(r) /\ request[r].op \notin NotUsers
  BY <1>0, <1>1, <1>4, <1>5, <1>8
<1> QED BY <1>2, <1>7, <1>9, ReactionSettles

-----------------------------------------------------------------------------
\* The handler of r goes on: what it will rely on holds.
LEMMA TurnKeeps ==
    ASSUME RInv, Remembers, NEW r \in Slots, Settles(r), NEW at, NEW found, Turns(r, at, found),
           NEW m, NEW u, m = request[r].msg, u = Caller(r),
           at = "checked" /\ request[r].op = "pinMessage" => Live(m)' \/ Disputed(m),
           at = "creating" /\ request[r].op = "addReaction" /\ m \in Msgs =>
               Twice(m, u) \/ ByUser(m, u)' = {},
           at = "replacing" /\ request[r].op = "addReaction" /\ kind = "channel" =>
               Twice(m, u) \/ ByUser(m, u)' \subseteq found
    PROVE  RInv'
<1>1. /\ request'[r].op = request[r].op /\ request'[r].msg = m
      /\ request'[r].at = at /\ request'[r].found = found
      /\ CallsShaped' /\ \A s \in Slots \ {r} : request'[s] = request[s]
  BY DEF Turns
<1>2. (Disputed(m) => Disputed(m)') /\ (Twice(m, u) => Twice(m, u)')
  BY StillRaced DEF Remembers
<1>3. /\ (Live(request[r].msg))' <=> Live(m)'
      /\ (Disputed(request[r].msg))' <=> Disputed(m)'
      /\ (Twice(request[r].msg, Caller(r)))' <=> Twice(m, u)'
      /\ (ByUser(request[r].msg, Caller(r)))' = ByUser(m, u)'
  BY <1>1 DEF Live, Disputed, Twice, ByUser, Active, Caller
<1>4. ByItsForm(r)'
  BY <1>1 DEF RInv, Claims, ByItsForm
<1>5. PinStands(r)'
  BY <1>1, <1>2, <1>3 DEF PinStands, Handling
<1>6. NoneLeft(r)'
  BY <1>1, <1>2, <1>3 DEF NoneLeft, Handling
<1>7. AllFound(r)'
  <2>1. kind' = kind
    BY DEF Settles
  <2> QED BY <1>1, <1>2, <1>3, <2>1 DEF AllFound, Handling
<1>8. \A s \in Slots : Claims(s)'
  BY <1>1, <1>4, <1>5, <1>6, <1>7 DEF Settles, Claims
<1>9. (Racing \subseteq raced)'
  BY DEF Remembers
<1> QED BY <1>1, <1>8, <1>9 DEF Settles, RInv

LEMMA QuietTurnKeeps ==
    ASSUME RInv, Remembers, NEW r \in Slots, Settles(r), NEW at, NEW found, Turns(r, at, found),
           at \notin {"checked", "creating", "replacing"}
    PROVE  RInv'
<1>1. PICK m : m = request[r].msg
  OBVIOUS
<1>2. PICK u : u = Caller(r)
  OBVIOUS
<1> QED BY <1>1, <1>2, TurnKeeps

LEMMA ProceedKeeps ==
    ASSUME RInv, Remembers, NEW r \in Slots, Settles(r), NEW at, Proceed(r, at),
           at \notin {"checked", "creating", "replacing"}
    PROVE  RInv'
BY ProceedTurns, QuietTurnKeeps DEF RInv

LEMMA KeepKeeps ==
    ASSUME RInv, Remembers, NEW r \in Slots, Settles(r), NEW at, NEW a, Keep(r, at, a),
           at \notin {"checked", "creating", "replacing"}
    PROVE  RInv'
BY KeepTurns, QuietTurnKeeps DEF RInv

LEMMA AnswerKeeps ==
    ASSUME RInv, Remembers, NEW r \in Slots, Settles(r), NEW a, Answer(r, a)
    PROVE  RInv'
BY AnswerTurns, QuietTurnKeeps DEF RInv

LEMMA ServerStays ==
    ASSUME Reading \/ UNCHANGED server
    PROVE  UNCHANGED server /\ UNCHANGED <<kind, row, reaction>>
BY DEF Reading, server

\* Its check of a message: a message to pin is live.
LEMMA CheckKeeps ==
    ASSUME RInv, Remembers, NEW r \in Slots, NEW ok, CheckMessage(r, ok),
           ok /\ request[r].op = "pinMessage" => Live(request[r].msg)
    PROVE  RInv'
<1>1. PICK m : m = request[r].msg
  OBVIOUS
<1>2. PICK u : u = Caller(r)
  OBVIOUS
<1>3. UNCHANGED server /\ UNCHANGED <<kind, row, reaction>>
  BY ServerStays DEF CheckMessage
<1>4. Settles(r)
  BY <1>3, ReadSettles
<1>5. CASE ok /\ Proceed(r, "checked")
  <2>1. Turns(r, "checked", request[r].found)
    BY <1>5, ProceedTurns DEF RInv
  <2>2. Live(m)' <=> Live(m)
    BY <1>3 DEF Live
  <2>3. request[r].op = "pinMessage" => Live(m)'
    BY <1>1, <1>5, <2>2
  <2> QED BY <1>1, <1>2, <1>4, <2>1, <2>3, TurnKeeps
<1>6. CASE Refuse(r)
  BY <1>4, <1>6, AnswerKeeps DEF Refuse
<1> QED BY <1>5, <1>6 DEF CheckMessage

\* A message is created, and its row written from the call.
LEMMA CreationKeeps ==
    ASSUME RInv, Remembers, NEW r \in Slots, UNCHANGED <<kind, reaction>>, request[r].op = "create",
           NEW m \in Msgs \ Committed, NEW u, NEW c, CreateMessage(m, u, c), NEW reply,
           request' = [request EXCEPT ![r].at = "written", ![r].msg = m, ![r].reply = reply]
    PROVE  RInv'
<1>1. Settles(r)
  BY CreateSettles
<1>2. PICK x : x = request[r]
  OBVIOUS
<1>3. PICK y : y = [x EXCEPT !.at = "written", !.msg = m, !.reply = reply]
  OBVIOUS
<1>4. x = [op |-> request[r].op, at |-> request[r].at, msg |-> request[r].msg,
           arg |-> request[r].arg, found |-> request[r].found, reply |-> request[r].reply]
  BY <1>2, CallFields DEF RInv
<1>5. y = [op |-> request[r].op, at |-> "written", msg |-> m,
           arg |-> request[r].arg, found |-> request[r].found, reply |-> reply]
  BY <1>3, <1>4
<1>6. request' = [request EXCEPT ![r] = y]
  BY <1>2, <1>3
<1>7. /\ y.op = request[r].op /\ y.at = "written" /\ y.msg = m /\ y.arg = request[r].arg
      /\ y.found = request[r].found /\ y.reply = reply
  BY <1>5
<1>8. y = CallOf(y)
  BY <1>5, <1>7 DEF CallOf
<1>9. TurnsTo(r, y)
  BY <1>6, <1>8, CallTurns DEF RInv
<1>10. CallsShaped' /\ request'[r] = y /\ \A s \in Slots \ {r} : request'[s] = request[s]
  BY <1>9 DEF TurnsTo
<1>11. Claims(r)'
  <2>1. ByItsForm(r)'
    BY <1>7, <1>10 DEF RInv, Claims, ByItsForm
  <2>2. PinStands(r)' /\ NoneLeft(r)' /\ AllFound(r)'
    BY <1>7, <1>10 DEF PinStands, NoneLeft, AllFound, Handling
  <2> QED BY <2>1, <2>2 DEF Claims
<1>12. \A s \in Slots : Claims(s)'
  BY <1>1, <1>10, <1>11 DEF Settles
<1>13. (Racing \subseteq raced)'
  BY DEF Remembers
<1> QED BY <1>1, <1>10, <1>12, <1>13 DEF Settles, RInv

LEMMA RowWriteSettles ==
    ASSUME RInv, Remembers, NEW r \in Slots, UNCHANGED <<kind, reaction>>, request[r].op \notin NotUsers,
           \/ \E c : UpdateMessage(request[r].msg, c)
           \/ SoftDeleteMessage(request[r].msg)
           \/ UnpinMessage(request[r].msg)
           \/ Handling(r, "pinMessage", "checked") /\ PinMessage(request[r].msg)
    PROVE  Settles(r)
<1>1. PICK m : m = request[r].msg
  OBVIOUS
<1>2. RowsShaped
  BY DEF RInv
<1>3. CASE \E c : UpdateMessage(m, c)
  <2>1. Written(m, row[m].deleted, row[m].pinned)
    BY <1>2, <1>3, UpdateWrites
  <2> QED BY <1>1, <2>1, WrittenSettles
<1>4. CASE SoftDeleteMessage(m)
  <2>1. Written(m, TRUE, FALSE)
    BY <1>2, <1>4, DeletionWrites
  <2> QED BY <1>1, <2>1, WrittenSettles
<1>5. CASE UnpinMessage(m)
  <2>1. Written(m, row[m].deleted, FALSE)
    BY <1>2, <1>5, UnpinWrites
  <2> QED BY <1>1, <2>1, WrittenSettles
<1>6. CASE Handling(r, "pinMessage", "checked") /\ PinMessage(m)
  <2>1. Written(m, row[m].deleted, TRUE)
    BY <1>2, <1>6, PinWrites
  <2>2. m \in Msgs => Live(m) \/ Disputed(m)
    BY <1>1, <1>6 DEF RInv, Claims, PinStands
  <2> QED BY <1>1, <2>1, <2>2, WrittenSettles
<1> QED BY <1>1, <1>3, <1>4, <1>5, <1>6

\* Reading steps that rely on nothing later.
LEMMA ReadKeeps ==
    ASSUME RInv, Remembers, NEW r \in Slots, UNCHANGED server,
           \/ \E at : at \notin {"checked", "creating", "replacing"} /\ Proceed(r, at)
           \/ \E at, a : at \notin {"checked", "creating", "replacing"} /\ Keep(r, at, a)
           \/ \E at, S : at \notin {"checked", "creating", "replacing"} /\ Find(r, at, S)
           \/ \E a : Answer(r, a)
           \/ Refuse(r)
    PROVE  RInv'
<1>1. Settles(r)
  BY ReadSettles
<1>2. ASSUME NEW at, at \notin {"checked", "creating", "replacing"}, Proceed(r, at) PROVE RInv'
  BY <1>1, <1>2, ProceedKeeps
<1>3. ASSUME NEW at, NEW a, at \notin {"checked", "creating", "replacing"}, Keep(r, at, a) PROVE RInv'
  BY <1>1, <1>3, KeepKeeps
<1>4. ASSUME NEW at, NEW S, at \notin {"checked", "creating", "replacing"}, Find(r, at, S) PROVE RInv'
  BY <1>1, <1>4, FindTurns, QuietTurnKeeps DEF RInv
<1>5. ASSUME NEW a, Answer(r, a) PROVE RInv'
  BY <1>1, <1>5, AnswerKeeps
<1> QED BY <1>2, <1>3, <1>4, <1>5 DEF Refuse

-----------------------------------------------------------------------------
(* Channels *)
LEMMA CreateKeeps ==
    ASSUME RInv, Remembers, NEW r \in Slots, Create(r) PROVE RInv'
<1>1. CASE CreateWrite(r)
  <2>1. UNCHANGED <<kind, reaction>> /\ request[r].op = "create"
    BY <1>1 DEF CreateWrite, Channel, Handling
  <2>2. \E m \in Msgs \ Committed : \E reply :
            /\ CreateMessage(m, Caller(r), request[r].arg)
            /\ request' = [request EXCEPT ![r].at = "written", ![r].msg = m, ![r].reply = reply]
    BY <1>1, Zenon DEF CreateWrite
  <2> QED BY <2>1, <2>2, CreationKeeps
<1>2. CASE CreateBroadcast(r)
  <2>1. UNCHANGED server /\ \E a : Answer(r, a)
    BY <1>2 DEF CreateBroadcast
  <2> QED BY <2>1, ReadKeeps
<1> QED BY <1>1, <1>2 DEF Create

LEMMA UpdateKeeps ==
    ASSUME RInv, Remembers, NEW r \in Slots, Update(r) PROVE RInv'
<1>1. CASE UpdateCheck(r)
  <2>1. request[r].op = "update"
    BY <1>1 DEF UpdateCheck, Channel, Handling
  <2>2. (\E ok : CheckMessage(r, ok)) \/ (Refuse(r) /\ UNCHANGED server)
    BY <1>1, ServerStays DEF UpdateCheck
  <2> QED BY <2>1, <2>2, CheckKeeps, ReadKeeps
<1>2. CASE UpdateWrite(r)
  <2>1. UNCHANGED <<kind, reaction>> /\ request[r].op \notin NotUsers
    BY <1>2 DEF UpdateWrite, Channel, Handling, NotUsers
  <2>2. UpdateMessage(request[r].msg, request[r].arg) /\ \E a : Keep(r, "written", a)
    BY <1>2 DEF UpdateWrite
  <2> QED BY <2>1, <2>2, RowWriteSettles, KeepKeeps
<1>3. CASE UpdateBroadcast(r)
  <2>1. UNCHANGED server /\ \E a : Answer(r, a)
    BY <1>3 DEF UpdateBroadcast
  <2> QED BY <2>1, ReadKeeps
<1> QED BY <1>1, <1>2, <1>3 DEF Update

LEMMA RemoveKeeps ==
    ASSUME RInv, Remembers, NEW r \in Slots, Remove(r) PROVE RInv'
<1>1. CASE RemoveCheck(r)
  <2>1. request[r].op = "remove" /\ \E ok : CheckMessage(r, ok)
    BY <1>1 DEF RemoveCheck, Channel, Handling
  <2> QED BY <2>1, CheckKeeps
<1>2. CASE RemoveWrite(r)
  <2>1. UNCHANGED <<kind, reaction>> /\ request[r].op \notin NotUsers
    BY <1>2 DEF RemoveWrite, Channel, Handling, NotUsers
  <2>2. SoftDeleteMessage(request[r].msg) /\ Proceed(r, "written")
    BY <1>2 DEF RemoveWrite
  <2> QED BY <2>1, <2>2, RowWriteSettles, ProceedKeeps
<1>3. CASE RemoveBroadcast(r)
  <2>1. UNCHANGED server /\ Answer(r, None)
    BY <1>3 DEF RemoveBroadcast
  <2> QED BY <2>1, ReadKeeps
<1> QED BY <1>1, <1>2, <1>3 DEF Remove

LEMMA PinKeeps ==
    ASSUME RInv, Remembers, NEW r \in Slots, Pin(r) PROVE RInv'
<1>1. CASE PinCheck(r)
  BY <1>1, CheckKeeps DEF PinCheck
<1>2. CASE PinWrite(r) \/ UnpinWrite(r)
  <2>1. UNCHANGED <<kind, reaction>> /\ request[r].op \notin NotUsers /\ Proceed(r, "written")
    BY <1>2 DEF PinWrite, UnpinWrite, Channel, Handling, NotUsers
  <2>2. \/ UnpinMessage(request[r].msg)
        \/ Handling(r, "pinMessage", "checked") /\ PinMessage(request[r].msg)
    BY <1>2 DEF PinWrite, UnpinWrite, Channel
  <2> QED BY <2>1, <2>2, RowWriteSettles, ProceedKeeps
<1>3. CASE PinBroadcast(r) \/ UnpinBroadcast(r)
  <2>1. UNCHANGED server /\ Answer(r, None)
    BY <1>3 DEF PinBroadcast, UnpinBroadcast
  <2> QED BY <2>1, ReadKeeps
<1> QED BY <1>1, <1>2, <1>3 DEF Pin

\* The caller's reactions are read, and dropped before one is created.
LEMMA FindKeeps ==
    ASSUME RInv, Remembers, NEW r \in Slots, FindActiveByUser(r) PROVE RInv'
<1>1. PICK m : m = request[r].msg
  OBVIOUS
<1>2. PICK u : u = Caller(r)
  OBVIOUS
<1>3. UNCHANGED server /\ UNCHANGED <<kind, row, reaction>>
  BY ServerStays DEF FindActiveByUser
<1>4. Settles(r) /\ CallsShaped
  BY <1>3, ReadSettles DEF RInv
<1>5. ByUser(m, u)' = ByUser(m, u)
  BY <1>3 DEF ByUser, Active
<1>6. CASE \E S : Find(r, "dropping", S)
  BY <1>3, <1>6, ReadKeeps
<1>7. CASE Find(r, "replacing", ByUser(m, u))
  <2>1. Turns(r, "replacing", ByUser(m, u))
    BY <1>4, <1>7, FindTurns
  <2>2. Twice(m, u) \/ ByUser(m, u)' \subseteq ByUser(m, u)
    BY <1>5
  <2> QED BY <1>1, <1>2, <1>4, <2>1, <2>2, TurnKeeps
<1>8. CASE Proceed(r, "creating") /\ ByUser(m, u) = {}
  <2>1. Turns(r, "creating", request[r].found)
    BY <1>4, <1>8, ProceedTurns
  <2>2. ByUser(m, u)' = {}
    BY <1>5, <1>8
  <2> QED BY <1>1, <1>2, <1>4, <2>1, <2>2, TurnKeeps
<1> QED BY <1>1, <1>2, <1>6, <1>7, <1>8, Zenon DEF FindActiveByUser

LEMMA SoftDeleteKeeps ==
    ASSUME RInv, Remembers, NEW r \in Slots, SoftDelete(r) PROVE RInv'
<1>1. PICK m : m = request[r].msg
  OBVIOUS
<1>2. PICK u : u = Caller(r)
  OBVIOUS
<1>3. UNCHANGED <<kind, row>> /\ DropReactions(request[r].found) /\ kind = "channel"
      /\ request[r].op = "addReaction"
  BY DEF SoftDelete, Channel, Handling
<1>4. Settles(r) /\ CallsShaped
  BY <1>3, DropSettles DEF RInv
<1>5. CASE request[r].at = "dropping"
  <2>1. Proceed(r, "changed")
    BY <1>5 DEF SoftDelete
  <2> QED BY <1>4, <2>1, ProceedKeeps
<1>6. CASE request[r].at = "replacing"
  <2>1. Proceed(r, "creating")
    BY <1>6 DEF SoftDelete
  <2>2. Turns(r, "creating", request[r].found)
    BY <1>4, <2>1, ProceedTurns
  <2>3. m \in Msgs => Twice(m, u) \/ ByUser(m, u) \subseteq request[r].found
    BY <1>1, <1>2, <1>3, <1>6 DEF RInv, Claims, AllFound, Handling
  <2>4. ByUser(m, u)' \subseteq ByUser(m, u) \ request[r].found
    BY <1>3, DropTakes DEF RInv
  <2>5. m \in Msgs => Twice(m, u) \/ ByUser(m, u)' = {}
    BY <2>3, <2>4
  <2> QED BY <1>1, <1>2, <1>4, <2>2, <2>5, TurnKeeps
<1> QED BY <1>5, <1>6 DEF SoftDelete

LEMMA ReactKeeps ==
    ASSUME RInv, Remembers, NEW r \in Slots, React(r) PROVE RInv'
<1>1. CASE ReactionCheck(r)
  <2>1. request[r].op # "pinMessage" /\ \E ok : CheckMessage(r, ok)
    BY <1>1 DEF ReactionCheck, Channel, Handling
  <2> QED BY <2>1, CheckKeeps
<1>2. CASE AddReactionWrite(r)
  <2>1. UNCHANGED <<kind, row>> /\ Handling(r, "addReaction", "creating")
    BY <1>2 DEF AddReactionWrite, Channel
  <2>2. CASE CreateReaction(request[r].msg, Caller(r), request[r].arg) /\ Proceed(r, "changed")
    BY <2>1, <2>2, GivenSettles, ProceedKeeps
  <2>3. CASE Keep(r, "conflicted", None) /\ UNCHANGED reaction
    <3>1. UNCHANGED server
      BY <2>1, <2>3 DEF server
    <3> QED BY <2>3, <3>1, ReadKeeps
  <2> QED BY <1>2, <2>2, <2>3, Zenon DEF AddReactionWrite
<1>3. CASE RemoveReactionWrite(r)
  <2>1. UNCHANGED <<kind, row>> /\ (\E I : DropReactions(I)) /\ Proceed(r, "changed")
    BY <1>3 DEF RemoveReactionWrite
  <2> QED BY <2>1, DropSettles, ProceedKeeps
<1>4. CASE FindActive(r)
  <2>1. UNCHANGED server /\ (Refuse(r) \/ \E S : Find(r, "removing", S))
    BY <1>4, ServerStays DEF FindActive
  <2> QED BY <2>1, ReadKeeps
<1>5. CASE AddReactionConflicted(r) \/ BroadcastReaction(r)
  <2>1. UNCHANGED server /\ \E a : Answer(r, a)
    BY <1>5, ServerStays DEF AddReactionConflicted, BroadcastReaction
  <2> QED BY <2>1, ReadKeeps
<1>6. CASE ListWithCounts(r)
  <2>1. UNCHANGED server /\ \E a : Keep(r, "counted", a)
    BY <1>6, ServerStays DEF ListWithCounts
  <2> QED BY <2>1, ReadKeeps
<1> QED BY <1>1, <1>2, <1>3, <1>4, <1>5, <1>6, FindKeeps, SoftDeleteKeeps DEF React

LEMMA ChannelKeeps ==
    ASSUME RInv, Remembers, NEW r \in Slots, ChannelService(r) PROVE RInv'
<1>1. CASE List(r) \/ ListPinnedMessages(r)
  <2>1. UNCHANGED server /\ \E a : Answer(r, a)
    BY <1>1, ServerStays DEF List, ListPinnedMessages
  <2> QED BY <2>1, ReadKeeps
<1> QED BY <1>1, CreateKeeps, UpdateKeeps, RemoveKeeps, PinKeeps, ReactKeeps DEF ChannelService

-----------------------------------------------------------------------------
(* Direct conversations *)
LEMMA DirectWritingKeeps ==
    ASSUME RInv, Remembers, NEW r \in Slots, DirectWriting(r) PROVE RInv'
<1>1. CASE DirectCreateWrite(r)
  <2>1. UNCHANGED <<kind, reaction>> /\ request[r].op = "create"
    BY <1>1 DEF DirectCreateWrite, Direct, Handling
  <2>2. \E m \in Msgs \ Committed : \E reply :
            /\ CreateMessage(m, Caller(r), request[r].arg)
            /\ request' = [request EXCEPT ![r].at = "written", ![r].msg = m, ![r].reply = reply]
    BY <1>1, Zenon DEF DirectCreateWrite
  <2> QED BY <2>1, <2>2, CreationKeeps
<1>2. CASE DirectCreateBroadcast(r) \/ DirectUpdateBroadcast(r) \/ DirectDeleteBroadcast(r)
  <2>1. UNCHANGED server /\ \E a : Answer(r, a)
    BY <1>2 DEF DirectCreateBroadcast, DirectUpdateBroadcast, DirectDeleteBroadcast
  <2> QED BY <2>1, ReadKeeps
<1>3. CASE DirectUpdateCheck(r)
  <2>1. request[r].op = "update" /\ \E ok : CheckMessage(r, ok)
    BY <1>3 DEF DirectUpdateCheck, Direct, Handling
  <2> QED BY <2>1, CheckKeeps
<1>4. CASE DirectUpdateWrite(r)
  <2>1. UNCHANGED <<kind, reaction>> /\ request[r].op \notin NotUsers
    BY <1>4 DEF DirectUpdateWrite, Direct, Handling, NotUsers
  <2>2. UpdateMessage(request[r].msg, request[r].arg) /\ \E a : Keep(r, "written", a)
    BY <1>4 DEF DirectUpdateWrite
  <2> QED BY <2>1, <2>2, RowWriteSettles, KeepKeeps
<1>5. CASE DirectUpdateReactions(r)
  <2>1. UNCHANGED server /\ \E a : Keep(r, "counted", a)
    BY <1>5, ServerStays DEF DirectUpdateReactions
  <2> QED BY <2>1, ReadKeeps
<1>6. CASE DirectDeleteCheck(r)
  <2>1. UNCHANGED server /\ request[r].op = "remove"
    BY <1>6, ServerStays DEF DirectDeleteCheck, Direct, Handling
  <2>2. Refuse(r) \/ Answer(r, None) \/ Proceed(r, "checked")
    BY <1>6, Zenon DEF DirectDeleteCheck
  <2>3. CASE Proceed(r, "checked")
    <3>1. Settles(r) /\ Turns(r, "checked", request[r].found)
      BY <2>1, <2>3, ReadSettles, ProceedTurns DEF RInv
    <3>2. PICK m : m = request[r].msg
      OBVIOUS
    <3>3. PICK u : u = Caller(r)
      OBVIOUS
    <3> QED BY <2>1, <3>1, <3>2, <3>3, TurnKeeps
  <2> QED BY <2>1, <2>2, <2>3, ReadKeeps
<1>7. CASE DirectDeleteWrite(r)
  <2>1. UNCHANGED <<kind, reaction>> /\ request[r].op \notin NotUsers
    BY <1>7 DEF DirectDeleteWrite, Direct, Handling, NotUsers
  <2>2. SoftDeleteMessage(request[r].msg) /\ Proceed(r, "written")
    BY <1>7 DEF DirectDeleteWrite
  <2> QED BY <2>1, <2>2, RowWriteSettles, ProceedKeeps
<1> QED BY <1>1, <1>2, <1>3, <1>4, <1>5, <1>6, <1>7 DEF DirectWriting

LEMMA DirectPinKeeps ==
    ASSUME RInv, Remembers, NEW r \in Slots, DirectPin(r) PROVE RInv'
<1>1. CASE DirectPinCheck(r)
  BY <1>1, CheckKeeps DEF DirectPinCheck
<1>2. CASE DirectPinWrite(r) \/ DirectUnpinWrite(r)
  <2>1. UNCHANGED <<kind, reaction>> /\ request[r].op \notin NotUsers /\ Proceed(r, "written")
    BY <1>2 DEF DirectPinWrite, DirectUnpinWrite, Direct, Handling, NotUsers
  <2>2. \/ UnpinMessage(request[r].msg)
        \/ Handling(r, "pinMessage", "checked") /\ PinMessage(request[r].msg)
    BY <1>2 DEF DirectPinWrite, DirectUnpinWrite, Direct
  <2> QED BY <2>1, <2>2, RowWriteSettles, ProceedKeeps
<1>3. CASE DirectPinBroadcast(r) \/ DirectUnpinBroadcast(r)
  <2>1. UNCHANGED server /\ Answer(r, None)
    BY <1>3 DEF DirectPinBroadcast, DirectUnpinBroadcast
  <2> QED BY <2>1, ReadKeeps
<1> QED BY <1>1, <1>2, <1>3 DEF DirectPin

LEMMA DirectReactKeeps ==
    ASSUME RInv, Remembers, NEW r \in Slots, DirectReact(r) PROVE RInv'
<1>1. CASE DirectReactionCheck(r)
  <2>1. request[r].op # "pinMessage" /\ \E ok : CheckMessage(r, ok)
    BY <1>1 DEF DirectReactionCheck, Direct, Handling
  <2> QED BY <2>1, CheckKeeps
<1>2. CASE FindDirectReaction(r)
  <2>1. UNCHANGED server /\ kind = "direct"
    BY <1>2, ServerStays DEF FindDirectReaction, Direct
  <2>2. (\E S : Find(r, "dropping", S)) \/ Proceed(r, "replacing") \/ Proceed(r, "changed")
    BY <1>2, Zenon DEF FindDirectReaction
  <2>3. CASE Proceed(r, "replacing")
    <3>1. Settles(r) /\ Turns(r, "replacing", request[r].found)
      BY <2>1, <2>3, ReadSettles, ProceedTurns DEF RInv
    <3>2. PICK m : m = request[r].msg
      OBVIOUS
    <3>3. PICK u : u = Caller(r)
      OBVIOUS
    <3> QED BY <2>1, <3>1, <3>2, <3>3, TurnKeeps
  <2> QED BY <2>1, <2>2, <2>3, ReadKeeps
<1>3. CASE DeleteDirectReaction(r)
  <2>1. UNCHANGED <<kind, row>>
    BY <1>3 DEF DeleteDirectReaction
  <2>2. \/ DropReactions(request[r].found) /\ Proceed(r, "changed")
        \/ Refuse(r) /\ UNCHANGED reaction
    BY <1>3, Zenon DEF DeleteDirectReaction
  <2>3. UNCHANGED reaction => UNCHANGED server
    BY <2>1 DEF server
  <2> QED BY <2>1, <2>2, <2>3, DropSettles, ProceedKeeps, ReadKeeps
<1>4. CASE DeleteDirectReactionsForUser(r)
  <2>1. PICK m : m = request[r].msg
    OBVIOUS
  <2>2. PICK u : u = Caller(r)
    OBVIOUS
  <2>3. UNCHANGED <<kind, row>> /\ DropReactions(ByUser(m, u)) /\ Proceed(r, "creating")
    BY <1>4, <2>1, <2>2 DEF DeleteDirectReactionsForUser
  <2>4. Settles(r) /\ Turns(r, "creating", request[r].found)
    BY <2>3, DropSettles, ProceedTurns DEF RInv
  <2>5. ByUser(m, u)' \subseteq ByUser(m, u) \ ByUser(m, u)
    BY <2>3, DropTakes DEF RInv
  <2>6. ByUser(m, u)' = {}
    BY <2>5
  <2> QED BY <2>1, <2>2, <2>4, <2>6, TurnKeeps
<1>5. CASE CreateDirectReaction(r)
  <2>1. UNCHANGED <<kind, row>> /\ Handling(r, "addReaction", "creating") /\ Proceed(r, "changed")
    BY <1>5 DEF CreateDirectReaction, Direct
  <2>2. CreateReaction(request[r].msg, Caller(r), request[r].arg) \/ UNCHANGED reaction
    BY <1>5, Zenon DEF CreateDirectReaction
  <2>3. UNCHANGED reaction => UNCHANGED server
    BY <2>1 DEF server
  <2> QED BY <2>1, <2>2, <2>3, GivenSettles, ProceedKeeps, ReadSettles
<1>6. CASE GetDirectMessageReactions(r)
  <2>1. UNCHANGED server /\ \E a : Keep(r, "counted", a)
    BY <1>6, ServerStays DEF GetDirectMessageReactions
  <2> QED BY <2>1, ReadKeeps
<1>7. CASE BroadcastDirectReaction(r)
  <2>1. UNCHANGED server /\ \E a : Answer(r, a)
    BY <1>7 DEF BroadcastDirectReaction
  <2> QED BY <2>1, ReadKeeps
<1> QED BY <1>1, <1>2, <1>3, <1>4, <1>5, <1>6, <1>7 DEF DirectReact

LEMMA DirectKeeps ==
    ASSUME RInv, Remembers, NEW r \in Slots, DirectService(r) PROVE RInv'
<1>1. CASE ListMessagesForConversation(r)
  <2>1. UNCHANGED server /\ \E a : Keep(r, "listed", a)
    BY <1>1, ServerStays DEF ListMessagesForConversation
  <2> QED BY <2>1, ReadKeeps
<1>2. CASE ListDirectReactions(r) \/ ListDirectPins(r)
  <2>1. UNCHANGED server /\ \E a : Answer(r, a)
    BY <1>2, ServerStays DEF ListDirectReactions, ListDirectPins
  <2> QED BY <2>1, ReadKeeps
<1> QED BY <1>1, <1>2, DirectWritingKeeps, DirectPinKeeps, DirectReactKeeps DEF DirectService

-----------------------------------------------------------------------------
(* Groups *)
LEMMA GroupKeeps ==
    ASSUME RInv, Remembers, NEW r \in Slots, GroupService(r) PROVE RInv'
<1>1. CASE GroupCreateWrite(r)
  <2>1. UNCHANGED <<kind, reaction>> /\ request[r].op = "create"
    BY <1>1 DEF GroupCreateWrite, Group, Handling
  <2>2. \E m \in Msgs \ Committed : \E reply :
            /\ CreateMessage(m, Caller(r), request[r].arg)
            /\ request' = [request EXCEPT ![r].at = "written", ![r].msg = m, ![r].reply = reply]
    BY <1>1, Zenon DEF GroupCreateWrite
  <2> QED BY <2>1, <2>2, CreationKeeps
<1>2. CASE GroupPinCheck(r)
  BY <1>2, CheckKeeps DEF GroupPinCheck
<1>3. CASE GroupPinWrite(r) \/ GroupUnpinWrite(r)
  <2>1. UNCHANGED <<kind, reaction>> /\ request[r].op \notin NotUsers /\ Proceed(r, "written")
    BY <1>3 DEF GroupPinWrite, GroupUnpinWrite, Group, Handling, NotUsers
  <2>2. \/ UnpinMessage(request[r].msg)
        \/ Handling(r, "pinMessage", "checked") /\ PinMessage(request[r].msg)
    BY <1>3 DEF GroupPinWrite, GroupUnpinWrite, Group
  <2> QED BY <2>1, <2>2, RowWriteSettles, ProceedKeeps
<1>4. CASE GroupCreateBroadcast(r) \/ GroupPinBroadcast(r) \/ GroupUnpinBroadcast(r)
           \/ ListGroupMessages(r) \/ ListGroupPins(r)
  <2>1. UNCHANGED server /\ \E a : Answer(r, a)
    BY <1>4, ServerStays
       DEF GroupCreateBroadcast, GroupPinBroadcast, GroupUnpinBroadcast, ListGroupMessages, ListGroupPins
  <2> QED BY <2>1, ReadKeeps
<1> QED BY <1>1, <1>2, <1>3, <1>4 DEF GroupService

LEMMA ServiceKeeps ==
    ASSUME RInv, Remembers, NEW r \in Slots, Service(r) \/ Fails(r) PROVE RInv'
<1>1. CASE Service(r)
  <2>1. CASE kind = "channel"
    <3>1. ChannelService(r)
      BY <1>1, <2>1 DEF Service
    <3> QED BY <3>1, ChannelKeeps
  <2>2. CASE kind = "direct"
    <3>1. DirectService(r)
      BY <1>1, <2>2 DEF Service
    <3> QED BY <3>1, DirectKeeps
  <2>3. CASE kind = "group"
    <3>1. GroupService(r)
      BY <1>1, <2>3 DEF Service
    <3> QED BY <3>1, GroupKeeps
  <2>4. kind \in {"channel", "direct", "group"}
    BY DEF RInv
  <2> QED BY <2>1, <2>2, <2>3, <2>4
<1>2. CASE Fails(r)
  <2>1. UNCHANGED server /\ Refuse(r)
    BY <1>2, ServerStays DEF Fails, Fault
  <2> QED BY <2>1, ReadKeeps
<1> QED BY <1>1, <1>2

-----------------------------------------------------------------------------
(* The pages: what they do leaves the server alone. *)
NewCall(s, q) ==
    /\ q = CallOf(q) /\ q.at \in {"idle", "called"}
    /\ s[2] # "user" => q.op \in NotUsers

LEMMA CallsAreNew ==
    ASSUME NEW s, NEW op, NEW m, NEW arg, s[2] = "user" \/ op \in NotUsers
    PROVE  NewCall(s, IdleCall) /\ NewCall(s, Called(op, m, arg))
<1>1. NewCall(s, IdleCall)
  BY DEF NewCall, CallOf, IdleCall, NotUsers
<1>2. PICK q : q = Called(op, m, arg)
  OBVIOUS
<1>3. q = [op |-> op, at |-> "called", msg |-> m, arg |-> arg, found |-> {}, reply |-> None]
  BY <1>2 DEF Called, IdleCall
<1>4. q.op = op /\ q.at = "called" /\ q.msg = m /\ q.arg = arg /\ q.found = {} /\ q.reply = None
  BY <1>3
<1>5. q = CallOf(q)
  BY <1>3, <1>4 DEF CallOf
<1> QED BY <1>1, <1>2, <1>4, <1>5 DEF NewCall

LEMMA PageKeeps ==
    ASSUME RInv, Remembers, UNCHANGED server, NEW t \in Tabs, CallsShaped',
           \A s \in Slots : request'[s] = request[s] \/ NewCall(s, request'[s])
    PROVE  RInv'
<1>1. \A r \in Slots : Settles(r)
  BY ReadSettles
<1>2. <<t, "user">> \in Slots
  BY DEF Slots
<1>3. RowsShaped' /\ ReactionsShaped' /\ PinsLive' /\ OneEmoji' /\ kind' = kind
  BY <1>1, <1>2 DEF Settles
<1>4. ASSUME NEW s \in Slots PROVE Claims(s)'
  <2>1. CASE request'[s] = request[s]
    <3>1. PICK r \in Slots : s # r
      <4>1. <<s[1], "page">> \in Slots /\ <<s[1], "older">> \in Slots /\ <<s[1], "page">> # <<s[1], "older">>
        BY SlotIs DEF Slots
      <4> QED BY <4>1
    <3> QED BY <1>1, <2>1, <3>1 DEF Settles
  <2>2. CASE NewCall(s, request'[s])
    <3>1. ByItsForm(s)'
      BY <2>2 DEF NewCall, NotUsers, ByItsForm
    <3>2. PinStands(s)' /\ NoneLeft(s)' /\ AllFound(s)'
      BY <2>2 DEF NewCall, PinStands, NoneLeft, AllFound, Handling
    <3> QED BY <3>1, <3>2 DEF Claims
  <2> QED BY <2>1, <2>2
<1>5. (Racing \subseteq raced)'
  BY DEF Remembers
<1> QED BY <1>3, <1>4, <1>5 DEF RInv

\* Nothing is called, or one call is made or done with.
LEMMA PageTurnKeeps ==
    ASSUME RInv, Remembers, UNCHANGED server, NEW t \in Tabs,
           \/ request' = request
           \/ \E r \in Slots : \E q : NewCall(r, q) /\ request' = [request EXCEPT ![r] = q]
    PROVE  RInv'
<1>1. CASE request' = request
  BY <1>1, PageKeeps DEF RInv, CallsShaped
<1>2. ASSUME NEW r \in Slots, NEW q, NewCall(r, q), request' = [request EXCEPT ![r] = q]
      PROVE  RInv'
  <2>1. TurnsTo(r, q)
    BY <1>2, CallTurns DEF RInv, NewCall
  <2>2. CallsShaped' /\ \A s \in Slots : request'[s] = request[s] \/ NewCall(s, request'[s])
    BY <1>2, <2>1 DEF TurnsTo
  <2> QED BY <2>2, PageKeeps
<1> QED BY <1>1, <1>2

LEMMA AskKeeps ==
    ASSUME RInv, Remembers, NEW t \in Tabs, NEW op, NEW m, NEW arg, Ask(t, op, m, arg)
    PROVE  RInv'
<1>1. <<t, "user">> \in Slots /\ NewCall(<<t, "user">>, Called(op, m, arg))
  BY CallsAreNew DEF Slots
<1>2. UNCHANGED server /\ request' = [request EXCEPT ![<<t, "user">>] = Called(op, m, arg)]
  BY DEF Ask
<1> QED BY <1>1, <1>2, PageTurnKeeps

LEMMA SettleKeeps ==
    ASSUME RInv, Remembers, NEW t \in Tabs, UNCHANGED server,
           NEW what \in {"user", "page", "older"} \cup PinLoads, Settle(<<t, what>>)
    PROVE  RInv'
<1>1. <<t, what>> \in Slots /\ NewCall(<<t, what>>, IdleCall)
  BY CallsAreNew DEF Slots, NotUsers
<1>2. request' = [request EXCEPT ![<<t, what>>] = IdleCall]
  BY DEF Settle
<1> QED BY <1>1, <1>2, PageTurnKeeps

LEMMA ReadCallKeeps ==
    ASSUME RInv, Remembers, NEW t \in Tabs, UNCHANGED server, NEW what \in {"page", "older"} \cup PinLoads,
           NEW op \in NotUsers, NEW arg, request' = [request EXCEPT ![<<t, what>>] = Called(op, NoMsg, arg)]
    PROVE  RInv'
<1>1. <<t, what>> \in Slots /\ NewCall(<<t, what>>, Called(op, NoMsg, arg))
  BY CallsAreNew DEF Slots
<1> QED BY <1>1, PageTurnKeeps

LEMMA ShowKeeps ==
    ASSUME RInv, Remembers, NEW t \in Tabs,
           Open(t) \/ LoadOlderMessages(t) \/ Join(t) \/ Disconnect(t) \/ Event(t)
    PROVE  RInv'
<1>1. CASE Open(t)
  <2>1. UNCHANGED server /\ request' = [request EXCEPT ![<<t, "page">>] = Called("load", NoMsg, None)]
    BY <1>1 DEF Open
  <2> QED BY <2>1, ReadCallKeeps DEF NotUsers
<1>2. CASE LoadOlderMessages(t)
  <2>1. UNCHANGED server
        /\ request' = [request EXCEPT ![<<t, "older">>] = Called("older", NoMsg, page[t].cursor)]
    BY <1>2 DEF LoadOlderMessages
  <2> QED BY <2>1, ReadCallKeeps DEF NotUsers
<1>3. CASE Join(t) \/ Disconnect(t)
  <2>1. UNCHANGED server /\ request' = request
    BY <1>3 DEF Join, Disconnect
  <2> QED BY <2>1, PageTurnKeeps
<1>4. CASE HandleMessagePinned(t)
  <2>1. /\ UNCHANGED server /\ MayLoadPins(t)
        /\ request' = [request EXCEPT ![NextPins(t)] = Called("pins", NoMsg, None)]
    BY <1>4 DEF HandleMessagePinned, LoadPins
  <2>2. PICK i \in PinLoads : NextPins(t) = <<t, i>>
    BY <2>1, PinsNext
  <2> QED BY <2>1, <2>2, ReadCallKeeps DEF NotUsers
<1>5. CASE HandleMessageCreated(t) \/ HandleMessageUpdated(t) \/ HandleMessageDeleted(t)
           \/ HandleMessageUnpinned(t) \/ HandleReaction(t)
  <2>1. \E p : Receive(t, p)
    BY <1>5 DEF HandleMessageCreated, HandleMessageUpdated, HandleMessageDeleted,
                HandleMessageUnpinned, HandleReaction
  <2>2. UNCHANGED server /\ request' = request
    BY <2>1 DEF Receive
  <2> QED BY <2>2, PageTurnKeeps
<1> QED BY <1>1, <1>2, <1>3, <1>4, <1>5 DEF Event

LEMMA ClicksKeep ==
    ASSUME RInv, Remembers, NEW t \in Tabs, Clicks(t) PROVE RInv'
<1>1. \E op, m, arg : Ask(t, op, m, arg)
  <2>1. ASSUME NEW c, Submit(t, c) PROVE \E op, m, arg : Ask(t, op, m, arg)
    BY <2>1 DEF Submit
  <2>2. ASSUME NEW m, ClickUnpin(t, m) PROVE \E op, n, arg : Ask(t, op, n, arg)
    BY <2>2 DEF ClickUnpin
  <2>3. ASSUME NEW e, \/ \E c \in Contents \ {e.content} : EditSubmit(t, e, c)
                      \/ Delete(t, e)
                      \/ ClickPin(t, e)
                      \/ \E emoji \in Emojis : ReactionClick(t, e, emoji)
        PROVE  \E op, m, arg : Ask(t, op, m, arg)
    <3>1. ASSUME NEW emoji, ReactionClick(t, e, emoji) PROVE \E op, m, arg : Ask(t, op, m, arg)
      BY <3>1, Zenon DEF ReactionClick
    <3> QED BY <2>3, <3>1, Zenon DEF EditSubmit, Delete, ClickPin
  <2> QED BY <2>1, <2>2, <2>3, Zenon DEF Clicks
<1> QED BY <1>1, AskKeeps

LEMMA AnswersKeep ==
    ASSUME RInv, Remembers, NEW t \in Tabs, Answers(t) PROVE RInv'
<1>1. CASE Submitted(t) \/ Edited(t) \/ Deleted(t) \/ PinAnswered(t) \/ UnpinAnswered(t)
           \/ ReactionAnswered(t)
  <2>1. \E p : Answering(t, p)
    BY <1>1 DEF Submitted, Edited, Deleted, PinAnswered, UnpinAnswered, ReactionAnswered
  <2>2. UNCHANGED server /\ Settle(<<t, "user">>)
    BY <2>1 DEF Answering
  <2> QED BY <2>2, SettleKeeps
<1>2. ASSUME NEW i \in PinLoads, PinsLoaded(t, i) PROVE RInv'
  <2>1. UNCHANGED server /\ Settle(<<t, i>>)
    BY <1>2 DEF PinsLoaded
  <2> QED BY <2>1, SettleKeeps
<1>3. CASE OlderLoaded(t)
  <2>1. UNCHANGED server /\ Settle(<<t, "older">>)
    BY <1>3 DEF OlderLoaded
  <2> QED BY <2>1, SettleKeeps
<1>4. CASE Loaded(t)
  <2>1. UNCHANGED server
    BY <1>4 DEF Loaded
  <2> DEFINE a == <<t, "page">>
             b == NextPins(t)
  <2>2. CASE Settle(a)
    BY <2>1, <2>2, SettleKeeps
  <2>3. CASE MayLoadPins(t) /\ request' = [request EXCEPT ![a] = IdleCall, ![b] = Called("pins", NoMsg, None)]
    <3>1. a \in Slots /\ b \in Slots /\ a # b
          /\ NewCall(a, IdleCall) /\ NewCall(b, Called("pins", NoMsg, None))
      <4>1. PICK i \in PinLoads : b = <<t, i>>
        BY <2>3, PinsNext
      <4>2. b \in Slots /\ b[2] # "user" /\ i # "page"
        BY <4>1, PinSlots
      <4> QED BY <4>1, <4>2, CallsAreNew DEF Slots, NotUsers
    <3>2. PICK q : q = Called("pins", NoMsg, None)
      OBVIOUS
    <3> HIDE DEF a, b
    <3>3. request = [s \in Slots |-> request[s]]
      BY DEF RInv, CallsShaped
    <3>4. request' = [s \in Slots |-> IF s = b THEN q ELSE IF s = a THEN IdleCall ELSE request[s]]
      BY <2>3, <3>1, <3>2, <3>3
    <3>5. request' = [s \in Slots |-> request'[s]]
      BY <3>4
    <3>6. \A s \in Slots : request'[s] = IF s = b THEN q ELSE IF s = a THEN IdleCall ELSE request[s]
      BY <3>4
    <3>7. \A s \in Slots : request[s] = CallOf(request[s])
      BY DEF RInv, CallsShaped
    <3>8. \A s \in Slots : request'[s] = CallOf(request'[s])
                           /\ (request'[s] = request[s] \/ NewCall(s, request'[s]))
      <4> SUFFICES ASSUME NEW s \in Slots
                   PROVE  request'[s] = CallOf(request'[s])
                          /\ (request'[s] = request[s] \/ NewCall(s, request'[s]))
        OBVIOUS
      <4>1. CASE s = b
        BY <3>1, <3>2, <3>6, <4>1 DEF NewCall
      <4>2. CASE s # b /\ s = a
        BY <3>1, <3>6, <4>2 DEF NewCall
      <4>3. CASE s # b /\ s # a
        <5>1. request'[s] = request[s]
          BY <3>6, <4>3
        <5> QED BY <3>7, <5>1
      <4> QED BY <4>1, <4>2, <4>3
    <3>9. CallsShaped'
      BY <3>5, <3>8 DEF CallsShaped
    <3> QED BY <2>1, <3>8, <3>9, PageKeeps
  <2> QED BY <1>4, <2>2, <2>3, Zenon DEF Loaded
<1> QED BY <1>1, <1>2, <1>3, <1>4 DEF Answers

-----------------------------------------------------------------------------
LEMMA KeptShaped ==
    ASSUME NEW author, NEW createdAt, row = Kept(author, createdAt)
    PROVE  RowsShaped /\ Pinned = {}
<1>1. row = [m \in Msgs |-> row[m]]
  BY DEF Kept
<1>2. ASSUME NEW m \in Msgs
      PROVE  /\ row[m] = RowOf(row[m]) /\ row[m].used \in BOOLEAN
             /\ row[m].deleted \in BOOLEAN /\ row[m].pinned = FALSE
  <2>1. PICK x : x = NoRow
    OBVIOUS
  <2>2. PICK c, u, co : x = [used |-> FALSE, createdAt |-> c, author |-> u, content |-> co,
                             deleted |-> FALSE, pinned |-> FALSE]
    BY <2>1 DEF NoRow
  <2>3. PICK y : y = [x EXCEPT !.used = TRUE, !.author = author[m], !.createdAt = createdAt[m]]
    OBVIOUS
  <2>4. y = [used |-> TRUE, createdAt |-> createdAt[m], author |-> author[m], content |-> co,
             deleted |-> FALSE, pinned |-> FALSE]
    BY <2>2, <2>3
  <2>5. row[m] = x \/ row[m] = y
    BY <2>1, <2>3, Zenon DEF Kept
  <2>6. x.used = FALSE /\ x.createdAt = c /\ x.author = u /\ x.content = co
        /\ x.deleted = FALSE /\ x.pinned = FALSE
    BY <2>2
  <2>7. y.used = TRUE /\ y.createdAt = createdAt[m] /\ y.author = author[m] /\ y.content = co
        /\ y.deleted = FALSE /\ y.pinned = FALSE
    BY <2>4
  <2>8. x = RowOf(x) /\ y = RowOf(y)
    BY <2>2, <2>4, <2>6, <2>7 DEF RowOf
  <2>9. CASE row[m] = x
    BY <2>6, <2>8, <2>9
  <2>10. CASE row[m] = y
    BY <2>7, <2>8, <2>10
  <2> QED BY <2>5, <2>9, <2>10
<1>3. RowsShaped
  BY <1>1, <1>2 DEF RowsShaped
<1>4. Pinned = {}
  BY <1>2 DEF Pinned, Committed
<1> QED BY <1>3, <1>4

LEMMA InitR ==
    ASSUME MCInit PROVE RInv
<1>1. /\ kind \in {"channel", "direct", "group"}
      /\ \E author, createdAt : row = Kept(author, createdAt)
      /\ reaction = [i \in Rids |-> NoReaction]
      /\ request = [r \in Slots |-> IdleCall]
      /\ raced = {}
  <2>1. workload \in Workloads
    BY DEF MCInit
  <2>2. CASE workload.about = "pages" /\ PagesInit
    <3>1. kind \in workload.kinds
      BY <2>2 DEF PagesInit
    <3>2. kind \in {"channel", "direct", "group"}
      BY <2>1, <2>2, <3>1, WorkloadsAssumption, MessagesAssumption
    <3>3. \E author, createdAt : row = Kept(author, createdAt)
      BY <2>2, Zenon DEF PagesInit
    <3> QED BY <2>2, <3>2, <3>3 DEF PagesInit
  <2>3. CASE workload.about = "files" /\ NoPages
    <3>1. kind = "channel"
      BY <2>3 DEF NoPages
    <3>2. \E author, createdAt : row = Kept(author, createdAt)
      BY <2>3, Zenon DEF NoPages
    <3> QED BY <2>3, <3>1, <3>2 DEF NoPages
  <2> QED BY <2>2, <2>3 DEF MCInit
<1>2. RowsShaped /\ Pinned = {}
  BY <1>1, KeptShaped
<1>3. PICK x : x = NoReaction
  OBVIOUS
<1>4. \E m, u, e : x = [active |-> FALSE, used |-> FALSE, msg |-> m, user |-> u, emoji |-> e]
  BY <1>3 DEF NoReaction
<1>5. x = GivenOf(x) /\ x.active = FALSE
  BY <1>4 DEF GivenOf
<1>6. ReactionsShaped /\ \A i \in Rids : reaction[i].active = FALSE
  BY <1>1, <1>3, <1>5 DEF ReactionsShaped
<1>7. \A m, u : ByUser(m, u) = {}
  BY <1>6 DEF ByUser, Active
<1>8. PICK q : q = IdleCall
  OBVIOUS
<1>9. /\ q = CallOf(q) /\ q.op = "none" /\ q.at = "idle" /\ q.msg = NoMsg
  BY <1>8 DEF IdleCall, CallOf
<1>10. CallsShaped /\ \A r \in Slots : request[r] = q
  BY <1>1, <1>8, <1>9 DEF CallsShaped
<1>11. \A r \in Slots : Claims(r)
  BY <1>9, <1>10 DEF Claims, ByItsForm, PinStands, NoneLeft, AllFound, Handling
<1>12. Racing \subseteq raced
  <2>1. \A t \in Tabs : request[<<t, "user">>].msg = NoMsg
    BY <1>9, <1>10 DEF Slots
  <2>2. Changing = {}
    BY <2>1 DEF Changing
  <2> QED BY <2>2 DEF Racing
<1>13. PinsLive /\ OneEmoji
  BY <1>2, <1>7 DEF PinsLive, OneEmoji
<1> QED BY <1>1, <1>2, <1>6, <1>10, <1>11, <1>12, <1>13 DEF RInv

LEMMA StepKeepsR ==
    ASSUME RInv, [MCNext]_mcvars PROVE RInv'
<1>1. CASE Step /\ History
  <2>1. Remembers
    BY <1>1, HistoryRemembers
  <2>2. ASSUME NEW r \in Slots, Service(r) \/ Fails(r) PROVE RInv'
    BY <2>1, <2>2, ServiceKeeps
  <2>3. ASSUME NEW t \in Tabs, \/ Open(t) \/ LoadOlderMessages(t) \/ Join(t) \/ Disconnect(t)
                               \/ Event(t) \/ Clicks(t) \/ Answers(t)
        PROVE  RInv'
    BY <2>1, <2>3, ShowKeeps, ClicksKeep, AnswersKeep
  <2> QED BY <1>1, <2>2, <2>3, Zenon DEF Step
<1>2. CASE UNCHANGED <<vars, pageHistory>>
  <2>1. UNCHANGED <<kind, row, reaction, request, raced>>
    BY <1>2 DEF vars, server, pageHistory
  <2>2. (Racing \subseteq raced)'
    <3>1. Racing' = Racing
      BY <2>1 DEF Racing, Changing, Call
    <3> QED BY <2>1, <3>1 DEF RInv
  <2>3. RowsShaped' /\ ReactionsShaped' /\ CallsShaped'
    BY <2>1 DEF RInv, RowsShaped, ReactionsShaped, CallsShaped
  <2>4. /\ \A m : (Live(m)' <=> Live(m)) /\ (Disputed(m)' <=> Disputed(m))
        /\ \A m, u : (Twice(m, u)' <=> Twice(m, u)) /\ ByUser(m, u)' = ByUser(m, u)
        /\ Pinned' = Pinned
    BY <2>1 DEF Live, Disputed, Twice, ByUser, Active, Pinned, Committed
  <2>5. PinsLive' /\ OneEmoji'
    BY <2>1, <2>4 DEF RInv, PinsLive, OneEmoji
  <2>6. ASSUME NEW r \in Slots PROVE Claims(r)'
    <3>1. Claims(r)
      BY DEF RInv
    <3>2. ByItsForm(r)' /\ PinStands(r)'
      BY <2>1, <3>1 DEF Claims, ByItsForm, PinStands, Handling, Live, Disputed
    <3>3. NoneLeft(r)'
      BY <2>1, <3>1 DEF Claims, NoneLeft, Handling, Twice, ByUser, Active, Caller
    <3>4. AllFound(r)'
      BY <2>1, <3>1 DEF Claims, AllFound, Handling, Twice, ByUser, Active, Caller
    <3> QED BY <3>2, <3>3, <3>4 DEF Claims
  <2> QED BY <2>1, <2>2, <2>3, <2>5, <2>6 DEF RInv
<1> QED BY <1>1, <1>2 DEF MCNext, mcvars

\* A user has one reaction to a message, and what is pinned has not been deleted,
\* unless two calls about the message overlapped: what the services read an await
\* before they write still holds when they write, for any users, tabs and messages.
THEOREM OneReactionAndLivePins == MCSpec => []OneReactionPinsLive
<1>1. MCInit => RInv
  BY InitR
<1>2. RInv /\ [MCNext]_mcvars => RInv'
  BY StepKeepsR
<1>3. RInv => OneReactionPinsLive
  <2> SUFFICES ASSUME RInv PROVE OneReactionPinsLive
    OBVIOUS
  <2>1. ASSUME NEW m \in Msgs, NEW u \in Users, <<m, {u}>> \notin raced
        PROVE  Cardinality({e \in Emojis : Active(m, u, e) # {}}) <= 1
    <3> DEFINE E == {e \in Emojis : Active(m, u, e) # {}}
    <3>1. \A i, j \in ByUser(m, u) : reaction[i].emoji = reaction[j].emoji
      BY <2>1 DEF RInv, OneEmoji, Twice
    <3>2. \A e \in E : \E i \in ByUser(m, u) : reaction[i].emoji = e
      BY DEF Active, ByUser
    <3>3. \A e, f \in E : e = f
      BY <3>1, <3>2
    <3> SUFFICES Cardinality(E) <= 1
      OBVIOUS
    <3> HIDE DEF E
    <3>4. CASE E = {}
      <4>1. Cardinality({}) = 0
        BY FS_EmptySet
      <4> QED BY <3>4, <4>1
    <3>5. CASE E # {}
      <4>1. PICK e : e \in E
        BY <3>5
      <4>2. E = {e}
        BY <3>3, <4>1
      <4>3. Cardinality({e}) = 1
        BY FS_Singleton
      <4> QED BY <4>2, <4>3
    <3> QED BY <3>4, <3>5
  <2>2. ASSUME NEW m \in Msgs, m \in Pinned PROVE Live(m) \/ \E c \in raced : c[1] = m
    BY <2>2 DEF RInv, PinsLive, Disputed
  <2> QED BY <2>1, <2>2 DEF OneReactionPinsLive
<1> QED BY <1>1, <1>2, <1>3, PTL DEF MCSpec
===============================================================================
