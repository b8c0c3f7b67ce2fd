------------------------------- MODULE Composer --------------------------------
(***************************************************************************)
(* The composer of a page with its files, and the forward dialog            *)
(* (channels/[channelId]/page.tsx, direct/[conversationId]/page.tsx,         *)
(* groups/[groupId]/page.tsx, ForwardDialog.tsx).  Files wait in the         *)
(* composer until the user sends; submitting uploads those that are not yet   *)
(* uploaded, all at once, then reads the composer again and sends what is      *)
(* there.  What the code keeps in a ref is read at that moment; after the      *)
(* answer the whole composer is emptied.                                    *)
(*                                                                         *)
(* One user writes in one conversation.  The channel and the direct page      *)
(* close their text field while a message is being sent; the group page does  *)
(* not, so that Enter submits again.                                        *)
(***************************************************************************)
EXTENDS Attachments

CONSTANTS
    Files,      \* the files the user may pick; their uploads are calls too
    Submits,    \* submissions that may be under way at once
    Forwarders  \* the forward dialogs

ASSUME ComposerAssumption ==
    /\ Files \cup Submits \cup Forwarders \subseteq JobSlots
    /\ Files \cap Submits = {} /\ Files \cap Forwarders = {} /\ Submits \cap Forwarders = {}

VARIABLES
    place,      \* where the conversation is
    draft,      \* file -> how far it is in the composer, and its key
    sendState,  \* "idle", "loading" or "error"
    editing,    \* the direct page: the composer holds a message being edited
    submit      \* submission -> how far it is, the uploads it awaits, whether all went well

composer == <<place, draft, sendState, editing, submit>>
composing == <<place, editing>>

IdleSubmit == [at |-> "idle", needs |-> {}, ok |-> TRUE]
InDraft(d) == {f \in Files : d[f].status \in {"ready", "uploading", "uploaded", "failed"}}
Uploading(d) == \E f \in InDraft(d) : d[f].status = "uploading"
WithStatus(d, F, status) == [f \in Files |-> IF f \in F THEN [d[f] EXCEPT !.status = status] ELSE d[f]]
KeysOf(d) == {d[f].key : f \in InDraft(d)}
\* setComposerAttachments([])
Emptied(d) == WithStatus(d, InDraft(d), "gone")

ComposerInit(kinds) ==
    /\ place \in kinds
    /\ draft = [f \in Files |-> [status |-> "new", key |-> <<"attachments", 0>>]]
    /\ sendState = "idle"
    /\ editing = FALSE
    /\ submit = [s \in Submits |-> IdleSubmit]

-----------------------------------------------------------------------------
\* A file may be dropped on the page at any time, also while it sends.
AddFile(f) ==
    /\ draft[f].status = "new"
    /\ draft' = WithStatus(draft, {f}, "ready")
    /\ UNCHANGED <<files, composing, sendState, submit>>
RemoveAttachment(f) ==
    /\ draft[f].status \in {"ready", "failed"}
    /\ draft' = WithStatus(draft, {f}, "gone")
    /\ UNCHANGED <<files, composing, sendState, submit>>

UploadAll(F) ==
    /\ draft' = WithStatus(draft, F, "uploading")
    /\ job' = [j \in JobSlots |-> IF j \in F THEN CallsFor("upload", place, {}) ELSE job[j]]
RetryAttachment(f) ==
    /\ draft[f].status = "failed" /\ job[f].at = "idle"
    /\ UploadAll({f})
    /\ UNCHANGED <<storage, fileRow, post, script, composing, sendState, submit>>

\* What follows the uploads, without a pause: it reads the composer anew.
Continue(s, d, sub, jobs) ==
    IF sub[s].ok /\ \A f \in InDraft(d) : d[f].status = "uploaded"
    THEN /\ job' = [jobs EXCEPT ![s] = CallsFor("send", place, KeysOf(d))]
         /\ submit' = [sub EXCEPT ![s].at = "sending"]
         /\ sendState' = "loading"
    ELSE /\ job' = jobs
         /\ submit' = [sub EXCEPT ![s] = IdleSubmit]
         /\ sendState' = "error"
MaySubmit ==
    /\ ~editing
    /\ place = "group" \/ sendState # "loading"
SubmitMessage(s) ==
    /\ MaySubmit /\ submit[s].at = "idle" /\ job[s].at = "idle"
    /\ LET needs == {f \in Files : draft[f].status \in {"ready", "failed"}}
           sub == [submit EXCEPT ![s] = [at |-> "uploads", needs |-> needs, ok |-> TRUE]] IN
       /\ \A f \in needs : job[f].at = "idle"
       /\ IF needs = {} THEN Continue(s, draft, sub, job) /\ UNCHANGED draft
          ELSE UploadAll(needs) /\ submit' = sub /\ sendState' = "loading"
    /\ UNCHANGED <<storage, fileRow, post, script, composing>>

\* An upload has answered: its file, if it is still in the composer, and the
\* submission that waits for it.
UploadAnswered(f) ==
    /\ job[f].at = "answered"
    /\ LET ok == job[f].reply = "done"
           d == IF f \notin InDraft(draft) THEN draft
                ELSE IF ok THEN [draft EXCEPT ![f] = [status |-> "uploaded", key |-> CHOOSE k \in job[f].keys : TRUE]]
                ELSE WithStatus(draft, {f}, "failed")
           jobs == [job EXCEPT ![f] = IdleJob]
           waiting == {s \in Submits : f \in submit[s].needs}
           sub == [s \in Submits |-> IF s \notin waiting THEN submit[s]
                      ELSE [submit[s] EXCEPT !.needs = @ \ {f}, !.ok = @ /\ ok]] IN
       /\ draft' = d
       /\ IF \E s \in waiting : sub[s].needs = {}
          THEN \E s \in waiting : Continue(s, d, sub, jobs)
          ELSE job' = jobs /\ submit' = sub /\ UNCHANGED sendState
    /\ UNCHANGED <<storage, fileRow, post, script, composing>>

MessageSent(s) ==
    /\ job[s].at = "answered" /\ job[s].reply = "done"
    /\ draft' = Emptied(draft)
    /\ sendState' = "idle"
    /\ submit' = [submit EXCEPT ![s] = IdleSubmit]
    /\ job' = [job EXCEPT ![s] = IdleJob]
    /\ UNCHANGED <<storage, fileRow, post, script, composing>>
MessageRefused(s) ==
    /\ job[s].at = "answered" /\ job[s].reply = "refused"
    /\ sendState' = "error"
    /\ submit' = [submit EXCEPT ![s] = IdleSubmit]
    /\ job' = [job EXCEPT ![s] = IdleJob]
    /\ UNCHANGED <<storage, fileRow, post, script, composing, draft>>

\* The direct page edits in the composer: what was in it goes, also while it is
\* being sent.
EditStart ==
    /\ place = "direct" /\ ~editing
    /\ draft' = Emptied(draft)
    /\ editing' = TRUE
    /\ UNCHANGED <<files, place, sendState, submit>>
EditEnd ==
    /\ editing /\ editing' = FALSE
    /\ UNCHANGED <<files, place, draft, sendState, submit>>

-----------------------------------------------------------------------------
\* The forward dialog: a destination is chosen; all its buttons wait for the answer.
Forward(w, to) ==
    /\ job[w].at = "idle"
    /\ \E m \in DOMAIN post : post[m] # to
    /\ job' = [job EXCEPT ![w] = CallsFor("forward", to, {})]
    /\ UNCHANGED <<storage, fileRow, post, script, composer>>
Forwarded(w) ==
    /\ job[w].at = "answered"
    /\ job' = [job EXCEPT ![w] = IdleJob]
    /\ UNCHANGED <<storage, fileRow, post, script, composer>>

Composes ==
    \/ \E f \in Files : UploadAnswered(f)
    \/ \E s \in Submits : MessageSent(s) \/ MessageRefused(s)
    \/ EditEnd
    \/ \E w \in Forwarders : Forwarded(w)
=============================================================================
