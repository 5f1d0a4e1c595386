------------------------------- MODULE NoteSave -------------------------------
(***************************************************************************)
(* Saving ONE note outside a live collaboration room: the editors of the   *)
(* web app that autosave it (web/src/components/workspace/editor-pane.tsx),*)
(* the callers of the API that add to it, its row in the notes table       *)
(* (back/app/services/note_service.py, link_service.py) and its version    *)
(* history (version_service.py).                                           *)
(*                                                                         *)
(* A text is the set of marks (keystrokes, appended lines) it holds.       *)
(* Editors only add marks, so that a text that lacks a mark of another one *)
(* was written without it.  updated_at is a number that every UPDATE moves *)
(* on; the code compares it for equality only.  Editors are open in        *)
(* different browser tabs (the panes of one tab share a query cache).      *)
(***************************************************************************)
EXTENDS Naturals, Sequences, FiniteSets

CONSTANTS
    Editor,
    Mark,
    Job,         \* requests that can be under way at the same time (a bound)
    Nobody,      \* the other callers of the API
    Kept,        \* NOTE_VERSIONS_KEPT
    Callers,     \* the requests other callers make
    TooLarge,    \* the texts beyond MAX_NOTE_SIZE_BYTES
    MaxRare      \* bound: restores and renames asked for, and requests or
                 \* answers lost, together; an editor closes only while these
                 \* and the editors closed before it are fewer

ASSUME NobodyIsNoOne == Nobody \notin Editor \cup Job
ASSUME SaveBounds ==
    /\ Kept \in Nat \ {0} /\ MaxRare \in Nat
    /\ Callers \subseteq {"append", "link"}
ASSUME MoreIsLarger ==
    /\ {} \notin TooLarge
    /\ \A t \in TooLarge, u \in SUBSET Mark : t \subseteq u => u \in TooLarge

VARIABLES
    row,       \* the note: [content, stamp]
    versions,  \* note_versions, oldest first
    young,     \* is the newest version younger than the snapshot interval?
    lock,      \* the job that holds the row FOR UPDATE, or Nobody
    job,       \* the requests under way
    editor,    \* what each editor keeps
    used,      \* the marks typed or appended so far
    stored,    \* history: the marks that were ever in the row
    asked, lost

database == <<row, versions, young, lock, stored>>
counters == <<asked, lost>>
vars == <<database, job, editor, used, counters>>

Text == SUBSET Mark
Kinds == {"none", "save", "fetch", "restore", "rename", "append", "link"}
Answers == {"ok", "conflict", "refused"}
Places == {"idle", "sent", "read", "locked", "committed"} \cup Answers

(* How a base_updated_at came to its editor: with the text it belongs to,  *)
(* alone with a 409, or in the answer to a save that another writer had    *)
(* overtaken, whose text is not on the screen.                             *)
Bases == {"text", "conflict", "overtaken"}

(* kind, who waits for the answer, the text sent and base_updated_at; how  *)
(* far it is; the content and updated_at of the note as its session has    *)
(* them; and how the base came (history).                                  *)
JobRecord ==
    [kind : Kinds, by : Editor \cup {Nobody}, text : Text, base : Nat,
     came : Bases, at : Places, content : Text, stamp : Nat]

(* draftRef, lastSavedRef, baseUpdatedAt, saveTimer, conflictRetries; and, *)
(* as history, how base came and the marks that an answer counted as saved *)
(* although its save had not carried them.                                 *)
EditorRecord ==
    [open : BOOLEAN, draft : Text, saved : Text, base : Nat, timer : BOOLEAN,
     retries : 0 .. 2, came : Bases, presumed : Text]

Idle == [kind |-> "none", by |-> Nobody, text |-> {}, base |-> 0,
         came |-> "text", at |-> "idle", content |-> {}, stamp |-> 0]

Snapshots == {versions[i] : i \in DOMAIN versions}
Awaited(e, kinds) == {j \in Job : job[j].by = e /\ job[j].kind \in kinds}
Dirty(e) == editor[e].draft # editor[e].saved

Request(kind, by, text, base, came) ==
    [kind |-> kind, by |-> by, text |-> text, base |-> base, came |-> came,
     at |-> "sent", content |-> {}, stamp |-> 0]

Send(j, request) == job[j].at = "idle" /\ job' = [job EXCEPT ![j] = request]

SaveOf(e, by) ==
    Request("save", by, editor[e].draft, editor[e].base, editor[e].came)

-----------------------------------------------------------------------------
(* The editor.                                                             *)

Type(e, m) ==
    /\ editor[e].open /\ m \notin used
    /\ used' = used \cup {m}
    /\ editor' = [editor EXCEPT ![e] =
                   [@ EXCEPT !.draft = editor[e].draft \cup {m}, !.timer = TRUE]]
    /\ UNCHANGED <<database, job, counters>>

(* The debounce is over.  Unmounting does not always clear the timer.      *)
Fire(e, j) ==
    /\ editor[e].timer
    /\ editor' = [editor EXCEPT ![e] = [@ EXCEPT !.timer = FALSE]]
    /\ Send(j, SaveOf(e, e))
    /\ UNCHANGED <<database, used, counters>>

(* A draft that differs from what was saved is sent, once: nobody reads    *)
(* the answer.                                                             *)
Close(e, j) ==
    /\ editor[e].open
    /\ asked + lost + Cardinality({x \in Editor : ~editor[x].open}) < MaxRare
    /\ IF Dirty(e)
         THEN /\ Send(j, SaveOf(e, Nobody))
              /\ editor' = [editor EXCEPT ![e] = [@ EXCEPT !.open = FALSE, !.timer = FALSE]]
         ELSE /\ editor' = [editor EXCEPT ![e] = [@ EXCEPT !.open = FALSE]]
              /\ job' = job
    /\ UNCHANGED <<database, used, counters>>

(* The dialog lists the versions; its button waits for an answer.          *)
AskRestore(e, j, v) ==
    /\ editor[e].open /\ Awaited(e, {"restore"}) = {}
    /\ v \in Snapshots
    /\ asked + lost < MaxRare /\ asked' = asked + 1
    /\ Send(j, Request("restore", e, v, 0, "text"))
    /\ UNCHANGED <<database, editor, used, lost>>

AskRename(e, j) ==
    /\ editor[e].open
    /\ Awaited(e, {"rename"}) = {}
    /\ asked + lost < MaxRare /\ asked' = asked + 1
    /\ Send(j, Request("rename", e, {}, 0, "text"))
    /\ UNCHANGED <<database, editor, used, lost>>

(* invalidateQueries: job k goes on as the GET, which replaces an older    *)
(* one; nothing is fetched for a closed editor.                            *)
WithFetch(jobs, e, k) ==
    [i \in Job |->
       IF ~editor[e].open THEN IF i = k THEN Idle ELSE jobs[i]
       ELSE IF i = k THEN Request("fetch", e, {}, 0, "text")
       ELSE IF jobs[i].by = e /\ jobs[i].kind = "fetch" THEN Idle
       ELSE jobs[i]]

Refetch(e, j) == job' = WithFetch(job, e, j)

Done(j) == job' = [job EXCEPT ![j] = Idle]

Answered(e, j, kind, at) == job[j].by = e /\ job[j].kind = kind /\ job[j].at = at

CameWith(e, j) == IF job[j].content \subseteq editor[e].draft THEN "text" ELSE "overtaken"

(* onSuccess: what counts as saved is the draft of NOW.                    *)
SaveSucceeded(e, j) ==
    /\ Answered(e, j, "save", "ok")
    /\ editor' = [editor EXCEPT ![e] =
                   [@ EXCEPT !.saved = editor[e].draft, !.base = job[j].stamp, !.retries = 0,
                             !.came = CameWith(e, j),
                             !.presumed = editor[e].presumed \cup (editor[e].draft \ job[j].text)]]
    /\ Done(j)
    /\ UNCHANGED <<database, used, counters>>

ResubmitsOnce(e) == editor[e].retries < 1 /\ Dirty(e)  \* mutant
Resubmits(e) == editor[e].retries < 2 /\ Dirty(e)

(* 409: the draft is sent again on top of the server's timestamp.          *)
Resubmit(e, j) ==
    /\ Answered(e, j, "save", "conflict") /\ Resubmits(e)
    /\ editor' = [editor EXCEPT ![e] =
                   [@ EXCEPT !.retries = editor[e].retries + 1, !.base = job[j].stamp,
                             !.came = "conflict"]]
    /\ job' = [job EXCEPT ![j] = Request("save", e, editor[e].draft, job[j].stamp, "conflict")]
    /\ UNCHANGED <<database, used, counters>>

GiveWay(e, j) ==
    /\ Answered(e, j, "save", "conflict") /\ ~Resubmits(e)
    /\ editor' = IF editor[e].retries < 2
                   THEN [editor EXCEPT ![e] = [@ EXCEPT !.retries = editor[e].retries + 1]]
                   ELSE editor
    /\ Refetch(e, j)
    /\ UNCHANGED <<database, used, counters>>

(* Any other error, as of a text that is too large: fetch.                 *)
SaveRefused(e, j) ==
    /\ Answered(e, j, "save", "refused")
    /\ Refetch(e, j)
    /\ UNCHANGED <<database, editor, used, counters>>

CleanByTimer(e) == ~editor[e].timer  \* mutant
Clean(e) == ~editor[e].timer /\ ~Dirty(e)

Showing(record, j) ==
    [record EXCEPT !.draft = job[j].content, !.saved = job[j].content,
                   !.base = job[j].stamp, !.timer = FALSE, !.came = "text"]

AdoptBase(e, j) ==  \* mutant
    /\ Answered(e, j, "fetch", "ok")
    /\ editor' = IF editor[e].open /\ Clean(e) /\ job[j].content # editor[e].draft
                   THEN [editor EXCEPT ![e] = Showing(@, j)]
                   ELSE [editor EXCEPT ![e] = [@ EXCEPT !.base = job[j].stamp]]
    /\ Done(j)
    /\ UNCHANGED <<database, used, counters>>

Adopt(e, j) ==
    /\ Answered(e, j, "fetch", "ok")
    /\ editor' = IF editor[e].open /\ Clean(e) /\ job[j].content # editor[e].draft
                   THEN [editor EXCEPT ![e] = Showing(@, j)] ELSE editor
    /\ Done(j)
    /\ UNCHANGED <<database, used, counters>>

Restored(e, j) ==
    /\ Answered(e, j, "restore", "ok")
    /\ editor' = IF editor[e].open THEN [editor EXCEPT ![e] = Showing(@, j)] ELSE editor
    /\ Done(j)
    /\ UNCHANGED <<database, used, counters>>

Renamed(e, j) ==
    /\ Answered(e, j, "rename", "ok")
    /\ Refetch(e, j)
    /\ UNCHANGED <<database, editor, used, counters>>

(* The request or its answer is lost, or its connection drops while the    *)
(* server goes on with it.  A save that fails makes the editor fetch.      *)
Lose(e, j) ==
    /\ job[j].by = e /\ asked + lost < MaxRare
    /\ lost' = lost + 1
    /\ \/ /\ job[j].at \in {"sent"} \cup Answers
          /\ IF job[j].kind = "save" THEN Refetch(e, j) ELSE Done(j)
       \/ /\ job[j].at \notin Answers /\ job[j].kind # "fetch"
          /\ LET unheard == [job EXCEPT ![j] = [@ EXCEPT !.by = Nobody]]
             IN  IF job[j].kind = "save"
                 THEN \E k \in Job : job[k].at = "idle" /\ job' = WithFetch(unheard, e, k)
                 ELSE job' = unheard
    /\ UNCHANGED <<database, editor, used, asked>>

-----------------------------------------------------------------------------
(* The other callers: an append composes under the lock; linking, tagging  *)
(* and the tools of the assistants load the note before they take it.      *)

Call(j, kind, m) ==
    /\ kind \in Callers /\ m \notin used
    /\ used' = used \cup {m}
    /\ Send(j, Request(kind, Nobody, {m}, 0, "text"))
    /\ UNCHANGED <<database, editor, counters>>

-----------------------------------------------------------------------------
(* The server.                                                             *)

LoadsFirst(kind) == kind = "link"

(* get_note: a plain SELECT, for a GET or ahead of a FOR UPDATE.           *)
Read(j) ==
    /\ job[j].at = "sent" /\ (job[j].kind = "fetch" \/ LoadsFirst(job[j].kind))
    /\ job' = [job EXCEPT ![j] =
                [@ EXCEPT !.content = row.content, !.stamp = row.stamp,
                          !.at = IF job[j].kind = "fetch" THEN "ok" ELSE "read"]]
    /\ UNCHANGED <<database, editor, used, counters>>

FreeAlways == TRUE  \* mutant
Free == lock = Nobody

Ready(j) ==
    IF LoadsFirst(job[j].kind) THEN job[j].at = "read"
    ELSE job[j].kind # "fetch" /\ job[j].at = "sent"

(* What the session holds once it has the lock: an instance it has loaded  *)
(* before keeps its attributes.                                            *)
Loaded(j) == IF LoadsFirst(job[j].kind) THEN job[j].content ELSE row.content

Stale(j) == job[j].base # 0 /\ job[j].base # row.stamp
Unknown(j) == job[j].kind = "restore" /\ job[j].text \notin Snapshots

(* SELECT ... FOR UPDATE *)
Take(j) ==
    /\ Free /\ Ready(j) /\ ~Stale(j) /\ ~Unknown(j)
    /\ lock' = j
    /\ job' = [job EXCEPT ![j] =
                [@ EXCEPT !.at = "locked", !.content = Loaded(j), !.stamp = row.stamp]]
    /\ UNCHANGED <<row, versions, young, stored, editor, used, counters>>

Refuse(j) ==
    /\ Free /\ Ready(j) /\ (Stale(j) \/ Unknown(j))
    /\ IF job[j].by = Nobody \/ Unknown(j) THEN Done(j)
       ELSE job' = [job EXCEPT ![j] = [@ EXCEPT !.at = "conflict", !.stamp = row.stamp]]
    /\ UNCHANGED <<database, editor, used, counters>>

NewText(j) ==
    CASE job[j].kind \in {"save", "restore"} -> job[j].text
      [] job[j].kind \in {"append", "link"} -> job[j].content \cup job[j].text
      [] OTHER -> job[j].content

SnapshotInterval(j) ==  \* mutant
    /\ job[j].kind # "rename" /\ NewText(j) # job[j].content
    /\ ~young

Snapshot(j) ==
    /\ job[j].kind # "rename" /\ NewText(j) # job[j].content
    /\ job[j].kind = "restore" \/ ~young

(* _prune: the newest Kept versions stay.                                  *)
Pruned(s) == IF Len(s) > Kept THEN Tail(s) ELSE s

(* No UPDATE is emitted for a note whose attributes did not change; a      *)
(* rename changes none of those a save reads.                              *)
Touched(j) == job[j].kind = "rename" \/ NewText(j) # job[j].content

(* _apply_content says no before anything is committed.                    *)
Reject(j) ==
    /\ job[j].at = "locked" /\ NewText(j) \in TooLarge
    /\ lock' = Nobody
    /\ IF job[j].kind = "save" /\ job[j].by # Nobody
         THEN job' = [job EXCEPT ![j] = [@ EXCEPT !.at = "refused"]]
         ELSE Done(j)
    /\ UNCHANGED <<row, versions, young, stored, editor, used, counters>>

(* The commit; it also frees the row.                                      *)
Write(j) ==
    /\ job[j].at = "locked" /\ NewText(j) \notin TooLarge
    /\ row' = IF Touched(j) THEN [content |-> NewText(j), stamp |-> row.stamp + 1] ELSE row
    /\ stored' = stored \cup row'.content
    /\ versions' = IF Snapshot(j) THEN Pruned(Append(versions, job[j].content)) ELSE versions
    /\ young' = (young \/ Snapshot(j))
    /\ lock' = Nobody
    /\ job' = [job EXCEPT ![j] = [@ EXCEPT !.at = "committed"]]
    /\ UNCHANGED <<editor, used, counters>>

(* db.refresh(note) reads the row again, whoever has written it since.     *)
Refresh(j) ==
    /\ job[j].at = "committed"
    /\ job' = [job EXCEPT ![j] =
                IF @.by = Nobody THEN Idle
                ELSE [@ EXCEPT !.at = "ok", !.content = row.content, !.stamp = row.stamp]]
    /\ UNCHANGED <<database, editor, used, counters>>

SnapshotAges ==
    /\ young /\ young' = FALSE
    /\ UNCHANGED <<row, versions, lock, stored, job, editor, used, counters>>

-----------------------------------------------------------------------------
Init ==
    /\ row = [content |-> {}, stamp |-> 1]
    /\ versions = <<>> /\ young = FALSE
    /\ lock = Nobody
    /\ job = [j \in Job |-> Idle]
    /\ editor = [e \in Editor |->
                   [open |-> TRUE, draft |-> {}, saved |-> {}, base |-> 1,
                    timer |-> FALSE, retries |-> 0, came |-> "text", presumed |-> {}]]
    /\ used = {} /\ stored = {} /\ asked = 0 /\ lost = 0

Handle(e, j) ==
    \/ SaveSucceeded(e, j) \/ Resubmit(e, j) \/ GiveWay(e, j) \/ SaveRefused(e, j)
    \/ Adopt(e, j) \/ Restored(e, j) \/ Renamed(e, j)

Serve(j) == Read(j) \/ Take(j) \/ Refuse(j) \/ Write(j) \/ Reject(j) \/ Refresh(j)

Next ==
    \/ \E e \in Editor :
         \/ \E m \in Mark : Type(e, m)
         \/ \E j \in Job :
              \/ Fire(e, j) \/ Close(e, j) \/ AskRename(e, j) \/ Handle(e, j) \/ Lose(e, j)
              \/ \E v \in Text : AskRestore(e, j, v)
    \/ \E j \in Job :
         \/ Serve(j)
         \/ \E kind \in Kinds, m \in Mark : Call(j, kind, m)
    \/ SnapshotAges

(* Timers fire, the server serves, answers arrive.                         *)
Fairness ==
    /\ \A e \in Editor : WF_vars(\E j \in Job : Fire(e, j) \/ Handle(e, j))
    /\ \A j \in Job : WF_vars(Serve(j))

Spec == Init /\ [][Next]_vars
FairSpec == Spec /\ Fairness

-----------------------------------------------------------------------------
(* Properties.                                                             *)

(* The kinds of values every variable holds, the history within its limit  *)
(* and the row lock in one hand, at that job's request.                    *)
TypeOK ==
    /\ row \in [content : Text, stamp : Nat]
    /\ versions \in Seq(Text) /\ Len(versions) <= Kept
    /\ young \in BOOLEAN
    /\ lock \in Job \cup {Nobody}
    /\ job \in [Job -> JobRecord]
    /\ editor \in [Editor -> EditorRecord]
    /\ used \in Text /\ stored \in Text
    /\ asked \in 0 .. MaxRare /\ lost \in 0 .. MaxRare

(* An append keeps every word that was there when it landed, whoever else  *)
(* saves, appends, restores or renames meanwhile                           *)
(* (note_service.py:306-311).                                              *)
AppendsLand ==
    [][\A j \in Job : Write(j) /\ job[j].kind = "append" =>
         row.content \cup job[j].text \subseteq row'.content]_vars

(* The same of the calls that append a link or a tag after a look at the   *)
(* note (link_service.py:250-275).                                         *)
LinksLand ==
    [][\A j \in Job : Write(j) /\ job[j].kind = "link" =>
         row.content \cup job[j].text \subseteq row'.content]_vars

(* A save whose base came to its editor with the text it belongs to never  *)
(* overwrites words the editor was not shown: whoever wrote since, it is   *)
(* refused with 409 instead (note_service.py:287-304).                     *)
NoSilentOverwrite ==
    [][\A j \in Job : Write(j) /\ job[j].kind = "save" /\ job[j].came = "text" =>
         row.content \subseteq row'.content]_vars

(* The same of every save but those sent again after a 409, by which the   *)
(* last writer is meant to win: what the docstring of update_content wants *)
(* (note_service.py:287-291) and the answer to an overtaken save breaks.   *)
OnlyConflictsOverwrite ==
    [][\A j \in Job : Write(j) /\ job[j].kind = "save" /\ job[j].came # "conflict" =>
         row.content \subseteq row'.content]_vars

(* The text a restore replaces can be restored: it is in the history when  *)
(* the restore has landed, pruning and the snapshot interval               *)
(* notwithstanding (version_service.py:92-106).                            *)
RestoreIsReversible ==
    [][\A j \in Job : Write(j) /\ job[j].kind = "restore" /\ row'.content # row.content =>
         \E i \in DOMAIN versions' : versions'[i] = row.content]_vars

(* What was typed leaves an editor only when its user restores a version,  *)
(* when the server has had it, or when the answer to an earlier save has   *)
(* counted it as saved: no text from outside clobbers other keystrokes,    *)
(* whatever answers come in whatever order (editor-pane.tsx:332-342).      *)
KeystrokesKept ==
    [][\A e \in Editor :
         \/ editor[e].draft \ editor'[e].draft \subseteq stored \cup editor[e].presumed
         \/ \E j \in Job : Restored(e, j)]_vars

(* The same with no answer to count as saved what it did not carry, as the *)
(* comments at editor-pane.tsx:138-141 and 332-336 have it.                *)
NoKeystrokesClobbered ==
    [][\A e \in Editor :
         \/ editor[e].draft \ editor'[e].draft \subseteq stored
         \/ \E j \in Job : Restored(e, j)]_vars

(* What is typed in an editor gets to the server: a save that meets a      *)
(* conflict is sent again, also behind the editor's own saves.  Only these *)
(* leave it unsaved: a third conflict in a row (three writes of others), a *)
(* text from outside after an answer counted it as saved, the size limit,  *)
(* closing the editor, a restore, a lost answer (editor-pane.tsx:235-254). *)
KeystrokesStored ==
    \A e \in Editor, m \in Mark :
        m \in editor[e].draft ~>
            \/ m \in stored
            \/ m \in editor[e].presumed \ editor[e].draft
            \/ editor[e].draft \in TooLarge
            \/ ~editor[e].open \/ asked + lost > 0
            \/ Cardinality(stored \ editor[e].draft) > 2
=============================================================================
