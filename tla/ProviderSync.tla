---------------------------- MODULE ProviderSync ----------------------------
(***************************************************************************)
(* The data-source sync engine: one connection with one stream, run by     *)
(* Celery workers against a provider that hands out its records in pages   *)
(* (services/provider_sync_service.py, tasks/provider_sync.py).            *)
(*                                                                         *)
(* A run loads the connection and the stream, takes the stream's lease,    *)
(* walks pages, applies each record with commits of its own (the note,     *)
(* then the mapping row), moves the cursor once the page is applied, gives *)
(* the lease back and writes the connection's status. Runs of two workers  *)
(* interleave at every commit; a run may die at any of them. Meanwhile the *)
(* provider's records change, and a person writes in the notes, takes      *)
(* notes over, deletes them, pauses and resumes.                           *)
(*                                                                         *)
(* A version of a record is the position of the change in the provider's   *)
(* history, and cursors and page tokens are positions in it.               *)
(***************************************************************************)
EXTENDS Naturals, Sequences

CONSTANTS
  Record, Worker,
  MaxPages,     \* MAX_PAGES_PER_RUN
  MaxChanges,   \* bound: changes at the provider
  MaxEvents,    \* bound: runs killed, requests refused, acts of the person
                \* other than giving a note or the connection back
  Overrun       \* may a run outlast its lease?

ASSUME BoundsAssumption ==
  MaxPages \in Nat \ {0} /\ MaxEvents \in Nat /\ Overrun \in BOOLEAN

VARIABLES
  log,       \* the provider's history: the records changed, oldest first
  notes,     \* notes[r]: the notes ever made for r; in each, what it shows,
             \* what was written under the marker, whether the marker is
             \* there, and (history) the version a missing marker turned away
  mapping,   \* mapping[r]: the external_objects row of r
  stream,    \* the sync_streams row
  status,    \* provider_connections.status
  run,       \* run[w]: the run worker w is in
  cuts,      \* how many runs died
  events     \* what MaxEvents counts

vars == <<log, notes, mapping, stream, status, run, cuts, events>>
counters == <<cuts, events>>
-----------------------------------------------------------------------------
(* The provider.                                                           *)

Changes(r) == {n \in DOMAIN log : log[n] = r}

\* The version of the record the provider would send now.
Latest(r) == IF Changes(r) = {} THEN 0
             ELSE CHOOSE n \in Changes(r) : \A m \in Changes(r) : m <= n

\* The records a walk from a position still has to send, as positions.
After(from) == {n \in DOMAIN log : n > from /\ n = Latest(log[n])}

\* A page that ends the walk, or ends at position `upto` of it.
Page(from, upto) == {n \in After(from) : upto = 0 \/ n <= upto}
-----------------------------------------------------------------------------
(* Types.                                                                  *)

Unmapped == [known |-> FALSE, note |-> 0, version |-> 0]

Idle == [at |-> "idle", cursor |-> 0, page |-> 0, resync |-> FALSE,
         loaded |-> "active", todo |-> {}, next |-> 0, end |-> 0, pages |-> 0,
         rec |-> 0, saw |-> Unmapped, made |-> 0, outcome |-> "ok",
         paused |-> FALSE]

Statuses == {"active", "transient_broken", "needs_reauth", "paused"}
Outcomes == {"ok", "auth", "transient", "cursor"}

\* Where a run stands; in the first group it believes to hold the lease.
Holding == {"open", "fetch", "apply", "write", "map", "release"}
Stages == Holding \cup {"idle", "claim", "invalid", "check", "settle"}

Rows == [known : BOOLEAN, note : Nat, version : Nat]
Notes == [shown : Nat, text : Nat, marked : BOOLEAN, passed : Nat,
          alive : BOOLEAN]
Runs == [at : Stages, cursor : Nat, page : Nat, resync : BOOLEAN,
         loaded : Statuses, todo : SUBSET Nat, next : Nat, end : Nat,
         pages : Nat, rec : Nat, saw : Rows, made : Nat, outcome : Outcomes,
         paused : BOOLEAN]

RowsAlive ==
  \A r \in Record : mapping[r].note # 0 =>
    /\ mapping[r].known
    /\ mapping[r].note \in DOMAIN notes[r]
    /\ notes[r][mapping[r].note].alive

\* Every variable has its type, a page only names changes there were, and a row
\* that names a note names one that is there and was not deleted.
TypeOK ==
  /\ log \in Seq(Record)
  /\ notes \in [Record -> Seq(Notes)]
  /\ mapping \in [Record -> Rows]
  /\ stream \in [cursor : Nat, page : Nat, resync : BOOLEAN, leased : BOOLEAN]
  /\ status \in Statuses
  /\ run \in [Worker -> Runs]
  /\ cuts \in Nat /\ events \in Nat
  /\ \A w \in Worker : run[w].todo \subseteq DOMAIN log
  /\ RowsAlive

Init ==
  /\ log = <<>>
  /\ notes = [r \in Record |-> <<>>]
  /\ mapping = [r \in Record |-> Unmapped]
  /\ stream = [cursor |-> 0, page |-> 0, resync |-> FALSE, leased |-> FALSE]
  /\ status = "active"
  /\ run = [w \in Worker |-> Idle]
  /\ cuts = 0 /\ events = 0
-----------------------------------------------------------------------------
(* A run.                                                                  *)

Event == events < MaxEvents /\ events' = events + 1

Move(w, changed) == run' = [run EXCEPT ![w] = changed]

\* The run once its walk is over: only what its end still reads.
Left(w, stage) == [Idle EXCEPT !.at = stage, !.loaded = run[w].loaded,
                     !.outcome = run[w].outcome]

\* run_one and ensure_streams: the connection and the stream row are loaded
\* once, and what was loaded is what the run works from.
Begin(w) ==
  /\ run[w].at = "idle"
  /\ status # "paused"
  /\ Move(w, [Idle EXCEPT !.at = "claim", !.loaded = status,
                !.cursor = stream.cursor, !.page = stream.page,
                !.resync = stream.resync])
  /\ UNCHANGED <<log, notes, mapping, stream, status, counters>>

Scheduled == status \in {"active", "transient_broken"}

\* The sweep: the beat only runs connections whose status is on its list.
Sweep(w) == Scheduled /\ Begin(w)

\* mutant: the lease is taken whoever holds it.
ClaimHeld(w) ==
  /\ run[w].at = "claim"
  /\ Move(w, [run[w] EXCEPT !.at = "open"])
  /\ stream' = [stream EXCEPT !.leased = TRUE]
  /\ UNCHANGED <<log, notes, mapping, status, counters>>

\* claim_stream. A run that does not get the lease has nothing to walk.
Claim(w) ==
  /\ run[w].at = "claim"
  /\ IF stream.leased
       THEN Move(w, Left(w, "check")) /\ UNCHANGED stream
       ELSE /\ Move(w, [run[w] EXCEPT !.at = "open"])
            /\ stream' = [stream EXCEPT !.leased = TRUE]
  /\ UNCHANGED <<log, notes, mapping, status, counters>>

\* The head of run_stream: the token, and the deliberate walk from the start.
Open(w) ==
  /\ run[w].at = "open"
  /\ IF run[w].resync
       THEN /\ Move(w, [run[w] EXCEPT !.at = "fetch", !.cursor = 0,
                          !.page = 0, !.resync = FALSE])
            /\ stream' = [stream EXCEPT !.cursor = 0, !.page = 0,
                            !.resync = FALSE]
       ELSE Move(w, [run[w] EXCEPT !.at = "fetch"]) /\ UNCHANGED stream
  /\ UNCHANGED <<log, notes, mapping, status, counters>>

\* mutant: the position moves when the page is fetched, not when it is applied.
FetchAhead(w) ==
  LET from == IF run[w].page # 0 THEN run[w].page ELSE run[w].cursor
      end == Len(log)
  IN  /\ run[w].at = "fetch"
      /\ \E upto \in After(from) \cup {0} :
           /\ Move(w, [run[w] EXCEPT !.at = "apply", !.todo = Page(from, upto),
                         !.next = upto, !.end = end, !.pages = @ + 1])
           /\ stream' = [stream EXCEPT !.page = upto,
                           !.cursor = IF upto = 0 THEN end ELSE @]
      /\ UNCHANGED <<log, notes, mapping, status, counters>>

\* adapter.fetch: a page of what comes after the page token, or the cursor.
\* Where a page ends is the provider's choice.
Fetch(w) ==
  LET from == IF run[w].page # 0 THEN run[w].page ELSE run[w].cursor
  IN  /\ run[w].at = "fetch"
      /\ \E upto \in After(from) \cup {0} :
           Move(w, [run[w] EXCEPT !.at = "apply", !.todo = Page(from, upto),
                      !.next = upto, !.pages = @ + 1,
                      !.end = IF upto = 0 THEN Len(log) ELSE 0])
      /\ UNCHANGED <<log, notes, mapping, stream, status, counters>>

\* The provider refuses: the grant is dead, the service is down, or it no
\* longer knows the cursor.
Refused(w) ==
  /\ run[w].at \in {"open", "fetch"}
  /\ Event
  /\ \E c \in Outcomes \ {"ok"} :
       /\ c = "cursor" => run[w].at = "fetch" /\ run[w].cursor # 0
       /\ Move(w, [Left(w, "release") EXCEPT !.outcome = c])
  /\ UNCHANGED <<log, notes, mapping, stream, status, cuts>>

\* The run with one record of its page dealt with.
Done(w, v) == [run[w] EXCEPT !.at = "apply", !.todo = @ \ {v}, !.rec = 0,
                 !.saw = Unmapped, !.made = 0]

\* apply_record reads the mapping: a record whose note was deleted, or whose
\* row already stands for this version or a newer one, is passed over.
Settles(row, v) == row.known /\ (row.note = 0 \/ row.version >= v)

Look(w) ==
  /\ run[w].at = "apply"
  /\ \E v \in run[w].todo :
       LET row == mapping[log[v]]
       IN  IF Settles(row, v) THEN Move(w, Done(w, v))
           ELSE Move(w, [run[w] EXCEPT !.at = "write", !.rec = v, !.saw = row])
  /\ UNCHANGED <<log, notes, mapping, stream, status, counters>>

\* mutant: the whole note is replaced, not only its synced region.
MergedOver(note, v) ==
  IF note.marked THEN [note EXCEPT !.shown = v, !.text = 0]
  ELSE [note EXCEPT !.passed = v]

\* The note as the sync leaves it: the region above the marker is replaced and
\* what is under it is kept; without a marker, nothing is written.
Merged(note, v) ==
  IF note.marked THEN [note EXCEPT !.shown = v] ELSE [note EXCEPT !.passed = v]

\* transform_content, under the note's row lock: a note that is gone or that
\* lost its marker is left as it is, and the mapping too.
Rewrite(w) ==
  LET v == run[w].rec
      r == log[v]
      k == run[w].saw.note
      note == notes[r][k]
  IN  /\ run[w].at = "write"
      /\ run[w].saw.known
      /\ notes' = IF note.alive THEN [notes EXCEPT ![r][k] = Merged(@, v)]
                  ELSE notes
      /\ Move(w, IF note.alive /\ note.marked
                   THEN [run[w] EXCEPT !.at = "map", !.made = k]
                   ELSE Done(w, v))
      /\ UNCHANGED <<log, mapping, stream, status, counters>>

\* create_note commits a note of its own, before any row knows of it.
Create(w) ==
  LET v == run[w].rec
      r == log[v]
  IN  /\ run[w].at = "write"
      /\ ~run[w].saw.known
      /\ notes' = [notes EXCEPT ![r] = Append(@,
                     [shown |-> v, text |-> 0, marked |-> TRUE, passed |-> 0,
                      alive |-> TRUE])]
      /\ Move(w, [run[w] EXCEPT !.at = "map", !.made = Len(notes[r]) + 1])
      /\ UNCHANGED <<log, mapping, stream, status, counters>>

\* The row as _record_mapping leaves it: a newer version is not overwritten.
Upserted(row, k, v) ==
  IF row.known /\ row.version > v THEN row
  ELSE [known |-> TRUE, note |-> k, version |-> v]

\* _record_mapping.
RecordMapping(w) ==
  LET v == run[w].rec
      r == log[v]
      k == run[w].made
  IN  /\ run[w].at = "map"
      /\ notes[r][k].alive
      /\ mapping' = [mapping EXCEPT ![r] = Upserted(@, k, v)]
      /\ Move(w, Done(w, v))
      /\ UNCHANGED <<log, notes, stream, status, counters>>

\* The page is applied; now the cursor moves. A column is only written when it
\* differs from what the run loaded or last wrote. The lease is renewed.
CommitPage(w) ==
  LET done == run[w].next = 0
      cursor == IF done /\ run[w].end > 0 THEN run[w].end ELSE run[w].cursor
  IN  /\ run[w].at = "apply"
      /\ run[w].todo = {}
      /\ stream' = [stream EXCEPT
           !.page = IF run[w].next = run[w].page THEN @ ELSE run[w].next,
           !.cursor = IF cursor = run[w].cursor THEN @ ELSE cursor,
           !.leased = TRUE]
      /\ Move(w, IF done \/ run[w].pages = MaxPages THEN Left(w, "release")
                 ELSE [run[w] EXCEPT !.at = "fetch", !.page = run[w].next,
                         !.cursor = cursor, !.next = 0, !.end = 0])
      /\ UNCHANGED <<log, notes, mapping, status, counters>>

\* release_stream, in the finally: whoever holds the lease.
Release(w) ==
  /\ run[w].at = "release"
  /\ stream' = [stream EXCEPT !.leased = FALSE]
  /\ Move(w, Left(w, IF run[w].outcome = "cursor" THEN "invalid" ELSE "check"))
  /\ UNCHANGED <<log, notes, mapping, status, counters>>

\* The handler of CursorInvalid: the next run walks everything again.
Invalidate(w) ==
  /\ run[w].at = "invalid"
  /\ stream' = [stream EXCEPT !.cursor = 0, !.page = 0, !.resync = TRUE]
  /\ Move(w, Idle)
  /\ UNCHANGED <<log, notes, mapping, status, counters>>

\* _paused_meanwhile: a read of its own, before the status is written.
Check(w) ==
  /\ run[w].at = "check"
  /\ Move(w, [run[w] EXCEPT !.at = "settle", !.paused = (status = "paused")])
  /\ UNCHANGED <<log, notes, mapping, stream, status, counters>>

\* The end of sync_connection and _record_failure. The status is written only
\* where it differs from the one the run loaded.
Verdict(w) ==
  CASE run[w].outcome = "auth" -> "needs_reauth"
    [] run[w].outcome # "auth" /\ run[w].paused -> "paused"
    [] run[w].outcome = "transient" /\ ~run[w].paused -> "transient_broken"
    [] OTHER -> "active"

Settle(w) ==
  /\ run[w].at = "settle"
  /\ status' = IF Verdict(w) = run[w].loaded THEN status ELSE Verdict(w)
  /\ Move(w, Idle)
  /\ UNCHANGED <<log, notes, mapping, stream, counters>>

Step(w) ==
  \/ Claim(w) \/ Open(w) \/ Fetch(w) \/ Look(w) \/ Rewrite(w) \/ Create(w)
  \/ RecordMapping(w) \/ CommitPage(w) \/ Release(w) \/ Invalidate(w)
  \/ Check(w) \/ Settle(w)

\* A run dies: the worker is killed, or the row of a note that was deleted
\* between its two commits cannot be written. The lease stays taken.
Cut(w) ==
  /\ Move(w, Idle)
  /\ cuts' = cuts + 1
  /\ UNCHANGED <<log, notes, mapping, stream, status>>

Crash(w) ==
  /\ run[w].at # "idle"
  /\ Event
  /\ Cut(w)

Orphaned(w) ==
  /\ run[w].at = "map"
  /\ ~notes[log[run[w].rec]][run[w].made].alive
  /\ Cut(w)
  /\ UNCHANGED events

\* The lease runs out: of a run that died, or, with Overrun, of a slow one.
Expire ==
  /\ stream.leased
  /\ Overrun \/ \A w \in Worker : run[w].at \notin Holding
  /\ stream' = [stream EXCEPT !.leased = FALSE]
  /\ UNCHANGED <<log, notes, mapping, status, run, counters>>
-----------------------------------------------------------------------------
(* The provider and the person.                                            *)

ChangeRecord(r) ==
  /\ Len(log) < MaxChanges
  /\ log' = Append(log, r)
  /\ UNCHANGED <<notes, mapping, stream, status, run, counters>>

\* The person edits the k-th note made for r: writes under the marker, or
\* removes the marker or puts it back.
EditNote(r, k) ==
  /\ notes[r][k].alive
  /\ \/ notes' = [notes EXCEPT ![r][k].text = @ + 1] /\ Event
     \/ /\ notes[r][k].marked /\ Event
        /\ notes' = [notes EXCEPT ![r][k].marked = FALSE]
     \/ /\ ~notes[r][k].marked /\ UNCHANGED events
        /\ notes' = [notes EXCEPT ![r][k].marked = TRUE]
  /\ UNCHANGED <<log, mapping, stream, status, run, cuts>>

\* mutant: the row keeps pointing at the note that was deleted.
DeleteNoteOnly(r, k) ==
  /\ notes[r][k].alive
  /\ notes' = [notes EXCEPT ![r][k].alive = FALSE]
  /\ Event
  /\ UNCHANGED <<log, mapping, stream, status, run, cuts>>

\* The person deletes it; the row's note_id becomes NULL with it.
DeleteNote(r, k) ==
  /\ notes[r][k].alive
  /\ notes' = [notes EXCEPT ![r][k].alive = FALSE]
  /\ mapping' = IF mapping[r].note = k THEN [mapping EXCEPT ![r].note = 0]
                ELSE mapping
  /\ Event
  /\ UNCHANGED <<log, stream, status, run, cuts>>

Pause ==
  /\ status # "paused"
  /\ status' = "paused"
  /\ Event
  /\ UNCHANGED <<log, notes, mapping, stream, run, cuts>>

\* resume, and a reconnect after the grant died.
Resume ==
  /\ status \in {"paused", "needs_reauth"}
  /\ status' = "active"
  /\ UNCHANGED <<log, notes, mapping, stream, run, counters>>

Next ==
  \/ \E w \in Worker : Begin(w) \/ Step(w) \/ Crash(w) \/ Orphaned(w) \/ Refused(w)
  \/ Expire
  \/ \E r \in Record : ChangeRecord(r)
  \/ \E r \in Record : \E k \in DOMAIN notes[r] : EditNote(r, k) \/ DeleteNote(r, k)
  \/ Pause \/ Resume

Spec == Init /\ [][Next]_vars

\* The beat keeps ticking, a run that has not died goes on, and time passes.
Fairness ==
  /\ \A w \in Worker : WF_vars(Sweep(w)) /\ WF_vars(Step(w) \/ Orphaned(w))
  /\ WF_vars(Expire)

FairSpec == Spec /\ Fairness
-----------------------------------------------------------------------------
(* Properties.                                                             *)

Linked(r) == mapping[r].note # 0
NoteOf(r) == notes[r][mapping[r].note]

Mirror(r) == INSTANCE RecordMirror WITH
  remote <- Latest(r),
  shown <- IF Linked(r) THEN NoteOf(r).shown ELSE 0,
  text <- IF Linked(r) THEN NoteOf(r).text ELSE 0,
  gone <- mapping[r].known /\ ~Linked(r),
  held <- Linked(r) /\ ~NoteOf(r).marked,
  passed <- IF Linked(r) THEN NoteOf(r).passed ELSE 0,
  on <- Scheduled

\* The engine implements RecordMirror, record by record: notes only move
\* forward, never lose what a person wrote, stay deleted and stay taken over,
\* through crashes, refusals, lost cursors, stale loads and full walks.
MirroredSafely ==
  /\ \A r \in Record : Mirror(r)!Init
  /\ [][\A r \in Record : [Mirror(r)!Next]_(Mirror(r)!vars)]_vars

\* ... and keeps its promise to catch up: no record is skipped for good while
\* the connection is scheduled. Together: \A r \in Record : Mirror(r)!Spec.
CatchesUp == \A r \in Record : []<>Mirror(r)!Settled

\* "Exactly once" up to the runs that died: each of them may cost one more
\* note for a record, between the commit of the note and that of its row, and
\* nothing else does (not a redelivery, a second worker or a full walk).
MadeOncePerCut ==
  \A r \in Record : Len(notes[r]) <= 1 + cuts

\* What apply_record says of a note that was left alone: "put the marker back
\* and the next run picks the note up again".
PicksUpAgain ==
  \A r \in Record :
    (Linked(r) /\ NoteOf(r).marked) ~>
      \/ ~Linked(r) \/ ~NoteOf(r).marked
      \/ NoteOf(r).shown = Latest(r)
      \/ ~Scheduled
=============================================================================
