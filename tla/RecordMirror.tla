---------------------------- MODULE RecordMirror ----------------------------
(***************************************************************************)
(* What a data-source sync promises of one provider record (a calendar     *)
(* event, a mail thread), whatever workers, pages, leases and cursors it   *)
(* is made of:                                                             *)
(*   - the record's note only ever moves to newer versions of the record;  *)
(*   - what a person wrote in that note is never changed by a sync;        *)
(*   - a note a person deleted does not come back, and a note a person     *)
(*     took over is left alone;                                            *)
(*   - while the connection is scheduled, the note catches up.             *)
(* ProviderSync is shown to implement it, record by record.                *)
(***************************************************************************)
EXTENDS Naturals

VARIABLES
  remote,   \* the newest version at the provider, 0 before the first
  shown,    \* the version the record's note shows, 0 without a note
  text,     \* how often a person wrote in that note
  gone,     \* a person deleted the note
  held,     \* a person took the note over
  passed,   \* the newest version that was turned away while it was held
  on        \* the connection is on the schedule

vars == <<remote, shown, text, gone, held, passed, on>>
note == <<shown, text, gone, held, passed>>

Init ==
  /\ remote = 0 /\ shown = 0 /\ text = 0 /\ passed = 0
  /\ gone = FALSE /\ held = FALSE
  /\ on = TRUE

\* The provider's record gets a newer version.
Change == remote' > remote /\ UNCHANGED <<note, on>>

\* A note is made for the record. It may already hold what a person did with
\* it before the record was linked to it.
Appear ==
  /\ shown = 0 /\ ~gone
  /\ shown' \in 1 .. remote
  /\ text' \in Nat /\ held' \in BOOLEAN
  /\ UNCHANGED <<remote, gone, passed, on>>

\* The note moves to a newer version, and only that.
CatchUp ==
  /\ shown > 0 /\ ~held
  /\ shown' \in shown + 1 .. remote
  /\ UNCHANGED <<remote, text, gone, held, passed, on>>

\* A version arrives while the person holds the note: it is not written.
TurnAway ==
  /\ held
  /\ passed' \in 1 .. remote
  /\ UNCHANGED <<remote, shown, text, gone, held, on>>

\* A person writes in the note, or takes it over or gives it back.
Edit ==
  /\ shown > 0
  /\ \/ text' = text + 1 /\ UNCHANGED held
     \/ held' = ~held /\ UNCHANGED text
  /\ UNCHANGED <<remote, shown, gone, passed, on>>

\* A person deletes it, for good.
Delete ==
  /\ shown > 0
  /\ gone' = TRUE
  /\ shown' = 0 /\ text' = 0 /\ passed' = 0 /\ held' = FALSE
  /\ UNCHANGED <<remote, on>>

\* The connection leaves the schedule or comes back to it.
Reschedule == on' = ~on /\ UNCHANGED <<remote, note>>

Next == Change \/ Appear \/ CatchUp \/ TurnAway \/ Edit \/ Delete \/ Reschedule

\* The note shows the newest version, or a person stands in the way of it.
Settled == shown = remote \/ passed = remote \/ gone \/ ~on

Safety == Init /\ [][Next]_vars

Spec == Safety /\ []<>Settled
=============================================================================
