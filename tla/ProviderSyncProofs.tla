------------------------- MODULE ProviderSyncProofs -------------------------
(***************************************************************************)
(* Proofs about the sync engine, for any records, workers and bounds, of   *)
(* runs that end before their lease does (~Overrun): its variables keep    *)
(* their types, a record gets one note more only where a run died, and the *)
(* engine implements RecordMirror's safety.                                *)
(***************************************************************************)
EXTENDS ProviderSync, TLAPS

-----------------------------------------------------------------------------
(* Types.                                                                  *)

LEMMA MoveRun ==
  ASSUME NEW w \in Worker, NEW q \in Runs, run \in [Worker -> Runs], Move(w, q)
  PROVE  /\ run' \in [Worker -> Runs]
         /\ run'[w] = q
         /\ \A x \in Worker : x # w => run'[x] = run[x]
  BY DEF Move

LEMMA IdleType == Idle \in Runs
  BY DEF Idle, Runs, Rows, Unmapped, Stages, Holding, Statuses, Outcomes

LEMMA LeftType ==
  ASSUME NEW w \in Worker, NEW s \in Stages, run \in [Worker -> Runs]
  PROVE  Left(w, s) \in Runs
  BY IdleType DEF Left, Runs, Idle

LEMMA DoneType ==
  ASSUME NEW w \in Worker, NEW v, run \in [Worker -> Runs]
  PROVE  Done(w, v) \in Runs
<1>1. run[w] \in Runs /\ run[w].todo \ {v} \in SUBSET Nat
  BY DEF Runs
<1>2. Unmapped \in Rows /\ "apply" \in Stages
  BY DEF Unmapped, Rows, Stages, Holding
<1> QED BY <1>1, <1>2 DEF Done, Runs

-----------------------------------------------------------------------------
(* The inductive invariant.                                                *)

\* The stages in which a run has a page in hand.
Working == {"apply", "write", "map"}

\* The changes of a record have a last one.
HasLatest ==
  \A r \in Record : Changes(r) # {} =>
    \E n \in Changes(r) : \A m \in Changes(r) : m <= n

\* One run holds the lease, and the stream says so.
Alone ==
  \A w \in Worker : run[w].at \in Holding =>
    /\ stream.leased
    /\ \A x \in Worker : run[x].at \in Holding => x = w

\* Every note shows a version there was.
NotesKnown ==
  \A r \in Record : \A k \in DOMAIN notes[r] :
    /\ notes[r][k].shown > 0
    /\ \E n \in Changes(r) : notes[r][k].shown <= n

\* A page in hand has one version of each record on it, and no older one than
\* any note of that record shows.
PagesKnown ==
  \A w \in Worker : run[w].at \in Working =>
    \A v \in run[w].todo :
      /\ \A k \in DOMAIN notes[log[v]] : notes[log[v]][k].shown <= v
      /\ \A u \in run[w].todo : log[u] = log[v] => u = v

\* What a run read of a row still holds, unless the person deleted its note.
RowsSeen ==
  \A w \in Worker : run[w].at \in {"write", "map"} =>
    LET q == run[w]
        r == log[q.rec]
    IN  /\ q.rec \in q.todo
        /\ q.saw.known = mapping[r].known
        /\ q.saw.known =>
             /\ q.saw.note \in DOMAIN notes[r]
             /\ mapping[r].version < q.rec
             /\ \/ mapping[r].note = q.saw.note
                \/ mapping[r].note = 0 /\ ~notes[r][q.saw.note].alive

\* The note a run is about to link shows the version it is at.
NotesMade ==
  \A w \in Worker : run[w].at = "map" =>
    LET q == run[w]
        r == log[q.rec]
    IN  /\ q.made \in DOMAIN notes[r]
        /\ notes[r][q.made].shown = q.rec
        /\ q.saw.known => q.made = q.saw.note
        /\ ~q.saw.known => notes[r][q.made].passed = 0

\* A run between the two commits of a new note for r.
Linking(r) ==
  \E w \in Worker :
    run[w].at = "map" /\ log[run[w].rec] = r /\ ~run[w].saw.known

\* A record without a row has no note but those that died runs left behind.
Counted ==
  \A r \in Record :
    /\ Len(notes[r]) <= 1 + cuts
    /\ mapping[r].known \/ Linking(r) \/ Len(notes[r]) <= cuts

IInv == TypeOK /\ HasLatest /\ Alone /\ NotesKnown /\ PagesKnown /\ RowsSeen
          /\ NotesMade /\ Counted

LEMMA InitIInv == Init => IInv
<1> SUFFICES ASSUME Init PROVE IInv
  OBVIOUS
<1>1. TypeOK
  BY IdleType DEF Init, TypeOK, RowsAlive, Idle, Rows, Unmapped, Statuses
<1>2. HasLatest /\ NotesKnown
  BY DEF Init, HasLatest, NotesKnown, Changes
<1>3. Alone /\ PagesKnown /\ RowsSeen /\ NotesMade
  BY DEF Init, Alone, PagesKnown, RowsSeen, NotesMade, Idle, Holding, Working
<1>4. Counted
  <2>1. cuts = 0 /\ \A r \in Record : notes[r] = <<>>
    BY DEF Init
  <2>2. Len(<<>>) <= 1 + 0 /\ Len(<<>>) <= 0
    OBVIOUS
  <2> QED BY <2>1, <2>2 DEF Counted
<1> QED BY <1>1, <1>2, <1>3, <1>4 DEF IInv

-----------------------------------------------------------------------------
(* Steps that touch no note, row or history, and leave no page in hand.    *)

Apart(w, q) ==
  /\ w \in Worker /\ Move(w, q) /\ q \in Runs
  /\ q.at \notin Working /\ q.todo \subseteq DOMAIN log
  /\ (run[w].at # "map" /\ cuts' = cuts) \/ cuts' = cuts + 1

\* Whatever else such a step does, the part of the invariant about notes, rows
\* and pages stays.
LEMMA ApartStep ==
  ASSUME IInv, NEW w, NEW q, Apart(w, q), UNCHANGED <<log, notes, mapping>>
  PROVE  /\ run' \in [Worker -> Runs]
         /\ \A x \in Worker : run'[x].todo \subseteq DOMAIN log'
         /\ RowsAlive' /\ HasLatest' /\ NotesKnown' /\ PagesKnown'
         /\ RowsSeen' /\ NotesMade' /\ Counted'
<1>1. /\ run' \in [Worker -> Runs] /\ run'[w] = q
      /\ \A x \in Worker : x # w => run'[x] = run[x]
  BY MoveRun DEF Apart, IInv, TypeOK
<1>2. \A x \in Worker : run'[x].at \in Working => run'[x] = run[x]
  BY <1>1 DEF Apart
<1>3. \A x \in Worker : run'[x].todo \subseteq DOMAIN log'
  BY <1>1 DEF Apart, IInv, TypeOK
<1>4. RowsAlive' /\ HasLatest' /\ NotesKnown'
  <2>1. RowsAlive'
    BY DEF IInv, TypeOK, RowsAlive
  <2>2. HasLatest'
    BY DEF IInv, HasLatest, Changes
  <2>3. NotesKnown'
    BY DEF IInv, NotesKnown, Changes
  <2> QED BY <2>1, <2>2, <2>3
<1>5. PagesKnown'
  BY <1>2 DEF IInv, PagesKnown
<1>6. RowsSeen'
  BY <1>2 DEF IInv, RowsSeen, Working
<1>7. NotesMade'
  BY <1>2 DEF IInv, NotesMade, Working
<1>8. Counted'
  <2>1. CASE cuts' = cuts + 1
    BY <2>1 DEF IInv, Counted, TypeOK
  <2>2. CASE run[w].at # "map" /\ cuts' = cuts
    <3>1. \A r \in Record : Linking(r) => Linking(r)'
      BY <1>1, <2>2 DEF Linking
    <3> QED BY <2>2, <3>1 DEF IInv, Counted
  <2> QED BY <2>1, <2>2 DEF Apart
<1> QED BY <1>1, <1>3, <1>4, <1>5, <1>6, <1>7, <1>8

\* The lease stays with one run: it is left, kept, or taken when it is free.
LEMMA AloneStep ==
  ASSUME IInv, NEW w \in Worker, NEW q \in Runs, Move(w, q),
         \/ /\ q.at \notin Holding
            /\ stream'.leased = stream.leased \/ run[w].at \in Holding
         \/ /\ stream'.leased
            /\ ~stream.leased \/ run[w].at \in Holding
  PROVE  Alone'
<1>1. run'[w] = q /\ \A x \in Worker : x # w => run'[x] = run[x]
  BY MoveRun DEF IInv, TypeOK
<1> QED BY <1>1 DEF IInv, Alone

Lifecycle(w) ==
  Begin(w) \/ Claim(w) \/ Open(w) \/ Refused(w) \/ CommitPage(w) \/ Release(w)
    \/ Invalidate(w) \/ Check(w) \/ Settle(w) \/ Crash(w) \/ Orphaned(w)

StreamRow == [cursor : Nat, page : Nat, resync : BOOLEAN, leased : BOOLEAN]

\* A step of a run's lifecycle moves it to some state of that kind.
LEMMA LifecycleMoves ==
  ASSUME IInv, NEW w \in Worker, Lifecycle(w)
  PROVE  /\ \E q \in Runs :
              /\ Apart(w, q)
              /\ \/ /\ q.at \notin Holding
                    /\ stream'.leased = stream.leased \/ run[w].at \in Holding
                 \/ /\ stream'.leased
                    /\ ~stream.leased \/ run[w].at \in Holding
         /\ stream' \in StreamRow /\ status' \in Statuses
         /\ cuts' \in Nat /\ events' \in Nat
         /\ UNCHANGED <<log, notes, mapping>>
<1> DEFINE Good(q) ==
      /\ Apart(w, q)
      /\ \/ /\ q.at \notin Holding
            /\ stream'.leased = stream.leased \/ run[w].at \in Holding
         \/ /\ stream'.leased
            /\ ~stream.leased \/ run[w].at \in Holding
<1>t. /\ run[w] \in Runs /\ run[w].todo \subseteq DOMAIN log
      /\ stream \in StreamRow /\ status \in Statuses
      /\ cuts \in Nat /\ events \in Nat
      /\ run \in [Worker -> Runs]
  BY DEF IInv, TypeOK, StreamRow
<1>h. run[w].at \in Holding => stream.leased
  BY DEF IInv, Alone
<1>l. \A s \in Stages : Left(w, s) \in Runs /\ Left(w, s).at = s /\ Left(w, s).todo = {}
  BY <1>t, LeftType DEF Left, Idle
<1>i. Idle \in Runs /\ Idle.at = "idle" /\ Idle.todo = {}
  BY IdleType DEF Idle
<1> USE DEF counters
<1>1. CASE Begin(w)
  <2> DEFINE q == [Idle EXCEPT !.at = "claim", !.loaded = status,
                    !.cursor = stream.cursor, !.page = stream.page,
                    !.resync = stream.resync]
  <2>1. q \in Runs /\ q.at = "claim" /\ q.todo = {}
    BY <1>t, IdleType DEF Idle, Runs, Stages, Holding, StreamRow
  <2>2. Move(w, q) /\ run[w].at = "idle" /\ stream' = stream /\ cuts' = cuts
    BY <1>1 DEF Begin
  <2> HIDE DEF q
  <2>3. Good(q)
    BY <2>1, <2>2 DEF Apart, Holding, Working
  <2> QED BY <1>1, <1>t, <2>1, <2>3 DEF Begin
<1>2. CASE Claim(w)
  <2>1. CASE stream.leased
    <3>1. Good(Left(w, "check"))
      BY <1>2, <2>1, <1>l DEF Claim, Apart, Holding, Working, Stages
    <3> QED BY <1>2, <2>1, <3>1, <1>t, <1>l DEF Claim, Stages
  <2>2. CASE ~stream.leased
    <3> DEFINE q == [run[w] EXCEPT !.at = "open"]
    <3>1. q \in Runs /\ q.at = "open" /\ q.todo = run[w].todo
      BY <1>t DEF Runs, Stages, Holding
    <3>2. /\ Move(w, q) /\ run[w].at = "claim" /\ cuts' = cuts
          /\ stream' = [stream EXCEPT !.leased = TRUE]
      BY <1>2, <2>2 DEF Claim
    <3>3. stream' \in StreamRow /\ stream'.leased
      BY <3>2, <1>t DEF StreamRow
    <3> HIDE DEF q
    <3>4. Good(q)
      BY <2>2, <3>1, <3>2, <3>3, <1>t DEF Apart, Holding, Working
    <3> QED BY <1>2, <1>t, <3>1, <3>3, <3>4 DEF Claim
  <2> QED BY <2>1, <2>2
<1>3. CASE Open(w)
  <2>1. run[w].at = "open" /\ run[w].at \in Holding /\ stream.leased
    BY <1>3, <1>h DEF Open, Holding
  <2>2. CASE run[w].resync
    <3> DEFINE q == [run[w] EXCEPT !.at = "fetch", !.cursor = 0, !.page = 0,
                                   !.resync = FALSE]
    <3>1. q \in Runs /\ q.at = "fetch" /\ q.todo = run[w].todo
      BY <1>t DEF Runs, Stages, Holding
    <3>2. /\ Move(w, q) /\ cuts' = cuts
          /\ stream' = [stream EXCEPT !.cursor = 0, !.page = 0, !.resync = FALSE]
      BY <1>3, <2>2 DEF Open
    <3>3. stream' \in StreamRow /\ stream'.leased
      BY <3>2, <2>1, <1>t DEF StreamRow
    <3> HIDE DEF q
    <3>4. Good(q)
      BY <2>1, <3>1, <3>2, <3>3, <1>t DEF Apart, Holding, Working
    <3> QED BY <1>3, <1>t, <3>1, <3>3, <3>4 DEF Open
  <2>3. CASE ~run[w].resync
    <3> DEFINE q == [run[w] EXCEPT !.at = "fetch"]
    <3>1. q \in Runs /\ q.at = "fetch" /\ q.todo = run[w].todo
      BY <1>t DEF Runs, Stages, Holding
    <3>2. Move(w, q) /\ cuts' = cuts /\ stream' = stream
      BY <1>3, <2>3 DEF Open
    <3> HIDE DEF q
    <3>3. Good(q)
      BY <2>1, <3>1, <3>2, <1>t DEF Apart, Holding, Working
    <3> QED BY <1>3, <1>t, <3>1, <3>2, <3>3 DEF Open
  <2> QED BY <2>2, <2>3
<1>4. CASE Refused(w)
  <2>1. PICK c \in Outcomes : Move(w, [Left(w, "release") EXCEPT !.outcome = c])
    BY <1>4 DEF Refused
  <2> DEFINE q == [Left(w, "release") EXCEPT !.outcome = c]
  <2>2. q \in Runs /\ q.at = "release" /\ q.todo = {}
    BY <1>l DEF Runs, Stages, Holding
  <2>3. /\ run[w].at \in {"open", "fetch"} /\ run[w].at \in Holding
        /\ stream.leased /\ stream' = stream /\ cuts' = cuts
    BY <1>4, <1>h DEF Refused, Holding
  <2>4. Move(w, q)
    BY <2>1
  <2> HIDE DEF q
  <2>5. Good(q)
    BY <2>2, <2>3, <2>4 DEF Apart, Holding, Working
  <2>6. events' \in Nat /\ status' = status /\ UNCHANGED <<log, notes, mapping>>
    BY <1>4, <1>t DEF Refused, Event
  <2> QED BY <1>t, <2>2, <2>3, <2>5, <2>6

<1>5. CASE CommitPage(w)
  <2> DEFINE done == run[w].next = 0
             cursor == IF done /\ run[w].end > 0 THEN run[w].end ELSE run[w].cursor
             row == [stream EXCEPT
               !.page = IF run[w].next = run[w].page THEN @ ELSE run[w].next,
               !.cursor = IF cursor = run[w].cursor THEN @ ELSE cursor,
               !.leased = TRUE]
             on == [run[w] EXCEPT !.at = "fetch", !.page = run[w].next,
                      !.cursor = cursor, !.next = 0, !.end = 0]
             q == IF done \/ run[w].pages = MaxPages THEN Left(w, "release") ELSE on
  <2>1. cursor \in Nat /\ run[w].next \in Nat
    BY <1>t DEF Runs
  <2>2. stream' = row /\ Move(w, q) /\ run[w].at = "apply" /\ cuts' = cuts
    BY <1>5 DEF CommitPage
  <2>3. run[w].at \in Holding /\ stream.leased
    BY <2>2, <1>h DEF Holding
  <2> HIDE DEF cursor, done
  <2>4. row \in StreamRow /\ row.leased
    BY <2>1, <1>t DEF StreamRow
  <2>5. on \in Runs /\ on.at = "fetch" /\ on.todo = run[w].todo
    BY <2>1, <1>t DEF Runs, Stages, Holding
  <2>6. /\ Left(w, "release") \in Runs /\ Left(w, "release").at = "release"
        /\ Left(w, "release").todo = {}
    BY <1>l DEF Stages, Holding
  <2>7. q \in Runs /\ q.at \notin Working /\ q.todo \subseteq DOMAIN log
    <3> HIDE DEF on
    <3> QED BY <2>5, <2>6, <1>t DEF Working
  <2> HIDE DEF q, row
  <2>8. Good(q)
    BY <2>2, <2>3, <2>4, <2>7 DEF Apart
  <2> QED BY <1>5, <1>t, <2>2, <2>4, <2>7, <2>8 DEF CommitPage
<1>6. CASE Release(w)
  <2> DEFINE s == IF run[w].outcome = "cursor" THEN "invalid" ELSE "check"
             q == Left(w, s)
  <2>1. s \in Stages /\ s \notin Holding /\ s \notin Working
    BY DEF Stages, Holding, Working
  <2>2. /\ Move(w, q) /\ run[w].at = "release" /\ cuts' = cuts
        /\ stream' = [stream EXCEPT !.leased = FALSE]
    BY <1>6 DEF Release
  <2> HIDE DEF s
  <2>3. q \in Runs /\ q.at = s /\ q.todo = {}
    BY <2>1, <1>l
  <2>4. stream' \in StreamRow /\ run[w].at \in Holding
    BY <2>2, <1>t DEF StreamRow, Holding
  <2> HIDE DEF q
  <2>5. Good(q)
    BY <2>1, <2>2, <2>3, <2>4 DEF Apart
  <2> QED BY <1>6, <1>t, <2>3, <2>4, <2>5 DEF Release
<1>7. CASE Invalidate(w)
  <2>1. /\ Move(w, Idle) /\ run[w].at = "invalid" /\ cuts' = cuts
        /\ stream' = [stream EXCEPT !.cursor = 0, !.page = 0, !.resync = TRUE]
    BY <1>7 DEF Invalidate
  <2>2. stream' \in StreamRow /\ stream'.leased = stream.leased
    BY <2>1, <1>t DEF StreamRow
  <2>3. Good(Idle)
    BY <2>1, <2>2, <1>i DEF Apart, Holding, Working
  <2> QED BY <1>7, <1>t, <1>i, <2>2, <2>3 DEF Invalidate
<1>8. CASE Check(w)
  <2> DEFINE q == [run[w] EXCEPT !.at = "settle", !.paused = (status = "paused")]
  <2>1. q \in Runs /\ q.at = "settle" /\ q.todo = run[w].todo
    BY <1>t DEF Runs, Stages, Holding
  <2>2. Move(w, q) /\ run[w].at = "check" /\ cuts' = cuts /\ stream' = stream
    BY <1>8 DEF Check
  <2> HIDE DEF q
  <2>3. Good(q)
    BY <2>1, <2>2, <1>t DEF Apart, Holding, Working
  <2> QED BY <1>8, <1>t, <2>1, <2>3 DEF Check
<1>9. CASE Settle(w)
  <2>1. Move(w, Idle) /\ run[w].at = "settle" /\ cuts' = cuts /\ stream' = stream
    BY <1>9 DEF Settle
  <2>2. Good(Idle)
    BY <2>1, <1>i DEF Apart, Holding, Working
  <2>3. Verdict(w) \in Statuses
    BY DEF Verdict, Statuses
  <2>4. status' \in Statuses
    BY <1>9, <1>t, <2>3 DEF Settle
  <2> QED BY <1>9, <1>t, <1>i, <2>2, <2>4 DEF Settle
<1>10. CASE Crash(w) \/ Orphaned(w)
  <2>1. /\ Move(w, Idle) /\ cuts' = cuts + 1 /\ events' \in Nat
        /\ UNCHANGED <<log, notes, mapping, stream, status>>
    BY <1>10, <1>t DEF Crash, Orphaned, Cut, Event
  <2>2. Good(Idle)
    BY <2>1, <1>i DEF Apart, Holding, Working
  <2> QED BY <1>t, <1>i, <2>1, <2>2
<1> QED
  BY <1>1, <1>2, <1>3, <1>4, <1>5, <1>6, <1>7, <1>8, <1>9, <1>10 DEF Lifecycle

LEMMA LifecycleStep ==
  ASSUME IInv, NEW w \in Worker, Lifecycle(w)
  PROVE  IInv'
<1>1. PICK q \in Runs :
        /\ Apart(w, q)
        /\ \/ /\ q.at \notin Holding
              /\ stream'.leased = stream.leased \/ run[w].at \in Holding
           \/ /\ stream'.leased
              /\ ~stream.leased \/ run[w].at \in Holding
  BY LifecycleMoves
<1>2. /\ stream' \in StreamRow /\ status' \in Statuses
      /\ cuts' \in Nat /\ events' \in Nat /\ UNCHANGED <<log, notes, mapping>>
  BY LifecycleMoves
<1>3. Alone'
  BY <1>1, AloneStep DEF Apart
<1>4. /\ run' \in [Worker -> Runs]
      /\ \A x \in Worker : run'[x].todo \subseteq DOMAIN log'
      /\ RowsAlive' /\ HasLatest' /\ NotesKnown' /\ PagesKnown'
      /\ RowsSeen' /\ NotesMade' /\ Counted'
  BY <1>1, <1>2, ApartStep
<1>5. TypeOK'
  BY <1>2, <1>4 DEF IInv, TypeOK, StreamRow
<1> QED BY <1>3, <1>4, <1>5 DEF IInv
-----------------------------------------------------------------------------
(* Steps on a page in hand.                                                *)

\* Of the runs with a page in hand, the one that moves is the only one.
LEMMA OnlyWorking ==
  ASSUME IInv, NEW w \in Worker, run[w].at \in Holding, NEW q \in Runs, Move(w, q)
  PROVE  /\ run' \in [Worker -> Runs] /\ run'[w] = q
         /\ \A x \in Worker : x # w => run'[x] = run[x]
         /\ \A x \in Worker : x # w => run'[x].at \notin Working
         /\ \A x \in Worker : x # w => run[x].at \notin Working
<1>1. /\ run' \in [Worker -> Runs] /\ run'[w] = q
      /\ \A x \in Worker : x # w => run'[x] = run[x]
  BY MoveRun DEF IInv, TypeOK
<1>2. \A x \in Worker : x # w => run[x].at \notin Holding
  BY DEF IInv, Alone
<1>3. Working \subseteq Holding
  BY DEF Working, Holding
<1> QED BY <1>1, <1>2, <1>3

LEMMA NoteTyped ==
  ASSUME NEW r \in Record, notes \in [Record -> Seq(Notes)],
         NEW k \in DOMAIN notes[r]
  PROVE  notes[r][k] \in Notes /\ k \in Nat
<1>1. notes[r] \in Seq(Notes)
  OBVIOUS
<1> QED BY <1>1

LEMMA LatestIs ==
  ASSUME HasLatest, log \in Seq(Record), NEW r \in Record
  PROVE  /\ Latest(r) \in Nat
         /\ Changes(r) = {} => Latest(r) = 0
         /\ Changes(r) # {} => Latest(r) \in Changes(r)
         /\ \A n \in Changes(r) : n <= Latest(r)
<1>1. Changes(r) \subseteq Nat
  BY DEF Changes
<1>2. CASE Changes(r) = {}
  BY <1>2 DEF Latest
<1>3. CASE Changes(r) # {}
  <2>1. PICK n \in Changes(r) : \A m \in Changes(r) : m <= n
    BY <1>3 DEF HasLatest
  <2>2. /\ Latest(r) \in Changes(r)
        /\ \A m \in Changes(r) : m <= Latest(r)
    BY <1>3, <2>1 DEF Latest
  <2> QED BY <1>1, <1>3, <2>2
<1> QED BY <1>2, <1>3

\* A run with a page fetched.
Fetched(q, todo, next, end) ==
  [q EXCEPT !.at = "apply", !.todo = todo, !.next = next,
     !.pages = q.pages + 1, !.end = end]

LEMMA FetchedType ==
  ASSUME NEW q \in Runs, NEW todo \in SUBSET Nat, NEW next \in Nat, NEW end \in Nat
  PROVE  /\ Fetched(q, todo, next, end) \in Runs
         /\ Fetched(q, todo, next, end).at = "apply"
         /\ Fetched(q, todo, next, end).todo = todo
<1> DEFINE more == q.pages + 1
<1>1. "apply" \in Stages /\ more \in Nat
  BY DEF Runs, Stages, Holding
<1> HIDE DEF more
<1>2. [q EXCEPT !.at = "apply", !.todo = todo, !.next = next, !.pages = more,
         !.end = end] \in Runs
  BY <1>1 DEF Runs
<1>3. Fetched(q, todo, next, end)
        = [q EXCEPT !.at = "apply", !.todo = todo, !.next = next,
             !.pages = more, !.end = end]
  BY DEF more, Fetched
<1> QED BY <1>2, <1>3 DEF Runs

LEMMA FetchStep ==
  ASSUME IInv, NEW w \in Worker, Fetch(w)
  PROVE  IInv'
<1> DEFINE from == IF run[w].page # 0 THEN run[w].page ELSE run[w].cursor
<1>1. PICK upto \in After(from) \cup {0} :
        Move(w, Fetched(run[w], Page(from, upto), upto,
                  IF upto = 0 THEN Len(log) ELSE 0))
  BY DEF Fetch, Fetched
<1> DEFINE todo == Page(from, upto)
           end == IF upto = 0 THEN Len(log) ELSE 0
           q == Fetched(run[w], todo, upto, end)
<1>2. /\ run[w] \in Runs /\ log \in Seq(Record) /\ DOMAIN log \subseteq Nat
      /\ Len(log) \in Nat /\ \A n \in DOMAIN log : log[n] \in Record
  BY DEF IInv, TypeOK
<1>3. \A n \in Page(from, upto) : n \in DOMAIN log /\ n = Latest(log[n])
  BY DEF Page, After
<1>4. upto \in Nat
  BY <1>2 DEF After
<1>5. /\ run[w].at = "fetch" /\ run[w].at \in Holding
      /\ UNCHANGED <<log, notes, mapping, stream, status, cuts, events>>
  BY DEF Fetch, Holding, counters
<1> HIDE DEF from
<1>6. q \in Runs /\ q.at = "apply" /\ q.todo = Page(from, upto)
  <2>1. todo \in SUBSET Nat
    BY <1>2, <1>3
  <2>2. end \in Nat
    BY <1>2
  <2> HIDE DEF todo, end
  <2>3. q \in Runs /\ q.at = "apply" /\ q.todo = todo
    BY <2>1, <2>2, <1>2, <1>4, FetchedType
  <2> QED BY <2>3 DEF todo
<1>7. Move(w, q)
  BY <1>1
<1> HIDE DEF q
<1>8. /\ run' \in [Worker -> Runs] /\ run'[w] = q
      /\ \A x \in Worker : x # w => run'[x] = run[x]
      /\ \A x \in Worker : x # w => run'[x].at \notin Working
  BY <1>5, <1>6, <1>7, OnlyWorking
<1>9. TypeOK'
  BY <1>3, <1>5, <1>6, <1>8 DEF IInv, TypeOK, RowsAlive
<1>10. Alone'
  BY <1>5, <1>6, <1>7, AloneStep DEF IInv, Alone
<1>11. HasLatest' /\ NotesKnown'
  BY <1>5 DEF IInv, HasLatest, NotesKnown, Changes
<1>12. PagesKnown'
  <2>1. ASSUME NEW v \in q.todo
        PROVE  /\ \A k \in DOMAIN notes[log[v]] : notes[log[v]][k].shown <= v
               /\ \A u \in q.todo : log[u] = log[v] => u = v
    <3>1. v \in Nat /\ log[v] \in Record /\ v = Latest(log[v])
      BY <1>2, <1>3, <1>6, <2>1
    <3>2. \A u \in q.todo : log[u] = log[v] => u = v
      BY <1>3, <1>6, <3>1
    <3>3. ASSUME NEW k \in DOMAIN notes[log[v]] PROVE notes[log[v]][k].shown <= v
      <4>1. PICK n \in Changes(log[v]) : notes[log[v]][k].shown <= n
        BY <3>1 DEF IInv, NotesKnown
      <4>2. n <= v /\ n \in Nat
        BY <3>1, <1>2, LatestIs DEF IInv, Changes
      <4>3. notes[log[v]][k].shown \in Nat
        BY <3>1, NoteTyped DEF IInv, TypeOK, Notes
      <4> QED BY <3>1, <4>1, <4>2, <4>3
    <3> QED BY <3>2, <3>3
  <2> QED BY <1>5, <1>8, <2>1 DEF PagesKnown
<1>13. RowsSeen' /\ NotesMade'
  BY <1>6, <1>8 DEF RowsSeen, NotesMade, Working
<1>14. Counted'
  <2>1. \A r \in Record : Linking(r) => Linking(r)'
    BY <1>5, <1>8 DEF Linking
  <2> QED BY <1>5, <2>1 DEF IInv, Counted
<1> QED BY <1>9, <1>10, <1>11, <1>12, <1>13, <1>14 DEF IInv

LEMMA LookStep ==
  ASSUME IInv, NEW w \in Worker, Look(w)
  PROVE  IInv'
<1>1. PICK v \in run[w].todo :
        LET row == mapping[log[v]]
        IN  IF Settles(row, v) THEN Move(w, Done(w, v))
            ELSE Move(w, [run[w] EXCEPT !.at = "write", !.rec = v, !.saw = row])
  BY DEF Look
<1> DEFINE row == mapping[log[v]]
           write == [run[w] EXCEPT !.at = "write", !.rec = v, !.saw = row]
           q == IF Settles(row, v) THEN Done(w, v) ELSE write
<1>2. /\ run[w] \in Runs /\ v \in DOMAIN log /\ v \in Nat /\ log[v] \in Record
      /\ row \in Rows
  BY DEF IInv, TypeOK
<1>3. /\ run[w].at = "apply" /\ run[w].at \in Holding
      /\ UNCHANGED <<log, notes, mapping, stream, status, cuts, events>>
  BY DEF Look, Holding, counters
<1>4. Done(w, v) \in Runs /\ Done(w, v).at = "apply" /\ Done(w, v).todo \subseteq run[w].todo
  BY <1>2, DoneType DEF Done, Runs, IInv, TypeOK
<1>5. /\ write \in Runs /\ write.at = "write" /\ write.rec = v
      /\ write.saw = row /\ write.todo = run[w].todo
  BY <1>2 DEF Runs, Stages, Holding
<1>6. q \in Runs /\ Move(w, q)
  BY <1>1, <1>4, <1>5
<1>7. /\ q.at \in {"apply", "write"} /\ q.todo \subseteq run[w].todo
      /\ q.at = "write" =>
           ~Settles(row, v) /\ q.todo = run[w].todo /\ q.rec = v /\ q.saw = row
  BY <1>4, <1>5
<1> HIDE DEF q, write
<1>8. /\ run' \in [Worker -> Runs] /\ run'[w] = q
      /\ \A x \in Worker : x # w => run'[x] = run[x]
      /\ \A x \in Worker : x # w => run'[x].at \notin Working
  BY <1>3, <1>6, OnlyWorking
<1>9. TypeOK'
  BY <1>3, <1>7, <1>8 DEF IInv, TypeOK, RowsAlive
<1>10. Alone'
  BY <1>3, <1>6, AloneStep DEF IInv, Alone
<1>11. HasLatest' /\ NotesKnown'
  BY <1>3 DEF IInv, HasLatest, NotesKnown, Changes
<1>12. PagesKnown'
  BY <1>3, <1>7, <1>8 DEF IInv, PagesKnown, Working
<1>13. RowsSeen'
  <2>1. ASSUME q.at = "write"
        PROVE  /\ q.rec \in q.todo /\ q.saw = mapping[log[q.rec]]
               /\ mapping[log[q.rec]].known =>
                    /\ mapping[log[q.rec]].note \in DOMAIN notes[log[q.rec]]
                    /\ mapping[log[q.rec]].version < q.rec
    <3>1. q.rec = v /\ q.saw = row /\ ~Settles(row, v) /\ v \in q.todo
      BY <1>7, <2>1
    <3>2. row.known => row.note # 0 /\ row.version < v
      BY <3>1, <1>2 DEF Settles, Rows
    <3>3. row.note # 0 => row.note \in DOMAIN notes[log[v]]
      BY <1>2 DEF IInv, TypeOK, RowsAlive
    <3> QED BY <3>1, <3>2, <3>3
  <2> QED BY <1>3, <1>7, <1>8, <2>1 DEF RowsSeen, Working
<1>14. NotesMade'
  BY <1>7, <1>8 DEF NotesMade, Working
<1>15. Counted'
  <2>1. \A r \in Record : Linking(r) => Linking(r)'
    BY <1>3, <1>8 DEF Linking
  <2> QED BY <1>3, <2>1 DEF IInv, Counted
<1> QED BY <1>9, <1>10, <1>11, <1>12, <1>13, <1>14, <1>15 DEF IInv

\* Rewriting the note a run has in hand leaves the other notes as they were.
LEMMA RewriteStep ==
  ASSUME IInv, NEW w \in Worker, Rewrite(w)
  PROVE  IInv'
<1> DEFINE v == run[w].rec
           r == log[v]
           k == run[w].saw.note
           note == notes[r][k]
           up == note.alive /\ note.marked
           made == [run[w] EXCEPT !.at = "map", !.made = k]
           q == IF up THEN made ELSE Done(w, v)
<1>1. /\ run[w].at = "write" /\ run[w].at \in Holding /\ run[w].saw.known
      /\ UNCHANGED <<log, mapping, stream, status, cuts, events>>
      /\ Move(w, q)
      /\ notes' = IF note.alive THEN [notes EXCEPT ![r][k] = Merged(@, v)]
                  ELSE notes
  BY DEF Rewrite, Holding, counters
<1>2. /\ run[w] \in Runs /\ v \in run[w].todo /\ v \in DOMAIN log /\ v \in Nat
      /\ r \in Record /\ k \in DOMAIN notes[r] /\ k \in Nat
      /\ log \in Seq(Record) /\ notes \in [Record -> Seq(Notes)]
  <2>1. /\ run[w] \in Runs /\ log \in Seq(Record) /\ run[w].todo \subseteq DOMAIN log
        /\ notes \in [Record -> Seq(Notes)]
    BY DEF IInv, TypeOK
  <2>2. v \in run[w].todo /\ k \in DOMAIN notes[r]
    BY <1>1 DEF IInv, RowsSeen
  <2>3. v \in DOMAIN log /\ v \in Nat /\ r \in Record
    BY <2>1, <2>2
  <2>4. k \in Nat
    BY <2>1, <2>2, <2>3, NoteTyped
  <2> QED BY <2>1, <2>2, <2>3, <2>4
<1>3. note \in Notes
  BY <1>2, NoteTyped
<1>4. /\ Merged(note, v) \in Notes
      /\ Merged(note, v).alive = note.alive
      /\ Merged(note, v).shown = IF note.marked THEN v ELSE note.shown
      /\ note.marked => Merged(note, v).passed = note.passed
  BY <1>2, <1>3 DEF Merged, Notes
<1>5. Done(w, v) \in Runs /\ Done(w, v).at = "apply" /\ Done(w, v).todo \subseteq run[w].todo
  BY <1>2, DoneType DEF Done, Runs, IInv, TypeOK
<1>6. /\ made \in Runs /\ made.at = "map" /\ made.rec = v /\ made.made = k
      /\ made.saw = run[w].saw /\ made.todo = run[w].todo
  BY <1>2 DEF Runs, Stages, Holding
<1>7. /\ q \in Runs /\ q.at \in {"map", "apply"} /\ q.todo \subseteq run[w].todo
      /\ q.at = "map" => /\ up /\ q.rec = v /\ q.made = k
                         /\ q.saw = run[w].saw /\ q.todo = run[w].todo
  BY <1>5, <1>6
<1> HIDE DEF q, made
<1>8. /\ run' \in [Worker -> Runs] /\ run'[w] = q
      /\ \A x \in Worker : x # w => run'[x] = run[x]
      /\ \A x \in Worker : x # w => run'[x].at \notin Working
  BY <1>1, <1>7, OnlyWorking
<1>9. /\ notes' \in [Record -> Seq(Notes)]
      /\ \A s \in Record : /\ DOMAIN notes'[s] = DOMAIN notes[s]
                           /\ Len(notes'[s]) = Len(notes[s])
      /\ \A s \in Record : \A i \in DOMAIN notes[s] :
           \/ notes'[s][i] = notes[s][i]
           \/ s = r /\ i = k /\ note.alive /\ notes'[s][i] = Merged(note, v)
      /\ note.alive => notes'[r][k] = Merged(note, v)
  <2>1. CASE ~note.alive
    BY <1>1, <1>2, <2>1
  <2>2. CASE note.alive
    <3> DEFINE f == [notes[r] EXCEPT ![k] = Merged(note, v)]
    <3>1. notes[r] \in Seq(Notes)
      BY <1>2
    <3>2. f \in Seq(Notes) /\ DOMAIN f = DOMAIN notes[r] /\ Len(f) = Len(notes[r])
      BY <3>1, <1>4, <1>2, SMTT(30)
    <3>3. f[k] = Merged(note, v) /\ \A i \in DOMAIN notes[r] : i # k => f[i] = notes[r][i]
      BY <1>2
    <3>4. notes' = [notes EXCEPT ![r] = f]
      BY <1>1, <2>2
    <3> HIDE DEF f
    <3>5. notes'[r] = f /\ \A s \in Record : s # r => notes'[s] = notes[s]
      BY <3>4, <1>2
    <3> QED BY <3>2, <3>3, <3>4, <3>5, <1>2, <2>2
  <2> QED BY <2>1, <2>2
<1>10. TypeOK'
  <2>1. RowsAlive'
    <3> SUFFICES ASSUME NEW s \in Record, mapping[s].note # 0
                 PROVE  /\ mapping[s].known /\ mapping[s].note \in DOMAIN notes'[s]
                        /\ notes'[s][mapping[s].note].alive
      BY <1>1 DEF RowsAlive
    <3>1. /\ mapping[s].known /\ mapping[s].note \in DOMAIN notes[s]
          /\ notes[s][mapping[s].note].alive
      BY DEF IInv, TypeOK, RowsAlive
    <3> QED BY <3>1, <1>4, <1>9
  <2> QED BY <2>1, <1>1, <1>7, <1>8, <1>9 DEF IInv, TypeOK
<1>11. Alone'
  BY <1>1, <1>7, AloneStep DEF IInv, Alone
<1>12. HasLatest'
  BY <1>1 DEF IInv, HasLatest, Changes
<1>13. NotesKnown'
  <2> SUFFICES ASSUME NEW s \in Record, NEW i \in DOMAIN notes'[s]
               PROVE  /\ notes'[s][i].shown > 0
                      /\ \E n \in Changes(s) : notes'[s][i].shown <= n
    BY <1>1 DEF NotesKnown, Changes
  <2>1. i \in DOMAIN notes[s] /\ notes[s][i] \in Notes
    BY <1>9, <1>2, NoteTyped
  <2>2. CASE notes'[s][i] = notes[s][i]
    BY <2>1, <2>2 DEF IInv, NotesKnown
  <2>3. CASE s = r /\ notes'[s][i].shown = v
    <3>1. v \in Changes(r) /\ v > 0 /\ v <= v
      BY <1>2 DEF Changes
    <3> QED BY <2>3, <3>1
  <2>4. CASE s = r /\ i = k /\ notes'[s][i].shown = note.shown
    BY <2>1, <2>4 DEF IInv, NotesKnown
  <2> QED BY <1>4, <1>9, <2>1, <2>2, <2>3, <2>4
<1>14. PagesKnown'
  <2>1. ASSUME NEW u \in run[w].todo
        PROVE  \A i \in DOMAIN notes'[log[u]] : notes'[log[u]][i].shown <= u
    <3> SUFFICES ASSUME NEW i \in DOMAIN notes'[log[u]]
                 PROVE  notes'[log[u]][i].shown <= u
      OBVIOUS
    <3>1. /\ u \in DOMAIN log /\ u \in Nat /\ log[u] \in Record
          /\ \A m \in DOMAIN notes[log[u]] : notes[log[u]][m].shown <= u
          /\ log[u] = r => u = v
      <4>1. u \in DOMAIN log /\ log \in Seq(Record)
        BY DEF IInv, TypeOK
      <4>2. /\ \A m \in DOMAIN notes[log[u]] : notes[log[u]][m].shown <= u
            /\ \A x \in run[w].todo : log[x] = log[u] => x = u
        BY <1>1 DEF IInv, PagesKnown, Working
      <4> QED BY <4>1, <4>2, <1>2
    <3>2. i \in DOMAIN notes[log[u]]
      BY <1>9, <3>1
    <3>3. CASE notes'[log[u]][i] = notes[log[u]][i]
      BY <3>1, <3>2, <3>3
    <3>4. CASE log[u] = r /\ i = k /\ notes'[log[u]][i] = Merged(note, v)
      <4>1. notes'[log[u]][i].shown = IF note.marked THEN v ELSE note.shown
        BY <1>4, <3>4
      <4>2. note.shown <= u /\ v <= u
        BY <1>2, <3>1, <3>4
      <4> QED BY <4>1, <4>2
    <3> QED BY <1>9, <3>1, <3>2, <3>3, <3>4
  <2>2. \A u, x \in run[w].todo : log[u] = log[x] => u = x
    BY <1>1 DEF IInv, PagesKnown, Working
  <2> QED BY <1>1, <1>7, <1>8, <2>1, <2>2 DEF PagesKnown
<1>15. RowsSeen'
  <2>1. /\ run[w].saw.known = mapping[r].known
        /\ mapping[r].version < v
        /\ \/ mapping[r].note = k
           \/ mapping[r].note = 0 /\ ~note.alive
    BY <1>1 DEF IInv, RowsSeen
  <2>2. q.at = "map" => note.alive
    BY <1>7
  <2>3. \A x \in Worker : run'[x].at \in {"write", "map"} => x = w /\ q.at = "map"
    BY <1>7, <1>8 DEF Working
  <2>4. q.at = "map" => /\ q.rec = v /\ q.rec \in q.todo /\ q.saw = run[w].saw
                        /\ mapping[r].note = k
    BY <1>2, <1>7, <2>1, <2>2
  <2>5. k \in DOMAIN notes'[r]
    BY <1>2, <1>9
  <2> QED BY <1>1, <1>8, <2>1, <2>3, <2>4, <2>5 DEF RowsSeen
<1>16. NotesMade'
  <2>1. q.at = "map" => notes'[r][k].shown = v /\ k \in DOMAIN notes'[r]
    BY <1>2, <1>4, <1>7, <1>9
  <2> QED BY <1>1, <1>7, <1>8, <2>1 DEF NotesMade, Working
<1>17. Counted'
  <2>1. \A s \in Record : Linking(s) => Linking(s)'
    BY <1>1, <1>8 DEF Linking
  <2> QED BY <1>1, <1>9, <2>1 DEF IInv, Counted
<1> QED
  BY <1>10, <1>11, <1>12, <1>13, <1>14, <1>15, <1>16, <1>17 DEF IInv

LEMMA AppendFacts ==
  ASSUME NEW S, NEW seq \in Seq(S), NEW e \in S
  PROVE  LET f == Append(seq, e)
             k == Len(seq) + 1
         IN  /\ f \in Seq(S) /\ Len(f) = k /\ k \in DOMAIN f /\ f[k] = e
             /\ \A i \in DOMAIN seq : i \in DOMAIN f /\ f[i] = seq[i]
             /\ \A i \in DOMAIN f : i = k \/ i \in DOMAIN seq
  OBVIOUS

\* A new note for a record without a row: the run that made it is linking it.
LEMMA CreateStep ==
  ASSUME IInv, NEW w \in Worker, Create(w)
  PROVE  IInv'
<1> DEFINE v == run[w].rec
           r == log[v]
           fresh == [shown |-> v, text |-> 0, marked |-> TRUE, passed |-> 0,
                     alive |-> TRUE]
           k == Len(notes[r]) + 1
           q == [run[w] EXCEPT !.at = "map", !.made = k]
<1>1. /\ run[w].at = "write" /\ run[w].at \in Holding /\ ~run[w].saw.known
      /\ UNCHANGED <<log, mapping, stream, status, cuts, events>>
      /\ Move(w, q)
      /\ notes' = [notes EXCEPT ![r] = Append(@, fresh)]
  BY DEF Create, Holding, counters
<1>2. /\ run[w] \in Runs /\ v \in run[w].todo /\ v \in DOMAIN log /\ v \in Nat
      /\ r \in Record /\ log \in Seq(Record) /\ notes \in [Record -> Seq(Notes)]
      /\ cuts \in Nat
  <2>1. /\ run[w] \in Runs /\ log \in Seq(Record) /\ run[w].todo \subseteq DOMAIN log
        /\ notes \in [Record -> Seq(Notes)] /\ cuts \in Nat
    BY DEF IInv, TypeOK
  <2>2. v \in run[w].todo
    BY <1>1 DEF IInv, RowsSeen
  <2>3. v \in DOMAIN log /\ v \in Nat /\ r \in Record
    BY <2>1, <2>2
  <2> QED BY <2>1, <2>2, <2>3
<1>3. notes[r] \in Seq(Notes) /\ Len(notes[r]) \in Nat /\ k \in Nat /\ fresh \in Notes
  BY <1>2 DEF Notes
<1>4. /\ q \in Runs /\ q.at = "map" /\ q.rec = v /\ q.made = k
      /\ q.saw = run[w].saw /\ q.todo = run[w].todo
  <2> HIDE DEF k
  <2> QED BY <1>2, <1>3 DEF Runs, Stages, Holding
<1>5. /\ notes' \in [Record -> Seq(Notes)]
      /\ \A s \in Record : s # r => notes'[s] = notes[s]
      /\ Len(notes'[r]) = k /\ k \in DOMAIN notes'[r] /\ notes'[r][k] = fresh
      /\ \A i \in DOMAIN notes[r] : i \in DOMAIN notes'[r] /\ notes'[r][i] = notes[r][i]
      /\ \A i \in DOMAIN notes'[r] : i = k \/ i \in DOMAIN notes[r]
  <2> DEFINE f == Append(notes[r], fresh)
  <2> HIDE DEF fresh
  <2>1. /\ f \in Seq(Notes) /\ Len(f) = k /\ k \in DOMAIN f /\ f[k] = fresh
        /\ \A i \in DOMAIN notes[r] : i \in DOMAIN f /\ f[i] = notes[r][i]
        /\ \A i \in DOMAIN f : i = k \/ i \in DOMAIN notes[r]
    BY <1>3, AppendFacts
  <2>2. notes' = [notes EXCEPT ![r] = f]
    BY <1>1
  <2> HIDE DEF f
  <2>3. notes'[r] = f /\ \A s \in Record : s # r => notes'[s] = notes[s]
    BY <1>2, <2>2
  <2> QED BY <1>2, <2>1, <2>2, <2>3
<1>6. fresh.shown = v /\ fresh.passed = 0
  OBVIOUS
<1> HIDE DEF q, fresh, k
<1>7. /\ run' \in [Worker -> Runs] /\ run'[w] = q
      /\ \A x \in Worker : x # w => run'[x] = run[x]
      /\ \A x \in Worker : x # w => run'[x].at \notin Working
      /\ \A x \in Worker : x # w => run[x].at \notin Working
  BY <1>1, <1>4, OnlyWorking
<1>8. \A s \in Record : \A i \in DOMAIN notes'[s] :
        \/ i \in DOMAIN notes[s] /\ notes'[s][i] = notes[s][i]
        \/ s = r /\ i = k /\ notes'[s][i] = fresh
  BY <1>5
<1>9. TypeOK'
  <2>1. RowsAlive'
    <3> SUFFICES ASSUME NEW s \in Record, mapping[s].note # 0
                 PROVE  /\ mapping[s].known /\ mapping[s].note \in DOMAIN notes'[s]
                        /\ notes'[s][mapping[s].note].alive
      BY <1>1 DEF RowsAlive
    <3>1. /\ mapping[s].known /\ mapping[s].note \in DOMAIN notes[s]
          /\ notes[s][mapping[s].note].alive
      BY DEF IInv, TypeOK, RowsAlive
    <3> QED BY <3>1, <1>5
  <2> QED BY <2>1, <1>1, <1>4, <1>5, <1>7 DEF IInv, TypeOK
<1>10. Alone'
  BY <1>1, <1>4, AloneStep DEF IInv, Alone
<1>11. HasLatest'
  BY <1>1 DEF IInv, HasLatest, Changes
<1>12. NotesKnown'
  <2> SUFFICES ASSUME NEW s \in Record, NEW i \in DOMAIN notes'[s]
               PROVE  /\ notes'[s][i].shown > 0
                      /\ \E n \in Changes(s) : notes'[s][i].shown <= n
    BY <1>1 DEF NotesKnown, Changes
  <2>1. CASE i \in DOMAIN notes[s] /\ notes'[s][i] = notes[s][i]
    BY <2>1 DEF IInv, NotesKnown
  <2>2. CASE s = r /\ notes'[s][i] = fresh
    <3>1. v \in Changes(r) /\ v > 0 /\ v <= v
      BY <1>2 DEF Changes
    <3> QED BY <2>2, <3>1, <1>6
  <2> QED BY <1>8, <2>1, <2>2
<1>13. PagesKnown'
  <2>1. ASSUME NEW u \in run[w].todo, NEW i \in DOMAIN notes'[log[u]]
        PROVE  notes'[log[u]][i].shown <= u
    <3>1. u \in DOMAIN log /\ log \in Seq(Record)
      BY DEF IInv, TypeOK
    <3>2. /\ \A m \in DOMAIN notes[log[u]] : notes[log[u]][m].shown <= u
          /\ \A x \in run[w].todo : log[x] = log[u] => x = u
      BY <1>1 DEF IInv, PagesKnown, Working
    <3>3. CASE i \in DOMAIN notes[log[u]] /\ notes'[log[u]][i] = notes[log[u]][i]
      BY <3>2, <3>3
    <3>4. CASE log[u] = r /\ notes'[log[u]][i] = fresh
      BY <3>2, <3>4, <1>2, <1>6
    <3> QED BY <1>8, <3>1, <3>3, <3>4
  <2>2. \A u, x \in run[w].todo : log[u] = log[x] => u = x
    BY <1>1 DEF IInv, PagesKnown, Working
  <2>3. \A x \in Worker : run'[x].at \in Working => run'[x].todo = run[w].todo
    BY <1>4, <1>7
  <2>4. \A u \in run[w].todo : \A i \in DOMAIN notes'[log[u]] :
          notes'[log[u]][i].shown <= u
    BY <2>1
  <2>5. log' = log
    BY <1>1
  <2> QED BY <2>2, <2>3, <2>4, <2>5 DEF PagesKnown
<1>14. ~mapping[r].known
  BY <1>1 DEF IInv, RowsSeen
<1>15. RowsSeen'
  <2>1. \A x \in Worker : run'[x].at \in {"write", "map"} => run'[x] = q
    BY <1>7 DEF Working
  <2>2. q.rec \in q.todo /\ ~q.saw.known /\ ~mapping[log[q.rec]].known
        /\ q.saw.known = mapping[log[q.rec]].known
    <3>1. q.saw.known = mapping[log[q.rec]].known
      BY <1>1, <1>4 DEF IInv, RowsSeen
    <3> QED BY <3>1, <1>1, <1>2, <1>4, <1>14
  <2>3. log' = log /\ mapping' = mapping
    BY <1>1
  <2> QED BY <2>1, <2>2, <2>3 DEF RowsSeen
<1>16. NotesMade'
  BY <1>1, <1>4, <1>5, <1>6, <1>7, SMTT(30) DEF NotesMade, Working
<1>17. Counted'
  <2>1. \A s \in Record : ~Linking(s)
    BY <1>1, <1>7 DEF Linking, Working
  <2>2. \A s \in Record : s = r => Linking(s)'
    BY <1>1, <1>4, <1>7 DEF Linking
  <2>3. Len(notes'[r]) <= 1 + cuts
    <3>1. Len(notes[r]) <= cuts
      BY <1>2, <1>14, <2>1 DEF IInv, Counted
    <3> QED BY <3>1, <1>2, <1>3, <1>5 DEF k
  <2>4. ASSUME NEW s \in Record, s # r
        PROVE  /\ Len(notes'[s]) <= 1 + cuts
               /\ mapping[s].known \/ Len(notes'[s]) <= cuts
    BY <1>5, <2>1, <2>4 DEF IInv, Counted
  <2>5. cuts' = cuts /\ mapping' = mapping
    BY <1>1
  <2>6. ASSUME NEW s \in Record
        PROVE  /\ Len(notes'[s]) <= 1 + cuts
               /\ mapping[s].known \/ Linking(s)' \/ Len(notes'[s]) <= cuts
    BY <2>2, <2>3, <2>4
  <2> QED BY <2>5, <2>6 DEF Counted
<1> QED
  BY <1>9, <1>10, <1>11, <1>12, <1>13, <1>15, <1>16, <1>17 DEF IInv

LEMMA RecordMappingStep ==
  ASSUME IInv, NEW w \in Worker, RecordMapping(w)
  PROVE  IInv'
<1> DEFINE v == run[w].rec
           r == log[v]
           k == run[w].made
           q == Done(w, v)
           row == Upserted(mapping[r], k, v)
<1>1. /\ run[w].at = "map" /\ run[w].at \in Holding /\ notes[r][k].alive
      /\ UNCHANGED <<log, notes, stream, status, cuts, events>>
      /\ Move(w, q)
      /\ mapping' = [mapping EXCEPT ![r] = row]
  BY DEF RecordMapping, Holding, counters
<1>2. /\ run[w] \in Runs /\ v \in run[w].todo /\ v \in Nat /\ r \in Record
      /\ k \in DOMAIN notes[r] /\ k \in Nat /\ mapping \in [Record -> Rows]
  <2>1. /\ run[w] \in Runs /\ log \in Seq(Record) /\ run[w].todo \subseteq DOMAIN log
        /\ notes \in [Record -> Seq(Notes)] /\ mapping \in [Record -> Rows]
    BY DEF IInv, TypeOK
  <2>2. v \in run[w].todo /\ k \in DOMAIN notes[r]
    BY <1>1 DEF IInv, RowsSeen, NotesMade
  <2>3. v \in DOMAIN log /\ v \in Nat /\ r \in Record
    BY <2>1, <2>2
  <2>4. k \in Nat
    BY <2>1, <2>2, <2>3, NoteTyped
  <2> QED BY <2>1, <2>2, <2>3, <2>4
<1>3. /\ row \in Rows /\ row.known
      /\ row = mapping[r] \/ row.note = k
  BY <1>2 DEF Upserted, Rows
<1>4. /\ q \in Runs /\ q.at = "apply" /\ q.todo \subseteq run[w].todo
  BY <1>2, DoneType DEF Done, Runs, IInv, TypeOK
<1> HIDE DEF q, row
<1>5. /\ run' \in [Worker -> Runs] /\ run'[w] = q
      /\ \A x \in Worker : x # w => run'[x] = run[x]
      /\ \A x \in Worker : x # w => run'[x].at \notin Working
      /\ \A x \in Worker : x # w => run[x].at \notin Working
  BY <1>1, <1>4, OnlyWorking
<1>6. /\ mapping' \in [Record -> Rows] /\ mapping'[r] = row
      /\ \A s \in Record : s # r => mapping'[s] = mapping[s]
  BY <1>1, <1>2, <1>3
<1>7. TypeOK'
  <2>1. RowsAlive'
    <3> SUFFICES ASSUME NEW s \in Record, mapping'[s].note # 0
                 PROVE  /\ mapping'[s].known /\ mapping'[s].note \in DOMAIN notes[s]
                        /\ notes[s][mapping'[s].note].alive
      BY <1>1 DEF RowsAlive
    <3>1. CASE mapping'[s] = mapping[s]
      BY <3>1 DEF IInv, TypeOK, RowsAlive
    <3>2. CASE s = r /\ row.note = k
      BY <3>2, <1>1, <1>2, <1>3, <1>6
    <3> QED BY <3>1, <3>2, <1>3, <1>6
  <2> QED BY <2>1, <1>1, <1>4, <1>5, <1>6 DEF IInv, TypeOK
<1>8. Alone'
  <2>1. q.at \in Holding /\ stream.leased
    BY <1>1, <1>4 DEF IInv, Alone, Holding
  <2> QED BY <1>1, <1>4, <2>1, AloneStep
<1>9. HasLatest' /\ NotesKnown'
  BY <1>1 DEF IInv, HasLatest, NotesKnown, Changes
<1>10. PagesKnown'
  BY <1>1, <1>4, <1>5 DEF IInv, PagesKnown, Working
<1>11. RowsSeen' /\ NotesMade'
  BY <1>4, <1>5 DEF RowsSeen, NotesMade, Working
<1>12. Counted'
  <2>1. ASSUME NEW s \in Record
        PROVE  /\ Len(notes[s]) <= 1 + cuts
               /\ mapping'[s].known \/ Len(notes[s]) <= cuts
    <3>1. CASE s = r
      BY <3>1, <1>3, <1>6 DEF IInv, Counted
    <3>2. CASE s # r
      <4>1. ~Linking(s)
        BY <3>2, <1>5 DEF Linking, Working
      <4> QED BY <3>2, <4>1, <1>6 DEF IInv, Counted
    <3> QED BY <3>1, <3>2
  <2> QED BY <1>1, <2>1 DEF Counted
<1> QED BY <1>7, <1>8, <1>9, <1>10, <1>11, <1>12 DEF IInv
-----------------------------------------------------------------------------
(* The provider and the person.                                            *)

LEMMA ChangeRecordStep ==
  ASSUME IInv, NEW r \in Record, ChangeRecord(r)
  PROVE  IInv'
<1> DEFINE top == Len(log) + 1
<1>1. log' = Append(log, r)
      /\ UNCHANGED <<notes, mapping, stream, status, run, cuts, events>>
  BY DEF ChangeRecord, counters
<1>2. /\ log \in Seq(Record) /\ Len(log) \in Nat /\ log' \in Seq(Record)
      /\ top \in Nat /\ DOMAIN log' = DOMAIN log \cup {top}
      /\ log'[top] = r
      /\ \A n \in DOMAIN log : n \in Nat /\ n <= top /\ log'[n] = log[n]
  BY <1>1 DEF IInv, TypeOK
<1> HIDE DEF top
<1>3. \A s \in Record :
        /\ Changes(s) \subseteq Changes(s)'
        /\ \A n \in Changes(s)' : n \in Changes(s) \/ (s = r /\ n = top)
        /\ s = r => top \in Changes(s)'
  BY <1>2 DEF Changes
<1>4. HasLatest'
  <2> SUFFICES ASSUME NEW s \in Record, Changes(s)' # {}
               PROVE  \E n \in Changes(s)' : \A m \in Changes(s)' : m <= n
    BY DEF HasLatest
  <2>1. CASE s = r
    <3>1. \A m \in Changes(s)' : m <= top
      BY <1>2, <1>3 DEF Changes
    <3> QED BY <2>1, <3>1, <1>3
  <2>2. CASE s # r
    <3>1. Changes(s)' = Changes(s)
      BY <2>2, <1>3
    <3> QED BY <3>1 DEF IInv, HasLatest
  <2> QED BY <2>1, <2>2
<1>5. NotesKnown'
  <2> SUFFICES ASSUME NEW s \in Record, NEW k \in DOMAIN notes[s]
               PROVE  /\ notes[s][k].shown > 0
                      /\ \E n \in Changes(s)' : notes[s][k].shown <= n
    BY <1>1 DEF NotesKnown
  <2> QED BY <1>3 DEF IInv, NotesKnown
<1>6. \A x \in Worker : \A n \in run[x].todo : n \in DOMAIN log /\ log'[n] = log[n]
  BY <1>2 DEF IInv, TypeOK
<1>7. TypeOK'
  <2>1. RowsAlive'
    BY <1>1 DEF IInv, TypeOK, RowsAlive
  <2>2. \A x \in Worker : run[x].todo \subseteq DOMAIN log'
    BY <1>2, <1>6
  <2> QED BY <1>1, <1>2, <2>1, <2>2 DEF IInv, TypeOK
<1>8. Alone'
  BY <1>1 DEF IInv, Alone
<1>9. PagesKnown'
  BY <1>1, <1>6 DEF IInv, PagesKnown
<1>10. \A x \in Worker : run[x].at \in {"write", "map"} => log'[run[x].rec] = log[run[x].rec]
  BY <1>6 DEF IInv, RowsSeen
<1>11. RowsSeen'
  BY <1>1, <1>10 DEF IInv, RowsSeen
<1>12. NotesMade'
  BY <1>1, <1>10 DEF IInv, NotesMade
<1>13. Counted'
  <2>1. \A s \in Record : Linking(s) => Linking(s)'
    BY <1>1, <1>10 DEF Linking
  <2> QED BY <1>1, <2>1 DEF IInv, Counted
<1> QED
  BY <1>4, <1>5, <1>7, <1>8, <1>9, <1>11, <1>12, <1>13 DEF IInv

\* One note changes, but neither what it shows nor what it turned away.
Touched(r, k, note) ==
  /\ r \in Record /\ k \in DOMAIN notes[r] /\ note \in Notes
  /\ note.shown = notes[r][k].shown /\ note.passed = notes[r][k].passed
  /\ notes' = [notes EXCEPT ![r][k] = note]
  /\ \A s \in Record : mapping'[s].known = mapping[s].known
  /\ UNCHANGED <<log, run, stream, cuts>>

LEMMA TouchedStep ==
  ASSUME IInv, NEW r, NEW k, NEW note, Touched(r, k, note)
  PROVE  /\ notes' \in [Record -> Seq(Notes)]
         /\ notes'[r][k] = note
         /\ \A s \in Record : DOMAIN notes'[s] = DOMAIN notes[s]
         /\ \A s \in Record : \A i \in DOMAIN notes[s] :
              \/ notes'[s][i] = notes[s][i]
              \/ s = r /\ i = k
         /\ Alone' /\ HasLatest' /\ NotesKnown' /\ PagesKnown' /\ NotesMade'
         /\ Counted'
<1>1. /\ notes \in [Record -> Seq(Notes)] /\ log \in Seq(Record)
      /\ r \in Record /\ k \in DOMAIN notes[r] /\ note \in Notes
      /\ UNCHANGED <<log, run, stream, cuts>>
      /\ \A x \in Worker : run[x].todo \subseteq DOMAIN log
  BY DEF IInv, TypeOK, Touched
<1>2. /\ notes' \in [Record -> Seq(Notes)] /\ notes'[r][k] = note
      /\ \A s \in Record : /\ DOMAIN notes'[s] = DOMAIN notes[s]
                           /\ Len(notes'[s]) = Len(notes[s])
      /\ \A s \in Record : \A i \in DOMAIN notes[s] :
           notes'[s][i] = notes[s][i] \/ (s = r /\ i = k)
  <2> DEFINE f == [notes[r] EXCEPT ![k] = note]
  <2>1. notes[r] \in Seq(Notes)
    BY <1>1
  <2>2. f \in Seq(Notes) /\ DOMAIN f = DOMAIN notes[r] /\ Len(f) = Len(notes[r])
    BY <2>1, <1>1
  <2>3. f[k] = note /\ \A i \in DOMAIN notes[r] : i # k => f[i] = notes[r][i]
    BY <1>1
  <2>4. notes' = [notes EXCEPT ![r] = f]
    BY DEF Touched
  <2> HIDE DEF f
  <2>5. notes'[r] = f /\ \A s \in Record : s # r => notes'[s] = notes[s]
    BY <2>4, <1>1
  <2> QED BY <2>2, <2>3, <2>4, <2>5, <1>1
<1>3. \A s \in Record : \A i \in DOMAIN notes[s] :
        /\ notes'[s][i].shown = notes[s][i].shown
        /\ notes'[s][i].passed = notes[s][i].passed
  BY <1>2 DEF Touched
<1>4. Alone' /\ HasLatest'
  BY <1>1 DEF IInv, Alone, HasLatest, Changes
<1>5. NotesKnown'
  BY <1>1, <1>2, <1>3 DEF IInv, NotesKnown, Changes
<1>6. PagesKnown'
  <2>1. \A x \in Worker : \A v \in run[x].todo : log[v] \in Record
    BY <1>1
  <2>2. ASSUME NEW x \in Worker, run[x].at \in Working, NEW v \in run[x].todo
        PROVE  /\ \A i \in DOMAIN notes'[log[v]] : notes'[log[v]][i].shown <= v
               /\ \A u \in run[x].todo : log[u] = log[v] => u = v
    <3>1. /\ \A i \in DOMAIN notes[log[v]] : notes[log[v]][i].shown <= v
          /\ \A u \in run[x].todo : log[u] = log[v] => u = v
      BY <2>2 DEF IInv, PagesKnown
    <3>2. log[v] \in Record
      BY <2>1
    <3>3. \A i \in DOMAIN notes[log[v]] :
            notes'[log[v]][i].shown = notes[log[v]][i].shown
      BY <1>3, <3>2
    <3> QED BY <1>2, <3>1, <3>2, <3>3
  <2>3. run' = run /\ log' = log
    BY <1>1
  <2> QED BY <2>2, <2>3 DEF PagesKnown
<1>7. NotesMade'
  <2>1. \A x \in Worker : run[x].at = "map" => log[run[x].rec] \in Record
    BY <1>1 DEF IInv, RowsSeen
  <2>2. ASSUME NEW x \in Worker, run[x].at = "map"
        PROVE  /\ run[x].made \in DOMAIN notes'[log[run[x].rec]]
               /\ notes'[log[run[x].rec]][run[x].made].shown = run[x].rec
               /\ run[x].saw.known => run[x].made = run[x].saw.note
               /\ ~run[x].saw.known =>
                    notes'[log[run[x].rec]][run[x].made].passed = 0
    <3>1. /\ run[x].made \in DOMAIN notes[log[run[x].rec]]
          /\ notes[log[run[x].rec]][run[x].made].shown = run[x].rec
          /\ run[x].saw.known => run[x].made = run[x].saw.note
          /\ ~run[x].saw.known =>
               notes[log[run[x].rec]][run[x].made].passed = 0
      BY <2>2 DEF IInv, NotesMade
    <3>2. log[run[x].rec] \in Record
      BY <2>1, <2>2
    <3> QED BY <1>2, <1>3, <3>1, <3>2
  <2>3. run' = run /\ log' = log
    BY <1>1
  <2> QED BY <2>2, <2>3 DEF NotesMade
<1>8. Counted'
  <2>1. \A s \in Record : Linking(s) => Linking(s)'
    BY <1>1 DEF Linking
  <2> QED BY <1>1, <1>2, <2>1 DEF IInv, Counted, Touched
<1> QED BY <1>2, <1>4, <1>5, <1>6, <1>7, <1>8

LEMMA EditNoteStep ==
  ASSUME IInv, NEW r \in Record, NEW k \in DOMAIN notes[r], EditNote(r, k)
  PROVE  /\ IInv'
         /\ \E note \in Notes : Touched(r, k, note) /\ note.alive
<1> DEFINE old == notes[r][k]
<1>1. old \in Notes /\ old.alive /\ notes \in [Record -> Seq(Notes)]
  BY NoteTyped DEF IInv, TypeOK, EditNote
<1>2. UNCHANGED <<log, mapping, stream, status, run, cuts>>
  BY DEF EditNote
<1>3. PICK note \in Notes :
        /\ note.shown = old.shown /\ note.passed = old.passed /\ note.alive
        /\ notes' = [notes EXCEPT ![r][k] = note]
  <2>1. CASE notes' = [notes EXCEPT ![r][k].text = @ + 1]
    <3> DEFINE more == old.text + 1
               note == [old EXCEPT !.text = more]
    <3>1. more \in Nat
      BY <1>1 DEF Notes
    <3>2. notes' = [notes EXCEPT ![r][k] = note]
      BY <2>1, <1>1
    <3> HIDE DEF more
    <3>3. note \in Notes /\ note.shown = old.shown /\ note.passed = old.passed
          /\ note.alive
      BY <1>1, <3>1 DEF Notes
    <3> QED BY <3>2, <3>3
  <2>2. ASSUME NEW b \in BOOLEAN, notes' = [notes EXCEPT ![r][k].marked = b]
        PROVE  \E note \in Notes :
                 /\ note.shown = old.shown /\ note.passed = old.passed /\ note.alive
                 /\ notes' = [notes EXCEPT ![r][k] = note]
    <3> DEFINE note == [old EXCEPT !.marked = b]
    <3>1. note \in Notes /\ note.shown = old.shown /\ note.passed = old.passed
          /\ note.alive
      BY <1>1 DEF Notes
    <3>2. notes' = [notes EXCEPT ![r][k] = note]
      BY <2>2
    <3> QED BY <3>1, <3>2
  <2> QED BY <2>1, <2>2 DEF EditNote
<1>4. Touched(r, k, note)
  BY <1>2, <1>3 DEF Touched
<1>5. /\ notes' \in [Record -> Seq(Notes)] /\ notes'[r][k] = note
      /\ \A s \in Record : DOMAIN notes'[s] = DOMAIN notes[s]
      /\ \A s \in Record : \A i \in DOMAIN notes[s] :
           notes'[s][i] = notes[s][i] \/ (s = r /\ i = k)
      /\ Alone' /\ HasLatest' /\ NotesKnown' /\ PagesKnown' /\ NotesMade'
      /\ Counted'
  BY <1>4, TouchedStep
<1>6. \A s \in Record : \A i \in DOMAIN notes[s] :
        notes'[s][i].alive = notes[s][i].alive
  BY <1>1, <1>3, <1>5
<1>7. TypeOK'
  <2>1. RowsAlive'
    BY <1>2, <1>5, <1>6 DEF IInv, TypeOK, RowsAlive
  <2>2. events' \in Nat
    BY DEF IInv, TypeOK, EditNote, Event
  <2> QED BY <1>2, <1>5, <2>1, <2>2 DEF IInv, TypeOK
<1>8. RowsSeen'
  <2>1. \A x \in Worker : run[x].at \in {"write", "map"} => log[run[x].rec] \in Record
    <3>1. \A x \in Worker : run[x].at \in {"write", "map"} => run[x].rec \in run[x].todo
      BY DEF IInv, RowsSeen
    <3>2. log \in Seq(Record) /\ \A x \in Worker : run[x].todo \subseteq DOMAIN log
      BY DEF IInv, TypeOK
    <3> QED BY <3>1, <3>2
  <2> QED BY <1>2, <1>5, <1>6, <2>1, SMTT(30) DEF IInv, RowsSeen
<1> QED BY <1>3, <1>4, <1>5, <1>7, <1>8 DEF IInv

LEMMA DeleteNoteStep ==
  ASSUME IInv, NEW r \in Record, NEW k \in DOMAIN notes[r], DeleteNote(r, k)
  PROVE  /\ IInv'
         /\ \E note \in Notes : Touched(r, k, note) /\ ~note.alive
<1> DEFINE old == notes[r][k]
           note == [old EXCEPT !.alive = FALSE]
<1>1. /\ old \in Notes /\ notes \in [Record -> Seq(Notes)] /\ k \in Nat
      /\ mapping \in [Record -> Rows]
  BY NoteTyped DEF IInv, TypeOK
<1>2. UNCHANGED <<log, stream, status, run, cuts>>
  BY DEF DeleteNote
<1>3. /\ note \in Notes /\ note.shown = old.shown /\ note.passed = old.passed
      /\ ~note.alive
  BY <1>1 DEF Notes
<1>4. notes' = [notes EXCEPT ![r][k] = note]
  BY DEF DeleteNote
<1> HIDE DEF note
<1>5. /\ mapping' \in [Record -> Rows]
      /\ \A s \in Record :
           /\ mapping'[s].known = mapping[s].known
           /\ mapping'[s].version = mapping[s].version
           /\ IF s = r /\ mapping[s].note = k THEN mapping'[s].note = 0
              ELSE mapping'[s].note = mapping[s].note
  <2>1. CASE mapping[r].note = k
    <3>1. [mapping[r] EXCEPT !.note = 0] \in Rows
      BY <1>1 DEF Rows
    <3>2. mapping' = [mapping EXCEPT ![r].note = 0]
      BY <2>1 DEF DeleteNote
    <3> QED BY <1>1, <2>1, <3>1, <3>2 DEF Rows
  <2>2. CASE mapping[r].note # k
    BY <1>1, <2>2 DEF DeleteNote
  <2> QED BY <2>1, <2>2
<1>6. Touched(r, k, note)
  BY <1>2, <1>3, <1>4, <1>5 DEF Touched
<1>7. /\ notes' \in [Record -> Seq(Notes)] /\ notes'[r][k] = note
      /\ \A s \in Record : DOMAIN notes'[s] = DOMAIN notes[s]
      /\ \A s \in Record : \A i \in DOMAIN notes[s] :
           notes'[s][i] = notes[s][i] \/ (s = r /\ i = k)
      /\ Alone' /\ HasLatest' /\ NotesKnown' /\ PagesKnown' /\ NotesMade'
      /\ Counted'
  BY <1>6, TouchedStep
<1>8. TypeOK'
  <2>1. RowsAlive'
    <3> SUFFICES ASSUME NEW s \in Record, mapping'[s].note # 0
                 PROVE  /\ mapping'[s].known /\ mapping'[s].note \in DOMAIN notes'[s]
                        /\ notes'[s][mapping'[s].note].alive
      BY DEF RowsAlive
    <3>1. mapping'[s].note = mapping[s].note /\ ~(s = r /\ mapping[s].note = k)
      BY <1>5
    <3>2. /\ mapping[s].known /\ mapping[s].note \in DOMAIN notes[s]
          /\ notes[s][mapping[s].note].alive
      BY <3>1 DEF IInv, TypeOK, RowsAlive
    <3> QED BY <3>1, <3>2, <1>5, <1>7
  <2>2. events' \in Nat
    BY DEF IInv, TypeOK, DeleteNote, Event
  <2> QED BY <1>2, <1>5, <1>7, <2>1, <2>2 DEF IInv, TypeOK
<1>9. RowsSeen'
  <2> SUFFICES ASSUME NEW x \in Worker, run[x].at \in {"write", "map"}
               PROVE  LET q == run[x]
                          s == log[q.rec]
                      IN  /\ q.rec \in q.todo
                          /\ q.saw.known = mapping'[s].known
                          /\ q.saw.known =>
                               /\ q.saw.note \in DOMAIN notes'[s]
                               /\ mapping'[s].version < q.rec
                               /\ \/ mapping'[s].note = q.saw.note
                                  \/ /\ mapping'[s].note = 0
                                     /\ ~notes'[s][q.saw.note].alive
    BY <1>2 DEF RowsSeen
  <2> DEFINE q == run[x]
             s == log[q.rec]
  <2>1. /\ q.rec \in q.todo /\ q.saw.known = mapping[s].known
        /\ q.saw.known =>
             /\ q.saw.note \in DOMAIN notes[s]
             /\ mapping[s].version < q.rec
             /\ \/ mapping[s].note = q.saw.note
                \/ mapping[s].note = 0 /\ ~notes[s][q.saw.note].alive
    BY DEF IInv, RowsSeen
  <2>2. s \in Record
    BY <2>1 DEF IInv, TypeOK
  <2>3. ASSUME q.saw.known
        PROVE  \/ mapping'[s].note = q.saw.note
               \/ mapping'[s].note = 0 /\ ~notes'[s][q.saw.note].alive
    <3>1. CASE s = r /\ q.saw.note = k
      BY <1>3, <1>5, <1>7, <2>1, <2>2, <2>3, <3>1
    <3>2. CASE ~(s = r /\ q.saw.note = k)
      <4>1. notes'[s][q.saw.note] = notes[s][q.saw.note]
        BY <1>7, <2>1, <2>2, <2>3, <3>2
      <4>2. CASE s = r /\ mapping[s].note = k
        <5>1. mapping[s].note # q.saw.note
          BY <3>2, <4>2
        <5> QED BY <5>1, <4>1, <2>1, <2>3, <1>5, <2>2, <4>2
      <4>3. CASE ~(s = r /\ mapping[s].note = k)
        <5>1. mapping'[s].note = mapping[s].note
          BY <1>5, <2>2, <4>3
        <5> QED BY <5>1, <4>1, <2>1, <2>3
      <4> QED BY <4>2, <4>3
    <3> QED BY <3>1, <3>2
  <2> QED BY <1>5, <1>7, <2>1, <2>2, <2>3
<1> QED BY <1>3, <1>6, <1>7, <1>8, <1>9 DEF IInv

\* The lease runs out only where no run holds it; a pause or a resume touches
\* the status alone.
LEMMA OtherStep ==
  ASSUME IInv, ~Overrun, Expire \/ Pause \/ Resume
  PROVE  IInv' /\ UNCHANGED <<log, notes, mapping>>
<1>1. /\ UNCHANGED <<log, notes, mapping, run, cuts>> /\ events' \in Nat
      /\ stream' \in StreamRow /\ status' \in Statuses
      /\ stream'.leased = stream.leased \/ \A w \in Worker : run[w].at \notin Holding
  <2>1. stream \in StreamRow /\ status \in Statuses /\ events \in Nat
    BY DEF IInv, TypeOK, StreamRow
  <2>2. CASE Expire
    <3>1. [stream EXCEPT !.leased = FALSE] \in StreamRow
      BY <2>1 DEF StreamRow
    <3> QED BY <2>1, <2>2, <3>1 DEF Expire, counters
  <2>3. CASE Pause
    BY <2>1, <2>3 DEF Pause, Event, Statuses
  <2>4. CASE Resume
    BY <2>1, <2>4 DEF Resume, counters, Statuses
  <2> QED BY <2>2, <2>3, <2>4
<1>2. Alone'
  BY <1>1 DEF IInv, Alone
<1>3. TypeOK'
  BY <1>1 DEF IInv, TypeOK, RowsAlive, StreamRow
<1>4. HasLatest' /\ NotesKnown' /\ PagesKnown'
  BY <1>1 DEF IInv, HasLatest, NotesKnown, PagesKnown, Changes
<1>5. RowsSeen' /\ NotesMade'
  BY <1>1 DEF IInv, RowsSeen, NotesMade
<1>6. Counted'
  BY <1>1 DEF IInv, Counted, Linking
<1> QED BY <1>1, <1>2, <1>3, <1>4, <1>5, <1>6 DEF IInv

-----------------------------------------------------------------------------
(* The theorems about types and counts.                                    *)

LEMMA NextIInv ==
  ASSUME ~Overrun, IInv, [Next]_vars
  PROVE  IInv'
<1>1. ASSUME NEW w \in Worker, Lifecycle(w) PROVE IInv'
  BY <1>1, LifecycleStep
<1>2. ASSUME NEW w \in Worker,
             Fetch(w) \/ Look(w) \/ Rewrite(w) \/ Create(w) \/ RecordMapping(w)
      PROVE  IInv'
  BY <1>2, FetchStep, LookStep, RewriteStep, CreateStep, RecordMappingStep
<1>3. ASSUME NEW r \in Record, ChangeRecord(r) PROVE IInv'
  BY <1>3, ChangeRecordStep
<1>4. ASSUME NEW r \in Record, NEW k \in DOMAIN notes[r],
             EditNote(r, k) \/ DeleteNote(r, k)
      PROVE  IInv'
  BY <1>4, EditNoteStep, DeleteNoteStep
<1>5. CASE Expire \/ Pause \/ Resume
  BY <1>5, OtherStep
<1>6. CASE UNCHANGED vars
  <2>1. UNCHANGED <<log, notes, mapping, stream, status, run, cuts, events>>
    BY <1>6 DEF vars
  <2>2. TypeOK'
    BY <2>1 DEF IInv, TypeOK, RowsAlive
  <2>3. HasLatest' /\ NotesKnown' /\ PagesKnown' /\ Alone'
    BY <2>1 DEF IInv, HasLatest, NotesKnown, PagesKnown, Changes, Alone
  <2>4. RowsSeen' /\ NotesMade'
    BY <2>1 DEF IInv, RowsSeen, NotesMade
  <2>5. Counted'
    BY <2>1 DEF IInv, Counted, Linking
  <2> QED BY <2>2, <2>3, <2>4, <2>5 DEF IInv
<1> QED BY <1>1, <1>2, <1>3, <1>4, <1>5, <1>6 DEF Next, Step, Lifecycle

LEMMA SyncInvariant ==
  ASSUME ~Overrun
  PROVE  Spec => []IInv
<1>1. IInv /\ [Next]_vars => IInv'
  BY NextIInv
<1> QED BY <1>1, InitIInv, PTL DEF Spec

\* The variables keep their types; in particular a row that names a note names
\* one that is there and was not deleted (models/providers/sync.py:190).
THEOREM SyncTyped ==
  ASSUME ~Overrun
  PROVE  Spec => []TypeOK
<1>1. IInv => TypeOK
  BY DEF IInv
<1> QED BY <1>1, SyncInvariant, PTL

\* However runs interleave, die and are repeated, a record has at most one note
\* more than runs died: apply_record's "exactly once" up to the crash between
\* its two commits.
THEOREM SyncMadeOnce ==
  ASSUME ~Overrun
  PROVE  Spec => []MadeOncePerCut
<1>1. IInv => MadeOncePerCut
  BY DEF IInv, Counted, MadeOncePerCut
<1> QED BY <1>1, SyncInvariant, PTL
-----------------------------------------------------------------------------
(* The refinement of RecordMirror, step by step.                           *)

\* A step that leaves the record's row, its linked note and its newest version.
LEMMA MirrorStays ==
  ASSUME NEW r \in Record, Latest(r)' = Latest(r), mapping'[r] = mapping[r],
         mapping[r].note # 0 =>
           notes'[r][mapping[r].note] = notes[r][mapping[r].note]
  PROVE  [Mirror(r)!Next]_(Mirror(r)!vars)
<1>1. CASE Scheduled' = Scheduled
  BY <1>1 DEF Mirror!vars, Linked, NoteOf
<1>2. CASE Scheduled' # Scheduled
  <2>1. Scheduled' = ~Scheduled
    BY <1>2 DEF Scheduled
  <2>2. Mirror(r)!Reschedule
    BY <2>1 DEF Mirror!Reschedule, Mirror!note, Linked, NoteOf
  <2> QED BY <2>2 DEF Mirror!Next
<1> QED BY <1>1, <1>2

LEMMA SameHistory ==
  ASSUME NEW r \in Record, UNCHANGED log
  PROVE  Latest(r)' = Latest(r) /\ Changes(r)' = Changes(r)
  BY DEF Latest, Changes

LEMMA MirrorChange ==
  ASSUME IInv, NEW r \in Record, NEW c \in Record, ChangeRecord(c), IInv'
  PROVE  [Mirror(r)!Next]_(Mirror(r)!vars)
<1>1. /\ log' = Append(log, c) /\ log \in Seq(Record) /\ Len(log) \in Nat
      /\ UNCHANGED <<notes, mapping, status>>
  BY DEF ChangeRecord, IInv, TypeOK
<1>2. CASE c # r
  <2>1. Changes(r)' = Changes(r)
    BY <1>1, <1>2 DEF Changes
  <2>2. Latest(r)' = Latest(r)
    BY <2>1 DEF Latest
  <2> QED BY <1>1, <2>2, MirrorStays
<1>3. CASE c = r
  <2>1. Len(log) + 1 \in Changes(r)'
    BY <1>1, <1>3 DEF Changes
  <2>2. /\ Latest(r)' \in Nat
        /\ \A n \in Changes(r)' : n <= Latest(r)'
    <3>1. PICK n \in Changes(r)' : \A m \in Changes(r)' : m <= n
      BY <2>1 DEF IInv, HasLatest
    <3>2. /\ Latest(r)' \in Changes(r)'
          /\ \A m \in Changes(r)' : m <= Latest(r)'
      BY <3>1 DEF Latest
    <3>3. Changes(r)' \subseteq Nat
      BY <1>1 DEF Changes
    <3> QED BY <3>2, <3>3
  <2>3. Latest(r) \in Nat /\ Latest(r) <= Len(log)
    BY <1>1, LatestIs DEF IInv, Changes
  <2>4. Latest(r)' > Latest(r)
    BY <1>1, <2>1, <2>2, <2>3
  <2>5. Mirror(r)!Change
    BY <1>1, <2>4 DEF Mirror!Change, Mirror!note, Linked, NoteOf, Scheduled
  <2> QED BY <2>5 DEF Mirror!Next
<1> QED BY <1>2, <1>3

LEMMA MirrorRewrite ==
  ASSUME IInv, NEW r \in Record, NEW w \in Worker, Rewrite(w)
  PROVE  [Mirror(r)!Next]_(Mirror(r)!vars)
<1> DEFINE v == run[w].rec
           c == log[v]
           k == run[w].saw.note
           note == notes[c][k]
<1>1. /\ run[w].at = "write" /\ run[w].saw.known
      /\ UNCHANGED <<log, mapping, stream, status, cuts, events>>
      /\ notes' = IF note.alive THEN [notes EXCEPT ![c][k] = Merged(@, v)]
                  ELSE notes
  BY DEF Rewrite, counters
<1>2. /\ v \in run[w].todo /\ k \in DOMAIN notes[c]
      /\ mapping[c].note = k \/ (mapping[c].note = 0 /\ ~note.alive)
  <2>1. run[w].at \in {"write", "map"} /\ RowsSeen
    BY <1>1 DEF IInv
  <2>2. v \in run[w].todo /\ k \in DOMAIN notes[c]
    BY <1>1, <2>1 DEF RowsSeen
  <2>3. mapping[c].note = k \/ (mapping[c].note = 0 /\ ~notes[c][k].alive)
    BY <1>1, <2>1 DEF RowsSeen
  <2> QED BY <2>2, <2>3
<1>3. /\ v \in DOMAIN log /\ v \in Nat /\ c \in Record /\ log \in Seq(Record)
      /\ notes \in [Record -> Seq(Notes)]
  BY <1>2 DEF IInv, TypeOK
<1>4. note \in Notes /\ k \in Nat /\ k # 0
  BY <1>2, <1>3, NoteTyped
<1>5. Latest(r)' = Latest(r)
  BY <1>1, SameHistory
<1>6. CASE ~note.alive \/ c # r
  <2>1. notes'[r] = notes[r]
    BY <1>1, <1>3, <1>6
  <2> QED BY <1>1, <1>5, <2>1, MirrorStays
<1>7. CASE note.alive /\ c = r
  <2>1. /\ mapping[r].note = k /\ mapping'[r].note = k
        /\ notes'[r][k] = Merged(note, v)
    BY <1>1, <1>2, <1>3, <1>7
  <2>2. Latest(r) \in Nat /\ v <= Latest(r) /\ v > 0
    <3>1. v \in Changes(r)
      BY <1>3, <1>7 DEF Changes
    <3> QED BY <1>3, <3>1, LatestIs DEF IInv
  <2>3. note.shown <= v /\ note.shown > 0 /\ note.shown \in Nat
    <3>1. note.shown <= v
      BY <1>1, <1>2 DEF IInv, PagesKnown, Working
    <3>2. note.shown > 0
      BY <1>2, <1>3 DEF IInv, NotesKnown
    <3> QED BY <3>1, <3>2, <1>4 DEF Notes
  <2>4. UNCHANGED <<mapping, status>> /\ Linked(r) /\ Linked(r)'
    BY <1>1, <1>4, <2>1 DEF Linked
  <2>5. NoteOf(r) = note /\ NoteOf(r)' = Merged(note, v)
    BY <1>7, <2>1 DEF NoteOf
  <2>6. CASE ~note.marked
    <3>1. Merged(note, v) = [note EXCEPT !.passed = v]
      BY <2>6 DEF Merged
    <3>2. /\ Merged(note, v).passed = v /\ Merged(note, v).shown = note.shown
          /\ Merged(note, v).text = note.text /\ Merged(note, v).marked = note.marked
      BY <3>1, <1>4 DEF Notes
    <3>3. v \in 1 .. Latest(r)
      BY <1>3, <2>2
    <3>4. Scheduled' = Scheduled /\ mapping'[r].known = mapping[r].known
      BY <2>4 DEF Scheduled
    <3>5. Mirror(r)!TurnAway
      BY <1>5, <2>4, <2>5, <2>6, <3>2, <3>3, <3>4 DEF Mirror!TurnAway
    <3> QED BY <3>5 DEF Mirror!Next
  <2>7. CASE note.marked
    <3>1. Merged(note, v) = [note EXCEPT !.shown = v]
      BY <2>7 DEF Merged
    <3>2. /\ Merged(note, v).shown = v /\ Merged(note, v).passed = note.passed
          /\ Merged(note, v).text = note.text /\ Merged(note, v).marked = note.marked
      BY <3>1, <1>4 DEF Notes
    <3>3. CASE note.shown = v
      BY <3>2, <3>3, <1>5, <2>4, <2>5 DEF Mirror!vars, Scheduled
    <3>4. CASE note.shown # v
      <4>1. v \in note.shown + 1 .. Latest(r)
        <5> DEFINE shown == note.shown
                   latest == Latest(r)
        <5>1. shown \in Nat /\ latest \in Nat /\ v \in Nat /\ shown <= v
              /\ v <= latest /\ shown # v
          BY <1>3, <2>2, <2>3, <3>4
        <5> HIDE DEF shown, latest, v
        <5>2. v \in shown + 1 .. latest
          BY <5>1
        <5> QED BY <5>2 DEF shown, latest
      <4>2. Mirror(r)!CatchUp
        BY <1>5, <2>3, <2>4, <2>5, <2>7, <3>2, <4>1 DEF Mirror!CatchUp, Scheduled
      <4> QED BY <4>2 DEF Mirror!Next
    <3> QED BY <3>3, <3>4
  <2> QED BY <2>6, <2>7
<1> QED BY <1>6, <1>7

LEMMA MirrorCreate ==
  ASSUME IInv, NEW r \in Record, NEW w \in Worker, Create(w)
  PROVE  [Mirror(r)!Next]_(Mirror(r)!vars)
<1> DEFINE c == log[run[w].rec]
           fresh == [shown |-> run[w].rec, text |-> 0, marked |-> TRUE,
                     passed |-> 0, alive |-> TRUE]
<1>1. /\ run[w].at = "write" /\ UNCHANGED <<log, mapping, status>>
      /\ notes' = [notes EXCEPT ![c] = Append(@, fresh)]
  BY DEF Create
<1>2. notes \in [Record -> Seq(Notes)] /\ run[w].rec \in Nat
  <2>1. /\ notes \in [Record -> Seq(Notes)] /\ log \in Seq(Record)
        /\ run[w].todo \subseteq DOMAIN log
    BY DEF IInv, TypeOK
  <2>2. run[w].rec \in run[w].todo
    BY <1>1 DEF IInv, RowsSeen
  <2> QED BY <2>1, <2>2
<1>3. fresh \in Notes /\ notes[r] \in Seq(Notes)
  BY <1>2 DEF Notes
<1> HIDE DEF fresh
<1>4. \A i \in DOMAIN notes[r] : notes'[r][i] = notes[r][i]
  <2>1. \A i \in DOMAIN notes[r] : Append(notes[r], fresh)[i] = notes[r][i]
    BY <1>3, AppendFacts
  <2>2. notes'[r] = notes[r] \/ notes'[r] = Append(notes[r], fresh)
    BY <1>1, <1>2
  <2> QED BY <2>1, <2>2
<1>5. mapping[r].note # 0 => mapping[r].note \in DOMAIN notes[r]
  BY DEF IInv, TypeOK, RowsAlive
<1>6. Latest(r)' = Latest(r)
  BY <1>1, SameHistory
<1> QED BY <1>1, <1>4, <1>5, <1>6, MirrorStays

LEMMA MirrorRecordMapping ==
  ASSUME IInv, NEW r \in Record, NEW w \in Worker, RecordMapping(w)
  PROVE  [Mirror(r)!Next]_(Mirror(r)!vars)
<1> DEFINE v == run[w].rec
           c == log[v]
           k == run[w].made
           row == Upserted(mapping[c], k, v)
<1>1. /\ run[w].at = "map" /\ notes[c][k].alive
      /\ UNCHANGED <<log, notes, status>>
      /\ mapping' = [mapping EXCEPT ![c] = row]
  BY DEF RecordMapping
<1>2. /\ v \in run[w].todo /\ k \in DOMAIN notes[c]
      /\ run[w].saw.known = mapping[c].known
      /\ notes[c][k].shown = v
      /\ run[w].saw.known =>
           /\ k = run[w].saw.note
           /\ mapping[c].version < v
           /\ mapping[c].note = k \/ (mapping[c].note = 0 /\ ~notes[c][k].alive)
      /\ ~run[w].saw.known => notes[c][k].passed = 0
  <2>1. run[w].at \in {"write", "map"} /\ RowsSeen /\ NotesMade
    BY <1>1 DEF IInv
  <2>2. /\ v \in run[w].todo /\ run[w].saw.known = mapping[c].known
        /\ run[w].saw.known =>
             /\ mapping[c].version < v
             /\ \/ mapping[c].note = run[w].saw.note
                \/ mapping[c].note = 0 /\ ~notes[c][run[w].saw.note].alive
    BY <2>1 DEF RowsSeen
  <2>3. /\ k \in DOMAIN notes[c] /\ notes[c][k].shown = v
        /\ run[w].saw.known => k = run[w].saw.note
        /\ ~run[w].saw.known => notes[c][k].passed = 0
    BY <1>1, <2>1 DEF NotesMade
  <2> QED BY <2>2, <2>3
<1>3. /\ v \in DOMAIN log /\ v \in Nat /\ c \in Record /\ log \in Seq(Record)
      /\ notes \in [Record -> Seq(Notes)] /\ mapping \in [Record -> Rows]
  BY <1>2 DEF IInv, TypeOK
<1>4. notes[c][k] \in Notes /\ k \in Nat /\ k # 0
  BY <1>2, <1>3, NoteTyped
<1>5. Latest(r)' = Latest(r)
  BY <1>1, SameHistory
<1>6. CASE c # r
  <2>1. mapping'[r] = mapping[r]
    BY <1>1, <1>3, <1>6
  <2> QED BY <1>1, <1>5, <2>1, MirrorStays
<1>7. CASE c = r /\ mapping[r].known
  <2>1. mapping[r].note = k
    BY <1>1, <1>2, <1>7
  <2>2. /\ mapping'[r].note = k /\ mapping'[r].known
    BY <1>1, <1>2, <1>3, <1>7, <2>1 DEF Upserted, Rows
  <2> QED BY <1>1, <1>5, <1>7, <2>1, <2>2
        DEF Mirror!vars, Linked, NoteOf, Scheduled
<1>8. CASE c = r /\ ~mapping[r].known
  <2>1. mapping[r].note = 0
    BY <1>8 DEF IInv, TypeOK, RowsAlive
  <2>2. mapping'[r].note = k /\ mapping'[r].known
    BY <1>1, <1>3, <1>8 DEF Upserted
  <2>3. ~Linked(r) /\ Linked(r)' /\ NoteOf(r)' = notes[r][k]
    BY <1>1, <1>4, <2>1, <2>2 DEF Linked, NoteOf
  <2>4. v \in 1 .. Latest(r)
    <3>1. v \in Changes(r)
      BY <1>3, <1>8 DEF Changes
    <3>2. Latest(r) \in Nat /\ v <= Latest(r)
      BY <1>3, <3>1, LatestIs DEF IInv
    <3> QED BY <1>3, <3>2
  <2>5. /\ notes[r][k].shown = v /\ notes[r][k].passed = 0
        /\ notes[r][k].text \in Nat /\ (~notes[r][k].marked) \in BOOLEAN
    BY <1>2, <1>4, <1>8 DEF Notes
  <2>6. Mirror(r)!Appear
    BY <1>1, <1>5, <1>8, <2>2, <2>3, <2>4, <2>5 DEF Mirror!Appear, Scheduled
  <2> QED BY <2>6 DEF Mirror!Next
<1> QED BY <1>6, <1>7, <1>8

LEMMA MirrorEditNote ==
  ASSUME IInv, NEW r \in Record, NEW c \in Record, NEW k \in DOMAIN notes[c],
         EditNote(c, k)
  PROVE  [Mirror(r)!Next]_(Mirror(r)!vars)
<1>1. PICK note \in Notes : Touched(c, k, note)
  BY EditNoteStep
<1>2. /\ notes'[c][k] = note
      /\ \A i \in DOMAIN notes[r] : notes'[r][i] = notes[r][i] \/ (r = c /\ i = k)
  BY <1>1, TouchedStep
<1>3. UNCHANGED <<log, mapping, status>>
  BY DEF EditNote
<1>4. Latest(r)' = Latest(r)
  BY <1>3, SameHistory
<1>5. mapping[r].note # 0 => mapping[r].note \in DOMAIN notes[r]
  BY DEF IInv, TypeOK, RowsAlive
<1>6. CASE ~(r = c /\ mapping[r].note = k)
  BY <1>2, <1>3, <1>4, <1>5, <1>6, MirrorStays
<1>7. CASE r = c /\ mapping[r].note = k
  <2> DEFINE old == notes[r][k]
  <2>1. old \in Notes /\ k \in Nat /\ k # 0 /\ notes \in [Record -> Seq(Notes)]
    BY <1>7, NoteTyped DEF IInv, TypeOK
  <2>2. Linked(r) /\ Linked(r)' /\ NoteOf(r) = old /\ NoteOf(r)' = notes'[r][k]
    BY <1>3, <1>7, <2>1 DEF Linked, NoteOf
  <2>3. old.shown > 0
    BY <1>7 DEF IInv, NotesKnown
  <2>4. notes'[r][k].shown = old.shown /\ notes'[r][k].passed = old.passed
    BY <1>1, <1>2, <1>7 DEF Touched
  <2>5. \/ /\ notes'[r][k].text = old.text + 1
           /\ notes'[r][k].marked = old.marked
        \/ /\ notes'[r][k].marked = ~old.marked
           /\ notes'[r][k].text = old.text
    <3>1. CASE notes' = [notes EXCEPT ![c][k].text = @ + 1]
      <4>1. notes'[r][k] = [old EXCEPT !.text = old.text + 1]
        BY <1>7, <2>1, <3>1
      <4> QED BY <4>1, <2>1 DEF Notes
    <3>2. CASE notes' = [notes EXCEPT ![c][k].marked = FALSE] /\ old.marked
      <4>1. notes'[r][k] = [old EXCEPT !.marked = FALSE]
        BY <1>7, <2>1, <3>2
      <4> QED BY <4>1, <2>1, <3>2 DEF Notes
    <3>3. CASE notes' = [notes EXCEPT ![c][k].marked = TRUE] /\ ~old.marked
      <4>1. notes'[r][k] = [old EXCEPT !.marked = TRUE]
        BY <1>7, <2>1, <3>3
      <4> QED BY <4>1, <2>1, <3>3 DEF Notes
    <3> QED BY <1>7, <3>1, <3>2, <3>3 DEF EditNote
  <2>6. Mirror(r)!Edit
    BY <1>3, <1>4, <2>2, <2>3, <2>4, <2>5 DEF Mirror!Edit, Scheduled
  <2> QED BY <2>6 DEF Mirror!Next
<1> QED BY <1>6, <1>7

LEMMA MirrorDeleteNote ==
  ASSUME IInv, NEW r \in Record, NEW c \in Record, NEW k \in DOMAIN notes[c],
         DeleteNote(c, k)
  PROVE  [Mirror(r)!Next]_(Mirror(r)!vars)
<1>1. PICK note \in Notes : Touched(c, k, note)
  BY DeleteNoteStep
<1>2. \A i \in DOMAIN notes[r] : notes'[r][i] = notes[r][i] \/ (r = c /\ i = k)
  BY <1>1, TouchedStep
<1>3. /\ UNCHANGED <<log, status>>
      /\ mapping' = IF mapping[c].note = k THEN [mapping EXCEPT ![c].note = 0]
                    ELSE mapping
  BY DEF DeleteNote
<1>4. Latest(r)' = Latest(r)
  BY <1>3, SameHistory
<1>5. mapping[r].note # 0 =>
        mapping[r].known /\ mapping[r].note \in DOMAIN notes[r]
  BY DEF IInv, TypeOK, RowsAlive
<1>6. mapping \in [Record -> Rows]
  BY DEF IInv, TypeOK
<1>7. CASE ~(r = c /\ mapping[r].note = k)
  <2>1. mapping'[r] = mapping[r]
    BY <1>3, <1>6, <1>7
  <2> QED BY <1>2, <1>4, <1>5, <1>7, <2>1, MirrorStays
<1>8. CASE r = c /\ mapping[r].note = k
  <2>1. k \in Nat /\ k # 0
    BY <1>8, NoteTyped DEF IInv, TypeOK
  <2>2. notes[r][k].shown > 0
    BY <1>8 DEF IInv, NotesKnown
  <2>3. mapping'[r] = [mapping[r] EXCEPT !.note = 0]
    BY <1>3, <1>6, <1>8
  <2>4. mapping'[r].note = 0 /\ mapping'[r].known
    BY <1>5, <1>6, <1>8, <2>1, <2>3 DEF Rows
  <2>5. Linked(r) /\ ~Linked(r)' /\ NoteOf(r) = notes[r][k]
    BY <1>8, <2>1, <2>4 DEF Linked, NoteOf
  <2>6. Mirror(r)!Delete
    BY <1>3, <1>4, <2>2, <2>4, <2>5 DEF Mirror!Delete, Scheduled
  <2> QED BY <2>6 DEF Mirror!Next
<1> QED BY <1>7, <1>8

LEMMA MirrorNext ==
  ASSUME ~Overrun, IInv, IInv', [Next]_vars, NEW r \in Record
  PROVE  [Mirror(r)!Next]_(Mirror(r)!vars)
<1>1. ASSUME UNCHANGED <<log, notes, mapping>>
      PROVE  [Mirror(r)!Next]_(Mirror(r)!vars)
  <2>1. Latest(r)' = Latest(r)
    BY <1>1, SameHistory
  <2> QED BY <1>1, <2>1, MirrorStays
<1>2. ASSUME NEW w \in Worker, Lifecycle(w) PROVE UNCHANGED <<log, notes, mapping>>
  BY <1>2, LifecycleMoves
<1>3. ASSUME NEW w \in Worker, Fetch(w) \/ Look(w)
      PROVE  UNCHANGED <<log, notes, mapping>>
  BY <1>3 DEF Fetch, Look
<1>4. ASSUME NEW w \in Worker, Rewrite(w) \/ Create(w) \/ RecordMapping(w)
      PROVE  [Mirror(r)!Next]_(Mirror(r)!vars)
  BY <1>4, MirrorRewrite, MirrorCreate, MirrorRecordMapping
<1>5. ASSUME NEW c \in Record, ChangeRecord(c)
      PROVE  [Mirror(r)!Next]_(Mirror(r)!vars)
  BY <1>5, MirrorChange
<1>6. ASSUME NEW c \in Record, NEW k \in DOMAIN notes[c],
             EditNote(c, k) \/ DeleteNote(c, k)
      PROVE  [Mirror(r)!Next]_(Mirror(r)!vars)
  BY <1>6, MirrorEditNote, MirrorDeleteNote
<1>7. ASSUME (Expire \/ Pause \/ Resume) \/ UNCHANGED vars
      PROVE  UNCHANGED <<log, notes, mapping>>
  BY <1>7 DEF Expire, Pause, Resume, vars
<1> QED
  BY <1>1, <1>2, <1>3, <1>4, <1>5, <1>6, <1>7 DEF Next, Step, Lifecycle

\* The engine implements the safety of RecordMirror for every record: through
\* every interleaving of workers, deaths, refusals, lost cursors and full walks
\* a linked note only moves to newer versions, keeps what a person wrote, and
\* stays deleted or taken over (apply_record, transform_content).
THEOREM SyncMirrored ==
  ASSUME ~Overrun
  PROVE  Spec => MirroredSafely
<1>1. ASSUME Init, NEW r \in Record PROVE Mirror(r)!Init
  <2>1. Latest(r) = 0
    BY <1>1 DEF Init, Latest, Changes
  <2>2. mapping[r].note = 0 /\ ~mapping[r].known /\ Scheduled
    BY <1>1 DEF Init, Unmapped, Scheduled
  <2> QED BY <2>1, <2>2 DEF Mirror!Init, Linked
<1>2. Init => \A r \in Record : Mirror(r)!Init
  BY <1>1
<1>3. IInv /\ IInv' /\ [Next]_vars =>
        \A r \in Record : [Mirror(r)!Next]_(Mirror(r)!vars)
  BY MirrorNext
<1>4. Spec => []IInv
  BY SyncInvariant
<1> QED BY <1>2, <1>3, <1>4, PTL DEF Spec, MirroredSafely
=============================================================================
